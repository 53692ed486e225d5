--------------------------- MODULE ShiftSwapClaims ---------------------------
(***************************************************************************)
(* Statements the comments of the swap code make that its interleavings    *)
(* and failures do not keep.  All but SettledSwapIsApproved hold as long   *)
(* as calls do not overlap; that one is broken by a single failure, and    *)
(* AppliedOnce has to allow for one.                                       *)
(***************************************************************************)
EXTENDS ShiftSwap, SequencesExt

Catalog == INSTANCE ShiftCatalog

\* "runs ONLY after both gates pass: ... the request reached final 'approved'
\* status" (applySwap): once no call works on a request, a swap that is on
\* the schedule is an approved one.
SettledSwapIsApproved ==
    \A r \in Requests :
        (swaps[r] # None /\ \A h \in Handlers : req[h] # r) =>
            (swaps[r].applied => status[r] = "approved")

\* "Atomic exchange: requester gets target's full shift tuple, and vice-versa"
\* (applySwap): one request exchanges its two cells once; a second exchange
\* would hand the shifts back.  Only an approval that stops between its COMMIT
\* and the status leaves room for one more.
AppliedOnce ==
    \A r \in Requests, c \in Cells :
        Cardinality({i \in DOMAIN cells[c].timeline : cells[c].timeline[i].by = r}) <= 1 + failures

\* "Returns the complete edit history for a specific employee + date"
\* (getCellTimeline): a history only grows.
HistoryIsAppended ==
    [][\A c \in Cells : IsPrefix(cells[c].timeline, cells'[c].timeline)]_vars

Commits(h) == pc[h] = "commit" /\ pc'[h] = "markApproved"

\* "Block ONLY on a NEWLY-introduced hard violation (a rule that PASSED at
\* submission but fails now)" (applySwap): what is written keeps the rules
\* that passed at submission.
NoNewViolation ==
    [][\A h \in Handlers : Commits(h) => StillValid(swaps[req[h]])]_vars

\* Between the shifts of two days in a row there is none of 1 to 9 hours.
NoShortRest(e, d) ==
    ({<<e, d>>, <<e, d + 1>>} \subseteq Cells /\ Off \notin {cells[<<e, d>>].shift, cells[<<e, d + 1>>].shift})
        => Catalog!Rest(cells[<<e, d>>].shift, cells[<<e, d + 1>>].shift) \notin 1 .. 9

\* A swap that leaves less than ten hours of rest does not pass (validateSwap),
\* where hours are counted from time of day to time of day without a date: after
\* an exchange that passed, nobody rests less from one day's shift to the next
\* day's, unless they touch or overlap, which counts as a day's rest.
RestIsCounted ==
    [][\A h \in Handlers : (Commits(h) /\ swaps[req[h]].rest_check_passed) =>
          \A c \in {swaps[req[h]].requester, swaps[req[h]].target} :
              NoShortRest(c[1], c[2] - 1)' /\ NoShortRest(c[1], c[2])']_vars
=============================================================================
