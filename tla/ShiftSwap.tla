----------------------------- MODULE ShiftSwap ------------------------------
(***************************************************************************)
(* Shift-swap requests and the live schedule they are written to.          *)
(*                                                                         *)
(* The code is src/backend/src/modules/requests/requests.service.ts        *)
(* (createShiftSwap, peerAccept, peerReject, approve with applySwap,       *)
(* reject) and ScheduleService.editCell, the planner's single-cell edit.   *)
(* Every HTTP call is a handler that issues one SQL statement after        *)
(* another; between two statements any other handler may run, since only   *)
(* the innermost part of applySwap is a transaction.  A handler is         *)
(* therefore a process h with a program counter pc[h] that names the       *)
(* statement it issues next, and one action is one statement with the      *)
(* checks the code makes on its result.  A thrown exception ends the       *)
(* handler: the refused call is the absence of a step, or a step back to   *)
(* "idle" when the handler had already begun.                              *)
(*                                                                         *)
(* Only swap requests are modelled, of one tenant.  RequestsService.cancel *)
(* has no action here: its route passes user.sub ?? user.userId, which the *)
(* User entity does not have, so the ownership check refuses every call.   *)
(***************************************************************************)
EXTENDS Integers, Sequences, FiniteSets

CONSTANTS
    Handlers,       \* concurrent HTTP calls the server has in progress
    Requests,       \* request ids (uuid())
    Cells,          \* rows of attendance_records: <<employee, date>>
    Shifts,         \* working shifts: marker, times, shift code, WFH flag
    Off,            \* a day off: scheduled_start is NULL
    Roster,         \* the imported schedule
    Female,         \* employees with gender = 'female'
    Midnight,       \* shifts for which isMidnightShift holds
    ShortRest,      \* <<s, t>>: restMinutes(end of s, start of t) < 600
    Manual,         \* timeline author that is not a swap request
    None,           \* SQL NULL, and the unused local of a handler
    MaxEdits,       \* bound: editCell calls
    MaxFailures     \* bound: failed statements

Schedulable == Shifts \cup {Off}

ASSUME RosterAssumption == Roster \in [Cells -> Schedulable]

ASSUME CellAssumption == \A c \in Cells : c = <<c[1], c[2]>> /\ c[2] \in Int

ASSUME BoundAssumption == MaxEdits \in Nat /\ MaxFailures \in Nat

VARIABLES
    status,         \* requests.status
    swaps,          \* rows of request_shift_swaps
    cells,          \* schedule tuple and notes timeline of attendance_records
    lock,           \* holder of the FOR UPDATE lock of each row
    pc,             \* the statement each handler issues next
    req,            \* the request each handler works on
    draft,          \* the swap row createShiftSwap is about to insert
    seen,           \* the two rows applySwap read under lock
    edit,           \* the cell, new value and row read by editCell
    edits,          \* editCell calls so far
    failures        \* failed statements so far

vars == <<status, swaps, cells, lock, pc, req, draft, seen, edit,
          edits, failures>>

-----------------------------------------------------------------------------
(* Tables and locals.                                                      *)

Statuses == {"peer_pending", "pending", "approved", "rejected"}

SwapRow == [requester : Cells, target : Cells,
            gender_check_passed : BOOLEAN, rest_check_passed : BOOLEAN,
            peer_accepted : BOOLEAN, peer_rejected : BOOLEAN,
            applied : BOOLEAN]

\* One entry of the JSON version history kept in attendance_records.notes.
TimelineEntry == [from : Schedulable, to : Schedulable,
                  by : Requests \cup {Manual}]

ASSUME NoneAssumption ==
    /\ None \notin Handlers \cup Requests
    /\ None \notin SwapRow \cup Statuses
    /\ None \notin Cells \X Cells
    /\ Manual \notin Requests
    /\ Off \notin Shifts

Row == [shift : Schedulable, timeline : Seq(TimelineEntry)]

EditCall == [cell : Cells, to : Schedulable, row : Row]

\* The statement a handler issues next, named after what it does.
Labels ==
    {"idle", "insertSwap", "accept", "acceptStatus", "reject", "rejectStatus",
     "readSwap", "recheck", "lockRequester", "lockTarget", "commit",
     "markApproved", "editWrite"}

NothingSeen == [mine |-> None, theirs |-> None]

Init ==
    /\ status = [r \in Requests |-> None]
    /\ swaps = [r \in Requests |-> None]
    /\ cells = [c \in Cells |-> [shift |-> Roster[c], timeline |-> <<>>]]
    /\ lock = [c \in Cells |-> None]
    /\ pc = [h \in Handlers |-> "idle"]
    /\ req = [h \in Handlers |-> None]
    /\ draft = [h \in Handlers |-> None]
    /\ seen = [h \in Handlers |-> NothingSeen]
    /\ edit = [h \in Handlers |-> None]
    /\ edits = 0
    /\ failures = 0

-----------------------------------------------------------------------------
(* validateSwap: the two hard rules, on the schedule as it is now.  The    *)
(* coverage check only warns, so it is left out.                           *)

\* Dates, before and after the cell, on which its employee has a shift.
DatesBefore(c) == {d \in Cells : d[1] = c[1] /\ d[2] < c[2] /\ cells[d].shift # Off}
DatesAfter(c)  == {d \in Cells : d[1] = c[1] /\ d[2] > c[2] /\ cells[d].shift # Off}

\* getAdjacentEnd, getAdjacentStart: the nearest such date, however far away.
AdjacentBefore(c) == {d \in DatesBefore(c) : \A x \in DatesBefore(c) : x[2] <= d[2]}
AdjacentAfter(c)  == {d \in DatesAfter(c) : \A x \in DatesAfter(c) : x[2] >= d[2]}

\* A female employee may not end up on a midnight shift.
GenderRule(a, b) ==
    /\ ~(a[1] \in Female /\ cells[b].shift \in Midnight)
    /\ ~(b[1] \in Female /\ cells[a].shift \in Midnight)

\* The employee of cell c keeps ten hours around shift s.
RestAround(c, s) ==
    /\ \A d \in AdjacentBefore(c) : <<cells[d].shift, s>> \notin ShortRest
    /\ \A d \in AdjacentAfter(c)  : <<s, cells[d].shift>> \notin ShortRest

RestRule(a, b) ==
    /\ RestAround(a, cells[b].shift)
    /\ RestAround(b, cells[a].shift)

-----------------------------------------------------------------------------
(* Helpers of the actions.                                                 *)

\* The locals of a handler that has returned or thrown.
Return(h) ==
    /\ pc' = [pc EXCEPT ![h] = "idle"]
    /\ req' = [req EXCEPT ![h] = None]
    /\ draft' = [draft EXCEPT ![h] = None]
    /\ seen' = [seen EXCEPT ![h] = NothingSeen]
    /\ edit' = [edit EXCEPT ![h] = None]

Goto(h, label) ==
    /\ pc' = [pc EXCEPT ![h] = label]
    /\ UNCHANGED <<req, draft, seen, edit>>

\* A call about request r arrives and its first statement has been answered.
Begin(h, r, label) ==
    /\ pc[h] = "idle"
    /\ pc' = [pc EXCEPT ![h] = label]
    /\ req' = [req EXCEPT ![h] = r]
    /\ UNCHANGED <<draft, seen, edit>>

\* Mutant: the transaction is never closed.
ReleaseLocks_Open(h) == h \in Handlers /\ UNCHANGED lock

\* COMMIT and ROLLBACK both release what the transaction of h has locked.
ReleaseLocks(h) ==
    lock' = [c \in Cells |-> IF lock[c] = h THEN None ELSE lock[c]]

\* Mutants: the label of the new shift is not found, the entry runs backwards,
\* and unreadable notes start the history afresh.
Written_NoLabel(row, to, by) ==
    [shift |-> to,
     timeline |-> Append(row.timeline, [from |-> row.shift, to |-> None, by |-> by])]
Written_Backwards(row, to, by) ==
    [shift |-> to,
     timeline |-> Append(row.timeline, [from |-> to, to |-> row.shift, by |-> by])]
Written_Afresh(row, to, by) ==
    [shift |-> to, timeline |-> <<[from |-> row.shift, to |-> to, by |-> by]>>]

\* buildNotes, and the push in editCell: the entry is appended to the history
\* of the row that was read, and the row shows the new shift.
Written(row, to, by) ==
    [shift |-> to,
     timeline |-> Append(row.timeline, [from |-> row.shift, to |-> to, by |-> by])]

bounds == <<edits, failures>>
database == <<status, swaps, cells, lock>>

-----------------------------------------------------------------------------
(* createShiftSwap.                                                        *)

\* Mutant: a new swap counts as accepted.
NewSwap_Accepted(a, b) ==
    [requester |-> a, target |-> b,
     gender_check_passed |-> GenderRule(a, b),
     rest_check_passed |-> RestRule(a, b),
     peer_accepted |-> TRUE, peer_rejected |-> FALSE, applied |-> FALSE]

NewSwap(a, b) ==
    [requester |-> a, target |-> b,
     gender_check_passed |-> GenderRule(a, b),
     rest_check_passed |-> RestRule(a, b),
     peer_accepted |-> FALSE, peer_rejected |-> FALSE, applied |-> FALSE]

\* Both shifts are looked up and validated, then the request row is inserted.
\* The request id is fresh, so inserting it commutes with every other step.
\* The candidate list offers the cells of other employees that have a shift.
CreateShiftSwap(h, r, a, b) ==
    /\ status[r] = None
    /\ a[1] # b[1]
    /\ cells[a].shift # Off
    /\ cells[b].shift # Off
    /\ status' = [status EXCEPT ![r] = "peer_pending"]
    /\ pc[h] = "idle"
    /\ pc' = [pc EXCEPT ![h] = "insertSwap"]
    /\ req' = [req EXCEPT ![h] = r]
    /\ draft' = [draft EXCEPT ![h] = NewSwap(a, b)]
    /\ UNCHANGED <<swaps, cells, lock, seen, edit, bounds>>

\* The second INSERT: without it the request has no swap to accept.
InsertSwap(h) ==
    /\ pc[h] = "insertSwap"
    /\ swaps' = [swaps EXCEPT ![req[h]] = draft[h]]
    /\ Return(h)
    /\ UNCHANGED <<status, cells, lock, bounds>>

-----------------------------------------------------------------------------
(* peerAccept and peerReject.                                              *)

\* The JOIN finds the swap row and the request still waits for the colleague.
AssertSwapTarget(r) == swaps[r] # None /\ status[r] = "peer_pending"

PeerAccept(h, r) ==
    /\ AssertSwapTarget(r)
    /\ Begin(h, r, "accept")
    /\ UNCHANGED <<database, bounds>>

MarkAccepted(h) ==
    /\ pc[h] = "accept"
    /\ swaps' = [swaps EXCEPT ![req[h]].peer_accepted = TRUE]
    /\ Goto(h, "acceptStatus")
    /\ UNCHANGED <<status, cells, lock, bounds>>

\* The UPDATE has no condition on the status it replaces.
AcceptStatus(h) ==
    /\ pc[h] = "acceptStatus"
    /\ status' = [status EXCEPT ![req[h]] = "pending"]
    /\ Return(h)
    /\ UNCHANGED <<swaps, cells, lock, bounds>>

PeerReject(h, r) ==
    /\ AssertSwapTarget(r)
    /\ Begin(h, r, "reject")
    /\ UNCHANGED <<database, bounds>>

MarkRejected(h) ==
    /\ pc[h] = "reject"
    /\ swaps' = [swaps EXCEPT ![req[h]].peer_rejected = TRUE]
    /\ Goto(h, "rejectStatus")
    /\ UNCHANGED <<status, cells, lock, bounds>>

RejectStatus(h) ==
    /\ pc[h] = "rejectStatus"
    /\ status' = [status EXCEPT ![req[h]] = "rejected"]
    /\ Return(h)
    /\ UNCHANGED <<swaps, cells, lock, bounds>>

-----------------------------------------------------------------------------
(* approve and applySwap.                                                  *)

\* Mutants: the status is written before the schedule; an approved request can
\* be approved again.
Approve_StatusFirst(h, r) ==
    /\ status[r] = "pending"
    /\ Begin(h, r, "readSwap")
    /\ status' = [status EXCEPT ![r] = "approved"]
    /\ UNCHANGED <<swaps, cells, lock, bounds>>
Approve_Again(h, r) ==
    /\ status[r] \in {"pending", "approved"}
    /\ Begin(h, r, "readSwap")
    /\ UNCHANGED <<database, bounds>>

\* A swap is approved only from 'pending': 'peer_pending' has its own error.
Approve(h, r) ==
    /\ status[r] = "pending"
    /\ Begin(h, r, "readSwap")
    /\ UNCHANGED <<database, bounds>>

\* Gate 1: the colleague accepted and did not reject.
PeerAgreed(s) == s.peer_accepted /\ ~s.peer_rejected

\* applySwap reads the swap row.  Without one it returns and the request is
\* approved with nothing to apply; when the gate is closed it throws.
ReadSwap(h) ==
    /\ pc[h] = "readSwap"
    /\ \/ swaps[req[h]] = None /\ Goto(h, "markApproved")
       \/ swaps[req[h]] # None /\ PeerAgreed(swaps[req[h]]) /\ Goto(h, "recheck")
       \/ swaps[req[h]] # None /\ ~PeerAgreed(swaps[req[h]]) /\ Return(h)
    /\ UNCHANGED <<database, bounds>>

\* A rule that passed at submission must still pass on the current schedule.
StillValid(s) ==
    /\ s.gender_check_passed => GenderRule(s.requester, s.target)
    /\ s.rest_check_passed => RestRule(s.requester, s.target)

\* Mutant: the rules are checked at submission only.
Recheck_Skipped(h) ==
    /\ pc[h] = "recheck"
    /\ Goto(h, "lockRequester")
    /\ UNCHANGED <<database, bounds>>

\* The second validation runs before the transaction and outside of it.
Recheck(h) ==
    /\ pc[h] = "recheck"
    /\ \/ StillValid(swaps[req[h]]) /\ Goto(h, "lockRequester")
       \/ ~StillValid(swaps[req[h]]) /\ Return(h)
    /\ UNCHANGED <<database, bounds>>

\* SELECT ... FOR UPDATE of the requester's row: waits for the row lock.
LockRequester(h) ==
    LET c == swaps[req[h]].requester IN
    /\ pc[h] = "lockRequester"
    /\ lock[c] = None
    /\ lock' = [lock EXCEPT ![c] = h]
    /\ seen' = [seen EXCEPT ![h].mine = cells[c]]
    /\ pc' = [pc EXCEPT ![h] = "lockTarget"]
    /\ UNCHANGED <<status, swaps, cells, req, draft, edit, bounds>>

\* Mutant: the second SELECT lacks FOR UPDATE.
LockTarget_Unlocked(h) ==
    /\ pc[h] = "lockTarget"
    /\ seen' = [seen EXCEPT ![h].theirs = cells[swaps[req[h]].target]]
    /\ pc' = [pc EXCEPT ![h] = "commit"]
    /\ UNCHANGED <<database, req, draft, edit, bounds>>

\* SELECT ... FOR UPDATE of the colleague's row, holding the first lock.
LockTarget(h) ==
    LET c == swaps[req[h]].target IN
    /\ pc[h] = "lockTarget"
    /\ lock[c] = None
    /\ lock' = [lock EXCEPT ![c] = h]
    /\ seen' = [seen EXCEPT ![h].theirs = cells[c]]
    /\ pc' = [pc EXCEPT ![h] = "commit"]
    /\ UNCHANGED <<status, swaps, cells, req, draft, edit, bounds>>

\* Both rows are written from what was read under lock and the swap is marked
\* applied.  Other sessions see the three UPDATEs at once, at COMMIT.
CommitSwap(h) ==
    LET r == req[h]
        s == swaps[r]
        mine == seen[h].mine
        theirs == seen[h].theirs
    IN
    /\ pc[h] = "commit"
    /\ cells' = [cells EXCEPT ![s.requester] = Written(mine, theirs.shift, r),
                              ![s.target] = Written(theirs, mine.shift, r)]
    /\ swaps' = [swaps EXCEPT ![r].applied = TRUE]
    /\ ReleaseLocks(h)
    /\ seen' = [seen EXCEPT ![h] = NothingSeen]
    /\ pc' = [pc EXCEPT ![h] = "markApproved"]
    /\ UNCHANGED <<status, req, draft, edit, bounds>>

\* The status is written last, with no condition on what it is by now.
MarkApproved(h) ==
    /\ pc[h] = "markApproved"
    /\ status' = [status EXCEPT ![req[h]] = "approved"]
    /\ Return(h)
    /\ UNCHANGED <<swaps, cells, lock, bounds>>

\* reject tests only that the request exists: one unconditional UPDATE.
Reject(r) ==
    /\ status[r] # None
    /\ status' = [status EXCEPT ![r] = "rejected"]
    /\ UNCHANGED <<swaps, cells, lock, pc, req, draft, seen, edit, bounds>>

-----------------------------------------------------------------------------
(* ScheduleService.editCell.                                               *)

\* The row and its notes are read; rule violations are recorded, not refused.
EditCell(h, c, s) ==
    /\ pc[h] = "idle"
    /\ edits < MaxEdits
    /\ edits' = edits + 1
    /\ edit' = [edit EXCEPT ![h] = [cell |-> c, to |-> s, row |-> cells[c]]]
    /\ pc' = [pc EXCEPT ![h] = "editWrite"]
    /\ UNCHANGED <<database, req, draft, seen, failures>>

\* The whole row is written from what was read; the UPDATE waits for a lock.
EditWrite(h) ==
    LET e == edit[h] IN
    /\ pc[h] = "editWrite"
    /\ lock[e.cell] = None
    /\ cells' = [cells EXCEPT ![e.cell] = Written(e.row, e.to, Manual)]
    /\ Return(h)
    /\ UNCHANGED <<status, swaps, lock, bounds>>

-----------------------------------------------------------------------------
(* Failures, and the database's deadlock detector.                         *)

\* A statement fails, the connection is lost or the server stops: the handler
\* is gone, what it committed stays, its open transaction is rolled back.
Fail(h) ==
    /\ pc[h] # "idle"
    /\ failures < MaxFailures
    /\ failures' = failures + 1
    /\ ReleaseLocks(h)
    /\ Return(h)
    /\ UNCHANGED <<status, swaps, cells, edits>>

\* h waits for a row that g has locked.
WaitsFor(h, g) ==
    \/ pc[h] = "lockRequester" /\ lock[swaps[req[h]].requester] = g
    \/ pc[h] = "lockTarget" /\ lock[swaps[req[h]].target] = g

\* h is on a cycle of waiting transactions: a set of handlers in which each
\* waits for one of the set and is waited for by one of the set.
Deadlocked(h) ==
    \E S \in SUBSET Handlers :
        /\ h \in S
        /\ \A g \in S : (\E k \in S : WaitsFor(g, k)) /\ (\E k \in S : WaitsFor(k, g))

\* PostgreSQL aborts one transaction of the cycle; approve throws.
DeadlockAbort(h) ==
    /\ Deadlocked(h)
    /\ ReleaseLocks(h)
    /\ Return(h)
    /\ UNCHANGED <<status, swaps, cells, bounds>>

-----------------------------------------------------------------------------
(* The system.                                                             *)

\* A call arrives.
Call(h) ==
    \/ \E r \in Requests, a, b \in Cells : CreateShiftSwap(h, r, a, b)
    \/ \E r \in Requests : PeerAccept(h, r) \/ PeerReject(h, r) \/ Approve(h, r)
    \/ \E c \in Cells, s \in Schedulable : EditCell(h, c, s)

\* A handler whose statement has been answered goes on.
Step(h) ==
    \/ InsertSwap(h)
    \/ MarkAccepted(h) \/ AcceptStatus(h)
    \/ MarkRejected(h) \/ RejectStatus(h)
    \/ ReadSwap(h) \/ Recheck(h)
    \/ LockRequester(h) \/ LockTarget(h) \/ CommitSwap(h) \/ MarkApproved(h)
    \/ EditWrite(h)

Next ==
    \/ \E h \in Handlers : Call(h) \/ Step(h) \/ Fail(h) \/ DeadlockAbort(h)
    \/ \E r \in Requests : Reject(r)

Spec == Init /\ [][Next]_vars

\* The statements that wait for a row lock.
LockingStep(h) == LockRequester(h) \/ LockTarget(h) \/ EditWrite(h)

\* The event loop resumes every handler whose query has been answered, and
\* the database answers a query unless it waits for a lock.  Sessions that
\* wait for a row are queued, so one that waits is not overtaken for ever;
\* deadlock_timeout is finite.  Nobody has to send a call, and nothing has
\* to fail.
Fairness == \A h \in Handlers :
    WF_vars(Step(h)) /\ SF_vars(LockingStep(h)) /\ WF_vars(DeadlockAbort(h))

FairSpec == Spec /\ Fairness
-----------------------------------------------------------------------------
(* Properties.                                                             *)

\* Every table and every local has its type.
TypeOK ==
    /\ status \in [Requests -> Statuses \cup {None}]
    /\ swaps \in [Requests -> SwapRow \cup {None}]
    /\ cells \in [Cells -> Row]
    /\ lock \in [Cells -> Handlers \cup {None}]
    /\ pc \in [Handlers -> Labels]
    /\ req \in [Handlers -> Requests \cup {None}]
    /\ draft \in [Handlers -> SwapRow \cup {None}]
    /\ seen \in [Handlers -> [mine : Row \cup {None}, theirs : Row \cup {None}]]
    /\ edit \in [Handlers -> EditCall \cup {None}]
    /\ edits \in Nat
    /\ failures \in Nat

\* "the request stays pending rather than approved-but-unapplied" (the comment
\* in approve): whatever fails, races or is half-created, a swap that reads
\* 'approved' has been written to the schedule.
ApprovedIsApplied ==
    \A r \in Requests :
        status[r] = "approved" => swaps[r] # None /\ swaps[r].applied

\* A row lock is held exactly by the transaction that is going to write the
\* row: none outlives its transaction, however that ends, and a transaction
\* about to write holds both.
LocksAreOwned ==
    \A c \in Cells, h \in Handlers :
        lock[c] = h <=>
            \/ pc[h] = "lockTarget" /\ c = swaps[req[h]].requester
            \/ pc[h] = "commit"
               /\ c \in {swaps[req[h]].requester, swaps[req[h]].target}

\* The transaction of applySwap works on rows nobody else can change under it:
\* what it read is what is there until it commits, so the exchange never
\* writes back a shift or a history that a concurrent edit or swap replaced.
SnapshotsAreCurrent ==
    \A h \in Handlers :
        LET s == swaps[req[h]] IN
        /\ pc[h] \in {"lockTarget", "commit"} => seen[h].mine = cells[s.requester]
        /\ pc[h] = "commit" => seen[h].theirs = cells[s.target]

\* A history starts at the imported shift, each entry starts where the one
\* before ended, and the last ends at the shift the cell shows.
Linked(c, row) ==
    LET t == row.timeline IN
    IF t = <<>> THEN row.shift = Roster[c]
    ELSE /\ t[1].from = Roster[c]
         /\ t[Len(t)].to = row.shift
         /\ \A i \in 1 .. Len(t) - 1 : t[i].to = t[i + 1].from

\* getCellTimeline shows a history that explains the cell, however edits and
\* swaps of the same cell interleave.
TimelinesExplainCells == \A c \in Cells : Linked(c, cells[c])

\* Every call returns or throws, also when two approvals lock the two rows of
\* opposite swaps in opposite order, or an edit waits for a swap.
CallsEnd == \A h \in Handlers : pc[h] # "idle" ~> pc[h] = "idle"

\* The schedule seen as a ledger: only consented exchanges of two cells and
\* single-cell edits ever change it, each in one step.
Ledger == INSTANCE SwapLedger WITH
    schedule <- [c \in Cells |-> cells[c].shift],
    offer <- [r \in Requests |->
                 IF swaps[r] = None THEN None
                 ELSE <<swaps[r].requester, swaps[r].target>>],
    consented <- {r \in Requests : swaps[r] # None /\ swaps[r].peer_accepted}

ImplementsLedger == Ledger!Spec
=============================================================================
