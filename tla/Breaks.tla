------------------------------- MODULE Breaks -------------------------------
(***************************************************************************)
(* Break slots of one day and the requests to move them: submitRequest,    *)
(* approveRequest, rejectRequest, generate and recordActual of             *)
(* breaks.service.ts.  A request is granted at once when the headcount of  *)
(* the day and the live queues allow it, and waits for a reviewer if not.  *)
(* A call is a process h whose program counter pc[h] names the SQL         *)
(* statement it issues next; none of it uses a transaction.                *)
(*                                                                         *)
(* Windows are pairs <<start, end>> of times.  The plan that the scheduler *)
(* generates, the headcount and the snapshots of the queues are inputs.    *)
(* Minutes late, notes, notifications and the fairness ledger are left     *)
(* out: nothing here reads them.                                           *)
(***************************************************************************)
EXTENDS Integers, FiniteSets, FiniteSetsExt

CONSTANTS
    Handlers,       \* request handlers
    Slots,          \* ids of break_slots, one for each employee and number
    Plans,          \* the windows the scheduler may give to the slots
    Requests,       \* ids of break_requests
    Windows,        \* windows that are asked for
    Intervals,      \* windows of headcount_intervals
    Spare,          \* scheduled_hc - required_hc of each
    MinAvailable,   \* MIN_AVAILABLE_AFTER_BREAK
    Snapshots,      \* snapshots of the queues that may arrive
    MaxSnapshots,   \* bound: snapshots that arrive
    MaxPlans,       \* bound: calls of generate
    MaxFailures,    \* bound: failed statements and stopped calls
    None            \* no row, no slot, and an unused local

ASSUME BreaksAssumption ==
    /\ Windows \cup Intervals \subseteq {w \in Nat \X Nat : w[1] < w[2]}
    /\ Plans \subseteq [Slots -> Nat \X Nat] /\ IsFiniteSet(Slots)
    /\ Spare \in [Intervals -> Int]
    /\ Snapshots \subseteq [fresh : BOOLEAN, available : Nat, risk : BOOLEAN]
    /\ None \notin Slots \cup Requests \cup {"pending", "auto_approved", "approved", "rejected"}
    /\ MinAvailable \in Nat /\ MaxSnapshots \in Nat /\ MaxPlans \in Nat /\ MaxFailures \in Nat

VARIABLES
    planned,    \* window of each slot, None before it is generated
    marked,     \* break_slots.status
    asked,      \* what is requested: the slot, or None, and the window
    status,     \* break_requests.status; None: not inserted
    live,       \* the latest snapshot of the queues
    pc,         \* the statement each call issues next
    job,        \* the slot and window each call works on
    req,        \* the request each call works on
    fits,       \* scheduledOk, then autoApproveEligible
    plan,       \* the plan generate works on
    todo,       \* the slots generate still has to write
    snapshots, plans, failures  \* counted for the bounds

locals == <<job, req, fits, plan, todo>>
counters == <<snapshots, plans, failures>>
vars == <<planned, marked, asked, status, live, pc, locals, counters>>

Init ==
    /\ planned = [s \in Slots |-> None]
    /\ marked = [s \in Slots |-> None]
    /\ asked = [r \in Requests |-> None]
    /\ status = [r \in Requests |-> None]
    /\ live = None
    /\ pc = [h \in Handlers |-> "idle"]
    /\ job = [h \in Handlers |-> None]
    /\ req = [h \in Handlers |-> None]
    /\ fits = [h \in Handlers |-> FALSE]
    /\ plan = [h \in Handlers |-> None]
    /\ todo = [h \in Handlers |-> {}]
    /\ snapshots = 0 /\ plans = 0 /\ failures = 0

Return(h) ==
    /\ pc' = [pc EXCEPT ![h] = "idle"]
    /\ job' = [job EXCEPT ![h] = None]
    /\ req' = [req EXCEPT ![h] = None]
    /\ fits' = [fits EXCEPT ![h] = FALSE]
    /\ plan' = [plan EXCEPT ![h] = None]
    /\ todo' = [todo EXCEPT ![h] = {}]

-----------------------------------------------------------------------------
(* getCoverageSnapshot and getLiveQueueState.                              *)

\* Breaks that touch an interval, at its ends too, while they are due or on.
OnBreak(i) ==
    Cardinality({s \in Slots :
        /\ marked[s] \in {"scheduled", "active"}
        /\ i[1] <= planned[s][2] /\ i[2] >= planned[s][1]})

Gap(i) == Spare[i] - OnBreak(i)

\* Only the intervals that lie within the window are looked at: a window
\* shorter than they are meets none.
Within(w) == {i \in Intervals : i[1] >= w[1] /\ i[2] <= w[2]}

\* Math.min over the gaps with one more on break; no interval, no objection.
Allows(w, least) == \A i \in Within(w) : Gap(i) - 1 >= least

\* No snapshot, an old one, few agents or a queue at risk: a person decides.
LiveAllows ==
    /\ live # None
    /\ live.fresh /\ ~live.risk
    /\ live.available - 1 >= MinAvailable

-----------------------------------------------------------------------------
(* submitRequest.                                                          *)

\* Mutant: the agent who leaves is not counted.
Submit_Before(h, s, w) ==
    /\ pc[h] = "idle"
    /\ job' = [job EXCEPT ![h] = [slot |-> s, window |-> w]]
    /\ fits' = [fits EXCEPT ![h] = \A i \in Within(w) : Gap(i) >= 0]
    /\ pc' = [pc EXCEPT ![h] = "readLive"]
    /\ UNCHANGED <<planned, marked, asked, status, live, req, plan, todo, counters>>

\* The coverage is read first.
Submit(h, s, w) ==
    /\ pc[h] = "idle"
    /\ job' = [job EXCEPT ![h] = [slot |-> s, window |-> w]]
    /\ fits' = [fits EXCEPT ![h] = Allows(w, 0)]
    /\ pc' = [pc EXCEPT ![h] = "readLive"]
    /\ UNCHANGED <<planned, marked, asked, status, live, req, plan, todo, counters>>

\* A SELECT of the snapshot that fails finds none.
ReadLive(h) ==
    /\ pc[h] = "readLive"
    /\ \/ fits' = [fits EXCEPT ![h] = @ /\ LiveAllows] /\ UNCHANGED failures
       \/ /\ failures < MaxFailures /\ failures' = failures + 1
          /\ fits' = [fits EXCEPT ![h] = FALSE]
    /\ pc' = [pc EXCEPT ![h] = "insert"]
    /\ UNCHANGED <<planned, marked, asked, status, live, job, req, plan, todo, snapshots, plans>>

Insert(h, r) ==
    /\ pc[h] = "insert"
    /\ status[r] = None
    /\ asked' = [asked EXCEPT ![r] = job[h]]
    /\ status' = [status EXCEPT ![r] = IF fits[h] THEN "auto_approved" ELSE "pending"]
    /\ \/ /\ fits[h] /\ job[h].slot # None
          /\ pc' = [pc EXCEPT ![h] = "moveAndReset"]
          /\ req' = [req EXCEPT ![h] = r]
          /\ UNCHANGED <<job, fits, plan, todo>>
       \/ ~(fits[h] /\ job[h].slot # None) /\ Return(h)
    /\ UNCHANGED <<planned, marked, live, counters>>

\* An automatic grant makes the slot due again.
MoveAndReset(h) ==
    /\ pc[h] = "moveAndReset"
    /\ planned' = [planned EXCEPT ![job[h].slot] = job[h].window]
    /\ marked' = [marked EXCEPT ![job[h].slot] = "scheduled"]
    /\ Return(h)
    /\ UNCHANGED <<asked, status, live, counters>>

-----------------------------------------------------------------------------
(* approveRequest and rejectRequest.                                       *)

Read(h, r, step) ==
    /\ pc[h] = "idle"
    /\ status[r] = "pending"
    /\ pc' = [pc EXCEPT ![h] = step]
    /\ req' = [req EXCEPT ![h] = r]
    /\ job' = [job EXCEPT ![h] = asked[r]]
    /\ UNCHANGED <<planned, marked, asked, status, live, fits, plan, todo, counters>>

Approve(h, r) == Read(h, r, "recheck")

Reject(h, r) == Read(h, r, "reject")

\* A reviewer may go one below what is required, not two.
Recheck(h) ==
    /\ pc[h] = "recheck"
    /\ \/ /\ Allows(job[h].window, -1)
          /\ pc' = [pc EXCEPT ![h] = "approve"]
          /\ UNCHANGED locals
       \/ ~Allows(job[h].window, -1) /\ Return(h)
    /\ UNCHANGED <<planned, marked, asked, status, live, counters>>

\* Mutant: the slot is moved first.
WriteApproved_Last(h) ==
    /\ \/ /\ pc[h] = "approve" /\ job[h].slot # None
          /\ planned' = [planned EXCEPT ![job[h].slot] = job[h].window]
          /\ pc' = [pc EXCEPT ![h] = "moveSlot"]
          /\ UNCHANGED <<locals, status>>
       \/ /\ pc[h] = "approve" /\ job[h].slot = None
          /\ status' = [status EXCEPT ![req[h]] = "approved"]
          /\ Return(h) /\ UNCHANGED planned
    /\ UNCHANGED <<marked, asked, live, counters>>

\* By id alone.
WriteApproved(h) ==
    /\ pc[h] = "approve"
    /\ status' = [status EXCEPT ![req[h]] = "approved"]
    /\ \/ job[h].slot # None /\ pc' = [pc EXCEPT ![h] = "moveSlot"] /\ UNCHANGED locals
       \/ job[h].slot = None /\ Return(h)
    /\ UNCHANGED <<planned, marked, asked, live, counters>>

\* The slot keeps its status.
MoveSlot(h) ==
    /\ pc[h] = "moveSlot"
    /\ planned' = [planned EXCEPT ![job[h].slot] = job[h].window]
    /\ Return(h)
    /\ UNCHANGED <<marked, asked, status, live, counters>>

WriteRejected(h) ==
    /\ pc[h] = "reject"
    /\ status' = [status EXCEPT ![req[h]] = "rejected"]
    /\ Return(h)
    /\ UNCHANGED <<planned, marked, asked, live, counters>>

-----------------------------------------------------------------------------
(* generate, recordActual, and what happens around them.                   *)

Generate(h) ==
    /\ pc[h] = "idle"
    /\ plans < MaxPlans /\ plans' = plans + 1
    /\ \E p \in Plans : plan' = [plan EXCEPT ![h] = p]
    /\ todo' = [todo EXCEPT ![h] = Slots]
    /\ pc' = [pc EXCEPT ![h] = "upsert"]
    /\ UNCHANGED <<planned, marked, asked, status, live, job, req, fits, snapshots, failures>>

\* Slot after slot, whatever has become of it.
Upsert(h) ==
    /\ pc[h] = "upsert"
    /\ \E s \in todo[h] :
          /\ planned' = [planned EXCEPT ![s] = plan[h][s]]
          /\ marked' = [marked EXCEPT ![s] = "scheduled"]
          /\ \/ /\ todo[h] # {s}
                /\ todo' = [todo EXCEPT ![h] = @ \ {s}]
                /\ UNCHANGED <<pc, job, req, fits, plan>>
             \/ todo[h] = {s} /\ Return(h)
    /\ UNCHANGED <<asked, status, live, counters>>

\* Any status, by id alone, between other calls of the same handler.
RecordActual(h, s, m) ==
    /\ pc[h] = "idle"
    /\ marked[s] # None
    /\ marked' = [marked EXCEPT ![s] = m]
    /\ UNCHANGED <<planned, asked, status, live, pc, locals, counters>>

\* The bridge stores a snapshot, or the one there is gets old.
Snapshot(q) ==
    /\ snapshots < MaxSnapshots /\ snapshots' = snapshots + 1
    /\ live' = q
    /\ UNCHANGED <<planned, marked, asked, status, pc, locals, plans, failures>>

\* A statement fails, or the server stops in the middle of a call.
Fail(h) ==
    /\ pc[h] # "idle"
    /\ failures < MaxFailures /\ failures' = failures + 1
    /\ Return(h)
    /\ UNCHANGED <<planned, marked, asked, status, live, snapshots, plans>>

Marks == {"scheduled", "active", "completed", "missed"}

Next ==
    \/ \E h \in Handlers, w \in Windows, s \in Slots \cup {None} :
          /\ s # None => planned[s] # None
          /\ Submit(h, s, w)
    \/ \E h \in Handlers, r \in Requests : Insert(h, r) \/ Approve(h, r) \/ Reject(h, r)
    \/ \E h \in Handlers :
          \/ ReadLive(h) \/ MoveAndReset(h) \/ Recheck(h) \/ WriteApproved(h) \/ MoveSlot(h)
          \/ WriteRejected(h) \/ Generate(h) \/ Upsert(h) \/ Fail(h)
    \/ \E h \in Handlers, s \in Slots, m \in Marks : RecordActual(h, s, m)
    \/ \E q \in Snapshots : Snapshot(q)

Spec == Init /\ [][Next]_vars
-----------------------------------------------------------------------------
(* Properties.                                                             *)

Jobs == [slot : Slots \cup {None}, window : Windows]

TypeOK ==
    /\ planned \in [Slots -> (Nat \X Nat) \cup {None}]
    /\ marked \in [Slots -> Marks \cup {None}]
    /\ asked \in [Requests -> Jobs \cup {None}]
    /\ status \in [Requests -> {"pending", "auto_approved", "approved", "rejected", None}]
    /\ live \in Snapshots \cup {None}
    /\ pc \in [Handlers -> {"idle", "readLive", "insert", "moveAndReset", "recheck", "approve",
                            "reject", "moveSlot", "upsert"}]
    /\ job \in [Handlers -> Jobs \cup {None}]
    /\ req \in [Handlers -> Requests \cup {None}]
    /\ fits \in [Handlers -> BOOLEAN]
    /\ plan \in [Handlers -> Plans \cup {None}] /\ todo \in [Handlers -> SUBSET Slots]
    /\ snapshots \in 0 .. MaxSnapshots /\ plans \in 0 .. MaxPlans /\ failures \in 0 .. MaxFailures

\* A step that moves the slot of a request.
Moves(h, step) == pc[h] = step /\ pc'[h] = "idle" /\ failures' = failures

\* "Auto-approve ONLY when both the schedule and the live queues allow it"
\* and "Approval would cause critical undercoverage" (breaks.service.ts): as
\* long as calls come one after the other, an automatic grant leaves no
\* interval of its window below what is required, and a reviewer's at most one
\* below, although the coverage is read statements before the slot is moved
\* and the slot may be completed, counted already or due again.
GrantsKeepCoverage ==
    [][\A h \in Handlers :
          /\ Moves(h, "moveAndReset") => \A i \in Within(job[h].window) : Gap(i)' >= 0
          /\ Moves(h, "moveSlot") => \A i \in Within(job[h].window) : Gap(i)' >= -1]_vars

\* A slot lies where a plan or a granted request has put it: as long as calls
\* come one after the other, no failure lets a refused or an open request move
\* a slot.
SlotsExplained ==
    \A s \in Slots :
        planned[s] # None =>
            \/ \E p \in Plans : planned[s] = p[s]
            \/ \E r \in Requests :
                  /\ status[r] \in {"approved", "auto_approved"}
                  /\ asked[r] = [slot |-> s, window |-> planned[s]]
=============================================================================
