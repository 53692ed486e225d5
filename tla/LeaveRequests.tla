---------------------------- MODULE LeaveRequests ----------------------------
(***************************************************************************)
(* Leave requests against a yearly entitlement, and their escalation:      *)
(* createLeave, approve and reject of requests.service.ts,                 *)
(* getBalance, assertCanRequest and setEntitlement of                      *)
(* leave-balances.service.ts, next to the passes of SlaEscalation, which   *)
(* share requests.status with them.  A call is a process h whose program   *)
(* counter pc[h] names the SQL statement it issues next; none of it uses a *)
(* transaction.                                                            *)
(*                                                                         *)
(* Balances do not mix, so one employee, one leave type and one year are   *)
(* modelled.  bulkSetEntitlements calls setEntitlement for each row.  The  *)
(* campaign check only adds a note.  RequestsService.cancel refuses every  *)
(* caller (the controller passes it no employee id) and has no action.     *)
(***************************************************************************)
EXTENDS SlaEscalation

CONSTANTS
    Filers,         \* handlers that may carry a createLeave or setEntitlement
    Approvers,      \* handlers that may carry an approval
    Durations,      \* days asked for
    Entitlements,   \* values setEntitlement is called with
    MaxChanges      \* bound: setEntitlement calls

Handlers == Filers \cup Approvers

Statuses == {"pending", "approved", "rejected"}

ASSUME LeaveAssumption ==
    /\ Durations \subseteq Nat /\ Entitlements \subseteq Nat /\ MaxChanges \in Nat
    /\ None \notin Nat /\ None \notin Statuses

VARIABLES
    leave,          \* request_leaves.duration_days
    entitlement,    \* leave_balances.entitlement_days
    changes,        \* setEntitlement calls so far
    pc,             \* the statement each call issues next
    req,            \* the request each call works on
    asked,          \* the days createLeave was called with
    granted,        \* getBalance: entitlement, taken and pending as read
    taken

leaveVars == <<leave, entitlement, changes, pc, req, asked, granted, taken>>
vars == <<status, slaVars, leaveVars>>

Init ==
    /\ SlaInit
    /\ status = [x \in Items |-> IF x \in Requests THEN None ELSE "open"]
    /\ leave = [r \in Requests |-> None]
    /\ entitlement = None
    /\ changes = 0
    /\ pc = [h \in Handlers |-> "idle"]
    /\ req = [h \in Handlers |-> None]
    /\ asked = [h \in Handlers |-> None]
    /\ granted = [h \in Handlers |-> None]
    /\ taken = [h \in Handlers |-> None]

Return(h) ==
    /\ pc' = [pc EXCEPT ![h] = "idle"]
    /\ req' = [req EXCEPT ![h] = None]
    /\ asked' = [asked EXCEPT ![h] = None]
    /\ granted' = [granted EXCEPT ![h] = None]
    /\ taken' = [taken EXCEPT ![h] = None]

\* daysAt: request_leaves joined with its request.
DaysAt(S) ==
    MapThenSumSet(LAMBDA r : leave[r],
                  {r \in Requests : leave[r] # None /\ status[r] \in S})

-----------------------------------------------------------------------------
(* createLeave.                                                            *)

\* assertCanRequest reads the entitlement; without one nothing is enforced.
CreateLeave(h, days) ==
    /\ pc[h] = "idle"
    /\ asked' = [asked EXCEPT ![h] = days]
    /\ granted' = [granted EXCEPT ![h] = entitlement]
    /\ pc' = [pc EXCEPT ![h] = IF entitlement = None THEN "insertRequest" ELSE "readTaken"]
    /\ UNCHANGED <<status, leave, entitlement, changes, req, taken, slaVars>>

ReadTaken(h) ==
    /\ pc[h] = "readTaken"
    /\ taken' = [taken EXCEPT ![h] = DaysAt({"approved"})]
    /\ pc' = [pc EXCEPT ![h] = "readPending"]
    /\ UNCHANGED <<status, leave, entitlement, changes, req, asked, granted, slaVars>>

\* Mutant: only what is approved is taken off the entitlement.
Remaining_Approved(h) == granted[h] - taken[h]

\* entitlement - taken - pending, the last of them read now.
Remaining(h) == granted[h] - taken[h] - DaysAt({"pending"})

ReadPending(h) ==
    /\ pc[h] = "readPending"
    /\ \/ /\ asked[h] <= Remaining(h)
          /\ pc' = [pc EXCEPT ![h] = "insertRequest"]
          /\ UNCHANGED <<req, asked, granted, taken>>
       \/ asked[h] > Remaining(h) /\ Return(h)
    /\ UNCHANGED <<status, leave, entitlement, changes, slaVars>>

\* The request is pending, and its clock runs, before its days are on file.
InsertRequest(h, r) ==
    /\ pc[h] = "insertRequest"
    /\ status[r] = None
    /\ status' = [status EXCEPT ![r] = "pending"]
    /\ req' = [req EXCEPT ![h] = r]
    /\ pc' = [pc EXCEPT ![h] = "insertLeave"]
    /\ UNCHANGED <<leave, entitlement, changes, asked, granted, taken, slaVars>>

InsertLeave(h) ==
    /\ pc[h] = "insertLeave"
    /\ leave' = [leave EXCEPT ![req[h]] = asked[h]]
    /\ Return(h)
    /\ UNCHANGED <<status, entitlement, changes, slaVars>>

\* Any days, below what is taken too.
SetEntitlement(h, days) ==
    /\ pc[h] = "idle"
    /\ changes < MaxChanges
    /\ changes' = changes + 1
    /\ entitlement' = days
    /\ UNCHANGED <<status, leave, pc, req, asked, granted, taken, slaVars>>

-----------------------------------------------------------------------------
(* Decisions.                                                              *)

\* approve tests the status it has read.
Approve(h, r) ==
    /\ pc[h] = "idle"
    /\ status[r] = "pending"
    /\ req' = [req EXCEPT ![h] = r]
    /\ pc' = [pc EXCEPT ![h] = "approve"]
    /\ UNCHANGED <<status, leave, entitlement, changes, asked, granted, taken, slaVars>>

\* UPDATE requests SET status, by id alone.
WriteDecision(h) ==
    /\ pc[h] = "approve"
    /\ status' = [status EXCEPT ![req[h]] = "approved"]
    /\ Return(h)
    /\ UNCHANGED <<leave, entitlement, changes, slaVars>>

\* reject tests that the request exists, not its status: by any handler.
Reject(r) ==
    /\ status[r] # None
    /\ status' = [status EXCEPT ![r] = "rejected"]
    /\ UNCHANGED <<leaveVars, slaVars>>

\* A report is resolved by somebody.
Resolve(x) ==
    /\ status[x] = "open"
    /\ status' = [status EXCEPT ![x] = "resolved"]
    /\ UNCHANGED <<leaveVars, slaVars>>

\* A statement fails, or the server stops in the middle of a call.
Fail(h) ==
    /\ pc[h] # "idle"
    /\ Fails
    /\ Return(h)
    /\ UNCHANGED <<status, leave, entitlement, changes, due, escalated, notified,
                   at, todo, item, cache, togo>>

Call ==
    \/ \E h \in Filers :
          \/ \E days \in Durations : CreateLeave(h, days)
          \/ \E days \in Entitlements : SetEntitlement(h, days)
          \/ \E r \in Requests : InsertRequest(h, r)
          \/ ReadTaken(h) \/ ReadPending(h) \/ InsertLeave(h)
    \/ \E h \in Approvers, r \in Requests : Approve(h, r)
    \/ \E r \in Requests : Reject(r)
    \/ \E h \in Handlers : WriteDecision(h) \/ Fail(h)
    \/ \E x \in Reports : Resolve(x)

Next == Call \/ (SlaNext /\ UNCHANGED leaveVars)

Spec == Init /\ [][Next]_vars

\* The timer starts pass after pass, and the statements of a pass are answered.
Fairness == \A p \in Passes : WF_vars(Pass(p) /\ UNCHANGED <<status, leaveVars>>)

FairSpec == Spec /\ Fairness
-----------------------------------------------------------------------------
(* Properties.                                                             *)

TypeOK ==
    /\ SlaTypeOK
    /\ status \in [Items -> Statuses \cup {"open", "resolved", None}]
    /\ \A r \in Requests : status[r] \in Statuses \cup {None}
    /\ \A x \in Reports : status[x] \in {"open", "resolved"}
    /\ leave \in [Requests -> Nat \cup {None}]
    /\ entitlement \in Nat \cup {None} /\ changes \in 0 .. MaxChanges
    /\ pc \in [Handlers -> {"idle", "readTaken", "readPending", "insertRequest",
                            "insertLeave", "approve"}]
    /\ req \in [Handlers -> Requests \cup {None}]
    /\ asked \in [Handlers -> Nat \cup {None}]
    /\ granted \in [Handlers -> Nat \cup {None}] /\ taken \in [Handlers -> Nat \cup {None}]

\* Leave of r is put on file.
Files(r) == leave[r] = None /\ leave'[r] # None

\* "Block over-requesting against the annual entitlement" (createLeave): as
\* long as filings and approvals come one after the other, refusals, failures
\* and stops at any time never let a leave in that the entitlement does not
\* cover, though the balance is read in three statements.
NewLeaveFits ==
    [][\A r \in Requests : Files(r) =>
          \/ entitlement = None
          \/ \E h \in Handlers : granted[h] = None /\ req[h] = r
          \/ DaysAt({"approved", "pending"})' <= entitlement]_vars
=============================================================================
