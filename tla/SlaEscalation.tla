---------------------------- MODULE SlaEscalation ----------------------------
(***************************************************************************)
(* The background loop that escalates what nobody has decided in time:     *)
(* SlaEscalationService (src/backend/src/modules/sla-escalation).  Every   *)
(* three minutes the timer starts two passes, one over requests and one    *)
(* over technical reports, and does not wait for them.  A pass selects     *)
(* what is overdue, and for each row writes the stamp, looks up the        *)
(* reviewers and inserts a notification for each of them.  A pass is a     *)
(* process p whose program counter at[p] names the statement it issues     *)
(* next; the rows it works on may be decided by others meanwhile.          *)
(*                                                                         *)
(* One tenant is modelled.  Audit rows are never read back and are left    *)
(* out; the SELECT that fails is the pass that was not started.            *)
(***************************************************************************)
EXTENDS Integers, FiniteSets, FiniteSetsExt

CONSTANTS
    Requests,       \* request ids
    Reports,        \* ids of technical reports
    RequestPasses,  \* passes of escalateOverdue in progress
    ReportPasses,   \* passes of escalateOverdueTechReports in progress
    Reviewers,      \* users with a reviewer's role
    Limit,          \* LIMIT of the SELECTs
    MaxFailures,    \* bound: failed statements and stopped passes
    None            \* SQL NULL, no row, and an unused local

Items == Requests \cup Reports
Passes == RequestPasses \cup ReportPasses

ASSUME PassAssumption == RequestPasses \cap ReportPasses = {}
ASSUME ItemAssumption ==
    /\ Requests \cap Reports = {} /\ IsFiniteSet(Requests) /\ IsFiniteSet(Reports)
    /\ None \notin Items
ASSUME ReviewerAssumption == IsFiniteSet(Reviewers)
ASSUME SlaBoundAssumption == Limit \in Nat \ {0} /\ MaxFailures \in Nat

VARIABLES
    status,     \* requests.status, and that of a report; None: not filed yet
    due,        \* sla_due_at has passed
    escalated,  \* escalated_at, sla_escalated_at is set
    notified,   \* notifications for each reviewer about each item
    at,         \* the statement each pass issues next
    todo,       \* the rows of its SELECT still to do
    item,       \* the row in hand
    cache,      \* reviewerCache
    togo,       \* reviewers still to notify about the row in hand
    failures    \* failed statements and stopped passes so far

slaVars == <<due, escalated, notified, at, todo, item, cache, togo, failures>>

Open(x) == status[x] = IF x \in Requests THEN "pending" ELSE "open"

SlaInit ==
    /\ due = {}
    /\ escalated = {}
    /\ notified = [x \in Items |-> [u \in Reviewers |-> 0]]
    /\ at = [p \in Passes |-> "idle"]
    /\ todo = [p \in Passes |-> {}]
    /\ item = [p \in Passes |-> None]
    /\ cache = [p \in Passes |-> None]
    /\ togo = [p \in Passes |-> {}]
    /\ failures = 0

\* The clock passes sla_due_at.
FallDue(x) ==
    /\ status[x] # None /\ x \notin due
    /\ due' = due \cup {x}
    /\ UNCHANGED <<escalated, notified, at, todo, item, cache, togo, failures>>

Fails == failures < MaxFailures /\ failures' = failures + 1

\* The pass is over, and its locals with it.
PassEnds(p) ==
    /\ at' = [at EXCEPT ![p] = "idle"]
    /\ todo' = [todo EXCEPT ![p] = {}]
    /\ item' = [item EXCEPT ![p] = None]
    /\ cache' = [cache EXCEPT ![p] = None]
    /\ togo' = [togo EXCEPT ![p] = {}]

\* Mutant: what is escalated already is not left out.
Overdue_Again(p) ==
    {x \in IF p \in RequestPasses THEN Requests ELSE Reports : Open(x) /\ x \in due}

\* Mutant: reports are looked for by the status of requests.
Overdue_Pending(p) ==
    {x \in IF p \in RequestPasses THEN Requests ELSE Reports :
        status[x] = "pending" /\ x \in due /\ x \notin escalated}

\* WHERE open AND sla_due_at < NOW() AND escalated_at IS NULL
Overdue(p) ==
    {x \in IF p \in RequestPasses THEN Requests ELSE Reports :
        Open(x) /\ x \in due /\ x \notin escalated}

\* The SELECT has a LIMIT and no ORDER BY: any Limit of the rows may come.
StartPass(p) ==
    /\ at[p] = "idle"
    /\ Overdue(p) # {}
    /\ \E rows \in kSubset(Min({Limit, Cardinality(Overdue(p))}), Overdue(p)) :
          todo' = [todo EXCEPT ![p] = rows]
    /\ at' = [at EXCEPT ![p] = "stamp"]
    /\ UNCHANGED <<due, escalated, notified, item, cache, togo, failures>>

\* UPDATE ... SET escalated_at = NOW(), by id alone.  When it fails the pass
\* over requests ends; the one over reports goes on as if it had not.
Stamp(p) ==
    /\ at[p] = "stamp"
    /\ \E x \in todo[p] :
          \/ /\ escalated' = escalated \cup {x}
             /\ todo' = [todo EXCEPT ![p] = @ \ {x}]
             /\ item' = [item EXCEPT ![p] = x]
             /\ at' = [at EXCEPT ![p] = "lookup"]
             /\ UNCHANGED <<cache, togo, failures>>
          \/ /\ Fails /\ p \in ReportPasses
             /\ todo' = [todo EXCEPT ![p] = @ \ {x}]
             /\ item' = [item EXCEPT ![p] = x]
             /\ at' = [at EXCEPT ![p] = "lookup"]
             /\ UNCHANGED <<escalated, cache, togo>>
          \/ Fails /\ p \in RequestPasses /\ PassEnds(p) /\ UNCHANGED escalated
    /\ UNCHANGED <<due, notified>>

\* reviewersFor: a SELECT that fails finds nobody, and the pass over requests
\* keeps that answer for the rows that follow.
Lookup(p) ==
    /\ at[p] = "lookup"
    /\ \E found \in SUBSET Reviewers :
          /\ \/ cache[p] # None /\ found = cache[p] /\ UNCHANGED failures
             \/ cache[p] = None /\ found = Reviewers /\ UNCHANGED failures
             \/ cache[p] = None /\ found = {} /\ Fails
          /\ togo' = [togo EXCEPT ![p] = found]
          /\ cache' = [cache EXCEPT ![p] = IF p \in RequestPasses THEN found ELSE None]
    /\ at' = [at EXCEPT ![p] = "notify"]
    /\ UNCHANGED <<due, escalated, notified, todo, item>>

\* A notification that cannot be inserted is skipped.
Notify(p) ==
    /\ at[p] = "notify"
    /\ \E u \in togo[p] :
          /\ \/ notified' = [notified EXCEPT ![item[p]][u] = @ + 1] /\ UNCHANGED failures
             \/ Fails /\ UNCHANGED notified
          /\ togo' = [togo EXCEPT ![p] = @ \ {u}]
    /\ UNCHANGED <<due, escalated, at, todo, item, cache>>

\* Mutant: the loop over the reviewers is left after one of them.
NextItem_Early(p) ==
    /\ at[p] = "notify"
    /\ \/ /\ todo[p] # {}
          /\ at' = [at EXCEPT ![p] = "stamp"]
          /\ item' = [item EXCEPT ![p] = None]
          /\ togo' = [togo EXCEPT ![p] = {}]
          /\ UNCHANGED <<todo, cache>>
       \/ todo[p] = {} /\ PassEnds(p)
    /\ UNCHANGED <<due, escalated, notified, failures>>

\* All reviewers are told: the next row, or the end.
NextItem(p) ==
    /\ at[p] = "notify" /\ togo[p] = {}
    /\ \/ /\ todo[p] # {}
          /\ at' = [at EXCEPT ![p] = "stamp"]
          /\ item' = [item EXCEPT ![p] = None]
          /\ UNCHANGED <<todo, cache, togo>>
       \/ todo[p] = {} /\ PassEnds(p)
    /\ UNCHANGED <<due, escalated, notified, failures>>

\* The server stops in the middle of a pass.
Stop(p) ==
    /\ at[p] # "idle"
    /\ Fails
    /\ PassEnds(p)
    /\ UNCHANGED <<due, escalated, notified>>

Pass(p) == StartPass(p) \/ Stamp(p) \/ Lookup(p) \/ Notify(p) \/ NextItem(p)

\* None of it touches the status.
SlaNext ==
    /\ \/ \E x \in Items : FallDue(x)
       \/ \E p \in Passes : Pass(p) \/ Stop(p)
    /\ UNCHANGED status
-----------------------------------------------------------------------------
(* Properties.                                                             *)

SlaTypeOK ==
    /\ due \subseteq Items /\ escalated \subseteq Items
    /\ notified \in [Items -> [Reviewers -> Nat]]
    /\ at \in [Passes -> {"idle", "stamp", "lookup", "notify"}]
    /\ todo \in [Passes -> SUBSET Items]
    /\ item \in [Passes -> Items \cup {None}]
    /\ \A p \in Passes : item[p] # None <=> at[p] \in {"lookup", "notify"}
    /\ cache \in [Passes -> (SUBSET Reviewers) \cup {None}]
    /\ togo \in [Passes -> SUBSET Reviewers]
    /\ failures \in 0 .. MaxFailures

\* "Idempotent via requests.escalated_at" (SlaEscalationService): as long as
\* passes do not overlap, nobody is told twice about a request, whatever fails
\* and wherever the server stops; about a report, only after a failure.
ToldOnce ==
    \A x \in Items, u \in Reviewers :
        (x \in Requests \/ failures = 0) => notified[x][u] <= 1

\* The stamp comes before the notifications and is never taken back: unless
\* something failed, every reviewer is told of what is stamped, or will be by
\* the pass that has it in hand.
StampedIsTold ==
    failures = 0 =>
        \A x \in escalated, u \in Reviewers :
            \/ notified[x][u] > 0
            \/ \E p \in Passes :
                  item[p] = x /\ (at[p] = "lookup" \/ (at[p] = "notify" /\ u \in togo[p]))

\* "Escalate every overdue, not-yet-escalated, still-open request": in the end
\* it is escalated, or it is decided, although passes are cut short by LIMIT,
\* by failures and by stops.
OverdueIsEscalated ==
    \A x \in Items : (Open(x) /\ x \in due) ~> (x \in escalated \/ ~Open(x))
=============================================================================
