----------------------------- MODULE SwapLedger -----------------------------
(***************************************************************************)
(* What a shift swap promises, without handlers, tables or locks.          *)
(*                                                                         *)
(* A schedule gives every cell (one employee on one date) a shift.  An     *)
(* offer names two cells of different employees.  Once the colleague has   *)
(* consented, the shifts of the two cells may be exchanged: both cells at  *)
(* once, each receiving exactly what the other holds at that moment.  A    *)
(* planner may also overwrite a single cell.  Nothing else ever changes    *)
(* the schedule.  ShiftSwap.tla is shown to implement this specification.  *)
(***************************************************************************)
CONSTANTS
    Requests,       \* identities of swap requests
    Cells,          \* schedule cells, <<employee, date>>
    Schedulable,    \* what a cell can hold: the shifts and the day off
    Roster,         \* the schedule at the start
    None            \* no offer yet

VARIABLES
    schedule,       \* the shift of every cell
    offer,          \* the two cells each request would exchange
    consented       \* the requests the colleague has agreed to

ledgerVars == <<schedule, offer, consented>>

Init ==
    /\ schedule = Roster
    /\ offer = [r \in Requests |-> None]
    /\ consented = {}

\* An employee offers the shift of cell a for the shift of cell b.
Offer(r, a, b) ==
    /\ offer[r] = None
    /\ a[1] # b[1]
    /\ offer' = [offer EXCEPT ![r] = <<a, b>>]
    /\ UNCHANGED <<schedule, consented>>

\* The colleague agrees to an offer.
Consent(r) ==
    /\ offer[r] # None
    /\ consented' = consented \cup {r}
    /\ UNCHANGED <<schedule, offer>>

\* The two cells of a consented offer trade shifts in one step.
Exchange(r) ==
    /\ r \in consented
    /\ schedule' = [schedule EXCEPT ![offer[r][1]] = schedule[offer[r][2]],
                                    ![offer[r][2]] = schedule[offer[r][1]]]
    /\ UNCHANGED <<offer, consented>>

\* A planner overwrites one cell.
Overwrite(c, s) ==
    /\ schedule' = [schedule EXCEPT ![c] = s]
    /\ UNCHANGED <<offer, consented>>

Next ==
    \/ \E r \in Requests, a, b \in Cells : Offer(r, a, b)
    \/ \E r \in Requests : Consent(r)
    \/ \E r \in Requests : Exchange(r)
    \/ \E c \in Cells, s \in Schedulable : Overwrite(c, s)

Spec == Init /\ [][Next]_ledgerVars
=============================================================================
