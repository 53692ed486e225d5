------------------------- MODULE MC_WeeklyGenerator -------------------------
(***************************************************************************)
(* Small instances of WeeklyGenerator for TLC.  One employee is enough for *)
(* the shifts, which are picked for each by itself: a woman and a man in   *)
(* functions of all three opening hours.  Three employees with two shifts  *)
(* share out the days off.                                                 *)
(***************************************************************************)
EXTENDS WeeklyGenerator

Alone == {[fn |-> f, staff |-> <<e>>] : f \in {"CS", "Refund", "OMT"}, e \in {"ann", "bob"}}
Trio  == [fn |-> "OMT", staff |-> <<"ann", "bob", "cat">>]

AloneAndTrio == Alone \cup {Trio}

AnyShift == Working \cup {OFF}

\* The rotations have periods three, four and seven.
SomeWeeks == 0 .. 6
=============================================================================
