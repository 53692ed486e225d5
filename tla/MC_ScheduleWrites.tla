-------------------------- MODULE MC_ScheduleWrites --------------------------
(***************************************************************************)
(* A small instance of ScheduleWrites for TLC.                             *)
(***************************************************************************)
EXTENDS ScheduleWrites, TLC

CONSTANTS h1, h2, c1, c2, s1, v1, v2

\* Day 1 has a record, day 2 has none; both versions plan both days.
TwoDays == {1, 2}
OneRecord == [d \in TwoDays |-> IF d = 1 THEN "M" ELSE None]
TwoPlans == [v \in {v1, v2} |->
                IF v = v1 THEN [d \in TwoDays |-> IF d = 1 THEN "B" ELSE Off]
                ELSE [d \in TwoDays |-> IF d = 1 THEN Off ELSE "N"]]
NoPlan == [v \in {} |-> [d \in TwoDays |-> Off]]

\* The change asks for a night on the day that has a record.
ChangeDay == [r \in {s1} |-> 1]
NightWish == [r \in {s1} |-> "N"]

\* The handlers are interchangeable.
Alike == Permutations({h1, h2})
=============================================================================
