--------------------------- MODULE MC_DemandRoster ---------------------------
(***************************************************************************)
(* A small instance of DemandRoster for TLC: three employees, one of them  *)
(* a woman, and a ceiling of two days in a row.                            *)
(***************************************************************************)
EXTENDS DemandRoster

Slots(counted) == [c \in Codes |-> IF c \in counted THEN 1 ELSE 0]

\* Around the clock, two late shifts and an early one, and a light day.
SomeMixes == {Slots({"MD", "N", "M"}), [Slots({"M"}) EXCEPT !["N"] = 2], Slots({"E"})}

\* Nobody, ann, or bob and cat are on leave for a day or two.
Away(a, b, c) == [e \in Staff |-> IF e = "ann" THEN a ELSE IF e = "bob" THEN b ELSE c]
SomeLeaves == {Away({}, {}, {}), Away({2}, {}, {}), Away({}, {2, 3}, {1})}
=============================================================================
