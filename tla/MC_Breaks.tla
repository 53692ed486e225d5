------------------------------ MODULE MC_Breaks ------------------------------
(***************************************************************************)
(* A small instance of Breaks for TLC.                                     *)
(***************************************************************************)
EXTENDS Breaks, TLC

CONSTANTS r1, r2, a, b

\* Quarters of an hour, headcount by the half hour: the second half hour can
\* spare one agent, the first two.  The window <<3, 4>> meets no interval.
Halves == {<<0, 2>>, <<2, 4>>}
SpareHeads == [i \in Halves |-> IF i = <<0, 2>> THEN 2 ELSE 1]
Asked == {<<0, 2>>, <<2, 4>>, <<3, 4>>}
Apart == [s \in {a, b} |-> IF s = a THEN <<5, 6>> ELSE <<0, 1>>]
Queues == {[fresh |-> TRUE, available |-> 4, risk |-> FALSE],
           [fresh |-> TRUE, available |-> 3, risk |-> FALSE]}
TheApart == {Apart}
Symmetric == Permutations({r1, r2})
=============================================================================
