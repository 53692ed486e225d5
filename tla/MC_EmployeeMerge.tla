-------------------------- MODULE MC_EmployeeMerge --------------------------
(***************************************************************************)
(* A small instance of EmployeeMerge for TLC.                              *)
(***************************************************************************)
EXTENDS EmployeeMerge, TLC

CONSTANTS h1, h2, i1, a, b, c, d

\* Two employees share date 1, one of them also has date 2, and a third has none;
\* d is a number the sheet is the first to name.
SheetRows == [i \in {i1} |-> {<<a, 1>>, <<a, 2>>, <<b, 1>>, <<d, 2>>}]
FirstRecords == {<<a, 1>>, <<b, 1>>, <<b, 2>>}

Alike == Permutations({h1, h2})
=============================================================================
