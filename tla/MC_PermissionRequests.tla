------------------------ MODULE MC_PermissionRequests ------------------------
(***************************************************************************)
(* Small instances of PermissionRequests for TLC.                          *)
(***************************************************************************)
EXTENDS PermissionRequests, TLC

CONSTANTS h1, h2, r1, r2, r3, r4

Ask(e, d, m) == [owner |-> e, date |-> d, minutes |-> m]

\* One employee and one date; six hours are two long permissions or three
\* short ones.
OneDate == {1}
OneWeek == [d \in OneDate |-> 0]
Enough == [d \in OneDate |-> 9]
Nothing == [r \in {r1, r2, r3, r4} |-> None]

\* Two dates of one week.  With two permissions date 1 keeps the safe surplus
\* of one head, date 2 does not.
TwoDates == {1, 2}
SameWeek == [d \in TwoDates |-> 0]
Heads == [d \in TwoDates |-> IF d = 1 THEN 5 ELSE 4]
Needed == [d \in TwoDates |-> 2]
SpreadFiled ==
    [r \in {r1, r2, r3, r4} |->
        IF r = r1 THEN Ask("ann", 1, 60) ELSE IF r = r2 THEN Ask("bob", 1, 60)
        ELSE IF r = r3 THEN Ask("cat", 2, 60) ELSE Ask("dan", 2, 60)]
PairNothing == [r \in {r1, r2} |-> None]
\* One permission is safe on date 2 only, two are too many for date 1.
SomeDanger == [d \in TwoDates |-> IF d = 1 THEN 3 ELSE 4]

Off == [enabled |-> FALSE, approve |-> TRUE, reject |-> FALSE]
Approving == [enabled |-> TRUE, approve |-> TRUE, reject |-> FALSE]
Rejecting == [enabled |-> TRUE, approve |-> TRUE, reject |-> TRUE]
AnySettings == {Off, Approving, Rejecting}

Symmetric == Permutations({r1, r2, r3, r4})
=============================================================================
