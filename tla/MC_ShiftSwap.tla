---------------------------- MODULE MC_ShiftSwap ----------------------------
(***************************************************************************)
(* Small instances of ShiftSwap for TLC.  Ann is the only female employee  *)
(* and Night the only midnight shift, so some exchanges break the gender   *)
(* rule and others do not.  The shifts are those of the catalogue from     *)
(* 7:00 to 16:00, 18:00 to 2:00 and 23:00 to 8:00: on a second date, an    *)
(* Early one after a Late one leaves five hours, and one after a Night     *)
(* overlaps with it.                                                       *)
(***************************************************************************)
EXTENDS ShiftSwapClaims

CONSTANTS h1, h2, r1, r2

Early == "M"
Late == "EE"
Night == "MN"

MCHandlers == {h1, h2}
MCShifts == {Early, Late, Night}
MCFemale == {"ann"}
MCMidnight == {s \in MCShifts : Catalog!IsMidnightShift(s)}
MCShortRest == {x \in MCShifts \X MCShifts : Catalog!RestMinutes(x[1], x[2]) < 10}

\* Two employees on one date: two swaps are equal or mirror each other, and
\* opposite swaps lock the same rows in opposite order.
Pair == {<<"ann", 1>>, <<"bob", 1>>}
PairRoster == [c \in Pair |-> IF c[1] = "ann" THEN Early ELSE Late]

\* Two employees on two dates, one of the four cells a day off: the rest rule
\* looks at the neighbouring date and skips the day off.
TwoDays == {"ann", "bob"} \X {1, 2}
TwoDaysRoster ==
    [c \in TwoDays |->
        IF c = <<"ann", 1>> THEN Early
        ELSE IF c = <<"bob", 2>> THEN Off ELSE Late]
=============================================================================
