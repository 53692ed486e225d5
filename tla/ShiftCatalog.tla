---------------------------- MODULE ShiftCatalog ----------------------------
(***************************************************************************)
(* The shifts that the schedule generators plan with, and what they may    *)
(* follow.  The code is                                                    *)
(* src/backend/src/modules/schedule-generator/generator.types.ts (SHIFTS,  *)
(* FUNCTION_SHIFT_POLICY), calcRestHours of generator.engine.ts and        *)
(* deriveShiftFromStart of generator.service.ts; and, for the same shifts  *)
(* in the live schedule, restMinutes and isMidnightShift of                *)
(* requests.service.ts.  All times of the catalogue are full hours, so an  *)
(* hour is the unit.                                                       *)
(***************************************************************************)
EXTENDS Integers

OFF == "OFF"

\* SHIFTS: start and end of each shift; 24 is added to an end past midnight.
Starts == [M |-> 7, B |-> 9, C |-> 11, N |-> 13, E |-> 16, EE |-> 18, MD |-> 22, MN |-> 23]
Ends   == [M |-> 16, B |-> 18, C |-> 20, N |-> 22, E |-> 25, EE |-> 26, MD |-> 31, MN |-> 32]

Working == DOMAIN Starts

\* femaleRule: allowed without, with an exception ("warn"), or never ("blocked").
Warned  == {"N"}
Blocked == {"E", "EE", "MD", "MN"}

\* allowedShiftCodes and functionAllowsFemaleLate: two functions have opening
\* hours of their own, all others work around the clock.
AllowedCodes(fn) ==
    CASE fn = "OMT" -> {"B", "N"}
      [] fn = "Refund" -> {"M", "B", "C", "N", "E", "EE"}
      [] OTHER -> Working

FemaleLate(fn) == fn = "OMT"

\* 999 in the code: more than any limit.
Unlimited == 999

\* calcRestHours: the hours between a shift and one on the following day.
Rest(prev, next) ==
    IF prev = OFF THEN Unlimited ELSE Starts[next] + 24 - Ends[prev]

\* Mutant: the next shift is taken to be on the day after the end.
RestMinutes_NextDay(prev, next) == Starts[next] + 24 - (Ends[prev] % 24)

\* restMinutes: from one time of day to the next time it is the other.
RestMinutes(prev, next) ==
    LET end == Ends[prev] % 24
    IN  IF Starts[next] <= end THEN Starts[next] + 24 - end ELSE Starts[next] - end

\* isMidnightShift.
IsMidnightShift(code) == Starts[code] >= 22 \/ Starts[code] < 5

\* deriveShiftFromStart: the shift a row of attendance_records is taken for,
\* by the hour it starts.
DerivedHours ==
    [M |-> 6 .. 9, B |-> 10 .. 11, C |-> 12 .. 13, E |-> 14 .. 16,
     N |-> 17 .. 19, EE |-> 20 .. 22, MD |-> {23} \cup 0 .. 5]

DerivedShift(code) ==
    IF code = OFF THEN OFF
    ELSE CHOOSE c \in DOMAIN DerivedHours : Starts[code] \in DerivedHours[c]
=============================================================================
