--------------------------- MODULE WeeklyGenerator ---------------------------
(***************************************************************************)
(* The weekly schedule generator: generateWeeklySchedule with              *)
(* assignOffDays and pickBestShift                                         *)
(* (src/backend/src/modules/schedule-generator/generator.engine.ts), and   *)
(* GeneratorService.generate, which runs it for up to four weeks in a row  *)
(* on what it has read from the live schedule (generator.service.ts).      *)
(*                                                                         *)
(* The team is one function, for each function is planned by itself.  The  *)
(* engine is synchronous; it is cut into steps, one per day of one         *)
(* employee, so that TLC can follow each choice.  Shifts that may be taken *)
(* are scored by the rotation and by the distribution of the year; the     *)
(* score is left out, and any of them may be picked.  A call that is only  *)
(* previewed has no effect; here every call is saved and published.        *)
(***************************************************************************)
EXTENDS ShiftCatalog, FiniteSets, Sequences, FiniteSetsExt

CONSTANTS
    Teams,          \* functions: [fn : name, staff : sequence of employees]
    Female,         \* employees with gender = 'female'
    OffDaysPerWeek, \* the values of the option tried
    MinRestHours,   \* the option of this name
    FirstWeeks,     \* values of weekIndexOf for the first week
    LastShifts,     \* live shifts of the day before the first week
    Streaks,        \* days worked in a row before the first week
    MaxWeeks,       \* bound: weeks planned
    MaxPerCall      \* bound: weeks of one call (4 in the code)

ASSUME BoundAssumption == MaxWeeks \in Nat /\ MaxPerCall \in Nat \ {0} /\ MinRestHours \in Nat

\* A function without employees is skipped; nobody is in a team twice.
ASSUME TeamAssumption ==
    \A t \in Teams :
        /\ t.staff \in Seq({t.staff[i] : i \in DOMAIN t.staff}) \ {<<>>}
        /\ \A i, j \in DOMAIN t.staff : t.staff[i] = t.staff[j] => i = j

\* A week has seven days.
ASSUME InputAssumption ==
    /\ OffDaysPerWeek \subseteq 1 .. 7 /\ FirstWeeks \subseteq Nat
    /\ LastShifts \subseteq Working \cup {OFF} /\ Streaks \subseteq Nat

VARIABLES
    team, perWeek,  \* the situation, chosen at the start
    wk,             \* weekIndexOf(weekStart)
    weeks,          \* weeks planned so far
    phase,          \* idle, offs (assignOffDays is at work), fill
    left,           \* weeks of the call that follow the current one
    live,           \* each employee's shift of the day before the one to fill
    streak,         \* days each has really worked in a row
    weekendOff,     \* year to date: days off on a weekend
    prev,           \* the shift the engine takes for that: lastShiftMap, prevShift
    consec,         \* priorConsecutiveDays, then consecutiveDays
    off,            \* days off of this week: planned, and forced ones
    at              \* <<employee, day>> the engine fills next

vars == <<team, perWeek, wk, weeks, phase, left, live, streak, weekendOff,
          prev, consec, off, at>>

-----------------------------------------------------------------------------
(* assignOffDays.                                                          *)

\* Index 0 is the Saturday a week starts with.
Days == 0 .. 6
Weekend  == <<5, 6, 0>>
Weekdays == <<1, 2, 3, 4>>
AllDays  == <<0, 1, 2, 3, 4, 5, 6>>

Employees == {team.staff[i] : i \in DOMAIN team.staff}

Max_Consecutive == 9

Rotate(days, by) == [i \in DOMAIN days |-> days[((i - 1 + by) % Len(days)) + 1]]

WeekendOrder == Rotate(Weekend, wk)
WeekdayOrder == Rotate(Weekdays, wk)
AnyOrder     == Rotate(AllDays, wk)

\* spreadCapacity: count days off spread over the days, the remainder over
\* the first ones in the rotation of the week.
SpreadCapacity(days, count) ==
    [d \in Days |->
        IF \E i \in DOMAIN days : days[i] = d
        THEN count \div Len(days)
             + (IF \E r \in 1 .. (count % Len(days)) : Rotate(days, wk)[r] = d THEN 1 ELSE 0)
        ELSE 0]

Capacity ==
    LET n == Len(team.staff) IN
    IF perWeek = 1 THEN SpreadCapacity(AllDays, n)
    ELSE LET weekend == SpreadCapacity(Weekend, n)
             midweek == SpreadCapacity(Weekdays, n * (perWeek - 1))
         IN  [d \in Days |-> weekend[d] + midweek[d]]

\* Mutant: the days handed out are not counted.
Used_Never(d) == 0

\* used: how many have day d off so far.
Used(d) == Cardinality({e \in Employees : d \in off[e]})

Remain(d) == Capacity[d] - Used(d)

NoDay == -1

\* pickDayWithCapacity: of the days in question the one with most capacity
\* left, the first in the order if there are several.
PickDayWithCapacity(order, days) ==
    LET spare == {i \in DOMAIN order : order[i] \in days /\ Remain(order[i]) > 0}
        most == {i \in spare : \A j \in spare : Remain(order[j]) <= Remain(order[i])}
    IN  IF spare = {} THEN NoDay ELSE order[Min(most)]

\* order.find(d => !taken.has(d))
FirstFree(order, days) ==
    LET free == {i \in DOMAIN order : order[i] \in days}
    IN  IF free = {} THEN NoDay ELSE order[Min(free)]

\* The chain of "if (idx < 0) idx = ...": the first choice that found a day.
FirstFound(choices) == choices[Min({i \in DOMAIN choices : choices[i] # NoDay})]

Free(taken) == Days \ taken
Away(taken) == {d \in Free(taken) : \A t \in taken : t - d \notin {-1, 1}}

OnlyDay ==
    FirstFound(<<PickDayWithCapacity(WeekendOrder, Days),
                 PickDayWithCapacity(AnyOrder, Days), AnyOrder[1]>>)

WeekendDay == FirstFound(<<PickDayWithCapacity(WeekendOrder, Days), WeekendOrder[1]>>)

MidweekDay(taken) ==
    FirstFound(<<
        PickDayWithCapacity(WeekdayOrder, Away(taken)),
        PickDayWithCapacity(AnyOrder, Away(taken)),
        PickDayWithCapacity(WeekdayOrder, Free(taken)),
        PickDayWithCapacity(AnyOrder, Free(taken)),
        FirstFree(AnyOrder, Away(taken)),
        FirstFree(AnyOrder, Free(taken)), 0>>)

\* The next day off of somebody who has those taken.
NextDay(taken) ==
    IF perWeek = 1 THEN OnlyDay ELSE IF taken = {} THEN WeekendDay ELSE MidweekDay(taken)

\* Mutants: a day is added and none is given up for it; the last day in time is
\* taken, which may not be of the weekend.
EarlyOff_Extra(taken, prior) ==
    LET maxFirst == Max({0, Max_Consecutive - prior})
    IN  IF prior <= 0 \/ Min(taken) <= maxFirst THEN taken
        ELSE taken \cup {Min((0 .. maxFirst) \ taken)}
EarlyOff_JustInTime(taken, prior) ==
    LET maxFirst == Max({0, Max_Consecutive - prior})
    IN  IF prior <= 0 \/ Min(taken) <= maxFirst THEN taken
        ELSE (taken \ {Max(taken)}) \cup {Max((0 .. maxFirst) \ taken)}

\* enforceEarlyOff: whoever comes with a long run gets the latest of the days
\* off moved to the first day.
EarlyOff(taken, prior) ==
    LET maxFirst == Max({0, Max_Consecutive - prior})
    IN  IF prior <= 0 \/ Min(taken) <= maxFirst THEN taken
        ELSE (taken \ {Max(taken)}) \cup {Min((0 .. maxFirst) \ taken)}

\* Employees with the fewest weekend days off choose first.  (The second key,
\* most weekend days worked, says the same as long as all have the same past.)
Before(i, j) ==
    LET a == weekendOff[team.staff[i]] b == weekendOff[team.staff[j]]
    IN  a < b \/ (a = b /\ i < j)

\* Those who have not got all of their days off.
Waiting == {i \in DOMAIN team.staff : Cardinality(off[team.staff[i]]) < perWeek}

-----------------------------------------------------------------------------
(* The generator.                                                          *)

\* getWorkingShifts: what the function and the gender of e allow.
WorkingShifts(e) ==
    {c \in AllowedCodes(team.fn) :
        e \in Female => c \notin Blocked /\ (c \in Warned => FemaleLate(team.fn))}

Init ==
    /\ team \in Teams
    /\ perWeek \in OffDaysPerWeek
    /\ wk \in FirstWeeks
    /\ weeks = 0
    /\ phase = "idle"
    /\ left = 0
    /\ live \in [Employees -> LastShifts]
    /\ \A e \in Employees : live[e] \in WorkingShifts(e) \cup {OFF}
    /\ streak \in [Employees -> Streaks]
    /\ \A e \in Employees : live[e] = OFF <=> streak[e] = 0
    /\ weekendOff = [e \in Employees |-> 0]
    /\ prev = live
    /\ consec = [e \in Employees |-> 0]
    /\ off = [e \in Employees |-> {}]
    /\ at = <<1, 0>>

\* generate: the last shift is derived from the hour it starts, and the run of
\* worked days is read from the seven days before.
Generate(n) ==
    /\ phase = "idle"
    /\ weeks + n <= MaxWeeks
    /\ left' = n - 1
    /\ prev' = [e \in Employees |-> DerivedShift(live[e])]
    /\ consec' = [e \in Employees |-> Min({7, streak[e]})]
    /\ off' = [e \in Employees |-> {}]
    /\ phase' = "offs"
    /\ UNCHANGED <<team, perWeek, wk, weeks, live, streak, weekendOff, at>>

\* One more day off for employee i, whose turn it is; the last one may be moved.
AssignOffDay(i) ==
    LET e == team.staff[i]
        taken == off[e] \cup {NextDay(off[e])}
        done == Cardinality(taken) >= perWeek
    IN
    /\ phase = "offs"
    /\ i \in Waiting /\ \A j \in Waiting \ {i} : Before(i, j)
    /\ off' = [off EXCEPT ![e] = IF done THEN EarlyOff(taken, consec[e]) ELSE taken]
    /\ at' = <<1, 0>>
    /\ phase' = IF done /\ Waiting = {i} THEN "fill" ELSE "offs"
    /\ UNCHANGED <<team, perWeek, wk, weeks, left, live, streak, weekendOff, prev, consec>>

Here == team.staff[at[1]]
Today == at[2]

\* The next day of the employee, or the first day of the next one.
Advance == at' = IF Today = 6 THEN <<at[1] + 1, 0>> ELSE <<at[1], Today + 1>>

Filling == phase = "fill" /\ at[1] <= Len(team.staff)

\* A day off: planned, or forced by the ceiling on days in a row.
DayOff ==
    /\ Filling
    /\ Today \in off[Here] \/ consec[Here] >= Max_Consecutive
    /\ off' = [off EXCEPT ![Here] = @ \cup {Today}]
    /\ prev' = [prev EXCEPT ![Here] = OFF]
    /\ live' = [live EXCEPT ![Here] = OFF]
    /\ consec' = [consec EXCEPT ![Here] = 0]
    /\ streak' = [streak EXCEPT ![Here] = 0]
    /\ Advance
    /\ UNCHANGED <<team, perWeek, wk, weeks, phase, left, weekendOff>>

\* Mutant: the ranking does not look at the rest.
Ranked_NoRest(e) == WorkingShifts(e)

\* Shifts that leave enough rest rank before all others.
Ranked(e) ==
    LET rested == {c \in WorkingShifts(e) : Rest(prev[e], c) >= MinRestHours}
    IN  IF rested # {} THEN rested ELSE WorkingShifts(e)

WorkDay(c) ==
    /\ Filling
    /\ Today \notin off[Here] /\ consec[Here] < Max_Consecutive
    /\ c \in Ranked(Here)
    /\ prev' = [prev EXCEPT ![Here] = c]
    /\ live' = [live EXCEPT ![Here] = c]
    /\ consec' = [consec EXCEPT ![Here] = @ + 1]
    /\ streak' = [streak EXCEPT ![Here] = @ + 1]
    /\ Advance
    /\ UNCHANGED <<team, perWeek, wk, weeks, phase, left, weekendOff, off>>

\* The week is full: it is carried over into the next one of the call, or the
\* call is over and what it planned becomes the live schedule.
Planned == phase = "fill" /\ at[1] > Len(team.staff)

\* Mutant: the run is not carried over.
Trailing_Dropped(e) == 0

\* Days worked after the last day off.
Trailing(e) == IF off[e] = {} THEN 7 ELSE 6 - Max(off[e])

CountWeekend ==
    weekendOff' = [e \in Employees |-> weekendOff[e] + Cardinality(off[e] \cap {0, 5, 6})]

NextWeek ==
    /\ Planned
    /\ left > 0
    /\ left' = left - 1
    /\ weeks' = weeks + 1
    /\ wk' = wk + 1
    /\ consec' = [e \in Employees |-> Trailing(e)]
    /\ CountWeekend
    /\ off' = [e \in Employees |-> {}]
    /\ phase' = "offs"
    /\ UNCHANGED <<team, perWeek, live, streak, prev, at>>

Publish ==
    /\ Planned
    /\ left = 0
    /\ weeks' = weeks + 1
    /\ wk' = wk + 1
    /\ CountWeekend
    /\ phase' = "idle"
    /\ UNCHANGED <<team, perWeek, left, live, streak, prev, consec, off, at>>

Next ==
    \/ \E n \in 1 .. MaxPerCall : Generate(n)
    \/ \E i \in DOMAIN team.staff : AssignOffDay(i)
    \/ DayOff
    \/ \E c \in Working : WorkDay(c)
    \/ NextWeek
    \/ Publish

Spec == Init /\ [][Next]_vars
-----------------------------------------------------------------------------
(* Properties.                                                             *)

TypeOK ==
    /\ team \in Teams /\ perWeek \in OffDaysPerWeek
    /\ weeks \in 0 .. MaxWeeks /\ left \in 0 .. MaxPerCall - 1
    /\ \E first \in FirstWeeks : wk = first + weeks
    /\ phase \in {"idle", "offs", "fill"}
    /\ live \in [Employees -> Working \cup {OFF}]
    /\ prev \in [Employees -> Working \cup {OFF}]
    /\ streak \in [Employees -> Nat] /\ consec \in [Employees -> 0 .. Max_Consecutive]
    /\ weekendOff \in [Employees -> 0 .. 3 * weeks]
    /\ off \in [Employees -> SUBSET Days]
    /\ at[1] \in 1 .. Len(team.staff) + 1 /\ at[2] \in Days

\* "assigns exactly `offDaysPerWeek` OFFs inside each 7-day block"
\* (generator.service.ts): neither the moves for long runs nor a forced day
\* change the number, in any week, alone or carried over from the one before.
OffDaysExact == Planned => \A e \in Employees : Cardinality(off[e]) = perWeek

\* "each employee gets ONE weekend OFF (Thu/Fri/Sat) and ONE mid-week OFF"
\* (assignOffDays): also after a day was moved for a long run.
OneWeekendDay ==
    (Planned /\ perWeek = 2) =>
        \A e \in Employees : Cardinality(off[e] \cap {5, 6, 0}) = 1

\* "MAX here is only a safety ceiling" (generateWeeklySchedule): nobody works
\* more than nine days in a row, over the week before, which the generator
\* reads from seven days only, and over weeks planned in one call or in many.
RunsBounded == \A e \in Employees : streak[e] <= Max_Consecutive

\* "spread evenly" (assignOffDays): as long as nobody comes with a run long
\* enough to have a day moved, no day takes more of the team away than its
\* share, although a day that is full for one employee falls back on others.
SpreadEvenly ==
    (phase = "fill" /\ at = <<1, 0>> /\ \A e \in Employees : consec[e] <= 3) =>
        \A d \in Days : Cardinality({e \in Employees : d \in off[e]}) <= Capacity[d]

\* The employee at hand is given shift c, hours after a shift that ended.
Works(c) == Filling /\ at' # at /\ live'[Here] = c
Rested(c) == live[Here] = OFF \/ Starts[c] + 24 - Ends[live[Here]] >= MinRestHours

\* "no rest/gender blocker" (pickBestShift): the catalogue leaves every
\* function and both genders a shift with enough rest on every day, as long as
\* the engine knows the shift of the day before.
RestKept ==
    [][\A c \in Working : Works(c) /\ prev[Here] = live[Here] => Rested(c)]_vars

\* The same, on the first day of a call too, where the engine goes by what it
\* derives from the hour the last shift starts.
RestOverCalls ==
    [][\A c \in Working : Works(c) => Rested(c)]_vars
=============================================================================
