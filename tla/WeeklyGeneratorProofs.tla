------------------------ MODULE WeeklyGeneratorProofs ------------------------
(***************************************************************************)
(* What WeeklyGenerator keeps for teams of any size, any rotation and any  *)
(* number of weeks and calls: its types, the number of days off, the bound *)
(* on days worked in a row, the rest between shifts, and how the days off  *)
(* are spread over the week.  The balance of the spread is the last part   *)
(* and the longest: it follows what is left of every day's capacity.       *)
(***************************************************************************)
EXTENDS WeeklyGenerator, FiniteSetTheorems, TLAPS

\* Which shifts an employee may have been given.
ShiftsAllowed == \A e \in Employees : live[e] \in WorkingShifts(e) \cup {OFF}

\* A call plans no more weeks than there are.
CallInBounds ==
    IF phase = "idle" THEN left = 0 ELSE weeks + left < MaxWeeks

\* Nobody gets more days off than there are to get, and all have them all
\* when the week is filled.
DaysGiven ==
    /\ phase = "offs" => \A e \in Employees : Cardinality(off[e]) <= perWeek
    /\ phase = "fill" => \A e \in Employees : Cardinality(off[e]) = perWeek

\* Days of the week that are filled for the employee at place i.
Filled(i) == IF phase # "fill" \/ i > at[1] THEN 0 ELSE IF i = at[1] THEN at[2] ELSE 7

\* Of the days off in S one is ahead on day t, before the run of c gets too long.
Ahead(S, t, c) == \E d \in S : t <= d /\ c + (d - t) <= Max_Consecutive

\* All days off are over, and the run is what was worked since the last one.
Past(S, t, c) == \E m \in S : m < t /\ (\A d \in S : d <= m) /\ c = t - 1 - m

InTime(S, t, c) == Ahead(S, t, c) \/ Past(S, t, c)

\* The plan comes in time for everybody who has got it.
OnTime ==
    phase # "idle" =>
        \A i \in DOMAIN team.staff :
            LET e == team.staff[i] IN
            Cardinality(off[e]) = perWeek => InTime(off[e], Filled(i), consec[e])

\* The engine knows the run each employee really has.
RunIsKnown ==
    \A e \in Employees : IF phase = "idle" THEN streak[e] <= 7 ELSE streak[e] = consec[e]

-----------------------------------------------------------------------------
(* How the days off are balanced.  What is left of the capacity is counted  *)
(* over those who have all their days; somebody who has one of two days is  *)
(* the first of those who wait.                                             *)

Settled == {e \in Employees : Cardinality(off[e]) = perWeek}

Left(d) == Capacity[d] - Cardinality({e \in Settled : d \in off[e]})

\* The places left on days 1 to 4, and on the days 0, 5 and 6 of the weekend,
\* when two days off are given.
\*  - As many are left midweek as on weekends; only day 0 may be overdrawn, by
\*    days that were moved to it.
\*  - Days 5 and 6 are level, and day 0 is not behind them; days 2 and 3 are
\*    level, and days 1 and 4, which whoever has day 0 or 5 avoids, are not
\*    behind them by more than one.
\*  - Day 4 may pile up for those who have day 5, but only as day 0 falls behind.
\*  - Day 1 is one ahead at most, or two for a moment after two in a row have
\*    chosen day 0.
Balanced(q1, q2, q3, q4, r0, r5, r6) ==
    /\ q1 \in Nat /\ q2 \in Nat /\ q3 \in Nat /\ q4 \in Nat
    /\ r0 \in Int /\ r5 \in Nat /\ r6 \in Nat
    /\ q1 + q2 + q3 + q4 = r0 + r5 + r6
    /\ r5 <= r6 + 1 /\ r6 <= r5 + 1 /\ r0 <= r5 + 1 /\ r0 <= r6 + 1
    /\ q2 <= q3 + 1 /\ q3 <= q2 + 1
    /\ q2 <= q1 + 1 /\ q3 <= q1 + 1 /\ q2 <= q4 + 1 /\ q3 <= q4 + 1
    /\ 3 * q4 + r5 + r0 <= q1 + q2 + q3 + 2 * r6 + 5
    /\ \/ q1 <= q2 + 1 \/ q1 <= q3 + 1
       \/ q2 = q3 /\ q1 = q2 + 2 /\ q4 <= q2 + 1 /\ r5 = r0 + 1 /\ r6 = r0 + 1
    /\ (q2 # q3 /\ q1 > q2 /\ q1 > q3) =>
           /\ q4 <= q2 \/ q4 <= q3
           /\ r0 <= r5 /\ r5 <= r0 + 1 /\ r0 <= r6 /\ r6 <= r0 + 1

LeftBalanced ==
    Balanced(Left(1), Left(2), Left(3), Left(4), Left(0), Left(5), Left(6))

\* Of two days off the one at the weekend comes first, where most is left.
WeekendFirst ==
    \A i \in DOMAIN team.staff :
        Cardinality(off[team.staff[i]]) = 1 =>
            /\ \A j \in Waiting \ {i} : Before(i, j)
            /\ \E w \in {0, 5, 6} : /\ off[team.staff[i]] = {w} /\ Left(w) > 0
                                    /\ \A v \in {0, 5, 6} : Left(v) <= Left(w)

\* No run is so long that a day off may be moved for it.
ShortRuns == \A e \in Employees : consec[e] <= 3

PairsLeft ==
    /\ Left(1) + Left(2) + Left(3) + Left(4) = Cardinality(Employees \ Settled)
    /\ LeftBalanced /\ WeekendFirst
    /\ ShortRuns => Left(0) >= 0

PairsGiven == (phase = "offs" /\ perWeek = 2) => PairsLeft

OneAtWeekend ==
    (phase \in {"offs", "fill"} /\ perWeek = 2) =>
        \A e \in Settled : Cardinality(off[e] \cap {5, 6, 0}) = 1

\* The same with one day off a week.
SinglesLeft ==
    /\ Left(0) + Left(1) + Left(2) + Left(3) + Left(4) + Left(5) + Left(6)
         = Cardinality(Employees \ Settled)
    /\ ShortRuns => \A d \in Days : Left(d) >= 0

SinglesGiven == (phase = "offs" /\ perWeek = 1) => SinglesLeft

IInv == TypeOK /\ ShiftsAllowed /\ CallInBounds /\ DaysGiven /\ OnTime

-----------------------------------------------------------------------------
(* Facts about sets of numbers.                                            *)

\* A finite set has an element where a function is at its highest.
LEMMA HighestExists ==
  ASSUME NEW S, IsFiniteSet(S), S # {}, NEW f \in [S -> Int]
  PROVE  \E x \in S : \A y \in S : f[y] <= f[x]
<1> DEFINE Above(x) == {y \in S : f[y] > f[x]}
           B == {Above(x) : x \in S}
<1>1. B \subseteq SUBSET S /\ B # {}
  <2>1. PICK x \in S : TRUE
    OBVIOUS
  <2>2. Above(x) \in B
    BY <2>1
  <2>3. \A y \in S : Above(y) \subseteq S
    OBVIOUS
  <2> QED
    BY <2>2, <2>3
<1>2. IsWellFoundedOn(StrictSubsetOrdering(S), SUBSET S)
  BY FS_StrictSubsetOrderingWellFounded, FS_FiniteSubsetsOfFinite
<1>3. PICK T \in B : \A U \in B : ~(<<U, T>> \in StrictSubsetOrdering(S))
  <2> HIDE DEF B
  <2> QED
    BY <1>1, <1>2, WFMin
<1>4. PICK x \in S : T = Above(x)
  BY <1>3
<1>5. \A y \in Above(x) : FALSE
  <2> SUFFICES ASSUME NEW y \in Above(x) PROVE FALSE
    OBVIOUS
  <2>1. Above(y) \subseteq Above(x) /\ y \notin Above(y)
    OBVIOUS
  <2>2. Above(y) \in B /\ Above(y) # Above(x)
    BY <2>1
  <2>3. <<Above(y), T>> \in StrictSubsetOrdering(S)
    BY <1>4, <2>1, <2>2 DEF StrictSubsetOrdering
  <2> QED
    BY <1>3, <2>2, <2>3
<1>6. \A y \in S : ~(f[y] > f[x])
  BY <1>5
<1> QED
  BY <1>6

\* Min and Max are what their names say.
LEMMA MinMaxFacts ==
  ASSUME NEW S \in SUBSET Int, IsFiniteSet(S), S # {}
  PROVE  /\ Min(S) \in S /\ \A x \in S : Min(S) <= x
         /\ Max(S) \in S /\ \A x \in S : x <= Max(S)
<1>1. PICK x \in S : \A y \in S : y <= x
  <2> DEFINE f == [y \in S |-> y]
  <2>1. f \in [S -> Int]
    OBVIOUS
  <2>2. \E x \in S : \A y \in S : f[y] <= f[x]
    <3> HIDE DEF f
    <3> QED
      BY <2>1, HighestExists
  <2> QED
    BY <2>2
<1>2. PICK z \in S : \A y \in S : z <= y
  <2> DEFINE f == [y \in S |-> -y]
  <2>1. f \in [S -> Int]
    OBVIOUS
  <2>2. \E w \in S : \A y \in S : f[y] <= f[w]
    <3> HIDE DEF f
    <3> QED
      BY <2>1, HighestExists
  <2>3. PICK z \in S : \A y \in S : -y <= -z
    BY <2>2
  <2>4. \A y \in S : z <= y
    BY <2>3
  <2> QED
    BY <2>4
<1>3. \A y \in S : x >= y
  BY <1>1
<1> QED
  BY <1>1, <1>2, <1>3 DEF Min, Max

LEMMA DaysFinite ==
  /\ IsFiniteSet(Days) /\ Cardinality(Days) = 7
  /\ \A taken \in SUBSET Days : IsFiniteSet(taken) /\ Cardinality(taken) \in 0 .. 7
<1>1. IsFiniteSet(Days) /\ Cardinality(Days) = 7
  <2>1. IsFiniteSet(0 .. 6) /\ Cardinality(0 .. 6) = IF 0 > 6 THEN 0 ELSE 6 - 0 + 1
    BY FS_Interval, 0 \in Int, 6 \in Int
  <2> QED
    BY <2>1 DEF Days
<1>2. ASSUME NEW taken \in SUBSET Days PROVE IsFiniteSet(taken) /\ Cardinality(taken) \in 0 .. 7
  <2>1. IsFiniteSet(taken) /\ Cardinality(taken) <= 7
    BY <1>1, FS_Subset
  <2>2. Cardinality(taken) \in Nat
    BY <2>1, FS_CardinalityType
  <2> QED
    BY <2>1, <2>2
<1> QED
  BY <1>1, <1>2

LEMMA DayMinMax ==
  ASSUME NEW taken \in SUBSET Days, taken # {}
  PROVE  /\ Min(taken) \in taken /\ \A d \in taken : Min(taken) <= d
         /\ Max(taken) \in taken /\ \A d \in taken : d <= Max(taken)
  BY DaysFinite, MinMaxFacts DEF Days

-----------------------------------------------------------------------------
(* The days that assignOffDays picks.                                      *)

LEMMA StaffFacts ==
  ASSUME TypeOK
  PROVE  /\ Len(team.staff) \in Nat \ {0} /\ DOMAIN team.staff = 1 .. Len(team.staff)
         /\ \A i \in DOMAIN team.staff : team.staff[i] \in Employees
         /\ \A i, j \in DOMAIN team.staff : team.staff[i] = team.staff[j] => i = j
         /\ IsFiniteSet(Employees)
         /\ perWeek \in 1 .. 7 /\ wk \in Nat
<1>1. team \in Teams /\ perWeek \in 1 .. 7 /\ wk \in Nat
  BY InputAssumption, BoundAssumption DEF TypeOK
<1>2. team.staff \in Seq(Employees) \ {<<>>}
  BY <1>1, TeamAssumption DEF Employees
<1>3. Len(team.staff) \in Nat \ {0} /\ DOMAIN team.staff = 1 .. Len(team.staff)
  BY <1>2
<1>4. \A i, j \in DOMAIN team.staff : team.staff[i] = team.staff[j] => i = j
  BY <1>1, TeamAssumption
<1>5. IsFiniteSet(Employees)
  <2> DEFINE S == 1 .. Len(team.staff)
             f == [i \in S |-> team.staff[i]]
  <2>1. IsFiniteSet(S)
    BY <1>3, FS_Interval
  <2>2. f \in Surjection(S, Employees)
    BY <1>3 DEF Surjection, Employees
  <2> HIDE DEF S, f
  <2> QED
    BY <2>1, <2>2, FS_Surjection
<1> QED
  BY <1>1, <1>3, <1>4, <1>5 DEF Employees

\* Each order lists days, and anyOrder lists them all.
LEMMA OrderFacts ==
  ASSUME wk \in Nat
  PROVE  /\ DOMAIN WeekendOrder = 1 .. 3 /\ \A i \in 1 .. 3 : WeekendOrder[i] \in {0, 5, 6}
         /\ DOMAIN WeekdayOrder = 1 .. 4 /\ \A i \in 1 .. 4 : WeekdayOrder[i] \in 1 .. 4
         /\ DOMAIN AnyOrder = 1 .. 7 /\ \A i \in 1 .. 7 : AnyOrder[i] \in Days
         /\ \A d \in Days : \E i \in 1 .. 7 : AnyOrder[i] = d
<1>1. DOMAIN WeekendOrder = 1 .. 3
      /\ \A i \in 1 .. 3 : (i - 1 + wk) % 3 \in 0 .. 2 /\ WeekendOrder[i] = Weekend[((i - 1 + wk) % 3) + 1]
  BY DEF WeekendOrder, Weekend, Rotate
<1>2. DOMAIN WeekdayOrder = 1 .. 4
      /\ \A i \in 1 .. 4 : (i - 1 + wk) % 4 \in 0 .. 3 /\ WeekdayOrder[i] = Weekdays[((i - 1 + wk) % 4) + 1]
  BY DEF WeekdayOrder, Weekdays, Rotate
<1>3. DOMAIN AnyOrder = 1 .. 7
      /\ \A i \in 1 .. 7 : (i - 1 + wk) % 7 \in 0 .. 6 /\ AnyOrder[i] = AllDays[((i - 1 + wk) % 7) + 1]
  BY DEF AnyOrder, AllDays, Rotate
<1>4. \A k \in 0 .. 2 : Weekend[k + 1] \in {0, 5, 6}
  BY DEF Weekend
<1>5. \A k \in 0 .. 3 : Weekdays[k + 1] \in 1 .. 4
  BY DEF Weekdays
<1>6. \A k \in 0 .. 6 : AllDays[k + 1] = k
  BY DEF AllDays
<1>7. ASSUME NEW d \in Days PROVE \E i \in 1 .. 7 : AnyOrder[i] = d
  <2> DEFINE i == ((d - wk) % 7) + 1
  <2>1. i \in 1 .. 7
    BY DEF Days
  <2>2. (i - 1 + wk) % 7 = d
    BY DEF Days
  <2>3. AnyOrder[i] = d
    BY <1>3, <1>6, <2>1, <2>2 DEF Days
  <2> QED
    BY <2>1, <2>3
<1> QED
  BY <1>1, <1>2, <1>3, <1>4, <1>5, <1>6, <1>7 DEF Days

LEMMA CapacityIsNat ==
  ASSUME TypeOK, NEW d \in Days
  PROVE  Capacity[d] \in Nat
<1>1. Len(team.staff) \in Nat /\ perWeek \in 1 .. 7
  BY StaffFacts
<1>2. ASSUME NEW count \in Nat, NEW days \in {Weekend, Weekdays, AllDays}
      PROVE  SpreadCapacity(days, count)[d] \in Nat
  <2>1. Len(days) \in 1 .. 7
    BY <1>2 DEF Weekend, Weekdays, AllDays
  <2>2. count \div Len(days) \in Nat
    BY <2>1
  <2> QED
    BY <2>2 DEF SpreadCapacity
<1>3. Len(team.staff) * (perWeek - 1) \in Nat
  <2>1. \A x, y \in Nat : x * y \in Nat
    OBVIOUS
  <2>2. perWeek - 1 \in Nat
    BY <1>1
  <2> QED
    BY <1>1, <2>1, <2>2
<1>4. CASE perWeek = 1
  BY <1>1, <1>2, <1>4 DEF Capacity
<1>5. CASE perWeek # 1
  <2>1. SpreadCapacity(Weekend, Len(team.staff))[d] \in Nat
    BY <1>1, <1>2
  <2>2. SpreadCapacity(Weekdays, Len(team.staff) * (perWeek - 1))[d] \in Nat
    BY <1>2, <1>3
  <2> QED
    BY <1>5, <2>1, <2>2 DEF Capacity
<1> QED
  BY <1>4, <1>5

LEMMA RemainIsInt ==
  ASSUME TypeOK, NEW d \in Days
  PROVE  Remain(d) \in Int
<1>1. IsFiniteSet({e \in Employees : d \in off[e]})
  BY StaffFacts, FS_Subset
<1>2. Used(d) \in Nat
  BY <1>1, FS_CardinalityType DEF Used
<1> QED
  BY <1>2, CapacityIsNat DEF Remain

\* pickDayWithCapacity returns one of the days it may take, or none.
LEMMA PickIsAllowed ==
  ASSUME TypeOK, NEW n \in Nat, NEW order, DOMAIN order = 1 .. n,
         \A i \in 1 .. n : order[i] \in Days, NEW days
  PROVE  PickDayWithCapacity(order, days) \in days \cup {NoDay}
<1> DEFINE spare == {i \in DOMAIN order : order[i] \in days /\ Remain(order[i]) > 0}
           most == {i \in spare : \A j \in spare : Remain(order[j]) <= Remain(order[i])}
<1>1. CASE spare = {}
  BY <1>1 DEF PickDayWithCapacity
<1>2. CASE spare # {}
  <2>1. IsFiniteSet(1 .. n)
    BY FS_Interval, 1 \in Int
  <2>2. IsFiniteSet(spare)
    BY <2>1, FS_Subset
  <2> DEFINE f == [i \in spare |-> Remain(order[i])]
  <2>3. f \in [spare -> Int]
    BY RemainIsInt
  <2>4. \E x \in spare : \A y \in spare : f[y] <= f[x]
    <3> HIDE DEF f, spare
    <3> QED
      BY <1>2, <2>2, <2>3, HighestExists
  <2>5. most # {}
    BY <2>4
  <2>6. most \in SUBSET Int /\ IsFiniteSet(most)
    BY <2>2, FS_Subset
  <2>7. Min(most) \in most
    <3> HIDE DEF most
    <3> QED
      BY <2>5, <2>6, MinMaxFacts
  <2> QED
    BY <1>2, <2>7 DEF PickDayWithCapacity
<1> QED
  BY <1>1, <1>2

LEMMA FirstFreeIsAllowed ==
  ASSUME NEW n \in Nat, NEW order, DOMAIN order = 1 .. n, NEW days
  PROVE  /\ FirstFree(order, days) \in days \cup {NoDay}
         /\ (\E i \in 1 .. n : order[i] \in days) => FirstFree(order, days) \in days
<1> DEFINE free == {i \in DOMAIN order : order[i] \in days}
<1>1. CASE free = {}
  BY <1>1 DEF FirstFree
<1>2. CASE free # {}
  <2>1. IsFiniteSet(1 .. n)
    BY FS_Interval, 1 \in Int
  <2>2. free \in SUBSET Int /\ IsFiniteSet(free)
    BY <2>1, FS_Subset
  <2>3. Min(free) \in free
    <3> HIDE DEF free
    <3> QED
      BY <1>2, <2>2, MinMaxFacts
  <2> QED
    BY <1>2, <2>3 DEF FirstFree
<1> QED
  BY <1>1, <1>2

\* The chain of choices ends at the first that found a day.
LEMMA FirstFoundIsAllowed ==
  ASSUME NEW n \in Nat, NEW choices, DOMAIN choices = 1 .. n,
         NEW k \in 1 .. n, choices[k] # NoDay,
         NEW S, \A i \in 1 .. k : choices[i] \in S \cup {NoDay}
  PROVE  FirstFound(choices) \in S
<1> DEFINE found == {i \in DOMAIN choices : choices[i] # NoDay}
<1>1. IsFiniteSet(1 .. n)
  BY FS_Interval, 1 \in Int
<1>2. found \in SUBSET Int /\ IsFiniteSet(found) /\ k \in found
  BY <1>1, FS_Subset
<1>3. Min(found) \in found /\ Min(found) <= k
  <2> HIDE DEF found
  <2> QED
    BY <1>2, MinMaxFacts
<1>4. choices[Min(found)] \in S
  BY <1>3
<1> QED
  BY <1>4 DEF FirstFound

LEMMA OnlyDayIsDay == TypeOK => OnlyDay \in Days
<1> SUFFICES ASSUME TypeOK PROVE OnlyDay \in Days
  OBVIOUS
<1> DEFINE a == PickDayWithCapacity(WeekendOrder, Days)
           b == PickDayWithCapacity(AnyOrder, Days)
           choices == <<a, b, AnyOrder[1]>>
<1>1. wk \in Nat
  BY StaffFacts
<1>2. a \in Days \cup {NoDay}
  <2>1. DOMAIN WeekendOrder = 1 .. 3 /\ \A i \in 1 .. 3 : WeekendOrder[i] \in Days
    BY <1>1, OrderFacts DEF Days
  <2> QED
    BY <2>1, PickIsAllowed, 3 \in Nat
<1>3. b \in Days \cup {NoDay}
  BY <1>1, OrderFacts, PickIsAllowed, 7 \in Nat DEF Days
<1>4. AnyOrder[1] \in Days
  BY <1>1, OrderFacts
<1> HIDE DEF a, b
<1>5. DOMAIN choices = 1 .. 3 /\ choices[1] = a /\ choices[2] = b /\ choices[3] = AnyOrder[1]
  OBVIOUS
<1>6. choices[3] # NoDay
  BY <1>4, <1>5 DEF Days, NoDay
<1>7. \A i \in 1 .. 3 : choices[i] \in Days \cup {NoDay}
  BY <1>2, <1>3, <1>4, <1>5
<1> HIDE DEF choices
<1>8. FirstFound(choices) \in Days
  BY <1>5, <1>6, <1>7, FirstFoundIsAllowed, 3 \in Nat, 3 \in 1 .. 3
<1> QED
  BY <1>8 DEF OnlyDay, a, b, choices

LEMMA WeekendDayIsWeekend == TypeOK => WeekendDay \in {0, 5, 6}
<1> SUFFICES ASSUME TypeOK PROVE WeekendDay \in {0, 5, 6}
  OBVIOUS
<1> DEFINE W == {0, 5, 6}
           a == PickDayWithCapacity(WeekendOrder, Days)
           choices == <<a, WeekendOrder[1]>>
<1>1. DOMAIN WeekendOrder = 1 .. 3 /\ \A i \in 1 .. 3 : WeekendOrder[i] \in W
  BY StaffFacts, OrderFacts
<1>2. a \in W \cup {NoDay}
  <2>1. PickDayWithCapacity(WeekendOrder, Days) = PickDayWithCapacity(WeekendOrder, W)
    BY <1>1 DEF PickDayWithCapacity, Days
  <2>2. PickDayWithCapacity(WeekendOrder, W) \in W \cup {NoDay}
    <3>1. \A i \in 1 .. 3 : WeekendOrder[i] \in Days
      BY <1>1 DEF Days
    <3> HIDE DEF W
    <3> QED
      BY <1>1, <3>1, PickIsAllowed, 3 \in Nat
  <2> QED
    BY <2>1, <2>2
<1> HIDE DEF a
<1>3. DOMAIN choices = 1 .. 2 /\ choices[1] = a /\ choices[2] = WeekendOrder[1]
  OBVIOUS
<1>4. choices[2] \in W /\ choices[2] # NoDay
  BY <1>1, <1>3 DEF NoDay
<1>5. \A i \in 1 .. 2 : choices[i] \in W \cup {NoDay}
  BY <1>2, <1>3, <1>4
<1> HIDE DEF choices, W
<1>6. FirstFound(choices) \in W
  BY <1>3, <1>4, <1>5, FirstFoundIsAllowed, 2 \in Nat, 2 \in 1 .. 2
<1> QED
  BY <1>6 DEF WeekendDay, a, choices, W

LEMMA MidweekDayIsFree ==
  ASSUME TypeOK, NEW taken \in SUBSET Days, Cardinality(taken) < 7
  PROVE  MidweekDay(taken) \in Free(taken)
<1> DEFINE c1 == PickDayWithCapacity(WeekdayOrder, Away(taken))
           c2 == PickDayWithCapacity(AnyOrder, Away(taken))
           c3 == PickDayWithCapacity(WeekdayOrder, Free(taken))
           c4 == PickDayWithCapacity(AnyOrder, Free(taken))
           c5 == FirstFree(AnyOrder, Away(taken))
           c6 == FirstFree(AnyOrder, Free(taken))
           choices == <<c1, c2, c3, c4, c5, c6, 0>>
           S == Free(taken)
<1>1. /\ DOMAIN WeekdayOrder = 1 .. 4 /\ \A i \in 1 .. 4 : WeekdayOrder[i] \in Days
      /\ DOMAIN AnyOrder = 1 .. 7 /\ \A i \in 1 .. 7 : AnyOrder[i] \in Days
      /\ \A d \in Days : \E i \in 1 .. 7 : AnyOrder[i] = d
  BY StaffFacts, OrderFacts DEF Days
<1>2. Away(taken) \subseteq S
  BY DEF Away
<1>3. c1 \in S \cup {NoDay} /\ c3 \in S \cup {NoDay}
  <2> HIDE DEF S
  <2>1. c1 \in Away(taken) \cup {NoDay} /\ c3 \in Free(taken) \cup {NoDay}
    BY <1>1, PickIsAllowed, 4 \in Nat
  <2> QED
    BY <1>2, <2>1 DEF S
<1>4. c2 \in S \cup {NoDay} /\ c4 \in S \cup {NoDay}
  <2> HIDE DEF S
  <2>1. c2 \in Away(taken) \cup {NoDay} /\ c4 \in Free(taken) \cup {NoDay}
    BY <1>1, PickIsAllowed, 7 \in Nat
  <2> QED
    BY <1>2, <2>1 DEF S
<1>5. PICK d \in Days : d \notin taken
  BY DaysFinite
<1>6. c5 \in S \cup {NoDay} /\ c6 \in S
  <2> HIDE DEF S
  <2>1. c5 \in Away(taken) \cup {NoDay}
    BY <1>1, FirstFreeIsAllowed, 7 \in Nat
  <2>2. \E i \in 1 .. 7 : AnyOrder[i] \in Free(taken)
    BY <1>1, <1>5 DEF Free
  <2>3. c6 \in Free(taken)
    BY <1>1, <2>2, FirstFreeIsAllowed, 7 \in Nat
  <2> QED
    BY <1>2, <2>1, <2>3 DEF S
<1> HIDE DEF c1, c2, c3, c4, c5, c6
<1>7. /\ DOMAIN choices = 1 .. 7
      /\ choices[1] = c1 /\ choices[2] = c2 /\ choices[3] = c3
      /\ choices[4] = c4 /\ choices[5] = c5 /\ choices[6] = c6
  OBVIOUS
<1>8. c6 # NoDay
  BY <1>6 DEF Free, Days, NoDay
<1> HIDE DEF choices, S
<1>9. \A i \in 1 .. 6 : choices[i] \in S \cup {NoDay}
  BY <1>3, <1>4, <1>6, <1>7
<1>10. FirstFound(choices) \in S
  BY <1>7, <1>8, <1>9, FirstFoundIsAllowed, 7 \in Nat, 6 \in 1 .. 7
<1> QED
  BY <1>10 DEF MidweekDay, choices, S, c1, c2, c3, c4, c5, c6

\* Whoever waits for a day off gets one that is not taken yet.
LEMMA NextDayIsNew ==
  ASSUME TypeOK, NEW taken \in SUBSET Days, Cardinality(taken) < perWeek
  PROVE  /\ NextDay(taken) \in Days \ taken
         /\ Cardinality(taken \cup {NextDay(taken)}) = Cardinality(taken) + 1
<1>1. perWeek \in 1 .. 7 /\ IsFiniteSet(taken) /\ Cardinality(taken) \in 0 .. 7
  BY StaffFacts, DaysFinite
<1>2. NextDay(taken) \in Days \ taken
  <2>1. CASE taken = {}
    <3>1. OnlyDay \in Days /\ WeekendDay \in Days
      BY OnlyDayIsDay, WeekendDayIsWeekend DEF Days
    <3> QED
      BY <2>1, <3>1 DEF NextDay
  <2>2. CASE taken # {}
    <3>1. Cardinality(taken) # 0
      BY <1>1, <2>2, FS_EmptySet
    <3>2. perWeek # 1 /\ Cardinality(taken) < 7
      BY <1>1, <3>1
    <3> QED
      BY <2>2, <3>2, MidweekDayIsFree DEF NextDay, Free
  <2> QED
    BY <2>1, <2>2
<1> QED
  BY <1>1, <1>2, FS_AddElement

\* Moving a day for a long run leaves the number of days off, and one in time.
\* The last day off is moved to the first day, and only for more than three days.
LEMMA EarlyOffFacts ==
  ASSUME NEW taken \in SUBSET Days, taken # {}, NEW prior \in 0 .. Max_Consecutive
  PROVE  /\ EarlyOff(taken, prior) \in SUBSET Days
         /\ Cardinality(EarlyOff(taken, prior)) = Cardinality(taken)
         /\ \E d \in EarlyOff(taken, prior) : prior + d <= Max_Consecutive
         /\ \/ EarlyOff(taken, prior) = taken
            \/ /\ prior > 3 /\ 0 \notin taken
               /\ EarlyOff(taken, prior) = (taken \ {Max(taken)}) \cup {0}
<1> DEFINE maxFirst == Max({0, Max_Consecutive - prior})
<1>1. maxFirst = 9 - prior
  <2> DEFINE S == {0, 9 - prior}
  <2>1. IsFiniteSet(S) /\ S \in SUBSET Int /\ S # {}
    <3>1. IsFiniteSet(0 .. 9)
      BY FS_Interval, 0 \in Int, 9 \in Int
    <3>2. S \in SUBSET (0 .. 9)
      BY DEF Max_Consecutive
    <3> QED
      BY <3>1, <3>2, FS_Subset
  <2>2. Max(S) \in S /\ \A x \in S : x <= Max(S)
    <3> HIDE DEF S
    <3> QED
      BY <2>1, MinMaxFacts
  <2> QED
    BY <2>2 DEF Max_Consecutive
<1>2. Min(taken) \in taken /\ (\A d \in taken : Min(taken) <= d) /\ Max(taken) \in taken
  BY DayMinMax
<1> DEFINE first == Min(taken)
           last == Max(taken)
<1>0. /\ \A d \in taken : d \in 0 .. 6 /\ first <= d
      /\ first \in taken /\ last \in taken /\ prior \in 0 .. 9
  BY <1>2 DEF Days, Max_Consecutive
<1> HIDE DEF maxFirst, first, last
<1>3. CASE prior <= 0 \/ first <= maxFirst
  <2>1. EarlyOff(taken, prior) = taken
    BY <1>3 DEF EarlyOff, maxFirst, first
  <2>2. prior + first <= 9
    BY <1>0, <1>1, <1>3
  <2> QED
    BY <1>0, <2>1, <2>2 DEF Max_Consecutive
<1>4. CASE ~(prior <= 0 \/ first <= maxFirst)
  <2> DEFINE F == (0 .. maxFirst) \ taken
  <2>1. 0 \in F /\ 0 \notin taken /\ F \in SUBSET Int /\ \A x \in F : 0 <= x
    BY <1>0, <1>1, <1>4
  <2>2. IsFiniteSet(F)
    <3>1. maxFirst \in Int
      BY <1>1 DEF Max_Consecutive
    <3>2. IsFiniteSet(0 .. maxFirst)
      BY <3>1, FS_Interval, 0 \in Int
    <3> QED
      BY <3>2, FS_Subset
  <2>3. Min(F) = 0
    <3>1. Min(F) \in F /\ \A x \in F : Min(F) <= x
      <4> HIDE DEF F
      <4> QED
        BY <2>1, <2>2, MinMaxFacts
    <3> QED
      BY <2>1, <3>1
  <2>4. EarlyOff(taken, prior) = (taken \ {last}) \cup {0}
    BY <1>4, <2>3 DEF EarlyOff, maxFirst, first, last
  <2>5. IsFiniteSet(taken) /\ Cardinality(taken) \in Nat
    BY DaysFinite
  <2>6. /\ IsFiniteSet(taken \ {last})
        /\ Cardinality(taken \ {last}) = Cardinality(taken) - 1
    BY <1>0, <2>5, FS_RemoveElement
  <2>7. Cardinality((taken \ {last}) \cup {0}) = Cardinality(taken)
    <3>1. Cardinality((taken \ {last}) \cup {0}) = Cardinality(taken \ {last}) + 1
      BY <2>1, <2>6, FS_AddElement
    <3> QED
      BY <2>5, <2>6, <3>1
  <2>8. (taken \ {last}) \cup {0} \in SUBSET Days
    <3>1. 0 \in Days
      BY DEF Days
    <3> QED
      BY <3>1
  <2>9. prior + 0 <= Max_Consecutive
    BY DEF Max_Consecutive
  <2>10. prior > 3
    BY <1>0, <1>1, <1>4
  <2> QED
    BY <2>1, <2>4, <2>7, <2>8, <2>9, <2>10 DEF last
<1> QED
  BY <1>3, <1>4

-----------------------------------------------------------------------------
(* The catalogue.                                                          *)

\* Whatever the last shift was, the generator takes it for one it knows.
LEMMA DerivedIsShift ==
  ASSUME NEW code \in Working \cup {OFF} PROVE DerivedShift(code) \in Working \cup {OFF}
<1>1. CASE code = OFF
  BY <1>1 DEF DerivedShift
<1>2. CASE code # OFF
  <2>1. Starts[code] \in {7, 9, 11, 13, 16, 18, 22, 23}
    BY <1>2 DEF Starts, Working
  <2>2. DOMAIN DerivedHours = {"M", "B", "C", "E", "N", "EE", "MD"}
    BY DEF DerivedHours
  <2>3. DOMAIN DerivedHours \subseteq Working
    BY <2>2 DEF Working, Starts
  <2>4. \E c \in DOMAIN DerivedHours : Starts[code] \in DerivedHours[c]
    BY <2>1 DEF DerivedHours
  <2> QED
    BY <1>2, <2>3, <2>4 DEF DerivedShift
<1> QED
  BY <1>1, <1>2

\* No shift is longer than nine hours, so the same shift again leaves fifteen.
LEMMA SameShiftRests ==
  ASSUME NEW c \in Working, NEW d \in Working
  PROVE  /\ c # OFF /\ Starts[c] \in Int /\ Ends[d] \in Int
         /\ Starts[c] + 24 - Ends[c] >= 15
<1>1. Working = {"M", "B", "C", "N", "E", "EE", "MD", "MN"} /\ OFF \notin Working
  BY DEF Working, Starts, OFF
<1>2. Starts[c] \in Int
  BY <1>1 DEF Starts
<1>3. Ends[d] \in Int
  BY <1>1 DEF Ends
<1>4. Starts[c] + 24 - Ends[c] >= 15
  <2>1. CASE c = "M"
    BY <2>1 DEF Starts, Ends
  <2>2. CASE c = "B"
    BY <2>2 DEF Starts, Ends
  <2>3. CASE c = "C"
    BY <2>3 DEF Starts, Ends
  <2>4. CASE c = "N"
    BY <2>4 DEF Starts, Ends
  <2>5. CASE c = "E"
    BY <2>5 DEF Starts, Ends
  <2>6. CASE c = "EE"
    BY <2>6 DEF Starts, Ends
  <2>7. CASE c = "MD"
    BY <2>7 DEF Starts, Ends
  <2>8. CASE c = "MN"
    BY <2>8 DEF Starts, Ends
  <2> QED
    BY <1>1, <2>1, <2>2, <2>3, <2>4, <2>5, <2>6, <2>7, <2>8
<1> QED
  BY <1>1, <1>2, <1>3, <1>4

LEMMA AllowedAreShifts == \A e : WorkingShifts(e) \subseteq Working
<1>1. AllowedCodes(team.fn) \subseteq Working
  BY DEF AllowedCodes, Working, Starts
<1> QED
  BY <1>1 DEF WorkingShifts

-----------------------------------------------------------------------------
(* Types.                                                                  *)

LEMMA TypeInit == Init => TypeOK
<1> SUFFICES ASSUME Init PROVE TypeOK
  OBVIOUS
<1>1. team.staff \in Seq(Employees) \ {<<>>}
  BY TeamAssumption DEF Init, Employees
<1>2. \E first \in FirstWeeks : wk = first + weeks
  <2>1. wk \in FirstWeeks /\ wk \in Int /\ wk = wk + 0
    BY InputAssumption DEF Init
  <2> QED
    BY <2>1 DEF Init
<1>3. weeks \in 0 .. MaxWeeks /\ left \in 0 .. MaxPerCall - 1
  BY BoundAssumption DEF Init
<1>4. live \in [Employees -> Working \cup {OFF}] /\ streak \in [Employees -> Nat]
  BY InputAssumption DEF Init
<1>5. /\ weekendOff = [e \in Employees |-> 0] /\ consec = [e \in Employees |-> 0]
      /\ off = [e \in Employees |-> {}] /\ at = <<1, 0>> /\ prev = live /\ weeks = 0
  BY DEF Init
<1>6. /\ consec \in [Employees -> 0 .. Max_Consecutive] /\ weekendOff \in [Employees -> 0 .. 3 * weeks]
      /\ off \in [Employees -> SUBSET Days]
  BY <1>5 DEF Max_Consecutive
<1>7. at[1] \in 1 .. Len(team.staff) + 1 /\ at[2] \in Days
  BY <1>1, <1>5 DEF Days
<1>8. team \in Teams /\ perWeek \in OffDaysPerWeek /\ phase \in {"idle", "offs", "fill"}
  BY DEF Init
<1> QED
  BY <1>2, <1>3, <1>4, <1>5, <1>6, <1>7, <1>8 DEF TypeOK

\* Three days of the week are weekend days.
LEMMA WeekendCounted ==
  TypeOK /\ CountWeekend /\ weeks' = weeks + 1 => weekendOff' \in [Employees -> 0 .. 3 * weeks']
<1> SUFFICES ASSUME TypeOK, CountWeekend, weeks' = weeks + 1
             PROVE  weekendOff' \in [Employees -> 0 .. 3 * weeks']
  OBVIOUS
<1>1. IsFiniteSet({0, 5, 6}) /\ Cardinality({0, 5, 6}) = 3
  <2>1. IsFiniteSet({}) /\ Cardinality({}) = 0
    BY FS_EmptySet
  <2>2. IsFiniteSet({} \cup {0}) /\ Cardinality({} \cup {0}) = 1
    BY <2>1, FS_AddElement
  <2>3. IsFiniteSet(({} \cup {0}) \cup {5}) /\ Cardinality(({} \cup {0}) \cup {5}) = 2
    BY <2>2, FS_AddElement
  <2>4. IsFiniteSet((({} \cup {0}) \cup {5}) \cup {6}) /\ Cardinality((({} \cup {0}) \cup {5}) \cup {6}) = 3
    BY <2>3, FS_AddElement
  <2>5. {0, 5, 6} = (({} \cup {0}) \cup {5}) \cup {6}
    OBVIOUS
  <2> QED
    BY <2>4, <2>5
<1>2. ASSUME NEW e \in Employees PROVE Cardinality(off[e] \cap {0, 5, 6}) \in 0 .. 3
  <2>1. off[e] \cap {0, 5, 6} \in SUBSET {0, 5, 6}
    OBVIOUS
  <2>2. /\ IsFiniteSet(off[e] \cap {0, 5, 6})
        /\ Cardinality(off[e] \cap {0, 5, 6}) <= 3
    BY <1>1, <2>1, FS_Subset
  <2>3. Cardinality(off[e] \cap {0, 5, 6}) \in Nat
    BY <2>2, FS_CardinalityType
  <2> QED
    BY <2>2, <2>3
<1>3. weeks \in Nat /\ weekendOff \in [Employees -> 0 .. 3 * weeks]
  BY BoundAssumption DEF TypeOK
<1>4. weekendOff' = [e \in Employees |-> weekendOff[e] + Cardinality(off[e] \cap {0, 5, 6})]
  BY DEF CountWeekend
<1> QED
  BY <1>2, <1>3, <1>4

\* What is planned for an employee who gets one more day off.
LEMMA PlanFacts ==
  ASSUME TypeOK, NEW i \in DOMAIN team.staff, AssignOffDay(i)
  PROVE  LET e == team.staff[i]
         IN  /\ off' \in [Employees -> SUBSET Days]
             /\ \A f \in Employees \ {e} : off'[f] = off[f]
             /\ Cardinality(off'[e]) = Cardinality(off[e]) + 1
             /\ Cardinality(off[e]) < perWeek
             /\ Cardinality(off'[e]) = perWeek =>
                    \E d \in off'[e] : consec[e] + d <= Max_Consecutive
             /\ phase' = "fill" => /\ Cardinality(off'[e]) = perWeek
                                   /\ \A j \in DOMAIN team.staff \ {i} :
                                         Cardinality(off[team.staff[j]]) >= perWeek
<1> DEFINE e == team.staff[i]
           taken == off[e] \cup {NextDay(off[e])}
           new == IF Cardinality(taken) >= perWeek THEN EarlyOff(taken, consec[e]) ELSE taken
<1>1. e \in Employees /\ perWeek \in 1 .. 7
  BY StaffFacts
<1>2. Cardinality(off[e]) < perWeek /\ off[e] \in SUBSET Days /\ consec[e] \in 0 .. Max_Consecutive
  BY <1>1 DEF AssignOffDay, Waiting, TypeOK
<1>3. taken \in SUBSET Days /\ taken # {} /\ Cardinality(taken) = Cardinality(off[e]) + 1
  <2>1. NextDay(off[e]) \in Days \ off[e] /\ Cardinality(taken) = Cardinality(off[e]) + 1
    BY <1>2, NextDayIsNew
  <2> QED
    BY <1>2, <2>1
<1>4. off' = [off EXCEPT ![e] = new]
  BY DEF AssignOffDay
<1>5. phase' = IF Cardinality(taken) >= perWeek /\ Waiting = {i} THEN "fill" ELSE "offs"
  BY DEF AssignOffDay
<1>6. Cardinality(off[e]) \in Nat
  BY <1>2, DaysFinite
<1> HIDE DEF taken
<1>7. /\ EarlyOff(taken, consec[e]) \in SUBSET Days
      /\ Cardinality(EarlyOff(taken, consec[e])) = Cardinality(taken)
      /\ \E d \in EarlyOff(taken, consec[e]) : consec[e] + d <= Max_Consecutive
  <2> HIDE DEF e
  <2> QED
    BY <1>2, <1>3, EarlyOffFacts
<1>8. /\ new \in SUBSET Days /\ Cardinality(new) = Cardinality(off[e]) + 1
      /\ Cardinality(new) = perWeek => \E d \in new : consec[e] + d <= Max_Consecutive
  <2> HIDE DEF e
  <2> QED
    BY <1>1, <1>2, <1>3, <1>6, <1>7
<1> HIDE DEF new
<1>9. /\ off' \in [Employees -> SUBSET Days] /\ off'[e] = new
      /\ \A f \in Employees \ {e} : off'[f] = off[f]
  <2>1. off \in [Employees -> SUBSET Days]
    BY DEF TypeOK
  <2> HIDE DEF e
  <2> QED
    BY <1>1, <1>4, <1>8, <2>1
<1>10. ASSUME phase' = "fill"
       PROVE  /\ Cardinality(new) = perWeek
              /\ \A j \in DOMAIN team.staff \ {i} : Cardinality(off[team.staff[j]]) >= perWeek
  <2>1. Cardinality(taken) >= perWeek /\ Waiting = {i}
    BY <1>5, <1>10
  <2>2. ASSUME NEW j \in DOMAIN team.staff \ {i} PROVE Cardinality(off[team.staff[j]]) >= perWeek
    <3>1. off[team.staff[j]] \in SUBSET Days
      BY StaffFacts DEF TypeOK
    <3>2. Cardinality(off[team.staff[j]]) \in Nat
      BY <3>1, DaysFinite
    <3>3. ~(Cardinality(off[team.staff[j]]) < perWeek)
      BY <2>1 DEF Waiting
    <3> QED
      BY <1>1, <3>2, <3>3
  <2>3. Cardinality(new) = perWeek
    <3> HIDE DEF e
    <3> QED
      BY <1>1, <1>2, <1>3, <1>6, <1>8, <2>1
  <2> QED
    BY <2>2, <2>3
<1> QED
  BY <1>2, <1>8, <1>9, <1>10

\* The days worked after the last day off.
LEMMA TrailingFacts ==
  ASSUME TypeOK, NEW e \in Employees
  PROVE  /\ Trailing(e) \in 0 .. 7
         /\ off[e] # {} => \E m \in off[e] : (\A d \in off[e] : d <= m) /\ Trailing(e) = 6 - m
<1>1. CASE off[e] = {}
  BY <1>1 DEF Trailing
<1>2. CASE off[e] # {}
  <2> DEFINE last == Max(off[e])
  <2>1. off[e] \in SUBSET Days
    BY DEF TypeOK
  <2>2. last \in off[e] /\ \A d \in off[e] : d <= last
    BY <1>2, <2>1, DayMinMax
  <2>3. last \in 0 .. 6
    BY <2>1, <2>2 DEF Days
  <2>4. Trailing(e) = 6 - last
    BY <1>2 DEF Trailing
  <2> HIDE DEF last
  <2> QED
    BY <1>2, <2>2, <2>3, <2>4
<1> QED
  BY <1>1, <1>2

LEMMA SevenAtMost ==
  ASSUME NEW n \in Nat
  PROVE  Min({7, n}) \in 0 .. 7 /\ (n <= 7 => Min({7, n}) = n)
<1> DEFINE S == {7, n}
<1>1. IsFiniteSet(S)
  <2>1. IsFiniteSet({}) /\ IsFiniteSet({} \cup {7}) /\ IsFiniteSet(({} \cup {7}) \cup {n})
    BY FS_EmptySet, FS_AddElement
  <2>2. ({} \cup {7}) \cup {n} = S
    OBVIOUS
  <2> QED
    BY <2>1, <2>2
<1>2. S \in SUBSET Int /\ S # {}
  OBVIOUS
<1>3. Min(S) \in S /\ \A x \in S : Min(S) <= x
  <2> HIDE DEF S
  <2> QED
    BY <1>1, <1>2, MinMaxFacts
<1> QED
  BY <1>3

\* The employee and the day at hand.
LEMMA HereFacts ==
  ASSUME TypeOK, Filling
  PROVE  /\ at[1] \in DOMAIN team.staff /\ Here \in Employees /\ Today \in Days
         /\ Advance => /\ at'[1] = IF Today = 6 THEN at[1] + 1 ELSE at[1]
                       /\ at'[2] = IF Today = 6 THEN 0 ELSE Today + 1
                       /\ at'[1] \in 1 .. Len(team.staff) + 1 /\ at'[2] \in Days
                       /\ at' # at
<1>1. Len(team.staff) \in Nat /\ DOMAIN team.staff = 1 .. Len(team.staff)
  BY StaffFacts
<1>2. at[1] \in 1 .. Len(team.staff) /\ at[2] \in 0 .. 6
  BY <1>1 DEF TypeOK, Filling, Days
<1>3. Here \in Employees
  BY <1>1, <1>2, StaffFacts DEF Here
<1> QED
  BY <1>1, <1>2, <1>3 DEF Today, Advance, Days

LEMMA TypeNext == TypeOK /\ CallInBounds /\ [Next]_vars => TypeOK'
<1> SUFFICES ASSUME TypeOK, CallInBounds, [Next]_vars PROVE TypeOK'
  OBVIOUS
<1>0. /\ weeks \in Nat /\ MaxWeeks \in Nat /\ MaxPerCall \in Nat \ {0}
      /\ left \in 0 .. MaxPerCall - 1 /\ Len(team.staff) \in Nat \ {0}
  BY BoundAssumption, StaffFacts DEF TypeOK
<1>1. ASSUME NEW n \in 1 .. MaxPerCall, Generate(n) PROVE TypeOK'
  <2>1. \A e \in Employees : live[e] \in Working \cup {OFF} /\ streak[e] \in Nat
    BY DEF TypeOK
  <2>2. prev' \in [Employees -> Working \cup {OFF}]
    BY <1>1, <2>1, DerivedIsShift DEF Generate
  <2>3. consec' \in [Employees -> 0 .. Max_Consecutive]
    BY <1>1, <2>1, SevenAtMost DEF Generate, Max_Consecutive
  <2>4. left' \in 0 .. MaxPerCall - 1
    BY <1>0, <1>1 DEF Generate
  <2> QED
    BY <1>1, <2>2, <2>3, <2>4 DEF Generate, TypeOK, Employees
<1>2. ASSUME NEW i \in DOMAIN team.staff, AssignOffDay(i) PROVE TypeOK'
  <2>1. off' \in [Employees -> SUBSET Days]
    BY <1>2, PlanFacts
  <2>2. at'[1] \in 1 .. Len(team.staff) + 1 /\ at'[2] \in Days
    BY <1>0, <1>2 DEF AssignOffDay, Days
  <2>3. phase' \in {"offs", "fill"}
    BY <1>2 DEF AssignOffDay
  <2> QED
    BY <1>2, <2>1, <2>2, <2>3 DEF AssignOffDay, TypeOK, Employees
<1>3. CASE DayOff
  <2>1. /\ Here \in Employees /\ Today \in Days
        /\ at'[1] \in 1 .. Len(team.staff) + 1 /\ at'[2] \in Days
    BY <1>3, HereFacts DEF DayOff
  <2>2. off' \in [Employees -> SUBSET Days]
    BY <1>3, <2>1 DEF DayOff, TypeOK
  <2>3. consec' \in [Employees -> 0 .. Max_Consecutive] /\ streak' \in [Employees -> Nat]
    BY <1>3, <2>1 DEF DayOff, TypeOK, Max_Consecutive
  <2>4. live' \in [Employees -> Working \cup {OFF}] /\ prev' \in [Employees -> Working \cup {OFF}]
    BY <1>3, <2>1 DEF DayOff, TypeOK
  <2> QED
    BY <1>3, <2>1, <2>2, <2>3, <2>4 DEF DayOff, TypeOK, Employees
<1>4. ASSUME NEW c \in Working, WorkDay(c) PROVE TypeOK'
  <2>1. /\ Here \in Employees /\ Today \in Days
        /\ at'[1] \in 1 .. Len(team.staff) + 1 /\ at'[2] \in Days
    BY <1>4, HereFacts DEF WorkDay
  <2>2. consec' \in [Employees -> 0 .. Max_Consecutive]
    <3>1. /\ consec \in [Employees -> 0 .. 9] /\ consec[Here] < 9
          /\ consec' = [consec EXCEPT ![Here] = @ + 1]
      BY <1>4 DEF WorkDay, TypeOK, Max_Consecutive
    <3> QED
      BY <2>1, <3>1 DEF Max_Consecutive
  <2>3. streak' \in [Employees -> Nat]
    BY <1>4, <2>1 DEF WorkDay, TypeOK
  <2>4. live' \in [Employees -> Working \cup {OFF}] /\ prev' \in [Employees -> Working \cup {OFF}]
    BY <1>4, <2>1 DEF WorkDay, TypeOK
  <2>5. /\ UNCHANGED <<team, perWeek, wk, weeks, phase, left, weekendOff, off>>
        /\ Employees' = Employees
    BY <1>4 DEF WorkDay, Employees
  <2> QED
    BY <2>1, <2>2, <2>3, <2>4, <2>5 DEF TypeOK
<1>5. CASE NextWeek
  <2>1. consec' \in [Employees -> 0 .. Max_Consecutive]
    BY <1>5, TrailingFacts DEF NextWeek, Max_Consecutive
  <2>2. weekendOff' \in [Employees -> 0 .. 3 * weeks']
    BY <1>5, WeekendCounted DEF NextWeek
  <2>3. weeks' \in 0 .. MaxWeeks /\ left' \in 0 .. MaxPerCall - 1
    BY <1>0, <1>5 DEF NextWeek, CallInBounds, Planned
  <2>4. \E first \in FirstWeeks : wk' = first + weeks'
    BY <1>0, <1>5, InputAssumption DEF NextWeek, TypeOK
  <2>5. off' \in [Employees -> SUBSET Days]
    BY <1>5 DEF NextWeek
  <2> QED
    BY <1>5, <2>1, <2>2, <2>3, <2>4, <2>5 DEF NextWeek, TypeOK, Employees
<1>6. CASE Publish
  <2>1. weekendOff' \in [Employees -> 0 .. 3 * weeks']
    BY <1>6, WeekendCounted DEF Publish
  <2>2. weeks' \in 0 .. MaxWeeks
    BY <1>0, <1>6 DEF Publish, CallInBounds, Planned
  <2>3. \E first \in FirstWeeks : wk' = first + weeks'
    BY <1>0, <1>6, InputAssumption DEF Publish, TypeOK
  <2> QED
    BY <1>6, <2>1, <2>2, <2>3 DEF Publish, TypeOK, Employees
<1>7. CASE UNCHANGED vars
  BY <1>7 DEF vars, TypeOK, Employees
<1> QED
  BY <1>1, <1>2, <1>3, <1>4, <1>5, <1>6, <1>7 DEF Next

-----------------------------------------------------------------------------
(* The plan of the days off.                                               *)

LEMMA InvInit == Init => IInv
<1> SUFFICES ASSUME Init PROVE IInv
  OBVIOUS
<1>1. phase = "idle" /\ left = 0
  BY DEF Init
<1>2. ShiftsAllowed
  BY DEF Init, ShiftsAllowed
<1> QED
  BY <1>1, <1>2, TypeInit DEF IInv, CallInBounds, DaysGiven, OnTime

LEMMA BoundsNext == TypeOK /\ CallInBounds /\ [Next]_vars => CallInBounds'
<1> SUFFICES ASSUME TypeOK, CallInBounds, [Next]_vars PROVE CallInBounds'
  OBVIOUS
<1> USE DEF CallInBounds
<1>0. weeks \in Nat /\ left \in Nat /\ MaxWeeks \in Nat
  BY BoundAssumption DEF TypeOK
<1>1. ASSUME NEW n \in 1 .. MaxPerCall, Generate(n) PROVE CallInBounds'
  BY <1>0, <1>1, BoundAssumption DEF Generate
<1>2. ASSUME NEW i \in DOMAIN team.staff, AssignOffDay(i) PROVE CallInBounds'
  BY <1>2 DEF AssignOffDay
<1>3. CASE DayOff
  BY <1>3 DEF DayOff
<1>4. ASSUME NEW c \in Working, WorkDay(c) PROVE CallInBounds'
  BY <1>4 DEF WorkDay
<1>5. CASE NextWeek
  BY <1>0, <1>5 DEF NextWeek, Planned
<1>6. CASE Publish
  BY <1>6 DEF Publish
<1>7. CASE UNCHANGED vars
  BY <1>7 DEF vars
<1> QED
  BY <1>1, <1>2, <1>3, <1>4, <1>5, <1>6, <1>7 DEF Next

LEMMA ShiftsNext == TypeOK /\ ShiftsAllowed /\ [Next]_vars => ShiftsAllowed'
<1> SUFFICES ASSUME TypeOK, ShiftsAllowed, [Next]_vars PROVE ShiftsAllowed'
  OBVIOUS
<1>1. team' = team
  BY DEF Next, vars, Generate, AssignOffDay, DayOff, WorkDay, NextWeek, Publish
<1>2. \A e : WorkingShifts(e)' = WorkingShifts(e)
  BY <1>1 DEF WorkingShifts
<1>3. ASSUME live' = live PROVE ShiftsAllowed'
  BY <1>1, <1>2, <1>3 DEF ShiftsAllowed, Employees
<1>4. CASE DayOff
  <2>1. live \in [Employees -> Working \cup {OFF}] /\ live' = [live EXCEPT ![Here] = OFF]
    BY <1>4 DEF DayOff, TypeOK
  <2> QED
    BY <1>1, <1>2, <2>1 DEF ShiftsAllowed, Employees
<1>5. ASSUME NEW c \in Working, WorkDay(c) PROVE ShiftsAllowed'
  <2>1. live \in [Employees -> Working \cup {OFF}] /\ live' = [live EXCEPT ![Here] = c]
    BY <1>5 DEF WorkDay, TypeOK
  <2>2. c \in WorkingShifts(Here)
    BY <1>5 DEF WorkDay, Ranked
  <2> QED
    BY <1>1, <1>2, <2>1, <2>2 DEF ShiftsAllowed, Employees
<1> QED
  BY <1>3, <1>4, <1>5 DEF Next, vars, Generate, AssignOffDay, NextWeek, Publish

\* A day off that the ceiling would force is one that was planned.
LEMMA NeverForced ==
  ASSUME TypeOK, DaysGiven, OnTime, Filling, consec[Here] >= Max_Consecutive
  PROVE  Today \in off[Here]
<1>1. at[1] \in DOMAIN team.staff /\ Here \in Employees /\ Today \in Days
  BY HereFacts
<1>2. Filled(at[1]) = Today
  BY <1>1, StaffFacts DEF Filled, Filling, Today
<1>3. InTime(off[Here], Today, consec[Here])
  BY <1>1, <1>2 DEF OnTime, DaysGiven, Filling, Here
<1>4. off[Here] \in SUBSET (0 .. 6) /\ consec[Here] \in 0 .. 9 /\ Today \in 0 .. 6
  BY <1>1 DEF TypeOK, Days, Max_Consecutive
<1>5. CASE Ahead(off[Here], Today, consec[Here])
  <2>1. PICK d \in off[Here] : Today <= d /\ consec[Here] + (d - Today) <= Max_Consecutive
    BY <1>5 DEF Ahead
  <2>2. d = Today
    BY <1>4, <2>1 DEF Max_Consecutive
  <2> QED
    BY <2>1, <2>2
<1>6. CASE Past(off[Here], Today, consec[Here])
  <2>1. PICK m \in off[Here] : m < Today /\ consec[Here] = Today - 1 - m
    BY <1>6 DEF Past
  <2> QED
    BY <1>4, <2>1 DEF Max_Consecutive
<1> QED
  BY <1>3, <1>5, <1>6 DEF InTime

\* So the days off stay as they were planned.
LEMMA DayOffIsPlanned ==
  ASSUME TypeOK, DaysGiven, OnTime, DayOff PROVE Today \in off[Here] /\ off' = off
<1>1. Today \in off[Here]
  BY NeverForced DEF DayOff
<1>2. Here \in Employees /\ off \in [Employees -> SUBSET Days]
  BY HereFacts DEF DayOff, TypeOK
<1> QED
  BY <1>1, <1>2 DEF DayOff

LEMMA GivenNext == TypeOK /\ DaysGiven /\ OnTime /\ [Next]_vars => DaysGiven'
<1> SUFFICES ASSUME TypeOK, DaysGiven, OnTime, [Next]_vars PROVE DaysGiven'
  OBVIOUS
<1>0. team' = team /\ perWeek' = perWeek /\ Employees' = Employees
  BY DEF Next, vars, Generate, AssignOffDay, DayOff, WorkDay, NextWeek, Publish, Employees
<1>1. ASSUME off' = off, phase' = phase PROVE DaysGiven'
  BY <1>0, <1>1 DEF DaysGiven
<1>2. ASSUME off' = [e \in Employees |-> {}], phase' = "offs" PROVE DaysGiven'
  <2>1. Cardinality({}) = 0 /\ perWeek \in 1 .. 7
    BY FS_EmptySet, StaffFacts
  <2> QED
    BY <1>0, <1>2, <2>1 DEF DaysGiven
<1>3. ASSUME NEW i \in DOMAIN team.staff, AssignOffDay(i) PROVE DaysGiven'
  <2> DEFINE e == team.staff[i]
  <2>1. /\ e \in Employees /\ \A f \in Employees \ {e} : off'[f] = off[f]
        /\ Cardinality(off'[e]) = Cardinality(off[e]) + 1 /\ Cardinality(off[e]) < perWeek
        /\ phase' = "fill" => Cardinality(off'[e]) = perWeek
    BY <1>3, PlanFacts, StaffFacts
  <2>2. \A f \in Employees : Cardinality(off[f]) <= perWeek /\ Cardinality(off[f]) \in Nat
    <3>1. \A f \in Employees : off[f] \in SUBSET Days
      BY DEF TypeOK
    <3>2. \A f \in Employees : Cardinality(off[f]) \in Nat
      BY <3>1, DaysFinite
    <3> QED
      BY <1>3, <3>2 DEF AssignOffDay, DaysGiven
  <2>3. perWeek \in Nat
    BY StaffFacts
  <2>4. \A f \in Employees : Cardinality(off'[f]) <= perWeek
    <3> HIDE DEF e
    <3> QED
      BY <2>1, <2>2, <2>3
  <2>5. ASSUME phase' = "fill", NEW f \in Employees PROVE Cardinality(off'[f]) = perWeek
    <3>1. CASE f = e
      BY <2>1, <2>5, <3>1
    <3>2. CASE f # e
      <4>1. PICK j \in DOMAIN team.staff : team.staff[j] = f
        BY DEF Employees
      <4>2. Cardinality(off[f]) >= perWeek
        BY <1>3, <2>5, <3>2, <4>1, PlanFacts
      <4>3. off'[f] = off[f]
        BY <2>1, <3>2
      <4> QED
        BY <2>2, <2>3, <4>2, <4>3
    <3> QED
      BY <3>1, <3>2
  <2> QED
    BY <1>0, <2>4, <2>5 DEF DaysGiven
<1>4. CASE DayOff
  BY <1>1, <1>4, DayOffIsPlanned DEF DayOff
<1>5. CASE Publish
  BY <1>5 DEF Publish, DaysGiven
<1>6. CASE \E n \in 1 .. MaxPerCall : Generate(n)
  BY <1>2, <1>6 DEF Generate
<1>7. CASE NextWeek
  BY <1>2, <1>7 DEF NextWeek
<1>8. CASE \E c \in Working : WorkDay(c)
  BY <1>1, <1>8 DEF WorkDay
<1>9. CASE UNCHANGED vars
  BY <1>1, <1>9 DEF vars
<1> QED
  BY <1>3, <1>4, <1>5, <1>6, <1>7, <1>8, <1>9 DEF Next

\* A day passes for the employee at hand, off or at work as planned: the plan
\* is still in time.
LEMMA OnTimeAfterDay ==
  ASSUME NEW S \in SUBSET Days, NEW t \in Days, NEW c \in 0 .. Max_Consecutive, InTime(S, t, c)
  PROVE  InTime(S, t + 1, IF t \in S THEN 0 ELSE c + 1)
<1> DEFINE n == IF t \in S THEN 0 ELSE c + 1
<1> SUFFICES \/ \E d \in S : t + 1 <= d /\ n + (d - (t + 1)) <= Max_Consecutive
             \/ \E m \in S : m < t + 1 /\ (\A d \in S : d <= m) /\ n = (t + 1) - 1 - m
  BY DEF InTime, Ahead, Past
<1>1. S \in SUBSET (0 .. 6) /\ t \in 0 .. 6 /\ c \in 0 .. 9
  BY DEF Days, Max_Consecutive
<1>2. CASE t \in S
  <2>1. CASE \A d \in S : d <= t
    BY <1>1, <1>2, <2>1
  <2>2. CASE ~ \A d \in S : d <= t
    <3>1. PICK d \in S : ~(d <= t)
      BY <2>2
    <3>2. t + 1 <= d /\ n + (d - (t + 1)) <= 9
      BY <1>1, <1>2, <3>1
    <3> QED
      BY <3>2 DEF Max_Consecutive
  <2> QED
    BY <2>1, <2>2
<1>3. CASE t \notin S
  <2>1. CASE Ahead(S, t, c)
    <3>1. PICK d \in S : t <= d /\ c + (d - t) <= Max_Consecutive
      BY <2>1 DEF Ahead
    <3>2. t + 1 <= d /\ n + (d - (t + 1)) <= Max_Consecutive
      BY <1>1, <1>3, <3>1 DEF Max_Consecutive
    <3> QED
      BY <3>2
  <2>2. CASE Past(S, t, c)
    <3>1. PICK m \in S : m < t /\ (\A d \in S : d <= m) /\ c = t - 1 - m
      BY <2>2 DEF Past
    <3>2. m < t + 1 /\ n = (t + 1) - 1 - m
      BY <1>1, <1>3, <3>1
    <3> QED
      BY <3>1, <3>2
  <2> QED
    BY <2>1, <2>2 DEF InTime
<1> QED
  BY <1>2, <1>3

\* What is known when a day of the employee at hand has been filled.
LEMMA DayPassed ==
  ASSUME TypeOK, DaysGiven, OnTime, Filling, phase' = phase, team' = team,
         perWeek' = perWeek, off' = off, Advance,
         NEW n, consec' = [consec EXCEPT ![Here] = n],
         n = IF Today \in off[Here] THEN 0 ELSE consec[Here] + 1
  PROVE  OnTime'
<1>1. /\ at[1] \in DOMAIN team.staff /\ Here \in Employees /\ Today \in Days
      /\ at'[1] = IF Today = 6 THEN at[1] + 1 ELSE at[1]
      /\ at'[2] = IF Today = 6 THEN 0 ELSE Today + 1
  BY HereFacts
<1>2. /\ \A i \in DOMAIN team.staff : team.staff[i] \in Employees
      /\ \A i, j \in DOMAIN team.staff : team.staff[i] = team.staff[j] => i = j
      /\ DOMAIN team.staff = 1 .. Len(team.staff) /\ Len(team.staff) \in Nat
  BY StaffFacts
<1>3. /\ off[Here] \in SUBSET Days /\ consec[Here] \in 0 .. Max_Consecutive
      /\ consec \in [Employees -> 0 .. Max_Consecutive]
  BY <1>1 DEF TypeOK
<1>4. phase = "fill" /\ phase' = "fill"
  BY DEF Filling
<1>5. \A i \in DOMAIN team.staff : Cardinality(off[team.staff[i]]) = perWeek
  BY <1>2, <1>4 DEF DaysGiven
<1>6. \A i \in DOMAIN team.staff :
        InTime(off[team.staff[i]], Filled(i), consec[team.staff[i]])
  BY <1>4, <1>5 DEF OnTime
<1> SUFFICES ASSUME NEW i \in DOMAIN team.staff
             PROVE  InTime(off'[team.staff[i]], Filled(i)', consec'[team.staff[i]])
  BY DEF OnTime
<1> DEFINE e == team.staff[i]
<1>7. CASE i = at[1]
  <2>1. e = Here
    BY <1>7 DEF Here
  <2>2. Filled(i) = Today
    BY <1>1, <1>2, <1>4, <1>7 DEF Filled, Today
  <2>3. Filled(i)' = Today + 1
    BY <1>1, <1>2, <1>4, <1>7 DEF Filled, Days
  <2>4. consec'[e] = n /\ off'[e] = off[e]
    BY <1>1, <1>3, <2>1
  <2>5. InTime(off[Here], Today, consec[Here])
    BY <1>6, <2>1, <2>2
  <2>6. InTime(off[Here], Today + 1, n)
    BY <1>1, <1>3, <2>5, OnTimeAfterDay
  <2> QED
    BY <2>1, <2>3, <2>4, <2>6
<1>8. CASE i # at[1]
  <2>1. Filled(i)' = Filled(i)
    BY <1>1, <1>2, <1>4, <1>8 DEF Filled
  <2>2. e # Here
    BY <1>1, <1>2, <1>8 DEF Here
  <2>3. consec'[e] = consec[e] /\ off'[e] = off[e]
    BY <1>1, <1>2, <1>3, <2>2
  <2> QED
    BY <1>6, <2>1, <2>3
<1> QED
  BY <1>7, <1>8

LEMMA OnTimeNext == TypeOK /\ DaysGiven /\ OnTime /\ [Next]_vars => OnTime'
<1> SUFFICES ASSUME TypeOK, DaysGiven, OnTime, [Next]_vars PROVE OnTime'
  OBVIOUS
<1>0. team' = team /\ perWeek' = perWeek
  BY DEF Next, vars, Generate, AssignOffDay, DayOff, WorkDay, NextWeek, Publish
<1>1. ASSUME off' = [e \in Employees |-> {}] PROVE OnTime'
  <2>1. Cardinality({}) = 0 /\ perWeek \in 1 .. 7
    BY FS_EmptySet, StaffFacts
  <2>2. \A i \in DOMAIN team.staff : off'[team.staff[i]] = {}
    BY <1>1, StaffFacts
  <2>3. \A i \in DOMAIN team.staff : Cardinality(off'[team.staff[i]]) # perWeek
    BY <2>1, <2>2
  <2> QED
    BY <1>0, <2>3 DEF OnTime
<1>2. ASSUME NEW i \in DOMAIN team.staff, AssignOffDay(i) PROVE OnTime'
  <2> SUFFICES ASSUME NEW j \in DOMAIN team.staff, Cardinality(off'[team.staff[j]]) = perWeek
               PROVE  InTime(off'[team.staff[j]], Filled(j)', consec'[team.staff[j]])
    BY <1>0 DEF OnTime
  <2> DEFINE e == team.staff[i]
             f == team.staff[j]
  <2>1. /\ e \in Employees /\ f \in Employees /\ (f = e => j = i)
        /\ j \in Nat \ {0}
    BY StaffFacts
  <2>2. phase = "offs" /\ at' = <<1, 0>> /\ phase' \in {"offs", "fill"} /\ consec' = consec
    BY <1>2 DEF AssignOffDay
  <2>3. Filled(j)' = 0
    BY <2>1, <2>2 DEF Filled
  <2>4. \E d \in off'[f] : consec[f] + d <= Max_Consecutive
    <3>1. CASE f = e
      BY <1>2, <3>1, PlanFacts
    <3>2. CASE f # e
      <4>1. off'[f] = off[f]
        BY <1>2, <2>1, <3>2, PlanFacts
      <4>2. Filled(j) = 0
        BY <2>2 DEF Filled
      <4>3. InTime(off[f], 0, consec[f])
        BY <2>2, <4>1, <4>2 DEF OnTime
      <4>4. off[f] \in SUBSET Days /\ consec[f] \in 0 .. Max_Consecutive
        BY <2>1 DEF TypeOK
      <4>5. ~Past(off[f], 0, consec[f])
        BY <4>4 DEF Past, Days
      <4>6. PICK d \in off[f] : 0 <= d /\ consec[f] + (d - 0) <= Max_Consecutive
        BY <4>3, <4>5 DEF InTime, Ahead
      <4>7. d - 0 = d
        BY <4>4 DEF Days
      <4> QED
        BY <4>1, <4>6, <4>7
    <3> QED
      BY <3>1, <3>2
  <2>5. PICK d \in off'[f] : consec[f] + d <= Max_Consecutive
    BY <2>4
  <2>6. d \in 0 .. 6
    <3>1. off'[f] \in SUBSET Days
      BY <1>2, <2>1, PlanFacts
    <3> QED
      BY <3>1 DEF Days
  <2>7. 0 <= d /\ d - 0 = d
    BY <2>6
  <2>8. Ahead(off'[f], 0, consec[f])
    BY <2>5, <2>7 DEF Ahead
  <2> QED
    BY <2>2, <2>3, <2>8 DEF InTime
<1>3. CASE DayOff
  <2>1. Today \in off[Here] /\ off' = off
    BY <1>3, DayOffIsPlanned
  <2> QED
    BY <1>0, <1>3, <2>1, DayPassed DEF DayOff
<1>4. ASSUME NEW c \in Working, WorkDay(c) PROVE OnTime'
  <2>1. consec' = [consec EXCEPT ![Here] = consec[Here] + 1]
    BY <1>4 DEF WorkDay
  <2> QED
    BY <1>0, <1>4, <2>1, DayPassed DEF WorkDay
<1>5. CASE Publish
  BY <1>5 DEF Publish, OnTime
<1>6. CASE UNCHANGED vars
  <2>1. \A i \in DOMAIN team.staff : Filled(i)' = Filled(i)
    BY <1>6 DEF vars, Filled
  <2> QED
    BY <1>6, <2>1 DEF vars, OnTime
<1> QED
  BY <1>1, <1>2, <1>3, <1>4, <1>5, <1>6 DEF Next, Generate, NextWeek

LEMMA InvNext == IInv /\ [Next]_vars => IInv'
  BY TypeNext, BoundsNext, ShiftsNext, GivenNext, OnTimeNext DEF IInv

LEMMA Invariance == Spec => []IInv
<1>1. Init => IInv
  BY InvInit
<1>2. IInv /\ [Next]_vars => IInv'
  BY InvNext
<1> QED
  BY <1>1, <1>2, PTL DEF Spec

-----------------------------------------------------------------------------
(* The theorems.                                                           *)

\* Every variable of the engine keeps its type; the days of a call never run
\* beyond the weeks there are.
THEOREM TypeCorrect == Spec => []TypeOK
<1>1. IInv => TypeOK
  BY DEF IInv
<1> QED
  BY <1>1, Invariance, PTL

\* assignOffDays and the day loop of generateWeeklySchedule give everybody
\* exactly offDaysPerWeek days off, whatever the size of the team, the runs
\* people come with, the rotation and the weeks planned before.
THEOREM OffDaysCorrect == Spec => []OffDaysExact
<1>1. IInv => OffDaysExact
  BY DEF IInv, DaysGiven, OffDaysExact, Planned
<1> QED
  BY <1>1, Invariance, PTL

-----------------------------------------------------------------------------
(* Days in a row.                                                          *)

\* A filled week hands its last run over as it is.
LEMMA TrailingIsRun ==
  ASSUME IInv, Planned, NEW e \in Employees
  PROVE  Trailing(e) = consec[e] /\ consec[e] <= 6
<1>1. PICK i \in DOMAIN team.staff : team.staff[i] = e
  BY DEF Employees
<1>2. off[e] \in SUBSET Days /\ Cardinality(off[e]) = perWeek /\ TypeOK
  BY DEF IInv, TypeOK, DaysGiven, Planned
<1>3. Filled(i) = 7
  BY <1>1, <1>2, StaffFacts DEF Filled, Planned, TypeOK
<1>4. InTime(off[e], 7, consec[e])
  BY <1>1, <1>2, <1>3 DEF IInv, OnTime, Planned
<1>5. off[e] \in SUBSET (0 .. 6)
  BY <1>2 DEF Days
<1>6. ~Ahead(off[e], 7, consec[e])
  BY <1>5 DEF Ahead
<1>7. PICK m \in off[e] : (\A d \in off[e] : d <= m) /\ consec[e] = 7 - 1 - m
  BY <1>4, <1>6 DEF InTime, Past
<1>8. PICK k \in off[e] : (\A d \in off[e] : d <= k) /\ Trailing(e) = 6 - k
  BY <1>2, <1>7, TrailingFacts
<1>9. k = m /\ m \in 0 .. 6
  BY <1>5, <1>7, <1>8
<1> QED
  BY <1>7, <1>8, <1>9

LEMMA RunNext ==
  ASSUME IInv, RunIsKnown, [Next]_vars PROVE RunIsKnown'
<1>0. TypeOK /\ Employees' = Employees
  BY DEF IInv, Next, vars, Generate, AssignOffDay, DayOff, WorkDay, NextWeek, Publish, Employees
<1>1. ASSUME NEW n \in 1 .. MaxPerCall, Generate(n) PROVE RunIsKnown'
  <2>1. \A e \in Employees : streak[e] \in Nat /\ streak[e] <= 7
    BY <1>0, <1>1 DEF TypeOK, RunIsKnown, Generate
  <2>2. \A e \in Employees : consec'[e] = streak[e]
    BY <1>1, <2>1, SevenAtMost DEF Generate
  <2> QED
    BY <1>0, <1>1, <2>2 DEF Generate, RunIsKnown
<1>2. CASE \E i \in DOMAIN team.staff : AssignOffDay(i)
  BY <1>0, <1>2 DEF AssignOffDay, RunIsKnown
<1>3. ASSUME Filling, NEW n, phase' = phase, consec' = [consec EXCEPT ![Here] = n],
             streak' = [streak EXCEPT ![Here] = n]
      PROVE  RunIsKnown'
  BY <1>0, <1>3 DEF TypeOK, Filling, RunIsKnown
<1>4. CASE DayOff
  BY <1>3, <1>4 DEF DayOff
<1>5. ASSUME NEW c \in Working, WorkDay(c) PROVE RunIsKnown'
  <2>1. Filling /\ Here \in Employees
    BY <1>0, <1>5, HereFacts DEF WorkDay
  <2>2. streak[Here] = consec[Here]
    BY <2>1 DEF RunIsKnown, Filling
  <2>3. /\ consec' = [consec EXCEPT ![Here] = consec[Here] + 1]
        /\ streak' = [streak EXCEPT ![Here] = consec[Here] + 1]
    BY <1>5, <2>2 DEF WorkDay
  <2> QED
    BY <1>3, <1>5, <2>1, <2>3 DEF WorkDay
<1>6. CASE NextWeek
  <2>1. \A e \in Employees : consec'[e] = consec[e]
    BY <1>6, TrailingIsRun DEF NextWeek
  <2> QED
    BY <1>0, <1>6, <2>1 DEF NextWeek, Planned, RunIsKnown
<1>7. CASE Publish
  <2>1. \A e \in Employees : streak[e] = consec[e] /\ consec[e] <= 6 /\ consec[e] \in Int
    BY <1>0, <1>7, TrailingIsRun DEF Publish, Planned, RunIsKnown, TypeOK
  <2> QED
    BY <1>0, <1>7, <2>1 DEF Publish, RunIsKnown
<1>8. CASE UNCHANGED vars
  BY <1>0, <1>8 DEF vars, RunIsKnown
<1> QED
  BY <1>1, <1>2, <1>4, <1>5, <1>6, <1>7, <1>8 DEF Next

\* loadConsecutiveDays reads seven days: as long as nobody comes with a longer
\* run at the very start, nobody ever works more than nine days in a row, over
\* all weeks and calls that follow.  Each week ends with a run of six or less,
\* so the generator itself never breaks the condition.
THEOREM RunsCorrect ==
  ASSUME Streaks \subseteq 0 .. 7
  PROVE  Spec => []RunsBounded
<1>1. Init => RunIsKnown
  <2>1. Init => phase = "idle" /\ \A e \in Employees : streak[e] \in Streaks
    BY DEF Init
  <2>2. \A n \in Streaks : n <= 7
    OBVIOUS
  <2> QED
    BY <2>1, <2>2 DEF RunIsKnown
<1>2. IInv /\ RunIsKnown /\ [Next]_vars => RunIsKnown'
  BY RunNext
<1>3. IInv /\ RunIsKnown => RunsBounded
  <2> SUFFICES ASSUME IInv, RunIsKnown, NEW e \in Employees PROVE streak[e] <= Max_Consecutive
    BY DEF RunsBounded
  <2>1. streak[e] \in Nat /\ consec[e] \in 0 .. 9
    BY DEF IInv, TypeOK, Max_Consecutive
  <2>2. streak[e] <= 7 \/ streak[e] = consec[e]
    BY DEF RunIsKnown
  <2> QED
    BY <2>1, <2>2 DEF Max_Consecutive
<1> QED
  BY <1>1, <1>2, <1>3, Invariance, PTL DEF Spec

\* pickBestShift: up to a rest of fifteen hours, which the same shift on the
\* next day leaves, everybody gets a shift with enough rest whenever the engine
\* knows the shift of the day before, whatever the function and the gender.
THEOREM RestCorrect ==
  ASSUME MinRestHours <= 15
  PROVE  Spec => RestKept
<1> DEFINE A == \A c \in Working : Works(c) /\ prev[Here] = live[Here] => Rested(c)
<1>1. IInv /\ [Next]_vars => [A]_vars
  <2> SUFFICES ASSUME IInv, [Next]_vars, NEW c \in Working, Works(c), prev[Here] = live[Here],
                      live[Here] # OFF
               PROVE  Starts[c] + 24 - Ends[live[Here]] >= MinRestHours
    BY DEF Rested
  <2> DEFINE d == live[Here]
  <2>1. TypeOK /\ Filling /\ Here \in Employees
    BY HereFacts DEF IInv, Works
  <2>2. live \in [Employees -> Working \cup {OFF}] /\ d \in WorkingShifts(Here) /\ d \in Working
    BY <2>1 DEF IInv, TypeOK, ShiftsAllowed
  <2>3. \E k \in Working : WorkDay(k)
    <3>1. ~ UNCHANGED vars /\ phase = "fill" /\ ~Planned
      BY <2>1 DEF vars, Works, Filling, Planned, TypeOK
    <3>2. ~DayOff
      <4>1. SUFFICES ASSUME DayOff PROVE FALSE
        OBVIOUS
      <4>2. live'[Here] = OFF
        BY <2>1, <2>2, <4>1 DEF DayOff
      <4> QED
        BY <4>2, SameShiftRests DEF Works
    <3> QED
      BY <3>1, <3>2 DEF Next, Generate, AssignOffDay, NextWeek, Publish
  <2>4. WorkDay(c)
    <3>1. PICK k \in Working : WorkDay(k)
      BY <2>3
    <3>2. live'[Here] = k
      BY <2>1, <2>2, <3>1 DEF WorkDay
    <3> QED
      BY <3>1, <3>2 DEF Works
  <2>5. Starts[d] + 24 - Ends[d] >= MinRestHours
    BY <2>2, SameShiftRests, BoundAssumption
  <2>6. d \in {k \in WorkingShifts(Here) : Rest(prev[Here], k) >= MinRestHours}
    BY <2>2, <2>5 DEF Rest
  <2>7. Rest(prev[Here], c) >= MinRestHours
    BY <2>4, <2>6 DEF WorkDay, Ranked
  <2> QED
    BY <2>7 DEF Rest
<1> QED
  BY <1>1, Invariance, PTL DEF Spec, RestKept

-----------------------------------------------------------------------------
(* The arithmetic of the balance.                                          *)

LEMMA BalanceStarts ==
  ASSUME NEW q1, NEW q2, NEW q3, NEW q4, NEW r0, NEW r5, NEW r6,
         NEW b \in Nat, NEW c \in Nat,
         {q1, q2, q3, q4} \subseteq {b, b + 1}, {r0, r5, r6} \subseteq {c, c + 1},
         q1 + q2 + q3 + q4 = r0 + r5 + r6
  PROVE  Balanced(q1, q2, q3, q4, r0, r5, r6)
  BY DEF Balanced

\* Day 0 is chosen, and the days that are not next to it are used up: nothing is
\* left on the other days of the weekend.
LEMMA LastOnDay1 ==
  ASSUME NEW q1, NEW q2, NEW q3, NEW q4, NEW r0, NEW r5, NEW r6,
         Balanced(q1, q2, q3, q4, r0, r5, r6),
         r0 >= r5, r0 >= r6, r0 > 0, q2 = 0, q3 = 0, q4 = 0
  PROVE  r5 = 0 /\ r6 = 0 /\ q1 = 1
  BY DEF Balanced

\* The same for day 5, when only day 4 is left.
LEMMA LastOnDay4 ==
  ASSUME NEW q1, NEW q2, NEW q3, NEW q4, NEW r0, NEW r5, NEW r6,
         Balanced(q1, q2, q3, q4, r0, r5, r6),
         r5 >= r0, r5 >= r6, r5 > 0, q1 = 0, q2 = 0, q3 = 0, r0 + r5 + r6 > 0
  PROVE  r0 <= 0 /\ q4 > 0
  BY DEF Balanced

\* Somebody takes day 0 and one of the days midweek.
LEMMA Balance0and1 ==
  ASSUME NEW q1, NEW q2, NEW q3, NEW q4, NEW r0, NEW r5, NEW r6,
         Balanced(q1, q2, q3, q4, r0, r5, r6),
         r0 >= r5, r0 >= r6, r0 > 0, q1 > 0, q2 = 0, q3 = 0, q4 = 0
  PROVE  Balanced(q1 - 1, q2, q3, q4, r0 - 1, r5, r6)
  BY DEF Balanced

LEMMA Balance0and2 ==
  ASSUME NEW q1, NEW q2, NEW q3, NEW q4, NEW r0, NEW r5, NEW r6,
         Balanced(q1, q2, q3, q4, r0, r5, r6),
         r0 >= r5, r0 >= r6, r0 > 0, q2 > 0, q2 >= q3, q2 >= q4
  PROVE  Balanced(q1, q2 - 1, q3, q4, r0 - 1, r5, r6)
  BY DEF Balanced

LEMMA Balance0and3 ==
  ASSUME NEW q1, NEW q2, NEW q3, NEW q4, NEW r0, NEW r5, NEW r6,
         Balanced(q1, q2, q3, q4, r0, r5, r6),
         r0 >= r5, r0 >= r6, r0 > 0, q3 > 0, q3 >= q2, q3 >= q4
  PROVE  Balanced(q1, q2, q3 - 1, q4, r0 - 1, r5, r6)
  BY DEF Balanced

LEMMA Balance0and4 ==
  ASSUME NEW q1, NEW q2, NEW q3, NEW q4, NEW r0, NEW r5, NEW r6,
         Balanced(q1, q2, q3, q4, r0, r5, r6),
         r0 >= r5, r0 >= r6, r0 > 0, q4 > 0, q4 >= q2, q4 >= q3
  PROVE  Balanced(q1, q2, q3, q4 - 1, r0 - 1, r5, r6)
  BY DEF Balanced

\* Somebody takes day 5, which may be moved to day 0.
LEMMA Balance5and1 ==
  ASSUME NEW q1, NEW q2, NEW q3, NEW q4, NEW r0, NEW r5, NEW r6,
         Balanced(q1, q2, q3, q4, r0, r5, r6),
         r5 >= r0, r5 >= r6, r5 > 0, q1 > 0, q1 >= q2, q1 >= q3
  PROVE  /\ Balanced(q1 - 1, q2, q3, q4, r0, r5 - 1, r6)
         /\ Balanced(q1 - 1, q2, q3, q4, r0 - 1, r5, r6)
  BY DEF Balanced

LEMMA Balance5and2 ==
  ASSUME NEW q1, NEW q2, NEW q3, NEW q4, NEW r0, NEW r5, NEW r6,
         Balanced(q1, q2, q3, q4, r0, r5, r6),
         r5 >= r0, r5 >= r6, r5 > 0, q2 > 0, q2 >= q1, q2 >= q3
  PROVE  /\ Balanced(q1, q2 - 1, q3, q4, r0, r5 - 1, r6)
         /\ Balanced(q1, q2 - 1, q3, q4, r0 - 1, r5, r6)
  BY DEF Balanced

LEMMA Balance5and3 ==
  ASSUME NEW q1, NEW q2, NEW q3, NEW q4, NEW r0, NEW r5, NEW r6,
         Balanced(q1, q2, q3, q4, r0, r5, r6),
         r5 >= r0, r5 >= r6, r5 > 0, q3 > 0, q3 >= q1, q3 >= q2
  PROVE  /\ Balanced(q1, q2, q3 - 1, q4, r0, r5 - 1, r6)
         /\ Balanced(q1, q2, q3 - 1, q4, r0 - 1, r5, r6)
  BY DEF Balanced

LEMMA Balance5and4 ==
  ASSUME NEW q1, NEW q2, NEW q3, NEW q4, NEW r0, NEW r5, NEW r6,
         Balanced(q1, q2, q3, q4, r0, r5, r6),
         r5 >= r0, r5 >= r6, r5 > 0, q4 > 0, q1 = 0, q2 = 0, q3 = 0
  PROVE  /\ Balanced(q1, q2, q3, q4 - 1, r0, r5 - 1, r6)
         /\ Balanced(q1, q2, q3, q4 - 1, r0 - 1, r5, r6)
  BY DEF Balanced

\* The same with day 6.
LEMMA Balance6and1 ==
  ASSUME NEW q1, NEW q2, NEW q3, NEW q4, NEW r0, NEW r5, NEW r6,
         Balanced(q1, q2, q3, q4, r0, r5, r6),
         r6 >= r0, r6 >= r5, r6 > 0, q1 > 0, q1 >= q2, q1 >= q3, q1 >= q4
  PROVE  /\ Balanced(q1 - 1, q2, q3, q4, r0, r5, r6 - 1)
         /\ Balanced(q1 - 1, q2, q3, q4, r0 - 1, r5, r6)
  BY DEF Balanced

LEMMA Balance6and2 ==
  ASSUME NEW q1, NEW q2, NEW q3, NEW q4, NEW r0, NEW r5, NEW r6,
         Balanced(q1, q2, q3, q4, r0, r5, r6),
         r6 >= r0, r6 >= r5, r6 > 0, q2 > 0, q2 >= q1, q2 >= q3, q2 >= q4
  PROVE  /\ Balanced(q1, q2 - 1, q3, q4, r0, r5, r6 - 1)
         /\ Balanced(q1, q2 - 1, q3, q4, r0 - 1, r5, r6)
  BY DEF Balanced

LEMMA Balance6and3 ==
  ASSUME NEW q1, NEW q2, NEW q3, NEW q4, NEW r0, NEW r5, NEW r6,
         Balanced(q1, q2, q3, q4, r0, r5, r6),
         r6 >= r0, r6 >= r5, r6 > 0, q3 > 0, q3 >= q1, q3 >= q2, q3 >= q4
  PROVE  /\ Balanced(q1, q2, q3 - 1, q4, r0, r5, r6 - 1)
         /\ Balanced(q1, q2, q3 - 1, q4, r0 - 1, r5, r6)
  BY DEF Balanced

LEMMA Balance6and4 ==
  ASSUME NEW q1, NEW q2, NEW q3, NEW q4, NEW r0, NEW r5, NEW r6,
         Balanced(q1, q2, q3, q4, r0, r5, r6),
         r6 >= r0, r6 >= r5, r6 > 0, q4 > 0, q4 >= q1, q4 >= q2, q4 >= q3
  PROVE  /\ Balanced(q1, q2, q3, q4 - 1, r0, r5, r6 - 1)
         /\ Balanced(q1, q2, q3, q4 - 1, r0 - 1, r5, r6)
  BY DEF Balanced


-----------------------------------------------------------------------------
(* Where each pick finds a day, and which.                                  *)

ThreeOrMore(choices) == \E n \in Nat : n >= 3 /\ DOMAIN choices = 1 .. n

LEMMA FirstFoundIs ==
  ASSUME NEW choices, ThreeOrMore(choices)
  PROVE  /\ choices[1] # NoDay => FirstFound(choices) = choices[1]
         /\ choices[1] = NoDay /\ choices[2] # NoDay => FirstFound(choices) = choices[2]
         /\ choices[1] = NoDay /\ choices[2] = NoDay /\ choices[3] # NoDay =>
                FirstFound(choices) = choices[3]
<1>0. PICK n \in Nat : n >= 3 /\ DOMAIN choices = 1 .. n
  BY DEF ThreeOrMore
<1>1. ASSUME NEW k \in 1 .. n, choices[k] # NoDay, \A i \in 1 .. k - 1 : choices[i] = NoDay
      PROVE  FirstFound(choices) = choices[k]
  <2> DEFINE found == {i \in DOMAIN choices : choices[i] # NoDay}
  <2>1. IsFiniteSet(1 .. n)
    BY FS_Interval, 1 \in Int
  <2>2. found \in SUBSET Int /\ IsFiniteSet(found) /\ k \in found
    BY <1>0, <1>1, <2>1, FS_Subset
  <2>3. Min(found) \in found /\ Min(found) <= k
    <3> HIDE DEF found
    <3> QED
      BY <2>2, MinMaxFacts
  <2>4. Min(found) = k
    BY <1>0, <1>1, <2>3
  <2> QED
    BY <2>4 DEF FirstFound
<1>2. ASSUME choices[1] # NoDay PROVE FirstFound(choices) = choices[1]
  BY <1>0, <1>1, <1>2
<1>3. ASSUME choices[1] = NoDay, choices[2] # NoDay PROVE FirstFound(choices) = choices[2]
  BY <1>0, <1>1, <1>3
<1>4. ASSUME choices[1] = NoDay, choices[2] = NoDay, choices[3] # NoDay
      PROVE  FirstFound(choices) = choices[3]
  <2>1. \A i \in 1 .. 3 - 1 : choices[i] = NoDay
    BY <1>4
  <2>2. 3 \in 1 .. n
    BY <1>0
  <2> QED
    BY <1>1, <1>4, <2>1, <2>2
<1> QED
  BY <1>2, <1>3, <1>4

\* pickDayWithCapacity finds none when nothing is left on any of the days, and
\* otherwise one where most is left.
LEMMA PickFacts ==
  ASSUME TypeOK, NEW n \in Nat, NEW order, DOMAIN order = 1 .. n,
         \A i \in 1 .. n : order[i] \in Days, NEW days
  PROVE  LET p == PickDayWithCapacity(order, days)
             open == {d \in days : \E i \in 1 .. n : order[i] = d}
         IN  \/ p = NoDay /\ \A d \in open : Remain(d) <= 0
             \/ p \in open /\ Remain(p) > 0 /\ \A d \in open : Remain(d) <= Remain(p)
<1> DEFINE spare == {i \in DOMAIN order : order[i] \in days /\ Remain(order[i]) > 0}
           most == {i \in spare : \A j \in spare : Remain(order[j]) <= Remain(order[i])}
           open == {d \in days : \E i \in 1 .. n : order[i] = d}
           p == PickDayWithCapacity(order, days)
<1>0. \A i \in 1 .. n : Remain(order[i]) \in Int
  BY RemainIsInt
<1>1. CASE spare = {}
  <2>1. p = NoDay
    BY <1>1 DEF PickDayWithCapacity
  <2>2. \A d \in open : Remain(d) <= 0
    BY <1>0, <1>1
  <2> QED
    BY <2>1, <2>2
<1>2. CASE spare # {}
  <2>1. IsFiniteSet(1 .. n)
    BY FS_Interval, 1 \in Int
  <2>2. IsFiniteSet(spare)
    BY <2>1, FS_Subset
  <2> DEFINE f == [i \in spare |-> Remain(order[i])]
  <2>3. f \in [spare -> Int]
    BY <1>0
  <2>4. \E x \in spare : \A y \in spare : f[y] <= f[x]
    <3> HIDE DEF f, spare
    <3> QED
      BY <1>2, <2>2, <2>3, HighestExists
  <2>5. most # {}
    BY <2>4
  <2>6. most \in SUBSET Int /\ IsFiniteSet(most)
    BY <2>2, FS_Subset
  <2>7. Min(most) \in most
    <3> HIDE DEF most
    <3> QED
      BY <2>5, <2>6, MinMaxFacts
  <2>8. p = order[Min(most)]
    BY <1>2 DEF PickDayWithCapacity
  <2>9. p \in open /\ Remain(p) > 0
    BY <2>7, <2>8
  <2>10. ASSUME NEW d \in open PROVE Remain(d) <= Remain(p)
    <3>1. PICK j \in 1 .. n : order[j] = d
      BY <2>10
    <3>2. CASE Remain(d) > 0
      BY <2>7, <2>8, <2>10, <3>1, <3>2
    <3>3. CASE ~(Remain(d) > 0)
      <4>1. Remain(d) \in Int /\ Remain(p) \in Int
        BY <1>0, <2>9, <3>1
      <4> QED
        BY <2>9, <3>3, <4>1
    <3> QED
      BY <3>2, <3>3
  <2> QED
    BY <2>9, <2>10
<1> QED
  BY <1>1, <1>2

-----------------------------------------------------------------------------
(* The shares of the days.                                                  *)

\* The orders are the rotations of their lists.
LEMMA WeekendOrders ==
  ASSUME wk \in Nat
  PROVE  LET o == WeekendOrder
         IN  \/ o[1] = 5 /\ o[2] = 6 /\ o[3] = 0
             \/ o[1] = 6 /\ o[2] = 0 /\ o[3] = 5
             \/ o[1] = 0 /\ o[2] = 5 /\ o[3] = 6
<1>1. \A i \in 1 .. 3 : WeekendOrder[i] = Weekend[((i - 1 + wk) % 3) + 1]
  BY DEF WeekendOrder, Weekend, Rotate
<1>2. Weekend[1] = 5 /\ Weekend[2] = 6 /\ Weekend[3] = 0
  BY DEF Weekend
<1>3. \/ wk % 3 = 0 /\ (1 + wk) % 3 = 1 /\ (2 + wk) % 3 = 2
      \/ wk % 3 = 1 /\ (1 + wk) % 3 = 2 /\ (2 + wk) % 3 = 0
      \/ wk % 3 = 2 /\ (1 + wk) % 3 = 0 /\ (2 + wk) % 3 = 1
  OBVIOUS
<1>4. /\ WeekendOrder[1] = Weekend[(wk % 3) + 1]
      /\ WeekendOrder[2] = Weekend[((1 + wk) % 3) + 1]
      /\ WeekendOrder[3] = Weekend[((2 + wk) % 3) + 1]
  BY <1>1
<1> QED
  BY <1>2, <1>3, <1>4

LEMMA WeekdayOrders ==
  ASSUME wk \in Nat
  PROVE  LET o == WeekdayOrder
         IN  \/ o[1] = 1 /\ o[2] = 2 /\ o[3] = 3 /\ o[4] = 4
             \/ o[1] = 2 /\ o[2] = 3 /\ o[3] = 4 /\ o[4] = 1
             \/ o[1] = 3 /\ o[2] = 4 /\ o[3] = 1 /\ o[4] = 2
             \/ o[1] = 4 /\ o[2] = 1 /\ o[3] = 2 /\ o[4] = 3
<1>1. \A i \in 1 .. 4 : WeekdayOrder[i] = Weekdays[((i - 1 + wk) % 4) + 1]
  BY DEF WeekdayOrder, Weekdays, Rotate
<1>2. \A k \in 1 .. 4 : Weekdays[k] = k
  BY DEF Weekdays
<1>3. \/ wk % 4 = 0 /\ (1 + wk) % 4 = 1 /\ (2 + wk) % 4 = 2 /\ (3 + wk) % 4 = 3
      \/ wk % 4 = 1 /\ (1 + wk) % 4 = 2 /\ (2 + wk) % 4 = 3 /\ (3 + wk) % 4 = 0
      \/ wk % 4 = 2 /\ (1 + wk) % 4 = 3 /\ (2 + wk) % 4 = 0 /\ (3 + wk) % 4 = 1
      \/ wk % 4 = 3 /\ (1 + wk) % 4 = 0 /\ (2 + wk) % 4 = 1 /\ (3 + wk) % 4 = 2
  OBVIOUS
<1>4. /\ WeekdayOrder[1] = (wk % 4) + 1
      /\ WeekdayOrder[2] = ((1 + wk) % 4) + 1
      /\ WeekdayOrder[3] = ((2 + wk) % 4) + 1
      /\ WeekdayOrder[4] = ((3 + wk) % 4) + 1
  BY <1>1, <1>2, <1>3
<1> QED
  BY <1>3, <1>4

\* An order of a week lists its m days, each once.
Orders(m, days) ==
    /\ Len(days) = m /\ DOMAIN days = 1 .. m
    /\ \A i \in 1 .. m : Rotate(days, wk)[i] \in Days
    /\ \A i \in 1 .. m : \E k \in 1 .. m : days[k] = Rotate(days, wk)[i]
    /\ \A i, j \in 1 .. m : Rotate(days, wk)[i] = Rotate(days, wk)[j] => i = j

\* Of a count spread over the days of an order the first ones take the remainder.
LEMMA ShareInOrder ==
  ASSUME NEW m \in Nat \ {0}, NEW days, Orders(m, days),
         NEW count, NEW b, NEW r \in 0 .. m - 1,
         b = count \div Len(days), r = count % Len(days), NEW j \in 1 .. m
  PROVE  SpreadCapacity(days, count)[Rotate(days, wk)[j]] = b + (IF j <= r THEN 1 ELSE 0)
<1> DEFINE o == Rotate(days, wk)
<1>1. \A i \in 1 .. m : o[i] = o[j] => i = j
  BY DEF Orders
<1>2. o[j] \in Days /\ \E i \in DOMAIN days : days[i] = o[j]
  BY DEF Orders
<1>3. SpreadCapacity(days, count)[o[j]] = b + (IF \E i \in 1 .. r : o[i] = o[j] THEN 1 ELSE 0)
  BY <1>2 DEF SpreadCapacity
<1> HIDE DEF o
<1>4. (\E i \in 1 .. r : o[i] = o[j]) <=> j <= r
  BY <1>1
<1>5. SpreadCapacity(days, count)[o[j]] = b + (IF j <= r THEN 1 ELSE 0)
  BY <1>3, <1>4
<1> QED
  BY <1>5 DEF o

LEMMA StaffCount == TypeOK => Cardinality(Employees) = Len(team.staff)
<1> SUFFICES ASSUME TypeOK PROVE Cardinality(Employees) = Len(team.staff)
  OBVIOUS
<1> DEFINE n == Len(team.staff)
           f == [i \in 1 .. n |-> team.staff[i]]
<1>1. n \in Nat /\ DOMAIN team.staff = 1 .. n
  BY StaffFacts
<1>2. IsFiniteSet(1 .. n) /\ Cardinality(1 .. n) = n
  <2>1. IsFiniteSet(1 .. n) /\ Cardinality(1 .. n) = IF 1 > n THEN 0 ELSE n - 1 + 1
    BY <1>1, FS_Interval, 1 \in Int
  <2> QED
    BY <1>1, <2>1
<1>3. f \in Bijection(1 .. n, Employees)
  <2>1. \A i \in 1 .. n : f[i] = team.staff[i] /\ team.staff[i] \in Employees
    BY <1>1, StaffFacts
  <2>2. \A i, j \in 1 .. n : team.staff[i] = team.staff[j] => i = j
    BY <1>1, StaffFacts
  <2>3. \A e \in Employees : \E i \in 1 .. n : team.staff[i] = e
    BY <1>1 DEF Employees
  <2> DEFINE S == 1 .. n
  <2>4. f \in [S -> Employees]
    BY <2>1
  <2>5. /\ \A i, j \in S : f[i] = f[j] => i = j
        /\ \A e \in Employees : \E i \in S : f[i] = e
    BY <2>1, <2>2, <2>3
  <2> HIDE DEF f, S
  <2>6. f \in Bijection(S, Employees)
    BY <2>4, <2>5 DEF Bijection, Injection, Surjection, IsInjective
  <2> QED
    BY <2>6 DEF S
<1> HIDE DEF f, n
<1>4. Cardinality(Employees) = Cardinality(1 .. n)
  BY <1>2, <1>3, FS_Bijection DEF ExistsBijection
<1> QED
  BY <1>2, <1>4 DEF n

\* With two days off as many may be taken midweek as on weekends, one of each by
\* everybody, and the days of either part differ by one at most.
LEMMA SharesOfTwo ==
  ASSUME TypeOK, perWeek = 2
  PROVE  LET n == Len(team.staff)
         IN  /\ {Capacity[1], Capacity[2], Capacity[3], Capacity[4]} \subseteq {n \div 4, n \div 4 + 1}
             /\ Capacity[1] + Capacity[2] + Capacity[3] + Capacity[4] = n
             /\ {Capacity[0], Capacity[5], Capacity[6]} \subseteq {n \div 3, n \div 3 + 1}
             /\ Capacity[0] + Capacity[5] + Capacity[6] = n
<1> DEFINE n == Len(team.staff)
           we == WeekendOrder
           wd == WeekdayOrder
<1>1. n \in Nat /\ wk \in Nat /\ n * (perWeek - 1) = n
  BY StaffFacts
<1>2. \A d \in Days : Capacity[d] = SpreadCapacity(Weekend, n)[d] + SpreadCapacity(Weekdays, n)[d]
  BY <1>1 DEF Capacity
<1> HIDE DEF n
<1>3. /\ \A d \in {1, 2, 3, 4} : SpreadCapacity(Weekend, n)[d] = 0
      /\ \A d \in {0, 5, 6} : SpreadCapacity(Weekdays, n)[d] = 0
  <2>1. DOMAIN Weekend = 1 .. 3 /\ \A i \in 1 .. 3 : Weekend[i] \notin {1, 2, 3, 4}
    BY DEF Weekend
  <2>2. DOMAIN Weekdays = 1 .. 4 /\ \A i \in 1 .. 4 : Weekdays[i] \notin {0, 5, 6}
    BY DEF Weekdays
  <2>3. ASSUME NEW days, NEW d \in Days, \A i \in DOMAIN days : days[i] # d
        PROVE  SpreadCapacity(days, n)[d] = 0
    BY <2>3 DEF SpreadCapacity
  <2>4. \A d \in {1, 2, 3, 4} : d \in Days /\ \A i \in DOMAIN Weekend : Weekend[i] # d
    BY <2>1 DEF Days
  <2>5. \A d \in {0, 5, 6} : d \in Days /\ \A i \in DOMAIN Weekdays : Weekdays[i] # d
    BY <2>2 DEF Days
  <2> QED
    BY <2>3, <2>4, <2>5
<1>4. \A j \in 1 .. 3 : SpreadCapacity(Weekend, n)[we[j]] = n \div 3 + (IF j <= n % 3 THEN 1 ELSE 0)
  <2>1. Len(Weekend) = 3 /\ DOMAIN Weekend = 1 .. 3 /\ Weekend[1] = 5 /\ Weekend[2] = 6 /\ Weekend[3] = 0
    BY DEF Weekend
  <2>2. \A i \in 1 .. 3 : we[i] \in Days /\ \E k \in 1 .. 3 : Weekend[k] = we[i]
    BY <1>1, <2>1, WeekendOrders DEF Days
  <2>3. \A i, j \in 1 .. 3 : we[i] = we[j] => i = j
    BY <1>1, WeekendOrders
  <2>4. WeekendOrder = Rotate(Weekend, wk)
    BY DEF WeekendOrder
  <2>5. Orders(3, Weekend)
    BY <2>1, <2>2, <2>3, <2>4 DEF Orders
  <2>6. ASSUME NEW j \in 1 .. 3
        PROVE  SpreadCapacity(Weekend, n)[Rotate(Weekend, wk)[j]] = n \div 3 + (IF j <= n % 3 THEN 1 ELSE 0)
    <3>1. n % 3 \in 0 .. 3 - 1 /\ n \div 3 = n \div Len(Weekend) /\ n % 3 = n % Len(Weekend)
      BY <1>1, <2>1
    <3> QED
      BY <2>5, <3>1, ShareInOrder, 3 \in Nat \ {0}
  <2> QED
    BY <2>4, <2>6
<1>5. \A j \in 1 .. 4 : SpreadCapacity(Weekdays, n)[wd[j]] = n \div 4 + (IF j <= n % 4 THEN 1 ELSE 0)
  <2>1. /\ Len(Weekdays) = 4 /\ DOMAIN Weekdays = 1 .. 4
        /\ Weekdays[1] = 1 /\ Weekdays[2] = 2 /\ Weekdays[3] = 3 /\ Weekdays[4] = 4
    BY DEF Weekdays
  <2>2. \A i \in 1 .. 4 : wd[i] \in Days /\ \E k \in 1 .. 4 : Weekdays[k] = wd[i]
    BY <1>1, <2>1, WeekdayOrders DEF Days
  <2>3. \A i, j \in 1 .. 4 : wd[i] = wd[j] => i = j
    BY <1>1, WeekdayOrders
  <2>4. WeekdayOrder = Rotate(Weekdays, wk)
    BY DEF WeekdayOrder
  <2>5. Orders(4, Weekdays)
    BY <2>1, <2>2, <2>3, <2>4 DEF Orders
  <2>6. ASSUME NEW j \in 1 .. 4
        PROVE  SpreadCapacity(Weekdays, n)[Rotate(Weekdays, wk)[j]] = n \div 4 + (IF j <= n % 4 THEN 1 ELSE 0)
    <3>1. n % 4 \in 0 .. 4 - 1 /\ n \div 4 = n \div Len(Weekdays) /\ n % 4 = n % Len(Weekdays)
      BY <1>1, <2>1
    <3> QED
      BY <2>5, <3>1, ShareInOrder, 4 \in Nat \ {0}
  <2> QED
    BY <2>4, <2>6
<1>6. /\ n % 3 \in 0 .. 2 /\ n = 3 * (n \div 3) + (n % 3)
      /\ n % 4 \in 0 .. 3 /\ n = 4 * (n \div 4) + (n % 4)
      /\ n \div 3 \in Nat /\ n \div 4 \in Nat
  <2>1. n \div 3 \in Nat /\ n \div 4 \in Nat
    BY <1>1
  <2>2. n % 3 \in 0 .. 2 /\ n = 3 * (n \div 3) + (n % 3)
    BY <1>1
  <2>3. n % 4 \in 0 .. 3 /\ n = 4 * (n \div 4) + (n % 4)
    BY <1>1
  <2> QED
    BY <2>1, <2>2, <2>3
<1>7. /\ Capacity[we[1]] = n \div 3 + (IF 1 <= n % 3 THEN 1 ELSE 0)
      /\ Capacity[we[2]] = n \div 3 + (IF 2 <= n % 3 THEN 1 ELSE 0)
      /\ Capacity[we[3]] = n \div 3
  <2>1. \A j \in 1 .. 3 : we[j] \in {0, 5, 6} /\ we[j] \in Days
    BY <1>1, WeekendOrders DEF Days
  <2>2. \A j \in 1 .. 3 : Capacity[we[j]] = n \div 3 + (IF j <= n % 3 THEN 1 ELSE 0)
    <3> TAKE j \in 1 .. 3
    <3>1. SpreadCapacity(Weekdays, n)[we[j]] = 0 /\ we[j] \in Days
      BY <1>3, <2>1
    <3>2. Capacity[we[j]] = SpreadCapacity(Weekend, n)[we[j]] + SpreadCapacity(Weekdays, n)[we[j]]
      BY <1>2, <3>1
    <3> HIDE DEF we, wd
    <3>3. n \div 3 + (IF j <= n % 3 THEN 1 ELSE 0) \in Nat
      <4>1. (IF j <= n % 3 THEN 1 ELSE 0) \in Nat
        OBVIOUS
      <4>2. \A x, y \in Nat : x + y \in Nat
        OBVIOUS
      <4> QED
        BY <1>6, <4>1, <4>2
    <3> QED
      BY <1>4, <3>1, <3>2, <3>3
  <2> QED
    BY <1>6, <2>2
<1>8. /\ Capacity[wd[1]] = n \div 4 + (IF 1 <= n % 4 THEN 1 ELSE 0)
      /\ Capacity[wd[2]] = n \div 4 + (IF 2 <= n % 4 THEN 1 ELSE 0)
      /\ Capacity[wd[3]] = n \div 4 + (IF 3 <= n % 4 THEN 1 ELSE 0)
      /\ Capacity[wd[4]] = n \div 4
  <2>1. \A j \in 1 .. 4 : wd[j] \in {1, 2, 3, 4} /\ wd[j] \in Days
    BY <1>1, WeekdayOrders DEF Days
  <2>2. \A j \in 1 .. 4 : Capacity[wd[j]] = n \div 4 + (IF j <= n % 4 THEN 1 ELSE 0)
    <3> TAKE j \in 1 .. 4
    <3>1. SpreadCapacity(Weekend, n)[wd[j]] = 0 /\ wd[j] \in Days
      BY <1>3, <2>1
    <3>2. Capacity[wd[j]] = SpreadCapacity(Weekend, n)[wd[j]] + SpreadCapacity(Weekdays, n)[wd[j]]
      BY <1>2, <3>1
    <3> HIDE DEF we, wd
    <3>3. n \div 4 + (IF j <= n % 4 THEN 1 ELSE 0) \in Nat
      <4>1. (IF j <= n % 4 THEN 1 ELSE 0) \in Nat
        OBVIOUS
      <4>2. \A x, y \in Nat : x + y \in Nat
        OBVIOUS
      <4> QED
        BY <1>6, <4>1, <4>2
    <3> QED
      BY <1>5, <3>1, <3>2, <3>3
  <2> QED
    BY <1>6, <2>2
<1>9. /\ {Capacity[0], Capacity[5], Capacity[6]} \subseteq {n \div 3, n \div 3 + 1}
      /\ Capacity[0] + Capacity[5] + Capacity[6] = n
  BY <1>1, <1>6, <1>7, WeekendOrders
<1>10. /\ {Capacity[1], Capacity[2], Capacity[3], Capacity[4]} \subseteq {n \div 4, n \div 4 + 1}
       /\ Capacity[1] + Capacity[2] + Capacity[3] + Capacity[4] = n
  BY <1>1, <1>6, <1>8, WeekdayOrders
<1> QED
  BY <1>9, <1>10 DEF n

LEMMA AnyOrders ==
  ASSUME wk \in Nat
  PROVE  \E k \in 0 .. 6 :
           \A i \in 1 .. 7 : AnyOrder[i] = IF i - 1 + k <= 6 THEN i - 1 + k ELSE i - 8 + k
<1>1. \A i \in 1 .. 7 : AnyOrder[i] = AllDays[((i - 1 + wk) % 7) + 1]
  BY DEF AnyOrder, AllDays, Rotate
<1>2. \A k \in 0 .. 6 : AllDays[k + 1] = k
  BY DEF AllDays
<1> DEFINE k == wk % 7
<1>3. k \in 0 .. 6
  OBVIOUS
<1>4. \A i \in 1 .. 7 : (i - 1 + wk) % 7 = IF i - 1 + k <= 6 THEN i - 1 + k ELSE i - 8 + k
  OBVIOUS
<1>5. \A i \in 1 .. 7 : (i - 1 + wk) % 7 \in 0 .. 6
  OBVIOUS
<1>6. \A i \in 1 .. 7 : AnyOrder[i] = (i - 1 + wk) % 7
  BY <1>1, <1>2, <1>5
<1> HIDE DEF k
<1> QED
  BY <1>3, <1>4, <1>6

\* With one day off the team is shared out over the seven days.
LEMMA SharesOfOne ==
  ASSUME TypeOK, perWeek = 1
  PROVE  /\ \A d \in Days : Capacity[d] \in Nat
         /\ Capacity[0] + Capacity[1] + Capacity[2] + Capacity[3] + Capacity[4] + Capacity[5] + Capacity[6]
              = Len(team.staff)
<1> DEFINE n == Len(team.staff)
           o == AnyOrder
           b == n \div 7
           r == n % 7
<1>1. n \in Nat /\ wk \in Nat
  BY StaffFacts
<1>2. \A d \in Days : Capacity[d] = SpreadCapacity(AllDays, n)[d]
  BY DEF Capacity
<1> HIDE DEF n
<1>3. PICK k \in 0 .. 6 :
        \A i \in 1 .. 7 : AnyOrder[i] = IF i - 1 + k <= 6 THEN i - 1 + k ELSE i - 8 + k
  BY <1>1, AnyOrders
<1>4. \A j \in 1 .. 7 : o[j] \in 0 .. 6 /\ SpreadCapacity(AllDays, n)[o[j]] = b + (IF j <= r THEN 1 ELSE 0)
  <2>1. Len(AllDays) = 7 /\ DOMAIN AllDays = 1 .. 7 /\ \A i \in 1 .. 7 : AllDays[i] = i - 1
    BY DEF AllDays
  <2>2. \A i \in 1 .. 7 : o[i] \in 0 .. 6
    BY <1>3
  <2>3. \A i \in 1 .. 7 : o[i] \in Days /\ \E j \in 1 .. 7 : AllDays[j] = o[i]
    BY <2>1, <2>2, OrderFacts DEF Days
  <2>4. \A i, j \in 1 .. 7 : o[i] = o[j] => i = j
    BY <1>3
  <2>5. AnyOrder = Rotate(AllDays, wk)
    BY DEF AnyOrder
  <2>6. Orders(7, AllDays)
    BY <2>1, <2>2, <2>3, <2>4, <2>5 DEF Orders
  <2>7. ASSUME NEW j \in 1 .. 7
        PROVE  SpreadCapacity(AllDays, n)[Rotate(AllDays, wk)[j]] = n \div 7 + (IF j <= n % 7 THEN 1 ELSE 0)
    <3>1. n % 7 \in 0 .. 7 - 1 /\ n \div 7 = n \div Len(AllDays) /\ n % 7 = n % Len(AllDays)
      BY <1>1, <2>1
    <3> QED
      BY <2>6, <3>1, ShareInOrder, 7 \in Nat \ {0}
  <2> QED
    BY <2>2, <2>5, <2>7
<1>5. r \in 0 .. 6 /\ b \in Nat /\ n = 7 * b + r
  BY <1>1
<1> DEFINE x(j) == IF j <= r THEN 1 ELSE 0
<1>6. \A j \in 1 .. 7 : Capacity[o[j]] = b + x(j)
  BY <1>2, <1>4 DEF Days
<1>7. x(1) + x(2) + x(3) + x(4) + x(5) + x(6) + x(7) = r /\ \A j \in 1 .. 7 : x(j) \in {0, 1}
  BY <1>5
<1> HIDE DEF x, b, r, o
<1>8. \A d \in 0 .. 6 : Capacity[d] = b + (IF d >= k THEN x(d - k + 1) ELSE x(d - k + 8))
  <2> TAKE d \in 0 .. 6
  <2>1. CASE d >= k
    <3>1. d - k + 1 \in 1 .. 7 /\ o[d - k + 1] = d
      BY <1>3, <2>1 DEF o
    <3> QED
      BY <1>6, <2>1, <3>1
  <2>2. CASE ~(d >= k)
    <3>1. d - k + 8 \in 1 .. 7 /\ o[d - k + 8] = d
      BY <1>3, <2>2 DEF o
    <3> QED
      BY <1>6, <2>2, <3>1
  <2> QED
    BY <2>1, <2>2
<1>9. \A d \in 0 .. 6 : Capacity[d] \in Nat
  <2> TAKE d \in 0 .. 6
  <2>1. (d >= k => d - k + 1 \in 1 .. 7) /\ (~(d >= k) => d - k + 8 \in 1 .. 7)
    OBVIOUS
  <2> QED
    BY <1>5, <1>7, <1>8, <2>1
<1> DEFINE s == x(1) + x(2) + x(3) + x(4) + x(5) + x(6) + x(7)
<1>10. Capacity[0] + Capacity[1] + Capacity[2] + Capacity[3] + Capacity[4] + Capacity[5] + Capacity[6]
         = 7 * b + s
  <2>1. CASE k = 0
    BY <1>5, <1>7, <1>8, <2>1
  <2>2. CASE k = 1
    BY <1>5, <1>7, <1>8, <2>2
  <2>3. CASE k = 2
    BY <1>5, <1>7, <1>8, <2>3
  <2>4. CASE k = 3
    BY <1>5, <1>7, <1>8, <2>4
  <2>5. CASE k = 4
    BY <1>5, <1>7, <1>8, <2>5
  <2>6. CASE k = 5
    BY <1>5, <1>7, <1>8, <2>6
  <2>7. CASE k = 6
    BY <1>5, <1>7, <1>8, <2>7
  <2> QED
    BY <2>1, <2>2, <2>3, <2>4, <2>5, <2>6, <2>7
<1> QED
  BY <1>5, <1>7, <1>9, <1>10 DEF Days, n, s

-----------------------------------------------------------------------------
(* What is left while the days off are given.                               *)

LEMMA LeftIsInt ==
  ASSUME TypeOK, NEW d \in Days
  PROVE  Left(d) \in Int
<1>1. {e \in Settled : d \in off[e]} \in SUBSET Employees
  BY DEF Settled
<1>2. Cardinality({e \in Settled : d \in off[e]}) \in Nat
  BY <1>1, StaffFacts, FS_Subset, FS_CardinalityType
<1> QED
  BY <1>2, CapacityIsNat DEF Left

NothingGiven == \A e \in Employees : off[e] = {}

\* At the start the capacity is left.
LEMMA LeftAtStart ==
  ASSUME TypeOK, NothingGiven
  PROVE  /\ Settled = {} /\ \A d \in Days : Left(d) = Capacity[d]
         /\ Cardinality(Employees \ Settled) = Len(team.staff)
<1>1. Cardinality({}) = 0 /\ perWeek \in 1 .. 7
  BY FS_EmptySet, StaffFacts
<1>2. Settled = {}
  BY <1>1 DEF NothingGiven, Settled
<1>3. ASSUME NEW d \in Days PROVE Left(d) = Capacity[d]
  <2>1. {e \in Settled : d \in off[e]} = {}
    BY <1>2
  <2>2. Left(d) = Capacity[d] - 0
    BY <1>1, <2>1 DEF Left
  <2> QED
    BY <2>2, CapacityIsNat
<1>4. Employees \ Settled = Employees
  BY <1>2
<1> QED
  BY <1>2, <1>3, <1>4, StaffCount

LEMMA PairsAtStart == TypeOK /\ NothingGiven => PairsGiven /\ OneAtWeekend
<1> SUFFICES ASSUME TypeOK, NothingGiven, perWeek = 2 PROVE PairsGiven /\ OneAtWeekend
  BY DEF PairsGiven, OneAtWeekend
<1> DEFINE n == Len(team.staff)
<1>1. n \in Nat /\ n \div 3 \in Nat /\ n \div 4 \in Nat
  <2>1. n \in Nat
    BY StaffFacts
  <2> HIDE DEF n
  <2>2. n \div 3 \in Nat
    BY <2>1
  <2>3. n \div 4 \in Nat
    BY <2>1
  <2> QED
    BY <2>1, <2>2, <2>3
<1>2. Settled = {} /\ Cardinality(Employees \ Settled) = n
  BY LeftAtStart
<1>3. /\ Left(0) = Capacity[0] /\ Left(1) = Capacity[1] /\ Left(2) = Capacity[2] /\ Left(3) = Capacity[3]
      /\ Left(4) = Capacity[4] /\ Left(5) = Capacity[5] /\ Left(6) = Capacity[6]
  BY LeftAtStart DEF Days
<1>4. /\ {Left(1), Left(2), Left(3), Left(4)} \subseteq {n \div 4, n \div 4 + 1}
      /\ Left(1) + Left(2) + Left(3) + Left(4) = n
      /\ {Left(0), Left(5), Left(6)} \subseteq {n \div 3, n \div 3 + 1}
      /\ Left(0) + Left(5) + Left(6) = n
  BY <1>3, SharesOfTwo
<1> HIDE DEF n
<1>5. LeftBalanced
  BY <1>1, <1>4, BalanceStarts DEF LeftBalanced
<1>6. WeekendFirst
  <2>1. \A i \in DOMAIN team.staff : Cardinality(off[team.staff[i]]) = 0
    BY StaffFacts, FS_EmptySet DEF NothingGiven
  <2> QED
    BY <2>1 DEF WeekendFirst
<1>7. Left(0) >= 0
  BY <1>1, <1>4
<1> QED
  BY <1>2, <1>4, <1>5, <1>6, <1>7 DEF PairsGiven, PairsLeft, OneAtWeekend

LEMMA SinglesAtStart == TypeOK /\ NothingGiven => SinglesGiven
<1> SUFFICES ASSUME TypeOK, NothingGiven, perWeek = 1 PROVE SinglesGiven
  BY DEF SinglesGiven
<1>1. Cardinality(Employees \ Settled) = Len(team.staff) /\ \A d \in Days : Left(d) = Capacity[d]
  BY LeftAtStart
<1>2. /\ Left(0) = Capacity[0] /\ Left(1) = Capacity[1] /\ Left(2) = Capacity[2] /\ Left(3) = Capacity[3]
      /\ Left(4) = Capacity[4] /\ Left(5) = Capacity[5] /\ Left(6) = Capacity[6]
  BY <1>1 DEF Days
<1>3. Left(0) + Left(1) + Left(2) + Left(3) + Left(4) + Left(5) + Left(6) = Len(team.staff)
  BY <1>2, SharesOfOne
<1>4. \A d \in Days : Left(d) >= 0
  BY <1>1, SharesOfOne
<1> QED
  BY <1>1, <1>3, <1>4 DEF SinglesGiven, SinglesLeft

\* Somebody gets the last day off.
LEMMA SettledGrows ==
  ASSUME TypeOK, NEW e \in Employees, e \notin Settled,
         team' = team, perWeek' = perWeek, wk' = wk,
         \A f \in Employees \ {e} : off'[f] = off[f], Cardinality(off'[e]) = perWeek
  PROVE  /\ Settled' = Settled \cup {e} /\ Employees' = Employees
         /\ \A d \in Days : Left(d)' = Left(d) - (IF d \in off'[e] THEN 1 ELSE 0)
         /\ Cardinality(Employees \ Settled)' = Cardinality(Employees \ Settled) - 1
         /\ Cardinality(Employees \ Settled) \in Nat \ {0}
<1>1. Employees' = Employees /\ Capacity' = Capacity
  BY DEF Employees, Capacity, SpreadCapacity, Rotate
<1>2. Settled' = Settled \cup {e}
  BY <1>1 DEF Settled
<1>3. ASSUME NEW d \in Days PROVE Left(d)' = Left(d) - (IF d \in off'[e] THEN 1 ELSE 0)
  <2> DEFINE T == {f \in Settled : d \in off[f]}
  <2>1. IsFiniteSet(T)
    <3>1. T \in SUBSET Employees
      BY DEF Settled
    <3> QED
      BY <3>1, StaffFacts, FS_Subset
  <2>2. {f \in Settled' : d \in off'[f]} = IF d \in off'[e] THEN T \cup {e} ELSE T
    BY <1>2 DEF Settled
  <2>3. e \notin T
    OBVIOUS
  <2> HIDE DEF T
  <2>4. Cardinality(T) \in Nat /\ Cardinality(T \cup {e}) = Cardinality(T) + 1
    BY <2>1, <2>3, FS_CardinalityType, FS_AddElement
  <2>5. Left(d)' = Capacity[d] - Cardinality({f \in Settled' : d \in off'[f]})
    BY <1>1 DEF Left
  <2>6. Left(d) = Capacity[d] - Cardinality(T)
    BY DEF Left, T
  <2>7. Capacity[d] \in Nat
    BY CapacityIsNat
  <2>8. CASE d \in off'[e]
    <3>1. Left(d)' = Capacity[d] - (Cardinality(T) + 1)
      BY <2>2, <2>4, <2>5, <2>8
    <3> QED
      BY <2>4, <2>6, <2>7, <2>8, <3>1
  <2>9. CASE d \notin off'[e]
    <3>1. Left(d)' = Capacity[d] - Cardinality(T)
      BY <2>2, <2>5, <2>9
    <3> QED
      BY <2>4, <2>6, <2>7, <2>9, <3>1
  <2> QED
    BY <2>8, <2>9
<1>4. (Employees \ Settled)' = (Employees \ Settled) \ {e}
  BY <1>1, <1>2
<1>5. IsFiniteSet(Employees \ Settled)
  BY StaffFacts, FS_Subset
<1>6. /\ Cardinality((Employees \ Settled) \ {e}) = Cardinality(Employees \ Settled) - 1
      /\ Cardinality(Employees \ Settled) \in Nat /\ Cardinality(Employees \ Settled) # 0
  BY <1>5, FS_RemoveElement, FS_CardinalityType, FS_EmptySet
<1>7. Cardinality(Employees \ Settled)' = Cardinality((Employees \ Settled)')
  OBVIOUS
<1> QED
  BY <1>1, <1>2, <1>3, <1>4, <1>6, <1>7

\* Somebody gets a day off that is not the last one.
LEMMA SettledStays ==
  ASSUME TypeOK, NEW e \in Employees, e \notin Settled,
         team' = team, perWeek' = perWeek, wk' = wk,
         \A f \in Employees \ {e} : off'[f] = off[f], Cardinality(off'[e]) # perWeek
  PROVE  Settled' = Settled /\ Employees' = Employees /\ \A d \in Days : Left(d)' = Left(d)
<1>1. Employees' = Employees /\ Capacity' = Capacity
  BY DEF Employees, Capacity, SpreadCapacity, Rotate
<1>2. Settled' = Settled
  BY <1>1 DEF Settled
<1>3. \A d \in Days : {f \in Settled' : d \in off'[f]} = {f \in Settled : d \in off[f]}
  BY <1>2 DEF Settled
<1>4. \A d \in Days : Left(d)' = Left(d)
  BY <1>1, <1>3 DEF Left
<1> QED
  BY <1>1, <1>2, <1>4

\* Nothing is taken yet of what is left of a day that nobody has who waits.
LEMMA RemainIsLeft ==
  ASSUME NEW d \in Days, \A f \in Employees \ Settled : d \notin off[f]
  PROVE  Remain(d) = Left(d)
<1>1. {e \in Employees : d \in off[e]} = {e \in Settled : d \in off[e]}
  BY DEF Settled
<1> QED
  BY <1>1 DEF Remain, Left, Used

\* Of those who wait only the one whose turn it is may have a day off already.
LEMMA OthersHaveNone ==
  ASSUME TypeOK, DaysGiven, perWeek \in {1, 2}, perWeek = 2 => WeekendFirst,
         NEW i \in DOMAIN team.staff, AssignOffDay(i)
  PROVE  /\ team.staff[i] \in Employees \ Settled
         /\ \A f \in Employees \ Settled : f # team.staff[i] => off[f] = {}
<1> DEFINE e == team.staff[i]
<1>1. phase = "offs" /\ i \in Waiting /\ \A j \in Waiting \ {i} : Before(i, j)
  BY DEF AssignOffDay
<1>2. e \in Employees \ Settled
  BY <1>1, StaffFacts DEF Waiting, Settled
<1>3. ASSUME NEW f \in Employees \ Settled, f # e PROVE off[f] = {}
  <2>1. off[f] \in SUBSET Days
    BY DEF TypeOK
  <2>2. IsFiniteSet(off[f]) /\ Cardinality(off[f]) \in Nat
    BY <2>1, DaysFinite
  <2>3. Cardinality(off[f]) < perWeek
    BY <1>1, <2>2 DEF DaysGiven, Settled
  <2>4. PICK j \in DOMAIN team.staff : team.staff[j] = f
    BY DEF Employees
  <2>5. j \in Waiting \ {i}
    BY <1>3, <2>3, <2>4 DEF Waiting
  <2>6. ASSUME Cardinality(off[f]) = 1 PROVE FALSE
    <3>1. perWeek = 2
      BY <2>3, <2>6
    <3>2. Before(j, i) /\ Before(i, j)
      BY <1>1, <2>4, <2>5, <2>6, <3>1 DEF WeekendFirst
    <3>3. weekendOff[e] \in Int /\ weekendOff[f] \in Int
      BY <1>2 DEF TypeOK
    <3>4. i \in Int /\ j \in Int
      BY StaffFacts
    <3> QED
      BY <2>4, <3>2, <3>3, <3>4 DEF Before
  <2>7. Cardinality(off[f]) = 0
    BY <2>2, <2>3, <2>6
  <2> QED
    BY <2>2, <2>7, FS_EmptySet
<1> QED
  BY <1>2, <1>3

\* The day of the weekend is one where most is left.
LEMMA WeekendDayFacts ==
  ASSUME TypeOK, \A d \in Days : Remain(d) = Left(d), Left(0) + Left(5) + Left(6) > 0
  PROVE  /\ WeekendDay \in {0, 5, 6} /\ Left(WeekendDay) > 0
         /\ \A v \in {0, 5, 6} : Left(v) <= Left(WeekendDay)
<1> DEFINE a == PickDayWithCapacity(WeekendOrder, Days)
           choices == <<a, WeekendOrder[1]>>
           open == {d \in Days : \E i \in 1 .. 3 : WeekendOrder[i] = d}
<1>1. wk \in Nat /\ DOMAIN WeekendOrder = 1 .. 3 /\ \A i \in 1 .. 3 : WeekendOrder[i] \in {0, 5, 6}
  BY StaffFacts, OrderFacts
<1>2. open = {0, 5, 6}
  <2>1. \A d \in {0, 5, 6} : d \in Days /\ \E i \in 1 .. 3 : WeekendOrder[i] = d
    BY <1>1, WeekendOrders DEF Days
  <2> QED
    BY <1>1, <2>1
<1>3. \/ a = NoDay /\ \A d \in open : Remain(d) <= 0
      \/ a \in open /\ Remain(a) > 0 /\ \A d \in open : Remain(d) <= Remain(a)
  <2>1. \A i \in 1 .. 3 : WeekendOrder[i] \in Days
    BY <1>1 DEF Days
  <2> QED
    BY <1>1, <2>1, PickFacts, 3 \in Nat
<1>4. \A d \in open : d \in Days /\ Remain(d) = Left(d) /\ Left(d) \in Int
  BY LeftIsInt
<1>5. ~ \A d \in open : Left(d) <= 0
  <2>1. Left(0) \in Int /\ Left(5) \in Int /\ Left(6) \in Int
    BY <1>2, <1>4
  <2> QED
    BY <1>2, <2>1
<1>6. a \in open /\ Left(a) > 0 /\ \A d \in open : Left(d) <= Left(a)
  BY <1>3, <1>4, <1>5
<1>7. WeekendDay = a
  <2> HIDE DEF a, open
  <2>1. DOMAIN choices = 1 .. 2 /\ choices[1] = a
    OBVIOUS
  <2>2. a # NoDay
    BY <1>2, <1>6 DEF NoDay
  <2> DEFINE found == {i \in DOMAIN choices : choices[i] # NoDay}
  <2>3. \A i \in 1 .. 2 : choices[i] # NoDay
    <3>1. WeekendOrder[1] # NoDay
      BY <1>1 DEF NoDay
    <3> QED
      BY <2>1, <2>2, <3>1
  <2>4. found = 1 .. 2
    BY <2>1, <2>3
  <2>5. Min(1 .. 2) = 1
    <3>1. \A x : (x \in 1 .. 2 /\ \A y \in 1 .. 2 : x <= y) <=> x = 1
      OBVIOUS
    <3> QED
      BY <3>1 DEF Min
  <2>6. FirstFound(choices) = choices[1]
    <3> HIDE DEF choices
    <3> QED
      BY <2>4, <2>5 DEF FirstFound
  <2> QED
    BY <2>1, <2>6 DEF WeekendDay, a, choices
<1> QED
  BY <1>2, <1>6, <1>7

\* The only day off is one with a place left.
LEMMA OnlyDayFacts ==
  ASSUME TypeOK, \A d \in Days : Remain(d) = Left(d), \E d \in Days : Left(d) > 0
  PROVE  OnlyDay \in Days /\ Left(OnlyDay) > 0
<1> DEFINE a == PickDayWithCapacity(WeekendOrder, Days)
           b == PickDayWithCapacity(AnyOrder, Days)
           choices == <<a, b, AnyOrder[1]>>
<1>1. /\ DOMAIN WeekendOrder = 1 .. 3 /\ \A i \in 1 .. 3 : WeekendOrder[i] \in Days
      /\ DOMAIN AnyOrder = 1 .. 7 /\ \A i \in 1 .. 7 : AnyOrder[i] \in Days
      /\ \A d \in Days : \E i \in 1 .. 7 : AnyOrder[i] = d
  BY StaffFacts, OrderFacts DEF Days
<1>2. a # NoDay => a \in Days /\ Left(a) > 0
  <2> DEFINE open == {d \in Days : \E i \in 1 .. 3 : WeekendOrder[i] = d}
  <2>1. \/ a = NoDay /\ \A d \in open : Remain(d) <= 0
        \/ a \in open /\ Remain(a) > 0 /\ \A d \in open : Remain(d) <= Remain(a)
    BY <1>1, PickFacts, 3 \in Nat
  <2>2. ASSUME a # NoDay PROVE a \in Days /\ Remain(a) > 0 /\ Remain(a) = Left(a)
    BY <2>1, <2>2
  <2> HIDE DEF a
  <2> QED
    BY <2>2
<1>3. b \in Days /\ Left(b) > 0
  <2>1. \/ b = NoDay /\ \A d \in Days : Remain(d) <= 0
        \/ b \in Days /\ Remain(b) > 0
    BY <1>1, PickFacts, 7 \in Nat
  <2> QED
    BY <2>1, LeftIsInt
<1>4. b # NoDay
  BY <1>3 DEF Days, NoDay
<1> HIDE DEF a, b
<1>5. DOMAIN choices = 1 .. 3 /\ choices[1] = a /\ choices[2] = b
  OBVIOUS
<1> HIDE DEF choices
<1>0. ThreeOrMore(choices)
  BY <1>5 DEF ThreeOrMore
<1>6. FirstFound(choices) = IF a # NoDay THEN a ELSE b
  <2>1. CASE a # NoDay
    BY <1>0, <1>5, <2>1, FirstFoundIs
  <2>2. CASE a = NoDay
    BY <1>0, <1>4, <1>5, <2>2, FirstFoundIs
  <2> QED
    BY <2>1, <2>2
<1>7. OnlyDay = FirstFound(choices)
  BY DEF OnlyDay, choices, a, b
<1> QED
  BY <1>2, <1>3, <1>6, <1>7

\* The day midweek is one where most is left, of those that are not next to the
\* day of the weekend as long as there is a place on one of them.
LEMMA MidweekDayFacts ==
  ASSUME TypeOK, NEW w \in {0, 5, 6}, \A d \in Days \ {w} : Remain(d) = Left(d),
         LeftBalanced, Left(w) > 0, \A v \in {0, 5, 6} : Left(v) <= Left(w),
         Left(1) + Left(2) + Left(3) + Left(4) > 0
  PROVE  LET m == MidweekDay({w})
         IN  /\ m \in 1 .. 4 /\ Left(m) > 0
             /\ \/ m \in Away({w}) /\ \A d \in Away({w}) \cap (1 .. 4) : Left(d) <= Left(m)
                \/ w = 0 /\ m = 1 /\ Left(2) = 0 /\ Left(3) = 0 /\ Left(4) = 0
                \/ w = 5 /\ m = 4 /\ Left(1) = 0 /\ Left(2) = 0 /\ Left(3) = 0
<1> DEFINE A == Away({w})
           c1 == PickDayWithCapacity(WeekdayOrder, A)
           c2 == PickDayWithCapacity(AnyOrder, A)
           c3 == PickDayWithCapacity(WeekdayOrder, Free({w}))
           c4 == PickDayWithCapacity(AnyOrder, Free({w}))
           c5 == FirstFree(AnyOrder, A)
           c6 == FirstFree(AnyOrder, Free({w}))
           choices == <<c1, c2, c3, c4, c5, c6, 0>>
<1>1. /\ DOMAIN WeekdayOrder = 1 .. 4 /\ \A i \in 1 .. 4 : WeekdayOrder[i] \in 1 .. 4
      /\ \A d \in 1 .. 4 : \E i \in 1 .. 4 : WeekdayOrder[i] = d
      /\ DOMAIN AnyOrder = 1 .. 7 /\ \A i \in 1 .. 7 : AnyOrder[i] \in Days
      /\ \A d \in Days : \E i \in 1 .. 7 : AnyOrder[i] = d
  BY StaffFacts, OrderFacts, WeekdayOrders
<1>2. /\ w = 0 => A = {2, 3, 4, 5, 6}
      /\ w = 5 => A = {0, 1, 2, 3}
      /\ w = 6 => A = {0, 1, 2, 3, 4}
      /\ Free({w}) = Days \ {w}
  BY DEF Away, Free, Days
<1>3. /\ Left(0) \in Int /\ Left(1) \in Nat /\ Left(2) \in Nat /\ Left(3) \in Nat
      /\ Left(4) \in Nat /\ Left(5) \in Nat /\ Left(6) \in Nat
      /\ Left(1) + Left(2) + Left(3) + Left(4) = Left(0) + Left(5) + Left(6)
  BY DEF LeftBalanced, Balanced
<1>4. \A d \in Days : d # w => Remain(d) = Left(d)
  OBVIOUS
<1>5. ASSUME NEW T \in SUBSET (Days \ {w})
      PROVE  LET p == PickDayWithCapacity(WeekdayOrder, T)
             IN  \/ p = NoDay /\ \A d \in T \cap (1 .. 4) : Left(d) <= 0
                 \/ p \in T \cap (1 .. 4) /\ Left(p) > 0 /\ \A d \in T \cap (1 .. 4) : Left(d) <= Left(p)
  <2> DEFINE p == PickDayWithCapacity(WeekdayOrder, T)
             open == {d \in T : \E i \in 1 .. 4 : WeekdayOrder[i] = d}
  <2>1. open = T \cap (1 .. 4)
    BY <1>1
  <2>2. \/ p = NoDay /\ \A d \in open : Remain(d) <= 0
        \/ p \in open /\ Remain(p) > 0 /\ \A d \in open : Remain(d) <= Remain(p)
    <3>1. \A i \in 1 .. 4 : WeekdayOrder[i] \in Days
      BY <1>1 DEF Days
    <3> QED
      BY <1>1, <3>1, PickFacts, 4 \in Nat
  <2>3. \A d \in open : Remain(d) = Left(d)
    BY <1>4
  <2> HIDE DEF p, open
  <2>4. \/ p = NoDay /\ \A d \in open : Left(d) <= 0
        \/ p \in open /\ Left(p) > 0 /\ \A d \in open : Left(d) <= Left(p)
    BY <2>2, <2>3
  <2> QED
    BY <2>1, <2>4 DEF p
<1>6. A \in SUBSET (Days \ {w}) /\ Free({w}) \in SUBSET (Days \ {w})
  BY DEF Away, Free
<1>7. \/ c1 = NoDay /\ \A d \in A \cap (1 .. 4) : Left(d) <= 0
      \/ c1 \in A \cap (1 .. 4) /\ Left(c1) > 0 /\ \A d \in A \cap (1 .. 4) : Left(d) <= Left(c1)
  <2> HIDE DEF A
  <2> QED
    BY <1>5, <1>6
<1>8. \/ c3 = NoDay /\ \A d \in 1 .. 4 : Left(d) <= 0
      \/ c3 \in 1 .. 4 /\ Left(c3) > 0 /\ \A d \in 1 .. 4 : Left(d) <= Left(c3)
  <2>1. Free({w}) \cap (1 .. 4) = 1 .. 4
    BY <1>2 DEF Days
  <2> QED
    BY <1>5, <1>6, <2>1
<1>9. (\A d \in A : Left(d) <= 0) => c2 = NoDay
  <2> SUFFICES ASSUME \A d \in A : Left(d) <= 0 PROVE c2 = NoDay
    OBVIOUS
  <2> DEFINE open == {d \in A : \E i \in 1 .. 7 : AnyOrder[i] = d}
  <2>1. \/ c2 = NoDay
        \/ c2 \in open /\ Remain(c2) > 0
    BY <1>1, PickFacts, 7 \in Nat
  <2>2. ASSUME c2 \in open, Remain(c2) > 0 PROVE FALSE
    <3>1. c2 \in A /\ c2 \in Days /\ c2 # w
      BY <1>6, <2>2
    <3>2. Left(c2) \in Int /\ Remain(c2) = Left(c2)
      BY <1>4, <3>1, LeftIsInt
    <3> QED
      BY <2>2, <3>1, <3>2
  <2> QED
    BY <2>1, <2>2
<1> HIDE DEF c1, c2, c3, c4, c5, c6
<1>10. /\ DOMAIN choices = 1 .. 7
       /\ choices[1] = c1 /\ choices[2] = c2 /\ choices[3] = c3
  OBVIOUS
<1>11. MidweekDay({w}) = FirstFound(choices)
  BY DEF MidweekDay, choices, c1, c2, c3, c4, c5, c6
<1> HIDE DEF choices
<1>0. ThreeOrMore(choices)
  BY <1>10 DEF ThreeOrMore
<1>12. CASE c1 # NoDay
  <2>1. FirstFound(choices) = c1
    BY <1>0, <1>10, <1>12, FirstFoundIs
  <2> QED
    BY <1>7, <1>11, <1>12, <2>1
<1>13. CASE c1 = NoDay
  <2>1. \A d \in A \cap (1 .. 4) : Left(d) <= 0
    <3> HIDE DEF A
    <3> QED
      BY <1>7, <1>13 DEF NoDay
  <2>2. ASSUME c2 = NoDay, c3 # NoDay PROVE MidweekDay({w}) = c3
    <3>1. FirstFound(choices) = choices[3]
      BY <1>0, <1>10, <1>13, <2>2, FirstFoundIs
    <3> QED
      BY <1>10, <1>11, <3>1
  <2>3. CASE w = 0
    <3>1. Left(2) = 0 /\ Left(3) = 0 /\ Left(4) = 0
      <4>1. {2, 3, 4} \subseteq A \cap (1 .. 4)
        BY <1>2, <2>3
      <4> HIDE DEF A
      <4> QED
        BY <1>3, <2>1, <4>1
    <3>2. Left(5) = 0 /\ Left(6) = 0 /\ Left(1) = 1
      <4>1. Left(0) >= Left(5) /\ Left(0) >= Left(6) /\ Left(0) > 0
        BY <2>3, <1>3
      <4> QED
        BY <3>1, <4>1, LastOnDay1 DEF LeftBalanced
    <3>3. c2 = NoDay
      <4>1. \A d \in A : Left(d) <= 0
        BY <1>2, <2>3, <3>1, <3>2
      <4> HIDE DEF A
      <4> QED
        BY <1>9, <4>1
    <3>4. c3 = 1
      BY <1>8, <3>1, <3>2
    <3> QED
      BY <2>2, <2>3, <3>1, <3>2, <3>3, <3>4 DEF NoDay
  <2>4. CASE w = 5
    <3>1. Left(1) = 0 /\ Left(2) = 0 /\ Left(3) = 0
      <4>1. {1, 2, 3} \subseteq A \cap (1 .. 4)
        BY <1>2, <2>4
      <4> HIDE DEF A
      <4> QED
        BY <1>3, <2>1, <4>1
    <3>2. Left(0) <= 0 /\ Left(4) > 0
      <4>1. Left(5) >= Left(0) /\ Left(5) >= Left(6) /\ Left(5) > 0 /\ Left(0) + Left(5) + Left(6) > 0
        BY <2>4, <1>3
      <4> QED
        BY <3>1, <4>1, LastOnDay4 DEF LeftBalanced
    <3>3. c2 = NoDay
      <4>1. \A d \in A : Left(d) <= 0
        BY <1>2, <1>3, <2>4, <3>1, <3>2
      <4> HIDE DEF A
      <4> QED
        BY <1>9, <4>1
    <3>4. c3 = 4
      <4>1. ~ \A d \in 1 .. 4 : Left(d) <= 0
        BY <1>3, <3>2
      <4>2. c3 \in 1 .. 4 /\ Left(c3) > 0
        BY <1>8, <4>1
      <4> QED
        BY <3>1, <4>2
    <3> QED
      BY <2>2, <2>4, <3>1, <3>2, <3>3, <3>4 DEF NoDay
  <2>5. CASE w = 6
    <3>1. \A d \in 1 .. 4 : Left(d) <= 0
      <4>1. 1 .. 4 \subseteq A \cap (1 .. 4)
        BY <1>2, <2>5
      <4> HIDE DEF A
      <4> QED
        BY <2>1, <4>1
    <3>2. Left(1) = 0 /\ Left(2) = 0 /\ Left(3) = 0 /\ Left(4) = 0
      BY <1>3, <3>1
    <3> QED
      BY <3>2
  <2> QED
    BY <2>3, <2>4, <2>5
<1> QED
  BY <1>12, <1>13

\* The places a plan takes on a day.
Takes(S, d) == IF d \in S THEN 1 ELSE 0

\* Whoever takes the two days keeps the balance, also when the day of the weekend
\* is moved to day 0.
LEMMA BalanceKept ==
  ASSUME NEW q1, NEW q2, NEW q3, NEW q4, NEW r0, NEW r5, NEW r6,
         Balanced(q1, q2, q3, q4, r0, r5, r6),
         NEW w \in {0, 5, 6}, NEW m \in 1 .. 4, NEW S,
         S = {w, m} \/ (w # 0 /\ S = {0, m}),
         w = 0 => /\ r0 >= r5 /\ r0 >= r6 /\ r0 > 0
                  /\ m = 1 => q1 > 0 /\ q2 = 0 /\ q3 = 0 /\ q4 = 0
                  /\ m = 2 => q2 > 0 /\ q2 >= q3 /\ q2 >= q4
                  /\ m = 3 => q3 > 0 /\ q3 >= q2 /\ q3 >= q4
                  /\ m = 4 => q4 > 0 /\ q4 >= q2 /\ q4 >= q3,
         w = 5 => /\ r5 >= r0 /\ r5 >= r6 /\ r5 > 0
                  /\ m = 1 => q1 > 0 /\ q1 >= q2 /\ q1 >= q3
                  /\ m = 2 => q2 > 0 /\ q2 >= q1 /\ q2 >= q3
                  /\ m = 3 => q3 > 0 /\ q3 >= q1 /\ q3 >= q2
                  /\ m = 4 => q4 > 0 /\ q1 = 0 /\ q2 = 0 /\ q3 = 0,
         w = 6 => /\ r6 >= r0 /\ r6 >= r5 /\ r6 > 0
                  /\ m = 1 => q1 > 0 /\ q1 >= q2 /\ q1 >= q3 /\ q1 >= q4
                  /\ m = 2 => q2 > 0 /\ q2 >= q1 /\ q2 >= q3 /\ q2 >= q4
                  /\ m = 3 => q3 > 0 /\ q3 >= q1 /\ q3 >= q2 /\ q3 >= q4
                  /\ m = 4 => q4 > 0 /\ q4 >= q1 /\ q4 >= q2 /\ q4 >= q3
  PROVE  Balanced(q1 - Takes(S, 1), q2 - Takes(S, 2), q3 - Takes(S, 3), q4 - Takes(S, 4),
                  r0 - Takes(S, 0), r5 - Takes(S, 5), r6 - Takes(S, 6))
<1>1. /\ q1 - 0 = q1 /\ q2 - 0 = q2 /\ q3 - 0 = q3 /\ q4 - 0 = q4
      /\ r0 - 0 = r0 /\ r5 - 0 = r5 /\ r6 - 0 = r6
  BY DEF Balanced
<1>2. m = 1 \/ m = 2 \/ m = 3 \/ m = 4
  OBVIOUS
<1>3. CASE w = 0
  <2>1. /\ Takes(S, 0) = 1 /\ Takes(S, 5) = 0 /\ Takes(S, 6) = 0
        /\ \A d \in 1 .. 4 : Takes(S, d) = IF d = m THEN 1 ELSE 0
    BY <1>3 DEF Takes
  <2>2. CASE m = 1
    BY <1>1, <1>3, <2>1, <2>2, Balance0and1
  <2>3. CASE m = 2
    BY <1>1, <1>3, <2>1, <2>3, Balance0and2
  <2>4. CASE m = 3
    BY <1>1, <1>3, <2>1, <2>4, Balance0and3
  <2>5. CASE m = 4
    BY <1>1, <1>3, <2>1, <2>5, Balance0and4
  <2> QED
    BY <1>2, <2>2, <2>3, <2>4, <2>5
<1>4. CASE w = 5
  <2>1. /\ \/ Takes(S, 0) = 0 /\ Takes(S, 5) = 1
           \/ Takes(S, 0) = 1 /\ Takes(S, 5) = 0
        /\ Takes(S, 6) = 0
        /\ \A d \in 1 .. 4 : Takes(S, d) = IF d = m THEN 1 ELSE 0
    BY <1>4 DEF Takes
  <2>2. CASE m = 1
    BY <1>1, <1>4, <2>1, <2>2, Balance5and1
  <2>3. CASE m = 2
    BY <1>1, <1>4, <2>1, <2>3, Balance5and2
  <2>4. CASE m = 3
    BY <1>1, <1>4, <2>1, <2>4, Balance5and3
  <2>5. CASE m = 4
    BY <1>1, <1>4, <2>1, <2>5, Balance5and4
  <2> QED
    BY <1>2, <2>2, <2>3, <2>4, <2>5
<1>5. CASE w = 6
  <2>1. /\ \/ Takes(S, 0) = 0 /\ Takes(S, 6) = 1
           \/ Takes(S, 0) = 1 /\ Takes(S, 6) = 0
        /\ Takes(S, 5) = 0
        /\ \A d \in 1 .. 4 : Takes(S, d) = IF d = m THEN 1 ELSE 0
    BY <1>5 DEF Takes
  <2>2. CASE m = 1
    BY <1>1, <1>5, <2>1, <2>2, Balance6and1
  <2>3. CASE m = 2
    BY <1>1, <1>5, <2>1, <2>3, Balance6and2
  <2>4. CASE m = 3
    BY <1>1, <1>5, <2>1, <2>4, Balance6and3
  <2>5. CASE m = 4
    BY <1>1, <1>5, <2>1, <2>5, Balance6and4
  <2> QED
    BY <1>2, <2>2, <2>3, <2>4, <2>5
<1> QED
  BY <1>3, <1>4, <1>5

LEMMA SomebodyWaits ==
  ASSUME TypeOK, NEW e \in Employees \ Settled
  PROVE  Cardinality(Employees \ Settled) \in Nat /\ Cardinality(Employees \ Settled) > 0
<1>1. IsFiniteSet(Employees \ Settled)
  BY StaffFacts, FS_Subset
<1>2. Cardinality(Employees \ Settled) \in Nat /\ Cardinality(Employees \ Settled) # 0
  BY <1>1, FS_CardinalityType, FS_EmptySet
<1> QED
  BY <1>2

\* The first of two days off is given.
LEMMA FirstOfTwo ==
  ASSUME TypeOK, DaysGiven, PairsLeft, perWeek = 2,
         NEW i \in DOMAIN team.staff, AssignOffDay(i), off[team.staff[i]] = {}
  PROVE  PairsLeft' /\ phase' = "offs" /\ Settled' = Settled
         /\ \A f \in Settled : off'[f] = off[f]
<1> DEFINE e == team.staff[i]
<1>1. /\ e \in Employees \ Settled
      /\ \A f \in Employees \ Settled : f # e => off[f] = {}
  BY OthersHaveNone DEF PairsLeft
<1>2. \A d \in Days : Remain(d) = Left(d)
  <2>1. \A d \in Days : \A f \in Employees \ Settled : d \notin off[f]
    BY <1>1
  <2> QED
    BY <2>1, RemainIsLeft
<1>3. Left(0) + Left(5) + Left(6) > 0
  <2>1. Left(1) + Left(2) + Left(3) + Left(4) > 0
    BY <1>1, SomebodyWaits DEF PairsLeft
  <2> QED
    BY <2>1 DEF PairsLeft, LeftBalanced, Balanced
<1>4. PICK w \in {0, 5, 6} :
        w = WeekendDay /\ Left(w) > 0 /\ \A v \in {0, 5, 6} : Left(v) <= Left(w)
  BY <1>2, <1>3, WeekendDayFacts
<1>5. /\ team' = team /\ perWeek' = perWeek /\ wk' = wk /\ consec' = consec /\ weekendOff' = weekendOff
      /\ \A j \in Waiting \ {i} : Before(i, j)
  BY DEF AssignOffDay
<1>6. off' = [off EXCEPT ![e] = {w}] /\ phase' = "offs"
  <2>1. off[e] \cup {NextDay(off[e])} = {w}
    BY <1>4 DEF NextDay
  <2>2. Cardinality({w}) = 1
    BY FS_Singleton
  <2>3. ~(Cardinality({w}) >= perWeek)
    BY <2>2
  <2> HIDE DEF e
  <2> QED
    BY <2>1, <2>3 DEF AssignOffDay, e
<1>7. off'[e] = {w} /\ \A f \in Employees \ {e} : off'[f] = off[f]
  <2>1. off \in [Employees -> SUBSET Days]
    BY DEF TypeOK
  <2> HIDE DEF e
  <2> QED
    BY <1>1, <1>6, <2>1
<1>8. Cardinality(off'[e]) = 1
  BY <1>7, FS_Singleton
<1>9. Settled' = Settled /\ Employees' = Employees /\ \A d \in Days : Left(d)' = Left(d)
  <2>1. Cardinality(off'[e]) # perWeek
    BY <1>8
  <2> HIDE DEF e
  <2> QED
    BY <1>1, <1>5, <1>7, <2>1, SettledStays
<1>10. /\ Left(0)' = Left(0) /\ Left(1)' = Left(1) /\ Left(2)' = Left(2) /\ Left(3)' = Left(3)
       /\ Left(4)' = Left(4) /\ Left(5)' = Left(5) /\ Left(6)' = Left(6)
  BY <1>9 DEF Days
<1>11. LeftBalanced' /\ (ShortRuns' => Left(0)' >= 0)
       /\ Left(1)' + Left(2)' + Left(3)' + Left(4)' = Cardinality(Employees \ Settled)'
  BY <1>5, <1>9, <1>10 DEF PairsLeft, LeftBalanced, ShortRuns
<1>12. WeekendFirst'
  <2> SUFFICES ASSUME NEW k \in DOMAIN team.staff, Cardinality(off'[team.staff[k]]) = 1
               PROVE  /\ \A j \in Waiting' \ {k} : Before(k, j)'
                      /\ \E v \in {0, 5, 6} : /\ off'[team.staff[k]] = {v} /\ Left(v)' > 0
                                              /\ \A u \in {0, 5, 6} : Left(u)' <= Left(v)'
    BY <1>5 DEF WeekendFirst
  <2>1. k = i
    <3> SUFFICES ASSUME k # i PROVE FALSE
      OBVIOUS
    <3>1. team.staff[k] \in Employees \ {e}
      BY StaffFacts
    <3>2. Cardinality(off[team.staff[k]]) = 1
      BY <1>7, <3>1
    <3>3. team.staff[k] \notin Settled
      BY <3>2 DEF Settled
    <3>4. off[team.staff[k]] = {}
      BY <1>1, <3>1, <3>3
    <3> QED
      BY <3>2, <3>4, FS_EmptySet
  <2>2. Waiting' \subseteq Waiting
    <3> SUFFICES ASSUME NEW j \in Waiting' PROVE j \in Waiting
      OBVIOUS
    <3>1. j \in DOMAIN team.staff /\ Cardinality(off'[team.staff[j]]) < 2
      BY <1>5 DEF Waiting
    <3>2. CASE j = i
      BY <3>2 DEF AssignOffDay
    <3>3. CASE j # i
      <4>1. off'[team.staff[j]] = off[team.staff[j]]
        BY <1>7, <3>1, <3>3, StaffFacts
      <4> QED
        BY <3>1, <4>1 DEF Waiting
    <3> QED
      BY <3>2, <3>3
  <2>3. \A j \in Waiting' \ {i} : Before(i, j)'
    BY <1>5, <2>2 DEF Before
  <2>4. Left(w)' > 0 /\ \A u \in {0, 5, 6} : Left(u)' <= Left(w)'
    <3>1. \A u \in {0, 5, 6} : Left(u)' = Left(u)
      BY <1>10
    <3> QED
      BY <1>4, <3>1
  <2> QED
    BY <1>4, <1>7, <2>1, <2>3, <2>4
<1>13. \A f \in Settled : off'[f] = off[f]
  BY <1>1, <1>7 DEF Settled
<1> QED
  BY <1>6, <1>9, <1>11, <1>12, <1>13 DEF PairsLeft

\* The second one is given; the one at the weekend may be moved.
LEMMA SecondOfTwo ==
  ASSUME TypeOK, DaysGiven, PairsLeft, perWeek = 2,
         NEW i \in DOMAIN team.staff, AssignOffDay(i), off[team.staff[i]] # {}
  PROVE  /\ PairsLeft' /\ Settled' = Settled \cup {team.staff[i]}
         /\ \A f \in Settled : off'[f] = off[f]
         /\ Cardinality(off'[team.staff[i]] \cap {5, 6, 0}) = 1
<1>0. PICK e \in Employees : e = team.staff[i]
  BY StaffFacts
<1>1. /\ e \in Employees \ Settled
      /\ \A f \in Employees \ Settled : f # e => off[f] = {}
  BY <1>0, OthersHaveNone DEF PairsLeft
<1>2. off[e] \in SUBSET Days /\ consec[e] \in 0 .. Max_Consecutive
  BY DEF TypeOK
<1>3. Cardinality(off[e]) = 1
  <2>1. Cardinality(off[e]) < 2 /\ Cardinality(off[e]) \in Nat /\ IsFiniteSet(off[e])
    BY <1>0, <1>2, DaysFinite DEF AssignOffDay, Waiting
  <2>2. Cardinality(off[e]) # 0
    BY <1>0, <2>1, FS_EmptySet
  <2> QED
    BY <2>1, <2>2
<1>4. PICK w \in {0, 5, 6} : off[e] = {w} /\ Left(w) > 0 /\ \A v \in {0, 5, 6} : Left(v) <= Left(w)
  BY <1>0, <1>3 DEF PairsLeft, WeekendFirst
<1>5. \A d \in Days \ {w} : Remain(d) = Left(d)
  <2>1. \A d \in Days \ {w} : \A f \in Employees \ Settled : d \notin off[f]
    BY <1>1, <1>4
  <2> QED
    BY <2>1, RemainIsLeft
<1>6. Left(1) + Left(2) + Left(3) + Left(4) > 0
  BY <1>1, SomebodyWaits DEF PairsLeft
<1>7. PICK m \in 1 .. 4 :
        /\ m = MidweekDay({w}) /\ Left(m) > 0
        /\ \/ m \in Away({w}) /\ \A d \in Away({w}) \cap (1 .. 4) : Left(d) <= Left(m)
           \/ w = 0 /\ m = 1 /\ Left(2) = 0 /\ Left(3) = 0 /\ Left(4) = 0
           \/ w = 5 /\ m = 4 /\ Left(1) = 0 /\ Left(2) = 0 /\ Left(3) = 0
  BY <1>4, <1>5, <1>6, MidweekDayFacts DEF PairsLeft
<1>8. /\ team' = team /\ perWeek' = perWeek /\ wk' = wk /\ consec' = consec /\ weekendOff' = weekendOff
  BY DEF AssignOffDay
<1> DEFINE taken == {w, m}
<1>9. NextDay(off[e]) = m /\ off[e] \cup {m} = taken /\ Cardinality(taken) = 2
  <2>1. NextDay(off[e]) = m /\ off[e] \cup {m} = taken
    BY <1>4, <1>7 DEF NextDay
  <2>2. Cardinality(off[e] \cup {NextDay(off[e])}) = Cardinality(off[e]) + 1
    BY <1>2, <1>3, NextDayIsNew
  <2> QED
    BY <1>3, <2>1, <2>2
<1>10. off' = [off EXCEPT ![e] = EarlyOff(taken, consec[e])]
  <2> HIDE DEF taken
  <2>1. off' = [off EXCEPT ![e] =
                   IF Cardinality(off[e] \cup {NextDay(off[e])}) >= perWeek
                   THEN EarlyOff(off[e] \cup {NextDay(off[e])}, consec[e])
                   ELSE off[e] \cup {NextDay(off[e])}]
    BY <1>0 DEF AssignOffDay
  <2>2. off[e] \cup {NextDay(off[e])} = taken /\ Cardinality(taken) >= perWeek
    BY <1>9
  <2> QED
    BY <2>1, <2>2
<1>11. PICK S \in SUBSET Days :
         /\ S = EarlyOff(taken, consec[e]) /\ Cardinality(S) = 2
         /\ S = taken \/ (consec[e] > 3 /\ w # 0 /\ S = {0, m})
  <2>1. taken \in SUBSET Days /\ taken # {}
    BY DEF Days
  <2>2. /\ EarlyOff(taken, consec[e]) \in SUBSET Days
        /\ Cardinality(EarlyOff(taken, consec[e])) = Cardinality(taken)
        /\ \/ EarlyOff(taken, consec[e]) = taken
           \/ /\ consec[e] > 3 /\ 0 \notin taken
              /\ EarlyOff(taken, consec[e]) = (taken \ {Max(taken)}) \cup {0}
    <3> HIDE DEF taken
    <3> QED
      BY <1>2, <2>1, EarlyOffFacts
  <2>3. ASSUME 0 \notin taken PROVE (taken \ {Max(taken)}) \cup {0} = {0, m}
    <3>1. Max(taken) \in taken /\ \A d \in taken : d <= Max(taken)
      <4> HIDE DEF taken
      <4> QED
        BY <2>1, DayMinMax
    <3>2. Max(taken) = w
      BY <2>3, <3>1
    <3> QED
      BY <2>3, <3>2
  <2>4. 0 \notin taken => w # 0
    OBVIOUS
  <2> HIDE DEF taken
  <2> QED
    BY <1>9, <2>2, <2>3, <2>4
<1>12. off'[e] = S /\ \A f \in Employees \ {e} : off'[f] = off[f]
  <2>1. off \in [Employees -> SUBSET Days]
    BY DEF TypeOK
  <2> HIDE DEF taken
  <2> QED
    BY <1>10, <1>11, <2>1
<1>13. /\ Settled' = Settled \cup {e} /\ Employees' = Employees
       /\ \A d \in Days : Left(d)' = Left(d) - Takes(S, d)
       /\ Cardinality(Employees \ Settled)' = Cardinality(Employees \ Settled) - 1
  <2>1. Cardinality(off'[e]) = perWeek
    BY <1>11, <1>12
  <2>2. /\ Settled' = Settled \cup {e} /\ Employees' = Employees
        /\ \A d \in Days : Left(d)' = Left(d) - (IF d \in off'[e] THEN 1 ELSE 0)
        /\ Cardinality(Employees \ Settled)' = Cardinality(Employees \ Settled) - 1
    BY <1>1, <1>8, <1>12, <2>1, SettledGrows
  <2> QED
    BY <1>12, <2>2 DEF Takes
<1>14. /\ Left(0)' = Left(0) - Takes(S, 0) /\ Left(1)' = Left(1) - Takes(S, 1)
       /\ Left(2)' = Left(2) - Takes(S, 2) /\ Left(3)' = Left(3) - Takes(S, 3)
       /\ Left(4)' = Left(4) - Takes(S, 4) /\ Left(5)' = Left(5) - Takes(S, 5)
       /\ Left(6)' = Left(6) - Takes(S, 6)
  BY <1>13 DEF Days
<1>15. LeftBalanced'
  <2> DEFINE q1 == Left(1)  q2 == Left(2)  q3 == Left(3)  q4 == Left(4)
             r0 == Left(0)  r5 == Left(5)  r6 == Left(6)
  <2>1. Balanced(q1, q2, q3, q4, r0, r5, r6)
    BY DEF PairsLeft, LeftBalanced
  <2>2. /\ q1 \in Nat /\ q2 \in Nat /\ q3 \in Nat /\ q4 \in Nat
        /\ r0 \in Int /\ r5 \in Nat /\ r6 \in Nat
    BY <2>1 DEF Balanced
  <2>3. /\ w = 0 => Away({w}) \cap (1 .. 4) = {2, 3, 4}
        /\ w = 5 => Away({w}) \cap (1 .. 4) = {1, 2, 3}
        /\ w = 6 => Away({w}) \cap (1 .. 4) = {1, 2, 3, 4}
    BY DEF Away, Free, Days
  <2>4. /\ m = 1 => Left(m) = q1
        /\ m = 2 => Left(m) = q2
        /\ m = 3 => Left(m) = q3
        /\ m = 4 => Left(m) = q4
        /\ w = 0 => Left(w) = r0
        /\ w = 5 => Left(w) = r5
        /\ w = 6 => Left(w) = r6
    OBVIOUS
  <2>5. /\ r0 <= Left(w) /\ r5 <= Left(w) /\ r6 <= Left(w)
    BY <1>4
  <2>6. w = 0 => /\ r0 >= r5 /\ r0 >= r6 /\ r0 > 0
                 /\ m = 1 => q1 > 0 /\ q2 = 0 /\ q3 = 0 /\ q4 = 0
                 /\ m = 2 => q2 > 0 /\ q2 >= q3 /\ q2 >= q4
                 /\ m = 3 => q3 > 0 /\ q3 >= q2 /\ q3 >= q4
                 /\ m = 4 => q4 > 0 /\ q4 >= q2 /\ q4 >= q3
    <3> SUFFICES ASSUME w = 0 PROVE
                 /\ r0 >= r5 /\ r0 >= r6 /\ r0 > 0
                 /\ m = 1 => q1 > 0 /\ q2 = 0 /\ q3 = 0 /\ q4 = 0
                 /\ m = 2 => q2 > 0 /\ q2 >= q3 /\ q2 >= q4
                 /\ m = 3 => q3 > 0 /\ q3 >= q2 /\ q3 >= q4
                 /\ m = 4 => q4 > 0 /\ q4 >= q2 /\ q4 >= q3
      OBVIOUS
    <3>1. r0 >= r5 /\ r0 >= r6 /\ r0 > 0
      BY <1>4, <2>2, <2>4, <2>5
    <3>2. \/ m \in {2, 3, 4} /\ q2 <= Left(m) /\ q3 <= Left(m) /\ q4 <= Left(m)
          \/ m = 1 /\ q2 = 0 /\ q3 = 0 /\ q4 = 0
      BY <1>7, <2>3
    <3> HIDE DEF q1, q2, q3, q4, r0, r5, r6
    <3> QED
      BY <1>7, <2>2, <2>4, <3>1, <3>2
  <2>7. w = 5 => /\ r5 >= r0 /\ r5 >= r6 /\ r5 > 0
                 /\ m = 1 => q1 > 0 /\ q1 >= q2 /\ q1 >= q3
                 /\ m = 2 => q2 > 0 /\ q2 >= q1 /\ q2 >= q3
                 /\ m = 3 => q3 > 0 /\ q3 >= q1 /\ q3 >= q2
                 /\ m = 4 => q4 > 0 /\ q1 = 0 /\ q2 = 0 /\ q3 = 0
    <3> SUFFICES ASSUME w = 5 PROVE
                 /\ r5 >= r0 /\ r5 >= r6 /\ r5 > 0
                 /\ m = 1 => q1 > 0 /\ q1 >= q2 /\ q1 >= q3
                 /\ m = 2 => q2 > 0 /\ q2 >= q1 /\ q2 >= q3
                 /\ m = 3 => q3 > 0 /\ q3 >= q1 /\ q3 >= q2
                 /\ m = 4 => q4 > 0 /\ q1 = 0 /\ q2 = 0 /\ q3 = 0
      OBVIOUS
    <3>1. r5 >= r0 /\ r5 >= r6 /\ r5 > 0
      BY <1>4, <2>2, <2>4, <2>5
    <3>2. \/ m \in {1, 2, 3} /\ q1 <= Left(m) /\ q2 <= Left(m) /\ q3 <= Left(m)
          \/ m = 4 /\ q1 = 0 /\ q2 = 0 /\ q3 = 0
      BY <1>7, <2>3
    <3> HIDE DEF q1, q2, q3, q4, r0, r5, r6
    <3> QED
      BY <1>7, <2>2, <2>4, <3>1, <3>2
  <2>8. w = 6 => /\ r6 >= r0 /\ r6 >= r5 /\ r6 > 0
                 /\ m = 1 => q1 > 0 /\ q1 >= q2 /\ q1 >= q3 /\ q1 >= q4
                 /\ m = 2 => q2 > 0 /\ q2 >= q1 /\ q2 >= q3 /\ q2 >= q4
                 /\ m = 3 => q3 > 0 /\ q3 >= q1 /\ q3 >= q2 /\ q3 >= q4
                 /\ m = 4 => q4 > 0 /\ q4 >= q1 /\ q4 >= q2 /\ q4 >= q3
    <3> SUFFICES ASSUME w = 6 PROVE
                 /\ r6 >= r0 /\ r6 >= r5 /\ r6 > 0
                 /\ m = 1 => q1 > 0 /\ q1 >= q2 /\ q1 >= q3 /\ q1 >= q4
                 /\ m = 2 => q2 > 0 /\ q2 >= q1 /\ q2 >= q3 /\ q2 >= q4
                 /\ m = 3 => q3 > 0 /\ q3 >= q1 /\ q3 >= q2 /\ q3 >= q4
                 /\ m = 4 => q4 > 0 /\ q4 >= q1 /\ q4 >= q2 /\ q4 >= q3
      OBVIOUS
    <3>1. r6 >= r0 /\ r6 >= r5 /\ r6 > 0
      BY <1>4, <2>2, <2>4, <2>5
    <3>2. q1 <= Left(m) /\ q2 <= Left(m) /\ q3 <= Left(m) /\ q4 <= Left(m)
      BY <1>7, <2>3
    <3> HIDE DEF q1, q2, q3, q4, r0, r5, r6
    <3> QED
      BY <1>7, <2>2, <2>4, <3>1, <3>2
  <2>9. S = {w, m} \/ (w # 0 /\ S = {0, m})
    BY <1>11
  <2> HIDE DEF q1, q2, q3, q4, r0, r5, r6
  <2>10. Balanced(q1 - Takes(S, 1), q2 - Takes(S, 2), q3 - Takes(S, 3), q4 - Takes(S, 4),
                  r0 - Takes(S, 0), r5 - Takes(S, 5), r6 - Takes(S, 6))
    BY <2>1, <2>6, <2>7, <2>8, <2>9, BalanceKept
  <2> QED
    BY <1>14, <2>10 DEF LeftBalanced, q1, q2, q3, q4, r0, r5, r6
<1>16. Left(1)' + Left(2)' + Left(3)' + Left(4)' = Cardinality(Employees \ Settled)'
  <2>1. /\ Takes(S, 1) = (IF m = 1 THEN 1 ELSE 0) /\ Takes(S, 2) = (IF m = 2 THEN 1 ELSE 0)
        /\ Takes(S, 3) = (IF m = 3 THEN 1 ELSE 0) /\ Takes(S, 4) = (IF m = 4 THEN 1 ELSE 0)
    BY <1>11 DEF Takes
  <2>2. Left(1) \in Nat /\ Left(2) \in Nat /\ Left(3) \in Nat /\ Left(4) \in Nat
    BY DEF PairsLeft, LeftBalanced, Balanced
  <2>3. m = 1 \/ m = 2 \/ m = 3 \/ m = 4
    OBVIOUS
  <2>4. Left(1) + Left(2) + Left(3) + Left(4) = Cardinality(Employees \ Settled)
    BY DEF PairsLeft
  <2> QED
    BY <1>13, <1>14, <2>1, <2>2, <2>3, <2>4
<1>17. ShortRuns' => Left(0)' >= 0
  <2> SUFFICES ASSUME ShortRuns' PROVE Left(0)' >= 0
    OBVIOUS
  <2>1. ShortRuns /\ consec[e] <= 3
    BY <1>8, <1>13 DEF ShortRuns
  <2>2. S = {w, m}
    BY <1>2, <1>11, <2>1 DEF Max_Consecutive
  <2>3. Left(0) >= 0 /\ Left(0) \in Int
    BY <2>1 DEF PairsLeft, LeftBalanced, Balanced
  <2>4. CASE w = 0
    BY <1>4, <1>14, <2>2, <2>3, <2>4 DEF Takes
  <2>5. CASE w # 0
    BY <1>14, <2>2, <2>3, <2>5 DEF Takes
  <2> QED
    BY <2>4, <2>5
<1>18. WeekendFirst'
  <2>1. \A k \in DOMAIN team.staff : Cardinality(off'[team.staff[k]]) # 1
    <3> SUFFICES ASSUME NEW k \in DOMAIN team.staff PROVE Cardinality(off'[team.staff[k]]) # 1
      OBVIOUS
    <3> DEFINE f == team.staff[k]
    <3>1. f \in Employees
      BY StaffFacts
    <3>2. CASE f = e
      BY <1>11, <1>12, <3>2
    <3>3. CASE f # e /\ f \in Settled
      BY <1>12, <3>1, <3>3 DEF Settled
    <3>4. CASE f # e /\ f \notin Settled
      <4>1. off'[f] = {}
        BY <1>1, <1>12, <3>1, <3>4
      <4> QED
        BY <4>1, FS_EmptySet
    <3> QED
      BY <3>1, <3>2, <3>3, <3>4
  <2> QED
    BY <1>8, <2>1 DEF WeekendFirst
<1>19. Cardinality(off'[e] \cap {5, 6, 0}) = 1
  <2>1. off'[e] \cap {5, 6, 0} = {w} \/ off'[e] \cap {5, 6, 0} = {0}
    BY <1>11, <1>12
  <2> QED
    BY <2>1, FS_Singleton
<1>20. \A f \in Settled : off'[f] = off[f]
  BY <1>1, <1>12 DEF Settled
<1> QED
  BY <1>0, <1>13, <1>15, <1>16, <1>17, <1>18, <1>19, <1>20 DEF PairsLeft

\* The only day off is given.
LEMMA OnlyOne ==
  ASSUME TypeOK, DaysGiven, SinglesLeft, perWeek = 1,
         NEW i \in DOMAIN team.staff, AssignOffDay(i)
  PROVE  SinglesLeft'
<1>0. PICK e \in Employees : e = team.staff[i]
  BY StaffFacts
<1>1. /\ e \in Employees \ Settled
      /\ \A f \in Employees \ Settled : off[f] = {}
  <2>1. e \in Employees \ Settled /\ \A f \in Employees \ Settled : f # e => off[f] = {}
    BY <1>0, OthersHaveNone
  <2>2. off[e] \in SUBSET Days /\ Cardinality(off[e]) < 1
    BY <1>0 DEF TypeOK, AssignOffDay, Waiting
  <2>3. IsFiniteSet(off[e]) /\ Cardinality(off[e]) = 0
    BY <2>2, DaysFinite
  <2>4. off[e] = {}
    BY <2>3, FS_EmptySet
  <2> QED
    BY <2>1, <2>4
<1>2. \A d \in Days : Remain(d) = Left(d)
  <2>1. \A d \in Days : \A f \in Employees \ Settled : d \notin off[f]
    BY <1>1
  <2> QED
    BY <2>1, RemainIsLeft
<1>3. /\ Left(0) \in Int /\ Left(1) \in Int /\ Left(2) \in Int /\ Left(3) \in Int
      /\ Left(4) \in Int /\ Left(5) \in Int /\ Left(6) \in Int
  BY LeftIsInt DEF Days
<1>4. \E d \in Days : Left(d) > 0
  <2>1. Left(0) + Left(1) + Left(2) + Left(3) + Left(4) + Left(5) + Left(6) > 0
    BY <1>1, SomebodyWaits DEF SinglesLeft
  <2> QED
    BY <1>3, <2>1 DEF Days
<1>5. PICK d \in Days : d = OnlyDay /\ Left(d) > 0
  BY <1>2, <1>4, OnlyDayFacts
<1>6. /\ team' = team /\ perWeek' = perWeek /\ wk' = wk /\ consec' = consec
  BY DEF AssignOffDay
<1>7. consec[e] \in 0 .. Max_Consecutive
  BY DEF TypeOK
<1>8. Cardinality({d}) = 1
  BY FS_Singleton
<1>9. off' = [off EXCEPT ![e] = EarlyOff({d}, consec[e])]
  <2>1. off' = [off EXCEPT ![e] =
                   IF Cardinality(off[e] \cup {NextDay(off[e])}) >= perWeek
                   THEN EarlyOff(off[e] \cup {NextDay(off[e])}, consec[e])
                   ELSE off[e] \cup {NextDay(off[e])}]
    BY <1>0 DEF AssignOffDay
  <2>2. off[e] \cup {NextDay(off[e])} = {d} /\ Cardinality({d}) >= perWeek
    BY <1>1, <1>5, <1>8 DEF NextDay
  <2> QED
    BY <2>1, <2>2
<1>10. PICK x \in Days : /\ EarlyOff({d}, consec[e]) = {x}
                         /\ x = d \/ consec[e] > 3
  <2>1. {d} \in SUBSET Days /\ {d} # {}
    OBVIOUS
  <2>2. \/ EarlyOff({d}, consec[e]) = {d}
        \/ /\ consec[e] > 3 /\ 0 \notin {d}
           /\ EarlyOff({d}, consec[e]) = ({d} \ {Max({d})}) \cup {0}
    BY <1>7, <2>1, EarlyOffFacts
  <2>3. Max({d}) = d
    BY <2>1, DayMinMax
  <2>4. 0 \in Days
    BY DEF Days
  <2> QED
    BY <2>2, <2>3, <2>4
<1>11. off'[e] = {x} /\ \A f \in Employees \ {e} : off'[f] = off[f]
  <2>1. off \in [Employees -> SUBSET Days]
    BY DEF TypeOK
  <2> QED
    BY <1>9, <1>10, <2>1
<1>12. /\ Employees' = Employees
       /\ \A k \in Days : Left(k)' = Left(k) - (IF k = x THEN 1 ELSE 0)
       /\ Cardinality(Employees \ Settled)' = Cardinality(Employees \ Settled) - 1
       /\ Cardinality(Employees \ Settled) \in Nat
  <2>1. Cardinality(off'[e]) = perWeek
    BY <1>11, FS_Singleton
  <2>2. /\ Employees' = Employees
        /\ \A k \in Days : Left(k)' = Left(k) - (IF k \in off'[e] THEN 1 ELSE 0)
        /\ Cardinality(Employees \ Settled)' = Cardinality(Employees \ Settled) - 1
        /\ Cardinality(Employees \ Settled) \in Nat
    BY <1>1, <1>6, <1>11, <2>1, SettledGrows
  <2>3. \A k \in Days : (k \in off'[e]) = (k = x)
    BY <1>11
  <2> QED
    BY <2>2, <2>3
<1>13. /\ Left(0)' = Left(0) - (IF x = 0 THEN 1 ELSE 0) /\ Left(1)' = Left(1) - (IF x = 1 THEN 1 ELSE 0)
       /\ Left(2)' = Left(2) - (IF x = 2 THEN 1 ELSE 0) /\ Left(3)' = Left(3) - (IF x = 3 THEN 1 ELSE 0)
       /\ Left(4)' = Left(4) - (IF x = 4 THEN 1 ELSE 0) /\ Left(5)' = Left(5) - (IF x = 5 THEN 1 ELSE 0)
       /\ Left(6)' = Left(6) - (IF x = 6 THEN 1 ELSE 0)
  BY <1>12 DEF Days
<1>14. Left(0)' + Left(1)' + Left(2)' + Left(3)' + Left(4)' + Left(5)' + Left(6)'
         = Cardinality(Employees \ Settled)'
  <2>1. Left(0) + Left(1) + Left(2) + Left(3) + Left(4) + Left(5) + Left(6) = Cardinality(Employees \ Settled)
    BY DEF SinglesLeft
  <2>2. x \in 0 .. 6
    BY DEF Days
  <2> QED
    BY <1>3, <1>12, <1>13, <2>1, <2>2
<1>15. ShortRuns' => \A k \in Days : Left(k)' >= 0
  <2> SUFFICES ASSUME ShortRuns', NEW k \in Days PROVE Left(k)' >= 0
    OBVIOUS
  <2>1. ShortRuns /\ consec[e] <= 3
    BY <1>6, <1>12 DEF ShortRuns
  <2>2. x = d
    BY <1>7, <1>10, <2>1 DEF Max_Consecutive
  <2>3. Left(k) >= 0 /\ Left(k) \in Int
    BY <2>1, LeftIsInt DEF SinglesLeft
  <2>4. Left(k)' = Left(k) - (IF k = x THEN 1 ELSE 0)
    BY <1>12
  <2>5. k = x => Left(k) > 0
    BY <1>5, <2>2
  <2> QED
    BY <2>3, <2>4, <2>5
<1> QED
  BY <1>14, <1>15 DEF SinglesLeft

-----------------------------------------------------------------------------
(* How the days off lie in the week.                                        *)

NothingOverdrawn == phase = "fill" /\ \A d \in Days : Left(d) >= 0

\* Where all have their days off and nothing is overdrawn, they are spread.
LEMMA SpreadWhenLeft == TypeOK /\ DaysGiven /\ NothingOverdrawn => SpreadEvenly
<1> SUFFICES ASSUME TypeOK, DaysGiven, phase = "fill", \A d \in Days : Left(d) >= 0,
                    NEW d \in Days
             PROVE  Cardinality({e \in Employees : d \in off[e]}) <= Capacity[d]
  BY DEF SpreadEvenly, NothingOverdrawn
<1>1. Settled = Employees
  BY DEF Settled, DaysGiven
<1>2. Left(d) = Capacity[d] - Cardinality({e \in Employees : d \in off[e]})
  BY <1>1 DEF Left
<1>3. IsFiniteSet({e \in Employees : d \in off[e]})
  BY StaffFacts, FS_Subset
<1>4. Cardinality({e \in Employees : d \in off[e]}) \in Nat /\ Capacity[d] \in Nat
  BY <1>3, FS_CardinalityType, CapacityIsNat
<1>5. Left(d) >= 0
  OBVIOUS
<1> QED
  BY <1>2, <1>4, <1>5

PlanInv == PairsGiven /\ SinglesGiven /\ OneAtWeekend

LEMMA PlanAtStart == TypeOK /\ NothingGiven => PlanInv
  BY PairsAtStart, SinglesAtStart DEF PlanInv

LEMMA PlanStarts ==
  ASSUME TypeOK', Employees' = Employees, off' = [e \in Employees |-> {}]
  PROVE  PlanInv'
<1>1. NothingGiven'
  BY DEF NothingGiven
<1> QED
  BY <1>1, PlanAtStart, PTL

LEMMA PlanNext ==
  TypeOK /\ DaysGiven /\ OnTime /\ PlanInv /\ TypeOK' /\ [Next]_vars => PlanInv'
<1> SUFFICES ASSUME TypeOK, DaysGiven, OnTime, PlanInv, TypeOK', [Next]_vars PROVE PlanInv'
  OBVIOUS
<1>0. team' = team /\ perWeek' = perWeek /\ Employees' = Employees /\ perWeek \in 1 .. 7
  BY StaffFacts DEF Next, vars, Generate, AssignOffDay, DayOff, WorkDay, NextWeek, Publish, Employees
<1>1. ASSUME off' = off, phase' = phase \/ phase' = "idle", phase = "offs" => phase' # "offs" PROVE PlanInv'
  <2>1. Settled' = Settled
    BY <1>0, <1>1 DEF Settled
  <2>2. phase' # "offs" /\ (phase' = "fill" => phase = "fill")
    BY <1>1
  <2>3. OneAtWeekend'
    BY <1>0, <1>1, <2>1, <2>2 DEF OneAtWeekend, PlanInv
  <2> QED
    BY <2>2, <2>3 DEF PlanInv, PairsGiven, SinglesGiven
<1>2. ASSUME NEW i \in DOMAIN team.staff, AssignOffDay(i), perWeek = 1 PROVE PlanInv'
  <2>1. SinglesLeft
    BY <1>2 DEF PlanInv, SinglesGiven, AssignOffDay
  <2>2. SinglesLeft'
    BY <1>2, <2>1, OnlyOne
  <2>3. perWeek' = 1
    BY <1>0, <1>2
  <2> QED
    BY <2>2, <2>3 DEF PlanInv, PairsGiven, SinglesGiven, OneAtWeekend
<1>3. ASSUME NEW i \in DOMAIN team.staff, AssignOffDay(i), perWeek = 2 PROVE PlanInv'
  <2>1. PairsLeft /\ phase = "offs" /\ perWeek' = 2
    BY <1>0, <1>3 DEF PlanInv, PairsGiven, AssignOffDay
  <2>2. /\ PairsLeft'
        /\ \A f \in Settled' : Cardinality(off'[f] \cap {5, 6, 0}) = 1
    <3>1. \A f \in Settled : Cardinality(off[f] \cap {5, 6, 0}) = 1
      BY <1>3, <2>1 DEF PlanInv, OneAtWeekend
    <3>2. CASE off[team.staff[i]] = {}
      <4>1. PairsLeft' /\ Settled' = Settled /\ \A f \in Settled : off'[f] = off[f]
        BY <1>3, <2>1, <3>2, FirstOfTwo
      <4> QED
        BY <3>1, <4>1
    <3>3. CASE off[team.staff[i]] # {}
      <4>1. /\ PairsLeft' /\ Settled' = Settled \cup {team.staff[i]}
            /\ \A f \in Settled : off'[f] = off[f]
            /\ Cardinality(off'[team.staff[i]] \cap {5, 6, 0}) = 1
        BY <1>3, <2>1, <3>3, SecondOfTwo
      <4> QED
        BY <3>1, <4>1
    <3> QED
      BY <3>2, <3>3
  <2> QED
    BY <2>1, <2>2 DEF PlanInv, PairsGiven, SinglesGiven, OneAtWeekend
<1>4. ASSUME perWeek \notin {1, 2} PROVE PlanInv'
  BY <1>0, <1>4 DEF PlanInv, PairsGiven, SinglesGiven, OneAtWeekend
<1>5. CASE DayOff
  <2>1. off' = off /\ phase' = phase /\ phase = "fill"
    BY <1>5, DayOffIsPlanned DEF DayOff, Filling
  <2> QED
    BY <1>1, <2>1
<1>6. CASE \E c \in Working : WorkDay(c)
  BY <1>1, <1>6 DEF WorkDay, Filling
<1>7. CASE Publish
  BY <1>1, <1>7 DEF Publish, Planned
<1>8. CASE \E n \in 1 .. MaxPerCall : Generate(n)
  BY <1>0, <1>8, PlanStarts DEF Generate
<1>9. CASE NextWeek
  BY <1>0, <1>9, PlanStarts DEF NextWeek
<1>10. CASE UNCHANGED vars
  <2>1. Settled' = Settled /\ Capacity' = Capacity
    BY <1>10 DEF vars, Settled, Employees, Capacity, SpreadCapacity, Rotate
  <2>2. ASSUME NEW d PROVE Left(d)' = Left(d)
    BY <1>10, <2>1 DEF vars, Left
  <2>3. LeftBalanced' = LeftBalanced
    BY <2>2 DEF LeftBalanced
  <2>4. WeekendFirst' = WeekendFirst
    BY <1>10, <2>2 DEF vars, WeekendFirst, Waiting, Before
  <2>5. ShortRuns' = ShortRuns
    BY <1>0, <1>10 DEF vars, ShortRuns
  <2>6. PairsLeft' = PairsLeft /\ SinglesLeft' = SinglesLeft
    BY <1>0, <2>1, <2>2, <2>3, <2>4, <2>5 DEF PairsLeft, SinglesLeft
  <2>7. OneAtWeekend'
    BY <1>0, <1>10, <2>1 DEF vars, PlanInv, OneAtWeekend
  <2> QED
    BY <1>0, <1>10, <2>6, <2>7 DEF vars, PlanInv, PairsGiven, SinglesGiven
<1>11. CASE \E i \in DOMAIN team.staff : AssignOffDay(i)
  BY <1>2, <1>3, <1>4, <1>11
<1> QED
  BY <1>5, <1>6, <1>7, <1>8, <1>9, <1>10, <1>11 DEF Next

LEMMA PlanInvariance == Spec => []PlanInv
<1>1. Init => PlanInv
  <2>1. Init => phase = "idle"
    BY DEF Init
  <2> QED
    BY <2>1 DEF PlanInv, PairsGiven, SinglesGiven, OneAtWeekend
<1>2. IInv /\ IInv' /\ PlanInv /\ [Next]_vars => PlanInv'
  BY PlanNext DEF IInv
<1> QED
  BY <1>1, <1>2, Invariance, PTL DEF Spec

\* assignOffDays: with two days off a week one is of the weekend and one is not,
\* for any number of employees, any rotation and any history: the days that are
\* full never force somebody into a second day of the weekend, nor into none,
\* and a day that is moved for a long run stays at the weekend.
THEOREM OneWeekendCorrect == Spec => []OneWeekendDay
<1>1. IInv /\ PlanInv => OneWeekendDay
  <2> SUFFICES ASSUME IInv, PlanInv, Planned, perWeek = 2, NEW e \in Employees
               PROVE  Cardinality(off[e] \cap {5, 6, 0}) = 1
    BY DEF OneWeekendDay
  <2>1. e \in Settled
    BY DEF IInv, DaysGiven, Planned, Settled
  <2> QED
    BY <2>1 DEF PlanInv, OneAtWeekend, Planned
<1> QED
  BY <1>1, Invariance, PlanInvariance, PTL

\* "spread evenly" (assignOffDays): as long as nobody comes with a run for which a
\* day off is moved, no day of the week takes away more than its share of a team
\* of any size, with one or two days off a week.
THEOREM SpreadCorrect ==
  ASSUME OffDaysPerWeek \subseteq {1, 2}
  PROVE  Spec => []SpreadEvenly
<1>1. Init => SpreadEvenly
  BY DEF Init, SpreadEvenly
<1>2. IInv /\ IInv' /\ PlanInv /\ PlanInv' /\ SpreadEvenly /\ [Next]_vars => SpreadEvenly'
  <2> SUFFICES ASSUME IInv, IInv', PlanInv, SpreadEvenly, [Next]_vars,
                      phase' = "fill", at' = <<1, 0>>, \A e \in Employees' : consec'[e] <= 3
               PROVE  SpreadEvenly'
    BY DEF SpreadEvenly
  <2>0. TypeOK /\ DaysGiven /\ TypeOK' /\ DaysGiven' /\ perWeek \in {1, 2}
    BY DEF IInv, TypeOK
  <2>1. ASSUME NEW i \in DOMAIN team.staff, AssignOffDay(i) PROVE SpreadEvenly'
    <3>1. ShortRuns' /\ phase = "offs"
      BY <2>1 DEF ShortRuns, AssignOffDay
    <3>2. CASE perWeek = 1
      <4>1. SinglesLeft
        BY <3>1, <3>2 DEF PlanInv, SinglesGiven
      <4>2. SinglesLeft'
        BY <2>0, <2>1, <3>2, <4>1, OnlyOne
      <4>3. \A d \in Days : Left(d)' >= 0
        BY <3>1, <4>2 DEF SinglesLeft
      <4>4. NothingOverdrawn'
        BY <4>3 DEF NothingOverdrawn, Days
      <4> QED
        BY <2>0, <4>4, SpreadWhenLeft, PTL
    <3>3. CASE perWeek = 2
      <4>1. PairsLeft
        BY <3>1, <3>3 DEF PlanInv, PairsGiven
      <4>2. PairsLeft'
        BY <2>0, <2>1, <3>3, <4>1, FirstOfTwo, SecondOfTwo
      <4>3. /\ Left(0)' >= 0 /\ Left(1)' >= 0 /\ Left(2)' >= 0 /\ Left(3)' >= 0
            /\ Left(4)' >= 0 /\ Left(5)' >= 0 /\ Left(6)' >= 0
        BY <3>1, <4>2 DEF PairsLeft, LeftBalanced, Balanced
      <4>4. NothingOverdrawn'
        BY <4>3 DEF NothingOverdrawn, Days
      <4> QED
        BY <2>0, <4>4, SpreadWhenLeft, PTL
    <3> QED
      BY <2>0, <3>2, <3>3
  <2>2. ASSUME Filling, Advance PROVE FALSE
    <3>1. Today \in 0 .. 6 /\ at[1] \in Nat \ {0}
      BY <2>0, <2>2, HereFacts, StaffFacts DEF Days
    <3>2. at'[1] = 1 /\ at'[2] = 0
      OBVIOUS
    <3> QED
      BY <2>2, <3>1, <3>2 DEF Advance
  <2>3. CASE DayOff \/ \E c \in Working : WorkDay(c)
    BY <2>2, <2>3 DEF DayOff, WorkDay
  <2>4. CASE UNCHANGED vars
    <3>1. Employees' = Employees /\ Capacity' = Capacity
      BY <2>4 DEF vars, Employees, Capacity, SpreadCapacity, Rotate
    <3> QED
      BY <2>4, <3>1 DEF vars, SpreadEvenly
  <2>5. CASE \E n \in 1 .. MaxPerCall : Generate(n)
    BY <2>5 DEF Generate
  <2>6. CASE NextWeek \/ Publish
    BY <2>6 DEF NextWeek, Publish
  <2> QED
    BY <2>1, <2>3, <2>4, <2>5, <2>6 DEF Next
<1> QED
  BY <1>1, <1>2, Invariance, PlanInvariance, PTL DEF Spec
=============================================================================
