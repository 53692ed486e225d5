---------------------------- MODULE DemandRoster ----------------------------
(***************************************************************************)
(* The demand-driven roster: assignRoster of                               *)
(* src/backend/src/modules/schedule-generator/demand.engine.ts, on what    *)
(* GeneratorService.generateDemandDriven reads for it (generator.service). *)
(* A shift mix, how many of each shift a day needs, is filled with people, *)
(* day by day and the hardest shift first; slots nobody may take are       *)
(* reported.  The engine is synchronous; it is cut into steps so that TLC  *)
(* can follow each choice.  Of several who may take a slot the code takes  *)
(* the one with the smallest share of that kind; here any of them may be   *)
(* chosen.  The order of the staff, that of a query, is any order too.     *)
(***************************************************************************)
EXTENDS ShiftCatalog, FiniteSets

CONSTANTS
    Staff,          \* the pool
    Female,         \* those with gender = 'female'
    NumDays,        \* days planned (7 in the code)
    Mixes,          \* shift mixes a day may have: shift -> count
    Leaves,         \* approved leaves tried: employee -> days
    OffDaysPerWeek, \* the options
    MinRestHours,
    MaxConsec,      \* opts.maxConsecutive ?? 6
    LastShifts,     \* live shifts before the first day
    Priors          \* days worked in a row before the first day

Days == 1 .. NumDays

\* The shifts of a mix, the hardest to fill first.
HardOrder == <<"MD", "N", "E", "C", "B", "M">>
Ranks == 1 .. 6
Codes == {"MD", "N", "E", "C", "B", "M"}

ASSUME StaffAssumption == IsFiniteSet(Staff)
ASSUME NumberAssumption ==
    /\ NumDays \in Nat /\ OffDaysPerWeek \in Nat /\ MaxConsec \in Nat
    /\ MinRestHours \in Nat /\ MinRestHours <= Unlimited
    /\ Priors \subseteq Nat
\* The run before the plan is counted up to seven.
ASSUME CeilingAssumption == MaxConsec <= 7
ASSUME InputAssumption ==
    /\ Mixes \subseteq [Codes -> Nat]
    /\ Leaves \subseteq [Staff -> SUBSET Days]
    /\ LastShifts \subseteq Working \cup {OFF}

VARIABLES
    mix,        \* mixByDate
    leave,      \* onLeave
    planned,    \* those whose days off are planned
    off,        \* offToday: day -> employees
    day,        \* the day that is filled
    open,       \* leave and days off of that day are entered
    todo,       \* slots of that day still to fill
    assigned,   \* assignedToday
    prev,       \* prevShift
    consec,     \* consecutive days worked
    roster,     \* assignments, and before day 1 what was worked: <<who, day, code>>
    gaps        \* unfilled: day -> shift -> count

vars == <<mix, leave, planned, off, day, open, todo, assigned, prev, consec, roster, gaps>>
-----------------------------------------------------------------------------
NoSlots == [c \in Codes |-> 0]

\* What generateDemandDriven reads.  Whoever worked the days before is known
\* by the last shift, as it is derived from its start, and by the run, which
\* is counted over seven days.
Init ==
    /\ mix \in [Days -> Mixes]
    /\ leave \in Leaves
    /\ planned = {}
    /\ off = [d \in Days |-> {}]
    /\ day = 1
    /\ open = FALSE
    /\ todo = NoSlots
    /\ assigned = {}
    /\ gaps = [d \in Days |-> NoSlots]
    /\ \E last \in [Staff -> LastShifts], run \in [Staff -> Priors] :
        /\ \A e \in Staff : /\ last[e] = OFF <=> run[e] = 0
                            /\ e \in Female => last[e] \notin Blocked
        /\ prev = [e \in Staff |-> DerivedShift(last[e])]
        /\ consec = [e \in Staff |-> IF run[e] > 7 THEN 7 ELSE run[e]]
        /\ roster = UNION {{<<e, d, last[e]>> : d \in (1 - run[e]) .. 0} : e \in Staff}

\* Days off forced on e: whenever one more day would exceed the ceiling.
Forced(e) ==
    LET walk[d \in 0 .. NumDays] ==
            IF d = 0 THEN [c |-> consec[e], days |-> {}]
            ELSE LET w == walk[d - 1] IN
                 IF Cardinality(w.days) >= OffDaysPerWeek THEN w
                 ELSE IF w.c + 1 > MaxConsec THEN [c |-> 0, days |-> w.days \cup {d}]
                      ELSE [w EXCEPT !.c = @ + 1]
    IN  walk[NumDays].days

Demand(d) == mix[d]["MD"] + mix[d]["N"] + mix[d]["E"] + mix[d]["C"] + mix[d]["B"] + mix[d]["M"]

\* lowDemandOrder: by demand, then by date.
Before(x, d) == Demand(x) < Demand(d) \/ (Demand(x) = Demand(d) /\ x < d)

\* No day loses more than 35% of the pool, forced days off aside.
Cap == (Cardinality(Staff) * 35) \div 100

\* The first days in that order that are not full, for the rest of the allowance.
Chosen(e) ==
    LET free == {d \in Days \ Forced(e) : Cardinality(off[d]) < Cap}
    IN  {d \in free : Cardinality({x \in free : Before(x, d)}) + Cardinality(Forced(e))
                        < OffDaysPerWeek}

PlanOff(e) ==
    /\ e \notin planned
    /\ planned' = planned \cup {e}
    /\ off' = [d \in Days |-> IF d \in Forced(e) \cup Chosen(e) THEN off[d] \cup {e} ELSE off[d]]
    /\ UNCHANGED <<mix, leave, day, open, todo, assigned, prev, consec, roster, gaps>>

OnLeave == {e \in Staff : day \in leave[e]}

\* Mutant: the planned day off is entered on a day of leave too.
OpenDay_Twice ==
    /\ planned = Staff /\ day <= NumDays /\ ~open
    /\ open' = TRUE
    /\ todo' = mix[day]
    /\ assigned' = off[day] \cup OnLeave
    /\ roster' = roster \cup {<<e, day, "L">> : e \in OnLeave} \cup {<<e, day, OFF>> : e \in off[day]}
    /\ prev' = [e \in Staff |-> IF e \in off[day] \cup OnLeave THEN OFF ELSE prev[e]]
    /\ consec' = [e \in Staff |-> IF e \in off[day] \cup OnLeave THEN 0 ELSE consec[e]]
    /\ UNCHANGED <<mix, leave, planned, off, day, gaps>>

\* Mutant: leave is only looked up for those with a day off.
OpenDay_NoLeave ==
    /\ planned = Staff /\ day <= NumDays /\ ~open
    /\ open' = TRUE
    /\ todo' = mix[day]
    /\ assigned' = off[day]
    /\ roster' = roster \cup {<<e, day, OFF>> : e \in off[day]}
    /\ prev' = [e \in Staff |-> IF e \in off[day] THEN OFF ELSE prev[e]]
    /\ consec' = [e \in Staff |-> IF e \in off[day] THEN 0 ELSE consec[e]]
    /\ UNCHANGED <<mix, leave, planned, off, day, gaps>>

\* Leave is entered for those without a day off, then the days off of those
\* without leave: whoever has both is taken out of the day by neither.
OpenDay ==
    /\ planned = Staff /\ day <= NumDays /\ ~open
    /\ LET away == OnLeave \ off[day]
           rest == off[day] \ OnLeave
       IN  /\ roster' = roster \cup {<<e, day, "L">> : e \in away} \cup {<<e, day, OFF>> : e \in rest}
           /\ prev' = [e \in Staff |-> IF e \in away \cup rest THEN OFF ELSE prev[e]]
           /\ consec' = [e \in Staff |-> IF e \in away \cup rest THEN 0 ELSE consec[e]]
    /\ open' = TRUE
    /\ todo' = mix[day]
    /\ assigned' = off[day] \cup OnLeave
    /\ UNCHANGED <<mix, leave, planned, off, day, gaps>>

\* Mutants: the ceiling on days in a row, or the hours of rest, are dropped.
Eligible_NoCeiling(e, c) ==
    e \notin assigned /\ (e \in Female => c \notin Blocked) /\ Rest(prev[e], c) >= MinRestHours
Eligible_NoRest(e, c) ==
    e \notin assigned /\ consec[e] < MaxConsec /\ (e \in Female => c \notin Blocked)

Eligible(e, c) ==
    /\ e \notin assigned
    /\ consec[e] < MaxConsec
    /\ e \in Female => c \notin Blocked
    /\ Rest(prev[e], c) >= MinRestHours

AllEligible(c) == {e \in Staff : Eligible(e, c)}

\* Mutant: women are no last resort.
Pool_Anyone(c) == AllEligible(c)

\* A woman takes a shift with an exception only when nobody else can.
Pool(c) ==
    LET others == {e \in AllEligible(c) : ~(e \in Female /\ c \in Warned)}
    IN  IF others # {} THEN others ELSE AllEligible(c)

\* The shift that is filled next.
Current(c) ==
    /\ open /\ c \in Codes /\ todo[c] > 0
    /\ \E r \in Ranks : /\ HardOrder[r] = c
                        /\ \A s \in 1 .. r - 1 : todo[HardOrder[s]] = 0

Assign(e, c) ==
    /\ Current(c) /\ e \in Pool(c)
    /\ todo' = [todo EXCEPT ![c] = @ - 1]
    /\ assigned' = assigned \cup {e}
    /\ prev' = [prev EXCEPT ![e] = c]
    /\ consec' = [consec EXCEPT ![e] = @ + 1]
    /\ roster' = roster \cup {<<e, day, c>>}
    /\ UNCHANGED <<mix, leave, planned, off, day, open, gaps>>

\* Mutants: a slot nobody can take is dropped; all slots of the shift are
\* given up as soon as women are all that is left.
Unfilled_Silent(c) ==
    /\ Current(c) /\ Pool(c) = {}
    /\ todo' = [todo EXCEPT ![c] = @ - 1]
    /\ UNCHANGED <<mix, leave, planned, off, day, open, assigned, prev, consec, roster, gaps>>
Unfilled_Early(c) ==
    /\ Current(c) /\ Pool(c) \subseteq Female
    /\ todo' = [todo EXCEPT ![c] = @ - 1]
    /\ gaps' = [gaps EXCEPT ![day][c] = @ + 1]
    /\ UNCHANGED <<mix, leave, planned, off, day, open, assigned, prev, consec, roster>>

Unfilled(c) ==
    /\ Current(c) /\ Pool(c) = {}
    /\ todo' = [todo EXCEPT ![c] = @ - 1]
    /\ gaps' = [gaps EXCEPT ![day][c] = @ + 1]
    /\ UNCHANGED <<mix, leave, planned, off, day, open, assigned, prev, consec, roster>>

\* Who is left over gets an extra day off.
CloseDay ==
    /\ open /\ todo = NoSlots
    /\ LET idle == Staff \ assigned
       IN  /\ roster' = roster \cup {<<e, day, OFF>> : e \in idle}
           /\ prev' = [e \in Staff |-> IF e \in idle THEN OFF ELSE prev[e]]
           /\ consec' = [e \in Staff |-> IF e \in idle THEN 0 ELSE consec[e]]
    /\ open' = FALSE
    /\ assigned' = {}
    /\ day' = day + 1
    /\ UNCHANGED <<mix, leave, planned, off, todo, gaps>>

Next ==
    \/ \E e \in Staff : PlanOff(e)
    \/ OpenDay
    \/ \E e \in Staff, c \in Codes : Assign(e, c)
    \/ \E c \in Codes : Unfilled(c)
    \/ CloseDay

Spec == Init /\ [][Next]_vars
-----------------------------------------------------------------------------
(* Properties.                                                             *)

Entries == {"L", OFF} \cup Working

TypeOK ==
    /\ mix \in [Days -> Mixes] /\ leave \in Leaves
    /\ planned \subseteq Staff /\ off \in [Days -> SUBSET Staff]
    /\ day \in 1 .. NumDays + 1 /\ open \in BOOLEAN
    /\ todo \in [Codes -> Nat] /\ assigned \subseteq Staff
    /\ prev \in [Staff -> Working \cup {OFF}] /\ consec \in [Staff -> Nat]
    /\ roster \subseteq Staff \X Int \X Entries
    /\ gaps \in [Days -> [Codes -> Nat]]

\* Leave, planned and extra days off and the slots of a day are entered at
\* four places: nobody is entered twice for a day.
AtMostOneEntry ==
    \A x, y \in roster : x[1] = y[1] /\ x[2] = y[2] => x = y

\* "these people are NOT available, full stop" (assignRoster): nobody is
\* given a shift on a day of approved leave.
LeaveIsKept ==
    \A x \in roster : (x[2] \in Days /\ x[3] \in Working) => x[2] \notin leave[x[1]]

\* "min rest hours between shifts (cross-midnight aware)": any two shifts of
\* neighbouring days of the plan, whatever else happened in between.
RestKept ==
    \A x, y \in roster :
        (x[1] = y[1] /\ x[2] \in Days /\ y[2] = x[2] + 1 /\ x[3] \in Working /\ y[3] \in Working)
            => Rest(x[3], y[3]) >= MinRestHours

\* "max consecutive working days": no run of shifts that ends in the plan is
\* longer, with the days before the plan counted and days off moved by the cap.
Works(e, d) == \E c \in Working : <<e, d, c>> \in roster

RunsBounded ==
    \A e \in Staff, d \in Days : \E x \in (d - MaxConsec) .. d : ~Works(e, x)

\* "Unfillable slots are NEVER hidden": every slot of a closed day is in the
\* roster or among the gaps, and none is in both.
SlotsAccounted ==
    \A d \in 1 .. day - 1, c \in Codes :
        Cardinality({x \in roster : x[2] = d /\ x[3] = c}) + gaps[d][c] = mix[d][c]

\* A gap is real: nobody who is still without a shift on that day, and will
\* get a day off, could have taken the slot that is reported.
GapsAreReal ==
    open => \A c \in Codes : gaps[day][c] > 0 => AllEligible(c) = {}

\* "Female-N only as a true last resort": while a woman has the late shift, no
\* man who could have taken it is left over.
NightsLast ==
    open => \A x \in roster :
        (x[1] \in Female /\ x[2] = day /\ x[3] \in Warned)
            => AllEligible(x[3]) \subseteq Female

\* "leave already covers the day": everybody has an entry for every day that
\* is closed.
EverybodyEntered ==
    \A e \in Staff, d \in 1 .. day - 1 : \E x \in roster : x[1] = e /\ x[2] = d
=============================================================================
