------------------------- MODULE DemandRosterProofs -------------------------
(***************************************************************************)
(* What DemandRoster keeps for every pool, mix, leave and option: the      *)
(* invariants of the roster are proved together, from one inductive        *)
(* invariant.  What it adds to them: entries are made day by day and only  *)
(* for those marked as assigned, and prevShift is the shift in the roster  *)
(* of whoever may still be given one.                                      *)
(***************************************************************************)
EXTENDS DemandRoster, FiniteSetTheorems, TLAPS

\* Entries of the day at hand belong to those assigned; there are none later.
EnteredInOrder ==
    /\ ~open => assigned = {}
    /\ open => day \in Days /\ planned = Staff
    /\ open => off[day] \cup OnLeave \subseteq assigned
    /\ \A x \in roster : x[2] <= day /\ (x[2] = day => open /\ x[1] \in assigned)

\* The shift the engine goes by is the one in the roster.
PrevIsEntered ==
    \A x \in roster :
        (x[2] \in Days /\ x[3] \in Working) =>
            /\ x[2] = day => prev[x[1]] = x[3]
            /\ (x[2] = day - 1 /\ x[1] \notin assigned) => prev[x[1]] = x[3]

\* Gaps are reported for no day that is not open yet.
NoEarlyGaps ==
    \A d \in Days : (d > day \/ (d = day /\ ~open)) => gaps[d] = NoSlots

IInv ==
    /\ TypeOK /\ EnteredInOrder /\ PrevIsEntered /\ NoEarlyGaps
    /\ AtMostOneEntry /\ LeaveIsKept /\ RestKept /\ GapsAreReal /\ NightsLast

-----------------------------------------------------------------------------
(* Facts about the operators.                                              *)

\* The catalogue's shifts, and the six of a mix among them.
LEMMA CatalogShifts ==
    /\ Working = {"M", "B", "C", "N", "E", "EE", "MD", "MN"}
    /\ Codes \subseteq Working
    /\ "L" \notin Working /\ OFF \notin Working /\ "L" # OFF
  BY DEF Working, Starts, Codes, OFF

\* Whatever the last shift was, the generator takes it for one it knows.
LEMMA DerivedIsShift ==
  ASSUME NEW code \in Working \cup {OFF} PROVE DerivedShift(code) \in Working \cup {OFF}
<1>1. CASE code = OFF
  BY <1>1 DEF DerivedShift
<1>2. CASE code # OFF
  <2>1. Starts[code] \in {7, 9, 11, 13, 16, 18, 22, 23}
    BY <1>2, CatalogShifts DEF Starts
  <2>2. DOMAIN DerivedHours = {"M", "B", "C", "E", "N", "EE", "MD"}
    BY DEF DerivedHours
  <2>3. \E c \in DOMAIN DerivedHours : Starts[code] \in DerivedHours[c]
    BY <2>1 DEF DerivedHours
  <2> QED
    BY <1>2, <2>2, <2>3, CatalogShifts DEF DerivedShift
<1> QED
  BY <1>1, <1>2

\* Nobody becomes eligible by what happens to others.
LEMMA EligibleShrinks ==
  ASSUME NEW c, assigned \subseteq assigned',
         \A e \in Staff : e \notin assigned' => prev'[e] = prev[e] /\ consec'[e] = consec[e]
  PROVE  AllEligible(c)' \subseteq AllEligible(c)
  BY DEF AllEligible, Eligible

\* Who is in the pool may take the shift.
LEMMA PoolIsEligible ==
  ASSUME NEW c, NEW e \in Pool(c)
  PROVE  /\ e \in Staff /\ Eligible(e, c)
         /\ (e \in Female /\ c \in Warned) => AllEligible(c) \subseteq Female
  BY DEF Pool, AllEligible, Eligible

\* The pool is empty only when nobody may.
LEMMA EmptyPool ==
  ASSUME NEW c, Pool(c) = {} PROVE AllEligible(c) = {}
  BY DEF Pool
-----------------------------------------------------------------------------
(* The initial states.                                                     *)

LEMMA TypeInit == Init => TypeOK
<1> SUFFICES ASSUME Init PROVE TypeOK
  OBVIOUS
<1>1. PICK last \in [Staff -> LastShifts], run \in [Staff -> Priors] :
        /\ \A e \in Staff : last[e] = OFF <=> run[e] = 0
        /\ prev = [e \in Staff |-> DerivedShift(last[e])]
        /\ consec = [e \in Staff |-> IF run[e] > 7 THEN 7 ELSE run[e]]
        /\ roster = UNION {{<<e, d, last[e]>> : d \in (1 - run[e]) .. 0} : e \in Staff}
  BY DEF Init
<1>2. \A e \in Staff : last[e] \in Working \cup {OFF} /\ run[e] \in Nat
  BY InputAssumption, NumberAssumption
<1>3. prev \in [Staff -> Working \cup {OFF}]
  BY <1>1, <1>2, DerivedIsShift
<1>4. consec \in [Staff -> Nat]
  BY <1>1, <1>2
<1>5. roster \subseteq Staff \X Int \X Entries
  BY <1>1, <1>2 DEF Entries
<1>6. NoSlots \in [Codes -> Nat]
  BY DEF NoSlots
<1>7. mix \in [Days -> Mixes] /\ leave \in Leaves /\ planned = {}
      /\ off = [d \in Days |-> {}] /\ day = 1 /\ open = FALSE
      /\ todo = NoSlots /\ assigned = {} /\ gaps = [d \in Days |-> NoSlots]
  BY DEF Init
<1>8. day \in 1 .. NumDays + 1
  BY <1>7, NumberAssumption
<1>9. off \in [Days -> SUBSET Staff] /\ gaps \in [Days -> [Codes -> Nat]]
  BY <1>6, <1>7
<1> QED
  BY <1>3, <1>4, <1>5, <1>6, <1>7, <1>8, <1>9 DEF TypeOK

\* Before the plan the roster holds the days worked before, one entry each.
LEMMA InvInit == Init => IInv
<1> SUFFICES ASSUME Init PROVE IInv
  OBVIOUS
<1>1. PICK last \in [Staff -> LastShifts], run \in [Staff -> Priors] :
        roster = UNION {{<<e, d, last[e]>> : d \in (1 - run[e]) .. 0} : e \in Staff}
  BY DEF Init
<1>2. \A e \in Staff : run[e] \in Nat
  BY NumberAssumption
<1>3. \A x \in roster : x[2] \in Int /\ x[2] <= 0 /\ x[3] = last[x[1]] /\ x = <<x[1], x[2], x[3]>>
  BY <1>1, <1>2
<1>4. day = 1 /\ ~open /\ assigned = {} /\ gaps = [d \in Days |-> NoSlots]
  BY DEF Init
<1>5. AtMostOneEntry
  BY <1>3 DEF AtMostOneEntry
<1>6. \A x \in roster : x[2] \notin Days
  BY <1>3, NumberAssumption DEF Days
<1>7. EnteredInOrder
  BY <1>3, <1>4 DEF EnteredInOrder
<1>8. PrevIsEntered /\ LeaveIsKept /\ RestKept
  BY <1>6 DEF PrevIsEntered, LeaveIsKept, RestKept
<1>9. NoEarlyGaps /\ GapsAreReal /\ NightsLast
  BY <1>4 DEF NoEarlyGaps, GapsAreReal, NightsLast
<1> QED
  BY <1>5, <1>7, <1>8, <1>9, TypeInit DEF IInv

-----------------------------------------------------------------------------
(* The steps.                                                              *)

LEMMA TypeNext == TypeOK /\ EnteredInOrder /\ [Next]_vars => TypeOK'
<1> SUFFICES ASSUME TypeOK, open => day \in Days, [Next]_vars PROVE TypeOK'
  BY DEF EnteredInOrder
<1> USE DEF TypeOK
<1>0. \A d \in Days : mix[d] \in [Codes -> Nat]
  BY InputAssumption
<1>1. ASSUME NEW e \in Staff, PlanOff(e) PROVE TypeOK'
  BY <1>1 DEF PlanOff
<1>2. CASE OpenDay
  <2>1. day \in Days
    BY <1>2, NumberAssumption DEF OpenDay, Days
  <2>2. \A e \in Staff : <<e, day, "L">> \in Staff \X Int \X Entries
                        /\ <<e, day, OFF>> \in Staff \X Int \X Entries
    BY <2>1, NumberAssumption DEF Entries, Days
  <2>3. off[day] \subseteq Staff /\ OnLeave \subseteq Staff
    BY <2>1 DEF OnLeave
  <2>4. roster' \subseteq Staff \X Int \X Entries
    BY <1>2, <2>2, <2>3 DEF OpenDay
  <2>5. prev' \in [Staff -> Working \cup {OFF}] /\ consec' \in [Staff -> Nat]
    BY <1>2 DEF OpenDay
  <2>6. todo' \in [Codes -> Nat] /\ assigned' \subseteq Staff
    BY <1>2, <1>0, <2>1, <2>3 DEF OpenDay
  <2> QED
    BY <1>2, <2>4, <2>5, <2>6 DEF OpenDay
<1>3. ASSUME NEW e \in Staff, NEW c \in Codes, Assign(e, c) PROVE TypeOK'
  <2>1. c \in Working /\ c \in Entries
    BY CatalogShifts DEF Entries
  <2>2. todo' \in [Codes -> Nat]
    BY <1>3 DEF Assign, Current
  <2>3. roster' \subseteq Staff \X Int \X Entries
    BY <1>3, <2>1, NumberAssumption DEF Assign
  <2> QED
    BY <1>3, <2>1, <2>2, <2>3 DEF Assign
<1>4. ASSUME NEW c \in Codes, Unfilled(c) PROVE TypeOK'
  <2>1. todo' \in [Codes -> Nat]
    BY <1>4 DEF Unfilled, Current
  <2>2. gaps' \in [Days -> [Codes -> Nat]]
    BY <1>4 DEF Unfilled, Current
  <2> QED
    BY <1>4, <2>1, <2>2 DEF Unfilled
<1>5. CASE CloseDay
  <2>1. roster' \subseteq Staff \X Int \X Entries
    BY <1>5, NumberAssumption DEF CloseDay, Entries
  <2>2. prev' \in [Staff -> Working \cup {OFF}] /\ consec' \in [Staff -> Nat]
    BY <1>5 DEF CloseDay
  <2>3. day' \in 1 .. NumDays + 1
    BY <1>5, NumberAssumption DEF CloseDay, Days
  <2> QED
    BY <1>5, <2>1, <2>2, <2>3 DEF CloseDay
<1>6. CASE UNCHANGED vars
  BY <1>6 DEF vars
<1> QED
  BY <1>1, <1>2, <1>3, <1>4, <1>5, <1>6 DEF Next

\* Planning days off touches nothing of what the invariant is about, for no
\* day is open before all of them are planned.
LEMMA PlanKeeps == ASSUME IInv, NEW e \in Staff, PlanOff(e) PROVE IInv'
<1>1. ~open
  BY DEF PlanOff, IInv, EnteredInOrder
<1>2. TypeOK'
  BY TypeNext DEF IInv, Next
<1>3. UNCHANGED <<leave, day, open, assigned, prev, roster, gaps>>
  BY DEF PlanOff
<1>4. EnteredInOrder' /\ PrevIsEntered' /\ NoEarlyGaps'
  BY <1>1, <1>3 DEF IInv, EnteredInOrder, PrevIsEntered, NoEarlyGaps, NoSlots
<1>5. AtMostOneEntry' /\ LeaveIsKept' /\ RestKept' /\ GapsAreReal' /\ NightsLast'
  BY <1>1, <1>3 DEF IInv, AtMostOneEntry, LeaveIsKept, RestKept, GapsAreReal, NightsLast
<1> QED
  BY <1>2, <1>4, <1>5 DEF IInv

\* Leave and days off are entered for a day that has no entries yet.
LEMMA OpenKeeps == ASSUME IInv, OpenDay PROVE IInv'
<1> DEFINE away == OnLeave \ off[day]
           rest == off[day] \ OnLeave
<1>0. TypeOK /\ TypeOK'
  BY TypeNext DEF IInv, Next
<1>1. ~open /\ open' /\ day \in Days /\ planned = Staff
  BY <1>0, NumberAssumption DEF OpenDay, TypeOK, Days
<1>2. UNCHANGED <<leave, planned, off, day, gaps>>
  BY DEF OpenDay
<1>3. roster' = roster \cup {<<e, day, "L">> : e \in away} \cup {<<e, day, OFF>> : e \in rest}
  BY DEF OpenDay
<1>4. /\ assigned' = off[day] \cup OnLeave
      /\ \A e \in Staff : e \notin assigned' => prev'[e] = prev[e]
  BY <1>0 DEF OpenDay, TypeOK
<1>5. \A x \in roster' : x \in roster \/ (x[2] = day /\ x[3] \notin Working /\ x[1] \in assigned')
  BY <1>3, <1>4, CatalogShifts
<1>6. \A x \in roster : x[2] < day /\ x[1] \in Staff /\ x[2] \in Int
  BY <1>0, <1>1, NumberAssumption DEF IInv, EnteredInOrder, TypeOK, Days
<1>7. EnteredInOrder'
  <2>1. OnLeave' = OnLeave
    BY <1>2 DEF OnLeave
  <2>2. \A x \in roster' : x[2] <= day
    BY <1>1, <1>5, <1>6, NumberAssumption DEF Days
  <2> QED
    BY <1>1, <1>2, <1>4, <1>5, <1>6, <2>1, <2>2 DEF EnteredInOrder
<1>8. PrevIsEntered'
  BY <1>1, <1>2, <1>4, <1>5, <1>6 DEF PrevIsEntered, IInv, EnteredInOrder
<1>9. NoEarlyGaps'
  BY <1>1, <1>2 DEF NoEarlyGaps, IInv, NoSlots
<1>10. AtMostOneEntry'
  <2> SUFFICES ASSUME NEW x \in roster', NEW y \in roster', x[1] = y[1], x[2] = y[2]
               PROVE  x = y
    BY DEF AtMostOneEntry
  <2>1. CASE x \in roster /\ y \in roster
    BY <2>1 DEF IInv, AtMostOneEntry
  <2>2. CASE x \notin roster /\ y \notin roster
    BY <1>3, <2>2
  <2>3. CASE x \in roster /\ y \notin roster
    BY <1>5, <1>6, <2>3, <1>1, NumberAssumption DEF Days
  <2>4. CASE x \notin roster /\ y \in roster
    BY <1>5, <1>6, <2>4, <1>1, NumberAssumption DEF Days
  <2> QED
    BY <2>1, <2>2, <2>3, <2>4
<1>11. LeaveIsKept' /\ RestKept'
  BY <1>2, <1>5 DEF IInv, LeaveIsKept, RestKept
<1>12. GapsAreReal'
  <2>1. gaps'[day'] = NoSlots
    BY <1>1, <1>2 DEF IInv, NoEarlyGaps
  <2>2. \A c \in Codes : ~(gaps'[day'][c] > 0)
    BY <2>1 DEF NoSlots
  <2> QED
    BY <2>2 DEF GapsAreReal
<1>13. NightsLast'
  BY <1>1, <1>2, <1>5, <1>6, NumberAssumption, CatalogShifts DEF NightsLast, Warned, Days
<1> QED
  BY <1>0, <1>7, <1>8, <1>9, <1>10, <1>11, <1>12, <1>13 DEF IInv

\* A shift is entered for somebody without an entry, who is rested since the
\* entry of the day before.
LEMMA AssignKeeps == ASSUME IInv, NEW e \in Staff, NEW c \in Codes, Assign(e, c) PROVE IInv'
<1>0. TypeOK /\ TypeOK'
  BY TypeNext DEF IInv, Next
<1>1. open /\ day \in Days /\ c \in Working /\ e \in Pool(c)
  BY CatalogShifts DEF Assign, Current, IInv, EnteredInOrder
<1>2. UNCHANGED <<leave, planned, off, day, open, gaps>>
  BY DEF Assign
<1>3. roster' = roster \cup {<<e, day, c>>} /\ assigned' = assigned \cup {e}
  BY DEF Assign
<1>4. prev'[e] = c /\ \A s \in Staff : s # e => prev'[s] = prev[s] /\ consec'[s] = consec[s]
  BY <1>0 DEF Assign, TypeOK
<1>5. Eligible(e, c) /\ ((e \in Female /\ c \in Warned) => AllEligible(c) \subseteq Female)
  BY <1>1, PoolIsEligible
<1>6. \A k : AllEligible(k)' \subseteq AllEligible(k)
  BY <1>3, <1>4, EligibleShrinks
<1>7. \A x \in roster : x[2] \in Int /\ x[2] <= day /\ (x[2] = day => x[1] \in assigned)
  BY <1>0, <1>1 DEF IInv, EnteredInOrder, TypeOK
<1>8. e \notin assigned
  BY <1>5 DEF Eligible
<1>9. EnteredInOrder'
  <2>1. OnLeave' = OnLeave
    BY <1>2 DEF OnLeave
  <2>2. \A x \in roster' : x[2] <= day /\ (x[2] = day => x[1] \in assigned')
    BY <1>1, <1>3, <1>7, NumberAssumption DEF Days
  <2> QED
    BY <1>1, <1>2, <1>3, <2>1, <2>2 DEF EnteredInOrder, IInv
<1>10. PrevIsEntered'
  <2> SUFFICES ASSUME NEW x \in roster', x[2] \in Days, x[3] \in Working
               PROVE  /\ x[2] = day => prev'[x[1]] = x[3]
                      /\ (x[2] = day - 1 /\ x[1] \notin assigned') => prev'[x[1]] = x[3]
    BY <1>2 DEF PrevIsEntered
  <2>1. CASE x = <<e, day, c>>
    BY <1>4, <2>1, <1>1, NumberAssumption DEF Days
  <2>2. CASE x \in roster
    <3>1. x[1] \in Staff
      BY <2>2, <1>0 DEF TypeOK
    <3>2. x[1] # e \/ x[2] # day
      BY <1>7, <1>8, <2>2
    <3>3. (x[2] = day => prev[x[1]] = x[3])
          /\ ((x[2] = day - 1 /\ x[1] \notin assigned) => prev[x[1]] = x[3])
      BY <2>2 DEF PrevIsEntered, IInv
    <3> QED
      BY <3>1, <3>2, <3>3, <1>3, <1>4
  <2> QED
    BY <2>1, <2>2, <1>3
<1>11. NoEarlyGaps'
  BY <1>1, <1>2 DEF NoEarlyGaps, IInv, NoSlots
<1>12. AtMostOneEntry'
  <2> SUFFICES ASSUME NEW x \in roster', NEW y \in roster', x[1] = y[1], x[2] = y[2]
               PROVE  x = y
    BY DEF AtMostOneEntry
  <2>1. CASE x \in roster /\ y \in roster
    BY <2>1 DEF IInv, AtMostOneEntry
  <2>2. CASE x = <<e, day, c>> \/ y = <<e, day, c>>
    BY <1>3, <1>7, <1>8, <2>2
  <2> QED
    BY <2>1, <2>2, <1>3
<1>13. LeaveIsKept'
  <2>1. day \notin leave[e]
    BY <1>1, <1>8 DEF IInv, EnteredInOrder, OnLeave
  <2> QED
    BY <1>2, <1>3, <2>1 DEF IInv, LeaveIsKept
<1>14. RestKept'
  <2> SUFFICES ASSUME NEW x \in roster', NEW y \in roster', x[1] = y[1], x[2] \in Days,
                      y[2] = x[2] + 1, x[3] \in Working, y[3] \in Working
               PROVE  Rest(x[3], y[3]) >= MinRestHours
    BY DEF RestKept
  <2>1. CASE x \in roster /\ y \in roster
    BY <2>1 DEF IInv, RestKept
  <2>2. CASE x \in roster /\ y = <<e, day, c>>
    <3>1. x[2] = day - 1
      BY <2>2, <1>1, NumberAssumption DEF Days
    <3>2. prev[e] = x[3]
      BY <2>2, <3>1, <1>8 DEF IInv, PrevIsEntered
    <3> QED
      BY <2>2, <3>2, <1>5 DEF Eligible
  <2>3. CASE x = <<e, day, c>>
    BY <2>3, <1>1, <1>3, <1>7, NumberAssumption DEF Days
  <2> QED
    BY <2>1, <2>2, <2>3, <1>3
<1>15. GapsAreReal'
  BY <1>1, <1>2, <1>6 DEF IInv, GapsAreReal
<1>16. NightsLast'
  <2> SUFFICES ASSUME NEW x \in roster', x[1] \in Female, x[2] = day, x[3] \in Warned
               PROVE  AllEligible(x[3]) \subseteq Female
    BY <1>2, <1>6 DEF NightsLast
  <2>1. CASE x \in roster
    BY <2>1, <1>1 DEF IInv, NightsLast
  <2>2. CASE x = <<e, day, c>>
    BY <2>2, <1>5
  <2> QED
    BY <2>1, <2>2, <1>3
<1> QED
  BY <1>0, <1>9, <1>10, <1>11, <1>12, <1>13, <1>14, <1>15, <1>16 DEF IInv

\* A slot is given up only when nobody may take it.
LEMMA UnfilledKeeps == ASSUME IInv, NEW c \in Codes, Unfilled(c) PROVE IInv'
<1>0. TypeOK /\ TypeOK'
  BY TypeNext DEF IInv, Next
<1>1. open /\ day \in Days /\ AllEligible(c) = {}
  BY EmptyPool DEF Unfilled, Current, IInv, EnteredInOrder
<1>2. UNCHANGED <<leave, planned, off, day, open, assigned, prev, consec, roster>>
  BY DEF Unfilled
<1>3. /\ \A d \in Days : d # day => gaps'[d] = gaps[d]
      /\ \A k \in Codes : k # c => gaps'[day][k] = gaps[day][k]
  BY <1>0, <1>1 DEF Unfilled, TypeOK
<1>4. \A k : AllEligible(k)' = AllEligible(k)
  BY <1>2 DEF AllEligible, Eligible
<1>5. EnteredInOrder' /\ PrevIsEntered'
  BY <1>2 DEF IInv, EnteredInOrder, PrevIsEntered, OnLeave
<1>6. NoEarlyGaps'
  BY <1>1, <1>2, <1>3, NumberAssumption DEF IInv, NoEarlyGaps, NoSlots, Days
<1>7. AtMostOneEntry' /\ LeaveIsKept' /\ RestKept'
  BY <1>2 DEF IInv, AtMostOneEntry, LeaveIsKept, RestKept
<1>8. GapsAreReal'
  BY <1>1, <1>2, <1>3, <1>4 DEF IInv, GapsAreReal
<1>9. NightsLast'
  BY <1>2, <1>4 DEF IInv, NightsLast
<1> QED
  BY <1>0, <1>5, <1>6, <1>7, <1>8, <1>9 DEF IInv

\* The entries of the day that is closed become those of the day before.
LEMMA CloseKeeps == ASSUME IInv, CloseDay PROVE IInv'
<1> DEFINE idle == Staff \ assigned
<1>0. TypeOK /\ TypeOK'
  BY TypeNext DEF IInv, Next
<1>1. open /\ ~open' /\ day \in Days /\ day \in Nat /\ day' = day + 1 /\ assigned' = {}
  BY NumberAssumption DEF CloseDay, IInv, EnteredInOrder, Days
<1>2. UNCHANGED <<leave, planned, off, gaps>>
  BY DEF CloseDay
<1>3. roster' = roster \cup {<<e, day, OFF>> : e \in idle}
  BY DEF CloseDay
<1>4. \A e \in assigned : prev'[e] = prev[e]
  BY <1>0 DEF CloseDay, TypeOK
<1>5. \A x \in roster : /\ x[1] \in Staff /\ x[2] \in Int /\ x[2] <= day
                        /\ x[2] = day => x[1] \in assigned
  BY <1>0 DEF IInv, EnteredInOrder, TypeOK
<1>6. \A x \in roster' : x \in roster
                        \/ (x[2] = day /\ x[3] = OFF /\ x[3] \notin Working /\ x[1] \in idle)
  BY <1>3, CatalogShifts
<1>7. \A x \in roster' : x[2] \in Int /\ x[2] <= day /\ x[2] < day'
  BY <1>1, <1>5, <1>6
<1>8. EnteredInOrder'
  BY <1>1, <1>7 DEF EnteredInOrder
<1>9. PrevIsEntered'
  <2> SUFFICES ASSUME NEW x \in roster', x[2] \in Days, x[3] \in Working, x[2] = day' - 1
               PROVE  prev'[x[1]] = x[3]
    BY <1>7 DEF PrevIsEntered
  <2>1. x \in roster /\ x[2] = day
    BY <1>1, <1>6
  <2>2. x[1] \in assigned /\ prev[x[1]] = x[3]
    BY <1>5, <2>1 DEF IInv, PrevIsEntered
  <2> QED
    BY <1>4, <2>2
<1>10. NoEarlyGaps'
  BY <1>1, <1>2, NumberAssumption DEF IInv, NoEarlyGaps, NoSlots, Days
<1>11. AtMostOneEntry'
  <2> SUFFICES ASSUME NEW x \in roster', NEW y \in roster', x[1] = y[1], x[2] = y[2]
               PROVE  x = y
    BY DEF AtMostOneEntry
  <2>1. CASE x \in roster /\ y \in roster
    BY <2>1 DEF IInv, AtMostOneEntry
  <2>2. CASE x \notin roster /\ y \notin roster
    BY <1>3, <2>2
  <2>3. CASE x \in roster /\ y \notin roster
    BY <1>5, <1>6, <2>3
  <2>4. CASE x \notin roster /\ y \in roster
    BY <1>5, <1>6, <2>4
  <2> QED
    BY <2>1, <2>2, <2>3, <2>4
<1>12. LeaveIsKept' /\ RestKept'
  BY <1>2, <1>6 DEF IInv, LeaveIsKept, RestKept
<1>13. GapsAreReal' /\ NightsLast'
  BY <1>1 DEF GapsAreReal, NightsLast
<1> QED
  BY <1>0, <1>8, <1>9, <1>10, <1>11, <1>12, <1>13 DEF IInv

LEMMA StutterKeeps == ASSUME IInv, UNCHANGED vars PROVE IInv'
<1> USE DEF vars
<1>1. TypeOK' /\ EnteredInOrder' /\ PrevIsEntered' /\ NoEarlyGaps'
  BY DEF IInv, TypeOK, EnteredInOrder, PrevIsEntered, NoEarlyGaps, OnLeave
<1>2. AtMostOneEntry' /\ LeaveIsKept' /\ RestKept'
  BY DEF IInv, AtMostOneEntry, LeaveIsKept, RestKept
<1>3. GapsAreReal' /\ NightsLast'
  BY DEF IInv, GapsAreReal, NightsLast, AllEligible, Eligible
<1> QED
  BY <1>1, <1>2, <1>3 DEF IInv

-----------------------------------------------------------------------------
(* The theorems.                                                           *)

\* The inductive invariant holds in every state.
LEMMA InvAlways == Spec => []IInv
<1>1. IInv /\ [Next]_vars => IInv'
  BY PlanKeeps, OpenKeeps, AssignKeeps, UnfilledKeeps, CloseKeeps, StutterKeeps DEF Next
<1> QED
  BY <1>1, InvInit, PTL DEF Spec

\* Every variable of the engine keeps its type.
THEOREM TypeCorrect == Spec => []TypeOK
  BY InvAlways, PTL DEF IInv

\* Nobody is entered twice for a day, by leave, days off, shifts and the
\* extra days off together.
THEOREM OneEntryAlways == Spec => []AtMostOneEntry
  BY InvAlways, PTL DEF IInv

\* Nobody is given a shift on a day of approved leave.
THEOREM LeaveAlways == Spec => []LeaveIsKept
  BY InvAlways, PTL DEF IInv

\* Shifts of neighbouring days of the plan are always far enough apart.
THEOREM RestAlways == Spec => []RestKept
  BY InvAlways, PTL DEF IInv

\* A gap is reported only when nobody left over could have filled it.
THEOREM GapsAlwaysReal == Spec => []GapsAreReal
  BY InvAlways, PTL DEF IInv

\* Women have the late shift only while no man who could take it is left over.
THEOREM NightsAlwaysLast == Spec => []NightsLast
  BY InvAlways, PTL DEF IInv

-----------------------------------------------------------------------------
(* Runs of days worked.  The engine's count is no shorter than the run that *)
(* the roster shows, unless it is at the ceiling already.                   *)

RunKnown ==
    \A e \in Staff :
        /\ e \in assigned => \E x \in (day - consec[e]) .. day : ~Works(e, x)
        /\ Works(e, day) => consec[e] <= MaxConsec
        /\ e \notin assigned =>
              consec[e] >= MaxConsec \/ \E x \in (day - 1 - consec[e]) .. day - 1 : ~Works(e, x)

RInv == RunKnown /\ RunsBounded

\* There is nothing of a later day in the roster, nor of the day at hand for
\* those who are not assigned.
LEMMA NotYetWorked ==
  ASSUME IInv, NEW e \in Staff, NEW d \in Int, d > day \/ (d = day /\ e \notin assigned)
  PROVE  ~Works(e, d)
<1> SUFFICES ASSUME NEW c \in Working, <<e, d, c>> \in roster PROVE FALSE
  BY DEF Works
<1>1. day \in Int
  BY NumberAssumption DEF IInv, TypeOK
<1>2. d <= day /\ (d = day => e \in assigned)
  BY DEF IInv, EnteredInOrder
<1> QED
  BY <1>1, <1>2

LEMMA RunInit == Init => RInv
<1> SUFFICES ASSUME Init PROVE RInv
  OBVIOUS
<1>1. PICK last \in [Staff -> LastShifts], run \in [Staff -> Priors] :
        /\ consec = [e \in Staff |-> IF run[e] > 7 THEN 7 ELSE run[e]]
        /\ roster = UNION {{<<e, d, last[e]>> : d \in (1 - run[e]) .. 0} : e \in Staff}
  BY DEF Init
<1>2. \A e \in Staff : run[e] \in Nat
  BY NumberAssumption
<1>3. \A x \in roster : x[1] \in Staff /\ x[2] \in (1 - run[x[1]]) .. 0
  BY <1>1
<1>4. \A e \in Staff, d \in Int : (d > 0 \/ d = -run[e]) => ~Works(e, d)
  <2> SUFFICES ASSUME NEW e \in Staff, NEW d \in Int, NEW c \in Working, <<e, d, c>> \in roster
               PROVE  ~(d > 0 \/ d = -run[e])
    BY DEF Works
  <2>1. d \in (1 - run[e]) .. 0
    BY <1>3
  <2> QED
    BY <1>2, <2>1
<1>5. day = 1 /\ assigned = {}
  BY DEF Init
<1>6. RunKnown
  <2> SUFFICES ASSUME NEW e \in Staff
               PROVE  /\ ~Works(e, 1)
                      /\ consec[e] >= MaxConsec \/ \E x \in (0 - consec[e]) .. 0 : ~Works(e, x)
    BY <1>5 DEF RunKnown
  <2>1. CASE run[e] > 7
    BY <2>1, <1>1, <1>4, CeilingAssumption, NumberAssumption
  <2>2. CASE run[e] <= 7
    <3>1. consec[e] = run[e] /\ -run[e] \in (0 - consec[e]) .. 0
      BY <2>2, <1>1, <1>2
    <3> QED
      BY <3>1, <1>2, <1>4
  <2> QED
    BY <2>1, <2>2, <1>2
<1>7. RunsBounded
  BY <1>4, NumberAssumption DEF RunsBounded, Days
<1> QED
  BY <1>6, <1>7 DEF RInv

\* A step that enters no shift and only takes people out of the day.
LEMMA RunOpen == ASSUME IInv, IInv', RInv, OpenDay PROVE RInv'
<1>1. \A e, d : Works(e, d)' = Works(e, d)
  BY CatalogShifts DEF OpenDay, Works
<1>2. day' = day /\ day \in Int /\ assigned \subseteq assigned'
  BY NumberAssumption DEF OpenDay, IInv, TypeOK, EnteredInOrder
<1>3. \A e \in Staff : ~Works(e, day)
  BY <1>2, NotYetWorked DEF OpenDay, IInv, EnteredInOrder
<1>4. \A e \in Staff : /\ consec'[e] \in Nat
                       /\ e \notin assigned' => consec'[e] = consec[e]
  BY DEF OpenDay, IInv, TypeOK
<1>5. RunKnown'
  BY <1>1, <1>2, <1>3, <1>4 DEF RInv, RunKnown
<1>6. RunsBounded'
  BY <1>1 DEF RInv, RunsBounded
<1> QED
  BY <1>5, <1>6 DEF RInv

\* One more day for e, whose count was below the ceiling.
LEMMA RunAssign ==
  ASSUME IInv, IInv', RInv, NEW e \in Staff, NEW c \in Codes, Assign(e, c) PROVE RInv'
<1>1. e \notin assigned /\ consec[e] < MaxConsec
  BY PoolIsEligible DEF Assign, Eligible
<1>2. day' = day /\ day \in Int /\ assigned' = assigned \cup {e}
  BY NumberAssumption DEF Assign, IInv, TypeOK
<1>3. /\ consec[e] \in Nat /\ consec'[e] = consec[e] + 1
      /\ \A s \in Staff : s # e => consec'[s] = consec[s]
  BY DEF Assign, IInv, TypeOK
<1>4. \A s, d : (s # e \/ d # day) => (Works(s, d)' = Works(s, d))
  BY DEF Assign, Works
<1>5. PICK x \in (day - 1 - consec[e]) .. day - 1 : ~Works(e, x)
  BY <1>1, <1>2, <1>3, NumberAssumption DEF RInv, RunKnown
<1>6. x \in (day - consec'[e]) .. day /\ x \in (day - MaxConsec) .. day /\ ~Works(e, x)'
  BY <1>1, <1>2, <1>3, <1>4, <1>5, NumberAssumption
<1>7. RunKnown'
  <2> SUFFICES ASSUME NEW s \in Staff
               PROVE  /\ s \in assigned' => \E y \in (day - consec'[s]) .. day : ~Works(s, y)'
                      /\ Works(s, day)' => consec'[s] <= MaxConsec
                      /\ s \notin assigned' =>
                           consec'[s] >= MaxConsec
                             \/ \E y \in (day - 1 - consec'[s]) .. day - 1 : ~Works(s, y)'
    BY <1>2 DEF RunKnown
  <2>1. CASE s = e
    BY <2>1, <1>1, <1>2, <1>3, <1>6, NumberAssumption
  <2>2. CASE s # e
    BY <2>2, <1>2, <1>3, <1>4 DEF RInv, RunKnown
  <2> QED
    BY <2>1, <2>2
<1>8. RunsBounded'
  <2> SUFFICES ASSUME NEW s \in Staff, NEW d \in Days
               PROVE  \E y \in (d - MaxConsec) .. d : ~Works(s, y)'
    BY DEF RunsBounded
  <2>1. CASE s # e \/ d < day
    <3>1. PICK y \in (d - MaxConsec) .. d : ~Works(s, y)
      BY DEF RInv, RunsBounded
    <3>2. s # e \/ y # day
      BY <2>1, <1>2, NumberAssumption DEF Days
    <3> QED
      BY <3>1, <3>2, <1>4
  <2>2. CASE s = e /\ d = day
    BY <2>2, <1>6
  <2>3. CASE s = e /\ d > day
    <3>1. ~Works(e, d) /\ d \in (d - MaxConsec) .. d
      BY <2>3, NotYetWorked, NumberAssumption DEF Days
    <3> QED
      BY <2>3, <3>1, <1>2, <1>4
  <2> QED
    BY <2>1, <2>2, <2>3, <1>2, NumberAssumption DEF Days
<1> QED
  BY <1>7, <1>8 DEF RInv

\* The next day: those left over start again from a day off.
LEMMA RunClose == ASSUME IInv, IInv', RInv, CloseDay PROVE RInv'
<1>1. \A e, d : Works(e, d)' = Works(e, d)
  BY CatalogShifts DEF CloseDay, Works
<1>2. day' = day + 1 /\ day \in Int /\ assigned' = {}
  BY NumberAssumption DEF CloseDay, IInv, TypeOK
<1>3. \A e \in Staff :
        /\ consec'[e] \in Nat
        /\ e \in assigned => consec'[e] = consec[e]
        /\ e \notin assigned => ~Works(e, day)
  BY <1>2, NotYetWorked DEF CloseDay, IInv, TypeOK
<1>4. \A e \in Staff : ~Works(e, day + 1)
  BY <1>2, NotYetWorked
<1>5. RunKnown'
  BY <1>1, <1>2, <1>3, <1>4 DEF RInv, RunKnown
<1>6. RunsBounded'
  BY <1>1 DEF RInv, RunsBounded
<1> QED
  BY <1>5, <1>6 DEF RInv

\* The other steps touch neither the roster nor the counts.
LEMMA RunOther ==
  ASSUME RInv, UNCHANGED <<day, assigned, consec, roster>> PROVE RInv'
  BY DEF RInv, RunKnown, RunsBounded, Works

\* No run of shifts that ends in the plan exceeds the ceiling.
THEOREM RunsAlwaysBounded == Spec => []RunsBounded
<1>1. IInv /\ IInv' /\ RInv /\ [Next]_vars => RInv'
  <2> SUFFICES ASSUME IInv, IInv', RInv, [Next]_vars PROVE RInv'
    OBVIOUS
  <2>1. ASSUME NEW e \in Staff, PlanOff(e) PROVE RInv'
    BY <2>1, RunOther DEF PlanOff
  <2>2. CASE OpenDay
    BY <2>2, RunOpen
  <2>3. ASSUME NEW e \in Staff, NEW c \in Codes, Assign(e, c) PROVE RInv'
    BY <2>3, RunAssign
  <2>4. ASSUME NEW c \in Codes, Unfilled(c) PROVE RInv'
    BY <2>4, RunOther DEF Unfilled
  <2>5. CASE CloseDay
    BY <2>5, RunClose
  <2>6. CASE UNCHANGED vars
    BY <2>6, RunOther DEF vars
  <2> QED
    BY <2>1, <2>2, <2>3, <2>4, <2>5, <2>6 DEF Next
<1> QED
  BY <1>1, RunInit, InvAlways, PTL DEF Spec, RInv

-----------------------------------------------------------------------------
(* Slots.  Of the day that is filled, a slot is entered, reported or still  *)
(* to fill.                                                                 *)

On(d, c) == {x \in roster : x[2] = d /\ x[3] = c}

Counted ==
    open => \A c \in Codes : Cardinality(On(day, c)) + gaps[day][c] + todo[c] = mix[day][c]

SInv == SlotsAccounted /\ Counted

LEMMA OnFinite ==
  ASSUME IInv, NEW d, NEW c PROVE IsFiniteSet(On(d, c)) /\ Cardinality(On(d, c)) \in Nat
<1> DEFINE entry == [e \in Staff |-> <<e, d, c>>]
           All == {entry[e] : e \in Staff}
<1>1. IsFiniteSet(All)
  <2>1. entry \in Surjection(Staff, All)
    BY DEF Surjection
  <2> QED
    BY <2>1, StaffAssumption, FS_Surjection
<1>2. On(d, c) \subseteq All
  BY DEF On, IInv, TypeOK
<1> HIDE DEF All
<1> QED
  BY <1>1, <1>2, FS_Subset, FS_CardinalityType

\* Entries that are no shifts of a mix fill no slot.
LEMMA OnSame ==
  ASSUME NEW New, roster' = roster \cup New, NEW c \in Codes, NEW d,
         \A x \in New : x[3] \notin Codes \/ x[2] # d
  PROVE  On(d, c)' = On(d, c)
BY DEF On

LEMMA NoSlotEntry == "L" \notin Codes /\ OFF \notin Codes
BY DEF Codes, OFF

\* Numbers of slots are numbers.
LEMMA SlotTypes ==
  ASSUME IInv, NEW d \in Days, NEW c \in Codes
  PROVE  gaps[d][c] \in Nat /\ todo[c] \in Nat /\ mix[d][c] \in Nat
BY InputAssumption DEF IInv, TypeOK

LEMMA SlotsOpen == ASSUME IInv, SInv, OpenDay PROVE SInv'
<1>1. ~open /\ day \in Days /\ day \in Nat
  BY NumberAssumption DEF OpenDay, IInv, TypeOK, Days
<1>2. UNCHANGED <<day, gaps, mix>> /\ todo' = mix[day]
  BY DEF OpenDay
<1>3. \A d, c : c \in Codes => On(d, c)' = On(d, c)
  <2> DEFINE New == {<<e, day, "L">> : e \in OnLeave \ off[day]}
                       \cup {<<e, day, OFF>> : e \in off[day] \ OnLeave}
  <2>1. roster' = roster \cup New
    BY DEF OpenDay
  <2>2. \A x \in New : x[3] \notin Codes
    BY NoSlotEntry
  <2> HIDE DEF New
  <2> QED
    BY <2>1, <2>2, OnSame
<1>4. SlotsAccounted'
  BY <1>2, <1>3 DEF SInv, SlotsAccounted, On
<1>5. Counted'
  <2> SUFFICES ASSUME NEW c \in Codes
               PROVE  Cardinality(On(day, c)) + gaps[day][c] + mix[day][c] = mix[day][c]
    BY <1>2, <1>3 DEF Counted
  <2>1. On(day, c) = {}
    BY <1>1 DEF On, IInv, EnteredInOrder
  <2>2. gaps[day][c] = 0
    BY <1>1 DEF IInv, NoEarlyGaps, NoSlots
  <2> QED
    BY <1>1, <2>1, <2>2, FS_EmptySet, SlotTypes
<1> QED
  BY <1>4, <1>5 DEF SInv

LEMMA SlotsAssign ==
  ASSUME IInv, SInv, NEW e \in Staff, NEW c \in Codes, Assign(e, c) PROVE SInv'
<1>1. open /\ day \in Days /\ day \in Nat /\ todo[c] > 0 /\ e \notin assigned
  BY PoolIsEligible, NumberAssumption DEF Assign, Current, Eligible, IInv, EnteredInOrder, Days
<1>2. UNCHANGED <<day, gaps, mix, open>> /\ roster' = roster \cup {<<e, day, c>>}
  BY DEF Assign
<1>3. <<e, day, c>> \notin roster
  BY <1>1 DEF IInv, EnteredInOrder
<1>4. \A k, d : (k # c \/ d # day) => On(d, k)' = On(d, k)
  BY <1>2 DEF On
<1>5. On(day, c)' = On(day, c) \cup {<<e, day, c>>} /\ <<e, day, c>> \notin On(day, c)
  BY <1>2, <1>3 DEF On
<1>6. Cardinality(On(day, c)') = Cardinality(On(day, c)) + 1 /\ Cardinality(On(day, c)) \in Nat
  BY <1>5, OnFinite, FS_AddElement
<1>7. todo'[c] = todo[c] - 1 /\ \A k \in Codes \ {c} : todo'[k] = todo[k]
  BY DEF Assign, IInv, TypeOK
<1>8. SlotsAccounted'
  <2> SUFFICES ASSUME NEW d \in 1 .. day - 1, NEW k \in Codes
               PROVE  Cardinality(On(d, k)') + gaps[d][k] = mix[d][k]
    BY <1>2 DEF SlotsAccounted, On
  <2>1. d # day
    BY <1>1
  <2> QED
    BY <1>4, <2>1 DEF SInv, SlotsAccounted, On
<1>9. Counted'
  <2> SUFFICES ASSUME NEW k \in Codes
               PROVE  Cardinality(On(day, k)') + gaps[day][k] + todo'[k] = mix[day][k]
    BY <1>2 DEF Counted, On
  <2>1. Cardinality(On(day, k)) + gaps[day][k] + todo[k] = mix[day][k]
    BY <1>1 DEF SInv, Counted
  <2>2. CASE k = c
    BY <2>1, <2>2, <1>1, <1>6, <1>7, SlotTypes
  <2>3. CASE k # c
    <3>1. On(day, k)' = On(day, k)
      BY <1>2, <2>3 DEF On
    <3> QED
      BY <2>1, <2>3, <3>1, <1>7
  <2> QED
    BY <2>2, <2>3
<1> QED
  BY <1>8, <1>9 DEF SInv

LEMMA SlotsUnfilled == ASSUME IInv, SInv, NEW c \in Codes, Unfilled(c) PROVE SInv'
<1>1. open /\ day \in Days /\ day \in Nat
  BY NumberAssumption DEF Unfilled, Current, IInv, EnteredInOrder, Days
<1>2. UNCHANGED <<day, mix, open, roster>>
  BY DEF Unfilled
<1>3. /\ todo'[c] = todo[c] - 1 /\ \A k \in Codes \ {c} : todo'[k] = todo[k]
      /\ gaps'[day][c] = gaps[day][c] + 1
      /\ \A d \in Days, k \in Codes : (k # c \/ d # day) => gaps'[d][k] = gaps[d][k]
  BY <1>1 DEF Unfilled, IInv, TypeOK
<1>4. \A d, k : On(d, k)' = On(d, k)
  BY <1>2 DEF On
<1>5. SlotsAccounted'
  <2> SUFFICES ASSUME NEW d \in 1 .. day - 1, NEW k \in Codes
               PROVE  Cardinality(On(d, k)') + gaps'[d][k] = mix[d][k]
    BY <1>2 DEF SlotsAccounted, On
  <2>1. d # day /\ d \in Days
    BY <1>1, NumberAssumption DEF Days
  <2> QED
    BY <1>3, <1>4, <2>1 DEF SInv, SlotsAccounted, On
<1>6. Counted'
  <2> SUFFICES ASSUME NEW k \in Codes
               PROVE  Cardinality(On(day, k)') + gaps'[day][k] + todo'[k] = mix[day][k]
    BY <1>2 DEF Counted, On
  <2>1. /\ Cardinality(On(day, k)) + gaps[day][k] + todo[k] = mix[day][k]
        /\ Cardinality(On(day, k)) \in Nat
    BY <1>1, OnFinite DEF SInv, Counted
  <2>2. gaps[day][k] \in Nat /\ todo[k] \in Nat /\ mix[day][k] \in Nat
    BY <1>1, SlotTypes
  <2> QED
    <3>1. On(day, k)' = On(day, k)
      BY <1>2 DEF On
    <3>2. CASE k = c
      BY <1>3, <2>1, <2>2, <3>1, <3>2
    <3>3. CASE k # c
      BY <1>1, <1>3, <2>1, <3>1, <3>3
    <3> QED
      BY <3>2, <3>3
<1> QED
  BY <1>5, <1>6 DEF SInv

LEMMA SlotsClose == ASSUME IInv, SInv, CloseDay PROVE SInv'
<1>1. open /\ ~open' /\ todo = NoSlots /\ day' = day + 1 /\ day \in Days /\ day \in Nat
  BY NumberAssumption DEF CloseDay, IInv, EnteredInOrder, Days
<1>2. UNCHANGED <<gaps, mix>>
  BY DEF CloseDay
<1>3. \A d, c : c \in Codes => On(d, c)' = On(d, c)
  <2> DEFINE New == {<<e, day, OFF>> : e \in Staff \ assigned}
  <2>1. roster' = roster \cup New /\ \A x \in New : x[3] \notin Codes
    BY NoSlotEntry DEF CloseDay
  <2> HIDE DEF New
  <2> QED
    BY <2>1, OnSame
<1>4. \A c \in Codes : Cardinality(On(day, c)) + gaps[day][c] = mix[day][c]
  <2> SUFFICES ASSUME NEW c \in Codes
               PROVE  Cardinality(On(day, c)) + gaps[day][c] = mix[day][c]
    OBVIOUS
  <2>1. /\ Cardinality(On(day, c)) + gaps[day][c] + 0 = mix[day][c]
        /\ Cardinality(On(day, c)) \in Nat /\ gaps[day][c] \in Nat
    BY <1>1, OnFinite, SlotTypes DEF SInv, Counted, NoSlots
  <2> QED
    BY <2>1
<1>5. SlotsAccounted'
  <2> SUFFICES ASSUME NEW d \in 1 .. day, NEW c \in Codes
               PROVE  Cardinality(On(d, c)) + gaps[d][c] = mix[d][c]
    BY <1>1, <1>2, <1>3 DEF SlotsAccounted, On
  <2>1. d = day \/ d \in 1 .. day - 1
    BY <1>1
  <2> QED
    BY <1>4, <2>1 DEF SInv, SlotsAccounted, On
<1> QED
  BY <1>1, <1>5 DEF SInv, Counted

\* Every slot of a day that is closed is in the roster or reported as a gap,
\* and none is both.
THEOREM SlotsAlwaysAccounted == Spec => []SlotsAccounted
<1>1. Init => SInv
  BY DEF Init, SInv, SlotsAccounted, Counted
<1>2. IInv /\ SInv /\ [Next]_vars => SInv'
  <2> SUFFICES ASSUME IInv, SInv, [Next]_vars PROVE SInv'
    OBVIOUS
  <2>1. ASSUME UNCHANGED <<mix, day, open, todo, roster, gaps>> PROVE SInv'
    BY <2>1 DEF SInv, SlotsAccounted, Counted, On
  <2> QED
    BY <2>1, SlotsOpen, SlotsAssign, SlotsUnfilled, SlotsClose DEF Next, PlanOff, vars
<1> QED
  BY <1>1, <1>2, InvAlways, PTL DEF Spec, SInv
=============================================================================
