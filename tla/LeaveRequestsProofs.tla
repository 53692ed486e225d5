------------------------ MODULE LeaveRequestsProofs ------------------------
(***************************************************************************)
(* What the passes of SlaEscalation keep next to the desk, for any number  *)
(* of requests, reports, reviewers and handlers: whoever must hear of an   *)
(* escalation hears of it, however many passes overlap, and hears of it    *)
(* once, if passes of a kind do not overlap.  Each has an inductive        *)
(* invariant that says what a pass in progress has still to do.  And what  *)
(* the desk keeps: where one call follows another, no leave is filed that  *)
(* the entitlement does not cover.                                         *)
(***************************************************************************)
EXTENDS LeaveRequests, FiniteSetTheorems, TLAPS

\* Without a failure, who has looked up the reviewers has found them all.
CacheIsWhole == failures = 0 => \A p \in Passes : cache[p] \in {None, Reviewers}

\* Passes of a kind do not overlap.
OnePassEach ==
    /\ \A p, q \in RequestPasses : p = q
    /\ \A p, q \in ReportPasses : p = q

\* A pass works on its own table.
OwnTable ==
    \A p \in Passes :
        LET own == IF p \in RequestPasses THEN Requests ELSE Reports
        IN  todo[p] \subseteq own /\ item[p] \in own \cup {None}

\* What holds of a request whatever fails, and of a report until then.
Sure(x) == x \in Requests \/ failures = 0

\* Nobody has heard of what is not stamped, nor of what a pass has yet to say.
NothingSaidEarly ==
    /\ \A x \in Items \ escalated, u \in Reviewers : Sure(x) => notified[x][u] = 0
    /\ \A p \in Passes, x \in Items : Sure(x) =>
          /\ x \in todo[p] => x \notin escalated
          /\ (item[p] = x /\ at[p] = "lookup") => \A u \in Reviewers : notified[x][u] = 0
          /\ (item[p] = x /\ at[p] = "notify") => \A u \in togo[p] : notified[x][u] = 0
          /\ item[p] = x => x \in escalated

-----------------------------------------------------------------------------
(* The initial states.                                                     *)

LEMMA InvInit ==
  Init => SlaTypeOK /\ CacheIsWhole /\ StampedIsTold /\ OwnTable /\ NothingSaidEarly /\ ToldOnce
<1> SUFFICES ASSUME Init
             PROVE  SlaTypeOK /\ CacheIsWhole /\ StampedIsTold /\ OwnTable /\ NothingSaidEarly
                    /\ ToldOnce
  OBVIOUS
<1>1. SlaTypeOK
  BY SlaBoundAssumption DEF Init, SlaInit, SlaTypeOK
<1>2. CacheIsWhole /\ StampedIsTold /\ OwnTable
  BY DEF Init, SlaInit, CacheIsWhole, StampedIsTold, OwnTable
<1>3. NothingSaidEarly /\ ToldOnce
  BY ItemAssumption DEF Init, SlaInit, NothingSaidEarly, ToldOnce
<1> QED
  BY <1>1, <1>2, <1>3

-----------------------------------------------------------------------------
(* The passes.                                                             *)

\* A pass keeps its types, and has an item in hand when it needs one.
LEMMA SlaTypes ==
  ASSUME SlaTypeOK, SlaNext
  PROVE  SlaTypeOK'
<1>1. ASSUME NEW x \in Items, FallDue(x) PROVE SlaTypeOK'
  BY <1>1, SlaBoundAssumption, ItemAssumption DEF FallDue, SlaTypeOK, Items, Passes
<1>2. ASSUME NEW p \in Passes, StartPass(p) PROVE SlaTypeOK'
  <2>1. Overdue(p) \subseteq Items
    BY DEF Overdue, Items
  <2>2. PICK rows \in SUBSET Items : todo' = [todo EXCEPT ![p] = rows]
    BY <1>2, <2>1 DEF StartPass, kSubset
  <2> QED
    BY <1>2, <2>2 DEF StartPass, SlaTypeOK
<1>3. ASSUME NEW p \in Passes, Stamp(p) PROVE SlaTypeOK'
  BY <1>3, SlaBoundAssumption, ItemAssumption DEF Stamp, PassEnds, Fails, SlaTypeOK, Items, Passes
<1>4. ASSUME NEW p \in Passes, Lookup(p) PROVE SlaTypeOK'
  BY <1>4, SlaBoundAssumption, ItemAssumption DEF Lookup, Fails, SlaTypeOK, Items, Passes
<1>5. ASSUME NEW p \in Passes, Notify(p) PROVE SlaTypeOK'
  BY <1>5, SlaBoundAssumption, ItemAssumption DEF Notify, Fails, SlaTypeOK, Items, Passes
<1>6. ASSUME NEW p \in Passes, NextItem(p) PROVE SlaTypeOK'
  BY <1>6, SlaBoundAssumption, ItemAssumption DEF NextItem, PassEnds, SlaTypeOK, Items, Passes
<1>7. ASSUME NEW p \in Passes, Stop(p) PROVE SlaTypeOK'
  BY <1>7, SlaBoundAssumption, ItemAssumption DEF Stop, PassEnds, Fails, SlaTypeOK, Items, Passes
<1> QED
  BY <1>1, <1>2, <1>3, <1>4, <1>5, <1>6, <1>7 DEF SlaNext, Pass

\* A lookup that does not fail finds every reviewer.
LEMMA CacheNext ==
  ASSUME SlaTypeOK, CacheIsWhole, SlaNext
  PROVE  CacheIsWhole'
<1>1. ASSUME NEW x \in Items, FallDue(x) PROVE CacheIsWhole'
  BY <1>1, SlaBoundAssumption DEF FallDue, SlaTypeOK, CacheIsWhole
<1>2. ASSUME NEW p \in Passes, StartPass(p) PROVE CacheIsWhole'
  BY <1>2, SlaBoundAssumption DEF StartPass, SlaTypeOK, CacheIsWhole
<1>3. ASSUME NEW p \in Passes, Stamp(p) PROVE CacheIsWhole'
  BY <1>3, SlaBoundAssumption DEF Stamp, PassEnds, Fails, SlaTypeOK, CacheIsWhole
<1>4. ASSUME NEW p \in Passes, Lookup(p) PROVE CacheIsWhole'
  BY <1>4, SlaBoundAssumption DEF Lookup, Fails, SlaTypeOK, CacheIsWhole
<1>5. ASSUME NEW p \in Passes, Notify(p) PROVE CacheIsWhole'
  BY <1>5, SlaBoundAssumption DEF Notify, Fails, SlaTypeOK, CacheIsWhole
<1>6. ASSUME NEW p \in Passes, NextItem(p) PROVE CacheIsWhole'
  BY <1>6, SlaBoundAssumption DEF NextItem, PassEnds, SlaTypeOK, CacheIsWhole
<1>7. ASSUME NEW p \in Passes, Stop(p) PROVE CacheIsWhole'
  BY <1>7, SlaBoundAssumption DEF Stop, PassEnds, Fails, SlaTypeOK, CacheIsWhole
<1> QED
  BY <1>1, <1>2, <1>3, <1>4, <1>5, <1>6, <1>7 DEF SlaNext, Pass

\* A reviewer who is still to be told of an item is told, or stays in hand.
LEMMA StampedNext ==
  ASSUME SlaTypeOK, CacheIsWhole, StampedIsTold, SlaNext
  PROVE  StampedIsTold'
<1>1. ASSUME NEW x \in Items, FallDue(x) PROVE StampedIsTold'
  BY <1>1, SlaBoundAssumption DEF FallDue, SlaTypeOK, CacheIsWhole, StampedIsTold
<1>2. ASSUME NEW p \in Passes, StartPass(p) PROVE StampedIsTold'
  BY <1>2, SlaBoundAssumption DEF StartPass, SlaTypeOK, CacheIsWhole, StampedIsTold
<1>3. ASSUME NEW p \in Passes, Stamp(p) PROVE StampedIsTold'
  BY <1>3, SlaBoundAssumption DEF Stamp, PassEnds, Fails, SlaTypeOK, CacheIsWhole, StampedIsTold
<1>4. ASSUME NEW p \in Passes, Lookup(p) PROVE StampedIsTold'
  BY <1>4, SlaBoundAssumption DEF Lookup, Fails, SlaTypeOK, CacheIsWhole, StampedIsTold
<1>5. ASSUME NEW p \in Passes, Notify(p) PROVE StampedIsTold'
  BY <1>5, SlaBoundAssumption DEF Notify, Fails, SlaTypeOK, CacheIsWhole, StampedIsTold
<1>6. ASSUME NEW p \in Passes, NextItem(p) PROVE StampedIsTold'
  BY <1>6, SlaBoundAssumption DEF NextItem, PassEnds, SlaTypeOK, CacheIsWhole, StampedIsTold
<1>7. ASSUME NEW p \in Passes, Stop(p) PROVE StampedIsTold'
  BY <1>7, SlaBoundAssumption DEF Stop, PassEnds, Fails, SlaTypeOK, CacheIsWhole, StampedIsTold
<1> QED
  BY <1>1, <1>2, <1>3, <1>4, <1>5, <1>6, <1>7 DEF SlaNext, Pass

\* A pass goes on to rows of its table only.
LEMMA OwnTableNext ==
  ASSUME SlaTypeOK, OwnTable, SlaNext
  PROVE  OwnTable'
<1>1. ASSUME NEW x \in Items, FallDue(x) PROVE OwnTable'
  BY <1>1 DEF FallDue, SlaTypeOK, OwnTable
<1>2. ASSUME NEW p \in Passes, StartPass(p) PROVE OwnTable'
  <2>1. Overdue(p) \subseteq (IF p \in RequestPasses THEN Requests ELSE Reports) \ escalated
    BY DEF Overdue
  <2>2. PICK rows \in SUBSET Overdue(p) : todo' = [todo EXCEPT ![p] = rows]
    BY <1>2 DEF StartPass, kSubset
  <2> QED
    BY <1>2, <2>1, <2>2 DEF StartPass, SlaTypeOK, OwnTable
<1>3. ASSUME NEW p \in Passes, Stamp(p) PROVE OwnTable'
  BY <1>3 DEF Stamp, PassEnds, Fails, SlaTypeOK, OwnTable
<1>4. ASSUME NEW p \in Passes, Lookup(p) PROVE OwnTable'
  BY <1>4 DEF Lookup, Fails, SlaTypeOK, OwnTable
<1>5. ASSUME NEW p \in Passes, Notify(p) PROVE OwnTable'
  BY <1>5 DEF Notify, Fails, SlaTypeOK, OwnTable
<1>6. ASSUME NEW p \in Passes, NextItem(p) PROVE OwnTable'
  BY <1>6 DEF NextItem, PassEnds, SlaTypeOK, OwnTable
<1>7. ASSUME NEW p \in Passes, Stop(p) PROVE OwnTable'
  BY <1>7 DEF Stop, PassEnds, Fails, SlaTypeOK, OwnTable
<1> QED
  BY <1>1, <1>2, <1>3, <1>4, <1>5, <1>6, <1>7 DEF SlaNext, Pass

\* A pass stamps before it speaks, and speaks of a row once.
LEMMA EarlyNext ==
  ASSUME OnePassEach, SlaTypeOK, OwnTable, NothingSaidEarly, SlaNext
  PROVE  NothingSaidEarly'
<1>1. ASSUME NEW x \in Items, FallDue(x) PROVE NothingSaidEarly'
  BY <1>1, SlaBoundAssumption, ItemAssumption, PassAssumption DEF FallDue, SlaTypeOK, OwnTable, NothingSaidEarly, OnePassEach, Sure, Items, Passes
<1>2. ASSUME NEW p \in Passes, StartPass(p) PROVE NothingSaidEarly'
  <2>1. Overdue(p) \subseteq (IF p \in RequestPasses THEN Requests ELSE Reports) \ escalated
    BY DEF Overdue
  <2>2. PICK rows \in SUBSET Overdue(p) : todo' = [todo EXCEPT ![p] = rows]
    BY <1>2 DEF StartPass, kSubset
  <2> QED
    BY <1>2, <2>1, <2>2 DEF StartPass, SlaTypeOK, NothingSaidEarly, Sure
<1>3. ASSUME NEW p \in Passes, Stamp(p) PROVE NothingSaidEarly'
  BY <1>3, SlaBoundAssumption, ItemAssumption, PassAssumption DEF Stamp, PassEnds, Fails, SlaTypeOK, OwnTable, NothingSaidEarly, OnePassEach, Sure, Items, Passes
<1>4. ASSUME NEW p \in Passes, Lookup(p) PROVE NothingSaidEarly'
  BY <1>4, SlaBoundAssumption, ItemAssumption, PassAssumption DEF Lookup, Fails, SlaTypeOK, OwnTable, NothingSaidEarly, OnePassEach, Sure, Items, Passes
<1>5. ASSUME NEW p \in Passes, Notify(p) PROVE NothingSaidEarly'
  BY <1>5, SlaBoundAssumption, ItemAssumption, PassAssumption DEF Notify, Fails, SlaTypeOK, OwnTable, NothingSaidEarly, OnePassEach, Sure, Items, Passes
<1>6. ASSUME NEW p \in Passes, NextItem(p) PROVE NothingSaidEarly'
  BY <1>6, SlaBoundAssumption, ItemAssumption, PassAssumption DEF NextItem, PassEnds, SlaTypeOK, OwnTable, NothingSaidEarly, OnePassEach, Sure, Items, Passes
<1>7. ASSUME NEW p \in Passes, Stop(p) PROVE NothingSaidEarly'
  BY <1>7, SlaBoundAssumption, ItemAssumption, PassAssumption DEF Stop, PassEnds, Fails, SlaTypeOK, OwnTable, NothingSaidEarly, OnePassEach, Sure, Items, Passes
<1> QED
  BY <1>1, <1>2, <1>3, <1>4, <1>5, <1>6, <1>7 DEF SlaNext, Pass

\* So it is said once.
LEMMA OnceNext ==
  ASSUME SlaTypeOK, NothingSaidEarly, ToldOnce, SlaNext
  PROVE  ToldOnce'
<1>1. ASSUME NEW x \in Items, FallDue(x) PROVE ToldOnce'
  BY <1>1, SlaBoundAssumption DEF FallDue, SlaTypeOK, NothingSaidEarly, ToldOnce, Sure
<1>2. ASSUME NEW p \in Passes, StartPass(p) PROVE ToldOnce'
  BY <1>2, SlaBoundAssumption DEF StartPass, SlaTypeOK, NothingSaidEarly, ToldOnce, Sure
<1>3. ASSUME NEW p \in Passes, Stamp(p) PROVE ToldOnce'
  BY <1>3, SlaBoundAssumption DEF Stamp, PassEnds, Fails, SlaTypeOK, NothingSaidEarly, ToldOnce, Sure
<1>4. ASSUME NEW p \in Passes, Lookup(p) PROVE ToldOnce'
  BY <1>4, SlaBoundAssumption DEF Lookup, Fails, SlaTypeOK, NothingSaidEarly, ToldOnce, Sure
<1>5. ASSUME NEW p \in Passes, Notify(p) PROVE ToldOnce'
  BY <1>5, SlaBoundAssumption DEF Notify, Fails, SlaTypeOK, NothingSaidEarly, ToldOnce, Sure
<1>6. ASSUME NEW p \in Passes, NextItem(p) PROVE ToldOnce'
  BY <1>6, SlaBoundAssumption DEF NextItem, PassEnds, SlaTypeOK, NothingSaidEarly, ToldOnce, Sure
<1>7. ASSUME NEW p \in Passes, Stop(p) PROVE ToldOnce'
  BY <1>7, SlaBoundAssumption DEF Stop, PassEnds, Fails, SlaTypeOK, NothingSaidEarly, ToldOnce, Sure
<1> QED
  BY <1>1, <1>2, <1>3, <1>4, <1>5, <1>6, <1>7 DEF SlaNext, Pass

-----------------------------------------------------------------------------
(* The desk: it adds failures, and touches nothing else of the passes.     *)

LEMMA DeskNext ==
  ASSUME SlaTypeOK, Call
  PROVE  /\ failures' \in 0 .. MaxFailures /\ (failures' = 0 => failures = 0)
         /\ UNCHANGED <<due, escalated, notified, at, todo, item, cache, togo>>
  BY SlaBoundAssumption
  DEF SlaTypeOK, Call, slaVars, CreateLeave, SetEntitlement, InsertRequest, ReadTaken, ReadPending,
      InsertLeave, Approve, Reject, WriteDecision, Fail, Fails, Resolve

\* What the desk does is no matter to the invariants.
LEMMA DeskKeeps ==
  ASSUME SlaTypeOK, Call \/ UNCHANGED vars
  PROVE  /\ SlaTypeOK'
         /\ CacheIsWhole => CacheIsWhole'
         /\ StampedIsTold => StampedIsTold'
         /\ OwnTable => OwnTable'
         /\ NothingSaidEarly => NothingSaidEarly'
         /\ ToldOnce => ToldOnce'
<1>1. /\ failures' \in 0 .. MaxFailures /\ (failures' = 0 => failures = 0)
      /\ UNCHANGED <<due, escalated, notified, at, todo, item, cache, togo>>
  BY DeskNext DEF vars, slaVars, SlaTypeOK
<1>2. SlaTypeOK'
  BY <1>1 DEF SlaTypeOK
<1>3. (CacheIsWhole => CacheIsWhole') /\ (OwnTable => OwnTable') /\ (ToldOnce => ToldOnce')
  BY <1>1 DEF CacheIsWhole, OwnTable, ToldOnce
<1>4. StampedIsTold => StampedIsTold'
  BY <1>1 DEF StampedIsTold
<1>5. NothingSaidEarly => NothingSaidEarly'
  BY <1>1 DEF NothingSaidEarly, Sure
<1> QED
  BY <1>2, <1>3, <1>4, <1>5

-----------------------------------------------------------------------------
(* The theorems on escalations.                                            *)

\* escalateOverdue, escalateOverdueTechReports: without a failure every reviewer
\* is told of what is stamped, or is about to be, however many passes overlap.
THEOREM StampedAlwaysTold == Spec => []StampedIsTold
<1> DEFINE J == SlaTypeOK /\ CacheIsWhole /\ StampedIsTold
<1>1. Init => J
  BY InvInit
<1>2. J /\ [Next]_vars => J'
  BY SlaTypes, CacheNext, StampedNext, DeskKeeps DEF Next
<1> QED
  BY <1>1, <1>2, PTL DEF Spec

\* "Idempotent via requests.escalated_at": nobody is told twice of a request,
\* whatever fails, nor of a report before a failure, if passes do not overlap.
THEOREM ToldOnceAlways == ASSUME OnePassEach PROVE Spec => []ToldOnce
<1> DEFINE J == SlaTypeOK /\ OwnTable /\ NothingSaidEarly /\ ToldOnce
<1>1. Init => J
  BY InvInit
<1>2. J /\ [Next]_vars => J'
  BY OnePassEach, SlaTypes, OwnTableNext, EarlyNext, OnceNext, DeskKeeps DEF Next
<1> QED
  BY <1>1, <1>2, PTL DEF Spec

-----------------------------------------------------------------------------
(* The days of a set of leaves.  MapThenSumSet takes them in an order of    *)
(* its own; the sum is the number of days there are, each counted once, and *)
(* what is known of cardinalities is then known of sums.                    *)

DaysOf(F, S) == MapThenSumSet(LAMBDA r : F[r], S)

DaySet(F, S) == UNION {{r} \X (1 .. F[r]) : r \in S}

\* The recursive function under MapThenSumSet.
IsSum(F, S, f) ==
    f = [s \in SUBSET S |-> IF s = {} THEN 0
                            ELSE F[CHOOSE r \in s : TRUE] + f[s \ {CHOOSE r \in s : TRUE}]]

\* The days of one leave.
LEMMA OneLeave ==
  ASSUME NEW F, NEW r, F[r] \in Nat
  PROVE  /\ IsFiniteSet({r} \X (1 .. F[r]))
         /\ Cardinality({r} \X (1 .. F[r])) = F[r]
<1> DEFINE n == F[r]
<1>1. n \in Nat
  OBVIOUS
<1> HIDE DEF n
<1>2. IsFiniteSet({r}) /\ Cardinality({r}) = 1
  BY FS_Singleton
<1>3. IsFiniteSet(1 .. n) /\ Cardinality(1 .. n) = IF 1 > n THEN 0 ELSE n - 1 + 1
  BY <1>1, FS_Interval
<1>4. /\ IsFiniteSet({r} \X (1 .. n))
      /\ Cardinality({r} \X (1 .. n)) = Cardinality({r}) * Cardinality(1 .. n)
  BY <1>2, <1>3, FS_Product
<1>5. Cardinality({r} \X (1 .. n)) = n
  BY <1>1, <1>2, <1>3, <1>4
<1> QED
  BY <1>4, <1>5 DEF n

LEMMA DaySetFinite ==
  ASSUME NEW F, NEW S, IsFiniteSet(S), \A r \in S : F[r] \in Nat
  PROVE  IsFiniteSet(DaySet(F, S)) /\ Cardinality(DaySet(F, S)) \in Nat
<1> DEFINE T == {{r} \X (1 .. F[r]) : r \in S}
           f == [r \in S |-> {r} \X (1 .. F[r])]
<1>1. f \in Surjection(S, T)
  BY DEF Surjection
<1>2. \A U \in T : IsFiniteSet(U)
  BY OneLeave
<1>3. IsFiniteSet(T)
  <2> HIDE DEF T, f
  <2> QED
    BY <1>1, FS_Surjection
<1>4. IsFiniteSet(UNION T)
  <2> HIDE DEF T
  <2> QED
    BY <1>2, <1>3, FS_UNION
<1> QED
  BY <1>4, FS_CardinalityType DEF DaySet

\* Leaves apart have days apart.
LEMMA DaySetUnion ==
  ASSUME NEW F, NEW S, NEW T, IsFiniteSet(S), IsFiniteSet(T), S \cap T = {},
         \A r \in S \cup T : F[r] \in Nat
  PROVE  Cardinality(DaySet(F, S \cup T)) = Cardinality(DaySet(F, S)) + Cardinality(DaySet(F, T))
<1> DEFINE A == DaySet(F, S)
           B == DaySet(F, T)
<1>1. DaySet(F, S \cup T) = A \cup B
  BY DEF DaySet
<1>2. A \cap B = {}
  BY DEF DaySet
<1>3. IsFiniteSet(A) /\ IsFiniteSet(B) /\ Cardinality(A) \in Nat /\ Cardinality(B) \in Nat
  BY DaySetFinite
<1>4. Cardinality(A \cap B) = 0
  BY <1>2, FS_EmptySet
<1> HIDE DEF A, B
<1>5. Cardinality(A \cup B) = Cardinality(A) + Cardinality(B) - Cardinality(A \cap B)
  BY <1>3, FS_Union
<1>6. Cardinality(A \cup B) = Cardinality(A) + Cardinality(B)
  BY <1>3, <1>4, <1>5
<1> QED
  BY <1>1, <1>6 DEF A, B

LEMMA DaySetAdd ==
  ASSUME NEW F, NEW S, IsFiniteSet(S), NEW r \in S, \A x \in S : F[x] \in Nat
  PROVE  Cardinality(DaySet(F, S)) = F[r] + Cardinality(DaySet(F, S \ {r}))
<1>1. IsFiniteSet({r}) /\ IsFiniteSet(S \ {r}) /\ {r} \cup (S \ {r}) = S
  BY FS_Singleton, FS_Subset
<1>2. Cardinality(DaySet(F, {r} \cup (S \ {r})))
        = Cardinality(DaySet(F, {r})) + Cardinality(DaySet(F, S \ {r}))
  BY <1>1, DaySetUnion
<1>3. DaySet(F, {r}) = {r} \X (1 .. F[r])
  BY DEF DaySet
<1> QED
  BY <1>1, <1>2, <1>3, OneLeave

LEMMA DaySetIsSum ==
  ASSUME NEW F, NEW S, IsFiniteSet(S), \A r \in S : F[r] \in Nat
  PROVE  IsSum(F, S, [s \in SUBSET S |-> Cardinality(DaySet(F, s))])
<1> DEFINE f == [s \in SUBSET S |-> Cardinality(DaySet(F, s))]
<1>1. DaySet(F, {}) = {}
  BY DEF DaySet
<1>2. f[{}] = 0
  BY <1>1, FS_EmptySet
<1>3. ASSUME NEW s \in SUBSET S, s # {}
      PROVE  f[s] = F[CHOOSE r \in s : TRUE] + f[s \ {CHOOSE r \in s : TRUE}]
  <2>1. PICK r : r = CHOOSE x \in s : TRUE
    OBVIOUS
  <2>2. r \in s
    BY <1>3, <2>1
  <2>3. IsFiniteSet(s) /\ \A x \in s : F[x] \in Nat
    BY FS_Subset
  <2>4. Cardinality(DaySet(F, s)) = F[r] + Cardinality(DaySet(F, s \ {r}))
    BY <2>2, <2>3, DaySetAdd
  <2>5. f[s] = F[r] + f[s \ {r}]
    BY <2>4
  <2> QED
    BY <2>1, <2>5
<1> QED
  BY <1>2, <1>3 DEF IsSum

\* Two solutions agree: they would have to differ on a least set.
LEMMA SumUnique ==
  ASSUME NEW F, NEW S, IsFiniteSet(S), NEW f, NEW g, IsSum(F, S, f), IsSum(F, S, g)
  PROVE  f = g
<1> DEFINE B == {s \in SUBSET S : f[s] # g[s]}
<1>1. CASE B # {}
  <2>1. B \subseteq SUBSET S
    OBVIOUS
  <2>2. IsWellFoundedOn(StrictSubsetOrdering(S), SUBSET S)
    BY FS_StrictSubsetOrderingWellFounded, FS_FiniteSubsetsOfFinite
  <2>3. PICK T \in B : \A U \in B : ~(<<U, T>> \in StrictSubsetOrdering(S))
    <3> HIDE DEF B
    <3> QED
      BY <1>1, <2>1, <2>2, WFMin
  <2>4. T \in SUBSET S /\ T # {}
    BY <2>3 DEF IsSum
  <2>5. PICK r : r = CHOOSE x \in T : TRUE
    OBVIOUS
  <2>6. r \in T
    BY <2>4, <2>5
  <2>7. f[T] = F[r] + f[T \ {r}] /\ g[T] = F[r] + g[T \ {r}]
    BY <2>4, <2>5 DEF IsSum
  <2>8. f[T \ {r}] = g[T \ {r}]
    <3>1. T \ {r} \in SUBSET S /\ <<T \ {r}, T>> \in StrictSubsetOrdering(S)
      BY <2>4, <2>6 DEF StrictSubsetOrdering
    <3> QED
      BY <2>3, <3>1
  <2> QED
    BY <2>3, <2>7, <2>8
<1>2. CASE B = {}
  <2>1. f = [s \in SUBSET S |-> f[s]] /\ g = [s \in SUBSET S |-> g[s]]
    BY DEF IsSum
  <2>2. \A s \in SUBSET S : f[s] = g[s]
    BY <1>2
  <2> QED
    BY <2>1, <2>2
<1> QED
  BY <1>1, <1>2

LEMMA DaysAreCounted ==
  ASSUME NEW F, NEW S, IsFiniteSet(S), \A r \in S : F[r] \in Nat
  PROVE  DaysOf(F, S) = Cardinality(DaySet(F, S)) /\ DaysOf(F, S) \in Nat
<1> DEFINE f == [s \in SUBSET S |-> Cardinality(DaySet(F, s))]
<1>1. DaysOf(F, S) = (CHOOSE g : IsSum(F, S, g))[S]
  BY DEF DaysOf, IsSum, MapThenSumSet, MapThenFoldSet
<1>2. IsSum(F, S, f) /\ \A g : IsSum(F, S, g) => g = f
  BY DaySetIsSum, SumUnique
<1>3. (CHOOSE g : IsSum(F, S, g)) = f
  <2> HIDE DEF f
  <2> QED
    BY <1>2
<1>4. DaysOf(F, S) = Cardinality(DaySet(F, S))
  BY <1>1, <1>3
<1> HIDE DEF f
<1> QED
  BY <1>4, DaySetFinite

\* Leaves apart add up; fewer leaves have no more days.
LEMMA DaysApart ==
  ASSUME NEW F, NEW S, NEW T, IsFiniteSet(S), IsFiniteSet(T), S \cap T = {},
         \A r \in S \cup T : F[r] \in Nat
  PROVE  /\ DaysOf(F, S \cup T) = DaysOf(F, S) + DaysOf(F, T)
         /\ DaysOf(F, S) \in Nat /\ DaysOf(F, T) \in Nat
<1>1. IsFiniteSet(S \cup T)
  BY FS_Union
<1>2. DaysOf(F, S \cup T) = Cardinality(DaySet(F, S \cup T))
  BY <1>1, DaysAreCounted
<1>3. /\ DaysOf(F, S) = Cardinality(DaySet(F, S)) /\ DaysOf(F, S) \in Nat
      /\ DaysOf(F, T) = Cardinality(DaySet(F, T)) /\ DaysOf(F, T) \in Nat
  BY DaysAreCounted
<1> QED
  BY <1>2, <1>3, DaySetUnion

LEMMA DaysFewer ==
  ASSUME NEW F, NEW G, NEW S, NEW T \in SUBSET S, IsFiniteSet(S),
         \A r \in S : F[r] \in Nat, \A r \in T : G[r] = F[r]
  PROVE  /\ DaysOf(G, T) \in Nat /\ DaysOf(F, S) \in Nat
         /\ DaysOf(G, T) <= DaysOf(F, S)
<1>1. IsFiniteSet(T) /\ \A r \in T : G[r] \in Nat
  BY FS_Subset
<1>2. DaySet(G, T) \subseteq DaySet(F, S)
  BY DEF DaySet
<1>3. Cardinality(DaySet(G, T)) <= Cardinality(DaySet(F, S))
  BY <1>2, DaySetFinite, FS_Subset
<1> QED
  BY <1>1, <1>3, DaysAreCounted

-----------------------------------------------------------------------------
(* The desk's own types.                                                   *)

\* The leaves on file whose request has a status of X.
OnFile(X) == {r \in Requests : leave[r] # None /\ status[r] \in X}

LEMMA DaysAtFile ==
  ASSUME NEW X
  PROVE  /\ DaysAt(X) = DaysOf(leave, OnFile(X))
         /\ DaysAt(X)' = DaysOf(leave', OnFile(X)')
<1>1. DaysAt(X) = DaysOf(leave, OnFile(X))
  BY DEF DaysAt, DaysOf, OnFile
<1>2. DaysAt(X)' = DaysOf(leave', OnFile(X)')
  BY DEF DaysAt, DaysOf, OnFile, MapThenSumSet, MapThenFoldSet
<1> QED
  BY <1>1, <1>2

LEMMA OnFileKnown ==
  ASSUME TypeOK, NEW X
  PROVE  IsFiniteSet(OnFile(X)) /\ \A r \in OnFile(X) : leave[r] \in Nat
<1>1. IsFiniteSet(OnFile(X))
  BY ItemAssumption, FS_Subset DEF OnFile
<1> QED
  BY <1>1 DEF OnFile, TypeOK

LEMMA DaysAtType == ASSUME TypeOK, NEW X PROVE DaysAt(X) \in Nat
<1>1. IsFiniteSet(OnFile(X)) /\ \A r \in OnFile(X) : leave[r] \in Nat
  BY OnFileKnown
<1>2. DaysOf(leave, OnFile(X)) \in Nat
  BY <1>1, DaysAreCounted
<1> QED
  BY <1>2, DaysAtFile

LEMMA DeskTypes ==
  ASSUME TypeOK, SlaTypeOK', Call
  PROVE  TypeOK'
<1> USE LeaveAssumption, ItemAssumption DEF TypeOK, Statuses, Items, Handlers, slaVars, leaveVars
<1>1. ASSUME NEW h \in Handlers, NEW days \in Durations, CreateLeave(h, days) PROVE TypeOK'
  BY <1>1 DEF CreateLeave
<1>2. ASSUME NEW h \in Handlers, NEW days \in Entitlements, SetEntitlement(h, days) PROVE TypeOK'
  BY <1>2 DEF SetEntitlement
<1>3. ASSUME NEW h \in Handlers, NEW r \in Requests, InsertRequest(h, r) PROVE TypeOK'
  BY <1>3 DEF InsertRequest
<1>4. ASSUME NEW h \in Handlers, ReadTaken(h) PROVE TypeOK'
  <2>1. PICK n \in Nat : n = DaysAt({"approved"})
    BY DaysAtType
  <2> QED
    BY <1>4, <2>1 DEF ReadTaken
<1>5. ASSUME NEW h \in Handlers, ReadPending(h) PROVE TypeOK'
  BY <1>5 DEF ReadPending, Return
<1>6. ASSUME NEW h \in Handlers, InsertLeave(h) PROVE TypeOK'
  BY <1>6 DEF InsertLeave, Return
<1>7. ASSUME NEW h \in Handlers, NEW r \in Requests, Approve(h, r) PROVE TypeOK'
  BY <1>7 DEF Approve
<1>8. ASSUME NEW h \in Handlers, WriteDecision(h) PROVE TypeOK'
  BY <1>8 DEF WriteDecision, Return
<1>9. ASSUME NEW h \in Handlers, Fail(h) PROVE TypeOK'
  BY <1>9 DEF Fail, Return
<1>10. ASSUME NEW r \in Requests, Reject(r) PROVE TypeOK'
  BY <1>10 DEF Reject
<1>11. ASSUME NEW x \in Reports, Resolve(x) PROVE TypeOK'
  BY <1>11 DEF Resolve
<1> QED
  BY <1>1, <1>2, <1>3, <1>4, <1>5, <1>6, <1>7, <1>8, <1>9, <1>10, <1>11 DEF Call

\* The tables, the calls and the passes keep their types.
THEOREM TypeCorrect == Spec => []TypeOK
<1>1. Init => TypeOK
  BY InvInit, ItemAssumption, LeaveAssumption DEF Init, TypeOK, Statuses, Items, Handlers
<1>2. TypeOK /\ [Next]_vars => TypeOK'
  <2> SUFFICES ASSUME TypeOK, [Next]_vars PROVE TypeOK'
    OBVIOUS
  <2>1. SlaTypeOK
    BY DEF TypeOK
  <2>2. CASE Call
    BY <2>1, <2>2, DeskKeeps, DeskTypes
  <2>3. CASE SlaNext /\ UNCHANGED leaveVars
    <3>1. SlaTypeOK' /\ UNCHANGED status
      BY <2>1, <2>3, SlaTypes DEF SlaNext
    <3> QED
      BY <2>3, <3>1 DEF leaveVars, TypeOK
  <2>4. CASE UNCHANGED vars
    <3>1. SlaTypeOK'
      BY <2>1, <2>4, DeskKeeps
    <3> QED
      BY <2>4, <3>1 DEF vars, leaveVars, TypeOK
  <2> QED
    BY <2>2, <2>3, <2>4 DEF Next
<1> QED
  BY <1>1, <1>2, PTL DEF Spec

-----------------------------------------------------------------------------
(* The entitlement, where one call follows another.                        *)

OneCall == \A g, h \in Handlers : g = h

\* A leave on file has a request.
LeavesFiled == \A r \in Requests : leave[r] # None => status[r] # None

\* What a createLeave in progress has read covers what it files, with what is on
\* file already.
Covered(h) ==
    /\ pc[h] \in {"readTaken", "readPending", "insertRequest", "insertLeave"} =>
          asked[h] \in Nat /\ granted[h] = entitlement
    /\ pc[h] \in {"readTaken", "readPending"} => granted[h] # None
    /\ pc[h] = "readPending" => taken[h] \in Nat /\ DaysAt({"approved"}) <= taken[h]
    /\ pc[h] \in {"insertRequest", "insertLeave"} /\ granted[h] # None =>
          asked[h] + DaysAt({"approved", "pending"}) <= granted[h]
    /\ pc[h] = "insertLeave" => req[h] \in Requests /\ leave[req[h]] = None /\ status[req[h]] # None

BalanceKnown == LeavesFiled /\ \A h \in Handlers : Covered(h)

\* No leave comes to have a status of X, nor another number of days.
NoneJoins(X) ==
    \A r \in Requests : leave'[r] # None /\ status'[r] \in X =>
        leave'[r] = leave[r] /\ status[r] \in X

LEMMA DaysLess ==
  ASSUME TypeOK, NEW X, NoneJoins(X)
  PROVE  DaysAt(X) \in Nat /\ DaysAt(X)' \in Nat /\ DaysAt(X)' <= DaysAt(X)
<1>1. PICK S : S = OnFile(X)
  OBVIOUS
<1>2. PICK T : T = OnFile(X)'
  OBVIOUS
<1>3. T \in SUBSET S /\ \A r \in T : leave'[r] = leave[r]
  BY <1>1, <1>2 DEF OnFile, NoneJoins
<1>4. IsFiniteSet(S) /\ \A r \in S : leave[r] \in Nat
  BY <1>1, OnFileKnown
<1>5. /\ DaysOf(leave', T) \in Nat /\ DaysOf(leave, S) \in Nat
      /\ DaysOf(leave', T) <= DaysOf(leave, S)
  BY <1>3, <1>4, DaysFewer
<1> QED
  BY <1>1, <1>2, <1>5, DaysAtFile

\* Taken and pending are counted by two statements, and no leave by both.
LEMMA DaysSplit ==
  ASSUME TypeOK
  PROVE  DaysAt({"approved", "pending"}) = DaysAt({"approved"}) + DaysAt({"pending"})
<1>1. PICK S : S = OnFile({"approved"})
  OBVIOUS
<1>2. PICK T : T = OnFile({"pending"})
  OBVIOUS
<1>3. OnFile({"approved", "pending"}) = S \cup T /\ S \cap T = {}
  BY <1>1, <1>2 DEF OnFile
<1>4. IsFiniteSet(S) /\ IsFiniteSet(T) /\ \A r \in S \cup T : leave[r] \in Nat
  BY <1>1, <1>2, OnFileKnown
<1>5. DaysOf(leave, S \cup T) = DaysOf(leave, S) + DaysOf(leave, T)
  BY <1>3, <1>4, DaysApart
<1> QED
  BY <1>1, <1>2, <1>3, <1>5, DaysAtFile

\* The leave that is filed adds its days, and no others.
LEMMA DaysFiled ==
  ASSUME TypeOK, NEW h \in Handlers, InsertLeave(h), req[h] \in Requests,
         leave[req[h]] = None, asked[h] \in Nat, NEW X
  PROVE  DaysAt(X) \in Nat /\ DaysAt(X)' \in Nat /\ DaysAt(X)' <= DaysAt(X) + asked[h]
<1>1. PICK S : S = OnFile(X)
  OBVIOUS
<1>2. PICK T : T = OnFile(X)'
  OBVIOUS
<1>3. PICK q \in Requests : q = req[h]
  OBVIOUS
<1>4. PICK n \in Nat : n = asked[h]
  OBVIOUS
<1>5. leave' = [leave EXCEPT ![q] = n] /\ UNCHANGED status
  BY <1>3, <1>4 DEF InsertLeave
<1>6. leave'[q] = n /\ (\A r \in Requests \ {q} : leave'[r] = leave[r]) /\ q \notin S
  BY <1>1, <1>3, <1>5 DEF TypeOK, OnFile
<1>7. T \subseteq S \cup {q}
  BY <1>1, <1>2, <1>5, <1>6 DEF OnFile
<1>8. IsFiniteSet(S) /\ (\A r \in S : leave[r] \in Nat) /\ S \subseteq Requests
  BY <1>1, OnFileKnown DEF OnFile
<1>9. PICK F : F = leave'
  OBVIOUS
<1>10. (\A r \in S : F[r] = leave[r]) /\ F[q] = n
  BY <1>6, <1>8, <1>9
<1>11. IsFiniteSet(S \cup {q}) /\ IsFiniteSet({q}) /\ S \cap {q} = {}
  <2>1. IsFiniteSet({q})
    BY FS_Singleton
  <2>2. IsFiniteSet(S \cup {q})
    BY <1>8, <2>1, FS_Union
  <2> QED
    BY <1>6, <2>1, <2>2
<1>12. \A r \in S \cup {q} : F[r] \in Nat
  BY <1>8, <1>10
<1>13. DaysOf(F, S \cup {q}) = DaysOf(F, S) + DaysOf(F, {q}) /\ DaysOf(F, {q}) \in Nat
  BY <1>8, <1>11, <1>12, DaysApart
<1>14. DaysOf(F, {q}) = n
  <2>1. DaySet(F, {q}) = {q} \X (1 .. F[q])
    BY DEF DaySet
  <2>2. DaysOf(F, {q}) = Cardinality(DaySet(F, {q}))
    BY <1>11, <1>12, DaysAreCounted
  <2> QED
    BY <1>10, <2>1, <2>2, OneLeave
<1>15. /\ DaysOf(F, S) \in Nat /\ DaysOf(leave, S) \in Nat
       /\ DaysOf(F, S) <= DaysOf(leave, S)
  BY <1>8, <1>10, DaysFewer
<1>16. /\ DaysOf(F, T) \in Nat
       /\ DaysOf(F, T) <= DaysOf(F, S \cup {q})
  BY <1>7, <1>11, <1>12, DaysFewer
<1>17. DaysOf(F, T) <= DaysOf(leave, S) + n
  BY <1>13, <1>14, <1>15, <1>16, DaysAreCounted, <1>11, <1>12
<1> QED
  BY <1>1, <1>2, <1>4, <1>9, <1>15, <1>16, <1>17, DaysAtFile

\* A call in progress keeps what it knows while nothing is added.
LEMMA CoveredStays ==
  ASSUME TypeOK, NEW h \in Handlers, Covered(h),
         NoneJoins({"approved"}), NoneJoins({"approved", "pending"}),
         UNCHANGED <<leave, entitlement>>,
         \A r \in Requests : status[r] # None => status'[r] # None,
         pc'[h] = pc[h], req'[h] = req[h], asked'[h] = asked[h],
         granted'[h] = granted[h], taken'[h] = taken[h]
  PROVE  Covered(h)'
<1>1. PICK a \in Nat : a = DaysAt({"approved"})
  BY DaysAtType
<1>2. PICK b \in Nat : b = DaysAt({"approved", "pending"})
  BY DaysAtType
<1>3. DaysAt({"approved"})' \in Nat /\ DaysAt({"approved"})' <= a
  BY <1>1, DaysLess
<1>4. DaysAt({"approved", "pending"})' \in Nat /\ DaysAt({"approved", "pending"})' <= b
  BY <1>2, DaysLess
<1>5. entitlement # None => entitlement \in Nat
  BY DEF TypeOK
<1> QED
  BY <1>1, <1>2, <1>3, <1>4, <1>5 DEF Covered

\* Passes, clocks and decisions of reports are no matter to the balance.
LEMMA BalanceFrame ==
  ASSUME TypeOK, BalanceKnown, UNCHANGED leaveVars,
         \A r \in Requests : status'[r] = status[r] \/ (status[r] # None /\ status'[r] = "rejected")
  PROVE  BalanceKnown'
<1>1. NoneJoins({"approved"}) /\ NoneJoins({"approved", "pending"})
  BY DEF NoneJoins, leaveVars
<1>2. \A r \in Requests : status[r] # None => status'[r] # None
  BY LeaveAssumption DEF Statuses
<1> QED
  BY <1>1, <1>2, CoveredStays DEF BalanceKnown, LeavesFiled, leaveVars

\* Each statement of a createLeave finds the balance as it needs it.
LEMMA BalanceNext ==
  ASSUME OneCall, TypeOK, BalanceKnown, Call
  PROVE  BalanceKnown'
<1> USE LeaveAssumption
<1>1. ASSUME NEW r \in Requests, Reject(r) PROVE BalanceKnown'
  BY <1>1, BalanceFrame DEF Reject, TypeOK, Items
<1>2. ASSUME NEW x \in Reports, Resolve(x) PROVE BalanceKnown'
  BY <1>2, BalanceFrame, ItemAssumption DEF Resolve, TypeOK, Items
<1>3. ASSUME NEW h \in Handlers, pc'[h] = "idle" \/ pc'[h] = "approve", LeavesFiled'
      PROVE  BalanceKnown'
  BY <1>3 DEF OneCall, BalanceKnown, Covered
<1>4. ASSUME NEW h \in Handlers, NEW days \in Entitlements, SetEntitlement(h, days)
      PROVE  BalanceKnown'
  BY <1>3, <1>4 DEF SetEntitlement, BalanceKnown, LeavesFiled
<1>5. ASSUME NEW h \in Handlers, NEW r \in Requests, Approve(h, r) PROVE BalanceKnown'
  BY <1>3, <1>5 DEF Approve, BalanceKnown, LeavesFiled, TypeOK
<1>6. ASSUME NEW h \in Handlers, WriteDecision(h) PROVE BalanceKnown'
  BY <1>3, <1>6 DEF WriteDecision, Return, BalanceKnown, LeavesFiled, TypeOK, Statuses, Items
<1>7. ASSUME NEW h \in Handlers, Fail(h) PROVE BalanceKnown'
  BY <1>3, <1>7 DEF Fail, Return, BalanceKnown, LeavesFiled, TypeOK
<1>8. ASSUME NEW h \in Handlers, InsertLeave(h) PROVE BalanceKnown'
  <2>1. req[h] \in Requests /\ status[req[h]] # None
    BY <1>8 DEF InsertLeave, BalanceKnown, Covered
  <2>2. LeavesFiled'
    BY <1>8, <2>1 DEF InsertLeave, BalanceKnown, LeavesFiled, TypeOK
  <2> QED
    BY <1>3, <1>8, <2>2 DEF InsertLeave, Return, TypeOK
<1>9. ASSUME NEW h \in Handlers, NEW days \in Durations, CreateLeave(h, days)
      PROVE  BalanceKnown'
  <2>1. \A g \in Handlers : g = h
    BY DEF OneCall
  <2>2. LeavesFiled'
    BY <1>9 DEF CreateLeave, BalanceKnown, LeavesFiled
  <2>3. Covered(h)'
    BY <1>9 DEF CreateLeave, Covered, TypeOK
  <2> QED
    BY <2>1, <2>2, <2>3 DEF BalanceKnown
<1>10. ASSUME NEW h \in Handlers, ReadTaken(h) PROVE BalanceKnown'
  <2>1. \A g \in Handlers : g = h
    BY DEF OneCall
  <2>2. LeavesFiled'
    BY <1>10 DEF ReadTaken, BalanceKnown, LeavesFiled
  <2>3. NoneJoins({"approved"})
    BY <1>10 DEF ReadTaken, NoneJoins
  <2>4. PICK n \in Nat : n = DaysAt({"approved"})
    BY DaysAtType
  <2>5. DaysAt({"approved"})' <= n
    BY <2>3, <2>4, DaysLess
  <2>6. /\ pc'[h] = "readPending" /\ taken'[h] = n
        /\ asked'[h] = asked[h] /\ granted'[h] = granted[h] /\ entitlement' = entitlement
    BY <1>10, <2>4 DEF ReadTaken, TypeOK
  <2>7. asked[h] \in Nat /\ granted[h] = entitlement /\ granted[h] # None
    BY <1>10 DEF ReadTaken, BalanceKnown, Covered
  <2>8. Covered(h)'
    BY <2>5, <2>6, <2>7 DEF Covered
  <2> QED
    BY <2>1, <2>2, <2>8 DEF BalanceKnown
<1>11. ASSUME NEW h \in Handlers, ReadPending(h) PROVE BalanceKnown'
  <2>1. \A g \in Handlers : g = h
    BY DEF OneCall
  <2>2. LeavesFiled' /\ NoneJoins({"approved", "pending"})
    BY <1>11 DEF ReadPending, BalanceKnown, LeavesFiled, NoneJoins
  <2>3. CASE pc'[h] = "idle"
    BY <1>3, <2>2, <2>3
  <2>4. CASE pc'[h] # "idle"
    <3>1. asked[h] <= Remaining(h) /\ pc'[h] = "insertRequest"
          /\ UNCHANGED <<req, asked, granted, taken, entitlement>>
      BY <1>11, <2>4 DEF ReadPending, Return, TypeOK
    <3>2. /\ asked[h] \in Nat /\ granted[h] = entitlement /\ granted[h] \in Nat
          /\ taken[h] \in Nat /\ DaysAt({"approved"}) <= taken[h]
      BY <1>11 DEF ReadPending, BalanceKnown, Covered, TypeOK
    <3>3. /\ DaysAt({"approved"}) \in Nat /\ DaysAt({"pending"}) \in Nat
          /\ DaysAt({"approved", "pending"}) = DaysAt({"approved"}) + DaysAt({"pending"})
      BY DaysAtType, DaysSplit
    <3>4. asked[h] + DaysAt({"approved", "pending"}) <= granted[h]
      BY <3>1, <3>2, <3>3 DEF Remaining
    <3>5. /\ DaysAt({"approved", "pending"})' \in Nat
          /\ DaysAt({"approved", "pending"})' <= DaysAt({"approved", "pending"})
      BY <2>2, DaysLess
    <3>6. asked[h] + DaysAt({"approved", "pending"})' <= granted[h]
      BY <3>2, <3>3, <3>4, <3>5
    <3>7. Covered(h)'
      BY <3>1, <3>2, <3>6 DEF Covered
    <3> QED
      BY <2>1, <2>2, <3>7 DEF BalanceKnown
  <2> QED
    BY <2>3, <2>4
<1>12. ASSUME NEW h \in Handlers, NEW r \in Requests, InsertRequest(h, r) PROVE BalanceKnown'
  <2>1. \A g \in Handlers : g = h
    BY DEF OneCall
  <2>2. leave[r] = None
    BY <1>12 DEF InsertRequest, BalanceKnown, LeavesFiled
  <2>3. LeavesFiled' /\ NoneJoins({"approved", "pending"})
    BY <1>12, <2>2 DEF InsertRequest, BalanceKnown, LeavesFiled, NoneJoins, TypeOK, Items, Statuses
  <2>4. /\ pc'[h] = "insertLeave" /\ req'[h] = r /\ leave'[r] = None /\ status'[r] # None
        /\ UNCHANGED <<asked, granted, taken, entitlement>>
    BY <1>12, <2>2 DEF InsertRequest, TypeOK, Items, Statuses
  <2>5. /\ asked[h] \in Nat /\ granted[h] = entitlement
        /\ granted[h] # None => asked[h] + DaysAt({"approved", "pending"}) <= granted[h]
        /\ granted[h] # None => granted[h] \in Nat
    BY <1>12 DEF InsertRequest, BalanceKnown, Covered, TypeOK
  <2>6. /\ DaysAt({"approved", "pending"})' \in Nat /\ DaysAt({"approved", "pending"}) \in Nat
        /\ DaysAt({"approved", "pending"})' <= DaysAt({"approved", "pending"})
    BY <2>3, DaysLess
  <2>7. granted[h] # None => asked[h] + DaysAt({"approved", "pending"})' <= granted[h]
    BY <2>5, <2>6
  <2>8. Covered(h)'
    BY <2>4, <2>5, <2>7 DEF Covered
  <2> QED
    BY <2>1, <2>3, <2>8 DEF BalanceKnown
<1> QED
  BY <1>1, <1>2, <1>4, <1>5, <1>6, <1>7, <1>8, <1>9, <1>10, <1>11, <1>12 DEF Call, Handlers

LEMMA BalanceAlways == ASSUME OneCall PROVE Spec => [](TypeOK /\ BalanceKnown)
<1>1. Init => BalanceKnown
  BY DEF Init, BalanceKnown, LeavesFiled, Covered
<1>2. TypeOK /\ BalanceKnown /\ [Next]_vars => BalanceKnown'
  <2> SUFFICES ASSUME TypeOK, BalanceKnown, [Next]_vars PROVE BalanceKnown'
    OBVIOUS
  <2>1. CASE Call
    BY <2>1, BalanceNext
  <2>2. CASE (SlaNext /\ UNCHANGED leaveVars) \/ UNCHANGED vars
    BY <2>2, BalanceFrame DEF SlaNext, vars, leaveVars
  <2> QED
    BY <2>1, <2>2 DEF Next
<1> QED
  BY <1>1, <1>2, TypeCorrect, PTL DEF Spec

\* "Block over-requesting against the annual entitlement": where one call follows
\* another, whatever is refused, rejected or fails on the way, a leave that is filed
\* fits what the entitlement leaves, although it is read in three statements.
THEOREM NewLeaveCorrect == ASSUME OneCall PROVE Spec => NewLeaveFits
<1> DEFINE A == \A r \in Requests : Files(r) =>
                  \/ entitlement = None
                  \/ \E h \in Handlers : granted[h] = None /\ req[h] = r
                  \/ DaysAt({"approved", "pending"})' <= entitlement
<1>1. TypeOK /\ BalanceKnown /\ [Next]_vars => [A]_vars
  <2> SUFFICES ASSUME TypeOK, BalanceKnown, Next, NEW r \in Requests, Files(r),
                      entitlement # None
               PROVE  \/ \E h \in Handlers : granted[h] = None /\ req[h] = r
                      \/ DaysAt({"approved", "pending"})' <= entitlement
    OBVIOUS
  <2>1. PICK h \in Handlers : InsertLeave(h)
    BY DEF Files, Next, Call, leaveVars, Handlers, CreateLeave, SetEntitlement, InsertRequest, ReadTaken,
           ReadPending, Approve, Reject, WriteDecision, Fail, Resolve
  <2>2. /\ asked[h] \in Nat /\ granted[h] = entitlement /\ entitlement \in Nat
        /\ req[h] \in Requests /\ leave[req[h]] = None
        /\ asked[h] + DaysAt({"approved", "pending"}) <= granted[h]
    BY <2>1 DEF InsertLeave, BalanceKnown, Covered, TypeOK
  <2>3. /\ DaysAt({"approved", "pending"}) \in Nat /\ DaysAt({"approved", "pending"})' \in Nat
        /\ DaysAt({"approved", "pending"})' <= DaysAt({"approved", "pending"}) + asked[h]
    BY <2>1, <2>2, DaysFiled
  <2> QED
    BY <2>2, <2>3
<1> QED
  BY <1>1, BalanceAlways, PTL DEF Spec, NewLeaveFits
=============================================================================
