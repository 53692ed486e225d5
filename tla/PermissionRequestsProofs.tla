----------------------- MODULE PermissionRequestsProofs -----------------------
(***************************************************************************)
(* Proofs about PermissionRequests, for any handlers in any roles, any     *)
(* requests, dates and settings, and any number of failures.               *)
(*                                                                         *)
(* TypeOK is inductive as it stands.  ApprovedIsSigned is not: a second    *)
(* approval is sent on the strength of the first-level signature its       *)
(* caller has read, so the invariant Signed says that the signature is     *)
(* still there.  Only the revert of Auto Mode's decision erases one, and   *)
(* the theorem is about a system without it.                               *)
(*                                                                         *)
(* The other properties are broken by races the code does not rule out,    *)
(* and hold where the race is excluded.  JudgeSees: while one decision     *)
(* follows the other, what a decision has read is still so when it         *)
(* writes.  QuotaFits: while one filing follows the other as well, the     *)
(* quota a filing has checked is still free when it inserts.  AllSafe:     *)
(* where Auto Mode alone decides, each verdict in use is one that all of   *)
(* the requests on file can have.                                          *)
(***************************************************************************)
EXTENDS PermissionRequests, FiniteSetTheorems, TLAPS

-----------------------------------------------------------------------------
(* The minutes of a set of permissions.  MapThenSumSet picks the members   *)
(* in an order of its own; the sum is the number of minutes there are, each *)
(* counted once, and what is known of cardinalities is then known of sums. *)

MinutesOf(F, S) == MapThenSumSet(LAMBDA r : F[r].minutes, S)

Units(F, S) == {p \in S \X (1 .. MaxDuration) : p[2] <= F[p[1]].minutes}

\* The recursive function under MapThenSumSet.
IsSum(F, S, f) ==
    f = [s \in SUBSET S |-> IF s = {} THEN 0
                            ELSE F[CHOOSE r \in s : TRUE].minutes + f[s \ {CHOOSE r \in s : TRUE}]]

LEMMA LeastSubset ==
    ASSUME NEW S, IsFiniteSet(S), NEW B \in SUBSET (SUBSET S), B # {}
    PROVE  \E T \in B : \A U \in B : U \subseteq T => U = T
<1>1. IsWellFoundedOn(StrictSubsetOrdering(S), SUBSET S)
  BY FS_StrictSubsetOrderingWellFounded, FS_FiniteSubsetsOfFinite
<1>2. PICK T \in B : \A U \in B : ~(<<U, T>> \in StrictSubsetOrdering(S))
  BY <1>1, WFMin
<1> QED
  BY <1>2 DEF StrictSubsetOrdering

LEMMA IntervalSize ==
    ASSUME NEW n \in Nat
    PROVE  IsFiniteSet(1 .. n) /\ Cardinality(1 .. n) = n
<1>1. IsFiniteSet(1 .. n) /\ Cardinality(1 .. n) = IF 1 > n THEN 0 ELSE n - 1 + 1
  BY FS_Interval
<1> QED
  BY <1>1

LEMMA UnitsFinite ==
    ASSUME NEW F, NEW S, IsFiniteSet(S)
    PROVE  IsFiniteSet(Units(F, S)) /\ Cardinality(Units(F, S)) \in Nat
<1>1. IsFiniteSet(1 .. MaxDuration)
  BY IntervalSize DEF MaxDuration
<1>2. IsFiniteSet(S \X (1 .. MaxDuration))
  BY <1>1, FS_Product
<1> QED
  BY <1>2, FS_Subset, FS_CardinalityType DEF Units

LEMMA UnitsAdd ==
    ASSUME NEW F, NEW S, IsFiniteSet(S), NEW r \in S, F[r].minutes \in 0 .. MaxDuration
    PROVE  Cardinality(Units(F, S)) = F[r].minutes + Cardinality(Units(F, S \ {r}))
<1> DEFINE n == F[r].minutes
           A == Units(F, S \ {r})
           B == {r} \X (1 .. n)
<1>1. Units(F, S) = A \cup B /\ A \cap B = {}
  BY DEF Units, MaxDuration
<1>2. n \in Nat
  BY DEF MaxDuration
<1>3. IsFiniteSet(A) /\ Cardinality(A) \in Nat
  BY UnitsFinite, FS_RemoveElement
<1>4. IsFiniteSet(B) /\ Cardinality(B) = n
  <2> HIDE DEF n
  <2>1. IsFiniteSet({r}) /\ Cardinality({r}) = 1
    BY FS_Singleton
  <2>2. IsFiniteSet(1 .. n) /\ Cardinality(1 .. n) = n
    BY <1>2, IntervalSize
  <2>3. IsFiniteSet(B) /\ Cardinality(B) = Cardinality({r}) * Cardinality(1 .. n)
    BY <2>1, <2>2, FS_Product
  <2> QED
    BY <1>2, <2>1, <2>2, <2>3
<1>5. Cardinality(A \cap B) = 0
  BY <1>1, FS_EmptySet
<1> HIDE DEF n, A, B
<1>6. Cardinality(A \cup B) = Cardinality(A) + Cardinality(B) - Cardinality(A \cap B)
  BY <1>3, <1>4, FS_Union
<1>7. Cardinality(Units(F, S)) = Cardinality(A) + n
  BY <1>1, <1>2, <1>3, <1>4, <1>5, <1>6
<1> QED
  BY <1>2, <1>3, <1>7 DEF n, A

LEMMA UnitsSum ==
    ASSUME NEW F, NEW S, IsFiniteSet(S), \A r \in S : F[r].minutes \in 0 .. MaxDuration
    PROVE  IsSum(F, S, [s \in SUBSET S |-> Cardinality(Units(F, s))])
<1>1. ASSUME NEW s \in SUBSET S, s # {}, NEW r, r = CHOOSE x \in s : TRUE
      PROVE  Cardinality(Units(F, s)) = F[r].minutes + Cardinality(Units(F, s \ {r}))
  <2>1. IsFiniteSet(s) /\ r \in s /\ F[r].minutes \in 0 .. MaxDuration
    BY <1>1, FS_Subset
  <2> QED
    BY <2>1, UnitsAdd
<1>2. Cardinality(Units(F, {})) = 0
  BY FS_EmptySet DEF Units
<1> DEFINE f == [s \in SUBSET S |-> Cardinality(Units(F, s))]
<1>3. ASSUME NEW s \in SUBSET S, s # {}
      PROVE  f[s] = F[CHOOSE x \in s : TRUE].minutes + f[s \ {CHOOSE x \in s : TRUE}]
  <2>1. PICK r : r = CHOOSE x \in s : TRUE
    OBVIOUS
  <2>2. f[s] = F[r].minutes + f[s \ {r}]
    BY <1>1, <1>3, <2>1
  <2> QED
    BY <2>1, <2>2
<1> QED
  BY <1>2, <1>3 DEF IsSum

\* Two solutions agree: they would have to differ on a least set.
LEMMA SumUnique ==
    ASSUME NEW F, NEW S, IsFiniteSet(S), NEW f, NEW g, IsSum(F, S, f), IsSum(F, S, g)
    PROVE  f = g
<1> DEFINE B == {s \in SUBSET S : f[s] # g[s]}
<1>1. CASE B # {}
  <2>1. B \in SUBSET (SUBSET S)
    OBVIOUS
  <2>2. PICK T \in B : \A U \in B : U \subseteq T => U = T
    <3> HIDE DEF B
    <3> QED
      BY <1>1, <2>1, LeastSubset
  <2>3. T # {}
    BY <2>2 DEF IsSum
  <2>4. PICK r \in T : r = CHOOSE x \in T : TRUE
    BY <2>3
  <2>5. f[T] = F[r].minutes + f[T \ {r}] /\ g[T] = F[r].minutes + g[T \ {r}]
    BY <2>2, <2>3, <2>4 DEF IsSum
  <2>6. f[T \ {r}] = g[T \ {r}]
    BY <2>2, <2>4
  <2> QED
    BY <2>2, <2>5, <2>6
<1>2. CASE B = {}
  <2>1. f = [s \in SUBSET S |-> f[s]] /\ g = [s \in SUBSET S |-> g[s]]
    BY DEF IsSum
  <2>2. \A s \in SUBSET S : f[s] = g[s]
    BY <1>2
  <2> QED
    BY <2>1, <2>2
<1> QED
  BY <1>1, <1>2

LEMMA MinutesAreUnits ==
    ASSUME NEW F, NEW S, IsFiniteSet(S), \A r \in S : F[r].minutes \in 0 .. MaxDuration
    PROVE  MinutesOf(F, S) = Cardinality(Units(F, S))
<1> DEFINE f == [s \in SUBSET S |-> Cardinality(Units(F, s))]
<1>1. MinutesOf(F, S) = (CHOOSE g : IsSum(F, S, g))[S]
  BY DEF MinutesOf, IsSum, MapThenSumSet, MapThenFoldSet
<1>2. IsSum(F, S, f) /\ \A g : IsSum(F, S, g) => g = f
  BY UnitsSum, SumUnique
<1>3. (CHOOSE g : IsSum(F, S, g)) = f
  <2> HIDE DEF f
  <2> QED
    BY <1>2
<1> QED
  BY <1>1, <1>3

\* Fewer permissions, no more minutes; one more, its minutes more.
LEMMA MinutesFewer ==
    ASSUME NEW F, NEW G, NEW S, IsFiniteSet(S), NEW T \in SUBSET S,
           \A r \in S : F[r].minutes \in 0 .. MaxDuration,
           \A r \in T : G[r] = F[r]
    PROVE  MinutesOf(G, T) <= MinutesOf(F, S)
<1>1. IsFiniteSet(T) /\ \A r \in T : G[r].minutes \in 0 .. MaxDuration
  BY FS_Subset
<1>2. MinutesOf(G, T) = Cardinality(Units(G, T)) /\ MinutesOf(F, S) = Cardinality(Units(F, S))
  BY <1>1, MinutesAreUnits
<1>3. Units(G, T) \subseteq Units(F, S)
  BY DEF Units
<1> QED
  BY <1>2, <1>3, UnitsFinite, FS_Subset

LEMMA MinutesMore ==
    ASSUME NEW F, NEW G, NEW S, IsFiniteSet(S), NEW q, q \notin S,
           \A r \in S : F[r].minutes \in 0 .. MaxDuration,
           \A r \in S : G[r] = F[r],
           G[q].minutes \in 0 .. MaxDuration
    PROVE  MinutesOf(G, S \cup {q}) = MinutesOf(F, S) + G[q].minutes
<1>1. IsFiniteSet(S \cup {q}) /\ (S \cup {q}) \ {q} = S
  BY FS_AddElement
<1>2. \A r \in S \cup {q} : G[r].minutes \in 0 .. MaxDuration
  OBVIOUS
<1>3. MinutesOf(F, S) = Cardinality(Units(F, S))
  BY MinutesAreUnits
<1>4. MinutesOf(G, S \cup {q}) = Cardinality(Units(G, S \cup {q}))
  BY <1>1, <1>2, MinutesAreUnits
<1>5. Cardinality(Units(G, S \cup {q})) = G[q].minutes + Cardinality(Units(G, S))
  BY <1>1, <1>2, UnitsAdd
<1>6. Units(G, S) = Units(F, S) /\ Cardinality(Units(F, S)) \in Nat
  BY UnitsFinite DEF Units
<1> QED
  BY <1>3, <1>4, <1>5, <1>6 DEF MaxDuration

-----------------------------------------------------------------------------
USE NoneAssumption, RoleAssumption, CoverageAssumption, StartAssumption

-----------------------------------------------------------------------------
(* Types.  TypeOK in three parts.                                          *)

TableTypes ==
    /\ status \in [Requests -> Statuses \cup {None}]
    /\ form \in [Requests -> Form \cup {None}]
    /\ l1 \in [Requests -> BOOLEAN]
    /\ decision \in [Requests -> Acted \cup {None}]
    /\ settings \in Mode
    /\ saves \in 0 .. MaxSaves /\ failures \in 0 .. MaxFailures

LocalTypes ==
    /\ pc \in [Handlers -> Labels]
    /\ req \in [Handlers -> Requests \cup {None}]
    /\ filing \in [Handlers -> Form \cup {None}]
    /\ pass \in [Handlers -> PassLocals]
    /\ \A h \in Handlers :
        /\ pc[h] \in Working <=> req[h] \in Requests
        /\ pc[h] \in {"record", "stamp"} => pass[h].chosen # None

\* What a revert has found is still there.
Found == \A h \in Handlers :
    pc[h] \in {"revertStatus", "revertMark"} => decision[req[h]] # None

LEMMA TypeParts == TypeOK <=> TableTypes /\ LocalTypes /\ Found
BY DEF TypeOK, TableTypes, LocalTypes, Found

LEMMA TypePartsNext == TypeOK' <=> TableTypes' /\ LocalTypes' /\ Found'
BY DEF TypeOK, TableTypes, LocalTypes, Found

\* A verdict is one of the four.
LEMMA VerdictType == ASSUME NEW d \in Dates PROVE Verdict(d) \in Verdicts
BY DEF Verdict, Judge, Verdicts

LEMMA MisjudgedType == ASSUME NEW d \in Dates PROVE Misjudged(d) \subseteq Verdicts
BY DEF Misjudged, Judge, Verdicts

\* The four ways a handler moves keep the types of its locals.
LEMMA NoPassType == NoPass \in PassLocals
BY DEF NoPass, PassLocals

LEMMA ReturnType ==
    ASSUME LocalTypes, NEW h \in Handlers, Return(h)
    PROVE  LocalTypes'
BY NoPassType DEF LocalTypes, Return, Labels, Working

LEMMA GotoType ==
    ASSUME LocalTypes, NEW h \in Handlers, NEW label \in Labels, Goto(h, label),
           label \in Working <=> req[h] \in Requests,
           label \in {"record", "stamp"} => pass[h].chosen # None
    PROVE  LocalTypes'
BY DEF LocalTypes, Goto

LEMMA BeginType ==
    ASSUME LocalTypes, NEW h \in Handlers, NEW r \in Requests,
           NEW label \in Working \ {"record", "stamp"}, Begin(h, r, label)
    PROVE  LocalTypes'
BY DEF LocalTypes, Begin, Working

\* Setting one of its fields leaves the locals of a pass typed.
LEMMA PassFieldType ==
    ASSUME NEW p \in PassLocals, NEW s \in Mode, NEW rows \in SUBSET (Requests \X Dates)
    PROVE  /\ [p EXCEPT !.mode = s] \in PassLocals
           /\ [p EXCEPT !.todo = rows] \in PassLocals
           /\ [p EXCEPT !.chosen = None] \in PassLocals
BY DEF PassLocals

\* Whatever the request in hand was decided, the next one starts afresh.
LEMMA NextRequestType ==
    ASSUME LocalTypes, NEW h \in Handlers, NEW p, NextRequest(h, p),
           [p EXCEPT !.chosen = None] \in PassLocals
    PROVE  LocalTypes'
<1>1. CASE p.todo = {}
  BY <1>1, ReturnType DEF NextRequest
<1>2. CASE p.todo # {}
  BY <1>2 DEF NextRequest, LocalTypes, Labels, Working
<1> QED
  BY <1>1, <1>2

LEMMA NextRequestOfPass ==
    ASSUME LocalTypes, NEW h \in Handlers, NextRequest(h, pass[h])
    PROVE  LocalTypes'
<1>1. [pass[h] EXCEPT !.chosen = None] \in PassLocals
  <2>1. pass[h] \in PassLocals
    BY DEF LocalTypes
  <2> QED
    BY <2>1 DEF PassLocals
<1> QED
  BY <1>1, NextRequestType

LEMMA InitType == Init => TypeOK
BY NoPassType DEF Init, TypeOK, Statuses, Labels, Working

LEMMA StutterType == ASSUME TypeOK, UNCHANGED vars PROVE TypeOK'
BY DEF TypeOK, vars, tables, locals, bounds

-----------------------------------------------------------------------------
(* One lemma per action.                                                   *)

LEMMA CreateRequestType ==
    ASSUME TypeOK, NEW h \in Handlers, NEW f \in Form, CreateRequest(h, f)
    PROVE  TypeOK'
<1> USE TypeParts
<1>1. TableTypes'
  BY DEF CreateRequest, tables, locals, bounds, TableTypes, LocalTypes
<1>2. LocalTypes'
  BY DEF CreateRequest, LocalTypes, Labels, Working
<1>3. Found'
  BY DEF Found, CreateRequest, tables, LocalTypes
<1> QED
  BY <1>1, <1>2, <1>3, TypePartsNext

LEMMA CheckMinutesType ==
    ASSUME TypeOK, NEW h \in Handlers, CheckMinutes(h)
    PROVE  TypeOK'
<1> USE TypeParts
<1>1. TableTypes'
  BY DEF CheckMinutes, tables, locals, bounds, TableTypes, LocalTypes
<1>2. LocalTypes'
  BY ReturnType, GotoType DEF CheckMinutes, LocalTypes, Labels, Working
<1>3. Found'
  BY DEF Found, CheckMinutes, Goto, Return, tables, LocalTypes
<1> QED
  BY <1>1, <1>2, <1>3, TypePartsNext

LEMMA InsertRequestType ==
    ASSUME TypeOK, NEW h \in Handlers, NEW r \in Requests, InsertRequest(h, r)
    PROVE  TypeOK'
<1> USE TypeParts
<1>1. TableTypes'
  BY DEF InsertRequest, Statuses, tables, locals, bounds, TableTypes, LocalTypes
<1>2. LocalTypes'
  BY DEF InsertRequest, LocalTypes, Labels, Working
<1>3. Found'
  BY DEF Found, InsertRequest, LocalTypes
<1> QED
  BY <1>1, <1>2, <1>3, TypePartsNext

LEMMA InsertPermissionType ==
    ASSUME TypeOK, NEW h \in Handlers, InsertPermission(h)
    PROVE  TypeOK'
<1> USE TypeParts
<1>1. TableTypes'
  BY DEF InsertPermission, Working, tables, locals, bounds, TableTypes, LocalTypes
<1>2. LocalTypes'
  BY ReturnType DEF InsertPermission
<1>3. Found'
  BY DEF Found, InsertPermission, Return, LocalTypes
<1> QED
  BY <1>1, <1>2, <1>3, TypePartsNext

LEMMA ApproveType ==
    ASSUME TypeOK, NEW h \in Handlers, NEW r \in Requests, Approve(h, r)
    PROVE  TypeOK'
<1> USE TypeParts
<1>1. TableTypes'
  BY DEF Approve, tables, locals, bounds, TableTypes, LocalTypes
<1>2. LocalTypes'
  BY BeginType DEF Approve, Working, Labels
<1>3. Found'
  BY DEF Found, LocalTypes, tables, Begin, Approve
<1> QED
  BY <1>1, <1>2, <1>3, TypePartsNext

LEMMA RejectType ==
    ASSUME TypeOK, NEW h \in Handlers, NEW r \in Requests, Reject(h, r)
    PROVE  TypeOK'
<1> USE TypeParts
<1>1. TableTypes'
  BY DEF Reject, Statuses, tables, locals, bounds, TableTypes, LocalTypes
<1>2. LocalTypes'
  BY DEF Reject, locals, LocalTypes
<1>3. Found'
  BY DEF Found, Reject, locals
<1> QED
  BY <1>1, <1>2, <1>3, TypePartsNext

LEMMA ApprovePermissionType ==
    ASSUME TypeOK, NEW h \in Handlers, NEW r \in Requests, ApprovePermission(h, r)
    PROVE  TypeOK'
<1> USE TypeParts
<1>1. TableTypes'
  BY DEF ApprovePermission, tables, locals, bounds, TableTypes, LocalTypes
<1>2. LocalTypes'
  BY BeginType DEF ApprovePermission, Working, Labels
<1>3. Found'
  BY DEF Found, LocalTypes, tables, Begin, ApprovePermission
<1> QED
  BY <1>1, <1>2, <1>3, TypePartsNext

LEMMA RejectPermissionType ==
    ASSUME TypeOK, NEW h \in Handlers, NEW r \in Requests, RejectPermission(h, r)
    PROVE  TypeOK'
<1> USE TypeParts
<1>1. TableTypes'
  BY DEF RejectPermission, tables, locals, bounds, TableTypes, LocalTypes
<1>2. LocalTypes'
  BY BeginType DEF RejectPermission, Working, Labels
<1>3. Found'
  BY DEF Found, LocalTypes, tables, Begin, RejectPermission
<1> QED
  BY <1>1, <1>2, <1>3, TypePartsNext

LEMMA CancelPermissionType ==
    ASSUME TypeOK, NEW h \in Handlers, NEW r \in Requests, CancelPermission(h, r)
    PROVE  TypeOK'
<1> USE TypeParts
<1>1. TableTypes'
  BY DEF CancelPermission, tables, locals, bounds, TableTypes, LocalTypes
<1>2. LocalTypes'
  BY BeginType DEF CancelPermission, Working, Labels
<1>3. Found'
  BY DEF Found, LocalTypes, tables, Begin, CancelPermission
<1> QED
  BY <1>1, <1>2, <1>3, TypePartsNext

LEMMA ApproveWriteType ==
    ASSUME TypeOK, NEW h \in Handlers, ApproveWrite(h)
    PROVE  TypeOK'
<1> USE TypeParts
<1>1. TableTypes'
  BY DEF WriteStatus, Statuses, Working, ApproveWrite, tables, locals, bounds, TableTypes, LocalTypes
<1>2. LocalTypes'
  BY ReturnType DEF ApproveWrite
<1>3. Found'
  BY DEF Found, LocalTypes, Return, ApproveWrite
<1> QED
  BY <1>1, <1>2, <1>3, TypePartsNext

LEMMA FirstLevelType ==
    ASSUME TypeOK, NEW h \in Handlers, FirstLevel(h)
    PROVE  TypeOK'
<1> USE TypeParts
<1>1. TableTypes'
  BY DEF FirstLevel, tables, locals, bounds, TableTypes, LocalTypes
<1>2. LocalTypes'
  BY ReturnType, GotoType DEF FirstLevel, LocalTypes, Labels, Working
<1>3. Found'
  BY DEF Found, FirstLevel, Goto, Return, LocalTypes
<1> QED
  BY <1>1, <1>2, <1>3, TypePartsNext

LEMMA SecondLevelType ==
    ASSUME TypeOK, NEW h \in Handlers, SecondLevel(h)
    PROVE  TypeOK'
<1> USE TypeParts
<1>1. TableTypes'
  BY DEF WriteStatus, Statuses, Working, SecondLevel, tables, locals, bounds, TableTypes, LocalTypes
<1>2. LocalTypes'
  BY ReturnType DEF SecondLevel
<1>3. Found'
  BY DEF Found, LocalTypes, Return, SecondLevel
<1> QED
  BY <1>1, <1>2, <1>3, TypePartsNext

LEMMA RejectWriteType ==
    ASSUME TypeOK, NEW h \in Handlers, RejectWrite(h)
    PROVE  TypeOK'
<1> USE TypeParts
<1>1. TableTypes'
  BY DEF WriteStatus, Statuses, Working, RejectWrite, tables, locals, bounds, TableTypes, LocalTypes
<1>2. LocalTypes'
  BY ReturnType DEF RejectWrite
<1>3. Found'
  BY DEF Found, LocalTypes, Return, RejectWrite
<1> QED
  BY <1>1, <1>2, <1>3, TypePartsNext

LEMMA CancelWriteType ==
    ASSUME TypeOK, NEW h \in Handlers, CancelWrite(h)
    PROVE  TypeOK'
<1> USE TypeParts
<1>1. TableTypes'
  BY DEF WriteStatus, Statuses, Working, CancelWrite, tables, locals, bounds, TableTypes, LocalTypes
<1>2. LocalTypes'
  BY ReturnType DEF CancelWrite
<1>3. Found'
  BY DEF Found, LocalTypes, Return, CancelWrite
<1> QED
  BY <1>1, <1>2, <1>3, TypePartsNext

LEMMA SaveSettingsType ==
    ASSUME TypeOK, NEW h \in Handlers, NEW s \in Settings, SaveSettings(h, s)
    PROVE  TypeOK'
<1> USE TypeParts
<1>1. TableTypes'
  BY DEF SaveSettings, tables, locals, bounds, TableTypes, LocalTypes
<1>2. LocalTypes'
  BY ReturnType, GotoType DEF SaveSettings, LocalTypes, Labels, Working
<1>3. Found'
  BY DEF Found, SaveSettings, Goto, Return, LocalTypes
<1> QED
  BY <1>1, <1>2, <1>3, TypePartsNext

LEMMA TickType ==
    ASSUME TypeOK, NEW h \in Handlers, Tick(h)
    PROVE  TypeOK'
<1> USE TypeParts
<1>1. TableTypes'
  BY DEF Tick, tables, locals, bounds, TableTypes, LocalTypes
<1>2. LocalTypes'
  BY GotoType DEF Tick, LocalTypes, Labels, Working
<1>3. Found'
  BY DEF Found, Tick, Goto, tables, LocalTypes
<1> QED
  BY <1>1, <1>2, <1>3, TypePartsNext

LEMMA ReadSettingsType ==
    ASSUME TypeOK, NEW h \in Handlers, ReadSettings(h)
    PROVE  TypeOK'
<1> USE TypeParts
<1>1. TableTypes'
  BY DEF ReadSettings, tables, locals, bounds, TableTypes, LocalTypes
<1>2. LocalTypes'
  <2>1. CASE settings.enabled
    <3>1. pass' = [pass EXCEPT ![h].mode = settings] /\ UNCHANGED <<req, filing>>
          /\ pc' = [pc EXCEPT ![h] = "select"]
      BY <2>1 DEF ReadSettings
    <3>2. pass' \in [Handlers -> PassLocals]
      BY <3>1, PassFieldType DEF LocalTypes, TableTypes
    <3> QED
      BY <3>1, <3>2 DEF ReadSettings, LocalTypes, Labels, Working
  <2>2. CASE ~settings.enabled
    BY <2>2, ReturnType DEF ReadSettings
  <2> QED
    BY <2>1, <2>2
<1>3. Found'
  BY DEF Found, ReadSettings, Return, tables, LocalTypes
<1> QED
  BY <1>1, <1>2, <1>3, TypePartsNext

LEMMA SelectPendingType ==
    ASSUME TypeOK, NEW h \in Handlers, SelectPending(h)
    PROVE  TypeOK'
<1> USE TypeParts
<1>1. TableTypes'
  BY DEF SelectPending, tables, locals, bounds, TableTypes, LocalTypes
<1>2. LocalTypes'
  <2>1. CASE Undecided = {}
    BY <2>1, ReturnType DEF SelectPending
  <2>2. CASE Undecided # {}
    <3>1. PICK rows \in SUBSET Undecided :
             pass' = [pass EXCEPT ![h].todo = {<<r, DateOf(r)>> : r \in rows}]
      BY <2>2 DEF SelectPending, kSubset
    <3>2. {<<r, DateOf(r)>> : r \in rows} \subseteq Requests \X Dates
      BY DEF Undecided, DateOf, TableTypes, Form
    <3>3. pass' \in [Handlers -> PassLocals]
      BY <3>1, <3>2, PassFieldType DEF LocalTypes
    <3> QED
      BY <2>2, <3>3 DEF SelectPending, LocalTypes, Labels, Working
  <2> QED
    BY <2>1, <2>2
<1>3. Found'
  BY DEF Found, SelectPending, Return, tables, LocalTypes
<1> QED
  BY <1>1, <1>2, <1>3, TypePartsNext

LEMMA DecideType ==
    ASSUME TypeOK, NEW h \in Handlers, Decide(h)
    PROVE  TypeOK'
<1> USE TypeParts
<1>1. TableTypes'
  BY DEF Decide, tables, TableTypes
<1>2. LocalTypes'
  <2>1. PICK t \in pass[h].todo, v \in Verdicts :
           LET choice == Choice(pass[h].mode, v)
               p == [pass[h] EXCEPT !.todo = @ \ {t}, !.verdicts[t[2]] = v,
                                    !.chosen = choice]
           IN
           \/ choice = "hold" /\ NextRequest(h, p)
           \/ /\ choice # "hold"
              /\ pass' = [pass EXCEPT ![h] = p]
              /\ pc' = [pc EXCEPT ![h] = "record"]
              /\ req' = [req EXCEPT ![h] = t[1]]
              /\ UNCHANGED filing
    BY DEF Decide
  <2> DEFINE choice == Choice(pass[h].mode, v)
             p == [pass[h] EXCEPT !.todo = @ \ {t}, !.verdicts[t[2]] = v,
                                  !.chosen = choice]
  <2>2. pass[h] \in PassLocals /\ t \in Requests \X Dates
    BY DEF LocalTypes, PassLocals
  <2>3. choice \in {"approve", "reject", "hold"}
    BY DEF Choice
  <2>4. CASE choice = "hold"
    <3>1. [p EXCEPT !.chosen = None] \in PassLocals
      BY <2>2 DEF PassLocals
    <3>2. NextRequest(h, p)
      BY <2>1, <2>4
    <3> QED
      BY <3>1, <3>2, NextRequestType
  <2>5. CASE choice # "hold"
    <3>1. p \in PassLocals /\ p.chosen = choice
      BY <2>2, <2>3, <2>5 DEF PassLocals
    <3>2. /\ pass' = [pass EXCEPT ![h] = p]
          /\ pc' = [pc EXCEPT ![h] = "record"]
          /\ req' = [req EXCEPT ![h] = t[1]]
          /\ UNCHANGED filing
      BY <2>1, <2>5
    <3>3. p.chosen # None /\ t[1] \in Requests
      BY <2>2, <2>3, <2>5, <3>1
    <3> HIDE DEF p, choice
    <3> QED
      BY <3>1, <3>2, <3>3 DEF LocalTypes, Labels, Working
  <2> QED
    BY <2>4, <2>5
<1>3. Found'
  BY DEF Found, Decide, NextRequest, Return, tables, LocalTypes
<1> QED
  BY <1>1, <1>2, <1>3, TypePartsNext

LEMMA RecordType ==
    ASSUME TypeOK, NEW h \in Handlers, Record(h)
    PROVE  TypeOK'
<1> USE TypeParts
<1>1. TableTypes'
  BY DEF Record, Acted, PassLocals, Working, tables, locals, bounds, TableTypes, LocalTypes
<1>2. LocalTypes'
  BY GotoType DEF Record, LocalTypes, Labels, Working
<1>3. Found'
  BY DEF Found, Record, Goto, Acted, LocalTypes
<1> QED
  BY <1>1, <1>2, <1>3, TypePartsNext

LEMMA StampType ==
    ASSUME TypeOK, NEW h \in Handlers, Stamp(h)
    PROVE  TypeOK'
<1> USE TypeParts
<1>1. TableTypes'
  BY DEF Stamp, WriteStatus, Statuses, tables, locals, bounds, TableTypes, LocalTypes
<1>2. LocalTypes'
  BY NextRequestOfPass DEF Stamp
<1>3. Found'
  BY DEF Found, Stamp, NextRequest, Return, LocalTypes
<1> QED
  BY <1>1, <1>2, <1>3, TypePartsNext

LEMMA RevertType ==
    ASSUME TypeOK, NEW h \in Handlers, NEW r \in Requests, Revert(h, r)
    PROVE  TypeOK'
<1> USE TypeParts
<1>1. TableTypes'
  BY DEF Revert, tables, locals, bounds, TableTypes, LocalTypes
<1>2. LocalTypes'
  BY BeginType DEF Revert, Working, Labels
<1>3. Found'
  BY DEF Found, LocalTypes, tables, Begin, Revert
<1> QED
  BY <1>1, <1>2, <1>3, TypePartsNext

LEMMA RevertStatusType ==
    ASSUME TypeOK, NEW h \in Handlers, RevertStatus(h)
    PROVE  TypeOK'
<1> USE TypeParts
<1>1. TableTypes'
  BY DEF RevertStatus, WriteStatus, Statuses, tables, locals, bounds, TableTypes, LocalTypes
<1>2. LocalTypes'
  BY GotoType DEF RevertStatus, LocalTypes, Labels, Working
<1>3. Found'
  BY DEF Found, RevertStatus, Goto, LocalTypes
<1> QED
  BY <1>1, <1>2, <1>3, TypePartsNext

LEMMA RevertMarkType ==
    ASSUME TypeOK, NEW h \in Handlers, RevertMark(h)
    PROVE  TypeOK'
<1> USE TypeParts
<1> DEFINE d == [decision[req[h]] EXCEPT !.reverted = TRUE]
<1>1. d \in Acted /\ req[h] \in Requests
  <2>1. req[h] \in Requests /\ decision[req[h]] # None
    BY DEF RevertMark, LocalTypes, Found, Working, Labels
  <2>2. decision[req[h]] \in Acted
    BY <2>1 DEF TableTypes
  <2> QED
    BY <2>1, <2>2 DEF Acted
<1>2. decision' = [decision EXCEPT ![req[h]] = d]
  BY DEF RevertMark
<1> HIDE DEF d
<1>3. TableTypes'
  BY <1>1, <1>2 DEF RevertMark, bounds, TableTypes
<1>4. LocalTypes'
  BY ReturnType DEF RevertMark
<1>5. Found'
  <2> SUFFICES ASSUME NEW g \in Handlers, pc'[g] \in {"revertStatus", "revertMark"}
               PROVE  decision'[req'[g]] # None
    BY DEF Found
  <2>1. g # h /\ pc'[g] = pc[g] /\ req'[g] = req[g]
    BY DEF RevertMark, Return, LocalTypes
  <2>2. decision[req[g]] # None /\ req[g] \in Requests
    BY <2>1 DEF Found, LocalTypes, Working, Labels
  <2> QED
    BY <1>1, <1>2, <2>1, <2>2 DEF TableTypes
<1> QED
  BY <1>3, <1>4, <1>5, TypePartsNext

LEMMA SwallowType ==
    ASSUME TypeOK, NEW h \in Handlers, Swallow(h)
    PROVE  TypeOK'
<1> USE TypeParts
<1>1. TableTypes'
  BY DEF Swallow, tables, locals, bounds, TableTypes, LocalTypes
<1>2. LocalTypes'
  BY ReturnType, GotoType, NextRequestOfPass DEF Swallow, LocalTypes, Labels, Working
<1>3. Found'
  BY DEF Found, Swallow, Goto, NextRequest, Return, tables, LocalTypes
<1> QED
  BY <1>1, <1>2, <1>3, TypePartsNext

LEMMA FailType ==
    ASSUME TypeOK, NEW h \in Handlers, Fail(h)
    PROVE  TypeOK'
<1> USE TypeParts
<1>1. TableTypes'
  BY DEF Fail, tables, locals, bounds, TableTypes, LocalTypes
<1>2. LocalTypes'
  BY ReturnType DEF Fail
<1>3. Found'
  BY DEF Found, Fail, Return, tables, LocalTypes
<1> QED
  BY <1>1, <1>2, <1>3, TypePartsNext

-----------------------------------------------------------------------------
(* Type correctness.                                                       *)

LEMMA CallType == ASSUME TypeOK, NEW h \in Handlers, Call(h) PROVE TypeOK'
<1>1. ASSUME NEW f \in Form, CreateRequest(h, f) PROVE TypeOK'
  BY <1>1, CreateRequestType
<1>2. ASSUME NEW r \in Requests,
             \/ Approve(h, r) \/ Reject(h, r)
             \/ ApprovePermission(h, r) \/ RejectPermission(h, r) \/ CancelPermission(h, r)
      PROVE  TypeOK'
  BY <1>2, ApproveType, RejectType, ApprovePermissionType, RejectPermissionType,
     CancelPermissionType
<1>3. ASSUME NEW s \in Settings, SaveSettings(h, s) PROVE TypeOK'
  BY <1>3, SaveSettingsType
<1>4. ASSUME NEW r \in Requests, Revert(h, r) PROVE TypeOK'
  BY <1>4, RevertType
<1> QED
  BY <1>1, <1>2, <1>3, <1>4 DEF Call

LEMMA StepType == ASSUME TypeOK, NEW h \in Handlers, Step(h) PROVE TypeOK'
BY CheckMinutesType, InsertPermissionType, InsertRequestType, ApproveWriteType,
   FirstLevelType, SecondLevelType, RejectWriteType, CancelWriteType,
   ReadSettingsType, SelectPendingType, DecideType, RecordType, StampType,
   RevertStatusType, RevertMarkType DEF Step

LEMMA NextType == TypeOK /\ [Next]_vars => TypeOK'
<1> SUFFICES ASSUME TypeOK, [Next]_vars PROVE TypeOK'
  OBVIOUS
<1>1. ASSUME NEW h \in Handlers,
             Call(h) \/ Step(h) \/ Swallow(h) \/ Fail(h) \/ Tick(h)
      PROVE  TypeOK'
  BY <1>1, CallType, StepType, SwallowType, FailType, TickType
<1>2. CASE UNCHANGED vars
  BY <1>2, StutterType
<1> QED
  BY <1>1, <1>2 DEF Next

\* Every table and every local keeps its type, whatever interleaves or fails; in
\* particular a pass that writes a status always holds a request and a
\* decision, and a revert the decision it has found.
THEOREM TypeCorrect == Spec => []TypeOK
<1>1. Init => TypeOK
  BY InitType
<1>2. TypeOK /\ [Next]_vars => TypeOK'
  BY NextType
<1> QED
  BY <1>1, <1>2, PTL DEF Spec

-----------------------------------------------------------------------------
(* An approved permission is signed.                                       *)

\* A second approval under way finds the first-level signature it has read,
\* and nothing is being reverted.
Signed ==
    /\ ApprovedIsSigned
    /\ \A h \in Handlers : pc[h] = "secondLevel" => l1[req[h]]
    /\ \A h \in Handlers : pc[h] \notin {"revertStatus", "revertMark"}

LEMMA InitSigned == Init => Signed
BY DEF Init, Signed, ApprovedIsSigned, Statuses

LEMMA FilingSigned ==
    ASSUME TypeOK, Signed, NEW h \in Handlers, 
           \/ CheckMinutes(h) \/ InsertPermission(h)
           \/ \E f \in Form : CreateRequest(h, f)
           \/ \E r \in Requests : InsertRequest(h, r)
    PROVE  Signed'
BY DEF CreateRequest, CheckMinutes, InsertRequest, InsertPermission, Goto, Return, tables, Signed, ApprovedIsSigned, Working, TypeOK

LEMMA PeopleSigned ==
    ASSUME TypeOK, Signed, NEW h \in Handlers, NEW r \in Requests, 
           \/ Approve(h, r) \/ Reject(h, r)
           \/ ApprovePermission(h, r) \/ RejectPermission(h, r) \/ CancelPermission(h, r)
    PROVE  Signed'
BY DEF Approve, Reject, ApprovePermission, RejectPermission, CancelPermission, Begin, tables, locals, Signed, ApprovedIsSigned, Working, TypeOK

LEMMA WritesSigned ==
    ASSUME TypeOK, Signed, NEW h \in Handlers, 
           ApproveWrite(h) \/ FirstLevel(h) \/ SecondLevel(h) \/ RejectWrite(h) \/ CancelWrite(h)
    PROVE  Signed'
BY DEF ApproveWrite, FirstLevel, SecondLevel, RejectWrite, CancelWrite, WriteStatus, Goto, Return, Signed, ApprovedIsSigned, Working, TypeOK

LEMMA PassSigned ==
    ASSUME TypeOK, Signed, NEW h \in Handlers,
           \/ Tick(h) \/ ReadSettings(h) \/ SelectPending(h) \/ Decide(h) \/ Record(h) \/ Stamp(h)
           \/ \E s \in Settings : SaveSettings(h, s)
    PROVE  Signed'
<1>1. CASE Tick(h) \/ ReadSettings(h) \/ SelectPending(h) \/ Record(h)
           \/ \E s \in Settings : SaveSettings(h, s)
  BY <1>1 DEF Tick, ReadSettings, SelectPending, Record, SaveSettings, Goto, Return, tables,
              Signed, ApprovedIsSigned, TypeOK
<1>2. CASE Decide(h)
  <2>1. UNCHANGED tables
    BY <1>2 DEF Decide
  <2>2. PICK p : \/ NextRequest(h, p)
                 \/ /\ pc' = [pc EXCEPT ![h] = "record"]
                    /\ \E r : req' = [req EXCEPT ![h] = r]
    BY <1>2 DEF Decide
  <2> QED
    BY <2>1, <2>2 DEF NextRequest, Return, tables, Signed, ApprovedIsSigned, TypeOK
<1>3. CASE Stamp(h)
  <2>1. CASE pass[h].chosen = "approve"
    BY <1>3, <2>1 DEF Stamp, WriteStatus, NextRequest, Return, Signed, ApprovedIsSigned,
                      Working, Labels, TypeOK
  <2>2. CASE pass[h].chosen = "reject"
    BY <1>3, <2>2 DEF Stamp, WriteStatus, NextRequest, Return, Signed, ApprovedIsSigned,
                      Working, Labels, TypeOK
  <2> QED
    BY <1>3, <2>1, <2>2 DEF Stamp
<1> QED
  BY <1>1, <1>2, <1>3

LEMMA RevertSigned ==
    ASSUME TypeOK, Signed, NEW h \in Handlers, RevertStatus(h) \/ RevertMark(h)
    PROVE  Signed'
BY DEF RevertStatus, RevertMark, Signed, ApprovedIsSigned, Working, TypeOK

LEMMA FailureSigned ==
    ASSUME TypeOK, Signed, NEW h \in Handlers, Swallow(h) \/ Fail(h)
    PROVE  Signed'
BY DEF Swallow, Fail, NextRequest, Goto, Return, tables, Signed, ApprovedIsSigned, Working, TypeOK

LEMMA StutterSigned == ASSUME Signed, UNCHANGED vars PROVE Signed'
BY DEF Signed, ApprovedIsSigned, vars, tables, locals, bounds

LEMMA NextSigned ==
    ASSUME Reverters = {}
    PROVE  TypeOK /\ Signed /\ [Next]_vars => Signed'
<1> SUFFICES ASSUME TypeOK, Signed, [Next]_vars PROVE Signed'
  OBVIOUS
<1>1. ASSUME NEW h \in Handlers, Call(h) PROVE Signed'
  BY <1>1, FilingSigned, PeopleSigned, PassSigned DEF Call
<1>2. ASSUME NEW h \in Handlers, Step(h) PROVE Signed'
  BY <1>2, FilingSigned, WritesSigned, PassSigned, RevertSigned DEF Step
<1>3. ASSUME NEW h \in Handlers, Swallow(h) \/ Fail(h) \/ Tick(h) PROVE Signed'
  BY <1>3, FailureSigned, PassSigned
<1>4. CASE UNCHANGED vars
  BY <1>4, StutterSigned
<1> QED
  BY <1>1, <1>2, <1>3, <1>4 DEF Next

\* While nobody reverts a decision of Auto Mode, an approved permission carries
\* a first-level signature, however the two approval routes of people and the
\* passes of Auto Mode race and whatever fails.
THEOREM SignedCorrect ==
    ASSUME Reverters = {}
    PROVE  Spec => []ApprovedIsSigned
<1>1. Init => TypeOK /\ Signed
  BY InitType, InitSigned
<1>2. TypeOK /\ Signed /\ [Next]_vars => TypeOK' /\ Signed'
  BY NextType, NextSigned
<1>3. Signed => ApprovedIsSigned
  BY DEF Signed
<1> QED
  BY <1>1, <1>2, <1>3, PTL DEF Spec

-----------------------------------------------------------------------------
(* Whoever decides, with one decision after the other.  Filings, and calls *)
(* that fail, may overlap with it.                                         *)

Judges == Deciders \cup Passes \cup Reverters

\* Decisions of people, passes and reverts come one after the other.
OneJudge == \A g, h \in Judges : g = h

Filing == {"checkMinutes", "insertRequest", "insertPermission"}
Deciding == Labels \ ({"idle"} \cup Filing)

\* Who carries what.
RolesKnown ==
    \A h \in Handlers : /\ pc[h] \in Filing => h \in Filers
                        /\ pc[h] \in Deciding => h \in Judges

\* Nobody, and no pass, has decided the request.
Open(r) == status[r] = "pending" /\ decision[r] = None

\* The request in hand is still the pending one that was read.  A pass has
\* selected each request once, and what it has yet to decide is as it was then;
\* what it is about to write is the decision on record, if that was not lost.
Sees(h) ==
    /\ pc[h] \in {"approve", "firstLevel", "secondLevel", "cancel", "record", "stamp"} =>
          status[req[h]] = "pending"
    /\ pc[h] \in {"decide", "record", "stamp"} =>
          /\ \A t \in pass[h].todo : Open(t[1])
          /\ \A t, u \in pass[h].todo : t[1] = u[1] => t = u
    /\ pc[h] \in {"record", "stamp"} => \A t \in pass[h].todo : t[1] # req[h]
    /\ pc[h] = "record" => decision[req[h]] = None
    /\ pc[h] = "stamp" =>
          /\ decision[req[h]] = None => failures > 0
          /\ decision[req[h]] # None =>
                ~decision[req[h]].reverted /\ decision[req[h]].kind = pass[h].chosen

JudgeSees == \A h \in Handlers : Sees(h)

LEMMA InitSees == Init => RolesKnown /\ JudgeSees
BY DEF Init, RolesKnown, JudgeSees, Sees, Filing, Deciding

LEMMA CallRoles ==
    ASSUME TypeOK, RolesKnown, NEW h \in Handlers, Call(h) \/ (h \in Passes /\ Tick(h))
    PROVE  RolesKnown'
BY DEF Call, Tick, CreateRequest, Approve, Reject, ApprovePermission, RejectPermission,
       CancelPermission, SaveSettings, Revert, Begin, Goto, Return, locals, TypeOK, RolesKnown,
       Judges, Filing, Deciding

LEMMA StepRoles ==
    ASSUME TypeOK, RolesKnown, NEW h \in Handlers, Step(h) \/ Swallow(h) \/ Fail(h)
    PROVE  RolesKnown'
<1>1. CASE Return(h)
  BY <1>1 DEF Return, TypeOK, RolesKnown, Filing, Deciding
<1>2. CASE \E label \in Deciding : pc' = [pc EXCEPT ![h] = label] /\ pc[h] \in Deciding
  BY <1>2 DEF TypeOK, RolesKnown, Filing, Deciding
<1>3. CASE \E label \in Filing : pc' = [pc EXCEPT ![h] = label] /\ pc[h] \in Filing
  BY <1>3 DEF TypeOK, RolesKnown, Filing, Deciding
<1> QED
  BY <1>1, <1>2, <1>3
  DEF Step, Swallow, Fail, CheckMinutes, InsertPermission, InsertRequest, ApproveWrite, FirstLevel,
      SecondLevel, RejectWrite, CancelWrite, ReadSettings, SelectPending, Decide, Record, Stamp,
      RevertStatus, RevertMark, NextRequest, Goto, Filing, Deciding, Labels

LEMMA NextRoles == ASSUME TypeOK, RolesKnown, [Next]_vars PROVE RolesKnown'
BY CallRoles, StepRoles DEF Next, vars, locals, RolesKnown

\* While one decides, nobody else does.
LEMMA JudgeAlone ==
    ASSUME OneJudge, RolesKnown', NEW h \in Judges, Sees(h)'
    PROVE  JudgeSees'
BY DEF OneJudge, RolesKnown, JudgeSees, Sees, Deciding, Filing, Labels

LEMMA DoneSees ==
    ASSUME OneJudge, RolesKnown', NEW h \in Judges,
           pc'[h] \in {"idle", "reject", "settings", "select", "revertStatus", "revertMark"}
    PROVE  JudgeSees'
BY JudgeAlone DEF Sees

LEMMA ReturnSees ==
    ASSUME OneJudge, RolesKnown', TypeOK, NEW h \in Judges, Return(h)
    PROVE  JudgeSees'
BY DoneSees DEF Return, TypeOK, Judges

\* Filing makes a new request, and leaves alone those that are there.
LEMMA FilingSees ==
    ASSUME TypeOK, JudgeSees, NEW h \in Handlers,
           \/ \E f \in Form : CreateRequest(h, f)
           \/ CheckMinutes(h) \/ InsertPermission(h) \/ \E r \in Requests : InsertRequest(h, r)
           \/ Fail(h)
    PROVE  JudgeSees'
<1>1. /\ \A r \in Requests : status[r] # None => status'[r] = status[r]
      /\ UNCHANGED decision /\ failures' >= failures
  BY DEF CreateRequest, CheckMinutes, InsertRequest, InsertPermission, Fail, tables, bounds, TypeOK
<1>2. pc'[h] \in {"idle"} \cup Filing
  BY DEF CreateRequest, CheckMinutes, InsertRequest, InsertPermission, Fail, Goto, Return, Filing,
         TypeOK
<1>3. ASSUME NEW g \in Handlers, g # h PROVE Sees(g)'
  <2>1. pc'[g] = pc[g] /\ req'[g] = req[g] /\ pass'[g] = pass[g]
    BY <1>3 DEF CreateRequest, CheckMinutes, InsertRequest, InsertPermission, Fail, Goto, Return,
                TypeOK
  <2>2. Sees(g) /\ pass[g].todo \subseteq Requests \X Dates
    BY DEF JudgeSees, TypeOK, PassLocals
  <2>3. \A t \in pass[g].todo : Open(t[1]) => Open(t[1])'
    BY <1>1, <2>2 DEF Open, Statuses
  <2>4. failures \in Int /\ failures' \in Int
    BY NextType DEF TypeOK, Fail, CreateRequest, CheckMinutes, InsertRequest, InsertPermission, bounds
  <2>5. pc[g] \in Working => req[g] \in Requests
    BY DEF TypeOK
  <2> QED
    BY <1>1, <2>1, <2>2, <2>3, <2>4, <2>5 DEF Sees, Working, Labels, Statuses
<1> QED
  BY <1>2, <1>3 DEF JudgeSees, Sees, Filing

LEMMA CallSees ==
    ASSUME OneJudge, RolesKnown', TypeOK, JudgeSees, NEW h \in Handlers,
           Call(h) \/ (h \in Passes /\ Tick(h))
    PROVE  JudgeSees'
<1>1. ASSUME NEW f \in Form, CreateRequest(h, f) PROVE JudgeSees'
  BY <1>1, FilingSees
<1>2. ASSUME h \in Passes, Tick(h) \/ \E s \in Settings : SaveSettings(h, s) PROVE JudgeSees'
  <2>1. h \in Judges /\ pc'[h] \in {"idle", "settings"}
    BY <1>2 DEF Tick, SaveSettings, Goto, Return, TypeOK, Judges
  <2> QED
    BY <2>1, DoneSees
<1>3. ASSUME h \in Deciders, NEW r \in Requests, Reject(h, r) PROVE JudgeSees'
  <2>1. h \in Judges /\ pc'[h] = "idle"
    BY <1>3 DEF Reject, locals, Judges
  <2> QED
    BY <2>1, DoneSees
<1>4. ASSUME h \in Judges, NEW r \in Requests, NEW label, Begin(h, r, label), UNCHANGED status,
             label \in {"approve", "firstLevel", "secondLevel", "cancel"} => status[r] = "pending",
             label \notin {"decide", "record", "stamp"}
      PROVE  JudgeSees'
  <2>1. pc'[h] = label /\ req'[h] = r
    BY <1>4 DEF Begin, TypeOK
  <2>2. Sees(h)'
    BY <1>4, <2>1 DEF Sees
  <2> QED
    BY <1>4, <2>2, JudgeAlone
<1>5. ASSUME h \in Deciders, NEW r \in Requests,
             Approve(h, r) \/ ApprovePermission(h, r) \/ RejectPermission(h, r)
                \/ CancelPermission(h, r)
      PROVE  JudgeSees'
  BY <1>4, <1>5 DEF Approve, ApprovePermission, RejectPermission, CancelPermission, tables, Judges,
                    TypeOK, Statuses
<1>6. ASSUME h \in Reverters, NEW r \in Requests, Revert(h, r) PROVE JudgeSees'
  BY <1>4, <1>6 DEF Revert, tables, Judges
<1> QED
  BY <1>1, <1>2, <1>3, <1>5, <1>6 DEF Call

LEMMA WritesSee ==
    ASSUME OneJudge, RolesKnown', TypeOK, JudgeSees, NEW h \in Judges,
           \/ ApproveWrite(h) \/ FirstLevel(h) \/ SecondLevel(h) \/ RejectWrite(h)
           \/ CancelWrite(h) \/ ReadSettings(h) \/ RevertStatus(h) \/ RevertMark(h)
    PROVE  JudgeSees'
<1> h \in Handlers
  BY DEF Judges
<1>1. CASE FirstLevel(h) /\ Levels <= 1
  <2>1. pc'[h] = "secondLevel" /\ UNCHANGED <<req, status>> /\ status[req[h]] = "pending"
    BY <1>1 DEF FirstLevel, Goto, TypeOK, JudgeSees, Sees
  <2>2. Sees(h)'
    BY <2>1 DEF Sees
  <2> QED
    BY <2>2, JudgeAlone
<1>2. CASE pc'[h] \in {"idle", "select", "revertMark"}
  BY <1>2, DoneSees
<1> QED
  BY <1>1, <1>2 DEF ApproveWrite, FirstLevel, SecondLevel, RejectWrite, CancelWrite, ReadSettings,
                    RevertStatus, RevertMark, Goto, Return, TypeOK

LEMMA SelectSees ==
    ASSUME OneJudge, RolesKnown', TypeOK, NEW h \in Judges, SelectPending(h)
    PROVE  JudgeSees'
<1> h \in Handlers
  BY DEF Judges
<1>1. CASE Undecided = {}
  BY <1>1, ReturnSees DEF SelectPending
<1>2. CASE Undecided # {}
  <2>1. PICK rows \in SUBSET Undecided :
           pass' = [pass EXCEPT ![h].todo = {<<r, DateOf(r)>> : r \in rows}]
    BY <1>2 DEF SelectPending, kSubset
  <2>2. pc'[h] = "decide" /\ UNCHANGED <<status, decision>>
    BY <1>2 DEF SelectPending, TypeOK, tables
  <2>3. pass'[h].todo = {<<r, DateOf(r)>> : r \in rows}
    BY <2>1 DEF TypeOK, PassLocals
  <2>4. Sees(h)'
    BY <2>2, <2>3 DEF Sees, Open, Undecided
  <2> QED
    BY <2>4, JudgeAlone
<1> QED
  BY <1>1, <1>2

\* The next request of the list is as open as it was.
LEMMA NextRequestSees ==
    ASSUME OneJudge, RolesKnown', TypeOK, NEW h \in Judges, NEW p, NextRequest(h, p),
           [p EXCEPT !.chosen = None].todo = p.todo,
           \A t \in p.todo : Open(t[1])',
           \A t, u \in p.todo : t[1] = u[1] => t = u
    PROVE  JudgeSees'
<1> h \in Handlers
  BY DEF Judges
<1>1. CASE p.todo = {}
  BY <1>1, ReturnSees DEF NextRequest
<1>2. CASE p.todo # {}
  <2>1. pc'[h] = "decide" /\ pass'[h].todo = p.todo
    BY <1>2 DEF NextRequest, TypeOK
  <2>2. Sees(h)'
    BY <2>1 DEF Sees
  <2> QED
    BY <2>2, JudgeAlone
<1> QED
  BY <1>1, <1>2

LEMMA DecideSees ==
    ASSUME OneJudge, RolesKnown', TypeOK, JudgeSees, NEW h \in Judges, Decide(h)
    PROVE  JudgeSees'
<1> h \in Handlers
  BY DEF Judges
<1>1. PICK t \in pass[h].todo, v \in Verdicts :
         LET choice == Choice(pass[h].mode, v)
             p == [pass[h] EXCEPT !.todo = @ \ {t}, !.verdicts[t[2]] = v,
                                  !.chosen = choice]
         IN
         \/ choice = "hold" /\ NextRequest(h, p)
         \/ /\ choice # "hold"
            /\ pass' = [pass EXCEPT ![h] = p]
            /\ pc' = [pc EXCEPT ![h] = "record"]
            /\ req' = [req EXCEPT ![h] = t[1]]
            /\ UNCHANGED filing
  BY DEF Decide
<1> DEFINE choice == Choice(pass[h].mode, v)
           p == [pass[h] EXCEPT !.todo = @ \ {t}, !.verdicts[t[2]] = v,
                                !.chosen = choice]
<1>2. pass[h] \in PassLocals /\ UNCHANGED <<status, decision>>
  BY DEF TypeOK, Decide, tables
<1>3. p.todo = pass[h].todo \ {t} /\ [p EXCEPT !.chosen = None].todo = p.todo
  BY <1>2 DEF PassLocals
<1>4. /\ \A u \in pass[h].todo : Open(u[1])
      /\ \A u, w \in pass[h].todo : u[1] = w[1] => u = w
  BY DEF JudgeSees, Sees, Decide
<1>5. \A u \in pass[h].todo : Open(u[1])'
  BY <1>2, <1>4 DEF Open
<1>6. CASE choice = "hold"
  <2>1. NextRequest(h, p)
    BY <1>1, <1>6
  <2> HIDE DEF p
  <2> QED
    BY <1>3, <1>4, <1>5, <2>1, NextRequestSees
<1>7. CASE choice # "hold"
  <2>1. pass'[h] = p /\ pc'[h] = "record" /\ req'[h] = t[1]
    BY <1>1, <1>7 DEF TypeOK
  <2>2. status'[t[1]] = "pending" /\ decision'[t[1]] = None
    BY <1>5 DEF Open
  <2> HIDE DEF p
  <2>3. Sees(h)'
    BY <1>3, <1>4, <1>5, <2>1, <2>2 DEF Sees
  <2> QED
    BY <2>3, JudgeAlone
<1> QED
  BY <1>6, <1>7

LEMMA RecordSees ==
    ASSUME OneJudge, RolesKnown', TypeOK, JudgeSees, NEW h \in Judges, Record(h)
    PROVE  JudgeSees'
<1> h \in Handlers
  BY DEF Judges
<1>1. /\ pc[h] = "record" /\ pc'[h] = "stamp" /\ UNCHANGED <<status, req, pass, failures>>
      /\ req[h] \in Requests /\ decision[req[h]] = None /\ status[req[h]] = "pending"
  BY DEF Record, Goto, TypeOK, JudgeSees, Sees, bounds, Working, Labels
<1>2. decision' = [decision EXCEPT ![req[h]] = [kind |-> pass[h].chosen, reverted |-> FALSE]]
  BY <1>1 DEF Record
<1>3. \A t \in pass[h].todo : t[1] # req[h] /\ Open(t[1])
  BY <1>1 DEF JudgeSees, Sees
<1>4. \A t \in pass[h].todo : Open(t[1])'
  BY <1>1, <1>2, <1>3 DEF Open, TypeOK
<1>5. decision'[req[h]].kind = pass[h].chosen /\ ~decision'[req[h]].reverted
  BY <1>1, <1>2 DEF TypeOK
<1>6. \A t, u \in pass[h].todo : t[1] = u[1] => t = u
  BY <1>1 DEF JudgeSees, Sees
<1>7. decision'[req[h]] # None
  <2>1. pass[h].chosen \in {"approve", "reject"}
    BY <1>1 DEF TypeOK, PassLocals
  <2>2. [kind |-> pass[h].chosen, reverted |-> FALSE] \in Acted
    BY <2>1 DEF Acted
  <2> QED
    BY <1>1, <1>2, <2>2 DEF TypeOK
<1>8. Sees(h)'
  BY <1>1, <1>3, <1>4, <1>5, <1>6, <1>7 DEF Sees
<1> QED
  BY <1>8, JudgeAlone

LEMMA StampSees ==
    ASSUME OneJudge, RolesKnown', TypeOK, JudgeSees, NEW h \in Judges, Stamp(h)
    PROVE  JudgeSees'
<1> h \in Handlers
  BY DEF Judges
<1>1. /\ pc[h] = "stamp" /\ UNCHANGED decision /\ NextRequest(h, pass[h])
      /\ \E s : WriteStatus(h, s)
  BY DEF Stamp
<1>2. /\ \A t \in pass[h].todo : Open(t[1]) /\ t[1] # req[h]
      /\ \A t, u \in pass[h].todo : t[1] = u[1] => t = u
  BY <1>1 DEF JudgeSees, Sees
<1>3. \A t \in pass[h].todo : Open(t[1])'
  BY <1>1, <1>2 DEF Open, WriteStatus, TypeOK
<1>4. [pass[h] EXCEPT !.chosen = None].todo = pass[h].todo
  BY DEF TypeOK, PassLocals
<1> QED
  BY <1>1, <1>2, <1>3, <1>4, NextRequestSees

LEMMA SwallowSees ==
    ASSUME OneJudge, RolesKnown', TypeOK, JudgeSees, NEW h \in Judges, Swallow(h)
    PROVE  JudgeSees'
<1> h \in Handlers
  BY DEF Judges
<1>1. UNCHANGED <<status, decision>> /\ failures' = failures + 1 /\ failures \in Nat
  BY DEF Swallow, tables, TypeOK
<1>2. CASE pc[h] = "record" /\ Goto(h, "stamp")
  <2>1. pc'[h] = "stamp" /\ UNCHANGED <<req, pass>> /\ failures' > 0
    BY <1>1, <1>2 DEF Goto, TypeOK
  <2>2. Sees(h)'
    BY <1>1, <1>2, <2>1 DEF JudgeSees, Sees, Open
  <2> QED
    BY <2>2, JudgeAlone
<1>3. CASE pc[h] = "stamp" /\ NextRequest(h, pass[h])
  <2>1. /\ \A t \in pass[h].todo : Open(t[1])'
        /\ \A t, u \in pass[h].todo : t[1] = u[1] => t = u
    BY <1>1, <1>3 DEF JudgeSees, Sees, Open
  <2>2. [pass[h] EXCEPT !.chosen = None].todo = pass[h].todo
    BY DEF TypeOK, PassLocals
  <2> QED
    BY <1>3, <2>1, <2>2, NextRequestSees
<1>4. CASE pc'[h] \in {"idle", "revertMark"}
  BY <1>4, DoneSees
<1> QED
  BY <1>2, <1>3, <1>4 DEF Swallow, Goto, Return, TypeOK

LEMMA NextSees ==
    ASSUME OneJudge
    PROVE  TypeOK /\ RolesKnown /\ JudgeSees /\ [Next]_vars => RolesKnown' /\ JudgeSees'
<1> SUFFICES ASSUME TypeOK, RolesKnown, JudgeSees, [Next]_vars PROVE JudgeSees'
  BY NextRoles
<1>1. RolesKnown'
  BY NextRoles
<1>2. ASSUME NEW h \in Handlers, Step(h) PROVE JudgeSees'
  <2>1. CASE pc[h] \in Deciding
    <3>1. h \in Judges
      BY <2>1 DEF RolesKnown
    <3> QED
      BY <1>1, <1>2, <2>1, <3>1, WritesSee, SelectSees, DecideSees, RecordSees, StampSees
      DEF Step, CheckMinutes, InsertPermission, InsertRequest, Deciding, Filing
  <2>2. CASE pc[h] \notin Deciding
    BY <1>2, <2>2, FilingSees
    DEF Step, ApproveWrite, FirstLevel, SecondLevel, RejectWrite, CancelWrite, ReadSettings,
        SelectPending, Decide, Record, Stamp, RevertStatus, RevertMark, Deciding, Filing, Labels
  <2> QED
    BY <2>1, <2>2
<1>3. ASSUME NEW h \in Handlers, Swallow(h) PROVE JudgeSees'
  <2>1. h \in Judges
    BY <1>3 DEF Swallow, RolesKnown, Deciding, Filing, Labels
  <2> QED
    BY <1>1, <1>3, <2>1, SwallowSees
<1>4. ASSUME NEW h \in Handlers, Call(h) \/ Fail(h) \/ (h \in Passes /\ Tick(h))
      PROVE  JudgeSees'
  BY <1>1, <1>4, CallSees, FilingSees
<1>5. CASE UNCHANGED vars
  BY <1>5 DEF vars, tables, locals, bounds, JudgeSees, Sees, Open
<1> QED
  BY <1>2, <1>3, <1>4, <1>5 DEF Next

LEMMA SeesAlways == ASSUME OneJudge PROVE Spec => [](TypeOK /\ RolesKnown /\ JudgeSees)
<1>1. Init => TypeOK /\ RolesKnown /\ JudgeSees
  BY InitType, InitSees
<1>2. TypeOK /\ RolesKnown /\ JudgeSees /\ [Next]_vars => TypeOK' /\ RolesKnown' /\ JudgeSees'
  BY NextType, NextSees
<1> QED
  BY <1>1, <1>2, PTL DEF Spec

\* As long as decisions come one after the other, Auto Mode never changes what a
\* person or an earlier pass has decided, although it writes the status by id
\* alone, statements after it has selected the request.
THEOREM DecidesPending == ASSUME OneJudge PROVE Spec => AutoDecidesPending
<1>1. TypeOK /\ JudgeSees /\ [Next]_vars
        => [\A h \in Handlers, r \in Requests : AutoWrites(h, r) => status[r] = "pending"]_vars
  BY DEF JudgeSees, Sees, AutoWrites
<1> QED
  BY <1>1, SeesAlways, PTL DEF Spec, AutoDecidesPending

\* And what it writes is the decision on record, or a failed INSERT has left it
\* without one.
THEOREM ActsOnRecord == ASSUME OneJudge PROVE Spec => AutoActsOnRecord
<1>1. TypeOK /\ JudgeSees /\ [Next]_vars
        => [\A h \in Handlers, r \in Requests : AutoWrites(h, r) =>
              /\ decision[r] = None => failures > 0
              /\ decision[r] # None =>
                    ~decision[r].reverted /\ decision[r].kind = pass[h].chosen]_vars
  BY DEF JudgeSees, Sees, AutoWrites
<1> QED
  BY <1>1, SeesAlways, PTL DEF Spec, AutoActsOnRecord

-----------------------------------------------------------------------------
(* The weekly quota, with one filing after the other and one decision      *)
(* after the other, and no revert.                                         *)

OneFiler == \A g, h \in Filers : g = h

Weeks == {Week[d] : d \in Dates}

Closed == {"rejected", "cancelled"}

\* Every permission on file has a request, and passed the check of its length.
FormsKnown ==
    \A r \in Requests : form[r] # None =>
        status[r] # None /\ form[r].minutes \in MinDuration .. MaxDuration

\* What a createRequest in progress has checked still holds.
Fits(h) ==
    pc[h] \in Filing => \E f \in Form :
        /\ filing[h] = f
        /\ f.minutes \in MinDuration .. MaxDuration
        /\ Cardinality(Counted(f.owner, Week[f.date])) < MaxPerWeek
        /\ pc[h] # "checkMinutes" =>
              UsedMinutes(f.owner, Week[f.date]) + f.minutes <= MaxMinutesPerWeek
        /\ pc[h] = "insertPermission" => form[req[h]] = None /\ status[req[h]] # None

QuotaFits == FormsKnown /\ WeeklyQuota /\ \A h \in Handlers : Fits(h)

\* No permission joins those that count.
NoneJoins ==
    \A r \in Requests : form'[r] # None /\ status'[r] \notin Closed =>
        form'[r] = form[r] /\ status[r] \notin Closed

LEMMA CountedFinite ==
    ASSUME NEW e, NEW w
    PROVE  IsFiniteSet(Counted(e, w)) /\ Cardinality(Counted(e, w)) \in Nat
BY FS_Subset, FS_CardinalityType DEF Counted

LEMMA MinutesKnown ==
    ASSUME FormsKnown, NEW e, NEW w
    PROVE  \A r \in Counted(e, w) : form[r].minutes \in 0 .. MaxDuration
BY DEF FormsKnown, Counted, MinDuration, MaxDuration

\* Then every quota stays as it is, or becomes easier to keep.
LEMMA QuotaLess ==
    ASSUME FormsKnown, NoneJoins, NEW e, NEW w
    PROVE  /\ Cardinality(Counted(e, w)) \in Nat /\ Cardinality(Counted(e, w)') \in Nat
           /\ UsedMinutes(e, w) \in Nat /\ UsedMinutes(e, w)' \in Nat
           /\ Cardinality(Counted(e, w)') <= Cardinality(Counted(e, w))
           /\ UsedMinutes(e, w)' <= UsedMinutes(e, w)
<1> DEFINE S == Counted(e, w)
           T == Counted(e, w)'
<1>1. T \in SUBSET S /\ \A r \in T : form'[r] = form[r]
  BY DEF Counted, NoneJoins, Closed
<1>2. IsFiniteSet(S) /\ \A r \in S : form[r].minutes \in 0 .. MaxDuration
  BY CountedFinite, MinutesKnown
<1>3. UsedMinutes(e, w) = MinutesOf(form, S)
  BY DEF UsedMinutes, MinutesOf
<1>8. UsedMinutes(e, w)' = MinutesOf(form', T)
  BY DEF UsedMinutes, MinutesOf, MapThenSumSet, MapThenFoldSet
<1> HIDE DEF S, T
<1>4. IsFiniteSet(T) /\ \A r \in T : form'[r].minutes \in 0 .. MaxDuration
  BY <1>1, <1>2, FS_Subset
<1>5. MinutesOf(form', T) <= MinutesOf(form, S)
  BY <1>1, <1>2, MinutesFewer
<1>6. Cardinality(T) <= Cardinality(S) /\ Cardinality(T) \in Nat /\ Cardinality(S) \in Nat
  BY <1>1, <1>2, <1>4, FS_Subset, FS_CardinalityType
<1>7. MinutesOf(form', T) \in Nat /\ MinutesOf(form, S) \in Nat
  BY <1>2, <1>4, MinutesAreUnits, UnitsFinite
<1> QED
  BY <1>3, <1>5, <1>6, <1>7, <1>8 DEF S, T

\* A step that lets none join keeps the quotas, and what filings in progress
\* have checked.
LEMMA QuotaStays ==
    ASSUME TypeOK, FormsKnown, NoneJoins, WeeklyQuota
    PROVE  WeeklyQuota'
BY QuotaLess DEF WeeklyQuota, MaxPerWeek, MaxMinutesPerWeek

LEMMA FitsStays ==
    ASSUME FormsKnown, NoneJoins, NEW h \in Handlers, Fits(h),
           pc'[h] = pc[h], req'[h] = req[h], filing'[h] = filing[h],
           pc[h] = "insertPermission" =>
              form'[req[h]] = form[req[h]] /\ (status[req[h]] # None => status'[req[h]] # None)
    PROVE  Fits(h)'
<1>1. CASE pc[h] \in Filing
  <2>1. PICK f \in Form :
           /\ filing[h] = f
           /\ f.minutes \in MinDuration .. MaxDuration
           /\ Cardinality(Counted(f.owner, Week[f.date])) < MaxPerWeek
           /\ pc[h] # "checkMinutes" =>
                 UsedMinutes(f.owner, Week[f.date]) + f.minutes <= MaxMinutesPerWeek
           /\ pc[h] = "insertPermission" => form[req[h]] = None /\ status[req[h]] # None
    BY <1>1 DEF Fits
  <2> DEFINE e == f.owner
             w == Week[f.date]
  <2>2. /\ Cardinality(Counted(e, w)) \in Nat /\ Cardinality(Counted(e, w)') \in Nat
        /\ UsedMinutes(e, w) \in Nat /\ UsedMinutes(e, w)' \in Nat
        /\ Cardinality(Counted(e, w)') <= Cardinality(Counted(e, w))
        /\ UsedMinutes(e, w)' <= UsedMinutes(e, w)
    BY QuotaLess
  <2>3. /\ Cardinality(Counted(e, w)') < MaxPerWeek
        /\ pc[h] # "checkMinutes" => UsedMinutes(e, w)' + f.minutes <= MaxMinutesPerWeek
    BY <2>1, <2>2 DEF MaxPerWeek, MaxMinutesPerWeek, MinDuration, MaxDuration
  <2> QED
    BY <2>1, <2>3 DEF Fits
<1>2. CASE pc[h] \notin Filing
  BY <1>2 DEF Fits
<1> QED
  BY <1>1, <1>2

\* A step of h that lets none join, and after which h is not filing.
LEMMA StepStays ==
    ASSUME TypeOK, QuotaFits, NoneJoins, UNCHANGED form, NEW h \in Handlers, Fits(h)',
           \A r \in Requests : status[r] # None => status'[r] # None,
           \A g \in Handlers \ {h} :
              pc'[g] = pc[g] /\ req'[g] = req[g] /\ filing'[g] = filing[g]
    PROVE  QuotaFits'
<1>1. FormsKnown'
  BY DEF QuotaFits, FormsKnown
<1>2. WeeklyQuota'
  BY QuotaStays DEF QuotaFits
<1>3. ASSUME NEW g \in Handlers, g # h PROVE Fits(g)'
  <2>1. pc[g] = "insertPermission" => req[g] \in Requests
    BY DEF TypeOK, Working, Labels
  <2> QED
    BY <1>3, <2>1, FitsStays DEF QuotaFits
<1> QED
  BY <1>1, <1>2, <1>3 DEF QuotaFits

LEMMA FilingQuota ==
    ASSUME TypeOK, QuotaFits, NEW h \in Handlers,
           \/ \E f \in Form : CreateRequest(h, f)
           \/ CheckMinutes(h) \/ \E r \in Requests : InsertRequest(h, r)
    PROVE  QuotaFits'
<1>1. \A g \in Handlers \ {h} : pc'[g] = pc[g] /\ req'[g] = req[g] /\ filing'[g] = filing[g]
  BY DEF CreateRequest, CheckMinutes, InsertRequest, Goto, Return, TypeOK
<1>2. NoneJoins /\ UNCHANGED form /\ \A r \in Requests : status[r] # None => status'[r] # None
  BY DEF CreateRequest, CheckMinutes, InsertRequest, tables, TypeOK, NoneJoins, Statuses, QuotaFits,
         FormsKnown
<1>3. CASE pc'[h] = "idle"
  BY <1>1, <1>2, <1>3, StepStays DEF Fits, Filing
<1>4. ASSUME NEW f \in Form, CreateRequest(h, f) PROVE Fits(h)'
  <2>1. Counted(f.owner, Week[f.date])' = Counted(f.owner, Week[f.date])
    BY <1>4 DEF CreateRequest, Counted, tables
  <2> QED
    BY <1>4, <2>1 DEF CreateRequest, Fits, TypeOK
<1>5. ASSUME CheckMinutes(h), pc'[h] # "idle" PROVE Fits(h)'
  <2>1. PICK f \in Form :
           /\ filing[h] = f /\ f.minutes \in MinDuration .. MaxDuration
           /\ Cardinality(Counted(f.owner, Week[f.date])) < MaxPerWeek
    BY <1>5 DEF CheckMinutes, QuotaFits, Fits, Filing
  <2>2. /\ UsedMinutes(f.owner, Week[f.date]) + f.minutes <= MaxMinutesPerWeek
        /\ pc'[h] = "insertRequest" /\ filing'[h] = f
    BY <1>5, <2>1 DEF CheckMinutes, Goto, Return, TypeOK
  <2>3. /\ Cardinality(Counted(f.owner, Week[f.date])') < MaxPerWeek
        /\ UsedMinutes(f.owner, Week[f.date])' + f.minutes <= MaxMinutesPerWeek
    BY <1>2, <2>1, <2>2, QuotaLess
    DEF QuotaFits, MaxPerWeek, MaxMinutesPerWeek, MinDuration, MaxDuration
  <2> QED
    BY <2>1, <2>2, <2>3 DEF Fits
<1>6. ASSUME NEW r \in Requests, InsertRequest(h, r) PROVE Fits(h)'
  <2>1. PICK f \in Form :
           /\ filing[h] = f /\ f.minutes \in MinDuration .. MaxDuration
           /\ Cardinality(Counted(f.owner, Week[f.date])) < MaxPerWeek
           /\ UsedMinutes(f.owner, Week[f.date]) + f.minutes <= MaxMinutesPerWeek
    BY <1>6 DEF InsertRequest, QuotaFits, Fits, Filing
  <2>2. /\ pc'[h] = "insertPermission" /\ filing'[h] = f /\ req'[h] = r
        /\ form'[r] = None /\ status'[r] # None
    <3>1. form[r] = None
      BY <1>6 DEF InsertRequest, QuotaFits, FormsKnown
    <3> QED
      BY <1>6, <2>1, <3>1 DEF InsertRequest, TypeOK, Statuses
  <2>3. /\ Cardinality(Counted(f.owner, Week[f.date])') < MaxPerWeek
        /\ UsedMinutes(f.owner, Week[f.date])' + f.minutes <= MaxMinutesPerWeek
    BY <1>2, <2>1, QuotaLess DEF QuotaFits, MaxPerWeek, MaxMinutesPerWeek, MinDuration, MaxDuration
  <2> QED
    BY <2>1, <2>2, <2>3 DEF Fits
<1> QED
  BY <1>1, <1>2, <1>3, <1>4, <1>5, <1>6, StepStays

\* The permission that joins was counted beforehand.
LEMMA InsertQuota ==
    ASSUME TypeOK, OneFiler, RolesKnown, QuotaFits, NEW h \in Handlers, InsertPermission(h)
    PROVE  QuotaFits'
<1>1. PICK f \in Form :
         /\ filing[h] = f
         /\ f.minutes \in MinDuration .. MaxDuration
         /\ Cardinality(Counted(f.owner, Week[f.date])) < MaxPerWeek
         /\ UsedMinutes(f.owner, Week[f.date]) + f.minutes <= MaxMinutesPerWeek
         /\ form[req[h]] = None /\ status[req[h]] # None
  BY DEF InsertPermission, QuotaFits, Fits, Filing
<1>2. PICK q \in Requests : req[h] = q
  BY DEF InsertPermission, TypeOK, Working, Labels
<1>3. form' = [form EXCEPT ![q] = f] /\ UNCHANGED status
  BY <1>1, <1>2 DEF InsertPermission
<1>4. FormsKnown'
  BY <1>1, <1>2, <1>3 DEF QuotaFits, FormsKnown, TypeOK
<1>5. ASSUME NEW e \in Employees, NEW w \in Weeks
      PROVE  /\ Cardinality(Counted(e, w)') <= MaxPerWeek
             /\ UsedMinutes(e, w)' <= MaxMinutesPerWeek
  <2> DEFINE S == Counted(e, w)
             T == Counted(e, w)'
  <2>1. IsFiniteSet(S) /\ \A r \in S : form[r].minutes \in 0 .. MaxDuration
    BY CountedFinite, MinutesKnown DEF QuotaFits
  <2>2. UsedMinutes(e, w) = MinutesOf(form, S)
    BY DEF UsedMinutes, MinutesOf
  <2>3. UsedMinutes(e, w)' = MinutesOf(form', T)
    BY DEF UsedMinutes, MinutesOf, MapThenSumSet, MapThenFoldSet
  <2>4. q \notin S /\ \A r \in S : form'[r] = form[r]
    BY <1>1, <1>2, <1>3 DEF Counted, TypeOK
  <2>5. Cardinality(S) <= MaxPerWeek /\ UsedMinutes(e, w) <= MaxMinutesPerWeek
    BY DEF QuotaFits, WeeklyQuota, Weeks
  <2>6. CASE T = S
    <3>1. MinutesOf(form', T) <= MinutesOf(form, S)
      <4> HIDE DEF S, T
      <4> QED
        BY <2>1, <2>4, <2>6, MinutesFewer
    <3>2. MinutesOf(form', T) \in Nat /\ MinutesOf(form, S) \in Nat
      <4>1. \A r \in S : form'[r].minutes \in 0 .. MaxDuration
        BY <2>1, <2>4
      <4> HIDE DEF S, T
      <4> QED
        BY <2>1, <4>1, <2>6, MinutesAreUnits, UnitsFinite
    <3> QED
      BY <2>2, <2>3, <2>5, <2>6, <3>1, <3>2 DEF MaxMinutesPerWeek
  <2>7. CASE T = S \cup {q} /\ e = f.owner /\ w = Week[f.date]
    <3>1. form'[q].minutes = f.minutes /\ f.minutes \in 0 .. MaxDuration
      BY <1>1, <1>2, <1>3 DEF TypeOK, MinDuration, MaxDuration
    <3>2. MinutesOf(form', T) = MinutesOf(form, S) + f.minutes
      <4> HIDE DEF S, T
      <4> QED
        BY <2>1, <2>4, <2>7, <3>1, MinutesMore
    <3>3. Cardinality(T) = Cardinality(S) + 1 /\ Cardinality(S) \in Nat
      <4> HIDE DEF S, T
      <4> QED
        BY <2>1, <2>4, <2>7, FS_AddElement, FS_CardinalityType
    <3> QED
      BY <1>1, <2>2, <2>3, <2>7, <3>2, <3>3 DEF MaxPerWeek
  <2>8. T = S \/ (T = S \cup {q} /\ e = f.owner /\ w = Week[f.date])
    BY <1>1, <1>2, <1>3 DEF Counted, TypeOK
  <2> QED
    BY <2>6, <2>7, <2>8
<1>6. \A g \in Handlers : pc'[g] \notin Filing
  BY DEF InsertPermission, Return, OneFiler, RolesKnown, TypeOK, Filing
<1> QED
  BY <1>4, <1>5, <1>6 DEF QuotaFits, WeeklyQuota, Weeks, Fits

\* What people, passes and failures write to the tables lets none join: an
\* approval is of a request that is still pending.
LEMMA OthersJoin ==
    ASSUME TypeOK, JudgeSees, Reverters = {}, RolesKnown, NEW h \in Handlers,
           \/ \E r \in Requests :
                 \/ Approve(h, r) \/ Reject(h, r) \/ ApprovePermission(h, r)
                 \/ RejectPermission(h, r) \/ CancelPermission(h, r)
           \/ \E s \in Settings : SaveSettings(h, s)
           \/ ApproveWrite(h) \/ FirstLevel(h) \/ SecondLevel(h) \/ RejectWrite(h) \/ CancelWrite(h)
           \/ ReadSettings(h) \/ SelectPending(h) \/ Decide(h) \/ Record(h) \/ Stamp(h)
           \/ Tick(h) \/ Swallow(h) \/ Fail(h)
    PROVE  /\ NoneJoins /\ UNCHANGED form
           /\ \A r \in Requests : status[r] # None => status'[r] # None
<1>1. UNCHANGED form
  BY DEF Approve, Reject, ApprovePermission, RejectPermission, CancelPermission, SaveSettings,
         ApproveWrite, FirstLevel, SecondLevel, RejectWrite, CancelWrite, ReadSettings,
         SelectPending, Decide, Record, Stamp, Tick, Swallow, Fail, tables
<1>2. CASE UNCHANGED status
  BY <1>1, <1>2 DEF NoneJoins
<1>3. CASE \E r \in Requests, s \in Closed : status' = [status EXCEPT ![r] = s]
  BY <1>1, <1>3 DEF NoneJoins, Closed, Statuses, TypeOK
<1>4. CASE \E r \in Requests : status' = [status EXCEPT ![r] = "approved"] /\ status[r] = "pending"
  BY <1>1, <1>4 DEF NoneJoins, Closed, Statuses, TypeOK
<1>5. pc[h] \in Working => req[h] \in Requests
  BY DEF TypeOK
<1>6. pc[h] \in {"approve", "secondLevel", "stamp"} => status[req[h]] = "pending"
  BY DEF JudgeSees, Sees
<1> QED
  BY <1>2, <1>3, <1>4, <1>5, <1>6
  DEF Approve, Reject, ApprovePermission, RejectPermission, CancelPermission, SaveSettings,
      ApproveWrite, FirstLevel, SecondLevel, RejectWrite, CancelWrite, ReadSettings,
      SelectPending, Decide, Record, Stamp, Tick, Swallow, Fail, tables, WriteStatus, Closed,
      Working, Labels

\* And none of them is, or becomes, a filing.
LEMMA OthersQuota ==
    ASSUME TypeOK, JudgeSees, Reverters = {}, RolesKnown, QuotaFits, NEW h \in Handlers,
           \/ \E r \in Requests :
                 \/ Approve(h, r) \/ Reject(h, r) \/ ApprovePermission(h, r)
                 \/ RejectPermission(h, r) \/ CancelPermission(h, r)
           \/ \E s \in Settings : SaveSettings(h, s)
           \/ ApproveWrite(h) \/ FirstLevel(h) \/ SecondLevel(h) \/ RejectWrite(h) \/ CancelWrite(h)
           \/ ReadSettings(h) \/ SelectPending(h) \/ Decide(h) \/ Record(h) \/ Stamp(h)
           \/ Tick(h) \/ Swallow(h) \/ Fail(h)
    PROVE  QuotaFits'
<1>1. /\ NoneJoins /\ UNCHANGED form
      /\ \A r \in Requests : status[r] # None => status'[r] # None
  BY OthersJoin
<1>2. CASE UNCHANGED <<pc, req, filing>>
  <2>1. \A g \in Handlers : pc[g] = "insertPermission" => req[g] \in Requests
    BY DEF TypeOK, Working, Labels
  <2>2. Fits(h)'
    BY <1>1, <1>2, <2>1, FitsStays DEF QuotaFits
  <2> QED
    BY <1>1, <1>2, <2>2, StepStays
<1>3. CASE \E label \in Labels \ Filing :
              /\ pc' = [pc EXCEPT ![h] = label]
              /\ \E r : req' = [req EXCEPT ![h] = r]
              /\ \E f : filing' = [filing EXCEPT ![h] = f]
  <2>1. pc'[h] \notin Filing
    BY <1>3 DEF TypeOK
  <2>2. \A g \in Handlers \ {h} : pc'[g] = pc[g] /\ req'[g] = req[g] /\ filing'[g] = filing[g]
    BY <1>3 DEF TypeOK
  <2> QED
    BY <1>1, <2>1, <2>2, StepStays DEF Fits
<1>4. /\ req = [req EXCEPT ![h] = req[h]]
      /\ filing = [filing EXCEPT ![h] = filing[h]]
  BY DEF TypeOK
<1> QED
  BY <1>2, <1>3, <1>4
  DEF Approve, Reject, ApprovePermission, RejectPermission, CancelPermission, SaveSettings,
      ApproveWrite, FirstLevel, SecondLevel, RejectWrite, CancelWrite, ReadSettings,
      SelectPending, Decide, Record, Stamp, Tick, Swallow, Fail, Begin, Goto, Return, NextRequest,
      locals, Labels, Filing

LEMMA NextQuota ==
    ASSUME OneFiler, OneJudge, Reverters = {}
    PROVE  TypeOK /\ Signed /\ RolesKnown /\ JudgeSees /\ QuotaFits /\ [Next]_vars => QuotaFits'
<1> SUFFICES ASSUME TypeOK, Signed, RolesKnown, JudgeSees, QuotaFits, [Next]_vars
             PROVE  QuotaFits'
  OBVIOUS
<1>1. ASSUME NEW h \in Handlers, Call(h) PROVE QuotaFits'
  BY <1>1, FilingQuota, OthersQuota DEF Call
<1>2. ASSUME NEW h \in Handlers, Step(h) PROVE QuotaFits'
  <2>1. ~RevertStatus(h) /\ ~RevertMark(h)
    BY DEF RevertStatus, RevertMark, Signed
  <2> QED
    BY <1>2, <2>1, FilingQuota, InsertQuota, OthersQuota DEF Step
<1>3. ASSUME NEW h \in Handlers, Swallow(h) \/ Fail(h) \/ Tick(h) PROVE QuotaFits'
  BY <1>3, OthersQuota
<1>4. CASE UNCHANGED vars
  <2>1. NoneJoins /\ FormsKnown'
    BY <1>4 DEF vars, tables, NoneJoins, QuotaFits, FormsKnown
  <2>2. \A h \in Handlers : Fits(h)'
    BY <1>4, <2>1, FitsStays DEF vars, tables, locals, QuotaFits
  <2> QED
    BY <2>1, <2>2, QuotaStays DEF QuotaFits
<1> QED
  BY <1>1, <1>2, <1>3, <1>4 DEF Next

\* With one filing at a time and one decision at a time, and as long as nobody
\* reverts Auto Mode, what is on file keeps the weekly quota if it did at the
\* start.  Filings and decisions may overlap, and calls may fail halfway.
THEOREM QuotaCorrect ==
    ASSUME OneFiler, OneJudge, Reverters = {}
    PROVE  Spec => (WeeklyQuota => []WeeklyQuota)
<1> DEFINE I == TypeOK /\ Signed /\ RolesKnown /\ JudgeSees
<1>1. Init => I
  BY InitType, InitSigned, InitSees
<1>2. I /\ [Next]_vars => I'
  BY NextType, NextSigned, NextSees
<1>3. Init /\ WeeklyQuota => QuotaFits
  BY DEF Init, QuotaFits, FormsKnown, Fits, Filing, Statuses
<1>4. I /\ QuotaFits /\ [Next]_vars => QuotaFits'
  BY NextQuota
<1>5. QuotaFits => WeeklyQuota
  BY DEF QuotaFits
<1> HIDE DEF I
<1> QED
  BY <1>1, <1>2, <1>3, <1>4, <1>5, PTL DEF Spec

-----------------------------------------------------------------------------
(* The safe surplus, where only Auto Mode approves and rejects nothing.    *)

OnlyApproving ==
    /\ Filers = {} /\ Deciders = {} /\ MaxFailures = 0
    /\ \A s \in Settings \cup {Initial} : ~s.reject

\* The requests filed for date d, and whether all of them leave it the surplus.
FiledOn(d) == {r \in Requests : Filed[r] # None /\ Filed[r].date = d}

Safe(d) == Judge(Gap(d, Cardinality(FiledOn(d)), Required[d])) = "approve"

\* The tables: what is filed stays filed, and an approval was safe.
TablesSafe ==
    /\ form = Filed
    /\ \A r \in Requests :
        /\ Filed[r] = None => status[r] = None
        /\ Filed[r] # None => status[r] \in {"pending", "approved"}
        /\ status[r] = "approved" => Safe(Filed[r].date)
        /\ decision[r] # None => Filed[r] # None
    /\ ~settings.reject

\* A pass in progress: what it is about to write, and every verdict it kept, is
\* one that all of the requests on file can have.
PassSafe(h) ==
    /\ pc[h] \in {"idle", "settings", "select", "decide", "record", "stamp",
                  "revertStatus", "revertMark"}
    /\ pc[h] \in {"select", "decide", "record", "stamp"} =>
          pass[h].mode \in Mode /\ ~pass[h].mode.reject
    /\ \A d \in Dates : pass[h].verdicts[d] = "approve" => Safe(d)
    /\ \A t \in pass[h].todo : Filed[t[1]] # None /\ Filed[t[1]].date = t[2]
    /\ pc[h] \in {"record", "stamp"} =>
          pass[h].chosen = "approve" /\ Filed[req[h]] # None /\ Safe(Filed[req[h]].date)

AllSafe == TablesSafe /\ \A h \in Handlers : PassSafe(h)

LEMMA VerdictSafe ==
    ASSUME TablesSafe, NEW d \in Dates
    PROVE  Verdict(d) = "approve" => Safe(d)
<1>1. OnFile(d, {"approved", "pending"}) = FiledOn(d)
  BY DEF OnFile, FiledOn, TablesSafe
<1> QED
  BY <1>1 DEF Verdict, Safe

\* With fewer away the gap is no smaller.
LEMMA GapLess ==
    ASSUME NEW d \in Dates, NEW n \in Nat, NEW m \in Nat, m <= n
    PROVE  Gap(d, m, Required[d]) >= Gap(d, n, Required[d]) /\ Gap(d, n, Required[d]) \in Int
           /\ Gap(d, m, Required[d]) \in Int
<1>1. \A x \in Int : Max({0, x}) = IF x > 0 THEN x ELSE 0
  <2> SUFFICES ASSUME NEW x \in Int PROVE Max({0, x}) = IF x > 0 THEN x ELSE 0
    OBVIOUS
  <2>1. \A y : (y \in {0, x} /\ \A z \in {0, x} : y >= z) <=> y = IF x > 0 THEN x ELSE 0
    OBVIOUS
  <2> QED
    BY <2>1 DEF Max
<1>2. Scheduled[d] \in Nat /\ Required[d] \in Nat
  OBVIOUS
<1> DEFINE x == Scheduled[d] - n
           y == Scheduled[d] - m
<1>3. x \in Int /\ y \in Int /\ x <= y
  BY <1>2
<1>4. /\ Gap(d, n, Required[d]) = Max({0, x}) - Required[d]
      /\ Gap(d, m, Required[d]) = Max({0, y}) - Required[d]
  BY DEF Gap
<1> HIDE DEF x, y
<1>5. /\ Max({0, x}) = IF x > 0 THEN x ELSE 0
      /\ Max({0, y}) = IF y > 0 THEN y ELSE 0
  BY <1>1, <1>3
<1> QED
  BY <1>2, <1>3, <1>4, <1>5

\* The surplus is there: those approved are among those filed.
LEMMA TablesKeepSurplus == TablesSafe => SurplusKept
<1> SUFFICES ASSUME TablesSafe, NEW d \in Dates,
                    Cardinality(OnFile(d, {"approved"})) > 0
             PROVE  Gap(d, Cardinality(OnFile(d, {"approved"})), Required[d]) >= SurplusSafe
  BY DEF SurplusKept
<1> DEFINE A == OnFile(d, {"approved"})
           F == FiledOn(d)
<1>1. IsFiniteSet(F) /\ A \in SUBSET F
  BY FS_Subset DEF FiledOn, OnFile, TablesSafe
<1>2. IsFiniteSet(A) /\ Cardinality(A) <= Cardinality(F)
      /\ Cardinality(A) \in Nat /\ Cardinality(F) \in Nat
  BY <1>1, FS_Subset, FS_CardinalityType
<1>3. A # {}
  BY FS_EmptySet
<1>4. Safe(d)
  BY <1>3 DEF OnFile, TablesSafe
<1>5. Gap(d, Cardinality(F), Required[d]) \in Int /\ Gap(d, Cardinality(F), Required[d]) >= SurplusSafe
  BY <1>2, <1>4, GapLess DEF Safe, Judge
<1> QED
  BY <1>2, <1>5, GapLess

LEMMA InitSafe == OnlyApproving /\ Init => AllSafe
BY DEF OnlyApproving, Init, AllSafe, TablesSafe, PassSafe, NoPass, Statuses

\* Nothing but approvals that are safe, and reverts of them.
LEMMA WriteSafe ==
    ASSUME TypeOK, AllSafe, NEW h \in Handlers, Stamp(h) \/ RevertStatus(h)
    PROVE  TablesSafe'
BY DEF Stamp, RevertStatus, WriteStatus, TypeOK, AllSafe, TablesSafe, PassSafe, Working, Labels, Statuses

LEMMA MarkSafe ==
    ASSUME TypeOK, AllSafe, NEW h \in Handlers, Record(h) \/ RevertMark(h)
    PROVE  TablesSafe'
BY DEF Record, RevertMark, TypeOK, AllSafe, TablesSafe, PassSafe, Working, Labels

LEMMA SettingsSafe ==
    ASSUME OnlyApproving, AllSafe, NEW h \in Handlers, NEW s \in Settings, SaveSettings(h, s)
    PROVE  TablesSafe'
BY DEF OnlyApproving, SaveSettings, AllSafe, TablesSafe

\* A handler that moves on with the same pass, or without one.
LEMMA MoveSafe ==
    ASSUME TypeOK, AllSafe, NEW h \in Handlers, NEW label, Goto(h, label),
           label \in {"idle", "settings", "revertMark"} \/ (label = "stamp" /\ pc[h] = "record")
    PROVE  \A g \in Handlers : PassSafe(g)'
BY DEF Goto, TypeOK, AllSafe, PassSafe

LEMMA ReturnSafe ==
    ASSUME TypeOK, AllSafe, NEW h \in Handlers, Return(h)
    PROVE  \A g \in Handlers : PassSafe(g)'
BY DEF Return, TypeOK, AllSafe, PassSafe, NoPass

LEMMA BeginRevertSafe ==
    ASSUME TypeOK, AllSafe, NEW h \in Handlers, NEW r \in Requests, Begin(h, r, "revertStatus")
    PROVE  \A g \in Handlers : PassSafe(g)'
BY DEF Begin, TypeOK, AllSafe, PassSafe

LEMMA NextRequestSafe ==
    ASSUME TypeOK, AllSafe, NEW h \in Handlers, NEW p \in PassLocals, NextRequest(h, p),
           p.mode \in Mode, ~p.mode.reject,
           \A d \in Dates : p.verdicts[d] = "approve" => Safe(d),
           \A t \in p.todo : Filed[t[1]] # None /\ Filed[t[1]].date = t[2]
    PROVE  \A g \in Handlers : PassSafe(g)'
<1>1. CASE p.todo = {}
  BY <1>1, ReturnSafe DEF NextRequest
<1>2. CASE p.todo # {}
  <2>1. /\ [p EXCEPT !.chosen = None].mode = p.mode
        /\ [p EXCEPT !.chosen = None].todo = p.todo
        /\ [p EXCEPT !.chosen = None].verdicts = p.verdicts
    BY DEF PassLocals
  <2>2. /\ pc' = [pc EXCEPT ![h] = "decide"]
        /\ req' = [req EXCEPT ![h] = None]
        /\ pass' = [pass EXCEPT ![h] = [p EXCEPT !.chosen = None]]
    BY <1>2 DEF NextRequest
  <2>3. PassSafe(h)'
    BY <2>1, <2>2 DEF TypeOK, PassSafe
  <2>4. ASSUME NEW g \in Handlers, g # h PROVE PassSafe(g)'
    BY <2>2, <2>4 DEF TypeOK, AllSafe, PassSafe
  <2> QED
    BY <2>3, <2>4
<1> QED
  BY <1>1, <1>2

LEMMA ReadSettingsSafe ==
    ASSUME TypeOK, AllSafe, NEW h \in Handlers, ReadSettings(h)
    PROVE  \A g \in Handlers : PassSafe(g)'
<1>1. CASE settings.enabled
  <2>1. /\ pass' = [pass EXCEPT ![h].mode = settings]
        /\ pc' = [pc EXCEPT ![h] = "select"] /\ req' = req
    BY <1>1 DEF ReadSettings
  <2>2. pass[h] \in PassLocals /\ settings \in Mode /\ ~settings.reject
    BY DEF TypeOK, AllSafe, TablesSafe
  <2>3. /\ pass'[h].mode = settings /\ pass'[h].verdicts = pass[h].verdicts
        /\ pass'[h].todo = pass[h].todo
    BY <2>1, <2>2 DEF TypeOK, PassLocals
  <2>4. PassSafe(h)'
    BY <2>1, <2>2, <2>3 DEF TypeOK, AllSafe, PassSafe
  <2>5. ASSUME NEW g \in Handlers, g # h PROVE PassSafe(g)'
    BY <2>1, <2>5 DEF TypeOK, AllSafe, PassSafe
  <2> QED
    BY <2>4, <2>5
<1>2. CASE ~settings.enabled
  BY <1>2, ReturnSafe DEF ReadSettings
<1> QED
  BY <1>1, <1>2

LEMMA SelectPendingSafe ==
    ASSUME TypeOK, AllSafe, NEW h \in Handlers, SelectPending(h)
    PROVE  \A g \in Handlers : PassSafe(g)'
<1>1. CASE Undecided = {}
  BY <1>1, ReturnSafe DEF SelectPending
<1>2. CASE Undecided # {}
  <2>1. PICK rows \in SUBSET Undecided :
           pass' = [pass EXCEPT ![h].todo = {<<r, DateOf(r)>> : r \in rows}]
    BY <1>2 DEF SelectPending, kSubset
  <2>2. pc[h] = "select" /\ pc' = [pc EXCEPT ![h] = "decide"] /\ req' = req
    BY <1>2 DEF SelectPending
  <2>3. pass[h] \in PassLocals
    BY DEF TypeOK
  <2>4. /\ pass'[h].mode = pass[h].mode /\ pass'[h].verdicts = pass[h].verdicts
        /\ pass'[h].todo = {<<r, DateOf(r)>> : r \in rows}
    BY <2>1, <2>3 DEF TypeOK, PassLocals
  <2>5. \A r \in rows : Filed[r] # None /\ Filed[r].date = DateOf(r)
    BY DEF Undecided, DateOf, AllSafe, TablesSafe, Statuses
  <2>6. \A t \in pass'[h].todo : Filed[t[1]] # None /\ Filed[t[1]].date = t[2]
    BY <2>4, <2>5
  <2>7. PassSafe(h)'
    BY <2>2, <2>4, <2>6 DEF TypeOK, AllSafe, PassSafe
  <2>8. ASSUME NEW g \in Handlers, g # h PROVE PassSafe(g)'
    BY <2>1, <2>2, <2>8 DEF TypeOK, AllSafe, PassSafe
  <2> QED
    BY <2>7, <2>8
<1> QED
  BY <1>1, <1>2

LEMMA DecideSafe ==
    ASSUME OnlyApproving, TypeOK, AllSafe, NEW h \in Handlers, Decide(h)
    PROVE  \A g \in Handlers : PassSafe(g)'
<1>1. PICK t \in pass[h].todo, v \in Verdicts :
         /\ IF pass[h].verdicts[t[2]] # None
            THEN v = pass[h].verdicts[t[2]] /\ UNCHANGED failures
            ELSE \/ v = Verdict(t[2]) /\ UNCHANGED failures
                 \/ v \in Misjudged(t[2]) /\ failures < MaxFailures /\ failures' = failures + 1
         /\ LET choice == Choice(pass[h].mode, v)
                p == [pass[h] EXCEPT !.todo = @ \ {t}, !.verdicts[t[2]] = v,
                                     !.chosen = choice]
            IN
            \/ choice = "hold" /\ NextRequest(h, p)
            \/ /\ choice # "hold"
               /\ pass' = [pass EXCEPT ![h] = p]
               /\ pc' = [pc EXCEPT ![h] = "record"]
               /\ req' = [req EXCEPT ![h] = t[1]]
               /\ UNCHANGED filing
  BY DEF Decide
<1> DEFINE choice == Choice(pass[h].mode, v)
           p == [pass[h] EXCEPT !.todo = @ \ {t}, !.verdicts[t[2]] = v,
                                !.chosen = choice]
           p0 == [pass[h] EXCEPT !.todo = @ \ {t}, !.verdicts[t[2]] = v]
<1>2. /\ pass[h] \in PassLocals /\ pc[h] = "decide" /\ t \in Requests \X Dates
      /\ Filed[t[1]] # None /\ Filed[t[1]].date = t[2]
      /\ pass[h].mode \in Mode /\ ~pass[h].mode.reject
  BY DEF TypeOK, PassLocals, Decide, AllSafe, PassSafe
<1>3. v = "approve" => Safe(t[2])
  <2>1. ~(failures < MaxFailures)
    BY DEF OnlyApproving, TypeOK
  <2> QED
    BY <1>1, <1>2, <2>1, VerdictSafe DEF AllSafe, PassSafe
<1>4. /\ p.mode = pass[h].mode /\ p.todo = pass[h].todo \ {t} /\ p.chosen = choice
      /\ \A d \in Dates : p.verdicts[d] = IF d = t[2] THEN v ELSE pass[h].verdicts[d]
  BY <1>2 DEF PassLocals
<1>5. /\ \A d \in Dates : p.verdicts[d] = "approve" => Safe(d)
      /\ \A u \in p.todo : Filed[u[1]] # None /\ Filed[u[1]].date = u[2]
  BY <1>3, <1>4 DEF AllSafe, PassSafe
<1>6. CASE choice = "hold"
  <2>1. p0 \in PassLocals /\ p0.mode = p.mode /\ p0.todo = p.todo /\ p0.verdicts = p.verdicts
    BY <1>2 DEF PassLocals
  <2>2. p0.todo = p.todo /\ [p0 EXCEPT !.chosen = None] = [p EXCEPT !.chosen = None]
    BY <1>2 DEF PassLocals
  <2>3. NextRequest(h, p0)
    <3> HIDE DEF p0, p
    <3> QED
      BY <1>1, <1>6, <2>2 DEF NextRequest, p
  <2> HIDE DEF p0, p
  <2> QED
    BY <1>2, <1>4, <1>5, <2>1, <2>3, NextRequestSafe
<1>7. CASE choice # "hold"
  <2>1. choice = "approve" /\ v = "approve"
    BY <1>2, <1>7 DEF Choice
  <2>2. /\ pass' = [pass EXCEPT ![h] = p] /\ pc' = [pc EXCEPT ![h] = "record"]
        /\ req' = [req EXCEPT ![h] = t[1]]
    BY <1>1, <1>7
  <2> HIDE DEF p
  <2>3. PassSafe(h)'
    BY <1>2, <1>3, <1>4, <1>5, <2>1, <2>2 DEF TypeOK, PassSafe
  <2>4. ASSUME NEW g \in Handlers, g # h PROVE PassSafe(g)'
    BY <2>2, <2>4 DEF TypeOK, AllSafe, PassSafe
  <2> QED
    BY <2>3, <2>4
<1> QED
  BY <1>6, <1>7

LEMMA NextSafe == OnlyApproving /\ TypeOK /\ AllSafe /\ [Next]_vars => AllSafe'
<1> SUFFICES ASSUME OnlyApproving, TypeOK, AllSafe, [Next]_vars PROVE AllSafe'
  OBVIOUS
<1>1. ASSUME NEW h \in Handlers, Call(h) PROVE AllSafe'
  <2>1. CASE \E s \in Settings : SaveSettings(h, s)
    BY <2>1, SettingsSafe, MoveSafe, ReturnSafe DEF SaveSettings, AllSafe
  <2>2. CASE \E r \in Requests : Revert(h, r)
    BY <2>2, BeginRevertSafe DEF Revert, tables, AllSafe, TablesSafe
  <2> QED
    BY <1>1, <2>1, <2>2 DEF Call, OnlyApproving
<1>2. ASSUME NEW h \in Handlers, Step(h) PROVE AllSafe'
  <2>1. CASE ReadSettings(h) \/ SelectPending(h) \/ Decide(h)
    <3>1. TablesSafe'
      BY <2>1 DEF ReadSettings, SelectPending, Decide, tables, AllSafe, TablesSafe
    <3> QED
      BY <2>1, <3>1, ReadSettingsSafe, SelectPendingSafe, DecideSafe DEF AllSafe
  <2>2. CASE Record(h) \/ RevertMark(h) \/ RevertStatus(h)
    BY <2>2, WriteSafe, MarkSafe, MoveSafe, ReturnSafe DEF Record, RevertMark, RevertStatus, AllSafe
  <2>3. CASE Stamp(h)
    <3>1. pc[h] = "stamp" /\ NextRequest(h, pass[h]) /\ pass[h] \in PassLocals
      BY <2>3 DEF Stamp, TypeOK
    <3> QED
      BY <2>3, <3>1, WriteSafe, NextRequestSafe DEF AllSafe, PassSafe
  <2>4. pc[h] \notin {"checkMinutes", "insertRequest", "insertPermission", "approve", "firstLevel",
                      "secondLevel", "reject", "cancel"}
    BY DEF AllSafe, PassSafe
  <2> QED
    BY <1>2, <2>1, <2>2, <2>3, <2>4
    DEF Step, CheckMinutes, InsertRequest, InsertPermission, ApproveWrite, FirstLevel, SecondLevel,
        RejectWrite, CancelWrite
<1>3. ASSUME NEW h \in Handlers, Tick(h) PROVE AllSafe'
  BY <1>3, MoveSafe DEF Tick, tables, AllSafe, TablesSafe
<1>4. ASSUME NEW h \in Handlers PROVE ~Swallow(h) /\ ~Fail(h)
  BY DEF Swallow, Fail, OnlyApproving, TypeOK
<1>5. CASE UNCHANGED vars
  BY <1>5 DEF vars, tables, locals, AllSafe, TablesSafe, PassSafe
<1> QED
  BY <1>1, <1>2, <1>3, <1>4, <1>5 DEF Next

\* Where only Auto Mode approves and nothing fails, the approved permissions of
\* a date leave it the safe surplus, however many passes overlap with each other
\* and with reverts, and although a pass reuses the verdict of a date.
THEOREM SurplusCorrect == ASSUME OnlyApproving PROVE Spec => []SurplusKept
<1>1. Init => TypeOK /\ AllSafe
  BY InitType, InitSafe
<1>2. TypeOK /\ AllSafe /\ [Next]_vars => TypeOK' /\ AllSafe'
  BY NextType, NextSafe
<1>3. AllSafe => SurplusKept
  BY TablesKeepSurplus DEF AllSafe
<1> QED
  BY <1>1, <1>2, <1>3, PTL DEF Spec
=============================================================================
