------------------------ MODULE EmployeeMergeProofs ------------------------
(***************************************************************************)
(* What EmployeeMerge keeps for any number of merges, imports, employees,  *)
(* dates and failures.  A merge that has deleted the colliding records can *)
(* move the others, whatever is imported meanwhile: new records of an      *)
(* employee wait for the lock that the merge holds, and two merges in      *)
(* progress have no employee in common.  Aliases are only added, between   *)
(* two employees without one, so that whom a number stands for only grows: *)
(* what an import has read of them stays right, and what it has written    *)
(* stays on record for an employee the number stands for.                  *)
(***************************************************************************)
EXTENDS EmployeeMerge, TLAPS

\* Whoever is in the middle of a merge has two employees, and has locked both.
PairLocked ==
    \A h \in Merges :
        pc[h] # "idle" =>
            /\ pair[h] \in Employees \X Employees
            /\ pair[h][1] # pair[h][2]
            /\ lock[pair[h][1]] = h /\ lock[pair[h][2]] = h

\* Whoever is past the check merges two employees nobody has merged, and keeps
\* them from others by the locks.
AliasFree ==
    \A h \in Merges :
        pc[h] \in {"drop", "move"} => alias[pair[h][1]] = None /\ alias[pair[h][2]] = None

\* What is on record for a number and a date.
OnRecord(n, d) == \E e \in Person(n) : record[<<e, d>>] # None

\* The survivor has a record on each date the merge has deleted.
DroppedHave ==
    \A h \in Merges :
        pc[h] = "move" => \A d \in dropped[h] : record[<<pair[h][1], d>>] # None

\* What an import has read of aliases holds.
SeenRight ==
    \A i \in Imports :
        pc[i] = "status" => \A n \in Employees : seen[i][n] # None => alias[n] = seen[i][n]

\* A number is resolved to an employee it stands for, and these are upserted.
ToRight ==
    \A i \in Imports :
        /\ pc[i] \in {"employees", "settle"} => \A n \in Numbers(i) : to[i][n] \in Person(n)
        /\ pc[i] = "settle" => written[i] = Targets(i)

\* After the upsert the whole sheet is on record.
SheetOnRecord ==
    \A i \in Imports : pc[i] = "stamp" => \A k \in Rows[i] : OnRecord(k[1], k[2])

IInv ==
    /\ TypeOK /\ PairLocked /\ AliasFree
    /\ MoveIsFree /\ AliasesLead /\ DatesAreKept
    /\ DroppedHave /\ SeenRight /\ ToRight /\ SheetOnRecord

-----------------------------------------------------------------------------
(* The initial states.                                                     *)

\* A number stands for itself.
LEMMA PersonSelf == \A n \in Employees : n \in Person(n)
  BY DEF Person

LEMMA InvInit == Init => IInv
<1> SUFFICES ASSUME Init PROVE IInv
  OBVIOUS
<1>1. TypeOK
  BY MergeAssumption DEF Init, TypeOK, Keys, MergeSteps, ImportSteps
<1>2. PairLocked /\ AliasFree /\ MoveIsFree /\ DroppedHave
  BY DEF Init, PairLocked, AliasFree, MoveIsFree, DroppedHave
<1>3. SeenRight /\ ToRight /\ SheetOnRecord
  BY DEF Init, SeenRight, ToRight, SheetOnRecord
<1>4. AliasesLead
  BY PersonSelf DEF Init, AliasesLead
<1>5. DatesAreKept
  <2>1. ASSUME NEW k \in OnFile PROVE \E e \in Person(k[1]) : record[<<e, k[2]>>] # None
    <3>1. k \in Keys /\ k = <<k[1], k[2]>> /\ k[1] \in Employees
      BY MergeAssumption DEF Keys
    <3>2. record[k] = k[1]
      BY <2>1, <3>1 DEF Init
    <3> QED
      BY <3>1, <3>2, PersonSelf, MergeAssumption
  <2>2. ASSUME NEW k \in Keys, record[k] # None PROVE k[1] \in Person(record[k])
    <3>1. record[k] = k[1] /\ k[1] \in Employees
      BY <2>2 DEF Init, Keys
    <3> QED
      BY <3>1, PersonSelf
  <2>3. \A j \in Imports : batch[j] # "committed"
    BY DEF Init
  <2> QED
    BY <2>1, <2>2, <2>3 DEF DatesAreKept
<1> QED
  BY <1>1, <1>2, <1>3, <1>4, <1>5 DEF IInv

-----------------------------------------------------------------------------
(* The types.                                                              *)

\* Every step of a merge keeps the types.
LEMMA MergeTypes ==
  ASSUME TypeOK, PairLocked, NEW h \in Merges,
         \/ \E s, m \in Employees : LockPair(h, s, m)
         \/ Check(h) \/ Drop(h) \/ Move(h) \/ MergeFails(h)
  PROVE  TypeOK'
<1>1. h \notin Imports
  BY MergeAssumption
<1>2. ASSUME NEW s \in Employees, NEW m \in Employees, LockPair(h, s, m) PROVE TypeOK'
  BY <1>1, <1>2 DEF LockPair, TypeOK, Goes, tables, importVars, MergeSteps, ImportSteps
<1>3. ASSUME EndMerge(h)
      PROVE  /\ lock' \in [Employees -> Merges \cup {None}]
             /\ pair' \in [Merges -> (Employees \X Employees) \cup {None}]
             /\ dropped' \in [Merges -> SUBSET Dates]
             /\ pc' \in [Merges \cup Imports -> MergeSteps \cup ImportSteps]
             /\ \A g \in Merges : pc'[g] \in MergeSteps
             /\ \A i \in Imports : pc'[i] = pc[i]
  BY <1>1, <1>3 DEF EndMerge, TypeOK, Goes, MergeSteps, ImportSteps
<1>4. CASE Check(h)
  <2>1. CASE ~MergedBefore(h) /\ Goes(h, "drop") /\ UNCHANGED mergeVars
    BY <1>1, <1>4, <2>1 DEF Check, Goes, mergeVars, TypeOK, tables, importVars, MergeSteps, ImportSteps
  <2>2. CASE EndMerge(h)
    BY <1>3, <1>4, <2>2 DEF Check, TypeOK, tables, importVars
  <2> QED
    BY <1>4, <2>1, <2>2 DEF Check
<1>5. CASE Drop(h)
  BY <1>1, <1>5 DEF Drop, Colliding, Goes, TypeOK, tables, importVars, MergeSteps, ImportSteps
<1>6. CASE Move(h)
  <2>1. EndMerge(h)
    BY <1>6 DEF Move
  <2>2. pair[h] \in Employees \X Employees
    BY <1>6 DEF Move, PairLocked
  <2>3. record' \in [Keys -> Employees \cup {None}] /\ alias' \in [Employees -> Employees \cup {None}]
    <3> DEFINE s == pair[h][1]
               m == pair[h][2]
    <3>1. s \in Employees /\ m \in Employees /\ Left(h) \subseteq Dates
      BY <2>2 DEF Left
    <3>2. CASE UNCHANGED <<record, alias>>
      BY <3>2 DEF TypeOK
    <3>3. CASE /\ record' = [k \in Keys |->
                              IF k[1] = m THEN None
                              ELSE IF k[1] = s /\ k[2] \in Left(h) THEN record[<<m, k[2]>>]
                              ELSE record[k]]
               /\ alias' = [alias EXCEPT ![m] = s]
      BY <3>1, <3>3 DEF TypeOK, Keys
    <3> QED
      BY <1>6, <3>2, <3>3 DEF Move
  <2> QED
    BY <1>3, <1>6, <2>1, <2>3 DEF Move, TypeOK, importVars
<1>7. CASE MergeFails(h)
  <2>1. failures' \in 0 .. MaxFailures
    BY <1>7, MergeAssumption DEF MergeFails, Fails, TypeOK
  <2> QED
    BY <1>3, <1>7, <2>1 DEF MergeFails, TypeOK, tables, importVars
<1> QED
  BY <1>2, <1>4, <1>5, <1>6, <1>7

\* Every step of an import keeps the types, and the abort of a deadlock too.
LEMMA ImportTypes ==
  ASSUME TypeOK, NEW i \in Imports,
         \/ Commit(i) \/ ReadAliases(i) \/ ReadStatus(i)
         \/ \E n \in Employees : UpsertEmployee(i, n)
         \/ Insert(i) \/ Settle(i) \/ MarkCommitted(i) \/ ImportFails(i)
  PROVE  TypeOK'
<1>1. i \notin Merges
  BY MergeAssumption
<1>2. Rows[i] \subseteq Employees \X Dates /\ Numbers(i) \subseteq Employees
  BY MergeAssumption DEF Keys, Numbers
<1>3. ASSUME NEW s \in {"failed", "processing", "committed"}, EndImport(i, s)
      PROVE  /\ batch' \in [Imports -> {"validated", "processing", "failed", "committed"}]
             /\ seen' = [j \in Imports |-> seen'[j]]
             /\ to' = [j \in Imports |-> to'[j]]
             /\ todo' \in [Imports -> SUBSET Employees]
             /\ written' \in [Imports -> SUBSET Keys]
             /\ pc' \in [Merges \cup Imports -> MergeSteps \cup ImportSteps]
             /\ pc'[i] = "idle"
             /\ \A p \in (Merges \cup Imports) \ {i} : pc'[p] = pc[p]
             /\ \A j \in Imports \ {i} : seen'[j] = seen[j] /\ to'[j] = to[j]
  BY <1>3 DEF EndImport, TypeOK, Goes, MergeSteps, ImportSteps
<1>4. ASSUME NEW s \in {"failed", "processing", "committed"}, EndImport(i, s),
             UNCHANGED <<exists, alias, record, lock, pair, dropped>>,
             failures' \in 0 .. MaxFailures
      PROVE  TypeOK'
  BY <1>1, <1>3, <1>4 DEF TypeOK, MergeSteps, ImportSteps
<1>5. CASE Commit(i)
  BY <1>1, <1>5 DEF Commit, Goes, TypeOK, mergeVars, importVars, MergeSteps, ImportSteps
<1>6. CASE ReadAliases(i)
  <2>1. seen'[i] \in [Employees -> Employees \cup {None}]
    BY <1>6 DEF ReadAliases, TypeOK
  <2>2. seen' = [j \in Imports |-> seen'[j]]
    BY <1>6 DEF ReadAliases, TypeOK
  <2>3. \A j \in Imports \ {i} : seen'[j] = seen[j]
    BY <1>6 DEF ReadAliases, TypeOK
  <2> QED
    BY <1>1, <1>6, <2>1, <2>2, <2>3 DEF ReadAliases, Goes, TypeOK, tables, mergeVars, MergeSteps, ImportSteps
<1>7. CASE ReadStatus(i)
  <2>1. seen[i] \in [Employees -> Employees \cup {None}]
    BY <1>7 DEF ReadStatus, TypeOK
  <2>2. to' = [to EXCEPT ![i] = [n \in Numbers(i) |-> IF n \in Aliased(i) THEN seen[i][n] ELSE n]]
    BY <1>7 DEF ReadStatus
  <2>3. to'[i] \in [Numbers(i) -> Employees] /\ to' = [j \in Imports |-> to'[j]]
    BY <1>2, <2>1, <2>2 DEF Aliased, TypeOK
  <2>4. \A j \in Imports \ {i} : to'[j] = to[j]
    BY <2>2 DEF TypeOK
  <2>5. todo' \in [Imports -> SUBSET Employees]
    BY <1>2, <1>7 DEF ReadStatus, TypeOK
  <2> QED
    BY <1>1, <1>7, <2>3, <2>4, <2>5 DEF ReadStatus, Goes, TypeOK, tables, mergeVars, MergeSteps, ImportSteps
<1>8. ASSUME NEW n \in Employees, UpsertEmployee(i, n) PROVE TypeOK'
  BY <1>8 DEF UpsertEmployee, TypeOK, mergeVars
<1>9. CASE Insert(i)
  <2>1. to[i] \in [Numbers(i) -> Employees]
    BY <1>9 DEF Insert, TypeOK
  <2>2. \A k \in Rows[i] : k[1] \in Numbers(i) /\ k[2] \in Dates
    BY <1>2 DEF Numbers
  <2>3. Targets(i) \subseteq Keys
    BY <2>1, <2>2 DEF Targets, Keys
  <2> QED
    BY <1>1, <1>9, <2>3 DEF Insert, Goes, TypeOK, tables, mergeVars, MergeSteps, ImportSteps
<1>10. CASE Settle(i)
  <2>1. record' \in [Keys -> Employees \cup {None}]
    BY <1>2, <1>10 DEF Settle, TypeOK
  <2> QED
    BY <1>1, <1>10, <2>1 DEF Settle, Goes, TypeOK, mergeVars, MergeSteps, ImportSteps
<1>11. CASE MarkCommitted(i)
  <2>1. EndImport(i, "committed")
    BY <1>11 DEF MarkCommitted
  <2> QED
    BY <1>4, <1>11, <2>1 DEF MarkCommitted, mergeVars, TypeOK
<1>12. CASE ImportFails(i)
  <2>1. PICK s \in {"failed", "processing"} : EndImport(i, s)
    BY <1>12 DEF ImportFails
  <2>2. failures' \in 0 .. MaxFailures
    BY <1>12, MergeAssumption DEF ImportFails, Fails, TypeOK
  <2> QED
    BY <1>4, <1>12, <2>1, <2>2 DEF ImportFails, mergeVars
<1> QED
  BY <1>5, <1>6, <1>7, <1>8, <1>9, <1>10, <1>11, <1>12

LEMMA TypeNext == ASSUME TypeOK, PairLocked, [Next]_vars PROVE TypeOK'
<1>1. ASSUME NEW h \in Merges, NEW i \in Imports, DeadlockAbort(h, i) PROVE TypeOK'
  <2>1. h \notin Imports /\ i \notin Merges
    BY MergeAssumption
  <2>2. CASE EndMerge(h) /\ UNCHANGED <<batch, importVars>>
    BY <1>1, <2>1, <2>2 DEF DeadlockAbort, EndMerge, Goes, TypeOK, importVars, MergeSteps, ImportSteps
  <2>3. CASE EndImport(i, "failed") /\ UNCHANGED mergeVars
    BY <1>1, <2>1, <2>3 DEF DeadlockAbort, EndImport, Goes, TypeOK, mergeVars, MergeSteps, ImportSteps
  <2> QED
    BY <1>1, <2>2, <2>3 DEF DeadlockAbort
<1>2. CASE UNCHANGED vars
  BY <1>2 DEF vars, tables, mergeVars, importVars, TypeOK
<1> QED
  BY <1>1, <1>2, MergeTypes, ImportTypes DEF Next

-----------------------------------------------------------------------------
(* Locks and records.                                                      *)

\* Locks are taken when they are free, both at once, and given back at the end.
LEMMA LockedNext == ASSUME TypeOK, PairLocked, [Next]_vars PROVE PairLocked'
<1>1. ASSUME NEW h \in Merges, EndMerge(h) PROVE PairLocked'
  BY <1>1, MergeAssumption DEF EndMerge, Goes, TypeOK, PairLocked
<1>2. ASSUME NEW h \in Merges, NEW s \in Employees, NEW m \in Employees, LockPair(h, s, m)
      PROVE  PairLocked'
  BY <1>2, MergeAssumption DEF LockPair, Goes, TypeOK, PairLocked
<1>3. ASSUME NEW h \in Merges, Check(h) PROVE PairLocked'
  BY <1>1, <1>3 DEF Check, Goes, TypeOK, PairLocked, mergeVars
<1>4. ASSUME NEW h \in Merges, Drop(h) PROVE PairLocked'
  BY <1>4 DEF Drop, Goes, TypeOK, PairLocked
<1>5. ASSUME NEW h \in Merges, Move(h) \/ MergeFails(h) PROVE PairLocked'
  BY <1>1, <1>5 DEF Move, MergeFails
<1>6. ASSUME UNCHANGED <<lock, pair>>, \A h \in Merges : pc'[h] = pc[h] PROVE PairLocked'
  BY <1>6 DEF PairLocked
<1>7. ASSUME NEW i \in Imports,
             \/ Commit(i) \/ ReadAliases(i) \/ ReadStatus(i)
             \/ \E n \in Employees : UpsertEmployee(i, n)
             \/ Insert(i) \/ Settle(i) \/ MarkCommitted(i) \/ ImportFails(i)
      PROVE  UNCHANGED <<lock, pair, dropped>> /\ \A h \in Merges : pc'[h] = pc[h]
  BY <1>7, MergeAssumption
  DEF Commit, ReadAliases, ReadStatus, UpsertEmployee, Insert, Settle, MarkCommitted, ImportFails,
      EndImport, Goes, mergeVars, TypeOK
<1>8. ASSUME NEW h \in Merges, NEW i \in Imports, DeadlockAbort(h, i) PROVE PairLocked'
  <2>1. CASE EndMerge(h)
    BY <1>1, <2>1
  <2>2. CASE EndImport(i, "failed") /\ UNCHANGED mergeVars
    BY <1>6, <2>2, MergeAssumption DEF EndImport, Goes, mergeVars, TypeOK
  <2> QED
    BY <1>8, <2>1, <2>2 DEF DeadlockAbort
<1>9. CASE UNCHANGED vars
  BY <1>6, <1>9 DEF vars, mergeVars
<1> QED
  BY <1>2, <1>3, <1>4, <1>5, <1>6, <1>7, <1>8, <1>9 DEF Next

\* What a merge has still to move stays free of collisions when nobody enters
\* a record for its two employees and it goes no further itself.
LEMMA FreeStays ==
  ASSUME TypeOK, PairLocked, MoveIsFree, NEW h \in Merges,
         pc[h] = "move", pc'[h] = "move", pair'[h] = pair[h], dropped'[h] = dropped[h],
         \A d \in Dates, e \in {pair[h][1], pair[h][2]} :
             record'[<<e, d>>] # None => record[<<e, d>>] # None
  PROVE  \A d \in Left(h)' : record'[<<pair'[h][1], d>>] = None
<1> TAKE d \in Left(h)'
<1>1. d \in Dates /\ d \notin dropped[h] /\ record'[<<pair[h][2], d>>] # None
  BY DEF Left
<1>2. d \in Left(h)
  BY <1>1 DEF Left
<1>3. record[<<pair[h][1], d>>] = None
  BY <1>2 DEF MoveIsFree
<1> QED
  BY <1>1, <1>3

LEMMA FreeNext == ASSUME TypeOK, PairLocked, MoveIsFree, [Next]_vars PROVE MoveIsFree'
<1> SUFFICES ASSUME NEW g \in Merges, pc'[g] = "move"
             PROVE  \A d \in Left(g)' : record'[<<pair'[g][1], d>>] = None
  BY DEF MoveIsFree
<1>1. ASSUME UNCHANGED record, pc'[g] = pc[g], pair'[g] = pair[g], dropped'[g] = dropped[g]
      PROVE  \A d \in Left(g)' : record'[<<pair'[g][1], d>>] = None
  BY <1>1, FreeStays
<1>2. ASSUME NEW h \in Merges, EndMerge(h)
      PROVE  /\ g # h
             /\ pc'[g] = pc[g] /\ pair'[g] = pair[g] /\ dropped'[g] = dropped[g]
  BY <1>2 DEF EndMerge, Goes, TypeOK
<1>3. ASSUME NEW h \in Merges, NEW s \in Employees, NEW m \in Employees, LockPair(h, s, m)
      PROVE  g # h /\ UNCHANGED <<record, dropped>> /\ pc'[g] = pc[g] /\ pair'[g] = pair[g]
  BY <1>3 DEF LockPair, Goes, TypeOK, tables
<1>4. ASSUME NEW h \in Merges, Check(h)
      PROVE  \A d \in Left(g)' : record'[<<pair'[g][1], d>>] = None
  <2>1. CASE EndMerge(h)
    BY <1>1, <1>2, <1>4, <2>1 DEF Check, tables
  <2>2. CASE Goes(h, "drop") /\ UNCHANGED mergeVars
    BY <1>1, <1>4, <2>2 DEF Check, Goes, tables, mergeVars, TypeOK
  <2> QED
    BY <1>4, <2>1, <2>2 DEF Check
<1>5. ASSUME NEW h \in Merges, Drop(h)
      PROVE  \A d \in Left(g)' : record'[<<pair'[g][1], d>>] = None
  <2>1. CASE g = h
    BY <1>5, <2>1 DEF Drop, Colliding, Left, TypeOK, tables
  <2>2. CASE g # h
    BY <1>1, <1>5, <2>2 DEF Drop, Goes, TypeOK, tables
  <2> QED
    BY <2>1, <2>2
<1>6. ASSUME NEW h \in Merges, Move(h)
      PROVE  \A d \in Left(g)' : record'[<<pair'[g][1], d>>] = None
  <2>1. g # h /\ pc'[g] = pc[g] /\ pair'[g] = pair[g] /\ dropped'[g] = dropped[g]
    BY <1>2, <1>6 DEF Move
  <2>2. /\ pair[g] \in Employees \X Employees /\ pair[h] \in Employees \X Employees
        /\ {pair[g][1], pair[g][2]} \cap {pair[h][1], pair[h][2]} = {}
    BY <1>6, <2>1 DEF Move, PairLocked
  <2>3. \A d \in Dates, e \in {pair[g][1], pair[g][2]} : record'[<<e, d>>] = record[<<e, d>>]
    BY <1>6, <2>2 DEF Move, Keys
  <2> QED
    BY <2>1, <2>3, FreeStays
<1>7. ASSUME NEW h \in Merges, MergeFails(h)
      PROVE  \A d \in Left(g)' : record'[<<pair'[g][1], d>>] = None
  BY <1>1, <1>2, <1>7 DEF MergeFails, tables
<1>8. ASSUME NEW i \in Imports,
             \/ Commit(i) \/ ReadAliases(i) \/ ReadStatus(i)
             \/ \E n \in Employees : UpsertEmployee(i, n)
             \/ Insert(i) \/ MarkCommitted(i) \/ ImportFails(i)
      PROVE  \A d \in Left(g)' : record'[<<pair'[g][1], d>>] = None
  <2>1. UNCHANGED <<record, pair, dropped>> /\ pc'[g] = pc[g]
    BY <1>8, MergeAssumption
    DEF Commit, ReadAliases, ReadStatus, UpsertEmployee, Insert, MarkCommitted, ImportFails,
        EndImport, Goes, tables, mergeVars, TypeOK
  <2> QED
    BY <1>1, <2>1
<1>9. ASSUME NEW i \in Imports, Settle(i)
      PROVE  \A d \in Left(g)' : record'[<<pair'[g][1], d>>] = None
  <2>1. UNCHANGED <<pair, dropped>> /\ pc'[g] = pc[g]
    BY <1>9, MergeAssumption DEF Settle, Goes, mergeVars, TypeOK
  <2>2. /\ pair[g] \in Employees \X Employees
        /\ lock[pair[g][1]] # None /\ lock[pair[g][2]] # None
    BY <2>1, MergeAssumption DEF PairLocked
  <2>3. \A k \in Keys : record[k] = None /\ lock[k[1]] # None => record'[k] = None
    BY <1>9 DEF Settle, InsertWaits
  <2>4. \A d \in Dates, e \in {pair[g][1], pair[g][2]} :
            record'[<<e, d>>] # None => record[<<e, d>>] # None
    BY <2>2, <2>3 DEF Keys
  <2> QED
    BY <2>1, <2>4, FreeStays
<1>10. ASSUME NEW h \in Merges, NEW i \in Imports, DeadlockAbort(h, i)
      PROVE  \A d \in Left(g)' : record'[<<pair'[g][1], d>>] = None
  <2>1. CASE EndMerge(h)
    BY <1>1, <1>2, <1>10, <2>1 DEF DeadlockAbort
  <2>2. CASE EndImport(i, "failed") /\ UNCHANGED mergeVars
    <3>1. pc'[g] = pc[g]
      BY <2>2, MergeAssumption DEF EndImport, Goes, TypeOK
    <3> QED
      BY <1>1, <1>10, <2>2, <3>1 DEF DeadlockAbort, mergeVars
  <2> QED
    BY <1>10, <2>1, <2>2 DEF DeadlockAbort
<1>11. CASE UNCHANGED vars
  BY <1>1, <1>11 DEF vars, tables, mergeVars
<1> QED
  BY <1>1, <1>3, <1>4, <1>5, <1>6, <1>7, <1>8, <1>9, <1>10, <1>11 DEF Next

-----------------------------------------------------------------------------
(* Aliases.                                                                *)

\* A move that does not fail.
Moves(h) ==
    /\ Move(h)
    /\ record' = [k \in Keys |->
                    IF k[1] = pair[h][2] THEN None
                    ELSE IF k[1] = pair[h][1] /\ k[2] \in Left(h)
                         THEN record[<<pair[h][2], k[2]>>]
                    ELSE record[k]]
    /\ alias' = [alias EXCEPT ![pair[h][2]] = pair[h][1]]

\* Nothing but a move writes an alias, and nothing but a move or an import a record.
LEMMA Writers ==
  ASSUME [Next]_vars
  PROVE  \/ \E h \in Merges : Moves(h)
         \/ UNCHANGED alias /\ \E i \in Imports : Settle(i)
         \/ UNCHANGED <<alias, record>>
<1>1. ASSUME NEW h \in Merges, Move(h) PROVE Moves(h) \/ UNCHANGED <<alias, record>>
  BY <1>1 DEF Move, Moves
<1>2. ASSUME NEW h \in Merges,
             \/ \E s, m \in Employees : LockPair(h, s, m)
             \/ Check(h) \/ Drop(h) \/ MergeFails(h)
             \/ \E i \in Imports : DeadlockAbort(h, i)
      PROVE  UNCHANGED <<alias, record>>
  BY <1>2 DEF LockPair, Check, Drop, MergeFails, DeadlockAbort, tables
<1>3. ASSUME NEW i \in Imports, Settle(i) PROVE UNCHANGED alias
  BY <1>3 DEF Settle
<1>4. ASSUME NEW i \in Imports,
             \/ Commit(i) \/ ReadAliases(i) \/ ReadStatus(i)
             \/ \E n \in Employees : UpsertEmployee(i, n)
             \/ Insert(i) \/ MarkCommitted(i) \/ ImportFails(i)
      PROVE  UNCHANGED <<alias, record>>
  BY <1>4 DEF Commit, ReadAliases, ReadStatus, UpsertEmployee, Insert, MarkCommitted, ImportFails, tables
<1> QED
  BY <1>1, <1>2, <1>3, <1>4 DEF Next, vars, tables

\* What a move changes of aliases.
LEMMA MoveAlias ==
  ASSUME TypeOK, PairLocked, AliasFree, NEW h \in Merges, Moves(h)
  PROVE  \E s, m \in Employees :
            /\ pair[h] = <<s, m>> /\ s # m
            /\ alias[s] = None /\ alias[m] = None
            /\ alias' = [alias EXCEPT ![m] = s]
            /\ alias'[m] = s /\ \A n \in Employees \ {m} : alias'[n] = alias[n]
<1>1. pair[h] \in Employees \X Employees /\ pair[h][1] # pair[h][2]
  BY DEF Moves, Move, PairLocked
<1>2. alias[pair[h][1]] = None /\ alias[pair[h][2]] = None
  BY DEF Moves, Move, AliasFree
<1>3. alias' = [alias EXCEPT ![pair[h][2]] = pair[h][1]]
  BY DEF Moves
<1>4. alias \in [Employees -> Employees \cup {None}]
  BY DEF TypeOK
<1> DEFINE S == pair[h][1]
           M == pair[h][2]
<1>5. S \in Employees /\ M \in Employees /\ pair[h] = <<S, M>>
  BY <1>1
<1>6. alias'[M] = S /\ \A n \in Employees \ {M} : alias'[n] = alias[n]
  BY <1>3, <1>4, <1>5
<1> QED
  BY <1>1, <1>2, <1>3, <1>5, <1>6

\* An alias is never changed.
LEMMA AliasStays ==
  ASSUME TypeOK, PairLocked, AliasFree, [Next]_vars
  PROVE  \A n \in Employees : alias[n] # None => alias'[n] = alias[n]
<1>1. ASSUME NEW h \in Merges, Moves(h)
      PROVE  \A n \in Employees : alias[n] # None => alias'[n] = alias[n]
  BY <1>1, MoveAlias
<1> QED
  BY <1>1, Writers

\* A number stands for the survivor it was merged into.
LEMMA PersonAlias ==
  ASSUME TypeOK, NEW n \in Employees, alias[n] # None PROVE alias[n] \in Person(n)
  BY DEF Person, TypeOK

\* Whom a number stands for only grows, also by the survivor of the move.
LEMMA PersonGrows ==
  ASSUME TypeOK, PairLocked, AliasFree, [Next]_vars
  PROVE  \A n \in Employees : Person(n) \subseteq Person(n)'
<1> SUFFICES ASSUME NEW n \in Employees, NEW e \in Person(n),
                    NEW S \in SUBSET Employees, n \in S,
                    \A x \in S : alias'[x] # None => alias'[x] \in S
             PROVE  e \in S
  BY DEF Person
<1>1. \A x \in S : alias[x] # None => alias[x] \in S
  BY AliasStays
<1> QED
  BY <1>1 DEF Person

LEMMA PersonMoved ==
  ASSUME TypeOK, PairLocked, AliasFree, [Next]_vars, NEW h \in Merges, Moves(h),
         NEW n \in Employees, pair[h][2] \in Person(n)
  PROVE  pair[h][1] \in Person(n)'
<1>1. PICK s \in Employees, m \in Employees :
          pair[h] = <<s, m>> /\ alias'[m] = s
  BY MoveAlias
<1>2. m \in Person(n)'
  BY <1>1, PersonGrows
<1> SUFFICES ASSUME NEW S \in SUBSET Employees, n \in S,
                    \A x \in S : alias'[x] # None => alias'[x] \in S
             PROVE  s \in S
  BY <1>1 DEF Person
<1>3. m \in S
  BY <1>2 DEF Person
<1> QED
  BY <1>1, <1>3, MergeAssumption

LEMMA FreeAliasNext == ASSUME TypeOK, PairLocked, AliasFree, [Next]_vars PROVE AliasFree'
<1> SUFFICES ASSUME NEW g \in Merges, pc'[g] \in {"drop", "move"}
             PROVE  alias'[pair'[g][1]] = None /\ alias'[pair'[g][2]] = None
  BY DEF AliasFree
<1>1. CASE pc'[g] = pc[g] /\ pair'[g] = pair[g]
  <2>1. /\ pair[g] \in Employees \X Employees
        /\ alias[pair[g][1]] = None /\ alias[pair[g][2]] = None
        /\ lock[pair[g][1]] = g /\ lock[pair[g][2]] = g
    BY <1>1 DEF AliasFree, PairLocked
  <2>2. ASSUME NEW h \in Merges, Moves(h), g # h
        PROVE  alias'[pair[g][1]] = None /\ alias'[pair[g][2]] = None
    <3>1. lock[pair[h][1]] = h /\ lock[pair[h][2]] = h
      BY <2>2 DEF Moves, Move, PairLocked
    <3> QED
      BY <2>1, <2>2, <3>1, MoveAlias
  <2>3. ASSUME NEW h \in Merges, Moves(h) PROVE g # h
    BY <2>3 DEF Moves, Move, EndMerge, Goes, TypeOK
  <2> QED
    BY <1>1, <2>1, <2>2, <2>3, Writers
<1>2. ASSUME NEW h \in Merges, EndMerge(h) PROVE g # h /\ pc'[g] = pc[g] /\ pair'[g] = pair[g]
  BY <1>2 DEF EndMerge, Goes, TypeOK
<1>3. ASSUME NEW h \in Merges, NEW s \in Employees, NEW m \in Employees, LockPair(h, s, m)
      PROVE  pc'[g] = pc[g] /\ pair'[g] = pair[g]
  BY <1>3 DEF LockPair, Goes, TypeOK
<1>4. ASSUME NEW h \in Merges, Check(h), ~(pc'[g] = pc[g] /\ pair'[g] = pair[g])
      PROVE  alias'[pair'[g][1]] = None /\ alias'[pair'[g][2]] = None
  <2>1. ~MergedBefore(h) /\ Goes(h, "drop") /\ UNCHANGED mergeVars
    BY <1>2, <1>4 DEF Check
  <2>2. g = h
    BY <1>4, <2>1 DEF Goes, mergeVars, TypeOK
  <2> QED
    BY <1>4, <2>1, <2>2 DEF Check, MergedBefore, mergeVars, tables
<1>5. ASSUME NEW h \in Merges, Drop(h), ~(pc'[g] = pc[g] /\ pair'[g] = pair[g])
      PROVE  alias'[pair'[g][1]] = None /\ alias'[pair'[g][2]] = None
  <2>1. g = h
    BY <1>5 DEF Drop, Goes, TypeOK
  <2> QED
    BY <1>5, <2>1 DEF Drop, tables, AliasFree
<1>6. ASSUME NEW h \in Merges, Move(h) \/ MergeFails(h) PROVE pc'[g] = pc[g] /\ pair'[g] = pair[g]
  BY <1>2, <1>6 DEF Move, MergeFails
<1>7. ASSUME NEW i \in Imports,
             \/ Commit(i) \/ ReadAliases(i) \/ ReadStatus(i)
             \/ \E n \in Employees : UpsertEmployee(i, n)
             \/ Insert(i) \/ Settle(i) \/ MarkCommitted(i) \/ ImportFails(i)
      PROVE  pc'[g] = pc[g] /\ pair'[g] = pair[g]
  BY <1>7, MergeAssumption
  DEF Commit, ReadAliases, ReadStatus, UpsertEmployee, Insert, Settle, MarkCommitted, ImportFails,
      EndImport, Goes, mergeVars, TypeOK
<1>8. ASSUME NEW h \in Merges, NEW i \in Imports, DeadlockAbort(h, i)
      PROVE  pc'[g] = pc[g] /\ pair'[g] = pair[g]
  <2>1. CASE EndImport(i, "failed") /\ UNCHANGED mergeVars
    BY <2>1, MergeAssumption DEF EndImport, Goes, mergeVars, TypeOK
  <2> QED
    BY <1>2, <1>8, <2>1 DEF DeadlockAbort
<1> QED
  BY <1>1, <1>3, <1>4, <1>5, <1>6, <1>7, <1>8 DEF Next, vars, mergeVars

\* Who was not merged stays so or gets a survivor who is not.
LEMMA LeadNext ==
  ASSUME TypeOK, PairLocked, AliasFree, AliasesLead, [Next]_vars PROVE AliasesLead'
<1> SUFFICES ASSUME NEW n \in Employees PROVE \E e \in Person(n)' : alias'[e] = None
  BY DEF AliasesLead
<1>1. PICK e \in Person(n) : alias[e] = None
  BY DEF AliasesLead
<1>2. e \in Person(n)' /\ e \in Employees
  BY <1>1, PersonGrows DEF Person
<1>3. ASSUME NEW h \in Merges, Moves(h) PROVE \E x \in Person(n)' : alias'[x] = None
  <2>1. PICK s \in Employees, m \in Employees :
            /\ pair[h] = <<s, m>> /\ s # m /\ alias[s] = None
            /\ \A x \in Employees \ {m} : alias'[x] = alias[x]
    BY <1>3, MoveAlias
  <2>2. CASE e = m
    BY <1>1, <1>3, <2>1, <2>2, PersonMoved
  <2>3. CASE e # m
    BY <1>1, <1>2, <2>1, <2>3
  <2> QED
    BY <2>2, <2>3
<1> QED
  BY <1>1, <1>2, <1>3, Writers

-----------------------------------------------------------------------------
(* Records.                                                                *)

\* An upsert deletes nothing.
LEMMA SettleKeeps ==
  ASSUME TypeOK, NEW i \in Imports, Settle(i), NEW k \in Keys, record[k] # None
  PROVE  record'[k] # None
<1>1. Numbers(i) \subseteq Employees
  BY MergeAssumption DEF Numbers, Keys
<1>2. PICK row \in [written[i] -> Numbers(i)] :
          record' = [x \in Keys |-> IF x \in written[i] THEN row[x] ELSE record[x]]
  BY DEF Settle
<1> QED
  BY <1>1, <1>2, MergeAssumption

LEMMA DroppedNext ==
  ASSUME TypeOK, PairLocked, DroppedHave, [Next]_vars PROVE DroppedHave'
<1> SUFFICES ASSUME NEW g \in Merges, pc'[g] = "move", NEW d \in dropped'[g]
             PROVE  record'[<<pair'[g][1], d>>] # None
  BY DEF DroppedHave
<1>1. ASSUME NEW h \in Merges, EndMerge(h)
      PROVE  /\ g # h
             /\ pc'[g] = pc[g] /\ pair'[g] = pair[g] /\ dropped'[g] = dropped[g]
  BY <1>1 DEF EndMerge, Goes, TypeOK
<1>2. ASSUME UNCHANGED record, pc'[g] = pc[g], pair'[g] = pair[g], dropped'[g] = dropped[g]
      PROVE  record'[<<pair'[g][1], d>>] # None
  BY <1>2 DEF DroppedHave
<1>3. ASSUME NEW h \in Merges, NEW s \in Employees, NEW m \in Employees, LockPair(h, s, m)
      PROVE  record'[<<pair'[g][1], d>>] # None
  BY <1>2, <1>3 DEF LockPair, Goes, TypeOK, tables
<1>4. ASSUME NEW h \in Merges, Check(h) PROVE record'[<<pair'[g][1], d>>] # None
  <2>1. CASE EndMerge(h)
    BY <1>1, <1>2, <1>4, <2>1 DEF Check, tables
  <2>2. CASE Goes(h, "drop") /\ UNCHANGED mergeVars
    BY <1>2, <1>4, <2>2 DEF Check, Goes, tables, mergeVars, TypeOK
  <2> QED
    BY <1>4, <2>1, <2>2 DEF Check
<1>5. ASSUME NEW h \in Merges, Drop(h) PROVE record'[<<pair'[g][1], d>>] # None
  <2>1. CASE g = h
    BY <1>5, <2>1 DEF Drop, Colliding, TypeOK, tables
  <2>2. CASE g # h
    BY <1>2, <1>5, <2>2 DEF Drop, Goes, TypeOK, tables
  <2> QED
    BY <2>1, <2>2
<1>6. ASSUME NEW h \in Merges, Move(h) PROVE record'[<<pair'[g][1], d>>] # None
  <2>1. g # h /\ pc'[g] = pc[g] /\ pair'[g] = pair[g] /\ dropped'[g] = dropped[g]
    BY <1>1, <1>6 DEF Move
  <2>2. /\ pair[g] \in Employees \X Employees /\ pair[h] \in Employees \X Employees
        /\ {pair[g][1], pair[g][2]} \cap {pair[h][1], pair[h][2]} = {}
    BY <1>6, <2>1 DEF Move, PairLocked
  <2>3. d \in Dates
    BY <2>1 DEF TypeOK
  <2>4. record'[<<pair[g][1], d>>] = record[<<pair[g][1], d>>]
    BY <1>6, <2>2, <2>3 DEF Move, Keys
  <2> QED
    BY <2>1, <2>4 DEF DroppedHave
<1>7. ASSUME NEW h \in Merges, MergeFails(h) PROVE record'[<<pair'[g][1], d>>] # None
  BY <1>1, <1>2, <1>7 DEF MergeFails, tables
<1>8. ASSUME NEW i \in Imports,
             \/ Commit(i) \/ ReadAliases(i) \/ ReadStatus(i)
             \/ \E n \in Employees : UpsertEmployee(i, n)
             \/ Insert(i) \/ MarkCommitted(i) \/ ImportFails(i)
      PROVE  record'[<<pair'[g][1], d>>] # None
  <2>1. UNCHANGED <<record, pair, dropped>> /\ pc'[g] = pc[g]
    BY <1>8, MergeAssumption
    DEF Commit, ReadAliases, ReadStatus, UpsertEmployee, Insert, MarkCommitted, ImportFails,
        EndImport, Goes, tables, mergeVars, TypeOK
  <2> QED
    BY <1>2, <2>1
<1>9. ASSUME NEW i \in Imports, Settle(i) PROVE record'[<<pair'[g][1], d>>] # None
  <2>1. UNCHANGED <<pair, dropped>> /\ pc'[g] = pc[g]
    BY <1>9, MergeAssumption DEF Settle, Goes, mergeVars, TypeOK
  <2>2. <<pair[g][1], d>> \in Keys /\ record[<<pair[g][1], d>>] # None
    BY <2>1 DEF Keys, PairLocked, DroppedHave, TypeOK
  <2> QED
    BY <1>9, <2>1, <2>2, SettleKeeps
<1>10. ASSUME NEW h \in Merges, NEW i \in Imports, DeadlockAbort(h, i)
      PROVE  record'[<<pair'[g][1], d>>] # None
  <2>1. CASE EndMerge(h)
    BY <1>1, <1>2, <1>10, <2>1 DEF DeadlockAbort
  <2>2. CASE EndImport(i, "failed") /\ UNCHANGED mergeVars
    <3>1. pc'[g] = pc[g]
      BY <2>2, MergeAssumption DEF EndImport, Goes, TypeOK
    <3> QED
      BY <1>2, <1>10, <2>2, <3>1 DEF DeadlockAbort, mergeVars
  <2> QED
    BY <1>10, <2>1, <2>2 DEF DeadlockAbort
<1>11. CASE UNCHANGED vars
  BY <1>2, <1>11 DEF vars, tables, mergeVars
<1> QED
  BY <1>3, <1>4, <1>5, <1>6, <1>7, <1>8, <1>9, <1>10, <1>11 DEF Next

\* What is on record for a number and a date stays so, whoever it is moved to.
LEMMA RecordStays ==
  ASSUME TypeOK, PairLocked, AliasFree, DroppedHave, [Next]_vars,
         NEW n \in Employees, NEW d \in Dates, OnRecord(n, d)
  PROVE  OnRecord(n, d)'
<1>1. PICK e \in Person(n) : record[<<e, d>>] # None
  BY DEF OnRecord
<1>2. e \in Person(n)' /\ <<e, d>> \in Keys
  BY <1>1, PersonGrows DEF Person, Keys
<1>3. ASSUME NEW h \in Merges, Moves(h) PROVE \E x \in Person(n)' : record'[<<x, d>>] # None
  <2> DEFINE s == pair[h][1]
             m == pair[h][2]
  <2>1. s \in Employees /\ m \in Employees /\ s # m /\ pc[h] = "move"
    BY <1>3 DEF Moves, Move, PairLocked
  <2>2. /\ record' = [k \in Keys |->
                        IF k[1] = m THEN None
                        ELSE IF k[1] = s /\ k[2] \in Left(h) THEN record[<<m, k[2]>>]
                        ELSE record[k]]
        /\ <<s, d>> \in Keys /\ <<m, d>> \in Keys
    BY <1>3, <2>1 DEF Moves, Keys
  <2>3. \A x \in Left(h) : record[<<m, x>>] # None
    BY DEF Left
  <2>4. CASE e = m
    <3>1. s \in Person(n)'
      BY <1>1, <1>3, <2>4, PersonMoved
    <3>2. d \in Left(h) \/ record[<<s, d>>] # None
      BY <1>1, <2>1, <2>4 DEF Left, DroppedHave
    <3>3. record'[<<s, d>>] # None
      BY <2>1, <2>2, <2>3, <3>2
    <3> QED
      BY <3>1, <3>3
  <2>5. CASE e # m
    BY <1>1, <1>2, <2>2, <2>3, <2>5
  <2> QED
    BY <2>4, <2>5
<1>4. ASSUME NEW i \in Imports, Settle(i) PROVE record'[<<e, d>>] # None
  BY <1>1, <1>2, <1>4, SettleKeeps
<1> QED
  BY <1>1, <1>2, <1>3, <1>4, Writers DEF OnRecord

\* What a step does to an import: nothing, one of its statements, or its end.
LEMMA ImportFrame ==
  ASSUME TypeOK, [Next]_vars, NEW j \in Imports
  PROVE  \/ /\ pc'[j] = pc[j] /\ seen'[j] = seen[j] /\ to'[j] = to[j]
            /\ written'[j] = written[j] /\ batch'[j] = batch[j]
         \/ Commit(j) \/ ReadAliases(j) \/ ReadStatus(j) \/ Insert(j) \/ Settle(j)
         \/ MarkCommitted(j)
         \/ pc'[j] = "idle" /\ batch'[j] # "committed"
<1> DEFINE Same == /\ pc'[j] = pc[j] /\ seen'[j] = seen[j] /\ to'[j] = to[j]
                   /\ written'[j] = written[j] /\ batch'[j] = batch[j]
<1>1. ASSUME NEW h \in Merges,
             \/ \E s, m \in Employees : LockPair(h, s, m)
             \/ Check(h) \/ Drop(h) \/ Move(h) \/ MergeFails(h)
      PROVE  Same
  <2>1. UNCHANGED <<batch, importVars>>
    BY <1>1 DEF LockPair, Check, Drop, Move, MergeFails, tables
  <2>2. pc'[j] = pc[j]
    BY <1>1, MergeAssumption
    DEF LockPair, Check, Drop, Move, MergeFails, EndMerge, Goes, TypeOK
  <2> QED
    BY <2>1, <2>2 DEF importVars
<1>2. ASSUME NEW i \in Imports, NEW b \in {"failed", "processing", "committed"}, EndImport(i, b)
      PROVE  Same \/ (i = j /\ pc'[j] = "idle" /\ batch'[j] = b)
  <2>1. CASE i = j
    BY <1>2, <2>1 DEF EndImport, Goes, TypeOK
  <2>2. CASE i # j
    <3>1. pc'[j] = pc[j] /\ batch'[j] = batch[j] /\ written'[j] = written[j]
      BY <1>2, <2>2 DEF EndImport, Goes, TypeOK
    <3>2. seen'[j] = seen[j]
      BY <1>2, <2>2 DEF EndImport, TypeOK
    <3>3. to'[j] = to[j]
      BY <1>2, <2>2 DEF EndImport, TypeOK
    <3> QED
      BY <3>1, <3>2, <3>3
  <2> QED
    BY <2>1, <2>2
<1>3. ASSUME NEW h \in Merges, NEW i \in Imports, DeadlockAbort(h, i)
      PROVE  Same \/ (pc'[j] = "idle" /\ batch'[j] # "committed")
  <2>1. CASE EndMerge(h) /\ UNCHANGED <<batch, importVars>>
    <3>1. pc'[j] = pc[j]
      BY <2>1, MergeAssumption DEF EndMerge, Goes, TypeOK
    <3>2. UNCHANGED <<batch, importVars>>
      BY <2>1
    <3> QED
      BY <3>1, <3>2 DEF importVars
  <2>2. CASE EndImport(i, "failed")
    BY <1>2, <2>2
  <2> QED
    BY <1>3, <2>1, <2>2 DEF DeadlockAbort
<1>4. ASSUME NEW i \in Imports, i # j,
             \/ Commit(i) \/ ReadAliases(i) \/ ReadStatus(i)
             \/ Insert(i) \/ Settle(i)
      PROVE  Same
  BY <1>4 DEF Commit, ReadAliases, ReadStatus, Insert, Settle, Goes, tables, importVars, TypeOK
<1>5. ASSUME NEW i \in Imports, NEW n \in Employees, UpsertEmployee(i, n) PROVE Same
  BY <1>5 DEF UpsertEmployee
<1>6. ASSUME NEW i \in Imports, MarkCommitted(i) PROVE Same \/ MarkCommitted(j)
  BY <1>2, <1>6 DEF MarkCommitted
<1>7. ASSUME NEW i \in Imports, ImportFails(i)
      PROVE  Same \/ (pc'[j] = "idle" /\ batch'[j] # "committed")
  BY <1>2, <1>7 DEF ImportFails
<1>8. CASE UNCHANGED vars
  BY <1>8 DEF vars, tables, importVars
<1> QED
  BY <1>1, <1>3, <1>4, <1>5, <1>6, <1>7, <1>8 DEF Next

\* Aliases an import has read are not changed before it uses them.
LEMMA SeenNext ==
  ASSUME TypeOK, PairLocked, AliasFree, SeenRight, [Next]_vars PROVE SeenRight'
<1> SUFFICES ASSUME NEW j \in Imports, pc'[j] = "status",
                    NEW n \in Employees, seen'[j][n] # None
             PROVE  alias'[n] = seen'[j][n]
  BY DEF SeenRight
<1>1. CASE pc'[j] = pc[j] /\ seen'[j] = seen[j]
  BY <1>1, AliasStays, MergeAssumption DEF SeenRight, TypeOK
<1>2. CASE ReadAliases(j)
  BY <1>2 DEF ReadAliases, TypeOK, tables
<1>3. CASE Commit(j) \/ ReadStatus(j) \/ Insert(j) \/ Settle(j) \/ MarkCommitted(j)
  BY <1>3 DEF Commit, ReadStatus, Insert, Settle, MarkCommitted, EndImport, Goes, TypeOK
<1> QED
  BY <1>1, <1>2, <1>3, ImportFrame

LEMMA ToNext ==
  ASSUME TypeOK, PairLocked, AliasFree, SeenRight, ToRight, [Next]_vars PROVE ToRight'
<1> SUFFICES ASSUME NEW j \in Imports, pc'[j] \in {"employees", "settle"}
             PROVE  /\ \A n \in Numbers(j) : to'[j][n] \in Person(n)'
                    /\ pc'[j] = "settle" => written'[j] = Targets(j)'
  BY DEF ToRight, Numbers
<1>1. Numbers(j) \subseteq Employees
  BY MergeAssumption DEF Numbers, Keys
<1>2. CASE pc'[j] = pc[j] /\ to'[j] = to[j] /\ written'[j] = written[j]
  BY <1>1, <1>2, PersonGrows DEF ToRight, Targets
<1>3. CASE ReadStatus(j)
  <2>1. to'[j] = [n \in Numbers(j) |-> IF n \in Aliased(j) THEN seen[j][n] ELSE n]
    BY <1>3 DEF ReadStatus, TypeOK
  <2>2. ASSUME NEW n \in Numbers(j) PROVE to'[j][n] \in Person(n)
    <3>1. n \in Aliased(j) => alias[n] # None /\ alias[n] = seen[j][n]
      BY <1>1, <1>3 DEF ReadStatus, Aliased, SeenRight
    <3> QED
      BY <1>1, <2>1, <3>1, PersonSelf, PersonAlias
  <2>3. pc'[j] = "employees"
    BY <1>3 DEF ReadStatus, Goes, TypeOK
  <2> QED
    BY <1>1, <2>2, <2>3, PersonGrows
<1>4. CASE Insert(j)
  <2>1. to'[j] = to[j] /\ written'[j] = Targets(j) /\ pc[j] = "employees"
    BY <1>4 DEF Insert, TypeOK
  <2>2. Targets(j)' = Targets(j)
    BY <2>1 DEF Targets
  <2> QED
    BY <1>1, <2>1, <2>2, PersonGrows DEF ToRight
<1>5. CASE Commit(j) \/ ReadAliases(j) \/ Settle(j) \/ MarkCommitted(j)
  BY <1>5 DEF Commit, ReadAliases, Settle, MarkCommitted, EndImport, Goes, TypeOK
<1> QED
  BY <1>2, <1>3, <1>4, <1>5, ImportFrame

LEMMA SheetNext ==
  ASSUME TypeOK, PairLocked, AliasFree, DroppedHave, ToRight, SheetOnRecord, [Next]_vars
  PROVE  SheetOnRecord'
<1> SUFFICES ASSUME NEW j \in Imports, pc'[j] = "stamp", NEW k \in Rows[j]
             PROVE  OnRecord(k[1], k[2])'
  BY DEF SheetOnRecord
<1>1. k \in Employees \X Dates /\ k[1] \in Numbers(j) /\ Numbers(j) \subseteq Employees
  BY MergeAssumption DEF Numbers, Keys
<1>2. CASE pc'[j] = pc[j]
  BY <1>1, <1>2, RecordStays DEF SheetOnRecord
<1>3. CASE Settle(j)
  <2>1. to[j][k[1]] \in Person(k[1])'
    BY <1>1, <1>3, PersonGrows DEF Settle, ToRight
  <2>2. <<to[j][k[1]], k[2]>> \in written[j] /\ written[j] \subseteq Keys
    BY <1>3 DEF Settle, ToRight, Targets, TypeOK
  <2>3. PICK row \in [written[j] -> Numbers(j)] :
            record' = [x \in Keys |-> IF x \in written[j] THEN row[x] ELSE record[x]]
    BY <1>3 DEF Settle
  <2>4. record'[<<to[j][k[1]], k[2]>>] # None
    BY <1>1, <2>2, <2>3, MergeAssumption
  <2> QED
    BY <2>1, <2>4 DEF OnRecord
<1>4. CASE Commit(j) \/ ReadAliases(j) \/ ReadStatus(j) \/ Insert(j) \/ MarkCommitted(j)
  BY <1>4 DEF Commit, ReadAliases, ReadStatus, Insert, MarkCommitted, EndImport, Goes, TypeOK
<1> QED
  BY <1>2, <1>3, <1>4, ImportFrame

\* A record goes to an employee the number it was filed under stands for.
LEMMA FiledNext ==
  ASSUME TypeOK, PairLocked, AliasFree, ToRight, [Next]_vars,
         \A k \in Keys : record[k] # None => k[1] \in Person(record[k]),
         NEW k \in Keys, record'[k] # None
  PROVE  k[1] \in Person(record[k])'
<1>1. k[1] \in Employees /\ k[2] \in Dates /\ k = <<k[1], k[2]>>
  BY DEF Keys
<1>2. CASE record'[k] = record[k]
  <2>1. record[k] \in Employees /\ k[1] \in Person(record[k])
    BY <1>2 DEF TypeOK
  <2> QED
    BY <1>2, <2>1, PersonGrows
<1>3. ASSUME NEW h \in Merges, Moves(h), record'[k] # record[k] PROVE k[1] \in Person(record[k])'
  <2>1. pair[h][2] \in Employees
    BY <1>3 DEF Moves, Move, PairLocked
  <2>2. /\ k[1] = pair[h][1]
        /\ record'[k] = record[<<pair[h][2], k[2]>>]
        /\ <<pair[h][2], k[2]>> \in Keys
    BY <1>1, <1>3, <2>1 DEF Moves, Keys
  <2>3. pair[h][2] \in Person(record'[k]) /\ record'[k] \in Employees
    BY <2>2 DEF TypeOK
  <2> QED
    BY <1>3, <2>2, <2>3, PersonMoved
<1>4. ASSUME NEW i \in Imports, Settle(i), record'[k] # record[k]
      PROVE  k[1] \in Person(record[k])'
  <2>1. PICK row \in [written[i] -> Numbers(i)] :
            /\ \A x \in written[i] : to[i][row[x]] = x[1]
            /\ record' = [x \in Keys |-> IF x \in written[i] THEN row[x] ELSE record[x]]
    BY <1>4 DEF Settle
  <2>2. k \in written[i] /\ record'[k] = row[k] /\ row[k] \in Numbers(i) /\ to[i][row[k]] = k[1]
    BY <1>4, <2>1
  <2>3. k[1] \in Person(record'[k])
    BY <1>4, <2>2 DEF Settle, ToRight
  <2>4. record'[k] \in Employees
    BY <2>2, MergeAssumption DEF Numbers, Keys
  <2> QED
    BY <2>3, <2>4, PersonGrows
<1> QED
  BY <1>2, <1>3, <1>4, Writers

LEMMA KeptNext ==
  ASSUME TypeOK, PairLocked, AliasFree, DroppedHave, ToRight, SheetOnRecord, DatesAreKept,
         [Next]_vars
  PROVE  DatesAreKept'
<1>1. \A k \in Keys : record'[k] # None => k[1] \in Person(record[k])'
  BY FiledNext DEF DatesAreKept
<1>2. ASSUME NEW k \in OnFile PROVE OnRecord(k[1], k[2])'
  BY <1>2, RecordStays, MergeAssumption DEF DatesAreKept, OnRecord
<1>3. ASSUME NEW j \in Imports, batch'[j] = "committed", NEW k \in Rows[j]
      PROVE  OnRecord(k[1], k[2])'
  <2>1. k[1] \in Employees /\ k[2] \in Dates
    BY MergeAssumption DEF Keys
  <2>2. CASE batch[j] = "committed"
    BY <2>1, <2>2, RecordStays DEF DatesAreKept, OnRecord
  <2>3. CASE batch[j] # "committed"
    <3>1. batch'[j] # batch[j]
      BY <1>3, <2>3
    <3>2. CASE MarkCommitted(j)
      BY <2>1, <3>2, RecordStays DEF MarkCommitted, SheetOnRecord
    <3>3. CASE Commit(j) \/ ReadAliases(j) \/ ReadStatus(j) \/ Insert(j) \/ Settle(j)
      BY <1>3, <2>3, <3>3
      DEF Commit, ReadAliases, ReadStatus, Insert, Settle, tables, TypeOK
    <3> QED
      BY <1>3, <3>1, <3>2, <3>3, ImportFrame
  <2> QED
    BY <2>2, <2>3
<1> QED
  BY <1>1, <1>2, <1>3 DEF DatesAreKept, OnRecord

-----------------------------------------------------------------------------
(* The theorems.                                                           *)

LEMMA InvAlways == Spec => []IInv
<1>1. IInv /\ [Next]_vars => IInv'
  BY TypeNext, LockedNext, FreeAliasNext, FreeNext, LeadNext, KeptNext,
     DroppedNext, SeenNext, ToNext, SheetNext
  DEF IInv
<1> QED
  BY InvInit, <1>1, PTL DEF Spec

\* Tables and locals keep their types, and an import has resolved every number
\* of its sheet before it writes.
THEOREM TypeCorrect == Spec => []TypeOK
<1>1. IInv => TypeOK
  BY DEF IInv
<1> QED
  BY InvAlways, <1>1, PTL

\* "keep the survivor's row" (merge): the move of what did not collide meets no
\* record, however many merges and imports are in progress.
THEOREM MoveAlwaysFree == Spec => []MoveIsFree
<1>1. IInv => MoveIsFree
  BY DEF IInv
<1> QED
  BY InvAlways, <1>1, PTL

\* "One of these employees was already part of a merge": the aliases lead from
\* every number to an employee who is not merged, whatever is merged at once.
THEOREM AliasesAlwaysLead == Spec => []AliasesLead
<1>1. IInv => AliasesLead
  BY DEF IInv
<1> QED
  BY InvAlways, <1>1, PTL

\* No merge loses a row that was on file or that a committed batch holds, and
\* none puts one under an employee its number does not stand for.
THEOREM DatesAlwaysKept == Spec => []DatesAreKept
<1>1. IInv => DatesAreKept
  BY DEF IInv
<1> QED
  BY InvAlways, <1>1, PTL
=============================================================================
