---------------------------- MODULE EmployeeMerge ----------------------------
(***************************************************************************)
(* Two records of one person become one (merge of                          *)
(* employee-merge.service.ts) while sheets that name the person by either  *)
(* number are imported (commit and commitShiftsRows of import.service.ts). *)
(* A merge is one transaction of READ COMMITTED that locks the two         *)
(* employees FOR UPDATE; an import is a sequence of statements of their    *)
(* own.  Both are processes whose program counter pc[h] names the          *)
(* statement they issue next; what a merge has written shows when it       *)
(* commits.                                                                *)
(*                                                                         *)
(* An employee is named by its number.  A merged employee is inactive, and *)
(* nothing else makes one inactive here.  Attendance stands for every      *)
(* table a merge moves: what collides with a row of the survivor is        *)
(* deleted, the rest is re-pointed.  The rows of a sheet fit in one chunk, *)
(* and the functions and shift codes they name exist.                      *)
(***************************************************************************)
EXTENDS Integers, FiniteSets

CONSTANTS
    Merges,         \* handlers of merges
    Imports,        \* batches, each with the call that commits it
    Employees,      \* employee numbers
    Known,          \* those with a record at first
    Dates,
    Rows,           \* the rows of each batch: a number and a date
    OnFile,         \* the attendance records there are at first
    MaxFailures,    \* bound: failed statements and stopped calls
    None            \* no record, and an unused local

Keys == Employees \X Dates

ASSUME MergeAssumption ==
    /\ Merges \cap Imports = {} /\ None \notin Merges \cup Employees
    /\ Known \subseteq Employees
    /\ Rows \in [Imports -> SUBSET Keys]
    /\ OnFile \subseteq Known \X Dates
    /\ MaxFailures \in Nat

VARIABLES
    exists,     \* employees
    alias,      \* employee_aliases: the survivor a merged number stands for
    record,     \* attendance_records: the number each was filed under
    batch,      \* import_batches.status
    lock,       \* the merge that holds an employee's row
    pc,         \* the statement each process issues next
    pair,       \* the survivor and the merged employee of each merge
    dropped,    \* the dates whose records each merge has deleted
    seen,       \* the aliases each import has read
    to,         \* the employee each number of an import stands for
    todo,       \* the numbers of an import whose employee is still to be upserted
    written,    \* the keys an upsert in progress has written
    failures    \* failed statements and stopped calls so far

tables == <<exists, alias, record, batch>>
mergeVars == <<lock, pair, dropped>>
importVars == <<seen, to, todo, written>>
vars == <<tables, mergeVars, importVars, pc, failures>>

Init ==
    /\ exists = Known
    /\ alias = [n \in Employees |-> None]
    /\ record = [k \in Keys |-> IF k \in OnFile THEN k[1] ELSE None]
    /\ batch = [i \in Imports |-> "validated"]
    /\ lock = [n \in Employees |-> None]
    /\ pc = [p \in Merges \cup Imports |-> "idle"]
    /\ pair = [h \in Merges |-> None]
    /\ dropped = [h \in Merges |-> {}]
    /\ seen = [i \in Imports |-> None]
    /\ to = [i \in Imports |-> None]
    /\ todo = [i \in Imports |-> {}]
    /\ written = [i \in Imports |-> {}]
    /\ failures = 0

Goes(p, step) == pc' = [pc EXCEPT ![p] = step]

Fails == failures < MaxFailures /\ failures' = failures + 1

-----------------------------------------------------------------------------
(* merge.                                                                  *)

\* Mutant: SELECT without FOR UPDATE.
LockPair_Plain(h, s, m) ==
    /\ pc[h] = "idle"
    /\ s # m /\ {s, m} \subseteq exists
    /\ lock[s] = None /\ lock[m] = None
    /\ pair' = [pair EXCEPT ![h] = <<s, m>>]
    /\ Goes(h, "check")
    /\ UNCHANGED <<tables, lock, dropped, importVars, failures>>

\* SELECT ... FOR UPDATE of both employees, which waits for other merges.
LockPair(h, s, m) ==
    /\ pc[h] = "idle"
    /\ s # m /\ {s, m} \subseteq exists
    /\ lock[s] = None /\ lock[m] = None
    /\ lock' = [lock EXCEPT ![s] = h, ![m] = h]
    /\ pair' = [pair EXCEPT ![h] = <<s, m>>]
    /\ Goes(h, "check")
    /\ UNCHANGED <<tables, dropped, importVars, failures>>

\* COMMIT or ROLLBACK.
EndMerge(h) ==
    /\ lock' = [n \in Employees |-> IF lock[n] = h THEN None ELSE lock[n]]
    /\ pair' = [pair EXCEPT ![h] = None]
    /\ dropped' = [dropped EXCEPT ![h] = {}]
    /\ Goes(h, "idle")

\* Mutant: only the employee to merge is looked for.
MergedBefore_Merged(h) == alias[pair[h][2]] # None

\* Either of the two is an old_employee_id.
MergedBefore(h) == alias[pair[h][1]] # None \/ alias[pair[h][2]] # None

Check(h) ==
    /\ pc[h] = "check"
    /\ \/ ~MergedBefore(h) /\ Goes(h, "drop") /\ UNCHANGED mergeVars
       \/ MergedBefore(h) /\ EndMerge(h)
    /\ UNCHANGED <<tables, importVars, failures>>

\* Mutant: all records of the merged employee are deleted.
Colliding_All(h) == {d \in Dates : record[<<pair[h][2], d>>] # None}

\* The dates on which both have a record.
Colliding(h) ==
    {d \in Dates : record[<<pair[h][1], d>>] # None /\ record[<<pair[h][2], d>>] # None}

\* An import that has written a row keeps it until its statement ends.
Held(e, d) == \E i \in Imports : <<e, d>> \in written[i]

\* DELETE FROM attendance_records WHERE EXISTS a record of the survivor.
Drop(h) ==
    /\ pc[h] = "drop"
    /\ \A d \in Colliding(h) : ~Held(pair[h][2], d)
    /\ dropped' = [dropped EXCEPT ![h] = Colliding(h)]
    /\ Goes(h, "move")
    /\ UNCHANGED <<tables, lock, pair, importVars, failures>>

\* The records that are left to the survivor.
Left(h) == {d \in Dates : record[<<pair[h][2], d>>] # None} \ dropped[h]

\* What the merge waits for: rows an import has written, or keys it has taken.
MoveWaits(h) == \E d \in Left(h) : Held(pair[h][2], d) \/ Held(pair[h][1], d)

\* UPDATE ... SET employee_id; then the alias, the status, and COMMIT.  A record
\* in the way makes it fail.
Move(h) ==
    /\ pc[h] = "move" /\ ~MoveWaits(h)
    /\ LET s == pair[h][1]
           m == pair[h][2] IN
          \/ /\ \A d \in Left(h) : record[<<s, d>>] = None
             /\ record' = [k \in Keys |->
                              IF k[1] = m THEN None
                              ELSE IF k[1] = s /\ k[2] \in Left(h) THEN record[<<m, k[2]>>]
                              ELSE record[k]]
             /\ alias' = [alias EXCEPT ![m] = s]
          \/ (\E d \in Left(h) : record[<<s, d>>] # None) /\ UNCHANGED <<record, alias>>
    /\ EndMerge(h)
    /\ UNCHANGED <<exists, batch, importVars, failures>>

\* A statement fails, or the server stops: everything is rolled back.
MergeFails(h) ==
    /\ pc[h] # "idle"
    /\ Fails
    /\ EndMerge(h)
    /\ UNCHANGED <<tables, importVars>>

-----------------------------------------------------------------------------
(* commit of a batch.                                                      *)

Numbers(i) == {k[1] : k \in Rows[i]}

\* Of a batch that is not committed; it is marked as being processed.
Commit(i) ==
    /\ pc[i] = "idle" /\ batch[i] # "committed"
    /\ batch' = [batch EXCEPT ![i] = "processing"]
    /\ Goes(i, "aliases")
    /\ UNCHANGED <<exists, alias, record, mergeVars, importVars, failures>>

\* lookupEmployeeAliases.
ReadAliases(i) ==
    /\ pc[i] = "aliases"
    /\ seen' = [seen EXCEPT ![i] = alias]
    /\ Goes(i, "status")
    /\ UNCHANGED <<tables, mergeVars, to, todo, written, failures>>

\* There is a record under the number, and it is active.
Usable(n) == n \in exists /\ alias[n] = None

\* An alias overrides a record that is missing or no longer active.
Aliased(i) == {n \in Numbers(i) : seen[i][n] # None /\ ~Usable(n)}

ReadStatus(i) ==
    /\ pc[i] = "status"
    /\ to' = [to EXCEPT ![i] = [n \in Numbers(i) |-> IF n \in Aliased(i) THEN seen[i][n] ELSE n]]
    /\ todo' = [todo EXCEPT ![i] = Numbers(i) \ Aliased(i)]
    /\ Goes(i, "employees")
    /\ UNCHANGED <<tables, mergeVars, seen, written, failures>>

\* Employees that stand for themselves are upserted one by one.  The upsert waits
\* for a lock; of an employee there is it changes neither number nor status.
UpsertEmployee(i, n) ==
    /\ pc[i] = "employees"
    /\ n \in todo[i] /\ lock[n] = None
    /\ exists' = exists \cup {n}
    /\ todo' = [todo EXCEPT ![i] = @ \ {n}]
    /\ UNCHANGED <<alias, record, batch, mergeVars, seen, to, written, pc, failures>>

Targets(i) == {<<to[i][k[1]], k[2]>> : k \in Rows[i]}

\* INSERT INTO attendance_records ... ON CONFLICT DO UPDATE: it waits for rows
\* that a merge has deleted and another import has written.
Insert(i) ==
    /\ pc[i] = "employees" /\ todo[i] = {}
    /\ \A k \in Targets(i) :
          /\ ~Held(k[1], k[2])
          /\ \A h \in Merges : pc[h] = "move" => ~(k[1] = pair[h][2] /\ k[2] \in dropped[h])
    /\ written' = [written EXCEPT ![i] = Targets(i)]
    /\ Goes(i, "settle")
    /\ UNCHANGED <<tables, mergeVars, seen, to, todo, failures>>

\* The foreign keys of new rows: a lock FOR UPDATE on the employee is waited for.
InsertWaits(i) == \E k \in written[i] : record[k] = None /\ lock[k[1]] # None

\* Of two rows for one employee and date the first in the sheet counts.
Settle(i) ==
    /\ pc[i] = "settle" /\ ~InsertWaits(i)
    /\ \E row \in [written[i] -> Numbers(i)] :
          /\ \A k \in written[i] : <<row[k], k[2]>> \in Rows[i] /\ to[i][row[k]] = k[1]
          /\ record' = [k \in Keys |-> IF k \in written[i] THEN row[k] ELSE record[k]]
    /\ written' = [written EXCEPT ![i] = {}]
    /\ Goes(i, "stamp")
    /\ UNCHANGED <<exists, alias, batch, mergeVars, seen, to, todo, failures>>

EndImport(i, s) ==
    /\ batch' = [batch EXCEPT ![i] = s]
    /\ seen' = [seen EXCEPT ![i] = None]
    /\ to' = [to EXCEPT ![i] = None]
    /\ todo' = [todo EXCEPT ![i] = {}]
    /\ written' = [written EXCEPT ![i] = {}]
    /\ Goes(i, "idle")

MarkCommitted(i) ==
    /\ pc[i] = "stamp"
    /\ EndImport(i, "committed")
    /\ UNCHANGED <<exists, alias, record, mergeVars, failures>>

\* A statement fails and the batch is marked failed; or the server stops.
ImportFails(i) ==
    /\ pc[i] # "idle"
    /\ Fails
    /\ \E s \in {"failed", "processing"} : EndImport(i, s)
    /\ UNCHANGED <<exists, alias, record, mergeVars>>

\* PostgreSQL ends one of a merge and an import that wait for each other.
DeadlockAbort(h, i) ==
    /\ pc[h] \in {"drop", "move"} /\ pc[i] = "settle"
    /\ \E e \in {pair[h][1], pair[h][2]}, d \in Dates :
          <<e, d>> \in written[i] /\ record[<<pair[h][2], d>>] # None
    /\ \E k \in written[i] : record[k] = None /\ lock[k[1]] = h
    /\ \/ EndMerge(h) /\ UNCHANGED <<batch, importVars>>
       \/ EndImport(i, "failed") /\ UNCHANGED mergeVars
    /\ UNCHANGED <<exists, alias, record, failures>>

Next ==
    \/ \E h \in Merges :
          \/ \E s, m \in Employees : LockPair(h, s, m)
          \/ Check(h) \/ Drop(h) \/ Move(h) \/ MergeFails(h)
          \/ \E i \in Imports : DeadlockAbort(h, i)
    \/ \E i \in Imports :
          \/ Commit(i) \/ ReadAliases(i) \/ ReadStatus(i)
          \/ \E n \in Employees : UpsertEmployee(i, n)
          \/ Insert(i) \/ Settle(i) \/ MarkCommitted(i) \/ ImportFails(i)

Spec == Init /\ [][Next]_vars
-----------------------------------------------------------------------------
(* Properties.                                                             *)

MergeSteps == {"idle", "check", "drop", "move"}
ImportSteps == {"idle", "aliases", "status", "employees", "settle", "stamp"}

\* Among the types: what an import has resolved before it needs it.
TypeOK ==
    /\ exists \subseteq Employees
    /\ alias \in [Employees -> Employees \cup {None}]
    /\ record \in [Keys -> Employees \cup {None}]
    /\ batch \in [Imports -> {"validated", "processing", "failed", "committed"}]
    /\ lock \in [Employees -> Merges \cup {None}]
    /\ pc \in [Merges \cup Imports -> MergeSteps \cup ImportSteps]
    /\ \A h \in Merges : pc[h] \in MergeSteps
    /\ \A i \in Imports : pc[i] \in ImportSteps
    /\ pair \in [Merges -> (Employees \X Employees) \cup {None}]
    /\ dropped \in [Merges -> SUBSET Dates]
    /\ seen = [i \in Imports |-> seen[i]] /\ to = [i \in Imports |-> to[i]]
    /\ \A i \in Imports :
          /\ pc[i] = "status" => seen[i] \in [Employees -> Employees \cup {None}]
          /\ pc[i] \in {"employees", "settle"} => to[i] \in [Numbers(i) -> Employees]
    /\ todo \in [Imports -> SUBSET Employees]
    /\ written \in [Imports -> SUBSET Keys]
    /\ failures \in 0 .. MaxFailures

\* The employees a number may stand for: itself and, from alias to alias, the
\* survivors.
Person(n) ==
    {e \in Employees :
        \A S \in SUBSET Employees :
            (n \in S /\ \A x \in S : alias[x] # None => alias[x] \in S) => e \in S}

\* "One of these employees was already part of a merge": merges in progress at
\* the same time, chains of merges and merges back never close a circle; from
\* every number the aliases lead to an employee who is not merged.
AliasesLead ==
    \A n \in Employees : \E e \in Person(n) : alias[e] = None

\* "When both records hold the same date, keep the survivor's row" (merge): no
\* record turns up between the deletion of those dates and the move of the
\* others that the move would run into, although imports insert records all the
\* time.
MoveIsFree ==
    \A h \in Merges :
        pc[h] = "move" => \A d \in Left(h) : record[<<pair[h][1], d>>] = None

\* Nothing is lost and nothing goes to a stranger: what a committed batch, or
\* the original data, holds for a number and a date is on record for an employee
\* the number stands for, and a record belongs to nobody else, whatever is
\* merged between the statements of an import.
DatesAreKept ==
    /\ \A k \in OnFile \cup UNION {Rows[i] : i \in {j \in Imports : batch[j] = "committed"}} :
          \E e \in Person(k[1]) : record[<<e, k[2]>>] # None
    /\ \A k \in Keys : record[k] # None => k[1] \in Person(record[k])
=============================================================================
