---------------------------- MODULE BreaksProofs ----------------------------
(***************************************************************************)
(* What Breaks keeps for any number of slots, requests, plans, windows,    *)
(* snapshots and failures, as long as one call comes after the other: a    *)
(* slot lies where a plan or a granted request has put it, and a grant     *)
(* leaves the intervals of its window covered.  The invariants say what    *)
(* the call in progress knows of its request, which nobody else decides    *)
(* meanwhile, and of the coverage it has read.                             *)
(***************************************************************************)
EXTENDS Breaks, FiniteSetTheorems, TLAPS

\* Calls come one after the other.
OneHandler == \A g, h \in Handlers : g = h

\* What a call works on at each statement.
Known(h) ==
    /\ pc[h] \in {"readLive", "insert"} => job[h] \in Jobs
    /\ pc[h] = "upsert" => plan[h] \in Plans
    /\ pc[h] \in {"recheck", "approve", "reject", "moveSlot", "moveAndReset"} =>
          /\ job[h] \in Jobs /\ req[h] \in Requests
          /\ asked[req[h]] = job[h] /\ status[req[h]] # None
    /\ pc[h] \in {"moveSlot", "moveAndReset"} => job[h].slot # None

JobKnown == \A h \in Handlers : Known(h)

\* What is asked of a request that is there.
AskedKnown == \A r \in Requests : status[r] # None => asked[r] \in Jobs

\* Nobody but the call at hand decides its request.
StatusKnown ==
    \A h \in Handlers :
        /\ pc[h] \in {"recheck", "approve", "reject"} => status[req[h]] = "pending"
        /\ pc[h] = "moveSlot" => status[req[h]] = "approved"
        /\ pc[h] = "moveAndReset" => status[req[h]] = "auto_approved"

IInv == TypeOK /\ JobKnown /\ AskedKnown

OneInv == StatusKnown /\ SlotsExplained

-----------------------------------------------------------------------------
(* The initial states.                                                     *)

LEMMA InvInit == Init => IInv /\ OneInv
  BY BreaksAssumption
  DEF Init, IInv, OneInv, TypeOK, JobKnown, Known, AskedKnown, StatusKnown, SlotsExplained

-----------------------------------------------------------------------------
(* Types, and what a call works on, whatever runs at the same time.        *)

\* What the call of g works on is as before.
SameCall(g) == pc'[g] = pc[g] /\ job'[g] = job[g] /\ req'[g] = req[g] /\ plan'[g] = plan[g]

\* A request stays, and so does what it asks for.
RequestsStay ==
    \A r \in Requests : status[r] # None => status'[r] # None /\ asked'[r] = asked[r]

\* A step of one call leaves the others what they know.
LEMMA OthersKnow ==
  ASSUME JobKnown, RequestsStay, NEW h \in Handlers, Known(h)',
         \A g \in Handlers : g = h \/ SameCall(g)
  PROVE  JobKnown'
<1> SUFFICES ASSUME NEW g \in Handlers, g # h PROVE Known(g)'
  BY DEF JobKnown, Known
<1> QED
  BY DEF JobKnown, Known, SameCall, RequestsStay

\* A call that is over leaves nothing behind.
LEMMA ReturnKeeps ==
  ASSUME TypeOK, JobKnown, NEW h \in Handlers, Return(h), RequestsStay
  PROVE  /\ pc' \in [Handlers -> {"idle", "readLive", "insert", "moveAndReset", "recheck",
                                  "approve", "reject", "moveSlot", "upsert"}]
         /\ job' \in [Handlers -> Jobs \cup {None}]
         /\ req' \in [Handlers -> Requests \cup {None}]
         /\ fits' \in [Handlers -> BOOLEAN]
         /\ plan' \in [Handlers -> Plans \cup {None}] /\ todo' \in [Handlers -> SUBSET Slots]
         /\ JobKnown'
<1>1. pc'[h] = "idle" /\ \A g \in Handlers : g = h \/ SameCall(g)
  BY DEF Return, TypeOK, SameCall
<1>2. JobKnown'
  BY <1>1, OthersKnow DEF Known
<1> QED
  BY <1>2 DEF Return, TypeOK

LEMMA InvNext == ASSUME IInv, [Next]_vars PROVE IInv'
<1> USE DEF IInv
<1>1. ASSUME NEW h \in Handlers, NEW w \in Windows, NEW s \in Slots \cup {None}, Submit(h, s, w)
      PROVE  IInv'
  <2>1. [slot |-> s, window |-> w] \in Jobs
    BY DEF Jobs
  <2>2. fits' \in [Handlers -> BOOLEAN]
    <3>1. Allows(w, 0) \in BOOLEAN
      BY Zenon DEF Allows
    <3> QED
      BY <1>1, <3>1 DEF Submit, TypeOK
  <2>3. TypeOK'
    BY <1>1, <2>1, <2>2 DEF Submit, TypeOK, counters
  <2> QED
    BY <1>1, <2>1, <2>3 DEF Submit, TypeOK, JobKnown, Known, AskedKnown
<1>2. ASSUME NEW h \in Handlers, ReadLive(h) PROVE IInv'
  <2>1. fits' \in [Handlers -> BOOLEAN]
    <3>1. (fits[h] /\ LiveAllows) \in BOOLEAN
      BY Zenon
    <3> QED
      BY <1>2, <3>1 DEF ReadLive, TypeOK
  <2>2. failures' \in 0 .. MaxFailures
    BY <1>2, BreaksAssumption DEF ReadLive, TypeOK
  <2>3. TypeOK'
    BY <1>2, <2>1, <2>2 DEF ReadLive, TypeOK
  <2> QED
    BY <1>2, <2>3 DEF ReadLive, TypeOK, JobKnown, Known, AskedKnown
<1>3. ASSUME NEW h \in Handlers, NEW r \in Requests, Insert(h, r) PROVE IInv'
  <2>1. job[h] \in Jobs
    BY <1>3 DEF Insert, JobKnown, Known
  <2>2. asked' \in [Requests -> Jobs \cup {None}] /\ AskedKnown'
    BY <1>3, <2>1 DEF Insert, TypeOK, AskedKnown
  <2>3. status' \in [Requests -> {"pending", "auto_approved", "approved", "rejected", None}]
    BY <1>3 DEF Insert, TypeOK
  <2>4. RequestsStay
    BY <1>3, BreaksAssumption DEF Insert, TypeOK, RequestsStay
  <2>5. CASE Return(h)
    BY <1>3, <2>2, <2>3, <2>4, <2>5, ReturnKeeps DEF Insert, TypeOK, counters
  <2>6. CASE /\ fits[h] /\ job[h].slot # None
             /\ pc' = [pc EXCEPT ![h] = "moveAndReset"]
             /\ req' = [req EXCEPT ![h] = r]
             /\ UNCHANGED <<job, fits, plan, todo>>
    <3>1. TypeOK'
      BY <1>3, <2>2, <2>3, <2>6 DEF Insert, TypeOK, counters
    <3>2. \A g \in Handlers : g = h \/ SameCall(g)
      BY <2>6 DEF TypeOK, SameCall
    <3>3. Known(h)'
      BY <1>3, <2>1, <2>6, BreaksAssumption DEF Insert, TypeOK, Known
    <3>4. JobKnown'
      BY <2>4, <3>2, <3>3, OthersKnow
    <3> QED
      BY <2>2, <3>1, <3>4
  <2> QED
    BY <1>3, <2>5, <2>6 DEF Insert
<1>4. ASSUME NEW h \in Handlers, MoveAndReset(h) \/ MoveSlot(h) PROVE IInv'
  <2>1. /\ job[h].slot \in Slots /\ job[h].window \in Nat \X Nat
        /\ Return(h) /\ UNCHANGED <<asked, status, live, counters>>
    BY <1>4, BreaksAssumption DEF MoveAndReset, MoveSlot, JobKnown, Known, Jobs
  <2>2. planned' \in [Slots -> (Nat \X Nat) \cup {None}]
    BY <1>4, <2>1 DEF MoveAndReset, MoveSlot, TypeOK
  <2>3. marked' \in [Slots -> Marks \cup {None}]
    BY <1>4, <2>1 DEF MoveAndReset, MoveSlot, TypeOK, Marks
  <2> QED
    BY <2>1, <2>2, <2>3, ReturnKeeps DEF TypeOK, AskedKnown, counters, RequestsStay
<1>5. ASSUME NEW h \in Handlers, NEW r \in Requests, NEW step \in {"recheck", "reject"},
             Read(h, r, step)
      PROVE  IInv'
  <2>1. asked[r] \in Jobs
    BY <1>5, BreaksAssumption DEF Read, AskedKnown, TypeOK
  <2>2. TypeOK'
    BY <1>5, <2>1 DEF Read, TypeOK, counters
  <2>3. Known(h)'
    BY <1>5, <2>1, BreaksAssumption DEF Read, TypeOK, Known
  <2>4. RequestsStay /\ \A g \in Handlers : g = h \/ SameCall(g)
    BY <1>5 DEF Read, TypeOK, RequestsStay, SameCall
  <2>5. JobKnown'
    BY <2>3, <2>4, OthersKnow
  <2> QED
    BY <1>5, <2>2, <2>5 DEF Read, AskedKnown
<1>6. ASSUME NEW h \in Handlers, Recheck(h) PROVE IInv'
  <2>1. CASE Return(h)
    BY <1>6, <2>1, ReturnKeeps DEF Recheck, TypeOK, AskedKnown, counters, RequestsStay
  <2>2. CASE pc' = [pc EXCEPT ![h] = "approve"] /\ UNCHANGED locals
    BY <1>6, <2>2 DEF Recheck, TypeOK, JobKnown, Known, AskedKnown, counters, locals
  <2> QED
    BY <1>6, <2>1, <2>2 DEF Recheck
<1>7. ASSUME NEW h \in Handlers, WriteApproved(h) PROVE IInv'
  <2>1. status' \in [Requests -> {"pending", "auto_approved", "approved", "rejected", None}]
    BY <1>7 DEF WriteApproved, TypeOK
  <2>2. AskedKnown'
    BY <1>7 DEF WriteApproved, AskedKnown, JobKnown, Known, TypeOK
  <2>3. RequestsStay
    BY <1>7, BreaksAssumption DEF WriteApproved, RequestsStay, TypeOK
  <2>4. CASE Return(h)
    BY <1>7, <2>1, <2>2, <2>3, <2>4, ReturnKeeps DEF WriteApproved, TypeOK, counters
  <2>5. CASE job[h].slot # None /\ pc' = [pc EXCEPT ![h] = "moveSlot"] /\ UNCHANGED locals
    <3>1. TypeOK'
      BY <1>7, <2>1, <2>5 DEF WriteApproved, TypeOK, counters, locals
    <3>2. \A g \in Handlers : g = h \/ SameCall(g)
      BY <2>5 DEF TypeOK, SameCall, locals
    <3>3. Known(h)'
      BY <1>7, <2>3, <2>5 DEF WriteApproved, TypeOK, JobKnown, Known, RequestsStay, locals
    <3>4. JobKnown'
      BY <2>3, <3>2, <3>3, OthersKnow
    <3> QED
      BY <2>2, <3>1, <3>4
  <2> QED
    BY <1>7, <2>4, <2>5 DEF WriteApproved
<1>8. ASSUME NEW h \in Handlers, WriteRejected(h) PROVE IInv'
  <2>1. status' \in [Requests -> {"pending", "auto_approved", "approved", "rejected", None}]
    BY <1>8 DEF WriteRejected, TypeOK
  <2>2. AskedKnown'
    BY <1>8 DEF WriteRejected, AskedKnown, JobKnown, Known, TypeOK
  <2>3. RequestsStay
    BY <1>8, BreaksAssumption DEF WriteRejected, RequestsStay, TypeOK
  <2> QED
    BY <1>8, <2>1, <2>2, <2>3, ReturnKeeps DEF WriteRejected, TypeOK, counters
<1>9. ASSUME NEW h \in Handlers, Generate(h) PROVE IInv'
  <2>1. plans' \in 0 .. MaxPlans
    BY <1>9, BreaksAssumption DEF Generate, TypeOK
  <2>2. plan' \in [Handlers -> Plans \cup {None}] /\ plan'[h] \in Plans
    BY <1>9 DEF Generate, TypeOK
  <2>3. \A g \in Handlers : g = h \/ (plan'[g] = plan[g] /\ pc'[g] = pc[g])
    BY <1>9 DEF Generate, TypeOK
  <2>4. TypeOK'
    BY <1>9, <2>1, <2>2 DEF Generate, TypeOK
  <2> QED
    BY <1>9, <2>2, <2>3, <2>4 DEF Generate, TypeOK, JobKnown, Known, AskedKnown
<1>10. ASSUME NEW h \in Handlers, Upsert(h) PROVE IInv'
  <2>1. plan[h] \in [Slots -> Nat \X Nat] /\ todo[h] \subseteq Slots
    BY <1>10, BreaksAssumption DEF Upsert, JobKnown, Known, TypeOK
  <2>2. planned' \in [Slots -> (Nat \X Nat) \cup {None}] /\ marked' \in [Slots -> Marks \cup {None}]
    <3>1. PICK s \in todo[h] : /\ planned' = [planned EXCEPT ![s] = plan[h][s]]
                              /\ marked' = [marked EXCEPT ![s] = "scheduled"]
      BY <1>10 DEF Upsert
    <3>2. s \in Slots /\ plan[h][s] \in Nat \X Nat
      BY <2>1
    <3> QED
      BY <3>1, <3>2 DEF TypeOK, Marks
  <2>3. CASE Return(h)
    BY <1>10, <2>2, <2>3, ReturnKeeps DEF Upsert, TypeOK, AskedKnown, counters, RequestsStay
  <2>4. CASE UNCHANGED <<pc, job, req, fits, plan>> /\ \E s \in todo[h] : todo' = [todo EXCEPT ![h] = @ \ {s}]
    BY <1>10, <2>1, <2>2, <2>4 DEF Upsert, TypeOK, JobKnown, Known, AskedKnown, counters
  <2> QED
    BY <1>10, <2>3, <2>4 DEF Upsert
<1>11. ASSUME NEW h \in Handlers, NEW s \in Slots, NEW m \in Marks, RecordActual(h, s, m) PROVE IInv'
  BY <1>11 DEF RecordActual, TypeOK, JobKnown, Known, AskedKnown, counters, locals
<1>12. ASSUME NEW q \in Snapshots, Snapshot(q) PROVE IInv'
  BY <1>12, BreaksAssumption DEF Snapshot, TypeOK, JobKnown, Known, AskedKnown, locals
<1>13. ASSUME NEW h \in Handlers, Fail(h) PROVE IInv'
  <2>1. failures' \in 0 .. MaxFailures
    BY <1>13, BreaksAssumption DEF Fail, TypeOK
  <2> QED
    BY <1>13, <2>1, ReturnKeeps DEF Fail, TypeOK, AskedKnown, RequestsStay
<1>14. CASE UNCHANGED vars
  BY <1>14 DEF vars, locals, counters, TypeOK, JobKnown, Known, AskedKnown
<1> QED
  BY <1>1, <1>2, <1>3, <1>4, <1>5, <1>6, <1>7, <1>8, <1>9, <1>10, <1>11, <1>12, <1>13, <1>14
  DEF Next, Approve, Reject

-----------------------------------------------------------------------------
(* One call after the other.                                               *)

\* The status of a request is written by the call that works on it only.
LEMMA StatusNext == ASSUME OneHandler, IInv, StatusKnown, [Next]_vars PROVE StatusKnown'
<1> USE DEF IInv
<1>1. ASSUME NEW h \in Handlers, Return(h) PROVE StatusKnown'
  BY <1>1 DEF OneHandler, Return, StatusKnown, TypeOK
<1>2. ASSUME NEW h \in Handlers, NEW w \in Windows, NEW s \in Slots \cup {None}, Submit(h, s, w)
      PROVE  StatusKnown'
  BY <1>2 DEF Submit, OneHandler, StatusKnown, TypeOK
<1>3. ASSUME NEW h \in Handlers, ReadLive(h) \/ Generate(h) PROVE StatusKnown'
  BY <1>3 DEF ReadLive, Generate, OneHandler, StatusKnown, TypeOK
<1>4. ASSUME NEW h \in Handlers, NEW r \in Requests, Insert(h, r) PROVE StatusKnown'
  BY <1>1, <1>4 DEF Insert, OneHandler, StatusKnown, TypeOK
<1>5. ASSUME NEW h \in Handlers, NEW r \in Requests, NEW step \in {"recheck", "reject"},
             Read(h, r, step)
      PROVE  StatusKnown'
  BY <1>5 DEF Read, OneHandler, StatusKnown, TypeOK
<1>6. ASSUME NEW h \in Handlers, Recheck(h) PROVE StatusKnown'
  BY <1>1, <1>6 DEF Recheck, OneHandler, StatusKnown, TypeOK, locals
<1>7. ASSUME NEW h \in Handlers, WriteApproved(h) PROVE StatusKnown'
  BY <1>1, <1>7 DEF WriteApproved, OneHandler, StatusKnown, JobKnown, Known, TypeOK, locals
<1>8. ASSUME NEW h \in Handlers, MoveAndReset(h) \/ MoveSlot(h) \/ WriteRejected(h) \/ Fail(h)
      PROVE  StatusKnown'
  BY <1>1, <1>8 DEF MoveAndReset, MoveSlot, WriteRejected, Fail
<1>9. ASSUME NEW h \in Handlers, Upsert(h) PROVE StatusKnown'
  BY <1>1, <1>9 DEF Upsert, OneHandler, StatusKnown
<1>10. CASE UNCHANGED <<pc, req, status>>
  BY <1>10 DEF StatusKnown
<1> QED
  BY <1>2, <1>3, <1>4, <1>5, <1>6, <1>7, <1>8, <1>9, <1>10
  DEF Next, Approve, Reject, RecordActual, Snapshot, vars, locals

\* A request that is granted stays so and keeps what it asks for, and slots are
\* moved to a plan or to the window of a granted request.
LEMMA ExplainedNext ==
  ASSUME OneHandler, IInv, StatusKnown, SlotsExplained, [Next]_vars PROVE SlotsExplained'
<1> USE DEF IInv
<1> DEFINE Granted(r) == status[r] \in {"approved", "auto_approved"}
<1>1. \A r \in Requests : Granted(r) => Granted(r)' /\ asked'[r] = asked[r]
  <2>1. ASSUME NEW h \in Handlers, NEW q \in Requests, Insert(h, q)
        PROVE  \A r \in Requests : Granted(r) => Granted(r)' /\ asked'[r] = asked[r]
    BY <2>1, BreaksAssumption DEF Insert, TypeOK
  <2>2. ASSUME NEW h \in Handlers, WriteApproved(h) \/ WriteRejected(h)
        PROVE  \A r \in Requests : Granted(r) => Granted(r)' /\ asked'[r] = asked[r]
    BY <2>2 DEF WriteApproved, WriteRejected, StatusKnown, JobKnown, Known, TypeOK
  <2>3. CASE UNCHANGED <<status, asked>>
    BY <2>3
  <2> QED
    BY <2>1, <2>2, <2>3
    DEF Next, Submit, ReadLive, MoveAndReset, Approve, Reject, Read, Recheck, MoveSlot, Generate,
        Upsert, RecordActual, Snapshot, Fail, vars
<1> SUFFICES ASSUME NEW s \in Slots, planned'[s] # None
             PROVE  \/ \E p \in Plans : planned'[s] = p[s]
                    \/ \E r \in Requests :
                          Granted(r)' /\ asked'[r] = [slot |-> s, window |-> planned'[s]]
  BY DEF SlotsExplained
<1>2. CASE planned'[s] = planned[s]
  BY <1>1, <1>2 DEF SlotsExplained
<1>3. ASSUME NEW h \in Handlers, MoveAndReset(h) \/ MoveSlot(h), planned'[s] # planned[s]
      PROVE  \E r \in Requests : Granted(r)' /\ asked'[r] = [slot |-> s, window |-> planned'[s]]
  <2>1. /\ req[h] \in Requests /\ asked[req[h]] = job[h] /\ job[h] \in Jobs
        /\ Granted(req[h])
    BY <1>3 DEF MoveAndReset, MoveSlot, JobKnown, Known, StatusKnown
  <2>2. job[h].slot = s /\ planned'[s] = job[h].window
    BY <1>3 DEF MoveAndReset, MoveSlot, TypeOK
  <2>3. job[h] = [slot |-> s, window |-> planned'[s]]
    BY <2>1, <2>2 DEF Jobs
  <2> QED
    BY <1>1, <2>1, <2>3
<1>4. ASSUME NEW h \in Handlers, Upsert(h), planned'[s] # planned[s]
      PROVE  \E p \in Plans : planned'[s] = p[s]
  BY <1>4 DEF Upsert, JobKnown, Known, TypeOK
<1> QED
  BY <1>2, <1>3, <1>4
  DEF Next, Submit, ReadLive, Insert, Approve, Reject, Read, Recheck, WriteApproved, WriteRejected,
      Generate, RecordActual, Snapshot, Fail, vars

-----------------------------------------------------------------------------
(* The theorems.                                                           *)

LEMMA InvAlways == Spec => []IInv
<1>1. Init => IInv
  BY InvInit
<1>2. IInv /\ [Next]_vars => IInv'
  BY InvNext
<1> QED
  BY <1>1, <1>2, PTL DEF Spec

\* Slots, requests and the locals of calls keep their types, with any number of
\* calls at a time.
THEOREM TypeCorrect == Spec => []TypeOK
<1>1. IInv => TypeOK
  BY DEF IInv
<1> QED
  BY InvAlways, <1>1, PTL

\* A slot lies where a plan or a granted request has put it (approveRequest,
\* submitRequest, generate), as long as one call comes after the other.
THEOREM SlotsAlwaysExplained == ASSUME OneHandler PROVE Spec => []SlotsExplained
<1>1. Init => OneInv
  BY InvInit
<1>2. IInv /\ OneInv /\ [Next]_vars => OneInv'
  BY StatusNext, ExplainedNext DEF OneInv
<1>3. OneInv => SlotsExplained
  BY DEF OneInv
<1> QED
  BY InvAlways, <1>1, <1>2, <1>3, PTL DEF Spec

-----------------------------------------------------------------------------
(* What a grant has read of the coverage still holds when the slot moves.  *)

Covered(h) ==
    /\ pc[h] \in {"readLive", "insert"} /\ fits[h] => Allows(job[h].window, 0)
    /\ pc[h] = "moveAndReset" => Allows(job[h].window, 0)
    /\ pc[h] \in {"approve", "moveSlot"} => Allows(job[h].window, -1)

CoverageKnown == \A h \in Handlers : Covered(h)

LEMMA AllowsFrame ==
  ASSUME UNCHANGED <<planned, marked>>, NEW w, NEW least, Allows(w, least)
  PROVE  Allows(w, least)'
BY DEF Allows, Gap, OnBreak, Within

LEMMA CoverageNext == ASSUME OneHandler, IInv, CoverageKnown, [Next]_vars PROVE CoverageKnown'
<1> USE DEF IInv
<1> SUFFICES ASSUME NEW h \in Handlers PROVE Covered(h)'
  BY DEF CoverageKnown
<1>0. Covered(h) /\ \A g \in Handlers : g = h
  BY DEF CoverageKnown, OneHandler
<1>1. ASSUME Return(h) PROVE Covered(h)'
  BY <1>1 DEF Return, Covered, TypeOK
<1>2. ASSUME NEW w \in Windows, NEW s \in Slots \cup {None}, Submit(h, s, w)
      PROVE  Covered(h)'
  <2>1. /\ pc'[h] = "readLive" /\ job'[h] = [slot |-> s, window |-> w]
        /\ fits'[h] <=> Allows(w, 0)
        /\ UNCHANGED <<planned, marked>>
    <3>1. Allows(w, 0) \in BOOLEAN
      BY Zenon DEF Allows
    <3> QED
      BY <1>2, <3>1 DEF Submit, TypeOK
  <2>2. Allows(w, 0) => Allows(w, 0)'
    BY <2>1, AllowsFrame
  <2>3. job'[h].window = w
    BY <2>1
  <2>4. Allows(w, 0)' => Allows(job[h].window, 0)'
    BY <2>3 DEF Allows, Gap, OnBreak, Within
  <2> QED
    BY <2>1, <2>2, <2>4 DEF Covered
<1>3. ASSUME UNCHANGED <<planned, marked, job>>, NEW least, Allows(job[h].window, least)
      PROVE  Allows(job[h].window, least)'
  BY <1>3 DEF Allows, Gap, OnBreak, Within
<1>4. CASE ReadLive(h)
  <2>1. /\ pc[h] = "readLive" /\ pc'[h] = "insert" /\ UNCHANGED <<planned, marked, job>>
        /\ fits'[h] => fits[h]
    BY <1>4 DEF ReadLive, TypeOK
  <2> QED
    BY <1>0, <1>3, <2>1 DEF Covered
<1>5. ASSUME NEW r \in Requests, Insert(h, r) PROVE Covered(h)'
  <2>1. CASE Return(h)
    BY <1>1, <2>1
  <2>2. CASE fits[h] /\ pc' = [pc EXCEPT ![h] = "moveAndReset"] /\ UNCHANGED job
    <3>1. pc[h] = "insert" /\ pc'[h] = "moveAndReset" /\ UNCHANGED <<planned, marked>>
      BY <1>5, <2>2 DEF Insert, TypeOK
    <3> QED
      BY <1>0, <1>3, <2>2, <3>1 DEF Covered
  <2> QED
    BY <1>5, <2>1, <2>2 DEF Insert
<1>6. ASSUME NEW r \in Requests, NEW step \in {"recheck", "reject"}, Read(h, r, step)
      PROVE  Covered(h)'
  BY <1>6 DEF Read, Covered, TypeOK
<1>7. CASE Recheck(h)
  <2>1. CASE Return(h)
    BY <1>1, <2>1
  <2>2. CASE Allows(job[h].window, -1) /\ pc' = [pc EXCEPT ![h] = "approve"] /\ UNCHANGED locals
    <3>1. pc'[h] = "approve" /\ UNCHANGED <<planned, marked, job>>
      BY <1>7, <2>2 DEF Recheck, TypeOK, locals
    <3> QED
      BY <1>3, <2>2, <3>1 DEF Covered
  <2> QED
    BY <1>7, <2>1, <2>2 DEF Recheck
<1>8. CASE WriteApproved(h)
  <2>1. CASE Return(h)
    BY <1>1, <2>1
  <2>2. CASE pc' = [pc EXCEPT ![h] = "moveSlot"] /\ UNCHANGED locals
    <3>1. pc[h] = "approve" /\ pc'[h] = "moveSlot" /\ UNCHANGED <<planned, marked, job>>
      BY <1>8, <2>2 DEF WriteApproved, TypeOK, locals
    <3> QED
      BY <1>0, <1>3, <3>1 DEF Covered
  <2> QED
    BY <1>8, <2>1, <2>2 DEF WriteApproved
<1>9. CASE MoveAndReset(h) \/ MoveSlot(h) \/ WriteRejected(h) \/ Fail(h)
  BY <1>1, <1>9 DEF MoveAndReset, MoveSlot, WriteRejected, Fail
<1>10. CASE Generate(h) \/ Upsert(h)
  <2>1. Return(h) \/ pc'[h] = "upsert"
    BY <1>10 DEF Generate, Upsert, TypeOK
  <2> QED
    BY <1>1, <2>1 DEF Covered
<1>11. ASSUME NEW s \in Slots, NEW m \in Marks, RecordActual(h, s, m) PROVE Covered(h)'
  BY <1>11 DEF RecordActual, Covered, locals
<1>12. ASSUME UNCHANGED <<planned, marked, pc, job, fits>> PROVE Covered(h)'
  BY <1>0, <1>3, <1>12 DEF Covered
<1>13. ASSUME NEW q \in Snapshots, Snapshot(q) PROVE Covered(h)'
  BY <1>12, <1>13 DEF Snapshot, locals
<1>14. CASE UNCHANGED vars
  BY <1>12, <1>14 DEF vars, locals
<1> QED
  BY <1>0, <1>2, <1>4, <1>5, <1>6, <1>7, <1>8, <1>9, <1>10, <1>11, <1>13, <1>14
  DEF Next, Approve, Reject

\* Moving one slot takes at most one more agent off an interval.
LEMMA OneMore ==
  ASSUME NEW i \in Intervals, NEW s \in Slots,
         \A t \in Slots \ {s} : planned'[t] = planned[t] /\ marked'[t] = marked[t]
  PROVE  Gap(i) \in Int /\ Gap(i)' \in Int /\ Gap(i)' >= Gap(i) - 1
<1> DEFINE Touching(t) == /\ marked[t] \in {"scheduled", "active"}
                          /\ i[1] <= planned[t][2] /\ i[2] >= planned[t][1]
           Now == {t \in Slots : Touching(t)}
           Then == {t \in Slots : Touching(t)'}
<1>1. IsFiniteSet(Slots) /\ Spare[i] \in Int
  BY BreaksAssumption
<1>2. IsFiniteSet(Now) /\ IsFiniteSet(Then) /\ Cardinality(Now) \in Nat /\ Cardinality(Then) \in Nat
  BY <1>1, FS_Subset, FS_CardinalityType
<1>3. Then \subseteq Now \cup {s}
  OBVIOUS
<1>4. Gap(i) = Spare[i] - Cardinality(Now) /\ Gap(i)' = Spare[i] - Cardinality(Then)
  BY DEF Gap, OnBreak
<1> HIDE DEF Now, Then
<1>5. /\ IsFiniteSet(Now \cup {s})
      /\ Cardinality(Now \cup {s}) = IF s \in Now THEN Cardinality(Now) ELSE Cardinality(Now) + 1
  BY <1>2, FS_AddElement
<1>6. Cardinality(Then) <= Cardinality(Now \cup {s})
  BY <1>3, <1>5, FS_Subset
<1> QED
  BY <1>1, <1>2, <1>4, <1>5, <1>6

\* A grant keeps every interval of its window covered (submitRequest,
\* approveRequest), as long as one call comes after the other.
THEOREM GrantsCovered == ASSUME OneHandler PROVE Spec => GrantsKeepCoverage
<1>1. Init => CoverageKnown
  BY DEF Init, CoverageKnown, Covered
<1>2. IInv /\ CoverageKnown /\ [Next]_vars
        => [\A h \in Handlers :
               /\ Moves(h, "moveAndReset") => \A i \in Within(job[h].window) : Gap(i)' >= 0
               /\ Moves(h, "moveSlot") => \A i \in Within(job[h].window) : Gap(i)' >= -1]_vars
  <2> SUFFICES ASSUME IInv, CoverageKnown, [Next]_vars, NEW h \in Handlers,
                      Moves(h, "moveAndReset") \/ Moves(h, "moveSlot"),
                      NEW i \in Within(job[h].window)
               PROVE  /\ pc[h] = "moveAndReset" => Gap(i)' >= 0
                      /\ pc[h] = "moveSlot" => Gap(i)' >= -1
    BY DEF Moves
  <2>1. MoveAndReset(h) \/ MoveSlot(h)
    <3>1. \A g \in Handlers : g = h
      BY DEF OneHandler
    <3>2. failures \in Nat
      BY BreaksAssumption DEF IInv, TypeOK
    <3> QED
      BY <3>1, <3>2
      DEF Next, Moves, Submit, ReadLive, Insert, Approve, Reject, Read, Recheck, WriteApproved,
          WriteRejected, Generate, Upsert, RecordActual, Snapshot, Fail, vars
  <2>2. i \in Intervals
    BY DEF Within
  <2>3. /\ job[h].slot \in Slots
        /\ \A t \in Slots \ {job[h].slot} : planned'[t] = planned[t] /\ marked'[t] = marked[t]
    BY <2>1 DEF MoveAndReset, MoveSlot, IInv, JobKnown, Known, Jobs, TypeOK
  <2>4. Gap(i) \in Int /\ Gap(i)' \in Int /\ Gap(i)' >= Gap(i) - 1
    BY <2>2, <2>3, OneMore
  <2>5. /\ pc[h] = "moveAndReset" => Gap(i) - 1 >= 0
        /\ pc[h] = "moveSlot" => Gap(i) - 1 >= -1
    BY DEF CoverageKnown, Covered, Allows
  <2> QED
    BY <2>4, <2>5
<1> QED
  BY InvAlways, <1>1, <1>2, CoverageNext, PTL DEF Spec, GrantsKeepCoverage
=============================================================================
