--------------------------- MODULE ShiftSwapProofs ---------------------------
(***************************************************************************)
(* Proofs about ShiftSwap, for any number of handlers, requests, cells and *)
(* shifts, any number of edits and failures.                               *)
(*                                                                         *)
(* The inductive invariant IInv is built in layers, each proved from the   *)
(* ones before: Base (types, and what a handler holds where), Locking      *)
(* (locks and snapshots), Consent (what a status or a program counter says *)
(* about the swap row), TwoEmployees and Histories (what the timelines     *)
(* explain).  Then every step is shown to map to a step of SwapLedger or   *)
(* to a stutter.  The last sections prove the claims of ShiftSwapClaims,   *)
(* which need calls that do not overlap (OneHandler): the second           *)
(* validation and an edit's read are outside of any transaction, so the    *)
(* claims are false of calls that do.                                      *)
(***************************************************************************)
EXTENDS ShiftSwapClaims, FiniteSetTheorems, TLAPS

-----------------------------------------------------------------------------
(* The base layer.                                                         *)

\* Labels of a handler that works on a request whose swap row exists.
WithSwap ==
    {"accept", "acceptStatus", "reject", "rejectStatus", "readSwap", "recheck",
     "lockRequester", "lockTarget", "commit", "markApproved"}

\* What a handler's locals hold at each label.
LocalsOK ==
    \A h \in Handlers :
        /\ pc[h] \in WithSwap \cup {"insertSwap"} <=> req[h] \in Requests
        /\ pc[h] = "insertSwap" =>
              /\ draft[h] \in SwapRow
              /\ ~draft[h].applied /\ ~draft[h].peer_accepted
              /\ draft[h].requester[1] # draft[h].target[1]
        /\ pc[h] \in {"lockTarget", "commit"} => seen[h].mine \in Row
        /\ pc[h] = "commit" => seen[h].theirs \in Row
        /\ pc[h] = "editWrite" => edit[h] \in EditCall

\* A request id nobody has used.
FreshIds ==
    \A r \in Requests : status[r] = None =>
        swaps[r] = None /\ \A h \in Handlers : req[h] # r

\* Between its two INSERTs, createShiftSwap is alone with its request.
HalfCreated ==
    \A h \in Handlers : pc[h] = "insertSwap" =>
        /\ swaps[req[h]] = None
        /\ \A g \in Handlers : req[g] = req[h] => g = h

\* Whoever works on a swap finds its row, and so does whoever may approve it.
SwapsExist ==
    /\ \A h \in Handlers : pc[h] \in WithSwap => swaps[req[h]] # None
    /\ \A r \in Requests : status[r] \in {"pending", "approved"} => swaps[r] # None

Base == TypeOK /\ LocalsOK /\ FreshIds /\ HalfCreated /\ SwapsExist

USE NoneAssumption, RosterAssumption, BoundAssumption DEF Schedulable

LEMMA BaseInit == Init => Base
<1> SUFFICES ASSUME Init PROVE Base
  OBVIOUS
<1>1. TypeOK
  <2>1. cells \in [Cells -> Row]
    BY DEF Init, Row
  <2> QED
    BY <2>1 DEF Init, TypeOK, NothingSeen, Labels
<1>2. LocalsOK
  BY DEF Init, LocalsOK, WithSwap
<1>3. FreshIds
  BY DEF Init, FreshIds
<1>4. HalfCreated
  BY DEF Init, HalfCreated
<1>5. SwapsExist
  BY DEF Init, SwapsExist, WithSwap, Statuses
<1> QED
  BY <1>1, <1>2, <1>3, <1>4, <1>5 DEF Base

LEMMA BaseStutter == ASSUME Base, UNCHANGED vars PROVE Base'
BY DEF vars, Base, TypeOK, LocalsOK, FreshIds, HalfCreated, SwapsExist

\* A row rewritten by an edit or a swap is a row.
LEMMA WrittenType ==
    ASSUME NEW row \in Row, NEW to \in Schedulable,
           NEW by \in Requests \cup {Manual}
    PROVE  Written(row, to, by) \in Row
<1>1. [from |-> row.shift, to |-> to, by |-> by] \in TimelineEntry
  BY DEF TimelineEntry, Row
<1> QED
  BY <1>1 DEF Written, Row

\* Setting one of its stamps leaves a swap row a swap row.
LEMMA StampedType ==
    ASSUME NEW s \in SwapRow
    PROVE  /\ [s EXCEPT !.peer_accepted = TRUE] \in SwapRow
           /\ [s EXCEPT !.peer_rejected = TRUE] \in SwapRow
           /\ [s EXCEPT !.applied = TRUE] \in SwapRow
BY DEF SwapRow

LocalTypes ==
    /\ pc \in [Handlers -> Labels]
    /\ req \in [Handlers -> Requests \cup {None}]
    /\ draft \in [Handlers -> SwapRow \cup {None}]
    /\ seen \in [Handlers -> [mine : Row \cup {None}, theirs : Row \cup {None}]]
    /\ edit \in [Handlers -> EditCall \cup {None}]

LEMMA ReturnType ==
    ASSUME LocalTypes, NEW h \in Handlers, Return(h)
    PROVE  LocalTypes'
BY DEF LocalTypes, Return, NothingSeen, Labels

LEMMA GotoType ==
    ASSUME LocalTypes, NEW h \in Handlers, NEW label \in Labels, Goto(h, label)
    PROVE  LocalTypes'
BY DEF LocalTypes, Goto

LEMMA BaseCreate ==
    ASSUME Base, NEW h \in Handlers, NEW r \in Requests,
           NEW a \in Cells, NEW b \in Cells, CreateShiftSwap(h, r, a, b)
    PROVE  Base'
<1>1. /\ NewSwap(a, b) \in SwapRow
      /\ ~NewSwap(a, b).applied /\ ~NewSwap(a, b).peer_accepted
      /\ NewSwap(a, b).requester = a /\ NewSwap(a, b).target = b
  BY DEF NewSwap, SwapRow, GenderRule, RestRule
<1>2. TypeOK'
  BY <1>1 DEF CreateShiftSwap, bounds, Base, TypeOK, Statuses, Labels
<1>3. LocalsOK'
  BY <1>1 DEF CreateShiftSwap, Base, TypeOK, LocalsOK, WithSwap, Labels
<1>4. FreshIds'
  BY DEF CreateShiftSwap, Base, TypeOK, FreshIds, Statuses
<1>5. HalfCreated'
  BY DEF CreateShiftSwap, Base, TypeOK, FreshIds, HalfCreated
<1>6. SwapsExist'
  BY DEF CreateShiftSwap, Base, TypeOK, SwapsExist, FreshIds, WithSwap
<1> QED
  BY <1>2, <1>3, <1>4, <1>5, <1>6 DEF Base
LEMMA BasePeerAccept ==
    ASSUME Base, NEW h \in Handlers, NEW r \in Requests, PeerAccept(h, r)
    PROVE  Base'
<1>1. TypeOK'
  BY DEF PeerAccept, AssertSwapTarget, Begin, database, bounds, Base, TypeOK, LocalsOK, SwapsExist, Statuses, Labels, WithSwap, NothingSeen
<1>2. LocalsOK'
  BY DEF PeerAccept, AssertSwapTarget, Begin, database, bounds, Base, TypeOK, LocalsOK, SwapsExist, WithSwap, Labels
<1>3. FreshIds'
  BY DEF PeerAccept, AssertSwapTarget, Begin, database, bounds, Base, TypeOK, FreshIds, LocalsOK, WithSwap, Statuses
<1>4. HalfCreated'
  BY DEF PeerAccept, AssertSwapTarget, Begin, database, bounds, Base, TypeOK, LocalsOK, FreshIds, SwapsExist, HalfCreated, WithSwap
<1>5. SwapsExist'
  BY DEF PeerAccept, AssertSwapTarget, Begin, database, bounds, Base, TypeOK, LocalsOK, SwapsExist, WithSwap, Labels, SwapRow
<1> QED
  BY <1>1, <1>2, <1>3, <1>4, <1>5 DEF Base

LEMMA BasePeerReject ==
    ASSUME Base, NEW h \in Handlers, NEW r \in Requests, PeerReject(h, r)
    PROVE  Base'
<1>1. TypeOK'
  BY DEF PeerReject, AssertSwapTarget, Begin, database, bounds, Base, TypeOK, LocalsOK, SwapsExist, Statuses, Labels, WithSwap, NothingSeen
<1>2. LocalsOK'
  BY DEF PeerReject, AssertSwapTarget, Begin, database, bounds, Base, TypeOK, LocalsOK, SwapsExist, WithSwap, Labels
<1>3. FreshIds'
  BY DEF PeerReject, AssertSwapTarget, Begin, database, bounds, Base, TypeOK, FreshIds, LocalsOK, WithSwap, Statuses
<1>4. HalfCreated'
  BY DEF PeerReject, AssertSwapTarget, Begin, database, bounds, Base, TypeOK, LocalsOK, FreshIds, SwapsExist, HalfCreated, WithSwap
<1>5. SwapsExist'
  BY DEF PeerReject, AssertSwapTarget, Begin, database, bounds, Base, TypeOK, LocalsOK, SwapsExist, WithSwap, Labels, SwapRow
<1> QED
  BY <1>1, <1>2, <1>3, <1>4, <1>5 DEF Base

LEMMA BaseApprove ==
    ASSUME Base, NEW h \in Handlers, NEW r \in Requests, Approve(h, r)
    PROVE  Base'
<1>1. TypeOK'
  BY DEF Approve, Begin, database, bounds, Base, TypeOK, LocalsOK, SwapsExist, Statuses, Labels, WithSwap, NothingSeen
<1>2. LocalsOK'
  BY DEF Approve, Begin, database, bounds, Base, TypeOK, LocalsOK, SwapsExist, WithSwap, Labels
<1>3. FreshIds'
  BY DEF Approve, Begin, database, bounds, Base, TypeOK, FreshIds, LocalsOK, WithSwap, Statuses
<1>4. HalfCreated'
  BY DEF Approve, Begin, database, bounds, Base, TypeOK, LocalsOK, FreshIds, SwapsExist, HalfCreated, WithSwap
<1>5. SwapsExist'
  BY DEF Approve, Begin, database, bounds, Base, TypeOK, LocalsOK, SwapsExist, WithSwap, Labels, SwapRow
<1> QED
  BY <1>1, <1>2, <1>3, <1>4, <1>5 DEF Base

LEMMA BaseEditCell ==
    ASSUME Base, NEW h \in Handlers, NEW c \in Cells, NEW s \in Schedulable, EditCell(h, c, s)
    PROVE  Base'
<1>1. TypeOK'
  <2>1. [cell |-> c, to |-> s, row |-> cells[c]] \in EditCall
    BY DEF EditCall, Base, TypeOK
  <2> QED
    BY <2>1 DEF EditCell, database, Base, TypeOK, Labels
<1>2. LocalsOK'
  <2>1. [cell |-> c, to |-> s, row |-> cells[c]] \in EditCall
    BY DEF EditCall, Base, TypeOK
  <2> QED
    BY <2>1 DEF EditCell, database, Base, TypeOK, LocalsOK, WithSwap, Labels
<1>3. FreshIds'
  BY DEF EditCell, database, Base, TypeOK, FreshIds, LocalsOK, WithSwap, Statuses
<1>4. HalfCreated'
  BY DEF EditCell, database, Base, TypeOK, LocalsOK, FreshIds, SwapsExist, HalfCreated, WithSwap
<1>5. SwapsExist'
  BY DEF EditCell, database, Base, TypeOK, LocalsOK, SwapsExist, WithSwap, Labels, SwapRow
<1> QED
  BY <1>1, <1>2, <1>3, <1>4, <1>5 DEF Base

LEMMA BaseInsertSwap ==
    ASSUME Base, NEW h \in Handlers, InsertSwap(h)
    PROVE  Base'
<1>1. TypeOK'
  BY DEF InsertSwap, Return, bounds, Base, TypeOK, LocalsOK, SwapsExist, Statuses, Labels, WithSwap, NothingSeen
<1>2. LocalsOK'
  BY DEF InsertSwap, Return, bounds, Base, TypeOK, LocalsOK, SwapsExist, WithSwap, Labels
<1>3. FreshIds'
  BY DEF InsertSwap, Return, bounds, Base, TypeOK, FreshIds, LocalsOK, WithSwap, Statuses
<1>4. HalfCreated'
  BY DEF InsertSwap, Return, bounds, Base, TypeOK, LocalsOK, FreshIds, SwapsExist, HalfCreated, WithSwap
<1>5. SwapsExist'
  BY DEF InsertSwap, Return, bounds, Base, TypeOK, LocalsOK, SwapsExist, WithSwap, Labels, SwapRow
<1> QED
  BY <1>1, <1>2, <1>3, <1>4, <1>5 DEF Base

LEMMA BaseMarkAccepted ==
    ASSUME Base, NEW h \in Handlers, MarkAccepted(h)
    PROVE  Base'
<1>0. swaps[req[h]] \in SwapRow /\ req[h] \in Requests
  BY DEF MarkAccepted, Base, TypeOK, LocalsOK, SwapsExist, WithSwap
<1>1. TypeOK'
  <2>1. LocalTypes'
    BY GotoType DEF LocalTypes, MarkAccepted, Base, TypeOK, Labels
  <2>2. swaps' \in [Requests -> SwapRow \cup {None}]
    BY <1>0, StampedType DEF MarkAccepted, Base, TypeOK
  <2> QED
    BY <2>1, <2>2 DEF LocalTypes, MarkAccepted, bounds, Base, TypeOK
<1>2. LocalsOK'
  BY DEF MarkAccepted, Goto, bounds, Base, TypeOK, LocalsOK, SwapsExist, WithSwap, Labels
<1>3. FreshIds'
  BY DEF MarkAccepted, Goto, bounds, Base, TypeOK, FreshIds, LocalsOK, WithSwap, Statuses
<1>4. HalfCreated'
  BY DEF MarkAccepted, Goto, bounds, Base, TypeOK, LocalsOK, FreshIds, SwapsExist, HalfCreated, WithSwap
<1>5. SwapsExist'
  <2>1. \A r \in Requests : swaps[r] # None => swaps'[r] # None
    <3>1. swaps'[req[h]] = [swaps[req[h]] EXCEPT !.peer_accepted = TRUE]
      BY <1>0 DEF MarkAccepted, Base, TypeOK
    <3>2. swaps'[req[h]] \in SwapRow
      BY <3>1, <1>0, StampedType
    <3>3. \A r \in Requests \ {req[h]} : swaps'[r] = swaps[r]
      BY <1>0 DEF MarkAccepted, Base, TypeOK
    <3> QED
      BY <3>2, <3>3
  <2> QED
    BY <2>1, <1>0 DEF MarkAccepted, Goto, Base, TypeOK, LocalsOK, SwapsExist, WithSwap
<1> QED
  BY <1>1, <1>2, <1>3, <1>4, <1>5 DEF Base

LEMMA BaseAcceptStatus ==
    ASSUME Base, NEW h \in Handlers, AcceptStatus(h)
    PROVE  Base'
<1>1. TypeOK'
  BY DEF AcceptStatus, Return, bounds, Base, TypeOK, LocalsOK, SwapsExist, Statuses, Labels, WithSwap, NothingSeen
<1>2. LocalsOK'
  BY DEF AcceptStatus, Return, bounds, Base, TypeOK, LocalsOK, SwapsExist, WithSwap, Labels
<1>3. FreshIds'
  BY DEF AcceptStatus, Return, bounds, Base, TypeOK, FreshIds, LocalsOK, WithSwap, Statuses
<1>4. HalfCreated'
  BY DEF AcceptStatus, Return, bounds, Base, TypeOK, LocalsOK, FreshIds, SwapsExist, HalfCreated, WithSwap
<1>5. SwapsExist'
  BY DEF AcceptStatus, Return, bounds, Base, TypeOK, LocalsOK, SwapsExist, WithSwap, Labels, SwapRow
<1> QED
  BY <1>1, <1>2, <1>3, <1>4, <1>5 DEF Base

LEMMA BaseMarkRejected ==
    ASSUME Base, NEW h \in Handlers, MarkRejected(h)
    PROVE  Base'
<1>0. swaps[req[h]] \in SwapRow /\ req[h] \in Requests
  BY DEF MarkRejected, Base, TypeOK, LocalsOK, SwapsExist, WithSwap
<1>1. TypeOK'
  <2>1. LocalTypes'
    BY GotoType DEF LocalTypes, MarkRejected, Base, TypeOK, Labels
  <2>2. swaps' \in [Requests -> SwapRow \cup {None}]
    BY <1>0, StampedType DEF MarkRejected, Base, TypeOK
  <2> QED
    BY <2>1, <2>2 DEF LocalTypes, MarkRejected, bounds, Base, TypeOK
<1>2. LocalsOK'
  BY DEF MarkRejected, Goto, bounds, Base, TypeOK, LocalsOK, SwapsExist, WithSwap, Labels
<1>3. FreshIds'
  BY DEF MarkRejected, Goto, bounds, Base, TypeOK, FreshIds, LocalsOK, WithSwap, Statuses
<1>4. HalfCreated'
  BY DEF MarkRejected, Goto, bounds, Base, TypeOK, LocalsOK, FreshIds, SwapsExist, HalfCreated, WithSwap
<1>5. SwapsExist'
  <2>1. \A r \in Requests : swaps[r] # None => swaps'[r] # None
    <3>1. swaps'[req[h]] = [swaps[req[h]] EXCEPT !.peer_rejected = TRUE]
      BY <1>0 DEF MarkRejected, Base, TypeOK
    <3>2. swaps'[req[h]] \in SwapRow
      BY <3>1, <1>0, StampedType
    <3>3. \A r \in Requests \ {req[h]} : swaps'[r] = swaps[r]
      BY <1>0 DEF MarkRejected, Base, TypeOK
    <3> QED
      BY <3>2, <3>3
  <2> QED
    BY <2>1, <1>0 DEF MarkRejected, Goto, Base, TypeOK, LocalsOK, SwapsExist, WithSwap
<1> QED
  BY <1>1, <1>2, <1>3, <1>4, <1>5 DEF Base

LEMMA BaseRejectStatus ==
    ASSUME Base, NEW h \in Handlers, RejectStatus(h)
    PROVE  Base'
<1>1. TypeOK'
  BY DEF RejectStatus, Return, bounds, Base, TypeOK, LocalsOK, SwapsExist, Statuses, Labels, WithSwap, NothingSeen
<1>2. LocalsOK'
  BY DEF RejectStatus, Return, bounds, Base, TypeOK, LocalsOK, SwapsExist, WithSwap, Labels
<1>3. FreshIds'
  BY DEF RejectStatus, Return, bounds, Base, TypeOK, FreshIds, LocalsOK, WithSwap, Statuses
<1>4. HalfCreated'
  BY DEF RejectStatus, Return, bounds, Base, TypeOK, LocalsOK, FreshIds, SwapsExist, HalfCreated, WithSwap
<1>5. SwapsExist'
  BY DEF RejectStatus, Return, bounds, Base, TypeOK, LocalsOK, SwapsExist, WithSwap, Labels, SwapRow
<1> QED
  BY <1>1, <1>2, <1>3, <1>4, <1>5 DEF Base

LEMMA BaseReadSwap ==
    ASSUME Base, NEW h \in Handlers, ReadSwap(h)
    PROVE  Base'
<1>1. TypeOK'
  <2>1. LocalTypes'
    BY ReturnType, GotoType DEF LocalTypes, ReadSwap, Base, TypeOK, Labels
  <2> QED
    BY <2>1 DEF LocalTypes, ReadSwap, database, bounds, Base, TypeOK
<1>2. LocalsOK'
  BY DEF ReadSwap, Goto, Return, database, bounds, Base, TypeOK, LocalsOK, SwapsExist, WithSwap, Labels
<1>3. FreshIds'
  BY DEF ReadSwap, Goto, Return, database, bounds, Base, TypeOK, FreshIds, LocalsOK, WithSwap, Statuses
<1>4. HalfCreated'
  BY DEF ReadSwap, Goto, Return, database, bounds, Base, TypeOK, LocalsOK, FreshIds, SwapsExist, HalfCreated, WithSwap
<1>5. SwapsExist'
  BY DEF ReadSwap, Goto, Return, database, bounds, Base, TypeOK, LocalsOK, SwapsExist, WithSwap, Labels, SwapRow
<1> QED
  BY <1>1, <1>2, <1>3, <1>4, <1>5 DEF Base

LEMMA BaseRecheck ==
    ASSUME Base, NEW h \in Handlers, Recheck(h)
    PROVE  Base'
<1>1. TypeOK'
  <2>1. LocalTypes'
    BY ReturnType, GotoType DEF LocalTypes, Recheck, Base, TypeOK, Labels
  <2> QED
    BY <2>1 DEF LocalTypes, Recheck, database, bounds, Base, TypeOK
<1>2. LocalsOK'
  BY DEF Recheck, Goto, Return, database, bounds, Base, TypeOK, LocalsOK, SwapsExist, WithSwap, Labels
<1>3. FreshIds'
  BY DEF Recheck, Goto, Return, database, bounds, Base, TypeOK, FreshIds, LocalsOK, WithSwap, Statuses
<1>4. HalfCreated'
  BY DEF Recheck, Goto, Return, database, bounds, Base, TypeOK, LocalsOK, FreshIds, SwapsExist, HalfCreated, WithSwap
<1>5. SwapsExist'
  BY DEF Recheck, Goto, Return, database, bounds, Base, TypeOK, LocalsOK, SwapsExist, WithSwap, Labels, SwapRow
<1> QED
  BY <1>1, <1>2, <1>3, <1>4, <1>5 DEF Base

LEMMA BaseLockRequester ==
    ASSUME Base, NEW h \in Handlers, LockRequester(h)
    PROVE  Base'
<1>0. swaps[req[h]].requester \in Cells
  BY DEF LockRequester, Base, TypeOK, LocalsOK, SwapsExist, WithSwap, SwapRow
<1>1. TypeOK'
  <2>1. seen' \in [Handlers -> [mine : Row \cup {None}, theirs : Row \cup {None}]]
    BY <1>0 DEF LockRequester, Base, TypeOK
  <2> QED
    BY <2>1, <1>0 DEF LockRequester, bounds, Base, TypeOK, Labels
<1>2. LocalsOK'
  <2>1. seen'[h].mine \in Row /\ (\A g \in Handlers \ {h} : seen'[g] = seen[g])
    BY <1>0 DEF LockRequester, Base, TypeOK
  <2>2. seen'[h].mine \in Row
    BY <2>1, <1>0 DEF LockRequester, Base, TypeOK, LocalsOK
  <2> QED
    BY <2>1, <2>2 DEF LockRequester, Base, TypeOK, LocalsOK, WithSwap, Labels
<1>3. FreshIds'
  BY DEF LockRequester, bounds, Base, TypeOK, FreshIds, LocalsOK, WithSwap, Statuses
<1>4. HalfCreated'
  BY DEF LockRequester, bounds, Base, TypeOK, LocalsOK, FreshIds, SwapsExist, HalfCreated, WithSwap
<1>5. SwapsExist'
  BY DEF LockRequester, bounds, Base, TypeOK, LocalsOK, SwapsExist, WithSwap, Labels, SwapRow
<1> QED
  BY <1>1, <1>2, <1>3, <1>4, <1>5 DEF Base

LEMMA BaseLockTarget ==
    ASSUME Base, NEW h \in Handlers, LockTarget(h)
    PROVE  Base'
<1>0. swaps[req[h]].target \in Cells
  BY DEF LockTarget, Base, TypeOK, LocalsOK, SwapsExist, WithSwap, SwapRow
<1>1. TypeOK'
  <2>1. seen' \in [Handlers -> [mine : Row \cup {None}, theirs : Row \cup {None}]]
    BY <1>0 DEF LockTarget, Base, TypeOK
  <2> QED
    BY <2>1, <1>0 DEF LockTarget, bounds, Base, TypeOK, Labels
<1>2. LocalsOK'
  <2>1. seen'[h].theirs \in Row /\ (\A g \in Handlers \ {h} : seen'[g] = seen[g])
    BY <1>0 DEF LockTarget, Base, TypeOK
  <2>2. seen'[h].mine \in Row
    BY <2>1, <1>0 DEF LockTarget, Base, TypeOK, LocalsOK
  <2> QED
    BY <2>1, <2>2 DEF LockTarget, Base, TypeOK, LocalsOK, WithSwap, Labels
<1>3. FreshIds'
  BY DEF LockTarget, bounds, Base, TypeOK, FreshIds, LocalsOK, WithSwap, Statuses
<1>4. HalfCreated'
  BY DEF LockTarget, bounds, Base, TypeOK, LocalsOK, FreshIds, SwapsExist, HalfCreated, WithSwap
<1>5. SwapsExist'
  BY DEF LockTarget, bounds, Base, TypeOK, LocalsOK, SwapsExist, WithSwap, Labels, SwapRow
<1> QED
  BY <1>1, <1>2, <1>3, <1>4, <1>5 DEF Base

LEMMA BaseCommitSwap ==
    ASSUME Base, NEW h \in Handlers, CommitSwap(h)
    PROVE  Base'
<1>0. /\ req[h] \in Requests
      /\ swaps[req[h]] \in SwapRow
      /\ swaps[req[h]].requester \in Cells /\ swaps[req[h]].target \in Cells
      /\ seen[h].mine \in Row /\ seen[h].theirs \in Row
  BY DEF CommitSwap, Base, TypeOK, LocalsOK, SwapsExist, WithSwap, SwapRow
<1>1. TypeOK'
  <2>1. cells' \in [Cells -> Row]
    <3>1. seen[h].mine.shift \in Schedulable /\ seen[h].theirs.shift \in Schedulable
      BY <1>0 DEF Row
    <3>2. /\ Written(seen[h].mine, seen[h].theirs.shift, req[h]) \in Row
          /\ Written(seen[h].theirs, seen[h].mine.shift, req[h]) \in Row
      BY <3>1, <1>0, WrittenType
    <3> QED
      BY <3>2, <1>0 DEF CommitSwap, Base, TypeOK
  <2>2. swaps' \in [Requests -> SwapRow \cup {None}]
    BY <1>0, StampedType DEF CommitSwap, Base, TypeOK
  <2>3. lock' \in [Cells -> Handlers \cup {None}]
    BY DEF CommitSwap, ReleaseLocks, Base, TypeOK
  <2> QED
    BY <2>1, <2>2, <2>3 DEF CommitSwap, bounds, Base, TypeOK, Labels, NothingSeen
<1>2. LocalsOK'
  BY DEF CommitSwap, ReleaseLocks, bounds, Base, TypeOK, LocalsOK, SwapsExist, WithSwap, Labels
<1>3. FreshIds'
  BY DEF CommitSwap, ReleaseLocks, bounds, Base, TypeOK, FreshIds, LocalsOK, WithSwap, Statuses
<1>4. HalfCreated'
  BY DEF CommitSwap, ReleaseLocks, bounds, Base, TypeOK, LocalsOK, FreshIds, SwapsExist, HalfCreated, WithSwap
<1>5. SwapsExist'
  <2>1. \A r \in Requests : swaps[r] # None => swaps'[r] # None
    <3>1. swaps'[req[h]] = [swaps[req[h]] EXCEPT !.applied = TRUE]
      BY <1>0 DEF CommitSwap, Base, TypeOK
    <3>2. swaps'[req[h]] \in SwapRow
      BY <3>1, <1>0, StampedType
    <3>3. \A r \in Requests \ {req[h]} : swaps'[r] = swaps[r]
      BY <1>0 DEF CommitSwap, Base, TypeOK
    <3> QED
      BY <3>2, <3>3
  <2> QED
    BY <2>1, <1>0 DEF CommitSwap, Base, TypeOK, LocalsOK, SwapsExist, WithSwap
<1> QED
  BY <1>1, <1>2, <1>3, <1>4, <1>5 DEF Base

LEMMA BaseMarkApproved ==
    ASSUME Base, NEW h \in Handlers, MarkApproved(h)
    PROVE  Base'
<1>1. TypeOK'
  BY DEF MarkApproved, Return, bounds, Base, TypeOK, LocalsOK, SwapsExist, Statuses, Labels, WithSwap, NothingSeen
<1>2. LocalsOK'
  BY DEF MarkApproved, Return, bounds, Base, TypeOK, LocalsOK, SwapsExist, WithSwap, Labels
<1>3. FreshIds'
  BY DEF MarkApproved, Return, bounds, Base, TypeOK, FreshIds, LocalsOK, WithSwap, Statuses
<1>4. HalfCreated'
  BY DEF MarkApproved, Return, bounds, Base, TypeOK, LocalsOK, FreshIds, SwapsExist, HalfCreated, WithSwap
<1>5. SwapsExist'
  BY DEF MarkApproved, Return, bounds, Base, TypeOK, LocalsOK, SwapsExist, WithSwap, Labels, SwapRow
<1> QED
  BY <1>1, <1>2, <1>3, <1>4, <1>5 DEF Base

LEMMA BaseEditWrite ==
    ASSUME Base, NEW h \in Handlers, EditWrite(h)
    PROVE  Base'
<1>1. TypeOK'
  <2>1. edit[h] \in EditCall
    BY DEF EditWrite, Base, LocalsOK
  <2>2. Written(edit[h].row, edit[h].to, Manual) \in Row
    BY <2>1, WrittenType DEF EditCall
  <2>3. cells' \in [Cells -> Row]
    BY <2>2 DEF EditWrite, Base, TypeOK
  <2>4. LocalTypes'
    BY ReturnType DEF LocalTypes, EditWrite, Base, TypeOK
  <2> QED
    BY <2>3, <2>4 DEF LocalTypes, EditWrite, bounds, Base, TypeOK
<1>2. LocalsOK'
  BY DEF EditWrite, Return, bounds, Base, TypeOK, LocalsOK, SwapsExist, WithSwap, Labels
<1>3. FreshIds'
  BY DEF EditWrite, Return, bounds, Base, TypeOK, FreshIds, LocalsOK, WithSwap, Statuses
<1>4. HalfCreated'
  BY DEF EditWrite, Return, bounds, Base, TypeOK, LocalsOK, FreshIds, SwapsExist, HalfCreated, WithSwap
<1>5. SwapsExist'
  BY DEF EditWrite, Return, bounds, Base, TypeOK, LocalsOK, SwapsExist, WithSwap, Labels, SwapRow
<1> QED
  BY <1>1, <1>2, <1>3, <1>4, <1>5 DEF Base

LEMMA BaseFail ==
    ASSUME Base, NEW h \in Handlers, Fail(h)
    PROVE  Base'
<1>1. TypeOK'
  BY DEF Fail, ReleaseLocks, Return, Base, TypeOK, LocalsOK, SwapsExist, Statuses, Labels, WithSwap, NothingSeen
<1>2. LocalsOK'
  BY DEF Fail, ReleaseLocks, Return, Base, TypeOK, LocalsOK, SwapsExist, WithSwap, Labels
<1>3. FreshIds'
  BY DEF Fail, ReleaseLocks, Return, Base, TypeOK, FreshIds, LocalsOK, WithSwap, Statuses
<1>4. HalfCreated'
  BY DEF Fail, ReleaseLocks, Return, Base, TypeOK, LocalsOK, FreshIds, SwapsExist, HalfCreated, WithSwap
<1>5. SwapsExist'
  BY DEF Fail, ReleaseLocks, Return, Base, TypeOK, LocalsOK, SwapsExist, WithSwap, Labels, SwapRow
<1> QED
  BY <1>1, <1>2, <1>3, <1>4, <1>5 DEF Base

LEMMA BaseDeadlockAbort ==
    ASSUME Base, NEW h \in Handlers, DeadlockAbort(h)
    PROVE  Base'
<1>1. TypeOK'
  BY DEF DeadlockAbort, ReleaseLocks, Return, bounds, Base, TypeOK, LocalsOK, SwapsExist, Statuses, Labels, WithSwap, NothingSeen
<1>2. LocalsOK'
  BY DEF DeadlockAbort, ReleaseLocks, Return, bounds, Base, TypeOK, LocalsOK, SwapsExist, WithSwap, Labels
<1>3. FreshIds'
  BY DEF DeadlockAbort, ReleaseLocks, Return, bounds, Base, TypeOK, FreshIds, LocalsOK, WithSwap, Statuses
<1>4. HalfCreated'
  BY DEF DeadlockAbort, ReleaseLocks, Return, bounds, Base, TypeOK, LocalsOK, FreshIds, SwapsExist, HalfCreated, WithSwap
<1>5. SwapsExist'
  BY DEF DeadlockAbort, ReleaseLocks, Return, bounds, Base, TypeOK, LocalsOK, SwapsExist, WithSwap, Labels, SwapRow
<1> QED
  BY <1>1, <1>2, <1>3, <1>4, <1>5 DEF Base

LEMMA BaseReject ==
    ASSUME Base, NEW r \in Requests, Reject(r)
    PROVE  Base'
<1>1. TypeOK'
  BY DEF Reject, bounds, Base, TypeOK, Statuses
<1>2. (LocalsOK /\ FreshIds /\ HalfCreated)'
  BY DEF Reject, Base, TypeOK, LocalsOK, FreshIds, HalfCreated, Statuses
<1>3. SwapsExist'
  BY DEF Reject, Base, TypeOK, SwapsExist
<1> QED
  BY <1>1, <1>2, <1>3 DEF Base

LEMMA BaseNext == Base /\ [Next]_vars => Base'
BY BaseStutter, BaseCreate, BasePeerAccept, BasePeerReject, BaseApprove,
   BaseEditCell, BaseInsertSwap, BaseMarkAccepted, BaseAcceptStatus,
   BaseMarkRejected, BaseRejectStatus, BaseReadSwap, BaseRecheck,
   BaseLockRequester, BaseLockTarget, BaseCommitSwap, BaseMarkApproved,
   BaseEditWrite, BaseFail, BaseDeadlockAbort, BaseReject
   DEF Next, Call, Step

\* The base layer holds in every reachable state.
LEMMA BaseAlways == Spec => []Base
BY BaseInit, BaseNext, PTL DEF Spec

\* Every table and every local keeps its type, for all constants.
THEOREM TypeCorrect == Spec => []TypeOK
<1>1. Base => TypeOK
  BY DEF Base
<1> QED
  BY <1>1, BaseAlways, PTL

-----------------------------------------------------------------------------
(* The locking layer.                                                      *)

Locking == LocksAreOwned /\ SnapshotsAreCurrent

\* The cells of a swap never change once its row exists.
CellsFixed ==
    \A g \in Handlers : pc[g] \in WithSwap =>
        /\ swaps'[req[g]].requester = swaps[req[g]].requester
        /\ swaps'[req[g]].target = swaps[req[g]].target

\* A step of a handler outside of the transaction that stays outside of it
\* and writes neither a row nor a lock.
LEMMA LockingFrame ==
    ASSUME Base, Base', Locking, NEW h \in Handlers, CellsFixed,
           UNCHANGED <<cells, lock>>,
           pc[h] \notin {"lockTarget", "commit"},
           pc'[h] \notin {"lockTarget", "commit"},
           \A g \in Handlers \ {h} :
               pc'[g] = pc[g] /\ req'[g] = req[g] /\ seen'[g] = seen[g]
    PROVE  Locking'
<1>1. LocksAreOwned'
  BY DEF Locking, LocksAreOwned, CellsFixed, WithSwap
<1>2. SnapshotsAreCurrent'
  BY DEF Locking, SnapshotsAreCurrent, CellsFixed, WithSwap
<1> QED
  BY <1>1, <1>2 DEF Locking

\* The frame applies to every action of a call that is not about locks.
LEMMA LockingCalls ==
    ASSUME Base, Base', Locking, NEW h \in Handlers,
           \/ \E r \in Requests, a, b \in Cells : CreateShiftSwap(h, r, a, b)
           \/ \E r \in Requests : PeerAccept(h, r) \/ PeerReject(h, r) \/ Approve(h, r)
           \/ \E c \in Cells, s \in Schedulable : EditCell(h, c, s)
    PROVE  Locking'
<1>1. CellsFixed
  BY DEF CreateShiftSwap, PeerAccept, PeerReject, Approve, EditCell, database, CellsFixed
<1>2. /\ UNCHANGED <<cells, lock>>
      /\ pc[h] \notin {"lockTarget", "commit"}
      /\ pc'[h] \notin {"lockTarget", "commit"}
      /\ \A g \in Handlers \ {h} :
             pc'[g] = pc[g] /\ req'[g] = req[g] /\ seen'[g] = seen[g]
  BY DEF CreateShiftSwap, PeerAccept, PeerReject, Approve, EditCell, Begin, database,
         Base, TypeOK
<1> QED
  BY <1>1, <1>2, LockingFrame

LEMMA LockingSteps ==
    ASSUME Base, Base', Locking, NEW h \in Handlers,
           \/ InsertSwap(h) \/ MarkAccepted(h) \/ AcceptStatus(h)
           \/ MarkRejected(h) \/ RejectStatus(h)
           \/ ReadSwap(h) \/ Recheck(h) \/ MarkApproved(h)
    PROVE  Locking'
<1>1. CellsFixed
  <2>1. CASE InsertSwap(h)
    BY <2>1 DEF InsertSwap, CellsFixed, WithSwap, Base, TypeOK, LocalsOK, HalfCreated
  <2>2. CASE MarkAccepted(h)
    <3>1. swaps[req[h]] \in SwapRow /\ req[h] \in Requests
      BY <2>2 DEF MarkAccepted, Base, TypeOK, LocalsOK, SwapsExist, WithSwap
    <3> QED
      BY <2>2, <3>1 DEF MarkAccepted, CellsFixed, WithSwap, Base, TypeOK, LocalsOK, SwapRow
  <2>3. CASE MarkRejected(h)
    <3>1. swaps[req[h]] \in SwapRow /\ req[h] \in Requests
      BY <2>3 DEF MarkRejected, Base, TypeOK, LocalsOK, SwapsExist, WithSwap
    <3> QED
      BY <2>3, <3>1 DEF MarkRejected, CellsFixed, WithSwap, Base, TypeOK, LocalsOK, SwapRow
  <2> QED
    BY <2>1, <2>2, <2>3 DEF AcceptStatus, RejectStatus, ReadSwap, Recheck,
       MarkApproved, database, CellsFixed
<1>2. /\ UNCHANGED <<cells, lock>>
      /\ pc[h] \notin {"lockTarget", "commit"}
      /\ pc'[h] \notin {"lockTarget", "commit"}
      /\ \A g \in Handlers \ {h} :
             pc'[g] = pc[g] /\ req'[g] = req[g] /\ seen'[g] = seen[g]
  BY DEF InsertSwap, MarkAccepted, AcceptStatus, MarkRejected, RejectStatus, ReadSwap,
         Recheck, MarkApproved, Goto, Return, database, Base, TypeOK
<1> QED
  BY <1>1, <1>2, LockingFrame

LEMMA LockingLockRequester ==
    ASSUME Base, Locking, NEW h \in Handlers, LockRequester(h)
    PROVE  Locking'
<1>0. swaps[req[h]].requester \in Cells
  BY DEF LockRequester, Base, TypeOK, LocalsOK, SwapsExist, WithSwap, SwapRow
<1>1. LocksAreOwned'
  BY <1>0 DEF LockRequester, Locking, LocksAreOwned, Base, TypeOK
<1>2. SnapshotsAreCurrent'
  <2>1. seen'[h].mine = cells[swaps[req[h]].requester]
    BY <1>0 DEF LockRequester, Base, TypeOK
  <2>2. \A g \in Handlers \ {h} : seen'[g] = seen[g] /\ pc'[g] = pc[g]
    BY DEF LockRequester, Base, TypeOK
  <2>3. pc'[h] = "lockTarget"
    BY DEF LockRequester, Base, TypeOK
  <2> QED
    BY <2>1, <2>2, <2>3 DEF LockRequester, Locking, SnapshotsAreCurrent
<1> QED
  BY <1>1, <1>2 DEF Locking

LEMMA LockingLockTarget ==
    ASSUME Base, Locking, NEW h \in Handlers, LockTarget(h)
    PROVE  Locking'
<1>0. swaps[req[h]].target \in Cells
  BY DEF LockTarget, Base, TypeOK, LocalsOK, SwapsExist, WithSwap, SwapRow
<1>1. LocksAreOwned'
  BY <1>0 DEF LockTarget, Locking, LocksAreOwned, Base, TypeOK
<1>2. SnapshotsAreCurrent'
  <2>1. /\ seen'[h].theirs = cells[swaps[req[h]].target]
        /\ seen'[h].mine = seen[h].mine
    BY <1>0 DEF LockTarget, Base, TypeOK
  <2>2. \A g \in Handlers \ {h} : seen'[g] = seen[g] /\ pc'[g] = pc[g]
    BY DEF LockTarget, Base, TypeOK
  <2>3. seen[h].mine = cells[swaps[req[h]].requester]
    BY DEF LockTarget, Locking, SnapshotsAreCurrent
  <2> QED
    BY <2>1, <2>2, <2>3 DEF LockTarget, Locking, SnapshotsAreCurrent
<1> QED
  BY <1>1, <1>2 DEF Locking

\* What a transaction has locked differs from what another has locked, so a
\* commit leaves the snapshots of the others current.
LEMMA LockingCommitSwap ==
    ASSUME Base, Locking, NEW h \in Handlers, CommitSwap(h)
    PROVE  Locking'
<1>0. /\ req[h] \in Requests
      /\ swaps[req[h]] \in SwapRow
      /\ pc[h] = "commit"
      /\ pc' = [pc EXCEPT ![h] = "markApproved"]
  BY DEF CommitSwap, Base, TypeOK, LocalsOK, SwapsExist, WithSwap
<1>1. \A r \in Requests : swaps'[r].requester = swaps[r].requester
                       /\ swaps'[r].target = swaps[r].target
  BY <1>0 DEF CommitSwap, Base, TypeOK, SwapRow
<1>2. LocksAreOwned'
  <2> SUFFICES ASSUME NEW c \in Cells, NEW g \in Handlers
               PROVE  lock'[c] = g <=>
                        \/ pc'[g] = "lockTarget" /\ c = swaps'[req'[g]].requester
                        \/ pc'[g] = "commit"
                           /\ c \in {swaps'[req'[g]].requester, swaps'[req'[g]].target}
    BY DEF LocksAreOwned
  <2>1. CASE g = h
    BY <2>1, <1>0 DEF CommitSwap, ReleaseLocks, Base, TypeOK
  <2>2. CASE g # h
    <3>1. pc'[g] = pc[g] /\ req'[g] = req[g] /\ (lock'[c] = g <=> lock[c] = g)
      BY <2>2 DEF CommitSwap, ReleaseLocks, Base, TypeOK
    <3>2. CASE pc[g] \in {"lockTarget", "commit"}
      <4>1. req[g] \in Requests
        BY <3>2 DEF Base, LocalsOK, WithSwap
      <4> QED
        BY <3>1, <4>1, <1>1 DEF Locking, LocksAreOwned
    <3>3. CASE pc[g] \notin {"lockTarget", "commit"}
      BY <3>1, <3>3 DEF Locking, LocksAreOwned
    <3> QED
      BY <3>2, <3>3
  <2> QED
    BY <2>1, <2>2
<1>3. SnapshotsAreCurrent'
  <2> SUFFICES ASSUME NEW g \in Handlers, pc'[g] \in {"lockTarget", "commit"}
               PROVE  /\ seen'[g].mine = cells'[swaps'[req'[g]].requester]
                      /\ pc'[g] = "commit" =>
                            seen'[g].theirs = cells'[swaps'[req'[g]].target]
    BY DEF SnapshotsAreCurrent
  <2>1. g # h /\ pc'[g] = pc[g] /\ req'[g] = req[g] /\ seen'[g] = seen[g]
    BY <1>0 DEF CommitSwap, Base, TypeOK
  <2>2. /\ req[g] \in Requests
        /\ swaps[req[g]].requester \in Cells
        /\ swaps[req[g]].target \in Cells
    BY <2>1 DEF Base, TypeOK, LocalsOK, SwapsExist, WithSwap, SwapRow
  <2>3. \A c \in Cells : lock[c] = g => cells'[c] = cells[c]
    <3>1. /\ lock[swaps[req[h]].requester] = h
          /\ lock[swaps[req[h]].target] = h
      BY <1>0 DEF Locking, LocksAreOwned, SwapRow
    <3> QED
      BY <3>1, <2>1 DEF CommitSwap, Base, TypeOK
  <2>4. /\ lock[swaps[req[g]].requester] = g
        /\ pc[g] = "commit" => lock[swaps[req[g]].target] = g
    BY <2>1, <2>2 DEF Locking, LocksAreOwned
  <2> QED
    BY <2>1, <2>2, <2>3, <2>4, <1>1 DEF Locking, SnapshotsAreCurrent
<1> QED
  BY <1>2, <1>3 DEF Locking

\* An edit writes a row that no transaction has locked.
LEMMA LockingEditWrite ==
    ASSUME Base, Locking, NEW h \in Handlers, EditWrite(h)
    PROVE  Locking'
<1>1. LocksAreOwned'
  BY DEF EditWrite, Return, Locking, LocksAreOwned, Base, TypeOK, LocalsOK, WithSwap
<1>2. SnapshotsAreCurrent'
  <2> SUFFICES ASSUME NEW g \in Handlers, pc'[g] \in {"lockTarget", "commit"}
               PROVE  /\ seen'[g].mine = cells'[swaps[req'[g]].requester]
                      /\ pc'[g] = "commit" =>
                            seen'[g].theirs = cells'[swaps[req'[g]].target]
    BY DEF SnapshotsAreCurrent, EditWrite
  <2>1. g # h /\ pc'[g] = pc[g] /\ req'[g] = req[g] /\ seen'[g] = seen[g]
    BY DEF EditWrite, Return, Base, TypeOK
  <2>2. swaps[req[g]].requester \in Cells /\ swaps[req[g]].target \in Cells
    BY <2>1 DEF Base, TypeOK, LocalsOK, SwapsExist, WithSwap, SwapRow
  <2>3. \A c \in Cells : lock[c] = g => cells'[c] = cells[c]
    BY DEF EditWrite, Base, TypeOK
  <2>4. /\ lock[swaps[req[g]].requester] = g
        /\ pc[g] = "commit" => lock[swaps[req[g]].target] = g
    BY <2>1, <2>2 DEF Locking, LocksAreOwned
  <2> QED
    BY <2>1, <2>2, <2>3, <2>4 DEF Locking, SnapshotsAreCurrent
<1> QED
  BY <1>1, <1>2 DEF Locking

\* A handler that is gone holds nothing.
LEMMA LockingGone ==
    ASSUME Base, Locking, NEW h \in Handlers, Fail(h) \/ DeadlockAbort(h)
    PROVE  Locking'
<1>0. /\ ReleaseLocks(h) /\ Return(h)
      /\ UNCHANGED <<swaps, cells>>
  BY DEF Fail, DeadlockAbort
<1>1. pc'[h] = "idle"
      /\ \A g \in Handlers \ {h} :
             pc'[g] = pc[g] /\ req'[g] = req[g] /\ seen'[g] = seen[g]
  BY <1>0 DEF Return, Base, TypeOK
<1>2. \A c \in Cells : /\ lock'[c] # h
                       /\ \A g \in Handlers \ {h} : lock'[c] = g <=> lock[c] = g
  BY <1>0 DEF ReleaseLocks, Base, TypeOK
<1>3. LocksAreOwned'
  BY <1>0, <1>1, <1>2 DEF Locking, LocksAreOwned
<1>4. SnapshotsAreCurrent'
  BY <1>0, <1>1 DEF Locking, SnapshotsAreCurrent
<1> QED
  BY <1>3, <1>4 DEF Locking

LEMMA LockingNext == Base /\ Base' /\ Locking /\ [Next]_vars => Locking'
<1> SUFFICES ASSUME Base, Base', Locking, [Next]_vars PROVE Locking'
  OBVIOUS
<1>1. CASE UNCHANGED vars
  BY <1>1 DEF vars, Locking, LocksAreOwned, SnapshotsAreCurrent
<1>2. ASSUME NEW h \in Handlers, Call(h) PROVE Locking'
  BY <1>2, LockingCalls DEF Call
<1>3. ASSUME NEW h \in Handlers, Step(h) PROVE Locking'
  BY <1>3, LockingSteps, LockingLockRequester, LockingLockTarget,
     LockingCommitSwap, LockingEditWrite DEF Step
<1>4. ASSUME NEW h \in Handlers, Fail(h) \/ DeadlockAbort(h) PROVE Locking'
  BY <1>4, LockingGone
<1>5. ASSUME NEW r \in Requests, Reject(r) PROVE Locking'
  BY <1>5 DEF Reject, Locking, LocksAreOwned, SnapshotsAreCurrent
<1> QED
  BY <1>1, <1>2, <1>3, <1>4, <1>5 DEF Next

LEMMA LockingInit == Init => Locking
BY DEF Init, Locking, LocksAreOwned, SnapshotsAreCurrent

\* Row locks never outlive their transaction, and the rows a transaction of
\* applySwap has read stay as they are until it writes them.
THEOREM LockingCorrect == Spec => [](LocksAreOwned /\ SnapshotsAreCurrent)
<1>1. Locking <=> LocksAreOwned /\ SnapshotsAreCurrent
  BY DEF Locking
<1>2. Base /\ Locking /\ [Next]_vars => (Base /\ Locking)'
  BY BaseNext, LockingNext
<1> QED
  BY BaseInit, LockingInit, <1>1, <1>2, PTL DEF Spec

-----------------------------------------------------------------------------
(* The consent layer.                                                      *)

\* Past gate 1 the colleague has accepted; past the transaction the swap is
\* applied.
Gated ==
    /\ \A h \in Handlers :
        /\ pc[h] \in {"recheck", "lockRequester", "lockTarget", "commit", "markApproved"} =>
              swaps[req[h]].peer_accepted
        /\ pc[h] = "markApproved" => swaps[req[h]].applied
    /\ \A r \in Requests : swaps[r] # None =>
          (swaps[r].applied => swaps[r].peer_accepted)

Consent == Gated /\ ApprovedIsApplied

LEMMA ConsentInit == Init => Consent
BY DEF Init, Consent, Gated, ApprovedIsApplied, Statuses

\* The stamps of a swap row are only ever set.
StampsGrow ==
    \A r \in Requests : swaps[r] # None =>
        /\ swaps'[r] # None
        /\ swaps[r].peer_accepted => swaps'[r].peer_accepted
        /\ swaps'[r].applied => swaps[r].applied

\* A step that sets no 'applied' stamp, enters no gate and approves nothing.
LEMMA ConsentFrame ==
    ASSUME Base, Base', Consent, NEW h \in Handlers, StampsGrow,
           \A r \in Requests : swaps[r] = None /\ swaps'[r] # None => ~swaps'[r].applied,
           \A r \in Requests : swaps[r] # None /\ swaps[r].applied => swaps'[r].applied,
           \A r \in Requests : status'[r] = "approved" => status[r] = "approved",
           \A g \in Handlers \ {h} : pc'[g] = pc[g] /\ req'[g] = req[g],
           \/ pc'[h] \notin {"recheck", "lockRequester", "lockTarget", "commit",
                             "markApproved"}
           \/ /\ req'[h] = req[h] /\ pc'[h] # "markApproved"
              /\ swaps[req[h]] # None /\ swaps[req[h]].peer_accepted
    PROVE  Consent'
<1>1. \A g \in Handlers : pc[g] \in WithSwap => req[g] \in Requests /\ swaps[req[g]] # None
  BY DEF Base, LocalsOK, SwapsExist
<1>2. \A g \in Handlers : pc'[g] \in WithSwap => req'[g] \in Requests
  BY DEF Base, LocalsOK
<1>3. ApprovedIsApplied'
  BY DEF Consent, ApprovedIsApplied, StampsGrow
<1>4. Gated'
  <2>1. \A r \in Requests : swaps'[r] # None =>
            (swaps'[r].applied => swaps'[r].peer_accepted)
    BY DEF Consent, Gated, StampsGrow
  <2>2. \A g \in Handlers \ {h} :
          /\ pc'[g] \in {"recheck", "lockRequester", "lockTarget", "commit", "markApproved"} =>
                swaps'[req'[g]].peer_accepted
          /\ pc'[g] = "markApproved" => swaps'[req'[g]].applied
    BY <1>1 DEF Consent, Gated, StampsGrow, WithSwap
  <2>3. /\ pc'[h] \in {"recheck", "lockRequester", "lockTarget", "commit", "markApproved"} =>
              swaps'[req'[h]].peer_accepted
        /\ pc'[h] # "markApproved"
    BY <1>2 DEF StampsGrow, WithSwap
  <2> QED
    BY <2>1, <2>2, <2>3 DEF Gated
<1> QED
  BY <1>3, <1>4 DEF Consent

LEMMA ConsentCalls ==
    ASSUME Base, Base', Consent, NEW h \in Handlers,
           \/ \E r \in Requests, a, b \in Cells : CreateShiftSwap(h, r, a, b)
           \/ \E r \in Requests : PeerAccept(h, r) \/ PeerReject(h, r) \/ Approve(h, r)
           \/ \E c \in Cells, s \in Schedulable : EditCell(h, c, s)
    PROVE  Consent'
<1>1. UNCHANGED swaps
  BY DEF CreateShiftSwap, PeerAccept, PeerReject, Approve, EditCell, database
<1>2. StampsGrow
  BY <1>1 DEF StampsGrow
<1>3. \A r \in Requests : status'[r] = "approved" => status[r] = "approved"
  BY DEF CreateShiftSwap, PeerAccept, PeerReject, Approve, EditCell, database,
         Base, TypeOK
<1>4. /\ \A g \in Handlers \ {h} : pc'[g] = pc[g] /\ req'[g] = req[g]
      /\ pc'[h] \notin {"recheck", "lockRequester", "lockTarget", "commit", "markApproved"}
  BY DEF CreateShiftSwap, PeerAccept, PeerReject, Approve, EditCell, Begin, Base, TypeOK
<1> QED
  BY <1>1, <1>2, <1>3, <1>4, ConsentFrame

\* The swap row a handler at one of these labels works on.
LEMMA OwnSwap ==
    ASSUME Base, NEW h \in Handlers, pc[h] \in WithSwap
    PROVE  req[h] \in Requests /\ swaps[req[h]] \in SwapRow
BY DEF Base, TypeOK, LocalsOK, SwapsExist

LEMMA ConsentStamp ==
    ASSUME Base, Base', Consent, NEW h \in Handlers, MarkAccepted(h) \/ MarkRejected(h)
    PROVE  Consent'
<1>1. req[h] \in Requests /\ swaps[req[h]] \in SwapRow
  BY OwnSwap DEF MarkAccepted, MarkRejected, WithSwap
<1>2. /\ swaps'[req[h]] \in SwapRow
      /\ swaps[req[h]].peer_accepted => swaps'[req[h]].peer_accepted
      /\ swaps'[req[h]].applied = swaps[req[h]].applied
      /\ \A r \in Requests \ {req[h]} : swaps'[r] = swaps[r]
  <2>1. \/ swaps'[req[h]] = [swaps[req[h]] EXCEPT !.peer_accepted = TRUE]
        \/ swaps'[req[h]] = [swaps[req[h]] EXCEPT !.peer_rejected = TRUE]
    BY <1>1 DEF MarkAccepted, MarkRejected, Base, TypeOK
  <2>2. \A r \in Requests \ {req[h]} : swaps'[r] = swaps[r]
    BY <1>1 DEF MarkAccepted, MarkRejected, Base, TypeOK
  <2>3. swaps'[req[h]] \in SwapRow
    BY <2>1, <1>1, StampedType
  <2>4. /\ swaps[req[h]].peer_accepted => swaps'[req[h]].peer_accepted
        /\ swaps'[req[h]].applied = swaps[req[h]].applied
    BY <2>1, <1>1 DEF SwapRow
  <2> QED
    BY <2>2, <2>3, <2>4
<1>3. StampsGrow
  BY <1>1, <1>2 DEF StampsGrow
<1>4. /\ \A g \in Handlers \ {h} : pc'[g] = pc[g] /\ req'[g] = req[g]
      /\ pc'[h] \notin {"recheck", "lockRequester", "lockTarget", "commit", "markApproved"}
      /\ UNCHANGED status
  BY DEF MarkAccepted, MarkRejected, Goto, Base, TypeOK
<1> QED
  BY <1>1, <1>2, <1>3, <1>4, ConsentFrame

\* INSERT of a swap row: nobody has passed a gate with it.
LEMMA ConsentInsertSwap ==
    ASSUME Base, Base', Consent, NEW h \in Handlers, InsertSwap(h)
    PROVE  Consent'
<1>1. /\ req[h] \in Requests
      /\ swaps[req[h]] = None
      /\ \A r \in Requests \ {req[h]} : swaps'[r] = swaps[r]
      /\ UNCHANGED status
      /\ pc'[h] = "idle"
      /\ \A g \in Handlers \ {h} : pc'[g] = pc[g] /\ req'[g] = req[g] /\ req[g] # req[h]
  BY DEF InsertSwap, Return, Base, TypeOK, LocalsOK, HalfCreated
<1>2. swaps'[req[h]] = draft[h] /\ ~draft[h].applied
  BY <1>1 DEF InsertSwap, Base, TypeOK, LocalsOK
<1>3. StampsGrow
  BY <1>1 DEF StampsGrow
<1> QED
  BY <1>1, <1>2, <1>3, ConsentFrame

\* Steps that change no swap row.
LEMMA ConsentQuiet ==
    ASSUME Base, Base', Consent, NEW h \in Handlers,
           \/ AcceptStatus(h) \/ RejectStatus(h) \/ ReadSwap(h) \/ Recheck(h)
           \/ LockRequester(h) \/ LockTarget(h) \/ EditWrite(h)
           \/ Fail(h) \/ DeadlockAbort(h)
    PROVE  Consent'
<1>1. UNCHANGED swaps /\ StampsGrow
  BY DEF AcceptStatus, RejectStatus, ReadSwap, Recheck, LockRequester, LockTarget,
         EditWrite, Fail, DeadlockAbort, database, StampsGrow
<1>2. \A r \in Requests : status'[r] = "approved" => status[r] = "approved"
  BY DEF AcceptStatus, RejectStatus, ReadSwap, Recheck, LockRequester, LockTarget,
         EditWrite, Fail, DeadlockAbort, database, Base, TypeOK
<1>3. \A g \in Handlers \ {h} : pc'[g] = pc[g] /\ req'[g] = req[g]
  BY DEF AcceptStatus, RejectStatus, ReadSwap, Recheck, LockRequester, LockTarget,
         EditWrite, Fail, DeadlockAbort, Goto, Return, Base, TypeOK
<1>4. \/ pc'[h] = "idle"
      \/ /\ req'[h] = req[h] /\ pc'[h] # "markApproved"
         /\ swaps[req[h]] # None /\ swaps[req[h]].peer_accepted
  <2>1. CASE ReadSwap(h)
    BY <2>1 DEF ReadSwap, Goto, Return, PeerAgreed, Base, TypeOK, SwapsExist, WithSwap
  <2>2. CASE Recheck(h) \/ LockRequester(h) \/ LockTarget(h)
    BY <2>2 DEF Recheck, LockRequester, LockTarget, Goto, Return, Base, TypeOK,
       SwapsExist, WithSwap, Consent, Gated
  <2> QED
    BY <2>1, <2>2 DEF AcceptStatus, RejectStatus, EditWrite, Fail, DeadlockAbort,
       Return, Base, TypeOK
<1> QED
  BY <1>1, <1>2, <1>3, <1>4, ConsentFrame

LEMMA ConsentCommitSwap ==
    ASSUME Base, Base', Consent, NEW h \in Handlers, CommitSwap(h)
    PROVE  Consent'
<1>1. /\ req[h] \in Requests /\ swaps[req[h]] \in SwapRow
      /\ swaps[req[h]].peer_accepted
  BY OwnSwap DEF CommitSwap, WithSwap, Consent, Gated
<1>2. /\ swaps'[req[h]] = [swaps[req[h]] EXCEPT !.applied = TRUE]
      /\ \A r \in Requests \ {req[h]} : swaps'[r] = swaps[r]
      /\ UNCHANGED <<status, req>>
      /\ pc' = [pc EXCEPT ![h] = "markApproved"]
  BY <1>1 DEF CommitSwap, Base, TypeOK
<1>3. swaps'[req[h]].applied /\ swaps'[req[h]].peer_accepted /\ swaps'[req[h]] # None
  <2>1. swaps'[req[h]] \in SwapRow
    BY <1>1, <1>2, StampedType
  <2>2. swaps'[req[h]].applied /\ swaps'[req[h]].peer_accepted
    BY <1>1, <1>2 DEF SwapRow
  <2> QED
    BY <2>1, <2>2
<1>4. ApprovedIsApplied'
  BY <1>2, <1>3 DEF Consent, ApprovedIsApplied
<1>5. Gated'
  <2>1. \A r \in Requests : swaps'[r] # None =>
            (swaps'[r].applied => swaps'[r].peer_accepted)
    BY <1>2, <1>3 DEF Consent, Gated
  <2>2. pc'[h] = "markApproved" /\ \A g \in Handlers \ {h} : pc'[g] = pc[g]
    BY <1>2 DEF Base, TypeOK
  <2>3. \A g \in Handlers \ {h} : pc[g] \in WithSwap => req[g] \in Requests
    BY DEF Base, LocalsOK
  <2>4. \A g \in Handlers \ {h} :
          /\ pc'[g] \in {"recheck", "lockRequester", "lockTarget", "commit", "markApproved"} =>
                swaps'[req'[g]].peer_accepted
          /\ pc'[g] = "markApproved" => swaps'[req'[g]].applied
    <3> SUFFICES ASSUME NEW g \in Handlers \ {h},
                        pc[g] \in {"recheck", "lockRequester", "lockTarget", "commit",
                                   "markApproved"}
                 PROVE  /\ swaps'[req[g]].peer_accepted
                        /\ pc[g] = "markApproved" => swaps'[req[g]].applied
      BY <1>2, <2>2
    <3>1. req[g] \in Requests
      BY <2>3 DEF WithSwap
    <3>2. CASE req[g] = req[h]
      BY <3>2, <1>3
    <3>3. CASE req[g] # req[h]
      BY <3>1, <3>3, <1>2 DEF Consent, Gated
    <3> QED
      BY <3>2, <3>3
  <2> QED
    BY <1>2, <1>3, <2>1, <2>2, <2>4 DEF Gated
<1> QED
  BY <1>4, <1>5 DEF Consent

\* The handler that approves has applied.
LEMMA ConsentMarkApproved ==
    ASSUME Base, Consent, NEW h \in Handlers, MarkApproved(h)
    PROVE  Consent'
<1>1. /\ req[h] \in Requests /\ swaps[req[h]] # None
      /\ swaps[req[h]].applied
  BY DEF MarkApproved, Base, LocalsOK, SwapsExist, WithSwap, Consent, Gated
<1>2. ApprovedIsApplied'
  BY <1>1 DEF MarkApproved, Consent, ApprovedIsApplied, Base, TypeOK
<1>3. Gated'
  BY DEF MarkApproved, Return, Consent, Gated, Base, TypeOK
<1> QED
  BY <1>2, <1>3 DEF Consent

LEMMA ConsentNext == Base /\ Base' /\ Consent /\ [Next]_vars => Consent'
<1> SUFFICES ASSUME Base, Base', Consent, [Next]_vars PROVE Consent'
  OBVIOUS
<1>1. CASE UNCHANGED vars
  BY <1>1 DEF vars, Consent, Gated, ApprovedIsApplied
<1>2. ASSUME NEW h \in Handlers, Call(h) PROVE Consent'
  BY <1>2, ConsentCalls DEF Call
<1>3. ASSUME NEW h \in Handlers, Step(h) PROVE Consent'
  BY <1>3, ConsentStamp, ConsentInsertSwap, ConsentQuiet, ConsentCommitSwap,
     ConsentMarkApproved DEF Step
<1>4. ASSUME NEW h \in Handlers, Fail(h) \/ DeadlockAbort(h) PROVE Consent'
  BY <1>4, ConsentQuiet
<1>5. ASSUME NEW r \in Requests, Reject(r) PROVE Consent'
  BY <1>5 DEF Reject, Consent, Gated, ApprovedIsApplied, Base, TypeOK
<1> QED
  BY <1>1, <1>2, <1>3, <1>4, <1>5 DEF Next

\* A swap that reads 'approved' is on the schedule, whatever failed or raced.
THEOREM ApprovedCorrect == Spec => []ApprovedIsApplied
<1>1. Consent => ApprovedIsApplied
  BY DEF Consent
<1>2. Base /\ Consent /\ [Next]_vars => (Base /\ Consent)'
  BY BaseNext, ConsentNext
<1> QED
  BY BaseInit, ConsentInit, <1>1, <1>2, PTL DEF Spec

-----------------------------------------------------------------------------
(* The history layer.                                                      *)

\* Rows are well linked, those an edit has in hand included.
Histories ==
    /\ TimelinesExplainCells
    /\ \A h \in Handlers : pc[h] = "editWrite" => Linked(edit[h].cell, edit[h].row)

\* Appending an entry from the row's shift to the new shift keeps the chain.
LEMMA WrittenLinked ==
    ASSUME NEW c \in Cells, NEW row \in Row, Linked(c, row),
           NEW to \in Schedulable, NEW by \in Requests \cup {Manual}
    PROVE  Linked(c, Written(row, to, by))
<1> DEFINE e == [from |-> row.shift, to |-> to, by |-> by]
           t == row.timeline
           u == Append(t, e)
<1>1. /\ t \in Seq(TimelineEntry) /\ e \in TimelineEntry
      /\ row.shift \in Schedulable
  BY DEF Row, TimelineEntry
<1>2. /\ u # <<>> /\ Len(u) = Len(t) + 1 /\ u[Len(u)] = e
      /\ \A i \in 1 .. Len(t) : u[i] = t[i]
      /\ Len(t) \in Nat
      /\ t = <<>> <=> Len(t) = 0
  BY <1>1
<1>3. u[1].from = Roster[c]
  BY <1>2 DEF Linked
<1>4. \A i \in 1 .. Len(u) - 1 : u[i].to = u[i + 1].from
  <2> SUFFICES ASSUME NEW i \in 1 .. Len(t) PROVE u[i].to = u[i + 1].from
    BY <1>2
  <2>1. CASE i = Len(t)
    BY <2>1, <1>2 DEF Linked
  <2>2. CASE i # Len(t)
    <3>1. i \in 1 .. Len(t) - 1 /\ i + 1 \in 1 .. Len(t)
      BY <2>2, <1>2
    <3> QED
      BY <3>1, <1>2 DEF Linked
  <2> QED
    BY <2>1, <2>2
<1> QED
  BY <1>2, <1>3, <1>4 DEF Linked, Written

\* The two cells of a swap belong to different employees.
TwoEmployees ==
    \A r \in Requests : swaps[r] # None => swaps[r].requester[1] # swaps[r].target[1]

LEMMA TwoEmployeesInit == Init => TwoEmployees
BY DEF Init, TwoEmployees

LEMMA TwoEmployeesNext == Base /\ TwoEmployees /\ [Next]_vars => TwoEmployees'
<1> SUFFICES ASSUME Base, TwoEmployees, [Next]_vars PROVE TwoEmployees'
  OBVIOUS
<1>1. CASE UNCHANGED swaps
  BY <1>1 DEF TwoEmployees
<1>2. ASSUME NEW h \in Handlers, InsertSwap(h) PROVE TwoEmployees'
  <2>1. /\ req[h] \in Requests
        /\ draft[h].requester[1] # draft[h].target[1]
        /\ swaps' = [swaps EXCEPT ![req[h]] = draft[h]]
    BY <1>2 DEF InsertSwap, Base, LocalsOK
  <2> QED
    BY <2>1 DEF TwoEmployees, Base, TypeOK
<1>3. ASSUME NEW h \in Handlers, MarkAccepted(h) \/ MarkRejected(h) \/ CommitSwap(h)
      PROVE TwoEmployees'
  <2>1. req[h] \in Requests /\ swaps[req[h]] \in SwapRow
    BY <1>3, OwnSwap DEF MarkAccepted, MarkRejected, CommitSwap, WithSwap
  <2>2. /\ \A r \in Requests \ {req[h]} : swaps'[r] = swaps[r]
        /\ swaps'[req[h]].requester = swaps[req[h]].requester
        /\ swaps'[req[h]].target = swaps[req[h]].target
    BY <1>3, <2>1 DEF MarkAccepted, MarkRejected, CommitSwap, SwapRow, Base, TypeOK
  <2> QED
    BY <2>1, <2>2 DEF TwoEmployees
<1>4. \/ UNCHANGED swaps
      \/ \E h \in Handlers : InsertSwap(h) \/ MarkAccepted(h) \/ MarkRejected(h)
                             \/ CommitSwap(h)
  <2>1. CASE UNCHANGED vars
    BY <2>1 DEF vars
  <2>2. ASSUME NEW h \in Handlers, Call(h) PROVE UNCHANGED swaps
    BY <2>2 DEF Call, CreateShiftSwap, PeerAccept, PeerReject, Approve, EditCell, database
  <2>3. ASSUME NEW h \in Handlers, Step(h)
        PROVE  \/ UNCHANGED swaps
               \/ InsertSwap(h) \/ MarkAccepted(h) \/ MarkRejected(h) \/ CommitSwap(h)
    BY <2>3 DEF Step, AcceptStatus, RejectStatus, ReadSwap, Recheck, LockRequester,
       LockTarget, MarkApproved, EditWrite, database
  <2>4. ASSUME NEW h \in Handlers, Fail(h) \/ DeadlockAbort(h) PROVE UNCHANGED swaps
    BY <2>4 DEF Fail, DeadlockAbort
  <2>5. ASSUME NEW r \in Requests, Reject(r) PROVE UNCHANGED swaps
    BY <2>5 DEF Reject
  <2> QED
    BY <2>1, <2>2, <2>3, <2>4, <2>5 DEF Next
<1> QED
  BY <1>1, <1>2, <1>3, <1>4

\* What the transaction of h is about to write, from rows that are current.
LEMMA Exchanged ==
    ASSUME Base, Locking, TwoEmployees, NEW h \in Handlers, CommitSwap(h)
    PROVE  LET s == swaps[req[h]] IN
           /\ req[h] \in Requests /\ s \in SwapRow
           /\ s.requester \in Cells /\ s.target \in Cells
           /\ s.requester # s.target
           /\ cells'[s.requester] =
                 Written(cells[s.requester], cells[s.target].shift, req[h])
           /\ cells'[s.target] =
                 Written(cells[s.target], cells[s.requester].shift, req[h])
           /\ \A c \in Cells \ {s.requester, s.target} : cells'[c] = cells[c]
<1> DEFINE s == swaps[req[h]]
<1>1. req[h] \in Requests /\ s \in SwapRow
  BY OwnSwap DEF CommitSwap, WithSwap
<1>2. s.requester \in Cells /\ s.target \in Cells
  BY <1>1 DEF SwapRow
<1>3. s # None
  BY <1>1
<1>4. s.requester # s.target
  BY <1>1, <1>3 DEF TwoEmployees
<1>5. seen[h].mine = cells[s.requester] /\ seen[h].theirs = cells[s.target]
  BY DEF CommitSwap, Locking, SnapshotsAreCurrent
<1>6. cells' = [cells EXCEPT
                  ![s.requester] = Written(cells[s.requester], cells[s.target].shift, req[h]),
                  ![s.target] = Written(cells[s.target], cells[s.requester].shift, req[h])]
  BY <1>5 DEF CommitSwap
<1> QED
  BY <1>1, <1>2, <1>4, <1>6 DEF Base, TypeOK

LEMMA HistoriesInit == Init => Histories
BY DEF Init, Histories, TimelinesExplainCells, Linked

\* A step that writes no cell, and leaves the edits in hand alone.
LEMMA HistoriesFrame ==
    ASSUME Histories, UNCHANGED cells,
           \A g \in Handlers : pc'[g] = "editWrite" => pc[g] = "editWrite" /\ edit'[g] = edit[g]
    PROVE  Histories'
BY DEF Histories, TimelinesExplainCells

LEMMA HistoriesEditCell ==
    ASSUME Base, Histories, NEW h \in Handlers, NEW c \in Cells,
           NEW s \in Schedulable, EditCell(h, c, s)
    PROVE  Histories'
<1>1. edit'[h].cell = c /\ edit'[h].row = cells[c] /\ UNCHANGED cells
  BY DEF EditCell, database, Base, TypeOK
<1>2. \A g \in Handlers \ {h} : pc'[g] = pc[g] /\ edit'[g] = edit[g]
  BY DEF EditCell, Base, TypeOK
<1>3. Linked(c, cells[c])
  BY DEF Histories, TimelinesExplainCells
<1>4. \A g \in Handlers : pc'[g] = "editWrite" => Linked(edit'[g].cell, edit'[g].row)
  BY <1>1, <1>2, <1>3 DEF Histories
<1> QED
  BY <1>1, <1>4 DEF Histories, TimelinesExplainCells

LEMMA HistoriesEditWrite ==
    ASSUME Base, Histories, NEW h \in Handlers, EditWrite(h)
    PROVE  Histories'
<1> DEFINE e == edit[h]
           row == Written(e.row, e.to, Manual)
<1>1. e \in EditCall /\ Linked(e.cell, e.row)
  BY DEF EditWrite, Base, LocalsOK, Histories
<1>2. e.cell \in Cells /\ e.to \in Schedulable /\ e.row \in Row
  BY <1>1 DEF EditCall
<1>3. Linked(e.cell, row)
  BY <1>1, <1>2, WrittenLinked
<1>4. cells'[e.cell] = row /\ \A c \in Cells \ {e.cell} : cells'[c] = cells[c]
  BY <1>2 DEF EditWrite, Base, TypeOK
<1>5. \A g \in Handlers : pc'[g] = "editWrite" => pc[g] = "editWrite" /\ edit'[g] = edit[g]
  BY DEF EditWrite, Return, Base, TypeOK
<1>6. \A c \in Cells : Linked(c, cells'[c])
  BY <1>3, <1>4 DEF Histories, TimelinesExplainCells
<1> QED
  BY <1>5, <1>6 DEF Histories, TimelinesExplainCells, Linked

LEMMA HistoriesCommitSwap ==
    ASSUME Base, Locking, TwoEmployees, Histories, NEW h \in Handlers, CommitSwap(h)
    PROVE  Histories'
<1> DEFINE s == swaps[req[h]]
           a == s.requester
           b == s.target
<1>1. /\ req[h] \in Requests /\ a \in Cells /\ b \in Cells
      /\ cells'[a] = Written(cells[a], cells[b].shift, req[h])
      /\ cells'[b] = Written(cells[b], cells[a].shift, req[h])
      /\ \A c \in Cells \ {a, b} : cells'[c] = cells[c]
  BY Exchanged
<1>2. cells[a] \in Row /\ cells[b] \in Row
  BY <1>1 DEF Base, TypeOK
<1>3. cells[a].shift \in Schedulable /\ cells[b].shift \in Schedulable
  BY <1>2 DEF Row
<1>4. Linked(a, cells[a]) /\ Linked(b, cells[b])
  BY <1>1 DEF Histories, TimelinesExplainCells
<1>5. Linked(a, cells'[a]) /\ Linked(b, cells'[b])
  BY <1>1, <1>2, <1>3, <1>4, WrittenLinked
<1>6. \A c \in Cells : Linked(c, cells'[c])
  BY <1>1, <1>5 DEF Histories, TimelinesExplainCells
<1>7. \A g \in Handlers : pc'[g] = "editWrite" => pc[g] = "editWrite" /\ edit'[g] = edit[g]
  BY DEF CommitSwap, Base, TypeOK
<1> QED
  BY <1>6, <1>7 DEF Histories, TimelinesExplainCells, Linked

LEMMA HistoriesNext ==
    Base /\ Locking /\ TwoEmployees /\ Histories /\ [Next]_vars => Histories'
<1> SUFFICES ASSUME Base, Locking, TwoEmployees, Histories, [Next]_vars PROVE Histories'
  OBVIOUS
<1>1. CASE UNCHANGED vars
  BY <1>1, HistoriesFrame DEF vars
<1>2. ASSUME NEW h \in Handlers, Call(h) PROVE Histories'
  <2>1. CASE \E c \in Cells, s \in Schedulable : EditCell(h, c, s)
    BY <2>1, HistoriesEditCell
  <2>2. CASE \/ \E r \in Requests, a, b \in Cells : CreateShiftSwap(h, r, a, b)
             \/ \E r \in Requests : PeerAccept(h, r) \/ PeerReject(h, r) \/ Approve(h, r)
    BY <2>2, HistoriesFrame DEF CreateShiftSwap, PeerAccept, PeerReject, Approve,
       Begin, database, Base, TypeOK
  <2> QED
    BY <1>2, <2>1, <2>2 DEF Call
<1>3. ASSUME NEW h \in Handlers, Step(h) PROVE Histories'
  <2>1. CASE CommitSwap(h)
    BY <2>1, HistoriesCommitSwap
  <2>2. CASE EditWrite(h)
    BY <2>2, HistoriesEditWrite
  <2>3. CASE InsertSwap(h) \/ AcceptStatus(h) \/ RejectStatus(h) \/ MarkApproved(h)
    BY <2>3, HistoriesFrame DEF InsertSwap, AcceptStatus, RejectStatus, MarkApproved,
       Return, Base, TypeOK
  <2>4. CASE MarkAccepted(h) \/ MarkRejected(h) \/ ReadSwap(h) \/ Recheck(h)
    BY <2>4, HistoriesFrame DEF MarkAccepted, MarkRejected, ReadSwap, Recheck,
       Goto, Return, database, Base, TypeOK
  <2>5. CASE LockRequester(h) \/ LockTarget(h)
    BY <2>5, HistoriesFrame DEF LockRequester, LockTarget, Base, TypeOK
  <2> QED
    BY <1>3, <2>1, <2>2, <2>3, <2>4, <2>5 DEF Step
<1>4. ASSUME NEW h \in Handlers, Fail(h) \/ DeadlockAbort(h) PROVE Histories'
  BY <1>4, HistoriesFrame DEF Fail, DeadlockAbort, Return, Base, TypeOK
<1>5. ASSUME NEW r \in Requests, Reject(r) PROVE Histories'
  BY <1>5, HistoriesFrame DEF Reject
<1> QED
  BY <1>1, <1>2, <1>3, <1>4, <1>5 DEF Next

\* The inductive invariant of everything above.
IInv == Base /\ Locking /\ Consent /\ TwoEmployees /\ Histories

LEMMA Inductive == Spec => []IInv
<1>1. Init => IInv
  BY BaseInit, LockingInit, ConsentInit, TwoEmployeesInit, HistoriesInit DEF IInv
<1>2. IInv /\ [Next]_vars => IInv'
  BY BaseNext, LockingNext, ConsentNext, TwoEmployeesNext, HistoriesNext DEF IInv
<1> QED
  BY <1>1, <1>2, PTL DEF Spec

\* The history getCellTimeline shows explains the cell, however edits, swaps
\* and failures interleave.
THEOREM TimelinesCorrect == Spec => []TimelinesExplainCells
<1>1. IInv => TimelinesExplainCells
  BY DEF IInv, Histories
<1> QED
  BY Inductive, <1>1, PTL

-----------------------------------------------------------------------------
(* Refinement of SwapLedger.                                               *)

\* The ledger's variables, as ShiftSwap holds them.
Offered(r) ==
    IF swaps[r] = None THEN None ELSE <<swaps[r].requester, swaps[r].target>>
Agreed(r) == swaps[r] # None /\ swaps[r].peer_accepted

LedgerSame ==
    /\ \A c \in Cells : cells'[c].shift = cells[c].shift
    /\ \A r \in Requests : Offered(r)' = Offered(r) /\ (Agreed(r)' <=> Agreed(r))

LEMMA LedgerStutter ==
    ASSUME LedgerSame PROVE UNCHANGED Ledger!ledgerVars
<1>1. [c \in Cells |-> cells[c].shift]' = [c \in Cells |-> cells[c].shift]
  BY DEF LedgerSame
<1>2. [r \in Requests |-> Offered(r)]' = [r \in Requests |-> Offered(r)]
  BY DEF LedgerSame
<1>3. {r \in Requests : Agreed(r)}' = {r \in Requests : Agreed(r)}
  BY DEF LedgerSame
<1> QED
  BY <1>1, <1>2, <1>3 DEF Offered, Agreed, Ledger!ledgerVars

LEMMA LedgerInit == Init => Ledger!Init
<1> SUFFICES ASSUME Init PROVE Ledger!Init
  OBVIOUS
<1>1. [c \in Cells |-> cells[c].shift] = Roster
  BY DEF Init
<1>2. \A r \in Requests : swaps[r] = None
  BY DEF Init
<1> QED
  BY <1>1, <1>2 DEF Ledger!Init

\* The second INSERT of createShiftSwap makes the offer.
LEMMA LedgerOffer ==
    ASSUME Base, NEW h \in Handlers, InsertSwap(h)
    PROVE  Ledger!Next
<1>0. /\ req[h] \in Requests /\ swaps[req[h]] = None
      /\ draft[h] \in SwapRow /\ ~draft[h].peer_accepted
      /\ draft[h].requester[1] # draft[h].target[1]
  BY DEF InsertSwap, Base, LocalsOK, HalfCreated
<1>1. PICK r \in Requests, a \in Cells, b \in Cells :
         /\ r = req[h] /\ a = draft[h].requester /\ b = draft[h].target
  BY <1>0 DEF SwapRow
<1>2. /\ swaps[r] = None /\ ~draft[h].peer_accepted
      /\ a[1] # b[1]
  BY <1>0, <1>1
<1>3. /\ swaps'[r] = draft[h] /\ swaps'[r] # None
      /\ \A q \in Requests \ {r} : swaps'[q] = swaps[q]
      /\ UNCHANGED cells
  BY <1>0, <1>1 DEF InsertSwap, Base, TypeOK
<1>4. /\ Offered(r) = None
      /\ Offered(r)' = <<a, b>>
      /\ \A q \in Requests \ {r} : Offered(q)' = Offered(q)
  BY <1>1, <1>2, <1>3 DEF Offered
<1>5. \A q \in Requests : Agreed(q)' <=> Agreed(q)
  BY <1>1, <1>2, <1>3 DEF Agreed
<1>6. [q \in Requests |-> Offered(q)]'
         = [[q \in Requests |-> Offered(q)] EXCEPT ![r] = <<a, b>>]
  BY <1>4
<1>7. {q \in Requests : Agreed(q)}' = {q \in Requests : Agreed(q)}
  BY <1>5
<1>8. [c \in Cells |-> cells[c].shift]' = [c \in Cells |-> cells[c].shift]
  BY <1>3
<1>9. [q \in Requests |-> Offered(q)][r] = None
  BY <1>4
<1>10. Ledger!Offer(r, a, b)
  BY <1>2, <1>6, <1>7, <1>8, <1>9 DEF Ledger!Offer, Offered, Agreed
<1> QED
  BY <1>10 DEF Ledger!Next

\* The first UPDATE of peerAccept is the consent; a second one is a stutter.
LEMMA LedgerConsent ==
    ASSUME Base, NEW h \in Handlers, MarkAccepted(h)
    PROVE  Ledger!Next
<1>0. PICK r \in Requests : r = req[h]
  BY OwnSwap DEF MarkAccepted, WithSwap
<1>1. swaps[r] \in SwapRow
  BY <1>0, OwnSwap DEF MarkAccepted, WithSwap
<1>2. /\ swaps'[r] = [swaps[r] EXCEPT !.peer_accepted = TRUE]
      /\ \A q \in Requests \ {r} : swaps'[q] = swaps[q]
      /\ UNCHANGED cells
  BY <1>0, <1>1 DEF MarkAccepted, Base, TypeOK
<1>3. /\ swaps[r] # None /\ swaps'[r] # None
      /\ swaps'[r].requester = swaps[r].requester
      /\ swaps'[r].target = swaps[r].target
      /\ swaps'[r].peer_accepted
  <2>1. swaps'[r] \in SwapRow
    BY <1>1, <1>2, StampedType
  <2>2. /\ swaps'[r].requester = swaps[r].requester
        /\ swaps'[r].target = swaps[r].target
        /\ swaps'[r].peer_accepted
    BY <1>1, <1>2 DEF SwapRow
  <2> QED
    BY <1>1, <2>1, <2>2
<1>4. Offered(r) \in Cells \X Cells
  BY <1>1, <1>3 DEF Offered, SwapRow
<1>5. [q \in Requests |-> Offered(q)][r] # None
  BY <1>1, <1>4
<1>6. [q \in Requests |-> Offered(q)]' = [q \in Requests |-> Offered(q)]
  BY <1>2, <1>3 DEF Offered
<1>7. {q \in Requests : Agreed(q)}' = {q \in Requests : Agreed(q)} \cup {r}
  <2>1. Agreed(r)'
    BY <1>3 DEF Agreed
  <2>2. \A q \in Requests \ {r} : Agreed(q)' <=> Agreed(q)
    BY <1>2 DEF Agreed
  <2> QED
    BY <2>1, <2>2
<1>8. [c \in Cells |-> cells[c].shift]' = [c \in Cells |-> cells[c].shift]
  BY <1>2
<1>9. Ledger!Consent(r)
  BY <1>5, <1>6, <1>7, <1>8 DEF Ledger!Consent, Offered, Agreed
<1> QED
  BY <1>9 DEF Ledger!Next

LEMMA LedgerRefusal ==
    ASSUME Base, NEW h \in Handlers, MarkRejected(h)
    PROVE  LedgerSame
<1> DEFINE r == req[h]
<1>1. r \in Requests /\ swaps[r] \in SwapRow
  BY OwnSwap DEF MarkRejected, WithSwap
<1>2. /\ swaps'[r] = [swaps[r] EXCEPT !.peer_rejected = TRUE]
      /\ \A q \in Requests \ {r} : swaps'[q] = swaps[q]
      /\ UNCHANGED cells
  BY <1>1 DEF MarkRejected, Base, TypeOK
<1>3. swaps'[r] \in SwapRow
  BY <1>1, <1>2, StampedType
<1>4. /\ swaps'[r].requester = swaps[r].requester
      /\ swaps'[r].target = swaps[r].target
      /\ swaps'[r].peer_accepted = swaps[r].peer_accepted
  BY <1>1, <1>2 DEF SwapRow
<1>5. swaps[r] # None /\ swaps'[r] # None
  BY <1>1, <1>3
<1> QED
  BY <1>2, <1>4, <1>5 DEF LedgerSame, Offered, Agreed

\* The transaction of applySwap exchanges what the two cells hold when it
\* commits, because what it read under lock is still there.
LEMMA LedgerExchange ==
    ASSUME Base, Locking, Consent, TwoEmployees, NEW h \in Handlers, CommitSwap(h)
    PROVE  Ledger!Next
<1>0. PICK r \in Requests, a \in Cells, b \in Cells :
         /\ r = req[h] /\ a = swaps[r].requester /\ b = swaps[r].target
  BY Exchanged
<1>1. /\ swaps[r] \in SwapRow /\ a # b
      /\ cells'[a] = Written(cells[a], cells[b].shift, r)
      /\ cells'[b] = Written(cells[b], cells[a].shift, r)
      /\ \A c \in Cells \ {a, b} : cells'[c] = cells[c]
  BY <1>0, Exchanged
<1>2. swaps[r] # None /\ swaps[r].peer_accepted
  BY <1>0, <1>1 DEF CommitSwap, Consent, Gated
<1>3. /\ swaps'[r] = [swaps[r] EXCEPT !.applied = TRUE]
      /\ \A q \in Requests \ {r} : swaps'[q] = swaps[q]
  BY <1>0, <1>1 DEF CommitSwap, Base, TypeOK
<1>4. /\ swaps'[r] # None
      /\ swaps'[r].requester = a /\ swaps'[r].target = b
      /\ swaps'[r].peer_accepted = swaps[r].peer_accepted
  <2>1. swaps'[r] \in SwapRow
    BY <1>1, <1>3, StampedType
  <2>2. /\ swaps'[r].requester = a /\ swaps'[r].target = b
        /\ swaps'[r].peer_accepted = swaps[r].peer_accepted
    BY <1>0, <1>1, <1>3 DEF SwapRow
  <2> QED
    BY <2>1, <2>2
<1>5. [q \in Requests |-> Offered(q)]' = [q \in Requests |-> Offered(q)]
  <2>1. Offered(r)' = <<a, b>> /\ Offered(r) = <<a, b>>
    BY <1>0, <1>2, <1>4 DEF Offered
  <2>2. \A q \in Requests \ {r} : Offered(q)' = Offered(q)
    BY <1>3 DEF Offered
  <2>3. \A q \in Requests : Offered(q)' = Offered(q)
    BY <2>1, <2>2
  <2> QED
    BY <2>3
<1>6. {q \in Requests : Agreed(q)}' = {q \in Requests : Agreed(q)}
  BY <1>0, <1>2, <1>3, <1>4 DEF Agreed
<1>7. r \in {q \in Requests : Agreed(q)}
  BY <1>2 DEF Agreed
<1>8. [q \in Requests |-> Offered(q)][r] = <<a, b>>
  BY <1>0, <1>2 DEF Offered
<1>9. /\ cells'[a].shift = cells[b].shift
      /\ cells'[b].shift = cells[a].shift
  BY <1>1 DEF Written
<1>10. [c \in Cells |-> cells[c].shift]'
          = [[c \in Cells |-> cells[c].shift] EXCEPT
                ![a] = [c \in Cells |-> cells[c].shift][b],
                ![b] = [c \in Cells |-> cells[c].shift][a]]
  BY <1>1, <1>9
<1>11. Ledger!Exchange(r)
  BY <1>5, <1>6, <1>7, <1>8, <1>10 DEF Ledger!Exchange, Offered, Agreed
<1> QED
  BY <1>11 DEF Ledger!Next

\* The UPDATE of editCell overwrites the one cell.
LEMMA LedgerOverwrite ==
    ASSUME Base, NEW h \in Handlers, EditWrite(h)
    PROVE  Ledger!Next
<1>1. PICK c0 \in Cells, s0 \in Schedulable : c0 = edit[h].cell /\ s0 = edit[h].to
  BY DEF EditWrite, Base, LocalsOK, EditCall
<1>2. /\ cells'[c0].shift = s0
      /\ \A c \in Cells \ {c0} : cells'[c] = cells[c]
      /\ UNCHANGED swaps
  BY <1>1 DEF EditWrite, Written, Base, TypeOK
<1>3. [c \in Cells |-> cells[c].shift]'
         = [[c \in Cells |-> cells[c].shift] EXCEPT ![c0] = s0]
  BY <1>1, <1>2
<1>4. Ledger!Overwrite(c0, s0)
  BY <1>2, <1>3 DEF Ledger!Overwrite
<1> QED
  BY <1>4 DEF Ledger!Next

LEMMA LedgerQuiet ==
    ASSUME UNCHANGED <<swaps, cells>> PROVE LedgerSame
BY DEF LedgerSame, Offered, Agreed

LEMMA LedgerNext == IInv /\ [Next]_vars => [Ledger!Next]_(Ledger!ledgerVars)
<1> SUFFICES ASSUME IInv, [Next]_vars PROVE Ledger!Next \/ UNCHANGED Ledger!ledgerVars
  OBVIOUS
<1> USE DEF IInv
<1>1. CASE UNCHANGED vars
  BY <1>1, LedgerQuiet, LedgerStutter DEF vars
<1>2. ASSUME NEW h \in Handlers, Call(h) PROVE UNCHANGED Ledger!ledgerVars
  BY <1>2, LedgerQuiet, LedgerStutter DEF Call, CreateShiftSwap, PeerAccept,
     PeerReject, Approve, EditCell, database
<1>3. ASSUME NEW h \in Handlers, Step(h)
      PROVE  Ledger!Next \/ UNCHANGED Ledger!ledgerVars
  <2>1. CASE InsertSwap(h)
    BY <2>1, LedgerOffer
  <2>2. CASE MarkAccepted(h)
    BY <2>2, LedgerConsent
  <2>3. CASE MarkRejected(h)
    BY <2>3, LedgerRefusal, LedgerStutter
  <2>4. CASE CommitSwap(h)
    BY <2>4, LedgerExchange
  <2>5. CASE EditWrite(h)
    BY <2>5, LedgerOverwrite
  <2>6. CASE \/ AcceptStatus(h) \/ RejectStatus(h) \/ ReadSwap(h) \/ Recheck(h)
             \/ LockRequester(h) \/ LockTarget(h) \/ MarkApproved(h)
    BY <2>6, LedgerQuiet, LedgerStutter DEF AcceptStatus, RejectStatus, ReadSwap,
       Recheck, LockRequester, LockTarget, MarkApproved, database
  <2> QED
    BY <1>3, <2>1, <2>2, <2>3, <2>4, <2>5, <2>6 DEF Step
<1>4. ASSUME NEW h \in Handlers, Fail(h) \/ DeadlockAbort(h)
      PROVE UNCHANGED Ledger!ledgerVars
  BY <1>4, LedgerQuiet, LedgerStutter DEF Fail, DeadlockAbort
<1>5. ASSUME NEW r \in Requests, Reject(r) PROVE UNCHANGED Ledger!ledgerVars
  BY <1>5, LedgerQuiet, LedgerStutter DEF Reject
<1> QED
  BY <1>1, <1>2, <1>3, <1>4, <1>5 DEF Next

\* The schedule changes only by consented exchanges and single-cell edits:
\* every step of the code is a step of the ledger or leaves it as it is.
THEOREM LedgerCorrect == Spec => ImplementsLedger
<1>1. Init => Ledger!Init
  BY LedgerInit
<1>2. IInv /\ [Next]_vars => [Ledger!Next]_(Ledger!ledgerVars)
  BY LedgerNext
<1> QED
  BY Inductive, <1>1, <1>2, PTL DEF Spec, ImplementsLedger, Ledger!Spec

-----------------------------------------------------------------------------
(* The claims of the comments, for calls that do not overlap.              *)

OneHandler == \A g, h \in Handlers : g = h

\* The only steps that write a cell or read one for an edit.
WritesCell(h) == CommitSwap(h) \/ EditWrite(h)
ReadsCell(h) == \E c \in Cells, s \in Schedulable : EditCell(h, c, s)

LEMMA OtherSteps ==
    ASSUME TypeOK, [Next]_vars, \A h \in Handlers : ~WritesCell(h) /\ ~ReadsCell(h)
    PROVE  /\ UNCHANGED cells
           /\ \A g \in Handlers : pc'[g] = "editWrite" => pc[g] = "editWrite" /\ edit'[g] = edit[g]
<1> DEFINE Quiet == /\ UNCHANGED cells
                    /\ \A g \in Handlers :
                          pc'[g] = "editWrite" => pc[g] = "editWrite" /\ edit'[g] = edit[g]
<1>1. CASE UNCHANGED vars
  BY <1>1 DEF vars
<1>2. ASSUME NEW h \in Handlers, Call(h) PROVE Quiet
  BY <1>2 DEF Call, ReadsCell, CreateShiftSwap, PeerAccept, PeerReject, Approve, Begin, database,
              TypeOK
<1>3. ASSUME NEW h \in Handlers, Step(h) PROVE Quiet
  <2>1. CASE InsertSwap(h) \/ AcceptStatus(h) \/ RejectStatus(h) \/ MarkApproved(h)
    BY <2>1 DEF InsertSwap, AcceptStatus, RejectStatus, MarkApproved, Return, TypeOK
  <2>2. CASE MarkAccepted(h) \/ MarkRejected(h) \/ ReadSwap(h) \/ Recheck(h)
    BY <2>2 DEF MarkAccepted, MarkRejected, ReadSwap, Recheck, Goto, Return, database, TypeOK
  <2>3. CASE LockRequester(h) \/ LockTarget(h)
    BY <2>3 DEF LockRequester, LockTarget, TypeOK
  <2> QED
    BY <1>3, <2>1, <2>2, <2>3 DEF Step, WritesCell
<1>4. ASSUME NEW h \in Handlers, Fail(h) \/ DeadlockAbort(h) PROVE Quiet
  BY <1>4 DEF Fail, DeadlockAbort, Return, TypeOK
<1>5. ASSUME NEW r \in Requests, Reject(r) PROVE Quiet
  BY <1>5 DEF Reject
<1> QED
  BY <1>1, <1>2, <1>3, <1>4, <1>5 DEF Next

\* The row an edit has read is still the row of its cell.
EditsAreCurrent ==
    \A h \in Handlers : pc[h] = "editWrite" =>
        MaxEdits # 0 /\ edit[h].row = cells[edit[h].cell]

LEMMA EditsCurrentNext ==
    ASSUME OneHandler \/ MaxEdits = 0
    PROVE  Base /\ EditsAreCurrent /\ [Next]_vars => EditsAreCurrent'
<1> SUFFICES ASSUME Base, EditsAreCurrent, [Next]_vars PROVE EditsAreCurrent'
  OBVIOUS
<1>1. CASE \A h \in Handlers : ~WritesCell(h) /\ ~ReadsCell(h)
  BY <1>1, OtherSteps DEF EditsAreCurrent, Base
<1>2. ASSUME NEW h \in Handlers, NEW c \in Cells, NEW s \in Schedulable, EditCell(h, c, s)
      PROVE  EditsAreCurrent'
  <2>1. /\ edit'[h].cell = c /\ edit'[h].row = cells[c] /\ UNCHANGED cells /\ MaxEdits # 0
        /\ \A g \in Handlers \ {h} : pc'[g] = pc[g] /\ edit'[g] = edit[g]
    BY <1>2 DEF EditCell, database, Base, TypeOK
  <2> QED
    BY <2>1 DEF EditsAreCurrent
<1>3. ASSUME NEW h \in Handlers, WritesCell(h) PROVE EditsAreCurrent'
  <2>1. pc'[h] # "editWrite" /\ \A g \in Handlers \ {h} : pc'[g] = pc[g]
    BY <1>3 DEF WritesCell, CommitSwap, EditWrite, Return, Base, TypeOK
  <2> QED
    BY <2>1 DEF OneHandler, EditsAreCurrent
<1> QED
  BY <1>1, <1>2, <1>3 DEF ReadsCell

LEMMA EditsCurrentAlways ==
    ASSUME OneHandler \/ MaxEdits = 0
    PROVE  Spec => [](IInv /\ EditsAreCurrent)
<1>1. Init => EditsAreCurrent
  BY DEF Init, EditsAreCurrent
<1>2. IInv => Base
  BY DEF IInv
<1> QED
  BY <1>1, <1>2, EditsCurrentNext, Inductive, PTL DEF Spec

\* Every write appends one entry to the history that is there.
LEMMA CellWritten ==
    ASSUME IInv, EditsAreCurrent, NEW h \in Handlers, WritesCell(h), NEW c \in Cells
    PROVE  \/ cells'[c] = cells[c]
           \/ \E to \in Schedulable :
                 \/ CommitSwap(h) /\ cells'[c] = Written(cells[c], to, req[h])
                 \/ EditWrite(h) /\ cells'[c] = Written(cells[c], to, Manual)
<1>1. cells \in [Cells -> Row] /\ \A d \in Cells : cells[d].shift \in Schedulable
  BY DEF IInv, Base, TypeOK, Row
<1>2. CASE CommitSwap(h)
  <2> DEFINE a == swaps[req[h]].requester
             b == swaps[req[h]].target
  <2>1. /\ a \in Cells /\ b \in Cells
        /\ cells'[a] = Written(cells[a], cells[b].shift, req[h])
        /\ cells'[b] = Written(cells[b], cells[a].shift, req[h])
        /\ \A d \in Cells \ {a, b} : cells'[d] = cells[d]
    BY <1>2, Exchanged DEF IInv
  <2> QED
    BY <1>1, <1>2, <2>1
<1>3. CASE EditWrite(h)
  <2>1. edit[h] \in EditCall /\ edit[h].row = cells[edit[h].cell]
    BY <1>3 DEF EditWrite, IInv, Base, LocalsOK, EditsAreCurrent
  <2>2. edit[h].cell \in Cells /\ edit[h].to \in Schedulable
    BY <2>1 DEF EditCall
  <2>3. cells' = [cells EXCEPT ![edit[h].cell] =
                                  Written(cells[edit[h].cell], edit[h].to, Manual)]
    BY <1>3, <2>1 DEF EditWrite
  <2> QED
    BY <1>1, <1>3, <2>2, <2>3
<1> QED
  BY <1>2, <1>3 DEF WritesCell

LEMMA WrittenPrefix ==
    ASSUME NEW row \in Row, NEW to \in Schedulable, NEW by \in Requests \cup {Manual}
    PROVE  IsPrefix(row.timeline, Written(row, to, by).timeline)
<1> DEFINE t == row.timeline
           e == [from |-> row.shift, to |-> to, by |-> by]
<1>1. t \in Seq(TimelineEntry) /\ e \in TimelineEntry
  BY DEF Row, TimelineEntry
<1>2. Written(row, to, by).timeline = Append(t, e)
  BY DEF Written
<1> HIDE DEF t, e
<1>3. Len(Append(t, e)) = Len(t) + 1 /\ \A i \in 1 .. Len(t) : Append(t, e)[i] = t[i]
  BY <1>1
<1>4. SubSeq(t, 1, Len(t)) = SubSeq(Append(t, e), 1, Len(t))
  BY <1>1, <1>3
<1> QED
  BY <1>1, <1>2, <1>3, <1>4 DEF IsPrefix, t

LEMMA SamePrefix == ASSUME NEW row \in Row PROVE IsPrefix(row.timeline, row.timeline)
BY DEF Row, IsPrefix

\* The history of a cell only grows, as long as calls do not overlap, or no
\* planner edits a cell while swaps run: a swap appends under its lock.
THEOREM HistoryCorrect ==
    ASSUME OneHandler \/ MaxEdits = 0
    PROVE  Spec => HistoryIsAppended
<1>1. IInv /\ EditsAreCurrent /\ [Next]_vars
        => [\A c \in Cells : IsPrefix(cells[c].timeline, cells'[c].timeline)]_vars
  <2> SUFFICES ASSUME IInv, EditsAreCurrent, [Next]_vars, NEW c \in Cells
               PROVE  IsPrefix(cells[c].timeline, cells'[c].timeline)
    OBVIOUS
  <2>1. cells[c] \in Row
    BY DEF IInv, Base, TypeOK
  <2>2. CASE cells'[c] = cells[c]
    BY <2>1, <2>2, SamePrefix
  <2>3. ASSUME NEW h \in Handlers, WritesCell(h), cells'[c] # cells[c]
        PROVE  IsPrefix(cells[c].timeline, cells'[c].timeline)
    <3>1. CommitSwap(h) => req[h] \in Requests
      BY OwnSwap DEF CommitSwap, WithSwap, IInv
    <3> QED
      BY <2>1, <2>3, <3>1, CellWritten, WrittenPrefix
  <2>4. ASSUME NEW h \in Handlers, ReadsCell(h) PROVE UNCHANGED cells
    BY <2>4 DEF ReadsCell, EditCell, database
  <2> QED
    BY <2>2, <2>3, <2>4, OtherSteps DEF IInv, Base
<1> QED
  BY <1>1, EditsCurrentAlways, PTL DEF Spec, HistoryIsAppended

-----------------------------------------------------------------------------
(* What the second validation of an approval has found still holds when    *)
(* the exchange is committed.                                              *)

Validated == {"lockRequester", "lockTarget", "commit"}

Rechecked == \A h \in Handlers : pc[h] \in Validated => StillValid(swaps[req[h]])

LEMMA ValidFrame ==
    ASSUME UNCHANGED <<cells, swaps, req>>, NEW h \in Handlers, StillValid(swaps[req[h]])
    PROVE  StillValid(swaps[req[h]])'
BY DEF StillValid, GenderRule, RestRule, RestAround, AdjacentBefore, AdjacentAfter,
       DatesBefore, DatesAfter

LEMMA RecheckedNext ==
    ASSUME OneHandler PROVE Base /\ Rechecked /\ [Next]_vars => Rechecked'
<1> SUFFICES ASSUME Base, Rechecked, [Next]_vars,
                    NEW h \in Handlers, pc'[h] \in Validated
             PROVE  StillValid(swaps[req[h]])'
  BY DEF Rechecked
<1> DEFINE Same == UNCHANGED <<cells, swaps, req>> /\ StillValid(swaps[req[h]])
<1>1. CASE UNCHANGED vars
  <2>1. Same
    BY <1>1 DEF vars, Rechecked
  <2> QED
    BY <2>1, ValidFrame
<1>2. ASSUME NEW g \in Handlers, Call(g) PROVE FALSE
  <2>1. g = h
    BY DEF OneHandler
  <2> QED
    BY <1>2, <2>1 DEF Call, CreateShiftSwap, PeerAccept, PeerReject, Approve, EditCell, Begin,
                      Validated, Base, TypeOK
<1>3. ASSUME NEW g \in Handlers, Step(g) PROVE Same
  <2>1. g = h
    BY DEF OneHandler
  <2>2. CASE \/ InsertSwap(h) \/ AcceptStatus(h) \/ RejectStatus(h) \/ MarkApproved(h)
             \/ EditWrite(h)
    BY <2>2 DEF InsertSwap, AcceptStatus, RejectStatus, MarkApproved, EditWrite, Return,
                Validated, Base, TypeOK
  <2>3. CASE MarkAccepted(h) \/ MarkRejected(h) \/ ReadSwap(h) \/ CommitSwap(h)
    BY <2>3 DEF MarkAccepted, MarkRejected, ReadSwap, CommitSwap, Goto, Return, Validated,
                Base, TypeOK
  <2>4. CASE Recheck(h)
    BY <2>4 DEF Recheck, Goto, Return, Validated, database, Base, TypeOK
  <2>5. CASE LockRequester(h) \/ LockTarget(h)
    BY <2>5 DEF LockRequester, LockTarget, Validated, Rechecked
  <2> QED
    BY <1>3, <2>1, <2>2, <2>3, <2>4, <2>5 DEF Step
<1>4. ASSUME NEW g \in Handlers, Fail(g) \/ DeadlockAbort(g) PROVE FALSE
  <2>1. g = h
    BY DEF OneHandler
  <2> QED
    BY <1>4, <2>1 DEF Fail, DeadlockAbort, Return, Validated, Base, TypeOK
<1>5. ASSUME NEW r \in Requests, Reject(r) PROVE Same
  BY <1>5 DEF Reject, Rechecked
<1> QED
  BY <1>1, <1>2, <1>3, <1>4, <1>5, ValidFrame DEF Next

LEMMA RecheckedAlways == ASSUME OneHandler PROVE Spec => [](IInv /\ Rechecked)
<1>1. Init => Rechecked
  BY DEF Init, Rechecked, Validated
<1>2. IInv => Base
  BY DEF IInv
<1> QED
  BY <1>1, <1>2, RecheckedNext, Inductive, PTL DEF Spec

\* An exchange never breaks a rule that had passed at submission, as long as
\* calls do not overlap: nothing comes between the validation and the COMMIT.
THEOREM NoNewViolationCorrect == ASSUME OneHandler PROVE Spec => NoNewViolation
<1>1. IInv /\ Rechecked /\ [Next]_vars
        => [\A h \in Handlers : Commits(h) => StillValid(swaps[req[h]])]_vars
  BY DEF Commits, Rechecked, Validated
<1> QED
  BY <1>1, RecheckedAlways, PTL DEF Spec, NoNewViolation

\* Shifts of the catalogue, measured by restMinutes.
CatalogRest ==
    /\ Shifts \subseteq Catalog!Working
    /\ ShortRest = {x \in Shifts \X Shifts : Catalog!RestMinutes(x[1], x[2]) < 10}

\* Ten hours from time of day to time of day leave no rest of 1 to 9 hours.
LEMMA TimeOfDay ==
    ASSUME NEW p \in Catalog!Working, NEW n \in Catalog!Working, Catalog!RestMinutes(p, n) >= 10
    PROVE  Catalog!Rest(p, n) \notin 1 .. 9
<1>1. /\ Catalog!Starts[n] \in 7 .. 23 /\ Catalog!Ends[p] \in 16 .. 32
      /\ p # Catalog!OFF
  BY DEF Catalog!Working, Catalog!Starts, Catalog!Ends, Catalog!OFF
<1>2. ASSUME NEW s \in 7 .. 23, NEW e \in 16 .. 32,
             (IF s <= e % 24 THEN s + 24 - (e % 24) ELSE s - (e % 24)) >= 10
      PROVE  s + 24 - e \notin 1 .. 9
  <2>1. e % 24 = IF e < 24 THEN e ELSE e - 24
    OBVIOUS
  <2> QED
    BY <1>2, <2>1
<1> QED
  BY <1>1, <1>2 DEF Catalog!Rest, Catalog!RestMinutes

\* A cell that receives a shift the rest rule has passed keeps its distance
\* from the days before and after, which the exchange leaves alone.
LEMMA RestKept ==
    ASSUME CatalogRest, cells \in [Cells -> Row], cells' \in [Cells -> Row], NEW c \in Cells, NEW s \in Schedulable,
           RestAround(c, s), cells'[c].shift = s,
           \A d \in Cells \ {c} : d[1] = c[1] => cells'[d] = cells[d]
    PROVE  NoShortRest(c[1], c[2] - 1)' /\ NoShortRest(c[1], c[2])'
<1>1. c = <<c[1], c[2]>> /\ c[2] \in Int /\ \A d \in Cells : d = <<d[1], d[2]>> /\ d[2] \in Int
  BY CellAssumption
<1>2. \A d \in Cells : cells[d].shift \in Schedulable
  BY DEF Row
<1>3. \A x, y \in Shifts : <<x, y>> \notin ShortRest => Catalog!Rest(x, y) \notin 1 .. 9
  <2> SUFFICES ASSUME NEW x \in Shifts, NEW y \in Shifts, <<x, y>> \notin ShortRest
               PROVE  Catalog!Rest(x, y) \notin 1 .. 9
    OBVIOUS
  <2>1. x \in Catalog!Working /\ y \in Catalog!Working /\ ~(Catalog!RestMinutes(x, y) < 10)
    BY DEF CatalogRest
  <2>2. Catalog!Starts[y] \in Int /\ Catalog!Ends[x] \in Int
    BY <2>1 DEF Catalog!Working, Catalog!Starts, Catalog!Ends
  <2>3. Catalog!RestMinutes(x, y) \in Int
    BY <2>2 DEF Catalog!RestMinutes
  <2> QED
    BY <2>1, <2>3, TimeOfDay
<1>4. NoShortRest(c[1], c[2] - 1)'
  <2> DEFINE p == <<c[1], c[2] - 1>>
  <2>1. <<c[1], c[2] - 1 + 1>> = c
    BY <1>1
  <2> SUFFICES ASSUME p \in Cells, cells'[p].shift # Off, s # Off
               PROVE  Catalog!Rest(cells'[p].shift, s) \notin 1 .. 9
    BY <2>1 DEF NoShortRest
  <2>2. p[1] = c[1] /\ p[2] = c[2] - 1 /\ p # c /\ cells'[p] = cells[p]
    BY <1>1
  <2>3. p \in AdjacentBefore(c)
    BY <1>1, <2>2 DEF AdjacentBefore, DatesBefore
  <2>4. <<cells[p].shift, s>> \notin ShortRest
    BY <2>3 DEF RestAround
  <2> QED
    BY <1>2, <1>3, <2>2, <2>4
<1>5. NoShortRest(c[1], c[2])'
  <2> DEFINE n == <<c[1], c[2] + 1>>
  <2> SUFFICES ASSUME n \in Cells, cells'[n].shift # Off, s # Off
               PROVE  Catalog!Rest(s, cells'[n].shift) \notin 1 .. 9
    BY <1>1 DEF NoShortRest
  <2>2. n[1] = c[1] /\ n[2] = c[2] + 1 /\ n # c /\ cells'[n] = cells[n]
    BY <1>1
  <2>3. n \in AdjacentAfter(c)
    BY <1>1, <2>2 DEF AdjacentAfter, DatesAfter
  <2>4. <<s, cells[n].shift>> \notin ShortRest
    BY <2>3 DEF RestAround
  <2> QED
    BY <1>2, <1>3, <2>2, <2>4
<1> QED
  BY <1>4, <1>5

\* An exchange that passed the rest check leaves nobody one to nine hours of
\* rest from one day's shift to the next day's, as long as calls do not
\* overlap.
THEOREM RestCorrect == ASSUME OneHandler, CatalogRest PROVE Spec => RestIsCounted
<1>1. IInv /\ IInv' /\ Rechecked /\ [Next]_vars
        => [\A h \in Handlers : (Commits(h) /\ swaps[req[h]].rest_check_passed) =>
               \A c \in {swaps[req[h]].requester, swaps[req[h]].target} :
                  NoShortRest(c[1], c[2] - 1)' /\ NoShortRest(c[1], c[2])']_vars
  <2> SUFFICES ASSUME IInv, IInv', Rechecked, [Next]_vars, NEW h \in Handlers, Commits(h),
                      swaps[req[h]].rest_check_passed,
                      NEW c \in {swaps[req[h]].requester, swaps[req[h]].target}
               PROVE  NoShortRest(c[1], c[2] - 1)' /\ NoShortRest(c[1], c[2])'
    OBVIOUS
  <2>1. CommitSwap(h)
    <3>1. CASE UNCHANGED vars
      BY <3>1 DEF vars, Commits
    <3>2. ASSUME NEW g \in Handlers, Call(g) \/ Fail(g) \/ DeadlockAbort(g) PROVE FALSE
      <4>1. g = h
        BY DEF OneHandler
      <4> QED
        BY <3>2, <4>1 DEF Call, CreateShiftSwap, PeerAccept, PeerReject, Approve, EditCell, Begin,
                          Fail, DeadlockAbort, Return, Commits, IInv, Base, TypeOK
    <3>3. ASSUME NEW g \in Handlers, Step(g) PROVE CommitSwap(h)
      <4>1. g = h
        BY DEF OneHandler
      <4> QED
        BY <3>3, <4>1 DEF Step, InsertSwap, MarkAccepted, AcceptStatus, MarkRejected, RejectStatus,
                          ReadSwap, Recheck, LockRequester, LockTarget, MarkApproved, EditWrite,
                          Commits
    <3>4. ASSUME NEW r \in Requests, Reject(r) PROVE FALSE
      BY <3>4 DEF Reject, Commits
    <3> QED
      BY <3>1, <3>2, <3>3, <3>4 DEF Next
  <2>2. PICK a \in Cells, b \in Cells : a = swaps[req[h]].requester /\ b = swaps[req[h]].target
    BY <2>1, Exchanged DEF IInv
  <2>3. /\ a # b
        /\ cells'[a] = Written(cells[a], cells[b].shift, req[h])
        /\ cells'[b] = Written(cells[b], cells[a].shift, req[h])
        /\ \A d \in Cells \ {a, b} : cells'[d] = cells[d]
    BY <2>1, <2>2, Exchanged DEF IInv
  <2>4. cells'[a].shift = cells[b].shift /\ cells'[b].shift = cells[a].shift
    BY <2>3 DEF Written
  <2>5. a[1] # b[1]
    BY <2>1, <2>2, OwnSwap DEF TwoEmployees, IInv, CommitSwap, WithSwap
  <2>6. RestAround(a, cells[b].shift) /\ RestAround(b, cells[a].shift)
    BY <2>1, <2>2 DEF Rechecked, Validated, CommitSwap, StillValid, RestRule
  <2>7. cells \in [Cells -> Row] /\ cells' \in [Cells -> Row]
    BY DEF IInv, Base, TypeOK
  <2>8. PICK s \in Schedulable, t \in Schedulable : s = cells[b].shift /\ t = cells[a].shift
    BY <2>7 DEF Row
  <2>9. NoShortRest(a[1], a[2] - 1)' /\ NoShortRest(a[1], a[2])'
    BY <2>3, <2>4, <2>5, <2>6, <2>7, <2>8, RestKept
  <2>10. NoShortRest(b[1], b[2] - 1)' /\ NoShortRest(b[1], b[2])'
    BY <2>3, <2>4, <2>5, <2>6, <2>7, <2>8, RestKept
  <2> QED
    BY <2>2, <2>9, <2>10
<1> QED
  BY <1>1, RecheckedAlways, PTL DEF Spec, RestIsCounted

-----------------------------------------------------------------------------
(* One exchange per approval.                                              *)

EntriesBy(t, r) == {i \in DOMAIN t : t[i].by = r}

LEMMA EntriesAppend ==
    ASSUME NEW t \in Seq(TimelineEntry), NEW e \in TimelineEntry, NEW r \in Requests
    PROVE  /\ Cardinality(EntriesBy(t, r)) \in Nat
           /\ Cardinality(EntriesBy(Append(t, e), r)) =
                 Cardinality(EntriesBy(t, r)) + (IF e.by = r THEN 1 ELSE 0)
<1>1. /\ Len(t) \in Nat /\ DOMAIN t = 1 .. Len(t) /\ DOMAIN Append(t, e) = 1 .. Len(t) + 1
      /\ Append(t, e)[Len(t) + 1] = e /\ \A i \in 1 .. Len(t) : Append(t, e)[i] = t[i]
  OBVIOUS
<1>2. IsFiniteSet(EntriesBy(t, r))
  <2>1. \A n \in Nat : IsFiniteSet(1 .. n)
    BY FS_Interval
  <2>2. EntriesBy(t, r) \subseteq 1 .. Len(t)
    BY <1>1 DEF EntriesBy
  <2> QED
    BY <1>1, <2>1, <2>2, FS_Subset
<1>3. /\ e.by = r => EntriesBy(Append(t, e), r) = EntriesBy(t, r) \cup {Len(t) + 1}
      /\ e.by # r => EntriesBy(Append(t, e), r) = EntriesBy(t, r)
      /\ Len(t) + 1 \notin EntriesBy(t, r)
  BY <1>1 DEF EntriesBy
<1> QED
  BY <1>2, <1>3, FS_AddElement, FS_CardinalityType

\* The one exchange request r allows for is behind it: the request is decided
\* and no call is on the way to exchange it, or a call has exchanged it and has
\* yet to write its status.
Spent(r) ==
    \/ /\ status[r] \in {"approved", "rejected"}
       /\ \A h \in Handlers : req[h] = r => pc[h] \notin WithSwap \ {"markApproved"}
    \/ \E h \in Handlers : req[h] = r /\ pc[h] = "markApproved"

LEMMA SpentKept ==
    ASSUME OneHandler, Base, [Next]_vars, failures' = failures, NEW r \in Requests, Spent(r)
    PROVE  Spent(r)'
<1>1. CASE UNCHANGED vars
  BY <1>1 DEF vars, Spent
<1>2. ASSUME NEW h \in Handlers, Call(h) PROVE Spent(r)'
  <2>1. \A g \in Handlers : g = h
    BY DEF OneHandler
  <2>2. pc[h] = "idle"
    BY <1>2 DEF Call, CreateShiftSwap, PeerAccept, PeerReject, Approve, Begin, EditCell
  <2>3. status[r] \in {"approved", "rejected"}
    BY <2>1, <2>2 DEF Spent
  <2>4. ASSUME NEW q \in Requests, NEW a \in Cells, NEW b \in Cells, CreateShiftSwap(h, q, a, b)
        PROVE  Spent(r)'
    BY <2>1, <2>3, <2>4 DEF CreateShiftSwap, Spent, WithSwap, Base, TypeOK, Statuses
  <2>5. ASSUME NEW q \in Requests, PeerAccept(h, q) \/ PeerReject(h, q) \/ Approve(h, q)
        PROVE  Spent(r)'
    BY <2>1, <2>3, <2>5 DEF PeerAccept, PeerReject, Approve, AssertSwapTarget, Begin, database,
                            Spent, Base, TypeOK
  <2>6. ASSUME NEW c \in Cells, NEW s \in Schedulable, EditCell(h, c, s) PROVE Spent(r)'
    BY <2>1, <2>3, <2>6 DEF EditCell, database, Spent, WithSwap, Base, TypeOK
  <2> QED
    BY <1>2, <2>4, <2>5, <2>6 DEF Call
<1>3. ASSUME NEW h \in Handlers, Step(h) PROVE Spent(r)'
  <2>1. \A g \in Handlers : g = h
    BY DEF OneHandler
  <2>2. CASE MarkApproved(h)
    BY <2>1, <2>2 DEF MarkApproved, Return, Spent, Base, TypeOK, WithSwap
  <2>3. CASE AcceptStatus(h) \/ RejectStatus(h)
    BY <2>1, <2>3 DEF AcceptStatus, RejectStatus, Return, Spent, Base, TypeOK, WithSwap
  <2>4. CASE InsertSwap(h) \/ EditWrite(h)
    BY <2>1, <2>4 DEF InsertSwap, EditWrite, Return, Spent, Base, TypeOK, WithSwap
  <2>5. CASE MarkAccepted(h) \/ MarkRejected(h) \/ ReadSwap(h) \/ Recheck(h)
    BY <2>1, <2>5 DEF MarkAccepted, MarkRejected, ReadSwap, Recheck, Goto, Return, database, Spent,
                      Base, TypeOK, WithSwap
  <2>6. CASE LockRequester(h) \/ LockTarget(h) \/ CommitSwap(h)
    BY <2>1, <2>6 DEF LockRequester, LockTarget, CommitSwap, Spent, Base, TypeOK, WithSwap
  <2> QED
    BY <1>3, <2>2, <2>3, <2>4, <2>5, <2>6 DEF Step
<1>4. ASSUME NEW h \in Handlers, Fail(h) PROVE Spent(r)'
  BY <1>4 DEF Fail, Base, TypeOK
<1>5. ASSUME NEW h \in Handlers, DeadlockAbort(h) PROVE Spent(r)'
  <2>1. \A g \in Handlers : g = h
    BY DEF OneHandler
  <2>2. pc[h] # "markApproved"
    BY <1>5 DEF DeadlockAbort, Deadlocked, WaitsFor
  <2> QED
    BY <1>5, <2>1, <2>2 DEF DeadlockAbort, Return, Spent, Base, TypeOK, WithSwap
<1>6. ASSUME NEW q \in Requests, Reject(q) PROVE Spent(r)'
  BY <1>6 DEF Reject, Spent, Base, TypeOK
<1> QED
  BY <1>1, <1>2, <1>3, <1>4, <1>5, <1>6 DEF Next

\* Only a failure hands out another exchange.
Once ==
    \A r \in Requests, c \in Cells :
        Cardinality(EntriesBy(cells[c].timeline, r)) <= failures + (IF Spent(r) THEN 1 ELSE 0)

LEMMA OnceNext ==
    ASSUME OneHandler PROVE IInv /\ EditsAreCurrent /\ Once /\ [Next]_vars => Once'
<1> SUFFICES ASSUME IInv, EditsAreCurrent, Once, [Next]_vars, NEW r \in Requests, NEW c \in Cells
             PROVE  Cardinality(EntriesBy(cells'[c].timeline, r))
                       <= failures' + (IF Spent(r)' THEN 1 ELSE 0)
  BY DEF Once
<1>1. /\ Base
      /\ failures \in Nat
      /\ cells[c].timeline \in Seq(TimelineEntry)
      /\ Cardinality(EntriesBy(cells[c].timeline, r)) <= failures + (IF Spent(r) THEN 1 ELSE 0)
  BY DEF IInv, Base, TypeOK, Row, Once
<1>2. PICK e \in TimelineEntry : TRUE
  <2>1. Roster[c] \in Schedulable
    OBVIOUS
  <2>2. [from |-> Roster[c], to |-> Roster[c], by |-> Manual] \in TimelineEntry
    BY <2>1 DEF TimelineEntry
  <2> QED
    BY <2>2
<1>3. Cardinality(EntriesBy(cells[c].timeline, r)) \in Nat
  BY <1>1, <1>2, EntriesAppend
<1>4. failures' = failures \/ (failures' = failures + 1 /\ UNCHANGED cells)
  BY DEF Next, Call, Step, CreateShiftSwap, PeerAccept, PeerReject, Approve, EditCell, InsertSwap,
         MarkAccepted, AcceptStatus, MarkRejected, RejectStatus, ReadSwap, Recheck, LockRequester,
         LockTarget, CommitSwap, MarkApproved, EditWrite, Fail, DeadlockAbort, Reject, bounds,
         vars
<1>5. CASE cells'[c] = cells[c]
  BY <1>1, <1>3, <1>4, <1>5, SpentKept
<1>6. ASSUME NEW h \in Handlers, WritesCell(h), cells'[c] # cells[c]
      PROVE  Cardinality(EntriesBy(cells'[c].timeline, r))
                <= failures' + (IF Spent(r)' THEN 1 ELSE 0)
  <2>1. PICK to \in Schedulable, by \in Requests \cup {Manual} :
            /\ cells'[c] = Written(cells[c], to, by)
            /\ \/ CommitSwap(h) /\ by = req[h]
               \/ EditWrite(h) /\ by = Manual
    <3>1. CommitSwap(h) => req[h] \in Requests
      BY <1>1, OwnSwap DEF CommitSwap, WithSwap
    <3> QED
      BY <1>6, <3>1, CellWritten
  <2>2. cells[c].shift \in Schedulable
    BY <1>1 DEF Base, TypeOK, Row
  <2>3. PICK x \in TimelineEntry : x.by = by /\ cells'[c].timeline = Append(cells[c].timeline, x)
    <3>1. [from |-> cells[c].shift, to |-> to, by |-> by] \in TimelineEntry
      BY <2>2 DEF TimelineEntry
    <3> QED
      BY <2>1, <3>1 DEF Written
  <2>4. Cardinality(EntriesBy(cells'[c].timeline, r)) =
           Cardinality(EntriesBy(cells[c].timeline, r)) + (IF by = r THEN 1 ELSE 0)
    BY <1>1, <2>3, EntriesAppend
  <2>5. failures' = failures
    BY <1>4, <1>6
  <2>6. CASE by = r
    <3>1. CommitSwap(h) /\ req[h] = r
      BY <2>1, <2>6
    <3>2. \A g \in Handlers : g = h
      BY DEF OneHandler
    <3>3. ~Spent(r)
      BY <3>1, <3>2 DEF Spent, CommitSwap, WithSwap
    <3>4. Spent(r)'
      BY <1>1, <3>1 DEF Spent, CommitSwap, Base, TypeOK
    <3> QED
      BY <1>1, <1>3, <2>4, <2>5, <2>6, <3>3, <3>4
  <2>7. CASE by # r
    BY <1>1, <1>3, <2>4, <2>5, <2>7, SpentKept
  <2> QED
    BY <2>6, <2>7
<1>7. ASSUME NEW h \in Handlers, ReadsCell(h) PROVE UNCHANGED cells
  BY <1>7 DEF ReadsCell, EditCell, database
<1> QED
  BY <1>1, <1>5, <1>6, <1>7, OtherSteps DEF Base

\* A request exchanges its two cells once, and once more for every call that
\* failed, as long as calls do not overlap.
THEOREM AppliedOnceCorrect == ASSUME OneHandler PROVE Spec => []AppliedOnce
<1>1. Init => Once
  <2> SUFFICES ASSUME Init, NEW r \in Requests, NEW c \in Cells
               PROVE  Cardinality(EntriesBy(cells[c].timeline, r))
                         <= failures + (IF Spent(r) THEN 1 ELSE 0)
    BY DEF Once
  <2>1. EntriesBy(cells[c].timeline, r) = {} /\ failures = 0
    BY DEF Init, EntriesBy
  <2> QED
    BY <2>1, FS_EmptySet
<1>2. IInv /\ Once => AppliedOnce
  <2> SUFFICES ASSUME IInv, Once, NEW r \in Requests, NEW c \in Cells
               PROVE  Cardinality(EntriesBy(cells[c].timeline, r)) <= 1 + failures
    BY DEF AppliedOnce, EntriesBy
  <2>1. /\ Cardinality(EntriesBy(cells[c].timeline, r)) <= failures + (IF Spent(r) THEN 1 ELSE 0)
        /\ failures \in Nat
        /\ cells[c].timeline \in Seq(TimelineEntry)
        /\ cells[c].shift \in Schedulable
    BY DEF IInv, Base, TypeOK, Row, Once
  <2>2. [from |-> cells[c].shift, to |-> cells[c].shift, by |-> Manual] \in TimelineEntry
    BY <2>1 DEF TimelineEntry
  <2>3. Cardinality(EntriesBy(cells[c].timeline, r)) \in Nat
    BY <2>1, <2>2, EntriesAppend
  <2> QED
    BY <2>1, <2>3
<1> QED
  BY <1>1, <1>2, OnceNext, EditsCurrentAlways, PTL DEF Spec
=============================================================================
