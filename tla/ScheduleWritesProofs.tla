------------------------ MODULE ScheduleWritesProofs ------------------------
(***************************************************************************)
(* What ScheduleWrites keeps for any number of handlers, requests,         *)
(* versions and days, and any number of failures.  The invariants are      *)
(* proved from one inductive invariant, which adds to them what a call     *)
(* works on at each of its statements, and what its reading of the week    *)
(* still means when it writes.                                             *)
(***************************************************************************)
EXTENDS ScheduleWrites, TLAPS

\* What a call works on, and what it has done, at each statement; no correction
\* is ever marked applied.
LocalsRight ==
    /\ applied \subseteq Changes
    /\ \A h \in Handlers :
        /\ pc[h] \in {"detail", "approve", "approveAny"} => job[h] \in Requests
        /\ pc[h] = "writePunch" => job[h] \in Fielded
        /\ pc[h] \in {"writeShift", "markApplied"} => job[h] \in Changes \cap detailed
        /\ pc[h] = "approve" => job[h] \in applied \cup (Corrections \ Fielded)
        /\ pc[h] = "upsert" => job[h] \in published

\* Whoever is about to lock the week, or to unlock it, has seen a week that was
\* published, and the date of a publication is never cleared.
WeekSeen ==
    \A h \in Handlers :
        pc[h] \in {"lockWeek", "unlockWeek"} => week # None /\ week.publishedAt

IInv ==
    /\ TypeOK
    /\ LocalsRight
    /\ WeekSeen
    /\ OneVersionShown
    /\ SettledAgrees
    /\ WeekIsStamped

-----------------------------------------------------------------------------
(* The initial states.                                                     *)

LEMMA InvInit == Init => IInv
<1> SUFFICES ASSUME Init PROVE IInv
  OBVIOUS
<1>1. TypeOK
  BY WritesAssumption DEF Init, TypeOK
<1>2. LocalsRight /\ WeekSeen /\ OneVersionShown /\ WeekIsStamped
  BY DEF Init, LocalsRight, WeekSeen, OneVersionShown, WeekIsStamped
<1>3. SettledAgrees
  BY WritesAssumption DEF Init, SettledAgrees, Settled, Requests
<1> QED
  BY <1>1, <1>2, <1>3 DEF IInv

-----------------------------------------------------------------------------
(* The steps.                                                              *)

\* Every step keeps the types.
LEMMA TypeNext ==
  ASSUME TypeOK, LocalsRight, WeekSeen, [Next]_vars
  PROVE  TypeOK'
<1>1. ASSUME NEW h \in Handlers, NEW r \in Requests, File(h, r) PROVE TypeOK'
  BY <1>1, WritesAssumption DEF File, Call, requestVars, TypeOK, LocalsRight, WeekSeen, Weeks, Requests, Settled
<1>2. ASSUME NEW h \in Handlers, NEW r \in Requests, ApproveCorrection(h, r) PROVE TypeOK'
  BY <1>2, WritesAssumption DEF ApproveCorrection, Call, Decidable, requestVars, TypeOK, LocalsRight, WeekSeen, Weeks, Requests, Settled
<1>3. ASSUME NEW h \in Handlers, NEW r \in Requests, ApproveChange(h, r) PROVE TypeOK'
  BY <1>3, WritesAssumption DEF ApproveChange, Call, Decidable, requestVars, TypeOK, LocalsRight, WeekSeen, Weeks, Requests, Settled
<1>4. ASSUME NEW h \in Handlers, NEW r \in Requests, ReadAny(h, r) PROVE TypeOK'
  BY <1>4, WritesAssumption DEF ReadAny, Call, requestVars, TypeOK, LocalsRight, WeekSeen, Weeks, Requests, Settled
<1>5. ASSUME NEW h \in Handlers, NEW v \in Versions, Publish(h, v) PROVE TypeOK'
  BY <1>5, WritesAssumption DEF Publish, Call, requestVars, TypeOK, LocalsRight, WeekSeen, Weeks, Requests, Settled
<1>6. ASSUME NEW h \in Handlers, FileDetail(h) PROVE TypeOK'
  BY <1>6, WritesAssumption DEF FileDetail, Return, requestVars, TypeOK, LocalsRight, WeekSeen, Weeks, Requests, Settled
<1>7. ASSUME NEW h \in Handlers, WritePunch(h) PROVE TypeOK'
  BY <1>7, WritesAssumption DEF WritePunch, Return, requestVars, TypeOK, LocalsRight, WeekSeen, Weeks, Requests, Settled
<1>8. ASSUME NEW h \in Handlers, WriteShift(h) PROVE TypeOK'
  BY <1>8, WritesAssumption DEF WriteShift, Goes, requestVars, TypeOK, LocalsRight, WeekSeen, Weeks, Requests, Settled
<1>9. ASSUME NEW h \in Handlers, MarkApplied(h) PROVE TypeOK'
  BY <1>9, WritesAssumption DEF MarkApplied, Goes, requestVars, TypeOK, LocalsRight, WeekSeen, Weeks, Requests, Settled
<1>10. ASSUME NEW h \in Handlers, SetApproved(h) PROVE TypeOK'
  BY <1>10, WritesAssumption DEF SetApproved, Return, requestVars, TypeOK, LocalsRight, WeekSeen, Weeks, Requests, Settled
<1>11. ASSUME NEW h \in Handlers, ApproveAny(h) PROVE TypeOK'
  BY <1>11, WritesAssumption DEF ApproveAny, Overrule, Return, requestVars, TypeOK, LocalsRight, WeekSeen, Weeks, Requests, Settled
<1>12. ASSUME NEW h \in Handlers, Upsert(h) PROVE TypeOK'
  BY <1>12, WritesAssumption DEF Upsert, Return, requestVars, TypeOK, LocalsRight, WeekSeen, Weeks, Requests, Settled
<1>13. ASSUME NEW h \in Handlers, Fail(h) PROVE TypeOK'
  BY <1>13, WritesAssumption DEF Fail, Return, requestVars, TypeOK, LocalsRight, WeekSeen, Weeks, Requests, Settled
<1>14. ASSUME NEW h \in Handlers, ReadWeek(h) PROVE TypeOK'
  BY <1>14, WritesAssumption DEF ReadWeek, Call, requestVars, TypeOK, LocalsRight, WeekSeen, Weeks, Requests, Settled
<1>15. ASSUME NEW h \in Handlers, PublishWeek(h) PROVE TypeOK'
  BY <1>15, WritesAssumption DEF PublishWeek, Return, requestVars, TypeOK, LocalsRight, WeekSeen, Weeks, Requests, Settled
<1>16. ASSUME NEW h \in Handlers, LockWeek(h) PROVE TypeOK'
  BY <1>16, WritesAssumption DEF LockWeek, Return, requestVars, TypeOK, LocalsRight, WeekSeen, Weeks, Requests, Settled
<1>17. ASSUME NEW h \in Handlers, UnlockWeek(h) PROVE TypeOK'
  BY <1>17, WritesAssumption DEF UnlockWeek, Return, requestVars, TypeOK, LocalsRight, WeekSeen, Weeks, Requests, Settled
<1>18. ASSUME NEW h \in Handlers, RevertWeek(h) PROVE TypeOK'
  BY <1>18, WritesAssumption DEF RevertWeek, Return, requestVars, TypeOK, LocalsRight, WeekSeen, Weeks, Requests, Settled
<1>19. ASSUME NEW r \in Requests, Reject(r) PROVE TypeOK'
  BY <1>19, WritesAssumption DEF Reject, requestVars, TypeOK, LocalsRight, WeekSeen, Weeks, Requests, Settled
<1>20. ASSUME NEW r \in Requests, RejectAny(r) PROVE TypeOK'
  BY <1>20, WritesAssumption DEF RejectAny, Overrule, requestVars, TypeOK, LocalsRight, WeekSeen, Weeks, Requests, Settled
<1>21. CASE UNCHANGED vars
  BY <1>21 DEF vars, requestVars, TypeOK, LocalsRight, WeekSeen, Weeks, Requests, Settled
<1> QED
  BY <1>1, <1>2, <1>3, <1>4, <1>5, <1>6, <1>7, <1>8, <1>9, <1>10, <1>11, <1>12, <1>13, <1>14, <1>15, <1>16, <1>17, <1>18, <1>19, <1>20, <1>21 DEF Next

\* Every step leaves each call with the right request or version.
LEMMA LocalsNext ==
  ASSUME TypeOK, LocalsRight, [Next]_vars
  PROVE  LocalsRight'
<1>1. ASSUME NEW h \in Handlers, NEW r \in Requests, File(h, r) PROVE LocalsRight'
  BY <1>1, WritesAssumption DEF File, Call, requestVars, TypeOK, LocalsRight, Requests
<1>2. ASSUME NEW h \in Handlers, NEW r \in Requests, ApproveCorrection(h, r) PROVE LocalsRight'
  BY <1>2, WritesAssumption DEF ApproveCorrection, Call, Decidable, requestVars, TypeOK, LocalsRight, Requests
<1>3. ASSUME NEW h \in Handlers, NEW r \in Requests, ApproveChange(h, r) PROVE LocalsRight'
  BY <1>3, WritesAssumption DEF ApproveChange, Call, Decidable, requestVars, TypeOK, LocalsRight, Requests
<1>4. ASSUME NEW h \in Handlers, NEW r \in Requests, ReadAny(h, r) PROVE LocalsRight'
  BY <1>4, WritesAssumption DEF ReadAny, Call, requestVars, TypeOK, LocalsRight, Requests
<1>5. ASSUME NEW h \in Handlers, NEW v \in Versions, Publish(h, v) PROVE LocalsRight'
  BY <1>5, WritesAssumption DEF Publish, Call, requestVars, TypeOK, LocalsRight, Requests
<1>6. ASSUME NEW h \in Handlers, FileDetail(h) PROVE LocalsRight'
  BY <1>6, WritesAssumption DEF FileDetail, Return, requestVars, TypeOK, LocalsRight, Requests
<1>7. ASSUME NEW h \in Handlers, WritePunch(h) PROVE LocalsRight'
  BY <1>7, WritesAssumption DEF WritePunch, Return, requestVars, TypeOK, LocalsRight, Requests
<1>8. ASSUME NEW h \in Handlers, WriteShift(h) PROVE LocalsRight'
  BY <1>8, WritesAssumption DEF WriteShift, Goes, requestVars, TypeOK, LocalsRight, Requests
<1>9. ASSUME NEW h \in Handlers, MarkApplied(h) PROVE LocalsRight'
  BY <1>9, WritesAssumption DEF MarkApplied, Goes, requestVars, TypeOK, LocalsRight, Requests
<1>10. ASSUME NEW h \in Handlers, SetApproved(h) PROVE LocalsRight'
  BY <1>10, WritesAssumption DEF SetApproved, Return, requestVars, TypeOK, LocalsRight, Requests
<1>11. ASSUME NEW h \in Handlers, ApproveAny(h) PROVE LocalsRight'
  BY <1>11, WritesAssumption DEF ApproveAny, Overrule, Return, requestVars, TypeOK, LocalsRight, Requests
<1>12. ASSUME NEW h \in Handlers, Upsert(h) PROVE LocalsRight'
  BY <1>12, WritesAssumption DEF Upsert, Return, requestVars, TypeOK, LocalsRight, Requests
<1>13. ASSUME NEW h \in Handlers, Fail(h) PROVE LocalsRight'
  BY <1>13, WritesAssumption DEF Fail, Return, requestVars, TypeOK, LocalsRight, Requests
<1>14. ASSUME NEW h \in Handlers, ReadWeek(h) PROVE LocalsRight'
  BY <1>14, WritesAssumption DEF ReadWeek, Call, requestVars, TypeOK, LocalsRight, Requests
<1>15. ASSUME NEW h \in Handlers, PublishWeek(h) PROVE LocalsRight'
  BY <1>15, WritesAssumption DEF PublishWeek, Return, requestVars, TypeOK, LocalsRight, Requests
<1>16. ASSUME NEW h \in Handlers, LockWeek(h) PROVE LocalsRight'
  BY <1>16, WritesAssumption DEF LockWeek, Return, requestVars, TypeOK, LocalsRight, Requests
<1>17. ASSUME NEW h \in Handlers, UnlockWeek(h) PROVE LocalsRight'
  BY <1>17, WritesAssumption DEF UnlockWeek, Return, requestVars, TypeOK, LocalsRight, Requests
<1>18. ASSUME NEW h \in Handlers, RevertWeek(h) PROVE LocalsRight'
  BY <1>18, WritesAssumption DEF RevertWeek, Return, requestVars, TypeOK, LocalsRight, Requests
<1>19. ASSUME NEW r \in Requests, Reject(r) PROVE LocalsRight'
  BY <1>19, WritesAssumption DEF Reject, requestVars, TypeOK, LocalsRight, Requests
<1>20. ASSUME NEW r \in Requests, RejectAny(r) PROVE LocalsRight'
  BY <1>20, WritesAssumption DEF RejectAny, Overrule, requestVars, TypeOK, LocalsRight, Requests
<1>21. CASE UNCHANGED vars
  BY <1>21 DEF vars, requestVars, TypeOK, LocalsRight, Requests
<1> QED
  BY <1>1, <1>2, <1>3, <1>4, <1>5, <1>6, <1>7, <1>8, <1>9, <1>10, <1>11, <1>12, <1>13, <1>14, <1>15, <1>16, <1>17, <1>18, <1>19, <1>20, <1>21 DEF Next

\* Every step leaves the week as those who are about to write have seen it.
LEMMA SeenNext ==
  ASSUME TypeOK, WeekSeen, WeekIsStamped, [Next]_vars
  PROVE  WeekSeen'
<1>1. ASSUME NEW h \in Handlers, NEW r \in Requests, File(h, r) PROVE WeekSeen'
  BY <1>1, WritesAssumption DEF File, Call, requestVars, TypeOK, WeekSeen, WeekIsStamped, Weeks, WeekStatus, MayLock
<1>2. ASSUME NEW h \in Handlers, NEW r \in Requests, ApproveCorrection(h, r) PROVE WeekSeen'
  BY <1>2, WritesAssumption DEF ApproveCorrection, Call, Decidable, requestVars, TypeOK, WeekSeen, WeekIsStamped, Weeks, WeekStatus, MayLock
<1>3. ASSUME NEW h \in Handlers, NEW r \in Requests, ApproveChange(h, r) PROVE WeekSeen'
  BY <1>3, WritesAssumption DEF ApproveChange, Call, Decidable, requestVars, TypeOK, WeekSeen, WeekIsStamped, Weeks, WeekStatus, MayLock
<1>4. ASSUME NEW h \in Handlers, NEW r \in Requests, ReadAny(h, r) PROVE WeekSeen'
  BY <1>4, WritesAssumption DEF ReadAny, Call, requestVars, TypeOK, WeekSeen, WeekIsStamped, Weeks, WeekStatus, MayLock
<1>5. ASSUME NEW h \in Handlers, NEW v \in Versions, Publish(h, v) PROVE WeekSeen'
  BY <1>5, WritesAssumption DEF Publish, Call, requestVars, TypeOK, WeekSeen, WeekIsStamped, Weeks, WeekStatus, MayLock
<1>6. ASSUME NEW h \in Handlers, FileDetail(h) PROVE WeekSeen'
  BY <1>6, WritesAssumption DEF FileDetail, Return, requestVars, TypeOK, WeekSeen, WeekIsStamped, Weeks, WeekStatus, MayLock
<1>7. ASSUME NEW h \in Handlers, WritePunch(h) PROVE WeekSeen'
  BY <1>7, WritesAssumption DEF WritePunch, Return, requestVars, TypeOK, WeekSeen, WeekIsStamped, Weeks, WeekStatus, MayLock
<1>8. ASSUME NEW h \in Handlers, WriteShift(h) PROVE WeekSeen'
  BY <1>8, WritesAssumption DEF WriteShift, Goes, requestVars, TypeOK, WeekSeen, WeekIsStamped, Weeks, WeekStatus, MayLock
<1>9. ASSUME NEW h \in Handlers, MarkApplied(h) PROVE WeekSeen'
  BY <1>9, WritesAssumption DEF MarkApplied, Goes, requestVars, TypeOK, WeekSeen, WeekIsStamped, Weeks, WeekStatus, MayLock
<1>10. ASSUME NEW h \in Handlers, SetApproved(h) PROVE WeekSeen'
  BY <1>10, WritesAssumption DEF SetApproved, Return, requestVars, TypeOK, WeekSeen, WeekIsStamped, Weeks, WeekStatus, MayLock
<1>11. ASSUME NEW h \in Handlers, ApproveAny(h) PROVE WeekSeen'
  BY <1>11, WritesAssumption DEF ApproveAny, Overrule, Return, requestVars, TypeOK, WeekSeen, WeekIsStamped, Weeks, WeekStatus, MayLock
<1>12. ASSUME NEW h \in Handlers, Upsert(h) PROVE WeekSeen'
  BY <1>12, WritesAssumption DEF Upsert, Return, requestVars, TypeOK, WeekSeen, WeekIsStamped, Weeks, WeekStatus, MayLock
<1>13. ASSUME NEW h \in Handlers, Fail(h) PROVE WeekSeen'
  BY <1>13, WritesAssumption DEF Fail, Return, requestVars, TypeOK, WeekSeen, WeekIsStamped, Weeks, WeekStatus, MayLock
<1>14. ASSUME NEW h \in Handlers, ReadWeek(h) PROVE WeekSeen'
  BY <1>14, WritesAssumption DEF ReadWeek, Call, requestVars, TypeOK, WeekSeen, WeekIsStamped, Weeks, WeekStatus, MayLock
<1>15. ASSUME NEW h \in Handlers, PublishWeek(h) PROVE WeekSeen'
  <2>1. week' = [status |-> "published", publishedAt |-> TRUE,
                 lockedAt |-> week # None /\ week.lockedAt]
    BY <1>15 DEF PublishWeek
  <2>2. week' \in Weeks
    BY <2>1 DEF Weeks
  <2>3. week'.publishedAt
    BY <2>1, Zenon
  <2> QED
    BY <2>2, <2>3, WritesAssumption DEF WeekSeen
<1>16. ASSUME NEW h \in Handlers, LockWeek(h) PROVE WeekSeen'
  <2>1. /\ week # None /\ week.publishedAt
        /\ week' = [status |-> "locked", lockedAt |-> TRUE,
                    publishedAt |-> week = None \/ week.publishedAt]
    BY <1>16, Zenon DEF LockWeek, WeekSeen
  <2>2. week' \in Weeks
    BY <2>1 DEF Weeks
  <2>3. week'.publishedAt
    BY <2>1, Zenon
  <2> QED
    BY <2>2, <2>3, WritesAssumption DEF WeekSeen
<1>17. ASSUME NEW h \in Handlers, UnlockWeek(h) PROVE WeekSeen'
  <2>1. /\ week # None /\ week.publishedAt
        /\ week' = [week EXCEPT !.status = "published", !.lockedAt = FALSE]
    BY <1>17, Zenon DEF UnlockWeek, WeekSeen
  <2>2. week \in Weeks
    BY <2>1 DEF TypeOK
  <2>3. week' \in Weeks /\ week'.publishedAt
    BY <2>1, <2>2 DEF Weeks
  <2> QED
    BY <2>2, <2>3, WritesAssumption DEF WeekSeen
<1>18. ASSUME NEW h \in Handlers, RevertWeek(h) PROVE WeekSeen'
  BY <1>18, WritesAssumption DEF RevertWeek, Return, requestVars, TypeOK, WeekSeen, WeekIsStamped, Weeks, WeekStatus, MayLock
<1>19. ASSUME NEW r \in Requests, Reject(r) PROVE WeekSeen'
  BY <1>19, WritesAssumption DEF Reject, requestVars, TypeOK, WeekSeen, WeekIsStamped, Weeks, WeekStatus, MayLock
<1>20. ASSUME NEW r \in Requests, RejectAny(r) PROVE WeekSeen'
  BY <1>20, WritesAssumption DEF RejectAny, Overrule, requestVars, TypeOK, WeekSeen, WeekIsStamped, Weeks, WeekStatus, MayLock
<1>21. CASE UNCHANGED vars
  BY <1>21 DEF vars, requestVars, TypeOK, WeekSeen, WeekIsStamped, Weeks, WeekStatus, MayLock
<1> QED
  BY <1>1, <1>2, <1>3, <1>4, <1>5, <1>6, <1>7, <1>8, <1>9, <1>10, <1>11, <1>12, <1>13, <1>14, <1>15, <1>16, <1>17, <1>18, <1>19, <1>20, <1>21 DEF Next

\* Every step leaves the week stamped.
LEMMA StampedNext ==
  ASSUME TypeOK, WeekSeen, WeekIsStamped, [Next]_vars
  PROVE  WeekIsStamped'
<1>1. ASSUME NEW h \in Handlers, PublishWeek(h) PROVE WeekIsStamped'
  BY <1>1 DEF PublishWeek, Return, requestVars, WeekIsStamped, WeekSeen, TypeOK, Weeks
<1>2. ASSUME NEW h \in Handlers, LockWeek(h) PROVE WeekIsStamped'
  BY <1>2 DEF LockWeek, Return, requestVars, WeekIsStamped, WeekSeen, TypeOK, Weeks
<1>3. ASSUME NEW h \in Handlers, UnlockWeek(h) PROVE WeekIsStamped'
  BY <1>3 DEF UnlockWeek, Return, requestVars, WeekIsStamped, WeekSeen, TypeOK, Weeks
<1>4. ASSUME NEW h \in Handlers, RevertWeek(h) PROVE WeekIsStamped'
  BY <1>4 DEF RevertWeek, Return, requestVars, WeekIsStamped, WeekSeen, TypeOK, Weeks
<1>5. CASE week' = week
  BY <1>5 DEF WeekIsStamped
<1> QED
  BY <1>1, <1>2, <1>3, <1>4, <1>5
  DEF Next, vars, requestVars, File, ApproveCorrection, ApproveChange, ReadAny, Publish, FileDetail, WritePunch, WriteShift, MarkApplied, SetApproved, ApproveAny, Upsert, Fail, ReadWeek, Reject, RejectAny

\* Every step leaves one version, or the original, on show.
LEMMA ShownNext ==
  ASSUME TypeOK, LocalsRight, OneVersionShown, [Next]_vars
  PROVE  OneVersionShown'
<1>1. ASSUME NEW h \in Handlers, NEW v \in Versions, Publish(h, v) PROVE OneVersionShown'
  BY <1>1 DEF Publish, Call, requestVars, OneVersionShown, LocalsRight
<1>2. ASSUME NEW h \in Handlers, Upsert(h) PROVE OneVersionShown'
  BY <1>2 DEF Upsert, Return, requestVars, OneVersionShown, LocalsRight
<1>3. CASE record' = record /\ published' = published
  BY <1>3 DEF OneVersionShown
<1> QED
  BY <1>1, <1>2, <1>3
  DEF Next, vars, requestVars, File, ApproveCorrection, ApproveChange, ReadAny, FileDetail, WritePunch, WriteShift, MarkApplied, SetApproved, ApproveAny, Fail, ReadWeek, PublishWeek, LockWeek, UnlockWeek, RevertWeek, Reject, RejectAny

\* Every step keeps the mark and the status together.
LEMMA SettledNext ==
  ASSUME TypeOK, LocalsRight, SettledAgrees, [Next]_vars
  PROVE  SettledAgrees'
<1>1. ASSUME NEW h \in Handlers, NEW r \in Requests, File(h, r) PROVE SettledAgrees'
  BY <1>1, WritesAssumption DEF File, Call, requestVars, TypeOK, LocalsRight, SettledAgrees, Approving, Requests, Settled
<1>2. ASSUME NEW h \in Handlers, NEW r \in Requests, ApproveCorrection(h, r) PROVE SettledAgrees'
  BY <1>2, WritesAssumption DEF ApproveCorrection, Call, Decidable, requestVars, TypeOK, LocalsRight, SettledAgrees, Approving, Requests, Settled
<1>3. ASSUME NEW h \in Handlers, NEW r \in Requests, ApproveChange(h, r) PROVE SettledAgrees'
  BY <1>3, WritesAssumption DEF ApproveChange, Call, Decidable, requestVars, TypeOK, LocalsRight, SettledAgrees, Approving, Requests, Settled
<1>4. ASSUME NEW h \in Handlers, NEW r \in Requests, ReadAny(h, r) PROVE SettledAgrees'
  BY <1>4, WritesAssumption DEF ReadAny, Call, requestVars, TypeOK, LocalsRight, SettledAgrees, Approving, Requests, Settled
<1>5. ASSUME NEW h \in Handlers, NEW v \in Versions, Publish(h, v) PROVE SettledAgrees'
  BY <1>5, WritesAssumption DEF Publish, Call, requestVars, TypeOK, LocalsRight, SettledAgrees, Approving, Requests, Settled
<1>6. ASSUME NEW h \in Handlers, FileDetail(h) PROVE SettledAgrees'
  BY <1>6, WritesAssumption DEF FileDetail, Return, requestVars, TypeOK, LocalsRight, SettledAgrees, Approving, Requests, Settled
<1>7. ASSUME NEW h \in Handlers, WritePunch(h) PROVE SettledAgrees'
  BY <1>7, WritesAssumption DEF WritePunch, Return, requestVars, TypeOK, LocalsRight, SettledAgrees, Approving, Requests, Settled
<1>8. ASSUME NEW h \in Handlers, WriteShift(h) PROVE SettledAgrees'
  BY <1>8, WritesAssumption DEF WriteShift, Goes, requestVars, TypeOK, LocalsRight, SettledAgrees, Approving, Requests, Settled
<1>9. ASSUME NEW h \in Handlers, MarkApplied(h) PROVE SettledAgrees'
  BY <1>9, WritesAssumption DEF MarkApplied, Goes, requestVars, TypeOK, LocalsRight, SettledAgrees, Approving, Requests, Settled
<1>10. ASSUME NEW h \in Handlers, SetApproved(h) PROVE SettledAgrees'
  BY <1>10, WritesAssumption DEF SetApproved, Return, requestVars, TypeOK, LocalsRight, SettledAgrees, Approving, Requests, Settled
<1>11. ASSUME NEW h \in Handlers, ApproveAny(h) PROVE SettledAgrees'
  BY <1>11, WritesAssumption DEF ApproveAny, Overrule, Return, requestVars, TypeOK, LocalsRight, SettledAgrees, Approving, Requests, Settled
<1>12. ASSUME NEW h \in Handlers, Upsert(h) PROVE SettledAgrees'
  BY <1>12, WritesAssumption DEF Upsert, Return, requestVars, TypeOK, LocalsRight, SettledAgrees, Approving, Requests, Settled
<1>13. ASSUME NEW h \in Handlers, Fail(h) PROVE SettledAgrees'
  BY <1>13, WritesAssumption DEF Fail, Return, requestVars, TypeOK, LocalsRight, SettledAgrees, Approving, Requests, Settled
<1>14. ASSUME NEW h \in Handlers, ReadWeek(h) PROVE SettledAgrees'
  BY <1>14, WritesAssumption DEF ReadWeek, Call, requestVars, TypeOK, LocalsRight, SettledAgrees, Approving, Requests, Settled
<1>15. ASSUME NEW h \in Handlers, PublishWeek(h) PROVE SettledAgrees'
  BY <1>15, WritesAssumption DEF PublishWeek, Return, requestVars, TypeOK, LocalsRight, SettledAgrees, Approving, Requests, Settled
<1>16. ASSUME NEW h \in Handlers, LockWeek(h) PROVE SettledAgrees'
  BY <1>16, WritesAssumption DEF LockWeek, Return, requestVars, TypeOK, LocalsRight, SettledAgrees, Approving, Requests, Settled
<1>17. ASSUME NEW h \in Handlers, UnlockWeek(h) PROVE SettledAgrees'
  BY <1>17, WritesAssumption DEF UnlockWeek, Return, requestVars, TypeOK, LocalsRight, SettledAgrees, Approving, Requests, Settled
<1>18. ASSUME NEW h \in Handlers, RevertWeek(h) PROVE SettledAgrees'
  BY <1>18, WritesAssumption DEF RevertWeek, Return, requestVars, TypeOK, LocalsRight, SettledAgrees, Approving, Requests, Settled
<1>19. ASSUME NEW r \in Requests, Reject(r) PROVE SettledAgrees'
  BY <1>19, WritesAssumption DEF Reject, requestVars, TypeOK, LocalsRight, SettledAgrees, Approving, Requests, Settled
<1>20. ASSUME NEW r \in Requests, RejectAny(r) PROVE SettledAgrees'
  BY <1>20, WritesAssumption DEF RejectAny, Overrule, requestVars, TypeOK, LocalsRight, SettledAgrees, Approving, Requests, Settled
<1>21. CASE UNCHANGED vars
  BY <1>21 DEF vars, requestVars, TypeOK, LocalsRight, SettledAgrees, Approving, Requests, Settled
<1> QED
  BY <1>1, <1>2, <1>3, <1>4, <1>5, <1>6, <1>7, <1>8, <1>9, <1>10, <1>11, <1>12, <1>13, <1>14, <1>15, <1>16, <1>17, <1>18, <1>19, <1>20, <1>21 DEF Next

-----------------------------------------------------------------------------
(* The theorems.                                                           *)

\* All of it together is inductive.
THEOREM InvAlways == Spec => []IInv
<1>1. IInv /\ [Next]_vars => IInv'
  BY TypeNext, LocalsNext, SeenNext, StampedNext, ShownNext, SettledNext DEF IInv
<1> QED
  BY <1>1, InvInit, PTL DEF Spec

\* Every variable keeps its type, whatever stops or fails, and no request is
\* marked applied whose details were never inserted.
THEOREM TypeCorrect == Spec => []TypeOK
<1>1. IInv => TypeOK
  BY DEF IInv
<1> QED
  BY <1>1, InvAlways, PTL

\* publishVersion: what an agent sees is the original schedule or the whole of
\* one published version, however publications interleave and wherever they stop.
THEOREM OneVersionAlways == Spec => []OneVersionShown
<1>1. IInv => OneVersionShown
  BY DEF IInv
<1> QED
  BY <1>1, InvAlways, PTL

\* The two controllers' approvals and refusals: the mark and the status go
\* together for every request that requests.service.ts has not decided.
THEOREM SettledAlwaysAgrees == Spec => []SettledAgrees
<1>1. IInv => SettledAgrees
  BY DEF IInv
<1> QED
  BY <1>1, InvAlways, PTL

\* setWeekStatus: no interleaving of publications, locks, unlocks and reverts
\* leaves a published or locked week without its stamps.
THEOREM WeekAlwaysStamped == Spec => []WeekIsStamped
<1>1. IInv => WeekIsStamped
  BY DEF IInv
<1> QED
  BY <1>1, InvAlways, PTL
=============================================================================
