--------------------------- MODULE ScheduleWrites ---------------------------
(***************************************************************************)
(* What becomes of one employee's schedule besides swaps and edits: the    *)
(* approval of an attendance correction                                    *)
(* (attendance-corrections.controller.ts), the approval of a schedule      *)
(* change (schedule-changes.controller.ts), the publication of a generated *)
(* version (publishVersion of generator.service.ts) and the status of the  *)
(* week (setWeekStatus of schedule.service.ts), next to the approve and    *)
(* reject of requests.service.ts, which take any request.  A call is a     *)
(* process h whose program counter pc[h] names the SQL statement it issues *)
(* next; none of it uses a transaction.                                    *)
(*                                                                         *)
(* A record is the shift whose hours are scheduled, Off for no hours.      *)
(***************************************************************************)
EXTENDS Integers, FiniteSets

CONSTANTS
    Handlers,       \* request handlers
    Corrections,    \* ids of attendance corrections
    Fielded,        \* those that name a field and a value
    Changes,        \* ids of schedule changes
    Versions,       \* ids of generated versions
    Days,           \* dates of one week
    Codes,          \* shift codes that have hours
    Off,            \* no hours
    Day,            \* the date a change is about
    Value,          \* the code it asks for, or Off
    Plan,           \* the code a version gives to each date
    Existing,       \* the records there are at first: a code, or None, a date
    MaxFailures,    \* bound: failed statements and stopped calls
    None            \* no record, no row, and an unused local

Requests == Corrections \cup Changes

Settled == {"approved", "rejected", "cancelled"}

Shifts == Codes \cup {Off}

\* A row of schedule_week_status; the stamps are whether they are set.
Weeks == [status : {"draft", "published", "locked"},
          publishedAt : BOOLEAN, lockedAt : BOOLEAN]

ASSUME WritesAssumption ==
    /\ Corrections \cap Changes = {} /\ Fielded \subseteq Corrections
    /\ None \notin Requests \cup Versions \cup Settled \cup Shifts \cup Weeks
    /\ Day \in [Changes -> Days] /\ Value \in [Changes -> Shifts]
    /\ Plan \in [Versions -> [Days -> Shifts]]
    /\ Existing \in [Days -> Shifts \cup {None}]
    /\ MaxFailures \in Nat

VARIABLES
    record,         \* attendance_records of the employee
    week,           \* the week's row of schedule_week_status
    status,         \* requests.status; None: not filed
    detailed,       \* requests with their row of details
    applied,        \* requests marked applied
    published,      \* versions whose status is 'published'
    overruled,      \* auxiliary: requests that requests.service.ts decided
    pc,             \* the statement each call issues next
    job,            \* the request or the version each call works on
    failures        \* failed statements and stopped calls so far

requestVars == <<status, detailed, applied, overruled>>
vars == <<record, week, requestVars, published, pc, job, failures>>

Init ==
    /\ record = Existing
    /\ week = None
    /\ status = [r \in Requests |-> None]
    /\ detailed = {} /\ applied = {} /\ published = {} /\ overruled = {}
    /\ pc = [h \in Handlers |-> "idle"]
    /\ job = [h \in Handlers |-> None]
    /\ failures = 0

Call(h, j, step) ==
    /\ pc[h] = "idle"
    /\ pc' = [pc EXCEPT ![h] = step]
    /\ job' = [job EXCEPT ![h] = j]

Goes(h, step) == pc' = [pc EXCEPT ![h] = step] /\ UNCHANGED job

Return(h) ==
    /\ pc' = [pc EXCEPT ![h] = "idle"]
    /\ job' = [job EXCEPT ![h] = None]

-----------------------------------------------------------------------------
(* Filing, in both controllers: the request, then its details.             *)

File(h, r) ==
    /\ status[r] = None
    /\ Call(h, r, "detail")
    /\ status' = [status EXCEPT ![r] = "pending"]
    /\ UNCHANGED <<record, week, detailed, applied, overruled, published, failures>>

FileDetail(h) ==
    /\ pc[h] = "detail"
    /\ detailed' = detailed \cup {job[h]}
    /\ Return(h)
    /\ UNCHANGED <<record, week, status, applied, overruled, published, failures>>

-----------------------------------------------------------------------------
(* Approval.  Both controllers name the date by                            *)
(* String(date).slice(0, 10).  The date comes from a DATE column, which pg *)
(* answers as a JavaScript Date, so the text is like "Mon Jun 15": it has  *)
(* no year, and PostgreSQL refuses every statement that casts it to a      *)
(* date.                                                                   *)

\* Mutant: the details are joined where there are any.
Decidable_LeftJoin(r) == status[r] \notin Settled \cup {None}

\* The SELECT joins the details and gives the status that is tested.
Decidable(r) == r \in detailed /\ status[r] \notin Settled

\* Without a field or a value there is nothing to write.
ApproveCorrection(h, r) ==
    /\ r \in Corrections /\ Decidable(r)
    /\ Call(h, r, IF r \in Fielded THEN "writePunch" ELSE "approve")
    /\ UNCHANGED <<record, week, requestVars, published, failures>>

\* The UPDATE of the punch is refused, which ends the call.
WritePunch(h) ==
    /\ pc[h] = "writePunch"
    /\ Return(h)
    /\ UNCHANGED <<record, week, requestVars, published, failures>>

ApproveChange(h, r) ==
    /\ r \in Changes /\ Decidable(r)
    /\ Call(h, r, "writeShift")
    /\ UNCHANGED <<record, week, requestVars, published, failures>>

\* The UPDATE and, after it, the INSERT of the hours are refused; both refusals
\* are caught, and the call goes on.
WriteShift(h) ==
    /\ pc[h] = "writeShift"
    /\ Goes(h, "markApplied")
    /\ UNCHANGED <<record, week, requestVars, published, failures>>

MarkApplied(h) ==
    /\ pc[h] = "markApplied"
    /\ applied' = applied \cup {job[h]}
    /\ Goes(h, "approve")
    /\ UNCHANGED <<record, week, status, detailed, overruled, published, failures>>

\* Mutant: the status is written where a refusal has not come first.
SetApproved_IfPending(h) ==
    /\ pc[h] = "approve"
    /\ status' = [status EXCEPT ![job[h]] = IF @ = "pending" THEN "approved" ELSE @]
    /\ Return(h)
    /\ UNCHANGED <<record, week, detailed, applied, overruled, published, failures>>

\* By id alone.
SetApproved(h) ==
    /\ pc[h] = "approve"
    /\ status' = [status EXCEPT ![job[h]] = "approved"]
    /\ Return(h)
    /\ UNCHANGED <<record, week, detailed, applied, overruled, published, failures>>

\* One conditional UPDATE, of any open request.
Reject(r) ==
    /\ status[r] # None /\ status[r] \notin Settled
    /\ status' = [status EXCEPT ![r] = "rejected"]
    /\ UNCHANGED <<record, week, detailed, applied, overruled, published, pc, job, failures>>

-----------------------------------------------------------------------------
(* requests.service.ts: approve reads the status and writes by id, reject  *)
(* does not read it; neither knows of corrections and changes.             *)

ReadAny(h, r) ==
    /\ status[r] = "pending"
    /\ Call(h, r, "approveAny")
    /\ UNCHANGED <<record, week, requestVars, published, failures>>

Overrule(r, s) ==
    /\ status' = [status EXCEPT ![r] = s]
    /\ overruled' = overruled \cup {r}

ApproveAny(h) ==
    /\ pc[h] = "approveAny"
    /\ Overrule(job[h], "approved")
    /\ Return(h)
    /\ UNCHANGED <<record, week, detailed, applied, published, failures>>

RejectAny(r) ==
    /\ status[r] # None
    /\ Overrule(r, "rejected")
    /\ UNCHANGED <<record, week, detailed, applied, published, pc, job, failures>>

-----------------------------------------------------------------------------
(* publishVersion, which does not look at the status of the week.          *)

\* The version's status, with no error when it has been published before.
Publish(h, v) ==
    /\ Call(h, v, "upsert")
    /\ published' = published \cup {v}
    /\ UNCHANGED <<record, week, requestVars, failures>>

\* Mutant: the entry of a date that has hours already is left out.
Upsert_Unless(h) ==
    /\ pc[h] = "upsert"
    /\ record' = [d \in Days |-> IF record[d] \in Codes THEN record[d] ELSE Plan[job[h]][d]]
    /\ Return(h)
    /\ UNCHANGED <<week, requestVars, published, failures>>

\* One statement upserts every entry.
Upsert(h) ==
    /\ pc[h] = "upsert"
    /\ record' = Plan[job[h]]
    /\ Return(h)
    /\ UNCHANGED <<week, requestVars, published, failures>>

-----------------------------------------------------------------------------
(* setWeekStatus: the status is read and tested, then the row is written   *)
(* by its key alone.  A week with no row is a draft.                       *)

WeekStatus == IF week = None THEN "draft" ELSE week.status

\* Mutant: a draft may be locked.
MayLock_Draft == TRUE

MayLock == WeekStatus # "draft"

ReadWeek(h) ==
    /\ \/ WeekStatus # "locked" /\ \E step \in {"publishWeek", "revertWeek"} : Call(h, None, step)
       \/ MayLock /\ Call(h, None, "lockWeek")
       \/ WeekStatus = "locked" /\ Call(h, None, "unlockWeek")
    /\ UNCHANGED <<record, week, requestVars, published, failures>>

\* INSERT, or an UPDATE that keeps the stamps there are.
PublishWeek(h) ==
    /\ pc[h] = "publishWeek"
    /\ week' = [status |-> "published", publishedAt |-> TRUE,
                lockedAt |-> week # None /\ week.lockedAt]
    /\ Return(h)
    /\ UNCHANGED <<record, requestVars, published, failures>>

\* The UPDATE leaves published_at as it is.
LockWeek(h) ==
    /\ pc[h] = "lockWeek"
    /\ week' = [status |-> "locked", lockedAt |-> TRUE,
                publishedAt |-> week = None \/ week.publishedAt]
    /\ Return(h)
    /\ UNCHANGED <<record, requestVars, published, failures>>

UnlockWeek(h) ==
    /\ pc[h] = "unlockWeek"
    /\ week' = [week EXCEPT !.status = "published", !.lockedAt = FALSE]
    /\ Return(h)
    /\ UNCHANGED <<record, requestVars, published, failures>>

RevertWeek(h) ==
    /\ pc[h] = "revertWeek"
    /\ week' = IF week = None
               THEN [status |-> "draft", publishedAt |-> FALSE, lockedAt |-> FALSE]
               ELSE [week EXCEPT !.status = "draft"]
    /\ Return(h)
    /\ UNCHANGED <<record, requestVars, published, failures>>

-----------------------------------------------------------------------------
\* A statement fails, or the server stops in the middle of a call.
Fail(h) ==
    /\ pc[h] # "idle" /\ failures < MaxFailures
    /\ failures' = failures + 1
    /\ Return(h)
    /\ UNCHANGED <<record, week, requestVars, published>>

Next ==
    \/ \E h \in Handlers, r \in Requests :
          File(h, r) \/ ApproveCorrection(h, r) \/ ApproveChange(h, r) \/ ReadAny(h, r)
    \/ \E h \in Handlers, v \in Versions : Publish(h, v)
    \/ \E h \in Handlers :
          \/ FileDetail(h) \/ WritePunch(h) \/ WriteShift(h) \/ MarkApplied(h)
          \/ SetApproved(h) \/ ApproveAny(h) \/ Upsert(h) \/ Fail(h)
          \/ ReadWeek(h) \/ PublishWeek(h) \/ LockWeek(h) \/ UnlockWeek(h) \/ RevertWeek(h)
    \/ \E r \in Requests : Reject(r) \/ RejectAny(r)

Spec == Init /\ [][Next]_vars
-----------------------------------------------------------------------------
(* Properties.                                                             *)

\* Among the types: only a request whose details are there is marked applied.
TypeOK ==
    /\ record \in [Days -> Shifts \cup {None}]
    /\ week \in Weeks \cup {None}
    /\ status \in [Requests -> Settled \cup {"pending", None}]
    /\ detailed \subseteq Requests /\ overruled \subseteq Requests
    /\ applied \subseteq detailed
    /\ published \subseteq Versions
    /\ pc \in [Handlers -> {"idle", "detail", "writePunch", "writeShift", "markApplied",
                            "approve", "approveAny", "upsert", "publishWeek", "lockWeek",
                            "unlockWeek", "revertWeek"}]
    /\ job \in [Handlers -> Requests \cup Versions \cup {None}]
    /\ failures \in 0 .. MaxFailures

\* "Apply the published version to the live, agent-facing schedule"
\* (publishVersion): the agent sees the original schedule or the whole of one
\* published version, never an unpublished plan and never a mixture of two,
\* however publications interleave with each other and with the approvals and
\* wherever calls stop.
OneVersionShown ==
    record = Existing \/ \E v \in published : record = Plan[v]

\* An approval of r by its own controller is under way.
Approving(r) ==
    \E h \in Handlers :
        job[h] = r /\ pc[h] \in {"writePunch", "writeShift", "markApplied", "approve"}

\* The changes, and the corrections that ask for a value, that only their own
\* controllers have decided: approved means marked applied, wherever a call
\* stops, and marked applied means approved once no approval is under way,
\* although refusals and second approvals come between the two writes; a call
\* that stops may leave the mark alone.
SettledAgrees ==
    \A r \in (Fielded \cup Changes) \ overruled :
        /\ status[r] = "approved" => r \in applied
        /\ r \in applied => status[r] = "approved" \/ Approving(r) \/ failures > 0

\* setWeekStatus: a draft cannot be locked ("publish the schedule first").
\* Whatever calls decide on a status that has changed by the time they write,
\* a published week has the date of its publication, and a locked week also
\* that of its locking.
WeekIsStamped ==
    week # None =>
        /\ week.status \in {"published", "locked"} => week.publishedAt
        /\ week.status = "locked" => week.lockedAt

\* "Approve a schedule change and apply it" (schedule-changes.controller.ts): as
\* long as nothing fails and nothing is published, the record of a change that
\* is marked applied is what a change of that day asks for.
ChangeIsApplied ==
    (failures = 0 /\ published = {}) =>
        \A r \in Changes \cap applied :
            \E q \in Changes : Day[q] = Day[r] /\ record[Day[r]] = Value[q]
=============================================================================
