------------------------- MODULE PermissionRequests -------------------------
(***************************************************************************)
(* Permission requests (an hour or more away from a shift) and Auto Mode,  *)
(* the background loop that decides them.                                  *)
(*                                                                         *)
(* The code is permission-request.service.ts (createRequest and its weekly *)
(* quota, approveRequest, rejectRequest, cancelRequest), the approve and   *)
(* reject buttons of the request page (requests.service.ts), and           *)
(* automode.service.ts (saveSettings, tick, apply, revert) with the        *)
(* coverage verdict of analyst.service.ts.  None of it uses a transaction: *)
(* a call or a pass of the loop is a process h whose program counter pc[h] *)
(* names the SQL statement it issues next, and between two statements      *)
(* everything else may happen.                                             *)
(*                                                                         *)
(* Only the type 'permission' is modelled, Auto Mode's default scope, for  *)
(* employees of one function of one tenant.  All permissions of a date     *)
(* fall on its bottleneck hour.  'hold' rows, audit rows and notifications *)
(* are written but never read back by this code, and are left out.         *)
(***************************************************************************)
EXTENDS Integers, FiniteSets, FiniteSetsExt

CONSTANTS
    Handlers,       \* calls and passes the server has in progress
    Filers,         \* handlers that may carry a createRequest
    Deciders,       \* handlers that may carry a decision of a person
    Passes,         \* handlers that may carry a pass of Auto Mode
    Reverters,      \* handlers that may carry the revert of a decision
    Requests,       \* request ids
    Employees,
    Dates,          \* dates a permission can be for
    Today,          \* the date a pass assumes when it finds none
    Week,           \* the Saturday-to-Friday week of each date
    Durations,      \* minutes asked for
    Scheduled,      \* heads scheduled in the bottleneck hour of each date
    Required,       \* heads required in it
    SurplusSafe,    \* analyst_thresholds.surplus_safe
    Levels,         \* request_types.approval_levels
    Limit,          \* LIMIT of the SELECT of a pass
    Filed,          \* the permissions already on file at the start
    Settings,       \* the settings an administrator may save
    Initial,        \* the settings at the start
    None,           \* SQL NULL, and the unused local of a handler
    MaxSaves,       \* bound: saveSettings calls
    MaxFailures     \* bound: failed statements

\* PERMISSION_RULES.
MinDuration == 30
MaxDuration == 180
MaxPerWeek == 3
MaxMinutesPerWeek == 360

Statuses == {"pending", "approved", "rejected", "cancelled"}

\* What is asked for: the row of request_permissions, with the employee_id of
\* its request, which nobody reads without it.
Form == [owner : Employees, date : Dates, minutes : Durations]

ASSUME RoleAssumption == Filers \cup Deciders \cup Passes \cup Reverters \subseteq Handlers

ASSUME CoverageAssumption ==
    /\ Today \in Dates
    /\ Week \in [Dates -> Int]
    /\ Durations \subseteq Nat
    /\ Scheduled \in [Dates -> Nat] /\ Required \in [Dates -> Nat]
    /\ SurplusSafe \in Nat /\ Levels \in Nat /\ Limit \in Nat \ {0}

\* A row of automode_settings, without its list of request types.
Mode == [enabled : BOOLEAN, approve : BOOLEAN, reject : BOOLEAN]

\* An approve or reject row of automode_decisions.
Acted == [kind : {"approve", "reject"}, reverted : BOOLEAN]

ASSUME NoneAssumption ==
    /\ None \notin Requests /\ None \notin Statuses
    /\ None \notin {"approve", "reject"} /\ None \notin Acted

ASSUME StartAssumption ==
    /\ IsFiniteSet(Requests)
    /\ Filed \in [Requests -> Form \cup {None}]
    /\ \A r \in Requests : Filed[r] # None => Filed[r].minutes \in MinDuration .. MaxDuration
    /\ Settings \subseteq Mode /\ Initial \in Mode
    /\ MaxSaves \in Nat /\ MaxFailures \in Nat

VARIABLES
    status,         \* requests.status
    form,           \* the row of request_permissions
    l1,             \* requests.approved_l1_at is set
    decision,       \* the approve or reject row of automode_decisions
    settings,       \* automode_settings
    pc,             \* the statement each handler issues next
    req,            \* the request each handler works on
    filing,         \* what createRequest was called with
    pass,           \* the locals of tick and apply
    saves,          \* saveSettings calls so far
    failures        \* failed statements so far

tables == <<status, form, l1, decision, settings>>
locals == <<pc, req, filing, pass>>
bounds == <<saves, failures>>
vars == <<tables, locals, bounds>>

NoPass == [mode |-> None, todo |-> {}, verdicts |-> [d \in Dates |-> None],
           chosen |-> None]

Init ==
    /\ status = [r \in Requests |-> IF Filed[r] = None THEN None ELSE "pending"]
    /\ form = Filed
    /\ l1 = [r \in Requests |-> FALSE]
    /\ decision = [r \in Requests |-> None]
    /\ settings = Initial
    /\ pc = [h \in Handlers |-> "idle"]
    /\ req = [h \in Handlers |-> None]
    /\ filing = [h \in Handlers |-> None]
    /\ pass = [h \in Handlers |-> NoPass]
    /\ saves = 0
    /\ failures = 0

-----------------------------------------------------------------------------
(* Helpers.                                                                *)

Return(h) ==
    /\ pc' = [pc EXCEPT ![h] = "idle"]
    /\ req' = [req EXCEPT ![h] = None]
    /\ filing' = [filing EXCEPT ![h] = None]
    /\ pass' = [pass EXCEPT ![h] = NoPass]

Goto(h, label) ==
    /\ pc' = [pc EXCEPT ![h] = label]
    /\ UNCHANGED <<req, filing, pass>>

\* A call about request r arrives and its SELECT has been answered.
Begin(h, r, label) ==
    /\ pc[h] = "idle"
    /\ pc' = [pc EXCEPT ![h] = label]
    /\ req' = [req EXCEPT ![h] = r]
    /\ UNCHANGED <<filing, pass>>

\* UPDATE requests SET status, by id alone: nothing is asked of the old value.
WriteStatus(h, s) == status' = [status EXCEPT ![req[h]] = s]

-----------------------------------------------------------------------------
(* createRequest.                                                          *)

\* The permissions of e that count against the quota of week w: the SELECT
\* joins request_permissions and skips what was rejected or cancelled.
Counted(e, w) ==
    {r \in Requests : /\ form[r] # None
                      /\ form[r].owner = e /\ Week[form[r].date] = w
                      /\ status[r] \notin {"rejected", "cancelled"}}

UsedMinutes(e, w) == MapThenSumSet(LAMBDA r : form[r].minutes, Counted(e, w))

\* Mutant: one more permission than the quota allows.
CreateRequest_OffByOne(h, f) ==
    /\ pc[h] = "idle"
    /\ f.minutes \in MinDuration .. MaxDuration
    /\ Cardinality(Counted(f.owner, Week[f.date])) <= MaxPerWeek
    /\ pc' = [pc EXCEPT ![h] = "checkMinutes"]
    /\ filing' = [filing EXCEPT ![h] = f]
    /\ UNCHANGED <<tables, req, pass, bounds>>

\* The duration is checked, then the number of permissions in the week.
CreateRequest(h, f) ==
    /\ pc[h] = "idle"
    /\ f.minutes \in MinDuration .. MaxDuration
    /\ Cardinality(Counted(f.owner, Week[f.date])) < MaxPerWeek
    /\ pc' = [pc EXCEPT ![h] = "checkMinutes"]
    /\ filing' = [filing EXCEPT ![h] = f]
    /\ UNCHANGED <<tables, req, pass, bounds>>

\* A second SELECT adds up the minutes of the week.
CheckMinutes(h) ==
    LET f == filing[h]
        fits == UsedMinutes(f.owner, Week[f.date]) + f.minutes <= MaxMinutesPerWeek
    IN
    /\ pc[h] = "checkMinutes"
    /\ \/ fits /\ Goto(h, "insertRequest")
       \/ ~fits /\ Return(h)
    /\ UNCHANGED <<tables, bounds>>

InsertRequest(h, r) ==
    /\ pc[h] = "insertRequest"
    /\ status[r] = None
    /\ status' = [status EXCEPT ![r] = "pending"]
    /\ pc' = [pc EXCEPT ![h] = "insertPermission"]
    /\ req' = [req EXCEPT ![h] = r]
    /\ UNCHANGED <<form, l1, decision, settings, filing, pass, bounds>>

\* The second INSERT: only now does the request have a date.
InsertPermission(h) ==
    /\ pc[h] = "insertPermission"
    /\ form' = [form EXCEPT ![req[h]] = filing[h]]
    /\ Return(h)
    /\ UNCHANGED <<status, l1, decision, settings, bounds>>

-----------------------------------------------------------------------------
(* Decisions of people.                                                    *)

\* RequestsService.approve: one level, whatever approval_levels says.
Approve(h, r) ==
    /\ status[r] = "pending"
    /\ Begin(h, r, "approve")
    /\ UNCHANGED <<tables, bounds>>

ApproveWrite(h) ==
    /\ pc[h] = "approve"
    /\ WriteStatus(h, "approved")
    /\ l1' = [l1 EXCEPT ![req[h]] = TRUE]
    /\ Return(h)
    /\ UNCHANGED <<form, decision, settings, bounds>>

\* RequestsService.reject tests that the request exists, not its status.
Reject(h, r) ==
    /\ pc[h] = "idle"
    /\ status[r] # None
    /\ status' = [status EXCEPT ![r] = "rejected"]
    /\ UNCHANGED <<form, l1, decision, settings, locals, bounds>>

\* Mutant: the first approval is taken for the last one.
ApprovePermission_Straight(h, r) ==
    /\ status[r] # None /\ status[r] \notin {"approved", "rejected", "cancelled"}
    /\ Begin(h, r, "secondLevel")
    /\ UNCHANGED <<tables, bounds>>

\* PermissionRequestService.approveRequest: what it writes is decided by the
\* approved_l1_at it has read.
ApprovePermission(h, r) ==
    /\ status[r] # None /\ status[r] \notin {"approved", "rejected", "cancelled"}
    /\ Begin(h, r, IF l1[r] THEN "secondLevel" ELSE "firstLevel")
    /\ UNCHANGED <<tables, bounds>>

\* The first level signs, and is enough when the type asks for one level: the
\* UPDATE that follows then writes the status as the second level would.
FirstLevel(h) ==
    /\ pc[h] = "firstLevel"
    /\ l1' = [l1 EXCEPT ![req[h]] = TRUE]
    /\ IF Levels <= 1 THEN Goto(h, "secondLevel") ELSE Return(h)
    /\ UNCHANGED <<status, form, decision, settings, bounds>>

SecondLevel(h) ==
    /\ pc[h] = "secondLevel"
    /\ WriteStatus(h, "approved")
    /\ Return(h)
    /\ UNCHANGED <<form, l1, decision, settings, bounds>>

\* A cancelled permission can still be rejected.
RejectPermission(h, r) ==
    /\ status[r] # None /\ status[r] \notin {"approved", "rejected"}
    /\ Begin(h, r, "reject")
    /\ UNCHANGED <<tables, bounds>>

RejectWrite(h) ==
    /\ pc[h] = "reject"
    /\ WriteStatus(h, "rejected")
    /\ Return(h)
    /\ UNCHANGED <<form, l1, decision, settings, bounds>>

\* By the employee who filed it.
CancelPermission(h, r) ==
    /\ status[r] = "pending"
    /\ Begin(h, r, "cancel")
    /\ UNCHANGED <<tables, bounds>>

CancelWrite(h) ==
    /\ pc[h] = "cancel"
    /\ WriteStatus(h, "cancelled")
    /\ Return(h)
    /\ UNCHANGED <<form, l1, decision, settings, bounds>>

-----------------------------------------------------------------------------
(* The coverage verdict.                                                   *)

OnFile(d, S) == {r \in Requests : form[r] # None /\ form[r].date = d /\ status[r] \in S}

Verdicts == {"approve", "caution", "danger", "unknown"}

\* The heads over what is required on date d when n of those scheduled are away.
Gap(d, n, required) == Max({0, Scheduled[d] - n}) - required

Judge(gap) == IF gap < 0 THEN "danger" ELSE IF gap < SurplusSafe THEN "caution" ELSE "approve"

\* Mutant: permissions that are still pending are not taken as absences.
Verdict_ApprovedOnly(d) == Judge(Gap(d, Cardinality(OnFile(d, {"approved"})), Required[d]))

\* assessCoverage counts every permission of the date, pending or approved.
Verdict(d) == Judge(Gap(d, Cardinality(OnFile(d, {"approved", "pending"})), Required[d]))

\* A SELECT of assessCoverage that fails is taken for an empty one.  Without
\* permissions nobody is away, without history nobody is required; without a
\* roster, or when assess fails as a whole, there is no verdict.
Misjudged(d) ==
    {Judge(Gap(d, 0, Required[d])),
     Judge(Gap(d, Cardinality(OnFile(d, {"approved", "pending"})), 0)),
     "unknown"}

-----------------------------------------------------------------------------
(* Auto Mode.                                                              *)

\* saveSettings stores the switches and, when they are on, starts a pass.
SaveSettings(h, s) ==
    /\ pc[h] = "idle"
    /\ saves < MaxSaves
    /\ saves' = saves + 1
    /\ settings' = s
    /\ IF s.enabled THEN Goto(h, "settings") ELSE Return(h)
    /\ UNCHANGED <<status, form, l1, decision, failures>>

\* The timer, or an administrator, starts a pass.
Tick(h) ==
    /\ pc[h] = "idle"
    /\ settings.enabled
    /\ Goto(h, "settings")
    /\ UNCHANGED <<tables, bounds>>

\* tick works with the settings it has read, to its end.
ReadSettings(h) ==
    /\ pc[h] = "settings"
    /\ \/ /\ settings.enabled
          /\ pass' = [pass EXCEPT ![h].mode = settings]
          /\ pc' = [pc EXCEPT ![h] = "select"]
          /\ UNCHANGED <<req, filing>>
       \/ ~settings.enabled /\ Return(h)
    /\ UNCHANGED <<tables, bounds>>

\* LEFT JOIN request_permissions: a request without its row has no date.
DateOf(r) == IF form[r] = None THEN Today ELSE form[r].date

\* Mutants: a decision that was reverted does not count as one; the status is
\* not asked for.
Undecided_Again == {r \in Requests : status[r] = "pending"
                                     /\ (decision[r] = None \/ decision[r].reverted)}
Undecided_AnyStatus == {r \in Requests : status[r] # None /\ decision[r] = None}

\* Pending, and never decided by Auto Mode, reverted or not.
Undecided == {r \in Requests : status[r] = "pending" /\ decision[r] = None}

\* The SELECT has a LIMIT and no ORDER BY: any Limit of the rows may come.
SelectPending(h) ==
    /\ pc[h] = "select"
    /\ \/ Undecided = {} /\ Return(h)
       \/ /\ Undecided # {}
          /\ \E rows \in kSubset(Min({Limit, Cardinality(Undecided)}), Undecided) :
                pass' = [pass EXCEPT ![h].todo = {<<r, DateOf(r)>> : r \in rows}]
          /\ pc' = [pc EXCEPT ![h] = "decide"]
          /\ UNCHANGED <<req, filing>>
    /\ UNCHANGED <<tables, bounds>>

\* Mutants: the switches are swapped; the verdict is taken for the decision.
Choice_Swapped(mode, verdict) ==
    IF verdict = "approve" /\ mode.reject THEN "approve"
    ELSE IF verdict = "danger" /\ mode.approve THEN "reject"
    ELSE "hold"
Choice_Verdict(mode, verdict) == IF verdict \in {"approve", "danger"} THEN verdict ELSE "hold"

\* What a pass does on a verdict, in the mode it has read.
Choice(mode, verdict) ==
    IF verdict = "approve" /\ mode.approve THEN "approve"
    ELSE IF verdict = "danger" /\ mode.reject THEN "reject"
    ELSE "hold"

\* The request in hand is done: on to the next one, or to the end.
NextRequest(h, p) ==
    IF p.todo = {} THEN Return(h)
    ELSE /\ pass' = [pass EXCEPT ![h] = [p EXCEPT !.chosen = None]]
         /\ pc' = [pc EXCEPT ![h] = "decide"]
         /\ req' = [req EXCEPT ![h] = None]
         /\ UNCHANGED filing

\* One request of the list is judged; the verdict of its date is kept for the
\* rest of the pass, the one a failed SELECT has led to included.
Decide(h) ==
    /\ pc[h] = "decide"
    /\ \E t \in pass[h].todo, v \in Verdicts :
          /\ IF pass[h].verdicts[t[2]] # None
             THEN v = pass[h].verdicts[t[2]] /\ UNCHANGED failures
             ELSE \/ v = Verdict(t[2]) /\ UNCHANGED failures
                  \/ /\ v \in Misjudged(t[2])
                     /\ failures < MaxFailures
                     /\ failures' = failures + 1
          /\ LET choice == Choice(pass[h].mode, v)
                 p == [pass[h] EXCEPT !.todo = @ \ {t}, !.verdicts[t[2]] = v,
                                      !.chosen = choice]
             IN
             \/ choice = "hold" /\ NextRequest(h, p)
             \/ /\ choice # "hold"
                /\ pass' = [pass EXCEPT ![h] = p]
                /\ pc' = [pc EXCEPT ![h] = "record"]
                /\ req' = [req EXCEPT ![h] = t[1]]
                /\ UNCHANGED filing
    /\ UNCHANGED <<tables, saves>>

\* INSERT ... ON CONFLICT DO NOTHING: the first decision stays, and the pass
\* goes on either way.
Record(h) ==
    /\ pc[h] = "record"
    /\ decision' = [decision EXCEPT ![req[h]] =
                       IF @ = None THEN [kind |-> pass[h].chosen, reverted |-> FALSE] ELSE @]
    /\ Goto(h, "stamp")
    /\ UNCHANGED <<status, form, l1, settings, bounds>>

\* Mutant: the approval is signed, the status is left.
Stamp_SignOnly(h) ==
    /\ pc[h] = "stamp"
    /\ pass[h].chosen = "approve"
    /\ l1' = [l1 EXCEPT ![req[h]] = TRUE]
    /\ NextRequest(h, pass[h])
    /\ UNCHANGED <<status, form, decision, settings, bounds>>

\* The status is written, by id alone.
Stamp(h) ==
    /\ pc[h] = "stamp"
    /\ \/ /\ pass[h].chosen = "approve"
          /\ WriteStatus(h, "approved")
          /\ l1' = [l1 EXCEPT ![req[h]] = TRUE]
       \/ /\ pass[h].chosen = "reject"
          /\ WriteStatus(h, "rejected")
          /\ UNCHANGED l1
    /\ NextRequest(h, pass[h])
    /\ UNCHANGED <<form, decision, settings, bounds>>

\* revert: only a decision that is not reverted yet.
Revert(h, r) ==
    /\ decision[r] # None /\ ~decision[r].reverted
    /\ Begin(h, r, "revertStatus")
    /\ UNCHANGED <<tables, bounds>>

\* The request goes back to pending, whatever became of it since.
RevertStatus(h) ==
    /\ pc[h] = "revertStatus"
    /\ WriteStatus(h, "pending")
    /\ l1' = [l1 EXCEPT ![req[h]] = FALSE]
    /\ Goto(h, "revertMark")
    /\ UNCHANGED <<form, decision, settings, bounds>>

RevertMark(h) ==
    /\ pc[h] = "revertMark"
    /\ decision' = [decision EXCEPT ![req[h]].reverted = TRUE]
    /\ Return(h)
    /\ UNCHANGED <<status, form, l1, settings, bounds>>

-----------------------------------------------------------------------------
(* Failures.                                                               *)

\* Auto Mode swallows a failed statement (.catch) and goes on.
Swallow(h) ==
    /\ failures < MaxFailures
    /\ failures' = failures + 1
    /\ \/ pc[h] = "record" /\ Goto(h, "stamp")
       \/ pc[h] = "stamp" /\ NextRequest(h, pass[h])
       \/ pc[h] = "revertStatus" /\ Goto(h, "revertMark")
       \/ pc[h] = "revertMark" /\ Return(h)
    /\ UNCHANGED <<tables, saves>>

\* Elsewhere a failed statement ends the call, and a restart ends any.
Fail(h) ==
    /\ pc[h] # "idle"
    /\ failures < MaxFailures
    /\ failures' = failures + 1
    /\ Return(h)
    /\ UNCHANGED <<tables, saves>>

-----------------------------------------------------------------------------
(* The system.                                                             *)

Call(h) ==
    \/ h \in Filers /\ \E f \in Form : CreateRequest(h, f)
    \/ h \in Deciders /\ \E r \in Requests :
          \/ Approve(h, r) \/ Reject(h, r)
          \/ ApprovePermission(h, r) \/ RejectPermission(h, r) \/ CancelPermission(h, r)
    \/ h \in Passes /\ \E s \in Settings : SaveSettings(h, s)
    \/ h \in Reverters /\ \E r \in Requests : Revert(h, r)

Step(h) ==
    \/ CheckMinutes(h) \/ InsertPermission(h)
    \/ \E r \in Requests : InsertRequest(h, r)
    \/ ApproveWrite(h) \/ FirstLevel(h) \/ SecondLevel(h)
    \/ RejectWrite(h) \/ CancelWrite(h)
    \/ ReadSettings(h) \/ SelectPending(h) \/ Decide(h) \/ Record(h) \/ Stamp(h)
    \/ RevertStatus(h) \/ RevertMark(h)

Next == \E h \in Handlers :
    \/ Call(h) \/ Step(h) \/ Swallow(h) \/ Fail(h)
    \/ h \in Passes /\ Tick(h)

Spec == Init /\ [][Next]_vars

\* setInterval starts passes for ever, and a query is answered.
Fairness == \A h \in Handlers : WF_vars(Step(h)) /\ (h \in Passes => WF_vars(Tick(h)))

FairSpec == Spec /\ Fairness
-----------------------------------------------------------------------------
(* Properties.                                                             *)

Labels ==
    {"idle", "checkMinutes", "insertRequest", "insertPermission", "approve",
     "firstLevel", "secondLevel", "reject", "cancel", "settings", "select",
     "decide", "record", "stamp", "revertStatus", "revertMark"}

\* Labels of a handler that works on a request.
Working == Labels \ {"idle", "checkMinutes", "insertRequest", "settings", "select", "decide"}

\* The locals of a pass.
PassLocals ==
    [mode : Mode \cup {None}, todo : SUBSET (Requests \X Dates),
     verdicts : [Dates -> Verdicts \cup {None}], chosen : {"approve", "reject", None}]

\* Every table and every local has its type, and a handler that writes to a
\* request holds one: a pass with the decision it has chosen, a revert with
\* the decision on record.
TypeOK ==
    /\ status \in [Requests -> Statuses \cup {None}]
    /\ form \in [Requests -> Form \cup {None}]
    /\ l1 \in [Requests -> BOOLEAN]
    /\ decision \in [Requests -> Acted \cup {None}]
    /\ settings \in Mode
    /\ pc \in [Handlers -> Labels]
    /\ req \in [Handlers -> Requests \cup {None}]
    /\ filing \in [Handlers -> Form \cup {None}]
    /\ pass \in [Handlers -> PassLocals]
    /\ saves \in 0 .. MaxSaves /\ failures \in 0 .. MaxFailures
    /\ \A h \in Handlers :
        /\ pc[h] \in Working <=> req[h] \in Requests
        /\ pc[h] \in {"record", "stamp"} => pass[h].chosen # None
        /\ pc[h] \in {"revertStatus", "revertMark"} => decision[req[h]] # None

\* "Maximum 3 permissions per week", "6 hours total per cycle/week"
\* (permission-request.types.ts): what is on file keeps the weekly quota.
WeeklyQuota ==
    \A e \in Employees, w \in {Week[d] : d \in Dates} :
        /\ Cardinality(Counted(e, w)) <= MaxPerWeek
        /\ UsedMinutes(e, w) <= MaxMinutesPerWeek

\* "If no L1 approval yet -> set L1" (permission-request.service.ts): an
\* approved permission carries a first-level signature, whichever of the three
\* routes approved it and however they race.
ApprovedIsSigned == \A r \in Requests : status[r] = "approved" => l1[r]

\* "function has SAFE surplus -> auto-approve" (automode.service.ts): where
\* only Auto Mode approves, the approved permissions of a date leave it the
\* safe surplus, though a pass reuses one verdict for all of them and passes
\* overlap.
SurplusKept ==
    \A d \in Dates :
        LET away == Cardinality(OnFile(d, {"approved"})) IN
        away > 0 => Gap(d, away, Required[d]) >= SurplusSafe

\* Auto Mode changes the status of request r.
AutoWrites(h, r) == pc[h] = "stamp" /\ req[h] = r /\ status'[r] # status[r]

\* "a background loop decides pending requests" (automode.service.ts): Auto
\* Mode never changes what a person, or another pass, has decided.
AutoDecidesPending ==
    [][\A h \in Handlers, r \in Requests : AutoWrites(h, r) => status[r] = "pending"]_vars

\* "One acted decision per request (don't re-decide the same request)"
\* (031_auto_mode.sql): what Auto Mode writes is the decision on record, and
\* nothing once that is reverted; only a failed INSERT leaves it without one.
AutoActsOnRecord ==
    [][\A h \in Handlers, r \in Requests : AutoWrites(h, r) =>
          /\ decision[r] = None => failures > 0
          /\ decision[r] # None => ~decision[r].reverted /\ decision[r].kind = pass[h].chosen]_vars

\* A pending request of a date with a safe surplus is decided in the end,
\* by Auto Mode or by a person, or the surplus goes.
SurplusIsUsed ==
    \A r \in Requests :
        (status[r] = "pending" /\ form[r] # None /\ Verdict(form[r].date) = "approve")
        ~> (decision[r] # None \/ status[r] # "pending" \/ Verdict(form[r].date) # "approve")

\* The request is pending behind a decision that no pass will touch again.
Stuck(r) == status[r] = "pending" /\ decision[r] # None /\ ~decision[r].reverted

\* A recorded decision takes effect: Auto Mode skips a request that has one, so
\* it must not stay pending.
DecisionsTakeEffect == \A r \in Requests : Stuck(r) ~> ~Stuck(r)
=============================================================================
