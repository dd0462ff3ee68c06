------------------------------- MODULE Dashboard -------------------------------
(***************************************************************************)
(* The dashboard process: the scheduler thread of the test autopilot       *)
(* (ui_server.py, ui_service.py, ui_automation.py) beside the requests of  *)
(* its operators (ui_dashboard.py, ui_campaign.py, ui_control_plane.py):   *)
(* settings of the autopilot, campaign drafts and the target they impose,  *)
(* mandates, the kill switch, manual test runs, the proposals such a run   *)
(* leaves for an exact approval, and the evaluation of applied changes     *)
(* (ui_workflows.py, impact.py).                                           *)
(*                                                                         *)
(* Requests run concurrently; pc marks the points between two durable      *)
(* transactions.  The two executors are one step each here: what happens   *)
(* inside them is ApprovalExecution and BoundedAutonomy.  Scenarios and    *)
(* tunings are named; AutomationRules decides about what they stand for.   *)
(***************************************************************************)
EXTENDS ImpactRules, Functions, Sequences

CONSTANTS
  Clients,      \* operators' connections
  Scheduler,    \* the automation thread
  Nobody,       \* no process, no instant
  ScenarioOf,   \* scenario name -> raw facts
  TuningOf,     \* tuning name -> [rules, advice]
  Policies,     \* the autopilot policies an operator may send
  Targets,      \* the target CPAs an editor may save
  MandateLife, GrantLife, Quiet,  \* durations
  RevisedSteps, \* the steps an operator may ask for
  Sessions      \* bounds: which requests arrive, about which policies, how
                \* many, until when, which faults may happen meanwhile, and,
                \* for evaluations, the traffic of each day, the conversions
                \* it may have, and the requests

Procs == Clients \cup {Scheduler}
SessionKinds ==
  {"configure", "run", "grant", "withdraw", "approve", "revise", "revoke",
   "switch", "edit", "create", "select", "delete", "evaluate"}
Policy == [every : Int, facts : DOMAIN ScenarioOf, rules : DOMAIN TuningOf, target : Int]
Period == [from : Nat, to : Int, usable : BOOLEAN]
Impact == [run : STRING, baseline : Period, post : Period, changed : Int,
           sameCampaign : BOOLEAN, evidence : BOOLEAN, confounded : BOOLEAN,
           fixture : STRING]

ASSUME DashboardAssumption ==
  /\ Scheduler \notin Clients /\ Nobody \notin Procs \cup Int
  /\ {MandateLife, GrantLife, Quiet} \subseteq Int
  /\ RevisedSteps \subseteq 1..Gate.step /\ Targets \subseteq Int
  /\ Policies \subseteq Policy
  /\ "default" \in DOMAIN ScenarioOf \cap DOMAIN TuningOf
  /\ \A name \in DOMAIN ScenarioOf : Scenario(ScenarioOf[name])
  /\ \A name \in DOMAIN TuningOf :
       TuningOf[name].rules \in TriggerRules /\ TuningOf[name].advice \in RecommendationRules
  /\ \A bounds \in Sessions :
       /\ bounds.kinds \subseteq SessionKinds /\ bounds.policies \subseteq Policies
       /\ bounds.faults \subseteq {"crash", "disk", "database"}
       /\ {bounds.requests, bounds.until} \subseteq Int
       /\ DOMAIN bounds.traffic \subseteq Nat
       /\ bounds.conversions \subseteq [DOMAIN bounds.traffic -> Nat]
       /\ bounds.impacts \subseteq Impact
       /\ \A r \in bounds.impacts :
            (r.baseline.from..r.baseline.to) \cup (r.post.from..r.post.to)
              \subseteq DOMAIN bounds.traffic

VARIABLES
  session,   \* the bounds of this behaviour
  settings,  \* automation_settings: enabled, next_run_at, policy
  mandates,  \* mandates, in the order of their rows
  killed,    \* the kill switch
  quiet,     \* the instant the shared write window opens again
  drafts,    \* campaign_drafts, newest first
  selected,  \* selected_campaign_id
  runs,      \* ui-report.json and proposal.json of each run, never rewritten
  grants,    \* approvals
  applied,   \* the changes executors applied, with what they were bound to
  history,   \* decision_history
  lock,      \* _test_run_lock
  measured,  \* conversions of each day the counter shows
  late,      \* conversions of each day it does not show yet
  documents, \* impact_report.json and impact_workflow.json of each run
  now, pc, job,
  sent,      \* requests sent so far
  claims,    \* ghost: the cycles claim_due handed out
  lost,      \* ghost: claims whose process or thread died
  asked      \* ghost: what operators asked for, see WriteSettings

vars == <<session, settings, mandates, killed, quiet, drafts, selected, runs,
          grants, applied, history, lock, measured, late, documents, now, pc, job,
          sent, claims, lost, asked>>

settingsVars == <<settings, asked>>
authorityVars == <<mandates, killed, grants>>
draftVars == <<drafts, selected>>
reportVars == <<runs, history>>
executionVars == <<quiet, applied>>
impactVars == <<measured, late, documents>>
clockVars == <<session, now, sent, claims, lost>>

FirstPolicy ==
  [every |-> 1, facts |-> "default", rules |-> "default", target |-> Gate.target]
NoJob ==
  [kind |-> "none", policy |-> FirstPolicy,
   on |-> FALSE, read |-> Nobody, claim |-> 0, mandate |-> 0, at |-> 0,
   run |-> 0, step |-> 0, exec |-> "none", op |-> "NO_CHANGE",
   target |-> 0, draft |-> 0, seen |-> 0, fresh |-> 0, decisions |-> 0,
   cycles |-> 0, request |-> Nobody]

------------------------------------------------------------------------------
(* Tables and helpers                                                      *)

Goto(p, where) == pc' = [pc EXCEPT ![p] = where]
Work(p, where, work) == Goto(p, where) /\ job' = [job EXCEPT ![p] = work]
Return(p) == Work(p, "idle", NoJob)
At(p, where) == pc[p] = where

Rules(policy) == TuningOf[policy.rules].rules
AdviceRules(policy) == [TuningOf[policy.rules].advice EXCEPT !.target = policy.target]
Facts(policy) == ScenarioOf[policy.facts]

\* The checks of AutomationStore.configure.
ValidPolicy(policy) ==
  /\ policy.every \in 1..10080
  /\ ValidRules(Rules(policy))
  /\ ValidScenario(Facts(policy))
  /\ ValidAdviceRules(AdviceRules(policy), Gate.target)

\* The status column is never updated when a mandate expires.
StoredActive == {i \in DOMAIN mandates : mandates[i].status = "ACTIVE"}
NewestActive ==
  IF StoredActive = {} THEN 0
  ELSE CHOOSE i \in StoredActive : \A j \in StoredActive : j <= i
OldestActive == CHOOSE i \in StoredActive : \A j \in StoredActive : i <= j

Draft(id) == CHOOSE i \in DOMAIN drafts : drafts[i].id = id
Exists(id) == \E i \in DOMAIN drafts : drafts[i].id = id
\* _selected_id: the newest draft when the selected one is gone.
SelectedId == IF Exists(selected) THEN selected ELSE drafts[1].id
SelectedDraft == drafts[Draft(SelectedId)]
Without(id) ==
  SubSeq(drafts, 1, Draft(id) - 1) \o SubSeq(drafts, Draft(id) + 1, Len(drafts))

Pending(r) == r \in DOMAIN runs /\ runs[r].exec = "PENDING_APPROVAL"
GrantsFor(r) == {g \in DOMAIN grants : grants[g].run = r}
\* load_bound_approval: the newest grant of the exact proposal.
BoundGrant(r) == CHOOSE g \in GrantsFor(r) : \A h \in GrantsFor(r) : h <= g
Usable(g, at) == grants[g].status = "GRANTED" /\ at < grants[g].until
\* A change is looked up by the grant that was bound, not by the proposal.
ProcessedByGrant(r) ==
  \E i \in DOMAIN applied : applied[i].run = r /\ applied[i].grant = BoundGrant(r)
\* _completed_outcome: the execution key binds the exact proposal.
Processed(r) == \E i \in DOMAIN applied : applied[i].run = r

\* What either executor asks of the control plane at the dispatch.
WindowOpen(at) == ~killed /\ at >= quiet

\* grant_approval: a row of its own for every grant, bound to the proposal.
NewGrant(r) == [run |-> r, until |-> now + GrantLife, status |-> "GRANTED"]

\* The draft a store without drafts starts with.
FirstDraft == [id |-> 1, revision |-> 0, target |-> Gate.target]

NextRow(p, r, exec) ==
  Append(history, [claim |-> job[p].claim, run |-> r, exec |-> exec])

------------------------------------------------------------------------------
(* AutomationStore.__init__, DashboardCampaignStore._initialize            *)
Init ==
  /\ session \in Sessions
  /\ settings = [enabled |-> FALSE, next |-> Nobody, policy |-> FirstPolicy]
  /\ mandates = <<>> /\ killed = FALSE /\ quiet = 0
  /\ drafts = <<FirstDraft>> /\ selected = FirstDraft.id
  /\ runs = <<>> /\ grants = <<>> /\ applied = <<>> /\ history = <<>>
  /\ lock = Nobody /\ now = 0 /\ sent = 0
  /\ late \in session.conversions /\ measured = [day \in DOMAIN late |-> 0]
  /\ documents = <<>>
  /\ pc = [p \in Procs |-> "idle"] /\ job = [p \in Procs |-> NoJob]
  /\ claims = <<>> /\ lost = {}
  /\ asked = [on |-> FALSE, decisions |-> 0, overlapped |-> FALSE, restarted |-> FALSE,
              stale |-> FALSE]

------------------------------------------------------------------------------
(* The scheduler thread: run_due_automation                                *)

\* claim_due, one transaction: the next cycle is due one interval from now.
ClaimDue ==
  /\ At(Scheduler, "idle") /\ settings.enabled
  /\ settings.next = Nobody \/ settings.next <= now
  /\ settings' = [settings EXCEPT !.next = now + settings.policy.every]
  /\ claims' = Append(claims, [at |-> now, every |-> settings.policy.every,
                               asked |-> asked])
  /\ asked' = [asked EXCEPT !.restarted = FALSE, !.stale = FALSE]
  /\ Work(Scheduler, "claimed",
          [NoJob EXCEPT !.kind = "cycle", !.claim = Len(claims) + 1])
  /\ UNCHANGED <<session, now, sent, lost, authorityVars, draftVars, reportVars,
                 executionVars, lock>>

\* The settings of the cycle are read after the claim has committed.
ReadCycle ==
  /\ At(Scheduler, "claimed")
  /\ Work(Scheduler, "mandate", [job[Scheduler] EXCEPT !.policy = settings.policy])
  /\ UNCHANGED <<clockVars, settingsVars, authorityVars, draftVars, reportVars,
                 executionVars, lock>>

PickMandate ==
  /\ At(Scheduler, "mandate")
  /\ Work(Scheduler, "begin", [job[Scheduler] EXCEPT !.mandate = NewestActive])
  /\ UNCHANGED <<clockVars, settingsVars, authorityVars, draftVars, reportVars,
                 executionVars, lock>>

\* The rules were validated when they were stored, so only authority matters.
RefusedForAuthority(p) == lock # Nobody \/ (job[p].kind = "cycle" /\ job[p].mandate = 0)
\* What keeps run from starting: TEST_RUN_IN_PROGRESS, MANDATE_REQUIRED, and
\* rules that the target of the selected campaign does not allow.
Refused(p) ==
  \/ lock # Nobody
  \/ job[p].kind = "cycle" /\ job[p].mandate = 0
  \/ ~ValidRules(Rules(job[p].policy))
  \/ ~ValidScenario(Facts(job[p].policy))
  \/ ~ValidAdviceRules(AdviceRules(job[p].policy), SelectedDraft.target)

\* A cycle that could not start just ends.
FailSilently(p) == Return(p)
\* The exception of a cycle is recorded, that of a request is answered.
Fail(p) == IF p = Scheduler THEN Work(p, "failed", job[p]) ELSE Return(p)

\* run and _run up to the run directory.
BeginRun(p) ==
  /\ At(p, "begin")
  /\ \/ Refused(p) /\ Fail(p) /\ UNCHANGED lock
     \/ /\ ~Refused(p)
        /\ lock' = p
        /\ Work(p, "decide", [job[p] EXCEPT !.at = now, !.target = SelectedDraft.target])
  /\ UNCHANGED <<clockVars, settingsVars, authorityVars, draftVars, reportVars,
                 executionVars>>

\* _prepare_simulated_change: what is applied is bound to the proposal.
Prepared(r, g, op, step) == [run |-> r, grant |-> g, op |-> op, step |-> step]

MandateUsable(m, at) == mandates[m].status = "ACTIVE" /\ at < mandates[m].until

\* The executions that invoke no executor.
Settle(p, exec, advice) ==
  /\ Work(p, "report", [job[p] EXCEPT !.exec = exec, !.op = advice.operation,
                                      !.step = advice.step])
  /\ UNCHANGED executionVars

\* BoundedAutonomyService.execute as one step; its policy may refuse.
ExecuteBounded(p, advice) ==
  \/ /\ MandateUsable(job[p].mandate, job[p].at) /\ WindowOpen(job[p].at)
     /\ quiet' = job[p].at + Quiet
     /\ applied' = Append(applied, Prepared(0, 0, advice.operation, advice.step))
     /\ Work(p, "report", [job[p] EXCEPT !.exec = "APPLIED", !.op = advice.operation,
                                         !.step = advice.step])
  \/ Settle(p, "BLOCKED", advice)

\* The order in which _run chooses what happens to a proposal.
Decide(p) ==
  LET facts == Facts(job[p].policy)
      rules == Rules(job[p].policy)
      advice == Advised(facts, rules, AdviceRules(job[p].policy)).diff
      scheduled == job[p].kind = "cycle"
  IN /\ At(p, "decide")
     /\ IF scheduled /\ Triggers(facts, rules) = {} THEN Settle(p, "NOT_TRIGGERED", advice)
        ELSE IF SafetyTriggers(facts, rules) # {} THEN Settle(p, "BLOCKED", advice)
        ELSE IF advice.operation = "NO_CHANGE" THEN Settle(p, "NO_CHANGE", advice)
        ELSE IF scheduled THEN ExecuteBounded(p, advice)
        ELSE Settle(p, "PENDING_APPROVAL", advice)
     /\ UNCHANGED <<clockVars, settingsVars, authorityVars, draftVars, reportVars, lock>>

ReportOf(p) ==
  [kind |-> job[p].kind, source |-> job[p].run, policy |-> job[p].policy,
   op |-> job[p].op, step |-> job[p].step, exec |-> job[p].exec,
   target |-> job[p].target,
   goal |-> GoalStatus(Facts(job[p].policy), AdviceRules(job[p].policy))]

Released(p) == IF lock = p THEN Nobody ELSE lock

\* The report and the proposal, which later requests may read from now on.
WriteReport(p) ==
  /\ At(p, "report")
  /\ runs' = Append(runs, ReportOf(p))
  /\ Work(p, "record", [job[p] EXCEPT !.run = Len(runs) + 1])
  /\ UNCHANGED <<clockVars, settingsVars, authorityVars, draftVars, history,
                 executionVars, lock>>

\* Its evidence and the row of the ledger, then the lock.
RecordReport(p) ==
  /\ At(p, "record")
  /\ history' = NextRow(p, job[p].run, job[p].exec)
  /\ lock' = Released(p)
  /\ Return(p)
  /\ UNCHANGED <<clockVars, settingsVars, authorityVars, draftVars, runs,
                 executionVars>>

\* A file cannot be written, or the row: what was applied stays applied, and a
\* report that was written stays visible.
ReportFails(p) ==
  /\ \/ At(p, "report") /\ "disk" \in session.faults
     \/ At(p, "record") /\ {"disk", "database"} \cap session.faults # {}
  /\ lock' = Released(p)
  /\ Fail(p)
  /\ UNCHANGED <<clockVars, settingsVars, authorityVars, draftVars, reportVars,
                 executionVars>>

\* record_failure.
RecordFailure ==
  /\ At(Scheduler, "failed")
  /\ history' = NextRow(Scheduler, 0, "BLOCKED")
  /\ Return(Scheduler)
  /\ UNCHANGED <<clockVars, settingsVars, authorityVars, draftVars, runs,
                 executionVars, lock>>

\* A database error is none of the exceptions _automation_loop survives.
SchedulerDies ==
  /\ "database" \in session.faults /\ At(Scheduler, "failed")
  /\ lost' = lost \cup {job[Scheduler].claim}
  /\ Work(Scheduler, "dead", NoJob)
  /\ UNCHANGED <<session, now, sent, claims, settingsVars, authorityVars, draftVars,
                 reportVars, executionVars, lock>>

------------------------------------------------------------------------------
(* Requests: the autopilot                                                 *)

Request(c, kind) ==
  /\ At(c, "idle") /\ kind \in session.kinds /\ sent < session.requests
  /\ sent' = sent + 1
  /\ UNCHANGED <<session, now, claims, lost>>

Configure(c, policy, on) ==
  /\ Request(c, "configure")
  /\ Work(c, "authority",
          [NoJob EXCEPT !.kind = "configure", !.policy = policy, !.on = on])
  /\ UNCHANGED <<settingsVars, authorityVars, draftVars, reportVars, executionVars, lock>>

\* configure_test_automation issues and activates a mandate before anything
\* of the request has been validated.
EnsureMandate(c) ==
  /\ At(c, "authority")
  /\ IF job[c].on /\ StoredActive = {}
     THEN mandates' = Append(mandates, [status |-> "ACTIVE", until |-> now + MandateLife])
     ELSE UNCHANGED mandates
  /\ Goto(c, "validate")
  /\ UNCHANGED <<clockVars, settingsVars, killed, grants, draftVars, reportVars,
                 executionVars, lock, job>>

\* configure: the checks, and the current settings read outside the write.
ReadCurrent(c) ==
  /\ At(c, "validate")
  /\ IF ValidPolicy(job[c].policy)
     THEN Work(c, "write", [job[c] EXCEPT !.read = settings, !.cycles = Len(claims)])
     ELSE Return(c)
  /\ UNCHANGED <<clockVars, settingsVars, authorityVars, draftVars, reportVars,
                 executionVars, lock>>

\* A policy that was off, or that changes, starts over at once.
Restarts(read, policy) == ~read.enabled \/ read.policy # policy
NextRunNow(read, policy, on) == IF on THEN now ELSE Nobody
NextRun(read, policy, on) ==
  IF ~on THEN Nobody
  ELSE IF Restarts(read, policy) \/ read.next = Nobody THEN now
  ELSE read.next

\* The write.  The ghost remembers what an operator last decided, whether a
\* draft's synchronisation has since written back a switch it had read
\* before that; and whether a write since the last claim started the schedule
\* over, or had read it before that claim.
WriteSettings(c) ==
  LET work == job[c]
      next == NextRun(work.read, work.policy, work.on)
      mine == work.kind = "configure"
      again == work.on /\ Restarts(work.read, work.policy)
      stale == work.cycles # Len(claims)
  IN /\ At(c, "write")
     /\ settings' = [enabled |-> work.on, next |-> next, policy |-> work.policy]
     /\ asked' =
          [on |-> IF mine THEN work.on ELSE asked.on,
           decisions |-> asked.decisions + (IF mine THEN 1 ELSE 0),
           overlapped |-> ~mine /\ (asked.overlapped \/ work.decisions # asked.decisions),
           restarted |-> asked.restarted \/ again, stale |-> asked.stale \/ stale]
     /\ Return(c)
     /\ UNCHANGED <<clockVars, authorityVars, draftVars, reportVars, executionVars, lock>>

------------------------------------------------------------------------------
(* Requests: campaign drafts                                               *)

\* The operator works on a draft as it was shown.
OpenDraft(c, kind, i, target) ==
  /\ kind \in {"edit", "create", "select", "delete"} /\ Request(c, kind)
  /\ Work(c, "check", [NoJob EXCEPT !.kind = kind, !.draft = drafts[i].id,
                                    !.seen = drafts[i].revision, !.fresh = sent + 2,
                                    !.target = target])
  /\ UNCHANGED <<settingsVars, authorityVars, draftVars, reportVars, executionVars, lock>>

\* load: the draft still exists, and a new one is created from the selected
\* campaign as it was shown.  Another request may come before the write.
CheckDraft(c) ==
  /\ At(c, "check")
  /\ \/ /\ Exists(job[c].draft)
        /\ job[c].kind = "create" => SelectedDraft.revision = job[c].seen
        /\ Work(c, job[c].kind,
                IF job[c].kind = "select"
                THEN [job[c] EXCEPT !.target = drafts[Draft(job[c].draft)].target]
                ELSE job[c])
     \/ /\ ~Exists(job[c].draft)
           \/ (job[c].kind = "create" /\ SelectedDraft.revision # job[c].seen)
        /\ Return(c)
  /\ UNCHANGED <<clockVars, settingsVars, authorityVars, draftVars, reportVars,
                 executionVars, lock>>

Revision(id) == drafts[Draft(id)].revision
Current(c) == Exists(job[c].draft) /\ Revision(job[c].draft) = job[c].seen

\* The transactions, and what each selects; the dashboard then brings the
\* target of the selected campaign into the settings of the autopilot.
Saved(c, rows, id) ==
  /\ drafts' = rows /\ selected' = id
  /\ Work(c, "sync", [job[c] EXCEPT !.target = rows[CHOOSE i \in DOMAIN rows :
                                                      rows[i].id = id].target])
DraftUnchanged == UNCHANGED <<clockVars, settingsVars, authorityVars, reportVars,
                              executionVars, lock>>

\* _save: the revision is compared in the transaction that replaces it.
SaveDraft(c) ==
  /\ At(c, "edit")
  /\ IF Current(c)
     THEN Saved(c, <<[id |-> job[c].draft, revision |-> job[c].seen + 1,
                      target |-> job[c].target]>> \o Without(job[c].draft), job[c].draft)
     ELSE Return(c) /\ UNCHANGED draftVars
  /\ DraftUnchanged

\* create_new: a draft with an id of its own and the defaults of the policy.
CreateDraft(c) ==
  LET id == job[c].fresh
  IN /\ At(c, "create")
     /\ Saved(c, <<[id |-> id, revision |-> 0, target |-> Gate.target]>> \o drafts, id)
     /\ DraftUnchanged

SelectDraft(c) ==
  /\ At(c, "select")
  /\ selected' = job[c].draft /\ UNCHANGED drafts
  /\ Goto(c, "sync") /\ UNCHANGED job
  /\ DraftUnchanged

\* delete: the last draft stays; a deleted selection moves to the newest.
DeleteDraft(c) ==
  LET rest == Without(job[c].draft)
  IN /\ At(c, "delete")
     /\ IF Current(c) /\ Len(drafts) > 1
        THEN Saved(c, rest, IF SelectedId = job[c].draft THEN rest[1].id ELSE SelectedId)
        ELSE Return(c) /\ UNCHANGED draftVars
     /\ DraftUnchanged

\* A draft that is saved gets its autopilot.
SyncEnables(c) ==
  /\ At(c, "sync")
  /\ Work(c, "validate",
          [job[c] EXCEPT !.policy = [settings.policy EXCEPT !.target = job[c].target],
                         !.on = TRUE, !.decisions = asked.decisions])
  /\ UNCHANGED <<clockVars, settingsVars, authorityVars, draftVars, reportVars,
                 executionVars, lock>>
\* _sync_campaign_target: read everything, replace the target, write it all.
SyncTarget(c) ==
  /\ At(c, "sync")
  /\ Work(c, "validate",
          [job[c] EXCEPT !.policy = [settings.policy EXCEPT !.target = job[c].target],
                         !.on = settings.enabled, !.decisions = asked.decisions])
  /\ UNCHANGED <<clockVars, settingsVars, authorityVars, draftVars, reportVars,
                 executionVars, lock>>

------------------------------------------------------------------------------
(* Requests: manual runs and their proposals                               *)

\* A manual run needs an approval for what it proposes.
RunTest(c, policy) ==
  /\ Request(c, "run")
  /\ Work(c, "begin", [NoJob EXCEPT !.kind = "run", !.policy = policy])
  /\ UNCHANGED <<settingsVars, authorityVars, draftVars, reportVars, executionVars, lock>>

\* grant_pending_proposal: the proposal is registered and bound exactly.
Grant(c, r) ==
  /\ Request(c, "grant") /\ Pending(r)
  /\ grants' = Append(grants, NewGrant(r))
  /\ UNCHANGED <<settingsVars, mandates, killed, draftVars, reportVars, executionVars,
                 lock, pc, job>>

\* revoke_approval: a used approval cannot be revoked.
Withdraw(c, g) ==
  /\ Request(c, "withdraw") /\ grants[g].status = "GRANTED"
  /\ grants' = [grants EXCEPT ![g].status = "REVOKED"]
  /\ UNCHANGED <<settingsVars, mandates, killed, draftVars, reportVars, executionVars,
                 lock, pc, job>>

\* The job that writes a run derived from a pending one.
Derived(kind, r) ==
  [NoJob EXCEPT !.kind = kind, !.run = r, !.policy = runs[r].policy,
                !.op = runs[r].op, !.step = runs[r].step, !.target = runs[r].target,
                !.at = now]

\* revise_pending_run: a new pending proposal with another step.  The one it
\* was made from stays pending.
Revise(c, r, step) ==
  /\ Request(c, "revise") /\ Pending(r) /\ runs[r].step > 0
  /\ Work(c, "report", [Derived("revision", r) EXCEPT !.step = step,
                                                      !.exec = "PENDING_APPROVAL"])
  /\ UNCHANGED <<settingsVars, authorityVars, draftVars, reportVars, executionVars, lock>>

\* approve_pending_run takes no run lock.
Approve(c, r) ==
  /\ Request(c, "approve") /\ Pending(r)
  /\ Work(c, "execute", Derived("approval", r))
  /\ UNCHANGED <<settingsVars, authorityVars, draftVars, reportVars, executionVars, lock>>

\* ApprovalExecutionService.execute as one step; its policy may refuse.
ExecuteApproved(c) ==
  LET r == job[c].run
      g == BoundGrant(r)
      Answer(exec) ==
        Work(c, "report", [job[c] EXCEPT !.exec = exec])
        /\ UNCHANGED <<executionVars, grants>>
  IN /\ At(c, "execute")
     /\ \/ GrantsFor(r) = {} /\ Return(c) /\ UNCHANGED <<executionVars, grants>>
        \/ GrantsFor(r) # {} /\ Processed(r) /\ Answer("ALREADY_PROCESSED")
        \/ GrantsFor(r) # {} /\ ~Processed(r) /\ Answer("BLOCKED")
        \/ /\ GrantsFor(r) # {} /\ ~Processed(r)
           /\ Usable(g, job[c].at) /\ WindowOpen(job[c].at)
           /\ grants' = [grants EXCEPT ![g].status = "USED"]
           /\ quiet' = job[c].at + Quiet
           /\ applied' = Append(applied, Prepared(r, g, job[c].op, job[c].step))
           /\ Work(c, "report", [job[c] EXCEPT !.exec = "APPLIED"])
     /\ UNCHANGED <<clockVars, settingsVars, mandates, killed, draftVars, reportVars, lock>>

------------------------------------------------------------------------------
(* Requests: authority                                                     *)

\* revoke_latest_mandate revokes the first active row.
RevokeMandate(c) ==
  /\ Request(c, "revoke") /\ StoredActive # {}
  /\ mandates' = [mandates EXCEPT ![OldestActive].status = "REVOKED"]
  /\ UNCHANGED <<settingsVars, killed, grants, draftVars, reportVars, executionVars,
                 lock, pc, job>>

\* engage_kill_switch, release_kill_switch.
SwitchKill(c) ==
  /\ Request(c, "switch")
  /\ killed' = ~killed
  /\ UNCHANGED <<settingsVars, mandates, grants, draftVars, reportVars, executionVars,
                 lock, pc, job>>

------------------------------------------------------------------------------
(* Requests: the evaluation of an applied change                           *)

\* The counter shows a conversion of a day that has begun.
ConversionArrives(day) ==
  /\ late[day] > 0 /\ now >= day * Gate.day
  /\ measured' = [measured EXCEPT ![day] = @ + 1]
  /\ late' = [late EXCEPT ![day] = @ - 1]
  /\ UNCHANGED <<clockVars, settingsVars, authorityVars, draftVars, reportVars,
                 executionVars, lock, pc, job, documents>>

\* What the sources say at this moment about some days.
Total(f, days) == SumFunction([day \in days |-> f[day]])
Observed(period, shown) ==
  LET days == period.from..period.to IN
  [from |-> period.from, to |-> period.to, read |-> now, usable |-> period.usable,
   clicks |-> Total([day \in days |-> session.traffic[day].clicks], days),
   cost |-> Total([day \in days |-> session.traffic[day].cost], days),
   visits |-> Total([day \in days |-> session.traffic[day].visits], days),
   conversions |-> Total(shown, days)]

\* The request, whose evaluated_at is what its sender says.
Requested(r, at) ==
  [run |-> r.run, baseline |-> Observed(r.baseline, measured),
   post |-> Observed(r.post, measured), changed |-> r.changed, evaluated |-> at,
   sameCampaign |-> r.sameCampaign, evidence |-> r.evidence,
   confounded |-> r.confounded, fixture |-> r.fixture]
Evaluate(c, r, at) ==
  /\ Request(c, "evaluate")
  /\ Work(c, "evaluate", [NoJob EXCEPT !.kind = "evaluate", !.request = Requested(r, at)])
  /\ UNCHANGED <<impactVars, settingsVars, authorityVars, draftVars, reportVars,
                 executionVars, lock>>

EvaluationUnchanged ==
  UNCHANGED <<clockVars, settingsVars, authorityVars, draftVars, reportVars,
              executionVars, lock, measured, late>>

\* evaluate.
Judge(c) ==
  /\ At(c, "evaluate")
  /\ IF Evaluates(job[c].request) THEN Goto(c, "impact report") /\ UNCHANGED job
     ELSE Return(c)
  /\ UNCHANGED documents /\ EvaluationUnchanged

\* The two documents of a run, each written once: what a request has stored, or
\* finds stored as it would store it, it goes on from.  A file is empty until its
\* bytes are written.
Documents == {"report", "workflow"}
Creating == [report |-> "impact report", workflow |-> "impact workflow"]
Writing == [report |-> "write report", workflow |-> "write workflow"]
Torn == <<>>

Stored(c, kind) ==
  IF kind = "report" THEN Goto(c, "impact workflow") /\ UNCHANGED job ELSE Return(c)
CreateDocument(c, kind) ==
  LET key == <<job[c].request.run, kind>> IN
  /\ At(c, Creating[kind])
  /\ IF key \notin DOMAIN documents
     THEN /\ documents' = [file \in DOMAIN documents \cup {key} |->
                            IF file = key THEN Torn ELSE documents[file]]
          /\ Goto(c, Writing[kind]) /\ UNCHANGED job
     ELSE /\ IF documents[key] = <<ImpactReport(job[c].request)>>
             THEN Stored(c, kind) ELSE Return(c)
          /\ UNCHANGED documents
  /\ EvaluationUnchanged

\* The bytes; a write that fails unlinks its file.
WriteDocument(c, kind) ==
  LET key == <<job[c].request.run, kind>> IN
  /\ At(c, Writing[kind])
  /\ \/ /\ documents' = [documents EXCEPT ![key] = <<ImpactReport(job[c].request)>>]
        /\ Stored(c, kind)
     \/ /\ "disk" \in session.faults
        /\ documents' = [other \in DOMAIN documents \ {key} |-> documents[other]]
        /\ Return(c)
  /\ EvaluationUnchanged

------------------------------------------------------------------------------
(* The process and the clock                                               *)

Crash ==
  /\ "crash" \in session.faults /\ \E p \in Procs : pc[p] # "idle"
  /\ lost' = lost \cup ({job[Scheduler].claim} \ {0})
  /\ pc' = [p \in Procs |-> "idle"] /\ job' = [p \in Procs |-> NoJob]
  /\ lock' = Nobody
  /\ UNCHANGED <<session, now, sent, claims, settingsVars, authorityVars, draftVars,
                 reportVars, executionVars>>

\* The counter shows every conversion before the cutoff for late ones.
InTime(instant) ==
  \A day \in DOMAIN late : late[day] > 0 => instant < (day + 1) * Gate.day + Gate.late

Tick ==
  /\ now < session.until /\ InTime(now + 1)
  /\ now' = now + 1
  /\ UNCHANGED <<session, sent, claims, lost, settingsVars, authorityVars, draftVars,
                 reportVars, executionVars, lock, pc, job>>

Cycle == ClaimDue \/ ReadCycle \/ PickMandate \/ RecordFailure \/ SchedulerDies
Running(p) ==
  BeginRun(p) \/ Decide(p) \/ WriteReport(p) \/ RecordReport(p) \/ ReportFails(p)
Autopilot(c) ==
  \/ \E policy \in session.policies, on \in BOOLEAN : Configure(c, policy, on)
  \/ EnsureMandate(c) \/ ReadCurrent(c) \/ WriteSettings(c)
Drafting(c) ==
  \/ \E i \in DOMAIN drafts, target \in Targets,
        kind \in {"edit", "create", "select", "delete"} : OpenDraft(c, kind, i, target)
  \/ CheckDraft(c) \/ SaveDraft(c) \/ CreateDraft(c) \/ SelectDraft(c)
  \/ DeleteDraft(c) \/ SyncTarget(c)
Approving(c) ==
  \/ \E policy \in session.policies : RunTest(c, policy)
  \/ \E r \in DOMAIN runs : Grant(c, r) \/ Approve(c, r)
  \/ \E r \in DOMAIN runs, step \in RevisedSteps : Revise(c, r, step)
  \/ \E g \in DOMAIN grants : Withdraw(c, g)
  \/ ExecuteApproved(c)
Evaluating(c) ==
  \/ \E r \in session.impacts, at \in {now, session.until} : Evaluate(c, r, at)
  \/ Judge(c)
  \/ \E kind \in Documents : CreateDocument(c, kind) \/ WriteDocument(c, kind)

Next ==
  \/ /\ \/ Cycle
        \/ \E p \in Procs : Running(p)
        \/ \E c \in Clients :
             \/ Autopilot(c) \/ Drafting(c) \/ Approving(c)
             \/ RevokeMandate(c) \/ SwitchKill(c)
        \/ Crash
        \/ Tick
     /\ UNCHANGED impactVars
  \/ \E c \in Clients : Evaluating(c)
  \/ \E day \in DOMAIN late : ConversionArrives(day)

Spec == Init /\ [][Next]_vars

------------------------------------------------------------------------------
(* What the dashboard guarantees                                           *)

\* Every cycle handed out by claim_due has exactly one row in the ledger the
\* operator reads, is still being worked on, or was lost with its process:
\* no path through a busy lock, a missing mandate, an invalid target, a
\* disk error or an applied change leaves none, and none leaves two.
ClaimsAccounted ==
  \A claim \in DOMAIN claims :
    Cardinality({i \in DOMAIN history : history[i].claim = claim})
      = IF claim \in lost \/ job[Scheduler].claim = claim THEN 0 ELSE 1

\* A cycle comes earlier than one interval after the one before it only if a
\* save between the two turned the autopilot on, changed its policy, or had
\* read the settings before the earlier cycle was claimed and wrote back,
\* after it, the due time that cycle had used up.  A save that does neither
\* leaves the schedule alone, and each save brings at most one cycle forward.
ClaimsSpaced ==
  \A i \in 1..(Len(claims) - 1) :
    LET this == claims[i]
        next == claims[i + 1]
    IN \/ next.at >= this.at + this.every
       \/ next.asked.restarted \/ next.asked.stale

\* The autopilot runs only while the operators' last decision was to run it,
\* unless a draft's synchronisation was in flight across that decision.
ClaimsAreWanted ==
  \A i \in DOMAIN claims : claims[i].asked.on \/ claims[i].asked.overlapped

\* An operator's change is applied at most once, with the operation and the
\* step of the proposal it was approved for, under a grant of its own:
\* repeated clicks, revisions of the proposal, withdrawn grants and crashes
\* between the change and its report change nothing of that.
ApprovedExactly ==
  \A i \in DOMAIN applied : applied[i].run # 0 =>
    LET change == applied[i]
    IN /\ grants[change.grant].run = change.run
       /\ grants[change.grant].status = "USED"
       /\ runs[change.run].op = change.op /\ runs[change.run].step = change.step
       /\ \A j \in DOMAIN applied \ {i} : applied[j].run # change.run

Raises == {"INCREASE_WEEKLY_BUDGET", "INCREASE_SEARCH_BID"}

\* What the autopilot applied was triggered under the Gate 0 thresholds too,
\* no matter how the rules were tuned; data that Gate 0 calls stale were
\* used only with the freshness rule switched off; and spending was raised
\* only for a campaign within the target it had when the run began, whatever
\* draft was selected or edited meanwhile.
ScheduledIsSupported ==
  \A r \in DOMAIN runs : runs[r].kind = "cycle" /\ runs[r].exec = "APPLIED" =>
    LET facts == Facts(runs[r].policy)
        rules == Rules(runs[r].policy)
    IN /\ PerformanceTriggers(facts, DefaultRules) # {}
       /\ rules.freshness.enabled =>
            SafetyTriggers(facts, DefaultRules) \subseteq
              {"SOURCE_MISMATCH", "UNKNOWN_EXTERNAL_CHANGE"}
       /\ runs[r].op \in Raises => facts.spend <= runs[r].target * facts.conversions

\* A recommendation about a change does not turn around: what is recommended on
\* observations read when they are evaluated is what would be recommended once
\* every conversion is known.  And a run has no workflow document without the
\* whole report it speaks of, however requests for it race, fail or are repeated.
ImpactsAreFinal ==
  LET Complete(o) == [o EXCEPT !.conversions =
        Total([day \in DOMAIN late |-> measured[day] + late[day]], o.from..o.to)]
  IN /\ \A c \in Clients :
          LET r == job[c].request IN
          /\ pc[c] \in {"impact report", "write report"} /\ r.evaluated = r.post.read
          => NextDecision(r) =
               NextDecision([r EXCEPT !.baseline = Complete(@), !.post = Complete(@)])
     /\ \A key \in DOMAIN documents : key[2] = "workflow" =>
          /\ <<key[1], "report">> \in DOMAIN documents
          /\ documents[<<key[1], "report">>] # Torn
          /\ documents[key] \in {Torn, documents[<<key[1], "report">>]}
===============================================================================
