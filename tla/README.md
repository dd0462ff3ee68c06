# TLA+ models of MOX-ADV

MOX-ADV prepares changes to advertising campaigns, asks a human or a signed
mandate for authority, sends exactly one write to the advertising account, reads
the result back and watches the account afterwards. There are two
implementations in the repository: the Python application `src/src/mox_adv/`
(Gate 0, fake accounts behind typed adapters), and the TypeScript site
`src/sites/p0-production/`, which talks to the real provider. What makes either
of them correct is not a calculation but an order: what is durable before the
account is touched, what a second caller sees meanwhile, and what a restart may
conclude. That order is what these modules model.

Files

| Module | What it is |
|---|---|
| `WriteBoundary` | state and operators both write modes share: executions ledger, write window, kill switch, pre-write audit, adapter |
| `SingleWriter` | abstract specification of the ledger's promise to the account |
| `ApprovalExecution` | the approval-driven executor over `WriteBoundary`, its properties, refinement of `SingleWriter` |
| `ApprovalExecutionProofs` | theorems about it |
| `BoundedAutonomy` | the mandate-driven executor over `WriteBoundary`, its properties, refinement of `SingleWriter` |
| `BoundedAutonomyProofs` | theorems about it |
| `MonitoringPoll` | the monitoring scheduler: leased, fenced polls and the versioned snapshot store |
| `MonitoringPollProofs` | theorems about it |
| `DirectExecution` | one campaign of the production site: journal of intents, account lock, provider, containment |
| `PackageDispatch` | the dispatch and the polls of a package over `DirectExecution`, with its properties |
| `PackageDispatchProofs` | theorems about it |
| `DirectManagement` | the typed operations on campaigns, groups, ads and keywords, and the fake adapter behind them |
| `LifecycleAuthority` | who may issue a lifecycle authority, and when a stored one is believed |
| `CampaignSaga` | the creation of a campaign in eight steps with reconciliation and compensation, over the two modules above |
| `CampaignSagaProofs` | theorems about it |
| `GoalLifecycle` | candidate goals: creation, publication, verification, decision and cleanup, over `LifecycleAuthority` |
| `GoalLifecycleProofs` | theorems about it |
| `ProposalRules` | the decision table and the validations of the recommendation pipeline |
| `SnapshotRules` | how three reads become one snapshot: the production reader and the linked fixture, their linkage and the metrics, over `ProposalRules` |
| `Recommendation` | recommend with its cost ledger and its immutable proposal store, over `SnapshotRules` |
| `RecommendationProofs` | theorems about it and the rules under it |
| `AutomationRules` | validation of the autopilot's scenarios and rules, their triggers, and the advice they lead to (`ProposalRules`) |
| `ImpactRules` | when an applied change may be evaluated, and what is recommended about it |
| `Dashboard` | the scheduler thread beside the operators' requests, over `AutomationRules` and `ImpactRules` |
| `DashboardProofs` | theorems about it and the rules under it |
| `MC*`, `*.cfg` | finite instances |
| `PROJECT.json` | components, runs, mutants, the source lines of every definition, findings, hazards, theorems |

Conventions. A caller is a thread or process inside one service method; its
program counter names the point *between* two durable transactions (SQLite
`BEGIN IMMEDIATE ... COMMIT`), file operations or adapter calls. Everything inside one
transaction is one action, everything between two of them may be interleaved
with other callers, people, the clock, a crash or a failing disk. Operators
introduced as another way the definition after them might have been written
(*mutants*) are used by no specification; they exist to show that each property can fail.

## 1. Inventory

### 1.1 Python application

**Executions ledger and approvals** (`control_state.py`). State:
tables `executions` (key, status, updated_at), `approvals` (grant, expiry,
reservation, use, revocation), `kill_switches`, prepared changes. Operations:
`reserve_execution`, `begin_execution`, `finish_execution`, `send_once`,
`grant/revoke_approval`, `engage/release_kill_switch`, `execution_usage`. Used by
several processes at once. Hard: only transactions order the callers; `send_once` is
four transactions and a transport call, with the sidecar read outside any of them.
Correct when: one unresolved execution at a time, a key sent at most once, every
write backed by an unrevoked approval consumed for it, terminal rows immutable.

**Write window** (`write_window.py`, `monitoring.py:761`). A singleton row
FREE / IN_PROGRESS / ACTIVE reserved before a write and settled after it.
Called by both executors. Hard: settled after the ledger, released by error
handlers that do not know who holds it. Correct when: no write within the quiet
window of an earlier one, and no reservation stranded.

**Pre-write audit** (`trust_boundary.py`, `audit.py`). `DurablePreWriteAudit`
writes a journal and an anchor once per key; a second authorisation of a key is
refused. `audit.py` keeps the hash-chained journal itself.

**Write adapter** (`fake_write_adapter.py`). `apply` counts, waits, takes effect or
times out; `readback` answers from the state or from a scripted value. External in
nature: it stands for the account.

**Approval executor** (`approval_execution.py`). `execute` and `reconcile` on top of
all of the above. Hard: overlapping calls for one key, refused duplicates whose
handlers undo things, a crash around the write, reconcile of an orphan.

**Mandates and the autonomy executor** (`mandate_store.py`,
`autonomy_execution.py`, `autonomy_policy.py`). State: mandates and their status, the
immutable consumptions (exposure, step, observation window). Operations: issue,
activate, revoke (sidecar first), reserve, send, recheck, reconcile. Hard:
concurrent reservations against rolling and calendar quotas; recheck rewrites terminal
rows. Correct when: quotas hold, one active execution, one write per key, only a
recheck rewrites.

**Interrupt sidecar** (`interrupt_state.py`). A second database with active kill
switches and revoked mandates, so that a stop does not wait for a lock on the main one.

**Monitoring scheduler and snapshot store** (`monitoring.py`). A scheduler row
with a lease and a claim generation, versioned immutable snapshots, active proposals.
Hard: a lease that expires under a slow poller; clocks read before a transaction and
used inside it.

**Campaign creation saga** (`campaign_lifecycle.py`, `direct_management.py`,
`lifecycle_authority.py`). State: the saga with its plan and completed steps, a
dispatch row per write step, the created objects with their compensation marks, a
creation reservation and a campaign approval. Operations: `execute`, which starts,
resumes, reconciles or compensates, and single managed operations on objects of a run.
Hard: the answer of a step may be lost, a crash may fall between the answer and the
rows that record it, compensation may fail in the middle, and another call may run the
same request. Correct when: nothing is sent twice, no object is forgotten, a saga that
says it was compensated left nothing, everything follows an approved plan, and a
campaign is launched whole.

**Goal lifecycle** (`goal_store.py`, `goal_service.py`, `goal_adapters.py`). State: signed
authorities with quotas, creation reservations, signature claims, executions, candidates,
publications, cleanup progress. Hard: three resources taken together, unknown results
reconciled by looking at the counter, a stack of page versions, cleanup that resumes.
Correct when: one goal per event, none forgotten, the page is what was published, nothing
appears without its human, and a finished cleanup left nothing.

**Observation and normalisation** (`yandex_read.py`, `connectors.py`, `observe.py`,
`normalization.py`, `analytics.py`). No state: the state of a campaign, its report and the report
of the counter are read one after the other, and become one snapshot or are refused. Hard: time
passes and the account changes between the reads, the days of three clocks (UTC, the campaign,
the report) meet at midnights and week ends, and each bound on age, skew and cutoff is inclusive.
Correct when: a change is only advised on blocks that are one observation, and what a snapshot
says is what the reports say.

**Recommendation pipeline** (`recommend_*.py`, `proposal_store.py`, `model_provider.py`). A
projection of a snapshot, an answer of a model that is not trusted, an immutable file per
proposal and an index that says which one is active for a reason. **Model cost ledger**
(`model_cost.py`): reservations against one limit. Hard: concurrent calls, and a file and a
row that are written one after the other. Correct when: the limit holds, what is active can
be read, callers are not given rival advice, and advice rests on observed facts.

**Impact evaluation** (`impact.py`, `ui_workflows.py:1029`). Compares a period after a change
with one before it and recommends to keep, adjust or roll back the change; the report is
written once. Hard: conversions are reported late. Correct when: a recommendation does not
turn around once they are known, and a workflow record has its whole report.

**Dashboard and automation** (`ui_service.py`, `ui_automation.py`, `ui_dashboard.py`,
`ui_campaign.py`, `ui_server.py`, `ui_control_plane.py`). State: the autopilot's settings and
schedule, campaign drafts and the selected one, mandates, grants, the reports of runs, the
history the operator reads, one lock. Hard: a thread that claims due cycles beside requests
that read settings, think, and write them back. Correct when: every cycle is accounted for,
cycles are spaced and wanted, one approval leads to one change, and spending is raised only
for a supported reason.

**Serverless runtime** (`vercel_runtime.py`): several function instances over one snapshot
blob. Pipeline wiring, contracts, egress policy, command line, end-to-end
harness: sequential data handling.

### 1.2 TypeScript production site

**Single-campaign execution** (`execution-safety.ts`, `direct-write.ts`, journal in
`p0.ts`): dispatch intents saved before each provider mutation, an account-wide lock,
readback reconciliation, containment of a half-created campaign by suspension. Hard:
a lost response, a journal that fails after the mutation, a restart on a pending intent.

**Package execution** (`campaign-package-execution.ts`, `campaign-correction.ts`,
`campaign-decision-gate.ts`): items dispatched one after another, blocking rules,
moderation polling, corrections.

**Document workflow** (`p0-application.ts`, `revision-history.ts`, `p0.ts`): one
document with compare-and-swap updates, lineage, invalidation of decisions.

**Analysis** (viability, fan-out, strategy, evidence) and the **user interface**.

### 1.3 How they interact

```
 approver --grant/revoke--> approvals --+                 +--> write window --+
 issuer --issue/activate--> mandates ---+--> ledger ------+--> pre-write audit|--> adapter
 incident --kill switch--> sidecar,main +   (send_once)   +--> sidecar check --+      |
 operator --reconcile/recheck--> ledger <---- readback <--------------------------- account
 scheduler --poll--> source (account) --> snapshots --> recommend --> proposals, changes
 approver --authority--> saga, goals --claim--> pre-write audit --> typed account, counter, site
 operator --requests--> dashboard <--claim_due-- autopilot thread --> both executors
```

Both executors share the ledger, the window, the audit and the adapter by name in
one control directory; the scheduler reads the account and its last applied write. Sagas
and goals have stores of their own and share the kill switch and the audit with the
executors. The dashboard calls the executors; the cost ledger and the kill switch are
shared by all runs, while a proposal store belongs to one run directory.

## 2. Plan

Done: the two executors over one boundary (`ApprovalExecution`, `BoundedAutonomy`), the
scheduler, the production execution and package, the saga, goals, observation and recommendations, the
dashboard with its autopilot and impact evaluations; and theorems about every safety property of
theirs (section 5).

Left, in this order:

1. `Correction` of a rejected item (`correctSuspendedCampaignAndResubmitModeration`,
   `campaign-correction.ts`) and the document workflow up to the dispatch.
2. A composition of both write modes over one ledger: what the window and the active key promise
   when both executors run at once.
3. The fan-out limits and the viability table against reference definitions.

## 3. The modules and the code

### 3.1 WriteBoundary

A prepared change is immutable and its execution key is a hash of it, so one value of
`Proposals` stands for both. `status`/`updatedAt` are the `executions` row, `window` the
singleton row with its key and expiry, `interrupts`/`killSwitches` the two copies of the
kill switch, `audits` the keys whose pre-write journal exists, `adapter` the
constructor arguments of the fake adapter, `target`/`timedOut`/`writes` its state.
`Finish` is `finish_execution` with its two silent cases, `FinishAccepted` its raising one.
`CountWrite` and `TakeEffect` are the two halves of `apply`, between which other
callers run. `UsageExhausted` is the Gate 0 usage query (one action per 24 hours).

### 3.2 ApprovalExecution

`Execute` is the entry (`load_execution_plan`, `_completed_outcome`), `Evaluate` the
policy, `ReadBefore` the readback before the write with the choice between the no-change
path (`ReserveNoChange` … `FinishNoChange`) and `send_once` (`SendTransaction` …
`TransportEnds`). The refused dispatch undoes itself through `ReleaseRefusedWindow`,
`Unreserve` and `Block`, in the order of the code's nested handlers: the boundary's
own release, the approval reservation, the BLOCKED row, and last the handler of
`execute`, which releases the window of *its key*. On the no-change path a row that is
already RESERVED is answered RESERVED as well, and the call goes on with it (`BeginNoChange`),
be it another call's or one left by a crash. After the write: `Observe`,
`FinishExecution`, `SettleWindow`. `Reconcile` enters the same tail. `Return` clears the
locals and records what the caller was told in `answer`.

`Crash` may hit any point; inside the adapter call the write may or may not have taken
effect. `StorageError` is `sqlite3.Error` escaping to the outermost handler, which answers
UNKNOWN_RESULT only if the row is IN_FLIGHT. Where a handler swallows the error the
action itself has a disjunct guarded by `StorageFails`.

Abstractions: policy facts of a snapshot plan (age, fingerprint, availability) may
refuse at any check, so they are nondeterministic; what the policy decides from
modelled state (kill switch, usage) is not. Reads of the sidecar and the main
database that precede the send transaction are one step; they are split where the code splits
them closest to the write (`ConsumeGate`, `ConsumeApproval`). A row that becomes BLOCKED
is stamped with the clock. A write that reached the network before a crash and takes
effect only later is not modelled: the adapter is synchronous and in-process.

### 3.3 BoundedAutonomy

Same boundary, other authority. `charged`/`chargedAt` are the immutable rows of
`mandate_consumptions`; `QuotaLeft` is `_check_quota` with every sum, the rolling 24 hours
(strictly greater) and the calendar day. `Prepare` … `TransportEnds` is `execute`;
`RequireDispatchAllowed` stands for the three checks of that name and `RevalidateDispatch`
for the two revalidations. `FinishActiveAsBlocked` is the handler that closes the key *if
it is active, whoever made it so*. Two answers make a call go on with a row it did not make:
`ReserveExecution` answers RESERVED for a row another call reserved, and the call *adopts* it
and sends it without the checks of a new row; `SendTransaction` answers IN_FLIGHT when another call
has sent it, and the call reads back, finishes the key and settles the window although it sent nothing.
Both happen in overlapping sessions and the first also after a crash between calls that exclude
each other. `RecheckRead` and `RecordRecheck` are `recheck`.
`InterruptMandate`/`Revoke` and the four steps of `KillSwitch` are the two-database writes,
each durable write a step, so stopping in between needs no extra action. `Drift` is a
change of the account by somebody else between two calls, which is why recheck exists.

`session` is chosen in `Init` and never changes: it bounds who calls, on which keys and
mandates, under which faults, and whether calls of one key overlap.

Abstractions: signatures are assumed valid; the numeric policy may refuse at any time;
exposures, steps and limits are small numbers in the instances; the request's key is the
key of its prepared change. The answer returned to the caller is not kept here.

### 3.4 MonitoringPoll

`Poll` reads the clock, `ClaimPoll` is the claiming transaction that uses that (possibly
old) instant, `Read` the source, `HeartbeatPoll` the three lease renewals, `Evaluate` the
judgement with a new clock reading, `PersistPoll` the fenced transaction that is guarded by
`evaluated_at` and not by the clock, `ReleasePoll` the exception handler. `version` and
`content` are `snapshot_versions`, `active` the active proposals.

Abstractions: a snapshot is an identifier, its bytes and the set of anomaly reasons found;
the thresholds that find them are left out; the retrieval instant is the end of the read.

### 3.5 DirectExecution and PackageDispatch

`rows` is `p0_executions.result_json` of each execution (its status, the pending intent, the
known identifiers, the completed steps, containment), `lock` the row of `p0_account_locks`
with whether it is only leased or held for ever, `account` what the provider has, `worker`
one call of `executeSafeSingleCampaign` with the in-memory record it works on. `begun` and
`items` are the stored document, `request` the requests of the application, each with the
question whether its revision is still the stored one.

A request goes `Dispatch` → `InitializePackageExecution` → (`BeginPackageItemDispatch` →
`Preflight` → `BeginExecution` → worker steps → `RecordPackageItemOutcome`)*, with a
compare-and-swap (`Checkpoint`, or `Conflict` for its loser) at every save. A worker goes
`Acquire` (reads the row) → `Claim` (the lock) → `ReconcilePendingDispatch` or `Open`, and then
through `Stages`: a mutation is `Intend` (save the intent), `Send`, and `PersistProgress` (save
the result and clear the intent); suspension is confirmed by a read of its own. `Raise` is the
catch block of `createSuspendedCampaign`, which may read, suspend and save again; `Close` the
one of `executeSafeSingleCampaign`, which decides whether to hold the lock or release it. A
poll is `Poll` → `BeginPackageItemModerationPoll` → `RecordModerationPoll`.

`faults` says what may go wrong in an instance: `crash` (a request ends at any point),
`lost` (no answer to a mutation, done or not), `odd` (an HTTP error or a malformed answer,
done or not; a read that finds not exactly one object), `read` (both bounded attempts fail),
`journal` (a save fails before, between or after its two statements, and so may hold and
release), `lease` (15 minutes pass), `preflight` (a read before the row is known fails or
the name is taken). `Rejectable` lists the mutations the provider may reject,
`NewCampaignStates` the state of a campaign that was only added. `ExclusiveDispatch` keeps
two requests from dispatching one document at the same time: the browser disables its
button, nothing on the server does.

Abstractions: the provider's account is changed by this program and by its moderation
only; "OPEN" stands for all non-terminal statuses of a record, which no code tells apart;
provider issues, readback contents and evidence are reduced to whether the graph is
complete and suspended; a poll is always due. A lease does not expire under a live worker: it
renews the lease at every save, and the bounded reads between two saves stay below 15 minutes.
The expiry in the model is therefore that of a crashed worker.

### 3.6 SingleWriter and the refinements

`SingleWriter` says: keys are opened one at a time and once, a write happens only for
the open key and at most once, a closed key stays closed. `ApprovalExecution` implements
it with `UNKNOWN_RESULT` open: an unknown result keeps everything else shut.
`BoundedAutonomy` implements it only with `UNKNOWN_RESULT` closed, because a recheck may
make a closed key unknown after another was opened; the first observation of section 6 is
the consequence.

Both refinements need calls that do not overlap on one key (`ExclusiveCalls`, the exclusive
sessions). That is a discipline and nothing in the code enforces it. Without it `reconcile`
may close a key whose sender is still on its way to the transport. The properties that hold
without the discipline are checked without it.

### 3.7 DirectManagement, LifecycleAuthority and CampaignSaga

`DirectManagement` is the account of one run: the five objects a plan creates and their
states, the states each typed method requires (`RequiredStates`), what the fake adapter does
(`Invoked`) and when it fails, times out or mistypes (`Fails`, `TimesOut`, the adapter
record). `LifecycleAuthority` says who may issue a document (`MayIssue`) and when a stored row
is believed (`ProofHolds`): a signature is the document that was signed, so an altered row is
one that differs from it.

`CampaignSaga` is `CampaignLifecycleService.execute`. `saga` holds status, plan and the number of
completed steps, `dispatch` the rows of `campaign_saga_dispatches`, `owned` and `compensated` the
created objects in the order of their rows. A call goes `Execute` → `StartSaga` or `LoadSaga` or
`RefuseStart` → `CheckPending` → `Resume`, and then for every step `BeginStep` → `Claim` →
`AuditIntent` → `Recheck` → `Send` → `ConsumeAuthority` (first write only) → `RegisterObjects` →
`CompleteStep`, or `Readback` for the two reading steps. A dispatch found open is decided by
`Reconcile`. A refusal passes `CancelClaim` and `Rejected`; a definite failure `FailSaga`,
`DeleteNext`, `MarkCompensated` and `FinishCompensation`, where each deletion is claimed, audited,
rechecked and sent like a write step. `Manage` is a typed method called on its own.
Incidents — a kill switch, an altered approval row, an edit on the account, a verdict of the
moderation, a failed commit — share one bound.

Abstractions: whether an object still equals the plan stands for its content; production
authority is a flag of the adapter, which makes the connector refuse a write outside a saga.
Nobody manages objects of a saga that is in flight. A compensation walks its objects in a
fixed order, deepest first, so the objects it still has to visit are a set.

### 3.8 GoalLifecycle

`authority`, `reservation`, `execution`, `claim`, `candidate`, `publication` and `cleanup` are the
tables of `goal_store.py`, `goals` and `foreign` the counter, `page` and `live` the site adapter: a
version of the page is the sequence of the runs whose events it carries, which is what its
hash stands for. `BeginCreate` and `BeginPublish` take what they need in one transaction,
`ContinueCreate` and `ContinuePublish` come back to an open execution, `Authorize` and `Recheck`
are the two halves of `_authorize_write`, `Abort` and `MarkUnknown` its exits. `Poll` and
`SetTechnicalStatus` verify, `SetSemanticStatus` decides, `SetOptimizationGate` judges.
`BeginCleanup`, `CleanPublicationStep`, `RollBack`, `MarkRolledBack`, `CleanGoalStep`, `DeleteGoal`,
`MarkDeleted` and `FinishCleanup` are the resumable cleanup. `Disturb` counts everything nobody
asked for.

### 3.9 ProposalRules, SnapshotRules and Recommendation

`ProposalRules` translates `supported_facts`, the deterministic provider (`FakeAnswer`, and
`FakeRaises` for the metrics it cannot compare) and the two validations (`ValidProjection`,
`ValidAnswer`). `SnapshotRules` has the reads as records with an instant of retrieval and a
watermark: `Collected` is `collect_snapshot`, which reads the campaign, fixes the period by the
campaign's days before the run began, and reads both reports with zeros for the days they leave out.
`Linked` says which reads `normalize` accepts, `BlockingGaps` and `PartialGaps` what it finds
missing, `Comparability` and `Confidence` what it concludes, and `Snapshot` is what `calculate`
hands to the projection. `FactHolds` and `OneObservation` are definitions of our own, over the raw
reports and the bounds alone, for `ReadyIsSupported`. `Recommendation` is `recommend`: `Start` → `Lookup` → (`ReadActive`) → `Reserve` →
`Generate` or `Fail` → `Settle` → one of `SaveDuplicate`, `SaveExisting`, `SaveCreate` →
`SaveWrite` → `SaveCommit`, with `WriteFails` and `CommitFails`, and `Reload`. `Answers` is what a
model may say: what the deterministic one says, the same with one field altered, or nothing.
The id of a proposal is a digest of its content, so the content is the id. `Parsed` is what
the readers establish while they parse (`contracts.py`): rows and budgets are natural numbers.

Abstractions: prompts, rationales and JSON are reduced to what the validation tells apart. Days are
integers, a time zone is a constant offset, so the reader's refusal of a period across a change of
offset (`yandex_read.py:1197`) does not arise; decimals are rounded in the direction that keeps
every comparison with a whole limit. Reads that fail or do not parse end before a snapshot exists.
The evaluation is taken to follow the generation of the snapshot.

### 3.10 AutomationRules, ImpactRules and Dashboard

`AutomationRules` has the checks of scenarios and rules with their ranges (`ValidScenario`,
`ValidRules`, `ValidAdviceRules`), every trigger of `evaluate_triggers`, the projection of a scenario
onto `ProposalRules`, and the advice it leads to. Percentages and ratios are compared by
cross-multiplication, as the code's decimals are exact at the instance's numbers.

`Dashboard` has a row per table or file (`settings`, `mandates`, `drafts`, `runs`, `grants`, `applied`,
`history`, `documents`) and a `job` per process. The autopilot goes `ClaimDue` → `ReadCycle` →
`PickMandate` → `BeginRun` → `Decide` → `WriteReport` → `RecordReport`, or ends in `Fail` →
`RecordFailure` or `SchedulerDies`. `WriteReport` is the report and its proposal, which later requests read;
`RecordReport` the evidence, the history row and the release of the lock. `ReportFails` may follow either, so
the report of a run that failed may stay visible. Operators send requests: `Configure` → `EnsureMandate` → `ReadCurrent` →
`WriteSettings`; `OpenDraft` → `CheckDraft` → `SaveDraft`, `CreateDraft`, `SelectDraft` or `DeleteDraft` →
`SyncTarget`; `RunTest`; `Grant`, `Withdraw`, `Revise`, `Approve` → `ExecuteApproved`;
`RevokeMandate`; `SwitchKill`; `Evaluate` → `Judge` → `CreateDocument` → `WriteDocument`, once for
the report and once for the workflow. `claims`, `lost` and `asked` are history variables: the
cycles handed out, those whose process died, and what operators last asked for. `asked.restarted`
and `asked.stale` say of the saves since the last claim whether one started the schedule over (it turned the
autopilot on or changed its policy), and whether one wrote back a due time it had read before that claim;
`ClaimDue` keeps both with the cycle and resets them.

`ConversionArrives` is the counter: `measured` are the conversions of each day it shows,
`late` those it does not show yet; `InTime` keeps the clock from passing the cutoff for late
conversions while some are missing. This is what `late_conversion_cutoff_hours` means, and an
assumption about the outside. Runs, mandates, grants and drafts get the next number of their
table, which is what a random identifier that never repeats is used for. `ImpactRules` counts in days; in the instance an observation
window and the wait for late conversions last three.

Abstractions: the executors are one step each (what happens inside them is `ApprovalExecution`
and `BoundedAutonomy`), and a refusal of their policy is a choice. Scenarios and tunings are
named; production read-only runs, the modes OBSERVE and RECOMMEND, decision
outcomes and the views of the control plane are left out. The check that a workflow file
exists and its exclusive creation are one step.

## 4. Runs

Each bound is a constant of the `.cfg` or a field of a session. A *session* is a set of bounds
chosen in `Init` that never changes: one run then covers several instances that would be too
large together, and no behaviour mixes them. States are distinct states.

| Run | Instance | What it shows | States |
|---|---|---|---|
| `approval_single_flight` | 2 callers and an operator, one call at a time per key, a kill switch, honest adapter, no faults, clock 0..1 | `LedgerIsTruthful`: the window belongs to an open execution or a live call, what was written is recorded, BLOCKED is never answered for an applied key; quiet window; `ImplementsSingleWriter` | 779 K |
| `approval_overlap` | 2 overlapping callers, crashes, storage errors, adapter timeouts with any scripted readback | one unresolved key, one write, authorised writes, immutable results | 736 K |
| `approval_recovery` | 1 caller, 1 operator, crashes, repeated reconcile, any initial account state | open executions resolve | 77 K |
| `autonomy` | four sessions: 3 proposals of 2 campaigns spend 2 mandates over two days; 2 overlapping callers on one key, an honest and a silent adapter, under crash, storage error, timeout and drift; 2 exclusive callers on 2 keys under crash; kill switch and revocation under crash and storage error | quotas and observation windows, one write per key, only a recheck rewrites, `ImplementsSingleWriter` | 789 K |
| `monitoring_poll` | 2 pollers, a lease of one unit that a read may outlast, interval 2, clock 0..2, 3 claims, 3 snapshots in 2 series, crashes | spacing, fencing, judged proposals | 3.57 M |
| `package_dispatch` | 1 package of 2 items under crash, lost answers, failing reads and leases; 2 packages racing for the account under lost and malformed answers and failing preflight, with and without a failing journal; campaigns born OFF or ON, 3 rejectable mutations | nothing created twice, settled items are safe, the document tells the truth, ambiguity locks the account, only the lock holder writes | 1.49 M |
| `campaign_saga` | three sessions: 1 caller, 2 requests for one reservation and 2 plans, 8 adapters, one crash, one incident, one managed call, 2 calls; 2 overlapping callers, 3 calls at an honest adapter or 2 at one whose readback and deletion fail | sent once, nothing lost, compensation complete, approved plans, whole launches | 862 K |
| `goal_lifecycle` | 2 callers, 2 goals for one event, 4 authorities of which one has a quota of 2, lost answers to the creation and the publication, one disturbance | one goal, nothing forgotten, the page, humans, cleanup | 870 K |
| `recommendation` | 2 callers; 34 reads that reach every row of the decision table, every gap, both sides of each bound and every refusal, among them four of the production reader; a limit of 2 calls, proposals that expire, one crash or failed write | cost limit, readable index, no rival advice, advice that holds of the reports | 1.44 M |
| `dashboard` | ten sessions of the autopilot beside 2 operators: each kind of request beside those it competes with, up to 5 requests, and evaluations over 6 days | cycles accounted for, spaced and wanted; approvals exact; raises supported; recommendations final | 923 K |
| `approval_quiet_window`, `package_overlap` | | findings, section 6 | – |

Every property of these runs has a mutant in `PROJECT.json`: a plausible bug in one
definition of the model (a dropped guard, an early release, a retry) under which TLC finds
the property violated by the run's own configuration.

Why the bounds are enough. *Approvals*: the two proposals change one target in a
chain (v0→v1→v2), so that the second becomes possible exactly when the first has been
applied and `v2` is a value the first does not expect; two is the smallest number at which
"another key" matters, and every guard of the ledger quantifies over *one* other key. Two
callers are a call and an interloper; a third would have to interfere with the
interloper, whose transactions look only at the ledger. The quiet window is one
unit and the clock has two instants where a property depends on it, one inside the window and
one at its end. Two approvals give a re-grant after a revocation. *Autonomy*: in the quota
session two of three proposals share a campaign and there are two mandates, so that sums, the
observation window and the other mandate all decide a reservation; reserving is one
transaction whose only input is the table itself, so a second caller would add interleavings
of everything but that. *Monitoring*: two pollers and three claims give a poller that was
fenced once and one that comes back. *Packages*: two items are an item and one that follows;
two requests are a writer and a competitor, for the document or, with two packages, for the
account; a crash may be followed by as many resumptions as the records allow. The faults are
split over three instances because together they exceed what a run can hold, and because
some combinations do break a property: section 6 names them. *Saga*: two requests compete for
one reservation; a crash at every point, one incident and one more call cover the interrupted
saga and its resumption; 8 adapters fail, time out or mistype at another operation
each. *Goals*: two goals for one event with reservations of their own collide on the
signature and on the page; two authorities are mandates or approvals for each kind of operation. One
disturbance is one crash, one overlapping call, one altered row or one switch; the calls themselves are not bounded. *Recommendation*: two calls are
the first and its rival; a second snapshot with the same campaign differs in its facts. These two compete under a crash or a
failed write; the other reads are asked about without one, as a fault does not look at the figures.
The clock of the reads counts half hours, the finest bound of `config/gate0-policy.json`, with its
other bounds as they are; `atBounds` lies on all of them, `staleDirect`, `staleMetrika`, `skewed` and
`late` one unit beyond one each. A week of rows has its figures on the first and the last day. *Dashboard*: a
session allows the requests that touch the same tables; requests over different tables only
meet in the cycle, which is in all of them. The days of an evaluation are the day before the
change, that of the change and the one after, each with conversions that may be late. The
theorems of section 5 remove the bounds for what they cover.

Symmetry is used where nothing tells the elements apart: requests in the package runs,
requests and plans of sagas, callers of goals and recommendations, and clients of the dashboard.
The properties of these runs are invariants and action properties that quantify over those
elements, so the reduction is sound. The executors' runs use none: their proposals differ, and some check temporal
properties.

Deadlock is checked in the runs about executors, the scheduler and recommendations: a call can
always be started and a poll asked for, so no reachable state may be without a successor. It is off
where the system really stops: a package whose items are all settled, a saga or a goal whose
calls are used up, and a dashboard whose scheduler died or whose autopilot is off.

### Fairness

Only `RecoverySpec` (of `ApprovalExecution`) assumes fairness. It gives every
call weak fairness of `CallStep`: a thread inside `execute` or `reconcile` is not
suspended for ever, and nothing it waits for is held by another process longer than a
transaction. The code has no retry loop, so nothing else may be assumed.
It adds what the recovery of an orphan needs and the code leaves to people: an
operator who repeats `reconcile` while the key is open (strong fairness of `Reconcile`,
`Observe` and `FinishExecution`, as a crash may disable each of them again and again).
Nothing obliges a crash, a grant, a kill switch or the clock to occur. The other components
promise nothing that must happen: whether a saga, a cleanup or a cycle is taken up again is a
person's decision or the process's to be alive, and no code repeats it.

## 5. Proofs

Checked by TLAPS for all values of the constants that satisfy the named assumptions beside the
declarations (`ASSUME` in each module): constants have the shape the code's configuration and
parsers give them, `null` is no name, times and durations are numbers. TLC evaluates each of them
in the runs. None speaks about schedules. Where a theorem does need a discipline of the callers, a
bound on the faults or a bound on schedules, it is a hypothesis that the theorem states, and this
section says which behaviour of the code makes it necessary.

Every invariant and action property that a run checks is stated by a theorem. Each proof has the same form:
an inductive invariant, one lemma per action (or per kind of action) that it is kept, and a last step
that derives the property. Many properties are about what a caller knows between two
transactions, so the invariants tie each program counter to the rows a caller has read or written.

`ApprovalExecutionProofs`
- `TypeCorrect`: `TypeOK`, by a case for each action. The conjuncts about program counters
  (a call past `ReadBefore` holds an approval, a call at `finish` has classified a
  readback) are what make it more than a typing.
- `OneUnresolvedHolds`, `TerminalIsFinalHolds`: `LedgerMoves` reduces every step to what it
  may do to the ledger (open a new key when none is active and none unknown, close an active
  key, move one from RESERVED to IN_FLIGHT); both facts follow from that alone.
- `AtMostOneWriteHolds`: needs `OneSender`: at most one call is past the send transaction
  of a key, only with the key's row present, and the write count is 0 until that call
  passes the transport. One write is not inductive by itself: the bound comes from the
  row, which is written before, and never removed.
- `WriteIsAuthorisedHolds`: needs `Authority`, which follows the approval of a dispatching
  call from reservation to consumption. `ApprovalMoves` shows that a consumed approval is
  never revoked or released.
- `ImplementsSingleWriterHolds`: under `ExclusiveCalls`; `Exclusive` says that two busy
  calls work on different keys, and that the row of a call on its way to the transport is
  IN_FLIGHT. Then every step maps to a step of `SingleWriter` or stutters.
- `LedgerIsTruthfulHolds`, `QuietWindowAlwaysKept`: from `Orderly`, which says what a call knows at each
  point of itself (`Knows`: whose the window is, whether the write happened, what the readback
  may answer), what a row without a call says (`RowHolds`), and that an applied write is followed by
  its quiet window. Under `ExclusiveCalls` and `Faults = {}`. Both are needed: a crash between
  `FinishExecution` and `SettleWindow` strands the window, a storage failure in the settlement makes the
  handler release it although the row says APPLIED, and overlapping calls are finding 1.

`BoundedAutonomyProofs`
- `TypeCorrect`; `OnlyRecheckRewritesHolds` (`LedgerStep`); `AtMostOneWriteHolds` (`OneSender`, with
  the handler that closes whatever is active, and calls that adopt or observe a row of another);
  `ImplementsSingleWriterHolds` (in exclusive sessions: a row adopted after a crash is a key that is open and
  was not written for, as the write count of a RESERVED key is 0).
- `QuotaHeldHolds`: `QuotaHeld` is inductive with the typing, but its step adds one element to
  each of the sets that are summed. `TotalExposure` and `TotalStep` of a finite set with one more element
  are proved by induction on cardinality (see below), so a reservation that was checked against every
  sum keeps every sum, and the calendar days and rolling windows of the others are left alone.

`MonitoringPollProofs`: `IInv` = `TypeOK`, claims are unique to pollers, the holder of the
current claim was due when it claimed, the reasons a poll carries past its evaluation were
judged, versions are counted. From it: `TypesKept`, `PollsAlwaysSpaced`,
`LatestClaimAlwaysPersists`, `ProposalsAlwaysJudged`, `VersionsAlwaysDense`,
`SnapshotsStayImmutable`. Spacing rests on fencing: a poller whose claim was overtaken
cannot persist, so the one that does was due with respect to the same last completion.

`PackageDispatchProofs`, all under `ExclusiveDispatch` (without it finding 2):
- `Inductive` = `TypeOK /\ Sound`. An item then has at most one worker, so the proof is local: what the
  worker knows (`Local`), what its row says (`RecordSound`) and what the provider has (`ObjectSound`) are
  kept by each of its steps (`Before`, `After`), and `StepFrame` shows that all others leave them alone.
  From it `TypeCorrect`, `AlwaysSound`, `NeverAddedTwice` (`AtMostOneAdd`) and `OutcomesStayTrue`.
- `AmbiguityStaysLocked`: with `Kept`, what holds while the journal can be written (a condition of the
  property itself).
- `SettledStaysSafe`: with `Safe`, for behaviours in which no execution that was worked on before is
  answered by a call that failed before it read what became of it (`[][ResumesSucceed]_vars`). The code
  has such calls (`p0.ts:761`, and a plain error while the pending intent is reconciled): section 6.
- `BoundaryKept` (`AccountBoundary`): for behaviours in which no lease runs out while its execution waits
  for an outcome (`[][LeasesCover]_vars`); the lease of a crashed request does (`p0.ts:158`).

`CampaignSagaProofs`
- `TypeCorrect`, with what a call may carry at each of its points.
- `SentOnceHolds` (`SendInv`: a call at the adapter has the only journal entry of its key, and the key
  has not been sent) and `WritesFollowApprovalHolds` (`AuthorityInv`), both for calls that overlap.
- `NoLostObjectHolds`, `CompensatedIsGoneHolds`, `LaunchIsWholeHolds`, for one caller of `execute` at a time (a condition
  of the first and third property, a hypothesis of the second; `CompensatedIsGone` is checked by the run
  with overlapping callers too, but the argument needs one). `SagaInv`: dispatches
  are those of the completed steps and of the next one; an object on the account belongs to an answered
  step; once an object was deleted the saga is stuck at the step that failed, so that no later call can
  launch what is being taken away; a compensation that missed nothing still has every object on its list.

`GoalLifecycleProofs`
- `TypeCorrect`; `PageIsAStack` (`OnePublisher`, `Stacked`), without a hypothesis.
- `OneGoalHolds`, `CleanedIsGoneHolds`, `NoLostTargetHolds`, `TargetsFollowHumansHolds`, from `GoalInv` (one creator per
  event, claims name the run whose goal it is, who found a goal found the one of his event, reservations pay for what was
  added), `Published` and `Authorised`. They are about the behaviours with `[]NoStaleMatch`: no cleanup
  ends while the reconciliation of another run with the same event is between its read and its
  completion. Without it they are false once enough may be disturbed (section 6, Goals).

`RecommendationProofs`
- `RecommendationCostBounded` (`CostInv`: the row a call pays with is its own, and the ledger's sums are bounded).
- `RecommendationActiveIsReadable`, `RecommendationOneAdvice` (`StoreInv`: what the lock of the index
  protects, what a file holds at each point of a save, and that the rows only grow).
- `RecommendationReadyIsSupported`: `SoundInv` says that a running call works on linked reads and a valid
  projection and that what it saves or was answered has passed the validation and was in force. The rest is
  about the rules alone: `FactsHold` (a fact the projection supports holds of the raw reports, through
  the products, quotients and roundings that lie between them), `FakeValid` (what the deterministic provider
  answers to a valid projection passes the validation) and `ComparableIsOne` (a comparable
  snapshot is one observation by our own definition). Under `AdvisableLimits`, the bounds
  of the validation itself.

`DashboardProofs`: `TypeCorrect`; `EveryCycleAccounted` (`Shaped`, `ClaimInv`: each claim has exactly one row of the
history, or is the one under way, or was lost with its process); `CyclesAreWanted` (`WantedInv`, with what a
synchronisation carries of an older decision); `CyclesAreSpaced` (`SpacedInv`: while the autopilot is on, the due time in the settings,
and the one in the hands of a save that read it since the last claim, lies an interval after that claim, or
a save since then started the schedule over or was stale; a save that read before the claim is the stale
one, and `ClaimsSpaced` names it apart); `AppliedAsApproved`
(`ApprovedInv`); `AppliedIsSupported` (`SupportInv`, over lemmas about the rules: a threshold that may only be tightened
matches no more); `FinalImpacts` (`ImpactInv`: an observation read when it is evaluated has all its conversions;
`DocumentInv`: a workflow document speaks of the whole report beside it).

Induction. The library's induction theorems take an operator and cannot be instantiated here, but
`NatLessThanWellFounded` with `WFMin` can: the set of numbers at which a fact fails has a least
element. `SetInduction` in `RecommendationProofs` and `Induction` in `BoundedAutonomyProofs` are this step; sums over
sequences and over finite
sets, which the modules define as recursive functions of the number of elements, are proved with it.

Only model-checked: the liveness property `OpenExecutionsResolve` (fairness and ENABLED are beyond the
prover), and the two disagreements of section 6, which are violations. Behaviours outside a theorem's
hypothesis are only model-checked, where a run has them, within the bounds of section 4.

The typing invariants, `VersionsDense` and `SnapshotsImmutable` are proved and not run again.

## 6. Findings

Each is a run that TLC finds violated; the first was also reproduced against the Python code.

1. `approval_quiet_window`. A crash leaves a key IN_FLIGHT with its window IN_PROGRESS. A
   retry of `execute` that is refused releases this window (`approval_execution.py:492`);
   `reconcile` then records APPLIED, finds no window to activate, and the next write follows
   without a cooldown. A duplicate call while the first is still running does the same. With
   one call per key and no crash the property holds (`approval_single_flight`).
2. `package_overlap`. Two `dispatch_package` requests for one package (two tabs, or a retry
   while the first still runs): the second finds the item DISPATCHING and dispatches it again
   (`p0-application.ts:2907`), `claimAccountLock` lets it pass because the lock is held by the
   same execution (`p0.ts:204`), both have read the same row, and both send `campaigns.add`. Only
   the document's compare-and-swap notices, after the fact. With one dispatch at a time the
   property holds under every fault (`package_dispatch`).

Observations without a run of their own. Each is a behaviour of the code met while modelling
it; those marked * were seen as a TLC counterexample, and the model keeps them.

Executors

- *`UNKNOWN_RESULT` does not stop a key reserved before it: `send_once` of the mandate store
  (`mandate_store.py:580`) looks at active keys only, and a recheck may make a closed one unknown.
- *After a crash behind the write, `recheck` or a refused duplicate closes the IN_FLIGHT row as
  BLOCKED without a readback (`autonomy_execution.py:290`, `:549`);
  requirements-v2-prototype.md:724 lets a readback decide it.
- A row left RESERVED by a crash, or by another call that still works on it, is adopted by the next
  call of its key (`mandate_store.py:451`, `control_state.py:1696`). In the mandate mode the checks of a new
  reservation are skipped then: an UNKNOWN_RESULT elsewhere does not stop it, its quota is the one
  charged by the first call, and a kill switch is seen again only by `send_once`. One write per
  key holds all the same, since RESERVED → IN_FLIGHT is taken once.
- A call that sent nothing may close a key another call has in flight: after IN_FLIGHT from `send_once` it
  reads back and records what it finds, possibly before the sender has reached the transport
  (`autonomy_execution.py:442`). A live `reconcile` does the same in the approval mode
  (`approval_execution.py:696`). The sender then writes for a key that says FAILED; this is why
  `ImplementsSingleWriter` is claimed for calls that do not overlap.
- A crash or storage error between finishing the execution and settling the window leaves the
  window IN_PROGRESS for a finished key (`approval_execution.py:469`). No step must release it: only a refused retry
  of the same key happens to.
- A proposal is judged on the data and the last applied write read for its poll
  (`monitoring.py:900`); neither is read again when it is persisted, so what it was judged on may have
  changed by then.
- `reconcile` of an orphan that never reserved the window records APPLIED and then raises in
  `settle` (`approval_execution.py:719`): the operator is told BLOCKED about an execution
  whose row says APPLIED.

Production packages

- *A request that crashes with a pending intent holds the account only for the lease: 15
  minutes later another package writes (`p0.ts:158`; `AccountBoundary` with crash and lease
  over two packages).
- *A resumed dispatch whose preflight fails records SYSTEM_FAILED although an intent is
  undecided, and nothing asks for the item again (`p0.ts:761`; `SettledIsSafe` with crash and
  preflight). With a failing journal the exception of a save becomes an outcome, and neither
  `SettledIsSafe` nor `AmbiguityIsLocked` holds.
- *Two crashes around `ads.moderate` make the program submit the ad again: `persistProgress`
  replaces the steps that say it was submitted by those of the running call
  (`execution-safety.ts:512`).
- *A definite rejection followed by a failing containment read releases the lock, while the
  document records that the account is held (`execution-safety.ts:555`). This is why
  `AmbiguityIsLocked` excludes executions whose record says PROVIDER_REJECTED.
- *A contained failure after creation carries no campaign state, so its item never counts as
  suspended and blocks every later item (`campaign-package-execution.ts:1016`); the site's
  README promises that definite contained failures do not stop later safe items.
- A poll reads with a plain `fetch`: a network error ends a pending item as SYSTEM_FAILED
  (`p0.ts:1040`).

Saga

- *Of two overlapping calls, the one whose claim is refused deletes the dispatch the other has
  open (`campaign_lifecycle.py:477`). The audit key of the operation still stops a second
  send; `NoLostObject` is lost, so it is claimed for one caller only.
- A step cancelled after its audit can never be sent again, since the audit key is used. A saga that
  crashed between recording its objects and completing the step stays IN_FLIGHT for ever: its
  reconciliation inserts the recorded objects again (`campaign_lifecycle.py:882`) and violates
  their primary key each time, while requirements-v2-prototype.md:649 asks that an unfinished
  saga restores the state of its steps.
- Compensation goes on after a failed deletion of a child. After a failed full readback the
  campaign stays ON while its children are deleted. The expiry of an authority is read at the start only.

Goals

- *A cleanup that crashed between its audit and its rollback or deletion is refused for ever
  (PRE_WRITE_AUDIT_ALREADY_EXISTS), and one that tried to roll back out of order has used its key.
- A reconciliation reads the counter and completes in two steps, and nothing ties what it found to the
  execution that is open when it completes (`goal_service.py:513`, `:528`). If its execution was
  aborted meanwhile and another run created a goal for the event, it finds that goal; once that run was
  cleaned up and its own execution begun again, it completes with a goal that was deleted. This takes
  more disturbances than the run allows; the theorems exclude such schedules (`NoStaleMatch`).
- A stale VERIFIED may be written after the decision, so APPROVED beside an inconclusive
  delivery is reachable; the gate still refuses it. A creation that crashed before `add_goal`
  ends as UNKNOWN_RESULT and stays so. If a second caller marked the execution unknown, the
  first one's abort leaves its authority and reservation RESERVED.
- *A cleanup that found no publication completes, and the event may be published afterwards:
  the page then carries the event of a cleaned goal (requirements-v2-prototype.md:450). This is
  the last case of `NoLostTarget`.

Recommendations

- A crash between reservation and settlement keeps the reservation for ever. A torn
  or orphaned file refuses that proposal's content for ever. The envelope's bytes contain
  the usage, so a repeated answer with other token counts is a conflict.
- `record_synthetic_cost` does not look at the limit (not modelled). A suspension may rest on a
  fact called SAMPLE_BELOW_GATE0_MINIMUM. With a minimum sample of zero the deterministic provider
  raises on a metric that is NOT_APPLICABLE.
- `validate_projection` accepts policy limits of zero (`recommend_projection.py:343`), while an
  answer's step and observation window must be at least one (`recommend_contracts.py:376`, `:456`).
  Under such a policy the deterministic provider's changes are all refused. The shipped policy has 10
  and 72 (`config/gate0-policy.json:249`, `:260`); the theorem asks for what the validation asks.
- `_validate_model_payload` (`recommend_contracts.py:392`) does not look at
  `financial_recommendations_allowed`: a model may propose a higher budget on stale or
  incompatible data and the proposal becomes READY, while requirements-v2-prototype.md:281 forbids
  a financial proposal then. Both executors refuse it (`approval_execution.py:129`,
  `autonomy_policy.py:52`). `ReadyIsSupported` therefore asks for one observation only of the change
  the deterministic provider advises.

Observation

- The pacing period is compared with the budget week by the days of UTC and again by those of the
  campaign (`normalization.py:383`, `:440`): a campaign outside UTC is never COMPARABLE (read
  `abroad`), so no change is ever advised for it.
- A production snapshot is always PARTIAL, as README.md:46 of the repository says: it has no
  baseline and no author of the last change. Its budget week is that of the day on which it is
  read, which a fixed number of days before is only by chance.
- The age of a block is the age of its retrieval; of the watermarks only the skew and the cutoff are
  bounded. The projection repeats the age at its evaluation and no rule reads it: a snapshot that was
  fresh when it was generated supports advice later.
- An attribution that is not the approved one is listed as a gap and then refused as INVALID_INPUT
  by the projection, not handed to a human.
- The production reader does not compare clicks with impressions nor conversions with visits; the
  fixture reader does.

Dashboard

- Enabling the autopilot issues a mandate only if none is ACTIVE, and the status of a mandate
  stays ACTIVE when it expires (`ui_dashboard.py:200`): a day later the autopilot runs and is
  refused. An invalid configuration with `enabled` leaves its fresh mandate behind.
  `revoke_latest_mandate` revokes the oldest active one.
- README.md:38 says trigger values can only tighten the approved thresholds; a source mismatch may
  be set to 10000 percent and the safety rules switched off. README.md:37 says intervals from five minutes to one
  day; the code takes 1 to 10080 minutes. `ScheduledIsSupported` says what does hold.
- *`_sync_campaign_target` (`ui_dashboard.py:317`) writes back settings it read before, which may
  turn the autopilot on again that somebody just switched off. `ClaimsAreWanted` excludes claims after such an
  overlap.
- A save reads `next_run_at` before its transaction (`ui_automation.py:1029`) and writes it back in it (`:1045`).
  If a cycle is claimed in between, the save restores the due time that cycle used up and one more
  cycle is due at once, though neither the target nor the policy changed. `ClaimsSpaced` names these saves
  (`stale`) beside those that start the schedule over; each brings one cycle forward and no other step does.
- The report of a run is written before its evidence and its history row (`ui_service.py:1711`): a run whose
  record fails is shown by its report and as a failure in the history.
- A `sqlite3.Error` while recording a failure ends the scheduler thread silently
  (`ui_server.py:829`). A cycle that finds a test running uses up its period.
- A crash between the executor and the report leaves an applied change without a row; a disk error
  there leaves one that says BLOCKED. Nothing reconciles such an execution.
- The scheduler is configured with BOUNDED_AUTONOMY, so the selected operating mode does not
  influence it (`ui_dashboard.py:99`).
- A proposal and its revision may both be approved; `ApprovedExactly` therefore counts one
  change per proposal. The goal's status compares a rounded CPA while the advice compares the exact one.

Impact

- `evaluated_at` is what the sender says, and watermarks may be of any age
  (`impact.py:349`): an observation read before late conversions arrived is admitted when it
  is evaluated, or claimed to be, after the cutoff. `ImpactsAreFinal` speaks of observations that were read when evaluated. The
  watermarks of the baseline are not looked at, nor is `change_id` compared with any change.
- A goal without conversions after the change is escalated to a human, never rolled back.
- A crash during the exclusive write leaves a torn file that refuses that run for ever.

Serverless

- The runtime restores a snapshot, operates and overwrites it with no version check
  (`vercel_runtime.py:123`), and answers before it persists (`api/index.py`): two instances lose each
  other's updates, among them claims, revocations and grants.

## 7. Not modelled, and why

`PROJECT.json` lists every component with its status.

- Of observation: the catalog of campaigns, credentials and their policy, HTTP, parsing, and the
  artifacts of a run; the metrics that are only reported (CPC, CPL, pacing, deviations).
- Nothing to interleave: command contracts and pipeline wiring,
  egress and host manifests, the command line, production analysis (pure functions of evidence).
- Formatting, rendering and I/O: evidence pages, prompts and schemas, the browser clients, the test
  harnesses.
- Cryptography: mandate signatures, authority proofs and the hash chain of the audit journal are
  taken as what they establish.
- No promise to check: the serverless runtime, where the last writer wins.
- In reach and left for later: the correction of a rejected item, the earlier steps of the
  production document, the fan-out and viability tables (section 2).
