---------------------------- MODULE CampaignSaga ----------------------------
(***************************************************************************)
(* The campaign creation saga (campaign_lifecycle.py) over the typed       *)
(* Direct boundary (direct_management.py), the campaign approvals          *)
(* (control_state.py) and the lifecycle authority.                         *)
(*                                                                         *)
(* A call of CampaignLifecycleService.execute is a caller with a program   *)
(* counter; each action is one transaction of the store, one adapter call, *)
(* or a group of reads between them.  Callers share the store and the      *)
(* account; a crash drops the caller and nothing else.                     *)
(***************************************************************************)
EXTENDS DirectManagement, LifecycleAuthority

CONSTANTS
  Callers,        \* processes that call execute
  Requests,       \* campaign creation requests, one execution key and run each
  Reservations,
  ReservationOf,  \* [Requests -> Reservations], request.reservation_id
  Plans,          \* canonical plans a request may be submitted with
  NoRow,          \* no row in a table
  Sessions        \* bounds of the behaviours, one of them chosen in Init: who
                  \* calls, the fake adapters, and how many calls of execute,
                  \* crashes, managed writes outside a saga, and incidents (kill-
                  \* switch changes, altered rows, edits, failed commits)

ASSUME RequestAssumption == ReservationOf \in [Requests -> Reservations]
ASSUME BindingAssumption == Requests \X Plans \subseteq Bindings
ApprovalRow == [fields : Authority, signed : Authority,
                status : {"AVAILABLE", "RESERVED", "USED"}]
ASSUME NoRowAssumption == NoRow \notin ApprovalRow
ASSUME SessionAssumption == \A s \in Sessions : s.adapters \subseteq FakeAdapter

Steps == <<"CAMPAIGN_ADD", "AD_GROUP_ADD", "ADS_ADD", "KEYWORD_ADD",
           "MODERATION_SUBMIT", "MODERATION_READBACK", "CAMPAIGN_LAUNCH",
           "FULL_READBACK">>
WriteSteps == {Steps[i] : i \in {1, 2, 3, 4, 5, 7}}
AddSteps == {Steps[i] : i \in 1..4}
Terminal == {"APPLIED", "UNKNOWN_RESULT", "FAILED", "PARTIALLY_APPLIED",
             "COMPENSATION_REQUIRED"}

\* What each operation is on the account.  A deletion carries the name of the
\* object it deletes.
ObjectsOf ==
  [CAMPAIGN_ADD |-> <<"campaign">>, AD_GROUP_ADD |-> <<"group">>,
   ADS_ADD |-> <<"ad1", "ad2">>, KEYWORD_ADD |-> <<"keyword">>,
   MODERATION_SUBMIT |-> <<"ad1", "ad2">>, CAMPAIGN_LAUNCH |-> <<"campaign">>,
   campaign |-> <<"campaign">>, group |-> <<"group">>, ad1 |-> <<"ad1">>,
   ad2 |-> <<"ad2">>, keyword |-> <<"keyword">>]
MethodOf(op) == IF op \in AddSteps THEN "add"
                ELSE IF op = "MODERATION_SUBMIT" THEN "moderate"
                ELSE IF op = "CAMPAIGN_LAUNCH" THEN "resume" ELSE "delete"
Operations == WriteSteps \cup Objects

VARIABLES
  saga,         \* campaign_sagas and campaign_saga_steps
  dispatch,     \* campaign_saga_dispatches: absent, open or completed
  owned,        \* campaign_created_objects of a run in rowid order
  compensated,  \* ... those with compensated_at set
  reservation,  \* creation_reservations
  approval,     \* campaign_approvals
  account,      \* the objects each run has on the account
  altered,      \* runs whose objects were edited outside
  answered,     \* FakeDirectManagementAdapter._idempotent_results
  sent,         \* invocations of the adapter per operation key
  adapter, audited, killed, clock,
  call,         \* the calls of execute under way
  calls, incidents, crashes, managed,
  session       \* the bounds of this behaviour

storeVars == <<saga, dispatch, owned, compensated, reservation, approval>>
accountVars == <<account, altered, answered, sent, adapter>>
guardVars == <<audited, killed, clock>>
boundVars == <<calls, incidents, crashes, managed>>
vars == <<storeVars, accountVars, guardVars, boundVars, call, session>>

NoCall == [pc |-> "idle", req |-> NoRow, plan |-> NoRow, limited |-> FALSE, next |-> 0,
           op |-> NoOp, claimed |-> FALSE, reconciling |-> "no", queue |-> {},
           missed |-> FALSE]

Init ==
  /\ saga = [r \in Requests |-> [status |-> "NONE", plan |-> NoRow, completed |-> 0]]
  /\ dispatch = [r \in Requests |-> [w \in WriteSteps |-> "NONE"]]
  /\ owned = [r \in Requests |-> <<>>]
  /\ compensated = [r \in Requests |-> {}]
  /\ reservation = [x \in Reservations |-> [status |-> "AVAILABLE", holder |-> NoRow]]
  /\ approval = [r \in Requests |-> NoRow]
  /\ account = [r \in Requests |-> [o \in Objects |-> "GONE"]]
  /\ altered = {}
  /\ answered = {}
  /\ sent = [r \in Requests |-> [op \in Operations |-> 0]]
  /\ session \in Sessions
  /\ adapter \in session.adapters
  /\ audited = {}
  /\ killed = FALSE
  /\ clock = 0
  /\ call = [c \in Callers |-> NoCall]
  /\ calls = 0 /\ incidents = 0 /\ crashes = 0 /\ managed = 0

-----------------------------------------------------------------------------
(* The store.                                                              *)

Completed(r) == saga[r].completed
OpenSteps(r) == {w \in WriteSteps : dispatch[r][w] = "OPEN"}
Pending(r) == CHOOSE w \in OpenSteps(r) : TRUE
StepCompleted(r, step) == \E i \in 1..Completed(r) : Steps[i] = step
CreatedObjects(r) == Range(owned[r]) \ compensated[r]
Belongs(r, o) == o \in CreatedObjects(r)
LastCreated(r, objects) ==
  CHOOSE o \in objects : \E i \in DOMAIN owned[r] :
    owned[r][i] = o /\ \A j \in DOMAIN owned[r] : j > i => owned[r][j] \notin objects

Goto(c, pc) == call' = [call EXCEPT ![c].pc = pc]
Return(c) == call' = [call EXCEPT ![c] = NoCall]
FinishSaga(r, s) == saga' = [saga EXCEPT ![r].status = s]

\* register_campaign_approval: the authority service issues the document and
\* its row is stored once.
RegisterApproval(r, principal, plan) ==
  LET document == [kind |-> "APPROVAL", principal |-> Approver,
                   binding |-> <<r, plan>>, expires |-> 1]
  IN /\ approval[r] = NoRow
     /\ MayIssue(document, principal, clock)
     /\ approval' = [approval EXCEPT ![r] = [fields |-> document, signed |-> document,
                                             status |-> "AVAILABLE"]]
     /\ UNCHANGED <<saga, dispatch, owned, compensated, reservation, accountVars,
                    guardVars, boundVars, call>>

\* A row that no longer says what was signed.
AlterApproval(r, plan) ==
  /\ approval[r] # NoRow /\ incidents < session.incidents
  /\ approval[r].fields.binding # <<r, plan>>
  /\ approval' = [approval EXCEPT ![r].fields.binding = <<r, plan>>]
  /\ incidents' = incidents + 1
  /\ UNCHANGED <<saga, dispatch, owned, compensated, reservation, accountVars,
                 guardVars, calls, crashes, managed, call>>

-----------------------------------------------------------------------------
(* Opening a call.                                                         *)

Execute(c, r, plan, limited) ==
  /\ call[c] = NoCall /\ c \in session.callers /\ calls < session.calls
  /\ call' = [call EXCEPT ![c] =
       [pc |-> "start", req |-> r, plan |-> plan, limited |-> limited, next |-> 0,
        op |-> NoOp, claimed |-> FALSE, reconciling |-> "no",
        queue |-> {}, missed |-> FALSE]]
  /\ calls' = calls + 1
  /\ UNCHANGED <<storeVars, accountVars, guardVars, incidents, crashes, managed>>

ReservationHolds(r) == reservation[ReservationOf[r]].status = "AVAILABLE" /\ clock = 0
ApprovalHolds(r, plan) ==
  /\ approval[r] # NoRow
  /\ ProofHolds(approval[r])
  /\ approval[r].status = "AVAILABLE"
  /\ approval[r].fields.binding = <<r, plan>>
  /\ approval[r].fields.expires > clock

\* start_or_load of a new execution key: the reservation, the approval and the
\* saga change in one transaction or not at all.
StartSaga(c) ==
  LET r == call[c].req IN
  /\ call[c].pc = "start" /\ saga[r].status = "NONE"
  /\ ReservationHolds(r) /\ ApprovalHolds(r, call[c].plan)
  /\ approval' = [approval EXCEPT ![r].status = "RESERVED"]
  /\ reservation' = [reservation EXCEPT ![ReservationOf[r]] =
                       [status |-> "RESERVED", holder |-> r]]
  /\ saga' = [saga EXCEPT ![r] = [status |-> "IN_FLIGHT", plan |-> call[c].plan,
                                  completed |-> 0]]
  /\ Goto(c, "pending")
  /\ UNCHANGED <<dispatch, owned, compensated, accountVars, guardVars, boundVars>>

RefuseStart(c) ==
  LET r == call[c].req IN
  /\ call[c].pc = "start"
  /\ \/ saga[r].status = "NONE"
        /\ ~(ReservationHolds(r) /\ ApprovalHolds(r, call[c].plan))
     \/ saga[r].status # "NONE" /\ saga[r].plan # call[c].plan
  /\ Return(c)
  /\ UNCHANGED <<storeVars, accountVars, guardVars, boundVars>>

\* start_or_load of a known execution key; a terminal saga answers at once.
AnswersAtOnce(s) == s \in Terminal
LoadSaga(c) ==
  LET r == call[c].req IN
  /\ call[c].pc = "start" /\ saga[r].status # "NONE"
  /\ saga[r].plan = call[c].plan
  /\ IF AnswersAtOnce(saga[r].status) THEN Return(c) ELSE Goto(c, "pending")
  /\ UNCHANGED <<storeVars, accountVars, guardVars, boundVars>>

\* execute looks for a dispatch without an outcome before anything else, then
\* resumes after the completed steps.
CheckPending(c) ==
  LET r == call[c].req IN
  /\ call[c].pc = "pending"
  /\ call' = [call EXCEPT ![c].pc = IF OpenSteps(r) = {} THEN "resume" ELSE "reconcile",
                          ![c].reconciling = IF OpenSteps(r) = {} THEN "no" ELSE "first"]
  /\ UNCHANGED <<storeVars, accountVars, guardVars, boundVars>>

Resume(c) ==
  /\ call[c].pc = "resume"
  /\ call' = [call EXCEPT ![c].next = Completed(call[c].req), ![c].reconciling = "no",
                ![c].pc = IF Completed(call[c].req) = Len(Steps) THEN "settle" ELSE "begin"]
  /\ UNCHANGED <<storeVars, accountVars, guardVars, boundVars>>

-----------------------------------------------------------------------------
(* One step: begin, claim, audit, send, record.                            *)

StepOf(c) == Steps[call[c].next + 1]

\* The objects of this run a step builds on, and what the typed method checks of
\* the account before the claim (CAMPAIGN_ADD: preflight_add).
BuildsOn(r, step) ==
  CASE step \in {"AD_GROUP_ADD", "CAMPAIGN_LAUNCH"} -> Belongs(r, "campaign")
    [] step \in {"ADS_ADD", "KEYWORD_ADD"} -> Belongs(r, "group")
    [] step = "MODERATION_SUBMIT" -> \E o \in {"ad1", "ad2"} : Belongs(r, o)
    [] OTHER -> TRUE
ReadyFor(r, step) ==
  /\ BuildsOn(r, step)
  /\ step = "CAMPAIGN_ADD" => ~killed
  /\ step = "MODERATION_SUBMIT" =>
       \A o \in {"ad1", "ad2"} : Belongs(r, o) => Permitted(account[r], o, "moderate")
  /\ step = "CAMPAIGN_LAUNCH" => Permitted(account[r], "campaign", "resume")

\* _run_step up to the connector call: preflight_add, begin_step, the reads.
BeginStep(c) ==
  LET r == call[c].req
      step == StepOf(c)
  IN /\ call[c].pc = "begin"
     /\ IF /\ Completed(r) = call[c].next
           /\ OpenSteps(r) = {}
           /\ ReadyFor(r, step)
        THEN call' = [call EXCEPT ![c].op = step,
                ![c].pc = IF step \in WriteSteps THEN "claim" ELSE "readback"]
        ELSE Return(c)
     /\ UNCHANGED <<storeVars, accountVars, guardVars, boundVars>>

\* claim_direct_operation and the compensation branch.
NextStep(r) == Steps[Completed(r) + 1]
InFlight(r) == saga[r].status = "IN_FLIGHT"
Claimable(r, op) ==
  IF op \in Objects THEN Belongs(r, op)
  ELSE /\ Completed(r) < Len(Steps) /\ NextStep(r) = op
       /\ BuildsOn(r, op)
       /\ dispatch[r][op] = "NONE"
\* The next step is a readback: the claim is not for this saga's plan.
PassesUnclaimed(r, op) ==
  \/ ~InFlight(r)
  \/ /\ op \notin Objects /\ Completed(r) < Len(Steps)
     /\ NextStep(r) \notin WriteSteps

\* ApplicationWriteBoundary.authorize up to the durable audit.
Claim(c) ==
  LET r == call[c].req
      op == call[c].op
      proceeds == ~killed /\ (PassesUnclaimed(r, op) \/ Claimable(r, op))
      claims == proceeds /\ ~PassesUnclaimed(r, op)
  IN /\ call[c].pc = "claim"
     /\ call' = [call EXCEPT ![c].claimed = claims,
                             ![c].pc = IF proceeds THEN "audit" ELSE "cancel"]
     /\ dispatch' = IF claims /\ op \in WriteSteps
                    THEN [dispatch EXCEPT ![r][op] = "OPEN"] ELSE dispatch
     /\ UNCHANGED <<saga, owned, compensated, reservation, approval, accountVars,
                    guardVars, boundVars>>

\* DurablePreWriteAudit.authorize: one journal per operation key, ever.
AuditKey(c) == <<call[c].req, call[c].op>>
AlreadyAuditedNever(c) == FALSE
AlreadyAudited(c) == AuditKey(c) \in audited
AuditIntent(c) ==
  /\ call[c].pc = "audit"
  /\ Goto(c, IF AlreadyAudited(c) THEN "cancel" ELSE "recheck")
  /\ audited' = audited \cup {AuditKey(c)}
  /\ UNCHANGED <<storeVars, accountVars, killed, clock, boundVars>>

\* The second require_dispatch_allowed; _invoke of a production adapter refuses
\* a write the store did not claim.
Recheck(c) ==
  /\ call[c].pc = "recheck"
  /\ Goto(c, IF killed THEN "cancel"
             ELSE IF adapter.production /\ ~call[c].claimed THEN "rejected" ELSE "send")
  /\ UNCHANGED <<storeVars, accountVars, guardVars, boundVars>>

\* cancel_direct_operation_claim: an uncompleted dispatch without objects goes.
Cancelled(r, op) ==
  IF /\ op \in WriteSteps /\ dispatch[r][op] = "OPEN"
     /\ ~(op \in AddSteps /\ Range(ObjectsOf[op]) \cap Range(owned[r]) # {})
  THEN [dispatch EXCEPT ![r][op] = "NONE"] ELSE dispatch
CancelClaim(c) ==
  LET r == call[c].req
      op == call[c].op
  IN /\ call[c].pc = "cancel"
     /\ dispatch' = Cancelled(r, op)
     /\ Goto(c, "rejected")
     /\ UNCHANGED <<saga, owned, compensated, reservation, approval, accountVars,
                    guardVars, boundVars>>

\* A rejection leaves execute, except inside a compensation, which notes it and
\* goes on with the next object.
Rejected(c) ==
  /\ call[c].pc = "rejected"
  /\ IF call[c].op \in Objects
     THEN call' = [call EXCEPT ![c].missed = TRUE, ![c].pc = "compensate"]
     ELSE Return(c)
  /\ UNCHANGED <<storeVars, accountVars, guardVars, boundVars>>

AfterSendUnrecorded(op) == IF op \in Objects THEN "mark"
  ELSE IF op = "CAMPAIGN_ADD" THEN "consume" ELSE "complete"
AfterSend(op) == IF op \in Objects THEN "mark"
                 ELSE IF op = "CAMPAIGN_ADD" THEN "consume"
                 ELSE IF op \in AddSteps THEN "register" ELSE "complete"

\* A stored answer is repeated without touching the account.
RepeatAnswer(c) ==
  LET r == call[c].req
      op == call[c].op
  IN /\ call[c].pc = "send" /\ <<r, op>> \in answered
     /\ Goto(c, AfterSend(op))
     /\ sent' = [sent EXCEPT ![r][op] = @ + 1]
     /\ UNCHANGED <<storeVars, account, altered, answered, adapter, guardVars, boundVars>>

FailSend(c) ==
  LET r == call[c].req
      op == call[c].op
      rejects == Fails(adapter, ServiceOf[ObjectsOf[op][1]], MethodOf(op))
  IN /\ call[c].pc = "send" /\ <<r, op>> \notin answered
     /\ rejects \/ Missing(account[r], ObjectsOf[op], MethodOf(op))
     /\ account' = IF rejects THEN account ELSE [account EXCEPT ![r] =
                     Invoked(@, Reached(@, ObjectsOf[op], MethodOf(op)), MethodOf(op))]
     /\ Goto(c, IF op \in Objects THEN "rejected" ELSE "failed")
     /\ sent' = [sent EXCEPT ![r][op] = @ + 1]
     /\ UNCHANGED <<storeVars, altered, answered, adapter, guardVars, boundVars>>

\* The adapter applies the operation; it may time out after doing so.
Send(c) ==
  LET r == call[c].req
      op == call[c].op
      service == ServiceOf[ObjectsOf[op][1]]
  IN /\ call[c].pc = "send" /\ <<r, op>> \notin answered
     /\ ~Fails(adapter, service, MethodOf(op))
     /\ ~Missing(account[r], ObjectsOf[op], MethodOf(op))
     /\ account' = [account EXCEPT ![r] =
                      Invoked(@, Range(ObjectsOf[op]), MethodOf(op))]
     /\ sent' = [sent EXCEPT ![r][op] = @ + 1]
     /\ answered' = answered \cup {<<r, op>>}
     /\ call' = [call EXCEPT
          ![c].pc = IF ~TimesOut(adapter, service, MethodOf(op)) THEN AfterSend(op)
                    ELSE IF op \in Objects THEN "rejected" ELSE "reconcile",
          ![c].reconciling = IF TimesOut(adapter, service, MethodOf(op))
                             THEN "handler" ELSE @]
     /\ UNCHANGED <<storeVars, altered, adapter, guardVars, boundVars>>

\* consume_first_write_authority: both or neither.
Consumable(r) == /\ reservation[ReservationOf[r]] = [status |-> "RESERVED", holder |-> r]
                 /\ approval[r] # NoRow /\ approval[r].status = "RESERVED"
AfterConsumeFailure(c) ==
  IF call[c].reconciling = "no"
  THEN [call EXCEPT ![c].pc = "reconcile", ![c].reconciling = "handler"]
  ELSE [call EXCEPT ![c].pc = "unknown"]
ConsumeAuthority(c) ==
  LET r == call[c].req IN
  /\ call[c].pc = "consume"
  /\ IF Consumable(r)
     THEN /\ reservation' = [reservation EXCEPT ![ReservationOf[r]].status = "USED"]
          /\ approval' = [approval EXCEPT ![r].status = "USED"]
          /\ Goto(c, "register")
     ELSE call' = AfterConsumeFailure(c) /\ UNCHANGED <<reservation, approval>>
  /\ UNCHANGED <<saga, dispatch, owned, compensated, accountVars, guardVars, boundVars>>

\* The transaction itself may fail (sqlite3.Error) and is rolled back.
FailConsume(c) ==
  /\ call[c].pc = "consume" /\ incidents < session.incidents
  /\ call' = AfterConsumeFailure(c)
  /\ incidents' = incidents + 1
  /\ UNCHANGED <<storeVars, accountVars, guardVars, calls, crashes, managed>>

\* register_dispatched_objects, then the type check of _complete_add_step.  The
\* insertion of a recorded object violates the primary key.
RegisterObjects(c) ==
  LET r == call[c].req
      op == call[c].op
      objects == ObjectsOf[op]
  IN /\ call[c].pc = "register"
     /\ IF dispatch[r][op] # "OPEN" \/ Range(objects) \cap Range(owned[r]) # {}
        THEN Return(c) /\ UNCHANGED owned
        ELSE /\ owned' = [owned EXCEPT ![r] = @ \o objects]
             /\ IF adapter.mistypes # ServiceOf[objects[1]] THEN Goto(c, "complete")
                ELSE IF call[c].reconciling = "no" THEN Goto(c, "failed")
                ELSE Return(c)
     /\ UNCHANGED <<saga, dispatch, compensated, reservation, approval, accountVars,
                    guardVars, boundVars>>

\* Where a completed step leads: on with the loop, out of it, or back to the
\* point that asked for the reconciliation.
AfterStep(c) ==
  CASE call[c].reconciling = "first" -> [call EXCEPT ![c].pc = "resume"]
    [] call[c].reconciling = "handler" ->
         [call EXCEPT ![c].pc = IF call[c].limited THEN "settle" ELSE "start"]
    [] OTHER -> [call EXCEPT ![c].next = @ + 1,
         ![c].pc = IF call[c].limited \/ call[c].next + 1 = Len(Steps)
                   THEN "settle" ELSE "begin"]

\* complete_step: the steps are completed in order, a repeated completion is
\* silent, and a write step needs its dispatch.
CompleteStep(c) ==
  LET r == call[c].req
      op == call[c].op
  IN /\ call[c].pc = "complete"
     /\ IF StepCompleted(r, op) THEN call' = AfterStep(c) /\ UNCHANGED <<saga, dispatch>>
        ELSE IF \/ Completed(r) = Len(Steps) \/ NextStep(r) # op
                \/ op \in WriteSteps /\ dispatch[r][op] # "OPEN"
        THEN Return(c) /\ UNCHANGED <<saga, dispatch>>
        ELSE /\ saga' = [saga EXCEPT ![r].completed = @ + 1]
             /\ dispatch' = IF op \in WriteSteps
                            THEN [dispatch EXCEPT ![r][op] = "DONE"] ELSE dispatch
             /\ call' = AfterStep(c)
     /\ UNCHANGED <<owned, compensated, reservation, approval, accountVars,
                    guardVars, boundVars>>

\* The two readback steps read one service after the other.  The first reading
\* that fails is a definite failure; an object that is missing, or a service
\* without objects, a rejection; a graph that differs from the plan a failure.
Mine(r, service) == {o \in CreatedObjects(r) : ServiceOf[o] = service}
Unreadable(r, service) ==
  Mine(r, service) = {} \/ \E o \in Mine(r, service) : account[r][o] = "GONE"
FullReadbackMatches(r) ==
  /\ CreatedObjects(r) = Objects
  /\ account[r]["campaign"] = "ON" /\ account[r]["keyword"] = "SUSPENDED"
  /\ \A o \in {"ad1", "ad2"} : account[r][o] = "MODERATION"
  /\ r \notin altered
Readback(c) ==
  LET r == call[c].req
      full == call[c].op = "FULL_READBACK"
      services == IF full THEN <<"Campaigns", "AdGroups", "Ads", "Keywords">>
                  ELSE <<"Ads">>
      problems == {i \in DOMAIN services :
                     Fails(adapter, services[i], "get") \/ Unreadable(r, services[i])}
      first == CHOOSE i \in problems : \A j \in problems : i <= j
      matches == IF full THEN FullReadbackMatches(r)
                 ELSE \A o \in Mine(r, "Ads") : account[r][o] = "MODERATION"
  IN /\ call[c].pc = "readback"
     /\ IF problems # {} /\ ~Fails(adapter, services[first], "get") THEN Return(c)
        ELSE Goto(c, IF problems = {} /\ matches THEN "complete" ELSE "failed")
     /\ UNCHANGED <<storeVars, accountVars, guardVars, boundVars>>

-----------------------------------------------------------------------------
(* Reconciliation and compensation.                                        *)

\* _reconcile_pending_dispatch: the outcome of the open dispatch is asked of the
\* account by its operation key.
AssumedOutcome(r, step) ==
  IF <<r, step>> \in answered THEN AfterSend(step) ELSE "complete"
Outcome(r, step) ==
  IF adapter.reconciles /\ <<r, step>> \in answered THEN AfterSend(step) ELSE "unknown"
Reconcile(c) ==
  LET r == call[c].req
      step == Pending(r)
  IN /\ call[c].pc = "reconcile"
     /\ call' = IF OpenSteps(r) = {} THEN AfterStep(c)
                ELSE [call EXCEPT ![c].op = step, ![c].pc = Outcome(r, step)]
     /\ UNCHANGED <<storeVars, accountVars, guardVars, boundVars>>

FinishUnknown(c) ==
  /\ call[c].pc = "unknown"
  /\ FinishSaga(call[c].req, "UNKNOWN_RESULT")
  /\ IF call[c].reconciling = "first" THEN Return(c) ELSE Goto(c, "settle")
  /\ UNCHANGED <<dispatch, owned, compensated, reservation, approval, accountVars,
                 guardVars, boundVars>>

\* _finish_after_definite_failure: nothing created, nothing to undo.
FailSaga(c) ==
  LET r == call[c].req IN
  /\ call[c].pc = "failed"
  /\ IF CreatedObjects(r) = {}
     THEN FinishSaga(r, "FAILED") /\ Goto(c, "settle")
     ELSE /\ call' = [call EXCEPT ![c].queue = CreatedObjects(r),
                                  ![c].missed = FALSE, ![c].pc = "compensate"]
          /\ UNCHANGED saga
  /\ UNCHANGED <<dispatch, owned, compensated, reservation, approval, accountVars,
                 guardVars, boundVars>>

\* The next deletion in reverse order of creation; the connector requires the
\* object to be this run's and in a state that can be deleted.
DeleteNext(c) ==
  LET r == call[c].req
      o == LastCreated(r, call[c].queue)
  IN /\ call[c].pc = "compensate" /\ call[c].queue # {}
     /\ call' = [call EXCEPT ![c].op = o, ![c].queue = @ \ {o},
                   ![c].pc = IF Belongs(r, o) /\ Permitted(account[r], o, "delete")
                             THEN "claim" ELSE "rejected"]
     /\ UNCHANGED <<storeVars, accountVars, guardVars, boundVars>>

MarkCompensated(c) ==
  /\ call[c].pc = "mark"
  /\ compensated' = [compensated EXCEPT ![call[c].req] = @ \cup {call[c].op}]
  /\ Goto(c, "compensate")
  /\ UNCHANGED <<saga, dispatch, owned, reservation, approval, accountVars,
                 guardVars, boundVars>>

CompensationSwallowed(missed) == "PARTIALLY_APPLIED"
CompensationOutcome(missed) ==
  IF missed THEN "COMPENSATION_REQUIRED" ELSE "PARTIALLY_APPLIED"
FinishCompensation(c) ==
  /\ call[c].pc = "compensate" /\ call[c].queue = {}
  /\ FinishSaga(call[c].req, CompensationOutcome(call[c].missed))
  /\ Goto(c, "settle")
  /\ UNCHANGED <<dispatch, owned, compensated, reservation, approval, accountVars,
                 guardVars, boundVars>>

\* The end of execute: eight completed steps make the saga APPLIED.
Settle(c) ==
  LET r == call[c].req IN
  /\ call[c].pc = "settle"
  /\ IF Completed(r) = Len(Steps) THEN FinishSaga(r, "APPLIED") ELSE UNCHANGED saga
  /\ Return(c)
  /\ UNCHANGED <<dispatch, owned, compensated, reservation, approval, accountVars,
                 guardVars, boundVars>>

-----------------------------------------------------------------------------
(* The world around the calls.                                             *)

Crash(c) ==
  /\ call[c] # NoCall /\ crashes < session.crashes
  /\ Return(c) /\ crashes' = crashes + 1
  /\ UNCHANGED <<storeVars, accountVars, guardVars, calls, incidents, managed>>

SetKillSwitch ==
  /\ incidents < session.incidents
  /\ killed' = ~killed /\ incidents' = incidents + 1
  /\ UNCHANGED <<storeVars, accountVars, audited, clock, call, calls, crashes, managed>>

\* The expiry shared by the reservations and the approvals passes.
Expire ==
  /\ clock = 0 /\ clock' = 1
  /\ UNCHANGED <<storeVars, accountVars, audited, killed, boundVars, call>>

\* The platform accepts an advertisement, or somebody edits a campaign.
Moderate(r, o) ==
  /\ account[r][o] = "MODERATION" /\ incidents < session.incidents
  /\ account' = [account EXCEPT ![r][o] = "ON"]
  /\ incidents' = incidents + 1
  /\ UNCHANGED <<storeVars, altered, answered, sent, adapter, guardVars, calls,
                 crashes, managed, call>>
EditOutside(r) ==
  /\ account[r]["campaign"] # "GONE" /\ r \notin altered /\ incidents < session.incidents
  /\ altered' = altered \cup {r}
  /\ incidents' = incidents + 1
  /\ UNCHANGED <<storeVars, account, answered, sent, adapter, guardVars, calls,
                 crashes, managed, call>>

\* A typed method called on its own for an object of a run.  In flight the claim
\* compares it with the plan and refuses; otherwise only a fake adapter takes it,
\* once per operation key.
Manage(r, o, method) ==
  /\ managed < session.managed /\ ~adapter.production /\ ~killed
  /\ PassesUnclaimed(r, method) /\ ~InFlight(r)
  /\ <<r, o, method>> \notin audited
  /\ Belongs(r, o) /\ Permitted(account[r], o, method)
  /\ account' = [account EXCEPT ![r] = Invoked(@, {o}, method)]
  /\ audited' = audited \cup {<<r, o, method>>}
  /\ managed' = managed + 1
  /\ UNCHANGED <<storeVars, altered, answered, sent, adapter, killed, clock, calls,
                 incidents, crashes, call>>

CallStep(c) ==
  \/ StartSaga(c) \/ RefuseStart(c) \/ LoadSaga(c) \/ CheckPending(c) \/ Resume(c)
  \/ BeginStep(c) \/ Claim(c) \/ AuditIntent(c) \/ Recheck(c) \/ CancelClaim(c)
  \/ Rejected(c) \/ RepeatAnswer(c) \/ FailSend(c) \/ Send(c) \/ ConsumeAuthority(c)
  \/ FailConsume(c) \/ RegisterObjects(c) \/ CompleteStep(c) \/ Readback(c)
  \/ Reconcile(c) \/ FinishUnknown(c) \/ FailSaga(c) \/ DeleteNext(c)
  \/ MarkCompensated(c) \/ FinishCompensation(c) \/ Settle(c)

Next ==
  /\ \/ \E r \in Requests, plan \in Plans :
          \/ \E p \in Principals : RegisterApproval(r, p, plan)
          \/ AlterApproval(r, plan)
          \/ \E c \in Callers, limited \in BOOLEAN : Execute(c, r, plan, limited)
     \/ \E c \in Callers : CallStep(c) \/ Crash(c)
     \/ SetKillSwitch \/ Expire
     \/ \E r \in Requests : EditOutside(r)
     \/ \E r \in Requests, o \in Objects :
          Moderate(r, o) \/ \E method \in DOMAIN Reaches : Manage(r, o, method)
  /\ UNCHANGED session

Spec == Init /\ [][Next]_vars

-----------------------------------------------------------------------------
(* Properties.                                                             *)

\* No operation of a saga is sent twice, whichever call repeats, restarts or
\* reconciles it: the store refuses a second dispatch of a step, and the audit
\* journal of the operation key refuses one the store has forgotten.
SentOnce == \A r \in Requests, op \in Operations : sent[r][op] <= 1

OneCaller == \A c, d \in session.callers : c = d

\* Whatever crashes, an object on the account is recorded as created by its run
\* and not compensated, or the dispatch of its step is still open: nothing is
\* left that a reconciliation would not find.  Calls that overlap lose this: a
\* refused claim cancels the dispatch the other call has open.
NoLostObject ==
  OneCaller => \A r \in Requests, step \in AddSteps : \A o \in Range(ObjectsOf[step]) :
    account[r][o] # "GONE" => Belongs(r, o) \/ dispatch[r][step] = "OPEN"

\* A saga that says it was compensated has left nothing behind.
CompensatedIsGone ==
  \A r \in Requests : saga[r].status = "PARTIALLY_APPLIED" =>
    \A o \in Objects : account[r][o] = "GONE"

\* Everything a run creates carries the plan the configured approver signed, and
\* nothing is built on the campaign before its authority is used up.
WritesFollowApproval ==
  \A r \in Requests :
    /\ sent[r]["CAMPAIGN_ADD"] > 0 => approval[r].signed.binding = <<r, saga[r].plan>>
    /\ sent[r]["AD_GROUP_ADD"] > 0 =>
         /\ approval[r].status = "USED"
         /\ reservation[ReservationOf[r]] = [status |-> "USED", holder |-> r]

\* The saga resumes a campaign only when every object of the plan is on the
\* account and recorded as its own.  Calls that overlap lose this: one call's
\* readback may fail and undo what the other one, whose readback passed, launches.
LaunchIsWhole ==
  [][OneCaller => \A r \in Requests :
       sent[r]["CAMPAIGN_LAUNCH"]' # sent[r]["CAMPAIGN_LAUNCH"] =>
         \A o \in Objects : Belongs(r, o) /\ account[r][o] # "GONE"]_vars
=============================================================================
