---------------------------- MODULE GoalLifecycle ----------------------------
(***************************************************************************)
(* The lifecycle of candidate goals (goal_service.py) over its store       *)
(* (goal_store.py), the Metrica and site adapters (goal_adapters.py) and   *)
(* the lifecycle authority: creation, publication of the event on the      *)
(* site, technical verification, the decision about the business meaning,  *)
(* the optimization gate, and the cleanup of a rejected candidate.         *)
(*                                                                         *)
(* A call of the service is a caller with a program counter; each action   *)
(* is one transaction of the store, one adapter call or one read.  One     *)
(* counter with its one site zone is modelled.  A version of the page is   *)
(* the sequence of the runs whose events it carries.                       *)
(***************************************************************************)
EXTENDS LifecycleAuthority, SequencesExt

CONSTANTS
  Callers,
  Goals,          \* goal creation requests, one run, candidate and plan each
  Reservations,
  ReservationOf,  \* [Goals -> Reservations]
  Signatures,
  SignatureOf,    \* [Goals -> Signatures], goal_signature of the payload
  Authorities,    \* authority identifiers
  Proposed,       \* [Authorities -> Authority], the documents people may register
  Quota,          \* [Authorities -> Nat], action_quota
  TimesOut,       \* whether the adapters answer (none, the creation, the publication)
  Nobody,         \* no row, no key, no goal
  MaxDisturbances \* bound, together, on crashes, on calls opened while another one
                  \* is open, and on kill-switch changes, altered rows, goals made
                  \* by others and expiry

Create(g) == <<"goal-create", g>>
Publish(g) == <<"site-publish", g>>
CleanPublication(g) == <<"goal-cleanup-publication", g>>
CleanGoal(g) == <<"goal-cleanup-goal", g>>
ExecutionKeys == {Create(g) : g \in Goals} \cup {Publish(g) : g \in Goals}

ASSUME GoalAssumption ==
  /\ ReservationOf \in [Goals -> Reservations]
  /\ SignatureOf \in [Goals -> Signatures]

\* the values of the tables, as far as they are records
AuthorityRow == [fields : Authority, signed : Authority, used : Nat,
                 key : ExecutionKeys \cup {Nobody},
                 status : {"AVAILABLE", "ACTIVE", "RESERVED", "USED", "EXHAUSTED"}]
CandidateRow == [goal : Goals \X Nat, status : {"CANDIDATE", "APPROVED", "REJECTED"},
                 technical : {"PENDING", "VERIFIED", "INCONCLUSIVE"}, gate : BOOLEAN]
CleanupRow == [rolledBack : BOOLEAN, deleted : BOOLEAN, completed : BOOLEAN]

ASSUME ProposedAssumption ==
  /\ Proposed \in [Authorities -> Authority]
  /\ Quota \in [Authorities -> Nat \ {0}]
ASSUME NobodyAssumption == Nobody \notin Goals \cup Seq(Goals) \cup ExecutionKeys
  \cup {CleanPublication(g) : g \in Goals} \cup {CleanGoal(g) : g \in Goals}
  \cup AuthorityRow \cup CandidateRow \cup CleanupRow

VARIABLES
  authority,    \* goal_authorities: row, status and the key that holds it
  reservation,  \* goal_creation_reservations
  execution,    \* goal_executions: status and plan
  claim,        \* goal_signature_claims
  candidate,    \* goal_candidates
  publication,  \* goal_site_publications: the version the event was added to
  cleanup,      \* goal_cleanup_progress
  goals,        \* goals of runs on the counter, numbered per run
  added,        \* how often each run added a goal
  foreign,      \* signatures of goals other people made
  page,         \* the version of the site zone
  live,         \* FakeSitePublishAdapter._publications: as publication
  timeouts, audited, killed, clock,
  call, disturbances

storeVars == <<authority, reservation, execution, claim, candidate, publication, cleanup>>
counterVars == <<goals, added, foreign>>
siteVars == <<page, live>>
guardVars == <<timeouts, audited, killed, clock>>
vars == <<storeVars, counterVars, siteVars, guardVars, disturbances, call>>

NoCall == [pc |-> "idle", goal |-> Nobody, key |-> Nobody, authority |-> Nobody,
           version |-> <<>>, write |-> Nobody, refused |-> Nobody, found |-> Nobody,
           seen |-> "PENDING", status |-> "REJECTED", deleted |-> FALSE]

Init ==
  /\ authority = [a \in Authorities |-> Nobody]
  /\ reservation = [x \in Reservations |-> [status |-> "NONE", key |-> Nobody]]
  /\ execution = [k \in ExecutionKeys |-> [status |-> "NONE", plan |-> Nobody]]
  /\ claim = [s \in Signatures |-> Nobody]
  /\ candidate = [g \in Goals |-> Nobody]
  /\ publication = [g \in Goals |-> Nobody]
  /\ cleanup = [g \in Goals |-> Nobody]
  /\ goals = {}
  /\ added = [g \in Goals |-> 0]
  /\ foreign = {}
  /\ page = <<>>
  /\ live = [g \in Goals |-> Nobody]
  /\ timeouts \in TimesOut
  /\ audited = {}
  /\ killed = FALSE
  /\ clock = 0
  /\ call = [c \in Callers |-> NoCall]
  /\ disturbances = 0

Disturb == disturbances < MaxDisturbances /\ disturbances' = disturbances + 1

Goto(c, pc) == call' = [call EXCEPT ![c].pc = pc]
Return(c) == call' = [call EXCEPT ![c] = NoCall]
Open(c, record) ==
  LET overlapping == \E d \in Callers : call[d] # NoCall
  IN /\ call[c] = NoCall
     /\ IF overlapping THEN Disturb ELSE UNCHANGED disturbances
     /\ call' = [call EXCEPT ![c] = record]

-----------------------------------------------------------------------------
(* Authorities.                                                            *)

\* register_authority: issued by the human of the role, stored once.  Bound: nobody
\* registers or alters a row while a call is open.
Quiet == \A c \in Callers : call[c] = NoCall
RegisterAuthority(a, principal) ==
  LET document == Proposed[a] IN
  /\ Quiet /\ authority[a] = Nobody
  /\ MayIssue(document, principal, clock)
  /\ authority' = [authority EXCEPT ![a] =
       [fields |-> document, signed |-> document, key |-> Nobody, used |-> 0,
        status |-> IF document.kind = "APPROVAL" THEN "AVAILABLE" ELSE "ACTIVE"]]
  /\ UNCHANGED <<reservation, execution, claim, candidate, publication, cleanup,
                 counterVars, siteVars, guardVars, disturbances, call>>

\* register_reservation: stored once.
RegisterReservation(x) ==
  /\ Quiet /\ reservation[x].status = "NONE"
  /\ reservation' = [reservation EXCEPT ![x].status = "AVAILABLE"]
  /\ UNCHANGED <<authority, execution, claim, candidate, publication, cleanup,
                 counterVars, siteVars, guardVars, disturbances, call>>

\* A row that no longer says what was signed.
AlterAuthority(a, binding) ==
  /\ Quiet /\ authority[a] # Nobody /\ Disturb
  /\ authority[a].fields.binding # binding
  /\ authority' = [authority EXCEPT ![a].fields.binding = binding]
  /\ UNCHANGED <<reservation, execution, claim, candidate, publication, cleanup,
                 counterVars, siteVars, guardVars, call>>

Unspent(kind) == IF kind = "APPROVAL" THEN "AVAILABLE" ELSE "ACTIVE"
\* _reserve_authority: the binding of a row is the exact plan.
MayReserve(a, plan) ==
  /\ authority[a] # Nobody
  /\ ProofHolds(authority[a])
  /\ authority[a].status = Unspent(authority[a].fields.kind)
  /\ authority[a].fields.binding = plan
  /\ authority[a].fields.expires > clock
  /\ authority[a].used < Quota[a]
Reserved(a, key) == [authority EXCEPT ![a].status = "RESERVED", ![a].key = key]
HeldBy(a, key) ==
  authority[a] # Nobody /\ authority[a].status = "RESERVED" /\ authority[a].key = key
FinishedAuthority(a) ==
  [authority EXCEPT ![a].key = Nobody, ![a].used = @ + 1,
     ![a].status = IF authority[a].fields.kind = "APPROVAL" THEN "USED"
                   ELSE IF authority[a].used + 1 >= Quota[a] THEN "EXHAUSTED"
                   ELSE "ACTIVE"]
ReleasedAuthority(a, key) ==
  IF HeldBy(a, key)
  THEN [authority EXCEPT ![a].key = Nobody, ![a].status = Unspent(authority[a].fields.kind)]
  ELSE authority

-----------------------------------------------------------------------------
(* What creation and publication share: authorisation of the external       *)
(* write, and giving up before it.                                          *)

KeyOf(c) == call[c].key
GoalOf(c) == call[c].goal

\* ApplicationWriteBoundary.authorize: the kill switch, one audit journal per key,
\* the kill switch again.
AlreadyAudited(key) == key \in audited
Authorize(c) ==
  /\ call[c].pc = "authorize"
  /\ IF killed \/ AlreadyAudited(KeyOf(c))
     THEN /\ Goto(c, call[c].refused) /\ UNCHANGED audited
     ELSE /\ Goto(c, "recheck") /\ audited' = audited \cup {KeyOf(c)}
  /\ UNCHANGED <<storeVars, counterVars, siteVars, timeouts, killed, clock, disturbances>>
Recheck(c) ==
  /\ call[c].pc = "recheck"
  /\ Goto(c, IF killed THEN call[c].refused ELSE call[c].write)
  /\ UNCHANGED <<storeVars, counterVars, siteVars, guardVars, disturbances>>

\* A refusal outside a started execution ends the call.
Refuse(c) ==
  /\ call[c].pc = "refuse"
  /\ Return(c)
  /\ UNCHANGED <<storeVars, counterVars, siteVars, guardVars, disturbances>>

\* abort_before_write: what the beginning took is given back and the execution is
\* forgotten, unless somebody has marked it UNKNOWN_RESULT since.
Abortable(status) == status = "IN_FLIGHT"
Abort(c) ==
  LET key == KeyOf(c)
      g == GoalOf(c)
      x == ReservationOf[g]
      mine == key = Create(g)
  IN /\ call[c].pc = "abort"
     /\ IF Abortable(execution[key].status)
        THEN /\ authority' = ReleasedAuthority(call[c].authority, key)
             /\ reservation' =
                  IF mine /\ reservation[x] = [status |-> "RESERVED", key |-> key]
                  THEN [reservation EXCEPT ![x] = [status |-> "AVAILABLE", key |-> Nobody]]
                  ELSE reservation
             /\ claim' = [s \in Signatures |-> IF mine /\ claim[s] = g THEN Nobody ELSE claim[s]]
             /\ execution' = [execution EXCEPT ![key] = [status |-> "NONE", plan |-> Nobody]]
        ELSE UNCHANGED <<authority, reservation, claim, execution>>
     /\ Return(c)
     /\ UNCHANGED <<candidate, publication, cleanup, counterVars, siteVars, guardVars,
                    disturbances>>

\* mark_unknown after a readback that found nothing: only an open execution changes.
MarkUnknown(c) ==
  /\ call[c].pc = "unknown"
  /\ execution' = IF execution[KeyOf(c)].status = "IN_FLIGHT"
                  THEN [execution EXCEPT ![KeyOf(c)].status = "UNKNOWN_RESULT"]
                  ELSE execution
  /\ Return(c)
  /\ UNCHANGED <<authority, reservation, claim, candidate, publication, cleanup,
                 counterVars, siteVars, guardVars, disturbances>>

Reconcilable(key) == execution[key].status \in {"IN_FLIGHT", "UNKNOWN_RESULT"}

\* Where a call goes that finds its execution started by another one.
Continuation(key, plan) ==
  IF execution[key].plan # plan THEN "refuse"
  ELSE IF execution[key].status = "APPLIED" THEN "refuse" ELSE "reconcile"

-----------------------------------------------------------------------------
(* create_candidate.                                                       *)

OpenCreate(c, g, a) ==
  /\ Open(c, [NoCall EXCEPT !.pc = "create", !.goal = g, !.key = Create(g),
              !.authority = a, !.write = "add", !.refused = "abort"])
  /\ UNCHANGED <<storeVars, counterVars, siteVars, guardVars>>

ClaimFreeOfGoals(g) == \A h \in Goals : SignatureOf[h] = SignatureOf[g] => candidate[h] = Nobody
ClaimFree(g) == claim[SignatureOf[g]] = Nobody

\* begin_goal_creation: authority, reservation, execution and signature claim in
\* one transaction.
BeginCreate(c) ==
  LET g == GoalOf(c)
      key == Create(g)
      x == ReservationOf[g]
      a == call[c].authority
  IN /\ call[c].pc = "create" /\ execution[key].status = "NONE"
     /\ MayReserve(a, key)
     /\ reservation[x].status = "AVAILABLE" /\ clock = 0
     /\ ClaimFree(g)
     /\ authority' = Reserved(a, key)
     /\ reservation' = [reservation EXCEPT ![x] = [status |-> "RESERVED", key |-> key]]
     /\ execution' = [execution EXCEPT ![key] = [status |-> "IN_FLIGHT", plan |-> key]]
     /\ claim' = [claim EXCEPT ![SignatureOf[g]] = g]
     /\ Goto(c, "duplicate")
     /\ UNCHANGED <<candidate, publication, cleanup, counterVars, siteVars, guardVars,
                    disturbances>>

ContinueCreate(c) ==
  LET g == GoalOf(c)
      key == Create(g)
  IN /\ call[c].pc = "create"
     /\ IF execution[key].status # "NONE" THEN Goto(c, Continuation(key, key))
        ELSE /\ ~( /\ MayReserve(call[c].authority, key)
                   /\ reservation[ReservationOf[g]].status = "AVAILABLE" /\ clock = 0
                   /\ ClaimFree(g))
             /\ Return(c)
     /\ UNCHANGED <<storeVars, counterVars, siteVars, guardVars, disturbances>>

\* _reject_existing_duplicate: any goal of the counter with the same event.
RejectDuplicate(c) ==
  LET s == SignatureOf[GoalOf(c)] IN
  /\ call[c].pc = "duplicate"
  /\ Goto(c, IF s \in foreign \/ \E goal \in goals : SignatureOf[goal[1]] = s
             THEN "abort" ELSE "authorize")
  /\ UNCHANGED <<storeVars, counterVars, siteVars, guardVars, disturbances>>

\* add_goal: the goal is there whether or not the answer arrives.
LostAnswerIsFailure == "abort"
LostAnswer == "reconcile"
AddGoal(c) ==
  LET g == GoalOf(c)
      goal == <<g, added[g] + 1>>
  IN /\ call[c].pc = "add"
     /\ goals' = goals \cup {goal}
     /\ added' = [added EXCEPT ![g] = @ + 1]
     /\ call' = IF timeouts = "creation" THEN [call EXCEPT ![c].pc = LostAnswer]
                ELSE [call EXCEPT ![c].pc = "complete", ![c].found = goal]
     /\ UNCHANGED <<storeVars, foreign, siteVars, guardVars, disturbances>>

\* _reconcile_goal_creation: exactly one goal must carry the signature.
ReconcileCreate(c) ==
  LET s == SignatureOf[GoalOf(c)]
      matches == {goal \in goals : SignatureOf[goal[1]] = s}
  IN /\ call[c].pc = "reconcile" /\ KeyOf(c) = Create(GoalOf(c))
     /\ \/ \E goal \in matches :
             /\ matches = {goal}
             /\ call' = [call EXCEPT ![c].pc = "complete", ![c].found = goal]
        \/ ~(\E goal \in matches : matches = {goal}) /\ Goto(c, "unknown")
     /\ UNCHANGED <<storeVars, counterVars, siteVars, guardVars, disturbances>>

\* complete_goal_creation; a condition that fails rolls all of it back.
CompleteCreate(c) ==
  LET g == GoalOf(c)
      key == Create(g)
      x == ReservationOf[g]
      a == call[c].authority
      completes ==
        /\ Reconcilable(key)
        /\ candidate[g] # Nobody => candidate[g].goal = call[c].found
        /\ HeldBy(a, key)
        /\ reservation[x] = [status |-> "RESERVED", key |-> key]
  IN /\ call[c].pc = "complete" /\ KeyOf(c) = key
     /\ IF completes
        THEN /\ candidate' = IF candidate[g] # Nobody THEN candidate
                  ELSE [candidate EXCEPT ![g] = [goal |-> call[c].found,
                          status |-> "CANDIDATE", technical |-> "PENDING", gate |-> FALSE]]
             /\ authority' = FinishedAuthority(a)
             /\ reservation' = [reservation EXCEPT ![x].status = "USED"]
             /\ execution' = [execution EXCEPT ![key].status = "APPLIED"]
        ELSE UNCHANGED <<candidate, authority, reservation, execution>>
     /\ Return(c)
     /\ UNCHANGED <<claim, publication, cleanup, counterVars, siteVars, guardVars, disturbances>>

-----------------------------------------------------------------------------
(* publish_candidate_event.                                                *)

PublishPlan(g, version) == <<"site-publish", g, version>>

\* The page versions a caller may expect: the present one and the ones below it.
SeenVersions == {SubSeq(page, 1, n) : n \in 0..Len(page)}
OpenPublish(c, g, a, version) ==
  /\ candidate[g] # Nobody
  /\ Open(c, [NoCall EXCEPT !.pc = "publish", !.goal = g, !.key = Publish(g),
              !.authority = a, !.version = version, !.write = "install",
              !.refused = "abort"])
  /\ UNCHANGED <<storeVars, counterVars, siteVars, guardVars>>

BeginPublish(c) ==
  LET g == GoalOf(c)
      key == Publish(g)
      plan == PublishPlan(g, call[c].version)
      a == call[c].authority
  IN /\ call[c].pc = "publish" /\ execution[key].status = "NONE"
     /\ publication[g] = Nobody
     /\ MayReserve(a, plan)
     /\ authority' = Reserved(a, key)
     /\ execution' = [execution EXCEPT ![key] = [status |-> "IN_FLIGHT", plan |-> plan]]
     /\ Goto(c, "version")
     /\ UNCHANGED <<reservation, claim, candidate, publication, cleanup, counterVars,
                    siteVars, guardVars, disturbances>>

ContinuePublish(c) ==
  LET g == GoalOf(c)
      key == Publish(g)
      plan == PublishPlan(g, call[c].version)
  IN /\ call[c].pc = "publish"
     /\ IF execution[key].status # "NONE" THEN Goto(c, Continuation(key, plan))
        ELSE /\ ~(publication[g] = Nobody /\ MayReserve(call[c].authority, plan))
             /\ Return(c)
     /\ UNCHANGED <<storeVars, counterVars, siteVars, guardVars, disturbances>>

CheckVersion(c) ==
  /\ call[c].pc = "version"
  /\ Goto(c, IF page = call[c].version THEN "authorize" ELSE "abort")
  /\ UNCHANGED <<storeVars, counterVars, siteVars, guardVars, disturbances>>

\* publish_event compares the version again under the lock of the site.
StillExpectedUnread(version) == TRUE
StillExpected(version) == page = version
Install(c) ==
  LET g == GoalOf(c)
      version == call[c].version
  IN /\ call[c].pc = "install"
     /\ IF StillExpected(version)
        THEN /\ page' = Append(version, g)
             /\ live' = [live EXCEPT ![g] = version]
             /\ call' = IF timeouts = "publication" THEN [call EXCEPT ![c].pc = LostAnswer]
                        ELSE [call EXCEPT ![c].pc = "complete", ![c].found = version]
        ELSE Goto(c, "abort") /\ UNCHANGED siteVars
     /\ UNCHANGED <<storeVars, counterVars, guardVars, disturbances>>

ReconcilePublish(c) ==
  LET g == GoalOf(c) IN
  /\ call[c].pc = "reconcile" /\ KeyOf(c) = Publish(g)
  /\ call' = IF live[g] = Nobody THEN [call EXCEPT ![c].pc = "unknown"]
             ELSE [call EXCEPT ![c].pc = "complete", ![c].found = live[g]]
  /\ UNCHANGED <<storeVars, counterVars, siteVars, guardVars, disturbances>>

CompletePublish(c) ==
  LET g == GoalOf(c)
      key == Publish(g)
      a == call[c].authority
      completes ==
        /\ Reconcilable(key)
        /\ publication[g] # Nobody => publication[g] = call[c].found
        /\ HeldBy(a, key)
  IN /\ call[c].pc = "complete" /\ KeyOf(c) = key
     /\ IF completes
        THEN /\ publication' = [publication EXCEPT ![g] = call[c].found]
             /\ authority' = FinishedAuthority(a)
             /\ execution' = [execution EXCEPT ![key].status = "APPLIED"]
        ELSE UNCHANGED <<publication, authority, execution>>
     /\ Return(c)
     /\ UNCHANGED <<reservation, claim, candidate, cleanup, counterVars, siteVars,
                    guardVars, disturbances>>

-----------------------------------------------------------------------------
(* Verification, decision and gate.  The candidate is read when the call    *)
(* opens; what is written later is checked against the row alone.           *)

\* verify_candidate_delivery: the polls see the visit, an external reason, or
\* neither.
OpenVerify(c, g) ==
  /\ candidate[g] # Nobody /\ publication[g] # Nobody
  /\ Open(c, [NoCall EXCEPT !.pc = "poll", !.goal = g])
  /\ UNCHANGED <<storeVars, counterVars, siteVars, guardVars>>
Poll(c) ==
  /\ call[c].pc = "poll"
  /\ IF candidate[GoalOf(c)].goal \in goals
     THEN \E seen \in {"VERIFIED", "INCONCLUSIVE", "PENDING"} :
            IF seen = "PENDING" THEN Return(c)
            ELSE call' = [call EXCEPT ![c].pc = "verdict", ![c].seen = seen]
     ELSE Return(c)
  /\ UNCHANGED <<storeVars, counterVars, siteVars, guardVars, disturbances>>
SetTechnicalStatus(c) ==
  LET g == GoalOf(c) IN
  /\ call[c].pc = "verdict"
  /\ candidate' = IF candidate[g].status = "CANDIDATE"
                  THEN [candidate EXCEPT ![g].technical = call[c].seen] ELSE candidate
  /\ Return(c)
  /\ UNCHANGED <<authority, reservation, execution, claim, publication, cleanup,
                 counterVars, siteVars, guardVars, disturbances>>

\* decide_business_semantics: the product sign-off principal approves what he read
\* as VERIFIED, or rejects.
OpenDecide(c, g, status) ==
  /\ candidate[g] # Nobody
  /\ status = "APPROVED" => candidate[g].technical = "VERIFIED"
  /\ Open(c, [NoCall EXCEPT !.pc = "decide", !.goal = g, !.status = status])
  /\ UNCHANGED <<storeVars, counterVars, siteVars, guardVars>>
Decidable(row) == row.status = "CANDIDATE"
SetSemanticStatus(c) ==
  LET g == GoalOf(c) IN
  /\ call[c].pc = "decide"
  /\ candidate' = IF Decidable(candidate[g])
                  THEN [candidate EXCEPT ![g].status = call[c].status] ELSE candidate
  /\ Return(c)
  /\ UNCHANGED <<authority, reservation, execution, claim, publication, cleanup,
                 counterVars, siteVars, guardVars, disturbances>>

\* evaluate_optimization_eligibility: age and sample pass or do not; the row decides
\* whether the gate applies.
SetOptimizationGate(g, passed) ==
  /\ candidate[g] # Nobody
  /\ candidate[g].status = "APPROVED" /\ candidate[g].technical = "VERIFIED"
  /\ candidate' = [candidate EXCEPT ![g].gate = passed]
  /\ UNCHANGED <<authority, reservation, execution, claim, publication, cleanup,
                 counterVars, siteVars, guardVars, disturbances, call>>

-----------------------------------------------------------------------------
(* cleanup_rejected_candidate.                                             *)

OptimizationEligible(g) ==
  /\ candidate[g] # Nobody
  /\ candidate[g].status = "APPROVED" /\ candidate[g].technical = "VERIFIED"
  /\ candidate[g].gate

OpenCleanup(c, g) ==
  /\ candidate[g] # Nobody /\ candidate[g].status = "REJECTED"
  /\ Open(c, [NoCall EXCEPT !.pc = "begin cleanup", !.goal = g])
  /\ UNCHANGED <<storeVars, counterVars, siteVars, guardVars>>

\* A refused write ends the cleanup; what it did stays recorded.
RefusalIsDone == "mark deleted"
Refusal == "refuse"

\* begin_cleanup: the progress so far decides what this call still does.
BeginCleanup(c) ==
  LET g == GoalOf(c)
      progress == IF cleanup[g] = Nobody
                  THEN [rolledBack |-> FALSE, deleted |-> FALSE, completed |-> FALSE]
                  ELSE cleanup[g]
  IN /\ call[c].pc = "begin cleanup"
     /\ cleanup' = [cleanup EXCEPT ![g] = progress]
     /\ call' = IF progress.completed THEN [call EXCEPT ![c] = NoCall]
          ELSE [call EXCEPT ![c].refused = Refusal, ![c].deleted = progress.deleted,
            ![c].pc = IF progress.rolledBack THEN "clean goal" ELSE "clean publication",
            ![c].key = IF progress.rolledBack THEN CleanGoal(g) ELSE CleanPublication(g),
            ![c].write = IF progress.rolledBack THEN "delete" ELSE "roll back"]
     /\ UNCHANGED <<authority, reservation, execution, claim, candidate, publication,
                    counterVars, siteVars, guardVars, disturbances>>

\* The publication is rolled back if the site has it; if it is recorded but not on
\* the site, the page must be at the version before it.
CleanPublicationStep(c) ==
  LET g == GoalOf(c) IN
  /\ call[c].pc = "clean publication"
  /\ Goto(c, IF publication[g] = Nobody THEN "mark rolled back"
             ELSE IF live[g] # Nobody THEN "authorize"
             ELSE IF page # publication[g] THEN "refuse" ELSE "mark rolled back")
  /\ UNCHANGED <<storeVars, counterVars, siteVars, guardVars, disturbances>>

\* rollback_publication: only while the page still is what the publication made it.
OnTopAnyway(g) == live[g] # Nobody
OnTop(g) == live[g] # Nobody /\ live[g] = publication[g] /\ page = Append(live[g], g)
RollBack(c) ==
  LET g == GoalOf(c) IN
  /\ call[c].pc = "roll back"
  /\ IF OnTop(g)
     THEN page' = live[g] /\ live' = [live EXCEPT ![g] = Nobody]
          /\ Goto(c, "mark rolled back")
     ELSE Goto(c, "refuse") /\ UNCHANGED siteVars
  /\ UNCHANGED <<storeVars, counterVars, guardVars, disturbances>>
MarkRolledBack(c) ==
  LET g == GoalOf(c) IN
  /\ call[c].pc = "mark rolled back"
  /\ cleanup' = [cleanup EXCEPT ![g].rolledBack = TRUE]
  /\ call' = [call EXCEPT ![c].pc = "clean goal", ![c].key = CleanGoal(g),
                          ![c].write = "delete"]
  /\ UNCHANGED <<authority, reservation, execution, claim, candidate, publication,
                 counterVars, siteVars, guardVars, disturbances>>

CleanGoalStep(c) ==
  /\ call[c].pc = "clean goal"
  /\ Goto(c, IF call[c].deleted THEN "finish cleanup"
             ELSE IF candidate[GoalOf(c)].goal \in goals THEN "authorize" ELSE "mark deleted")
  /\ UNCHANGED <<storeVars, counterVars, siteVars, guardVars, disturbances>>
DeleteGoal(c) ==
  /\ call[c].pc = "delete"
  /\ goals' = goals \ {candidate[GoalOf(c)].goal}
  /\ Goto(c, "mark deleted")
  /\ UNCHANGED <<storeVars, added, foreign, siteVars, guardVars, disturbances>>
MarkDeleted(c) ==
  /\ call[c].pc = "mark deleted"
  /\ cleanup' = [cleanup EXCEPT ![GoalOf(c)].deleted = TRUE]
  /\ Goto(c, "finish cleanup")
  /\ UNCHANGED <<authority, reservation, execution, claim, candidate, publication,
                 counterVars, siteVars, guardVars, disturbances>>

\* finish_cleanup: the signature is free again and the publication forgotten.
Finishable(progress) == progress.rolledBack /\ progress.deleted
FinishCleanup(c) ==
  LET g == GoalOf(c)
      finishes == candidate[g].status = "REJECTED" /\ Finishable(cleanup[g])
  IN /\ call[c].pc = "finish cleanup"
     /\ IF finishes
        THEN /\ claim' = [s \in Signatures |-> IF claim[s] = g THEN Nobody ELSE claim[s]]
             /\ publication' = [publication EXCEPT ![g] = Nobody]
             /\ cleanup' = [cleanup EXCEPT ![g].completed = TRUE]
        ELSE UNCHANGED <<claim, publication, cleanup>>
     /\ Return(c)
     /\ UNCHANGED <<authority, reservation, execution, candidate, counterVars, siteVars,
                    guardVars, disturbances>>

-----------------------------------------------------------------------------
(* The world.                                                              *)

SetKillSwitch ==
  /\ Disturb
  /\ killed' = ~killed
  /\ UNCHANGED <<storeVars, counterVars, siteVars, timeouts, audited, clock, call>>
\* Reservations and the short authorities expire.
Expire ==
  /\ Disturb
  /\ clock = 0 /\ clock' = 1
  /\ UNCHANGED <<storeVars, counterVars, siteVars, timeouts, audited, killed, call>>
\* Somebody else makes a goal for the event.
ForeignGoal(s) ==
  /\ Disturb
  /\ s \notin foreign /\ foreign' = foreign \cup {s}
  /\ UNCHANGED <<storeVars, goals, added, siteVars, guardVars, call>>
\* The process of a call ends between two of its steps.
Crash(c) ==
  /\ call[c] # NoCall /\ Disturb
  /\ Return(c)
  /\ UNCHANGED <<storeVars, counterVars, siteVars, guardVars>>

CallStep(c) ==
  \/ Authorize(c) \/ Recheck(c) \/ Refuse(c) \/ Abort(c) \/ MarkUnknown(c)
  \/ BeginCreate(c) \/ ContinueCreate(c) \/ RejectDuplicate(c) \/ AddGoal(c)
  \/ ReconcileCreate(c) \/ CompleteCreate(c)
  \/ BeginPublish(c) \/ ContinuePublish(c) \/ CheckVersion(c) \/ Install(c)
  \/ ReconcilePublish(c) \/ CompletePublish(c)
  \/ Poll(c) \/ SetTechnicalStatus(c) \/ SetSemanticStatus(c)
  \/ BeginCleanup(c) \/ CleanPublicationStep(c) \/ RollBack(c) \/ MarkRolledBack(c)
  \/ CleanGoalStep(c) \/ DeleteGoal(c) \/ MarkDeleted(c) \/ FinishCleanup(c)

Next ==
  \/ \E a \in Authorities, p \in Principals : RegisterAuthority(a, p)
  \/ \E x \in Reservations : RegisterReservation(x)
  \/ \E a \in Authorities, binding \in Bindings : AlterAuthority(a, binding)
  \/ \E c \in Callers, g \in Goals :
       \/ \E a \in Authorities : OpenCreate(c, g, a)
       \/ \E a \in Authorities, version \in SeenVersions : OpenPublish(c, g, a, version)
       \/ OpenVerify(c, g) \/ OpenCleanup(c, g)
       \/ \E status \in {"APPROVED", "REJECTED"} : OpenDecide(c, g, status)
  \/ \E g \in Goals, passed \in BOOLEAN : SetOptimizationGate(g, passed)
  \/ \E c \in Callers : CallStep(c) \/ Crash(c)
  \/ SetKillSwitch \/ Expire \/ \E s \in Signatures : ForeignGoal(s)

Spec == Init /\ [][Next]_vars

-----------------------------------------------------------------------------
(* Properties.                                                             *)

\* Whatever runs, reconciles, aborts, crashes or cleans up at the same time, the
\* runs have at most one goal with one event on the counter, and one reservation
\* never pays for two goals.
OneGoalPerEvent ==
  /\ \A a, b \in goals : SignatureOf[a[1]] = SignatureOf[b[1]] => a = b
  /\ \A g, h \in Goals :
       g # h /\ ReservationOf[g] = ReservationOf[h] /\ added[g] > 0 => added[h] = 0

\* A goal on the counter is the goal of its run's candidate, or its creation is still
\* open and a reconciliation will find it; the same for an event on the page, unless
\* it was published after a cleanup that had found none.
NoLostTarget ==
  /\ \A goal \in goals :
       \/ candidate[goal[1]] # Nobody /\ candidate[goal[1]].goal = goal
       \/ Reconcilable(Create(goal[1]))
  /\ \A g \in Goals : live[g] # Nobody =>
       \/ publication[g] = live[g] \/ Reconcilable(Publish(g))
       \/ cleanup[g] # Nobody /\ cleanup[g].completed

\* The page is always exactly the stack of the publications that are live on it:
\* nobody installs over a version he did not expect, and a rollback never takes
\* away what others installed since.
PageIsStack ==
  /\ \A g \in Goals : (live[g] # Nobody) = (g \in Range(page))
  /\ \A i \in 1..Len(page) : live[page[i]] = SubSeq(page, 1, i - 1)

\* An external goal or event appears only while an authority is reserved for exactly
\* that operation, signed for exactly that plan by the human of its role; a goal
\* disappears only when the human rejected its candidate.
TargetsFollowHumans ==
  [][/\ \A goal \in goals' \ goals : \E a \in Authorities :
          /\ HeldBy(a, Create(goal[1]))
          /\ authority[a].signed.binding = Create(goal[1])
          /\ authority[a].signed.principal = RoleHolder(authority[a].signed.kind)
     /\ \A g \in Goals : live[g] = Nobody /\ live'[g] # Nobody => \E a \in Authorities :
          HeldBy(a, Publish(g)) /\ authority[a].signed.binding = PublishPlan(g, page)
     /\ \A goal \in goals \ goals' : candidate[goal[1]].status = "REJECTED"]_vars

\* A completed cleanup has deleted the goal of a rejected candidate, whatever crashed
\* or was refused on the way, and no cleanup takes the goal that optimization uses.
CleanedIsGone ==
  \A g \in Goals :
    /\ cleanup[g] # Nobody /\ cleanup[g].completed =>
         candidate[g].status = "REJECTED" /\ \A goal \in goals : goal[1] # g
    /\ OptimizationEligible(g) => candidate[g].goal \in goals

=============================================================================
