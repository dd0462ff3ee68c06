--------------------------- MODULE DirectExecution ---------------------------
(***************************************************************************)
(* One campaign of the production site (execution-safety.ts, direct-       *)
(* write.ts and the journal in p0.ts): a durable record per execution, an  *)
(* account-wide lock with a lease, and a provider that is written in six   *)
(* mutations, each preceded by a durable intent.  A worker is one call of  *)
(* executeSafeSingleCampaign; its program counter stands between two       *)
(* journal or provider calls, where a crash may end it.                    *)
(***************************************************************************)
EXTENDS Naturals, Sequences, FiniteSets

CONSTANTS
  Executions,         \* execution_id; each creates one campaign
  Workers,
  NewCampaignStates,  \* State of a campaign that was only added
  Rejectable,         \* mutations the provider may definitely reject
  None                \* null

FaultKinds == {"crash", "lost", "odd", "read", "journal", "lease", "preflight"}

Adds == {"campaigns.add", "adgroups.add", "keywords.add", "ads.add"}
Mutations == Adds \cup {"campaigns.suspend", "ads.moderate"}

\* createSuspendedCampaign goes through these, in this order
Stages == <<"campaigns.add", "campaigns.suspend", "adgroups.add", "keywords.add",
            "ads.add", "graph", "ads.moderate", "final">>

ASSUME DirectAssumption ==
  /\ NewCampaignStates \subseteq {"OFF", "ON"} /\ NewCampaignStates # {}
  /\ Rejectable \subseteq Mutations
  /\ None \notin Executions

VARIABLES
  rows,      \* p0_executions.result_json of each execution
  lock,      \* the row of p0_account_locks: holder, and held or only leased
  account,   \* what the provider has of each execution
  worker,    \* calls of executeSafeSingleCampaign
  faults     \* what may go wrong in this behaviour, a subset of FaultKinds

directVars == <<rows, lock, account, worker>>

TerminalSuccess == {"MODERATION_PENDING", "DIRECT_ACCEPTED", "REJECTED_NEEDS_EDIT"}
TerminalFailure == {"PROVIDER_REJECTED", "SYSTEM_FAILED"}
\* "OPEN" stands for PREPARED, DISPATCHING and the names of the stages passed
Statuses == {"ABSENT", "BLANK", "OPEN", "RECONCILIATION_REQUIRED"}
              \cup TerminalSuccess \cup TerminalFailure
Steps == {"NON_SERVING_CONFIRMED", "MODERATION_SUBMITTED"}
Unresolved == {"RECONCILIATION_REQUIRED", "MANUAL_RECONCILIATION_REQUIRED"}
Containments == Unresolved \cup {"NON_SERVING_CONFIRMED", "NOT_CREATED", None}
AdStatuses == {"DRAFT", "MODERATION", "ACCEPTED", "REJECTED"}
\* of a DirectWriteError: ambiguous, definitely rejected, not attempted; any other error
Errors == {"recon", "rejected", "unattempted", "plain"}

\* null is none of the names
ASSUME NoneAssumption ==
  None \notin Mutations \cup Statuses \cup Unresolved \cup AdStatuses \cup Steps
    \cup {"OFF", "ON", "SUSPENDED", "NOT_CREATED", "CONFIRMED_SUSPENDED"} \cup Errors

DirectExecutionRecord ==
  [status : Statuses, pending : Mutations \cup {None}, ids : SUBSET Adds,
   steps : SUBSET Steps, containment : Containments, unattempted : BOOLEAN,
   ad : AdStatuses \cup {None}]

\* what a worker answers to the package
Outcome ==
  [status : TerminalSuccess \cup TerminalFailure
              \cup {"RECONCILIATION_REQUIRED", "OUTCOME_UNKNOWN"},
   containment : Containments, campaign : BOOLEAN, ad : AdStatuses \cup {None}]

Points == {"idle", "acquire", "claim", "reconcile", "hold", "open", "intend", "send",
           "lost", "confirm", "probe", "read", "progress", "contain", "contained",
           "finish", "release", "close", "unlock", "answered"}

Worker ==
  [pc : Points, item : Executions \cup {None}, rec : DirectExecutionRecord,
   at : 1..Len(Stages), fresh : BOOLEAN, moderated : BOOLEAN, steps : SUBSET Steps,
   containing : BOOLEAN, containment : Containments,
   err : Errors \cup {None}, outcome : Outcome]

AccountLock == [holder : Executions \cup {None}, held : BOOLEAN]
Free == [holder |-> None, held |-> FALSE]
Lease(e) == [holder |-> e, held |-> FALSE]

Objects ==
  [count : [Adds -> 0..2], state : {None, "OFF", "ON", "SUSPENDED"},
   ad : AdStatuses \cup {None}, moderations : 0..2]

NewRecord == [status |-> "ABSENT", pending |-> None, ids |-> {}, steps |-> {},
              containment |-> None, unattempted |-> FALSE, ad |-> None]
\* the row beginExecution inserts, with result_json '{}'
BlankRecord == [NewRecord EXCEPT !.status = "BLANK"]

\* an error that is not a DirectWriteError carries nothing
Exception == [status |-> "SYSTEM_FAILED", containment |-> None,
              campaign |-> FALSE, ad |-> None]
\* partial.requires_reconciliation without provider identifiers
Ambiguous == [Exception EXCEPT !.status = "RECONCILIATION_REQUIRED"]

Idle == [pc |-> "idle", item |-> None, rec |-> NewRecord, at |-> 1, fresh |-> FALSE,
         moderated |-> FALSE, steps |-> {}, containing |-> FALSE,
         containment |-> None, err |-> None, outcome |-> Exception]

DirectInit ==
  /\ rows = [e \in Executions |-> NewRecord]
  /\ lock = Free
  /\ account = [e \in Executions |->
       [count |-> [op \in Adds |-> 0], state |-> None, ad |-> None, moderations |-> 0]]
  /\ worker = [w \in Workers |-> Idle]

Become(w, next) == worker' = [worker EXCEPT ![w] = next]
Goto(w, point) == worker' = [worker EXCEPT ![w].pc = point]
\* a call that is over keeps its answer, and may still have to hold or release the lock
AnswerAt(w, point, outcome) ==
  worker' = [worker EXCEPT ![w] =
    [Idle EXCEPT !.pc = point, !.item = worker[w].item, !.outcome = outcome]]
Answer(w, outcome) == AnswerAt(w, "answered", outcome)

-----------------------------------------------------------------------------
(* The journal.                                                            *)

\* save: renew the lease, then write the record
Saved(e, rec) ==
  /\ lock.holder = e
  /\ lock' = Lease(e)
  /\ rows' = [rows EXCEPT ![e] = rec]

\* save throws: the lease is lost, or the database fails before or after a write
NotSaved(e, rec) ==
  \/ lock.holder # e /\ UNCHANGED <<lock, rows>>
  \/ /\ "journal" \in faults /\ lock.holder = e
     /\ \/ UNCHANGED <<lock, rows>>
        \/ lock' = Lease(e) /\ rows' \in {rows, [rows EXCEPT ![e] = rec]}

\* mutant: a held lock is only a lease
RenewOnly(e) == lock' = lock

\* hold and release touch a row of their own execution and never complain
HoldLock(e) == lock' = IF lock.holder = e THEN [lock EXCEPT !.held = TRUE] ELSE lock
ReleaseLock(e) == lock' = IF lock.holder = e THEN Free ELSE lock
LockFails == "journal" \in faults /\ UNCHANGED lock

\* 15 minutes pass for a lease nobody renews.  A live worker renews it: between
\* two saves are at most 2 * 4 reads of at most 60 seconds each.
LeaseExpires ==
  /\ "lease" \in faults
  /\ lock.holder # None /\ ~lock.held
  /\ \A w \in Workers : worker[w].item # lock.holder
  /\ lock' = Free
  /\ UNCHANGED <<rows, account, worker>>

-----------------------------------------------------------------------------
(* The provider.                                                           *)

Min2(n) == IF n < 2 THEN n ELSE 2   \* a third effect is not told from a second

\* what mutation op leaves of the objects o of an execution
Effects(o, op) ==
  CASE op = "campaigns.add" ->
         {[o EXCEPT !.count[op] = Min2(@ + 1), !.state = s] : s \in NewCampaignStates}
    [] op = "campaigns.suspend" -> {[o EXCEPT !.state = "SUSPENDED"]}
    [] op = "ads.add" -> {[o EXCEPT !.count[op] = Min2(@ + 1), !.ad = "DRAFT"]}
    [] op = "ads.moderate" ->
         {[o EXCEPT !.moderations = Min2(@ + 1), !.ad = "MODERATION"]}
    [] OTHER -> {[o EXCEPT !.count[op] = Min2(@ + 1)]}

\* the provider's moderation reaches its verdict
Moderated(e) ==
  /\ account[e].ad = "MODERATION"
  /\ \E verdict \in {"ACCEPTED", "REJECTED"} :
       account' = [account EXCEPT ![e].ad = verdict]
  /\ UNCHANGED <<rows, lock, worker>>

\* how a read may fail: both bounded attempts, or not exactly one object
ReadErrors == (IF "read" \in faults THEN {"recon"} ELSE {})
                \cup (IF "odd" \in faults THEN {"plain"} ELSE {})

\* semanticGraph: the complete graph of a suspended campaign
GraphVerified(e) ==
  account[e].state = "SUSPENDED" /\ \A op \in Adds : account[e].count[op] > 0

NonServing(e) == account[e].state \in {"OFF", "SUSPENDED"}

-----------------------------------------------------------------------------
(* Claiming and resuming.                                                  *)

OutcomeOf(rec) ==
  [status |-> rec.status,
   containment |-> IF "campaigns.add" \notin rec.ids
                        /\ (rec.status = "PROVIDER_REJECTED" \/ rec.unattempted)
                     THEN "NOT_CREATED" ELSE rec.containment,
   campaign |-> "campaigns.add" \in rec.ids,
   ad |-> rec.ad]

RetryableBeforeDispatch(rec) ==
  /\ rec.status = "SYSTEM_FAILED" /\ rec.unattempted
  /\ rec.pending = None /\ rec.ids = {}

\* acquire reads the record first and claims the lock afterwards
Acquire(w) ==
  /\ worker[w].pc = "acquire"
  /\ worker' = [worker EXCEPT ![w].rec = rows[worker[w].item], ![w].pc = "claim"]
  /\ UNCHANGED <<rows, lock, account>>

Claim(w) ==
  LET e == worker[w].item
      rec == worker[w].rec
  IN /\ worker[w].pc = "claim"
     /\ \/ /\ lock.holder \in {None, e}
           /\ lock' = IF lock.holder = e THEN lock ELSE Lease(e)
           /\ IF rec.pending # None THEN Goto(w, "reconcile")
              ELSE IF rec.status \in TerminalSuccess \cup TerminalFailure
                        /\ ~RetryableBeforeDispatch(rec)
              THEN AnswerAt(w, "unlock", OutcomeOf(rec))
              ELSE Goto(w, "open")
        \/ /\ lock.holder \notin {None, e} \/ "journal" \in faults
           /\ lock' \in {lock, IF lock.holder = None THEN Lease(e) ELSE lock}
           /\ Answer(w, Exception)
     /\ UNCHANGED <<rows, account>>

\* only a suspend and a moderation of a known object can be decided by reading
Readable(rec) ==
  \/ rec.pending = "campaigns.suspend" /\ "campaigns.add" \in rec.ids
  \/ rec.pending = "ads.moderate" /\ "ads.add" \in rec.ids

Confirmed(e, rec) ==
  /\ Readable(rec)
  /\ IF rec.pending = "campaigns.suspend" THEN account[e].state = "SUSPENDED"
     ELSE account[e].ad \in {"MODERATION", "ACCEPTED", "REJECTED"}

StepOf(op) == IF op = "ads.moderate" THEN "MODERATION_SUBMITTED"
                                     ELSE "NON_SERVING_CONFIRMED"

\* mutant: what is pending is forgotten without a read
ReconcileBlindly(w) ==
  LET e == worker[w].item
      rec == [worker[w].rec EXCEPT !.pending = None]
  IN /\ worker[w].pc = "reconcile"
     /\ Saved(e, rec)
     /\ worker' = [worker EXCEPT ![w].rec = rec, ![w].pc = "open"]
     /\ UNCHANGED account

\* reconcilePendingDispatch; every error holds the lock and is thrown on
ReconcilePendingDispatch(w) ==
  LET e == worker[w].item
      old == worker[w].rec
      rec == [old EXCEPT !.pending = None, !.status = "OPEN",
                !.steps = @ \cup {StepOf(old.pending)},
                !.containment = IF old.pending = "campaigns.suspend"
                                  THEN "NON_SERVING_CONFIRMED" ELSE @]
  IN /\ worker[w].pc = "reconcile"
     /\ \/ /\ Confirmed(e, old)
           /\ \/ /\ Saved(e, rec)
                 /\ worker' = [worker EXCEPT ![w].rec = rec, ![w].pc = "open"]
              \/ NotSaved(e, rec) /\ AnswerAt(w, "hold", Exception)
        \/ /\ ~Confirmed(e, old) \/ "recon" \in ReadErrors
           /\ AnswerAt(w, "hold", Ambiguous)
           /\ UNCHANGED <<rows, lock>>
        \/ /\ Readable(old) /\ "plain" \in ReadErrors
           /\ AnswerAt(w, "hold", Exception)
           /\ UNCHANGED <<rows, lock>>
     /\ UNCHANGED account

-----------------------------------------------------------------------------
(* createSuspendedCampaign.                                                *)

\* where worker v stands when it arrives at stage n
Arrive(v, n) ==
  LET s == Stages[n]
  IN [v EXCEPT !.at = n,
        !.pc = CASE s \in {"graph", "final"} -> "read"
                 [] s \in Adds -> IF s \in v.rec.ids THEN "progress" ELSE "intend"
                 [] s = "campaigns.suspend" -> IF v.fresh THEN "intend" ELSE "probe"
                 [] s = "ads.moderate" -> IF v.moderated THEN "progress" ELSE "intend"]

Operation(v) == IF v.containing THEN "campaigns.suspend" ELSE Stages[v.at]

\* mutant: a known campaign is taken to be contained
RaiseContained(v, e) ==
  [v EXCEPT !.err = e, !.pc = "contained",
     !.containment = IF "campaigns.add" \in v.rec.ids THEN "NON_SERVING_CONFIRMED"
                     ELSE "RECONCILIATION_REQUIRED"]

\* the catch block: what becomes of worker v when error e is thrown
Raise(v, e) ==
  IF v.containing
    THEN [v EXCEPT !.containment = "MANUAL_RECONCILIATION_REQUIRED", !.pc = "contained"]
  ELSE IF "campaigns.add" \in v.rec.ids
    THEN IF e = "recon"
           THEN [v EXCEPT !.err = e, !.pc = "contained",
                   !.containment = IF "NON_SERVING_CONFIRMED" \in v.steps
                                     THEN "NON_SERVING_CONFIRMED"
                                     ELSE "MANUAL_RECONCILIATION_REQUIRED"]
           ELSE [v EXCEPT !.err = e, !.pc = "contain", !.containing = TRUE]
  ELSE IF e \in {"rejected", "unattempted"}
    THEN [v EXCEPT !.err = e, !.pc = "close"]
    ELSE [v EXCEPT !.err = e, !.pc = "contained",
            !.containment = "RECONCILIATION_REQUIRED"]

\* the record is saved as HELD; one that never dispatched starts anew
Open(w) ==
  LET e == worker[w].item
      old == worker[w].rec
      rec == IF old.status \in {"BLANK", "SYSTEM_FAILED"}
               THEN [NewRecord EXCEPT !.status = "OPEN"] ELSE old
  IN /\ worker[w].pc = "open"
     /\ \/ /\ Saved(e, rec)
           /\ Become(w, Arrive(
                [worker[w] EXCEPT !.rec = rec,
                   !.fresh = "campaigns.add" \notin rec.ids,
                   !.moderated = "MODERATION_SUBMITTED" \in rec.steps], 1))
        \/ NotSaved(e, rec) /\ Answer(w, Exception)
     /\ UNCHANGED account

\* mutant: the intent is not saved
IntendInMemory(w) ==
  /\ worker[w].pc = "intend"
  /\ Become(w, [worker[w] EXCEPT !.rec.pending = Operation(worker[w]), !.pc = "send"])
  /\ UNCHANGED <<rows, lock, account>>

\* journaledFetcher: no mutation beside another outcome, none without an intent
Intend(w) ==
  LET v == worker[w]
      rec == [v.rec EXCEPT !.pending = Operation(v), !.status = "OPEN"]
  IN /\ v.pc = "intend"
     /\ \/ /\ v.rec.pending # None
           /\ Become(w, Raise(v, "recon"))
           /\ UNCHANGED <<rows, lock>>
        \/ /\ v.rec.pending = None
           /\ \/ Saved(v.item, rec) /\ Become(w, [v EXCEPT !.rec = rec, !.pc = "send"])
              \/ NotSaved(v.item, rec) /\ Become(w, Raise(v, "unattempted"))
     /\ UNCHANGED account

\* the network mutation: accepted, definitely rejected, without an answer, with an
\* HTTP error or invalid body, or with a body that names no object
Send(w) ==
  LET v == worker[w]
      op == Operation(v)
      done == Effects(account[v.item], op)
      maybe == done \cup {account[v.item]}
      Change(objects) == \E o \in objects : account' = [account EXCEPT ![v.item] = o]
  IN /\ v.pc = "send"
     /\ \/ /\ Change(done)
           /\ Goto(w, IF op = "campaigns.suspend" THEN "confirm" ELSE "progress")
        \/ /\ op \in Rejectable
           /\ UNCHANGED account
           /\ Become(w, Raise(v, "rejected"))
        \/ /\ "lost" \in faults
           /\ Change(maybe)
           /\ Goto(w, "lost") \/ Become(w, Raise(v, "recon"))
        \/ /\ "odd" \in faults
           /\ Change(maybe)
           /\ Become(w, Raise(v, "plain"))
     /\ UNCHANGED <<rows, lock>>

\* the lost result is marked; a failing save is ignored
LostResult(w) ==
  LET v == worker[w]
      rec == [v.rec EXCEPT !.status = "RECONCILIATION_REQUIRED"]
  IN /\ v.pc = "lost"
     /\ Saved(v.item, rec) \/ NotSaved(v.item, rec)
     /\ Become(w, Raise([v EXCEPT !.rec = rec], "recon"))
     /\ UNCHANGED account

\* campaignReadback after a suspend
ConfirmSuspended(w) ==
  LET v == worker[w]
  IN /\ v.pc = "confirm"
     /\ \/ IF v.containing
             THEN Become(w, [v EXCEPT !.pc = "contained", !.containment =
                               IF NonServing(v.item) THEN "NON_SERVING_CONFIRMED"
                               ELSE "MANUAL_RECONCILIATION_REQUIRED"])
             ELSE IF account[v.item].state = "SUSPENDED" THEN Goto(w, "progress")
                  ELSE Become(w, Raise(v, "plain"))
        \/ \E e \in ReadErrors : Become(w, Raise(v, e))
     /\ UNCHANGED <<rows, lock, account>>

\* ensureExplicitlySuspended of a recovered campaign
ProbeSuspended(w) ==
  LET v == worker[w]
  IN /\ v.pc = "probe"
     /\ \/ Goto(w, IF account[v.item].state = "SUSPENDED" THEN "progress" ELSE "intend")
        \/ \E e \in ReadErrors : Become(w, Raise(v, e))
     /\ UNCHANGED <<rows, lock, account>>

\* readAndVerifyGraph; the final one also takes the moderation status
ReadAndVerifyGraph(w) ==
  LET v == worker[w]
  IN /\ v.pc = "read"
     /\ \/ /\ GraphVerified(v.item)
           /\ Become(w, [v EXCEPT !.pc = "progress", !.rec.ad =
                IF Stages[v.at] = "final" THEN account[v.item].ad ELSE None])
        \/ ~GraphVerified(v.item) /\ Become(w, Raise(v, "plain"))
        \/ \E e \in ReadErrors : Become(w, Raise(v, e))
     /\ UNCHANGED <<rows, lock, account>>

CompletedStatus(ad) == CASE ad = "ACCEPTED" -> "DIRECT_ACCEPTED"
                         [] ad = "REJECTED" -> "REJECTED_NEEDS_EDIT"
                         [] OTHER -> "MODERATION_PENDING"

\* the record a stage leaves: its intent is done, its object known, and the steps are
\* those of this call only
ProgressRecord(v) ==
  LET s == Stages[v.at]
      step == IF s = "campaigns.suspend" \/ (s = "ads.moderate" /\ ~v.moderated)
                THEN {StepOf(s)} ELSE {}
  IN [v.rec EXCEPT !.pending = IF @ = s THEN None ELSE @,
        !.status = IF s = "final" THEN CompletedStatus(v.rec.ad) ELSE "OPEN",
        !.ids = @ \cup ({s} \cap Adds), !.steps = v.steps \cup step,
        !.containment = None, !.unattempted = FALSE]

\* persistProgress after a stage; a failed save leaves the intent pending
PersistProgress(w) ==
  LET v == worker[w]
      rec == ProgressRecord(v)
      next == [v EXCEPT !.rec = rec, !.steps = rec.steps]
  IN /\ v.pc = "progress"
     /\ \/ /\ Saved(v.item, rec)
           /\ Become(w, IF v.at = Len(Stages) THEN [next EXCEPT !.pc = "finish"]
                        ELSE Arrive(next, v.at + 1))
        \/ /\ NotSaved(v.item, rec)
           /\ Become(w, Raise([next EXCEPT !.rec.pending = v.rec.pending], "recon"))
     /\ UNCHANGED account

\* ensureNonServing of the catch block, whose own errors end in MANUAL
EnsureNonServing(w) ==
  LET v == worker[w]
  IN /\ v.pc = "contain"
     /\ \/ /\ NonServing(v.item)
           /\ Become(w, [v EXCEPT !.pc = "contained",
                                  !.containment = "NON_SERVING_CONFIRMED"])
        \/ ~NonServing(v.item) /\ Goto(w, "intend")
        \/ \E e \in ReadErrors : Become(w, Raise(v, e))
     /\ UNCHANGED <<rows, lock, account>>

\* persistProgress of the catch block
PersistContainment(w) ==
  LET v == worker[w]
      confirmed == v.containment = "NON_SERVING_CONFIRMED"
      rec == [v.rec EXCEPT
                !.pending = IF confirmed /\ @ = "campaigns.suspend" THEN None ELSE @,
                !.status = IF confirmed THEN "OPEN" ELSE "RECONCILIATION_REQUIRED",
                !.steps = v.steps, !.containment = v.containment,
                !.unattempted = FALSE, !.ad = None]
  IN /\ v.pc = "contained"
     /\ \/ Saved(v.item, rec) /\ Become(w, [v EXCEPT !.rec = rec, !.pc = "close"])
        \/ /\ NotSaved(v.item, rec)
           /\ Become(w, [v EXCEPT !.rec = [rec EXCEPT !.pending = v.rec.pending],
                                  !.err = "recon", !.pc = "close"])
     /\ UNCHANGED account

-----------------------------------------------------------------------------
(* The end of executeSafeSingleCampaign.                                   *)

\* the record is saved as RELEASED, then the lock is released
Finish(w) ==
  LET v == worker[w]
      rec == [v.rec EXCEPT !.pending = None, !.status = CompletedStatus(v.rec.ad)]
  IN /\ v.pc = "finish"
     /\ \/ Saved(v.item, rec) /\ Become(w, [v EXCEPT !.rec = rec, !.pc = "release"])
        \/ /\ NotSaved(v.item, rec)
           /\ Become(w, [v EXCEPT !.rec = rec, !.err = "plain", !.pc = "close"])
     /\ UNCHANGED account

Release(w) ==
  LET v == worker[w]
  IN /\ v.pc = "release"
     /\ \/ ReleaseLock(v.item) /\ Answer(w, OutcomeOf(v.rec))
        \/ LockFails /\ Become(w, [v EXCEPT !.err = "plain", !.pc = "close"])
     /\ UNCHANGED <<rows, account>>

\* hold: something is pending, was ambiguous or could not be contained
MustHold(v) ==
  /\ v.err \notin {"rejected", "unattempted"}
  /\ v.rec.pending # None \/ v.err = "recon" \/ v.containment \in Unresolved

\* the outer catch block; an error of its save is thrown as it is
Close(w) ==
  LET v == worker[w]
      rec == [v.rec EXCEPT
                !.pending = IF v.err \in {"rejected", "unattempted"} THEN None ELSE @,
                !.status = IF MustHold(v) THEN "RECONCILIATION_REQUIRED"
                           ELSE IF v.err = "rejected" THEN "PROVIDER_REJECTED"
                           ELSE "SYSTEM_FAILED",
                !.containment = v.containment,
                !.unattempted = (v.err = "unattempted")]
  IN /\ v.pc = "close"
     /\ \/ /\ Saved(v.item, rec)
           /\ AnswerAt(w, IF MustHold(v) THEN "hold" ELSE "unlock", OutcomeOf(rec))
        \/ NotSaved(v.item, rec) /\ Answer(w, Exception)
     /\ UNCHANGED account

\* the last call, whose failure replaces the answer
Hold(w) ==
  /\ worker[w].pc = "hold"
  /\ \/ HoldLock(worker[w].item) /\ Goto(w, "answered")
     \/ LockFails /\ Answer(w, Exception)
  /\ UNCHANGED <<rows, account>>

Unlock(w) ==
  /\ worker[w].pc = "unlock"
  /\ \/ ReleaseLock(worker[w].item) /\ Goto(w, "answered")
     \/ LockFails /\ Answer(w, Exception)
  /\ UNCHANGED <<rows, account>>

WorkerStep(w) ==
  \/ Acquire(w) \/ Claim(w) \/ ReconcilePendingDispatch(w) \/ Open(w)
  \/ Intend(w) \/ Send(w) \/ LostResult(w)
  \/ ConfirmSuspended(w) \/ ProbeSuspended(w) \/ ReadAndVerifyGraph(w)
  \/ PersistProgress(w) \/ EnsureNonServing(w) \/ PersistContainment(w)
  \/ Finish(w) \/ Release(w) \/ Close(w) \/ Hold(w) \/ Unlock(w)

=============================================================================
