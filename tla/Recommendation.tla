---------------------------- MODULE Recommendation ----------------------------
(***************************************************************************)
(* RECOMMEND: RecommendationService.recommend (recommend_service.py) over  *)
(* the durable model cost ledger (model_cost.py) and the immutable proposal*)
(* store (proposal_store.py), for callers that run at the same time.       *)
(*                                                                         *)
(* Each action is one transaction of the ledger or of the proposal index,  *)
(* one file operation or one call of the model.  A store keeps a proposal  *)
(* in a file of its own and the row that says it is active in a SQLite     *)
(* index; save holds the write lock of the index while it writes the file. *)
(* The id of a proposal is a digest of its content, so here the content is *)
(* the id.  The model is external: it may answer what the deterministic    *)
(* provider answers, an altered answer, or nothing.  What the callers ask  *)
(* about are reads of the account, linked by SnapshotRules.                *)
(***************************************************************************)
EXTENDS SnapshotRules

CONSTANTS
  Callers,
  Reads,       \* the reads a snapshot may be made of, by name
  Sessions,    \* [subjects, faults]: the reads the callers of one store ask about,
               \* and a bound on crashes and failed writes
  Limit,       \* limits.llm_total_cost_rub
  Reserved,    \* the cost of the maximum tokens of one call
  Lifetime,    \* of a proposal
  MaxTime,     \* bound on the clock
  Torn,        \* a file whose bytes are not all there
  Nobody

\* DurableModelCostLedger.__init__: a ledger opens only with a positive limit.
ASSUME CostAssumption ==
  /\ Limit \in Nat \ {0} /\ Reserved \in Nat
  /\ Lifetime \in Nat \ {0} /\ MaxTime \in Nat
  /\ Torn \notin Nat /\ Nobody \notin Callers

\* The reads are what the readers parse.
ASSUME ReadsAssumption == \A s \in DOMAIN Reads : Parsed(Reads[s])

VARIABLES
  ledger,  \* model_cost_calls: the rows in the order of their reservation
  files,   \* proposal files: the tokens in the envelope, or Torn
  index,   \* active_proposals, by proposal
  writer,  \* the caller that holds the write lock of the index
  call,    \* the callers
  session, \* what the callers ask about
  clock, crashes

vars == <<ledger, files, index, writer, call, session, clock, crashes>>

Idle == [pc |-> "idle", snapshot |-> Nobody, at |-> 0, row |-> 0, answer |-> Nobody,
         tokens |-> 0, stored |-> Nobody, proposal |-> Nobody, outcome |-> Nobody]

Init ==
  /\ ledger = <<>>
  /\ files = <<>> /\ index = <<>>
  /\ writer = Nobody
  /\ call = [c \in Callers |-> Idle]
  /\ session \in Sessions
  /\ clock = 0 /\ crashes = 0

\* projection_from_integrated_snapshot of the snapshot of some reads.
Projections == [s \in DOMAIN Reads |-> Sanitized(Snapshot(Reads[s]))]
Projection(c) == Projections[call[c].snapshot]

\* read_observe_snapshot refuses reads that are not linked.
Observed == {s \in DOMAIN Reads : Linked(Reads[s])}

Goto(c, pc) == call' = [call EXCEPT ![c].pc = pc]
Return(c, outcome) ==
  call' = [call EXCEPT ![c] =
             [@ EXCEPT !.pc = "done", !.outcome = outcome, !.answer = Nobody,
                       !.tokens = 0, !.stored = Nobody, !.proposal = Nobody]]
At(c, pc) == call[c].pc = pc

------------------------------------------------------------------------------
(* The model cost ledger                                                   *)

\* _totals: what was charged, and what open reservations may still cost.
Charged == SumOf([i \in DOMAIN ledger |-> ledger[i].charged])
Open ==
  SumOf([i \in DOMAIN ledger |-> IF ledger[i].status = "RESERVED" THEN Reserved ELSE 0])

\* The test of reserve without the reservations of other calls.
AffordableAlone == Charged < Limit /\ Charged + Reserved <= Limit
\* The test of reserve, inside one BEGIN IMMEDIATE transaction.
Affordable == Charged < Limit /\ Charged + Open + Reserved <= Limit

\* settle and fail close a reservation once.
Close(i, status, charged) ==
  IF ledger[i].status = "RESERVED"
  THEN ledger' = [ledger EXCEPT ![i] = [status |-> status, charged |-> charged]]
  ELSE UNCHANGED ledger

------------------------------------------------------------------------------
(* The proposal store                                                      *)

\* A file or a row is written, over the one that was there.
Put(f, key, value) == [k \in DOMAIN f \cup {key} |-> IF k = key THEN value ELSE f[k]]

\* Every transaction of the store first ends the rows that expired.
Expire(rows, at) ==
  [id \in DOMAIN rows |->
     IF rows[id].expires <= at THEN [rows[id] EXCEPT !.active = FALSE] ELSE rows[id]]

\* The active row of a snapshot and a reason: normalized_reason_key is a
\* digest of the set of facts.
ActiveFor(rows, snapshot, reason) ==
  {id \in DOMAIN rows : /\ rows[id].active
                        /\ rows[id].snapshot = snapshot /\ rows[id].reason = reason}

Readable(id) == id \in DOMAIN files /\ files[id] # Torn

\* compose_proposal: the content of the proposal, whose digest is its id.
Composed(c) ==
  [run |-> c, snapshot |-> call[c].snapshot, created |-> call[c].at,
   expires |-> call[c].at + Lifetime, answer |-> call[c].answer]

\* OptimizationProposalV1.from_mapping, which every proposal passes when it is
\* composed and again when it is read from its file.
FromMapping(id) ==
  id.expires > id.created /\ ValidAnswer(id.answer, Projections[id.snapshot])

\* The facts the model repeats: what save takes when it is given no others.
ReasonOfAnswer(c) == call[c].answer.facts
\* recommend passes the facts of the projection instead.
SaveReason(c) == Projection(c).facts

IndexRow(c) ==
  [snapshot |-> call[c].snapshot, reason |-> SaveReason(c),
   expires |-> call[c].at + Lifetime, active |-> TRUE]

------------------------------------------------------------------------------
(* RecommendationService.recommend                                         *)

Outcome(status, reason) ==
  [status |-> status, reason |-> reason, proposal |-> Nobody, dedup |-> FALSE]
Ready(id, dedup) ==
  [status |-> "READY", reason |-> "none", proposal |-> id, dedup |-> dedup]
Blocked(reason) == Outcome("BLOCKED", reason)
Raised(reason) == Outcome("RAISED", reason)

\* A call begins, or one whose process died begins again: the reads are linked,
\* the projection is validated, and a state that is neither on nor suspended goes
\* to a human.
Start(c, s) ==
  LET p == Projections[s]
      new == [Idle EXCEPT !.snapshot = s, !.at = clock] IN
  /\ call[c].pc \in {"idle", "crashed"}
  /\ call' = [call EXCEPT ![c] =
       IF s \notin Observed
       THEN [new EXCEPT !.pc = "done", !.outcome = Raised("INTEGRATED_SNAPSHOT_REJECTED")]
       ELSE IF ~(ContextKnown(Reads[s]) /\ ValidProjection(p))
       THEN [new EXCEPT !.pc = "done", !.outcome = Blocked("INVALID_INPUT")]
       ELSE IF p.state \notin {"ON", "SUSPENDED"}
       THEN [new EXCEPT !.pc = "done", !.outcome = Outcome("NEEDS_HUMAN", "UNSUPPORTED_STATE")]
       ELSE [new EXCEPT !.pc = "lookup"]]
  /\ UNCHANGED <<ledger, files, index, writer, session, clock, crashes>>

\* load_active_by_reason, its transaction.
Lookup(c) ==
  LET rows == Expire(index, call[c].at)
      active == ActiveFor(rows, call[c].snapshot, Projection(c).facts) IN
  /\ At(c, "lookup") /\ writer = Nobody
  /\ index' = rows
  /\ IF active = {} THEN Goto(c, "reserve")
     ELSE \E id \in active : call' = [call EXCEPT ![c].pc = "read", ![c].stored = id]
  /\ UNCHANGED <<ledger, files, writer, session, clock, crashes>>

\* load_active_by_reason, the file, read after the transaction: no model call.
ReadActive(c) ==
  /\ At(c, "read")
  /\ Return(c, IF Readable(call[c].stored) /\ FromMapping(call[c].stored)
               THEN Ready(call[c].stored, TRUE)
               ELSE Raised("PROPOSAL_CONFLICT"))
  /\ UNCHANGED <<ledger, files, index, writer, session, clock, crashes>>

\* DurableModelCostLedger.reserve.
Reserve(c) ==
  /\ At(c, "reserve")
  /\ IF Affordable
     THEN /\ ledger' = Append(ledger, [status |-> "RESERVED", charged |-> 0])
          /\ call' = [call EXCEPT ![c].pc = "generate", ![c].row = Len(ledger) + 1]
     ELSE /\ Return(c, Blocked("MODEL_COST_LIMIT_EXHAUSTED"))
          /\ UNCHANGED ledger
  /\ UNCHANGED <<files, index, writer, session, clock, crashes>>

\* What a model may answer: the advice of the decision table, that advice
\* resting on one fact only, or also on a fact nobody observed, or another
\* action; or a higher budget, whatever the facts are.
Altered(a) ==
  {[a EXCEPT !.facts = {f}] : f \in a.facts} \cup
  {[a EXCEPT !.facts = @ \cup {"NO_CONVERSIONS"}, !.evidence = @ \cup {"goal_visits"}],
   [a EXCEPT !.action = "INCREASE_WEEKLY_BUDGET"]}
Answers(p) ==
  IF FakeRaises(p) THEN {}
  ELSE {FakeAnswer(p), Stepped(p, "EFFECTIVE", "INCREASE_WEEKLY_BUDGET")}
         \cup Altered(FakeAnswer(p))

\* The call of the model: an answer with its usage, or an exception.
Generate(c) ==
  /\ At(c, "generate")
  /\ \/ \E a \in Answers(Projection(c)), tokens \in 0..(Reserved + 1) :
          call' = [call EXCEPT ![c].pc = "settle", ![c].answer = a, ![c].tokens = tokens]
     \/ Goto(c, "fail")
  /\ UNCHANGED <<ledger, files, index, writer, session, clock, crashes>>

\* The model raised: the whole reservation is charged and the call raises.
Fail(c) ==
  /\ At(c, "fail")
  /\ Close(call[c].row, "FAILED", Reserved)
  /\ Return(c, Raised("MODEL_PROVIDER_FAILED"))
  /\ UNCHANGED <<files, index, writer, session, clock, crashes>>

\* settle, then compose_proposal.  Usage above the reservation fails it, and
\* an answer that does not validate has been paid for.
Settle(c) ==
  /\ At(c, "settle")
  /\ IF call[c].tokens > Reserved
     THEN /\ Close(call[c].row, "FAILED", Reserved)
          /\ Return(c, Blocked("MODEL_USAGE_METADATA_INVALID"))
     ELSE /\ Close(call[c].row, "SETTLED", call[c].tokens)
          /\ IF FromMapping(Composed(c))
             THEN call' = [call EXCEPT ![c].pc = "save", ![c].proposal = Composed(c)]
             ELSE Return(c, Blocked("INVALID_INPUT"))
  /\ UNCHANGED <<files, index, writer, session, clock, crashes>>

\* ImmutableProposalStore.save finds an active proposal for the same reason.
SaveDuplicate(c) ==
  LET rows == Expire(index, call[c].at) IN
  /\ At(c, "save") /\ writer = Nobody
  /\ \E id \in ActiveFor(rows, call[c].snapshot, SaveReason(c)) :
       IF Readable(id)
       THEN /\ index' = rows
            /\ IF id = call[c].proposal THEN Return(c, Ready(id, TRUE))
               ELSE call' = [call EXCEPT ![c].pc = "reload", ![c].stored = id]
       ELSE /\ Return(c, Raised("PROPOSAL_CONFLICT"))
            /\ UNCHANGED index
  /\ UNCHANGED <<ledger, files, writer, session, clock, crashes>>

\* save finds the file of the same proposal: its bytes, the usage of the model
\* included, must be the same, and its row becomes active again.
SaveExisting(c) ==
  LET id == call[c].proposal
      rows == Expire(index, call[c].at) IN
  /\ At(c, "save") /\ writer = Nobody
  /\ ActiveFor(rows, call[c].snapshot, SaveReason(c)) = {}
  /\ id \in DOMAIN files
  /\ IF Readable(id) /\ files[id] = call[c].tokens
     THEN /\ index' = Put(rows, id, IndexRow(c))
          /\ Return(c, Ready(id, TRUE))
     ELSE /\ Return(c, Raised("PROPOSAL_CONFLICT"))
          /\ UNCHANGED index
  /\ UNCHANGED <<ledger, files, writer, session, clock, crashes>>

\* The row is committed before the file is written.
SaveRowFirst(c) ==
  /\ At(c, "save") /\ writer = Nobody
  /\ ActiveFor(Expire(index, call[c].at), call[c].snapshot, SaveReason(c)) = {}
  /\ call[c].proposal \notin DOMAIN files
  /\ files' = Put(files, call[c].proposal, Torn)
  /\ index' = Put(Expire(index, call[c].at), call[c].proposal, IndexRow(c))
  /\ Goto(c, "write")
  /\ UNCHANGED <<ledger, writer, session, clock, crashes>>

\* save creates the file, empty, and keeps the write lock.
SaveCreate(c) ==
  /\ At(c, "save") /\ writer = Nobody
  /\ ActiveFor(Expire(index, call[c].at), call[c].snapshot, SaveReason(c)) = {}
  /\ call[c].proposal \notin DOMAIN files
  /\ files' = Put(files, call[c].proposal, Torn)
  /\ writer' = c
  /\ Goto(c, "write")
  /\ UNCHANGED <<ledger, index, session, clock, crashes>>

\* The bytes reach the disk.
SaveWrite(c) ==
  /\ At(c, "write")
  /\ files' = [files EXCEPT ![call[c].proposal] = call[c].tokens]
  /\ Goto(c, "commit")
  /\ UNCHANGED <<ledger, index, writer, session, clock, crashes>>

\* The write fails: the file stays, whatever part of it was written.
WriteFails(c) ==
  /\ At(c, "write") /\ crashes < session.faults
  /\ crashes' = crashes + 1
  /\ writer' = Nobody
  /\ Return(c, Raised("WRITE_FAILED"))
  /\ UNCHANGED <<ledger, files, index, session, clock>>

\* The row of the new proposal, and the end of the transaction.
SaveCommit(c) ==
  /\ At(c, "commit")
  /\ index' = Put(Expire(index, call[c].at), call[c].proposal, IndexRow(c))
  /\ writer' = Nobody
  /\ Return(c, Ready(call[c].proposal, FALSE))
  /\ UNCHANGED <<ledger, files, session, clock, crashes>>

\* The insertion or the commit fails: the complete file is unlinked.
CommitFails(c) ==
  /\ At(c, "commit") /\ crashes < session.faults
  /\ crashes' = crashes + 1
  /\ files' = [id \in DOMAIN files \ {call[c].proposal} |-> files[id]]
  /\ writer' = Nobody
  /\ Return(c, Raised("COMMIT_FAILED"))
  /\ UNCHANGED <<ledger, index, session, clock>>

\* load_active of the proposal that was there first.
Reload(c) ==
  LET id == call[c].stored
      rows == Expire(index, call[c].at) IN
  /\ At(c, "reload") /\ writer = Nobody
  /\ IF ~(Readable(id) /\ FromMapping(id))
     THEN Return(c, Raised("PROPOSAL_CONFLICT")) /\ UNCHANGED index
     ELSE IF id.expires <= call[c].at
     THEN Return(c, Raised("PROPOSAL_DISAPPEARED")) /\ UNCHANGED index
     ELSE /\ index' = rows
          /\ Return(c, IF rows[id].active THEN Ready(id, TRUE)
                       ELSE Raised("PROPOSAL_DISAPPEARED"))
  /\ UNCHANGED <<ledger, files, writer, session, clock, crashes>>

\* The process dies: SQLite rolls back, the file stays as it is.
Crash(c) ==
  /\ call[c].pc \notin {"idle", "done", "crashed"} /\ crashes < session.faults
  /\ crashes' = crashes + 1
  /\ writer' = IF writer = c THEN Nobody ELSE writer
  /\ call' = [call EXCEPT ![c] = [Idle EXCEPT !.pc = "crashed"]]
  /\ UNCHANGED <<ledger, files, index, session, clock>>

Tick ==
  /\ clock < MaxTime
  /\ clock' = clock + 1
  /\ UNCHANGED <<ledger, files, index, writer, call, session, crashes>>

\* Every call has returned.
Finished ==
  /\ \A c \in Callers : At(c, "done")
  /\ clock = MaxTime
  /\ UNCHANGED vars

Next ==
  \/ \E c \in Callers :
       \/ \E s \in session.subjects : Start(c, s)
       \/ Lookup(c) \/ ReadActive(c)
       \/ Reserve(c) \/ Generate(c) \/ Fail(c) \/ Settle(c)
       \/ SaveDuplicate(c) \/ SaveExisting(c) \/ SaveCreate(c)
       \/ SaveWrite(c) \/ WriteFails(c) \/ SaveCommit(c) \/ CommitFails(c)
       \/ Reload(c) \/ Crash(c)
  \/ Tick
  \/ Finished

Spec == Init /\ [][Next]_vars

------------------------------------------------------------------------------
(* What the pipeline promises                                              *)

\* The model never costs more than the limit, however many calls reserve at
\* the same time and whatever fails: what was charged and what the open
\* reservations may still cost stay within limits.llm_total_cost_rub.  And a
\* reservation is closed once its call returned, with an outcome or an
\* exception: only a dead process leaves one open.
CostBounded ==
  /\ Charged + Open <= Limit
  /\ \A c \in Callers :
       At(c, "done") /\ call[c].row # 0 => ledger[call[c].row].status # "RESERVED"

\* An active row always has its whole file: what the index offers can be read,
\* after a crash between the file and the row too.
ActiveIsReadable ==
  \A id \in DOMAIN index : index[id].active => Readable(id)

\* Two calls told READY for one snapshot hold the same proposal as long as
\* both proposals are in force: the callers are never given rival advice.
OneAdvice ==
  \A c, d \in Callers :
    LET o == call[c].outcome  q == call[d].outcome IN
      /\ At(c, "done") /\ At(d, "done")
      /\ o.status = "READY" /\ q.status = "READY"
      /\ call[c].snapshot = call[d].snapshot
      /\ o.proposal.expires > clock /\ q.proposal.expires > clock
      => o.proposal = q.proposal

\* READY advice rests on facts that hold of the raw reports, with the fields that
\* show them, and proposes an action its verdict allows.  The deterministic
\* provider is never refused, and it advises a change of the account only on
\* reads that are one observation, however long they took and whatever the
\* account did meanwhile.
ReadyIsSupported ==
  \A c \in Callers :
    LET o == call[c].outcome  a == call[c].answer  s == call[c].snapshot IN
      /\ At(c, "done") /\ o.status = "READY" =>
           LET advice == o.proposal.answer IN
           /\ \A f \in advice.facts :
                FactHolds(f, Reads[s]) /\ FactEvidence[f] \subseteq advice.evidence
           /\ advice.action \in StatusActions[advice.status]
           /\ o.proposal.expires > call[c].at
           /\ advice = FakeAnswer(Projection(c)) /\ advice.action \notin Unchanging
                => OneObservation(Reads[s])
      /\ At(c, "settle") /\ a = FakeAnswer(Projection(c)) => ValidAnswer(a, Projection(c))
===============================================================================
