-------------------------- MODULE ApprovalExecution --------------------------
(***************************************************************************)
(* The APPROVAL_REQUIRED write path: DurableControlState's approvals and   *)
(* executions (control_state.py) driven by ApprovalExecutionService        *)
(* (approval_execution.py) through GuardedDispatchBoundary                 *)
(* (trust_boundary.py).  Several callers, threads or processes over one    *)
(* control database, run execute and reconcile; a program counter marks    *)
(* the points between two durable transactions or adapter calls, where     *)
(* other callers, the approver, the incident principal, the clock, a crash *)
(* or a storage error may intervene.                                       *)
(***************************************************************************)
EXTENDS WriteBoundary

CONSTANTS
  Callers,         \* concurrent calls of the service
  Approvals,       \* approval identifiers
  Operators,       \* processes of the incident principal (kill-switch CLI)
  NoApproval,
  ExclusiveCalls,  \* TRUE: a key is worked on by one call at a time
  Faults           \* which of "crash", "storage" may happen

ASSUME CallerAssumption ==
  /\ NoApproval \notin Approvals
  /\ ExclusiveCalls \in BOOLEAN
  /\ Faults \subseteq {"crash", "storage"}

VARIABLES
  grants,       \* approvals: proposal_id, granted_at, expires_at
  reservedFor,  \* approvals.reserved_execution_key
  used,         \* approvals with used_at
  revoked,      \* approvals with revoked_at
  pc,         \* where a call is
  mode,       \* "execute" or "reconcile"
  key,        \* the proposal a call works on
  bound,      \* the approval load_bound_approval returned
  at,         \* the instant the call last read from its clock
  seen,       \* the status the call derived from its last readback
  answer,     \* what the last step returned to its caller, if it returned
  opPc,       \* where a kill-switch command is
  opScope     \* the scope it works on

approvalVars == <<grants, reservedFor, used, revoked>>
callVars == <<pc, mode, key, bound, at, seen>>
opVars == <<opPc, opScope>>
vars == <<boundaryVars, approvalVars, callVars, answer, opVars>>

-----------------------------------------------------------------------------
Grant ==
  [proposal : Proposals \cup {NoKey}, granted : Time, expires : 0..(MaxClock + 1)]
NotGranted == [proposal |-> NoKey, granted |-> 0, expires |-> 0]

Answers == Statuses \cup {"ALREADY_PROCESSED", "NONE"}
AnswerRow ==
  [key : Proposals \cup {NoKey}, mode : {"execute", "reconcile"},
   status : Answers]
NoAnswer == [key |-> NoKey, mode |-> "execute", status |-> "NONE"]

NoChangePoints == {"reserve_no_change", "begin_no_change",
                   "release_no_change", "finish_no_change"}
\* the steps of send_once on the way to the transport
DispatchPoints == {"post_commit", "audit", "reserve_window", "final_check",
                   "immediate", "consume_gate", "consume", "transport"}
\* the steps that undo a refused dispatch
UndoPoints == {"release_window", "unreserve", "block",
               "audit_unreserve", "audit_window", "audit_block", "handler"}
ResolvePoints == {"observe", "finish", "settle"}
\* where a call still works with the approval it loaded
BoundPoints == NoChangePoints \cup DispatchPoints
                 \cup {"send", "release_window", "unreserve", "audit_unreserve"}
Points == {"idle", "evaluate", "read_before", "send", "apply"}
            \cup NoChangePoints \cup DispatchPoints \cup UndoPoints
            \cup ResolvePoints

ApprovalTypeOK ==
  /\ grants \in [Approvals -> Grant]
  /\ reservedFor \in [Approvals -> Proposals \cup {NoKey}]
  /\ used \subseteq Approvals
  /\ revoked \subseteq Approvals
CallTypeOK ==
  /\ pc \in [Callers -> Points]
  /\ mode \in [Callers -> {"execute", "reconcile"}]
  /\ key \in [Callers -> Proposals \cup {NoKey}]
  /\ \A c \in Callers : pc[c] # "idle" => key[c] \in Proposals
  /\ bound \in [Callers -> Approvals \cup {NoApproval}]
  /\ \A c \in Callers : pc[c] \in BoundPoints => bound[c] \in Approvals
  /\ at \in [Callers -> Time]
  /\ seen \in [Callers -> Terminal \cup {"NONE"}]
  /\ \A c \in Callers : pc[c] \in {"finish", "settle"} => seen[c] \in Terminal
  /\ answer \in AnswerRow
OperatorTypeOK ==
  /\ opPc \in [Operators -> {"idle", "engage_main", "release_sidecar"}]
  /\ opScope \in [Operators -> SUBSET Scopes]

\* Every table, local variable and program counter keeps its type, a call that
\* is not idle works on a proposal, a call that will use an approval holds one
\* and a call that records a result has classified a readback
\* (approval_execution.py, execute and reconcile).
TypeOK == BoundaryTypeOK /\ ApprovalTypeOK /\ CallTypeOK /\ OperatorTypeOK

Init ==
  /\ BoundaryInit
  /\ grants = [a \in Approvals |-> NotGranted]
  /\ reservedFor = [a \in Approvals |-> NoKey]
  /\ used = {}
  /\ revoked = {}
  /\ pc = [c \in Callers |-> "idle"]
  /\ mode = [c \in Callers |-> "execute"]
  /\ key = [c \in Callers |-> NoKey]
  /\ bound = [c \in Callers |-> NoApproval]
  /\ at = [c \in Callers |-> 0]
  /\ seen = [c \in Callers |-> "NONE"]
  /\ answer = NoAnswer
  /\ opPc = [o \in Operators |-> "idle"]
  /\ opScope = [o \in Operators |-> {}]

-----------------------------------------------------------------------------
\* sqlite3.Error: a store is locked or unavailable at this transaction
StorageFails == "storage" \in Faults

Goto(c, point) ==
  /\ pc' = [pc EXCEPT ![c] = point]
  /\ answer' = NoAnswer
\* the call returns: its locals are gone
Return(c, result) ==
  /\ pc' = [pc EXCEPT ![c] = "idle"]
  /\ answer' = [key |-> key[c], mode |-> mode[c], status |-> result]
  /\ mode' = [mode EXCEPT ![c] = "execute"]
  /\ key' = [key EXCEPT ![c] = NoKey]
  /\ bound' = [bound EXCEPT ![c] = NoApproval]
  /\ at' = [at EXCEPT ![c] = 0]
  /\ seen' = [seen EXCEPT ![c] = "NONE"]
Keep(c) == UNCHANGED <<mode, key, bound, at, seen>>

\* ExclusiveCalls is the discipline under which the quiet-window and answer
\* properties hold; the code itself does not enforce it.
MayWorkOn(p) ==
  ExclusiveCalls => \A d \in Callers : pc[d] # "idle" => key[d] # p

StartCall(c, p, m, point) ==
  /\ pc' = [pc EXCEPT ![c] = point]
  /\ mode' = [mode EXCEPT ![c] = m]
  /\ key' = [key EXCEPT ![c] = p]
  /\ answer' = NoAnswer
  /\ UNCHANGED <<bound, at, seen>>

AnswerAtOnce(p, m, result) ==
  /\ answer' = [key |-> p, mode |-> m, status |-> result]
  /\ UNCHANGED callVars

\* load_bound_approval: the latest grant for the proposal
BoundApprovals(p) ==
  {a \in Approvals :
    /\ grants[a].proposal = p
    /\ \A b \in Approvals : grants[b].proposal = p
                              => grants[b].granted <= grants[a].granted}

\* an approval send_once and begin_execution may reserve at instant t
Reservable(a, p, t) ==
  /\ grants[a].proposal = p
  /\ a \notin used
  /\ a \notin revoked
  /\ reservedFor[a] = NoKey
  /\ grants[a].expires > t

ReserveApproval(a, p) ==
  /\ reservedFor' = [reservedFor EXCEPT ![a] = p]
  /\ UNCHANGED <<grants, used, revoked>>
ReleaseApprovalReservation(a, p) ==
  /\ reservedFor' = IF reservedFor[a] = p /\ a \notin used
                      THEN [reservedFor EXCEPT ![a] = NoKey]
                      ELSE reservedFor
  /\ UNCHANGED <<grants, used, revoked>>

-----------------------------------------------------------------------------
(* execute, up to the choice of the path.                                  *)

\* load_execution_plan and _completed_outcome
Execute(c, p) ==
  /\ pc[c] = "idle"
  /\ MayWorkOn(p)
  /\ IF status[p] \in Completed
       THEN AnswerAtOnce(p, "execute", "ALREADY_PROCESSED")
       ELSE StartCall(c, p, "execute", "evaluate")
  /\ UNCHANGED <<boundaryVars, approvalVars, opVars>>

\* _trusted_request and the policy.  A fixture plan carries its facts in the
\* request; a snapshot plan reads usage, fingerprint and kill switch, any of
\* which may also be unavailable, and its facts age, so it may be refused at
\* any time.  A raised refusal goes through the handler, a policy verdict not.
Evaluate(c) ==
  /\ pc[c] = "evaluate"
  /\ LET p == key[c] IN
     \/ /\ p \in SnapshotSourced => ~DispatchForbidden(p) /\ ~UsageExhausted(p)
        /\ Goto(c, "read_before") /\ Keep(c)
     \/ /\ p \in SnapshotSourced
        /\ Goto(c, "handler") /\ Keep(c)
     \/ /\ p \in SnapshotSourced
        /\ ~DispatchForbidden(p)
        /\ Return(c, "BLOCKED")
  /\ UNCHANGED <<boundaryVars, approvalVars, opVars>>

\* the readback before the write, load_bound_approval and the choice of path
ReadBefore(c) ==
  /\ pc[c] = "read_before"
  /\ LET p == key[c]
         before == Readback(p)
         path == IF before = TargetValue[p] THEN "reserve_no_change" ELSE "send"
     IN \/ /\ before \notin {CurrentValue[p], TargetValue[p]}
           /\ Return(c, "BLOCKED")
        \/ /\ before \in {CurrentValue[p], TargetValue[p]}
           /\ BoundApprovals(p) = {}
           /\ Goto(c, "handler") /\ Keep(c)
        \/ /\ before \in {CurrentValue[p], TargetValue[p]}
           /\ \E a \in BoundApprovals(p) :
                /\ Goto(c, path)
                /\ bound' = [bound EXCEPT ![c] = a]
                /\ at' = [at EXCEPT ![c] = clock]
                /\ UNCHANGED <<mode, key, seen>>
  /\ UNCHANGED <<boundaryVars, approvalVars, opVars>>

-----------------------------------------------------------------------------
(* The target already holds the value: four transactions, no write.        *)
ReserveNoChange(c) ==
  /\ pc[c] = "reserve_no_change"
  /\ LET p == key[c] IN
     \/ /\ UnknownOutstanding
        /\ Goto(c, "handler") /\ Keep(c) /\ UNCHANGED ledgerVars
     \/ /\ ~UnknownOutstanding /\ status[p] \notin {"NONE", "RESERVED"}
        /\ Return(c, IF status[p] \in Completed THEN "ALREADY_PROCESSED"
                                                ELSE status[p])
        /\ UNCHANGED ledgerVars
     \* a row another call reserved: this call goes on with it
     \/ /\ ~UnknownOutstanding /\ status[p] = "RESERVED"
        /\ Goto(c, "begin_no_change") /\ Keep(c) /\ UNCHANGED ledgerVars
     \/ /\ ~UnknownOutstanding /\ status[p] = "NONE" /\ OtherActive
        /\ Return(c, "BLOCKED") /\ UNCHANGED ledgerVars
     \/ /\ ~UnknownOutstanding /\ status[p] = "NONE" /\ ~OtherActive
        /\ SetStatus(p, "RESERVED", clock)
        /\ Goto(c, "begin_no_change") /\ Keep(c)
  /\ UNCHANGED <<window, controlVars, audits, adapter, adapterVars, clock,
                 approvalVars, opVars>>

BeginNoChange(c) ==
  /\ pc[c] = "begin_no_change"
  /\ LET p == key[c] IN
     IF Reservable(bound[c], p, clock) /\ status[p] = "RESERVED"
       THEN /\ ReserveApproval(bound[c], p)
            /\ SetStatus(p, "IN_FLIGHT", clock)
            /\ Goto(c, "release_no_change")
       ELSE Goto(c, "handler") /\ UNCHANGED <<approvalVars, ledgerVars>>
  /\ Keep(c)
  /\ UNCHANGED <<window, controlVars, audits, adapter, adapterVars, clock, opVars>>

ReleaseNoChange(c) ==
  /\ pc[c] = "release_no_change"
  /\ ReleaseApprovalReservation(bound[c], key[c])
  /\ Goto(c, "finish_no_change") /\ Keep(c)
  /\ UNCHANGED <<boundaryVars, opVars>>

FinishNoChange(c) ==
  /\ pc[c] = "finish_no_change"
  /\ IF FinishAccepted(key[c], "NO_CHANGE")
       THEN Finish(key[c], "NO_CHANGE") /\ Return(c, "NO_CHANGE")
       ELSE Goto(c, "handler") /\ Keep(c) /\ UNCHANGED ledgerVars
  /\ UNCHANGED <<window, controlVars, audits, adapter, adapterVars, clock,
                 approvalVars, opVars>>

-----------------------------------------------------------------------------
(* send_once.                                                              *)

\* its first transaction: ledger, kill switch and approval decided together
SendTransaction(c) ==
  /\ pc[c] = "send"
  /\ LET p == key[c]
         refused == \/ UnknownOutstanding
                    \/ /\ status[p] = "NONE" /\ ~OtherActive
                       /\ \/ DispatchForbidden(p)
                          \/ ~Reservable(bound[c], p, at[c])
     IN \/ /\ refused \/ StorageFails
           /\ Goto(c, "handler") /\ Keep(c)
           /\ UNCHANGED <<ledgerVars, approvalVars>>
        \/ /\ ~UnknownOutstanding /\ status[p] # "NONE"
           /\ Return(c, IF status[p] \in Active \cup Completed
                          THEN "ALREADY_PROCESSED" ELSE status[p])
           /\ UNCHANGED <<ledgerVars, approvalVars>>
        \/ /\ ~UnknownOutstanding /\ status[p] = "NONE" /\ OtherActive
           /\ Return(c, "BLOCKED")
           /\ UNCHANGED <<ledgerVars, approvalVars>>
        \/ /\ ~refused /\ status[p] = "NONE" /\ ~OtherActive
           /\ SetStatus(p, "IN_FLIGHT", at[c])
           /\ ReserveApproval(bound[c], p)
           /\ Goto(c, "post_commit") /\ Keep(c)
  /\ UNCHANGED <<window, controlVars, audits, adapter, adapterVars, clock, opVars>>

PostCommitCheck(c) ==
  /\ pc[c] = "post_commit"
  /\ \/ /\ DispatchForbidden(key[c]) \/ StorageFails
        /\ Goto(c, "unreserve")
     \/ ~DispatchForbidden(key[c]) /\ Goto(c, "audit")
  /\ Keep(c)
  /\ UNCHANGED <<boundaryVars, approvalVars, opVars>>

\* DurablePreWriteAudit.authorize: one journal per key, ever
AuthorizeAudit(c) ==
  /\ pc[c] = "audit"
  /\ LET p == key[c] IN
     \/ /\ p \in audits
        /\ Goto(c, "audit_unreserve") /\ UNCHANGED audits
     \/ /\ p \notin audits
        /\ audits' = audits \cup {p}
        /\ Goto(c, "reserve_window")
     \/ /\ StorageFails
        /\ audits' \in {audits, audits \cup {p}}
        /\ Goto(c, "audit_unreserve")
  /\ Keep(c)
  /\ UNCHANGED <<ledgerVars, window, controlVars, adapter, adapterVars, clock,
                 approvalVars, opVars>>

ReserveDispatchWindow(c) ==
  /\ pc[c] = "reserve_window"
  /\ \/ /\ WindowAvailable
        /\ ReserveWindow(key[c]) /\ Goto(c, "final_check")
     \/ /\ ~WindowAvailable \/ StorageFails
        /\ UNCHANGED window /\ Goto(c, "unreserve")
  /\ Keep(c)
  /\ UNCHANGED <<ledgerVars, controlVars, audits, adapter, adapterVars, clock,
                 approvalVars, opVars>>

\* _revalidate_dispatch: policy facts, target and kill switch once more
RevalidationPasses(p) ==
  /\ Readback(p) = CurrentValue[p]
  /\ ~DispatchForbidden(p)
  /\ p \in SnapshotSourced => ~UsageExhausted(p)
Revalidate(c, passed, failed) ==
  /\ \/ RevalidationPasses(key[c]) /\ Goto(c, passed)
     \/ /\ \/ ~RevalidationPasses(key[c])
           \/ key[c] \in SnapshotSourced
           \/ StorageFails
        /\ Goto(c, failed)
  /\ at' = [at EXCEPT ![c] = clock]
  /\ UNCHANGED <<mode, key, bound, seen>>
  /\ UNCHANGED <<boundaryVars, approvalVars, opVars>>

FinalCheck(c) ==
  pc[c] = "final_check" /\ Revalidate(c, "immediate", "release_window")

ImmediateCheck(c) ==
  pc[c] = "immediate" /\ Revalidate(c, "consume_gate", "unreserve")

\* _consume_reserved_approval_for_dispatch: the sidecar, then one transaction
ConsumeGate(c) ==
  /\ pc[c] = "consume_gate"
  /\ \/ /\ Interrupted(key[c]) \/ StorageFails
        /\ Goto(c, "unreserve")
     \/ ~Interrupted(key[c]) /\ Goto(c, "consume")
  /\ Keep(c)
  /\ UNCHANGED <<boundaryVars, approvalVars, opVars>>

ConsumeApproval(c) ==
  /\ pc[c] = "consume"
  /\ LET p == key[c]
         a == bound[c]
         granted == /\ ~Killed(p)
                    /\ reservedFor[a] = p
                    /\ a \notin used \cup revoked
                    /\ grants[a].expires > at[c]
     IN \/ /\ granted
           /\ used' = used \cup {a}
           /\ UNCHANGED <<grants, reservedFor, revoked>>
           /\ Goto(c, "transport")
        \/ /\ ~granted \/ StorageFails
           /\ UNCHANGED approvalVars
           /\ Goto(c, "unreserve")
  /\ Keep(c)
  /\ UNCHANGED <<boundaryVars, opVars>>

\* sender(): the adapter call is counted here and takes effect in TransportEnds
Transport(c) ==
  /\ pc[c] = "transport"
  /\ CountWrite(key[c])
  /\ Goto(c, "apply") /\ Keep(c)
  /\ UNCHANGED <<ledgerVars, window, controlVars, audits, adapter, clock,
                 approvalVars, opVars>>

\* mutant: a timeout sends the command once more
TransportRetries(c) ==
  /\ pc[c] = "apply"
  /\ TakeEffect(key[c])
  /\ Goto(c, IF adapter.timeout THEN "transport" ELSE "observe") /\ Keep(c)
  /\ UNCHANGED <<ledgerVars, window, controlVars, audits, adapter, clock,
                 approvalVars, opVars>>

TransportEnds(c) ==
  /\ pc[c] = "apply"
  /\ TakeEffect(key[c])
  /\ Goto(c, "observe") /\ Keep(c)
  /\ UNCHANGED <<ledgerVars, window, controlVars, audits, adapter, clock,
                 approvalVars, opVars>>

-----------------------------------------------------------------------------
(* What a refused dispatch undoes, one transaction at a time.              *)

\* a release that finds its store unavailable leaves the window as it is
ReleaseOrFail(c) ==
  ReleaseWindow(key[c]) \/ (StorageFails /\ UNCHANGED window)

ReleaseRefusedWindow(c) ==
  /\ \/ /\ pc[c] = "release_window"
        /\ ReleaseOrFail(c) /\ Goto(c, "unreserve") /\ Keep(c)
     \/ /\ pc[c] = "audit_window"
        /\ \/ ReleaseWindow(key[c]) /\ Goto(c, "audit_block")
           \/ StorageFails /\ UNCHANGED window /\ Goto(c, "handler")
        /\ Keep(c)
     \/ /\ pc[c] = "handler"
        /\ ReleaseOrFail(c) /\ Return(c, "BLOCKED")
  /\ UNCHANGED <<ledgerVars, controlVars, audits, adapter, adapterVars, clock,
                 approvalVars, opVars>>

Unreserve(c) ==
  /\ pc[c] \in {"unreserve", "audit_unreserve"}
  /\ ReleaseApprovalReservation(bound[c], key[c])
  /\ Goto(c, IF pc[c] = "unreserve" THEN "block" ELSE "audit_window")
  /\ Keep(c)
  /\ UNCHANGED <<boundaryVars, opVars>>

\* finish_execution(BLOCKED); if the row is terminal already it raises, which
\* ends in the same handler, and _finish_audit_block swallows it
Block(c) ==
  /\ pc[c] \in {"block", "audit_block"}
  /\ \/ /\ pc[c] = "block"
        /\ Finish(key[c], "BLOCKED") /\ Goto(c, "handler") /\ Keep(c)
     \/ /\ pc[c] = "audit_block"
        /\ Finish(key[c], "BLOCKED") \/ (StorageFails /\ UNCHANGED ledgerVars)
        /\ Return(c, "BLOCKED")
  /\ UNCHANGED <<window, controlVars, audits, adapter, adapterVars, clock,
                 approvalVars, opVars>>

-----------------------------------------------------------------------------
(* After the write, after a timeout and in reconcile: read back, record,   *)
(* settle the window.                                                      *)

\* mutant: an execution still RESERVED is not taken up
ReconcileInFlightOnly(c, p) ==
  /\ pc[c] = "idle"
  /\ MayWorkOn(p)
  /\ status[p] # "NONE"
  /\ IF status[p] = "IN_FLIGHT"
       THEN StartCall(c, p, "reconcile", "observe")
       ELSE AnswerAtOnce(p, "reconcile",
              IF status[p] \in Completed THEN "ALREADY_PROCESSED"
                                         ELSE status[p])
  /\ UNCHANGED <<boundaryVars, approvalVars, opVars>>

Reconcile(c, p) ==
  /\ pc[c] = "idle"
  /\ MayWorkOn(p)
  /\ status[p] # "NONE"
  /\ IF status[p] \in Active
       THEN StartCall(c, p, "reconcile", "observe")
       ELSE AnswerAtOnce(p, "reconcile",
              IF status[p] \in Completed THEN "ALREADY_PROCESSED"
                                         ELSE status[p])
  /\ UNCHANGED <<boundaryVars, approvalVars, opVars>>

Observe(c) ==
  /\ pc[c] = "observe"
  /\ seen' = [seen EXCEPT ![c] = Classify(key[c], Readback(key[c]))]
  /\ Goto(c, "finish")
  /\ UNCHANGED <<mode, key, bound, at>>
  /\ UNCHANGED <<boundaryVars, approvalVars, opVars>>

\* a ControlRejected of execute goes through its handler, one of reconcile
\* becomes the answer
Raise(c) ==
  IF mode[c] = "execute" THEN Goto(c, "handler") /\ Keep(c)
                         ELSE Return(c, "BLOCKED")

FinishExecution(c) ==
  /\ pc[c] = "finish"
  /\ IF FinishAccepted(key[c], seen[c])
       THEN Finish(key[c], seen[c]) /\ Goto(c, "settle") /\ Keep(c)
       ELSE UNCHANGED ledgerVars /\ Raise(c)
  /\ UNCHANGED <<window, controlVars, audits, adapter, adapterVars, clock,
                 approvalVars, opVars>>

SettleWindow(c) ==
  /\ pc[c] = "settle"
  /\ LET p == key[c] IN
     \/ /\ seen[c] = "APPLIED" /\ HoldsWindow(p)
        /\ ActivateWindow(p) /\ Return(c, seen[c])
     \/ /\ \/ seen[c] = "APPLIED" /\ ~HoldsWindow(p)
           \/ seen[c] \in {"APPLIED", "FAILED"} /\ StorageFails
        /\ UNCHANGED window /\ Raise(c)
     \/ /\ seen[c] = "FAILED"
        /\ ReleaseWindow(p) /\ Return(c, seen[c])
     \/ /\ seen[c] = "UNKNOWN_RESULT"
        /\ UNCHANGED window /\ Return(c, seen[c])
  /\ UNCHANGED <<ledgerVars, controlVars, audits, adapter, adapterVars, clock,
                 approvalVars, opVars>>

-----------------------------------------------------------------------------
(* Faults.  A crash loses the call, and a write in flight takes effect or  *)
(* not.  A storage error ends execute with what the ledger then shows of   *)
(* its key, and ends reconcile without an answer.                          *)
Crash(c) ==
  /\ "crash" \in Faults
  /\ pc[c] # "idle"
  /\ Return(c, "NONE")
  /\ \/ pc[c] = "apply" /\ TakeEffect(key[c])
     \/ UNCHANGED adapterVars
  /\ UNCHANGED <<ledgerVars, window, controlVars, audits, adapter, clock,
                 approvalVars, opVars>>

StorageError(c) ==
  /\ StorageFails
  /\ pc[c] \in {"evaluate", "read_before", "post_commit", "final_check",
               "immediate", "unreserve", "audit_unreserve", "block", "finish"}
              \cup NoChangePoints
  /\ IF pc[c] = "final_check" THEN ReleaseWindow(key[c]) ELSE UNCHANGED window
  /\ \/ mode[c] = "reconcile" /\ Return(c, "NONE")
     \/ mode[c] = "execute" /\ Return(c, "BLOCKED")
     \/ /\ mode[c] = "execute" /\ status[key[c]] = "IN_FLIGHT"
        /\ Return(c, "UNKNOWN_RESULT")
  /\ UNCHANGED <<ledgerVars, controlVars, audits, adapter, adapterVars, clock,
                 approvalVars, opVars>>

-----------------------------------------------------------------------------
(* The approver, the incident principal and time.                          *)
GrantApproval(a, p, expires) ==
  /\ grants[a] = NotGranted
  /\ expires > clock
  /\ grants' = [grants EXCEPT ![a] =
       [proposal |-> p, granted |-> clock, expires |-> expires]]
  /\ UNCHANGED <<reservedFor, used, revoked>>
  /\ UNCHANGED <<boundaryVars, callVars, opVars>>
  /\ answer' = NoAnswer

\* mutant: a used approval can be revoked
RevokeUsedApproval(a) ==
  /\ grants[a] # NotGranted
  /\ a \notin revoked
  /\ revoked' = revoked \cup {a}
  /\ UNCHANGED <<grants, reservedFor, used>>
  /\ UNCHANGED <<boundaryVars, callVars, opVars>>
  /\ answer' = NoAnswer

RevokeApproval(a) ==
  /\ grants[a] # NotGranted
  /\ a \notin used \cup revoked
  /\ revoked' = revoked \cup {a}
  /\ UNCHANGED <<grants, reservedFor, used>>
  /\ UNCHANGED <<boundaryVars, callVars, opVars>>
  /\ answer' = NoAnswer

EngageSidecar(o, s) ==
  /\ opPc[o] = "idle"
  /\ interrupts' = interrupts \cup {s}
  /\ opPc' = [opPc EXCEPT ![o] = "engage_main"]
  /\ opScope' = [opScope EXCEPT ![o] = {s}]
  /\ UNCHANGED <<ledgerVars, window, killSwitches, audits, adapter, adapterVars,
                 clock, approvalVars, callVars>>
  /\ answer' = NoAnswer

EngageMain(o) ==
  /\ opPc[o] = "engage_main"
  /\ killSwitches' = killSwitches \cup opScope[o]
  /\ opPc' = [opPc EXCEPT ![o] = "idle"]
  /\ opScope' = [opScope EXCEPT ![o] = {}]
  /\ UNCHANGED <<ledgerVars, window, interrupts, audits, adapter, adapterVars,
                 clock, approvalVars, callVars>>
  /\ answer' = NoAnswer

ReleaseMain(o, s) ==
  /\ opPc[o] = "idle"
  /\ killSwitches' = killSwitches \ {s}
  /\ opPc' = [opPc EXCEPT ![o] = "release_sidecar"]
  /\ opScope' = [opScope EXCEPT ![o] = {s}]
  /\ UNCHANGED <<ledgerVars, window, interrupts, audits, adapter, adapterVars,
                 clock, approvalVars, callVars>>
  /\ answer' = NoAnswer

ReleaseSidecar(o) ==
  /\ opPc[o] = "release_sidecar"
  /\ interrupts' = interrupts \ opScope[o]
  /\ opPc' = [opPc EXCEPT ![o] = "idle"]
  /\ opScope' = [opScope EXCEPT ![o] = {}]
  /\ UNCHANGED <<ledgerVars, window, killSwitches, audits, adapter, adapterVars,
                 clock, approvalVars, callVars>>
  /\ answer' = NoAnswer

OperatorCrash(o) ==
  /\ "crash" \in Faults
  /\ opPc[o] # "idle"
  /\ opPc' = [opPc EXCEPT ![o] = "idle"]
  /\ opScope' = [opScope EXCEPT ![o] = {}]
  /\ UNCHANGED <<boundaryVars, approvalVars, callVars>>
  /\ answer' = NoAnswer

TimePasses ==
  /\ Tick
  /\ UNCHANGED <<ledgerVars, window, controlVars, audits, adapter, adapterVars,
                 approvalVars, callVars, opVars>>
  /\ answer' = NoAnswer

-----------------------------------------------------------------------------
\* the steps a running call takes by itself
CallStep(c) ==
  \/ Evaluate(c) \/ ReadBefore(c)
  \/ ReserveNoChange(c) \/ BeginNoChange(c) \/ ReleaseNoChange(c)
  \/ FinishNoChange(c)
  \/ SendTransaction(c) \/ PostCommitCheck(c) \/ AuthorizeAudit(c)
  \/ ReserveDispatchWindow(c) \/ FinalCheck(c) \/ ImmediateCheck(c)
  \/ ConsumeGate(c) \/ ConsumeApproval(c) \/ Transport(c) \/ TransportEnds(c)
  \/ ReleaseRefusedWindow(c) \/ Unreserve(c) \/ Block(c)
  \/ Observe(c) \/ FinishExecution(c) \/ SettleWindow(c)

Next ==
  \/ \E c \in Callers :
       \/ \E p \in Proposals : Execute(c, p) \/ Reconcile(c, p)
       \/ CallStep(c)
       \/ Crash(c)
       \/ StorageError(c)
  \/ \E a \in Approvals :
       \/ \E p \in Proposals, e \in 1..(MaxClock + 1) : GrantApproval(a, p, e)
       \/ RevokeApproval(a)
  \/ \E o \in Operators :
       \/ \E s \in Scopes : EngageSidecar(o, s) \/ ReleaseMain(o, s)
       \/ EngageMain(o) \/ ReleaseSidecar(o) \/ OperatorCrash(o)
  \/ TimePasses

Spec == Init /\ [][Next]_vars

-----------------------------------------------------------------------------
(* Properties.                                                             *)

\* At most one execution is RESERVED, IN_FLIGHT or UNKNOWN_RESULT: an
\* unresolved write blocks every other one, whoever the callers are and
\* whatever crashes (control_state.py reserve_execution and send_once).
OneUnresolved ==
  \A p, q \in Proposals :
    status[p] \in Unresolved /\ status[q] \in Unresolved => p = q

\* A key reaches the transport at most once in its life, across duplicate
\* calls, crashes, restarts and reconciliation: no blind retry.
AtMostOneWrite == \A p \in Proposals : writes[p] <= 1

\* Every write, and every call about to write, is backed by an approval granted
\* for exactly this proposal, consumed for exactly this key and not revoked.
Backs(a, p) ==
  grants[a].proposal = p /\ reservedFor[a] = p /\ a \in used \ revoked
WriteIsAuthorised ==
  \A p \in Proposals :
    (writes[p] > 0 \/ \E c \in Callers : pc[c] = "transport" /\ key[c] = p) =>
      \E a \in Approvals : Backs(a, p)

\* An IN_PROGRESS window belongs to an execution that is still open, or to a
\* call that is about to settle or release it: it is never stranded.
WindowFollowsLedger ==
  \A p \in Proposals :
    HoldsWindow(p) => \/ status[p] \in {"IN_FLIGHT", "UNKNOWN_RESULT"}
                      \/ \E c \in Callers : pc[c] # "idle" /\ key[c] = p

\* Without crashes and adapter timeouts a key that was written is never
\* recorded as BLOCKED or FAILED.
WritesAreRecorded ==
  \A p \in Proposals :
    writes[p] > 0 /\ status[p] \in {"BLOCKED", "FAILED"} => adapter.timeout

\* A terminal execution is immutable: no call, retry or reconciliation rewrites
\* it (finish_execution, "terminal execution state is immutable").
TerminalIsFinal ==
  [][\A p \in Proposals : status[p] \in Terminal => status'[p] = status[p]]_vars

\* No command reaches the transport within the quiet window of an earlier
\* applied write of another key.
QuietWindowKept ==
  [][\A p, q \in Proposals :
       /\ p # q /\ writes'[p] # writes[p]
       /\ writes[q] > 0 /\ status[q] = "APPLIED"
       => clock >= updatedAt[q] + Window]_vars

\* execute never answers BLOCKED for a key the ledger holds as APPLIED.
BlockedMeansNotApplied ==
  answer.mode = "execute" /\ answer.status = "BLOCKED" =>
    status[answer.key] # "APPLIED"

\* Calls of one key that do not overlap keep the ledger, the write window and
\* the answers consistent with each other.
LedgerIsTruthful ==
  WindowFollowsLedger /\ WritesAreRecorded /\ BlockedMeansNotApplied

\* The ledger as the abstract single writer sees it.
Writer == INSTANCE SingleWriter WITH
  Keys <- Proposals,
  phase <- [p \in Proposals |->
              CASE status[p] = "NONE"         -> "new"
                [] status[p] \in Unresolved   -> "open"
                [] OTHER                      -> "closed"],
  sent <- {p \in Proposals : writes[p] > 0}

\* Calls that never overlap on a key implement the single writer: what is
\* written is written once, while its key and no other is open.
ImplementsSingleWriter == Writer!SWSpec

-----------------------------------------------------------------------------
(* Liveness.  A running call is a thread that nothing suspends; the        *)
(* recovery of an orphaned execution is an operator's decision to run      *)
(* reconcile, repeated until one of them is not hit by a crash.            *)
CallFairness == \A c \in Callers : WF_vars(CallStep(c))
RecoveryFairness ==
  /\ \A p \in Proposals :
       SF_vars(\E c \in Callers : status[p] \in Active /\ Reconcile(c, p))
  /\ \A c \in Callers : SF_vars(Observe(c)) /\ SF_vars(FinishExecution(c))
RecoverySpec == Spec /\ CallFairness /\ RecoveryFairness

\* With crashes, an execution left RESERVED or IN_FLIGHT is brought to a
\* terminal status by reconciliation, without a second write.
OpenExecutionsResolve ==
  \A p \in Proposals : status[p] \in Active ~> status[p] \in Terminal
=============================================================================
