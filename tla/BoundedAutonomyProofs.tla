------------------------ MODULE BoundedAutonomyProofs ------------------------
(***************************************************************************)
(* Theorems about BoundedAutonomy, for every set of calls, proposals,      *)
(* mandates and sessions, every limit, exposure and length of the day,     *)
(* with overlapping calls, crashes, storage errors, drift of the account   *)
(* and revocations allowed.                                                *)
(***************************************************************************)
EXTENDS BoundedAutonomy, FiniteSetTheorems, WellFoundedInduction, TLAPS

-----------------------------------------------------------------------------
(* Types.                                                                  *)

\* the way of send_once from the committed IN_FLIGHT row to the transport
SendPoints == {"require_committed", "audit", "reserve_window", "final_check",
               "require_final", "immediate", "require_immediate", "transport"}
\* where a call still needs the mandate of its request
MandatePoints == SendPoints \cup
  {"prepare", "read_before", "reserve", "finish_no_change", "send"}
Points == MandatePoints \cup Handling \cup
  {"idle", "apply", "observe", "finish", "settle", "recheck", "record_recheck"}
Means == {"APPLIED", "FAILED", "UNKNOWN_RESULT"}

CallTypeOK ==
  /\ pc \in [Callers -> Points]
  /\ key \in [Callers -> Proposals \cup {NoKey}]
  /\ mandate \in [Callers -> Mandates \cup {NoMandate}]
  /\ seen \in [Callers -> {"NONE", "NO_CHANGE"} \cup Means]
  /\ \A c \in Callers :
       /\ pc[c] # "idle" => key[c] \in Proposals
       /\ pc[c] \in MandatePoints => mandate[c] \in Mandates
       /\ pc[c] \in {"finish", "settle"} => seen[c] \in Means
       /\ pc[c] = "record_recheck" => seen[c] \in {"APPLIED", "UNKNOWN_RESULT"}

RowTypeOK ==
  /\ status \in [Proposals -> Statuses \cup {"NONE"}]
  /\ writes \in [Proposals -> Nat]
  /\ charged \in [Proposals -> Mandates \cup {NoMandate}]
  /\ chargedAt \in [Proposals -> Nat]
  /\ clock \in Nat
  /\ \A p \in Proposals : chargedAt[p] <= clock
  /\ \A p \in Proposals : charged[p] # NoMandate => status[p] # "NONE"

TypeOK == CallTypeOK /\ RowTypeOK

LEMMA TypeInit == Init => TypeOK
BY DEF Init, BoundaryInit, TypeOK, CallTypeOK, RowTypeOK, Points, MandatePoints,
       SendPoints, Handling, Means

\* A return clears the locals of its call.
LEMMA ReturnTyped ==
  ASSUME CallTypeOK, NEW c \in Callers, Return(c)
  PROVE  CallTypeOK'
BY DEF CallTypeOK, Return, Points, MandatePoints, SendPoints

\* A jump keeps its call's locals, so it reaches a point that needs them only
\* from one where they are known.
LEMMA GotoTyped ==
  ASSUME CallTypeOK, NEW c \in Callers, pc[c] # "idle",
         NEW point \in Points, point # "record_recheck",
         point \in MandatePoints => mandate[c] \in Mandates,
         point \in {"finish", "settle"} => seen[c] \in Means,
         pc' = [pc EXCEPT ![c] = point], UNCHANGED <<key, mandate, seen>>
  PROVE  CallTypeOK'
BY DEF CallTypeOK

LEMMA StartTyped ==
  ASSUME CallTypeOK, NEW c \in Callers, NEW p \in Proposals,
         NEW m \in Mandates \cup {NoMandate}, NEW md,
         NEW point \in {"prepare", "observe", "recheck"},
         point = "prepare" => m \in Mandates, Start(c, p, m, md, point)
  PROVE  CallTypeOK'
BY DEF CallTypeOK, Start, Points, MandatePoints, SendPoints

LEMMA CallTypeNext == CallTypeOK /\ [Next]_vars => CallTypeOK'
<1> SUFFICES ASSUME CallTypeOK, [Next]_vars PROVE CallTypeOK'
  OBVIOUS
<1> USE DEF Goto, callVars
<1>1. ASSUME NEW c \in Callers, NEW p \in Proposals, NEW m \in Mandates,
             Execute(c, p, m) \/ Recheck(c, p, m)
      PROVE  CallTypeOK'
  BY <1>1, StartTyped DEF Execute, Recheck
<1>2. ASSUME NEW c \in Callers, NEW p \in Proposals, Reconcile(c, p)
      PROVE  CallTypeOK'
  BY <1>2, StartTyped, SMTT(30) DEF Reconcile
<1>3. ASSUME NEW c \in Callers,
             \/ Prepare(c) \/ RequireDispatchAllowed(c) \/ AuthorizeAudit(c)
             \/ ReserveDispatchWindow(c) \/ RevalidateDispatch(c)
             \/ Transport(c) \/ TransportEnds(c)
      PROVE  CallTypeOK'
  BY <1>3, GotoTyped, SMTT(30)
  DEF CallTypeOK, Prepare, RequireDispatchAllowed, AuthorizeAudit,
      ReserveDispatchWindow, RevalidateDispatch, Transport, TransportEnds,
      Points, MandatePoints, SendPoints, Handling
<1>4. ASSUME NEW c \in Callers,
             \/ ReserveExecution(c) \/ FinishNoChange(c) \/ SendTransaction(c)
             \/ FinishExecution(c) \/ SettleWindow(c) \/ ReleaseRefusedWindow(c)
             \/ FinishActiveAsBlocked(c) \/ RecordRecheck(c)
             \/ Crash(c) \/ StorageError(c)
      PROVE  CallTypeOK'
  BY <1>4, GotoTyped, ReturnTyped, SMTT(30)
  DEF CallTypeOK, ReserveExecution, FinishNoChange, SendTransaction,
      FinishExecution, SettleWindow, ReleaseRefusedWindow, FinishActiveAsBlocked,
      RecordRecheck, Crash, StorageError, Points, MandatePoints, SendPoints,
      Handling
<1>5. ASSUME NEW c \in Callers, ReadBefore(c) \/ Observe(c) \/ RecheckRead(c)
      PROVE  CallTypeOK'
  <2>1. ASSUME NEW v PROVE Classify(key[c], v) \in Means
    BY DEF Classify, Means
  <2> QED
    BY <1>5, <2>1, GotoTyped, ReturnTyped
    DEF CallTypeOK, ReadBefore, Observe, RecheckRead, Points, MandatePoints,
        SendPoints, Handling, Means
<1>6. ASSUME \/ \E m \in Mandates :
                  Issue(m) \/ Activate(m) \/ InterruptMandate(m) \/ Revoke(m)
             \/ \E s \in Scopes : KillSwitch(s)
             \/ \E t \in Targets : Drift(t)
             \/ TimePasses \/ UNCHANGED vars
      PROVE  CallTypeOK'
  BY <1>6
  DEF CallTypeOK, Issue, Activate, InterruptMandate, Revoke, KillSwitch, Drift,
      TimePasses, vars
<1> QED
  BY <1>1, <1>2, <1>3, <1>4, <1>5, <1>6 DEF Next, CallStep

-----------------------------------------------------------------------------
(* The ledger.  Only a call at one of these points writes a row, only the  *)
(* row of its own key, and only along the arrows of ExecutionStatus; the   *)
(* transaction that inserts a row charges its mandate.                     *)
LedgerPoints == {"reserve", "finish_no_change", "send", "finish", "handler",
                 "quiet_handler", "record_recheck"}

OpenMove(c) ==
  /\ status[key[c]] = "NONE" /\ ~OtherActive
  /\ status' = [status EXCEPT ![key[c]] = "RESERVED"]
  /\ QuotaLeft(mandate[c], key[c]) /\ mandate[c] \in Mandates
  /\ charged' = [charged EXCEPT ![key[c]] = mandate[c]]
  /\ chargedAt' = [chargedAt EXCEPT ![key[c]] = clock]
StartMove(c) ==
  /\ status[key[c]] = "RESERVED"
  /\ status' = [status EXCEPT ![key[c]] = "IN_FLIGHT"]
  /\ pc' = [pc EXCEPT ![c] = "require_committed"] /\ UNCHANGED key
CloseMove(c) ==
  /\ status[key[c]] \in Active
  /\ \E s \in Terminal : status' = [status EXCEPT ![key[c]] = s]
RecheckMove(c) ==
  /\ status[key[c]] \in {"BLOCKED", "FAILED"}
  /\ \E s \in {"APPLIED", "UNKNOWN_RESULT"} :
       status' = [status EXCEPT ![key[c]] = s]

LedgerMove(c) ==
  /\ pc[c] \in LedgerPoints /\ key[c] \in Proposals
  /\ UNCHANGED <<writes, clock>>
  /\ \/ OpenMove(c)
     \/ StartMove(c) /\ UNCHANGED chargeVars
     \/ CloseMove(c) /\ UNCHANGED chargeVars
     \/ RecheckMove(c) /\ UNCHANGED chargeVars

LedgerStep ==
  \/ UNCHANGED <<status, chargeVars>>
  \/ \E c \in Callers : LedgerMove(c)

LEMMA LedgerMoves == CallTypeOK /\ [Next]_vars => LedgerStep
<1> SUFFICES ASSUME CallTypeOK, [Next]_vars PROVE LedgerStep
  OBVIOUS
<1> USE DEF CallTypeOK, boundaryVars, ledgerVars, chargeVars, adapterVars
<1>1. ASSUME NEW c \in Callers,
             \/ Prepare(c) \/ ReadBefore(c) \/ RequireDispatchAllowed(c)
             \/ AuthorizeAudit(c) \/ ReserveDispatchWindow(c)
             \/ RevalidateDispatch(c) \/ Transport(c) \/ TransportEnds(c)
             \/ Observe(c) \/ SettleWindow(c) \/ ReleaseRefusedWindow(c)
             \/ RecheckRead(c) \/ Crash(c) \/ StorageError(c)
             \/ \E p \in Proposals :
                  \/ \E m \in Mandates : Execute(c, p, m) \/ Recheck(c, p, m)
                  \/ Reconcile(c, p)
      PROVE  UNCHANGED <<status, chargeVars>>
  BY <1>1
  DEF Prepare, ReadBefore, RequireDispatchAllowed, AuthorizeAudit,
      ReserveDispatchWindow, RevalidateDispatch, Transport, TransportEnds,
      Observe, SettleWindow, ReleaseRefusedWindow, RecheckRead, Crash,
      StorageError, Execute, Recheck, Reconcile, Start
<1>2. ASSUME \/ \E m \in Mandates :
                  Issue(m) \/ Activate(m) \/ InterruptMandate(m) \/ Revoke(m)
             \/ \E s \in Scopes : KillSwitch(s)
             \/ \E t \in Targets : Drift(t)
             \/ TimePasses \/ UNCHANGED vars
      PROVE  UNCHANGED <<status, chargeVars>>
  BY <1>2
  DEF Issue, Activate, InterruptMandate, Revoke, KillSwitch, Drift, TimePasses, vars
<1>3. ASSUME NEW c \in Callers, ReserveExecution(c) PROVE LedgerStep
  <2>1. pc[c] = "reserve" /\ key[c] \in Proposals /\ mandate[c] \in Mandates
    BY <1>3 DEF ReserveExecution, MandatePoints
  <2>2. CASE UNCHANGED <<ledgerVars, chargeVars>>
    BY <2>2 DEF LedgerStep
  <2>3. CASE ~UNCHANGED <<ledgerVars, chargeVars>>
    <3>1. OpenMove(c) /\ UNCHANGED <<writes, clock>>
      BY <1>3, <2>1, <2>3 DEF ReserveExecution, SetStatus, OpenMove
    <3> QED
      BY <2>1, <3>1 DEF LedgerStep, LedgerMove, LedgerPoints
  <2> QED
    BY <2>2, <2>3
<1>4. ASSUME NEW c \in Callers, FinishNoChange(c) PROVE LedgerStep
  BY <1>4
  DEF FinishNoChange, Finish, SetStatus, LedgerStep, LedgerMove, CloseMove,
      LedgerPoints, Terminal, Completed
<1>5. ASSUME NEW c \in Callers, SendTransaction(c) PROVE LedgerStep
  BY <1>5
  DEF SendTransaction, SetStatus, LedgerStep, LedgerMove, StartMove, LedgerPoints
<1>6. ASSUME NEW c \in Callers, FinishExecution(c) PROVE LedgerStep
  BY <1>6
  DEF FinishExecution, Finish, SetStatus, LedgerStep, LedgerMove, CloseMove,
      LedgerPoints, Terminal, Completed, Means
<1>7. ASSUME NEW c \in Callers, FinishActiveAsBlocked(c) PROVE LedgerStep
  BY <1>7
  DEF FinishActiveAsBlocked, Finish, SetStatus, LedgerStep, LedgerMove,
      CloseMove, LedgerPoints, Terminal, Completed
<1>8. ASSUME NEW c \in Callers, RecordRecheck(c) PROVE LedgerStep
  BY <1>8
  DEF RecordRecheck, SetStatus, LedgerStep, LedgerMove, RecheckMove, LedgerPoints
<1> QED
  BY <1>1, <1>2, <1>3, <1>4, <1>5, <1>6, <1>7, <1>8 DEF Next, CallStep, LedgerStep

\* No call enters the way to the transport, and none on it changes its key.
NoNewSender ==
  \A c \in Callers : pc'[c] \in SendPoints =>
    pc[c] \in SendPoints /\ key'[c] = key[c]

LEMMA CallsMove ==
  ASSUME CallTypeOK, [Next]_vars
  PROVE  /\ NoNewSender \/ \E c \in Callers : SendTransaction(c)
         /\ UNCHANGED writes \/ \E c \in Callers : Transport(c)
         /\ UNCHANGED clock \/ TimePasses
<1> USE DEF CallTypeOK, boundaryVars, adapterVars, callVars, NoNewSender,
        SendPoints, Goto, Return
<1>1. ASSUME NEW c \in Callers,
             \/ RequireDispatchAllowed(c) \/ AuthorizeAudit(c)
             \/ ReserveDispatchWindow(c) \/ RevalidateDispatch(c)
      PROVE  NoNewSender /\ UNCHANGED <<writes, clock>>
  BY <1>1
  DEF RequireDispatchAllowed, AuthorizeAudit, ReserveDispatchWindow,
      RevalidateDispatch
<1>2. ASSUME NEW c \in Callers,
             \/ Prepare(c) \/ ReadBefore(c) \/ ReserveExecution(c)
             \/ FinishNoChange(c) \/ Observe(c) \/ FinishExecution(c)
             \/ SettleWindow(c) \/ ReleaseRefusedWindow(c)
             \/ FinishActiveAsBlocked(c) \/ RecheckRead(c) \/ RecordRecheck(c)
             \/ StorageError(c)
      PROVE  NoNewSender /\ UNCHANGED <<writes, clock>>
  BY <1>2
  DEF Prepare, ReadBefore, ReserveExecution, FinishNoChange, Observe,
      FinishExecution, SettleWindow, ReleaseRefusedWindow,
      FinishActiveAsBlocked, RecheckRead, RecordRecheck, StorageError
<1>3. ASSUME NEW c \in Callers, TransportEnds(c) \/ Crash(c)
      PROVE  NoNewSender /\ UNCHANGED <<writes, clock>>
  BY <1>3 DEF TransportEnds, Crash, TakeEffect
<1>4. ASSUME NEW c \in Callers, NEW p \in Proposals,
             \/ \E m \in Mandates : Execute(c, p, m) \/ Recheck(c, p, m)
             \/ Reconcile(c, p)
      PROVE  NoNewSender /\ UNCHANGED <<writes, clock>>
  BY <1>4 DEF Execute, Recheck, Reconcile, Start
<1>5. ASSUME NEW c \in Callers, Transport(c)
      PROVE  NoNewSender /\ UNCHANGED clock
  BY <1>5 DEF Transport
<1>6. ASSUME NEW c \in Callers, SendTransaction(c)
      PROVE  UNCHANGED <<writes, clock>>
  BY <1>6 DEF SendTransaction
<1>7. ASSUME \/ \E m \in Mandates :
                  Issue(m) \/ Activate(m) \/ InterruptMandate(m) \/ Revoke(m)
             \/ \E s \in Scopes : KillSwitch(s)
             \/ \E t \in Targets : Drift(t)
             \/ UNCHANGED vars
      PROVE  NoNewSender /\ UNCHANGED <<writes, clock>>
  BY <1>7
  DEF Issue, Activate, InterruptMandate, Revoke, KillSwitch, Drift, vars
<1>8. CASE TimePasses
  BY <1>8 DEF TimePasses
<1> QED
  BY <1>1, <1>2, <1>3, <1>4, <1>5, <1>6, <1>7, <1>8 DEF Next, CallStep

LEMMA TypeNext == TypeOK /\ [Next]_vars => TypeOK'
<1> SUFFICES ASSUME TypeOK, [Next]_vars PROVE TypeOK'
  OBVIOUS
<1>1. CallTypeOK'
  BY CallTypeNext DEF TypeOK
<1>2. writes' \in [Proposals -> Nat]
  <2>1. ASSUME NEW c \in Callers, Transport(c) PROVE writes' \in [Proposals -> Nat]
    <3>1. key[c] \in Proposals /\ writes' = [writes EXCEPT ![key[c]] = @ + 1]
      BY <2>1 DEF Transport, CountWrite, TypeOK, CallTypeOK
    <3> QED
      BY <3>1 DEF TypeOK, RowTypeOK
  <2> QED
    BY <2>1, CallsMove DEF TypeOK, RowTypeOK
<1>3. clock' \in Nat /\ clock' >= clock
  BY CallsMove DEF TypeOK, RowTypeOK, TimePasses, Tick
<1>4. CASE UNCHANGED <<status, chargeVars>>
  BY <1>1, <1>2, <1>3, <1>4 DEF TypeOK, RowTypeOK, chargeVars
<1>5. ASSUME NEW c \in Callers, LedgerMove(c) PROVE TypeOK'
  BY <1>1, <1>2, <1>3, <1>5
  DEF TypeOK, RowTypeOK, chargeVars, LedgerMove, OpenMove, StartMove, CloseMove,
      RecheckMove, Statuses, Active, Terminal, Completed
<1> QED
  BY <1>4, <1>5, LedgerMoves DEF TypeOK, LedgerStep

\* Ledger, charges and calls keep their types: in particular a charge lies in
\* the past and belongs to a key with a row.
THEOREM TypeCorrect == Spec => []TypeOK
BY TypeInit, TypeNext, PTL DEF Spec

\* A confirmed or unknown result is never rewritten, and a blocked or failed
\* one only to APPLIED or UNKNOWN_RESULT.
THEOREM OnlyRecheckRewritesHolds == Spec => OnlyRecheckRewrites
<1>1. TypeOK /\ [Next]_vars =>
        \A p \in Proposals :
          status[p] \in Terminal /\ status'[p] # status[p] =>
            /\ status[p] \in {"BLOCKED", "FAILED"}
            /\ status'[p] \in {"APPLIED", "UNKNOWN_RESULT"}
  BY LedgerMoves
  DEF TypeOK, RowTypeOK, LedgerStep, LedgerMove, OpenMove, StartMove, CloseMove,
      RecheckMove, Terminal, Completed, Active
<1> QED
  BY <1>1, TypeCorrect, PTL DEF Spec, OnlyRecheckRewrites

-----------------------------------------------------------------------------
(* One write per key.  A call reaches the transport only along send_once,  *)
(* behind the transaction that moves its row from RESERVED to IN_FLIGHT;   *)
(* no row returns to RESERVED, so one call per key is ever on that way,    *)
(* and it has not written yet.                                             *)
OneSender ==
  /\ \A p \in Proposals : status[p] \in {"NONE", "RESERVED"} => writes[p] = 0
  /\ \A c \in Callers : pc[c] \in SendPoints =>
       status[key[c]] \notin {"NONE", "RESERVED"} /\ writes[key[c]] = 0
  /\ \A c, d \in Callers :
       /\ pc[c] \in SendPoints /\ pc[d] \in SendPoints
       /\ key[c] = key[d]
       => c = d

LEMMA OneSenderInit == Init => OneSender /\ AtMostOneWrite
BY DEF Init, BoundaryInit, OneSender, AtMostOneWrite, SendPoints

\* A row that left RESERVED, or never was there, does not come back to it.
LEMMA NeverReservedAgain ==
  ASSUME TypeOK, [Next]_vars, NEW p \in Proposals,
         status'[p] \in {"NONE", "RESERVED"}
  PROVE  status[p] \in {"NONE", "RESERVED"}
BY LedgerMoves
DEF TypeOK, RowTypeOK, LedgerStep, LedgerMove, OpenMove, StartMove, CloseMove,
    RecheckMove, Terminal, Completed

LEMMA OneSenderNext ==
  TypeOK /\ OneSender /\ AtMostOneWrite /\ [Next]_vars
    => OneSender' /\ AtMostOneWrite'
<1> SUFFICES ASSUME TypeOK, OneSender, AtMostOneWrite, [Next]_vars
             PROVE  OneSender' /\ AtMostOneWrite'
  OBVIOUS
<1> USE DEF TypeOK, RowTypeOK, CallTypeOK
<1>1. \A c \in Callers : pc[c] \in SendPoints => key[c] \in Proposals
  BY DEF SendPoints
<1>2. CASE NoNewSender /\ UNCHANGED writes
  BY <1>1, <1>2, NeverReservedAgain DEF OneSender, NoNewSender, AtMostOneWrite
<1>3. ASSUME NEW c \in Callers, SendTransaction(c)
      PROVE  OneSender' /\ AtMostOneWrite'
  <2>1. \/ /\ pc' = [pc EXCEPT ![c] = "require_committed"]
           /\ UNCHANGED <<key, writes>> /\ key[c] \in Proposals
           /\ status[key[c]] = "RESERVED" /\ status'[key[c]] = "IN_FLIGHT"
        \/ NoNewSender /\ UNCHANGED writes
    BY <1>3
    DEF SendTransaction, SetStatus, Goto, Return, NoNewSender, SendPoints,
        adapterVars
  <2>2. CASE NoNewSender /\ UNCHANGED writes
    BY <1>2, <2>2
  <2>3. CASE /\ pc' = [pc EXCEPT ![c] = "require_committed"]
             /\ UNCHANGED <<key, writes>> /\ key[c] \in Proposals
             /\ status[key[c]] = "RESERVED" /\ status'[key[c]] = "IN_FLIGHT"
    BY <1>1, <2>3, NeverReservedAgain DEF OneSender, AtMostOneWrite, SendPoints
  <2> QED
    BY <2>1, <2>2, <2>3
<1>4. ASSUME NEW c \in Callers, Transport(c)
      PROVE  OneSender' /\ AtMostOneWrite'
  <2>1. /\ pc[c] = "transport" /\ pc' = [pc EXCEPT ![c] = "apply"]
        /\ key[c] \in Proposals /\ UNCHANGED <<key, status>>
        /\ writes' = [writes EXCEPT ![key[c]] = @ + 1]
    BY <1>4 DEF Transport, CountWrite, Goto, ledgerVars
  <2> QED
    BY <1>1, <2>1 DEF OneSender, AtMostOneWrite, SendPoints
<1> QED
  BY <1>2, <1>3, <1>4, CallsMove

\* A key reaches the transport at most once in its life, across overlapping
\* duplicates, crashes, storage errors, rechecks and reconciliations.
THEOREM AtMostOneWriteHolds == Spec => []AtMostOneWrite
BY OneSenderInit, OneSenderNext, TypeCorrect, PTL DEF Spec

-----------------------------------------------------------------------------
(* Refinement.  Where a session lets one call at a time work on a key, the *)
(* row of a call on its way to the transport is still IN_FLIGHT, since     *)
(* only that call could close it; so the write falls while the key is open *)
Exclusive ==
  session.exclusive =>
  /\ \A c, d \in Callers :
       pc[c] # "idle" /\ pc[d] # "idle" /\ key[c] = key[d] => c = d
  /\ \A c \in Callers : pc[c] \in SendPoints => status[key[c]] = "IN_FLIGHT"

\* No call begins, and none that runs changes its key.
NoNewCall ==
  \A c \in Callers : pc'[c] # "idle" => pc[c] # "idle" /\ key'[c] = key[c]

LEMMA CallsBegin ==
  ASSUME CallTypeOK, [Next]_vars
  PROVE  \/ NoNewCall
         \/ \E c \in Callers, p \in Proposals :
              /\ pc[c] = "idle" /\ MayWorkOn(p)
              /\ \E point \in {"prepare", "observe", "recheck"} :
                   pc' = [pc EXCEPT ![c] = point]
              /\ key' = [key EXCEPT ![c] = p]
<1> USE DEF CallTypeOK, callVars, NoNewCall, Goto, Return
<1>1. ASSUME NEW c \in Callers,
             \/ Prepare(c) \/ ReadBefore(c) \/ ReserveExecution(c)
             \/ FinishNoChange(c) \/ SendTransaction(c)
             \/ RequireDispatchAllowed(c) \/ AuthorizeAudit(c)
             \/ ReserveDispatchWindow(c) \/ RevalidateDispatch(c)
      PROVE  NoNewCall
  BY <1>1
  DEF Prepare, ReadBefore, ReserveExecution, FinishNoChange, SendTransaction,
      RequireDispatchAllowed, AuthorizeAudit, ReserveDispatchWindow,
      RevalidateDispatch
<1>2. ASSUME NEW c \in Callers,
             \/ Transport(c) \/ TransportEnds(c) \/ Observe(c)
             \/ FinishExecution(c) \/ SettleWindow(c)
             \/ ReleaseRefusedWindow(c) \/ FinishActiveAsBlocked(c)
             \/ RecheckRead(c) \/ RecordRecheck(c) \/ Crash(c)
             \/ StorageError(c)
      PROVE  NoNewCall
  BY <1>2
  DEF Transport, TransportEnds, Observe, FinishExecution, SettleWindow,
      ReleaseRefusedWindow, FinishActiveAsBlocked, RecheckRead, RecordRecheck,
      Crash, StorageError
<1>3. ASSUME \/ \E m \in Mandates :
                  Issue(m) \/ Activate(m) \/ InterruptMandate(m) \/ Revoke(m)
             \/ \E s \in Scopes : KillSwitch(s)
             \/ \E t \in Targets : Drift(t)
             \/ TimePasses \/ UNCHANGED vars
      PROVE  NoNewCall
  BY <1>3
  DEF Issue, Activate, InterruptMandate, Revoke, KillSwitch, Drift, TimePasses, vars
<1>4. ASSUME NEW c \in Callers, NEW p \in Proposals,
             \/ \E m \in Mandates : Execute(c, p, m) \/ Recheck(c, p, m)
             \/ Reconcile(c, p)
      PROVE  /\ pc[c] = "idle" /\ MayWorkOn(p)
             /\ \E point \in {"prepare", "observe", "recheck"} :
                  pc' = [pc EXCEPT ![c] = point]
             /\ key' = [key EXCEPT ![c] = p]
  BY <1>4 DEF Execute, Recheck, Reconcile, Start
<1> QED
  BY <1>1, <1>2, <1>3, <1>4 DEF Next, CallStep

LEMMA ExclusiveInit == Init => Exclusive
BY DEF Init, Exclusive, SendPoints

LEMMA ExclusiveNext ==
  ASSUME TypeOK, Exclusive, [Next]_vars
  PROVE  Exclusive'
<1>1. UNCHANGED session
  BY DEF Next, vars
<1> SUFFICES ASSUME session.exclusive PROVE Exclusive'
  BY <1>1 DEF Exclusive
<1> USE DEF TypeOK, RowTypeOK, CallTypeOK
<1>2. ASSUME NEW c \in Callers, NEW d \in Callers,
             pc'[c] # "idle", pc'[d] # "idle", key'[c] = key'[d]
      PROVE  c = d
  <2>1. CASE NoNewCall
    BY <1>2, <2>1 DEF NoNewCall, Exclusive
  <2>2. CASE ~NoNewCall
    <3>1. PICK b \in Callers, p \in Proposals :
            /\ pc[b] = "idle" /\ MayWorkOn(p)
            /\ \E point \in {"prepare", "observe", "recheck"} :
                 pc' = [pc EXCEPT ![b] = point]
            /\ key' = [key EXCEPT ![b] = p]
      BY <2>2, CallsBegin
    <3>2. \A e \in Callers \ {b} : pc[e] # "idle" => key[e] # p
      BY <3>1 DEF MayWorkOn
    <3> QED
      BY <1>2, <3>1, <3>2 DEF Exclusive
  <2> QED
    BY <2>1, <2>2
<1>3. ASSUME NEW d \in Callers, pc'[d] \in SendPoints
      PROVE  status'[key'[d]] = "IN_FLIGHT"
  <2>1. CASE pc[d] \in SendPoints /\ key'[d] = key[d]
    <3>1. status[key[d]] = "IN_FLIGHT" /\ key[d] \in Proposals /\ pc[d] # "idle"
      BY <2>1 DEF Exclusive, SendPoints
    <3>2. ASSUME NEW c \in Callers, pc[c] \in LedgerPoints
          PROVE  key[c] # key[d]
      BY <2>1, <3>1, <3>2 DEF Exclusive, SendPoints, LedgerPoints
    <3> QED
      BY <2>1, <3>1, <3>2, LedgerMoves
      DEF LedgerStep, LedgerMove, OpenMove, StartMove, CloseMove, RecheckMove
  <2>2. ASSUME NEW c \in Callers, SendTransaction(c),
               ~(pc[d] \in SendPoints /\ key'[d] = key[d])
        PROVE  status'[key'[d]] = "IN_FLIGHT"
    BY <1>3, <2>2 DEF SendTransaction, SetStatus, Goto, Return, SendPoints
  <2> QED
    BY <1>3, <2>1, <2>2, CallsMove DEF NoNewSender
<1> QED
  BY <1>2, <1>3 DEF Exclusive

\* The values of the refinement mapping.
Phase == [p \in Proposals |->
            CASE ~session.exclusive \/ status[p] = "NONE"      -> "new"
              [] session.exclusive /\ status[p] \in Active -> "open"
              [] OTHER                                     -> "closed"]
Sent == {p \in Proposals : session.exclusive /\ writes[p] > 0}

LEMMA PhaseMoves ==
  ASSUME TypeOK, session.exclusive, UNCHANGED session,
         NEW p \in Proposals, NEW s \in Statuses,
         status' = [status EXCEPT ![p] = s]
  PROVE  Phase' = [Phase EXCEPT ![p] = IF s \in Active THEN "open" ELSE "closed"]
BY DEF TypeOK, RowTypeOK, Phase, Active, Statuses, Terminal, Completed

\* In an exclusive session the write path implements the single writer: one key
\* open at a time, opened once, written at most once and only while open; a
\* recheck never reopens one.
THEOREM ImplementsSingleWriterHolds == Spec => ImplementsSingleWriter
<1>1. Init => Writer!SWInit
  <2> SUFFICES ASSUME Init
               PROVE  Phase = [k \in Proposals |-> "new"] /\ Sent = {}
    BY DEF Writer!SWInit, Phase, Sent
  <2>1. \A p \in Proposals : status[p] = "NONE" /\ writes[p] = 0
    BY DEF Init, BoundaryInit
  <2>2. Phase = [k \in Proposals |-> "new"]
    BY <2>1 DEF Phase, Active
  <2>3. Sent = {}
    BY <2>1 DEF Sent
  <2> QED
    BY <2>2, <2>3
<1>2. TypeOK /\ OneSender /\ Exclusive /\ [Next]_vars
        => [Writer!SWNext]_(Writer!swVars)
  <2> SUFFICES ASSUME TypeOK, OneSender, Exclusive, [Next]_vars
               PROVE  [Writer!SWNext]_(Writer!swVars)
    OBVIOUS
  <2> USE DEF TypeOK, RowTypeOK, CallTypeOK
  <2>1. UNCHANGED session
    BY DEF Next, vars
  <2>2. CASE ~session.exclusive
    <3>1. Phase' = Phase /\ Sent' = Sent
      BY <2>1, <2>2 DEF Phase, Sent
    <3> QED
      BY <3>1 DEF Phase, Sent, Writer!swVars
  <2>3. CASE session.exclusive /\ UNCHANGED writes
    <3>1. Sent' = Sent
      BY <2>1, <2>3 DEF Sent
    <3>2. CASE UNCHANGED status
      <4>1. Phase' = Phase
        BY <2>1, <3>2 DEF Phase
      <4> QED
        BY <3>1, <4>1 DEF Phase, Sent, Writer!swVars
    <3>3. ASSUME NEW c \in Callers, LedgerMove(c), NEW k \in Proposals,
                 key[c] = k
          PROVE  Writer!Open(k) \/ Writer!Close(k) \/ Phase' = Phase
      <4>1. key[c] \in Proposals
        BY <3>3
      <4>2. Phase \in [Proposals -> {"new", "open", "closed"}]
        BY DEF Phase
      <4>3. CASE OpenMove(c)
        <5>1. Phase[key[c]] = "new" /\ \A q \in Proposals : Phase[q] # "open"
          BY <2>3, <4>1, <4>3 DEF OpenMove, OtherActive, Phase
        <5>2. Phase' = [Phase EXCEPT ![key[c]] = "open"]
          BY <2>1, <2>3, <4>1, <4>3, PhaseMoves DEF OpenMove, Active, Statuses
        <5> QED
          BY <3>1, <3>3, <5>1, <5>2 DEF Writer!Open, Phase, Sent
      <4>4. CASE StartMove(c)
        <5>1. Phase[key[c]] = "open"
          BY <2>3, <4>1, <4>4 DEF StartMove, Phase, Active
        <5>2. Phase' = [Phase EXCEPT ![key[c]] = "open"]
          BY <2>1, <2>3, <4>1, <4>4, PhaseMoves DEF StartMove, Active, Statuses
        <5> QED
          BY <4>1, <4>2, <5>1, <5>2
      <4>5. CASE CloseMove(c)
        <5>1. Phase[key[c]] = "open"
          BY <2>3, <4>1, <4>5 DEF CloseMove, Phase, Active
        <5>2. Phase' = [Phase EXCEPT ![key[c]] = "closed"]
          BY <2>1, <2>3, <4>1, <4>5, PhaseMoves
          DEF CloseMove, Active, Statuses, Terminal, Completed
        <5> QED
          BY <3>1, <3>3, <5>1, <5>2 DEF Writer!Close, Phase, Sent
      <4>6. CASE RecheckMove(c)
        <5>1. Phase[key[c]] = "closed"
          BY <2>3, <4>1, <4>6 DEF RecheckMove, Phase, Active
        <5>2. Phase' = [Phase EXCEPT ![key[c]] = "closed"]
          BY <2>1, <2>3, <4>1, <4>6, PhaseMoves
          DEF RecheckMove, Active, Statuses, Terminal, Completed
        <5> QED
          BY <4>1, <4>2, <5>1, <5>2
      <4> QED
        BY <3>3, <4>3, <4>4, <4>5, <4>6 DEF LedgerMove
    <3>4. ASSUME NEW c \in Callers, LedgerMove(c)
          PROVE  Writer!SWNext \/ Phase' = Phase
      <4>1. PICK k \in Proposals : key[c] = k
        BY <3>4 DEF LedgerMove
      <4>2. Writer!Open(k) \/ Writer!Close(k) \/ Phase' = Phase
        BY <3>3, <3>4, <4>1
      <4> QED
        BY <4>2 DEF Writer!SWNext
    <3> QED
      BY <3>1, <3>2, <3>4, LedgerMoves
      DEF LedgerStep, Writer!swVars, Phase, Sent
  <2>4. ASSUME session.exclusive, NEW c \in Callers, NEW k \in Proposals,
               key[c] = k, Transport(c)
        PROVE  Writer!Send(k)
    <3>1. /\ status[k] = "IN_FLIGHT" /\ status' = status
          /\ writes[k] = 0 /\ writes' = [writes EXCEPT ![k] = 1]
      <4>1. pc[c] = "transport" /\ status' = status
            /\ writes' = [writes EXCEPT ![k] = writes[k] + 1]
        BY <2>4 DEF Transport, CountWrite, ledgerVars
      <4>2. status[k] = "IN_FLIGHT" /\ writes[k] = 0
        BY <2>4, <4>1 DEF OneSender, Exclusive, SendPoints
      <4> QED
        BY <4>1, <4>2
    <3>2. Phase[k] = "open" /\ Phase' = Phase
      BY <2>1, <2>4, <3>1 DEF Phase, Active
    <3>3. k \notin Sent /\ Sent' = Sent \cup {k}
      BY <2>1, <2>4, <3>1 DEF Sent
    <3> QED
      BY <3>2, <3>3 DEF Writer!Send, Phase, Sent
  <2>5. ASSUME session.exclusive, NEW c \in Callers, Transport(c)
        PROVE  Writer!SWNext
    <3>1. PICK k \in Proposals : key[c] = k
      BY <2>5 DEF Transport
    <3>2. Writer!Send(k)
      BY <2>4, <2>5, <3>1
    <3> QED
      BY <3>2 DEF Writer!SWNext
  <2> QED
    BY <2>2, <2>3, <2>5, CallsMove
<1> QED
  BY <1>1, <1>2, ExclusiveInit, ExclusiveNext, OneSenderInit, OneSenderNext,
     AtMostOneWriteHolds, TypeCorrect, PTL
  DEF Spec, ImplementsSingleWriter, Writer!SWSpec

-----------------------------------------------------------------------------
(* The sums of a column over finite sets of proposals: the recursion of    *)
(* Totals has a solution, and adding a proposal adds its value.            *)

Less == {pair \in Nat \X Nat : pair[1] < pair[2]}

LEMMA LessWellFounded == IsWellFoundedOn(Less, Nat)
<1>1. Less = OpToRel(<, Nat)
  BY Zenon DEF OpToRel, Less
<1> QED
  BY <1>1, NatLessThanWellFounded, Zenon

\* A set that holds 0 and the successor of each of its numbers is all of Nat.
LEMMA Induction ==
  ASSUME NEW H, 0 \in H, \A n \in Nat : n \in H => n + 1 \in H
  PROVE  Nat \subseteq H
<1> DEFINE missing == Nat \ H
<1> SUFFICES ASSUME missing # {} PROVE FALSE
  OBVIOUS
<1>1. PICK n \in missing : \A k \in missing : <<k, n>> \notin Less
  <2>1. missing \subseteq Nat
    OBVIOUS
  <2> HIDE DEF missing
  <2> QED
    BY <2>1, WFMin, LessWellFounded
<1>2. n \in Nat /\ n - 1 \in Nat /\ n - 1 \in missing
  OBVIOUS
<1>3. <<n - 1, n>> \in Less
  BY <1>2 DEF Less
<1> HIDE DEF missing
<1> QED
  BY <1>1, <1>2, <1>3, Zenon

Chosen(S) == CHOOSE q \in S : TRUE
UpTo(n) == {S \in SUBSET Proposals : Cardinality(S) <= n}
TotalsTo(column, n, sum) ==
  sum = [S \in UpTo(n) |->
           IF S = {} THEN 0 ELSE column[Chosen(S)] + sum[S \ {Chosen(S)}]]

LEMMA SubsetsFinite ==
  ASSUME NEW S \in SUBSET Proposals
  PROVE  IsFiniteSet(S) /\ Cardinality(S) \in Nat
BY FS_Subset, FS_CardinalityType, MandateAssumption DEF MandateAssumption

LEMMA ChosenRemoved ==
  ASSUME NEW S \in SUBSET Proposals, NEW q \in S
  PROVE  /\ S \ {q} \in SUBSET Proposals /\ q \in Proposals
         /\ Cardinality(S) \in Nat \ {0} /\ Cardinality(S \ {q}) \in Nat
         /\ Cardinality(S \ {q}) = Cardinality(S) - 1
<1>1. S \ {q} \in SUBSET Proposals /\ q \in Proposals /\ S # {}
  OBVIOUS
<1> QED
  BY <1>1, SubsetsFinite, FS_RemoveElement, FS_EmptySet

LEMMA TotalsExist ==
  ASSUME NEW column
  PROVE  \E sum : sum = [S \in SUBSET Proposals |->
           IF S = {} THEN 0 ELSE column[Chosen(S)] + sum[S \ {Chosen(S)}]]
<1> DEFINE H == {n \in Nat : \E sum : TotalsTo(column, n, sum)}
<1>1. 0 \in H
  <2>1. \A S \in UpTo(0) : S = {}
    BY SubsetsFinite, FS_EmptySet DEF UpTo
  <2>2. TotalsTo(column, 0, [S \in UpTo(0) |-> 0])
    BY <2>1 DEF TotalsTo
  <2> QED
    BY <2>2
<1>2. ASSUME NEW n \in Nat, n \in H PROVE n + 1 \in H
  <2>1. PICK sum : TotalsTo(column, n, sum)
    BY <1>2
  <2> DEFINE longer == [S \in UpTo(n + 1) |->
               IF S = {} THEN 0 ELSE column[Chosen(S)] + sum[S \ {Chosen(S)}]]
  <2>2. ASSUME NEW S \in UpTo(n + 1), S # {}
        PROVE  S \ {Chosen(S)} \in UpTo(n) /\ S \ {Chosen(S)} \in UpTo(n + 1)
    <3>1. Chosen(S) \in S
      BY <2>2 DEF Chosen
    <3> QED
      BY <2>2, <3>1, ChosenRemoved DEF UpTo
  <2>3. ASSUME NEW S \in UpTo(n) PROVE longer[S] = sum[S]
    <3>1. S \in UpTo(n + 1)
      BY SubsetsFinite DEF UpTo
    <3> QED
      BY <2>1, <3>1 DEF TotalsTo
  <2>4. ASSUME NEW S \in UpTo(n + 1)
        PROVE  longer[S] = IF S = {} THEN 0
                           ELSE column[Chosen(S)] + longer[S \ {Chosen(S)}]
    BY <2>2, <2>3
  <2>5. longer = [S \in UpTo(n + 1) |-> longer[S]]
    OBVIOUS
  <2>6. TotalsTo(column, n + 1, longer)
    <3> HIDE DEF longer
    <3> QED
      BY <2>4, <2>5 DEF TotalsTo
  <2> QED
    BY <2>6
<1>3. Cardinality(Proposals) \in H
  <2>1. Nat \subseteq H
    <3> HIDE DEF H
    <3> QED
      BY <1>1, <1>2, Induction
  <2> QED
    BY <2>1, SubsetsFinite
<1>4. UpTo(Cardinality(Proposals)) = SUBSET Proposals
  BY FS_Subset, MandateAssumption DEF UpTo, MandateAssumption
<1> QED
  BY <1>3, <1>4 DEF TotalsTo

\* What the definition of Totals says.
LEMMA TotalsUnfold ==
  ASSUME NEW column, NEW S \in SUBSET Proposals
  PROVE  Totals(column)[S] =
           IF S = {} THEN 0
           ELSE column[Chosen(S)] + Totals(column)[S \ {Chosen(S)}]
<1>1. Totals(column) = CHOOSE sum : sum = [T \in SUBSET Proposals |->
           IF T = {} THEN 0 ELSE column[Chosen(T)] + sum[T \ {Chosen(T)}]]
  BY DEF Totals, Chosen
<1>2. Totals(column) = [T \in SUBSET Proposals |->
           IF T = {} THEN 0
           ELSE column[Chosen(T)] + Totals(column)[T \ {Chosen(T)}]]
  BY <1>1, TotalsExist, Zenon
<1> HIDE DEF Totals
<1> QED
  BY <1>2

\* A proposal outside a set adds its value to the total of the set.
LEMMA TotalsAdd ==
  ASSUME NEW column \in [Proposals -> Nat], NEW S \in SUBSET Proposals,
         NEW p \in Proposals \ S
  PROVE  /\ Totals(column)[S] \in Nat
         /\ Totals(column)[S \cup {p}] = Totals(column)[S] + column[p]
<1> DEFINE total == Totals(column)
           H == {n \in Nat : \A T \in SUBSET Proposals : Cardinality(T) = n =>
                   /\ total[T] \in Nat
                   /\ \A q \in Proposals \ T : total[T \cup {q}] = total[T] + column[q]}
<1>1. ASSUME NEW T \in SUBSET Proposals, T # {}
      PROVE  /\ Chosen(T) \in T
             /\ total[T] = column[Chosen(T)] + total[T \ {Chosen(T)}]
  <2>1. Chosen(T) \in T
    BY <1>1 DEF Chosen
  <2> QED
    BY <1>1, <2>1, TotalsUnfold
<1>2. total[{}] = 0
  BY TotalsUnfold
<1> HIDE DEF total
<1>3. 0 \in H
  <2>1. ASSUME NEW T \in SUBSET Proposals, Cardinality(T) = 0 PROVE T = {}
    BY <2>1, SubsetsFinite, FS_EmptySet
  <2>2. ASSUME NEW q \in Proposals PROVE total[{q}] = column[q]
    <3>1. Chosen({q}) = q /\ {q} \ {q} = {}
      BY DEF Chosen
    <3>2. total[{q}] = column[q] + total[{}]
      BY <1>1, <3>1
    <3> QED
      BY <1>2, <3>2
  <2>3. total[{}] \in Nat /\ \A q \in Proposals : total[{} \cup {q}] = total[{}] + column[q]
    BY <1>2, <2>2
  <2> QED
    BY <2>1, <2>3
<1>4. ASSUME NEW n \in Nat, n \in H PROVE n + 1 \in H
  <2> SUFFICES ASSUME NEW T \in SUBSET Proposals, Cardinality(T) = n + 1
               PROVE  /\ total[T] \in Nat
                      /\ \A q \in Proposals \ T :
                           total[T \cup {q}] = total[T] + column[q]
    OBVIOUS
  <2>1. PICK t \in T : total[T] = column[t] + total[T \ {t}]
    <3>1. T # {}
      BY FS_EmptySet
    <3> QED
      BY <1>1, <3>1
  <2>2. ASSUME NEW r \in T
        PROVE  /\ total[T \ {r}] \in Nat
               /\ \A q \in Proposals \ (T \ {r}) :
                    total[(T \ {r}) \cup {q}] = total[T \ {r}] + column[q]
    <3>1. T \ {r} \in SUBSET Proposals /\ Cardinality(T \ {r}) = n
      BY ChosenRemoved
    <3> QED
      BY <1>4, <3>1
  <2>3. total[T] \in Nat
    <3>1. column[t] \in Nat /\ total[T \ {t}] \in Nat
      BY <2>2
    <3> QED
      BY <2>1, <3>1
  <2>4. ASSUME NEW q \in Proposals \ T
        PROVE  total[T \cup {q}] = total[T] + column[q]
    <3> DEFINE W == T \cup {q}
               r == Chosen(W)
    <3>1. W \in SUBSET Proposals /\ W # {}
      OBVIOUS
    <3>2. r \in W /\ total[W] = column[r] + total[W \ {r}]
      BY <1>1, <3>1
    <3> HIDE DEF r
    <3>3. CASE r = q
      <4>1. W \ {r} = T
        BY <3>3
      <4>2. total[W] = column[q] + total[T] /\ column[q] \in Nat
        BY <3>2, <3>3, <4>1
      <4> HIDE DEF total
      <4> QED
        BY <2>3, <4>2
    <3>4. CASE r # q
      <4>1. r \in T /\ W \ {r} = (T \ {r}) \cup {q} /\ q \in Proposals \ (T \ {r})
        BY <3>2, <3>4
      <4>2. total[W \ {r}] = total[T \ {r}] + column[q]
        BY <2>2, <4>1
      <4>3. (T \ {r}) \cup {r} = T /\ r \in Proposals \ (T \ {r})
        BY <4>1
      <4>4. total[T] = total[T \ {r}] + column[r] /\ total[T \ {r}] \in Nat
        BY <2>2, <4>1, <4>3
      <4> QED
        BY <3>2, <4>2, <4>3, <4>4
    <3> QED
      BY <3>3, <3>4
  <2> QED
    BY <2>3, <2>4
<1>5. Cardinality(S) \in H
  <2>1. Nat \subseteq H
    <3> HIDE DEF H
    <3> QED
      BY <1>3, <1>4, Induction
  <2> QED
    BY <2>1, SubsetsFinite
<1> QED
  BY <1>5 DEF total

-----------------------------------------------------------------------------
(* Quotas.  A transaction charges one mandate, at the present instant, and *)
(* only while the row does not exist; so the sums it checked are the sums  *)
(* over all charges of its mandate, and later charges lie later.           *)

\* What the transaction that charges p to m under QuotaLeft(m, p) does.
Charging(m, p) ==
  /\ QuotaLeft(m, p) /\ charged[p] = NoMandate
  /\ charged' = [charged EXCEPT ![p] = m]
  /\ chargedAt' = [chargedAt EXCEPT ![p] = clock]

SameDay(m, p) ==
  {q \in ChargedTo(m) : chargedAt[q] \div Day = chargedAt[p] \div Day}
LastDay(m, p) ==
  {q \in ChargedTo(m) : chargedAt[q] \in (chargedAt[p] - Day + 1)..chargedAt[p]}

LEMMA ChargesMove ==
  ASSUME TypeOK, [Next]_vars
  PROVE  \/ UNCHANGED chargeVars
         \/ \E m \in Mandates, p \in Proposals : Charging(m, p)
<1>1. ASSUME NEW c \in Callers, LedgerMove(c), ~UNCHANGED chargeVars
      PROVE  /\ mandate[c] \in Mandates /\ key[c] \in Proposals
             /\ Charging(mandate[c], key[c])
  BY <1>1 DEF LedgerMove, OpenMove, Charging, TypeOK, RowTypeOK
<1> QED
  BY <1>1, LedgerMoves DEF LedgerStep, TypeOK, chargeVars

\* The mandates that are not charged keep their charges.
LEMMA OthersKeepCharges ==
  ASSUME TypeOK, NEW m \in Mandates, NEW p \in Proposals, Charging(m, p),
         NEW n \in Mandates, n # m
  PROVE  /\ ChargedTo(n)' = ChargedTo(n) /\ p \notin ChargedTo(n)
         /\ \A q \in ChargedTo(n) : /\ SameDay(n, q)' = SameDay(n, q)
                                    /\ LastDay(n, q)' = LastDay(n, q)
<1>1. /\ charged' = [charged EXCEPT ![p] = m] /\ charged[p] = NoMandate
      /\ chargedAt' = [chargedAt EXCEPT ![p] = clock]
      /\ NoMandate \notin Mandates
  BY MandateAssumption DEF Charging, MandateAssumption
<1>2. ChargedTo(n)' = ChargedTo(n) /\ p \notin ChargedTo(n)
  BY <1>1 DEF ChargedTo, TypeOK, RowTypeOK
<1>3. \A q \in ChargedTo(n) : chargedAt'[q] = chargedAt[q]
  BY <1>1, <1>2 DEF ChargedTo, TypeOK, RowTypeOK
<1>4. ASSUME NEW q \in ChargedTo(n)
      PROVE  SameDay(n, q)' = SameDay(n, q) /\ LastDay(n, q)' = LastDay(n, q)
  BY <1>2, <1>3 DEF SameDay, LastDay
<1> QED
  BY <1>2, <1>4

\* The charged mandate gains the key, in the day and the 24 hours of the present.
LEMMA ChargeAdded ==
  ASSUME TypeOK, NEW m \in Mandates, NEW p \in Proposals, Charging(m, p)
  PROVE  /\ ChargedTo(m)' = ChargedTo(m) \cup {p} /\ p \notin ChargedTo(m)
         /\ \A q \in ChargedTo(m)' :
              /\ \/ q # p /\ SameDay(m, q)' = SameDay(m, q)
                 \/ SameDay(m, q)' = {r \in ChargedTo(m) : Today(r)} \cup {p}
              /\ \/ q # p /\ LastDay(m, q)' = LastDay(m, q)
                 \/ LastDay(m, q)' = {r \in ChargedTo(m) : InLastDay(r)} \cup {p}
<1>1. /\ charged' = [charged EXCEPT ![p] = m] /\ charged[p] = NoMandate
      /\ chargedAt' = [chargedAt EXCEPT ![p] = clock]
      /\ NoMandate \notin Mandates /\ Day \in Nat \ {0}
      /\ chargedAt \in [Proposals -> Nat] /\ clock \in Nat
      /\ \A r \in Proposals : chargedAt[r] <= clock
  BY MandateAssumption DEF Charging, MandateAssumption, TypeOK, RowTypeOK
<1>2. ChargedTo(m)' = ChargedTo(m) \cup {p} /\ p \notin ChargedTo(m)
  BY <1>1 DEF ChargedTo, TypeOK, RowTypeOK
<1>3. chargedAt'[p] = clock /\ \A r \in ChargedTo(m) : chargedAt'[r] = chargedAt[r]
  BY <1>1, <1>2 DEF ChargedTo
<1>4. ChargedTo(m) \subseteq Proposals
  BY DEF ChargedTo
<1>5. ASSUME NEW q \in ChargedTo(m)'
      PROVE  \/ q # p /\ SameDay(m, q)' = SameDay(m, q)
             \/ SameDay(m, q)' = {r \in ChargedTo(m) : Today(r)} \cup {p}
  <2>1. CASE chargedAt'[q] \div Day = clock \div Day
    BY <1>2, <1>3, <2>1 DEF SameDay, Today
  <2>2. CASE chargedAt'[q] \div Day # clock \div Day
    BY <1>2, <1>3, <1>5, <2>2 DEF SameDay
  <2> QED
    BY <2>1, <2>2
<1>6. ASSUME NEW q \in ChargedTo(m)'
      PROVE  \/ q # p /\ LastDay(m, q)' = LastDay(m, q)
             \/ LastDay(m, q)' = {r \in ChargedTo(m) : InLastDay(r)} \cup {p}
  <2>1. CASE chargedAt'[q] = clock
    <3>1. \A r \in ChargedTo(m) :
            chargedAt[r] \in (clock - Day + 1)..clock <=> InLastDay(r)
      BY <1>1, <1>4 DEF InLastDay
    <3>2. clock \in (clock - Day + 1)..clock
      BY <1>1
    <3> QED
      BY <1>2, <1>3, <2>1, <3>1, <3>2 DEF LastDay
  <2>2. CASE chargedAt'[q] # clock
    <3>1. q \in ChargedTo(m) /\ q # p /\ chargedAt'[q] = chargedAt[q]
      BY <1>2, <1>3, <1>5, <2>2
    <3>2. clock \notin (chargedAt[q] - Day + 1)..chargedAt[q]
      BY <1>1, <1>4, <2>2, <3>1
    <3> QED
      BY <1>2, <1>3, <3>1, <3>2 DEF LastDay
  <2> QED
    BY <2>1, <2>2
<1> QED
  BY <1>2, <1>5, <1>6

\* ChangesObserved is kept: no change of the campaign is still observed when a
\* key is charged, and the present is later than every charge.
LEMMA ObservationKept ==
  ASSUME TypeOK, ChangesObserved, NEW m \in Mandates, NEW p \in Proposals,
         Charging(m, p)
  PROVE  ChangesObserved'
<1> USE MandateAssumption DEF MandateAssumption, LimitRow
<1>1. /\ charged' = [charged EXCEPT ![p] = m]
      /\ chargedAt' = [chargedAt EXCEPT ![p] = clock]
      /\ charged \in [Proposals -> Mandates \cup {NoMandate}]
      /\ chargedAt \in [Proposals -> Nat] /\ clock \in Nat
  BY DEF Charging, TypeOK, RowTypeOK
<1>2. ASSUME NEW q \in Proposals, q # p, charged[q] # NoMandate,
             CampaignOf[q] = CampaignOf[p]
      PROVE  clock >= chargedAt[q] + Limits[charged[q]].observation
  <2>1. ~(chargedAt[q] + Limits[charged[q]].observation > clock)
    BY <1>2 DEF Charging, QuotaLeft, Observed
  <2>2. Limits[charged[q]].observation \in Nat
    BY <1>1, <1>2
  <2> QED
    BY <1>1, <2>1, <2>2
<1> SUFFICES ASSUME NEW a \in Proposals, NEW b \in Proposals,
                    a # b, CampaignOf[a] = CampaignOf[b],
                    charged'[a] # NoMandate, charged'[b] # NoMandate
             PROVE  \/ chargedAt'[a] >= chargedAt'[b] + Limits[charged'[b]].observation
                    \/ chargedAt'[b] >= chargedAt'[a] + Limits[charged'[a]].observation
  BY DEF ChangesObserved
<1>3. CASE a = p
  <2>1. chargedAt'[a] = clock /\ chargedAt'[b] = chargedAt[b] /\ charged'[b] = charged[b]
    BY <1>1, <1>3
  <2> QED
    BY <1>2, <1>3, <2>1
<1>4. CASE b = p
  <2>1. chargedAt'[b] = clock /\ chargedAt'[a] = chargedAt[a] /\ charged'[a] = charged[a]
    BY <1>1, <1>4
  <2> QED
    BY <1>2, <1>4, <2>1
<1>5. CASE a # p /\ b # p
  BY <1>1, <1>5 DEF ChangesObserved
<1> QED
  BY <1>3, <1>4, <1>5

\* The charged mandate stays within its limits, since the check added the new
\* charge to all charges, to those of the day and to those of the 24 hours.
LEMMA ChargedMandateHeld ==
  ASSUME TypeOK, NEW m \in Mandates, MandateHeld(m), NEW p \in Proposals,
         Charging(m, p)
  PROVE  MandateHeld(m)'
<1> DEFINE charges == ChargedTo(m)
           today == {r \in charges : Today(r)}
           recent == {r \in charges : InLastDay(r)}
<1>1. /\ charges \in SUBSET Proposals /\ p \in Proposals \ charges
      /\ today \in SUBSET Proposals /\ p \in Proposals \ today
      /\ recent \in SUBSET Proposals /\ p \in Proposals \ recent
  BY ChargeAdded DEF ChargedTo
<1>2. /\ Exposure \in [Proposals -> Nat] /\ Step \in [Proposals -> Nat]
      /\ Limits[m] \in LimitRow
  BY MandateAssumption DEF MandateAssumption
<1>3. /\ TotalExposure(charges) + Exposure[p] <= Limits[m].total
      /\ TotalExposure(today) + Exposure[p] <= Limits[m].daily
      /\ TotalStep(today) + Step[p] <= Limits[m].dailyStep
      /\ Cardinality(recent) < Limits[m].actions
  BY DEF Charging, QuotaLeft
<1>4. TotalExposure(charges \cup {p}) <= Limits[m].total
  BY <1>1, <1>2, <1>3, TotalsAdd DEF TotalExposure
<1>5. /\ TotalExposure(today \cup {p}) <= Limits[m].daily
      /\ TotalStep(today \cup {p}) <= Limits[m].dailyStep
  BY <1>1, <1>2, <1>3, TotalsAdd, ZenonT(60) DEF TotalExposure, TotalStep
<1>6. Cardinality(recent \cup {p}) <= Limits[m].actions
  <2>1. Cardinality(recent) \in Nat /\ Cardinality(recent \cup {p}) = Cardinality(recent) + 1
    BY <1>1, SubsetsFinite, FS_AddElement
  <2>2. Limits[m].actions \in Nat
    BY <1>2 DEF LimitRow
  <2> QED
    BY <1>3, <2>1, <2>2
<1>7. ChargedTo(m)' = charges \cup {p}
  BY ChargeAdded
<1>8. ASSUME NEW q \in ChargedTo(m)'
      PROVE  /\ TotalExposure(SameDay(m, q)') <= Limits[m].daily
             /\ TotalStep(SameDay(m, q)') <= Limits[m].dailyStep
  <2>1. CASE q # p /\ SameDay(m, q)' = SameDay(m, q)
    BY <1>7, <2>1 DEF MandateHeld, SameDay
  <2>2. CASE SameDay(m, q)' = today \cup {p}
    BY <1>5, <2>2
  <2> QED
    BY <1>8, <2>1, <2>2, ChargeAdded
<1>9. ASSUME NEW q \in ChargedTo(m)'
      PROVE  Cardinality(LastDay(m, q)') <= Limits[m].actions
  <2>1. CASE q # p /\ LastDay(m, q)' = LastDay(m, q)
    BY <1>7, <2>1 DEF MandateHeld, LastDay
  <2>2. CASE LastDay(m, q)' = recent \cup {p}
    BY <1>6, <2>2
  <2> QED
    BY <1>9, <2>1, <2>2, ChargeAdded
<1> QED
  BY <1>4, <1>7, <1>8, <1>9
  DEF MandateHeld, SameDay, LastDay, TotalExposure, TotalStep

LEMMA QuotaInit == Init => QuotaHeld
<1> SUFFICES ASSUME Init PROVE QuotaHeld
  OBVIOUS
<1> USE MandateAssumption DEF MandateAssumption
<1>1. \A p \in Proposals : charged[p] = NoMandate
  BY DEF Init
<1>2. ChangesObserved
  BY <1>1 DEF ChangesObserved
<1>3. ASSUME NEW m \in Mandates PROVE MandateHeld(m)
  <2>1. ChargedTo(m) = {}
    BY <1>1 DEF ChargedTo
  <2>2. Totals(Exposure)[{}] = 0
    BY TotalsUnfold
  <2>3. Limits[m].total \in Nat
    BY DEF LimitRow
  <2> QED
    BY <2>1, <2>2, <2>3 DEF MandateHeld, TotalExposure
<1> QED
  BY <1>2, <1>3 DEF QuotaHeld

LEMMA QuotaNext == TypeOK /\ QuotaHeld /\ [Next]_vars => QuotaHeld'
<1> SUFFICES ASSUME TypeOK, QuotaHeld, [Next]_vars PROVE QuotaHeld'
  OBVIOUS
<1>1. CASE UNCHANGED chargeVars
  BY <1>1
  DEF chargeVars, QuotaHeld, ChangesObserved, MandateHeld, ChargedTo,
      TotalExposure, TotalStep
<1>2. ASSUME NEW m \in Mandates, NEW p \in Proposals, Charging(m, p)
      PROVE  QuotaHeld'
  <2>1. ASSUME NEW n \in Mandates PROVE MandateHeld(n)'
    <3>1. CASE n = m
      BY <1>2, <3>1, ChargedMandateHeld DEF QuotaHeld
    <3>2. CASE n # m
      <4>1. /\ TotalExposure(ChargedTo(n)) <= Limits[n].total
            /\ \A q \in ChargedTo(n) :
                 /\ TotalExposure(SameDay(n, q)) <= Limits[n].daily
                 /\ TotalStep(SameDay(n, q)) <= Limits[n].dailyStep
                 /\ Cardinality(LastDay(n, q)) <= Limits[n].actions
        BY DEF QuotaHeld, MandateHeld, SameDay, LastDay
      <4>2. /\ ChargedTo(n)' = ChargedTo(n)
            /\ \A q \in ChargedTo(n) : /\ SameDay(n, q)' = SameDay(n, q)
                                       /\ LastDay(n, q)' = LastDay(n, q)
        BY <1>2, <3>2, OthersKeepCharges
      <4>3. /\ TotalExposure(ChargedTo(n)') <= Limits[n].total
            /\ \A q \in ChargedTo(n)' :
                 /\ TotalExposure(SameDay(n, q)') <= Limits[n].daily
                 /\ TotalStep(SameDay(n, q)') <= Limits[n].dailyStep
                 /\ Cardinality(LastDay(n, q)') <= Limits[n].actions
        BY <4>1, <4>2
      <4> QED
        BY <4>3 DEF MandateHeld, SameDay, LastDay, TotalExposure, TotalStep
    <3> QED
      BY <3>1, <3>2
  <2> QED
    BY <1>2, <2>1, ObservationKept DEF QuotaHeld
<1> QED
  BY <1>1, <1>2, ChargesMove

\* No mandate is ever overspent, in total, in a day or in any 24 hours, and two
\* autonomous changes of a campaign are an observation window apart.
THEOREM QuotaHeldHolds == Spec => []QuotaHeld
BY QuotaInit, QuotaNext, TypeCorrect, PTL DEF Spec
=============================================================================
