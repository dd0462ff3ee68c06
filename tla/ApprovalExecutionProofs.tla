------------------------ MODULE ApprovalExecutionProofs ------------------------
(***************************************************************************)
(* Theorems about ApprovalExecution, for every set of callers, proposals,  *)
(* approvals and operators, every adapter and every clock bound, with      *)
(* overlapping calls, crashes and storage errors allowed.                  *)
(***************************************************************************)
EXTENDS ApprovalExecution, TLAPS

-----------------------------------------------------------------------------
(* Types.                                                                  *)

LEMMA TypeInit == Init => TypeOK
<1> SUFFICES ASSUME Init PROVE TypeOK
  OBVIOUS
<1> USE ShapeAssumption, AdapterAssumption, TimeAssumption
    DEF ShapeAssumption, AdapterAssumption, TimeAssumption, Init, BoundaryInit,
        Time
<1>1. BoundaryTypeOK
  <2>1. FreeWindow \in WindowRow
    BY DEF FreeWindow, WindowRow
  <2>2. timedOut \in BOOLEAN
    BY Zenon
  <2>3. target \in [Targets -> Values] /\ adapter \in Adapters
    OBVIOUS
  <2> QED
    BY <2>1, <2>2, <2>3 DEF BoundaryTypeOK
<1>2. ApprovalTypeOK
  BY DEF ApprovalTypeOK, NotGranted, Grant
<1>3. CallTypeOK
  BY DEF CallTypeOK, Points, BoundPoints, NoChangePoints, DispatchPoints,
         NoAnswer, AnswerRow, Answers
<1>4. OperatorTypeOK
  BY DEF OperatorTypeOK
<1> QED
  BY <1>1, <1>2, <1>3, <1>4 DEF TypeOK

\* A return clears the locals of its call.
LEMMA ReturnTyped ==
  ASSUME CallTypeOK, NEW c \in Callers, pc[c] # "idle",
         NEW r \in Answers, Return(c, r)
  PROVE  CallTypeOK'
BY TimeAssumption
DEF TimeAssumption, CallTypeOK, Return, Points, BoundPoints, NoChangePoints,
    DispatchPoints,
    AnswerRow, Time

\* A jump keeps its call's locals and may reach a point that needs the
\* approval only while the call holds one.
LEMMA GotoTyped ==
  ASSUME CallTypeOK, NEW c \in Callers, pc[c] # "idle",
         NEW point \in Points, point \in BoundPoints => bound[c] \in Approvals,
         point \in {"finish", "settle"} => seen[c] \in Terminal,
         Goto(c, point), Keep(c)
  PROVE  CallTypeOK'
BY DEF CallTypeOK, Goto, Keep, NoAnswer, AnswerRow, Answers

\* A new call works on a proposal; an immediate answer starts no call.
LEMMA StartTyped ==
  ASSUME CallTypeOK, NEW c \in Callers, NEW p \in Proposals,
         NEW m \in {"execute", "reconcile"},
         NEW point \in {"evaluate", "observe"}, StartCall(c, p, m, point)
  PROVE  CallTypeOK'
BY DEF CallTypeOK, StartCall, Points, BoundPoints, NoChangePoints,
    DispatchPoints,
       ResolvePoints, NoAnswer, AnswerRow, Answers

LEMMA AnswerTyped ==
  ASSUME CallTypeOK, NEW p \in Proposals, NEW m \in {"execute", "reconcile"},
         NEW r \in Answers, AnswerAtOnce(p, m, r)
  PROVE  CallTypeOK'
BY DEF CallTypeOK, AnswerAtOnce, callVars, AnswerRow

\* A ledger write of a known status at a known instant keeps the types.
LEMMA SetStatusTyped ==
  ASSUME BoundaryTypeOK, NEW p \in Proposals, NEW s \in Statuses,
         NEW t \in Time, SetStatus(p, s, t)
  PROVE  /\ status' \in [Proposals -> Statuses \cup {"NONE"}]
         /\ updatedAt' \in [Proposals -> Time]
BY DEF BoundaryTypeOK, SetStatus

LEMMA FinishTyped ==
  ASSUME BoundaryTypeOK, NEW p \in Proposals, NEW s \in Statuses, Finish(p, s)
  PROVE  /\ status' \in [Proposals -> Statuses \cup {"NONE"}]
         /\ updatedAt' \in [Proposals -> Time]
BY SetStatusTyped DEF Finish, BoundaryTypeOK, ledgerVars

\* The adapter's answer to a write keeps the types.
LEMMA TakeEffectTyped ==
  ASSUME BoundaryTypeOK, NEW p \in Proposals, TakeEffect(p)
  PROVE  target' \in [Targets -> Values] /\ timedOut' \in BOOLEAN
                                       /\ writes' = writes
<1>1. CASE adapter.timeout
  <2>1. timedOut' = TRUE /\ target' = target /\ writes' = writes
    BY <1>1, Zenon DEF TakeEffect
  <2>2. timedOut' \in BOOLEAN
    BY <2>1, Zenon
  <2> QED
    BY <2>1, <2>2 DEF BoundaryTypeOK
<1>2. CASE ~adapter.timeout
  <2>1. /\ target' = [target EXCEPT ![TargetOf[p]] = TargetValue[p]]
        /\ timedOut' = timedOut
        /\ writes' = writes
    BY <1>2, Zenon DEF TakeEffect
  <2>2. timedOut' \in BOOLEAN
    BY <2>1, Zenon DEF BoundaryTypeOK
  <2> QED
    BY <2>1, <2>2, ShapeAssumption DEF ShapeAssumption, BoundaryTypeOK
<1> QED
  BY <1>1, <1>2

LEMMA WindowTyped ==
  ASSUME BoundaryTypeOK, NEW p \in Proposals,
         ReserveWindow(p) \/ ActivateWindow(p) \/ ReleaseWindow(p)
  PROVE  window' \in WindowRow
BY TimeAssumption, NullAssumption
DEF TimeAssumption, NullAssumption, BoundaryTypeOK, ReserveWindow,
    ActivateWindow,
    ReleaseWindow, FreeWindow, WindowRow, Time

\* What the types say of a call that is running.
CallHolds(c) ==
  /\ pc[c] # "idle" /\ key[c] \in Proposals
  /\ pc[c] \in BoundPoints => bound[c] \in Approvals
  /\ pc[c] \in {"finish", "settle"} => seen[c] \in Terminal
  /\ at[c] \in Time /\ clock \in Time
  /\ status[key[c]] \in Statuses \cup {"NONE"}

LEMMA TypeNext == TypeOK /\ [Next]_vars => TypeOK'
<1> SUFFICES ASSUME TypeOK, [Next]_vars PROVE TypeOK'
  OBVIOUS
<1> USE ShapeAssumption, AdapterAssumption, TimeAssumption, NullAssumption,
        CallerAssumption
    DEF ShapeAssumption, AdapterAssumption, TimeAssumption, NullAssumption,
        CallerAssumption
<1> USE DEF TypeOK, ledgerVars, controlVars, adapterVars, boundaryVars, callVars,
            opVars, approvalVars
<1>1. ASSUME NEW c \in Callers, NEW p \in Proposals, Execute(c, p) PROVE TypeOK'
  <2>1. status[p] \in Statuses \cup {"NONE"}
    BY DEF BoundaryTypeOK
  <2>2. CallTypeOK'
    BY <1>1, <2>1, StartTyped, AnswerTyped
    DEF Execute, Answers, Statuses, Active, Terminal, Completed
  <2> QED
    BY <1>1, <2>2 DEF Execute, BoundaryTypeOK, ApprovalTypeOK, OperatorTypeOK
<1>2. ASSUME NEW c \in Callers, NEW p \in Proposals, Reconcile(c, p) PROVE TypeOK'
  <2>1. status[p] \in Statuses \cup {"NONE"}
    BY DEF BoundaryTypeOK
  <2>2. CallTypeOK'
    BY <1>2, <2>1, StartTyped, AnswerTyped
    DEF Reconcile, Answers, Statuses, Active, Terminal, Completed
  <2> QED
    BY <1>2, <2>2 DEF Reconcile, BoundaryTypeOK, ApprovalTypeOK, OperatorTypeOK
<1>3. ASSUME NEW c \in Callers, Evaluate(c) PROVE TypeOK'
  <2>1. CallHolds(c)
    BY <1>3 DEF Evaluate, CallHolds, CallTypeOK, BoundaryTypeOK, NoChangePoints
  <2>3. BoundaryTypeOK'
    BY <1>3 DEF Evaluate, BoundaryTypeOK
  <2>4. CallTypeOK'
    BY <1>3, <2>1, ReturnTyped, GotoTyped
    DEF CallHolds, Evaluate, Points, BoundPoints, NoChangePoints,
        DispatchPoints, UndoPoints, ResolvePoints, Statuses, Active, Terminal,
        Completed, Answers
  <2>5. ApprovalTypeOK' /\ OperatorTypeOK'
    BY <1>3, <2>1 DEF CallHolds, Evaluate, ApprovalTypeOK, OperatorTypeOK
  <2> QED
    BY <2>3, <2>4, <2>5
<1>4. ASSUME NEW c \in Callers, ReadBefore(c) PROVE TypeOK'
  <2>1. CallHolds(c)
    BY <1>4
    DEF ReadBefore, CallHolds, CallTypeOK, BoundaryTypeOK, NoChangePoints
  <2>3. BoundaryTypeOK'
    BY <1>4 DEF ReadBefore, BoundaryTypeOK
  <2>4. CallTypeOK'
    <3>1. CASE \E a \in BoundApprovals(key[c]) : bound' = [bound EXCEPT ![c] = a]
      <4>1. PICK a \in Approvals : bound' = [bound EXCEPT ![c] = a]
        BY <3>1 DEF BoundApprovals
      <4>2. CASE /\ \E point \in {"send", "reserve_no_change"} : Goto(c, point)
                 /\ at' = [at EXCEPT ![c] = clock]
                 /\ UNCHANGED <<mode, key, seen>>
        BY <2>1, <4>1, <4>2
        DEF CallHolds, Goto, CallTypeOK, Points, BoundPoints, NoChangePoints,
            DispatchPoints, UndoPoints, ResolvePoints, Answers, AnswerRow,
            NoAnswer
      <4> QED
        BY <1>4, <2>1, <4>2, ReturnTyped, GotoTyped
        DEF CallHolds, ReadBefore, Points, BoundPoints, NoChangePoints,
            DispatchPoints, UndoPoints, ResolvePoints, Statuses, Active,
            Terminal, Completed, Answers
    <3>2. CASE ~\E a \in BoundApprovals(key[c]) : bound' = [bound EXCEPT ![c] = a]
      BY <1>4, <2>1, <3>2, ReturnTyped, GotoTyped
      DEF CallHolds, ReadBefore, Points, BoundPoints, NoChangePoints,
          DispatchPoints, UndoPoints, ResolvePoints, Statuses, Active,
          Terminal, Completed, Answers
    <3> QED
      BY <3>1, <3>2
  <2>5. ApprovalTypeOK' /\ OperatorTypeOK'
    BY <1>4, <2>1 DEF CallHolds, ReadBefore, ApprovalTypeOK, OperatorTypeOK
  <2> QED
    BY <2>3, <2>4, <2>5
<1>5. ASSUME NEW c \in Callers, ReserveNoChange(c) PROVE TypeOK'
  <2>1. CallHolds(c)
    BY <1>5
    DEF ReserveNoChange, CallHolds, CallTypeOK, BoundaryTypeOK, NoChangePoints
  <2>2. /\ status' \in [Proposals -> Statuses \cup {"NONE"}]
        /\ updatedAt' \in [Proposals -> Time]
    <3>1. CASE UNCHANGED ledgerVars
      BY <3>1 DEF BoundaryTypeOK
    <3>2. CASE ~UNCHANGED ledgerVars
      BY <1>5, <2>1, <3>2, SetStatusTyped
      DEF ReserveNoChange, CallHolds, Statuses, Active, Terminal, Completed
    <3> QED
      BY <3>1, <3>2
  <2>3. BoundaryTypeOK'
    BY <1>5, <2>2 DEF ReserveNoChange, BoundaryTypeOK
  <2>4. CallTypeOK'
    BY <1>5, <2>1, ReturnTyped, GotoTyped
    DEF CallHolds, ReserveNoChange, Points, BoundPoints, NoChangePoints,
        DispatchPoints, UndoPoints, ResolvePoints, Statuses, Active, Terminal,
        Completed, Answers
  <2>5. ApprovalTypeOK' /\ OperatorTypeOK'
    BY <1>5, <2>1
    DEF CallHolds, ReserveNoChange, ApprovalTypeOK, OperatorTypeOK
  <2> QED
    BY <2>3, <2>4, <2>5
<1>6. ASSUME NEW c \in Callers, BeginNoChange(c) PROVE TypeOK'
  <2>1. CallHolds(c)
    BY <1>6
    DEF BeginNoChange, CallHolds, CallTypeOK, BoundaryTypeOK, NoChangePoints
  <2>2. /\ status' \in [Proposals -> Statuses \cup {"NONE"}]
        /\ updatedAt' \in [Proposals -> Time]
    <3>1. CASE UNCHANGED ledgerVars
      BY <3>1 DEF BoundaryTypeOK
    <3>2. CASE ~UNCHANGED ledgerVars
      BY <1>6, <2>1, <3>2, SetStatusTyped
      DEF BeginNoChange, CallHolds, Statuses, Active, Terminal, Completed
    <3> QED
      BY <3>1, <3>2
  <2>3. BoundaryTypeOK'
    BY <1>6, <2>2 DEF BeginNoChange, BoundaryTypeOK
  <2>4. CallTypeOK'
    BY <1>6, <2>1, ReturnTyped, GotoTyped
    DEF CallHolds, BeginNoChange, Points, BoundPoints, NoChangePoints,
        DispatchPoints, UndoPoints, ResolvePoints, Statuses, Active, Terminal,
        Completed, Answers
  <2>5. ApprovalTypeOK' /\ OperatorTypeOK'
    BY <1>6, <2>1
    DEF CallHolds, BeginNoChange, ApprovalTypeOK, OperatorTypeOK,
        ReserveApproval, Points, BoundPoints, NoChangePoints, DispatchPoints,
        UndoPoints, ResolvePoints
  <2> QED
    BY <2>3, <2>4, <2>5
<1>7. ASSUME NEW c \in Callers, ReleaseNoChange(c) PROVE TypeOK'
  BY <1>7, SMTT(30)
  DEF ReleaseNoChange, ReleaseApprovalReservation, Goto, Keep, BoundaryTypeOK,
      ApprovalTypeOK, CallTypeOK, OperatorTypeOK, Points, BoundPoints,
      NoChangePoints, DispatchPoints, UndoPoints, ResolvePoints, Statuses,
      Active, Terminal, Completed, Time, AnswerRow, Answers, NoAnswer
<1>8. ASSUME NEW c \in Callers, FinishNoChange(c) PROVE TypeOK'
  <2>1. CallHolds(c)
    BY <1>8
    DEF FinishNoChange, CallHolds, CallTypeOK, BoundaryTypeOK, NoChangePoints
  <2>2. /\ status' \in [Proposals -> Statuses \cup {"NONE"}]
        /\ updatedAt' \in [Proposals -> Time]
    <3>1. CASE UNCHANGED ledgerVars
      BY <3>1 DEF BoundaryTypeOK
    <3>2. CASE ~UNCHANGED ledgerVars
      BY <1>8, <2>1, <3>2, FinishTyped
      DEF FinishNoChange, CallHolds, Statuses, Active, Terminal, Completed
    <3> QED
      BY <3>1, <3>2
  <2>3. BoundaryTypeOK'
    BY <1>8, <2>2 DEF FinishNoChange, BoundaryTypeOK
  <2>4. CallTypeOK'
    BY <1>8, <2>1, ReturnTyped, GotoTyped
    DEF CallHolds, FinishNoChange, Points, BoundPoints, NoChangePoints,
        DispatchPoints, UndoPoints, ResolvePoints, Statuses, Active, Terminal,
        Completed, Answers
  <2>5. ApprovalTypeOK' /\ OperatorTypeOK'
    BY <1>8, <2>1 DEF CallHolds, FinishNoChange, ApprovalTypeOK, OperatorTypeOK
  <2> QED
    BY <2>3, <2>4, <2>5
<1>9. ASSUME NEW c \in Callers, SendTransaction(c) PROVE TypeOK'
  <2>1. CallHolds(c)
    BY <1>9
    DEF SendTransaction, CallHolds, CallTypeOK, BoundaryTypeOK, NoChangePoints
  <2>2. /\ status' \in [Proposals -> Statuses \cup {"NONE"}]
        /\ updatedAt' \in [Proposals -> Time]
    <3>1. CASE UNCHANGED ledgerVars
      BY <3>1 DEF BoundaryTypeOK
    <3>2. CASE ~UNCHANGED ledgerVars
      BY <1>9, <2>1, <3>2, SetStatusTyped
      DEF SendTransaction, CallHolds, Statuses, Active, Terminal, Completed
    <3> QED
      BY <3>1, <3>2
  <2>3. BoundaryTypeOK'
    BY <1>9, <2>2 DEF SendTransaction, BoundaryTypeOK
  <2>4. CallTypeOK'
    BY <1>9, <2>1, ReturnTyped, GotoTyped
    DEF CallHolds, SendTransaction, Points, BoundPoints, NoChangePoints,
        DispatchPoints, UndoPoints, ResolvePoints, Statuses, Active, Terminal,
        Completed, Answers
  <2>5. ApprovalTypeOK' /\ OperatorTypeOK'
    BY <1>9, <2>1
    DEF CallHolds, SendTransaction, ApprovalTypeOK, OperatorTypeOK,
        ReserveApproval, Points, BoundPoints, NoChangePoints, DispatchPoints,
        UndoPoints, ResolvePoints
  <2> QED
    BY <2>3, <2>4, <2>5
<1>10. ASSUME NEW c \in Callers, PostCommitCheck(c) PROVE TypeOK'
  <2>1. pc[c] = "post_commit" /\ bound[c] \in Approvals
    BY <1>10
    DEF PostCommitCheck, CallTypeOK, BoundPoints, DispatchPoints
  <2>2. CallTypeOK'
    BY <1>10, <2>1, GotoTyped
    DEF PostCommitCheck, Points, BoundPoints, NoChangePoints, DispatchPoints,
        UndoPoints, ResolvePoints
  <2>3. BoundaryTypeOK' /\ ApprovalTypeOK' /\ OperatorTypeOK'
    BY <1>10 DEF PostCommitCheck, BoundaryTypeOK, ApprovalTypeOK, OperatorTypeOK
  <2> QED
    BY <2>2, <2>3
<1>11. ASSUME NEW c \in Callers, AuthorizeAudit(c) PROVE TypeOK'
  BY <1>11, SMTT(30)
  DEF AuthorizeAudit, Goto, Keep, BoundaryTypeOK, ApprovalTypeOK, CallTypeOK,
      OperatorTypeOK, Points, BoundPoints, NoChangePoints, DispatchPoints,
      UndoPoints, ResolvePoints, Statuses, Active, Terminal, Completed, Time,
      AnswerRow, Answers, NoAnswer
<1>12. ASSUME NEW c \in Callers, ReserveDispatchWindow(c) PROVE TypeOK'
  BY <1>12, SMTT(30)
  DEF ReserveDispatchWindow, ReserveWindow, WindowRow, Goto, Keep,
      BoundaryTypeOK, ApprovalTypeOK, CallTypeOK, OperatorTypeOK, Points,
      BoundPoints, NoChangePoints, DispatchPoints, UndoPoints, ResolvePoints,
      Statuses, Active, Terminal, Completed, Time, AnswerRow, Answers,
      NoAnswer
<1>13. ASSUME NEW c \in Callers, FinalCheck(c) PROVE TypeOK'
  BY <1>13, SMTT(30)
  DEF FinalCheck, Revalidate, Goto, BoundaryTypeOK, ApprovalTypeOK, CallTypeOK,
      OperatorTypeOK, Points, BoundPoints, NoChangePoints, DispatchPoints,
      UndoPoints, ResolvePoints, Statuses, Active, Terminal, Completed, Time,
      AnswerRow, Answers, NoAnswer
<1>14. ASSUME NEW c \in Callers, ImmediateCheck(c) PROVE TypeOK'
  BY <1>14, SMTT(30)
  DEF ImmediateCheck, Revalidate, Goto, BoundaryTypeOK, ApprovalTypeOK,
      CallTypeOK, OperatorTypeOK, Points, BoundPoints, NoChangePoints,
      DispatchPoints, UndoPoints, ResolvePoints, Statuses, Active, Terminal,
      Completed, Time, AnswerRow, Answers, NoAnswer
<1>15. ASSUME NEW c \in Callers, ConsumeGate(c) PROVE TypeOK'
  BY <1>15, SMTT(30)
  DEF ConsumeGate, Goto, Keep, BoundaryTypeOK, ApprovalTypeOK, CallTypeOK,
      OperatorTypeOK, Points, BoundPoints, NoChangePoints, DispatchPoints,
      UndoPoints, ResolvePoints, Statuses, Active, Terminal, Completed, Time,
      AnswerRow, Answers, NoAnswer
<1>16. ASSUME NEW c \in Callers, ConsumeApproval(c) PROVE TypeOK'
  BY <1>16, SMTT(30)
  DEF ConsumeApproval, Goto, Keep, BoundaryTypeOK, ApprovalTypeOK, CallTypeOK,
      OperatorTypeOK, Points, BoundPoints, NoChangePoints, DispatchPoints,
      UndoPoints, ResolvePoints, Statuses, Active, Terminal, Completed, Time,
      AnswerRow, Answers, NoAnswer
<1>17. ASSUME NEW c \in Callers, Transport(c) PROVE TypeOK'
  BY <1>17, SMTT(30)
  DEF Transport, CountWrite, Goto, Keep, BoundaryTypeOK, ApprovalTypeOK,
      CallTypeOK, OperatorTypeOK, Points, BoundPoints, NoChangePoints,
      DispatchPoints, UndoPoints, ResolvePoints, Statuses, Active, Terminal,
      Completed, Time, AnswerRow, Answers, NoAnswer
<1>18. ASSUME NEW c \in Callers, TransportEnds(c) PROVE TypeOK'
  <2>1. CallHolds(c)
    BY <1>18
    DEF TransportEnds, CallHolds, CallTypeOK, BoundaryTypeOK, NoChangePoints
  <2>2. /\ target' \in [Targets -> Values] /\ timedOut' \in BOOLEAN
        /\ writes' \in [Proposals -> Nat]
    <3>1. CASE UNCHANGED adapterVars
      BY <3>1 DEF BoundaryTypeOK
    <3>2. CASE ~UNCHANGED adapterVars
      <4>1. TakeEffect(key[c])
        BY <1>18, <3>2 DEF TransportEnds
      <4> QED
        BY <2>1, <4>1, TakeEffectTyped DEF CallHolds, BoundaryTypeOK
    <3> QED
      BY <3>1, <3>2
  <2>3. BoundaryTypeOK'
    BY <1>18, <2>2 DEF TransportEnds, BoundaryTypeOK
  <2>4. CallTypeOK'
    BY <1>18, <2>1, ReturnTyped, GotoTyped
    DEF CallHolds, TransportEnds, Points, BoundPoints, NoChangePoints,
        DispatchPoints, UndoPoints, ResolvePoints, Statuses, Active, Terminal,
        Completed, Answers
  <2>5. ApprovalTypeOK' /\ OperatorTypeOK'
    BY <1>18, <2>1 DEF CallHolds, TransportEnds, ApprovalTypeOK, OperatorTypeOK
  <2> QED
    BY <2>3, <2>4, <2>5
<1>19. ASSUME NEW c \in Callers, ReleaseRefusedWindow(c) PROVE TypeOK'
  <2>1. CallHolds(c)
    BY <1>19
    DEF ReleaseRefusedWindow, CallHolds, CallTypeOK, BoundaryTypeOK,
        NoChangePoints
  <2>2. window' \in WindowRow
    <3>1. CASE UNCHANGED window
      BY <3>1 DEF BoundaryTypeOK
    <3>2. CASE ~UNCHANGED window
      BY <1>19, <2>1, <3>2, WindowTyped
      DEF ReleaseRefusedWindow, CallHolds, ReleaseOrFail
    <3> QED
      BY <3>1, <3>2
  <2>3. BoundaryTypeOK'
    BY <1>19, <2>2 DEF ReleaseRefusedWindow, BoundaryTypeOK
  <2>4. CallTypeOK'
    BY <1>19, <2>1, ReturnTyped, GotoTyped
    DEF CallHolds, ReleaseRefusedWindow, Points, BoundPoints, NoChangePoints,
        DispatchPoints, UndoPoints, ResolvePoints, Statuses, Active, Terminal,
        Completed, Answers
  <2>5. ApprovalTypeOK' /\ OperatorTypeOK'
    BY <1>19, <2>1
    DEF CallHolds, ReleaseRefusedWindow, ApprovalTypeOK, OperatorTypeOK
  <2> QED
    BY <2>3, <2>4, <2>5
<1>20. ASSUME NEW c \in Callers, Unreserve(c) PROVE TypeOK'
  BY <1>20, SMTT(30)
  DEF Unreserve, ReleaseApprovalReservation, Goto, Keep, BoundaryTypeOK,
      ApprovalTypeOK, CallTypeOK, OperatorTypeOK, Points, BoundPoints,
      NoChangePoints, DispatchPoints, UndoPoints, ResolvePoints, Statuses,
      Active, Terminal, Completed, Time, AnswerRow, Answers, NoAnswer
<1>21. ASSUME NEW c \in Callers, Block(c) PROVE TypeOK'
  <2>1. CallHolds(c)
    BY <1>21 DEF Block, CallHolds, CallTypeOK, BoundaryTypeOK, NoChangePoints
  <2>2. /\ status' \in [Proposals -> Statuses \cup {"NONE"}]
        /\ updatedAt' \in [Proposals -> Time]
    <3>1. CASE UNCHANGED ledgerVars
      BY <3>1 DEF BoundaryTypeOK
    <3>2. CASE ~UNCHANGED ledgerVars
      BY <1>21, <2>1, <3>2, FinishTyped
      DEF Block, CallHolds, Statuses, Active, Terminal, Completed
    <3> QED
      BY <3>1, <3>2
  <2>3. BoundaryTypeOK'
    BY <1>21, <2>2 DEF Block, BoundaryTypeOK
  <2>4. CallTypeOK'
    BY <1>21, <2>1, ReturnTyped, GotoTyped
    DEF CallHolds, Block, Points, BoundPoints, NoChangePoints, DispatchPoints,
        UndoPoints, ResolvePoints, Statuses, Active, Terminal, Completed,
        Answers
  <2>5. ApprovalTypeOK' /\ OperatorTypeOK'
    BY <1>21, <2>1 DEF CallHolds, Block, ApprovalTypeOK, OperatorTypeOK
  <2> QED
    BY <2>3, <2>4, <2>5
<1>22. ASSUME NEW c \in Callers, Observe(c) PROVE TypeOK'
  <2>1. CallHolds(c)
    BY <1>22 DEF Observe, CallHolds, CallTypeOK, BoundaryTypeOK, NoChangePoints
  <2>3. BoundaryTypeOK'
    BY <1>22 DEF Observe, BoundaryTypeOK
  <2>4. CallTypeOK'
    BY <1>22, <2>1
    DEF CallHolds, Observe, Classify, Goto, CallTypeOK, Points, BoundPoints,
        NoChangePoints, DispatchPoints, UndoPoints, ResolvePoints, Statuses,
        Active, Terminal, Completed, Answers, AnswerRow, NoAnswer, Time
  <2>5. ApprovalTypeOK' /\ OperatorTypeOK'
    BY <1>22, <2>1 DEF CallHolds, Observe, ApprovalTypeOK, OperatorTypeOK
  <2> QED
    BY <2>3, <2>4, <2>5
<1>23. ASSUME NEW c \in Callers, FinishExecution(c) PROVE TypeOK'
  <2>1. CallHolds(c)
    BY <1>23
    DEF FinishExecution, CallHolds, CallTypeOK, BoundaryTypeOK, NoChangePoints
  <2>2. /\ status' \in [Proposals -> Statuses \cup {"NONE"}]
        /\ updatedAt' \in [Proposals -> Time]
    <3>1. CASE UNCHANGED ledgerVars
      BY <3>1 DEF BoundaryTypeOK
    <3>2. CASE ~UNCHANGED ledgerVars
      BY <1>23, <2>1, <3>2, FinishTyped
      DEF FinishExecution, CallHolds, Statuses, Active, Terminal, Completed
    <3> QED
      BY <3>1, <3>2
  <2>3. BoundaryTypeOK'
    BY <1>23, <2>2 DEF FinishExecution, BoundaryTypeOK
  <2>4. CallTypeOK'
    BY <1>23, <2>1, ReturnTyped, GotoTyped
    DEF CallHolds, FinishExecution, Raise, Points, BoundPoints, NoChangePoints,
        DispatchPoints, UndoPoints, ResolvePoints, Statuses, Active, Terminal,
        Completed, Answers
  <2>5. ApprovalTypeOK' /\ OperatorTypeOK'
    BY <1>23, <2>1
    DEF CallHolds, FinishExecution, ApprovalTypeOK, OperatorTypeOK
  <2> QED
    BY <2>3, <2>4, <2>5
<1>24. ASSUME NEW c \in Callers, SettleWindow(c) PROVE TypeOK'
  <2>1. CallHolds(c)
    BY <1>24
    DEF SettleWindow, CallHolds, CallTypeOK, BoundaryTypeOK, NoChangePoints
  <2>2. window' \in WindowRow
    <3>1. CASE UNCHANGED window
      BY <3>1 DEF BoundaryTypeOK
    <3>2. CASE ~UNCHANGED window
      BY <1>24, <2>1, <3>2, WindowTyped
      DEF SettleWindow, CallHolds, ReleaseOrFail
    <3> QED
      BY <3>1, <3>2
  <2>3. BoundaryTypeOK'
    BY <1>24, <2>2 DEF SettleWindow, BoundaryTypeOK
  <2>4. CallTypeOK'
    BY <1>24, <2>1, ReturnTyped, GotoTyped
    DEF CallHolds, SettleWindow, Raise, Points, BoundPoints, NoChangePoints,
        DispatchPoints, UndoPoints, ResolvePoints, Statuses, Active, Terminal,
        Completed, Answers
  <2>5. ApprovalTypeOK' /\ OperatorTypeOK'
    BY <1>24, <2>1 DEF CallHolds, SettleWindow, ApprovalTypeOK, OperatorTypeOK
  <2> QED
    BY <2>3, <2>4, <2>5
<1>25. ASSUME NEW c \in Callers, Crash(c) PROVE TypeOK'
  <2>1. CallHolds(c)
    BY <1>25 DEF Crash, CallHolds, CallTypeOK, BoundaryTypeOK, NoChangePoints
  <2>2. /\ target' \in [Targets -> Values] /\ timedOut' \in BOOLEAN
        /\ writes' \in [Proposals -> Nat]
    <3>1. CASE UNCHANGED adapterVars
      BY <3>1 DEF BoundaryTypeOK
    <3>2. CASE ~UNCHANGED adapterVars
      <4>1. TakeEffect(key[c])
        BY <1>25, <3>2 DEF Crash
      <4> QED
        BY <2>1, <4>1, TakeEffectTyped DEF CallHolds, BoundaryTypeOK
    <3> QED
      BY <3>1, <3>2
  <2>3. BoundaryTypeOK'
    BY <1>25, <2>2 DEF Crash, BoundaryTypeOK
  <2>4. CallTypeOK'
    BY <1>25, <2>1, ReturnTyped, GotoTyped
    DEF CallHolds, Crash, Points, BoundPoints, NoChangePoints, DispatchPoints,
        UndoPoints, ResolvePoints, Statuses, Active, Terminal, Completed,
        Answers
  <2>5. ApprovalTypeOK' /\ OperatorTypeOK'
    BY <1>25, <2>1 DEF CallHolds, Crash, ApprovalTypeOK, OperatorTypeOK
  <2> QED
    BY <2>3, <2>4, <2>5
<1>26. ASSUME NEW c \in Callers, StorageError(c) PROVE TypeOK'
  <2>1. CallHolds(c)
    BY <1>26
    DEF StorageError, CallHolds, CallTypeOK, BoundaryTypeOK, NoChangePoints
  <2>2. window' \in WindowRow
    <3>1. CASE UNCHANGED window
      BY <3>1 DEF BoundaryTypeOK
    <3>2. CASE ~UNCHANGED window
      BY <1>26, <2>1, <3>2, WindowTyped
      DEF StorageError, CallHolds, ReleaseOrFail
    <3> QED
      BY <3>1, <3>2
  <2>3. BoundaryTypeOK'
    BY <1>26, <2>2 DEF StorageError, BoundaryTypeOK
  <2>4. CallTypeOK'
    BY <1>26, <2>1, ReturnTyped, GotoTyped
    DEF CallHolds, StorageError, Points, BoundPoints, NoChangePoints,
        DispatchPoints, UndoPoints, ResolvePoints, Statuses, Active, Terminal,
        Completed, Answers
  <2>5. ApprovalTypeOK' /\ OperatorTypeOK'
    BY <1>26, <2>1 DEF CallHolds, StorageError, ApprovalTypeOK, OperatorTypeOK
  <2> QED
    BY <2>3, <2>4, <2>5
<1>27. ASSUME NEW a \in Approvals, NEW p \in Proposals, NEW e \in 1..(MaxClock + 1), GrantApproval(a, p, e) PROVE TypeOK'
  BY <1>27, SMTT(30)
  DEF GrantApproval, Grant, NoAnswer, AnswerRow, BoundaryTypeOK,
      ApprovalTypeOK, CallTypeOK, OperatorTypeOK, Points, BoundPoints,
      NoChangePoints, DispatchPoints, UndoPoints, ResolvePoints, Statuses,
      Active, Terminal, Completed, Time, AnswerRow, Answers, NoAnswer
<1>28. ASSUME NEW a \in Approvals, RevokeApproval(a) PROVE TypeOK'
  BY <1>28, SMTT(30)
  DEF RevokeApproval, BoundaryTypeOK, ApprovalTypeOK, CallTypeOK,
      OperatorTypeOK, Points, BoundPoints, NoChangePoints, DispatchPoints,
      UndoPoints, ResolvePoints, Statuses, Active, Terminal, Completed, Time,
      AnswerRow, Answers, NoAnswer
<1>29. ASSUME NEW o \in Operators, NEW s \in Scopes, EngageSidecar(o, s) PROVE TypeOK'
  BY <1>29, SMTT(30)
  DEF EngageSidecar, BoundaryTypeOK, ApprovalTypeOK, CallTypeOK,
      OperatorTypeOK, Points, BoundPoints, NoChangePoints, DispatchPoints,
      UndoPoints, ResolvePoints, Statuses, Active, Terminal, Completed, Time,
      AnswerRow, Answers, NoAnswer
<1>30. ASSUME NEW o \in Operators, EngageMain(o) PROVE TypeOK'
  BY <1>30, SMTT(30)
  DEF EngageMain, BoundaryTypeOK, ApprovalTypeOK, CallTypeOK, OperatorTypeOK,
      Points, BoundPoints, NoChangePoints, DispatchPoints, UndoPoints,
      ResolvePoints, Statuses, Active, Terminal, Completed, Time, AnswerRow,
      Answers, NoAnswer
<1>31. ASSUME NEW o \in Operators, NEW s \in Scopes, ReleaseMain(o, s) PROVE TypeOK'
  BY <1>31, SMTT(30)
  DEF ReleaseMain, BoundaryTypeOK, ApprovalTypeOK, CallTypeOK, OperatorTypeOK,
      Points, BoundPoints, NoChangePoints, DispatchPoints, UndoPoints,
      ResolvePoints, Statuses, Active, Terminal, Completed, Time, AnswerRow,
      Answers, NoAnswer
<1>32. ASSUME NEW o \in Operators, ReleaseSidecar(o) PROVE TypeOK'
  BY <1>32, SMTT(30)
  DEF ReleaseSidecar, BoundaryTypeOK, ApprovalTypeOK, CallTypeOK,
      OperatorTypeOK, Points, BoundPoints, NoChangePoints, DispatchPoints,
      UndoPoints, ResolvePoints, Statuses, Active, Terminal, Completed, Time,
      AnswerRow, Answers, NoAnswer
<1>33. ASSUME NEW o \in Operators, OperatorCrash(o) PROVE TypeOK'
  BY <1>33, SMTT(30)
  DEF OperatorCrash, BoundaryTypeOK, ApprovalTypeOK, CallTypeOK,
      OperatorTypeOK, Points, BoundPoints, NoChangePoints, DispatchPoints,
      UndoPoints, ResolvePoints, Statuses, Active, Terminal, Completed, Time,
      AnswerRow, Answers, NoAnswer
<1>34. ASSUME TimePasses PROVE TypeOK'
  BY <1>34, SMTT(30)
  DEF TimePasses, Tick, BoundaryTypeOK, ApprovalTypeOK, CallTypeOK,
      OperatorTypeOK, Points, BoundPoints, NoChangePoints, DispatchPoints,
      UndoPoints, ResolvePoints, Statuses, Active, Terminal, Completed, Time,
      AnswerRow, Answers, NoAnswer
<1>35. CASE UNCHANGED vars
  BY <1>35, SMTT(30)
  DEF vars, BoundaryTypeOK, ApprovalTypeOK, CallTypeOK, OperatorTypeOK, Points,
      BoundPoints, NoChangePoints, DispatchPoints, UndoPoints, ResolvePoints,
      Statuses, Active, Terminal, Completed, Time, AnswerRow, Answers,
      NoAnswer
<1> QED
  BY <1>1, <1>2, <1>3, <1>4, <1>5, <1>6, <1>7, <1>8, <1>9, <1>10, <1>11, <1>12,
     <1>13, <1>14, <1>15, <1>16, <1>17, <1>18, <1>19, <1>20, <1>21, <1>22,
     <1>23, <1>24, <1>25, <1>26, <1>27, <1>28, <1>29, <1>30, <1>31, <1>32,
     <1>33, <1>34, <1>35
  DEF Next, CallStep

\* Every table, local variable and program counter keeps its type, whatever the
\* calls, the operators and the faults do (TypeOK).
THEOREM TypeCorrect == Spec => []TypeOK
BY TypeInit, TypeNext, PTL DEF Spec

-----------------------------------------------------------------------------
(* The ledger.  Only a call at one of these points writes a row, only the  *)
(* row of its own key, and only along the arrows of ExecutionStatus.       *)
LedgerPoints == {"reserve_no_change", "begin_no_change", "finish_no_change",
                 "send", "block", "audit_block", "finish"}

OpenMove(p) ==
  /\ status[p] = "NONE" /\ ~OtherActive /\ ~UnknownOutstanding
  /\ \E s \in Active : status' = [status EXCEPT ![p] = s]
StartMove(p) ==
  status[p] = "RESERVED" /\ status' = [status EXCEPT ![p] = "IN_FLIGHT"]
CloseMove(p) ==
  /\ status[p] \in Active
  /\ \E s \in Terminal : status' = [status EXCEPT ![p] = s]
LedgerMove(p) == OpenMove(p) \/ StartMove(p) \/ CloseMove(p)

LedgerStep ==
  \/ UNCHANGED status
  \/ \E c \in Callers : /\ pc[c] \in LedgerPoints
                        /\ key[c] \in Proposals
                        /\ LedgerMove(key[c])

LEMMA LedgerMoves == TypeOK /\ [Next]_vars => LedgerStep
<1> SUFFICES ASSUME TypeOK, [Next]_vars PROVE LedgerStep
  OBVIOUS
<1> USE DEF TypeOK, CallTypeOK, boundaryVars, ledgerVars
<1>1. ASSUME NEW c \in Callers,
             \/ Evaluate(c) \/ ReadBefore(c) \/ ReleaseNoChange(c)
             \/ PostCommitCheck(c) \/ AuthorizeAudit(c)
             \/ ReserveDispatchWindow(c) \/ FinalCheck(c) \/ ImmediateCheck(c)
             \/ ConsumeGate(c) \/ ConsumeApproval(c) \/ Transport(c)
             \/ TransportEnds(c) \/ ReleaseRefusedWindow(c) \/ Unreserve(c)
             \/ Observe(c) \/ SettleWindow(c) \/ Crash(c) \/ StorageError(c)
             \/ \E p \in Proposals : Execute(c, p) \/ Reconcile(c, p)
      PROVE  UNCHANGED status
  BY <1>1
  DEF Evaluate, ReadBefore, ReleaseNoChange, PostCommitCheck, AuthorizeAudit,
      ReserveDispatchWindow, FinalCheck, ImmediateCheck, Revalidate, ConsumeGate,
      ConsumeApproval, Transport, TransportEnds, ReleaseRefusedWindow, Unreserve,
      Observe, SettleWindow, Crash, StorageError, Execute, Reconcile
<1>2. ASSUME \/ \E a \in Approvals :
                  \/ \E p \in Proposals, e \in 1..(MaxClock + 1) :
                       GrantApproval(a, p, e)
                  \/ RevokeApproval(a)
             \/ \E o \in Operators :
                  \/ \E s \in Scopes : EngageSidecar(o, s) \/ ReleaseMain(o, s)
                  \/ EngageMain(o) \/ ReleaseSidecar(o) \/ OperatorCrash(o)
             \/ TimePasses \/ UNCHANGED vars
      PROVE  UNCHANGED status
  BY <1>2
  DEF GrantApproval, RevokeApproval, EngageSidecar, ReleaseMain, EngageMain,
      ReleaseSidecar, OperatorCrash, TimePasses, vars
<1>3. ASSUME NEW c \in Callers, ReserveNoChange(c) PROVE LedgerStep
  BY <1>3
  DEF ReserveNoChange, SetStatus, LedgerStep, LedgerMove, OpenMove, LedgerPoints,
      Active
<1>4. ASSUME NEW c \in Callers, BeginNoChange(c) PROVE LedgerStep
  BY <1>4 DEF BeginNoChange, SetStatus, LedgerStep, LedgerMove, StartMove, LedgerPoints
<1>5. ASSUME NEW c \in Callers, FinishNoChange(c) PROVE LedgerStep
  BY <1>5
  DEF FinishNoChange, Finish, SetStatus, LedgerStep, LedgerMove, CloseMove,
      LedgerPoints, Terminal, Completed
<1>6. ASSUME NEW c \in Callers, SendTransaction(c) PROVE LedgerStep
  BY <1>6
  DEF SendTransaction, SetStatus, LedgerStep, LedgerMove, OpenMove, LedgerPoints,
      Active
<1>7. ASSUME NEW c \in Callers, Block(c) PROVE LedgerStep
  BY <1>7
  DEF Block, Finish, SetStatus, LedgerStep, LedgerMove, CloseMove, LedgerPoints,
      Terminal, Completed
<1>8. ASSUME NEW c \in Callers, FinishExecution(c) PROVE LedgerStep
  BY <1>8
  DEF FinishExecution, Finish, SetStatus, LedgerStep, LedgerMove, CloseMove,
      LedgerPoints
<1> QED
  BY <1>1, <1>2, <1>3, <1>4, <1>5, <1>6, <1>7, <1>8 DEF Next, CallStep, LedgerStep

\* At most one execution is RESERVED, IN_FLIGHT or UNKNOWN_RESULT.
THEOREM OneUnresolvedHolds == Spec => []OneUnresolved
<1>1. Init => OneUnresolved
  BY DEF Init, BoundaryInit, OneUnresolved, Unresolved, Active
<1>2. TypeOK /\ OneUnresolved /\ [Next]_vars => OneUnresolved'
  <2> SUFFICES ASSUME TypeOK, OneUnresolved, [Next]_vars PROVE OneUnresolved'
    OBVIOUS
  <2> USE DEF TypeOK, BoundaryTypeOK, OneUnresolved, Unresolved, Active
  <2>1. CASE UNCHANGED status
    BY <2>1
  <2>2. ASSUME NEW k \in Proposals, OpenMove(k) PROVE OneUnresolved'
    BY <2>2 DEF OpenMove, OtherActive, UnknownOutstanding
  <2>3. ASSUME NEW k \in Proposals, StartMove(k) PROVE OneUnresolved'
    BY <2>3 DEF StartMove
  <2>4. ASSUME NEW k \in Proposals, CloseMove(k) PROVE OneUnresolved'
    BY <2>4 DEF CloseMove
  <2> QED
    BY <2>1, <2>2, <2>3, <2>4, LedgerMoves DEF LedgerStep, LedgerMove
<1> QED
  BY <1>1, <1>2, TypeCorrect, PTL DEF Spec

\* No step rewrites a terminal execution.
THEOREM TerminalIsFinalHolds == Spec => TerminalIsFinal
<1>1. TypeOK /\ [Next]_vars =>
        \A p \in Proposals : status[p] \in Terminal => status'[p] = status[p]
  BY LedgerMoves
  DEF TypeOK, BoundaryTypeOK, LedgerStep, LedgerMove, OpenMove, StartMove,
      CloseMove, Terminal, Completed, Active
<1>2. TypeOK /\ [Next]_vars =>
        [\A p \in Proposals : status[p] \in Terminal => status'[p] = status[p]]_vars
  BY <1>1
<1> QED
  BY <1>2, TypeCorrect, PTL DEF Spec, TerminalIsFinal

-----------------------------------------------------------------------------
(* One write per key.  A call may only reach the transport along send_once, *)
(* behind the insertion of its row; the row is inserted once, so one call   *)
(* per key is ever on that way, and it has not written yet.                 *)
OneSender ==
  /\ \A p \in Proposals : status[p] = "NONE" => writes[p] = 0
  /\ \A c \in Callers : pc[c] \in DispatchPoints =>
       status[key[c]] # "NONE" /\ writes[key[c]] = 0
  /\ \A c, d \in Callers :
       /\ pc[c] \in DispatchPoints /\ pc[d] \in DispatchPoints
       /\ key[c] = key[d]
       => c = d

\* No call enters the way to the transport, and none on it changes its key.
NoNewSender ==
  \A c \in Callers : pc'[c] \in DispatchPoints =>
    pc[c] \in DispatchPoints /\ key'[c] = key[c]

LEMMA CallsMove ==
  ASSUME TypeOK, [Next]_vars
  PROVE  /\ NoNewSender \/ \E c \in Callers : SendTransaction(c)
         /\ UNCHANGED writes \/ \E c \in Callers : Transport(c)
<1> USE DEF TypeOK, CallTypeOK, boundaryVars, adapterVars, callVars, NoNewSender,
        DispatchPoints, Goto, Return, Keep
<1>1. ASSUME NEW c \in Callers,
             \/ PostCommitCheck(c) \/ AuthorizeAudit(c)
             \/ ReserveDispatchWindow(c) \/ FinalCheck(c) \/ ImmediateCheck(c)
             \/ ConsumeGate(c) \/ ConsumeApproval(c)
      PROVE  NoNewSender /\ UNCHANGED writes
  BY <1>1
  DEF PostCommitCheck, AuthorizeAudit, ReserveDispatchWindow, FinalCheck,
      ImmediateCheck, Revalidate, ConsumeGate, ConsumeApproval
<1>2. ASSUME NEW c \in Callers,
             \/ Evaluate(c) \/ ReadBefore(c) \/ ReserveNoChange(c)
             \/ BeginNoChange(c) \/ ReleaseNoChange(c) \/ FinishNoChange(c)
             \/ ReleaseRefusedWindow(c) \/ Unreserve(c) \/ Block(c)
      PROVE  NoNewSender /\ UNCHANGED writes
  BY <1>2
  DEF Evaluate, ReadBefore, ReserveNoChange, BeginNoChange, ReleaseNoChange,
      FinishNoChange, ReleaseRefusedWindow, Unreserve, Block
<1>3. ASSUME NEW c \in Callers,
             \/ Observe(c) \/ FinishExecution(c) \/ SettleWindow(c)
             \/ StorageError(c)
      PROVE  NoNewSender /\ UNCHANGED writes
  BY <1>3 DEF Observe, FinishExecution, SettleWindow, StorageError, Raise
<1>4. ASSUME NEW c \in Callers, TransportEnds(c) \/ Crash(c)
      PROVE  NoNewSender /\ UNCHANGED writes
  BY <1>4 DEF TransportEnds, Crash, TakeEffect
<1>5. ASSUME NEW c \in Callers, NEW p \in Proposals,
             Execute(c, p) \/ Reconcile(c, p)
      PROVE  NoNewSender /\ UNCHANGED writes
  BY <1>5 DEF Execute, Reconcile, StartCall, AnswerAtOnce
<1>6. ASSUME NEW c \in Callers, Transport(c) PROVE NoNewSender
  BY <1>6 DEF Transport
<1>7. ASSUME NEW c \in Callers, SendTransaction(c) PROVE UNCHANGED writes
  BY <1>7 DEF SendTransaction
<1>8. ASSUME \/ \E a \in Approvals :
                  \/ \E p \in Proposals, e \in 1..(MaxClock + 1) :
                       GrantApproval(a, p, e)
                  \/ RevokeApproval(a)
             \/ \E o \in Operators :
                  \/ \E s \in Scopes : EngageSidecar(o, s) \/ ReleaseMain(o, s)
                  \/ EngageMain(o) \/ ReleaseSidecar(o) \/ OperatorCrash(o)
             \/ TimePasses \/ UNCHANGED vars
      PROVE  NoNewSender /\ UNCHANGED writes
  BY <1>8
  DEF GrantApproval, RevokeApproval, EngageSidecar, ReleaseMain, EngageMain,
      ReleaseSidecar, OperatorCrash, TimePasses, vars
<1> QED
  BY <1>1, <1>2, <1>3, <1>4, <1>5, <1>6, <1>7, <1>8 DEF Next, CallStep

LEMMA OneSenderInit == Init => OneSender /\ AtMostOneWrite
BY DEF Init, BoundaryInit, OneSender, AtMostOneWrite, DispatchPoints

LEMMA OneSenderNext ==
  TypeOK /\ OneSender /\ AtMostOneWrite /\ [Next]_vars
    => OneSender' /\ AtMostOneWrite'
<1> SUFFICES ASSUME TypeOK, OneSender, AtMostOneWrite, [Next]_vars
             PROVE  OneSender' /\ AtMostOneWrite'
  OBVIOUS
<1> USE DEF TypeOK, BoundaryTypeOK, CallTypeOK
<1>1. /\ status' \in [Proposals -> Statuses \cup {"NONE"}]
      /\ \A p \in Proposals : status'[p] = "NONE" => status[p] = "NONE"
  BY LedgerMoves, TypeNext
  DEF LedgerStep, LedgerMove, OpenMove, StartMove, CloseMove, Active, Terminal,
      Completed
<1>2. \A c \in Callers : pc[c] \in DispatchPoints => key[c] \in Proposals
  BY DEF DispatchPoints
<1>3. CASE NoNewSender /\ UNCHANGED writes
  BY <1>1, <1>2, <1>3 DEF OneSender, NoNewSender, AtMostOneWrite
<1>4. ASSUME NEW c \in Callers, SendTransaction(c)
      PROVE  OneSender' /\ AtMostOneWrite'
  <2>1. (key[c] \in Proposals /\ UNCHANGED writes /\ UNCHANGED key) \/ NoNewSender
    BY <1>4
    DEF SendTransaction, Goto, Return, Keep, NoNewSender, DispatchPoints, adapterVars
  <2>2. CASE NoNewSender
    BY <1>3, <1>4, <2>2 DEF SendTransaction, adapterVars
  <2>3. CASE ~NoNewSender
    <3>1. /\ pc' = [pc EXCEPT ![c] = "post_commit"] /\ UNCHANGED <<key, writes>>
          /\ key[c] \in Proposals
          /\ status[key[c]] = "NONE" /\ status'[key[c]] = "IN_FLIGHT"
      BY <1>4, <2>3
      DEF SendTransaction, SetStatus, Goto, Return, Keep, NoNewSender,
          DispatchPoints, adapterVars
    <3> QED
      BY <1>1, <1>2, <3>1 DEF OneSender, AtMostOneWrite, DispatchPoints
  <2> QED
    BY <2>2, <2>3
<1>5. ASSUME NEW c \in Callers, Transport(c)
      PROVE  OneSender' /\ AtMostOneWrite'
  <2>1. /\ pc[c] = "transport" /\ pc' = [pc EXCEPT ![c] = "apply"]
        /\ key[c] \in Proposals /\ UNCHANGED <<key, status>>
        /\ writes' = [writes EXCEPT ![key[c]] = @ + 1]
    BY <1>5 DEF Transport, CountWrite, Goto, Keep, ledgerVars
  <2> QED
    BY <1>2, <2>1 DEF OneSender, AtMostOneWrite, DispatchPoints
<1> QED
  BY <1>3, <1>4, <1>5, CallsMove

\* A key reaches the transport at most once in its life, across overlapping
\* duplicates, retries, reconciliations, crashes and storage errors.
THEOREM AtMostOneWriteHolds == Spec => []AtMostOneWrite
BY OneSenderInit, OneSenderNext, TypeCorrect, PTL DEF Spec

-----------------------------------------------------------------------------
(* Authority.  A reservation names the proposal it was granted for, a      *)
(* consumed approval stays consumed, and it can no longer be revoked.      *)
Authority ==
  /\ \A a \in Approvals :
       reservedFor[a] # NoKey => grants[a].proposal = reservedFor[a]
  /\ \A c \in Callers : pc[c] = "transport" => Backs(bound[c], key[c])
  /\ \A p \in Proposals : writes[p] > 0 => \E a \in Approvals : Backs(a, p)

\* What a step may do to the approvals: grant a fresh one, revoke an unused
\* one, reserve one for the proposal it was granted for, release a reservation
\* that was not consumed, or consume a reservation.
ApprovalStep ==
  \/ UNCHANGED approvalVars
  \/ \E a \in Approvals :
       \/ /\ grants[a] = NotGranted
          /\ \E p \in Proposals, e \in 1..(MaxClock + 1) :
               grants' = [grants EXCEPT ![a] =
                 [proposal |-> p, granted |-> clock, expires |-> e]]
          /\ UNCHANGED <<reservedFor, used, revoked>>
       \/ /\ a \notin used
          /\ revoked' = revoked \cup {a}
          /\ UNCHANGED <<grants, reservedFor, used>>
       \/ /\ a \notin used
          /\ \E k \in Proposals \cup {NoKey} :
               /\ reservedFor' = [reservedFor EXCEPT ![a] = k]
               /\ k # NoKey => grants[a].proposal = k
          /\ UNCHANGED <<grants, used, revoked>>
       \/ /\ a \notin revoked
          /\ used' = used \cup {a}
          /\ UNCHANGED <<grants, reservedFor, revoked>>

LEMMA ApprovalMoves == TypeOK /\ [Next]_vars => ApprovalStep
<1> SUFFICES ASSUME TypeOK, [Next]_vars PROVE ApprovalStep
  OBVIOUS
<1> USE DEF TypeOK, CallTypeOK, ApprovalTypeOK, approvalVars
<1>1. ASSUME NEW c \in Callers,
             \/ Evaluate(c) \/ ReadBefore(c) \/ ReserveNoChange(c)
             \/ FinishNoChange(c) \/ PostCommitCheck(c) \/ AuthorizeAudit(c)
             \/ ReserveDispatchWindow(c) \/ FinalCheck(c) \/ ImmediateCheck(c)
             \/ ConsumeGate(c) \/ Transport(c) \/ TransportEnds(c)
             \/ ReleaseRefusedWindow(c) \/ Block(c) \/ Observe(c)
             \/ FinishExecution(c) \/ SettleWindow(c) \/ Crash(c)
             \/ StorageError(c)
             \/ \E p \in Proposals : Execute(c, p) \/ Reconcile(c, p)
      PROVE  UNCHANGED approvalVars
  BY <1>1
  DEF Evaluate, ReadBefore, ReserveNoChange, FinishNoChange, PostCommitCheck,
      AuthorizeAudit, ReserveDispatchWindow, FinalCheck, ImmediateCheck,
      Revalidate, ConsumeGate, Transport, TransportEnds, ReleaseRefusedWindow,
      Block, Observe, FinishExecution, SettleWindow, Crash, StorageError, Execute,
      Reconcile
<1>2. ASSUME \/ \E o \in Operators :
                  \/ \E s \in Scopes : EngageSidecar(o, s) \/ ReleaseMain(o, s)
                  \/ EngageMain(o) \/ ReleaseSidecar(o) \/ OperatorCrash(o)
             \/ TimePasses \/ UNCHANGED vars
      PROVE  UNCHANGED approvalVars
  BY <1>2
  DEF EngageSidecar, ReleaseMain, EngageMain, ReleaseSidecar, OperatorCrash,
      TimePasses, vars
<1>3. ASSUME NEW c \in Callers, BeginNoChange(c) PROVE ApprovalStep
  BY <1>3
  DEF BeginNoChange, ReserveApproval, Reservable, ApprovalStep, BoundPoints,
      NoChangePoints
<1>4. ASSUME NEW c \in Callers, SendTransaction(c) PROVE ApprovalStep
  BY <1>4
  DEF SendTransaction, ReserveApproval, Reservable, ApprovalStep, BoundPoints
<1>5. ASSUME NEW c \in Callers, ReleaseNoChange(c) \/ Unreserve(c)
      PROVE  ApprovalStep
  BY <1>5
  DEF ReleaseNoChange, Unreserve, ReleaseApprovalReservation, ApprovalStep,
      BoundPoints, NoChangePoints
<1>6. ASSUME NEW c \in Callers, ConsumeApproval(c) PROVE ApprovalStep
  BY <1>6 DEF ConsumeApproval, ApprovalStep, BoundPoints, DispatchPoints
<1>7. ASSUME NEW a \in Approvals, NEW p \in Proposals,
             NEW e \in 1..(MaxClock + 1), GrantApproval(a, p, e)
      PROVE  ApprovalStep
  BY <1>7 DEF GrantApproval, ApprovalStep
<1>8. ASSUME NEW a \in Approvals, RevokeApproval(a) PROVE ApprovalStep
  BY <1>8 DEF RevokeApproval, ApprovalStep
<1> QED
  BY <1>1, <1>2, <1>3, <1>4, <1>5, <1>6, <1>7, <1>8
  DEF Next, CallStep, ApprovalStep

\* An approval that backs a proposal backs it for good.
LEMMA BackingLasts ==
  ASSUME TypeOK, [Next]_vars, NEW a \in Approvals, NEW p \in Proposals, Backs(a, p)
  PROVE  Backs(a, p)'
BY ApprovalMoves, NullAssumption
DEF NullAssumption, ApprovalStep, approvalVars, Backs, NotGranted, TypeOK,
    ApprovalTypeOK, Grant

\* A call reaches the transport by consuming its approval only, and keeps its
\* approval and its key while it is there.
LEMMA TransportReached ==
  ASSUME TypeOK, [Next]_vars, NEW d \in Callers, pc'[d] = "transport"
  PROVE  \/ ConsumeApproval(d)
         \/ pc[d] = "transport" /\ key'[d] = key[d] /\ bound'[d] = bound[d]
<1> USE DEF TypeOK, CallTypeOK, callVars, Goto, Return, Keep
<1>1. ASSUME NEW c \in Callers,
             \/ PostCommitCheck(c) \/ AuthorizeAudit(c)
             \/ ReserveDispatchWindow(c) \/ FinalCheck(c) \/ ImmediateCheck(c)
             \/ ConsumeGate(c) \/ SendTransaction(c)
      PROVE  pc[d] = "transport" /\ key'[d] = key[d] /\ bound'[d] = bound[d]
  BY <1>1
  DEF PostCommitCheck, AuthorizeAudit, ReserveDispatchWindow, FinalCheck,
      ImmediateCheck, Revalidate, ConsumeGate, SendTransaction
<1>2. ASSUME NEW c \in Callers,
             \/ Evaluate(c) \/ ReadBefore(c) \/ ReserveNoChange(c)
             \/ BeginNoChange(c) \/ ReleaseNoChange(c) \/ FinishNoChange(c)
             \/ ReleaseRefusedWindow(c) \/ Unreserve(c) \/ Block(c)
      PROVE  pc[d] = "transport" /\ key'[d] = key[d] /\ bound'[d] = bound[d]
  BY <1>2
  DEF Evaluate, ReadBefore, ReserveNoChange, BeginNoChange, ReleaseNoChange,
      FinishNoChange, ReleaseRefusedWindow, Unreserve, Block
<1>3. ASSUME NEW c \in Callers,
             \/ Observe(c) \/ FinishExecution(c) \/ SettleWindow(c)
             \/ StorageError(c) \/ Transport(c) \/ TransportEnds(c) \/ Crash(c)
             \/ \E p \in Proposals : Execute(c, p) \/ Reconcile(c, p)
      PROVE  pc[d] = "transport" /\ key'[d] = key[d] /\ bound'[d] = bound[d]
  BY <1>3
  DEF Observe, FinishExecution, SettleWindow, StorageError, Raise, Transport,
      TransportEnds, Crash, Execute, Reconcile, StartCall, AnswerAtOnce
<1>4. ASSUME NEW c \in Callers, ConsumeApproval(c), c # d
      PROVE  pc[d] = "transport" /\ key'[d] = key[d] /\ bound'[d] = bound[d]
  BY <1>4 DEF ConsumeApproval
<1>5. ASSUME \/ \E a \in Approvals :
                  \/ \E p \in Proposals, e \in 1..(MaxClock + 1) :
                       GrantApproval(a, p, e)
                  \/ RevokeApproval(a)
             \/ \E o \in Operators :
                  \/ \E s \in Scopes : EngageSidecar(o, s) \/ ReleaseMain(o, s)
                  \/ EngageMain(o) \/ ReleaseSidecar(o) \/ OperatorCrash(o)
             \/ TimePasses \/ UNCHANGED vars
      PROVE  pc[d] = "transport" /\ key'[d] = key[d] /\ bound'[d] = bound[d]
  BY <1>5
  DEF GrantApproval, RevokeApproval, EngageSidecar, ReleaseMain, EngageMain,
      ReleaseSidecar, OperatorCrash, TimePasses, vars
<1> QED
  BY <1>1, <1>2, <1>3, <1>4, <1>5 DEF Next, CallStep

LEMMA AuthorityInit == Init => Authority
BY DEF Init, BoundaryInit, Authority

LEMMA AuthorityNext == TypeOK /\ Authority /\ [Next]_vars => Authority'
<1> SUFFICES ASSUME TypeOK, Authority, [Next]_vars PROVE Authority'
  OBVIOUS
<1> USE DEF TypeOK, BoundaryTypeOK, CallTypeOK, ApprovalTypeOK
<1>1. \A a \in Approvals :
        reservedFor'[a] # NoKey => grants'[a].proposal = reservedFor'[a]
  BY ApprovalMoves, NullAssumption
  DEF NullAssumption, Authority, ApprovalStep, approvalVars, NotGranted, Grant
<1>2. ASSUME NEW c \in Callers, pc'[c] = "transport" PROVE Backs(bound[c], key[c])'
  <2>1. CASE pc[c] = "transport" /\ key'[c] = key[c] /\ bound'[c] = bound[c]
    <3>1. bound[c] \in Approvals /\ key[c] \in Proposals
      BY <2>1 DEF BoundPoints, DispatchPoints
    <3>2. Backs(bound[c], key[c])
      BY <2>1 DEF Authority
    <3> QED
      BY <2>1, <3>1, <3>2, BackingLasts DEF Backs
  <2>2. CASE ConsumeApproval(c)
    <3>1. bound[c] \in Approvals /\ key[c] \in Proposals
      BY <2>2 DEF ConsumeApproval, BoundPoints, DispatchPoints
    <3> QED
      BY <1>2, <2>2, <3>1, NullAssumption
      DEF NullAssumption, ConsumeApproval, Goto, Keep, Authority, Backs
  <2> QED
    BY <1>2, <2>1, <2>2, TransportReached
<1>3. ASSUME NEW p \in Proposals, writes'[p] > 0
      PROVE  \E a \in Approvals : Backs(a, p)'
  <2>1. CASE writes'[p] = writes[p]
    BY <1>3, <2>1, BackingLasts DEF Authority
  <2>2. CASE writes'[p] # writes[p]
    <3>1. PICK c \in Callers : Transport(c)
      BY <2>2, CallsMove
    <3>2. key[c] = p /\ pc[c] = "transport"
      BY <2>2, <3>1 DEF Transport, CountWrite
    <3>3. bound[c] \in Approvals /\ Backs(bound[c], p)
      BY <3>2 DEF Authority, BoundPoints, DispatchPoints
    <3> QED
      BY <3>3, BackingLasts
  <2> QED
    BY <2>1, <2>2
<1> QED
  BY <1>1, <1>2, <1>3 DEF Authority

\* Every write, and every call about to write, is backed by an approval granted
\* for this proposal, consumed for its key and not revoked.
THEOREM WriteIsAuthorisedHolds == Spec => []WriteIsAuthorised
<1>1. TypeOK /\ Authority => WriteIsAuthorised
  BY DEF TypeOK, CallTypeOK, BoundPoints, DispatchPoints, Authority,
         WriteIsAuthorised
<1> QED
  BY <1>1, AuthorityInit, AuthorityNext, TypeCorrect, PTL DEF Spec

-----------------------------------------------------------------------------
(* Refinement.  Where calls do not overlap on a key, the row of a call on  *)
(* its way to the transport is still IN_FLIGHT, since only that call could *)
(* close it; so the write falls while the key is open.                     *)
Exclusive ==
  /\ \A c, d \in Callers :
       pc[c] # "idle" /\ pc[d] # "idle" /\ key[c] = key[d] => c = d
  /\ \A c \in Callers : pc[c] \in DispatchPoints => status[key[c]] = "IN_FLIGHT"

\* No call begins, and none that runs changes its key.
NoNewCall ==
  \A c \in Callers : pc'[c] # "idle" => pc[c] # "idle" /\ key'[c] = key[c]

LEMMA CallsBegin ==
  ASSUME TypeOK, [Next]_vars
  PROVE  \/ NoNewCall
         \/ \E c \in Callers, p \in Proposals : Execute(c, p) \/ Reconcile(c, p)
<1> USE DEF TypeOK, CallTypeOK, callVars, NoNewCall, Goto, Return, Keep
<1>1. ASSUME NEW c \in Callers,
             \/ PostCommitCheck(c) \/ AuthorizeAudit(c)
             \/ ReserveDispatchWindow(c) \/ FinalCheck(c) \/ ImmediateCheck(c)
             \/ ConsumeGate(c) \/ ConsumeApproval(c) \/ SendTransaction(c)
      PROVE  NoNewCall
  BY <1>1
  DEF PostCommitCheck, AuthorizeAudit, ReserveDispatchWindow, FinalCheck,
      ImmediateCheck, Revalidate, ConsumeGate, ConsumeApproval, SendTransaction
<1>2. ASSUME NEW c \in Callers,
             \/ Evaluate(c) \/ ReadBefore(c) \/ ReserveNoChange(c)
             \/ BeginNoChange(c) \/ ReleaseNoChange(c) \/ FinishNoChange(c)
             \/ ReleaseRefusedWindow(c) \/ Unreserve(c) \/ Block(c)
      PROVE  NoNewCall
  BY <1>2
  DEF Evaluate, ReadBefore, ReserveNoChange, BeginNoChange, ReleaseNoChange,
      FinishNoChange, ReleaseRefusedWindow, Unreserve, Block
<1>3. ASSUME NEW c \in Callers,
             \/ Observe(c) \/ FinishExecution(c) \/ SettleWindow(c)
             \/ StorageError(c) \/ Transport(c) \/ TransportEnds(c) \/ Crash(c)
      PROVE  NoNewCall
  BY <1>3
  DEF Observe, FinishExecution, SettleWindow, StorageError, Raise, Transport,
      TransportEnds, Crash
<1>4. ASSUME \/ \E a \in Approvals :
                  \/ \E p \in Proposals, e \in 1..(MaxClock + 1) :
                       GrantApproval(a, p, e)
                  \/ RevokeApproval(a)
             \/ \E o \in Operators :
                  \/ \E s \in Scopes : EngageSidecar(o, s) \/ ReleaseMain(o, s)
                  \/ EngageMain(o) \/ ReleaseSidecar(o) \/ OperatorCrash(o)
             \/ TimePasses \/ UNCHANGED vars
      PROVE  NoNewCall
  BY <1>4
  DEF GrantApproval, RevokeApproval, EngageSidecar, ReleaseMain, EngageMain,
      ReleaseSidecar, OperatorCrash, TimePasses, vars
<1> QED
  BY <1>1, <1>2, <1>3, <1>4 DEF Next, CallStep

LEMMA ExclusiveInit == Init => Exclusive
BY DEF Init, Exclusive, DispatchPoints

LEMMA ExclusiveNext ==
  ASSUME ExclusiveCalls, TypeOK, Exclusive, [Next]_vars
  PROVE  Exclusive'
<1> USE DEF TypeOK, BoundaryTypeOK, CallTypeOK
<1>1. ASSUME NEW c \in Callers, NEW d \in Callers,
             pc'[c] # "idle", pc'[d] # "idle", key'[c] = key'[d]
      PROVE  c = d
  <2>1. CASE NoNewCall
    BY <1>1, <2>1 DEF NoNewCall, Exclusive
  <2>2. ASSUME NEW b \in Callers, NEW p \in Proposals,
               Execute(b, p) \/ Reconcile(b, p)
        PROVE  c = d
    BY <1>1, <2>2
    DEF Execute, Reconcile, MayWorkOn, StartCall, AnswerAtOnce, callVars, Exclusive
  <2> QED
    BY <2>1, <2>2, CallsBegin
<1>2. ASSUME NEW d \in Callers, pc'[d] \in DispatchPoints
      PROVE  status'[key'[d]] = "IN_FLIGHT"
  <2>1. CASE pc[d] \in DispatchPoints /\ key'[d] = key[d]
    <3>1. status[key[d]] = "IN_FLIGHT" /\ key[d] \in Proposals /\ pc[d] # "idle"
      BY <2>1 DEF Exclusive, DispatchPoints
    <3>2. ASSUME NEW c \in Callers, pc[c] \in LedgerPoints
          PROVE  key[c] # key[d]
      BY <2>1, <3>1, <3>2 DEF Exclusive, DispatchPoints, LedgerPoints
    <3> QED
      BY <2>1, <3>1, <3>2, LedgerMoves
      DEF LedgerStep, LedgerMove, OpenMove, StartMove, CloseMove
  <2>2. ASSUME NEW c \in Callers, SendTransaction(c),
               ~(pc[d] \in DispatchPoints /\ key'[d] = key[d])
        PROVE  status'[key'[d]] = "IN_FLIGHT"
    BY <1>2, <2>2
    DEF SendTransaction, SetStatus, Goto, Return, Keep, DispatchPoints
  <2> QED
    BY <1>2, <2>1, <2>2, CallsMove DEF NoNewSender
<1> QED
  BY <1>1, <1>2 DEF Exclusive

\* The values of the refinement mapping.
Phase == [p \in Proposals |->
            CASE status[p] = "NONE"       -> "new"
              [] status[p] \in Unresolved -> "open"
              [] OTHER                    -> "closed"]
Sent == {p \in Proposals : writes[p] > 0}

LEMMA PhaseMoves ==
  ASSUME TypeOK, NEW p \in Proposals, NEW s \in Statuses,
         status' = [status EXCEPT ![p] = s]
  PROVE  Phase' = [Phase EXCEPT ![p] = IF s \in Unresolved THEN "open" ELSE "closed"]
BY DEF TypeOK, BoundaryTypeOK, Phase, Unresolved, Active, Statuses, Terminal,
       Completed

\* Under exclusive calls the write path implements the single writer: one key
\* open at a time, opened once, written at most once and only while open.
THEOREM ImplementsSingleWriterHolds ==
  ASSUME ExclusiveCalls
  PROVE  Spec => ImplementsSingleWriter
<1>1. Init => Writer!SWInit
  <2> SUFFICES ASSUME Init
               PROVE  Phase = [k \in Proposals |-> "new"] /\ Sent = {}
    BY DEF Writer!SWInit, Phase, Sent
  <2>1. \A p \in Proposals : status[p] = "NONE" /\ writes[p] = 0
    BY DEF Init, BoundaryInit
  <2>2. Phase = [k \in Proposals |-> "new"]
    BY <2>1 DEF Phase, Unresolved, Active
  <2>3. Sent = {}
    BY <2>1 DEF Sent
  <2> QED
    BY <2>2, <2>3
<1>2. TypeOK /\ OneSender /\ Exclusive /\ [Next]_vars
        => [Writer!SWNext]_(Writer!swVars)
  <2> SUFFICES ASSUME TypeOK, OneSender, Exclusive, [Next]_vars
               PROVE  [Writer!SWNext]_(Writer!swVars)
    OBVIOUS
  <2> USE DEF TypeOK, BoundaryTypeOK, CallTypeOK
  <2>1. CASE UNCHANGED writes
    <3>1. Sent' = Sent
      BY <2>1 DEF Sent
    <3>2. CASE UNCHANGED status
      BY <3>1, <3>2 DEF Phase, Sent, Writer!swVars
    <3>3. ASSUME NEW p \in Proposals, OpenMove(p)
          PROVE  Writer!Open(p)
      <4>1. Phase[p] = "new" /\ \A q \in Proposals : Phase[q] # "open"
        BY <3>3 DEF OpenMove, OtherActive, UnknownOutstanding, Phase, Unresolved
      <4>2. Phase' = [Phase EXCEPT ![p] = "open"]
        BY <3>3, PhaseMoves DEF OpenMove, Unresolved, Statuses
      <4> QED
        BY <3>1, <4>1, <4>2 DEF Writer!Open, Phase, Sent
    <3>4. ASSUME NEW p \in Proposals, StartMove(p)
          PROVE  Phase' = Phase
      BY <3>4 DEF StartMove, Phase, Unresolved, Active
    <3>5. ASSUME NEW p \in Proposals, CloseMove(p)
          PROVE  Writer!Close(p) \/ Phase' = Phase
      <4>1. Phase[p] = "open"
        BY <3>5 DEF CloseMove, Phase, Unresolved, Active
      <4>2. PICK s \in Terminal : status' = [status EXCEPT ![p] = s]
        BY <3>5 DEF CloseMove
      <4>3. Phase' = [Phase EXCEPT ![p] = IF s \in Unresolved THEN "open"
                                                             ELSE "closed"]
        BY <4>2, PhaseMoves DEF Statuses
      <4>4. Phase \in [Proposals -> {"new", "open", "closed"}]
        BY DEF Phase
      <4>5. CASE s \in Unresolved
        BY <4>1, <4>3, <4>4, <4>5
      <4>6. CASE s \notin Unresolved
        <5>1. Phase' = [Phase EXCEPT ![p] = "closed"]
          BY <4>3, <4>6
        <5> QED
          BY <3>1, <4>1, <5>1 DEF Writer!Close, Phase, Sent
      <4> QED
        BY <4>5, <4>6
    <3> QED
      BY <3>1, <3>2, <3>3, <3>4, <3>5, LedgerMoves
      DEF LedgerStep, LedgerMove, Writer!SWNext, Writer!swVars, Phase, Sent
  <2>2. ASSUME NEW c \in Callers, NEW k \in Proposals, key[c] = k, Transport(c)
        PROVE  Writer!Send(k)
    <3>1. /\ status[k] = "IN_FLIGHT" /\ status' = status
          /\ writes[k] = 0 /\ writes' = [writes EXCEPT ![k] = 1]
      <4>1. pc[c] = "transport" /\ status' = status
            /\ writes' = [writes EXCEPT ![k] = writes[k] + 1]
        BY <2>2 DEF Transport, CountWrite, ledgerVars
      <4>2. status[k] = "IN_FLIGHT" /\ writes[k] = 0
        BY <2>2, <4>1 DEF OneSender, Exclusive, DispatchPoints
      <4> QED
        BY <4>1, <4>2
    <3>2. Phase[k] = "open" /\ Phase' = Phase
      BY <3>1 DEF Phase, Unresolved, Active
    <3>3. k \notin Sent /\ Sent' = Sent \cup {k}
      BY <3>1 DEF Sent
    <3> QED
      BY <3>2, <3>3 DEF Writer!Send, Phase, Sent
  <2>3. ASSUME NEW c \in Callers, Transport(c)
        PROVE  Writer!SWNext
    <3>1. PICK k \in Proposals : key[c] = k
      BY <2>3 DEF Transport
    <3>2. Writer!Send(k)
      BY <2>2, <2>3, <3>1
    <3> QED
      BY <3>2 DEF Writer!SWNext
  <2> QED
    BY <2>1, <2>3, CallsMove
<1> QED
  BY <1>1, <1>2, ExclusiveInit, ExclusiveNext, OneSenderInit, OneSenderNext,
     AtMostOneWriteHolds, TypeCorrect, PTL
  DEF Spec, ImplementsSingleWriter, Writer!SWSpec

-----------------------------------------------------------------------------
(* The quiet window and the answers.  Where calls do not overlap on a key   *)
(* and neither crash nor fail at a store, a call on its way to the          *)
(* transport, and after it until it settles, holds the write window; the    *)
(* row it works on is closed by itself only, and before its window is.      *)

\* where a call that executes holds the write window
WindowPoints == {"final_check", "immediate", "consume_gate", "consume",
                 "transport", "apply"}
\* where a call works on a row without having entered the window
ClosedPoints == {"begin_no_change", "release_no_change", "finish_no_change",
                 "audit_block"}

\* What a running call knows of the row of its key and of the window.
Knows(c, p) ==
  /\ mode[c] = "reconcile" => pc[c] \in ResolvePoints
  /\ mode[c] = "execute" /\ pc[c] # "settle" => status[p] # "APPLIED"
  /\ pc[c] \in ClosedPoints => ~HoldsWindow(p)
  /\ \/ pc[c] \in WindowPoints
     \/ mode[c] = "execute" /\ pc[c] \in ResolvePoints
     => HoldsWindow(p)
  /\ pc[c] = "apply" => status[p] = "IN_FLIGHT"
  /\ pc[c] \in {"observe", "finish"} => status[p] \in Active
  /\ pc[c] = "settle" => status[p] = seen[c]
  /\ ~adapter.timeout /\ mode[c] = "execute" =>
       /\ pc[c] = "observe" => target[TargetOf[p]] = TargetValue[p]
       /\ pc[c] = "finish" => seen[c] = "APPLIED"

Writing(c, p) ==
  key[c] = p /\ mode[c] = "execute" /\ pc[c] \in {"apply", "observe", "finish"}
Settling(c, p) == key[c] = p /\ pc[c] \in {"settle", "handler"}

\* the quiet window of an applied write is over, will begin or lasts
Quiet(p) ==
  \/ clock >= updatedAt[p] + Window
  \/ HoldsWindow(p)
  \/ window.status = "ACTIVE" /\ window.until >= updatedAt[p] + Window

\* What holds of a row whoever works on it.
RowHolds(p) ==
  /\ updatedAt[p] <= clock
  /\ HoldsWindow(p) => \/ status[p] \in {"IN_FLIGHT", "UNKNOWN_RESULT"}
                       \/ \E c \in Callers : Settling(c, p)
  /\ writes[p] > 0 => \/ status[p] \in Terminal
                      \/ \E c \in Callers : Writing(c, p)
  /\ ~adapter.timeout /\ writes[p] > 0 => status[p] \notin {"BLOCKED", "FAILED"}
  /\ writes[p] > 0 /\ status[p] = "APPLIED" => Quiet(p)

Orderly ==
  /\ \A c \in Callers : at[c] <= clock
  /\ \A c \in Callers : pc[c] # "idle" => Knows(c, key[c])
  /\ \A p \in Proposals : RowHolds(p)
  /\ ~adapter.timeout => timedOut = FALSE
  /\ BlockedMeansNotApplied

\* What holds of the row of a call's own key, in terms of that call alone.
OwnRow(c, p) ==
  /\ updatedAt[p] <= clock
  /\ HoldsWindow(p) => \/ status[p] \in {"IN_FLIGHT", "UNKNOWN_RESULT"}
                       \/ pc[c] \in {"settle", "handler"}
  /\ writes[p] > 0 =>
       \/ status[p] \in Terminal
       \/ mode[c] = "execute" /\ pc[c] \in {"apply", "observe", "finish"}
  /\ ~adapter.timeout /\ writes[p] > 0 => status[p] \notin {"BLOCKED", "FAILED"}
  /\ writes[p] > 0 /\ status[p] = "APPLIED" => Quiet(p)

WindowMove(p) ==
  \/ UNCHANGED window
  \/ WindowAvailable /\ ReserveWindow(p)
  \/ HoldsWindow(p) /\ ActivateWindow(p)
  \/ ReleaseWindow(p)

\* What a step of a running call leaves alone: the other calls, the rows of
\* the other keys, a window another key holds.
CallMove(c, p) ==
  /\ \A d \in Callers \ {c} :
       /\ pc'[d] = pc[d] /\ mode'[d] = mode[d] /\ key'[d] = key[d]
       /\ seen'[d] = seen[d] /\ at'[d] = at[d]
  /\ pc'[c] # "idle" => key'[c] = p /\ mode'[c] = mode[c]
  /\ \A q \in Proposals \ {p} :
       /\ status'[q] = status[q] /\ updatedAt'[q] = updatedAt[q]
       /\ writes'[q] = writes[q]
  /\ WindowMove(p)
  /\ at'[c] <= clock
  /\ UNCHANGED <<adapter, clock>>
  /\ UNCHANGED target \/ pc[c] = "apply"
  /\ UNCHANGED timedOut \/ adapter.timeout

\* A step of a running call is such a move.
LEMMA CallsMoveAlone ==
  ASSUME TypeOK, Faults = {}, NEW c \in Callers, CallStep(c), at[c] <= clock
  PROVE  key[c] \in Proposals /\ pc[c] # "idle" /\ CallMove(c, key[c])
<1> USE TimeAssumption
    DEF TimeAssumption, TypeOK, BoundaryTypeOK, CallTypeOK, boundaryVars,
        ledgerVars, callVars, adapterVars, Goto, Return, Keep, CallMove,
        WindowMove, Time, StorageFails
<1>1. CASE Evaluate(c) \/ ReadBefore(c) \/ ReleaseNoChange(c)
  BY <1>1 DEF Evaluate, ReadBefore, ReleaseNoChange
<1>2. CASE ReserveNoChange(c) \/ BeginNoChange(c)
  BY <1>2 DEF ReserveNoChange, BeginNoChange, SetStatus
<1>3. CASE FinishNoChange(c) \/ Block(c)
  BY <1>3 DEF FinishNoChange, Block, Finish, SetStatus
<1>4. CASE SendTransaction(c)
  BY <1>4 DEF SendTransaction, SetStatus
<1>5. CASE PostCommitCheck(c) \/ AuthorizeAudit(c) \/ ConsumeGate(c)
  BY <1>5 DEF PostCommitCheck, AuthorizeAudit, ConsumeGate
<1>6. CASE ReserveDispatchWindow(c)
  BY <1>6 DEF ReserveDispatchWindow
<1>7. CASE FinalCheck(c) \/ ImmediateCheck(c)
  BY <1>7 DEF FinalCheck, ImmediateCheck, Revalidate
<1>8. CASE ConsumeApproval(c)
  BY <1>8 DEF ConsumeApproval
<1>9. CASE Transport(c)
  BY <1>9 DEF Transport, CountWrite
<1>10. CASE TransportEnds(c)
  BY <1>10 DEF TransportEnds, TakeEffect
<1>11. CASE ReleaseRefusedWindow(c)
  BY <1>11 DEF ReleaseRefusedWindow, ReleaseOrFail
<1>12. CASE Unreserve(c) \/ Observe(c)
  BY <1>12 DEF Unreserve, Observe
<1>13. CASE FinishExecution(c)
  BY <1>13 DEF FinishExecution, Finish, SetStatus, Raise
<1>14. CASE SettleWindow(c)
  BY <1>14 DEF SettleWindow, Raise
<1> QED
  BY <1>1, <1>2, <1>3, <1>4, <1>5, <1>6, <1>7, <1>8, <1>9, <1>10, <1>11, <1>12,
     <1>13, <1>14
  DEF CallStep

\* A step of one key leaves the window of another key as it is.
LEMMA WindowOfOthers ==
  ASSUME NEW p \in Proposals, NEW q \in Proposals, p # q, WindowMove(p)
  PROVE  HoldsWindow(q)' <=> HoldsWindow(q)
BY NullAssumption
DEF NullAssumption, WindowMove, WindowAvailable, ReserveWindow, ActivateWindow,
    ReleaseWindow, FreeWindow, HoldsWindow

\* A step of one call takes nothing from what another call knows.
LEMMA OthersKnow ==
  ASSUME TypeOK, OneUnresolved, Exclusive, Orderly,
         NEW c \in Callers, NEW p \in Proposals, key[c] = p, pc[c] # "idle",
         CallMove(c, p), NEW d \in Callers \ {c}, pc[d] # "idle"
  PROVE  Knows(d, key[d])'
<1>1. PICK q \in Proposals : key[d] = q /\ key'[d] = q /\ q # p
  BY DEF TypeOK, CallTypeOK, Exclusive, CallMove
<1>2. Knows(d, q)
  BY <1>1 DEF Orderly
<1>3. HoldsWindow(q)' <=> HoldsWindow(q)
  BY <1>1, WindowOfOthers DEF CallMove
<1>4. /\ pc'[d] = pc[d] /\ mode'[d] = mode[d] /\ seen'[d] = seen[d]
      /\ status'[q] = status[q] /\ adapter' = adapter
  BY <1>1 DEF CallMove
<1>5. pc[d] = "observe" => target' = target
  <2> SUFFICES ASSUME pc[d] = "observe", pc[c] = "apply" PROVE FALSE
    BY DEF CallMove
  <2>1. status[p] = "IN_FLIGHT" /\ status[q] \in Active
    BY <1>2 DEF Orderly, Knows
  <2> QED
    BY <1>1, <2>1 DEF OneUnresolved, Unresolved, Active
<1>6. Knows(d, q)'
  BY <1>2, <1>3, <1>4, <1>5 DEF Knows
<1> QED
  BY <1>1, <1>6

\* A step of one call keeps what holds of the rows of the other keys.
LEMMA OtherRows ==
  ASSUME TypeOK, Orderly, NEW c \in Callers, NEW p \in Proposals, key[c] = p,
         pc[c] # "idle", CallMove(c, p), NEW q \in Proposals \ {p}
  PROVE  RowHolds(q)'
<1>1. RowHolds(q) /\ clock \in Nat /\ updatedAt[q] \in Nat /\ Window \in Nat
      /\ window \in WindowRow
  BY TimeAssumption
  DEF TimeAssumption, TypeOK, BoundaryTypeOK, Orderly, Time
<1>2. HoldsWindow(q)' <=> HoldsWindow(q)
  BY WindowOfOthers DEF CallMove
<1>3. /\ status'[q] = status[q] /\ updatedAt'[q] = updatedAt[q]
      /\ writes'[q] = writes[q] /\ adapter' = adapter /\ clock' = clock
  BY DEF CallMove
<1>4. ASSUME NEW d \in Callers, Settling(d, q) PROVE Settling(d, q)'
  BY <1>4 DEF Settling, CallMove
<1>5. ASSUME NEW d \in Callers, Writing(d, q) PROVE Writing(d, q)'
  BY <1>5 DEF Writing, CallMove
<1>6. Quiet(q) => Quiet(q)'
  <2>1. CASE HoldsWindow(q) \/ clock >= updatedAt[q] + Window
    BY <1>2, <1>3, <2>1 DEF Quiet
  <2>2. CASE /\ window.status = "ACTIVE" /\ window.until >= updatedAt[q] + Window
             /\ ~(clock >= updatedAt[q] + Window)
    <3>1. ~WindowAvailable /\ ~HoldsWindow(p)
      BY <1>1, <2>2, TimeAssumption
      DEF TimeAssumption, WindowAvailable, HoldsWindow, WindowRow
    <3>2. window' = window
      BY <3>1 DEF CallMove, WindowMove, ReleaseWindow
    <3> QED
      BY <1>3, <2>2, <3>2 DEF Quiet
  <2> QED
    BY <2>1, <2>2 DEF Quiet
<1> QED
  BY <1>1, <1>2, <1>3, <1>4, <1>5, <1>6 DEF RowHolds

\* The row of a call's key, seen from the call and from the ledger.
LEMMA OwnFromRow ==
  ASSUME Exclusive, NEW c \in Callers, NEW p \in Proposals, key[c] = p,
         pc[c] # "idle", RowHolds(p)
  PROVE  OwnRow(c, p)
<1>1. ASSUME NEW d \in Callers, Settling(d, p) PROVE pc[c] \in {"settle", "handler"}
  BY <1>1 DEF Settling, Exclusive
<1>2. ASSUME NEW d \in Callers, Writing(d, p)
      PROVE  mode[c] = "execute" /\ pc[c] \in {"apply", "observe", "finish"}
  BY <1>2 DEF Writing, Exclusive
<1> QED
  BY <1>1, <1>2 DEF RowHolds, OwnRow

LEMMA RowFromOwn ==
  ASSUME NEW c \in Callers, NEW p \in Proposals, pc'[c] # "idle" => key'[c] = p,
         OwnRow(c, p)'
  PROVE  RowHolds(p)'
<1>1. pc'[c] \in {"settle", "handler"} => Settling(c, p)'
  BY DEF Settling
<1>2. mode'[c] = "execute" /\ pc'[c] \in {"apply", "observe", "finish"} /\ key'[c] = p
        => Writing(c, p)'
  BY DEF Writing
<1> QED
  BY <1>1, <1>2 DEF RowHolds, OwnRow

\* What a call may rely on when it takes a step, its locals and rows typed.
Ready(c, p) ==
  /\ key[c] = p /\ pc[c] # "idle" /\ pc \in [Callers -> Points]
  /\ mode \in [Callers -> {"execute", "reconcile"}]
  /\ seen \in [Callers -> Terminal \cup {"NONE"}]
  /\ pc[c] \in {"finish", "settle"} => seen[c] \in Terminal
  /\ key \in [Callers -> Proposals \cup {NoKey}]
  /\ status \in [Proposals -> Statuses \cup {"NONE"}]
  /\ updatedAt \in [Proposals -> Nat] /\ writes \in [Proposals -> Nat]
  /\ at[c] \in Nat /\ at[c] <= clock /\ clock \in Nat /\ window \in WindowRow
  /\ target \in [Targets -> Values] /\ adapter.timeout \in BOOLEAN
  /\ ~adapter.timeout => timedOut = FALSE
  /\ pc[c] \in DispatchPoints => status[p] = "IN_FLIGHT"
  /\ Knows(c, p) /\ OwnRow(c, p)

Served(c, p) ==
  /\ pc'[c] # "idle" => Knows(c, p)'
  /\ OwnRow(c, p)'
  /\ BlockedMeansNotApplied'

\* The steps that touch neither ledger, window nor account.
LEMMA ServedInside ==
  ASSUME Faults = {}, NEW c \in Callers, NEW p \in Proposals, Ready(c, p),
         \/ Evaluate(c) \/ ReadBefore(c) \/ ReleaseNoChange(c)
         \/ PostCommitCheck(c) \/ FinalCheck(c) \/ ImmediateCheck(c)
         \/ ConsumeGate(c) \/ ConsumeApproval(c) \/ Unreserve(c)
  PROVE  Served(c, p)
<1> USE DEF Ready, Served, Goto, Return, Keep, Knows, OwnRow, Quiet, HoldsWindow,
        boundaryVars, ledgerVars, adapterVars, BlockedMeansNotApplied, NoAnswer,
        WindowPoints, ClosedPoints, ResolvePoints, StorageFails
<1>1. CASE Evaluate(c)
  BY <1>1 DEF Evaluate
<1>2. CASE ReadBefore(c)
  BY <1>2 DEF ReadBefore
<1>3. CASE ReleaseNoChange(c)
  BY <1>3 DEF ReleaseNoChange
<1>4. CASE PostCommitCheck(c)
  BY <1>4 DEF PostCommitCheck
<1>5. CASE FinalCheck(c)
  BY <1>5 DEF FinalCheck, Revalidate
<1>6. CASE ImmediateCheck(c)
  BY <1>6 DEF ImmediateCheck, Revalidate
<1>7. CASE ConsumeGate(c)
  BY <1>7 DEF ConsumeGate
<1>8. CASE ConsumeApproval(c)
  BY <1>8 DEF ConsumeApproval
<1>9. CASE Unreserve(c)
  BY <1>9, SMTT(30) DEF Unreserve
<1> QED
  BY <1>1, <1>2, <1>3, <1>4, <1>5, <1>6, <1>7, <1>8, <1>9

\* The steps that write the row or the window, and the account.
LEMMA ServedOutside ==
  ASSUME Faults = {}, NEW c \in Callers, NEW p \in Proposals, Ready(c, p),
         \/ ReserveNoChange(c) \/ BeginNoChange(c) \/ FinishNoChange(c)
         \/ SendTransaction(c) \/ AuthorizeAudit(c) \/ ReserveDispatchWindow(c)
         \/ Transport(c) \/ TransportEnds(c) \/ ReleaseRefusedWindow(c)
         \/ Block(c) \/ Observe(c) \/ FinishExecution(c) \/ SettleWindow(c)
  PROVE  Served(c, p)
<1> USE ShapeAssumption, TimeAssumption, NullAssumption
    DEF ShapeAssumption, TimeAssumption, NullAssumption
<1> USE DEF Ready, Served, Goto, Return, Keep, Knows, OwnRow, Quiet, HoldsWindow,
        boundaryVars, ledgerVars, adapterVars, BlockedMeansNotApplied, NoAnswer,
        WindowPoints, ClosedPoints, ResolvePoints, DispatchPoints, StorageFails,
        Active, Terminal, Completed, Statuses
<1>1. CASE ReserveNoChange(c)
  BY <1>1 DEF ReserveNoChange, SetStatus
<1>2. CASE BeginNoChange(c)
  BY <1>2 DEF BeginNoChange, SetStatus
<1>3. CASE FinishNoChange(c)
  BY <1>3 DEF FinishNoChange, Finish, FinishAccepted, SetStatus
<1>4. CASE SendTransaction(c)
  BY <1>4 DEF SendTransaction, SetStatus
<1>5. CASE AuthorizeAudit(c)
  BY <1>5 DEF AuthorizeAudit
<1>6. CASE ReserveDispatchWindow(c)
  BY <1>6 DEF ReserveDispatchWindow, ReserveWindow, WindowAvailable, WindowRow
<1>7. CASE Transport(c)
  BY <1>7 DEF Transport, CountWrite
<1>8. CASE TransportEnds(c)
  BY <1>8 DEF TransportEnds, TakeEffect
<1>9. CASE ReleaseRefusedWindow(c)
  BY <1>9 DEF ReleaseRefusedWindow, ReleaseOrFail, ReleaseWindow, FreeWindow
<1>10. CASE Block(c)
  BY <1>10 DEF Block, Finish, SetStatus
<1>11. CASE Observe(c)
  BY <1>11 DEF Observe, Classify, Readback
<1>12. CASE FinishExecution(c)
  <2>1. /\ pc[c] = "finish" /\ status[p] \in {"RESERVED", "IN_FLIGHT"}
        /\ status' = [status EXCEPT ![p] = seen[c]]
        /\ updatedAt' = [updatedAt EXCEPT ![p] = clock]
        /\ pc' = [pc EXCEPT ![c] = "settle"] /\ answer' = NoAnswer
        /\ UNCHANGED <<mode, key, bound, at, seen, window, adapter, target,
                       timedOut, writes, clock>>
    BY <1>12 DEF FinishExecution, Finish, FinishAccepted, SetStatus
  <2>2. Knows(c, p)' /\ BlockedMeansNotApplied'
    BY <2>1
  <2>3. writes[p] > 0 => mode[c] = "execute"
    BY <2>1
  <2>4. OwnRow(c, p)'
    BY <2>1, <2>3
  <2> QED
    BY <2>2, <2>4
<1>13. CASE SettleWindow(c)
  BY <1>13
  DEF SettleWindow, ActivateWindow, ReleaseWindow, FreeWindow, Raise, WindowRow
<1> QED
  BY <1>1, <1>2, <1>3, <1>4, <1>5, <1>6, <1>7, <1>8, <1>9, <1>10, <1>11, <1>12,
     <1>13

LEMMA OrderlyInit == Init => Orderly
<1> SUFFICES ASSUME Init PROVE Orderly
  OBVIOUS
<1>1. /\ \A c \in Callers : pc[c] = "idle" /\ at[c] = 0
      /\ \A p \in Proposals : status[p] = "NONE" /\ updatedAt[p] = 0 /\ writes[p] = 0
      /\ window = FreeWindow /\ clock = 0 /\ timedOut = FALSE /\ answer = NoAnswer
  BY DEF Init, BoundaryInit
<1>2. ASSUME NEW p \in Proposals PROVE RowHolds(p)
  BY <1>1 DEF RowHolds, HoldsWindow, FreeWindow
<1> QED
  BY <1>1, <1>2 DEF Orderly, BlockedMeansNotApplied, NoAnswer

\* A call begins on a key nobody works on; nothing else changes.
LEMMA OrderlyBegin ==
  ASSUME ExclusiveCalls, TypeOK, Orderly, NEW c \in Callers, NEW p \in Proposals,
         Execute(c, p) \/ Reconcile(c, p)
  PROVE  Orderly'
<1> USE DEF TypeOK, CallTypeOK, callVars, boundaryVars, ledgerVars, adapterVars
<1>1. /\ UNCHANGED <<status, updatedAt, window, adapter, target, timedOut, writes,
                     clock, at, seen>>
      /\ pc[c] = "idle"
      /\ \A d \in Callers \ {c} :
           pc'[d] = pc[d] /\ mode'[d] = mode[d] /\ key'[d] = key[d]
      /\ answer'.mode = "execute" => answer'.status # "BLOCKED"
  BY DEF Execute, Reconcile, StartCall, AnswerAtOnce, NoAnswer
<1>2. /\ pc'[c] # "idle" => key'[c] = p
      /\ \/ pc'[c] = "idle"
         \/ /\ pc'[c] = "evaluate" /\ mode'[c] = "execute"
            /\ status[p] \notin Completed
         \/ /\ pc'[c] = "observe" /\ mode'[c] = "reconcile"
            /\ status[p] \in Active
  BY DEF Execute, Reconcile, StartCall, AnswerAtOnce
<1>3. ASSUME NEW d \in Callers, pc'[d] # "idle" PROVE Knows(d, key[d])'
  <2>1. CASE d = c
    <3>1. Knows(c, p)'
      BY <1>1, <1>2, <1>3, <2>1
      DEF Knows, ResolvePoints, ClosedPoints, WindowPoints, Completed
    <3> QED
      BY <1>2, <1>3, <2>1, <3>1
  <2>2. CASE d # c
    <3>1. Knows(d, key[d]) /\ pc'[d] = pc[d] /\ mode'[d] = mode[d] /\ key'[d] = key[d]
      BY <1>1, <1>3, <2>2 DEF Orderly
    <3> QED
      BY <1>1, <3>1 DEF Knows, HoldsWindow
  <2> QED
    BY <2>1, <2>2
<1>4. ASSUME NEW q \in Proposals PROVE RowHolds(q)'
  <2>1. ASSUME NEW d \in Callers, Settling(d, q) PROVE Settling(d, q)'
    BY <1>1, <2>1 DEF Settling
  <2>2. ASSUME NEW d \in Callers, Writing(d, q) PROVE Writing(d, q)'
    BY <1>1, <2>2 DEF Writing
  <2>3. RowHolds(q)
    BY DEF Orderly
  <2> QED
    BY <1>1, <2>1, <2>2, <2>3 DEF RowHolds, HoldsWindow, Quiet
<1> QED
  BY <1>1, <1>3, <1>4 DEF Orderly, BlockedMeansNotApplied

\* The approver, the incident principal and the clock leave calls, rows and
\* window alone.
LEMMA OrderlyAside ==
  ASSUME TypeOK, TypeOK', Orderly, Faults = {},
         \/ \E a \in Approvals :
              \/ \E p \in Proposals, e \in 1..(MaxClock + 1) :
                   GrantApproval(a, p, e)
              \/ RevokeApproval(a)
         \/ \E o \in Operators :
              \/ \E s \in Scopes : EngageSidecar(o, s) \/ ReleaseMain(o, s)
              \/ EngageMain(o) \/ ReleaseSidecar(o) \/ OperatorCrash(o)
         \/ TimePasses \/ UNCHANGED vars
  PROVE  Orderly'
<1> USE TimeAssumption DEF TimeAssumption
<1>1. /\ UNCHANGED <<status, updatedAt, window, adapter, target, timedOut, writes,
                     pc, mode, key, at, seen>>
      /\ clock' = clock \/ clock' = clock + 1
      /\ answer' = NoAnswer \/ UNCHANGED answer
  BY DEF GrantApproval, RevokeApproval, EngageSidecar, ReleaseMain, EngageMain,
         ReleaseSidecar, OperatorCrash, TimePasses, Tick, vars, callVars,
         boundaryVars, ledgerVars, adapterVars
<1>2. clock \in Nat /\ clock' \in Nat /\ clock <= clock'
  BY <1>1 DEF TypeOK, BoundaryTypeOK, Time
<1>3. ASSUME NEW c \in Callers, pc[c] # "idle" PROVE Knows(c, key[c])'
  <2>1. Knows(c, key[c])
    BY <1>3 DEF Orderly
  <2> QED
    BY <1>1, <2>1 DEF Knows, HoldsWindow
<1>4. ASSUME NEW p \in Proposals PROVE RowHolds(p)'
  <2>1. RowHolds(p) /\ updatedAt[p] \in Nat /\ (\A c \in Callers :
          (Settling(c, p)' <=> Settling(c, p)) /\ (Writing(c, p)' <=> Writing(c, p)))
    BY <1>1 DEF Orderly, Settling, Writing, TypeOK, BoundaryTypeOK, Time
  <2>2. Quiet(p) => Quiet(p)'
    BY <1>1, <1>2, <2>1 DEF Quiet, HoldsWindow
  <2> QED
    BY <1>1, <1>2, <2>1, <2>2 DEF RowHolds, HoldsWindow
<1>5. \A c \in Callers : at'[c] <= clock'
  BY <1>1, <1>2 DEF Orderly, TypeOK, CallTypeOK, Time
<1>6. BlockedMeansNotApplied'
  BY <1>1 DEF Orderly, BlockedMeansNotApplied, NoAnswer
<1> QED
  BY <1>1, <1>3, <1>4, <1>5, <1>6 DEF Orderly

LEMMA OrderlyNext ==
  ASSUME ExclusiveCalls, Faults = {}, TypeOK, TypeOK', OneUnresolved, Exclusive,
         Orderly, [Next]_vars
  PROVE  Orderly'
<1>1. ASSUME NEW c \in Callers, CallStep(c) PROVE Orderly'
  <2>1. /\ key[c] \in Proposals /\ pc[c] # "idle" /\ CallMove(c, key[c])
        /\ at[c] <= clock
    BY <1>1, CallsMoveAlone DEF Orderly
  <2>2. PICK p \in Proposals : key[c] = p /\ CallMove(c, p)
    BY <2>1
  <2>3. Ready(c, p)
    <3>1. Knows(c, p) /\ OwnRow(c, p) /\ (~adapter.timeout => timedOut = FALSE)
      BY <2>1, <2>2, OwnFromRow DEF Orderly
    <3>2. adapter.timeout \in BOOLEAN
      BY AdapterAssumption DEF AdapterAssumption, TypeOK, BoundaryTypeOK
    <3> QED
      BY <2>1, <2>2, <3>1, <3>2, TimeAssumption
      DEF TimeAssumption, TypeOK, BoundaryTypeOK, CallTypeOK, Time, Exclusive,
          Ready
  <2>4. Served(c, p)
    BY <1>1, <2>3, ServedInside, ServedOutside DEF CallStep
  <2>5. ASSUME NEW q \in Proposals PROVE RowHolds(q)'
    <3>1. CASE q = p
      BY <2>2, <2>4, <3>1, RowFromOwn DEF Served, CallMove
    <3>2. CASE q # p
      BY <2>1, <2>2, <3>2, OtherRows
    <3> QED
      BY <3>1, <3>2
  <2>6. ASSUME NEW d \in Callers, pc'[d] # "idle" PROVE Knows(d, key[d])'
    <3>1. CASE d = c
      <4>1. Knows(c, p)' /\ key'[c] = p
        BY <2>2, <2>4, <2>6, <3>1 DEF Served, CallMove
      <4> QED
        BY <3>1, <4>1
    <3>2. CASE d # c
      <4>1. pc[d] # "idle"
        BY <2>2, <2>6, <3>2 DEF CallMove
      <4> QED
        BY <2>1, <2>2, <3>2, <4>1, OthersKnow
    <3> QED
      BY <3>1, <3>2
  <2>7. (\A d \in Callers : at'[d] <= clock') /\ (~adapter'.timeout => timedOut' = FALSE)
    BY <2>2 DEF CallMove, Orderly
  <2> QED
    BY <2>4, <2>5, <2>6, <2>7 DEF Orderly, Served
<1>2. ASSUME NEW c \in Callers, Crash(c) \/ StorageError(c) PROVE FALSE
  BY <1>2 DEF Crash, StorageError, StorageFails
<1> QED
  BY <1>1, <1>2, OrderlyBegin, OrderlyAside DEF Next

\* Calls that do not overlap on a key, without crashes and storage errors,
\* never strand the write window, never record a written key as BLOCKED or
\* FAILED unless the adapter timed out, and never answer BLOCKED for an
\* applied one: the ledger, the window and the answers agree.
THEOREM LedgerIsTruthfulHolds ==
  ASSUME ExclusiveCalls, Faults = {}
  PROVE  Spec => []LedgerIsTruthful
<1>1. TypeOK /\ Orderly => LedgerIsTruthful
  BY DEF Orderly, RowHolds, Settling, LedgerIsTruthful, WindowFollowsLedger,
         WritesAreRecorded
<1>2. TypeOK /\ TypeOK' /\ OneUnresolved /\ Exclusive /\ Orderly /\ [Next]_vars
        => Orderly'
  BY OrderlyNext
<1>3. TypeOK /\ Exclusive /\ [Next]_vars => Exclusive'
  BY ExclusiveNext
<1> QED
  BY <1>1, <1>2, <1>3, OrderlyInit, ExclusiveInit, OneUnresolvedHolds,
     TypeCorrect, PTL
  DEF Spec

\* Under the same hypotheses no command is sent within the quiet window of an
\* earlier applied write of another key.  Both are needed: a crash leaves an
\* applied write without its window, and the handler of an overlapping call
\* releases the window of a write in flight (see
\* the run approval_quiet_window).
THEOREM QuietWindowAlwaysKept ==
  ASSUME ExclusiveCalls, Faults = {}
  PROVE  Spec => QuietWindowKept
<1> DEFINE Kept == \A p, q \in Proposals :
                     /\ p # q /\ writes'[p] # writes[p]
                     /\ writes[q] > 0 /\ status[q] = "APPLIED"
                     => clock >= updatedAt[q] + Window
<1>1. TypeOK /\ Orderly /\ [Next]_vars => Kept
  <2> SUFFICES ASSUME TypeOK, Orderly, [Next]_vars,
                      NEW p \in Proposals, NEW q \in Proposals,
                      p # q, writes'[p] # writes[p],
                      writes[q] > 0, status[q] = "APPLIED"
               PROVE  clock >= updatedAt[q] + Window
    OBVIOUS
  <2>1. PICK c \in Callers : Transport(c)
    BY CallsMove
  <2>2. pc[c] = "transport" /\ key[c] = p
    BY <2>1 DEF Transport, CountWrite, TypeOK, BoundaryTypeOK
  <2>3. HoldsWindow(p)
    BY <2>2 DEF Orderly, Knows, WindowPoints
  <2>4. Quiet(q)
    BY DEF Orderly, RowHolds
  <2> QED
    BY <2>3, <2>4 DEF Quiet, HoldsWindow
<1>2. TypeOK /\ TypeOK' /\ OneUnresolved /\ Exclusive /\ Orderly /\ [Next]_vars
        => Orderly'
  BY OrderlyNext
<1>3. TypeOK /\ Exclusive /\ [Next]_vars => Exclusive'
  BY ExclusiveNext
<1>4. TypeOK /\ Orderly /\ [Next]_vars => [Kept]_vars
  BY <1>1
<1> QED
  BY <1>2, <1>3, <1>4, OrderlyInit, ExclusiveInit, OneUnresolvedHolds,
     TypeCorrect, PTL
  DEF Spec, QuietWindowKept

=============================================================================
