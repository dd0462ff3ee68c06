------------------------- MODULE CampaignSagaProofs -------------------------
(***************************************************************************)
(* Proofs about the campaign creation saga, for any callers, requests,     *)
(* plans, faults and bounds.                                               *)
(*                                                                         *)
(* What holds for calls that overlap rests on the audit journal (SendInv)  *)
(* and on the authority of the first write (AuthorityInv).  What needs one *)
(* call at a time, crashes included, rests on SagaInv: the dispatches are  *)
(* those of the completed steps and of the next one, an object on the      *)
(* account belongs to an answered step, and a saga whose compensation has  *)
(* begun is stuck at the step that failed.                                 *)
(***************************************************************************)
EXTENDS CampaignSaga, WellFoundedInduction, TLAPS

StepNames == {Steps[i] : i \in 1..8}
Points == {"idle", "start", "pending", "resume", "begin", "claim", "audit", "recheck",
           "send", "cancel", "rejected", "consume", "register", "complete", "readback",
           "reconcile", "unknown", "failed", "compensate", "mark", "settle"}

\* where a call is about to change the account with its operation
Sending == {"claim", "audit", "recheck", "send"}
InStep == Sending \cup {"begin", "cancel", "rejected", "consume", "register", "complete",
                       "readback", "failed", "compensate", "mark"}

Call == [pc : Points, req : Requests \cup {NoRow}, plan : Plans \cup {NoRow},
         limited : BOOLEAN, next : 0..8, op : StepNames \cup Objects \cup {NoOp},
         claimed : BOOLEAN, reconciling : {"no", "first", "handler"},
         queue : SUBSET Objects, missed : BOOLEAN]

\* the operation a call may carry at a point
Fits(pc, op) ==
  /\ pc \in Sending \cup {"cancel", "rejected"} => op \in Operations
  /\ pc = "consume" => op = "CAMPAIGN_ADD"
  /\ pc = "register" => op \in AddSteps
  /\ pc = "complete" => op \in StepNames
  /\ pc = "readback" => op \in {"MODERATION_READBACK", "FULL_READBACK"}
  /\ pc = "mark" => op \in Objects

CallOK(k) ==
  /\ k \in Call
  /\ k.pc # "idle" => k.req \in Requests /\ k.plan \in Plans
  /\ k.pc = "begin" => k.next < 8
  /\ k.pc \in InStep /\ k.reconciling = "no" => k.next < 8
  /\ k.pc = "reconcile" => k.reconciling # "no"
  /\ Fits(k.pc, k.op)

Statuses == {"NONE", "IN_FLIGHT"} \cup Terminal
SagaRow == [status : Statuses, plan : Plans \cup {NoRow}, completed : 0..8]
ReservationRow == [status : {"AVAILABLE", "RESERVED", "USED"},
                   holder : Requests \cup {NoRow}]

TypeOK ==
  /\ saga \in [Requests -> SagaRow]
  /\ dispatch \in [Requests -> [WriteSteps -> {"NONE", "OPEN", "DONE"}]]
  /\ owned \in [Requests -> Seq(Objects)]
  /\ compensated \in [Requests -> SUBSET Objects]
  /\ reservation \in [Reservations -> ReservationRow]
  /\ approval \in [Requests -> ApprovalRow \cup {NoRow}]
  /\ account \in [Requests -> [Objects -> DirectState]]
  /\ answered \subseteq Requests \X Operations
  /\ sent \in [Requests -> [Operations -> Nat]]
  /\ call \in [Callers -> Call]
  /\ \A c \in Callers : CallOK(call[c])
  /\ \A c \in Callers : call[c].pc # "idle" =>
       call[c].queue \subseteq Range(owned[call[c].req])

-----------------------------------------------------------------------------
(* The audit journal: a call at the adapter holds the only journal entry   *)
(* of its operation key, and the key has not been sent.                    *)

Key(c) == <<call[c].req, call[c].op>>
AtAdapter(c) == call[c].pc \in {"recheck", "send"}

Journalled == \A r \in Requests, op \in Operations :
                sent[r][op] > 0 => <<r, op>> \in audited
Unsent == \A c \in Callers : AtAdapter(c) =>
            Key(c) \in audited /\ sent[call[c].req][call[c].op] = 0
OneKeyEach == \A c, d \in Callers :
                AtAdapter(c) /\ AtAdapter(d) /\ c # d => Key(c) # Key(d)
AnswersSent == \A r \in Requests, op \in Operations :
                 <<r, op>> \in answered => sent[r][op] > 0
SendInv == Journalled /\ Unsent /\ OneKeyEach /\ AnswersSent

-----------------------------------------------------------------------------
(* The authority of a saga.                                                *)

UsedUp(r) == /\ approval[r] \in ApprovalRow
             /\ approval[r].status = "USED"
             /\ reservation[ReservationOf[r]] = [status |-> "USED", holder |-> r]
Started == \A c \in Callers : call[c].pc \notin {"idle", "start"} =>
             saga[call[c].req].status # "NONE"
SignedPlan == \A r \in Requests : saga[r].status # "NONE" =>
                /\ approval[r] \in ApprovalRow
                /\ approval[r].signed.binding = <<r, saga[r].plan>>
SentStarted == \A r \in Requests, op \in Operations :
                 sent[r][op] > 0 => saga[r].status # "NONE"
BuiltOnAuthority == \A r \in Requests :
  "campaign" \in Range(owned[r]) \/ sent[r]["AD_GROUP_ADD"] > 0 => UsedUp(r)
CarriesAuthority == \A c \in Callers :
  \/ call[c].pc = "register" /\ call[c].op = "CAMPAIGN_ADD"
  \/ call[c].pc \in Sending /\ call[c].op = "AD_GROUP_ADD"
  => UsedUp(call[c].req)
AuthorityInv == /\ Started /\ SignedPlan /\ SentStarted
                /\ BuiltOnAuthority /\ CarriesAuthority

-----------------------------------------------------------------------------
(* One call at a time.                                                     *)

Called == \A c \in Callers : call[c].pc # "idle" => c \in session.callers
Flying == \A c \in Callers : call[c].pc \notin {"idle", "start", "settle"} =>
            InFlight(call[c].req)

\* The dispatches of the completed steps are done and answered, at most that of the
\* next one is open, and a step without a dispatch has not been sent.
StepsInOrder == \A r \in Requests :
  /\ saga[r].status = "NONE" => saga[r].completed = 0
  /\ \A i \in 1..8 : Steps[i] \in WriteSteps =>
       /\ dispatch[r][Steps[i]] = "DONE" <=> i <= saga[r].completed
       /\ dispatch[r][Steps[i]] = "OPEN" => i = saga[r].completed + 1
       /\ dispatch[r][Steps[i]] = "NONE" => sent[r][Steps[i]] = 0
       /\ dispatch[r][Steps[i]] = "DONE" => <<r, Steps[i]>> \in answered

\* An object on the account or recorded comes from the answer of its step, a
\* completed step has recorded its objects, and only a deletion takes one away.
ObjectsFromAnswers == \A r \in Requests, step \in AddSteps : \A o \in Range(ObjectsOf[step]) :
  /\ account[r][o] # "GONE" \/ o \in Range(owned[r]) => <<r, step>> \in answered
  /\ dispatch[r][step] = "DONE" => o \in Range(owned[r])
  /\ <<r, step>> \in answered /\ InFlight(r) /\ account[r][o] = "GONE" => sent[r][o] > 0
CompensatedGone == \A r \in Requests : \A o \in compensated[r] :
  account[r][o] = "GONE" /\ sent[r][o] > 0
Submitted == \A r \in Requests, o \in {"ad1", "ad2"} :
  <<r, "MODERATION_SUBMIT">> \in answered /\ InFlight(r) =>
    account[r][o] \in {"MODERATION", "ON", "GONE"}

\* A compensation has begun, and the step that failed can never be completed.
Undone(r) == \E o \in Objects : sent[r][o] > 0
Taken(r, o) == \E c \in Callers :
  call[c].req = r /\ call[c].op = o /\ call[c].pc \in Sending \cup {"mark"}
StuckWrite(r, step) ==
  /\ dispatch[r][step] = "OPEN"
  /\ \/ <<r, step>> \notin answered
     \/ step \in AddSteps /\ Range(ObjectsOf[step]) \subseteq Range(owned[r])
StuckReadback(r) ==
  \/ Fails(adapter, "Ads", "get")
  \/ \E o \in {"ad1", "ad2"} : account[r][o] = "ON" /\ Belongs(r, o) /\ ~Taken(r, o)
Stuck(r) ==
  saga[r].completed < 7 =>
    /\ NextStep(r) \in WriteSteps => StuckWrite(r, NextStep(r))
    /\ NextStep(r) \notin WriteSteps => StuckReadback(r)
Compensating(c) ==
  \/ call[c].pc \in {"failed", "compensate", "mark"}
  \/ call[c].pc \in Sending \cup {"cancel", "rejected"} /\ call[c].op \in Objects
StuckOnceUndone ==
  /\ \A r \in Requests : Undone(r) /\ InFlight(r) => Stuck(r)
  /\ \A c \in Callers : Compensating(c) => Stuck(call[c].req)

\* What a call knows about its step.
InOrder(k) ==
  LET r == k.req
      op == k.op
      next == saga[r].completed < 8 /\ NextStep(r) = op
  IN /\ k.pc \in Sending \cup {"cancel"} /\ op \in WriteSteps =>
          next /\ ~Undone(r) /\ sent[r][op] = 0
     /\ k.pc = "claim" /\ op \in WriteSteps => dispatch[r][op] = "NONE"
     /\ k.pc \in {"audit", "recheck", "send"} /\ op \in WriteSteps =>
          dispatch[r][op] = "OPEN"
     /\ k.pc \in {"consume", "register"} =>
          next /\ dispatch[r][op] = "OPEN" /\ <<r, op>> \in answered
     /\ k.pc = "complete" =>
          /\ next
          /\ op # "FULL_READBACK" => ~Undone(r)
          /\ op \in WriteSteps => dispatch[r][op] = "OPEN" /\ <<r, op>> \in answered
          /\ op \in AddSteps => Range(ObjectsOf[op]) \subseteq Range(owned[r])
     /\ k.pc = "readback" => next
     /\ k.pc = "mark" => account[r][op] = "GONE" /\ sent[r][op] > 0
StepsKnown == \A c \in Callers : call[c].pc # "idle" => InOrder(call[c])

\* A compensation that has missed nothing still knows every object on the account.
QueueCovers == \A c \in Callers :
  Compensating(c) /\ call[c].pc # "failed" /\ ~call[c].missed =>
    \A o \in Objects : account[call[c].req][o] # "GONE" =>
      \/ o \in call[c].queue
      \/ o = call[c].op /\ call[c].pc \notin {"compensate", "mark"}

SagaInv == /\ Called /\ Flying /\ StepsInOrder /\ ObjectsFromAnswers /\ CompensatedGone
           /\ Submitted /\ StuckOnceUndone /\ StepsKnown /\ QueueCovers
           /\ CompensatedIsGone

-----------------------------------------------------------------------------
(* The steps, their objects and their order.                               *)

LEMMA NamesOfSteps ==
  /\ StepNames = {"CAMPAIGN_ADD", "AD_GROUP_ADD", "ADS_ADD", "KEYWORD_ADD",
                  "MODERATION_SUBMIT", "MODERATION_READBACK", "CAMPAIGN_LAUNCH",
                  "FULL_READBACK"}
  /\ WriteSteps = {"CAMPAIGN_ADD", "AD_GROUP_ADD", "ADS_ADD", "KEYWORD_ADD",
                   "MODERATION_SUBMIT", "CAMPAIGN_LAUNCH"}
  /\ AddSteps = {"CAMPAIGN_ADD", "AD_GROUP_ADD", "ADS_ADD", "KEYWORD_ADD"}
  /\ Len(Steps) = 8
BY DEF StepNames, WriteSteps, AddSteps, Steps

LEMMA StepNumbers ==
  ASSUME NEW i \in 1..8
  PROVE /\ Steps[i] \in StepNames
        /\ \A j \in 1..8 : Steps[i] = Steps[j] => i = j
        /\ Steps[i] \in WriteSteps <=> i \notin {6, 8}
        /\ Steps[i] \in AddSteps <=> i <= 4
        /\ Steps[i] \notin Objects
BY DEF Steps, StepNames, WriteSteps, AddSteps, Objects

LEMMA OperationKinds ==
  /\ WriteSteps \subseteq Operations /\ AddSteps \subseteq WriteSteps
  /\ Objects \subseteq Operations /\ WriteSteps \subseteq StepNames
  /\ WriteSteps \cap Objects = {} /\ StepNames \cap Objects = {}
  /\ Operations = WriteSteps \cup Objects
BY NamesOfSteps DEF Operations, Objects

LEMMA StepObjects ==
  /\ Range(ObjectsOf["CAMPAIGN_ADD"]) = {"campaign"}
  /\ Range(ObjectsOf["AD_GROUP_ADD"]) = {"group"}
  /\ Range(ObjectsOf["ADS_ADD"]) = {"ad1", "ad2"}
  /\ Range(ObjectsOf["KEYWORD_ADD"]) = {"keyword"}
  /\ Range(ObjectsOf["MODERATION_SUBMIT"]) = {"ad1", "ad2"}
  /\ Range(ObjectsOf["CAMPAIGN_LAUNCH"]) = {"campaign"}
BY DEF ObjectsOf, Range

LEMMA OwnObject == \A o \in Objects : Range(ObjectsOf[o]) = {o}
BY DEF ObjectsOf, Range, Objects

LEMMA ObjectLists ==
  ASSUME NEW op \in Operations
  PROVE ObjectsOf[op] \in Seq(Objects) /\ Range(ObjectsOf[op]) \subseteq Objects
<1>1. ObjectsOf[op] \in {<<"campaign">>, <<"group">>, <<"ad1">>, <<"ad2">>, <<"keyword">>,
                         <<"ad1", "ad2">>}
  BY NamesOfSteps DEF Operations, ObjectsOf, Objects
<1>2. \A a \in Objects : <<a>> \in Seq(Objects) /\ Range(<<a>>) \subseteq Objects
  BY DEF Range
<1>3. <<"ad1", "ad2">> \in Seq(Objects) /\ Range(<<"ad1", "ad2">>) \subseteq Objects
  BY DEF Range, Objects
<1> QED
  BY <1>1, <1>2, <1>3 DEF Objects

LEMMA StepOfObject ==
  \A o \in Objects : \E step \in AddSteps : o \in Range(ObjectsOf[step])
BY StepObjects, NamesOfSteps DEF Objects

LEMMA OneStepOfObject ==
  \A s, t \in AddSteps : Range(ObjectsOf[s]) \cap Range(ObjectsOf[t]) # {} => s = t
BY StepObjects, NamesOfSteps

LEMMA Methods ==
  /\ \A op \in AddSteps : MethodOf(op) = "add"
  /\ MethodOf("MODERATION_SUBMIT") = "moderate"
  /\ MethodOf("CAMPAIGN_LAUNCH") = "resume"
  /\ \A o \in Objects : MethodOf(o) = "delete"
BY NamesOfSteps DEF MethodOf, Objects

-----------------------------------------------------------------------------
(* The account.                                                            *)

LEMMA InvokedType ==
  ASSUME NEW states \in [Objects -> DirectState], NEW objects \in SUBSET Objects,
         NEW method \in {"add"} \cup DOMAIN Reaches
  PROVE Invoked(states, objects, method) \in [Objects -> DirectState]
BY DEF Invoked, Objects, DirectState, AddedState, Reaches, ServiceOf

\* Only an ADD creates, and only a deletion removes.
LEMMA InvokedMoves ==
  ASSUME NEW states \in [Objects -> DirectState], NEW objects \in SUBSET Objects,
         NEW method \in {"add"} \cup DOMAIN Reaches, NEW o \in Objects
  PROVE /\ o \notin objects => Invoked(states, objects, method)[o] = states[o]
        /\ o \in objects /\ method = "delete" => Invoked(states, objects, method)[o] = "GONE"
        /\ o \in objects /\ method # "delete" => Invoked(states, objects, method)[o] # "GONE"
        /\ o \in objects /\ method = "moderate" =>
             Invoked(states, objects, method)[o] = "MODERATION"
BY DEF Invoked, Objects, AddedState, Reaches, ServiceOf

LEMMA ReachedThere ==
  ASSUME NEW states, NEW objects \in Seq(Objects), NEW method,
         NEW o \in Reached(states, objects, method)
  PROVE o \in Range(objects) /\ (method \in Transitions => states[o] # "GONE")
<1>1. PICK i \in DOMAIN objects : /\ o = objects[i]
                                  /\ method \in Transitions =>
                                       \A j \in 1..i : states[objects[j]] # "GONE"
  BY DEF Reached
<1>2. i \in 1..i
  BY <1>1
<1> QED
  BY <1>1, <1>2 DEF Range

LEMMA NothingMissing ==
  ASSUME NEW states, NEW objects \in Seq(Objects), NEW method \in Transitions,
         ~Missing(states, objects, method), NEW o \in Range(objects)
  PROVE states[o] # "GONE"
BY ReachedThere DEF Missing

\* An object that is gone permits nothing.
LEMMA GoneForbids ==
  ASSUME NEW states, NEW o \in Objects, NEW method, Permitted(states, o, method)
  PROVE states[o] # "GONE"
BY DEF Permitted, RequiredStates, ServiceOf, Objects, AnyState, DirectState

-----------------------------------------------------------------------------
(* How a step changes its own call and leaves the others alone.            *)

Others(c) == \A d \in Callers : d # c => call'[d] = call[d]
SameRun(c) == /\ call'[c].req = call[c].req
              /\ call'[c].plan = call[c].plan
              /\ call'[c].limited = call[c].limited
SameLoop(c) == call'[c].next = call[c].next /\ call'[c].reconciling = call[c].reconciling
SameOp(c) == call'[c].op = call[c].op /\ call'[c].claimed = call[c].claimed
SameQueue(c) == call'[c].queue = call[c].queue /\ call'[c].missed = call[c].missed

LEMMA CallFields ==
  ASSUME NEW k \in Call
  PROVE /\ k.pc \in Points /\ k.req \in Requests \cup {NoRow}
        /\ k.plan \in Plans \cup {NoRow} /\ k.limited \in BOOLEAN /\ k.next \in 0..8
        /\ k.op \in StepNames \cup Objects \cup {NoOp} /\ k.claimed \in BOOLEAN
        /\ k.reconciling \in {"no", "first", "handler"}
        /\ k.queue \in SUBSET Objects /\ k.missed \in BOOLEAN
BY DEF Call

LEMMA NoCallIdle == NoCall \in Call /\ NoCall.pc = "idle" /\ CallOK(NoCall)
<1>1. NoCall.pc = "idle"
  BY DEF NoCall
<1>2. NoCall \in Call
  BY DEF NoCall, Call, Points
<1>3. "idle" \notin InStep \cup Sending \cup {"cancel", "rejected"}
  BY DEF InStep, Sending
<1> QED
  BY <1>1, <1>2, <1>3 DEF CallOK, Fits

LEMMA GotoMoves ==
  ASSUME call \in [Callers -> Call], NEW c \in Callers, NEW p \in Points, Goto(c, p)
  PROVE /\ call' \in [Callers -> Call] /\ Others(c) /\ call'[c].pc = p
        /\ SameRun(c) /\ SameLoop(c) /\ SameOp(c) /\ SameQueue(c)
<1> DEFINE k == [call[c] EXCEPT !.pc = p]
<1>1. call[c] \in Call
  OBVIOUS
<1>2. /\ k \in Call /\ k.pc = p /\ k.req = call[c].req /\ k.plan = call[c].plan
      /\ k.limited = call[c].limited /\ k.next = call[c].next
      /\ k.reconciling = call[c].reconciling /\ k.op = call[c].op
      /\ k.claimed = call[c].claimed /\ k.queue = call[c].queue
      /\ k.missed = call[c].missed
  BY <1>1 DEF Call
<1>3. call' = [call EXCEPT ![c] = k]
  BY DEF Goto
<1> HIDE DEF k
<1> QED
  BY <1>2, <1>3 DEF Others, SameRun, SameLoop, SameOp, SameQueue

LEMMA ReturnMoves ==
  ASSUME call \in [Callers -> Call], NEW c \in Callers, Return(c)
  PROVE call' \in [Callers -> Call] /\ Others(c) /\ call'[c] = NoCall /\ call'[c].pc = "idle"
BY NoCallIdle DEF Return, Others

LEMMA ExecuteMoves ==
  ASSUME call \in [Callers -> Call], NEW c \in Callers, NEW r \in Requests,
         NEW plan \in Plans, NEW limited \in BOOLEAN, Execute(c, r, plan, limited)
  PROVE /\ call' \in [Callers -> Call] /\ Others(c) /\ call[c].pc = "idle"
        /\ call'[c].pc = "start" /\ call'[c].req = r /\ call'[c].plan = plan
        /\ call'[c].queue = {} /\ c \in session.callers
<1> DEFINE k == [pc |-> "start", req |-> r, plan |-> plan, limited |-> limited, next |-> 0,
                 op |-> NoOp, claimed |-> FALSE, reconciling |-> "no", queue |-> {},
                 missed |-> FALSE]
<1>1. k \in Call /\ k.pc = "start" /\ k.req = r /\ k.plan = plan /\ k.queue = {}
  BY DEF Call, Points
<1>2. call' = [call EXCEPT ![c] = k]
  BY DEF Execute
<1>3. call[c].pc = "idle" /\ c \in session.callers
  BY NoCallIdle DEF Execute
<1> HIDE DEF k
<1> QED
  BY <1>1, <1>2, <1>3 DEF Others

LEMMA CheckPendingMoves ==
  ASSUME call \in [Callers -> Call], NEW c \in Callers, CheckPending(c)
  PROVE /\ call' \in [Callers -> Call] /\ Others(c)
        /\ SameRun(c) /\ SameOp(c) /\ SameQueue(c)
        /\ \/ call'[c].pc = "resume" /\ call'[c].reconciling = "no"
           \/ call'[c].pc = "reconcile" /\ call'[c].reconciling = "first"
<1> DEFINE k == [call[c] EXCEPT
      !.pc = IF OpenSteps(call[c].req) = {} THEN "resume" ELSE "reconcile",
      !.reconciling = IF OpenSteps(call[c].req) = {} THEN "no" ELSE "first"]
<1>1. call[c] \in Call
  OBVIOUS
<1>2. /\ k \in Call /\ k.req = call[c].req /\ k.plan = call[c].plan
      /\ k.limited = call[c].limited /\ k.op = call[c].op
      /\ k.claimed = call[c].claimed /\ k.queue = call[c].queue
      /\ k.missed = call[c].missed
      /\ \/ k.pc = "resume" /\ k.reconciling = "no"
         \/ k.pc = "reconcile" /\ k.reconciling = "first"
  BY <1>1, ZenonT(60) DEF Call, Points
<1>3. call' = [call EXCEPT ![c] = k]
  BY DEF CheckPending
<1> HIDE DEF k
<1> QED
  BY <1>2, <1>3 DEF Others, SameRun, SameOp, SameQueue

LEMMA ResumeMoves ==
  ASSUME call \in [Callers -> Call], NEW c \in Callers, Resume(c),
         Completed(call[c].req) \in 0..8
  PROVE /\ call' \in [Callers -> Call] /\ Others(c)
        /\ SameRun(c) /\ SameOp(c) /\ SameQueue(c)
        /\ call'[c].reconciling = "no" /\ call'[c].next = Completed(call[c].req)
        /\ call'[c].pc = IF Completed(call[c].req) = 8 THEN "settle" ELSE "begin"
<1> DEFINE n == Completed(call[c].req)
           k == [call[c] EXCEPT !.next = n, !.reconciling = "no",
                   !.pc = IF n = 8 THEN "settle" ELSE "begin"]
<1>1. call[c] \in Call /\ n \in 0..8
  OBVIOUS
<1>3. call' = [call EXCEPT ![c] = k]
  BY NamesOfSteps DEF Resume
<1> HIDE DEF n
<1>2. /\ k \in Call /\ k.req = call[c].req /\ k.plan = call[c].plan
      /\ k.limited = call[c].limited /\ k.op = call[c].op
      /\ k.claimed = call[c].claimed /\ k.queue = call[c].queue
      /\ k.missed = call[c].missed /\ k.reconciling = "no" /\ k.next = n
      /\ k.pc = IF n = 8 THEN "settle" ELSE "begin"
  BY <1>1, ZenonT(60) DEF Call, Points
<1> HIDE DEF k
<1> QED
  BY <1>2, <1>3 DEF Others, SameRun, SameOp, SameQueue, n

LEMMA BeginMoves ==
  ASSUME call \in [Callers -> Call], NEW c \in Callers, BeginStep(c), call[c].next < 8
  PROVE /\ call' \in [Callers -> Call] /\ Others(c)
        /\ \/ call'[c] = NoCall
           \/ /\ SameRun(c) /\ SameLoop(c) /\ SameQueue(c)
              /\ call'[c].claimed = call[c].claimed
              /\ call'[c].op = StepOf(c) /\ StepOf(c) \in StepNames
              /\ Completed(call[c].req) = call[c].next
              /\ OpenSteps(call[c].req) = {} /\ ReadyFor(call[c].req, StepOf(c))
              /\ call'[c].pc = IF StepOf(c) \in WriteSteps THEN "claim" ELSE "readback"
<1> DEFINE step == StepOf(c)
           k == [call[c] EXCEPT !.op = step,
                   !.pc = IF step \in WriteSteps THEN "claim" ELSE "readback"]
           Ready == /\ Completed(call[c].req) = call[c].next
                    /\ OpenSteps(call[c].req) = {}
                    /\ ReadyFor(call[c].req, step)
<1>1. call[c] \in Call
  OBVIOUS
<1>4. step \in StepNames
  BY <1>1, CallFields, StepNumbers DEF StepOf
<1>3. \/ Ready /\ call' = [call EXCEPT ![c] = k]
      \/ Return(c)
  BY DEF BeginStep
<1> HIDE DEF step
<1>2. /\ k \in Call /\ k.req = call[c].req /\ k.plan = call[c].plan
      /\ k.limited = call[c].limited /\ k.op = step
      /\ k.claimed = call[c].claimed /\ k.queue = call[c].queue
      /\ k.missed = call[c].missed /\ k.next = call[c].next
      /\ k.reconciling = call[c].reconciling
      /\ k.pc = IF step \in WriteSteps THEN "claim" ELSE "readback"
  BY <1>1, <1>4, ZenonT(60) DEF Call, Points
<1> HIDE DEF k
<1>5. CASE Return(c)
  BY <1>5, ReturnMoves
<1>6. CASE Ready /\ call' = [call EXCEPT ![c] = k]
  <2>1. call' \in [Callers -> Call] /\ Others(c) /\ call'[c] = k
    BY <1>2, <1>6 DEF Others
  <2> QED
    BY <2>1, <1>2, <1>4, <1>6 DEF SameRun, SameLoop, SameQueue, step
<1> QED
  BY <1>3, <1>5, <1>6

Proceeds(c) ==
  LET r == call[c].req
      op == call[c].op
  IN ~killed /\ (PassesUnclaimed(r, op) \/ Claimable(r, op))
LEMMA ClaimMoves ==
  ASSUME call \in [Callers -> Call], NEW c \in Callers, Claim(c)
  PROVE /\ call' \in [Callers -> Call] /\ Others(c)
        /\ SameRun(c) /\ SameLoop(c) /\ SameQueue(c)
        /\ call'[c].op = call[c].op
        /\ call'[c].pc = IF Proceeds(c) THEN "audit" ELSE "cancel"
<1> DEFINE claims == Proceeds(c) /\ ~PassesUnclaimed(call[c].req, call[c].op)
<1>1. call[c] \in Call
  OBVIOUS
<1>2. PICK p \in {"audit", "cancel"}, b \in BOOLEAN :
        /\ p = IF Proceeds(c) THEN "audit" ELSE "cancel"
        /\ call' = [call EXCEPT ![c] = [call[c] EXCEPT !.claimed = b, !.pc = p]]
  <2>1. claims \in BOOLEAN
    OBVIOUS
  <2>2. call' = [call EXCEPT ![c] = [call[c] EXCEPT !.claimed = claims,
                   !.pc = IF Proceeds(c) THEN "audit" ELSE "cancel"]]
    BY DEF Claim, Proceeds
  <2> HIDE DEF claims
  <2> QED
    BY <2>1, <2>2
<1> DEFINE k == [call[c] EXCEPT !.claimed = b, !.pc = p]
<1>3. /\ k \in Call /\ k.req = call[c].req /\ k.plan = call[c].plan
      /\ k.limited = call[c].limited /\ k.op = call[c].op
      /\ k.queue = call[c].queue
      /\ k.missed = call[c].missed /\ k.next = call[c].next
      /\ k.reconciling = call[c].reconciling /\ k.pc = p
  BY <1>1, ZenonT(60) DEF Call, Points
<1>4. call' = [call EXCEPT ![c] = k]
  BY <1>2
<1> HIDE DEF k
<1> QED
  BY <1>2, <1>3, <1>4 DEF Others, SameRun, SameLoop, SameQueue

LEMMA RejectedMoves ==
  ASSUME call \in [Callers -> Call], NEW c \in Callers, Rejected(c)
  PROVE /\ call' \in [Callers -> Call] /\ Others(c)
        /\ \/ call[c].op \notin Objects /\ call'[c] = NoCall
           \/ /\ call[c].op \in Objects
              /\ SameRun(c) /\ SameLoop(c) /\ SameOp(c)
              /\ call'[c].queue = call[c].queue /\ call'[c].missed = TRUE
              /\ call'[c].pc = "compensate"
<1> DEFINE k == [call[c] EXCEPT !.missed = TRUE, !.pc = "compensate"]
<1>1. call[c] \in Call
  OBVIOUS
<1>3. \/ call[c].op \in Objects /\ call' = [call EXCEPT ![c] = k]
      \/ call[c].op \notin Objects /\ Return(c)
  BY DEF Rejected
<1>2. /\ k \in Call /\ k.req = call[c].req /\ k.plan = call[c].plan
      /\ k.limited = call[c].limited /\ k.op = call[c].op
      /\ k.queue = call[c].queue /\ k.claimed = call[c].claimed
      /\ k.missed = TRUE /\ k.next = call[c].next
      /\ k.reconciling = call[c].reconciling
      /\ k.pc = "compensate"
  BY <1>1 DEF Call, Points
<1> HIDE DEF k
<1> QED
  BY <1>2, <1>3, ReturnMoves DEF Others, SameRun, SameLoop, SameOp

LEMMA SendMoves ==
  ASSUME call \in [Callers -> Call], NEW c \in Callers, Send(c), call[c].op \in Operations
  PROVE /\ call' \in [Callers -> Call] /\ Others(c)
        /\ SameRun(c) /\ SameOp(c) /\ SameQueue(c)
        /\ call'[c].next = call[c].next
        /\ \/ call'[c].pc = AfterSend(call[c].op) /\ call'[c].reconciling = call[c].reconciling
           \/ /\ call'[c].pc = "rejected" /\ call[c].op \in Objects
              /\ call'[c].reconciling = "handler"
           \/ /\ call'[c].pc = "reconcile" /\ call[c].op \notin Objects
              /\ call'[c].reconciling = "handler"
<1> DEFINE op == call[c].op
           late == TimesOut(adapter, ServiceOf[ObjectsOf[op][1]], MethodOf(op))
<1>1. call[c] \in Call
  BY SMTT(30)
<1>2. PICK p \in Points, m \in {"no", "first", "handler"} :
        /\ call' = [call EXCEPT ![c] = [call[c] EXCEPT !.pc = p, !.reconciling = m]]
        /\ \/ p = AfterSend(op) /\ m = call[c].reconciling
           \/ p = "rejected" /\ op \in Objects /\ m = "handler"
           \/ p = "reconcile" /\ op \notin Objects /\ m = "handler"
  <2>1. call' = [call EXCEPT ![c] = [call[c] EXCEPT
             !.pc = IF ~late THEN AfterSend(op)
                    ELSE IF op \in Objects THEN "rejected" ELSE "reconcile",
             !.reconciling = IF late THEN "handler" ELSE @]]
    BY DEF Send
  <2>2. AfterSend(op) \in Points /\ call[c].reconciling \in {"no", "first", "handler"}
    BY <1>1 DEF AfterSend, Points, Call
  <2> HIDE DEF late, op
  <2>3. CASE late
    BY <2>1, <2>2, <2>3 DEF Points
  <2>4. CASE ~late
    BY <2>1, <2>2, <2>4
  <2> QED
    BY <2>3, <2>4
<1> DEFINE k == [call[c] EXCEPT !.pc = p, !.reconciling = m]
<1>3. /\ k \in Call /\ k.req = call[c].req /\ k.plan = call[c].plan
      /\ k.limited = call[c].limited /\ k.op = call[c].op
      /\ k.queue = call[c].queue /\ k.claimed = call[c].claimed
      /\ k.missed = call[c].missed /\ k.next = call[c].next
      /\ k.pc = p /\ k.reconciling = m
  BY <1>1 DEF Call
<1>4. call' = [call EXCEPT ![c] = k]
  BY <1>2
<1> HIDE DEF k
<1> QED
  BY <1>2, <1>3, <1>4 DEF Others, SameRun, SameOp, SameQueue

LEMMA ConsumeFailureMoves ==
  ASSUME call \in [Callers -> Call], NEW c \in Callers, call' = AfterConsumeFailure(c)
  PROVE /\ call' \in [Callers -> Call] /\ Others(c)
        /\ SameRun(c) /\ SameOp(c) /\ SameQueue(c)
        /\ call'[c].next = call[c].next
        /\ \/ /\ call[c].reconciling = "no"
              /\ call'[c].pc = "reconcile" /\ call'[c].reconciling = "handler"
           \/ call'[c].pc = "unknown" /\ call'[c].reconciling = call[c].reconciling
<1> DEFINE k == [call[c] EXCEPT !.pc = "reconcile", !.reconciling = "handler"]
           u == [call[c] EXCEPT !.pc = "unknown"]
<1>1. call[c] \in Call
  OBVIOUS
<1>3. \/ call[c].reconciling = "no" /\ call' = [call EXCEPT ![c] = k]
      \/ call' = [call EXCEPT ![c] = u]
  BY DEF AfterConsumeFailure
<1>2. /\ k \in Call /\ k.req = call[c].req /\ k.plan = call[c].plan
      /\ k.limited = call[c].limited /\ k.op = call[c].op
      /\ k.queue = call[c].queue /\ k.claimed = call[c].claimed
      /\ k.missed = call[c].missed /\ k.next = call[c].next
      /\ k.pc = "reconcile" /\ k.reconciling = "handler"
  BY <1>1 DEF Call, Points
<1>4. /\ u \in Call /\ u.req = call[c].req /\ u.plan = call[c].plan
      /\ u.limited = call[c].limited /\ u.op = call[c].op
      /\ u.queue = call[c].queue /\ u.claimed = call[c].claimed
      /\ u.missed = call[c].missed /\ u.next = call[c].next
      /\ u.pc = "unknown" /\ u.reconciling = call[c].reconciling
  BY <1>1 DEF Call, Points
<1> HIDE DEF k, u
<1> QED
  BY <1>2, <1>3, <1>4 DEF Others, SameRun, SameOp, SameQueue

LEMMA AfterStepMoves ==
  ASSUME call \in [Callers -> Call], NEW c \in Callers, call' = AfterStep(c),
         call[c].reconciling = "no" => call[c].next < 8
  PROVE /\ call' \in [Callers -> Call] /\ Others(c)
        /\ SameRun(c) /\ SameOp(c) /\ SameQueue(c)
        /\ call'[c].reconciling = call[c].reconciling
        /\ call'[c].pc \in {"resume", "settle", "start", "begin"}
        /\ call'[c].pc = "begin" => call'[c].next < 8
<1> DEFINE n == call[c].next
<1>1. call[c] \in Call /\ n \in 0..8 /\ call[c].reconciling \in {"no", "first", "handler"}
  BY CallFields
<1>2. PICK p \in {"resume", "settle", "start", "begin"}, m \in 0..8 :
        /\ call' = [call EXCEPT ![c] = [call[c] EXCEPT !.next = m, !.pc = p]]
        /\ p = "begin" => m < 8
  <2>1. CASE call[c].reconciling = "first"
    <3>1. call' = [call EXCEPT ![c] = [call[c] EXCEPT !.next = n, !.pc = "resume"]]
      <4>1. call' = [call EXCEPT ![c] = [call[c] EXCEPT !.pc = "resume"]]
        BY <2>1 DEF AfterStep
      <4>2. [call[c] EXCEPT !.pc = "resume"] = [call[c] EXCEPT !.next = n, !.pc = "resume"]
        BY <1>1 DEF Call
      <4> QED
        BY <4>1, <4>2
    <3> HIDE DEF n
    <3> QED
      BY <1>1, <3>1
  <2>2. CASE call[c].reconciling = "handler"
    <3>1. PICK p \in {"settle", "start"} :
            call' = [call EXCEPT ![c] = [call[c] EXCEPT !.next = n, !.pc = p]]
      <4>1. PICK p \in {"settle", "start"} :
              call' = [call EXCEPT ![c] = [call[c] EXCEPT !.pc = p]]
        <5>1. CASE call[c].limited
          BY <2>2, <5>1 DEF AfterStep
        <5>2. CASE ~call[c].limited
          BY <2>2, <5>2 DEF AfterStep
        <5> QED
          BY <5>1, <5>2
      <4>2. [call[c] EXCEPT !.pc = p] = [call[c] EXCEPT !.next = n, !.pc = p]
        BY <1>1 DEF Call
      <4> QED
        BY <4>1, <4>2
    <3> HIDE DEF n
    <3> QED
      BY <1>1, <3>1
  <2>3. CASE call[c].reconciling = "no"
    <3>1. n + 1 \in 0..8
      BY <1>1, <2>3
    <3>2. call' = [call EXCEPT ![c] = [call[c] EXCEPT !.next = n + 1,
                     !.pc = IF call[c].limited \/ n + 1 = 8 THEN "settle" ELSE "begin"]]
      BY <2>3, NamesOfSteps DEF AfterStep
    <3> HIDE DEF n
    <3>3. CASE call[c].limited \/ n + 1 = 8
      BY <3>1, <3>2, <3>3
    <3>4. CASE ~(call[c].limited \/ n + 1 = 8)
      <4>1. n + 1 < 8
        BY <1>1, <3>1, <3>4
      <4>2. call' = [call EXCEPT ![c] = [call[c] EXCEPT !.next = n + 1, !.pc = "begin"]]
        BY <3>2, <3>4
      <4> QED
        BY <3>1, <4>1, <4>2
    <3> QED
      BY <3>3, <3>4
  <2> QED
    BY <1>1, <2>1, <2>2, <2>3
<1> DEFINE k == [call[c] EXCEPT !.next = m, !.pc = p]
<1>3. /\ k \in Call /\ k.req = call[c].req /\ k.plan = call[c].plan
      /\ k.limited = call[c].limited /\ k.op = call[c].op
      /\ k.queue = call[c].queue /\ k.claimed = call[c].claimed
      /\ k.missed = call[c].missed /\ k.next = m
      /\ k.pc = p /\ k.reconciling = call[c].reconciling
  BY <1>1, ZenonT(60) DEF Call, Points
<1>4. call' = [call EXCEPT ![c] = k]
  BY <1>2
<1> HIDE DEF k
<1> QED
  BY <1>2, <1>3, <1>4 DEF Others, SameRun, SameOp, SameQueue

LEMMA PendingOpen ==
  ASSUME NEW r \in Requests, OpenSteps(r) # {}
  PROVE Pending(r) \in WriteSteps /\ dispatch[r][Pending(r)] = "OPEN"
BY DEF Pending, OpenSteps

\* A reconciliation without an open dispatch goes on; one with it takes up its step.
LEMMA ReconcileMoves ==
  ASSUME call \in [Callers -> Call], NEW c \in Callers, Reconcile(c),
         call[c].req \in Requests, OpenSteps(call[c].req) # {}
  PROVE /\ call' \in [Callers -> Call] /\ Others(c)
        /\ SameRun(c) /\ SameLoop(c) /\ SameQueue(c)
        /\ call'[c].op = Pending(call[c].req)
        /\ call'[c].pc = Outcome(call[c].req, Pending(call[c].req))
        /\ call'[c].pc \in {"consume", "register", "complete", "unknown"}
        /\ Pending(call[c].req) \in WriteSteps
        /\ dispatch[call[c].req][Pending(call[c].req)] = "OPEN"
<1> DEFINE step == Pending(call[c].req)
           after == Outcome(call[c].req, step)
           k == [call[c] EXCEPT !.op = step, !.pc = after]
<1>1. call[c] \in Call
  OBVIOUS
<1>2. /\ step \in WriteSteps /\ step \in StepNames /\ step \notin Objects
      /\ dispatch[call[c].req][step] = "OPEN"
  BY PendingOpen, OperationKinds
<1>3. after \in {"consume", "register", "complete", "unknown"}
  BY <1>2 DEF Outcome, AfterSend
<1>4. call' = [call EXCEPT ![c] = k]
  BY DEF Reconcile
<1> HIDE DEF step, after
<1>5. /\ k \in Call /\ k.req = call[c].req /\ k.plan = call[c].plan
      /\ k.limited = call[c].limited /\ k.op = step
      /\ k.queue = call[c].queue /\ k.claimed = call[c].claimed
      /\ k.missed = call[c].missed /\ k.next = call[c].next
      /\ k.pc = after /\ k.reconciling = call[c].reconciling
  BY <1>1, <1>2, <1>3 DEF Call, Points
<1> HIDE DEF k
<1> QED
  BY <1>2, <1>3, <1>4, <1>5 DEF Others, SameRun, SameLoop, SameQueue, step, after

LEMMA FailSagaMoves ==
  ASSUME call \in [Callers -> Call], NEW c \in Callers, FailSaga(c),
         CreatedObjects(call[c].req) \in SUBSET Objects
  PROVE /\ call' \in [Callers -> Call] /\ Others(c)
        /\ SameRun(c) /\ SameLoop(c) /\ SameOp(c)
        /\ \/ /\ call'[c].pc = "settle" /\ call'[c].queue = call[c].queue
              /\ CreatedObjects(call[c].req) = {}
              /\ FinishSaga(call[c].req, "FAILED")
           \/ /\ call'[c].pc = "compensate"
              /\ call'[c].queue = CreatedObjects(call[c].req)
              /\ call'[c].missed = FALSE
              /\ saga' = saga
<1> DEFINE created == CreatedObjects(call[c].req)
           k == [call[c] EXCEPT !.queue = created, !.missed = FALSE, !.pc = "compensate"]
<1>1. call[c] \in Call
  OBVIOUS
<1>2. \/ call' = [call EXCEPT ![c] = k] /\ saga' = saga
      \/ Goto(c, "settle") /\ created = {} /\ FinishSaga(call[c].req, "FAILED")
  BY DEF FailSaga
<1> HIDE DEF created
<1>3. /\ k \in Call /\ k.req = call[c].req /\ k.plan = call[c].plan
      /\ k.limited = call[c].limited /\ k.op = call[c].op
      /\ k.queue = created /\ k.claimed = call[c].claimed
      /\ k.missed = FALSE /\ k.next = call[c].next
      /\ k.pc = "compensate" /\ k.reconciling = call[c].reconciling
  BY <1>1 DEF Call, Points, created
<1> HIDE DEF k
<1>4. "settle" \in Points
  BY DEF Points
<1> QED
  BY <1>2, <1>3, <1>4, GotoMoves DEF Others, SameRun, SameLoop, SameOp, SameQueue, created

\* The objects waiting for deletion have one that was recorded last.
Less == {pair \in Nat \X Nat : pair[1] < pair[2]}
LEMMA LessWellFounded == IsWellFoundedOn(Less, Nat)
<1>1. Less = OpToRel(<, Nat)
  BY Zenon DEF OpToRel, Less
<1> QED
  BY <1>1, NatLessThanWellFounded, Zenon

LEMMA LastExists ==
  ASSUME NEW r \in Requests, owned[r] \in Seq(Objects), NEW objects, objects # {},
         objects \subseteq Range(owned[r])
  PROVE LastCreated(r, objects) \in objects
<1> DEFINE s == owned[r]
           back == {n \in Nat : n < Len(s) /\ s[Len(s) - n] \in objects}
<1>1. DOMAIN s = 1..Len(s) /\ Len(s) \in Nat
  OBVIOUS
<1>2. back # {}
  <2>1. PICK i \in 1..Len(s) : s[i] \in objects
    BY <1>1 DEF Range
  <2>2. Len(s) - i \in Nat /\ Len(s) - i < Len(s) /\ Len(s) - (Len(s) - i) = i
    BY <1>1
  <2> QED
    BY <2>1, <2>2
<1>3. PICK n \in back : \A m \in back : <<m, n>> \notin Less
  <2>1. back \subseteq Nat
    OBVIOUS
  <2> HIDE DEF back
  <2> QED
    BY <1>2, <2>1, WFMin, LessWellFounded
<1>4. \A m \in back : ~(m < n)
  BY <1>3 DEF Less
<1> DEFINE i == Len(s) - n
<1>5. i \in 1..Len(s) /\ s[i] \in objects
  BY <1>1, <1>3
<1>6. \A j \in 1..Len(s) : j > i => s[j] \notin objects
  <2> SUFFICES ASSUME NEW j \in 1..Len(s), j > i, s[j] \in objects PROVE FALSE
    OBVIOUS
  <2>1. Len(s) - j \in Nat /\ Len(s) - j < Len(s) /\ Len(s) - (Len(s) - j) = j
    BY <1>1
  <2>2. Len(s) - j \in back
    BY <2>1
  <2>3. Len(s) - j < n
    BY <1>1, <1>3
  <2> QED
    BY <2>2, <2>3, <1>4
<1> HIDE DEF i
<1>7. \E o \in objects : \E k \in DOMAIN s :
        s[k] = o /\ \A j \in DOMAIN s : j > k => s[j] \notin objects
  BY <1>1, <1>5, <1>6
<1> QED
  BY <1>7 DEF LastCreated

LEMMA DeleteMoves ==
  ASSUME call \in [Callers -> Call], NEW c \in Callers, DeleteNext(c),
         call[c].req \in Requests, owned[call[c].req] \in Seq(Objects),
         call[c].queue \subseteq Range(owned[call[c].req])
  PROVE /\ call' \in [Callers -> Call] /\ Others(c)
        /\ SameRun(c) /\ SameLoop(c)
        /\ call'[c].missed = call[c].missed
        /\ call'[c].op \in call[c].queue /\ call'[c].op \in Objects
        /\ call'[c].queue = call[c].queue \ {call'[c].op}
        /\ \/ /\ call'[c].pc = "claim" /\ Belongs(call[c].req, call'[c].op)
              /\ Permitted(account[call[c].req], call'[c].op, "delete")
           \/ call'[c].pc = "rejected"
<1> DEFINE o == LastCreated(call[c].req, call[c].queue)
<1>1. call[c] \in Call
  OBVIOUS
<1>2. o \in call[c].queue /\ o \in Objects
  BY <1>1, LastExists, CallFields DEF DeleteNext
<1>3. PICK p \in {"claim", "rejected"} :
        /\ p = "claim" => /\ Belongs(call[c].req, o)
                          /\ Permitted(account[call[c].req], o, "delete")
        /\ call' = [call EXCEPT ![c] =
                     [call[c] EXCEPT !.op = o, !.queue = @ \ {o}, !.pc = p]]
  <2>1. CASE Belongs(call[c].req, o) /\ Permitted(account[call[c].req], o, "delete")
    BY <2>1 DEF DeleteNext
  <2>2. CASE ~(Belongs(call[c].req, o) /\ Permitted(account[call[c].req], o, "delete"))
    BY <2>2 DEF DeleteNext
  <2> QED
    BY <2>1, <2>2
<1> HIDE DEF o
<1> DEFINE k == [call[c] EXCEPT !.op = o, !.queue = @ \ {o}, !.pc = p]
<1>4. /\ k \in Call /\ k.req = call[c].req /\ k.plan = call[c].plan
      /\ k.limited = call[c].limited /\ k.op = o
      /\ k.queue = call[c].queue \ {o} /\ k.claimed = call[c].claimed
      /\ k.missed = call[c].missed /\ k.next = call[c].next
      /\ k.pc = p /\ k.reconciling = call[c].reconciling
  BY <1>1, <1>2 DEF Call, Points
<1>5. call' = [call EXCEPT ![c] = k]
  BY <1>3
<1> HIDE DEF k
<1> QED
  BY <1>2, <1>3, <1>4, <1>5 DEF Others, SameRun, SameLoop

-----------------------------------------------------------------------------
(* Which steps change which variable.                                      *)

Known == <<saga, dispatch, owned, compensated, reservation, approval, account, answered,
           sent, adapter, audited>>

\* Most steps of a call change nothing but the call.
QuietStep(c) ==
  \/ RefuseStart(c) \/ LoadSaga(c) \/ CheckPending(c) \/ Resume(c) \/ BeginStep(c)
  \/ Recheck(c) \/ Rejected(c) \/ FailConsume(c) \/ Readback(c) \/ Reconcile(c)
  \/ DeleteNext(c) \/ Crash(c)

LEMMA QuietFrame ==
  ASSUME NEW c \in Callers, QuietStep(c)
  PROVE Known' = Known
<1>1. CASE RefuseStart(c)
  BY <1>1 DEF RefuseStart, Known, storeVars, accountVars, guardVars
<1>2. CASE LoadSaga(c)
  BY <1>2 DEF LoadSaga, Known, storeVars, accountVars, guardVars
<1>3. CASE CheckPending(c)
  BY <1>3 DEF CheckPending, Known, storeVars, accountVars, guardVars
<1>4. CASE Resume(c)
  BY <1>4 DEF Resume, Known, storeVars, accountVars, guardVars
<1>5. CASE BeginStep(c)
  BY <1>5 DEF BeginStep, Known, storeVars, accountVars, guardVars
<1>6. CASE Recheck(c)
  BY <1>6 DEF Recheck, Known, storeVars, accountVars, guardVars
<1>7. CASE Rejected(c)
  BY <1>7 DEF Rejected, Known, storeVars, accountVars, guardVars
<1>8. CASE FailConsume(c)
  BY <1>8 DEF FailConsume, Known, storeVars, accountVars, guardVars
<1>9. CASE Readback(c)
  BY <1>9 DEF Readback, Known, storeVars, accountVars, guardVars
<1>10. CASE Reconcile(c)
  BY <1>10 DEF Reconcile, Known, storeVars, accountVars, guardVars
<1>11. CASE DeleteNext(c)
  BY <1>11 DEF DeleteNext, Known, storeVars, accountVars, guardVars
<1>12. CASE Crash(c)
  BY <1>12 DEF Crash, Known, storeVars, accountVars, guardVars
<1> QED
  BY <1>1, <1>2, <1>3, <1>4, <1>5, <1>6, <1>7, <1>8, <1>9, <1>10, <1>11, <1>12 DEF QuietStep

LEMMA StepFrame ==
  ASSUME NEW c \in Callers
  PROVE
    /\ StartSaga(c) => UNCHANGED <<dispatch, owned, compensated, account, answered,
         sent, adapter, audited>>
    /\ Claim(c) => UNCHANGED <<saga, owned, compensated, reservation, approval,
         account, answered, sent, adapter, audited>>
    /\ AuditIntent(c) => UNCHANGED <<saga, dispatch, owned, compensated, reservation,
         approval, account, answered, sent, adapter>>
    /\ CancelClaim(c) => UNCHANGED <<saga, owned, compensated, reservation, approval,
         account, answered, sent, adapter, audited>>
    /\ RepeatAnswer(c) => UNCHANGED <<saga, dispatch, owned, compensated, reservation,
         approval, account, answered, adapter, audited>>
    /\ FailSend(c) => UNCHANGED <<saga, dispatch, owned, compensated, reservation,
         approval, answered, adapter, audited>>
    /\ Send(c) => UNCHANGED <<saga, dispatch, owned, compensated, reservation,
         approval, adapter, audited>>
    /\ ConsumeAuthority(c) => UNCHANGED <<saga, dispatch, owned, compensated, account,
         answered, sent, adapter, audited>>
    /\ RegisterObjects(c) => UNCHANGED <<saga, dispatch, compensated, reservation,
         approval, account, answered, sent, adapter, audited>>
    /\ CompleteStep(c) => UNCHANGED <<owned, compensated, reservation, approval,
         account, answered, sent, adapter, audited>>
    /\ FinishUnknown(c) => UNCHANGED <<dispatch, owned, compensated, reservation,
         approval, account, answered, sent, adapter, audited>>
    /\ FailSaga(c) => UNCHANGED <<dispatch, owned, compensated, reservation, approval,
         account, answered, sent, adapter, audited>>
    /\ MarkCompensated(c) => UNCHANGED <<saga, dispatch, owned, reservation, approval,
         account, answered, sent, adapter, audited>>
    /\ FinishCompensation(c) => UNCHANGED <<dispatch, owned, compensated, reservation,
         approval, account, answered, sent, adapter, audited>>
    /\ Settle(c) => UNCHANGED <<dispatch, owned, compensated, reservation, approval,
         account, answered, sent, adapter, audited>>
<1>1. StartSaga(c) => UNCHANGED <<dispatch, owned, compensated, account, answered,
      sent, adapter, audited>>
  BY DEF StartSaga, storeVars, accountVars, guardVars
<1>2. Claim(c) => UNCHANGED <<saga, owned, compensated, reservation, approval,
      account, answered, sent, adapter, audited>>
  BY DEF Claim, storeVars, accountVars, guardVars
<1>3. AuditIntent(c) => UNCHANGED <<saga, dispatch, owned, compensated, reservation,
      approval, account, answered, sent, adapter>>
  BY DEF AuditIntent, storeVars, accountVars, guardVars
<1>4. CancelClaim(c) => UNCHANGED <<saga, owned, compensated, reservation, approval,
      account, answered, sent, adapter, audited>>
  BY DEF CancelClaim, storeVars, accountVars, guardVars
<1>5. RepeatAnswer(c) => UNCHANGED <<saga, dispatch, owned, compensated, reservation,
      approval, account, answered, adapter, audited>>
  BY DEF RepeatAnswer, storeVars, accountVars, guardVars
<1>6. FailSend(c) => UNCHANGED <<saga, dispatch, owned, compensated, reservation,
      approval, answered, adapter, audited>>
  BY DEF FailSend, storeVars, accountVars, guardVars
<1>7. Send(c) => UNCHANGED <<saga, dispatch, owned, compensated, reservation,
      approval, adapter, audited>>
  BY DEF Send, storeVars, accountVars, guardVars
<1>8. ConsumeAuthority(c) => UNCHANGED <<saga, dispatch, owned, compensated, account,
      answered, sent, adapter, audited>>
  BY DEF ConsumeAuthority, storeVars, accountVars, guardVars
<1>9. RegisterObjects(c) => UNCHANGED <<saga, dispatch, compensated, reservation,
      approval, account, answered, sent, adapter, audited>>
  BY DEF RegisterObjects, storeVars, accountVars, guardVars
<1>10. CompleteStep(c) => UNCHANGED <<owned, compensated, reservation, approval,
      account, answered, sent, adapter, audited>>
  BY DEF CompleteStep, storeVars, accountVars, guardVars
<1>11. FinishUnknown(c) => UNCHANGED <<dispatch, owned, compensated, reservation,
      approval, account, answered, sent, adapter, audited>>
  BY DEF FinishUnknown, storeVars, accountVars, guardVars
<1>12. FailSaga(c) => UNCHANGED <<dispatch, owned, compensated, reservation, approval,
      account, answered, sent, adapter, audited>>
  BY DEF FailSaga, storeVars, accountVars, guardVars
<1>13. MarkCompensated(c) => UNCHANGED <<saga, dispatch, owned, reservation, approval,
      account, answered, sent, adapter, audited>>
  BY DEF MarkCompensated, storeVars, accountVars, guardVars
<1>14. FinishCompensation(c) => UNCHANGED <<dispatch, owned, compensated, reservation,
      approval, account, answered, sent, adapter, audited>>
  BY DEF FinishCompensation, storeVars, accountVars, guardVars
<1>15. Settle(c) => UNCHANGED <<dispatch, owned, compensated, reservation, approval,
      account, answered, sent, adapter, audited>>
  BY DEF Settle, storeVars, accountVars, guardVars
<1> QED
  BY <1>1, <1>2, <1>3, <1>4, <1>5, <1>6, <1>7, <1>8, <1>9, <1>10, <1>11, <1>12, <1>13, <1>14, <1>15

LEMMA ApprovalFrame ==
  ASSUME NEW r \in Requests, NEW p, NEW plan,
         RegisterApproval(r, p, plan) \/ AlterApproval(r, plan)
  PROVE UNCHANGED <<saga, dispatch, owned, compensated, reservation, account, answered,
                    sent, adapter, audited, call>>
BY DEF RegisterApproval, AlterApproval, storeVars, accountVars, guardVars

LEMMA ModerateFrame ==
  ASSUME NEW r \in Requests, NEW o \in Objects, Moderate(r, o)
  PROVE UNCHANGED <<saga, dispatch, owned, compensated, reservation, approval, answered,
                    sent, adapter, audited, call>>
BY DEF Moderate, storeVars, accountVars, guardVars

LEMMA ManageFrame ==
  ASSUME NEW r \in Requests, NEW o \in Objects, NEW m, Manage(r, o, m)
  PROVE UNCHANGED <<saga, dispatch, owned, compensated, reservation, approval, answered,
                    sent, adapter, call>>
BY DEF Manage, storeVars, accountVars, guardVars

LEMMA WorldFrame ==
  ASSUME SetKillSwitch \/ Expire \/ \E r \in Requests : EditOutside(r)
  PROVE UNCHANGED <<Known, call>>
BY DEF SetKillSwitch, Expire, EditOutside, Known, storeVars, accountVars, guardVars

LEMMA ExecuteFrame ==
  ASSUME NEW c \in Callers, NEW r, NEW plan, NEW limited, Execute(c, r, plan, limited)
  PROVE Known' = Known
BY DEF Execute, Known, storeVars, accountVars, guardVars

\* Every step is one of these.
LEMMA StepKinds ==
  ASSUME [Next]_vars
  PROVE /\ session' = session
        /\ \/ UNCHANGED <<Known, call>>
           \/ \E c \in Callers : CallStep(c) \/ Crash(c)
           \/ \E c \in Callers, r \in Requests, plan \in Plans, limited \in BOOLEAN :
                Execute(c, r, plan, limited)
           \/ \E r \in Requests, plan \in Plans :
                \/ \E p \in Principals : RegisterApproval(r, p, plan)
                \/ AlterApproval(r, plan)
           \/ \E r \in Requests, o \in Objects :
                Moderate(r, o) \/ \E method \in DOMAIN Reaches : Manage(r, o, method)
<1>1. UNCHANGED vars => UNCHANGED <<Known, call, session>>
  BY DEF vars, Known, storeVars, accountVars, guardVars
<1> QED
  BY <1>1, WorldFrame DEF Next

LEMMA Frames ==
  ASSUME [Next]_vars
  PROVE /\ \/ saga' = saga
           \/ \E c \in Callers :
                \/ StartSaga(c) \/ CompleteStep(c) \/ FinishUnknown(c)
                \/ FailSaga(c) \/ FinishCompensation(c) \/ Settle(c)
        /\ \/ dispatch' = dispatch
           \/ \E c \in Callers : Claim(c) \/ CancelClaim(c) \/ CompleteStep(c)
        /\ owned' = owned \/ \E c \in Callers : RegisterObjects(c)
        /\ compensated' = compensated \/ \E c \in Callers : MarkCompensated(c)
        /\ \/ reservation' = reservation
           \/ \E c \in Callers : StartSaga(c) \/ ConsumeAuthority(c)
        /\ \/ approval' = approval
           \/ \E r \in Requests, plan \in Plans :
                \/ \E p \in Principals : RegisterApproval(r, p, plan)
                \/ AlterApproval(r, plan)
           \/ \E c \in Callers : StartSaga(c) \/ ConsumeAuthority(c)
        /\ \/ account' = account
           \/ \E c \in Callers : FailSend(c) \/ Send(c)
           \/ \E r \in Requests, o \in Objects :
                Moderate(r, o) \/ \E method \in DOMAIN Reaches : Manage(r, o, method)
        /\ answered' = answered \/ \E c \in Callers : Send(c)
        /\ sent' = sent \/ \E c \in Callers : RepeatAnswer(c) \/ FailSend(c) \/ Send(c)
        /\ \/ audited' = audited
           \/ \E c \in Callers : AuditIntent(c)
           \/ \E r \in Requests, o \in Objects, method \in DOMAIN Reaches :
                Manage(r, o, method)
        /\ adapter' = adapter /\ session' = session
<1>1. \/ Known' = Known
      \/ \E c \in Callers :
           \/ StartSaga(c) \/ Claim(c) \/ AuditIntent(c) \/ CancelClaim(c)
           \/ RepeatAnswer(c) \/ FailSend(c) \/ Send(c) \/ ConsumeAuthority(c)
           \/ RegisterObjects(c) \/ CompleteStep(c) \/ FinishUnknown(c) \/ FailSaga(c)
           \/ MarkCompensated(c) \/ FinishCompensation(c) \/ Settle(c)
      \/ \E r \in Requests, plan \in Plans :
           \/ \E p \in Principals : RegisterApproval(r, p, plan)
           \/ AlterApproval(r, plan)
      \/ \E r \in Requests, o \in Objects :
           Moderate(r, o) \/ \E method \in DOMAIN Reaches : Manage(r, o, method)
  BY StepKinds, QuietFrame, ExecuteFrame DEF CallStep, QuietStep
<1>2. \/ saga' = saga
      \/ \E c \in Callers :
           \/ StartSaga(c) \/ CompleteStep(c) \/ FinishUnknown(c)
           \/ FailSaga(c) \/ FinishCompensation(c) \/ Settle(c)
  BY <1>1, StepFrame, ApprovalFrame, ModerateFrame, ManageFrame DEF Known
<1>3. \/ dispatch' = dispatch
      \/ \E c \in Callers : Claim(c) \/ CancelClaim(c) \/ CompleteStep(c)
  BY <1>1, StepFrame, ApprovalFrame, ModerateFrame, ManageFrame DEF Known
<1>4. owned' = owned \/ \E c \in Callers : RegisterObjects(c)
  BY <1>1, StepFrame, ApprovalFrame, ModerateFrame, ManageFrame DEF Known
<1>5. compensated' = compensated \/ \E c \in Callers : MarkCompensated(c)
  BY <1>1, StepFrame, ApprovalFrame, ModerateFrame, ManageFrame DEF Known
<1>6. \/ reservation' = reservation
      \/ \E c \in Callers : StartSaga(c) \/ ConsumeAuthority(c)
  BY <1>1, StepFrame, ApprovalFrame, ModerateFrame, ManageFrame DEF Known
<1>7. \/ approval' = approval
      \/ \E r \in Requests, plan \in Plans :
           \/ \E p \in Principals : RegisterApproval(r, p, plan)
           \/ AlterApproval(r, plan)
      \/ \E c \in Callers : StartSaga(c) \/ ConsumeAuthority(c)
  BY <1>1, StepFrame, ApprovalFrame, ModerateFrame, ManageFrame DEF Known
<1>8. \/ account' = account
      \/ \E c \in Callers : FailSend(c) \/ Send(c)
      \/ \E r \in Requests, o \in Objects :
           Moderate(r, o) \/ \E method \in DOMAIN Reaches : Manage(r, o, method)
  BY <1>1, StepFrame, ApprovalFrame, ModerateFrame, ManageFrame DEF Known
<1>9. answered' = answered \/ \E c \in Callers : Send(c)
  BY <1>1, StepFrame, ApprovalFrame, ModerateFrame, ManageFrame DEF Known
<1>10. sent' = sent \/ \E c \in Callers : RepeatAnswer(c) \/ FailSend(c) \/ Send(c)
  BY <1>1, StepFrame, ApprovalFrame, ModerateFrame, ManageFrame DEF Known
<1>11. \/ audited' = audited
       \/ \E c \in Callers : AuditIntent(c)
       \/ \E r \in Requests, o \in Objects, method \in DOMAIN Reaches :
            Manage(r, o, method)
  BY <1>1, StepFrame, ApprovalFrame, ModerateFrame, ManageFrame DEF Known
<1>12. adapter' = adapter
  BY <1>1, StepFrame, ApprovalFrame, ModerateFrame, ManageFrame DEF Known
<1> QED
  BY <1>2, <1>3, <1>4, <1>5, <1>6, <1>7, <1>8, <1>9, <1>10, <1>11, <1>12, StepKinds

-----------------------------------------------------------------------------
(* What each variable becomes, request by request.                         *)

LEMMA SagaFields ==
  ASSUME NEW s \in SagaRow
  PROVE /\ s.status \in Statuses /\ s.plan \in Plans \cup {NoRow} /\ s.completed \in 0..8
        /\ s = [status |-> s.status, plan |-> s.plan, completed |-> s.completed]
BY DEF SagaRow

LEMMA ActiveCall ==
  ASSUME TypeOK, NEW c \in Callers, call[c].pc # "idle"
  PROVE /\ call[c] \in Call /\ call[c].req \in Requests /\ call[c].plan \in Plans
        /\ Fits(call[c].pc, call[c].op) /\ call[c].queue \subseteq Range(owned[call[c].req])
        /\ call[c].pc \in InStep /\ call[c].reconciling = "no" => call[c].next < 8
        /\ call[c].pc = "begin" => call[c].next < 8
        /\ call[c].pc = "reconcile" => call[c].reconciling # "no"
BY DEF TypeOK, CallOK

LEMMA FinishMoves ==
  ASSUME saga \in [Requests -> SagaRow], NEW r \in Requests, NEW status \in Terminal,
         FinishSaga(r, status)
  PROVE /\ saga' \in [Requests -> SagaRow]
        /\ \A q \in Requests : q # r => saga'[q] = saga[q]
        /\ saga'[r].status = status /\ saga'[r].plan = saga[r].plan
        /\ saga'[r].completed = saga[r].completed
<1> DEFINE row == [saga[r] EXCEPT !.status = status]
<1>1. row \in SagaRow /\ row.status = status /\ row.plan = saga[r].plan
      /\ row.completed = saga[r].completed
  BY DEF SagaRow, Statuses
<1>2. saga' = [saga EXCEPT ![r] = row]
  BY DEF FinishSaga
<1> HIDE DEF row
<1> QED
  BY <1>1, <1>2

Finishes(c) == FinishUnknown(c) \/ FailSaga(c) \/ FinishCompensation(c) \/ Settle(c)

LEMMA FinishesMoves ==
  ASSUME TypeOK, NEW c \in Callers, Finishes(c)
  PROVE /\ saga' \in [Requests -> SagaRow] /\ call[c].req \in Requests
        /\ \A q \in Requests : q # call[c].req => saga'[q] = saga[q]
        /\ \/ saga' = saga
           \/ /\ saga'[call[c].req].status \in Terminal
              /\ saga'[call[c].req].plan = saga[call[c].req].plan
              /\ saga'[call[c].req].completed = saga[call[c].req].completed
<1>1. call[c].req \in Requests
  BY ActiveCall DEF Finishes, FinishUnknown, FailSaga, FinishCompensation, Settle
<1>2. saga' = saga \/ \E s \in Terminal : FinishSaga(call[c].req, s)
  BY DEF Finishes, FinishUnknown, FailSaga, FinishCompensation, Settle,
         CompensationOutcome, Terminal
<1> QED
  BY <1>1, <1>2, FinishMoves DEF TypeOK

LEMMA StartMoves ==
  ASSUME TypeOK, NEW c \in Callers, StartSaga(c)
  PROVE /\ saga' \in [Requests -> SagaRow] /\ call[c].req \in Requests
        /\ saga[call[c].req].status = "NONE"
        /\ \A q \in Requests : q # call[c].req => saga'[q] = saga[q]
        /\ saga'[call[c].req].status = "IN_FLIGHT"
        /\ saga'[call[c].req].plan = call[c].plan
        /\ saga'[call[c].req].completed = 0
<1>1. call[c].req \in Requests /\ call[c].plan \in Plans
  BY ActiveCall DEF StartSaga
<1> DEFINE row == [status |-> "IN_FLIGHT", plan |-> call[c].plan, completed |-> 0]
<1>2. row \in SagaRow /\ row.status = "IN_FLIGHT" /\ row.plan = call[c].plan
      /\ row.completed = 0
  BY <1>1 DEF SagaRow, Statuses
<1>3. saga' = [saga EXCEPT ![call[c].req] = row] /\ saga[call[c].req].status = "NONE"
  BY DEF StartSaga
<1> HIDE DEF row
<1> QED
  BY <1>1, <1>2, <1>3 DEF TypeOK

Advances(c) ==
  LET r == call[c].req
      op == call[c].op
  IN /\ saga[r].completed < 8 /\ NextStep(r) = op
     /\ op \in WriteSteps => dispatch[r][op] = "OPEN"
     /\ saga' = [saga EXCEPT ![r].completed = @ + 1]
     /\ dispatch' = IF op \in WriteSteps THEN [dispatch EXCEPT ![r][op] = "DONE"]
                    ELSE dispatch

LEMMA CompleteKinds ==
  ASSUME TypeOK, NEW c \in Callers, CompleteStep(c)
  PROVE /\ call[c].req \in Requests
        /\ \/ Return(c) /\ UNCHANGED <<saga, dispatch>>
           \/ call' = AfterStep(c) /\ UNCHANGED <<saga, dispatch>>
           \/ call' = AfterStep(c) /\ Advances(c)
<1>1. call[c].req \in Requests
  BY ActiveCall DEF CompleteStep
<1>2. saga[call[c].req].completed \in 0..8
  BY <1>1, SagaFields DEF TypeOK
<1> QED
  BY <1>1, <1>2, NamesOfSteps DEF CompleteStep, Advances, Completed

LEMMA AdvanceMoves ==
  ASSUME TypeOK, NEW c \in Callers, call[c].req \in Requests, Advances(c)
  PROVE /\ saga' \in [Requests -> SagaRow]
        /\ \A q \in Requests : q # call[c].req => saga'[q] = saga[q]
        /\ saga'[call[c].req].status = saga[call[c].req].status
        /\ saga'[call[c].req].plan = saga[call[c].req].plan
        /\ saga'[call[c].req].completed = saga[call[c].req].completed + 1
        /\ saga[call[c].req].completed \in 0..7
        /\ dispatch' \in [Requests -> [WriteSteps -> {"NONE", "OPEN", "DONE"}]]
        /\ \A q \in Requests, w \in WriteSteps :
             dispatch'[q][w] = IF q = call[c].req /\ w = call[c].op THEN "DONE"
                               ELSE dispatch[q][w]
<1> DEFINE r == call[c].req
           row == [saga[r] EXCEPT !.completed = @ + 1]
<1>0. saga[r] \in SagaRow /\ r \in Requests
  BY DEF TypeOK
<1>1. saga[r].completed \in 0..7
  BY <1>0, SagaFields DEF Advances
<1>2. row \in SagaRow /\ row.status = saga[r].status /\ row.plan = saga[r].plan
      /\ row.completed = saga[r].completed + 1
  BY <1>0, <1>1 DEF SagaRow
<1>3. saga' = [saga EXCEPT ![r] = row]
  BY DEF Advances
<1>4. /\ dispatch' \in [Requests -> [WriteSteps -> {"NONE", "OPEN", "DONE"}]]
      /\ \A q \in Requests, w \in WriteSteps :
             dispatch'[q][w] = IF q = call[c].req /\ w = call[c].op THEN "DONE"
                               ELSE dispatch[q][w]
  BY <1>0 DEF Advances, TypeOK
<1> HIDE DEF row
<1> QED
  BY <1>0, <1>1, <1>2, <1>3, <1>4 DEF TypeOK

LEMMA SagaMoves ==
  ASSUME TypeOK, [Next]_vars
  PROVE /\ saga' \in [Requests -> SagaRow]
        /\ \A r \in Requests :
             \/ saga'[r] = saga[r]
             \/ \E c \in Callers :
                  /\ StartSaga(c) /\ call[c].req = r /\ saga[r].status = "NONE"
                  /\ saga'[r].status = "IN_FLIGHT" /\ saga'[r].plan = call[c].plan
                  /\ saga'[r].completed = 0
             \/ \E c \in Callers :
                  /\ CompleteStep(c) /\ call[c].req = r /\ Advances(c)
                  /\ saga'[r].status = saga[r].status /\ saga'[r].plan = saga[r].plan
                  /\ saga[r].completed \in 0..7
                  /\ saga'[r].completed = saga[r].completed + 1
             \/ \E c \in Callers :
                  /\ Finishes(c) /\ call[c].req = r
                  /\ saga'[r].status \in Terminal /\ saga'[r].plan = saga[r].plan
                  /\ saga'[r].completed = saga[r].completed
<1>1. CASE saga' = saga
  BY <1>1 DEF TypeOK
<1>2. CASE \E c \in Callers : StartSaga(c)
  BY <1>2, StartMoves
<1>3. CASE \E c \in Callers : CompleteStep(c)
  BY <1>1, <1>3, CompleteKinds, AdvanceMoves
<1>4. CASE \E c \in Callers : Finishes(c)
  BY <1>1, <1>4, FinishesMoves
<1> QED
  BY <1>1, <1>2, <1>3, <1>4, Frames DEF Finishes

LEMMA ClaimDispatch ==
  ASSUME TypeOK, NEW c \in Callers, Claim(c)
  PROVE /\ call[c].req \in Requests
        /\ \/ dispatch' = dispatch
              /\ \/ call[c].op \notin WriteSteps \/ ~Proceeds(c)
                 \/ PassesUnclaimed(call[c].req, call[c].op)
           \/ /\ call[c].op \in WriteSteps /\ Proceeds(c)
              /\ Claimable(call[c].req, call[c].op)
              /\ dispatch' = [dispatch EXCEPT ![call[c].req][call[c].op] = "OPEN"]
<1>1. call[c].req \in Requests
  BY ActiveCall DEF Claim
<1> QED
  BY <1>1 DEF Claim, Proceeds

LEMMA DispatchSet ==
  ASSUME TypeOK, NEW r \in Requests, NEW w \in WriteSteps, NEW v \in {"NONE", "OPEN", "DONE"},
         dispatch' = [dispatch EXCEPT ![r][w] = v]
  PROVE /\ dispatch' \in [Requests -> [WriteSteps -> {"NONE", "OPEN", "DONE"}]]
        /\ \A q \in Requests, x \in WriteSteps :
             dispatch'[q][x] = IF q = r /\ x = w THEN v ELSE dispatch[q][x]
BY DEF TypeOK

LEMMA DispatchMoves ==
  ASSUME TypeOK, [Next]_vars
  PROVE /\ dispatch' \in [Requests -> [WriteSteps -> {"NONE", "OPEN", "DONE"}]]
        /\ \A r \in Requests, w \in WriteSteps :
             \/ dispatch'[r][w] = dispatch[r][w]
             \/ \E c \in Callers :
                  /\ Claim(c) /\ call[c].req = r /\ call[c].op = w
                  /\ Claimable(r, w) /\ dispatch'[r][w] = "OPEN"
             \/ \E c \in Callers :
                  /\ CancelClaim(c) /\ call[c].req = r /\ call[c].op = w
                  /\ dispatch[r][w] = "OPEN" /\ dispatch'[r][w] = "NONE"
             \/ \E c \in Callers :
                  /\ CompleteStep(c) /\ call[c].req = r /\ call[c].op = w
                  /\ dispatch[r][w] = "OPEN" /\ dispatch'[r][w] = "DONE" /\ Advances(c)
<1>1. CASE dispatch' = dispatch
  BY <1>1 DEF TypeOK
<1>2. CASE \E c \in Callers : Claim(c)
  <2>1. PICK c \in Callers : Claim(c)
    BY <1>2
  <2>2. call[c].req \in Requests
    BY <2>1, ClaimDispatch
  <2>3. \/ dispatch' = dispatch
        \/ /\ call[c].op \in WriteSteps /\ Claimable(call[c].req, call[c].op)
           /\ dispatch' = [dispatch EXCEPT ![call[c].req][call[c].op] = "OPEN"]
    BY <2>1, ClaimDispatch
  <2> QED
    BY <1>1, <2>1, <2>2, <2>3, DispatchSet
<1>3. CASE \E c \in Callers : CancelClaim(c)
  <2>1. PICK c \in Callers : CancelClaim(c)
    BY <1>3
  <2>2. call[c].req \in Requests
    BY <2>1, ActiveCall DEF CancelClaim
  <2>3. \/ dispatch' = dispatch
        \/ /\ call[c].op \in WriteSteps /\ dispatch[call[c].req][call[c].op] = "OPEN"
           /\ dispatch' = [dispatch EXCEPT ![call[c].req][call[c].op] = "NONE"]
    BY <2>1 DEF CancelClaim, Cancelled
  <2> QED
    BY <1>1, <2>1, <2>2, <2>3, DispatchSet
<1>4. CASE \E c \in Callers : CompleteStep(c)
  <2>1. PICK c \in Callers : CompleteStep(c)
    BY <1>4
  <2>2. call[c].req \in Requests /\ (UNCHANGED dispatch \/ Advances(c))
    BY <2>1, CompleteKinds
  <2>3. CASE Advances(c)
    <3>1. \A q \in Requests, w \in WriteSteps :
            \/ dispatch'[q][w] = dispatch[q][w]
            \/ q = call[c].req /\ w = call[c].op /\ dispatch'[q][w] = "DONE"
      BY <2>2, <2>3, AdvanceMoves
    <3>2. call[c].op \in WriteSteps => dispatch[call[c].req][call[c].op] = "OPEN"
      BY <2>3 DEF Advances
    <3> QED
      BY <2>1, <2>2, <2>3, <3>1, <3>2, AdvanceMoves
  <2> QED
    BY <1>1, <2>2, <2>3
<1> QED
  BY <1>1, <1>2, <1>3, <1>4, Frames

LEMMA RangeAppended ==
  ASSUME NEW s \in Seq(Objects), NEW t \in Seq(Objects)
  PROVE s \o t \in Seq(Objects) /\ Range(s \o t) = Range(s) \cup Range(t)
<1>1. s \o t \in Seq(Objects) /\ Len(s \o t) = Len(s) + Len(t)
  OBVIOUS
<1>2. DOMAIN s = 1..Len(s) /\ DOMAIN t = 1..Len(t) /\ DOMAIN (s \o t) = 1..(Len(s) + Len(t))
      /\ Len(s) \in Nat /\ Len(t) \in Nat
  BY <1>1
<1>3. \A i \in 1..Len(s) : (s \o t)[i] = s[i]
  BY <1>2
<1>4. \A i \in 1..Len(t) : (s \o t)[Len(s) + i] = t[i]
  BY <1>2
<1>5. Range(s \o t) \subseteq Range(s) \cup Range(t)
  <2> SUFFICES ASSUME NEW i \in 1..(Len(s) + Len(t))
               PROVE (s \o t)[i] \in Range(s) \cup Range(t)
    BY <1>2 DEF Range
  <2>1. CASE i <= Len(s)
    BY <1>2, <1>3, <2>1 DEF Range
  <2>2. CASE i > Len(s)
    <3>1. i - Len(s) \in 1..Len(t) /\ Len(s) + (i - Len(s)) = i
      BY <1>2, <2>2
    <3> QED
      BY <1>2, <1>4, <3>1 DEF Range
  <2> QED
    BY <1>2, <2>1, <2>2
<1>6. Range(s) \subseteq Range(s \o t)
  BY <1>2, <1>3 DEF Range
<1>7. Range(t) \subseteq Range(s \o t)
  <2> SUFFICES ASSUME NEW i \in 1..Len(t) PROVE t[i] \in Range(s \o t)
    BY <1>2 DEF Range
  <2>1. Len(s) + i \in 1..(Len(s) + Len(t))
    BY <1>2
  <2> QED
    BY <1>2, <1>4, <2>1 DEF Range
<1> QED
  BY <1>1, <1>5, <1>6, <1>7

LEMMA RegisterKinds ==
  ASSUME TypeOK, NEW c \in Callers, RegisterObjects(c)
  PROVE /\ call[c].req \in Requests /\ call[c].op \in AddSteps
        /\ \/ /\ Return(c) /\ UNCHANGED owned
              /\ \/ dispatch[call[c].req][call[c].op] # "OPEN"
                 \/ Range(ObjectsOf[call[c].op]) \cap Range(owned[call[c].req]) # {}
           \/ /\ dispatch[call[c].req][call[c].op] = "OPEN"
              /\ Range(ObjectsOf[call[c].op]) \cap Range(owned[call[c].req]) = {}
              /\ owned' = [owned EXCEPT ![call[c].req] = @ \o ObjectsOf[call[c].op]]
              /\ Goto(c, "complete") \/ Goto(c, "failed") \/ Return(c)
<1>1. call[c].req \in Requests /\ call[c].op \in AddSteps
  BY ActiveCall DEF RegisterObjects, Fits
<1> QED
  BY <1>1 DEF RegisterObjects

LEMMA OwnedMoves ==
  ASSUME TypeOK, [Next]_vars
  PROVE /\ owned' \in [Requests -> Seq(Objects)]
        /\ \A r \in Requests :
             \/ owned'[r] = owned[r]
             \/ \E c \in Callers :
                  /\ RegisterObjects(c) /\ call[c].req = r /\ call[c].op \in AddSteps
                  /\ dispatch[r][call[c].op] = "OPEN"
                  /\ Range(owned'[r]) = Range(owned[r]) \cup Range(ObjectsOf[call[c].op])
<1>1. CASE owned' = owned
  BY <1>1 DEF TypeOK
<1>2. CASE \E c \in Callers : RegisterObjects(c)
  <2>1. PICK c \in Callers : RegisterObjects(c)
    BY <1>2
  <2>2. call[c].req \in Requests /\ call[c].op \in AddSteps
    BY <2>1, RegisterKinds
  <2>3. \/ owned' = owned
        \/ /\ dispatch[call[c].req][call[c].op] = "OPEN"
           /\ owned' = [owned EXCEPT ![call[c].req] = @ \o ObjectsOf[call[c].op]]
    BY <2>1, RegisterKinds
  <2>4. ObjectsOf[call[c].op] \in Seq(Objects) /\ owned[call[c].req] \in Seq(Objects)
    BY <2>2, ObjectLists, OperationKinds DEF TypeOK
  <2>5. CASE owned' = [owned EXCEPT ![call[c].req] = @ \o ObjectsOf[call[c].op]]
    <3> DEFINE s == owned[call[c].req] \o ObjectsOf[call[c].op]
    <3>1. /\ s \in Seq(Objects)
          /\ Range(s) = Range(owned[call[c].req]) \cup Range(ObjectsOf[call[c].op])
      BY <2>4, RangeAppended
    <3>2. owned' = [owned EXCEPT ![call[c].req] = s] /\ owned \in [Requests -> Seq(Objects)]
      BY <2>5 DEF TypeOK
    <3> HIDE DEF s
    <3>3. owned' \in [Requests -> Seq(Objects)] /\ owned'[call[c].req] = s
          /\ \A q \in Requests : q # call[c].req => owned'[q] = owned[q]
      BY <2>2, <3>1, <3>2
    <3> QED
      BY <1>1, <2>1, <2>2, <2>3, <3>1, <3>3
  <2> QED
    BY <1>1, <2>3, <2>5
<1> QED
  BY <1>1, <1>2, Frames

LEMMA OwnedGrows ==
  ASSUME TypeOK, [Next]_vars, NEW r \in Requests
  PROVE Range(owned[r]) \subseteq Range(owned'[r])
BY OwnedMoves

LEMMA CompensatedMoves ==
  ASSUME TypeOK, [Next]_vars
  PROVE /\ compensated' \in [Requests -> SUBSET Objects]
        /\ \A r \in Requests :
             \/ compensated'[r] = compensated[r]
             \/ \E c \in Callers :
                  /\ MarkCompensated(c) /\ call[c].req = r /\ call[c].op \in Objects
                  /\ compensated'[r] = compensated[r] \cup {call[c].op}
<1>1. CASE compensated' = compensated
  BY <1>1 DEF TypeOK
<1>2. CASE \E c \in Callers : MarkCompensated(c)
  <2>1. PICK c \in Callers : MarkCompensated(c)
    BY <1>2
  <2>2. call[c].req \in Requests /\ call[c].op \in Objects
    BY <2>1, ActiveCall DEF MarkCompensated, Fits
  <2> QED
    BY <2>1, <2>2 DEF MarkCompensated, TypeOK
<1> QED
  BY <1>1, <1>2, Frames

LEMMA ReservationFields ==
  ASSUME NEW x \in ReservationRow
  PROVE x.status \in {"AVAILABLE", "RESERVED", "USED"} /\ x.holder \in Requests \cup {NoRow}
BY DEF ReservationRow

LEMMA ReservationMoves ==
  ASSUME TypeOK, [Next]_vars
  PROVE /\ reservation' \in [Reservations -> ReservationRow]
        /\ \A x \in Reservations :
             \/ reservation'[x] = reservation[x]
             \/ \E c \in Callers :
                  /\ StartSaga(c) /\ ReservationOf[call[c].req] = x
                  /\ reservation[x].status = "AVAILABLE"
             \/ \E c \in Callers :
                  /\ ConsumeAuthority(c) /\ ReservationOf[call[c].req] = x
                  /\ reservation[x] = [status |-> "RESERVED", holder |-> call[c].req]
                  /\ reservation'[x] = [status |-> "USED", holder |-> call[c].req]
<1>1. CASE reservation' = reservation
  BY <1>1 DEF TypeOK
<1>2. CASE \E c \in Callers : StartSaga(c)
  <2>1. PICK c \in Callers : StartSaga(c)
    BY <1>2
  <2>2. call[c].req \in Requests /\ ReservationOf[call[c].req] \in Reservations
    BY <2>1, ActiveCall, RequestAssumption DEF StartSaga
  <2> DEFINE row == [status |-> "RESERVED", holder |-> call[c].req]
  <2>3. row \in ReservationRow
    BY <2>2 DEF ReservationRow
  <2>4. /\ reservation' = [reservation EXCEPT ![ReservationOf[call[c].req]] = row]
        /\ reservation[ReservationOf[call[c].req]].status = "AVAILABLE"
    BY <2>1 DEF StartSaga, ReservationHolds
  <2> HIDE DEF row
  <2>5. /\ reservation' \in [Reservations -> ReservationRow]
        /\ \A x \in Reservations :
             x # ReservationOf[call[c].req] => reservation'[x] = reservation[x]
    BY <2>2, <2>3, <2>4 DEF TypeOK
  <2> QED
    BY <2>1, <2>4, <2>5
<1>3. CASE \E c \in Callers : ConsumeAuthority(c)
  <2>1. PICK c \in Callers : ConsumeAuthority(c)
    BY <1>3
  <2>2. call[c].req \in Requests /\ ReservationOf[call[c].req] \in Reservations
    BY <2>1, ActiveCall, RequestAssumption DEF ConsumeAuthority
  <2> DEFINE r == call[c].req
             row == [reservation[ReservationOf[r]] EXCEPT !.status = "USED"]
  <2>3. CASE ~Consumable(r)
    BY <1>1, <2>1, <2>3 DEF ConsumeAuthority
  <2>4. CASE Consumable(r)
    <3>1. /\ reservation' = [reservation EXCEPT ![ReservationOf[r]] = row]
          /\ reservation[ReservationOf[r]] = [status |-> "RESERVED", holder |-> r]
      BY <2>1, <2>4 DEF ConsumeAuthority, Consumable
    <3>2. row = [status |-> "USED", holder |-> r] /\ row \in ReservationRow
      BY <2>2, <3>1 DEF ReservationRow
    <3> HIDE DEF row
    <3>3. /\ reservation' \in [Reservations -> ReservationRow]
          /\ reservation'[ReservationOf[r]] = row
          /\ \A x \in Reservations :
               x # ReservationOf[r] => reservation'[x] = reservation[x]
      BY <2>2, <3>1, <3>2 DEF TypeOK
    <3> QED
      BY <2>1, <3>1, <3>2, <3>3
  <2> QED
    BY <2>3, <2>4
<1> QED
  BY <1>1, <1>2, <1>3, Frames

LEMMA ApprovalFields ==
  ASSUME NEW a \in ApprovalRow
  PROVE /\ a.fields \in Authority /\ a.signed \in Authority
        /\ a.status \in {"AVAILABLE", "RESERVED", "USED"} /\ a # NoRow
BY NoRowAssumption DEF ApprovalRow

LEMMA AuthorityEdit ==
  ASSUME NEW a \in Authority, NEW b \in Bindings
  PROVE [a EXCEPT !.binding = b] \in Authority
BY DEF Authority

LEMMA SetApproval ==
  ASSUME approval \in [Requests -> ApprovalRow \cup {NoRow}], NEW r \in Requests,
         NEW row \in ApprovalRow, approval' = [approval EXCEPT ![r] = row]
  PROVE /\ approval' \in [Requests -> ApprovalRow \cup {NoRow}] /\ approval'[r] = row
        /\ \A q \in Requests : q # r => approval'[q] = approval[q]
OBVIOUS

\* A stored approval keeps what was signed, and its status only moves on.
LEMMA ApprovalMoves ==
  ASSUME TypeOK, [Next]_vars
  PROVE /\ approval' \in [Requests -> ApprovalRow \cup {NoRow}]
        /\ \A r \in Requests : approval[r] \in ApprovalRow =>
             /\ approval'[r] \in ApprovalRow /\ approval'[r].signed = approval[r].signed
             /\ \/ approval'[r].status = approval[r].status
                \/ approval'[r].status = "RESERVED" /\ approval[r].status = "AVAILABLE"
                \/ approval'[r].status = "USED"
<1>1. CASE approval' = approval
  BY <1>1 DEF TypeOK
<1>2. ASSUME NEW r \in Requests, NEW plan \in Plans, NEW p \in Principals,
             RegisterApproval(r, p, plan)
      PROVE /\ approval[r] = NoRow
            /\ \E row \in ApprovalRow : approval' = [approval EXCEPT ![r] = row]
  <2> DEFINE document == [kind |-> "APPROVAL", principal |-> Approver,
                          binding |-> <<r, plan>>, expires |-> 1]
             row == [fields |-> document, signed |-> document, status |-> "AVAILABLE"]
  <2>1. document \in Authority
    BY PrincipalAssumption, BindingAssumption DEF Authority
  <2>2. approval[r] = NoRow /\ approval' = [approval EXCEPT ![r] = row]
    BY <1>2 DEF RegisterApproval
  <2> HIDE DEF document
  <2>3. row \in ApprovalRow
    BY <2>1 DEF ApprovalRow
  <2> QED
    BY <2>2, <2>3
<1>3. ASSUME NEW r \in Requests, NEW plan \in Plans, AlterApproval(r, plan)
      PROVE /\ approval[r] \in ApprovalRow
            /\ \E row \in ApprovalRow : /\ approval' = [approval EXCEPT ![r] = row]
                                        /\ row.signed = approval[r].signed
                                        /\ row.status = approval[r].status
  <2> DEFINE fields == [approval[r].fields EXCEPT !.binding = <<r, plan>>]
             row == [approval[r] EXCEPT !.fields = fields]
  <2>1. approval[r] \in ApprovalRow
    BY <1>3 DEF AlterApproval, TypeOK
  <2>2. fields \in Authority
    BY <2>1, ApprovalFields, AuthorityEdit, BindingAssumption
  <2>3. approval' = [approval EXCEPT ![r] = row]
    BY <1>3 DEF AlterApproval
  <2> HIDE DEF fields
  <2>4. row \in ApprovalRow /\ row.signed = approval[r].signed
        /\ row.status = approval[r].status
    BY <2>1, <2>2 DEF ApprovalRow
  <2> QED
    BY <2>1, <2>3, <2>4
<1>4. ASSUME NEW r \in Requests, NEW s \in {"RESERVED", "USED"}, approval[r] \in ApprovalRow,
             approval' = [approval EXCEPT ![r].status = s]
      PROVE \E row \in ApprovalRow : /\ approval' = [approval EXCEPT ![r] = row]
                                     /\ row.signed = approval[r].signed
                                     /\ row.status = s
  <2> DEFINE row == [approval[r] EXCEPT !.status = s]
  <2>1. row \in ApprovalRow /\ row.signed = approval[r].signed /\ row.status = s
    BY <1>4 DEF ApprovalRow
  <2>2. approval' = [approval EXCEPT ![r] = row]
    BY <1>4
  <2> QED
    BY <2>1, <2>2
<1>5. CASE \E c \in Callers : StartSaga(c)
  <2>1. PICK c \in Callers : StartSaga(c)
    BY <1>5
  <2>2. call[c].req \in Requests /\ approval[call[c].req] \in ApprovalRow
        /\ approval[call[c].req].status = "AVAILABLE"
    BY <2>1, ActiveCall DEF StartSaga, ApprovalHolds, TypeOK
  <2>3. PICK row \in ApprovalRow : /\ approval' = [approval EXCEPT ![call[c].req] = row]
                                   /\ row.signed = approval[call[c].req].signed
                                   /\ row.status = "RESERVED"
    BY <1>4, <2>1, <2>2 DEF StartSaga
  <2> QED
    BY <2>2, <2>3, SetApproval DEF TypeOK
<1>6. CASE \E c \in Callers : ConsumeAuthority(c)
  <2>1. PICK c \in Callers : ConsumeAuthority(c)
    BY <1>6
  <2>2. call[c].req \in Requests
    BY <2>1, ActiveCall DEF ConsumeAuthority
  <2>3. CASE approval' = approval
    BY <1>1, <2>3
  <2>4. CASE approval[call[c].req] \in ApprovalRow /\ approval' # approval
    <3>1. approval' = [approval EXCEPT ![call[c].req].status = "USED"]
      BY <2>1, <2>4 DEF ConsumeAuthority
    <3>2. PICK row \in ApprovalRow : /\ approval' = [approval EXCEPT ![call[c].req] = row]
                                     /\ row.signed = approval[call[c].req].signed
                                     /\ row.status = "USED"
      BY <1>4, <2>2, <2>4, <3>1
    <3> QED
      BY <2>2, <2>4, <3>2, SetApproval DEF TypeOK
  <2> QED
    BY <2>1, <2>2, <2>3, <2>4 DEF TypeOK, ConsumeAuthority, Consumable
<1>7. CASE \E r \in Requests, plan \in Plans, p \in Principals : RegisterApproval(r, p, plan)
  <2>1. PICK r \in Requests, plan \in Plans, p \in Principals : RegisterApproval(r, p, plan)
    BY <1>7
  <2>2. PICK row \in ApprovalRow : approval' = [approval EXCEPT ![r] = row]
    BY <1>2, <2>1
  <2>3. approval[r] = NoRow
    BY <1>2, <2>1
  <2> QED
    BY <2>2, <2>3, SetApproval, NoRowAssumption DEF TypeOK
<1>8. CASE \E r \in Requests, plan \in Plans : AlterApproval(r, plan)
  <2>1. PICK r \in Requests, plan \in Plans : AlterApproval(r, plan)
    BY <1>8
  <2>2. PICK row \in ApprovalRow : /\ approval' = [approval EXCEPT ![r] = row]
                                   /\ row.signed = approval[r].signed
                                   /\ row.status = approval[r].status
    BY <1>3, <2>1
  <2> QED
    BY <2>2, SetApproval DEF TypeOK
<1> QED
  BY <1>1, <1>5, <1>6, <1>7, <1>8, Frames

-----------------------------------------------------------------------------
(* The account and what has been sent to it.                               *)

LEMMA NothingMissingOf ==
  ASSUME NEW states, NEW objects, NEW method, method \notin Transitions
  PROVE Reached(states, objects, method) = Range(objects)
BY DEF Reached, Range

LEMMA SendingCall ==
  ASSUME TypeOK, NEW c \in Callers, call[c].pc = "send"
  PROVE call[c].req \in Requests /\ call[c].op \in Operations
BY ActiveCall DEF Fits, Sending

LEMMA TransitionKinds ==
  /\ Transitions = {"suspend", "resume", "archive", "unarchive", "moderate"}
  /\ \A op \in Operations :
       /\ MethodOf(op) \in {"add"} \cup DOMAIN Reaches
       /\ MethodOf(op) \in Transitions =>
            \/ op = "MODERATION_SUBMIT" /\ MethodOf(op) = "moderate"
            \/ op = "CAMPAIGN_LAUNCH" /\ MethodOf(op) = "resume"
       /\ MethodOf(op) \notin Transitions =>
            \/ op \in AddSteps /\ MethodOf(op) = "add"
            \/ op \in Objects /\ MethodOf(op) = "delete"
BY NamesOfSteps, Methods DEF Transitions, Reaches, Operations

LEMMA AccountSet ==
  ASSUME TypeOK, NEW r \in Requests, NEW states \in [Objects -> DirectState],
         account' = [account EXCEPT ![r] = states]
  PROVE /\ account' \in [Requests -> [Objects -> DirectState]] /\ account'[r] = states
        /\ \A q \in Requests : q # r => account'[q] = account[q]
BY DEF TypeOK

\* What an invocation of a typed method does to one object.
InvokedBy(c, o) ==
  LET r == call[c].req
      op == call[c].op
  IN \/ account'[r][o] = account[r][o]
     \/ Send(c) /\ op \in AddSteps /\ o \in Range(ObjectsOf[op]) /\ account'[r][o] # "GONE"
     \/ Send(c) /\ op = o /\ account'[r][o] = "GONE"
     \/ /\ op = "MODERATION_SUBMIT" /\ o \in {"ad1", "ad2"}
        /\ account[r][o] # "GONE" /\ account'[r][o] = "MODERATION"
     \/ /\ op = "CAMPAIGN_LAUNCH" /\ o = "campaign"
        /\ account[r][o] # "GONE" /\ account'[r][o] # "GONE"

LEMMA InvocationMoves ==
  ASSUME TypeOK, NEW c \in Callers, Send(c) \/ FailSend(c)
  PROVE /\ call[c].req \in Requests
        /\ account' \in [Requests -> [Objects -> DirectState]]
        /\ \A q \in Requests : q # call[c].req => account'[q] = account[q]
        /\ \A o \in Objects : InvokedBy(c, o)
<1> DEFINE r == call[c].req
           op == call[c].op
           reached == Reached(account[r], ObjectsOf[op], MethodOf(op))
<1>1. r \in Requests /\ op \in Operations /\ account[r] \in [Objects -> DirectState]
  BY SendingCall DEF Send, FailSend, TypeOK
<1>2. ObjectsOf[op] \in Seq(Objects) /\ Range(ObjectsOf[op]) \subseteq Objects
  BY <1>1, ObjectLists
<1>3. MethodOf(op) \in {"add"} \cup DOMAIN Reaches
  BY <1>1, TransitionKinds
<1>4. reached \subseteq Range(ObjectsOf[op])
  BY <1>2, ReachedThere
<1>5. CASE account' = account
  BY <1>1, <1>5 DEF TypeOK, InvokedBy
<1>6. CASE Send(c)
  <2> DEFINE states == Invoked(account[r], Range(ObjectsOf[op]), MethodOf(op))
  <2>1. account' = [account EXCEPT ![r] = states] /\ ~Missing(account[r], ObjectsOf[op], MethodOf(op))
    BY <1>6 DEF Send
  <2>2. states \in [Objects -> DirectState]
    BY <1>1, <1>2, <1>3, InvokedType
  <2>3. ASSUME NEW o \in Objects
        PROVE /\ o \notin Range(ObjectsOf[op]) => states[o] = account[r][o]
              /\ o \in Range(ObjectsOf[op]) /\ MethodOf(op) = "delete" => states[o] = "GONE"
              /\ o \in Range(ObjectsOf[op]) /\ MethodOf(op) # "delete" => states[o] # "GONE"
              /\ o \in Range(ObjectsOf[op]) /\ MethodOf(op) = "moderate" =>
                   states[o] = "MODERATION"
    <3> DEFINE m == MethodOf(op)
               objects == Range(ObjectsOf[op])
               before == account[r]
    <3>1. before \in [Objects -> DirectState] /\ objects \in SUBSET Objects
          /\ m \in {"add"} \cup DOMAIN Reaches
      BY <1>1, <1>2, <1>3
    <3> HIDE DEF m, objects, before
    <3>2. /\ o \notin objects => Invoked(before, objects, m)[o] = before[o]
          /\ o \in objects /\ m = "delete" => Invoked(before, objects, m)[o] = "GONE"
          /\ o \in objects /\ m # "delete" => Invoked(before, objects, m)[o] # "GONE"
          /\ o \in objects /\ m = "moderate" => Invoked(before, objects, m)[o] = "MODERATION"
      BY <3>1, InvokedMoves
    <3> QED
      BY <3>2 DEF m, objects, before
  <2> HIDE DEF states
  <2>4. /\ account' \in [Requests -> [Objects -> DirectState]] /\ account'[r] = states
        /\ \A q \in Requests : q # r => account'[q] = account[q]
    BY <1>1, <2>1, <2>2, AccountSet
  <2>5. ASSUME NEW o \in Objects PROVE InvokedBy(c, o)
    <3>1. CASE o \notin Range(ObjectsOf[op])
      BY <2>3, <2>4, <3>1 DEF InvokedBy
    <3>2. CASE o \in Range(ObjectsOf[op]) /\ MethodOf(op) \in Transitions
      <4>1. account[r][o] # "GONE"
        BY <1>2, <2>1, <3>2, NothingMissing
      <4> QED
        BY <1>1, <2>3, <2>4, <3>2, <4>1, TransitionKinds, StepObjects, ZenonT(60) DEF InvokedBy
    <3>3. CASE o \in Range(ObjectsOf[op]) /\ MethodOf(op) \notin Transitions
      <4>1. CASE op \in AddSteps /\ MethodOf(op) = "add"
        BY <1>6, <2>3, <2>4, <3>3, <4>1 DEF InvokedBy
      <4>2. CASE op \in Objects /\ MethodOf(op) = "delete"
        <5>1. o = op
          BY <3>3, <4>2, OwnObject
        <5> QED
          BY <1>6, <2>3, <2>4, <3>3, <4>2, <5>1 DEF InvokedBy
      <4> QED
        BY <1>1, <3>3, <4>1, <4>2, TransitionKinds
    <3> QED
      BY <3>1, <3>2, <3>3
  <2> QED
    BY <1>1, <2>4, <2>5
<1>7. CASE FailSend(c) /\ account' # account
  <2> DEFINE states == Invoked(account[r], reached, MethodOf(op))
  <2>1. account' = [account EXCEPT ![r] = states] /\ Missing(account[r], ObjectsOf[op], MethodOf(op))
    BY <1>7 DEF FailSend
  <2>2. MethodOf(op) \in Transitions
    BY <2>1, NothingMissingOf DEF Missing
  <2>3. reached \in SUBSET Objects
    BY <1>2, <1>4
  <2>4. states \in [Objects -> DirectState]
    BY <1>1, <1>3, <2>3, InvokedType
  <2>5. ASSUME NEW o \in Objects
        PROVE /\ o \notin reached => states[o] = account[r][o]
              /\ o \in reached /\ MethodOf(op) # "delete" => states[o] # "GONE"
              /\ o \in reached /\ MethodOf(op) = "moderate" => states[o] = "MODERATION"
    <3> DEFINE m == MethodOf(op)
               before == account[r]
    <3>1. before \in [Objects -> DirectState] /\ m \in {"add"} \cup DOMAIN Reaches
      BY <1>1, <1>3
    <3> HIDE DEF m, before, reached
    <3>2. /\ o \notin reached => Invoked(before, reached, m)[o] = before[o]
          /\ o \in reached /\ m # "delete" => Invoked(before, reached, m)[o] # "GONE"
          /\ o \in reached /\ m = "moderate" => Invoked(before, reached, m)[o] = "MODERATION"
      BY <3>1, <2>3, InvokedMoves
    <3> QED
      BY <3>2 DEF m, before, reached
  <2>6. ASSUME NEW o \in reached
        PROVE o \in Range(ObjectsOf[op]) /\ account[r][o] # "GONE"
    BY <1>2, <2>2, ReachedThere
  <2> HIDE DEF states, reached
  <2>7. /\ account' \in [Requests -> [Objects -> DirectState]] /\ account'[r] = states
        /\ \A q \in Requests : q # r => account'[q] = account[q]
    BY <1>1, <2>1, <2>4, AccountSet
  <2>8. ASSUME NEW o \in Objects PROVE InvokedBy(c, o)
    <3>1. CASE o \notin reached
      BY <2>5, <2>7, <3>1 DEF InvokedBy
    <3>2. CASE o \in reached /\ op = "MODERATION_SUBMIT" /\ MethodOf(op) = "moderate"
      BY <2>5, <2>6, <2>7, <3>2, StepObjects DEF InvokedBy
    <3>3. CASE o \in reached /\ op = "CAMPAIGN_LAUNCH" /\ MethodOf(op) = "resume"
      BY <2>5, <2>6, <2>7, <3>3, StepObjects DEF InvokedBy
    <3> QED
      BY <1>1, <2>2, <3>1, <3>2, <3>3, TransitionKinds
  <2> QED
    BY <1>1, <2>7, <2>8
<1> QED
  BY <1>5, <1>6, <1>7, SMTT(30)

LEMMA AccountMoves ==
  ASSUME TypeOK, [Next]_vars
  PROVE /\ account' \in [Requests -> [Objects -> DirectState]]
        /\ \A r \in Requests, o \in Objects :
             \/ account'[r][o] = account[r][o]
             \/ \E c \in Callers :
                  (Send(c) \/ FailSend(c)) /\ call[c].req = r /\ InvokedBy(c, o)
             \/ account[r][o] = "MODERATION" /\ account'[r][o] = "ON"
             \/ ~InFlight(r) /\ account[r][o] # "GONE"
<1>1. CASE account' = account
  BY <1>1 DEF TypeOK
<1>2. CASE \E c \in Callers : Send(c) \/ FailSend(c)
  BY <1>2, InvocationMoves
<1>3. CASE \E r \in Requests, o \in Objects : Moderate(r, o)
  <2>1. PICK r \in Requests, o \in Objects : Moderate(r, o)
    BY <1>3
  <2>2. "ON" \in DirectState
    BY DEF DirectState
  <2>3. account[r][o] = "MODERATION" /\ account' = [account EXCEPT ![r][o] = "ON"]
    BY <2>1 DEF Moderate
  <2> QED
    BY <2>2, <2>3 DEF TypeOK
<1>4. CASE \E r \in Requests, o \in Objects, m \in DOMAIN Reaches : Manage(r, o, m)
  <2>1. PICK r \in Requests, o \in Objects, m \in DOMAIN Reaches : Manage(r, o, m)
    BY <1>4
  <2> DEFINE states == Invoked(account[r], {o}, m)
  <2>2. states \in [Objects -> DirectState]
    BY InvokedType DEF TypeOK
  <2>3. \A x \in Objects : x # o => states[x] = account[r][x]
    BY DEF Invoked
  <2>4. /\ ~InFlight(r) /\ account' = [account EXCEPT ![r] = states]
        /\ Permitted(account[r], o, m)
    BY <2>1 DEF Manage
  <2>5. account[r][o] # "GONE"
    BY <2>4, GoneForbids
  <2> HIDE DEF states
  <2> QED
    BY <2>2, <2>3, <2>4, <2>5, AccountSet
<1> QED
  BY <1>1, <1>2, <1>3, <1>4, Frames

LEMMA SentMoves ==
  ASSUME TypeOK, [Next]_vars
  PROVE /\ sent' \in [Requests -> [Operations -> Nat]]
        /\ \A r \in Requests, op \in Operations :
             \/ sent'[r][op] = sent[r][op]
             \/ \E c \in Callers :
                  /\ RepeatAnswer(c) \/ FailSend(c) \/ Send(c)
                  /\ call[c].pc = "send" /\ call[c].req = r /\ call[c].op = op
                  /\ sent'[r][op] = sent[r][op] + 1
<1>1. CASE sent' = sent
  BY <1>1 DEF TypeOK
<1>2. CASE \E c \in Callers : RepeatAnswer(c) \/ FailSend(c) \/ Send(c)
  <2>1. PICK c \in Callers : RepeatAnswer(c) \/ FailSend(c) \/ Send(c)
    BY <1>2
  <2>2. /\ call[c].pc = "send"
        /\ sent' = [sent EXCEPT ![call[c].req][call[c].op] = @ + 1]
    BY <2>1 DEF RepeatAnswer, FailSend, Send
  <2>3. call[c].req \in Requests /\ call[c].op \in Operations
    BY <2>2, SendingCall
  <2> QED
    BY <2>1, <2>2, <2>3, SMTT(30) DEF TypeOK
<1> QED
  BY <1>1, <1>2, Frames

LEMMA AnsweredMoves ==
  ASSUME TypeOK, [Next]_vars
  PROVE /\ answered' \subseteq Requests \X Operations /\ answered \subseteq answered'
        /\ \A r \in Requests, op \in Operations : <<r, op>> \in answered' \ answered =>
             \E c \in Callers : Send(c) /\ call[c].req = r /\ call[c].op = op
                                /\ sent'[r][op] = sent[r][op] + 1
<1>1. CASE answered' = answered
  BY <1>1 DEF TypeOK
<1>2. CASE \E c \in Callers : Send(c)
  <2>1. PICK c \in Callers : Send(c)
    BY <1>2
  <2>2. /\ call[c].pc = "send" /\ answered' = answered \cup {<<call[c].req, call[c].op>>}
        /\ sent' = [sent EXCEPT ![call[c].req][call[c].op] = @ + 1]
    BY <2>1 DEF Send
  <2>3. call[c].req \in Requests /\ call[c].op \in Operations
    BY <2>2, SendingCall
  <2>4. sent'[call[c].req][call[c].op] = sent[call[c].req][call[c].op] + 1
    BY <2>2, <2>3 DEF TypeOK
  <2> QED
    BY <2>1, <2>2, <2>3, <2>4 DEF TypeOK
<1> QED
  BY <1>1, <1>2, Frames

\* The call of an invocation counts it.
LEMMA SendCounts ==
  ASSUME TypeOK, NEW c \in Callers, RepeatAnswer(c) \/ FailSend(c) \/ Send(c)
  PROVE /\ call[c].pc = "send" /\ call[c].req \in Requests /\ call[c].op \in Operations
        /\ sent'[call[c].req][call[c].op] = sent[call[c].req][call[c].op] + 1
        /\ \A r \in Requests, op \in Operations :
             <<r, op>> # Key(c) => sent'[r][op] = sent[r][op]
        /\ Send(c) => answered' = answered \cup {Key(c)}
        /\ ~Send(c) => answered' = answered
<1>1. /\ call[c].pc = "send"
      /\ sent' = [sent EXCEPT ![call[c].req][call[c].op] = @ + 1]
      /\ Send(c) => answered' = answered \cup {Key(c)}
      /\ ~Send(c) => answered' = answered
  BY DEF RepeatAnswer, FailSend, Send, Key
<1>2. call[c].req \in Requests /\ call[c].op \in Operations
  BY <1>1, SendingCall
<1> QED
  BY <1>1, <1>2, SMTT(30) DEF TypeOK, Key

LEMMA AuditedGrows ==
  ASSUME [Next]_vars
  PROVE audited \subseteq audited'
<1>1. \A c \in Callers : AuditIntent(c) => audited \subseteq audited'
  BY DEF AuditIntent
<1>2. \A r \in Requests, o \in Objects, m \in DOMAIN Reaches :
        Manage(r, o, m) => audited \subseteq audited'
  BY DEF Manage
<1> QED
  BY <1>1, <1>2, Frames

-----------------------------------------------------------------------------
(* The steps of a call keep its type.                                      *)

\* A call stays with its request, and what it has queued was recorded.
Steady(c) ==
  /\ call' \in [Callers -> Call] /\ Others(c) /\ CallOK(call'[c])
  /\ call'[c].pc # "idle" =>
       /\ call[c].pc # "idle"
       /\ call'[c].req = call[c].req /\ call'[c].plan = call[c].plan
       /\ \/ call'[c].queue \subseteq call[c].queue
          \/ call'[c].queue = CreatedObjects(call[c].req)

LEMMA SteadyStep ==
  ASSUME TypeOK, NEW c \in Callers, call[c].pc # "idle",
         call' \in [Callers -> Call], Others(c), SameRun(c),
         call'[c].queue \subseteq call[c].queue \/ call'[c].queue = CreatedObjects(call[c].req),
         call'[c].pc \in InStep /\ call'[c].reconciling = "no" => call'[c].next < 8,
         call'[c].pc = "begin" => call'[c].next < 8,
         call'[c].pc = "reconcile" => call'[c].reconciling # "no",
         Fits(call'[c].pc, call'[c].op)
  PROVE Steady(c)
BY ActiveCall DEF Steady, CallOK, SameRun

LEMMA SteadyReturn ==
  ASSUME TypeOK, NEW c \in Callers, Return(c)
  PROVE Steady(c)
BY ReturnMoves, NoCallIdle DEF Steady, TypeOK

LEMMA SteadyGoto ==
  ASSUME TypeOK, NEW c \in Callers, call[c].pc # "idle", NEW p \in Points, Goto(c, p),
         p \in InStep => call[c].pc \in InStep \/ call[c].reconciling # "no",
         p \notin {"begin", "reconcile"}, Fits(p, call[c].op)
  PROVE Steady(c)
<1>1. /\ call' \in [Callers -> Call] /\ Others(c) /\ call'[c].pc = p
      /\ SameRun(c) /\ SameLoop(c) /\ SameOp(c) /\ SameQueue(c)
  BY GotoMoves DEF TypeOK
<1>2. call'[c].pc \in InStep /\ call'[c].reconciling = "no" => call'[c].next < 8
  BY <1>1, ActiveCall DEF SameLoop
<1> QED
  BY <1>1, <1>2, SteadyStep DEF SameOp, SameQueue

\* Points that ask nothing of the operation.
Free == {"idle", "start", "pending", "resume", "begin", "reconcile", "unknown", "failed",
         "compensate", "settle"}
LEMMA FreeFits == \A p \in Free : p \in Points /\ \A op : Fits(p, op)
BY DEF Free, Fits, Sending, Points

LEMMA SteadyLoop ==
  ASSUME TypeOK, NEW c \in Callers,
         \/ StartSaga(c) \/ RefuseStart(c) \/ LoadSaga(c) \/ CheckPending(c) \/ Resume(c)
         \/ BeginStep(c)
  PROVE Steady(c)
<1>1. call[c].pc # "idle" /\ call \in [Callers -> Call] /\ call[c].req \in Requests
      /\ call[c] \in Call /\ Completed(call[c].req) \in 0..8
  BY ActiveCall, SagaFields DEF StartSaga, RefuseStart, LoadSaga, CheckPending, Resume,
     BeginStep, TypeOK, Completed
<1>2. CASE StartSaga(c)
  <2>1. Goto(c, "pending")
    BY <1>2 DEF StartSaga
  <2> QED
    BY <1>1, <2>1, FreeFits, SteadyGoto DEF Free, InStep, Sending
<1>3. CASE RefuseStart(c)
  BY <1>3, SteadyReturn DEF RefuseStart
<1>4. CASE LoadSaga(c)
  <2>1. Goto(c, "pending") \/ Return(c)
    BY <1>4 DEF LoadSaga
  <2> QED
    BY <1>1, <2>1, FreeFits, SteadyGoto, SteadyReturn DEF Free, InStep, Sending
<1>5. CASE CheckPending(c)
  <2>1. /\ call' \in [Callers -> Call] /\ Others(c)
        /\ SameRun(c) /\ SameOp(c) /\ SameQueue(c)
        /\ \/ call'[c].pc = "resume" /\ call'[c].reconciling = "no"
           \/ call'[c].pc = "reconcile" /\ call'[c].reconciling = "first"
    BY <1>1, <1>5, CheckPendingMoves
  <2> QED
    BY <1>1, <2>1, FreeFits, SteadyStep DEF Free, InStep, Sending, SameQueue
<1>6. CASE Resume(c)
  <2>1. /\ call' \in [Callers -> Call] /\ Others(c)
        /\ SameRun(c) /\ SameOp(c) /\ SameQueue(c)
        /\ call'[c].reconciling = "no" /\ call'[c].next = Completed(call[c].req)
        /\ call'[c].pc = IF Completed(call[c].req) = 8 THEN "settle" ELSE "begin"
    BY <1>1, <1>6, ResumeMoves
  <2>2. call'[c].pc = "begin" => call'[c].next < 8
    BY <1>1, <2>1
  <2>3. call'[c].pc \in {"settle", "begin"}
    BY <2>1
  <2> QED
    BY <1>1, <2>1, <2>2, <2>3, FreeFits, SteadyStep DEF Free, InStep, Sending, SameQueue
<1>7. CASE BeginStep(c)
  <2>1. call[c].next < 8
    BY <1>7, ActiveCall DEF BeginStep
  <2>2. CASE call'[c] = NoCall
    <3>1. call' \in [Callers -> Call] /\ Others(c)
      BY <1>1, <1>7, <2>1, BeginMoves
    <3> QED
      BY <2>2, <3>1, NoCallIdle DEF Steady
  <2>3. CASE call'[c] # NoCall
    <3>1. /\ call' \in [Callers -> Call] /\ Others(c)
          /\ SameRun(c) /\ SameLoop(c) /\ SameQueue(c)
          /\ call'[c].op = StepOf(c) /\ StepOf(c) \in StepNames
          /\ call'[c].pc = IF StepOf(c) \in WriteSteps THEN "claim" ELSE "readback"
      BY <1>1, <1>7, <2>1, <2>3, BeginMoves
    <3>2. Fits(call'[c].pc, call'[c].op)
      BY <3>1, NamesOfSteps, OperationKinds DEF Fits, Sending
    <3>3. call'[c].pc \in {"claim", "readback"}
      BY <3>1
    <3> QED
      BY <1>1, <2>1, <3>1, <3>2, <3>3, SteadyStep DEF SameLoop, SameQueue
  <2> QED
    BY <2>2, <2>3
<1> QED
  BY <1>2, <1>3, <1>4, <1>5, <1>6, <1>7

LEMMA SteadyWrite ==
  ASSUME TypeOK, NEW c \in Callers,
         \/ Claim(c) \/ AuditIntent(c) \/ Recheck(c) \/ CancelClaim(c) \/ Rejected(c)
         \/ RepeatAnswer(c) \/ FailSend(c) \/ Send(c)
  PROVE Steady(c)
<1>1. call[c].pc \in Sending \cup {"cancel", "rejected"}
  BY DEF Claim, AuditIntent, Recheck, CancelClaim, Rejected, RepeatAnswer, FailSend, Send,
     Sending
<1>2. /\ call[c].pc # "idle" /\ call \in [Callers -> Call] /\ call[c].op \in Operations
      /\ call[c].pc \in InStep /\ (call[c].reconciling = "no" => call[c].next < 8)
  BY <1>1, ActiveCall DEF Sending, InStep, Fits, TypeOK
<1>3. \A p \in Sending \cup {"cancel", "rejected"} :
        p \in Points /\ p \notin {"begin", "reconcile"} /\ Fits(p, call[c].op)
  BY <1>2 DEF Sending, Points, Fits
<1>4. CASE Claim(c)
  <2>1. /\ call' \in [Callers -> Call] /\ Others(c)
        /\ SameRun(c) /\ SameLoop(c) /\ SameQueue(c) /\ call'[c].op = call[c].op
        /\ call'[c].pc = IF Proceeds(c) THEN "audit" ELSE "cancel"
    BY <1>2, <1>4, ClaimMoves
  <2>2. call'[c].pc \in {"audit", "cancel"}
    BY <2>1
  <2>3. Fits(call'[c].pc, call'[c].op)
    BY <1>3, <2>1, <2>2 DEF Sending
  <2> QED
    BY <1>2, <2>1, <2>2, <2>3, SteadyStep DEF SameLoop, SameQueue
<1>5. CASE AuditIntent(c)
  <2>1. Goto(c, "cancel") \/ Goto(c, "recheck")
    BY <1>5 DEF AuditIntent
  <2> QED
    BY <1>2, <1>3, <2>1, SteadyGoto DEF Sending
<1>6. CASE Recheck(c)
  <2>1. Goto(c, "cancel") \/ Goto(c, "rejected") \/ Goto(c, "send")
    BY <1>6 DEF Recheck
  <2> QED
    BY <1>2, <1>3, <2>1, SteadyGoto DEF Sending
<1>7. CASE CancelClaim(c)
  BY <1>2, <1>3, <1>7, SteadyGoto DEF CancelClaim
<1>8. CASE Rejected(c)
  <2>1. CASE call'[c] = NoCall
    <3>1. call' \in [Callers -> Call] /\ Others(c)
      BY <1>2, <1>8, RejectedMoves
    <3> QED
      BY <2>1, <3>1, NoCallIdle DEF Steady
  <2>2. CASE call'[c] # NoCall
    <3>1. /\ call' \in [Callers -> Call] /\ Others(c)
          /\ SameRun(c) /\ SameLoop(c)
          /\ call'[c].queue = call[c].queue /\ call'[c].pc = "compensate"
      BY <1>2, <1>8, <2>2, RejectedMoves
    <3> QED
      BY <1>2, <3>1, SteadyStep, FreeFits DEF SameLoop, Free
  <2> QED
    BY <2>1, <2>2
<1>9. /\ AfterSend(call[c].op) \in Points /\ AfterSend(call[c].op) \notin {"begin", "reconcile"}
      /\ Fits(AfterSend(call[c].op), call[c].op)
  BY <1>2, OperationKinds, NamesOfSteps DEF AfterSend, Fits, Points, Sending
<1>10. CASE RepeatAnswer(c)
  BY <1>2, <1>9, <1>10, SteadyGoto DEF RepeatAnswer
<1>11. CASE FailSend(c)
  <2>1. Goto(c, "rejected") \/ Goto(c, "failed")
    BY <1>11 DEF FailSend
  <2> QED
    BY <1>2, <1>3, <2>1, FreeFits, SteadyGoto DEF Free
<1>12. CASE Send(c)
  <2>1. /\ call' \in [Callers -> Call] /\ Others(c)
        /\ SameRun(c) /\ SameOp(c) /\ SameQueue(c)
        /\ call'[c].next = call[c].next
        /\ \/ call'[c].pc = AfterSend(call[c].op) /\ call'[c].reconciling = call[c].reconciling
           \/ /\ call'[c].pc = "rejected" /\ call[c].op \in Objects
              /\ call'[c].reconciling = "handler"
           \/ /\ call'[c].pc = "reconcile" /\ call[c].op \notin Objects
              /\ call'[c].reconciling = "handler"
    BY <1>2, <1>12, SendMoves
  <2>2. \/ call'[c].pc = AfterSend(call[c].op) /\ call'[c].reconciling = call[c].reconciling
        \/ call'[c].pc = "reconcile" /\ call'[c].reconciling = "handler"
        \/ call'[c].pc = "rejected" /\ call'[c].reconciling = "handler"
    BY <2>1
  <2>3. Fits(call'[c].pc, call'[c].op)
    BY <1>3, <1>9, <2>1, <2>2, FreeFits DEF SameOp, Free
  <2>4. call'[c].pc \in InStep /\ call'[c].reconciling = "no" => call'[c].next < 8
    BY <1>2, <2>1, <2>2
  <2> QED
    BY <1>2, <1>9, <2>1, <2>2, <2>3, <2>4, SteadyStep DEF SameQueue
<1> QED
  BY <1>4, <1>5, <1>6, <1>7, <1>8, <1>10, <1>11, <1>12, SMTT(30)

LEMMA SteadyRecord ==
  ASSUME TypeOK, NEW c \in Callers,
         \/ ConsumeAuthority(c) \/ FailConsume(c) \/ RegisterObjects(c) \/ CompleteStep(c)
         \/ Readback(c) \/ Reconcile(c) \/ FinishUnknown(c)
  PROVE Steady(c)
<1>1. call[c].pc \in {"consume", "register", "complete", "readback", "reconcile", "unknown"}
  BY DEF ConsumeAuthority, FailConsume, RegisterObjects, CompleteStep, Readback, Reconcile,
     FinishUnknown
<1>2. /\ call[c].pc # "idle" /\ call \in [Callers -> Call] /\ call[c].req \in Requests
      /\ Fits(call[c].pc, call[c].op)
      /\ (call[c].reconciling = "no" /\ call[c].pc # "unknown" => call[c].next < 8)
      /\ call[c].pc = "reconcile" => call[c].reconciling # "no"
      /\ call[c].pc \notin {"reconcile", "unknown"} => call[c].pc \in InStep
  BY <1>1, ActiveCall DEF InStep, TypeOK
<1>3. ASSUME call' = AfterConsumeFailure(c) PROVE Steady(c)
  <2>1. /\ call' \in [Callers -> Call] /\ Others(c)
        /\ SameRun(c) /\ SameOp(c) /\ SameQueue(c)
        /\ call'[c].next = call[c].next
        /\ \/ /\ call[c].reconciling = "no"
              /\ call'[c].pc = "reconcile" /\ call'[c].reconciling = "handler"
           \/ call'[c].pc = "unknown" /\ call'[c].reconciling = call[c].reconciling
    BY <1>2, <1>3, ConsumeFailureMoves
  <2>2. \/ call'[c].pc = "reconcile" /\ call'[c].reconciling = "handler"
        \/ call'[c].pc = "unknown"
    BY <2>1
  <2>3. "reconcile" \notin InStep /\ "unknown" \notin InStep
    BY DEF InStep, Sending
  <2> QED
    BY <1>2, <2>1, <2>2, <2>3, FreeFits, SteadyStep DEF SameQueue, Free
<1>4. ASSUME call' = AfterStep(c), call[c].pc # "unknown" PROVE Steady(c)
  <2>1. /\ call' \in [Callers -> Call] /\ Others(c)
        /\ SameRun(c) /\ SameOp(c) /\ SameQueue(c)
        /\ call'[c].pc \in {"resume", "settle", "start", "begin"}
        /\ call'[c].pc = "begin" => call'[c].next < 8
    BY <1>2, <1>4, AfterStepMoves
  <2>2. {"resume", "settle", "start"} \cap InStep = {}
    BY DEF InStep, Sending
  <2> QED
    BY <1>2, <2>1, <2>2, FreeFits, SteadyStep DEF SameQueue, Free
<1>5. CASE ConsumeAuthority(c)
  <2>1. call' = AfterConsumeFailure(c) \/ Goto(c, "register")
    BY <1>5 DEF ConsumeAuthority
  <2>2. Fits("register", call[c].op) /\ "register" \in Points /\ call[c].pc = "consume"
    BY <1>2, <1>5, NamesOfSteps DEF ConsumeAuthority, Fits, Sending, Points
  <2> QED
    BY <1>2, <1>3, <2>1, <2>2, SteadyGoto
<1>6. CASE FailConsume(c)
  BY <1>3, <1>6 DEF FailConsume
<1>7. CASE RegisterObjects(c)
  <2>1. Return(c) \/ Goto(c, "complete") \/ Goto(c, "failed")
    BY <1>7, RegisterKinds
  <2>2. call[c].op \in AddSteps /\ call[c].pc = "register"
    BY <1>2, <1>7 DEF RegisterObjects, Fits
  <2>3. Fits("complete", call[c].op) /\ "complete" \in Points
    BY <2>2, OperationKinds DEF Fits, Sending, Points
  <2> QED
    BY <1>2, <2>1, <2>2, <2>3, FreeFits, SteadyGoto, SteadyReturn DEF Free
<1>8. CASE CompleteStep(c)
  <2>1. Return(c) \/ call' = AfterStep(c)
    BY <1>8, CompleteKinds
  <2>2. call[c].pc = "complete"
    BY <1>8 DEF CompleteStep
  <2> QED
    BY <1>4, <2>1, <2>2, SteadyReturn
<1>9. CASE Readback(c)
  <2>1. Return(c) \/ Goto(c, "complete") \/ Goto(c, "failed")
    BY <1>9, SMTT(30) DEF Readback
  <2>2. call[c].op \in {"MODERATION_READBACK", "FULL_READBACK"} /\ call[c].pc = "readback"
    BY <1>2, <1>9 DEF Readback, Fits
  <2>3. Fits("complete", call[c].op) /\ "complete" \in Points
    BY <2>2, NamesOfSteps DEF Fits, Sending, Points
  <2> QED
    BY <1>2, <2>1, <2>2, <2>3, FreeFits, SteadyGoto, SteadyReturn, SMTT(30) DEF Free
<1>10. CASE Reconcile(c)
  <2>1. call[c].pc = "reconcile"
    BY <1>10 DEF Reconcile
  <2>2. CASE OpenSteps(call[c].req) = {}
    <3>1. call' = AfterStep(c)
      BY <1>10, <2>2 DEF Reconcile
    <3> QED
      BY <1>4, <2>1, <3>1
  <2>3. CASE OpenSteps(call[c].req) # {}
    <3>1. /\ call' \in [Callers -> Call] /\ Others(c)
          /\ SameRun(c) /\ SameLoop(c) /\ SameQueue(c)
          /\ call'[c].op = Pending(call[c].req)
          /\ call'[c].pc = Outcome(call[c].req, Pending(call[c].req))
          /\ call'[c].pc \in {"consume", "register", "complete", "unknown"}
          /\ Pending(call[c].req) \in WriteSteps
      BY <1>2, <1>10, <2>3, ReconcileMoves
    <3>2. Fits(call'[c].pc, call'[c].op)
      BY <3>1, NamesOfSteps, OperationKinds DEF Outcome, AfterSend, Fits, Sending
    <3> QED
      BY <1>2, <2>1, <3>1, <3>2, SteadyStep DEF SameLoop, SameQueue
  <2> QED
    BY <2>2, <2>3
<1>11. CASE FinishUnknown(c)
  <2>1. Return(c) \/ Goto(c, "settle")
    BY <1>11 DEF FinishUnknown
  <2>2. "settle" \notin InStep
    BY DEF InStep, Sending
  <2> QED
    BY <1>2, <2>1, <2>2, FreeFits, SteadyGoto, SteadyReturn DEF Free
<1> QED
  BY <1>5, <1>6, <1>7, <1>8, <1>9, <1>10, <1>11, SMTT(30)

LEMMA SteadyUndo ==
  ASSUME TypeOK, NEW c \in Callers,
         \/ FailSaga(c) \/ DeleteNext(c) \/ MarkCompensated(c) \/ FinishCompensation(c)
         \/ Settle(c)
  PROVE Steady(c)
<1>1. /\ call[c].pc \in {"failed", "compensate", "mark", "settle"}
  BY DEF FailSaga, DeleteNext, MarkCompensated, FinishCompensation, Settle
<1>2. /\ call[c].pc # "idle" /\ call \in [Callers -> Call] /\ call[c].req \in Requests
      /\ Fits(call[c].pc, call[c].op) /\ call[c].queue \subseteq Range(owned[call[c].req])
      /\ call[c].pc # "settle" => call[c].pc \in InStep
      /\ call[c].pc # "settle" /\ call[c].reconciling = "no" => call[c].next < 8
      /\ owned[call[c].req] \in Seq(Objects) /\ "settle" \notin InStep
  BY <1>1, ActiveCall DEF InStep, Sending, TypeOK
<1>3. CreatedObjects(call[c].req) \in SUBSET Objects
  <2>1. Range(owned[call[c].req]) \subseteq Objects
    BY <1>2 DEF Range
  <2> QED
    BY <2>1 DEF CreatedObjects
<1>4. CASE FailSaga(c)
  <2>1. /\ call' \in [Callers -> Call] /\ Others(c)
        /\ SameRun(c) /\ SameLoop(c) /\ SameOp(c)
        /\ call'[c].pc \in {"settle", "compensate"}
        /\ call'[c].queue \in {call[c].queue, CreatedObjects(call[c].req)}
    BY <1>2, <1>3, <1>4, FailSagaMoves
  <2>2. call[c].pc = "failed"
    BY <1>4 DEF FailSaga
  <2> QED
    BY <1>2, <2>1, <2>2, FreeFits, SteadyStep DEF SameLoop, Free
<1>5. CASE DeleteNext(c)
  <2>1. /\ call' \in [Callers -> Call] /\ Others(c) /\ SameRun(c) /\ SameLoop(c)
        /\ call'[c].op \in Objects /\ call'[c].queue \subseteq call[c].queue
        /\ call'[c].pc \in {"claim", "rejected"}
    BY <1>2, <1>5, DeleteMoves, CallFields
  <2>2. call[c].pc = "compensate" /\ Fits(call'[c].pc, call'[c].op)
    BY <1>5, <2>1, OperationKinds DEF DeleteNext, Fits, Sending
  <2> QED
    BY <1>2, <2>1, <2>2, SteadyStep DEF SameLoop
<1>6. CASE MarkCompensated(c)
  BY <1>2, <1>6, FreeFits, SteadyGoto DEF MarkCompensated, Free
<1>7. CASE FinishCompensation(c)
  BY <1>2, <1>7, FreeFits, SteadyGoto DEF FinishCompensation, Free
<1>8. CASE Settle(c)
  BY <1>8, SteadyReturn DEF Settle
<1> QED
  BY <1>4, <1>5, <1>6, <1>7, <1>8

LEMMA CallSteady ==
  ASSUME TypeOK, NEW c \in Callers, CallStep(c) \/ Crash(c)
  PROVE Steady(c)
BY SteadyLoop, SteadyWrite, SteadyRecord, SteadyUndo, SteadyReturn DEF CallStep, Crash

\* A call either stays as it was, is opened, or makes one of its steps.
LEMMA CallMoves ==
  ASSUME TypeOK, [Next]_vars
  PROVE /\ call' \in [Callers -> Call]
        /\ \A c \in Callers :
             \/ call'[c] = call[c]
             \/ (CallStep(c) \/ Crash(c)) /\ Steady(c)
             \/ \E r \in Requests, plan \in Plans, limited \in BOOLEAN :
                  /\ Execute(c, r, plan, limited) /\ call'[c].pc = "start"
                  /\ call'[c].req = r /\ call'[c].plan = plan /\ call'[c].queue = {}
                  /\ call[c].pc = "idle" /\ c \in session.callers
<1>1. CASE call' = call
  BY <1>1 DEF TypeOK
<1>2. CASE \E c \in Callers : CallStep(c) \/ Crash(c)
  BY <1>2, CallSteady DEF Steady, Others
<1>3. CASE \E c \in Callers, r \in Requests, plan \in Plans, limited \in BOOLEAN :
             Execute(c, r, plan, limited)
  <2>1. PICK c \in Callers, r \in Requests, plan \in Plans, limited \in BOOLEAN :
               Execute(c, r, plan, limited)
    BY <1>3
  <2>2. /\ call' \in [Callers -> Call] /\ Others(c) /\ call[c].pc = "idle"
        /\ call'[c].pc = "start" /\ call'[c].req = r /\ call'[c].plan = plan
        /\ call'[c].queue = {} /\ c \in session.callers
    BY <2>1, ExecuteMoves DEF TypeOK
  <2> QED
    BY <2>1, <2>2 DEF Others
<1>4. UNCHANGED <<Known, call>> => call' = call
  BY DEF Known
<1> QED
  BY <1>1, <1>2, <1>3, <1>4, StepKinds, ApprovalFrame, ModerateFrame, ManageFrame

LEMMA TypeInit == Init => TypeOK
<1> SUFFICES ASSUME Init PROVE TypeOK
  OBVIOUS
<1>1. saga \in [Requests -> SagaRow]
  BY DEF Init, SagaRow, Statuses
<1>2. dispatch \in [Requests -> [WriteSteps -> {"NONE", "OPEN", "DONE"}]]
  BY DEF Init
<1>3. owned \in [Requests -> Seq(Objects)] /\ compensated \in [Requests -> SUBSET Objects]
  BY DEF Init
<1>4. reservation \in [Reservations -> ReservationRow]
  BY DEF Init, ReservationRow
<1>5. account \in [Requests -> [Objects -> DirectState]] /\ answered = {}
  BY DEF Init, DirectState
<1>6. sent \in [Requests -> [Operations -> Nat]]
  BY DEF Init
<1>7. call \in [Callers -> Call] /\ \A c \in Callers : call[c] = NoCall
  BY NoCallIdle DEF Init
<1>8. approval \in [Requests -> ApprovalRow \cup {NoRow}]
  BY DEF Init
<1> QED
  BY <1>1, <1>2, <1>3, <1>4, <1>5, <1>6, <1>7, <1>8, NoCallIdle DEF TypeOK

LEMMA TypeStep ==
  ASSUME TypeOK, [Next]_vars
  PROVE TypeOK'
<1>1. ASSUME NEW c \in Callers
      PROVE /\ CallOK(call'[c])
            /\ call'[c].pc # "idle" => call'[c].queue \subseteq Range(owned'[call'[c].req])
  <2>1. CASE call'[c] = call[c]
    BY <2>1, ActiveCall, OwnedGrows DEF TypeOK
  <2>2. CASE Steady(c)
    <3>1. CreatedObjects(call[c].req) \subseteq Range(owned[call[c].req])
      BY DEF CreatedObjects
    <3> QED
      BY <2>2, <3>1, ActiveCall, OwnedGrows DEF Steady
  <2>3. CASE \E r \in Requests, plan \in Plans, limited \in BOOLEAN :
                  /\ Execute(c, r, plan, limited) /\ call'[c].pc = "start"
                  /\ call'[c].req = r /\ call'[c].plan = plan /\ call'[c].queue = {}
                  /\ call[c].pc = "idle" /\ c \in session.callers
    BY <2>3, CallMoves, FreeFits DEF CallOK, Free, InStep, Sending
  <2> QED
    BY <2>1, <2>2, <2>3, CallMoves
<1> QED
  BY <1>1, SagaMoves, DispatchMoves, OwnedMoves, CompensatedMoves, ReservationMoves,
     ApprovalMoves, AccountMoves, AnsweredMoves, SentMoves, CallMoves DEF TypeOK

\* Every variable keeps its type, every call carries an operation its point can
\* have, and what it has queued for deletion was recorded by its run.
THEOREM TypeCorrect == Spec => []TypeOK
<1>1. TypeOK /\ [Next]_vars => TypeOK'
  BY TypeStep
<1> QED
  BY TypeInit, <1>1, PTL DEF Spec

-----------------------------------------------------------------------------
(* The points of a call.                                                   *)

Edge(c, from, to) ==
  /\ call[c].pc = from /\ call'[c].pc \in to
  /\ call'[c].pc # "idle" => call'[c].req = call[c].req /\ call'[c].plan = call[c].plan
KeepsOp(c) == call'[c].pc # "idle" => call'[c].op = call[c].op

LEMMA GotoEdge ==
  ASSUME TypeOK, NEW c \in Callers, NEW p \in Points, Goto(c, p)
  PROVE /\ call'[c].pc = p /\ call'[c].req = call[c].req /\ call'[c].plan = call[c].plan
        /\ call'[c].op = call[c].op
BY GotoMoves DEF TypeOK, SameRun, SameOp

LEMMA ReturnEdge ==
  ASSUME TypeOK, NEW c \in Callers, Return(c)
  PROVE call'[c].pc = "idle"
BY ReturnMoves DEF TypeOK

LEMMA Edges ==
  ASSUME TypeOK, NEW c \in Callers
  PROVE
    /\ StartSaga(c) => Edge(c, "start", {"pending"}) /\ KeepsOp(c)
    /\ RefuseStart(c) => Edge(c, "start", {"idle"})
    /\ LoadSaga(c) => Edge(c, "start", {"idle", "pending"}) /\ KeepsOp(c)
    /\ CheckPending(c) => Edge(c, "pending", {"resume", "reconcile"}) /\ KeepsOp(c)
    /\ Resume(c) => Edge(c, "resume", {"settle", "begin"}) /\ KeepsOp(c)
    /\ BeginStep(c) => Edge(c, "begin", {"idle", "claim", "readback"})
    /\ Claim(c) => Edge(c, "claim", {"audit", "cancel"}) /\ KeepsOp(c)
    /\ AuditIntent(c) => Edge(c, "audit", {"recheck", "cancel"}) /\ KeepsOp(c)
    /\ Recheck(c) => Edge(c, "recheck", {"cancel", "rejected", "send"}) /\ KeepsOp(c)
    /\ CancelClaim(c) => Edge(c, "cancel", {"rejected"}) /\ KeepsOp(c)
    /\ Rejected(c) => Edge(c, "rejected", {"idle", "compensate"}) /\ KeepsOp(c)
    /\ RepeatAnswer(c) =>
         Edge(c, "send", {"mark", "consume", "register", "complete"}) /\ KeepsOp(c)
    /\ FailSend(c) => Edge(c, "send", {"rejected", "failed"}) /\ KeepsOp(c)
    /\ Send(c) =>
         Edge(c, "send", {"mark", "consume", "register", "complete", "rejected", "reconcile"}) /\ KeepsOp(c)
    /\ ConsumeAuthority(c) =>
         Edge(c, "consume", {"register", "reconcile", "unknown"}) /\ KeepsOp(c)
    /\ FailConsume(c) => Edge(c, "consume", {"reconcile", "unknown"}) /\ KeepsOp(c)
    /\ RegisterObjects(c) =>
         Edge(c, "register", {"idle", "complete", "failed"}) /\ KeepsOp(c)
    /\ CompleteStep(c) =>
         Edge(c, "complete", {"idle", "resume", "settle", "start", "begin"}) /\ KeepsOp(c)
    /\ Readback(c) => Edge(c, "readback", {"idle", "complete", "failed"}) /\ KeepsOp(c)
    /\ Reconcile(c) =>
         Edge(c, "reconcile", {"resume", "settle", "start", "begin", "consume", "register", "complete", "unknown"})
    /\ FinishUnknown(c) => Edge(c, "unknown", {"idle", "settle"}) /\ KeepsOp(c)
    /\ FailSaga(c) => Edge(c, "failed", {"settle", "compensate"}) /\ KeepsOp(c)
    /\ DeleteNext(c) => Edge(c, "compensate", {"claim", "rejected"})
    /\ MarkCompensated(c) => Edge(c, "mark", {"compensate"}) /\ KeepsOp(c)
    /\ FinishCompensation(c) => Edge(c, "compensate", {"settle"}) /\ KeepsOp(c)
    /\ Settle(c) => Edge(c, "settle", {"idle"})
<1>0. ASSUME NEW a \in {"start", "pending", "settle", "recheck", "cancel", "send", "rejected",
                        "failed", "register", "complete", "compensate", "mark", "consume"}
      PROVE a \in Points
  BY DEF Points
<1>1. /\ call \in [Callers -> Call]
      /\ call[c].pc # "idle" => call[c].req \in Requests /\ Completed(call[c].req) \in 0..8
      /\ call[c].pc = "begin" => call[c].next < 8
      /\ call[c].pc = "send" => call[c].op \in Operations
  BY ActiveCall, SendingCall, SagaFields DEF TypeOK, Completed
<1>2. StartSaga(c) => Edge(c, "start", {"pending"}) /\ KeepsOp(c)
  BY <1>0, <1>1, GotoEdge, ReturnEdge DEF StartSaga, Edge, KeepsOp
<1>3. RefuseStart(c) => Edge(c, "start", {"idle"})
  BY <1>0, <1>1, GotoEdge, ReturnEdge DEF RefuseStart, Edge, KeepsOp
<1>4. LoadSaga(c) => Edge(c, "start", {"idle", "pending"}) /\ KeepsOp(c)
  BY <1>0, <1>1, GotoEdge, ReturnEdge DEF LoadSaga, Edge, KeepsOp
<1>5. CheckPending(c) => Edge(c, "pending", {"resume", "reconcile"}) /\ KeepsOp(c)
  <2>1. CheckPending(c) => call[c].pc = "pending"
    BY DEF CheckPending
  <2> QED
    BY <1>1, <2>1, CheckPendingMoves DEF Edge, KeepsOp, SameRun, SameOp
<1>6. Resume(c) => Edge(c, "resume", {"settle", "begin"}) /\ KeepsOp(c)
  <2>1. Resume(c) => call[c].pc = "resume"
    BY DEF Resume
  <2> QED
    BY <1>1, <2>1, ResumeMoves DEF Edge, KeepsOp, SameRun, SameOp
<1>7. BeginStep(c) => Edge(c, "begin", {"idle", "claim", "readback"})
  <2>1. BeginStep(c) => call[c].pc = "begin"
    BY DEF BeginStep
  <2> QED
    BY <1>1, <2>1, BeginMoves, NoCallIdle DEF Edge, KeepsOp, SameRun, SameOp
<1>8. Claim(c) => Edge(c, "claim", {"audit", "cancel"}) /\ KeepsOp(c)
  <2>1. Claim(c) => call[c].pc = "claim"
    BY DEF Claim
  <2> QED
    BY <1>1, <2>1, ClaimMoves DEF Edge, KeepsOp, SameRun, SameOp
<1>9. AuditIntent(c) => Edge(c, "audit", {"recheck", "cancel"}) /\ KeepsOp(c)
  BY <1>0, <1>1, GotoEdge, ReturnEdge DEF AuditIntent, Edge, KeepsOp
<1>10. Recheck(c) => Edge(c, "recheck", {"cancel", "rejected", "send"}) /\ KeepsOp(c)
  BY <1>0, <1>1, GotoEdge, ReturnEdge DEF Recheck, Edge, KeepsOp
<1>11. CancelClaim(c) => Edge(c, "cancel", {"rejected"}) /\ KeepsOp(c)
  BY <1>0, <1>1, GotoEdge, ReturnEdge DEF CancelClaim, Edge, KeepsOp
<1>12. Rejected(c) => Edge(c, "rejected", {"idle", "compensate"}) /\ KeepsOp(c)
  <2>1. Rejected(c) => call[c].pc = "rejected"
    BY DEF Rejected
  <2>2. Rejected(c) => \/ call'[c] = NoCall
                       \/ SameRun(c) /\ SameOp(c) /\ call'[c].pc = "compensate"
    BY <1>1, RejectedMoves
  <2> QED
    BY <1>1, <2>1, <2>2, NoCallIdle DEF Edge, KeepsOp, SameRun, SameOp
<1>13. RepeatAnswer(c) =>
      Edge(c, "send", {"mark", "consume", "register", "complete"}) /\ KeepsOp(c)
  BY <1>0, <1>1, GotoEdge, ReturnEdge DEF RepeatAnswer, Edge, KeepsOp, AfterSend
<1>14. FailSend(c) => Edge(c, "send", {"rejected", "failed"}) /\ KeepsOp(c)
  BY <1>0, <1>1, GotoEdge, ReturnEdge DEF FailSend, Edge, KeepsOp
<1>15. Send(c) =>
      Edge(c, "send", {"mark", "consume", "register", "complete", "rejected", "reconcile"}) /\ KeepsOp(c)
  <2>1. Send(c) => call[c].pc = "send"
    BY DEF Send
  <2> QED
    BY <1>1, <2>1, SendMoves DEF Edge, KeepsOp, SameRun, SameOp, AfterSend
<1>16. ConsumeAuthority(c) =>
      Edge(c, "consume", {"register", "reconcile", "unknown"}) /\ KeepsOp(c)
  BY <1>0, <1>1, GotoEdge, ReturnEdge, ConsumeFailureMoves DEF ConsumeAuthority, Edge, KeepsOp,
     SameRun, SameOp
<1>17. FailConsume(c) => Edge(c, "consume", {"reconcile", "unknown"}) /\ KeepsOp(c)
  BY <1>0, <1>1, GotoEdge, ReturnEdge, ConsumeFailureMoves DEF FailConsume, Edge, KeepsOp,
     SameRun, SameOp
<1>18. RegisterObjects(c) =>
      Edge(c, "register", {"idle", "complete", "failed"}) /\ KeepsOp(c)
  BY <1>0, <1>1, GotoEdge, ReturnEdge DEF RegisterObjects, Edge, KeepsOp
<1>19. CompleteStep(c) =>
      Edge(c, "complete", {"idle", "resume", "settle", "start", "begin"}) /\ KeepsOp(c)
  <2>1. CompleteStep(c) =>
          /\ call[c].pc = "complete" /\ (Return(c) \/ call' = AfterStep(c))
          /\ call[c].reconciling = "no" => call[c].next < 8
    BY CompleteKinds, ActiveCall DEF CompleteStep, InStep
  <2> QED
    BY <1>1, <2>1, ReturnEdge, AfterStepMoves DEF Edge, KeepsOp, SameRun, SameOp
<1>20. Readback(c) => Edge(c, "readback", {"idle", "complete", "failed"}) /\ KeepsOp(c)
  BY <1>0, <1>1, GotoEdge, ReturnEdge DEF Readback, Edge, KeepsOp
<1>21. Reconcile(c) =>
      Edge(c, "reconcile", {"resume", "settle", "start", "begin", "consume", "register", "complete", "unknown"})
  <2>1. Reconcile(c) /\ OpenSteps(call[c].req) = {} =>
          /\ call[c].pc = "reconcile" /\ call' = AfterStep(c)
          /\ call[c].reconciling # "no"
    BY ActiveCall DEF Reconcile
  <2>2. Reconcile(c) /\ OpenSteps(call[c].req) # {} =>
          /\ SameRun(c) /\ call[c].pc = "reconcile"
          /\ call'[c].pc \in {"consume", "register", "complete", "unknown"}
    BY <1>1, ReconcileMoves DEF Reconcile
  <2> QED
    BY <1>1, <2>1, <2>2, AfterStepMoves DEF Edge, SameRun
<1>22. FinishUnknown(c) => Edge(c, "unknown", {"idle", "settle"}) /\ KeepsOp(c)
  BY <1>0, <1>1, GotoEdge, ReturnEdge DEF FinishUnknown, Edge, KeepsOp
<1>23. FailSaga(c) => Edge(c, "failed", {"settle", "compensate"}) /\ KeepsOp(c)
  <2>1. CreatedObjects(call[c].req) \in SUBSET Objects \/ ~FailSaga(c)
    <3>1. FailSaga(c) => owned[call[c].req] \in Seq(Objects)
      BY ActiveCall DEF FailSaga, TypeOK
    <3> QED
      BY <3>1 DEF CreatedObjects, Range
  <2>2. FailSaga(c) => call[c].pc = "failed"
    BY DEF FailSaga
  <2> QED
    BY <1>1, <2>1, <2>2, FailSagaMoves DEF Edge, KeepsOp, SameRun, SameOp
<1>24. DeleteNext(c) => Edge(c, "compensate", {"claim", "rejected"})
  <2>1. DeleteNext(c) => /\ call[c].pc = "compensate"
                         /\ owned[call[c].req] \in Seq(Objects)
                         /\ call[c].queue \subseteq Range(owned[call[c].req])
    BY ActiveCall DEF DeleteNext, TypeOK
  <2> QED
    BY <1>1, <2>1, DeleteMoves DEF Edge, SameRun
<1>25. MarkCompensated(c) => Edge(c, "mark", {"compensate"}) /\ KeepsOp(c)
  BY <1>0, <1>1, GotoEdge, ReturnEdge DEF MarkCompensated, Edge, KeepsOp
<1>26. FinishCompensation(c) => Edge(c, "compensate", {"settle"}) /\ KeepsOp(c)
  BY <1>0, <1>1, GotoEdge, ReturnEdge DEF FinishCompensation, Edge, KeepsOp
<1>27. Settle(c) => Edge(c, "settle", {"idle"})
  BY <1>0, <1>1, GotoEdge, ReturnEdge DEF Settle, Edge, KeepsOp
<1> QED
  BY <1>2, <1>3, <1>4, <1>5, <1>6, <1>7, <1>8, <1>9, <1>10, <1>11, <1>12, <1>13, <1>14, <1>15,
     <1>16, <1>17, <1>18, <1>19, <1>20, <1>21, <1>22, <1>23, <1>24, <1>25, <1>26, <1>27

-----------------------------------------------------------------------------
(* No operation is sent twice.                                             *)

LEMMA Journals ==
  ASSUME TypeOK, NEW c \in Callers, AuditIntent(c)
  PROVE /\ Others(c) /\ audited' = audited \cup {Key(c)}
        /\ call'[c].pc = "recheck" => Key(c) \notin audited
<1>1. /\ Goto(c, IF AlreadyAudited(c) THEN "cancel" ELSE "recheck")
      /\ audited' = audited \cup {Key(c)}
  BY DEF AuditIntent, AuditKey, Key
<1>2. AlreadyAudited(c) => Goto(c, "cancel")
  BY <1>1
<1>3. "cancel" \in Points
  BY DEF Points
<1> QED
  BY <1>1, <1>2, <1>3, GotoEdge, CallSteady DEF AlreadyAudited, AuditKey, Key, Steady, CallStep

\* A call that stays at the adapter keeps its operation, and one gets there by
\* writing the journal of an operation that has none.
LEMMA AdapterMoves ==
  ASSUME TypeOK, [Next]_vars, NEW c \in Callers, AtAdapter(c)'
  PROVE /\ Key(c)' = Key(c)
        /\ call'[c].req \in Requests /\ call'[c].op \in Operations
        /\ \/ AtAdapter(c) /\ ~RepeatAnswer(c) /\ ~FailSend(c) /\ ~Send(c)
           \/ AuditIntent(c) /\ Key(c) \notin audited
<1>1. call'[c].pc \in {"recheck", "send"}
  BY DEF AtAdapter
<1>2. call'[c].req \in Requests /\ call'[c].op \in Operations
  <2>1. TypeOK'
    BY TypeStep
  <2>2. CallOK(call'[c])
    BY <2>1 DEF TypeOK
  <2> QED
    BY <1>1, <2>2 DEF CallOK, Fits, Sending
<1>3. CASE call'[c] = call[c]
  BY <1>1, <1>2, <1>3, Edges DEF AtAdapter, Key, Edge
<1>4. CASE CallStep(c)
  <2>1. Recheck(c) \/ AuditIntent(c)
    BY <1>1, <1>4, Edges DEF CallStep, Edge
  <2>2. Key(c)' = Key(c)
    BY <1>1, <2>1, Edges DEF Edge, KeepsOp, Key
  <2>3. CASE Recheck(c)
    <3>1. call[c].pc = "recheck"
      BY <2>3 DEF Recheck
    <3> QED
      BY <1>2, <2>2, <3>1 DEF AtAdapter, RepeatAnswer, FailSend, Send
  <2>4. CASE AuditIntent(c)
    BY <1>1, <1>2, <2>2, <2>4, Edges, Journals DEF Edge
  <2> QED
    BY <2>1, <2>3, <2>4
<1>5. CASE Crash(c)
  BY <1>1, <1>5, ReturnEdge DEF Crash
<1> QED
  BY <1>1, <1>3, <1>4, <1>5, CallMoves

LEMMA SendStep ==
  ASSUME TypeOK, SendInv, [Next]_vars
  PROVE SendInv'
<1>1. Journalled'
  <2> SUFFICES ASSUME NEW r \in Requests, NEW op \in Operations, sent'[r][op] > 0
               PROVE <<r, op>> \in audited'
    BY DEF Journalled
  <2>1. CASE sent'[r][op] = sent[r][op]
    BY <2>1, AuditedGrows DEF SendInv, Journalled
  <2>2. CASE \E c \in Callers :
               call[c].pc = "send" /\ call[c].req = r /\ call[c].op = op
    BY <2>2, AuditedGrows DEF SendInv, Unsent, AtAdapter, Key
  <2> QED
    BY <2>1, <2>2, SentMoves
<1>2. Unsent'
  <2> SUFFICES ASSUME NEW c \in Callers, AtAdapter(c)'
               PROVE Key(c)' \in audited' /\ sent'[call'[c].req][call'[c].op] = 0
    BY DEF Unsent
  <2> DEFINE r == call[c].req
             op == call[c].op
  <2>1. Key(c)' = Key(c) /\ r \in Requests /\ op \in Operations
        /\ call'[c].req = r /\ call'[c].op = op
    BY AdapterMoves DEF Key
  <2>2. CASE AtAdapter(c) /\ ~RepeatAnswer(c) /\ ~FailSend(c) /\ ~Send(c)
    <3>1. Key(c) \in audited /\ sent[r][op] = 0
      BY <2>2 DEF SendInv, Unsent
    <3>2. ASSUME NEW d \in Callers, call[d].pc = "send", call[d].req = r, call[d].op = op,
                 d # c
          PROVE FALSE
      BY <2>2, <3>2 DEF SendInv, OneKeyEach, AtAdapter, Key
    <3>3. sent'[r][op] = sent[r][op]
      BY <2>1, <2>2, <3>2, SentMoves
    <3> QED
      BY <2>1, <3>1, <3>3, AuditedGrows
  <2>3. CASE AuditIntent(c) /\ Key(c) \notin audited
    <3>1. sent' = sent /\ audited' = audited \cup {Key(c)}
      BY <2>3, StepFrame, Journals
    <3>2. ~(sent[r][op] > 0)
      BY <2>1, <2>3 DEF SendInv, Journalled, Key
    <3>3. sent[r][op] \in Nat
      BY <2>1 DEF TypeOK
    <3> QED
      BY <2>1, <3>1, <3>2, <3>3
  <2> QED
    BY <2>2, <2>3, AdapterMoves
<1>3. OneKeyEach'
  <2> SUFFICES ASSUME NEW c \in Callers, NEW d \in Callers, AtAdapter(c)', AtAdapter(d)', c # d
               PROVE Key(c)' # Key(d)'
    BY DEF OneKeyEach
  <2>1. Key(c)' = Key(c) /\ Key(d)' = Key(d)
    BY AdapterMoves
  <2>2. ASSUME NEW x \in Callers, NEW y \in Callers, x # y, AuditIntent(x), AtAdapter(y)',
               Key(x) \notin audited
        PROVE Key(x) # Key(y)
    <3>1. call'[y] = call[y]
      BY <2>2, Journals DEF Others
    <3>2. AtAdapter(y)
      BY <2>2, <3>1 DEF AtAdapter
    <3> QED
      BY <2>2, <3>2 DEF SendInv, Unsent
  <2>3. AtAdapter(c) /\ AtAdapter(d) => Key(c) # Key(d)
    BY DEF SendInv, OneKeyEach
  <2> QED
    BY <2>1, <2>2, <2>3, AdapterMoves
<1>4. AnswersSent'
  <2> SUFFICES ASSUME NEW r \in Requests, NEW op \in Operations, <<r, op>> \in answered'
               PROVE sent'[r][op] > 0
    BY DEF AnswersSent
  <2>0. sent'[r][op] \in {sent[r][op], sent[r][op] + 1}
    BY SentMoves
  <2>1. sent[r][op] \in Nat /\ sent'[r][op] \in {sent[r][op], sent[r][op] + 1}
    BY <2>0 DEF TypeOK
  <2>2. CASE <<r, op>> \in answered
    BY <2>1, <2>2 DEF SendInv, AnswersSent
  <2>3. CASE <<r, op>> \notin answered
    BY <2>1, <2>3, AnsweredMoves
  <2> QED
    BY <2>2, <2>3
<1> QED
  BY <1>1, <1>2, <1>3, <1>4 DEF SendInv

LEMMA SendInit == Init => SendInv
<1> SUFFICES ASSUME Init PROVE SendInv
  OBVIOUS
<1>1. /\ \A r \in Requests, op \in Operations : sent[r][op] = 0
      /\ answered = {} /\ \A c \in Callers : call[c].pc = "idle"
  BY NoCallIdle DEF Init
<1> QED
  BY <1>1 DEF SendInv, Journalled, Unsent, OneKeyEach, AnswersSent, AtAdapter

LEMMA SendInvariant == Spec => [](TypeOK /\ SendInv)
<1>1. TypeOK /\ SendInv /\ [Next]_vars => TypeOK' /\ SendInv'
  BY TypeStep, SendStep
<1> QED
  BY TypeInit, SendInit, <1>1, PTL DEF Spec

LEMMA SentOnceStep ==
  ASSUME TypeOK, SendInv, SentOnce, [Next]_vars
  PROVE SentOnce'
<1> SUFFICES ASSUME NEW r \in Requests, NEW op \in Operations PROVE sent'[r][op] <= 1
  BY DEF SentOnce
<1>1. sent[r][op] <= 1 /\ sent[r][op] \in Nat
  BY DEF SentOnce, TypeOK
<1>2. CASE sent'[r][op] = sent[r][op]
  BY <1>1, <1>2
<1>3. CASE \E c \in Callers :
             /\ call[c].pc = "send" /\ call[c].req = r /\ call[c].op = op
             /\ sent'[r][op] = sent[r][op] + 1
  BY <1>1, <1>3 DEF SendInv, Unsent, AtAdapter
<1> QED
  BY <1>2, <1>3, SentMoves

\* Calls that overlap, crash, repeat and reconcile never make the adapter carry
\* out one operation of a saga twice: whoever is about to send holds the only
\* journal entry of its operation key, and what was sent has one.
THEOREM SentOnceHolds == Spec => []SentOnce
<1>1. Init => SentOnce
  BY DEF Init, SentOnce
<1>2. TypeOK /\ SendInv /\ SentOnce /\ [Next]_vars => SentOnce'
  BY SentOnceStep
<1> QED
  BY <1>1, <1>2, SendInvariant, PTL DEF Spec

-----------------------------------------------------------------------------
(* The authority of the first write.                                       *)

LEMMA StaysStarted ==
  ASSUME TypeOK, [Next]_vars, NEW r \in Requests, saga[r].status # "NONE"
  PROVE saga'[r].status # "NONE" /\ saga'[r].plan = saga[r].plan
BY SagaMoves DEF Terminal

UsedUpNext(r) == /\ approval'[r] \in ApprovalRow
                 /\ approval'[r].status = "USED"
                 /\ reservation'[ReservationOf[r]] = [status |-> "USED", holder |-> r]

LEMMA StaysUsed ==
  ASSUME TypeOK, [Next]_vars, NEW r \in Requests, UsedUp(r)
  PROVE UsedUpNext(r)
<1>1. approval'[r] \in ApprovalRow /\ approval'[r].status = "USED"
  BY ApprovalMoves DEF UsedUp
<1>2. ReservationOf[r] \in Reservations
  BY RequestAssumption
<1>3. reservation[ReservationOf[r]] = [status |-> "USED", holder |-> r]
  BY DEF UsedUp
<1>4. /\ reservation[ReservationOf[r]].status # "AVAILABLE"
      /\ \A c \in Callers : reservation[ReservationOf[r]] #
           [status |-> "RESERVED", holder |-> call[c].req]
  <2>1. reservation[ReservationOf[r]].status = "USED"
    BY <1>3
  <2>2. \A c \in Callers : [status |-> "RESERVED", holder |-> call[c].req].status = "RESERVED"
    OBVIOUS
  <2> QED
    BY <2>1, <2>2
<1>5. reservation'[ReservationOf[r]] = reservation[ReservationOf[r]]
  BY <1>2, <1>4, ReservationMoves
<1> QED
  BY <1>1, <1>3, <1>5 DEF UsedUpNext

LEMMA ConsumeUses ==
  ASSUME TypeOK, NEW c \in Callers, ConsumeAuthority(c), call'[c].pc = "register"
  PROVE UsedUpNext(call[c].req)
<1> DEFINE r == call[c].req
<1>1. r \in Requests /\ ReservationOf[r] \in Reservations /\ call \in [Callers -> Call]
  BY ActiveCall, RequestAssumption DEF ConsumeAuthority, TypeOK
<1>2. Consumable(r)
  BY <1>1, ConsumeFailureMoves DEF ConsumeAuthority
<1>3. /\ reservation' = [reservation EXCEPT ![ReservationOf[r]].status = "USED"]
      /\ approval' = [approval EXCEPT ![r].status = "USED"]
      /\ reservation[ReservationOf[r]] = [status |-> "RESERVED", holder |-> r]
      /\ approval[r] \in ApprovalRow
  BY <1>1, <1>2 DEF ConsumeAuthority, Consumable, TypeOK
<1>4. reservation'[ReservationOf[r]] = [status |-> "USED", holder |-> r]
  BY <1>1, <1>3 DEF TypeOK
<1>5. approval'[r] \in ApprovalRow /\ approval'[r].status = "USED"
  BY <1>1, <1>3 DEF TypeOK, ApprovalRow
<1> QED
  BY <1>4, <1>5 DEF UsedUpNext

LEMMA BeginOn ==
  ASSUME TypeOK, NEW c \in Callers, BeginStep(c), call'[c].pc # "idle"
  PROVE /\ call'[c].op = StepOf(c) /\ StepOf(c) \in StepNames
        /\ call'[c].req = call[c].req
        /\ Completed(call[c].req) = call[c].next /\ call[c].next < 8
        /\ OpenSteps(call[c].req) = {} /\ ReadyFor(call[c].req, StepOf(c))
        /\ call'[c].pc = IF StepOf(c) \in WriteSteps THEN "claim" ELSE "readback"
<1>1. call[c].next < 8 /\ call \in [Callers -> Call]
  BY ActiveCall DEF BeginStep, TypeOK
<1>2. call'[c] # NoCall
  BY NoCallIdle
<1> QED
  BY <1>1, <1>2, BeginMoves DEF SameRun

LEMMA DeleteOn ==
  ASSUME TypeOK, NEW c \in Callers, DeleteNext(c)
  PROVE /\ call'[c].req = call[c].req /\ call[c].req \in Requests
        /\ call'[c].op \in call[c].queue /\ call'[c].op \in Objects
        /\ call'[c].queue = call[c].queue \ {call'[c].op}
        /\ call'[c].missed = call[c].missed
        /\ \/ call'[c].pc = "claim" /\ Belongs(call[c].req, call'[c].op)
              /\ Permitted(account[call[c].req], call'[c].op, "delete")
           \/ call'[c].pc = "rejected"
<1>1. /\ call[c].req \in Requests /\ owned[call[c].req] \in Seq(Objects)
      /\ call[c].queue \subseteq Range(owned[call[c].req]) /\ call \in [Callers -> Call]
  BY ActiveCall DEF DeleteNext, TypeOK
<1> QED
  BY <1>1, DeleteMoves DEF SameRun

\* A reconciliation that finds an open dispatch takes up its step where the call
\* that sent it would have gone on.
LEMMA ReconcileOn ==
  ASSUME TypeOK, NEW c \in Callers, Reconcile(c),
         call'[c].pc \in {"consume", "register", "complete", "unknown"}
  PROVE /\ call[c].req \in Requests /\ call'[c].req = call[c].req
        /\ call'[c].op \in WriteSteps /\ dispatch[call[c].req][call'[c].op] = "OPEN"
        /\ call'[c].pc = Outcome(call[c].req, call'[c].op)
<1>1. /\ call[c].req \in Requests /\ call \in [Callers -> Call]
      /\ call[c].reconciling # "no"
  BY ActiveCall DEF Reconcile, TypeOK
<1>2. OpenSteps(call[c].req) # {}
  <2>1. OpenSteps(call[c].req) = {} => call' = AfterStep(c)
    BY DEF Reconcile
  <2> QED
    BY <1>1, <2>1, AfterStepMoves
<1> QED
  BY <1>1, <1>2, ReconcileMoves DEF SameRun

LEMMA StartAuthority ==
  ASSUME TypeOK, [Next]_vars, NEW c \in Callers, StartSaga(c)
  PROVE LET r == call[c].req
        IN approval'[r] \in ApprovalRow /\ approval'[r].signed.binding = <<r, call[c].plan>>
<1> DEFINE r == call[c].req
<1>1. r \in Requests /\ approval[r] \in ApprovalRow
      /\ approval[r].signed.binding = <<r, call[c].plan>>
  BY ActiveCall DEF StartSaga, ApprovalHolds, ProofHolds, TypeOK
<1> QED
  BY <1>1, ApprovalMoves, SMTT(30)

LEMMA AuthorityStep ==
  ASSUME TypeOK, AuthorityInv, [Next]_vars
  PROVE AuthorityInv'
<1>1. Started'
  <2> SUFFICES ASSUME NEW c \in Callers, call'[c].pc \notin {"idle", "start"}
               PROVE saga'[call'[c].req].status # "NONE"
    BY DEF Started
  <2>1. CASE call[c].pc \notin {"idle", "start"} /\ call'[c].req = call[c].req
    BY <2>1, ActiveCall, StaysStarted DEF AuthorityInv, Started
  <2>2. CASE StartSaga(c) \/ LoadSaga(c)
    <3>1. call'[c].req = call[c].req /\ call[c].req \in Requests
      BY <2>2, Edges, ActiveCall DEF Edge, StartSaga, LoadSaga
    <3>2. CASE StartSaga(c)
      BY <3>1, <3>2, StartMoves
    <3>3. CASE LoadSaga(c)
      BY <3>1, <3>3, StaysStarted DEF LoadSaga
    <3> QED
      BY <2>2, <3>2, <3>3, SMTT(30)
  <2>3. CASE CallStep(c)
    BY <2>1, <2>2, <2>3, Edges DEF CallStep, Edge
  <2> QED
    BY <2>1, <2>3, CallMoves, ReturnEdge DEF Crash
<1>2. SignedPlan'
  <2> SUFFICES ASSUME NEW r \in Requests, saga'[r].status # "NONE"
               PROVE /\ approval'[r] \in ApprovalRow
                     /\ approval'[r].signed.binding = <<r, saga'[r].plan>>
    BY DEF SignedPlan
  <2>1. CASE saga[r].status # "NONE"
    BY <2>1, StaysStarted, ApprovalMoves DEF AuthorityInv, SignedPlan
  <2>2. CASE saga[r].status = "NONE"
    <3>1. ~\E c \in Callers : Finishes(c) /\ call[c].req = r
      BY <2>2 DEF AuthorityInv, Started, Finishes, FinishUnknown, FailSaga,
                  FinishCompensation, Settle
    <3>2. \E c \in Callers : /\ StartSaga(c) /\ call[c].req = r
                             /\ saga'[r].plan = call[c].plan
      BY <2>2, <3>1, SagaMoves
    <3> QED
      BY <3>2, StartAuthority, SMTT(30)
  <2> QED
    BY <2>1, <2>2
<1>3. SentStarted'
  <2> SUFFICES ASSUME NEW r \in Requests, NEW op \in Operations, sent'[r][op] > 0
               PROVE saga'[r].status # "NONE"
    BY DEF SentStarted
  <2>1. sent[r][op] > 0 \/ \E c \in Callers : call[c].pc = "send" /\ call[c].req = r
    BY SentMoves
  <2> QED
    BY <2>1, StaysStarted DEF AuthorityInv, SentStarted, Started
<1>4. BuiltOnAuthority'
  <2> SUFFICES ASSUME NEW r \in Requests,
                      "campaign" \in Range(owned'[r]) \/ sent'[r]["AD_GROUP_ADD"] > 0
               PROVE UsedUpNext(r)
    BY DEF BuiltOnAuthority, UsedUp, UsedUpNext
  <2>1. CASE UsedUp(r)
    BY <2>1, StaysUsed
  <2>2. CASE "campaign" \in Range(owned'[r])
    <3>1. \/ "campaign" \in Range(owned[r])
          \/ \E c \in Callers : /\ RegisterObjects(c) /\ call[c].req = r
                                /\ call[c].op \in AddSteps
                                /\ "campaign" \in Range(ObjectsOf[call[c].op])
      BY <2>2, OwnedMoves
    <3>2. \A c \in Callers : RegisterObjects(c) => call[c].pc = "register"
      BY DEF RegisterObjects
    <3> QED
      BY <2>1, <3>1, <3>2, StepObjects, NamesOfSteps
         DEF AuthorityInv, BuiltOnAuthority, CarriesAuthority
  <2>3. CASE sent'[r]["AD_GROUP_ADD"] > 0
    <3>1. "AD_GROUP_ADD" \in Operations
      BY NamesOfSteps DEF Operations
    <3>2. \/ sent[r]["AD_GROUP_ADD"] > 0
          \/ \E c \in Callers :
               call[c].pc = "send" /\ call[c].req = r /\ call[c].op = "AD_GROUP_ADD"
      BY <2>3, <3>1, SentMoves
    <3> QED
      BY <2>1, <3>2 DEF AuthorityInv, BuiltOnAuthority, CarriesAuthority, Sending
  <2> QED
    BY <2>2, <2>3
<1>5. CarriesAuthority'
  <2> SUFFICES ASSUME NEW c \in Callers,
                      \/ call'[c].pc = "register" /\ call'[c].op = "CAMPAIGN_ADD"
                      \/ call'[c].pc \in Sending /\ call'[c].op = "AD_GROUP_ADD"
               PROVE UsedUpNext(call'[c].req)
    BY DEF CarriesAuthority, UsedUp, UsedUpNext
  <2>1. CASE UsedUp(call[c].req) /\ call[c].pc # "idle" /\ call'[c].req = call[c].req
    BY <2>1, StaysUsed, ActiveCall
  <2>2. CASE call'[c] = call[c]
    BY <2>1, <2>2 DEF AuthorityInv, CarriesAuthority, Sending
  <2>3. CASE CallStep(c)
    <3>1. call'[c].pc # "idle"
      BY DEF Sending
    <3>2. CASE call'[c].pc = "register" /\ call'[c].op = "CAMPAIGN_ADD"
      <4>1. \/ RepeatAnswer(c) /\ AfterSend(call[c].op) = "register" /\ call[c].op = call'[c].op
            \/ Send(c) /\ AfterSend(call[c].op) = "register" /\ call[c].op = call'[c].op
            \/ ConsumeAuthority(c) \/ Reconcile(c)
        <5>1. RepeatAnswer(c) \/ Send(c) \/ ConsumeAuthority(c) \/ Reconcile(c)
          BY <2>3, <3>2, Edges, SMTT(30) DEF CallStep, Edge
        <5>2. Send(c) => call[c].op = call'[c].op /\ call[c].op \in Operations
                         /\ call \in [Callers -> Call]
          BY <3>1, Edges, SendingCall DEF KeepsOp, Send, TypeOK
        <5>3. Send(c) => AfterSend(call[c].op) = "register"
          BY <3>2, <5>2, SendMoves
        <5>4. RepeatAnswer(c) => AfterSend(call[c].op) = "register" /\ call[c].op = call'[c].op
          <6>1. AfterSend(call[c].op) \in Points
            BY DEF AfterSend, Points
          <6> QED
            BY <3>2, <6>1, GotoEdge DEF RepeatAnswer
        <5> QED
          BY <5>1, <5>2, <5>3, <5>4
      <4>2. AfterSend("CAMPAIGN_ADD") = "consume"
        BY DEF AfterSend, Objects
      <4>3. Outcome(call[c].req, "CAMPAIGN_ADD") # "register"
        BY <4>2 DEF Outcome
      <4>4. CASE ConsumeAuthority(c)
        BY <3>2, <4>4, ConsumeUses, Edges DEF Edge
      <4>5. CASE Reconcile(c)
        BY <3>2, <4>3, <4>5, ReconcileOn
      <4> QED
        BY <3>2, <4>1, <4>2, <4>4, <4>5
    <3>3. CASE call'[c].pc \in Sending /\ call'[c].op = "AD_GROUP_ADD"
      <4>1. \/ BeginStep(c) \/ DeleteNext(c)
            \/ /\ Claim(c) \/ AuditIntent(c) \/ Recheck(c)
               /\ call[c].op = call'[c].op /\ call[c].pc \in Sending
               /\ call'[c].req = call[c].req
        BY <2>3, <3>1, <3>3, Edges DEF CallStep, Edge, KeepsOp, Sending
      <4>2. CASE BeginStep(c)
        <5>1. /\ call'[c].op = StepOf(c) /\ ReadyFor(call[c].req, StepOf(c))
              /\ call'[c].req = call[c].req
          BY <3>1, <4>2, BeginOn
        <5>2. "campaign" \in Range(owned[call[c].req])
          BY <3>3, <5>1 DEF ReadyFor, BuildsOn, Belongs, CreatedObjects
        <5>3. call[c].req \in Requests /\ call[c].pc # "idle"
          BY <4>2, ActiveCall DEF BeginStep
        <5> QED
          BY <2>1, <5>1, <5>2, <5>3 DEF AuthorityInv, BuiltOnAuthority
      <4>3. CASE DeleteNext(c)
        BY <3>3, <4>3, DeleteOn DEF Objects
      <4>4. CASE call[c].pc \in Sending /\ call[c].op = "AD_GROUP_ADD" /\ call'[c].req = call[c].req
        BY <2>1, <4>4 DEF AuthorityInv, CarriesAuthority, Sending
      <4> QED
        BY <3>3, <4>1, <4>2, <4>3, <4>4
    <3> QED
      BY <3>2, <3>3
  <2> QED
    BY <2>2, <2>3, CallMoves, ReturnEdge DEF Crash, Sending
<1> QED
  BY <1>1, <1>2, <1>3, <1>4, <1>5 DEF AuthorityInv

LEMMA AuthorityInit == Init => AuthorityInv
<1> SUFFICES ASSUME Init PROVE AuthorityInv
  OBVIOUS
<1>1. /\ \A r \in Requests : saga[r].status = "NONE" /\ owned[r] = <<>>
      /\ \A r \in Requests, op \in Operations : sent[r][op] = 0
      /\ \A c \in Callers : call[c].pc = "idle"
  BY NoCallIdle DEF Init
<1>2. \A r \in Requests : Range(owned[r]) = {} /\ sent[r]["AD_GROUP_ADD"] = 0
  BY <1>1, NamesOfSteps DEF Range, Operations
<1> QED
  BY <1>1, <1>2 DEF AuthorityInv, Started, SignedPlan, SentStarted, BuiltOnAuthority,
                    CarriesAuthority, Sending

LEMMA AuthorityInvariant == Spec => [](TypeOK /\ AuthorityInv)
<1>1. TypeOK /\ AuthorityInv /\ [Next]_vars => TypeOK' /\ AuthorityInv'
  BY TypeStep, AuthorityStep
<1> QED
  BY TypeInit, AuthorityInit, <1>1, PTL DEF Spec

\* However calls overlap, crash and reconcile, and whatever happens to the stored
\* rows: a campaign is created only under the plan the approver signed for its
\* run, and nothing is built on it before its approval and its reservation, held
\* by this run, are used up.
THEOREM WritesFollowApprovalHolds == Spec => []WritesFollowApproval
<1>1. AuthorityInv => WritesFollowApproval
  <2>1. "CAMPAIGN_ADD" \in Operations
    BY NamesOfSteps DEF Operations
  <2> QED
    BY <2>1 DEF AuthorityInv, SentStarted, SignedPlan, BuiltOnAuthority, UsedUp,
                WritesFollowApproval
<1> QED
  BY <1>1, AuthorityInvariant, PTL

-----------------------------------------------------------------------------
(* One call at a time: what the conjuncts of SagaInv need of each other.   *)

Sound == TypeOK /\ SendInv /\ AuthorityInv /\ OneCaller /\ SagaInv

LEMMA Alone ==
  ASSUME Sound, NEW c \in Callers, NEW d \in Callers,
         call[c].pc # "idle", call[d].pc # "idle"
  PROVE c = d
BY DEF Sound, SagaInv, Called, OneCaller

LEMMA NoRepeat ==
  ASSUME Sound, NEW c \in Callers
  PROVE ~RepeatAnswer(c)
<1> SUFFICES ASSUME RepeatAnswer(c) PROVE FALSE
  OBVIOUS
<1>1. call[c].pc = "send" /\ <<call[c].req, call[c].op>> \in answered
  BY DEF RepeatAnswer
<1>2. call[c].req \in Requests /\ call[c].op \in Operations
  BY <1>1, SendingCall DEF Sound
<1> QED
  BY <1>1, <1>2 DEF Sound, SendInv, AnswersSent, Unsent, AtAdapter

LEMMA StepIndex == \A w \in StepNames : \E i \in 1..8 : Steps[i] = w
BY DEF StepNames

LEMMA NextIs ==
  ASSUME TypeOK, NEW r \in Requests, saga[r].completed < 8
  PROVE /\ saga[r].completed \in 0..7 /\ saga[r].completed + 1 \in 1..8
        /\ NextStep(r) = Steps[saga[r].completed + 1] /\ NextStep(r) \in StepNames
        /\ \A i \in 1..8 : Steps[i] = NextStep(r) => i = saga[r].completed + 1
<1>1. saga[r].completed \in 0..7
  BY SagaFields DEF TypeOK
<1>2. saga[r].completed + 1 \in 1..8
  BY <1>1
<1> QED
  BY <1>1, <1>2, StepNumbers DEF NextStep, Completed

\* A call in the middle of a saga.
LEMMA MidCall ==
  ASSUME Sound, NEW c \in Callers, call[c].pc \notin {"idle", "start", "settle"}
  PROVE InFlight(call[c].req) /\ call[c].req \in Requests /\ InOrder(call[c])
        /\ Fits(call[c].pc, call[c].op)
BY ActiveCall DEF Sound, SagaInv, Flying, StepsKnown

LEMMA SendKnown ==
  ASSUME Sound, NEW c \in Callers, call[c].pc = "send"
  PROVE LET r == call[c].req
            op == call[c].op
        IN /\ InFlight(r) /\ r \in Requests /\ op \in Operations /\ sent[r][op] = 0
           /\ op \in WriteSteps =>
                /\ saga[r].completed < 8 /\ NextStep(r) = op /\ ~Undone(r)
                /\ dispatch[r][op] = "OPEN"
           /\ op \in Objects => Compensating(c) /\ Stuck(r)
<1>1. /\ InFlight(call[c].req) /\ call[c].req \in Requests /\ InOrder(call[c])
      /\ call[c].op \in Operations
  BY MidCall DEF Fits, Sending
<1>2. sent[call[c].req][call[c].op] = 0
  BY DEF Sound, SendInv, Unsent, AtAdapter
<1>3. call[c].op \in Objects => Compensating(c)
  BY DEF Compensating, Sending
<1> QED
  BY <1>1, <1>2, <1>3 DEF InOrder, Sending, Sound, SagaInv, StuckOnceUndone

LEMMA SendEffect ==
  ASSUME TypeOK, NEW c \in Callers, Send(c)
  PROVE LET r == call[c].req
            op == call[c].op
        IN /\ op \in AddSteps => \A o \in Range(ObjectsOf[op]) : account'[r][o] # "GONE"
           /\ op \in Objects => account'[r][op] = "GONE"
           /\ op = "MODERATION_SUBMIT" =>
                account'[r]["ad1"] = "MODERATION" /\ account'[r]["ad2"] = "MODERATION"
<1> DEFINE r == call[c].req
           op == call[c].op
           m == MethodOf(op)
           objects == Range(ObjectsOf[op])
           before == account[r]
<1>1. r \in Requests /\ op \in Operations
  BY SendingCall DEF Send
<1>2. /\ before \in [Objects -> DirectState] /\ objects \in SUBSET Objects
      /\ m \in {"add"} \cup DOMAIN Reaches
  BY <1>1, ObjectLists, TransitionKinds DEF TypeOK
<1>3. account'[r] = Invoked(before, objects, m)
  BY <1>1 DEF Send, TypeOK
<1>4. /\ op \in AddSteps => m = "add"
      /\ op \in Objects => m = "delete" /\ op \in objects
      /\ op = "MODERATION_SUBMIT" => m = "moderate" /\ objects = {"ad1", "ad2"}
  BY Methods, OwnObject, StepObjects
<1> HIDE DEF m, objects, before
<1>5. ASSUME NEW o \in Objects
      PROVE /\ o \in objects /\ m = "delete" => account'[r][o] = "GONE"
            /\ o \in objects /\ m # "delete" => account'[r][o] # "GONE"
            /\ o \in objects /\ m = "moderate" => account'[r][o] = "MODERATION"
  BY <1>2, <1>3, InvokedMoves
<1>6. op \in AddSteps => \A o \in Range(ObjectsOf[op]) : account'[r][o] # "GONE"
  BY <1>2, <1>4, <1>5 DEF objects
<1>7. op = "MODERATION_SUBMIT" =>
        account'[r]["ad1"] = "MODERATION" /\ account'[r]["ad2"] = "MODERATION"
  BY <1>2, <1>4, <1>5
<1> QED
  BY <1>4, <1>5, <1>6, <1>7

\* A saga in flight after a step was so before it, or nothing has been sent yet.
LEMMA StaysFlying ==
  ASSUME Sound, [Next]_vars, NEW r \in Requests, saga'[r].status = "IN_FLIGHT"
  PROVE \/ InFlight(r)
        \/ /\ sent' = sent /\ answered' = answered
           /\ \A op \in Operations : sent[r][op] = 0 /\ <<r, op>> \notin answered
<1>1. CASE saga'[r].status = saga[r].status
  BY <1>1 DEF InFlight
<1>2. CASE \E c \in Callers : StartSaga(c) /\ saga[r].status = "NONE"
  <2>1. sent' = sent /\ answered' = answered
    BY <1>2, StepFrame
  <2>2. ASSUME NEW op \in Operations
        PROVE sent[r][op] = 0 /\ <<r, op>> \notin answered
    <3>1. ~(sent[r][op] > 0) /\ sent[r][op] \in Nat
      BY <1>2 DEF Sound, AuthorityInv, SentStarted, TypeOK
    <3> QED
      BY <3>1 DEF Sound, SendInv, AnswersSent
  <2> QED
    BY <2>1, <2>2
<1>3. "IN_FLIGHT" \notin Terminal
  BY DEF Terminal
<1> QED
  BY <1>1, <1>2, <1>3, SagaMoves DEF Sound

\* What becomes of one object of the account.
LEMMA ObjectMoves ==
  ASSUME Sound, [Next]_vars, NEW r \in Requests, NEW o \in Objects
  PROVE \/ account'[r][o] = account[r][o]
        \/ /\ account[r][o] = "GONE" /\ account'[r][o] # "GONE"
           /\ \E c \in Callers : /\ Send(c) /\ call[c].req = r /\ call[c].op \in AddSteps
                                 /\ o \in Range(ObjectsOf[call[c].op])
        \/ /\ account[r][o] # "GONE" /\ account'[r][o] = "GONE"
           /\ \E c \in Callers : Send(c) /\ call[c].req = r /\ call[c].op = o
        \/ /\ account[r][o] # "GONE" /\ account'[r][o] # "GONE"
           /\ \/ \E c \in Callers : /\ call[c].pc = "send" /\ call[c].req = r
                                    /\ call[c].op \in WriteSteps
                                    /\ o \in {"ad1", "ad2"} => \/ account'[r][o] = "MODERATION"
                                                               \/ call[c].op \in AddSteps
              \/ account[r][o] = "MODERATION" /\ account'[r][o] = "ON"
        \/ ~InFlight(r) /\ account[r][o] # "GONE"
<1>1. CASE \E c \in Callers : (Send(c) \/ FailSend(c)) /\ call[c].req = r /\ InvokedBy(c, o)
  <2>1. PICK c \in Callers : (Send(c) \/ FailSend(c)) /\ call[c].req = r /\ InvokedBy(c, o)
    BY <1>1
  <2>2. call[c].pc = "send"
    BY <2>1 DEF Send, FailSend
  <2>3. CASE Send(c) /\ call[c].op \in AddSteps /\ o \in Range(ObjectsOf[call[c].op])
             /\ account'[r][o] # "GONE"
    BY <2>1, <2>2, <2>3, OperationKinds
  <2>4. CASE Send(c) /\ call[c].op = o /\ account'[r][o] = "GONE"
    BY <2>1, <2>4
  <2>5. CASE /\ call[c].op = "MODERATION_SUBMIT" /\ o \in {"ad1", "ad2"}
             /\ account[r][o] # "GONE" /\ account'[r][o] = "MODERATION"
    BY <2>1, <2>2, <2>5, NamesOfSteps
  <2>6. CASE /\ call[c].op = "CAMPAIGN_LAUNCH" /\ o = "campaign"
             /\ account[r][o] # "GONE" /\ account'[r][o] # "GONE"
    BY <2>1, <2>2, <2>6, NamesOfSteps
  <2> QED
    BY <2>1, <2>3, <2>4, <2>5, <2>6 DEF InvokedBy
<1>2. "MODERATION" # "GONE" /\ "ON" # "GONE"
  OBVIOUS
<1> QED
  BY <1>1, <1>2, AccountMoves DEF Sound

-----------------------------------------------------------------------------
(* One call at a time: each conjunct is kept.                              *)

LEMMA CalledStep == ASSUME Sound, [Next]_vars PROVE Called'
<1> SUFFICES ASSUME NEW c \in Callers, call'[c].pc # "idle" PROVE c \in session.callers
  BY StepKinds DEF Called
<1> QED
  BY CallMoves DEF Sound, SagaInv, Called, Steady

LEMMA FlyingStep == ASSUME Sound, [Next]_vars PROVE Flying'
<1> SUFFICES ASSUME NEW c \in Callers, call'[c].pc \notin {"idle", "start", "settle"}
             PROVE saga'[call'[c].req].status = "IN_FLIGHT"
  BY DEF Flying, InFlight
<1> DEFINE r == call[c].req
<1>1. ASSUME call[c].pc \notin {"idle", "start", "settle"}, call'[c].req = r
      PROVE saga'[r].status = "IN_FLIGHT"
  <2>1. saga[r].status = "IN_FLIGHT" /\ r \in Requests
    BY <1>1, MidCall DEF InFlight
  <2>2. ASSUME NEW d \in Callers, Finishes(d), saga'[r].status \in Terminal
        PROVE FALSE
    <3>1. call[d].pc # "idle"
      BY <2>2 DEF Finishes, FinishUnknown, FailSaga, FinishCompensation, Settle
    <3>2. d = c
      BY <1>1, <3>1, Alone
    <3>3. CASE FinishUnknown(c) \/ FinishCompensation(c) \/ Settle(c)
      BY <3>3, Edges DEF Edge, Sound
    <3>4. CASE FailSaga(c)
      <4>1. call[c].req \in Requests /\ call \in [Callers -> Call]
            /\ owned[r] \in Seq(Objects)
        BY <1>1, ActiveCall DEF Sound, TypeOK
      <4>2. CreatedObjects(r) \in SUBSET Objects
        BY <4>1 DEF CreatedObjects, Range
      <4>3. call'[c].pc = "compensate"
        BY <3>4, Edges DEF Edge, Sound
      <4>4. saga' = saga
        BY <3>4, <4>1, <4>2, <4>3, FailSagaMoves
      <4> QED
        BY <2>1, <2>2, <4>4 DEF Terminal
    <3> QED
      BY <2>2, <3>2, <3>3, <3>4 DEF Finishes
  <2>3. \/ saga'[r] = saga[r] \/ saga'[r].status = "IN_FLIGHT"
        \/ saga'[r].status = saga[r].status
        \/ \E d \in Callers : Finishes(d) /\ saga'[r].status \in Terminal
    BY <2>1, SagaMoves DEF Sound
  <2> QED
    BY <2>1, <2>2, <2>3
<1>2. CASE call'[c] = call[c]
  BY <1>1, <1>2
<1>3. CASE CallStep(c) /\ Steady(c)
  <2>1. call'[c].req = r /\ call[c].pc # "idle" /\ r \in Requests
    BY <1>3, ActiveCall DEF Steady, Sound
  <2>2. CASE StartSaga(c)
    BY <2>1, <2>2, StartMoves DEF Sound
  <2>3. CASE LoadSaga(c)
    <3>1. saga[r].status \notin Terminal \cup {"NONE"}
      BY <2>3, Edges, ReturnEdge DEF LoadSaga, AnswersAtOnce, Sound
    <3>2. saga[r].status = "IN_FLIGHT" /\ saga' = saga
      BY <2>1, <2>3, <3>1, SagaFields, QuietFrame DEF Sound, TypeOK, Statuses, QuietStep, Known
    <3> QED
      BY <2>1, <3>2
  <2>4. CASE ~StartSaga(c) /\ ~LoadSaga(c)
    <3>1. call[c].pc \notin {"start", "settle"}
      BY <1>3, <2>4, Edges DEF CallStep, Edge, Sound
    <3> QED
      BY <1>1, <2>1, <3>1
  <2> QED
    BY <2>2, <2>3, <2>4
<1>4. CASE Crash(c)
  BY <1>4, ReturnEdge DEF Crash, Sound
<1> QED
  BY <1>2, <1>3, <1>4, CallMoves DEF Sound

LEMMA OrderStep == ASSUME Sound, [Next]_vars PROVE StepsInOrder'
<1>1. ASSUME NEW r \in Requests, saga'[r].status = "NONE"
      PROVE saga'[r].completed = 0
  <2>1. ASSUME NEW c \in Callers, CompleteStep(c), call[c].req = r
        PROVE saga[r].status = "IN_FLIGHT"
    BY <2>1, MidCall DEF CompleteStep, InFlight
  <2>2. saga'[r] = saga[r]
    BY <1>1, <2>1, SagaMoves DEF Sound, Terminal
  <2> QED
    BY <1>1, <2>2 DEF Sound, SagaInv, StepsInOrder
<1>2. ASSUME NEW r \in Requests, NEW i \in 1..8, Steps[i] \in WriteSteps
      PROVE /\ dispatch'[r][Steps[i]] = "DONE" <=> i <= saga'[r].completed
            /\ dispatch'[r][Steps[i]] = "OPEN" => i = saga'[r].completed + 1
            /\ dispatch'[r][Steps[i]] = "NONE" => sent'[r][Steps[i]] = 0
            /\ dispatch'[r][Steps[i]] = "DONE" => <<r, Steps[i]>> \in answered'
  <2> DEFINE w == Steps[i]
             n == saga[r].completed
  <2>1. /\ dispatch[r][w] = "DONE" <=> i <= n
        /\ dispatch[r][w] = "OPEN" => i = n + 1
        /\ dispatch[r][w] = "NONE" => sent[r][w] = 0
        /\ dispatch[r][w] = "DONE" => <<r, w>> \in answered
        /\ saga[r].status = "NONE" => n = 0
    BY <1>2 DEF Sound, SagaInv, StepsInOrder
  <2>2. w \in Operations /\ w \notin Objects /\ n \in 0..8
    BY <1>2, OperationKinds, SagaFields DEF Sound, TypeOK
  <2>3. answered \subseteq answered'
    BY AnsweredMoves DEF Sound
  <2>4. dispatch[r][w] = "NONE" => sent'[r][w] = sent[r][w]
    BY <1>2, <2>2, SentMoves, SendKnown DEF Sound
  <2>5. CASE dispatch'[r][w] = dispatch[r][w]
    <3>1. CASE saga'[r].completed = n
      BY <2>1, <2>3, <2>4, <2>5, <3>1
    <3>2. CASE saga[r].status = "NONE" /\ saga'[r].completed = 0
      BY <2>1, <2>3, <2>4, <2>5, <3>2
    <3>3. ASSUME NEW c \in Callers, call[c].req = r, Advances(c), CompleteStep(c),
                 saga'[r].completed = n + 1
          PROVE i # n + 1
      <4>1. CASE i = n + 1
        <5>1. w = call[c].op
          BY <3>3, <4>1, SMTT(30) DEF Advances, NextStep, Completed
        <5>2. dispatch[r][w] = "OPEN" /\ dispatch'[r][w] = "DONE"
          BY <1>2, <3>3, <5>1, AdvanceMoves DEF Advances, Sound
        <5> QED
          BY <2>5, <5>2
      <4> QED
        BY <4>1
    <3>4. CASE saga'[r].completed = n + 1 /\ i # n + 1
      BY <2>1, <2>2, <2>3, <2>4, <2>5, <3>4
    <3>5. \/ saga'[r].completed = n
          \/ saga[r].status = "NONE" /\ saga'[r].completed = 0
          \/ saga'[r].completed = n + 1 /\ i # n + 1
      BY <3>3, SagaMoves DEF Sound
    <3> HIDE DEF w, n
    <3> QED
      BY <3>1, <3>2, <3>4, <3>5 DEF w
  <2>6. ASSUME NEW c \in Callers, Claim(c), call[c].req = r, call[c].op = w,
               Claimable(r, w), dispatch'[r][w] = "OPEN"
        PROVE saga'[r].completed + 1 = i
    <3>1. saga[r].completed < 8 /\ NextStep(r) = w
      BY <2>2, <2>6, NamesOfSteps DEF Claimable, Completed
    <3>2. saga' = saga
      BY <2>6, StepFrame
    <3> QED
      BY <3>1, <3>2, NextIs DEF Sound
  <2>7. ASSUME NEW c \in Callers, CancelClaim(c), call[c].req = r, call[c].op = w,
               dispatch[r][w] = "OPEN", dispatch'[r][w] = "NONE"
        PROVE sent'[r][w] = 0 /\ saga' = saga
    <3>1. call[c].pc = "cancel"
      BY <2>7 DEF CancelClaim
    <3>2. sent[r][w] = 0
      BY <1>2, <2>7, <3>1, MidCall DEF InOrder
    <3> QED
      BY <2>7, <3>2, StepFrame
  <2>8. ASSUME NEW c \in Callers, CompleteStep(c), call[c].req = r, call[c].op = w,
               dispatch[r][w] = "OPEN", dispatch'[r][w] = "DONE", Advances(c)
        PROVE saga'[r].completed = n + 1 /\ <<r, w>> \in answered
    <3>1. call[c].pc = "complete"
      BY <2>8 DEF CompleteStep
    <3>2. <<r, w>> \in answered
      BY <1>2, <2>8, <3>1, MidCall DEF InOrder
    <3> QED
      BY <2>8, <3>2, AdvanceMoves DEF Sound
  <2>9. CASE \E c \in Callers : /\ Claim(c) /\ call[c].req = r /\ call[c].op = w
                                /\ Claimable(r, w) /\ dispatch'[r][w] = "OPEN"
    <3>1. saga'[r].completed + 1 = i /\ dispatch'[r][w] = "OPEN"
      BY <2>6, <2>9
    <3>2. saga'[r].completed \in 0..8
      BY SagaFields, SagaMoves DEF Sound
    <3> QED
      BY <3>1, <3>2
  <2>10. CASE \E c \in Callers : /\ CancelClaim(c) /\ call[c].req = r /\ call[c].op = w
                                 /\ dispatch[r][w] = "OPEN" /\ dispatch'[r][w] = "NONE"
    <3>1. /\ dispatch[r][w] = "OPEN" /\ dispatch'[r][w] = "NONE" /\ sent'[r][w] = 0
          /\ saga'[r].completed = n
      BY <2>7, <2>10
    <3> QED
      BY <2>1, <3>1
  <2>11. CASE \E c \in Callers : /\ CompleteStep(c) /\ call[c].req = r /\ call[c].op = w
                                 /\ dispatch[r][w] = "OPEN" /\ dispatch'[r][w] = "DONE"
                                 /\ Advances(c)
    <3>1. /\ dispatch[r][w] = "OPEN" /\ dispatch'[r][w] = "DONE"
          /\ saga'[r].completed = n + 1 /\ <<r, w>> \in answered
      BY <2>8, <2>11
    <3> HIDE DEF w, n
    <3> QED
      BY <2>1, <2>3, <3>1 DEF w
  <2> QED
    BY <1>2, <2>5, <2>9, <2>10, <2>11, DispatchMoves DEF Sound
<1> QED
  BY <1>1, <1>2 DEF StepsInOrder

LEMMA AnswersStep == ASSUME Sound, [Next]_vars PROVE ObjectsFromAnswers'
<1> SUFFICES ASSUME NEW r \in Requests, NEW step \in AddSteps, NEW o \in Range(ObjectsOf[step])
             PROVE /\ account'[r][o] # "GONE" \/ o \in Range(owned'[r]) =>
                        <<r, step>> \in answered'
                   /\ dispatch'[r][step] = "DONE" => o \in Range(owned'[r])
                   /\ <<r, step>> \in answered' /\ saga'[r].status = "IN_FLIGHT" /\ account'[r][o] = "GONE"
                        => sent'[r][o] > 0
  BY DEF ObjectsFromAnswers, InFlight
<1>0. step \in Operations /\ step \in WriteSteps /\ o \in Objects /\ o \in Operations
  BY OperationKinds, ObjectLists
<1>1. /\ account[r][o] # "GONE" \/ o \in Range(owned[r]) => <<r, step>> \in answered
      /\ dispatch[r][step] = "DONE" => o \in Range(owned[r])
      /\ <<r, step>> \in answered /\ InFlight(r) /\ account[r][o] = "GONE" => sent[r][o] > 0
  BY DEF Sound, SagaInv, ObjectsFromAnswers
<1>2. answered \subseteq answered' /\ Range(owned[r]) \subseteq Range(owned'[r])
  BY AnsweredMoves, OwnedGrows DEF Sound
<1>3. ASSUME NEW c \in Callers, call[c].op \in AddSteps, o \in Range(ObjectsOf[call[c].op])
      PROVE call[c].op = step
  BY <1>3, OneStepOfObject
<1>4. sent[r][o] \in Nat /\ sent'[r][o] \in Nat /\ sent'[r][o] >= sent[r][o]
  <2>1. sent[r][o] \in Nat
    BY <1>0 DEF Sound, TypeOK
  <2>2. sent'[r][o] \in {sent[r][o], sent[r][o] + 1}
    BY <1>0, SentMoves DEF Sound
  <2> QED
    BY <2>1, <2>2
<1>5. account'[r][o] # "GONE" => <<r, step>> \in answered'
  <2>1. ASSUME NEW c \in Callers, Send(c), call[c].req = r, call[c].op = step
        PROVE <<r, step>> \in answered'
    BY <2>1, SendCounts DEF Sound, Key
  <2> QED
    BY <1>0, <1>1, <1>2, <1>3, <2>1, ObjectMoves
<1>6. o \in Range(owned'[r]) => <<r, step>> \in answered'
  <2>1. ASSUME NEW c \in Callers, RegisterObjects(c), call[c].req = r, call[c].op = step
        PROVE <<r, step>> \in answered
    <3>1. call[c].pc = "register"
      BY <2>1 DEF RegisterObjects
    <3> QED
      BY <2>1, <3>1, MidCall DEF InOrder
  <2> QED
    BY <1>1, <1>2, <1>3, <2>1, OwnedMoves DEF Sound
<1>7. dispatch'[r][step] = "DONE" => o \in Range(owned'[r])
  <2>1. ASSUME NEW c \in Callers, CompleteStep(c), call[c].req = r, call[c].op = step
        PROVE o \in Range(owned[r])
    <3>1. call[c].pc = "complete"
      BY <2>1 DEF CompleteStep
    <3> QED
      BY <2>1, <3>1, MidCall DEF InOrder
  <2> QED
    BY <1>0, <1>1, <1>2, <2>1, DispatchMoves DEF Sound
<1>8. ASSUME <<r, step>> \in answered', saga'[r].status = "IN_FLIGHT", account'[r][o] = "GONE"
      PROVE sent'[r][o] > 0
  <2>1. InFlight(r)
    BY <1>0, <1>8, StaysFlying
  <2>2. <<r, step>> \in answered
    <3>1. ASSUME NEW c \in Callers, Send(c), call[c].req = r, call[c].op = step
          PROVE account'[r][o] # "GONE"
      BY <3>1, SendEffect DEF Sound
    <3> QED
      BY <1>0, <1>8, <3>1, AnsweredMoves DEF Sound
  <2>3. CASE account[r][o] = "GONE"
    BY <1>1, <1>4, <2>1, <2>2, <2>3
  <2>4. CASE account[r][o] # "GONE"
    <3>1. PICK c \in Callers : Send(c) /\ call[c].req = r /\ call[c].op = o
      BY <1>0, <1>8, <2>1, <2>4, ObjectMoves
    <3>2. sent'[r][o] = sent[r][o] + 1
      BY <3>1, SendCounts DEF Sound
    <3> QED
      BY <1>4, <3>2
  <2> QED
    BY <2>3, <2>4
<1> QED
  BY <1>5, <1>6, <1>7, <1>8

LEMMA SentGrows ==
  ASSUME Sound, [Next]_vars, NEW r \in Requests, NEW op \in Operations, sent[r][op] > 0
  PROVE sent'[r][op] > 0
<1>1. sent[r][op] \in Nat
  BY DEF Sound, TypeOK
<1>2. sent'[r][op] \in {sent[r][op], sent[r][op] + 1}
  BY SentMoves DEF Sound
<1> QED
  BY <1>1, <1>2

LEMMA GoneStep == ASSUME Sound, [Next]_vars PROVE CompensatedGone'
<1> SUFFICES ASSUME NEW r \in Requests, NEW o \in compensated'[r]
             PROVE account'[r][o] = "GONE" /\ sent'[r][o] > 0
  BY DEF CompensatedGone
<1>1. o \in Objects /\ o \in Operations
  BY CompensatedMoves, OperationKinds DEF Sound
<1>2. CASE o \in compensated[r]
  <2>1. account[r][o] = "GONE" /\ sent[r][o] > 0
    BY <1>2 DEF Sound, SagaInv, CompensatedGone
  <2>2. ASSUME NEW c \in Callers, Send(c), call[c].req = r, call[c].op \in AddSteps
        PROVE FALSE
    <3>1. call[c].pc = "send" /\ call[c].op \in WriteSteps
      BY <2>2, OperationKinds DEF Send
    <3>2. ~Undone(r)
      BY <2>2, <3>1, SendKnown
    <3> QED
      BY <1>1, <2>1, <3>2 DEF Undone
  <2>3. account'[r][o] = "GONE"
    BY <1>1, <2>1, <2>2, ObjectMoves
  <2> QED
    BY <1>1, <2>1, <2>3, SentGrows
<1>3. CASE o \notin compensated[r]
  <2>1. PICK c \in Callers : MarkCompensated(c) /\ call[c].req = r /\ call[c].op = o
    BY <1>3, CompensatedMoves DEF Sound
  <2>2. call[c].pc = "mark"
    BY <2>1 DEF MarkCompensated
  <2>3. account[r][o] = "GONE" /\ sent[r][o] > 0
    BY <2>1, <2>2, MidCall DEF InOrder
  <2> QED
    BY <2>1, <2>3, StepFrame
<1> QED
  BY <1>2, <1>3

\* A step that was sent is completed or the next one.
LEMMA SentInOrder ==
  ASSUME Sound, NEW r \in Requests, NEW i \in 1..8, Steps[i] \in WriteSteps,
         sent[r][Steps[i]] > 0
  PROVE i <= saga[r].completed + 1 /\ dispatch[r][Steps[i]] # "NONE"
<1> DEFINE n == saga[r].completed
           d == dispatch[r][Steps[i]]
<1>1. d \in {"NONE", "OPEN", "DONE"} /\ n \in 0..8
  BY SagaFields DEF Sound, TypeOK
<1>2. /\ d = "DONE" <=> i <= n
      /\ d = "OPEN" => i = n + 1
      /\ d = "NONE" => sent[r][Steps[i]] = 0
  BY DEF Sound, SagaInv, StepsInOrder
<1>3. d # "NONE"
  BY <1>2
<1> HIDE DEF n, d
<1>4. i <= n + 1
  BY <1>1, <1>2, <1>3
<1> QED
  BY <1>3, <1>4 DEF n, d

LEMMA SubmittedStep == ASSUME Sound, [Next]_vars PROVE Submitted'
<1> SUFFICES ASSUME NEW r \in Requests, NEW o \in {"ad1", "ad2"},
                    <<r, "MODERATION_SUBMIT">> \in answered', saga'[r].status = "IN_FLIGHT"
             PROVE account'[r][o] \in {"MODERATION", "ON", "GONE"}
  BY DEF Submitted, InFlight
<1>1. o \in Objects /\ "MODERATION_SUBMIT" \in Operations /\ Steps[5] = "MODERATION_SUBMIT"
      /\ "MODERATION_SUBMIT" \in WriteSteps
  BY NamesOfSteps DEF Objects, Operations, Steps
<1>2. InFlight(r)
  <2>1. ASSUME NEW c \in Callers, Send(c), call[c].req = r PROVE InFlight(r)
    BY <2>1, SendKnown DEF Send
  <2> QED
    BY <1>1, <2>1, StaysFlying, AnsweredMoves DEF Sound
<1>3. CASE <<r, "MODERATION_SUBMIT">> \in answered
  <2>1. account[r][o] \in {"MODERATION", "ON", "GONE"}
    BY <1>2, <1>3 DEF Sound, SagaInv, Submitted
  <2>2. ASSUME NEW c \in Callers, call[c].pc = "send", call[c].req = r,
               call[c].op \in AddSteps
        PROVE FALSE
    <3>1. sent[r]["MODERATION_SUBMIT"] > 0
      BY <1>1, <1>3 DEF Sound, SendInv, AnswersSent
    <3>2. 5 <= saga[r].completed + 1
      BY <1>1, <3>1, SentInOrder
    <3>3. saga[r].completed < 8 /\ NextStep(r) = call[c].op
      BY <2>2, SendKnown, OperationKinds
    <3>4. saga[r].completed + 1 \in 1..8 /\ Steps[saga[r].completed + 1] \in AddSteps
      BY <2>2, <3>3, NextIs DEF Sound
    <3>5. saga[r].completed + 1 <= 4
      BY <3>4, StepNumbers
    <3> QED
      BY <3>2, <3>4, <3>5
  <2>3. CASE account'[r][o] = account[r][o]
    BY <2>1, <2>3
  <2>4. CASE account[r][o] = "MODERATION" /\ account'[r][o] = "ON"
    BY <2>4
  <2>5. CASE \E c \in Callers : /\ call[c].pc = "send" /\ call[c].req = r
                                /\ account'[r][o] = "MODERATION" \/ call[c].op \in AddSteps
    BY <2>2, <2>5
  <2>6. CASE account'[r][o] = "GONE"
    BY <2>6
  <2>7. CASE \E c \in Callers : Send(c) /\ call[c].req = r /\ call[c].op \in AddSteps
    BY <2>2, <2>7 DEF Send
  <2> QED
    BY <1>1, <1>2, <2>3, <2>4, <2>5, <2>6, <2>7, ObjectMoves
<1>4. CASE <<r, "MODERATION_SUBMIT">> \notin answered
  <2>1. PICK c \in Callers : Send(c) /\ call[c].req = r /\ call[c].op = "MODERATION_SUBMIT"
    BY <1>1, <1>4, AnsweredMoves DEF Sound
  <2> QED
    BY <2>1, SendEffect DEF Sound
<1> QED
  BY <1>3, <1>4

-----------------------------------------------------------------------------
(* One call at a time: a saga whose compensation has begun is stuck.       *)

Stopped(r) == InFlight(r) /\ (Undone(r) \/ \E c \in Callers : Compensating(c) /\ call[c].req = r)

LEMMA CompensatingOn ==
  ASSUME Sound, NEW c \in Callers, Compensating(c)
  PROVE /\ call[c].pc # "idle" /\ call[c].req \in Requests /\ Stopped(call[c].req)
        /\ Stuck(call[c].req) /\ call[c].pc \notin {"idle", "start", "settle"}
<1>1. call[c].pc \notin {"idle", "start", "settle"}
  BY DEF Compensating, Sending
<1> QED
  BY <1>1, MidCall DEF Stopped, Sound, SagaInv, StuckOnceUndone

LEMMA StoppedStuck ==
  ASSUME Sound, NEW r \in Requests, Stopped(r)
  PROVE Stuck(r)
BY DEF Stopped, Sound, SagaInv, StuckOnceUndone

\* In a stopped saga no call is about to send, complete or cancel a step.
LEMMA StoppedQuiet ==
  ASSUME Sound, NEW r \in Requests, Stopped(r), NEW c \in Callers, call[c].req = r
  PROVE /\ call[c].pc \in Sending \cup {"cancel"} => call[c].op \notin WriteSteps
        /\ call[c].pc = "complete" => call[c].op = "FULL_READBACK"
<1>1. CASE Undone(r)
  <2>1. ASSUME call[c].pc \in Sending \cup {"cancel", "complete"} PROVE InOrder(call[c])
    BY <2>1, MidCall DEF Sending
  <2> QED
    BY <1>1, <2>1 DEF InOrder
<1>2. CASE ~Undone(r)
  <2>1. PICK d \in Callers : Compensating(d) /\ call[d].req = r
    BY <1>2 DEF Stopped
  <2>2. call[c].pc # "idle" => c = d
    BY <2>1, CompensatingOn, Alone
  <2> QED
    BY <2>1, <2>2, OperationKinds DEF Compensating, Sending
<1> QED
  BY <1>1, <1>2

\* Who holds an object took it up in a state that can be deleted.
LEMMA TakenArrives ==
  ASSUME Sound, [Next]_vars, NEW r \in Requests, NEW o \in Objects,
         NEW c \in Callers, call'[c].req = r, call'[c].op = o,
         call'[c].pc \in Sending \cup {"mark"}
  PROVE Taken(r, o) \/ Permitted(account[r], o, "delete")
<1>1. CASE call'[c] = call[c]
  BY <1>1 DEF Taken
<1>2. CASE CallStep(c)
  <2>1. call'[c].pc # "idle"
    BY DEF Sending
  <2>2. CASE BeginStep(c)
    <3>1. call'[c].op \in StepNames
      BY <2>1, <2>2, BeginOn DEF Sound
    <3> QED
      BY <3>1, OperationKinds
  <2>3. CASE DeleteNext(c)
    <3>1. call'[c].pc # "rejected"
      BY DEF Sending
    <3> QED
      BY <2>3, <3>1, DeleteOn DEF Sound
  <2>4. CASE ~BeginStep(c) /\ ~DeleteNext(c)
    <3>1. /\ call[c].pc \in Sending \cup {"mark"} /\ call'[c].op = call[c].op
          /\ call'[c].req = call[c].req
      BY <1>2, <2>1, <2>4, Edges DEF CallStep, Edge, KeepsOp, Sending, Sound
    <3> QED
      BY <3>1 DEF Taken
  <2> QED
    BY <2>2, <2>3, <2>4
<1>3. CASE Crash(c)
  BY <1>3, ReturnEdge DEF Crash, Sound, Sending
<1> QED
  BY <1>1, <1>2, <1>3, CallMoves DEF Sound, Sending

LEMMA StuckStays ==
  ASSUME Sound, [Next]_vars, NEW r \in Requests, Stopped(r)
  PROVE Stuck(r)'
<1>1. InFlight(r) /\ Stuck(r) /\ saga[r].completed \in 0..8
  BY StoppedStuck, SagaFields DEF Stopped, Sound, TypeOK
<1>2. CASE saga[r].completed >= 7
  <2>1. saga[r].status # "NONE"
    BY <1>1 DEF InFlight
  <2>2. saga'[r].completed \in {saga[r].completed, saga[r].completed + 1}
    BY <2>1, SagaMoves DEF Sound
  <2>3. ~(saga'[r].completed < 7)
    BY <1>1, <1>2, <2>2
  <2> QED
    BY <2>3 DEF Stuck
<1>3. CASE saga[r].completed < 7
  <2>1. saga[r].completed < 8 /\ NextStep(r) # "FULL_READBACK"
    <3>1. Steps[8] = "FULL_READBACK"
      BY DEF Steps
    <3> QED
      BY <1>1, <1>3, <3>1, NextIs DEF Sound
  <2>2. saga'[r].completed = saga[r].completed
    <3>1. saga[r].status # "NONE"
      BY <1>1 DEF InFlight
    <3>2. ASSUME NEW c \in Callers, CompleteStep(c), call[c].req = r, Advances(c)
          PROVE FALSE
      <4>1. call[c].pc = "complete" /\ NextStep(r) = call[c].op
        BY <3>2 DEF CompleteStep, Advances
      <4> QED
        BY <2>1, <3>2, <4>1, StoppedQuiet
    <3> QED
      BY <3>1, <3>2, SagaMoves DEF Sound
  <2>3. NextStep(r)' = NextStep(r)
    BY <2>2 DEF NextStep, Completed
  <2>4. CASE NextStep(r) \in WriteSteps
    <3> DEFINE w == NextStep(r)
    <3>1. StuckWrite(r, w) /\ w \in Operations
      BY <1>1, <1>3, <2>4, OperationKinds DEF Stuck
    <3>2. dispatch'[r][w] = "OPEN"
      <4>1. ASSUME NEW c \in Callers, CancelClaim(c), call[c].req = r, call[c].op = w
            PROVE FALSE
        BY <2>4, <4>1, StoppedQuiet DEF CancelClaim
      <4>2. ASSUME NEW c \in Callers, CompleteStep(c), call[c].req = r, call[c].op = w
            PROVE FALSE
        BY <2>1, <4>2, StoppedQuiet DEF CompleteStep
      <4> HIDE DEF w
      <4> QED
        BY <2>4, <3>1, <4>1, <4>2, DispatchMoves DEF StuckWrite, Sound, w
    <3>3. <<r, w>> \notin answered => <<r, w>> \notin answered'
      <4>1. ASSUME NEW c \in Callers, Send(c), call[c].req = r, call[c].op = w
            PROVE FALSE
        BY <2>4, <4>1, StoppedQuiet DEF Send, Sending
      <4> QED
        BY <3>1, <4>1, AnsweredMoves DEF Sound
    <3>4. Range(owned[r]) \subseteq Range(owned'[r])
      BY OwnedGrows DEF Sound
    <3> QED
      BY <2>3, <2>4, <3>1, <3>2, <3>3, <3>4 DEF Stuck, StuckWrite
  <2>5. CASE NextStep(r) \notin WriteSteps
    <3>1. adapter' = adapter
      BY Frames
    <3>2. CASE Fails(adapter, "Ads", "get")
      BY <2>3, <2>5, <3>1, <3>2 DEF Stuck, StuckReadback, Fails
    <3>3. CASE ~Fails(adapter, "Ads", "get")
      <4>1. PICK o \in {"ad1", "ad2"} : /\ account[r][o] = "ON" /\ Belongs(r, o)
                                        /\ ~Taken(r, o)
        BY <1>1, <1>3, <2>5, <3>3 DEF Stuck, StuckReadback
      <4>2. o \in Objects
        BY DEF Objects
      <4>3. account'[r][o] = "ON"
        <5>1. ASSUME NEW c \in Callers, call[c].pc = "send", call[c].req = r
              PROVE call[c].op \notin WriteSteps /\ call[c].op # o
          BY <4>1, <5>1, StoppedQuiet DEF Taken, Sending
        <5>2. ASSUME NEW c \in Callers, Send(c), call[c].req = r
              PROVE call[c].op \notin AddSteps /\ call[c].op # o
          BY <5>1, <5>2, OperationKinds DEF Send
        <5> QED
          BY <1>1, <4>1, <4>2, <5>1, <5>2, ObjectMoves
      <4>4. Belongs(r, o)'
        <5>1. o \in Range(owned'[r])
          BY <4>1, OwnedGrows DEF Belongs, CreatedObjects, Sound
        <5>2. ASSUME NEW c \in Callers, MarkCompensated(c), call[c].req = r PROVE call[c].op # o
          BY <4>1, <5>2 DEF MarkCompensated, Taken
        <5>3. o \notin compensated'[r]
          BY <4>1, <5>2, CompensatedMoves DEF Belongs, CreatedObjects, Sound
        <5> QED
          BY <5>1, <5>3 DEF Belongs, CreatedObjects
      <4>5. ~Taken(r, o)'
        <5>1. ~Permitted(account[r], o, "delete")
          BY <4>1 DEF Permitted, RequiredStates, ServiceOf
        <5> QED
          BY <4>1, <4>2, <5>1, TakenArrives DEF Taken
      <4> QED
        BY <2>3, <2>5, <4>3, <4>4, <4>5 DEF Stuck, StuckReadback
    <3> QED
      BY <3>2, <3>3
  <2> QED
    BY <2>4, <2>5
<1> QED
  BY <1>1, <1>2, <1>3

\* The first readback that fails has a reading that fails, or sees its advertisements
\* in a state the plan does not ask for.
LEMMA ReadbackFails ==
  ASSUME Sound, NEW c \in Callers, Readback(c), call[c].op = "MODERATION_READBACK",
         call'[c].pc \in {"failed", "complete"}
  PROVE LET r == call[c].req
            matches == \A o \in Mine(r, "Ads") : account[r][o] = "MODERATION"
        IN /\ call'[c].pc = "failed" =>
                Fails(adapter, "Ads", "get") \/ ~(Unreadable(r, "Ads") \/ matches)
           /\ call'[c].pc = "complete" => ~Fails(adapter, "Ads", "get") /\ matches
<1> DEFINE r == call[c].req
           services == <<"Ads">>
           problems == {i \in DOMAIN services :
                          Fails(adapter, services[i], "get") \/ Unreadable(r, services[i])}
           first == CHOOSE i \in problems : \A j \in problems : i <= j
           matches == \A o \in Mine(r, "Ads") : account[r][o] = "MODERATION"
<1>1. IF problems # {} /\ ~Fails(adapter, services[first], "get") THEN Return(c)
      ELSE Goto(c, IF problems = {} /\ matches THEN "complete" ELSE "failed")
  BY DEF Readback
<1>2. DOMAIN services = {1} /\ services[1] = "Ads"
  OBVIOUS
<1>3. problems \subseteq {1}
  BY <1>2
<1>4. problems # {} => first = 1
  <2>1. problems # {} => problems = {1}
    BY <1>3
  <2> HIDE DEF problems
  <2>2. problems = {1} => first \in {1}
    BY DEF first
  <2> QED
    BY <2>1, <2>2
<1>5. 1 \in problems <=> Fails(adapter, "Ads", "get") \/ Unreadable(r, "Ads")
  BY <1>2
<1> HIDE DEF problems, first, matches
<1>6. CASE problems = {} /\ matches
  <2>1. Goto(c, "complete") /\ "complete" \in Points
    BY <1>1, <1>6 DEF Points
  <2> QED
    BY <1>5, <1>6, <2>1, GotoEdge DEF matches, Sound
<1>7. CASE problems = {} /\ ~matches
  <2>1. Goto(c, "failed") /\ "failed" \in Points
    BY <1>1, <1>7 DEF Points
  <2> QED
    BY <1>5, <1>7, <2>1, GotoEdge DEF matches, Sound
<1>8. CASE problems # {} /\ Fails(adapter, services[first], "get")
  <2>1. Goto(c, "failed") /\ "failed" \in Points
    BY <1>1, <1>8 DEF Points
  <2> QED
    BY <1>2, <1>4, <1>8, <2>1, GotoEdge DEF Sound
<1>9. CASE problems # {} /\ ~Fails(adapter, services[first], "get")
  BY <1>1, <1>9, ReturnEdge DEF Sound
<1> QED
  BY <1>6, <1>7, <1>8, <1>9

\* What a failing call leaves: its step open and without an answer, its objects
\* recorded, or a reading that fails again.
LEMMA FailsStuck ==
  ASSUME Sound, [Next]_vars, NEW c \in Callers, NEW r \in Requests, r = call[c].req,
         FailSend(c) \/ RegisterObjects(c) \/ Readback(c),
         call'[c].pc = "failed"
  PROVE Stuck(r)'
<1> DEFINE op == call[c].op
<1>1. CASE FailSend(c)
  <2>1. call[c].pc = "send" /\ call[c].op \notin Objects /\ <<r, op>> \notin answered
    <3>1. /\ call[c].pc = "send" /\ <<r, op>> \notin answered
          /\ Goto(c, IF op \in Objects THEN "rejected" ELSE "failed")
      BY <1>1 DEF FailSend
    <3>2. op \in Objects => Goto(c, "rejected")
      BY <3>1
    <3>3. "rejected" \in Points
      BY DEF Points
    <3> QED
      BY <3>1, <3>2, <3>3, GotoEdge DEF Sound
  <2>2. /\ saga[r].completed < 8 /\ NextStep(r) = op /\ dispatch[r][op] = "OPEN"
        /\ op \in WriteSteps
    BY <2>1, SendKnown, OperationKinds
  <2>3. saga' = saga /\ dispatch' = dispatch /\ answered' = answered
    BY <1>1, StepFrame
  <2>4. NextStep(r)' = op
    BY <2>2, <2>3 DEF NextStep, Completed
  <2> QED
    BY <2>1, <2>2, <2>3, <2>4 DEF Stuck, StuckWrite
<1>2. CASE RegisterObjects(c)
  <2>1. /\ r \in Requests /\ op \in AddSteps /\ dispatch[r][op] = "OPEN"
        /\ owned' = [owned EXCEPT ![r] = @ \o ObjectsOf[op]]
    BY <1>2, RegisterKinds, ReturnEdge DEF Sound
  <2>2. Range(ObjectsOf[op]) \subseteq Range(owned'[r])
    <3>1. owned[r] \in Seq(Objects) /\ ObjectsOf[op] \in Seq(Objects)
      BY <2>1, ObjectLists, OperationKinds DEF Sound, TypeOK
    <3>2. owned'[r] = owned[r] \o ObjectsOf[op]
      BY <2>1 DEF Sound, TypeOK
    <3> QED
      BY <3>1, <3>2, RangeAppended
  <2>3. NextStep(r) = op
    <3>1. call[c].pc = "register"
      BY <1>2 DEF RegisterObjects
    <3> QED
      BY <3>1, MidCall DEF InOrder
  <2>4. saga' = saga /\ dispatch' = dispatch
    BY <1>2, StepFrame
  <2>5. NextStep(r)' = op
    BY <2>3, <2>4 DEF NextStep, Completed
  <2> QED
    BY <2>1, <2>2, <2>4, <2>5, OperationKinds DEF Stuck, StuckWrite
<1>3. CASE Readback(c)
  <2>1. call[c].pc = "readback"
    BY <1>3 DEF Readback
  <2>2. /\ r \in Requests /\ saga[r].completed < 8 /\ NextStep(r) = op /\ InFlight(r)
        /\ op \in {"MODERATION_READBACK", "FULL_READBACK"}
    BY <2>1, MidCall DEF InOrder, Fits
  <2>3. Known' = Known
    BY <1>3, QuietFrame DEF QuietStep
  <2>4. NextStep(r)' = op /\ saga'[r] = saga[r]
    BY <2>2, <2>3 DEF NextStep, Completed, Known
  <2>5. Steps[8] = "FULL_READBACK" /\ Steps[6] = "MODERATION_READBACK" /\ Steps[5] = "MODERATION_SUBMIT"
    BY DEF Steps
  <2>6. CASE op = "FULL_READBACK"
    <3>1. saga[r].completed = 7
      <4>1. saga[r].completed + 1 = 8 /\ saga[r].completed \in 0..7
        BY <2>2, <2>5, <2>6, NextIs DEF Sound
      <4> QED
        BY <4>1
    <3> QED
      BY <2>4, <3>1 DEF Stuck
  <2>7. CASE op = "MODERATION_READBACK"
    <3>1. saga[r].completed = 5
      <4>1. saga[r].completed + 1 = 6 /\ saga[r].completed \in 0..7
        BY <2>2, <2>5, <2>7, NextIs DEF Sound
      <4> QED
        BY <4>1
    <3>2. <<r, "MODERATION_SUBMIT">> \in answered
      <4>1. Steps[5] \in WriteSteps /\ 5 \in 1..8 /\ 5 <= saga[r].completed
        BY <2>5, <3>1, NamesOfSteps
      <4>2. dispatch[r][Steps[5]] = "DONE" => <<r, Steps[5]>> \in answered
        BY <4>1 DEF Sound, SagaInv, StepsInOrder
      <4>3. dispatch[r][Steps[5]] = "DONE"
        BY <4>1 DEF Sound, SagaInv, StepsInOrder
      <4> QED
        BY <2>5, <4>2, <4>3
    <3>3. StuckReadback(r)
      <4>1. \/ Fails(adapter, "Ads", "get")
            \/ /\ ~Unreadable(r, "Ads")
               /\ ~\A o \in Mine(r, "Ads") : account[r][o] = "MODERATION"
        BY <1>3, <2>7, ReadbackFails
      <4>2. CASE Fails(adapter, "Ads", "get")
        BY <4>2 DEF StuckReadback
      <4>3. CASE /\ ~Unreadable(r, "Ads")
                 /\ ~\A o \in Mine(r, "Ads") : account[r][o] = "MODERATION"
        <5>1. PICK o \in Mine(r, "Ads") : account[r][o] # "MODERATION" /\ account[r][o] # "GONE"
          BY <4>3 DEF Unreadable
        <5>2. o \in CreatedObjects(r) /\ ServiceOf[o] = "Ads" /\ o \in Objects
          <6>1. CreatedObjects(r) \subseteq Objects
            BY <2>2 DEF CreatedObjects, Range, Sound, TypeOK
          <6> QED
            BY <6>1 DEF Mine
        <5>3. o \in {"ad1", "ad2"}
          BY <5>2 DEF ServiceOf, Objects
        <5>4. account[r][o] = "ON"
          BY <2>2, <3>2, <5>1, <5>3 DEF Sound, SagaInv, Submitted
        <5>5. ~Taken(r, o)
          <6>1. ASSUME NEW d \in Callers, call[d].pc \in Sending \cup {"mark"} PROVE FALSE
            <7>1. d = c
              BY <2>1, <6>1, Alone DEF Sending
            <7> QED
              BY <2>1, <6>1, <7>1 DEF Sending
          <6> QED
            BY <6>1 DEF Taken
        <5> QED
          BY <5>2, <5>3, <5>4, <5>5 DEF StuckReadback, Belongs
      <4> QED
        BY <4>1, <4>2, <4>3
    <3>4. "MODERATION_READBACK" \notin WriteSteps
      BY NamesOfSteps
    <3>5. StuckReadback(r)'
      <4>1. ASSUME NEW o \in Objects PROVE ~Taken(r, o)'
        <5>1. ASSUME NEW d \in Callers, call'[d].pc \in Sending \cup {"mark"} PROVE FALSE
          <6>1. CASE d = c
            BY <5>1, <6>1 DEF Sending
          <6>2. CASE d # c
            <7>1. call'[d] = call[d]
              BY <1>3, <6>2, CallSteady DEF CallStep, Steady, Others, Sound
            <7> QED
              BY <2>1, <5>1, <6>2, <7>1, Alone DEF Sending
          <6> QED
            BY <6>1, <6>2
        <5> QED
          BY <5>1 DEF Taken
      <4> QED
        BY <2>3, <3>3, <4>1 DEF StuckReadback, Fails, Belongs, CreatedObjects, Known, Objects
    <3> QED
      BY <2>4, <2>7, <3>4, <3>5 DEF Stuck
  <2> QED
    BY <2>2, <2>6, <2>7, SMTT(30)
<1> QED
  BY <1>1, <1>2, <1>3

\* A call compensates after it did so before, or after one of its steps failed.
LEMMA CompensatingArrives ==
  ASSUME Sound, [Next]_vars, NEW c \in Callers, Compensating(c)'
  PROVE /\ call'[c].req \in Requests
        /\ \/ Compensating(c) /\ call'[c].req = call[c].req
           \/ /\ FailSend(c) \/ RegisterObjects(c) \/ Readback(c)
              /\ call'[c].pc = "failed" /\ call'[c].req = call[c].req
<1>1. call'[c].pc \notin {"idle", "start"}
  BY DEF Compensating, Sending
<1>2. call'[c].req \in Requests
  BY <1>1, TypeStep DEF Sound, TypeOK, CallOK
<1>3. CASE call'[c] = call[c]
  BY <1>2, <1>3 DEF Compensating
<1>4. CASE CallStep(c)
  <2>1. \/ /\ FailSend(c) \/ RegisterObjects(c) \/ Readback(c)
           /\ call'[c].pc = "failed" /\ call'[c].req = call[c].req
        \/ call[c].pc \in {"failed", "compensate", "mark"} /\ call'[c].req = call[c].req
        \/ /\ call[c].pc \in Sending \cup {"cancel", "rejected"}
           /\ call'[c].pc \notin {"failed", "mark", "compensate"}
           /\ call'[c].req = call[c].req /\ call'[c].op = call[c].op
        \/ BeginStep(c) /\ call'[c].pc \in Sending
        \/ Send(c) /\ call'[c].pc = "mark" /\ call'[c].req = call[c].req /\ call'[c].op = call[c].op
        \/ Rejected(c) /\ call'[c].pc = "compensate" /\ call'[c].req = call[c].req
    BY <1>1, <1>4, Edges, NoRepeat DEF CallStep, Edge, KeepsOp, Compensating, Sending, Sound
  <2>2. CASE call[c].pc \in {"failed", "compensate", "mark"} /\ call'[c].req = call[c].req
    BY <1>2, <2>2 DEF Compensating
  <2>3. CASE /\ call[c].pc \in Sending \cup {"cancel", "rejected"}
             /\ call'[c].pc \notin {"failed", "mark", "compensate"}
             /\ call'[c].req = call[c].req /\ call'[c].op = call[c].op
    BY <1>2, <2>3 DEF Compensating
  <2>4. CASE BeginStep(c) /\ call'[c].pc \in Sending
    <3>1. call'[c].op \in StepNames
      BY <1>1, <2>4, BeginOn, SMTT(30) DEF Sound
    <3> QED
      BY <2>4, <3>1, OperationKinds DEF Compensating, Sending
  <2>5. CASE Send(c) /\ call'[c].pc = "mark" /\ call'[c].req = call[c].req /\ call'[c].op = call[c].op
    <3>1. call'[c].op \in Objects
      BY <2>5, TypeStep DEF Sound, TypeOK, CallOK, Fits
    <3> QED
      BY <1>2, <2>5, <3>1 DEF Compensating, Sending, Send
  <2>6. CASE Rejected(c) /\ call'[c].pc = "compensate" /\ call'[c].req = call[c].req
    <3>1. call[c].op \in Objects
      BY <2>6, RejectedMoves, NoCallIdle DEF Sound, TypeOK
    <3> QED
      BY <1>2, <2>6, <3>1 DEF Compensating, Rejected
  <2> QED
    BY <1>2, <2>1, <2>2, <2>3, <2>4, <2>5, <2>6
<1>5. CASE Crash(c)
  BY <1>1, <1>5, ReturnEdge DEF Crash, Sound
<1> QED
  BY <1>1, <1>3, <1>4, <1>5, CallMoves DEF Sound

LEMMA StuckStep == ASSUME Sound, [Next]_vars PROVE StuckOnceUndone'
<1>1. ASSUME NEW r \in Requests, Undone(r)', saga'[r].status = "IN_FLIGHT"
      PROVE Stuck(r)'
  <2>1. PICK o \in Objects : sent'[r][o] > 0
    BY <1>1 DEF Undone
  <2>2. o \in Operations
    BY OperationKinds
  <2>3. InFlight(r)
    <3>1. CASE sent' = sent /\ sent[r][o] = 0
      BY <2>1, <3>1
    <3> QED
      BY <1>1, <2>2, <3>1, StaysFlying
  <2>4. CASE sent'[r][o] = sent[r][o]
    BY <2>1, <2>3, <2>4, StuckStays DEF Stopped, Undone
  <2>5. CASE \E c \in Callers : call[c].pc = "send" /\ call[c].req = r /\ call[c].op = o
    BY <2>3, <2>5, StuckStays, SendKnown DEF Stopped
  <2> QED
    BY <2>2, <2>4, <2>5, SentMoves DEF Sound
<1>2. ASSUME NEW c \in Callers, Compensating(c)', NEW r \in Requests, r = call'[c].req
      PROVE Stuck(r)'
  BY <1>2, CompensatingArrives, FailsStuck, CompensatingOn, StuckStays
<1> QED
  BY <1>1, <1>2, CompensatingArrives DEF StuckOnceUndone, InFlight

-----------------------------------------------------------------------------
(* One call at a time: what a call knows about its step stays true.        *)

KnownNext(p, r, op) ==
  LET done == saga'[r].completed
      next == done < 8 /\ Steps[done + 1] = op
      undone == \E o \in Objects : sent'[r][o] > 0
  IN /\ p \in Sending \cup {"cancel"} /\ op \in WriteSteps =>
          next /\ ~undone /\ sent'[r][op] = 0
     /\ p = "claim" /\ op \in WriteSteps => dispatch'[r][op] = "NONE"
     /\ p \in {"audit", "recheck", "send"} /\ op \in WriteSteps => dispatch'[r][op] = "OPEN"
     /\ p \in {"consume", "register"} =>
          next /\ dispatch'[r][op] = "OPEN" /\ <<r, op>> \in answered'
     /\ p = "complete" =>
          /\ next
          /\ op # "FULL_READBACK" => ~undone
          /\ op \in WriteSteps => dispatch'[r][op] = "OPEN" /\ <<r, op>> \in answered'
          /\ op \in AddSteps => Range(ObjectsOf[op]) \subseteq Range(owned'[r])
     /\ p = "readback" => next
     /\ p = "mark" => account'[r][op] = "GONE" /\ sent'[r][op] > 0

LEMMA KnownNow ==
  ASSUME Sound, NEW c \in Callers, call[c].pc # "idle"
  PROVE LET p == call[c].pc
            r == call[c].req
            op == call[c].op
            next == saga[r].completed < 8 /\ Steps[saga[r].completed + 1] = op
        IN /\ r \in Requests
           /\ p \in Sending \cup {"cancel"} /\ op \in WriteSteps =>
                next /\ ~Undone(r) /\ sent[r][op] = 0
           /\ p = "claim" /\ op \in WriteSteps => dispatch[r][op] = "NONE"
           /\ p \in {"audit", "recheck", "send"} /\ op \in WriteSteps =>
                dispatch[r][op] = "OPEN"
           /\ p \in {"consume", "register"} =>
                next /\ dispatch[r][op] = "OPEN" /\ <<r, op>> \in answered
           /\ p = "complete" =>
                /\ next
                /\ op # "FULL_READBACK" => ~Undone(r)
                /\ op \in WriteSteps => dispatch[r][op] = "OPEN" /\ <<r, op>> \in answered
                /\ op \in AddSteps => Range(ObjectsOf[op]) \subseteq Range(owned[r])
           /\ p = "readback" => next
           /\ p = "mark" => account[r][op] = "GONE" /\ sent[r][op] > 0
<1>1. InOrder(call[c]) /\ call[c].req \in Requests
  BY ActiveCall DEF Sound, SagaInv, StepsKnown
<1> QED
  BY <1>1 DEF InOrder, NextStep, Completed

LEMMA OpenIsNext ==
  ASSUME Sound, NEW r \in Requests, NEW w \in WriteSteps, dispatch[r][w] = "OPEN"
  PROVE /\ saga[r].completed < 7 /\ saga[r].completed < 8
        /\ Steps[saga[r].completed + 1] = w /\ NextStep(r) = w
<1>1. PICK i \in 1..8 : Steps[i] = w
  BY OperationKinds, StepIndex
<1>2. i = saga[r].completed + 1 /\ i # 8 /\ saga[r].completed \in 0..8
  BY <1>1, StepNumbers, SagaFields DEF Sound, SagaInv, StepsInOrder, TypeOK
<1>3. saga[r].completed < 7 /\ saga[r].completed < 8
  BY <1>2
<1> QED
  BY <1>1, <1>2, <1>3 DEF NextStep, Completed

\* An open step that can still be completed has not been undone.
LEMMA NotUndone ==
  ASSUME Sound, NEW r \in Requests, InFlight(r), NEW w \in WriteSteps,
         saga[r].completed < 8, NextStep(r) = w, ~StuckWrite(r, w)
  PROVE ~Undone(r)
<1>1. saga[r].completed < 7
  <2>1. Steps[8] \notin WriteSteps
    BY NamesOfSteps DEF Steps
  <2>2. saga[r].completed \in 0..7 /\ Steps[saga[r].completed + 1] = w
    BY NextIs DEF Sound
  <2>3. saga[r].completed # 7
    BY <2>1, <2>2
  <2> QED
    BY <2>2, <2>3
<1> QED
  BY <1>1 DEF Sound, SagaInv, StuckOnceUndone, Stuck

LEMMA StepLeaves ==
  ASSUME Sound, NEW c \in Callers, CallStep(c)
  PROVE call'[c].pc # call[c].pc
BY Edges DEF CallStep, Edge, Sound

\* While a call stands still, only the world around it moves.
LEMMA StandingStill ==
  ASSUME Sound, [Next]_vars, NEW c \in Callers, call'[c] = call[c], call[c].pc # "idle"
  PROVE /\ UNCHANGED <<saga, dispatch, owned, compensated, answered, sent, adapter>>
        /\ \A d \in Callers : ~Send(d)
<1>1. ASSUME NEW d \in Callers, CallStep(d) PROVE FALSE
  <2>1. call[d].pc # "idle"
    BY <1>1, Edges DEF Sound, CallStep, Edge
  <2>2. d = c
    BY <2>1, Alone
  <2> QED
    BY <1>1, <2>2, StepLeaves
<1>2. ASSUME NEW d \in Callers, NEW r \in Requests, NEW plan \in Plans,
             NEW limited \in BOOLEAN, Execute(d, r, plan, limited)
      PROVE FALSE
  <2>1. d \in session.callers /\ call[d].pc = "idle"
    BY <1>2, ExecuteMoves DEF Sound, TypeOK
  <2>2. c \in session.callers
    BY DEF Sound, SagaInv, Called
  <2> QED
    BY <2>1, <2>2 DEF Sound, OneCaller
<1>3. \A d \in Callers : Send(d) => CallStep(d)
  BY SMTT(30) DEF CallStep
<1> QED
  BY <1>1, <1>2, <1>3, StepKinds, ApprovalFrame, ModerateFrame, ManageFrame, QuietFrame
     DEF Known, QuietStep

LEMMA KnownQuiet ==
  ASSUME Sound, [Next]_vars, NEW c \in Callers, call'[c] = call[c], call[c].pc # "idle"
  PROVE KnownNext(call[c].pc, call[c].req, call[c].op)
<1> DEFINE r == call[c].req
           op == call[c].op
<1>1. /\ UNCHANGED <<saga, dispatch, owned, answered, sent>>
      /\ \A d \in Callers : ~Send(d)
  BY StandingStill
<1>2. call[c].pc = "mark" => account'[r][op] = "GONE"
  <2> SUFFICES ASSUME call[c].pc = "mark" PROVE account'[r][op] = "GONE"
    OBVIOUS
  <2>1. InFlight(r) /\ r \in Requests /\ op \in Objects
    BY MidCall DEF Fits
  <2>2. account[r][op] = "GONE"
    BY KnownNow
  <2> QED
    BY <1>1, <2>1, <2>2, ObjectMoves
<1> QED
  BY <1>1, <1>2, KnownNow DEF KnownNext, Undone

\* BeginStep takes up a step that was never claimed and never sent.
LEMMA KnownBegun ==
  ASSUME Sound, [Next]_vars, NEW c \in Callers, BeginStep(c), call'[c].pc # "idle"
  PROVE KnownNext(call'[c].pc, call'[c].req, call'[c].op)
<1> DEFINE r == call[c].req
           op == call'[c].op
<1>1. /\ op = StepOf(c) /\ op \in StepNames /\ call'[c].req = r
      /\ Completed(r) = call[c].next /\ call[c].next < 8 /\ OpenSteps(r) = {}
      /\ call'[c].pc = IF op \in WriteSteps THEN "claim" ELSE "readback"
  BY BeginOn DEF Sound
<1>2. Known' = Known
  BY QuietFrame DEF QuietStep
<1>3. r \in Requests /\ InFlight(r)
  BY MidCall DEF BeginStep
<1>4. saga[r].completed < 8 /\ Steps[saga[r].completed + 1] = op
  BY <1>1 DEF StepOf, Completed
<1>5. CASE op \in WriteSteps
  <2>1. dispatch[r][op] # "OPEN"
    BY <1>1, <1>5 DEF OpenSteps
  <2>2. saga[r].completed + 1 \in 1..8 /\ saga[r].completed \in 0..7
    BY <1>3, <1>4, NextIs DEF Sound
  <2>3. ~(saga[r].completed + 1 <= saga[r].completed)
    BY <2>2, SMTT(30)
  <2>4. dispatch[r][op] = "NONE" /\ sent[r][op] = 0
    <3>1. dispatch[r][op] # "DONE"
      BY <1>3, <1>4, <1>5, <2>2, <2>3 DEF Sound, SagaInv, StepsInOrder
    <3>2. dispatch[r][op] \in {"NONE", "OPEN", "DONE"}
      BY <1>3, <1>5 DEF Sound, TypeOK
    <3>3. dispatch[r][op] = "NONE"
      BY <2>1, <3>1, <3>2
    <3> QED
      BY <1>3, <1>4, <1>5, <2>2, <3>3 DEF Sound, SagaInv, StepsInOrder
  <2>5. ~Undone(r)
    BY <1>3, <1>4, <1>5, <2>4, NotUndone, NextIs DEF StuckWrite, Sound
  <2>6. call'[c].pc = "claim"
    BY <1>1, <1>5
  <2> QED
    BY <1>1, <1>2, <1>4, <2>4, <2>5, <2>6 DEF KnownNext, Known, Undone, Sending
<1>6. CASE op \notin WriteSteps
  BY <1>1, <1>2, <1>4, <1>6 DEF KnownNext, Known, Sending
<1> QED
  BY <1>5, <1>6

LEMMA KnownClaimed ==
  ASSUME Sound, [Next]_vars, NEW c \in Callers,
         Claim(c) \/ AuditIntent(c) \/ Recheck(c)
  PROVE KnownNext(call'[c].pc, call'[c].req, call'[c].op)
<1> DEFINE r == call[c].req
           op == call[c].op
           p == call'[c].pc
<1>1. /\ p \in {"audit", "recheck", "send", "cancel", "rejected"}
      /\ call'[c].req = r /\ call'[c].op = op /\ call[c].pc \in {"claim", "audit", "recheck"}
  BY Edges DEF Edge, KeepsOp, Sound
<1>2. UNCHANGED <<saga, owned, answered, sent>>
  <2>1. Recheck(c) => Known' = Known
    BY QuietFrame DEF QuietStep
  <2> QED
    BY <2>1, StepFrame DEF Known
<1>3. CASE op \notin WriteSteps
  BY <1>1, <1>3 DEF KnownNext
<1>4. CASE op \in WriteSteps
  <2>1. /\ saga[r].completed < 8 /\ Steps[saga[r].completed + 1] = op
        /\ ~Undone(r) /\ sent[r][op] = 0 /\ r \in Requests
    BY <1>1, <1>4, KnownNow DEF Sending
  <2>2. p \in {"audit", "recheck", "send"} => dispatch'[r][op] = "OPEN"
    <3>1. CASE Claim(c)
      <4>1. InFlight(r) /\ NextStep(r) = op
        BY <2>1, <3>1, MidCall DEF Claim, NextStep, Completed
      <4>2. ~PassesUnclaimed(r, op)
        BY <1>4, <4>1, OperationKinds DEF PassesUnclaimed
      <4>3. p = "audit" => Proceeds(c)
        BY <3>1, ClaimMoves DEF Sound, TypeOK
      <4>4. p = "audit" => dispatch' = [dispatch EXCEPT ![r][op] = "OPEN"]
        BY <1>4, <3>1, <4>2, <4>3, ClaimDispatch DEF Sound
      <4>5. p \in {"audit", "cancel"}
        BY <3>1, Edges DEF Edge, Sound
      <4> QED
        BY <1>4, <2>1, <4>4, <4>5, DispatchSet DEF Sound
    <3>2. CASE AuditIntent(c) \/ Recheck(c)
      <4>1. call[c].pc \in {"audit", "recheck"}
        BY <3>2 DEF AuditIntent, Recheck
      <4>2. dispatch[r][op] = "OPEN"
        BY <1>4, <4>1, KnownNow
      <4>3. dispatch' = dispatch
        BY <3>2, StepFrame, QuietFrame DEF QuietStep, Known
      <4> QED
        BY <4>2, <4>3
    <3> QED
      BY <3>1, <3>2
  <2> QED
    BY <1>1, <1>2, <1>4, <2>1, <2>2, SMTT(30) DEF KnownNext, Undone
<1> QED
  BY <1>3, <1>4

\* An invocation answers the step that was next, or removes an object.
LEMMA KnownSent ==
  ASSUME Sound, [Next]_vars, NEW c \in Callers, Send(c)
  PROVE KnownNext(call'[c].pc, call'[c].req, call'[c].op)
<1> DEFINE r == call[c].req
           op == call[c].op
           p == call'[c].pc
<1>1. /\ p \in {"mark", "consume", "register", "complete", "rejected", "reconcile"}
      /\ call'[c].req = r /\ call'[c].op = op /\ call[c].pc = "send"
  BY Edges DEF Edge, KeepsOp, Sound
<1>2. UNCHANGED <<saga, dispatch, owned>> /\ answered' = answered \cup {<<r, op>>}
  BY StepFrame, SendCounts DEF Key, Sound
<1>3. /\ r \in Requests /\ op \in Operations /\ sent[r][op] = 0
      /\ op \in WriteSteps =>
           /\ saga[r].completed < 8 /\ NextStep(r) = op /\ ~Undone(r)
           /\ dispatch[r][op] = "OPEN"
  BY <1>1, SendKnown
<1>4. /\ sent'[r][op] = 1
      /\ \A o \in Objects : o # op => sent'[r][o] = sent[r][o]
  BY <1>3, SendCounts, OperationKinds DEF Key, Sound
<1>5. Fits(p, op)
  <2>1. CallOK(call'[c])
    BY CallSteady DEF CallStep, Steady, Sound
  <2> QED
    BY <1>1, <2>1 DEF CallOK
<1>6. CASE op \in WriteSteps
  <2>1. op \notin Objects
    BY <1>6, OperationKinds
  <2>2. ~\E o \in Objects : sent'[r][o] > 0
    BY <1>3, <1>4, <1>6, <2>1 DEF Undone
  <2>3. p # "mark"
    BY <1>5, <2>1 DEF Fits
  <2>4. p = "complete" => op \notin AddSteps
    <3>1. /\ call \in [Callers -> Call]
          /\ p = AfterSend(op) \/ p \in {"rejected", "reconcile"}
      BY <1>3, SendMoves DEF Sound, TypeOK
    <3>2. op \in AddSteps => AfterSend(op) # "complete"
      BY <2>1 DEF AfterSend
    <3> QED
      BY <3>1, <3>2
  <2>5. saga[r].completed < 8 /\ Steps[saga[r].completed + 1] = op /\ dispatch[r][op] = "OPEN"
    BY <1>3, <1>6 DEF NextStep, Completed
  <2> HIDE DEF r, op, p
  <2>6. KnownNext(p, r, op)
    BY <1>1, <1>2, <1>4, <2>2, <2>3, <2>4, <2>5 DEF KnownNext, Sending
  <2> QED
    BY <1>1, <2>6 DEF r, op, p
<1>7. CASE op \in Objects
  <2>1. op \notin StepNames /\ op \notin WriteSteps
    BY <1>7, OperationKinds
  <2>2. p \notin {"consume", "register", "complete"}
    BY <1>5, <2>1, OperationKinds, NamesOfSteps DEF Fits
  <2>3. account'[r][op] = "GONE"
    BY <1>7, SendEffect DEF Sound
  <2> HIDE DEF r, op, p
  <2>4. KnownNext(p, r, op)
    BY <1>1, <1>4, <2>1, <2>2, <2>3, SMTT(30) DEF KnownNext, Sending
  <2> QED
    BY <1>1, <2>4 DEF r, op, p
<1> QED
  BY <1>3, <1>6, <1>7, OperationKinds

\* The campaign's authority is used up between its answer and its registration.
LEMMA KnownConsumed ==
  ASSUME Sound, [Next]_vars, NEW c \in Callers, ConsumeAuthority(c), call'[c].pc = "register"
  PROVE KnownNext(call'[c].pc, call'[c].req, call'[c].op)
<1>1. /\ call'[c].req = call[c].req /\ call'[c].op = call[c].op /\ call[c].pc = "consume"
      /\ UNCHANGED <<saga, dispatch, answered>>
  BY Edges, StepFrame DEF Edge, KeepsOp, Sound
<1> QED
  BY <1>1, KnownNow DEF KnownNext, Sending

\* Objects that could be recorded were not, so that nothing has been undone.
LEMMA KnownRegistered ==
  ASSUME Sound, [Next]_vars, NEW c \in Callers, RegisterObjects(c), call'[c].pc = "complete"
  PROVE KnownNext(call'[c].pc, call'[c].req, call'[c].op)
<1> DEFINE r == call[c].req
           op == call[c].op
<1>1. /\ call'[c].req = r /\ call'[c].op = op /\ call[c].pc = "register"
      /\ UNCHANGED <<saga, dispatch, answered, sent>>
  BY Edges, StepFrame DEF Edge, KeepsOp, Sound
<1>2. /\ r \in Requests /\ op \in AddSteps /\ dispatch[r][op] = "OPEN"
      /\ Range(ObjectsOf[op]) \cap Range(owned[r]) = {}
      /\ owned' = [owned EXCEPT ![r] = @ \o ObjectsOf[op]]
  BY RegisterKinds, ReturnEdge DEF Sound
<1>3. Range(ObjectsOf[op]) \subseteq Range(owned'[r])
  <2>1. owned[r] \in Seq(Objects) /\ ObjectsOf[op] \in Seq(Objects)
    BY <1>2, ObjectLists, OperationKinds DEF Sound, TypeOK
  <2>2. owned'[r] = owned[r] \o ObjectsOf[op]
    BY <1>2 DEF Sound, TypeOK
  <2> QED
    BY <2>1, <2>2, RangeAppended
<1>4. /\ saga[r].completed < 8 /\ Steps[saga[r].completed + 1] = op
      /\ <<r, op>> \in answered
  BY <1>1, KnownNow
<1>5. ~Undone(r)
  <2>1. Range(ObjectsOf[op]) # {}
    BY <1>2, StepObjects, NamesOfSteps
  <2>2. ~StuckWrite(r, op)
    BY <1>2, <1>4, <2>1 DEF StuckWrite
  <2>3. InFlight(r) /\ op \in WriteSteps /\ NextStep(r) = op
    BY <1>1, <1>2, <1>4, MidCall, OperationKinds DEF NextStep, Completed
  <2> QED
    BY <1>2, <1>4, <2>2, <2>3, NotUndone
<1> HIDE DEF r, op
<1> QED
  BY <1>1, <1>2, <1>3, <1>4, <1>5 DEF KnownNext, Sending, Undone

\* A readback that succeeds has seen nothing undone.
LEMMA KnownRead ==
  ASSUME Sound, [Next]_vars, NEW c \in Callers, Readback(c), call'[c].pc = "complete"
  PROVE KnownNext(call'[c].pc, call'[c].req, call'[c].op)
<1> DEFINE r == call[c].req
           op == call[c].op
<1>1. /\ call'[c].req = r /\ call'[c].op = op /\ call[c].pc = "readback"
      /\ Known' = Known
  BY Edges, QuietFrame, SMTT(30) DEF Edge, KeepsOp, QuietStep, Sound
<1>2. /\ r \in Requests /\ InFlight(r) /\ op \in {"MODERATION_READBACK", "FULL_READBACK"}
      /\ saga[r].completed < 8 /\ Steps[saga[r].completed + 1] = op
  BY <1>1, MidCall, KnownNow DEF Fits
<1>3. op \notin WriteSteps /\ op \notin AddSteps
  BY <1>2, NamesOfSteps
<1>4. op = "MODERATION_READBACK" => ~Undone(r)
  <2> SUFFICES ASSUME op = "MODERATION_READBACK", Undone(r) PROVE FALSE
    OBVIOUS
  <2>1. NextStep(r) = op
    BY <1>2 DEF NextStep, Completed
  <2>2. saga[r].completed < 7
    <3>1. Steps[8] = "FULL_READBACK" /\ saga[r].completed \in 0..7
      BY <1>2, NextIs DEF Steps, Sound
    <3>2. saga[r].completed # 7
      BY <1>2, <3>1
    <3> QED
      BY <3>1, <3>2
  <2>3. StuckReadback(r)
    BY <1>2, <1>3, <2>1, <2>2 DEF Sound, SagaInv, StuckOnceUndone, Stuck
  <2>4. /\ ~Fails(adapter, "Ads", "get")
        /\ \A o \in Mine(r, "Ads") : account[r][o] = "MODERATION"
    BY ReadbackFails
  <2>5. PICK o \in {"ad1", "ad2"} : account[r][o] = "ON" /\ Belongs(r, o)
    BY <2>3, <2>4 DEF StuckReadback
  <2>6. o \in Mine(r, "Ads")
    BY <2>5 DEF Mine, Belongs, ServiceOf
  <2> QED
    BY <2>4, <2>5, <2>6
<1> HIDE DEF r, op
<1> QED
  BY <1>1, <1>2, <1>3, <1>4 DEF KnownNext, Sending, Undone, Known

\* The outcome a reconciliation learns is that of the next step.
LEMMA KnownReconciled ==
  ASSUME Sound, [Next]_vars, NEW c \in Callers, Reconcile(c), call'[c].pc # "idle"
  PROVE KnownNext(call'[c].pc, call'[c].req, call'[c].op)
<1> DEFINE r == call[c].req
           op == call'[c].op
           p == call'[c].pc
<1>1. /\ p \in {"resume", "settle", "start", "begin", "consume", "register", "complete", "unknown"}
      /\ call'[c].req = r /\ Known' = Known /\ call[c].pc = "reconcile"
  BY Edges, QuietFrame DEF Edge, QuietStep, Sound
<1>2. CASE p \notin {"consume", "register", "complete"}
  BY <1>1, <1>2 DEF KnownNext, Sending
<1>3. CASE p \in {"consume", "register", "complete"}
  <2>1. /\ r \in Requests /\ op \in WriteSteps /\ dispatch[r][op] = "OPEN"
        /\ p = Outcome(r, op)
    BY <1>3, ReconcileOn DEF Sound
  <2>2. <<r, op>> \in answered /\ p = AfterSend(op)
    BY <1>3, <2>1 DEF Outcome
  <2>3. /\ saga[r].completed < 8 /\ Steps[saga[r].completed + 1] = op /\ NextStep(r) = op
    BY <2>1, OpenIsNext
  <2>4. p = "complete" => op \notin AddSteps
    BY <2>1, <2>2, OperationKinds DEF AfterSend
  <2>5. p = "complete" => ~Undone(r)
    <3>1. InFlight(r)
      BY <1>1, MidCall
    <3> QED
      BY <2>1, <2>2, <2>3, <2>4, <3>1, NotUndone DEF StuckWrite
  <2> HIDE DEF r, op, p
  <2>6. KnownNext(p, r, op)
    BY <1>1, <1>3, <2>1, <2>2, <2>3, <2>4, <2>5 DEF KnownNext, Sending, Undone, Known
  <2> QED
    BY <1>1, <2>6 DEF r, op, p
<1> QED
  BY <1>2, <1>3

LEMMA KnownStep == ASSUME Sound, [Next]_vars PROVE StepsKnown'
<1> SUFFICES ASSUME NEW c \in Callers, call'[c].pc # "idle"
             PROVE KnownNext(call'[c].pc, call'[c].req, call'[c].op)
  BY DEF StepsKnown, InOrder, KnownNext, NextStep, Completed, Undone
<1> DEFINE p == call'[c].pc
<1>1. CASE call'[c] = call[c]
  BY <1>1, KnownQuiet
<1>2. CASE CallStep(c)
  <2>1. CASE p \in {"start", "pending", "resume", "begin", "rejected", "reconcile", "unknown",
                    "failed", "compensate", "settle"}
    BY <2>1 DEF KnownNext, Sending
  <2>2. CASE BeginStep(c)
    BY <2>2, KnownBegun
  <2>3. CASE Claim(c) \/ AuditIntent(c) \/ Recheck(c)
    BY <2>3, KnownClaimed
  <2>4. CASE Send(c)
    BY <2>4, KnownSent
  <2>5. CASE ConsumeAuthority(c) /\ p = "register"
    BY <2>5, KnownConsumed
  <2>6. CASE RegisterObjects(c) /\ p = "complete"
    BY <2>6, KnownRegistered
  <2>7. CASE Readback(c) /\ p = "complete"
    BY <2>7, KnownRead
  <2>8. CASE Reconcile(c)
    BY <2>8, KnownReconciled
  <2>9. CASE DeleteNext(c) /\ p = "claim"
    <3>1. call'[c].op \notin WriteSteps
      BY <2>9, DeleteOn, OperationKinds DEF Sound
    <3> QED
      BY <2>9, <3>1 DEF KnownNext
  <2> QED
    BY <1>2, <2>1, <2>2, <2>3, <2>4, <2>5, <2>6, <2>7, <2>8, <2>9, NoRepeat, Edges
       DEF CallStep, Edge, Sound
<1>3. CASE Crash(c)
  BY <1>3, ReturnEdge DEF Crash, Sound
<1>4. CASE p = "start"
  BY <1>4 DEF KnownNext, Sending
<1> QED
  BY <1>1, <1>2, <1>3, <1>4, CallMoves, SMTT(30) DEF Sound

-----------------------------------------------------------------------------
(* One call at a time: a compensation knows what is left of its run.       *)

LEMMA KeepsQueue ==
  ASSUME TypeOK, NEW c \in Callers,
         \/ Claim(c) \/ AuditIntent(c) \/ Recheck(c) \/ CancelClaim(c) \/ FailSend(c)
         \/ Send(c) \/ MarkCompensated(c)
  PROVE SameQueue(c)
<1>1. CASE Claim(c)
  BY <1>1, ClaimMoves, SMTT(30) DEF TypeOK
<1>2. CASE Send(c)
  BY <1>2, SendMoves, SendingCall DEF TypeOK, Send
<1>3. CASE AuditIntent(c) \/ Recheck(c) \/ CancelClaim(c) \/ FailSend(c) \/ MarkCompensated(c)
  <2>1. \E p \in Points : Goto(c, p)
    BY <1>3 DEF AuditIntent, Recheck, CancelClaim, FailSend, MarkCompensated, Points
  <2> QED
    BY <2>1, GotoMoves, SMTT(30) DEF TypeOK
<1> QED
  BY <1>1, <1>2, <1>3

\* During a compensation objects only go.
LEMMA OnlyGoes ==
  ASSUME Sound, [Next]_vars, NEW c \in Callers, Compensating(c), NEW o \in Objects,
         account'[call[c].req][o] # "GONE"
  PROVE account[call[c].req][o] # "GONE"
<1>1. /\ call[c].pc # "idle" /\ call[c].req \in Requests
  BY CompensatingOn
<1>2. ASSUME NEW d \in Callers, Send(d), call[d].op \in AddSteps PROVE FALSE
  <2>1. d = c
    BY <1>1, <1>2, Alone DEF Send
  <2> QED
    BY <1>2, <2>1, OperationKinds DEF Compensating, Send, Sending
<1> QED
  BY <1>1, <1>2, ObjectMoves

\* What is left of a run whose compensation begins is recorded.
LEMMA LeftIsCreated ==
  ASSUME Sound, NEW c \in Callers, Compensating(c), NEW o \in Objects,
         account[call[c].req][o] # "GONE"
  PROVE o \in CreatedObjects(call[c].req)
<1> DEFINE r == call[c].req
<1>1. r \in Requests /\ Stuck(r)
  BY CompensatingOn
<1>2. PICK step \in AddSteps : o \in Range(ObjectsOf[step])
  BY StepOfObject
<1>3. step \in WriteSteps /\ step \in Operations /\ step \in StepNames
  BY OperationKinds
<1>4. <<r, step>> \in answered
  BY <1>1, <1>2 DEF Sound, SagaInv, ObjectsFromAnswers
<1>5. PICK i \in 1..8 : Steps[i] = step
  BY <1>3, StepIndex
<1>6. dispatch[r][step] # "NONE"
  <2>1. sent[r][step] > 0
    BY <1>1, <1>3, <1>4 DEF Sound, SendInv, AnswersSent
  <2> QED
    BY <1>1, <1>3, <1>5, <2>1, SentInOrder
<1>7. CASE dispatch[r][step] = "DONE"
  <2>1. o \in Range(owned[r])
    BY <1>1, <1>2, <1>7 DEF Sound, SagaInv, ObjectsFromAnswers
  <2> QED
    BY <1>1, <2>1 DEF CreatedObjects, Sound, SagaInv, CompensatedGone
<1>8. CASE dispatch[r][step] = "OPEN"
  <2>1. saga[r].completed < 7 /\ NextStep(r) = step
    BY <1>1, <1>3, <1>8, OpenIsNext
  <2>2. StuckWrite(r, step)
    BY <1>1, <1>3, <2>1 DEF Stuck
  <2>3. o \in Range(owned[r])
    BY <1>2, <1>4, <2>2 DEF StuckWrite
  <2> QED
    BY <1>1, <2>3 DEF CreatedObjects, Sound, SagaInv, CompensatedGone
<1>9. dispatch[r][step] \in {"NONE", "OPEN", "DONE"}
  BY <1>1, <1>3 DEF Sound, TypeOK
<1> QED
  BY <1>6, <1>7, <1>8, <1>9

CoversNext(k, r) == \A o \in Objects : account'[r][o] # "GONE" =>
  \/ o \in k.queue
  \/ o = k.op /\ k.pc \notin {"compensate", "mark"}

LEMMA CoverStep == ASSUME Sound, [Next]_vars PROVE QueueCovers'
<1> SUFFICES ASSUME NEW c \in Callers, Compensating(c)', call'[c].pc # "failed",
                    call'[c].missed = FALSE
             PROVE CoversNext(call'[c], call'[c].req)
  <2>1. \A c \in Callers : call'[c] \in Call
    BY TypeStep DEF Sound, TypeOK
  <2>2. \A c \in Callers : call'[c].missed \in BOOLEAN
    BY <2>1, CallFields
  <2> QED
    BY <2>2 DEF QueueCovers, CoversNext
<1> DEFINE r == call[c].req
           k == call[c]
           n == call'[c]
<1>0. n.pc # "failed" /\ n.missed = FALSE
  OBVIOUS
<1>1. Compensating(c) /\ n.req = r
  BY CompensatingArrives
<1> SUFFICES CoversNext(n, r)
  BY <1>1
<1>2. /\ r \in Requests /\ k.pc \notin {"idle", "start", "settle"}
      /\ k.missed \in BOOLEAN
  BY <1>1, CompensatingOn, CallFields, ActiveCall DEF Sound, TypeOK
<1>3. ASSUME NEW o \in Objects, account'[r][o] # "GONE"
      PROVE /\ account[r][o] # "GONE" /\ o \in CreatedObjects(r)
            /\ k.pc # "failed" /\ ~k.missed =>
                 o \in k.queue \/ (o = k.op /\ k.pc \notin {"compensate", "mark"})
  BY <1>1, <1>2, <1>3, OnlyGoes, LeftIsCreated DEF Sound, SagaInv, QueueCovers
<1>4. CASE n = k
  <2> HIDE DEF n, k
  <2> QED
    BY <1>0, <1>3, <1>4 DEF CoversNext
<1>5. CASE FailSaga(c)
  <2>1. CreatedObjects(r) \in SUBSET Objects
    BY <1>2 DEF CreatedObjects, Range, Sound, TypeOK
  <2>2. n.pc = "compensate"
    BY <1>5, Edges DEF Edge, Compensating, Sending, Sound
  <2>3. n.queue = CreatedObjects(r)
    BY <1>5, <2>1, <2>2, FailSagaMoves DEF Sound, TypeOK
  <2> HIDE DEF n, k, r
  <2> QED
    BY <1>0, <1>3, <2>3 DEF CoversNext
<1>6. CASE DeleteNext(c)
  <2>1. /\ n.op \in k.queue /\ n.queue = k.queue \ {n.op} /\ n.missed = k.missed
        /\ n.pc \in {"claim", "rejected"} /\ k.pc = "compensate"
    BY <1>6, DeleteOn DEF DeleteNext, Sound
  <2> HIDE DEF n, k, r
  <2> QED
    BY <1>0, <1>3, <2>1 DEF CoversNext
<1>7. CASE Rejected(c)
  <2>1. n.missed = TRUE
    BY <1>7, RejectedMoves, NoCallIdle, CompensatingArrives DEF Sound, TypeOK, Compensating, Sending
  <2> QED
    BY <2>1
<1>8. CASE MarkCompensated(c)
  <2>1. n.queue = k.queue /\ n.missed = k.missed /\ k.pc = "mark"
    BY <1>8, KeepsQueue DEF SameQueue, MarkCompensated, Sound
  <2> HIDE DEF n, k, r
  <2> QED
    BY <1>0, <1>3, <2>1 DEF CoversNext
<1>9. CASE Claim(c) \/ AuditIntent(c) \/ Recheck(c) \/ CancelClaim(c) \/ FailSend(c) \/ Send(c)
  <2>1. n.queue = k.queue /\ n.missed = k.missed
    BY <1>9, KeepsQueue DEF SameQueue, Sound
  <2>2. /\ n.op = k.op /\ k.pc \in Sending \cup {"cancel"}
        /\ n.pc \in Sending \cup {"cancel", "rejected", "mark"}
    BY <1>9, Edges DEF Edge, KeepsOp, Compensating, Sending, Sound
  <2>3. k.op \in Objects
    BY <1>1, <2>2 DEF Compensating, Sending
  <2>4. n.pc = "mark" => account'[r][n.op] = "GONE"
    <3>1. n.pc = "mark" => Send(c)
      BY <1>9, Edges DEF Edge, Sound
    <3> QED
      BY <2>2, <2>3, <3>1, SendEffect DEF Sound
  <2> HIDE DEF n, k, r
  <2> QED
    BY <1>0, <1>3, <2>1, <2>2, <2>4 DEF CoversNext, Sending
<1>10. ASSUME CallStep(c)
       PROVE \/ FailSaga(c) \/ DeleteNext(c) \/ Rejected(c) \/ MarkCompensated(c)
             \/ Claim(c) \/ AuditIntent(c) \/ Recheck(c) \/ CancelClaim(c) \/ FailSend(c)
             \/ Send(c)
  <2>1. CASE k.pc \in {"failed", "compensate", "mark"}
    BY <1>10, <2>1, Edges DEF CallStep, Edge, Compensating, Sending, Sound
  <2>2. CASE k.pc \in Sending \cup {"cancel", "rejected"}
    BY <1>10, <2>2, Edges, NoRepeat DEF CallStep, Edge, Compensating, Sending, Sound
  <2> QED
    BY <1>1, <2>1, <2>2 DEF Compensating
<1>11. ~Crash(c) /\ n.pc # "start"
  BY ReturnEdge DEF Crash, Compensating, Sending, Sound
<1> QED
  BY <1>4, <1>5, <1>6, <1>7, <1>8, <1>9, <1>10, <1>11, CallMoves DEF Sound

\* A saga says it was compensated only when its compensation has missed nothing, and
\* nothing is sent for it afterwards.
LEMMA CompensatedStep == ASSUME Sound, [Next]_vars PROVE CompensatedIsGone'
<1> SUFFICES ASSUME NEW r \in Requests, saga'[r].status = "PARTIALLY_APPLIED",
                    NEW o \in Objects
             PROVE account'[r][o] = "GONE"
  BY DEF CompensatedIsGone
<1>1. CASE saga[r].status = "PARTIALLY_APPLIED"
  <2>1. account[r][o] = "GONE"
    BY <1>1, SMTT(30) DEF Sound, SagaInv, CompensatedIsGone
  <2>2. ASSUME NEW c \in Callers, Send(c), call[c].req = r PROVE FALSE
    BY <1>1, <2>2, SendKnown DEF InFlight, Send
  <2> QED
    BY <2>1, <2>2, ObjectMoves
<1>2. CASE saga[r].status # "PARTIALLY_APPLIED"
  <2>1. PICK c \in Callers : Finishes(c) /\ call[c].req = r
    BY <1>2, SagaMoves DEF Sound
  <2>2. FinishCompensation(c) /\ ~call[c].missed
    <3>1. saga \in [Requests -> SagaRow] /\ saga' # saga
      BY <1>2 DEF Sound, TypeOK
    <3>2. ASSUME NEW status \in Terminal, FinishSaga(r, status) PROVE status = "PARTIALLY_APPLIED"
      BY <3>1, <3>2, FinishMoves
    <3>3. \/ FinishSaga(r, "UNKNOWN_RESULT") \/ FinishSaga(r, "FAILED")
          \/ FinishSaga(r, "APPLIED")
          \/ /\ FinishCompensation(c)
             /\ FinishSaga(r, CompensationOutcome(call[c].missed))
      BY <2>1, <3>1 DEF Finishes, FinishUnknown, FailSaga, FinishCompensation, Settle
    <3> QED
      BY <3>2, <3>3 DEF Terminal, CompensationOutcome
  <2>3. Compensating(c) /\ call[c].pc = "compensate" /\ call[c].queue = {}
    BY <2>2 DEF FinishCompensation, Compensating
  <2>4. account[r][o] = "GONE"
    BY <2>1, <2>2, <2>3 DEF Sound, SagaInv, QueueCovers
  <2>5. account' = account
    BY <2>2, StepFrame
  <2> QED
    BY <2>4, <2>5
<1> QED
  BY <1>1, <1>2

-----------------------------------------------------------------------------
(* The theorems about one call at a time.                                  *)

LEMMA SagaInit == Init => SagaInv
<1> SUFFICES ASSUME Init PROVE SagaInv
  OBVIOUS
<1>1. /\ \A r \in Requests : /\ saga[r].status = "NONE" /\ saga[r].completed = 0
                             /\ owned[r] = <<>> /\ compensated[r] = {}
      /\ \A r \in Requests, w \in WriteSteps : dispatch[r][w] = "NONE"
      /\ \A r \in Requests, o \in Objects : account[r][o] = "GONE"
      /\ \A r \in Requests, op \in Operations : sent[r][op] = 0
      /\ answered = {}
      /\ \A c \in Callers : call[c].pc = "idle"
  BY NoCallIdle DEF Init
<1>2. Called /\ Flying /\ StepsKnown
  BY <1>1 DEF Called, Flying, StepsKnown
<1>3. StepsInOrder
  <2>1. \A i \in 1..8 : ~(i <= 0)
    OBVIOUS
  <2> QED
    BY <1>1, <2>1, OperationKinds DEF StepsInOrder
<1>4. ObjectsFromAnswers
  <2> SUFFICES ASSUME NEW r \in Requests, NEW step \in AddSteps, NEW o \in Range(ObjectsOf[step])
               PROVE account[r][o] = "GONE" /\ Range(owned[r]) = {} /\ dispatch[r][step] = "NONE"
    BY <1>1 DEF ObjectsFromAnswers
  <2> QED
    BY <1>1, ObjectLists, OperationKinds DEF Range
<1>5. CompensatedGone /\ Submitted /\ CompensatedIsGone
  BY <1>1 DEF CompensatedGone, Submitted, CompensatedIsGone
<1>6. StuckOnceUndone /\ QueueCovers
  <2>1. \A c \in Callers : ~Compensating(c)
    BY <1>1 DEF Compensating, Sending
  <2> QED
    BY <1>1, <2>1 DEF StuckOnceUndone, QueueCovers, InFlight
<1> QED
  BY <1>2, <1>3, <1>4, <1>5, <1>6 DEF SagaInv

LEMMA SagaStep == ASSUME Sound, [Next]_vars PROVE SagaInv'
BY CalledStep, FlyingStep, OrderStep, AnswersStep, GoneStep, SubmittedStep, StuckStep,
   KnownStep, CoverStep, CompensatedStep DEF SagaInv

LEMMA SoundInvariant == Spec => [](OneCaller => Sound)
<1> DEFINE J == TypeOK /\ SendInv /\ AuthorityInv /\ (OneCaller => SagaInv)
<1>1. Init => J
  BY TypeInit, SendInit, AuthorityInit, SagaInit
<1>2. J /\ [Next]_vars => J'
  <2> SUFFICES ASSUME J, [Next]_vars PROVE J'
    OBVIOUS
  <2>1. TypeOK' /\ SendInv' /\ AuthorityInv'
    BY TypeStep, SendStep, AuthorityStep
  <2>2. ASSUME OneCaller' PROVE SagaInv'
    <3>1. OneCaller
      BY <2>2, StepKinds DEF OneCaller
    <3>2. Sound
      BY <3>1 DEF Sound
    <3> QED
      BY <3>2, SagaStep
  <2> QED
    BY <2>1, <2>2
<1>3. J => (OneCaller => Sound)
  BY DEF Sound
<1> QED
  BY <1>1, <1>2, <1>3, PTL DEF Spec

\* However often a single caller of execute is restarted, crashes or times out, an
\* object it has on the account is recorded as its run's or sits under an open
\* dispatch that a reconciliation finds.
THEOREM NoLostObjectHolds == Spec => []NoLostObject
<1>1. ASSUME OneCaller => Sound PROVE NoLostObject
  <2> SUFFICES ASSUME Sound, NEW r \in Requests, NEW step \in AddSteps,
                      NEW o \in Range(ObjectsOf[step]), account[r][o] # "GONE"
               PROVE Belongs(r, o) \/ dispatch[r][step] = "OPEN"
    BY <1>1 DEF NoLostObject
  <2>1. step \in WriteSteps /\ step \in Operations /\ step \in StepNames
    BY OperationKinds
  <2>2. PICK i \in 1..8 : Steps[i] = step
    BY <2>1, StepIndex
  <2>3. sent[r][step] > 0
    BY <2>1 DEF Sound, SagaInv, ObjectsFromAnswers, SendInv, AnswersSent
  <2>4. dispatch[r][step] \in {"OPEN", "DONE"}
    <3>1. dispatch[r][step] # "NONE"
      BY <2>1, <2>2, <2>3, SentInOrder
    <3>2. dispatch[r][step] \in {"NONE", "OPEN", "DONE"}
      BY <2>1 DEF Sound, TypeOK
    <3> QED
      BY <3>1, <3>2
  <2>5. CASE dispatch[r][step] = "DONE"
    BY <2>5 DEF Sound, SagaInv, ObjectsFromAnswers, CompensatedGone, Belongs, CreatedObjects
  <2> QED
    BY <2>4, <2>5
<1> QED
  BY <1>1, SoundInvariant, PTL

\* With a single caller of execute, a saga that reports its compensation has left no
\* object on the account, and none appears later.
THEOREM CompensatedIsGoneHolds == Spec /\ OneCaller => []CompensatedIsGone
<1>1. OneCaller /\ [Next]_vars => OneCaller'
  BY StepKinds DEF OneCaller
<1>2. Sound => CompensatedIsGone
  BY DEF Sound, SagaInv
<1> QED
  BY <1>1, <1>2, SoundInvariant, PTL DEF Spec

\* With a single caller of execute, a campaign is resumed only when all of the
\* plan's objects are on the account and recorded.
THEOREM LaunchIsWholeHolds == Spec => LaunchIsWhole
<1>1. ASSUME Sound, [Next]_vars, NEW r \in Requests, NEW o \in Objects,
             sent[r]["CAMPAIGN_LAUNCH"]' # sent[r]["CAMPAIGN_LAUNCH"]
      PROVE Belongs(r, o) /\ account[r][o] # "GONE"
  <2>1. "CAMPAIGN_LAUNCH" \in WriteSteps /\ "CAMPAIGN_LAUNCH" \in Operations
    BY NamesOfSteps, OperationKinds
  <2>2. PICK c \in Callers : /\ call[c].pc = "send" /\ call[c].req = r
                             /\ call[c].op = "CAMPAIGN_LAUNCH"
    BY <1>1, <2>1, SentMoves DEF Sound
  <2>3. /\ InFlight(r) /\ ~Undone(r)
        /\ saga[r].completed < 8 /\ NextStep(r) = "CAMPAIGN_LAUNCH"
    BY <1>1, <2>1, <2>2, SendKnown
  <2>4. saga[r].completed = 6
    <3>1. Steps[7] = "CAMPAIGN_LAUNCH" /\ 7 \in 1..8
      BY DEF Steps
    <3>2. 7 = saga[r].completed + 1 /\ saga[r].completed \in 0..7
      BY <1>1, <2>3, <3>1, NextIs DEF Sound
    <3> QED
      BY <3>2
  <2>5. PICK step \in AddSteps : o \in Range(ObjectsOf[step])
    BY StepOfObject
  <2>6. PICK i \in 1..8 : Steps[i] = step
    BY OperationKinds, StepIndex
  <2>7. i <= saga[r].completed
    <3>1. i <= 4
      BY <2>6, StepNumbers
    <3> QED
      BY <2>4, <3>1
  <2>8. dispatch[r][step] = "DONE" /\ <<r, step>> \in answered
    <3>1. step \in WriteSteps
      BY OperationKinds
    <3>2. dispatch[r][step] = "DONE"
      BY <1>1, <2>6, <2>7, <3>1 DEF Sound, SagaInv, StepsInOrder
    <3> QED
      BY <1>1, <2>6, <3>1, <3>2 DEF Sound, SagaInv, StepsInOrder
  <2>9. o \in Range(owned[r]) /\ account[r][o] # "GONE"
    BY <1>1, <2>3, <2>5, <2>8 DEF Sound, SagaInv, ObjectsFromAnswers, Undone
  <2>10. o \notin compensated[r]
    BY <1>1, <2>9 DEF Sound, SagaInv, CompensatedGone
  <2> QED
    BY <1>1, <2>9, <2>10 DEF Belongs, CreatedObjects
<1>2. (OneCaller => Sound) /\ [Next]_vars =>
        [OneCaller => \A r \in Requests :
           sent[r]["CAMPAIGN_LAUNCH"]' # sent[r]["CAMPAIGN_LAUNCH"] =>
             \A o \in Objects : Belongs(r, o) /\ account[r][o] # "GONE"]_vars
  BY <1>1
<1> QED
  BY <1>2, SoundInvariant, PTL DEF Spec, LaunchIsWhole

=============================================================================
