----------------------- MODULE PackageDispatchProofs -----------------------
(***************************************************************************)
(* Proofs about the dispatch of packages, for any packages, requests,      *)
(* faults and provider, as long as no two requests dispatch one package.   *)
(*                                                                         *)
(* An item then has at most one worker, and only that worker touches its   *)
(* row and its objects, so the proof is local: what a worker knows, what   *)
(* its row says and what the provider has of the item (Local, RecordSound, *)
(* ObjectSound) are kept by each of its steps (Before, After), and the     *)
(* steps of all others leave them alone (StepFrame).  Two more layers rest *)
(* on it: what holds while the journal can be written (Kept), and what     *)
(* holds when, besides, no resumed item is answered with a bare exception  *)
(* (Safe).                                                                 *)
(***************************************************************************)
EXTENDS PackageDispatch, WellFoundedInduction, TLAPS

TypeOK ==
  /\ rows \in [Executions -> DirectExecutionRecord]
  /\ lock \in AccountLock
  /\ account \in [Executions -> Objects]
  /\ worker \in [Workers -> Worker]
  /\ faults \subseteq FaultKinds
  /\ begun \subseteq Documents
  /\ items \in [Executions -> Item]
  /\ request \in [Workers -> Request]
  /\ plan \in [Documents -> Seq(Executions)]
  /\ \A c, d \in Documents : \A m \in DOMAIN plan[c], n \in DOMAIN plan[d] :
       plan[c][m] = plan[d][n] => c = d /\ m = n

-----------------------------------------------------------------------------
(* Who works on what.                                                      *)

ItemPoints == {"preflight", "insert", "run"}
Dispatching == {"begin", "head"} \cup ItemPoints
Polling == {"poll", "observe"}

OneDispatch == \A v, w \in Workers :
  v # w /\ request[v].pc \in Dispatching /\ request[w].pc \in Dispatching
    => request[v].doc # request[w].doc

RequestSound(w) ==
  /\ request[w].pc # "idle" => request[w].doc \in Documents
  /\ request[w].pc = "idle" => request[w].doc = None
  /\ request[w].pc \in ItemPoints \cup Polling =>
       request[w].item \in ItemsOf(request[w].doc)
  /\ request[w].pc \in ItemPoints => items[request[w].item].status = "DISPATCHING"
  /\ request[w].pc \in Polling => items[request[w].item].status \notin Active
  /\ request[w].pc \in Polling /\ request[w].current =>
       items[request[w].item].status \in Pollable
  /\ request[w].pc = "insert" => rows[request[w].item].status = "ABSENT"
  /\ worker[w].pc = "idle" <=> request[w].pc # "run"
  /\ worker[w].item = IF request[w].pc = "run" THEN request[w].item ELSE None

Exclusive == OneDispatch /\ \A w \in Workers : RequestSound(w)

-----------------------------------------------------------------------------
(* What the provider has, and what a record may say of it.                 *)

Verified(o) == o.state = "SUSPENDED" /\ \A op \in Adds : o.count[op] > 0

AdTrue(ad, o) == ad # None =>
  /\ Verified(o)
  /\ ad = "ACCEPTED" => o.ad = "ACCEPTED"
  /\ ad = "REJECTED" => o.ad = "REJECTED"
  /\ ad = "MODERATION" => o.ad \in {"MODERATION", "ACCEPTED", "REJECTED"}

ObjectSound(o) ==
  /\ \A op \in Adds : o.count[op] <= 1
  /\ o.state = "ON" => o.count["campaigns.add"] > 0

\* an object was added only if the record has it, or has its intent
Known(rec, o) == \A op \in Adds : o.count[op] > 0 => op \in rec.ids \/ rec.pending = op

RecordSound(rec, o) ==
  /\ rec.status \in {"ABSENT", "BLANK"} => rec.pending = None /\ rec.ids = {}
  /\ Known(rec, o)
  /\ rec.ad # None => /\ rec.status \in TerminalSuccess \cup {"SYSTEM_FAILED"}
                      /\ rec.pending = None
                      /\ ~rec.unattempted
  /\ AdTrue(rec.ad, o)
  /\ rec.status \in TerminalSuccess =>
       Verified(o) /\ rec.pending = None /\ rec.containment = None

-----------------------------------------------------------------------------
(* What a worker v knows: of its row r, of the objects o, of the lock l.   *)

Owning == Points \ {"idle", "acquire", "claim", "answered"}
Creating == {"open", "intend", "send", "lost", "confirm", "probe", "read", "progress",
             "contain", "contained", "finish", "release", "close"}
Answering == {"hold", "unlock", "answered"}

Standing(v, r) ==
  /\ v.pc \in {"claim", "reconcile"} => v.rec = r
  /\ v.pc = "reconcile" => v.rec.pending # None
  /\ v.pc = "send" => r = v.rec /\ v.rec.status = "OPEN"
  /\ v.pc \in {"unlock", "release"} => r.pending = None

Opening(v) ==
  /\ v.pc \in {"acquire", "claim", "reconcile", "open"} =>
       v.at = 1 /\ v.steps = {} /\ v.err = None /\ ~v.containing
  /\ v.pc \notin {"contained", "close"} /\ ~v.containing => v.err = None
  /\ v.pc = "open" =>
       /\ v.rec.pending = None /\ v.rec.ad = None
       /\ v.rec.status \in {"BLANK", "SYSTEM_FAILED"} => v.rec.ids = {}

AtStage(v) ==
  /\ v.pc \in {"intend", "send", "lost", "confirm"} => Operation(v) \in Mutations
  /\ v.pc = "confirm" => Operation(v) = "campaigns.suspend"
  /\ v.pc = "read" => Stages[v.at] \in {"graph", "final"}
  /\ v.pc = "probe" => Stages[v.at] = "campaigns.suspend"
  /\ v.pc \in {"probe", "read", "progress", "finish", "release"} => ~v.containing
  /\ v.pc = "contain" => v.containing
  /\ v.pc \in Creating /\ v.at > 1 => "campaigns.add" \in v.rec.ids
  /\ v.pc \in {"intend", "send"} /\ Operation(v) \in Adds => Operation(v) \notin v.rec.ids

Pending(v) ==
  /\ v.pc \in {"send", "lost", "confirm"} => v.rec.pending = Operation(v)
  /\ v.pc \in {"intend", "probe", "read"} /\ ~v.containing => v.rec.pending = None
  /\ v.pc = "progress" => v.rec.pending \in {None, Stages[v.at]}
  /\ v.pc \in {"finish", "release"} => /\ v.rec.pending = None
                                       /\ v.rec.containment = None
                                       /\ v.rec.status \in TerminalSuccess

AdKnown(v) ==
  /\ v.pc \notin {"contained", "close"} => v.containment = None
  /\ v.rec.ad # None =>
       /\ v.pc \in {"claim", "progress", "finish", "release", "contained", "close"}
       /\ v.pc = "progress" => v.at = 8
       /\ v.pc = "close" => v.err = "plain" /\ v.rec.pending = None /\ v.containment = None

Effected(v, o) ==
  /\ v.pc \in {"open", "finish"} => RecordSound(v.rec, o)
  /\ v.pc \in Creating => Known(v.rec, o)
  /\ v.pc = "send" /\ Operation(v) \in Adds => o.count[Operation(v)] = 0
  /\ v.err \in {"rejected", "unattempted"} /\ v.rec.pending \in Adds =>
       o.count[v.rec.pending] = 0
  /\ "NON_SERVING_CONFIRMED" \in v.steps =>
       "campaigns.add" \in v.rec.ids /\ o.state # "ON"
  /\ v.pc = "progress" /\ Stages[v.at] = "campaigns.suspend" => o.state = "SUSPENDED"
  /\ AdTrue(v.rec.ad, o)
  /\ v.pc \in {"finish", "release"} => Verified(o)
  /\ v.pc = "progress" /\ v.at = 8 => Verified(o)

Answered(v, r, o) == v.pc \in Answering =>
  /\ AdTrue(v.outcome.ad, o)
  /\ v.outcome.ad # None =>
       v.outcome.status \in TerminalSuccess \cup {"SYSTEM_FAILED"} /\ r.pending = None
  /\ v.outcome.status \in TerminalSuccess => Verified(o) /\ r.pending = None
  /\ v.outcome.status # "OUTCOME_UNKNOWN"

Local(v, r, o, l) ==
  /\ v.pc \in Owning => l.holder = v.item
  /\ Standing(v, r) /\ Opening(v) /\ AtStage(v) /\ Pending(v) /\ AdKnown(v)
  /\ Effected(v, o) /\ Answered(v, r, o)

WorkerSound(w) == worker[w].pc # "idle" =>
  Local(worker[w], rows[worker[w].item], account[worker[w].item], lock)

ItemSound(e) ==
  /\ ObjectSound(account[e])
  /\ RecordSound(rows[e], account[e])
  /\ items[e].containment \in Unresolved => items[e].status = "RECONCILIATION_REQUIRED"
  /\ items[e].status \in Pollable => Verified(account[e]) /\ rows[e].pending = None

Sound == /\ Exclusive
         /\ \A w \in Workers : WorkerSound(w)
         /\ \A e \in Executions : ItemSound(e)
         /\ OutcomesAreTrue

-----------------------------------------------------------------------------
(* The stages.                                                             *)

\* A stage is one of the six mutations, each at its place, or a read of the graph.
LEMMA StageNames ==
  /\ Len(Stages) = 8
  /\ \A n \in 1..8 :
       /\ Stages[n] \in Mutations \cup {"graph", "final"}
       /\ Stages[n] = "campaigns.add" <=> n = 1
       /\ Stages[n] = "campaigns.suspend" <=> n = 2
       /\ Stages[n] = "final" <=> n = 8
<1>1. Len(Stages) = 8
  BY DEF Stages
<1>2. /\ Stages[1] = "campaigns.add" /\ Stages[2] = "campaigns.suspend"
      /\ Stages[3] = "adgroups.add" /\ Stages[4] = "keywords.add" /\ Stages[5] = "ads.add"
      /\ Stages[6] = "graph" /\ Stages[7] = "ads.moderate" /\ Stages[8] = "final"
  BY DEF Stages
<1>3. ASSUME NEW n \in 1..8
      PROVE  n = 1 \/ n = 2 \/ n = 3 \/ n = 4 \/ n = 5 \/ n = 6 \/ n = 7 \/ n = 8
  BY <1>3
<1>. QED
  BY <1>1, <1>2, <1>3 DEF Mutations, Adds

\* null is none of the names a field may have.
LEMMA NoneIsNoName ==
  /\ None \notin Mutations /\ None \notin Adds /\ None \notin Unresolved
  /\ None \notin AdStatuses /\ None \notin Errors /\ None \notin Executions
  /\ None \notin {"OFF", "ON", "SUSPENDED", "NOT_CREATED", "CONFIRMED_SUSPENDED",
                  "NON_SERVING_CONFIRMED"}
  /\ None \notin Documents
BY NoneAssumption, DirectAssumption, PlanAssumption DEF Mutations, Steps

-----------------------------------------------------------------------------
(* The values that workers pass through.                                   *)

LEMMA StartTypes ==
  /\ NewRecord \in DirectExecutionRecord /\ BlankRecord \in DirectExecutionRecord
  /\ Exception \in Outcome /\ Ambiguous \in Outcome
  /\ Idle \in Worker
<1>1. NewRecord \in DirectExecutionRecord /\ BlankRecord \in DirectExecutionRecord
  BY DEF NewRecord, BlankRecord, DirectExecutionRecord, Statuses, Containments
<1>2. Exception \in Outcome /\ Ambiguous \in Outcome
  BY DEF Exception, Ambiguous, Outcome, TerminalFailure, Containments
<1>. QED
  BY <1>1, <1>2, StartAssumption

LEMMA LockValues ==
  /\ Free \in AccountLock /\ Free.holder = None
  /\ \A e \in Executions : Lease(e) \in AccountLock /\ Lease(e).holder = e
BY DEF AccountLock, Free, Lease

\* Become and AnswerAt give worker w its next state and leave the others alone.
LEMMA BecomeNext ==
  ASSUME NEW w \in Workers, NEW n \in Worker, worker \in [Workers -> Worker], Become(w, n)
  PROVE  /\ worker' \in [Workers -> Worker]
         /\ worker'[w] = n
         /\ \A u \in Workers \ {w} : worker'[u] = worker[u]
BY DEF Become

LEMMA AnswerNext ==
  ASSUME NEW w \in Workers, NEW point \in {"hold", "unlock", "answered"}, NEW o \in Outcome,
         worker \in [Workers -> Worker], AnswerAt(w, point, o)
  PROVE  /\ worker' \in [Workers -> Worker]
         /\ \A u \in Workers \ {w} : worker'[u] = worker[u]
         /\ worker'[w].pc = point /\ worker'[w].item = worker[w].item
         /\ worker'[w].outcome = o
         /\ worker'[w].rec = NewRecord /\ worker'[w].at = 1 /\ worker'[w].steps = {}
         /\ worker'[w].err = None /\ worker'[w].containment = None
<1> DEFINE n == [Idle EXCEPT !.pc = point, !.item = worker[w].item, !.outcome = o]
<1>1. Idle \in Worker /\ worker[w].item \in Executions \cup {None}
  BY StartTypes DEF Worker
<1>2. point \in Points
  BY DEF Points
<1>3. n \in Worker
  BY <1>1, <1>2 DEF Worker
<1>4. /\ n.pc = point /\ n.item = worker[w].item /\ n.outcome = o /\ n.rec = NewRecord
      /\ n.at = 1 /\ n.steps = {} /\ n.err = None /\ n.containment = None
  BY DEF Idle
<1>5. worker' = [worker EXCEPT ![w] = n]
  BY DEF AnswerAt
<1>. HIDE DEF n
<1>. QED
  BY <1>3, <1>4, <1>5

\* Goto changes nothing but where the worker stands.
LEMMA GotoNext ==
  ASSUME NEW w \in Workers, NEW point \in Points, worker \in [Workers -> Worker],
         Goto(w, point)
  PROVE  /\ worker' \in [Workers -> Worker]
         /\ worker'[w] = [worker[w] EXCEPT !.pc = point]
         /\ \A u \in Workers \ {w} : worker'[u] = worker[u]
<1> DEFINE n == [worker[w] EXCEPT !.pc = point]
<1>1. n \in Worker
  BY DEF Worker
<1>2. worker' = [worker EXCEPT ![w] = n]
  BY DEF Goto
<1>. QED
  BY <1>1, <1>2

\* Where a worker goes at a stage: only the stage and the point change.
LEMMA ArriveNext ==
  ASSUME NEW v \in Worker, NEW n \in 1..8
  PROVE  LET x == Arrive(v, n)
         IN /\ x \in Worker /\ x.at = n
            /\ x.pc \in {"read", "progress", "intend", "probe"}
            /\ x.pc = "read" <=> Stages[n] \in {"graph", "final"}
            /\ x.pc = "probe" => Stages[n] = "campaigns.suspend"
            /\ x.pc = "intend" => Stages[n] \in Mutations
            /\ x.pc = "intend" /\ Stages[n] \in Adds => Stages[n] \notin v.rec.ids
            /\ x.pc = "progress" => Stages[n] # "campaigns.suspend" /\ Stages[n] # "final"
            /\ x.item = v.item /\ x.rec = v.rec /\ x.steps = v.steps /\ x.err = v.err
            /\ x.containing = v.containing /\ x.containment = v.containment
            /\ x.outcome = v.outcome /\ x.moderated = v.moderated
<1> DEFINE s == Stages[n]
           p == CASE s \in {"graph", "final"} -> "read"
                  [] s \in Adds -> IF s \in v.rec.ids THEN "progress" ELSE "intend"
                  [] s = "campaigns.suspend" -> IF v.fresh THEN "intend" ELSE "probe"
                  [] s = "ads.moderate" -> IF v.moderated THEN "progress" ELSE "intend"
<1>1. s \in Mutations \cup {"graph", "final"} /\ n \in 1..Len(Stages)
  BY StageNames
<1>2. /\ p \in {"read", "progress", "intend", "probe"}
      /\ p = "read" <=> s \in {"graph", "final"}
      /\ p = "probe" => s = "campaigns.suspend"
      /\ p = "intend" => s \in Mutations
      /\ p = "intend" /\ s \in Adds => s \notin v.rec.ids
      /\ p = "progress" => s # "campaigns.suspend" /\ s # "final"
  <2>. HIDE DEF s
  <2>1. CASE s \in {"graph", "final"}
    BY <2>1 DEF Mutations, Adds
  <2>2. CASE s \in Adds
    BY <2>2 DEF Mutations, Adds
  <2>3. CASE s = "campaigns.suspend"
    BY <2>3 DEF Mutations, Adds
  <2>4. CASE s = "ads.moderate"
    BY <2>4 DEF Mutations, Adds
  <2>. QED
    BY <1>1, <2>1, <2>2, <2>3, <2>4 DEF Mutations
<1>3. Arrive(v, n) = [v EXCEPT !.at = n, !.pc = p]
  BY DEF Arrive
<1>4. p \in Points
  BY <1>2 DEF Points
<1>. HIDE DEF p
<1>5. [v EXCEPT !.at = n, !.pc = p] \in Worker
  BY <1>1, <1>4 DEF Worker
<1>. QED
  BY <1>2, <1>3, <1>5 DEF Worker

\* What becomes of a worker on which an error is thrown.
LEMMA RaiseNext ==
  ASSUME NEW v \in Worker, NEW e \in Errors
  PROVE  LET x == Raise(v, e)
         IN /\ x \in Worker
            /\ x.item = v.item /\ x.rec = v.rec /\ x.at = v.at /\ x.steps = v.steps
            /\ x.outcome = v.outcome
            /\ x.err = IF v.containing THEN v.err ELSE e
            /\ x.pc \in {"contained", "contain", "close"}
            /\ x.pc = "contain" => /\ ~v.containing /\ "campaigns.add" \in v.rec.ids
                                   /\ e # "recon" /\ x.containment = v.containment
            /\ x.pc = "close" => /\ ~v.containing /\ "campaigns.add" \notin v.rec.ids
                                 /\ e \in {"rejected", "unattempted"}
                                 /\ x.containment = v.containment
            /\ x.pc = "contained" =>
                 \/ x.containment \in Unresolved
                 \/ /\ x.containment = "NON_SERVING_CONFIRMED"
                    /\ "NON_SERVING_CONFIRMED" \in v.steps
            /\ x.pc = "contained" \/ x.pc = "close" \/ x.containing
<1>. USE DEF Worker, Points, Containments, Unresolved, Errors
<1>1. CASE v.containing
  BY <1>1 DEF Raise
<1>2. CASE ~v.containing /\ "campaigns.add" \in v.rec.ids
  BY <1>2, ZenonT(60) DEF Raise
<1>3. CASE ~v.containing /\ "campaigns.add" \notin v.rec.ids
  BY <1>3, ZenonT(60) DEF Raise
<1>. QED
  BY <1>1, <1>2, <1>3

-----------------------------------------------------------------------------
(* One step of a worker: what it starts from, and what it leaves.          *)

Before(w) ==
  /\ TypeOK
  /\ worker[w].pc # "idle" /\ worker[w].item \in Executions
  /\ Local(worker[w], rows[worker[w].item], account[worker[w].item], lock)
  /\ RecordSound(rows[worker[w].item], account[worker[w].item])
  /\ ObjectSound(account[worker[w].item])

\* the step leaves the rows, the objects, the workers and the lock of the others alone
StepFrame(w) ==
  /\ worker' \in [Workers -> Worker] /\ rows' \in [Executions -> DirectExecutionRecord]
  /\ account' \in [Executions -> Objects] /\ lock' \in AccountLock
  /\ worker'[w].item = worker[w].item /\ worker'[w].pc # "idle"
  /\ \A u \in Workers \ {w} : worker'[u] = worker[u]
  /\ \A f \in Executions \ {worker[w].item} : rows'[f] = rows[f] /\ account'[f] = account[f]
  /\ lock' # lock => /\ lock.holder \in {None, worker[w].item}
                     /\ lock'.holder \in {None, worker[w].item}

After(w) ==
  /\ StepFrame(w)
  /\ Local(worker'[w], rows'[worker[w].item], account'[worker[w].item], lock')
  /\ RecordSound(rows'[worker[w].item], account'[worker[w].item])
  /\ ObjectSound(account'[worker[w].item])

\* A save that succeeds or fails leaves the row as it was or as it was to be.
LEMMA SaveNext ==
  ASSUME TypeOK, NEW e \in Executions, NEW rec \in DirectExecutionRecord,
         Saved(e, rec) \/ NotSaved(e, rec)
  PROVE  /\ rows' \in [Executions -> DirectExecutionRecord] /\ lock' \in AccountLock
         /\ rows'[e] \in {rows[e], rec}
         /\ \A f \in Executions \ {e} : rows'[f] = rows[f]
         /\ lock'.holder = lock.holder
         /\ lock' # lock => lock.holder = e
         /\ Saved(e, rec) => rows'[e] = rec /\ lock.holder = e
         /\ NotSaved(e, rec) => lock.holder # e \/ "journal" \in faults
<1>1. CASE Saved(e, rec)
  BY <1>1 DEF Saved, NotSaved, TypeOK, AccountLock, Lease
<1>2. CASE NotSaved(e, rec)
  <2>1. \/ rows' = rows \/ rows' = [rows EXCEPT ![e] = rec]
    BY <1>2 DEF NotSaved
  <2>2. lock' = lock \/ (lock' = Lease(e) /\ lock.holder = e)
    BY <1>2 DEF NotSaved
  <2>3. lock.holder # e \/ "journal" \in faults
    BY <1>2 DEF NotSaved
  <2>4. lock' \in AccountLock /\ lock'.holder = lock.holder /\ (lock' # lock => lock.holder = e)
    <3>1. lock \in AccountLock /\ Lease(e) \in AccountLock /\ Lease(e).holder = e
      BY DEF TypeOK, AccountLock, Lease
    <3>. QED
      BY <2>2, <3>1
  <2>5. /\ rows' \in [Executions -> DirectExecutionRecord] /\ rows'[e] \in {rows[e], rec}
        /\ \A f \in Executions \ {e} : rows'[f] = rows[f]
    BY <2>1 DEF TypeOK
  <2>6. Saved(e, rec) => rows'[e] = rec /\ lock.holder = e
    BY DEF Saved, TypeOK
  <2>. QED
    BY <2>3, <2>4, <2>5, <2>6
<1>. QED
  BY <1>1, <1>2

\* A worker on which an error is thrown knows no less than before.
LEMMA RaiseLocal ==
  ASSUME NEW v \in Worker, NEW e \in Errors, NEW r \in DirectExecutionRecord,
         NEW o \in Objects, NEW l \in AccountLock,
         l.holder = v.item, Known(v.rec, o), v.containment = None,
         v.at > 1 => "campaigns.add" \in v.rec.ids,
         "NON_SERVING_CONFIRMED" \in v.steps => "campaigns.add" \in v.rec.ids /\ o.state # "ON",
         (IF v.containing THEN v.err ELSE e) \in {"rejected", "unattempted"}
           /\ v.rec.pending \in Adds => o.count[v.rec.pending] = 0,
         AdTrue(v.rec.ad, o), v.rec.ad # None => e = "recon"
  PROVE  /\ Raise(v, e) \in Worker /\ Raise(v, e).item = v.item
         /\ Raise(v, e).pc # "idle" /\ Local(Raise(v, e), r, o, l)
<1> DEFINE x == Raise(v, e)
<1>1. /\ x \in Worker
      /\ x.item = v.item /\ x.rec = v.rec /\ x.at = v.at /\ x.steps = v.steps
      /\ x.err = IF v.containing THEN v.err ELSE e
      /\ x.pc \in {"contained", "contain", "close"}
      /\ x.pc = "contain" => e # "recon" /\ x.containment = v.containment
      /\ x.pc = "close" => e # "recon"
      /\ x.pc = "contained" \/ x.pc = "close" \/ x.containing
  BY RaiseNext
<1>. HIDE DEF x
<1>2. Standing(x, r) /\ Opening(x) /\ AtStage(x) /\ Pending(x) /\ Answered(x, r, o)
  BY <1>1 DEF Standing, Opening, AtStage, Pending, Answered, Answering, Creating
<1>3. AdKnown(x)
  BY <1>1 DEF AdKnown
<1>4. Effected(x, o)
  BY <1>1 DEF Effected, Creating
<1>5. x \in Worker /\ x.item = v.item /\ x.pc # "idle" /\ Local(x, r, o, l)
  BY <1>1, <1>2, <1>3, <1>4 DEF Local
<1>. QED
  BY <1>5 DEF x

\* A worker that arrives at a stage knows no less than before.
LEMMA ArriveLocal ==
  ASSUME NEW v \in Worker, NEW n \in 1..8, NEW r \in DirectExecutionRecord,
         NEW o \in Objects, NEW l \in AccountLock,
         l.holder = v.item, Known(v.rec, o), v.containment = None,
         ~v.containing, v.err = None, v.rec.pending = None, v.rec.ad = None,
         n > 1 => "campaigns.add" \in v.rec.ids,
         "NON_SERVING_CONFIRMED" \in v.steps => "campaigns.add" \in v.rec.ids /\ o.state # "ON"
  PROVE  /\ Arrive(v, n) \in Worker /\ Arrive(v, n).item = v.item
         /\ Arrive(v, n).pc # "idle" /\ Local(Arrive(v, n), r, o, l)
<1> DEFINE x == Arrive(v, n)
<1>1. /\ x \in Worker /\ x.at = n
      /\ x.pc \in {"read", "progress", "intend", "probe"}
      /\ x.pc = "read" <=> Stages[n] \in {"graph", "final"}
      /\ x.pc = "probe" => Stages[n] = "campaigns.suspend"
      /\ x.pc = "intend" => Stages[n] \in Mutations
      /\ x.pc = "intend" /\ Stages[n] \in Adds => Stages[n] \notin v.rec.ids
      /\ x.pc = "progress" => Stages[n] # "campaigns.suspend" /\ Stages[n] # "final"
      /\ x.item = v.item /\ x.rec = v.rec /\ x.steps = v.steps /\ x.err = None
      /\ x.containing = v.containing /\ x.containment = v.containment
  BY ArriveNext
<1>. HIDE DEF x
<1>2. None \notin Adds
  BY NoneIsNoName
<1>3. Operation(x) = Stages[n]
  BY <1>1 DEF Operation
<1>4. Standing(x, r) /\ Opening(x) /\ Answered(x, r, o) /\ AdKnown(x)
  BY <1>1 DEF Standing, Opening, Answered, Answering, AdKnown
<1>5. AtStage(x)
  BY <1>1, <1>3 DEF AtStage
<1>6. Pending(x)
  BY <1>1 DEF Pending
<1>7. Effected(x, o)
  <2>1. ~(x.pc = "progress" /\ x.at = 8)
    BY <1>1, StageNames
  <2>. QED
    BY <1>1, <1>2, <2>1 DEF Effected, AdTrue
<1>8. x \in Worker /\ x.item = v.item /\ x.pc # "idle" /\ Local(x, r, o, l)
  BY <1>1, <1>4, <1>5, <1>6, <1>7 DEF Local
<1>. QED
  BY <1>8 DEF x

\* A worker that gives an answer knows no less than the answer says.
LEMMA AnswerLocal ==
  ASSUME TypeOK, NEW w \in Workers, NEW point \in {"hold", "unlock", "answered"},
         NEW out \in Outcome, AnswerAt(w, point, out), worker[w].item \in Executions,
         NEW r \in DirectExecutionRecord, NEW o \in Objects, NEW l \in AccountLock,
         point # "answered" => l.holder = worker[w].item,
         point = "unlock" => r.pending = None,
         AdTrue(out.ad, o),
         out.ad # None => out.status \in TerminalSuccess \cup {"SYSTEM_FAILED"} /\ r.pending = None,
         out.status \in TerminalSuccess => Verified(o) /\ r.pending = None,
         out.status # "OUTCOME_UNKNOWN"
  PROVE  /\ worker' \in [Workers -> Worker]
         /\ worker'[w].item = worker[w].item /\ worker'[w].pc # "idle"
         /\ \A u \in Workers \ {w} : worker'[u] = worker[u]
         /\ Local(worker'[w], r, o, l)
<1>1. /\ worker' \in [Workers -> Worker]
      /\ \A u \in Workers \ {w} : worker'[u] = worker[u]
      /\ worker'[w].pc = point /\ worker'[w].item = worker[w].item
      /\ worker'[w].outcome = out /\ worker'[w].rec = NewRecord
      /\ worker'[w].steps = {} /\ worker'[w].err = None /\ worker'[w].containment = None
  BY AnswerNext DEF TypeOK
<1> DEFINE x == worker'[w]
<1>2. /\ x.pc \in {"hold", "unlock", "answered"} /\ x.pc = point
      /\ x.rec.ad = None /\ x.rec.pending = None
  BY <1>1 DEF NewRecord
<1>3. Standing(x, r) /\ Opening(x) /\ AtStage(x) /\ Pending(x) /\ AdKnown(x)
  <2>. HIDE DEF x
  <2>. QED
    BY <1>1, <1>2 DEF Standing, Opening, AtStage, Pending, AdKnown, Creating, x
<1>4. Effected(x, o) /\ Answered(x, r, o)
  BY <1>1, <1>2, NoneIsNoName DEF Effected, Answered, Creating, AdTrue
<1>5. Local(x, r, o, l)
  BY <1>1, <1>2, <1>3, <1>4 DEF Local, Owning
<1>. QED
  BY <1>1, <1>2, <1>5

-----------------------------------------------------------------------------
(* The steps of a worker, one after another.                               *)

LEMMA AcquireAfter ==
  ASSUME NEW w \in Workers, Before(w), Acquire(w)
  PROVE  After(w)
<1> DEFINE v == worker[w]
           e == worker[w].item
           x == [worker[w] EXCEPT !.rec = rows[worker[w].item], !.pc = "claim"]
<1>1. v \in Worker /\ e \in Executions /\ rows[e] \in DirectExecutionRecord /\ v.pc = "acquire"
  BY DEF Before, TypeOK, Acquire
<1>2. /\ x \in Worker /\ x.pc = "claim" /\ x.rec = rows[e] /\ x.item = e
      /\ x.at = v.at /\ x.steps = v.steps /\ x.err = v.err
      /\ x.containing = v.containing /\ x.containment = v.containment
  BY <1>1 DEF Worker, Points
<1>3. /\ Local(v, rows[e], account[e], lock)
      /\ RecordSound(rows[e], account[e]) /\ ObjectSound(account[e])
  BY DEF Before
<1>. HIDE DEF x
<1>4. Opening(x) /\ AdKnown(x) /\ Effected(x, account[e])
  BY <1>1, <1>2, <1>3, NoneIsNoName
     DEF Local, Opening, AdKnown, Effected, RecordSound, Creating, Errors
<1>5. Local(x, rows[e], account[e], lock)
  BY <1>2, <1>4 DEF Local, Standing, AtStage, Pending, Answered, Creating, Answering, Owning
<1>6. UNCHANGED <<rows, lock, account>> /\ worker' = [worker EXCEPT ![w] = x]
  BY DEF Acquire, x
<1>7. StepFrame(w) /\ worker'[w] = x
  BY <1>2, <1>6 DEF StepFrame, Before, TypeOK
<1>. QED
  BY <1>3, <1>5, <1>6, <1>7 DEF After

\* A record that is terminal answers truthfully.
LEMMA OutcomeTrue ==
  ASSUME NEW rec \in DirectExecutionRecord, NEW o \in Objects,
         rec.status \in TerminalSuccess \cup TerminalFailure \cup {"RECONCILIATION_REQUIRED"}
  PROVE  LET out == OutcomeOf(rec)
         IN /\ out \in Outcome /\ out.status = rec.status /\ out.ad = rec.ad
            /\ out.status # "OUTCOME_UNKNOWN"
BY DEF OutcomeOf, Outcome, DirectExecutionRecord, TerminalSuccess, TerminalFailure, Containments

LEMMA ClaimAfter ==
  ASSUME NEW w \in Workers, Before(w), Claim(w)
  PROVE  After(w)
<1> DEFINE v == worker[w]
           e == worker[w].item
           r == rows[e]
           o == account[e]
<1>1. /\ v \in Worker /\ e \in Executions /\ r \in DirectExecutionRecord /\ o \in Objects
      /\ v.pc = "claim" /\ v.rec = r /\ lock \in AccountLock
      /\ v.at = 1 /\ v.steps = {} /\ v.err = None /\ ~v.containing /\ v.containment = None
  BY DEF Before, TypeOK, Claim, Local, Standing, Opening, AdKnown
<1>2. RecordSound(r, o) /\ ObjectSound(o) /\ TypeOK
  BY DEF Before
<1>3. UNCHANGED <<rows, account>>
  BY DEF Claim
<1>4. /\ lock' \in AccountLock
      /\ lock' # lock => lock.holder \in {None, e} /\ lock'.holder \in {None, e}
  <2>1. lock' \in {lock, Lease(e)} /\ (lock' # lock => lock.holder = None)
    BY <1>1, NoneIsNoName DEF Claim
  <2>. QED
    BY <1>1, <2>1, LockValues
<1>5. ASSUME NEW x \in Worker, worker' = [worker EXCEPT ![w] = x], x.item = e,
             x.pc # "idle", Local(x, r, o, lock')
      PROVE  After(w)
  BY <1>1, <1>2, <1>3, <1>4, <1>5 DEF After, StepFrame, TypeOK
<1>6. ASSUME worker' \in [Workers -> Worker], worker'[w].item = e, worker'[w].pc # "idle",
             \A u \in Workers \ {w} : worker'[u] = worker[u], Local(worker'[w], r, o, lock')
      PROVE  After(w)
  BY <1>1, <1>2, <1>3, <1>4, <1>6 DEF After, StepFrame, TypeOK
<1>7. \/ AnswerAt(w, "answered", Exception)
      \/ /\ lock' = IF lock.holder = e THEN lock ELSE Lease(e)
         /\ \/ v.rec.pending # None /\ Goto(w, "reconcile")
            \/ /\ v.rec.pending = None
               /\ v.rec.status \in TerminalSuccess \cup TerminalFailure
               /\ AnswerAt(w, "unlock", OutcomeOf(v.rec))
            \/ /\ v.rec.pending = None
               /\ ~(v.rec.status \in TerminalSuccess \cup TerminalFailure
                      /\ ~RetryableBeforeDispatch(v.rec))
               /\ Goto(w, "open")
  BY DEF Claim, Answer
<1>8. CASE AnswerAt(w, "answered", Exception)
  <2>1. /\ Exception \in Outcome /\ Exception.ad = None /\ Exception.status = "SYSTEM_FAILED"
    BY StartTypes DEF Exception
  <2>2. AdTrue(Exception.ad, o)
    BY <2>1 DEF AdTrue
  <2>. QED
    BY <1>1, <1>2, <1>4, <1>6, <1>8, <2>1, <2>2, AnswerLocal DEF TerminalSuccess
<1>9. CASE lock' = IF lock.holder = e THEN lock ELSE Lease(e)
  <2>1. lock'.holder = e
    BY <1>1, <1>9, LockValues
  <2>2. CASE v.rec.pending # None /\ Goto(w, "reconcile")
    <3> DEFINE x == [v EXCEPT !.pc = "reconcile"]
    <3>1. /\ x \in Worker /\ x.pc = "reconcile" /\ x.rec = r /\ x.item = e /\ x.at = 1
          /\ x.steps = {} /\ x.err = None /\ ~x.containing /\ x.containment = None
      BY <1>1 DEF Worker, Points
    <3>2. worker' = [worker EXCEPT ![w] = x]
      BY <1>1, <2>2 DEF Goto, TypeOK
    <3>. HIDE DEF x
    <3>3. Standing(x, r) /\ Opening(x) /\ AtStage(x) /\ Pending(x) /\ Answered(x, r, o)
      BY <1>1, <2>2, <3>1
         DEF Standing, Opening, AtStage, Pending, Answered, Answering, Creating
    <3>4. AdKnown(x) /\ Effected(x, o)
      BY <1>1, <1>2, <2>2, <3>1, NoneIsNoName
         DEF AdKnown, Effected, RecordSound, Creating, Errors
    <3>5. Local(x, r, o, lock')
      BY <2>1, <3>1, <3>3, <3>4 DEF Local
    <3>. QED
      BY <1>5, <3>1, <3>2, <3>5
  <2>3. CASE /\ v.rec.pending = None
             /\ v.rec.status \in TerminalSuccess \cup TerminalFailure
             /\ AnswerAt(w, "unlock", OutcomeOf(v.rec))
    <3>1. /\ OutcomeOf(r) \in Outcome /\ OutcomeOf(r).status = r.status
          /\ OutcomeOf(r).ad = r.ad /\ OutcomeOf(r).status # "OUTCOME_UNKNOWN"
      BY <1>1, <2>3, OutcomeTrue
    <3> DEFINE out == OutcomeOf(r)
    <3>. HIDE DEF out
    <3>2. /\ out \in Outcome /\ AnswerAt(w, "unlock", out) /\ AdTrue(out.ad, o)
          /\ out.ad # None => out.status \in TerminalSuccess \cup {"SYSTEM_FAILED"}
                              /\ r.pending = None
          /\ out.status \in TerminalSuccess => Verified(o) /\ r.pending = None
          /\ out.status # "OUTCOME_UNKNOWN" /\ r.pending = None
      BY <1>1, <1>2, <2>3, <3>1 DEF RecordSound, out
    <3>. QED
      BY <1>1, <1>2, <1>4, <1>6, <2>1, <3>2, AnswerLocal
  <2>4. CASE /\ v.rec.pending = None
             /\ ~(v.rec.status \in TerminalSuccess \cup TerminalFailure
                    /\ ~RetryableBeforeDispatch(v.rec))
             /\ Goto(w, "open")
    <3> DEFINE x == [v EXCEPT !.pc = "open"]
    <3>1. /\ x \in Worker /\ x.pc = "open" /\ x.rec = r /\ x.item = e /\ x.at = 1
          /\ x.steps = {} /\ x.err = None /\ ~x.containing /\ x.containment = None
      BY <1>1 DEF Worker, Points
    <3>2. worker' = [worker EXCEPT ![w] = x]
      BY <1>1, <2>4 DEF Goto, TypeOK
    <3>3. /\ r.pending = None /\ r.ad = None
          /\ r.status \in {"BLANK", "SYSTEM_FAILED"} => r.ids = {}
      BY <1>1, <1>2, <2>4 DEF RecordSound, RetryableBeforeDispatch, TerminalFailure
    <3>. HIDE DEF x
    <3>4. Standing(x, r) /\ Opening(x) /\ AtStage(x) /\ Pending(x) /\ Answered(x, r, o)
      BY <3>1, <3>3
         DEF Standing, Opening, AtStage, Pending, Answered, Answering, Creating
    <3>5. AdKnown(x) /\ Effected(x, o)
      BY <1>2, <3>1, <3>3, NoneIsNoName
         DEF AdKnown, Effected, RecordSound, Creating, Errors
    <3>6. Local(x, r, o, lock')
      BY <2>1, <3>1, <3>4, <3>5 DEF Local
    <3>. QED
      BY <1>5, <3>1, <3>2, <3>6
  <2>. QED
    BY <1>7, <1>8, <2>2, <2>3, <2>4
<1>. QED
  BY <1>7, <1>8, <1>9

\* The frame of a step that gives worker w the state x, or an answer.
LEMMA BecomeAfter ==
  ASSUME NEW w \in Workers, TypeOK, worker[w].item \in Executions,
         NEW x \in Worker, Become(w, x), x.item = worker[w].item, x.pc # "idle",
         rows' \in [Executions -> DirectExecutionRecord],
         account' \in [Executions -> Objects], lock' \in AccountLock,
         \A f \in Executions \ {worker[w].item} :
           rows'[f] = rows[f] /\ account'[f] = account[f],
         lock' # lock => /\ lock.holder \in {None, worker[w].item}
                         /\ lock'.holder \in {None, worker[w].item},
         Local(x, rows'[worker[w].item], account'[worker[w].item], lock'),
         RecordSound(rows'[worker[w].item], account'[worker[w].item]),
         ObjectSound(account'[worker[w].item])
  PROVE  After(w)
<1>1. /\ worker' \in [Workers -> Worker] /\ worker'[w] = x
      /\ \A u \in Workers \ {w} : worker'[u] = worker[u]
  BY BecomeNext DEF TypeOK
<1>. QED
  BY <1>1 DEF After, StepFrame

LEMMA AnswerAfter ==
  ASSUME NEW w \in Workers, TypeOK, worker[w].item \in Executions,
         NEW point \in {"hold", "unlock", "answered"}, NEW out \in Outcome,
         AnswerAt(w, point, out),
         rows' \in [Executions -> DirectExecutionRecord],
         account' \in [Executions -> Objects], lock' \in AccountLock,
         \A f \in Executions \ {worker[w].item} :
           rows'[f] = rows[f] /\ account'[f] = account[f],
         lock' # lock => /\ lock.holder \in {None, worker[w].item}
                         /\ lock'.holder \in {None, worker[w].item},
         RecordSound(rows'[worker[w].item], account'[worker[w].item]),
         ObjectSound(account'[worker[w].item]),
         point # "answered" => lock'.holder = worker[w].item,
         point = "unlock" => rows'[worker[w].item].pending = None,
         AdTrue(out.ad, account'[worker[w].item]),
         out.ad # None => /\ out.status \in TerminalSuccess \cup {"SYSTEM_FAILED"}
                          /\ rows'[worker[w].item].pending = None,
         out.status \in TerminalSuccess =>
           Verified(account'[worker[w].item]) /\ rows'[worker[w].item].pending = None,
         out.status # "OUTCOME_UNKNOWN"
  PROVE  After(w)
<1>1. rows'[worker[w].item] \in DirectExecutionRecord /\ account'[worker[w].item] \in Objects
  OBVIOUS
<1>2. /\ worker' \in [Workers -> Worker]
      /\ worker'[w].item = worker[w].item /\ worker'[w].pc # "idle"
      /\ \A u \in Workers \ {w} : worker'[u] = worker[u]
      /\ Local(worker'[w], rows'[worker[w].item], account'[worker[w].item], lock')
  BY <1>1, AnswerLocal
<1>. QED
  BY <1>2 DEF After, StepFrame

\* An exception, or an ambiguity without identifiers, says nothing of the provider.
LEMMA BareAnswer ==
  ASSUME NEW out \in {Exception, Ambiguous}, NEW o \in Objects
  PROVE  /\ out \in Outcome /\ out.ad = None /\ AdTrue(out.ad, o)
         /\ out.status \notin TerminalSuccess /\ out.status # "OUTCOME_UNKNOWN"
<1>1. /\ Exception \in Outcome /\ Ambiguous \in Outcome
      /\ Exception.ad = None /\ Exception.status = "SYSTEM_FAILED"
      /\ Ambiguous.ad = None /\ Ambiguous.status = "RECONCILIATION_REQUIRED"
  BY StartTypes DEF Exception, Ambiguous
<1>2. /\ out \in Outcome /\ out.ad = None
      /\ out.status \in {"SYSTEM_FAILED", "RECONCILIATION_REQUIRED"}
  BY <1>1
<1>. QED
  BY <1>2 DEF AdTrue, TerminalSuccess

\* The row after a save is the old one or the new one, so it is sound if both are.
LEMMA SavedSound ==
  ASSUME TypeOK, NEW e \in Executions, NEW rec \in DirectExecutionRecord,
         Saved(e, rec) \/ NotSaved(e, rec), UNCHANGED account,
         RecordSound(rows[e], account[e]), RecordSound(rec, account[e])
  PROVE  /\ rows' \in [Executions -> DirectExecutionRecord] /\ lock' \in AccountLock
         /\ account' \in [Executions -> Objects]
         /\ rows'[e] \in {rows[e], rec}
         /\ \A f \in Executions \ {e} : rows'[f] = rows[f] /\ account'[f] = account[f]
         /\ lock'.holder = lock.holder
         /\ lock' # lock => lock.holder = e
         /\ Saved(e, rec) => rows'[e] = rec
         /\ RecordSound(rows'[e], account'[e])
BY SaveNext DEF TypeOK

LEMMA ReconcileAfter ==
  ASSUME NEW w \in Workers, Before(w), ReconcilePendingDispatch(w)
  PROVE  After(w)
<1> DEFINE v == worker[w]
           e == worker[w].item
           old == worker[w].rec
           o == account[e]
           rec == [old EXCEPT !.pending = None, !.status = "OPEN",
                     !.steps = @ \cup {StepOf(old.pending)},
                     !.containment = IF old.pending = "campaigns.suspend"
                                       THEN "NON_SERVING_CONFIRMED" ELSE @]
           x == [v EXCEPT !.rec = rec, !.pc = "open"]
<1>1. /\ v \in Worker /\ e \in Executions /\ o \in Objects /\ old \in DirectExecutionRecord
      /\ v.pc = "reconcile" /\ old = rows[e] /\ old.pending # None /\ lock.holder = e
      /\ v.at = 1 /\ v.steps = {} /\ v.err = None /\ ~v.containing /\ v.containment = None
      /\ TypeOK /\ RecordSound(old, o) /\ ObjectSound(o) /\ UNCHANGED account
      /\ lock \in AccountLock
  <2>1. v \in Worker /\ e \in Executions /\ o \in Objects /\ TypeOK /\ lock \in AccountLock
    BY DEF Before, TypeOK
  <2>2. v.pc = "reconcile" /\ UNCHANGED account
    BY DEF ReconcilePendingDispatch
  <2>. QED
    BY <2>1, <2>2 DEF Before, Local, Standing, Opening, AdKnown, Owning, Points, Worker
<1>2. old.ad = None /\ Known(old, o)
  BY <1>1, SMTT(30) DEF RecordSound
<1>3. /\ rec \in DirectExecutionRecord /\ rec.pending = None /\ rec.status = "OPEN"
      /\ rec.ad = None /\ rec.ids = old.ids
  BY <1>1, <1>2 DEF DirectExecutionRecord, Statuses, Steps, StepOf, Containments
<1>. HIDE DEF rec
<1>4. \/ /\ Readable(old)
         /\ \/ Saved(e, rec) /\ Become(w, x)
            \/ NotSaved(e, rec) /\ AnswerAt(w, "hold", Exception)
      \/ /\ AnswerAt(w, "hold", Ambiguous) \/ AnswerAt(w, "hold", Exception)
         /\ UNCHANGED <<rows, lock>>
  BY DEF ReconcilePendingDispatch, Confirmed, Become, rec
<1>5. CASE Readable(old) /\ (Saved(e, rec) \/ NotSaved(e, rec))
  <2>1. old.pending \notin Adds
    BY <1>5 DEF Readable, Adds
  <2>2. Known(rec, o)
    BY <1>2, <1>3, <2>1 DEF Known
  <2>3. RecordSound(rec, o)
    BY <1>3, <2>2 DEF RecordSound, AdTrue, TerminalSuccess
  <2>4. /\ rows' \in [Executions -> DirectExecutionRecord] /\ lock' \in AccountLock
        /\ account' \in [Executions -> Objects]
        /\ \A f \in Executions \ {e} : rows'[f] = rows[f] /\ account'[f] = account[f]
        /\ lock'.holder = lock.holder
        /\ RecordSound(rows'[e], account'[e])
    BY <1>1, <1>3, <1>5, <2>3, SavedSound
  <2>5. CASE Become(w, x)
    <3>1. /\ x \in Worker /\ x.pc = "open" /\ x.rec = rec /\ x.item = e /\ x.at = 1
          /\ x.steps = {} /\ x.err = None /\ ~x.containing /\ x.containment = None
      BY <1>1, <1>3 DEF Worker, Points
    <3>. HIDE DEF x
    <3>2. Standing(x, rows'[e]) /\ Opening(x) /\ AtStage(x) /\ Pending(x)
      BY <1>3, <3>1 DEF Standing, Opening, AtStage, Pending, Creating
    <3>3. Answered(x, rows'[e], o) /\ AdKnown(x) /\ Effected(x, o)
      BY <1>3, <2>2, <2>3, <3>1, NoneIsNoName
         DEF Answered, Answering, AdKnown, Effected, AdTrue, Creating, Errors
    <3>4. Local(x, rows'[e], o, lock')
      BY <1>1, <2>4, <3>1, <3>2, <3>3, SMTT(30) DEF Local
    <3>. QED
      BY <1>1, <2>4, <2>5, <3>1, <3>4, BecomeAfter
  <2>6. CASE AnswerAt(w, "hold", Exception)
    BY <1>1, <2>4, <2>6, BareAnswer, AnswerAfter
  <2>. QED
    BY <1>1, <1>4, <1>5, <2>4, <2>5, <2>6, BareAnswer, AnswerAfter
<1>6. CASE /\ AnswerAt(w, "hold", Ambiguous) \/ AnswerAt(w, "hold", Exception)
           /\ UNCHANGED <<rows, lock>>
  <2>1. PICK out \in {Exception, Ambiguous} : AnswerAt(w, "hold", out)
    BY <1>6
  <2>2. /\ rows' \in [Executions -> DirectExecutionRecord] /\ lock' \in AccountLock
        /\ account' \in [Executions -> Objects] /\ rows' = rows /\ lock' = lock
        /\ account' = account
    BY <1>1, <1>6 DEF TypeOK
  <2>. QED
    BY <1>1, <2>1, <2>2, BareAnswer, AnswerAfter
<1>. QED
  BY <1>4, <1>5, <1>6

\* What the steps below start from: the worker, its row, its objects and the lock.
LEMMA BeforeFacts ==
  ASSUME NEW w \in Workers, Before(w)
  PROVE  LET v == worker[w]
             e == worker[w].item
         IN /\ TypeOK /\ v \in Worker /\ e \in Executions /\ v.rec \in DirectExecutionRecord
            /\ rows[e] \in DirectExecutionRecord /\ account[e] \in Objects
            /\ lock \in AccountLock /\ v.at \in 1..8 /\ v.outcome \in Outcome
            /\ v.pc \in Owning => lock.holder = e
            /\ Standing(v, rows[e]) /\ Opening(v) /\ AtStage(v) /\ Pending(v) /\ AdKnown(v)
            /\ Effected(v, account[e]) /\ Answered(v, rows[e], account[e])
            /\ RecordSound(rows[e], account[e]) /\ ObjectSound(account[e])
<1>1. /\ TypeOK /\ worker[w] \in Worker /\ worker[w].item \in Executions
      /\ Local(worker[w], rows[worker[w].item], account[worker[w].item], lock)
      /\ RecordSound(rows[worker[w].item], account[worker[w].item])
      /\ ObjectSound(account[worker[w].item])
      /\ rows[worker[w].item] \in DirectExecutionRecord
      /\ account[worker[w].item] \in Objects /\ lock \in AccountLock
  BY DEF Before, TypeOK
<1>2. /\ worker[w].rec \in DirectExecutionRecord /\ worker[w].outcome \in Outcome
      /\ worker[w].at \in 1..8
  BY <1>1, StageNames DEF Worker
<1>. QED
  BY <1>1, <1>2 DEF Local

\* The frame of a step that writes nothing.
LEMMA ReadAfter ==
  ASSUME NEW w \in Workers, Before(w), UNCHANGED <<rows, lock, account>>,
         NEW x \in Worker, Become(w, x), x.item = worker[w].item, x.pc # "idle",
         Local(x, rows[worker[w].item], account[worker[w].item], lock)
  PROVE  After(w)
<1>1. /\ rows' \in [Executions -> DirectExecutionRecord]
      /\ account' \in [Executions -> Objects] /\ lock' \in AccountLock
      /\ rows' = rows /\ account' = account /\ lock' = lock
  BY BeforeFacts DEF TypeOK
<1>. QED
  BY <1>1, BeforeFacts, BecomeAfter

LEMMA OpenAfter ==
  ASSUME NEW w \in Workers, Before(w), Open(w)
  PROVE  After(w)
<1> DEFINE v == worker[w]
           e == worker[w].item
           old == worker[w].rec
           o == account[e]
           rec == IF old.status \in {"BLANK", "SYSTEM_FAILED"}
                    THEN [NewRecord EXCEPT !.status = "OPEN"] ELSE old
           fresh == "campaigns.add" \notin rec.ids
           moderated == "MODERATION_SUBMITTED" \in rec.steps
           y == [v EXCEPT !.rec = rec, !.fresh = fresh, !.moderated = moderated]
<1>1. /\ v \in Worker /\ e \in Executions /\ o \in Objects /\ old \in DirectExecutionRecord
      /\ v.pc = "open" /\ old.pending = None /\ old.ad = None /\ lock.holder = e
      /\ old.status \in {"BLANK", "SYSTEM_FAILED"} => old.ids = {}
      /\ v.steps = {} /\ ~v.containing /\ v.containment = None /\ v.err = None
      /\ TypeOK /\ RecordSound(rows[e], o) /\ ObjectSound(o) /\ RecordSound(old, o)
      /\ lock \in AccountLock /\ UNCHANGED account
  <2>1. v.pc = "open" /\ UNCHANGED account
    BY DEF Open
  <2>. QED
    BY <2>1, BeforeFacts DEF Opening, AdKnown, Owning, Points, Effected
<1>2. /\ rec \in DirectExecutionRecord /\ rec.pending = None /\ rec.ad = None
      /\ rec.ids = old.ids /\ (rec.status = "OPEN" \/ rec = old)
  BY <1>1, StartTypes DEF DirectExecutionRecord, Statuses, NewRecord
<1>3. Known(rec, o) /\ RecordSound(rec, o)
  <2>1. Known(rec, o)
    BY <1>1, <1>2 DEF Known, RecordSound
  <2>2. CASE rec.status = "OPEN"
    BY <1>2, <2>1, <2>2 DEF RecordSound, AdTrue, TerminalSuccess
  <2>3. CASE rec = old
    BY <1>1, <2>1, <2>3
  <2>. QED
    BY <1>2, <2>1, <2>2, <2>3
<1>. HIDE DEF rec
<1>4. /\ y \in Worker /\ y.item = e /\ y.rec = rec /\ y.steps = {} /\ ~y.containing
      /\ y.containment = None /\ y.err = None
  <2>1. fresh \in BOOLEAN /\ moderated \in BOOLEAN
    OBVIOUS
  <2>. HIDE DEF fresh, moderated
  <2>. QED
    BY <1>1, <1>2, <2>1 DEF Worker
<1>. HIDE DEF y
<1>5. \/ Saved(e, rec) /\ Become(w, Arrive(y, 1))
      \/ NotSaved(e, rec) /\ AnswerAt(w, "answered", Exception)
  BY DEF Open, Answer, rec, y
<1>6. /\ rows' \in [Executions -> DirectExecutionRecord] /\ lock' \in AccountLock
      /\ account' \in [Executions -> Objects]
      /\ \A f \in Executions \ {e} : rows'[f] = rows[f] /\ account'[f] = account[f]
      /\ lock'.holder = lock.holder /\ (lock' # lock => lock.holder = e)
      /\ RecordSound(rows'[e], account'[e])
  BY <1>1, <1>2, <1>3, <1>5, SavedSound
<1>7. CASE Become(w, Arrive(y, 1))
  <2>1. /\ Arrive(y, 1) \in Worker /\ Arrive(y, 1).item = y.item
        /\ Arrive(y, 1).pc # "idle" /\ Local(Arrive(y, 1), rows'[e], o, lock')
    <3>1. rows'[e] \in DirectExecutionRecord /\ lock'.holder = y.item
          /\ Known(y.rec, o) /\ y.rec.pending = None /\ y.rec.ad = None
          /\ y.steps = {} /\ ~y.containing /\ y.containment = None /\ y.err = None
          /\ 1 \in 1..8 /\ ~(1 > 1) /\ "NON_SERVING_CONFIRMED" \notin y.steps
      BY <1>1, <1>2, <1>3, <1>4, <1>6
    <3>. QED
      BY <1>1, <1>4, <1>6, <3>1, ArriveLocal
  <2>. QED
    BY <1>1, <1>4, <1>6, <1>7, <2>1, BecomeAfter
<1>8. CASE AnswerAt(w, "answered", Exception)
  BY <1>1, <1>6, <1>8, BareAnswer, AnswerAfter
<1>. QED
  BY <1>5, <1>7, <1>8

LEMMA IntendAfter ==
  ASSUME NEW w \in Workers, Before(w), Intend(w)
  PROVE  After(w)
<1> DEFINE v == worker[w]
           e == worker[w].item
           o == account[e]
           op == Operation(v)
           rec == [v.rec EXCEPT !.pending = op, !.status = "OPEN"]
           x == [v EXCEPT !.rec = rec, !.pc = "send"]
<1>1. /\ v \in Worker /\ e \in Executions /\ o \in Objects /\ v.rec \in DirectExecutionRecord
      /\ v.pc = "intend" /\ v.rec.ad = None /\ lock.holder = e /\ v.containment = None
      /\ v.at > 1 => "campaigns.add" \in v.rec.ids
      /\ op \in Mutations /\ (op \in Adds => op \notin v.rec.ids)
      /\ TypeOK /\ RecordSound(rows[e], o) /\ ObjectSound(o) /\ lock \in AccountLock
      /\ rows[e] \in DirectExecutionRecord /\ UNCHANGED account
      /\ ~v.containing => v.err = None
  <2>1. v.pc = "intend" /\ UNCHANGED account
    BY SMTT(30) DEF Intend
  <2>. QED
    BY <2>1, BeforeFacts DEF AtStage, AdKnown, Owning, Points, Creating, Opening
<1>2. /\ Known(v.rec, o) /\ AdTrue(v.rec.ad, o)
      /\ v.err \in {"rejected", "unattempted"} /\ v.rec.pending \in Adds =>
           o.count[v.rec.pending] = 0
      /\ "NON_SERVING_CONFIRMED" \in v.steps =>
           "campaigns.add" \in v.rec.ids /\ o.state # "ON"
  BY <1>1, BeforeFacts DEF Effected, Creating
<1>. HIDE DEF op
<1>3. /\ rec \in DirectExecutionRecord /\ rec.pending = op /\ rec.status = "OPEN"
      /\ rec.ad = None /\ rec.ids = v.rec.ids
  BY <1>1 DEF DirectExecutionRecord, Statuses
<1>. HIDE DEF rec
<1>4. \/ v.rec.pending # None /\ Become(w, Raise(v, "recon")) /\ UNCHANGED <<rows, lock>>
      \/ v.rec.pending = None /\ Saved(e, rec) /\ Become(w, x)
      \/ v.rec.pending = None /\ NotSaved(e, rec) /\ Become(w, Raise(v, "unattempted"))
  BY DEF Intend, op, rec
<1>5. CASE v.rec.pending # None /\ Become(w, Raise(v, "recon")) /\ UNCHANGED <<rows, lock>>
  <2>1. (IF v.containing THEN v.err ELSE "recon") \in {"rejected", "unattempted"}
          /\ v.rec.pending \in Adds => o.count[v.rec.pending] = 0
    BY <1>2
  <2>2. "recon" \in Errors
    BY DEF Errors
  <2>3. /\ Raise(v, "recon") \in Worker /\ Raise(v, "recon").item = e
        /\ Raise(v, "recon").pc # "idle" /\ Local(Raise(v, "recon"), rows[e], o, lock)
    BY <1>1, <1>2, <2>1, <2>2, RaiseLocal
  <2>. QED
    BY <1>1, <1>5, <2>3, ReadAfter
<1>6. CASE v.rec.pending = None /\ (Saved(e, rec) \/ NotSaved(e, rec))
  <2>1. Known(rec, o)
    BY <1>2, <1>3, <1>6, NoneIsNoName DEF Known
  <2>2. RecordSound(rec, o)
    BY <1>3, <2>1 DEF RecordSound, AdTrue, TerminalSuccess
  <2>3. /\ rows' \in [Executions -> DirectExecutionRecord] /\ lock' \in AccountLock
        /\ account' \in [Executions -> Objects]
        /\ \A f \in Executions \ {e} : rows'[f] = rows[f] /\ account'[f] = account[f]
        /\ lock'.holder = lock.holder /\ (lock' # lock => lock.holder = e)
        /\ RecordSound(rows'[e], account'[e]) /\ (Saved(e, rec) => rows'[e] = rec)
    BY <1>1, <1>3, <1>6, <2>2, SavedSound
  <2>4. CASE Saved(e, rec) /\ Become(w, x)
    <3>1. /\ x \in Worker /\ x.pc = "send" /\ x.rec = rec /\ x.item = e /\ x.at = v.at
          /\ x.steps = v.steps /\ x.err = v.err /\ x.containing = v.containing
          /\ x.containment = None
      BY <1>1, <1>3 DEF Worker, Points
    <3>. HIDE DEF x
    <3>2. Operation(x) = op
      BY <3>1 DEF Operation, op
    <3>3. op \in Adds => o.count[op] = 0
      BY <1>1, <1>2, <1>6, NoneIsNoName DEF Known, Objects
    <3>4. Standing(x, rows'[e]) /\ Opening(x) /\ AtStage(x) /\ Pending(x) /\ AdKnown(x)
      <4>1. Standing(x, rows'[e]) /\ Opening(x) /\ AdKnown(x)
        BY <1>1, <1>3, <2>3, <2>4, <3>1 DEF Standing, Opening, AdKnown
      <4>2. AtStage(x)
        BY <1>1, <1>3, <3>1, <3>2 DEF AtStage
      <4>3. Pending(x)
        BY <1>3, <3>1, <3>2 DEF Pending
      <4>. QED
        BY <4>1, <4>2, <4>3
    <3>5. Answered(x, rows'[e], o) /\ Effected(x, o)
      BY <1>2, <1>3, <2>1, <3>1, <3>2, <3>3 DEF Answered, Answering, Effected, AdTrue
    <3>6. Local(x, rows'[e], o, lock')
      BY <1>1, <2>3, <3>1, <3>4, <3>5 DEF Local
    <3>. QED
      BY <1>1, <2>3, <2>4, <3>1, <3>6, BecomeAfter
  <2>5. CASE Become(w, Raise(v, "unattempted"))
    <3>1. (IF v.containing THEN v.err ELSE "unattempted") \in {"rejected", "unattempted"}
            /\ v.rec.pending \in Adds => o.count[v.rec.pending] = 0
      BY <1>6, NoneIsNoName
    <3>2. "unattempted" \in Errors /\ rows'[e] \in DirectExecutionRecord
      BY <1>1, <2>3, SMTT(30) DEF Errors
    <3>3. /\ Raise(v, "unattempted") \in Worker /\ Raise(v, "unattempted").item = e
          /\ Raise(v, "unattempted").pc # "idle"
          /\ Local(Raise(v, "unattempted"), rows'[e], o, lock')
      BY <1>1, <1>2, <2>3, <3>1, <3>2, RaiseLocal
    <3>. QED
      BY <1>1, <2>3, <2>5, <3>3, BecomeAfter
  <2>. QED
    BY <1>4, <1>6, <2>4, <2>5
<1>. QED
  BY <1>4, <1>5, <1>6

\* The objects an accepted or an unanswered mutation may leave.
LEMMA EffectsNext ==
  ASSUME NEW o \in Objects, NEW op \in Mutations, NEW p \in Effects(o, op),
         ObjectSound(o), op \in Adds => o.count[op] = 0
  PROVE  /\ p \in Objects /\ ObjectSound(p)
         /\ \A a \in Adds : p.count[a] = IF a = op THEN 1 ELSE o.count[a]
         /\ op # "campaigns.add" /\ o.state # "ON" => p.state # "ON"
<1>1. \A n \in 0..2 : Min2(n + 1) \in 0..2 /\ (n = 0 => Min2(n + 1) = 1)
  BY DEF Min2
<1>2. /\ o.count \in [Adds -> 0..2] /\ o.moderations \in 0..2
      /\ o.state \in {None, "OFF", "ON", "SUSPENDED"} /\ o.ad \in AdStatuses \cup {None}
      /\ o = [count |-> o.count, state |-> o.state, ad |-> o.ad,
              moderations |-> o.moderations]
  BY DEF Objects
<1> DEFINE more == [o.count EXCEPT ![op] = Min2(@ + 1)]
<1>3. ASSUME op \in Adds
      PROVE  /\ more \in [Adds -> 0..2]
             /\ \A a \in Adds : more[a] = IF a = op THEN 1 ELSE o.count[a]
  BY <1>1, <1>2, <1>3
<1>4. CASE op = "campaigns.add"
  <2>1. op \in Adds
    BY <1>4 DEF Adds
  <2>2. PICK s \in NewCampaignStates : p = [o EXCEPT !.count = more, !.state = s]
    BY <1>2, <1>4 DEF Effects
  <2>3. s \in {"OFF", "ON"}
    BY DirectAssumption
  <2>. HIDE DEF more
  <2>4. /\ p.count = more /\ p.state = s /\ p.ad = o.ad /\ p.moderations = o.moderations
        /\ p \in Objects
    BY <1>2, <1>3, <2>1, <2>2, <2>3 DEF Objects
  <2>. QED
    BY <1>2, <1>3, <1>4, <2>1, <2>4 DEF ObjectSound
<1>5. CASE op = "campaigns.suspend"
  <2>1. p = [o EXCEPT !.state = "SUSPENDED"] /\ op \notin Adds
    BY <1>5 DEF Effects, Adds
  <2>2. p.count = o.count /\ p.state = "SUSPENDED" /\ p \in Objects
    BY <1>2, <2>1 DEF Objects
  <2>. QED
    BY <2>1, <2>2 DEF ObjectSound
<1>6. CASE op = "ads.add"
  <2>1. p = [o EXCEPT !.count = more, !.ad = "DRAFT"] /\ op \in Adds
    BY <1>2, <1>6 DEF Effects, Adds
  <2>. HIDE DEF more
  <2>2. p.count = more /\ p.state = o.state /\ p \in Objects
    BY <1>2, <1>3, <2>1 DEF Objects, AdStatuses
  <2>. QED
    BY <1>2, <1>3, <1>6, <2>1, <2>2 DEF ObjectSound, Adds
<1>7. CASE op = "ads.moderate"
  <2>1. p = [o EXCEPT !.moderations = Min2(@ + 1), !.ad = "MODERATION"] /\ op \notin Adds
    BY <1>7 DEF Effects, Adds
  <2>2. p.count = o.count /\ p.state = o.state /\ p \in Objects
    BY <1>1, <1>2, <2>1 DEF Objects, AdStatuses
  <2>. QED
    BY <2>1, <2>2 DEF ObjectSound
<1>8. CASE op \in {"adgroups.add", "keywords.add"}
  <2>1. p = [o EXCEPT !.count = more] /\ op \in Adds
    BY <1>2, <1>8 DEF Effects, Adds
  <2>. HIDE DEF more
  <2>2. p.count = more /\ p.state = o.state /\ p \in Objects
    BY <1>2, <1>3, <2>1 DEF Objects
  <2>. QED
    BY <1>2, <1>3, <1>8, <2>1, <2>2 DEF ObjectSound, Adds
<1>. QED
  BY <1>4, <1>5, <1>6, <1>7, <1>8 DEF Mutations, Adds

LEMMA SendAfter ==
  ASSUME NEW w \in Workers, Before(w), Send(w)
  PROVE  After(w)
<1> DEFINE v == worker[w]
           e == worker[w].item
           o == account[e]
           op == Operation(v)
           p == account'[e]
<1>1. /\ v \in Worker /\ e \in Executions /\ o \in Objects /\ v.rec \in DirectExecutionRecord
      /\ v.pc = "send" /\ v.rec.ad = None /\ lock.holder = e /\ v.containment = None
      /\ v.at > 1 => "campaigns.add" \in v.rec.ids
      /\ op \in Mutations /\ (op \in Adds => op \notin v.rec.ids) /\ v.rec.pending = op
      /\ TypeOK /\ ObjectSound(o) /\ lock \in AccountLock
      /\ rows[e] = v.rec /\ v.rec.status = "OPEN" /\ (~v.containing => v.err = None)
      /\ UNCHANGED <<rows, lock>>
  <2>1. v.pc = "send" /\ UNCHANGED <<rows, lock>>
    BY DEF Send
  <2>. QED
    BY <2>1, BeforeFacts
       DEF AtStage, AdKnown, Owning, Points, Creating, Standing, Pending, Opening
<1>2. /\ Known(v.rec, o)
      /\ op \in Adds => o.count[op] = 0
      /\ "NON_SERVING_CONFIRMED" \in v.steps =>
           "campaigns.add" \in v.rec.ids /\ o.state # "ON"
  BY <1>1, BeforeFacts DEF Effected, Creating
<1>3. op \in Adds => ~v.containing /\ Stages[v.at] = op
  BY DEF Operation, Adds
<1>4. \/ /\ \E q \in Effects(o, op) : account' = [account EXCEPT ![e] = q]
         /\ Goto(w, IF op = "campaigns.suspend" THEN "confirm" ELSE "progress")
      \/ UNCHANGED account /\ Become(w, Raise(v, "rejected"))
      \/ /\ \E q \in Effects(o, op) \cup {o} : account' = [account EXCEPT ![e] = q]
         /\ \/ Goto(w, "lost")
            \/ Become(w, Raise(v, "recon"))
            \/ Become(w, Raise(v, "plain"))
  BY DEF Send
<1>. HIDE DEF op
<1>5. /\ p \in Effects(o, op) \cup {o}
      /\ account' \in [Executions -> Objects]
      /\ \A f \in Executions \ {e} : account'[f] = account[f]
      /\ p \in Objects /\ ObjectSound(p)
      /\ \A a \in Adds : a # op => p.count[a] = o.count[a]
      /\ op # "campaigns.add" /\ o.state # "ON" => p.state # "ON"
  <2>1. ASSUME NEW q \in Effects(o, op) \cup {o}
        PROVE  /\ q \in Objects /\ ObjectSound(q)
               /\ \A a \in Adds : a # op => q.count[a] = o.count[a]
               /\ op # "campaigns.add" /\ o.state # "ON" => q.state # "ON"
    BY <1>1, <1>2, <2>1, EffectsNext
  <2>2. PICK q \in Effects(o, op) \cup {o} :
          account' = account \/ account' = [account EXCEPT ![e] = q]
    BY <1>4
  <2>3. account' = account \/ account' = [account EXCEPT ![e] = q] => p \in {o, q}
    BY <1>1 DEF TypeOK
  <2>4. p \in Effects(o, op) \cup {o}
    BY <2>2, <2>3
  <2>5. /\ account' \in [Executions -> Objects]
        /\ \A f \in Executions \ {e} : account'[f] = account[f]
    BY <1>1, <2>1, <2>2, SMTT(30) DEF TypeOK
  <2>. QED
    BY <2>1, <2>4, <2>5
<1>6. /\ Known(v.rec, p) /\ AdTrue(v.rec.ad, p)
      /\ "NON_SERVING_CONFIRMED" \in v.steps =>
           "campaigns.add" \in v.rec.ids /\ p.state # "ON"
  BY <1>1, <1>2, <1>5 DEF Known, AdTrue, Adds
<1>7. RecordSound(rows[e], p)
  BY <1>1, <1>6 DEF RecordSound, TerminalSuccess
<1>8. /\ rows' \in [Executions -> DirectExecutionRecord] /\ lock' \in AccountLock
      /\ rows' = rows /\ lock' = lock
  BY <1>1 DEF TypeOK
<1>9. v.err \in {"rejected", "unattempted"} => op \notin Adds
  BY <1>1, <1>3, NoneIsNoName DEF Errors
<1>10. ASSUME NEW err \in Errors, Become(w, Raise(v, err)),
              err \in {"rejected", "unattempted"} => p = o
       PROVE  After(w)
  <2>1. (IF v.containing THEN v.err ELSE err) \in {"rejected", "unattempted"}
          /\ v.rec.pending \in Adds => p.count[v.rec.pending] = 0
    BY <1>1, <1>2, <1>9, <1>10
  <2>2. /\ Raise(v, err) \in Worker /\ Raise(v, err).item = e
        /\ Raise(v, err).pc # "idle" /\ Local(Raise(v, err), rows[e], p, lock)
    BY <1>1, <1>5, <1>6, <2>1, RaiseLocal
  <2>. QED
    BY <1>1, <1>5, <1>7, <1>8, <1>10, <2>2, BecomeAfter
<1>11. ASSUME NEW point \in {"lost", "confirm", "progress"}, Goto(w, point),
              point = "confirm" => op = "campaigns.suspend",
              point = "progress" => p \in Effects(o, op) /\ op # "campaigns.suspend"
       PROVE  After(w)
  <2> DEFINE x == [v EXCEPT !.pc = point]
  <2>1. /\ x \in Worker /\ x.pc = point /\ x.rec = v.rec /\ x.item = e /\ x.at = v.at
        /\ x.steps = v.steps /\ x.err = v.err /\ x.containing = v.containing
        /\ x.containment = None
    BY <1>1, <1>11 DEF Worker, Points
  <2>2. Become(w, x)
    BY <1>1, <1>11 DEF Goto, Become, TypeOK
  <2>. HIDE DEF x
  <2>3. Operation(x) = op /\ (v.containing => op = "campaigns.suspend")
        /\ (~v.containing => op = Stages[v.at])
    BY <2>1 DEF Operation, op
  <2>4. Standing(x, rows[e]) /\ Opening(x) /\ AtStage(x) /\ Pending(x) /\ AdKnown(x)
    BY <1>1, <1>11, <2>1, <2>3 DEF Standing, Opening, AtStage, Pending, AdKnown, Creating
  <2>5. point = "progress" => v.at # 8 /\ Stages[v.at] # "campaigns.suspend"
    BY <1>1, <1>11, <2>3, StageNames DEF Mutations, Adds
  <2>6. Answered(x, rows[e], p) /\ Effected(x, p)
    BY <1>1, <1>6, <1>9, <1>11, <2>1, <2>5 DEF Answered, Answering, Effected, AdTrue
  <2>7. Local(x, rows[e], p, lock)
    BY <1>1, <2>1, <2>4, <2>6 DEF Local
  <2>. QED
    BY <1>1, <1>5, <1>7, <1>8, <2>1, <2>2, <2>7, BecomeAfter
<1>12. CASE /\ \E q \in Effects(o, op) : account' = [account EXCEPT ![e] = q]
            /\ Goto(w, IF op = "campaigns.suspend" THEN "confirm" ELSE "progress")
  <2>1. p \in Effects(o, op)
    BY <1>1, <1>12 DEF TypeOK
  <2>2. CASE op = "campaigns.suspend"
    BY <1>11, <1>12, <2>2
  <2>3. CASE op # "campaigns.suspend"
    BY <1>11, <1>12, <2>1, <2>3
  <2>. QED
    BY <2>2, <2>3
<1>13. CASE UNCHANGED account /\ Become(w, Raise(v, "rejected"))
  BY <1>10, <1>13 DEF Errors
<1>14. CASE Goto(w, "lost")
  BY <1>11, <1>14
<1>15. CASE Become(w, Raise(v, "recon"))
  BY <1>10, <1>15 DEF Errors
<1>16. CASE Become(w, Raise(v, "plain"))
  BY <1>10, <1>16 DEF Errors
<1>. QED
  BY <1>4, <1>12, <1>13, <1>14, <1>15, <1>16

LEMMA LostResultAfter ==
  ASSUME NEW w \in Workers, Before(w), LostResult(w)
  PROVE  After(w)
<1> DEFINE v == worker[w]
           e == worker[w].item
           o == account[e]
           rec == [v.rec EXCEPT !.status = "RECONCILIATION_REQUIRED"]
           y == [v EXCEPT !.rec = rec]
<1>1. /\ v \in Worker /\ e \in Executions /\ o \in Objects /\ v.rec \in DirectExecutionRecord
      /\ v.pc = "lost" /\ v.rec.ad = None /\ lock.holder = e /\ v.containment = None
      /\ v.at > 1 => "campaigns.add" \in v.rec.ids
      /\ TypeOK /\ RecordSound(rows[e], o) /\ ObjectSound(o) /\ lock \in AccountLock
      /\ UNCHANGED account
  <2>1. v.pc = "lost" /\ UNCHANGED account
    BY DEF LostResult
  <2>. QED
    BY <2>1, BeforeFacts DEF AtStage, AdKnown, Owning, Points, Creating
<1>2. /\ Known(v.rec, o)
      /\ v.err \in {"rejected", "unattempted"} /\ v.rec.pending \in Adds =>
           o.count[v.rec.pending] = 0
      /\ "NON_SERVING_CONFIRMED" \in v.steps =>
           "campaigns.add" \in v.rec.ids /\ o.state # "ON"
  BY <1>1, BeforeFacts DEF Effected, Creating
<1>3. /\ rec \in DirectExecutionRecord /\ rec.pending = v.rec.pending
      /\ rec.status = "RECONCILIATION_REQUIRED" /\ rec.ad = None /\ rec.ids = v.rec.ids
  BY <1>1 DEF DirectExecutionRecord, Statuses
<1>. HIDE DEF rec
<1>4. Known(rec, o) /\ RecordSound(rec, o) /\ AdTrue(rec.ad, o)
  BY <1>2, <1>3 DEF Known, RecordSound, AdTrue, TerminalSuccess
<1>5. /\ y \in Worker /\ y.item = e /\ y.rec = rec /\ y.steps = v.steps /\ y.at = v.at
      /\ y.containing = v.containing /\ y.containment = None /\ y.err = v.err
  BY <1>1, <1>3 DEF Worker
<1>. HIDE DEF y
<1>6. (Saved(e, rec) \/ NotSaved(e, rec)) /\ Become(w, Raise(y, "recon"))
  BY DEF LostResult, rec, y
<1>7. /\ rows' \in [Executions -> DirectExecutionRecord] /\ lock' \in AccountLock
      /\ account' \in [Executions -> Objects]
      /\ \A f \in Executions \ {e} : rows'[f] = rows[f] /\ account'[f] = account[f]
      /\ lock'.holder = lock.holder /\ (lock' # lock => lock.holder = e)
      /\ RecordSound(rows'[e], account'[e])
  BY <1>1, <1>3, <1>4, <1>6, SavedSound
<1>8. /\ Raise(y, "recon") \in Worker /\ Raise(y, "recon").item = e
      /\ Raise(y, "recon").pc # "idle" /\ Local(Raise(y, "recon"), rows'[e], o, lock')
  <2>1. /\ rows'[e] \in DirectExecutionRecord /\ lock'.holder = y.item
        /\ "recon" \in Errors
        /\ y.at > 1 => "campaigns.add" \in y.rec.ids
        /\ (IF y.containing THEN y.err ELSE "recon") \in {"rejected", "unattempted"}
             /\ y.rec.pending \in Adds => o.count[y.rec.pending] = 0
        /\ "NON_SERVING_CONFIRMED" \in y.steps =>
             "campaigns.add" \in y.rec.ids /\ o.state # "ON"
    BY <1>1, <1>2, <1>3, <1>5, <1>7 DEF Errors
  <2>. QED
    BY <1>1, <1>4, <1>5, <1>7, <2>1, RaiseLocal
<1>. QED
  BY <1>1, <1>6, <1>7, <1>8, BecomeAfter

\* An error of a read, or of what it found.
LEMMA ReadErrorAfter ==
  ASSUME NEW w \in Workers, Before(w), UNCHANGED <<rows, lock, account>>,
         worker[w].pc \in {"confirm", "probe", "read", "contain"},
         NEW err \in {"recon", "plain"}, Become(w, Raise(worker[w], err))
  PROVE  After(w)
<1> DEFINE v == worker[w]
           e == worker[w].item
           o == account[e]
<1>1. /\ v \in Worker /\ e \in Executions /\ o \in Objects /\ v.rec \in DirectExecutionRecord
      /\ rows[e] \in DirectExecutionRecord /\ lock \in AccountLock
      /\ v.rec.ad = None /\ lock.holder = e /\ v.containment = None
      /\ v.at > 1 => "campaigns.add" \in v.rec.ids
  BY BeforeFacts DEF AtStage, AdKnown, Owning, Points, Creating
<1>2. /\ Known(v.rec, o) /\ AdTrue(v.rec.ad, o) /\ err \in Errors
      /\ (IF v.containing THEN v.err ELSE err) \in {"rejected", "unattempted"}
           /\ v.rec.pending \in Adds => o.count[v.rec.pending] = 0
      /\ "NON_SERVING_CONFIRMED" \in v.steps =>
           "campaigns.add" \in v.rec.ids /\ o.state # "ON"
  BY <1>1, BeforeFacts DEF Effected, Creating, Errors
<1>3. /\ Raise(v, err) \in Worker /\ Raise(v, err).item = e
      /\ Raise(v, err).pc # "idle" /\ Local(Raise(v, err), rows[e], o, lock)
  BY <1>1, <1>2, RaiseLocal
<1>. QED
  BY <1>3, ReadAfter

\* Errors of a read are ambiguous or plain.
LEMMA ReadErrorKinds == ReadErrors \subseteq {"recon", "plain"}
BY DEF ReadErrors

LEMMA ConfirmAfter ==
  ASSUME NEW w \in Workers, Before(w), ConfirmSuspended(w)
  PROVE  After(w)
<1> DEFINE v == worker[w]
           e == worker[w].item
           o == account[e]
           found == IF NonServing(e) THEN "NON_SERVING_CONFIRMED"
                    ELSE "MANUAL_RECONCILIATION_REQUIRED"
           x == [v EXCEPT !.pc = "contained", !.containment = found]
           y == [v EXCEPT !.pc = "progress"]
<1>1. /\ v \in Worker /\ e \in Executions /\ o \in Objects /\ v.rec \in DirectExecutionRecord
      /\ rows[e] \in DirectExecutionRecord /\ lock \in AccountLock
      /\ v.pc = "confirm" /\ v.rec.ad = None /\ lock.holder = e /\ v.containment = None
      /\ v.at > 1 => "campaigns.add" \in v.rec.ids
      /\ Operation(v) = "campaigns.suspend" /\ v.rec.pending = "campaigns.suspend"
      /\ UNCHANGED <<rows, lock, account>> /\ (~v.containing => v.err = None)
  <2>1. v.pc = "confirm" /\ UNCHANGED <<rows, lock, account>>
    BY DEF ConfirmSuspended
  <2>. QED
    BY <2>1, BeforeFacts DEF AtStage, AdKnown, Owning, Points, Creating, Pending, Opening
<1>2. /\ Known(v.rec, o)
      /\ "NON_SERVING_CONFIRMED" \in v.steps =>
           "campaigns.add" \in v.rec.ids /\ o.state # "ON"
  BY <1>1, BeforeFacts DEF Effected, Creating
<1>3. \/ v.containing /\ Become(w, x)
      \/ ~v.containing /\ o.state = "SUSPENDED" /\ Become(w, y)
      \/ \E err \in {"recon", "plain"} : Become(w, Raise(v, err))
  BY <1>1, ReadErrorKinds DEF ConfirmSuspended, Goto, Become, TypeOK
<1>4. CASE v.containing /\ Become(w, x)
  <2>1. found \in Containments
    BY DEF Containments, Unresolved
  <2>. HIDE DEF found
  <2>2. /\ x \in Worker /\ x.pc = "contained" /\ x.rec = v.rec /\ x.item = e
        /\ x.at = v.at /\ x.steps = v.steps
    BY <1>1, <2>1 DEF Worker, Points
  <2>3. "campaigns.suspend" \notin Adds
    BY DEF Adds
  <2>. HIDE DEF x
  <2>4. Local(x, rows[e], o, lock)
    BY <1>1, <1>2, <2>2, <2>3
       DEF Local, Standing, Opening, AtStage, Pending, AdKnown, Effected, Answered,
           Answering, AdTrue
  <2>. QED
    BY <1>1, <1>4, <2>2, <2>4, ReadAfter
<1>5. CASE ~v.containing /\ o.state = "SUSPENDED" /\ Become(w, y)
  <2>1. /\ y \in Worker /\ y.pc = "progress" /\ y.rec = v.rec /\ y.item = e
        /\ y.at = v.at /\ y.steps = v.steps /\ y.containing = v.containing
        /\ y.containment = None /\ y.err = None
    BY <1>1, <1>5 DEF Worker, Points
  <2>2. Stages[v.at] = "campaigns.suspend" /\ v.at # 8 /\ "campaigns.suspend" \notin Adds
    BY <1>1, <1>5, StageNames DEF Operation, Adds
  <2>. HIDE DEF y
  <2>3. Standing(y, rows[e]) /\ Opening(y) /\ AtStage(y) /\ Pending(y) /\ AdKnown(y)
    BY <1>1, <1>5, <2>1, <2>2 DEF Standing, Opening, AtStage, Pending, AdKnown
  <2>4. Answered(y, rows[e], o) /\ Effected(y, o)
    BY <1>1, <1>2, <1>5, <2>1, <2>2, NoneIsNoName
       DEF Answered, Answering, Effected, AdTrue, Errors
  <2>5. Local(y, rows[e], o, lock)
    BY <1>1, <2>1, <2>3, <2>4 DEF Local
  <2>. QED
    BY <1>1, <1>5, <2>1, <2>5, ReadAfter
<1>6. CASE \E err \in {"recon", "plain"} : Become(w, Raise(v, err))
  BY <1>1, <1>6, ReadErrorAfter
<1>. QED
  BY <1>3, <1>4, <1>5, <1>6

LEMMA ProbeAfter ==
  ASSUME NEW w \in Workers, Before(w), ProbeSuspended(w)
  PROVE  After(w)
<1> DEFINE v == worker[w]
           e == worker[w].item
           o == account[e]
           y == [v EXCEPT !.pc = "progress"]
           z == [v EXCEPT !.pc = "intend"]
<1>1. /\ v \in Worker /\ e \in Executions /\ o \in Objects /\ v.rec \in DirectExecutionRecord
      /\ rows[e] \in DirectExecutionRecord /\ lock \in AccountLock
      /\ v.pc = "probe" /\ v.rec.ad = None /\ lock.holder = e /\ v.containment = None
      /\ v.at > 1 => "campaigns.add" \in v.rec.ids
      /\ Stages[v.at] = "campaigns.suspend" /\ v.rec.pending = None /\ ~v.containing
      /\ UNCHANGED <<rows, lock, account>> /\ v.err = None
  <2>1. v.pc = "probe" /\ UNCHANGED <<rows, lock, account>>
    BY DEF ProbeSuspended
  <2>. QED
    BY <2>1, BeforeFacts DEF AtStage, AdKnown, Owning, Points, Creating, Pending, Opening
<1>2. /\ Known(v.rec, o)
      /\ "NON_SERVING_CONFIRMED" \in v.steps =>
           "campaigns.add" \in v.rec.ids /\ o.state # "ON"
  BY <1>1, BeforeFacts DEF Effected, Creating
<1>3. \/ o.state = "SUSPENDED" /\ Become(w, y)
      \/ Become(w, z)
      \/ \E err \in {"recon", "plain"} : Become(w, Raise(v, err))
  BY <1>1, ReadErrorKinds DEF ProbeSuspended, Goto, Become, TypeOK
<1>4. v.at # 8 /\ "campaigns.suspend" \notin Adds /\ "campaigns.suspend" \in Mutations
  BY <1>1, BeforeFacts, StageNames DEF Adds, Mutations
<1>5. CASE o.state = "SUSPENDED" /\ Become(w, y)
  <2>1. /\ y \in Worker /\ y.pc = "progress" /\ y.rec = v.rec /\ y.item = e
        /\ y.at = v.at /\ y.steps = v.steps /\ ~y.containing
        /\ y.containment = None /\ y.err = None
    BY <1>1 DEF Worker, Points
  <2>. HIDE DEF y
  <2>2. Standing(y, rows[e]) /\ Opening(y) /\ AtStage(y) /\ Pending(y) /\ AdKnown(y)
    BY <1>1, <1>4, <2>1 DEF Standing, Opening, AtStage, Pending, AdKnown, Creating
  <2>3. Answered(y, rows[e], o) /\ Effected(y, o)
    BY <1>1, <1>2, <1>4, <1>5, <2>1, NoneIsNoName
       DEF Answered, Answering, Effected, AdTrue, Errors
  <2>4. Local(y, rows[e], o, lock)
    BY <1>1, <2>1, <2>2, <2>3 DEF Local
  <2>. QED
    BY <1>1, <1>5, <2>1, <2>4, ReadAfter
<1>6. CASE Become(w, z)
  <2>1. /\ z \in Worker /\ z.pc = "intend" /\ z.rec = v.rec /\ z.item = e
        /\ z.at = v.at /\ z.steps = v.steps /\ ~z.containing
        /\ z.containment = None /\ z.err = None
    BY <1>1 DEF Worker, Points
  <2>. HIDE DEF z
  <2>2. Operation(z) = "campaigns.suspend"
    BY <1>1, <2>1 DEF Operation
  <2>3. Standing(z, rows[e]) /\ Opening(z) /\ AtStage(z) /\ Pending(z) /\ AdKnown(z)
    BY <1>1, <1>4, <2>1, <2>2 DEF Standing, Opening, AtStage, Pending, AdKnown, Creating
  <2>4. Answered(z, rows[e], o) /\ Effected(z, o)
    BY <1>1, <1>2, <2>1, NoneIsNoName
       DEF Answered, Answering, Effected, AdTrue, Errors
  <2>5. Local(z, rows[e], o, lock)
    BY <1>1, <2>1, <2>3, <2>4 DEF Local
  <2>. QED
    BY <1>1, <1>6, <2>1, <2>5, ReadAfter
<1>7. CASE \E err \in {"recon", "plain"} : Become(w, Raise(v, err))
  BY <1>1, <1>7, ReadErrorAfter
<1>. QED
  BY <1>3, <1>5, <1>6, <1>7

LEMMA ReadGraphAfter ==
  ASSUME NEW w \in Workers, Before(w), ReadAndVerifyGraph(w)
  PROVE  After(w)
<1> DEFINE v == worker[w]
           e == worker[w].item
           o == account[e]
           ad == IF Stages[v.at] = "final" THEN o.ad ELSE None
           y == [v EXCEPT !.pc = "progress", !.rec.ad = ad]
<1>1. /\ v \in Worker /\ e \in Executions /\ o \in Objects /\ v.rec \in DirectExecutionRecord
      /\ rows[e] \in DirectExecutionRecord /\ lock \in AccountLock /\ v.at \in 1..8
      /\ v.pc = "read" /\ v.rec.ad = None /\ lock.holder = e /\ v.containment = None
      /\ v.at > 1 => "campaigns.add" \in v.rec.ids
      /\ Stages[v.at] \in {"graph", "final"} /\ v.rec.pending = None /\ ~v.containing
      /\ UNCHANGED <<rows, lock, account>> /\ v.err = None
  <2>1. v.pc = "read" /\ UNCHANGED <<rows, lock, account>>
    BY DEF ReadAndVerifyGraph
  <2>. QED
    BY <2>1, BeforeFacts DEF AtStage, AdKnown, Owning, Points, Creating, Pending, Opening
<1>2. /\ Known(v.rec, o)
      /\ "NON_SERVING_CONFIRMED" \in v.steps =>
           "campaigns.add" \in v.rec.ids /\ o.state # "ON"
  BY <1>1, BeforeFacts DEF Effected, Creating
<1>3. \/ GraphVerified(e) /\ Become(w, y)
      \/ \E err \in {"recon", "plain"} : Become(w, Raise(v, err))
  BY <1>1, ReadErrorKinds DEF ReadAndVerifyGraph
<1>4. CASE GraphVerified(e) /\ Become(w, y)
  <2>1. /\ Verified(o) /\ ad \in AdStatuses \cup {None}
        /\ v.at = 8 <=> Stages[v.at] = "final"
    BY <1>1, <1>4, StageNames DEF GraphVerified, Verified, Objects
  <2>2. AdTrue(ad, o) /\ (ad # None => v.at = 8)
    BY <2>1 DEF AdTrue
  <2>. HIDE DEF ad
  <2>3. /\ y \in Worker /\ y.pc = "progress" /\ y.item = e
        /\ y.at = v.at /\ y.steps = v.steps /\ ~y.containing
        /\ y.containment = None /\ y.err = None
        /\ y.rec.ad = ad /\ y.rec.ids = v.rec.ids /\ y.rec.pending = None
    BY <1>1, <2>1 DEF Worker, Points, DirectExecutionRecord
  <2>. HIDE DEF y
  <2>4. Standing(y, rows[e]) /\ Opening(y) /\ AtStage(y) /\ Pending(y) /\ AdKnown(y)
    BY <1>1, <2>2, <2>3 DEF Standing, Opening, AtStage, Pending, AdKnown, Creating
  <2>5. Known(y.rec, o) /\ Stages[v.at] # "campaigns.suspend"
    BY <1>1, <1>2, <2>3 DEF Known
  <2>6. Answered(y, rows[e], o) /\ Effected(y, o)
    BY <1>1, <1>2, <2>1, <2>2, <2>3, <2>5, NoneIsNoName
       DEF Answered, Answering, Effected, Errors
  <2>7. Local(y, rows[e], o, lock)
    BY <1>1, <2>3, <2>4, <2>6 DEF Local
  <2>. QED
    BY <1>1, <1>4, <2>3, <2>7, ReadAfter
<1>5. CASE \E err \in {"recon", "plain"} : Become(w, Raise(v, err))
  BY <1>1, <1>5, ReadErrorAfter
<1>. QED
  BY <1>3, <1>4, <1>5

\* The record a stage leaves: its intent is done, its object known.
LEMMA ProgressNext ==
  ASSUME NEW v \in Worker, NEW o \in Objects, v.rec \in DirectExecutionRecord,
         v.at \in 1..8, v.steps \subseteq Steps,
         v.pc = "progress", AtStage(v), Pending(v), AdKnown(v), Effected(v, o)
  PROVE  LET rec == ProgressRecord(v)
         IN /\ rec \in DirectExecutionRecord /\ RecordSound(rec, o)
            /\ v.rec.ids \subseteq rec.ids /\ rec.ad = v.rec.ad
            /\ rec.pending = None /\ rec.containment = None
            /\ v.at = 8 => rec.status \in TerminalSuccess
            /\ rec.status \notin TerminalFailure
            /\ "campaigns.add" \in rec.ids
            /\ "NON_SERVING_CONFIRMED" \in rec.steps => o.state # "ON"
<1> DEFINE s == Stages[v.at]
           step == IF s = "campaigns.suspend" \/ (s = "ads.moderate" /\ ~v.moderated)
                     THEN {StepOf(s)} ELSE {}
           status == IF s = "final" THEN CompletedStatus(v.rec.ad) ELSE "OPEN"
           pending == IF v.rec.pending = s THEN None ELSE v.rec.pending
           rec == [v.rec EXCEPT !.pending = pending, !.status = status,
                     !.ids = @ \cup ({s} \cap Adds), !.steps = v.steps \cup step,
                     !.containment = None, !.unattempted = FALSE]
<1>1. ProgressRecord(v) = rec
  BY DEF ProgressRecord
<1>2. /\ v.rec.pending \in {None, s} /\ (v.at > 1 => "campaigns.add" \in v.rec.ids)
      /\ v.rec.ad # None => v.at = 8
      /\ Known(v.rec, o) /\ AdTrue(v.rec.ad, o) /\ (v.at = 8 => Verified(o))
      /\ "NON_SERVING_CONFIRMED" \in v.steps => o.state # "ON"
      /\ s = "campaigns.suspend" => o.state = "SUSPENDED"
  BY DEF AtStage, Pending, AdKnown, Effected, Creating
<1>3. /\ s \in Mutations \cup {"graph", "final"} /\ (s = "campaigns.add" <=> v.at = 1)
      /\ s = "final" <=> v.at = 8
  BY StageNames
<1>4. /\ step \subseteq Steps
      /\ "NON_SERVING_CONFIRMED" \in step => s = "campaigns.suspend"
  BY DEF StepOf, Steps
<1>5. /\ status \in {"OPEN"} \cup TerminalSuccess
      /\ status \in TerminalSuccess <=> v.at = 8
  BY <1>3 DEF CompletedStatus, TerminalSuccess
<1>6. pending = None
  BY <1>2
<1>. HIDE DEF s, step, status, pending
<1>7. /\ rec \in DirectExecutionRecord /\ rec.pending = None /\ rec.status = status
      /\ rec.ids = v.rec.ids \cup ({s} \cap Adds) /\ rec.steps = v.steps \cup step
      /\ rec.containment = None /\ rec.unattempted = FALSE /\ rec.ad = v.rec.ad
  BY <1>4, <1>5, <1>6 DEF DirectExecutionRecord, Statuses, Containments
<1>. HIDE DEF rec
<1>8. "campaigns.add" \in rec.ids
  <2>1. v.at = 1 \/ v.at > 1
    OBVIOUS
  <2>2. CASE v.at = 1
    BY <1>3, <1>7, <2>2 DEF Adds
  <2>3. CASE v.at > 1
    BY <1>2, <1>7, <2>3
  <2>. QED
    BY <2>1, <2>2, <2>3
<1>9. Known(rec, o)
  BY <1>2, <1>7, NoneIsNoName DEF Known
<1>10. RecordSound(rec, o)
  BY <1>2, <1>5, <1>7, <1>9 DEF RecordSound, TerminalSuccess
<1>11. rec.status \notin TerminalFailure
  BY <1>5, <1>7 DEF TerminalFailure, TerminalSuccess
<1>. QED
  BY <1>1, <1>2, <1>4, <1>5, <1>7, <1>8, <1>10, <1>11

LEMMA ProgressAfter ==
  ASSUME NEW w \in Workers, Before(w), PersistProgress(w)
  PROVE  After(w)
<1> DEFINE v == worker[w]
           e == worker[w].item
           o == account[e]
           rec == ProgressRecord(v)
           next == [v EXCEPT !.rec = rec, !.steps = rec.steps]
           held == [rec EXCEPT !.pending = v.rec.pending]
           y == [next EXCEPT !.rec.pending = v.rec.pending]
           x == [next EXCEPT !.pc = "finish"]
<1>1. /\ v \in Worker /\ e \in Executions /\ o \in Objects /\ v.rec \in DirectExecutionRecord
      /\ v.pc = "progress" /\ lock.holder = e /\ v.containment = None
      /\ ~v.containing /\ v.err = None /\ v.at \in 1..8 /\ v.steps \subseteq Steps
      /\ v.rec.ad # None => v.at = 8
      /\ TypeOK /\ RecordSound(rows[e], o) /\ ObjectSound(o) /\ lock \in AccountLock
      /\ UNCHANGED account
  <2>1. v.pc = "progress" /\ UNCHANGED account
    BY DEF PersistProgress
  <2>. QED
    BY <2>1, BeforeFacts DEF AtStage, AdKnown, Owning, Points, Opening, Worker
<1>2. Known(v.rec, o) /\ AdTrue(v.rec.ad, o) /\ (v.at = 8 => Verified(o))
  BY <1>1, BeforeFacts DEF Effected, Creating
<1>3. /\ rec \in DirectExecutionRecord /\ RecordSound(rec, o)
      /\ v.rec.ids \subseteq rec.ids /\ rec.ad = v.rec.ad
      /\ rec.pending = None /\ rec.containment = None
      /\ v.at = 8 => rec.status \in TerminalSuccess
      /\ "campaigns.add" \in rec.ids
      /\ "NON_SERVING_CONFIRMED" \in rec.steps => o.state # "ON"
  BY <1>1, BeforeFacts, ProgressNext
<1>. HIDE DEF rec
<1>4. /\ next \in Worker /\ next.rec = rec /\ next.steps = rec.steps /\ next.item = e
      /\ next.at = v.at /\ ~next.containing /\ next.containment = None /\ next.err = None
  BY <1>1, <1>3 DEF Worker, DirectExecutionRecord
<1>5. \/ Saved(e, rec) /\ v.at = 8 /\ Become(w, x)
      \/ Saved(e, rec) /\ v.at # 8 /\ Become(w, Arrive(next, v.at + 1))
      \/ NotSaved(e, rec) /\ Become(w, Raise(y, "recon"))
  BY StageNames DEF PersistProgress, rec
<1>6. /\ rows' \in [Executions -> DirectExecutionRecord] /\ lock' \in AccountLock
      /\ account' \in [Executions -> Objects]
      /\ \A f \in Executions \ {e} : rows'[f] = rows[f] /\ account'[f] = account[f]
      /\ lock'.holder = lock.holder /\ (lock' # lock => lock.holder = e)
      /\ RecordSound(rows'[e], account'[e])
  BY <1>1, <1>3, <1>5, SavedSound
<1>7. Known(rec, o)
  BY <1>3 DEF RecordSound
<1>8. CASE v.at = 8 /\ Become(w, x)
  <2>1. /\ x \in Worker /\ x.pc = "finish" /\ x.rec = rec /\ x.item = e /\ x.at = 8
        /\ x.steps = rec.steps /\ ~x.containing /\ x.containment = None /\ x.err = None
    BY <1>4, <1>8 DEF Worker, Points
  <2>. HIDE DEF x
  <2>2. Standing(x, rows'[e]) /\ Opening(x) /\ AtStage(x) /\ Pending(x) /\ AdKnown(x)
    BY <1>3, <1>8, <2>1 DEF Standing, Opening, AtStage, Pending, AdKnown
  <2>3. Answered(x, rows'[e], o) /\ Effected(x, o)
    BY <1>2, <1>3, <1>7, <1>8, <2>1, NoneIsNoName
       DEF Answered, Answering, Effected, Errors
  <2>4. Local(x, rows'[e], o, lock')
    BY <1>1, <1>6, <2>1, <2>2, <2>3 DEF Local
  <2>. QED
    BY <1>1, <1>6, <1>8, <2>1, <2>4, BecomeAfter
<1>9. CASE v.at # 8 /\ Become(w, Arrive(next, v.at + 1))
  <2> DEFINE n == v.at + 1
  <2>1. /\ n \in 1..8 /\ rows'[e] \in DirectExecutionRecord /\ lock'.holder = next.item
        /\ Known(next.rec, o) /\ next.rec.pending = None /\ next.rec.ad = None
        /\ "campaigns.add" \in next.rec.ids
        /\ "NON_SERVING_CONFIRMED" \in next.steps => o.state # "ON"
    BY <1>1, <1>3, <1>4, <1>6, <1>7, <1>9, SMTT(30)
  <2>. HIDE DEF n, next
  <2>2. /\ Arrive(next, n) \in Worker /\ Arrive(next, n).item = e
        /\ Arrive(next, n).pc # "idle" /\ Local(Arrive(next, n), rows'[e], o, lock')
    BY <1>1, <1>4, <1>6, <2>1, ArriveLocal, SMTT(30)
  <2>3. Become(w, Arrive(next, n))
    BY <1>9 DEF n, next
  <2>. QED
    BY <1>1, <1>6, <2>2, <2>3, BecomeAfter
<1>10. CASE Become(w, Raise(y, "recon"))
  <2>1. /\ held \in DirectExecutionRecord /\ held.pending = v.rec.pending
        /\ held.ids = rec.ids /\ held.ad = rec.ad
    BY <1>1, <1>3 DEF DirectExecutionRecord
  <2>2. y = [next EXCEPT !.rec = held]
    BY <1>3, <1>4 DEF Worker
  <2>. HIDE DEF held
  <2>3. /\ y \in Worker /\ y.rec = held /\ y.item = e /\ y.at = v.at /\ y.steps = rec.steps
        /\ ~y.containing /\ y.containment = None
    BY <1>4, <2>1, <2>2 DEF Worker
  <2>. HIDE DEF y
  <2>4. /\ Known(y.rec, o) /\ AdTrue(y.rec.ad, o) /\ "campaigns.add" \in y.rec.ids
        /\ "NON_SERVING_CONFIRMED" \in y.steps => o.state # "ON"
        /\ "recon" \in Errors /\ rows'[e] \in DirectExecutionRecord /\ lock'.holder = y.item
        /\ (IF y.containing THEN y.err ELSE "recon") \in {"rejected", "unattempted"}
             /\ y.rec.pending \in Adds => o.count[y.rec.pending] = 0
    BY <1>1, <1>2, <1>3, <1>6, <2>1, <2>3 DEF Known, Errors
  <2>5. /\ Raise(y, "recon") \in Worker /\ Raise(y, "recon").item = e
        /\ Raise(y, "recon").pc # "idle" /\ Local(Raise(y, "recon"), rows'[e], o, lock')
    BY <1>1, <1>6, <2>3, <2>4, RaiseLocal
  <2>. QED
    BY <1>1, <1>6, <1>10, <2>5, BecomeAfter
<1>. QED
  BY <1>5, <1>8, <1>9, <1>10

LEMMA ContainAfter ==
  ASSUME NEW w \in Workers, Before(w), EnsureNonServing(w)
  PROVE  After(w)
<1> DEFINE v == worker[w]
           e == worker[w].item
           o == account[e]
           x == [v EXCEPT !.pc = "contained", !.containment = "NON_SERVING_CONFIRMED"]
           z == [v EXCEPT !.pc = "intend"]
<1>1. /\ v \in Worker /\ e \in Executions /\ o \in Objects /\ v.rec \in DirectExecutionRecord
      /\ rows[e] \in DirectExecutionRecord /\ lock \in AccountLock
      /\ v.pc = "contain" /\ v.rec.ad = None /\ lock.holder = e /\ v.containment = None
      /\ v.at > 1 => "campaigns.add" \in v.rec.ids
      /\ v.containing /\ UNCHANGED <<rows, lock, account>>
  <2>1. v.pc = "contain" /\ UNCHANGED <<rows, lock, account>>
    BY DEF EnsureNonServing
  <2>. QED
    BY <2>1, BeforeFacts DEF AtStage, AdKnown, Owning, Points, Creating
<1>2. /\ Known(v.rec, o)
      /\ v.err \in {"rejected", "unattempted"} /\ v.rec.pending \in Adds =>
           o.count[v.rec.pending] = 0
      /\ "NON_SERVING_CONFIRMED" \in v.steps =>
           "campaigns.add" \in v.rec.ids /\ o.state # "ON"
  BY <1>1, BeforeFacts DEF Effected, Creating
<1>3. \/ Become(w, x)
      \/ Become(w, z)
      \/ \E err \in {"recon", "plain"} : Become(w, Raise(v, err))
  BY <1>1, ReadErrorKinds DEF EnsureNonServing, Goto, Become, TypeOK
<1>4. CASE Become(w, x)
  <2>1. /\ x \in Worker /\ x.pc = "contained" /\ x.rec = v.rec /\ x.item = e
        /\ x.at = v.at /\ x.steps = v.steps /\ x.err = v.err
    BY <1>1 DEF Worker, Points, Containments
  <2>. HIDE DEF x
  <2>2. Local(x, rows[e], o, lock)
    BY <1>1, <1>2, <2>1
       DEF Local, Standing, Opening, AtStage, Pending, AdKnown, Effected, Answered,
           Answering, AdTrue
  <2>. QED
    BY <1>1, <1>4, <2>1, <2>2, ReadAfter
<1>5. CASE Become(w, z)
  <2>1. /\ z \in Worker /\ z.pc = "intend" /\ z.rec = v.rec /\ z.item = e
        /\ z.at = v.at /\ z.steps = v.steps /\ z.containing
        /\ z.containment = None /\ z.err = v.err
    BY <1>1 DEF Worker, Points
  <2>. HIDE DEF z
  <2>2. /\ Operation(z) = "campaigns.suspend" /\ "campaigns.suspend" \notin Adds
        /\ "campaigns.suspend" \in Mutations
    BY <2>1 DEF Operation, Adds, Mutations
  <2>3. Standing(z, rows[e]) /\ Opening(z) /\ AtStage(z) /\ Pending(z) /\ AdKnown(z)
    BY <1>1, <2>1, <2>2 DEF Standing, Opening, AtStage, Pending, AdKnown, Creating
  <2>4. Answered(z, rows[e], o) /\ Effected(z, o)
    BY <1>1, <1>2, <2>1, <2>2 DEF Answered, Answering, Effected, AdTrue
  <2>5. Local(z, rows[e], o, lock)
    BY <1>1, <2>1, <2>3, <2>4 DEF Local
  <2>. QED
    BY <1>1, <1>5, <2>1, <2>5, ReadAfter
<1>6. CASE \E err \in {"recon", "plain"} : Become(w, Raise(v, err))
  BY <1>1, <1>6, ReadErrorAfter
<1>. QED
  BY <1>3, <1>4, <1>5, <1>6

LEMMA PersistContainmentAfter ==
  ASSUME NEW w \in Workers, Before(w), PersistContainment(w)
  PROVE  After(w)
<1> DEFINE v == worker[w]
           e == worker[w].item
           o == account[e]
           confirmed == v.containment = "NON_SERVING_CONFIRMED"
           pending == IF confirmed /\ v.rec.pending = "campaigns.suspend" THEN None
                      ELSE v.rec.pending
           status == IF confirmed THEN "OPEN" ELSE "RECONCILIATION_REQUIRED"
           rec == [v.rec EXCEPT !.pending = pending, !.status = status, !.steps = v.steps,
                     !.containment = v.containment, !.unattempted = FALSE, !.ad = None]
           held == [rec EXCEPT !.pending = v.rec.pending]
           x == [v EXCEPT !.rec = rec, !.pc = "close"]
           y == [v EXCEPT !.rec = held, !.err = "recon", !.pc = "close"]
<1>1. /\ v \in Worker /\ e \in Executions /\ o \in Objects /\ v.rec \in DirectExecutionRecord
      /\ v.pc = "contained" /\ lock.holder = e
      /\ v.at > 1 => "campaigns.add" \in v.rec.ids
      /\ v.steps \subseteq Steps /\ v.containment \in Containments
      /\ TypeOK /\ RecordSound(rows[e], o) /\ ObjectSound(o) /\ lock \in AccountLock
      /\ UNCHANGED account
  <2>1. v.pc = "contained" /\ UNCHANGED account
    BY SMTT(30) DEF PersistContainment
  <2>. QED
    BY <2>1, BeforeFacts DEF AtStage, Owning, Points, Creating, Worker
<1>2. /\ Known(v.rec, o)
      /\ v.err \in {"rejected", "unattempted"} /\ v.rec.pending \in Adds =>
           o.count[v.rec.pending] = 0
      /\ "NON_SERVING_CONFIRMED" \in v.steps =>
           "campaigns.add" \in v.rec.ids /\ o.state # "ON"
  BY <1>1, BeforeFacts DEF Effected, Creating
<1>3. /\ pending \in {None, v.rec.pending} /\ (pending # v.rec.pending => v.rec.pending \notin Adds)
      /\ status \in {"OPEN", "RECONCILIATION_REQUIRED"}
  BY DEF Adds
<1>. HIDE DEF pending, status
<1>4. /\ rec \in DirectExecutionRecord /\ rec.pending = pending /\ rec.status = status
      /\ rec.ad = None /\ rec.ids = v.rec.ids
  BY <1>1, <1>3 DEF DirectExecutionRecord, Statuses
<1>. HIDE DEF rec
<1>5. /\ held \in DirectExecutionRecord /\ held.pending = v.rec.pending
      /\ held.ad = None /\ held.ids = v.rec.ids
  BY <1>1, <1>4 DEF DirectExecutionRecord
<1>. HIDE DEF held
<1>6. Known(rec, o) /\ RecordSound(rec, o) /\ Known(held, o)
  BY <1>2, <1>3, <1>4, <1>5 DEF Known, RecordSound, AdTrue, TerminalSuccess
<1>7. \/ Saved(e, rec) /\ Become(w, x)
      \/ NotSaved(e, rec) /\ Become(w, y)
  BY DEF PersistContainment, rec, held, pending, status
<1>8. /\ rows' \in [Executions -> DirectExecutionRecord] /\ lock' \in AccountLock
      /\ account' \in [Executions -> Objects]
      /\ \A f \in Executions \ {e} : rows'[f] = rows[f] /\ account'[f] = account[f]
      /\ lock'.holder = lock.holder /\ (lock' # lock => lock.holder = e)
      /\ RecordSound(rows'[e], account'[e])
  BY <1>1, <1>4, <1>6, <1>7, SavedSound, SMTT(30)
<1>9. ASSUME NEW z \in Worker, z \in {x, y}, Become(w, z)
      PROVE  After(w)
  <2>1. /\ z.pc = "close" /\ z.item = e /\ z.at = v.at /\ z.steps = v.steps
        /\ Known(z.rec, o) /\ z.rec.ad = None /\ z.rec.ids = v.rec.ids
        /\ z.err \in {"rejected", "unattempted"} /\ z.rec.pending \in Adds =>
             o.count[z.rec.pending] = 0
    <3>1. CASE z = x
      BY <1>1, <1>2, <1>3, <1>4, <1>6, <3>1, NoneIsNoName, SMTT(30) DEF Worker
    <3>2. CASE z = y
      BY <1>1, <1>2, <1>5, <1>6, <3>2, SMTT(30) DEF Worker
    <3>. QED
      BY <1>9, <3>1, <3>2, SMTT(30)
  <2>2. Local(z, rows'[e], o, lock')
    BY <1>1, <1>2, <1>8, <2>1
       DEF Local, Standing, Opening, AtStage, Pending, AdKnown, Effected, Answered,
           Answering, AdTrue
  <2>. QED
    BY <1>1, <1>8, <1>9, <2>1, <2>2, BecomeAfter
<1>10. x \in Worker /\ y \in Worker
  BY <1>1, <1>4, <1>5 DEF Worker, Points, Errors
<1>. QED
  BY <1>7, <1>9, <1>10

LEMMA FinishAfter ==
  ASSUME NEW w \in Workers, Before(w), Finish(w)
  PROVE  After(w)
<1> DEFINE v == worker[w]
           e == worker[w].item
           o == account[e]
           status == CompletedStatus(v.rec.ad)
           rec == [v.rec EXCEPT !.pending = None, !.status = status]
           x == [v EXCEPT !.rec = rec, !.pc = "release"]
           y == [v EXCEPT !.rec = rec, !.err = "plain", !.pc = "close"]
<1>1. /\ v \in Worker /\ e \in Executions /\ o \in Objects /\ v.rec \in DirectExecutionRecord
      /\ v.pc = "finish" /\ lock.holder = e /\ v.containment = None
      /\ v.at > 1 => "campaigns.add" \in v.rec.ids
      /\ ~v.containing /\ v.err = None /\ v.rec.pending = None /\ v.rec.containment = None
      /\ TypeOK /\ RecordSound(rows[e], o) /\ ObjectSound(o) /\ lock \in AccountLock
      /\ UNCHANGED account
  <2>1. v.pc = "finish" /\ UNCHANGED account
    BY DEF Finish
  <2>. QED
    BY <2>1, BeforeFacts DEF AtStage, AdKnown, Owning, Points, Opening, Pending, Creating
<1>2. /\ Known(v.rec, o) /\ AdTrue(v.rec.ad, o) /\ Verified(o) /\ RecordSound(v.rec, o)
      /\ "NON_SERVING_CONFIRMED" \in v.steps =>
           "campaigns.add" \in v.rec.ids /\ o.state # "ON"
  BY <1>1, BeforeFacts DEF Effected, Creating
<1>3. status \in TerminalSuccess
  BY DEF CompletedStatus, TerminalSuccess
<1>. HIDE DEF status
<1>4. /\ rec \in DirectExecutionRecord /\ rec.pending = None /\ rec.status = status
      /\ rec.ad = v.rec.ad /\ rec.ids = v.rec.ids /\ rec.containment = None
      /\ rec.unattempted = v.rec.unattempted
  BY <1>1, <1>3 DEF DirectExecutionRecord, Statuses
<1>. HIDE DEF rec
<1>5. Known(rec, o) /\ RecordSound(rec, o)
  BY <1>1, <1>2, <1>3, <1>4 DEF Known, RecordSound, TerminalSuccess
<1>6. \/ Saved(e, rec) /\ Become(w, x)
      \/ NotSaved(e, rec) /\ Become(w, y)
  BY DEF Finish, rec, status
<1>7. /\ rows' \in [Executions -> DirectExecutionRecord] /\ lock' \in AccountLock
      /\ account' \in [Executions -> Objects]
      /\ \A f \in Executions \ {e} : rows'[f] = rows[f] /\ account'[f] = account[f]
      /\ lock'.holder = lock.holder /\ (lock' # lock => lock.holder = e)
      /\ RecordSound(rows'[e], account'[e]) /\ (Saved(e, rec) => rows'[e] = rec)
  BY <1>1, <1>4, <1>5, <1>6, SavedSound
<1>8. CASE Saved(e, rec) /\ Become(w, x)
  <2>1. /\ x \in Worker /\ x.pc = "release" /\ x.rec = rec /\ x.item = e /\ x.at = v.at
        /\ x.steps = v.steps /\ ~x.containing /\ x.containment = None /\ x.err = None
    BY <1>1, <1>4 DEF Worker, Points
  <2>. HIDE DEF x
  <2>2. Standing(x, rows'[e]) /\ Opening(x) /\ AtStage(x) /\ Pending(x) /\ AdKnown(x)
    BY <1>1, <1>3, <1>4, <1>7, <1>8, <2>1
       DEF Standing, Opening, AtStage, Pending, AdKnown, Creating
  <2>3. Answered(x, rows'[e], o) /\ Effected(x, o)
    BY <1>2, <1>4, <1>5, <2>1, NoneIsNoName
       DEF Answered, Answering, Effected, Errors
  <2>4. Local(x, rows'[e], o, lock')
    BY <1>1, <1>7, <2>1, <2>2, <2>3 DEF Local
  <2>. QED
    BY <1>1, <1>7, <1>8, <2>1, <2>4, BecomeAfter
<1>9. CASE Become(w, y)
  <2>1. /\ y \in Worker /\ y.pc = "close" /\ y.rec = rec /\ y.item = e /\ y.at = v.at
        /\ y.steps = v.steps /\ y.containment = None /\ y.err = "plain"
    BY <1>1, <1>4 DEF Worker, Points, Errors
  <2>. HIDE DEF y
  <2>2. Local(y, rows'[e], o, lock')
    BY <1>1, <1>2, <1>4, <1>5, <1>7, <2>1
       DEF Local, Standing, Opening, AtStage, Pending, AdKnown, Effected, Answered, Answering
  <2>. QED
    BY <1>1, <1>7, <1>9, <2>1, <2>2, BecomeAfter
<1>. QED
  BY <1>6, <1>8, <1>9

LEMMA ReleaseAfter ==
  ASSUME NEW w \in Workers, Before(w), Release(w)
  PROVE  After(w)
<1> DEFINE v == worker[w]
           e == worker[w].item
           r == rows[e]
           o == account[e]
           y == [v EXCEPT !.err = "plain", !.pc = "close"]
<1>1. /\ v \in Worker /\ e \in Executions /\ o \in Objects /\ v.rec \in DirectExecutionRecord
      /\ v.pc = "release" /\ lock.holder = e /\ v.containment = None
      /\ v.at > 1 => "campaigns.add" \in v.rec.ids
      /\ v.rec.pending = None /\ v.rec.status \in TerminalSuccess /\ r.pending = None
      /\ TypeOK /\ RecordSound(r, o) /\ ObjectSound(o) /\ lock \in AccountLock
      /\ UNCHANGED <<rows, account>>
  <2>1. v.pc = "release" /\ UNCHANGED <<rows, account>>
    BY DEF Release
  <2>. QED
    BY <2>1, BeforeFacts DEF AtStage, AdKnown, Owning, Points, Pending, Creating, Standing
<1>2. /\ Known(v.rec, o) /\ AdTrue(v.rec.ad, o) /\ Verified(o)
      /\ "NON_SERVING_CONFIRMED" \in v.steps =>
           "campaigns.add" \in v.rec.ids /\ o.state # "ON"
  BY <1>1, BeforeFacts, SMTT(30) DEF Effected, Creating
<1>3. CASE ReleaseLock(e) /\ AnswerAt(w, "answered", OutcomeOf(v.rec))
  <2> DEFINE out == OutcomeOf(v.rec)
  <2>1. /\ out \in Outcome /\ out.status = v.rec.status /\ out.ad = v.rec.ad
        /\ out.status # "OUTCOME_UNKNOWN"
    BY <1>1, OutcomeTrue
  <2>. HIDE DEF out
  <2>2. lock' = Free /\ Free \in AccountLock /\ Free.holder = None
    BY <1>1, <1>3, LockValues DEF ReleaseLock
  <2>3. /\ rows' \in [Executions -> DirectExecutionRecord]
        /\ account' \in [Executions -> Objects] /\ rows' = rows /\ account' = account
    BY <1>1 DEF TypeOK
  <2>4. AnswerAt(w, "answered", out)
    BY <1>3 DEF out
  <2>. QED
    BY <1>1, <1>2, <2>1, <2>2, <2>3, <2>4, AnswerAfter
<1>4. CASE LockFails /\ Become(w, y)
  <2>1. /\ y \in Worker /\ y.pc = "close" /\ y.rec = v.rec /\ y.item = e /\ y.at = v.at
        /\ y.steps = v.steps /\ y.containment = None /\ y.err = "plain"
    BY <1>1 DEF Worker, Points, Errors
  <2>2. UNCHANGED lock /\ r \in DirectExecutionRecord
    BY <1>1, <1>4 DEF LockFails, TypeOK
  <2>. HIDE DEF y
  <2>3. Local(y, r, o, lock)
    BY <1>1, <1>2, <2>1
       DEF Local, Standing, Opening, AtStage, Pending, AdKnown, Effected, Answered, Answering
  <2>. QED
    BY <1>1, <1>4, <2>1, <2>2, <2>3, ReadAfter
<1>. QED
  BY <1>3, <1>4 DEF Release, Answer

\* The record a call is closed with.
ClosedRecord(v) ==
  [v.rec EXCEPT
     !.pending = IF v.err \in {"rejected", "unattempted"} THEN None ELSE @,
     !.status = IF MustHold(v) THEN "RECONCILIATION_REQUIRED"
                ELSE IF v.err = "rejected" THEN "PROVIDER_REJECTED"
                ELSE "SYSTEM_FAILED",
     !.containment = v.containment,
     !.unattempted = (v.err = "unattempted")]

\* It says no more than the provider has, and nothing is pending when the lock goes.
LEMMA CloseNext ==
  ASSUME NEW v \in Worker, NEW o \in Objects, v.rec \in DirectExecutionRecord,
         v.pc = "close", AdKnown(v), Effected(v, o),
         NEW rec, rec = ClosedRecord(v)
  PROVE  /\ rec \in DirectExecutionRecord /\ RecordSound(rec, o)
         /\ rec.status = IF MustHold(v) THEN "RECONCILIATION_REQUIRED"
                         ELSE IF v.err = "rejected" THEN "PROVIDER_REJECTED"
                         ELSE "SYSTEM_FAILED"
         /\ rec.ad # None => rec.status = "SYSTEM_FAILED"
         /\ rec.containment = v.containment /\ rec.ids = v.rec.ids
         /\ rec.unattempted = (v.err = "unattempted")
         /\ ~MustHold(v) => rec.pending = None
<1> DEFINE pending == IF v.err \in {"rejected", "unattempted"} THEN None ELSE v.rec.pending
           status == IF MustHold(v) THEN "RECONCILIATION_REQUIRED"
                     ELSE IF v.err = "rejected" THEN "PROVIDER_REJECTED"
                     ELSE "SYSTEM_FAILED"
           unattempted == (v.err = "unattempted")
<1>1. /\ Known(v.rec, o) /\ AdTrue(v.rec.ad, o)
      /\ v.err \in {"rejected", "unattempted"} /\ v.rec.pending \in Adds =>
           o.count[v.rec.pending] = 0
      /\ v.rec.ad # None => v.err = "plain" /\ v.rec.pending = None /\ v.containment = None
  BY DEF AdKnown, Effected, Creating
<1>2. /\ pending \in {None, v.rec.pending}
      /\ pending # v.rec.pending => v.err \in {"rejected", "unattempted"}
  OBVIOUS
<1>3. ~MustHold(v) => pending = None
  BY DEF MustHold
<1>4. v.rec.ad # None => ~MustHold(v) /\ status = "SYSTEM_FAILED"
  BY <1>1, NoneIsNoName DEF MustHold
<1>5. /\ status \in {"RECONCILIATION_REQUIRED", "PROVIDER_REJECTED", "SYSTEM_FAILED"}
      /\ unattempted \in BOOLEAN /\ (v.err = "plain" => unattempted = FALSE)
  OBVIOUS
<1>6. rec = [v.rec EXCEPT !.pending = pending, !.status = status,
               !.containment = v.containment, !.unattempted = unattempted]
  BY DEF ClosedRecord
<1>7. v.containment \in Containments
  BY DEF Worker
<1>. HIDE DEF pending, status, unattempted
<1>8. /\ rec \in DirectExecutionRecord /\ rec.pending = pending /\ rec.status = status
      /\ rec.ad = v.rec.ad /\ rec.ids = v.rec.ids /\ rec.containment = v.containment
      /\ rec.unattempted = unattempted
  BY <1>2, <1>5, <1>6, <1>7 DEF DirectExecutionRecord, Statuses, TerminalFailure
<1>9. Known(rec, o)
  BY <1>1, <1>2, <1>8 DEF Known, Objects
<1>10. RecordSound(rec, o)
  BY <1>1, <1>3, <1>4, <1>5, <1>8, <1>9 DEF RecordSound, TerminalSuccess
<1>11. status = IF MustHold(v) THEN "RECONCILIATION_REQUIRED"
                ELSE IF v.err = "rejected" THEN "PROVIDER_REJECTED" ELSE "SYSTEM_FAILED"
  BY DEF status
<1>12. unattempted = (v.err = "unattempted")
  BY DEF unattempted
<1>. QED
  BY <1>3, <1>4, <1>8, <1>10, <1>11, <1>12

LEMMA CloseAfter ==
  ASSUME NEW w \in Workers, Before(w), Close(w)
  PROVE  After(w)
<1> DEFINE v == worker[w]
           e == worker[w].item
           o == account[e]
           rec == ClosedRecord(v)
           point == IF MustHold(v) THEN "hold" ELSE "unlock"
           out == OutcomeOf(rec)
<1>1. /\ v \in Worker /\ e \in Executions /\ o \in Objects /\ v.rec \in DirectExecutionRecord
      /\ v.pc = "close" /\ lock.holder = e /\ AdKnown(v) /\ Effected(v, o)
      /\ TypeOK /\ RecordSound(rows[e], o) /\ ObjectSound(o) /\ lock \in AccountLock
      /\ UNCHANGED account
  <2>1. v.pc = "close" /\ UNCHANGED account
    BY DEF Close
  <2>. QED
    BY <2>1, BeforeFacts DEF Owning, Points
<1>2. \/ Saved(e, rec) /\ AnswerAt(w, point, out)
      \/ NotSaved(e, rec) /\ AnswerAt(w, "answered", Exception)
  BY DEF Close, Answer, ClosedRecord
<1>. HIDE DEF rec
<1>3. /\ rec \in DirectExecutionRecord /\ RecordSound(rec, o)
      /\ rec.status \in {"RECONCILIATION_REQUIRED", "PROVIDER_REJECTED", "SYSTEM_FAILED"}
      /\ rec.ad # None => rec.status = "SYSTEM_FAILED"
      /\ point = "unlock" => rec.pending = None
  <2>1. rec = ClosedRecord(v)
    BY DEF rec
  <2>2. /\ rec \in DirectExecutionRecord /\ RecordSound(rec, o)
        /\ rec.status = IF MustHold(v) THEN "RECONCILIATION_REQUIRED"
                        ELSE IF v.err = "rejected" THEN "PROVIDER_REJECTED"
                        ELSE "SYSTEM_FAILED"
        /\ rec.ad # None => rec.status = "SYSTEM_FAILED"
        /\ ~MustHold(v) => rec.pending = None
    BY <1>1, <2>1, CloseNext
  <2>. QED
    BY <2>2
<1>4. /\ rows' \in [Executions -> DirectExecutionRecord] /\ lock' \in AccountLock
      /\ account' \in [Executions -> Objects]
      /\ \A f \in Executions \ {e} : rows'[f] = rows[f] /\ account'[f] = account[f]
      /\ lock'.holder = lock.holder /\ (lock' # lock => lock.holder = e)
      /\ RecordSound(rows'[e], account'[e]) /\ (Saved(e, rec) => rows'[e] = rec)
  BY <1>1, <1>2, <1>3, SavedSound
<1>5. /\ out \in Outcome /\ out.status = rec.status /\ out.ad = rec.ad
      /\ out.status # "OUTCOME_UNKNOWN" /\ out.status \notin TerminalSuccess
  <2>1. rec.status \in TerminalSuccess \cup TerminalFailure \cup {"RECONCILIATION_REQUIRED"}
    BY <1>3 DEF TerminalFailure
  <2>2. /\ out \in Outcome /\ out.status = rec.status /\ out.ad = rec.ad
    BY <1>1, <1>3, <2>1, OutcomeTrue
  <2>. QED
    BY <1>3, <2>2 DEF TerminalSuccess
<1>6. point \in {"hold", "unlock", "answered"}
  BY SMTT(30)
<1>. HIDE DEF out, point
<1>7. CASE Saved(e, rec) /\ AnswerAt(w, point, out)
  <2>1. AdTrue(out.ad, o) /\ (rec.ad # None => rec.pending = None)
    BY <1>3, <1>5, SMTT(30) DEF RecordSound
  <2>. QED
    BY <1>1, <1>3, <1>4, <1>5, <1>6, <1>7, <2>1, AnswerAfter
<1>8. CASE AnswerAt(w, "answered", Exception)
  BY <1>1, <1>4, <1>8, BareAnswer, AnswerAfter
<1>. QED
  BY <1>2, <1>7, <1>8

\* The last call leaves the answer as it is, or replaces it by an exception.
LEMMA LastCallAfter ==
  ASSUME NEW w \in Workers, Before(w), worker[w].pc \in {"hold", "unlock"},
         UNCHANGED <<rows, account>>, lock' \in AccountLock,
         lock' # lock => lock'.holder \in {None, worker[w].item},
         Goto(w, "answered") \/ AnswerAt(w, "answered", Exception)
  PROVE  After(w)
<1> DEFINE v == worker[w]
           e == worker[w].item
           o == account[e]
           x == [worker[w] EXCEPT !.pc = "answered"]
<1>1. /\ v \in Worker /\ e \in Executions /\ o \in Objects /\ lock.holder = e
      /\ rows[e] \in DirectExecutionRecord /\ TypeOK
      /\ Answered(v, rows[e], o) /\ AdKnown(v) /\ Effected(v, o) /\ Opening(v)
      /\ RecordSound(rows[e], o) /\ ObjectSound(o)
  BY BeforeFacts DEF Owning, Points
<1>2. /\ rows' \in [Executions -> DirectExecutionRecord] /\ rows' = rows
      /\ account' \in [Executions -> Objects] /\ account' = account
  BY <1>1 DEF TypeOK
<1>3. CASE Goto(w, "answered")
  <2>1. /\ x \in Worker /\ x.pc = "answered" /\ x.item = e /\ x.rec = v.rec
        /\ x.steps = v.steps /\ x.err = v.err /\ x.containing = v.containing
        /\ x.containment = v.containment /\ x.outcome = v.outcome
    BY <1>1 DEF Worker, Points
  <2>2. Become(w, x)
    BY <1>3 DEF Goto, Become
  <2>. HIDE DEF x
  <2>3. Standing(x, rows[e]) /\ Opening(x) /\ AtStage(x) /\ Pending(x) /\ AdKnown(x)
    BY <1>1, <2>1, SMTT(30) DEF Standing, Opening, AtStage, Pending, AdKnown, Creating
  <2>4. Effected(x, o) /\ Answered(x, rows[e], o)
    BY <1>1, <2>1 DEF Effected, Answered, Answering, Creating
  <2>5. Local(x, rows[e], o, lock')
    BY <2>1, <2>3, <2>4, SMTT(30) DEF Local, Owning
  <2>. QED
    BY <1>1, <1>2, <2>1, <2>2, <2>5, BecomeAfter
<1>4. CASE AnswerAt(w, "answered", Exception)
  BY <1>1, <1>2, <1>4, BareAnswer, AnswerAfter
<1>. QED
  BY <1>3, <1>4

\* Every step of a worker keeps what the worker, its row and its objects are known for.
LEMMA WorkerStepAfter ==
  ASSUME NEW w \in Workers, Before(w), WorkerStep(w)
  PROVE  After(w)
<1>1. ASSUME Hold(w)
      PROVE  After(w)
  <2>1. /\ worker[w].pc = "hold" /\ UNCHANGED <<rows, account>>
        /\ Goto(w, "answered") \/ AnswerAt(w, "answered", Exception)
        /\ HoldLock(worker[w].item) \/ lock' = lock
    BY <1>1 DEF Hold, LockFails, Answer
  <2>2. lock \in AccountLock /\ lock.holder = worker[w].item
    BY <2>1, BeforeFacts DEF Owning, Points
  <2>3. lock' \in AccountLock /\ lock'.holder = worker[w].item
    BY <2>1, <2>2 DEF HoldLock, AccountLock
  <2>. QED
    BY <2>1, <2>3, LastCallAfter
<1>2. ASSUME Unlock(w)
      PROVE  After(w)
  <2>1. /\ worker[w].pc = "unlock" /\ UNCHANGED <<rows, account>>
        /\ Goto(w, "answered") \/ AnswerAt(w, "answered", Exception)
        /\ ReleaseLock(worker[w].item) \/ lock' = lock
    BY <1>2 DEF Unlock, LockFails, Answer
  <2>2. lock \in AccountLock
    BY BeforeFacts
  <2>3. lock' \in AccountLock /\ (lock' # lock => lock'.holder = None)
    BY <2>1, <2>2, LockValues DEF ReleaseLock, Free
  <2>. QED
    BY <2>1, <2>3, LastCallAfter
<1>. QED
  BY <1>1, <1>2, AcquireAfter, ClaimAfter, ReconcileAfter, OpenAfter, IntendAfter, SendAfter,
     LostResultAfter, ConfirmAfter, ProbeAfter, ReadGraphAfter, ProgressAfter, ContainAfter,
     PersistContainmentAfter, FinishAfter, ReleaseAfter, CloseAfter
     DEF WorkerStep

-----------------------------------------------------------------------------
(* The document.                                                           *)

Less == {pair \in Nat \X Nat : pair[1] < pair[2]}
LEMMA LessWellFounded == IsWellFoundedOn(Less, Nat)
<1>1. Less = OpToRel(<, Nat)
  BY Zenon DEF OpToRel, Less
<1> QED
  BY <1>1, NatLessThanWellFounded, Zenon

\* The next item of a document is the first that is still active.
LEMMA NextItemActive ==
  ASSUME TypeOK, NEW d \in Documents, ActiveItems(d) # {}
  PROVE  NextItem(d) \in ActiveItems(d) /\ NextItem(d) \in ItemsOf(d) /\ NextItem(d) \in Executions
<1>1. plan[d] \in Seq(Executions)
  BY DEF TypeOK
<1> DEFINE P == {i \in DOMAIN plan[d] : plan[d][i] \in ActiveItems(d)}
<1>2. P # {} /\ P \subseteq Nat
  BY <1>1 DEF ActiveItems, ItemsOf
<1>3. PICK n \in P : \A m \in P : <<m, n>> \notin Less
  <2> HIDE DEF P
  <2> QED
    BY <1>2, WFMin, LessWellFounded
<1>4. n \in DOMAIN plan[d] /\ plan[d][n] \in ActiveItems(d) /\ n \in Nat
  BY <1>1
<1>5. \A j \in 1..(n - 1) : plan[d][j] \notin ActiveItems(d)
  <2> SUFFICES ASSUME NEW j \in 1..(n - 1), plan[d][j] \in ActiveItems(d)
               PROVE  FALSE
    OBVIOUS
  <2>1. j \in DOMAIN plan[d] /\ j \in Nat /\ j < n
    BY <1>1, <1>4
  <2>2. j \in P /\ <<j, n>> \in Less
    BY <1>4, <2>1 DEF Less
  <2> QED
    BY <1>3, <2>2
<1>6. NextItem(d) \in ActiveItems(d)
  BY <1>4, <1>5 DEF NextItem
<1> QED
  BY <1>1, <1>6 DEF ActiveItems, ItemsOf

\* Two documents have no item in common.
LEMMA OwnItems ==
  ASSUME TypeOK, NEW c \in Documents, NEW d \in Documents, NEW e,
         e \in ItemsOf(c), e \in ItemsOf(d)
  PROVE  c = d /\ e \in Executions
BY DEF TypeOK, ItemsOf

\* A request is moved, and the others lose at most their revision.
RequestMoved(w, next) ==
  /\ request' \in [Workers -> Request] /\ request'[w] = next
  /\ \A u \in Workers \ {w} :
       /\ request'[u].pc = request[u].pc /\ request'[u].doc = request[u].doc
       /\ request'[u].item = request[u].item
       /\ request'[u].current => request[u].current

LEMMA CheckpointNext ==
  ASSUME TypeOK, NEW w \in Workers, NEW next \in Request, Checkpoint(w, next)
  PROVE  /\ RequestMoved(w, next) /\ request[w].current
         /\ \A u \in Workers \ {w} : request'[u].current => request[u].doc # request[w].doc
<1>1. request \in [Workers -> Request] /\ request[w].current
  BY DEF TypeOK, Checkpoint
<1>2. ASSUME NEW u \in Workers
      PROVE  [request[u] EXCEPT !.current = FALSE] \in Request
  BY <1>1 DEF Request
<1>3. request' = [u \in Workers |->
       IF u = w THEN next
       ELSE IF request[u].doc = request[w].doc THEN [request[u] EXCEPT !.current = FALSE]
       ELSE request[u]]
  BY DEF Checkpoint
<1>4. request' \in [Workers -> Request]
  BY <1>1, <1>2, <1>3
<1>5. \A u \in Workers \ {w} :
       /\ request'[u].pc = request[u].pc /\ request'[u].doc = request[u].doc
       /\ request'[u].item = request[u].item
       /\ request'[u].current => request[u].current /\ request[u].doc # request[w].doc
  BY <1>1, <1>3 DEF Request
<1> QED
  BY <1>1, <1>3, <1>4, <1>5 DEF RequestMoved

LEMMA ExceptMoved ==
  ASSUME TypeOK, NEW w \in Workers, NEW next \in Request, request' = [request EXCEPT ![w] = next]
  PROVE  RequestMoved(w, next) /\ \A u \in Workers \ {w} : request'[u] = request[u]
BY DEF TypeOK, RequestMoved

LEMMA RequestTypes ==
  ASSUME TypeOK, NEW w \in Workers
  PROVE  /\ NoRequest \in Request /\ NoRequest.pc = "idle" /\ NoRequest.doc = None
         /\ \A p \in {"idle", "begin", "head", "preflight", "insert", "run", "poll", "observe"} :
              /\ At(w, p) \in Request /\ At(w, p).pc = p
              /\ At(w, p).doc = request[w].doc /\ At(w, p).item = request[w].item
              /\ At(w, p).current = request[w].current
BY StartAssumption DEF TypeOK, Request, NoRequest, At

\* What a request knows is kept when its item stays where it was.
LEMMA RequestKept ==
  ASSUME NEW u \in Workers, RequestSound(u),
         request'[u].pc = request[u].pc, request'[u].doc = request[u].doc,
         request'[u].item = request[u].item, request'[u].current => request[u].current,
         worker'[u].pc = "idle" <=> worker[u].pc = "idle", worker'[u].item = worker[u].item,
         plan' = plan,
         request[u].pc \in ItemPoints =>
           items'[request[u].item].status = items[request[u].item].status,
         request[u].pc \in Polling =>
           \/ items'[request[u].item].status = items[request[u].item].status
           \/ items'[request[u].item].status \notin Active /\ ~request'[u].current,
         request[u].pc = "insert" => rows'[request[u].item] = rows[request[u].item]
  PROVE  RequestSound(u)'
BY DEF RequestSound, ItemsOf, ItemPoints

\* The dispatch stays exclusive when a request moves on within its document.
LEMMA OneDispatchKept ==
  ASSUME OneDispatch, NEW w \in Workers, NEW next, RequestMoved(w, next),
         next.pc \in Dispatching => request[w].pc \in Dispatching /\ next.doc = request[w].doc
  PROVE  OneDispatch'
BY DEF OneDispatch, RequestMoved

\* What is recorded for an item, from a worker's answer or from a poll.
Answers ==
  [status : TerminalSuccess \cup TerminalFailure
              \cup {"RECONCILIATION_REQUIRED", "OUTCOME_UNKNOWN"},
   containment : Containments \cup {"CONFIRMED_SUSPENDED"}, campaign : BOOLEAN,
   ad : AdStatuses \cup {None}]

StatusTrue(status, o) ==
  /\ status \in {"MODERATION_PENDING", "DIRECT_ACCEPTED", "REJECTED_NEEDS_EDIT"} => Verified(o)
  /\ status = "MODERATION_PENDING" => o.ad # "DRAFT"
  /\ status = "DIRECT_ACCEPTED" => o.ad = "ACCEPTED"
  /\ status = "REJECTED_NEEDS_EDIT" => o.ad = "REJECTED"

LEMMA TruthPerItem == OutcomesAreTrue <=> \A e \in Executions : StatusTrue(items[e].status, account[e])
BY DEF OutcomesAreTrue, StatusTrue, GraphVerified, Verified

\* The status of an item follows the answer, in the order of its tests.
LEMMA RecordedStatusNext ==
  ASSUME NEW a \in Answers, NEW campaign \in BOOLEAN, NEW suspended \in BOOLEAN
  PROVE  LET s == RecordedStatus(a, campaign, suspended)
         IN /\ s \in ItemStatuses \ Active
            /\ a.containment \in Unresolved => s = "RECONCILIATION_REQUIRED"
            /\ s = "RECONCILIATION_REQUIRED" =>
                 a.status = "RECONCILIATION_REQUIRED" \/ a.containment \in Unresolved
            /\ s = "DIRECT_ACCEPTED" => a.ad = "ACCEPTED"
            /\ s = "REJECTED_NEEDS_EDIT" => a.ad = "REJECTED"
            /\ s = "MODERATION_PENDING" => a.ad = "MODERATION"
            /\ s = "OUTCOME_UNKNOWN" => a.status = "OUTCOME_UNKNOWN" \/ a.ad = "DRAFT"
<1> USE DEF RecordedStatus, ItemStatuses, Active, Pollable
<1>1. CASE a.status = "RECONCILIATION_REQUIRED" \/ a.containment \in Unresolved
  BY <1>1
<1>2. CASE /\ ~(a.status = "RECONCILIATION_REQUIRED" \/ a.containment \in Unresolved)
           /\ a.status \in {"OUTCOME_UNKNOWN", "SYSTEM_FAILED"}
  BY <1>2
<1>3. CASE /\ ~(a.status = "RECONCILIATION_REQUIRED" \/ a.containment \in Unresolved)
           /\ a.status \notin {"OUTCOME_UNKNOWN", "SYSTEM_FAILED"}
  BY <1>3
<1> QED
  BY <1>1, <1>2, <1>3

\* Recorded(item, a): an answer that is true of the provider is recorded truthfully.
LEMMA RecordedNext ==
  ASSUME NEW item \in Item, NEW a \in Answers, NEW o \in Objects, NEW r \in DirectExecutionRecord,
         item.containment \notin Unresolved, AdTrue(a.ad, o),
         a.ad # None => r.pending = None,
         a.status = "OUTCOME_UNKNOWN" => Verified(o) /\ r.pending = None
  PROVE  LET x == Recorded(item, a)
         IN /\ x \in Item /\ x.status \notin Active
            /\ x.containment \in Unresolved => x.status = "RECONCILIATION_REQUIRED"
            /\ x.status \in Pollable => Verified(o) /\ r.pending = None
            /\ StatusTrue(x.status, o)
            /\ x.status = "RECONCILIATION_REQUIRED" =>
                 a.status = "RECONCILIATION_REQUIRED" \/ a.containment \in Unresolved
<1> DEFINE campaign == item.campaign \/ a.campaign
           suspended == item.suspended \/ a.ad # None
           s == RecordedStatus(a, campaign, suspended)
           c == IF suspended THEN "CONFIRMED_SUSPENDED"
                ELSE IF a.containment = None THEN item.containment ELSE a.containment
           x == Recorded(item, a)
<1>1. campaign \in BOOLEAN /\ suspended \in BOOLEAN
  BY Zenon DEF Item, Answers
<1>2. x = [status |-> s, campaign |-> campaign, suspended |-> suspended, containment |-> c]
  BY Zenon DEF Recorded
<1>3. c \in Containments \cup {"CONFIRMED_SUSPENDED"} /\ (c \in Unresolved => a.containment \in Unresolved)
  <2> HIDE DEF suspended
  <2> QED
    BY DEF Item, Answers, Unresolved
<1> HIDE DEF campaign, suspended, c
<1>4. /\ s \in ItemStatuses \ Active
      /\ a.containment \in Unresolved => s = "RECONCILIATION_REQUIRED"
      /\ s = "RECONCILIATION_REQUIRED" =>
           a.status = "RECONCILIATION_REQUIRED" \/ a.containment \in Unresolved
      /\ s = "DIRECT_ACCEPTED" => a.ad = "ACCEPTED"
      /\ s = "REJECTED_NEEDS_EDIT" => a.ad = "REJECTED"
      /\ s = "MODERATION_PENDING" => a.ad = "MODERATION"
      /\ s = "OUTCOME_UNKNOWN" => a.status = "OUTCOME_UNKNOWN" \/ a.ad = "DRAFT"
  BY <1>1, RecordedStatusNext
<1> HIDE DEF s
<1>5. x \in Item /\ x.status = s /\ x.containment = c
  BY <1>1, <1>2, <1>3, <1>4 DEF Item
<1> HIDE DEF x
<1>6. s \in Pollable => Verified(o) /\ r.pending = None
  BY <1>4, NoneIsNoName DEF Pollable, AdTrue, AdStatuses
<1>7. StatusTrue(s, o)
  BY <1>4, NoneIsNoName DEF StatusTrue, AdTrue, AdStatuses
<1>8. /\ x \in Item /\ x.status \notin Active
      /\ x.containment \in Unresolved => x.status = "RECONCILIATION_REQUIRED"
      /\ x.status \in Pollable => Verified(o) /\ r.pending = None
      /\ StatusTrue(x.status, o)
      /\ x.status = "RECONCILIATION_REQUIRED" =>
           a.status = "RECONCILIATION_REQUIRED" \/ a.containment \in Unresolved
  BY <1>3, <1>4, <1>5, <1>6, <1>7
<1> QED
  BY <1>8 DEF x

\* An observation of a pollable item is one of these answers.
LEMMA ObservationsTrue ==
  ASSUME TypeOK, NEW e \in Executions, NEW a \in Observations(e), ItemSound(e),
         items[e].status \in Pollable
  PROVE  /\ a \in Answers /\ AdTrue(a.ad, account[e]) /\ a.containment = items[e].containment
         /\ a.status # "RECONCILIATION_REQUIRED"
<1> DEFINE ad == account[e].ad
           graph == [Polled(e, CompletedStatus(ad)) EXCEPT !.ad = ad]
<1>1. /\ ad \in AdStatuses \cup {None} /\ items[e].containment \in Containments \cup {"CONFIRMED_SUSPENDED"}
  BY DEF TypeOK, Objects, Item
<1>2. CompletedStatus(ad) \in TerminalSuccess
  BY DEF CompletedStatus, TerminalSuccess
<1>3. \/ GraphVerified(e) /\ a = graph
      \/ a = Polled(e, "SYSTEM_FAILED") \/ a = Polled(e, "OUTCOME_UNKNOWN")
  BY DEF Observations
<1>4. CASE GraphVerified(e) /\ a = graph
  <2>1. /\ a.status = CompletedStatus(ad) /\ a.ad = ad /\ a.containment = items[e].containment
        /\ a = [status |-> CompletedStatus(ad), campaign |-> TRUE,
                containment |-> items[e].containment, ad |-> ad]
    BY <1>4 DEF Polled
  <2>2. Verified(account[e])
    BY <1>4 DEF GraphVerified, Verified
  <2>3. a \in Answers
    BY <1>1, <1>2, <2>1 DEF Answers
  <2> QED
    BY <1>1, <1>2, <2>1, <2>2, <2>3, NoneIsNoName DEF AdTrue, TerminalSuccess
<1>5. CASE a = Polled(e, "SYSTEM_FAILED") \/ a = Polled(e, "OUTCOME_UNKNOWN")
  <2>1. PICK st \in {"SYSTEM_FAILED", "OUTCOME_UNKNOWN"} : a = Polled(e, st)
    BY <1>5
  <2>2. a = [status |-> st, campaign |-> TRUE, containment |-> items[e].containment, ad |-> None]
    BY <2>1 DEF Polled
  <2>3. a.status = st /\ a.ad = None /\ a.containment = items[e].containment
    BY <2>2
  <2>4. a \in Answers
    BY <1>1, <2>2 DEF Answers, TerminalFailure
  <2> QED
    BY <2>3, <2>4 DEF AdTrue
<1> QED
  BY <1>3, <1>4, <1>5

-----------------------------------------------------------------------------
(* The steps of the requests.                                              *)

\* The item of a dispatching request is nobody else's.
LEMMA ItemOwner ==
  ASSUME TypeOK, Exclusive, NEW w \in Workers, request[w].pc \in ItemPoints
  PROVE  LET e == request[w].item
         IN /\ e \in Executions /\ request[w].doc \in Documents /\ e \in ItemsOf(request[w].doc)
            /\ items[e].status = "DISPATCHING"
            /\ \A u \in Workers \ {w} :
                 /\ request[u].pc \in ItemPoints \cup Polling => request[u].item # e
                 /\ worker[u].item # e
<1> DEFINE e == request[w].item
<1>1. /\ request[w].doc \in Documents /\ e \in ItemsOf(request[w].doc)
      /\ items[e].status = "DISPATCHING" /\ request[w].pc \in Dispatching
  BY DEF Exclusive, RequestSound, ItemPoints, Dispatching
<1>2. e \in Executions
  BY <1>1, OwnItems
<1>3. ASSUME NEW u \in Workers \ {w}, request[u].pc \in ItemPoints \cup Polling,
             request[u].item = e
      PROVE  FALSE
  <2>1. /\ request[u].doc \in Documents /\ e \in ItemsOf(request[u].doc)
        /\ request[u].pc \in Polling => items[e].status \notin Active
    BY <1>3 DEF Exclusive, RequestSound, ItemPoints, Polling
  <2>2. request[u].doc = request[w].doc
    BY <1>1, <2>1, OwnItems
  <2>3. request[u].pc \in Dispatching
    BY <1>1, <1>3, <2>1 DEF Active, Dispatching
  <2> QED
    BY <1>1, <1>3, <2>2, <2>3 DEF Exclusive, OneDispatch
<1>4. ASSUME NEW u \in Workers \ {w}
      PROVE  worker[u].item # e
  <2>1. worker[u].item = IF request[u].pc = "run" THEN request[u].item ELSE None
    BY DEF Exclusive, RequestSound
  <2> QED
    BY <1>2, <1>3, <2>1, NoneIsNoName DEF ItemPoints
<1> QED
  BY <1>1, <1>2, <1>3, <1>4

\* What a worker is known for is kept when its row, its objects and its lock are.
LEMMA StaysSound ==
  ASSUME NEW u \in Workers, WorkerSound(u), worker'[u] = worker[u],
         worker[u].pc # "idle" =>
           /\ rows'[worker[u].item] = rows[worker[u].item]
           /\ account'[worker[u].item] = account[worker[u].item]
           /\ lock.holder = worker[u].item => lock'.holder = worker[u].item
  PROVE  WorkerSound(u)'
BY DEF WorkerSound, Local

LEMMA ItemStays ==
  ASSUME NEW e \in Executions, ItemSound(e), StatusTrue(items[e].status, account[e]),
         items'[e] = items[e], rows'[e] = rows[e], account'[e] = account[e]
  PROVE  ItemSound(e)' /\ StatusTrue(items[e].status, account[e])'
BY DEF ItemSound

Inductive == TypeOK /\ Sound

LEMMA InductiveFacts ==
  ASSUME Inductive
  PROVE  /\ TypeOK /\ Exclusive /\ OneDispatch /\ OutcomesAreTrue
         /\ \A w \in Workers : RequestSound(w) /\ WorkerSound(w)
         /\ \A e \in Executions : ItemSound(e) /\ StatusTrue(items[e].status, account[e])
BY TruthPerItem DEF Inductive, Sound, Exclusive

\* Sound' from its parts
LEMMA SoundNext ==
  ASSUME TypeOK', OneDispatch', \A w \in Workers : RequestSound(w)' /\ WorkerSound(w)',
         \A e \in Executions : ItemSound(e)' /\ StatusTrue(items[e].status, account[e])'
  PROVE  Inductive'
<1>1. OutcomesAreTrue'
  BY DEF OutcomesAreTrue, StatusTrue, GraphVerified, Verified
<1> QED
  BY <1>1 DEF Inductive, Sound, Exclusive

\* The start.
LEMMA InitInductive == Init => Inductive
<1> SUFFICES ASSUME Init PROVE Inductive
  OBVIOUS
<1> DEFINE o0 == [count |-> [op \in Adds |-> 0], state |-> None, ad |-> None, moderations |-> 0]
<1>1. /\ o0 \in Objects /\ o0.ad = None /\ o0.state = None /\ \A op \in Adds : o0.count[op] = 0
  BY DEF Objects
<1>2. /\ rows = [e \in Executions |-> NewRecord] /\ lock = Free
      /\ account = [e \in Executions |-> o0] /\ worker = [w \in Workers |-> Idle]
      /\ begun = {} /\ items = [e \in Executions |-> Queued]
      /\ request = [w \in Workers |-> NoRequest]
  BY DEF Init, DirectInit
<1>3. PICK i \in Instances : faults = i.faults /\ plan = i.plan
  BY DEF Init
<1> HIDE DEF o0
<1>4. TypeOK
  BY <1>1, <1>2, <1>3, StartTypes, StartAssumption, PlanAssumption, LockValues DEF TypeOK
<1>5. /\ Idle.pc = "idle" /\ Idle.item = None /\ NoRequest.pc = "idle" /\ NoRequest.doc = None
      /\ Queued.status = "QUEUED" /\ Queued.containment = None
      /\ NewRecord.status = "ABSENT" /\ NewRecord.pending = None /\ NewRecord.ids = {}
      /\ NewRecord.ad = None
  BY DEF Idle, NoRequest, Queued, NewRecord
<1>6. ASSUME NEW w \in Workers
      PROVE  RequestSound(w) /\ WorkerSound(w)
  BY <1>2, <1>5 DEF RequestSound, WorkerSound, ItemPoints, Polling
<1>7. OneDispatch
  BY <1>2, <1>5 DEF OneDispatch, Dispatching, ItemPoints
<1>8. ASSUME NEW e \in Executions
      PROVE  ItemSound(e) /\ StatusTrue(items[e].status, account[e])
  <2>1. ObjectSound(o0) /\ RecordSound(NewRecord, o0)
    <3>1. "campaigns.add" \in Adds
      BY DEF Adds
    <3> QED
      BY <1>1, <1>5, <3>1, NoneIsNoName
         DEF ObjectSound, RecordSound, Known, AdTrue, TerminalSuccess
  <2>2. items[e] = Queued /\ rows[e] = NewRecord /\ account[e] = o0
    BY <1>2
  <2> QED
    BY <1>5, <2>1, <2>2, NoneIsNoName DEF ItemSound, StatusTrue, Pollable
<1> QED
  BY <1>4, <1>6, <1>7, <1>8, TruthPerItem DEF Inductive, Sound, Exclusive

\* A request that moves, with items, rows and workers where they were.
LEMMA MoveInductive ==
  ASSUME Inductive, NEW w \in Workers, NEW next \in Request, RequestMoved(w, next),
         UNCHANGED <<directVars, items, chosenVars>>, begun' \subseteq Documents,
         OneDispatch', request[w].pc # "run", next.pc # "run",
         next.pc # "idle" => next.doc \in Documents,
         next.pc = "idle" => next.doc = None,
         next.pc \in ItemPoints \cup Polling => next.item \in ItemsOf(next.doc),
         next.pc \in ItemPoints => items[next.item].status = "DISPATCHING",
         next.pc \in Polling => items[next.item].status \notin Active,
         next.pc \in Polling /\ next.current => items[next.item].status \in Pollable,
         next.pc = "insert" => rows[next.item].status = "ABSENT"
  PROVE  Inductive'
<1>1. /\ rows' = rows /\ lock' = lock /\ account' = account /\ worker' = worker
      /\ items' = items /\ plan' = plan /\ faults' = faults
  BY DEF directVars, chosenVars
<1>2. /\ TypeOK /\ Exclusive /\ \A u \in Workers : RequestSound(u) /\ WorkerSound(u)
      /\ \A e \in Executions : ItemSound(e) /\ StatusTrue(items[e].status, account[e])
  BY InductiveFacts
<1>3. TypeOK'
  BY <1>1, <1>2 DEF TypeOK, RequestMoved
<1>4. ASSUME NEW u \in Workers
      PROVE  RequestSound(u)' /\ WorkerSound(u)'
  <2>1. WorkerSound(u)'
    BY <1>1, <1>2, StaysSound
  <2>2. CASE u = w
    <3>1. request'[u] = next /\ worker'[u].pc = "idle" /\ worker'[u].item = None
      BY <1>1, <1>2, <2>2 DEF RequestMoved, RequestSound
    <3>2. \A d : ItemsOf(d)' = ItemsOf(d)
      BY <1>1 DEF ItemsOf
    <3> QED
      BY <1>1, <2>1, <3>1, <3>2 DEF RequestSound
  <2>3. CASE u # w
    BY <1>1, <1>2, <2>1, <2>3, RequestKept DEF RequestMoved
  <2> QED
    BY <2>2, <2>3
<1>5. ASSUME NEW e \in Executions
      PROVE  ItemSound(e)' /\ StatusTrue(items[e].status, account[e])'
  BY <1>1, <1>2, ItemStays
<1> QED
  BY <1>3, <1>4, <1>5, SoundNext

\* A request that gives up its place is idle.
LEMMA ConflictInductive ==
  ASSUME Inductive, NEW w \in Workers, request[w].pc # "run", Conflict(w),
         UNCHANGED <<directVars, chosenVars>>
  PROVE  Inductive'
<1>1. /\ TypeOK /\ OneDispatch /\ NoRequest \in Request
      /\ NoRequest.pc = "idle" /\ NoRequest.doc = None
  BY InductiveFacts, StartAssumption DEF NoRequest
<1>2. RequestMoved(w, NoRequest) /\ UNCHANGED <<begun, items>>
  BY <1>1, ExceptMoved DEF Conflict
<1>3. OneDispatch'
  BY <1>1, <1>2, OneDispatchKept DEF Dispatching, ItemPoints
<1>4. begun' \subseteq Documents
  BY <1>1, <1>2 DEF TypeOK
<1> QED
  BY <1>1, <1>2, <1>3, <1>4, MoveInductive DEF ItemPoints, Polling

LEMMA DispatchInductive ==
  ASSUME Inductive, ExclusiveDispatch, NEW w \in Workers, NEW d \in Documents,
         Dispatch(w, d), UNCHANGED chosenVars
  PROVE  Inductive'
<1> DEFINE next == [pc |-> IF d \in begun THEN "head" ELSE "begin",
                    doc |-> d, item |-> None, current |-> TRUE]
<1>1. /\ TypeOK /\ OneDispatch /\ request[w].pc = "idle"
      /\ \A u \in Workers : RequestSound(u)
      /\ UNCHANGED <<directVars, begun, items>>
  BY InductiveFacts DEF Dispatch, Ended
<1>2. /\ next \in Request /\ next.pc \in {"head", "begin"} /\ next.doc = d
      /\ request' = [request EXCEPT ![w] = next]
  BY DEF Request, Dispatch
<1> HIDE DEF next
<1>3. RequestMoved(w, next) /\ \A u \in Workers \ {w} : request'[u] = request[u]
  BY <1>1, <1>2, ExceptMoved
<1>4. \A u \in Workers : request[u].doc = d => request[u].pc \in {"poll", "observe"}
  BY DEF Dispatch
<1>5. OneDispatch'
  BY <1>1, <1>2, <1>3, <1>4 DEF OneDispatch, RequestMoved, Dispatching, ItemPoints
<1>6. begun' \subseteq Documents
  BY <1>1 DEF TypeOK
<1> QED
  BY <1>1, <1>2, <1>3, <1>5, <1>6, MoveInductive DEF ItemPoints, Polling

LEMMA InitializeInductive ==
  ASSUME Inductive, NEW w \in Workers, InitializePackageExecution(w), UNCHANGED chosenVars
  PROVE  Inductive'
<1>1. /\ TypeOK /\ OneDispatch /\ RequestSound(w) /\ request[w].pc = "begin"
      /\ UNCHANGED directVars
  BY InductiveFacts DEF InitializePackageExecution
<1>2. CASE /\ Checkpoint(w, At(w, "head")) /\ begun' = begun \cup {request[w].doc}
           /\ UNCHANGED items
  <2> DEFINE next == At(w, "head")
  <2>1. next \in Request /\ next.pc = "head" /\ next.doc = request[w].doc
    BY <1>1, RequestTypes
  <2>2. request[w].doc \in Documents
    BY <1>1 DEF RequestSound
  <2>3. begun' \subseteq Documents
    BY <1>1, <1>2, <2>2 DEF TypeOK
  <2> HIDE DEF next
  <2>4. RequestMoved(w, next)
    BY <1>1, <1>2, <2>1, CheckpointNext DEF next
  <2>5. OneDispatch'
    BY <1>1, <2>1, <2>4, OneDispatchKept DEF Dispatching
  <2> QED
    BY <1>1, <1>2, <2>1, <2>2, <2>3, <2>4, <2>5, MoveInductive DEF ItemPoints, Polling
<1>3. CASE Conflict(w)
  BY <1>1, <1>3, ConflictInductive
<1> QED
  BY <1>2, <1>3 DEF InitializePackageExecution

LEMMA PollInductive ==
  ASSUME Inductive, NEW w \in Workers, NEW d \in Documents, NEW e \in Executions,
         Poll(w, d, e), UNCHANGED chosenVars
  PROVE  Inductive'
<1> DEFINE next == [pc |-> "poll", doc |-> d, item |-> e, current |-> TRUE]
<1>1. /\ TypeOK /\ OneDispatch /\ request[w].pc = "idle"
      /\ UNCHANGED <<directVars, begun, items>>
      /\ e \in ItemsOf(d) /\ items[e].status \in Pollable
  BY InductiveFacts DEF Poll, Ended
<1>2. /\ next \in Request /\ next.pc = "poll" /\ next.doc = d /\ next.item = e
      /\ request' = [request EXCEPT ![w] = next]
  BY DEF Request, Poll
<1> HIDE DEF next
<1>3. RequestMoved(w, next)
  BY <1>1, <1>2, ExceptMoved
<1>4. OneDispatch' /\ begun' \subseteq Documents
  BY <1>1, <1>2, <1>3, OneDispatchKept DEF Dispatching, ItemPoints, TypeOK
<1> QED
  BY <1>1, <1>2, <1>3, <1>4, MoveInductive DEF ItemPoints, Polling, Pollable, Active

LEMMA BeginPollInductive ==
  ASSUME Inductive, NEW w \in Workers, BeginPackageItemModerationPoll(w), UNCHANGED chosenVars
  PROVE  Inductive'
<1>1. /\ TypeOK /\ OneDispatch /\ RequestSound(w) /\ request[w].pc = "poll"
      /\ UNCHANGED directVars
  BY InductiveFacts DEF BeginPackageItemModerationPoll
<1>2. CASE Checkpoint(w, At(w, "observe")) /\ UNCHANGED <<begun, items>>
  <2> DEFINE next == At(w, "observe")
  <2>1. /\ next \in Request /\ next.pc = "observe" /\ next.doc = request[w].doc
        /\ next.item = request[w].item /\ next.current = request[w].current
    BY <1>1, RequestTypes
  <2> HIDE DEF next
  <2>2. RequestMoved(w, next)
    BY <1>1, <1>2, <2>1, CheckpointNext DEF next
  <2>3. OneDispatch' /\ begun' \subseteq Documents
    BY <1>1, <1>2, <2>1, <2>2, OneDispatchKept DEF Dispatching, ItemPoints, TypeOK
  <2> QED
    BY <1>1, <1>2, <2>1, <2>2, <2>3, MoveInductive DEF ItemPoints, Polling, RequestSound
<1>3. CASE Conflict(w)
  BY <1>1, <1>3, ConflictInductive
<1> QED
  BY <1>2, <1>3 DEF BeginPackageItemModerationPoll

\* The next item was queued, or an interrupted dispatch left it: it has no other worker.
LEMMA BeginItemInductive ==
  ASSUME Inductive, NEW w \in Workers, BeginPackageItemDispatch(w), UNCHANGED chosenVars
  PROVE  Inductive'
<1> DEFINE d == request[w].doc
           e == NextItem(d)
           next == [At(w, "preflight") EXCEPT !.item = e]
<1>1. /\ TypeOK /\ Exclusive /\ OneDispatch /\ request[w].pc = "head" /\ d \in Documents
      /\ \A u \in Workers : RequestSound(u) /\ WorkerSound(u)
      /\ \A f \in Executions : ItemSound(f) /\ StatusTrue(items[f].status, account[f])
      /\ UNCHANGED <<directVars, begun>>
  BY InductiveFacts DEF BeginPackageItemDispatch, RequestSound
<1>3. CASE /\ ActiveItems(d) # {} /\ Checkpoint(w, next)
           /\ items' = [items EXCEPT ![e].status = "DISPATCHING"]
  <2>1. e \in ActiveItems(d) /\ e \in ItemsOf(d) /\ e \in Executions /\ items[e].status \in Active
    BY <1>1, <1>3, NextItemActive DEF ActiveItems
  <2> HIDE DEF e
  <2>2. /\ next \in Request /\ next.pc = "preflight" /\ next.doc = d /\ next.item = e
    <3>1. At(w, "preflight") \in Request
      BY <1>1, RequestTypes
    <3>2. At(w, "preflight").pc = "preflight" /\ At(w, "preflight").doc = d
      BY <1>1, RequestTypes
    <3> QED
      BY <2>1, <3>1, <3>2 DEF Request
  <2> HIDE DEF next
  <2>3. RequestMoved(w, next)
    BY <1>1, <1>3, <2>2, CheckpointNext
  <2>4. OneDispatch'
    BY <1>1, <2>2, <2>3, OneDispatchKept DEF Dispatching, ItemPoints
  <2>5. /\ rows' = rows /\ lock' = lock /\ account' = account /\ worker' = worker
        /\ begun' = begun /\ plan' = plan /\ faults' = faults
    BY <1>1 DEF directVars, chosenVars
  <2>6. /\ items' \in [Executions -> Item] /\ items'[e].status = "DISPATCHING"
        /\ items'[e].containment = items[e].containment
        /\ \A f \in Executions \ {e} : items'[f] = items[f]
    <3> DEFINE x == [items[e] EXCEPT !.status = "DISPATCHING"]
    <3>1. x \in Item /\ x.status = "DISPATCHING" /\ x.containment = items[e].containment
      BY <1>1, <2>1, ZenonT(60) DEF TypeOK, Item, ItemStatuses, Active
    <3>2. items' = [items EXCEPT ![e] = x]
      BY <1>3
    <3> HIDE DEF x
    <3> QED
      BY <1>1, <2>1, <3>1, <3>2 DEF TypeOK
  <2>7. TypeOK'
    BY <1>1, <2>3, <2>5, <2>6 DEF TypeOK, RequestMoved
  <2>8. ASSUME NEW u \in Workers
        PROVE  RequestSound(u)' /\ WorkerSound(u)'
    <3>1. WorkerSound(u)'
      BY <1>1, <2>5, StaysSound
    <3>2. CASE u = w
      <4>1. request'[u] = next /\ worker'[u].pc = "idle" /\ worker'[u].item = None
        BY <1>1, <2>3, <2>5, <3>2 DEF RequestMoved, RequestSound
      <4>2. \A c : ItemsOf(c)' = ItemsOf(c)
        BY <2>5 DEF ItemsOf
      <4>3. /\ request'[u].pc = "preflight" /\ request'[u].doc = d /\ request'[u].item = e
            /\ e \in ItemsOf(d)
        BY <2>1, <2>2, <4>1
      <4> QED
        BY <1>1, <2>6, <3>1, <4>1, <4>2, <4>3 DEF RequestSound, ItemPoints, Polling
    <3>3. CASE u # w
      <4>1. request[u].pc \in ItemPoints => request[u].item # e
        <5>1. request[u].pc \in ItemPoints =>
                request[u].doc \in Documents /\ request[u].item \in ItemsOf(request[u].doc)
          BY <1>1 DEF RequestSound, ItemPoints
        <5>2. request[u].pc \in ItemPoints => request[u].doc # d
          BY <1>1, <3>3 DEF OneDispatch, Dispatching
        <5> QED
          BY <1>1, <2>1, <5>1, <5>2, OwnItems
      <4>2. request[u].pc \in Polling => request[u].item # e
        BY <1>1, <2>1 DEF RequestSound
      <4>3. request[u].pc \in ItemPoints \cup Polling => request[u].item \in Executions
        BY <1>1, OwnItems DEF RequestSound, ItemPoints, Polling
      <4> QED
        BY <1>1, <2>3, <2>5, <2>6, <3>1, <3>3, <4>1, <4>2, <4>3, RequestKept DEF RequestMoved
    <3> QED
      BY <3>2, <3>3
  <2>9. ASSUME NEW f \in Executions
        PROVE  ItemSound(f)' /\ StatusTrue(items[f].status, account[f])'
    <3>1. CASE f = e
      BY <1>1, <2>1, <2>5, <2>6, <3>1 DEF ItemSound, StatusTrue, Active, Pollable
    <3>2. CASE f # e
      BY <1>1, <2>5, <2>6, <3>2, ItemStays
    <3> QED
      BY <3>1, <3>2
  <2> QED
    BY <2>4, <2>7, <2>8, <2>9, SoundNext
<1>4. CASE Conflict(w)
  BY <1>1, <1>4, ConflictInductive
<1>5. CASE Checkpoint(w, NoRequest) /\ UNCHANGED items
  <2>1. NoRequest \in Request /\ NoRequest.pc = "idle" /\ NoRequest.doc = None
    BY StartAssumption DEF NoRequest
  <2>2. RequestMoved(w, NoRequest)
    BY <1>1, <1>5, <2>1, CheckpointNext
  <2>3. OneDispatch' /\ begun' \subseteq Documents
    BY <1>1, <2>1, <2>2, OneDispatchKept DEF Dispatching, ItemPoints, TypeOK
  <2> QED
    BY <1>1, <1>5, <2>1, <2>2, <2>3, MoveInductive DEF ItemPoints, Polling
<1> QED
  BY <1>3, <1>4, <1>5 DEF BeginPackageItemDispatch

\* A request that works on its item: its row, its objects and its worker may change, and
\* the lock if it is free or its own.
LEMMA WorkInductive ==
  ASSUME Inductive, NEW w \in Workers, request[w].pc \in ItemPoints,
         NEW next \in Request, RequestMoved(w, next), next.pc \in ItemPoints,
         next.doc = request[w].doc, next.item = request[w].item,
         next.pc = "insert" => rows'[next.item].status = "ABSENT",
         UNCHANGED <<begun, items, chosenVars>>,
         worker' \in [Workers -> Worker], rows' \in [Executions -> DirectExecutionRecord],
         account' \in [Executions -> Objects], lock' \in AccountLock,
         \A u \in Workers \ {w} : worker'[u] = worker[u],
         \A f \in Executions \ {request[w].item} :
           rows'[f] = rows[f] /\ account'[f] = account[f],
         lock' # lock => lock.holder \in {None, request[w].item},
         worker'[w].pc = "idle" <=> next.pc # "run",
         worker'[w].item = IF next.pc = "run" THEN next.item ELSE None,
         WorkerSound(w)',
         RecordSound(rows'[request[w].item], account'[request[w].item]),
         ObjectSound(account'[request[w].item])
  PROVE  Inductive'
<1> DEFINE e == request[w].item
<1>1. /\ TypeOK /\ Exclusive /\ OneDispatch
      /\ \A u \in Workers : RequestSound(u) /\ WorkerSound(u)
      /\ \A f \in Executions : ItemSound(f) /\ StatusTrue(items[f].status, account[f])
  BY InductiveFacts
<1>2. /\ e \in Executions /\ request[w].doc \in Documents /\ e \in ItemsOf(request[w].doc)
      /\ items[e].status = "DISPATCHING"
      /\ \A u \in Workers \ {w} :
           /\ request[u].pc \in ItemPoints \cup Polling => request[u].item # e
           /\ worker[u].item # e
  BY <1>1, ItemOwner
<1>3. /\ items' = items /\ begun' = begun /\ plan' = plan /\ faults' = faults
      /\ \A c : ItemsOf(c)' = ItemsOf(c)
  BY DEF chosenVars, ItemsOf
<1>4. /\ next.item = e /\ \A f \in Executions \ {e} : rows'[f] = rows[f] /\ account'[f] = account[f]
      /\ lock' # lock => lock.holder \in {None, e}
      /\ RecordSound(rows'[e], account'[e]) /\ ObjectSound(account'[e])
      /\ next.pc = "insert" => rows'[e].status = "ABSENT"
  OBVIOUS
<1>5. /\ request' \in [Workers -> Request] /\ request'[w] = next
      /\ next.doc \in Documents /\ e \in ItemsOf(next.doc)
  BY <1>2 DEF RequestMoved
<1> HIDE DEF e
<1>6. TypeOK'
  BY <1>1, <1>3, <1>5 DEF TypeOK
<1>7. OneDispatch'
  BY <1>1, OneDispatchKept DEF Dispatching
<1>8. ASSUME NEW u \in Workers
      PROVE  RequestSound(u)' /\ WorkerSound(u)'
  <2>1. CASE u = w
    BY <1>2, <1>3, <1>4, <1>5, <2>1 DEF RequestSound, ItemPoints, Polling
  <2>2. CASE u # w
    <3>1. worker'[u] = worker[u] /\ worker[u].item # e
      BY <1>2, <2>2
    <3>2. worker[u].pc # "idle" =>
            worker[u].item \in Executions \ {e} /\ request[u].pc \in ItemPoints
      BY <1>1, <3>1, OwnItems DEF RequestSound, ItemPoints
    <3>3. worker[u].pc # "idle" =>
           /\ rows'[worker[u].item] = rows[worker[u].item]
           /\ account'[worker[u].item] = account[worker[u].item]
           /\ lock.holder = worker[u].item => lock'.holder = worker[u].item
      BY <1>4, <3>2, NoneIsNoName
    <3>4. WorkerSound(u)'
      BY <1>1, <3>1, <3>3, StaysSound
    <3>5. request[u].pc = "insert" => request[u].item \in Executions \ {e}
      BY <1>1, <1>2, <2>2, OwnItems DEF RequestSound, ItemPoints
    <3>6. request[u].pc = "insert" => rows'[request[u].item] = rows[request[u].item]
      BY <1>4, <3>5
    <3> QED
      BY <1>1, <1>3, <2>2, <3>1, <3>4, <3>6, RequestKept DEF RequestMoved
  <2> QED
    BY <2>1, <2>2
<1>9. ASSUME NEW f \in Executions
      PROVE  ItemSound(f)' /\ StatusTrue(items[f].status, account[f])'
  <2>1. CASE f = e
    BY <1>1, <1>2, <1>3, <1>4, <2>1 DEF ItemSound, StatusTrue, Pollable
  <2>2. CASE f # e
    BY <1>1, <1>3, <1>4, <2>2, ItemStays
  <2> QED
    BY <2>1, <2>2
<1> QED
  BY <1>6, <1>7, <1>8, <1>9, SoundNext

\* A worker that starts knows nothing yet, and one that is done before it began has
\* nothing to say of the provider.
LEMMA StartLocal ==
  ASSUME NEW e \in Executions, NEW r, NEW o, NEW l,
         NEW x \in {Started(e), Done(e, Exception), Done(e, DuplicateName)}
  PROVE  x \in Worker /\ x.pc # "idle" /\ x.item = e /\ Local(x, r, o, l)
<1>1. /\ DuplicateName \in Outcome /\ Exception \in Outcome /\ Idle \in Worker
      /\ DuplicateName.ad = None /\ Exception.ad = None
      /\ DuplicateName.status = "SYSTEM_FAILED" /\ Exception.status = "SYSTEM_FAILED"
  BY StartTypes DEF DuplicateName, Exception, Outcome, Containments, TerminalFailure
<1>2. /\ x \in Worker /\ x.item = e /\ x.pc \in {"acquire", "answered"}
      /\ x.outcome.ad = None /\ x.outcome.status = "SYSTEM_FAILED"
      /\ x.rec = NewRecord /\ x.at = 1 /\ x.steps = {} /\ x.err = None /\ x.containing = FALSE
      /\ x.containment = None
  <2>1. CASE x = Started(e)
    BY <1>1, <2>1 DEF Started, Worker, Points, Idle
  <2>2. CASE x = Done(e, Exception)
    BY <1>1, <2>2 DEF Done, Worker, Points, Idle
  <2>3. CASE x = Done(e, DuplicateName)
    BY <1>1, <2>3 DEF Done, Worker, Points, Idle
  <2> QED
    BY <2>1, <2>2, <2>3
<1>3. NewRecord.ad = None /\ NewRecord.pending = None
  BY DEF NewRecord
<1>4. Standing(x, r) /\ Opening(x) /\ AtStage(x) /\ Pending(x) /\ AdKnown(x)
  BY <1>2, <1>3 DEF Standing, Opening, AtStage, Pending, AdKnown, Creating
<1>5. Effected(x, o) /\ Answered(x, r, o)
  BY <1>2, <1>3, NoneIsNoName DEF Effected, Answered, Creating, AdTrue, TerminalSuccess
<1> QED
  BY <1>2, <1>4, <1>5 DEF Local, Owning

\* What a request that works on its item starts from.
LEMMA WorkFacts ==
  ASSUME Inductive, NEW w \in Workers, request[w].pc \in ItemPoints
  PROVE  LET e == request[w].item
         IN /\ TypeOK /\ Exclusive /\ e \in Executions /\ RequestSound(w) /\ WorkerSound(w)
            /\ request[w] \in Request
            /\ rows[e] \in DirectExecutionRecord /\ account[e] \in Objects
            /\ RecordSound(rows[e], account[e]) /\ ObjectSound(account[e])
            /\ rows \in [Executions -> DirectExecutionRecord]
            /\ account \in [Executions -> Objects] /\ lock \in AccountLock
            /\ worker \in [Workers -> Worker] /\ ItemSound(e)
            /\ items[e].status = "DISPATCHING" /\ items[e] \in Item
            /\ request[w].pc # "run" => worker[w].pc = "idle" /\ worker[w].item = None
            /\ request[w].pc = "run" => worker[w].pc # "idle" /\ worker[w].item = e
<1>1. /\ TypeOK /\ Exclusive /\ RequestSound(w) /\ WorkerSound(w)
      /\ \A f \in Executions : ItemSound(f)
  BY InductiveFacts
<1>2. request[w].item \in Executions /\ items[request[w].item].status = "DISPATCHING"
  BY <1>1, ItemOwner
<1> QED
  BY <1>1, <1>2 DEF TypeOK, ItemSound, RequestSound, ItemPoints

LEMMA PreflightInductive ==
  ASSUME Inductive, NEW w \in Workers, Preflight(w), UNCHANGED chosenVars
  PROVE  Inductive'
<1> DEFINE e == request[w].item
           run == At(w, "run")
           insert == At(w, "insert")
<1>1. /\ request[w].pc = "preflight" /\ request[w].pc \in ItemPoints
      /\ rows' = rows /\ lock' = lock /\ account' = account
      /\ UNCHANGED <<begun, items>>
  BY DEF Preflight, ItemPoints
<1>2. /\ TypeOK /\ e \in Executions /\ RequestSound(w)
      /\ RecordSound(rows[e], account[e]) /\ ObjectSound(account[e])
      /\ rows \in [Executions -> DirectExecutionRecord]
      /\ account \in [Executions -> Objects] /\ lock \in AccountLock
      /\ worker \in [Workers -> Worker] /\ worker[w].pc = "idle" /\ worker[w].item = None
  BY <1>1, WorkFacts
<1>3. /\ run \in Request /\ run.pc = "run" /\ run.doc = request[w].doc /\ run.item = e
      /\ insert \in Request /\ insert.pc = "insert" /\ insert.doc = request[w].doc
      /\ insert.item = e
  BY <1>2, RequestTypes
<1>4. ASSUME NEW x \in {Started(e), Done(e, Exception), Done(e, DuplicateName)}, Become(w, x),
             request' = [request EXCEPT ![w] = run]
      PROVE  Inductive'
  <2> HIDE DEF run, insert
  <2>1. x \in Worker /\ x.pc # "idle" /\ x.item = e /\ Local(x, rows[e], account[e], lock)
    BY <1>2, <1>4, StartLocal, ZenonT(60)
  <2>2. /\ worker' \in [Workers -> Worker] /\ worker'[w] = x
        /\ \A u \in Workers \ {w} : worker'[u] = worker[u]
    BY <1>2, <1>4, <2>1, BecomeNext
  <2>3. RequestMoved(w, run)
    BY <1>2, <1>3, <1>4, ExceptMoved
  <2>4. WorkerSound(w)'
    BY <1>1, <2>1, <2>2 DEF WorkerSound
  <2> QED
    BY <1>1, <1>2, <1>3, <2>1, <2>2, <2>3, <2>4, WorkInductive DEF ItemPoints
<1>5. ASSUME rows[e].status = "ABSENT", request' = [request EXCEPT ![w] = insert],
             UNCHANGED worker
      PROVE  Inductive'
  <2> HIDE DEF run, insert
  <2>1. RequestMoved(w, insert)
    BY <1>2, <1>3, <1>5, ExceptMoved
  <2>2. WorkerSound(w)'
    BY <1>2, <1>5 DEF WorkerSound
  <2> QED
    BY <1>1, <1>2, <1>3, <1>5, <2>1, <2>2, WorkInductive DEF ItemPoints
<1> QED
  BY <1>4, <1>5 DEF Preflight

LEMMA BeginExecutionInductive ==
  ASSUME Inductive, NEW w \in Workers, BeginExecution(w), UNCHANGED chosenVars
  PROVE  Inductive'
<1> DEFINE e == request[w].item
           run == At(w, "run")
           o == account[e]
<1>1. /\ request[w].pc = "insert" /\ request[w].pc \in ItemPoints
      /\ lock' = lock /\ account' = account /\ request' = [request EXCEPT ![w] = run]
      /\ UNCHANGED <<begun, items>>
  BY DEF BeginExecution, ItemPoints
<1>2. /\ TypeOK /\ e \in Executions /\ RequestSound(w)
      /\ RecordSound(rows[e], o) /\ ObjectSound(o)
      /\ rows \in [Executions -> DirectExecutionRecord]
      /\ account \in [Executions -> Objects] /\ lock \in AccountLock
      /\ worker \in [Workers -> Worker] /\ worker[w].pc = "idle" /\ worker[w].item = None
  BY <1>1, WorkFacts
<1>3. run \in Request /\ run.pc = "run" /\ run.doc = request[w].doc /\ run.item = e
  BY <1>2, RequestTypes
<1>4. PICK x \in {Started(e), Done(e, Exception)} :
        /\ Become(w, x)
        /\ rows' = rows \/ (rows[e].status = "ABSENT" /\ rows' = [rows EXCEPT ![e] = BlankRecord])
  BY DEF BeginExecution
<1> HIDE DEF run
<1>5. /\ rows' \in [Executions -> DirectExecutionRecord] /\ RecordSound(rows'[e], o)
      /\ \A f \in Executions \ {e} : rows'[f] = rows[f]
  <2>1. CASE rows' = rows
    BY <1>2, <2>1
  <2>2. CASE rows[e].status = "ABSENT" /\ rows' = [rows EXCEPT ![e] = BlankRecord]
    <3>1. /\ BlankRecord.status = "BLANK" /\ BlankRecord.pending = None
          /\ BlankRecord.ids = {} /\ BlankRecord.ad = None
      BY DEF BlankRecord, NewRecord
    <3>2. \A op \in Adds : ~(o.count[op] > 0)
      BY <1>2, <2>2, NoneIsNoName DEF RecordSound, Known
    <3>3. RecordSound(BlankRecord, o)
      BY <3>1, <3>2 DEF RecordSound, Known, AdTrue, TerminalSuccess
    <3> QED
      BY <1>2, <2>2, <3>3, StartTypes
  <2> QED
    BY <1>4, <2>1, <2>2
<1>6. /\ x \in Worker /\ x.pc # "idle" /\ x.item = e /\ Local(x, rows'[e], o, lock)
  <2>1. x \in {Started(e), Done(e, Exception), Done(e, DuplicateName)}
    BY <1>4
  <2>2. \A r, l : x \in Worker /\ x.pc # "idle" /\ x.item = e /\ Local(x, r, o, l)
    BY <1>2, <2>1, StartLocal, ZenonT(60)
  <2> QED
    BY <2>2
<1>7. /\ worker' \in [Workers -> Worker] /\ worker'[w] = x
      /\ \A u \in Workers \ {w} : worker'[u] = worker[u]
  BY <1>2, <1>4, <1>6, BecomeNext
<1>8. RequestMoved(w, run)
  BY <1>1, <1>2, <1>3, ExceptMoved
<1>9. WorkerSound(w)'
  BY <1>1, <1>6, <1>7 DEF WorkerSound
<1> QED
  BY <1>1, <1>2, <1>3, <1>5, <1>6, <1>7, <1>8, <1>9, WorkInductive DEF ItemPoints

LEMMA RunItemInductive ==
  ASSUME Inductive, NEW w \in Workers, RunItem(w), UNCHANGED chosenVars
  PROVE  Inductive' /\ Before(w) /\ After(w)
<1> DEFINE e == request[w].item
<1>1. /\ request[w].pc = "run" /\ request[w].pc \in ItemPoints /\ WorkerStep(w)
      /\ UNCHANGED <<begun, items, request>>
  BY DEF RunItem, ItemPoints
<1>2. /\ TypeOK /\ e \in Executions /\ WorkerSound(w) /\ request[w] \in Request
      /\ RecordSound(rows[e], account[e]) /\ ObjectSound(account[e])
      /\ worker[w].pc # "idle" /\ worker[w].item = e
  BY <1>1, WorkFacts
<1>3. Before(w)
  BY <1>2 DEF Before, WorkerSound
<1>4. After(w)
  BY <1>1, <1>3, WorkerStepAfter
<1>5. RequestMoved(w, request[w])
  BY <1>1, <1>2 DEF RequestMoved, TypeOK
<1>6. WorkerSound(w)'
  BY <1>2, <1>4 DEF After, StepFrame, WorkerSound
<1> QED
  BY <1>1, <1>2, <1>3, <1>4, <1>5, <1>6, WorkInductive DEF After, StepFrame

\* A request that leaves its item, whose status may be recorded.
LEMMA LeaveInductive ==
  ASSUME Inductive, NEW w \in Workers, NEW next \in Request, RequestMoved(w, next),
         next.pc \in {"idle", "head"}, next.pc = "idle" => next.doc = None,
         next.pc = "head" => request[w].pc \in Dispatching /\ next.doc = request[w].doc,
         UNCHANGED <<rows, lock, account, begun, chosenVars>>,
         worker' \in [Workers -> Worker], worker'[w].pc = "idle", worker'[w].item = None,
         \A u \in Workers \ {w} : worker'[u] = worker[u],
         items' \in [Executions -> Item],
         \A f \in Executions : items'[f] = items[f] \/
           /\ items'[f].status \notin Active
           /\ ItemSound(f)' /\ StatusTrue(items[f].status, account[f])'
           /\ \A u \in Workers \ {w} :
                /\ request[u].pc \in ItemPoints => request[u].item # f
                /\ request[u].pc \in Polling /\ request[u].item = f => ~request'[u].current
  PROVE  Inductive'
<1>1. /\ TypeOK /\ OneDispatch /\ \A u \in Workers : RequestSound(u) /\ WorkerSound(u)
      /\ \A f \in Executions : ItemSound(f) /\ StatusTrue(items[f].status, account[f])
  BY InductiveFacts
<1>2. /\ rows' = rows /\ lock' = lock /\ account' = account /\ begun' = begun
      /\ plan' = plan /\ faults' = faults
  BY DEF chosenVars
<1>3. TypeOK'
  BY <1>1, <1>2 DEF TypeOK, RequestMoved
<1>4. OneDispatch'
  BY <1>1, OneDispatchKept DEF Dispatching, ItemPoints
<1>5. ASSUME NEW u \in Workers
      PROVE  RequestSound(u)' /\ WorkerSound(u)'
  <2>1. CASE u = w
    <3>1. /\ request'[u].pc \in {"idle", "head"} /\ worker'[u].pc = "idle"
          /\ worker'[u].item = None
          /\ request'[u].pc = "idle" => request'[u].doc = None
          /\ request'[u].pc = "head" => request'[u].doc = request[u].doc /\ request[u].pc # "idle"
      BY <2>1 DEF RequestMoved, Dispatching, ItemPoints
    <3> QED
      BY <1>1, <3>1 DEF RequestSound, WorkerSound, ItemPoints, Polling
  <2>2. CASE u # w
    <3>1. worker'[u] = worker[u]
      BY <2>2
    <3>2. WorkerSound(u)'
      BY <1>1, <1>2, <3>1, StaysSound
    <3>3. request[u].pc \in ItemPoints \cup Polling => request[u].item \in Executions
      BY <1>1, OwnItems DEF RequestSound, ItemPoints, Polling
    <3>4. /\ request[u].pc \in ItemPoints =>
               items'[request[u].item].status = items[request[u].item].status
          /\ request[u].pc \in Polling =>
               \/ items'[request[u].item].status = items[request[u].item].status
               \/ items'[request[u].item].status \notin Active /\ ~request'[u].current
      BY <2>2, <3>3
    <3> QED
      BY <1>1, <1>2, <2>2, <3>1, <3>2, <3>4, RequestKept DEF RequestMoved
  <2> QED
    BY <2>1, <2>2
<1>6. ASSUME NEW f \in Executions
      PROVE  ItemSound(f)' /\ StatusTrue(items[f].status, account[f])'
  <2>1. CASE items'[f] = items[f]
    BY <1>1, <1>2, <2>1, ItemStays
  <2> QED
    BY <2>1
<1> QED
  BY <1>3, <1>4, <1>5, <1>6, SoundNext

LEMMA RecordOutcomeInductive ==
  ASSUME Inductive, NEW w \in Workers, RecordPackageItemOutcome(w), UNCHANGED chosenVars
  PROVE  Inductive'
<1>0. PICK e : e = request[w].item
  OBVIOUS
<1> DEFINE out == worker[w].outcome
           next == [At(w, "head") EXCEPT !.item = None]
           x == Recorded(items[e], out)
<1>1. /\ request[w].pc = "run" /\ request[w].pc \in ItemPoints /\ worker[w].pc = "answered"
      /\ Become(w, Idle) /\ UNCHANGED <<rows, lock, account>>
  BY DEF RecordPackageItemOutcome, ItemPoints
<1>2. /\ TypeOK /\ Exclusive /\ e \in Executions /\ WorkerSound(w) /\ ItemSound(e)
      /\ rows[e] \in DirectExecutionRecord /\ account[e] \in Objects /\ items[e] \in Item
      /\ items[e].status = "DISPATCHING" /\ worker[w].item = e /\ worker[w] \in Worker
      /\ worker \in [Workers -> Worker] /\ items \in [Executions -> Item]
  BY <1>0, <1>1, WorkFacts DEF TypeOK
<1>3. /\ worker' \in [Workers -> Worker] /\ worker'[w] = Idle
      /\ \A u \in Workers \ {w} : worker'[u] = worker[u]
      /\ Idle.pc = "idle" /\ Idle.item = None
  BY <1>1, <1>2, BecomeNext, StartTypes DEF Idle
<1>4. CASE Checkpoint(w, next) /\ items' = [items EXCEPT ![e] = x] /\ UNCHANGED begun
  <2>1. next \in Request /\ next.pc = "head" /\ next.doc = request[w].doc
    <3>1. At(w, "head") \in Request /\ At(w, "head").pc = "head" /\ At(w, "head").doc = request[w].doc
      BY <1>2, RequestTypes
    <3> QED
      BY <3>1 DEF Request
  <2> HIDE DEF next
  <2>2. RequestMoved(w, next)
    BY <1>2, <1>4, <2>1, CheckpointNext
  <2>3. out \in Answers
    BY <1>2 DEF Worker, Outcome, Answers
  <2>4. /\ AdTrue(out.ad, account[e]) /\ (out.ad # None => rows[e].pending = None)
        /\ out.status # "OUTCOME_UNKNOWN" /\ items[e].containment \notin Unresolved
    BY <1>1, <1>2 DEF WorkerSound, Local, Answered, Answering, ItemSound
  <2> HIDE DEF out
  <2>5. /\ x \in Item /\ x.status \notin Active
        /\ x.containment \in Unresolved => x.status = "RECONCILIATION_REQUIRED"
        /\ x.status \in Pollable => Verified(account[e]) /\ rows[e].pending = None
        /\ StatusTrue(x.status, account[e])
    BY <1>2, <2>3, <2>4, RecordedNext
  <2> HIDE DEF x
  <2>6. /\ items' \in [Executions -> Item] /\ items'[e] = x
        /\ \A f \in Executions \ {e} : items'[f] = items[f]
        /\ rows' = rows /\ account' = account
    BY <1>1, <1>2, <1>4, <2>5
  <2>7. /\ items'[e].status \notin Active
        /\ ItemSound(e)' /\ StatusTrue(items[e].status, account[e])'
        /\ \A u \in Workers \ {w} : request[u].pc \in ItemPoints \cup Polling => request[u].item # e
    <3>1. ItemSound(e)' /\ StatusTrue(items[e].status, account[e])'
      BY <1>2, <2>5, <2>6 DEF ItemSound
    <3>2. \A u \in Workers \ {w} : request[u].pc \in ItemPoints \cup Polling => request[u].item # e
      BY <1>0, <1>1, <1>2, ItemOwner
    <3> QED
      BY <2>5, <2>6, <3>1, <3>2
  <2>8. \A f \in Executions : items'[f] = items[f] \/
          /\ items'[f].status \notin Active
          /\ ItemSound(f)' /\ StatusTrue(items[f].status, account[f])'
          /\ \A u \in Workers \ {w} :
               /\ request[u].pc \in ItemPoints => request[u].item # f
               /\ request[u].pc \in Polling /\ request[u].item = f => ~request'[u].current
    <3> SUFFICES ASSUME NEW f \in Executions, items'[f] # items[f]
                 PROVE  /\ items'[f].status \notin Active
                        /\ ItemSound(f)' /\ StatusTrue(items[f].status, account[f])'
                        /\ \A u \in Workers \ {w} :
                             request[u].pc \in ItemPoints \cup Polling => request[u].item # f
      OBVIOUS
    <3>1. f = e
      BY <2>6
    <3> QED
      BY <2>7, <3>1
  <2> QED
    BY <1>1, <1>3, <1>4, <2>1, <2>2, <2>6, <2>8, LeaveInductive DEF Dispatching
<1>5. CASE Conflict(w)
  <2>1. /\ NoRequest \in Request /\ NoRequest.pc = "idle" /\ NoRequest.doc = None
        /\ RequestMoved(w, NoRequest) /\ items' = items /\ UNCHANGED begun
    BY <1>2, <1>5, StartAssumption, ExceptMoved DEF NoRequest, Conflict
  <2> QED
    BY <1>1, <1>2, <1>3, <2>1, LeaveInductive
<1> QED
  BY <1>0, <1>4, <1>5 DEF RecordPackageItemOutcome

LEMMA RecordPollInductive ==
  ASSUME Inductive, NEW w \in Workers, RecordModerationPoll(w), UNCHANGED chosenVars
  PROVE  Inductive'
<1>0. PICK e : e = request[w].item
  OBVIOUS
<1>1. /\ request[w].pc = "observe" /\ UNCHANGED directVars
      /\ TypeOK /\ \A u \in Workers : RequestSound(u)
      /\ \A f \in Executions : ItemSound(f)
  BY InductiveFacts DEF RecordModerationPoll
<1>2. /\ request[w].doc \in Documents /\ e \in ItemsOf(request[w].doc) /\ e \in Executions
      /\ request[w].current => items[e].status \in Pollable
      /\ worker[w].pc = "idle" /\ worker[w].item = None
      /\ NoRequest \in Request /\ NoRequest.pc = "idle" /\ NoRequest.doc = None
  BY <1>0, <1>1, OwnItems, StartAssumption DEF RequestSound, Polling, ItemPoints, NoRequest
<1>3. ASSUME NEW a \in Observations(e), Checkpoint(w, NoRequest),
             items' = [items EXCEPT ![e] = Recorded(@, a)], UNCHANGED begun
      PROVE  Inductive'
  <2> DEFINE x == Recorded(items[e], a)
  <2>1. /\ RequestMoved(w, NoRequest) /\ request[w].current
        /\ \A u \in Workers \ {w} : request'[u].current => request[u].doc # request[w].doc
    BY <1>1, <1>2, <1>3, CheckpointNext
  <2>2. items[e].status \in Pollable /\ ItemSound(e)
    BY <1>1, <1>2, <2>1
  <2>3. /\ a \in Answers /\ AdTrue(a.ad, account[e]) /\ Verified(account[e])
        /\ rows[e].pending = None /\ items[e].containment \notin Unresolved
        /\ items[e] \in Item /\ account[e] \in Objects /\ rows[e] \in DirectExecutionRecord
        /\ items \in [Executions -> Item]
    BY <1>1, <1>2, <2>2, ObservationsTrue DEF ItemSound, TypeOK, Pollable
  <2>4. /\ x \in Item /\ x.status \notin Active
        /\ x.containment \in Unresolved => x.status = "RECONCILIATION_REQUIRED"
        /\ x.status \in Pollable => Verified(account[e]) /\ rows[e].pending = None
        /\ StatusTrue(x.status, account[e])
    BY <2>3, RecordedNext
  <2> HIDE DEF x
  <2>5. /\ items' = [items EXCEPT ![e] = x] /\ rows' = rows /\ account' = account
    BY <1>1, <1>3 DEF x, directVars
  <2>6. /\ items' \in [Executions -> Item] /\ items'[e] = x
        /\ \A f \in Executions \ {e} : items'[f] = items[f]
    BY <1>2, <2>3, <2>4, <2>5
  <2>7. ItemSound(e)' /\ StatusTrue(items[e].status, account[e])'
    BY <1>1, <1>2, <2>4, <2>5, <2>6 DEF ItemSound
  <2>8. ASSUME NEW u \in Workers \ {w}
        PROVE  /\ request[u].pc \in ItemPoints => request[u].item # e
               /\ request[u].pc \in Polling /\ request[u].item = e => ~request'[u].current
    <3>1. request[u].pc \in ItemPoints => request[u].item # e
      BY <1>1, <2>2 DEF RequestSound, Pollable
    <3>2. request[u].pc \in Polling /\ request[u].item = e => request[u].doc = request[w].doc
      <4>1. request[u].pc \in Polling =>
              request[u].doc \in Documents /\ request[u].item \in ItemsOf(request[u].doc)
        BY <1>1 DEF RequestSound, Polling
      <4> QED
        BY <1>1, <1>2, <4>1, OwnItems
    <3> QED
      BY <2>1, <3>1, <3>2
  <2>9. \A f \in Executions : items'[f] = items[f] \/
          /\ items'[f].status \notin Active
          /\ ItemSound(f)' /\ StatusTrue(items[f].status, account[f])'
          /\ \A u \in Workers \ {w} :
               /\ request[u].pc \in ItemPoints => request[u].item # f
               /\ request[u].pc \in Polling /\ request[u].item = f => ~request'[u].current
    <3> SUFFICES ASSUME NEW f \in Executions, items'[f] # items[f]
                 PROVE  /\ items'[f].status \notin Active
                        /\ ItemSound(f)' /\ StatusTrue(items[f].status, account[f])'
                        /\ \A u \in Workers \ {w} :
                             /\ request[u].pc \in ItemPoints => request[u].item # f
                             /\ request[u].pc \in Polling /\ request[u].item = f =>
                                  ~request'[u].current
      OBVIOUS
    <3>1. f = e
      BY <2>6
    <3> QED
      BY <2>4, <2>6, <2>7, <2>8, <3>1
  <2>10. /\ rows' = rows /\ lock' = lock /\ account' = account /\ worker' = worker
         /\ worker \in [Workers -> Worker]
    BY <1>1 DEF directVars, TypeOK
  <2> QED
    BY <1>2, <1>3, <2>1, <2>6, <2>9, <2>10, LeaveInductive
<1>4. CASE Conflict(w)
  BY <1>1, <1>4, ConflictInductive
<1> QED
  BY <1>0, <1>3, <1>4 DEF RecordModerationPoll

LEMMA CrashInductive ==
  ASSUME Inductive, NEW w \in Workers, Crash(w), UNCHANGED chosenVars
  PROVE  Inductive'
<1>1. TypeOK /\ worker \in [Workers -> Worker] /\ items \in [Executions -> Item]
  BY InductiveFacts DEF TypeOK
<1>2. /\ NoRequest \in Request /\ NoRequest.pc = "idle" /\ NoRequest.doc = None
      /\ Idle \in Worker /\ Idle.pc = "idle" /\ Idle.item = None
  BY StartAssumption DEF NoRequest, Idle
<1>3. RequestMoved(w, NoRequest) /\ UNCHANGED <<rows, lock, account, begun, items>>
  BY <1>1, <1>2, ExceptMoved DEF Crash
<1>4. /\ worker' \in [Workers -> Worker] /\ worker'[w] = Idle
      /\ \A u \in Workers \ {w} : worker'[u] = worker[u]
  BY <1>1, <1>2, BecomeNext DEF Crash
<1> QED
  BY <1>1, <1>2, <1>3, <1>4, LeaveInductive

\* A verdict contradicts nothing that was known of an ad in moderation.
LEMMA VerdictKeeps ==
  ASSUME NEW o \in Objects, o.ad = "MODERATION", NEW verdict \in {"ACCEPTED", "REJECTED"},
         NEW p, p = [o EXCEPT !.ad = verdict]
  PROVE  /\ p \in Objects /\ p.count = o.count /\ p.state = o.state
         /\ \A ad : AdTrue(ad, o) => AdTrue(ad, p)
         /\ Verified(o) => Verified(p)
         /\ ObjectSound(o) => ObjectSound(p)
         /\ \A r : RecordSound(r, o) => RecordSound(r, p)
         /\ \A v, r, l : Local(v, r, o, l) => Local(v, r, p, l)
         /\ \A s : StatusTrue(s, o) => StatusTrue(s, p)
<1>1. /\ p \in Objects /\ p.count = o.count /\ p.state = o.state /\ p.ad = verdict
  BY DEF Objects, AdStatuses
<1>2. Verified(o) => Verified(p)
  BY <1>1 DEF Verified
<1>3. \A ad : AdTrue(ad, o) => AdTrue(ad, p)
  BY <1>1, <1>2 DEF AdTrue
<1>4. ObjectSound(o) => ObjectSound(p)
  BY <1>1 DEF ObjectSound
<1>5. \A r : (Known(r, o) => Known(r, p)) /\ (RecordSound(r, o) => RecordSound(r, p))
  BY <1>1, <1>2, <1>3 DEF RecordSound, Known
<1>6. ASSUME NEW v, NEW r, NEW l, Local(v, r, o, l)
      PROVE  Local(v, r, p, l)
  <2>1. Effected(v, o) /\ Answered(v, r, o)
    BY <1>6 DEF Local
  <2>2. Effected(v, p)
    <3> HIDE <1>6
    <3> QED
      BY <1>1, <1>2, <1>3, <1>5, <2>1 DEF Effected
  <2>3. Answered(v, r, p)
    BY <1>2, <1>3, <2>1 DEF Answered
  <2> QED
    BY <1>6, <2>2, <2>3 DEF Local
<1>7. \A s : StatusTrue(s, o) => StatusTrue(s, p)
  BY <1>1, <1>2 DEF StatusTrue
<1> QED
  BY <1>1, <1>2, <1>3, <1>4, <1>5, <1>6, <1>7

LEMMA EnvironmentInductive ==
  ASSUME Inductive, Environment, UNCHANGED chosenVars
  PROVE  Inductive'
<1>1. /\ TypeOK /\ OneDispatch /\ \A u \in Workers : RequestSound(u) /\ WorkerSound(u)
      /\ \A f \in Executions : ItemSound(f) /\ StatusTrue(items[f].status, account[f])
  BY InductiveFacts
<1>2. /\ items' = items /\ begun' = begun /\ request' = request /\ plan' = plan
      /\ faults' = faults
  BY DEF Environment, chosenVars
<1>3. OneDispatch'
  BY <1>1, <1>2 DEF OneDispatch
<1>4. CASE LeaseExpires
  <2>1. /\ rows' = rows /\ account' = account /\ worker' = worker /\ lock' \in AccountLock
        /\ \A u \in Workers : worker[u].item # lock.holder
    BY <1>4, LockValues DEF LeaseExpires
  <2>2. TypeOK'
    BY <1>1, <1>2, <2>1 DEF TypeOK
  <2>3. ASSUME NEW u \in Workers
        PROVE  RequestSound(u)' /\ WorkerSound(u)'
    <3>1. WorkerSound(u)'
      BY <1>1, <2>1, StaysSound
    <3> QED
      BY <1>1, <1>2, <2>1, <3>1 DEF RequestSound, ItemsOf
  <2>4. ASSUME NEW f \in Executions
        PROVE  ItemSound(f)' /\ StatusTrue(items[f].status, account[f])'
    BY <1>1, <1>2, <2>1, ItemStays
  <2> QED
    BY <1>3, <2>2, <2>3, <2>4, SoundNext
<1>5. ASSUME NEW e \in Executions, Moderated(e)
      PROVE  Inductive'
  <2>1. PICK verdict \in {"ACCEPTED", "REJECTED"} : account' = [account EXCEPT ![e].ad = verdict]
    BY <1>5 DEF Moderated
  <2> DEFINE p == [account[e] EXCEPT !.ad = verdict]
  <2>2. /\ rows' = rows /\ lock' = lock /\ worker' = worker /\ account[e] \in Objects
        /\ account[e].ad = "MODERATION" /\ account' = [account EXCEPT ![e] = p]
    BY <1>1, <1>5, <2>1 DEF Moderated, TypeOK
  <2> HIDE DEF p
  <2>3. /\ p \in Objects /\ (ObjectSound(account[e]) => ObjectSound(p))
        /\ Verified(account[e]) => Verified(p)
        /\ \A r : RecordSound(r, account[e]) => RecordSound(r, p)
        /\ \A v, r, l : Local(v, r, account[e], l) => Local(v, r, p, l)
        /\ \A s : StatusTrue(s, account[e]) => StatusTrue(s, p)
    BY <2>2, VerdictKeeps DEF p
  <2>4. /\ account' \in [Executions -> Objects] /\ account'[e] = p
        /\ \A f \in Executions \ {e} : account'[f] = account[f]
    BY <1>1, <2>2, <2>3 DEF TypeOK
  <2>5. TypeOK'
    BY <1>1, <1>2, <2>2, <2>4 DEF TypeOK
  <2>6. ASSUME NEW u \in Workers
        PROVE  RequestSound(u)' /\ WorkerSound(u)'
    <3>1. CASE worker[u].item = e
      BY <1>1, <1>2, <2>2, <2>3, <2>4, <3>1 DEF WorkerSound, RequestSound, ItemsOf
    <3>2. CASE worker[u].item # e
      <4>1. worker[u].pc # "idle" => worker[u].item \in Executions
        BY <1>1, OwnItems DEF RequestSound, ItemPoints
      <4>2. WorkerSound(u)'
        BY <1>1, <2>2, <2>4, <3>2, <4>1, StaysSound
      <4> QED
        BY <1>1, <1>2, <2>2, <4>2 DEF RequestSound, ItemsOf
    <3> QED
      BY <3>1, <3>2
  <2>7. ASSUME NEW f \in Executions
        PROVE  ItemSound(f)' /\ StatusTrue(items[f].status, account[f])'
    <3>1. CASE f = e
      BY <1>1, <1>2, <2>2, <2>3, <2>4, <3>1 DEF ItemSound
    <3>2. CASE f # e
      BY <1>1, <1>2, <2>2, <2>4, <3>2, ItemStays
    <3> QED
      BY <3>1, <3>2
  <2> QED
    BY <1>3, <2>5, <2>6, <2>7, SoundNext
<1> QED
  BY <1>4, <1>5 DEF Environment

-----------------------------------------------------------------------------
(* The theorems of this layer.                                             *)

LEMMA InductiveNext ==
  ASSUME Inductive, ExclusiveDispatch, [Next]_vars
  PROVE  Inductive'
<1>1. CASE UNCHANGED vars
  <2>1. /\ rows' = rows /\ lock' = lock /\ account' = account /\ worker' = worker
        /\ begun' = begun /\ items' = items /\ request' = request
        /\ faults' = faults /\ plan' = plan
    BY <1>1 DEF vars, directVars, chosenVars
  <2>2. /\ TypeOK /\ OneDispatch /\ \A u \in Workers : RequestSound(u) /\ WorkerSound(u)
        /\ \A f \in Executions : ItemSound(f) /\ StatusTrue(items[f].status, account[f])
    BY InductiveFacts
  <2>3. TypeOK' /\ OneDispatch'
    BY <2>1, <2>2 DEF TypeOK, OneDispatch
  <2>4. ASSUME NEW u \in Workers
        PROVE  RequestSound(u)' /\ WorkerSound(u)'
    BY <2>1, <2>2, StaysSound DEF RequestSound, ItemsOf
  <2>5. ASSUME NEW f \in Executions
        PROVE  ItemSound(f)' /\ StatusTrue(items[f].status, account[f])'
    BY <2>1, <2>2, ItemStays
  <2> QED
    BY <2>3, <2>4, <2>5, SoundNext
<1>2. ASSUME NEW w \in Workers, Step(w), UNCHANGED chosenVars
      PROVE  Inductive'
  BY <1>2, InitializeInductive, BeginItemInductive, PreflightInductive,
     BeginExecutionInductive, RunItemInductive, RecordOutcomeInductive,
     BeginPollInductive, RecordPollInductive DEF Step
<1> QED
  BY <1>1, <1>2, CrashInductive, DispatchInductive, PollInductive, EnvironmentInductive DEF Next

\* Every variable keeps its type, and the executions of the documents stay apart.
THEOREM TypeCorrect == ASSUME ExclusiveDispatch PROVE Spec => []TypeOK
<1>1. Inductive => TypeOK
  BY DEF Inductive
<1> QED
  BY <1>1, InitInductive, InductiveNext, PTL DEF Spec

\* Whatever requests, workers, rows and provider know of each other stays true.
THEOREM AlwaysSound == ASSUME ExclusiveDispatch PROVE Spec => []Inductive
<1> QED
  BY InitInductive, InductiveNext, PTL DEF Spec

\* An add whose outcome is unknown is never sent again, so an execution never makes a
\* second object of a kind, whatever is lost, repeated or cut off.
THEOREM NeverAddedTwice == ASSUME ExclusiveDispatch PROVE Spec => []AtMostOneAdd
<1>1. Inductive => AtMostOneAdd
  BY InductiveFacts DEF AtMostOneAdd, ItemSound, ObjectSound
<1> QED
  BY <1>1, AlwaysSound, PTL

\* What the document says of the moderation of an item is true of the provider.
THEOREM OutcomesStayTrue == ASSUME ExclusiveDispatch PROVE Spec => []OutcomesAreTrue
<1>1. Inductive => OutcomesAreTrue
  BY DEF Inductive, Sound
<1> QED
  BY <1>1, AlwaysSound, PTL

-----------------------------------------------------------------------------
(* What holds while the journal can be written, and no resumed item fails  *)
(* before its row is read again.                                           *)

Dangling(outcome) ==
  outcome.status = "RECONCILIATION_REQUIRED" \/ outcome.containment \in Unresolved

\* a failure in the row leaves nothing that serves, or says that it may
RowSafe(rec, o) ==
  /\ rec.status = "SYSTEM_FAILED" => rec.containment \notin Unresolved
  /\ rec.status \in TerminalFailure /\ rec.pending = None /\ "campaigns.add" \in rec.ids
       /\ rec.containment \notin Unresolved => o.state # "ON"

\* of a worker v, its row r, its objects o and the lock l
KeptLocal(v, r, o, l) ==
  /\ v.err # "unattempted"
  /\ v.pc = "open" => RowSafe(v.rec, o)
  /\ v.pc \in {"contained", "close"} /\ "campaigns.add" \in v.rec.ids
       /\ v.containment \notin Unresolved => o.state # "ON"
  /\ v.pc \in Answering /\ r.status # "PROVIDER_REJECTED" /\ Dangling(v.outcome) =>
       /\ v.pc # "unlock"
       /\ v.pc = "answered" => l = [holder |-> v.item, held |-> TRUE]

SafeLocal(v, r, o) ==
  v.pc \in Answering /\ ~Dangling(v.outcome) => o.state # "ON" /\ r.pending = None

\* The answer of a call that fails before it has worked on the execution: the preflight
\* throws, the lock is another's, or what is pending cannot be read.
PlainFailure(w) ==
  /\ worker[w].pc \in {"idle", "claim", "reconcile"}
  /\ worker'[w].pc \in {"answered", "hold"} /\ worker'[w].outcome = Exception

\* no execution that was worked on before is answered so
Resumed(w) == PlainFailure(w) => rows[worker'[w].item].status \in {"ABSENT", "BLANK"}
ResumesSucceed == \A w \in Workers : Resumed(w)

KeptBefore(w) ==
  /\ Before(w) /\ JournalWritable
  /\ KeptLocal(worker[w], rows[worker[w].item], account[worker[w].item], lock)
  /\ RowSafe(rows[worker[w].item], account[worker[w].item])

KeptAfter(w) ==
  /\ KeptLocal(worker'[w], rows'[worker[w].item], account'[worker[w].item], lock')
  /\ RowSafe(rows'[worker[w].item], account'[worker[w].item])
  /\ Resumed(w) /\ SafeLocal(worker[w], rows[worker[w].item], account[worker[w].item]) =>
       SafeLocal(worker'[w], rows'[worker[w].item], account'[worker[w].item])

\* The holder of the lock saves what it means to save.
LEMMA JournalSaves ==
  ASSUME NEW w \in Workers, KeptBefore(w), worker[w].pc \in Owning,
         NEW rec \in DirectExecutionRecord
  PROVE  ~NotSaved(worker[w].item, rec)
BY BeforeFacts DEF KeptBefore, JournalWritable, NotSaved

\* A worker on its way needs no more than an error that was sent.
LEMMA MoveKept ==
  ASSUME NEW v, NEW r, NEW o, NEW l, v.err # "unattempted",
         v.pc \notin Answering \cup {"contained", "close", "open"}
  PROVE  KeptLocal(v, r, o, l) /\ SafeLocal(v, r, o)
BY DEF KeptLocal, SafeLocal

LEMMA RaiseKept ==
  ASSUME NEW v \in Worker, NEW e \in Errors \ {"unattempted"}, NEW r, NEW o, NEW l,
         v.err # "unattempted", "NON_SERVING_CONFIRMED" \in v.steps => o.state # "ON"
  PROVE  KeptLocal(Raise(v, e), r, o, l) /\ SafeLocal(Raise(v, e), r, o)
<1> DEFINE x == Raise(v, e)
<1>1. /\ x.rec = v.rec /\ x.err # "unattempted" /\ x.pc \in {"contained", "contain", "close"}
      /\ x.pc = "close" => "campaigns.add" \notin v.rec.ids
      /\ x.pc = "contained" => x.containment \in Unresolved \/ "NON_SERVING_CONFIRMED" \in v.steps
  BY RaiseNext
<1> HIDE DEF x
<1>2. KeptLocal(x, r, o, l) /\ SafeLocal(x, r, o)
  BY <1>1 DEF KeptLocal, SafeLocal, Answering
<1> QED
  BY <1>2 DEF x

\* A row that is not a failure is no danger.
LEMMA NoFailure ==
  ASSUME NEW rec, NEW o, rec.status \notin TerminalFailure
  PROVE  RowSafe(rec, o)
BY DEF RowSafe, TerminalFailure

\* What a terminal row answers is dangling, or nothing serves.
LEMMA TerminalSafe ==
  ASSUME NEW rec \in DirectExecutionRecord, NEW o \in Objects,
         RecordSound(rec, o), ObjectSound(o), RowSafe(rec, o), rec.pending = None,
         rec.status \in TerminalSuccess \cup TerminalFailure
  PROVE  /\ ~Dangling(OutcomeOf(rec)) => o.state # "ON"
         /\ Dangling(OutcomeOf(rec)) => rec.status = "PROVIDER_REJECTED"
<1>1. /\ OutcomeOf(rec).status = rec.status
      /\ OutcomeOf(rec).containment = rec.containment \/
           (OutcomeOf(rec).containment = "NOT_CREATED" /\ "campaigns.add" \notin rec.ids)
  BY DEF OutcomeOf
<1>2. CASE rec.status \in TerminalSuccess
  BY <1>1, <1>2, NoneIsNoName
     DEF RecordSound, Verified, Dangling, Unresolved, TerminalSuccess
<1>3. CASE rec.status \in TerminalFailure
  <2>1. ASSUME "campaigns.add" \notin rec.ids
        PROVE  o.state # "ON"
    BY <2>1, NoneIsNoName DEF RecordSound, Known, ObjectSound, Adds
  <2>2. ASSUME ~Dangling(OutcomeOf(rec)), "campaigns.add" \in rec.ids
        PROVE  o.state # "ON"
    BY <1>1, <1>3, <2>2 DEF RowSafe, Dangling
  <2>3. Dangling(OutcomeOf(rec)) => rec.status = "PROVIDER_REJECTED"
    BY <1>1, <1>3, SMTT(30) DEF RowSafe, Dangling, TerminalFailure, Unresolved
  <2> QED
    BY <2>1, <2>2, <2>3
<1> QED
  BY <1>2, <1>3

\* What the steps below start from.
LEMMA KeptFacts ==
  ASSUME NEW w \in Workers, KeptBefore(w)
  PROVE  LET v == worker[w]
             e == worker[w].item
         IN /\ Before(w) /\ TypeOK /\ v \in Worker /\ e \in Executions /\ v.err # "unattempted"
            /\ v.rec \in DirectExecutionRecord /\ rows[e] \in DirectExecutionRecord
            /\ account[e] \in Objects /\ worker \in [Workers -> Worker]
            /\ rows \in [Executions -> DirectExecutionRecord]
            /\ v.pc \in Owning => lock.holder = e
            /\ Standing(v, rows[e]) /\ Opening(v) /\ AtStage(v) /\ Pending(v) /\ AdKnown(v)
            /\ Effected(v, account[e])
            /\ RecordSound(rows[e], account[e]) /\ ObjectSound(account[e])
            /\ KeptLocal(v, rows[e], account[e], lock) /\ RowSafe(rows[e], account[e])
            /\ v.err = None \/ v.err \in Errors \ {"unattempted"}
            /\ "NON_SERVING_CONFIRMED" \in v.steps => account[e].state # "ON"
<1>1. /\ Before(w) /\ KeptLocal(worker[w], rows[worker[w].item], account[worker[w].item], lock)
      /\ RowSafe(rows[worker[w].item], account[worker[w].item])
  BY DEF KeptBefore
<1> QED
  BY <1>1, BeforeFacts DEF KeptLocal, TypeOK, Worker, Effected

\* The exception of a call answers for nothing when it is the first one.
LEMMA PlainSafe ==
  ASSUME NEW rec \in DirectExecutionRecord, NEW o \in Objects, RecordSound(rec, o),
         ObjectSound(o), rec.status \in {"ABSENT", "BLANK"}
  PROVE  o.state # "ON" /\ rec.pending = None
BY NoneIsNoName DEF RecordSound, Known, ObjectSound, Adds

LEMMA AcquireKept ==
  ASSUME NEW w \in Workers, KeptBefore(w), Acquire(w)
  PROVE  KeptAfter(w)
<1> DEFINE x == [worker[w] EXCEPT !.rec = rows[worker[w].item], !.pc = "claim"]
           e == worker[w].item
<1>1. /\ x.pc = "claim" /\ x.err # "unattempted"
      /\ worker' = [worker EXCEPT ![w] = x] /\ UNCHANGED <<rows, lock, account>>
  BY KeptFacts DEF Acquire, Worker
<1>2. worker'[w] = x /\ rows'[e] = rows[e] /\ account'[e] = account[e]
  BY <1>1, KeptFacts
<1> HIDE DEF x
<1> QED
  BY <1>1, <1>2, MoveKept, KeptFacts DEF KeptAfter, Answering

LEMMA ClaimKept ==
  ASSUME NEW w \in Workers, KeptBefore(w), Claim(w)
  PROVE  KeptAfter(w)
<1> DEFINE v == worker[w]
           e == worker[w].item
           r == rows[e]
           o == account[e]
<1>1. /\ TypeOK /\ v \in Worker /\ e \in Executions /\ r \in DirectExecutionRecord /\ o \in Objects
      /\ v.pc = "claim" /\ v.rec = r /\ RecordSound(r, o) /\ ObjectSound(o) /\ RowSafe(r, o)
      /\ v.err # "unattempted" /\ worker \in [Workers -> Worker]
      /\ rows' = rows /\ account' = account
  BY KeptFacts DEF Claim, Standing
<1>2. \/ AnswerAt(w, "answered", Exception)
      \/ v.rec.pending # None /\ Goto(w, "reconcile")
      \/ /\ v.rec.pending = None
         /\ v.rec.status \in TerminalSuccess \cup TerminalFailure
         /\ AnswerAt(w, "unlock", OutcomeOf(v.rec))
      \/ /\ v.rec.pending = None
         /\ Goto(w, "open")
  BY DEF Claim, Answer
<1>3. CASE AnswerAt(w, "answered", Exception)
  <2>1. /\ worker'[w].pc = "answered" /\ worker'[w].outcome = Exception /\ worker'[w].item = e
        /\ worker'[w].err = None /\ Exception.status = "SYSTEM_FAILED" /\ Exception.containment = None
    BY <1>1, <1>3, AnswerNext, StartTypes DEF Exception
  <2>2. Resumed(w) => o.state # "ON" /\ r.pending = None
    BY <1>1, <2>1, PlainSafe DEF Resumed, PlainFailure
  <2> QED
    BY <1>1, <2>1, <2>2, NoneIsNoName DEF KeptAfter, KeptLocal, SafeLocal, Dangling, Answering,
       Errors
<1>4. ASSUME NEW p \in {"reconcile", "open"}, Goto(w, p)
      PROVE  KeptAfter(w)
  <2>1. worker'[w] = [v EXCEPT !.pc = p]
    BY <1>1, <1>4 DEF Goto
  <2>2. worker'[w].pc = p /\ worker'[w].err # "unattempted" /\ worker'[w].rec = r
    BY <1>1, <2>1 DEF Worker
  <2> QED
    BY <1>1, <2>2 DEF KeptAfter, KeptLocal, SafeLocal, Answering
<1>5. CASE /\ v.rec.pending = None
           /\ v.rec.status \in TerminalSuccess \cup TerminalFailure
           /\ AnswerAt(w, "unlock", OutcomeOf(v.rec))
  <2> DEFINE out == OutcomeOf(r)
  <2>1. out \in Outcome
    BY <1>1, <1>5, OutcomeTrue
  <2>2. /\ ~Dangling(out) => o.state # "ON"
        /\ Dangling(out) => r.status = "PROVIDER_REJECTED"
    BY <1>1, <1>5, TerminalSafe
  <2>3. AnswerAt(w, "unlock", out)
    BY <1>1, <1>5
  <2> HIDE DEF out
  <2>4. /\ worker'[w].pc = "unlock" /\ worker'[w].outcome = out /\ worker'[w].err = None
    BY <1>1, <2>1, <2>3, AnswerNext
  <2> QED
    BY <1>1, <1>5, <2>2, <2>4, NoneIsNoName DEF KeptAfter, KeptLocal, SafeLocal, Answering, Errors
<1> QED
  BY <1>2, <1>3, <1>4, <1>5

LEMMA ReconcileKept ==
  ASSUME NEW w \in Workers, KeptBefore(w), ReconcilePendingDispatch(w)
  PROVE  KeptAfter(w)
<1> DEFINE v == worker[w]
           e == worker[w].item
           old == v.rec
           o == account[e]
           rec == [old EXCEPT !.pending = None, !.status = "OPEN",
                     !.steps = @ \cup {StepOf(old.pending)},
                     !.containment = IF old.pending = "campaigns.suspend"
                                       THEN "NON_SERVING_CONFIRMED" ELSE @]
<1>1. /\ TypeOK /\ v \in Worker /\ e \in Executions /\ rows[e] \in DirectExecutionRecord
      /\ o \in Objects /\ v.pc = "reconcile" /\ old = rows[e] /\ old.pending # None
      /\ RecordSound(rows[e], o) /\ ObjectSound(o) /\ RowSafe(rows[e], o)
      /\ v.err # "unattempted" /\ worker \in [Workers -> Worker]
      /\ rows \in [Executions -> DirectExecutionRecord] /\ account' = account
      /\ old \in DirectExecutionRecord
  BY KeptFacts, SMTT(30) DEF ReconcilePendingDispatch, Standing
<1>2. rec \in DirectExecutionRecord /\ rec.status = "OPEN"
  BY <1>1, ZenonT(60) DEF DirectExecutionRecord, Statuses, StepOf, Steps, Containments
<1>3. \/ Saved(e, rec) /\ worker' = [worker EXCEPT ![w].rec = rec, ![w].pc = "open"]
      \/ NotSaved(e, rec)
      \/ UNCHANGED <<rows, lock>> /\ AnswerAt(w, "hold", Ambiguous)
      \/ UNCHANGED <<rows, lock>> /\ AnswerAt(w, "hold", Exception)
  BY DEF ReconcilePendingDispatch
<1> HIDE DEF rec
<1>4. ~NotSaved(e, rec)
  BY <1>1, <1>2, JournalSaves DEF Owning, Points
<1>5. CASE Saved(e, rec) /\ worker' = [worker EXCEPT ![w].rec = rec, ![w].pc = "open"]
  <2>1. rows'[e] = rec
    BY <1>1, <1>5 DEF Saved
  <2>2. worker'[w].pc = "open" /\ worker'[w].rec = rec /\ worker'[w].err # "unattempted"
    BY <1>1, <1>5 DEF Worker
  <2>3. RowSafe(rec, o)
    BY <1>2, NoFailure DEF TerminalFailure
  <2> QED
    BY <1>1, <2>1, <2>2, <2>3 DEF KeptAfter, KeptLocal, SafeLocal, Answering
<1>6. ASSUME UNCHANGED <<rows, lock>>, NEW out \in {Ambiguous, Exception}, AnswerAt(w, "hold", out)
      PROVE  KeptAfter(w)
  <2>1. /\ worker'[w].pc = "hold" /\ worker'[w].outcome = out /\ worker'[w].item = e
        /\ worker'[w].err = None
    BY <1>1, <1>6, AnswerNext, StartTypes
  <2>2. out = Ambiguous => Dangling(out)
    BY DEF Dangling, Ambiguous, Exception
  <2>3. Resumed(w) => out # Exception
    BY <1>1, <2>1 DEF Resumed, PlainFailure, RecordSound
  <2> QED
    BY <1>1, <1>6, <2>1, <2>2, <2>3, NoneIsNoName
       DEF KeptAfter, KeptLocal, SafeLocal, Answering, Errors
<1> QED
  BY <1>3, <1>4, <1>5, <1>6, SMTT(30)

LEMMA OpenKept ==
  ASSUME NEW w \in Workers, KeptBefore(w), Open(w)
  PROVE  KeptAfter(w)
<1> DEFINE v == worker[w]
           e == worker[w].item
           rec == IF v.rec.status \in {"BLANK", "SYSTEM_FAILED"}
                    THEN [NewRecord EXCEPT !.status = "OPEN"] ELSE v.rec
           fresh == "campaigns.add" \notin rec.ids
           moderated == "MODERATION_SUBMITTED" \in rec.steps
           y == [v EXCEPT !.rec = rec, !.fresh = fresh, !.moderated = moderated]
<1>1. /\ v \in Worker /\ e \in Executions /\ v.rec \in DirectExecutionRecord /\ v.pc = "open"
      /\ worker \in [Workers -> Worker] /\ rows \in [Executions -> DirectExecutionRecord]
      /\ v.err # "unattempted" /\ RowSafe(v.rec, account[e]) /\ account' = account
  BY KeptFacts DEF Open, KeptLocal
<1>2. /\ rec \in DirectExecutionRecord /\ RowSafe(rec, account[e])
  <2>1. CASE v.rec.status \in {"BLANK", "SYSTEM_FAILED"}
    <3>1. rec = [NewRecord EXCEPT !.status = "OPEN"]
      BY <2>1
    <3>2. rec \in DirectExecutionRecord /\ rec.status = "OPEN"
      BY <3>1 DEF NewRecord, DirectExecutionRecord, Statuses, Containments
    <3> QED
      BY <3>2, NoFailure DEF TerminalFailure
  <2>2. CASE v.rec.status \notin {"BLANK", "SYSTEM_FAILED"}
    BY <1>1, <2>2
  <2> QED
    BY <2>1, <2>2
<1>3. (Saved(e, rec) /\ Become(w, Arrive(y, 1))) \/ NotSaved(e, rec)
  BY DEF Open
<1>8. fresh \in BOOLEAN /\ moderated \in BOOLEAN
  OBVIOUS
<1> HIDE DEF rec, fresh, moderated
<1>4. ~NotSaved(e, rec)
  BY <1>1, <1>2, JournalSaves DEF Owning, Points
<1>5. y \in Worker /\ y.err = v.err
  BY <1>1, <1>2, <1>8 DEF Worker
<1> HIDE DEF y
<1>6. /\ Arrive(y, 1) \in Worker /\ Arrive(y, 1).err = v.err
      /\ Arrive(y, 1).pc \in {"read", "progress", "intend", "probe"}
  BY <1>5, ArriveNext
<1>7. rows'[e] = rec /\ worker'[w] = Arrive(y, 1)
  BY <1>1, <1>3, <1>4 DEF Saved, Become
<1> QED
  BY <1>1, <1>2, <1>6, <1>7, MoveKept, SMTT(30) DEF KeptAfter, Answering

\* A worker on which an error was thrown, or that only moved on.
LEMMA RaisedKept ==
  ASSUME NEW w \in Workers, KeptBefore(w), After(w), NEW y \in Worker,
         NEW e \in Errors \ {"unattempted"}, Become(w, Raise(y, e)), y.err # "unattempted",
         RowSafe(rows'[worker[w].item], account'[worker[w].item])
  PROVE  KeptAfter(w)
<1> DEFINE x == Raise(y, e)
           o == account'[worker[w].item]
<1>1. worker'[w] = x /\ Local(worker'[w], rows'[worker[w].item], o, lock')
  BY KeptFacts DEF Become, After
<1>2. x.steps = y.steps
  BY RaiseNext
<1> HIDE DEF x
<1>3. "NON_SERVING_CONFIRMED" \in y.steps => o.state # "ON"
  BY <1>1, <1>2 DEF Local, Effected
<1>4. \A r, l : KeptLocal(x, r, o, l) /\ SafeLocal(x, r, o)
  BY <1>3, RaiseKept DEF x
<1> QED
  BY <1>1, <1>4 DEF KeptAfter

LEMMA MovedKept ==
  ASSUME NEW w \in Workers, worker'[w].err # "unattempted",
         worker'[w].pc \notin Answering \cup {"contained", "close", "open"},
         RowSafe(rows'[worker[w].item], account'[worker[w].item])
  PROVE  KeptAfter(w)
BY MoveKept DEF KeptAfter

\* Goto changes only the point.
LEMMA GotoKept ==
  ASSUME NEW w \in Workers, KeptBefore(w),
         NEW p \in {"intend", "progress", "confirm", "lost"}, Goto(w, p),
         RowSafe(rows'[worker[w].item], account'[worker[w].item])
  PROVE  KeptAfter(w)
<1>1. worker'[w] = [worker[w] EXCEPT !.pc = p] /\ worker[w] \in Worker
  BY KeptFacts DEF Goto
<1>2. worker'[w].pc = p /\ worker'[w].err # "unattempted"
  BY <1>1, KeptFacts DEF Worker
<1> QED
  BY <1>2, MovedKept DEF Answering

\* A save that is certain, of a row that is no failure.
LEMMA SavedOnly ==
  ASSUME NEW w \in Workers, KeptBefore(w), worker[w].pc \in Owning,
         NEW rec \in DirectExecutionRecord, rec.status \notin TerminalFailure,
         Saved(worker[w].item, rec) \/ NotSaved(worker[w].item, rec)
  PROVE  /\ Saved(worker[w].item, rec) /\ ~NotSaved(worker[w].item, rec)
         /\ rows'[worker[w].item] = rec
         /\ RowSafe(rows'[worker[w].item], account'[worker[w].item])
<1>1. Saved(worker[w].item, rec) /\ ~NotSaved(worker[w].item, rec)
  BY JournalSaves
<1>2. rows'[worker[w].item] = rec
  BY <1>1, KeptFacts DEF Saved
<1> QED
  BY <1>1, <1>2, NoFailure

LEMMA IntendKept ==
  ASSUME NEW w \in Workers, KeptBefore(w), Intend(w)
  PROVE  KeptAfter(w)
<1> DEFINE v == worker[w]
           e == worker[w].item
           rec == [v.rec EXCEPT !.pending = Operation(v), !.status = "OPEN"]
           x == [v EXCEPT !.rec = rec, !.pc = "send"]
<1>1. /\ v \in Worker /\ v.rec \in DirectExecutionRecord /\ v.pc = "intend" /\ v.pc \in Owning
      /\ Operation(v) \in Mutations /\ v.err # "unattempted" /\ worker \in [Workers -> Worker]
      /\ RowSafe(rows[e], account[e]) /\ account' = account
  BY KeptFacts DEF Intend, AtStage, Owning, Points
<1>2. /\ rec \in DirectExecutionRecord /\ rec.status \notin TerminalFailure
  BY <1>1 DEF DirectExecutionRecord, Statuses, TerminalFailure
<1>3. \/ Become(w, Raise(v, "recon")) /\ UNCHANGED rows
      \/ Saved(e, rec) /\ Become(w, x)
      \/ NotSaved(e, rec)
  BY DEF Intend
<1> HIDE DEF rec
<1>4. CASE Become(w, Raise(v, "recon")) /\ UNCHANGED rows
  BY <1>1, <1>4, IntendAfter, KeptFacts, RaisedKept DEF Errors
<1>5. CASE (Saved(e, rec) /\ Become(w, x)) \/ NotSaved(e, rec)
  <2>1. Become(w, x) /\ RowSafe(rows'[e], account'[e])
    BY <1>1, <1>2, <1>5, SavedOnly
  <2>2. worker'[w] = x
    BY <1>1, <2>1 DEF Become
  <2>3. worker'[w].pc = "send" /\ worker'[w].err # "unattempted"
    BY <1>1, <2>2 DEF Worker
  <2> QED
    BY <2>1, <2>3, MovedKept DEF Answering
<1> QED
  BY <1>3, <1>4, <1>5

LEMMA SendKept ==
  ASSUME NEW w \in Workers, KeptBefore(w), Send(w)
  PROVE  KeptAfter(w)
<1> DEFINE v == worker[w]
           e == worker[w].item
<1>1. /\ v \in Worker /\ v.pc = "send" /\ v.err # "unattempted" /\ rows[e].status = "OPEN"
      /\ rows' = rows /\ After(w)
  BY KeptFacts, SendAfter DEF Send, Standing
<1>2. RowSafe(rows'[e], account'[e])
  BY <1>1, NoFailure DEF TerminalFailure
<1>3. \/ \E p \in {"confirm", "progress", "lost"} : Goto(w, p)
      \/ \E k \in {"rejected", "recon", "plain"} : Become(w, Raise(v, k))
  BY DEF Send
<1>4. ASSUME NEW p \in {"confirm", "progress", "lost"}, Goto(w, p)
      PROVE  KeptAfter(w)
  BY <1>2, <1>4, GotoKept
<1>5. ASSUME NEW k \in {"rejected", "recon", "plain"}, Become(w, Raise(v, k))
      PROVE  KeptAfter(w)
  BY <1>1, <1>2, <1>5, RaisedKept DEF Errors
<1> QED
  BY <1>3, <1>4, <1>5

LEMMA LostResultKept ==
  ASSUME NEW w \in Workers, KeptBefore(w), LostResult(w)
  PROVE  KeptAfter(w)
<1> DEFINE v == worker[w]
           rec == [v.rec EXCEPT !.status = "RECONCILIATION_REQUIRED"]
           y == [v EXCEPT !.rec = rec]
<1>1. /\ v \in Worker /\ v.rec \in DirectExecutionRecord /\ v.pc = "lost" /\ v.pc \in Owning
      /\ v.err # "unattempted" /\ After(w)
      /\ Saved(v.item, rec) \/ NotSaved(v.item, rec)
      /\ Become(w, Raise(y, "recon"))
  BY KeptFacts, LostResultAfter DEF LostResult, Owning, Points
<1>2. rec \in DirectExecutionRecord /\ rec.status \notin TerminalFailure
  BY <1>1 DEF DirectExecutionRecord, Statuses, TerminalFailure
<1> HIDE DEF rec
<1>3. RowSafe(rows'[v.item], account'[v.item])
  BY <1>1, <1>2, SavedOnly
<1>4. y \in Worker /\ y.err # "unattempted"
  BY <1>1, <1>2 DEF Worker
<1> QED
  BY <1>1, <1>3, <1>4, RaisedKept DEF Errors

LEMMA ReadsKept ==
  ASSUME NEW w \in Workers, KeptBefore(w),
         ConfirmSuspended(w) \/ ProbeSuspended(w) \/ ReadAndVerifyGraph(w) \/ EnsureNonServing(w)
  PROVE  KeptAfter(w)
<1> DEFINE v == worker[w]
           e == worker[w].item
<1>1. /\ v \in Worker /\ v.err # "unattempted" /\ UNCHANGED <<rows, lock, account>>
      /\ After(w) /\ RowSafe(rows[e], account[e]) /\ worker \in [Workers -> Worker]
  BY KeptFacts, ConfirmAfter, ProbeAfter, ReadGraphAfter, ContainAfter
     DEF ConfirmSuspended, ProbeSuspended, ReadAndVerifyGraph, EnsureNonServing
<1>2. RowSafe(rows'[e], account'[e])
  BY <1>1
<1>3. ASSUME NEW k \in ReadErrors \cup {"plain"}, Become(w, Raise(v, k))
      PROVE  KeptAfter(w)
  BY <1>1, <1>2, <1>3, RaisedKept, ReadErrorKinds DEF Errors
<1>4. ASSUME NEW p \in {"intend", "progress"}, Goto(w, p)
      PROVE  KeptAfter(w)
  BY <1>2, <1>4, GotoKept
<1>5. ASSUME NEW c \in {"NON_SERVING_CONFIRMED", "MANUAL_RECONCILIATION_REQUIRED"},
             Become(w, [v EXCEPT !.pc = "contained", !.containment = c]),
             c = "NON_SERVING_CONFIRMED" => NonServing(e)
      PROVE  KeptAfter(w)
  <2>1. worker'[w] = [v EXCEPT !.pc = "contained", !.containment = c]
    BY <1>1, <1>5 DEF Become
  <2>2. /\ worker'[w].pc = "contained" /\ worker'[w].containment = c
        /\ worker'[w].err # "unattempted"
    BY <1>1, <2>1 DEF Worker
  <2>3. c \notin Unresolved => account[e].state # "ON"
    BY <1>5 DEF NonServing, Unresolved
  <2> QED
    BY <1>1, <2>2, <2>3 DEF KeptAfter, KeptLocal, SafeLocal, Answering
<1>6. ASSUME NEW ad, Become(w, [v EXCEPT !.pc = "progress", !.rec.ad = ad])
      PROVE  KeptAfter(w)
  <2>1. worker'[w] = [v EXCEPT !.pc = "progress", !.rec.ad = ad]
    BY <1>1, <1>6 DEF Become
  <2>2. worker'[w].pc = "progress" /\ worker'[w].err # "unattempted"
    BY <1>1, <2>1 DEF Worker
  <2> QED
    BY <1>2, <2>2, MovedKept DEF Answering
<1>7. CASE ConfirmSuspended(w)
  <2>1. \/ \E c \in {"NON_SERVING_CONFIRMED", "MANUAL_RECONCILIATION_REQUIRED"} :
             /\ Become(w, [v EXCEPT !.pc = "contained", !.containment = c])
             /\ c = "NON_SERVING_CONFIRMED" => NonServing(e)
        \/ Goto(w, "progress")
        \/ \E k \in ReadErrors \cup {"plain"} : Become(w, Raise(v, k))
    <3>1. CASE v.containing /\ NonServing(e) /\
               Become(w, [v EXCEPT !.pc = "contained", !.containment = "NON_SERVING_CONFIRMED"])
      BY <3>1
    <3>2. CASE v.containing /\ Become(w, [v EXCEPT !.pc = "contained",
                                !.containment = "MANUAL_RECONCILIATION_REQUIRED"])
      BY <3>2
    <3> QED
      BY <1>7, <3>1, <3>2 DEF ConfirmSuspended
  <2> QED
    BY <1>3, <1>4, <1>5, <2>1
<1>8. CASE ProbeSuspended(w)
  BY <1>3, <1>4, <1>8 DEF ProbeSuspended
<1>9. CASE ReadAndVerifyGraph(w)
  BY <1>3, <1>6, <1>9 DEF ReadAndVerifyGraph
<1>10. CASE EnsureNonServing(w)
  BY <1>3, <1>4, <1>5, <1>10 DEF EnsureNonServing
<1> QED
  BY <1>7, <1>8, <1>9, <1>10, SMTT(30)

LEMMA ProgressKept ==
  ASSUME NEW w \in Workers, KeptBefore(w), PersistProgress(w)
  PROVE  KeptAfter(w)
<1> DEFINE v == worker[w]
           e == worker[w].item
           rec == ProgressRecord(v)
           next == [v EXCEPT !.rec = rec, !.steps = rec.steps]
           x == [next EXCEPT !.pc = "finish"]
<1>1. /\ v \in Worker /\ v.rec \in DirectExecutionRecord /\ v.pc = "progress" /\ v.pc \in Owning
      /\ v.err # "unattempted" /\ v.at \in 1..8 /\ v.steps \subseteq Steps
      /\ account[e] \in Objects /\ worker \in [Workers -> Worker]
      /\ AtStage(v) /\ Pending(v) /\ AdKnown(v) /\ Effected(v, account[e])
  BY KeptFacts, StageNames DEF PersistProgress, Owning, Points, Worker
<1>2. rec \in DirectExecutionRecord /\ rec.status \notin TerminalFailure
  BY <1>1, ProgressNext
<1> HIDE DEF rec
<1>3. next \in Worker /\ next.err = v.err
  BY <1>1, <1>2 DEF Worker, DirectExecutionRecord
<1>4. \/ Saved(e, rec) /\ v.at = 8 /\ Become(w, x)
      \/ Saved(e, rec) /\ v.at # 8 /\ Become(w, Arrive(next, v.at + 1))
      \/ NotSaved(e, rec)
  BY StageNames DEF PersistProgress, rec
<1>5. RowSafe(rows'[e], account'[e]) /\ ~NotSaved(e, rec)
  BY <1>1, <1>2, <1>4, SavedOnly
<1>6. CASE Become(w, x)
  <2>1. worker'[w] = x /\ x.pc = "finish" /\ x.err = v.err
    BY <1>1, <1>3, <1>6 DEF Become, Worker
  <2> QED
    BY <1>1, <1>5, <2>1, MovedKept DEF Answering
<1>7. CASE v.at # 8 /\ Become(w, Arrive(next, v.at + 1))
  <2> DEFINE y == Arrive(next, v.at + 1)
  <2>1. v.at + 1 \in 1..8
    BY <1>1, <1>7
  <2>2. worker'[w] = y
    BY <1>1, <1>7 DEF Become
  <2> HIDE DEF next
  <2>3. y.pc \in {"read", "progress", "intend", "probe"} /\ y.err = v.err
    BY <1>3, <2>1, ArriveNext
  <2> HIDE DEF y
  <2> QED
    BY <1>1, <1>5, <2>2, <2>3, MovedKept DEF Answering
<1> QED
  BY <1>4, <1>5, <1>6, <1>7

LEMMA PersistContainmentKept ==
  ASSUME NEW w \in Workers, KeptBefore(w), PersistContainment(w)
  PROVE  KeptAfter(w)
<1> DEFINE v == worker[w]
           e == worker[w].item
           confirmed == v.containment = "NON_SERVING_CONFIRMED"
           pending == IF confirmed /\ v.rec.pending = "campaigns.suspend" THEN None
                      ELSE v.rec.pending
           status == IF confirmed THEN "OPEN" ELSE "RECONCILIATION_REQUIRED"
           rec == [v.rec EXCEPT !.pending = pending, !.status = status, !.steps = v.steps,
                     !.containment = v.containment, !.unattempted = FALSE, !.ad = None]
           x == [v EXCEPT !.rec = rec, !.pc = "close"]
<1>1. /\ v \in Worker /\ v.rec \in DirectExecutionRecord /\ v.pc = "contained" /\ v.pc \in Owning
      /\ v.err # "unattempted" /\ worker \in [Workers -> Worker]
      /\ v.steps \subseteq Steps /\ v.containment \in Containments /\ account' = account
      /\ "campaigns.add" \in v.rec.ids /\ v.containment \notin Unresolved =>
           account[e].state # "ON"
  BY KeptFacts DEF PersistContainment, Owning, Points, Worker, KeptLocal
<1>2. pending \in {None, v.rec.pending} /\ status \in {"OPEN", "RECONCILIATION_REQUIRED"}
  OBVIOUS
<1>3. (Saved(e, rec) /\ Become(w, x)) \/ NotSaved(e, rec)
  BY DEF PersistContainment
<1> HIDE DEF pending, status
<1>4. /\ rec \in DirectExecutionRecord /\ rec.status \notin TerminalFailure
      /\ rec.ids = v.rec.ids
  BY <1>1, <1>2 DEF DirectExecutionRecord, Statuses, TerminalFailure
<1> HIDE DEF rec
<1>5. Become(w, x) /\ RowSafe(rows'[e], account'[e])
  BY <1>1, <1>3, <1>4, SavedOnly
<1>6. worker'[w] = x
  BY <1>1, <1>5 DEF Become
<1>7. /\ worker'[w].pc = "close" /\ worker'[w].rec = rec /\ worker'[w].err # "unattempted"
      /\ worker'[w].containment = v.containment
  BY <1>1, <1>6 DEF Worker
<1> QED
  BY <1>1, <1>4, <1>5, <1>7 DEF KeptAfter, KeptLocal, SafeLocal, Answering

LEMMA FinishKept ==
  ASSUME NEW w \in Workers, KeptBefore(w), Finish(w)
  PROVE  KeptAfter(w)
<1> DEFINE v == worker[w]
           e == worker[w].item
           status == CompletedStatus(v.rec.ad)
           rec == [v.rec EXCEPT !.pending = None, !.status = status]
           x == [v EXCEPT !.rec = rec, !.pc = "release"]
<1>1. /\ v \in Worker /\ v.rec \in DirectExecutionRecord /\ v.pc = "finish" /\ v.pc \in Owning
      /\ v.err # "unattempted" /\ worker \in [Workers -> Worker]
  BY KeptFacts DEF Finish, Owning, Points
<1>2. status \in TerminalSuccess
  BY DEF CompletedStatus, TerminalSuccess
<1>3. (Saved(e, rec) /\ Become(w, x)) \/ NotSaved(e, rec)
  BY DEF Finish
<1> HIDE DEF status
<1>4. rec \in DirectExecutionRecord /\ rec.status \notin TerminalFailure
  BY <1>1, <1>2 DEF DirectExecutionRecord, Statuses, TerminalFailure, TerminalSuccess
<1> HIDE DEF rec
<1>5. Become(w, x) /\ RowSafe(rows'[e], account'[e])
  BY <1>1, <1>3, <1>4, SavedOnly
<1>6. worker'[w] = x
  BY <1>1, <1>5 DEF Become
<1>7. worker'[w].pc = "release" /\ worker'[w].err # "unattempted"
  BY <1>1, <1>6 DEF Worker
<1> QED
  BY <1>5, <1>7, MovedKept DEF Answering

LEMMA ReleaseKept ==
  ASSUME NEW w \in Workers, KeptBefore(w), Release(w)
  PROVE  KeptAfter(w)
<1> DEFINE v == worker[w]
           e == worker[w].item
           out == OutcomeOf(v.rec)
<1>1. /\ v \in Worker /\ v.rec \in DirectExecutionRecord /\ v.pc = "release" /\ TypeOK
      /\ v.rec.containment = None /\ v.rec.status \in TerminalSuccess
      /\ rows[e].pending = None /\ Verified(account[e]) /\ account[e] \in Objects
      /\ RowSafe(rows[e], account[e]) /\ rows' = rows /\ account' = account
  BY KeptFacts DEF Release, Pending, Standing, Effected
<1>2. ~LockFails
  BY DEF KeptBefore, JournalWritable, LockFails
<1>3. /\ out \in Outcome /\ out.status = v.rec.status
      /\ out.containment \in {None, "NOT_CREATED"}
  <2>1. out \in Outcome /\ out.status = v.rec.status
    BY <1>1, OutcomeTrue
  <2>2. out.containment \in {v.rec.containment, "NOT_CREATED"}
    BY DEF OutcomeOf
  <2> QED
    BY <1>1, <2>1, <2>2
<1>4. AnswerAt(w, "answered", out)
  BY <1>2 DEF Release, Answer
<1> HIDE DEF out
<1>5. worker'[w].pc = "answered" /\ worker'[w].outcome = out /\ worker'[w].err = None
  BY <1>1, <1>3, <1>4, AnswerNext DEF TypeOK
<1>6. ~Dangling(out)
  BY <1>1, <1>3, NoneIsNoName DEF Dangling, Unresolved, TerminalSuccess
<1> QED
  BY <1>1, <1>5, <1>6, NoneIsNoName, SMTT(30)
     DEF KeptAfter, KeptLocal, SafeLocal, Answering, Errors, Verified

LEMMA CloseKept ==
  ASSUME NEW w \in Workers, KeptBefore(w), Close(w)
  PROVE  KeptAfter(w)
<1>0. PICK rec : rec = ClosedRecord(worker[w])
  OBVIOUS
<1> DEFINE v == worker[w]
           e == worker[w].item
           o == account[e]
           out == OutcomeOf(rec)
           point == IF MustHold(v) THEN "hold" ELSE "unlock"
<1>1. /\ v \in Worker /\ v.rec \in DirectExecutionRecord /\ v.pc = "close" /\ v.pc \in Owning
      /\ v.err # "unattempted" /\ AdKnown(v) /\ Effected(v, o) /\ o \in Objects /\ TypeOK
      /\ "campaigns.add" \in v.rec.ids /\ v.containment \notin Unresolved => o.state # "ON"
      /\ ObjectSound(o) /\ account' = account /\ rows \in [Executions -> DirectExecutionRecord]
      /\ e \in Executions
  BY KeptFacts DEF Close, Owning, Points, KeptLocal
<1>2. /\ rec \in DirectExecutionRecord /\ RecordSound(rec, o)
      /\ rec.status = IF MustHold(v) THEN "RECONCILIATION_REQUIRED"
                      ELSE IF v.err = "rejected" THEN "PROVIDER_REJECTED"
                      ELSE "SYSTEM_FAILED"
      /\ rec.containment = v.containment /\ rec.ids = v.rec.ids
      /\ ~MustHold(v) => rec.pending = None
  BY <1>0, <1>1, CloseNext
<1>3. \/ Saved(e, rec) /\ AnswerAt(w, point, out)
      \/ NotSaved(e, rec)
  BY <1>0 DEF Close, ClosedRecord
<1>4. Saved(e, rec) /\ AnswerAt(w, point, out)
  BY <1>1, <1>2, <1>3, JournalSaves
<1>5. rows'[e] = rec
  BY <1>1, <1>4 DEF Saved
<1>6. RowSafe(rec, o)
  BY <1>1, <1>2 DEF RowSafe, MustHold, TerminalFailure
<1>7. out \in Outcome /\ out.status = rec.status
  BY <1>1, <1>2, OutcomeTrue DEF TerminalFailure
<1>8. ~MustHold(v) => /\ ~Dangling(out) => o.state # "ON"
                      /\ Dangling(out) => rec.status = "PROVIDER_REJECTED"
  BY <1>1, <1>2, <1>6, TerminalSafe DEF TerminalFailure
<1>9. MustHold(v) => Dangling(out)
  BY <1>2, <1>7 DEF Dangling
<1> HIDE DEF out
<1>10. worker'[w].pc = point /\ worker'[w].outcome = out /\ worker'[w].err = None
  BY <1>1, <1>4, <1>7, AnswerNext DEF TypeOK
<1> QED
  BY <1>1, <1>2, <1>5, <1>6, <1>8, <1>9, <1>10, NoneIsNoName
     DEF KeptAfter, KeptLocal, SafeLocal, Answering, Errors

LEMMA LastCallKept ==
  ASSUME NEW w \in Workers, KeptBefore(w), Hold(w) \/ Unlock(w)
  PROVE  KeptAfter(w)
<1> DEFINE v == worker[w]
           e == worker[w].item
<1>1. /\ v \in Worker /\ e \in Executions /\ v.pc \in {"hold", "unlock"} /\ lock \in AccountLock
      /\ lock.holder = e /\ RowSafe(rows[e], account[e]) /\ v.err # "unattempted"
      /\ KeptLocal(v, rows[e], account[e], lock) /\ rows' = rows /\ account' = account
      /\ worker \in [Workers -> Worker]
  BY KeptFacts DEF Hold, Unlock, Owning, Points, TypeOK
<1>2. ~LockFails
  BY DEF KeptBefore, JournalWritable, LockFails
<1>3. Goto(w, "answered") /\ (v.pc = "hold" => HoldLock(e))
  BY <1>2 DEF Hold, Unlock
<1>4. worker'[w] = [v EXCEPT !.pc = "answered"]
  BY <1>1, <1>3 DEF Goto
<1>5. /\ worker'[w].pc = "answered" /\ worker'[w].outcome = v.outcome
      /\ worker'[w].err # "unattempted" /\ worker'[w].item = e
  BY <1>1, <1>4 DEF Worker
<1>6. v.pc = "hold" => lock' = [holder |-> e, held |-> TRUE]
  BY <1>1, <1>3 DEF HoldLock, AccountLock
<1> QED
  BY <1>1, <1>5, <1>6 DEF KeptAfter, KeptLocal, SafeLocal, Answering

\* Every step of a worker keeps the row safe, and its answer.
LEMMA WorkerStepKept ==
  ASSUME NEW w \in Workers, KeptBefore(w), WorkerStep(w)
  PROVE  KeptAfter(w)
BY AcquireKept, ClaimKept, ReconcileKept, OpenKept, IntendKept, SendKept, LostResultKept,
   ReadsKept, ProgressKept, PersistContainmentKept, FinishKept, ReleaseKept, CloseKept,
   LastCallKept DEF WorkerStep

-----------------------------------------------------------------------------
(* These facts of all workers and items, over the steps of the requests.   *)

WorkerKept(w) == worker[w].pc # "idle" =>
  KeptLocal(worker[w], rows[worker[w].item], account[worker[w].item], lock)
WorkerSafe(w) == worker[w].pc # "idle" =>
  SafeLocal(worker[w], rows[worker[w].item], account[worker[w].item])

Locked(e) == items[e].status = "RECONCILIATION_REQUIRED" /\ rows[e].status # "PROVIDER_REJECTED" =>
  lock = [holder |-> e, held |-> TRUE]
ItemSafe(e) == items[e].status \in Settled => account[e].state # "ON" /\ rows[e].pending = None

Kept == /\ \A w \in Workers : WorkerKept(w)
        /\ \A e \in Executions : RowSafe(rows[e], account[e]) /\ Locked(e)
Safe == /\ \A w \in Workers : WorkerSafe(w)
        /\ \A e \in Executions : ItemSafe(e)

\* what a step keeps: the second part when no resumed item fails
KeepsSafe == Kept' /\ (ResumesSucceed /\ Safe => Safe')

\* Steps that leave the journal and the provider alone.
LEMMA QuietKept ==
  ASSUME Kept, UNCHANGED <<rows, lock, account>>,
         \A u \in Workers : worker'[u] = worker[u] \/ worker'[u].pc = "idle",
         \A e \in Executions : items'[e].status = items[e].status \/
           /\ items'[e].status = "RECONCILIATION_REQUIRED" => Locked(e)'
           /\ Safe => ItemSafe(e)'
  PROVE  KeepsSafe
<1>1. rows' = rows /\ lock' = lock /\ account' = account
  OBVIOUS
<1>2. ASSUME NEW u \in Workers
      PROVE  WorkerKept(u)' /\ (Safe => WorkerSafe(u)')
  BY <1>1 DEF Kept, Safe, WorkerKept, WorkerSafe
<1>3. ASSUME NEW e \in Executions
      PROVE  RowSafe(rows[e], account[e])' /\ Locked(e)' /\ (Safe => ItemSafe(e)')
  <2>1. RowSafe(rows[e], account[e])'
    BY <1>1 DEF Kept
  <2>2. CASE items'[e].status = items[e].status
    BY <1>1, <2>1, <2>2 DEF Kept, Safe, Locked, ItemSafe
  <2>3. CASE /\ items'[e].status = "RECONCILIATION_REQUIRED" => Locked(e)'
             /\ Safe => ItemSafe(e)'
    BY <2>1, <2>3 DEF Locked
  <2> QED
    BY <2>2, <2>3
<1> QED
  BY <1>2, <1>3 DEF KeepsSafe, Kept, Safe

\* A request that works on its item leaves the others alone, and their lock.
LEMMA WorkKept ==
  ASSUME Inductive, Kept, NEW w \in Workers, request[w].pc \in ItemPoints,
         NEW e, e = request[w].item, UNCHANGED items,
         \A u \in Workers \ {w} : worker'[u] = worker[u],
         \A f \in Executions \ {e} : rows'[f] = rows[f] /\ account'[f] = account[f],
         lock' # lock => lock.holder \in {None, e},
         worker'[w].pc # "idle" => worker'[w].item = e,
         worker'[w].pc # "idle" => KeptLocal(worker'[w], rows'[e], account'[e], lock'),
         RowSafe(rows'[e], account'[e]),
         Resumed(w) /\ Safe /\ worker'[w].pc # "idle" =>
           SafeLocal(worker'[w], rows'[e], account'[e])
  PROVE  KeepsSafe
<1>1. /\ TypeOK /\ Exclusive /\ \A u \in Workers : RequestSound(u)
      /\ e \in Executions /\ items[e].status = "DISPATCHING"
      /\ \A u \in Workers \ {w} : worker[u].item # e
  BY InductiveFacts, ItemOwner
<1>2. ASSUME NEW u \in Workers
      PROVE  WorkerKept(u)' /\ (ResumesSucceed /\ Safe => WorkerSafe(u)')
  <2>1. CASE u = w
    BY <2>1 DEF WorkerKept, WorkerSafe, ResumesSucceed
  <2>2. CASE u # w
    <3>1. worker'[u] = worker[u] /\ worker[u].item # e
      BY <1>1, <2>2
    <3>2. worker[u].pc # "idle" => worker[u].item \in Executions \ {e}
      BY <1>1, <3>1, OwnItems DEF RequestSound, ItemPoints
    <3>3. worker[u].pc # "idle" =>
            /\ rows'[worker[u].item] = rows[worker[u].item]
            /\ account'[worker[u].item] = account[worker[u].item]
            /\ lock = [holder |-> worker[u].item, held |-> TRUE] => lock' = lock
      BY <3>2, NoneIsNoName
    <3> QED
      BY <3>1, <3>3 DEF Kept, Safe, WorkerKept, WorkerSafe, KeptLocal
  <2> QED
    BY <2>1, <2>2
<1>3. ASSUME NEW f \in Executions
      PROVE  RowSafe(rows[f], account[f])' /\ Locked(f)' /\ (Safe => ItemSafe(f)')
  <2>1. CASE f = e
    BY <1>1, <2>1 DEF Locked, ItemSafe, Settled
  <2>2. CASE f # e
    <3>1. /\ rows'[f] = rows[f] /\ account'[f] = account[f] /\ items'[f] = items[f]
          /\ lock = [holder |-> f, held |-> TRUE] => lock' = lock
      BY <2>2, NoneIsNoName
    <3> QED
      BY <3>1 DEF Kept, Safe, Locked, ItemSafe
  <2> QED
    BY <2>1, <2>2
<1> QED
  BY <1>2, <1>3 DEF KeepsSafe, Kept, Safe

LEMMA RunItemKept ==
  ASSUME Inductive, JournalWritable, Kept, NEW w \in Workers, RunItem(w), UNCHANGED chosenVars
  PROVE  KeepsSafe
<1>0. PICK e : e = request[w].item
  OBVIOUS
<1>1. /\ request[w].pc = "run" /\ request[w].pc \in ItemPoints /\ WorkerStep(w) /\ UNCHANGED items
  BY DEF RunItem, ItemPoints
<1>2. /\ e \in Executions /\ worker[w].pc # "idle" /\ worker[w].item = e
  BY <1>0, <1>1, WorkFacts
<1>3. Before(w) /\ After(w)
  BY RunItemInductive
<1>4. KeptBefore(w)
  BY <1>2, <1>3 DEF KeptBefore, Kept, WorkerKept
<1>5. KeptAfter(w)
  BY <1>1, <1>4, WorkerStepKept
<1>6. Safe => SafeLocal(worker[w], rows[worker[w].item], account[worker[w].item])
  BY <1>2 DEF Safe, WorkerSafe
<1> QED
  BY <1>0, <1>1, <1>2, <1>3, <1>5, <1>6, WorkKept DEF KeptAfter, After, StepFrame

\* A worker that starts, or is done before it began.
LEMMA StartKept ==
  ASSUME NEW e, NEW r, NEW o, NEW l,
         NEW x \in {Started(e), Done(e, Exception), Done(e, DuplicateName)}
  PROVE  /\ KeptLocal(x, r, o, l)
         /\ x = Started(e) => SafeLocal(x, r, o)
<1>1. /\ Idle.err = None
      /\ DuplicateName.status = "SYSTEM_FAILED" /\ DuplicateName.containment = "NOT_CREATED"
      /\ Exception.status = "SYSTEM_FAILED" /\ Exception.containment = None
  BY DEF DuplicateName, Exception, Idle
<1>2. /\ x.err = None /\ x.pc \in {"acquire", "answered"}
      /\ x.pc = "answered" => x.outcome \in {Exception, DuplicateName}
      /\ x = Started(e) => x.pc = "acquire"
  BY <1>1, ZenonT(60) DEF Started, Done, Idle
<1> QED
  BY <1>1, <1>2, NoneIsNoName DEF KeptLocal, SafeLocal, Answering, Dangling, Unresolved, Errors

LEMMA PreflightKept ==
  ASSUME Inductive, JournalWritable, Kept, NEW w \in Workers, Preflight(w), UNCHANGED chosenVars
  PROVE  KeepsSafe
<1>0. PICK e : e = request[w].item
  OBVIOUS
<1>1. /\ request[w].pc = "preflight" /\ request[w].pc \in ItemPoints
      /\ rows' = rows /\ lock' = lock /\ account' = account /\ UNCHANGED items
  BY DEF Preflight, ItemPoints
<1>2. /\ TypeOK /\ e \in Executions /\ RecordSound(rows[e], account[e]) /\ ObjectSound(account[e])
      /\ rows[e] \in DirectExecutionRecord /\ account[e] \in Objects
      /\ worker \in [Workers -> Worker] /\ worker[w].pc = "idle"
  BY <1>0, <1>1, WorkFacts
<1>3. RowSafe(rows'[e], account'[e])
  BY <1>1, <1>2 DEF Kept
<1>4. ASSUME NEW x \in {Started(e), Done(e, Exception), Done(e, DuplicateName)}, Become(w, x),
             x = Done(e, DuplicateName) => rows[e].status = "ABSENT"
      PROVE  KeepsSafe
  <2>1. x \in Worker /\ x.pc # "idle" /\ x.item = e
    BY <1>2, <1>4, StartLocal
  <2>2. /\ worker'[w] = x /\ \A u \in Workers \ {w} : worker'[u] = worker[u]
    BY <1>2, <1>4, <2>1, BecomeNext
  <2>3. KeptLocal(x, rows[e], account[e], lock)
    BY <1>4, StartKept
  <2>4. Resumed(w) => SafeLocal(x, rows[e], account[e])
    <3>1. CASE x = Started(e)
      BY <1>4, <3>1, StartKept
    <3>2. CASE x = Done(e, Exception)
      <4>1. x.pc = "answered" /\ x.outcome = Exception
        BY <3>2 DEF Done, Idle
      <4>2. Resumed(w) => rows[e].status \in {"ABSENT", "BLANK"}
        BY <1>2, <2>1, <2>2, <4>1 DEF Resumed, PlainFailure
      <4> QED
        BY <1>2, <4>2, PlainSafe DEF SafeLocal
    <3>3. CASE x = Done(e, DuplicateName)
      BY <1>2, <1>4, <3>3, PlainSafe DEF SafeLocal
    <3> QED
      BY <1>4, <3>1, <3>2, <3>3
  <2> QED
    BY <1>0, <1>1, <1>3, <2>1, <2>2, <2>3, <2>4, WorkKept
<1>5. CASE UNCHANGED worker
  BY <1>1, <1>5, QuietKept
<1>6. Started(e) # Done(e, DuplicateName) /\ Done(e, Exception) # Done(e, DuplicateName)
  <2>1. /\ Started(e).pc = "acquire" /\ Done(e, DuplicateName).pc = "answered"
        /\ Done(e, DuplicateName).outcome = DuplicateName /\ Done(e, Exception).outcome = Exception
    BY DEF Started, Done, Idle
  <2>2. DuplicateName.containment = "NOT_CREATED" /\ Exception.containment = None
    BY DEF DuplicateName, Exception
  <2> QED
    BY <2>1, <2>2, NoneIsNoName
<1> QED
  BY <1>0, <1>4, <1>5, <1>6 DEF Preflight

LEMMA BeginExecutionKept ==
  ASSUME Inductive, JournalWritable, Kept, NEW w \in Workers, BeginExecution(w),
         UNCHANGED chosenVars
  PROVE  KeepsSafe
<1>0. PICK e : e = request[w].item
  OBVIOUS
<1>1. /\ request[w].pc = "insert" /\ request[w].pc \in ItemPoints
      /\ lock' = lock /\ account' = account /\ UNCHANGED items
  BY DEF BeginExecution, ItemPoints
<1>2. /\ TypeOK /\ e \in Executions /\ rows[e].status = "ABSENT"
      /\ rows \in [Executions -> DirectExecutionRecord]
      /\ worker \in [Workers -> Worker]
  BY <1>0, <1>1, WorkFacts DEF RequestSound
<1>3. rows' = [rows EXCEPT ![e] = BlankRecord] /\ Become(w, Started(e))
  BY <1>0, <1>2 DEF BeginExecution, JournalWritable
<1>4. RowSafe(rows'[e], account'[e])
  <2>1. rows'[e] = BlankRecord /\ BlankRecord.status = "BLANK"
    BY <1>2, <1>3 DEF BlankRecord, NewRecord
  <2> QED
    BY <2>1, NoFailure DEF TerminalFailure
<1>5. Started(e) \in Worker /\ Started(e).item = e
  BY <1>2, StartLocal
<1>6. /\ worker'[w] = Started(e) /\ \A u \in Workers \ {w} : worker'[u] = worker[u]
      /\ \A f \in Executions \ {e} : rows'[f] = rows[f] /\ account'[f] = account[f]
  BY <1>1, <1>2, <1>3, <1>5, BecomeNext
<1>7. \A r, o, l : KeptLocal(Started(e), r, o, l) /\ SafeLocal(Started(e), r, o)
  BY StartKept
<1> QED
  BY <1>0, <1>1, <1>4, <1>5, <1>6, <1>7, WorkKept, SMTT(30)

LEMMA RecordOutcomeKept ==
  ASSUME Inductive, Kept, NEW w \in Workers, RecordPackageItemOutcome(w), UNCHANGED chosenVars
  PROVE  KeepsSafe
<1>0. PICK e : e = request[w].item
  OBVIOUS
<1>1. /\ request[w].pc = "run" /\ request[w].pc \in ItemPoints /\ worker[w].pc = "answered"
      /\ Become(w, Idle) /\ rows' = rows /\ lock' = lock /\ account' = account
  BY DEF RecordPackageItemOutcome, ItemPoints
<1>2. /\ TypeOK /\ e \in Executions /\ WorkerSound(w) /\ ItemSound(e)
      /\ rows[e] \in DirectExecutionRecord /\ account[e] \in Objects /\ items[e] \in Item
      /\ items[e].status = "DISPATCHING" /\ worker[w].item = e /\ worker[w] \in Worker
      /\ worker \in [Workers -> Worker] /\ items \in [Executions -> Item]
  BY <1>0, <1>1, WorkFacts DEF TypeOK
<1>3. \A u \in Workers : worker'[u] = worker[u] \/ worker'[u].pc = "idle"
  BY <1>1, <1>2, BecomeNext, StartTypes DEF Idle
<1>4. CASE items' = items
  BY <1>1, <1>3, <1>4, QuietKept
<1>5. CASE items' = [items EXCEPT ![e] = Recorded(@, worker[w].outcome)]
  <2> DEFINE out == worker[w].outcome
             x == Recorded(items[e], out)
  <2>1. out \in Answers
    BY <1>2 DEF Worker, Outcome, Answers
  <2>2. /\ AdTrue(out.ad, account[e]) /\ (out.ad # None => rows[e].pending = None)
        /\ out.status # "OUTCOME_UNKNOWN" /\ items[e].containment \notin Unresolved
    BY <1>1, <1>2 DEF WorkerSound, Local, Answered, Answering, ItemSound
  <2>3. KeptLocal(worker[w], rows[e], account[e], lock)
    BY <1>1, <1>2 DEF Kept, WorkerKept
  <2>4. Safe => SafeLocal(worker[w], rows[e], account[e])
    BY <1>1, <1>2 DEF Safe, WorkerSafe
  <2>5. Dangling(out) /\ rows[e].status # "PROVIDER_REJECTED" =>
          lock = [holder |-> e, held |-> TRUE]
    BY <1>1, <1>2, <2>3 DEF KeptLocal, Answering
  <2>6. Safe /\ ~Dangling(out) => account[e].state # "ON" /\ rows[e].pending = None
    BY <1>1, <2>4 DEF SafeLocal, Answering
  <2> HIDE DEF out
  <2>7. x \in Item /\ (x.status = "RECONCILIATION_REQUIRED" => Dangling(out))
    BY <1>2, <2>1, <2>2, RecordedNext DEF Dangling
  <2>8. x.status = "RECONCILIATION_REQUIRED" <=> Dangling(out)
    <3>1. Dangling(out) => x.status = "RECONCILIATION_REQUIRED"
      BY DEF Recorded, RecordedStatus, Dangling
    <3> QED
      BY <2>7, <3>1
  <2> HIDE DEF x
  <2>9. items'[e] = x /\ \A f \in Executions \ {e} : items'[f] = items[f]
    BY <1>2, <1>5 DEF x, out
  <2>10. /\ items'[e].status = "RECONCILIATION_REQUIRED" => Locked(e)'
         /\ Safe => ItemSafe(e)'
    BY <1>1, <2>5, <2>6, <2>8, <2>9 DEF Locked, ItemSafe, Settled
  <2> QED
    BY <1>1, <1>3, <2>9, <2>10, QuietKept
<1> QED
  BY <1>0, <1>4, <1>5 DEF RecordPackageItemOutcome, Conflict

LEMMA RecordPollKept ==
  ASSUME Inductive, Kept, NEW w \in Workers, RecordModerationPoll(w), UNCHANGED chosenVars
  PROVE  KeepsSafe
<1>0. PICK e : e = request[w].item
  OBVIOUS
<1>1. /\ request[w].pc = "observe" /\ TypeOK /\ \A u \in Workers : RequestSound(u)
      /\ \A f \in Executions : ItemSound(f)
      /\ rows' = rows /\ lock' = lock /\ account' = account /\ worker' = worker
  BY InductiveFacts DEF RecordModerationPoll, directVars
<1>2. /\ e \in Executions /\ (request[w].current => items[e].status \in Pollable)
  BY <1>0, <1>1, OwnItems DEF RequestSound, Polling, ItemPoints
<1>3. CASE items' = items
  BY <1>1, <1>3, QuietKept
<1>4. ASSUME NEW a \in Observations(e), Checkpoint(w, NoRequest),
             items' = [items EXCEPT ![e] = Recorded(@, a)]
      PROVE  KeepsSafe
  <2> DEFINE x == Recorded(items[e], a)
  <2>1. items[e].status \in Pollable /\ ItemSound(e)
    BY <1>1, <1>2, <1>4 DEF Checkpoint
  <2>2. /\ a \in Answers /\ AdTrue(a.ad, account[e]) /\ Verified(account[e])
        /\ rows[e].pending = None /\ items[e].containment \notin Unresolved
        /\ a.containment = items[e].containment /\ a.status # "RECONCILIATION_REQUIRED"
        /\ items[e] \in Item /\ account[e] \in Objects /\ rows[e] \in DirectExecutionRecord
        /\ items \in [Executions -> Item]
    BY <1>1, <1>2, <2>1, ObservationsTrue DEF ItemSound, TypeOK, Pollable
  <2>3. x.status # "RECONCILIATION_REQUIRED"
    BY <2>2, RecordedNext
  <2> HIDE DEF x
  <2>4. items'[e] = x /\ \A f \in Executions \ {e} : items'[f] = items[f]
    BY <1>2, <1>4, <2>2 DEF x
  <2>5. ItemSafe(e)'
    BY <1>1, <2>2 DEF ItemSafe, Verified
  <2> QED
    BY <1>1, <2>3, <2>4, <2>5, QuietKept
<1> QED
  BY <1>0, <1>3, <1>4 DEF RecordModerationPoll, Conflict

LEMMA BeginItemKept ==
  ASSUME Inductive, Kept, NEW w \in Workers, BeginPackageItemDispatch(w), UNCHANGED chosenVars
  PROVE  KeepsSafe
<1>0. PICK e : e = NextItem(request[w].doc)
  OBVIOUS
<1>1. /\ rows' = rows /\ lock' = lock /\ account' = account /\ worker' = worker
      /\ items \in [Executions -> Item]
  BY InductiveFacts DEF BeginPackageItemDispatch, directVars, TypeOK
<1>2. CASE items' = items
  BY <1>1, <1>2, QuietKept
<1>3. CASE items' = [items EXCEPT ![e].status = "DISPATCHING"]
  <2>1. \A f \in Executions : items'[f].status \in {items[f].status, "DISPATCHING"}
    BY <1>1, <1>3 DEF Item
  <2>2. \A f \in Executions : items'[f].status = "DISPATCHING" => ItemSafe(f)'
    BY DEF ItemSafe, Settled
  <2> QED
    BY <1>1, <2>1, <2>2, QuietKept
<1> QED
  BY <1>0, <1>2, <1>3 DEF BeginPackageItemDispatch, Conflict

LEMMA CrashKept ==
  ASSUME Inductive, Kept, NEW w \in Workers, Crash(w)
  PROVE  KeepsSafe
<1>1. \A u \in Workers : worker'[u] = worker[u] \/ worker'[u].pc = "idle"
  BY InductiveFacts, StartTypes, BecomeNext DEF Crash, TypeOK, Idle
<1> QED
  BY <1>1, QuietKept DEF Crash

LEMMA EnvironmentKept ==
  ASSUME Inductive, Kept, Environment
  PROVE  KeepsSafe
<1>1. TypeOK /\ items' = items
  BY InductiveFacts DEF Environment
<1>2. CASE LeaseExpires
  <2>1. rows' = rows /\ account' = account /\ worker' = worker /\ lock.held # TRUE
    BY <1>2 DEF LeaseExpires
  <2>2. \A e : lock # [holder |-> e, held |-> TRUE]
    <3>1. ASSUME NEW e, lock = [holder |-> e, held |-> TRUE]
          PROVE  FALSE
      <4>1. lock.held = TRUE
        BY <3>1
      <4> QED
        BY <2>1, <4>1
    <3> QED
      BY <3>1
  <2>3. ASSUME NEW u \in Workers
        PROVE  WorkerKept(u)' /\ (Safe => WorkerSafe(u)')
    BY <2>1, <2>2 DEF Kept, Safe, WorkerKept, WorkerSafe, KeptLocal
  <2>4. ASSUME NEW f \in Executions
        PROVE  RowSafe(rows[f], account[f])' /\ Locked(f)' /\ (Safe => ItemSafe(f)')
    BY <1>1, <2>1, <2>2 DEF Kept, Safe, Locked, ItemSafe
  <2> QED
    BY <2>3, <2>4 DEF KeepsSafe, Kept, Safe
<1>3. ASSUME NEW e \in Executions, Moderated(e)
      PROVE  KeepsSafe
  <2>1. rows' = rows /\ lock' = lock /\ worker' = worker
    BY <1>3 DEF Moderated
  <2>2. \A f \in Executions : account'[f].state = account[f].state
    BY <1>1, <1>3 DEF Moderated, TypeOK, Objects
  <2>3. \A u \in Workers : worker[u].pc # "idle" => worker[u].item \in Executions
    BY InductiveFacts, OwnItems DEF RequestSound, ItemPoints
  <2>4. ASSUME NEW u \in Workers
        PROVE  WorkerKept(u)' /\ (Safe => WorkerSafe(u)')
    <3>1. CASE worker[u].pc # "idle"
      <4> DEFINE o == account[worker[u].item]
                 p == account'[worker[u].item]
      <4>1. p.state = o.state
        BY <2>2, <2>3, <3>1
      <4>2. KeptLocal(worker[u], rows[worker[u].item], o, lock)
        BY <3>1 DEF Kept, WorkerKept
      <4>3. Safe => SafeLocal(worker[u], rows[worker[u].item], o)
        BY <3>1 DEF Safe, WorkerSafe
      <4> HIDE DEF o, p
      <4>4. KeptLocal(worker[u], rows[worker[u].item], p, lock)
        BY <4>1, <4>2 DEF KeptLocal, RowSafe
      <4>5. Safe => SafeLocal(worker[u], rows[worker[u].item], p)
        BY <4>1, <4>3 DEF SafeLocal
      <4> QED
        BY <2>1, <4>4, <4>5 DEF WorkerKept, WorkerSafe, p
    <3>2. CASE worker[u].pc = "idle"
      BY <2>1, <3>2 DEF WorkerKept, WorkerSafe
    <3> QED
      BY <3>1, <3>2
  <2>5. ASSUME NEW f \in Executions
        PROVE  RowSafe(rows[f], account[f])' /\ Locked(f)' /\ (Safe => ItemSafe(f)')
    BY <1>1, <2>1, <2>2 DEF Kept, Safe, Locked, ItemSafe, RowSafe
  <2> QED
    BY <2>4, <2>5 DEF KeepsSafe, Kept, Safe
<1> QED
  BY <1>2, <1>3 DEF Environment

LEMMA KeptNext ==
  ASSUME Inductive, JournalWritable, Kept, [Next]_vars
  PROVE  KeepsSafe
<1>1. CASE UNCHANGED vars
  BY <1>1, QuietKept DEF vars, directVars
<1>2. ASSUME NEW w \in Workers, Step(w), UNCHANGED chosenVars
      PROVE  KeepsSafe
  <2>1. CASE InitializePackageExecution(w) \/ BeginPackageItemModerationPoll(w)
    BY <2>1, QuietKept
       DEF InitializePackageExecution, BeginPackageItemModerationPoll, Conflict, directVars
  <2> QED
    BY <1>2, <2>1, BeginItemKept, PreflightKept, BeginExecutionKept, RunItemKept,
       RecordOutcomeKept, RecordPollKept DEF Step
<1>3. ASSUME NEW w \in Workers, NEW d \in Documents,
             Dispatch(w, d) \/ \E e \in Executions : Poll(w, d, e)
      PROVE  KeepsSafe
  BY <1>3, QuietKept DEF Dispatch, Poll, directVars
<1> QED
  BY <1>1, <1>2, <1>3, CrashKept, EnvironmentKept DEF Next

LEMMA InitKept ==
  ASSUME Init
  PROVE  Kept /\ Safe
<1>1. /\ \A w \in Workers : worker[w].pc = "idle"
      /\ \A e \in Executions : items[e].status = "QUEUED" /\ rows[e].status = "ABSENT"
  BY DEF Init, DirectInit, Idle, Queued, NewRecord
<1> QED
  BY <1>1, NoFailure
     DEF Kept, Safe, WorkerKept, WorkerSafe, Locked, ItemSafe, Settled, TerminalFailure

LEMMA FaultsStay == [Next]_vars => (JournalWritable' <=> JournalWritable)
BY DEF Next, vars, chosenVars, JournalWritable

\* As long as the journal can be written, an item that waits for a reconciliation, and
\* whose execution was not rejected, holds the account against all others.
THEOREM AmbiguityStaysLocked == ASSUME ExclusiveDispatch PROVE Spec => []AmbiguityIsLocked
<1> DEFINE I == Inductive /\ (JournalWritable => Kept)
<1>1. Init => I
  BY InitInductive, InitKept
<1>2. I /\ [Next]_vars => I'
  BY InductiveNext, KeptNext, FaultsStay DEF KeepsSafe
<1>3. I => AmbiguityIsLocked
  BY DEF AmbiguityIsLocked, Kept, Locked
<1> QED
  BY <1>1, <1>2, <1>3, PTL DEF Spec

\* As long as the journal can be written, and no execution that was worked on before is
\* answered by a call that fails before it has read what became of it, an item with a
\* settled status has left nothing that serves and nothing undecided.
THEOREM SettledStaysSafe ==
  ASSUME ExclusiveDispatch PROVE Spec /\ [][ResumesSucceed]_vars => []SettledIsSafe
<1> DEFINE I == Inductive /\ (JournalWritable => Kept /\ Safe)
<1>1. Init => I
  BY InitInductive, InitKept
<1>2. I /\ [Next]_vars /\ [ResumesSucceed]_vars => I'
  <2> SUFFICES ASSUME I, [Next]_vars, [ResumesSucceed]_vars
               PROVE  I'
    OBVIOUS
  <2>1. CASE UNCHANGED vars
    <3>1. Inductive'
      BY InductiveNext
    <3>2. JournalWritable' => KeepsSafe
      BY KeptNext, FaultsStay
    <3>3. Safe => Safe'
      BY <2>1 DEF vars, directVars, Safe, WorkerSafe, ItemSafe
    <3> QED
      BY <3>1, <3>2, <3>3, FaultsStay DEF KeepsSafe
  <2>2. CASE ResumesSucceed
    BY <2>2, InductiveNext, KeptNext, FaultsStay DEF KeepsSafe
  <2> QED
    BY <2>1, <2>2
<1>3. I => SettledIsSafe
  BY DEF SettledIsSafe, Safe, ItemSafe
<1> QED
  BY <1>1, <1>2, <1>3, PTL DEF Spec

-----------------------------------------------------------------------------
(* The account lock and what is pending.                                   *)

\* no lease runs out while its execution waits for the outcome of a mutation
LeasesCover == LeaseExpires => rows[lock.holder].pending = None

PendingHasLock == \A e \in Executions : rows[e].pending # None => lock.holder = e

\* A save touches no row but its own, whose lock it has, and leaves the lock with its holder.
LEMMA SaveHolds ==
  ASSUME TypeOK, NEW e \in Executions, NEW rec, Saved(e, rec) \/ NotSaved(e, rec)
  PROVE  /\ lock'.holder = lock.holder
         /\ rows' = rows \/ lock.holder = e
         /\ \A f \in Executions \ {e} : rows'[f] = rows[f]
<1>1. Lease(e).holder = e
  BY DEF Lease
<1>2. rows' = rows \/ rows' = [rows EXCEPT ![e] = rec]
  BY DEF Saved, NotSaved
<1>3. /\ lock' = lock \/ (lock.holder = e /\ lock' = Lease(e))
      /\ rows' = rows \/ lock.holder = e
  BY DEF Saved, NotSaved
<1> QED
  BY <1>1, <1>2, <1>3 DEF TypeOK

Holds(w, e) ==
  /\ rows' = rows \/ (lock.holder = e /\ lock'.holder = e)
  /\ \A f \in Executions \ {e} : rows'[f] = rows[f]
  /\ \/ lock'.holder = lock.holder
     \/ lock.holder = None /\ lock'.holder = e
     \/ /\ worker[w].pc \in {"unlock", "release"} /\ rows' = rows
        /\ lock.holder = e /\ lock'.holder = None
  /\ worker[w].pc # "send" => account' = account
  /\ account' # account => lock' = lock

\* A step of a worker writes its own row under the lock, passes the lock on only at the
\* end of its call, and writes the provider only when it sends a mutation.
LEMMA StepHolds ==
  ASSUME TypeOK, NEW w \in Workers, NEW e \in Executions, e = worker[w].item, WorkerStep(w)
  PROVE  Holds(w, e)
<1>1. ASSUME NEW rec, Saved(e, rec) \/ NotSaved(e, rec), account' = account
      PROVE  Holds(w, e)
  BY <1>1, SaveHolds DEF Holds
<1>2. ASSUME rows' = rows, lock' = lock, account' = account
      PROVE  Holds(w, e)
  BY <1>2 DEF Holds
<1>3. CASE Acquire(w) \/ ConfirmSuspended(w) \/ ProbeSuspended(w) \/ ReadAndVerifyGraph(w)
             \/ EnsureNonServing(w)
  BY <1>2, <1>3 DEF Acquire, ConfirmSuspended, ProbeSuspended, ReadAndVerifyGraph, EnsureNonServing
<1>4. CASE ReconcilePendingDispatch(w)
  BY <1>1, <1>2, <1>4 DEF ReconcilePendingDispatch
<1>5. CASE Open(w) \/ Intend(w)
  BY <1>1, <1>2, <1>5 DEF Open, Intend
<1>6. CASE LostResult(w) \/ PersistProgress(w) \/ PersistContainment(w)
  BY <1>1, <1>6 DEF LostResult, PersistProgress, PersistContainment
<1>7. CASE Finish(w) \/ Close(w)
  BY <1>1, <1>7 DEF Finish, Close
<1>8. CASE Claim(w)
  <2>1. /\ rows' = rows /\ account' = account
        /\ lock' = lock \/ (lock.holder = None /\ lock' = Lease(e))
        /\ Lease(e).holder = e
    BY <1>8 DEF Claim, Lease
  <2> QED
    BY <2>1 DEF Holds
<1>9. CASE Release(w) \/ Unlock(w)
  <2>1. /\ rows' = rows /\ account' = account /\ worker[w].pc \in {"unlock", "release"}
        /\ lock' = lock \/ (lock.holder = e /\ lock' = Free)
        /\ Free.holder = None
    BY <1>9 DEF Release, Unlock, ReleaseLock, LockFails, Free
  <2> QED
    BY <2>1 DEF Holds
<1>10. CASE Hold(w)
  <2>1. /\ rows' = rows /\ account' = account
        /\ lock' = lock \/ lock' = [lock EXCEPT !.held = TRUE]
    BY <1>10 DEF Hold, HoldLock, LockFails
  <2>2. lock'.holder = lock.holder
    BY <2>1 DEF TypeOK, AccountLock
  <2> QED
    BY <2>1, <2>2 DEF Holds
<1>11. CASE Send(w)
  <2>1. rows' = rows /\ lock' = lock /\ worker[w].pc = "send"
    BY <1>11 DEF Send
  <2> QED
    BY <2>1 DEF Holds
<1> QED
  BY <1>3, <1>4, <1>5, <1>6, <1>7, <1>8, <1>9, <1>10, <1>11 DEF WorkerStep

\* A working step keeps the lock with what is pending, and writes within the boundary.
LEMMA WorkHolds ==
  ASSUME Inductive, PendingHasLock, NEW w \in Workers, RunItem(w), UNCHANGED chosenVars
  PROVE  /\ PendingHasLock'
         /\ \A e \in Executions : Written(e) =>
              /\ lock.holder = e
              /\ rows[e].pending # None
              /\ \A f \in Executions \ {e} : rows[f].pending = None
<1>0. PICK e : e = request[w].item
  OBVIOUS
<1>1. request[w].pc = "run" /\ request[w].pc \in ItemPoints /\ WorkerStep(w)
  BY DEF RunItem, ItemPoints
<1>2. /\ TypeOK /\ e \in Executions /\ worker[w].pc # "idle" /\ worker[w].item = e
      /\ lock \in AccountLock
  BY <1>0, <1>1, WorkFacts
<1>3. Before(w) /\ After(w)
  BY RunItemInductive
<1>4. Holds(w, e)
  BY <1>1, <1>2, StepHolds
<1>5. /\ worker[w].pc \in {"unlock", "release"} => rows[e].pending = None
      /\ worker[w].pc = "send" => /\ lock.holder = e
                                  /\ rows[e].pending \in Mutations
  BY <1>2, <1>3 DEF Before, Local, Standing, Pending, AtStage, Owning, Points
<1>6. PendingHasLock'
  <2> SUFFICES ASSUME NEW f \in Executions, rows'[f].pending # None
               PROVE  lock'.holder = f
    BY DEF PendingHasLock
  <2>1. CASE rows' = rows
    BY <1>2, <1>4, <1>5, <2>1, NoneIsNoName DEF PendingHasLock, Holds
  <2>2. CASE rows' # rows
    BY <1>4, <2>2, <1>2, NoneIsNoName DEF PendingHasLock, Holds
  <2> QED
    BY <2>1, <2>2
<1>7. ASSUME NEW f \in Executions, Written(f)
      PROVE  /\ lock.holder = f /\ rows[f].pending # None
             /\ \A g \in Executions \ {f} : rows[g].pending = None
  <2>1. account'[f] # account[f]
    BY <1>7 DEF Written
  <2>2. f = e
    BY <1>2, <1>3, <2>1 DEF After, StepFrame
  <2>3. worker[w].pc = "send"
    BY <1>4, <2>1 DEF Holds
  <2> QED
    BY <1>5, <2>2, <2>3, NoneIsNoName DEF PendingHasLock
<1> QED
  BY <1>6, <1>7

WithinBoundary == \A e \in Executions : Written(e) =>
  /\ lock.holder = e
  /\ rows[e].pending # None
  /\ \A f \in Executions \ {e} : rows[f].pending = None

\* A step that writes no provider and opens or keeps every record.
LEMMA QuietHolds ==
  ASSUME PendingHasLock, lock' = lock, account' = account,
         \A e \in Executions : rows'[e] = rows[e] \/ rows'[e].pending = None
  PROVE  PendingHasLock' /\ WithinBoundary
BY DEF PendingHasLock, WithinBoundary, Written

LEMMA EnvironmentHolds ==
  ASSUME Inductive, PendingHasLock, Environment, LeasesCover
  PROVE  PendingHasLock' /\ WithinBoundary
<1>1. TypeOK
  BY InductiveFacts
<1>2. CASE LeaseExpires
  <2>1. /\ lock.holder # None /\ rows[lock.holder].pending = None
        /\ rows' = rows /\ account' = account
    BY <1>2 DEF LeaseExpires, LeasesCover
  <2> QED
    BY <2>1 DEF PendingHasLock, WithinBoundary, Written
<1>3. ASSUME NEW e \in Executions, Moderated(e)
      PROVE  PendingHasLock' /\ WithinBoundary
  <2>1. rows' = rows /\ lock' = lock
    BY <1>3 DEF Moderated
  <2>2. \A f \in Executions : account'[f] = account[f] \/ account'[f].ad \in {"ACCEPTED", "REJECTED"}
    BY <1>1, <1>3 DEF Moderated, TypeOK, Objects
  <2> QED
    BY <2>1, <2>2 DEF PendingHasLock, WithinBoundary, Written
<1> QED
  BY <1>2, <1>3 DEF Environment

LEMMA BoundaryNext ==
  ASSUME Inductive, PendingHasLock, [Next]_vars, UNCHANGED vars \/ LeasesCover
  PROVE  PendingHasLock' /\ (UNCHANGED vars \/ WithinBoundary)
<1>1. CASE UNCHANGED vars
  BY <1>1 DEF vars, directVars, PendingHasLock
<1>2. ASSUME NEW w \in Workers, Step(w), UNCHANGED chosenVars
      PROVE  PendingHasLock' /\ WithinBoundary
  <2>1. CASE RunItem(w)
    BY <1>2, <2>1, WorkHolds DEF WithinBoundary
  <2>2. CASE BeginExecution(w)
    <3>1. /\ lock' = lock /\ account' = account
          /\ rows' = rows \/ rows' = [rows EXCEPT ![request[w].item] = BlankRecord]
      BY <2>2 DEF BeginExecution
    <3>2. BlankRecord.pending = None /\ TypeOK
      BY InductiveFacts DEF BlankRecord, NewRecord
    <3> HIDE DEF BlankRecord
    <3>3. \A e \in Executions : rows'[e] = rows[e] \/ rows'[e].pending = None
      BY <3>1, <3>2 DEF TypeOK
    <3> QED
      BY <3>1, <3>3, QuietHolds
  <2>3. CASE rows' = rows /\ lock' = lock /\ account' = account
    BY <2>3, QuietHolds
  <2>4. CASE InitializePackageExecution(w) \/ BeginPackageItemDispatch(w) \/ Preflight(w)
               \/ RecordPackageItemOutcome(w)
    BY <2>3, <2>4 DEF InitializePackageExecution, BeginPackageItemDispatch, Preflight,
                      RecordPackageItemOutcome, directVars
  <2>5. CASE BeginPackageItemModerationPoll(w) \/ RecordModerationPoll(w)
    BY <2>3, <2>5 DEF BeginPackageItemModerationPoll, RecordModerationPoll, directVars
  <2> QED
    BY <1>2, <2>1, <2>2, <2>4, <2>5 DEF Step
<1>3. ASSUME NEW w \in Workers, NEW d \in Documents, Crash(w) \/ Dispatch(w, d)
                \/ \E e \in Executions : Poll(w, d, e)
      PROVE  PendingHasLock' /\ WithinBoundary
  <2>1. rows' = rows /\ lock' = lock /\ account' = account
    BY <1>3 DEF Crash, Dispatch, Poll, directVars
  <2> QED
    BY <2>1, QuietHolds
<1>4. ASSUME NEW w \in Workers, Crash(w)
      PROVE  PendingHasLock' /\ WithinBoundary
  BY <1>4, QuietHolds DEF Crash
<1>5. CASE Environment /\ LeasesCover
  BY <1>5, EnvironmentHolds
<1> QED
  BY <1>1, <1>2, <1>3, <1>4, <1>5 DEF Next

LEMMA NothingPending == Init => PendingHasLock
BY DEF Init, DirectInit, NewRecord, PendingHasLock

\* The provider is written only for the execution that has the account lock, after its
\* intent was saved, and while no other execution waits for an outcome it does not know,
\* as long as no lease runs out while its execution waits for one.
THEOREM BoundaryKept ==
  ASSUME ExclusiveDispatch PROVE Spec /\ [][LeasesCover]_vars => AccountBoundary
<1> DEFINE I == Inductive /\ PendingHasLock
<1>1. Init => I
  BY InitInductive, NothingPending
<1>2. I /\ [Next]_vars /\ [LeasesCover]_vars => I'
  BY InductiveNext, BoundaryNext
<1>3. I /\ [Next]_vars /\ [LeasesCover]_vars => [WithinBoundary]_vars
  BY BoundaryNext
<1>4. [][WithinBoundary]_vars => AccountBoundary
  BY DEF AccountBoundary, WithinBoundary
<1> QED
  BY <1>1, <1>2, <1>3, <1>4, PTL DEF Spec

=============================================================================
