-------------------------- MODULE GoalLifecycleProofs --------------------------
(***************************************************************************)
(* Theorems about GoalLifecycle, for every set of callers, goals, events,  *)
(* reservations and authorities, every quota and every number of           *)
(* disturbances.                                                           *)
(***************************************************************************)
EXTENDS GoalLifecycle, SequenceTheorems, TLAPS

-----------------------------------------------------------------------------
(* Keys.  Each names its operation and its goal.                           *)

CleanKeys == {CleanPublication(g) : g \in Goals} \cup {CleanGoal(g) : g \in Goals}

LEMMA Keys ==
  ASSUME NEW g \in Goals
  PROVE  /\ Create(g) \in ExecutionKeys /\ Publish(g) \in ExecutionKeys
         /\ CleanPublication(g) \in CleanKeys /\ CleanGoal(g) \in CleanKeys
         /\ Create(g) # Nobody /\ Publish(g) # Nobody
         /\ CleanPublication(g) # Nobody /\ CleanGoal(g) # Nobody
         /\ \A h \in Goals :
              /\ Create(g) # Publish(h) /\ Create(g) # CleanPublication(h)
              /\ Create(g) # CleanGoal(h) /\ Publish(g) # CleanPublication(h)
              /\ Publish(g) # CleanGoal(h) /\ CleanPublication(g) # CleanGoal(h)
              /\ Create(g) = Create(h) => g = h
              /\ Publish(g) = Publish(h) => g = h
              /\ CleanPublication(g) = CleanPublication(h) => g = h
              /\ CleanGoal(g) = CleanGoal(h) => g = h
<1>1. Create(g) \in ExecutionKeys /\ Publish(g) \in ExecutionKeys
  BY DEF ExecutionKeys
<1>2. CleanPublication(g) \in CleanKeys /\ CleanGoal(g) \in CleanKeys
  BY DEF CleanKeys
<1>3. /\ Create(g) # Nobody /\ Publish(g) # Nobody
      /\ CleanPublication(g) # Nobody /\ CleanGoal(g) # Nobody
  BY <1>1, NobodyAssumption
<1>4. \A h \in Goals :
        /\ Create(g) # Publish(h) /\ Create(g) # CleanPublication(h)
        /\ Create(g) # CleanGoal(h) /\ Publish(g) # CleanPublication(h)
        /\ Publish(g) # CleanGoal(h) /\ CleanPublication(g) # CleanGoal(h)
        /\ Create(g) = Create(h) => g = h
        /\ Publish(g) = Publish(h) => g = h
        /\ CleanPublication(g) = CleanPublication(h) => g = h
        /\ CleanGoal(g) = CleanGoal(h) => g = h
  BY DEF Create, Publish, CleanPublication, CleanGoal
<1> QED
  BY <1>1, <1>2, <1>3, <1>4

LEMMA Blank ==
  /\ \A g \in Goals : g # Nobody
  /\ \A v \in Seq(Goals) : v # Nobody
  /\ \A r \in AuthorityRow : r # Nobody
  /\ \A r \in CandidateRow : r # Nobody
  /\ \A r \in CleanupRow : r # Nobody
BY NobodyAssumption

-----------------------------------------------------------------------------
(* Types.                                                                  *)

Shared == {"authorize", "recheck", "abort", "reconcile", "complete", "unknown", "refuse"}
Creation == {"create", "duplicate", "add"} \cup Shared
Publication == {"publish", "version", "install"} \cup Shared
RollingBack == {"clean publication", "authorize", "recheck", "roll back",
                "mark rolled back", "refuse"}
Deleting == {"clean goal", "authorize", "recheck", "delete", "mark deleted",
             "finish cleanup", "refuse"}
Reading == {"poll", "verdict", "decide", "begin cleanup"}

Points == {"idle"} \cup Creation \cup Publication \cup RollingBack \cup Deleting \cup Reading
GoalIds == Goals \X Nat
Versions == Seq(Goals)
Targets == GoalIds \cup Versions \cup {Nobody}
Call == [pc : Points,
         goal : Goals \cup {Nobody}, key : ExecutionKeys \cup CleanKeys \cup {Nobody},
         authority : Authorities \cup {Nobody}, version : Versions,
         write : {"add", "install", "roll back", "delete", Nobody},
         refused : {"abort", "refuse", Nobody},
         found : Targets,
         seen : {"VERIFIED", "INCONCLUSIVE", "PENDING"},
         status : {"APPROVED", "REJECTED"}, deleted : BOOLEAN]

\* the four ways a call goes, by its key, and the calls that read before they have one
Creates(c, g) ==
  /\ call[c].key = Create(g) /\ call[c].goal = g /\ call[c].pc \in Creation
  /\ call[c].authority \in Authorities /\ call[c].write = "add"
  /\ call[c].refused = "abort"
  /\ call[c].pc = "complete" => call[c].found \in GoalIds
Publishes(c, g) ==
  /\ call[c].key = Publish(g) /\ call[c].goal = g /\ call[c].pc \in Publication
  /\ call[c].authority \in Authorities /\ call[c].write = "install"
  /\ call[c].refused = "abort"
  /\ call[c].pc = "complete" => call[c].found \in Seq(Goals)
RollsBack(c, g) ==
  /\ call[c].key = CleanPublication(g) /\ call[c].goal = g
  /\ call[c].pc \in RollingBack
  /\ call[c].write = "roll back" /\ call[c].refused = "refuse" /\ cleanup[g] # Nobody
Deletes(c, g) ==
  /\ call[c].key = CleanGoal(g) /\ call[c].goal = g /\ call[c].pc \in Deleting
  /\ call[c].write = "delete" /\ call[c].refused = "refuse" /\ cleanup[g] # Nobody
Reads(c, g) ==
  /\ call[c].pc \in Reading /\ call[c].goal = g /\ call[c].key = Nobody
  /\ candidate[g] # Nobody
Way(c) == \E g \in Goals :
  Creates(c, g) \/ Publishes(c, g) \/ RollsBack(c, g) \/ Deletes(c, g) \/ Reads(c, g)

CallTypeOK ==
  /\ call \in [Callers -> Call]
  /\ \A c \in Callers : call[c] = NoCall \/ Way(c)

Statuses == {"NONE", "IN_FLIGHT", "UNKNOWN_RESULT", "APPLIED"}
ExecutionPlans == ExecutionKeys \cup {Nobody}
  \cup {PublishPlan(g, v) : g \in Goals, v \in Seq(Goals)}

ReservationRow == [status : {"NONE", "AVAILABLE", "RESERVED", "USED"},
                   key : ExecutionKeys \cup {Nobody}]
ExecutionRow == [status : Statuses, plan : ExecutionPlans]

RowTypeOK ==
  /\ authority \in [Authorities -> AuthorityRow \cup {Nobody}]
  /\ reservation \in [Reservations -> ReservationRow]
  /\ execution \in [ExecutionKeys -> ExecutionRow]
  /\ claim \in [Signatures -> Goals \cup {Nobody}]
  /\ candidate \in [Goals -> CandidateRow \cup {Nobody}]
  /\ publication \in [Goals -> Seq(Goals) \cup {Nobody}]
  /\ cleanup \in [Goals -> CleanupRow \cup {Nobody}]
  /\ goals \subseteq Goals \X Nat
  /\ added \in [Goals -> Nat]
  /\ page \in Seq(Goals)
  /\ live \in [Goals -> Seq(Goals) \cup {Nobody}]

TypeOK == CallTypeOK /\ RowTypeOK

LEMMA NoCallTyped == NoCall \in Call
BY DEF NoCall, Call, Points, Versions, Targets

LEMMA TypeInit == Init => TypeOK
BY NoCallTyped DEF Init, TypeOK, CallTypeOK, RowTypeOK, ReservationRow, ExecutionRow,
   Statuses, ExecutionPlans

\* Candidates and cleanups stay recorded.
Recorded ==
  \A g \in Goals : /\ candidate[g] # Nobody => candidate'[g] # Nobody
                   /\ cleanup[g] # Nobody => cleanup'[g] # Nobody

LEMMA MoveTyped ==
  ASSUME CallTypeOK, Recorded, NEW c \in Callers, NEW r \in Call,
         call' = [call EXCEPT ![c] = r], r = NoCall \/ Way(c)'
  PROVE  CallTypeOK'
<1>1. call' \in [Callers -> Call]
  BY DEF CallTypeOK
<1>2. call'[c] = r
  BY DEF CallTypeOK
<1>3. ASSUME NEW d \in Callers, d # c PROVE call'[d] = NoCall \/ Way(d)'
  <2>1. call'[d] = call[d]
    BY <1>3 DEF CallTypeOK
  <2>2. ASSUME Way(d) PROVE Way(d)'
    BY <2>1, <2>2 DEF Way, Creates, Publishes, RollsBack, Deletes, Reads, Recorded
  <2> QED
    BY <2>1, <2>2 DEF CallTypeOK
<1> QED
  BY <1>1, <1>2, <1>3 DEF CallTypeOK

LEMMA ReturnTyped ==
  ASSUME CallTypeOK, Recorded, NEW c \in Callers, Return(c)
  PROVE  CallTypeOK'
BY MoveTyped, NoCallTyped DEF Return

\* A jump stays on the way of its call.
LEMMA GotoTyped ==
  ASSUME CallTypeOK, Recorded, NEW c \in Callers, NEW p, Goto(c, p), NEW g \in Goals,
         \/ Creates(c, g) /\ p \in Creation /\ p # "complete"
         \/ Publishes(c, g) /\ p \in Publication /\ p # "complete"
         \/ RollsBack(c, g) /\ p \in RollingBack
         \/ Deletes(c, g) /\ p \in Deleting
  PROVE  CallTypeOK'
<1> DEFINE r == [call[c] EXCEPT !.pc = p]
<1>1. call' = [call EXCEPT ![c] = r]
  BY DEF Goto, CallTypeOK
<1>2. call[c] \in Call
  BY DEF CallTypeOK
<1>3. r \in Call
  <2>1. p \in Points
    BY DEF Points
  <2> QED
    BY <1>2, <2>1 DEF Call
<1>4. call'[c] = r
  BY <1>1 DEF CallTypeOK
<1>5. r.pc = p /\ r.key = call[c].key /\ r.goal = call[c].goal
      /\ r.authority = call[c].authority /\ r.write = call[c].write
      /\ r.refused = call[c].refused /\ r.found = call[c].found
  BY <1>2 DEF Call
<1> HIDE DEF r
<1>6. Way(c)'
  <2>1. CASE Creates(c, g) /\ p \in Creation /\ p # "complete"
    BY <2>1, <1>4, <1>5 DEF Way, Creates
  <2>2. CASE Publishes(c, g) /\ p \in Publication /\ p # "complete"
    BY <2>2, <1>4, <1>5 DEF Way, Publishes
  <2>3. CASE RollsBack(c, g) /\ p \in RollingBack
    BY <2>3, <1>4, <1>5 DEF Way, RollsBack, Recorded
  <2>4. CASE Deletes(c, g) /\ p \in Deleting
    BY <2>4, <1>4, <1>5 DEF Way, Deletes, Recorded
  <2> QED
    BY <2>1, <2>2, <2>3, <2>4
<1> QED
  BY <1>1, <1>3, <1>6, MoveTyped

\* What the point of a call says about its way.
LEMMA WayAt ==
  ASSUME CallTypeOK, NEW c \in Callers, call[c].pc # "idle"
  PROVE  /\ call[c] \in Call /\ GoalOf(c) \in Goals
         /\ \/ Creates(c, GoalOf(c)) \/ Publishes(c, GoalOf(c)) \/ RollsBack(c, GoalOf(c))
            \/ Deletes(c, GoalOf(c)) \/ Reads(c, GoalOf(c))
<1>1. call[c] \in Call
  BY DEF CallTypeOK
<1>2. call[c] # NoCall
  BY DEF NoCall
<1>3. Way(c)
  BY <1>2 DEF CallTypeOK
<1> QED
  BY <1>1, <1>3 DEF Way, Creates, Publishes, RollsBack, Deletes, Reads, GoalOf

LEMMA WayOf ==
  ASSUME CallTypeOK, NEW c \in Callers
  PROVE  /\ call[c].pc \in {"create", "duplicate", "add"} => Creates(c, GoalOf(c))
         /\ call[c].pc \in {"publish", "version", "install"} => Publishes(c, GoalOf(c))
         /\ call[c].pc \in {"abort", "reconcile", "complete", "unknown"} =>
              Creates(c, GoalOf(c)) \/ Publishes(c, GoalOf(c))
         /\ call[c].pc \in {"authorize", "recheck"} =>
              \/ Creates(c, GoalOf(c)) \/ Publishes(c, GoalOf(c))
              \/ RollsBack(c, GoalOf(c)) \/ Deletes(c, GoalOf(c))
         /\ call[c].pc \in {"clean publication", "roll back", "mark rolled back"} =>
              RollsBack(c, GoalOf(c))
         /\ call[c].pc \in {"clean goal", "delete", "mark deleted", "finish cleanup"} =>
              Deletes(c, GoalOf(c))
         /\ call[c].pc \in Reading => Reads(c, GoalOf(c))
<1>1. CASE call[c].pc = "idle"
  BY <1>1 DEF Reading
<1>2. CASE call[c].pc # "idle"
  BY <1>2, WayAt
  DEF Creates, Publishes, RollsBack, Deletes, Reads, Creation, Publication, RollingBack,
      Deleting, Reading, Shared
<1> QED
  BY <1>1, <1>2

LEMMA PlansTyped ==
  /\ Nobody \in ExecutionPlans /\ Nobody \in ExecutionKeys \cup {Nobody}
  /\ \A g \in Goals : Create(g) \in ExecutionPlans
  /\ \A g \in Goals, v \in Seq(Goals) : PublishPlan(g, v) \in ExecutionPlans
  /\ {"NONE", "IN_FLIGHT", "UNKNOWN_RESULT", "APPLIED"} = Statuses
BY DEF ExecutionPlans, ExecutionKeys, Statuses

LEMMA ReleaseTyped ==
  ASSUME RowTypeOK, NEW a \in Authorities, NEW k
  PROVE  ReleasedAuthority(a, k) \in [Authorities -> AuthorityRow \cup {Nobody}]
<1>1. CASE HeldBy(a, k)
  <2>1. authority[a] \in AuthorityRow
    BY <1>1 DEF HeldBy, RowTypeOK
  <2>2. [authority[a] EXCEPT !.key = Nobody, !.status = Unspent(authority[a].fields.kind)]
          \in AuthorityRow
    BY <2>1 DEF AuthorityRow, Unspent
  <2> QED
    BY <1>1, <2>2 DEF ReleasedAuthority, RowTypeOK
<1>2. CASE ~HeldBy(a, k)
  BY <1>2 DEF ReleasedAuthority, RowTypeOK
<1> QED
  BY <1>1, <1>2

LEMMA FinishTyped ==
  ASSUME RowTypeOK, NEW a \in Authorities, NEW k, HeldBy(a, k)
  PROVE  FinishedAuthority(a) \in [Authorities -> AuthorityRow \cup {Nobody}]
<1>1. authority[a] \in AuthorityRow
  BY DEF HeldBy, RowTypeOK
<1> DEFINE after == IF authority[a].fields.kind = "APPROVAL" THEN "USED"
                    ELSE IF authority[a].used + 1 >= Quota[a] THEN "EXHAUSTED"
                    ELSE "ACTIVE"
<1>2. after \in {"USED", "EXHAUSTED", "ACTIVE"}
  OBVIOUS
<1> HIDE DEF after
<1>3. [authority[a] EXCEPT !.key = Nobody, !.used = @ + 1, !.status = after]
        \in AuthorityRow
  <2>1. authority[a].used + 1 \in Nat
    BY <1>1 DEF AuthorityRow
  <2> QED
    BY <1>1, <1>2, <2>1, PlansTyped DEF AuthorityRow
<1>4. [authority EXCEPT ![a].key = Nobody, ![a].used = @ + 1, ![a].status = after]
        \in [Authorities -> AuthorityRow \cup {Nobody}]
  BY <1>3 DEF RowTypeOK
<1> QED
  BY <1>4 DEF FinishedAuthority, after

LEMMA ReserveTyped ==
  ASSUME RowTypeOK, NEW a \in Authorities, NEW plan, MayReserve(a, plan),
         NEW k \in ExecutionKeys
  PROVE  Reserved(a, k) \in [Authorities -> AuthorityRow \cup {Nobody}]
<1>1. authority[a] \in AuthorityRow
  BY DEF MayReserve, RowTypeOK
<1>2. [authority[a] EXCEPT !.status = "RESERVED", !.key = k] \in AuthorityRow
  BY <1>1 DEF AuthorityRow
<1> QED
  BY <1>2 DEF Reserved, RowTypeOK

LEMMA ReservationTyped ==
  ASSUME RowTypeOK, NEW x \in Reservations,
         NEW s \in {"NONE", "AVAILABLE", "RESERVED", "USED"},
         NEW k \in ExecutionKeys \cup {Nobody}
  PROVE  /\ reservation \in [Reservations -> ReservationRow]
         /\ [reservation EXCEPT ![x].status = s] \in [Reservations -> ReservationRow]
         /\ [reservation EXCEPT ![x] = [status |-> s, key |-> k]]
              \in [Reservations -> ReservationRow]
<1>1. reservation[x] \in ReservationRow /\ reservation \in [Reservations -> ReservationRow]
  BY DEF RowTypeOK
<1>2. [reservation[x] EXCEPT !.status = s] \in ReservationRow
      /\ [status |-> s, key |-> k] \in ReservationRow
  BY <1>1 DEF ReservationRow
<1> QED
  BY <1>1, <1>2

LEMMA ExecutionTyped ==
  ASSUME RowTypeOK, NEW k \in ExecutionKeys, NEW s \in Statuses, NEW p \in ExecutionPlans
  PROVE  /\ execution \in [ExecutionKeys -> ExecutionRow]
         /\ [execution EXCEPT ![k].status = s] \in [ExecutionKeys -> ExecutionRow]
         /\ [execution EXCEPT ![k] = [status |-> s, plan |-> p]]
              \in [ExecutionKeys -> ExecutionRow]
<1>1. execution[k] \in ExecutionRow /\ execution \in [ExecutionKeys -> ExecutionRow]
  BY DEF RowTypeOK
<1>2. [execution[k] EXCEPT !.status = s] \in ExecutionRow
      /\ [status |-> s, plan |-> p] \in ExecutionRow
  BY <1>1 DEF ExecutionRow
<1> QED
  BY <1>1, <1>2

rows == <<authority, reservation, execution, claim, candidate, publication, cleanup,
          goals, added, page, live>>

LEMMA RowsNext ==
  ASSUME TypeOK, [Next]_vars
  PROVE  RowTypeOK' /\ Recorded
<1> USE DEF storeVars, counterVars, siteVars
<1>1. ASSUME UNCHANGED rows PROVE RowTypeOK' /\ Recorded
  BY <1>1, SMTT(30) DEF TypeOK, RowTypeOK, Recorded, rows
<1>2. ASSUME NEW c \in Callers,
             \/ Authorize(c) \/ Recheck(c) \/ Refuse(c) \/ ContinueCreate(c)
             \/ RejectDuplicate(c) \/ ReconcileCreate(c) \/ ContinuePublish(c)
             \/ CheckVersion(c) \/ ReconcilePublish(c) \/ Poll(c)
             \/ CleanPublicationStep(c) \/ CleanGoalStep(c) \/ Crash(c)
             \/ \E g \in Goals :
                  \/ \E a \in Authorities : OpenCreate(c, g, a)
                  \/ \E a \in Authorities, version \in SeenVersions :
                       OpenPublish(c, g, a, version)
                  \/ OpenVerify(c, g) \/ OpenCleanup(c, g)
                  \/ \E status \in {"APPROVED", "REJECTED"} : OpenDecide(c, g, status)
      PROVE  UNCHANGED rows
  BY <1>2
  DEF rows, Authorize, Recheck, Refuse, ContinueCreate, RejectDuplicate,
      ReconcileCreate, ContinuePublish, CheckVersion, ReconcilePublish, Poll,
      CleanPublicationStep, CleanGoalStep, Crash, OpenCreate, OpenPublish, OpenVerify,
      OpenCleanup, OpenDecide
<1>3. ASSUME \/ SetKillSwitch \/ Expire \/ \E s \in Signatures : ForeignGoal(s)
             \/ UNCHANGED vars
      PROVE  UNCHANGED rows
  BY <1>3 DEF rows, SetKillSwitch, Expire, ForeignGoal, vars
<1>4. ASSUME NEW a \in Authorities, NEW p \in Principals, RegisterAuthority(a, p)
      PROVE  RowTypeOK' /\ Recorded
  <2>1. Proposed[a] \in Authority
    BY ProposedAssumption
  <2> QED
    BY <1>4, <2>1 DEF RegisterAuthority, TypeOK, RowTypeOK, Recorded, AuthorityRow
<1>5. ASSUME NEW x \in Reservations, RegisterReservation(x)
      PROVE  RowTypeOK' /\ Recorded
  <2>1. reservation' \in [Reservations -> ReservationRow]
    BY <1>5, ReservationTyped, PlansTyped DEF RegisterReservation, TypeOK
  <2> QED
    BY <1>5, <2>1 DEF RegisterReservation, TypeOK, RowTypeOK, Recorded
<1>6. ASSUME NEW a \in Authorities, NEW b \in Bindings, AlterAuthority(a, b)
      PROVE  RowTypeOK' /\ Recorded
  <2>1. authority[a] \in AuthorityRow
    BY <1>6 DEF AlterAuthority, TypeOK, RowTypeOK
  <2>2. [authority[a] EXCEPT !.fields.binding = b] \in AuthorityRow
    BY <2>1 DEF AuthorityRow, Authority
  <2> QED
    BY <1>6, <2>2 DEF AlterAuthority, TypeOK, RowTypeOK, Recorded
<1>7. ASSUME NEW c \in Callers, Abort(c) PROVE RowTypeOK' /\ Recorded
  <2>1. KeyOf(c) \in ExecutionKeys /\ call[c].authority \in Authorities
        /\ ReservationOf[GoalOf(c)] \in Reservations
    BY <1>7, WayOf, WayAt, Keys, GoalAssumption DEF Abort, TypeOK, Creates, Publishes, KeyOf
  <2>2. authority' \in [Authorities -> AuthorityRow \cup {Nobody}]
    BY <1>7, <2>1, ReleaseTyped DEF Abort, TypeOK, RowTypeOK
  <2>3. reservation' \in [Reservations -> ReservationRow]
    <3>1. /\ reservation \in [Reservations -> ReservationRow]
          /\ [reservation EXCEPT ![ReservationOf[GoalOf(c)]] =
                [status |-> "AVAILABLE", key |-> Nobody]]
               \in [Reservations -> ReservationRow]
      BY <2>1, ReservationTyped, PlansTyped DEF TypeOK
    <3> QED
      BY <1>7, <3>1 DEF Abort
  <2>4. execution' \in [ExecutionKeys -> ExecutionRow]
    <3>1. /\ execution \in [ExecutionKeys -> ExecutionRow]
          /\ [execution EXCEPT ![KeyOf(c)] = [status |-> "NONE", plan |-> Nobody]]
               \in [ExecutionKeys -> ExecutionRow]
      BY <2>1, ExecutionTyped, PlansTyped DEF TypeOK
    <3> QED
      BY <1>7, <3>1 DEF Abort
  <2>5. claim' \in [Signatures -> Goals \cup {Nobody}]
    BY <1>7 DEF Abort, TypeOK, RowTypeOK
  <2> QED
    BY <1>7, <2>2, <2>3, <2>4, <2>5 DEF Abort, TypeOK, RowTypeOK, Recorded
<1>8. ASSUME NEW c \in Callers, MarkUnknown(c) PROVE RowTypeOK' /\ Recorded
  <2>1. KeyOf(c) \in ExecutionKeys
    BY <1>8, WayOf, WayAt, Keys DEF MarkUnknown, TypeOK, Creates, Publishes, KeyOf
  <2>2. [execution EXCEPT ![KeyOf(c)].status = "UNKNOWN_RESULT"]
          \in [ExecutionKeys -> ExecutionRow]
    BY <2>1, ExecutionTyped, PlansTyped DEF TypeOK
  <2> QED
    BY <1>8, <2>1, <2>2 DEF MarkUnknown, TypeOK, RowTypeOK, Recorded
<1>9. ASSUME NEW c \in Callers, BeginCreate(c) PROVE RowTypeOK' /\ Recorded
  <2>1. /\ GoalOf(c) \in Goals /\ call[c].authority \in Authorities
        /\ ReservationOf[GoalOf(c)] \in Reservations
        /\ SignatureOf[GoalOf(c)] \in Signatures
    BY <1>9, WayOf, WayAt, GoalAssumption DEF BeginCreate, TypeOK, Creates
  <2>2. authority' \in [Authorities -> AuthorityRow \cup {Nobody}]
    BY <1>9, <2>1, ReserveTyped, Keys DEF BeginCreate, TypeOK
  <2>3. reservation' \in [Reservations -> ReservationRow]
    BY <1>9, <2>1, ReservationTyped, Keys DEF BeginCreate, TypeOK
  <2>4. execution' \in [ExecutionKeys -> ExecutionRow]
    BY <1>9, <2>1, ExecutionTyped, PlansTyped, Keys DEF BeginCreate, TypeOK
  <2>5. claim' \in [Signatures -> Goals \cup {Nobody}]
    BY <1>9, <2>1 DEF BeginCreate, TypeOK, RowTypeOK
  <2> QED
    BY <1>9, <2>2, <2>3, <2>4, <2>5 DEF BeginCreate, TypeOK, RowTypeOK, Recorded
<1>10. ASSUME NEW c \in Callers, AddGoal(c) PROVE RowTypeOK' /\ Recorded
  <2>1. GoalOf(c) \in Goals /\ added[GoalOf(c)] \in Nat
    BY <1>10, WayAt DEF AddGoal, TypeOK, RowTypeOK
  <2>2. <<GoalOf(c), added[GoalOf(c)] + 1>> \in Goals \X Nat
    BY <2>1
  <2> QED
    BY <1>10, <2>1, <2>2 DEF AddGoal, TypeOK, RowTypeOK, Recorded
<1>11. ASSUME NEW c \in Callers, CompleteCreate(c) PROVE RowTypeOK' /\ Recorded
  <2>1. /\ GoalOf(c) \in Goals /\ call[c].authority \in Authorities
        /\ ReservationOf[GoalOf(c)] \in Reservations
        /\ call[c].found \in GoalIds
    BY <1>11, WayOf, WayAt, Keys, GoalAssumption
    DEF CompleteCreate, TypeOK, Creates, Publishes, KeyOf
  <2>2. CASE UNCHANGED rows
    BY <2>2, <1>1
  <2>3. CASE ~UNCHANGED rows
    <3>1. /\ authority' = FinishedAuthority(call[c].authority)
          /\ HeldBy(call[c].authority, Create(GoalOf(c)))
          /\ reservation' = [reservation EXCEPT ![ReservationOf[GoalOf(c)]].status = "USED"]
          /\ execution' = [execution EXCEPT ![Create(GoalOf(c))].status = "APPLIED"]
          /\ candidate' = IF candidate[GoalOf(c)] # Nobody THEN candidate
               ELSE [candidate EXCEPT ![GoalOf(c)] =
                       [goal |-> call[c].found, status |-> "CANDIDATE",
                        technical |-> "PENDING", gate |-> FALSE]]
          /\ UNCHANGED <<claim, publication, cleanup, goals, added, page, live>>
      BY <1>11, <2>3 DEF CompleteCreate, rows
    <3>2. authority' \in [Authorities -> AuthorityRow \cup {Nobody}]
      BY <2>1, <3>1, FinishTyped DEF TypeOK, RowTypeOK
    <3>3. reservation' \in [Reservations -> ReservationRow]
      BY <2>1, <3>1, ReservationTyped, PlansTyped DEF TypeOK
    <3>4. execution' \in [ExecutionKeys -> ExecutionRow]
      BY <2>1, <3>1, ExecutionTyped, PlansTyped, Keys DEF TypeOK
    <3>5. [goal |-> call[c].found, status |-> "CANDIDATE", technical |-> "PENDING",
           gate |-> FALSE] \in CandidateRow
      BY <2>1 DEF CandidateRow, GoalIds
    <3> QED
      BY <2>1, <3>1, <3>2, <3>3, <3>4, <3>5, Blank DEF TypeOK, RowTypeOK, Recorded
  <2> QED
    BY <2>2, <2>3
<1>12. ASSUME NEW c \in Callers, BeginPublish(c) PROVE RowTypeOK' /\ Recorded
  <2>1. /\ GoalOf(c) \in Goals /\ call[c].authority \in Authorities
        /\ call[c].version \in Seq(Goals)
    BY <1>12, WayOf, WayAt DEF BeginPublish, TypeOK, Publishes, Call, Versions
  <2>2. authority' \in [Authorities -> AuthorityRow \cup {Nobody}]
    BY <1>12, <2>1, ReserveTyped, Keys DEF BeginPublish, TypeOK
  <2>3. execution' \in [ExecutionKeys -> ExecutionRow]
    BY <1>12, <2>1, ExecutionTyped, PlansTyped, Keys DEF BeginPublish, TypeOK
  <2> QED
    BY <1>12, <2>2, <2>3 DEF BeginPublish, TypeOK, RowTypeOK, Recorded
<1>13. ASSUME NEW c \in Callers, Install(c) PROVE RowTypeOK' /\ Recorded
  <2>1. GoalOf(c) \in Goals /\ call[c].version \in Seq(Goals)
    BY <1>13, WayAt DEF Install, TypeOK, Call, Versions
  <2>2. Append(call[c].version, GoalOf(c)) \in Seq(Goals)
    BY <2>1
  <2> QED
    BY <1>13, <2>1, <2>2 DEF Install, TypeOK, RowTypeOK, Recorded
<1>14. ASSUME NEW c \in Callers, CompletePublish(c) PROVE RowTypeOK' /\ Recorded
  <2>1. /\ GoalOf(c) \in Goals /\ call[c].authority \in Authorities
        /\ call[c].found \in Seq(Goals)
    BY <1>14, WayOf, WayAt, Keys DEF CompletePublish, TypeOK, Creates, Publishes, KeyOf
  <2>2. CASE UNCHANGED rows
    BY <2>2, <1>1
  <2>3. CASE ~UNCHANGED rows
    <3>1. /\ authority' = FinishedAuthority(call[c].authority)
          /\ HeldBy(call[c].authority, Publish(GoalOf(c)))
          /\ execution' = [execution EXCEPT ![Publish(GoalOf(c))].status = "APPLIED"]
          /\ publication' = [publication EXCEPT ![GoalOf(c)] = call[c].found]
          /\ UNCHANGED <<reservation, claim, candidate, cleanup, goals, added, page, live>>
      BY <1>14, <2>3 DEF CompletePublish, rows
    <3>2. authority' \in [Authorities -> AuthorityRow \cup {Nobody}]
      BY <2>1, <3>1, FinishTyped DEF TypeOK, RowTypeOK
    <3>3. execution' \in [ExecutionKeys -> ExecutionRow]
      BY <2>1, <3>1, ExecutionTyped, PlansTyped, Keys DEF TypeOK
    <3> QED
      BY <2>1, <3>1, <3>2, <3>3 DEF TypeOK, RowTypeOK, Recorded
  <2> QED
    BY <2>2, <2>3
<1>15. ASSUME NEW g \in Goals, NEW row \in CandidateRow,
              candidate' = [candidate EXCEPT ![g] = row],
              UNCHANGED <<authority, reservation, execution, claim, publication,
                          cleanup, goals, added, page, live>>
       PROVE  RowTypeOK' /\ Recorded
  BY <1>15, Blank DEF TypeOK, RowTypeOK, Recorded
<1>16. ASSUME NEW c \in Callers, SetTechnicalStatus(c) \/ SetSemanticStatus(c)
       PROVE  RowTypeOK' /\ Recorded
  <2>1. GoalOf(c) \in Goals /\ candidate[GoalOf(c)] \in CandidateRow /\ call[c] \in Call
    BY <1>16, WayOf, WayAt
    DEF SetTechnicalStatus, SetSemanticStatus, TypeOK, RowTypeOK, Reading, Reads
  <2>2. \A s \in {"VERIFIED", "INCONCLUSIVE", "PENDING"} :
          [candidate[GoalOf(c)] EXCEPT !.technical = s] \in CandidateRow
    BY <2>1 DEF CandidateRow
  <2>3. \A s \in {"APPROVED", "REJECTED"} :
          [candidate[GoalOf(c)] EXCEPT !.status = s] \in CandidateRow
    BY <2>1 DEF CandidateRow
  <2>4. /\ call[c].seen \in {"VERIFIED", "INCONCLUSIVE", "PENDING"}
        /\ call[c].status \in {"APPROVED", "REJECTED"}
    BY <2>1 DEF Call
  <2>5. \/ UNCHANGED rows
        \/ \E row \in CandidateRow :
             /\ candidate' = [candidate EXCEPT ![GoalOf(c)] = row]
             /\ UNCHANGED <<authority, reservation, execution, claim, publication,
                            cleanup, goals, added, page, live>>
    BY <1>16, <2>2, <2>3, <2>4 DEF SetTechnicalStatus, SetSemanticStatus, rows
  <2> QED
    BY <2>1, <2>5, <1>1, <1>15
<1>17. ASSUME NEW g \in Goals, NEW b \in BOOLEAN, SetOptimizationGate(g, b)
       PROVE  RowTypeOK' /\ Recorded
  <2>1. candidate[g] \in CandidateRow
    BY <1>17 DEF SetOptimizationGate, TypeOK, RowTypeOK
  <2>2. [candidate[g] EXCEPT !.gate = b] \in CandidateRow
    BY <2>1 DEF CandidateRow
  <2> QED
    BY <1>17, <2>2, <1>15 DEF SetOptimizationGate
<1>18. ASSUME NEW g \in Goals, NEW row \in CleanupRow,
              cleanup' = [cleanup EXCEPT ![g] = row],
              UNCHANGED <<authority, reservation, execution, candidate, goals, added,
                          page, live>>,
              claim' \in [Signatures -> Goals \cup {Nobody}],
              publication' \in [Goals -> Seq(Goals) \cup {Nobody}]
       PROVE  RowTypeOK' /\ Recorded
  BY <1>18, Blank DEF TypeOK, RowTypeOK, Recorded
<1>19. ASSUME NEW c \in Callers, BeginCleanup(c) PROVE RowTypeOK' /\ Recorded
  <2>1. GoalOf(c) \in Goals
    BY <1>19, WayAt DEF BeginCleanup, TypeOK
  <2>2. [rolledBack |-> FALSE, deleted |-> FALSE, completed |-> FALSE] \in CleanupRow
    BY DEF CleanupRow
  <2>3. \E row \in CleanupRow : cleanup' = [cleanup EXCEPT ![GoalOf(c)] = row]
    BY <1>19, <2>1, <2>2 DEF BeginCleanup, TypeOK, RowTypeOK
  <2> QED
    BY <1>19, <2>1, <2>3, <1>18 DEF BeginCleanup, TypeOK, RowTypeOK
<1>20. ASSUME NEW c \in Callers, MarkRolledBack(c) \/ MarkDeleted(c) \/ FinishCleanup(c)
       PROVE  RowTypeOK' /\ Recorded
  <2>1. GoalOf(c) \in Goals /\ cleanup[GoalOf(c)] \in CleanupRow
    BY <1>20, WayOf, WayAt
    DEF MarkRolledBack, MarkDeleted, FinishCleanup, TypeOK, RowTypeOK, RollsBack, Deletes
  <2>2. /\ [cleanup[GoalOf(c)] EXCEPT !.rolledBack = TRUE] \in CleanupRow
        /\ [cleanup[GoalOf(c)] EXCEPT !.deleted = TRUE] \in CleanupRow
        /\ [cleanup[GoalOf(c)] EXCEPT !.completed = TRUE] \in CleanupRow
    BY <2>1 DEF CleanupRow
  <2>3. claim \in [Signatures -> Goals \cup {Nobody}]
        /\ publication \in [Goals -> Seq(Goals) \cup {Nobody}]
    BY DEF TypeOK, RowTypeOK
  <2>4. CASE MarkRolledBack(c) \/ MarkDeleted(c)
    <3>1. \E row \in CleanupRow : cleanup' = [cleanup EXCEPT ![GoalOf(c)] = row]
      BY <2>2, <2>4 DEF MarkRolledBack, MarkDeleted
    <3> QED
      BY <2>4, <2>1, <2>3, <3>1, <1>18 DEF MarkRolledBack, MarkDeleted
  <2>5. CASE FinishCleanup(c) /\ UNCHANGED rows
    BY <2>5, <1>1
  <2>6. CASE FinishCleanup(c) /\ ~UNCHANGED rows
    <3>1. /\ claim' = [s \in Signatures |-> IF claim[s] = GoalOf(c) THEN Nobody
                                           ELSE claim[s]]
          /\ publication' = [publication EXCEPT ![GoalOf(c)] = Nobody]
          /\ cleanup' = [cleanup EXCEPT ![GoalOf(c)].completed = TRUE]
          /\ UNCHANGED <<authority, reservation, execution, candidate, goals, added,
                         page, live>>
      BY <2>6 DEF FinishCleanup, rows
    <3> QED
      BY <2>1, <2>2, <2>3, <3>1, <1>18
  <2> QED
    BY <1>20, <2>4, <2>5, <2>6
<1>21. ASSUME NEW c \in Callers, RollBack(c) \/ DeleteGoal(c)
       PROVE  RowTypeOK' /\ Recorded
  <2>1. GoalOf(c) \in Goals
    BY <1>21, WayAt DEF RollBack, DeleteGoal, TypeOK
  <2> QED
    BY <1>21, <2>1 DEF RollBack, DeleteGoal, OnTop, TypeOK, RowTypeOK, Recorded
<1> QED
  BY <1>1, <1>2, <1>3, <1>4, <1>5, <1>6, <1>7, <1>8, <1>9, <1>10, <1>11, <1>12, <1>13,
     <1>14, <1>16, <1>17, <1>19, <1>20, <1>21 DEF Next, CallStep

\* A readback or a write that answered: the call goes on to record what it found.
LEMMA FoundTyped ==
  ASSUME CallTypeOK, Recorded, NEW c \in Callers, NEW g \in Goals, NEW f,
         call' = [call EXCEPT ![c].pc = "complete", ![c].found = f],
         \/ Creates(c, g) /\ f \in GoalIds
         \/ Publishes(c, g) /\ f \in Seq(Goals)
  PROVE  CallTypeOK'
<1> DEFINE r == [call[c] EXCEPT !.pc = "complete", !.found = f]
<1>1. call' = [call EXCEPT ![c] = r] /\ call[c] \in Call
  BY DEF CallTypeOK
<1>2. f \in Targets /\ "complete" \in Points
  BY DEF Targets, Versions, Points, Creation, Shared
<1>3. r \in Call
  BY <1>1, <1>2 DEF Call
<1>4. call'[c] = r
  BY <1>1 DEF CallTypeOK
<1>5. r.pc = "complete" /\ r.key = call[c].key /\ r.goal = call[c].goal
      /\ r.authority = call[c].authority /\ r.write = call[c].write
      /\ r.refused = call[c].refused /\ r.found = f
  BY <1>1 DEF Call
<1> HIDE DEF r
<1>6. Way(c)'
  BY <1>4, <1>5 DEF Way, Creates, Publishes, Creation, Publication, Shared
<1> QED
  BY <1>1, <1>3, <1>6, MoveTyped

LEMMA OpenTyped ==
  ASSUME CallTypeOK, Recorded, NEW c \in Callers, NEW g \in Goals, NEW r,
         Open(c, r), r \in Call, r.goal = g,
         \/ r.pc = "create" /\ r.key = Create(g) /\ r.authority \in Authorities
            /\ r.write = "add" /\ r.refused = "abort"
         \/ r.pc = "publish" /\ r.key = Publish(g) /\ r.authority \in Authorities
            /\ r.write = "install" /\ r.refused = "abort"
         \/ r.pc \in Reading /\ r.key = Nobody /\ candidate[g] # Nobody
  PROVE  CallTypeOK'
<1>1. call' = [call EXCEPT ![c] = r]
  BY DEF Open
<1>2. call'[c] = r
  BY <1>1 DEF CallTypeOK
<1>3. Way(c)'
  BY <1>2 DEF Way, Creates, Publishes, Reads, Creation, Publication, Recorded
<1> QED
  BY <1>1, <1>3, MoveTyped

LEMMA CallTypeNext ==
  ASSUME TypeOK, [Next]_vars
  PROVE  CallTypeOK'
<1>a. Recorded
  BY RowsNext
<1>b. CallTypeOK /\ RowTypeOK
  BY DEF TypeOK
<1> USE <1>a, <1>b
<1> USE DEF storeVars, counterVars, siteVars, guardVars
<1>1. CASE UNCHANGED call
  <2>1. ASSUME NEW c \in Callers, Way(c) PROVE Way(c)'
    BY <1>1, <2>1 DEF Way, Creates, Publishes, RollsBack, Deletes, Reads, Recorded
  <2> QED
    BY <1>1, <2>1 DEF CallTypeOK
<1>2. ASSUME NEW c \in Callers,
             \/ Refuse(c) \/ Abort(c) \/ MarkUnknown(c) \/ CompleteCreate(c)
             \/ CompletePublish(c) \/ SetTechnicalStatus(c) \/ SetSemanticStatus(c)
             \/ FinishCleanup(c) \/ Crash(c)
      PROVE  CallTypeOK'
  BY <1>2, ReturnTyped
  DEF Refuse, Abort, MarkUnknown, CompleteCreate, CompletePublish, SetTechnicalStatus,
      SetSemanticStatus, FinishCleanup, Crash
<1>3. ASSUME NEW c \in Callers, NEW p, Goto(c, p), call[c].pc # "idle",
             \/ Creates(c, GoalOf(c)) /\ p \in Creation /\ p # "complete"
             \/ Publishes(c, GoalOf(c)) /\ p \in Publication /\ p # "complete"
             \/ RollsBack(c, GoalOf(c)) /\ p \in RollingBack
             \/ Deletes(c, GoalOf(c)) /\ p \in Deleting
      PROVE  CallTypeOK'
  BY <1>3, WayAt, GotoTyped
<1>4. ASSUME NEW c \in Callers, Authorize(c) \/ Recheck(c) PROVE CallTypeOK'
  <2>1. \/ Creates(c, GoalOf(c)) \/ Publishes(c, GoalOf(c))
        \/ RollsBack(c, GoalOf(c)) \/ Deletes(c, GoalOf(c))
    BY <1>4, WayOf DEF Authorize, Recheck
  <2>2. \E p \in {"recheck", call[c].refused, call[c].write} : Goto(c, p)
    BY <1>4 DEF Authorize, Recheck
  <2>3. call[c].pc # "idle"
    BY <1>4 DEF Authorize, Recheck
  <2> QED
    BY <2>1, <2>2, <2>3, <1>3
    DEF Creates, Publishes, RollsBack, Deletes, Creation, Publication, RollingBack,
        Deleting, Shared
<1>5. ASSUME NEW c \in Callers, BeginCreate(c) \/ ContinueCreate(c) \/ RejectDuplicate(c)
      PROVE  CallTypeOK'
  <2>1. Creates(c, GoalOf(c)) /\ call[c].pc # "idle"
    BY <1>5, WayOf DEF BeginCreate, ContinueCreate, RejectDuplicate
  <2>2. \/ Return(c)
        \/ \E p \in {"duplicate", "refuse", "reconcile", "abort", "authorize"} : Goto(c, p)
    BY <1>5 DEF BeginCreate, ContinueCreate, RejectDuplicate, Continuation
  <2> QED
    BY <2>1, <2>2, <1>3, ReturnTyped DEF Creation, Shared
<1>6. ASSUME NEW c \in Callers, BeginPublish(c) \/ ContinuePublish(c) \/ CheckVersion(c)
      PROVE  CallTypeOK'
  <2>1. Publishes(c, GoalOf(c)) /\ call[c].pc # "idle"
    BY <1>6, WayOf DEF BeginPublish, ContinuePublish, CheckVersion
  <2>2. \/ Return(c)
        \/ \E p \in {"version", "refuse", "reconcile", "abort", "authorize"} : Goto(c, p)
    BY <1>6 DEF BeginPublish, ContinuePublish, CheckVersion, Continuation
  <2> QED
    BY <2>1, <2>2, <1>3, ReturnTyped DEF Publication, Shared
<1>7. ASSUME NEW c \in Callers, AddGoal(c) \/ ReconcileCreate(c) PROVE CallTypeOK'
  <2>1. Creates(c, GoalOf(c)) /\ call[c].pc # "idle" /\ GoalOf(c) \in Goals
    BY <1>7, WayOf, WayAt, Keys
    DEF AddGoal, ReconcileCreate, Creates, Publishes, KeyOf
  <2>2. added[GoalOf(c)] + 1 \in Nat
    BY <2>1 DEF RowTypeOK
  <2>3. \/ \E p \in {"reconcile", "unknown"} : Goto(c, p)
        \/ \E f \in GoalIds :
             call' = [call EXCEPT ![c].pc = "complete", ![c].found = f]
    <3>1. CASE AddGoal(c)
      <4>1. <<GoalOf(c), added[GoalOf(c)] + 1>> \in Goals \X Nat
        BY <2>1, <2>2
      <4> QED
        BY <3>1, <4>1 DEF AddGoal, LostAnswer, Goto, GoalIds
    <3>2. CASE ReconcileCreate(c)
      <4>1. goals \subseteq Goals \X Nat
        BY DEF RowTypeOK
      <4> QED
        BY <3>2, <4>1 DEF ReconcileCreate, GoalIds
    <3> QED
      BY <1>7, <3>1, <3>2
  <2> QED
    <3>1. CASE \E p \in {"reconcile", "unknown"} : Goto(c, p)
      BY <2>1, <3>1, <1>3 DEF Creation, Shared
    <3>2. CASE \E f \in GoalIds :
                 call' = [call EXCEPT ![c].pc = "complete", ![c].found = f]
      <4> PICK f \in GoalIds :
            call' = [call EXCEPT ![c].pc = "complete", ![c].found = f]
        BY <3>2
      <4>1. Creates(c, GoalOf(c)) /\ f \in GoalIds
        BY <2>1
      <4> QED
        BY <2>1, <4>1, FoundTyped
    <3> QED
      BY <2>3, <3>1, <3>2
<1>8. ASSUME NEW c \in Callers, Install(c) \/ ReconcilePublish(c) PROVE CallTypeOK'
  <2>1. /\ Publishes(c, GoalOf(c)) /\ call[c].pc # "idle" /\ GoalOf(c) \in Goals
        /\ call[c].version \in Seq(Goals)
    <3>1. Publishes(c, GoalOf(c)) /\ call[c].pc # "idle" /\ call[c] \in Call
      BY <1>8, WayOf, WayAt, Keys
      DEF Install, ReconcilePublish, Creates, Publishes, KeyOf
    <3> QED
      BY <3>1, WayAt DEF Call, Versions
  <2>2. \/ \E p \in {"reconcile", "unknown", "abort"} : Goto(c, p)
        \/ \E f \in Seq(Goals) :
             call' = [call EXCEPT ![c].pc = "complete", ![c].found = f]
    <3>1. live[GoalOf(c)] \in Seq(Goals) \cup {Nobody}
      BY <2>1 DEF RowTypeOK
    <3> QED
      BY <1>8, <2>1, <3>1 DEF Install, ReconcilePublish, LostAnswer, Goto
  <2> QED
    BY <2>1, <2>2, <1>3, FoundTyped DEF Publication, Shared
<1>9. ASSUME NEW c \in Callers, Poll(c) PROVE CallTypeOK'
  <2>1. Reads(c, GoalOf(c)) /\ GoalOf(c) \in Goals /\ call[c] \in Call
    BY <1>9, WayOf, WayAt DEF Poll, Reading
  <2>2. CASE Return(c)
    BY <2>2, ReturnTyped
  <2>3. ASSUME NEW seen \in {"VERIFIED", "INCONCLUSIVE", "PENDING"},
               call' = [call EXCEPT ![c].pc = "verdict", ![c].seen = seen]
        PROVE  CallTypeOK'
    <3> DEFINE r == [call[c] EXCEPT !.pc = "verdict", !.seen = seen]
    <3>1. call' = [call EXCEPT ![c] = r]
      BY <2>3 DEF CallTypeOK
    <3>2. "verdict" \in Points
      BY DEF Points, Reading
    <3>3. r \in Call /\ r.pc = "verdict" /\ r.goal = GoalOf(c) /\ r.key = call[c].key
      BY <2>1, <3>2 DEF Call, GoalOf
    <3>4. call'[c] = r
      BY <3>1 DEF CallTypeOK
    <3> HIDE DEF r
    <3>5. Way(c)'
      BY <2>1, <3>3, <3>4 DEF Way, Reads, Reading, Recorded
    <3> QED
      BY <3>1, <3>3, <3>5, MoveTyped
  <2> QED
    BY <1>9, <2>2, <2>3 DEF Poll
<1>10. ASSUME NEW c \in Callers, BeginCleanup(c) PROVE CallTypeOK'
  <2>1. Reads(c, GoalOf(c)) /\ GoalOf(c) \in Goals /\ call[c] \in Call
    BY <1>10, WayOf, WayAt DEF BeginCleanup, Reading
  <2>2. CASE call' = [call EXCEPT ![c] = NoCall]
    BY <2>2, ReturnTyped DEF Return
  <2>3. CASE call' # [call EXCEPT ![c] = NoCall]
    <3> PICK row \in CleanupRow :
          /\ cleanup' = [cleanup EXCEPT ![GoalOf(c)] = row]
          /\ call' = [call EXCEPT ![c].refused = Refusal, ![c].deleted = row.deleted,
            ![c].pc = IF row.rolledBack THEN "clean goal" ELSE "clean publication",
            ![c].key = IF row.rolledBack THEN CleanGoal(GoalOf(c))
                       ELSE CleanPublication(GoalOf(c)),
            ![c].write = IF row.rolledBack THEN "delete" ELSE "roll back"]
      <4>1. [rolledBack |-> FALSE, deleted |-> FALSE, completed |-> FALSE] \in CleanupRow
        BY DEF CleanupRow
      <4> QED
        BY <1>10, <2>1, <2>3, <4>1 DEF BeginCleanup, RowTypeOK
    <3> DEFINE p == IF row.rolledBack THEN "clean goal" ELSE "clean publication"
               k == IF row.rolledBack THEN CleanGoal(GoalOf(c))
                    ELSE CleanPublication(GoalOf(c))
               w == IF row.rolledBack THEN "delete" ELSE "roll back"
    <3>1. /\ p \in Points /\ k \in CleanKeys /\ w \in {"delete", "roll back"}
          /\ row.deleted \in BOOLEAN
      BY <2>1, Keys DEF Points, RollingBack, Deleting, CleanupRow
    <3>2. \/ p = "clean goal" /\ k = CleanGoal(GoalOf(c)) /\ w = "delete"
          \/ p = "clean publication" /\ k = CleanPublication(GoalOf(c)) /\ w = "roll back"
      OBVIOUS
    <3>3. call' = [call EXCEPT ![c].refused = "refuse", ![c].deleted = row.deleted,
                               ![c].pc = p, ![c].key = k, ![c].write = w]
      BY DEF Refusal
    <3> HIDE DEF p, k, w
    <3> DEFINE r == [call[c] EXCEPT !.refused = "refuse", !.deleted = row.deleted,
                       !.pc = p, !.key = k, !.write = w]
    <3>4. call' = [call EXCEPT ![c] = r]
      BY <3>3 DEF CallTypeOK
    <3>5. /\ r \in Call /\ r.pc = p /\ r.goal = GoalOf(c) /\ r.key = k /\ r.write = w
          /\ r.refused = "refuse"
      BY <2>1, <3>1 DEF Call, GoalOf
    <3>6. call'[c] = r
      BY <3>4 DEF CallTypeOK
    <3>7. cleanup'[GoalOf(c)] # Nobody
      BY <2>1, Blank DEF RowTypeOK
    <3> HIDE DEF r
    <3>8. Way(c)'
      BY <2>1, <3>2, <3>5, <3>6, <3>7 DEF Way, RollsBack, Deletes, RollingBack, Deleting
    <3> QED
      BY <3>4, <3>5, <3>8, MoveTyped
  <2> QED
    BY <2>2, <2>3
<1>11. ASSUME NEW c \in Callers, CleanPublicationStep(c) \/ RollBack(c) PROVE CallTypeOK'
  <2>1. RollsBack(c, GoalOf(c)) /\ call[c].pc # "idle"
    BY <1>11, WayOf DEF CleanPublicationStep, RollBack
  <2>2. \E p \in {"mark rolled back", "authorize", "refuse"} : Goto(c, p)
    BY <1>11 DEF CleanPublicationStep, RollBack
  <2> QED
    BY <2>1, <2>2, <1>3 DEF RollingBack
<1>12. ASSUME NEW c \in Callers, MarkRolledBack(c) PROVE CallTypeOK'
  <2>1. RollsBack(c, GoalOf(c)) /\ GoalOf(c) \in Goals /\ call[c] \in Call
    BY <1>12, WayOf, WayAt DEF MarkRolledBack
  <2> DEFINE r == [call[c] EXCEPT !.pc = "clean goal", !.key = CleanGoal(GoalOf(c)),
                                  !.write = "delete"]
  <2>2. call' = [call EXCEPT ![c] = r]
    BY <1>12 DEF MarkRolledBack, CallTypeOK
  <2>3. "clean goal" \in Points /\ CleanGoal(GoalOf(c)) \in CleanKeys
    BY <2>1, Keys DEF Points, Deleting
  <2>4. /\ r \in Call /\ r.pc = "clean goal" /\ r.goal = GoalOf(c)
        /\ r.key = CleanGoal(GoalOf(c)) /\ r.write = "delete"
        /\ r.refused = call[c].refused
    BY <2>1, <2>3 DEF Call, GoalOf
  <2>5. call'[c] = r
    BY <2>2 DEF CallTypeOK
  <2> HIDE DEF r
  <2>6. Way(c)'
    BY <2>1, <2>4, <2>5 DEF Way, RollsBack, Deletes, Deleting, Recorded
  <2> QED
    BY <2>2, <2>4, <2>6, MoveTyped
<1>13. ASSUME NEW c \in Callers, CleanGoalStep(c) \/ DeleteGoal(c) \/ MarkDeleted(c)
       PROVE  CallTypeOK'
  <2>1. Deletes(c, GoalOf(c)) /\ call[c].pc # "idle"
    BY <1>13, WayOf DEF CleanGoalStep, DeleteGoal, MarkDeleted
  <2>2. \E p \in {"finish cleanup", "authorize", "mark deleted"} : Goto(c, p)
    BY <1>13 DEF CleanGoalStep, DeleteGoal, MarkDeleted
  <2> QED
    BY <2>1, <2>2, <1>3 DEF Deleting
<1>14. ASSUME NEW c \in Callers, NEW g \in Goals,
              \/ \E a \in Authorities : OpenCreate(c, g, a)
              \/ OpenVerify(c, g) \/ OpenCleanup(c, g)
              \/ \E status \in {"APPROVED", "REJECTED"} : OpenDecide(c, g, status)
       PROVE  CallTypeOK'
  <2>1. ASSUME NEW a \in Authorities, OpenCreate(c, g, a) PROVE CallTypeOK'
    <3> DEFINE r == [NoCall EXCEPT !.pc = "create", !.goal = g, !.key = Create(g),
              !.authority = a, !.write = "add", !.refused = "abort"]
    <3>1. "create" \in Points /\ Create(g) \in ExecutionKeys
      BY Keys DEF Points, Creation
    <3>2. r \in Call
      BY NoCallTyped, <3>1 DEF Call
    <3>3. /\ r.goal = g /\ r.pc = "create" /\ r.key = Create(g) /\ r.authority = a
          /\ r.write = "add" /\ r.refused = "abort"
      BY DEF NoCall
    <3>4. Open(c, r)
      BY <2>1 DEF OpenCreate
    <3> QED
      BY <3>2, <3>3, <3>4, OpenTyped
  <2>2. ASSUME NEW p \in {"poll", "begin cleanup"}, candidate[g] # Nobody,
               Open(c, [NoCall EXCEPT !.pc = p, !.goal = g])
        PROVE  CallTypeOK'
    <3> DEFINE r == [NoCall EXCEPT !.pc = p, !.goal = g]
    <3>1. p \in Points /\ p \in Reading
      BY DEF Points, Reading
    <3>2. r \in Call
      BY NoCallTyped, <3>1 DEF Call
    <3>3. r.goal = g /\ r.pc = p /\ r.key = Nobody
      BY DEF NoCall
    <3> QED
      BY <2>2, <3>1, <3>2, <3>3, OpenTyped
  <2>3. ASSUME NEW status \in {"APPROVED", "REJECTED"}, OpenDecide(c, g, status)
        PROVE  CallTypeOK'
    <3> DEFINE r == [NoCall EXCEPT !.pc = "decide", !.goal = g, !.status = status]
    <3>1. "decide" \in Points /\ "decide" \in Reading
      BY DEF Points, Reading
    <3>2. r \in Call
      BY NoCallTyped, <3>1 DEF Call
    <3>3. r.goal = g /\ r.pc = "decide" /\ r.key = Nobody
      BY DEF NoCall
    <3> QED
      BY <2>3, <3>1, <3>2, <3>3, OpenTyped DEF OpenDecide
  <2> QED
    BY <1>14, <2>1, <2>2, <2>3 DEF OpenVerify, OpenCleanup
<1>15. ASSUME NEW c \in Callers, NEW g \in Goals, NEW a \in Authorities,
              NEW version \in SeenVersions, OpenPublish(c, g, a, version)
       PROVE  CallTypeOK'
  <2> DEFINE r == [NoCall EXCEPT !.pc = "publish", !.goal = g, !.key = Publish(g),
              !.authority = a, !.version = version, !.write = "install",
              !.refused = "abort"]
  <2>1. "publish" \in Points /\ Publish(g) \in ExecutionKeys
    BY Keys DEF Points, Publication
  <2>2. version \in Versions
    <3>1. page \in Seq(Goals)
      BY DEF RowTypeOK
    <3>2. ASSUME NEW n \in 0..Len(page) PROVE SubSeq(page, 1, n) \in Seq(Goals)
      <4>1. n \in Int /\ \A i \in 1..n : page[i] \in Goals
        BY <3>1, LenProperties
      <4> QED
        BY <4>1, SubSeqProperties
    <3> QED
      BY <3>2 DEF SeenVersions, Versions
  <2>3. r \in Call
    BY NoCallTyped, <2>1, <2>2 DEF Call
  <2>4. /\ r.goal = g /\ r.pc = "publish" /\ r.key = Publish(g) /\ r.authority = a
        /\ r.write = "install" /\ r.refused = "abort"
    BY DEF NoCall
  <2>5. Open(c, r)
    BY <1>15 DEF OpenPublish
  <2> QED
    BY <2>3, <2>4, <2>5, OpenTyped
<1>16. ASSUME \/ \E a \in Authorities :
                   \/ \E p \in Principals : RegisterAuthority(a, p)
                   \/ \E b \in Bindings : AlterAuthority(a, b)
              \/ \E x \in Reservations : RegisterReservation(x)
              \/ \E g \in Goals, passed \in BOOLEAN : SetOptimizationGate(g, passed)
              \/ SetKillSwitch \/ Expire \/ \E s \in Signatures : ForeignGoal(s)
              \/ UNCHANGED vars
       PROVE  UNCHANGED call
  BY <1>16
  DEF RegisterAuthority, AlterAuthority, RegisterReservation, SetOptimizationGate,
      SetKillSwitch, Expire, ForeignGoal, vars
<1> QED
  BY <1>1, <1>2, <1>4, <1>5, <1>6, <1>7, <1>8, <1>9, <1>10, <1>11, <1>12, <1>13,
     <1>14, <1>15, <1>16 DEF Next, CallStep

\* The tables and the calls keep their types: a call holds the key of its operation,
\* and a cleanup under way is recorded.
THEOREM TypeCorrect == Spec => []TypeOK
BY TypeInit, RowsNext, CallTypeNext, PTL DEF Spec, TypeOK

-----------------------------------------------------------------------------
(* How calls move.                                                         *)

Opens(c, g) ==
  \/ \E a \in Authorities : OpenCreate(c, g, a)
  \/ \E a \in Authorities, version \in SeenVersions : OpenPublish(c, g, a, version)
  \/ OpenVerify(c, g) \/ OpenCleanup(c, g)
  \/ \E status \in {"APPROVED", "REJECTED"} : OpenDecide(c, g, status)

\* A call moves by a step of its own.
LEMMA WhoseStep ==
  ASSUME TypeOK, [Next]_vars, NEW d \in Callers, call'[d] # call[d]
  PROVE  CallStep(d) \/ Crash(d) \/ \E g \in Goals : Opens(d, g)
<1>0. call \in [Callers -> Call]
  BY SMTT(30) DEF TypeOK, CallTypeOK
<1>1. ASSUME NEW c \in Callers, CallStep(c) PROVE c = d
  BY <1>0, <1>1
  DEF CallStep, Authorize, Recheck, Refuse, Abort, MarkUnknown, BeginCreate,
      ContinueCreate, RejectDuplicate, AddGoal, ReconcileCreate, CompleteCreate,
      BeginPublish, ContinuePublish, CheckVersion, Install, ReconcilePublish,
      CompletePublish, Poll, SetTechnicalStatus, SetSemanticStatus, BeginCleanup,
      CleanPublicationStep, RollBack, MarkRolledBack, CleanGoalStep, DeleteGoal,
      MarkDeleted, FinishCleanup, Goto, Return
<1>2. ASSUME NEW c \in Callers, Crash(c) PROVE c = d
  BY <1>0, <1>2 DEF Crash, Return
<1>3. ASSUME NEW c \in Callers, NEW g \in Goals, Opens(c, g) PROVE c = d
  BY <1>0, <1>3
  DEF Opens, Open, OpenCreate, OpenPublish, OpenVerify, OpenCleanup, OpenDecide
<1>4. ~( \/ \E a \in Authorities :
               \/ \E p \in Principals : RegisterAuthority(a, p)
               \/ \E b \in Bindings : AlterAuthority(a, b)
         \/ \E x \in Reservations : RegisterReservation(x)
         \/ \E g \in Goals, passed \in BOOLEAN : SetOptimizationGate(g, passed)
         \/ SetKillSwitch \/ Expire \/ \E s \in Signatures : ForeignGoal(s)
         \/ UNCHANGED vars)
  BY DEF RegisterAuthority, AlterAuthority, RegisterReservation, SetOptimizationGate,
      SetKillSwitch, Expire, ForeignGoal, vars
<1> QED
  BY <1>1, <1>2, <1>3, <1>4 DEF Next, Opens

\* What a call keeps when it only jumps.
LEMMA GotoKeeps ==
  ASSUME TypeOK, NEW c \in Callers, NEW p, Goto(c, p)
  PROVE  /\ call'[c].pc = p /\ call'[c].key = call[c].key /\ call'[c].goal = call[c].goal
         /\ call'[c].authority = call[c].authority
         /\ call'[c].version = call[c].version /\ call'[c].found = call[c].found
         /\ call'[c].deleted = call[c].deleted /\ call'[c].write = call[c].write
         /\ call'[c].refused = call[c].refused
<1>1. call[c] \in Call /\ call'[c] = [call[c] EXCEPT !.pc = p]
  BY DEF Goto, TypeOK, CallTypeOK
<1> QED
  BY <1>1 DEF Call

LEMMA ReturnEnds ==
  ASSUME TypeOK, NEW c \in Callers, Return(c)
  PROVE  call'[c] = NoCall /\ call'[c].pc = "idle"
BY DEF Return, TypeOK, CallTypeOK, NoCall

LEMMA FoundKeeps ==
  ASSUME TypeOK, NEW c \in Callers, NEW f,
         call' = [call EXCEPT ![c].pc = "complete", ![c].found = f]
  PROVE  /\ call'[c].pc = "complete" /\ call'[c].key = call[c].key
         /\ call'[c].goal = call[c].goal /\ call'[c].found = f
         /\ call'[c].authority = call[c].authority
<1>1. call[c] \in Call /\ call'[c] = [call[c] EXCEPT !.pc = "complete", !.found = f]
  BY DEF TypeOK, CallTypeOK
<1> DEFINE q == [call[c] EXCEPT !.pc = "complete", !.found = f]
<1>2. /\ q.pc = "complete" /\ q.key = call[c].key /\ q.goal = call[c].goal
      /\ q.authority = call[c].authority /\ q.found = f
  BY <1>1 DEF Call
<1> QED
  BY <1>1, <1>2

LEMMA OpenStarts ==
  ASSUME TypeOK, NEW c \in Callers, NEW g \in Goals, Opens(c, g)
  PROVE  /\ call'[c].pc \in {"create", "publish"} \cup Reading /\ call'[c].goal = g
         /\ call'[c].pc = "begin cleanup" =>
              candidate[g] # Nobody /\ candidate[g].status = "REJECTED"
<1>1. ASSUME NEW r, Open(c, r) PROVE call'[c] = r
  BY <1>1 DEF Open, TypeOK, CallTypeOK
<1>2. ASSUME NEW a \in Authorities, OpenCreate(c, g, a)
      PROVE  call'[c].pc = "create" /\ call'[c].goal = g
  BY <1>1, <1>2 DEF OpenCreate, NoCall
<1>3. ASSUME NEW a \in Authorities, NEW version, OpenPublish(c, g, a, version)
      PROVE  call'[c].pc = "publish" /\ call'[c].goal = g
  BY <1>1, <1>3 DEF OpenPublish, NoCall
<1>4. ASSUME OpenVerify(c, g) PROVE call'[c].pc = "poll" /\ call'[c].goal = g
  BY <1>1, <1>4 DEF OpenVerify, NoCall
<1>5. ASSUME OpenCleanup(c, g)
      PROVE  /\ call'[c].pc = "begin cleanup" /\ call'[c].goal = g
             /\ candidate[g] # Nobody /\ candidate[g].status = "REJECTED"
  BY <1>1, <1>5 DEF OpenCleanup, NoCall
<1>6. ASSUME NEW status, OpenDecide(c, g, status)
      PROVE  call'[c].pc = "decide" /\ call'[c].goal = g
  BY <1>1, <1>6 DEF OpenDecide, NoCall
<1> QED
  BY <1>2, <1>3, <1>4, <1>5, <1>6 DEF Opens, Reading

LEMMA PollMoves ==
  ASSUME TypeOK, NEW c \in Callers, Poll(c)
  PROVE  Return(c) \/ (call'[c].pc = "verdict" /\ call'[c].goal = call[c].goal)
<1>1. call[c] \in Call /\ call \in [Callers -> Call]
  BY DEF TypeOK, CallTypeOK
<1>2. ASSUME NEW seen, call' = [call EXCEPT ![c].pc = "verdict", ![c].seen = seen]
      PROVE  call'[c].pc = "verdict" /\ call'[c].goal = call[c].goal
  <2> DEFINE q == [call[c] EXCEPT !.pc = "verdict", !.seen = seen]
  <2>1. q.pc = "verdict" /\ q.goal = call[c].goal
    BY <1>1 DEF Call
  <2>2. call'[c] = q
    BY <1>1, <1>2
  <2> QED
    BY <2>1, <2>2
<1> QED
  BY <1>2 DEF Poll

LEMMA BeginCleanupMoves ==
  ASSUME TypeOK, NEW c \in Callers, BeginCleanup(c)
  PROVE  \/ Return(c)
         \/ /\ call'[c].goal = GoalOf(c)
            /\ \/ call'[c].pc = "clean goal" /\ call'[c].key = CleanGoal(GoalOf(c))
               \/ call'[c].pc = "clean publication"
                  /\ call'[c].key = CleanPublication(GoalOf(c))
            /\ call'[c].deleted => cleanup[GoalOf(c)] # Nobody /\ cleanup[GoalOf(c)].deleted
<1>1. call[c] \in Call /\ call \in [Callers -> Call]
  BY DEF TypeOK, CallTypeOK
<1>2. ASSUME NEW p, NEW k, NEW w, NEW d,
             call' = [call EXCEPT ![c].refused = Refusal, ![c].deleted = d,
                                  ![c].pc = p, ![c].key = k, ![c].write = w]
      PROVE  /\ call'[c].pc = p /\ call'[c].key = k /\ call'[c].deleted = d
             /\ call'[c].goal = call[c].goal
  <2> DEFINE q == [call[c] EXCEPT !.refused = Refusal, !.deleted = d, !.pc = p,
                                  !.key = k, !.write = w]
  <2>1. q.pc = p /\ q.key = k /\ q.deleted = d /\ q.goal = call[c].goal
    BY <1>1 DEF Call
  <2>2. call'[c] = q
    BY <1>1, <1>2
  <2> QED
    BY <2>1, <2>2
<1> DEFINE progress ==
      IF cleanup[GoalOf(c)] = Nobody
      THEN [rolledBack |-> FALSE, deleted |-> FALSE, completed |-> FALSE]
      ELSE cleanup[GoalOf(c)]
    p == IF progress.rolledBack THEN "clean goal" ELSE "clean publication"
    k == IF progress.rolledBack THEN CleanGoal(GoalOf(c)) ELSE CleanPublication(GoalOf(c))
    w == IF progress.rolledBack THEN "delete" ELSE "roll back"
<1>3. progress.deleted => cleanup[GoalOf(c)] # Nobody /\ cleanup[GoalOf(c)].deleted
  OBVIOUS
<1>4. \/ Return(c)
      \/ call' = [call EXCEPT ![c].refused = Refusal, ![c].deleted = progress.deleted,
                              ![c].pc = p, ![c].key = k, ![c].write = w]
  BY DEF BeginCleanup, Return
<1>5. \/ p = "clean goal" /\ k = CleanGoal(GoalOf(c))
      \/ p = "clean publication" /\ k = CleanPublication(GoalOf(c))
  OBVIOUS
<1> HIDE DEF progress, p, k, w
<1>6. CASE call' = [call EXCEPT ![c].refused = Refusal, ![c].deleted = progress.deleted,
                                ![c].pc = p, ![c].key = k, ![c].write = w]
  <2>1. /\ call'[c].pc = p /\ call'[c].key = k /\ call'[c].deleted = progress.deleted
        /\ call'[c].goal = call[c].goal
    BY <1>2, <1>6
  <2> QED
    BY <1>3, <1>5, <2>1 DEF GoalOf
<1> QED
  BY <1>4, <1>6

LEMMA MarkRolledBackMoves ==
  ASSUME TypeOK, NEW c \in Callers, MarkRolledBack(c)
  PROVE  /\ call'[c].pc = "clean goal" /\ call'[c].goal = GoalOf(c)
         /\ call'[c].key = CleanGoal(GoalOf(c)) /\ call'[c].deleted = call[c].deleted
<1> DEFINE q == [call[c] EXCEPT !.pc = "clean goal", !.key = CleanGoal(GoalOf(c)),
                                !.write = "delete"]
<1>0. call[c] \in Call
  BY DEF TypeOK, CallTypeOK
<1>1. /\ q.pc = "clean goal" /\ q.goal = GoalOf(c) /\ q.key = CleanGoal(GoalOf(c))
      /\ q.deleted = call[c].deleted
  BY <1>0 DEF Call, GoalOf
<1>2. call'[c] = q
  BY DEF MarkRolledBack, TypeOK, CallTypeOK
<1> QED
  BY <1>1, <1>2

-----------------------------------------------------------------------------
(* The page.  Between the transaction that begins a publication and the    *)
(* installation one call publishes a run's event and the page does not     *)
(* have it; the version under an event is the page below it.               *)

PublishPoints == {"version", "authorize", "recheck", "install", "abort"}
Publishing(c, g) == call[c].pc \in PublishPoints /\ KeyOf(c) = Publish(g)

OnePublisher ==
  /\ \A g \in Goals : execution[Publish(g)].status = "NONE" => live[g] = Nobody
  /\ \A c \in Callers, g \in Goals : Publishing(c, g) =>
       live[g] = Nobody /\ execution[Publish(g)].status # "NONE"
  /\ \A c, d \in Callers, g \in Goals : Publishing(c, g) /\ Publishing(d, g) => c = d

Stacked ==
  /\ \A g \in Goals : live[g] # Nobody <=> \E i \in 1..Len(page) : page[i] = g
  /\ \A i \in 1..Len(page) : live[page[i]] = SubSeq(page, 1, i - 1)

LEMMA PublisherMoves ==
  ASSUME TypeOK, [Next]_vars, NEW d \in Callers, NEW g \in Goals, Publishing(d, g)'
  PROVE  /\ call'[d].version = call[d].version /\ call'[d].authority = call[d].authority
         /\ Publishing(d, g) \/ (BeginPublish(d) /\ GoalOf(d) = g)
<1> USE DEF Publishing, PublishPoints, KeyOf, GoalOf
<1>a. CallTypeOK
  BY DEF TypeOK
<1>1. CASE call'[d] = call[d]
  BY <1>1
<1>2. CASE call'[d] # call[d]
  <2>1. ~Crash(d)
    BY ReturnEnds DEF Crash
  <2>2. ~(\E h \in Goals : Opens(d, h))
    BY OpenStarts DEF Reading
  <2>3. CallStep(d)
    BY <1>2, <2>1, <2>2, WhoseStep
  <2>4. ~( \/ Refuse(d) \/ Abort(d) \/ MarkUnknown(d) \/ CompleteCreate(d)
           \/ CompletePublish(d) \/ SetTechnicalStatus(d) \/ SetSemanticStatus(d)
           \/ FinishCleanup(d) )
    BY ReturnEnds
    DEF Refuse, Abort, MarkUnknown, CompleteCreate, CompletePublish,
        SetTechnicalStatus, SetSemanticStatus, FinishCleanup
  <2>5. CASE Authorize(d) \/ Recheck(d)
    <3>1. PICK p : Goto(d, p)
      BY <2>5 DEF Authorize, Recheck
    <3>2. call[d].pc \in {"authorize", "recheck"}
      BY <2>5 DEF Authorize, Recheck
    <3> QED
      BY <3>1, <3>2, GotoKeeps
  <2>6. CASE BeginCreate(d) \/ ContinueCreate(d) \/ RejectDuplicate(d) \/ AddGoal(d)
             \/ ReconcileCreate(d)
    <3>1. call[d].key = Create(GoalOf(d)) /\ GoalOf(d) \in Goals
      BY <2>6, <1>a, WayOf, WayAt, Keys
      DEF BeginCreate, ContinueCreate, RejectDuplicate, AddGoal, ReconcileCreate, Creates
    <3>2. \/ \E p : Goto(d, p)
          \/ Return(d)
          \/ \E f : call' = [call EXCEPT ![d].pc = "complete", ![d].found = f]
      BY <2>6
      DEF BeginCreate, ContinueCreate, RejectDuplicate, AddGoal, ReconcileCreate, Goto
    <3>3. call'[d].key \in {call[d].key, Nobody}
      BY <3>2, GotoKeeps, ReturnEnds, FoundKeeps DEF NoCall
    <3> QED
      BY <3>1, <3>3, Keys, SMTT(30)
  <2>7. CASE BeginPublish(d)
    <3>1. Goto(d, "version") /\ Publishes(d, GoalOf(d)) /\ GoalOf(d) \in Goals
      BY <2>7, <1>a, WayOf, WayAt DEF BeginPublish
    <3>2. call'[d].key = call[d].key /\ call'[d].version = call[d].version
          /\ call'[d].authority = call[d].authority
      BY <3>1, GotoKeeps
    <3>3. GoalOf(d) = g
      BY <3>1, <3>2, Keys DEF Publishes
    <3> QED
      BY <2>7, <3>2, <3>3
  <2>8. CASE ContinuePublish(d)
    <3>1. Return(d) \/ Goto(d, "refuse") \/ Goto(d, "reconcile")
      BY <2>8 DEF ContinuePublish, Continuation
    <3> QED
      BY <3>1, GotoKeeps, ReturnEnds
  <2>9. CASE CheckVersion(d)
    <3>1. PICK p : Goto(d, p)
      BY <2>9 DEF CheckVersion
    <3>2. call[d].pc = "version"
      BY <2>9 DEF CheckVersion
    <3> QED
      BY <3>1, <3>2, GotoKeeps
  <2>10. CASE Install(d)
    <3>1. \/ Goto(d, "abort") \/ Goto(d, "reconcile")
          \/ \E f : call' = [call EXCEPT ![d].pc = "complete", ![d].found = f]
      BY <2>10 DEF Install, LostAnswer, Goto
    <3>2. call[d].pc = "install"
      BY <2>10 DEF Install
    <3> QED
      BY <3>1, <3>2, GotoKeeps, FoundKeeps
  <2>11. CASE ReconcilePublish(d)
    <3>1. \/ Goto(d, "unknown")
          \/ \E f : call' = [call EXCEPT ![d].pc = "complete", ![d].found = f]
      BY <2>11 DEF ReconcilePublish, Goto
    <3> QED
      BY <3>1, GotoKeeps, FoundKeeps
  <2>12. CASE Poll(d) \/ BeginCleanup(d)
    BY <2>12, PollMoves, BeginCleanupMoves, ReturnEnds
  <2>13. CASE CleanPublicationStep(d) \/ RollBack(d) \/ CleanGoalStep(d) \/ DeleteGoal(d)
              \/ MarkDeleted(d)
    <3>1. call[d].key \in {CleanPublication(GoalOf(d)), CleanGoal(GoalOf(d))}
          /\ GoalOf(d) \in Goals
      BY <2>13, <1>a, WayOf, WayAt
      DEF CleanPublicationStep, RollBack, CleanGoalStep, DeleteGoal, MarkDeleted,
          RollsBack, Deletes
    <3>2. PICK p : Goto(d, p)
      BY <2>13
      DEF CleanPublicationStep, RollBack, CleanGoalStep, DeleteGoal, MarkDeleted
    <3>3. call'[d].key = call[d].key
      BY <3>2, GotoKeeps
    <3> QED
      BY <3>1, <3>3, Keys
  <2>14. CASE MarkRolledBack(d)
    BY <2>14, MarkRolledBackMoves
  <2> QED
    BY <2>3, <2>4, <2>5, <2>6, <2>7, <2>8, <2>9, <2>10, <2>11, <2>12, <2>13, <2>14
    DEF CallStep
<1> QED
  BY <1>1, <1>2

Installs(c) ==
  /\ Publishing(c, GoalOf(c)) /\ GoalOf(c) \in Goals /\ UNCHANGED execution
  /\ ~(\E g \in Goals : Publishing(c, g)')
  /\ page' = Append(page, GoalOf(c)) /\ live' = [live EXCEPT ![GoalOf(c)] = page]
TakesBack(g) ==
  /\ g \in Goals /\ UNCHANGED execution
  /\ live[g] # Nobody /\ page = Append(live[g], g)
  /\ page' = live[g] /\ live' = [live EXCEPT ![g] = Nobody]

LEMMA SiteMoves ==
  ASSUME TypeOK, [Next]_vars
  PROVE  UNCHANGED siteVars \/ (\E c \in Callers : Installs(c)) \/ \E g \in Goals : TakesBack(g)
<1> USE DEF siteVars
<1>a. CallTypeOK
  BY DEF TypeOK
<1>1. ASSUME NEW c \in Callers, Install(c), ~UNCHANGED siteVars PROVE Installs(c)
  <2>1. /\ call[c].pc = "install" /\ page = call[c].version
        /\ page' = Append(page, GoalOf(c)) /\ live' = [live EXCEPT ![GoalOf(c)] = page]
        /\ UNCHANGED execution
    BY <1>1 DEF Install, StillExpected, storeVars
  <2>2. GoalOf(c) \in Goals /\ call[c].key = Publish(GoalOf(c))
    BY <1>a, <2>1, WayOf, WayAt DEF Publishes
  <2>3. \/ Goto(c, "reconcile")
        \/ \E f : call' = [call EXCEPT ![c].pc = "complete", ![c].found = f]
    BY <1>1 DEF Install, LostAnswer, Goto
  <2>4. call'[c].pc \in {"reconcile", "complete"}
    BY <2>3, GotoKeeps, FoundKeeps
  <2> QED
    BY <2>1, <2>2, <2>4 DEF Installs, Publishing, PublishPoints, KeyOf
<1>2. ASSUME NEW c \in Callers, RollBack(c), ~UNCHANGED siteVars
      PROVE  TakesBack(GoalOf(c))
  <2>1. GoalOf(c) \in Goals
    BY <1>a, <1>2, WayAt, ZenonT(60) DEF RollBack
  <2> QED
    BY <1>2, <2>1 DEF RollBack, OnTop, TakesBack, storeVars
<1>3. ASSUME NEW c \in Callers, CallStep(c), ~Install(c), ~RollBack(c)
      PROVE  UNCHANGED siteVars
  BY <1>3, ZenonT(60)
  DEF CallStep, Authorize, Recheck, Refuse, Abort, MarkUnknown, BeginCreate,
      ContinueCreate, RejectDuplicate, AddGoal, ReconcileCreate, CompleteCreate,
      BeginPublish, ContinuePublish, CheckVersion, ReconcilePublish,
      CompletePublish, Poll, SetTechnicalStatus, SetSemanticStatus, BeginCleanup,
      CleanPublicationStep, MarkRolledBack, CleanGoalStep, DeleteGoal,
      MarkDeleted, FinishCleanup
<1>4. ASSUME ~(\E c \in Callers : CallStep(c)) PROVE UNCHANGED siteVars
  BY <1>4
  DEF Next, Crash, OpenCreate, OpenPublish, OpenVerify, OpenCleanup, OpenDecide,
      RegisterAuthority, AlterAuthority, RegisterReservation, SetOptimizationGate,
      SetKillSwitch, Expire, ForeignGoal, vars
<1>5. ASSUME NEW c \in Callers, CallStep(c)
      PROVE  UNCHANGED siteVars \/ Installs(c) \/ \E g \in Goals : TakesBack(g)
  <2>1. CASE Install(c)
    BY <2>1, <1>1
  <2>2. CASE RollBack(c)
    BY <2>2, <1>2 DEF TakesBack
  <2> QED
    BY <2>1, <2>2, <1>3, <1>5
<1> QED
  BY <1>4, <1>5

\* The row of an execution only goes back to the beginning by an abort.
LEMMA ExecutionMoves ==
  ASSUME TypeOK, [Next]_vars, NEW k \in ExecutionKeys
  PROVE  \/ execution'[k] = execution[k]
         \/ \E c \in Callers :
              /\ KeyOf(c) = k /\ GoalOf(c) \in Goals
              /\ \/ Abort(c) /\ execution'[k].status = "NONE"
                 \/ MarkUnknown(c) /\ execution[k].status = "IN_FLIGHT"
                    /\ execution'[k] = [execution[k] EXCEPT !.status = "UNKNOWN_RESULT"]
                 \/ (BeginCreate(c) \/ BeginPublish(c)) /\ execution[k].status = "NONE"
                    /\ execution'[k].status = "IN_FLIGHT"
                 \/ (CompleteCreate(c) \/ CompletePublish(c)) /\ Reconcilable(k)
                    /\ execution'[k].status = "APPLIED"
<1> USE DEF storeVars
<1>a. CallTypeOK /\ execution \in [ExecutionKeys -> ExecutionRow]
  BY DEF TypeOK, RowTypeOK
<1>1. ASSUME NEW c \in Callers, Abort(c), execution'[k] # execution[k]
      PROVE  KeyOf(c) = k /\ GoalOf(c) \in Goals /\ execution'[k].status = "NONE"
  <2>1. GoalOf(c) \in Goals
    BY <1>a, <1>1, WayAt DEF Abort
  <2>2. execution' = [execution EXCEPT ![KeyOf(c)] = [status |-> "NONE", plan |-> Nobody]]
    BY <1>1 DEF Abort
  <2> QED
    BY <1>a, <1>1, <2>1, <2>2
<1>2. ASSUME NEW c \in Callers, MarkUnknown(c), execution'[k] # execution[k]
      PROVE  /\ KeyOf(c) = k /\ GoalOf(c) \in Goals /\ execution[k].status = "IN_FLIGHT"
             /\ execution'[k] = [execution[k] EXCEPT !.status = "UNKNOWN_RESULT"]
  <2>1. GoalOf(c) \in Goals
    BY <1>a, <1>2, WayAt DEF MarkUnknown
  <2>2. /\ execution' = [execution EXCEPT ![KeyOf(c)].status = "UNKNOWN_RESULT"]
        /\ execution[KeyOf(c)].status = "IN_FLIGHT"
    BY <1>2 DEF MarkUnknown
  <2> QED
    BY <1>a, <1>2, <2>1, <2>2
<1>3. ASSUME NEW c \in Callers, BeginCreate(c) \/ BeginPublish(c),
             execution'[k] # execution[k]
      PROVE  /\ KeyOf(c) = k /\ GoalOf(c) \in Goals /\ execution[k].status = "NONE"
             /\ execution'[k].status = "IN_FLIGHT"
  <2>1. /\ GoalOf(c) \in Goals
        /\ \/ BeginCreate(c) /\ KeyOf(c) = Create(GoalOf(c))
           \/ BeginPublish(c) /\ KeyOf(c) = Publish(GoalOf(c))
    BY <1>a, <1>3, WayAt, WayOf DEF BeginCreate, BeginPublish, Creates, Publishes, KeyOf
  <2>2. /\ \E p : execution' = [execution EXCEPT ![KeyOf(c)] =
                                  [status |-> "IN_FLIGHT", plan |-> p]]
        /\ execution[KeyOf(c)].status = "NONE"
    BY <2>1 DEF BeginCreate, BeginPublish
  <2> QED
    BY <1>a, <1>3, <2>1, <2>2
<1>4. ASSUME NEW c \in Callers, CompleteCreate(c) \/ CompletePublish(c),
             execution'[k] # execution[k]
      PROVE  /\ KeyOf(c) = k /\ GoalOf(c) \in Goals /\ Reconcilable(k)
             /\ execution'[k].status = "APPLIED"
  <2>1. GoalOf(c) \in Goals
    BY <1>a, <1>4, WayAt DEF CompleteCreate, CompletePublish
  <2>2. /\ execution' = [execution EXCEPT ![KeyOf(c)].status = "APPLIED"]
        /\ Reconcilable(KeyOf(c))
    BY <1>4 DEF CompleteCreate, CompletePublish
  <2>3. KeyOf(c) = k
    BY <1>a, <1>4, <2>2
  <2>4. execution[k] \in ExecutionRow
    BY <1>a
  <2>5. execution'[k] = [execution[k] EXCEPT !.status = "APPLIED"]
    BY <1>a, <2>2, <2>3, SMTT(30)
  <2> QED
    BY <2>1, <2>2, <2>3, <2>4, <2>5 DEF ExecutionRow
<1>5. ASSUME NEW c \in Callers, CallStep(c), ~Abort(c), ~MarkUnknown(c), ~BeginCreate(c),
             ~BeginPublish(c), ~CompleteCreate(c), ~CompletePublish(c)
      PROVE  UNCHANGED execution
  BY <1>5, ZenonT(60)
  DEF CallStep, Authorize, Recheck, Refuse,
      ContinueCreate, RejectDuplicate, AddGoal, ReconcileCreate,
      ContinuePublish, CheckVersion, Install, ReconcilePublish,
      Poll, SetTechnicalStatus, SetSemanticStatus, BeginCleanup,
      CleanPublicationStep, RollBack, MarkRolledBack, CleanGoalStep, DeleteGoal,
      MarkDeleted, FinishCleanup
<1>6. ASSUME ~(\E c \in Callers : CallStep(c)) PROVE UNCHANGED execution
  BY <1>6
  DEF Next, Crash, OpenCreate, OpenPublish, OpenVerify, OpenCleanup, OpenDecide,
      RegisterAuthority, AlterAuthority, RegisterReservation, SetOptimizationGate,
      SetKillSwitch, Expire, ForeignGoal, vars
<1> QED
  BY <1>1, <1>2, <1>3, <1>4, <1>5, <1>6

LEMMA PublisherNext ==
  ASSUME TypeOK, OnePublisher, [Next]_vars
  PROVE  OnePublisher'
<1>a. execution \in [ExecutionKeys -> ExecutionRow] /\ live \in [Goals -> Seq(Goals) \cup {Nobody}]
      /\ page \in Seq(Goals)
  BY DEF TypeOK, RowTypeOK
\* a publication begins on a key without an execution
<1>1. ASSUME NEW c \in Callers, NEW g \in Goals, BeginPublish(c), GoalOf(c) = g
      PROVE  /\ execution[Publish(g)].status = "NONE" /\ UNCHANGED live
             /\ execution'[Publish(g)].status = "IN_FLIGHT"
             /\ \A d \in Callers : Publishing(d, g)' => d = c
  <2>1. /\ execution[Publish(g)].status = "NONE" /\ UNCHANGED live
        /\ execution'[Publish(g)].status = "IN_FLIGHT"
    BY <1>a, <1>1, Keys DEF BeginPublish, siteVars
  <2>2. ASSUME NEW d \in Callers, Publishing(d, g)', d # c PROVE FALSE
    <3>1. call'[d] = call[d]
      BY <1>1, <2>2 DEF BeginPublish, Goto, TypeOK, CallTypeOK
    <3>2. Publishing(d, g)
      BY <2>2, <3>1 DEF Publishing, KeyOf
    <3> QED
      BY <2>1, <3>2 DEF OnePublisher
  <2> QED
    BY <2>1, <2>2
\* an abort ends the only publishing call
<1>2. ASSUME NEW g \in Goals, execution'[Publish(g)].status = "NONE",
             execution[Publish(g)].status # "NONE"
      PROVE  live[g] = Nobody /\ UNCHANGED live /\ \A d \in Callers : ~Publishing(d, g)'
  <2>0. Publish(g) \in ExecutionKeys
    BY Keys
  <2>1. PICK c \in Callers : Abort(c) /\ KeyOf(c) = Publish(g) /\ GoalOf(c) \in Goals
    BY <1>2, <2>0, <1>a, ExecutionMoves DEF ExecutionRow
  <2>2. Publishing(c, g) /\ Return(c) /\ UNCHANGED live
    BY <2>1 DEF Abort, Publishing, PublishPoints, siteVars
  <2>3. ASSUME NEW d \in Callers, Publishing(d, g)' PROVE FALSE
    <3>1. d # c
      BY <2>2, <2>3, ReturnEnds DEF Publishing, PublishPoints
    <3>2. call'[d] = call[d]
      BY <3>1, <2>2 DEF Return, TypeOK, CallTypeOK
    <3> QED
      BY <2>2, <2>3, <3>1, <3>2 DEF OnePublisher, Publishing, KeyOf
  <2> QED
    BY <2>2, <2>3 DEF OnePublisher
<1>3. ASSUME NEW c \in Callers, NEW g \in Goals, Publishing(c, g)'
      PROVE  execution'[Publish(g)].status # "NONE"
  BY <1>1, <1>2, <1>3, PublisherMoves DEF OnePublisher
<1>4. ASSUME NEW g \in Goals, live'[g] # Nobody
      PROVE  /\ \A c \in Callers : ~Publishing(c, g)'
             /\ execution'[Publish(g)].status # "NONE"
  <2>1. CASE live[g] # Nobody
    <3>1. execution[Publish(g)].status # "NONE"
      BY <2>1 DEF OnePublisher
    <3>2. execution'[Publish(g)].status # "NONE"
      BY <2>1, <3>1, <1>2
    <3>3. \A c \in Callers : ~Publishing(c, g)'
      BY <2>1, <3>1, <1>1, PublisherMoves DEF OnePublisher
    <3> QED
      BY <3>2, <3>3
  <2>2. CASE live[g] = Nobody
    <3>1. PICK c \in Callers : Installs(c)
      BY <1>4, <2>2, <1>a, SiteMoves DEF siteVars, TakesBack
    <3>2. GoalOf(c) = g /\ Publishing(c, g) /\ UNCHANGED execution
      BY <1>4, <2>2, <3>1, <1>a DEF Installs
    <3>3. ASSUME NEW d \in Callers, Publishing(d, g)' PROVE FALSE
      <4>1. Publishing(d, g) \/ BeginPublish(d)
        BY <3>3, PublisherMoves
      <4>2. ~BeginPublish(d)
        BY <1>4, <2>2 DEF BeginPublish, siteVars
      <4>3. d = c
        BY <3>2, <4>1, <4>2 DEF OnePublisher
      <4> QED
        BY <3>1, <3>3, <4>3 DEF Installs
    <3> QED
      BY <3>2, <3>3 DEF OnePublisher
  <2> QED
    BY <2>1, <2>2
<1>5. ASSUME NEW c \in Callers, NEW d \in Callers, NEW g \in Goals,
             Publishing(c, g)', Publishing(d, g)'
      PROVE  c = d
  BY <1>5, <1>1, PublisherMoves DEF OnePublisher
<1> QED
  BY <1>3, <1>4, <1>5 DEF OnePublisher

LEMMA PublisherInit == Init => OnePublisher
BY Keys DEF Init, OnePublisher, Publishing, PublishPoints, NoCall

\* What is below an appended element is what was below it.
LEMMA BelowAppended ==
  ASSUME NEW S, NEW s \in Seq(S), NEW e \in S, NEW i \in 1..(Len(s) + 1)
  PROVE  SubSeq(Append(s, e), 1, i - 1) = SubSeq(s, 1, i - 1)
<1> DEFINE t == Append(s, e)
<1>1. /\ t \in Seq(S) /\ Len(t) = Len(s) + 1 /\ Len(s) \in Nat
      /\ \A j \in 1..Len(s) : t[j] = s[j] /\ s[j] \in S
  BY AppendProperties, LenProperties, ElementOfSeq
<1> HIDE DEF t
<1>2. i - 1 \in Int /\ i - 1 >= 0 /\ i - 1 <= Len(s)
  BY <1>1
<1> DEFINE n == i - 1
<1>3. n \in Int /\ n >= 0 /\ n <= Len(s)
  BY <1>2
<1> HIDE DEF n
<1>4. \A j \in 1..n : j \in 1..Len(s)
  BY <1>1, <1>3
<1>5. (\A j \in 1..n : t[j] \in S) /\ (\A j \in 1..n : s[j] \in S)
  BY <1>1, <1>4
<1>6. /\ SubSeq(t, 1, n) \in Seq(S) /\ SubSeq(s, 1, n) \in Seq(S)
      /\ Len(SubSeq(t, 1, n)) = n /\ Len(SubSeq(s, 1, n)) = n
      /\ \A j \in 1..n : SubSeq(t, 1, n)[j] = t[j]
      /\ \A j \in 1..n : SubSeq(s, 1, n)[j] = s[j]
  <2>1. /\ SubSeq(t, 1, n) \in Seq(S) /\ Len(SubSeq(t, 1, n)) = IF 1 <= n THEN n-1+1 ELSE 0
        /\ \A j \in 1..n-1+1 : SubSeq(t, 1, n)[j] = t[1+j-1]
    BY <1>3, <1>5, SubSeqProperties
  <2>2. /\ SubSeq(s, 1, n) \in Seq(S) /\ Len(SubSeq(s, 1, n)) = IF 1 <= n THEN n-1+1 ELSE 0
        /\ \A j \in 1..n-1+1 : SubSeq(s, 1, n)[j] = s[1+j-1]
    BY <1>3, <1>5, SubSeqProperties
  <2> QED
    BY <1>3, <2>1, <2>2
<1>7. SubSeq(t, 1, n) = SubSeq(s, 1, n)
  BY <1>1, <1>4, <1>6, SeqEqual
<1> QED
  BY <1>7 DEF t, n

LEMMA StackedNext ==
  ASSUME TypeOK, OnePublisher, Stacked, [Next]_vars
  PROVE  Stacked'
<1>a. live \in [Goals -> Seq(Goals) \cup {Nobody}] /\ page \in Seq(Goals)
      /\ Len(page) \in Nat /\ \A i \in 1..Len(page) : page[i] \in Goals
  BY ElementOfSeq, LenProperties DEF TypeOK, RowTypeOK
<1>1. CASE UNCHANGED siteVars
  BY <1>1 DEF Stacked, siteVars
<1>2. ASSUME NEW c \in Callers, Installs(c) PROVE Stacked'
  <2> DEFINE g == GoalOf(c)
  <2>1. /\ g \in Goals /\ page' = Append(page, g) /\ live' = [live EXCEPT ![g] = page]
        /\ live[g] = Nobody
    BY <1>2 DEF Installs, OnePublisher
  <2> HIDE DEF g
  <2>2. /\ Len(page') = Len(page) + 1 /\ page'[Len(page) + 1] = g
        /\ \A i \in 1..Len(page) : page'[i] = page[i]
    BY <1>a, <2>1, AppendProperties
  <2>3. \A i \in 1..Len(page) : page[i] # g
    BY <2>1 DEF Stacked
  <2>4. page # Nobody
    BY <1>a, Blank
  <2>5. ASSUME NEW h \in Goals PROVE live'[h] # Nobody <=> \E i \in 1..Len(page') : page'[i] = h
    <3>1. CASE h = g
      BY <3>1, <1>a, <2>1, <2>2, <2>4
    <3>2. CASE h # g
      <4>1. live'[h] = live[h]
        BY <3>2, <1>a, <2>1
      <4>2. (\E i \in 1..Len(page') : page'[i] = h) <=> \E i \in 1..Len(page) : page[i] = h
        BY <3>2, <1>a, <2>2
      <4> QED
        BY <4>1, <4>2 DEF Stacked
    <3> QED
      BY <3>1, <3>2
  <2>6. ASSUME NEW i \in 1..Len(page') PROVE live'[page'[i]] = SubSeq(page', 1, i - 1)
    <3>1. i \in 1..(Len(page) + 1)
      BY <2>2
    <3>2. SubSeq(page', 1, i - 1) = SubSeq(page, 1, i - 1)
      BY <1>a, <2>1, <3>1, BelowAppended
    <3>3. CASE i = Len(page) + 1
      <4>1. SubSeq(page, 1, Len(page)) = page
        BY <1>a, SubSeqFull
      <4>2. i - 1 = Len(page)
        BY <3>3, <1>a
      <4> QED
        BY <3>2, <3>3, <4>1, <4>2, <1>a, <2>1, <2>2
    <3>4. CASE i # Len(page) + 1
      <4>1. i \in 1..Len(page)
        BY <3>1, <3>4, <1>a
      <4> QED
        BY <3>2, <4>1, <1>a, <2>1, <2>2, <2>3 DEF Stacked
    <3> QED
      BY <3>3, <3>4
  <2> QED
    BY <2>5, <2>6 DEF Stacked
<1>3. ASSUME NEW g \in Goals, TakesBack(g) PROVE Stacked'
  <2> DEFINE v == live[g]
  <2>1. /\ v \in Seq(Goals) /\ page = Append(v, g) /\ page' = v
        /\ live' = [live EXCEPT ![g] = Nobody] /\ Len(v) \in Nat
    BY <1>3, <1>a, LenProperties DEF TakesBack
  <2> HIDE DEF v
  <2>2. /\ Len(page) = Len(v) + 1 /\ page[Len(v) + 1] = g
        /\ \A i \in 1..Len(v) : page[i] = v[i]
    BY <2>1, AppendProperties
  <2>3. ASSUME NEW i \in 1..Len(v), v[i] = g PROVE FALSE
    <3>1. i \in 1..Len(page) /\ page[i] = g
      BY <2>1, <2>2, <2>3
    <3>2. v = SubSeq(page, 1, i - 1)
      BY <3>1 DEF Stacked, v
    <3>3. i - 1 \in Int /\ \A j \in 1..(i - 1) : page[j] \in Goals
      BY <1>a, <3>1
    <3>4. Len(SubSeq(page, 1, i - 1)) = IF 1 <= i - 1 THEN i - 1 - 1 + 1 ELSE 0
      BY <3>3, SubSeqProperties
    <3> QED
      BY <2>1, <3>2, <3>4
  <2>4. ASSUME NEW h \in Goals PROVE live'[h] # Nobody <=> \E i \in 1..Len(page') : page'[i] = h
    <3>1. CASE h = g
      BY <3>1, <1>a, <2>1, <2>3
    <3>2. CASE h # g
      <4>1. live'[h] = live[h]
        BY <3>2, <1>a, <2>1
      <4>2. (\E i \in 1..Len(page') : page'[i] = h) <=> \E i \in 1..Len(page) : page[i] = h
        BY <3>2, <2>1, <2>2
      <4> QED
        BY <4>1, <4>2 DEF Stacked
    <3> QED
      BY <3>1, <3>2
  <2>5. ASSUME NEW i \in 1..Len(page') PROVE live'[page'[i]] = SubSeq(page', 1, i - 1)
    <3>1. i \in 1..(Len(v) + 1) /\ i \in 1..Len(page) /\ i \in 1..Len(v)
      BY <2>1, <2>2
    <3>2. SubSeq(page, 1, i - 1) = SubSeq(v, 1, i - 1)
      BY <2>1, <3>1, BelowAppended
    <3>3. page'[i] = page[i] /\ page[i] # g /\ page[i] \in Goals
      BY <1>a, <2>1, <2>2, <2>3, <3>1
    <3>4. live'[page[i]] = live[page[i]]
      BY <3>3, <1>a, <2>1
    <3> QED
      BY <3>1, <3>2, <3>3, <3>4, <2>1 DEF Stacked
  <2> QED
    BY <2>4, <2>5 DEF Stacked
<1> QED
  BY <1>1, <1>2, <1>3, SiteMoves DEF TakesBack

LEMMA StackedInit == Init => Stacked
BY DEF Init, Stacked

\* The page is always the stack of the publications that are live on it, whichever
\* calls publish, reconcile, roll back or crash at the same time.
THEOREM PageIsAStack == Spec => []PageIsStack
<1>1. ASSUME RowTypeOK, Stacked PROVE PageIsStack
  <2>1. page \in Seq(Goals)
    BY <1>1 DEF RowTypeOK
  <2>2. \A g : g \in Range(page) <=> \E i \in 1..Len(page) : page[i] = g
    BY <2>1, LenProperties DEF Range
  <2> QED
    BY <1>1, <2>2 DEF Stacked, PageIsStack
<1>2. Init => TypeOK /\ OnePublisher /\ Stacked
  BY TypeInit, PublisherInit, StackedInit
<1>3. TypeOK /\ OnePublisher /\ Stacked /\ [Next]_vars => (TypeOK /\ OnePublisher /\ Stacked)'
  BY RowsNext, CallTypeNext, PublisherNext, StackedNext DEF TypeOK
<1>4. TypeOK /\ Stacked => PageIsStack
  BY <1>1 DEF TypeOK
<1> QED
  BY <1>2, <1>3, <1>4, PTL DEF Spec

-----------------------------------------------------------------------------
(* Who writes what.                                                        *)

\* Goals of runs are added and deleted by calls alone.
LEMMA GoalsFrame ==
  ASSUME [Next]_vars
  PROVE  \/ UNCHANGED <<goals, added>>
         \/ \E c \in Callers : AddGoal(c) \/ DeleteGoal(c)
<1> USE DEF storeVars, counterVars, siteVars
<1>1. ASSUME NEW c \in Callers, CallStep(c),
             ~AddGoal(c), ~DeleteGoal(c)
      PROVE  UNCHANGED <<goals, added>>
  BY <1>1, ZenonT(60)
  DEF CallStep, Authorize, Recheck, Refuse, Abort, MarkUnknown, BeginCreate, ContinueCreate,
      RejectDuplicate, ReconcileCreate, CompleteCreate, BeginPublish, ContinuePublish,
      CheckVersion, Install, ReconcilePublish, CompletePublish, Poll,
      SetTechnicalStatus, SetSemanticStatus, BeginCleanup, CleanPublicationStep,
      RollBack, MarkRolledBack, CleanGoalStep, MarkDeleted, FinishCleanup
<1>2. ASSUME ~((\E c \in Callers : CallStep(c)))
      PROVE  UNCHANGED <<goals, added>>
  BY <1>2, ZenonT(60)
  DEF Next, Crash, OpenCreate, OpenPublish, OpenVerify, OpenCleanup, OpenDecide,
      RegisterAuthority, AlterAuthority, RegisterReservation, SetOptimizationGate,
      SetKillSwitch, Expire, ForeignGoal, vars
<1> QED
  BY <1>1, <1>2, SMTT(30)

\* Candidates are recorded by a completed creation and then only judged.
LEMMA CandidateFrame ==
  ASSUME [Next]_vars
  PROVE  \/ UNCHANGED candidate
         \/ \E c \in Callers : CompleteCreate(c) \/ SetTechnicalStatus(c) \/ SetSemanticStatus(c)
         \/ \E g \in Goals, passed \in BOOLEAN : SetOptimizationGate(g, passed)
<1> USE DEF storeVars, counterVars, siteVars
<1>1. ASSUME NEW c \in Callers, CallStep(c),
             ~CompleteCreate(c), ~SetTechnicalStatus(c), ~SetSemanticStatus(c)
      PROVE  UNCHANGED candidate
  BY <1>1, ZenonT(60)
  DEF CallStep, Authorize, Recheck, Refuse, Abort, MarkUnknown, BeginCreate, ContinueCreate,
      RejectDuplicate, AddGoal, ReconcileCreate, BeginPublish, ContinuePublish,
      CheckVersion, Install, ReconcilePublish, CompletePublish, Poll, BeginCleanup,
      CleanPublicationStep, RollBack, MarkRolledBack, CleanGoalStep, DeleteGoal,
      MarkDeleted, FinishCleanup
<1>2. ASSUME ~(\/ \E c \in Callers : CallStep(c)
               \/ \E g \in Goals, passed \in BOOLEAN : SetOptimizationGate(g, passed))
      PROVE  UNCHANGED candidate
  BY <1>2, ZenonT(60)
  DEF Next, Crash, OpenCreate, OpenPublish, OpenVerify, OpenCleanup, OpenDecide,
      RegisterAuthority, AlterAuthority, RegisterReservation, SetKillSwitch, Expire,
      ForeignGoal, vars
<1> QED
  BY <1>1, <1>2

\* A claim lasts from the beginning of a creation to its abort or its cleanup.
LEMMA ClaimFrame ==
  ASSUME [Next]_vars
  PROVE  \/ UNCHANGED claim
         \/ \E c \in Callers : BeginCreate(c) \/ Abort(c) \/ FinishCleanup(c)
<1> USE DEF storeVars, counterVars, siteVars
<1>1. ASSUME NEW c \in Callers, CallStep(c),
             ~BeginCreate(c), ~Abort(c), ~FinishCleanup(c)
      PROVE  UNCHANGED claim
  BY <1>1, ZenonT(60)
  DEF CallStep, Authorize, Recheck, Refuse, MarkUnknown, ContinueCreate, RejectDuplicate, AddGoal,
      ReconcileCreate, CompleteCreate, BeginPublish, ContinuePublish, CheckVersion,
      Install, ReconcilePublish, CompletePublish, Poll, SetTechnicalStatus,
      SetSemanticStatus, BeginCleanup, CleanPublicationStep, RollBack, MarkRolledBack,
      CleanGoalStep, DeleteGoal, MarkDeleted
<1>2. ASSUME ~((\E c \in Callers : CallStep(c)))
      PROVE  UNCHANGED claim
  BY <1>2, ZenonT(60)
  DEF Next, Crash, OpenCreate, OpenPublish, OpenVerify, OpenCleanup, OpenDecide,
      RegisterAuthority, AlterAuthority, RegisterReservation, SetOptimizationGate,
      SetKillSwitch, Expire, ForeignGoal, vars
<1> QED
  BY <1>1, <1>2

\* Reservations are taken and used by creations.
LEMMA ReservationFrame ==
  ASSUME [Next]_vars
  PROVE  \/ UNCHANGED reservation
         \/ \E c \in Callers : BeginCreate(c) \/ Abort(c) \/ CompleteCreate(c)
         \/ \E x \in Reservations : RegisterReservation(x)
<1> USE DEF storeVars, counterVars, siteVars
<1>1. ASSUME NEW c \in Callers, CallStep(c),
             ~BeginCreate(c), ~Abort(c), ~CompleteCreate(c)
      PROVE  UNCHANGED reservation
  BY <1>1, ZenonT(60)
  DEF CallStep, Authorize, Recheck, Refuse, MarkUnknown, ContinueCreate, RejectDuplicate, AddGoal,
      ReconcileCreate, BeginPublish, ContinuePublish, CheckVersion, Install,
      ReconcilePublish, CompletePublish, Poll, SetTechnicalStatus, SetSemanticStatus,
      BeginCleanup, CleanPublicationStep, RollBack, MarkRolledBack, CleanGoalStep,
      DeleteGoal, MarkDeleted, FinishCleanup
<1>2. ASSUME ~((\E c \in Callers : CallStep(c)) \/ (\E x \in Reservations : RegisterReservation(x)))
      PROVE  UNCHANGED reservation
  BY <1>2
  DEF Next, Crash, OpenCreate, OpenPublish, OpenVerify, OpenCleanup, OpenDecide,
      RegisterAuthority, AlterAuthority, SetOptimizationGate, SetKillSwitch, Expire,
      ForeignGoal, vars
<1> QED
  BY <1>1, <1>2

\* The progress of a cleanup is written by cleanups.
LEMMA CleanupFrame ==
  ASSUME [Next]_vars
  PROVE  \/ UNCHANGED cleanup
         \/ \E c \in Callers : BeginCleanup(c) \/ MarkRolledBack(c) \/ MarkDeleted(c) \/ FinishCleanup(c)
<1> USE DEF storeVars, counterVars, siteVars
<1>1. ASSUME NEW c \in Callers, CallStep(c),
             ~BeginCleanup(c), ~MarkRolledBack(c), ~MarkDeleted(c), ~FinishCleanup(c)
      PROVE  UNCHANGED cleanup
  BY <1>1, ZenonT(60)
  DEF CallStep, Authorize, Recheck, Refuse, Abort, MarkUnknown, BeginCreate, ContinueCreate,
      RejectDuplicate, AddGoal, ReconcileCreate, CompleteCreate, BeginPublish,
      ContinuePublish, CheckVersion, Install, ReconcilePublish, CompletePublish, Poll,
      SetTechnicalStatus, SetSemanticStatus, CleanPublicationStep, RollBack,
      CleanGoalStep, DeleteGoal
<1>2. ASSUME ~((\E c \in Callers : CallStep(c)))
      PROVE  UNCHANGED cleanup
  BY <1>2, ZenonT(60)
  DEF Next, Crash, OpenCreate, OpenPublish, OpenVerify, OpenCleanup, OpenDecide,
      RegisterAuthority, AlterAuthority, RegisterReservation, SetOptimizationGate,
      SetKillSwitch, Expire, ForeignGoal, vars
<1> QED
  BY <1>1, <1>2

\* Publications are recorded when they complete and forgotten when they are cleaned up.
LEMMA PublicationFrame ==
  ASSUME [Next]_vars
  PROVE  \/ UNCHANGED publication
         \/ \E c \in Callers : CompletePublish(c) \/ FinishCleanup(c)
<1> USE DEF storeVars, counterVars, siteVars
<1>1. ASSUME NEW c \in Callers, CallStep(c),
             ~CompletePublish(c), ~FinishCleanup(c)
      PROVE  UNCHANGED publication
  BY <1>1, ZenonT(60)
  DEF CallStep, Authorize, Recheck, Refuse, Abort, MarkUnknown, BeginCreate, ContinueCreate,
      RejectDuplicate, AddGoal, ReconcileCreate, CompleteCreate, BeginPublish,
      ContinuePublish, CheckVersion, Install, ReconcilePublish, Poll,
      SetTechnicalStatus, SetSemanticStatus, BeginCleanup, CleanPublicationStep,
      RollBack, MarkRolledBack, CleanGoalStep, DeleteGoal, MarkDeleted
<1>2. ASSUME ~((\E c \in Callers : CallStep(c)))
      PROVE  UNCHANGED publication
  BY <1>2, ZenonT(60)
  DEF Next, Crash, OpenCreate, OpenPublish, OpenVerify, OpenCleanup, OpenDecide,
      RegisterAuthority, AlterAuthority, RegisterReservation, SetOptimizationGate,
      SetKillSwitch, Expire, ForeignGoal, vars
<1> QED
  BY <1>1, <1>2

\* Authorities are registered, altered, reserved, used and released.
LEMMA AuthorityFrame ==
  ASSUME [Next]_vars
  PROVE  \/ UNCHANGED authority
         \/ \E c \in Callers : BeginCreate(c) \/ Abort(c) \/ CompleteCreate(c) \/ BeginPublish(c) \/ CompletePublish(c)
         \/ \E a \in Authorities, p \in Principals : RegisterAuthority(a, p)
         \/ \E a \in Authorities, b \in Bindings : AlterAuthority(a, b)
<1> USE DEF storeVars, counterVars, siteVars
<1>1. ASSUME NEW c \in Callers, CallStep(c),
             ~BeginCreate(c), ~Abort(c), ~CompleteCreate(c), ~BeginPublish(c), ~CompletePublish(c)
      PROVE  UNCHANGED authority
  BY <1>1, ZenonT(60)
  DEF CallStep, Authorize, Recheck, Refuse, MarkUnknown, ContinueCreate, RejectDuplicate, AddGoal,
      ReconcileCreate, ContinuePublish, CheckVersion, Install, ReconcilePublish, Poll,
      SetTechnicalStatus, SetSemanticStatus, BeginCleanup, CleanPublicationStep,
      RollBack, MarkRolledBack, CleanGoalStep, DeleteGoal, MarkDeleted, FinishCleanup
<1>2. ASSUME ~(\/ \E c \in Callers : CallStep(c)
               \/ \E a \in Authorities, p \in Principals : RegisterAuthority(a, p)
               \/ \E a \in Authorities, b \in Bindings : AlterAuthority(a, b))
      PROVE  UNCHANGED authority
  BY <1>2, ZenonT(60)
  DEF Next, Crash, OpenCreate, OpenPublish, OpenVerify, OpenCleanup, OpenDecide,
      RegisterReservation, SetOptimizationGate, SetKillSwitch, Expire, ForeignGoal, vars
<1> QED
  BY <1>1, <1>2

-----------------------------------------------------------------------------
(* Creation.  Between the transaction that begins a creation and its       *)
(* answer one call creates a run's goal, and the run has none.             *)

CreatePoints == {"duplicate", "authorize", "recheck", "add", "abort"}
Creating(c, g) == call[c].pc \in CreatePoints /\ KeyOf(c) = Create(g)
Matched(c, g) == call[c].pc = "complete" /\ KeyOf(c) = Create(g)
Seen(c, g) == call[c].pc = "complete" /\ KeyOf(c) = Publish(g)
GoalId(g) == <<g, 1>>

LEMMA CreatorMoves ==
  ASSUME TypeOK, [Next]_vars, NEW d \in Callers, NEW g \in Goals, Creating(d, g)'
  PROVE  /\ call'[d].authority = call[d].authority
         /\ Creating(d, g) \/ (BeginCreate(d) /\ GoalOf(d) = g)
<1> USE DEF Creating, CreatePoints, KeyOf, GoalOf
<1>a. CallTypeOK
  BY DEF TypeOK
<1>1. CASE call'[d] = call[d]
  BY <1>1
<1>2. CASE call'[d] # call[d]
  <2>1. ~Crash(d)
    BY ReturnEnds DEF Crash
  <2>2. ~(\E h \in Goals : Opens(d, h))
    BY OpenStarts DEF Reading
  <2>3. CallStep(d)
    BY <1>2, <2>1, <2>2, WhoseStep
  <2>4. ~( \/ Refuse(d) \/ Abort(d) \/ MarkUnknown(d) \/ CompleteCreate(d)
           \/ CompletePublish(d) \/ SetTechnicalStatus(d) \/ SetSemanticStatus(d)
           \/ FinishCleanup(d) )
    BY ReturnEnds
    DEF Refuse, Abort, MarkUnknown, CompleteCreate, CompletePublish,
        SetTechnicalStatus, SetSemanticStatus, FinishCleanup
  <2>5. CASE Authorize(d) \/ Recheck(d)
    <3>1. PICK p : Goto(d, p)
      BY <2>5 DEF Authorize, Recheck
    <3>2. call[d].pc \in {"authorize", "recheck"}
      BY <2>5 DEF Authorize, Recheck
    <3> QED
      BY <3>1, <3>2, GotoKeeps
  <2>6. CASE BeginPublish(d) \/ ContinuePublish(d) \/ CheckVersion(d) \/ Install(d)
             \/ ReconcilePublish(d)
    <3>1. call[d].key = Publish(GoalOf(d)) /\ GoalOf(d) \in Goals
      BY <2>6, <1>a, WayOf, WayAt, Keys
      DEF BeginPublish, ContinuePublish, CheckVersion, Install, ReconcilePublish, Publishes
    <3>2. \/ \E p : Goto(d, p)
          \/ Return(d)
          \/ \E f : call' = [call EXCEPT ![d].pc = "complete", ![d].found = f]
      BY <2>6
      DEF BeginPublish, ContinuePublish, CheckVersion, Install, ReconcilePublish, Goto
    <3>3. call'[d].key \in {call[d].key, Nobody}
      BY <3>2, GotoKeeps, ReturnEnds, FoundKeeps DEF NoCall
    <3> QED
      BY <3>1, <3>3, Keys, SMTT(30)
  <2>7. CASE BeginCreate(d)
    <3>1. Goto(d, "duplicate") /\ Creates(d, GoalOf(d)) /\ GoalOf(d) \in Goals
      BY <2>7, <1>a, WayOf, WayAt DEF BeginCreate
    <3>2. call'[d].key = call[d].key /\ call'[d].authority = call[d].authority
      BY <3>1, GotoKeeps
    <3>3. GoalOf(d) = g
      BY <3>1, <3>2, Keys, ZenonT(60) DEF Creates
    <3> QED
      BY <2>7, <3>2, <3>3
  <2>8. CASE ContinueCreate(d)
    <3>1. Return(d) \/ Goto(d, "refuse") \/ Goto(d, "reconcile")
      BY <2>8 DEF ContinueCreate, Continuation
    <3> QED
      BY <3>1, GotoKeeps, ReturnEnds
  <2>9. CASE RejectDuplicate(d)
    <3>1. PICK p : Goto(d, p)
      BY <2>9 DEF RejectDuplicate
    <3>2. call[d].pc = "duplicate"
      BY <2>9 DEF RejectDuplicate
    <3> QED
      BY <3>1, <3>2, GotoKeeps
  <2>10. CASE AddGoal(d)
    <3>1. \/ Goto(d, "reconcile")
          \/ \E f : call' = [call EXCEPT ![d].pc = "complete", ![d].found = f]
      BY <2>10 DEF AddGoal, LostAnswer, Goto
    <3> QED
      BY <3>1, GotoKeeps, FoundKeeps
  <2>11. CASE ReconcileCreate(d)
    <3>1. \/ Goto(d, "unknown")
          \/ \E f : call' = [call EXCEPT ![d].pc = "complete", ![d].found = f]
      BY <2>11 DEF ReconcileCreate, Goto
    <3> QED
      BY <3>1, GotoKeeps, FoundKeeps
  <2>12. CASE Poll(d) \/ BeginCleanup(d)
    BY <2>12, PollMoves, BeginCleanupMoves, ReturnEnds
  <2>13. CASE CleanPublicationStep(d) \/ RollBack(d) \/ CleanGoalStep(d) \/ DeleteGoal(d)
              \/ MarkDeleted(d)
    <3>1. call[d].key \in {CleanPublication(GoalOf(d)), CleanGoal(GoalOf(d))}
          /\ GoalOf(d) \in Goals
      BY <2>13, <1>a, WayOf, WayAt
      DEF CleanPublicationStep, RollBack, CleanGoalStep, DeleteGoal, MarkDeleted,
          RollsBack, Deletes
    <3>2. PICK p : Goto(d, p)
      BY <2>13
      DEF CleanPublicationStep, RollBack, CleanGoalStep, DeleteGoal, MarkDeleted
    <3>3. call'[d].key = call[d].key
      BY <3>2, GotoKeeps
    <3> QED
      BY <3>1, <3>3, Keys
  <2>14. CASE MarkRolledBack(d)
    BY <2>14, MarkRolledBackMoves
  <2> QED
    BY <2>3, <2>4, <2>5, <2>6, <2>7, <2>8, <2>9, <2>10, <2>11, <2>12, <2>13, <2>14
    DEF CallStep
<1> QED
  BY <1>1, <1>2

\* Only the four answers that found something lead to the completion.
LEMMA AnswerMoves ==
  ASSUME TypeOK, [Next]_vars, NEW d \in Callers, call'[d].pc = "complete",
         call'[d] # call[d]
  PROVE  /\ AddGoal(d) \/ ReconcileCreate(d) \/ Install(d) \/ ReconcilePublish(d)
         /\ GoalOf(d) \in Goals /\ call'[d].key = call[d].key
         /\ call' = [call EXCEPT ![d].pc = "complete", ![d].found = call'[d].found]
<1>a. CallTypeOK
  BY DEF TypeOK
<1>1. ~Crash(d)
  BY ReturnEnds DEF Crash
<1>2. ~(\E h \in Goals : Opens(d, h))
  BY OpenStarts DEF Reading
<1>3. CallStep(d)
  BY <1>1, <1>2, WhoseStep
<1>4. ~( \/ Refuse(d) \/ Abort(d) \/ MarkUnknown(d) \/ CompleteCreate(d)
         \/ CompletePublish(d) \/ SetTechnicalStatus(d) \/ SetSemanticStatus(d)
         \/ FinishCleanup(d) )
  BY ReturnEnds
  DEF Refuse, Abort, MarkUnknown, CompleteCreate, CompletePublish,
      SetTechnicalStatus, SetSemanticStatus, FinishCleanup
<1>5. ASSUME NEW p, Goto(d, p) PROVE p = "complete"
  BY <1>5, GotoKeeps
<1>6. ~(Authorize(d) \/ Recheck(d))
  <2>1. ASSUME Authorize(d) \/ Recheck(d) PROVE FALSE
    <3>1. call[d].refused # "complete" /\ call[d].write # "complete"
      BY <1>a, <2>1, WayOf DEF Authorize, Recheck, Creates, Publishes, RollsBack, Deletes
    <3> QED
      BY <1>5, <2>1, <3>1 DEF Authorize, Recheck
  <2> QED
    BY <2>1
<1>7. ~( \/ BeginCreate(d) \/ ContinueCreate(d) \/ RejectDuplicate(d) \/ BeginPublish(d)
         \/ ContinuePublish(d) \/ CheckVersion(d) )
  BY <1>5, ReturnEnds
  DEF BeginCreate, ContinueCreate, RejectDuplicate, BeginPublish, ContinuePublish,
      CheckVersion, Continuation
<1>8. ~( \/ CleanPublicationStep(d) \/ RollBack(d) \/ CleanGoalStep(d) \/ DeleteGoal(d)
         \/ MarkDeleted(d) )
  BY <1>5 DEF CleanPublicationStep, RollBack, CleanGoalStep, DeleteGoal, MarkDeleted
<1>9. ~(Poll(d) \/ BeginCleanup(d) \/ MarkRolledBack(d))
  BY PollMoves, BeginCleanupMoves, MarkRolledBackMoves, ReturnEnds
<1>10. AddGoal(d) \/ ReconcileCreate(d) \/ Install(d) \/ ReconcilePublish(d)
  BY <1>3, <1>4, <1>6, <1>7, <1>8, <1>9 DEF CallStep
<1>11. GoalOf(d) \in Goals
  BY <1>a, <1>10, WayAt DEF AddGoal, ReconcileCreate, Install, ReconcilePublish
<1>12. PICK f : call' = [call EXCEPT ![d].pc = "complete", ![d].found = f]
  BY <1>5, <1>10
  DEF AddGoal, ReconcileCreate, Install, ReconcilePublish, LostAnswer, Goto
<1> QED
  BY <1>10, <1>11, <1>12, FoundKeeps, ZenonT(60)

LEMMA MatchMoves ==
  ASSUME TypeOK, [Next]_vars, NEW d \in Callers, NEW g \in Goals, Matched(d, g)'
  PROVE  \/ Matched(d, g) /\ call'[d].found = call[d].found
         \/ AddGoal(d) /\ Creating(d, g) /\ GoalOf(d) = g
            /\ call'[d].found = <<g, added[g] + 1>>
         \/ ReconcileCreate(d) /\ GoalOf(d) = g /\ call'[d].found \in goals
            /\ SignatureOf[call'[d].found[1]] = SignatureOf[g]
<1>a. CallTypeOK
  BY DEF TypeOK
<1>1. CASE call'[d] = call[d]
  BY <1>1 DEF Matched, KeyOf
<1>2. CASE call'[d] # call[d]
  <2>1. /\ AddGoal(d) \/ ReconcileCreate(d) \/ Install(d) \/ ReconcilePublish(d)
        /\ GoalOf(d) \in Goals /\ call[d].key = Create(g)
        /\ call' = [call EXCEPT ![d].pc = "complete", ![d].found = call'[d].found]
    BY <1>2, AnswerMoves, SMTT(30) DEF Matched, KeyOf
  <2>2. Creates(d, GoalOf(d)) /\ GoalOf(d) = g
    BY <1>a, <2>1, WayOf, Keys, ZenonT(60)
    DEF AddGoal, ReconcileCreate, Install, ReconcilePublish, Creates, Publishes
  <2>3. ~(Install(d) \/ ReconcilePublish(d))
    BY <1>a, <2>1, <2>2, WayOf, Keys DEF Install, ReconcilePublish, Publishes, KeyOf
  <2>4. CASE AddGoal(d)
    <3>1. timeouts # "creation"
      BY <2>4, GotoKeeps DEF AddGoal, LostAnswer, Goto, Matched
    <3>2. call' = [call EXCEPT ![d].pc = "complete", ![d].found = <<g, added[g] + 1>>]
      BY <2>2, <2>4, <3>1 DEF AddGoal
    <3>3. call'[d].found = <<g, added[g] + 1>>
      BY <3>2, FoundKeeps
    <3> QED
      BY <2>1, <2>2, <2>4, <3>3 DEF Creating, CreatePoints, KeyOf, AddGoal
  <2>5. CASE ReconcileCreate(d)
    <3>1. PICK goal \in goals :
            /\ SignatureOf[goal[1]] = SignatureOf[g]
            /\ call' = [call EXCEPT ![d].pc = "complete", ![d].found = goal]
      BY <2>2, <2>5, GotoKeeps DEF ReconcileCreate, Matched
    <3>2. call'[d].found = goal
      BY <3>1, FoundKeeps
    <3> QED
      BY <2>2, <2>5, <3>1, <3>2
  <2> QED
    BY <2>1, <2>3, <2>4, <2>5
<1> QED
  BY <1>1, <1>2

LEMMA SeenMoves ==
  ASSUME TypeOK, [Next]_vars, NEW d \in Callers, NEW g \in Goals, Seen(d, g)'
  PROVE  \/ Seen(d, g) /\ call'[d].found = call[d].found
         \/ Publishing(d, g) /\ live' = [live EXCEPT ![g] = call'[d].found]
            /\ UNCHANGED execution
         \/ ReconcilePublish(d) /\ live[g] # Nobody /\ call'[d].found = live[g]
<1>a. CallTypeOK
  BY DEF TypeOK
<1>1. CASE call'[d] = call[d]
  BY <1>1 DEF Seen, KeyOf
<1>2. CASE call'[d] # call[d]
  <2>1. /\ AddGoal(d) \/ ReconcileCreate(d) \/ Install(d) \/ ReconcilePublish(d)
        /\ GoalOf(d) \in Goals /\ call[d].key = Publish(g)
        /\ call' = [call EXCEPT ![d].pc = "complete", ![d].found = call'[d].found]
    BY <1>2, AnswerMoves DEF Seen, KeyOf
  <2>2. Publishes(d, GoalOf(d)) /\ GoalOf(d) = g
    BY <1>a, <2>1, WayOf, Keys, ZenonT(60)
    DEF AddGoal, ReconcileCreate, Install, ReconcilePublish, Creates, Publishes
  <2>3. ~(AddGoal(d) \/ ReconcileCreate(d))
    BY <1>a, <2>1, <2>2, WayOf, Keys DEF AddGoal, ReconcileCreate, Creates, KeyOf
  <2>4. CASE Install(d)
    <3>1. StillExpected(call[d].version) /\ timeouts # "publication"
      <4>1. ~Goto(d, "abort") /\ ~Goto(d, "reconcile")
        BY GotoKeeps DEF Seen
      <4> QED
        BY <2>4, <4>1 DEF Install, LostAnswer, Goto
    <3>2. /\ call' = [call EXCEPT ![d].pc = "complete", ![d].found = call[d].version]
          /\ live' = [live EXCEPT ![g] = call[d].version] /\ UNCHANGED execution
      BY <2>2, <2>4, <3>1 DEF Install, storeVars
    <3>3. call'[d].found = call[d].version
      BY <3>2, FoundKeeps
    <3> QED
      BY <2>1, <2>4, <3>2, <3>3 DEF Publishing, PublishPoints, KeyOf, Install
  <2>5. CASE ReconcilePublish(d)
    <3>1. live[g] # Nobody
      BY <2>2, <2>5, GotoKeeps DEF ReconcilePublish, Seen, Goto
    <3>2. call' = [call EXCEPT ![d].pc = "complete", ![d].found = live[g]]
      BY <2>2, <2>5, <3>1 DEF ReconcilePublish
    <3>3. call'[d].found = live[g]
      BY <3>2, FoundKeeps
    <3> QED
      BY <2>5, <3>1, <3>3
  <2> QED
    BY <2>1, <2>3, <2>4, <2>5, SMTT(30)
<1> QED
  BY <1>1, <1>2

-----------------------------------------------------------------------------
(* Cleanup.  A call that cleans has read a rejected candidate; once it is  *)
(* sure of the deletion the goal is gone.                                  *)

Rejected(g) == candidate[g] # Nobody /\ candidate[g].status = "REJECTED"
Cleaning(c, g) ==
  /\ GoalOf(c) = g
  /\ call[c].pc = "begin cleanup" \/ KeyOf(c) \in {CleanPublication(g), CleanGoal(g)}
Confirmed(c) == \/ call[c].pc \in {"mark deleted", "finish cleanup"}
                \/ call[c].pc # "begin cleanup" /\ call[c].deleted

LEMMA CleaningMoves ==
  ASSUME TypeOK, [Next]_vars, NEW d \in Callers, NEW g \in Goals, Cleaning(d, g)'
  PROVE  /\ Cleaning(d, g) \/ (call'[d].pc = "begin cleanup" /\ Rejected(g))
         /\ Confirmed(d)' =>
              \/ Cleaning(d, g) /\ Confirmed(d)
              \/ CleanGoalStep(d) /\ GoalOf(d) = g /\ candidate[g].goal \notin goals
              \/ DeleteGoal(d) /\ GoalOf(d) = g
              \/ BeginCleanup(d) /\ cleanup[g] # Nobody /\ cleanup[g].deleted
<1>a. CallTypeOK /\ CallTypeOK'
  BY CallTypeNext DEF TypeOK
<1>b. /\ call'[d].goal = g /\ call'[d].key \in {CleanPublication(g), CleanGoal(g), Nobody}
      /\ call'[d].key = Nobody <=> call'[d].pc = "begin cleanup"
      /\ call'[d].pc # "idle"
  <2>1. call'[d] # NoCall
    <3>1. call'[d].goal # Nobody
      BY Blank DEF Cleaning, GoalOf
    <3>2. NoCall.goal = Nobody
      BY DEF NoCall
    <3> QED
      BY <3>1, <3>2
  <2>2. Way(d)'
    BY <1>a, <2>1 DEF CallTypeOK
  <2>3. CASE call'[d].pc = "begin cleanup"
    <3>1. PICK h \in Goals : Reads(d, h)'
      BY <2>2, <2>3
      DEF Way, Creates, Publishes, RollsBack, Deletes, Creation, Publication, RollingBack,
          Deleting, Shared
    <3> QED
      BY <2>3, <3>1 DEF Reads, Cleaning, GoalOf
  <2>4. CASE call'[d].pc # "begin cleanup"
    <3>1. call'[d].goal = g /\ call'[d].key \in {CleanPublication(g), CleanGoal(g)}
      BY <2>4 DEF Cleaning, KeyOf, GoalOf
    <3>2. CleanPublication(g) # Nobody /\ CleanGoal(g) # Nobody
      BY Keys
    <3>3. call'[d].pc # "idle"
      BY <2>2
      DEF Way, Creates, Publishes, RollsBack, Deletes, Reads, Creation, Publication,
          RollingBack, Deleting, Shared, Reading
    <3> QED
      BY <2>4, <3>1, <3>2, <3>3
  <2> QED
    BY <2>3, <2>4
<1>1. CASE call'[d] = call[d]
  BY <1>1 DEF Cleaning, Confirmed, KeyOf, GoalOf
<1>2. CASE call'[d] # call[d]
  <2>1. ~Crash(d)
    BY <1>b, ReturnEnds DEF Crash
  <2>2. CASE \E h \in Goals : Opens(d, h)
    <3>1. PICK h \in Goals : Opens(d, h)
      BY <2>2
    <3>2. call'[d].pc \in {"create", "publish"} \cup Reading /\ h = g
          /\ (call'[d].pc = "begin cleanup" =>
                candidate[h] # Nobody /\ candidate[h].status = "REJECTED")
      BY <1>b, <3>1, OpenStarts
    <3>3. call'[d].pc = "begin cleanup"
      <4>1. call'[d] = NoCall \/ Way(d)'
        BY <1>a DEF CallTypeOK
      <4>2. Way(d)'
        <5>1. NoCall.pc = "idle"
          BY DEF NoCall
        <5> QED
          BY <1>b, <4>1, <5>1
      <4> QED
        BY <1>b, <3>2, <4>2, Keys
        DEF Way, Creates, Publishes, RollsBack, Deletes, Reads, RollingBack, Deleting, Reading
    <3> QED
      BY <3>2, <3>3 DEF Rejected, Confirmed
  <2>3. CASE CallStep(d)
    <3>1. ~( \/ Refuse(d) \/ Abort(d) \/ MarkUnknown(d) \/ CompleteCreate(d)
             \/ CompletePublish(d) \/ SetTechnicalStatus(d) \/ SetSemanticStatus(d)
             \/ FinishCleanup(d) )
      BY <1>b, ReturnEnds
      DEF Refuse, Abort, MarkUnknown, CompleteCreate, CompletePublish,
          SetTechnicalStatus, SetSemanticStatus, FinishCleanup
    <3>2. ASSUME NEW p, Goto(d, p), call[d].pc \notin Reading, GoalOf(d) \in Goals
          PROVE  /\ p # "begin cleanup" => Cleaning(d, g)
                 /\ call'[d].pc = p /\ call'[d].deleted = call[d].deleted /\ GoalOf(d) = g
      <4>1. /\ call'[d].pc = p /\ call'[d].key = call[d].key /\ call'[d].goal = call[d].goal
            /\ call'[d].deleted = call[d].deleted
        BY <3>2, GotoKeeps
      <4> QED
        BY <1>b, <4>1 DEF Cleaning, KeyOf, GoalOf
    <3>3. CASE Authorize(d) \/ Recheck(d)
      <4>1. /\ call[d].pc \in {"authorize", "recheck"} /\ GoalOf(d) \in Goals
            /\ call[d].refused \in {"abort", "refuse"}
            /\ call[d].write \in {"add", "install", "roll back", "delete"}
        BY <1>a, <3>3, WayOf, WayAt
        DEF Authorize, Recheck, Creates, Publishes, RollsBack, Deletes
      <4>2. PICK p \in {"abort", "refuse", "recheck", "add", "install", "roll back", "delete"} :
              Goto(d, p)
        BY <3>3, <4>1 DEF Authorize, Recheck
      <4> QED
        BY <3>2, <4>1, <4>2 DEF Confirmed, Reading
    <3>4. CASE \/ BeginCreate(d) \/ ContinueCreate(d) \/ RejectDuplicate(d) \/ AddGoal(d)
               \/ ReconcileCreate(d) \/ BeginPublish(d) \/ ContinuePublish(d)
               \/ CheckVersion(d) \/ Install(d) \/ ReconcilePublish(d)
      <4>1. call[d].key \in {Create(GoalOf(d)), Publish(GoalOf(d))} /\ GoalOf(d) \in Goals
        BY <1>a, <3>4, WayOf, WayAt, Keys
        DEF BeginCreate, ContinueCreate, RejectDuplicate, AddGoal, ReconcileCreate,
            BeginPublish, ContinuePublish, CheckVersion, Install, ReconcilePublish,
            Creates, Publishes, KeyOf
      <4>2. \/ \E p : Goto(d, p)
            \/ Return(d)
            \/ \E f : call' = [call EXCEPT ![d].pc = "complete", ![d].found = f]
        <5>1. CASE \/ BeginCreate(d) \/ ContinueCreate(d) \/ RejectDuplicate(d) \/ AddGoal(d)
                   \/ ReconcileCreate(d)
          BY <5>1
          DEF BeginCreate, ContinueCreate, RejectDuplicate, AddGoal, ReconcileCreate, Goto
        <5>2. CASE \/ BeginPublish(d) \/ ContinuePublish(d) \/ CheckVersion(d) \/ Install(d)
                   \/ ReconcilePublish(d)
          BY <5>2
          DEF BeginPublish, ContinuePublish, CheckVersion, Install, ReconcilePublish, Goto
        <5> QED
          BY <3>4, <5>1, <5>2
      <4>3. call'[d].key = call[d].key
        <5>1. ASSUME NEW p, Goto(d, p) PROVE call'[d].key = call[d].key
          BY <5>1, GotoKeeps
        <5>2. ASSUME NEW f, call' = [call EXCEPT ![d].pc = "complete", ![d].found = f]
              PROVE  call'[d].key = call[d].key
          BY <5>2, FoundKeeps
        <5>3. ~Return(d)
          BY <1>b, ReturnEnds
        <5> QED
          BY <4>2, <5>1, <5>2, <5>3
      <4> QED
        BY <1>b, <4>1, <4>3, Keys, ZenonT(60)
    <3>5. ~Poll(d)
      <4>1. ASSUME Poll(d) PROVE FALSE
        <5>1. call'[d].pc = "verdict"
          BY <1>b, <4>1, PollMoves, ReturnEnds
        <5>2. call'[d] = NoCall \/ Way(d)'
          BY <1>a, SMTT(30) DEF CallTypeOK
        <5> QED
          BY <1>b, <5>1, <5>2, Keys
          DEF NoCall, Way, Creates, Publishes, RollsBack, Deletes, Reads, Creation,
              Publication, RollingBack, Deleting, Shared
      <4> QED
        BY <4>1
    <3>6. CASE BeginCleanup(d)
      BY <1>b, <3>6, BeginCleanupMoves, ReturnEnds DEF BeginCleanup, Cleaning, Confirmed, GoalOf
    <3>7. CASE CleanPublicationStep(d) \/ RollBack(d)
      <4>1. PICK p \in {"mark rolled back", "authorize", "refuse"} : Goto(d, p)
        BY <3>7 DEF CleanPublicationStep, RollBack
      <4>2. GoalOf(d) \in Goals /\ call[d].pc \notin Reading /\ call[d].pc # "begin cleanup"
        BY <1>a, <3>7, WayAt DEF CleanPublicationStep, RollBack, Reading
      <4> QED
        BY <3>2, <4>1, <4>2 DEF Confirmed
    <3>8. CASE CleanGoalStep(d)
      <4>1. GoalOf(d) \in Goals /\ call[d].pc = "clean goal"
        BY <1>a, <3>8, WayAt DEF CleanGoalStep
      <4>2. PICK p \in {"finish cleanup", "authorize", "mark deleted"} :
              /\ Goto(d, p)
              /\ p = "finish cleanup" => call[d].deleted
              /\ p = "mark deleted" => candidate[GoalOf(d)].goal \notin goals
        BY <3>8 DEF CleanGoalStep
      <4>3. /\ GoalOf(d) = g /\ Cleaning(d, g) /\ call'[d].deleted = call[d].deleted
            /\ call'[d].pc = p
        BY <3>2, <4>1, <4>2 DEF Reading
      <4>4. ASSUME Confirmed(d)'
            PROVE  call[d].deleted \/ candidate[g].goal \notin goals
        BY <4>2, <4>3, <4>4 DEF Confirmed
      <4> QED
        BY <3>8, <4>1, <4>3, <4>4 DEF Confirmed
    <3>9. CASE DeleteGoal(d) \/ MarkDeleted(d)
      <4>1. GoalOf(d) \in Goals /\ call[d].pc \in {"delete", "mark deleted"}
        BY <1>a, <3>9, WayAt DEF DeleteGoal, MarkDeleted
      <4>2. PICK p \in {"finish cleanup", "mark deleted"} :
              Goto(d, p) /\ (DeleteGoal(d) \/ call[d].pc = "mark deleted")
        BY <3>9 DEF DeleteGoal, MarkDeleted
      <4>3. GoalOf(d) = g /\ Cleaning(d, g)
        BY <3>2, <4>1, <4>2 DEF Reading
      <4> QED
        BY <4>1, <4>2, <4>3 DEF Confirmed
    <3>10. CASE MarkRolledBack(d)
      <4>1. Cleaning(d, g) /\ call[d].pc = "mark rolled back"
        <5>1. /\ call'[d].goal = GoalOf(d) /\ call[d].pc = "mark rolled back"
              /\ RollsBack(d, GoalOf(d))
          BY <1>a, <3>10, MarkRolledBackMoves, WayOf DEF MarkRolledBack
        <5> QED
          BY <1>b, <5>1 DEF Cleaning, RollsBack, KeyOf
      <4>2. call'[d].pc = "clean goal" /\ call'[d].deleted = call[d].deleted
        BY <3>10, MarkRolledBackMoves
      <4> QED
        BY <4>1, <4>2 DEF Confirmed
    <3> QED
      BY <2>3, <3>1, <3>3, <3>4, <3>5, <3>6, <3>7, <3>8, <3>9, <3>10 DEF CallStep
  <2> QED
    BY <1>2, <2>1, <2>2, <2>3, WhoseStep
<1> QED
  BY <1>1, <1>2

-----------------------------------------------------------------------------
(* How the rows of one run move.                                           *)

\* What makes a completion of a creation take effect.
LEMMA CompleteEffect ==
  ASSUME TypeOK, NEW c \in Callers, CompleteCreate(c)
  PROVE  /\ GoalOf(c) \in Goals /\ Matched(c, GoalOf(c)) /\ Creates(c, GoalOf(c))
         /\ \/ UNCHANGED <<candidate, authority, reservation, execution>>
            \/ /\ Reconcilable(Create(GoalOf(c)))
               /\ HeldBy(call[c].authority, Create(GoalOf(c)))
               /\ reservation[ReservationOf[GoalOf(c)]] =
                    [status |-> "RESERVED", key |-> Create(GoalOf(c))]
               /\ candidate' = IF candidate[GoalOf(c)] # Nobody THEN candidate
                    ELSE [candidate EXCEPT ![GoalOf(c)] =
                            [goal |-> call[c].found, status |-> "CANDIDATE",
                             technical |-> "PENDING", gate |-> FALSE]]
               /\ authority' = FinishedAuthority(call[c].authority)
               /\ reservation' = [reservation EXCEPT ![ReservationOf[GoalOf(c)]].status = "USED"]
               /\ execution' = [execution EXCEPT ![Create(GoalOf(c))].status = "APPLIED"]
<1>1. call[c].pc = "complete" /\ KeyOf(c) = Create(GoalOf(c)) /\ CallTypeOK
  BY DEF CompleteCreate, TypeOK
<1>2. GoalOf(c) \in Goals /\ (Creates(c, GoalOf(c)) \/ Publishes(c, GoalOf(c)))
  BY <1>1, WayOf, WayAt
<1>3. Creates(c, GoalOf(c))
  BY <1>1, <1>2, Keys DEF Publishes, KeyOf
<1> QED
  BY <1>1, <1>2, <1>3 DEF CompleteCreate, Matched

\* A candidate appears when its creation completes; afterwards only its statuses move,
\* and a rejection is final.
LEMMA CandidateMoves ==
  ASSUME TypeOK, [Next]_vars, NEW g \in Goals, candidate'[g] # candidate[g]
  PROVE  \/ /\ candidate[g] = Nobody /\ candidate'[g] # Nobody
            /\ \E c \in Callers :
                 /\ Matched(c, g) /\ candidate'[g].goal = call[c].found
                 /\ Reconcilable(Create(g)) /\ execution'[Create(g)].status = "APPLIED"
                 /\ UNCHANGED <<goals, added>>
         \/ /\ candidate[g] # Nobody /\ candidate'[g] # Nobody
            /\ candidate'[g].goal = candidate[g].goal
            /\ candidate[g].status = "REJECTED" => candidate'[g].status = "REJECTED"
            /\ UNCHANGED <<goals, added, execution>>
<1>a. CallTypeOK /\ candidate \in [Goals -> CandidateRow \cup {Nobody}]
      /\ execution \in [ExecutionKeys -> ExecutionRow]
  BY DEF TypeOK, RowTypeOK
<1>1. ASSUME NEW c \in Callers, CompleteCreate(c)
      PROVE  /\ candidate[g] = Nobody /\ candidate'[g] # Nobody
             /\ Matched(c, g) /\ candidate'[g].goal = call[c].found
             /\ Reconcilable(Create(g)) /\ execution'[Create(g)].status = "APPLIED"
             /\ UNCHANGED <<goals, added>>
  <2> DEFINE row == [goal |-> call[c].found, status |-> "CANDIDATE",
                     technical |-> "PENDING", gate |-> FALSE]
  <2>1. /\ GoalOf(c) \in Goals /\ Matched(c, GoalOf(c)) /\ Creates(c, GoalOf(c))
        /\ candidate[GoalOf(c)] = Nobody
        /\ candidate' = [candidate EXCEPT ![GoalOf(c)] = row]
        /\ Reconcilable(Create(GoalOf(c)))
        /\ execution' = [execution EXCEPT ![Create(GoalOf(c))].status = "APPLIED"]
    BY <1>1, CompleteEffect
  <2>2. g = GoalOf(c) /\ candidate'[g] = row
    BY <1>a, <2>1
  <2>3. call[c].found \in GoalIds
    BY <2>1 DEF Creates, Matched
  <2>4. row \in CandidateRow /\ row.goal = call[c].found
    BY <2>3 DEF CandidateRow, GoalIds
  <2>5. Create(g) \in ExecutionKeys
    BY Keys
  <2>6. execution[Create(g)] \in ExecutionRow
    BY <1>a, <2>5
  <2>7. execution'[Create(g)].status = "APPLIED"
    BY <1>a, <2>1, <2>2, <2>5, <2>6 DEF ExecutionRow
  <2> QED
    BY <1>1, <2>1, <2>2, <2>4, <2>7, Blank DEF CompleteCreate, counterVars
<1>2. ASSUME NEW h \in Goals, candidate[h] # Nobody,
             UNCHANGED <<goals, added, execution>>,
             \/ \E t \in {"VERIFIED", "INCONCLUSIVE", "PENDING"} :
                  candidate' = [candidate EXCEPT ![h].technical = t]
             \/ \E s \in {"APPROVED", "REJECTED"} :
                  candidate[h].status = "CANDIDATE"
                  /\ candidate' = [candidate EXCEPT ![h].status = s]
             \/ \E p \in BOOLEAN : candidate' = [candidate EXCEPT ![h].gate = p]
      PROVE  /\ candidate[g] # Nobody /\ candidate'[g] # Nobody
             /\ candidate'[g].goal = candidate[g].goal
             /\ candidate[g].status = "REJECTED" => candidate'[g].status = "REJECTED"
  <2>1. g = h /\ candidate[g] \in CandidateRow
    BY <1>a, <1>2
  <2>2. CASE \E t \in {"VERIFIED", "INCONCLUSIVE", "PENDING"} :
               candidate' = [candidate EXCEPT ![h].technical = t]
    <3>1. PICK t \in {"VERIFIED", "INCONCLUSIVE", "PENDING"} :
            candidate'[g] = [candidate[g] EXCEPT !.technical = t]
      BY <1>a, <2>1, <2>2
    <3>2. /\ candidate'[g] \in CandidateRow /\ candidate'[g].goal = candidate[g].goal
          /\ candidate'[g].status = candidate[g].status
      BY <2>1, <3>1 DEF CandidateRow
    <3> QED
      BY <1>2, <2>1, <3>2, Blank
  <2>3. CASE \E s \in {"APPROVED", "REJECTED"} :
               candidate[h].status = "CANDIDATE"
               /\ candidate' = [candidate EXCEPT ![h].status = s]
    <3>1. PICK s \in {"APPROVED", "REJECTED"} :
            candidate'[g] = [candidate[g] EXCEPT !.status = s]
      BY <1>a, <2>1, <2>3
    <3>2. candidate'[g] \in CandidateRow /\ candidate'[g].goal = candidate[g].goal
      BY <2>1, <3>1 DEF CandidateRow
    <3> QED
      BY <1>2, <2>1, <2>3, <3>2, Blank
  <2>4. CASE \E p \in BOOLEAN : candidate' = [candidate EXCEPT ![h].gate = p]
    <3>1. PICK p \in BOOLEAN : candidate'[g] = [candidate[g] EXCEPT !.gate = p]
      BY <1>a, <2>1, <2>4
    <3>2. /\ candidate'[g] \in CandidateRow /\ candidate'[g].goal = candidate[g].goal
          /\ candidate'[g].status = candidate[g].status
      BY <2>1, <3>1 DEF CandidateRow
    <3> QED
      BY <1>2, <2>1, <3>2, Blank
  <2> QED
    BY <1>2, <2>2, <2>3, <2>4
<1>3. ASSUME NEW c \in Callers, SetTechnicalStatus(c) \/ SetSemanticStatus(c)
      PROVE  \/ candidate' = candidate
             \/ /\ GoalOf(c) \in Goals /\ candidate[GoalOf(c)] # Nobody
                /\ UNCHANGED <<goals, added, execution>>
                /\ \/ \E t \in {"VERIFIED", "INCONCLUSIVE", "PENDING"} :
                        candidate' = [candidate EXCEPT ![GoalOf(c)].technical = t]
                   \/ \E s \in {"APPROVED", "REJECTED"} :
                        candidate[GoalOf(c)].status = "CANDIDATE"
                        /\ candidate' = [candidate EXCEPT ![GoalOf(c)].status = s]
  <2>1. GoalOf(c) \in Goals /\ call[c] \in Call /\ Reads(c, GoalOf(c))
    BY <1>a, <1>3, WayAt, WayOf DEF SetTechnicalStatus, SetSemanticStatus, Reading
  <2>2. call[c].seen \in {"VERIFIED", "INCONCLUSIVE", "PENDING"}
        /\ call[c].status \in {"APPROVED", "REJECTED"}
    BY <2>1 DEF Call
  <2>3. CASE SetTechnicalStatus(c)
    BY <2>1, <2>2, <2>3 DEF SetTechnicalStatus, Reads, counterVars
  <2>4. CASE SetSemanticStatus(c)
    BY <2>1, <2>2, <2>4 DEF SetSemanticStatus, Decidable, Reads, counterVars
  <2> QED
    BY <1>3, <2>3, <2>4
<1>4. ASSUME NEW h \in Goals, NEW passed \in BOOLEAN, SetOptimizationGate(h, passed)
      PROVE  /\ candidate[h] # Nobody /\ UNCHANGED <<goals, added, execution>>
             /\ candidate' = [candidate EXCEPT ![h].gate = passed]
  BY <1>4 DEF SetOptimizationGate, counterVars
<1>5. CASE \E c \in Callers : CompleteCreate(c)
  BY <1>1, <1>5
<1>6. CASE \E c \in Callers : SetTechnicalStatus(c) \/ SetSemanticStatus(c)
  <2>1. PICK c \in Callers : SetTechnicalStatus(c) \/ SetSemanticStatus(c)
    BY <1>6
  <2> QED
    BY <1>2, <1>3, <2>1
<1>7. CASE \E h \in Goals, passed \in BOOLEAN : SetOptimizationGate(h, passed)
  <2>1. PICK h \in Goals, passed \in BOOLEAN : SetOptimizationGate(h, passed)
    BY <1>7
  <2> QED
    BY <1>2, <1>4, <2>1
<1> QED
  BY <1>5, <1>6, <1>7, CandidateFrame

\* A claim is taken by the beginning of a creation and given back by its abort or by
\* the end of a cleanup.
LEMMA ClaimMoves ==
  ASSUME TypeOK, [Next]_vars, NEW s \in Signatures, claim'[s] # claim[s]
  PROVE  \E c \in Callers :
           /\ GoalOf(c) \in Goals /\ UNCHANGED <<goals, added>>
           /\ \/ /\ s = SignatureOf[GoalOf(c)] /\ claim[s] = Nobody /\ claim'[s] = GoalOf(c)
                 /\ execution'[Create(GoalOf(c))].status = "IN_FLIGHT"
              \/ /\ claim[s] = GoalOf(c) /\ claim'[s] = Nobody /\ Creating(c, GoalOf(c))
                 /\ execution'[Create(GoalOf(c))].status = "NONE"
              \/ /\ claim[s] = GoalOf(c) /\ claim'[s] = Nobody
                 /\ call[c].pc = "finish cleanup" /\ Cleaning(c, GoalOf(c))
                 /\ UNCHANGED execution
<1>a. /\ CallTypeOK /\ claim \in [Signatures -> Goals \cup {Nobody}]
      /\ execution \in [ExecutionKeys -> ExecutionRow]
  BY DEF TypeOK, RowTypeOK
<1>1. ASSUME NEW c \in Callers, BeginCreate(c)
      PROVE  /\ GoalOf(c) \in Goals /\ UNCHANGED <<goals, added>>
             /\ s = SignatureOf[GoalOf(c)] /\ claim[s] = Nobody /\ claim'[s] = GoalOf(c)
             /\ execution'[Create(GoalOf(c))].status = "IN_FLIGHT"
  <2>1. GoalOf(c) \in Goals /\ Create(GoalOf(c)) \in ExecutionKeys
    BY <1>a, <1>1, WayAt, Keys DEF BeginCreate
  <2>2. /\ claim[SignatureOf[GoalOf(c)]] = Nobody
        /\ claim' = [claim EXCEPT ![SignatureOf[GoalOf(c)]] = GoalOf(c)]
        /\ execution' = [execution EXCEPT ![Create(GoalOf(c))] =
                           [status |-> "IN_FLIGHT", plan |-> Create(GoalOf(c))]]
        /\ UNCHANGED <<goals, added>>
    BY <1>1 DEF BeginCreate, ClaimFree, counterVars
  <2> QED
    BY <1>a, <2>1, <2>2
<1>2. ASSUME NEW c \in Callers, Abort(c)
      PROVE  /\ GoalOf(c) \in Goals /\ UNCHANGED <<goals, added>>
             /\ claim[s] = GoalOf(c) /\ claim'[s] = Nobody /\ Creating(c, GoalOf(c))
             /\ execution'[Create(GoalOf(c))].status = "NONE"
  <2>1. GoalOf(c) \in Goals /\ Create(GoalOf(c)) \in ExecutionKeys /\ call[c].pc = "abort"
    BY <1>a, <1>2, WayAt, Keys DEF Abort
  <2>2. /\ KeyOf(c) = Create(GoalOf(c)) /\ claim[s] = GoalOf(c) /\ claim'[s] = Nobody
        /\ execution' = [execution EXCEPT ![KeyOf(c)] = [status |-> "NONE", plan |-> Nobody]]
        /\ UNCHANGED <<goals, added>>
    BY <1>a, <1>2 DEF Abort, counterVars
  <2> QED
    BY <1>a, <2>1, <2>2 DEF Creating, CreatePoints
<1>3. ASSUME NEW c \in Callers, FinishCleanup(c)
      PROVE  /\ GoalOf(c) \in Goals /\ UNCHANGED <<goals, added>>
             /\ claim[s] = GoalOf(c) /\ claim'[s] = Nobody
             /\ call[c].pc = "finish cleanup" /\ Cleaning(c, GoalOf(c))
             /\ UNCHANGED execution
  <2>1. GoalOf(c) \in Goals /\ Deletes(c, GoalOf(c)) /\ call[c].pc = "finish cleanup"
    BY <1>a, <1>3, WayAt, WayOf DEF FinishCleanup
  <2>2. /\ claim[s] = GoalOf(c) /\ claim'[s] = Nobody
        /\ UNCHANGED <<goals, added>> /\ UNCHANGED execution
    BY <1>a, <1>3 DEF FinishCleanup, counterVars
  <2> QED
    BY <2>1, <2>2 DEF Deletes, Cleaning, KeyOf
<1> QED
  BY <1>1, <1>2, <1>3, ClaimFrame

\* A reservation that pays for a creation stays with it until its abort.
LEMMA ReservationMoves ==
  ASSUME TypeOK, [Next]_vars, NEW g \in Goals,
         reservation[ReservationOf[g]].status \in {"RESERVED", "USED"},
         reservation[ReservationOf[g]].key = Create(g)
  PROVE  \/ /\ reservation'[ReservationOf[g]].status \in {"RESERVED", "USED"}
            /\ reservation'[ReservationOf[g]].key = Create(g)
         \/ \E c \in Callers : /\ Creating(c, g) /\ UNCHANGED <<goals, added>>
                               /\ execution'[Create(g)].status = "NONE"
<1>a. /\ CallTypeOK /\ reservation \in [Reservations -> ReservationRow]
      /\ execution \in [ExecutionKeys -> ExecutionRow]
      /\ ReservationOf[g] \in Reservations /\ Create(g) \in ExecutionKeys
  BY Keys, GoalAssumption DEF TypeOK, RowTypeOK
<1> DEFINE x == ReservationOf[g]
<1>1. CASE reservation'[x] = reservation[x]
  BY <1>1
<1>2. CASE reservation'[x] # reservation[x]
  <2>1. ASSUME NEW c \in Callers, BeginCreate(c) PROVE FALSE
    <3>1. /\ reservation[ReservationOf[GoalOf(c)]].status = "AVAILABLE"
          /\ reservation' = [reservation EXCEPT ![ReservationOf[GoalOf(c)]] =
                               [status |-> "RESERVED", key |-> Create(GoalOf(c))]]
      BY <2>1 DEF BeginCreate
    <3> QED
      BY <1>a, <1>2, <3>1
  <2>2. ASSUME NEW y \in Reservations, RegisterReservation(y) PROVE FALSE
    BY <1>a, <1>2, <2>2 DEF RegisterReservation
  <2>3. ASSUME NEW c \in Callers, CompleteCreate(c)
        PROVE  reservation'[x].status = "USED" /\ reservation'[x].key = Create(g)
    <3>1. reservation' = [reservation EXCEPT ![ReservationOf[GoalOf(c)]].status = "USED"]
      BY <1>2, <2>3, CompleteEffect
    <3>2. reservation'[x] = [reservation[x] EXCEPT !.status = "USED"]
      BY <1>a, <1>2, <3>1
    <3>3. reservation[x] \in ReservationRow
      BY <1>a
    <3> QED
      BY <3>2, <3>3 DEF ReservationRow
  <2>4. ASSUME NEW c \in Callers, Abort(c)
        PROVE  /\ Creating(c, g) /\ UNCHANGED <<goals, added>>
               /\ execution'[Create(g)].status = "NONE"
    <3>1. GoalOf(c) \in Goals /\ call[c].pc = "abort"
      BY <1>a, <2>4, WayAt DEF Abort
    <3>2. /\ KeyOf(c) = Create(GoalOf(c))
          /\ reservation[ReservationOf[GoalOf(c)]] = [status |-> "RESERVED", key |-> KeyOf(c)]
          /\ reservation' = [reservation EXCEPT ![ReservationOf[GoalOf(c)]] =
                               [status |-> "AVAILABLE", key |-> Nobody]]
          /\ execution' = [execution EXCEPT ![KeyOf(c)] = [status |-> "NONE", plan |-> Nobody]]
          /\ UNCHANGED <<goals, added>>
      BY <1>2, <2>4 DEF Abort, counterVars
    <3>3. x = ReservationOf[GoalOf(c)]
      BY <1>a, <1>2, <3>2
    <3>4. KeyOf(c) = Create(g)
      BY <3>2, <3>3
    <3> QED
      BY <1>a, <3>1, <3>2, <3>4 DEF Creating, CreatePoints
  <2> QED
    BY <1>2, <2>1, <2>2, <2>3, <2>4, ReservationFrame
<1> QED
  BY <1>1, <1>2

LEMMA CleanupMoves ==
  ASSUME TypeOK, [Next]_vars, NEW g \in Goals, cleanup'[g] # cleanup[g]
  PROVE  /\ cleanup'[g] # Nobody /\ UNCHANGED <<goals, added, candidate, execution>>
         /\ \E c \in Callers :
              /\ Cleaning(c, g)
              /\ cleanup'[g].deleted =>
                   Confirmed(c) \/ (cleanup[g] # Nobody /\ cleanup[g].deleted)
         /\ cleanup'[g].completed =>
              \/ cleanup'[g].deleted
              \/ /\ cleanup[g] # Nobody /\ cleanup[g].completed
                 /\ cleanup[g].deleted => cleanup'[g].deleted
         /\ cleanup[g] # Nobody /\ cleanup[g].completed => cleanup'[g].completed
<1>a. CallTypeOK /\ cleanup \in [Goals -> CleanupRow \cup {Nobody}]
  BY DEF TypeOK, RowTypeOK
<1>1. ASSUME NEW c \in Callers, BeginCleanup(c)
      PROVE  /\ cleanup'[g] # Nobody /\ Cleaning(c, g) /\ cleanup[g] = Nobody
             /\ ~cleanup'[g].deleted /\ ~cleanup'[g].completed
             /\ UNCHANGED <<goals, added, candidate, execution>>
  <2> DEFINE row == [rolledBack |-> FALSE, deleted |-> FALSE, completed |-> FALSE]
  <2>1. GoalOf(c) \in Goals /\ call[c].pc = "begin cleanup"
    BY <1>a, <1>1, WayAt DEF BeginCleanup
  <2>2. /\ cleanup' = [cleanup EXCEPT ![GoalOf(c)] = IF cleanup[GoalOf(c)] = Nobody
                         THEN row ELSE cleanup[GoalOf(c)]]
        /\ UNCHANGED <<goals, added, candidate, execution>>
    BY <1>1 DEF BeginCleanup, counterVars
  <2>3. GoalOf(c) = g /\ cleanup[g] = Nobody /\ cleanup'[g] = row
    BY <1>a, <2>1, <2>2
  <2>4. row \in CleanupRow /\ ~row.deleted /\ ~row.completed
    BY DEF CleanupRow
  <2>5. Cleaning(c, g)
    BY <2>1, <2>3 DEF Cleaning
  <2> HIDE DEF row
  <2>6. cleanup'[g] # Nobody /\ ~cleanup'[g].deleted /\ ~cleanup'[g].completed
    BY <2>3, <2>4, Blank
  <2> QED
    BY <2>2, <2>3, <2>5, <2>6
<1>2. ASSUME NEW c \in Callers,
             MarkRolledBack(c) \/ MarkDeleted(c) \/ (FinishCleanup(c) /\ cleanup' # cleanup)
      PROVE  /\ cleanup'[g] \in CleanupRow /\ Cleaning(c, g) /\ cleanup[g] \in CleanupRow
             /\ UNCHANGED <<goals, added, candidate, execution>>
             /\ \/ cleanup'[g] = [cleanup[g] EXCEPT !.rolledBack = TRUE]
                \/ Confirmed(c) /\ cleanup'[g] = [cleanup[g] EXCEPT !.deleted = TRUE]
                \/ cleanup[g].deleted /\ cleanup'[g] = [cleanup[g] EXCEPT !.completed = TRUE]
  <2>1. /\ GoalOf(c) \in Goals /\ Cleaning(c, GoalOf(c)) /\ cleanup[GoalOf(c)] # Nobody
        /\ MarkDeleted(c) => Confirmed(c)
    BY <1>a, <1>2, WayAt, WayOf
    DEF MarkRolledBack, MarkDeleted, FinishCleanup, RollsBack, Deletes, Cleaning, KeyOf,
        Confirmed
  <2>2. /\ UNCHANGED <<goals, added, candidate, execution>>
        /\ \/ cleanup' = [cleanup EXCEPT ![GoalOf(c)].rolledBack = TRUE]
           \/ MarkDeleted(c) /\ cleanup' = [cleanup EXCEPT ![GoalOf(c)].deleted = TRUE]
           \/ cleanup[GoalOf(c)].deleted
              /\ cleanup' = [cleanup EXCEPT ![GoalOf(c)].completed = TRUE]
    BY <1>2 DEF MarkRolledBack, MarkDeleted, FinishCleanup, Finishable, counterVars
  <2>3. GoalOf(c) = g /\ cleanup[g] \in CleanupRow
    BY <1>a, <2>1, <2>2
  <2>4. \/ cleanup'[g] = [cleanup[g] EXCEPT !.rolledBack = TRUE]
        \/ Confirmed(c) /\ cleanup'[g] = [cleanup[g] EXCEPT !.deleted = TRUE]
        \/ cleanup[g].deleted /\ cleanup'[g] = [cleanup[g] EXCEPT !.completed = TRUE]
    BY <1>a, <2>1, <2>2, <2>3
  <2>5. cleanup'[g] \in CleanupRow
    BY <2>3, <2>4 DEF CleanupRow
  <2> QED
    BY <2>1, <2>2, <2>3, <2>4, <2>5
<1>3. CASE \E c \in Callers : BeginCleanup(c)
  BY <1>1, <1>3
<1>4. CASE \E c \in Callers : MarkRolledBack(c) \/ MarkDeleted(c) \/ FinishCleanup(c)
  <2>1. PICK c \in Callers :
          MarkRolledBack(c) \/ MarkDeleted(c) \/ (FinishCleanup(c) /\ cleanup' # cleanup)
    BY <1>4
  <2>2. /\ cleanup'[g] \in CleanupRow /\ Cleaning(c, g) /\ cleanup[g] \in CleanupRow
        /\ UNCHANGED <<goals, added, candidate, execution>>
        /\ \/ cleanup'[g] = [cleanup[g] EXCEPT !.rolledBack = TRUE]
           \/ Confirmed(c) /\ cleanup'[g] = [cleanup[g] EXCEPT !.deleted = TRUE]
           \/ cleanup[g].deleted /\ cleanup'[g] = [cleanup[g] EXCEPT !.completed = TRUE]
    BY <1>2, <2>1
  <2>3. CASE cleanup'[g] = [cleanup[g] EXCEPT !.rolledBack = TRUE]
    <3>1. /\ cleanup'[g].deleted = cleanup[g].deleted
          /\ cleanup'[g].completed = cleanup[g].completed
      BY <2>2, <2>3 DEF CleanupRow
    <3> QED
      BY <2>2, <3>1, Blank
  <2>4. CASE Confirmed(c) /\ cleanup'[g] = [cleanup[g] EXCEPT !.deleted = TRUE]
    <3>1. cleanup'[g].deleted /\ cleanup'[g].completed = cleanup[g].completed
      BY <2>2, <2>4 DEF CleanupRow
    <3> QED
      BY <2>2, <2>4, <3>1, Blank
  <2>5. CASE cleanup[g].deleted /\ cleanup'[g] = [cleanup[g] EXCEPT !.completed = TRUE]
    <3>1. cleanup'[g].completed /\ cleanup'[g].deleted = cleanup[g].deleted
      BY <2>2, <2>5 DEF CleanupRow
    <3> QED
      BY <2>2, <2>5, <3>1, Blank
  <2> QED
    BY <2>2, <2>3, <2>4, <2>5
<1> QED
  BY <1>3, <1>4, CleanupFrame

\* An authority that a plan holds stays held and signed as it is until the call of
\* that plan gives it back or completes with it.
LEMMA AuthorityMoves ==
  ASSUME TypeOK, [Next]_vars, NEW a \in Authorities, NEW k \in ExecutionKeys, HeldBy(a, k)
  PROVE  \/ HeldBy(a, k)' /\ authority'[a].signed = authority[a].signed
         \/ \E c \in Callers :
              /\ KeyOf(c) = k
              /\ \/ Abort(c)
                 \/ Reconcilable(k) /\ execution'[k].status = "APPLIED"
                    /\ (CompleteCreate(c) \/ CompletePublish(c))
<1>a. /\ CallTypeOK /\ authority \in [Authorities -> AuthorityRow \cup {Nobody}]
      /\ execution \in [ExecutionKeys -> ExecutionRow] /\ k # Nobody
  BY NobodyAssumption DEF TypeOK, RowTypeOK
<1>b. /\ authority[a] \in AuthorityRow /\ authority[a].status = "RESERVED"
      /\ authority[a].key = k
  BY <1>a DEF HeldBy
<1>1. CASE authority'[a] = authority[a]
  BY <1>1 DEF HeldBy
<1>2. CASE authority'[a] # authority[a]
  <2>1. ASSUME NEW b \in Authorities, NEW p \in Principals, RegisterAuthority(b, p)
        PROVE  FALSE
    BY <1>a, <1>b, <1>2, <2>1, Blank DEF RegisterAuthority
  <2>2. ASSUME NEW b \in Authorities, NEW x \in Bindings, AlterAuthority(b, x)
        PROVE  HeldBy(a, k)' /\ authority'[a].signed = authority[a].signed
    <3>1. authority' = [authority EXCEPT ![b].fields.binding = x]
      BY <2>2 DEF AlterAuthority
    <3>2. authority'[a] = [authority[a] EXCEPT !.fields.binding = x]
      BY <1>a, <1>2, <3>1
    <3>3. /\ authority'[a].status = "RESERVED" /\ authority'[a].key = k
          /\ authority'[a].signed = authority[a].signed /\ authority'[a] \in AuthorityRow
      BY <1>b, <3>2 DEF AuthorityRow, Authority
    <3> QED
      BY <3>3, Blank DEF HeldBy
  <2>3. ASSUME NEW c \in Callers, BeginCreate(c) \/ BeginPublish(c) PROVE FALSE
    <3>1. PICK q : /\ MayReserve(call[c].authority, q)
                   /\ \E key : authority' = Reserved(call[c].authority, key)
      BY <2>3 DEF BeginCreate, BeginPublish
    <3>2. authority[call[c].authority].status # "RESERVED"
      BY <3>1 DEF MayReserve, Unspent
    <3>3. authority'[a] = authority[a]
      BY <1>a, <1>b, <3>1, <3>2 DEF Reserved
    <3> QED
      BY <1>2, <3>3
  <2>4. ASSUME NEW c \in Callers, Abort(c)
        PROVE  KeyOf(c) = k
    <3>1. authority' = ReleasedAuthority(call[c].authority, KeyOf(c))
      BY <1>2, <2>4 DEF Abort
    <3>2. HeldBy(call[c].authority, KeyOf(c)) /\ call[c].authority = a
      BY <1>a, <1>2, <3>1 DEF ReleasedAuthority
    <3> QED
      BY <1>b, <3>2 DEF HeldBy
  <2>5. ASSUME NEW c \in Callers, CompleteCreate(c) \/ CompletePublish(c)
        PROVE  KeyOf(c) = k /\ Reconcilable(k) /\ execution'[k].status = "APPLIED"
    <3>1. /\ authority' = FinishedAuthority(call[c].authority)
          /\ HeldBy(call[c].authority, KeyOf(c)) /\ Reconcilable(KeyOf(c))
          /\ execution' = [execution EXCEPT ![KeyOf(c)].status = "APPLIED"]
      BY <1>2, <2>5, SMTT(30) DEF CompleteCreate, CompletePublish
    <3>2. call[c].authority = a
      BY <1>a, <1>2, <3>1 DEF FinishedAuthority
    <3>3. KeyOf(c) = k
      BY <1>b, <3>1, <3>2 DEF HeldBy
    <3>4. execution[k] \in ExecutionRow
      BY <1>a
    <3> QED
      BY <1>a, <3>1, <3>3, <3>4 DEF ExecutionRow
  <2> QED
    BY <2>1, <2>2, <2>3, <2>4, <2>5, <1>2, AuthorityFrame
<1> QED
  BY <1>1, <1>2

\* What a beginning reserves is signed for its plan by the human of the role.
LEMMA ReserveSigned ==
  ASSUME TypeOK, NEW a \in Authorities, NEW plan, NEW k \in ExecutionKeys,
         MayReserve(a, plan), authority' = Reserved(a, k)
  PROVE  /\ HeldBy(a, k)' /\ authority'[a].signed.binding = plan
         /\ authority'[a].signed.principal = RoleHolder(authority'[a].signed.kind)
<1>1. /\ authority \in [Authorities -> AuthorityRow \cup {Nobody}]
      /\ authority[a] \in AuthorityRow
      /\ authority[a].signed = authority[a].fields
      /\ authority[a].signed.principal = RoleHolder(authority[a].signed.kind)
      /\ authority[a].fields.binding = plan
  BY DEF TypeOK, RowTypeOK, MayReserve, ProofHolds
<1>2. authority'[a] = [authority[a] EXCEPT !.status = "RESERVED", !.key = k]
  BY <1>1 DEF Reserved
<1>3. /\ authority'[a].status = "RESERVED" /\ authority'[a].key = k
      /\ authority'[a].signed = authority[a].signed /\ authority'[a] \in AuthorityRow
  BY <1>1, <1>2 DEF AuthorityRow
<1> QED
  BY <1>1, <1>3, Blank DEF HeldBy

-----------------------------------------------------------------------------
(* The goals on the counter.  The creation is safe because of five facts:  *)
(* one call creates a run's goal (OneCreator); the claim of an event stays *)
(* with the run whose creation is open or whose goal is there (Claimed,    *)
(* Marked); a reconciliation that found another run's goal found the       *)
(* holder of the claim (Matches); so what completes an open creation is    *)
(* its own goal, and a candidate's goal is kept until a human rejected it  *)
(* (Kept).                                                                 *)

OneCreator ==
  /\ \A g \in Goals : execution[Create(g)].status = "NONE" => added[g] = 0
  /\ \A c \in Callers, g \in Goals : Creating(c, g) =>
       added[g] = 0 /\ execution[Create(g)].status # "NONE"
  /\ \A c, d \in Callers, g \in Goals : Creating(c, g) /\ Creating(d, g) => c = d
OneEach ==
  /\ \A goal \in goals : goal = GoalId(goal[1]) /\ added[goal[1]] = 1
  /\ \A g \in Goals : added[g] \in {0, 1}
Applied == \A g \in Goals : candidate[g] # Nobody <=> execution[Create(g)].status = "APPLIED"
Claimed ==
  /\ \A s \in Signatures : claim[s] # Nobody => SignatureOf[claim[s]] = s
  /\ \A g \in Goals : Reconcilable(Create(g)) => claim[SignatureOf[g]] = g
Undecided == \A c \in Callers, g \in Goals : Creating(c, g) => Reconcilable(Create(g))
Marked == \A g \in Goals : GoalId(g) \in goals => claim[SignatureOf[g]] = g
Matches ==
  \A c \in Callers, g \in Goals : Matched(c, g) => \E h \in Goals :
    /\ call[c].found = GoalId(h) /\ SignatureOf[h] = SignatureOf[g] /\ added[h] = 1
    /\ h = g \/ claim[SignatureOf[g]] = h
Kept ==
  \A g \in Goals :
    /\ candidate[g] # Nobody =>
         /\ candidate[g].goal = GoalId(g) /\ added[g] = 1
         /\ GoalId(g) \in goals \/ candidate[g].status = "REJECTED"
    /\ candidate[g] = Nobody /\ added[g] = 1 => GoalId(g) \in goals
Paid ==
  \A g \in Goals : Reconcilable(Create(g)) \/ added[g] = 1 =>
    /\ reservation[ReservationOf[g]].status \in {"RESERVED", "USED"}
    /\ reservation[ReservationOf[g]].key = Create(g)
Cleaned ==
  \A g \in Goals : cleanup[g] # Nobody =>
    /\ Rejected(g)
    /\ cleanup[g].deleted => GoalId(g) \notin goals
    /\ cleanup[g].completed => cleanup[g].deleted
Cleaners ==
  \A c \in Callers, g \in Goals : Cleaning(c, g) =>
    Rejected(g) /\ (Confirmed(c) => GoalId(g) \notin goals)

GoalInv ==
  /\ OneCreator /\ OneEach /\ Applied /\ Claimed /\ Undecided /\ Marked /\ Matches /\ Kept
  /\ Paid /\ Cleaned /\ Cleaners

\* The schedules the theorems below are about: no cleanup of one run reaches its last
\* transaction while a reconciliation of another run with the same event, which has
\* read the counter before, is about to complete.
NoStaleMatch ==
  \A c, d \in Callers :
    /\ Matched(c, GoalOf(c)) /\ call[d].pc = "finish cleanup"
    /\ SignatureOf[GoalOf(c)] = SignatureOf[GoalOf(d)]
    => GoalOf(c) = GoalOf(d)

Adds(c) ==
  /\ Creating(c, GoalOf(c)) /\ GoalOf(c) \in Goals /\ UNCHANGED storeVars
  /\ ~(\E g \in Goals : Creating(c, g)')
  /\ goals' = goals \cup {<<GoalOf(c), added[GoalOf(c)] + 1>>}
  /\ added' = [added EXCEPT ![GoalOf(c)] = @ + 1]
Removes(g) ==
  /\ g \in Goals /\ UNCHANGED <<storeVars, added>> /\ goals' = goals \ {candidate[g].goal}
  /\ \E c \in Callers : Cleaning(c, g)

LEMMA GoalsMoves ==
  ASSUME TypeOK, [Next]_vars
  PROVE  UNCHANGED <<goals, added>> \/ (\E c \in Callers : Adds(c)) \/ \E g \in Goals : Removes(g)
<1>a. CallTypeOK
  BY DEF TypeOK
<1>1. ASSUME NEW c \in Callers, AddGoal(c) PROVE Adds(c)
  <2>1. GoalOf(c) \in Goals /\ Creates(c, GoalOf(c)) /\ call[c].pc = "add"
    BY <1>a, <1>1, WayOf, WayAt DEF AddGoal
  <2>2. \/ Goto(c, "reconcile")
        \/ \E f : call' = [call EXCEPT ![c].pc = "complete", ![c].found = f]
    BY <1>1 DEF AddGoal, LostAnswer, Goto
  <2>3. call'[c].pc \in {"reconcile", "complete"}
    BY <2>2, GotoKeeps, FoundKeeps
  <2> QED
    BY <1>1, <2>1, <2>3 DEF AddGoal, Adds, Creating, CreatePoints, KeyOf, Creates
<1>2. ASSUME NEW c \in Callers, DeleteGoal(c) PROVE Removes(GoalOf(c))
  <2>1. GoalOf(c) \in Goals /\ Deletes(c, GoalOf(c))
    BY <1>a, <1>2, WayOf, WayAt DEF DeleteGoal
  <2> QED
    BY <1>2, <2>1 DEF DeleteGoal, Removes, Deletes, Cleaning, KeyOf
<1> QED
  BY <1>1, <1>2, GoalsFrame DEF Removes

\* the number of a run's goals after an addition
LEMMA Numbered ==
  ASSUME TypeOK, NEW c \in Callers, OneCreator, Adds(c), NEW g \in Goals
  PROVE  /\ added'[g] = IF g = GoalOf(c) THEN 1 ELSE added[g]
         /\ goals' = goals \cup {GoalId(GoalOf(c))} /\ added[GoalOf(c)] = 0
<1>1. added \in [Goals -> Nat] /\ added[GoalOf(c)] = 0 /\ GoalOf(c) \in Goals
  BY DEF TypeOK, RowTypeOK, OneCreator, Adds
<1> QED
  BY <1>1 DEF Adds, GoalId

LEMMA CreatorNext ==
  ASSUME TypeOK, OneCreator, OneEach, [Next]_vars
  PROVE  OneCreator' /\ OneEach'
<1>a. /\ execution \in [ExecutionKeys -> ExecutionRow] /\ added \in [Goals -> Nat]
      /\ goals \subseteq Goals \X Nat /\ goals' \subseteq Goals \X Nat
  BY RowsNext DEF TypeOK, RowTypeOK
\* a creation begins on a key without an execution
<1>1. ASSUME NEW c \in Callers, NEW g \in Goals, BeginCreate(c), GoalOf(c) = g
      PROVE  /\ execution[Create(g)].status = "NONE" /\ UNCHANGED <<goals, added>>
             /\ execution'[Create(g)].status = "IN_FLIGHT"
             /\ \A d \in Callers : Creating(d, g)' => d = c
  <2>1. /\ execution[Create(g)].status = "NONE" /\ UNCHANGED <<goals, added>>
        /\ execution'[Create(g)].status = "IN_FLIGHT"
    BY <1>a, <1>1, Keys DEF BeginCreate, counterVars
  <2>2. ASSUME NEW d \in Callers, Creating(d, g)', d # c PROVE FALSE
    <3>1. call'[d] = call[d]
      BY <1>1, <2>2 DEF BeginCreate, Goto, TypeOK, CallTypeOK
    <3>2. Creating(d, g)
      BY <2>2, <3>1 DEF Creating, KeyOf
    <3> QED
      BY <2>1, <3>2 DEF OneCreator
  <2> QED
    BY <2>1, <2>2
\* an abort ends the only creating call
<1>2. ASSUME NEW g \in Goals, execution'[Create(g)].status = "NONE",
             execution[Create(g)].status # "NONE"
      PROVE  /\ UNCHANGED <<goals, added>> /\ added[g] = 0
             /\ \A d \in Callers : ~Creating(d, g)'
  <2>1. Create(g) \in ExecutionKeys
    BY Keys
  <2>2. PICK c \in Callers : KeyOf(c) = Create(g) /\ Abort(c)
    <3>1. execution[Create(g)] \in ExecutionRow
      BY <1>a, <2>1
    <3>2. execution'[Create(g)] # [execution[Create(g)] EXCEPT !.status = "UNKNOWN_RESULT"]
      BY <1>2, <3>1 DEF ExecutionRow
    <3> QED
      BY <1>2, <2>1, <3>2, ExecutionMoves
  <2>3. Creating(c, g) /\ UNCHANGED <<goals, added>> /\ Return(c)
    BY <2>2 DEF Abort, Creating, CreatePoints, counterVars
  <2>4. ASSUME NEW d \in Callers, Creating(d, g)' PROVE FALSE
    <3>1. Creating(d, g)
      BY <1>2, <2>4, CreatorMoves DEF BeginCreate
    <3>2. d = c
      BY <2>3, <3>1 DEF OneCreator
    <3> QED
      BY <2>3, <2>4, <3>2, ReturnEnds DEF Creating, CreatePoints
  <2> QED
    BY <2>3, <2>4 DEF OneCreator
<1>3. \A g \in Goals : execution'[Create(g)].status = "NONE" => added'[g] = 0
  <2> TAKE g \in Goals
  <2> HAVE execution'[Create(g)].status = "NONE"
  <2>1. CASE execution[Create(g)].status # "NONE"
    BY <1>2, <2>1
  <2>2. CASE execution[Create(g)].status = "NONE"
    <3>1. added[g] = 0
      BY <2>2 DEF OneCreator
    <3>2. ASSUME NEW c \in Callers, Adds(c) PROVE g # GoalOf(c)
      BY <2>2, <3>2 DEF Adds, OneCreator
    <3> QED
      BY <3>1, <3>2, GoalsMoves, Numbered DEF Removes
  <2> QED
    BY <2>1, <2>2
<1>4. ASSUME NEW d \in Callers, NEW g \in Goals, Creating(d, g)'
      PROVE  added'[g] = 0 /\ execution'[Create(g)].status # "NONE"
  <2>1. CASE BeginCreate(d) /\ GoalOf(d) = g
    <3>1. added[g] = 0
      BY <1>1, <2>1 DEF OneCreator
    <3> QED
      BY <1>1, <2>1, <3>1
  <2>2. CASE Creating(d, g)
    <3>1. added[g] = 0 /\ execution[Create(g)].status # "NONE"
      BY <2>2 DEF OneCreator
    <3>2. ASSUME NEW c \in Callers, Adds(c) PROVE g # GoalOf(c)
      BY <1>4, <2>2, <3>2 DEF Adds, OneCreator
    <3>3. added'[g] = 0
      BY <3>1, <3>2, GoalsMoves, Numbered DEF Removes
    <3> QED
      BY <1>2, <1>4, <3>1, <3>3
  <2> QED
    BY <1>4, <2>1, <2>2, CreatorMoves
<1>5. ASSUME NEW c \in Callers, NEW d \in Callers, NEW g \in Goals,
             Creating(c, g)', Creating(d, g)'
      PROVE  c = d
  <2>1. CASE Creating(c, g) /\ Creating(d, g)
    BY <2>1 DEF OneCreator
  <2>2. CASE BeginCreate(c) /\ GoalOf(c) = g
    BY <1>1, <1>5, <2>2
  <2>3. CASE BeginCreate(d) /\ GoalOf(d) = g
    BY <1>1, <1>5, <2>3
  <2> QED
    BY <1>5, <2>1, <2>2, <2>3, CreatorMoves
<1>6. OneEach'
  <2>1. CASE UNCHANGED <<goals, added>>
    BY <2>1 DEF OneEach
  <2>2. ASSUME NEW c \in Callers, Adds(c) PROVE OneEach'
    <3>1. GoalOf(c) \in Goals
      BY <2>2 DEF Adds
    <3>2. /\ \A g \in Goals : added'[g] = IF g = GoalOf(c) THEN 1 ELSE added[g]
          /\ goals' = goals \cup {GoalId(GoalOf(c))}
      BY <2>2, <3>1, Numbered
    <3>3. \A g \in Goals : added'[g] \in {0, 1}
      BY <3>2 DEF OneEach
    <3>4. ASSUME NEW goal \in goals' PROVE goal = GoalId(goal[1]) /\ added'[goal[1]] = 1
      <4>1. CASE goal = GoalId(GoalOf(c))
        BY <3>1, <3>2, <4>1 DEF GoalId
      <4>2. CASE goal \in goals
        <5>1. goal[1] \in Goals
          BY <1>a, <4>2
        <5> QED
          BY <3>2, <4>2, <5>1 DEF OneEach
      <4> QED
        BY <3>2, <4>1, <4>2
    <3> QED
      BY <3>3, <3>4 DEF OneEach
  <2>3. ASSUME NEW g \in Goals, Removes(g) PROVE OneEach'
    BY <2>3 DEF Removes, OneEach
  <2> QED
    BY <2>1, <2>2, <2>3, GoalsMoves
<1> QED
  BY <1>3, <1>4, <1>5, <1>6 DEF OneCreator

\* The row of a creation moves only by its own calls.
LEMMA CreationMoves ==
  ASSUME TypeOK, [Next]_vars, NEW g \in Goals
  PROVE  \/ execution'[Create(g)].status = execution[Create(g)].status
         \/ Reconcilable(Create(g)) /\ Reconcilable(Create(g))'
         \/ \E c \in Callers :
              \/ BeginCreate(c) /\ GoalOf(c) = g /\ execution[Create(g)].status = "NONE"
                 /\ execution'[Create(g)].status = "IN_FLIGHT"
              \/ Abort(c) /\ Creating(c, g) /\ execution'[Create(g)].status = "NONE"
              \/ CompleteCreate(c) /\ Matched(c, g) /\ Reconcilable(Create(g))
                 /\ execution'[Create(g)].status = "APPLIED"
<1>a. /\ CallTypeOK /\ execution \in [ExecutionKeys -> ExecutionRow]
      /\ Create(g) \in ExecutionKeys /\ execution[Create(g)] \in ExecutionRow
  BY Keys DEF TypeOK, RowTypeOK
<1>1. CASE execution'[Create(g)] = execution[Create(g)]
  BY <1>1
<1>2. ASSUME NEW c \in Callers, KeyOf(c) = Create(g), GoalOf(c) \in Goals
      PROVE  /\ Abort(c) => Creating(c, g)
             /\ ~BeginPublish(c) /\ ~CompletePublish(c)
             /\ BeginCreate(c) => GoalOf(c) = g
             /\ CompleteCreate(c) => Matched(c, g)
  <2>1. Abort(c) => Creating(c, g)
    BY <1>2 DEF Abort, Creating, CreatePoints
  <2>2. ~BeginPublish(c) /\ ~CompletePublish(c)
    BY <1>a, <1>2, WayOf, Keys DEF BeginPublish, CompletePublish, Publishes, KeyOf
  <2>3. BeginCreate(c) => GoalOf(c) = g
    BY <1>a, <1>2, WayOf, Keys, ZenonT(60) DEF BeginCreate, Creates, KeyOf
  <2>4. CompleteCreate(c) => Matched(c, g)
    BY <1>2 DEF CompleteCreate, Matched
  <2> QED
    BY <2>1, <2>2, <2>3, <2>4
<1>3. ASSUME execution[Create(g)].status = "IN_FLIGHT",
             execution'[Create(g)] = [execution[Create(g)] EXCEPT !.status = "UNKNOWN_RESULT"]
      PROVE  Reconcilable(Create(g)) /\ Reconcilable(Create(g))'
  BY <1>a, <1>3 DEF ExecutionRow, Reconcilable
<1> QED
  BY <1>a, <1>1, <1>2, <1>3, ExecutionMoves

\* What completes an open creation is its own goal.
LEMMA OwnMatch ==
  ASSUME Matches, Claimed, NEW c \in Callers, NEW g \in Goals, Matched(c, g),
         Reconcilable(Create(g))
  PROVE  call[c].found = GoalId(g) /\ added[g] = 1
BY DEF Matches, Claimed

LEMMA RejectedStays ==
  ASSUME TypeOK, [Next]_vars, NEW g \in Goals, Rejected(g)
  PROVE  Rejected(g)'
BY CandidateMoves DEF Rejected

\* A deleted goal of a rejected candidate does not come back.
LEMMA GoneStays ==
  ASSUME TypeOK, GoalInv, [Next]_vars, NEW g \in Goals, Rejected(g), GoalId(g) \notin goals
  PROVE  GoalId(g) \notin goals'
<1>1. ASSUME NEW c \in Callers, Adds(c) PROVE GoalId(g) \notin goals'
  <2>1. Reconcilable(Create(GoalOf(c))) /\ GoalOf(c) \in Goals
    BY <1>1 DEF Adds, GoalInv, Undecided
  <2>2. GoalOf(c) # g
    BY <2>1 DEF GoalInv, Applied, Rejected, Reconcilable
  <2>3. goals' = goals \cup {GoalId(GoalOf(c))}
    BY <1>1, Numbered DEF GoalInv
  <2> QED
    BY <2>2, <2>3 DEF GoalId
<1> QED
  BY <1>1, GoalsMoves DEF Removes

LEMMA AppliedNext ==
  ASSUME TypeOK, Applied, [Next]_vars
  PROVE  Applied'
<1> SUFFICES ASSUME NEW g \in Goals
             PROVE  candidate'[g] # Nobody <=> execution'[Create(g)].status = "APPLIED"
  BY DEF Applied
<1>1. CASE candidate'[g] # candidate[g]
  BY <1>1, CandidateMoves DEF Applied
<1>2. CASE candidate'[g] = candidate[g]
  <2>1. ASSUME NEW c \in Callers, CompleteCreate(c), Matched(c, g), Reconcilable(Create(g)),
               execution'[Create(g)].status = "APPLIED"
        PROVE  FALSE
    <3>1. candidate[g] = Nobody
      BY <2>1 DEF Applied, Reconcilable
    <3>2. GoalOf(c) = g
      BY <2>1, CompleteEffect, Keys DEF Matched
    <3>3. ~UNCHANGED execution
      BY <2>1 DEF Reconcilable
    <3>4. candidate' = [candidate EXCEPT ![g] =
                          [goal |-> call[c].found, status |-> "CANDIDATE",
                           technical |-> "PENDING", gate |-> FALSE]]
          /\ Creates(c, g)
      BY <2>1, <3>1, <3>2, <3>3, CompleteEffect
    <3>5. [goal |-> call[c].found, status |-> "CANDIDATE",
           technical |-> "PENDING", gate |-> FALSE] \in CandidateRow
      BY <2>1, <3>4 DEF Creates, Matched, CandidateRow, GoalIds
    <3> QED
      BY <1>2, <3>1, <3>4, <3>5, Blank DEF TypeOK, RowTypeOK
  <2>2. execution'[Create(g)].status = "APPLIED" <=> execution[Create(g)].status = "APPLIED"
    <3>1. ASSUME NEW c \in Callers, Abort(c), Creating(c, g),
                 execution[Create(g)].status = "APPLIED"
          PROVE  UNCHANGED execution
      BY <3>1 DEF Abort, Creating, Abortable
    <3> QED
      BY <2>1, <3>1, CreationMoves DEF Reconcilable
  <2> QED
    BY <1>2, <2>2 DEF Applied
<1> QED
  BY <1>1, <1>2

LEMMA ClaimedNext ==
  ASSUME TypeOK, GoalInv, [Next]_vars
  PROVE  Claimed'
<1>1. ASSUME NEW s \in Signatures, claim'[s] # Nobody PROVE SignatureOf[claim'[s]] = s
  BY <1>1, ClaimMoves DEF GoalInv, Claimed
<1>2. ASSUME NEW g \in Goals, Reconcilable(Create(g))' PROVE claim'[SignatureOf[g]] = g
  <2>a. SignatureOf[g] \in Signatures /\ g # Nobody
    BY GoalAssumption, Blank
  <2>1. CASE Reconcilable(Create(g))
    <3>1. claim[SignatureOf[g]] = g
      BY <2>1 DEF GoalInv, Claimed
    <3>2. ~Rejected(g)
      BY <2>1 DEF GoalInv, Applied, Rejected, Reconcilable
    <3>3. ASSUME NEW c \in Callers, Cleaning(c, GoalOf(c)) PROVE GoalOf(c) # g
      BY <3>2, <3>3 DEF GoalInv, Cleaners
    <3> QED
      BY <1>2, <2>a, <3>1, <3>3, ClaimMoves DEF Reconcilable
  <2>2. CASE ~Reconcilable(Create(g))
    <3>1. PICK c \in Callers : BeginCreate(c) /\ GoalOf(c) = g
      BY <1>2, <2>2, CreationMoves DEF Reconcilable
    <3>2. claim' = [claim EXCEPT ![SignatureOf[g]] = g]
      BY <3>1 DEF BeginCreate
    <3> QED
      BY <2>a, <3>2 DEF TypeOK, RowTypeOK
  <2> QED
    BY <2>1, <2>2
<1> QED
  BY <1>1, <1>2 DEF Claimed

LEMMA UndecidedNext ==
  ASSUME TypeOK, GoalInv, [Next]_vars
  PROVE  Undecided'
<1> SUFFICES ASSUME NEW d \in Callers, NEW g \in Goals, Creating(d, g)'
             PROVE  Reconcilable(Create(g))'
  BY DEF Undecided
<1>1. CASE BeginCreate(d) /\ GoalOf(d) = g
  BY <1>1, Keys DEF BeginCreate, TypeOK, RowTypeOK, Reconcilable
<1>2. CASE Creating(d, g)
  <2>1. Reconcilable(Create(g)) /\ added[g] = 0
    BY <1>2 DEF GoalInv, Undecided, OneCreator
  <2>2. ASSUME NEW c \in Callers, Abort(c), Creating(c, g) PROVE FALSE
    <3>1. c = d
      BY <1>2, <2>2 DEF GoalInv, OneCreator
    <3> QED
      BY <2>2, <3>1, ReturnEnds DEF Abort, Creating, CreatePoints
  <2>3. ASSUME NEW c \in Callers, Matched(c, g) PROVE FALSE
    BY <2>1, <2>3, OwnMatch DEF GoalInv
  <2> QED
    BY <2>1, <2>2, <2>3, CreationMoves DEF Reconcilable
<1> QED
  BY <1>1, <1>2, CreatorMoves

LEMMA MarkedNext ==
  ASSUME TypeOK, GoalInv, [Next]_vars
  PROVE  Marked'
<1> SUFFICES ASSUME NEW g \in Goals, GoalId(g) \in goals'
             PROVE  claim'[SignatureOf[g]] = g
  BY DEF Marked
<1>a. SignatureOf[g] \in Signatures /\ g # Nobody
  BY GoalAssumption, Blank
<1>1. CASE GoalId(g) \in goals
  <2>1. claim[SignatureOf[g]] = g /\ added[g] = 1
    BY <1>1 DEF GoalInv, Marked, OneEach, GoalId
  <2>2. ASSUME NEW c \in Callers, Creating(c, GoalOf(c)) PROVE GoalOf(c) # g
    BY <2>1, <2>2 DEF GoalInv, OneCreator
  <2>3. ASSUME NEW c \in Callers, Cleaning(c, GoalOf(c)), call[c].pc = "finish cleanup"
        PROVE  GoalOf(c) # g
    BY <1>1, <2>3 DEF GoalInv, Cleaners, Confirmed
  <2> QED
    BY <1>a, <2>1, <2>2, <2>3, ClaimMoves
<1>2. CASE GoalId(g) \notin goals
  <2>1. PICK c \in Callers : Adds(c)
    BY <1>2, GoalsMoves DEF Removes
  <2>2. g = GoalOf(c)
    BY <1>2, <2>1, Numbered DEF GoalInv, GoalId
  <2>3. claim[SignatureOf[g]] = g
    BY <2>1, <2>2 DEF GoalInv, Undecided, Claimed, Adds
  <2> QED
    BY <2>1, <2>3 DEF Adds, storeVars
<1> QED
  BY <1>1, <1>2

LEMMA MatchesNext ==
  ASSUME TypeOK, GoalInv, NoStaleMatch, [Next]_vars
  PROVE  Matches'
<1> SUFFICES ASSUME NEW d \in Callers, NEW g \in Goals, Matched(d, g)'
             PROVE  \E h \in Goals :
                      /\ call'[d].found = GoalId(h) /\ SignatureOf[h] = SignatureOf[g]
                      /\ added'[h] = 1
                      /\ h = g \/ claim'[SignatureOf[g]] = h
  BY DEF Matches
<1>a. SignatureOf[g] \in Signatures /\ CallTypeOK
  BY GoalAssumption DEF TypeOK
<1>1. CASE Matched(d, g) /\ call'[d].found = call[d].found
  <2>1. PICK h \in Goals :
          /\ call[d].found = GoalId(h) /\ SignatureOf[h] = SignatureOf[g] /\ added[h] = 1
          /\ h = g \/ claim[SignatureOf[g]] = h
    BY <1>1 DEF GoalInv, Matches
  <2>2. added'[h] = 1
    BY <2>1, GoalsMoves, Numbered DEF GoalInv, Removes
  <2>3. GoalOf(d) = g
    <3>1. Creates(d, GoalOf(d)) \/ Publishes(d, GoalOf(d))
      BY <1>a, <1>1, WayOf DEF Matched
    <3>2. GoalOf(d) \in Goals
      BY <1>a, <1>1, WayAt DEF Matched
    <3> QED
      BY <1>1, <3>1, <3>2, Keys DEF Matched, Creates, Publishes, KeyOf
  <2>4. ASSUME h # g PROVE claim'[SignatureOf[g]] = h
    <3>1. claim[SignatureOf[g]] = h /\ h # Nobody
      BY <2>1, <2>4, Blank
    <3>2. ASSUME NEW c \in Callers, Creating(c, GoalOf(c)) PROVE GoalOf(c) # h
      BY <2>1, <3>2 DEF GoalInv, OneCreator
    <3>3. ASSUME NEW c \in Callers, call[c].pc = "finish cleanup" PROVE GoalOf(c) # h
      BY <1>1, <2>1, <2>3, <2>4, <3>3 DEF NoStaleMatch
    <3> QED
      BY <1>a, <3>1, <3>2, <3>3, ClaimMoves
  <2> QED
    BY <1>1, <2>1, <2>2, <2>4
<1>2. CASE AddGoal(d) /\ Creating(d, g) /\ GoalOf(d) = g
           /\ call'[d].found = <<g, added[g] + 1>>
  <2>1. added[g] = 0 /\ added \in [Goals -> Nat]
    BY <1>2 DEF GoalInv, OneCreator, TypeOK, RowTypeOK
  <2>2. added'[g] = 1 /\ call'[d].found = GoalId(g)
    <3>1. added' = [added EXCEPT ![g] = @ + 1]
      BY <1>2 DEF AddGoal
    <3> QED
      BY <1>2, <2>1, <3>1 DEF GoalId
  <2> QED
    BY <2>2
<1>3. CASE ReconcileCreate(d) /\ GoalOf(d) = g /\ call'[d].found \in goals
           /\ SignatureOf[call'[d].found[1]] = SignatureOf[g]
  <2> DEFINE h == call'[d].found[1]
  <2>1. h \in Goals /\ call'[d].found = GoalId(h) /\ added[h] = 1
    BY <1>3 DEF GoalInv, OneEach, TypeOK, RowTypeOK
  <2>2. claim[SignatureOf[g]] = h
    BY <1>3, <2>1 DEF GoalInv, Marked
  <2>3. added' = added /\ claim' = claim
    BY <1>3 DEF ReconcileCreate, storeVars, counterVars
  <2> QED
    BY <1>3, <2>1, <2>2, <2>3
<1> QED
  BY <1>1, <1>2, <1>3, MatchMoves

LEMMA KeptNext ==
  ASSUME TypeOK, GoalInv, [Next]_vars
  PROVE  Kept'
<1> SUFFICES ASSUME NEW g \in Goals
             PROVE  /\ candidate'[g] # Nobody =>
                         /\ candidate'[g].goal = GoalId(g) /\ added'[g] = 1
                         /\ GoalId(g) \in goals' \/ candidate'[g].status = "REJECTED"
                    /\ candidate'[g] = Nobody /\ added'[g] = 1 => GoalId(g) \in goals'
  BY DEF Kept
<1>a. added \in [Goals -> Nat]
  BY DEF TypeOK, RowTypeOK
\* an addition is to a run without one; a removal takes the goal of a rejected candidate
<1>1. ASSUME NEW c \in Callers, Adds(c)
      PROVE  /\ goals \subseteq goals' /\ UNCHANGED candidate
             /\ added'[g] = 1 => added[g] = 1 \/ GoalId(g) \in goals'
             /\ added[g] = 1 => added'[g] = 1
  <2>1. UNCHANGED candidate
    BY <1>1 DEF Adds, storeVars
  <2> QED
    BY <1>1, <2>1, Numbered DEF GoalInv
<1>2. ASSUME NEW h \in Goals, Removes(h)
      PROVE  /\ UNCHANGED <<candidate, added>> /\ Rejected(h)
             /\ GoalId(g) \in goals /\ g # h => GoalId(g) \in goals'
  <2>1. UNCHANGED <<candidate, added>> /\ goals' = goals \ {candidate[h].goal}
    BY <1>2 DEF Removes, storeVars
  <2>2. Rejected(h)
    BY <1>2 DEF Removes, GoalInv, Cleaners
  <2>3. candidate[h].goal = GoalId(h)
    BY <2>2 DEF GoalInv, Kept, Rejected
  <2> QED
    BY <2>1, <2>2, <2>3 DEF GoalId
<1>3. CASE UNCHANGED candidate
  <2>1. CASE UNCHANGED <<goals, added>>
    BY <1>3, <2>1 DEF GoalInv, Kept
  <2>2. CASE \E c \in Callers : Adds(c)
    BY <1>1, <2>2 DEF GoalInv, Kept
  <2>3. CASE \E h \in Goals : Removes(h)
    BY <1>2, <2>3 DEF GoalInv, Kept, Rejected
  <2> QED
    BY <2>1, <2>2, <2>3, GoalsMoves
<1>4. CASE candidate' # candidate
  <2>1. UNCHANGED <<goals, added>>
    BY <1>1, <1>2, <1>4, GoalsMoves
  <2>2. CASE candidate'[g] = candidate[g]
    BY <2>1, <2>2 DEF GoalInv, Kept
  <2>3. CASE candidate[g] = Nobody /\ candidate'[g] # Nobody
    <3>1. PICK c \in Callers : /\ Matched(c, g) /\ candidate'[g].goal = call[c].found
                               /\ Reconcilable(Create(g))
      BY <2>3, CandidateMoves
    <3>2. candidate'[g].goal = GoalId(g) /\ added[g] = 1
      BY <3>1, OwnMatch DEF GoalInv
    <3> QED
      BY <2>1, <2>3, <3>2 DEF GoalInv, Kept
  <2>4. CASE /\ candidate[g] # Nobody /\ candidate'[g] # Nobody
             /\ candidate'[g].goal = candidate[g].goal
             /\ candidate[g].status = "REJECTED" => candidate'[g].status = "REJECTED"
    BY <2>1, <2>4 DEF GoalInv, Kept
  <2> QED
    BY <2>2, <2>3, <2>4, CandidateMoves
<1> QED
  BY <1>3, <1>4

LEMMA PaidNext ==
  ASSUME TypeOK, GoalInv, [Next]_vars
  PROVE  Paid'
<1> SUFFICES ASSUME NEW g \in Goals, Reconcilable(Create(g))' \/ added'[g] = 1
             PROVE  /\ reservation'[ReservationOf[g]].status \in {"RESERVED", "USED"}
                    /\ reservation'[ReservationOf[g]].key = Create(g)
  BY DEF Paid
<1>1. CASE Reconcilable(Create(g)) \/ added[g] = 1
  <2>1. ASSUME NEW c \in Callers, Creating(c, g), UNCHANGED <<goals, added>>,
               execution'[Create(g)].status = "NONE"
        PROVE  FALSE
    BY <2>1 DEF GoalInv, OneCreator, Reconcilable
  <2> QED
    BY <1>1, <2>1, ReservationMoves DEF GoalInv, Paid
<1>2. CASE ~Reconcilable(Create(g)) /\ added[g] # 1
  <2>1. ASSUME NEW c \in Callers, Adds(c) PROVE GoalOf(c) # g
    BY <1>2, <2>1 DEF Adds, GoalInv, Undecided
  <2>2. added'[g] # 1
    BY <1>2, <2>1, GoalsMoves, Numbered DEF GoalInv, Removes
  <2>3. PICK c \in Callers : BeginCreate(c) /\ GoalOf(c) = g
    BY <1>2, <2>2, CreationMoves DEF Reconcilable
  <2>4. reservation' = [reservation EXCEPT ![ReservationOf[g]] =
                          [status |-> "RESERVED", key |-> Create(g)]]
    BY <2>3 DEF BeginCreate
  <2> QED
    BY <2>4, GoalAssumption DEF TypeOK, RowTypeOK
<1> QED
  BY <1>1, <1>2

LEMMA CleanedNext ==
  ASSUME TypeOK, GoalInv, [Next]_vars
  PROVE  Cleaned' /\ Cleaners'
<1>1. ASSUME NEW g \in Goals, cleanup'[g] # Nobody
      PROVE  /\ Rejected(g)'
             /\ cleanup'[g].deleted => GoalId(g) \notin goals'
             /\ cleanup'[g].completed => cleanup'[g].deleted
  <2>1. CASE cleanup'[g] = cleanup[g]
    <3>1. Rejected(g) /\ (cleanup[g].deleted => GoalId(g) \notin goals)
          /\ (cleanup[g].completed => cleanup[g].deleted)
      BY <1>1, <2>1 DEF GoalInv, Cleaned
    <3> QED
      BY <2>1, <3>1, RejectedStays, GoneStays
  <2>2. CASE cleanup'[g] # cleanup[g]
    <3>1. PICK c \in Callers : Cleaning(c, g) /\ (cleanup'[g].deleted =>
            Confirmed(c) \/ (cleanup[g] # Nobody /\ cleanup[g].deleted))
      BY <2>2, CleanupMoves
    <3>2. Rejected(g) /\ (Confirmed(c) => GoalId(g) \notin goals)
      BY <3>1 DEF GoalInv, Cleaners
    <3>3. cleanup'[g].deleted => GoalId(g) \notin goals
      BY <3>1, <3>2 DEF GoalInv, Cleaned
    <3>4. cleanup'[g].completed => cleanup'[g].deleted
      BY <2>2, CleanupMoves DEF GoalInv, Cleaned
    <3> QED
      BY <3>2, <3>3, <3>4, RejectedStays, GoneStays
  <2> QED
    BY <2>1, <2>2
<1>2. ASSUME NEW d \in Callers, NEW g \in Goals, Cleaning(d, g)'
      PROVE  Rejected(g)' /\ (Confirmed(d)' => GoalId(g) \notin goals')
  <2>1. Rejected(g)
    BY <1>2, CleaningMoves DEF GoalInv, Cleaners
  <2>2. candidate[g].goal = GoalId(g)
    BY <2>1 DEF GoalInv, Kept, Rejected
  <2>3. ASSUME Confirmed(d)' PROVE GoalId(g) \notin goals'
    <3>1. CASE Cleaning(d, g) /\ Confirmed(d)
      BY <2>1, <3>1, GoneStays DEF GoalInv, Cleaners
    <3>2. CASE CleanGoalStep(d) /\ GoalOf(d) = g /\ candidate[g].goal \notin goals
      BY <2>1, <2>2, <3>2, GoneStays
    <3>3. CASE DeleteGoal(d) /\ GoalOf(d) = g
      BY <2>2, <3>3 DEF DeleteGoal
    <3>4. CASE BeginCleanup(d) /\ cleanup[g] # Nobody /\ cleanup[g].deleted
      BY <2>1, <3>4, GoneStays DEF GoalInv, Cleaned
    <3> QED
      BY <1>2, <2>3, <3>1, <3>2, <3>3, <3>4, CleaningMoves
  <2> QED
    BY <2>1, <2>3, RejectedStays
<1>3. Cleaned'
  BY <1>1 DEF Cleaned
<1>4. Cleaners'
  BY <1>2 DEF Cleaners
<1> QED
  BY <1>3, <1>4

LEMMA GoalInit == Init => GoalInv
<1> SUFFICES ASSUME Init PROVE GoalInv
  OBVIOUS
<1>1. \A c \in Callers : call[c] = NoCall
  BY DEF Init
<1>2. NoCall.pc = "idle" /\ NoCall.key = Nobody
  BY DEF NoCall
<1>3. \A c \in Callers, g \in Goals : ~Creating(c, g) /\ ~Matched(c, g) /\ ~Cleaning(c, g)
  BY <1>1, <1>2, Keys DEF Creating, CreatePoints, Matched, Cleaning, KeyOf
<1>4. \A g \in Goals : execution[Create(g)].status = "NONE"
  BY Keys DEF Init
<1> QED
  BY <1>3, <1>4
  DEF Init, GoalInv, OneCreator, OneEach, Applied, Claimed, Undecided, Marked, Matches,
      Kept, Paid, Cleaned, Cleaners, Reconcilable

LEMMA GoalNext ==
  ASSUME TypeOK, GoalInv, NoStaleMatch, [Next]_vars
  PROVE  GoalInv'
<1>1. OneCreator' /\ OneEach'
  BY CreatorNext DEF GoalInv
<1>2. Applied'
  BY AppliedNext DEF GoalInv
<1> QED
  BY <1>1, <1>2, ClaimedNext, UndecidedNext, MarkedNext, MatchesNext, KeptNext, PaidNext,
     CleanedNext DEF GoalInv

LEMMA GoalHolds == Spec /\ []NoStaleMatch => []GoalInv
<1>1. TypeOK /\ GoalInv /\ NoStaleMatch /\ [Next]_vars => GoalInv'
  BY GoalNext
<1> QED
  BY <1>1, GoalInit, TypeCorrect, PTL DEF Spec

\* Whatever runs at the same time, the runs have at most one goal with one event on
\* the counter, and one reservation never pays for two goals.
THEOREM OneGoalHolds == Spec /\ []NoStaleMatch => []OneGoalPerEvent
<1>1. TypeOK /\ GoalInv => OneGoalPerEvent
  <2> SUFFICES ASSUME TypeOK, GoalInv PROVE OneGoalPerEvent
    OBVIOUS
  <2>1. ASSUME NEW a \in goals, NEW b \in goals, SignatureOf[a[1]] = SignatureOf[b[1]]
        PROVE  a = b
    <3>1. a[1] \in Goals /\ b[1] \in Goals /\ a = GoalId(a[1]) /\ b = GoalId(b[1])
      BY DEF TypeOK, RowTypeOK, GoalInv, OneEach
    <3>2. claim[SignatureOf[a[1]]] = a[1] /\ claim[SignatureOf[b[1]]] = b[1]
      BY <3>1 DEF GoalInv, Marked
    <3> QED
      BY <2>1, <3>1, <3>2
  <2>2. ASSUME NEW g \in Goals, NEW h \in Goals, g # h, ReservationOf[g] = ReservationOf[h],
               added[g] > 0
        PROVE  added[h] = 0
    <3>1. added[g] = 1 /\ added[h] \in {0, 1}
      BY <2>2 DEF GoalInv, OneEach
    <3>2. added[h] # 1
      BY <2>2, <3>1, Keys DEF GoalInv, Paid
    <3> QED
      BY <3>1, <3>2
  <2> QED
    BY <2>1, <2>2 DEF OneGoalPerEvent
<1> QED
  BY <1>1, GoalHolds, TypeCorrect, PTL

\* A completed cleanup has deleted the goal of a rejected candidate, and no cleanup
\* takes the goal that optimization uses.
THEOREM CleanedIsGoneHolds == Spec /\ []NoStaleMatch => []CleanedIsGone
<1>1. TypeOK /\ GoalInv => CleanedIsGone
  <2> SUFFICES ASSUME TypeOK, GoalInv, NEW g \in Goals
               PROVE  /\ cleanup[g] # Nobody /\ cleanup[g].completed =>
                           candidate[g].status = "REJECTED" /\ \A goal \in goals : goal[1] # g
                      /\ OptimizationEligible(g) => candidate[g].goal \in goals
    BY DEF CleanedIsGone
  <2>1. ASSUME cleanup[g] # Nobody, cleanup[g].completed
        PROVE  candidate[g].status = "REJECTED" /\ \A goal \in goals : goal[1] # g
    BY <2>1 DEF GoalInv, Cleaned, Rejected, OneEach
  <2>2. OptimizationEligible(g) => candidate[g].goal \in goals
    BY DEF OptimizationEligible, GoalInv, Kept
  <2> QED
    BY <2>1, <2>2
<1> QED
  BY <1>1, GoalHolds, TypeCorrect, PTL

-----------------------------------------------------------------------------
(* Publications are not lost: a call that completes one has seen the event *)
(* where it is, and nobody publishes it any more.                          *)

Published ==
  /\ \A c \in Callers, g \in Goals : Publishing(c, g) => Reconcilable(Publish(g))
  /\ \A c \in Callers, g \in Goals : Seen(c, g) =>
       /\ execution[Publish(g)].status # "NONE" /\ live[g] \in {call[c].found, Nobody}
       /\ \A d \in Callers : ~Publishing(d, g)
  /\ \A g \in Goals : live[g] # Nobody =>
       \/ publication[g] = live[g] \/ Reconcilable(Publish(g))
       \/ cleanup[g] # Nobody /\ cleanup[g].completed

LEMMA CompletePublishEffect ==
  ASSUME TypeOK, NEW c \in Callers, CompletePublish(c)
  PROVE  /\ GoalOf(c) \in Goals /\ Seen(c, GoalOf(c)) /\ KeyOf(c) = Publish(GoalOf(c))
         /\ \/ UNCHANGED <<publication, authority, execution>>
            \/ publication' = [publication EXCEPT ![GoalOf(c)] = call[c].found]
<1>1. call[c].pc = "complete" /\ KeyOf(c) = Publish(GoalOf(c)) /\ CallTypeOK
  BY DEF CompletePublish, TypeOK
<1>2. GoalOf(c) \in Goals
  BY <1>1, WayAt
<1> QED
  BY <1>1, <1>2 DEF CompletePublish, Seen

\* The row of a publication moves only by its own calls.
LEMMA PublicationMoves ==
  ASSUME TypeOK, [Next]_vars, NEW g \in Goals
  PROVE  \/ execution'[Publish(g)].status = execution[Publish(g)].status
         \/ Reconcilable(Publish(g)) /\ Reconcilable(Publish(g))'
         \/ \E c \in Callers :
              \/ BeginPublish(c) /\ GoalOf(c) = g /\ execution[Publish(g)].status = "NONE"
                 /\ execution'[Publish(g)].status = "IN_FLIGHT"
              \/ Abort(c) /\ Publishing(c, g) /\ execution'[Publish(g)].status = "NONE"
              \/ CompletePublish(c) /\ Seen(c, g) /\ Reconcilable(Publish(g))
                 /\ execution'[Publish(g)].status = "APPLIED"
<1>a. /\ CallTypeOK /\ execution \in [ExecutionKeys -> ExecutionRow]
      /\ Publish(g) \in ExecutionKeys /\ execution[Publish(g)] \in ExecutionRow
  BY Keys DEF TypeOK, RowTypeOK
<1>1. CASE execution'[Publish(g)] = execution[Publish(g)]
  BY <1>1
<1>2. ASSUME NEW c \in Callers, KeyOf(c) = Publish(g), GoalOf(c) \in Goals
      PROVE  /\ Abort(c) => Publishing(c, g)
             /\ ~BeginCreate(c) /\ ~CompleteCreate(c)
             /\ BeginPublish(c) => GoalOf(c) = g
             /\ CompletePublish(c) => Seen(c, g)
  <2>1. Abort(c) => Publishing(c, g)
    BY <1>2 DEF Abort, Publishing, PublishPoints
  <2>2. ~BeginCreate(c) /\ ~CompleteCreate(c)
    BY <1>a, <1>2, WayOf, Keys DEF BeginCreate, CompleteCreate, Creates, KeyOf
  <2>3. BeginPublish(c) => GoalOf(c) = g
    BY <1>a, <1>2, WayOf, Keys, ZenonT(60) DEF BeginPublish, Publishes, KeyOf
  <2>4. CompletePublish(c) => Seen(c, g)
    BY <1>2 DEF CompletePublish, Seen
  <2> QED
    BY <2>1, <2>2, <2>3, <2>4
<1>3. ASSUME execution[Publish(g)].status = "IN_FLIGHT",
             execution'[Publish(g)] = [execution[Publish(g)] EXCEPT !.status = "UNKNOWN_RESULT"]
      PROVE  Reconcilable(Publish(g)) /\ Reconcilable(Publish(g))'
  BY <1>a, <1>3 DEF ExecutionRow, Reconcilable
<1> QED
  BY <1>a, <1>1, <1>2, <1>3, ExecutionMoves

\* Nobody begins to publish an event whose execution is open or applied.
LEMMA NoNewPublisher ==
  ASSUME TypeOK, [Next]_vars, NEW d \in Callers, NEW g \in Goals, Publishing(d, g)',
         execution[Publish(g)].status # "NONE"
  PROVE  Publishing(d, g)
BY PublisherMoves DEF BeginPublish

LEMMA LiveMoves ==
  ASSUME TypeOK, [Next]_vars, NEW g \in Goals
  PROVE  \/ live'[g] = live[g] \/ live'[g] = Nobody
         \/ \E c \in Callers : Publishing(c, g) /\ UNCHANGED execution
<1>1. live \in [Goals -> Seq(Goals) \cup {Nobody}]
  BY DEF TypeOK, RowTypeOK
<1> QED
  BY <1>1, SiteMoves DEF Installs, TakesBack, siteVars

LEMMA PublishedNext ==
  ASSUME TypeOK, OnePublisher, Published, [Next]_vars
  PROVE  Published'
<1>1. ASSUME NEW d \in Callers, NEW g \in Goals, Publishing(d, g)'
      PROVE  Reconcilable(Publish(g))'
  <2>1. CASE BeginPublish(d) /\ GoalOf(d) = g
    BY <2>1, Keys DEF BeginPublish, TypeOK, RowTypeOK, Reconcilable
  <2>2. CASE Publishing(d, g)
    <3>1. Reconcilable(Publish(g))
      BY <2>2 DEF Published
    <3>2. ASSUME NEW c \in Callers, Abort(c), Publishing(c, g) PROVE FALSE
      <4>1. c = d
        BY <2>2, <3>2 DEF OnePublisher
      <4> QED
        BY <1>1, <3>2, <4>1, ReturnEnds DEF Abort, Publishing, PublishPoints
    <3>3. ASSUME NEW c \in Callers, Seen(c, g) PROVE FALSE
      BY <2>2, <3>3 DEF Published
    <3> QED
      BY <3>1, <3>2, <3>3, PublicationMoves DEF Reconcilable
  <2> QED
    BY <1>1, <2>1, <2>2, PublisherMoves
<1>2. ASSUME NEW d \in Callers, NEW g \in Goals, Seen(d, g)'
      PROVE  /\ execution'[Publish(g)].status # "NONE" /\ live'[g] \in {call'[d].found, Nobody}
             /\ \A e \in Callers : ~Publishing(e, g)'
  <2>1. CASE Seen(d, g) /\ call'[d].found = call[d].found
    <3>1. /\ execution[Publish(g)].status # "NONE" /\ live[g] \in {call[d].found, Nobody}
          /\ \A e \in Callers : ~Publishing(e, g)
      BY <2>1 DEF Published
    <3>2. execution'[Publish(g)].status # "NONE"
      BY <3>1, PublicationMoves DEF Reconcilable
    <3> QED
      BY <2>1, <3>1, <3>2, LiveMoves, NoNewPublisher
  <2>2. CASE Publishing(d, g) /\ live' = [live EXCEPT ![g] = call'[d].found]
             /\ UNCHANGED execution
    <3>1. execution[Publish(g)].status # "NONE"
      BY <2>2 DEF OnePublisher
    <3>2. live'[g] = call'[d].found
      BY <2>2 DEF TypeOK, RowTypeOK
    <3>3. ASSUME NEW e \in Callers, Publishing(e, g)' PROVE FALSE
      <4>1. Publishing(e, g)
        BY <3>1, <3>3, NoNewPublisher
      <4>2. e = d
        BY <2>2, <4>1 DEF OnePublisher
      <4> QED
        BY <1>2, <3>3, <4>2 DEF Seen, Publishing, PublishPoints
    <3> QED
      BY <2>2, <3>1, <3>2, <3>3
  <2>3. CASE ReconcilePublish(d) /\ live[g] # Nobody /\ call'[d].found = live[g]
    <3>1. execution[Publish(g)].status # "NONE"
      BY <2>3 DEF OnePublisher
    <3>2. UNCHANGED <<execution, live>>
      BY <2>3 DEF ReconcilePublish, storeVars, siteVars
    <3>3. ASSUME NEW e \in Callers, Publishing(e, g)' PROVE FALSE
      <4>1. Publishing(e, g)
        BY <3>1, <3>3, NoNewPublisher
      <4> QED
        BY <2>3, <4>1 DEF OnePublisher
    <3> QED
      BY <2>3, <3>1, <3>2, <3>3
  <2> QED
    BY <1>2, <2>1, <2>2, <2>3, SeenMoves
<1>3. ASSUME NEW g \in Goals, live'[g] # Nobody
      PROVE  \/ publication'[g] = live'[g] \/ Reconcilable(Publish(g))'
             \/ cleanup'[g] # Nobody /\ cleanup'[g].completed
  <2>1. CASE \E c \in Callers : Publishing(c, g) /\ UNCHANGED execution
    BY <2>1 DEF Published, Reconcilable
  <2>2. CASE live'[g] = live[g]
    <3>1. CASE publication[g] = live[g]
      <4>1. ASSUME NEW c \in Callers, CompletePublish(c), publication'[g] # publication[g]
            PROVE  publication'[g] = live[g]
        <5>1. /\ GoalOf(c) \in Goals /\ Seen(c, GoalOf(c))
              /\ publication' = [publication EXCEPT ![GoalOf(c)] = call[c].found]
          BY <4>1, CompletePublishEffect
        <5>2. GoalOf(c) = g /\ publication'[g] = call[c].found
          BY <4>1, <5>1 DEF TypeOK, RowTypeOK
        <5> QED
          BY <1>3, <2>2, <5>1, <5>2 DEF Published
      <4>2. ASSUME NEW c \in Callers, FinishCleanup(c), publication'[g] # publication[g]
            PROVE  cleanup'[g] # Nobody /\ cleanup'[g].completed
        <5>1. /\ GoalOf(c) \in Goals /\ Deletes(c, GoalOf(c))
              /\ publication' = [publication EXCEPT ![GoalOf(c)] = Nobody]
              /\ cleanup' = [cleanup EXCEPT ![GoalOf(c)].completed = TRUE]
          BY <4>2, WayOf, WayAt DEF FinishCleanup, TypeOK
        <5>2. GoalOf(c) = g
          BY <4>2, <5>1 DEF TypeOK, RowTypeOK
        <5>3. cleanup[g] \in CleanupRow /\ cleanup'[g] = [cleanup[g] EXCEPT !.completed = TRUE]
          BY <5>1, <5>2 DEF Deletes, TypeOK, RowTypeOK
        <5>4. cleanup'[g] \in CleanupRow /\ cleanup'[g].completed
          BY <5>3 DEF CleanupRow
        <5> QED
          BY <5>4, Blank
      <4> QED
        BY <2>2, <3>1, <4>1, <4>2, PublicationFrame
    <3>2. CASE Reconcilable(Publish(g))
      <4>1. ASSUME NEW c \in Callers, Publishing(c, g) PROVE FALSE
        BY <1>3, <2>2, <4>1 DEF OnePublisher
      <4>2. ASSUME NEW c \in Callers, CompletePublish(c), Seen(c, g), ~UNCHANGED execution
            PROVE  publication'[g] = live[g]
        <5>1. /\ GoalOf(c) \in Goals /\ KeyOf(c) = Publish(GoalOf(c))
              /\ publication' = [publication EXCEPT ![GoalOf(c)] = call[c].found]
          BY <4>2, CompletePublishEffect
        <5>2. GoalOf(c) = g
          BY <4>2, <5>1, Keys DEF Seen
        <5>3. publication'[g] = call[c].found
          BY <5>1, <5>2 DEF TypeOK, RowTypeOK
        <5> QED
          BY <1>3, <2>2, <4>2, <5>3 DEF Published
      <4> QED
        BY <2>2, <3>2, <4>1, <4>2, PublicationMoves DEF Reconcilable
    <3>3. CASE cleanup[g] # Nobody /\ cleanup[g].completed
      BY <3>3, CleanupMoves
    <3> QED
      BY <1>3, <2>2, <3>1, <3>2, <3>3 DEF Published
  <2> QED
    BY <1>3, <2>1, <2>2, LiveMoves
<1> QED
  BY <1>1, <1>2, <1>3 DEF Published

LEMMA PublishedInit == Init => Published
<1> SUFFICES ASSUME Init PROVE Published
  OBVIOUS
<1>1. \A c \in Callers : call[c].pc = "idle"
  BY DEF Init, NoCall
<1> QED
  BY <1>1 DEF Init, Published, Publishing, PublishPoints, Seen

\* A goal on the counter is the goal of its run's candidate, or its creation is still
\* open; the same for an event on the page, unless it was published after a cleanup
\* that had found none.
THEOREM NoLostTargetHolds == Spec /\ []NoStaleMatch => []NoLostTarget
<1>1. TypeOK /\ GoalInv /\ Published => NoLostTarget
  <2> SUFFICES ASSUME TypeOK, GoalInv, Published PROVE NoLostTarget
    OBVIOUS
  <2>1. ASSUME NEW goal \in goals
        PROVE  \/ candidate[goal[1]] # Nobody /\ candidate[goal[1]].goal = goal
               \/ Reconcilable(Create(goal[1]))
    <3>1. goal[1] \in Goals /\ goal = GoalId(goal[1]) /\ added[goal[1]] = 1
      BY DEF TypeOK, RowTypeOK, GoalInv, OneEach
    <3>2. CASE candidate[goal[1]] # Nobody
      BY <3>1, <3>2 DEF GoalInv, Kept
    <3>3. CASE candidate[goal[1]] = Nobody
      <4>1. execution[Create(goal[1])].status \notin {"NONE", "APPLIED"}
        BY <3>1, <3>3 DEF GoalInv, OneCreator, Applied
      <4>2. execution[Create(goal[1])] \in ExecutionRow
        BY <3>1, Keys DEF TypeOK, RowTypeOK
      <4> QED
        BY <4>1, <4>2 DEF ExecutionRow, Statuses, Reconcilable
    <3> QED
      BY <3>2, <3>3
  <2> QED
    BY <2>1 DEF NoLostTarget, Published
<1>2. TypeOK /\ OnePublisher /\ Published /\ [Next]_vars => OnePublisher' /\ Published'
  BY PublisherNext, PublishedNext
<1> QED
  BY <1>1, <1>2, GoalHolds, TypeCorrect, PublisherInit, PublishedInit, PTL DEF Spec

-----------------------------------------------------------------------------
(* Authority.  While a call creates or publishes, the authority it reserved *)
(* is held for it and still says what its human signed.                    *)

Authorised ==
  /\ \A c \in Callers, g \in Goals : Creating(c, g) =>
       /\ HeldBy(call[c].authority, Create(g))
       /\ authority[call[c].authority].signed.binding = Create(g)
       /\ authority[call[c].authority].signed.principal =
            RoleHolder(authority[call[c].authority].signed.kind)
  /\ \A c \in Callers, g \in Goals : Publishing(c, g) =>
       /\ HeldBy(call[c].authority, Publish(g))
       /\ authority[call[c].authority].signed.binding = PublishPlan(g, call[c].version)

\* the calls that use an authority name one
LEMMA Named ==
  ASSUME TypeOK, NEW c \in Callers, NEW g \in Goals
  PROVE  Creating(c, g) \/ Publishing(c, g) => call[c].authority \in Authorities /\ GoalOf(c) = g
<1> SUFFICES ASSUME Creating(c, g) \/ Publishing(c, g)
             PROVE  call[c].authority \in Authorities /\ GoalOf(c) = g
  OBVIOUS
<1>a. CallTypeOK
  BY DEF TypeOK
<1>1. GoalOf(c) \in Goals
  BY <1>a, WayAt DEF Creating, CreatePoints, Publishing, PublishPoints
<1>2. \/ Creates(c, GoalOf(c)) \/ Publishes(c, GoalOf(c))
      \/ RollsBack(c, GoalOf(c)) \/ Deletes(c, GoalOf(c))
  BY <1>a, WayOf DEF Creating, CreatePoints, Publishing, PublishPoints
<1>3. KeyOf(c) \in {Create(g), Publish(g)}
  BY DEF Creating, Publishing
<1> QED
  BY <1>1, <1>2, <1>3, Keys DEF Creates, Publishes, RollsBack, Deletes, KeyOf

LEMMA AuthorisedNext ==
  ASSUME TypeOK, GoalInv, OnePublisher, Published, Authorised, [Next]_vars
  PROVE  Authorised'
<1>1. ASSUME NEW d \in Callers, NEW g \in Goals, Creating(d, g)'
      PROVE  /\ HeldBy(call[d].authority, Create(g))'
             /\ authority'[call'[d].authority].signed.binding = Create(g)
             /\ authority'[call'[d].authority].signed.principal =
                  RoleHolder(authority'[call'[d].authority].signed.kind)
  <2> DEFINE a == call[d].authority
  <2>a. call'[d].authority = a /\ Create(g) \in ExecutionKeys
    BY <1>1, CreatorMoves, Keys
  <2>1. CASE BeginCreate(d) /\ GoalOf(d) = g
    <3>1. a \in Authorities /\ MayReserve(a, Create(g)) /\ authority' = Reserved(a, Create(g))
      BY <2>1, WayOf DEF BeginCreate, TypeOK, Creates
    <3>2. /\ HeldBy(a, Create(g))' /\ authority'[a].signed.binding = Create(g)
          /\ authority'[a].signed.principal = RoleHolder(authority'[a].signed.kind)
      BY <2>a, <3>1, ReserveSigned
    <3> QED
      BY <2>a, <3>2 DEF HeldBy
  <2>2. CASE Creating(d, g)
    <3>1. /\ a \in Authorities /\ HeldBy(a, Create(g))
          /\ authority[a].signed.binding = Create(g)
          /\ authority[a].signed.principal = RoleHolder(authority[a].signed.kind)
          /\ added[g] = 0
      BY <2>2, Named DEF Authorised, GoalInv, OneCreator
    <3>2. ASSUME NEW c \in Callers, KeyOf(c) = Create(g), Abort(c) PROVE FALSE
      <4>1. c = d
        BY <2>2, <3>2 DEF Abort, Creating, CreatePoints, GoalInv, OneCreator
      <4> QED
        BY <1>1, <3>2, <4>1, ReturnEnds DEF Abort, Creating, CreatePoints
    <3>3. ASSUME NEW c \in Callers, KeyOf(c) = Create(g), Reconcilable(Create(g)),
                 CompleteCreate(c) \/ CompletePublish(c)
          PROVE  FALSE
      <4>1. ~CompletePublish(c)
        BY <3>3, CompletePublishEffect, Keys
      <4>2. Matched(c, g)
        BY <3>3, <4>1 DEF CompleteCreate, Matched
      <4> QED
        BY <3>1, <3>3, <4>2, OwnMatch DEF GoalInv
    <3>4. HeldBy(a, Create(g))' /\ authority'[a].signed = authority[a].signed
      BY <2>a, <3>1, <3>2, <3>3, AuthorityMoves
    <3> QED
      BY <2>a, <3>1, <3>4 DEF HeldBy
  <2> QED
    BY <1>1, <2>1, <2>2, CreatorMoves
<1>2. ASSUME NEW d \in Callers, NEW g \in Goals, Publishing(d, g)'
      PROVE  /\ HeldBy(call[d].authority, Publish(g))'
             /\ authority'[call'[d].authority].signed.binding = PublishPlan(g, call'[d].version)
  <2> DEFINE a == call[d].authority
             v == call[d].version
  <2>a. call'[d].authority = a /\ call'[d].version = v /\ Publish(g) \in ExecutionKeys
    BY <1>2, PublisherMoves, Keys
  <2>1. CASE BeginPublish(d) /\ GoalOf(d) = g
    <3>1. /\ a \in Authorities /\ MayReserve(a, PublishPlan(g, v))
          /\ authority' = Reserved(a, Publish(g))
      BY <2>1, WayOf DEF BeginPublish, TypeOK, Publishes
    <3>2. HeldBy(a, Publish(g))' /\ authority'[a].signed.binding = PublishPlan(g, v)
      BY <2>a, <3>1, ReserveSigned
    <3> QED
      BY <2>a, <3>2 DEF HeldBy
  <2>2. CASE Publishing(d, g)
    <3>1. /\ a \in Authorities /\ HeldBy(a, Publish(g))
          /\ authority[a].signed.binding = PublishPlan(g, v)
      BY <2>2, Named DEF Authorised
    <3>2. ASSUME NEW c \in Callers, KeyOf(c) = Publish(g), Abort(c) PROVE FALSE
      <4>1. c = d
        BY <2>2, <3>2 DEF Abort, Publishing, PublishPoints, OnePublisher
      <4> QED
        BY <1>2, <3>2, <4>1, ReturnEnds DEF Abort, Publishing, PublishPoints
    <3>3. ASSUME NEW c \in Callers, KeyOf(c) = Publish(g),
                 CompleteCreate(c) \/ CompletePublish(c)
          PROVE  FALSE
      <4>1. ~CompleteCreate(c)
        <5>1. ASSUME CompleteCreate(c) PROVE FALSE
          <6>1. GoalOf(c) \in Goals /\ KeyOf(c) = Create(GoalOf(c))
            BY <5>1, CompleteEffect DEF Matched
          <6> QED
            BY <3>3, <6>1, Keys
        <5> QED
          BY <5>1
      <4>2. Seen(c, g)
        BY <3>3, <4>1 DEF CompletePublish, Seen
      <4> QED
        BY <2>2, <4>2 DEF Published
    <3>4. HeldBy(a, Publish(g))' /\ authority'[a].signed = authority[a].signed
      BY <2>a, <3>1, <3>2, <3>3, AuthorityMoves
    <3> QED
      BY <2>a, <3>1, <3>4 DEF HeldBy
  <2> QED
    BY <1>2, <2>1, <2>2, PublisherMoves
<1> QED
  BY <1>1, <1>2 DEF Authorised

LEMMA AuthorisedInit == Init => Authorised
<1> SUFFICES ASSUME Init PROVE Authorised
  OBVIOUS
<1>1. \A c \in Callers : call[c].pc = "idle"
  BY DEF Init, NoCall
<1> QED
  BY <1>1 DEF Authorised, Publishing, PublishPoints, Creating, CreatePoints

\* An external goal or event appears only while an authority is reserved for exactly
\* that operation, signed for exactly that plan by the human of its role; a goal
\* disappears only when the human rejected its candidate.
THEOREM TargetsFollowHumansHolds == Spec /\ []NoStaleMatch => TargetsFollowHumans
<1> DEFINE A ==
      /\ \A goal \in goals' \ goals : \E a \in Authorities :
           /\ HeldBy(a, Create(goal[1]))
           /\ authority[a].signed.binding = Create(goal[1])
           /\ authority[a].signed.principal = RoleHolder(authority[a].signed.kind)
      /\ \A g \in Goals : live[g] = Nobody /\ live'[g] # Nobody => \E a \in Authorities :
           HeldBy(a, Publish(g)) /\ authority[a].signed.binding = PublishPlan(g, page)
      /\ \A goal \in goals \ goals' : candidate[goal[1]].status = "REJECTED"
<1>1. ASSUME TypeOK, GoalInv, Authorised, [Next]_vars PROVE A
  <2>1. ASSUME NEW goal \in goals' \ goals
        PROVE  \E a \in Authorities :
                 /\ HeldBy(a, Create(goal[1]))
                 /\ authority[a].signed.binding = Create(goal[1])
                 /\ authority[a].signed.principal = RoleHolder(authority[a].signed.kind)
    <3>1. PICK c \in Callers : Adds(c)
      BY <1>1, <2>1, GoalsMoves DEF Removes
    <3>2. goal = GoalId(GoalOf(c)) /\ GoalOf(c) \in Goals /\ Creating(c, GoalOf(c))
      BY <1>1, <2>1, <3>1, Numbered DEF GoalInv, Adds
    <3>3. goal[1] = GoalOf(c)
      BY <3>2 DEF GoalId
    <3> QED
      BY <1>1, <3>2, <3>3, Named DEF Authorised
  <2>2. ASSUME NEW g \in Goals, live[g] = Nobody, live'[g] # Nobody
        PROVE  \E a \in Authorities :
                 HeldBy(a, Publish(g)) /\ authority[a].signed.binding = PublishPlan(g, page)
    <3>1. PICK c \in Callers : Install(c) /\ Publishing(c, g) /\ call[c].version = page
      <4>1. ASSUME NEW c \in Callers, CallStep(c), ~Install(c), ~RollBack(c) PROVE UNCHANGED live
        BY <4>1, ZenonT(60)
        DEF CallStep, Authorize, Recheck, Refuse, Abort, MarkUnknown, BeginCreate,
            ContinueCreate, RejectDuplicate, AddGoal, ReconcileCreate, CompleteCreate,
            BeginPublish, ContinuePublish, CheckVersion, ReconcilePublish,
            CompletePublish, Poll, SetTechnicalStatus, SetSemanticStatus, BeginCleanup,
            CleanPublicationStep, MarkRolledBack, CleanGoalStep, DeleteGoal,
            MarkDeleted, FinishCleanup, siteVars
      <4>2. ASSUME ~(\E c \in Callers : CallStep(c)) PROVE UNCHANGED live
        BY <1>1, <4>2
        DEF Next, Crash, OpenCreate, OpenPublish, OpenVerify, OpenCleanup, OpenDecide,
            RegisterAuthority, AlterAuthority, RegisterReservation, SetOptimizationGate,
            SetKillSwitch, Expire, ForeignGoal, vars, siteVars
      <4>3. ASSUME NEW c \in Callers, RollBack(c) PROVE live'[g] \in {live[g], Nobody}
        BY <1>1, <4>3 DEF RollBack, siteVars, TypeOK, RowTypeOK
      <4>4. PICK c \in Callers : Install(c)
        BY <2>2, <4>1, <4>2, <4>3
      <4>5. /\ GoalOf(c) \in Goals /\ Publishes(c, GoalOf(c)) /\ call[c].pc = "install"
            /\ StillExpected(call[c].version)
            /\ live' = [live EXCEPT ![GoalOf(c)] = call[c].version]
        BY <1>1, <2>2, <4>4, WayOf, WayAt DEF Install, TypeOK, siteVars
      <4>6. g = GoalOf(c)
        BY <1>1, <2>2, <4>5 DEF TypeOK, RowTypeOK
      <4> QED
        BY <4>4, <4>5, <4>6, SMTT(30) DEF StillExpected, Publishing, PublishPoints, Publishes, KeyOf
    <3> QED
      BY <1>1, <3>1, Named DEF Authorised
  <2>3. ASSUME NEW goal \in goals \ goals' PROVE candidate[goal[1]].status = "REJECTED"
    <3>1. PICK g \in Goals : Removes(g)
      BY <1>1, <2>3, GoalsMoves DEF Adds
    <3>2. Rejected(g) /\ candidate[g].goal = GoalId(g) /\ goal = candidate[g].goal
      BY <1>1, <2>3, <3>1 DEF Removes, GoalInv, Cleaners, Kept, Rejected
    <3> QED
      BY <3>2 DEF GoalId, Rejected
  <2> QED
    BY <2>1, <2>2, <2>3
<1>2. TypeOK /\ OnePublisher /\ Published /\ GoalInv /\ Authorised /\ [Next]_vars
        => OnePublisher' /\ Published' /\ Authorised'
  BY PublisherNext, PublishedNext, AuthorisedNext
<1>3. TypeOK /\ GoalInv /\ Authorised /\ [Next]_vars => [A]_vars
  BY <1>1
<1>4. Spec /\ []NoStaleMatch => [][A]_vars
  <2> HIDE DEF A
  <2> QED
    BY <1>2, <1>3, GoalHolds, TypeCorrect, PublisherInit, PublishedInit, AuthorisedInit, PTL
    DEF Spec
<1> QED
  BY <1>4 DEF TargetsFollowHumans

=============================================================================
