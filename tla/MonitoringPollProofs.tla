------------------------- MODULE MonitoringPollProofs -------------------------
(***************************************************************************)
(* Theorems about MonitoringPoll, for every set of pollers, snapshots and  *)
(* reasons, every interval, lease, freshness and quiet window.             *)
(***************************************************************************)
EXTENDS MonitoringPoll, FiniteSetTheorems, TLAPS

\* A poll between its claim and its end holds a generation, at most the latest
\* one, that no other poll has.
Working == Points \ {"idle", "claim"}
ClaimsUnique ==
  /\ \A c \in Pollers : gen[c] <= generation
  /\ \A c \in Pollers : pc[c] \in Working <=> gen[c] # 0
  /\ \A c, d \in Pollers : c # d /\ gen[c] = gen[d] => gen[c] = 0

\* Whoever holds the claim was due when it claimed, and still is.
HolderDue ==
  /\ \A c \in Pollers : evaluatedAt[c] <= clock
  /\ \A c \in Pollers : pc[c] \in Working /\ Holds(c) => Due(evaluatedAt[c])

\* What a poll would propose was judged at its evaluated_at.
ReasonsJudged ==
  \A c \in Pollers :
    /\ pc[c] \in {"renew_evaluated", "renew_judged", "persist"}
    /\ read[c].reasons # {}
    => MayPropose(c, evaluatedAt[c])

Stored == {u \in Snapshots : version[u] # 0}
SeriesStored(s) ==
  {u \in Snapshots : SeriesOf[u] = SeriesOf[s] /\ version[u] # 0}
VersionsCounted == VersionsDense /\ IsFiniteSet(Stored)

IInv ==
  TypeOK /\ ClaimsUnique /\ HolderDue /\ ReasonsJudged /\ VersionsCounted

-----------------------------------------------------------------------------
(* Versions.                                                               *)

LEMMA SeriesFinite ==
  ASSUME IsFiniteSet(Stored), NEW s \in Snapshots
  PROVE  /\ IsFiniteSet(SeriesStored(s))
         /\ Cardinality(SeriesStored(s)) \in Nat
<1>1. SeriesStored(s) \subseteq Stored
  BY DEF SeriesStored, Stored
<1> QED
  BY <1>1, FS_Subset, FS_CardinalityType

\* While versions are dense, the next version of a series is one more than the
\* number of snapshots stored in it.
LEMMA NextVersionCounts ==
  ASSUME version \in [Snapshots -> Nat], VersionsCounted,
         NEW s \in Snapshots, version[s] = 0
  PROVE  NextVersion(s) = Cardinality(SeriesStored(s)) + 1
<1> DEFINE n == Cardinality(SeriesStored(s))
           same == {version[u] : u \in {u \in Snapshots :
                                          SeriesOf[u] = SeriesOf[s]}}
<1>1. n \in Nat
  BY SeriesFinite DEF VersionsCounted
<1>2. {version[u] : u \in SeriesStored(s)} = 1..n
  BY DEF VersionsCounted, VersionsDense, SeriesStored
<1>3. same = 0..n
  <2>1. same = {0} \cup {version[u] : u \in SeriesStored(s)}
    BY DEF SeriesStored
  <2> QED
    BY <1>1, <1>2, <2>1
<1>4. n \in same /\ \A k \in same : k <= n
  BY <1>1, <1>3
<1>5. \A m \in same : (\A k \in same : k <= m) => m = n
  BY <1>1, <1>3, SMTT(30)
<1> HIDE DEF same, n
<1>6. (CHOOSE m \in same : \A k \in same : k <= m) = n
  BY <1>4, <1>5
<1>7. NextVersion(s) = 1 + (CHOOSE m \in same : \A k \in same : k <= m)
  BY DEF NextVersion, same
<1>8. NextVersion(s) = 1 + n
  BY <1>6, <1>7, Zenon
<1>9. NextVersion(s) = n + 1
  BY <1>1, <1>8
<1> QED
  BY <1>9 DEF n

\* Storing a new snapshot under the next version keeps the versions dense.
LEMMA StoreNext ==
  ASSUME version \in [Snapshots -> Nat], VersionsCounted,
         NEW s \in Snapshots, version[s] = 0,
         version' = [version EXCEPT ![s] = NextVersion(s)]
  PROVE  version' \in [Snapshots -> Nat] /\ VersionsCounted'
<1> DEFINE n == Cardinality(SeriesStored(s))
<1>1. n \in Nat
  BY SeriesFinite DEF VersionsCounted
<1>2. version' = [version EXCEPT ![s] = n + 1]
  BY NextVersionCounts
<1>3. version' \in [Snapshots -> Nat]
  BY <1>1, <1>2
<1>4. Stored' = Stored \cup {s}
  BY <1>1, <1>2 DEF Stored
<1>5. IsFiniteSet(Stored')
  BY <1>4, FS_AddElement DEF VersionsCounted
<1>6. ASSUME NEW t \in Snapshots
      PROVE  {version'[u] : u \in SeriesStored(t)'}
               = 1..Cardinality(SeriesStored(t)')
  <2>1. CASE SeriesOf[t] = SeriesOf[s]
    <3>1. SeriesStored(t) = SeriesStored(s)
      BY <2>1 DEF SeriesStored
    <3>2. SeriesStored(t)' = SeriesStored(s) \cup {s}
      <4>1. \A u \in Snapshots : version'[u] # 0 <=> version[u] # 0 \/ u = s
        BY <1>1, <1>2
      <4>2. SeriesStored(t)' = {u \in Snapshots :
                                  SeriesOf[u] = SeriesOf[t] /\ version'[u] # 0}
        BY DEF SeriesStored
      <4> QED
        BY <2>1, <4>1, <4>2 DEF SeriesStored
    <3>3. s \notin SeriesStored(s)
      BY DEF SeriesStored
    <3>4. Cardinality(SeriesStored(t)') = n + 1
      BY <3>2, <3>3, SeriesFinite, FS_AddElement, ZenonT(60) DEF VersionsCounted
    <3>5. \A u \in SeriesStored(s) : version'[u] = version[u]
      BY <1>2, <3>3 DEF SeriesStored
    <3>6. {version'[u] : u \in SeriesStored(t)'}
            = {version[u] : u \in SeriesStored(s)} \cup {n + 1}
      BY <1>2, <3>2, <3>3, <3>5
    <3>7. {version[u] : u \in SeriesStored(s)} = 1..n
      BY DEF VersionsCounted, VersionsDense, SeriesStored
    <3> QED
      BY <1>1, <3>4, <3>6, <3>7
  <2>2. CASE SeriesOf[t] # SeriesOf[s]
    <3>1. SeriesStored(t)' = SeriesStored(t)
      BY <1>2, <2>2 DEF SeriesStored
    <3>2. \A u \in SeriesStored(t) : version'[u] = version[u]
      BY <1>2, <2>2 DEF SeriesStored
    <3> QED
      BY <3>1, <3>2 DEF VersionsCounted, VersionsDense, SeriesStored
  <2> QED
    BY <2>1, <2>2
<1>7. VersionsDense'
  BY <1>6 DEF VersionsDense, SeriesStored
<1> QED
  BY <1>3, <1>5, <1>7 DEF VersionsCounted

-----------------------------------------------------------------------------
(* The inductive invariant.                                                *)

LEMMA InvInit == Init => IInv
<1> SUFFICES ASSUME Init PROVE IInv
  OBVIOUS
<1> USE PollAssumption DEF PollAssumption, Init
<1>1. TypeOK
  <2>1. claimed \in BOOLEAN
    BY Zenon
  <2> QED
    BY <2>1 DEF TypeOK, Time, Points
<1>2. ClaimsUnique
  BY DEF ClaimsUnique, Working, Points
<1>3. HolderDue
  BY DEF HolderDue, Working
<1>4. ReasonsJudged
  BY DEF ReasonsJudged
<1>5. VersionsCounted
  <2>1. Stored = {}
    BY DEF Stored
  <2>2. \A s \in Snapshots :
          {u \in Snapshots : SeriesOf[u] = SeriesOf[s] /\ version[u] # 0} = {}
    OBVIOUS
  <2>3. VersionsDense
    BY <2>2, FS_EmptySet DEF VersionsDense
  <2> QED
    BY <2>1, <2>3, FS_EmptySet DEF VersionsCounted
<1> QED
  BY <1>1, <1>2, <1>3, <1>4, <1>5 DEF IInv

\* The end of a poll clears its locals.
LEMMA DoneKeeps ==
  ASSUME IInv, NEW c \in Pollers, Done(c)
  PROVE  /\ pc' \in [Pollers -> Points] /\ gen' \in [Pollers -> Nat]
         /\ readAt' \in [Pollers -> Time] /\ evaluatedAt' \in [Pollers -> Time]
         /\ read' \in [Pollers -> MonitoringRead \cup {NotRead}]
         /\ pc'[c] = "idle" /\ gen'[c] = 0 /\ evaluatedAt'[c] = 0
         /\ \A d \in Pollers \ {c} :
              /\ pc'[d] = pc[d] /\ gen'[d] = gen[d] /\ read'[d] = read[d]
              /\ evaluatedAt'[d] = evaluatedAt[d] /\ readAt'[d] = readAt[d]
BY PollAssumption DEF PollAssumption, IInv, TypeOK, Done, Points, Time

\* So it keeps the types of the locals and the claims of the others.
LEMMA DoneTyped ==
  ASSUME IInv, NEW c \in Pollers, Done(c), generation' = generation,
         clock' = clock,
         lastCompleted' \in Time \cup {NoTime}, claimed' \in BOOLEAN,
         leaseUntil' \in 0..(MaxClock + Lease), UNCHANGED lastWrite,
         version' \in [Snapshots -> Nat],
         content' \in [Snapshots -> Contents \cup {NoSnapshot}],
         active' \subseteq Snapshots \X Reasons
  PROVE  TypeOK' /\ ClaimsUnique' /\ ReasonsJudged'
<1>1. TypeOK'
  BY DoneKeeps DEF IInv, TypeOK
<1>2. ClaimsUnique'
  BY DoneKeeps, SMTT(30) DEF IInv, ClaimsUnique, Working, TypeOK
<1>3. ReasonsJudged'
  BY DoneKeeps DEF IInv, ReasonsJudged, MayPropose
<1> QED
  BY <1>1, <1>2, <1>3

\* A step that leaves the snapshots alone keeps what is said of them.
LEMMA VersionsKept ==
  ASSUME IInv, UNCHANGED version
  PROVE  VersionsCounted'
BY DEF IInv, VersionsCounted, VersionsDense, Stored

LEMMA InvNext == IInv /\ [Next]_vars => IInv'
<1> SUFFICES ASSUME IInv, [Next]_vars PROVE IInv'
  OBVIOUS
<1> USE PollAssumption
    DEF PollAssumption, rowVars, storeVars, pollVars
<1>1. ASSUME NEW c \in Pollers, Poll(c) PROVE IInv'
  <2>1. TypeOK'
    BY <1>1 DEF IInv, Poll, Goto, TypeOK, Points
  <2>2. ClaimsUnique'
    BY <1>1 DEF IInv, Poll, Goto, TypeOK, ClaimsUnique, Working, Points
  <2>3. HolderDue'
    BY <1>1
    DEF IInv, Poll, Goto, TypeOK, HolderDue, Working, Points, Holds, Due, Time
  <2>4. ReasonsJudged'
    BY <1>1 DEF IInv, Poll, Goto, TypeOK, ReasonsJudged, MayPropose
  <2> QED
    BY <1>1, <2>1, <2>2, <2>3, <2>4, VersionsKept DEF IInv, Poll
<1>2. ASSUME NEW c \in Pollers, ClaimPoll(c) PROVE IInv'
  <2>1. CASE LeaseTaken(evaluatedAt[c]) \/ ~Due(evaluatedAt[c])
    <3>1. Done(c) /\ UNCHANGED <<rowVars, storeVars, lastWrite, clock>>
      BY <1>2, <2>1 DEF ClaimPoll
    <3>2. TypeOK' /\ ClaimsUnique' /\ ReasonsJudged'
      BY <3>1, DoneTyped DEF IInv, TypeOK
    <3>3. HolderDue'
      BY <3>1, DoneKeeps DEF IInv, HolderDue, Working, Holds, Due, TypeOK, Time
    <3> QED
      BY <3>1, <3>2, <3>3, VersionsKept DEF IInv
  <2>2. CASE ~(LeaseTaken(evaluatedAt[c]) \/ ~Due(evaluatedAt[c]))
    <3>1. /\ pc[c] = "claim" /\ generation' = generation + 1 /\ claimed' = TRUE
          /\ leaseUntil' = evaluatedAt[c] + Lease
          /\ gen' = [gen EXCEPT ![c] = generation + 1]
          /\ pc' = [pc EXCEPT ![c] = "read"]
          /\ UNCHANGED <<lastCompleted, readAt, evaluatedAt, read>>
          /\ UNCHANGED <<storeVars, lastWrite, clock>>
      BY <1>2, <2>2 DEF ClaimPoll, Goto
    <3>2. TypeOK'
      BY <3>1 DEF IInv, TypeOK, Points, Time
    <3>3. ClaimsUnique'
      BY <3>1 DEF IInv, TypeOK, ClaimsUnique, Working, Points
    <3>4. HolderDue'
      <4>1. \A d \in Pollers : Holds(d)' => d = c
        BY <3>1 DEF IInv, TypeOK, ClaimsUnique, Holds
      <4>2. Due(evaluatedAt[c])'
        BY <2>2, <3>1 DEF Due
      <4> QED
        BY <3>1, <4>1, <4>2 DEF IInv, HolderDue
    <3>5. ReasonsJudged'
      BY <3>1 DEF IInv, TypeOK, ReasonsJudged, MayPropose
    <3> QED
      BY <3>1, <3>2, <3>3, <3>4, <3>5, VersionsKept DEF IInv
  <2> QED
    BY <2>1, <2>2
<1>3. ASSUME NEW c \in Pollers, Read(c) PROVE IInv'
  <2>1. /\ pc[c] = "read" /\ pc' \in [Pollers -> Points]
        /\ pc'[c] \in {"renew_read", "release"}
        /\ \A d \in Pollers \ {c} :
             /\ pc'[d] = pc[d] /\ read'[d] = read[d] /\ readAt'[d] = readAt[d]
        /\ UNCHANGED <<rowVars, storeVars, lastWrite, clock, gen, evaluatedAt>>
    BY <1>3 DEF IInv, Read, Goto, TypeOK, Points
  <2>2. TypeOK'
    <3>1. CASE \E s \in Snapshots, b \in Contents, R \in SUBSET Reasons :
                 /\ read' = [read EXCEPT ![c] =
                      [snapshot |-> s, content |-> b, write |-> lastWrite,
                       reasons |-> R]]
                 /\ readAt' = [readAt EXCEPT ![c] = clock]
      BY <2>1, <3>1 DEF IInv, TypeOK, MonitoringRead
    <3>2. CASE UNCHANGED <<read, readAt>> /\ Goto(c, "release")
      BY <2>1, <3>2 DEF IInv, TypeOK, Goto
    <3> QED
      BY <1>3, <3>1, <3>2 DEF Read
  <2>3. ClaimsUnique'
    BY <2>1 DEF IInv, ClaimsUnique, Working, Points
  <2>4. HolderDue'
    BY <2>1 DEF IInv, HolderDue, Working, Points, Holds, Due
  <2>5. ReasonsJudged'
    BY <2>1 DEF IInv, ReasonsJudged, MayPropose
  <2> QED
    BY <2>1, <2>2, <2>3, <2>4, <2>5, VersionsKept DEF IInv
<1>4. ASSUME NEW c \in Pollers, HeartbeatPoll(c) PROVE IInv'
  <2>1. /\ \/ pc[c] = "renew_read" /\ pc'[c] \in {"evaluate", "release"}
           \/ pc[c] = "renew_evaluated" /\ pc'[c] \in {"renew_judged", "release"}
           \/ pc[c] = "renew_judged" /\ pc'[c] \in {"persist", "release"}
        /\ pc' \in [Pollers -> Points]
        /\ \A d \in Pollers \ {c} : pc'[d] = pc[d]
        /\ leaseUntil' \in {leaseUntil, clock + Lease}
        /\ UNCHANGED <<lastCompleted, generation, claimed, storeVars, lastWrite,
                       clock, gen, readAt, evaluatedAt, read>>
    BY <1>4 DEF IInv, HeartbeatPoll, Goto, TypeOK, Points
  <2>2. TypeOK'
    BY <2>1 DEF IInv, TypeOK, Time
  <2>3. ClaimsUnique'
    BY <2>1 DEF IInv, ClaimsUnique, Working, Points
  <2>4. HolderDue'
    BY <2>1 DEF IInv, HolderDue, Working, Points, Holds, Due
  <2>5. ReasonsJudged'
    BY <2>1 DEF IInv, ReasonsJudged, MayPropose
  <2> QED
    BY <2>1, <2>2, <2>3, <2>4, <2>5, VersionsKept DEF IInv
<1>5. ASSUME NEW c \in Pollers, Evaluate(c) PROVE IInv'
  <2>1. /\ pc[c] = "evaluate" /\ pc' \in [Pollers -> Points]
        /\ pc'[c] \in {"renew_evaluated", "release"}
        /\ \A d \in Pollers \ {c} :
             /\ pc'[d] = pc[d] /\ read'[d] = read[d]
             /\ evaluatedAt'[d] = evaluatedAt[d]
        /\ UNCHANGED <<rowVars, storeVars, lastWrite, clock, gen, readAt>>
    BY <1>5 DEF IInv, Evaluate, Goto, TypeOK, Points
  <2>2. read[c] \in MonitoringRead
    BY <2>1 DEF IInv, TypeOK
  <2>3. CASE UNCHANGED <<evaluatedAt, read>> /\ pc'[c] = "release"
    <3>1. TypeOK'
      BY <2>1, <2>3 DEF IInv, TypeOK
    <3>2. ClaimsUnique'
      BY <2>1 DEF IInv, ClaimsUnique, Working, Points
    <3>3. HolderDue'
      BY <2>1, <2>3 DEF IInv, HolderDue, Working, Points, Holds, Due
    <3>4. ReasonsJudged'
      BY <2>1, <2>3 DEF IInv, ReasonsJudged, MayPropose
    <3> QED
      BY <2>1, <3>1, <3>2, <3>3, <3>4, VersionsKept DEF IInv
  <2>4. CASE /\ evaluatedAt' = [evaluatedAt EXCEPT ![c] = clock]
             /\ read' = [read EXCEPT ![c].reasons =
                           IF MayPropose(c, clock) THEN @ ELSE {}]
    <3>1. /\ read'[c] \in MonitoringRead
          /\ read'[c].write = read[c].write
          /\ read'[c].reasons = IF MayPropose(c, clock) THEN read[c].reasons
                                                        ELSE {}
          /\ read' \in [Pollers -> MonitoringRead \cup {NotRead}]
      BY <2>2, <2>4 DEF IInv, TypeOK, MonitoringRead
    <3>2. TypeOK'
      BY <2>1, <2>4, <3>1 DEF IInv, TypeOK
    <3>3. ClaimsUnique'
      BY <2>1 DEF IInv, ClaimsUnique, Working, Points
    <3>4. evaluatedAt'[c] = clock
      BY <2>4 DEF IInv, TypeOK
    <3>5. HolderDue'
      <4>1. Holds(c) => Due(clock)
        <5>1. Holds(c) => Due(evaluatedAt[c])
          BY <2>1 DEF IInv, HolderDue, Working, Points
        <5> QED
          BY <5>1 DEF IInv, TypeOK, HolderDue, Due, Time
      <4> QED
        BY <2>1, <3>4, <4>1
        DEF IInv, TypeOK, HolderDue, Working, Points, Holds, Due, Time
    <3>6. ReasonsJudged'
      <4>1. read'[c].reasons # {} => MayPropose(c, clock)
        BY <3>1
      <4>2. read'[c].reasons # {} => MayPropose(c, evaluatedAt[c])'
        BY <2>1, <3>1, <3>4, <4>1 DEF MayPropose
      <4> QED
        BY <2>1, <4>2 DEF IInv, ReasonsJudged, MayPropose
    <3> QED
      BY <2>1, <3>2, <3>3, <3>5, <3>6, VersionsKept DEF IInv
  <2> QED
    BY <1>5, <2>1, <2>3, <2>4 DEF Evaluate, Goto, IInv, TypeOK
<1>6. ASSUME NEW c \in Pollers, PersistPoll(c) PROVE IInv'
  <2>1. pc[c] = "persist" /\ read[c] \in MonitoringRead
    BY <1>6 DEF IInv, PersistPoll, TypeOK
  <2>2. CASE Holds(c) /\ leaseUntil > evaluatedAt[c] /\ ~Conflict(c)
    <3> DEFINE s == read[c].snapshot
    <3>1. s \in Snapshots /\ read[c].content \in Contents
          /\ read[c].reasons \subseteq Reasons
      BY <2>1 DEF MonitoringRead
    <3>2. /\ version' = IF version[s] # 0 THEN version
                        ELSE [version EXCEPT ![s] = NextVersion(s)]
          /\ content' = [content EXCEPT ![s] = read[c].content]
          /\ active' = active \cup ({s} \X read[c].reasons)
          /\ lastCompleted' = evaluatedAt[c]
          /\ claimed' = FALSE /\ leaseUntil' = 0 /\ Done(c)
          /\ UNCHANGED <<generation, lastWrite, clock>>
      BY <1>6, <2>2 DEF PersistPoll
    <3>3. version' \in [Snapshots -> Nat] /\ VersionsCounted'
      <4>1. CASE version[s] # 0
        BY <3>2, <4>1, VersionsKept DEF IInv, TypeOK
      <4>2. CASE version[s] = 0
        BY <3>1, <3>2, <4>2, StoreNext DEF IInv, TypeOK
      <4> QED
        BY <4>1, <4>2
    <3>4. content' \in [Snapshots -> Contents \cup {NoSnapshot}]
          /\ active' \subseteq Snapshots \X Reasons
      BY <3>1, <3>2 DEF IInv, TypeOK
    <3>5. lastCompleted' \in Time \cup {NoTime}
          /\ leaseUntil' \in 0..(MaxClock + Lease)
      BY <3>2 DEF IInv, TypeOK
    <3>6. TypeOK' /\ ClaimsUnique' /\ ReasonsJudged'
      BY <3>2, <3>3, <3>4, <3>5, DoneTyped
    <3>7. HolderDue'
      BY <3>2, DoneKeeps DEF IInv, HolderDue, Holds, TypeOK, Time
    <3> QED
      BY <3>3, <3>6, <3>7 DEF IInv
  <2>3. CASE ~(Holds(c) /\ leaseUntil > evaluatedAt[c] /\ ~Conflict(c))
    <3>1. /\ pc' = [pc EXCEPT ![c] = "release"]
          /\ UNCHANGED <<rowVars, storeVars, gen, readAt, evaluatedAt, read,
                         lastWrite, clock>>
      BY <1>6, <2>3 DEF PersistPoll, Goto
    <3>2. TypeOK'
      BY <3>1 DEF IInv, TypeOK, Points
    <3>3. ClaimsUnique'
      BY <2>1, <3>1 DEF IInv, TypeOK, ClaimsUnique, Working, Points
    <3>4. HolderDue'
      BY <2>1, <3>1 DEF IInv, TypeOK, HolderDue, Working, Points, Holds, Due
    <3>5. ReasonsJudged'
      BY <3>1 DEF IInv, TypeOK, ReasonsJudged, MayPropose
    <3> QED
      BY <3>1, <3>2, <3>3, <3>4, <3>5, VersionsKept DEF IInv
  <2> QED
    BY <2>2, <2>3
<1>7. ASSUME NEW c \in Pollers, ReleasePoll(c) \/ Crash(c) PROVE IInv'
  <2>1. /\ Done(c) /\ UNCHANGED <<lastCompleted, generation, storeVars, lastWrite,
                                 clock>>
        /\ \/ UNCHANGED <<claimed, leaseUntil>>
           \/ claimed' = FALSE /\ leaseUntil' = 0
    BY <1>7 DEF ReleasePoll, Crash
  <2>2. claimed' \in BOOLEAN /\ leaseUntil' \in 0..(MaxClock + Lease)
    <3>1. claimed' \in BOOLEAN
      BY <2>1, Zenon DEF IInv, TypeOK
    <3>2. leaseUntil' \in 0..(MaxClock + Lease)
      BY <2>1 DEF IInv, TypeOK
    <3> QED
      BY <3>1, <3>2
  <2>3. TypeOK' /\ ClaimsUnique' /\ ReasonsJudged'
    BY <2>1, <2>2, DoneTyped DEF IInv, TypeOK
  <2>4. HolderDue'
    BY <2>1, DoneKeeps DEF IInv, HolderDue, Working, Holds, Due, TypeOK, Time
  <2> QED
    BY <2>1, <2>3, <2>4, VersionsKept DEF IInv
<1>8. CASE AccountWritten
  BY <1>8, VersionsKept
  DEF AccountWritten, IInv, TypeOK, ClaimsUnique, HolderDue, ReasonsJudged,
      MayPropose, Holds, Due
<1>9. CASE TimePasses
  <2>1. /\ clock' \in Time /\ clock' = clock + 1
        /\ UNCHANGED <<rowVars, storeVars, lastWrite, pollVars>>
    BY <1>9 DEF TimePasses, IInv, TypeOK, Time
  <2>2. TypeOK'
    BY <2>1 DEF IInv, TypeOK
  <2>3. HolderDue'
    BY <2>1 DEF IInv, TypeOK, HolderDue, Holds, Due, Time
  <2> QED
    BY <2>1, <2>2, <2>3, VersionsKept
    DEF IInv, ClaimsUnique, ReasonsJudged, MayPropose
<1>10. CASE UNCHANGED vars
  BY <1>10, VersionsKept
  DEF vars, IInv, TypeOK, ClaimsUnique, HolderDue, ReasonsJudged, MayPropose,
      Holds, Due
<1> QED
  BY <1>1, <1>2, <1>3, <1>4, <1>5, <1>6, <1>7, <1>8, <1>9, <1>10
  DEF Next, PollStep

-----------------------------------------------------------------------------
(* The theorems.                                                           *)

LEMMA InvAlways == Spec => []IInv
<1> QED
  BY InvInit, InvNext, PTL DEF Spec

\* The scheduler row, the stores and the pollers keep their types
\* (monitoring.py, MonitoringStore and MonitoringScheduler).
THEOREM TypesKept == Spec => []TypeOK
<1>1. IInv => TypeOK
  BY DEF IInv
<1> QED
  BY <1>1, InvAlways, PTL

\* The versions of every series count its snapshots (_save_snapshot).
THEOREM VersionsAlwaysDense == Spec => []VersionsDense
<1>1. IInv => VersionsDense
  BY DEF IInv, VersionsCounted
<1> QED
  BY <1>1, InvAlways, PTL

\* Completed polls are the poll interval apart, whatever races, stalls or
\* crashes (claim_poll and persist_poll).
THEOREM PollsAlwaysSpaced == Spec => PollsSpaced
<1>1. ASSUME IInv, [Next]_vars, lastCompleted # NoTime,
             lastCompleted' # lastCompleted
      PROVE  lastCompleted' - lastCompleted >= Interval
  <2>1. PICK c \in Pollers : PersistPoll(c)
    BY <1>1
    DEF Next, PollStep, vars, rowVars, Poll, ClaimPoll, Read, HeartbeatPoll,
        Evaluate, ReleasePoll, Crash, AccountWritten, TimePasses
  <2>2. Holds(c) /\ pc[c] = "persist" /\ lastCompleted' = evaluatedAt[c]
    BY <1>1, <2>1 DEF PersistPoll, rowVars
  <2>3. Due(evaluatedAt[c])
    BY <1>1, <2>2 DEF IInv, HolderDue, Working, Points
  <2> QED
    BY <1>1, <2>2, <2>3 DEF Due
<1>2. IInv /\ [Next]_vars =>
        [lastCompleted # NoTime /\ lastCompleted' # lastCompleted =>
           lastCompleted' - lastCompleted >= Interval]_vars
  BY <1>1
<1> QED
  BY <1>2, InvAlways, PTL DEF Spec, PollsSpaced

\* Only the poll with the latest claim writes to the store (_require_claim).
THEOREM LatestClaimAlwaysPersists == Spec => LatestClaimPersists
<1>1. ASSUME IInv, [Next]_vars, storeVars' # storeVars
      PROVE  \E c \in Pollers :
               /\ pc[c] = "persist" /\ pc'[c] = "idle"
               /\ gen[c] = generation
               /\ \A d \in Pollers \ {c} : gen[d] < gen[c]
  <2>1. PICK c \in Pollers : PersistPoll(c)
    BY <1>1
    DEF Next, PollStep, vars, Poll, ClaimPoll, Read, HeartbeatPoll, Evaluate,
        ReleasePoll, Crash, AccountWritten, TimePasses
  <2>2. Holds(c) /\ pc[c] = "persist" /\ Done(c)
    BY <1>1, <2>1 DEF PersistPoll
  <2>3. pc'[c] = "idle"
    BY <1>1, <2>2 DEF Done, IInv, TypeOK
  <2>4. \A d \in Pollers \ {c} : gen[d] < gen[c]
    BY <1>1, <2>2 DEF IInv, TypeOK, ClaimsUnique, Working, Points, Holds
  <2> QED
    BY <2>2, <2>3, <2>4 DEF Holds
<1>2. IInv /\ [Next]_vars =>
        [storeVars' # storeVars =>
           \E c \in Pollers :
             /\ pc[c] = "persist" /\ pc'[c] = "idle"
             /\ gen[c] = generation
             /\ \A d \in Pollers \ {c} : gen[d] < gen[c]]_vars
  BY <1>1
<1> QED
  BY <1>2, InvAlways, PTL DEF Spec, LatestClaimPersists

\* A proposal was judged on fresh data outside the quiet window (_write_window,
\* Gate0AnomalyPolicy).
THEOREM ProposalsAlwaysJudged == Spec => ProposalsJudged
<1>1. ASSUME IInv, [Next]_vars, NEW x \in active' \ active
      PROVE  \E c \in Pollers :
               /\ pc[c] = "persist" /\ read[c].snapshot = x[1]
               /\ evaluatedAt[c] - readAt[c] <= Freshness
               /\ read[c].write # NoTime =>
                    evaluatedAt[c] - read[c].write >= Quiet
  <2>1. PICK c \in Pollers : PersistPoll(c)
    BY <1>1
    DEF Next, PollStep, vars, storeVars, Poll, ClaimPoll, Read, HeartbeatPoll,
        Evaluate, ReleasePoll, Crash, AccountWritten, TimePasses
  <2>2. /\ pc[c] = "persist"
        /\ x \in {read[c].snapshot} \X read[c].reasons
    BY <1>1, <2>1 DEF PersistPoll, storeVars
  <2>3. read[c].snapshot = x[1] /\ read[c].reasons # {}
    BY <2>2
  <2>4. MayPropose(c, evaluatedAt[c])
    BY <1>1, <2>2, <2>3 DEF IInv, ReasonsJudged
  <2> QED
    BY <2>2, <2>3, <2>4 DEF MayPropose
<1>2. IInv /\ [Next]_vars =>
        [\A x \in active' \ active :
           \E c \in Pollers :
             /\ pc[c] = "persist" /\ read[c].snapshot = x[1]
             /\ evaluatedAt[c] - readAt[c] <= Freshness
             /\ read[c].write # NoTime =>
                  evaluatedAt[c] - read[c].write >= Quiet]_vars
  BY <1>1
<1> QED
  BY <1>2, InvAlways, PTL DEF Spec, ProposalsJudged

\* A stored snapshot keeps its version and its bytes (_save_snapshot).
THEOREM SnapshotsStayImmutable == Spec => SnapshotsImmutable
<1>1. ASSUME IInv, [Next]_vars, NEW s \in Snapshots, version[s] # 0
      PROVE  version'[s] = version[s] /\ content'[s] = content[s]
  <2>1. CASE UNCHANGED storeVars
    BY <2>1 DEF storeVars
  <2>2. ASSUME NEW c \in Pollers, PersistPoll(c), ~UNCHANGED storeVars
        PROVE  version'[s] = version[s] /\ content'[s] = content[s]
    <3>1. /\ version' = IF version[read[c].snapshot] # 0 THEN version
                        ELSE [version EXCEPT
                                ![read[c].snapshot] = NextVersion(read[c].snapshot)]
          /\ content' = [content EXCEPT ![read[c].snapshot] = read[c].content]
          /\ ~Conflict(c)
      BY <2>2 DEF PersistPoll
    <3> QED
      BY <1>1, <3>1 DEF Conflict, IInv, TypeOK
  <2> QED
    BY <1>1, <2>1, <2>2
    DEF Next, PollStep, vars, Poll, ClaimPoll, Read, HeartbeatPoll, Evaluate,
        ReleasePoll, Crash, AccountWritten, TimePasses
<1>2. IInv /\ [Next]_vars =>
        [\A s \in Snapshots : version[s] # 0 =>
           version'[s] = version[s] /\ content'[s] = content[s]]_vars
  BY <1>1
<1> QED
  BY <1>2, InvAlways, PTL DEF Spec, SnapshotsImmutable
=============================================================================
