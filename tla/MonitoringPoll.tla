---------------------------- MODULE MonitoringPoll ----------------------------
(***************************************************************************)
(* The read-only monitoring scheduler (monitoring.py): pollers, threads or *)
(* processes over one MonitoringStore, claim the singleton scheduler row   *)
(* with a lease, read the source, renew the lease, judge what they read    *)
(* and persist the snapshot and its proposals under the claim.  A slow     *)
(* poller may lose its lease to another one at any point.                  *)
(***************************************************************************)
EXTENDS Integers, FiniteSets

CONSTANTS
  Pollers,
  Snapshots,      \* snapshot_id values
  Contents,       \* canonical bytes a source may deliver under one id
  Reasons,        \* reason codes of financial anomalies
  SeriesOf,       \* [Snapshots -> series], _save_snapshot's series_key
  Interval,       \* policy monitoring.poll_minutes
  Lease,          \* lease_timeout
  Freshness,      \* direct_freshness_minutes: older data are not acted upon
  Quiet,          \* max(cooldown, observation window) after an applied write
  NoTime,         \* SQL NULL in a column holding a time, None for a write
  NoSnapshot,
  MaxClock,       \* bound on the clock of a finite instance
  MaxClaims       \* bound on the claims of a finite instance

ASSUME PollAssumption ==
  /\ Interval \in Nat /\ Lease \in Nat \ {0} /\ Freshness \in Nat
  /\ Quiet \in Nat /\ MaxClock \in Nat /\ MaxClaims \in Nat
  /\ NoTime \notin Int
  /\ NoSnapshot \notin Snapshots

VARIABLES
  lastCompleted,  \* scheduler_state.last_completed_at
  generation,     \* ... .claim_generation; the claim token is as unique
  claimed,        \* ... .claim_token is not NULL
  leaseUntil,     \* ... .lease_expires_at
  version,        \* snapshot_versions.version, 0 without a row
  content,        \* snapshot_versions.canonical_bytes
  active,         \* active_proposals: <<snapshot, reason>>
  lastWrite,      \* the last write the account's source reports
  clock,
  pc,             \* where a poll is
  gen,            \* PollClaim.generation
  readAt,         \* when the source retrieved its data
  evaluatedAt,    \* claimed_at until the read, then evaluated_at
  read            \* MonitoringRead: snapshot, content, last_applied_write_at,
                  \* and the reasons found in it

rowVars == <<lastCompleted, generation, claimed, leaseUntil>>
storeVars == <<version, content, active>>
pollVars == <<pc, gen, readAt, evaluatedAt, read>>
vars == <<rowVars, storeVars, lastWrite, clock, pollVars>>

Time == 0..MaxClock
MonitoringRead ==
  [snapshot : Snapshots, content : Contents, write : Time \cup {NoTime},
   reasons : SUBSET Reasons]
NotRead == [snapshot |-> NoSnapshot, content |-> NoSnapshot, write |-> NoTime,
            reasons |-> {}]
Points == {"idle", "claim", "read", "renew_read", "evaluate", "renew_evaluated",
           "renew_judged", "persist", "release"}

\* The scheduler row, the stores and the pollers' locals keep their types, and a
\* poller past its read holds one (monitoring.py, MonitoringScheduler.poll).
TypeOK ==
  /\ lastCompleted \in Time \cup {NoTime}
  /\ generation \in Nat
  /\ claimed \in BOOLEAN
  /\ leaseUntil \in 0..(MaxClock + Lease)
  /\ version \in [Snapshots -> Nat]
  /\ content \in [Snapshots -> Contents \cup {NoSnapshot}]
  /\ active \subseteq Snapshots \X Reasons
  /\ lastWrite \in Time \cup {NoTime}
  /\ clock \in Time
  /\ pc \in [Pollers -> Points]
  /\ gen \in [Pollers -> Nat]
  /\ readAt \in [Pollers -> Time]
  /\ evaluatedAt \in [Pollers -> Time]
  /\ read \in [Pollers -> MonitoringRead \cup {NotRead}]
  /\ \A c \in Pollers :
       pc[c] \in {"renew_read", "evaluate", "renew_evaluated", "renew_judged",
                  "persist"} => read[c] \in MonitoringRead

Init ==
  /\ lastCompleted = NoTime
  /\ generation = 0
  /\ claimed = FALSE
  /\ leaseUntil = 0
  /\ version = [s \in Snapshots |-> 0]
  /\ content = [s \in Snapshots |-> NoSnapshot]
  /\ active = {}
  /\ lastWrite = NoTime
  /\ clock = 0
  /\ pc = [c \in Pollers |-> "idle"]
  /\ gen = [c \in Pollers |-> 0]
  /\ readAt = [c \in Pollers |-> 0]
  /\ evaluatedAt = [c \in Pollers |-> 0]
  /\ read = [c \in Pollers |-> NotRead]

-----------------------------------------------------------------------------
Goto(c, point) == pc' = [pc EXCEPT ![c] = point]
Done(c) ==
  /\ pc' = [pc EXCEPT ![c] = "idle"]
  /\ gen' = [gen EXCEPT ![c] = 0]
  /\ readAt' = [readAt EXCEPT ![c] = 0]
  /\ evaluatedAt' = [evaluatedAt EXCEPT ![c] = 0]
  /\ read' = [read EXCEPT ![c] = NotRead]

\* mutant: the statement does not name the claim
HoldsAny(c) == claimed

\* "claim_token = ? AND claim_generation = ?"
Holds(c) == claimed /\ generation = gen[c]

\* poll reads the clock, and claim_poll is a transaction of its own
Poll(c) ==
  /\ pc[c] = "idle"
  /\ Goto(c, "claim")
  /\ evaluatedAt' = [evaluatedAt EXCEPT ![c] = clock]
  /\ UNCHANGED <<rowVars, storeVars, lastWrite, clock, gen, readAt, read>>

LeaseTaken(t) == claimed /\ t < leaseUntil
\* mutant: the interval since the last completed poll is not looked at
AlwaysDue(t) == TRUE

Due(t) == lastCompleted # NoTime => t - lastCompleted >= Interval

ClaimPoll(c) ==
  /\ pc[c] = "claim"
  /\ generation < MaxClaims
  /\ IF LeaseTaken(evaluatedAt[c]) \/ ~Due(evaluatedAt[c])
       THEN Done(c) /\ UNCHANGED rowVars
       ELSE /\ generation' = generation + 1
            /\ claimed' = TRUE
            /\ leaseUntil' = evaluatedAt[c] + Lease
            /\ gen' = [gen EXCEPT ![c] = generation + 1]
            /\ Goto(c, "read")
            /\ UNCHANGED <<lastCompleted, readAt, evaluatedAt, read>>
  /\ UNCHANGED <<storeVars, lastWrite, clock>>

\* the source may fail; the data it delivers were retrieved at some instant of
\* the read, which is taken to be its end
Read(c) ==
  /\ pc[c] = "read"
  /\ \/ \E s \in Snapshots, b \in Contents, R \in SUBSET Reasons :
          /\ read' = [read EXCEPT ![c] =
               [snapshot |-> s, content |-> b, write |-> lastWrite, reasons |-> R]]
          /\ readAt' = [readAt EXCEPT ![c] = clock]
          /\ Goto(c, "renew_read")
     \/ Goto(c, "release") /\ UNCHANGED <<read, readAt>>
  /\ UNCHANGED <<rowVars, storeVars, lastWrite, clock, gen, evaluatedAt>>

\* heartbeat_poll: only a lease that has not expired is renewed
HeartbeatPoll(c) ==
  /\ \E step \in {<<"renew_read", "evaluate">>,
                  <<"renew_evaluated", "renew_judged">>,
                  <<"renew_judged", "persist">>} :
       /\ pc[c] = step[1]
       /\ IF Holds(c) /\ leaseUntil > clock
            THEN leaseUntil' = clock + Lease /\ Goto(c, step[2])
            ELSE UNCHANGED leaseUntil /\ Goto(c, "release")
  /\ UNCHANGED <<lastCompleted, generation, claimed, storeVars, lastWrite, clock,
                 gen, readAt, evaluatedAt, read>>

\* mutant: the write window is not considered
FreshOnly(c, t) == t - readAt[c] <= Freshness

\* stale data and a quiet window leave alerts only
MayPropose(c, t) ==
  /\ t - readAt[c] <= Freshness
  /\ read[c].write # NoTime => t - read[c].write >= Quiet

\* the clock is read for the evaluation; a snapshot of another policy or with a
\* broken fingerprint is rejected
Evaluate(c) ==
  /\ pc[c] = "evaluate"
  /\ \/ /\ evaluatedAt' = [evaluatedAt EXCEPT ![c] = clock]
        /\ read' = [read EXCEPT ![c].reasons =
                      IF MayPropose(c, clock) THEN @ ELSE {}]
        /\ Goto(c, "renew_evaluated")
     \/ Goto(c, "release") /\ UNCHANGED <<evaluatedAt, read>>
  /\ UNCHANGED <<rowVars, storeVars, lastWrite, clock, gen, readAt>>

NextVersion(s) ==
  LET same == {version[u] : u \in {u \in Snapshots : SeriesOf[u] = SeriesOf[s]}}
  IN 1 + CHOOSE n \in same : \A k \in same : k <= n

\* "An immutable snapshot ID contains different bytes."
Conflict(c) ==
  LET s == read[c].snapshot
  IN version[s] # 0 /\ content[s] # read[c].content

\* persist_poll: one transaction, guarded by the claim and by evaluated_at, not
\* by the clock
PersistPoll(c) ==
  /\ pc[c] = "persist"
  /\ LET s == read[c].snapshot
     IN IF Holds(c) /\ leaseUntil > evaluatedAt[c] /\ ~Conflict(c)
          THEN /\ version' = IF version[s] # 0 THEN version
                             ELSE [version EXCEPT ![s] = NextVersion(s)]
               /\ content' = [content EXCEPT ![s] = read[c].content]
               /\ active' = active \cup ({s} \X read[c].reasons)
               /\ lastCompleted' = evaluatedAt[c]
               /\ claimed' = FALSE
               /\ leaseUntil' = 0
               /\ Done(c)
               /\ UNCHANGED generation
          ELSE /\ Goto(c, "release")
               /\ UNCHANGED <<rowVars, storeVars, gen, readAt, evaluatedAt, read>>
  /\ UNCHANGED <<lastWrite, clock>>

\* the exception handler of poll
ReleasePoll(c) ==
  /\ pc[c] = "release"
  /\ IF Holds(c) THEN claimed' = FALSE /\ leaseUntil' = 0
                 ELSE UNCHANGED <<claimed, leaseUntil>>
  /\ Done(c)
  /\ UNCHANGED <<lastCompleted, generation, storeVars, lastWrite, clock>>

-----------------------------------------------------------------------------
\* the process of a poller dies and its claim stays behind
Crash(c) ==
  /\ pc[c] # "idle"
  /\ Done(c)
  /\ UNCHANGED <<rowVars, storeVars, lastWrite, clock>>

\* a write applied by the executors, as the source will report it
AccountWritten ==
  /\ lastWrite' = clock
  /\ UNCHANGED <<rowVars, storeVars, clock, pollVars>>

TimePasses ==
  /\ clock < MaxClock
  /\ clock' = clock + 1
  /\ UNCHANGED <<rowVars, storeVars, lastWrite, pollVars>>

PollStep(c) ==
  \/ ClaimPoll(c) \/ Read(c) \/ HeartbeatPoll(c) \/ Evaluate(c)
  \/ PersistPoll(c) \/ ReleasePoll(c)

Next ==
  \/ \E c \in Pollers : Poll(c) \/ PollStep(c) \/ Crash(c)
  \/ AccountWritten
  \/ TimePasses

Spec == Init /\ [][Next]_vars

-----------------------------------------------------------------------------
(* Properties.                                                             *)

\* Two completed polls are at least the poll interval apart, however many
\* pollers race, crash or lose their lease.
PollsSpaced ==
  [][lastCompleted # NoTime /\ lastCompleted' # lastCompleted =>
       lastCompleted' - lastCompleted >= Interval]_vars

\* Of the polls under way only the one with the latest claim leaves a trace in
\* the store: a fenced poller persists nothing.
LatestClaimPersists ==
  [][storeVars' # storeVars =>
       \E c \in Pollers :
         /\ pc[c] = "persist" /\ pc'[c] = "idle"
         /\ gen[c] = generation
         /\ \A d \in Pollers \ {c} : gen[d] < gen[c]]_vars

\* The versions of a series number its snapshots without a gap.
VersionsDense ==
  \A s \in Snapshots :
    LET series == {u \in Snapshots : SeriesOf[u] = SeriesOf[s] /\ version[u] # 0}
    IN {version[u] : u \in series} = 1..Cardinality(series)

\* A stored snapshot is never replaced: neither its bytes nor its version change,
\* whichever poller delivers its identifier again.
SnapshotsImmutable ==
  [][\A s \in Snapshots : version[s] # 0 =>
       version'[s] = version[s] /\ content'[s] = content[s]]_vars

\* A proposal appears only from data that were fresh, and outside the quiet
\* window of the write the source reported, when the poll was evaluated.
ProposalsJudged ==
  [][\A x \in active' \ active :
       \E c \in Pollers :
         /\ pc[c] = "persist" /\ read[c].snapshot = x[1]
         /\ evaluatedAt[c] - readAt[c] <= Freshness
         /\ read[c].write # NoTime => evaluatedAt[c] - read[c].write >= Quiet]_vars

=============================================================================
