---------------------------- MODULE WriteBoundary ----------------------------
(***************************************************************************)
(* What both write modes of mox_adv share on their way to one external     *)
(* write: the executions ledger (control_state.py), the singleton write    *)
(* window (monitoring.py, write_window.py), the kill switch in the main    *)
(* database and its sidecar copy (control_state.py, interrupt_state.py),   *)
(* the pre-write audit (trust_boundary.py) and the write adapter           *)
(* (fake_write_adapter.py).  Each operator here is one durable transaction *)
(* or one adapter call; the modules that extend this one decide in which   *)
(* order a caller performs them and what may happen in between.            *)
(*                                                                         *)
(* A prepared change is immutable and its execution key is a hash of it,   *)
(* so a proposal stands for its execution key.                             *)
(***************************************************************************)
EXTENDS Integers, FiniteSets

CONSTANTS
  Proposals,        \* prepared changes, one execution key each
  Targets,          \* adapter target keys
  Values,           \* values a target may hold
  Scopes,           \* kill-switch scopes (global, organization, ..., campaign)
  TargetOf,         \* [Proposals -> Targets]
  CurrentValue,     \* [Proposals -> Values], prepared.current_value
  TargetValue,      \* [Proposals -> Values], prepared.target_value
  ScopesOf,         \* [Proposals -> SUBSET Scopes], scopes covering a proposal
  SnapshotSourced,  \* proposals prepared from a stored snapshot (others: FIXTURE)
  UseState,         \* FakeWriteAdapter timeout_readback "__USE_STATE__"
  Adapters,         \* constructor arguments a FakeWriteAdapter may be given
  InitialTargets,   \* ... and its possible initial states
  NoKey,            \* SQL NULL in a column holding an execution key
  Window,           \* quiet window: max(cooldown, observation window)
  UsageHorizon,     \* execution_usage looks back this far (24 hours)
  MaxClock          \* bound on the clock of a finite instance

ASSUME ShapeAssumption ==
  /\ TargetOf \in [Proposals -> Targets]
  /\ CurrentValue \in [Proposals -> Values]
  /\ TargetValue \in [Proposals -> Values]
  /\ \A p \in Proposals : CurrentValue[p] # TargetValue[p]
  /\ ScopesOf \in [Proposals -> SUBSET Scopes]
  /\ SnapshotSourced \subseteq Proposals
ASSUME AdapterAssumption ==
  /\ Adapters \subseteq [timeout : BOOLEAN, readback : Values \cup {UseState}]
  /\ InitialTargets \subseteq [Targets -> Values]
ASSUME NullAssumption == UseState \notin Values /\ NoKey \notin Proposals
ASSUME TimeAssumption ==
  Window \in Nat \ {0} /\ UsageHorizon \in Nat /\ MaxClock \in Nat

VARIABLES
  status,        \* executions.status, "NONE" while the row does not exist
  updatedAt,     \* executions.updated_at
  window,        \* the write_window_gate singleton row, "FREE" without a row
  interrupts,    \* scopes active in the interrupt sidecar database
  killSwitches,  \* scopes active in kill_switches of the main database
  audits,        \* keys with a pre-write journal or anchor on disk
  adapter,       \* FakeWriteAdapter(timeout_after_write, timeout_readback)
  target,        \* the adapter's state
  timedOut,      \* FakeWriteAdapter._timed_out
  writes,        \* adapter.write_calls, counted per key
  clock

ledgerVars == <<status, updatedAt>>
controlVars == <<interrupts, killSwitches>>
adapterVars == <<target, timedOut, writes>>
boundaryVars == <<status, updatedAt, window, interrupts, killSwitches, audits,
                  adapter, target, timedOut, writes, clock>>

-----------------------------------------------------------------------------
Active == {"RESERVED", "IN_FLIGHT"}
Unresolved == Active \cup {"UNKNOWN_RESULT"}
Completed == {"APPLIED", "NO_CHANGE"}
Terminal == Completed \cup {"BLOCKED", "FAILED", "UNKNOWN_RESULT"}
Statuses == Active \cup Terminal
Time == 0..MaxClock

WindowRow ==
  [status : {"FREE", "IN_PROGRESS", "ACTIVE"},
   key    : Proposals \cup {NoKey},
   until  : 0..(MaxClock + Window)]
FreeWindow == [status |-> "FREE", key |-> NoKey, until |-> 0]

BoundaryTypeOK ==
  /\ status \in [Proposals -> Statuses \cup {"NONE"}]
  /\ updatedAt \in [Proposals -> Time]
  /\ window \in WindowRow
  /\ interrupts \subseteq Scopes
  /\ killSwitches \subseteq Scopes
  /\ audits \subseteq Proposals
  /\ adapter \in Adapters
  /\ target \in [Targets -> Values]
  /\ timedOut \in BOOLEAN
  /\ writes \in [Proposals -> Nat]
  /\ clock \in Time

BoundaryInit ==
  /\ status = [p \in Proposals |-> "NONE"]
  /\ updatedAt = [p \in Proposals |-> 0]
  /\ window = FreeWindow
  /\ interrupts = {}
  /\ killSwitches = {}
  /\ audits = {}
  /\ adapter \in Adapters
  /\ target \in InitialTargets
  /\ timedOut = FALSE
  /\ writes = [p \in Proposals |-> 0]
  /\ clock = 0

-----------------------------------------------------------------------------
(* The executions ledger.                                                  *)
UnknownOutstanding == \E p \in Proposals : status[p] = "UNKNOWN_RESULT"
\* mutant: the ledger is not searched for another open execution
OtherActiveMissed == FALSE
\* mutant: the search forgets the executions already in flight
OtherActiveReservedOnly == \E p \in Proposals : status[p] = "RESERVED"

OtherActive == \E p \in Proposals : status[p] \in Active

\* the row is stamped with the instant its writer holds
SetStatus(p, s, t) ==
  /\ status' = [status EXCEPT ![p] = s]
  /\ updatedAt' = [updatedAt EXCEPT ![p] = t]

\* finish_execution: an active row becomes terminal; a row already holding the
\* same status is accepted silently; anything else raises.
FinishAccepted(p, s) == status[p] \in Active \/ status[p] = s
\* mutant: the update lacks its "AND status IN (...)" condition
FinishUnconditionally(p, s) == SetStatus(p, s, clock)

Finish(p, s) ==
  IF status[p] \in Active THEN SetStatus(p, s, clock) ELSE UNCHANGED ledgerVars

\* execution_usage: another effective execution of the same scope, not older
\* than the usage horizon.  One action exhausts the quota of Gate 0.
UsageExhausted(p) ==
  \E q \in Proposals \ {p} :
    /\ ScopesOf[q] = ScopesOf[p]
    /\ status[q] \in {"IN_FLIGHT", "APPLIED", "NO_CHANGE", "UNKNOWN_RESULT"}
    /\ clock - updatedAt[q] <= UsageHorizon

-----------------------------------------------------------------------------
(* The write window: DurableWriteWindowGate.                               *)
\* mutant: the quiet window ends one unit early
WindowAvailableEarly ==
  \/ window.status = "FREE"
  \/ window.status = "ACTIVE" /\ clock + 1 >= window.until

WindowAvailable ==
  \/ window.status = "FREE"
  \/ window.status = "ACTIVE" /\ clock >= window.until

ReserveWindow(p) ==
  window' = [status |-> "IN_PROGRESS", key |-> p, until |-> 0]

HoldsWindow(p) == window.status = "IN_PROGRESS" /\ window.key = p
ActivateWindow(p) ==
  window' = [status |-> "ACTIVE", key |-> p, until |-> clock + Window]
\* mutant: the release deletes active rows instead of reserved ones
ReleaseActiveWindow(p) ==
  window' = IF window.status = "ACTIVE" /\ window.key = p THEN FreeWindow
                                                          ELSE window

ReleaseWindow(p) ==
  window' = IF HoldsWindow(p) THEN FreeWindow ELSE window

-----------------------------------------------------------------------------
(* Kill switch: engaged in the sidecar first, released there last.         *)
Interrupted(p) == interrupts \cap ScopesOf[p] # {}
Killed(p) == killSwitches \cap ScopesOf[p] # {}
DispatchForbidden(p) == Interrupted(p) \/ Killed(p)

-----------------------------------------------------------------------------
(* The write adapter.                                                      *)
Readback(p) ==
  IF timedOut /\ adapter.readback # UseState
    THEN adapter.readback
    ELSE target[TargetOf[p]]

\* apply has two visible moments: the call is counted, and then, after the
\* write delay, it either times out or takes effect.
CountWrite(p) ==
  /\ writes' = [writes EXCEPT ![p] = @ + 1]
  /\ UNCHANGED <<target, timedOut>>
TakeEffect(p) ==
  /\ IF adapter.timeout
       THEN timedOut' = TRUE /\ UNCHANGED target
       ELSE target' = [target EXCEPT ![TargetOf[p]] = TargetValue[p]]
            /\ UNCHANGED timedOut
  /\ UNCHANGED writes

\* The readback classification shared by both modes.
Classify(p, v) ==
  CASE v = TargetValue[p]  -> "APPLIED"
    [] v = CurrentValue[p] -> "FAILED"
    [] OTHER               -> "UNKNOWN_RESULT"

-----------------------------------------------------------------------------
Tick ==
  /\ clock < MaxClock
  /\ clock' = clock + 1
=============================================================================
