--------------------------- MODULE BoundedAutonomy ---------------------------
(***************************************************************************)
(* The BOUNDED_AUTONOMY write path: mandates and their quotas              *)
(* (DurableMandateAuthority, mandate_store.py) and the service that spends *)
(* them (BoundedAutonomyService, autonomy_execution.py) on the ledger, the *)
(* write window, the audit and the adapter of WriteBoundary.               *)
(*                                                                         *)
(* A call runs execute, recheck or reconcile; its program counter marks    *)
(* the points between two durable transactions or adapter calls.           *)
(***************************************************************************)
EXTENDS WriteBoundary

CONSTANTS
  Callers,         \* concurrent calls of the service
  Mandates,        \* mandate identifiers, hashes of immutable contents
  NoMandate,
  Binds,           \* [Mandates -> SUBSET Proposals], _validate_prepared_binding
  Expiry,          \* [Mandates -> Nat]
  Limits,          \* [Mandates -> LimitRow]
  Exposure,        \* [Proposals -> Nat], deterministic_monetary_exposure_rub
  Step,            \* [Proposals -> Nat], _step_percent
  CampaignOf,      \* [Proposals -> campaign], mandate_consumptions.target
  Day,             \* clock units in 24 hours
  Sessions         \* bounds of the behaviours, one of them chosen in Init

LimitRow == [total : Nat, daily : Nat, actions : Nat, step : Nat,
             dailyStep : Nat, observation : Nat]

\* who and what takes part, which adapters there may be, how long the clock runs,
\* whether a key is worked on by one call at a time, and which faults may happen
Session == [callers : SUBSET Callers, proposals : SUBSET Proposals,
            mandates : SUBSET Mandates, scopes : SUBSET Scopes,
            adapters : SUBSET Adapters, until : Time, exclusive : BOOLEAN,
            faults : SUBSET {"crash", "storage", "drift", "revoke"}]

ASSUME MandateAssumption ==
  /\ IsFiniteSet(Proposals)
  /\ NoMandate \notin Mandates
  /\ Binds \in [Mandates -> SUBSET Proposals]
  /\ Expiry \in [Mandates -> Nat]
  /\ Limits \in [Mandates -> LimitRow]
  /\ Exposure \in [Proposals -> Nat]
  /\ Step \in [Proposals -> Nat]
  /\ DOMAIN CampaignOf = Proposals
  /\ Day \in Nat \ {0}
  /\ Sessions \subseteq Session

VARIABLES
  mandates,     \* mandates.status, "NONE" without a row
  revocations,  \* mandates interrupted in the sidecar database
  charged,      \* mandate_consumptions: the mandate a key was charged to
  chargedAt,    \* ... and when
  pc,           \* where a call is
  mode,         \* "execute", "recheck" or "reconcile"
  key,          \* the proposal a call works on
  mandate,      \* the mandate its request names
  at,           \* the instant the call last read from its clock
  seen,         \* what its last readback means
  session       \* the bounds of this behaviour

mandateVars == <<mandates, revocations>>
chargeVars == <<charged, chargedAt>>
callVars == <<pc, mode, key, mandate, at, seen>>
vars == <<boundaryVars, mandateVars, chargeVars, callVars, session>>

-----------------------------------------------------------------------------
Handling == {"release_window", "handler", "handler_release", "quiet_handler"}
Init ==
  /\ BoundaryInit
  /\ mandates = [m \in Mandates |-> "NONE"]
  /\ revocations = {}
  /\ charged = [p \in Proposals |-> NoMandate]
  /\ chargedAt = [p \in Proposals |-> 0]
  /\ pc = [c \in Callers |-> "idle"]
  /\ mode = [c \in Callers |-> "execute"]
  /\ key = [c \in Callers |-> NoKey]
  /\ mandate = [c \in Callers |-> NoMandate]
  /\ at = [c \in Callers |-> 0]
  /\ seen = [c \in Callers |-> "NONE"]
  /\ session \in Sessions
  /\ adapter \in session.adapters

-----------------------------------------------------------------------------
StorageFails == "storage" \in session.faults

Goto(c, point) ==
  /\ pc' = [pc EXCEPT ![c] = point]
  /\ UNCHANGED <<mode, key, mandate, at, seen>>
\* the call returns: its locals are gone
Return(c) ==
  /\ pc' = [pc EXCEPT ![c] = "idle"]
  /\ mode' = [mode EXCEPT ![c] = "execute"]
  /\ key' = [key EXCEPT ![c] = NoKey]
  /\ mandate' = [mandate EXCEPT ![c] = NoMandate]
  /\ at' = [at EXCEPT ![c] = 0]
  /\ seen' = [seen EXCEPT ![c] = "NONE"]

\* a discipline the code does not enforce, see ApprovalExecution
MayWorkOn(p) ==
  session.exclusive => \A d \in Callers : pc[d] # "idle" => key[d] # p

Start(c, p, m, md, point) ==
  /\ pc[c] = "idle" /\ c \in session.callers
  /\ MayWorkOn(p) /\ p \in session.proposals
  /\ pc' = [pc EXCEPT ![c] = point]
  /\ mode' = [mode EXCEPT ![c] = md]
  /\ key' = [key EXCEPT ![c] = p]
  /\ mandate' = [mandate EXCEPT ![c] = m]
  /\ UNCHANGED <<boundaryVars, mandateVars, chargeVars, at, seen>>

-----------------------------------------------------------------------------
(* Mandates: what may be done under them at instant t.                     *)

\* load_active: the row, its expiry, and the revocation interrupt
Usable(m, t) == mandates[m] = "ACTIVE" /\ Expiry[m] > t /\ m \notin revocations

\* require_dispatch_allowed
DispatchAllowed(m, p, t) == Usable(m, t) /\ ~DispatchForbidden(p)

ChargedTo(m) == {q \in Proposals : charged[q] = m}
Today(q) == chargedAt[q] \div Day = clock \div Day
\* mutant: the action quota counts the calendar day instead of 24 hours
InLastDayCalendar(q) == Today(q)

\* reserved_at > now - 24 hours
InLastDay(q) == chargedAt[q] > clock - Day
\* the sums of a column over the rows of a set of proposals
Totals(column) ==
  LET sum[S \in SUBSET Proposals] ==
        IF S = {} THEN 0
        ELSE LET q == CHOOSE q \in S : TRUE IN column[q] + sum[S \ {q}]
  IN sum
TotalExposure(S) == Totals(Exposure)[S]
TotalStep(S) == Totals(Step)[S]

\* observation_until, of whatever mandate, for the campaign of p
Observed(p, q) ==
  /\ charged[q] # NoMandate
  /\ CampaignOf[q] = CampaignOf[p]
  /\ chargedAt[q] + Limits[charged[q]].observation > clock
\* _check_quota, with the sums over the immutable consumptions
QuotaLeft(m, p) ==
  LET charges == ChargedTo(m)
      today == {q \in charges : Today(q)}
  IN /\ TotalExposure(charges) + Exposure[p] <= Limits[m].total
     /\ Cardinality({q \in charges : InLastDay(q)}) < Limits[m].actions
     /\ \A q \in Proposals : ~Observed(p, q)
     /\ TotalExposure(today) + Exposure[p] <= Limits[m].daily
     /\ Step[p] <= Limits[m].step
     /\ TotalStep(today) + Step[p] <= Limits[m].dailyStep

-----------------------------------------------------------------------------
(* execute: policy, readback, reservation.                                 *)
Execute(c, p, m) == Start(c, p, m, "execute", "prepare")

\* _prepare: the mandate and the policy; the facts the policy judges come with
\* the request or age with the snapshot, so it may refuse at any time
Prepare(c) ==
  /\ pc[c] = "prepare"
  /\ \/ Usable(mandate[c], clock) /\ Goto(c, "read_before")
     \/ Goto(c, "handler")
  /\ UNCHANGED <<boundaryVars, mandateVars, chargeVars>>

ReadBefore(c) ==
  /\ pc[c] = "read_before"
  /\ LET p == key[c]
         before == Readback(p)
     IN \/ /\ before \notin {CurrentValue[p], TargetValue[p]}
           /\ Return(c)
        \/ /\ before \in {CurrentValue[p], TargetValue[p]}
           /\ pc' = [pc EXCEPT ![c] = "reserve"]
           /\ seen' = [seen EXCEPT ![c] =
                IF before = TargetValue[p] THEN "NO_CHANGE" ELSE "NONE"]
           /\ UNCHANGED <<mode, key, mandate, at>>
  /\ UNCHANGED <<boundaryVars, mandateVars, chargeVars>>

\* reserve_execution: one transaction charges the quota and opens the key.  A
\* row another call reserved, which may have died since, is answered RESERVED
\* too: this call goes on with it, without the checks of a new row.
ReserveExecution(c) ==
  /\ pc[c] = "reserve"
  /\ LET p == key[c]
         m == mandate[c]
         bound == Usable(m, clock) /\ p \in Binds[m]
         new == status[p] = "NONE"
         free == ~UnknownOutstanding /\ ~Killed(p) /\ QuotaLeft(m, p)
         next == IF seen[c] = "NO_CHANGE" THEN "finish_no_change" ELSE "send"
     IN \/ /\ \/ ~bound
              \/ new /\ UnknownOutstanding
              \/ new /\ ~OtherActive /\ ~free
              \/ StorageFails
           /\ Goto(c, "handler") /\ UNCHANGED <<ledgerVars, chargeVars>>
        \/ /\ bound /\ status[p] # "RESERVED"
           /\ new => ~UnknownOutstanding /\ OtherActive
           /\ Return(c) /\ UNCHANGED <<ledgerVars, chargeVars>>
        \/ /\ bound /\ status[p] = "RESERVED"
           /\ Goto(c, next) /\ UNCHANGED <<ledgerVars, chargeVars>>
        \/ /\ bound /\ new /\ ~OtherActive /\ free
           /\ SetStatus(p, "RESERVED", clock)
           /\ charged' = [charged EXCEPT ![p] = m]
           /\ chargedAt' = [chargedAt EXCEPT ![p] = clock]
           /\ Goto(c, next)
  /\ UNCHANGED <<window, controlVars, audits, adapter, adapterVars, clock,
                 mandateVars>>

FinishNoChange(c) ==
  /\ pc[c] = "finish_no_change"
  /\ IF FinishAccepted(key[c], "NO_CHANGE")
       THEN Finish(key[c], "NO_CHANGE") /\ Return(c)
       ELSE Goto(c, "handler") /\ UNCHANGED ledgerVars
  /\ UNCHANGED <<window, controlVars, audits, adapter, adapterVars, clock,
                 mandateVars, chargeVars>>

-----------------------------------------------------------------------------
(* _dispatch and send_once.                                                *)

\* the transaction of send_once; a row that is already IN_FLIGHT is answered as
\* if this call had sent it, so the call reads back and records what it finds
SendTransaction(c) ==
  /\ pc[c] = "send"
  /\ LET p == key[c]
         m == mandate[c]
         bound == Usable(m, clock) /\ p \in Binds[m]
         mine == charged[p] = m /\ ~Killed(p)
     IN \/ /\ ~bound \/ (status[p] = "RESERVED" /\ ~mine) \/ StorageFails
           /\ Goto(c, "handler") /\ UNCHANGED ledgerVars
        \/ /\ bound /\ status[p] = "IN_FLIGHT"
           /\ Goto(c, "observe") /\ UNCHANGED ledgerVars
        \/ /\ bound /\ status[p] \notin Active
           /\ Return(c) /\ UNCHANGED ledgerVars
        \/ /\ bound /\ status[p] = "RESERVED" /\ mine
           /\ SetStatus(p, "IN_FLIGHT", clock)
           /\ pc' = [pc EXCEPT ![c] = "require_committed"]
           /\ at' = [at EXCEPT ![c] = clock]
           /\ UNCHANGED <<mode, key, mandate, seen>>
  /\ UNCHANGED <<window, controlVars, audits, adapter, adapterVars, clock,
                 mandateVars, chargeVars>>

\* require_dispatch_allowed, three times on the way to the transport
RequireDispatchAllowed(c) ==
  /\ \E step \in {<<"require_committed", "audit">>,
                  <<"require_final", "immediate">>,
                  <<"require_immediate", "transport">>} :
       /\ pc[c] = step[1]
       /\ \/ DispatchAllowed(mandate[c], key[c], at[c]) /\ Goto(c, step[2])
          \/ /\ ~DispatchAllowed(mandate[c], key[c], at[c]) \/ StorageFails
             /\ Goto(c, "handler")
  /\ UNCHANGED <<boundaryVars, mandateVars, chargeVars>>

AuthorizeAudit(c) ==
  /\ pc[c] = "audit"
  /\ LET p == key[c] IN
     \/ /\ p \notin audits
        /\ audits' = audits \cup {p} /\ Goto(c, "reserve_window")
     \/ /\ p \in audits
        /\ UNCHANGED audits /\ Goto(c, "quiet_handler")
     \/ /\ StorageFails
        /\ audits' \in {audits, audits \cup {p}} /\ Goto(c, "quiet_handler")
  /\ UNCHANGED <<ledgerVars, window, controlVars, adapter, adapterVars, clock,
                 mandateVars, chargeVars>>

ReserveDispatchWindow(c) ==
  /\ pc[c] = "reserve_window"
  /\ \/ /\ WindowAvailable
        /\ ReserveWindow(key[c]) /\ Goto(c, "final_check")
     \/ /\ ~WindowAvailable \/ StorageFails
        /\ UNCHANGED window /\ Goto(c, "handler")
  /\ UNCHANGED <<ledgerVars, controlVars, audits, adapter, adapterVars, clock,
                 mandateVars, chargeVars>>

\* _revalidate_dispatch, in the boundary and again before the transport
RevalidateDispatch(c) ==
  /\ \E step \in {<<"final_check", "require_final", "release_window">>,
                  <<"immediate", "require_immediate", "handler">>} :
       /\ pc[c] = step[1]
       /\ \/ /\ DispatchAllowed(mandate[c], key[c], clock)
             /\ Readback(key[c]) = CurrentValue[key[c]]
             /\ pc' = [pc EXCEPT ![c] = step[2]]
             /\ at' = [at EXCEPT ![c] = clock]
             /\ UNCHANGED <<mode, key, mandate, seen>>
          \/ Goto(c, step[3])
  /\ UNCHANGED <<boundaryVars, mandateVars, chargeVars>>

Transport(c) ==
  /\ pc[c] = "transport"
  /\ CountWrite(key[c])
  /\ Goto(c, "apply")
  /\ UNCHANGED <<ledgerVars, window, controlVars, audits, adapter, clock,
                 mandateVars, chargeVars>>

\* mutant: a timeout sends the command once more
TransportRetries(c) ==
  /\ pc[c] = "apply"
  /\ TakeEffect(key[c])
  /\ Goto(c, IF adapter.timeout THEN "transport" ELSE "observe")
  /\ UNCHANGED <<ledgerVars, window, controlVars, audits, adapter, clock,
                 mandateVars, chargeVars>>

TransportEnds(c) ==
  /\ pc[c] = "apply"
  /\ TakeEffect(key[c])
  /\ Goto(c, "observe")
  /\ UNCHANGED <<ledgerVars, window, controlVars, audits, adapter, clock,
                 mandateVars, chargeVars>>

-----------------------------------------------------------------------------
(* After the write, after a timeout and in reconcile: read back, record,   *)
(* settle the window; a failure to do so is answered UNKNOWN_RESULT.       *)
Reconcile(c, p) ==
  /\ status[p] \in Active
  /\ Start(c, p, NoMandate, "reconcile", "observe")

Observe(c) ==
  /\ pc[c] = "observe"
  /\ seen' = [seen EXCEPT ![c] = Classify(key[c], Readback(key[c]))]
  /\ pc' = [pc EXCEPT ![c] = "finish"]
  /\ UNCHANGED <<mode, key, mandate, at>>
  /\ UNCHANGED <<boundaryVars, mandateVars, chargeVars>>

FinishExecution(c) ==
  /\ pc[c] = "finish"
  /\ IF FinishAccepted(key[c], seen[c])
       THEN Finish(key[c], seen[c]) /\ Goto(c, "settle")
       ELSE UNCHANGED ledgerVars /\ Return(c)
  /\ UNCHANGED <<window, controlVars, audits, adapter, adapterVars, clock,
                 mandateVars, chargeVars>>

SettleWindow(c) ==
  /\ pc[c] = "settle"
  /\ LET p == key[c] IN
     \/ seen[c] = "APPLIED" /\ HoldsWindow(p) /\ ActivateWindow(p)
     \/ seen[c] = "APPLIED" /\ ~HoldsWindow(p) /\ UNCHANGED window
     \/ seen[c] = "FAILED" /\ ReleaseWindow(p)
     \/ seen[c] = "UNKNOWN_RESULT" /\ UNCHANGED window
     \/ StorageFails /\ UNCHANGED window
  /\ Return(c)
  /\ UNCHANGED <<ledgerVars, controlVars, audits, adapter, adapterVars, clock,
                 mandateVars, chargeVars>>

-----------------------------------------------------------------------------
(* What a refusal undoes: _finish_active_as_blocked closes the key if it   *)
(* is active, whoever made it so; then the window is released.  An audit   *)
(* failure and recheck leave the window alone.                             *)
ReleaseOrFail(c) == ReleaseWindow(key[c]) \/ (StorageFails /\ UNCHANGED window)

ReleaseRefusedWindow(c) ==
  /\ \/ pc[c] = "release_window" /\ Goto(c, "handler")
     \/ pc[c] = "handler_release" /\ Return(c)
  /\ ReleaseOrFail(c)
  /\ UNCHANGED <<ledgerVars, controlVars, audits, adapter, adapterVars, clock,
                 mandateVars, chargeVars>>

FinishActiveAsBlocked(c) ==
  /\ \/ pc[c] = "handler" /\ Goto(c, "handler_release")
     \/ pc[c] = "quiet_handler" /\ Return(c)
  /\ Finish(key[c], "BLOCKED") \/ (StorageFails /\ UNCHANGED ledgerVars)
  /\ UNCHANGED <<window, controlVars, audits, adapter, adapterVars, clock,
                 mandateVars, chargeVars>>

-----------------------------------------------------------------------------
(* recheck.                                                                *)
Recheck(c, p, m) == status[p] # "NONE" /\ Start(c, p, m, "recheck", "recheck")

\* a source state still in place changes nothing: FAILED is confirmed, BLOCKED
\* is evaluated once more by _prepare and validate_blocked_recheck and stays
RecheckRead(c) ==
  /\ pc[c] = "recheck"
  /\ LET p == key[c]
         means == Classify(p, Readback(p))
     IN \/ /\ status[p] \notin {"BLOCKED", "FAILED"}
           /\ Goto(c, "quiet_handler")
        \/ /\ status[p] \in {"BLOCKED", "FAILED"} /\ means = "FAILED"
           /\ Return(c)
        \/ /\ status[p] \in {"BLOCKED", "FAILED"} /\ means # "FAILED"
           /\ seen' = [seen EXCEPT ![c] = means]
           /\ pc' = [pc EXCEPT ![c] = "record_recheck"]
           /\ UNCHANGED <<mode, key, mandate, at>>
  /\ UNCHANGED <<boundaryVars, mandateVars, chargeVars>>

\* record_recheck_applied and record_recheck_unknown: no window, no quota
RecordRecheck(c) ==
  /\ pc[c] = "record_recheck"
  /\ IF status[key[c]] \in {"BLOCKED", "FAILED"} /\ charged[key[c]] = mandate[c]
       THEN SetStatus(key[c], seen[c], clock) /\ Return(c)
       ELSE UNCHANGED ledgerVars /\ Goto(c, "quiet_handler")
  /\ UNCHANGED <<window, controlVars, audits, adapter, adapterVars, clock,
                 mandateVars, chargeVars>>

-----------------------------------------------------------------------------
(* Faults.                                                                 *)
Crash(c) ==
  /\ "crash" \in session.faults
  /\ pc[c] # "idle"
  /\ Return(c)
  /\ \/ pc[c] = "apply" /\ TakeEffect(key[c])
     \/ UNCHANGED adapterVars
  /\ UNCHANGED <<ledgerVars, window, controlVars, audits, adapter, clock,
                 mandateVars, chargeVars>>

\* sqlite3.Error: the call ends with what the ledger shows of its key
StorageError(c) ==
  /\ StorageFails
  /\ pc[c] \notin {"idle", "audit", "reserve_window", "transport", "apply",
                   "settle"} \cup Handling
  /\ Return(c)
  /\ IF pc[c] = "final_check" THEN ReleaseWindow(key[c]) ELSE UNCHANGED window
  /\ UNCHANGED <<ledgerVars, controlVars, audits, adapter, adapterVars, clock,
                 mandateVars, chargeVars>>

\* the account is changed by someone else, or the next process reads another one
Drift(t) ==
  /\ "drift" \in session.faults
  /\ t \in {TargetOf[p] : p \in session.proposals}
  /\ \E v \in Values : target' = [target EXCEPT ![t] = v]
  /\ UNCHANGED <<ledgerVars, window, controlVars, audits, adapter, timedOut,
                 writes, clock, mandateVars, chargeVars, callVars>>

-----------------------------------------------------------------------------
(* The issuer, the incident principal and time.                            *)
Issue(m) ==
  /\ m \in session.mandates /\ mandates[m] = "NONE" /\ Expiry[m] > clock
  /\ mandates' = [mandates EXCEPT ![m] = "ISSUED"]
  /\ UNCHANGED <<revocations, boundaryVars, chargeVars, callVars>>

Activate(m) ==
  /\ mandates[m] = "ISSUED" /\ Expiry[m] > clock
  /\ mandates' = [mandates EXCEPT ![m] = "ACTIVE"]
  /\ UNCHANGED <<revocations, boundaryVars, chargeVars, callVars>>

\* revoke: the interrupt first, then the row; it may stop in between
InterruptMandate(m) ==
  /\ "revoke" \in session.faults /\ m \in session.mandates
  /\ revocations' = revocations \cup {m}
  /\ UNCHANGED <<mandates, boundaryVars, chargeVars, callVars>>
Revoke(m) ==
  /\ m \in revocations /\ mandates[m] \in {"ISSUED", "ACTIVE"}
  /\ mandates' = [mandates EXCEPT ![m] = "REVOKED"]
  /\ UNCHANGED <<revocations, boundaryVars, chargeVars, callVars>>

\* engage_kill_switch writes the sidecar, then the main row; release the main
\* row, then the sidecar; either may stop in between
EngageSidecar(s) ==
  /\ s \in session.scopes
  /\ s \notin interrupts
  /\ interrupts' = interrupts \cup {s} /\ UNCHANGED killSwitches
EngageMain(s) ==
  /\ s \in interrupts \ killSwitches
  /\ killSwitches' = killSwitches \cup {s} /\ UNCHANGED interrupts
ReleaseMain(s) ==
  /\ s \in killSwitches
  /\ killSwitches' = killSwitches \ {s} /\ UNCHANGED interrupts
ReleaseSidecar(s) ==
  /\ s \in interrupts \ killSwitches
  /\ interrupts' = interrupts \ {s} /\ UNCHANGED killSwitches
KillSwitch(s) ==
  /\ EngageSidecar(s) \/ EngageMain(s) \/ ReleaseMain(s) \/ ReleaseSidecar(s)
  /\ UNCHANGED <<ledgerVars, window, audits, adapter, adapterVars, clock,
                 mandateVars, chargeVars, callVars>>

TimePasses ==
  /\ clock < session.until /\ Tick
  /\ UNCHANGED <<ledgerVars, window, controlVars, audits, adapter, adapterVars,
                 mandateVars, chargeVars, callVars>>

-----------------------------------------------------------------------------
CallStep(c) ==
  \/ Prepare(c) \/ ReadBefore(c) \/ ReserveExecution(c) \/ FinishNoChange(c)
  \/ SendTransaction(c) \/ RequireDispatchAllowed(c) \/ AuthorizeAudit(c)
  \/ ReserveDispatchWindow(c) \/ RevalidateDispatch(c)
  \/ Transport(c) \/ TransportEnds(c)
  \/ Observe(c) \/ FinishExecution(c) \/ SettleWindow(c)
  \/ ReleaseRefusedWindow(c) \/ FinishActiveAsBlocked(c)
  \/ RecheckRead(c) \/ RecordRecheck(c)

Next ==
  /\ \/ \E c \in Callers :
          \/ \E p \in Proposals :
               \/ \E m \in Mandates : Execute(c, p, m) \/ Recheck(c, p, m)
               \/ Reconcile(c, p)
          \/ CallStep(c)
          \/ Crash(c)
          \/ StorageError(c)
     \/ \E m \in Mandates :
          Issue(m) \/ Activate(m) \/ InterruptMandate(m) \/ Revoke(m)
     \/ \E s \in Scopes : KillSwitch(s)
     \/ \E t \in Targets : Drift(t)
     \/ TimePasses
  /\ UNCHANGED session

Spec == Init /\ [][Next]_vars

-----------------------------------------------------------------------------
(* Properties.                                                             *)

\* A key reaches the transport at most once in its life, across duplicate
\* calls, crashes, rechecks and reconciliations.
AtMostOneWrite == \A p \in Proposals : writes[p] <= 1

\* No mandate is overspent: its charges stay within the total and daily
\* exposure, the daily step and the number of actions in any 24 hours, whatever
\* order the reservations, rechecks and days come in.
MandateHeld(m) ==
  /\ TotalExposure(ChargedTo(m)) <= Limits[m].total
  /\ \A p \in ChargedTo(m) :
       LET sameDay == {q \in ChargedTo(m) :
                        chargedAt[q] \div Day = chargedAt[p] \div Day}
           lastDay == {q \in ChargedTo(m) :
                        chargedAt[q] \in (chargedAt[p] - Day + 1)..chargedAt[p]}
       IN /\ TotalExposure(sameDay) <= Limits[m].daily
          /\ TotalStep(sameDay) <= Limits[m].dailyStep
          /\ Cardinality(lastDay) <= Limits[m].actions

\* Two autonomous changes of one campaign are an observation window apart,
\* under whichever mandates they were charged.
ChangesObserved ==
  \A p, q \in Proposals :
    /\ p # q /\ CampaignOf[p] = CampaignOf[q]
    /\ charged[p] # NoMandate /\ charged[q] # NoMandate
    => \/ chargedAt[p] >= chargedAt[q] + Limits[charged[q]].observation
       \/ chargedAt[q] >= chargedAt[p] + Limits[charged[p]].observation

\* Both hold of what the mandates were ever charged with.
QuotaHeld == ChangesObserved /\ \A m \in Mandates : MandateHeld(m)

\* A confirmed or unknown result is immutable; only BLOCKED and FAILED may be
\* rechecked, and a recheck moves them to APPLIED or UNKNOWN_RESULT alone.
OnlyRecheckRewrites ==
  [][\A p \in Proposals :
       status[p] \in Terminal /\ status'[p] # status[p] =>
         /\ status[p] \in {"BLOCKED", "FAILED"}
         /\ status'[p] \in {"APPLIED", "UNKNOWN_RESULT"}]_vars

\* The ledger of an exclusive session as the abstract single writer sees it: here
\* a key whose result is unknown is closed, because recheck may make a closed key
\* unknown.
Writer == INSTANCE SingleWriter WITH
  Keys <- Proposals,
  phase <- [p \in Proposals |->
              CASE ~session.exclusive \/ status[p] = "NONE"      -> "new"
                [] session.exclusive /\ status[p] \in Active -> "open"
                [] OTHER                                     -> "closed"],
  sent <- {p \in Proposals : session.exclusive /\ writes[p] > 0}

\* Calls that never overlap on a key implement the single writer: what is
\* written is written once, while its key and no other is open.
ImplementsSingleWriter == Writer!SWSpec

=============================================================================
