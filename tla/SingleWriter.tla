----------------------------- MODULE SingleWriter -----------------------------
(***************************************************************************)
(* What the execution ledger promises to the account, whatever mode drives *)
(* it: keys are opened one at a time, a key is opened once in its life, an *)
(* external write happens only for the open key and at most once per key,  *)
(* and a closed key is never reopened.  A key whose result is unknown      *)
(* stays open.  Abstract specification of the executions table of          *)
(* control_state.py; ApprovalExecution and BoundedAutonomy implement it.    *)
(***************************************************************************)
CONSTANT Keys

VARIABLES
  phase,  \* [Keys -> {"new", "open", "closed"}]
  sent    \* keys that were written to the account

swVars == <<phase, sent>>

SWInit == phase = [k \in Keys |-> "new"] /\ sent = {}

Open(k) ==
  /\ phase[k] = "new"
  /\ \A j \in Keys : phase[j] # "open"
  /\ phase' = [phase EXCEPT ![k] = "open"]
  /\ UNCHANGED sent

Send(k) ==
  /\ phase[k] = "open"
  /\ k \notin sent
  /\ sent' = sent \cup {k}
  /\ UNCHANGED phase

Close(k) ==
  /\ phase[k] = "open"
  /\ phase' = [phase EXCEPT ![k] = "closed"]
  /\ UNCHANGED sent

SWNext == \E k \in Keys : Open(k) \/ Send(k) \/ Close(k)

SWSpec == SWInit /\ [][SWNext]_swVars
=============================================================================
