------------------------ MODULE MCApprovalExecution ------------------------
(* Finite instances of ApprovalExecution.  Both proposals change the same  *)
(* target: p1 from v0 to v1, p2 from v1 to v2, so p2 only becomes possible *)
(* after p1 was applied; v2 is also the "neither" value of p1.             *)
EXTENDS ApprovalExecution, TLC

CONSTANTS p1, p2, t1, v0, v1, v2, global

MCTargetOf == [p \in Proposals |-> t1]
MCCurrentValue == [p \in Proposals |-> IF p = p1 THEN v0 ELSE v1]
MCTargetValue == [p \in Proposals |-> IF p = p1 THEN v1 ELSE v2]
HonestAdapter == [timeout |-> FALSE, readback |-> UseState]
MCHonest == {HonestAdapter}
MCCrashAdapters ==
  {HonestAdapter, [timeout |-> TRUE, readback |-> UseState],
   [timeout |-> TRUE, readback |-> v2]}
MCStartAtCurrent == {[t \in Targets |-> v0]}
MCAnyStart == [Targets -> Values]
MCScopesOf == [p \in Proposals |-> Scopes]
=============================================================================
