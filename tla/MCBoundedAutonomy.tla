------------------------- MODULE MCBoundedAutonomy -------------------------
(* Finite instances of BoundedAutonomy.  Each proposal changes its own     *)
(* target from v0 to v1; v2 is a value neither expects.                    *)
EXTENDS BoundedAutonomy, TLC

CONSTANTS p1, p2, p3, m1, m2, v0, v1, v2, global, k1, k2

MCTargetOf == [p \in Proposals |-> p]
MCCurrentValue == [p \in Proposals |-> v0]
MCTargetValue == [p \in Proposals |-> v1]
MCScopesOf == [p \in Proposals |-> Scopes]
HonestAdapter == [timeout |-> FALSE, readback |-> UseState]
SilentAdapter == [timeout |-> TRUE, readback |-> v2]
MCAdapters ==
  {HonestAdapter, SilentAdapter, [timeout |-> TRUE, readback |-> UseState]}
MCStartAtCurrent == {[t \in Targets |-> v0]}
MCBindsAll == [m \in Mandates |-> Proposals]
MCLateExpiry == [m \in Mandates |-> MaxClock + 1]
MCExposure == [p \in Proposals |-> IF p = p3 THEN 1 ELSE 2]
MCStep == [p \in Proposals |-> 10]
\* p1 and p2 change the same campaign
MCCampaignOf == [p \in Proposals |-> IF p = p3 THEN k2 ELSE k1]
MCTightLimits == [m \in Mandates |->
  IF m = m1 THEN [total |-> 4, daily |-> 3, actions |-> 2, step |-> 10,
                  dailyStep |-> 20, observation |-> 1]
            ELSE [total |-> 9, daily |-> 9, actions |-> 1, step |-> 10,
                  dailyStep |-> 90, observation |-> 2]]
\* three proposals and two days spend the mandates; calls of one key overlap
\* under every fault; exclusive calls of two keys crash; incidents stop a call
MCSessions ==
  {[callers |-> {"c1"}, proposals |-> {p1, p2, p3}, mandates |-> {m1, m2},
    scopes |-> {}, adapters |-> {HonestAdapter}, until |-> 2,
    exclusive |-> TRUE, faults |-> {}],
   [callers |-> {"c1", "c2"}, proposals |-> {p1}, mandates |-> {m1},
    scopes |-> {}, adapters |-> {HonestAdapter, SilentAdapter}, until |-> 0,
    exclusive |-> FALSE, faults |-> {"crash", "storage", "drift"}],
   [callers |-> {"c1", "c2"}, proposals |-> {p2, p3}, mandates |-> {m1},
    scopes |-> {}, adapters |-> MCAdapters, until |-> 0,
    exclusive |-> TRUE, faults |-> {"crash"}],
   [callers |-> {"c1"}, proposals |-> {p1, p3}, mandates |-> {m1},
    scopes |-> {global}, adapters |-> {HonestAdapter}, until |-> 0,
    exclusive |-> TRUE, faults |-> {"crash", "storage", "revoke"}]}
=============================================================================
