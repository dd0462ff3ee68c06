--------------------------- MODULE MCGoalLifecycle ---------------------------
(* GoalLifecycle for TLC.                                                  *)
EXTENDS GoalLifecycle

CONSTANTS g1, g2, c1, c2

AllCallers == Permutations(Callers)

OwnReservations == [g \in Goals |-> IF g = g1 THEN "x1" ELSE "x2"]
OneEvent == [g \in Goals |-> "s1"]
PlansOf == {Create(g) : g \in Goals} \cup {PublishPlan(g1, <<>>), PublishPlan(g2, <<>>),
            PublishPlan(g2, <<g1>>)}
Approval(binding, expires) ==
  [kind |-> "APPROVAL", principal |-> Approver, binding |-> binding, expires |-> expires]
Mandate(binding, expires) ==
  [kind |-> "MANDATE", principal |-> MandateIssuer, binding |-> binding, expires |-> expires]
ProposedAuthorities ==
  "a1" :> Mandate(Create(g1), 2) @@ "a2" :> Approval(Create(g2), 1) @@
  "a3" :> Approval(PublishPlan(g1, <<>>), 2) @@ "a4" :> Approval(PublishPlan(g2, <<g1>>), 2)
Quotas == [a \in Authorities |-> IF a = "a1" THEN 2 ELSE 1]
=============================================================================
