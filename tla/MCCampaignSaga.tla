--------------------------- MODULE MCCampaignSaga ---------------------------
(* CampaignSaga for TLC.                                                   *)
EXTENDS CampaignSaga

CONSTANTS r1, r2, p1, p2

OneReservation == [r \in Requests |-> "x1"]
PlanBindings == Requests \X Plans

Interchangeable == {f @@ g : f \in Permutations(Requests), g \in Permutations(Plans)}

Plain == [reconciles |-> TRUE, production |-> FALSE, failOn |-> NoOp,
          failDelete |-> NoOp, timeoutAfter |-> NoOp, mistypes |-> NoOp]
CannotRead == [Plain EXCEPT !.failOn = <<"Campaigns", "get">>, !.failDelete = "AdGroups"]
FaultyAdapters ==
  {Plain,
   [Plain EXCEPT !.production = TRUE],
   [Plain EXCEPT !.timeoutAfter = <<"Campaigns", "add">>],
   [Plain EXCEPT !.timeoutAfter = <<"Ads", "moderate">>, !.reconciles = FALSE],
   [Plain EXCEPT !.timeoutAfter = <<"Ads", "delete">>, !.failOn = <<"Keywords", "add">>],
   [Plain EXCEPT !.failOn = <<"Campaigns", "add">>],
   CannotRead,
   [Plain EXCEPT !.mistypes = "AdGroups"]}
\* one caller under every fault; two callers whose calls overlap, three of them at an
\* honest adapter, two at one that cannot read back
MCSessions ==
  {[callers |-> {"c1"}, adapters |-> FaultyAdapters, calls |-> 2,
    incidents |-> 1, crashes |-> 1, managed |-> 1],
   [callers |-> {"c1", "c2"}, adapters |-> {Plain}, calls |-> 3,
    incidents |-> 0, crashes |-> 0, managed |-> 0],
   [callers |-> {"c1", "c2"}, adapters |-> {CannotRead}, calls |-> 2,
    incidents |-> 0, crashes |-> 0, managed |-> 0]}
=============================================================================
