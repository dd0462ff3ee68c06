--------------------------- MODULE MCRecommendation ---------------------------
(* An instance of Recommendation: two callers and reads that reach every row *)
(* of the decision table, every gap and every refusal of the linkage.  The   *)
(* clock of the reads counts half hours, with the bounds of                  *)
(* config/gate0-policy.json.                                                 *)
EXTENDS Recommendation

MCLimits ==
  [pressure |-> 90, target |-> 4, step |-> 15, window |-> 24, stopSpend |-> 5,
   minClicks |-> 2, minConversions |-> 1, lowCtr |-> 2, lowCtrImpressions |-> 3,
   bidMaxClicks |-> 3]

MCTiming ==
  [day |-> 48, direct |-> 1, metrika |-> 12, skew |-> 12, cutoff |-> 144,
   fixtureAge |-> 96]
MCOffsets == [UTC |-> 0, Moscow |-> 6]
MCTrusted ==
  [campaign |-> "campaign", goal |-> "goal", baseline |-> "earlier", owner |-> "owner",
   direct |-> "AUTO", metrika |-> "automatic"]

\* A week of reports whose figures lie on its first and its last day.
First == 7
Last == 13
End == (Last + 1) * MCTiming.day
DirectRows(impressions, clicks, cost) ==
  [i \in 1..7 |->
     [day |-> First + i - 1, campaign |-> "campaign",
      impressions |-> IF i = 1 THEN impressions ELSE 0,
      clicks |-> IF i = 1 THEN clicks ELSE 0, cost |-> IF i = 7 THEN cost ELSE 0]]
MetrikaRows(visits, goals) ==
  [i \in 1..7 |->
     [day |-> First + i - 1, campaign |-> "campaign", goal |-> "goal",
      visits |-> IF i = 7 THEN visits ELSE 0,
      goalVisits |-> IF i = 7 THEN goals ELSE 0]]

\* A campaign that converts on target with budget to spare, read when its week
\* had just ended.
Healthy ==
  [generated |-> End + 2, campaign |-> "campaign", goal |-> "goal",
   from |-> First, to |-> Last, baseline |-> "earlier",
   direct |-> [source |-> "LOCAL_FIXTURE", retrieved |-> End + 2, watermark |-> End + 1,
               from |-> First, to |-> Last, zone |-> "UTC", attribution |-> "AUTO",
               currency |-> "RUB", rows |-> DirectRows(9, 3, 3)],
   state |-> [source |-> "LOCAL_FIXTURE", retrieved |-> End + 2, watermark |-> End + 1,
              campaign |-> "campaign", state |-> "ON", strategy |-> "HIGHEST_POSITION",
              variant |-> "A", budget |-> 6, from |-> First * MCTiming.day,
              to |-> End, author |-> "owner"],
   metrika |-> [source |-> "LOCAL_FIXTURE", retrieved |-> End + 2, watermark |-> End + 1,
                from |-> First, to |-> Last, zone |-> "UTC",
                attribution |-> "automatic", rows |-> MetrikaRows(3, 1)]]

\* The same campaign as the production reader finds it, at instants of Tuesday
\* and, for a slow one, across the midnight in which a week ends.
World ==
  [zone |-> "Moscow", state |-> "ON", strategy |-> "HIGHEST_POSITION", budget |-> 6,
   direct |-> (8 :> [impressions |-> 9, clicks |-> 3, cost |-> 3]),
   metrika |-> (9 :> [goal |-> "goal", visits |-> 3, goalVisits |-> 1])]
Tuesday == 15 * MCTiming.day + 20
Sunday == 14 * MCTiming.day - 8
Quick == [start |-> Tuesday, state |-> Tuesday, direct |-> Tuesday, metrika |-> Tuesday,
          done |-> Tuesday]
Slow == [start |-> Sunday, state |-> Sunday + 1, direct |-> Sunday + 2,
         metrika |-> Sunday + 4, done |-> Sunday + 5]

\* Reads at the very bounds of freshness, skew and cutoff.
AtBounds ==
  [Healthy EXCEPT !.generated = End + 13,
                  !.direct.retrieved = End + 12, !.direct.watermark = End + 12,
                  !.state.retrieved = End + 12, !.state.watermark = End,
                  !.metrika.retrieved = End + 1, !.metrika.watermark = End]

MCReads ==
  [healthy |-> Healthy,
   abroad |-> [Healthy EXCEPT !.direct.zone = "Moscow", !.metrika.zone = "Moscow",
                              !.state.from = @ - 6, !.state.to = @ - 6],
   wasteful |-> [Healthy EXCEPT !.metrika.rows = MetrikaRows(3, 0),
                                !.direct.rows = DirectRows(9, 3, 6)],
   barren |-> [Healthy EXCEPT !.metrika.rows = MetrikaRows(3, 0)],
   suspended |-> [Healthy EXCEPT !.state.state = "SUSPENDED"],
   unclicked |-> [Healthy EXCEPT !.direct.rows = DirectRows(300, 3, 3)],
   dearTight |-> [Healthy EXCEPT !.direct.rows = DirectRows(9, 3, 5), !.state.budget = 5],
   dear |-> [Healthy EXCEPT !.metrika.rows = MetrikaRows(3, 2),
                            !.direct.rows = DirectRows(9, 3, 9), !.state.budget = 20],
   tight |-> [Healthy EXCEPT !.state.budget = 3],
   clicked |-> [Healthy EXCEPT !.direct.rows = DirectRows(9, 4, 3)],
   archived |-> [Healthy EXCEPT !.state.state = "ARCHIVED"],
   manual |-> [Healthy EXCEPT !.state.strategy = "AVERAGE_CPC"],
   atBounds |-> AtBounds,
   unfounded |-> [Healthy EXCEPT !.baseline = NoBaseline],
   foreignRow |-> [Healthy EXCEPT !.direct.rows[2].campaign = "other"],
   staleDirect |-> [AtBounds EXCEPT !.state.retrieved = End + 11],
   staleMetrika |-> [AtBounds EXCEPT !.metrika.retrieved = End],
   skewed |-> [AtBounds EXCEPT !.metrika.watermark = End - 1],
   unzoned |-> [Healthy EXCEPT !.metrika.zone = "Moscow"],
   attributed |-> [Healthy EXCEPT !.metrika.attribution = "last"],
   early |-> [Healthy EXCEPT !.generated = End - 1, !.direct.retrieved = End - 1,
                !.direct.watermark = End - 1, !.state.retrieved = End - 1,
                !.state.watermark = End - 1, !.metrika.retrieved = End - 1,
                !.metrika.watermark = End - 1],
   dollars |-> [Healthy EXCEPT !.direct.currency = "USD"],
   nextWeek |-> [Healthy EXCEPT !.state.from = End + 48, !.state.to = End + 8 * 48],
   asked |-> [Healthy EXCEPT !.from = First + 1],
   late |-> Collected([World EXCEPT !.zone = "UTC"], 7,
                      [start |-> End + 144, state |-> End + 144, direct |-> End + 144,
                       metrika |-> End + 144 + 145, done |-> End + 144 + 145]),
   quick |-> Collected(World, 7, Quick),
   slow |-> Collected(World, 7, Slow),
   unpaid |-> [Healthy EXCEPT !.state.budget = 0],
   unknown |-> [Healthy EXCEPT !.state.author = "other"],
   future |-> [Healthy EXCEPT !.metrika.retrieved = End + 3],
   old |-> [Healthy EXCEPT !.generated = End + 97],
   mixed |-> [Healthy EXCEPT !.metrika.source = "METRIKA_REPORT"],
   shortWeek |-> [Healthy EXCEPT !.state.to = End - 48],
   incomplete |-> [Healthy EXCEPT !.metrika.rows[3].day = First]]

\* The first calls race under a crash or a failed write; the others show what
\* becomes of the remaining reads.
MCSessions ==
  {[subjects |-> {"healthy"}, faults |-> 1],
   [subjects |-> {"healthy", "barren"}, faults |-> 1]}
  \cup {[subjects |-> {s}, faults |-> 0] : s \in DOMAIN MCReads}

Symmetry == Permutations(Callers)
===============================================================================
