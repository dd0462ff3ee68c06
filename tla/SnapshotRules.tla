----------------------------- MODULE SnapshotRules -----------------------------
(***************************************************************************)
(* How three reads become one snapshot: the reads of the production reader *)
(* (yandex_read.py) and of a linked fixture (connectors.py), their linkage *)
(* (normalization.py: what is refused, what is a gap, what may be compared)*)
(* and the metrics of the result (analytics.py).                           *)
(*                                                                         *)
(* The three blocks are read one after the other, from two systems, while  *)
(* time goes on and the account changes; a block is a record with the      *)
(* instant it was retrieved and the instant it is complete up to, its      *)
(* watermark.  Days are integers that begin at UTC midnight, day 0 is a    *)
(* Monday, and a time zone is an offset without daylight saving.  The      *)
(* report-only metrics (CPC, CPL, pacing, deviation from the baseline) and *)
(* the fingerprint are left out.                                           *)
(***************************************************************************)
EXTENDS ProposalRules, Integers, Sequences, FiniteSetsExt, TLC

CONSTANTS
  Timing,   \* policy timing, in the unit of the clock
  Offsets,  \* of the known time zones, ahead of UTC
  Trusted   \* the trusted scope: campaign, goal, baseline campaign, owner, attributions

ASSUME TimingAssumption ==
  /\ Timing \in [{"day", "direct", "metrika", "skew", "cutoff", "fixtureAge"} -> Nat]
  /\ Timing.day > 0
  /\ \A z \in DOMAIN Offsets : Offsets[z] \in Int

Unavailable == "UNAVAILABLE_READ_ONLY"
NoBaseline == "none"

Midnight(day) == day * Timing.day
LocalMidnight(day, zone) == Midnight(day) - Offsets[zone]
LocalDay(t, zone) == (t + Offsets[zone]) \div Timing.day
IsLocalMidnight(t, zone) == (t + Offsets[zone]) % Timing.day = 0

Days(from, to) == from..to
DaysOf(rows) == {rows[i].day : i \in DOMAIN rows}

\* The sums of the beginnings of a sequence of numbers, and of all of it.
Sums(w) ==
  LET sum[i \in 0..Len(w)] == IF i = 0 THEN 0 ELSE sum[i - 1] + w[i] IN sum
SumOf(w) == Sums(w)[Len(w)]

\* The sum of a column over the rows of some days.
Total(rows, column, days) ==
  SumOf([i \in DOMAIN rows |-> IF rows[i].day \in days THEN rows[i][column] ELSE 0])

------------------------------------------------------------------------------
(* The production reader (yandex_read.py)                                  *)

\* _read_direct_campaign: the state, with the calendar week of the campaign's
\* time zone as the budget period, and no author of the last change.
CampaignRead(w, t) ==
  LET today == LocalDay(t, w.zone)
      monday == today - (today % 7) IN
  [source |-> "DIRECT_CAMPAIGN_STATE", retrieved |-> t, watermark |-> t,
   campaign |-> Trusted.campaign, state |-> w.state, strategy |-> w.strategy,
   variant |-> "NOT_REQUESTED", budget |-> w.budget,
   from |-> LocalMidnight(monday, w.zone), to |-> LocalMidnight(monday + 7, w.zone),
   author |-> Unavailable]

\* The report of a period: a day the answer does not mention has a row of zeros.
Filled(answer, from, to, none) ==
  [i \in 1..(to - from + 1) |->
     LET day == from + i - 1 IN
       [day |-> day, campaign |-> Trusted.campaign]
         @@ (IF day \in DOMAIN answer THEN answer[day] ELSE none)]

\* _read_direct_report.
DirectRead(w, from, to, t) ==
  [source |-> "DIRECT_REPORTS", retrieved |-> t, watermark |-> t, from |-> from,
   to |-> to, zone |-> w.zone, attribution |-> Trusted.direct, currency |-> "RUB",
   rows |-> Filled(w.direct, from, to, [impressions |-> 0, clicks |-> 0, cost |-> 0])]

\* _read_metrika_report, in the time zone of the campaign.
MetrikaRead(w, from, to, t) ==
  [source |-> "METRIKA_REPORT", retrieved |-> t, watermark |-> t, from |-> from,
   to |-> to, zone |-> w.zone, attribution |-> Trusted.metrika,
   rows |-> Filled(w.metrika, from, to,
                   [goal |-> Trusted.goal, visits |-> 0, goalVisits |-> 0])]

\* YandexProductionReader.collect_snapshot: the campaign, its report and the
\* report of the counter, read at the instants of at for the days before the one
\* in which the run began; without a baseline.
Collected(w, lookback, at) ==
  LET to == LocalDay(at.start, w.zone) - 1
      from == to - lookback + 1 IN
  [generated |-> at.done, campaign |-> Trusted.campaign, goal |-> Trusted.goal,
   from |-> from, to |-> to, baseline |-> NoBaseline,
   direct |-> DirectRead(w, from, to, at.direct),
   state |-> CampaignRead(w, at.state),
   metrika |-> MetrikaRead(w, from, to, at.metrika)]

------------------------------------------------------------------------------
(* The linked fixture (connectors.py)                                      *)

\* read_linked, as far as the numbers go.  The reader has no such checks.
WellFormed(r) ==
  /\ r.state.budget > 0
  /\ r.direct.rows # <<>> /\ r.metrika.rows # <<>>
  /\ \A i \in DOMAIN r.direct.rows :
       r.direct.rows[i].clicks <= r.direct.rows[i].impressions
  /\ \A i \in DOMAIN r.metrika.rows :
       r.metrika.rows[i].goalVisits <= r.metrika.rows[i].visits

------------------------------------------------------------------------------
(* What either reader hands on (contracts.py): rows of natural numbers, a   *)
(* natural budget, and instants; anything else it refuses while it parses.  *)

RowsParsed(rows, columns) ==
  /\ Len(rows) \in Nat /\ DOMAIN rows = 1..Len(rows)
  /\ \A i \in DOMAIN rows :
       rows[i].day \in Int /\ \A column \in columns : rows[i][column] \in Nat

Parsed(r) ==
  /\ RowsParsed(r.direct.rows, {"impressions", "clicks", "cost"})
  /\ RowsParsed(r.metrika.rows, {"visits", "goalVisits"})
  /\ r.state.budget \in Nat
  /\ {r.generated, r.from, r.to} \subseteq Int
  /\ \A b \in {r.direct, r.state, r.metrika} :
       {b.retrieved, b.watermark, b.from, b.to} \subseteq Int

------------------------------------------------------------------------------
(* Linkage (normalization.py)                                              *)

SourcesOf(r) == <<r.direct.source, r.state.source, r.metrika.source>>
LocalFixture(r) == SourcesOf(r) = <<"LOCAL_FIXTURE", "LOCAL_FIXTURE", "LOCAL_FIXTURE">>
Production(r) ==
  SourcesOf(r) = <<"DIRECT_REPORTS", "DIRECT_CAMPAIGN_STATE", "METRIKA_REPORT">>

\* _validate_trusted_scope.
InTrustedScope(r) ==
  /\ r.campaign = Trusted.campaign /\ r.goal = Trusted.goal
  /\ r.baseline \in {NoBaseline, Trusted.baseline}
  /\ \/ r.state.author = Trusted.owner
     \/ ~LocalFixture(r) /\ r.state.author = Unavailable

\* Every day of the period has its row, and only one.
CoversPeriod(block) ==
  /\ block.from <= block.to
  /\ DaysOf(block.rows) = Days(block.from, block.to)
  /\ Len(block.rows) = block.to - block.from + 1

\* _validate_rows.
RowsComplete(r) ==
  /\ CoversPeriod(r.direct) /\ CoversPeriod(r.metrika)
  /\ LocalFixture(r) => r.direct.to - r.direct.from = 6

ZonesAligned(r) == r.direct.zone = r.metrika.zone /\ r.direct.zone \in DOMAIN Offsets

\* The weekly budget period spans seven days, of the campaign where its zone is known.
BudgetWeek(r) ==
  IF ZonesAligned(r)
  THEN /\ IsLocalMidnight(r.state.from, r.direct.zone)
       /\ IsLocalMidnight(r.state.to, r.direct.zone)
       /\ LocalDay(r.state.to, r.direct.zone) - LocalDay(r.state.from, r.direct.zone) = 7
  ELSE r.state.to - r.state.from = Midnight(7)

\* The instant the reported period ended.
ClosedAt(r) ==
  IF ZonesAligned(r) THEN LocalMidnight(r.direct.to + 1, r.direct.zone)
  ELSE Midnight(r.direct.to + 1)

Blocks(r) == {r.direct, r.state, r.metrika}

\* Nothing was retrieved after the snapshot, nor is complete beyond its retrieval.
ProvenancePast(r) ==
  \A b \in Blocks(r) : b.retrieved <= r.generated /\ b.watermark <= b.retrieved

RecentFixture(r) == LocalFixture(r) => r.generated - ClosedAt(r) <= Timing.fixtureAge

\* The reads that normalize does not refuse.
Linked(r) ==
  /\ LocalFixture(r) \/ Production(r)
  /\ LocalFixture(r) => WellFormed(r)
  /\ InTrustedScope(r)
  /\ BudgetWeek(r)
  /\ ProvenancePast(r)
  /\ RecentFixture(r)
  /\ RowsComplete(r)

GapIf(condition, gap) == IF condition THEN {gap} ELSE {}

IdentifiersDiffer(r) ==
  \/ \E b \in {r.direct, r.metrika} : \E i \in DOMAIN b.rows : b.rows[i].campaign # r.campaign
  \/ \E i \in DOMAIN r.metrika.rows : r.metrika.rows[i].goal # r.goal
  \/ r.state.campaign # r.campaign

PeriodsDiffer(r) ==
  \E b \in {r.direct, r.metrika} : b.from # r.from \/ b.to # r.to

\* A report about other days than the budget week, by the days of UTC or by
\* those of the campaign: both are looked at.
PacingUndefined(r) ==
  LET zone == IF ZonesAligned(r) THEN Offsets[r.direct.zone] ELSE 0 IN
  \/ r.state.from \div Timing.day # r.direct.from
  \/ r.state.to # Midnight(r.direct.to + 1)
  \/ (r.state.from + zone) \div Timing.day # r.direct.from
  \/ r.state.to # ClosedAt(r)

\* The age of a block is that of its retrieval.
DirectStale(r) ==
  \E b \in {r.direct, r.state} : r.generated - b.retrieved > Timing.direct
MetrikaStale(r) == r.generated - r.metrika.retrieved > Timing.metrika

Skewed(r) == \E b, d \in Blocks(r) : b.watermark - d.watermark > Timing.skew

\* The gaps that make the blocks incompatible.
BlockingGaps(r) ==
  UNION {GapIf(IdentifiersDiffer(r), "IDENTIFIER_MISMATCH"),
         GapIf(PeriodsDiffer(r), "PERIOD_MISMATCH"),
         GapIf(~ZonesAligned(r), "TIMEZONE_MISMATCH"),
         GapIf(r.direct.attribution # Trusted.direct
               \/ r.metrika.attribution # Trusted.metrika, "ATTRIBUTION_MISMATCH"),
         GapIf(r.direct.currency # "RUB", "CURRENCY_MISMATCH"),
         GapIf(r.generated < r.state.from, "BUDGET_PERIOD_MISMATCH"),
         GapIf(DirectStale(r), "DIRECT_DATA_STALE"),
         GapIf(MetrikaStale(r), "METRIKA_DATA_STALE"),
         GapIf(Skewed(r), "WATERMARK_SKEW_EXCEEDED"),
         GapIf(r.generated < ClosedAt(r), "PERIOD_NOT_CLOSED"),
         GapIf(r.metrika.watermark > ClosedAt(r) + Timing.cutoff,
               "LATE_CONVERSION_CUTOFF_EXCEEDED")}

\* The gaps that leave it partial.
PartialGaps(r) ==
  UNION {GapIf(PacingUndefined(r), "PACING_BUDGET_PERIOD_MISMATCH"),
         GapIf(~LocalFixture(r) /\ r.state.author = Unavailable,
               "CHANGE_PROVENANCE_UNAVAILABLE"),
         GapIf(r.baseline = NoBaseline, "BASELINE_UNAVAILABLE")}

\* Gaps of time alone are listed, and compared nonetheless.
ComparabilityOfContent(r) ==
  IF BlockingGaps(r) \ {"DIRECT_DATA_STALE", "METRIKA_DATA_STALE",
                        "WATERMARK_SKEW_EXCEEDED"} # {} THEN "INCOMPATIBLE"
  ELSE IF PartialGaps(r) # {} THEN "PARTIAL"
  ELSE "COMPARABLE"

\* _comparability, and what normalize makes of it.
Comparability(r) ==
  IF BlockingGaps(r) # {} THEN "INCOMPATIBLE"
  ELSE IF PartialGaps(r) # {} THEN "PARTIAL"
  ELSE "COMPARABLE"

\* confidence_status, over all rows of both reports.
Confidence(r) ==
  IF \/ Total(r.direct.rows, "clicks", DaysOf(r.direct.rows)) < Limits.minClicks
     \/ Total(r.metrika.rows, "goalVisits", DaysOf(r.metrika.rows)) < Limits.minConversions
  THEN "INSUFFICIENT_DATA"
  ELSE IF DirectStale(r) \/ MetrikaStale(r) THEN "STALE_DATA"
  ELSE "READY"

------------------------------------------------------------------------------
(* The metrics (analytics.py)                                              *)

\* _join_rows keeps the days both reports have.
Joined(r) == DaysOf(r.direct.rows) \cap DaysOf(r.metrika.rows)

\* Exact decimals are only compared with whole limits: the comparisons are
\* those of the ratio rounded up (x <= limit) or down (x < limit, x >= limit).
RatioUp(n, d) == IF d = 0 THEN NA ELSE (n + d - 1) \div d
RatioDown(n, d) == IF d = 0 THEN NA ELSE n \div d

\* IntegratedAnalyticsEngineV1.calculate over the normalized reads: what
\* projection_from_integrated_snapshot takes from the result.
Snapshot(r) ==
  LET days == Joined(r)
      clicks == Total(r.direct.rows, "clicks", days)
      impressions == Total(r.direct.rows, "impressions", days)
      cost == Total(r.direct.rows, "cost", days)
      goalVisits == Total(r.metrika.rows, "goalVisits", days) IN
  [comparability |-> Comparability(r), confidence |-> Confidence(r),
   financial |-> Comparability(r) = "COMPARABLE" /\ Confidence(r) = "READY",
   state |-> r.state.state, strategy |-> r.state.strategy, variant |-> r.state.variant,
   clicks |-> clicks, impressions |-> impressions, spend |-> cost,
   goalVisits |-> goalVisits, cpa |-> RatioUp(cost, goalVisits),
   ctr |-> RatioDown(100 * clicks, impressions),
   utilization |-> RatioDown(100 * cost, r.state.budget), facts |-> {}]

\* validate_projection asks for a known zone and the approved attributions.
ContextKnown(r) ==
  /\ r.direct.zone \in DOMAIN Offsets
  /\ r.direct.attribution = Trusted.direct /\ r.metrika.attribution = Trusted.metrika

------------------------------------------------------------------------------
(* Reference definitions, for the properties: what a fact says of the raw  *)
(* reports, and when reads taken at different times are one observation.   *)

FactHolds(fact, r) ==
  LET days == Days(r.from, r.to)
      clicks == Total(r.direct.rows, "clicks", days)
      impressions == Total(r.direct.rows, "impressions", days)
      cost == Total(r.direct.rows, "cost", days)
      goals == Total(r.metrika.rows, "goalVisits", days) IN
  CASE fact = "CPA_AT_OR_BELOW_TARGET" -> goals > 0 /\ cost <= Limits.target * goals
    [] fact = "CPA_ABOVE_TARGET" -> cost > Limits.target * goals
    [] fact = "BUDGET_UTILIZATION_AT_OR_ABOVE_THRESHOLD" ->
         100 * cost >= Limits.pressure * r.state.budget
    [] fact = "LOW_CTR_BELOW_THRESHOLD" ->
         100 * clicks < Limits.lowCtr * impressions /\ impressions >= Limits.lowCtrImpressions
    [] fact = "NO_CONVERSIONS" -> goals = 0
    [] fact = "NO_CONVERSION_SPEND_AT_OR_ABOVE_THRESHOLD" ->
         goals = 0 /\ cost >= Limits.stopSpend
    [] fact = "SAMPLE_BELOW_GATE0_MINIMUM" ->
         clicks < Limits.minClicks \/ goals < Limits.minConversions
    [] fact \in {"SOURCE_MISMATCH", "ANALYTICS_CONTEXT_INCOMPLETE"} ->
         Comparability(r) # "COMPARABLE"

OneObservation(r) ==
  LET instants == {b.retrieved : b \in Blocks(r)} \cup {r.generated}
      end == LocalMidnight(r.to + 1, r.direct.zone) IN
  /\ r.baseline = Trusted.baseline /\ r.state.author = Trusted.owner
  /\ r.metrika.zone = r.direct.zone
  /\ \A d \in Days(r.from, r.to) :
       \E i \in DOMAIN r.direct.rows, j \in DOMAIN r.metrika.rows :
         /\ r.direct.rows[i].day = d /\ r.metrika.rows[j].day = d
         /\ {r.direct.rows[i].campaign, r.metrika.rows[j].campaign,
             r.state.campaign} = {Trusted.campaign}
  /\ Max(instants) - r.direct.retrieved <= Timing.direct
  /\ Max(instants) - r.state.retrieved <= Timing.direct
  /\ Max(instants) - r.metrika.retrieved <= Timing.metrika
  /\ Max({b.watermark : b \in Blocks(r)}) - Min({b.watermark : b \in Blocks(r)})
       <= Timing.skew
  /\ end <= Max(instants) /\ r.metrika.watermark <= end + Timing.cutoff
================================================================================
