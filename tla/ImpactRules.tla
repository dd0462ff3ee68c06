------------------------------ MODULE ImpactRules ------------------------------
(***************************************************************************)
(* The evaluation of an applied change (impact.py): whether a baseline and *)
(* a post-change observation may be compared yet, and what is recommended  *)
(* about them.  Days are numbered from 0 and Gate.day is the length of one *)
(* in units of the clock, so that a change may fall inside a day.          *)
(*                                                                         *)
(* An observation is [from, to, read, clicks, cost, visits, conversions,   *)
(* usable]: the days it covers, its watermark, its totals, and whether its *)
(* sources were comparable and complete.  A request is [run, baseline,     *)
(* post, changed, evaluated, sameCampaign, evidence, confounded, fixture]; *)
(* fixture is the decision a named fixture must lead to, or "none".        *)
(***************************************************************************)
EXTENDS AutomationRules

Opens(o) == o.from * Gate.day
Closes(o) == (o.to + 1) * Gate.day

\* ImpactObservation.from_mapping.
ValidObservation(o) == o.from <= o.to /\ o.conversions <= o.visits

\* evaluate: the change lies between the two periods.
Linked(r) ==
  /\ r.sameCampaign
  /\ Closes(r.baseline) <= r.changed
  /\ Opens(r.post) >= r.changed /\ Opens(r.post) >= Closes(r.baseline)

\* Late conversions are waited for from the start of the last day.
MatureEarly(r) ==
  /\ r.evaluated - r.changed >= Gate.observation
  /\ r.evaluated >= r.post.to * Gate.day + Gate.late
  /\ r.post.read <= r.evaluated
\* The observation window has passed, conversions of the last day may no longer
\* be late, and the watermarks of the post-change observation have been reached.
\* No check says how old they may be, and none looks at those of the baseline.
Mature(r) ==
  /\ r.evaluated - r.changed >= Gate.observation
  /\ r.evaluated >= Closes(r.post) + Gate.late
  /\ r.post.read <= r.evaluated

\* _confidence.
Confident(r) ==
  /\ r.evidence /\ ~r.confounded
  /\ \A o \in {r.baseline, r.post} :
       o.usable /\ o.clicks >= Gate.minClicks /\ o.conversions >= Gate.minConversions

\* cpa_rub of both, compared with each other and of post with the target.
Cheaper(o, p) == o.cost * p.conversions < p.cost * o.conversions
WithinTarget(o) == o.cost <= Gate.target * o.conversions

NextDecision(r) ==
  IF \/ ~Confident(r)
     \/ r.baseline.conversions = 0 \/ r.post.conversions = 0
  THEN "ESCALATE_TO_HUMAN"
  ELSE IF Cheaper(r.post, r.baseline) /\ WithinTarget(r.post) THEN "KEEP_CHANGE"
  ELSE IF Cheaper(r.baseline, r.post) /\ ~WithinTarget(r.post) THEN "ROLLBACK_CHANGE"
  ELSE "ADJUST_CHANGE"

\* A named fixture that leads elsewhere is refused.
Evaluates(r) ==
  /\ ValidObservation(r.baseline) /\ ValidObservation(r.post)
  /\ Linked(r) /\ Mature(r)
  /\ r.fixture \in {"none", NextDecision(r)}

\* The report: what impact_report.json says, which is not when it was evaluated.
ImpactReport(r) ==
  [baseline |-> r.baseline, post |-> r.post, confident |-> Confident(r),
   decision |-> NextDecision(r)]
===============================================================================
