------------------------------ MODULE Planning ------------------------------
(***************************************************************************)
(* What the planning nodes compute: the scenario and roster of a run       *)
(* (simulation/nodes/scenario_builder.py, simulation/domain), the snapshot *)
(* as it is read (simulation/adapters/filesystem_snapshot_reader.py), its  *)
(* baseline (forecaster.py) and the first world                            *)
(* (simulation/nodes/world_initializer.py).                                *)
(*                                                                         *)
(* A month is <<year, month>>, a value that may be missing a set of at     *)
(* most one element, a warning the name of what it says.  Sentiment is in  *)
(* ten-thousandths, confidence in hundredths and changes in hundredths of  *)
(* a percent.                                                              *)
(***************************************************************************)
EXTENDS Integers, Sequences, FiniteSets, SequencesExt

Roles == {"buyer", "investor", "tenant", "landlord", "broker"}

Between(low, n, high) == IF n < low THEN low ELSE IF n > high THEN high ELSE n

Index(month) == 12 * month[1] + month[2] - 1
AddMonths(month, n) == <<(Index(month) + n) \div 12, ((Index(month) + n) % 12) + 1>>
Later(a, b) == Index(a) > Index(b)

SupportedShockKeys ==
  {"rate_up", "rate_down", "demand_surge", "demand_drop", "supply_increase",
   "regulation_tighten", "regulation_loosen", "sentiment_drop"}

\* What the schemas admit: the rows of a snapshot, plans, scenarios and rosters.
\* A selection is sanitized later, so that it may be anything of its shape.
Optional(set) == \A x, y \in set : x = y
Months == Nat \X (1..12)
GoldRows == [gu : Nat, period : Months, price : Nat, average : Nat, volume : Nat,
             mom_price : SUBSET Int, mom_volume : SUBSET Int, net_migration : SUBSET Int]
IntakePlans == [mode : {"baseline", "stress", "compare"}, horizon : 1..120,
                hint : [form : {"none", "blank", "code", "name", "text"}, gus : SUBSET Nat]]
ScenarioSelections ==
  [shocks : Seq([spelling : {"key", "alias", "other"}, key : STRING]),
   buckets : Seq([role : STRING, count : Int, holdings : Int \X Int])]
Scenarios == [gus : Seq(Nat) \ {<<>>}, start : Months, end : Months,
              shocks : Seq(SupportedShockKeys \cup {"other"})]
Rosters == Seq([role : Roles, count : 1..50, holdings : (0..20) \X (0..20)]) \ {<<>>}

\* sorted(S)
Ascending(S) ==
  CHOOSE s \in [1..Cardinality(S) -> S] : \A i, j \in DOMAIN s : i < j => s[i] < s[j]

\* [x for x in s if x in S]
Within(s, S) == FlattenSeq([i \in DOMAIN s |-> IF s[i] \in S THEN <<s[i]>> ELSE <<>>])

(***************************************************************************)
(* The snapshot: rows of Gold and the baseline reports beside it.          *)
(***************************************************************************)

Codes(rows) == {rows[i].gu : i \in DOMAIN rows}

Coverage(rows) ==
  [gus |-> Ascending(Codes(rows)),
   max_period |-> rows[CHOOSE i \in DOMAIN rows :
                         \A j \in DOMAIN rows : ~Later(rows[j].period, rows[i].period)].period]

\* Each district's own latest row, the first of them if a month repeats.
LatestMetric(rows, gu) ==
  {rows[i] : i \in {j \in DOMAIN rows : rows[j].gu = gu /\ \A k \in DOMAIN rows :
      rows[k].gu = gu => \/ Later(rows[j].period, rows[k].period)
                         \/ rows[j].period = rows[k].period /\ j <= k}}

\* forecast_baseline: the direction from the price change, the distance to the
\* average of the last three months and the volume change, each weighted, and
\* a confidence that grows with the number of months.
Known(optional) == IF optional = {} THEN 0 ELSE CHOOSE n \in optional : TRUE

Direction(months) ==
  LET latest == Last(months)
      recent == SubSeq(months, IF Len(months) > 3 THEN Len(months) - 2 ELSE 1, Len(months))
      sum == FoldLeft(LAMBDA n, row : n + row.average, 0, recent)
      score == (6 * Known(latest.mom_price) + Known(latest.mom_volume)) * sum
                 + 30000 * (Len(recent) * latest.average - sum)
  IN  IF score > 1000 * sum THEN 1 ELSE IF score < -1000 * sum THEN -1 ELSE 0

Confidence(months) ==
  IF Len(months) >= 12 THEN 80 ELSE IF Len(months) >= 6 THEN 60
  ELSE IF Len(months) >= 3 THEN 40 ELSE 20

ForecastBaseline(rows) ==
  {LET months == SortSeq(SelectSeq(rows, LAMBDA row : row.gu = gu),
                         LAMBDA a, b : Later(b.period, a.period))
   IN  [gu |-> gu, direction |-> Direction(months), confidence |-> Confidence(months)] :
     gu \in Codes(rows)}

\* generate_baseline_report: a file named after the snapshot, which replaces
\* an older one of the same snapshot.
GenerateReport(reports, snapshot, now) ==
  {r \in reports : r.snapshot # snapshot.id}
    \cup {[snapshot |-> snapshot.id, mtime |-> now,
           forecasts |-> ForecastBaseline(snapshot.rows)]}

\* The forecast for gu in the newest baseline report of the snapshot.
Forecast(reports, snapshot, gu) ==
  LET own == {r \in reports : r.snapshot = snapshot}
      newest == {r \in own : \A s \in own : s.mtime <= r.mtime}
  IN  UNION {{f \in r.forecasts : f.gu = gu} : r \in newest}

(***************************************************************************)
(* The scenario.                                                           *)
(***************************************************************************)

ResolveGusUnchecked(hint, available) ==  \* mutant: a code is taken as it is
  [gus |-> IF hint.form = "code" THEN SetToSeq(hint.gus) ELSE available, warnings |-> <<>>]

\* resolve_gu_codes: a code or name of a district, a text that mentions some.
ResolveGus(hint, available) ==
  LET mentioned == Within(available, hint.gus)
      Unusable(warning) == [gus |-> available, warnings |-> <<warning>>]
  IN  IF hint.form = "none" THEN [gus |-> available, warnings |-> <<>>]
      ELSE IF hint.form = "blank" THEN Unusable("hint empty")
      ELSE IF mentioned # <<>> THEN [gus |-> mentioned, warnings |-> <<>>]
      ELSE IF hint.form \in {"code", "name"} THEN Unusable("district unavailable")
      ELSE Unusable("hint unresolved")

\* A raw key is a supported one, a Korean alias of one, or neither.
NormalizeShockKey(raw) ==
  IF raw.spelling \in {"key", "alias"} /\ raw.key \in SupportedShockKeys
    THEN {raw.key} ELSE {}

\* Each key where it occurs first.
NormalizeSelectedShocks(raws) ==
  FlattenSeq([i \in DOMAIN raws |->
    SetToSeq(NormalizeShockKey(raws[i])
               \ UNION {NormalizeShockKey(raws[j]) : j \in 1..(i - 1)})])

SelectShocks(raws, mode) ==
  LET keys == NormalizeSelectedShocks(raws)
  IN  IF mode = "stress" /\ keys = <<>>
        THEN [keys |-> <<"sentiment_drop">>, warnings |-> <<"stress defaulted">>]
        ELSE [keys |-> keys,
              warnings |-> IF mode = "compare" THEN <<"compare is one scenario">> ELSE <<>>]

ComputeMaxRounds(horizon, shocks, mode) ==
  Between(1, (horizon + 2) \div 3 + (IF shocks >= 2 THEN 1 ELSE 0)
                                  + (IF mode \in {"stress", "compare"} THEN 1 ELSE 0), 8)

\* _sanitize_roster_buckets, by role, number of participants and holdings:
\* capital and risk are clamped and ordered likewise.
SanitizeBucket(bucket) ==
  LET low == Between(0, bucket.holdings[1], 20)
      high == Between(0, bucket.holdings[2], 20)
  IN  [role |-> bucket.role, count |-> Between(1, bucket.count, 50),
       holdings |-> IF low > high THEN <<high, low>> ELSE <<low, high>>]

SanitizeRosterBuckets(raw) ==
  LET known == Within(raw, {b \in ToSet(raw) : b.role \in Roles})
  IN  IF known = <<>> THEN <<[role |-> "buyer", count |-> 10, holdings |-> <<0, 2>>]>>
      ELSE [i \in DOMAIN known |-> SanitizeBucket(known[i])]

BuildScenario(plan, selection, coverage) ==
  LET resolved == ResolveGus(plan.hint, coverage.gus)
      shocks == SelectShocks(selection.shocks, plan.mode)
      start == AddMonths(coverage.max_period, 1)
  IN  [scenario |-> [gus |-> resolved.gus, start |-> start,
                     end |-> AddMonths(start, plan.horizon - 1), shocks |-> shocks.keys],
       roster |-> SanitizeRosterBuckets(selection.buckets),
       max_rounds |-> ComputeMaxRounds(plan.horizon, Len(shocks.keys), plan.mode),
       warnings |-> resolved.warnings \o shocks.warnings]

(***************************************************************************)
(* The first world.                                                        *)
(***************************************************************************)

Sign(optional) ==
  IF \E n \in optional : n > 0 THEN 1 ELSE IF \E n \in optional : n < 0 THEN -1 ELSE 0

TrendOf(sign) == CASE sign = 1 -> "up" [] sign = -1 -> "down" [] OTHER -> "flat"

\* A forecast outweighs the last month's price change.
DeriveTrend(metric, forecast) ==
  TrendOf(Sign(IF forecast # {} THEN {f.direction : f \in forecast} ELSE metric.mom_price))

Sentiment(metric, forecast) ==
  LET confidence == CHOOSE n \in 0..100 :
        IF forecast = {} THEN n = 0 ELSE \E f \in forecast : n = f.confidence
  IN  Between(0, 5000 + Sign({f.direction : f \in forecast}) * 15 * confidence
                      + 1000 * Sign(metric.net_migration), 10000)

BuildSegment(metric, forecast) ==
  [price |-> metric.price, volume |-> metric.volume,
   trend |-> DeriveTrend(metric, forecast), sentiment |-> Sentiment(metric, forecast),
   pressure |-> IF metric.mom_volume = {} THEN 0
                ELSE Between(-100, CHOOSE n \in metric.mom_volume : TRUE, 100)]

FallbackSegment ==
  [price |-> 500000, volume |-> 50, trend |-> "flat", sentiment |-> 5000, pressure |-> 0]

BuildWorld(snapshot, gus) ==
  [gu \in ToSet(gus) |->
     IF gu \notin Codes(snapshot.rows) THEN FallbackSegment
     ELSE BuildSegment(CHOOSE row \in LatestMetric(snapshot.rows, gu) : TRUE,
                       Forecast(snapshot.reports, snapshot.id, gu))]

MissingMetrics(snapshot, gus) ==
  LET missing == Within(gus, ToSet(gus) \ Codes(snapshot.rows))
  IN  [i \in DOMAIN missing |-> <<"no metrics", missing[i]>>]

\* Participants <<role, number>>: the numbers of a role go on from bucket to
\* bucket.
NoneBefore(roster, i) == 0  \* mutant: every bucket numbers from one
CountBefore(roster, i) ==
  LET count[n \in 0..Len(roster)] ==
        IF n = 0 THEN 0
        ELSE count[n - 1] + (IF roster[n].role = roster[i].role THEN roster[n].count ELSE 0)
  IN  count[i - 1]

BuildParticipants(roster) ==
  UNION {{<<roster[i].role, CountBefore(roster, i) + n>> : n \in 1..roster[i].count} :
         i \in DOMAIN roster}
=============================================================================
