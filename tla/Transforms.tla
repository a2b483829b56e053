----------------------------- MODULE Transforms -----------------------------
(***************************************************************************)
(* From the cells of an API response to Bronze, Silver and Gold rows:      *)
(* connectors/{molit,bok,kostat}.py, transforms/*.py and pipeline.py.      *)
(*                                                                         *)
(* A text is what the parsers tell apart of a string.  A decimal text      *)
(* carries thousandths, Silver and Gold decimals hundredths.  A value that *)
(* may be missing is a set of at most one element; columns that no         *)
(* computation reads (names, addresses, hashes, timestamps) are left out.  *)
(***************************************************************************)
EXTENDS Integers, Sequences, FiniteSets, SequencesExt, FiniteSetsExt

CONSTANT SeoulGuCodes  \* canonical/regions.py; every one starts with CityCode

CityCode == 11
NationalAggregateCode == 0

(***************************************************************************)
(* Texts and cells.                                                        *)
(***************************************************************************)

Text(form, n) == [form |-> form, n |-> n]
Null == Text("null", 0)

\* molit._safe_str: a float column holds NaN for what is missing and 2023.0
\* for 2023, which only the int-like columns turn back into "2023".
SafeStr(cell, intLike) ==
  CASE cell.form = "nan" -> Null
    [] cell.form = "float" ->
         IF intLike /\ cell.n % 1000 = 0 THEN Text("int", cell.n \div 1000)
         ELSE Text("decimal", cell.n)
    [] OTHER -> cell

\* _safe_str of bok and kostat, which also drop blank texts.
StrippedStr(cell) ==
  IF cell.form = "blank" THEN Null ELSE SafeStr(cell, FALSE)

ParseInt(t) == IF t.form = "int" THEN {t.n} ELSE {}
ParseCount(t) == IF t.form \in {"int", "commas"} THEN {t.n} ELSE {}
ParseDealAmount(t) == {n * 10000 : n \in ParseCount(t)}
ParseDecimal(t) ==
  CASE t.form = "int" -> {1000 * t.n} [] t.form = "decimal" -> {t.n} [] OTHER -> {}

\* quantize(0.01) of thousandths: ROUND_HALF_UP rounds ties away from zero,
\* the default context ties to even.
HalfUp(n) == IF n >= 0 THEN (n + 5) \div 10 ELSE -((5 - n) \div 10)
HalfEven(n) ==
  LET down == n \div 10
  IN  IF n % 10 < 5 \/ (n % 10 = 5 /\ down % 2 = 0) THEN down ELSE down + 1

\* int(a / b) for b > 0
Truncate(a, b) == IF a >= 0 THEN a \div b ELSE -((-a) \div b)

(***************************************************************************)
(* Dates and periods.                                                      *)
(***************************************************************************)

DaysIn(year, month) ==
  CASE month = 2 -> IF year % 4 = 0 /\ (year % 100 # 0 \/ year % 400 = 0) THEN 29 ELSE 28
    [] month \in {4, 6, 9, 11} -> 30
    [] OTHER -> 31

MaxYear == 9999  \* datetime.MAXYEAR

Dates(year, month, day) ==
  {date \in year \X month \X day :
     date[1] \in 1..MaxYear /\ date[2] \in 1..12 /\ date[3] \in 1..DaysIn(date[1], date[2])}

Period(date) == <<date[1], date[2]>>

PrevMonthSameYear(p) ==  \* mutant: January's predecessor is in its own year
  IF p[2] = 1 THEN <<p[1], 12>> ELSE <<p[1], p[2] - 1>>
PrevMonth(p) == IF p[2] = 1 THEN <<p[1] - 1, 12>> ELSE <<p[1], p[2] - 1>>
PrevYear(p) == <<p[1] - 1, p[2]>>

\* The members of a sequence of optional values, in order.
Present(seq) == FlattenSeq([i \in DOMAIN seq |-> SetToSeq(seq[i])])

(***************************************************************************)
(* Bronze: the rows of a response as the connectors map them.              *)
(***************************************************************************)

IntLike == {"build", "year", "month", "day", "floor", "sgg"}

MapDeals(rows) ==
  [i \in DOMAIN rows |->
     [f \in DOMAIN rows[i] |-> SafeStr(rows[i][f], f \in IntLike)]]

\* ECOS dates: "ymd", "ym", "quarter" and "year" are 8, 6, 6 and 4 characters.
NormalizeTime(time, frequency) ==
  CASE frequency = "D" /\ time.form = "ymd" -> [time EXCEPT !.form = "iso"]
    [] frequency = "M" /\ time.form = "ym" -> [time EXCEPT !.form = "iso", !.d = 1]
    [] frequency = "Q" /\ time.form = "quarter" ->
         [time EXCEPT !.form = "iso", !.m = 3 * (time.m - 1) + 1, !.d = 1]
    [] frequency = "A" /\ time.form = "year" ->
         [time EXCEPT !.form = "iso", !.m = 1, !.d = 1]
    [] OTHER -> time

MapRates(rows, frequency) ==
  [i \in DOMAIN rows |-> [date |-> NormalizeTime(rows[i].time, frequency),
                          rate |-> StrippedStr(rows[i].value)]]

\* Rows <<origin, destination, period, metric, cell>> that fill a slot of the
\* migration table.  T80 against the national row is ignored: it only negates.
FillsIn(row) == /\ row.c1 = NationalAggregateCode /\ row.c2 # NationalAggregateCode
                /\ row.itm = "T70"
FillsNet(row) == /\ row.c1 = NationalAggregateCode /\ row.c2 # NationalAggregateCode
                 /\ row.itm = "T80"
FillsOut(row) == /\ row.c2 = NationalAggregateCode /\ row.c1 # NationalAggregateCode
                 /\ row.itm = "T70"

Slot(rows, region, period, Fills(_)) ==
  SelectSeq(rows, LAMBDA row : /\ Fills(row) /\ row.prd = period
                               /\ region \in {row.c1, row.c2})

\* A slot raises when it is written although it already holds a value.
Overfull(slot) ==
  \E i \in DOMAIN slot : i < Len(slot) /\ StrippedStr(slot[i].dt) # Null

Filled(slot) == IF slot = <<>> THEN Null ELSE StrippedStr(Last(slot).dt)

Regions(rows) ==
  UNION {IF FillsOut(rows[i]) THEN {<<rows[i].c1, rows[i].prd>>}
         ELSE IF FillsIn(rows[i]) \/ FillsNet(rows[i]) THEN {<<rows[i].c2, rows[i].prd>>}
         ELSE {} : i \in DOMAIN rows}

PivotRaises(rows) ==
  \E key \in Regions(rows) : \/ Overfull(Slot(rows, key[1], key[2], FillsIn))
                             \/ Overfull(Slot(rows, key[1], key[2], FillsNet))
                             \/ Overfull(Slot(rows, key[1], key[2], FillsOut))

Earlier(a, b) == a[1] < b[1] \/ (a[1] = b[1] /\ (a[2][1] < b[2][1]
                   \/ (a[2][1] = b[2][1] /\ a[2][2] < b[2][2])))

\* The pivot of rows that do not raise, in the order of sorted(groups).
PivotToRegions(rows) ==
  LET keys == SetToSortSeq(Regions(rows), Earlier)
  IN  [i \in DOMAIN keys |->
         [region |-> keys[i][1], period |-> keys[i][2],
          in |-> Filled(Slot(rows, keys[i][1], keys[i][2], FillsIn)),
          out |-> Filled(Slot(rows, keys[i][1], keys[i][2], FillsOut)),
          net |-> Filled(Slot(rows, keys[i][1], keys[i][2], FillsNet))]]

(***************************************************************************)
(* Silver: one Bronze row to at most one Silver row.                       *)
(***************************************************************************)

Consistency(build, floor, area, amount) ==
  100 - 25 * Cardinality({i \in 1..4 :
     CASE i = 1 -> floor \notin 1..200
       [] i = 2 -> area < 100 \/ area > 100000
       [] i = 3 -> build \notin 1900..2030
       [] i = 4 -> amount <= 0})

\* All six completeness fields of a row that is kept are present.
Quality(build, floor, area, amount) == (100 + Consistency(build, floor, area, amount)) \div 2

NormalizeDeal(b) ==
  LET gu == {g \in ParseInt(b.sgg) : g \in SeoulGuCodes}
      date == Dates(ParseInt(b.year), ParseInt(b.month), ParseInt(b.day))
  IN  {[gu |-> g, date |-> d, amount |-> a, area |-> HalfUp(m), floor |-> f,
        build |-> y, cancelled |-> b.cancel.form \notin {"null", "blank"},
        quality |-> Quality(y, f, HalfUp(m), a)] :
         g \in gu, d \in date, a \in ParseDealAmount(b.amount),
         m \in ParseDecimal(b.area), f \in ParseInt(b.floor), y \in ParseInt(b.build)}

\* date.fromisoformat also accepts the eight digits of an ECOS day.
NormalizeRate(b) ==
  LET date == IF b.date.form \in {"iso", "ymd"}
                THEN Dates({b.date.y}, {b.date.m}, {b.date.d}) ELSE {}
  IN  {[date |-> d, rate |-> HalfEven(n)] : d \in date, n \in ParseDecimal(b.rate)}

NormalizeMigration(b) ==
  IF b.period[2] \notin 1..12 THEN {}
  ELSE {[period |-> b.period, region |-> b.region, in |-> i, out |-> o, net |-> n] :
          i \in ParseCount(b.in), o \in ParseCount(b.out), n \in ParseCount(b.net)}

NormalizeBatch(batch, Normalize(_)) ==
  Present([i \in DOMAIN batch |-> Normalize(batch[i])])

(***************************************************************************)
(* Gold: one row per district and month with a sale.                       *)
(***************************************************************************)

CountsAll(deal) == TRUE  \* mutant: cancelled deals are counted
Counts(deal) == ~deal.cancelled
InRow(deal, key) == Counts(deal) /\ deal.gu = key[1] /\ Period(deal.date) = key[2]
Group(deals, key) ==
  Present([i \in DOMAIN deals |-> {deal \in {deals[i]} : InRow(deal, key)}])
GroupTransactions(deals) ==
  LET keys == {<<deal.gu, Period(deal.date)>> : deal \in {d \in ToSet(deals) : Counts(d)}}
  IN  [key \in keys |-> Group(deals, key)]

Total(seq) ==
  LET sum[n \in 0..Len(seq)] == IF n = 0 THEN 0 ELSE sum[n - 1] + seq[n]
  IN  sum[Len(seq)]
Amounts(group) == [i \in DOMAIN group |-> group[i].amount]
Areas(group) == [i \in DOMAIN group |-> group[i].area]

\* The k-th smallest, and int(statistics.median(...)).
Ranked(seq, k) ==
  CHOOSE x \in ToSet(seq) : /\ Cardinality({i \in DOMAIN seq : seq[i] < x}) < k
                            /\ Cardinality({i \in DOMAIN seq : seq[i] <= x}) >= k
Median(seq) ==
  LET n == Len(seq)
  IN  IF n % 2 = 1 THEN Ranked(seq, (n + 1) \div 2)
      ELSE Truncate(Ranked(seq, n \div 2) + Ranked(seq, n \div 2 + 1), 2)

\* The latest rate of the month, the first of them if several share its date.
FindInterestRate(rates, period) ==
  LET month == SelectSeq(rates, LAMBDA r : Period(r.date) = period)
      latest == SelectSeq(month, LAMBDA r :
                  \A i \in DOMAIN month : month[i].date[3] <= r.date[3])
  IN  IF month = <<>> THEN {} ELSE {Head(latest).rate}

FindNetMigration(migrations, period) ==
  LET city == SelectSeq(migrations, LAMBDA m : m.period = period /\ m.region = CityCode)
  IN  IF city = <<>> THEN {} ELSE {Head(city).net}

\* Amounts are multiples of 10,000 won, 3.3058 square metres are one pyeong.
PricePerPyeong(amounts, areas) ==
  IF Total(areas) = 0 THEN 0
  ELSE Truncate((Total(amounts) \div 100) * 33058, Total(areas))

Aggregate(deals, rates, migrations) ==
  LET groups == GroupTransactions(deals)
  IN  [key \in DOMAIN groups |->
        LET amounts == Amounts(groups[key])
            areas == Areas(groups[key])
        IN  [sale_count |-> Len(amounts),
             avg_price |-> Total(amounts) \div Len(amounts),
             median_price |-> Median(amounts),
             min_price |-> Min(ToSet(amounts)), max_price |-> Max(ToSet(amounts)),
             price_per_pyeong |-> PricePerPyeong(amounts, areas),
             avg_area |-> Total(areas) \div Len(areas),
             rate |-> FindInterestRate(rates, key[2]),
             net_migration |-> FindNetMigration(migrations, key[2])]]

\* (current - prior) / prior * 100.0, kept as the two numbers it is made of.
PctChange(current, prior) == IF prior = 0 THEN {} ELSE {<<current - prior, prior>>}

Changes(gold, key, anchor, field) ==
  IF anchor \in DOMAIN gold THEN PctChange(gold[key][field], gold[anchor][field]) ELSE {}

EnrichTrends(gold) ==
  [key \in DOMAIN gold |->
    LET month == <<key[1], PrevMonth(key[2])>>
        year == <<key[1], PrevYear(key[2])>>
    IN  [metrics |-> gold[key],
         mom_price |-> Changes(gold, key, month, "avg_price"),
         yoy_price |-> Changes(gold, key, year, "avg_price"),
         mom_volume |-> Changes(gold, key, month, "sale_count"),
         yoy_volume |-> Changes(gold, key, year, "sale_count")]]
=============================================================================
