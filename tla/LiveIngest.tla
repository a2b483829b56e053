----------------------------- MODULE LiveIngest -----------------------------
(***************************************************************************)
(* The ingest command (cli.py) with its live source (pipeline_live.py):    *)
(* one fetch after the other by the three connectors (connectors/*.py),    *)
(* each a loop of attempts with back-off (core connectors/retry.py) whose  *)
(* calls pass one rate limiter (core connectors/rate_limit.py), and the    *)
(* pipeline over what they returned or over the bundled fixture.           *)
(*                                                                         *)
(* Time is in ticks of half a second and only enters as time passed since  *)
(* an event, counted up to the limiter's interval.                         *)
(***************************************************************************)
EXTENDS Transforms

CONSTANTS
  Requests,      \* [source, gu, gus, month, months] as the options give them
  Responses(_),  \* the responses, sequences of rows, a fetch may get
  MinInterval,   \* rate_limit_interval, in ticks
  MaxAttempts,   \* retry(max_attempts)
  BaseDelay, MaxDelay, \* retry(base_delay, max_delay), in ticks
  MaxCall        \* bound: ticks a call may take

ASSUME LiveIngestAssumption ==
  /\ MinInterval \in Nat /\ MaxAttempts \in Nat \ {0}
  /\ BaseDelay \in Nat /\ MaxDelay \in Nat /\ MaxCall \in Nat
  /\ Requests \subseteq
       [source : {"live", "fixture"}, gu : SUBSET Nat, gus : SUBSET Seq(Nat),
        month : SUBSET (Nat \X Nat), months : SUBSET Seq(Nat \X Nat)]

VARIABLES
  request,   \* the options
  plan,      \* the fetches still to make, the first one under way
  stage,     \* "start", "limit", "call", "backoff", "normalize", "aggregate", "enrich", "done" or "raised"
  attempt,   \* of the fetch under way
  sinceLast, \* ticks since the limiter's _last_call
  tables,    \* the Bronze rows fetched so far, then the Silver ones
  gold,      \* the result
  sinceCall, \* history: ticks since the last call of any service
  answers,   \* history: [fetch, rows] of every fetch that was answered
  failures   \* history: [fetch, error] of every fetch given up

vars == <<request, plan, stage, attempt, sinceLast, tables, gold, sinceCall,
          answers, failures>>

The(optional) == CHOOSE x \in optional : TRUE

\* ingest_command refuses options that exclude each other or are missing.
Refused(r) ==
  \/ r.gu # {} /\ r.gus # {}
  \/ r.month # {} /\ r.months # {}
  \/ r.source = "live" /\ r.gu = {} /\ r.gus = {}
  \/ r.source = "live" /\ r.month = {} /\ r.months = {}

\* The list option, the single option, or the default of the fixture.
Listed(list, single, default) ==
  IF list # {} THEN The(list) ELSE IF single # {} THEN <<The(single)>> ELSE <<default>>
Gus(r) == Listed(r.gus, r.gu, 11680)
Months(r) == Listed(r.months, r.month, <<2025, 7>>)

\* The rows of the fixture; its amounts are counted in thousands.
FixtureDeal(gu, month, day, amount, build, floor) ==
  [sgg |-> Text("int", gu), year |-> Text("int", month[1]), month |-> Text("int", month[2]),
   day |-> Text("int", day), amount |-> Text("commas", amount),
   area |-> Text("decimal", 84990), floor |-> Text("int", floor),
   build |-> Text("int", build), cancel |-> Null]
FixtureRate(month) ==
  [date |-> [form |-> "iso", y |-> month[1], m |-> month[2], d |-> 1],
   rate |-> Text("decimal", 3500)]
FixtureMigration(month) ==
  [region |-> CityCode, period |-> month, in |-> Text("int", 150000),
   out |-> Text("int", 140000), net |-> Text("int", 10000)]

Template(gu, month) == FixtureDeal(gu, month, 15, 82, 2016, 12)
FixtureBronzeInput ==
  LET month == <<2025, 7>>
      deal == Template(11680, month)
  IN  [deals |-> <<deal, deal, FixtureDeal(11680, month, 20, 84, 2018, 9)>>,
       rates |-> <<FixtureRate(month)>>, migrations |-> <<FixtureMigration(month)>>]

\* A deal per month and district, repeated ones too: nothing checks the lists.
FixtureFanout(gus, months) ==
  [deals |-> FlattenSeq([m \in DOMAIN months |->
               [g \in DOMAIN gus |-> Template(gus[g], months[m])]]),
   rates |-> [m \in DOMAIN months |-> FixtureRate(months[m])],
   migrations |-> [m \in DOMAIN months |-> FixtureMigration(months[m])]]

Fixture(r) ==
  IF r.gu = {} /\ r.gus = {} /\ r.month = {} /\ r.months = {} THEN FixtureBronzeInput
  ELSE FixtureFanout(Gus(r), Months(r))

\* client_factory: every provider has its key in one of two environment
\* variables, or no client is built.
RequiredProviders == {"datago", "bok", "kosis"}
MissingProviders(environment) ==
  {p \in RequiredProviders : <<"KPUBDATA", p>> \notin environment
                             /\ <<"plain", p>> \notin environment}

\* Five and six digits; whether the month is one is not asked.
ValidCode(code) == code \in 10000..99999
ValidMonth(month) == month[1] \in 1000..9999 /\ month[2] \in 0..99

Valid(gus, months) ==
  /\ gus # <<>> /\ IsInjective(gus) /\ \A gu \in ToSet(gus) : ValidCode(gu)
  /\ months # <<>> /\ IsInjective(months)
  /\ \A month \in ToSet(months) : ValidMonth(month)

Fetch(source, gu, month) == [source |-> source, gu |-> gu, month |-> month]

\* Every district and month of MOLIT, the window of BOK, which goes by its first
\* month here, every month of KOSTAT.
First(months) ==
  CHOOSE m \in ToSet(months) : \A n \in ToSet(months) : 12 * m[1] + m[2] <= 12 * n[1] + n[2]
Plan(gus, months) ==
  FlattenSeq([g \in DOMAIN gus |->
                [m \in DOMAIN months |-> Fetch("molit", gus[g], months[m])]])
  \o <<Fetch("bok", 0, First(months))>>
  \o [m \in DOMAIN months |-> Fetch("kostat", 0, months[m])]

\* A service answers with rows, one after the other.  MOLIT's are one frame:
\* every row has the columns of COLUMN_MAP, or none has them all.
Cells ==
  [form : {"int", "commas", "decimal", "float", "nan", "null", "blank", "word"}, n : Int]
DealRows ==
  [sgg : Cells, year : Cells, month : Cells, day : Cells, amount : Cells, area : Cells,
   floor : Cells, build : Cells, cancel : Cells]
ASSUME ResponsesAssumption ==
  \A r \in Requests : r.source = "live" /\ ~Refused(r) /\ Valid(Gus(r), Months(r)) =>
    \A fetch \in ToSet(Plan(Gus(r), Months(r))) : \A rows \in Responses(fetch) :
      /\ Len(rows) \in Nat /\ DOMAIN rows = 1..Len(rows)
      /\ fetch.source = "molit" => rows \in Seq(DealRows) \cup Seq([drift : {TRUE}])

Capped(n) == IF n > MinInterval THEN MinInterval ELSE n

Init ==
  /\ request \in Requests
  /\ plan = <<>>
  /\ stage = "start" /\ attempt = 1
  /\ sinceLast \in {0, MinInterval}  \* time.monotonic() against 0.0
  /\ sinceCall = MinInterval
  /\ tables = [deals |-> <<>>, rates |-> <<>>, migrations |-> <<>>]
  /\ gold = <<>>
  /\ answers = {} /\ failures = {}

Fetching == Head(plan)

\* The command ends with an error before it reads anything.
StartRefused(environment) ==
  /\ stage = "start"
  /\ \/ Refused(request)
     \/ request.source = "live" /\ MissingProviders(environment) # {}
     \/ request.source = "live" /\ ~Valid(Gus(request), Months(request))
     \/ Gus(request) = <<>> \/ Months(request) = <<>>
  /\ stage' = "raised"
  /\ UNCHANGED <<request, plan, attempt, sinceLast, tables, gold, sinceCall, answers, failures>>

\* build_client, the checks of the arguments, the connectors and the limiter.
StartLive(environment) ==
  /\ stage = "start" /\ request.source = "live"
  /\ ~Refused(request) /\ MissingProviders(environment) = {}
  /\ Valid(Gus(request), Months(request))
  /\ plan' = Plan(Gus(request), Months(request))
  /\ stage' = "limit"
  /\ UNCHANGED <<request, attempt, sinceLast, tables, gold, sinceCall, answers, failures>>

\* The fixture counts as one answer.
StartFixture ==
  /\ stage = "start" /\ request.source = "fixture"
  /\ ~Refused(request) /\ Gus(request) # <<>> /\ Months(request) # <<>>
  /\ tables' = Fixture(request)
  /\ answers' = {[fetch |-> Fetch("fixture", 0, <<0, 0>>), rows |-> tables'.deals]}
  /\ stage' = "normalize"
  /\ UNCHANGED <<request, plan, attempt, sinceLast, gold, sinceCall, failures>>

Pass(ticks) ==
  /\ sinceLast' = Capped(sinceLast + ticks)
  /\ sinceCall' = Capped(sinceCall + ticks)

\* Mutant: the time is noted before the sleep.
WaitNotesEarly ==
  /\ stage = "limit"
  /\ stage' = "call"
  /\ sinceCall' = Capped(sinceCall + (MinInterval - sinceLast))
  /\ sinceLast' = MinInterval - sinceLast
  /\ UNCHANGED <<request, plan, attempt, tables, gold, answers, failures>>

\* RateLimiter.wait: sleeps the rest of the interval and notes the time.
Wait ==
  /\ stage = "limit"
  /\ stage' = "call"
  /\ sinceCall' = Capped(sinceCall + (MinInterval - sinceLast))
  /\ sinceLast' = 0
  /\ UNCHANGED <<request, plan, attempt, tables, gold, answers, failures>>

\* The fetch under way is over, with or without rows.
NextFetch ==
  /\ plan' = Tail(plan)
  /\ attempt' = 1
  /\ stage' = IF Tail(plan) = <<>> THEN "normalize" ELSE "limit"

\* COLUMN_MAP and REQUIRED_COLUMNS: a row without its columns is drift.
Drift(rows) == rows # <<>> /\ \E i \in DOMAIN rows : DOMAIN rows[i] = {"drift"}

Raises(fetch, rows) ==
  Drift(rows) \/ (fetch.source = "kostat" /\ PivotRaises(rows))

FetchDeals(rows) == [tables EXCEPT !.deals = @ \o MapDeals(rows)]
FetchRates(rows) == [tables EXCEPT !.rates = @ \o MapRates(rows, "M")]
FetchMigrations(rows) == [tables EXCEPT !.migrations = @ \o PivotToRegions(rows)]

Received(fetch, rows) ==
  CASE fetch.source = "molit" -> FetchDeals(rows)
    [] fetch.source = "bok" -> FetchRates(rows)
    [] fetch.source = "kostat" -> FetchMigrations(rows)

\* client.list starts, takes some ticks and returns rows, which may be none.
Answer(rows, ticks) ==
  /\ stage = "call"
  /\ ~Raises(Fetching, rows)
  /\ tables' = Received(Fetching, rows)
  /\ answers' = answers \cup {[fetch |-> Fetching, rows |-> rows]}
  /\ NextFetch
  /\ sinceLast' = Capped(sinceLast + ticks)
  /\ sinceCall' = Capped(ticks)
  /\ UNCHANGED <<request, gold, failures>>

\* Rows that the connector refuses after the retries: nobody catches it.
AnswerRefused(rows) ==
  /\ stage = "call"
  /\ Raises(Fetching, rows)
  /\ stage' = "raised"
  /\ UNCHANGED <<request, plan, attempt, sinceLast, sinceCall, tables, gold, answers, failures>>

\* retry gives up, fetch returns no rows and a manifest that nobody reads.
GiveUp(error) ==
  /\ failures' = failures \cup {[fetch |-> Fetching, error |-> error]}
  /\ NextFetch
  /\ UNCHANGED <<request, tables, gold, answers>>

\* NonRetryableError, a ConnectorError that says so, any unexpected exception.
CallFailsForGood(ticks) ==
  /\ stage = "call"
  /\ GiveUp("fatal")
  /\ sinceLast' = Capped(sinceLast + ticks)
  /\ sinceCall' = Capped(ticks)

\* Mutant: the last attempt is retried too.
CallFailsOffByOne(ticks) ==
  /\ stage = "call"
  /\ IF attempt <= MaxAttempts
       THEN /\ stage' = "backoff"
            /\ UNCHANGED <<request, plan, attempt, tables, gold, answers, failures>>
       ELSE GiveUp("transient")
  /\ sinceLast' = Capped(sinceLast + ticks)
  /\ sinceCall' = Capped(ticks)

\* OSError, TimeoutError or a retryable ConnectorError.
CallFails(ticks) ==
  /\ stage = "call"
  /\ IF attempt < MaxAttempts
       THEN /\ stage' = "backoff"
            /\ UNCHANGED <<request, plan, attempt, tables, gold, answers, failures>>
       ELSE GiveUp("transient")
  /\ sinceLast' = Capped(sinceLast + ticks)
  /\ sinceCall' = Capped(ticks)

Shorter(a, b) == IF a < b THEN a ELSE b
Doubled[times \in 0..MaxAttempts] ==
  IF times = 0 THEN BaseDelay ELSE 2 * Doubled[times - 1]
Delay == Shorter(Doubled[attempt - 1], MaxDelay)

\* Mutant: the attempt is not counted.
BackOffUncounted(jitter) ==
  /\ stage = "backoff"
  /\ jitter <= Delay \div 2
  /\ stage' = "limit"
  /\ Pass(Delay + jitter)
  /\ UNCHANGED <<request, plan, attempt, tables, gold, answers, failures>>

\* time.sleep(delay) with up to half of it as jitter, then the next attempt.
BackOff(jitter) ==
  /\ stage = "backoff"
  /\ jitter <= Delay \div 2
  /\ stage' = "limit"
  /\ attempt' = attempt + 1
  /\ Pass(Delay + jitter)
  /\ UNCHANGED <<request, plan, tables, gold, answers, failures>>

\* run_pipeline over whatever was fetched, in its three steps.
Normalize ==
  /\ stage = "normalize"
  /\ tables' = [deals |-> NormalizeBatch(tables.deals, NormalizeDeal),
                rates |-> NormalizeBatch(tables.rates, NormalizeRate),
                migrations |-> NormalizeBatch(tables.migrations, NormalizeMigration)]
  /\ stage' = "aggregate"
  /\ UNCHANGED <<request, plan, attempt, sinceLast, gold, sinceCall, answers, failures>>

AggregateMonths ==
  /\ stage = "aggregate"
  /\ gold' = Aggregate(tables.deals, tables.rates, tables.migrations)
  /\ stage' = "enrich"
  /\ UNCHANGED <<request, plan, attempt, sinceLast, tables, sinceCall, answers, failures>>

Enrich ==
  /\ stage = "enrich"
  /\ gold' = EnrichTrends(gold)
  /\ stage' = "done"
  /\ UNCHANGED <<request, plan, attempt, sinceLast, tables, sinceCall, answers, failures>>

Call(ticks) ==
  \/ \E rows \in Responses(Fetching) : Answer(rows, ticks)
  \/ CallFailsForGood(ticks)
  \/ CallFails(ticks)

Next ==
  \/ \E environment \in {{}, {"KPUBDATA", "plain"} \X RequiredProviders,
                          {<<"plain", p>> : p \in RequiredProviders}} :
       StartRefused(environment) \/ StartLive(environment)
  \/ StartFixture
  \/ Wait
  \/ \E ticks \in 0..MaxCall : stage = "call" /\ Call(ticks)
  \/ stage = "call" /\ \E rows \in Responses(Fetching) : AnswerRefused(rows)
  \/ \E jitter \in 0..(Delay \div 2) : BackOff(jitter)
  \/ Normalize
  \/ AggregateMonths
  \/ Enrich

Spec == Init /\ [][Next]_vars /\ WF_vars(Next)

(***************************************************************************)
(* Properties.                                                             *)
(***************************************************************************)

\* Every variable stays in its domain, a fetch is under way while one is
\* needed, and no fetch is both answered and given up.
TypeOK ==
  /\ request \in Requests
  /\ stage \in {"start", "limit", "call", "backoff", "normalize", "aggregate", "enrich", "done", "raised"}
  /\ attempt \in 1..MaxAttempts
  /\ sinceLast \in 0..MinInterval /\ sinceCall \in 0..MinInterval
  /\ stage \in {"limit", "call", "backoff"} => plan # <<>>
  /\ stage = "backoff" => attempt < MaxAttempts
  /\ {a.fetch : a \in answers} \cap {f.fetch : f \in failures} = {}
  /\ stage = "done" =>
       Cardinality(answers) + Cardinality(failures) =
         IF request.source = "fixture" THEN 1 ELSE Len(Plan(Gus(request), Months(request)))

\* Between two calls of any services, first attempts and retries alike, at
\* least rate_limit_interval passes (pipeline_live.py, rate_limit.py).
CallsSpaced == stage = "call" => sinceCall = MinInterval

\* A deal that ends up in Gold, by the cells the service sent.
Whole(cell) == cell.form = "int" \/ (cell.form = "float" /\ cell.n % 1000 = 0)
IntOf(cell) == IF cell.form = "float" THEN cell.n \div 1000 ELSE cell.n
IsSale(row) ==
  /\ row.amount.form \in {"int", "commas"}
  /\ row.area.form \in {"int", "decimal", "float"}
  /\ \A f \in {"year", "month", "day", "floor", "build", "sgg"} : Whole(row[f])
  /\ IntOf(row.sgg) \in SeoulGuCodes
  /\ row.cancel.form \in {"nan", "null", "blank"}
  /\ IntOf(row.year) \in 1..MaxYear /\ IntOf(row.month) \in 1..12
  /\ IntOf(row.day) \in 1..DaysIn(IntOf(row.year), IntOf(row.month))

SaleOf(row, gu, month) ==
  IsSale(row) /\ IntOf(row.sgg) = gu /\ <<IntOf(row.year), IntOf(row.month)>> = month
SalesOf(gu, month) ==
  UNION {{<<a.fetch, i>> : i \in {j \in DOMAIN a.rows : SaleOf(a.rows[j], gu, month)}} :
         a \in {b \in answers : b.fetch.source \in {"molit", "fixture"}}}

\* Every sale of every answered fetch is counted, once, in the row of its
\* district and month, a row counts nothing else, and its prices are in order.
GoldSummarisesSales ==
  stage = "done" =>
    /\ \A gu \in SeoulGuCodes, month \in ToSet(Months(request)) :
         SalesOf(gu, month) # {} => <<gu, month>> \in DOMAIN gold
    /\ \A key \in DOMAIN gold :
         LET row == gold[key].metrics
         IN  /\ row.sale_count > 0
             /\ row.sale_count = Cardinality(SalesOf(key[1], key[2]))
             /\ row.avg_price \in row.min_price..row.max_price
             /\ row.median_price \in row.min_price..row.max_price

\* A change is against the row of the same district one or twelve months
\* before, if its price is not 0, never across a month that is missing because
\* a fetch failed.
MonthIndex(key) == 12 * key[2][1] + key[2][2]
ComparedWith(key, months, field) ==
  {gold[k].metrics[field] : k \in {l \in DOMAIN gold :
     l[1] = key[1] /\ MonthIndex(l) + months = MonthIndex(key)}} \ {0}
Trend(key, months, field) ==
  {<<gold[key].metrics[field] - prior, prior>> : prior \in ComparedWith(key, months, field)}
TrendsAreAdjacent ==
  stage = "done" => \A key \in DOMAIN gold :
    /\ gold[key].mom_price = Trend(key, 1, "avg_price")
    /\ gold[key].yoy_price = Trend(key, 12, "avg_price")
    /\ gold[key].mom_volume = Trend(key, 1, "sale_count")
    /\ gold[key].yoy_volume = Trend(key, 12, "sale_count")

\* Every ingest ends: the attempts of a fetch are bounded, a fetch that is
\* given up does not stop the others, and a sleep ends.
IngestEnds == <>(stage \in {"done", "raised"})

\* The steps an ingest can still take: a wait, a call and a back-off for each
\* attempt of each fetch left, and those of the pipeline.
AttemptsLeft == MaxAttempts * (Len(plan) - 1) + (MaxAttempts - attempt)
StepsLeft ==
  CASE stage = "start" ->
         IF request.source = "live" /\ Valid(Gus(request), Months(request))
           THEN 3 * (MaxAttempts * Len(Plan(Gus(request), Months(request)))) + 4 ELSE 4
    [] stage = "limit" -> 3 * AttemptsLeft + 6
    [] stage = "call" -> 3 * AttemptsLeft + 5
    [] stage = "backoff" -> 3 * AttemptsLeft + 4
    [] stage = "normalize" -> 3
    [] stage = "aggregate" -> 2
    [] stage = "enrich" -> 1
    [] stage \in {"done", "raised"} -> 0

\* Every step uses up one of them at least, so that no ingest makes more calls
\* than MaxAttempts per planned fetch, whatever fails when (retry.py,
\* pipeline_live.py).
StepsRunOut == [][StepsLeft' < StepsLeft /\ {StepsLeft, StepsLeft'} \subseteq Nat]_vars

\* Connector.fetch "Raises: ConnectorError: On unrecoverable fetch or mapping
\* failures" (connectors/protocol.py): no ingest ends well after one.
UnrecoverableRaises == stage = "done" => \A f \in failures : f.error # "fatal"
=============================================================================
