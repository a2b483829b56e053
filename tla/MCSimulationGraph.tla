------------------------- MODULE MCSimulationGraph -------------------------
(* Graphs with and without a model and a snapshot, and what they are given. *)
EXTENDS SimulationGraph

MCBuilds == [llm : BOOLEAN, reader : BOOLEAN]

Row(gu, period, price, mom, net) ==
  [gu |-> gu, period |-> period, price |-> price, average |-> price, volume |-> 20, mom_price |-> mom,
   mom_volume |-> {}, net_migration |-> net]

\* A district that rises but has no row of the newest month, another that has
\* had three months and falls.
Rows ==
  <<Row(11110, <<2024, 11>>, 90, {1250}, {-5}), Row(11110, <<2024, 10>>, 80, {}, {}),
    Row(11680, <<2024, 11>>, 205, {-238}, {1}), Row(11680, <<2024, 12>>, 200, {-244}, {7}),
    Row(11680, <<2024, 10>>, 210, {}, {})>>
Older == [id |-> "o", rows |-> <<Row(11110, <<2024, 10>>, 80, {}, {})>>]

\* baseline was run on both snapshots, on the older one last.
Seoul ==
  LET snapshot == [id |-> "s", rows |-> Rows]
  IN  [id |-> "s", rows |-> Rows,
       reports |-> GenerateReport(GenerateReport({}, snapshot, 1), Older, 2)]
\* and one nobody ran it on
Plain == [id |-> "s", rows |-> Rows, reports |-> {}]

\* A roster without a buyer, in which only investors buy, and not always both.
NoBuyers == <<[role |-> "investor", count |-> 2, holdings |-> <<0, 0>>],
              [role |-> "landlord", count |-> 1, holdings |-> <<1, 1>>]>>

\* In a roster of up to three any of them may be able, in a larger one all are.
MCAble(some) == IF Cardinality(some) <= 3 THEN SUBSET some ELSE {some}

Nothing == [snapshot |-> {}, scenario |-> {}, roster |-> {}, max_rounds |-> {}]
MCSeeds(b) ==
  CASE b.reader /\ ~b.llm ->
         {CliSeed(Seoul, <<11110, 11680>>, 3), CliSeed(Plain, <<11740, 11110>>, 1),
          [CliSeed(Plain, <<11110>>, 2) EXCEPT !.roster = {NoBuyers}]}
    [] b.reader /\ b.llm -> {Nothing, [Nothing EXCEPT !.snapshot = {Seoul}]}
    [] OTHER -> {Nothing, [Nothing EXCEPT !.max_rounds = {2}]}

Hint(form, gus) == [form |-> form, gus |-> gus]
Plan(mode, horizon, hint) == [mode |-> mode, horizon |-> horizon, hint |-> hint]
MCPlans == {Plan("baseline", 1, Hint("none", {})),
            Plan("stress", 6, Hint("code", {11740})),
            Plan("compare", 30, Hint("text", {11110, 11680}))}

Bucket(role, count, low, high) == [role |-> role, count |-> count, holdings |-> <<low, high>>]
Raw(spelling, key) == [spelling |-> spelling, key |-> key]
MCSelections ==
  {[shocks |-> <<>>, buckets |-> <<>>],
   [shocks |-> <<Raw("alias", "rate_up"), Raw("key", "rate_up"), Raw("key", "supply_increase"),
                 Raw("other", "boom")>>,
    buckets |-> <<Bucket("buyer", 1, 0, 0), Bucket("landlord", 0, 30, 1), Bucket("speculator", 3, 0, 1),
                  Bucket("buyer", 2, 0, 1)>>]}
=============================================================================
