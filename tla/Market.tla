------------------------------- MODULE Market -------------------------------
(***************************************************************************)
(* The rounds of the simulation: participants propose actions              *)
(* (simulation/nodes/participant_decider.py, simulation/policies), the     *)
(* resolver moves the price and matches buyers with sellers                *)
(* (simulation/nodes/_resolver_math.py), the gate asks for another round   *)
(* (simulation/nodes/continue_gate.py).                                    *)
(*                                                                         *)
(* One segment: the decider points every participant at the scenario's     *)
(* first district.  Participants are numbered in the order of their ids.   *)
(* Sentiment and price moves are in thousandths.                           *)
(***************************************************************************)
EXTENDS Integers, FiniteSets

CONSTANTS
  Participants,  \* ordered as sorted() orders their ids
  Role,          \* the role of each participant
  CustomPolicy,  \* TRUE: an injected policy_registry, which may propose anything
  MaxRounds,     \* ScenarioSpec.max_rounds
  Moves,         \* the price moves considered, in thousandths
  Prices, Volumes, Sentiments, Trends, \* what the snapshot may say of the segment
  Capitals, Inventories                \* what the roster may give a participant

Roles == {"buyer", "investor", "tenant", "landlord", "broker"}
TrendNames == {"up", "down", "flat"}

ASSUME MarketAssumption ==
  /\ Participants \subseteq Nat /\ IsFiniteSet(Participants)
  /\ Role \in [Participants -> Roles]
  /\ CustomPolicy \in BOOLEAN
  /\ MaxRounds \in Nat \ {0}
  /\ Moves \subseteq -50..50 /\ 0 \in Moves
  /\ Prices \subseteq Nat \ {0} /\ Volumes \subseteq Nat
  /\ Sentiments \subseteq 0..1000 /\ Trends \subseteq TrendNames
  /\ Capitals \subseteq Nat /\ Inventories \subseteq Nat

VARIABLES
  stage,    \* the node that runs next
  round,    \* round_no
  segment,  \* the target segment of `world`
  capital, holdings, \* `participants`, as of the last resolved round
  actions,  \* market_actions, by kind
  book,     \* the locals of pure_resolve_round
  trades    \* last_outcome.market_actions_resolved

vars == <<stage, round, segment, capital, holdings, actions, book, trades>>

\* "ignored": an unsupported action, or one in a district the world lacks.
Kinds == {"buy", "sell", "hold", "ignored"}

Buyers == {p \in Participants : actions[p] = "buy"}
Sellers == {p \in Participants : actions[p] = "sell"}
Listed == {p \in Participants : actions[p] # "ignored"}

\* sorted(...)[0]
First(S) == CHOOSE p \in S : \A q \in S : p <= q

\* _clamp(value, 0.0, 1.0), in thousandths.
Clamp(value) == IF value < 0 THEN 0 ELSE IF value > 1000 THEN 1000 ELSE value

\* int(n * 0.1): a tenth, towards zero.
Tenth(n) == IF n >= 0 THEN n \div 10 ELSE -((-n) \div 10)

Nothing == [p \in Participants |-> 0]

Init ==
  /\ stage = "decide"
  /\ round = 0
  /\ segment \in [price : Prices, volume : Volumes, trend : Trends,
                  sentiment : Sentiments]
  /\ capital \in [Participants -> Capitals]
  /\ holdings \in [Participants -> Inventories]
  /\ actions = [p \in Participants |-> "hold"]
  /\ book = [capital |-> capital, holdings |-> holdings, buyers |-> {},
             sellers |-> {}, limit |-> 0, matches |-> 0,
             earned |-> Nothing, gained |-> Nothing]
  /\ trades = 0

-----------------------------------------------------------------------------
(* participant_decider and the heuristic policies.                         *)

\* BuyerPolicy and InvestorPolicy
WantsToBuy(p) ==
  \/ /\ Role[p] = "buyer"
     /\ segment.sentiment > 500
     /\ segment.trend # "down"
     /\ capital[p] > 0
  \/ /\ Role[p] = "investor"
     /\ segment.trend = "up"
     /\ segment.sentiment > 600

\* (A bug to detect: landlords sell as long as sentiment is not high.)
EagerToSell(p) ==
  \/ Role[p] = "investor" /\ segment.trend = "down" /\ holdings[p] > 0
  \/ Role[p] = "landlord" /\ segment.sentiment < 700 /\ holdings[p] > 0

\* InvestorPolicy and LandlordPolicy
WantsToSell(p) ==
  \/ Role[p] = "investor" /\ segment.trend = "down" /\ holdings[p] > 0
  \/ Role[p] = "landlord" /\ segment.sentiment < 300 /\ holdings[p] > 0

\* get_default_policy(role).decide; tenants and brokers hold.
Heuristic(p) ==
  IF WantsToBuy(p) THEN "buy" ELSE IF WantsToSell(p) THEN "sell" ELSE "hold"

Decide ==
  /\ stage = "decide"
  /\ round' = round + 1
  /\ IF CustomPolicy
       THEN actions' \in [Participants -> Kinds]
       ELSE actions' = [p \in Participants |-> Heuristic(p)]
  /\ stage' = "resolve"
  /\ UNCHANGED <<segment, capital, holdings, book, trades>>

-----------------------------------------------------------------------------
(* pure_resolve_round.                                                     *)

\* price_change_pct: at most all the listed actions are confident buys, or
\* confident sells.
PossibleMoves ==
  {m \in Moves : /\ -50 * Cardinality(Sellers) <= m * Cardinality(Listed)
                 /\ m * Cardinality(Listed) <= 50 * Cardinality(Buyers)}

\* new_median_price
MovedPrice(m) ==
  LET price == (segment.price * (1000 + m)) \div 1000
  IN  IF price < 1 THEN 1 ELSE price

\* price_trend
TrendOf(m) == IF m > 1 THEN "up" ELSE IF m < -1 THEN "down" ELSE "flat"

\* matched_transactions: what the segment can take this round.
Limit ==
  LET supply == Cardinality(Sellers) + segment.volume \div 10
  IN  IF Cardinality(Buyers) < supply THEN Cardinality(Buyers) ELSE supply

\* (A bug to detect: sentiment is not clamped.)
UnclampedSegment(m) ==
  [price     |-> MovedPrice(m),
   volume    |-> segment.volume + Tenth(Limit - segment.volume),
   trend     |-> TrendOf(m),
   sentiment |-> segment.sentiment + 2 * m]

\* The segment after net_pressure moved the price by m: sentiment moves by
\* net_pressure * 0.1, the price by net_pressure * 0.05.
MovedSegment(m) ==
  [price     |-> MovedPrice(m),
   volume    |-> segment.volume + Tenth(Limit - segment.volume),
   trend     |-> TrendOf(m),
   sentiment |-> Clamp(segment.sentiment + 2 * m)]

\* From the buckets to the head of the matching loop.  Without an action in
\* the segment it has no bucket, and stays as it is.
OpenRound ==
  /\ stage = "resolve"
  /\ IF Listed = {}
       THEN UNCHANGED segment
       ELSE \E m \in PossibleMoves : segment' = MovedSegment(m)
  /\ book' = [capital |-> capital, holdings |-> holdings,
              buyers |-> Buyers, sellers |-> Sellers,
              limit |-> Limit, matches |-> 0,
              earned |-> Nothing, gained |-> Nothing]
  /\ stage' = "match"
  /\ UNCHANGED <<round, capital, holdings, actions, trades>>

\* `for buyer_id in buyers`: the buyer whose turn it is, unless the limit is
\* reached.
Turn == stage = "match" /\ book.matches < book.limit /\ book.buyers # {}
Buyer == First(book.buyers)
Affords == book.capital[Buyer] >= segment.price

\* `while seller_index < len(sellers) and ...holdings <= 0`
Stocked == book.sellers # {} /\ book.holdings[First(book.sellers)] > 0
Unstocked == book.sellers # {} /\ book.holdings[First(book.sellers)] <= 0

\* allow_natural_supply
NaturalSupply == Sellers = {}

SkipBuyer ==
  /\ Turn
  /\ ~Affords
  /\ book' = [book EXCEPT !.buyers = @ \ {Buyer}]
  /\ UNCHANGED <<stage, round, segment, capital, holdings, actions, trades>>

SkipSeller ==
  /\ Turn /\ Affords
  /\ Unstocked
  /\ book' = [book EXCEPT !.sellers = @ \ {First(@)}]
  /\ UNCHANGED <<stage, round, segment, capital, holdings, actions, trades>>

\* f with p's entry increased by n.
Add(f, p, n) == [f EXCEPT ![p] = @ + n]

\* The book after the buyer bought one unit of nobody in particular.
Bought ==
  [book EXCEPT !.buyers   = @ \ {Buyer},
               !.capital  = Add(@, Buyer, -segment.price),
               !.holdings = Add(@, Buyer, 1),
               !.earned   = Add(@, Buyer, -segment.price),
               !.gained   = Add(@, Buyer, 1),
               !.matches  = @ + 1]

\* (Bugs to detect: a seller may sell again in the round, or is not paid in
\* the participant deltas.)
SoldKeepingTurn(b, s) ==
  [b EXCEPT !.capital = Add(@, s, segment.price), !.holdings = Add(@, s, -1),
            !.earned  = Add(@, s, segment.price), !.gained   = Add(@, s, -1)]
SoldOffTheBooks(b, s) ==
  [b EXCEPT !.sellers = @ \ {s},
            !.capital = Add(@, s, segment.price), !.holdings = Add(@, s, -1),
            !.gained  = Add(@, s, -1)]

\* Book b after s was the seller.
Sold(b, s) ==
  [b EXCEPT !.sellers = @ \ {s},
            !.capital = Add(@, s, segment.price), !.holdings = Add(@, s, -1),
            !.earned  = Add(@, s, segment.price), !.gained   = Add(@, s, -1)]

Trade ==
  /\ Turn /\ Affords
  /\ Stocked
  /\ book' = Sold(Bought, First(book.sellers))
  /\ UNCHANGED <<stage, round, segment, capital, holdings, actions, trades>>

\* (A bug to detect: units appear out of nothing once the sellers are sold out.)
BuyAnyUnit ==
  /\ Turn /\ Affords
  /\ book.sellers = {}
  /\ book' = Bought
  /\ UNCHANGED <<stage, round, segment, capital, holdings, actions, trades>>

\* A unit of the natural supply.
BuyNatural ==
  /\ Turn /\ Affords
  /\ book.sellers = {} /\ NaturalSupply
  /\ book' = Bought
  /\ UNCHANGED <<stage, round, segment, capital, holdings, actions, trades>>

\* The loop is over: no turn left, or nobody left to buy from.
LoopEnds ==
  /\ stage = "match"
  /\ Turn => Affords /\ book.sellers = {} /\ ~NaturalSupply

-----------------------------------------------------------------------------
(* The end of the round.                                                   *)

\* (A bug to detect: only the round limit stops the simulation.)
ContinuePastQuietRound(resolved) == round < MaxRounds

\* should_continue
ShouldContinue(resolved) == round < MaxRounds /\ resolved # 0

\* pure_resolve_round returns, round_resolver commits, the edge is taken.
CloseRound ==
  /\ LoopEnds
  /\ capital' = book.capital
  /\ holdings' = book.holdings
  /\ trades' = book.matches
  /\ stage' = IF ShouldContinue(book.matches) THEN "decide" ELSE "done"
  /\ UNCHANGED <<round, segment, actions, book>>

Finished == stage = "done" /\ UNCHANGED vars

Next ==
  \/ Decide \/ OpenRound
  \/ SkipBuyer \/ SkipSeller \/ Trade \/ BuyNatural
  \/ CloseRound \/ Finished

Spec == Init /\ [][Next]_vars

-----------------------------------------------------------------------------
(* Properties.                                                             *)

Amounts == [Participants -> Nat]
Changes == [Participants -> Int]

\* Nobody's capital or holdings go below zero at any step of the matching
\* loop, and sentiment stays a share: the rest is typing.
TypeOK ==
  /\ stage \in {"decide", "resolve", "match", "done"}
  /\ round \in 0..MaxRounds
  /\ segment \in [price : Nat \ {0}, volume : Nat, trend : TrendNames,
                  sentiment : 0..1000]
  /\ capital \in Amounts /\ holdings \in Amounts
  /\ actions \in [Participants -> Kinds]
  /\ book \in [capital : Amounts, holdings : Amounts,
               buyers : SUBSET Participants, sellers : SUBSET Participants,
               limit : Nat, matches : Nat, earned : Changes, gained : Changes]
  /\ trades \in Nat

\* The first n members of S.
FirstOf(S, n) == {p \in S : Cardinality({q \in S : q < p}) < n}

\* The trades a round should make: as many as the limit, the buyers who can
\* pay and the sellers who have a unit allow, for the first of each.
Able == {p \in Buyers : capital[p] >= segment.price}
Willing == {p \in Sellers : holdings[p] > 0}
Possible ==
  {n \in 0..book.limit :
    /\ n <= Cardinality(Able)
    /\ NaturalSupply \/ n <= Cardinality(Willing)}

\* The greedy loop, with its two skips and its two exits, makes exactly the
\* trades of the definition above: it neither stops early nor skips a buyer
\* who could pay for one who comes later.
LoopIsMaximal ==
  LoopEnds =>
    /\ book.matches \in Possible
    /\ book.matches + 1 \notin Possible
    /\ \A p \in Participants :
         book.gained[p] = IF p \in FirstOf(Able, book.matches) THEN 1
                          ELSE IF p \in FirstOf(Willing, book.matches) THEN -1
                          ELSE 0

\* participant_deltas, which the resolver adds up beside its copies of the
\* participants, explain the round: what they say changed, changed, and no more.
DeltasExplainRound ==
  stage = "match" =>
    \A p \in Participants :
      /\ book.capital[p] = capital[p] + book.earned[p]
      /\ book.holdings[p] = holdings[p] + book.gained[p]

\* The sum of f over the participants.
Total(f) ==
  LET sum[S \in SUBSET Participants] ==
        IF S = {} THEN 0
        ELSE LET p == CHOOSE p \in S : TRUE IN f[p] + sum[S \ {p}]
  IN  sum[Participants]

\* Money and units only change hands among participants when somebody offers
\* to sell; otherwise each match brings one unit in and takes its price out.
Conserved ==
  stage = "match" =>
    LET minted == IF NaturalSupply THEN book.matches ELSE 0
    IN  /\ Total(book.holdings) = Total(holdings) + minted
        /\ Total(book.capital) = Total(capital) - minted * segment.price

\* The heuristic policies never let a buyer and a seller meet: whatever the
\* segment looks like, a round with a buy has no sell.
NeverCrossed == Buyers = {} \/ Sellers = {}

\* So nobody ever sells: holdings only grow and capital only shrinks over
\* the whole simulation.
NobodySells ==
  [][\A p \in Participants : holdings'[p] >= holdings[p] /\ capital'[p] <= capital[p]]_vars

\* A round that turns the trend down is the last: it had sells, hence no
\* buys, hence no trades, and the gate stops.
DownturnIsLast == stage = "decide" /\ round > 0 => segment.trend # "down"
=============================================================================
