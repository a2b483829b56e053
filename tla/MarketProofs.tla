---------------------------- MODULE MarketProofs ----------------------------
(***************************************************************************)
(* Proofs about Market for any participants, prices and number of rounds.  *)
(* Typing holds under any policy.  What the heuristic policies add rests   *)
(* on NeverCrossed: a round with both a buy and a sell would need two      *)
(* readings of the same segment.                                           *)
(***************************************************************************)
EXTENDS Market, SequenceFacts

-----------------------------------------------------------------------------
(* Typing.                                                                 *)

\* sorted(...)[0] of a nonempty list is in the list.
LEMMA FirstIn ==
  ASSUME NEW S \in SUBSET Participants, S # {}
  PROVE  First(S) \in S
<1>1. S \subseteq Nat
    BY MarketAssumption
<1>2. PICK p \in S : \A q \in S : <<q, p>> \notin Below
    BY <1>1, BelowWellFounded, WFMin
<1>3. ASSUME NEW q \in S PROVE p <= q
  <2>1. <<q, p>> \in Nat \X Nat /\ <<q, p>>[1] = q /\ <<q, p>>[2] = p
      BY <1>1
  <2>2. ~(q < p)
      BY <1>2, <2>1 DEF Below
  <2> QED
      BY <1>1, <2>2
<1> QED
    BY <1>3 DEF First

\* The lists of a round are finite, with a number of members each.
LEMMA Counts ==
  /\ IsFiniteSet(Buyers) /\ Cardinality(Buyers) \in Nat
  /\ IsFiniteSet(Sellers) /\ Cardinality(Sellers) \in Nat
  /\ IsFiniteSet(Listed) /\ Cardinality(Listed) \in Nat
<1>1. ASSUME NEW S \in SUBSET Participants
      PROVE  IsFiniteSet(S) /\ Cardinality(S) \in Nat
  <2>1. IsFiniteSet(S)
      BY ZenonT(60), MarketAssumption, FS_Subset
  <2> QED
      BY <2>1, FS_CardinalityType
<1>2. /\ Buyers \in SUBSET Participants
      /\ Sellers \in SUBSET Participants
      /\ Listed \in SUBSET Participants
    BY DEF Buyers, Sellers, Listed
<1> QED
    BY <1>1, <1>2

LEMMA LimitTyped ==
  ASSUME TypeOK
  PROVE  Limit \in Nat
<1>1. segment.volume \in Nat
    BY DEF TypeOK
<1> QED
    BY <1>1, Counts DEF Limit

\* A price move leaves a price, a volume, a trend and a sentiment behind.
LEMMA SegmentTyped ==
  ASSUME TypeOK, NEW m \in Moves
  PROVE  MovedSegment(m) \in [price : Nat \ {0}, volume : Nat,
                              trend : TrendNames, sentiment : 0..1000]
<1>1. /\ segment.price \in Nat \ {0} /\ segment.volume \in Nat
      /\ segment.sentiment \in 0..1000
    BY DEF TypeOK
<1>2. m \in Int
    BY MarketAssumption
<1>3. Limit \in Nat
    BY LimitTyped
<1>4. MovedPrice(m) \in Nat \ {0}
  <2> DEFINE price == (segment.price * (1000 + m)) \div 1000
  <2>1. segment.price * (1000 + m) \in Int
      BY <1>1, <1>2
  <2>2. price \in Int
      BY <2>1
  <2> QED
      BY <2>2 DEF MovedPrice
<1>5. segment.volume + Tenth(Limit - segment.volume) \in Nat
    BY <1>1, <1>3 DEF Tenth
<1>6. TrendOf(m) \in TrendNames
    BY DEF TrendOf, TrendNames
<1>7. Clamp(segment.sentiment + 2 * m) \in 0..1000
  <2>1. ASSUME NEW value \in Int PROVE Clamp(value) \in 0..1000
      BY DEF Clamp
  <2>2. segment.sentiment \in Int
      BY SMTT(30), <1>1
  <2>3. segment.sentiment + 2 * m \in Int
      BY <1>2, <2>2
  <2> QED
      BY SMTT(30), <2>1, <2>3
<1> QED
    BY <1>4, <1>5, <1>6, <1>7 DEF MovedSegment

Books ==
  [capital : Amounts, holdings : Amounts,
   buyers : SUBSET Participants, sellers : SUBSET Participants,
   limit : Nat, matches : Nat, earned : Changes, gained : Changes]

\* A purchase the buyer can pay for leaves a book of amounts.
LEMMA BoughtTyped ==
  ASSUME TypeOK, Turn, Affords
  PROVE  /\ Buyer \in book.buyers
         /\ Bought \in Books
         /\ Bought.sellers = book.sellers
         /\ Bought.holdings = Add(book.holdings, Buyer, 1)
         /\ Bought.capital = Add(book.capital, Buyer, -segment.price)
<1>1. book \in Books
    BY DEF TypeOK, Books
<1>2. segment.price \in Nat
    BY DEF TypeOK
<1>3. Buyer \in book.buyers /\ Buyer \in Participants
    BY <1>1, FirstIn DEF Turn, Buyer, Books
<1>4. book.capital[Buyer] - segment.price \in Nat
    BY <1>1, <1>2, <1>3 DEF Affords, Books, Amounts
<1>5. Add(book.capital, Buyer, -segment.price) \in Amounts
    BY <1>1, <1>2, <1>3, <1>4 DEF Add, Amounts, Books
<1>6. Add(book.holdings, Buyer, 1) \in Amounts
    BY <1>1, <1>3 DEF Add, Amounts, Books
<1>7. /\ Add(book.earned, Buyer, -segment.price) \in Changes
      /\ Add(book.gained, Buyer, 1) \in Changes
    BY <1>1, <1>2, <1>3 DEF Add, Changes, Books
<1>8. Bought \in Books
  <2>1. ASSUME NEW B \in SUBSET Participants, NEW c \in Amounts, NEW h \in Amounts,
               NEW e \in Changes, NEW g \in Changes, NEW n \in Nat
        PROVE  [book EXCEPT !.buyers = B, !.capital = c, !.holdings = h,
                            !.earned = e, !.gained = g, !.matches = n] \in Books
      BY <1>1 DEF Books
  <2>2. book.buyers \ {Buyer} \in SUBSET Participants /\ book.matches + 1 \in Nat
      BY <1>1 DEF Books
  <2> QED
      BY <1>5, <1>6, <1>7, <2>1, <2>2 DEF Bought
<1>9. /\ Bought.sellers = book.sellers
      /\ Bought.holdings = Add(book.holdings, Buyer, 1)
      /\ Bought.capital = Add(book.capital, Buyer, -segment.price)
    BY <1>1 DEF Bought, Books
<1> QED
    BY <1>3, <1>8, <1>9

\* A sale by somebody who has a unit leaves a book of amounts.
LEMMA SoldTyped ==
  ASSUME TypeOK, NEW b \in Books, NEW s \in Participants, b.holdings[s] > 0
  PROVE  Sold(b, s) \in Books
<1>1. segment.price \in Nat
    BY DEF TypeOK
<1>2. /\ Add(b.capital, s, segment.price) \in Amounts
      /\ Add(b.holdings, s, -1) \in Amounts
      /\ Add(b.earned, s, segment.price) \in Changes
      /\ Add(b.gained, s, -1) \in Changes
    BY <1>1 DEF Add, Amounts, Changes, Books
<1> QED
    BY <1>2 DEF Sold, Books

\* The gate asks for a round only while there is one left.
RoundsLeft == stage = "decide" => round < MaxRounds

TypeInv == TypeOK /\ RoundsLeft

LEMMA TypeInit == Init => TypeInv
<1> SUFFICES ASSUME Init PROVE TypeInv
    OBVIOUS
<1>1. /\ Prices \subseteq Nat \ {0} /\ Volumes \subseteq Nat
      /\ Trends \subseteq TrendNames /\ Sentiments \subseteq 0..1000
      /\ Capitals \subseteq Nat /\ Inventories \subseteq Nat
      /\ MaxRounds \in Nat \ {0}
    BY MarketAssumption
<1>2. segment \in [price : Nat \ {0}, volume : Nat, trend : TrendNames,
                  sentiment : 0..1000]
  <2>1. /\ segment.price \in Prices /\ segment.volume \in Volumes
        /\ segment.trend \in Trends /\ segment.sentiment \in Sentiments
        /\ segment = [price |-> segment.price, volume |-> segment.volume,
                      trend |-> segment.trend, sentiment |-> segment.sentiment]
      BY DEF Init
  <2>2. /\ segment.price \in Nat \ {0} /\ segment.volume \in Nat
        /\ segment.trend \in TrendNames /\ segment.sentiment \in 0..1000
      BY <1>1, <2>1
  <2> QED
      BY <2>1, <2>2
<1>3. capital \in Amounts /\ holdings \in Amounts
  <2>1. capital \in [Participants -> Capitals] /\ holdings \in [Participants -> Inventories]
      BY DEF Init
  <2> QED
      BY ZenonT(60), <1>1, <2>1 DEF Amounts
<1>4. book \in Books
    BY <1>3 DEF Init, Books, Nothing, Changes
<1> QED
    BY <1>1, <1>2, <1>3, <1>4 DEF Init, TypeInv, RoundsLeft, TypeOK, Books, Kinds

LEMMA TypeStep == TypeInv /\ [Next]_vars => TypeInv'
<1> SUFFICES ASSUME TypeInv, [Next]_vars PROVE TypeInv'
    OBVIOUS
<1>0. TypeOK /\ RoundsLeft /\ MaxRounds \in Nat
    BY MarketAssumption DEF TypeInv
<1> USE <1>0 DEF TypeInv, TypeOK, RoundsLeft
<1>1. CASE Decide
  <2>1. round' \in 0..MaxRounds
      BY <1>1 DEF Decide
  <2>2. actions' \in [Participants -> Kinds]
      BY <1>1 DEF Decide, Kinds, Heuristic
  <2> QED
      BY <1>1, <2>1, <2>2 DEF Decide
<1>2. CASE OpenRound
  <2>1. segment' \in [price : Nat \ {0}, volume : Nat, trend : TrendNames,
                      sentiment : 0..1000]
    <3>1. CASE UNCHANGED segment
        BY <3>1
    <3>2. CASE \E m \in PossibleMoves : segment' = MovedSegment(m)
        BY <3>2, SegmentTyped DEF PossibleMoves
    <3> QED
        BY <1>2, <3>1, <3>2 DEF OpenRound
  <2>2. book' \in Books
      BY <1>2, LimitTyped DEF OpenRound, Books, Buyers, Sellers,
         Nothing, Amounts, Changes
  <2> QED
      BY <1>2, <2>1, <2>2 DEF OpenRound, Books
<1>3. CASE SkipBuyer
    BY <1>3 DEF SkipBuyer, Turn
<1>4. CASE SkipSeller
    BY <1>4 DEF SkipSeller, Turn
<1>5. CASE Trade
  <2>1. First(book.sellers) \in Participants
      BY <1>5, FirstIn DEF Trade, Stocked
  <2>2. Bought \in Books /\ Bought.holdings[First(book.sellers)] > 0
    <3> DEFINE s == First(book.sellers)
    <3>1. Bought \in Books /\ Bought.holdings = Add(book.holdings, Buyer, 1)
        BY <1>5, BoughtTyped DEF Trade
    <3>2. /\ book.holdings \in [Participants -> Nat]
          /\ book.holdings[s] > 0
        BY <1>5, <2>1 DEF Trade, Stocked, Amounts
    <3>3. Add(book.holdings, Buyer, 1)[s] > 0
        BY <2>1, <3>2 DEF Add
    <3> QED
        BY <3>1, <3>3
  <2>3. book' \in Books
      BY <1>5, <2>1, <2>2, SoldTyped DEF Trade
  <2> QED
      BY <1>5, <2>3 DEF Trade, Books, Turn
<1>6. CASE BuyNatural
  <2>1. book' \in Books
      BY <1>6, BoughtTyped DEF BuyNatural
  <2> QED
      BY <1>6, <2>1 DEF BuyNatural, Books, Turn
<1>7. CASE CloseRound
    BY <1>7 DEF CloseRound, LoopEnds, ShouldContinue
<1>8. CASE Finished \/ UNCHANGED vars
    BY <1>8 DEF Finished, vars
<1> QED
    BY <1>1, <1>2, <1>3, <1>4, <1>5, <1>6, <1>7, <1>8 DEF Next

\* Capital and holdings never go below zero, in any round of any market and
\* under any policy; price, volume and sentiment keep their ranges.
THEOREM MarketTypeCorrect == Spec => []TypeOK
<1>1. Init => TypeInv
    BY TypeInit
<1>2. TypeInv /\ [Next]_vars => TypeInv'
    BY TypeStep
<1>3. TypeInv => TypeOK
    BY DEF TypeInv
<1> QED
    BY <1>1, <1>2, <1>3, PTL DEF Spec

-----------------------------------------------------------------------------
(* The heuristic policies.                                                 *)

\* No segment makes one participant want to buy and another want to sell.
LEMMA SameSegment ==
  ASSUME NEW p \in Participants, NEW q \in Participants,
         segment.sentiment \in Int,
         Heuristic(p) = "buy", Heuristic(q) = "sell"
  PROVE  FALSE
<1>1. WantsToBuy(p) /\ WantsToSell(q)
    BY DEF Heuristic
<1>2. segment.trend # "down" /\ segment.sentiment > 500
    BY <1>1 DEF WantsToBuy
<1> QED
    BY <1>1, <1>2 DEF WantsToSell

LEMMA CrossStep ==
  ASSUME CustomPolicy = FALSE
  PROVE  TypeOK /\ NeverCrossed /\ [Next]_vars => NeverCrossed'
<1> SUFFICES ASSUME TypeOK, NeverCrossed, [Next]_vars PROVE NeverCrossed'
    OBVIOUS
<1>1. CASE Decide
  <2>1. segment.sentiment \in Int
      BY DEF TypeOK
  <2>2. actions' = [p \in Participants |-> Heuristic(p)]
      BY <1>1 DEF Decide
  <2>3. ASSUME NEW p \in Buyers', NEW q \in Sellers' PROVE FALSE
      BY <2>1, <2>2, SameSegment DEF Buyers, Sellers
  <2> QED
      BY <2>3 DEF NeverCrossed
<1>2. CASE UNCHANGED actions
    BY <1>2 DEF NeverCrossed, Buyers, Sellers
<1> QED
    BY <1>1, <1>2 DEF Next, vars, OpenRound, SkipBuyer, SkipSeller, Trade,
       BuyNatural, CloseRound, Finished

\* Under the heuristic policies no round has both a buy and a sell, whatever
\* the segment, the roster and the history.
THEOREM PoliciesNeverCross ==
  ASSUME CustomPolicy = FALSE
  PROVE  Spec => []NeverCrossed
<1>1. Init => NeverCrossed
    BY DEF Init, NeverCrossed, Buyers
<1>2. TypeOK /\ NeverCrossed /\ [Next]_vars => NeverCrossed'
    BY CrossStep
<1> QED
    BY <1>1, <1>2, MarketTypeCorrect, PTL DEF Spec

\* What the loop knows while it runs: it serves the round's own lists, has
\* only given units and taken money so far, and a match took a buyer.
Matching ==
  stage = "match" =>
    /\ book.buyers \subseteq Buyers /\ book.sellers \subseteq Sellers
    /\ \A p \in Participants : book.holdings[p] >= holdings[p]
    /\ \A p \in Participants : book.capital[p] <= capital[p]
    /\ book.matches # 0 => Buyers # {}

LEMMA MatchingStep ==
  TypeOK /\ NeverCrossed /\ Matching /\ [Next]_vars => Matching'
<1> SUFFICES ASSUME TypeOK, NeverCrossed, Matching, [Next]_vars PROVE Matching'
    OBVIOUS
<1>0. book \in Books /\ capital \in Amounts /\ holdings \in Amounts
    BY DEF TypeOK, Books
<1>1. CASE Decide
    BY <1>1 DEF Decide, Matching
<1>2. CASE OpenRound
    BY <1>0, <1>2 DEF OpenRound, Matching, Buyers, Sellers, Amounts
<1>3. CASE SkipBuyer \/ SkipSeller
  <2>1. /\ book'.buyers \subseteq book.buyers /\ book'.sellers \subseteq book.sellers
        /\ book'.holdings = book.holdings /\ book'.capital = book.capital
        /\ book'.matches = book.matches
      BY <1>0, <1>3 DEF SkipBuyer, SkipSeller, Books
  <2> QED
      BY <1>3, <2>1 DEF SkipBuyer, SkipSeller, Turn, Matching, Buyers, Sellers
<1>4. CASE Trade
  <2>1. stage = "match" /\ book.buyers # {} /\ book.sellers # {}
      BY <1>4 DEF Trade, Turn, Stocked
  <2>2. Buyers # {} /\ Sellers # {}
      BY <2>1 DEF Matching
  <2> QED
      BY <2>2 DEF NeverCrossed
<1>5. CASE BuyNatural
  <2>1. /\ Buyer \in book.buyers /\ Buyer \in Participants
        /\ book' = Bought /\ Bought.sellers = book.sellers
        /\ Bought.holdings = Add(book.holdings, Buyer, 1)
        /\ Bought.capital = Add(book.capital, Buyer, -segment.price)
      BY <1>0, <1>5, BoughtTyped DEF BuyNatural, Books
  <2>2. Bought.buyers = book.buyers \ {Buyer}
      BY <1>0 DEF Bought, Books
  <2>3. stage = "match" /\ segment.price \in Nat
      BY <1>5 DEF BuyNatural, Turn, TypeOK
  <2>4. ASSUME NEW p \in Participants
        PROVE  Add(book.holdings, Buyer, 1)[p] >= holdings[p]
      BY <1>0, <2>1, <2>3 DEF Add, Matching, Books, Amounts
  <2>5. ASSUME NEW p \in Participants
        PROVE  Add(book.capital, Buyer, -segment.price)[p] <= capital[p]
      BY <1>0, <2>1, <2>3 DEF Add, Matching, Books, Amounts
  <2>6. Buyers # {} /\ book.buyers \subseteq Buyers /\ book.sellers \subseteq Sellers
      BY <2>1, <2>3 DEF Matching
  <2>7. actions' = actions /\ holdings' = holdings /\ capital' = capital
      BY <1>5 DEF BuyNatural
  <2> QED
      BY <2>1, <2>2, <2>4, <2>5, <2>6, <2>7 DEF Matching, Buyers, Sellers
<1>6. CASE CloseRound
    BY <1>6 DEF CloseRound, Matching, ShouldContinue
<1>7. CASE Finished \/ UNCHANGED vars
    BY <1>7 DEF Finished, vars, Matching, Buyers, Sellers
<1> QED
    BY <1>1, <1>2, <1>3, <1>4, <1>5, <1>6, <1>7 DEF Next

\* Under the heuristic policies nobody ever sells: over the whole simulation
\* holdings only grow and capital only shrinks.
THEOREM NobodyEverSells ==
  ASSUME CustomPolicy = FALSE
  PROVE  Spec => NobodySells
<1> DEFINE Quiet == \A p \in Participants : holdings'[p] >= holdings[p] /\ capital'[p] <= capital[p]
<1>1. Init => Matching
    BY DEF Init, Matching
<1>2. TypeOK /\ NeverCrossed /\ Matching /\ [Next]_vars => Matching'
    BY MatchingStep
<1>3. TypeOK /\ Matching /\ [Next]_vars => [Quiet]_vars
  <2> SUFFICES ASSUME TypeOK, Matching, [Next]_vars PROVE Quiet
      OBVIOUS
  <2>1. CASE CloseRound
      BY <2>1 DEF CloseRound, LoopEnds, Matching
  <2>2. CASE UNCHANGED <<capital, holdings>>
      BY <2>2 DEF TypeOK, Amounts
  <2> QED
      BY <2>1, <2>2 DEF Next, vars, Decide, OpenRound, SkipBuyer, SkipSeller,
         Trade, BuyNatural, Finished
<1> QED
    BY <1>1, <1>2, <1>3, MarketTypeCorrect, PoliciesNeverCross, PTL DEF Spec, NobodySells

\* While a round with a falling price is matched, nobody is buying.
Downward == stage = "match" /\ segment.trend = "down" => Buyers = {}

\* Without a sell the price cannot fall.
LEMMA OnlySellsPressDown ==
  ASSUME NEW m \in PossibleMoves, Listed # {}, TrendOf(m) = "down"
  PROVE  Sellers # {}
<1>1. m \in Int /\ m < -1
    BY MarketAssumption DEF PossibleMoves, TrendOf
<1>2. Cardinality(Listed) \in Nat \ {0}
    BY Counts, FS_EmptySet
<1>3. m * Cardinality(Listed) < 0
  <2>1. ASSUME NEW c \in Nat \ {0} PROVE m * c < 0
      BY <1>1
  <2> QED
      BY <1>2, <2>1
<1>4. -50 * Cardinality(Sellers) <= m * Cardinality(Listed)
    BY DEF PossibleMoves
<1>5. Cardinality(Sellers) # 0
    BY <1>2, <1>1, <1>3, <1>4, Counts
<1> QED
    BY <1>5, FS_EmptySet

LEMMA DownwardStep ==
  NeverCrossed /\ Downward /\ [Next]_vars => Downward'
<1> SUFFICES ASSUME NeverCrossed, Downward, [Next]_vars PROVE Downward'
    OBVIOUS
<1>1. CASE OpenRound
  <2> SUFFICES ASSUME segment'.trend = "down" PROVE Buyers' = {}
      BY DEF Downward
  <2>1. CASE Listed = {}
      BY <1>1, <2>1 DEF OpenRound, Listed, Buyers
  <2>2. CASE Listed # {}
    <3>1. PICK m \in PossibleMoves : segment' = MovedSegment(m)
        BY <1>1, <2>2 DEF OpenRound
    <3>2. TrendOf(m) = "down"
        BY <3>1 DEF MovedSegment
    <3>3. Sellers # {}
        BY <2>2, <3>2, OnlySellsPressDown
    <3> QED
        BY <1>1, <3>3 DEF NeverCrossed, OpenRound, Buyers
  <2> QED
      BY <2>1, <2>2
<1>2. CASE Decide \/ CloseRound
    BY <1>2 DEF Decide, CloseRound, ShouldContinue, Downward
<1>3. CASE UNCHANGED <<stage, segment, actions>>
    BY <1>3 DEF Downward, Buyers
<1> QED
    BY <1>1, <1>2, <1>3 DEF Next, vars, SkipBuyer, SkipSeller, Trade, BuyNatural, Finished

\* Under the heuristic policies a round that turns the trend down is the
\* last: no simulation goes on from a falling market.
THEOREM DownturnEndsMarket ==
  ASSUME CustomPolicy = FALSE
  PROVE  Spec => []DownturnIsLast
<1>1. Init => Matching /\ Downward /\ DownturnIsLast
    BY DEF Init, Matching, Downward, DownturnIsLast
<1>2. TypeOK /\ NeverCrossed /\ Matching /\ [Next]_vars => Matching'
    BY MatchingStep
<1>3. NeverCrossed /\ Downward /\ [Next]_vars => Downward'
    BY DownwardStep
<1>4. Matching /\ Downward /\ DownturnIsLast /\ [Next]_vars => DownturnIsLast'
  <2> SUFFICES ASSUME Matching, Downward, DownturnIsLast, [Next]_vars
               PROVE  DownturnIsLast'
      OBVIOUS
  <2>1. CASE CloseRound
      BY <2>1 DEF CloseRound, LoopEnds, ShouldContinue, Matching, Downward, DownturnIsLast
  <2>2. CASE stage' # "decide"
      BY <2>2 DEF DownturnIsLast
  <2>3. CASE UNCHANGED vars
      BY <2>3 DEF vars, DownturnIsLast
  <2> QED
      BY <2>1, <2>2, <2>3 DEF Next, Decide, OpenRound, SkipBuyer, SkipSeller, Turn,
         Trade, BuyNatural, Finished
<1> QED
    BY <1>1, <1>2, <1>3, <1>4, MarketTypeCorrect, PoliciesNeverCross, PTL DEF Spec
=============================================================================
