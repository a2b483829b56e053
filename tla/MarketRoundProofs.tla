-------------------------- MODULE MarketRoundProofs --------------------------
(***************************************************************************)
(* What a round of Market comes to, under any policy: the participant      *)
(* deltas explain it, money and units are conserved, and the matching loop *)
(* makes exactly the trades it should.  The loop invariant (Loop) says of  *)
(* the two lists that the participants taken off them so far come before   *)
(* all others, and that of these, those who could trade have.              *)
(***************************************************************************)
EXTENDS MarketProofs

\* Who has bought and who has sold so far.
Served == Able \ book.buyers
Spent == Willing \ book.sellers

\* The lists lose their members in order.
Ordered(all, left) ==
  left \subseteq all /\ \A p \in all \ left : \A q \in left : p < q

Loop ==
  stage = "match" =>
    /\ Ordered(Buyers, book.buyers) /\ Ordered(Sellers, book.sellers)
    /\ \A p \in book.buyers : book.capital[p] = capital[p]
    /\ \A p \in book.sellers : book.holdings[p] = holdings[p]
    /\ \A p \in Participants :
         book.gained[p] = IF p \in Served THEN 1 ELSE IF p \in Spent THEN -1 ELSE 0
    /\ book.matches = Cardinality(Served) /\ book.matches <= book.limit
    /\ ~NaturalSupply => book.matches = Cardinality(Spent)

-----------------------------------------------------------------------------
(* What a step of the loop does to the book.                               *)

LEMMA AddAt ==
  ASSUME NEW f \in Changes, NEW p \in Participants, NEW n \in Int
  PROVE  /\ Add(f, p, n) \in Changes
         /\ \A q \in Participants : Add(f, p, n)[q] = IF q = p THEN f[q] + n ELSE f[q]
  BY DEF Add, Changes

LEMMA AmountsAreChanges == Amounts \subseteq Changes
  BY DEF Amounts, Changes

LEMMA BoughtEffect ==
  ASSUME TypeOK, Turn, Affords
  PROVE  /\ Bought \in Books
         /\ Buyer \in book.buyers /\ Buyer \in Participants
         /\ Bought.buyers = book.buyers \ {Buyer} /\ Bought.sellers = book.sellers
         /\ Bought.capital = Add(book.capital, Buyer, -segment.price)
         /\ Bought.holdings = Add(book.holdings, Buyer, 1)
         /\ Bought.earned = Add(book.earned, Buyer, -segment.price)
         /\ Bought.gained = Add(book.gained, Buyer, 1)
         /\ Bought.matches = book.matches + 1 /\ Bought.limit = book.limit
<1>1. book \in Books
    BY DEF TypeOK, Books
<1>2. Bought \in Books /\ Buyer \in book.buyers /\ Buyer \in Participants
    BY <1>1, BoughtTyped DEF Books
<1> QED
    BY <1>1, <1>2 DEF Bought, Books

LEMMA SoldEffect ==
  ASSUME NEW b \in Books, NEW s \in Participants
  PROVE  /\ Sold(b, s).buyers = b.buyers /\ Sold(b, s).sellers = b.sellers \ {s}
         /\ Sold(b, s).capital = Add(b.capital, s, segment.price)
         /\ Sold(b, s).holdings = Add(b.holdings, s, -1)
         /\ Sold(b, s).earned = Add(b.earned, s, segment.price)
         /\ Sold(b, s).gained = Add(b.gained, s, -1)
         /\ Sold(b, s).matches = b.matches /\ Sold(b, s).limit = b.limit
  BY DEF Sold, Books

\* A round has ended, or has not begun: there is no book to speak of.
LEMMA NoBook ==
  ASSUME TypeOK, [Next]_vars, stage' = "match"
  PROVE  \/ OpenRound
         \/ SkipBuyer \/ SkipSeller \/ Trade \/ BuyNatural
         \/ UNCHANGED vars
  BY DEF Next, Decide, CloseRound, ShouldContinue, Finished

-----------------------------------------------------------------------------
(* The deltas.                                                             *)

LEMMA DeltasStep ==
  TypeOK /\ DeltasExplainRound /\ [Next]_vars => DeltasExplainRound'
<1> SUFFICES ASSUME TypeOK, DeltasExplainRound, [Next]_vars, stage' = "match",
                    NEW p \in Participants
             PROVE  /\ book'.capital[p] = capital'[p] + book'.earned[p]
                    /\ book'.holdings[p] = holdings'[p] + book'.gained[p]
    BY DEF DeltasExplainRound
<1>0. /\ book \in Books /\ segment.price \in Nat
      /\ capital \in Changes /\ holdings \in Changes
      /\ book.capital \in Changes /\ book.holdings \in Changes
      /\ book.earned \in Changes /\ book.gained \in Changes
    BY AmountsAreChanges DEF TypeOK, Books
<1>1. CASE OpenRound
    BY <1>0, <1>1 DEF OpenRound, Nothing, Changes
<1>2. ASSUME stage = "match"
      PROVE  /\ book.capital[p] = capital[p] + book.earned[p]
             /\ book.holdings[p] = holdings[p] + book.gained[p]
    BY <1>2 DEF DeltasExplainRound
<1>3. CASE SkipBuyer \/ SkipSeller
    BY <1>0, <1>2, <1>3 DEF SkipBuyer, SkipSeller, Turn, Books
\* What the buyer pays and gets.
<1>4. ASSUME Turn, Affords
      PROVE  /\ Bought.capital[p] = capital[p] + Bought.earned[p]
             /\ Bought.holdings[p] = holdings[p] + Bought.gained[p]
             /\ Bought.capital \in Changes /\ Bought.holdings \in Changes
             /\ Bought.earned \in Changes /\ Bought.gained \in Changes
  <2>1. -segment.price \in Int /\ 1 \in Int /\ stage = "match"
      BY <1>0, <1>4 DEF Turn
  <2> DEFINE price == segment.price
  <2>2. /\ Bought.capital[p] = IF p = Buyer THEN book.capital[p] + -price ELSE book.capital[p]
        /\ Bought.earned[p] = IF p = Buyer THEN book.earned[p] + -price ELSE book.earned[p]
        /\ Bought.holdings[p] = IF p = Buyer THEN book.holdings[p] + 1 ELSE book.holdings[p]
        /\ Bought.gained[p] = IF p = Buyer THEN book.gained[p] + 1 ELSE book.gained[p]
        /\ Bought.capital \in Changes /\ Bought.holdings \in Changes
        /\ Bought.earned \in Changes /\ Bought.gained \in Changes
    <3>1. /\ Buyer \in Participants
          /\ Bought.capital = Add(book.capital, Buyer, -price)
          /\ Bought.earned = Add(book.earned, Buyer, -price)
          /\ Bought.holdings = Add(book.holdings, Buyer, 1)
          /\ Bought.gained = Add(book.gained, Buyer, 1)
        BY <1>4, BoughtEffect
    <3> DEFINE buyer == Buyer
               cost == -price
    <3>2. buyer \in Participants /\ cost \in Int
        BY <2>1, <3>1
    <3> HIDE DEF buyer, cost
    <3>3. ASSUME NEW f \in Changes, NEW n \in Int
          PROVE  /\ Add(f, buyer, n) \in Changes
                 /\ Add(f, buyer, n)[p] = IF p = buyer THEN f[p] + n ELSE f[p]
        BY <3>2, AddAt
    <3>4. /\ Add(book.capital, buyer, cost) \in Changes
          /\ Add(book.capital, buyer, cost)[p] =
               IF p = buyer THEN book.capital[p] + cost ELSE book.capital[p]
        BY <1>0, <3>2, <3>3
    <3>5. /\ Add(book.earned, buyer, cost) \in Changes
          /\ Add(book.earned, buyer, cost)[p] =
               IF p = buyer THEN book.earned[p] + cost ELSE book.earned[p]
        BY <1>0, <3>2, <3>3
    <3>6. /\ Add(book.holdings, buyer, 1) \in Changes
          /\ Add(book.holdings, buyer, 1)[p] =
               IF p = buyer THEN book.holdings[p] + 1 ELSE book.holdings[p]
        BY <1>0, <3>2 DEF Add, Changes
    <3>7. /\ Add(book.gained, buyer, 1) \in Changes
          /\ Add(book.gained, buyer, 1)[p] =
               IF p = buyer THEN book.gained[p] + 1 ELSE book.gained[p]
        BY <1>0, <3>2 DEF Add, Changes
    <3> QED
        BY <3>1, <3>4, <3>5, <3>6, <3>7 DEF buyer, cost
  <2>3. /\ capital[p] \in Int /\ holdings[p] \in Int
        /\ book.earned[p] \in Int /\ book.gained[p] \in Int
      BY <1>0 DEF Changes
  <2> QED
      BY <1>0, <1>2, <2>1, <2>2, <2>3
<1>5. CASE BuyNatural
    BY <1>4, <1>5 DEF BuyNatural
<1>6. CASE Trade
  <2> DEFINE s == First(book.sellers)
             price == segment.price
  <2>1. s \in Participants /\ Bought \in Books
      BY <1>0, <1>6, FirstIn, BoughtEffect DEF Trade, Stocked, Books
  <2>2. book' = Sold(Bought, s) /\ capital' = capital /\ holdings' = holdings /\ Turn /\ Affords
      BY <1>6 DEF Trade
  <2> HIDE DEF s
  <2>3. /\ book'.capital = Add(Bought.capital, s, price)
        /\ book'.holdings = Add(Bought.holdings, s, -1)
        /\ book'.earned = Add(Bought.earned, s, price)
        /\ book'.gained = Add(Bought.gained, s, -1)
      BY <2>1, <2>2, SoldEffect
  <2>4. /\ book'.capital[p] = IF p = s THEN Bought.capital[p] + price ELSE Bought.capital[p]
        /\ book'.earned[p] = IF p = s THEN Bought.earned[p] + price ELSE Bought.earned[p]
        /\ book'.holdings[p] = IF p = s THEN Bought.holdings[p] + -1 ELSE Bought.holdings[p]
        /\ book'.gained[p] = IF p = s THEN Bought.gained[p] + -1 ELSE Bought.gained[p]
    <3>1. ASSUME NEW f \in Changes, NEW n \in Int
          PROVE  Add(f, s, n)[p] = IF p = s THEN f[p] + n ELSE f[p]
        BY <2>1, AddAt
    <3>2. price \in Int /\ -1 \in Int
        BY <1>0
    <3> QED
        BY <1>4, <2>2, <2>3, <3>1, <3>2
  <2>5. /\ capital[p] \in Int /\ holdings[p] \in Int
        /\ Bought.earned[p] \in Int /\ Bought.gained[p] \in Int
      BY <1>0, <1>4, <2>2 DEF Changes
  <2> QED
      BY <1>0, <1>4, <2>2, <2>4, <2>5
<1>7. CASE UNCHANGED vars
    BY <1>2, <1>7 DEF vars
<1> QED
    BY <1>1, <1>3, <1>5, <1>6, <1>7, NoBook

\* At every step of the matching loop, the deltas of ROUND_RESOLVED are what
\* separates the participants in the book from those of the round before.
THEOREM DeltasAlwaysExplain == Spec => []DeltasExplainRound
<1>1. Init => DeltasExplainRound
    BY DEF Init, DeltasExplainRound
<1>2. TypeOK /\ DeltasExplainRound /\ [Next]_vars => DeltasExplainRound'
    BY DeltasStep
<1> QED
    BY <1>1, <1>2, MarketTypeCorrect, PTL DEF Spec

-----------------------------------------------------------------------------
(* Sums over the participants.  Induction is over sets of numbers or of    *)
(* participants, which are first-order, so the provers can use it.         *)

\* Total adds up a set by taking one participant after the other out of it.
Taken(S) == CHOOSE p \in S : TRUE
Rest(S) == S \ {Taken(S)}

LEMMA Taking ==
  ASSUME NEW S \in SUBSET Participants, S # {}
  PROVE  /\ Taken(S) \in S /\ Rest(S) \in SUBSET Participants
         /\ IsFiniteSet(S) /\ Cardinality(S) \in Nat /\ Cardinality(S) # 0
         /\ Cardinality(Rest(S)) = Cardinality(S) - 1
<1>1. Taken(S) \in S
    BY DEF Taken
<1>2. IsFiniteSet(S)
    BY ZenonT(60), MarketAssumption, FS_Subset
<1> QED
    BY <1>1, <1>2, FS_RemoveElement, FS_CardinalityType, FS_EmptySet DEF Rest

LEMMA SetInductive ==
  ASSUME NEW Good, {} \in Good,
         \A S \in SUBSET Participants : S # {} /\ Rest(S) \in Good => S \in Good
  PROVE  SUBSET Participants \subseteq Good
<1> DEFINE T == {n \in Nat : \A S \in SUBSET Participants : Cardinality(S) = n => S \in Good}
<1>1. 0 \in T
  <2>1. ASSUME NEW S \in SUBSET Participants, Cardinality(S) = 0 PROVE S = {}
      BY <2>1, Taking
  <2> QED
      BY <2>1
<1>2. ASSUME NEW n \in Nat, n \in T PROVE n + 1 \in T
  <2> SUFFICES ASSUME NEW S \in SUBSET Participants, Cardinality(S) = n + 1
               PROVE  S \in Good
      OBVIOUS
  <2>1. S # {}
      BY FS_EmptySet
  <2>2. Rest(S) \in SUBSET Participants /\ Cardinality(Rest(S)) = n
      BY <2>1, Taking
  <2> QED
      BY <1>2, <2>1, <2>2
<1>3. Nat \subseteq T
  <2> HIDE DEF T
  <2> QED
      BY <1>1, <1>2, NatInductive
<1>4. \A S \in SUBSET Participants : Cardinality(S) \in Nat
    BY ZenonT(60), MarketAssumption, FS_Subset, FS_CardinalityType
<1> QED
    BY <1>3, <1>4

Adds(g, f, D) == g = [S \in D |-> IF S = {} THEN 0 ELSE f[Taken(S)] + g[Rest(S)]]

\* There is a function that does what the definition in Total says.
LEMMA SumExists ==
  ASSUME NEW f
  PROVE  \E g : Adds(g, f, SUBSET Participants)
<1> DEFINE UpTo(n) == {S \in SUBSET Participants : Cardinality(S) <= n}
           T == {n \in Nat : \E g : Adds(g, f, UpTo(n))}
<1>0. \A S \in SUBSET Participants : Cardinality(S) \in Nat /\ (Cardinality(S) = 0 => S = {})
    BY MarketAssumption, FS_Subset, FS_CardinalityType, Taking
<1>1. 0 \in T
  <2> DEFINE g == [S \in UpTo(0) |-> 0]
  <2>1. \A S \in UpTo(0) : S = {}
      BY <1>0
  <2>2. Adds(g, f, UpTo(0))
      BY <2>1 DEF Adds
  <2> QED
      BY <2>2
<1>2. ASSUME NEW n \in Nat, n \in T PROVE n + 1 \in T
  <2>1. PICK g : Adds(g, f, UpTo(n))
      BY <1>2
  <2> DEFINE h == [S \in UpTo(n + 1) |-> IF S = {} THEN 0 ELSE f[Taken(S)] + g[Rest(S)]]
  <2>2. \A S \in UpTo(n) : S \in UpTo(n + 1) /\ h[S] = g[S]
      BY <1>0, <2>1 DEF Adds
  <2>3. ASSUME NEW S \in UpTo(n + 1), S # {} PROVE Rest(S) \in UpTo(n)
      BY <2>3, Taking
  <2>4. \A S \in UpTo(n + 1) : S # {} => h[Rest(S)] = g[Rest(S)]
      BY <2>2, <2>3
  <2>5. Adds(h, f, UpTo(n + 1))
      BY <2>4 DEF Adds
  <2>6. \E k : Adds(k, f, UpTo(n + 1))
    <3> HIDE DEF h, UpTo
    <3> QED
        BY <2>5
  <2> HIDE DEF UpTo
  <2>7. n + 1 \in Nat
      OBVIOUS
  <2> QED
      BY <2>6, <2>7, Zenon
<1>3. Nat \subseteq T
  <2> HIDE DEF T
  <2> QED
      BY <1>1, <1>2, NatInductive
<1>4. Cardinality(Participants) \in T
    BY <1>0, <1>3
<1>5. UpTo(Cardinality(Participants)) = SUBSET Participants
  <2>1. \A S \in SUBSET Participants : Cardinality(S) <= Cardinality(Participants)
      BY ZenonT(60), MarketAssumption, FS_Subset
  <2> QED
      BY <2>1
<1> QED
    BY <1>4, <1>5

Sum(f) == CHOOSE g : Adds(g, f, SUBSET Participants)

LEMMA TotalIsSum ==
  ASSUME NEW f
  PROVE  Total(f) = Sum(f)[Participants]
  BY Zenon DEF Total, Sum, Adds, Taken, Rest

LEMMA SumAdds ==
  ASSUME NEW f
  PROVE  /\ Sum(f)[{}] = 0
         /\ \A S \in SUBSET Participants :
              S # {} => Sum(f)[S] = f[Taken(S)] + Sum(f)[Rest(S)]
<1>1. Adds(Sum(f), f, SUBSET Participants)
    BY SumExists DEF Sum
<1> QED
    BY <1>1 DEF Adds

LEMMA SumTyped ==
  ASSUME NEW f \in Changes
  PROVE  \A S \in SUBSET Participants : Sum(f)[S] \in Int
<1> DEFINE Good == {S \in SUBSET Participants : Sum(f)[S] \in Int}
<1>1. {} \in Good
    BY SumAdds
<1>2. ASSUME NEW S \in SUBSET Participants, S # {}, Rest(S) \in Good PROVE S \in Good
  <2>1. f[Taken(S)] \in Int
      BY <1>2, Taking DEF Changes
  <2> QED
      BY <1>2, <2>1, SumAdds
<1>3. SUBSET Participants \subseteq Good
  <2> HIDE DEF Good
  <2> QED
      BY <1>1, <1>2, SetInductive
<1> QED
    BY <1>3

\* A change of one entry changes the total by as much.
LEMMA TotalOfAdd ==
  ASSUME NEW f \in Changes, NEW p \in Participants, NEW n \in Int
  PROVE  Total(f) \in Int /\ Total(Add(f, p, n)) = Total(f) + n
<1> DEFINE h == Add(f, p, n)
           Good == {S \in SUBSET Participants :
                      Sum(h)[S] = Sum(f)[S] + (IF p \in S THEN n ELSE 0)}
<1>0. h \in Changes /\ \A q \in Participants : h[q] = IF q = p THEN f[q] + n ELSE f[q]
    BY AddAt
<1>1. {} \in Good
    BY SumAdds
<1>2. ASSUME NEW S \in SUBSET Participants, S # {}, Rest(S) \in Good PROVE S \in Good
  <2> DEFINE q == Taken(S)
             R == Rest(S)
  <2>1. q \in S /\ q \in Participants /\ q \notin R /\ \A r : r \in S <=> r = q \/ r \in R
      BY <1>2, Taking DEF Rest
  <2>2. Sum(h)[S] = h[q] + Sum(h)[R] /\ Sum(f)[S] = f[q] + Sum(f)[R]
      BY <1>2, SumAdds
  <2>3. Sum(h)[R] = Sum(f)[R] + (IF p \in R THEN n ELSE 0)
      BY <1>2
  <2>4. Sum(f)[R] \in Int /\ f[q] \in Int /\ h[q] = IF q = p THEN f[q] + n ELSE f[q]
      BY <1>0, <1>2, <2>1, SumTyped DEF Changes
  <2> HIDE DEF q, R, h
  <2> QED
      BY <2>1, <2>2, <2>3, <2>4
<1>3. SUBSET Participants \subseteq Good
  <2> HIDE DEF Good
  <2> QED
      BY <1>1, <1>2, SetInductive
<1> QED
    BY <1>3, SumTyped, TotalIsSum

-----------------------------------------------------------------------------
(* The loop.                                                               *)

\* sorted(...)[0] comes before all others.
LEMMA FirstLeast ==
  ASSUME NEW S \in SUBSET Participants, S # {}
  PROVE  /\ First(S) \in S /\ First(S) \in Nat
         /\ \A q \in S : q \in Nat /\ First(S) <= q
<1>1. S \subseteq Nat
    BY MarketAssumption
<1>2. PICK p \in S : \A q \in S : <<q, p>> \notin Below
    BY <1>1, BelowWellFounded, WFMin
<1>3. ASSUME NEW q \in S PROVE p <= q
  <2>1. <<q, p>> \in Nat \X Nat /\ <<q, p>>[1] = q /\ <<q, p>>[2] = p
      BY <1>1
  <2>2. ~(q < p)
      BY <1>2, <2>1 DEF Below
  <2> QED
      BY <1>1, <2>2
<1> QED
    BY <1>1, <1>3 DEF First

\* A list that loses its first member loses it in order.
LEMMA FirstGone ==
  ASSUME NEW all \in SUBSET Participants, NEW left, Ordered(all, left), left # {}
  PROVE  Ordered(all, left \ {First(left)})
<1>1. left \in SUBSET Participants /\ all \subseteq Nat
    BY MarketAssumption DEF Ordered
<1>2. First(left) \in left /\ \A q \in left : First(left) <= q
    BY <1>1, FirstLeast
<1>3. ASSUME NEW p \in all \ (left \ {First(left)}), NEW q \in left \ {First(left)}
      PROVE  p < q
  <2>1. CASE p \in left
      BY <1>1, <1>2, <1>3, <2>1
  <2>2. CASE p \notin left
      BY <1>3, <2>2 DEF Ordered
  <2> QED
      BY <2>1, <2>2
<1> QED
    BY <1>3 DEF Ordered

\* The first of those who can are those who did.
LEMMA FirstAre ==
  ASSUME NEW all \in SUBSET Participants, NEW left, Ordered(all, left),
         NEW able \in SUBSET all
  PROVE  FirstOf(able, Cardinality(able \ left)) = able \ left
<1> DEFINE gone == able \ left
           before(p) == {q \in able : q < p}
<1>1. able \in SUBSET Participants /\ able \subseteq Nat
    BY MarketAssumption
<1>2. \A S \in SUBSET able : IsFiniteSet(S) /\ Cardinality(S) \in Nat
    BY ZenonT(60), <1>1, MarketAssumption, FS_Subset, FS_CardinalityType
<1>3. ASSUME NEW p \in gone PROVE Cardinality(before(p)) < Cardinality(gone)
  <2>1. before(p) \subseteq gone \ {p}
    <3> SUFFICES ASSUME NEW q \in able, q < p PROVE q \notin left /\ q # p
        OBVIOUS
    <3>1. p \in all \ left /\ p \in Nat /\ q \in Nat
        BY <1>1, <1>3
    <3> QED
        BY <3>1 DEF Ordered
  <2>2. Cardinality(gone \ {p}) = Cardinality(gone) - 1
      BY ZenonT(60), <1>2, FS_RemoveElement
  <2>3. gone \ {p} \in SUBSET able
      OBVIOUS
  <2> HIDE DEF gone, before
  <2>4. Cardinality(before(p)) <= Cardinality(gone \ {p})
      BY <1>2, <2>1, <2>3, FS_Subset
  <2>5. Cardinality(gone) \in Nat /\ before(p) \in SUBSET able
      BY <1>2 DEF gone, before
  <2> QED
      BY <1>2, <2>2, <2>4, <2>5
<1>4. ASSUME NEW p \in able \ gone PROVE ~(Cardinality(before(p)) < Cardinality(gone))
  <2>1. gone \subseteq before(p) /\ before(p) \in SUBSET able /\ gone \in SUBSET able
      BY DEF Ordered
  <2> HIDE DEF gone, before
  <2>2. Cardinality(gone) <= Cardinality(before(p))
      BY <1>2, <2>1, FS_Subset
  <2> QED
      BY <1>2, <2>1, <2>2
<1> QED
    BY <1>3, <1>4 DEF FirstOf

\* One who served is one more.
LEMMA OneMore ==
  ASSUME NEW able \in SUBSET Participants, NEW left, NEW p \in left
  PROVE  /\ Cardinality(able \ left) \in Nat
         /\ p \in able => Cardinality(able \ (left \ {p})) = Cardinality(able \ left) + 1
         /\ p \notin able => able \ (left \ {p}) = able \ left
<1> DEFINE gone == able \ left
<1>1. IsFiniteSet(gone) /\ Cardinality(gone) \in Nat
  <2>1. gone \in SUBSET Participants
      OBVIOUS
  <2> HIDE DEF gone
  <2> QED
      BY ZenonT(60), <2>1, MarketAssumption, FS_Subset, FS_CardinalityType
<1>2. ASSUME p \in able PROVE able \ (left \ {p}) = gone \cup {p} /\ p \notin gone
    BY <1>2
<1>3. p \notin able => able \ (left \ {p}) = gone
    OBVIOUS
<1> HIDE DEF gone
<1>4. p \in able => Cardinality(able \ (left \ {p})) = Cardinality(gone) + 1
    BY ZenonT(60), <1>1, <1>2, FS_AddElement
<1> QED
    BY <1>1, <1>3, <1>4 DEF gone

LEMMA ListsTyped ==
  ASSUME TypeOK
  PROVE  /\ Buyers \in SUBSET Participants /\ Sellers \in SUBSET Participants
         /\ Able \in SUBSET Buyers /\ Willing \in SUBSET Sellers
         /\ Buyers \cap Sellers = {}
  BY DEF Buyers, Sellers, Able, Willing

\* A list before its first turn.
LEMMA NobodyGone == \A S : Ordered(S, S) /\ S \ S = {}
  BY DEF Ordered

LEMMA LoopOpens ==
  ASSUME TypeOK, OpenRound
  PROVE  Loop'
<1>1. /\ book'.buyers = Buyers /\ book'.sellers = Sellers /\ book'.limit = Limit
      /\ book'.matches = 0 /\ book'.capital = capital /\ book'.holdings = holdings
      /\ book'.gained = Nothing /\ UNCHANGED <<capital, holdings, actions>>
    BY DEF OpenRound
<1>2. Buyers' = Buyers /\ Sellers' = Sellers /\ Able' \subseteq Buyers /\ Willing' \subseteq Sellers
    BY <1>1 DEF Buyers, Sellers, Able, Willing
<1>3. Served' = {} /\ Spent' = {}
    BY <1>1, <1>2 DEF Served, Spent
<1>4. Limit \in Nat /\ Cardinality({}) = 0
    BY LimitTyped, FS_EmptySet
<1>5. \A p \in Participants : book'.gained[p] = 0
    BY <1>1 DEF Nothing
<1>6. Ordered(Buyers', book'.buyers) /\ Ordered(Sellers', book'.sellers)
    BY <1>1, <1>2 DEF Ordered
<1> QED
    BY <1>1, <1>3, <1>4, <1>5, <1>6 DEF Loop

LEMMA LoopSkips ==
  ASSUME TypeOK, Loop, SkipBuyer \/ SkipSeller
  PROVE  Loop'
<1>0. /\ book \in Books /\ stage = "match"
      /\ UNCHANGED <<segment, capital, holdings, actions>>
    BY DEF TypeOK, Books, SkipBuyer, SkipSeller, Turn
<1>1. /\ Buyers' = Buyers /\ Sellers' = Sellers /\ Able' = Able /\ Willing' = Willing
      /\ NaturalSupply' = NaturalSupply
    BY <1>0 DEF Buyers, Sellers, Able, Willing, NaturalSupply
<1>2. /\ book'.capital = book.capital /\ book'.holdings = book.holdings
      /\ book'.gained = book.gained /\ book'.limit = book.limit
      /\ book'.matches = book.matches
    BY <1>0 DEF SkipBuyer, SkipSeller, Books
<1>3. /\ Ordered(Buyers', book'.buyers) /\ Ordered(Sellers', book'.sellers)
      /\ book'.buyers \subseteq book.buyers /\ book'.sellers \subseteq book.sellers
      /\ Served' = Served /\ Spent' = Spent
  <2>1. CASE SkipBuyer
    <3>1. /\ book'.buyers = book.buyers \ {Buyer} /\ book'.sellers = book.sellers
          /\ book.buyers # {}
        BY <1>0, <2>1 DEF SkipBuyer, Books, Turn
    <3>2. Buyer \in book.buyers /\ Buyer \notin Able
      <4>1. Buyer \in book.buyers
          BY <1>0, <3>1, FirstLeast DEF Buyer, Books
      <4> QED
          BY <1>0, <2>1, <4>1 DEF SkipBuyer, Affords, Able, Loop
    <3>3. Able \in SUBSET Participants
        BY ListsTyped
    <3>4. Able \ book'.buyers = Served
        BY <3>1, <3>2, <3>3, OneMore DEF Served
    <3>5. Ordered(Buyers, book'.buyers)
        BY <1>0, <3>1, ListsTyped, FirstGone DEF Loop, Buyer
    <3> QED
        BY <1>0, <1>1, <3>1, <3>4, <3>5 DEF Served, Spent, Loop
  <2>2. CASE SkipSeller
    <3> DEFINE s == First(book.sellers)
    <3>1. /\ book'.sellers = book.sellers \ {s} /\ book'.buyers = book.buyers
          /\ book.sellers # {} /\ book.holdings[s] <= 0
        BY <1>0, <2>2 DEF SkipSeller, Books, Unstocked
    <3>2. s \in book.sellers /\ s \in Participants
        BY <1>0, <3>1, FirstLeast DEF Books
    <3>3. s \notin Willing
        BY <1>0, <3>1, <3>2 DEF Willing, Loop, TypeOK, Amounts
    <3>4. Willing \ book'.sellers = Spent
        BY <3>1, <3>2, <3>3, ListsTyped, OneMore DEF Spent
    <3>5. Ordered(Sellers, book'.sellers)
        BY <1>0, <3>1, ListsTyped, FirstGone DEF Loop
    <3> QED
        BY <1>0, <1>1, <3>1, <3>4, <3>5 DEF Served, Spent, Loop
  <2> QED
      BY <2>1, <2>2
<1> QED
    BY <1>0, <1>1, <1>2, <1>3 DEF Loop

\* The buyer whose turn it is and who can pay is the next one of Able.
LEMMA NextServed ==
  ASSUME TypeOK, Loop, Turn, Affords
  PROVE  /\ stage = "match" /\ book \in Books
         /\ Buyer \in book.buyers /\ Buyer \in Able /\ Buyer \in Participants
         /\ Ordered(Buyers, book.buyers \ {Buyer})
         /\ Able \ (book.buyers \ {Buyer}) = Served \cup {Buyer}
         /\ Cardinality(Able \ (book.buyers \ {Buyer})) = book.matches + 1
         /\ book.matches + 1 <= book.limit
         /\ book.gained[Buyer] = 0
<1>1. stage = "match" /\ book \in Books /\ book.matches < book.limit /\ book.buyers # {}
    BY DEF Turn, TypeOK, Books
<1>2. Buyer \in book.buyers /\ Buyer \in Participants
    BY <1>1, FirstLeast DEF Buyer, Books
<1>3. Buyer \in Buyers /\ Buyer \in Able
    BY <1>1, <1>2 DEF Loop, Ordered, Affords, Able
<1>4. Able \in SUBSET Participants
    BY ListsTyped
<1>5. Cardinality(Able \ (book.buyers \ {Buyer})) = book.matches + 1
  <2>1. Cardinality(Able \ (book.buyers \ {Buyer})) = Cardinality(Able \ book.buyers) + 1
      BY <1>2, <1>3, <1>4, OneMore
  <2> QED
      BY <1>1, <2>1 DEF Loop, Served
<1>6. Ordered(Buyers, book.buyers \ {Buyer})
    BY <1>1, ListsTyped, FirstGone DEF Loop, Buyer
<1>7. book.gained[Buyer] = 0
  <2>1. Buyer \notin Served /\ Buyer \notin Spent
      BY <1>2, <1>3, ListsTyped DEF Served, Spent
  <2> QED
      BY <1>1, <1>2, <2>1 DEF Loop
<1>8. book.matches \in Nat /\ book.limit \in Nat
    BY <1>1 DEF Books
<1> QED
    BY <1>1, <1>2, <1>3, <1>5, <1>6, <1>7, <1>8 DEF Served

LEMMA LoopBuys ==
  ASSUME TypeOK, Loop, BuyNatural
  PROVE  Loop'
<1>1. /\ Turn /\ Affords /\ book.sellers = {} /\ Sellers = {} /\ book' = Bought
      /\ UNCHANGED <<stage, segment, capital, holdings, actions>>
    BY DEF BuyNatural, NaturalSupply
<1>2. /\ Buyers' = Buyers /\ Sellers' = {} /\ Able' = Able /\ Willing' = {}
      /\ Willing = {} /\ NaturalSupply'
    BY <1>1 DEF Buyers, Sellers, Able, Willing, NaturalSupply
<1>3. /\ book'.buyers = book.buyers \ {Buyer} /\ book'.sellers = {}
      /\ book'.capital = Add(book.capital, Buyer, -segment.price)
      /\ book'.gained = Add(book.gained, Buyer, 1)
      /\ book'.matches = book.matches + 1 /\ book'.limit = book.limit
    BY <1>1, BoughtEffect
<1>4. /\ book \in Books /\ stage = "match" /\ Buyer \in Participants /\ Buyer \in book.buyers
      /\ Served' = Served \cup {Buyer} /\ Cardinality(Served') = book'.matches
      /\ book'.matches <= book'.limit
      /\ Ordered(Buyers', book'.buyers) /\ book.gained[Buyer] = 0
    BY <1>1, <1>2, <1>3, NextServed DEF Served
<1>5. Ordered(Sellers', book'.sellers) /\ Spent = {} /\ Spent' = {}
    BY <1>2, <1>3 DEF Ordered, Spent
<1>6. ASSUME NEW p \in book'.buyers PROVE book'.capital[p] = capital'[p]
  <2>1. p # Buyer /\ p \in book.buyers /\ p \in Participants
      BY <1>3, <1>4, <1>6 DEF Books
  <2>2. book'.capital[p] = book.capital[p]
      BY <1>3, <1>4, <2>1 DEF Add, Books, Amounts
  <2> QED
      BY <1>1, <1>4, <2>1, <2>2 DEF Loop
<1>7. ASSUME NEW p \in Participants
      PROVE book'.gained[p] = IF p \in Served' THEN 1 ELSE IF p \in Spent' THEN -1 ELSE 0
  <2>1. book.gained[p] = IF p \in Served THEN 1 ELSE 0
      BY <1>4, <1>5 DEF Loop
  <2>2. book'.gained[p] = IF p = Buyer THEN 1 ELSE book.gained[p]
      BY <1>3, <1>4 DEF Add, Books, Changes
  <2> QED
      BY <1>4, <1>5, <2>1, <2>2
<1> QED
    BY <1>2, <1>3, <1>4, <1>5, <1>6, <1>7 DEF Loop

LEMMA LoopTrades ==
  ASSUME TypeOK, Loop, Trade
  PROVE  Loop'
<1> DEFINE s == First(book.sellers)
<1>1. /\ Turn /\ Affords /\ book.sellers # {} /\ book.holdings[s] > 0
      /\ book' = Sold(Bought, s)
      /\ UNCHANGED <<stage, segment, capital, holdings, actions>>
    BY DEF Trade, Stocked
<1>2. /\ Buyers' = Buyers /\ Sellers' = Sellers /\ Able' = Able /\ Willing' = Willing
      /\ NaturalSupply' = NaturalSupply
    BY <1>1 DEF Buyers, Sellers, Able, Willing, NaturalSupply
<1>3. /\ book \in Books /\ stage = "match" /\ Buyer \in Participants /\ Buyer \in book.buyers
      /\ Buyer \in Able /\ Able \ (book.buyers \ {Buyer}) = Served \cup {Buyer}
      /\ Cardinality(Able \ (book.buyers \ {Buyer})) = book.matches + 1
      /\ book.matches + 1 <= book.limit
      /\ Ordered(Buyers, book.buyers \ {Buyer}) /\ book.gained[Buyer] = 0
    BY <1>1, NextServed
<1>4. s \in book.sellers /\ s \in Participants /\ s \in Sellers /\ s \in Willing
  <2>1. s \in book.sellers /\ s \in Participants
      BY <1>1, <1>3, FirstLeast DEF Books
  <2>2. s \in Sellers /\ book.holdings[s] = holdings[s]
      BY <1>3, <2>1 DEF Loop, Ordered
  <2> QED
      BY <1>1, <2>1, <2>2 DEF Willing
<1>5. s # Buyer /\ s \notin Served /\ Buyer \notin Spent /\ book.gained[s] = 0
  <2>1. s # Buyer /\ s \notin Served /\ Buyer \notin Spent /\ s \notin Spent
      BY <1>3, <1>4, ListsTyped DEF Served, Spent
  <2> QED
      BY <1>3, <1>4, <2>1 DEF Loop
<1>6. Ordered(Sellers, book.sellers \ {s})
    BY <1>1, <1>3, ListsTyped, FirstGone DEF Loop
<1>7. Willing \ (book.sellers \ {s}) = Spent \cup {s}
    BY <1>4 DEF Spent
<1>8. ~NaturalSupply /\ Cardinality(Willing \ (book.sellers \ {s})) = book.matches + 1
  <2>1. ~NaturalSupply
      BY <1>4 DEF NaturalSupply
  <2>2. Cardinality(Willing \ (book.sellers \ {s})) = Cardinality(Willing \ book.sellers) + 1
      BY <1>4, ListsTyped, OneMore
  <2> QED
      BY <1>3, <2>1, <2>2 DEF Loop, Spent
<1>9. /\ Bought \in Books
      /\ Bought.capital = Add(book.capital, Buyer, -segment.price)
      /\ Bought.holdings = Add(book.holdings, Buyer, 1)
      /\ Bought.gained = Add(book.gained, Buyer, 1)
      /\ Bought.buyers = book.buyers \ {Buyer} /\ Bought.sellers = book.sellers
      /\ Bought.matches = book.matches + 1 /\ Bought.limit = book.limit
    BY <1>1, BoughtEffect
<1> HIDE DEF s
<1>10. /\ book'.buyers = book.buyers \ {Buyer} /\ book'.sellers = book.sellers \ {s}
       /\ book'.capital = Add(Bought.capital, s, segment.price)
       /\ book'.holdings = Add(Bought.holdings, s, -1)
       /\ book'.gained = Add(Bought.gained, s, -1)
       /\ book'.matches = book.matches + 1 /\ book'.limit = book.limit
    BY <1>1, <1>4, <1>9, SoldEffect
<1>11. Served' = Served \cup {Buyer} /\ Spent' = Spent \cup {s}
    BY <1>2, <1>3, <1>7, <1>10 DEF Served, Spent
<1>12. ASSUME NEW p \in book'.buyers PROVE book'.capital[p] = capital'[p]
  <2>1. p # Buyer /\ p \in book.buyers /\ p \in Participants /\ p # s
    <3>1. p # Buyer /\ p \in book.buyers /\ p \in Participants
        BY <1>3, <1>10, <1>12 DEF Books
    <3>2. p \in Buyers
        BY <1>3, <3>1 DEF Loop, Ordered
    <3> QED
        BY <1>4, <3>1, <3>2, ListsTyped
  <2>2. book'.capital[p] = Bought.capital[p]
      BY <1>4, <1>9, <1>10, <2>1 DEF Add, Books, Amounts
  <2>3. Bought.capital[p] = book.capital[p]
      BY <1>3, <1>9, <2>1 DEF Add, Books, Amounts
  <2> QED
      BY <1>1, <1>3, <2>1, <2>2, <2>3 DEF Loop
<1>13. ASSUME NEW p \in book'.sellers PROVE book'.holdings[p] = holdings'[p]
  <2>1. p # s /\ p \in book.sellers /\ p \in Participants /\ p # Buyer
    <3>1. p # s /\ p \in book.sellers /\ p \in Participants
        BY <1>3, <1>10, <1>13 DEF Books
    <3>2. p \in Sellers /\ Buyer \in Buyers
        BY <1>3, <3>1, ListsTyped DEF Loop, Ordered
    <3> QED
        BY <3>1, <3>2, ListsTyped
  <2>2. book'.holdings[p] = Bought.holdings[p]
      BY <1>4, <1>9, <1>10, <2>1 DEF Add, Books, Amounts
  <2>3. Bought.holdings[p] = book.holdings[p]
      BY <1>3, <1>9, <2>1 DEF Add, Books, Amounts
  <2> QED
      BY <1>1, <1>3, <2>1, <2>2, <2>3 DEF Loop
<1>14. ASSUME NEW p \in Participants
       PROVE book'.gained[p] = IF p \in Served' THEN 1 ELSE IF p \in Spent' THEN -1 ELSE 0
  <2>1. book.gained[p] = IF p \in Served THEN 1 ELSE IF p \in Spent THEN -1 ELSE 0
      BY <1>3 DEF Loop
  <2>2. Bought.gained[p] = IF p = Buyer THEN 1 ELSE book.gained[p]
      BY <1>3, <1>9 DEF Add, Books, Changes
  <2>3. Bought.gained[s] = 0
      BY <1>3, <1>4, <1>5, <1>9 DEF Add, Books, Changes
  <2>4. book'.gained[p] = IF p = s THEN -1 ELSE Bought.gained[p]
      BY <1>4, <1>9, <1>10, <2>3 DEF Add, Books, Changes
  <2> QED
      BY <1>5, <1>11, <2>1, <2>2, <2>4
<1> QED
    BY <1>2, <1>3, <1>6, <1>8, <1>10, <1>11, <1>12, <1>13, <1>14 DEF Loop, Served, Spent

LEMMA LoopStep == TypeOK /\ Loop /\ [Next]_vars => Loop'
<1> SUFFICES ASSUME TypeOK, Loop, [Next]_vars PROVE Loop'
    OBVIOUS
<1>1. CASE UNCHANGED vars
    BY <1>1 DEF vars, Loop, Served, Spent, Able, Willing, Buyers, Sellers, NaturalSupply
<1>2. CASE stage' # "match"
    BY <1>2 DEF Loop
<1> QED
    BY <1>1, <1>2, NoBook, LoopOpens, LoopSkips, LoopBuys, LoopTrades

LEMMA LoopHolds == Spec => [](TypeOK /\ Loop)
<1>1. Init => Loop
    BY DEF Init, Loop
<1>2. TypeOK /\ Loop /\ [Next]_vars => Loop'
    BY LoopStep
<1> QED
    BY <1>1, <1>2, MarketTypeCorrect, PTL DEF Spec

\* The greedy loop, with its two skips and its two exits, ends with exactly
\* the trades of the declarative definition: as many as the limit, the buyers
\* who can pay and the sellers who have a unit allow, by the first of each.
THEOREM LoopAlwaysMaximal == Spec => []LoopIsMaximal
<1>1. TypeOK /\ Loop => LoopIsMaximal
  <2> SUFFICES ASSUME TypeOK, Loop, LoopEnds
               PROVE  /\ book.matches \in Possible /\ book.matches + 1 \notin Possible
                      /\ \A p \in Participants :
                           book.gained[p] = IF p \in FirstOf(Able, book.matches) THEN 1
                                            ELSE IF p \in FirstOf(Willing, book.matches) THEN -1
                                            ELSE 0
      BY DEF LoopIsMaximal
  <2>1. /\ stage = "match" /\ book \in Books /\ book.matches \in Nat /\ book.limit \in Nat
        /\ Turn => Affords /\ book.sellers = {} /\ ~NaturalSupply
      BY DEF LoopEnds, TypeOK, Books
  <2>2. /\ Ordered(Buyers, book.buyers) /\ Ordered(Sellers, book.sellers)
        /\ book.matches = Cardinality(Served) /\ book.matches <= book.limit
        /\ ~NaturalSupply => book.matches = Cardinality(Spent)
      BY <2>1 DEF Loop
  <2>3. /\ Cardinality(Able) \in Nat /\ Cardinality(Willing) \in Nat
        /\ Cardinality(Served) <= Cardinality(Able)
        /\ Cardinality(Spent) <= Cardinality(Willing)
    <3>1. IsFiniteSet(Able) /\ IsFiniteSet(Willing)
        BY ListsTyped, MarketAssumption, FS_Subset
    <3>2. Served \subseteq Able /\ Spent \subseteq Willing
        BY DEF Served, Spent
    <3> QED
        BY <3>1, <3>2, FS_Subset, FS_CardinalityType
  <2>4. book.matches \in Possible
      BY <2>1, <2>2, <2>3 DEF Possible
  <2>5. book.matches + 1 \notin Possible
    <3>1. CASE ~(book.matches < book.limit)
        BY <2>1, <3>1 DEF Possible
    <3>2. CASE book.buyers = {}
      <4>1. Served = Able
          BY <3>2 DEF Served
      <4> QED
          BY <2>1, <2>2, <2>3, <4>1 DEF Possible
    <3>3. CASE book.sellers = {} /\ ~NaturalSupply
      <4>1. Spent = Willing
          BY <3>3 DEF Spent
      <4> QED
          BY <2>1, <2>2, <2>3, <3>3, <4>1 DEF Possible
    <3> QED
        BY <2>1, <3>1, <3>2, <3>3 DEF Turn
  <2>6. FirstOf(Able, book.matches) = Served
      BY <2>2, ListsTyped, FirstAre DEF Served
  <2>7. FirstOf(Willing, book.matches) = Spent
    <3>1. CASE NaturalSupply
      <4>1. Willing = {}
          BY <3>1 DEF NaturalSupply, Willing
      <4> QED
          BY <4>1 DEF FirstOf, Spent
    <3>2. CASE ~NaturalSupply
        BY <2>2, <3>2, ListsTyped, FirstAre DEF Spent
    <3> QED
        BY <3>1, <3>2
  <2> QED
      BY <2>1, <2>4, <2>5, <2>6, <2>7 DEF Loop
<1> QED
    BY <1>1, LoopHolds, PTL

-----------------------------------------------------------------------------
(* Conservation.                                                           *)

LEMMA Distribute == \A m, n \in Int : (m + 1) * n = m * n + n /\ m * n \in Int
  OBVIOUS

LEMMA ConservedStep ==
  TypeOK /\ Loop /\ Conserved /\ [Next]_vars => Conserved'
<1> SUFFICES ASSUME TypeOK, Loop, Conserved, [Next]_vars, stage' = "match"
             PROVE  LET minted == IF NaturalSupply' THEN book'.matches ELSE 0
                    IN  /\ Total(book'.holdings) = Total(holdings') + minted
                        /\ Total(book'.capital) = Total(capital') - minted * segment'.price
    BY DEF Conserved
<1> DEFINE price == segment.price
<1>0. /\ book \in Books /\ price \in Nat /\ -price \in Int /\ book.matches \in Nat
      /\ capital \in Changes /\ holdings \in Changes
      /\ book.capital \in Changes /\ book.holdings \in Changes
    BY AmountsAreChanges DEF TypeOK, Books
<1>1. \A f \in Changes : Total(f) \in Int
    BY TotalIsSum, SumTyped
<1>2. CASE OpenRound
  <2>1. /\ book'.holdings = holdings /\ book'.capital = capital /\ book'.matches = 0
        /\ holdings' = holdings /\ capital' = capital
      BY <1>2 DEF OpenRound
  <2>2. segment'.price \in Nat
    <3>1. CASE UNCHANGED segment
        BY <1>0, <3>1
    <3>2. CASE \E m \in PossibleMoves : segment' = MovedSegment(m)
        BY <3>2, SegmentTyped DEF PossibleMoves
    <3> QED
        BY <1>2, <3>1, <3>2 DEF OpenRound
  <2>3. Total(holdings) \in Int /\ Total(capital) \in Int
      BY <1>0, <1>1
  <2> QED
      BY <2>1, <2>2, <2>3
<1>3. ASSUME stage = "match"
      PROVE  LET minted == IF NaturalSupply THEN book.matches ELSE 0
             IN  /\ Total(book.holdings) = Total(holdings) + minted
                 /\ Total(book.capital) = Total(capital) - minted * price
    BY <1>3 DEF Conserved
<1>4. CASE SkipBuyer \/ SkipSeller
    BY <1>0, <1>3, <1>4 DEF SkipBuyer, SkipSeller, Turn, Books, NaturalSupply, Sellers
\* A purchase takes the price out and brings a unit in.
<1>5. ASSUME Turn, Affords
      PROVE  /\ Bought.capital \in Changes /\ Bought.holdings \in Changes /\ Bought \in Books
             /\ Total(Bought.holdings) = Total(book.holdings) + 1
             /\ Total(Bought.capital) = Total(book.capital) + -price
  <2>1. /\ Bought \in Books /\ Buyer \in Participants
        /\ Bought.capital = Add(book.capital, Buyer, -price)
        /\ Bought.holdings = Add(book.holdings, Buyer, 1)
      BY <1>5, BoughtEffect
  <2>2. Bought.capital \in Changes /\ Bought.holdings \in Changes
      BY <2>1, AmountsAreChanges DEF Books
  <2>3. Total(Add(book.holdings, Buyer, 1)) = Total(book.holdings) + 1
    <3> DEFINE one == 1
    <3>1. one \in Int
        OBVIOUS
    <3> HIDE DEF one
    <3>2. Total(Add(book.holdings, Buyer, one)) = Total(book.holdings) + one
        BY <1>0, <2>1, <3>1, TotalOfAdd
    <3> QED
        BY <3>2 DEF one
  <2>4. Total(Add(book.capital, Buyer, -price)) = Total(book.capital) + -price
    <3> DEFINE cost == -price
    <3>1. cost \in Int
        BY <1>0
    <3> HIDE DEF cost
    <3>2. Total(Add(book.capital, Buyer, cost)) = Total(book.capital) + cost
        BY <1>0, <2>1, <3>1, TotalOfAdd
    <3> QED
        BY <3>2 DEF cost
  <2> QED
      BY <2>1, <2>2, <2>3, <2>4
<1>6. CASE BuyNatural
  <2>1. /\ NaturalSupply /\ NaturalSupply' /\ book' = Bought /\ Turn /\ Affords
        /\ stage = "match" /\ UNCHANGED <<segment, capital, holdings>>
        /\ book'.matches = book.matches + 1
      BY <1>6, BoughtEffect DEF BuyNatural, Turn, NaturalSupply, Sellers
  <2>2. /\ Total(book.holdings) = Total(holdings) + book.matches
        /\ Total(book.capital) = Total(capital) - book.matches * price
      BY <1>3, <2>1
  <2>3. Total(holdings) \in Int /\ Total(capital) \in Int
      BY <1>0, <1>1
  <2> DEFINE worth == book.matches * price
             more == (book.matches + 1) * price
  <2>4. worth \in Int /\ more = worth + price
    <3> DEFINE m == book.matches
    <3>1. m \in Int /\ price \in Int
        BY <1>0
    <3> HIDE DEF m, price
    <3>2. (m + 1) * price = m * price + price /\ m * price \in Int
        BY <3>1, Distribute, Zenon
    <3> QED
        BY <3>2 DEF m
  <2>5. /\ Total(book'.holdings) = Total(book.holdings) + 1
        /\ Total(book'.capital) = Total(book.capital) + -price
        /\ Total(book.capital) = Total(capital) - worth
      BY <1>5, <2>1, <2>2
  <2> HIDE DEF worth, more
  <2>6. /\ Total(book'.holdings) = Total(holdings) + (book.matches + 1)
        /\ Total(book'.capital) = Total(capital) - more
      BY <1>0, <2>2, <2>3, <2>4, <2>5
  <2> QED
      BY <2>1, <2>6 DEF more
<1>7. CASE Trade
  <2> DEFINE s == First(book.sellers)
  <2>1. /\ Turn /\ Affords /\ stage = "match" /\ book' = Sold(Bought, s)
        /\ s \in book.sellers /\ s \in Participants
        /\ UNCHANGED <<segment, capital, holdings, actions>>
      BY <1>0, <1>7, FirstLeast DEF Trade, Turn, Stocked, Books
  <2>2. ~NaturalSupply /\ ~NaturalSupply'
      BY <2>1 DEF NaturalSupply, Sellers, Loop, Ordered
  <2> HIDE DEF s
  <2>3. /\ book'.capital = Add(Bought.capital, s, price)
        /\ book'.holdings = Add(Bought.holdings, s, -1)
      BY <1>5, <2>1, SoldEffect
  <2>4. /\ Total(book'.capital) = Total(Bought.capital) + price
        /\ Total(book'.holdings) = Total(Bought.holdings) + -1
      BY SMTT(30), <1>0, <1>5, <2>1, <2>3, TotalOfAdd
  <2>5. /\ Total(book.holdings) = Total(holdings) + 0
        /\ Total(book.capital) = Total(capital) - 0 * price
      BY <1>3, <2>1, <2>2
  <2>6. Total(holdings) \in Int /\ Total(capital) \in Int
      BY <1>0, <1>1
  <2> QED
      BY <1>0, <1>5, <2>1, <2>2, <2>4, <2>5, <2>6
<1>8. CASE UNCHANGED vars
    BY <1>3, <1>8 DEF vars, NaturalSupply, Sellers
<1> QED
    BY <1>2, <1>4, <1>6, <1>7, <1>8, NoBook

\* Whoever trades with whom, the participants together lose no money and no
\* unit as long as somebody offers to sell; when nobody does, each match
\* brings in one unit and takes out its price.
THEOREM AlwaysConserved == Spec => []Conserved
<1>1. Init => Conserved
    BY DEF Init, Conserved
<1>2. TypeOK /\ Loop /\ Conserved /\ [Next]_vars => Conserved'
    BY ConservedStep
<1> QED
    BY <1>1, <1>2, LoopHolds, PTL DEF Spec
==============================================================================
