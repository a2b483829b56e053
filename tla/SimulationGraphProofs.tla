------------------------ MODULE SimulationGraphProofs ------------------------
(***************************************************************************)
(* Proofs about SimulationGraph, for any builds, seeds, answers of the     *)
(* model and number of invocations.  Six invariants, each preserved by     *)
(* every node with the help of those before it:                            *)
(*   Loop       types, what each node may count on, and the rounds of the  *)
(*              log: how many, and which of them traded nothing;           *)
(*   Evidenced  what the evidence store holds of this run, and when;       *)
(*   Gated      the claims of the run are sound, so that gate and renderer *)
(*              let all of them pass;                                      *)
(*   Prepared   what the log holds when, and that the plan it tells of can *)
(*              be simulated over the snapshot;                            *)
(*   Mirrored   the log replays to the state of the graph, or raises;      *)
(*   Limits     who sets the limit of rounds, which bounds the nodes an    *)
(*              invocation has left.                                       *)
(***************************************************************************)
EXTENDS SimulationGraph, SequenceFacts

-----------------------------------------------------------------------------
(* sorted(S)                                                               *)

Sorts(s, S) ==
  s \in [1..Cardinality(S) -> S] /\ \A i, j \in DOMAIN s : i < j => s[i] < s[j]

LEMMA Sortable ==
  ASSUME NEW S \in SUBSET Nat, IsFiniteSet(S) PROVE \E s : Sorts(s, S)
<1> DEFINE T == {n \in Nat : \A R \in SUBSET Nat :
                   IsFiniteSet(R) /\ Cardinality(R) = n => \E s : Sorts(s, R)}
<1>1. 0 \in T
  <2> SUFFICES ASSUME NEW R \in SUBSET Nat, IsFiniteSet(R), Cardinality(R) = 0
               PROVE  \E s : Sorts(s, R)
      OBVIOUS
  <2> DEFINE s == [i \in 1..0 |-> i]
  <2>1. Sorts(s, R)
      BY DEF Sorts
  <2> QED
      BY <2>1
<1>2. ASSUME NEW n \in Nat, n \in T PROVE n + 1 \in T
  <2> SUFFICES ASSUME NEW R \in SUBSET Nat, IsFiniteSet(R), Cardinality(R) = n + 1
               PROVE  \E s : Sorts(s, R)
      OBVIOUS
  <2>1. R # {}
      BY FS_EmptySet
  <2>2. PICK m \in R : \A k \in R : <<k, m>> \notin Below
      BY <2>1, BelowWellFounded, WFMin
  <2>3. \A k \in R \ {m} : m < k
    <3> SUFFICES ASSUME NEW k \in R \ {m} PROVE m < k
        OBVIOUS
    <3>1. <<k, m>> \in Nat \X Nat /\ ~(<<k, m>>[1] < <<k, m>>[2])
        BY <2>2 DEF Below
    <3> QED
        BY <3>1
  <2> DEFINE Q == R \ {m}
  <2>4. IsFiniteSet(Q) /\ Cardinality(Q) = n
    <3>1. IsFiniteSet(Q) /\ Cardinality(Q) = Cardinality(R) - 1
        BY FS_RemoveElement
    <3> HIDE DEF Q
    <3> QED
        BY <3>1
  <2>5. PICK s : Sorts(s, Q)
      BY <1>2, <2>4
  <2>6. s \in [1..n -> Q] /\ \A i, j \in 1..n : i < j => s[i] < s[j]
      BY <2>4, <2>5 DEF Sorts
  <2> DEFINE t == [i \in 1..(n + 1) |-> IF i = 1 THEN m ELSE s[i - 1]]
  <2>7. \A i \in 1..(n + 1) : i = 1 \/ (i - 1 \in 1..n /\ t[i] = s[i - 1])
      OBVIOUS
  <2>8. t \in [1..(n + 1) -> R]
      BY <2>6, <2>7
  <2>9. ASSUME NEW i \in 1..(n + 1), NEW j \in 1..(n + 1), i < j PROVE t[i] < t[j]
    <3>1. j - 1 \in 1..n /\ t[j] = s[j - 1] /\ s[j - 1] \in Q
        BY <2>6, <2>7, <2>9
    <3>2. CASE i = 1
        BY <2>3, <3>1, <3>2
    <3>3. CASE i # 1
      <4>1. i - 1 \in 1..n /\ t[i] = s[i - 1] /\ i - 1 < j - 1
          BY <2>7, <2>9, <3>3
      <4> QED
          BY <2>6, <3>1, <4>1
    <3> QED
        BY <3>2, <3>3
  <2> HIDE DEF t
  <2>10. Sorts(t, R)
      BY <2>8, <2>9 DEF Sorts
  <2> QED
      BY <2>10
<1>3. Nat \subseteq T
  <2> HIDE DEF T
  <2> QED
      BY <1>1, <1>2, NatInductive
<1>4. Cardinality(S) \in Nat
    BY FS_CardinalityType
<1> QED
    BY <1>3, <1>4

LEMMA AscendingEnumerates ==
  ASSUME NEW S \in SUBSET Nat, IsFiniteSet(S) PROVE Enumerates(Ascending(S), S)
<1> DEFINE s == Ascending(S)
<1>1. Sorts(s, S)
    BY Sortable DEF Sorts, Ascending
<1>2. \A i, j \in DOMAIN s : s[i] \in Nat /\ i \in Nat /\ j \in Nat /\ (i < j => s[i] < s[j])
  <2> DEFINE n == Cardinality(S)
  <2>1. n \in Nat
      BY FS_CardinalityType
  <2> HIDE DEF s
  <2>2. s \in [1..n -> S] /\ \A i, j \in DOMAIN s : i < j => s[i] < s[j]
      BY <1>1 DEF Sorts
  <2> HIDE DEF n
  <2>3. DOMAIN s = 1..n /\ \A i \in DOMAIN s : s[i] \in Nat
      BY <2>2
  <2>4. \A i \in DOMAIN s : i \in Nat
      BY <2>1, <2>3
  <2> QED
      BY <2>2, <2>3, <2>4
<1>3. IsInjective(s)
  <2> HIDE DEF s
  <2> SUFFICES ASSUME NEW i \in DOMAIN s, NEW j \in DOMAIN s, s[i] = s[j] PROVE i = j
      BY DEF IsInjective
  <2>1. ~(i < j) /\ ~(j < i)
      BY <1>2
  <2> QED
      BY <1>2, <2>1
<1> QED
    BY <1>1, <1>3, InjectionEnumerates DEF Sorts

-----------------------------------------------------------------------------
(* What the planning nodes compute.                                        *)

LEMMA OptionalFacts ==
  ASSUME NEW S, Optional(S)
  PROVE  /\ IsFiniteSet(S) /\ Cardinality(S) <= 1
         /\ S # {} => The(S) \in S /\ S = {The(S)}
<1>1. CASE S = {}
    BY <1>1, FS_EmptySet
<1>2. ASSUME NEW x \in S PROVE IsFiniteSet(S) /\ Cardinality(S) <= 1 /\ S = {x}
  <2>1. S = {x}
      BY DEF Optional
  <2>2. IsFiniteSet({x}) /\ Cardinality({x}) = 1
      BY FS_Singleton
  <2>3. Cardinality(S) = 1
      BY <2>1, <2>2
  <2> QED
      BY <2>1, <2>2, <2>3
<1>3. S # {} => The(S) \in S
    BY DEF The
<1> QED
    BY <1>1, <1>2, <1>3

LEMMA WithinElements ==
  ASSUME NEW T, NEW s \in Seq(T), NEW S
  PROVE  Within(s, S) \in Seq(T) /\ ToSet(Within(s, S)) = ToSet(s) \cap S
<1> DEFINE q == [i \in DOMAIN s |-> IF s[i] \in S THEN <<s[i]>> ELSE <<>>]
<1>1. \A i \in DOMAIN s : s[i] \in T /\ q[i] \in Seq(T)
    OBVIOUS
<1>2. DOMAIN q = DOMAIN s /\ DOMAIN s = 1..Len(s) /\ Len(s) \in Nat
    OBVIOUS
<1>3. \A i \in DOMAIN s : ToSet(q[i]) = {s[i]} \cap S
    BY DEF ToSet
<1>4. Within(s, S) = FlattenSeq(q)
    BY DEF Within
<1>5. q \in [1..Len(s) -> Seq(T)]
    BY <1>1, <1>2
<1> HIDE DEF q
<1>6. q \in Seq(Seq(T))
    BY <1>2, <1>5
<1>7. FlattenSeq(q) \in Seq(T) /\ ToSet(FlattenSeq(q)) = UNION {ToSet(q[i]) : i \in DOMAIN q}
    BY <1>6, FlattenElements
<1>8. UNION {ToSet(q[i]) : i \in DOMAIN q} = UNION {{s[i]} \cap S : i \in DOMAIN s}
    BY <1>2, <1>3
<1>9. ToSet(s) \cap S = UNION {{s[i]} \cap S : i \in DOMAIN s}
    BY DEF ToSet
<1> QED
    BY <1>4, <1>7, <1>8, <1>9

LEMMA EmptySequence ==
  ASSUME NEW T, NEW s \in Seq(T) PROVE s = <<>> <=> ToSet(s) = {}
<1>1. s # <<>> => 1 \in DOMAIN s
    OBVIOUS
<1> QED
    BY <1>1 DEF ToSet

LEMMA YearAndMonth ==
  ASSUME NEW k \in Nat, NEW q \in Int, NEW r \in Int, q = k \div 12, r = k % 12
  PROVE  k = 12 * q + r
  OBVIOUS

LEMMA MonthsAdd ==
  ASSUME NEW month \in Months, NEW n \in Int, Index(month) + n >= 0
  PROVE  AddMonths(month, n) \in Months /\ Index(AddMonths(month, n)) = Index(month) + n
<1> DEFINE k == Index(month) + n
<1>1. k \in Nat
    BY DEF Months, Index
<1> HIDE DEF k
<1> DEFINE q == k \div 12
           r == k % 12
<1>2. q \in Nat /\ r \in 0..11 /\ k = 12 * q + r
  <2>1. q \in Int /\ q >= 0 /\ r \in 0..11
      BY <1>1
  <2> QED
      BY <1>1, <2>1, YearAndMonth
<1>3. AddMonths(month, n) = <<q, r + 1>>
    BY DEF AddMonths, k
<1> HIDE DEF q, r
<1>4. r + 1 \in 1..12
    BY <1>2
<1>5. Index(<<q, r + 1>>) = k
    BY <1>2 DEF Index
<1> QED
    BY <1>2, <1>3, <1>4, <1>5 DEF Months, k

LEMMA IndexNat == \A month \in Months : Index(month) \in Nat
  BY DEF Months, Index

LEMMA IndexInjective == \A a, b \in Months : Index(a) = Index(b) => a = b
<1> SUFFICES ASSUME NEW a \in Months, NEW b \in Months, Index(a) = Index(b) PROVE a = b
    OBVIOUS
<1>1. /\ a = <<a[1], a[2]>> /\ b = <<b[1], b[2]>> /\ a[1] \in Nat /\ b[1] \in Nat
      /\ a[2] \in 1..12 /\ b[2] \in 1..12
    BY DEF Months
<1>2. 12 * a[1] + a[2] = 12 * b[1] + b[2]
    BY <1>1 DEF Index
<1>3. a[1] = b[1] /\ a[2] = b[2]
    BY <1>1, <1>2, SMTT(30)
<1> QED
    BY <1>1, <1>3

LEMMA RowTypes ==
  ASSUME NEW rows \in Seq(GoldRows) \ {<<>>}
  PROVE  /\ Len(rows) \in Nat /\ Len(rows) \in 1..Len(rows) /\ DOMAIN rows = 1..Len(rows)
         /\ \A i \in DOMAIN rows : rows[i].gu \in Nat /\ rows[i].period \in Months
<1>1. ASSUME NEW row \in GoldRows PROVE row.gu \in Nat /\ row.period \in Months
    BY DEF GoldRows
<1>2. \A i \in DOMAIN rows : rows[i] \in GoldRows
    OBVIOUS
<1> QED
    BY <1>1, <1>2

\* Some row is of the newest month.
LEMMA NewestRow ==
  ASSUME NEW rows \in Seq(GoldRows) \ {<<>>}
  PROVE  \E i \in DOMAIN rows : \A j \in DOMAIN rows : ~Later(rows[j].period, rows[i].period)
<1> DEFINE at(i) == Index(rows[i].period)
           T == {n \in Nat : n \in 1..Len(rows) => \E i \in 1..n : \A j \in 1..n : at(j) <= at(i)}
<1>1. Len(rows) \in Nat /\ Len(rows) \in 1..Len(rows) /\ DOMAIN rows = 1..Len(rows)
    BY RowTypes
<1>2. \A i \in 1..Len(rows) : at(i) \in Nat
    BY <1>1, RowTypes, IndexNat
<1> HIDE DEF at
<1>3. 0 \in T
    OBVIOUS
<1>4. ASSUME NEW n \in Nat, n \in T PROVE n + 1 \in T
  <2> SUFFICES ASSUME n + 1 \in 1..Len(rows)
               PROVE  \E i \in 1..(n + 1) : \A j \in 1..(n + 1) : at(j) <= at(i)
      OBVIOUS
  <2>1. \A j \in 1..(n + 1) : j \in 1..n \/ j = n + 1
      OBVIOUS
  <2>2. CASE n = 0
      BY <1>2, <2>1, <2>2
  <2>3. CASE n # 0
    <3>1. PICK i \in 1..n : \A j \in 1..n : at(j) <= at(i)
        BY <1>4, <2>3
    <3>2. i \in 1..(n + 1) /\ i \in 1..Len(rows) /\ \A j \in 1..n : j \in 1..Len(rows)
        BY <1>1
    <3>3. CASE at(n + 1) <= at(i)
        BY <2>1, <3>1, <3>2, <3>3
    <3>4. CASE ~(at(n + 1) <= at(i))
      <4>1. \A j \in 1..(n + 1) : at(j) <= at(n + 1)
          BY <1>2, <2>1, <3>1, <3>2, <3>4
      <4> QED
          BY <4>1
    <3> QED
        BY <3>3, <3>4
  <2> QED
      BY <2>2, <2>3
<1>5. Nat \subseteq T
  <2> HIDE DEF T
  <2> QED
      BY <1>3, <1>4, NatInductive
<1>6. PICK i \in 1..Len(rows) : \A j \in 1..Len(rows) : at(j) <= at(i)
    BY <1>1, <1>5
<1>7. \A j \in 1..Len(rows) : ~(at(j) > at(i))
    BY <1>2, <1>6
<1> QED
    BY <1>1, <1>7 DEF Later, at

\* get_coverage returns the districts of the rows and their newest month.
Covers(coverage, rows) ==
  /\ coverage.gus \in Seq(Nat) \ {<<>>} /\ ToSet(coverage.gus) = Codes(rows)
  /\ coverage.max_period \in Months
  /\ \A i \in DOMAIN rows : ~Later(rows[i].period, coverage.max_period)

LEMMA CoverageCovers ==
  ASSUME NEW rows \in Seq(GoldRows) \ {<<>>} PROVE Covers(Coverage(rows), rows)
<1>1. Codes(rows) \in SUBSET Nat /\ Codes(rows) # {}
  <2>1. Len(rows) \in DOMAIN rows /\ \A i \in DOMAIN rows : rows[i].gu \in Nat
      BY RowTypes
  <2> QED
      BY <2>1 DEF Codes
<1>2. IsFiniteSet(Codes(rows))
  <2>1. IsFiniteSet(DOMAIN rows)
    <3>1. DOMAIN rows = 1..Len(rows) /\ Len(rows) \in Nat
        OBVIOUS
    <3> QED
        BY <3>1, FS_Interval
  <2> DEFINE f == [i \in DOMAIN rows |-> rows[i].gu]
  <2>2. DOMAIN f = DOMAIN rows /\ Codes(rows) = {f[i] : i \in DOMAIN f}
      BY DEF Codes
  <2> HIDE DEF f
  <2> QED
      BY <2>1, <2>2, RangeFinite
<1>3. Enumerates(Ascending(Codes(rows)), Codes(rows))
    BY <1>1, <1>2, AscendingEnumerates
<1>4. Ascending(Codes(rows)) \in Seq(Nat) \ {<<>>} /\ ToSet(Ascending(Codes(rows))) = Codes(rows)
  <2>1. Ascending(Codes(rows)) \in Seq(Nat)
      BY <1>1, <1>3, SeqMonotonic DEF Enumerates
  <2> QED
      BY <1>1, <1>3, <2>1, EmptySequence DEF Enumerates
<1> DEFINE newest(i) == i \in DOMAIN rows
                        /\ \A j \in DOMAIN rows : ~Later(rows[j].period, rows[i].period)
           k == CHOOSE i \in DOMAIN rows :
                  \A j \in DOMAIN rows : ~Later(rows[j].period, rows[i].period)
<1>5. newest(k)
    BY NewestRow
<1>6. Coverage(rows).gus = Ascending(Codes(rows)) /\ Coverage(rows).max_period = rows[k].period
    BY DEF Coverage
<1> HIDE DEF k
<1>7. rows[k].period \in Months
    BY <1>5, RowTypes
<1> QED
    BY <1>4, <1>5, <1>6, <1>7 DEF Covers

\* resolve_gu_codes returns available districts, at least one of them.
LEMMA ResolvedGus ==
  ASSUME NEW hint, NEW available \in Seq(Nat) \ {<<>>}
  PROVE  LET gus == ResolveGus(hint, available).gus
         IN  gus \in Seq(Nat) \ {<<>>} /\ ToSet(gus) \subseteq ToSet(available)
<1> DEFINE mentioned == Within(available, hint.gus)
<1>1. mentioned \in Seq(Nat) /\ ToSet(mentioned) \subseteq ToSet(available)
    BY WithinElements
<1>2. ResolveGus(hint, available).gus = available
        \/ (mentioned # <<>> /\ ResolveGus(hint, available).gus = mentioned)
    BY DEF ResolveGus
<1> HIDE DEF mentioned
<1> QED
    BY <1>1, <1>2

\* normalize_selected_shocks returns supported keys, none of them twice.
LEMMA NormalizedShocks ==
  ASSUME NEW raws \in Seq([spelling : {"key", "alias", "other"}, key : STRING])
  PROVE  /\ NormalizeSelectedShocks(raws) \in Seq(SupportedShockKeys)
         /\ IsInjective(NormalizeSelectedShocks(raws))
<1> DEFINE new(i) == NormalizeShockKey(raws[i])
                       \ UNION {NormalizeShockKey(raws[j]) : j \in 1..(i - 1)}
           q == [i \in DOMAIN raws |-> SetToSeq(new(i))]
<1>1. DOMAIN raws = 1..Len(raws) /\ Len(raws) \in Nat
    OBVIOUS
<1>2. ASSUME NEW i \in DOMAIN raws
      PROVE  new(i) \subseteq NormalizeShockKey(raws[i]) /\ (\A x, y \in new(i) : x = y)
             /\ new(i) \subseteq SupportedShockKeys
    BY DEF NormalizeShockKey
<1>3. ASSUME NEW i \in DOMAIN raws, NEW j \in DOMAIN raws, i < j PROVE new(i) \cap new(j) = {}
  <2>1. i \in 1..(j - 1)
      BY <1>1, <1>3
  <2> QED
      BY <1>2, <2>1
<1>4. ASSUME NEW i \in DOMAIN raws
      PROVE  /\ SetToSeq(new(i)) \in Seq(SupportedShockKeys) /\ IsInjective(SetToSeq(new(i)))
             /\ ToSet(SetToSeq(new(i))) = new(i)
  <2> DEFINE S == new(i)
  <2>1. Optional(S) /\ S \subseteq SupportedShockKeys
      BY <1>2 DEF Optional
  <2> HIDE DEF S
  <2>2. IsFiniteSet(S)
      BY <2>1, OptionalFacts
  <2>3. Enumerates(SetToSeq(S), S)
      BY <2>2, SetToSeqEnumerates
  <2>4. SetToSeq(S) \in Seq(SupportedShockKeys)
      BY <2>1, <2>3, SeqMonotonic DEF Enumerates
  <2> QED
      BY <2>3, <2>4 DEF Enumerates, S
<1>5. NormalizeSelectedShocks(raws) = FlattenSeq(q) /\ DOMAIN q = DOMAIN raws
    BY DEF NormalizeSelectedShocks
<1>6. \A i \in DOMAIN raws : q[i] = SetToSeq(new(i))
    OBVIOUS
<1> HIDE DEF new
<1>7. q \in [1..Len(raws) -> Seq(SupportedShockKeys)]
    BY <1>1, <1>4
<1> HIDE DEF q
<1>8. q \in Seq(Seq(SupportedShockKeys))
    BY <1>1, <1>7
<1>9. \A i \in DOMAIN q : IsInjective(q[i]) /\ ToSet(q[i]) = new(i)
    BY <1>4, <1>5, <1>6
<1>10. \A i, j \in DOMAIN q : i # j => ToSet(q[i]) \cap ToSet(q[j]) = {}
  <2> SUFFICES ASSUME NEW i \in DOMAIN raws, NEW j \in DOMAIN raws, i # j
               PROVE  new(i) \cap new(j) = {}
      BY <1>5, <1>9
  <2>1. i < j \/ j < i
      BY <1>1
  <2> QED
      BY <1>3, <2>1
<1>11. FlattenSeq(q) \in Seq(SupportedShockKeys) /\ IsInjective(FlattenSeq(q))
    BY <1>8, <1>9, <1>10, FlattenInjective
<1> QED
    BY <1>5, <1>11

LEMMA SelectedShocks ==
  ASSUME NEW raws \in Seq([spelling : {"key", "alias", "other"}, key : STRING]), NEW mode
  PROVE  /\ SelectShocks(raws, mode).keys \in Seq(SupportedShockKeys)
         /\ IsInjective(SelectShocks(raws, mode).keys)
         /\ mode = "stress" => SelectShocks(raws, mode).keys # <<>>
<1> DEFINE keys == NormalizeSelectedShocks(raws)
<1>1. keys \in Seq(SupportedShockKeys) /\ IsInjective(keys)
    BY NormalizedShocks
<1>2. CASE mode = "stress" /\ keys = <<>>
  <2>1. SelectShocks(raws, mode).keys = <<"sentiment_drop">>
      BY <1>2 DEF SelectShocks
  <2>2. "sentiment_drop" \in SupportedShockKeys
      BY DEF SupportedShockKeys
  <2>3. /\ <<"sentiment_drop">> \in Seq(SupportedShockKeys) /\ <<"sentiment_drop">> # <<>>
        /\ \A i \in DOMAIN <<"sentiment_drop">> : i = 1
      BY <2>2
  <2>4. IsInjective(<<"sentiment_drop">>)
      BY <2>3 DEF IsInjective
  <2> QED
      BY <2>1, <2>3, <2>4
<1>3. CASE ~(mode = "stress" /\ keys = <<>>)
  <2>1. SelectShocks(raws, mode).keys = keys
      BY <1>3 DEF SelectShocks
  <2> QED
      BY <1>1, <1>3, <2>1
<1> QED
    BY <1>2, <1>3

LEMMA RoundsInRange ==
  ASSUME NEW horizon \in Nat, NEW shocks \in Nat, NEW mode
  PROVE  ComputeMaxRounds(horizon, shocks, mode) \in 1..8
<1> DEFINE n == (horizon + 2) \div 3 + (IF shocks >= 2 THEN 1 ELSE 0)
                                     + (IF mode \in {"stress", "compare"} THEN 1 ELSE 0)
<1>1. n \in Int
  <2>1. (horizon + 2) \div 3 \in Int
      OBVIOUS
  <2> QED
      BY <2>1
<1> HIDE DEF n
<1>2. Between(1, n, 8) \in 1..8
    BY <1>1 DEF Between
<1> QED
    BY <1>2 DEF ComputeMaxRounds, n

LEMMA Sanitized ==
  ASSUME NEW raw \in Seq([role : STRING, count : Int, holdings : Int \X Int])
  PROVE  SanitizeRosterBuckets(raw) \in Rosters
<1> DEFINE B == [role : STRING, count : Int, holdings : Int \X Int]
           C == [role : Roles, count : 1..50, holdings : (0..20) \X (0..20)]
           known == Within(raw, {b \in ToSet(raw) : b.role \in Roles})
<1>1. known \in Seq(B) /\ \A b \in ToSet(known) : b.role \in Roles
  <2>1. known \in Seq(B) /\ ToSet(known) = ToSet(raw) \cap {b \in ToSet(raw) : b.role \in Roles}
      BY WithinElements
  <2> QED
      BY <2>1
<1>2. ASSUME NEW b \in B, b.role \in Roles PROVE SanitizeBucket(b) \in C
  <2>1. b.count \in Int /\ b.holdings[1] \in Int /\ b.holdings[2] \in Int
      OBVIOUS
  <2>2. \A n \in Int : Between(0, n, 20) \in 0..20 /\ Between(1, n, 50) \in 1..50
      BY DEF Between
  <2> QED
      BY <1>2, <2>1, <2>2 DEF SanitizeBucket
<1>3. CASE known = <<>>
  <2>1. [role |-> "buyer", count |-> 10, holdings |-> <<0, 2>>] \in C
      BY DEF Roles
  <2>2. SanitizeRosterBuckets(raw) = <<[role |-> "buyer", count |-> 10, holdings |-> <<0, 2>>]>>
      BY <1>3 DEF SanitizeRosterBuckets
  <2> QED
      BY <2>1, <2>2 DEF Rosters
<1>4. CASE known # <<>>
  <2> DEFINE s == [i \in DOMAIN known |-> SanitizeBucket(known[i])]
  <2>1. SanitizeRosterBuckets(raw) = s
      BY <1>4 DEF SanitizeRosterBuckets
  <2> HIDE DEF known
  <2>2. \A i \in DOMAIN known : known[i] \in B /\ known[i].role \in Roles
    <3>1. \A i \in DOMAIN known : known[i] \in ToSet(known)
        BY DEF ToSet
    <3>2. \A i \in DOMAIN known : known[i] \in B
      <4> HIDE DEF B
      <4> QED
          BY <1>1
    <3> QED
        BY <1>1, <3>1, <3>2
  <2>3. DOMAIN known = 1..Len(known) /\ Len(known) \in Nat /\ Len(known) # 0
      BY <1>1, <1>4
  <2>4. s \in [1..Len(known) -> C]
    <3> HIDE DEF B, C
    <3> QED
        BY <1>2, <2>2, <2>3
  <2> HIDE DEF s, C
  <2>5. s \in Seq(C) /\ s # <<>>
      BY <2>3, <2>4, SMTT(30)
  <2> QED
      BY <2>1, <2>5 DEF Rosters, C
<1> QED
    BY <1>3, <1>4

\* What a plan, a selection and a snapshot come to.
Built(built, coverage, mode) ==
  /\ built.scenario \in Scenarios /\ built.roster \in Rosters /\ built.max_rounds \in 1..8
  /\ ToSet(built.scenario.gus) \subseteq ToSet(coverage.gus)
  /\ built.scenario.start = AddMonths(coverage.max_period, 1)
  /\ Index(built.scenario.start) = Index(coverage.max_period) + 1
  /\ Index(built.scenario.end) >= Index(built.scenario.start)
  /\ IsInjective(built.scenario.shocks)
  /\ ToSet(built.scenario.shocks) \subseteq SupportedShockKeys
  /\ mode = "stress" => built.scenario.shocks # <<>>

LEMMA ScenarioBuilt ==
  ASSUME NEW p \in IntakePlans, NEW selection \in ScenarioSelections, NEW rows, NEW coverage,
         Covers(coverage, rows)
  PROVE  Built(BuildScenario(p, selection, coverage), coverage, p.mode)
<1> DEFINE gus == ResolveGus(p.hint, coverage.gus).gus
           keys == SelectShocks(selection.shocks, p.mode).keys
           start == AddMonths(coverage.max_period, 1)
           end == AddMonths(start, p.horizon - 1)
           built == BuildScenario(p, selection, coverage)
<1>1. /\ built.scenario = [gus |-> gus, start |-> start, end |-> end, shocks |-> keys]
      /\ built.roster = SanitizeRosterBuckets(selection.buckets)
      /\ built.max_rounds = ComputeMaxRounds(p.horizon, Len(keys), p.mode)
    BY DEF BuildScenario
<1>2. p.horizon \in 1..120
    BY DEF IntakePlans
<1>3. /\ selection.shocks \in Seq([spelling : {"key", "alias", "other"}, key : STRING])
      /\ selection.buckets \in Seq([role : STRING, count : Int, holdings : Int \X Int])
    BY DEF ScenarioSelections
<1>4. gus \in Seq(Nat) \ {<<>>} /\ ToSet(gus) \subseteq ToSet(coverage.gus)
    BY ResolvedGus DEF Covers
<1>5. /\ keys \in Seq(SupportedShockKeys) /\ IsInjective(keys)
      /\ p.mode = "stress" => keys # <<>>
    BY <1>3, SelectedShocks
<1>6. start \in Months /\ Index(start) = Index(coverage.max_period) + 1
  <2>1. coverage.max_period \in Months /\ Index(coverage.max_period) \in Nat
      BY IndexNat DEF Covers
  <2>2. Index(coverage.max_period) + 1 >= 0
      BY <2>1
  <2> QED
      BY <2>1, <2>2, MonthsAdd
<1> HIDE DEF gus, keys, start
<1>7. end \in Months /\ Index(end) >= Index(start)
  <2> DEFINE n == p.horizon - 1
  <2>1. n \in Nat
      BY <1>2
  <2>2. Index(start) \in Nat
      BY <1>6, IndexNat
  <2> HIDE DEF n
  <2>3. AddMonths(start, n) \in Months /\ Index(AddMonths(start, n)) = Index(start) + n
      BY <1>6, <2>1, <2>2, MonthsAdd
  <2>4. Index(AddMonths(start, n)) >= Index(start)
      BY <2>1, <2>2, <2>3
  <2> QED
      BY <2>3, <2>4 DEF n
<1> HIDE DEF end
<1>8. built.scenario \in Scenarios /\ ToSet(keys) \subseteq SupportedShockKeys
  <2>1. keys \in Seq(SupportedShockKeys \cup {"other"})
      BY <1>5, SeqMonotonic
  <2>2. ToSet(keys) \subseteq SupportedShockKeys
    <3>1. \A i \in DOMAIN keys : keys[i] \in SupportedShockKeys
        BY <1>5
    <3> QED
        BY <3>1 DEF ToSet
  <2> QED
      BY <1>1, <1>4, <1>6, <1>7, <2>1, <2>2 DEF Scenarios
<1>9. built.roster \in Rosters
    BY <1>1, <1>3, Sanitized
<1>10. built.max_rounds \in 1..8
  <2>1. Len(keys) \in Nat
      BY <1>5
  <2>2. p.horizon \in Nat
      BY <1>2
  <2>3. ComputeMaxRounds(p.horizon, Len(keys), p.mode) \in 1..8
      BY <2>1, <2>2, RoundsInRange
  <2> QED
      BY <1>1, <2>3
<1> HIDE DEF built
<1>11. Built(built, coverage, p.mode)
    BY <1>1, <1>4, <1>5, <1>6, <1>7, <1>8, <1>9, <1>10 DEF Built, start
<1> QED
    BY <1>11 DEF built

\* Partial sums.
LEMMA SumsDefined ==
  ASSUME NEW N \in Nat, NEW d \in [1..N -> Nat]
  PROVE  \E f \in [0..N -> Nat] : f = [n \in 0..N |-> IF n = 0 THEN 0 ELSE f[n - 1] + d[n]]
<1> DEFINE Sums(f, k) == f = [n \in 0..k |-> IF n = 0 THEN 0 ELSE f[n - 1] + d[n]]
           Has(k) == \E f \in [0..k -> Nat] : Sums(f, k)
           T == {k \in Nat : k <= N => Has(k)}
<1>1. 0 \in T
  <2> DEFINE f == [n \in 0..0 |-> 0]
  <2>1. f \in [0..0 -> Nat] /\ Sums(f, 0)
      OBVIOUS
  <2> QED
      BY <2>1
<1>2. ASSUME NEW k \in Nat, Has(k), k + 1 <= N PROVE Has(k + 1)
  <2>1. PICK f \in [0..k -> Nat] : Sums(f, k)
      BY <1>2
  <2> DEFINE g == [n \in 0..(k + 1) |-> IF n = 0 THEN 0 ELSE f[n - 1] + d[n]]
  <2>2. \A n \in 0..(k + 1) : n # 0 => n - 1 \in 0..k /\ n \in 1..N
      BY <1>2
  <2>3. \A n \in 0..k : g[n] = f[n]
    <3>1. \A n \in 0..k : f[n] = IF n = 0 THEN 0 ELSE f[n - 1] + d[n]
        BY <2>1, Zenon
    <3>2. \A n \in 0..k : n \in 0..(k + 1)
        OBVIOUS
    <3>3. \A n \in 0..(k + 1) : g[n] = IF n = 0 THEN 0 ELSE f[n - 1] + d[n]
        OBVIOUS
    <3> HIDE DEF g
    <3> QED
        BY <3>1, <3>2, <3>3, Zenon
  <2>4. g \in [0..(k + 1) -> Nat]
    <3>1. \A n \in 0..(k + 1) : n # 0 => f[n - 1] \in Nat /\ d[n] \in Nat
        BY <2>2
    <3> QED
        BY <3>1
  <2>5. \A n \in 0..(k + 1) : n # 0 => g[n - 1] = f[n - 1]
      BY <2>2, <2>3
  <2>6. Sums(g, k + 1)
      BY <2>5
  <2> QED
      BY <2>4, <2>6
<1> HIDE DEF Has
<1>3. ASSUME NEW k \in Nat, k \in T PROVE k + 1 \in T
    BY <1>2, <1>3
<1>4. Nat \subseteq T
  <2> HIDE DEF T
  <2> QED
      BY <1>1, <1>3, NatInductive
<1>5. Has(N)
    BY <1>4
<1> QED
    BY <1>5 DEF Has

LEMMA BucketTypes ==
  ASSUME NEW buckets \in Rosters
  PROVE  /\ Len(buckets) \in Nat /\ Len(buckets) \in 1..Len(buckets) /\ DOMAIN buckets = 1..Len(buckets)
         /\ \A i \in DOMAIN buckets : buckets[i].role \in Roles /\ buckets[i].count \in 1..50
<1> DEFINE C == [role : Roles, count : 1..50, holdings : (0..20) \X (0..20)]
<1>1. \A b \in C : b.role \in Roles /\ b.count \in 1..50
    OBVIOUS
<1>2. buckets \in Seq(C) \ {<<>>}
    BY DEF Rosters
<1> HIDE DEF C
<1> QED
    BY <1>1, <1>2

LEMMA HeadCounts ==
  ASSUME NEW buckets \in Rosters
  PROVE  /\ HeadCount(buckets)[0] = 0
         /\ \A n \in 1..Len(buckets) :
              /\ HeadCount(buckets)[n - 1] \in Nat
              /\ HeadCount(buckets)[n] = HeadCount(buckets)[n - 1] + buckets[n].count
<1> DEFINE N == Len(buckets)
           d == [n \in 1..N |-> buckets[n].count]
           Counts(f) == f = [n \in 0..N |-> IF n = 0 THEN 0 ELSE f[n - 1] + buckets[n].count]
<1>1. N \in Nat /\ \A n \in 1..N : buckets[n].count \in Nat
  <2>1. \A k \in 1..50 : k \in Nat
      OBVIOUS
  <2> QED
      BY <2>1, BucketTypes
<1>2. d \in [1..N -> Nat] /\ \A n \in 1..N : d[n] = buckets[n].count
    BY <1>1
<1> HIDE DEF d, N
<1>3. PICK f \in [0..N -> Nat] : f = [n \in 0..N |-> IF n = 0 THEN 0 ELSE f[n - 1] + d[n]]
    BY <1>1, <1>2, SumsDefined
<1>4. \A n \in 0..N : n # 0 => n \in 1..N /\ n - 1 \in 0..N
    BY <1>1
<1>5. Counts(f)
    BY <1>2, <1>3, <1>4
<1>6. HeadCount(buckets) = CHOOSE g : Counts(g)
    BY DEF HeadCount, N
<1> DEFINE h == HeadCount(buckets)
<1>7. Counts(h)
    BY <1>5, <1>6
<1> HIDE DEF h
<1>8. \A n \in 0..N : h[n] = IF n = 0 THEN 0 ELSE h[n - 1] + buckets[n].count
    BY <1>7, Zenon
<1> DEFINE T == {n \in Nat : n \in 0..N => h[n] \in Nat}
<1>9. 0 \in T
    BY <1>1, <1>8
<1>10. ASSUME NEW n \in Nat, n \in T PROVE n + 1 \in T
  <2> SUFFICES ASSUME n + 1 \in 0..N PROVE h[n + 1] \in Nat
      OBVIOUS
  <2>1. n \in 0..N /\ n + 1 # 0 /\ (n + 1) - 1 = n /\ n + 1 \in 1..N
      BY <1>1
  <2>2. h[n] \in Nat
      BY <1>10, <2>1
  <2>3. h[n + 1] = h[n] + buckets[n + 1].count
      BY <1>8, <2>1
  <2> QED
      BY <1>1, <2>1, <2>2, <2>3
<1>11. Nat \subseteq T
  <2> HIDE DEF T
  <2> QED
      BY <1>9, <1>10, NatInductive
<1>12. h[0] = 0
    BY <1>1, <1>8
<1>13. ASSUME NEW n \in 1..N PROVE h[n - 1] \in Nat /\ h[n] = h[n - 1] + buckets[n].count
  <2>1. n - 1 \in Nat /\ n - 1 \in 0..N /\ n \in 0..N /\ n # 0
      BY <1>1
  <2> QED
      BY <1>8, <1>11, <2>1
<1> QED
    BY <1>12, <1>13 DEF h, N

\* The numbers of a role go on from bucket to bucket.
LEMMA CountsBefore ==
  ASSUME NEW buckets \in Rosters
  PROVE  /\ \A i \in DOMAIN buckets : CountBefore(buckets, i) \in Nat
         /\ \A i, j \in DOMAIN buckets : i < j /\ buckets[i].role = buckets[j].role =>
              CountBefore(buckets, i) + buckets[i].count <= CountBefore(buckets, j)
<1> DEFINE N == Len(buckets)
           part(role) == [n \in 1..N |-> IF buckets[n].role = role THEN buckets[n].count ELSE 0]
           Counts(f, role) == f = [n \in 0..N |-> IF n = 0 THEN 0 ELSE f[n - 1]
                                     + (IF buckets[n].role = role THEN buckets[n].count ELSE 0)]
           h(role) == CHOOSE f : Counts(f, role)
<1>1. N \in Nat /\ DOMAIN buckets = 1..N /\ \A n \in 1..N : buckets[n].count \in Nat
  <2>1. \A k \in 1..50 : k \in Nat
      OBVIOUS
  <2> QED
      BY <2>1, BucketTypes
<1>2. \A i \in DOMAIN buckets : CountBefore(buckets, i) = h(buckets[i].role)[i - 1]
    BY DEF CountBefore
<1> HIDE DEF N
<1>3. ASSUME NEW role PROVE Counts(h(role), role)
  <2> DEFINE d == part(role)
  <2>1. d \in [1..N -> Nat]
        /\ \A n \in 1..N : d[n] = IF buckets[n].role = role THEN buckets[n].count ELSE 0
      BY <1>1
  <2> HIDE DEF d
  <2>2. PICK f \in [0..N -> Nat] : f = [n \in 0..N |-> IF n = 0 THEN 0 ELSE f[n - 1] + d[n]]
      BY <1>1, <2>1, SumsDefined
  <2>3. \A n \in 0..N : n # 0 => n \in 1..N /\ n - 1 \in 0..N
      BY <1>1
  <2>4. Counts(f, role)
      BY <2>1, <2>2, <2>3
  <2> QED
      BY <2>4
<1> HIDE DEF h
<1>4. \A role : \A n \in 0..N :
        h(role)[n] = IF n = 0 THEN 0 ELSE h(role)[n - 1]
                       + (IF buckets[n].role = role THEN buckets[n].count ELSE 0)
  <2> TAKE role
  <2> DEFINE f == h(role)
  <2>1. Counts(f, role)
      BY <1>3
  <2> HIDE DEF f
  <2>2. \A n \in 0..N : f[n] = IF n = 0 THEN 0 ELSE f[n - 1]
                               + (IF buckets[n].role = role THEN buckets[n].count ELSE 0)
      BY <2>1, Zenon
  <2> QED
      BY <2>2, Zenon DEF f
<1>5. ASSUME NEW role, NEW i \in 1..N, h(role)[i - 1] \in Nat
      PROVE  /\ h(role)[i] \in Nat /\ h(role)[i - 1] <= h(role)[i]
             /\ buckets[i].role = role => h(role)[i] = h(role)[i - 1] + buckets[i].count
  <2>1. i \in 0..N /\ i # 0
      BY <1>1
  <2>2. h(role)[i] = h(role)[i - 1] + (IF buckets[i].role = role THEN buckets[i].count ELSE 0)
      BY <1>4, <2>1
  <2>3. buckets[i].count \in Nat
      BY <1>1
  <2> QED
      BY <1>5, <2>2, <2>3
<1>6. ASSUME NEW role PROVE \A n \in 0..N : h(role)[n] \in Nat
  <2> DEFINE T == {n \in Nat : n \in 0..N => h(role)[n] \in Nat}
  <2>1. 0 \in T
      BY <1>1, <1>4
  <2>2. ASSUME NEW n \in Nat, n \in T PROVE n + 1 \in T
    <3> SUFFICES ASSUME n + 1 \in 0..N PROVE h(role)[n + 1] \in Nat
        OBVIOUS
    <3>1. n \in 0..N /\ (n + 1) - 1 = n /\ n + 1 \in 1..N
        BY <1>1
    <3>2. h(role)[(n + 1) - 1] \in Nat
        BY <2>2, <3>1
    <3> QED
        BY <1>5, <3>1, <3>2
  <2>3. Nat \subseteq T
    <3> HIDE DEF T
    <3> QED
        BY <2>1, <2>2, NatInductive
  <2> QED
      BY <1>1, <2>3
<1>7. ASSUME NEW role, NEW i \in 0..N PROVE \A n \in i..N : h(role)[i] <= h(role)[n]
  <2> DEFINE T == {n \in Nat : n \in i..N => h(role)[i] <= h(role)[n]}
  <2>0. i \in Nat /\ h(role)[i] \in Nat
      BY <1>1, <1>6
  <2>1. 0 \in T
      BY <2>0
  <2>2. ASSUME NEW n \in Nat, n \in T PROVE n + 1 \in T
    <3> SUFFICES ASSUME n + 1 \in i..N PROVE h(role)[i] <= h(role)[n + 1]
        OBVIOUS
    <3>1. n \in 0..N /\ (n + 1) - 1 = n /\ n + 1 \in 1..N /\ n + 1 \in 0..N
        BY <1>1, <2>0
    <3>2. h(role)[n] \in Nat /\ h(role)[n + 1] \in Nat /\ h(role)[n] <= h(role)[n + 1]
      <4>1. h(role)[n] \in Nat /\ h(role)[n + 1] \in Nat
          BY <1>6, <3>1
      <4>2. h(role)[(n + 1) - 1] \in Nat
          BY <3>1, <4>1
      <4>3. h(role)[(n + 1) - 1] <= h(role)[n + 1]
          BY <1>5, <3>1, <4>2
      <4> QED
          BY <3>1, <4>1, <4>3
    <3>3. CASE n \in i..N
        BY <2>0, <2>2, <3>2, <3>3
    <3>4. CASE n \notin i..N
      <4>1. i = n + 1
          BY <1>1, <2>0, <3>4
      <4> QED
          BY <2>0, <4>1
    <3> QED
        BY <3>3, <3>4
  <2>3. Nat \subseteq T
    <3> HIDE DEF T
    <3> QED
        BY <2>1, <2>2, NatInductive
  <2>4. \A n \in i..N : n \in Nat
      BY <2>0, <1>1
  <2> QED
      BY <2>3, <2>4
<1>8. ASSUME NEW i \in DOMAIN buckets PROVE CountBefore(buckets, i) \in Nat
  <2>1. i - 1 \in 0..N
      BY <1>1
  <2> QED
      BY <1>2, <1>6, <2>1
<1>9. ASSUME NEW i \in DOMAIN buckets, NEW j \in DOMAIN buckets, i < j, buckets[i].role = buckets[j].role
      PROVE  CountBefore(buckets, i) + buckets[i].count <= CountBefore(buckets, j)
  <2> DEFINE role == buckets[j].role
  <2>1. i \in 0..N /\ i \in 1..N /\ i - 1 \in 0..N /\ j - 1 \in i..N
      BY <1>1, <1>9
  <2>2. CountBefore(buckets, i) = h(role)[i - 1] /\ CountBefore(buckets, j) = h(role)[j - 1]
      BY <1>2, <1>9
  <2>3. h(role)[i] = h(role)[i - 1] + buckets[i].count
    <3>1. h(role)[i - 1] \in Nat
        BY <1>6, <2>1
    <3> QED
        BY <1>5, <1>9, <2>1, <3>1
  <2>4. h(role)[i] <= h(role)[j - 1]
      BY <1>7, <2>1
  <2> QED
      BY <2>2, <2>3, <2>4
<1> QED
    BY <1>8, <1>9

\* _build_participants: as many participants as the buckets of the roster count.
LEMMA ParticipantsBuilt ==
  ASSUME NEW buckets \in Rosters
  PROVE  /\ IsFiniteSet(BuildParticipants(buckets)) /\ BuildParticipants(buckets) # {}
         /\ {p[1] : p \in BuildParticipants(buckets)} \subseteq Roles
         /\ Cardinality(BuildParticipants(buckets)) = HeadCount(buckets)[Len(buckets)]
<1> DEFINE N == Len(buckets)
           b(i) == CountBefore(buckets, i)
           block(i) == {<<buckets[i].role, b(i) + n>> : n \in 1..buckets[i].count}
           upto(k) == UNION {block(i) : i \in 1..k}
<1>1. /\ N \in Nat /\ N \in 1..N /\ DOMAIN buckets = 1..N
      /\ \A i \in 1..N : buckets[i].role \in Roles /\ buckets[i].count \in 1..50
    BY BucketTypes
<1>2. \A i \in 1..N : b(i) \in Nat
    BY <1>1, CountsBefore
<1>3. \A i, j \in 1..N : i < j /\ buckets[i].role = buckets[j].role =>
         b(i) + buckets[i].count <= b(j)
    BY <1>1, CountsBefore
<1>4. BuildParticipants(buckets) = upto(N)
    BY <1>1 DEF BuildParticipants
<1> HIDE DEF N, b
<1>5. ASSUME NEW i \in 1..N PROVE IsFiniteSet(block(i)) /\ Cardinality(block(i)) = buckets[i].count
  <2> DEFINE c == buckets[i].count
             f == [n \in 1..c |-> <<buckets[i].role, b(i) + n>>]
             B == block(i)
  <2>1. c \in Nat /\ b(i) \in Nat
    <3>1. \A k \in 1..50 : k \in Nat
        OBVIOUS
    <3> QED
        BY <1>1, <1>2, <3>1
  <2> HIDE DEF c
  <2>2. f \in [1..c -> B] /\ \A x \in B : \E n \in 1..c : f[n] = x
      BY DEF c
  <2>3. \A m, n \in 1..c : f[m] = f[n] => m = n
      BY <2>1
  <2> HIDE DEF f, B
  <2>4. f \in Surjection(1..c, B) /\ f \in Injection(1..c, B)
      BY <2>2, <2>3 DEF Surjection, Injection, IsInjective
  <2>5. IsFiniteSet(1..c) /\ Cardinality(1..c) = c
      BY <2>1, IntervalCount
  <2>6. IsFiniteSet(B) /\ Cardinality(B) = c
      BY <2>4, <2>5, FS_Surjection
  <2> QED
      BY <2>6 DEF B, c
<1>6. ASSUME NEW i \in 1..N, NEW j \in 1..N, i < j PROVE block(i) \cap block(j) = {}
  <2> SUFFICES ASSUME NEW m \in 1..buckets[i].count, NEW n \in 1..buckets[j].count,
                      <<buckets[i].role, b(i) + m>> = <<buckets[j].role, b(j) + n>>
               PROVE  FALSE
      OBVIOUS
  <2>1. buckets[i].role = buckets[j].role /\ b(i) + m = b(j) + n
      OBVIOUS
  <2>2. b(i) + buckets[i].count <= b(j)
      BY <1>3, <1>6, <2>1
  <2>3. b(i) \in Nat /\ b(j) \in Nat /\ buckets[i].count \in Int /\ m \in Int /\ n \in Int
        /\ m <= buckets[i].count /\ n >= 1
    <3>1. buckets[i].count \in 1..50
        BY <1>1
    <3>2. buckets[i].count \in Int
        BY <3>1
    <3> QED
        BY <1>2, <3>2
  <2> QED
      BY <2>1, <2>2, <2>3
<1> DEFINE h(k) == HeadCount(buckets)[k]
           Counted(k) == IsFiniteSet(upto(k)) /\ Cardinality(upto(k)) = h(k)
           T == {k \in Nat : k <= N => Counted(k)}
<1>7. h(0) = 0 /\ \A n \in 1..N : h(n - 1) \in Nat /\ h(n) = h(n - 1) + buckets[n].count
    BY HeadCounts DEF N
<1> HIDE DEF h, block
<1>8. 0 \in T
  <2>1. upto(0) = {}
      OBVIOUS
  <2>2. IsFiniteSet(upto(0)) /\ Cardinality(upto(0)) = 0
      BY <2>1, FS_EmptySet
  <2> QED
      BY <1>7, <2>2
<1>9. ASSUME NEW k \in Nat, k \in T PROVE k + 1 \in T
  <2> SUFFICES ASSUME k + 1 <= N PROVE Counted(k + 1)
      OBVIOUS
  <2>1. k + 1 \in 1..N /\ (k + 1) - 1 = k /\ k <= N
      BY <1>1
  <2> DEFINE U == upto(k)
             B == block(k + 1)
  <2>2. upto(k + 1) = U \cup B
    <3>1. 1..(k + 1) = (1..k) \cup {k + 1}
        OBVIOUS
    <3> QED
        BY <3>1
  <2>3. U \cap B = {}
    <3>1. \A i \in 1..k : i \in 1..N /\ i < k + 1
      <4>1. N \in Nat
          BY <1>1
      <4> QED
          BY <2>1, <4>1
    <3>2. \A i \in 1..k : block(i) \cap block(k + 1) = {}
        BY <1>6, <2>1, <3>1
    <3> QED
        BY <3>2
  <2>4. IsFiniteSet(U) /\ Cardinality(U) = h(k) /\ h(k) \in Nat
      BY <1>7, <1>9, <2>1
  <2>5. IsFiniteSet(B) /\ Cardinality(B) = buckets[k + 1].count /\ buckets[k + 1].count \in Nat
    <3>1. buckets[k + 1].count \in 1..50
        BY <1>1, <2>1
    <3> QED
        BY <1>5, <2>1, <3>1
  <2>6. h(k + 1) = h(k) + buckets[k + 1].count
      BY <1>7, <2>1
  <2> HIDE DEF U, B
  <2>7. IsFiniteSet(U \cup B) /\ Cardinality(U \cup B) = Cardinality(U) + Cardinality(B)
    <3>1. /\ IsFiniteSet(U \cup B)
          /\ Cardinality(U \cup B) = Cardinality(U) + Cardinality(B) - Cardinality(U \cap B)
        BY <2>4, <2>5, FS_Union
    <3>2. Cardinality(U \cap B) = 0
        BY <2>3, FS_EmptySet
    <3>3. Cardinality(U) \in Nat /\ Cardinality(B) \in Nat
        BY <2>4, <2>5
    <3> QED
        BY <3>1, <3>2, <3>3
  <2> QED
      BY <2>2, <2>4, <2>5, <2>6, <2>7
<1>10. Nat \subseteq T
  <2> HIDE DEF T
  <2> QED
      BY <1>8, <1>9, NatInductive
<1>11. Counted(N)
  <2>1. N \in Nat /\ N <= N
      BY <1>1
  <2> HIDE DEF Counted
  <2> QED
      BY <1>10, <2>1
<1>12. upto(N) # {}
  <2>1. 1 \in 1..buckets[N].count
    <3>1. \A k \in 1..50 : 1 \in 1..k
        OBVIOUS
    <3> QED
        BY <1>1, <3>1
  <2>2. <<buckets[N].role, b(N) + 1>> \in block(N)
      BY <2>1 DEF block
  <2> QED
      BY <1>1, <2>2
<1>13. \A p \in upto(N) : p[1] \in Roles
    BY <1>1 DEF block
<1> QED
    BY <1>4, <1>11, <1>12, <1>13 DEF h, N

-----------------------------------------------------------------------------
(* The log.                                                                *)

\* What an event adds to the log, and to the places of the events of a type.
Extends(type, round, payload) ==
  LET n == Len(log) + 1
  IN  /\ IsSeq(log)' /\ n \notin DOMAIN log /\ DOMAIN log' = DOMAIN log \cup {n}
      /\ (\A i \in DOMAIN log : i < n /\ log'[i] = log[i])
      /\ log'[n] = [type |-> type, round |-> round, payload |-> payload]
      /\ Logged(type)' = Logged(type) \cup {n}
      /\ \A other : other # type => Logged(other)' = Logged(other)

LEMMA Logging ==
  ASSUME IsSeq(log), NEW type, NEW round, NEW payload, EmitAt(type, round, payload)
  PROVE  Extends(type, round, payload)
<1> DEFINE n == Len(log) + 1
           e == [type |-> type, round |-> round, payload |-> payload]
<1>1. PICK S : log \in Seq(S)
    BY DEF IsSeq
<1>2. log' = Append(log, e)
    BY DEF EmitAt
<1>3. e.type = type
    OBVIOUS
<1> HIDE DEF e
<1>4. log \in Seq(S \cup {e})
    BY <1>1, SeqMonotonic
<1>5. /\ log' \in Seq(S \cup {e}) /\ DOMAIN log = 1..Len(log) /\ DOMAIN log' = 1..n
      /\ Len(log) \in Nat /\ log'[n] = e /\ \A i \in 1..Len(log) : log'[i] = log[i]
    BY <1>2, <1>4
<1>6. IsSeq(log)'
    BY <1>5 DEF IsSeq
<1>7. /\ n \notin DOMAIN log /\ DOMAIN log' = DOMAIN log \cup {n}
      /\ \A i \in DOMAIN log : i < n /\ log'[i] = log[i]
    BY <1>5
<1>8. Logged(type)' = Logged(type) \cup {n}
    BY <1>3, <1>5, <1>7 DEF Logged
<1>9. \A other : other # type => Logged(other)' = Logged(other)
    BY <1>3, <1>5, <1>7 DEF Logged
<1> QED
    BY <1>5, <1>6, <1>7, <1>8, <1>9 DEF Extends, e

LEMMA LoggedFinite ==
  ASSUME IsSeq(log), NEW type
  PROVE  /\ IsFiniteSet(Logged(type)) /\ Cardinality(Logged(type)) \in Nat
         /\ Logged(type) \subseteq DOMAIN log
<1>1. PICK S : log \in Seq(S)
    BY DEF IsSeq
<1>2. DOMAIN log = 1..Len(log) /\ Len(log) \in Nat
    BY <1>1
<1>3. IsFiniteSet(DOMAIN log) /\ Logged(type) \subseteq DOMAIN log
    BY <1>2, FS_Interval DEF Logged
<1> QED
    BY <1>3, FS_Subset, FS_CardinalityType

\* One more event of its type.
LEMMA OneMore ==
  ASSUME IsSeq(log), NEW type, NEW round, NEW payload, Extends(type, round, payload)
  PROVE  Cardinality(Logged(type))' = Cardinality(Logged(type)) + 1
<1>1. Logged(type)' = Logged(type) \cup {Len(log) + 1} /\ Len(log) + 1 \notin Logged(type)
    BY LoggedFinite DEF Extends
<1>2. IsFiniteSet(Logged(type))
    BY LoggedFinite
<1> QED
    BY <1>1, <1>2, FS_AddElement

-----------------------------------------------------------------------------
(* The invariant.                                                          *)

Early == {"intake_planner", "scenario_builder", "world_initializer"}
Reports == {"round_summarizer", "evidence_builder", "report_writer", "critic",
            "citation_gate", "report_renderer"}
Decisions == Logged("DECISIONS_MADE")
Resolved == Logged("ROUND_RESOLVED")

Typed ==
  /\ node \in Nodes /\ run \in 1..MaxInvocations
  /\ build \in Builds /\ seed \in Seeds(build)
  /\ Optional(plan) /\ (build.llm => plan \subseteq Plans)
  /\ Optional(scenario) /\ scenario \subseteq Scenarios
  /\ Optional(roster) /\ roster \subseteq Rosters
  /\ Optional(max_rounds) /\ max_rounds \subseteq Nat
  /\ round_no \in Nat /\ IsSeq(log)

\* What a node may count on, and the segments of the world.
Provided ==
  /\ node = "scenario_builder" => plan # {}
  /\ node = "world_initializer" => scenario # {}
  /\ node \notin Early \cup {"raised"} =>
       scenario # {} /\ DOMAIN world # {} /\ participants # {}
  /\ DOMAIN world \subseteq Nat /\ IsFiniteSet(DOMAIN world)
  /\ world = [gu \in DOMAIN world |-> world[gu]]
  /\ \A gu \in DOMAIN world :
       /\ world[gu] = [start |-> world[gu].start, moved |-> world[gu].moved]
       /\ world[gu].moved \in Nat /\ world[gu].moved <= round_no
  /\ IsFiniteSet(participants) /\ DOMAIN actions \subseteq participants

\* The limit the routers go by.
Routed == IF max_rounds = {} THEN 3 ELSE The(max_rounds)

\* Rounds are counted by the log and stay within the limit.
Counted ==
  /\ Cardinality(Decisions) = round_no
  /\ Cardinality(Resolved) = IF node = "round_resolver" THEN round_no - 1 ELSE round_no
  /\ node \in Early \cup {"raised"} => round_no = 0 /\ outcome = {} /\ DOMAIN world = {}
  /\ node = "participant_decider" => round_no < Routed
  /\ node = "round_resolver" => round_no # 0 /\ round_no <= Routed
  /\ \A n \in max_rounds : round_no <= n

\* The rounds that traded nothing: none while the loop goes on, at most the
\* last one after it.
Quiet == {k \in Resolved : log[k].payload.transactions = 0}
Reasons ==
  /\ Optional(outcome) /\ \A o \in outcome : o.trades \in Nat
  /\ node \in {"participant_decider", "round_resolver"} => Quiet = {}
  /\ node \in Reports \cup {"end"} =>
       /\ \A k \in Quiet, j \in Resolved : j <= k
       /\ Quiet = {} => max_rounds \in {{}, {round_no}}
       /\ Quiet = {} <=> \A o \in outcome : o.trades > 0

LEMMA Seeded ==
  ASSUME NEW b \in Builds, NEW s \in Seeds(b)
  PROVE  /\ b.llm \in BOOLEAN /\ b.reader \in BOOLEAN
         /\ Optional(s.snapshot)
         /\ \A snapshot \in s.snapshot : snapshot.rows \in Seq(GoldRows) \ {<<>>}
         /\ Optional(s.scenario) /\ s.scenario \subseteq Scenarios
         /\ Optional(s.roster) /\ s.roster \subseteq Rosters
         /\ Optional(s.max_rounds) /\ s.max_rounds \subseteq Nat
  BY SimulationGraphAssumption, SeedsAssumption

\* The state an invocation starts in.
LEMMA Fresh ==
  ASSUME NEW b \in Builds, NEW s \in Seeds(b), NEW r \in 1..MaxInvocations
  PROVE  /\ Optional({}) /\ IsSeq(<<>>) /\ IsFiniteSet({})
         /\ DOMAIN [gu \in {} |-> 0] = {} /\ DOMAIN NoPayload = {}
         /\ [gu \in {} |-> 0] = [gu \in DOMAIN [k \in {} |-> 0] |-> [k \in {} |-> 0][gu]]
         /\ Cardinality({}) = 0 /\ DOMAIN <<>> = {}
<1>1. <<>> \in Seq(Nat)
    OBVIOUS
<1>2. IsFiniteSet({}) /\ Cardinality({}) = 0
    BY FS_EmptySet
<1> QED
    BY <1>1, <1>2 DEF Optional, IsSeq, NoPayload

LEMMA InitLoop == Init => Typed /\ Provided /\ Counted /\ Reasons
<1> SUFFICES ASSUME Init PROVE Typed /\ Provided /\ Counted /\ Reasons
    OBVIOUS
<1>1. 1 \in 1..MaxInvocations
    BY SimulationGraphAssumption
<1>2. /\ Optional({}) /\ IsSeq(<<>>) /\ IsFiniteSet({})
      /\ DOMAIN [gu \in {} |-> 0] = {} /\ DOMAIN NoPayload = {}
      /\ [gu \in {} |-> 0] = [gu \in DOMAIN [k \in {} |-> 0] |-> [k \in {} |-> 0][gu]]
      /\ Cardinality({}) = 0 /\ DOMAIN <<>> = {}
    BY <1>1, Fresh DEF Init
<1>3. /\ Optional(seed.scenario) /\ seed.scenario \subseteq Scenarios
      /\ Optional(seed.roster) /\ seed.roster \subseteq Rosters
      /\ Optional(seed.max_rounds) /\ seed.max_rounds \subseteq Nat
    BY Seeded DEF Init
<1>4. Typed
    BY <1>1, <1>2, <1>3 DEF Init, Typed, Nodes
<1>5. Provided
  <2>1. DOMAIN world = {} /\ world = [gu \in DOMAIN world |-> world[gu]]
      BY <1>2 DEF Init
  <2> QED
      BY <1>2, <2>1 DEF Init, Provided, Early
<1>6. Decisions = {} /\ Resolved = {} /\ Quiet = {}
    BY <1>2 DEF Init, Decisions, Resolved, Quiet, Logged
<1>7. Counted
  <2>1. \A n \in max_rounds : 0 <= n
      BY <1>3 DEF Init
  <2> QED
      BY <1>2, <1>6, <2>1 DEF Init, Counted, Early
<1>8. Reasons
    BY <1>2, <1>6 DEF Init, Reasons, Reports
<1> QED
    BY <1>4, <1>5, <1>7, <1>8

\* An event of another kind changes nothing that is counted.
LEMMA Uncounted ==
  ASSUME IsSeq(log), NEW type, NEW round, NEW payload, EmitAt(type, round, payload),
         type \notin {"DECISIONS_MADE", "ROUND_RESOLVED"}
  PROVE  IsSeq(log)' /\ Decisions' = Decisions /\ Resolved' = Resolved /\ Quiet' = Quiet
<1>1. Extends(type, round, payload)
    BY Logging
<1>2. IsSeq(log)' /\ Decisions' = Decisions /\ Resolved' = Resolved
    BY <1>1 DEF Extends, Decisions, Resolved
<1>3. \A k \in Resolved : log'[k] = log[k]
    BY <1>1, LoggedFinite DEF Extends, Resolved
<1> QED
    BY <1>2, <1>3 DEF Quiet

\* The steps after the loop.
Reporting == \/ RoundSummarizer \/ EvidenceBuilder \/ ReportWriter \/ Critic
             \/ CitationGate \/ ReportRenderer

LEMMA ReportingFrame ==
  ASSUME IsSeq(log), Reporting
  PROVE  /\ node \in Reports /\ node' \in (Reports \cup {"end"}) \ {"round_summarizer"}
         /\ UNCHANGED <<build, run, seed, plan, scenario, roster, max_rounds>>
         /\ UNCHANGED <<world, participants, round_no, actions, outcome>>
         /\ IsSeq(log)' /\ Decisions' = Decisions /\ Resolved' = Resolved /\ Quiet' = Quiet
<1>1. CASE RoundSummarizer
  <2>1. \E payload : EmitAt("SIMULATION_COMPLETED", round_no, payload)
      BY <1>1 DEF RoundSummarizer, Emit
  <2>2. IsSeq(log)' /\ Decisions' = Decisions /\ Resolved' = Resolved /\ Quiet' = Quiet
      BY <2>1, Uncounted
  <2> QED
      BY <1>1, <2>2 DEF RoundSummarizer, At, Reports, caller, planned, rounds
<1>2. CASE EvidenceBuilder
  <2>1. UNCHANGED log
      BY <1>2 DEF EvidenceBuilder
  <2>2. IsSeq(log)' /\ Decisions' = Decisions /\ Resolved' = Resolved /\ Quiet' = Quiet
      BY <2>1 DEF Decisions, Resolved, Quiet, Logged
  <2> QED
      BY <1>2, <2>2 DEF EvidenceBuilder, At, Reports, caller, planned, rounds
<1>3. CASE ReportWriter
  <2>1. \E payload : EmitAt("REPORT_WRITTEN", round_no, payload)
      BY <1>3 DEF ReportWriter, Emit
  <2>2. IsSeq(log)' /\ Decisions' = Decisions /\ Resolved' = Resolved /\ Quiet' = Quiet
      BY <2>1, Uncounted
  <2> QED
      BY <1>3, <2>2 DEF ReportWriter, At, Reports, caller, planned, rounds
<1>4. CASE Critic
  <2>1. EmitAt("CRITIC", round_no, NoPayload)
      BY <1>4 DEF Critic, Emit
  <2>2. IsSeq(log)' /\ Decisions' = Decisions /\ Resolved' = Resolved /\ Quiet' = Quiet
      BY <2>1, Uncounted
  <2> QED
      BY <1>4, <2>2 DEF Critic, At, Reports, caller, planned, rounds
<1>5. CASE CitationGate
  <2>1. \E payload : EmitAt("CITATION_GATE", round_no, payload)
      BY <1>5 DEF CitationGate, Emit
  <2>2. IsSeq(log)' /\ Decisions' = Decisions /\ Resolved' = Resolved /\ Quiet' = Quiet
      BY <2>1, Uncounted
  <2> QED
      BY <1>5, <2>2 DEF CitationGate, At, Reports, caller, planned, rounds
<1>6. CASE ReportRenderer
  <2>1. \E payload : EmitAt("REPORT_RENDERED", round_no, payload)
      BY <1>6 DEF ReportRenderer, Emit
  <2>2. IsSeq(log)' /\ Decisions' = Decisions /\ Resolved' = Resolved /\ Quiet' = Quiet
      BY <2>1, Uncounted
  <2> QED
      BY <1>6, <2>2 DEF ReportRenderer, At, Reports, caller, planned, rounds
<1> QED
    BY <1>1, <1>2, <1>3, <1>4, <1>5, <1>6 DEF Reporting

Loop == Typed /\ Provided /\ Counted /\ Reasons

LEMMA ReportingLoop == ASSUME Loop, Reporting PROVE Loop'
<1>1. /\ node \in Reports /\ node' \in (Reports \cup {"end"}) \ {"round_summarizer"}
      /\ UNCHANGED <<build, run, seed, plan, scenario, roster, max_rounds>>
      /\ UNCHANGED <<world, participants, round_no, actions, outcome>>
      /\ IsSeq(log)' /\ Decisions' = Decisions /\ Resolved' = Resolved /\ Quiet' = Quiet
    BY ReportingFrame DEF Loop, Typed
<1>2. Typed'
    BY <1>1 DEF Loop, Typed, Nodes, Reports
<1>3. Provided'
    BY <1>1 DEF Loop, Provided, Early, Reports
<1>4. Counted'
    BY <1>1 DEF Loop, Counted, Early, Reports
<1>5. Reasons'
    BY <1>1 DEF Loop, Reasons, Reports
<1> QED
    BY <1>2, <1>3, <1>4, <1>5 DEF Loop

LEMMA RaisesLoop ==
  ASSUME Loop, NEW reply, NEW readable, PlanningRaises(reply, readable) PROVE Loop'
<1>1. /\ node \in Early /\ node' = "raised"
      /\ UNCHANGED <<build, run, seed, plan, scenario, roster, max_rounds>>
      /\ UNCHANGED <<world, participants, round_no, actions, outcome, log>>
    BY DEF PlanningRaises, At, Early, Raise, caller, planned, rounds
<1>2. Decisions' = Decisions /\ Resolved' = Resolved /\ Quiet' = Quiet
    BY <1>1 DEF Decisions, Resolved, Quiet, Logged
<1>3. Typed'
    BY <1>1 DEF Loop, Typed, Nodes
<1>4. Provided'
    BY <1>1 DEF Loop, Provided, Early
<1>5. Counted'
    BY <1>1, <1>2 DEF Loop, Counted, Early
<1>6. Reasons'
    BY <1>1, <1>2 DEF Loop, Reasons, Reports, Early
<1> QED
    BY <1>3, <1>4, <1>5, <1>6 DEF Loop

LEMMA StutterLoop == ASSUME Loop, UNCHANGED vars PROVE Loop'
<1>1. /\ UNCHANGED <<build, run, seed, node, plan, scenario, roster, max_rounds>>
      /\ UNCHANGED <<world, participants, round_no, actions, outcome, log>>
    BY DEF vars, caller, planned, rounds, reported
<1>2. Decisions' = Decisions /\ Resolved' = Resolved /\ Quiet' = Quiet
    BY <1>1 DEF Decisions, Resolved, Quiet, Logged
<1>3. Typed'
    BY <1>1 DEF Loop, Typed
<1>4. Provided'
    BY <1>1 DEF Loop, Provided
<1>5. Counted'
    BY <1>1, <1>2 DEF Loop, Counted, Routed
<1>6. Reasons'
    BY <1>1, <1>2 DEF Loop, Reasons
<1> QED
    BY <1>3, <1>4, <1>5, <1>6 DEF Loop

LEMMA IntakeLoop == ASSUME Loop, IntakePlanner PROVE Loop'
<1>1. /\ node = "intake_planner" /\ node' = "scenario_builder"
      /\ UNCHANGED <<build, run, seed, scenario, roster, max_rounds>>
      /\ UNCHANGED <<world, participants, round_no, actions, outcome>>
    BY DEF IntakePlanner, At, caller, rounds
<1>2. PICK p : /\ plan' = {p} /\ (build.llm => p \in Plans)
               /\ \E payload : EmitAt("INTAKE_PLANNED", round_no, payload)
    BY DEF IntakePlanner, GenerateStructured, Emit
<1>3. IsSeq(log)' /\ Decisions' = Decisions /\ Resolved' = Resolved /\ Quiet' = Quiet
    BY <1>2, Uncounted DEF Loop, Typed
<1>4. Typed'
    BY <1>1, <1>2, <1>3 DEF Loop, Typed, Nodes, Optional
<1>5. Provided'
    BY <1>1, <1>2 DEF Loop, Provided, Early
<1>6. Counted'
    BY <1>1, <1>3 DEF Loop, Counted, Early
<1>7. Reasons'
    BY <1>1, <1>3, SMTT(40) DEF Loop, Reasons, Reports
<1> QED
    BY <1>4, <1>5, <1>6, <1>7 DEF Loop

LEMMA StubScenarioTyped == StubScenario \in Scenarios
<1>1. <<2026, 1>> \in Months /\ <<2026, 12>> \in Months
    BY DEF Months
<1>2. <<11680>> \in Seq(Nat) \ {<<>>}
    OBVIOUS
<1>3. <<>> \in Seq(SupportedShockKeys \cup {"other"})
    OBVIOUS
<1> DEFINE gus == <<11680>>
           start == <<2026, 1>>
           end == <<2026, 12>>
<1>4. StubScenario = [gus |-> gus, start |-> start, end |-> end, shocks |-> <<>>]
    BY DEF StubScenario
<1>5. gus \in Seq(Nat) \ {<<>>} /\ start \in Months /\ end \in Months
    BY <1>1, <1>2
<1> HIDE DEF gus, start, end
<1> QED
    BY <1>3, <1>4, <1>5 DEF Scenarios

\* What scenario_builder returns with a model and a snapshot.
LEMMA ScenarioPlanned ==
  ASSUME Typed, Provided, node = "scenario_builder", BuildsScenario, seed.snapshot # {},
         NEW selection \in Selections
  PROVE  /\ The(seed.snapshot) \in seed.snapshot
         /\ The(seed.snapshot).rows \in Seq(GoldRows) \ {<<>>}
         /\ Covers(Coverage(The(seed.snapshot).rows), The(seed.snapshot).rows)
         /\ Built(BuildScenario(The(plan), selection, Coverage(The(seed.snapshot).rows)),
                  Coverage(The(seed.snapshot).rows), The(plan).mode)
<1>1. The(seed.snapshot) \in seed.snapshot
    BY DEF The
<1>2. The(seed.snapshot).rows \in Seq(GoldRows) \ {<<>>}
    BY <1>1, Seeded DEF Typed
<1>3. Covers(Coverage(The(seed.snapshot).rows), The(seed.snapshot).rows)
    BY <1>2, CoverageCovers
<1>4. The(plan) \in IntakePlans
  <2>1. plan # {} /\ plan \subseteq Plans
      BY DEF Provided, Typed, BuildsScenario
  <2> QED
      BY <2>1, SimulationGraphAssumption DEF The
<1>5. selection \in ScenarioSelections
    BY SimulationGraphAssumption
<1> QED
    BY <1>1, <1>2, <1>3, <1>4, <1>5, ScenarioBuilt

LEMMA ScenarioLoop == ASSUME Loop, ScenarioBuilder PROVE Loop'
<1>1. /\ node = "scenario_builder" /\ node' = "world_initializer"
      /\ UNCHANGED <<build, run, seed, plan, world, participants, round_no, actions, outcome>>
    BY DEF ScenarioBuilder, At, caller, rounds
<1>2. \E payload : EmitAt("SCENARIO_BUILT", round_no, payload)
    BY DEF ScenarioBuilder, ScenarioFrom, ScenarioStub, Emit
<1>3. IsSeq(log)' /\ Decisions' = Decisions /\ Resolved' = Resolved /\ Quiet' = Quiet
    BY <1>2, Uncounted DEF Loop, Typed
<1>4. /\ Optional(scenario') /\ scenario' \subseteq Scenarios /\ scenario' # {}
      /\ Optional(roster') /\ roster' \subseteq Rosters
      /\ Optional(max_rounds') /\ max_rounds' \subseteq Nat
  <2>1. CASE ScenarioStub
    <3>1. /\ roster' = roster /\ max_rounds' = max_rounds
          /\ \/ scenario' = scenario /\ scenario # {}
             \/ scenario' = {StubScenario}
        BY <2>1 DEF ScenarioStub
    <3> QED
        BY <3>1, StubScenarioTyped DEF Loop, Typed, Optional
  <2>2. ASSUME NEW s \in Selections, BuildsScenario, seed.snapshot # {}, ScenarioFrom(s)
        PROVE  /\ Optional(scenario') /\ scenario' \subseteq Scenarios /\ scenario' # {}
               /\ Optional(roster') /\ roster' \subseteq Rosters
               /\ Optional(max_rounds') /\ max_rounds' \subseteq Nat
    <3> DEFINE built == BuildScenario(The(plan), s, Coverage(The(seed.snapshot).rows))
    <3>1. Built(built, Coverage(The(seed.snapshot).rows), The(plan).mode)
        BY <1>1, <2>2, ScenarioPlanned DEF Loop
    <3>2. scenario' = {built.scenario} /\ roster' = {built.roster} /\ max_rounds' = {built.max_rounds}
        BY <2>2 DEF ScenarioFrom
    <3> HIDE DEF built
    <3>3. built.scenario \in Scenarios /\ built.roster \in Rosters /\ built.max_rounds \in Nat
        BY <3>1 DEF Built
    <3> QED
        BY <3>2, <3>3 DEF Optional
  <2> QED
      BY <2>1, <2>2 DEF ScenarioBuilder, GenerateStructured
<1>5. Typed'
    BY <1>1, <1>3, <1>4 DEF Loop, Typed, Nodes
<1>6. Provided'
    BY <1>1, <1>4 DEF Loop, Provided, Early
<1>7. Counted'
  <2>1. round_no = 0 /\ \A n \in max_rounds' : 0 <= n
      BY <1>1, <1>4 DEF Loop, Counted, Early
  <2> QED
      BY <1>1, <1>3, <2>1 DEF Loop, Counted, Early
<1>8. Reasons'
    BY <1>1, <1>3 DEF Loop, Reasons, Reports
<1> QED
    BY <1>5, <1>6, <1>7, <1>8 DEF Loop

LEMMA ElementsFinite == ASSUME NEW T, NEW s \in Seq(T) PROVE IsFiniteSet(ToSet(s)) /\ ToSet(s) \subseteq T
<1>1. DOMAIN s = 1..Len(s) /\ Len(s) \in Nat /\ \A i \in DOMAIN s : s[i] \in T
    OBVIOUS
<1>2. IsFiniteSet({s[i] : i \in DOMAIN s})
    BY <1>1, IntervalCount, RangeFinite
<1> QED
    BY <1>1, <1>2 DEF ToSet

\* The segments of a new world.
Segmented(w) ==
  /\ DOMAIN w \subseteq Nat /\ IsFiniteSet(DOMAIN w) /\ DOMAIN w # {}
  /\ w = [gu \in DOMAIN w |-> w[gu]]
  /\ \A gu \in DOMAIN w : w[gu] = [start |-> w[gu].start, moved |-> w[gu].moved]
                          /\ w[gu].moved = 0

LEMMA NewWorld ==
  ASSUME Typed, Provided, node = "world_initializer", WorldInitializer
  PROVE  /\ Segmented(world') /\ IsFiniteSet(participants') /\ participants' # {}
         /\ Optional(max_rounds') /\ max_rounds' \subseteq Nat
         /\ {p[1] : p \in participants'} \subseteq Roles
<1>1. CASE WorldStub
  <2>1. Segmented(StubWorld)
    <3>1. ASSUME NEW n \in Nat, NEW s PROVE Segmented([gu \in {n} |-> [start |-> s, moved |-> 0]])
        BY FS_Singleton DEF Segmented
    <3> DEFINE m == 11680
               start == [price |-> 2000000, volume |-> 100, trend |-> "flat",
                         sentiment |-> 7000, pressure |-> 0]
    <3>2. m \in Nat /\ StubWorld = [gu \in {m} |-> [start |-> start, moved |-> 0]]
        BY DEF StubWorld
    <3> HIDE DEF m, start
    <3> QED
        BY <3>1, <3>2
  <2>2. IsFiniteSet(StubParticipants) /\ StubParticipants # {}
    <3>1. IsFiniteSet({<<"buyer", 1>>})
        BY FS_Singleton
    <3>2. IsFiniteSet({<<"buyer", 1>>} \cup {<<"investor", 1>>})
        BY <3>1, FS_AddElement
    <3>3. StubParticipants = {<<"buyer", 1>>} \cup {<<"investor", 1>>}
        BY DEF StubParticipants
    <3> QED
        BY <3>2, <3>3
  <2>3. {p[1] : p \in StubParticipants} \subseteq Roles
      BY DEF StubParticipants, Roles
  <2>4. Limit(max_rounds) \in Nat
      BY SimulationGraphAssumption, OptionalFacts DEF Limit, Typed
  <2> QED
      BY <1>1, <2>1, <2>2, <2>3, <2>4 DEF WorldStub, Optional
<1>2. CASE WorldFromSnapshot /\ roster # {}
  <2> DEFINE gus == The(scenario).gus
             first == BuildWorld(The(seed.snapshot), gus)
             w == [gu \in DOMAIN first |-> [start |-> first[gu], moved |-> 0]]
  <2>1. world' = w /\ participants' = BuildParticipants(The(roster)) /\ max_rounds' = max_rounds
      BY <1>2 DEF WorldFromSnapshot
  <2>2. gus \in Seq(Nat) \ {<<>>}
    <3>1. The(scenario) \in Scenarios
        BY DEF Typed, Provided, The
    <3> QED
        BY <3>1 DEF Scenarios
  <2>3. DOMAIN first = ToSet(gus)
      BY DEF BuildWorld
  <2> HIDE DEF gus, first
  <2>4. DOMAIN w \subseteq Nat /\ IsFiniteSet(DOMAIN w) /\ DOMAIN w # {}
      BY <2>2, <2>3, ElementsFinite, EmptySequence
  <2>5. Segmented(w)
      BY <2>4 DEF Segmented
  <2>6. The(roster) \in Rosters
      BY <1>2 DEF Typed, The
  <2>7. /\ IsFiniteSet(participants') /\ participants' # {}
        /\ {p[1] : p \in participants'} \subseteq Roles
      BY <2>1, <2>6, ParticipantsBuilt
  <2> QED
      BY <2>1, <2>5, <2>7 DEF Typed
<1> QED
    BY <1>1, <1>2 DEF WorldInitializer

LEMMA WorldLoop == ASSUME Loop, WorldInitializer PROVE Loop'
<1>1. /\ node = "world_initializer" /\ node' = StartRounds
      /\ round_no' = 0 /\ DOMAIN actions' = {} /\ outcome' = {}
      /\ UNCHANGED <<build, run, seed, plan, scenario, roster>>
    BY DEF WorldInitializer, At, caller, NoPayload
<1>2. \E payload : EmitAt("WORLD_INITIALIZED", 0, payload)
    BY DEF WorldInitializer, WorldFromSnapshot, WorldStub
<1>3. IsSeq(log)' /\ Decisions' = Decisions /\ Resolved' = Resolved /\ Quiet' = Quiet
    BY <1>2, Uncounted DEF Loop, Typed
<1>4. /\ Segmented(world') /\ IsFiniteSet(participants') /\ participants' # {}
      /\ Optional(max_rounds') /\ max_rounds' \subseteq Nat
    BY <1>1, NewWorld DEF Loop
<1>5. \/ node' = "participant_decider" /\ 0 < Routed'
      \/ node' = "round_summarizer" /\ ~(0 < Routed')
  <2>1. RoutedLimit = Routed'
      BY DEF RoutedLimit, Routed
  <2> QED
      BY <1>1, <2>1 DEF StartRounds
<1>6. round_no = 0 /\ Cardinality(Decisions) = 0 /\ Cardinality(Resolved) = 0 /\ Resolved = {}
  <2>1. round_no = 0 /\ Cardinality(Decisions) = 0 /\ Cardinality(Resolved) = 0
      BY <1>1 DEF Loop, Counted, Early
  <2>2. IsFiniteSet(Resolved)
      BY LoggedFinite DEF Loop, Typed, Resolved
  <2> QED
      BY <2>1, <2>2, FS_EmptySet
<1>7. Typed'
    BY <1>1, <1>3, <1>4, <1>5 DEF Loop, Typed, Nodes
<1>8. Provided'
    BY <1>1, <1>4, <1>5 DEF Loop, Provided, Early, Segmented
<1>9. Counted'
  <2>1. \A n \in max_rounds' : 0 <= n
      BY <1>4
  <2> QED
      BY <1>1, <1>3, <1>5, <1>6, <2>1 DEF Counted, Early
<1>10. Reasons'
  <2>1. Optional({}) /\ Quiet' = {} /\ Resolved' = {}
      BY <1>3, <1>6 DEF Optional, Quiet
  <2>2. node' = "round_summarizer" => max_rounds' \in {{}, {0}}
    <3> SUFFICES ASSUME max_rounds' # {}, ~(0 < Routed') PROVE max_rounds' = {0}
        BY <1>5
    <3>1. The(max_rounds') \in Nat /\ max_rounds' = {The(max_rounds')}
        BY <1>4, OptionalFacts
    <3>2. The(max_rounds') = 0
        BY <3>1 DEF Routed
    <3> QED
        BY <3>1, <3>2
  <2> QED
      BY <1>1, <1>5, <2>1, <2>2 DEF Reasons, Reports
<1> QED
    BY <1>7, <1>8, <1>9, <1>10 DEF Loop

LEMMA DeciderLoop == ASSUME Loop, ParticipantDecider PROVE Loop'
<1>1. /\ node = "participant_decider" /\ node' = "round_resolver"
      /\ round_no' = round_no + 1 /\ DOMAIN actions' = participants
      /\ UNCHANGED <<build, run, seed, plan, scenario, roster, max_rounds, world, participants, outcome>>
    BY DEF ParticipantDecider, At, caller, planned
<1>2. PICK payload : EmitAt("DECISIONS_MADE", round_no', payload)
    BY DEF ParticipantDecider
<1>3. IsSeq(log) /\ Extends("DECISIONS_MADE", round_no', payload)
    BY <1>2, Logging DEF Loop, Typed
<1>4. Cardinality(Decisions)' = Cardinality(Decisions) + 1
    BY <1>3, OneMore DEF Decisions
<1>5. Resolved' = Resolved /\ Quiet' = Quiet
  <2>1. Resolved' = Resolved
      BY <1>3 DEF Extends, Resolved
  <2>2. \A k \in Resolved : log'[k] = log[k]
      BY <1>3, LoggedFinite DEF Extends, Resolved
  <2> QED
      BY <2>1, <2>2 DEF Quiet
<1>6. round_no \in Nat /\ round_no < Routed /\ Routed \in Nat
  <2>1. Routed \in Nat
      BY OptionalFacts DEF Loop, Typed, Routed
  <2> QED
      BY <1>1, <2>1 DEF Loop, Typed, Counted
<1>7. Routed' = Routed
    BY <1>1 DEF Routed
<1>8. \A n \in max_rounds : n = Routed
    BY OptionalFacts DEF Loop, Typed, Routed
<1>9. Typed'
    BY <1>1, <1>3, <1>6 DEF Loop, Typed, Nodes, Extends
<1>10. Provided'
  <2>1. \A gu \in DOMAIN world : world[gu].moved <= round_no + 1
      BY <1>6 DEF Loop, Provided
  <2> QED
      BY <1>1, <2>1 DEF Loop, Provided, Early
<1>11. Counted'
  <2>1. Cardinality(Decisions) = round_no /\ Cardinality(Resolved) = round_no
      BY <1>1 DEF Loop, Counted
  <2>2. round_no + 1 # 0 /\ round_no + 1 <= Routed /\ (round_no + 1) - 1 = round_no
        /\ \A n \in max_rounds : round_no + 1 <= n
      BY <1>6, <1>8
  <2> QED
      BY <1>1, <1>4, <1>5, <1>7, <2>1, <2>2 DEF Counted, Early
<1>12. Reasons'
    BY <1>1, <1>5 DEF Loop, Reasons, Reports
<1> QED
    BY <1>9, <1>10, <1>11, <1>12 DEF Loop

LEMMA ResolverLoop == ASSUME Loop, RoundResolver PROVE Loop'
<1>1. /\ node = "round_resolver" /\ max_rounds' = max_rounds
      /\ UNCHANGED <<build, run, seed, plan, scenario, roster, participants, round_no, actions>>
      /\ world' = world \/ world' = [world EXCEPT ![Target].moved = round_no]
    BY DEF RoundResolver, At, caller
<1>2. PICK trades \in {0, 1} :
        /\ outcome' = {[round |-> round_no, trades |-> trades]}
        /\ EmitAt("ROUND_RESOLVED", round_no, [round_no |-> round_no, transactions |-> trades])
        /\ node' = IF ShouldContinue(trades) THEN "participant_decider" ELSE "round_summarizer"
  <2>1. \A b : 0..(IF b THEN 1 ELSE 0) \subseteq {0, 1}
      OBVIOUS
  <2> QED
      BY <2>1 DEF RoundResolver, Emit
<1> DEFINE payload == [round_no |-> round_no, transactions |-> trades]
<1>3. IsSeq(log) /\ Extends("ROUND_RESOLVED", round_no, payload)
    BY <1>2, Logging DEF Loop, Typed
<1>4. Cardinality(Resolved)' = Cardinality(Resolved) + 1
    BY <1>3, OneMore DEF Resolved
<1> DEFINE n == Len(log) + 1
<1>5. /\ IsSeq(log)' /\ Decisions' = Decisions /\ Resolved' = Resolved \cup {n}
      /\ \A k \in Resolved : k < n /\ log'[k] = log[k]
      /\ log'[n].payload.transactions = trades
  <2>1. IsSeq(log)' /\ Decisions' = Decisions /\ Resolved' = Resolved \cup {n}
      BY <1>3 DEF Extends, Decisions, Resolved
  <2>2. \A k \in Resolved : k < n /\ log'[k] = log[k]
      BY <1>3, LoggedFinite DEF Extends, Resolved
  <2>3. log'[n].payload = payload
      BY <1>3 DEF Extends
  <2> QED
      BY <2>1, <2>2, <2>3
<1> HIDE DEF n
<1>6. Quiet = {} /\ Quiet' = IF trades = 0 THEN {n} ELSE {}
  <2>1. Quiet = {}
      BY <1>1 DEF Loop, Reasons
  <2>2. \A k \in Resolved : log'[k].payload.transactions # 0
      BY <1>5, <2>1 DEF Quiet
  <2> QED
      BY <1>5, <2>1, <2>2 DEF Quiet
<1>7. /\ round_no \in Nat /\ round_no # 0 /\ round_no <= Routed /\ Routed \in Nat
      /\ Routed' = Routed /\ (max_rounds = {} \/ max_rounds = {Routed})
  <2>1. Routed \in Nat /\ (max_rounds = {} \/ max_rounds = {Routed})
      BY OptionalFacts DEF Loop, Typed, Routed
  <2>2. Routed' = Routed
      BY <1>1 DEF Routed
  <2> QED
      BY <1>1, <2>1, <2>2 DEF Loop, Typed, Counted
<1>8. ShouldContinue(trades) <=> round_no < Routed /\ trades # 0
  <2>1. RoutedLimit = Routed
      BY <1>1 DEF RoutedLimit, Routed
  <2> QED
      BY <2>1 DEF ShouldContinue
<1>9. \/ node' = "participant_decider" /\ round_no < Routed /\ trades # 0
      \/ node' = "round_summarizer" /\ (round_no = Routed \/ trades = 0)
  <2>1. \/ ShouldContinue(trades) /\ node' = "participant_decider"
        \/ ~ShouldContinue(trades) /\ node' = "round_summarizer"
      BY <1>2
  <2> QED
      BY <1>7, <1>8, <2>1
<1>10. Typed'
    BY <1>1, <1>5, <1>9 DEF Loop, Typed, Nodes
<1>11. /\ DOMAIN world' = DOMAIN world /\ world' = [gu \in DOMAIN world' |-> world'[gu]]
       /\ \A gu \in DOMAIN world' :
            /\ world'[gu] = [start |-> world'[gu].start, moved |-> world'[gu].moved]
            /\ world'[gu].moved \in Nat /\ world'[gu].moved <= round_no
  <2>1. CASE world' = world
      BY <2>1 DEF Loop, Provided
  <2>2. CASE world' = [world EXCEPT ![Target].moved = round_no]
    <3>1. DOMAIN world' = DOMAIN world /\ world' = [gu \in DOMAIN world' |-> world'[gu]]
        BY <2>2 DEF Loop, Provided
    <3>2. ASSUME NEW gu \in DOMAIN world
          PROVE  /\ world'[gu] = [start |-> world'[gu].start, moved |-> world'[gu].moved]
                 /\ world'[gu].moved \in Nat /\ world'[gu].moved <= round_no
      <4>1. /\ world[gu] = [start |-> world[gu].start, moved |-> world[gu].moved]
            /\ world[gu].moved \in Nat /\ world[gu].moved <= round_no
          BY DEF Loop, Provided
      <4>2. CASE gu = Target
        <5>1. world'[gu] = [world[gu] EXCEPT !.moved = round_no]
            BY <2>2, <4>2 DEF Loop, Provided
        <5>2. world'[gu] = [start |-> world[gu].start, moved |-> round_no]
            BY <4>1, <5>1
        <5> QED
            BY <1>7, <5>2
      <4>3. CASE gu # Target
        <5>1. world'[gu] = world[gu]
            BY <2>2, <4>3 DEF Loop, Provided
        <5> QED
            BY <4>1, <5>1
      <4> QED
          BY <4>2, <4>3
    <3> QED
        BY <3>1, <3>2
  <2> QED
      BY <1>1, <2>1, <2>2
<1>12. Provided'
    BY <1>1, <1>9, <1>11 DEF Loop, Provided, Early
<1>13. Counted'
  <2>1. Cardinality(Decisions) = round_no /\ Cardinality(Resolved) = round_no - 1
        /\ \A m \in max_rounds : round_no <= m
      BY <1>1 DEF Loop, Counted
  <2>2. Cardinality(Resolved)' = round_no
      BY <1>4, <1>7, <2>1
  <2> QED
      BY <1>1, <1>5, <1>7, <1>9, <2>1, <2>2 DEF Counted, Early
<1>14. Reasons'
  <2>1. Optional(outcome') /\ \A o \in outcome' : o.trades = trades
      BY <1>2 DEF Optional
  <2>2. trades \in Nat /\ (trades > 0 <=> trades # 0) /\ outcome' # {}
      BY <1>2
  <2>3. \A k \in Resolved' : k <= n
    <3>1. n \in Nat
      <4>1. PICK S : log \in Seq(S)
          BY <1>3 DEF IsSeq
      <4> QED
          BY <4>1 DEF n
    <3>2. Resolved \subseteq Nat
      <4>1. PICK S : log \in Seq(S)
          BY <1>3 DEF IsSeq
      <4>2. DOMAIN log \subseteq Nat
          BY <4>1
      <4> QED
          BY <1>3, <4>2, LoggedFinite DEF Resolved
    <3> QED
        BY <1>5, <3>1, <3>2
  <2>4. node' = "participant_decider" => Quiet' = {}
      BY <1>6, <1>9
  <2>5. CASE node' = "round_summarizer"
    <3>1. \A k \in Quiet', j \in Resolved' : j <= k
        BY <1>6, <2>3
    <3>2. Quiet' = {} => trades # 0
        BY <1>6
    <3>3. Quiet' = {} => max_rounds' \in {{}, {round_no'}}
        BY <1>1, <1>7, <1>9, <2>5, <3>2
    <3>4. Quiet' = {} <=> \A o \in outcome' : o.trades > 0
        BY <1>6, <2>1, <2>2
    <3> QED
        BY <2>1, <2>2, <2>5, <3>1, <3>3, <3>4 DEF Reasons, Reports
  <2> QED
      BY <1>9, <2>1, <2>2, <2>4, <2>5 DEF Reasons, Reports
<1> QED
    BY <1>10, <1>12, <1>13, <1>14 DEF Loop

LEMMA InvokeLoop == ASSUME Loop, InvokeAgain PROVE Loop'
<1>1. /\ node' = "intake_planner" /\ run' = run + 1 /\ run < MaxInvocations
      /\ seed' \in Seeds(build) /\ build' = build
      /\ plan' = {} /\ scenario' = seed'.scenario /\ roster' = seed'.roster
      /\ max_rounds' = seed'.max_rounds /\ world' = [gu \in {} |-> 0] /\ participants' = {}
      /\ round_no' = 0 /\ actions' = NoPayload /\ outcome' = {} /\ log' = <<>>
    BY DEF InvokeAgain
<1>2. run' \in 1..MaxInvocations
    BY <1>1, SimulationGraphAssumption DEF Loop, Typed
<1>3. /\ Optional({}) /\ IsSeq(<<>>) /\ IsFiniteSet({})
      /\ DOMAIN [gu \in {} |-> 0] = {} /\ DOMAIN NoPayload = {}
      /\ [gu \in {} |-> 0] = [gu \in DOMAIN [k \in {} |-> 0] |-> [k \in {} |-> 0][gu]]
      /\ Cardinality({}) = 0 /\ DOMAIN <<>> = {}
    BY <1>1, <1>2, Fresh DEF Loop, Typed
<1>4. /\ Optional(scenario') /\ scenario' \subseteq Scenarios
      /\ Optional(roster') /\ roster' \subseteq Rosters
      /\ Optional(max_rounds') /\ max_rounds' \subseteq Nat
    BY <1>1, Seeded DEF Loop, Typed
<1>5. Typed'
    BY <1>1, <1>2, <1>3, <1>4 DEF Loop, Typed, Nodes
<1>6. Provided'
  <2>1. DOMAIN world' = {} /\ world' = [gu \in DOMAIN world' |-> world'[gu]]
      BY <1>1, <1>3
  <2> QED
      BY <1>1, <1>3, <2>1 DEF Provided, Early
<1>7. Decisions' = {} /\ Resolved' = {} /\ Quiet' = {}
    BY <1>1, <1>3 DEF Decisions, Resolved, Quiet, Logged
<1>8. Counted'
  <2>1. \A n \in max_rounds' : 0 <= n
      BY <1>4
  <2> QED
      BY <1>1, <1>3, <1>7, <2>1 DEF Counted, Early
<1>9. Reasons'
    BY <1>1, <1>3, <1>7 DEF Reasons, Reports
<1> QED
    BY <1>5, <1>6, <1>8, <1>9 DEF Loop

LEMMA NextLoop == ASSUME Loop, [Next]_vars PROVE Loop'
<1>1. CASE Reporting
    BY <1>1, ReportingLoop
<1>2. CASE UNCHANGED vars
    BY <1>2, StutterLoop
<1>3. CASE \E reply \in Replies, readable \in BOOLEAN : PlanningRaises(reply, readable)
    BY <1>3, RaisesLoop
<1>4. CASE IntakePlanner \/ ScenarioBuilder \/ WorldInitializer
    BY <1>4, IntakeLoop, ScenarioLoop, WorldLoop
<1>5. CASE ParticipantDecider \/ RoundResolver \/ InvokeAgain
    BY <1>5, DeciderLoop, ResolverLoop, InvokeLoop
<1> QED
    BY <1>1, <1>2, <1>3, <1>4, <1>5 DEF Next, Reporting

LEMMA LoopInvariant == Spec => []Loop
<1>1. Init => Loop
    BY InitLoop DEF Loop
<1>2. Loop /\ [Next]_vars => Loop'
    BY NextLoop
<1> QED
    BY <1>1, <1>2, PTL DEF Spec

\* SimulationGraph.TypeOK: rounds stay within the limit the planner or the
\* caller set and are counted by the log, and a node past planning has its
\* scenario, world and participants (simulation/graph.py).
THEOREM TypesCorrect == Spec => []TypeOK
<1>1. Loop => TypeOK
  <2> SUFFICES ASSUME Loop PROVE TypeOK
      OBVIOUS
  <2>1. /\ Cardinality(plan) <= 1 /\ Cardinality(scenario) <= 1 /\ Cardinality(roster) <= 1
        /\ Cardinality(max_rounds) <= 1 /\ Cardinality(outcome) <= 1
      BY OptionalFacts DEF Loop, Typed, Reasons
  <2>2. \A gu \in DOMAIN world : world[gu].moved \in 0..round_no
      BY DEF Loop, Typed, Provided
  <2>3. node \in Nodes /\ run \in 1..MaxInvocations
      BY DEF Loop, Typed
  <2>4. DOMAIN actions \subseteq participants
        /\ (node \notin {"intake_planner", "scenario_builder", "world_initializer", "raised"} =>
              scenario # {} /\ DOMAIN world # {} /\ participants # {})
      BY DEF Loop, Provided, Early
  <2>5. round_no = Cardinality(Logged("DECISIONS_MADE")) /\ \A n \in max_rounds : round_no <= n
      BY DEF Loop, Counted, Decisions
  <2> QED
      BY <2>1, <2>2, <2>3, <2>4, <2>5 DEF TypeOK
<1> QED
    BY <1>1, LoopInvariant, PTL

-----------------------------------------------------------------------------
(* The evidence of a run.                                                  *)

Told == {"report_writer", "critic", "citation_gate", "report_renderer", "end"}

RunFact == Record("simulation_fact", <<"simulation", run>>, round_no,
                  [total_rounds |-> round_no, reason |-> CompletionReason])
RoleFact(role) == Record("participant_fact", <<"participant_role", role>>, round_no,
                         RoleSummary[role])

LEMMA RolesFinite ==
  ASSUME IsFiniteSet(participants)
  PROVE  IsFiniteSet(DOMAIN RoleSummary) /\ DOMAIN RoleSummary = {p[1] : p \in participants}
<1> DEFINE f == [p \in participants |-> p[1]]
<1>1. DOMAIN RoleSummary = {f[p] : p \in DOMAIN f} /\ DOMAIN f = participants
    BY DEF RoleSummary
<1> HIDE DEF f
<1>2. IsFiniteSet(DOMAIN RoleSummary)
    BY <1>1, RangeFinite
<1> QED
    BY <1>2 DEF RoleSummary

\* The districts and the roles, in a row.
LEMMA Rows ==
  ASSUME Provided
  PROVE  /\ Enumerates(Ascending(DOMAIN world), DOMAIN world) /\ IsFiniteSet(DOMAIN world)
         /\ Enumerates(SetToSeq(DOMAIN RoleSummary), DOMAIN RoleSummary)
         /\ IsFiniteSet(DOMAIN RoleSummary)
  BY AscendingEnumerates, SetToSeqEnumerates, RolesFinite DEF Provided

\* evidence_builder: a fact of the run, one of each segment and role, and one
\* of the last round.
LEMMA FactsListed ==
  ASSUME Provided
  PROVE  /\ IsSeq(Facts)
         /\ RunFact \in ToSet(Facts)
         /\ \A gu \in DOMAIN world : SegmentFact(gu) \in ToSet(Facts)
         /\ \A role \in DOMAIN RoleSummary : RoleFact(role) \in ToSet(Facts)
         /\ \A f \in ToSet(Facts) :
              f.run = run /\ (f.kind = "simulation_fact" => f.payload = RunFact.payload)
<1> DEFINE gus == Ascending(DOMAIN world)
           roles == SetToSeq(DOMAIN RoleSummary)
           segments == [i \in DOMAIN gus |-> SegmentFact(gus[i])]
           people == [i \in DOMAIN roles |-> RoleFact(roles[i])]
           last == IF outcome = {} THEN <<>>
                   ELSE <<Record("round_fact", <<"round", The(outcome).round>>,
                                 The(outcome).round, The(outcome))>>
           segment == [gu \in DOMAIN world |-> SegmentFact(gu)]
           role == [r \in DOMAIN RoleSummary |-> RoleFact(r)]
<1>1. Facts = <<RunFact>> \o segments \o people \o last
    BY DEF Facts, RunFact, RoleFact
<1>2. IsSeq(segments) /\ ToSet(segments) = {segment[gu] : gu \in DOMAIN world}
  <2>1. Enumerates(gus, DOMAIN world) /\ IsFiniteSet(DOMAIN world)
      BY Rows
  <2>2. \A i \in DOMAIN gus : gus[i] \in DOMAIN world
      BY <2>1 DEF Enumerates, ToSet
  <2>3. \A i \in DOMAIN gus : segments[i] = segment[gus[i]]
      BY <2>2
  <2>4. DOMAIN segments = DOMAIN gus /\ segments = [i \in DOMAIN gus |-> segments[i]]
      OBVIOUS
  <2> HIDE DEF gus, segments, segment
  <2> QED
      BY <2>1, <2>3, <2>4, Mapped
<1>3. IsSeq(people) /\ ToSet(people) = {role[r] : r \in DOMAIN RoleSummary}
  <2>1. Enumerates(roles, DOMAIN RoleSummary) /\ IsFiniteSet(DOMAIN RoleSummary)
      BY Rows
  <2>2. \A i \in DOMAIN roles : roles[i] \in DOMAIN RoleSummary
      BY <2>1 DEF Enumerates, ToSet
  <2>3. \A i \in DOMAIN roles : people[i] = role[roles[i]]
      BY <2>2
  <2>4. DOMAIN people = DOMAIN roles /\ people = [i \in DOMAIN roles |-> people[i]]
      OBVIOUS
  <2> HIDE DEF roles, people, role
  <2> QED
      BY <2>1, <2>3, <2>4, Mapped
<1>4. IsSeq(last) /\ \A f \in ToSet(last) : f.kind = "round_fact" /\ f.run = run
  <2>1. IsSeq(<<>>) /\ ToSet(<<>>) = {}
    <3>1. <<>> \in Seq(Nat) /\ DOMAIN <<>> = {}
        OBVIOUS
    <3> QED
        BY <3>1 DEF IsSeq, ToSet
  <2> DEFINE f == Record("round_fact", <<"round", The(outcome).round>>, The(outcome).round,
                         The(outcome))
  <2>2. f.kind = "round_fact" /\ f.run = run
      BY DEF Record
  <2>3. last = IF outcome = {} THEN <<>> ELSE <<f>>
      OBVIOUS
  <2> HIDE DEF f, last
  <2>4. IsSeq(<<f>>) /\ ToSet(<<f>>) = {f}
      BY SingleSet
  <2> QED
      BY <2>1, <2>2, <2>3, <2>4
<1>5. IsSeq(<<RunFact>>) /\ ToSet(<<RunFact>>) = {RunFact}
    BY SingleSet
<1>6. \A gu \in DOMAIN world : segment[gu] = SegmentFact(gu)
    OBVIOUS
<1>7. \A r \in DOMAIN RoleSummary : role[r] = RoleFact(r)
    OBVIOUS
<1> HIDE DEF segments, people, last, segment, role
<1>8. IsSeq(<<RunFact>> \o segments)
      /\ ToSet(<<RunFact>> \o segments) = ToSet(<<RunFact>>) \cup ToSet(segments)
    BY <1>2, <1>5, ConcatSets
<1>9. IsSeq(<<RunFact>> \o segments \o people)
      /\ ToSet(<<RunFact>> \o segments \o people)
           = ToSet(<<RunFact>> \o segments) \cup ToSet(people)
    BY <1>3, <1>8, ConcatSets
<1>10. IsSeq(Facts) /\ ToSet(Facts) = {RunFact} \cup ToSet(segments) \cup ToSet(people) \cup ToSet(last)
    BY <1>1, <1>4, <1>5, <1>8, <1>9, ConcatSets
<1>11. /\ \A gu \in DOMAIN world : SegmentFact(gu).run = run /\ SegmentFact(gu).kind # "simulation_fact"
       /\ \A r \in DOMAIN RoleSummary : RoleFact(r).run = run /\ RoleFact(r).kind # "simulation_fact"
       /\ RunFact.run = run
    BY DEF SegmentFact, RoleFact, RunFact, Record
<1> QED
    BY <1>2, <1>3, <1>4, <1>6, <1>7, <1>10, <1>11

\* The evidence store holds facts of this run once evidence_builder is done.
Evidenced ==
  /\ IsSeq(evidence)
  /\ \A i \in DOMAIN evidence : evidence[i].run \in Nat /\ evidence[i].run <= run
  /\ node \notin Told => \A i \in DOMAIN evidence : evidence[i].run # run
  /\ node \in Told =>
       /\ \A i \in DOMAIN evidence :
            evidence[i].kind = "simulation_fact" /\ evidence[i].run = run =>
              evidence[i].payload = RunFact.payload
       /\ \E i \in DOMAIN evidence : evidence[i] = RunFact
       /\ \A gu \in DOMAIN world : \E i \in DOMAIN evidence : evidence[i] = SegmentFact(gu)
       /\ \A role \in DOMAIN RoleSummary : \E i \in DOMAIN evidence : evidence[i] = RoleFact(role)

LEMMA InitEvidenced == Init => Evidenced
<1>1. IsSeq(<<>>) /\ DOMAIN <<>> = {}
  <2>1. <<>> \in Seq(Nat) /\ DOMAIN <<>> = {}
      OBVIOUS
  <2> QED
      BY <2>1 DEF IsSeq
<1> QED
    BY <1>1 DEF Init, Evidenced, Told

LEMMA BuilderEvidenced == ASSUME Loop, Evidenced, EvidenceBuilder PROVE Evidenced'
<1>1. /\ node = "evidence_builder" /\ node' = "report_writer" /\ evidence' = evidence \o Facts
      /\ UNCHANGED <<run, world, participants, round_no, outcome>>
    BY DEF EvidenceBuilder, At, Told, caller, rounds
<1>2. /\ IsSeq(Facts) /\ RunFact \in ToSet(Facts)
      /\ \A gu \in DOMAIN world : SegmentFact(gu) \in ToSet(Facts)
      /\ \A role \in DOMAIN RoleSummary : RoleFact(role) \in ToSet(Facts)
      /\ \A f \in ToSet(Facts) :
           f.run = run /\ (f.kind = "simulation_fact" => f.payload = RunFact.payload)
    BY FactsListed DEF Loop
<1>3. /\ IsSeq(evidence') /\ ToSet(evidence') = ToSet(evidence) \cup ToSet(Facts)
      /\ \A i \in DOMAIN evidence' :
           (i \in DOMAIN evidence /\ evidence'[i] = evidence[i]) \/ evidence'[i] \in ToSet(Facts)
    BY <1>1, <1>2, ConcatSets DEF Evidenced
<1>4. \A f \in ToSet(Facts) : \E i \in DOMAIN evidence' : evidence'[i] = f
    BY <1>3 DEF ToSet
<1>5. /\ RunFact' = RunFact /\ RoleSummary' = RoleSummary
      /\ \A gu : SegmentFact(gu)' = SegmentFact(gu)
      /\ \A role : RoleFact(role)' = RoleFact(role)
  <2>1. RoleSummary' = RoleSummary /\ CompletionReason' = CompletionReason
      BY <1>1 DEF RoleSummary, CompletionReason
  <2> QED
      BY <1>1, <2>1 DEF RunFact, SegmentFact, RoleFact, Record
<1>6. run \in Nat
    BY SimulationGraphAssumption DEF Loop, Typed
<1>7. \A i \in DOMAIN evidence : evidence[i].run \in Nat /\ evidence[i].run <= run /\ evidence[i].run # run
    BY <1>1 DEF Evidenced, Told
<1>8. \A i \in DOMAIN evidence' : evidence'[i].run \in Nat /\ evidence'[i].run <= run'
    BY <1>1, <1>2, <1>3, <1>6, <1>7
<1>9. \A i \in DOMAIN evidence' :
        evidence'[i].kind = "simulation_fact" /\ evidence'[i].run = run' =>
          evidence'[i].payload = RunFact'.payload
    BY <1>1, <1>2, <1>3, <1>5, <1>7
<1>10. /\ \E i \in DOMAIN evidence' : evidence'[i] = RunFact'
       /\ \A gu \in DOMAIN world' : \E i \in DOMAIN evidence' : evidence'[i] = SegmentFact(gu)'
       /\ \A role \in DOMAIN RoleSummary' : \E i \in DOMAIN evidence' : evidence'[i] = RoleFact(role)'
    BY <1>1, <1>2, <1>4, <1>5
<1> QED
    BY <1>1, <1>3, <1>8, <1>9, <1>10 DEF Evidenced, Told

LEMMA StepEvidenced == ASSUME Loop, Evidenced, [Next]_vars PROVE Evidenced'
<1>1. CASE EvidenceBuilder
    BY <1>1, BuilderEvidenced
<1>2. CASE RoundSummarizer \/ ReportWriter \/ Critic \/ CitationGate \/ ReportRenderer \/ UNCHANGED vars
  <2>1. evidence' = evidence /\ (node' \in Told <=> node \in Told)
      BY <1>2 DEF RoundSummarizer, ReportWriter, Critic, CitationGate, ReportRenderer, At, Told,
                  reported, vars
  <2>2. UNCHANGED <<run, world, participants, round_no, outcome>>
      BY <1>2 DEF RoundSummarizer, ReportWriter, Critic, CitationGate, ReportRenderer,
                  caller, rounds, vars
  <2>3. /\ RunFact' = RunFact /\ RoleSummary' = RoleSummary
        /\ \A gu : SegmentFact(gu)' = SegmentFact(gu)
        /\ \A role : RoleFact(role)' = RoleFact(role)
    <3>1. RoleSummary' = RoleSummary /\ CompletionReason' = CompletionReason
        BY <2>2 DEF RoleSummary, CompletionReason
    <3> QED
        BY <2>2, <3>1 DEF RunFact, SegmentFact, RoleFact, Record
  <2> QED
      BY <2>1, <2>2, <2>3 DEF Evidenced
<1>3. CASE \/ IntakePlanner \/ ScenarioBuilder \/ WorldInitializer
           \/ \E reply \in Replies, readable \in BOOLEAN : PlanningRaises(reply, readable)
           \/ ParticipantDecider \/ RoundResolver
  <2>1. run' = run /\ evidence' = evidence /\ node \notin Told
      BY <1>3 DEF IntakePlanner, ScenarioBuilder, WorldInitializer, PlanningRaises, Raise,
                  ParticipantDecider, RoundResolver, At, Told, caller, reported
  <2>2. node' \notin Told
    <3>1. StartRounds \in {"participant_decider", "round_summarizer"}
        BY DEF StartRounds
    <3>2. \A trades : (IF ShouldContinue(trades) THEN "participant_decider" ELSE "round_summarizer")
                        \in {"participant_decider", "round_summarizer"}
        OBVIOUS
    <3> QED
        BY <1>3, <3>1, <3>2 DEF IntakePlanner, ScenarioBuilder, WorldInitializer, PlanningRaises,
                                Raise, ParticipantDecider, RoundResolver, Told
  <2> QED
      BY <2>1, <2>2 DEF Evidenced
<1>4. CASE InvokeAgain
  <2>1. run' = run + 1 /\ evidence' = evidence /\ node' = "intake_planner"
      BY <1>4 DEF InvokeAgain
  <2>2. run \in Nat
      BY SimulationGraphAssumption DEF Loop, Typed
  <2>3. \A i \in DOMAIN evidence' : /\ evidence'[i].run \in Nat /\ evidence'[i].run <= run'
                                    /\ evidence'[i].run # run'
      BY <2>1, <2>2 DEF Evidenced
  <2> QED
      BY <2>1, <2>3 DEF Evidenced, Told
<1> QED
    BY <1>1, <1>2, <1>3, <1>4 DEF Next

\* SimulationGraph.StopReasonTrue: the reason in the evidence of a run is why
\* its loop ended, "market_frozen" only if the last round was the first that
\* traded nothing, "max_rounds" only at the limit (evidence_builder.py,
\* continue_gate.py).
THEOREM StopReasonsTrue == Spec => []StopReasonTrue
<1>1. ASSUME Loop, Evidenced PROVE StopReasonTrue
  <2> SUFFICES ASSUME NEW i \in DOMAIN evidence,
                      evidence[i].kind = "simulation_fact" /\ evidence[i].run = run
               PROVE  /\ evidence[i].payload.total_rounds = Cardinality(Resolved)
                      /\ evidence[i].payload.reason =
                           IF Quiet = {} THEN "max_rounds" ELSE "market_frozen"
                      /\ \A k \in Quiet, j \in Resolved : j <= k
                      /\ Quiet = {} => max_rounds \in {{}, {Cardinality(Resolved)}}
      BY DEF StopReasonTrue, Resolved, Quiet
  <2>1. node \in Told /\ evidence[i].payload = RunFact.payload
      BY <1>1 DEF Evidenced
  <2>2. RunFact.payload = [total_rounds |-> round_no, reason |-> CompletionReason]
      BY DEF RunFact, Record
  <2>3. Cardinality(Resolved) = round_no
      BY <1>1, <2>1 DEF Loop, Counted, Told
  <2>4. /\ \A k \in Quiet, j \in Resolved : j <= k
        /\ Quiet = {} => max_rounds \in {{}, {round_no}}
        /\ Quiet = {} <=> \A o \in outcome : o.trades > 0
      BY <1>1, <2>1 DEF Loop, Reasons, Told, Reports
  <2>5. CompletionReason = IF Quiet = {} THEN "max_rounds" ELSE "market_frozen"
      BY <2>4 DEF CompletionReason
  <2> QED
      BY <2>1, <2>2, <2>3, <2>4, <2>5
<1>2. Init => Loop /\ Evidenced
    BY InitLoop, InitEvidenced DEF Loop
<1>3. Loop /\ Evidenced /\ [Next]_vars => (Loop /\ Evidenced)'
    BY NextLoop, StepEvidenced
<1> QED
    BY <1>1, <1>2, <1>3, PTL DEF Spec

-----------------------------------------------------------------------------
(* The claims and the gate.                                                *)

\* A claim the gate passes.
Sound(claim) ==
  /\ claim.status = "pending"
  /\ \E i \in claim.evidence : evidence[i].subject = claim.subject
  /\ \E i \in claim.evidence : evidence[i].round = round_no
  /\ claim.evidence \subseteq DOMAIN evidence

LEMMA SoundPasses == ASSUME NEW claim, Sound(claim) PROVE FailureReasons(claim) = <<>>
  BY DEF Sound, FailureReasons

\* report_writer: two claims of each segment, one of each role and two of the
\* run, every one with evidence of its subject and of the last round.
LEMMA WrittenSound ==
  ASSUME Loop, Evidenced, node = "report_writer"
  PROVE  /\ IsSeq(Written) /\ \A claim \in ToSet(Written) : Sound(claim)
         /\ Len(Written) = 2 * Cardinality(DOMAIN world) + Cardinality(DOMAIN RoleSummary) + 2
<1> DEFINE gus == Ascending(DOMAIN world)
           roles == SetToSeq(DOMAIN RoleSummary)
           pairs == [i \in DOMAIN gus |-> SegmentClaims(gus[i])]
           roleClaim(role) == Claim("drivers", <<"participant_role", role>>, RoleSummary[role],
                                    BySubject(<<"participant_role", role>>))
           people == [i \in DOMAIN roles |-> roleClaim(roles[i])]
           risks == Claim("risks", <<"simulation", run>>, Len(The(scenario).shocks),
                          ByKind("simulation_fact") \cup ByKind("round_fact"))
           summary == Claim("summary", <<"simulation", run>>, round_no,
                            ByKind("simulation_fact") \cup BySubject(<<"simulation", run>>))
           last == <<risks, summary>>
<1>1. Written = FlattenSeq(pairs) \o people \o last
    BY DEF Written
<1>2. /\ Enumerates(gus, DOMAIN world) /\ IsFiniteSet(DOMAIN world)
      /\ Enumerates(roles, DOMAIN RoleSummary) /\ IsFiniteSet(DOMAIN RoleSummary)
    BY Rows DEF Loop
<1>3. /\ \E i \in DOMAIN evidence : evidence[i] = RunFact
      /\ \A gu \in DOMAIN world : \E i \in DOMAIN evidence : evidence[i] = SegmentFact(gu)
      /\ \A role \in DOMAIN RoleSummary : \E i \in DOMAIN evidence : evidence[i] = RoleFact(role)
    BY DEF Evidenced, Told
<1>4. ASSUME NEW gu \in DOMAIN world
      PROVE  /\ SegmentClaims(gu) = [i \in 1..2 |-> SegmentClaims(gu)[i]]
             /\ \A i \in 1..2 : Sound(SegmentClaims(gu)[i])
  <2>1. PICK i \in DOMAIN evidence : evidence[i] = SegmentFact(gu)
      BY <1>3
  <2>2. evidence[i].subject = <<"segment", gu>> /\ evidence[i].round = round_no
      BY <2>1 DEF SegmentFact, Record
  <2>3. i \in BySubject(<<"segment", gu>>) /\ BySubject(<<"segment", gu>>) \subseteq DOMAIN evidence
      BY <2>2 DEF BySubject
  <2>4. \A k \in 1..2 :
          /\ SegmentClaims(gu)[k].subject = <<"segment", gu>>
          /\ SegmentClaims(gu)[k].evidence = BySubject(<<"segment", gu>>)
          /\ SegmentClaims(gu)[k].status = "pending"
      BY DEF SegmentClaims, Claim
  <2>5. SegmentClaims(gu) = [k \in 1..2 |-> SegmentClaims(gu)[k]]
      BY DEF SegmentClaims
  <2> QED
      BY <2>2, <2>3, <2>4, <2>5 DEF Sound
<1>5. ASSUME NEW role \in DOMAIN RoleSummary PROVE Sound(roleClaim(role))
  <2>1. PICK i \in DOMAIN evidence : evidence[i] = RoleFact(role)
      BY <1>3
  <2>2. evidence[i].subject = <<"participant_role", role>> /\ evidence[i].round = round_no
      BY <2>1 DEF RoleFact, Record
  <2>3. /\ i \in BySubject(<<"participant_role", role>>)
        /\ BySubject(<<"participant_role", role>>) \subseteq DOMAIN evidence
      BY <2>2 DEF BySubject
  <2>4. /\ roleClaim(role).subject = <<"participant_role", role>>
        /\ roleClaim(role).evidence = BySubject(<<"participant_role", role>>)
        /\ roleClaim(role).status = "pending"
      BY DEF Claim
  <2> QED
      BY <2>2, <2>3, <2>4 DEF Sound
<1>6. Sound(risks) /\ Sound(summary)
  <2>1. PICK i \in DOMAIN evidence : evidence[i] = RunFact
      BY <1>3
  <2>2. /\ evidence[i].subject = <<"simulation", run>> /\ evidence[i].round = round_no
        /\ evidence[i].kind = "simulation_fact"
      BY <2>1 DEF RunFact, Record
  <2>3. /\ i \in ByKind("simulation_fact") /\ ByKind("simulation_fact") \subseteq DOMAIN evidence
        /\ ByKind("round_fact") \subseteq DOMAIN evidence
        /\ BySubject(<<"simulation", run>>) \subseteq DOMAIN evidence
      BY <2>2 DEF ByKind, BySubject
  <2>4. /\ risks.subject = <<"simulation", run>> /\ risks.status = "pending"
        /\ risks.evidence = ByKind("simulation_fact") \cup ByKind("round_fact")
        /\ summary.subject = <<"simulation", run>> /\ summary.status = "pending"
        /\ summary.evidence = ByKind("simulation_fact") \cup BySubject(<<"simulation", run>>)
      BY DEF Claim
  <2> HIDE DEF risks, summary
  <2> QED
      BY <2>2, <2>3, <2>4 DEF Sound
<1>7. /\ IsSeq(FlattenSeq(pairs)) /\ Len(FlattenSeq(pairs)) = 2 * Cardinality(DOMAIN world)
      /\ \A claim \in ToSet(FlattenSeq(pairs)) : Sound(claim)
  <2> DEFINE C == {SegmentClaims(gu)[i] : gu \in DOMAIN world, i \in 1..2}
  <2>1. /\ DOMAIN gus = 1..Len(gus) /\ Len(gus) = Cardinality(DOMAIN world) /\ Len(gus) \in Nat
        /\ \A i \in DOMAIN gus : gus[i] \in DOMAIN world
    <3>1. gus \in Seq(DOMAIN world) /\ Len(gus) = Cardinality(DOMAIN world)
        BY <1>2 DEF Enumerates
    <3> HIDE DEF gus
    <3> QED
        BY <3>1
  <2>2. DOMAIN pairs = DOMAIN gus /\ \A i \in DOMAIN gus : pairs[i] = SegmentClaims(gus[i])
      OBVIOUS
  <2>3. ASSUME NEW gu \in DOMAIN world
        PROVE  SegmentClaims(gu) \in Seq(C) /\ Len(SegmentClaims(gu)) = 2
    <3>1. \A i \in 1..2 : SegmentClaims(gu)[i] \in C
        OBVIOUS
    <3> DEFINE c == SegmentClaims(gu)
    <3>2. c = [i \in 1..2 |-> c[i]] /\ \A i \in 1..2 : c[i] \in C
        BY <1>4, <3>1
    <3> HIDE DEF c, C
    <3> DEFINE two == 2
    <3>3. two \in Nat /\ c \in [1..two -> C]
        BY <3>2
    <3> HIDE DEF two
    <3>4. c \in Seq(C) /\ Len(c) = two
        BY <3>3
    <3> QED
        BY <3>4 DEF c, two
  <2>4. \A c \in C : Sound(c)
      BY <1>4
  <2> HIDE DEF C, gus
  <2>5. pairs \in [1..Len(gus) -> Seq(C)]
      BY <2>1, <2>2, <2>3
  <2>6. \A i \in DOMAIN pairs : Len(pairs[i]) = 2
      BY <2>1, <2>2, <2>3
  <2> HIDE DEF pairs
  <2>7. pairs \in Seq(Seq(C)) /\ Len(pairs) = Len(gus)
      BY <2>1, <2>5
  <2>8. /\ FlattenSeq(pairs) \in Seq(C)
        /\ ToSet(FlattenSeq(pairs)) = UNION {ToSet(pairs[i]) : i \in DOMAIN pairs}
      BY <2>7, FlattenElements
  <2>9. ToSet(FlattenSeq(pairs)) \subseteq C
      BY <2>8, ElementsFinite
  <2>10. Len(FlattenSeq(pairs)) = 2 * Len(pairs)
      BY <2>6, <2>7, FlattenPairs
  <2> QED
      BY <2>1, <2>4, <2>7, <2>8, <2>9, <2>10 DEF IsSeq
<1>8. /\ IsSeq(people) /\ Len(people) = Cardinality(DOMAIN RoleSummary)
      /\ \A claim \in ToSet(people) : Sound(claim)
  <2> DEFINE g == [role \in DOMAIN RoleSummary |-> roleClaim(role)]
  <2>1. \A i \in DOMAIN roles : roles[i] \in DOMAIN RoleSummary
      BY <1>2 DEF Enumerates, ToSet
  <2>2. \A i \in DOMAIN roles : people[i] = g[roles[i]]
      BY <2>1
  <2>3. DOMAIN people = DOMAIN roles /\ people = [i \in DOMAIN roles |-> people[i]]
      OBVIOUS
  <2>4. \A role \in DOMAIN RoleSummary : Sound(g[role])
      BY <1>5
  <2> HIDE DEF roles, people, g
  <2>5. /\ IsSeq(people) /\ ToSet(people) = {g[role] : role \in DOMAIN RoleSummary}
        /\ Len(people) = Cardinality(DOMAIN RoleSummary)
      BY <1>2, <2>2, <2>3, Mapped
  <2> QED
      BY <2>4, <2>5
<1> HIDE DEF risks, summary, pairs, people
<1>9. IsSeq(last) /\ Len(last) = 2 /\ \A claim \in ToSet(last) : Sound(claim)
  <2>1. last \in Seq({risks, summary}) /\ Len(last) = 2
      OBVIOUS
  <2>2. ToSet(last) \subseteq {risks, summary}
    <3> HIDE DEF last
    <3> QED
        BY <2>1, ElementsFinite
  <2> QED
      BY <1>6, <2>1, <2>2 DEF IsSeq
<1> HIDE DEF last
<1>10. /\ IsSeq(FlattenSeq(pairs) \o people)
       /\ ToSet(FlattenSeq(pairs) \o people) = ToSet(FlattenSeq(pairs)) \cup ToSet(people)
       /\ Len(FlattenSeq(pairs) \o people) = Len(FlattenSeq(pairs)) + Len(people)
    BY <1>7, <1>8, ConcatSets
<1> DEFINE most == FlattenSeq(pairs) \o people
<1>11. Written = most \o last /\ IsSeq(most)
    BY <1>1, <1>10
<1> HIDE DEF most
<1>12. /\ IsSeq(Written) /\ ToSet(Written) = ToSet(most) \cup ToSet(last)
       /\ Len(Written) = Len(most) + Len(last)
    BY <1>9, <1>11, ConcatSets
<1>13. /\ ToSet(Written) = ToSet(FlattenSeq(pairs)) \cup ToSet(people) \cup ToSet(last)
       /\ Len(Written) = Len(FlattenSeq(pairs)) + Len(people) + Len(last)
    BY <1>10, <1>12 DEF most
<1> QED
    BY <1>7, <1>8, <1>9, <1>12, <1>13

Claims == {"critic", "citation_gate", "report_renderer", "end"}

\* What the writer claims is sound, and the gate and the renderer have said so.
Gated ==
  /\ IsSeq(claims)
  /\ node \notin Claims => claims = <<>>
  /\ node \in Claims =>
       /\ \A c \in DOMAIN claims : Sound(claims[c])
       /\ Len(claims) = 2 * Cardinality(DOMAIN world) + Cardinality(DOMAIN RoleSummary) + 2
  /\ node \notin {"report_renderer", "end"} => Logged("CITATION_GATE") = {}
  /\ node \in {"report_renderer", "end"} =>
       \E i \in DOMAIN log : /\ Logged("CITATION_GATE") = {i}
                             /\ log[i].payload.total = Len(claims)
                             /\ log[i].payload.passed = Len(claims)
  /\ node # "end" => Logged("REPORT_RENDERED") = {}
  /\ node = "end" =>
       \E i \in DOMAIN log : /\ Logged("REPORT_RENDERED") = {i}
                             /\ log[i].payload.total = Len(claims)
                             /\ log[i].payload.passed = Len(claims)
                             /\ UNION log[i].payload.sections = DOMAIN claims

LEMMA InitGated == Init => Gated
<1>1. IsSeq(<<>>) /\ DOMAIN <<>> = {}
  <2>1. <<>> \in Seq(Nat) /\ DOMAIN <<>> = {}
      OBVIOUS
  <2> QED
      BY <2>1 DEF IsSeq
<1> QED
    BY <1>1 DEF Init, Gated, Claims, Logged

\* The places of the gate's and the renderer's events while others are logged.
LEMMA OtherEvents ==
  ASSUME IsSeq(log), NEW type, NEW round, NEW payload, EmitAt(type, round, payload), NEW other,
         other # type
  PROVE  /\ Logged(other)' = Logged(other)
         /\ \A i \in DOMAIN log : i \in DOMAIN log' /\ log'[i] = log[i]
<1>1. Extends(type, round, payload)
    BY Logging
<1> QED
    BY <1>1 DEF Extends

LEMMA EmptyConcat == ASSUME NEW s, IsSeq(s) PROVE <<>> \o s = s
<1>1. PICK S : s \in Seq(S)
    BY DEF IsSeq
<1> QED
    BY <1>1

\* Soundness survives while round and evidence stay.
LEMMA SoundStays ==
  ASSUME round_no' = round_no, evidence' = evidence PROVE \A claim : Sound(claim)' <=> Sound(claim)
  BY DEF Sound

LEMMA WriterGated == ASSUME Loop, Evidenced, Gated, ReportWriter PROVE Gated'
<1>1. /\ node = "report_writer" /\ node' = "critic" /\ claims' = claims \o Written
      /\ UNCHANGED <<world, participants, round_no, evidence>>
      /\ EmitAt("REPORT_WRITTEN", round_no, [claims |-> Len(Written)])
    BY DEF ReportWriter, At, rounds, Emit
<1>2. /\ IsSeq(Written) /\ \A claim \in ToSet(Written) : Sound(claim)
      /\ Len(Written) = 2 * Cardinality(DOMAIN world) + Cardinality(DOMAIN RoleSummary) + 2
    BY <1>1, WrittenSound
<1>3. claims' = Written
    BY <1>1, <1>2, EmptyConcat DEF Gated, Claims
<1>4. \A c \in DOMAIN claims' : Sound(claims[c])'
  <2>1. \A c \in DOMAIN Written : Written[c] \in ToSet(Written)
      BY DEF ToSet
  <2> QED
      BY <1>1, <1>2, <1>3, <2>1 DEF Sound
<1>5. RoleSummary' = RoleSummary
    BY <1>1 DEF RoleSummary
<1>6. Logged("CITATION_GATE")' = {} /\ Logged("REPORT_RENDERED")' = {}
    BY <1>1, OtherEvents DEF Gated, Loop, Typed
<1> QED
    BY <1>1, <1>2, <1>3, <1>4, <1>5, <1>6 DEF Gated, Claims

LEMMA GateGated == ASSUME Loop, Gated, CitationGate PROVE Gated'
<1> DEFINE q == [c \in DOMAIN claims |-> FailureReasons(claims[c])]
           payload == [total |-> Len(claims), failed |-> Len(FlattenSeq(q)),
                       passed |-> Len(claims) - Len(FlattenSeq(q))]
<1>1. /\ node = "citation_gate" /\ node' = "report_renderer"
      /\ UNCHANGED <<world, participants, round_no, claims, evidence>>
      /\ EmitAt("CITATION_GATE", round_no, payload)
    BY DEF CitationGate, At, rounds, Emit
<1>2. /\ IsSeq(claims) /\ \A c \in DOMAIN claims : Sound(claims[c])
      /\ Len(claims) = 2 * Cardinality(DOMAIN world) + Cardinality(DOMAIN RoleSummary) + 2
    BY <1>1 DEF Gated, Claims
<1>3. Len(claims) \in Nat /\ DOMAIN claims = 1..Len(claims)
  <2>1. PICK S : claims \in Seq(S)
      BY <1>2 DEF IsSeq
  <2> QED
      BY <2>1
<1>4. Len(FlattenSeq(q)) = 0
  <2>1. DOMAIN q = DOMAIN claims /\ \A c \in DOMAIN q : q[c] = <<>>
      BY <1>2, SoundPasses
  <2>2. <<>> \in Seq({}) /\ ToSet(<<>>) = {}
      BY DEF ToSet
  <2>3. q \in [1..Len(claims) -> Seq({})]
      BY <1>3, <2>1, <2>2
  <2>4. q \in Seq(Seq({}))
    <3> HIDE DEF q
    <3> QED
        BY <1>3, <2>3
  <2> HIDE DEF q
  <2>5. FlattenSeq(q) \in Seq({})
      BY <2>4, FlattenElements
  <2> QED
      BY <2>5
<1>5. payload.total = Len(claims) /\ payload.passed = Len(claims)
  <2> DEFINE failed == Len(FlattenSeq(q))
  <2>1. payload.total = Len(claims) /\ payload.passed = Len(claims) - failed
      OBVIOUS
  <2>2. failed = 0
      BY <1>4
  <2> HIDE DEF failed, payload
  <2> QED
      BY <1>3, <2>1, <2>2
<1> HIDE DEF payload
<1> DEFINE n == Len(log) + 1
<1>6. /\ n \in DOMAIN log' /\ log'[n].payload = payload
      /\ Logged("CITATION_GATE")' = {n} /\ Logged("REPORT_RENDERED")' = {}
  <2>1. Extends("CITATION_GATE", round_no, payload)
      BY <1>1, Logging DEF Loop, Typed
  <2>2. Logged("CITATION_GATE") = {} /\ Logged("REPORT_RENDERED") = {}
      BY <1>1 DEF Gated
  <2> QED
      BY <2>1, <2>2 DEF Extends
<1> HIDE DEF n
<1>7. RoleSummary' = RoleSummary
    BY <1>1 DEF RoleSummary
<1>8. \A c \in DOMAIN claims' : Sound(claims[c])'
    BY <1>1, <1>2 DEF Sound
<1> QED
    BY <1>1, <1>2, <1>5, <1>6, <1>7, <1>8 DEF Gated, Claims

LEMMA RendererGated == ASSUME Loop, Gated, ReportRenderer PROVE Gated'
<1> DEFINE shown == {c \in DOMAIN claims : claims[c].status \in {"passed", "pending"}}
           sections == {claims[c].section : c \in shown}
           payload == [total |-> Len(claims), passed |-> Cardinality(shown),
                       sections |-> {InSection(section, shown) : section \in sections}]
<1>1. /\ node = "report_renderer" /\ node' = "end"
      /\ UNCHANGED <<world, participants, round_no, claims, evidence>>
      /\ EmitAt("REPORT_RENDERED", round_no, payload)
    BY DEF ReportRenderer, At, rounds, Emit
<1>2. /\ IsSeq(claims) /\ \A c \in DOMAIN claims : Sound(claims[c])
      /\ Len(claims) = 2 * Cardinality(DOMAIN world) + Cardinality(DOMAIN RoleSummary) + 2
    BY <1>1 DEF Gated, Claims
<1>3. Len(claims) \in Nat /\ DOMAIN claims = 1..Len(claims)
  <2>1. PICK S : claims \in Seq(S)
      BY <1>2 DEF IsSeq
  <2> QED
      BY <2>1
<1>4. shown = DOMAIN claims
    BY <1>2 DEF Sound
<1>5. Cardinality(shown) = Len(claims)
    BY <1>3, <1>4, IntervalCount
<1>6. UNION {InSection(section, shown) : section \in sections} = shown
    BY DEF InSection
<1>7. /\ payload.total = Len(claims) /\ payload.passed = Len(claims)
      /\ UNION payload.sections = DOMAIN claims
    BY <1>4, <1>5, <1>6
<1> HIDE DEF payload
<1> DEFINE n == Len(log) + 1
<1>8. /\ n \in DOMAIN log' /\ log'[n].payload = payload
      /\ Logged("REPORT_RENDERED")' = {n}
      /\ \A i \in DOMAIN log : i \in DOMAIN log' /\ log'[i] = log[i]
      /\ Logged("CITATION_GATE")' = Logged("CITATION_GATE")
  <2>1. Extends("REPORT_RENDERED", round_no, payload)
      BY <1>1, Logging DEF Loop, Typed
  <2>2. Logged("REPORT_RENDERED") = {}
      BY <1>1 DEF Gated
  <2> QED
      BY <2>1, <2>2 DEF Extends
<1> HIDE DEF n
<1>9. PICK i \in DOMAIN log : /\ Logged("CITATION_GATE") = {i}
                              /\ log[i].payload.total = Len(claims)
                              /\ log[i].payload.passed = Len(claims)
    BY <1>1 DEF Gated
<1>10. RoleSummary' = RoleSummary
    BY <1>1 DEF RoleSummary
<1>11. \A c \in DOMAIN claims' : Sound(claims[c])'
    BY <1>1, <1>2 DEF Sound
<1> QED
    BY <1>1, <1>2, <1>7, <1>8, <1>9, <1>10, <1>11 DEF Gated, Claims

LEMMA StepGated == ASSUME Loop, Evidenced, Gated, [Next]_vars PROVE Gated'
<1>1. CASE ReportWriter \/ CitationGate \/ ReportRenderer
    BY <1>1, WriterGated, GateGated, RendererGated
<1>2. CASE UNCHANGED vars
  <2>1. UNCHANGED <<node, world, participants, round_no, claims, evidence, log>>
      BY <1>2 DEF vars, rounds, reported
  <2>2. RoleSummary' = RoleSummary /\ \A claim : Sound(claim)' <=> Sound(claim)
      BY <2>1, SoundStays DEF RoleSummary
  <2>3. \A type : Logged(type)' = Logged(type)
      BY <2>1 DEF Logged
  <2> QED
      BY <2>1, <2>2, <2>3 DEF Gated
<1>3. CASE Critic
  <2>1. /\ node = "critic" /\ node' = "citation_gate" /\ EmitAt("CRITIC", round_no, NoPayload)
        /\ UNCHANGED <<world, participants, round_no, claims, evidence>>
      BY <1>3 DEF Critic, At, rounds, reported, Emit
  <2>2. RoleSummary' = RoleSummary /\ \A claim : Sound(claim)' <=> Sound(claim)
      BY <2>1, SoundStays DEF RoleSummary
  <2>3. Logged("CITATION_GATE")' = {} /\ Logged("REPORT_RENDERED")' = {}
      BY <2>1, OtherEvents DEF Gated, Loop, Typed
  <2> QED
      BY <2>1, <2>2, <2>3 DEF Gated, Claims
<1>4. CASE InvokeAgain
  <2>1. /\ node' = "intake_planner" /\ claims' = <<>> /\ log' = <<>>
      BY <1>4 DEF InvokeAgain
  <2>2. IsSeq(<<>>) /\ DOMAIN <<>> = {}
      BY Fresh, SimulationGraphAssumption DEF Loop, Typed
  <2> QED
      BY <2>1, <2>2 DEF Gated, Claims, Logged
<1>5. CASE \/ IntakePlanner \/ ScenarioBuilder \/ WorldInitializer
           \/ \E reply \in Replies, readable \in BOOLEAN : PlanningRaises(reply, readable)
           \/ ParticipantDecider \/ RoundResolver \/ RoundSummarizer \/ EvidenceBuilder
  <2>1. claims' = claims /\ node \notin Claims
      BY <1>5 DEF IntakePlanner, ScenarioBuilder, WorldInitializer, PlanningRaises, Raise,
                  ParticipantDecider, RoundResolver, RoundSummarizer, EvidenceBuilder, At, Claims,
                  reported
  <2>2. node' \notin Claims
    <3>1. StartRounds \in {"participant_decider", "round_summarizer"}
        BY DEF StartRounds
    <3>2. \A trades : (IF ShouldContinue(trades) THEN "participant_decider" ELSE "round_summarizer")
                        \in {"participant_decider", "round_summarizer"}
        OBVIOUS
    <3> QED
        BY <1>5, <3>1, <3>2 DEF IntakePlanner, ScenarioBuilder, WorldInitializer, PlanningRaises,
                                Raise, ParticipantDecider, RoundResolver, RoundSummarizer,
                                EvidenceBuilder, Claims
  <2>3. Logged("CITATION_GATE") = {} /\ Logged("REPORT_RENDERED") = {}
      BY <2>1 DEF Gated, Claims
  <2>4. \/ log' = log
        \/ \E type \in {"INTAKE_PLANNED", "SCENARIO_BUILT", "WORLD_INITIALIZED", "DECISIONS_MADE",
                        "ROUND_RESOLVED", "SIMULATION_COMPLETED"} :
             \E round, payload : EmitAt(type, round, payload)
    <3>1. ASSUME IntakePlanner PROVE \E payload : EmitAt("INTAKE_PLANNED", round_no, payload)
        BY <3>1 DEF IntakePlanner, Emit
    <3>2. ASSUME ScenarioBuilder PROVE \E payload : EmitAt("SCENARIO_BUILT", round_no, payload)
        BY <3>2 DEF ScenarioBuilder, ScenarioFrom, ScenarioStub, Emit
    <3>3. ASSUME WorldInitializer PROVE \E payload : EmitAt("WORLD_INITIALIZED", 0, payload)
        BY <3>3 DEF WorldInitializer, WorldFromSnapshot, WorldStub
    <3>4. ASSUME ParticipantDecider PROVE \E payload : EmitAt("DECISIONS_MADE", round_no', payload)
        BY <3>4 DEF ParticipantDecider
    <3>5. ASSUME RoundResolver PROVE \E payload : EmitAt("ROUND_RESOLVED", round_no, payload)
        BY <3>5 DEF RoundResolver, Emit
    <3>6. ASSUME RoundSummarizer PROVE \E payload : EmitAt("SIMULATION_COMPLETED", round_no, payload)
        BY <3>6 DEF RoundSummarizer, Emit
    <3>7. ASSUME EvidenceBuilder \/ \E reply \in Replies, readable \in BOOLEAN :
                                      PlanningRaises(reply, readable)
          PROVE  log' = log
        BY <3>7 DEF EvidenceBuilder, PlanningRaises, Raise
    <3> QED
        BY <1>5, <3>1, <3>2, <3>3, <3>4, <3>5, <3>6, <3>7
  <2>5. Logged("CITATION_GATE")' = {} /\ Logged("REPORT_RENDERED")' = {}
    <3>1. CASE log' = log
        BY <2>3, <3>1 DEF Logged
    <3>2. ASSUME NEW type, type \notin {"CITATION_GATE", "REPORT_RENDERED"}, NEW round, NEW payload,
                 EmitAt(type, round, payload)
          PROVE  Logged("CITATION_GATE")' = {} /\ Logged("REPORT_RENDERED")' = {}
        BY <2>3, <3>2, OtherEvents DEF Loop, Typed
    <3> QED
        BY <2>4, <3>1, <3>2
  <2> QED
      BY <2>1, <2>2, <2>5 DEF Gated, Claims
<1> QED
    BY <1>1, <1>2, <1>3, <1>4, <1>5 DEF Next

\* SimulationGraph.GateAcceptsWriter: whatever other runs left in the evidence
\* store, the gate passes every claim the writer makes and the renderer shows
\* each of them (report_writer.py, citation_gate.py, report_renderer.py).
THEOREM GateAccepts == Spec => []GateAcceptsWriter
<1>1. ASSUME Loop, Gated PROVE GateAcceptsWriter
  <2> SUFFICES ASSUME node = "end"
               PROVE  \E i \in Logged("CITATION_GATE"), j \in Logged("REPORT_RENDERED") :
                        /\ Logged("CITATION_GATE") = {i} /\ Logged("REPORT_RENDERED") = {j}
                        /\ log[i].payload.passed = log[i].payload.total
                        /\ log[j].payload.passed = log[i].payload.passed
                        /\ log[j].payload.total = 2 * Cardinality(DOMAIN world)
                                                    + Cardinality(DOMAIN RoleSummary) + 2
                        /\ UNION log[j].payload.sections = DOMAIN claims
      BY DEF GateAcceptsWriter
  <2>1. PICK i \in DOMAIN log : /\ Logged("CITATION_GATE") = {i}
                                /\ log[i].payload.total = Len(claims)
                                /\ log[i].payload.passed = Len(claims)
      BY <1>1 DEF Gated
  <2>2. PICK j \in DOMAIN log : /\ Logged("REPORT_RENDERED") = {j}
                                /\ log[j].payload.total = Len(claims)
                                /\ log[j].payload.passed = Len(claims)
                                /\ UNION log[j].payload.sections = DOMAIN claims
      BY <1>1 DEF Gated
  <2>3. Len(claims) = 2 * Cardinality(DOMAIN world) + Cardinality(DOMAIN RoleSummary) + 2
      BY <1>1 DEF Gated, Claims
  <2> QED
      BY <2>1, <2>2, <2>3
<1>2. Init => Loop /\ Evidenced /\ Gated
    BY InitLoop, InitEvidenced, InitGated DEF Loop
<1>3. Loop /\ Evidenced /\ Gated /\ [Next]_vars => (Loop /\ Evidenced /\ Gated)'
    BY NextLoop, StepEvidenced, StepGated
<1> QED
    BY <1>1, <1>2, <1>3, PTL DEF Spec
-----------------------------------------------------------------------------
(* The plan of a run.                                                      *)

Has(type) == Logged(type) # {}

\* What the log holds when.
Ordered ==
  /\ node = "intake_planner" => log = <<>>
  /\ node = "scenario_builder" => Len(log) = 1
  /\ node \in {"intake_planner", "scenario_builder"} => ~Has("SCENARIO_BUILT")
  /\ node \in Early \cup {"raised"} => ~Has("WORLD_INITIALIZED")
  /\ node = "world_initializer" => Has("SCENARIO_BUILT") /\ Len(log) = 2
  /\ node \notin Early \cup {"raised"} =>
       Has("SCENARIO_BUILT") /\ Has("WORLD_INITIALIZED") /\ Len(log) > 1
  /\ Has("SCENARIO_BUILT") => Len(log) > 1
  /\ log = <<>> => plan = {} /\ warnings = <<>>
  /\ log # <<>> => plan # {}

\* A scenario planned over the rows of a snapshot.
Serves(s, rows) ==
  /\ ToSet(s.gus) \subseteq Codes(rows)
  /\ s.start = AddMonths(Coverage(rows).max_period, 1)
  /\ \A i \in DOMAIN rows : Later(s.start, rows[i].period)
  /\ ~Later(s.start, s.end)
  /\ IsInjective(s.shocks) /\ ToSet(s.shocks) \subseteq SupportedShockKeys
  /\ The(plan).mode = "stress" => s.shocks # <<>>

\* What the model planned, and the world and the participants made of it.
Servable ==
  /\ BuildsScenario /\ Has("SCENARIO_BUILT") =>
       /\ seed.snapshot # {} /\ scenario # {} /\ roster # {} /\ max_rounds # {}
       /\ Serves(The(scenario), The(seed.snapshot).rows)
       /\ The(max_rounds) \in 1..8
  /\ BuildsScenario /\ Has("WORLD_INITIALIZED") =>
       /\ DOMAIN world = ToSet(The(scenario).gus)
       /\ participants # {} /\ {p[1] : p \in participants} \subseteq Roles

Prepared == Ordered /\ Servable

\* What is logged stays logged.
LEMMA HasMore ==
  ASSUME IsSeq(log), NEW type, NEW round, NEW payload, EmitAt(type, round, payload)
  PROVE  /\ Has(type)' /\ (\A other : other # type => Has(other)' = Has(other))
         /\ Len(log) \in Nat /\ Len(log') = Len(log) + 1 /\ log' # <<>>
         /\ IsSeq(log)'
<1>1. Extends(type, round, payload)
    BY Logging
<1>2. PICK S : log \in Seq(S)
    BY DEF IsSeq
<1> DEFINE e == [type |-> type, round |-> round, payload |-> payload]
<1>3. log' = Append(log, e)
    BY DEF EmitAt
<1> HIDE DEF e
<1>4. log \in Seq(S \cup {e})
    BY <1>2, SeqMonotonic
<1>5. Len(log) \in Nat /\ Len(log') = Len(log) + 1 /\ log' # <<>>
    BY <1>3, <1>4
<1> QED
    BY <1>1, <1>5 DEF Has, Extends

LEMMA InitPlanning == Init => Prepared
<1>1. DOMAIN <<>> = {}
    OBVIOUS
<1> QED
    BY <1>1 DEF Init, Prepared, Ordered, Servable, Has, Logged, Early

\* The steps once the world is there keep the plan and add events.
Onward == ParticipantDecider \/ RoundResolver \/ Reporting

LEMMA OnwardFrame ==
  ASSUME Loop, Ordered, Onward
  PROVE  /\ node \notin Early \cup {"raised"} /\ node' \notin Early \cup {"raised"}
         /\ UNCHANGED <<build, run, seed, plan, scenario, roster, max_rounds, participants>>
         /\ DOMAIN world' = DOMAIN world /\ Summary(world)' = Summary(world)
         /\ Has("SCENARIO_BUILT")' /\ Has("WORLD_INITIALIZED")' /\ Len(log') > 1 /\ log' # <<>>
         /\ Has("SCENARIO_BUILT") /\ Has("WORLD_INITIALIZED") /\ log # <<>>
<1>1. /\ node \notin Early \cup {"raised"} /\ node' \notin Early \cup {"raised"}
      /\ UNCHANGED <<build, run, seed, plan, scenario, roster, max_rounds, participants>>
  <2>1. CASE Reporting
      BY <2>1, ReportingFrame DEF Loop, Typed, Reports, Early
  <2>2. CASE ParticipantDecider
      BY <2>2 DEF ParticipantDecider, At, caller, planned, Early
  <2>3. CASE RoundResolver
    <3>1. \A trades : (IF ShouldContinue(trades) THEN "participant_decider" ELSE "round_summarizer")
                        \in {"participant_decider", "round_summarizer"}
        OBVIOUS
    <3>2. node' \in {"participant_decider", "round_summarizer"}
        BY <2>3, <3>1 DEF RoundResolver
    <3> QED
        BY <2>3, <3>2 DEF RoundResolver, At, caller, Early
  <2> QED
      BY <2>1, <2>2, <2>3 DEF Onward
<1>2. DOMAIN world' = DOMAIN world /\ \A gu \in DOMAIN world : world'[gu].start = world[gu].start
  <2>1. CASE world' = world
      BY <2>1
  <2>2. CASE world' = [world EXCEPT ![Target].moved = round_no]
    <3>1. DOMAIN world' = DOMAIN world
        BY <2>2 DEF Loop, Provided
    <3>2. ASSUME NEW gu \in DOMAIN world PROVE world'[gu].start = world[gu].start
      <4>1. world[gu] = [start |-> world[gu].start, moved |-> world[gu].moved]
          BY DEF Loop, Provided
      <4>2. world'[gu] = world[gu] \/ world'[gu] = [world[gu] EXCEPT !.moved = round_no]
          BY <2>2 DEF Loop, Provided
      <4> QED
          BY <4>1, <4>2
    <3> QED
        BY <3>1, <3>2
  <2>3. world' = world \/ world' = [world EXCEPT ![Target].moved = round_no]
    <3>1. CASE Reporting
        BY <3>1, ReportingFrame DEF Loop, Typed
    <3>2. CASE ParticipantDecider
        BY <3>2 DEF ParticipantDecider
    <3>3. CASE RoundResolver
        BY <3>3 DEF RoundResolver
    <3> QED
        BY <3>1, <3>2, <3>3 DEF Onward
  <2> QED
      BY <2>1, <2>2, <2>3
<1>3. Summary(world)' = Summary(world)
    BY <1>2 DEF Summary
<1>4. \/ log' = log
      \/ \E type \in {"DECISIONS_MADE", "ROUND_RESOLVED", "SIMULATION_COMPLETED", "REPORT_WRITTEN",
                      "CRITIC", "CITATION_GATE", "REPORT_RENDERED"} :
           \E round, payload : EmitAt(type, round, payload)
  <2>1. ASSUME ParticipantDecider PROVE \E payload : EmitAt("DECISIONS_MADE", round_no', payload)
      BY <2>1 DEF ParticipantDecider
  <2>2. ASSUME RoundResolver PROVE \E payload : EmitAt("ROUND_RESOLVED", round_no, payload)
      BY <2>2 DEF RoundResolver, Emit
  <2>3. ASSUME RoundSummarizer PROVE \E payload : EmitAt("SIMULATION_COMPLETED", round_no, payload)
      BY <2>3 DEF RoundSummarizer, Emit
  <2>4. ASSUME EvidenceBuilder PROVE log' = log
      BY <2>4 DEF EvidenceBuilder
  <2>5. ASSUME ReportWriter PROVE \E payload : EmitAt("REPORT_WRITTEN", round_no, payload)
      BY <2>5 DEF ReportWriter, Emit
  <2>6. ASSUME Critic PROVE \E payload : EmitAt("CRITIC", round_no, payload)
      BY <2>6 DEF Critic, Emit
  <2>7. ASSUME CitationGate PROVE \E payload : EmitAt("CITATION_GATE", round_no, payload)
      BY <2>7 DEF CitationGate, Emit
  <2>8. ASSUME ReportRenderer PROVE \E payload : EmitAt("REPORT_RENDERED", round_no, payload)
      BY <2>8 DEF ReportRenderer, Emit
  <2> QED
      BY <2>1, <2>2, <2>3, <2>4, <2>5, <2>6, <2>7, <2>8 DEF Onward, Reporting
<1>5. Has("SCENARIO_BUILT") /\ Has("WORLD_INITIALIZED") /\ Len(log) > 1 /\ log # <<>>
  <2>1. Has("SCENARIO_BUILT") /\ Has("WORLD_INITIALIZED") /\ Len(log) > 1
      BY <1>1 DEF Ordered
  <2> QED
      BY <2>1
<1>6. Has("SCENARIO_BUILT")' /\ Has("WORLD_INITIALIZED")' /\ Len(log') > 1 /\ log' # <<>>
  <2>1. CASE log' = log
      BY <1>5, <2>1 DEF Has, Logged
  <2>2. ASSUME NEW type \in {"DECISIONS_MADE", "ROUND_RESOLVED", "SIMULATION_COMPLETED",
                             "REPORT_WRITTEN", "CRITIC", "CITATION_GATE", "REPORT_RENDERED"},
               NEW round, NEW payload, EmitAt(type, round, payload)
        PROVE  Has("SCENARIO_BUILT")' /\ Has("WORLD_INITIALIZED")' /\ Len(log') > 1 /\ log' # <<>>
    <3>1. /\ \A other : other # type => Has(other)' = Has(other)
          /\ Len(log) \in Nat /\ Len(log') = Len(log) + 1 /\ log' # <<>>
        BY <2>2, HasMore DEF Loop, Typed
    <3>2. Len(log') > 1
        BY <1>5, <3>1
    <3> QED
        BY <1>5, <3>1, <3>2
  <2> QED
      BY <1>4, <2>1, <2>2
<1> QED
    BY <1>1, <1>2, <1>3, <1>5, <1>6

LEMMA OnwardPlanning == ASSUME Loop, Prepared, Onward PROVE Prepared'
<1>1. /\ node \notin Early \cup {"raised"} /\ node' \notin Early \cup {"raised"}
      /\ UNCHANGED <<build, run, seed, plan, scenario, roster, max_rounds, participants>>
      /\ DOMAIN world' = DOMAIN world
      /\ Has("SCENARIO_BUILT")' /\ Has("WORLD_INITIALIZED")' /\ Len(log') > 1 /\ log' # <<>>
      /\ Has("SCENARIO_BUILT") /\ Has("WORLD_INITIALIZED") /\ log # <<>>
    BY OnwardFrame DEF Prepared
<1>2. Ordered'
    BY <1>1 DEF Prepared, Ordered, Early
<1>3. Servable'
    BY <1>1 DEF Prepared, Servable, Serves, BuildsScenario
<1> QED
    BY <1>2, <1>3 DEF Prepared

LEMMA IntakePlanning == ASSUME Loop, Prepared, IntakePlanner PROVE Prepared'
<1>1. /\ node = "intake_planner" /\ node' = "scenario_builder" /\ log = <<>>
      /\ \E payload : EmitAt("INTAKE_PLANNED", round_no, payload)
      /\ plan' # {}
    BY DEF IntakePlanner, At, Emit, Prepared, Ordered
<1>2. Len(log) = 0
    BY <1>1
<1>3. /\ Has("SCENARIO_BUILT")' = Has("SCENARIO_BUILT")
      /\ Has("WORLD_INITIALIZED")' = Has("WORLD_INITIALIZED")
      /\ Len(log') = 1 /\ log' # <<>>
    BY <1>1, <1>2, HasMore DEF Loop, Typed
<1>4. ~Has("SCENARIO_BUILT") /\ ~Has("WORLD_INITIALIZED")
    BY <1>1 DEF Prepared, Ordered, Early
<1> QED
    BY <1>1, <1>3, <1>4 DEF Prepared, Ordered, Servable, Early

LEMMA ScenarioPlanning == ASSUME Loop, Prepared, ScenarioBuilder PROVE Prepared'
<1>1. /\ node = "scenario_builder" /\ node' = "world_initializer"
      /\ UNCHANGED <<build, run, seed, plan>> /\ plan # {}
      /\ \E payload : EmitAt("SCENARIO_BUILT", round_no, payload)
    BY DEF ScenarioBuilder, ScenarioFrom, ScenarioStub, At, Emit, caller, Loop, Provided
<1>2. Len(log) = 1 /\ ~Has("WORLD_INITIALIZED")
    BY <1>1 DEF Prepared, Ordered, Early
<1>3. /\ Has("SCENARIO_BUILT")' /\ ~Has("WORLD_INITIALIZED")'
      /\ Len(log') = 2 /\ log' # <<>>
    BY <1>1, <1>2, HasMore DEF Loop, Typed
<1>4. Ordered'
    BY <1>1, <1>3 DEF Ordered, Early
<1>5. ASSUME BuildsScenario
      PROVE  /\ seed.snapshot # {} /\ scenario' # {} /\ roster' # {} /\ max_rounds' # {}
             /\ Serves(The(scenario), The(seed.snapshot).rows)' /\ The(max_rounds)' \in 1..8
  <2>1. PICK s \in Selections : seed.snapshot # {} /\ ScenarioFrom(s)
      BY <1>5 DEF ScenarioBuilder, GenerateStructured
  <2> DEFINE rows == The(seed.snapshot).rows
             coverage == Coverage(rows)
             built == BuildScenario(The(plan), s, coverage)
  <2>2. /\ rows \in Seq(GoldRows) \ {<<>>} /\ Covers(coverage, rows)
        /\ Built(built, coverage, The(plan).mode)
      BY <1>1, <1>5, <2>1, ScenarioPlanned DEF Loop
  <2>3. scenario' = {built.scenario} /\ roster' = {built.roster} /\ max_rounds' = {built.max_rounds}
      BY <2>1 DEF ScenarioFrom
  <2>4. \A i \in DOMAIN rows : rows[i].period \in Months
      BY <2>2, RowTypes
  <2> HIDE DEF built
  <2>5. The(scenario)' = built.scenario /\ The(max_rounds)' = built.max_rounds
      BY <2>3 DEF The
  <2>6. UNCHANGED <<plan, seed>>
      BY <1>1
  <2>7. ToSet(built.scenario.gus) \subseteq Codes(rows)
      BY <2>2 DEF Built, Covers
  <2>8. /\ \A i \in DOMAIN rows : Later(built.scenario.start, rows[i].period)
        /\ ~Later(built.scenario.start, built.scenario.end)
    <3>1. /\ Index(built.scenario.start) = Index(coverage.max_period) + 1
          /\ Index(built.scenario.end) >= Index(built.scenario.start)
          /\ built.scenario \in Scenarios
        BY <2>2 DEF Built
    <3>2. /\ Index(coverage.max_period) \in Nat /\ Index(built.scenario.start) \in Nat
          /\ Index(built.scenario.end) \in Nat
        BY <2>2, <3>1, IndexNat DEF Covers, Scenarios
    <3>3. \A i \in DOMAIN rows : /\ Index(rows[i].period) \in Nat
                                 /\ ~(Index(rows[i].period) > Index(coverage.max_period))
        BY <2>2, <2>4, IndexNat DEF Covers, Later
    <3> HIDE DEF coverage, rows
    <3> QED
        BY <3>1, <3>2, <3>3 DEF Later
  <2>9. Serves(built.scenario, rows)
      BY <2>2, <2>7, <2>8 DEF Serves, Built
  <2>10. Serves(The(scenario), The(seed.snapshot).rows)'
      BY <2>5, <2>6, <2>9 DEF Serves, The
  <2> QED
      BY <2>1, <2>2, <2>3, <2>5, <2>10 DEF Built
<1>6. Servable'
    BY <1>1, <1>3, <1>5 DEF Servable, BuildsScenario
<1> QED
    BY <1>4, <1>6 DEF Prepared

LEMMA WorldPlanning == ASSUME Loop, Prepared, WorldInitializer PROVE Prepared'
<1>1. /\ node = "world_initializer" /\ node' = StartRounds
      /\ UNCHANGED <<build, run, seed, plan, scenario, roster>>
      /\ \E payload : EmitAt("WORLD_INITIALIZED", 0, payload)
    BY DEF WorldInitializer, At, caller, WorldFromSnapshot, WorldStub
<1>2. Has("SCENARIO_BUILT") /\ Len(log) = 2 /\ plan # {}
  <2>1. Has("SCENARIO_BUILT") /\ Len(log) = 2
      BY <1>1 DEF Prepared, Ordered
  <2>2. log # <<>>
      BY <2>1
  <2> QED
      BY <2>1, <2>2 DEF Prepared, Ordered
<1>3. /\ Has("SCENARIO_BUILT")' /\ Has("WORLD_INITIALIZED")'
      /\ Len(log') = 3 /\ log' # <<>>
    BY <1>1, <1>2, HasMore DEF Loop, Typed
<1>4. node' \in {"participant_decider", "round_summarizer"}
    BY <1>1 DEF StartRounds
<1>5. Ordered'
    BY <1>1, <1>2, <1>3, <1>4 DEF Ordered, Early
<1>6. ASSUME BuildsScenario
      PROVE  /\ max_rounds' = max_rounds
             /\ DOMAIN world' = ToSet(The(scenario).gus)
             /\ participants' # {} /\ {p[1] : p \in participants'} \subseteq Roles
  <2>1. WorldFromSnapshot
      BY <1>6 DEF WorldInitializer, BuildsScenario
  <2>2. max_rounds' = max_rounds
        /\ DOMAIN world' = DOMAIN BuildWorld(The(seed.snapshot), The(scenario).gus)
      BY <2>1 DEF WorldFromSnapshot
  <2>3. participants' # {} /\ {p[1] : p \in participants'} \subseteq Roles
      BY <1>1, NewWorld DEF Loop
  <2> QED
      BY <2>2, <2>3 DEF BuildWorld
<1>7. Servable'
    BY <1>1, <1>2, <1>6 DEF Prepared, Servable, BuildsScenario, Serves
<1> QED
    BY <1>5, <1>7 DEF Prepared

LEMMA StepPlanning == ASSUME Loop, Prepared, [Next]_vars PROVE Prepared'
<1>1. CASE Onward
    BY <1>1, OnwardPlanning
<1>2. CASE IntakePlanner \/ ScenarioBuilder \/ WorldInitializer
    BY <1>2, IntakePlanning, ScenarioPlanning, WorldPlanning
<1>3. CASE \E reply \in Replies, readable \in BOOLEAN : PlanningRaises(reply, readable)
  <2>1. /\ node \in Early /\ node' = "raised"
        /\ UNCHANGED <<build, seed, plan, scenario, roster, max_rounds, world, participants>>
        /\ UNCHANGED <<warnings, log>>
      BY <1>3 DEF PlanningRaises, At, Early, Raise, caller, planned, rounds, reported
  <2>2. \A type : Has(type)' = Has(type)
      BY <2>1 DEF Has, Logged
  <2> QED
      BY <2>1, <2>2 DEF Prepared, Ordered, Servable, Serves, BuildsScenario, Early
<1>4. CASE InvokeAgain
  <2>1. /\ node' = "intake_planner" /\ plan' = {} /\ warnings' = <<>> /\ log' = <<>>
      BY <1>4 DEF InvokeAgain
  <2>2. DOMAIN <<>> = {}
      OBVIOUS
  <2> QED
      BY <2>1, <2>2 DEF Prepared, Ordered, Servable, Has, Logged, Early
<1>5. CASE UNCHANGED vars
  <2>1. /\ UNCHANGED <<node, build, seed, plan, scenario, roster, max_rounds, world, participants>>
        /\ UNCHANGED <<warnings, log>>
      BY <1>5 DEF vars, caller, planned, rounds, reported
  <2>2. \A type : Has(type)' = Has(type)
      BY <2>1 DEF Has, Logged
  <2> QED
      BY <2>1, <2>2 DEF Prepared, Ordered, Servable, Serves, BuildsScenario
<1> QED
    BY <1>1, <1>2, <1>3, <1>4, <1>5 DEF Next, Onward, Reporting

\* SimulationGraph.PlanServable: whatever the model answers, a scenario it
\* planned can be simulated over the snapshot (scenario_builder.py,
\* world_initializer.py).
THEOREM PlansServable == Spec => []PlanServable
<1>1. ASSUME Loop, Prepared PROVE PlanServable
  <2> SUFFICES ASSUME BuildsScenario, DOMAIN world # {} PROVE PlanServable
      BY DEF PlanServable
  <2>1. node \notin Early \cup {"raised"}
      BY <1>1 DEF Loop, Counted
  <2>2. Has("SCENARIO_BUILT") /\ Has("WORLD_INITIALIZED")
      BY <1>1, <2>1 DEF Prepared, Ordered
  <2>3. /\ Serves(The(scenario), The(seed.snapshot).rows) /\ The(max_rounds) \in 1..8
        /\ DOMAIN world = ToSet(The(scenario).gus)
        /\ participants # {} /\ {p[1] : p \in participants} \subseteq Roles
      BY <1>1, <2>2 DEF Prepared, Servable
  <2> QED
      BY <2>3 DEF PlanServable, Serves
<1>2. Init => Loop /\ Prepared
    BY InitLoop, InitPlanning DEF Loop
<1>3. Loop /\ Prepared /\ [Next]_vars => (Loop /\ Prepared)'
    BY NextLoop, StepPlanning
<1> QED
    BY <1>1, <1>2, <1>3, PTL DEF Spec

-----------------------------------------------------------------------------
(* Replaying a log.                                                        *)

\* The states of a replay of the first k events of l.
Follows(f, l, strict, k) ==
  f = [n \in 0..k |-> IF n = 0 THEN Blank ELSE Step(f[n - 1], l[n], strict)]

LEMMA ReplayDefined ==
  ASSUME NEW l, NEW strict, NEW N \in Nat PROVE \E f : Follows(f, l, strict, N)
<1> DEFINE Defined(k) == \E f : Follows(f, l, strict, k)
           T == {k \in Nat : Defined(k)}
<1>1. 0 \in T
  <2> DEFINE f == [n \in 0..0 |-> Blank]
  <2>1. Follows(f, l, strict, 0)
      BY DEF Follows
  <2> QED
      BY <2>1
<1>2. ASSUME NEW k \in Nat, Defined(k) PROVE Defined(k + 1)
  <2>1. PICK f : Follows(f, l, strict, k)
      BY <1>2
  <2> DEFINE g == [n \in 0..(k + 1) |-> IF n = 0 THEN Blank ELSE Step(f[n - 1], l[n], strict)]
  <2>2. \A n \in 0..(k + 1) : n # 0 => n - 1 \in 0..k
      OBVIOUS
  <2>3. \A n \in 0..k : g[n] = f[n]
    <3>1. \A n \in 0..k : f[n] = IF n = 0 THEN Blank ELSE Step(f[n - 1], l[n], strict)
        BY <2>1, Zenon DEF Follows
    <3>2. \A n \in 0..k : n \in 0..(k + 1)
        OBVIOUS
    <3>3. \A n \in 0..(k + 1) : g[n] = IF n = 0 THEN Blank ELSE Step(f[n - 1], l[n], strict)
        OBVIOUS
    <3> HIDE DEF g
    <3> QED
        BY <3>1, <3>2, <3>3, Zenon
  <2>4. \A n \in 0..(k + 1) : n # 0 => g[n - 1] = f[n - 1]
      BY <2>2, <2>3
  <2>5. Follows(g, l, strict, k + 1)
      BY <2>4 DEF Follows
  <2> QED
      BY <2>5
<1> HIDE DEF Defined
<1>3. Nat \subseteq T
  <2>1. ASSUME NEW k \in Nat, k \in T PROVE k + 1 \in T
      BY <1>2, <2>1
  <2> HIDE DEF T
  <2> QED
      BY <1>1, <2>1, NatInductive
<1>4. Defined(N)
    BY <1>3
<1> QED
    BY <1>4 DEF Defined

\* An event more is a step more.
LEMMA ReplayedMore ==
  ASSUME NEW S, NEW l \in Seq(S), NEW e \in S, NEW strict
  PROVE  Replayed(Append(l, e), strict) = Step(Replayed(l, strict), e, strict)
<1> DEFINE N == Len(l)
           m == Append(l, e)
           f == CHOOSE h : Follows(h, l, strict, N)
           g == CHOOSE h : Follows(h, m, strict, Len(m))
<1>1. /\ N \in Nat /\ Len(m) = N + 1 /\ m[N + 1] = e
      /\ \A n \in 1..N : m[n] = l[n]
    OBVIOUS
<1>2. Replayed(l, strict) = f[N] /\ Replayed(m, strict) = g[Len(m)]
    BY DEF Replayed, Follows
<1> HIDE DEF N, m
<1>3. Follows(f, l, strict, N) /\ Follows(g, m, strict, N + 1)
  <2>1. Follows(f, l, strict, N)
      BY <1>1, ReplayDefined
  <2>2. Follows(g, m, strict, Len(m))
      BY <1>1, ReplayDefined
  <2> QED
      BY <1>1, <2>1, <2>2
<1> HIDE DEF f, g
<1>4. \A n \in 0..N : f[n] = IF n = 0 THEN Blank ELSE Step(f[n - 1], l[n], strict)
    BY <1>3, Zenon DEF Follows
<1>5. \A n \in 0..(N + 1) : g[n] = IF n = 0 THEN Blank ELSE Step(g[n - 1], m[n], strict)
    BY <1>3, Zenon DEF Follows
<1> DEFINE T == {n \in Nat : n \in 0..N => g[n] = f[n]}
<1>6. 0 \in T
    BY <1>1, <1>4, <1>5
<1>7. ASSUME NEW n \in Nat, n \in T PROVE n + 1 \in T
  <2> SUFFICES ASSUME n + 1 \in 0..N PROVE g[n + 1] = f[n + 1]
      OBVIOUS
  <2>1. n \in 0..N /\ n + 1 \in 0..(N + 1) /\ n + 1 # 0 /\ (n + 1) - 1 = n /\ n + 1 \in 1..N
      BY <1>1
  <2>2. g[n] = f[n] /\ m[n + 1] = l[n + 1]
      BY <1>1, <1>7, <2>1
  <2>3. g[n + 1] = Step(g[n], m[n + 1], strict) /\ f[n + 1] = Step(f[n], l[n + 1], strict)
      BY <1>4, <1>5, <2>1
  <2> QED
      BY <2>2, <2>3
<1>8. Nat \subseteq T
  <2> HIDE DEF T
  <2> QED
      BY <1>6, <1>7, NatInductive
<1>9. g[N] = f[N]
    BY <1>1, <1>8
<1>10. g[N + 1] = Step(g[N], e, strict)
  <2>1. N + 1 \in 0..(N + 1) /\ N + 1 # 0 /\ (N + 1) - 1 = N
      BY <1>1
  <2> QED
      BY <1>1, <1>5, <2>1
<1> QED
    BY <1>1, <1>2, <1>9, <1>10 DEF m

LEMMA ReplayedNothing == ASSUME NEW strict PROVE Replayed(<<>>, strict) = Blank
<1> DEFINE f == CHOOSE h : Follows(h, <<>>, strict, 0)
<1>1. Len(<<>>) = 0
    OBVIOUS
<1>2. Replayed(<<>>, strict) = f[0]
    BY <1>1 DEF Replayed, Follows
<1>3. Follows(f, <<>>, strict, 0)
    BY ReplayDefined
<1> HIDE DEF f
<1>4. \A n \in 0..0 : f[n] = IF n = 0 THEN Blank ELSE Step(f[n - 1], <<>>[n], strict)
    BY <1>3, Zenon DEF Follows
<1>5. 0 \in 0..0
    OBVIOUS
<1> QED
    BY <1>2, <1>4, <1>5

Fields == {"raised", "intake_plan", "scenario", "roster", "max_rounds", "round_no", "actions",
           "resolved", "warnings", "skipped", "world_summary", "participant_count", "anchor"}
Shaped(s) == DOMAIN s = Fields /\ s = [f \in DOMAIN s |-> s[f]]

\* t is s but for the fields that changed.
Same(s, t, changed) == Shaped(t) /\ \A f \in Fields \ changed : t[f] = s[f]

Event(type, round, payload) == [type |-> type, round |-> round, payload |-> payload]

\* What a handler does to a state that has not raised, by the type of the event.
LEMMA IntakeHandled ==
  ASSUME NEW s, Shaped(s), ~s.raised, NEW strict, NEW round, NEW payload, NEW t,
         t = Step(s, Event("INTAKE_PLANNED", round, payload), strict)
  PROVE  IF "plan" \in DOMAIN payload
           THEN Same(s, t, {"intake_plan"}) /\ t.intake_plan = {payload.plan}
           ELSE Same(s, t, {"raised"}) /\ t.raised
<1>1. t = HandleIntakePlanned(s, payload)
    BY DEF Step, Handle, Event
<1> QED
    BY <1>1 DEF HandleIntakePlanned, Carries, Failed, Same, Shaped, Fields

LEMMA DecisionsHandled ==
  ASSUME NEW s, Shaped(s), ~s.raised, NEW strict, NEW round, NEW n, NEW chosen, NEW t,
         t = Step(s, Event("DECISIONS_MADE", round, [round_no |-> n, actions |-> chosen]), strict)
  PROVE  /\ Same(s, t, {"round_no", "actions"})
         /\ t.round_no = {n} /\ t.actions = {chosen}
<1> DEFINE payload == [round_no |-> n, actions |-> chosen]
<1>1. t = HandleDecisionsMade(s, payload)
    BY DEF Step, Handle, Event
<1>2. Carried(payload, "round_no") = {n} /\ Carried(payload, "actions") = {chosen}
    BY DEF Carried, Carries
<1> HIDE DEF payload
<1>3. t = [s EXCEPT !.round_no = {n}, !.actions = {chosen}]
    BY <1>1, <1>2 DEF HandleDecisionsMade, KeepOlder
<1> QED
    BY <1>3 DEF Same, Shaped, Fields

LEMMA ScenarioHandled ==
  ASSUME NEW s, Shaped(s), ~s.raised, NEW strict, NEW round, NEW payload, NEW t,
         t = Step(s, Event("SCENARIO_BUILT", round, payload), strict),
         {"scenario", "roster", "max_rounds"} \subseteq DOMAIN payload
  PROVE  /\ Same(s, t, {"scenario", "roster", "max_rounds", "warnings"})
         /\ t.scenario = {payload.scenario} /\ t.roster = {payload.roster}
         /\ t.max_rounds = {payload.max_rounds}
         /\ t.warnings = s.warnings \o Warned(payload)
<1>1. t = HandleScenarioBuilt(s, payload)
    BY DEF Step, Handle, Event
<1>2. t = [s EXCEPT !.scenario = {payload.scenario}, !.roster = {payload.roster},
                    !.max_rounds = {payload.max_rounds},
                    !.warnings = s.warnings \o Warned(payload)]
    BY <1>1 DEF HandleScenarioBuilt, Carries, Shaped, Fields
<1> QED
    BY <1>2 DEF Same, Shaped, Fields

LEMMA ScenarioRaises ==
  ASSUME NEW s, Shaped(s), ~s.raised, NEW strict, NEW round, NEW payload,
         ~({"scenario", "roster", "max_rounds"} \subseteq DOMAIN payload)
  PROVE  Step(s, Event("SCENARIO_BUILT", round, payload), strict).raised
<1>1. Step(s, Event("SCENARIO_BUILT", round, payload), strict) = HandleScenarioBuilt(s, payload)
    BY DEF Step, Handle, Event
<1> QED
    BY <1>1 DEF HandleScenarioBuilt, Carries, Failed, Shaped, Fields

LEMMA WorldHandled ==
  ASSUME NEW s, Shaped(s), ~s.raised, NEW strict, NEW round, NEW payload, NEW t,
         t = Step(s, Event("WORLD_INITIALIZED", round, payload), strict),
         {"world_summary", "participant_count", "anchor", "warnings"} \subseteq DOMAIN payload
  PROVE  /\ Same(s, t, {"world_summary", "participant_count", "anchor", "warnings"})
         /\ t.world_summary = {payload.world_summary}
         /\ t.participant_count = {payload.participant_count} /\ t.anchor = {payload.anchor}
         /\ t.warnings = s.warnings \o payload.warnings
<1>1. t = HandleWorldInitialized(s, payload)
    BY DEF Step, Handle, Event
<1>2. /\ Carried(payload, "world_summary") = {payload.world_summary}
      /\ Carried(payload, "anchor") = {payload.anchor}
      /\ Carried(payload, "participant_count") = {payload.participant_count}
      /\ Warned(payload) = payload.warnings
    BY DEF Carried, Carries, Warned
<1>3. t = [s EXCEPT !.warnings = s.warnings \o payload.warnings,
                    !.world_summary = {payload.world_summary},
                    !.participant_count = {payload.participant_count},
                    !.anchor = {payload.anchor}]
    BY <1>1, <1>2 DEF HandleWorldInitialized, KeepOlder, Shaped, Fields
<1> QED
    BY <1>3 DEF Same, Shaped, Fields

LEMMA RoundHandled ==
  ASSUME NEW s, Shaped(s), ~s.raised, IsSeq(s.warnings), NEW strict, NEW round, NEW n, NEW trades,
         NEW t,
         t = Step(s, Event("ROUND_RESOLVED", round, [round_no |-> n, transactions |-> trades]), strict)
  PROVE  Same(s, t, {"round_no", "resolved"}) /\ t.round_no = {n} /\ t.resolved = {trades}
<1> DEFINE payload == [round_no |-> n, transactions |-> trades]
<1>1. t = HandleRoundResolved(s, payload)
    BY DEF Step, Handle, Event
<1>2. /\ Carried(payload, "round_no") = {n} /\ Carried(payload, "transactions") = {trades}
      /\ Warned(payload) = <<>>
    BY DEF Carried, Carries, Warned
<1>3. s.warnings \o <<>> = s.warnings
  <2>1. PICK S : s.warnings \in Seq(S)
      BY DEF IsSeq
  <2> QED
      BY <2>1
<1> HIDE DEF payload
<1>4. t = [s EXCEPT !.round_no = {n}, !.resolved = {trades}, !.warnings = s.warnings]
    BY <1>1, <1>2, <1>3 DEF HandleRoundResolved, KeepOlder, Shaped, Fields
<1> QED
    BY <1>4 DEF Same, Shaped, Fields

LEMMA CompletedHandled ==
  ASSUME NEW s, Shaped(s), ~s.raised, NEW strict, NEW round, NEW payload, "total_rounds" \in DOMAIN payload,
         NEW t, t = Step(s, Event("SIMULATION_COMPLETED", round, payload), strict)
  PROVE  Same(s, t, {"round_no"}) /\ t.round_no = {payload.total_rounds}
<1>1. t = HandleSimulationCompleted(s, payload)
    BY DEF Step, Handle, Event
<1>2. Carried(payload, "total_rounds") = {payload.total_rounds}
    BY DEF Carried, Carries
<1>3. t = [s EXCEPT !.round_no = {payload.total_rounds}]
    BY <1>1, <1>2 DEF HandleSimulationCompleted, KeepOlder
<1> QED
    BY <1>3 DEF Same, Shaped, Fields

HandledTypes == {"INTAKE_PLANNED", "SCENARIO_BUILT", "WORLD_INITIALIZED", "DECISIONS_MADE",
                 "ROUND_RESOLVED", "SIMULATION_COMPLETED"}
UnhandledTypes == {"REPORT_WRITTEN", "CRITIC", "CITATION_GATE", "REPORT_RENDERED"}

LEMMA OtherHandled ==
  ASSUME NEW s, Shaped(s), ~s.raised, NEW type \in UnhandledTypes, NEW round, NEW payload
  PROVE  /\ Same(s, Step(s, Event(type, round, payload), FALSE), {"skipped"})
         /\ Step(s, Event(type, round, payload), TRUE).raised
<1>1. /\ Step(s, Event(type, round, payload), FALSE) = [s EXCEPT !.skipped = s.skipped + 1]
      /\ Step(s, Event(type, round, payload), TRUE) = [s EXCEPT !.raised = TRUE]
    BY DEF Step, Handle, Event, HandleUnknown, Failed, UnhandledTypes, Shaped, Fields
<1> DEFINE t == [s EXCEPT !.skipped = s.skipped + 1]
<1>2. Shaped(t) /\ \A f \in Fields \ {"skipped"} : t[f] = s[f]
    BY DEF Shaped, Fields
<1>3. [s EXCEPT !.raised = TRUE].raised
    BY DEF Shaped, Fields
<1> QED
    BY <1>1, <1>2, <1>3 DEF Same

LEMMA StrictAlike ==
  ASSUME NEW s, NEW type \in HandledTypes, NEW round, NEW payload
  PROVE  Step(s, Event(type, round, payload), TRUE) = Step(s, Event(type, round, payload), FALSE)
  BY DEF Step, Handle, Event, HandledTypes

-----------------------------------------------------------------------------
(* The replay of the log of a run.                                         *)

Lenient == Replayed(log, FALSE)
Strict == Replayed(log, TRUE)
Unhandled == UNION {Logged(type) : type \in UnhandledTypes}

\* The logs that replay: planned by the model over a snapshot, or not yet
\* beyond the plan of the model.
Replays == BuildsScenario \/ log = <<>> \/ (build.llm /\ Len(log) <= 1)

\* The replayed state is that of the graph.
Agrees ==
  /\ Shaped(Lenient) /\ ~Lenient.raised
  /\ Lenient.intake_plan = plan
  /\ node # "end" => Lenient.warnings = warnings /\ IsSeq(warnings)
  /\ Has("SCENARIO_BUILT") =>
       /\ Lenient.scenario = scenario /\ Lenient.roster = roster
       /\ Lenient.max_rounds = max_rounds
  /\ ~Has("WORLD_INITIALIZED") => Lenient.world_summary = {}
  /\ Has("WORLD_INITIALIZED") =>
       /\ Lenient.world_summary = {Summary(world)}
       /\ Lenient.participant_count = {HeadCount(The(roster))[Len(The(roster))]}
       /\ Lenient.anchor = {Coverage(s.rows).max_period : s \in seed.snapshot}
  /\ round_no > 0 => Lenient.round_no = {round_no} /\ Lenient.actions = {actions}
  /\ outcome # {} => Lenient.resolved = {o.trades : o \in outcome}

\* A strict replay raises at the first event of a reporting node.
StrictAgrees ==
  /\ Strict.raised <=> Unhandled # {}
  /\ Unhandled = {} => Strict = Lenient

Mirrored == IF Replays THEN Agrees /\ StrictAgrees ELSE Lenient.raised

\* One event more.
LEMMA ReplayOn ==
  ASSUME IsSeq(log), NEW type, NEW round, NEW payload, EmitAt(type, round, payload)
  PROVE  /\ Lenient' = Step(Lenient, Event(type, round, payload), FALSE)
         /\ Strict' = Step(Strict, Event(type, round, payload), TRUE)
<1> DEFINE e == Event(type, round, payload)
<1>1. PICK S : log \in Seq(S)
    BY DEF IsSeq
<1>2. log' = Append(log, e)
    BY DEF EmitAt, Event
<1> HIDE DEF e
<1>3. log \in Seq(S \cup {e}) /\ e \in S \cup {e}
    BY <1>1, SeqMonotonic
<1>4. ASSUME NEW strict PROVE Replayed(Append(log, e), strict) = Step(Replayed(log, strict), e, strict)
    BY <1>3, ReplayedMore
<1>5. Lenient' = Replayed(log', FALSE) /\ Strict' = Replayed(log', TRUE)
    BY DEF Lenient, Strict
<1>6. Lenient' = Step(Lenient, e, FALSE) /\ Strict' = Step(Strict, e, TRUE)
    BY <1>2, <1>4, <1>5 DEF Lenient, Strict
<1> QED
    BY <1>6 DEF e

LEMMA RaisedStays ==
  ASSUME IsSeq(log), NEW type, NEW round, NEW payload, EmitAt(type, round, payload), Lenient.raised
  PROVE  Lenient.raised'
<1>1. Lenient' = Step(Lenient, Event(type, round, payload), FALSE)
    BY ReplayOn
<1>2. Lenient' = Lenient
    BY <1>1 DEF Step
<1> QED
    BY <1>2

\* The strict replay of one event more.
LEMMA StrictOn ==
  ASSUME IsSeq(log), NEW type \in HandledTypes \cup UnhandledTypes, NEW round, NEW payload,
         EmitAt(type, round, payload), Shaped(Lenient), ~Lenient.raised, ~Lenient.raised',
         StrictAgrees
  PROVE  StrictAgrees'
<1> DEFINE e == Event(type, round, payload)
<1>1. Lenient' = Step(Lenient, e, FALSE) /\ Strict' = Step(Strict, e, TRUE)
    BY ReplayOn
<1>2. Strict.raised => Strict' = Strict
    BY <1>1 DEF Step
<1>3. Extends(type, round, payload)
    BY Logging
<1>4. CASE type \in HandledTypes
  <2>1. Unhandled' = Unhandled
    <3>1. \A other \in UnhandledTypes : other # type
        BY <1>4 DEF HandledTypes, UnhandledTypes
    <3>2. \A other \in UnhandledTypes : Logged(other)' = Logged(other)
        BY <1>3, <3>1 DEF Extends
    <3> QED
        BY <3>2 DEF Unhandled
  <2>2. CASE Unhandled = {}
    <3>1. Strict = Lenient
        BY <2>2 DEF StrictAgrees
    <3>2. Strict' = Lenient'
        BY <1>1, <1>4, <3>1, StrictAlike
    <3> QED
        BY <2>1, <2>2, <3>2 DEF StrictAgrees
  <2>3. CASE Unhandled # {}
      BY <1>2, <2>1, <2>3 DEF StrictAgrees
  <2> QED
      BY <2>2, <2>3
<1>5. CASE type \in UnhandledTypes
  <2>1. Unhandled' # {}
    <3>1. Logged(type)' # {}
        BY <1>3 DEF Extends
    <3> QED
        BY <1>5, <3>1 DEF Unhandled
  <2>2. CASE Unhandled = {}
    <3>1. Strict = Lenient
        BY <2>2 DEF StrictAgrees
    <3>2. Step(Lenient, e, TRUE).raised
        BY <1>5, OtherHandled
    <3> QED
        BY <1>1, <2>1, <3>1, <3>2 DEF StrictAgrees
  <2>3. CASE Unhandled # {}
      BY <1>2, <2>1, <2>3 DEF StrictAgrees
  <2> QED
      BY <2>2, <2>3
<1> QED
    BY <1>4, <1>5

LEMMA BlankShaped ==
  /\ Shaped(Blank) /\ ~Blank.raised /\ Blank.intake_plan = {} /\ Blank.warnings = <<>>
  /\ Blank.world_summary = {}
  BY DEF Blank, Shaped, Fields

LEMMA InitMirrored == Init => Mirrored
<1> SUFFICES ASSUME Init PROVE Mirrored
    OBVIOUS
<1>1. Lenient = Blank /\ Strict = Blank
    BY ReplayedNothing DEF Init, Lenient, Strict
<1>2. IsSeq(<<>>) /\ DOMAIN <<>> = {}
  <2>1. <<>> \in Seq(Nat) /\ DOMAIN <<>> = {}
      OBVIOUS
  <2> QED
      BY <2>1 DEF IsSeq
<1>3. \A type : Logged(type) = {}
    BY <1>2 DEF Init, Logged
<1>4. Unhandled = {} /\ ~Has("SCENARIO_BUILT") /\ ~Has("WORLD_INITIALIZED")
    BY <1>3 DEF Unhandled, Has
<1>5. Agrees
    BY <1>1, <1>2, <1>4, BlankShaped DEF Agrees, Init
<1>6. StrictAgrees
    BY <1>1, <1>4, BlankShaped DEF StrictAgrees
<1> QED
    BY <1>5, <1>6 DEF Init, Mirrored, Replays

LEMMA InvokeMirrored == ASSUME InvokeAgain PROVE Mirrored'
<1>1. /\ node' = "intake_planner" /\ plan' = {} /\ warnings' = <<>> /\ log' = <<>>
      /\ round_no' = 0 /\ outcome' = {}
    BY DEF InvokeAgain
<1>2. Lenient' = Blank /\ Strict' = Blank
    BY <1>1, ReplayedNothing DEF Lenient, Strict
<1>3. IsSeq(<<>>) /\ DOMAIN <<>> = {}
  <2>1. <<>> \in Seq(Nat) /\ DOMAIN <<>> = {}
      OBVIOUS
  <2> QED
      BY <2>1 DEF IsSeq
<1>4. \A type : Logged(type)' = {}
    BY <1>1, <1>3 DEF Logged
<1>5. Unhandled' = {} /\ ~Has("SCENARIO_BUILT")' /\ ~Has("WORLD_INITIALIZED")'
    BY <1>4 DEF Unhandled, Has
<1>6. Agrees'
    BY <1>1, <1>2, <1>3, <1>5, BlankShaped DEF Agrees
<1>7. StrictAgrees'
    BY <1>2, <1>5, BlankShaped DEF StrictAgrees
<1> QED
    BY <1>1, <1>6, <1>7 DEF Mirrored, Replays

LEMMA IntakeMirrored == ASSUME Loop, Prepared, Mirrored, IntakePlanner PROVE Mirrored'
<1>1. /\ node = "intake_planner" /\ node' = "scenario_builder" /\ log = <<>> /\ plan = {}
      /\ round_no' = 0 /\ outcome' = {} /\ warnings' = warnings /\ build' = build
  <2>1. node = "intake_planner" /\ log = <<>> /\ plan = {}
      BY DEF IntakePlanner, At, Prepared, Ordered
  <2>2. round_no = 0 /\ outcome = {}
      BY <2>1 DEF Loop, Counted, Early
  <2> QED
      BY <2>1, <2>2 DEF IntakePlanner, rounds, reported, caller
<1>2. Agrees /\ StrictAgrees
    BY <1>1 DEF Mirrored, Replays
<1>3. PICK payload :
        /\ EmitAt("INTAKE_PLANNED", round_no, payload)
        /\ IF build.llm THEN "plan" \in DOMAIN payload /\ plan' = {payload.plan}
           ELSE "plan" \notin DOMAIN payload
  <2>1. CASE build.llm
    <3>1. PICK p : plan' = {p} /\ EmitAt("INTAKE_PLANNED", round_no, [plan |-> p])
        BY <2>1 DEF IntakePlanner, GenerateStructured, Emit
    <3>2. "plan" \in DOMAIN [plan |-> p] /\ [plan |-> p].plan = p
        OBVIOUS
    <3> QED
        BY <2>1, <3>1, <3>2
  <2>2. CASE ~build.llm
    <3>1. EmitAt("INTAKE_PLANNED", round_no, NoPayload)
        BY <2>2 DEF IntakePlanner, Emit
    <3> QED
        BY <2>2, <3>1 DEF NoPayload
  <2> QED
      BY <2>1, <2>2
<1>4. Lenient' = Step(Lenient, Event("INTAKE_PLANNED", round_no, payload), FALSE)
    BY <1>3, ReplayOn DEF Loop, Typed
<1>5. /\ Len(log') = 1 /\ log' # <<>>
      /\ ~Has("SCENARIO_BUILT")' /\ ~Has("WORLD_INITIALIZED")'
  <2>1. Len(log) = 0
      BY <1>1
  <2>2. ~Has("SCENARIO_BUILT") /\ ~Has("WORLD_INITIALIZED")
      BY <1>1 DEF Prepared, Ordered, Early
  <2> QED
      BY <1>3, <2>1, <2>2, HasMore DEF Loop, Typed
<1>6. CASE build.llm
  <2>1. Same(Lenient, Lenient', {"intake_plan"}) /\ Lenient.intake_plan' = plan'
    <3>1. /\ Shaped(Lenient) /\ ~Lenient.raised
          /\ "plan" \in DOMAIN payload /\ plan' = {payload.plan}
        BY <1>2, <1>3, <1>6 DEF Agrees
    <3>2. Same(Lenient, Lenient', {"intake_plan"}) /\ (Lenient').intake_plan = {payload.plan}
        BY <1>4, <3>1, IntakeHandled
    <3> QED
        BY <3>1, <3>2
  <2>2. /\ Shaped(Lenient)' /\ ~Lenient.raised' /\ Lenient.warnings' = Lenient.warnings
        /\ Lenient.world_summary' = Lenient.world_summary
      BY <1>2, <2>1 DEF Same, Fields, Agrees
  <2>3. Lenient.world_summary = {} /\ Lenient.warnings = warnings /\ IsSeq(warnings)
      BY <1>1, <1>2 DEF Agrees, Prepared, Ordered, Early
  <2>4. Agrees'
      BY <1>1, <1>5, <2>1, <2>2, <2>3 DEF Agrees
  <2>5. StrictAgrees'
      BY <1>2, <1>3, <2>2, StrictOn DEF Loop, Typed, Agrees, HandledTypes
  <2> QED
      BY <1>1, <1>5, <1>6, <2>4, <2>5 DEF Mirrored, Replays
<1>7. CASE ~build.llm
  <2>1. Lenient.raised'
      BY <1>2, <1>3, <1>4, <1>7, IntakeHandled DEF Agrees
  <2>2. ~Replays'
      BY <1>1, <1>5, <1>7 DEF Replays, BuildsScenario
  <2> QED
      BY <2>1, <2>2 DEF Mirrored
<1> QED
    BY <1>6, <1>7

\* The warnings of the planner and of the first world.
LEMMA WarningsListed ==
  ASSUME NEW p, NEW selection, NEW coverage
  PROVE  IsSeq(BuildScenario(p, selection, coverage).warnings)
<1> DEFINE resolved == ResolveGus(p.hint, coverage.gus).warnings
           shocks == SelectShocks(selection.shocks, p.mode).warnings
<1>1. BuildScenario(p, selection, coverage).warnings = resolved \o shocks
    BY DEF BuildScenario
<1>2. IsSeq(<<>>) /\ \A a : IsSeq(<<a>>)
  <2>1. <<>> \in Seq(Nat) /\ \A a : <<a>> \in Seq({a})
      OBVIOUS
  <2> QED
      BY <2>1 DEF IsSeq
<1>3. IsSeq(resolved) /\ IsSeq(shocks)
  <2>1. resolved \in {<<>>, <<"hint empty">>, <<"district unavailable">>, <<"hint unresolved">>}
      BY DEF ResolveGus
  <2>2. shocks \in {<<>>, <<"stress defaulted">>, <<"compare is one scenario">>}
      BY DEF SelectShocks
  <2> HIDE DEF resolved, shocks
  <2> QED
      BY <1>2, <2>1, <2>2
<1> HIDE DEF resolved, shocks
<1>4. IsSeq(resolved \o shocks)
    BY <1>3, ConcatIsSeq
<1> QED
    BY <1>1, <1>4

LEMMA MissingListed ==
  ASSUME NEW gus \in Seq(Nat), NEW snapshot PROVE IsSeq(MissingMetrics(snapshot, gus))
<1> DEFINE missing == Within(gus, ToSet(gus) \ Codes(snapshot.rows))
           told == [i \in DOMAIN missing |-> <<"no metrics", missing[i]>>]
<1>1. missing \in Seq(Nat)
    BY WithinElements
<1>2. MissingMetrics(snapshot, gus) = told
    BY DEF MissingMetrics
<1> HIDE DEF missing
<1>3. DOMAIN missing = 1..Len(missing) /\ Len(missing) \in Nat
    BY <1>1
<1> DEFINE W == {told[i] : i \in DOMAIN missing}
           n == Len(missing)
<1>4. told \in [1..n -> W]
    BY <1>3
<1> HIDE DEF told, W, n
<1>5. told \in Seq(W)
    BY <1>3, <1>4 DEF n
<1> QED
    BY <1>2, <1>5 DEF IsSeq

LEMMA ScenarioMirrored == ASSUME Loop, Prepared, Mirrored, ScenarioBuilder PROVE Mirrored'
<1>1. /\ node = "scenario_builder" /\ node' = "world_initializer" /\ Len(log) = 1 /\ log # <<>>
      /\ round_no' = 0 /\ outcome' = {} /\ build' = build /\ plan' = plan /\ seed' = seed
      /\ ~Has("WORLD_INITIALIZED")
  <2>1. /\ node = "scenario_builder" /\ Len(log) = 1 /\ ~Has("WORLD_INITIALIZED")
      BY DEF ScenarioBuilder, At, Prepared, Ordered, Early
  <2>2. round_no = 0 /\ outcome = {}
      BY <2>1 DEF Loop, Counted, Early
  <2>3. log # <<>>
      BY <2>1
  <2> QED
      BY <2>1, <2>2, <2>3 DEF ScenarioBuilder, rounds, caller
<1>2. \E payload : EmitAt("SCENARIO_BUILT", round_no, payload)
    BY DEF ScenarioBuilder, ScenarioFrom, ScenarioStub, Emit
<1>3. /\ Len(log') = 2 /\ log' # <<>> /\ ~Has("WORLD_INITIALIZED")'
    BY <1>1, <1>2, HasMore DEF Loop, Typed
<1>4. CASE BuildsScenario
  <2>1. PICK s \in Selections : seed.snapshot # {} /\ ScenarioFrom(s)
      BY <1>4 DEF ScenarioBuilder, GenerateStructured
  <2> DEFINE built == BuildScenario(The(plan), s, Coverage(The(seed.snapshot).rows))
  <2>2. /\ scenario' = {built.scenario} /\ roster' = {built.roster} /\ max_rounds' = {built.max_rounds}
        /\ warnings' = warnings \o built.warnings /\ EmitAt("SCENARIO_BUILT", round_no, built)
      BY <2>1 DEF ScenarioFrom, Emit
  <2>3. DOMAIN built = {"scenario", "roster", "max_rounds", "warnings"}
      BY DEF BuildScenario
  <2>4. IsSeq(built.warnings)
      BY WarningsListed
  <2> HIDE DEF built
  <2>5. Agrees /\ StrictAgrees
      BY <1>4 DEF Mirrored, Replays
  <2>6. Lenient' = Step(Lenient, Event("SCENARIO_BUILT", round_no, built), FALSE)
      BY <2>2, ReplayOn DEF Loop, Typed
  <2>7. Warned(built) = built.warnings
      BY <2>3 DEF Warned, Carries
  <2>8. {"scenario", "roster", "max_rounds"} \subseteq DOMAIN built
      BY <2>3
  <2>9. /\ Same(Lenient, Lenient', {"scenario", "roster", "max_rounds", "warnings"})
        /\ Lenient.scenario' = {built.scenario} /\ Lenient.roster' = {built.roster}
        /\ Lenient.max_rounds' = {built.max_rounds}
        /\ Lenient.warnings' = Lenient.warnings \o Warned(built)
    <3>1. Shaped(Lenient) /\ ~Lenient.raised
        BY <2>5 DEF Agrees
    <3>2. /\ Same(Lenient, Lenient', {"scenario", "roster", "max_rounds", "warnings"})
          /\ (Lenient').scenario = {built.scenario} /\ (Lenient').roster = {built.roster}
          /\ (Lenient').max_rounds = {built.max_rounds}
          /\ (Lenient').warnings = Lenient.warnings \o Warned(built)
      <4> DEFINE old == Lenient
                 new == Lenient'
                 lenient == FALSE
      <4>1. /\ Shaped(old) /\ ~old.raised
            /\ new = Step(old, Event("SCENARIO_BUILT", round_no, built), lenient)
          BY <2>6, <3>1
      <4> HIDE DEF lenient, old, new
      <4>2. /\ Same(old, new, {"scenario", "roster", "max_rounds", "warnings"})
            /\ new.scenario = {built.scenario} /\ new.roster = {built.roster}
            /\ new.max_rounds = {built.max_rounds}
            /\ new.warnings = old.warnings \o Warned(built)
          BY <2>8, <4>1, ScenarioHandled
      <4> QED
          BY <4>2 DEF old, new
    <3> QED
        BY <3>2
  <2>10. /\ Shaped(Lenient)' /\ ~Lenient.raised' /\ Lenient.intake_plan' = plan
         /\ Lenient.world_summary' = {}
      BY <1>1, <2>5, <2>9 DEF Same, Fields, Agrees
  <2>11. Lenient.warnings' = warnings' /\ IsSeq(warnings')
      BY <1>1, <2>2, <2>4, <2>5, <2>7, <2>9, ConcatIsSeq DEF Agrees
  <2>12. Agrees'
      BY <1>1, <1>3, <2>2, <2>9, <2>10, <2>11 DEF Agrees
  <2>13. StrictAgrees'
      BY <2>2, <2>5, <2>10, StrictOn DEF Loop, Typed, Agrees, HandledTypes
  <2> QED
      BY <1>1, <1>4, <2>12, <2>13 DEF Mirrored, Replays, BuildsScenario
<1>5. CASE ~BuildsScenario
  <2>1. EmitAt("SCENARIO_BUILT", round_no, NoPayload)
      BY <1>5 DEF ScenarioBuilder, ScenarioStub, Emit
  <2>2. ~Replays'
      BY <1>1, <1>3, <1>5 DEF Replays, BuildsScenario
  <2>3. CASE Lenient.raised
      BY <2>1, <2>2, <2>3, RaisedStays DEF Loop, Typed, Mirrored
  <2>4. CASE ~Lenient.raised
    <3>1. Agrees
        BY <2>4 DEF Mirrored
    <3>2. Lenient' = Step(Lenient, Event("SCENARIO_BUILT", round_no, NoPayload), FALSE)
        BY <2>1, ReplayOn DEF Loop, Typed
    <3>3. ~({"scenario", "roster", "max_rounds"} \subseteq DOMAIN NoPayload)
        BY DEF NoPayload
    <3>4. Lenient.raised'
        BY <3>1, <3>2, <3>3, ScenarioRaises DEF Agrees
    <3> QED
        BY <2>2, <3>4 DEF Mirrored
  <2> QED
      BY <2>3, <2>4
<1> QED
    BY <1>4, <1>5

LEMMA WorldMirrored == ASSUME Loop, Prepared, Mirrored, WorldInitializer PROVE Mirrored'
<1>1. /\ node = "world_initializer" /\ Len(log) = 2 /\ log # <<>> /\ Has("SCENARIO_BUILT")
      /\ node' # "end" /\ round_no' = 0 /\ outcome' = {}
      /\ UNCHANGED <<build, run, seed, plan, scenario, roster>>
  <2>1. node = "world_initializer" /\ Len(log) = 2 /\ Has("SCENARIO_BUILT")
      BY DEF WorldInitializer, At, Prepared, Ordered
  <2>2. log # <<>>
      BY <2>1
  <2>3. StartRounds # "end"
      BY DEF StartRounds
  <2> QED
      BY <2>1, <2>2, <2>3 DEF WorldInitializer, caller
<1>2. PICK payload : EmitAt("WORLD_INITIALIZED", 0, payload)
    BY DEF WorldInitializer, WorldFromSnapshot, WorldStub
<1>3. /\ Len(log') = 3 /\ log' # <<>> /\ Has("WORLD_INITIALIZED")' /\ Has("SCENARIO_BUILT")'
    BY <1>1, <1>2, HasMore DEF Loop, Typed
<1>4. CASE BuildsScenario
  <2> DEFINE gus == The(scenario).gus
             buckets == The(roster)
             snapshot == The(seed.snapshot)
             missing == MissingMetrics(snapshot, gus)
             count == Cardinality(BuildParticipants(buckets))
             anchor == AddMonths(The(scenario).start, -1)
             summary == Summary(world')
             m == Coverage(snapshot.rows).max_period
  <2>1. /\ warnings' = warnings \o missing /\ max_rounds' = max_rounds
        /\ EmitAt("WORLD_INITIALIZED", 0,
                  [world_summary |-> summary, participant_count |-> count,
                   anchor |-> anchor, warnings |-> missing])
      BY <1>4 DEF WorldInitializer, WorldFromSnapshot, BuildsScenario
  <2>2. /\ seed.snapshot # {} /\ scenario # {} /\ roster # {}
        /\ The(scenario).start = AddMonths(m, 1)
      BY <1>1, <1>4 DEF Prepared, Servable, Serves
  <2>3. gus \in Seq(Nat)
    <3>1. The(scenario) \in Scenarios
        BY <2>2 DEF Loop, Typed, The
    <3> QED
        BY <3>1 DEF Scenarios
  <2>4. IsSeq(missing)
      BY <2>3, MissingListed
  <2>5. count = HeadCount(buckets)[Len(buckets)]
    <3>1. buckets \in Rosters
        BY <2>2 DEF Loop, Typed, The
    <3> QED
        BY <3>1, ParticipantsBuilt
  <2>6. seed.snapshot = {snapshot} /\ snapshot.rows \in Seq(GoldRows) \ {<<>>}
    <3>1. snapshot \in seed.snapshot
        BY <2>2 DEF The
    <3> QED
        BY <3>1, Seeded DEF Loop, Typed, Optional
  <2>7. anchor = m
    <3>1. m \in Months
        BY <2>6, CoverageCovers DEF Covers
    <3> HIDE DEF m
    <3>2. Index(m) \in Nat
        BY <3>1, IndexNat
    <3> DEFINE next == AddMonths(m, 1)
               one == 1
               back == -1
    <3>3. one \in Int /\ back \in Int /\ Index(m) + one >= 0 /\ (Index(m) + one) + back = Index(m)
        BY <3>2
    <3> HIDE DEF one, back
    <3>4. AddMonths(m, one) \in Months /\ Index(AddMonths(m, one)) = Index(m) + one
        BY <3>1, <3>3, MonthsAdd
    <3>5. Index(AddMonths(m, one)) + back >= 0
        BY <3>2, <3>3, <3>4
    <3>6. /\ AddMonths(AddMonths(m, one), back) \in Months
          /\ Index(AddMonths(AddMonths(m, one), back)) = Index(m)
        BY <3>3, <3>4, <3>5, MonthsAdd
    <3>7. AddMonths(AddMonths(m, one), back) = m
        BY <3>1, <3>6, IndexInjective
    <3> QED
        BY <2>2, <3>7 DEF one, back
  <2>8. {anchor} = {Coverage(s.rows).max_period : s \in seed.snapshot}
      BY <2>6, <2>7
  <2> HIDE DEF missing, count, anchor, summary, m, gus, buckets
  <2>9. Agrees /\ StrictAgrees
      BY <1>4 DEF Mirrored, Replays
  <2>10. Lenient' = Step(Lenient, Event("WORLD_INITIALIZED", 0,
                           [world_summary |-> summary, participant_count |-> count,
                            anchor |-> anchor, warnings |-> missing]), FALSE)
      BY <2>1, ReplayOn DEF Loop, Typed
  <2>11. /\ Same(Lenient, Lenient', {"world_summary", "participant_count", "anchor", "warnings"})
         /\ Lenient.world_summary' = {summary} /\ Lenient.participant_count' = {count}
         /\ Lenient.anchor' = {anchor} /\ Lenient.warnings' = Lenient.warnings \o missing
    <3>1. Shaped(Lenient) /\ ~Lenient.raised
        BY <2>9 DEF Agrees
    <3>2. /\ Same(Lenient, Lenient', {"world_summary", "participant_count", "anchor", "warnings"})
          /\ (Lenient').world_summary = {summary} /\ (Lenient').participant_count = {count}
          /\ (Lenient').anchor = {anchor} /\ (Lenient').warnings = Lenient.warnings \o missing
      <4> DEFINE old == Lenient
                 new == Lenient'
                 lenient == FALSE
                 zero == 0
                 told == [world_summary |-> summary, participant_count |-> count,
                          anchor |-> anchor, warnings |-> missing]
      <4>1. /\ Shaped(old) /\ ~old.raised
            /\ new = Step(old, Event("WORLD_INITIALIZED", zero, told), lenient)
          BY <2>10, <3>1
      <4>2. {"world_summary", "participant_count", "anchor", "warnings"} \subseteq DOMAIN told
          OBVIOUS
      <4>3. /\ told.world_summary = summary /\ told.participant_count = count
            /\ told.anchor = anchor /\ told.warnings = missing
          OBVIOUS
      <4> HIDE DEF lenient, zero, old, new, told
      <4>4. /\ Same(old, new, {"world_summary", "participant_count", "anchor", "warnings"})
            /\ new.world_summary = {told.world_summary}
            /\ new.participant_count = {told.participant_count} /\ new.anchor = {told.anchor}
            /\ new.warnings = old.warnings \o told.warnings
          BY <4>1, <4>2, WorldHandled
      <4>5. /\ Same(old, new, {"world_summary", "participant_count", "anchor", "warnings"})
            /\ new.world_summary = {summary} /\ new.participant_count = {count}
            /\ new.anchor = {anchor} /\ new.warnings = old.warnings \o missing
          BY <4>3, <4>4
      <4> QED
          BY <4>5 DEF old, new
    <3> QED
        BY <3>2
  <2>12. /\ Shaped(Lenient)' /\ ~Lenient.raised' /\ Lenient.intake_plan' = plan
         /\ Lenient.scenario' = scenario /\ Lenient.roster' = roster
         /\ Lenient.max_rounds' = max_rounds
      BY <1>1, <2>9, <2>11 DEF Same, Fields, Agrees
  <2>13. Lenient.warnings' = warnings' /\ IsSeq(warnings')
      BY <1>1, <2>1, <2>4, <2>9, <2>11, ConcatIsSeq DEF Agrees
  <2>14. Lenient.world_summary' = {Summary(world)'}
         /\ Lenient.participant_count' = {HeadCount(The(roster))[Len(The(roster))]'}
         /\ Lenient.anchor' = {Coverage(s.rows).max_period : s \in seed.snapshot}
      BY <1>1, <2>5, <2>8, <2>11 DEF summary, buckets
  <2>15. Agrees'
      BY <1>1, <1>3, <2>1, <2>12, <2>13, <2>14 DEF Agrees
  <2>16. StrictAgrees'
      BY <2>1, <2>9, <2>12, StrictOn DEF Loop, Typed, Agrees, HandledTypes
  <2> QED
      BY <1>1, <1>4, <2>15, <2>16 DEF Mirrored, Replays, BuildsScenario
<1>5. CASE ~BuildsScenario
  <2>1. ~Replays /\ ~Replays'
      BY <1>1, <1>3, <1>5 DEF Replays, BuildsScenario
  <2>2. Lenient.raised'
      BY <1>2, <2>1, RaisedStays DEF Loop, Typed, Mirrored
  <2> QED
      BY <2>1, <2>2 DEF Mirrored
<1> QED
    BY <1>4, <1>5

\* What of the agreement a step of the rounds and reports leaves as it is.
LEMMA OnwardKeeps ==
  ASSUME Loop, Prepared, Onward, Agrees,
         Same(Lenient, Lenient', {"round_no", "actions", "resolved", "skipped"}),
         node' # "end" => warnings' = warnings,
         round_no' > 0 => Lenient.round_no' = {round_no'} /\ Lenient.actions' = {actions'},
         outcome' # {} => Lenient.resolved' = {o.trades : o \in outcome'}
  PROVE  Agrees'
<1>1. /\ Shaped(Lenient)' /\ Lenient.raised' = Lenient.raised
      /\ Lenient.intake_plan' = Lenient.intake_plan
      /\ Lenient.warnings' = Lenient.warnings /\ Lenient.scenario' = Lenient.scenario
      /\ Lenient.roster' = Lenient.roster /\ Lenient.max_rounds' = Lenient.max_rounds
      /\ Lenient.world_summary' = Lenient.world_summary
      /\ Lenient.participant_count' = Lenient.participant_count
      /\ Lenient.anchor' = Lenient.anchor
    BY DEF Same, Fields
<1>2. /\ node \notin Early \cup {"raised"} /\ node' \notin Early \cup {"raised"}
      /\ UNCHANGED <<build, run, seed, plan, scenario, roster, max_rounds, participants>>
      /\ Summary(world)' = Summary(world)
      /\ Has("SCENARIO_BUILT")' /\ Has("WORLD_INITIALIZED")'
      /\ Has("SCENARIO_BUILT") /\ Has("WORLD_INITIALIZED")
    BY OnwardFrame DEF Prepared
<1>3. node # "end"
    BY DEF Onward, Reporting, ParticipantDecider, RoundResolver, RoundSummarizer, EvidenceBuilder,
           ReportWriter, Critic, CitationGate, ReportRenderer, At
<1>4. /\ Lenient.raised' = FALSE /\ Lenient.intake_plan' = plan'
      /\ Lenient.scenario' = scenario' /\ Lenient.roster' = roster'
      /\ Lenient.max_rounds' = max_rounds'
      /\ (node' # "end" => Lenient.warnings' = warnings' /\ IsSeq(warnings'))
    BY <1>1, <1>2, <1>3 DEF Agrees
<1> QED
    BY <1>1, <1>2, <1>4 DEF Agrees

LEMMA DeciderMirrored == ASSUME Loop, Prepared, Agrees, StrictAgrees, ParticipantDecider
                         PROVE Agrees' /\ StrictAgrees'
<1> DEFINE round == round_no'
           chosen == actions'
           old == Lenient
           new == Lenient'
           lenient == FALSE
<1>1. /\ EmitAt("DECISIONS_MADE", round, [round_no |-> round, actions |-> chosen])
      /\ warnings' = warnings /\ outcome' = outcome
    BY DEF ParticipantDecider, reported
<1>2. new = Step(old, Event("DECISIONS_MADE", round, [round_no |-> round, actions |-> chosen]), lenient)
    BY <1>1, ReplayOn DEF Loop, Typed
<1>3. Shaped(old) /\ ~old.raised
    BY DEF Agrees
<1>4. Same(old, new, {"round_no", "actions"}) /\ new.round_no = {round} /\ new.actions = {chosen}
  <2> HIDE DEF old, new, round, chosen, lenient
  <2> QED
      BY <1>2, <1>3, DecisionsHandled
<1>5. Same(Lenient, Lenient', {"round_no", "actions", "resolved", "skipped"})
      /\ Lenient.round_no' = {round_no'} /\ Lenient.actions' = {actions'}
      /\ Lenient.resolved' = Lenient.resolved /\ Lenient.raised' = Lenient.raised
    BY <1>4 DEF Same, Fields
<1>6. Agrees'
    BY <1>1, <1>5, OnwardKeeps DEF Onward, Agrees
<1>7. StrictAgrees'
    BY <1>1, <1>3, <1>5, StrictOn DEF Loop, Typed, HandledTypes
<1> QED
    BY <1>6, <1>7

LEMMA ResolverMirrored == ASSUME Loop, Prepared, Agrees, StrictAgrees, RoundResolver
                          PROVE Agrees' /\ StrictAgrees'
<1>1. PICK trades :
        /\ EmitAt("ROUND_RESOLVED", round_no, [round_no |-> round_no, transactions |-> trades])
        /\ outcome' = {[round |-> round_no, trades |-> trades]}
    BY DEF RoundResolver, Emit
<1>2. /\ node = "round_resolver" /\ round_no' = round_no /\ actions' = actions /\ warnings' = warnings
    BY DEF RoundResolver, At, reported
<1> DEFINE old == Lenient
           new == Lenient'
           lenient == FALSE
<1>3. new = Step(old, Event("ROUND_RESOLVED", round_no, [round_no |-> round_no, transactions |-> trades]),
                 lenient)
    BY <1>1, ReplayOn DEF Loop, Typed
<1>4. Shaped(old) /\ ~old.raised /\ IsSeq(old.warnings)
    BY <1>2 DEF Agrees
<1>5. Same(old, new, {"round_no", "resolved"}) /\ new.round_no = {round_no} /\ new.resolved = {trades}
  <2> HIDE DEF old, new, lenient
  <2> QED
      BY <1>3, <1>4, RoundHandled
<1>6. Same(Lenient, Lenient', {"round_no", "actions", "resolved", "skipped"})
      /\ Lenient.round_no' = {round_no'} /\ Lenient.actions' = Lenient.actions
      /\ Lenient.resolved' = {trades} /\ Lenient.raised' = Lenient.raised
    BY <1>2, <1>5 DEF Same, Fields
<1>7. {o.trades : o \in outcome'} = {trades}
    BY <1>1
<1>8. Agrees'
    BY <1>2, <1>6, <1>7, OnwardKeeps DEF Onward, Agrees
<1>9. StrictAgrees'
    BY <1>1, <1>4, <1>6, StrictOn DEF Loop, Typed, HandledTypes
<1> QED
    BY <1>8, <1>9

LEMMA SummarizerMirrored == ASSUME Loop, Prepared, Agrees, StrictAgrees, RoundSummarizer
                            PROVE Agrees' /\ StrictAgrees'
<1> DEFINE payload == [total_rounds |-> round_no, world_summary |-> world,
                       participant_summary |-> RoleSummary, total_warnings |-> Len(warnings)]
           old == Lenient
           new == Lenient'
           lenient == FALSE
<1>1. /\ EmitAt("SIMULATION_COMPLETED", round_no, payload)
      /\ UNCHANGED <<round_no, actions, outcome, warnings>>
    BY DEF RoundSummarizer, Emit, rounds, reported
<1>2. payload.total_rounds = round_no /\ "total_rounds" \in DOMAIN payload
    OBVIOUS
<1>3. new = Step(old, Event("SIMULATION_COMPLETED", round_no, payload), lenient)
    BY <1>1, ReplayOn DEF Loop, Typed
<1>4. Shaped(old) /\ ~old.raised
    BY DEF Agrees
<1>5. Same(old, new, {"round_no"}) /\ new.round_no = {payload.total_rounds}
  <2> HIDE DEF old, new, lenient, payload
  <2> QED
      BY <1>2, <1>3, <1>4, CompletedHandled
<1>6. Same(Lenient, Lenient', {"round_no", "actions", "resolved", "skipped"})
      /\ Lenient.round_no' = {round_no'} /\ Lenient.actions' = Lenient.actions
      /\ Lenient.resolved' = Lenient.resolved /\ Lenient.raised' = Lenient.raised
    BY <1>1, <1>2, <1>5 DEF Same, Fields
<1>7. Agrees'
    BY <1>1, <1>6, OnwardKeeps DEF Onward, Reporting, Agrees
<1>8. StrictAgrees'
    BY <1>1, <1>4, <1>6, StrictOn DEF Loop, Typed, HandledTypes
<1> QED
    BY <1>7, <1>8

\* An event of a reporting node.
LEMMA ReportMirrored ==
  ASSUME Loop, Prepared, Agrees, StrictAgrees, Reporting, NEW type \in UnhandledTypes, NEW payload,
         EmitAt(type, round_no, payload), UNCHANGED <<round_no, actions, outcome>>,
         node' # "end" => warnings' = warnings
  PROVE  Agrees' /\ StrictAgrees'
<1>1. Lenient' = Step(Lenient, Event(type, round_no, payload), FALSE)
    BY ReplayOn DEF Loop, Typed
<1>2. Shaped(Lenient) /\ ~Lenient.raised
    BY DEF Agrees
<1>3. Same(Lenient, Lenient', {"skipped"})
    BY <1>1, <1>2, OtherHandled
<1>4. Same(Lenient, Lenient', {"round_no", "actions", "resolved", "skipped"})
      /\ Lenient.round_no' = Lenient.round_no /\ Lenient.actions' = Lenient.actions
      /\ Lenient.resolved' = Lenient.resolved /\ Lenient.raised' = Lenient.raised
    BY <1>3 DEF Same, Fields
<1>5. Agrees'
    BY <1>4, OnwardKeeps DEF Onward, Agrees
<1>6. StrictAgrees'
    BY <1>2, <1>4, StrictOn DEF Loop, Typed
<1> QED
    BY <1>5, <1>6

\* The gate finds nothing wrong with the claims of the writer.
LEMMA NoReasons ==
  ASSUME Gated, node = "citation_gate"
  PROVE  FlattenSeq([c \in DOMAIN claims |-> FailureReasons(claims[c])]) = <<>>
<1> DEFINE q == [c \in DOMAIN claims |-> FailureReasons(claims[c])]
<1>1. IsSeq(claims) /\ \A c \in DOMAIN claims : Sound(claims[c])
    BY DEF Gated, Claims
<1>2. Len(claims) \in Nat /\ DOMAIN claims = 1..Len(claims)
  <2>1. PICK S : claims \in Seq(S)
      BY <1>1 DEF IsSeq
  <2> QED
      BY <2>1
<1>3. DOMAIN q = DOMAIN claims /\ \A c \in DOMAIN q : q[c] = <<>>
    BY <1>1, SoundPasses
<1>4. <<>> \in Seq({})
    OBVIOUS
<1>5. q \in [1..Len(claims) -> Seq({})]
    BY <1>2, <1>3, <1>4
<1> HIDE DEF q
<1>6. q \in Seq(Seq({}))
    BY <1>2, <1>5
<1>7. FlattenSeq(q) \in Seq({})
    BY <1>6, FlattenElements
<1>8. FlattenSeq(q) = <<>>
    BY <1>7
<1> QED
    BY <1>8 DEF q

LEMMA ReportingMirrored == ASSUME Loop, Prepared, Gated, Agrees, StrictAgrees, Reporting
                           PROVE Agrees' /\ StrictAgrees'
<1>1. UNCHANGED <<round_no, actions, outcome>>
    BY ReportingFrame DEF Loop, Typed
<1>2. CASE RoundSummarizer
    BY <1>2, SummarizerMirrored
<1>3. CASE EvidenceBuilder
  <2>1. log' = log /\ warnings' = warnings
      BY <1>3 DEF EvidenceBuilder
  <2>2. Lenient' = Lenient /\ Strict' = Strict /\ Unhandled' = Unhandled
      BY <2>1 DEF Lenient, Strict, Unhandled, Logged
  <2>3. Same(Lenient, Lenient', {"round_no", "actions", "resolved", "skipped"})
      BY <2>2 DEF Agrees, Same
  <2>4. Agrees'
      BY <1>1, <1>3, <2>1, <2>2, <2>3, OnwardKeeps DEF Onward, Reporting, Agrees
  <2> QED
      BY <2>2, <2>4 DEF StrictAgrees
<1>4. CASE ReportWriter
  <2>1. warnings' = warnings /\ \E payload : EmitAt("REPORT_WRITTEN", round_no, payload)
      BY <1>4 DEF ReportWriter, Emit
  <2> QED
      BY <1>1, <2>1, ReportMirrored DEF UnhandledTypes
<1>5. CASE Critic
  <2>1. warnings' = warnings /\ EmitAt("CRITIC", round_no, NoPayload)
      BY <1>5 DEF Critic, Emit, reported
  <2> QED
      BY <1>1, <2>1, ReportMirrored DEF UnhandledTypes
<1>6. CASE CitationGate
  <2> DEFINE reasons == FlattenSeq([i \in DOMAIN claims |-> FailureReasons(claims[i])])
  <2>1. /\ node = "citation_gate" /\ warnings' = warnings \o reasons
        /\ \E payload : EmitAt("CITATION_GATE", round_no, payload)
      BY <1>6 DEF CitationGate, Emit, At
  <2>2. reasons = <<>>
      BY <2>1, NoReasons
  <2> HIDE DEF reasons
  <2>3. warnings' = warnings
    <3>1. PICK S : warnings \in Seq(S)
        BY <2>1 DEF Agrees, IsSeq
    <3> QED
        BY <2>1, <2>2, <3>1
  <2> QED
      BY <1>1, <2>1, <2>3, ReportMirrored DEF UnhandledTypes
<1>7. CASE ReportRenderer
  <2>1. node' = "end" /\ \E payload : EmitAt("REPORT_RENDERED", round_no, payload)
      BY <1>7 DEF ReportRenderer, Emit
  <2> QED
      BY <1>1, <2>1, ReportMirrored DEF UnhandledTypes
<1> QED
    BY <1>2, <1>3, <1>4, <1>5, <1>6, <1>7 DEF Reporting

LEMMA OnwardMirrored == ASSUME Loop, Prepared, Gated, Mirrored, Onward PROVE Mirrored'
<1>1. build' = build /\ Len(log) > 1 /\ Len(log') > 1 /\ log # <<>> /\ log' # <<>>
  <2>1. /\ node \notin Early \cup {"raised"} /\ build' = build
        /\ Len(log') > 1 /\ log # <<>> /\ log' # <<>>
      BY OnwardFrame DEF Prepared
  <2>2. Len(log) > 1
      BY <2>1 DEF Prepared, Ordered
  <2> QED
      BY <2>1, <2>2
<1>2. Len(log) \in Nat /\ Len(log') \in Nat
  <2>1. IsSeq(log) /\ IsSeq(log)'
      BY NextLoop DEF Onward, Reporting, Loop, Typed, Next
  <2>2. \A l : IsSeq(l) => Len(l) \in Nat
      BY DEF IsSeq
  <2> QED
      BY <2>1, <2>2
<1>3. Replays <=> BuildsScenario
    BY <1>1, <1>2 DEF Replays
<1>4. Replays' <=> BuildsScenario
    BY <1>1, <1>2 DEF Replays, BuildsScenario
<1>5. CASE BuildsScenario
  <2>1. Agrees /\ StrictAgrees
      BY <1>3, <1>5 DEF Mirrored
  <2>2. Agrees' /\ StrictAgrees'
      BY <2>1, DeciderMirrored, ResolverMirrored, ReportingMirrored DEF Onward
  <2> QED
      BY <1>4, <1>5, <2>2 DEF Mirrored
<1>6. CASE ~BuildsScenario
  <2>1. Lenient.raised
      BY <1>3, <1>6 DEF Mirrored
  <2>2. log' = log \/ \E type, round, payload : EmitAt(type, round, payload)
      BY DEF Onward, Reporting, ParticipantDecider, RoundResolver, RoundSummarizer, EvidenceBuilder,
             ReportWriter, Critic, CitationGate, ReportRenderer, Emit
  <2>3. Lenient.raised'
    <3>1. CASE log' = log
        BY <2>1, <3>1 DEF Lenient
    <3>2. CASE \E type, round, payload : EmitAt(type, round, payload)
        BY <2>1, <3>2, RaisedStays DEF Loop, Typed
    <3> QED
        BY <2>2, <3>1, <3>2
  <2> QED
      BY <1>4, <1>6, <2>3 DEF Mirrored
<1> QED
    BY <1>5, <1>6

LEMMA StepMirrored == ASSUME Loop, Prepared, Gated, Mirrored, [Next]_vars PROVE Mirrored'
<1>1. CASE Onward
    BY <1>1, OnwardMirrored
<1>2. CASE IntakePlanner \/ ScenarioBuilder \/ WorldInitializer
    BY <1>2, IntakeMirrored, ScenarioMirrored, WorldMirrored
<1>3. CASE InvokeAgain
    BY <1>3, InvokeMirrored
<1>4. CASE \/ UNCHANGED vars
           \/ \E reply \in Replies, readable \in BOOLEAN : PlanningRaises(reply, readable)
  <2>1. /\ node' = node \/ (node # "end" /\ node' = "raised")
        /\ UNCHANGED <<build, seed, plan, scenario, roster, max_rounds>>
        /\ UNCHANGED <<world, round_no, actions, outcome, warnings, log>>
      BY <1>4 DEF vars, caller, planned, rounds, reported, PlanningRaises, Raise, At
  <2>2. Lenient' = Lenient /\ Strict' = Strict /\ Unhandled' = Unhandled /\ \A type : Has(type)' = Has(type)
      BY <2>1 DEF Lenient, Strict, Unhandled, Has, Logged
  <2>3. Summary(world)' = Summary(world)
      BY <2>1 DEF Summary
  <2>4. Agrees => Agrees'
      BY <2>1, <2>2, <2>3 DEF Agrees
  <2>5. StrictAgrees => StrictAgrees'
      BY <2>2 DEF StrictAgrees
  <2>6. Replays' = Replays
      BY <2>1 DEF Replays, BuildsScenario
  <2> QED
      BY <2>2, <2>4, <2>5, <2>6 DEF Mirrored
<1> QED
    BY <1>1, <1>2, <1>3, <1>4 DEF Next, Onward, Reporting

\* The replayed state has all its parts once the log tells of the world.
LEMMA FullWithWorld ==
  ASSUME Loop, Prepared, Replays, Agrees
  PROVE  /\ Full(Lenient) <=> Has("WORLD_INITIALIZED")
         /\ Full(Lenient) => /\ Lenient.world_summary = {Summary(world)}
                             /\ \A buckets \in roster, count \in Lenient.participant_count :
                                  count = HeadCount(buckets)[Len(buckets)]
                             /\ Lenient.anchor = {Coverage(s.rows).max_period : s \in seed.snapshot}
<1>1. ASSUME Full(Lenient) PROVE Has("WORLD_INITIALIZED")
    BY <1>1 DEF Full, Agrees
<1>2. ASSUME Has("WORLD_INITIALIZED")
      PROVE  /\ Full(Lenient)
             /\ Lenient.world_summary = {Summary(world)}
             /\ \A buckets \in roster, count \in Lenient.participant_count :
                  count = HeadCount(buckets)[Len(buckets)]
             /\ Lenient.anchor = {Coverage(s.rows).max_period : s \in seed.snapshot}
  <2>1. Has("SCENARIO_BUILT") /\ Len(log) > 1
      BY <1>2 DEF Prepared, Ordered
  <2>2. log # <<>> /\ ~(Len(log) <= 1)
    <3>1. PICK S : log \in Seq(S)
        BY DEF Loop, Typed, IsSeq
    <3> QED
        BY <2>1, <3>1
  <2>3. BuildsScenario
      BY <2>2 DEF Replays
  <2>4. seed.snapshot # {} /\ scenario # {} /\ roster # {} /\ max_rounds # {}
      BY <2>1, <2>3 DEF Prepared, Servable
  <2>5. plan # {}
      BY <2>2 DEF Prepared, Ordered
  <2>6. /\ Lenient.intake_plan # {} /\ Lenient.scenario # {} /\ Lenient.roster # {}
        /\ Lenient.max_rounds # {}
      BY <2>1, <2>4, <2>5 DEF Agrees
  <2>7. /\ Lenient.world_summary = {Summary(world)}
        /\ Lenient.participant_count = {HeadCount(The(roster))[Len(The(roster))]}
        /\ Lenient.anchor = {Coverage(s.rows).max_period : s \in seed.snapshot}
      BY <1>2 DEF Agrees
  <2>8. Lenient.anchor # {}
      BY <2>4, <2>7
  <2>9. ASSUME NEW buckets \in roster, NEW count \in Lenient.participant_count
        PROVE  count = HeadCount(buckets)[Len(buckets)]
    <3>1. roster = {The(roster)}
        BY <2>4, OptionalFacts DEF Loop, Typed
    <3>2. buckets = The(roster)
        BY <3>1
    <3>3. count = HeadCount(The(roster))[Len(The(roster))]
        BY <2>7, <2>9
    <3> QED
        BY <3>2, <3>3
  <2> QED
      BY <2>6, <2>7, <2>8, <2>9 DEF Full
<1> QED
    BY <1>1, <1>2

\* SimulationGraph.ReplayAgrees: whatever the model answers and the market
\* does, the log of a run planned over a snapshot replays, after every node, to
\* the state of the graph; a log of stub planners raises, and a strict replay
\* raises from the first event of a reporting node on (replay/engine.py).
THEOREM ReplaysAgree == Spec => []ReplayAgrees
<1>1. ASSUME Loop, Prepared, Mirrored PROVE ReplayAgrees
  <2>1. Len(log) \in Nat
    <3>1. PICK S : log \in Seq(S)
        BY <1>1 DEF Loop, Typed, IsSeq
    <3> QED
        BY <3>1
  <2>2. Replays <=> ~(~BuildsScenario /\ log # <<>> /\ (~build.llm \/ Len(log) > 1))
    <3>1. Len(log) <= 1 <=> ~(Len(log) > 1)
        BY <2>1
    <3>2. BuildsScenario => build.llm
        BY DEF BuildsScenario
    <3> QED
        BY <3>1, <3>2 DEF Replays
  <2>3. CASE ~Replays
    <3>1. Lenient.raised
        BY <1>1, <2>3 DEF Mirrored
    <3> QED
        BY <2>2, <2>3, <3>1 DEF ReplayAgrees, Lenient
  <2>4. CASE Replays
    <3>1. Agrees /\ StrictAgrees
        BY <1>1, <2>4 DEF Mirrored
    <3>2. /\ Full(Lenient) <=> Has("WORLD_INITIALIZED")
          /\ Full(Lenient) => /\ Lenient.world_summary = {Summary(world)}
                              /\ \A buckets \in roster, count \in Lenient.participant_count :
                                   count = HeadCount(buckets)[Len(buckets)]
                              /\ Lenient.anchor = {Coverage(s.rows).max_period : s \in seed.snapshot}
        BY <1>1, <2>4, <3>1, FullWithWorld
    <3>3. /\ ~Lenient.raised /\ Lenient.intake_plan = plan
          /\ node # "end" => Lenient.warnings = warnings
          /\ Logged("SCENARIO_BUILT") # {} =>
               /\ Lenient.scenario = scenario /\ Lenient.roster = roster
               /\ Lenient.max_rounds = max_rounds
          /\ round_no > 0 => Lenient.round_no = {round_no} /\ Lenient.actions = {actions}
          /\ outcome # {} => Lenient.resolved = {o.trades : o \in outcome}
        BY <3>1 DEF Agrees, Has
    <3>4. Strict.raised <=> Unhandled # {}
        BY <3>1 DEF StrictAgrees
    <3> QED
        BY <2>2, <2>4, <3>2, <3>3, <3>4
        DEF ReplayAgrees, Lenient, Strict, Unhandled, UnhandledTypes, Has
  <2> QED
      BY <2>3, <2>4
<1>2. Init => Loop /\ Evidenced /\ Gated /\ Prepared /\ Mirrored
    BY InitLoop, InitEvidenced, InitGated, InitPlanning, InitMirrored DEF Loop
<1>3. Loop /\ Evidenced /\ Gated /\ Prepared /\ Mirrored /\ [Next]_vars
        => (Loop /\ Evidenced /\ Gated /\ Prepared /\ Mirrored)'
    BY NextLoop, StepEvidenced, StepGated, StepPlanning, StepMirrored
<1> QED
    BY <1>1, <1>2, <1>3, PTL DEF Spec

-----------------------------------------------------------------------------
(* The nodes an invocation has left.                                       *)

\* Past planning only a snapshot reader leaves the limit to the routers.
Limits == node \notin Early \cup {"raised"} /\ max_rounds = {} => build.reader

LEMMA InitLimits == Init => Limits
  BY DEF Init, Limits, Early

LEMMA StepLimits == ASSUME Loop, Prepared, Limits, [Next]_vars PROVE Limits'
<1>1. CASE Onward
  <2>1. node \notin Early \cup {"raised"} /\ UNCHANGED <<build, max_rounds>>
      BY <1>1, OnwardFrame DEF Prepared
  <2> QED
      BY <2>1 DEF Limits
<1>2. CASE WorldInitializer
  <2>1. build' = build
      BY <1>2 DEF WorldInitializer, caller
  <2>2. build.reader \/ WorldStub
      BY <1>2 DEF WorldInitializer
  <2>3. WorldStub => max_rounds' # {}
      BY DEF WorldStub
  <2> QED
      BY <2>1, <2>2, <2>3 DEF Limits
<1>3. CASE IntakePlanner \/ ScenarioBuilder \/ InvokeAgain
  <2>1. node' \in Early
      BY <1>3 DEF IntakePlanner, ScenarioBuilder, InvokeAgain, Early
  <2> QED
      BY <2>1 DEF Limits
<1>4. CASE \E reply \in Replies, readable \in BOOLEAN : PlanningRaises(reply, readable)
  <2>1. node' = "raised"
      BY <1>4 DEF PlanningRaises, Raise
  <2> QED
      BY <2>1 DEF Limits
<1>5. CASE UNCHANGED vars
    BY <1>5 DEF Limits, vars, caller, planned
<1> QED
    BY <1>1, <1>2, <1>3, <1>4, <1>5 DEF Next, Onward, Reporting

\* What NodesLeft comes to at each node.
Left ==
  /\ LimitAhead \in Nat
  /\ node = "intake_planner" => NodesLeft = 9 + 2 * LimitAhead
  /\ node = "scenario_builder" => NodesLeft = 8 + 2 * LimitAhead
  /\ node = "world_initializer" => NodesLeft = 7 + 2 * LimitAhead
  /\ node = "participant_decider" =>
       NodesLeft = 6 + 2 * (LimitAhead - round_no) /\ round_no < LimitAhead
  /\ node = "round_resolver" =>
       NodesLeft = 7 + 2 * (LimitAhead - round_no) /\ round_no <= LimitAhead
  /\ node = "round_summarizer" => NodesLeft = 6
  /\ node = "evidence_builder" => NodesLeft = 5
  /\ node = "report_writer" => NodesLeft = 4
  /\ node = "critic" => NodesLeft = 3
  /\ node = "citation_gate" => NodesLeft = 2
  /\ node = "report_renderer" => NodesLeft = 1
  /\ node \in {"end", "raised"} => NodesLeft = 0

LEMMA LeftHolds == ASSUME Loop, Limits PROVE Left
<1>1. round_no \in Nat /\ node \in Nodes /\ max_rounds \subseteq Nat
    BY DEF Loop, Typed
<1>2. LimitAhead \in Nat
  <2>1. max_rounds # {} => The(max_rounds) \in Nat
      BY <1>1 DEF The
  <2> QED
      BY <2>1, SimulationGraphAssumption DEF LimitAhead
<1>3. node \in Early => round_no = 0
    BY DEF Loop, Counted
<1>4. node \in {"participant_decider", "round_resolver"} => LimitAhead = Routed
    BY DEF Limits, LimitAhead, Routed, Early
<1>5. /\ node = "participant_decider" => round_no < LimitAhead
      /\ node = "round_resolver" => round_no <= LimitAhead
    BY <1>4 DEF Loop, Counted
<1> DEFINE L == LimitAhead
<1>6. L \in Nat
    BY <1>2
<1> HIDE DEF L
<1>7. NodesLeft = From[node] + (IF node \in ToRounds THEN 2 * (L - round_no) ELSE 0)
    BY DEF NodesLeft, L
<1>8. /\ node = "intake_planner" => NodesLeft = 9 + 2 * L
      /\ node = "scenario_builder" => NodesLeft = 8 + 2 * L
      /\ node = "world_initializer" => NodesLeft = 7 + 2 * L
    BY <1>1, <1>3, <1>6, <1>7 DEF From, ToRounds, Early
<1>9. /\ node = "participant_decider" => NodesLeft = 6 + 2 * (L - round_no)
      /\ node = "round_resolver" => NodesLeft = 7 + 2 * (L - round_no)
    BY <1>7 DEF From, ToRounds
<1>10. /\ node = "round_summarizer" => NodesLeft = 6
       /\ node = "evidence_builder" => NodesLeft = 5
       /\ node = "report_writer" => NodesLeft = 4
       /\ node = "critic" => NodesLeft = 3
       /\ node = "citation_gate" => NodesLeft = 2
       /\ node = "report_renderer" => NodesLeft = 1
       /\ node \in {"end", "raised"} => NodesLeft = 0
    BY <1>7 DEF From, ToRounds
<1> QED
    BY <1>2, <1>5, <1>8, <1>9, <1>10 DEF Left, L

Fewer == NodesLeft' < NodesLeft /\ {NodesLeft, NodesLeft'} \subseteq Nat

\* The planning nodes: the scenario sets a limit the intake node counted on,
\* and the world node does not change the one the routers will go by.
LEMMA PlanningFewer ==
  ASSUME Loop, Left, Left', IntakePlanner \/ ScenarioBuilder \/ WorldInitializer
  PROVE  Fewer
<1>1. LimitAhead \in Nat /\ LimitAhead' \in Nat
    BY DEF Left
<1>2. CASE IntakePlanner
  <2>1. node = "intake_planner" /\ node' = "scenario_builder" /\ UNCHANGED <<build, max_rounds>>
      BY <1>2 DEF IntakePlanner, At, caller
  <2>2. LimitAhead' = LimitAhead
      BY <2>1 DEF LimitAhead, BuildsScenario
  <2>3. NodesLeft = 9 + 2 * LimitAhead /\ NodesLeft' = 8 + 2 * LimitAhead
      BY <2>1, <2>2 DEF Left
  <2> QED
      BY <1>1, <2>3 DEF Fewer
<1>3. CASE ScenarioBuilder
  <2>1. node = "scenario_builder" /\ node' = "world_initializer" /\ build' = build
      BY <1>3 DEF ScenarioBuilder, At, caller
  <2>2. LimitAhead' <= LimitAhead
    <3>1. CASE ~BuildsScenario
      <4>1. max_rounds' = max_rounds
          BY <1>3, <3>1 DEF ScenarioBuilder, ScenarioStub
      <4>2. LimitAhead' = LimitAhead
          BY <2>1, <3>1, <4>1 DEF LimitAhead, BuildsScenario
      <4> QED
          BY <1>1, <4>2
    <3>2. ASSUME NEW s \in Selections, BuildsScenario, seed.snapshot # {}, ScenarioFrom(s)
          PROVE  LimitAhead' <= LimitAhead
      <4> DEFINE built == BuildScenario(The(plan), s, Coverage(The(seed.snapshot).rows))
      <4>1. built.max_rounds \in 1..8
          BY <2>1, <3>2, ScenarioPlanned DEF Loop, Built
      <4>2. max_rounds' = {built.max_rounds}
          BY <3>2 DEF ScenarioFrom
      <4> HIDE DEF built
      <4>3. LimitAhead' = built.max_rounds
          BY <2>1, <4>2 DEF LimitAhead, The
      <4>4. LimitAhead = 8
          BY <2>1, <3>2 DEF LimitAhead
      <4> QED
          BY <4>1, <4>3, <4>4
    <3> QED
        BY <1>3, <3>1, <3>2 DEF ScenarioBuilder, GenerateStructured
  <2>3. NodesLeft = 8 + 2 * LimitAhead /\ NodesLeft' = 7 + 2 * LimitAhead'
      BY <2>1 DEF Left
  <2>4. \A m, n \in Nat :
          n <= m => 7 + 2 * n < 8 + 2 * m /\ {8 + 2 * m, 7 + 2 * n} \subseteq Nat
      OBVIOUS
  <2> QED
      BY <1>1, <2>2, <2>3, <2>4 DEF Fewer
<1>4. CASE WorldInitializer
  <2>1. node = "world_initializer" /\ node' = StartRounds /\ build' = build /\ round_no' = 0
      BY <1>4 DEF WorldInitializer, At, caller
  <2>2. node' \in {"participant_decider", "round_summarizer"}
      BY <2>1 DEF StartRounds
  <2>3. LimitAhead' = LimitAhead
    <3>1. CASE build.reader /\ WorldFromSnapshot
        BY <2>1, <2>2, <3>1 DEF WorldFromSnapshot, LimitAhead
    <3>2. CASE ~build.reader /\ WorldStub
      <4>1. max_rounds' = {Limit(max_rounds)}
          BY <3>2 DEF WorldStub
      <4>2. LimitAhead' = Limit(max_rounds)
          BY <2>2, <4>1 DEF LimitAhead, The
      <4> QED
          BY <2>1, <3>2, <4>2 DEF LimitAhead, Limit
    <3> QED
        BY <1>4, <3>1, <3>2 DEF WorldInitializer
  <2>4. NodesLeft = 7 + 2 * LimitAhead
      BY <2>1 DEF Left
  <2>5. CASE node' = "participant_decider"
    <3>1. NodesLeft' = 6 + 2 * (LimitAhead' - 0)
        BY <2>1, <2>5 DEF Left
    <3> QED
        BY <1>1, <2>3, <2>4, <3>1 DEF Fewer
  <2>6. CASE node' = "round_summarizer"
    <3>1. NodesLeft' = 6
        BY <2>6 DEF Left
    <3> QED
        BY <1>1, <2>4, <3>1 DEF Fewer
  <2> QED
      BY <2>2, <2>5, <2>6
<1> QED
    BY <1>2, <1>3, <1>4

\* The rounds: each one takes two nodes, and the limit stays.
LEMMA RoundsFewer ==
  ASSUME Loop, Left, Left', ParticipantDecider \/ RoundResolver
  PROVE  Fewer
<1>1. LimitAhead \in Nat /\ LimitAhead' \in Nat /\ round_no \in Nat
    BY DEF Left, Loop, Typed
<1>2. CASE ParticipantDecider
  <2>1. /\ node = "participant_decider" /\ node' = "round_resolver" /\ round_no' = round_no + 1
        /\ UNCHANGED <<build, max_rounds>>
      BY <1>2 DEF ParticipantDecider, At, caller, planned
  <2>2. LimitAhead' = LimitAhead
      BY <2>1 DEF LimitAhead, BuildsScenario
  <2>3. /\ NodesLeft = 6 + 2 * (LimitAhead - round_no) /\ round_no < LimitAhead
        /\ NodesLeft' = 7 + 2 * (LimitAhead' - round_no')
      BY <2>1 DEF Left
  <2> QED
      BY <1>1, <2>1, <2>2, <2>3 DEF Fewer
<1>3. CASE RoundResolver
  <2>1. node = "round_resolver" /\ UNCHANGED <<build, max_rounds, round_no>>
      BY <1>3 DEF RoundResolver, At, caller
  <2>2. node' \in {"participant_decider", "round_summarizer"}
    <3>1. \A trades : (IF ShouldContinue(trades) THEN "participant_decider" ELSE "round_summarizer")
                        \in {"participant_decider", "round_summarizer"}
        OBVIOUS
    <3> QED
        BY <1>3, <3>1 DEF RoundResolver
  <2>3. LimitAhead' = LimitAhead
      BY <2>1, <2>2 DEF LimitAhead, BuildsScenario
  <2>4. NodesLeft = 7 + 2 * (LimitAhead - round_no) /\ round_no <= LimitAhead
      BY <2>1 DEF Left
  <2>5. CASE node' = "participant_decider"
    <3>1. NodesLeft' = 6 + 2 * (LimitAhead' - round_no')
        BY <2>5 DEF Left
    <3> QED
        BY <1>1, <2>1, <2>3, <2>4, <3>1 DEF Fewer
  <2>6. CASE node' = "round_summarizer"
    <3>1. NodesLeft' = 6
        BY <2>6 DEF Left
    <3> QED
        BY <1>1, <2>4, <3>1 DEF Fewer
  <2> QED
      BY <2>2, <2>5, <2>6
<1> QED
    BY <1>2, <1>3

LEMMA ReportingFewer == ASSUME Left, Left', Reporting PROVE Fewer
<1>1. \/ node = "round_summarizer" /\ node' = "evidence_builder"
      \/ node = "evidence_builder" /\ node' = "report_writer"
      \/ node = "report_writer" /\ node' = "critic"
      \/ node = "critic" /\ node' = "citation_gate"
      \/ node = "citation_gate" /\ node' = "report_renderer"
      \/ node = "report_renderer" /\ node' = "end"
  <2>1. RoundSummarizer => node = "round_summarizer" /\ node' = "evidence_builder"
      BY DEF RoundSummarizer, At
  <2>2. EvidenceBuilder => node = "evidence_builder" /\ node' = "report_writer"
      BY DEF EvidenceBuilder, At
  <2>3. ReportWriter => node = "report_writer" /\ node' = "critic"
      BY DEF ReportWriter, At
  <2>4. Critic => node = "critic" /\ node' = "citation_gate"
      BY DEF Critic, At
  <2>5. CitationGate => node = "citation_gate" /\ node' = "report_renderer"
      BY DEF CitationGate, At
  <2>6. ReportRenderer => node = "report_renderer" /\ node' = "end"
      BY DEF ReportRenderer, At
  <2> QED
      BY <2>1, <2>2, <2>3, <2>4, <2>5, <2>6 DEF Reporting
<1>2. NodesLeft \in Nat /\ NodesLeft' \in Nat /\ NodesLeft' < NodesLeft
    BY <1>1 DEF Left
<1> QED
    BY <1>2 DEF Fewer

LEMMA RaisesFewer ==
  ASSUME Left, Left', NEW reply, NEW readable, PlanningRaises(reply, readable) PROVE Fewer
<1>1. node \in Early /\ node' = "raised"
    BY DEF PlanningRaises, At, Raise, Early
<1>2. NodesLeft \in Nat /\ NodesLeft > 0
    BY <1>1 DEF Left, Early
<1>3. NodesLeft' = 0
    BY <1>1 DEF Left
<1> QED
    BY <1>2, <1>3 DEF Fewer

LEMMA StepFewer ==
  ASSUME Loop, Left, Left', Next, node \notin {"end", "raised"} PROVE Fewer
<1>1. ~InvokeAgain
    BY DEF InvokeAgain
<1> QED
    BY <1>1, PlanningFewer, RoundsFewer, ReportingFewer, RaisesFewer DEF Next, Reporting

\* SimulationGraph.NodesRunOut: an invocation runs no more nodes than nine and
\* two for each round of its limit, at most twenty-five when the model planned
\* it, whatever caller, model and rounds do (simulation/graph.py).
THEOREM GraphRunsOut == Spec => NodesRunOut
<1>1. Loop /\ Limits => Left
    BY LeftHolds
<1>2. Loop /\ Left /\ Left' /\ [Next]_vars
        => [node \notin {"end", "raised"} => NodesLeft' < NodesLeft /\ {NodesLeft, NodesLeft'} \subseteq Nat]_vars
    BY StepFewer DEF Fewer
<1>3. Init => Loop /\ Prepared /\ Limits
    BY InitLoop, InitPlanning, InitLimits DEF Loop
<1>4. Loop /\ Prepared /\ Limits /\ [Next]_vars => (Loop /\ Prepared /\ Limits)'
    BY NextLoop, StepPlanning, StepLimits
<1> QED
    BY <1>1, <1>2, <1>3, <1>4, PTL DEF Spec, NodesRunOut
=============================================================================
