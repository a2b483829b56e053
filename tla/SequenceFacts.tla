--------------------------- MODULE SequenceFacts ---------------------------
(***************************************************************************)
(* Lemmas that several proofs rest on: induction over a set of numbers,    *)
(* sequences without repetitions, and what FlattenSeq of the community     *)
(* modules returns.                                                        *)
(***************************************************************************)
EXTENDS Integers, Sequences, FiniteSets, SequencesExt, FiniteSetTheorems,
        SequenceTheorems, WellFoundedInduction, TLAPS

Below == {pair \in Nat \X Nat : pair[1] < pair[2]}

LEMMA BelowWellFounded == IsWellFoundedOn(Below, Nat)
  BY NatLessThanWellFounded DEF OpToRel, Below

\* Induction over a set of numbers.
LEMMA NatInductive ==
  ASSUME NEW T, 0 \in T, \A n \in Nat : n \in T => n + 1 \in T
  PROVE  Nat \subseteq T
<1> SUFFICES ASSUME Nat \ T # {} PROVE FALSE
    OBVIOUS
<1>1. PICK n \in Nat \ T : \A m \in Nat \ T : <<m, n>> \notin Below
    BY BelowWellFounded, WFMin
<1>2. n # 0 /\ n - 1 \in Nat /\ (n - 1) + 1 = n
    OBVIOUS
<1>3. n - 1 \in T
  <2> DEFINE m == n - 1
  <2>1. <<m, n>> \in Nat \X Nat /\ <<m, n>>[1] < <<m, n>>[2]
      BY <1>2
  <2>2. <<m, n>> \in Below
      BY <2>1 DEF Below
  <2> QED
      BY <1>1, <1>2, <2>2
<1> QED
    BY <1>2, <1>3

-----------------------------------------------------------------------------
(* Sequences.                                                              *)

LEMMA ConcatInjective ==
  ASSUME NEW S, NEW s \in Seq(S), NEW t \in Seq(S), IsInjective(s), IsInjective(t),
         ToSet(s) \cap ToSet(t) = {}
  PROVE  s \o t \in Seq(S) /\ IsInjective(s \o t) /\ ToSet(s \o t) = ToSet(s) \cup ToSet(t)
<1> DEFINE u == s \o t
<1>1. /\ u \in Seq(S) /\ Len(u) = Len(s) + Len(t) /\ DOMAIN u = 1..(Len(s) + Len(t))
      /\ \A i \in 1..Len(s) : u[i] = s[i]
      /\ \A i \in 1..Len(t) : u[Len(s) + i] = t[i]
    OBVIOUS
<1>2. DOMAIN s = 1..Len(s) /\ DOMAIN t = 1..Len(t) /\ Len(s) \in Nat /\ Len(t) \in Nat
    OBVIOUS
<1> HIDE DEF u
<1>3. \A i \in DOMAIN u : (i \in 1..Len(s) /\ u[i] = s[i])
                          \/ \E j \in 1..Len(t) : i = Len(s) + j /\ u[i] = t[j]
  <2> SUFFICES ASSUME NEW i \in DOMAIN u, i \notin 1..Len(s)
               PROVE  \E j \in 1..Len(t) : i = Len(s) + j /\ u[i] = t[j]
      BY <1>1
  <2>1. i - Len(s) \in 1..Len(t) /\ i = Len(s) + (i - Len(s))
      BY <1>1, <1>2
  <2> QED
      BY <1>1, <2>1
<1>4. ToSet(u) = ToSet(s) \cup ToSet(t)
  <2>1. ToSet(u) \subseteq ToSet(s) \cup ToSet(t)
      BY <1>2, <1>3 DEF ToSet
  <2>2. ToSet(s) \subseteq ToSet(u)
      BY <1>1, <1>2 DEF ToSet
  <2>3. ToSet(t) \subseteq ToSet(u)
    <3> SUFFICES ASSUME NEW j \in 1..Len(t) PROVE t[j] \in ToSet(u)
        BY <1>2 DEF ToSet
    <3>1. Len(s) + j \in DOMAIN u
        BY <1>1, <1>2
    <3> QED
        BY <1>1, <3>1 DEF ToSet
  <2> QED
      BY <2>1, <2>2, <2>3
<1>5. IsInjective(u)
  <2> SUFFICES ASSUME NEW i \in DOMAIN u, NEW j \in DOMAIN u, u[i] = u[j] PROVE i = j
      BY DEF IsInjective
  <2>1. CASE i \in 1..Len(s) /\ j \in 1..Len(s)
      BY <1>1, <1>2, <2>1 DEF IsInjective
  <2>2. CASE i \notin 1..Len(s) /\ j \notin 1..Len(s)
      BY <1>2, <1>3, <2>2 DEF IsInjective
  <2>3. ASSUME NEW k \in 1..Len(s), NEW l \in 1..Len(t) PROVE s[k] # t[l]
    <3>1. s[k] \in ToSet(s) /\ t[l] \in ToSet(t)
        BY <1>2 DEF ToSet
    <3> QED
        BY <3>1
  <2>4. CASE ~(i \in 1..Len(s) <=> j \in 1..Len(s))
      BY <1>3, <2>3, <2>4
  <2> QED
      BY <2>1, <2>2, <2>3, <2>4
<1> QED
    BY <1>1, <1>4, <1>5 DEF u

Flattens(f, seqs, n) ==
  f = [i \in 1..n |-> IF i = 1 THEN seqs[i] ELSE f[i - 1] \o seqs[i]]

LEMMA FlattenDefined ==
  ASSUME NEW seqs, NEW n \in Nat PROVE \E f : Flattens(f, seqs, n)
<1> DEFINE T == {k \in Nat : \E f : Flattens(f, seqs, k)}
<1>1. 0 \in T
  <2> DEFINE f == [i \in 1..0 |-> seqs[i]]
  <2>1. Flattens(f, seqs, 0)
      BY DEF Flattens
  <2> QED
      BY <2>1
<1>2. ASSUME NEW k \in Nat, k \in T PROVE k + 1 \in T
  <2>1. PICK f : Flattens(f, seqs, k)
      BY <1>2
  <2> DEFINE g == [i \in 1..(k + 1) |-> IF i = 1 THEN seqs[i] ELSE f[i - 1] \o seqs[i]]
  <2>2. \A i \in 1..k : g[i] = f[i]
    <3>1. \A i \in 1..k : f[i] = IF i = 1 THEN seqs[i] ELSE f[i - 1] \o seqs[i]
        BY <2>1, Zenon DEF Flattens
    <3>2. \A i \in 1..k : i \in 1..(k + 1)
        OBVIOUS
    <3>3. \A i \in 1..(k + 1) : g[i] = IF i = 1 THEN seqs[i] ELSE f[i - 1] \o seqs[i]
        OBVIOUS
    <3> HIDE DEF g
    <3> QED
        BY <3>1, <3>2, <3>3, Zenon
  <2>3. \A i \in 1..(k + 1) : i # 1 => i - 1 \in 1..k
      OBVIOUS
  <2>4. \A i \in 1..(k + 1) : i # 1 => g[i - 1] = f[i - 1]
      BY <2>2, <2>3
  <2>5. Flattens(g, seqs, k + 1)
      BY <2>4 DEF Flattens
  <2>6. \E h : Flattens(h, seqs, k + 1)
    <3> HIDE DEF g
    <3> QED
        BY <2>5
  <2> QED
      BY <2>6
<1> HIDE DEF T
<1>3. Nat \subseteq T
    BY <1>1, <1>2, NatInductive
<1> QED
    BY <1>3 DEF T

\* Sequences that repeat nothing and share nothing, one after the other.
LEMMA FlattenInjective ==
  ASSUME NEW S, NEW seqs \in Seq(Seq(S)),
         \A i \in DOMAIN seqs : IsInjective(seqs[i]),
         \A i, j \in DOMAIN seqs : i # j => ToSet(seqs[i]) \cap ToSet(seqs[j]) = {}
  PROVE  /\ FlattenSeq(seqs) \in Seq(S) /\ IsInjective(FlattenSeq(seqs))
         /\ ToSet(FlattenSeq(seqs)) = UNION {ToSet(seqs[i]) : i \in DOMAIN seqs}
<1> DEFINE n == Len(seqs)
<1>1. n \in Nat /\ DOMAIN seqs = 1..n /\ \A i \in 1..n : seqs[i] \in Seq(S)
    OBVIOUS
<1>2. CASE n = 0
  <2>1. FlattenSeq(seqs) = seqs /\ seqs = <<>>
      BY <1>2 DEF FlattenSeq
  <2>2. <<>> \in Seq(S) /\ DOMAIN <<>> = {}
      OBVIOUS
  <2> QED
      BY <2>1, <2>2 DEF IsInjective, ToSet
<1>3. CASE n # 0
  <2> DEFINE f == CHOOSE g : Flattens(g, seqs, n)
  <2>1. FlattenSeq(seqs) = f[n]
      BY <1>3 DEF FlattenSeq, Flattens
  <2>2. Flattens(f, seqs, n)
      BY <1>1, FlattenDefined
  <2> HIDE DEF f
  <2> DEFINE Good(i) == /\ f[i] \in Seq(S) /\ IsInjective(f[i])
                        /\ ToSet(f[i]) = UNION {ToSet(seqs[j]) : j \in 1..i}
  <2> DEFINE T == {i \in Nat : i \in 1..n => Good(i)}
  <2>3. 0 \in T
      OBVIOUS
  <2>4. ASSUME NEW i \in Nat, i \in T, i + 1 \in 1..n PROVE Good(i + 1)
    <3>1. CASE i = 0
      <4>1. f[1] = seqs[1] /\ 1 \in 1..n
          BY <2>2, <2>4, <3>1 DEF Flattens
      <4>2. UNION {ToSet(seqs[j]) : j \in 1..1} = ToSet(seqs[1])
          OBVIOUS
      <4> QED
          BY <1>1, <3>1, <4>1, <4>2
    <3>2. CASE i # 0
      <4>1. i \in 1..n /\ i + 1 # 1 /\ (i + 1) - 1 = i
          BY <2>4, <3>2
      <4>2. Good(i)
          BY <2>4, <4>1
      <4>3. f[i + 1] = f[i] \o seqs[i + 1]
          BY <2>2, <2>4, <4>1 DEF Flattens
      <4>4. ToSet(f[i]) \cap ToSet(seqs[i + 1]) = {}
        <5>1. \A j \in 1..i : j \in 1..n /\ j # i + 1
            BY <4>1
        <5> QED
            BY <1>1, <2>4, <4>2, <5>1
      <4>5. UNION {ToSet(seqs[j]) : j \in 1..(i + 1)}
              = (UNION {ToSet(seqs[j]) : j \in 1..i}) \cup ToSet(seqs[i + 1])
        <5>1. 1..(i + 1) = (1..i) \cup {i + 1}
            BY <2>4
        <5> QED
            BY <5>1
      <4> DEFINE a == f[i]
                 b == seqs[i + 1]
      <4>6. a \in Seq(S) /\ b \in Seq(S) /\ IsInjective(a) /\ IsInjective(b)
            /\ ToSet(a) \cap ToSet(b) = {}
          BY <1>1, <2>4, <4>2, <4>4
      <4>7. a \o b \in Seq(S) /\ IsInjective(a \o b) /\ ToSet(a \o b) = ToSet(a) \cup ToSet(b)
        <5> HIDE DEF a, b
        <5> QED
            BY <4>6, ConcatInjective
      <4>8. ToSet(f[i + 1]) = UNION {ToSet(seqs[j]) : j \in 1..(i + 1)}
        <5>1. ToSet(f[i + 1]) = ToSet(f[i]) \cup ToSet(seqs[i + 1])
            BY <4>3, <4>7
        <5>2. ToSet(f[i]) = UNION {ToSet(seqs[j]) : j \in 1..i}
            BY <4>2
        <5> QED
            BY <4>5, <5>1, <5>2
      <4> QED
          BY <4>3, <4>7, <4>8, Zenon
    <3> QED
        BY <3>1, <3>2
  <2>5. Nat \subseteq T
    <3>1. \A i \in Nat : i \in T => i + 1 \in T
      <4> HIDE DEF Good
      <4> QED
          BY <2>4
    <3> HIDE DEF T
    <3> QED
        BY <2>3, <3>1, NatInductive
  <2>6. n \in 1..n
      BY <1>1, <1>3
  <2>7. Good(n)
    <3> HIDE DEF Good
    <3> QED
        BY <1>1, <2>5, <2>6
  <2> QED
      BY <1>1, <2>1, <2>7
<1> QED
    BY <1>2, <1>3

LEMMA ConcatElements ==
  ASSUME NEW S, NEW s \in Seq(S), NEW t \in Seq(S)
  PROVE  /\ s \o t \in Seq(S) /\ ToSet(s \o t) = ToSet(s) \cup ToSet(t)
         /\ Len(s \o t) = Len(s) + Len(t)
<1> DEFINE u == s \o t
<1>1. /\ u \in Seq(S) /\ Len(u) = Len(s) + Len(t) /\ DOMAIN u = 1..(Len(s) + Len(t))
      /\ \A i \in 1..Len(s) : u[i] = s[i]
      /\ \A i \in 1..Len(t) : u[Len(s) + i] = t[i]
    OBVIOUS
<1>2. DOMAIN s = 1..Len(s) /\ DOMAIN t = 1..Len(t) /\ Len(s) \in Nat /\ Len(t) \in Nat
    OBVIOUS
<1> HIDE DEF u
<1>3. \A i \in DOMAIN u : (i \in 1..Len(s) /\ u[i] = s[i])
                        \/ (i - Len(s) \in 1..Len(t) /\ u[i] = t[i - Len(s)])
  <2> SUFFICES ASSUME NEW i \in DOMAIN u, i \notin 1..Len(s)
               PROVE  i - Len(s) \in 1..Len(t) /\ u[i] = t[i - Len(s)]
      BY <1>1
  <2>1. i - Len(s) \in 1..Len(t) /\ Len(s) + (i - Len(s)) = i
      BY <1>1, <1>2
  <2> QED
      BY <1>1, <2>1
<1>4. \A i \in DOMAIN s : i \in DOMAIN u /\ u[i] = s[i]
    BY <1>1, <1>2
<1>5. \A i \in DOMAIN t : Len(s) + i \in DOMAIN u /\ u[Len(s) + i] = t[i]
    BY <1>1, <1>2
<1>6. ToSet(u) = ToSet(s) \cup ToSet(t)
    BY <1>2, <1>3, <1>4, <1>5 DEF ToSet
<1> QED
    BY <1>1, <1>6 DEF u

LEMMA FlattenElements ==
  ASSUME NEW S, NEW seqs \in Seq(Seq(S))
  PROVE  /\ FlattenSeq(seqs) \in Seq(S)
         /\ ToSet(FlattenSeq(seqs)) = UNION {ToSet(seqs[i]) : i \in DOMAIN seqs}
<1> DEFINE n == Len(seqs)
<1>1. n \in Nat /\ DOMAIN seqs = 1..n /\ \A i \in 1..n : seqs[i] \in Seq(S)
    OBVIOUS
<1>2. CASE n = 0
  <2>1. FlattenSeq(seqs) = seqs /\ seqs = <<>>
      BY <1>2 DEF FlattenSeq
  <2>2. <<>> \in Seq(S) /\ DOMAIN <<>> = {}
      OBVIOUS
  <2> QED
      BY <2>1, <2>2 DEF ToSet
<1>3. CASE n # 0
  <2> DEFINE f == CHOOSE g : Flattens(g, seqs, n)
  <2>1. FlattenSeq(seqs) = f[n]
      BY <1>3 DEF FlattenSeq, Flattens
  <2>2. Flattens(f, seqs, n)
      BY <1>1, FlattenDefined
  <2> HIDE DEF f
  <2> DEFINE Good(i) == f[i] \in Seq(S) /\ ToSet(f[i]) = UNION {ToSet(seqs[j]) : j \in 1..i}
             T == {i \in Nat : i \in 1..n => Good(i)}
  <2>3. ASSUME NEW i \in Nat, i \in T, i + 1 \in 1..n PROVE Good(i + 1)
    <3>1. f[i + 1] = IF i + 1 = 1 THEN seqs[i + 1] ELSE f[(i + 1) - 1] \o seqs[i + 1]
        BY <2>2, <2>3, Zenon DEF Flattens
    <3>2. seqs[i + 1] \in Seq(S) /\ (i + 1) - 1 = i
        BY <1>1, <2>3
    <3>3. UNION {ToSet(seqs[j]) : j \in 1..(i + 1)}
            = (UNION {ToSet(seqs[j]) : j \in 1..i}) \cup ToSet(seqs[i + 1])
      <4>1. 1..(i + 1) = (1..i) \cup {i + 1}
          BY <2>3
      <4> QED
          BY <4>1
    <3>4. CASE i = 0
      <4>1. f[i + 1] = seqs[i + 1]
          BY <3>1, <3>4
      <4>2. 1..i = {}
          BY <3>4
      <4> QED
          BY <3>2, <3>3, <4>1, <4>2
    <3>5. CASE i # 0
      <4> DEFINE a == f[i]
                 b == seqs[i + 1]
      <4>1. f[i + 1] = a \o b
        <5>1. i + 1 # 1
            BY <2>3, <3>5
        <5> QED
            BY <3>1, <3>2, <5>1, Zenon
      <4>2. Good(i)
          BY <2>3, <3>5
      <4>3. a \in Seq(S) /\ b \in Seq(S) /\ ToSet(a) = UNION {ToSet(seqs[j]) : j \in 1..i}
          BY <3>2, <4>2
      <4>4. a \o b \in Seq(S) /\ ToSet(a \o b) = ToSet(a) \cup ToSet(b)
        <5> HIDE DEF a, b
        <5> QED
            BY <4>3, ConcatElements
      <4> QED
          BY <3>3, <4>1, <4>3, <4>4
    <3> QED
        BY <3>4, <3>5
  <2>4. Nat \subseteq T
    <3>1. 0 \in T
        OBVIOUS
    <3>2. ASSUME NEW i \in Nat, i \in T PROVE i + 1 \in T
      <4>1. i + 1 \in Nat
          OBVIOUS
      <4>2. i + 1 \in 1..n => Good(i + 1)
        <5> HIDE DEF Good, T, n
        <5> QED
            BY <2>3, <3>2
      <4> HIDE DEF Good, n
      <4> QED
          BY <4>1, <4>2
    <3> HIDE DEF T
    <3> QED
        BY <3>1, <3>2, NatInductive
  <2>5. Good(n)
    <3> HIDE DEF Good
    <3> QED
        BY <1>1, <1>3, <2>4
  <2> QED
      BY <1>1, <2>1, <2>5
<1> QED
    BY <1>2, <1>3

\* Pairs, one after the other.
LEMMA FlattenPairs ==
  ASSUME NEW S, NEW seqs \in Seq(Seq(S)), \A i \in DOMAIN seqs : Len(seqs[i]) = 2
  PROVE  Len(FlattenSeq(seqs)) = 2 * Len(seqs)
<1> DEFINE n == Len(seqs)
<1>1. /\ n \in Nat /\ DOMAIN seqs = 1..n
      /\ \A i \in 1..n : seqs[i] \in Seq(S) /\ Len(seqs[i]) = 2
    OBVIOUS
<1>2. CASE n = 0
  <2>1. FlattenSeq(seqs) = seqs /\ seqs = <<>>
      BY <1>2 DEF FlattenSeq
  <2> QED
      BY <2>1
<1>3. CASE n # 0
  <2> DEFINE f == CHOOSE g : Flattens(g, seqs, n)
  <2>1. FlattenSeq(seqs) = f[n]
      BY <1>3 DEF FlattenSeq, Flattens
  <2>2. Flattens(f, seqs, n)
      BY <1>1, FlattenDefined
  <2> HIDE DEF f
  <2> DEFINE T == {i \in Nat : i \in 1..n => f[i] \in Seq(S) /\ Len(f[i]) = 2 * i}
  <2>3. ASSUME NEW i \in Nat, i \in T, i + 1 \in 1..n
        PROVE  f[i + 1] \in Seq(S) /\ Len(f[i + 1]) = 2 * (i + 1)
    <3>1. f[i + 1] = IF i + 1 = 1 THEN seqs[i + 1] ELSE f[(i + 1) - 1] \o seqs[i + 1]
        BY <2>2, <2>3, Zenon DEF Flattens
    <3>2. seqs[i + 1] \in Seq(S) /\ Len(seqs[i + 1]) = 2 /\ (i + 1) - 1 = i
        BY <1>1, <2>3
    <3>3. i # 0 => f[i] \in Seq(S) /\ Len(f[i]) = 2 * i
        BY <2>3
    <3>4. CASE i = 0
      <4>1. f[i + 1] = seqs[i + 1] /\ 2 * (i + 1) = 2
          BY <3>1, <3>4
      <4> QED
          BY <3>2, <4>1
    <3>5. CASE i # 0
      <4> DEFINE a == f[i]
                 b == seqs[i + 1]
      <4>1. i + 1 # 1
          BY <2>3, <3>5
      <4>2. f[i + 1] = a \o b
          BY <3>1, <3>2, <4>1, Zenon
      <4>3. a \in Seq(S) /\ b \in Seq(S) /\ Len(a) = 2 * i /\ Len(b) = 2
          BY <3>2, <3>3, <3>5
      <4>4. a \o b \in Seq(S) /\ Len(a \o b) = Len(a) + Len(b)
        <5> HIDE DEF a, b
        <5> QED
            BY <4>3, ConcatElements
      <4> HIDE DEF a, b
      <4>5. Len(a \o b) = 2 * (i + 1)
          BY <2>3, <4>3, <4>4
      <4> QED
          BY <4>2, <4>4, <4>5
    <3> QED
        BY <3>4, <3>5
  <2>4. Nat \subseteq T
    <3>1. 0 \in T /\ \A i \in Nat : i \in T => i + 1 \in T
        BY <2>3
    <3> HIDE DEF T
    <3> QED
        BY <3>1, NatInductive
  <2> QED
      BY <1>1, <1>3, <2>1, <2>4
<1> QED
    BY <1>2, <1>3

\* A value that may be missing, as a sequence of at most one.
LEMMA OptionalToSeq ==
  ASSUME NEW S, \A x, y \in S : x = y PROVE SetToSeq(S) \in Seq(S)
<1> SUFFICES \E f \in [1..Cardinality(S) -> S] : IsInjective(f)
  <2> DEFINE n == Cardinality(S)
  <2>1. n \in Nat
    <3>1. CASE S = {}
        BY <3>1, FS_EmptySet
    <3>2. ASSUME NEW x \in S PROVE n \in Nat
      <4>1. S = {x}
          BY <3>2
      <4>2. Cardinality({x}) = 1
          BY FS_Singleton
      <4> QED
          BY <4>1, <4>2
    <3> QED
        BY <3>1, <3>2
  <2>2. ASSUME \E f \in [1..n -> S] : IsInjective(f) PROVE SetToSeq(S) \in [1..n -> S]
      BY <2>2 DEF SetToSeq
  <2> HIDE DEF n
  <2>3. ASSUME NEW s \in [1..n -> S] PROVE s \in Seq(S)
      BY <2>1
  <2> QED
      BY <2>2, <2>3 DEF n
<1>1. CASE S = {}
  <2>1. Cardinality(S) = 0
      BY <1>1, FS_EmptySet
  <2>2. [i \in 1..0 |-> i] \in [1..0 -> S] /\ IsInjective([i \in 1..0 |-> i])
      BY DEF IsInjective
  <2> QED
      BY <2>1, <2>2
<1>2. ASSUME NEW x \in S PROVE \E f \in [1..Cardinality(S) -> S] : IsInjective(f)
  <2>1. S = {x} /\ Cardinality(S) = 1
    <3>1. S = {x}
        BY <1>2
    <3>2. Cardinality({x}) = 1
        BY FS_Singleton
    <3> QED
        BY <3>1, <3>2
  <2>2. [i \in 1..1 |-> x] \in [1..1 -> S] /\ IsInjective([i \in 1..1 |-> x])
      BY DEF IsInjective
  <2> QED
      BY <2>1, <2>2
<1> QED
    BY <1>1, <1>2

IsSeq(s) == \E S : s \in Seq(S)

LEMMA ConcatSets ==
  ASSUME NEW s, NEW t, IsSeq(s), IsSeq(t)
  PROVE  /\ IsSeq(s \o t) /\ ToSet(s \o t) = ToSet(s) \cup ToSet(t)
         /\ Len(s \o t) = Len(s) + Len(t) /\ Len(s) \in Nat /\ Len(t) \in Nat
         /\ \A i \in DOMAIN s : i \in DOMAIN (s \o t) /\ (s \o t)[i] = s[i]
         /\ \A i \in DOMAIN (s \o t) :
              (i \in DOMAIN s /\ (s \o t)[i] = s[i]) \/ (s \o t)[i] \in ToSet(t)
<1>1. PICK S, T : s \in Seq(S) /\ t \in Seq(T)
    BY DEF IsSeq
<1>2. s \in Seq(S \cup T) /\ t \in Seq(S \cup T)
    BY <1>1, SeqMonotonic
<1> DEFINE u == s \o t
<1>3. /\ u \in Seq(S \cup T) /\ ToSet(u) = ToSet(s) \cup ToSet(t)
      /\ Len(u) = Len(s) + Len(t)
    BY <1>2, ConcatElements
<1>4. /\ DOMAIN u = 1..(Len(s) + Len(t)) /\ DOMAIN s = 1..Len(s) /\ DOMAIN t = 1..Len(t)
      /\ Len(s) \in Nat /\ Len(t) \in Nat
      /\ \A i \in 1..Len(s) : u[i] = s[i]
      /\ \A i \in 1..Len(t) : u[Len(s) + i] = t[i]
    BY <1>2
<1> HIDE DEF u
<1>5. ASSUME NEW i \in DOMAIN u, i \notin DOMAIN s PROVE u[i] \in ToSet(t)
  <2>1. i - Len(s) \in 1..Len(t) /\ Len(s) + (i - Len(s)) = i
      BY <1>4, <1>5
  <2> QED
      BY <1>4, <2>1 DEF ToSet
<1>6. \A i \in DOMAIN s : i \in DOMAIN u /\ u[i] = s[i]
    BY <1>4
<1> QED
    BY <1>3, <1>4, <1>5, <1>6 DEF IsSeq, u

LEMMA SingleSet == ASSUME NEW x PROVE IsSeq(<<x>>) /\ ToSet(<<x>>) = {x} /\ Len(<<x>>) = 1
<1>1. <<x>> \in Seq({x}) /\ \A i \in DOMAIN <<x>> : <<x>>[i] = x
    OBVIOUS
<1>2. 1 \in DOMAIN <<x>>
    OBVIOUS
<1> QED
    BY <1>1, <1>2 DEF IsSeq, ToSet

LEMMA ConcatIsSeq == ASSUME NEW s, NEW t, IsSeq(s), IsSeq(t) PROVE IsSeq(s \o t)
<1>1. PICK S, T : s \in Seq(S) /\ t \in Seq(T)
    BY DEF IsSeq
<1>2. s \in Seq(S \cup T) /\ t \in Seq(S \cup T)
    BY <1>1, SeqMonotonic
<1>3. s \o t \in Seq(S \cup T)
    BY <1>2
<1> QED
    BY <1>3 DEF IsSeq

-----------------------------------------------------------------------------
(* The elements of a finite set in a row.                                  *)

LEMMA RangeFinite ==
  ASSUME NEW f, IsFiniteSet(DOMAIN f) PROVE IsFiniteSet({f[x] : x \in DOMAIN f})
<1> DEFINE R == {f[x] : x \in DOMAIN f}
           g == [x \in DOMAIN f |-> f[x]]
<1>1. g \in Surjection(DOMAIN f, R)
    BY DEF Surjection
<1> HIDE DEF g, R
<1>2. IsFiniteSet(R)
    BY <1>1, FS_Surjection
<1> QED
    BY <1>2 DEF R

Enumerates(s, S) ==
  s \in Seq(S) /\ Len(s) = Cardinality(S) /\ IsInjective(s) /\ ToSet(s) = S

LEMMA IntervalCount ==
  ASSUME NEW n \in Nat PROVE IsFiniteSet(1..n) /\ Cardinality(1..n) = n
<1>1. IsFiniteSet(1..n) /\ Cardinality(1..n) = IF 1 > n THEN 0 ELSE n - 1 + 1
    BY FS_Interval
<1> QED
    BY <1>1

LEMMA InjectionEnumerates ==
  ASSUME NEW S, IsFiniteSet(S), NEW s \in [1..Cardinality(S) -> S], IsInjective(s)
  PROVE  Enumerates(s, S)
<1> DEFINE n == Cardinality(S)
<1>1. n \in Nat
    BY FS_CardinalityType
<1>2. IsFiniteSet(1..n) /\ Cardinality(1..n) = n
    BY <1>1, IntervalCount
<1>3. s \in Injection(1..n, S)
    BY DEF Injection
<1>4. s \in Surjection(1..n, S)
    BY <1>2, <1>3, FS_Injection
<1>5. s \in [1..n -> S] /\ \A x \in S : \E i \in 1..n : s[i] = x
    BY <1>4 DEF Surjection
<1> HIDE DEF n
<1>6. s \in Seq(S) /\ Len(s) = n /\ DOMAIN s = 1..n
    BY <1>1, <1>5
<1>7. ToSet(s) = S
    BY <1>5, <1>6 DEF ToSet
<1> QED
    BY <1>6, <1>7 DEF Enumerates, n

\* A function of the elements of a finite set, in a row.
LEMMA Mapped ==
  ASSUME NEW S, NEW s, Enumerates(s, S), IsFiniteSet(S), NEW f, DOMAIN f = DOMAIN s,
         NEW g, \A i \in DOMAIN s : f[i] = g[s[i]], f = [i \in DOMAIN s |-> f[i]]
  PROVE  IsSeq(f) /\ ToSet(f) = {g[x] : x \in S} /\ Len(f) = Cardinality(S)
<1>1. /\ s \in Seq(S) /\ Len(s) = Cardinality(S) /\ ToSet(s) = S /\ Cardinality(S) \in Nat
      /\ DOMAIN s = 1..Cardinality(S)
    BY FS_CardinalityType DEF Enumerates
<1>2. f \in [1..Cardinality(S) -> {g[x] : x \in S}]
    BY <1>1
<1>3. f \in Seq({g[x] : x \in S}) /\ Len(f) = Cardinality(S)
    BY <1>1, <1>2
<1>4. ToSet(f) = {g[x] : x \in S}
    BY <1>1 DEF ToSet
<1> QED
    BY <1>3, <1>4 DEF IsSeq

LEMMA SetToSeqEnumerates ==
  ASSUME NEW S, IsFiniteSet(S) PROVE Enumerates(SetToSeq(S), S)
<1> DEFINE n == Cardinality(S)
<1>1. n \in Nat
    BY FS_CardinalityType
<1>2. ExistsBijection(1..n, S)
    BY FS_CountingElements, FS_NatBijection, <1>1
<1>3. PICK s \in Bijection(1..n, S) : TRUE
    BY <1>2 DEF ExistsBijection
<1>4. s \in [1..n -> S] /\ IsInjective(s)
    BY <1>3 DEF Bijection, Injection
<1>5. SetToSeq(S) \in [1..n -> S] /\ IsInjective(SetToSeq(S))
    BY <1>4 DEF SetToSeq
<1> QED
    BY <1>5, InjectionEnumerates

-----------------------------------------------------------------------------
(* Counting the places of a sequence that hold certain elements.           *)

LEMMA SameCount ==
  ASSUME NEW S, NEW T, IsFiniteSet(S), NEW f \in [S -> T],
         \A x, y \in S : f[x] = f[y] => x = y, \A z \in T : \E x \in S : f[x] = z
  PROVE  IsFiniteSet(T) /\ Cardinality(T) = Cardinality(S)
<1>1. f \in Bijection(S, T)
    BY DEF Bijection, Injection, Surjection, IsInjective
<1> QED
    BY <1>1, FS_Bijection DEF ExistsBijection

Hits(s, T) == {i \in DOMAIN s : s[i] \in T}

LEMMA HitsFinite ==
  ASSUME NEW S, NEW s \in Seq(S), NEW T
  PROVE  IsFiniteSet(Hits(s, T)) /\ Cardinality(Hits(s, T)) \in 0..Len(s)
<1>1. Len(s) \in Nat /\ DOMAIN s = 1..Len(s)
    OBVIOUS
<1>2. IsFiniteSet(1..Len(s)) /\ Cardinality(1..Len(s)) = Len(s)
    BY <1>1, IntervalCount
<1>3. Hits(s, T) \in SUBSET (1..Len(s))
    BY <1>1 DEF Hits
<1>4. IsFiniteSet(Hits(s, T)) /\ Cardinality(Hits(s, T)) <= Len(s)
    BY <1>2, <1>3, FS_Subset
<1>5. Cardinality(Hits(s, T)) \in Nat
    BY <1>4, FS_CardinalityType
<1> QED
    BY <1>1, <1>4, <1>5

LEMMA ConcatHits ==
  ASSUME NEW S, NEW s \in Seq(S), NEW t \in Seq(S), NEW T
  PROVE  Cardinality(Hits(s \o t, T)) = Cardinality(Hits(s, T)) + Cardinality(Hits(t, T))
<1> DEFINE u == s \o t
           m == Len(s)
           moved == {m + i : i \in Hits(t, T)}
           f == [i \in Hits(t, T) |-> m + i]
<1>1. /\ DOMAIN u = 1..(m + Len(t)) /\ DOMAIN s = 1..m /\ DOMAIN t = 1..Len(t)
      /\ m \in Nat /\ Len(t) \in Nat
      /\ \A i \in 1..m : u[i] = s[i]
      /\ \A i \in 1..Len(t) : u[m + i] = t[i]
    OBVIOUS
<1>2. /\ IsFiniteSet(Hits(s, T)) /\ Cardinality(Hits(s, T)) \in Nat
      /\ IsFiniteSet(Hits(t, T)) /\ Cardinality(Hits(t, T)) \in Nat
    BY HitsFinite, FS_CardinalityType
<1> HIDE DEF u, m
<1>3. Hits(s, T) \subseteq 1..m /\ Hits(t, T) \subseteq 1..Len(t)
    BY <1>1 DEF Hits
<1>4. IsFiniteSet(moved) /\ Cardinality(moved) = Cardinality(Hits(t, T))
  <2>1. f \in [Hits(t, T) -> moved]
      OBVIOUS
  <2>2. \A i, j \in Hits(t, T) : f[i] = f[j] => i = j
      BY <1>1, <1>3
  <2>3. \A z \in moved : \E i \in Hits(t, T) : f[i] = z
      OBVIOUS
  <2> HIDE DEF f, moved
  <2> QED
      BY <1>2, <2>1, <2>2, <2>3, SameCount
<1>5. Hits(s, T) \cap moved = {}
    BY <1>1, <1>3
<1>6. Hits(u, T) = Hits(s, T) \cup moved
  <2>1. ASSUME NEW i \in Hits(u, T) PROVE i \in Hits(s, T) \cup moved
    <3>1. i \in 1..(m + Len(t)) /\ u[i] \in T
        BY <1>1 DEF Hits
    <3>2. CASE i \in 1..m
        BY <1>1, <3>1, <3>2 DEF Hits
    <3>3. CASE i \notin 1..m
      <4>1. i - m \in 1..Len(t) /\ m + (i - m) = i
          BY <1>1, <3>1, <3>3
      <4>2. i - m \in Hits(t, T)
          BY <1>1, <3>1, <4>1 DEF Hits
      <4> QED
          BY <4>1, <4>2
    <3> QED
        BY <3>2, <3>3
  <2>2. ASSUME NEW i \in Hits(s, T) PROVE i \in Hits(u, T)
      BY <1>1 DEF Hits
  <2>3. ASSUME NEW i \in Hits(t, T) PROVE m + i \in Hits(u, T)
      BY <1>1 DEF Hits
  <2> QED
      BY <2>1, <2>2, <2>3
<1> HIDE DEF moved
<1>7. Cardinality(Hits(u, T)) = Cardinality(Hits(s, T)) + Cardinality(moved) - Cardinality({})
    BY <1>2, <1>4, <1>5, <1>6, FS_Union
<1> QED
    BY <1>2, <1>4, <1>7, FS_EmptySet DEF u

LEMMA ShortHits ==
  ASSUME NEW S, NEW s \in Seq(S), Len(s) <= 1, NEW T
  PROVE  Cardinality(Hits(s, T)) = IF ToSet(s) \cap T # {} THEN 1 ELSE 0
<1>1. DOMAIN s = 1..Len(s) /\ Len(s) \in Nat
    OBVIOUS
<1>2. Hits(s, T) = IF ToSet(s) \cap T # {} THEN {1} ELSE {}
  <2>1. DOMAIN s \subseteq {1}
      BY <1>1
  <2> QED
      BY <2>1 DEF Hits, ToSet
<1>3. Cardinality({1}) = 1 /\ Cardinality({}) = 0
    BY FS_Singleton, FS_EmptySet
<1> QED
    BY <1>2, <1>3

\* What sequences of at most one element each hold, one after the other.
LEMMA FlattenHits ==
  ASSUME NEW S, NEW seqs \in Seq(Seq(S)), \A i \in DOMAIN seqs : Len(seqs[i]) <= 1, NEW T
  PROVE  /\ IsFiniteSet({i \in DOMAIN seqs : ToSet(seqs[i]) \cap T # {}})
         /\ Cardinality(Hits(FlattenSeq(seqs), T))
              = Cardinality({i \in DOMAIN seqs : ToSet(seqs[i]) \cap T # {}})
<1> DEFINE n == Len(seqs)
           Met(k) == {i \in 1..k : ToSet(seqs[i]) \cap T # {}}
<1>1. /\ n \in Nat /\ DOMAIN seqs = 1..n
      /\ \A i \in 1..n : seqs[i] \in Seq(S) /\ Len(seqs[i]) <= 1
    OBVIOUS
<1>2. \A k \in Nat : IsFiniteSet(Met(k)) /\ Cardinality(Met(k)) \in Nat
  <2> SUFFICES ASSUME NEW k \in Nat PROVE IsFiniteSet(Met(k)) /\ Cardinality(Met(k)) \in Nat
      OBVIOUS
  <2>1. IsFiniteSet(1..k) /\ Met(k) \in SUBSET (1..k)
      BY IntervalCount
  <2> HIDE DEF Met
  <2> QED
      BY <2>1, FS_Subset, FS_CardinalityType
<1>3. CASE n = 0
  <2>1. FlattenSeq(seqs) = seqs /\ seqs = <<>>
      BY <1>3 DEF FlattenSeq
  <2>2. Hits(<<>>, T) = {} /\ {i \in DOMAIN <<>> : ToSet(<<>>[i]) \cap T # {}} = {}
      BY DEF Hits
  <2> QED
      BY <2>1, <2>2, FS_EmptySet
<1>4. CASE n # 0
  <2> DEFINE f == CHOOSE g : Flattens(g, seqs, n)
  <2>1. FlattenSeq(seqs) = f[n]
      BY <1>4 DEF FlattenSeq, Flattens
  <2>2. Flattens(f, seqs, n)
      BY <1>1, FlattenDefined
  <2> HIDE DEF f
  <2> DEFINE Good(i) == f[i] \in Seq(S) /\ Cardinality(Hits(f[i], T)) = Cardinality(Met(i))
             Q == {i \in Nat : i \in 1..n => Good(i)}
  <2>3. ASSUME NEW i \in Nat, i \in Q, i + 1 \in 1..n PROVE Good(i + 1)
    <3>1. f[i + 1] = IF i + 1 = 1 THEN seqs[i + 1] ELSE f[(i + 1) - 1] \o seqs[i + 1]
        BY <2>2, <2>3, Zenon DEF Flattens
    <3>2. seqs[i + 1] \in Seq(S) /\ Len(seqs[i + 1]) <= 1 /\ (i + 1) - 1 = i
        BY <1>1, <2>3
    <3> DEFINE b == seqs[i + 1]
    <3>3. Met(i + 1) = Met(i) \cup IF ToSet(b) \cap T # {} THEN {i + 1} ELSE {}
      <4>1. 1..(i + 1) = (1..i) \cup {i + 1}
          BY <2>3
      <4> QED
          BY <4>1
    <3>4. i + 1 \notin Met(i)
        OBVIOUS
    <3>5. Cardinality(Met(i + 1)) = Cardinality(Met(i)) + Cardinality(Hits(b, T))
      <4>1. Cardinality(Hits(b, T)) = IF ToSet(b) \cap T # {} THEN 1 ELSE 0
        <5> HIDE DEF b
        <5> QED
            BY <3>2, ShortHits DEF b
      <4>2. IsFiniteSet(Met(i)) /\ Cardinality(Met(i)) \in Nat
          BY <1>2
      <4> HIDE DEF Met, b
      <4>3. Cardinality(Met(i) \cup {i + 1}) = Cardinality(Met(i)) + 1
          BY <3>4, <4>2, FS_AddElement
      <4>4. CASE ToSet(b) \cap T # {}
          BY <3>3, <4>1, <4>3, <4>4
      <4>5. CASE ToSet(b) \cap T = {}
        <5>1. Met(i + 1) = Met(i)
            BY <3>3, <4>5
        <5> QED
            BY <4>1, <4>2, <4>5, <5>1
      <4> QED
          BY <4>4, <4>5
    <3>6. CASE i = 0
      <4>1. f[i + 1] = b
          BY <3>1, <3>6
      <4>2. Met(i) = {} /\ Cardinality({}) = 0
          BY <3>6, FS_EmptySet
      <4>3. Cardinality(Hits(b, T)) \in Nat
        <5> HIDE DEF b
        <5> QED
            BY <3>2, HitsFinite, FS_CardinalityType DEF b
      <4>4. Cardinality(Met(i + 1)) = Cardinality(Hits(b, T))
        <5> HIDE DEF b, Met
        <5> QED
            BY <3>5, <4>2, <4>3
      <4> HIDE DEF Met
      <4> QED
          BY <3>2, <4>1, <4>4
    <3>7. CASE i # 0
      <4> DEFINE a == f[i]
      <4>1. i + 1 # 1
          BY <2>3, <3>7
      <4>2. f[i + 1] = a \o b
          BY <3>1, <3>2, <4>1, Zenon
      <4>3. a \in Seq(S) /\ b \in Seq(S) /\ Cardinality(Hits(a, T)) = Cardinality(Met(i))
          BY <2>3, <3>2, <3>7
      <4>4. a \o b \in Seq(S)
        <5> HIDE DEF a, b
        <5> QED
            BY <4>3
      <4>5. Cardinality(Hits(a \o b, T)) = Cardinality(Met(i + 1))
        <5> HIDE DEF a, b, Met
        <5> QED
            BY <3>5, <4>3, ConcatHits
      <4> QED
          BY <4>2, <4>4, <4>5
    <3> QED
        BY <3>6, <3>7
  <2>4. Nat \subseteq Q
    <3>1. 0 \in Q
        OBVIOUS
    <3>2. ASSUME NEW i \in Nat, i \in Q PROVE i + 1 \in Q
      <4>1. i + 1 \in Nat
          OBVIOUS
      <4>2. i + 1 \in 1..n => Good(i + 1)
        <5> HIDE DEF Good, Q, n
        <5> QED
            BY <2>3, <3>2
      <4> HIDE DEF Good, n
      <4> QED
          BY <4>1, <4>2
    <3> HIDE DEF Q
    <3> QED
        BY <3>1, <3>2, NatInductive
  <2>5. Good(n)
    <3> HIDE DEF Good
    <3> QED
        BY <1>1, <1>4, <2>4
  <2>6. {i \in DOMAIN seqs : ToSet(seqs[i]) \cap T # {}} = Met(n)
      BY <1>1
  <2> HIDE DEF Met, n
  <2> QED
      BY <1>1, <1>2, <2>1, <2>5, <2>6
<1> QED
    BY <1>3, <1>4
=============================================================================
