-------------------------- MODULE LiveIngestProofs --------------------------
(***************************************************************************)
(* Proofs about LiveIngest, for any options, responses, intervals, delays  *)
(* and number of attempts.  The limiter's guarantee rests on its own clock *)
(* never being ahead of the last call (Clock); that every fetch has one    *)
(* outcome rests on the plan naming it once (Planned) and on the books     *)
(* that the answers, the failures and the rest of the plan keep (Kept);    *)
(* that changes compare with the right month rests on every step of the    *)
(* pipeline handing on months that are months (Prepared); that Gold counts *)
(* every sale once rests on every stage holding as many rows of a district *)
(* and month as the answers hold sales (Booked), and its prices on what    *)
(* the recursive sum and the order statistics of the aggregation are.      *)
(***************************************************************************)
EXTENDS LiveIngest, SequenceFacts

-----------------------------------------------------------------------------
(* Recursive functions.                                                    *)

Doubles(g, n) == g = [times \in 0..n |-> IF times = 0 THEN BaseDelay ELSE 2 * g[times - 1]]

\* The delays are doubled as often as the definition says.
LEMMA DoubledDefined == Doubles(Doubled, MaxAttempts)
<1> DEFINE T == {n \in Nat : \E g : Doubles(g, n)}
<1>1. 0 \in T
  <2> DEFINE g == [times \in 0..0 |-> BaseDelay]
  <2>1. Doubles(g, 0)
      BY DEF Doubles
  <2> QED
      BY <2>1
<1>2. ASSUME NEW n \in Nat, n \in T PROVE n + 1 \in T
  <2>1. PICK g : Doubles(g, n)
      BY <1>2
  <2> DEFINE h == [times \in 0..(n + 1) |-> IF times = 0 THEN BaseDelay ELSE 2 * g[times - 1]]
  <2>2. \A times \in 0..n : h[times] = g[times]
      BY <2>1 DEF Doubles
  <2>3. \A times \in 0..(n + 1) : times # 0 => times - 1 \in 0..n
      OBVIOUS
  <2>4. \A times \in 0..(n + 1) : times # 0 => h[times - 1] = g[times - 1]
      BY <2>2, <2>3
  <2>5. Doubles(h, n + 1)
      BY <2>4 DEF Doubles
  <2>6. \E k : Doubles(k, n + 1)
    <3> HIDE DEF h
    <3> QED
        BY <2>5
  <2> QED
      BY <2>6
<1>3. Nat \subseteq T
  <2> HIDE DEF T
  <2> QED
      BY <1>1, <1>2, NatInductive
<1>4. \E g : Doubles(g, MaxAttempts)
    BY <1>3, LiveIngestAssumption
<1>5. Doubled = CHOOSE g : Doubles(g, MaxAttempts)
    BY DEF Doubled, Doubles
<1> QED
    BY <1>4, <1>5

LEMMA DelayTyped ==
  ASSUME attempt \in 1..MaxAttempts
  PROVE  Delay \in Nat
<1> USE LiveIngestAssumption
<1> DEFINE T == {n \in Nat : n \in 0..MaxAttempts => Doubled[n] \in Nat}
<1>1. \A n \in 0..MaxAttempts : Doubled[n] = IF n = 0 THEN BaseDelay ELSE 2 * Doubled[n - 1]
    BY DoubledDefined DEF Doubles
<1>2. 0 \in T
    BY <1>1
<1>3. ASSUME NEW n \in Nat, n \in T PROVE n + 1 \in T
    BY <1>1, <1>3
<1>4. Nat \subseteq T
  <2> HIDE DEF T
  <2> QED
      BY <1>2, <1>3, NatInductive
<1>5. attempt - 1 \in Nat /\ attempt - 1 \in 0..MaxAttempts
    OBVIOUS
<1>6. Doubled[attempt - 1] \in Nat
    BY <1>4, <1>5
<1> QED
    BY <1>6 DEF Delay, Shorter

-----------------------------------------------------------------------------
(* The limiter.                                                            *)

Stages == {"start", "limit", "call", "backoff", "normalize", "aggregate", "enrich", "done",
           "raised"}

\* The clocks, the attempts, and what the limiter knows: no call was later
\* than the one it noted.
Clock ==
  /\ stage \in Stages /\ attempt \in 1..MaxAttempts
  /\ stage = "backoff" => attempt < MaxAttempts
  /\ stage = "start" => attempt = 1
  /\ sinceLast \in 0..MinInterval /\ sinceCall \in 0..MinInterval
  /\ stage = "call" => sinceLast = 0
  /\ stage \in {"start", "limit", "backoff"} => sinceLast <= sinceCall

LEMMA CappedTyped ==
  ASSUME NEW m \in Int, NEW n \in Int, 0 <= m, m <= n
  PROVE  /\ Capped(m) \in 0..MinInterval /\ Capped(n) \in 0..MinInterval
         /\ Capped(m) <= Capped(n)
         /\ MinInterval <= n => Capped(n) = MinInterval
  BY LiveIngestAssumption DEF Capped

LEMMA ClockStep == Clock /\ CallsSpaced /\ [Next]_vars => Clock' /\ CallsSpaced'
<1> SUFFICES ASSUME Clock, CallsSpaced, [Next]_vars PROVE Clock' /\ CallsSpaced'
    OBVIOUS
<1> USE LiveIngestAssumption DEF Clock, CallsSpaced, Stages
<1>1. ASSUME NEW environment, StartRefused(environment) \/ StartLive(environment)
      PROVE  Clock' /\ CallsSpaced'
    BY <1>1 DEF StartRefused, StartLive
<1>2. CASE StartFixture
    BY <1>2 DEF StartFixture
<1>3. CASE Wait
  <2>1. sinceCall + (MinInterval - sinceLast) \in Int /\ MinInterval <= sinceCall + (MinInterval - sinceLast)
      BY <1>3 DEF Wait
  <2>2. Capped(sinceCall + (MinInterval - sinceLast)) = MinInterval
      BY <2>1, CappedTyped
  <2> QED
      BY <1>3, <2>2 DEF Wait
<1>4. ASSUME NEW ticks \in 0..MaxCall, stage = "call", Call(ticks)
      PROVE  Clock' /\ CallsSpaced'
  <2>1. sinceLast' = sinceCall' /\ sinceCall' \in 0..MinInterval
    <3>1. Capped(ticks) \in 0..MinInterval /\ sinceLast + ticks = ticks
        BY <1>4, CappedTyped
    <3>2. sinceLast' = Capped(sinceLast + ticks) /\ sinceCall' = Capped(ticks)
        BY <1>4 DEF Call, Answer, CallFailsForGood, CallFails
    <3> QED
        BY <3>1, <3>2
  <2>2. /\ stage' \in {"limit", "normalize", "backoff"} /\ attempt' \in 1..MaxAttempts
        /\ stage' = "backoff" => attempt' < MaxAttempts
      BY <1>4 DEF Call, Answer, CallFailsForGood, CallFails, NextFetch, GiveUp
  <2> QED
      BY <2>1, <2>2
<1>5. ASSUME NEW rows, AnswerRefused(rows) PROVE Clock' /\ CallsSpaced'
    BY <1>5 DEF AnswerRefused
<1>6. ASSUME NEW jitter \in 0..(Delay \div 2), BackOff(jitter)
      PROVE  Clock' /\ CallsSpaced'
  <2>1. Delay \in Nat
      BY DelayTyped
  <2>2. jitter \in Int /\ 0 <= jitter
      BY <2>1
  <2> DEFINE pause == Delay + jitter
  <2>3. pause \in Nat
      BY <2>1, <2>2
  <2>4. /\ stage = "backoff" /\ stage' = "limit" /\ attempt' = attempt + 1
        /\ sinceLast' = Capped(sinceLast + pause) /\ sinceCall' = Capped(sinceCall + pause)
      BY <1>6 DEF BackOff, Pass
  <2> HIDE DEF pause
  <2>5. sinceLast' \in 0..MinInterval /\ sinceCall' \in 0..MinInterval /\ sinceLast' <= sinceCall'
      BY <2>3, <2>4, CappedTyped, SMTT(30)
  <2> QED
      BY <2>4, <2>5
<1>7. CASE Normalize \/ AggregateMonths \/ Enrich
    BY <1>7 DEF Normalize, AggregateMonths, Enrich
<1>8. CASE UNCHANGED vars
    BY <1>8 DEF vars
<1> QED
    BY <1>1, <1>2, <1>3, <1>4, <1>5, <1>6, <1>7, <1>8 DEF Next

LEMMA ClockHolds == Spec => [](Clock /\ CallsSpaced)
<1>1. Init => Clock /\ CallsSpaced
    BY LiveIngestAssumption DEF Init, Clock, CallsSpaced, Stages
<1> QED
    BY <1>1, ClockStep, PTL DEF Spec

\* Between any two calls of the three services, the retries among them, at
\* least rate_limit_interval passes, whatever the calls and the back-offs take.
THEOREM CallsAlwaysSpaced == Spec => []CallsSpaced
  BY ClockHolds, PTL

-----------------------------------------------------------------------------
(* The plan and its books.                                                 *)

Fetches(months) ==
  [source : {"molit", "bok", "kostat"}, gu : Nat, month : (Nat \X Nat) \cup {First(months)}]

\* _validate_inputs refuses repeated districts and months, so no fetch is
\* planned twice.
LEMMA PlanInjective ==
  ASSUME NEW gus \in Seq(Nat), NEW months \in Seq(Nat \X Nat),
         IsInjective(gus), IsInjective(months)
  PROVE  /\ Plan(gus, months) \in Seq(Fetches(months))
         /\ IsInjective(Plan(gus, months)) /\ Plan(gus, months) # <<>>
<1> DEFINE X == Fetches(months)
           row(g) == [m \in DOMAIN months |-> Fetch("molit", gus[g], months[m])]
           seqs == [g \in DOMAIN gus |-> row(g)]
           molit == FlattenSeq(seqs)
           bok == <<Fetch("bok", 0, First(months))>>
           kostat == [m \in DOMAIN months |-> Fetch("kostat", 0, months[m])]
<1>1. /\ DOMAIN gus = 1..Len(gus) /\ \A g \in DOMAIN gus : gus[g] \in Nat
      /\ DOMAIN months = 1..Len(months) /\ \A m \in DOMAIN months : months[m] \in Nat \X Nat
      /\ Len(gus) \in Nat /\ Len(months) \in Nat
    OBVIOUS
<1>2. \A g \in DOMAIN gus : row(g) \in Seq(X) /\ IsInjective(row(g))
  <2> SUFFICES ASSUME NEW g \in DOMAIN gus PROVE row(g) \in Seq(X) /\ IsInjective(row(g))
      OBVIOUS
  <2>1. \A m \in DOMAIN months : Fetch("molit", gus[g], months[m]) \in X
      BY <1>1 DEF Fetch, Fetches
  <2>2. row(g) \in Seq(X)
    <3> HIDE DEF X
    <3> QED
        BY <1>1, <2>1, IsASeq
  <2>3. \A m, n \in DOMAIN months :
          Fetch("molit", gus[g], months[m]) = Fetch("molit", gus[g], months[n]) => m = n
      BY DEF Fetch, IsInjective
  <2> QED
      BY <2>2, <2>3 DEF IsInjective
<1>3. \A g, h \in DOMAIN gus : g # h => ToSet(row(g)) \cap ToSet(row(h)) = {}
  <2> SUFFICES ASSUME NEW g \in DOMAIN gus, NEW h \in DOMAIN gus, g # h,
                      NEW m \in DOMAIN months, NEW n \in DOMAIN months,
                      Fetch("molit", gus[g], months[m]) = Fetch("molit", gus[h], months[n])
               PROVE  FALSE
      BY DEF ToSet
  <2> QED
      BY DEF Fetch, IsInjective
<1>4. seqs \in Seq(Seq(X))
  <2> HIDE DEF row, X
  <2> QED
      BY <1>1, <1>2, IsASeq
<1>5. molit \in Seq(X) /\ IsInjective(molit) /\ \A f \in ToSet(molit) : f.source = "molit"
  <2>1. /\ molit \in Seq(X) /\ IsInjective(molit)
        /\ ToSet(molit) = UNION {ToSet(seqs[i]) : i \in DOMAIN seqs}
    <3>1. /\ \A g \in DOMAIN seqs : IsInjective(seqs[g])
          /\ \A g, h \in DOMAIN seqs : g # h => ToSet(seqs[g]) \cap ToSet(seqs[h]) = {}
      <4> HIDE DEF row
      <4> QED
          BY <1>2, <1>3
    <3> HIDE DEF seqs, X
    <3> QED
        BY <1>4, <3>1, FlattenInjective
  <2>2. \A g \in DOMAIN seqs : \A f \in ToSet(seqs[g]) : f.source = "molit"
      BY DEF ToSet, Fetch
  <2> HIDE DEF seqs
  <2> QED
      BY <2>1, <2>2
<1>6. bok \in Seq(X) /\ IsInjective(bok) /\ \A f \in ToSet(bok) : f.source = "bok"
  <2>1. Fetch("bok", 0, First(months)) \in X
      BY DEF Fetch, Fetches
  <2> QED
      BY <2>1 DEF IsInjective, ToSet, Fetch
<1>7. kostat \in Seq(X) /\ IsInjective(kostat) /\ \A f \in ToSet(kostat) : f.source = "kostat"
  <2>1. \A m \in DOMAIN months : Fetch("kostat", 0, months[m]) \in X
      BY <1>1 DEF Fetch, Fetches
  <2>2. kostat \in Seq(X)
    <3> HIDE DEF X
    <3> QED
        BY <1>1, <2>1, IsASeq
  <2>3. \A m, n \in DOMAIN months : Fetch("kostat", 0, months[m]) = Fetch("kostat", 0, months[n]) => m = n
      BY DEF Fetch, IsInjective
  <2>4. \A f \in ToSet(kostat) : f.source = "kostat"
      BY DEF ToSet, Fetch
  <2> QED
      BY <2>2, <2>3, <2>4 DEF IsInjective
<1>8. Plan(gus, months) = (molit \o bok) \o kostat /\ Len(bok) = 1
    BY DEF Plan
<1> HIDE DEF X, molit, bok, kostat
<1>9. molit \o bok \in Seq(X) /\ IsInjective(molit \o bok)
      /\ ToSet(molit \o bok) = ToSet(molit) \cup ToSet(bok)
  <2>1. ToSet(molit) \cap ToSet(bok) = {}
      BY <1>5, <1>6
  <2> QED
      BY <1>5, <1>6, <2>1, ConcatInjective
<1>10. (molit \o bok) \o kostat \in Seq(X) /\ IsInjective((molit \o bok) \o kostat)
  <2> DEFINE both == molit \o bok
  <2>1. ToSet(both) \cap ToSet(kostat) = {}
      BY <1>5, <1>6, <1>7, <1>9
  <2> HIDE DEF both
  <2> QED
      BY <1>7, <1>9, <2>1, ConcatInjective DEF both
<1>11. (molit \o bok) \o kostat # <<>>
  <2>1. Len((molit \o bok) \o kostat) = Len(molit) + Len(bok) + Len(kostat)
      BY <1>5, <1>6, <1>7
  <2>2. Len(molit) \in Nat /\ Len(kostat) \in Nat
      BY <1>5, <1>7
  <2>3. Len((molit \o bok) \o kostat) > 0
      BY <1>8, <2>1, <2>2
  <2>4. Len(<<>>) = 0
      OBVIOUS
  <2> QED
      BY <2>3, <2>4
<1> QED
    BY <1>8, <1>10, <1>11 DEF X

LEMMA TailInjective ==
  ASSUME NEW S, NEW s \in Seq(S), IsInjective(s), s # <<>>
  PROVE  /\ Tail(s) \in Seq(S) /\ IsInjective(Tail(s)) /\ Len(Tail(s)) = Len(s) - 1
         /\ Head(s) \in ToSet(s) /\ Head(s) \notin ToSet(Tail(s))
         /\ ToSet(Tail(s)) \subseteq ToSet(s)
<1> DEFINE t == Tail(s)
<1>1. /\ t \in Seq(S) /\ Len(t) = Len(s) - 1 /\ DOMAIN t = 1..(Len(s) - 1)
      /\ DOMAIN s = 1..Len(s) /\ Len(s) \in Nat \ {0} /\ Head(s) = s[1]
      /\ \A i \in 1..(Len(s) - 1) : t[i] = s[i + 1]
    OBVIOUS
<1> HIDE DEF t
<1>2. \A i \in DOMAIN t : i + 1 \in DOMAIN s /\ i + 1 # 1 /\ t[i] = s[i + 1]
    BY <1>1
<1>3. 1 \in DOMAIN s
    BY <1>1
<1>4. \A i, j \in DOMAIN t : t[i] = t[j] => i = j
  <2> SUFFICES ASSUME NEW i \in DOMAIN t, NEW j \in DOMAIN t, t[i] = t[j] PROVE i = j
      OBVIOUS
  <2>1. i + 1 = j + 1
      BY <1>2 DEF IsInjective
  <2> QED
      BY <1>1, <2>1
<1>5. ToSet(t) \subseteq ToSet(s) /\ s[1] \notin ToSet(t)
    BY <1>2, <1>3 DEF ToSet, IsInjective
<1>6. s[1] \in ToSet(s)
    BY <1>3 DEF ToSet
<1> QED
    BY <1>1, <1>4, <1>5, <1>6 DEF IsInjective, t

Answered == {a.fetch : a \in answers}
GivenUp == {f.fetch : f \in failures}

\* Every fetch is planned once and has not been made as long as it is planned.
Planned ==
  /\ plan \in Seq(Fetches(Months(request))) /\ IsInjective(plan)
  /\ ToSet(plan) \cap (Answered \cup GivenUp) = {}

\* Every fetch of the plan is answered, given up or still to make.
Kept ==
  /\ request \in Requests
  /\ IsFiniteSet(answers) /\ IsFiniteSet(failures) /\ Answered \cap GivenUp = {}
  /\ stage = "start" => plan = <<>> /\ answers = {} /\ failures = {}
  /\ stage \in {"limit", "call", "backoff"} => request.source = "live" /\ plan # <<>>
  /\ stage \in {"normalize", "aggregate", "enrich", "done"} => plan = <<>>
  /\ stage \notin {"start", "raised"} =>
       Cardinality(answers) + Cardinality(failures) + Len(plan) =
         IF request.source = "fixture" THEN 1 ELSE Len(Plan(Gus(request), Months(request)))

\* The outcome of the fetch under way is noted, and nothing else.
Noted(before, after) ==
  \E outcome : outcome.fetch = Fetching /\ after = before \cup {outcome}

LEMMA NoteOutcome ==
  ASSUME NEW before, NEW after, IsFiniteSet(before), plan # <<>>, Noted(before, after),
         Fetching \notin {o.fetch : o \in before}
  PROVE  /\ IsFiniteSet(after) /\ Cardinality(after) = Cardinality(before) + 1
         /\ {o.fetch : o \in after} = {o.fetch : o \in before} \cup {Fetching}
<1>1. PICK outcome : outcome.fetch = Fetching /\ after = before \cup {outcome}
    BY DEF Noted
<1>2. outcome \notin before
    BY <1>1
<1>3. IsFiniteSet(after) /\ Cardinality(after) = Cardinality(before) + 1
    BY <1>1, <1>2, FS_AddElement
<1>4. {o.fetch : o \in after} = {o.fetch : o \in before} \cup {Fetching}
    BY <1>1
<1> QED
    BY <1>3, <1>4

LEMMA OptionsTyped ==
  ASSUME request \in Requests
  PROVE  Gus(request) \in Seq(Nat) /\ Months(request) \in Seq(Nat \X Nat)
<1>1. ASSUME NEW S, NEW list \in SUBSET Seq(S), NEW single \in SUBSET S, NEW default \in S
      PROVE  Listed(list, single, default) \in Seq(S)
    BY <1>1 DEF Listed, The
<1>2. /\ request.gu \in SUBSET Nat /\ request.gus \in SUBSET Seq(Nat)
      /\ request.month \in SUBSET (Nat \X Nat) /\ request.months \in SUBSET Seq(Nat \X Nat)
    BY LiveIngestAssumption
<1>3. Gus(request) \in Seq(Nat)
    BY <1>1, <1>2 DEF Gus
<1>4. <<2025, 7>> \in Nat \X Nat
    OBVIOUS
<1>5. Months(request) \in Seq(Nat \X Nat)
    BY <1>1, <1>2, <1>4 DEF Months
<1> QED
    BY <1>3, <1>5

LEMMA BooksStep == Planned /\ Kept /\ Clock /\ [Next]_vars => Planned' /\ Kept'
<1> SUFFICES ASSUME Planned, Kept, Clock, [Next]_vars PROVE Planned' /\ Kept'
    OBVIOUS
<1> DEFINE Books == <<request, plan, answers, failures>>
<1>1. ASSUME UNCHANGED Books, stage' = stage \/ stage' = "raised"
                              \/ (stage \in {"limit", "call", "backoff"} /\ stage' \in {"limit", "call", "backoff"})
                              \/ (stage \in {"normalize", "aggregate", "enrich", "done"}
                                  /\ stage' \in {"normalize", "aggregate", "enrich", "done"})
      PROVE  Planned' /\ Kept'
  <2>1. Answered' = Answered /\ GivenUp' = GivenUp
      BY <1>1 DEF Answered, GivenUp
  <2> QED
      BY <1>1, <2>1 DEF Planned, Kept
<1>2. ASSUME NEW environment, StartRefused(environment) PROVE Planned' /\ Kept'
    BY <1>1, <1>2 DEF StartRefused
<1>3. ASSUME NEW environment, StartLive(environment) PROVE Planned' /\ Kept'
  <2> DEFINE gus == Gus(request)
             months == Months(request)
  <2>1. gus \in Seq(Nat) /\ months \in Seq(Nat \X Nat)
      BY OptionsTyped DEF Kept
  <2>2. IsInjective(gus) /\ IsInjective(months)
      BY <1>3 DEF StartLive, Valid
  <2>3. /\ plan' = Plan(gus, months) /\ stage = "start" /\ stage' = "limit"
        /\ request.source = "live" /\ UNCHANGED <<request, answers, failures>>
      BY <1>3 DEF StartLive
  <2>4. plan' \in Seq(Fetches(months)) /\ IsInjective(plan') /\ plan' # <<>>
    <3> HIDE DEF gus, months
    <3> QED
        BY <2>1, <2>2, <2>3, PlanInjective
  <2>5. answers = {} /\ failures = {} /\ Answered' = {} /\ GivenUp' = {}
      BY <2>3 DEF Kept, Answered, GivenUp
  <2>6. Cardinality({}) = 0 /\ Len(plan') \in Nat
      BY <2>4, FS_EmptySet
  <2> QED
      BY <2>3, <2>4, <2>5, <2>6 DEF Planned, Kept
<1>4. CASE StartFixture
  <2>1. PICK a : answers' = {a}
      BY <1>4 DEF StartFixture
  <2>2. /\ stage = "start" /\ stage' = "normalize" /\ request.source = "fixture"
        /\ UNCHANGED <<request, plan, failures>>
      BY <1>4 DEF StartFixture
  <2>3. plan = <<>> /\ failures = {} /\ GivenUp' = {} /\ ToSet(plan') = {}
      BY <2>2 DEF Kept, GivenUp, ToSet
  <2>4. Cardinality(failures') = 0 /\ Cardinality(answers') = 1 /\ IsFiniteSet(answers')
      BY <2>1, <2>2, <2>3, FS_EmptySet, FS_Singleton
  <2> QED
      BY <2>2, <2>3, <2>4 DEF Planned, Kept
<1>5. ASSUME stage = "call", NextFetch, UNCHANGED request,
             \/ Noted(answers, answers') /\ failures' = failures
             \/ Noted(failures, failures') /\ answers' = answers
      PROVE  Planned' /\ Kept'
  <2>1. plan # <<>> /\ request.source = "live" /\ plan' = Tail(plan)
      BY <1>5 DEF Kept, NextFetch
  <2>2. /\ plan' \in Seq(Fetches(Months(request))) /\ IsInjective(plan')
        /\ Len(plan') = Len(plan) - 1 /\ Fetching \in ToSet(plan) /\ Fetching \notin ToSet(plan')
        /\ ToSet(plan') \subseteq ToSet(plan)
      BY <2>1, TailInjective DEF Planned, Fetching
  <2>3. Fetching \notin Answered /\ Fetching \notin GivenUp
      BY <2>2 DEF Planned
  <2>4. /\ IsFiniteSet(answers') /\ IsFiniteSet(failures')
        /\ Answered' \cup GivenUp' = Answered \cup GivenUp \cup {Fetching}
        /\ Answered' \cap GivenUp' = {}
        /\ Cardinality(answers') + Cardinality(failures') = Cardinality(answers) + Cardinality(failures) + 1
    <3>1. IsFiniteSet(answers) /\ IsFiniteSet(failures) /\ Answered \cap GivenUp = {}
          /\ Cardinality(answers) \in Nat /\ Cardinality(failures) \in Nat
        BY FS_CardinalityType DEF Kept
    <3>2. CASE Noted(answers, answers') /\ failures' = failures
      <4>1. IsFiniteSet(answers') /\ Cardinality(answers') = Cardinality(answers) + 1
            /\ Answered' = Answered \cup {Fetching}
          BY <2>1, <2>3, <3>1, <3>2, NoteOutcome DEF Answered
      <4>2. GivenUp' = GivenUp
          BY <3>2 DEF GivenUp
      <4> QED
          BY <2>3, <3>1, <3>2, <4>1, <4>2
    <3>3. CASE Noted(failures, failures') /\ answers' = answers
      <4>1. IsFiniteSet(failures') /\ Cardinality(failures') = Cardinality(failures) + 1
            /\ GivenUp' = GivenUp \cup {Fetching}
          BY <2>1, <2>3, <3>1, <3>3, NoteOutcome DEF GivenUp
      <4>2. Answered' = Answered
          BY <3>3 DEF Answered
      <4> QED
          BY <2>3, <3>1, <3>3, <4>1, <4>2
    <3> QED
        BY <1>5, <3>2, <3>3
  <2>5. Planned'
      BY <1>5, <2>2, <2>4 DEF Planned
  <2>6. stage' \in {"normalize", "limit"} /\ (stage' = "normalize" <=> plan' = <<>>)
      BY <1>5 DEF NextFetch
  <2>7. Len(plan) \in Nat /\ Cardinality(answers) \in Nat /\ Cardinality(failures) \in Nat
        /\ Cardinality(answers') \in Nat /\ Cardinality(failures') \in Nat
      BY <2>4, FS_CardinalityType DEF Kept, Planned
  <2>8. Cardinality(answers') + Cardinality(failures') + Len(plan')
          = Cardinality(answers) + Cardinality(failures) + Len(plan)
      BY <2>2, <2>4, <2>7
  <2> QED
      BY <1>5, <2>1, <2>4, <2>5, <2>6, <2>8 DEF Kept
<1>6. ASSUME NEW ticks \in 0..MaxCall, stage = "call", Call(ticks)
      PROVE  Planned' /\ Kept'
  <2>1. ASSUME NEW rows, Answer(rows, ticks) PROVE Planned' /\ Kept'
    <3> DEFINE outcome == [fetch |-> Fetching, rows |-> rows]
    <3>1. outcome.fetch = Fetching /\ answers' = answers \cup {outcome}
        BY <2>1 DEF Answer
    <3>2. Noted(answers, answers')
      <4> HIDE DEF outcome
      <4> QED
          BY <3>1 DEF Noted
    <3> QED
        BY <1>5, <2>1, <3>2 DEF Answer
  <2>2. ASSUME NEW error, GiveUp(error) PROVE Planned' /\ Kept'
    <3> DEFINE outcome == [fetch |-> Fetching, error |-> error]
    <3>1. outcome.fetch = Fetching /\ failures' = failures \cup {outcome}
        BY <2>2 DEF GiveUp
    <3>2. Noted(failures, failures')
      <4> HIDE DEF outcome
      <4> QED
          BY <3>1 DEF Noted
    <3> QED
        BY <1>5, <1>6, <2>2, <3>2 DEF GiveUp
  <2>3. CASE CallFailsForGood(ticks)
      BY <2>2, <2>3 DEF CallFailsForGood
  <2>4. CASE CallFails(ticks)
      BY <1>1, <2>2, <2>4 DEF CallFails
  <2> QED
      BY <1>6, <2>1, <2>3, <2>4 DEF Call
<1>7. CASE Wait \/ (\E jitter \in 0..(Delay \div 2) : BackOff(jitter))
    BY <1>1, <1>7 DEF Wait, BackOff
<1>8. ASSUME NEW rows, AnswerRefused(rows) PROVE Planned' /\ Kept'
    BY <1>1, <1>8 DEF AnswerRefused
<1>9. CASE Normalize \/ AggregateMonths \/ Enrich
    BY <1>1, <1>9 DEF Normalize, AggregateMonths, Enrich
<1>10. CASE UNCHANGED vars
    BY <1>1, <1>10 DEF vars
<1> QED
    BY <1>2, <1>3, <1>4, <1>6, <1>7, <1>8, <1>9, <1>10 DEF Next

LEMMA BooksHold == Spec => [](Planned /\ Kept)
<1>1. Init => Planned /\ Kept
  <2> SUFFICES ASSUME Init PROVE Planned /\ Kept
      OBVIOUS
  <2>1. /\ plan = <<>> /\ answers = {} /\ failures = {} /\ request \in Requests /\ stage = "start"
      BY DEF Init
  <2>2. ToSet(plan) = {} /\ IsInjective(plan) /\ plan \in Seq(Fetches(Months(request)))
      BY <2>1 DEF ToSet, IsInjective
  <2> QED
      BY <2>1, <2>2, FS_EmptySet DEF Planned, Kept, Answered, GivenUp
<1> QED
    BY <1>1, BooksStep, ClockHolds, PTL DEF Spec

\* Whatever the services answer and however often they fail, every fetch of
\* the plan of pipeline_live.py comes to exactly one outcome, an answer or a
\* failure, and the ingest is over only when all have.
THEOREM IngestTypeCorrect == Spec => []TypeOK
<1>1. Clock /\ Planned /\ Kept => TypeOK
  <2> SUFFICES ASSUME Clock, Planned, Kept PROVE TypeOK
      OBVIOUS
  <2>1. stage = "done" =>
          Cardinality(answers) + Cardinality(failures) =
            IF request.source = "fixture" THEN 1 ELSE Len(Plan(Gus(request), Months(request)))
    <3>1. Cardinality(answers) \in Nat /\ Cardinality(failures) \in Nat
        BY FS_CardinalityType DEF Kept
    <3> QED
        BY <3>1 DEF Kept
  <2> QED
      BY <2>1 DEF Clock, Kept, Stages, Answered, GivenUp, TypeOK
<1> QED
    BY <1>1, ClockHolds, BooksHold, PTL

-----------------------------------------------------------------------------
(* From rows to trends.                                                    *)

\* A date of a Silver row has a month.
Dated(deal) == /\ deal.date[1] \in Int /\ deal.date[2] \in 1..12

LEMMA DateParts ==
  ASSUME NEW Y, NEW M, NEW D PROVE Dates(Y, M, D) \subseteq Y \X M \X D
  BY Zenon DEF Dates

LEMMA DateTyped ==
  ASSUME NEW Y, NEW M, NEW D, NEW d \in Dates(Y, M, D)
  PROVE  d[1] \in Int /\ d[2] \in 1..12
<1>1. MaxYear \in Int
    BY DEF MaxYear
<1>2. d[1] \in 1..MaxYear /\ d[2] \in 1..12
    BY Zenon DEF Dates
<1> QED
    BY <1>1, <1>2

\* A Bronze row makes at most one Silver row, and that one has a date.
LEMMA DealOptional ==
  ASSUME NEW b
  PROVE  /\ \A x, y \in NormalizeDeal(b) : x = y
         /\ \A deal \in NormalizeDeal(b) : Dated(deal) /\ deal.amount \in ParseDealAmount(b.amount)
<1> DEFINE gu == {g \in ParseInt(b.sgg) : g \in SeoulGuCodes}
           date == Dates(ParseInt(b.year), ParseInt(b.month), ParseInt(b.day))
           deal(g, d, a, m, f, y) ==
             [gu |-> g, date |-> d, amount |-> a, area |-> HalfUp(m), floor |-> f,
              build |-> y, cancelled |-> b.cancel.form \notin {"null", "blank"},
              quality |-> Quality(y, f, HalfUp(m), a)]
<1>1. \A t : \A x, y \in ParseInt(t) : x = y
    BY DEF ParseInt
<1>2. \A x, y \in gu : x = y
    BY <1>1
<1>3. \A x, y \in date : x = y
  <2> DEFINE Y == ParseInt(b.year)
             M == ParseInt(b.month)
             D == ParseInt(b.day)
  <2>1. (\A x, y \in Y : x = y) /\ (\A x, y \in M : x = y) /\ (\A x, y \in D : x = y)
      BY <1>1
  <2> HIDE DEF Y, M, D
  <2>2. \A x, y \in Y \X M \X D : x = y
      BY <2>1
  <2>3. date \subseteq Y \X M \X D
      BY DateParts DEF Y, M, D
  <2> HIDE DEF date
  <2> QED
      BY <2>2, <2>3
<1>4. \A d \in date : d[1] \in Int /\ d[2] \in 1..12
  BY DateTyped
<1>5. \A x, y \in ParseDealAmount(b.amount) : x = y
    BY DEF ParseDealAmount, ParseCount
<1>6. \A x, y \in ParseDecimal(b.area) : x = y
    BY DEF ParseDecimal
<1>7. \A x : x \in NormalizeDeal(b) <=>
        \E g \in gu, d \in date, a \in ParseDealAmount(b.amount), m \in ParseDecimal(b.area),
           f \in ParseInt(b.floor), y \in ParseInt(b.build) : x = deal(g, d, a, m, f, y)
    BY DEF NormalizeDeal
<1>8. ASSUME NEW x \in NormalizeDeal(b), NEW z \in NormalizeDeal(b) PROVE x = z
  <2> HIDE DEF gu, date, deal
  <2>1. PICK g \in gu, d \in date, a \in ParseDealAmount(b.amount), m \in ParseDecimal(b.area),
             f \in ParseInt(b.floor), y \in ParseInt(b.build) : x = deal(g, d, a, m, f, y)
      BY <1>7, Zenon
  <2>2. PICK g2 \in gu, d2 \in date, a2 \in ParseDealAmount(b.amount),
             m2 \in ParseDecimal(b.area), f2 \in ParseInt(b.floor), y2 \in ParseInt(b.build) :
               z = deal(g2, d2, a2, m2, f2, y2)
      BY <1>7, <1>8, Zenon
  <2>3. g = g2 /\ d = d2 /\ a = a2 /\ m = m2 /\ f = f2 /\ y = y2
      BY <1>1, <1>2, <1>3, <1>5, <1>6
  <2> QED
      BY <2>1, <2>2, <2>3, Zenon
<1>9. ASSUME NEW x \in NormalizeDeal(b)
      PROVE  Dated(x) /\ x.amount \in ParseDealAmount(b.amount)
  <2>1. PICK g \in gu, d \in date, a \in ParseDealAmount(b.amount), m \in ParseDecimal(b.area),
             f \in ParseInt(b.floor), y \in ParseInt(b.build) : x = deal(g, d, a, m, f, y)
    <3> HIDE DEF gu, date, deal
    <3> QED
        BY <1>7, Zenon
  <2>2. x.date = d /\ x.amount = a
    <3> HIDE DEF gu, date
    <3> QED
        BY <2>1
  <2> QED
      BY <1>4, <2>2 DEF Dated
<1> QED
    BY <1>8, <1>9

LEMMA DealsDated ==
  ASSUME NEW batch, IsSeq(batch)
  PROVE  \A deal \in ToSet(NormalizeBatch(batch, NormalizeDeal)) : Dated(deal)
<1> DEFINE S == UNION {NormalizeDeal(batch[i]) : i \in DOMAIN batch}
           seqs == [i \in DOMAIN batch |-> NormalizeDeal(batch[i])]
           lists == [i \in DOMAIN seqs |-> SetToSeq(seqs[i])]
<1>1. PICK n \in Nat : DOMAIN batch = 1..n
    BY DEF IsSeq
<1>2. ASSUME NEW b PROVE /\ \A x, y \in NormalizeDeal(b) : x = y
                         /\ \A deal \in NormalizeDeal(b) : Dated(deal)
    BY DealOptional
<1>3. \A i \in 1..n : lists[i] \in Seq(S)
  <2> SUFFICES ASSUME NEW i \in 1..n PROVE lists[i] \in Seq(S)
      OBVIOUS
  <2> DEFINE own == NormalizeDeal(batch[i])
  <2>1. lists[i] = SetToSeq(own) /\ own \subseteq S
      BY <1>1
  <2>2. SetToSeq(own) \in Seq(own)
    <3>1. \A x, y \in own : x = y
        BY <1>2
    <3> HIDE DEF own
    <3> QED
        BY <3>1, OptionalToSeq
  <2> HIDE DEF own, S, lists
  <2> QED
      BY <2>1, <2>2, SeqMonotonic
<1>4. lists \in Seq(Seq(S))
  <2>1. DOMAIN lists = 1..n /\ lists = [i \in 1..n |-> lists[i]]
      BY <1>1
  <2> HIDE DEF lists, S
  <2> QED
      BY <1>3, <2>1
<1>5. FlattenSeq(lists) \in Seq(S)
  <2> HIDE DEF lists, S
  <2> QED
      BY <1>4, FlattenElements
<1>6. NormalizeBatch(batch, NormalizeDeal) = FlattenSeq(lists)
    BY DEF NormalizeBatch, Present
<1>7. \A s \in Seq(S) : ToSet(s) \subseteq S
  <2> HIDE DEF S
  <2> QED
      BY DEF ToSet
<1>8. \A deal \in S : Dated(deal)
    BY <1>2
<1> HIDE DEF S
<1> QED
    BY <1>5, <1>6, <1>7, <1>8

\* A month of Gold and the one before are a month apart, in one year or two.
Key(k) == /\ k = <<k[1], <<k[2][1], k[2][2]>>>>
          /\ k[2][1] \in Int /\ k[2][2] \in 1..12

LEMMA GoldKeyed ==
  ASSUME NEW deals, NEW rates, NEW migrations, \A deal \in ToSet(deals) : Dated(deal)
  PROVE  \A key \in DOMAIN Aggregate(deals, rates, migrations) : Key(key)
<1>1. DOMAIN Aggregate(deals, rates, migrations)
        = {<<deal.gu, Period(deal.date)>> : deal \in {d \in ToSet(deals) : Counts(d)}}
    BY DEF Aggregate, GroupTransactions
<1>2. ASSUME NEW deal \in ToSet(deals) PROVE Key(<<deal.gu, Period(deal.date)>>)
    BY <1>2 DEF Key, Period, Dated
<1> QED
    BY <1>1, <1>2

LEMMA Adjacent ==
  ASSUME NEW k, NEW l, Key(k), Key(l)
  PROVE  /\ l[1] = k[1] /\ MonthIndex(l) + 1 = MonthIndex(k) <=> l = <<k[1], PrevMonth(k[2])>>
         /\ l[1] = k[1] /\ MonthIndex(l) + 12 = MonthIndex(k) <=> l = <<k[1], PrevYear(k[2])>>
<1> DEFINE y == k[2][1]
           m == k[2][2]
           v == l[2][1]
           n == l[2][2]
<1>1. y \in Int /\ v \in Int /\ m \in 1..12 /\ n \in 1..12
    BY DEF Key
<1>2. l = <<l[1], <<v, n>>>>
    BY DEF Key
<1>3. MonthIndex(k) = 12 * y + m /\ MonthIndex(l) = 12 * v + n
    BY DEF MonthIndex
<1>4. PrevMonth(k[2]) = (IF m = 1 THEN <<y - 1, 12>> ELSE <<y, m - 1>>)
      /\ PrevYear(k[2]) = <<y - 1, m>>
    BY DEF PrevMonth, PrevYear
<1>5. \A a, b, c : l = <<a, <<b, c>>>> <=> l[1] = a /\ v = b /\ n = c
    BY <1>2
<1> HIDE DEF y, m, v, n
<1>6. 12 * v + n + 1 = 12 * y + m <=> IF m = 1 THEN v = y - 1 /\ n = 12 ELSE v = y /\ n = m - 1
    BY <1>1
<1>7. 12 * v + n + 12 = 12 * y + m <=> v = y - 1 /\ n = m
    BY <1>1
<1>8. l = <<k[1], PrevMonth(k[2])>>
        <=> l[1] = k[1] /\ IF m = 1 THEN v = y - 1 /\ n = 12 ELSE v = y /\ n = m - 1
    BY <1>4, <1>5
<1>9. l = <<k[1], PrevYear(k[2])>> <=> l[1] = k[1] /\ v = y - 1 /\ n = m
    BY <1>4, <1>5
<1> QED
    BY <1>3, <1>6, <1>7, <1>8, <1>9

LEMMA EnrichAdjacent ==
  ASSUME NEW metrics, gold' = EnrichTrends(metrics), \A key \in DOMAIN metrics : Key(key)
  PROVE  TrendsAreAdjacent'
<1> SUFFICES ASSUME NEW key \in DOMAIN gold'
             PROVE  /\ gold'[key].mom_price = Trend(key, 1, "avg_price")'
                    /\ gold'[key].yoy_price = Trend(key, 12, "avg_price")'
                    /\ gold'[key].mom_volume = Trend(key, 1, "sale_count")'
                    /\ gold'[key].yoy_volume = Trend(key, 12, "sale_count")'
    BY DEF TrendsAreAdjacent
<1> DEFINE month == <<key[1], PrevMonth(key[2])>>
           year == <<key[1], PrevYear(key[2])>>
<1>1. /\ DOMAIN gold' = DOMAIN metrics
      /\ \A k \in DOMAIN gold' : gold'[k].metrics = metrics[k]
      /\ gold'[key].mom_price = Changes(metrics, key, month, "avg_price")
      /\ gold'[key].yoy_price = Changes(metrics, key, year, "avg_price")
      /\ gold'[key].mom_volume = Changes(metrics, key, month, "sale_count")
      /\ gold'[key].yoy_volume = Changes(metrics, key, year, "sale_count")
    BY DEF EnrichTrends
<1>2. \A l \in DOMAIN gold' :
        /\ l[1] = key[1] /\ MonthIndex(l) + 1 = MonthIndex(key) <=> l = month
        /\ l[1] = key[1] /\ MonthIndex(l) + 12 = MonthIndex(key) <=> l = year
    BY <1>1, Adjacent
<1>3. ASSUME NEW months, NEW anchor, NEW field,
             \A l \in DOMAIN gold' :
               l[1] = key[1] /\ MonthIndex(l) + months = MonthIndex(key) <=> l = anchor
      PROVE  Trend(key, months, field)' = Changes(metrics, key, anchor, field)
  <2> DEFINE found == {l \in DOMAIN gold' : l[1] = key[1] /\ MonthIndex(l) + months = MonthIndex(key)}
  <2>1. found = IF anchor \in DOMAIN gold' THEN {anchor} ELSE {}
      BY <1>3
  <2>2. ComparedWith(key, months, field)' = {gold'[k].metrics[field] : k \in found} \ {0}
      BY DEF ComparedWith
  <2> HIDE DEF found
  <2>3. ComparedWith(key, months, field)'
          = IF anchor \in DOMAIN gold' THEN {metrics[anchor][field]} \ {0} ELSE {}
      BY <1>1, <2>1, <2>2
  <2>4. Trend(key, months, field)'
          = {<<metrics[key][field] - prior, prior>> : prior \in ComparedWith(key, months, field)'}
      BY <1>1 DEF Trend
  <2>5. CASE anchor \notin DOMAIN gold'
      BY <1>1, <2>3, <2>4, <2>5 DEF Changes
  <2>6. CASE anchor \in DOMAIN gold'
    <3> DEFINE prior == metrics[anchor][field]
    <3>1. Changes(metrics, key, anchor, field) = PctChange(metrics[key][field], prior)
        BY <1>1, <2>6 DEF Changes
    <3>2. ComparedWith(key, months, field)' = {prior} \ {0}
        BY <2>3, <2>6
    <3> HIDE DEF prior
    <3> QED
        BY <2>4, <3>1, <3>2 DEF PctChange
  <2> QED
      BY <2>5, <2>6
<1> HIDE DEF month, year
<1> QED
    BY <1>1, <1>2, <1>3

\* What the pipeline counts on, step by step: sequences of rows, months that
\* are months, keys with such a month.
Prepared ==
  /\ stage \in {"limit", "call", "backoff"} =>
       /\ request \in Requests /\ request.source = "live" /\ ~Refused(request)
       /\ Valid(Gus(request), Months(request))
       /\ plan # <<>> /\ ToSet(plan) \subseteq ToSet(Plan(Gus(request), Months(request)))
  /\ tables = [deals |-> tables.deals, rates |-> tables.rates, migrations |-> tables.migrations]
  /\ stage \in {"start", "limit", "call", "backoff", "normalize"} => IsSeq(tables.deals)
  /\ stage = "aggregate" => \A deal \in ToSet(tables.deals) : Dated(deal)
  /\ stage = "enrich" => \A key \in DOMAIN gold : Key(key)
  /\ TrendsAreAdjacent

\* The rows of the fixture, for any districts and months.
FixtureRows ==
  {FixtureDeal(gu, month, day, amount, build, floor) :
     gu \in Nat, month \in Nat \X Nat, day \in Nat, amount \in Nat, build \in Nat, floor \in Nat}

LEMMA FixtureRowIs ==
  \A x : x \in FixtureRows <=>
    \E g \in Nat, m \in Nat \X Nat, d \in Nat, a \in Nat, b \in Nat, f \in Nat :
      x = FixtureDeal(g, m, d, a, b, f)
  BY DEF FixtureRows

LEMMA FixtureDeals ==
  ASSUME request \in Requests
  PROVE  /\ Fixture(request) = [deals |-> Fixture(request).deals, rates |-> Fixture(request).rates,
                                migrations |-> Fixture(request).migrations]
         /\ Fixture(request).deals \in Seq(FixtureRows)
<1>0. ASSUME NEW gu \in Nat, NEW month \in Nat \X Nat PROVE Template(gu, month) \in FixtureRows
  <2> DEFINE a == 15
             b == 82
             c == 2016
             d == 12
  <2>1. a \in Nat /\ b \in Nat /\ c \in Nat /\ d \in Nat
      OBVIOUS
  <2>2. Template(gu, month) = FixtureDeal(gu, month, a, b, c, d)
      BY DEF Template
  <2> HIDE DEF a, b, c, d
  <2> QED
      BY <1>0, <2>1, <2>2, FixtureRowIs, Zenon
<1>1. CASE request.gu = {} /\ request.gus = {} /\ request.month = {} /\ request.months = {}
  <2>1. Fixture(request) = FixtureBronzeInput
      BY <1>1 DEF Fixture
  <2>2. \A D : \A a, b, c \in D : <<a, b, c>> \in Seq(D)
      OBVIOUS
  <2>3. \E d, r, m : /\ FixtureBronzeInput = [deals |-> d, rates |-> r, migrations |-> m]
                    /\ d \in Seq(FixtureRows)
    <3> DEFINE month == <<2025, 7>>
               deal == Template(11680, month)
               other == FixtureDeal(11680, month, 20, 84, 2018, 9)
               r == <<FixtureRate(month)>>
               m == <<FixtureMigration(month)>>
    <3>1. FixtureBronzeInput = [deals |-> <<deal, deal, other>>, rates |-> r, migrations |-> m]
        BY DEF FixtureBronzeInput
    <3>2. deal \in FixtureRows
      <4> DEFINE g == 11680
      <4>1. g \in Nat /\ month \in Nat \X Nat
          OBVIOUS
      <4> HIDE DEF g, month
      <4>2. Template(g, month) \in FixtureRows
          BY <1>0, <4>1
      <4> QED
          BY <4>2 DEF g
    <3>3. other \in FixtureRows
      <4> DEFINE g == 11680
                 a == 20
                 b == 84
                 c == 2018
                 d == 9
      <4>1. /\ g \in Nat /\ a \in Nat /\ b \in Nat /\ c \in Nat /\ d \in Nat
            /\ month \in Nat \X Nat
          OBVIOUS
      <4> HIDE DEF g, a, b, c, d, month
      <4>2. FixtureDeal(g, month, a, b, c, d) \in FixtureRows
          BY <4>1, FixtureRowIs, Zenon
      <4> QED
          BY <4>2 DEF g, a, b, c, d
    <3> HIDE DEF deal, other, r, m
    <3> QED
        BY <2>2, <3>1, <3>2, <3>3
  <2> QED
      BY <2>1, <2>3
<1>2. CASE ~(request.gu = {} /\ request.gus = {} /\ request.month = {} /\ request.months = {})
  <2> DEFINE gus == Gus(request)
             months == Months(request)
             row(m) == [g \in DOMAIN gus |-> Template(gus[g], months[m])]
             seqs == [m \in DOMAIN months |-> row(m)]
             D == FixtureRows
  <2>1. gus \in Seq(Nat) /\ months \in Seq(Nat \X Nat)
      BY OptionsTyped
  <2>2. DOMAIN gus = 1..Len(gus) /\ Len(gus) \in Nat /\ DOMAIN months = 1..Len(months) /\ Len(months) \in Nat
    <3> HIDE DEF gus, months
    <3> QED
        BY <2>1
  <2> HIDE DEF gus, months
  <2>3. \A m \in DOMAIN months : row(m) \in Seq(D)
    <3> SUFFICES ASSUME NEW m \in DOMAIN months PROVE row(m) \in Seq(D)
        OBVIOUS
    <3>1. \A g \in 1..Len(gus) : Template(gus[g], months[m]) \in D
      <4> DEFINE P == Nat \X Nat
      <4>1. months \in Seq(P) /\ gus \in Seq(Nat)
          BY <2>1
      <4> HIDE DEF P
      <4>2. months[m] \in P /\ \A g \in 1..Len(gus) : gus[g] \in Nat
          BY <2>2, <4>1
      <4> QED
          BY <1>0, <4>2 DEF P
    <3> HIDE DEF D
    <3> QED
        BY <2>2, <3>1
  <2>4. seqs \in Seq(Seq(D))
    <3> HIDE DEF row, D
    <3> QED
        BY <2>2, <2>3
  <2>5. FlattenSeq(seqs) \in Seq(D)
    <3> HIDE DEF seqs, D
    <3> QED
        BY <2>4, FlattenElements
  <2>6. Fixture(request)
          = [deals |-> FlattenSeq(seqs),
             rates |-> [m \in DOMAIN months |-> FixtureRate(months[m])],
             migrations |-> [m \in DOMAIN months |-> FixtureMigration(months[m])]]
      BY <1>2 DEF Fixture, FixtureFanout, gus, months
  <2> HIDE DEF seqs
  <2> QED
      BY <2>5, <2>6
<1> QED
    BY <1>1, <1>2

LEMMA PreparedStep == Planned /\ Kept /\ Clock /\ Prepared /\ [Next]_vars => Prepared'
<1> SUFFICES ASSUME Planned, Kept, Clock, Prepared, [Next]_vars PROVE Prepared'
    OBVIOUS
<1>1. ASSUME UNCHANGED <<request, plan, tables, gold>>,
             \/ stage' = stage \/ stage' = "raised"
             \/ stage \in {"limit", "call", "backoff"} /\ stage' \in {"limit", "call", "backoff"}
      PROVE  Prepared'
    BY <1>1 DEF Prepared, TrendsAreAdjacent, Trend, ComparedWith
<1>2. ASSUME NEW environment, StartRefused(environment) PROVE Prepared'
    BY <1>1, <1>2 DEF StartRefused
<1>3. ASSUME NEW environment, StartLive(environment) PROVE Prepared'
  <2>1. /\ stage = "start" /\ stage' = "limit" /\ request.source = "live" /\ ~Refused(request)
        /\ Valid(Gus(request), Months(request)) /\ plan' = Plan(Gus(request), Months(request))
        /\ UNCHANGED <<request, tables, gold>>
      BY <1>3 DEF StartLive
  <2>2. Planned' /\ Kept'
      BY BooksStep
  <2>3. plan' # <<>> /\ request \in Requests
      BY <2>1, <2>2 DEF Kept
  <2>4. TrendsAreAdjacent'
      BY <2>1 DEF TrendsAreAdjacent
  <2> QED
      BY <2>1, <2>3, <2>4 DEF Prepared
<1>4. CASE StartFixture
  <2>1. tables' = Fixture(request) /\ stage' = "normalize"
      BY <1>4 DEF StartFixture
  <2>2. request \in Requests
      BY DEF Kept
  <2>3. TrendsAreAdjacent'
      BY <2>1 DEF TrendsAreAdjacent
  <2>4. IsSeq(tables'.deals)
      BY <2>1, <2>2, FixtureDeals DEF IsSeq
  <2> QED
      BY <2>1, <2>2, <2>3, <2>4, FixtureDeals DEF Prepared
<1>5. ASSUME stage = "call", NextFetch, UNCHANGED <<request, gold>>,
             tables' = [deals |-> tables'.deals, rates |-> tables'.rates, migrations |-> tables'.migrations],
             IsSeq(tables'.deals)
      PROVE  Prepared'
  <2>1. /\ request \in Requests /\ request.source = "live" /\ ~Refused(request)
        /\ Valid(Gus(request), Months(request))
        /\ plan # <<>> /\ ToSet(plan) \subseteq ToSet(Plan(Gus(request), Months(request)))
      BY <1>5 DEF Prepared
  <2>2. ToSet(Tail(plan)) \subseteq ToSet(plan)
      BY <2>1, TailInjective DEF Planned
  <2>3. /\ plan' = Tail(plan) /\ stage' \in {"normalize", "limit"}
        /\ stage' = "limit" => plan' # <<>>
      BY <1>5 DEF NextFetch
  <2>4. TrendsAreAdjacent'
      BY <2>3 DEF TrendsAreAdjacent
  <2> QED
      BY <1>5, <2>1, <2>2, <2>3, <2>4 DEF Prepared
<1>6. ASSUME NEW ticks \in 0..MaxCall, stage = "call", Call(ticks) PROVE Prepared'
  <2>1. ASSUME NEW rows \in Responses(Fetching), Answer(rows, ticks) PROVE Prepared'
    <3>1. tables' = Received(Fetching, rows)
        BY <2>1 DEF Answer
    <3>2. Fetching \in ToSet(plan) /\ plan # <<>>
        BY <1>6, TailInjective DEF Planned, Prepared, Fetching
    <3>3. Len(rows) \in Nat /\ DOMAIN rows = 1..Len(rows)
        BY <1>6, <2>1, <3>2, ResponsesAssumption DEF Prepared
    <3>4. IsSeq(MapDeals(rows))
      <4> DEFINE mapped(i) == [f \in DOMAIN rows[i] |-> SafeStr(rows[i][f], f \in IntLike)]
                 D == {mapped(i) : i \in 1..Len(rows)}
      <4>1. MapDeals(rows) = [i \in 1..Len(rows) |-> mapped(i)]
          BY <3>3 DEF MapDeals
      <4>2. [i \in 1..Len(rows) |-> mapped(i)] \in Seq(D)
        <5>1. \A i \in 1..Len(rows) : mapped(i) \in D
            OBVIOUS
        <5> HIDE DEF mapped, D
        <5> QED
            BY <3>3, <5>1
      <4> HIDE DEF mapped, D
      <4> QED
          BY <4>1, <4>2 DEF IsSeq
    <3>5. /\ tables = [deals |-> tables.deals, rates |-> tables.rates, migrations |-> tables.migrations]
          /\ IsSeq(tables.deals)
        BY <1>6 DEF Prepared
    <3>6. Fetching.source \in {"molit", "bok", "kostat"}
      <4> DEFINE X == Fetches(Months(request))
      <4>1. plan \in Seq(X)
          BY DEF Planned
      <4>2. ToSet(plan) \subseteq X
        <5> HIDE DEF X
        <5> QED
            BY <4>1 DEF ToSet
      <4> QED
          BY <3>2, <4>2 DEF Fetches
    <3>7. \/ tables' = [tables EXCEPT !.deals = @ \o MapDeals(rows)]
          \/ \E rates : tables' = [tables EXCEPT !.rates = rates]
          \/ \E migrations : tables' = [tables EXCEPT !.migrations = migrations]
        BY <3>1, <3>6 DEF Received, FetchDeals, FetchRates, FetchMigrations
    <3>8. IsSeq(tables.deals \o MapDeals(rows))
        BY <3>4, <3>5, ConcatIsSeq
    <3>9. /\ tables' = [deals |-> tables'.deals, rates |-> tables'.rates, migrations |-> tables'.migrations]
          /\ tables'.deals = tables.deals \/ tables'.deals = tables.deals \o MapDeals(rows)
        BY <3>5, <3>7
    <3>10. IsSeq(tables'.deals)
        BY <3>5, <3>8, <3>9
    <3> QED
        BY <1>5, <1>6, <2>1, <3>9, <3>10 DEF Answer
  <2>2. ASSUME NEW error, GiveUp(error) PROVE Prepared'
    <3>1. NextFetch /\ UNCHANGED <<request, tables, gold>>
        BY <2>2 DEF GiveUp
    <3>2. /\ tables = [deals |-> tables.deals, rates |-> tables.rates, migrations |-> tables.migrations]
          /\ IsSeq(tables.deals)
        BY <1>6 DEF Prepared
    <3> QED
        BY <1>5, <1>6, <3>1, <3>2
  <2>3. CASE CallFailsForGood(ticks)
      BY <2>2, <2>3 DEF CallFailsForGood
  <2>4. CASE CallFails(ticks)
      BY <1>1, <2>2, <2>4 DEF CallFails
  <2> QED
      BY <1>6, <2>1, <2>3, <2>4 DEF Call
<1>7. CASE Wait \/ (\E jitter \in 0..(Delay \div 2) : BackOff(jitter))
    BY <1>1, <1>7 DEF Wait, BackOff
<1>8. ASSUME NEW rows, AnswerRefused(rows) PROVE Prepared'
    BY <1>1, <1>8 DEF AnswerRefused
<1>9. CASE Normalize
  <2>1. /\ stage = "normalize" /\ stage' = "aggregate"
        /\ tables' = [deals |-> NormalizeBatch(tables.deals, NormalizeDeal),
                      rates |-> NormalizeBatch(tables.rates, NormalizeRate),
                      migrations |-> NormalizeBatch(tables.migrations, NormalizeMigration)]
      BY <1>9 DEF Normalize
  <2>2. \A deal \in ToSet(tables'.deals) : Dated(deal)
      BY <2>1, DealsDated DEF Prepared
  <2>3. TrendsAreAdjacent'
      BY <2>1 DEF TrendsAreAdjacent
  <2> QED
      BY <2>1, <2>2, <2>3 DEF Prepared
<1>10. CASE AggregateMonths
  <2>1. /\ stage = "aggregate" /\ stage' = "enrich" /\ UNCHANGED tables
        /\ gold' = Aggregate(tables.deals, tables.rates, tables.migrations)
      BY <1>10 DEF AggregateMonths
  <2>2. \A key \in DOMAIN gold' : Key(key)
      BY <2>1, GoldKeyed DEF Prepared
  <2>3. TrendsAreAdjacent'
      BY <2>1 DEF TrendsAreAdjacent
  <2> QED
      BY <2>1, <2>2, <2>3 DEF Prepared
<1>11. CASE Enrich
  <2>1. stage = "enrich" /\ stage' = "done" /\ UNCHANGED tables /\ gold' = EnrichTrends(gold)
      BY <1>11 DEF Enrich
  <2>2. \A key \in DOMAIN gold : Key(key)
      BY <2>1 DEF Prepared
  <2>3. TrendsAreAdjacent'
      BY <2>1, <2>2, EnrichAdjacent
  <2> QED
      BY <2>1, <2>3 DEF Prepared
<1>12. CASE UNCHANGED vars
    BY <1>1, <1>12 DEF vars
<1> QED
    BY <1>2, <1>3, <1>4, <1>6, <1>7, <1>8, <1>9, <1>10, <1>11, <1>12 DEF Next

\* enrich_gold_trends compares a row with the row of the same district one or
\* twelve months before, across a new year too and never with another row,
\* whatever was fetched, in whatever order and with whatever gaps.
THEOREM TrendsCompareAdjacent == Spec => []TrendsAreAdjacent
<1>1. Init => Prepared
  <2> SUFFICES ASSUME Init PROVE Prepared
      OBVIOUS
  <2>1. stage = "start" /\ tables = [deals |-> <<>>, rates |-> <<>>, migrations |-> <<>>]
      BY DEF Init
  <2>2. <<>> \in Seq({})
      OBVIOUS
  <2> QED
      BY <2>1, <2>2 DEF Prepared, IsSeq, TrendsAreAdjacent
<1>2. Prepared => TrendsAreAdjacent
    BY DEF Prepared
<1> QED
    BY <1>1, <1>2, PreparedStep, BooksHold, ClockHolds, PTL DEF Spec

-----------------------------------------------------------------------------
(* Sums, quotients and order statistics.                                   *)

Sums(g, seq, m) == g = [n \in 0..m |-> IF n = 0 THEN 0 ELSE g[n - 1] + seq[n]]

LEMMA SumsDefined ==
  ASSUME NEW seq, NEW m \in Nat PROVE \E g : Sums(g, seq, m)
<1> DEFINE T == {n \in Nat : \E g : Sums(g, seq, n)}
<1>1. 0 \in T
  <2> DEFINE g == [n \in 0..0 |-> 0]
  <2>1. Sums(g, seq, 0)
      BY DEF Sums
  <2> QED
      BY <2>1
<1>2. ASSUME NEW n \in Nat, n \in T PROVE n + 1 \in T
  <2>1. PICK g : Sums(g, seq, n)
      BY <1>2
  <2> DEFINE h == [i \in 0..(n + 1) |-> IF i = 0 THEN 0 ELSE g[i - 1] + seq[i]]
  <2>2. \A i \in 0..n : h[i] = g[i]
      BY <2>1 DEF Sums
  <2>3. \A i \in 0..(n + 1) : i # 0 => i - 1 \in 0..n
      OBVIOUS
  <2>4. \A i \in 0..(n + 1) : i # 0 => h[i - 1] = g[i - 1]
      BY <2>2, <2>3
  <2>5. Sums(h, seq, n + 1)
      BY <2>4 DEF Sums
  <2>6. \E k : Sums(k, seq, n + 1)
    <3> HIDE DEF h
    <3> QED
        BY <2>5
  <2> QED
      BY <2>6
<1> HIDE DEF T
<1>3. Nat \subseteq T
    BY <1>1, <1>2, NatInductive
<1> QED
    BY <1>3 DEF T

\* A sum lies between the number of its terms times a lower and an upper bound.
LEMMA TotalBetween ==
  ASSUME NEW seq \in Seq(Int), NEW lo \in Int, NEW hi \in Int,
         \A i \in DOMAIN seq : lo <= seq[i] /\ seq[i] <= hi
  PROVE  /\ Total(seq) \in Int
         /\ Len(seq) * lo <= Total(seq) /\ Total(seq) <= Len(seq) * hi
<1> DEFINE m == Len(seq)
           f == CHOOSE g : Sums(g, seq, m)
<1>1. m \in Nat /\ \A i \in 1..m : seq[i] \in Int /\ lo <= seq[i] /\ seq[i] <= hi
    OBVIOUS
<1>2. Total(seq) = f[m]
    BY DEF Total, Sums
<1>3. Sums(f, seq, m)
    BY <1>1, SumsDefined
<1> HIDE DEF f, m
<1>4. \A n \in 0..m : f[n] = IF n = 0 THEN 0 ELSE f[n - 1] + seq[n]
    BY <1>3 DEF Sums
<1> DEFINE T == {n \in Nat : n \in 0..m => f[n] \in Int /\ n * lo <= f[n] /\ f[n] <= n * hi}
<1>5. 0 \in T
  <2>1. f[0] = 0
      BY <1>1, <1>4
  <2>2. 0 * lo = 0 /\ 0 * hi = 0
      OBVIOUS
  <2> QED
      BY <2>1, <2>2
<1>6. ASSUME NEW n \in Nat, n \in T, n + 1 \in 0..m
      PROVE  f[n + 1] \in Int /\ (n + 1) * lo <= f[n + 1] /\ f[n + 1] <= (n + 1) * hi
  <2>1. n \in 0..m /\ n + 1 # 0 /\ (n + 1) - 1 = n /\ n + 1 \in 1..m
      BY <1>1, <1>6
  <2>2. f[n + 1] = f[n] + seq[n + 1]
      BY <1>4, <1>6, <2>1
  <2>3. f[n] \in Int /\ n * lo <= f[n] /\ f[n] <= n * hi
      BY <1>6, <2>1
  <2>4. seq[n + 1] \in Int /\ lo <= seq[n + 1] /\ seq[n + 1] <= hi
      BY <1>1, <2>1
  <2>5. (n + 1) * lo = n * lo + lo /\ (n + 1) * hi = n * hi + hi
      OBVIOUS
  <2> DEFINE a == n * lo
             b == n * hi
             x == f[n]
             y == seq[n + 1]
  <2>6. a \in Int /\ b \in Int /\ a <= x /\ x <= b /\ lo <= y /\ y <= hi /\ x \in Int /\ y \in Int
      BY <2>3, <2>4
  <2>7. f[n + 1] = x + y /\ (n + 1) * lo = a + lo /\ (n + 1) * hi = b + hi
      BY <2>2, <2>5
  <2> HIDE DEF a, b, x, y
  <2>8. x + y \in Int /\ a + lo <= x + y /\ x + y <= b + hi
      BY <2>6
  <2> QED
      BY <2>7, <2>8
<1>7. \A n \in Nat : n \in T => n + 1 \in T
    BY <1>6
<1>8. Nat \subseteq T
  <2> HIDE DEF T
  <2> QED
      BY <1>5, <1>7, NatInductive
<1>9. m \in T
    BY <1>1, <1>8
<1> QED
    BY <1>1, <1>2, <1>9 DEF m

LEMMA QuotientBetween ==
  ASSUME NEW t \in Int, NEW n \in Nat \ {0}, NEW lo \in Int, NEW hi \in Int,
         n * lo <= t, t <= n * hi
  PROVE  t \div n \in lo..hi
<1> DEFINE q == t \div n
           r == t % n
<1>1. q \in Int /\ r \in Int /\ 0 <= r /\ r < n /\ t = n * q + r
    OBVIOUS
<1> HIDE DEF q, r
<1>2. lo <= q
  <2> SUFFICES ASSUME q + 1 <= lo PROVE FALSE
      BY <1>1
  <2>1. n * (q + 1) <= n * lo
      BY <1>1
  <2>2. n * (q + 1) = n * q + n
      BY <1>1
  <2> QED
      BY <1>1, <2>1, <2>2
<1>3. q <= hi
  <2> SUFFICES ASSUME hi + 1 <= q PROVE FALSE
      BY <1>1
  <2>1. n * (hi + 1) <= n * q
      BY <1>1
  <2>2. n * (hi + 1) = n * hi + n
      OBVIOUS
  <2> QED
      BY <1>1, <2>1, <2>2
<1> QED
    BY <1>1, <1>2, <1>3 DEF q

LEMMA Extremes ==
  ASSUME NEW S \in SUBSET Int, IsFiniteSet(S), S # {}
  PROVE  /\ Min(S) \in S /\ \A y \in S : Min(S) <= y
         /\ Max(S) \in S /\ \A y \in S : y <= Max(S)
<1> DEFINE Bounded(U) == /\ \E x \in U : \A y \in U : x <= y
                         /\ \E x \in U : \A y \in U : y <= x
           T == {n \in Nat : \A U \in SUBSET S : U # {} /\ Cardinality(U) = n => Bounded(U)}
<1>1. 0 \in T
  <2> SUFFICES ASSUME NEW U \in SUBSET S, Cardinality(U) = 0 PROVE U = {}
      OBVIOUS
  <2> QED
      BY FS_Subset, FS_EmptySet
<1>2. ASSUME NEW n \in Nat, n \in T PROVE n + 1 \in T
  <2> SUFFICES ASSUME NEW U \in SUBSET S, U # {}, Cardinality(U) = n + 1 PROVE Bounded(U)
      OBVIOUS
  <2>1. PICK x \in U : TRUE
      OBVIOUS
  <2> DEFINE V == U \ {x}
  <2>2. IsFiniteSet(U) /\ V \in SUBSET S /\ U = V \cup {x}
      BY <2>1, FS_Subset
  <2>3. Cardinality(V) = n
    <3>1. Cardinality(V) = Cardinality(U) - 1
        BY <2>1, <2>2, FS_RemoveElement
    <3> QED
        BY <3>1
  <2>4. CASE V = {}
      BY <2>2, <2>4
  <2>5. CASE V # {}
    <3>1. Bounded(V)
      <4> HIDE DEF V, Bounded
      <4> QED
          BY <1>2, <2>2, <2>3, <2>5
    <3>2. PICK a \in V, b \in V : \A y \in V : a <= y /\ y <= b
        BY <3>1
    <3>3. a \in Int /\ b \in Int /\ x \in Int /\ \A y \in V : y \in Int
        BY <2>1
    <3> HIDE DEF V
    <3>4. \E c \in U : \A y \in U : c <= y
      <4>1. CASE a <= x
          BY <2>2, <3>2, <3>3, <4>1
      <4>2. CASE x <= a
          BY <2>2, <3>2, <3>3, <4>2
      <4> QED
          BY <3>3, <4>1, <4>2
    <3>5. \E c \in U : \A y \in U : y <= c
      <4>1. CASE x <= b
          BY <2>2, <3>2, <3>3, <4>1
      <4>2. CASE b <= x
          BY <2>2, <3>2, <3>3, <4>2
      <4> QED
          BY <3>3, <4>1, <4>2
    <3> QED
        BY <3>4, <3>5
  <2> QED
      BY <2>4, <2>5
<1>3. Nat \subseteq T
  <2> HIDE DEF T
  <2> QED
      BY <1>1, <1>2, NatInductive
<1>4. Bounded(S)
  <2>1. Cardinality(S) \in Nat
      BY FS_CardinalityType
  <2> HIDE DEF Bounded
  <2> QED
      BY <1>3, <2>1
<1>5. \E x \in S : \A y \in S : x >= y
    BY <1>4
<1> QED
    BY <1>4, <1>5 DEF Min, Max

\* There is a k-th smallest element.
LEMMA RankedFound ==
  ASSUME NEW seq \in Seq(Int), NEW k \in 1..Len(seq)
  PROVE  Ranked(seq, k) \in ToSet(seq)
<1> DEFINE n == Len(seq)
           Under(x) == {i \in DOMAIN seq : seq[i] < x}
           UpTo(x) == {i \in DOMAIN seq : seq[i] <= x}
           Reach == {x \in ToSet(seq) : Cardinality(UpTo(x)) >= k}
<1>1. n \in Nat /\ DOMAIN seq = 1..n /\ \A i \in 1..n : seq[i] \in Int
    OBVIOUS
<1>2. IsFiniteSet(1..n) /\ Cardinality(1..n) = n
    BY <1>1, IntervalCount
<1>3. ToSet(seq) \in SUBSET Int /\ IsFiniteSet(ToSet(seq)) /\ ToSet(seq) # {}
  <2>1. ToSet(seq) = {seq[i] : i \in DOMAIN seq}
      BY DEF ToSet
  <2>2. IsFiniteSet(DOMAIN seq)
      BY <1>1, <1>2
  <2>3. IsFiniteSet({seq[i] : i \in DOMAIN seq})
      BY <2>2, RangeFinite
  <2>4. seq[1] \in ToSet(seq)
      BY <1>1, <2>1
  <2> QED
      BY <1>1, <2>1, <2>3, <2>4
<1>4. \A x : /\ IsFiniteSet(Under(x)) /\ Cardinality(Under(x)) \in Nat
             /\ IsFiniteSet(UpTo(x)) /\ Cardinality(UpTo(x)) \in Nat
  <2> SUFFICES ASSUME NEW x PROVE /\ IsFiniteSet(Under(x)) /\ Cardinality(Under(x)) \in Nat
                                  /\ IsFiniteSet(UpTo(x)) /\ Cardinality(UpTo(x)) \in Nat
      OBVIOUS
  <2>1. Under(x) \in SUBSET (1..n) /\ UpTo(x) \in SUBSET (1..n)
      BY <1>1
  <2> HIDE DEF Under, UpTo, n
  <2> QED
      BY <1>2, <2>1, FS_Subset, FS_CardinalityType
<1>5. Reach # {}
  <2> DEFINE top == Max(ToSet(seq))
  <2>1. top \in ToSet(seq) /\ \A y \in ToSet(seq) : y <= top
      BY <1>3, Extremes
  <2> HIDE DEF top
  <2>2. UpTo(top) = 1..n
      BY <1>1, <2>1 DEF ToSet
  <2>3. Cardinality(UpTo(top)) = n
    <3> HIDE DEF UpTo, n
    <3> QED
        BY <1>2, <2>2
  <2>4. Cardinality(UpTo(top)) >= k
    <3> HIDE DEF UpTo
    <3> QED
        BY <1>1, <2>3
  <2> HIDE DEF UpTo
  <2> QED
      BY <2>1, <2>4
<1> DEFINE x == Min(Reach)
<1>6. x \in Reach /\ \A y \in Reach : x <= y
  <2>1. Reach \in SUBSET Int /\ IsFiniteSet(Reach)
    <3>1. Reach \in SUBSET ToSet(seq)
        OBVIOUS
    <3> HIDE DEF Reach
    <3> QED
        BY <1>3, <3>1, FS_Subset
  <2> HIDE DEF Reach
  <2> QED
      BY <1>5, <2>1, Extremes
<1> HIDE DEF x
<1>7. Cardinality(Under(x)) < k
  <2> SUFFICES ASSUME Cardinality(Under(x)) >= k PROVE FALSE
    <3>1. Cardinality(Under(x)) \in Nat
        BY <1>4
    <3> HIDE DEF Under
    <3> QED
        BY <3>1
  <2> DEFINE lower == {seq[i] : i \in Under(x)}
             y == Max(lower)
  <2>1. x \in Int
      BY <1>3, <1>6
  <2>2. Under(x) # {}
    <3>1. Cardinality(Under(x)) # 0 /\ IsFiniteSet(Under(x))
      <4>1. IsFiniteSet(Under(x)) /\ Cardinality(Under(x)) \in Nat
          BY <1>4
      <4> HIDE DEF Under
      <4> QED
          BY <4>1
    <3> HIDE DEF Under
    <3> QED
        BY <3>1, FS_EmptySet
  <2>3. lower \in SUBSET ToSet(seq) /\ lower # {}
      BY <2>2 DEF ToSet
  <2>4. IsFiniteSet(lower) /\ lower \in SUBSET Int
    <3> HIDE DEF lower
    <3> QED
        BY <1>3, <2>3, FS_Subset
  <2>5. y \in lower /\ \A z \in lower : z <= y
    <3> HIDE DEF lower
    <3> QED
        BY <2>3, <2>4, Extremes
  <2> HIDE DEF y
  <2>6. y < x /\ y \in Int /\ y \in ToSet(seq)
      BY <2>3, <2>4, <2>5
  <2>7. UpTo(y) = Under(x)
    <3>1. \A i \in DOMAIN seq : seq[i] <= y => seq[i] < x
        BY <1>1, <2>1, <2>6
    <3>2. \A i \in DOMAIN seq : seq[i] < x => seq[i] <= y
        BY <2>5
    <3> QED
        BY <3>1, <3>2
  <2>8. y \in Reach
    <3>1. Cardinality(UpTo(y)) >= k
        BY <2>7
    <3> HIDE DEF UpTo
    <3> QED
        BY <2>6, <3>1
  <2> QED
      BY <1>6, <2>1, <2>6, <2>8
<1>8. \E z \in ToSet(seq) : Cardinality(Under(z)) < k /\ Cardinality(UpTo(z)) >= k
  <2>1. x \in ToSet(seq) /\ Cardinality(UpTo(x)) >= k
      BY <1>6
  <2> HIDE DEF Under, UpTo
  <2> QED
      BY <1>7, <2>1
<1> QED
    BY <1>8 DEF Ranked

\* int(statistics.median) of prices lies between any bounds they have.
LEMMA MedianBetween ==
  ASSUME NEW seq \in Seq(Int), seq # <<>>, NEW lo \in Int, NEW hi \in Int,
         \A i \in DOMAIN seq : lo <= seq[i] /\ seq[i] <= hi
  PROVE  Median(seq) \in lo..hi
<1> DEFINE n == Len(seq)
<1>1. n \in Nat \ {0}
    OBVIOUS
<1>2. ASSUME NEW k \in 1..n PROVE Ranked(seq, k) \in lo..hi
  <2>1. \A x \in ToSet(seq) : x \in lo..hi
      BY DEF ToSet
  <2> QED
      BY <2>1, RankedFound
<1>3. CASE n % 2 = 1
  <2>1. (n + 1) \div 2 \in 1..n
      BY <1>1
  <2>2. Median(seq) = Ranked(seq, (n + 1) \div 2)
      BY <1>3 DEF Median
  <2> QED
      BY <1>2, <2>1, <2>2
<1>4. CASE n % 2 # 1
  <2>1. n \div 2 \in 1..n /\ n \div 2 + 1 \in 1..n
      BY <1>1, <1>4
  <2> DEFINE a == Ranked(seq, n \div 2)
             b == Ranked(seq, n \div 2 + 1)
  <2>2. Median(seq) = Truncate(a + b, 2)
      BY <1>4 DEF Median
  <2>3. a \in lo..hi /\ b \in lo..hi
      BY <1>2, <2>1
  <2> HIDE DEF a, b
  <2>4. Truncate(a + b, 2) \in lo..hi
      BY <2>3 DEF Truncate
  <2> QED
      BY <2>2, <2>4
<1> QED
    BY <1>3, <1>4

-----------------------------------------------------------------------------
(* What a cell, a row and a batch become.                                  *)

LEMMA CellParsed ==
  ASSUME NEW c \in Cells
  PROVE  /\ ParseInt(SafeStr(c, TRUE)) = IF Whole(c) THEN {IntOf(c)} ELSE {}
         /\ IntOf(c) \in Int
         /\ ParseDealAmount(SafeStr(c, FALSE)) # {} <=> c.form \in {"int", "commas"}
         /\ ParseDealAmount(SafeStr(c, FALSE)) \subseteq Int
         /\ ParseDecimal(SafeStr(c, FALSE)) # {} <=> c.form \in {"int", "decimal", "float"}
         /\ SafeStr(c, FALSE).form \in {"null", "blank"} <=> c.form \in {"nan", "null", "blank"}
<1>1. c.n \in Int /\ c.form \in {"int", "commas", "decimal", "float", "nan", "null", "blank", "word"}
    BY DEF Cells
<1>2. /\ Null.form = "null" /\ Text("decimal", c.n).form = "decimal" /\ Text("decimal", c.n).n = c.n
      /\ \A q : Text("int", q).form = "int" /\ Text("int", q).n = q
    BY DEF Text, Null
<1>3. IntOf(c) \in Int
    BY <1>1 DEF IntOf
<1>4. ParseInt(SafeStr(c, TRUE)) = IF Whole(c) THEN {IntOf(c)} ELSE {}
  <2> DEFINE u == SafeStr(c, TRUE)
             whole == c.n % 1000 = 0
             q == c.n \div 1000
  <2>1. (Whole(c) <=> c.form = "int" \/ (c.form = "float" /\ whole))
        /\ IntOf(c) = IF c.form = "float" THEN q ELSE c.n
      BY DEF Whole, IntOf
  <2>2. /\ c.form = "nan" => u = Null
        /\ c.form = "float" => u = IF whole THEN Text("int", q) ELSE Text("decimal", c.n)
        /\ c.form \notin {"nan", "float"} => u = c
      BY DEF SafeStr
  <2> HIDE DEF whole, q, u
  <2>3. /\ u.form = "int" <=> Whole(c)
        /\ u.form = "int" => u.n = IntOf(c)
    <3>1. CASE c.form = "nan"
        BY <1>2, <2>1, <2>2, <3>1
    <3>2. CASE c.form = "float" /\ whole
      <4>1. u.form = "int" /\ u.n = q
          BY <1>2, <2>2, <3>2
      <4> QED
          BY <2>1, <3>2, <4>1
    <3>3. CASE c.form = "float" /\ ~whole
      <4>1. u.form = "decimal"
          BY <1>2, <2>2, <3>3
      <4> QED
          BY <2>1, <3>3, <4>1
    <3>4. CASE c.form \notin {"nan", "float"}
        BY <2>1, <2>2, <3>4
    <3> QED
        BY <3>1, <3>2, <3>3, <3>4
  <2>4. ParseInt(u) = IF u.form = "int" THEN {u.n} ELSE {}
      BY DEF ParseInt
  <2> QED
      BY <2>3, <2>4 DEF u
<1> DEFINE t == SafeStr(c, FALSE)
<1>5. /\ t.form = IF c.form = "nan" THEN "null" ELSE IF c.form = "float" THEN "decimal" ELSE c.form
      /\ c.form # "nan" => t.n = c.n
  <2>1. CASE c.form = "nan"
    <3>1. t = Null
        BY <2>1 DEF SafeStr
    <3> QED
        BY <1>2, <2>1, <3>1 DEF Null
  <2>2. CASE c.form = "float"
    <3>1. t = Text("decimal", c.n)
        BY <2>2 DEF SafeStr
    <3> QED
        BY <1>2, <2>2, <3>1
  <2>3. CASE c.form \notin {"nan", "float"}
      BY <2>3 DEF SafeStr
  <2> QED
      BY <2>1, <2>2, <2>3
<1> HIDE DEF t
<1>6. (ParseDealAmount(t) # {} <=> c.form \in {"int", "commas"}) /\ ParseDealAmount(t) \subseteq Int
  <2>1. ParseCount(t) = IF c.form \in {"int", "commas"} THEN {c.n} ELSE {}
      BY <1>1, <1>5 DEF ParseCount
  <2>2. (ParseCount(t) # {} <=> c.form \in {"int", "commas"}) /\ ParseCount(t) \subseteq Int
      BY <1>1, <2>1
  <2> QED
      BY <2>2, SMT DEF ParseDealAmount
<1>7. ParseDecimal(t) # {} <=> c.form \in {"int", "decimal", "float"}
  <2>1. CASE t.form = "int"
      BY <1>5, <2>1 DEF ParseDecimal
  <2>2. CASE t.form = "decimal"
      BY <1>1, <1>5, <2>2 DEF ParseDecimal
  <2>3. CASE t.form \notin {"int", "decimal"}
      BY <1>1, <1>5, <2>3 DEF ParseDecimal
  <2> QED
      BY <2>1, <2>2, <2>3
<1>8. t.form \in {"null", "blank"} <=> c.form \in {"nan", "null", "blank"}
    BY <1>1, <1>5
<1> QED
    BY <1>3, <1>4, <1>6, <1>7, <1>8, Zenon DEF t

\* What MapDeals makes of a row.
Bronze(row) == [f \in DOMAIN row |-> SafeStr(row[f], f \in IntLike)]

LEMMA DateOf ==
  ASSUME NEW y \in Int, NEW m \in Int, NEW d \in Int
  PROVE  Dates({y}, {m}, {d})
           = IF y \in 1..MaxYear /\ m \in 1..12 /\ d \in 1..DaysIn(y, m) THEN {<<y, m, d>>} ELSE {}
<1>1. {y} \X {m} \X {d} = {<<y, m, d>>}
    OBVIOUS
<1>2. <<y, m, d>>[1] = y /\ <<y, m, d>>[2] = m /\ <<y, m, d>>[3] = d
    OBVIOUS
<1>3. Dates({y}, {m}, {d})
        = {date \in {<<y, m, d>>} : date[1] \in 1..MaxYear /\ date[2] \in 1..12
                                    /\ date[3] \in 1..DaysIn(date[1], date[2])}
    BY <1>1 DEF Dates
<1> QED
    BY <1>2, <1>3, Zenon

\* A row ends up in the Gold row of a district and month just if it is a sale
\* there by its raw cells.
LEMMA BronzeDeal ==
  ASSUME NEW row \in DealRows, NEW gu, NEW month
  PROVE  /\ (\E deal \in NormalizeDeal(Bronze(row)) : InRow(deal, <<gu, month>>))
              <=> SaleOf(row, gu, month)
         /\ \A deal \in NormalizeDeal(Bronze(row)) : deal.amount \in Int
<1> DEFINE b == Bronze(row)
           Y == IntOf(row.year)
           M == IntOf(row.month)
           D == IntOf(row.day)
           date == Dates(ParseInt(b.year), ParseInt(b.month), ParseInt(b.day))
           deal(g, d, a, m, f, y) ==
             [gu |-> g, date |-> d, amount |-> a, area |-> HalfUp(m), floor |-> f,
              build |-> y, cancelled |-> b.cancel.form \notin {"null", "blank"},
              quality |-> Quality(y, f, HalfUp(m), a)]
           sgg == {g \in ParseInt(b.sgg) : g \in SeoulGuCodes}
<1>1. /\ row.sgg \in Cells /\ row.year \in Cells /\ row.month \in Cells /\ row.day \in Cells
      /\ row.amount \in Cells /\ row.area \in Cells /\ row.floor \in Cells /\ row.build \in Cells
      /\ row.cancel \in Cells
      /\ DOMAIN row = {"sgg", "year", "month", "day", "amount", "area", "floor", "build", "cancel"}
    BY DEF DealRows
<1>2. /\ b.sgg = SafeStr(row.sgg, TRUE) /\ b.year = SafeStr(row.year, TRUE)
      /\ b.month = SafeStr(row.month, TRUE) /\ b.day = SafeStr(row.day, TRUE)
      /\ b.floor = SafeStr(row.floor, TRUE) /\ b.build = SafeStr(row.build, TRUE)
      /\ b.amount = SafeStr(row.amount, FALSE) /\ b.area = SafeStr(row.area, FALSE)
      /\ b.cancel = SafeStr(row.cancel, FALSE)
  <2>1. ASSUME NEW f \in DOMAIN row PROVE b[f] = SafeStr(row[f], f \in IntLike)
      BY <2>1 DEF Bronze
  <2>2. \A f \in {"build", "year", "month", "day", "floor", "sgg"} : b[f] = SafeStr(row[f], TRUE)
    <3> SUFFICES ASSUME NEW f \in {"build", "year", "month", "day", "floor", "sgg"}
                 PROVE  b[f] = SafeStr(row[f], TRUE)
        OBVIOUS
    <3>1. f \in DOMAIN row /\ (f \in IntLike) = TRUE
        BY <1>1 DEF IntLike
    <3> HIDE DEF b
    <3> QED
        BY <2>1, <3>1
  <2>3. \A f \in {"amount", "area", "cancel"} : b[f] = SafeStr(row[f], FALSE)
    <3> SUFFICES ASSUME NEW f \in {"amount", "area", "cancel"} PROVE b[f] = SafeStr(row[f], FALSE)
        OBVIOUS
    <3>1. f \in DOMAIN row /\ (f \in IntLike) = FALSE
        BY <1>1 DEF IntLike
    <3> HIDE DEF b
    <3> QED
        BY <2>1, <3>1
  <2> HIDE DEF b
  <2> QED
      BY <2>2, <2>3
<1> HIDE DEF b
<1>3. /\ ParseInt(b.sgg) = IF Whole(row.sgg) THEN {IntOf(row.sgg)} ELSE {}
      /\ ParseInt(b.year) = IF Whole(row.year) THEN {Y} ELSE {}
      /\ ParseInt(b.month) = IF Whole(row.month) THEN {M} ELSE {}
      /\ ParseInt(b.day) = IF Whole(row.day) THEN {D} ELSE {}
      /\ Y \in Int /\ M \in Int /\ D \in Int
      /\ ParseInt(b.floor) = IF Whole(row.floor) THEN {IntOf(row.floor)} ELSE {}
      /\ ParseInt(b.build) = IF Whole(row.build) THEN {IntOf(row.build)} ELSE {}
  <2>1. \A c \in Cells : /\ ParseInt(SafeStr(c, TRUE)) = IF Whole(c) THEN {IntOf(c)} ELSE {}
                         /\ IntOf(c) \in Int
      BY CellParsed, Zenon
  <2> QED
      BY <1>1, <1>2, <2>1, Zenon
<1>4. /\ ParseDealAmount(b.amount) # {} <=> row.amount.form \in {"int", "commas"}
      /\ ParseDealAmount(b.amount) \subseteq Int
      /\ ParseDecimal(b.area) # {} <=> row.area.form \in {"int", "decimal", "float"}
      /\ b.cancel.form \in {"null", "blank"} <=> row.cancel.form \in {"nan", "null", "blank"}
  <2>1. /\ ParseDealAmount(b.amount) # {} <=> row.amount.form \in {"int", "commas"}
        /\ ParseDealAmount(b.amount) \subseteq Int
      BY <1>1, <1>2, CellParsed, Zenon
  <2>2. ParseDecimal(b.area) # {} <=> row.area.form \in {"int", "decimal", "float"}
      BY <1>1, <1>2, CellParsed, Zenon
  <2>3. b.cancel.form \in {"null", "blank"} <=> row.cancel.form \in {"nan", "null", "blank"}
      BY <1>1, <1>2, CellParsed, Zenon
  <2> QED
      BY <2>1, <2>2, <2>3
<1>5. date = IF /\ Whole(row.year) /\ Whole(row.month) /\ Whole(row.day)
                /\ Y \in 1..MaxYear /\ M \in 1..12 /\ D \in 1..DaysIn(Y, M)
               THEN {<<Y, M, D>>} ELSE {}
  <2> HIDE DEF Y, M, D
  <2>1. CASE Whole(row.year) /\ Whole(row.month) /\ Whole(row.day)
    <3>1. date = Dates({Y}, {M}, {D})
        BY <1>3, <2>1
    <3> QED
        BY <1>3, <2>1, <3>1, DateOf
  <2>2. CASE ~(Whole(row.year) /\ Whole(row.month) /\ Whole(row.day))
    <3>1. ParseInt(b.year) = {} \/ ParseInt(b.month) = {} \/ ParseInt(b.day) = {}
        BY <1>3, <2>2
    <3>2. ParseInt(b.year) \X ParseInt(b.month) \X ParseInt(b.day) = {}
        BY <3>1
    <3>3. date = {}
        BY <3>2, DateParts
    <3> QED
        BY <2>2, <3>3
  <2> QED
      BY <2>1, <2>2
<1>6. \A x : x \in NormalizeDeal(b) <=>
        \E g \in sgg, d \in date, a \in ParseDealAmount(b.amount), m \in ParseDecimal(b.area),
           f \in ParseInt(b.floor), y \in ParseInt(b.build) : x = deal(g, d, a, m, f, y)
    BY DEF NormalizeDeal
<1>7. \A g, d, a, m, f, y :
        InRow(deal(g, d, a, m, f, y), <<gu, month>>)
          <=> b.cancel.form \in {"null", "blank"} /\ g = gu /\ <<d[1], d[2]>> = month
  <2> SUFFICES ASSUME NEW g, NEW d, NEW a, NEW m, NEW f, NEW y
               PROVE  InRow(deal(g, d, a, m, f, y), <<gu, month>>)
                        <=> b.cancel.form \in {"null", "blank"} /\ g = gu /\ <<d[1], d[2]>> = month
      OBVIOUS
  <2> DEFINE x == deal(g, d, a, m, f, y)
  <2>1. x.gu = g /\ x.date = d
      OBVIOUS
  <2>2. x.cancelled = (b.cancel.form \notin {"null", "blank"})
      OBVIOUS
  <2>3. <<gu, month>>[1] = gu /\ <<gu, month>>[2] = month
      OBVIOUS
  <2> HIDE DEF x
  <2>4. InRow(x, <<gu, month>>) <=> ~x.cancelled /\ x.gu = gu /\ <<x.date[1], x.date[2]>> = month
      BY <2>3, Zenon DEF InRow, Counts, Period
  <2>5. InRow(x, <<gu, month>>)
          <=> b.cancel.form \in {"null", "blank"} /\ g = gu /\ <<d[1], d[2]>> = month
      BY <2>1, <2>2, <2>4, Zenon
  <2> QED
      BY <2>5 DEF x
<1>8. (\E x \in NormalizeDeal(b) : InRow(x, <<gu, month>>))
        <=> \E g \in sgg, d \in date, a \in ParseDealAmount(b.amount), m \in ParseDecimal(b.area),
               f \in ParseInt(b.floor), y \in ParseInt(b.build) :
                 b.cancel.form \in {"null", "blank"} /\ g = gu /\ <<d[1], d[2]>> = month
  <2> HIDE DEF sgg, date, deal
  <2>1. ASSUME NEW x \in NormalizeDeal(b), InRow(x, <<gu, month>>)
        PROVE  \E g \in sgg, d \in date, a \in ParseDealAmount(b.amount),
                  m \in ParseDecimal(b.area), f \in ParseInt(b.floor), y \in ParseInt(b.build) :
                    b.cancel.form \in {"null", "blank"} /\ g = gu /\ <<d[1], d[2]>> = month
    <3>1. PICK g \in sgg, d \in date, a \in ParseDealAmount(b.amount), m \in ParseDecimal(b.area),
               f \in ParseInt(b.floor), y \in ParseInt(b.build) : x = deal(g, d, a, m, f, y)
        BY <1>6, <2>1, Zenon
    <3>2. InRow(deal(g, d, a, m, f, y), <<gu, month>>)
        BY <2>1, <3>1, Zenon
    <3>3. b.cancel.form \in {"null", "blank"} /\ g = gu /\ <<d[1], d[2]>> = month
        BY <1>7, <3>2, Zenon
    <3> QED
        BY <3>3, Zenon
  <2>2. ASSUME NEW g \in sgg, NEW d \in date, NEW a \in ParseDealAmount(b.amount),
               NEW m \in ParseDecimal(b.area), NEW f \in ParseInt(b.floor),
               NEW y \in ParseInt(b.build),
               b.cancel.form \in {"null", "blank"} /\ g = gu /\ <<d[1], d[2]>> = month
        PROVE  \E x \in NormalizeDeal(b) : InRow(x, <<gu, month>>)
    <3>1. deal(g, d, a, m, f, y) \in NormalizeDeal(b)
        BY <1>6, Zenon
    <3>2. InRow(deal(g, d, a, m, f, y), <<gu, month>>)
        BY <1>7, <2>2, Zenon
    <3> QED
        BY <3>1, <3>2, Zenon
  <2> QED
      BY <2>1, <2>2, Zenon
<1>9. (\E x \in NormalizeDeal(b) : InRow(x, <<gu, month>>))
        <=> /\ \E g \in sgg : g = gu
            /\ \E d \in date : <<d[1], d[2]>> = month
            /\ ParseDealAmount(b.amount) # {} /\ ParseDecimal(b.area) # {}
            /\ ParseInt(b.floor) # {} /\ ParseInt(b.build) # {}
            /\ b.cancel.form \in {"null", "blank"}
  <2> HIDE DEF sgg, date
  <2> QED
      BY <1>8
<1>10. (\E g \in sgg : g = gu) <=> Whole(row.sgg) /\ IntOf(row.sgg) = gu /\ gu \in SeoulGuCodes
    BY <1>3
<1>11. (\E d \in date : <<d[1], d[2]>> = month)
         <=> /\ Whole(row.year) /\ Whole(row.month) /\ Whole(row.day)
             /\ Y \in 1..MaxYear /\ M \in 1..12 /\ D \in 1..DaysIn(Y, M)
             /\ <<Y, M>> = month
  <2>1. <<Y, M, D>>[1] = Y /\ <<Y, M, D>>[2] = M
      OBVIOUS
  <2> HIDE DEF date, Y, M, D
  <2> QED
      BY <1>5, <2>1
<1>12. ParseInt(b.floor) # {} <=> Whole(row.floor)
    BY <1>3
<1>13. ParseInt(b.build) # {} <=> Whole(row.build)
    BY <1>3
<1>14. ParseDealAmount(b.amount) # {} <=> row.amount.form \in {"int", "commas"}
    BY <1>4
<1>15. (\E x \in NormalizeDeal(b) : InRow(x, <<gu, month>>)) <=> SaleOf(row, gu, month)
  <2>1. (\A f \in {"year", "month", "day", "floor", "build", "sgg"} : Whole(row[f]))
          <=> /\ Whole(row.year) /\ Whole(row.month) /\ Whole(row.day) /\ Whole(row.floor)
              /\ Whole(row.build) /\ Whole(row.sgg)
      OBVIOUS
  <2> HIDE DEF sgg, date
  <2> QED
      BY <1>4, <1>9, <1>10, <1>11, <1>12, <1>13, <1>14, <2>1 DEF SaleOf, IsSale
<1>16. \A x \in NormalizeDeal(b) : x.amount \in Int
  <2>1. \A x \in NormalizeDeal(b) : x.amount \in ParseDealAmount(b.amount)
      BY DealOptional
  <2> QED
      BY <1>4, <2>1
<1> QED
    BY <1>15, <1>16 DEF b

\* Optional values, one after the other: each value that is there is there once.
Optionals(X, n) == {o \in [1..n -> SUBSET X] : \A i \in 1..n : \A x, y \in o[i] : x = y}

LEMMA PresentHits ==
  ASSUME NEW X, NEW n \in Nat, NEW opts \in Optionals(X, n), NEW T
  PROVE  /\ Present(opts) \in Seq(X)
         /\ IsFiniteSet({i \in 1..n : opts[i] \cap T # {}})
         /\ Cardinality(Hits(Present(opts), T)) = Cardinality({i \in 1..n : opts[i] \cap T # {}})
<1> DEFINE lists == [i \in DOMAIN opts |-> SetToSeq(opts[i])]
<1>0. DOMAIN opts = 1..n /\ \A i \in 1..n : opts[i] \in SUBSET X /\ \A x, y \in opts[i] : x = y
    BY DEF Optionals
<1>1. ASSUME NEW i \in 1..n
      PROVE  lists[i] \in Seq(X) /\ ToSet(lists[i]) = opts[i] /\ Len(lists[i]) <= 1
  <2> DEFINE own == opts[i]
  <2>1. IsFiniteSet(own) /\ Cardinality(own) <= 1
    <3>1. CASE own = {}
        BY <3>1, FS_EmptySet
    <3>2. ASSUME NEW x \in own PROVE IsFiniteSet(own) /\ Cardinality(own) <= 1
      <4>1. own = {x}
          BY <1>0, <3>2
      <4>2. IsFiniteSet({x}) /\ Cardinality({x}) = 1
          BY FS_Singleton
      <4> QED
          BY <4>1, <4>2
    <3> QED
        BY <3>1, <3>2
  <2>2. lists[i] = SetToSeq(own)
      BY <1>0
  <2>3. own \subseteq X
      BY <1>0
  <2> HIDE DEF own, lists
  <2>4. Enumerates(SetToSeq(own), own)
      BY <2>1, SetToSeqEnumerates
  <2>5. SetToSeq(own) \in Seq(own) /\ Len(SetToSeq(own)) <= 1 /\ ToSet(SetToSeq(own)) = own
      BY <2>1, <2>4 DEF Enumerates
  <2>6. SetToSeq(own) \in Seq(X)
      BY <2>3, <2>5, SeqMonotonic
  <2> QED
      BY <2>2, <2>5, <2>6 DEF own
<1>2. Present(opts) = FlattenSeq(lists)
    BY DEF Present
<1>3. DOMAIN lists = 1..n /\ lists = [i \in 1..n |-> lists[i]]
    BY <1>0
<1> HIDE DEF lists
<1>4. lists \in Seq(Seq(X)) /\ Len(lists) = n
    BY <1>1, <1>3
<1>5. FlattenSeq(lists) \in Seq(X)
    BY <1>4, FlattenElements
<1>6. \A i \in DOMAIN lists : Len(lists[i]) <= 1
    BY <1>1, <1>3
<1>7. {i \in DOMAIN lists : ToSet(lists[i]) \cap T # {}} = {i \in 1..n : opts[i] \cap T # {}}
    BY <1>1, <1>3
<1>8. /\ IsFiniteSet({i \in DOMAIN lists : ToSet(lists[i]) \cap T # {}})
      /\ Cardinality(Hits(FlattenSeq(lists), T))
           = Cardinality({i \in DOMAIN lists : ToSet(lists[i]) \cap T # {}})
    BY <1>4, <1>6, FlattenHits
<1> QED
    BY <1>2, <1>5, <1>7, <1>8, Zenon

-----------------------------------------------------------------------------
(* From the answers to Gold: nothing is lost and nothing counted twice.    *)

\* What the connector makes of rows with all columns, and Silver of that.
Bronzes == {Bronze(row) : row \in DealRows}
Silvers == UNION {NormalizeDeal(b) : b \in Bronzes}

\* The rows before and after normalisation that a row of Gold counts.
Selling(key) == {b \in Bronzes : \E deal \in NormalizeDeal(b) : InRow(deal, key)}
InRows(key) == {deal \in Silvers : InRow(deal, key)}

\* SalesOf for any set of answers.
SalesIn(given, gu, month) ==
  UNION {{<<a.fetch, i>> : i \in {j \in DOMAIN a.rows : SaleOf(a.rows[j], gu, month)}} :
         a \in {b \in given : b.fetch.source \in {"molit", "fixture"}}}

\* The rows of an answer that are sales of a district and month.
RowsSold(rows, gu, month) == {i \in DOMAIN rows : SaleOf(rows[i], gu, month)}

LEMMA DealsMapped ==
  ASSUME NEW rows \in Seq(DealRows), NEW gu, NEW month
  PROVE  /\ MapDeals(rows) \in Seq(Bronzes)
         /\ Hits(MapDeals(rows), Selling(<<gu, month>>)) = RowsSold(rows, gu, month)
<1> DEFINE mapped == [i \in DOMAIN rows |-> Bronze(rows[i])]
<1>1. DOMAIN rows = 1..Len(rows) /\ Len(rows) \in Nat /\ \A i \in DOMAIN rows : rows[i] \in DealRows
    OBVIOUS
<1>2. MapDeals(rows) = mapped
    BY DEF MapDeals, Bronze
<1>3. \A i \in DOMAIN rows : mapped[i] = Bronze(rows[i]) /\ mapped[i] \in Bronzes
    BY <1>1 DEF Bronzes
<1>4. mapped \in Seq(Bronzes) /\ DOMAIN mapped = DOMAIN rows
    BY <1>1, <1>3
<1> HIDE DEF mapped
<1>5. \A i \in DOMAIN rows : mapped[i] \in Selling(<<gu, month>>) <=> SaleOf(rows[i], gu, month)
    BY <1>1, <1>3, BronzeDeal, Zenon DEF Selling
<1>6. Hits(mapped, Selling(<<gu, month>>)) = {i \in DOMAIN rows : SaleOf(rows[i], gu, month)}
    BY <1>4, <1>5, Zenon DEF Hits
<1> QED
    BY <1>2, <1>4, <1>6 DEF RowsSold

LEMMA DealsNormalized ==
  ASSUME NEW deals \in Seq(Bronzes), NEW key
  PROVE  /\ NormalizeBatch(deals, NormalizeDeal) \in Seq(Silvers)
         /\ Cardinality(Hits(NormalizeBatch(deals, NormalizeDeal), InRows(key)))
              = Cardinality(Hits(deals, Selling(key)))
<1> DEFINE opts == [i \in DOMAIN deals |-> NormalizeDeal(deals[i])]
           n == Len(deals)
<1>1. n \in Nat /\ DOMAIN deals = 1..n /\ \A i \in 1..n : deals[i] \in Bronzes
    OBVIOUS
<1>2. NormalizeBatch(deals, NormalizeDeal) = Present(opts)
    BY DEF NormalizeBatch
<1>3. DOMAIN opts = 1..n /\ \A i \in 1..n : opts[i] = NormalizeDeal(deals[i])
    BY <1>1
<1>0. opts = [i \in 1..n |-> opts[i]]
    BY <1>1
<1> HIDE DEF opts, n
<1>4. \A i \in 1..n : opts[i] \in SUBSET Silvers /\ \A x, y \in opts[i] : x = y
    BY <1>1, <1>3, DealOptional DEF Silvers
<1>5. {i \in 1..n : opts[i] \cap InRows(key) # {}} = Hits(deals, Selling(key))
  <2>1. \A i \in 1..n : opts[i] \cap InRows(key) # {} <=> deals[i] \in Selling(key)
      BY <1>1, <1>3, <1>4 DEF InRows, Selling
  <2> QED
      BY <1>1, <2>1 DEF Hits
<1>6. /\ Present(opts) \in Seq(Silvers)
      /\ Cardinality(Hits(Present(opts), InRows(key)))
           = Cardinality({i \in 1..n : opts[i] \cap InRows(key) # {}})
  <2> DEFINE X == Silvers
             T == InRows(key)
  <2>1. opts \in Optionals(X, n)
      BY <1>0, <1>3, <1>4 DEF Optionals
  <2> HIDE DEF X, T
  <2>3. /\ Present(opts) \in Seq(X)
        /\ Cardinality(Hits(Present(opts), T)) = Cardinality({i \in 1..n : opts[i] \cap T # {}})
      BY <1>1, <2>1, PresentHits
  <2> QED
      BY <2>3 DEF X, T
<1> QED
    BY <1>2, <1>5, <1>6

LEMMA AmountsTyped == \A deal \in Silvers : deal.amount \in Int
  BY BronzeDeal DEF Silvers, Bronzes

\* A row of Gold counts every deal of its district and month.
LEMMA DealsGrouped ==
  ASSUME NEW deals \in Seq(Silvers), NEW key
  PROVE  /\ Group(deals, key) \in Seq(Silvers)
         /\ Len(Group(deals, key)) = Cardinality(Hits(deals, InRows(key)))
<1> DEFINE opts == [i \in DOMAIN deals |-> {deal \in {deals[i]} : InRow(deal, key)}]
           n == Len(deals)
           group == Group(deals, key)
<1>1. n \in Nat /\ DOMAIN deals = 1..n /\ \A i \in 1..n : deals[i] \in Silvers
    OBVIOUS
<1>2. group = Present(opts)
    BY DEF Group
<1>3. DOMAIN opts = 1..n /\ \A i \in 1..n : opts[i] = {deal \in {deals[i]} : InRow(deal, key)}
    BY <1>1
<1>0. opts = [i \in 1..n |-> opts[i]]
    BY <1>1
<1> HIDE DEF opts, n, group
<1>4. \A i \in 1..n : opts[i] \in SUBSET InRows(key) /\ \A x, y \in opts[i] : x = y
    BY <1>1, <1>3 DEF InRows
<1>5. {i \in 1..n : opts[i] \cap InRows(key) # {}} = Hits(deals, InRows(key))
  <2>1. \A i \in 1..n : opts[i] \cap InRows(key) # {} <=> deals[i] \in InRows(key)
      BY <1>1, <1>3 DEF InRows
  <2> QED
      BY <1>1, <2>1 DEF Hits
<1>6. /\ Present(opts) \in Seq(InRows(key))
      /\ Cardinality(Hits(Present(opts), InRows(key)))
           = Cardinality({i \in 1..n : opts[i] \cap InRows(key) # {}})
  <2> DEFINE X == InRows(key)
             T == InRows(key)
  <2>1. opts \in Optionals(X, n)
      BY <1>0, <1>3, <1>4 DEF Optionals
  <2> HIDE DEF X, T
  <2>3. /\ Present(opts) \in Seq(X)
        /\ Cardinality(Hits(Present(opts), T)) = Cardinality({i \in 1..n : opts[i] \cap T # {}})
      BY <1>1, <2>1, PresentHits
  <2> QED
      BY <2>3 DEF X, T
<1>7. group \in Seq(InRows(key)) /\ Cardinality(Hits(group, InRows(key))) = Cardinality(Hits(deals, InRows(key)))
    BY <1>2, <1>5, <1>6
<1>8. Hits(group, InRows(key)) = 1..Len(group) /\ Len(group) \in Nat
  <2>1. DOMAIN group = 1..Len(group) /\ \A i \in DOMAIN group : group[i] \in InRows(key)
      BY <1>7
  <2> QED
      BY <1>7, <2>1 DEF Hits
<1>9. Cardinality(1..Len(group)) = Len(group)
    BY <1>8, IntervalCount
<1>10. group \in Seq(Silvers)
  <2>1. InRows(key) \subseteq Silvers
      BY DEF InRows
  <2> QED
      BY <1>7, <2>1, SeqMonotonic
<1> QED
    BY <1>7, <1>8, <1>9, <1>10 DEF group

\* What a row of Gold says of the deals it counts.
Summarises(row, count) ==
  /\ row.sale_count > 0 /\ row.sale_count = count
  /\ row.avg_price \in row.min_price..row.max_price
  /\ row.median_price \in row.min_price..row.max_price

LEMMA DealsAggregated ==
  ASSUME NEW deals \in Seq(Silvers), NEW rates, NEW migrations, NEW key
  PROVE  /\ key \in DOMAIN Aggregate(deals, rates, migrations) =>
              Summarises(Aggregate(deals, rates, migrations)[key],
                         Cardinality(Hits(deals, InRows(key))))
         /\ \A gu, month : key = <<gu, month>> /\ Cardinality(Hits(deals, InRows(key))) # 0
              => key \in DOMAIN Aggregate(deals, rates, migrations)
<1> DEFINE gold_ == Aggregate(deals, rates, migrations)
           keys == {<<deal.gu, Period(deal.date)>> : deal \in {d \in ToSet(deals) : Counts(d)}}
           group == Group(deals, key)
           amounts == Amounts(group)
           count == Cardinality(Hits(deals, InRows(key)))
<1>1. DOMAIN gold_ = keys
    BY DEF Aggregate, GroupTransactions
<1>2. group \in Seq(Silvers) /\ Len(group) = count /\ count \in Nat
    BY DealsGrouped, HitsFinite, FS_CardinalityType
<1>3. ASSUME NEW gu, NEW month, key = <<gu, month>>, count # 0 PROVE key \in keys
  <2>1. PICK i \in DOMAIN deals : deals[i] \in InRows(key)
    <3>1. Hits(deals, InRows(key)) # {}
        BY <1>3, FS_EmptySet
    <3> QED
        BY <3>1 DEF Hits
  <2>2. InRow(deals[i], key) /\ deals[i] \in ToSet(deals)
      BY <2>1 DEF InRows, ToSet
  <2> QED
      BY <1>3, <2>2 DEF InRow
<1>4. ASSUME key \in keys PROVE Summarises(gold_[key], count)
  <2>1. count # 0
    <3>1. PICK deal \in ToSet(deals) : Counts(deal) /\ key = <<deal.gu, Period(deal.date)>>
        BY <1>4
    <3>2. PICK i \in DOMAIN deals : deals[i] = deal
        BY DEF ToSet
    <3>3. i \in Hits(deals, InRows(key))
      <4>1. deals[i] \in Silvers /\ InRow(deals[i], key)
          BY <3>1, <3>2 DEF InRow
      <4> QED
          BY <4>1 DEF Hits, InRows
    <3>4. IsFiniteSet(Hits(deals, InRows(key)))
        BY HitsFinite, SMTT(30)
    <3> QED
        BY <3>3, <3>4, FS_EmptySet
  <2>2. /\ gold_[key].sale_count = Len(amounts)
        /\ gold_[key].avg_price = Total(amounts) \div Len(amounts)
        /\ gold_[key].median_price = Median(amounts)
        /\ gold_[key].min_price = Min(ToSet(amounts)) /\ gold_[key].max_price = Max(ToSet(amounts))
      BY <1>4 DEF Aggregate, GroupTransactions
  <2>3. amounts \in Seq(Int) /\ Len(amounts) = count
    <3>1. /\ DOMAIN group = 1..count /\ \A i \in DOMAIN group : group[i].amount \in Int
        BY <1>2, AmountsTyped
    <3>2. amounts = [i \in 1..count |-> group[i].amount]
        BY <3>1 DEF Amounts
    <3> HIDE DEF group, count
    <3> QED
        BY <1>2, <3>1, <3>2
  <2> DEFINE lo == Min(ToSet(amounts))
             hi == Max(ToSet(amounts))
             n == Len(amounts)
  <2> HIDE DEF amounts, gold_, keys
  <2>4. n \in Nat \ {0} /\ DOMAIN amounts = 1..n /\ n = count
      BY <1>2, <2>1, <2>3
  <2>5. ToSet(amounts) \in SUBSET Int /\ ToSet(amounts) # {} /\ IsFiniteSet(ToSet(amounts))
    <3>1. ToSet(amounts) = {amounts[i] : i \in DOMAIN amounts}
        BY DEF ToSet
    <3>2. IsFiniteSet(DOMAIN amounts)
        BY <2>4, IntervalCount
    <3>3. IsFiniteSet({amounts[i] : i \in DOMAIN amounts})
        BY <3>2, RangeFinite
    <3>4. amounts[1] \in ToSet(amounts)
        BY <2>4, <3>1
    <3> QED
        BY <2>3, <3>1, <3>3, <3>4
  <2>6. lo \in Int /\ hi \in Int /\ \A x \in ToSet(amounts) : lo <= x /\ x <= hi
      BY <2>5, Extremes
  <2> HIDE DEF lo, hi, n, count
  <2>7. \A i \in DOMAIN amounts : lo <= amounts[i] /\ amounts[i] <= hi
      BY <2>6 DEF ToSet
  <2>8. Total(amounts) \in Int /\ n * lo <= Total(amounts) /\ Total(amounts) <= n * hi
      BY <2>3, <2>6, <2>7, TotalBetween DEF n
  <2>9. Total(amounts) \div n \in lo..hi
      BY <2>4, <2>6, <2>8, QuotientBetween
  <2>10. Median(amounts) \in lo..hi
    <3>1. amounts # <<>>
        BY <2>4 DEF n
    <3> QED
        BY <2>3, <2>6, <2>7, <3>1, MedianBetween
  <2>11. gold_[key].sale_count > 0 /\ gold_[key].sale_count = count
      BY <2>2, <2>4 DEF n
  <2> QED
      BY <2>2, <2>9, <2>10, <2>11 DEF Summarises, lo, hi, n
<1> QED
    BY <1>1, <1>3, <1>4

\* An answer adds its sales, a fetch that was not answered before.
LEMMA SalesAdded ==
  ASSUME NEW given, NEW fetch, NEW rows, IsFiniteSet(DOMAIN rows),
         \A a \in given : a.fetch # fetch,
         NEW more, more = given \cup {[fetch |-> fetch, rows |-> rows]},
         NEW gu, NEW month, IsFiniteSet(SalesIn(given, gu, month)),
         fetch.source \in {"molit", "fixture"}
  PROVE  /\ IsFiniteSet(SalesIn(more, gu, month))
         /\ Cardinality(SalesIn(more, gu, month))
              = Cardinality(SalesIn(given, gu, month)) + Cardinality(RowsSold(rows, gu, month))
<1> DEFINE answer == [fetch |-> fetch, rows |-> rows]
           now == SalesIn(more, gu, month)
           before == SalesIn(given, gu, month)
           sold == RowsSold(rows, gu, month)
           own == {<<fetch, i>> : i \in sold}
           Part(a) == {<<a.fetch, i>> : i \in {j \in DOMAIN a.rows : SaleOf(a.rows[j], gu, month)}}
<1>1. answer.fetch = fetch /\ answer.rows = rows /\ Part(answer) = own
    BY DEF RowsSold
<1>2. before = UNION {Part(a) : a \in {b \in given : b.fetch.source \in {"molit", "fixture"}}}
    BY DEF SalesIn
<1>3. now = UNION {Part(a) : a \in {b \in given \cup {answer} : b.fetch.source \in {"molit", "fixture"}}}
    BY DEF SalesIn
<1> HIDE DEF answer, now, before, own, Part
<1>4. {b \in given \cup {answer} : b.fetch.source \in {"molit", "fixture"}}
        = {b \in given : b.fetch.source \in {"molit", "fixture"}} \cup {answer}
    BY <1>1
<1>5. now = before \cup own
    BY <1>1, <1>2, <1>3, <1>4
<1>6. IsFiniteSet(sold)
  <2>1. sold \in SUBSET DOMAIN rows /\ IsFiniteSet(DOMAIN rows)
      BY DEF RowsSold
  <2> HIDE DEF sold
  <2> QED
      BY <2>1, FS_Subset
<1>7. IsFiniteSet(own) /\ Cardinality(own) = Cardinality(sold)
  <2> DEFINE f == [i \in sold |-> <<fetch, i>>]
  <2>1. /\ f \in [sold -> own]
        /\ \A i, j \in sold : f[i] = f[j] => i = j
        /\ \A z \in own : \E i \in sold : f[i] = z
    <3> HIDE DEF sold
    <3> QED
        BY DEF own
  <2> HIDE DEF f, sold
  <2> QED
      BY <1>6, <2>1, SameCount
<1>8. before \cap own = {}
  <2>1. \A s \in before : \E a \in given : s[1] = a.fetch
      BY <1>2 DEF Part
  <2>2. \A s \in own : s[1] = fetch
      BY DEF own
  <2> QED
      BY <2>1, <2>2
<1>9. IsFiniteSet(before) /\ Cardinality(before) \in Nat /\ Cardinality(sold) \in Nat
    BY <1>6, FS_CardinalityType DEF before
<1> HIDE DEF sold
<1>10. /\ IsFiniteSet(before \cup own)
       /\ Cardinality(before \cup own) = Cardinality(before) + Cardinality(own) - Cardinality({})
  <2>1. /\ IsFiniteSet(before \cup own)
        /\ Cardinality(before \cup own)
             = Cardinality(before) + Cardinality(own) - Cardinality(before \cap own)
      BY <1>7, <1>9, FS_Union, Zenon
  <2> QED
      BY <1>8, <2>1, Zenon
<1>11. IsFiniteSet(now) /\ Cardinality(now) = Cardinality(before) + Cardinality(sold)
    BY <1>5, <1>7, <1>9, <1>10, FS_EmptySet
<1> QED
    BY <1>11 DEF now, before, answer, sold

\* An answer of BOK or KOSTAT adds none.
LEMMA NothingAdded ==
  ASSUME NEW fetch, fetch.source \notin {"molit", "fixture"}, NEW rows,
         answers' = answers \cup {[fetch |-> fetch, rows |-> rows]}
  PROVE  \A gu, month : SalesIn(answers', gu, month) = SalesIn(answers, gu, month)
<1> DEFINE answer == [fetch |-> fetch, rows |-> rows]
           Dealt(A) == {b \in A : b.fetch.source \in {"molit", "fixture"}}
<1>1. answer.fetch = fetch
    OBVIOUS
<1> HIDE DEF answer
<1>2. Dealt(answers \cup {answer}) = Dealt(answers)
    BY <1>1
<1>3. Dealt(answers') = Dealt(answers)
    BY <1>2 DEF answer
<1> QED
    BY <1>3 DEF SalesIn

\* The fixture's rows are Bronze rows already.
LEMMA FixtureMapped ==
  ASSUME NEW rows \in Seq(FixtureRows)
  PROVE  rows \in Seq(DealRows) /\ MapDeals(rows) = rows
<1>1. ASSUME NEW form \in {"int", "commas", "decimal", "null"}, NEW n \in Int, NEW intLike
      PROVE  Text(form, n) \in Cells /\ SafeStr(Text(form, n), intLike) = Text(form, n)
  <2>1. Text(form, n) \in Cells
      BY <1>1 DEF Text, Cells
  <2>2. Text(form, n).form \notin {"nan", "float"}
      BY <1>1 DEF Text
  <2> QED
      BY <2>1, <2>2, Zenon DEF SafeStr
<1>2. ASSUME NEW row \in FixtureRows PROVE row \in DealRows /\ Bronze(row) = row
  <2>1. PICK g \in Nat, m \in Nat \X Nat, d \in Nat, a \in Nat, b \in Nat, f \in Nat :
          row = FixtureDeal(g, m, d, a, b, f)
      BY <1>2, FixtureRowIs, SMTT(30)
  <2> DEFINE area == Text("decimal", 84990)
             Sound(cell) == cell \in Cells /\ \A intLike : SafeStr(cell, intLike) = cell
  <2>2. /\ Sound(Text("int", g)) /\ Sound(Text("int", m[1])) /\ Sound(Text("int", m[2]))
        /\ Sound(Text("int", d)) /\ Sound(Text("commas", a)) /\ Sound(Text("int", f))
        /\ Sound(Text("int", b))
    <3>1. /\ g \in Int /\ m[1] \in Int /\ m[2] \in Int /\ d \in Int /\ a \in Int /\ f \in Int
          /\ b \in Int
        OBVIOUS
    <3> QED
        BY <1>1, <3>1
  <2>3. Sound(area) /\ Sound(Null)
    <3> DEFINE n == 84990
               z == 0
    <3>1. n \in Int /\ z \in Int
        OBVIOUS
    <3> HIDE DEF n, z
    <3>2. Sound(Text("decimal", n)) /\ Sound(Text("null", z))
        BY <1>1, <3>1
    <3> QED
        BY <3>2 DEF n, z, Null
  <2>4. row = [sgg |-> Text("int", g), year |-> Text("int", m[1]), month |-> Text("int", m[2]),
               day |-> Text("int", d), amount |-> Text("commas", a), area |-> area,
               floor |-> Text("int", f), build |-> Text("int", b), cancel |-> Null]
      BY <2>1 DEF FixtureDeal
  <2> HIDE DEF area
  <2>5. row \in DealRows
      BY <2>2, <2>3, <2>4 DEF DealRows
  <2>6. /\ DOMAIN row = {"sgg", "year", "month", "day", "amount", "area", "floor", "build", "cancel"}
        /\ row = [c \in DOMAIN row |-> row[c]]
      BY <2>4
  <2>7. \A c \in DOMAIN row : Sound(row[c])
    <3>1. /\ Sound(row.sgg) /\ Sound(row.year) /\ Sound(row.month) /\ Sound(row.day)
          /\ Sound(row.amount) /\ Sound(row.area) /\ Sound(row.floor) /\ Sound(row.build)
          /\ Sound(row.cancel)
      <4> HIDE DEF Sound
      <4> QED
          BY <2>2, <2>3, <2>4
    <3> HIDE DEF Sound
    <3> QED
        BY <2>6, <3>1
  <2>8. Bronze(row) = [c \in DOMAIN row |-> row[c]]
      BY <2>7 DEF Bronze
  <2> QED
      BY <2>5, <2>6, <2>8
<1>3. DOMAIN rows = 1..Len(rows) /\ Len(rows) \in Nat /\ \A i \in 1..Len(rows) : rows[i] \in FixtureRows
    OBVIOUS
<1>4. rows = [i \in 1..Len(rows) |-> rows[i]] /\ MapDeals(rows) = [i \in 1..Len(rows) |-> Bronze(rows[i])]
    BY <1>3 DEF MapDeals, Bronze
<1>5. \A i \in 1..Len(rows) : rows[i] \in DealRows /\ Bronze(rows[i]) = rows[i]
    BY <1>2, <1>3
<1>6. MapDeals(rows) = rows
    BY <1>4, <1>5
<1>7. rows \in Seq(DealRows)
  <2> DEFINE n == Len(rows)
  <2> HIDE DEF n
  <2>1. n \in Nat /\ rows \in [1..n -> DealRows]
      BY <1>3, <1>4, <1>5 DEF n
  <2> QED
      BY <2>1
<1> QED
    BY <1>6, <1>7

\* What a district and month of Gold must count, whatever district and month.
Sold(given, gu, month) == Cardinality(SalesIn(given, gu, month))
Summary(metrics) ==
  /\ \A gu, month : SalesIn(answers, gu, month) # {} => <<gu, month>> \in DOMAIN metrics
  /\ \A key \in DOMAIN metrics : Summarises(metrics[key], Sold(answers, key[1], key[2]))

\* The pipeline has every sale of every answer, once, at every stage.
Booked ==
  /\ \A gu, month : IsFiniteSet(SalesIn(answers, gu, month))
  /\ stage = "start" => tables.deals = <<>>
  /\ stage \in {"start", "limit", "call", "backoff", "normalize"} =>
       /\ tables.deals \in Seq(Bronzes)
       /\ \A gu, month :
            Cardinality(Hits(tables.deals, Selling(<<gu, month>>))) = Sold(answers, gu, month)
  /\ stage = "aggregate" =>
       /\ tables.deals \in Seq(Silvers)
       /\ \A gu, month :
            Cardinality(Hits(tables.deals, InRows(<<gu, month>>))) = Sold(answers, gu, month)
  /\ stage = "enrich" => Summary(gold)
  /\ GoldSummarisesSales

LEMMA NothingBooked ==
  ASSUME answers = {}, tables.deals = <<>>, stage = "start" PROVE Booked
<1>1. \A gu, month : SalesIn(answers, gu, month) = {}
    BY DEF SalesIn
<1>2. \A T : Hits(<<>>, T) = {}
    BY DEF Hits
<1>3. <<>> \in Seq(Bronzes)
    OBVIOUS
<1>4. \A gu, month : IsFiniteSet(SalesIn(answers, gu, month)) /\ Sold(answers, gu, month) = 0
    BY <1>1, FS_EmptySet DEF Sold
<1> QED
    BY <1>2, <1>3, <1>4, FS_EmptySet DEF Booked, GoldSummarisesSales

\* An answer with deals brings as many sales as rows that are sold.
LEMMA DealsReceived ==
  ASSUME Booked, stage \in {"start", "call"}, NEW fetch, NEW rows \in Seq(DealRows),
         fetch.source \in {"molit", "fixture"}, fetch \notin Answered,
         answers' = answers \cup {[fetch |-> fetch, rows |-> rows]},
         tables'.deals = tables.deals \o MapDeals(rows), stage' \in {"limit", "normalize"}
  PROVE  Booked'
<1> DEFINE before == tables.deals
           mapped == MapDeals(rows)
<1>1. before \in Seq(Bronzes)
    BY DEF Booked
<1>2. mapped \in Seq(Bronzes)
    BY DealsMapped
<1>3. ASSUME NEW gu, NEW month
      PROVE  /\ IsFiniteSet(SalesIn(answers', gu, month))
             /\ Cardinality(Hits(before \o mapped, Selling(<<gu, month>>)))
                  = Cardinality(SalesIn(answers', gu, month))
  <2> DEFINE T == Selling(<<gu, month>>)
             sold == RowsSold(rows, gu, month)
  <2>1. Len(rows) \in Nat /\ DOMAIN rows = 1..Len(rows)
      OBVIOUS
  <2>2. \A a \in answers : a.fetch # fetch
      BY DEF Answered
  <2>3. IsFiniteSet(SalesIn(answers, gu, month))
      BY DEF Booked
  <2>4. /\ IsFiniteSet(SalesIn(answers', gu, month))
        /\ Cardinality(SalesIn(answers', gu, month))
             = Cardinality(SalesIn(answers, gu, month)) + Cardinality(sold)
    <3> DEFINE more == answers'
    <3>1. more = answers \cup {[fetch |-> fetch, rows |-> rows]}
        OBVIOUS
    <3>2. IsFiniteSet(DOMAIN rows)
        BY <2>1, IntervalCount
    <3> HIDE DEF more
    <3>3. /\ IsFiniteSet(SalesIn(more, gu, month))
          /\ Cardinality(SalesIn(more, gu, month))
               = Cardinality(SalesIn(answers, gu, month)) + Cardinality(RowsSold(rows, gu, month))
        BY <2>2, <2>3, <3>1, <3>2, SalesAdded, SMTT(30)
    <3> QED
        BY <3>3 DEF more
  <2>5. Hits(mapped, T) = sold
      BY DealsMapped
  <2>6. Cardinality(Hits(before, T)) = Cardinality(SalesIn(answers, gu, month))
      BY DEF Booked, Sold
  <2> HIDE DEF before, mapped, T, sold
  <2>7. Cardinality(Hits(before \o mapped, T)) = Cardinality(Hits(before, T)) + Cardinality(Hits(mapped, T))
      BY <1>1, <1>2, ConcatHits
  <2>8. Cardinality(Hits(before \o mapped, T)) = Cardinality(SalesIn(answers', gu, month))
      BY <2>4, <2>5, <2>6, <2>7
  <2> QED
      BY <2>4, <2>8 DEF T
<1>4. before \o mapped \in Seq(Bronzes)
  <2> HIDE DEF before, mapped
  <2> QED
      BY <1>1, <1>2, ConcatElements
<1>5. \A gu, month : SalesIn(answers, gu, month)' = SalesIn(answers', gu, month)
    OBVIOUS
<1>6. \A gu, month : IsFiniteSet(SalesIn(answers, gu, month))'
    BY <1>3, <1>5
<1>7. GoldSummarisesSales'
    BY DEF GoldSummarisesSales
<1>8. tables'.deals \in Seq(Bronzes)
    BY <1>4
<1>9. \A gu, month :
        Cardinality(Hits(tables'.deals, Selling(<<gu, month>>))) = Cardinality(SalesIn(answers', gu, month))
  <2>1. tables'.deals = before \o mapped
      OBVIOUS
  <2> HIDE DEF before, mapped
  <2> QED
      BY <1>3, <2>1, Zenon
<1>10. \A gu, month :
        Cardinality(Hits(tables'.deals, Selling(<<gu, month>>))) = Sold(answers, gu, month)'
    BY <1>9 DEF Sold
<1> QED
    BY <1>6, <1>7, <1>8, <1>10 DEF Booked

LEMMA BookedStep == Planned /\ Kept /\ Clock /\ Prepared /\ Booked /\ [Next]_vars => Booked'
<1> SUFFICES ASSUME Planned, Kept, Clock, Prepared, Booked, [Next]_vars PROVE Booked'
    OBVIOUS
<1>1. ASSUME UNCHANGED <<answers, gold>>, stage' # "done" \/ UNCHANGED <<request, stage>>,
             \/ UNCHANGED <<tables, stage>> \/ stage' = "raised"
             \/ /\ tables'.deals = tables.deals /\ stage \in {"start", "limit", "call", "backoff"}
                /\ stage' \in {"limit", "call", "backoff", "normalize"}
      PROVE  Booked'
  <2>1. \A gu, month : SalesIn(answers, gu, month)' = SalesIn(answers, gu, month)
      BY <1>1
  <2>2. GoldSummarisesSales'
      BY <1>1 DEF Booked, GoldSummarisesSales, SalesOf
  <2>3. \A gu, month : Sold(answers, gu, month)' = Sold(answers, gu, month)
      BY <1>1
  <2>4. \A gu, month : IsFiniteSet(SalesIn(answers, gu, month))'
      BY <2>1 DEF Booked
  <2>5. stage' \in {"start", "limit", "call", "backoff", "normalize"} =>
          /\ tables'.deals \in Seq(Bronzes)
          /\ \A gu, month :
               Cardinality(Hits(tables'.deals, Selling(<<gu, month>>))) = Sold(answers, gu, month)'
      BY <1>1 DEF Booked
  <2>6. stage' = "aggregate" =>
          /\ tables'.deals \in Seq(Silvers)
          /\ \A gu, month :
               Cardinality(Hits(tables'.deals, InRows(<<gu, month>>))) = Sold(answers, gu, month)'
      BY <1>1 DEF Booked
  <2>7. stage' = "enrich" => Summary(gold)'
      BY <1>1 DEF Booked, Summary
  <2>8. stage' = "start" => tables'.deals = <<>>
      BY <1>1 DEF Booked
  <2> QED
      BY <2>2, <2>4, <2>5, <2>6, <2>7, <2>8 DEF Booked
<1>2. ASSUME NEW environment, StartRefused(environment) PROVE Booked'
    BY <1>1, <1>2 DEF StartRefused
<1>3. ASSUME NEW environment, StartLive(environment) PROVE Booked'
    BY <1>1, <1>3 DEF StartLive
<1>4. CASE StartFixture
  <2> DEFINE fetch == Fetch("fixture", 0, <<0, 0>>)
             rows == tables'.deals
  <2>1. /\ stage = "start" /\ stage' = "normalize" /\ tables' = Fixture(request)
        /\ answers' = {[fetch |-> fetch, rows |-> rows]}
      BY <1>4 DEF StartFixture
  <2>2. rows \in Seq(FixtureRows)
      BY <2>1, FixtureDeals DEF Kept
  <2>3. fetch.source = "fixture"
      BY DEF Fetch
  <2> HIDE DEF fetch, rows
  <2>4. rows \in Seq(DealRows) /\ MapDeals(rows) = rows
      BY <2>2, FixtureMapped
  <2>5. answers = {} /\ Answered = {}
      BY <2>1 DEF Kept, Answered
  <2>6. answers' = answers \cup {[fetch |-> fetch, rows |-> rows]}
      BY <2>1, <2>5
  <2>7. tables.deals = <<>>
      BY <2>1 DEF Booked
  <2>8. tables'.deals = tables.deals \o MapDeals(rows)
      BY <2>4, <2>7 DEF rows
  <2> QED
      BY <2>1, <2>3, <2>4, <2>5, <2>6, <2>8, DealsReceived
<1>5. ASSUME NEW error, stage = "call", GiveUp(error) PROVE Booked'
    BY <1>1, <1>5 DEF GiveUp, NextFetch
<1>6. ASSUME NEW ticks, NEW rows \in Responses(Fetching), stage = "call", Answer(rows, ticks)
      PROVE  Booked'
  <2>1. /\ tables' = Received(Fetching, rows) /\ ~Raises(Fetching, rows)
        /\ answers' = answers \cup {[fetch |-> Fetching, rows |-> rows]}
        /\ stage' \in {"limit", "normalize"} /\ UNCHANGED <<request, gold>>
      BY <1>6 DEF Answer, NextFetch
  <2>2. Fetching \in ToSet(plan) /\ plan # <<>>
      BY <1>6, TailInjective DEF Planned, Prepared, Fetching
  <2>3. Fetching \notin Answered
      BY <2>2 DEF Planned
  <2>4. /\ Len(rows) \in Nat /\ DOMAIN rows = 1..Len(rows)
        /\ Fetching.source = "molit" => rows \in Seq(DealRows) \cup Seq([drift : {TRUE}])
      BY <1>6, <2>2, ResponsesAssumption DEF Prepared
  <2>5. Fetching.source \in {"molit", "bok", "kostat"}
    <3> DEFINE X == Fetches(Months(request))
    <3>1. plan \in Seq(X)
        BY DEF Planned
    <3>2. ToSet(plan) \subseteq X
      <4> HIDE DEF X
      <4> QED
          BY <3>1 DEF ToSet
    <3> QED
        BY <2>2, <3>2 DEF Fetches
  <2>6. tables = [deals |-> tables.deals, rates |-> tables.rates, migrations |-> tables.migrations]
      BY DEF Prepared
  <2>7. CASE Fetching.source = "molit"
    <3>1. tables'.deals = tables.deals \o MapDeals(rows)
        BY <2>1, <2>6, <2>7 DEF Received, FetchDeals
    <3>2. rows \in Seq(DealRows)
      <4>1. CASE rows \in Seq([drift : {TRUE}])
        <5> DEFINE D == [drift : {TRUE}]
        <5>0. \A x \in D : DOMAIN x = {"drift"}
            OBVIOUS
        <5> HIDE DEF D
        <5>1. rows \in Seq(D)
            BY <4>1 DEF D
        <5>2. \A i \in DOMAIN rows : DOMAIN rows[i] = {"drift"}
            BY <5>0, <5>1
        <5>3. rows = <<>> \/ 1 \in DOMAIN rows
            BY <2>4, <4>1
        <5>4. rows = <<>>
            BY <2>1, <5>2, <5>3 DEF Raises, Drift
        <5> QED
            BY <5>4
      <4> QED
          BY <2>4, <2>7, <4>1
    <3> HIDE DEF Fetching
    <3> QED
        BY <1>6, <2>1, <2>3, <2>7, <3>1, <3>2, DealsReceived
  <2>8. CASE Fetching.source \in {"bok", "kostat"}
    <3>1. tables'.deals = tables.deals
        BY <2>1, <2>6, <2>8 DEF Received, FetchRates, FetchMigrations
    <3>2. \A gu, month : SalesIn(answers', gu, month) = SalesIn(answers, gu, month)
      <4> DEFINE fetch == Fetching
      <4>1. answers' = answers \cup {[fetch |-> fetch, rows |-> rows]}
          BY <2>1
      <4>2. fetch.source \notin {"molit", "fixture"}
          BY <2>8
      <4> HIDE DEF fetch
      <4> QED
          BY <4>1, <4>2, NothingAdded
    <3>3. \A gu, month : SalesIn(answers, gu, month)' = SalesIn(answers, gu, month)
        BY <3>2
    <3>4. \A gu, month : IsFiniteSet(SalesIn(answers, gu, month))'
        BY <3>3 DEF Booked
    <3>5. \A gu, month :
            Cardinality(Hits(tables'.deals, Selling(<<gu, month>>))) = Sold(answers, gu, month)'
      <4>1. \A gu, month : Cardinality(Hits(tables.deals, Selling(<<gu, month>>))) = Sold(answers, gu, month)
          BY <1>6 DEF Booked
      <4>2. \A gu, month : Sold(answers, gu, month)' = Sold(answers, gu, month)
          BY <3>2 DEF Sold
      <4> QED
          BY <3>1, <4>1, <4>2
    <3>6. tables'.deals \in Seq(Bronzes)
        BY <1>6, <3>1 DEF Booked
    <3> QED
        BY <2>1, <3>4, <3>5, <3>6 DEF Booked, GoldSummarisesSales
  <2> QED
      BY <2>5, <2>7, <2>8
<1>7. ASSUME NEW ticks, stage = "call", Call(ticks) PROVE Booked'
  <2>1. CASE CallFailsForGood(ticks)
      BY <1>5, <1>7, <2>1 DEF CallFailsForGood
  <2>2. CASE CallFails(ticks)
      BY <1>1, <1>5, <1>7, <2>2 DEF CallFails
  <2> QED
      BY <1>6, <1>7, <2>1, <2>2 DEF Call
<1>8. CASE Wait \/ (\E jitter \in 0..(Delay \div 2) : BackOff(jitter))
    BY <1>1, <1>8 DEF Wait, BackOff
<1>9. ASSUME NEW rows, AnswerRefused(rows) PROVE Booked'
    BY <1>1, <1>9 DEF AnswerRefused
<1>10. CASE Normalize
  <2> DEFINE silver == NormalizeBatch(tables.deals, NormalizeDeal)
  <2>1. /\ stage = "normalize" /\ stage' = "aggregate" /\ UNCHANGED answers
        /\ tables'.deals = silver
      BY <1>10 DEF Normalize
  <2>2. tables.deals \in Seq(Bronzes)
      BY <2>1 DEF Booked
  <2>3. silver \in Seq(Silvers)
      BY <2>2, DealsNormalized
  <2>4. ASSUME NEW key
        PROVE  Cardinality(Hits(silver, InRows(key))) = Cardinality(Hits(tables.deals, Selling(key)))
      BY <2>2, DealsNormalized
  <2> HIDE DEF silver
  <2>5. \A gu, month : IsFiniteSet(SalesIn(answers, gu, month))'
      BY <2>1 DEF Booked
  <2>6. \A gu, month :
          Cardinality(Hits(tables'.deals, InRows(<<gu, month>>))) = Sold(answers, gu, month)'
    <3>1. \A gu, month :
            Cardinality(Hits(tables.deals, Selling(<<gu, month>>))) = Sold(answers, gu, month)
        BY <2>1 DEF Booked
    <3>2. \A gu, month :
            Cardinality(Hits(silver, InRows(<<gu, month>>))) = Sold(answers, gu, month)
        BY <2>4, <3>1
    <3>3. \A gu, month : Sold(answers, gu, month)' = Sold(answers, gu, month)
        BY <2>1
    <3> QED
        BY <2>1, <3>2, <3>3
  <2>7. tables'.deals \in Seq(Silvers)
      BY <2>1, <2>3
  <2> QED
      BY <2>1, <2>5, <2>6, <2>7 DEF Booked, GoldSummarisesSales
<1>11. CASE AggregateMonths
  <2> DEFINE metrics == Aggregate(tables.deals, tables.rates, tables.migrations)
  <2>1. /\ stage = "aggregate" /\ stage' = "enrich" /\ UNCHANGED <<tables, answers>>
        /\ gold' = metrics
      BY <1>11 DEF AggregateMonths
  <2>2. /\ tables.deals \in Seq(Silvers)
        /\ \A gu, month :
             Cardinality(Hits(tables.deals, InRows(<<gu, month>>))) = Sold(answers, gu, month)
      BY <2>1 DEF Booked
  <2>3. \A key \in DOMAIN metrics : key = <<key[1], key[2]>>
    <3>1. DOMAIN metrics
            = {<<deal.gu, Period(deal.date)>> : deal \in {d \in ToSet(tables.deals) : Counts(d)}}
        BY DEF Aggregate, GroupTransactions
    <3> QED
        BY <3>1
  <2>4. ASSUME NEW gu, NEW month, SalesIn(answers, gu, month) # {} PROVE <<gu, month>> \in DOMAIN metrics
    <3>1. Sold(answers, gu, month) # 0
        BY <2>4, FS_EmptySet DEF Booked, Sold
    <3>2. Cardinality(Hits(tables.deals, InRows(<<gu, month>>))) # 0
        BY <2>2, <3>1
    <3> QED
        BY <2>2, <3>2, DealsAggregated
  <2>5. ASSUME NEW key \in DOMAIN metrics
        PROVE  Summarises(metrics[key], Sold(answers, key[1], key[2]))
    <3>1. Summarises(metrics[key], Cardinality(Hits(tables.deals, InRows(key))))
        BY <2>2, DealsAggregated
    <3>2. key = <<key[1], key[2]>>
        BY <2>3
    <3>3. Cardinality(Hits(tables.deals, InRows(<<key[1], key[2]>>))) = Sold(answers, key[1], key[2])
        BY <2>2
    <3> HIDE DEF metrics
    <3> QED
        BY <3>1, <3>2, <3>3
  <2> HIDE DEF metrics
  <2>6. Summary(gold)'
      BY <2>1, <2>4, <2>5 DEF Summary
  <2>7. \A gu, month : IsFiniteSet(SalesIn(answers, gu, month))'
      BY <2>1 DEF Booked
  <2> QED
      BY <2>1, <2>6, <2>7 DEF Booked, GoldSummarisesSales
<1>12. CASE Enrich
  <2>1. /\ stage = "enrich" /\ stage' = "done" /\ UNCHANGED <<request, answers>>
        /\ gold' = EnrichTrends(gold)
      BY <1>12 DEF Enrich
  <2>2. DOMAIN gold' = DOMAIN gold /\ \A key \in DOMAIN gold : gold'[key].metrics = gold[key]
      BY <2>1 DEF EnrichTrends
  <2>3. Summary(gold)
      BY <2>1 DEF Booked
  <2>4. \A gu, month : SalesOf(gu, month)' = SalesIn(answers, gu, month)
      BY <2>1 DEF SalesOf, SalesIn
  <2>5. \A gu, month : SalesOf(gu, month)' # {} => <<gu, month>> \in DOMAIN gold'
      BY <2>2, <2>3, <2>4 DEF Summary
  <2>6. ASSUME NEW key \in DOMAIN gold'
        PROVE  /\ gold'[key].metrics.sale_count > 0
               /\ gold'[key].metrics.sale_count = Cardinality(SalesOf(key[1], key[2]))'
               /\ gold'[key].metrics.avg_price \in gold'[key].metrics.min_price..gold'[key].metrics.max_price
               /\ gold'[key].metrics.median_price \in gold'[key].metrics.min_price..gold'[key].metrics.max_price
    <3>1. Summarises(gold[key], Sold(answers, key[1], key[2])) /\ gold'[key].metrics = gold[key]
        BY <2>2, <2>3, <2>6 DEF Summary
    <3>2. Cardinality(SalesOf(key[1], key[2]))' = Sold(answers, key[1], key[2])
        BY <2>4 DEF Sold
    <3> QED
        BY <3>1, <3>2 DEF Summarises
  <2>7. GoldSummarisesSales'
      BY <2>5, <2>6 DEF GoldSummarisesSales
  <2>8. \A gu, month : IsFiniteSet(SalesIn(answers, gu, month))'
      BY <2>1 DEF Booked
  <2> QED
      BY <2>1, <2>7, <2>8 DEF Booked
<1>13. CASE UNCHANGED vars
    BY <1>1, <1>13 DEF vars
<1> QED
    BY <1>2, <1>3, <1>4, <1>7, <1>8, <1>9, <1>10, <1>11, <1>12, <1>13 DEF Next

\* Every sale in an answer of the services, or in the fixture, is counted once
\* in the row of its district and month that aggregate_gold makes, no row
\* counts anything else, and its average and median lie between its lowest and
\* highest price: no deal is lost or counted twice on the way through
\* connectors, normalisation, grouping and trends, however the fetches end.
THEOREM GoldCountsSales == Spec => []GoldSummarisesSales
<1>1. Init => Prepared /\ Booked
  <2> SUFFICES ASSUME Init PROVE Prepared /\ Booked
      OBVIOUS
  <2>1. /\ stage = "start" /\ tables = [deals |-> <<>>, rates |-> <<>>, migrations |-> <<>>]
        /\ answers = {}
      BY DEF Init
  <2>2. <<>> \in Seq({})
      OBVIOUS
  <2>3. Prepared
      BY <2>1, <2>2 DEF Prepared, IsSeq, TrendsAreAdjacent
  <2> QED
      BY <2>1, <2>3, NothingBooked
<1>2. Booked => GoldSummarisesSales
    BY DEF Booked
<1> QED
    BY <1>1, <1>2, PreparedStep, BookedStep, BooksHold, ClockHolds, PTL DEF Spec

-----------------------------------------------------------------------------
(* Every ingest runs out of steps.                                         *)

\* The attempts of the fetches to come, and of one fetch less.
LEMMA AttemptsCounted ==
  ASSUME NEW n \in Nat, n # 0
  PROVE  /\ MaxAttempts * (n - 1) \in Nat
         /\ MaxAttempts * n = MaxAttempts * (n - 1) + MaxAttempts
<1>1. MaxAttempts \in Nat /\ n - 1 \in Nat
    BY LiveIngestAssumption
<1>2. \A a, b \in Nat : a * b \in Nat /\ a * (b + 1) = a * b + a
    OBVIOUS
<1>3. n = (n - 1) + 1
    OBVIOUS
<1> QED
    BY <1>1, <1>2, <1>3

LEMMA StepsFetching ==
  ASSUME Planned, Kept, Clock, stage \in {"limit", "call", "backoff"}
  PROVE  /\ AttemptsLeft \in Nat /\ plan # <<>> /\ Len(plan) \in Nat \ {0}
         /\ StepsLeft = 3 * AttemptsLeft
                        + (IF stage = "limit" THEN 6 ELSE IF stage = "call" THEN 5 ELSE 4)
<1>1. plan # <<>> /\ Len(plan) \in Nat \ {0}
  <2> DEFINE X == Fetches(Months(request))
  <2>1. plan \in Seq(X) /\ plan # <<>>
      BY DEF Planned, Kept
  <2> HIDE DEF X
  <2> QED
      BY <2>1
<1>2. AttemptsLeft \in Nat
  <2>1. MaxAttempts * (Len(plan) - 1) \in Nat
      BY <1>1, AttemptsCounted
  <2>2. MaxAttempts - attempt \in Nat
      BY LiveIngestAssumption DEF Clock
  <2> QED
      BY <2>1, <2>2 DEF AttemptsLeft
<1> QED
    BY <1>1, <1>2 DEF StepsLeft

\* The fetch under way is over: the steps of its other attempts are not made.
LEMMA StepsOfFetch ==
  ASSUME Planned, Kept, Clock, Planned', Kept', Clock', stage = "call", NextFetch
  PROVE  StepsLeft \in Nat /\ StepsLeft' \in Nat /\ StepsLeft' < StepsLeft
<1> DEFINE a == AttemptsLeft
           n == Len(plan)
<1>1. a \in Nat /\ plan # <<>> /\ n \in Nat \ {0} /\ StepsLeft = 3 * a + 5
    BY StepsFetching
<1>2. plan' = Tail(plan) /\ attempt' = 1 /\ stage' = IF Tail(plan) = <<>> THEN "normalize" ELSE "limit"
    BY DEF NextFetch
<1>3. CASE Tail(plan) = <<>>
  <2>1. StepsLeft' = 3
      BY <1>2, <1>3 DEF StepsLeft
  <2> HIDE DEF a
  <2> QED
      BY <1>1, <2>1
<1>4. CASE Tail(plan) # <<>>
  <2>1. Len(plan') = n - 1 /\ Len(plan') \in Nat \ {0}
    <3> DEFINE X == Fetches(Months(request))
    <3>1. plan \in Seq(X) /\ plan # <<>>
        BY <1>1 DEF Planned
    <3> HIDE DEF X
    <3> QED
        BY <1>2, <1>4, <3>1
  <2>2. StepsLeft' = 3 * (AttemptsLeft') + 6 /\ AttemptsLeft' \in Nat
    <3>1. stage' = "limit"
        BY <1>2, <1>4
    <3>2. MaxAttempts * (Len(plan') - 1) \in Nat
        BY <2>1, AttemptsCounted
    <3>3. MaxAttempts - attempt' \in Nat
        BY <1>2, LiveIngestAssumption
    <3> QED
        BY <3>1, <3>2, <3>3 DEF StepsLeft, AttemptsLeft
  <2>3. AttemptsLeft' = MaxAttempts * (n - 2) + (MaxAttempts - 1)
      BY <1>2, <2>1 DEF AttemptsLeft
  <2>4. a = MaxAttempts * (n - 1) + (MaxAttempts - attempt)
      BY DEF AttemptsLeft
  <2>5. MaxAttempts * (n - 1) = MaxAttempts * (n - 2) + MaxAttempts /\ MaxAttempts * (n - 2) \in Nat
    <3> DEFINE m == n - 1
    <3>1. m \in Nat /\ m # 0 /\ m - 1 = n - 2
        BY <1>1, <2>1
    <3> HIDE DEF m
    <3>2. MaxAttempts * m = MaxAttempts * (m - 1) + MaxAttempts /\ MaxAttempts * (m - 1) \in Nat
        BY <3>1, AttemptsCounted
    <3> QED
        BY <3>1, <3>2 DEF m
  <2>6. attempt \in 1..MaxAttempts /\ MaxAttempts \in Nat
      BY LiveIngestAssumption DEF Clock
  <2> DEFINE b == AttemptsLeft'
             p == MaxAttempts * (n - 2)
             q == MaxAttempts * (n - 1)
  <2>7. b = p + (MaxAttempts - 1) /\ a = q + (MaxAttempts - attempt) /\ q = p + MaxAttempts /\ p \in Nat
      BY <2>3, <2>4, <2>5
  <2>8. StepsLeft' = 3 * b + 6 /\ b \in Nat
      BY <2>2
  <2> HIDE DEF a, b, p, q, n
  <2>9. b + 1 <= a
      BY <1>1, <2>6, <2>7, <2>8
  <2> QED
      BY <1>1, <2>8, <2>9
<1> QED
    BY <1>3, <1>4

LEMMA StepsStep ==
  Planned /\ Kept /\ Clock /\ Planned' /\ Kept' /\ Clock' /\ [Next]_vars
    => [StepsLeft' < StepsLeft /\ {StepsLeft, StepsLeft'} \subseteq Nat]_vars
<1> SUFFICES ASSUME Planned, Kept, Clock, Planned', Kept', Clock', Next
             PROVE  StepsLeft \in Nat /\ StepsLeft' \in Nat /\ StepsLeft' < StepsLeft
    OBVIOUS
<1>1. stage = "start" =>
        /\ StepsLeft \in Nat /\ 4 <= StepsLeft
        /\ request.source = "live" /\ Valid(Gus(request), Months(request)) =>
             /\ Len(Plan(Gus(request), Months(request))) \in Nat \ {0}
             /\ StepsLeft = 3 * (MaxAttempts * Len(Plan(Gus(request), Months(request)))) + 4
  <2> SUFFICES ASSUME stage = "start"
               PROVE  /\ StepsLeft \in Nat /\ 4 <= StepsLeft
                      /\ request.source = "live" /\ Valid(Gus(request), Months(request)) =>
                           /\ Len(Plan(Gus(request), Months(request))) \in Nat \ {0}
                           /\ StepsLeft = 3 * (MaxAttempts * Len(Plan(Gus(request), Months(request)))) + 4
      OBVIOUS
  <2> DEFINE gus == Gus(request)
             months == Months(request)
             n == Len(Plan(gus, months))
  <2>1. gus \in Seq(Nat) /\ months \in Seq(Nat \X Nat)
      BY OptionsTyped DEF Kept
  <2>2. Valid(gus, months) => IsInjective(gus) /\ IsInjective(months)
      BY DEF Valid
  <2>3. Valid(gus, months) => n \in Nat \ {0}
    <3> DEFINE X == Fetches(months)
               list == Plan(gus, months)
    <3> HIDE DEF gus, months
    <3>1. Valid(gus, months) => list \in Seq(X) /\ list # <<>>
        BY <2>1, <2>2, PlanInjective
    <3> HIDE DEF X, list
    <3>2. Valid(gus, months) => Len(list) \in Nat \ {0}
        BY <3>1
    <3> QED
        BY <3>2 DEF list
  <2>4. StepsLeft = IF request.source = "live" /\ Valid(gus, months) THEN 3 * (MaxAttempts * n) + 4 ELSE 4
      BY DEF StepsLeft
  <2> HIDE DEF gus, months, n
  <2>5. Valid(gus, months) => MaxAttempts * n \in Nat
    <3>1. \A a, b \in Nat : a * b \in Nat
        OBVIOUS
    <3> QED
        BY <2>3, <3>1, LiveIngestAssumption
  <2>6. StepsLeft \in Nat /\ 4 <= StepsLeft
    <3> DEFINE m == MaxAttempts * n
    <3> HIDE DEF m
    <3> QED
        BY <2>4, <2>5 DEF m
  <2> QED
      BY <2>3, <2>4, <2>6 DEF gus, months, n
<1>2. stage \in {"limit", "call", "backoff"} =>
        /\ AttemptsLeft \in Nat /\ plan # <<>> /\ Len(plan) \in Nat \ {0}
        /\ StepsLeft = 3 * AttemptsLeft
                       + (IF stage = "limit" THEN 6 ELSE IF stage = "call" THEN 5 ELSE 4)
    BY StepsFetching
<1>3. stage' = "raised" => StepsLeft' = 0
    BY DEF StepsLeft
<1>4. ASSUME NEW environment, StartRefused(environment)
      PROVE  StepsLeft \in Nat /\ StepsLeft' \in Nat /\ StepsLeft' < StepsLeft
    BY <1>1, <1>3, <1>4 DEF StartRefused
<1>5. ASSUME NEW environment, StartLive(environment)
      PROVE  StepsLeft \in Nat /\ StepsLeft' \in Nat /\ StepsLeft' < StepsLeft
  <2> DEFINE n == Len(Plan(Gus(request), Months(request)))
             m == MaxAttempts * n
             k == MaxAttempts * (n - 1)
  <2>1. /\ n \in Nat \ {0} /\ StepsLeft = 3 * m + 4
      BY <1>1, <1>5 DEF StartLive
  <2>2. stage' = "limit" /\ attempt' = 1 /\ Len(plan') = n
      BY <1>5 DEF StartLive, Clock
  <2>3. StepsLeft' = 3 * (k + (MaxAttempts - 1)) + 6
      BY <2>2 DEF StepsLeft, AttemptsLeft
  <2>4. k \in Nat /\ m = k + MaxAttempts
    <3> HIDE DEF n
    <3> QED
        BY <2>1, AttemptsCounted
  <2> HIDE DEF n, m, k
  <2> QED
      BY <2>1, <2>3, <2>4, LiveIngestAssumption
<1>6. CASE StartFixture
  <2>1. stage = "start" /\ stage' = "normalize"
      BY <1>6 DEF StartFixture
  <2>2. StepsLeft' = 3
      BY <2>1 DEF StepsLeft
  <2> QED
      BY <1>1, <2>1, <2>2
<1>7. CASE Wait
  <2>1. stage = "limit" /\ stage' = "call" /\ AttemptsLeft' = AttemptsLeft
      BY <1>7 DEF Wait, AttemptsLeft
  <2>2. StepsLeft' = 3 * AttemptsLeft + 5
      BY <2>1 DEF StepsLeft
  <2> QED
      BY <1>2, <2>1, <2>2
<1>8. ASSUME NEW ticks, stage = "call", Call(ticks)
      PROVE  StepsLeft \in Nat /\ StepsLeft' \in Nat /\ StepsLeft' < StepsLeft
  <2>1. CASE NextFetch
      BY <1>8, <2>1, StepsOfFetch
  <2>2. CASE stage' = "backoff" /\ UNCHANGED <<plan, attempt>>
    <3>1. AttemptsLeft' = AttemptsLeft
        BY <2>2 DEF AttemptsLeft
    <3>2. StepsLeft' = 3 * AttemptsLeft + 4
        BY <2>2, <3>1 DEF StepsLeft
    <3> QED
        BY <1>2, <1>8, <3>2
  <2> QED
      BY <1>8, <2>1, <2>2 DEF Call, Answer, CallFailsForGood, CallFails, GiveUp
<1>9. ASSUME NEW rows, AnswerRefused(rows)
      PROVE  StepsLeft \in Nat /\ StepsLeft' \in Nat /\ StepsLeft' < StepsLeft
    BY <1>2, <1>3, <1>9 DEF AnswerRefused
<1>10. ASSUME NEW jitter, BackOff(jitter)
       PROVE  StepsLeft \in Nat /\ StepsLeft' \in Nat /\ StepsLeft' < StepsLeft
  <2>1. stage = "backoff" /\ stage' = "limit" /\ attempt' = attempt + 1 /\ plan' = plan
      BY <1>10 DEF BackOff
  <2>2. Len(plan) \in Nat \ {0} /\ MaxAttempts * (Len(plan) - 1) \in Nat
      BY <1>2, <2>1, AttemptsCounted
  <2> DEFINE a == AttemptsLeft
             b == AttemptsLeft'
             k == MaxAttempts * (Len(plan) - 1)
  <2>3. a = k + (MaxAttempts - attempt) /\ b = k + (MaxAttempts - (attempt + 1)) /\ k \in Nat
      BY <2>1, <2>2 DEF AttemptsLeft
  <2>4. attempt \in 1..MaxAttempts /\ attempt + 1 \in 1..MaxAttempts /\ MaxAttempts \in Nat
      BY <2>1, LiveIngestAssumption DEF Clock
  <2>5. StepsLeft = 3 * a + 4 /\ StepsLeft' = 3 * b + 6
      BY <1>2, <2>1 DEF StepsLeft
  <2> HIDE DEF a, b, k
  <2> QED
      BY <2>3, <2>4, <2>5
<1>11. CASE Normalize \/ AggregateMonths \/ Enrich
    BY <1>11 DEF Normalize, AggregateMonths, Enrich, StepsLeft
<1> QED
    BY <1>4, <1>5, <1>6, <1>7, <1>8, <1>9, <1>10, <1>11 DEF Next

\* Every step of an ingest uses up one of the steps it has: no ingest makes
\* more calls than max_attempts per planned fetch, whatever fails when. With
\* the fairness of one thread that goes on, that is why every ingest ends.
THEOREM IngestRunsOut == Spec => StepsRunOut
  BY StepsStep, BooksHold, ClockHolds, PTL DEF Spec, StepsRunOut
=============================================================================
