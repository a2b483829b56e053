-------------------------- MODULE SimulationGraph --------------------------
(***************************************************************************)
(* The graph of a simulation (simulation/graph.py): its nodes run one      *)
(* after the other over one state, append events to the log of the run and *)
(* evidence to the evidence store of the graph.  A graph may be invoked    *)
(* more than once.                                                         *)
(*                                                                         *)
(* A round is what Market says of it, here only whether it trades.  A      *)
(* value that may be missing is a set of at most one element.              *)
(***************************************************************************)
EXTENDS Planning, Replay

CONSTANTS
  Builds,         \* [llm, reader]: what build_simulation_graph is given
  Seeds(_),       \* [snapshot, scenario, roster, max_rounds] a caller may seed
  Plans,          \* the IntakePlans the model may answer with
  Selections,     \* the ScenarioSelections the model may answer with
  DefaultMaxRounds,
  Able(_),        \* bound: of some participants, who may have capital or holdings
  MaxInvocations  \* bound

ASSUME SimulationGraphAssumption ==
  /\ Builds \subseteq [llm : BOOLEAN, reader : BOOLEAN]
  /\ Plans \subseteq IntakePlans /\ Selections \subseteq ScenarioSelections
  /\ DefaultMaxRounds \in Nat /\ MaxInvocations \in Nat \ {0}

\* A caller seeds what the schemas admit and at least one district
\* (_parse_gus_csv); get_coverage raises on a snapshot without rows.
ASSUME SeedsAssumption ==
  \A b \in Builds : \A s \in Seeds(b) :
    /\ Optional(s.snapshot) /\ \A snapshot \in s.snapshot :
                                 snapshot.rows \in Seq(GoldRows) \ {<<>>}
    /\ Optional(s.scenario) /\ s.scenario \subseteq Scenarios
    /\ Optional(s.roster) /\ s.roster \subseteq Rosters
    /\ Optional(s.max_rounds) /\ s.max_rounds \subseteq Nat

VARIABLES
  build, run, seed,  \* the graph, the number of the invocation and its seed
  node,              \* the node that runs next, "end" or "raised"
  plan, scenario, roster, max_rounds, \* missing until a node returns them
  world, participants, round_no, actions, outcome,
  warnings, claims,  \* added to, never replaced
  log,               \* the events of this run
  evidence           \* the evidence store, a record's id is its place

planned == <<plan, scenario, roster, max_rounds>>
rounds == <<world, participants, round_no, actions, outcome>>
reported == <<warnings, claims, evidence>>
caller == <<build, run, seed>>
vars == <<caller, node, planned, rounds, reported, log>>

The(optional) == CHOOSE x \in optional : TRUE
NoPayload == [key \in {} |-> 0]

Init ==
  /\ build \in Builds
  /\ run = 1 /\ seed \in Seeds(build)
  /\ node = "intake_planner"
  /\ plan = {} /\ scenario = seed.scenario /\ roster = seed.roster
  /\ max_rounds = seed.max_rounds
  /\ world = [gu \in {} |-> 0] /\ participants = {} /\ round_no = 0
  /\ actions = NoPayload /\ outcome = {}
  /\ warnings = <<>> /\ claims = <<>> /\ log = <<>> /\ evidence = <<>>

\* What simulate_command seeds for a run over a snapshot.
CliRoster == <<[role |-> "buyer", count |-> 1, holdings |-> <<0, 0>>],
               [role |-> "investor", count |-> 1, holdings |-> <<1, 1>>]>>
CliSeed(snapshot, gus, maxRounds) ==
  LET latest == Coverage(snapshot.rows).max_period
  IN  [snapshot |-> {snapshot}, roster |-> {CliRoster}, max_rounds |-> {maxRounds},
       scenario |-> {[gus |-> gus, start |-> AddMonths(latest, 1),
                      end |-> AddMonths(latest, Between(1, maxRounds, 10)),
                      shocks |-> <<>>]}]

At(name) == node = name
EmitAt(type, round, payload) ==
  log' = Append(log, [type |-> type, round |-> round, payload |-> payload])
Emit(type, payload) == EmitAt(type, round_no, payload)

\* A node that raises ends the invocation: no event, no update.
Raise ==
  /\ node' = "raised"
  /\ UNCHANGED <<caller, planned, rounds, reported, log>>

-----------------------------------------------------------------------------
(* Planning.                                                               *)

StubPlan == [mode |-> "stub", horizon |-> 0]
StubScenario == [gus |-> <<11680>>, start |-> <<2026, 1>>, end |-> <<2026, 12>>,
                 shocks |-> <<>>]

\* generate_structured answers with a model or raises: the call fails, or what
\* it returns is empty, no JSON, or not of the schema.
Replies == {"transport error", "empty", "not json", "off schema", "valid"}
GenerateStructured(models, reply) == IF reply = "valid" THEN models ELSE {}

IntakePlanner ==
  /\ At("intake_planner")
  /\ \/ /\ build.llm
        /\ \E reply \in Replies : \E p \in GenerateStructured(Plans, reply) :
             plan' = {p} /\ Emit("INTAKE_PLANNED", [plan |-> p])
     \/ ~build.llm /\ plan' = {StubPlan} /\ Emit("INTAKE_PLANNED", NoPayload)
  /\ node' = "scenario_builder"
  /\ UNCHANGED <<caller, scenario, roster, max_rounds, rounds, reported>>

BuildsScenario == build.llm /\ build.reader

\* The stub keeps the seeded scenario and says nothing of it in its event.
ScenarioStub ==
  /\ scenario' = IF scenario # {} THEN scenario ELSE {StubScenario}
  /\ Emit("SCENARIO_BUILT", NoPayload)
  /\ UNCHANGED <<roster, max_rounds, warnings>>

ScenarioFrom(selection) ==
  LET built == BuildScenario(The(plan), selection, Coverage(The(seed.snapshot).rows))
  IN  /\ scenario' = {built.scenario}
      /\ roster' = {built.roster}
      /\ max_rounds' = {built.max_rounds}
      /\ warnings' = warnings \o built.warnings
      /\ Emit("SCENARIO_BUILT", built)

ScenarioBuilder ==
  /\ At("scenario_builder")
  /\ \/ /\ BuildsScenario /\ seed.snapshot # {}
        /\ \E reply \in Replies : \E s \in GenerateStructured(Selections, reply) :
             ScenarioFrom(s)
     \/ ~BuildsScenario /\ ScenarioStub
  /\ node' = "world_initializer"
  /\ UNCHANGED <<caller, plan, rounds, claims, evidence>>

StubWorld ==
  [gu \in {11680} |->
     [start |-> [price |-> 2000000, volume |-> 100, trend |-> "flat", sentiment |-> 7000,
                 pressure |-> 0],
      moved |-> 0]]
StubParticipants == {<<"buyer", 1>>, <<"investor", 1>>}

Summary(w) ==
  [gu \in DOMAIN w |-> [median_price |-> w[gu].start.price, volume |-> w[gu].start.volume]]

\* A segment is what it was at the start and the round that last moved it.
WorldFromSnapshot ==
  LET gus == The(scenario).gus
      snapshot == The(seed.snapshot)
      first == BuildWorld(snapshot, gus)
      missing == MissingMetrics(snapshot, gus)
  IN  /\ world' = [gu \in DOMAIN first |-> [start |-> first[gu], moved |-> 0]]
      /\ participants' = BuildParticipants(The(roster))
      /\ warnings' = warnings \o missing
      /\ EmitAt("WORLD_INITIALIZED", 0,
                [world_summary |-> Summary(world'),
                 participant_count |-> Cardinality(BuildParticipants(The(roster))),
                 anchor |-> AddMonths(The(scenario).start, -1), warnings |-> missing])
      /\ UNCHANGED max_rounds

Limit(optional) == IF optional = {} THEN DefaultMaxRounds ELSE The(optional)

WorldStub ==
  /\ world' = StubWorld /\ participants' = StubParticipants
  /\ max_rounds' = {Limit(max_rounds)}
  /\ EmitAt("WORLD_INITIALIZED", 0, [max_rounds |-> Limit(max_rounds)])
  /\ UNCHANGED warnings

\* _should_start_rounds; the routers have a default of their own.
RoutedLimit == IF max_rounds' = {} THEN 3 ELSE The(max_rounds')
StartRounds == IF 0 < RoutedLimit THEN "participant_decider" ELSE "round_summarizer"

WorldInitializer ==
  /\ At("world_initializer")
  /\ \/ build.reader /\ roster # {} /\ seed.snapshot # {} /\ WorldFromSnapshot
     \/ ~build.reader /\ WorldStub
  /\ round_no' = 0 /\ actions' = NoPayload /\ outcome' = {}
  /\ node' = StartRounds
  /\ UNCHANGED <<caller, plan, scenario, roster, claims, evidence>>

\* A reply of the model that raises, a snapshot or baseline report that cannot
\* be read (`readable`), or something the caller has not seeded.
PlanningRaises(reply, readable) ==
  /\ \/ /\ At("intake_planner") /\ build.llm
        /\ GenerateStructured(Plans, reply) = {}
     \/ /\ At("scenario_builder") /\ BuildsScenario
        /\ \/ GenerateStructured(Selections, reply) = {}
           \/ ~readable \/ seed.snapshot = {}
     \/ /\ At("world_initializer") /\ build.reader
        /\ ~readable \/ roster = {} \/ seed.snapshot = {}
  /\ Raise

-----------------------------------------------------------------------------
(* Rounds.                                                                 *)

\* What a participant decides on the segment all look at, in the bands of
\* sentiment that the policies tell apart (0.3, 0.5, 0.6).  The able have what
\* their role is asked for: buyers capital, investors and landlords holdings.
ActionOf(participant, segment, able) ==
  LET role == participant[1]
  IN  CASE role = "buyer" /\ segment.sentiment \in {"fair", "high"}
              /\ segment.trend # "down" /\ participant \in able -> "buy"
        [] role = "investor" /\ segment.trend = "up" /\ segment.sentiment = "high" -> "buy"
        [] role = "investor" /\ segment.trend = "down" /\ participant \in able -> "sell"
        [] role = "landlord" /\ segment.sentiment = "low" /\ participant \in able -> "sell"
        [] OTHER -> "hold"

Segments == [trend : {"up", "flat", "down"}, sentiment : {"low", "dull", "fair", "high"}]

ParticipantDecider ==
  /\ At("participant_decider")
  /\ round_no' = round_no + 1
  /\ \E segment \in Segments, able \in Able(participants) :
       actions' = [p \in participants |-> ActionOf(p, segment, able)]
  /\ EmitAt("DECISIONS_MADE", round_no', [round_no |-> round_no', actions |-> actions'])
  /\ node' = "round_resolver"
  /\ UNCHANGED <<caller, planned, world, participants, outcome, reported>>

Target ==
  IF Head(The(scenario).gus) \in DOMAIN world THEN Head(The(scenario).gus)
  ELSE CHOOSE gu \in DOMAIN world : TRUE

ShouldContinueQuiet(trades) == round_no < RoutedLimit  \* mutant: quiet rounds go on

ShouldContinueOnceMore(trades) == round_no <= RoutedLimit /\ trades # 0  \* mutant

\* continue_gate.should_continue after the round.
ShouldContinue(trades) == round_no < RoutedLimit /\ trades # 0

\* What Market lets a round come to, without the book: sells without buys and
\* holds trade nothing, buys may find no unit or no money.
RoundResolver ==
  /\ At("round_resolver")
  /\ \E trades \in 0..(IF \E p \in participants : actions[p] = "buy" THEN 1 ELSE 0) :
       /\ outcome' = {[round |-> round_no, trades |-> trades]}
       /\ Emit("ROUND_RESOLVED", [round_no |-> round_no, transactions |-> trades])
       /\ max_rounds' = max_rounds
       /\ node' = IF ShouldContinue(trades) THEN "participant_decider"
                  ELSE "round_summarizer"
  /\ world' = IF participants = {} THEN world
              ELSE [world EXCEPT ![Target].moved = round_no]
  /\ UNCHANGED <<caller, plan, scenario, roster, participants, round_no, actions, reported>>

-----------------------------------------------------------------------------
(* Reporting.                                                              *)

RoleSummary ==
  [role \in {p[1] : p \in participants} |->
     Cardinality({p \in participants : p[1] = role})]

RoundSummarizer ==
  /\ At("round_summarizer")
  /\ Emit("SIMULATION_COMPLETED",
          [total_rounds |-> round_no, world_summary |-> world,
           participant_summary |-> RoleSummary, total_warnings |-> Len(warnings)])
  /\ node' = "evidence_builder"
  /\ UNCHANGED <<caller, planned, rounds, reported>>

Record(kind, subject, round, payload) ==
  [kind |-> kind, subject |-> subject, round |-> round, payload |-> payload, run |-> run]

CompletionReason ==
  IF \A o \in outcome : o.trades > 0 THEN "max_rounds" ELSE "market_frozen"

StaleSegmentFact(gu) ==  \* mutant: of the round before
  Record("segment_fact", <<"segment", gu>>, round_no - 1, world[gu])
SegmentFact(gu) == Record("segment_fact", <<"segment", gu>>, round_no, world[gu])

Facts ==
  LET gus == Ascending(DOMAIN world)
      roles == SetToSeq(DOMAIN RoleSummary)
  IN  <<Record("simulation_fact", <<"simulation", run>>, round_no,
               [total_rounds |-> round_no, reason |-> CompletionReason])>>
      \o [i \in DOMAIN gus |-> SegmentFact(gus[i])]
      \o [i \in DOMAIN roles |-> Record("participant_fact", <<"participant_role", roles[i]>>,
                                        round_no, RoleSummary[roles[i]])]
      \o (IF outcome = {} THEN <<>>
          ELSE LET o == The(outcome)
               IN  <<Record("round_fact", <<"round", o.round>>, o.round, o)>>)

EvidenceBuilder ==
  /\ At("evidence_builder")
  /\ evidence' = evidence \o Facts
  /\ node' = "report_writer"
  /\ UNCHANGED <<caller, planned, rounds, warnings, claims, log>>

\* get_by_kind and get_by_subject: they know nothing of runs.
ByKind(kind) == {i \in DOMAIN evidence : evidence[i].kind = kind}
BySubject(subject) == {i \in DOMAIN evidence : evidence[i].subject = subject}

Claim(section, subject, metrics, ids) ==
  [section |-> section, subject |-> subject, metrics |-> metrics, evidence |-> ids,
   status |-> "pending"]

SegmentClaims(gu) ==
  [i \in 1..2 |-> Claim(<<"direction", "volume">>[i], <<"segment", gu>>, world[gu],
                        BySubject(<<"segment", gu>>))]

Written ==
  LET gus == Ascending(DOMAIN world)
      roles == SetToSeq(DOMAIN RoleSummary)
  IN  FlattenSeq([i \in DOMAIN gus |-> SegmentClaims(gus[i])])
      \o [i \in DOMAIN roles |->
            Claim("drivers", <<"participant_role", roles[i]>>, RoleSummary[roles[i]],
                  BySubject(<<"participant_role", roles[i]>>))]
      \o <<Claim("risks", <<"simulation", run>>, Len(The(scenario).shocks),
                 ByKind("simulation_fact") \cup ByKind("round_fact")),
           Claim("summary", <<"simulation", run>>, round_no,
                 ByKind("simulation_fact") \cup BySubject(<<"simulation", run>>))>>

ReportWriter ==
  /\ At("report_writer")
  /\ claims' = claims \o Written
  /\ Emit("REPORT_WRITTEN", [claims |-> Len(Written)])
  /\ node' = "critic"
  /\ UNCHANGED <<caller, planned, rounds, warnings, evidence>>

Critic ==
  /\ At("critic")
  /\ Emit("CRITIC", NoPayload)
  /\ node' = "citation_gate"
  /\ UNCHANGED <<caller, planned, rounds, reported>>

\* Why the gate fails a claim, the first reason that applies.
FailureReasons(claim) ==
  IF claim.evidence = {} THEN <<"missing evidence_ids">>
  ELSE IF ~(claim.evidence \subseteq DOMAIN evidence) THEN <<"missing evidence record">>
  ELSE IF \A i \in claim.evidence : evidence[i].subject # claim.subject THEN
    <<"subject mismatch">>
  ELSE IF \A i \in claim.evidence : evidence[i].round # round_no THEN <<"no evidence for round">>
  ELSE <<>>

\* The claims with their verdicts are dropped: only the warnings go on.
CitationGate ==
  LET reasons == FlattenSeq([i \in DOMAIN claims |-> FailureReasons(claims[i])])
  IN  /\ At("citation_gate")
      /\ warnings' = warnings \o reasons
      /\ Emit("CITATION_GATE", [total |-> Len(claims), failed |-> Len(reasons),
                                passed |-> Len(claims) - Len(reasons)])
      /\ node' = "report_renderer"
      /\ UNCHANGED <<caller, planned, rounds, claims, evidence>>

\* _get_section_key: the claims of each section, wherever it is shown.
InSection(section, shown) == {i \in shown : claims[i].section = section}

ReportRenderer ==
  LET shown == {i \in DOMAIN claims : claims[i].status \in {"passed", "pending"}}
      sections == {claims[i].section : i \in shown}
  IN  /\ At("report_renderer")
      /\ warnings' = warnings \o [i \in 1..(Len(claims) - Cardinality(shown)) |-> "claim blocked"]
      /\ Emit("REPORT_RENDERED",
              [total |-> Len(claims), passed |-> Cardinality(shown),
               sections |-> {InSection(section, shown) : section \in sections}])
      /\ node' = "end"
      /\ UNCHANGED <<caller, planned, rounds, claims, evidence>>

\* The same graph is invoked again: a new state, the same evidence store.
InvokeAgain ==
  /\ node \in {"end", "raised"} /\ run < MaxInvocations
  /\ run' = run + 1 /\ seed' \in Seeds(build)
  /\ node' = "intake_planner"
  /\ plan' = {} /\ scenario' = seed'.scenario /\ roster' = seed'.roster
  /\ max_rounds' = seed'.max_rounds
  /\ world' = [gu \in {} |-> 0] /\ participants' = {} /\ round_no' = 0
  /\ actions' = NoPayload /\ outcome' = {}
  /\ warnings' = <<>> /\ claims' = <<>> /\ log' = <<>>
  /\ UNCHANGED <<build, evidence>>

Next ==
  \/ IntakePlanner \/ ScenarioBuilder \/ WorldInitializer
  \/ \E reply \in Replies, readable \in BOOLEAN : PlanningRaises(reply, readable)
  \/ ParticipantDecider \/ RoundResolver
  \/ RoundSummarizer \/ EvidenceBuilder \/ ReportWriter \/ Critic
  \/ CitationGate \/ ReportRenderer
  \/ InvokeAgain

Spec == Init /\ [][Next]_vars

-----------------------------------------------------------------------------
(* Properties.                                                             *)

Nodes == {"intake_planner", "scenario_builder", "world_initializer",
          "participant_decider", "round_resolver", "round_summarizer",
          "evidence_builder", "report_writer", "critic", "citation_gate",
          "report_renderer", "end", "raised"}

\* The places of the events of a type in the log of the run.
Logged(type) == {i \in DOMAIN log : log[i].type = type}

\* Types, and what every node may count on: rounds stay within 1..8 of a
\* built scenario and within the caller's limit otherwise, the round number
\* counts the decisions of the log, and a node past planning has its state.
TypeOK ==
  /\ node \in Nodes /\ run \in 1..MaxInvocations
  /\ Cardinality(plan) <= 1 /\ Cardinality(scenario) <= 1 /\ Cardinality(roster) <= 1
  /\ Cardinality(max_rounds) <= 1 /\ Cardinality(outcome) <= 1
  /\ round_no = Cardinality(Logged("DECISIONS_MADE"))
  /\ \A n \in max_rounds : round_no <= n
  /\ DOMAIN actions \subseteq participants
  /\ node \notin {"intake_planner", "scenario_builder", "world_initializer", "raised"} =>
       scenario # {} /\ DOMAIN world # {} /\ participants # {}
  /\ \A gu \in DOMAIN world : world[gu].moved \in 0..round_no

\* The number of participants in the first n buckets.
HeadCount(buckets) ==
  LET count[n \in 0..Len(buckets)] == IF n = 0 THEN 0 ELSE count[n - 1] + buckets[n].count
  IN  count

\* At every step of a run planned by the model over a snapshot, the log
\* replays to the state the graph is in, as far as events carry it, and is
\* full once the world is there; every participant of the roster is counted.
\* The log of a run with stub planners does not replay at all, and no log
\* replays strictly from REPORT_WRITTEN on (replay/engine.py).
ReplayAgrees ==
  LET replay == Replayed(log, FALSE)
      unknown == UNION {Logged(type) : type \in
                   {"REPORT_WRITTEN", "CRITIC", "CITATION_GATE", "REPORT_RENDERED"}}
  IN  IF ~BuildsScenario /\ log # <<>> /\ (~build.llm \/ Len(log) > 1)
      THEN replay.raised
      ELSE /\ ~replay.raised
           /\ replay.intake_plan = plan
           /\ node # "end" => replay.warnings = warnings
           /\ Logged("SCENARIO_BUILT") # {} =>
                /\ replay.scenario = scenario /\ replay.roster = roster
                /\ replay.max_rounds = max_rounds
           /\ Full(replay) <=> Logged("WORLD_INITIALIZED") # {}
           /\ Full(replay) =>
                /\ replay.world_summary = {Summary(world)}
                /\ \A buckets \in roster, count \in replay.participant_count :
                     count = HeadCount(buckets)[Len(buckets)]
                /\ replay.anchor = {Coverage(s.rows).max_period : s \in seed.snapshot}
           /\ round_no > 0 => replay.round_no = {round_no} /\ replay.actions = {actions}
           /\ outcome # {} => replay.resolved = {o.trades : o \in outcome}
           /\ Replayed(log, TRUE).raised <=> unknown # {}

\* Whatever the model answers, a scenario it planned can be simulated: every
\* district has rows, it starts after all data it is seeded from, and shocks,
\* roster and rounds are within what the later nodes accept; so its world never
\* rests on fallback values (scenario_builder.py, world_initializer.py).
PlanServable ==
  BuildsScenario /\ DOMAIN world # {} =>
    LET s == The(scenario)
        rows == The(seed.snapshot).rows
    IN  /\ DOMAIN world = ToSet(s.gus) /\ DOMAIN world \subseteq Codes(rows)
        /\ \A i \in DOMAIN rows : Later(s.start, rows[i].period)
        /\ ~Later(s.start, s.end)
        /\ IsInjective(s.shocks) /\ ToSet(s.shocks) \subseteq SupportedShockKeys
        /\ The(plan).mode = "stress" => s.shocks # <<>>
        /\ The(max_rounds) \in 1..8
        /\ participants # {} /\ {p[1] : p \in participants} \subseteq Roles

\* Whatever the run was and whatever other runs left in the evidence store,
\* the gate passes every claim the writer makes, so its verdict, which never
\* reaches the renderer, is the one the report shows.
GateAcceptsWriter ==
  node = "end" =>
    \E i \in Logged("CITATION_GATE"), j \in Logged("REPORT_RENDERED") :
      LET gate == log[i].payload
          report == log[j].payload
      IN  /\ Logged("CITATION_GATE") = {i} /\ Logged("REPORT_RENDERED") = {j}
          /\ gate.passed = gate.total /\ report.passed = gate.passed
          /\ report.total = 2 * Cardinality(DOMAIN world) + Cardinality(DOMAIN RoleSummary) + 2
          /\ UNION report.sections = DOMAIN claims

\* The reason in the evidence is why the loop ended: "market_frozen" means
\* that the last round traded nothing and no earlier one did so,
\* "max_rounds" that the limit was reached.
StopReasonTrue ==
  \A i \in DOMAIN evidence :
    evidence[i].kind = "simulation_fact" /\ evidence[i].run = run =>
      LET resolved == Logged("ROUND_RESOLVED")
          quiet == {k \in resolved : log[k].payload.transactions = 0}
      IN  /\ evidence[i].payload.total_rounds = Cardinality(resolved)
          /\ evidence[i].payload.reason =
               IF quiet = {} THEN "max_rounds" ELSE "market_frozen"
          /\ \A k \in quiet, j \in resolved : j <= k
          /\ quiet = {} => max_rounds \in {{}, {Cardinality(resolved)}}

\* The limit of rounds the routers will go by: what the planner may set, what
\* the world node fills in, or what was seeded or set already.
LimitAhead ==
  IF node \in {"intake_planner", "scenario_builder"} /\ BuildsScenario THEN 8
  ELSE IF max_rounds # {} THEN The(max_rounds)
  ELSE IF build.reader THEN 3 ELSE DefaultMaxRounds

\* The nodes from each one on, of a run with no round left.
From == [intake_planner |-> 9, scenario_builder |-> 8, world_initializer |-> 7,
         participant_decider |-> 6, round_resolver |-> 7, round_summarizer |-> 6,
         evidence_builder |-> 5, report_writer |-> 4, critic |-> 3, citation_gate |-> 2,
         report_renderer |-> 1, end |-> 0, raised |-> 0]
ToRounds == {"intake_planner", "scenario_builder", "world_initializer",
             "participant_decider", "round_resolver"}
NodesLeft ==
  From[node] + (IF node \in ToRounds THEN 2 * (LimitAhead - round_no) ELSE 0)

\* Every node uses up one of the nodes an invocation has left, nine and two for
\* each round of its limit: neither the loop of rounds nor a limit that changes
\* hands between caller, planner and world node lets a run go on for longer.
NodesRunOut ==
  [][node \notin {"end", "raised"} =>
       NodesLeft' < NodesLeft /\ {NodesLeft, NodesLeft'} \subseteq Nat]_vars

\* "Multiple runs with the same graph" are "independent" (test_graph.py): no
\* claim of a run rests on evidence of another one.
RunsIndependent ==
  \A c \in DOMAIN claims : \A i \in claims[c].evidence : evidence[i].run = run
=============================================================================
