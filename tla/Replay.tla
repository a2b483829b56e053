------------------------------- MODULE Replay -------------------------------
(***************************************************************************)
(* ReplayEngine (simulation/replay/engine.py): the log of a run folded     *)
(* back into the part of the graph's state that events carry.  An event    *)
(* is [type, round, payload]; what a payload lacks, or what the replayed   *)
(* state does not hold yet, is {}.                                         *)
(***************************************************************************)
EXTENDS Integers, Sequences

Blank ==
  [raised |-> FALSE, intake_plan |-> {}, scenario |-> {}, roster |-> {},
   max_rounds |-> {}, round_no |-> {}, actions |-> {}, resolved |-> {},
   warnings |-> <<>>, skipped |-> 0,
   world_summary |-> {}, participant_count |-> {}, anchor |-> {}]

Carries(payload, keys) == keys \subseteq DOMAIN payload
Warned(payload) == IF Carries(payload, {"warnings"}) THEN payload.warnings ELSE <<>>
Carried(payload, key) == IF Carries(payload, {key}) THEN {payload[key]} ELSE {}

Failed(state) == [state EXCEPT !.raised = TRUE]

HandleIntakePlanned(state, payload) ==
  IF Carries(payload, {"plan"}) THEN [state EXCEPT !.intake_plan = {payload.plan}]
  ELSE Failed(state)

HandleScenarioBuilt(state, payload) ==
  IF Carries(payload, {"scenario", "roster", "max_rounds"})
    THEN [state EXCEPT !.scenario = {payload.scenario}, !.roster = {payload.roster},
                       !.max_rounds = {payload.max_rounds},
                       !.warnings = @ \o Warned(payload)]
    ELSE Failed(state)

KeepOlder(new, old) == IF new = {} THEN old ELSE new

HandleWorldInitialized(state, payload) ==
  [state EXCEPT
     !.warnings = @ \o Warned(payload),
     !.world_summary = KeepOlder(Carried(payload, "world_summary"), @),
     !.participant_count = KeepOlder(Carried(payload, "participant_count"), @),
     !.anchor = KeepOlder(Carried(payload, "anchor"), @)]

HandleDecisionsMade(state, payload) ==
  [state EXCEPT !.round_no = KeepOlder(Carried(payload, "round_no"), @),
                !.actions = KeepOlder(Carried(payload, "actions"), @)]

\* Only the number of trades survives of the outcome.
HandleRoundResolved(state, payload) ==
  [state EXCEPT !.round_no = KeepOlder(Carried(payload, "round_no"), @),
                !.resolved = KeepOlder(Carried(payload, "transactions"), @),
                !.warnings = @ \o Warned(payload)]

HandleSimulationCompleted(state, payload) ==
  [state EXCEPT !.round_no = KeepOlder(Carried(payload, "total_rounds"), @)]

\* The events of the reporting nodes have no handler.
HandleUnknown(state, strict) ==
  IF strict THEN Failed(state) ELSE [state EXCEPT !.skipped = @ + 1]

Handle(state, event, strict) ==
  CASE event.type = "INTAKE_PLANNED" -> HandleIntakePlanned(state, event.payload)
    [] event.type = "SCENARIO_BUILT" -> HandleScenarioBuilt(state, event.payload)
    [] event.type = "WORLD_INITIALIZED" -> HandleWorldInitialized(state, event.payload)
    [] event.type = "DECISIONS_MADE" -> HandleDecisionsMade(state, event.payload)
    [] event.type = "ROUND_RESOLVED" -> HandleRoundResolved(state, event.payload)
    [] event.type = "SIMULATION_COMPLETED" ->
         HandleSimulationCompleted(state, event.payload)
    [] OTHER -> HandleUnknown(state, strict)

\* An exception of a handler ends the replay.
Step(state, event, strict) == IF state.raised THEN state ELSE Handle(state, event, strict)

Replayed(log, strict) ==
  LET after[n \in 0..Len(log)] ==
        IF n = 0 THEN Blank ELSE Step(after[n - 1], log[n], strict)
  IN  after[Len(log)]

Full(state) ==
  /\ state.intake_plan # {} /\ state.scenario # {} /\ state.roster # {}
  /\ state.max_rounds # {} /\ state.world_summary # {}
  /\ state.participant_count # {} /\ state.anchor # {}
=============================================================================
