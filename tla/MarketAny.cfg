\* Four participants, any policy, one round.
SPECIFICATION Spec
CONSTANTS
  Participants <- AnyFour
  Role <- NoRoles
  CustomPolicy = TRUE
  MaxRounds = 1
  Moves <- CoarseMoves
  Prices = {20}
  Volumes = {15}
  Sentiments = {950}
  Trends = {"flat"}
  Capitals = {20, 50}
  Inventories = {0, 2}
INVARIANTS
  TypeOK
  LoopIsMaximal
  DeltasExplainRound
  Conserved
