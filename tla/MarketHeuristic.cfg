SPECIFICATION Spec
CONSTANTS
  Participants <- AnyFour
  Role <- TradingRoles
  CustomPolicy = FALSE
  MaxRounds = 3
  Moves <- FineMoves
  Prices = {20}
  Volumes = {0, 30}
  Sentiments = {250, 300, 480, 520, 620}
  Trends = {"up", "down", "flat"}
  Capitals = {0, 25, 60}
  Inventories = {0, 1}
INVARIANTS
  NeverCrossed
  DownturnIsLast
PROPERTIES
  NobodySells
