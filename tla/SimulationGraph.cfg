SPECIFICATION Spec
CONSTANTS
  Builds <- MCBuilds
  Seeds <- MCSeeds
  Plans <- MCPlans
  Selections <- MCSelections
  DefaultMaxRounds = 2
  MaxInvocations = 2
  Able <- MCAble
INVARIANTS
  TypeOK
  ReplayAgrees
  PlanServable
  GateAcceptsWriter
  StopReasonTrue
PROPERTY
  NodesRunOut
CHECK_DEADLOCK FALSE
