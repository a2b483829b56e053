SPECIFICATION Spec
CONSTANTS
  Builds <- MCBuilds
  Seeds <- MCSeeds
  Plans <- MCPlans
  Selections <- MCSelections
  DefaultMaxRounds = 2
  MaxInvocations = 2
  Able <- MCAble
INVARIANT RunsIndependent
CHECK_DEADLOCK FALSE
