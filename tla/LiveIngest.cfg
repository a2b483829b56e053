SPECIFICATION Spec
CONSTANTS
  SeoulGuCodes = {11110, 11680}
  Requests <- MCRequests
  Responses <- MCResponses
  MinInterval = 2
  MaxAttempts = 3
  BaseDelay = 2
  MaxDelay = 60
  MaxCall = 1
INVARIANTS
  TypeOK
  CallsSpaced
  GoldSummarisesSales
  TrendsAreAdjacent
PROPERTIES
  IngestEnds
  StepsRunOut
CHECK_DEADLOCK FALSE
