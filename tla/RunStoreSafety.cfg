SPECIFICATION Spec
CONSTANTS
  Runs = {r1, r2, r3}
  NoRun = NoRun
  Workers = {w1, w2}
  EventLoop = EventLoop
  MaxInflight = 2
  MaxFaults = 1
  MaxStops = 1
SYMMETRY Symmetry
INVARIANTS
  TypeOK
  CapacityRespected
  ReportOnlyForCompleted
  CompletedHasReport
  LeakBounded
  ExecutedOnce
  PageNotContradicted
PROPERTIES
  FinalStays
  ImplementsLifecycle
