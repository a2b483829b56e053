SPECIFICATION Spec
CONSTANTS
  Runs = {r1, r2}
  NoRun = NoRun
  Workers = {w1}
  EventLoop = EventLoop
  MaxInflight = 2
  MaxFaults = 0
  MaxStops = 1
INVARIANT CompletedIsPersisted
