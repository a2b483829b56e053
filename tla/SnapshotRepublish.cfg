SPECIFICATION Spec
CONSTANTS
  Contents = {c1}
  NoContent = NoContent
  Processes = {p1, p2}
  MaxClock = 1
  MaxCrashes = 0
INVARIANTS
  RepublishSucceeds
