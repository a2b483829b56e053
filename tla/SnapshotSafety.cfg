SPECIFICATION Spec
CONSTANTS
  Contents = {c1, c2}
  NoContent = NoContent
  Processes = {p1, p2, p3}
  MaxClock = 3
  MaxCrashes = 1
SYMMETRY Symmetry
INVARIANTS
  TypeOK
  ManifestIsLast
  ReferencesAgree
  LatestIsFresh
  OnlyCrashesStrand
PROPERTIES
  Immutable
