SPECIFICATION Spec
CONSTANTS
  Writers = {"v", "w"}
  Readers = {"r"}
  Owner <- MCOwner
  Large = {"e1", "e3"}
  Stamp <- MCStamp
  None = "none"
  MaxClears = 1
  MaxKills = 1
  MaxFaults = 1
INVARIANTS
  TypeOK
  ReadsComplete
  CountsBetween
  DamageBounded
CHECK_DEADLOCK FALSE
