SPECIFICATION Spec
CONSTANTS
  r1 = r1
  r2 = r2
  a1 = a1
  s1 = s1
  s2 = s2
  Keys <- TeamKeys
  Runs <- ChatKeys
  RunOf <- RunOfDef
  Sessions = {s1, s2}
  NoSession = NoSession
  HostNote = HostNote
  NoTimer = NoTimer
  Ceiling = 1
  Windows = {1}
  MaxWindow = 1
  Happenings = {"crash", "rows", "park", "shells", "notes", "teardown", "argv"}
SYMMETRY Symmetry
INVARIANTS
  IdleHasClock
PROPERTIES
  StoppedCommandsAreTold
  EvictionSparesWork
  EvictionFitsTheCeiling
