SPECIFICATION Spec
CONSTANTS
  r1 = r1
  r2 = r2
  a1 = a1
  s1 = s1
  s2 = s2
  Keys <- ChatKeys
  Runs <- ChatKeys
  RunOf <- RunOfDef
  Sessions = {s1, s2}
  NoSession = NoSession
  HostNote = HostNote
  NoTimer = NoTimer
  Ceiling = 1
  Windows = {1, 2}
  MaxWindow = 2
  Happenings = {"cancel", "crash", "close", "stop", "shutdown", "stale", "sleep", "window"}
SYMMETRY Symmetry
INVARIANTS
  TypeOK
  EveryProcessIsOwned
  ClosedAnnouncedOnce
  ShutdownKeepsNothing
PROPERTIES
  HardStaleIsFinal
