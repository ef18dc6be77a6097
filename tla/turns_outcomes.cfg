SPECIFICATION Spec
CONSTANTS
  t1 = t1
  t2 = t2
  Turns = {t1, t2}
  Nobody = Nobody
  Stopper = Stopper
  Happenings = {"startfail", "dbfail", "host", "silent", "stop", "shutdown", "slow", "crash", "command"}
SYMMETRY Symmetry
INVARIANTS
  TypeOK
  
  
PROPERTIES
  StopSurvivesShutdown
CHECK_DEADLOCK FALSE
