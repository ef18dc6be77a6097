SPECIFICATION Spec
CONSTANTS
  t1 = t1
  t2 = t2
  Turns = {t1, t2}
  Nobody = Nobody
  Stopper = Stopper
  Happenings = {"early", "overtake", "startfail", "stop", "archive", "delete", "command"}
SYMMETRY Symmetry
INVARIANTS
  SlotMatchesTurn
  StopIsNeverLost
  NoStrayCancel
  
  
PROPERTIES
  NothingBehindACompaction
CHECK_DEADLOCK FALSE
