SPECIFICATION Spec
CONSTANTS
  t1 = t1
  t2 = t2
  Turns = {t1, t2}
  Nobody = Nobody
  Stopper = Stopper
  Happenings = {"stop", "early", "overtake"}
SYMMETRY Symmetry
PROPERTIES
  StopIsForItsTurn
CHECK_DEADLOCK FALSE
