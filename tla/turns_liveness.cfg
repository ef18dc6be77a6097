SPECIFICATION FairSpec
CONSTANTS
  t1 = t1
  t2 = t2
  Turns = {t1, t2}
  Nobody = Nobody
  Stopper = Stopper
  Happenings = {"stop", "early", "archive", "delete"}
PROPERTIES
  StopFreesTheRun
  RequestsEnd
CHECK_DEADLOCK FALSE
