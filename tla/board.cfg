SPECIFICATION Spec
CONSTANTS
  Cards = {t1, t2}
  Threads = 2
  Cap = 1
  MaxHandlers = 2
  Weathers <- BoardWeathers
SYMMETRY Symmetry
INVARIANTS
  BoardTypeOK
  CapHeld
  
  WorkedCardsHaveARun
  WorkingRunsAreDrawn
  FinishedIsAnnounced
  CardKeepsItsThread

  
CHECK_DEADLOCK FALSE
