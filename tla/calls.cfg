SPECIFICATION Spec
CONSTANTS
  MaxCalls = 3
  MaxDepth = 2
  Requests = {w1, w2}
  Weathers <- CallWeathers
SYMMETRY Symmetry
INVARIANTS
  ResultsArriveOnce
  
  NobodyWaitsForNobody
CHECK_DEADLOCK FALSE
