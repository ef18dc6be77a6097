SPECIFICATION Spec
CONSTANTS
  w1 = w1
  w2 = w2
  q1 = q1
  q2 = q2
  Writers = {w1, w2}
  Readers = {q1, q2}
  Counts = {1, 2}
  MaxSeq = 2
  ReadWindow = 1
  Unseeded = Unseeded
  Nothing = Nothing
  NoAnswer = NoAnswer
  Happenings = {"dbfail", "restart", "destroy", "drop"}
SYMMETRY Symmetry
INVARIANTS
  SeqTypeOK
  NumbersAreUnique
  KeptRowsAreComplete
  AnswersReachTheirAsk
  InOrderRowsAreShown
PROPERTIES
  ImplementsLedger
CHECK_DEADLOCK FALSE
