SPECIFICATION Spec
CONSTANTS
  w1 = w1
  w2 = w2
  q1 = q1
  q2 = q2
  Writers = {w1, w2}
  Readers = {q1, q2}
  Counts = {1}
  MaxSeq = 1
  ReadWindow = 1
  Unseeded = Unseeded
  Nothing = Nothing
  NoAnswer = NoAnswer
  Happenings = {"drop"}
SYMMETRY Symmetry
INVARIANTS
  ReplayMissesNothing
CHECK_DEADLOCK FALSE
