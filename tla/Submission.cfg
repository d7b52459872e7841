SPECIFICATION Spec
CONSTANTS
  r1 = r1
  r2 = r2
  r3 = r3
  r4 = r4
  k1 = k1
  k2 = k2
  c1 = c1
  c2 = c2
  a1 = a1
  None = None
  ErrorOutput = error
  RunIds = {r1, r2, r3, r4}
  Keys = {k1, k2}
  KeyOf <- TwoKeys
  Names = {}
  Answers = {a1}
  Stored <- Same
  MaxSteps = 1
  Callers = {c1, c2}
  MaxTime = 2
SYMMETRY Alike
INVARIANTS
  SubmissionTypeOK
  NobodyIsRefused
  LosersPointAtWinner
  LoserSeesRunInFlight
CHECK_DEADLOCK FALSE
