SPECIFICATION Spec
CONSTANTS
  w1 = w1
  w2 = w2
  r1 = r1
  r2 = r2
  k1 = k1
  a1 = a1
  a2 = a2
  a3 = a3
  a4 = a4
  assess = assess
  charge = charge
  coupon = coupon
  None = None
  ErrorOutput = error
  Workers = {w1}
  RunIds = {r1}
  Keys = {k1}
  KeyOf <- OneKey
  Names = {assess, charge, coupon}
  Plans <- Reordered
  Effects = {charge}
  Answers = {a1, a2, a3, a4}
  Stored <- Jsoned
  Unstorable = {a4}
  Verdicts = {"failed", "escalated"}
  Backend = "postgres"
  LocksHold = FALSE
  MaxSteps = 2
  MaxFaults = 3
INVARIANTS
  HistoryIsConsistent
  RepeatsFollowFailure
  RowsFitOnePlan
PROPERTIES
  TerminalIsFinal
CHECK_DEADLOCK FALSE
