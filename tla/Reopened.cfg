SPECIFICATION Spec
CONSTANTS
  w1 = w1
  w2 = w2
  r1 = r1
  r2 = r2
  k1 = k1
  a1 = a1
  a2 = a2
  a3 = a3
  a4 = a4
  assess = assess
  charge = charge
  coupon = coupon
  None = None
  ErrorOutput = error
  Workers = {w1, w2}
  RunIds = {r1}
  Keys = {k1}
  KeyOf <- OneKey
  Names = {assess, charge, coupon}
  Plans <- ChargeOnly
  Effects = {charge}
  Answers = {a1}
  Stored <- Jsoned
  Unstorable = {}
  Verdicts = {"failed"}
  Backend = "sqlite"
  LocksHold = TRUE
  MaxSteps = 2
  MaxFaults = 0
PROPERTIES
  TerminalIsFinal
CHECK_DEADLOCK FALSE
