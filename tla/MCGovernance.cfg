SPECIFICATION ChainSpec
CONSTANTS
  Calls = {c1, c2, c3}
  MaxFailures = 2
  HalfOpenMax = 1
  OpenFor = 1
  MaxGen = 4
  MaxInflight = 2
  CustomCode <- MCCustomCode
  HandlerErrors <- MCHandlerErrors
INVARIANTS
  SlotsExact
  AdmittedBounded
  CategorySurvives
PROPERTIES
  ImplementsPolicy
  RejectionsNeutral
  NeverWedged
