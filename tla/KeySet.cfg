SPECIFICATION KeySetSpec
CONSTANTS
  Callers = {p1, p2}
  Kids = {a, b}
  NoKid = NoKid
  RefreshInterval = 4
  MinRefreshGap = 2
  FetchTimeout = 1
  MaxVersion = 2
PROPERTIES
  NeverOlder
  AnswerCurrent
