SPECIFICATION RegistryFairSpec
CONSTANTS
  Names = {"db"}
  Probers = {p1, p2}
  MaxGen = 2
  WatchInterval = 1
  Nothing = Nothing
INVARIANT
  ProbeSeesChecks
PROPERTY
  ProbeAnswered
