SPECIFICATION FairSpec
CONSTANTS
  Clients = {"c1", "c2"}
  Members = {"c1", "c2"}
  Stays = {"c2"}
  Publishers = {"p1"}
  ClientOf <- ClientOfPublisher
  Messages = {"m1"}
  MaxDeliver = 2
  MaxTroubles = 1
INVARIANTS
  CloseReleases
PROPERTIES
  SettledForCause
  Heals
  AllSettled
