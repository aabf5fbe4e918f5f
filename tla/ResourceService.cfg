SPECIFICATION ResourceFairSpec
CONSTANTS
  MaxId = 4
  Owners = {NoOwner, alice}
  NoOwner = NoOwner
  Unset = Unset
  Sizes = {0, 1}
  DefaultPageSize = 2
  Walkers = {w1}
INVARIANTS
  WalkExact
PROPERTY
  WalkEnds
