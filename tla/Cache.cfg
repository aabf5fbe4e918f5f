SPECIFICATION FairSpec
CONSTANTS
  Keys = {k1, k2}
  Values = {v1, v2}
  Readers = {r1}
  Closers = {c1, c2}
  MaxEntries = 1
  MaxTTL = 1
  Sample = 1
  None = None
  Commands = {d1, d2}
  NoCommand = NoCommand
  Stored = {v1}
  Missing = None
  TTLs = {1}
INVARIANTS
  NeverStale
  OwnReply
  LiveUndisturbed
PROPERTY
  CancelReturns
