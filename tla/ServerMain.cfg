SPECIFICATION FairSpec
CONSTANTS
  NExtras = 2
  Provided = {1}
  Callers = {c1}
  NHooks = 3
  None = None
INVARIANTS
  NoReturnMidDrain
  ListenersReleased
  FlushedOnce
PROPERTY
  ShutdownBounded
