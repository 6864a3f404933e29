SPECIFICATION FairSpec
CONSTANTS
  Addr = {a1}
  Tasks = {t1, t2}
  MaxIdlePerDest = 2
  MaxTotalIdle = 1
  IdleTimeout = 0
  MaxHeld = 2
  MaxStrays = 1
  Wrap = 4
  None = None
INVARIANTS OvershootBounded OldestFirst DestCountersExact ActiveReported
PROPERTIES IdleDrift ExpiredCleared
