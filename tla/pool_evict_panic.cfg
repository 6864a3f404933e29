SPECIFICATION Spec
CONSTANTS
  Addr = {a1, a2}
  Tasks = {t1, t2}
  MaxIdlePerDest = 1
  MaxTotalIdle = 1
  IdleTimeout = 1
  MaxHeld = 2
  MaxStrays = 0
  Wrap = 16
  None = None
SYMMETRY Symmetric
INVARIANT EvictionSafe
