SPECIFICATION Spec
CONSTANTS
  Users = {alice, bob}
  Conns = {c1, c2, c3, c4}
  Threads = 2
  MaxPerUser = 1
  MaxGlobal = 2
SYMMETRY Symmetric
INVARIANTS TypeOK LimitsOvershoot CountersExact GaugeExact
