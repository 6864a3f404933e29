SPECIFICATION Spec
CONSTANTS
  Sess = {u1}
  Udp = {u1}
  Relays = {up}
  Apis = {}
  Enforcers = {acl}
  Main = main
  Worker = worker
  BatchSize = 2
  MaxPackets = 1
  MaxFailures = 1
  MaxReloads = 1
  MaxCrashes = 1
  MaxShutdowns = 1
INVARIANTS EnforcementComplete ActiveRowsAreOurs
PROPERTIES LifeSpec
CHECK_DEADLOCK FALSE
