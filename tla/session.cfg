SPECIFICATION FairSpec
CONSTANTS
  Sess = {s1}
  Udp = {}
  Relays = {up, down}
  Apis = {api}
  Enforcers = {}
  Main = main
  Worker = worker
  BatchSize = 2
  MaxPackets = 2
  MaxFailures = 0
  MaxReloads = 0
  MaxCrashes = 0
  MaxShutdowns = 1
INVARIANTS RecordedOnce TerminationCancels TrafficExact
PROPERTIES HandlerClosePersists
CHECK_DEADLOCK FALSE
