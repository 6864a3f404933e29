SPECIFICATION DrainingSpec
CONSTANTS
  PacketInterval = 2
  MaxPackets = 3
INVARIANTS TypeOK NoVerbatimReuse TrafficCounted
PROPERTIES EofEndsRequest TerminationEndsRequest
CHECK_DEADLOCK FALSE
