SPECIFICATION FairSpec
CONSTANTS
  Lookup <- MCLookup
  Inet6 <- MCInet6
  GroupsOf <- MCGroupsOf
  Allowed <- MCAllowed
  Users = {"ann", "bob"}
  Known = {"ann"}
  Anonymous = "anon"
  Ports = {1, 2}
  NoPort = 0
  MaxPackets = 3
INVARIANTS HandshakeSound SessionsSettled AnswersInvited
PROPERTIES TerminationEnds LeftBehindReaped
CHECK_DEADLOCK FALSE
