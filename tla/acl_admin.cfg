SPECIFICATION Spec
CONSTANTS
  Failed = Failed
  AnyPorts = AnyPorts
  Unreadable = Unreadable
  NoFile = NoFile
  Lower <- MCLower
  StarLabels <- MCStarLabels
  Inside <- MCInside
  Clients = {c1, c2}
  Watchers = {poll, event}
  Users = {}
  Groups = {"dev"}
  Rules <- FewRules
  Files = {}
  InitialFile <- FewInitial
  MaxEdits = 2
  MaxWrites = 0
  MaxFaults = 0
  MaxClock = 1
  Queries = {}
  LdapGroups = {}
SYMMETRY Symmetry
INVARIANTS TypeOK StaleOnlyByRace
CHECK_DEADLOCK FALSE
