SPECIFICATION Spec
CONSTANTS
  Failed = Failed
  AnyPorts = AnyPorts
  Unreadable = Unreadable
  NoFile = NoFile
  Lower <- MCLower
  StarLabels <- MCStarLabels
  Inside <- MCInside
  Clients = {c1}
  Watchers = {poll}
  Users = {"ann", "bob"}
  Groups = {"dev", "Dev"}
  Rules <- FewRules
  Files <- MCFiles
  InitialFile <- MCInitial
  MaxEdits = 1
  MaxWrites = 0
  MaxFaults = 1
  MaxClock = 0
  Queries = {}
  LdapGroups = {}
CHECK_DEADLOCK FALSE
INVARIANT ReadersSeeWhole
