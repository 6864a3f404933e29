SPECIFICATION FairSpec
CONSTANTS
  Failed = Failed
  AnyPorts = AnyPorts
  Unreadable = Unreadable
  NoFile = NoFile
  Lower <- MCLower
  StarLabels <- MCStarLabels
  Inside <- MCInside
  Clients = {c1}
  Watchers = {poll}
  Users = {"ann", "bob"}
  Groups = {"dev", "Dev"}
  Rules <- MCRules
  Files <- MCFiles
  InitialFile <- MCInitial
  MaxEdits = 1
  MaxWrites = 1
  MaxFaults = 2
  MaxClock = 0
  Queries <- MCQueries
  LdapGroups <- MCLdapGroups
CHECK_DEADLOCK FALSE
INVARIANTS AnswersAreReference PathsAgree
PROPERTIES EditAlone Converges
