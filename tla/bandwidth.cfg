SPECIFICATION FairSpec
CONSTANTS
  Users = {"ann", "bob"}
  Tasks = {"t1", "t2"}
  UserOf <- MCUserOf
  Nobody = "nobody"
  Configs <- MCConfigs
  Second = 1
INVARIANTS RatesRespected SharesFit
PROPERTIES AllocationEnds
CHECK_DEADLOCK FALSE
