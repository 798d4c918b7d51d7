CONSTANTS
  MaxRequests = 3
  MaxAtOnce = 2
  Users = {host, vendor}
  System = System
  NoActor = NoActor
  AppConns = {a1}
  SystemConns = {s1}
  Nobody = Nobody
  NoUser = NoUser
  MaxStatements = 2
  MaxFaults = 1
  Unset = Unset
SPECIFICATION FairSpec
INVARIANTS RowsAreOwn
PROPERTIES EveryoneIsAnswered
CHECK_DEADLOCK FALSE
