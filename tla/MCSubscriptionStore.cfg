SPECIFICATION FairSpec
CONSTANTS
  s1 = s1  s2 = s2  u1 = u1  u2 = u2  t1 = t1  t2 = t2
  Ids <- TwoIds
  Urls <- TwoUrls
  Tasks <- TwoTasks
  NoId = NoId  NoUrl = NoUrl  NoList = NoList  NoTask = NoTask
  Commands = {"fetch", "url", "add", "remove", "wipe", "primary", "connect", "disconnect", "ping"}
  MaxFaults = 1
  MaxOps = 3
  MaxStarts = 2
CHECK_DEADLOCK FALSE
INVARIANTS TypeOK
PROPERTIES StoresAgree RemovalIsFinal RunningIsPrimary CallsReturn
