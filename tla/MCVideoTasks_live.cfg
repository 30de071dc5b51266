SPECIFICATION FairSpec
CONSTANTS
  Tasks = {t1, t2}
  Servers = {s1, s2}
  NoServer = NoServer
  Exclusive = TRUE
  DbMayFail = FALSE
PROPERTIES EveryTaskFinishes
