SPECIFICATION Spec
CONSTANTS
  Tasks = {t1, t2}
  Servers = {s1, s2}
  NoServer = NoServer
  Exclusive = FALSE
  DbMayFail = TRUE
SYMMETRY Symmetry
INVARIANTS UnfinishedRowIsHandled CompletedRowHasResult
PROPERTIES StoredResultIsKept
