SPECIFICATION Spec
CONSTANTS
  Tasks = {t1, t2}
  Servers = {s1, s2}
  NoServer = NoServer
  Exclusive = TRUE
  DbMayFail = TRUE
SYMMETRY Symmetry
INVARIANTS TypeOK LiveCoroutineIsReferenced OutcomeMatchesStatus
PROPERTIES FinishedRowIsFinal BootClosesUnfinishedRows ImplementsLifecycle
