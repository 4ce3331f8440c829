SPECIFICATION Spec
CONSTANTS
  Thread = {t1, t2}
  Buf = {b1}
  CBuf = {d1}
  Module = {m1, m2}
  MaxLoads = 2
  WaitMayFail = TRUE
  HostMayDie = FALSE
  NoThread = NoThread
  NoModule = NoModule
SYMMETRY Symmetry
INVARIANTS
  TypeOK
  AnswersMatchRequests
  HandlesDenoteTheirModule
  TerminationIsReal
PROPERTIES
  TerminationIsFinal
  RemoteExecution
