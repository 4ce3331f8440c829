SPECIFICATION Spec
CONSTANTS
  Thread = {t1, t2}
  Buf = {b1}
  CBuf = {d1}
  Module = {m1}
  MaxLoads = 1
  WaitMayFail = FALSE
  HostMayDie = FALSE
  NoThread = NoThread
  NoModule = NoModule
PROPERTIES DeathIsReported
