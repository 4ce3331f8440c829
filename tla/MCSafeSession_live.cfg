SPECIFICATION FairSpec
CONSTANTS
  Thread = {t1, t2}
  Buf = {b1}
  CBuf = {d1}
  Module = {m1}
  MaxLoads = 1
  WaitMayFail = TRUE
  HostMayDie = TRUE
  NoThread = NoThread
  NoModule = NoModule
PROPERTIES
  ExchangesEnd
  ChildIsReaped
  OrphanExits
