SPECIFICATION Spec
CONSTANTS
  Thread = {t1, t2}
  Buf = {b1, b2}
  CBuf = {d1, d2}
  Module = {m1}
  MaxLoads = 1
  WaitMayFail = FALSE
  HostMayDie = FALSE
  NoThread = NoThread
  NoModule = NoModule
SYMMETRY Symmetry
INVARIANTS
  NothingLeftBetweenCalls
  MappedMemoryIsLive
  ConsumedFreedBeforeCopies
  OneOwner
