SPECIFICATION FairSpec
CONSTANTS
  Process = {p1, p2}
  Key = {k1}
  Lock = {l1, l2, l3}
  Verified = FALSE
  IOMayFail = TRUE
  MayCrash = TRUE
  MayClear = TRUE
  MayTamper = FALSE
  NoLock = NoLock
  NoProcess = NoProcess
  Absent = Absent
  Garbage = Garbage
  Failed = Failed
INVARIANTS
  EntriesAreWhole
PROPERTIES
  RequestsEnd
