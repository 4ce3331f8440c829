SPECIFICATION Spec
CONSTANTS
  Process = {p1, p2, p3}
  Key = {k1, k2}
  Lock = {l1, l2, l3, l4, l5}
  Verified = TRUE
  IOMayFail = FALSE
  MayCrash = TRUE
  MayClear = FALSE
  MayTamper = TRUE
  NoLock = NoLock
  NoProcess = NoProcess
  Absent = Absent
  Garbage = Garbage
  Failed = Failed
SYMMETRY Symmetry
INVARIANTS
  TypeOK
  BuilderIsAlone
  MissesOnly
  ServedIsRequested
