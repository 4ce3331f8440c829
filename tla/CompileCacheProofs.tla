------------------------- MODULE CompileCacheProofs -------------------------
(***************************************************************************)
(* The safety of the compile caches, for any number of processes and keys: *)
(* what a request is served is its own module; entries are whole at every  *)
(* moment; and while nobody deletes the directory, the file lock admits    *)
(* one builder per key, who builds only what is missing.                   *)
(***************************************************************************)
EXTENDS CompileCache, TLAPS

\* The locations at which p has a build to store.
Storing == {"create", "write", "persist"}

\* A module to be stored is the one that was asked for, and so is the content
\* of a temporary file that is about to be renamed.
BuiltForKey ==
  \A p \in Process :
    /\ pc[p] \in Storing => result[p] = key[p]
    /\ pc[p] = "persist" => temp[p] \in {Absent, key[p]}

\* The part about contents: what is stored is whole, and what is served has
\* been read from there or built.
ContentInv ==
  /\ TypeOK
  /\ BuiltForKey
  /\ ServedIsRequested
  /\ ~MayTamper => EntriesAreWhole

\* From the lookup to the end of a build that will be stored.
Entered(p) == pc[p] \in Storing \cup {"read"} \/ (pc[p] = "build" /\ guard[p] # NoLock)

\* A process within the critical section holds the lock it has open; one that
\* is outside of the protocol has none open.
GuardIsHeld ==
  \A p \in Process :
    /\ pc[p] \in {"idle", "open", "crashed"} => guard[p] = NoLock
    /\ pc[p] \in {"lock", "read"} \cup Storing => guard[p] # NoLock
    /\ Entered(p) => holder[guard[p]] = p

\* The open lock file is the one under the key's name.
GuardIsNamed == \A p \in Process : guard[p] # NoLock => lockFile[key[p]] = guard[p]

LockInv == GuardIsHeld /\ (~MayClear => GuardIsNamed)

-----------------------------------------------------------------------------
USE DEF Goto, Storing

LEMMA ContentInit == Init => ContentInv
<1> SUFFICES ASSUME Init PROVE ContentInv
  OBVIOUS
<1>1. TypeOK
  BY DEF Init, TypeOK, Location
<1>2. BuiltForKey /\ ServedIsRequested
  BY DEF Init, BuiltForKey, ServedIsRequested
<1>3. EntriesAreWhole
  BY DEF Init, EntriesAreWhole
<1> QED
  BY <1>1, <1>2, <1>3 DEF ContentInv

\* What a lookup accepts is whole: verified, or read from whole entries.
LEMMA ValidIsWhole ==
  ASSUME ContentInv, NEW k \in Key, Valid(k)
  PROVE  entry[k] = k
  BY CacheAssumption DEF ContentInv, Valid, EntriesAreWhole

LEMMA ContentStep == ContentInv /\ [Next]_vars => ContentInv'
<1> SUFFICES ASSUME ContentInv, [Next]_vars PROVE ContentInv'
  OBVIOUS
<1> USE DEF ContentInv
<1>1. ASSUME NEW p \in Process, NEW k \in Key, Request(p, k) PROVE ContentInv'
  BY <1>1 DEF Request, TypeOK, Location, BuiltForKey, ServedIsRequested, EntriesAreWhole
<1>2. ASSUME NEW p \in Process, Open(p) PROVE ContentInv'
  BY <1>2 DEF Open, Unused, TypeOK, Location, BuiltForKey, ServedIsRequested, EntriesAreWhole
<1>3. ASSUME NEW p \in Process, Unavailable(p) PROVE ContentInv'
  BY <1>3 DEF Unavailable, Close, TypeOK, Location, BuiltForKey, ServedIsRequested, EntriesAreWhole
<1>4. ASSUME NEW p \in Process, Acquire(p) PROVE ContentInv'
  BY <1>4 DEF Acquire, TypeOK, Location, BuiltForKey, ServedIsRequested, EntriesAreWhole
<1>5. ASSUME NEW p \in Process, Read(p) PROVE ContentInv'
  <2>1. Valid(key[p]) => entry[key[p]] = key[p]
    BY ValidIsWhole DEF TypeOK
  <2> QED
    BY <1>5, <2>1 DEF Read, TypeOK, Location, BuiltForKey, ServedIsRequested, EntriesAreWhole
<1>6. ASSUME NEW p \in Process, Build(p) PROVE ContentInv'
  BY <1>6 DEF Build, TypeOK, Location, BuiltForKey, ServedIsRequested, EntriesAreWhole
<1>7. ASSUME NEW p \in Process, Create(p) PROVE ContentInv'
  BY <1>7 DEF Create, TypeOK, Location, BuiltForKey, ServedIsRequested, EntriesAreWhole
<1>8. ASSUME NEW p \in Process, Write(p) PROVE ContentInv'
  BY <1>8 DEF Write, TypeOK, Location, BuiltForKey, ServedIsRequested, EntriesAreWhole
<1>9. ASSUME NEW p \in Process, Persist(p) PROVE ContentInv'
  BY <1>9 DEF Persist, TypeOK, Location, BuiltForKey, ServedIsRequested, EntriesAreWhole
<1>10. ASSUME NEW p \in Process, StoreFails(p) PROVE ContentInv'
  BY <1>10 DEF StoreFails, TypeOK, Location, BuiltForKey, ServedIsRequested, EntriesAreWhole
<1>11. ASSUME NEW p \in Process, Return(p) PROVE ContentInv'
  BY <1>11 DEF Return, Close, TypeOK, Location, BuiltForKey, ServedIsRequested, EntriesAreWhole
<1>12. ASSUME NEW p \in Process, Crash(p) PROVE ContentInv'
  BY <1>12 DEF Crash, Close, TypeOK, Location, BuiltForKey, ServedIsRequested, EntriesAreWhole
<1>13. ASSUME NEW p \in Process, Restart(p) PROVE ContentInv'
  BY <1>13 DEF Restart, TypeOK, Location, BuiltForKey, ServedIsRequested, EntriesAreWhole
<1>14. CASE Clear
  BY <1>14 DEF Clear, TypeOK, Location, BuiltForKey, ServedIsRequested, EntriesAreWhole
<1>15. ASSUME NEW k \in Key, Tamper(k) PROVE ContentInv'
  BY <1>15 DEF Tamper, TypeOK, Location, BuiltForKey, ServedIsRequested, EntriesAreWhole
<1>16. CASE UNCHANGED vars
  BY <1>16 DEF vars, TypeOK, Location, BuiltForKey, ServedIsRequested, EntriesAreWhole
<1> QED
  BY <1>1, <1>2, <1>3, <1>4, <1>5, <1>6, <1>7, <1>8, <1>9, <1>10, <1>11, <1>12, <1>13,
     <1>14, <1>15, <1>16 DEF Next, Step

\* Type correctness, for any number of processes, keys and lock files.
THEOREM Types == Spec => []TypeOK
<1>1. ContentInv => TypeOK
  BY DEF ContentInv
<1> QED
  BY <1>1, ContentInit, ContentStep, PTL DEF Spec

\* What a request is served was compiled for its own key, for both caches,
\* whatever fails, is killed or deleted, and for the hex cache also when
\* entries are corrupted (get_or_compile, compile_cached).
THEOREM Served == Spec => [](TypeOK /\ ServedIsRequested)
<1>1. ContentInv => TypeOK /\ ServedIsRequested
  BY DEF ContentInv
<1> QED
  BY <1>1, ContentInit, ContentStep, PTL DEF Spec

\* The files under the entries' names are whole at every moment, unless they
\* are corrupted from outside: temporary file and rename (ModuleCache::write).
THEOREM Whole == Spec => [](MayTamper \/ EntriesAreWhole)
<1>1. ContentInv => MayTamper \/ EntriesAreWhole
  BY DEF ContentInv
<1> QED
  BY <1>1, ContentInit, ContentStep, PTL DEF Spec

-----------------------------------------------------------------------------
LEMMA LockInit == Init => LockInv
  BY DEF Init, LockInv, GuardIsHeld, GuardIsNamed, Entered

LEMMA LockStep == TypeOK /\ LockInv /\ [Next]_vars => LockInv'
<1> SUFFICES ASSUME TypeOK, LockInv, [Next]_vars PROVE LockInv'
  OBVIOUS
<1> USE DEF LockInv
<1>1. ASSUME NEW p \in Process, NEW k \in Key, Request(p, k) PROVE LockInv'
  BY <1>1 DEF Request, TypeOK, GuardIsHeld, GuardIsNamed, Entered
<1>2. ASSUME NEW p \in Process, Open(p) PROVE LockInv'
  <2>1. PICK l \in Lock :
          /\ lockFile[key[p]] # NoLock => l = lockFile[key[p]]
          /\ lockFile' = [lockFile EXCEPT ![key[p]] = l]
          /\ guard' = [guard EXCEPT ![p] = l]
    BY <1>2 DEF Open, Unused, TypeOK
  <2>2. l # NoLock
    BY CacheAssumption
  <2>3. GuardIsHeld'
    BY <1>2, <2>1, <2>2 DEF Open, TypeOK, GuardIsHeld, Entered
  <2>4. ASSUME GuardIsNamed PROVE GuardIsNamed'
    BY <1>2, <2>1, <2>4 DEF Open, TypeOK, GuardIsNamed
  <2> QED
    BY <2>3, <2>4
<1>3. ASSUME NEW p \in Process, Unavailable(p) PROVE LockInv'
  <2>1. GuardIsHeld'
    BY <1>3 DEF Unavailable, Close, TypeOK, GuardIsHeld, Entered
  <2>2. ASSUME GuardIsNamed PROVE GuardIsNamed'
    BY <1>3, <2>2 DEF Unavailable, Close, TypeOK, GuardIsNamed
  <2> QED
    BY <2>1, <2>2
<1>4. ASSUME NEW p \in Process, Acquire(p) PROVE LockInv'
  <2>1. GuardIsHeld'
    BY <1>4, CacheAssumption DEF Acquire, TypeOK, GuardIsHeld, Entered
  <2> QED
    BY <1>4, <2>1 DEF Acquire, GuardIsNamed
<1>5. ASSUME NEW p \in Process, Read(p) PROVE LockInv'
  BY <1>5 DEF Read, TypeOK, GuardIsHeld, GuardIsNamed, Entered
<1>6. ASSUME NEW p \in Process, Build(p) PROVE LockInv'
  BY <1>6 DEF Build, TypeOK, GuardIsHeld, GuardIsNamed, Entered
<1>7. ASSUME NEW p \in Process, Create(p) \/ Write(p) \/ Persist(p) \/ StoreFails(p)
      PROVE  LockInv'
  BY <1>7 DEF Create, Write, Persist, StoreFails, TypeOK, GuardIsHeld, GuardIsNamed, Entered
<1>8. ASSUME NEW p \in Process, Return(p) \/ Crash(p) PROVE LockInv'
  <2>1. GuardIsHeld'
    BY <1>8 DEF Return, Crash, Close, TypeOK, GuardIsHeld, Entered
  <2>2. ASSUME GuardIsNamed PROVE GuardIsNamed'
    BY <1>8, <2>2 DEF Return, Crash, Close, TypeOK, GuardIsNamed
  <2> QED
    BY <2>1, <2>2
<1>9. ASSUME NEW p \in Process, Restart(p) PROVE LockInv'
  BY <1>9 DEF Restart, TypeOK, GuardIsHeld, GuardIsNamed, Entered
<1>10. CASE Clear
  BY <1>10 DEF Clear, GuardIsHeld, GuardIsNamed, Entered
<1>11. ASSUME NEW k \in Key, Tamper(k) PROVE LockInv'
  BY <1>11 DEF Tamper, GuardIsHeld, GuardIsNamed, Entered
<1>12. CASE UNCHANGED vars
  BY <1>12 DEF vars, GuardIsHeld, GuardIsNamed, Entered
<1> QED
  BY <1>1, <1>2, <1>3, <1>4, <1>5, <1>6, <1>7, <1>8, <1>9, <1>10, <1>11, <1>12 DEF Next, Step

\* Processes with the same key have the same lock file open, which one holds.
LEMMA OneHolder ==
  ASSUME LockInv, ~MayClear, NEW p \in Process, NEW q \in Process,
         Entered(p), Entered(q), key[p] = key[q]
  PROVE  p = q
<1>1. guard[p] # NoLock /\ guard[q] # NoLock
  BY DEF LockInv, GuardIsHeld, Entered
<1>2. guard[p] = guard[q]
  BY <1>1 DEF LockInv, GuardIsNamed
<1> QED
  BY <1>2 DEF LockInv, GuardIsHeld

LEMMA LockInvariance == Spec => [](TypeOK /\ LockInv)
<1>1. ContentInv => TypeOK
  BY DEF ContentInv
<1> QED
  BY <1>1, ContentInit, ContentStep, LockInit, LockStep, PTL DEF Spec

\* As long as nobody deletes the directory, competing requests for a key are
\* serialized: one of them builds and stores, also when holders are killed.
THEOREM OneBuilder == Spec => [](MayClear \/ BuilderIsAlone)
<1>1. LockInv => MayClear \/ BuilderIsAlone
  <2> SUFFICES ASSUME LockInv, ~MayClear PROVE BuilderIsAlone
    OBVIOUS
  <2> QED
    BY OneHolder DEF BuilderIsAlone, Entered
<1> QED
  BY <1>1, LockInvariance, PTL

\* Then, and with working file operations, only what is missing is built.
THEOREM BuildsMisses ==
  Spec => []((IOMayFail \/ MayClear \/ MayTamper) \/ MissesOnly)
<1> DEFINE Disturbed == IOMayFail \/ MayClear \/ MayTamper
           Inv == Disturbed \/ MissesOnly
<1>1. Init => Inv
  BY DEF Init, MissesOnly
<1>2. (TypeOK /\ LockInv) /\ Inv /\ [Next]_vars => Inv'
  <2> SUFFICES ASSUME TypeOK, LockInv, ~Disturbed, MissesOnly, [Next]_vars PROVE MissesOnly'
    BY DEF Disturbed
  <2>1. ASSUME NEW p \in Process, Persist(p) PROVE MissesOnly'
    <3> SUFFICES ASSUME NEW q \in Process, Entered(q)', pc'[q] # "read" PROVE ~Valid(key[q])'
      BY DEF MissesOnly, Entered
    <3>1. q # p /\ Entered(q) /\ Entered(p)
      BY <2>1 DEF Persist, TypeOK, Entered
    <3>2. key[q] # key[p]
      BY <3>1, OneHolder
    <3>3. ~Valid(key[q])
      <4>1. guard[q] # NoLock
        BY <3>1 DEF LockInv, GuardIsHeld, Entered
      <4> QED
        BY <2>1, <3>1, <4>1 DEF Persist, TypeOK, MissesOnly, Entered
    <3> QED
      BY <2>1, <3>2, <3>3 DEF Persist, TypeOK, Valid
  <2>2. ASSUME NEW p \in Process, NEW k \in Key, Request(p, k) PROVE MissesOnly'
    BY <2>2 DEF Request, TypeOK, MissesOnly, Valid
  <2>3. ASSUME NEW p \in Process, Open(p) PROVE MissesOnly'
    BY <2>3 DEF Open, TypeOK, MissesOnly, Valid
  <2>4. ASSUME NEW p \in Process, Read(p) PROVE MissesOnly'
    BY <2>4 DEF Read, TypeOK, MissesOnly, Valid
  <2>5. ASSUME NEW p \in Process,
               Acquire(p) \/ Build(p) \/ Create(p) \/ Write(p) \/ StoreFails(p) \/ Restart(p)
        PROVE  MissesOnly'
    BY <2>5 DEF Acquire, Build, Create, Write, StoreFails, Restart, TypeOK, MissesOnly, Valid
  <2>6. ASSUME NEW p \in Process, Return(p) \/ Crash(p) PROVE MissesOnly'
    BY <2>6 DEF Return, Crash, Close, TypeOK, MissesOnly, Valid
  <2>7. CASE UNCHANGED vars
    BY <2>7 DEF vars, MissesOnly, Valid
  <2>8. ~Clear /\ (\A p \in Process : ~Unavailable(p)) /\ (\A k \in Key : ~Tamper(k))
    BY DEF Clear, Unavailable, Tamper
  <2> QED
    BY <2>1, <2>2, <2>3, <2>4, <2>5, <2>6, <2>7, <2>8 DEF Next, Step
<1> QED
  BY <1>1, <1>2, LockInvariance, PTL DEF Spec
=============================================================================
