---------------------------- MODULE CompileCache ----------------------------
(***************************************************************************)
(* The persistent caches of compiled modules, shared by every process of a *)
(* user: ModuleCache::get_or_compile ("hex": checked, lowered source) and  *)
(* compile_cached ("native": shared objects).  The two have one protocol:  *)
(* open and lock <key>.lock, look the entry up, build on a miss, write a   *)
(* temporary file and rename it to the entry.  They differ in the lookup:  *)
(* only a hex entry carries its key and a digest that are verified.        *)
(***************************************************************************)
EXTENDS Naturals, FiniteSets

CONSTANTS
  Process,      \* threads and processes that ask for modules
  Key,          \* digests of sources, options and compiler
  Lock,         \* inodes of lock files
  Verified,     \* TRUE for the hex cache, FALSE for the native one
  IOMayFail,    \* file operations of the cache may fail
  MayCrash,     \* processes may be killed
  MayClear,     \* the user deletes the cache directory (README.md:82-85)
  MayTamper,    \* entries may be corrupted from outside
  NoLock, NoProcess,
  Absent, Garbage, Failed   \* no content, damaged content, a build error

ASSUME CacheAssumption ==
  /\ NoLock \notin Lock /\ NoProcess \notin Process
  /\ {Absent, Garbage, Failed} \cap Key = {}
  /\ Absent # Garbage /\ Garbage # Failed /\ Failed # Absent
  /\ {Verified, IOMayFail, MayCrash, MayClear, MayTamper} \subseteq BOOLEAN
  /\ MayTamper => Verified

VARIABLES
  pc,           \* where each process stands
  key,          \* what it asks for
  guard,        \* inode of the lock file it has open
  temp,         \* contents of its temporary file
  result,       \* its module, named by the key it was compiled for
  dir,          \* the cache directory exists
  lockFile,     \* inode of <key>.lock
  holder,       \* who holds the file lock on an inode
  entry         \* contents of <key>.bin or <key>.so

vars == <<pc, key, guard, temp, result, dir, lockFile, holder, entry>>

Location == {"idle", "open", "lock", "read", "build", "create", "write",
             "persist", "done", "crashed"}

Init ==
  /\ pc = [p \in Process |-> "idle"]
  /\ key \in [Process -> Key]
  /\ guard = [p \in Process |-> NoLock]
  /\ temp = [p \in Process |-> Absent]
  /\ result = [p \in Process |-> Absent]
  /\ dir = FALSE
  /\ lockFile = [k \in Key |-> NoLock]
  /\ holder = [l \in Lock |-> NoProcess]
  /\ entry = [k \in Key |-> Absent]

Goto(p, there) == pc' = [pc EXCEPT ![p] = there]

\* Mutant: the lock outlives the file that holds it.
CloseKeepsLock(p) ==
  /\ guard' = [guard EXCEPT ![p] = NoLock]
  /\ UNCHANGED holder

\* The guard's file is closed, and the lock with it if p holds it.
Close(p) ==
  /\ guard' = [guard EXCEPT ![p] = NoLock]
  /\ holder' = [l \in Lock |-> IF holder[l] = p THEN NoProcess ELSE holder[l]]

Request(p, k) ==
  /\ pc[p] = "idle"
  /\ key' = [key EXCEPT ![p] = k]
  /\ Goto(p, "open")
  /\ UNCHANGED <<guard, temp, result, dir, lockFile, holder, entry>>

Unused == {l \in Lock : (\A p \in Process : guard[p] # l) /\ (\A k \in Key : lockFile[k] # l)}

\* create_dir_all, then open or create the lock file.
Open(p) ==
  /\ pc[p] = "open"
  /\ dir' = TRUE
  /\ \E l \in IF lockFile[key[p]] = NoLock THEN Unused ELSE {lockFile[key[p]]} :
       /\ lockFile' = [lockFile EXCEPT ![key[p]] = l]
       /\ guard' = [guard EXCEPT ![p] = l]
  /\ Goto(p, "lock")
  /\ UNCHANGED <<key, temp, result, holder, entry>>

\* Without directory, lock file or lock the cache is not used at all.
Unavailable(p) ==
  /\ IOMayFail \/ MayClear
  /\ pc[p] \in {"open", "lock"}
  /\ dir' \in {dir, TRUE}
  /\ Close(p)
  /\ Goto(p, "build")
  /\ UNCHANGED <<key, temp, result, lockFile, entry>>

\* Mutant: the lock is shared.
AcquireShared(p) ==
  /\ pc[p] = "lock"
  /\ holder' = [holder EXCEPT ![guard[p]] = p]
  /\ Goto(p, "read")
  /\ UNCHANGED <<key, guard, temp, result, dir, lockFile, entry>>

\* Mutant: the entry was looked up before the lock was taken.
AcquireAfterLookup(p) ==
  /\ pc[p] = "lock"
  /\ holder[guard[p]] = NoProcess
  /\ holder' = [holder EXCEPT ![guard[p]] = p]
  /\ Goto(p, "build")
  /\ UNCHANGED <<key, guard, temp, result, dir, lockFile, entry>>

Acquire(p) ==
  /\ pc[p] = "lock"
  /\ holder[guard[p]] = NoProcess
  /\ holder' = [holder EXCEPT ![guard[p]] = p]
  /\ Goto(p, "read")
  /\ UNCHANGED <<key, guard, temp, result, dir, lockFile, entry>>

\* Mutant: the stored key and digest are not compared.
ValidIfPresent(k) == entry[k] # Absent

\* ModuleCache::read compares the stored key and digest; the native cache
\* copies whatever the file holds.
Valid(k) == IF Verified THEN entry[k] = k ELSE entry[k] # Absent

Read(p) ==
  /\ pc[p] = "read"
  /\ \/ /\ Valid(key[p])
        /\ result' = [result EXCEPT ![p] = entry[key[p]]]
        /\ Goto(p, "done")
     \/ /\ ~Valid(key[p]) \/ IOMayFail
        /\ Goto(p, "build") /\ UNCHANGED result
  /\ UNCHANGED <<key, guard, temp, dir, lockFile, holder, entry>>

\* Mutant: the outcome of a failed build is stored too.
BuildStoresFailure(p) ==
  /\ pc[p] = "build"
  /\ result' \in {[result EXCEPT ![p] = key[p]], [result EXCEPT ![p] = Failed]}
  /\ Goto(p, IF guard[p] = NoLock THEN "done" ELSE "create")
  /\ UNCHANGED <<key, guard, temp, dir, lockFile, holder, entry>>

\* A failed build leaves by `?`; without the lock nothing is stored.
Build(p) ==
  /\ pc[p] = "build"
  /\ \/ /\ result' = [result EXCEPT ![p] = key[p]]
        /\ Goto(p, IF guard[p] = NoLock THEN "done" ELSE "create")
     \/ result' = [result EXCEPT ![p] = Failed] /\ Goto(p, "done")
  /\ UNCHANGED <<key, guard, temp, dir, lockFile, holder, entry>>

\* Mutant: the entry itself is opened for writing.
CreateInPlace(p) ==
  /\ pc[p] = "create" /\ dir
  /\ temp' = [temp EXCEPT ![p] = Garbage]
  /\ entry' = [entry EXCEPT ![key[p]] = Garbage]
  /\ Goto(p, "write")
  /\ UNCHANGED <<key, guard, result, dir, lockFile, holder>>

\* The steps of storing: any of them may fail, which drops the temporary.
Create(p) ==
  /\ pc[p] = "create" /\ dir
  /\ temp' = [temp EXCEPT ![p] = Garbage]
  /\ Goto(p, "write")
  /\ UNCHANGED <<key, guard, result, dir, lockFile, holder, entry>>

Write(p) ==
  /\ pc[p] = "write" /\ dir
  /\ temp' = [temp EXCEPT ![p] = result[p]]
  /\ Goto(p, "persist")
  /\ UNCHANGED <<key, guard, result, dir, lockFile, holder, entry>>

Persist(p) ==
  /\ pc[p] = "persist" /\ dir /\ temp[p] # Absent
  /\ entry' = [entry EXCEPT ![key[p]] = temp[p]]
  /\ temp' = [temp EXCEPT ![p] = Absent]
  /\ Goto(p, "done")
  /\ UNCHANGED <<key, guard, result, dir, lockFile, holder>>

StoreFails(p) ==
  /\ pc[p] \in {"create", "write", "persist"}
  /\ IOMayFail \/ ~dir \/ (pc[p] = "persist" /\ temp[p] = Absent)
  /\ temp' = [temp EXCEPT ![p] = Absent]
  /\ Goto(p, "done")
  /\ UNCHANGED <<key, guard, result, dir, lockFile, holder, entry>>

Return(p) ==
  /\ pc[p] = "done"
  /\ Close(p)
  /\ result' = [result EXCEPT ![p] = Absent]
  /\ Goto(p, "idle")
  /\ UNCHANGED <<key, temp, dir, lockFile, entry>>

\* A killed process leaves its temporary file behind; the system closes its
\* files.  Another process may take its place.
Crash(p) ==
  /\ MayCrash /\ pc[p] \notin {"idle", "crashed"}
  /\ Close(p)
  /\ temp' = [temp EXCEPT ![p] = Absent]
  /\ result' = [result EXCEPT ![p] = Absent]
  /\ Goto(p, "crashed")
  /\ UNCHANGED <<key, dir, lockFile, entry>>

Restart(p) ==
  /\ pc[p] = "crashed"
  /\ Goto(p, "idle")
  /\ UNCHANGED <<key, guard, temp, result, dir, lockFile, holder, entry>>

\* The directory is deleted file by file; open lock files outlive their names.
Clear ==
  /\ MayClear /\ dir
  /\ \E locks, entries \in SUBSET Key :
       /\ lockFile' = [k \in Key |-> IF k \in locks THEN NoLock ELSE lockFile[k]]
       /\ entry' = [k \in Key |-> IF k \in entries THEN Absent ELSE entry[k]]
       /\ dir' = (locks # Key \/ entries # Key)
  /\ temp' = [p \in Process |-> Absent]
  /\ UNCHANGED <<pc, key, guard, result, holder>>

\* Damage from outside, or another key's entry copied over this one.
Tamper(k) ==
  /\ MayTamper /\ entry[k] # Absent
  /\ \E c \in (Key \ {k}) \cup {Garbage} : entry' = [entry EXCEPT ![k] = c]
  /\ UNCHANGED <<pc, key, guard, temp, result, dir, lockFile, holder>>

Step(p) ==
  \/ Open(p) \/ Acquire(p) \/ Read(p) \/ Build(p)
  \/ Create(p) \/ Write(p) \/ Persist(p) \/ StoreFails(p) \/ Return(p)

Next ==
  \/ \E p \in Process : Step(p) \/ Unavailable(p) \/ Crash(p) \/ Restart(p) \/ \E k \in Key : Request(p, k)
  \/ Clear
  \/ \E k \in Key : Tamper(k)

\* The compiler terminates, and the system passes a file lock on to its
\* waiters.  Nothing is owed to a request by Unavailable: a wait never fails.
Fairness == \A p \in Process : WF_vars(Step(p)) /\ SF_vars(Acquire(p))

Spec == Init /\ [][Next]_vars
FairSpec == Spec /\ Fairness

-----------------------------------------------------------------------------
\* In particular a build error is never written to a file ("Compilation
\* failures are never cached": module_cache.rs:53).
TypeOK ==
  /\ pc \in [Process -> Location]
  /\ key \in [Process -> Key]
  /\ guard \in [Process -> Lock \cup {NoLock}]
  /\ temp \in [Process -> Key \cup {Absent, Garbage}]
  /\ result \in [Process -> Key \cup {Absent, Garbage, Failed}]
  /\ dir \in BOOLEAN
  /\ lockFile \in [Key -> Lock \cup {NoLock}]
  /\ holder \in [Lock -> Process \cup {NoProcess}]
  /\ entry \in [Key -> Key \cup {Absent, Garbage}]

\* What a request returns was compiled for its own key, or is its own build
\* error; never a partial, corrupted or foreign entry.  For the hex cache even
\* with entries corrupted from outside.
ServedIsRequested ==
  \A p \in Process : pc[p] = "done" => result[p] \in {key[p], Failed}

\* The file under an entry's name is complete and compiled for that key, at
\* every point where a process may be killed ("atomically store").
EntriesAreWhole == \A k \in Key : entry[k] \in {Absent, k}

\* While the holder of a key's lock builds and stores it, no other process
\* publishes that key: competing requests compile once, whatever fails or is
\* killed, as long as nobody deletes the directory ("a per-key file lock
\* serializes competing threads and processes": module_cache.rs:55).
BuilderIsAlone ==
  \A p, q \in Process :
    /\ pc[p] \in {"build", "create", "write", "persist"} /\ guard[p] # NoLock
    /\ pc[q] \in {"build", "create", "write", "persist"} /\ guard[q] # NoLock
    => p = q \/ key[p] # key[q]

\* An entry is not rebuilt while it is valid: a locked build begins only on a
\* miss, and nobody publishes the key before the build is stored.
MissesOnly ==
  \A p \in Process :
    pc[p] \in {"build", "create", "write", "persist"} /\ guard[p] # NoLock
      => ~Valid(key[p])

\* Every request comes to its end, also when the lock's holder is killed.
RequestsEnd == \A p \in Process : pc[p] = "open" ~> pc[p] \in {"done", "crashed"}
=============================================================================
