----------------------- MODULE SessionProtocolProofs -----------------------
(***************************************************************************)
(* The protocol of the session, for any number of threads, buffers,        *)
(* modules and loads: what the two pipes can hold while a thread talks to  *)
(* the child, which ids the child knows, and what follows for answers,     *)
(* handles and memory: the last two layers of the invariant.  And that the *)
(* calls implement remote execution: each program is executed at most once *)
(* per call, success means that it was, and an error of the Runtime or     *)
(* Unavailable kind that it was not.                                       *)
(***************************************************************************)
EXTENDS SafeSessionProofs

-----------------------------------------------------------------------------
(* Layer 4: the exchange between the thread that waits and the child.      *)

\* req is what t sent before it began to wait.
IsAskedBy(t, req) ==
  /\ pc[t] = "newRecv" => req.op = "Initialize"
  /\ pc[t] = "loadRecv" => req.op = "LoadModule" /\ req.module = call[t].module
  /\ pc[t] = "execRecv" => req = ExecuteRequest(t)
  /\ pc[t] = "relRecv" => req.op = "ReleaseOutputs"

\* res is the answer that t waits for.
IsAnswerTo(t, res) ==
  /\ pc[t] = "newRecv" => res.op = "Initialized"
  /\ pc[t] = "loadRecv" => res.op = "Loaded"
  /\ pc[t] = "execRecv" => res.op = "Executed"
  /\ pc[t] = "relRecv" => res.op = "OutputsReleased"
  /\ res.op = "Executed" => /\ res.by = t /\ res.ok # "unknown"
                            /\ res.ok # "ok" => pending = {}
                            /\ res.ok = "ok" /\ child \in Alive => res.outs = pending
  /\ res.op = "OutputsReleased" => pending = {}

\* The request is still in the pipe, after the releases sent before it.
Asked(t) ==
  /\ child = (IF pc[t] = "newRecv" THEN "boot" ELSE "loop")
  /\ toParent = <<>> /\ toChild # <<>>
  /\ \A i \in 1..Len(toChild) : i < Len(toChild) => toChild[i].op = "ReleaseArtifact"
  /\ IsAskedBy(t, toChild[Len(toChild)])
  /\ pc[t] = "newRecv" => Len(toChild) = 1
  /\ pc[t] # "relRecv" => pending = {}

\* The child works on it, or writes the answer.
Served(t) ==
  /\ toChild = <<>> /\ toParent = <<>>
  /\ \/ child = "reply" /\ IsAnswerTo(t, reply)
     \/ child \in Executing /\ pc[t] = "execRecv" /\ job = ExecuteRequest(t)

Answered(t) ==
  /\ toChild = <<>> /\ child \notin {"none", "boot", "reply"} \cup Executing
  /\ Len(toParent) = 1 /\ IsAnswerTo(t, toParent[1])
  /\ toParent[1].op = "Initialized" /\ ~toParent[1].ok => child \notin Alive

Lost(t) == 
  /\ child \notin Alive
  /\ toParent = <<>> \/ (Len(toParent) = 1 /\ toParent[1].op = "Torn")

Exchange(t) == Asked(t) \/ Served(t) \/ Answered(t) \/ Lost(t)

\* Nobody waits: no answer is on its way, and at most releases are.
Quiet ==
  /\ toParent = <<>>
  /\ child \in Alive => child = (IF runtime = "new" THEN "boot" ELSE "loop")
  /\ child = "boot" => toChild = <<>>
  /\ \A i \in 1..Len(toChild) :
       \/ toChild[i].op = "ReleaseArtifact"
       \/ toChild[i].op = "Shutdown" /\ \E t \in Thread : pc[t] = "closeWait"

ExchangeInv ==
  ~HostGone =>
    /\ \A t \in Thread : pc[t] \in Waiting => Exchange(t)
    /\ (\A t \in Thread : pc[t] \notin Waiting) => Quiet
    /\ \A t \in Thread : pc[t] \in {"decode", "copyOut"} /\ child \in Alive => pending = call[t].outs
    /\ (\A t \in Thread : pc[t] \notin {"execRecv", "decode", "copyOut", "relSend", "relRecv"})
         /\ child \in Alive => pending = {}

-----------------------------------------------------------------------------
(* Layer 5: ids are indices of the child's vector that are never reused.   *)

Denotes(id, m) == id < Len(artifacts) /\ artifacts[id + 1] = m

\* No live handle has this id, nor one whose release is still to be sent.
IsFresh(id) ==
  /\ \A a \in arts : a.id # id
  /\ \A t \in Thread : pc[t] \in {"dropLock", "dropSend"} => \A a \in call[t].art : a.id # id

LiveHandles == \A a \in arts : Denotes(a.id, a.module)

DroppedHandles ==
  \A t \in Thread : pc[t] \in {"dropLock", "dropSend"} =>
    \A a \in call[t].art : a.id < Len(artifacts) /\ \A b \in arts : a.id # b.id

ReleasedIds ==
  \A i \in 1..Len(toChild) : toChild[i].op = "ReleaseArtifact" =>
    toChild[i].id < Len(artifacts) /\ \A b \in arts : toChild[i].id # b.id

\* An answer to a load that makes a handle sound.
Fits(t, res) ==
  res.op = "Loaded" /\ res.ok => Denotes(res.id, call[t].module) /\ IsFresh(res.id)

LoadedIds ==
  \A t \in Thread : pc[t] = "loadRecv" =>
    /\ child = "reply" => Fits(t, reply)
    /\ toParent # <<>> => Fits(t, toParent[1])

HandleInv ==
  child \in Alive /\ ~HostGone => LiveHandles /\ DroppedHandles /\ ReleasedIds /\ LoadedIds

\* The handles go with the host.
GoneInv == HostGone => arts = {} /\ runtime # "live"

\* Answers that carry no bad news.
ResultInv == \A t \in Thread : result[t] \notin {"unexpected", "unknown"}

ProtocolInv == MemoryInv /\ ExchangeInv /\ HandleInv /\ GoneInv /\ ResultInv


-----------------------------------------------------------------------------
(* Layer 4 is inductive.                                                   *)

LEMMA HeadTail ==
  ASSUME NEW S, NEW s \in Seq(S), s # <<>>
  PROVE  /\ Head(s) = s[1] /\ Len(s) >= 1 /\ Len(Tail(s)) = Len(s) - 1
         /\ \A i \in 1..Len(Tail(s)) : Tail(s)[i] = s[i + 1]
         /\ Len(s) = 1 => Tail(s) = <<>>
<1>1. /\ Head(s) = s[1] /\ Len(s) >= 1 /\ Len(Tail(s)) = Len(s) - 1
      /\ \A i \in 1..Len(Tail(s)) : Tail(s)[i] = s[i + 1]
  OBVIOUS
<1>2. Len(s) = 1 => Tail(s) = <<>>
  <2> SUFFICES ASSUME Len(s) = 1 PROVE Tail(s) = <<>>
    OBVIOUS
  <2>1. Tail(s) \in Seq(S) /\ Len(Tail(s)) = 0
    OBVIOUS
  <2>2. Tail(s) # <<>> => Len(Tail(s)) \in Nat \ {0}
    BY <2>1, EmptySeq
  <2> QED
    BY <2>1, <2>2
<1> QED
  BY <1>1, <1>2

LEMMA Appended ==
  ASSUME NEW S, NEW s \in Seq(S), NEW x
  PROVE  /\ Append(s, x) # <<>> /\ Len(Append(s, x)) = Len(s) + 1
         /\ Append(s, x)[Len(s) + 1] = x
         /\ \A i \in 1..Len(s) : Append(s, x)[i] = s[i]
         /\ s = <<>> => Len(s) = 0
  OBVIOUS

LEMMA OneEngaged ==
  ASSUME TypeInv, RoleInv, NEW t \in Thread, NEW u \in Thread, pc[t] \in Engaged, pc[u] \in Engaged
  PROVE  t = u
<1> USE Typed DEF RoleInv
<1>1. CASE pc[t] \in Locked /\ pc[u] \in Locked
  BY <1>1 DEF MutexIsHeld
<1>2. CASE pc[t] \in Creating \/ pc[u] \in Creating
  BY <1>2 DEF CreatorIsAlone, Engaged, Creating, Locked, Closing
<1>3. CASE pc[t] \in Closing \/ pc[u] \in Closing
  BY <1>3 DEF CloserIsLast, Engaged, Creating, Locked, Closing
<1> QED
  BY <1>1, <1>2, <1>3 DEF Engaged

LEMMA WaitersAreEngaged == Waiting \subseteq Engaged
  BY DEF Waiting, Engaged, Locked, Creating

LEMMA GoneStays == HostGone /\ [Next]_vars => HostGone'
<1> SUFFICES ASSUME HostGone, [Next]_vars PROVE HostGone'
  OBVIOUS
<1>1. ASSUME NEW t \in Thread, Host(t) \/ Caller(t) PROVE FALSE
  BY <1>1 DEF HostGone, Host, Caller, NewSpawn, NewSend, NewRecv, LoadLock, LoadSend, LoadRecv, ExecLock,
     ExecSend, ExecRecv, DecodeImport, DecodeCopy, ReleaseSend, ReleaseRecv, Return, DropLock,
     DropSend, DropRef, DropRuntime, CloseSend, CloseWait, MemNew, MemDrop, CallLoad, CallExec,
     DropArtifact
<1>2. Child \/ ChildCrash => HostGone'
  BY ChildKeepsRoles DEF HostGone
<1>3. HostDies => HostGone'
  BY DEF HostDies
<1>4. UNCHANGED vars => HostGone'
  BY DEF vars, hostVars, HostGone
<1> QED
  BY StepCases, <1>1, <1>2, <1>3, <1>4

Executors == {"execRecv", "decode", "copyOut", "relSend", "relRecv"}

LEMMA NoneExecutes ==
  ASSUME TypeInv, RoleInv, ExchangeInv, ~HostGone, child \in Alive,
         NEW t \in Thread, pc[t] \in Engaged \ Executors
  PROVE  pending = {}
<1>1. \A u \in Thread : pc[u] \notin Executors
  BY OneEngaged DEF Executors, Engaged, Locked
<1> QED
  BY <1>1 DEF ExchangeInv, Executors

\* The child works for the thread that waits ...
LEMMA WaiterStep ==
  ASSUME TypeInv, RoleInv, UNCHANGED <<pc, call, runtime>>,
         NEW t \in Thread, pc[t] \in Waiting, Exchange(t)',
         pc[t] \in {"execRecv", "relRecv"} \/ (child' \in Alive => pending' = {})
  PROVE  ExchangeInv'
<1>1. \A u \in Thread : pc[u] \in Engaged => u = t
  BY OneEngaged, WaitersAreEngaged
<1>2. \A u \in Thread : pc'[u] \in Waiting => Exchange(u)'
  BY <1>1, WaitersAreEngaged
<1>3. \A u \in Thread : pc'[u] \notin {"decode", "copyOut"}
  BY <1>1 DEF Engaged, Locked, Waiting
<1> QED
  BY <1>2, <1>3 DEF ExchangeInv, Waiting

\* ... or for nobody.
LEMMA QuietStep ==
  ASSUME ExchangeInv, ~HostGone, UNCHANGED <<pc, call>>, \A u \in Thread : pc[u] \notin Waiting, Quiet',
         child' \in Alive => child \in Alive /\ pending' = pending
  PROVE  ExchangeInv'
  BY DEF ExchangeInv

\* What a request at the head of the pipe says of the thread that waits.
LEMMA TakenIsAsked ==
  ASSUME TypeInv, NEW t \in Thread, pc[t] \in Waiting, Asked(t), Head(toChild).op # "ReleaseArtifact"
  PROVE  /\ Len(toChild) = 1 /\ Tail(toChild) = <<>> /\ IsAskedBy(t, Head(toChild))
         /\ Head(toChild).op \in {"Initialize", "LoadModule", "Execute", "ReleaseOutputs"}
<1>1. Head(toChild) = toChild[1] /\ Len(toChild) >= 1 /\ Len(toChild) \in Nat
  BY HeadTail, Typed DEF Asked
<1>2. Len(toChild) = 1
  <2>1. ~(1 < Len(toChild))
    BY <1>1 DEF Asked
  <2>2. \A n \in Nat : n >= 1 /\ ~(1 < n) => n = 1
    OBVIOUS
  <2> QED
    BY <1>1, <2>1, <2>2
<1>3. Tail(toChild) = <<>>
  BY <1>2, HeadTail, Typed DEF Asked
<1> QED
  BY <1>1, <1>2, <1>3 DEF Asked, IsAskedBy, ExecuteRequest, Waiting

LEMMA HeadIsAsked ==
  ASSUME TypeInv, ExchangeInv, ~HostGone, toChild # <<>>, child \in {"boot", "loop"},
         Head(toChild).op \notin {"ReleaseArtifact", "Shutdown"} \/ child = "boot"
  PROVE  \E t \in Thread : /\ pc[t] \in Waiting /\ Asked(t)
                           /\ Len(toChild) = 1 /\ Tail(toChild) = <<>>
                           /\ IsAskedBy(t, Head(toChild))
<1>1. Head(toChild) = toChild[1] /\ Len(toChild) >= 1 /\ Len(toChild) \in Nat
  BY HeadTail, Typed
<1>2. PICK t \in Thread : pc[t] \in Waiting
  BY <1>1 DEF ExchangeInv, Quiet
<1>3. Asked(t)
  BY <1>2 DEF ExchangeInv, Exchange, Served, Answered, Lost, Executing, Alive
<1>4. CASE child = "boot"
  <2>1. Len(toChild) = 1
    BY <1>3, <1>4 DEF Asked
  <2> QED
    BY <1>2, <1>3, <2>1, <1>1, HeadTail, Typed DEF Asked
<1>5. CASE child # "boot"
  BY <1>2, <1>3, <1>5, TakenIsAsked
<1> QED
  BY <1>4, <1>5

LEMMA ServedIsWaiting ==
  ASSUME TypeInv, ExchangeInv, ~HostGone, child \in Executing \cup {"reply"}
  PROVE  \E t \in Thread : pc[t] \in Waiting /\ Served(t)
<1>1. PICK t \in Thread : pc[t] \in Waiting
  BY DEF ExchangeInv, Quiet, Executing, Alive
<1> QED
  BY <1>1 DEF ExchangeInv, Exchange, Asked, Answered, Lost, Executing, Alive

\* What is asked for is served, and the answer to it is written.
LEMMA ChildTakesOne ==
  ASSUME TypeInv, RoleInv, ExchangeInv, ~HostGone, ChildInit \/ ChildLoad \/ ChildReleaseOutputs
  PROVE  ExchangeInv'
<1> USE ChildKeepsRoles DEF Child
<1>1. CASE ChildInit
  <2>1. PICK t \in Thread : pc[t] \in Waiting /\ Asked(t) /\ Tail(toChild) = <<>>
    BY <1>1, HeadIsAsked DEF ChildInit
  <2>2. pc[t] = "newRecv" /\ pending = {}
    BY <1>1, <2>1 DEF ChildInit, Asked, Waiting
  <2>3. Served(t)'
    BY <1>1, <2>1, <2>2 DEF ChildInit, Asked, Served, IsAnswerTo, ChildAnswers
  <2> QED
    BY <1>1, <2>1, <2>2, <2>3, WaiterStep DEF ChildInit, Exchange, heapVars
<1>2. CASE ChildLoad
  <2>1. PICK t \in Thread : pc[t] \in Waiting /\ Asked(t) /\ Tail(toChild) = <<>> /\ IsAskedBy(t, Head(toChild))
    BY <1>2, HeadIsAsked DEF ChildLoad, ChildTakes
  <2>2. pc[t] = "loadRecv" /\ pending = {}
    BY <1>2, <2>1 DEF ChildLoad, ChildTakes, Asked, Waiting, IsAskedBy, ExecuteRequest
  <2>3. Served(t)'
    BY <1>2, <2>1, <2>2 DEF ChildLoad, ChildTakes, Asked, Served, IsAnswerTo, ChildAnswers
  <2> QED
    BY <1>2, <2>1, <2>2, <2>3, WaiterStep DEF ChildLoad, Exchange
<1>3. CASE ChildReleaseOutputs
  <2>1. PICK t \in Thread : pc[t] \in Waiting /\ Asked(t) /\ Tail(toChild) = <<>> /\ IsAskedBy(t, Head(toChild))
    BY <1>3, HeadIsAsked DEF ChildReleaseOutputs, ChildTakes
  <2>2. pc[t] = "relRecv"
    BY <1>3, <2>1 DEF ChildReleaseOutputs, ChildTakes, Asked, Waiting, IsAskedBy, ExecuteRequest
  <2>3. Served(t)'
    BY <1>3, <2>1, <2>2 DEF ChildReleaseOutputs, ChildTakes, Asked, Served, IsAnswerTo, ChildAnswers
  <2> QED
    BY <1>3, <2>1, <2>2, <2>3, WaiterStep DEF ChildReleaseOutputs, Exchange
<1> QED
  BY <1>1, <1>2, <1>3

\* The artifact that a call executes is known to the child, by its id.
LEMMA ArtifactIsKnown ==
  ASSUME TypeInv, RoleInv, HandleInv, ~HostGone, child \in Alive, NEW t \in Thread, pc[t] \in InExec
  PROVE  /\ ExecuteRequest(t).id \in Id /\ Lookup(ExecuteRequest(t).id) = call[t].module
         /\ call[t].module \in Module
<1>1. PICK a \in arts : call[t].art = {a} /\ call[t].module = a.module
  BY DEF RoleInv, CallsHoldHandles
<1>2. ExecuteRequest(t).id = a.id /\ a.id \in Id /\ a.module \in Module
  BY <1>1, Typed DEF ExecuteRequest, Artifact
<1> QED
  BY <1>1, <1>2 DEF HandleInv, LiveHandles, Denotes, Lookup

LEMMA ChildStartsExecution ==
  ASSUME TypeInv, RoleInv, ExchangeInv, HandleInv, ~HostGone, ChildExecute
  PROVE  ExchangeInv'
<1> USE ChildKeepsRoles DEF Child
<1>1. child = "loop" /\ toChild # <<>> /\ Head(toChild).op = "Execute" /\ toChild' = Tail(toChild)
  BY DEF ChildExecute, ChildTakes
<1>2. PICK t \in Thread : pc[t] \in Waiting /\ Asked(t) /\ Tail(toChild) = <<>> /\ IsAskedBy(t, Head(toChild))
  BY <1>1, HeadIsAsked
<1>3. pc[t] = "execRecv" /\ Head(toChild) = ExecuteRequest(t) /\ pending = {} /\ toParent = <<>>
  BY <1>1, <1>2 DEF Asked, Waiting, IsAskedBy
<1>4. Lookup(Head(toChild).id) \in Module
  BY <1>1, <1>3, ArtifactIsKnown DEF InExec, Alive
<1>5. child' = "import" /\ job' = Head(toChild) /\ UNCHANGED toParent
  BY <1>3, <1>4, SessionAssumption DEF ChildExecute
<1>6. Served(t)'
  BY <1>1, <1>2, <1>3, <1>5, ChildKeepsRoles DEF Served, Executing, ExecuteRequest
<1> QED
  BY <1>2, <1>3, <1>6, WaiterStep DEF Exchange

LEMMA ChildExecutes ==
  ASSUME TypeInv, RoleInv, ChildInv, ExchangeInv, ~HostGone,
         ChildImport \/ ChildCopy \/ ChildRun \/ ChildExport \/ ChildUnmap
  PROVE  ExchangeInv'
<1>1. child \in Executing /\ UNCHANGED <<toChild, toParent, job>> /\ child' \in Executing \cup {"reply"}
      /\ (child' = "reply" => ChildUnmap)
  BY DEF ChildImport, ChildCopy, ChildRun, ChildExport, ChildUnmap, ChildFails, Executing
<1>2. PICK t \in Thread : pc[t] \in Waiting /\ Served(t)
  BY <1>1, ServedIsWaiting
<1>3. pc[t] = "execRecv" /\ job = ExecuteRequest(t) /\ toChild = <<>> /\ toParent = <<>>
  BY <1>1, <1>2 DEF Served, Executing
<1>4. UNCHANGED <<pc, call, runtime>> /\ ExecuteRequest(t)' = ExecuteRequest(t)
  BY ChildKeepsRoles DEF Child, ExecuteRequest
<1>5. Served(t)'
  <2>1. CASE child' \in Executing
    BY <1>1, <1>3, <1>4, <2>1 DEF Served
  <2>2. CASE ChildUnmap
    <3>1. /\ reply' = reply /\ pending' = pending /\ child = "unmap" /\ child' = "reply"
      BY <2>2 DEF ChildUnmap
    <3>2. reply.op = "Executed" /\ reply.by = t /\ reply.ok # "unknown"
          /\ (reply.ok # "ok" => pending = {}) /\ (reply.ok = "ok" => reply.outs = pending)
      BY <1>3, <3>1 DEF ChildInv, AnswerIsForJob, ExecuteRequest
    <3> QED
      BY <1>1, <1>3, <1>4, <3>1, <3>2 DEF Served, IsAnswerTo
  <2> QED
    BY <1>1, <2>1, <2>2
<1> QED
  BY <1>2, <1>3, <1>4, <1>5, WaiterStep DEF Exchange

LEMMA ChildWritesAnswer ==
  ASSUME TypeInv, RoleInv, ExchangeInv, ~HostGone, ChildReply
  PROVE  ExchangeInv'
<1>1. /\ child = "reply" /\ toParent' = Append(toParent, reply)
      /\ \/ child' = "dead" /\ toChild' = <<>> /\ pending' = {} /\ reply.op = "Initialized" /\ ~reply.ok
         \/ child' = "loop" /\ toChild' = toChild /\ pending' = pending
            /\ ~(reply.op = "Initialized" /\ reply.ok = FALSE)
  BY DEF ChildReply, ChildGone, heapVars
<1>2. PICK t \in Thread : pc[t] \in Waiting /\ Served(t)
  BY <1>1, ServedIsWaiting
<1>3. toChild = <<>> /\ toParent = <<>> /\ IsAnswerTo(t, reply)
  BY <1>1, <1>2 DEF Served, Executing
<1>4. UNCHANGED <<pc, call, runtime>>
  BY ChildKeepsRoles DEF Child
<1>5. Len(toParent') = 1 /\ toParent'[1] = reply /\ toChild' = <<>>
  BY <1>1, <1>3
<1>6. reply.op = "Initialized" => reply.ok \in BOOLEAN
  BY DEF TypeInv, TypeOK, ChildTypeOK, Response
<1>7. Answered(t)'
  BY <1>1, <1>3, <1>4, <1>5, <1>6 DEF Answered, IsAnswerTo, Executing, Alive
<1>8. pc[t] \notin {"execRecv", "relRecv"} /\ child' \in Alive => pending' = {}
  BY <1>1, <1>2, NoneExecutes, WaitersAreEngaged DEF Executors, Waiting, Alive
<1> QED
  BY <1>2, <1>4, <1>7, <1>8, WaiterStep DEF Exchange, Waiting

\* A release that is taken from the pipe is followed by what was behind it.
LEMMA ChildForgetsArtifact ==
  ASSUME TypeInv, RoleInv, ExchangeInv, ~HostGone, ChildReleaseArtifact
  PROVE  ExchangeInv'
<1>1. /\ child = "loop" /\ toChild # <<>> /\ Head(toChild).op = "ReleaseArtifact" /\ toChild' = Tail(toChild)
      /\ UNCHANGED <<child, pending, toParent>>
  BY DEF ChildReleaseArtifact, ChildTakes
<1>2. UNCHANGED <<pc, call, runtime>>
  BY ChildKeepsRoles DEF Child
<1>3. /\ Head(toChild) = toChild[1] /\ Len(toChild) \in Nat /\ Len(toChild) >= 1
      /\ Len(toChild') = Len(toChild) - 1 /\ \A i \in 1..Len(toChild') : toChild'[i] = toChild[i + 1]
  BY <1>1, HeadTail, Typed
<1>4. ASSUME NEW t \in Thread, pc[t] \in Waiting PROVE ExchangeInv'
  <2>1. Asked(t)
    BY <1>1, <1>4 DEF ExchangeInv, Exchange, Served, Answered, Lost, Executing, Alive
  <2>2. pc[t] # "newRecv" 
    BY <1>1, <2>1 DEF Asked
  <2>3. toChild[Len(toChild)].op # "ReleaseArtifact"
    BY <1>4, <2>1 DEF Asked, IsAskedBy, ExecuteRequest, Waiting
  <2>4. Len(toChild) > 1
    <3> DEFINE n == Len(toChild)
    <3>1. n # 1
      BY <1>1, <1>3, <2>3
    <3>2. n \in Nat /\ n >= 1
      BY <1>3
    <3> HIDE DEF n
    <3>3. n > 1
      BY <3>1, <3>2
    <3> QED
      BY <3>3 DEF n
  <2>5. /\ toChild' # <<>> /\ toChild'[Len(toChild')] = toChild[Len(toChild)]
        /\ \A i \in 1..Len(toChild') : i < Len(toChild') => toChild'[i].op = "ReleaseArtifact"
    <3>1. Len(toChild') \in 1..Len(toChild')
      BY <1>3, <2>4
    <3>2. toChild' # <<>>
      BY <1>3, <2>4
    <3>3. ASSUME NEW i \in 1..Len(toChild'), i < Len(toChild') PROVE toChild'[i].op = "ReleaseArtifact"
      <4>1. i + 1 \in 1..Len(toChild) /\ i + 1 < Len(toChild) /\ toChild'[i] = toChild[i + 1]
        BY <1>3, <3>3
      <4> QED
        BY <2>1, <4>1 DEF Asked
    <3>4. toChild'[Len(toChild')] = toChild[Len(toChild') + 1] /\ Len(toChild') + 1 = Len(toChild)
      BY <1>3, <3>1
    <3> QED
      BY <3>2, <3>3, <3>4
  <2>6. Asked(t)'
    BY <1>1, <1>2, <2>1, <2>2, <2>5 DEF Asked, IsAskedBy, ExecuteRequest
  <2>7. pc[t] \in {"execRecv", "relRecv"} \/ pending = {}
    BY <2>1 DEF Asked
  <2> QED
    BY <1>1, <1>2, <1>4, <2>6, <2>7, WaiterStep DEF Exchange
<1>5. CASE \A t \in Thread : pc[t] \notin Waiting
  <2>1. Quiet
    BY <1>5 DEF ExchangeInv
  <2>2. \A i \in 1..Len(toChild') :
          \/ toChild'[i].op = "ReleaseArtifact"
          \/ toChild'[i].op = "Shutdown" /\ \E t \in Thread : pc[t] = "closeWait"
    <3> SUFFICES ASSUME NEW i \in 1..Len(toChild')
                 PROVE  \/ toChild'[i].op = "ReleaseArtifact"
                        \/ toChild'[i].op = "Shutdown" /\ \E t \in Thread : pc[t] = "closeWait"
      OBVIOUS
    <3>1. i + 1 \in 1..Len(toChild) /\ toChild'[i] = toChild[i + 1]
      BY <1>3
    <3> QED
      BY <2>1, <3>1 DEF Quiet
  <2>3. Quiet'
    BY <1>1, <1>2, <2>1, <2>2 DEF Quiet
  <2> QED
    BY <1>1, <1>2, <1>5, <2>3, QuietStep
<1> QED
  BY <1>4, <1>5

\* The child leaves, or is killed, at any point of an exchange.
LEMMA ChildIsGone ==
  ASSUME TypeInv, RoleInv, ExchangeInv, ~HostGone, ChildExit \/ ChildCrash
  PROVE  ExchangeInv'
<1>1. /\ child \in Alive /\ child' = "dead" /\ toChild' = <<>> /\ pending' = {}
      /\ toParent' = toParent \/ (child = "reply" /\ toParent' = Append(toParent, NoReply))
  BY DEF ChildExit, ChildCrash, ChildGone, Alive
<1>2. UNCHANGED <<pc, call, runtime>>
  BY ChildKeepsRoles DEF Child
<1>3. ASSUME NEW t \in Thread, pc[t] \in Waiting PROVE ExchangeInv'
  <2>1. Exchange(t)
    BY <1>3 DEF ExchangeInv
  <2>2. CASE Asked(t) \/ Served(t)
    <3>1. toParent' = <<>> \/ (Len(toParent') = 1 /\ toParent'[1].op = "Torn")
      <4>1. toParent = <<>>
        BY <2>2 DEF Asked, Served
      <4>2. CASE toParent' = Append(toParent, NoReply)
        <5>1. Len(toParent') = 0 + 1 /\ toParent'[0 + 1] = NoReply
          BY <4>1, <4>2
        <5> QED
          BY <5>1 DEF NoReply
      <4> QED
        BY <1>1, <4>1, <4>2
    <3>2. Lost(t)'
      BY <1>1, <3>1 DEF Lost, Alive
    <3> QED
      BY <1>1, <1>2, <1>3, <3>2, WaiterStep DEF Exchange, Alive
  <2>3. CASE Answered(t)
    <3>1. Answered(t)'
      BY <1>1, <1>2, <2>3 DEF Answered, IsAnswerTo, Executing, Alive
    <3> QED
      BY <1>1, <1>2, <1>3, <3>1, WaiterStep DEF Exchange, Alive
  <2> QED
    BY <1>1, <2>1, <2>2, <2>3 DEF Exchange, Lost
<1>4. CASE \A t \in Thread : pc[t] \notin Waiting
  <2>1. toParent' = <<>>
    BY <1>1, <1>4 DEF ExchangeInv, Quiet, Alive
  <2>2. Quiet'
    BY <1>1, <2>1 DEF Quiet, Alive
  <2> QED
    BY <1>1, <1>2, <1>4, <2>2, QuietStep DEF Alive
<1> QED
  BY <1>3, <1>4

LEMMA ChildKeepsExchange ==
  ASSUME TypeInv, RoleInv, ChildInv, ExchangeInv, HandleInv, ~HostGone, Child \/ ChildCrash
  PROVE  ExchangeInv'
BY ChildTakesOne, ChildStartsExecution, ChildExecutes, ChildWritesAnswer, ChildForgetsArtifact,
   ChildIsGone DEF Child

-----------------------------------------------------------------------------
(* The host's side of the exchange.                                        *)

pipes == <<toChild, toParent, child, pending, reply, job>>

\* A step by which a thread neither begins nor ends to wait.
LEMMA AsideStep ==
  ASSUME TypeInv, RoleInv, ExchangeInv, ~HostGone, UNCHANGED pipes,
         runtime = "new" <=> runtime' = "new",
         NEW t \in Thread, NEW to, pc' = [pc EXCEPT ![t] = to],
         \A u \in Thread \ {t} : call'[u] = call[u],
         pc[t] \notin Waiting \cup {"closeWait"}, to \notin Waiting,
         to = "decode" => FALSE,
         to = "copyOut" => pc[t] = "decode" /\ call'[t].outs = call[t].outs,
         pc[t] \in Executors => to \in Executors \/ child \notin Alive
  PROVE  ExchangeInv'
<1> USE Typed DEF pipes
<1>1. \A u \in Thread : pc'[u] \in Waiting => u # t /\ pc[u] \in Waiting
  OBVIOUS
<1>2. ASSUME NEW u \in Thread, pc'[u] \in Waiting PROVE Exchange(u)'
  <2>1. Exchange(u) /\ u # t /\ pc'[u] = pc[u] /\ call'[u] = call[u]
    BY <1>1, <1>2 DEF ExchangeInv
  <2>2. ExecuteRequest(u)' = ExecuteRequest(u)
    BY <2>1 DEF ExecuteRequest
  <2>3. \A req : IsAskedBy(u, req) => IsAskedBy(u, req)'
    BY <2>1, <2>2 DEF IsAskedBy
  <2>4. \A res : IsAnswerTo(u, res) => IsAnswerTo(u, res)'
    BY <2>1 DEF IsAnswerTo
  <2> QED
    BY <2>1, <2>2, <2>3, <2>4 DEF Exchange, Asked, Served, Answered, Lost
<1>3. (\A u \in Thread : pc'[u] \notin Waiting) => Quiet'
  <2> SUFFICES ASSUME \A u \in Thread : pc'[u] \notin Waiting PROVE Quiet'
    OBVIOUS
  <2>1. Quiet
    BY DEF ExchangeInv
  <2>2. (\E u \in Thread : pc[u] = "closeWait") => \E u \in Thread : pc'[u] = "closeWait"
    OBVIOUS
  <2> QED
    BY <2>1, <2>2 DEF Quiet
<1>4. \A u \in Thread : pc'[u] \in {"decode", "copyOut"} /\ child' \in Alive => pending' = call'[u].outs
  BY DEF ExchangeInv
<1>5. (\A u \in Thread : pc'[u] \notin Executors) /\ child' \in Alive => pending' = {}
  <2> SUFFICES ASSUME \A u \in Thread : pc'[u] \notin Executors, child \in Alive PROVE pending = {}
    OBVIOUS
  <2>1. pc[t] \notin Executors
    OBVIOUS
  <2>2. \A u \in Thread : pc[u] \notin Executors
    BY <2>1
  <2> QED
    BY <2>2 DEF ExchangeInv, Executors
<1> QED
  BY <1>2, <1>3, <1>4, <1>5 DEF ExchangeInv, Executors

\* A step after which nobody waits.
LEMMA QuietAfter ==
  ASSUME TypeInv, RoleInv, ExchangeInv, ~HostGone, NEW t \in Thread, pc[t] \in Engaged,
         NEW to, pc' = [pc EXCEPT ![t] = to], to \notin Waiting \cup {"copyOut"},
         Quiet', to = "decode" /\ child' \in Alive => pending' = call'[t].outs,
         to \notin Executors /\ child' \in Alive => pending' = {}
  PROVE  ExchangeInv'
<1> USE Typed
<1>1. \A u \in Thread \ {t} : pc'[u] = pc[u] /\ pc[u] \notin Engaged
  BY OneEngaged
<1>2. \A u \in Thread : pc'[u] \notin Waiting
  BY <1>1, WaitersAreEngaged
<1>3. \A u \in Thread : pc'[u] \in {"decode", "copyOut"} => u = t /\ to = "decode"
  BY <1>1 DEF Engaged, Locked
<1>4. (\A u \in Thread : pc'[u] \notin Executors) => to \notin Executors
  OBVIOUS
<1> QED
  BY <1>2, <1>3, <1>4 DEF ExchangeInv, Executors

\* A step by which a thread begins to wait.
LEMMA WaitingAfter ==
  ASSUME TypeInv, RoleInv, NEW t \in Thread, pc[t] \in Engaged,
         NEW to \in Waiting, pc' = [pc EXCEPT ![t] = to], Asked(t)'
  PROVE  ExchangeInv'
<1> USE Typed
<1>1. \A u \in Thread \ {t} : pc'[u] = pc[u] /\ pc[u] \notin Engaged
  BY OneEngaged
<1>2. \A u \in Thread : pc'[u] \in Waiting => Exchange(u)'
  BY <1>1, WaitersAreEngaged DEF Exchange
<1>3. \A u \in Thread : pc'[u] \notin {"decode", "copyOut"}
  BY <1>1 DEF Engaged, Locked, Waiting
<1>4. (\A u \in Thread : pc'[u] \notin Executors) => pending' = {}
  BY DEF Asked, Executors
<1>5. pc'[t] \in Waiting
  OBVIOUS
<1> QED
  BY <1>2, <1>3, <1>4, <1>5 DEF ExchangeInv, Executors

\* The thread that is engaged but does not wait finds the exchange quiet.
LEMMA EngagedIsQuiet ==
  ASSUME TypeInv, RoleInv, ExchangeInv, ~HostGone, NEW t \in Thread, pc[t] \in Engaged \ Waiting
  PROVE  Quiet
<1>1. \A u \in Thread : pc[u] \notin Waiting
  BY OneEngaged, WaitersAreEngaged
<1> QED
  BY <1>1 DEF ExchangeInv

LEMMA RequestIsSent ==
  ASSUME TypeInv, RoleInv, ExchangeInv, ~HostGone, NEW t \in Thread, NEW to, NEW req,
         \/ pc[t] = "newSend" /\ to = "newRecv" /\ req = [op |-> "Initialize"]
         \/ pc[t] = "loadSend" /\ to = "loadRecv" /\ req = [op |-> "LoadModule", module |-> call[t].module]
         \/ pc[t] = "execSend" /\ to = "execRecv" /\ req = ExecuteRequest(t)
         \/ pc[t] = "relSend" /\ to = "relRecv" /\ req = [op |-> "ReleaseOutputs"],
         Sent(req), pc' = [pc EXCEPT ![t] = to], UNCHANGED <<call, toParent, child, pending>>
  PROVE  ExchangeInv'
<1> USE Typed
<1>1. pc[t] \in Engaged \ Waiting /\ to \in Waiting
  BY DEF Engaged, Locked, Creating, Waiting
<1>2. Quiet
  BY <1>1, EngagedIsQuiet
<1>3. \A u \in Thread : pc[u] # "closeWait"
  BY <1>1, OneEngaged DEF Engaged, Closing
<1>4. child \in Alive /\ toChild' = Append(toChild, req)
  BY DEF Sent
<1>5. /\ toChild' # <<>> /\ Len(toChild') = Len(toChild) + 1 /\ toChild'[Len(toChild')] = req
      /\ \A i \in 1..Len(toChild) : toChild'[i] = toChild[i]
  BY <1>4, Appended
<1>6. \A i \in 1..Len(toChild') : i < Len(toChild') => toChild'[i].op = "ReleaseArtifact"
  <2> SUFFICES ASSUME NEW i \in 1..Len(toChild'), i < Len(toChild') PROVE toChild'[i].op = "ReleaseArtifact"
    OBVIOUS
  <2>1. i \in 1..Len(toChild)
    BY <1>5
  <2> QED
    BY <1>2, <1>3, <1>5, <2>1 DEF Quiet
<1>7. runtime = "new" <=> to = "newRecv"
  BY DEF RoleInv, CreatorIsAlone, Creating
<1>8. child = (IF to = "newRecv" THEN "boot" ELSE "loop")
  BY <1>2, <1>4, <1>7 DEF Quiet
<1>9. to = "newRecv" => Len(toChild') = 1
  BY <1>2, <1>5, <1>8 DEF Quiet
<1>10. to # "relRecv" => pending = {}
  BY <1>1, <1>4, NoneExecutes DEF Executors
<1>11. IsAskedBy(t, req)'
  BY DEF IsAskedBy, ExecuteRequest
<1>12. Asked(t)'
  <2>1. IsAskedBy(t, toChild[Len(toChild)])'
    BY <1>5, <1>11 DEF IsAskedBy
  <2> QED
    BY <1>2, <1>5, <1>6, <1>8, <1>9, <1>10, <2>1 DEF Asked, Quiet
<1> QED
  BY <1>1, <1>12, WaitingAfter

\* What a thread that waits can read.
LEMMA WhatIsRead ==
  ASSUME TypeInv, RoleInv, ChildInv, ExchangeInv, ~HostGone, NEW t \in Thread, NEW op,
         \/ pc[t] = "newRecv" /\ op = "Initialized"
         \/ pc[t] = "loadRecv" /\ op = "Loaded"
         \/ pc[t] = "execRecv" /\ op = "Executed"
         \/ pc[t] = "relRecv" /\ op = "OutputsReleased"
  PROVE  /\ Received(op) =>
              /\ Answered(t) /\ Head(toParent) = toParent[1] /\ toParent' = <<>> /\ toChild = <<>>
              /\ child' = child /\ child \in {"loop", "dead", "reaped"}
         /\ \A r : ReceiveFailed(op, r) =>
              /\ child \notin Alive /\ child' \notin Alive /\ toParent' = <<>> /\ toChild = <<>>
              /\ r \in {"terminated", "transport"}
<1>1. pc[t] \in Waiting /\ Exchange(t)
  BY DEF Waiting, ExchangeInv
<1>2. child \in Alive \cup {"none", "dead", "reaped"}
  BY DEF TypeInv, TypeOK, ChildTypeOK
<1>3. toParent # <<>> => Head(toParent) = toParent[1] /\ (Len(toParent) = 1 => Tail(toParent) = <<>>)
  BY HeadTail, Typed
<1>4. ASSUME toParent # <<>>
      PROVE  Answered(t) \/ (Lost(t) /\ Len(toParent) = 1 /\ toParent[1].op = "Torn")
  BY <1>1, <1>4 DEF Exchange, Asked, Served, Lost
<1>5. Answered(t) => toParent[1].op = op
  BY DEF Answered, IsAnswerTo
<1>6. ASSUME Received(op)
      PROVE  /\ Answered(t) /\ Head(toParent) = toParent[1] /\ toParent' = <<>> /\ toChild = <<>>
             /\ child' = child /\ child \in {"loop", "dead", "reaped"}
  <2>1. toParent # <<>> /\ Head(toParent).op = op /\ toParent' = Tail(toParent) /\ child' = child
    BY <1>6 DEF Received
  <2>2. Answered(t)
    BY <1>3, <1>4, <2>1
  <2>3. Len(toParent) = 1 /\ toChild = <<>> /\ child \notin {"none", "boot", "reply"} \cup Executing
    BY <2>2 DEF Answered
  <2> QED
    BY <1>2, <1>3, <2>1, <2>2, <2>3 DEF Alive, Executing
<1>7. ASSUME NEW r, ReceiveFailed(op, r)
      PROVE  /\ child \notin Alive /\ child' \notin Alive /\ toParent' = <<>> /\ toChild = <<>>
             /\ r \in {"terminated", "transport"}
  <2>1. CASE toParent # <<>>
    <3>1. Head(toParent).op # op /\ toParent' = Tail(toParent) /\ child' = child
          /\ r = IF Head(toParent).op = "Torn" THEN "transport" ELSE "unexpected"
      BY <1>7, <2>1 DEF ReceiveFailed
    <3>2. Lost(t) /\ Len(toParent) = 1 /\ toParent[1].op = "Torn"
      BY <1>3, <1>4, <1>5, <2>1, <3>1
    <3> QED
      BY <1>3, <2>1, <3>1, <3>2 DEF Lost, ChildInv
  <2>2. CASE toParent = <<>>
    BY <1>7, <2>2 DEF ReceiveFailed, Reap, Alive, ChildInv
  <2> QED
    BY <2>1, <2>2
<1> QED
  BY <1>6, <1>7

\* The steps by which a thread has read its answer, or the end of the pipe.
LEMMA ReadingKeepsExchange ==
  ASSUME TypeInv, RoleInv, ChildInv, ExchangeInv, ~HostGone, NEW t \in Thread,
         NewRecv(t) \/ LoadRecv(t) \/ ExecRecv(t) \/ ReleaseRecv(t)
  PROVE  ExchangeInv'
<1>1. CASE NewRecv(t)
  <2>1. pc[t] = "newRecv" /\ UNCHANGED <<toChild, pending>>
        /\ \E to \in {"idle", "closeSend"} : pc' = [pc EXCEPT ![t] = to]
    BY <1>1 DEF NewRecv, NewFails, Leave, Goto, heapVars
  <2>2. \/ Received("Initialized") /\ toParent[1].op = "Initialized" /\ toParent[1].ok /\ runtime' = "live"
        \/ Received("Initialized") /\ toParent[1].op = "Initialized" /\ ~toParent[1].ok
        \/ \E r : ReceiveFailed("Initialized", r)
    <3>1. Received("Initialized") => Head(toParent) = toParent[1] /\ Head(toParent).op = "Initialized"
      BY <2>1, WhatIsRead DEF Received
    <3> QED
      BY <1>1, <3>1 DEF NewRecv
  <2>3. toParent' = <<>> /\ toChild' = <<>> /\ (child' \in Alive => child' = "loop" /\ child = "loop" /\ runtime' = "live")
    <3>1. CASE Received("Initialized") /\ toParent[1].op = "Initialized" /\ toParent[1].ok /\ runtime' = "live"
      BY <2>1, <3>1, WhatIsRead DEF Alive
    <3>2. CASE Received("Initialized") /\ toParent[1].op = "Initialized" /\ ~toParent[1].ok
      BY <2>1, <3>2, WhatIsRead DEF Answered
    <3>3. CASE \E r : ReceiveFailed("Initialized", r)
      BY <2>1, <3>3, WhatIsRead
    <3> QED
      BY <2>2, <3>1, <3>2, <3>3
  <2>4. Quiet'
    BY <2>3 DEF Quiet, Alive
  <2>5. child' \in Alive => pending' = {}
    BY <2>1, <2>3, NoneExecutes DEF Alive, Engaged, Creating, Executors
  <2> QED
    BY <2>1, <2>4, <2>5, QuietAfter DEF Waiting, Engaged, Creating
<1>2. CASE LoadRecv(t)
  <2>1. /\ pc[t] = "loadRecv" /\ UNCHANGED <<toChild, pending, runtime>>
        /\ pc' = [pc EXCEPT ![t] = "returning"]
        /\ Received("Loaded") \/ \E r : ReceiveFailed("Loaded", r)
    BY <1>2 DEF LoadRecv, Finish, Goto, heapVars
  <2>2. toParent' = <<>> /\ toChild' = <<>> /\ (child' \in Alive => child' = "loop" /\ child = "loop")
    BY <2>1, WhatIsRead DEF Alive
  <2>3. runtime # "new"
    BY <2>1 DEF RoleInv, CreatorIsAlone, Creating
  <2>4. Quiet'
    BY <2>1, <2>2, <2>3 DEF Quiet, Alive
  <2>5. child' \in Alive => pending' = {}
    BY <2>1, <2>2, NoneExecutes DEF Alive, Engaged, Locked, Executors
  <2> QED
    BY <2>1, <2>4, <2>5, QuietAfter DEF Waiting, Engaged, Locked
<1>3. CASE ExecRecv(t)
  <2>1. /\ pc[t] = "execRecv" /\ UNCHANGED <<toChild, pending, runtime>>
    BY <1>3 DEF ExecRecv, heapVars
  <2>2. \/ /\ Received("Executed") /\ Head(toParent).ok = "ok" /\ pc' = [pc EXCEPT ![t] = "decode"]
           /\ call' = [call EXCEPT ![t].own = {}, ![t].outs = Head(toParent).outs]
        \/ /\ Received("Executed") /\ Head(toParent).ok # "ok" /\ pc' = [pc EXCEPT ![t] = "returning"]
        \/ /\ \E r : ReceiveFailed("Executed", r) 
           /\ pc' = [pc EXCEPT ![t] = "returning"]
    BY <1>3 DEF ExecRecv, Finish, Goto
  <2>3. runtime # "new"
    BY <2>1 DEF RoleInv, CreatorIsAlone, Creating
  <2>4. toParent' = <<>> /\ toChild' = <<>> /\ (child' \in Alive => child' = "loop" /\ child = "loop")
    BY <2>1, <2>2, WhatIsRead DEF Alive
  <2>5. Quiet'
    BY <2>1, <2>3, <2>4 DEF Quiet, Alive
  <2>6. CASE /\ Received("Executed") /\ Head(toParent).ok = "ok" /\ pc' = [pc EXCEPT ![t] = "decode"]
             /\ call' = [call EXCEPT ![t].own = {}, ![t].outs = Head(toParent).outs]
    <3>1. IsAnswerTo(t, toParent[1]) /\ Head(toParent) = toParent[1]
      BY <2>1, <2>6, WhatIsRead DEF Answered
    <3>2. child \in Alive => Head(toParent).outs = pending
      BY <2>1, <2>6, <3>1 DEF IsAnswerTo
    <3>3. call'[t].outs = Head(toParent).outs
      <4>1. call \in [Thread -> Call] /\ \A c \in Call : DOMAIN c = {"art", "module", "own", "ref", "outs", "vals", "decoded"}
        BY Typed DEF Call
      <4> QED
        BY <2>6, <4>1
    <3> QED
      BY <2>1, <2>4, <2>5, <2>6, <3>2, <3>3, QuietAfter DEF Waiting, Engaged, Locked, Executors, Alive
  <2>7. CASE Received("Executed") /\ Head(toParent).ok # "ok" /\ pc' = [pc EXCEPT ![t] = "returning"]
    <3>1. IsAnswerTo(t, toParent[1]) /\ Head(toParent) = toParent[1]
      BY <2>1, <2>7, WhatIsRead DEF Answered
    <3>2. pending = {}
      BY <2>1, <2>7, <3>1 DEF IsAnswerTo
    <3> QED
      BY <2>1, <2>5, <2>7, <3>2, QuietAfter DEF Waiting, Engaged, Locked
  <2>8. CASE (\E r : ReceiveFailed("Executed", r)) /\ pc' = [pc EXCEPT ![t] = "returning"]
    <3>1. child' \notin Alive
      BY <2>1, <2>8, WhatIsRead
    <3> QED
      BY <2>1, <2>5, <2>8, <3>1, QuietAfter DEF Waiting, Engaged, Locked
  <2> QED
    BY <2>2, <2>6, <2>7, <2>8
<1>4. CASE ReleaseRecv(t)
  <2>1. /\ pc[t] = "relRecv" /\ UNCHANGED <<toChild, pending, runtime>>
        /\ pc' = [pc EXCEPT ![t] = "returning"]
        /\ Received("OutputsReleased") \/ \E r : ReceiveFailed("OutputsReleased", r)
    BY <1>4 DEF ReleaseRecv, Finish, Goto, heapVars
  <2>2. toParent' = <<>> /\ toChild' = <<>> /\ (child' \in Alive => child' = "loop" /\ child = "loop")
    BY <2>1, WhatIsRead DEF Alive
  <2>3. runtime # "new"
    BY <2>1 DEF RoleInv, CreatorIsAlone, Creating
  <2>4. Quiet'
    BY <2>1, <2>2, <2>3 DEF Quiet, Alive
  <2>5. child' \in Alive => pending' = {}
    <3>1. CASE Received("OutputsReleased")
      BY <2>1, <3>1, WhatIsRead DEF Answered, IsAnswerTo
    <3>2. CASE \E r : ReceiveFailed("OutputsReleased", r)
      BY <2>1, <3>2, WhatIsRead
    <3> QED
      BY <2>1, <3>1, <3>2
  <2> QED
    BY <2>1, <2>4, <2>5, QuietAfter DEF Waiting, Engaged, Locked
<1> QED
  BY <1>1, <1>2, <1>3, <1>4

\* A send fails only when there is no child to read it.
LEMMA SendFailedGone ==
  ASSUME EndInv, NEW r, SendFailed(r)
  PROVE  child \notin Alive /\ r \in {"transport", "terminated"} /\ toChild' = toChild
  BY DEF SendFailed, EndInv, Alive

\* The steps by which a thread sends a request and begins to wait, or fails to.
LEMMA SendingKeepsExchange ==
  ASSUME TypeInv, EndInv, RoleInv, ChildInv, ExchangeInv, ~HostGone, NEW t \in Thread,
         NewSend(t) \/ LoadSend(t) \/ ExecSend(t) \/ ReleaseSend(t)
  PROVE  ExchangeInv'
<1>1. UNCHANGED <<toParent, child, pending, reply, job>>
  BY DEF NewSend, LoadSend, ExecSend, ReleaseSend, childVars, heapVars
<1>2. CASE NewSend(t)
  <2>1. pc[t] = "newSend" /\ UNCHANGED call
    BY <1>2 DEF NewSend
  <2>2. \/ Sent([op |-> "Initialize"]) /\ pc' = [pc EXCEPT ![t] = "newRecv"]
        \/ (\E r : SendFailed(r)) /\ pc' = [pc EXCEPT ![t] = "closeSend"]
    BY <1>2 DEF NewSend, NewFails, Goto
  <2>3. CASE Sent([op |-> "Initialize"]) /\ pc' = [pc EXCEPT ![t] = "newRecv"]
    BY <1>1, <2>1, <2>3, RequestIsSent
  <2>4. CASE (\E r : SendFailed(r)) /\ pc' = [pc EXCEPT ![t] = "closeSend"]
    <3>1. child' \notin Alive /\ toChild' = <<>>
      BY <1>1, <2>4, SendFailedGone DEF ChildInv
    <3>2. toParent' = <<>>
      BY <1>1, <2>1, EngagedIsQuiet DEF Quiet, Engaged, Creating, Waiting
    <3>3. Quiet'
      BY <3>1, <3>2 DEF Quiet, Alive
    <3> QED
      BY <2>1, <2>4, <3>1, <3>3, QuietAfter DEF Engaged, Creating, Waiting
  <2> QED
    BY <2>2, <2>3, <2>4
<1>3. CASE LoadSend(t) \/ ExecSend(t)
  <2>1. pc[t] \in {"loadSend", "execSend"} /\ UNCHANGED <<call, runtime>>
    BY <1>3 DEF LoadSend, ExecSend
  <2>2. \/ pc[t] = "loadSend" /\ Sent([op |-> "LoadModule", module |-> call[t].module])
           /\ pc' = [pc EXCEPT ![t] = "loadRecv"]
        \/ pc[t] = "execSend" /\ Sent(ExecuteRequest(t)) /\ pc' = [pc EXCEPT ![t] = "execRecv"]
        \/ UNCHANGED toChild /\ pc' = [pc EXCEPT ![t] = "returning"]
    BY <1>3 DEF LoadSend, ExecSend, Finish, Goto, SendFailed, SendPanicked
  <2>3. CASE UNCHANGED toChild /\ pc' = [pc EXCEPT ![t] = "returning"]
    BY <1>1, <2>1, <2>3, AsideStep DEF pipes, Waiting, Executors
  <2> QED
    BY <1>1, <2>1, <2>2, <2>3, RequestIsSent
<1>4. CASE ReleaseSend(t)
  <2>1. pc[t] = "relSend" /\ UNCHANGED runtime
    BY <1>4 DEF ReleaseSend
  <2>2. \/ Sent([op |-> "ReleaseOutputs"]) /\ pc' = [pc EXCEPT ![t] = "relRecv"] /\ UNCHANGED call
        \/ (\E r : SendFailed(r)) /\ pc' = [pc EXCEPT ![t] = "returning"]
           /\ call' = [call EXCEPT ![t].vals = {}]
    BY <1>4 DEF ReleaseSend, Finish, Goto, DropValues
  <2>3. CASE (\E r : SendFailed(r)) /\ pc' = [pc EXCEPT ![t] = "returning"]
             /\ call' = [call EXCEPT ![t].vals = {}]
    <3>1. child \notin Alive /\ toChild' = toChild
      BY <2>3, SendFailedGone
    <3>2. \A u \in Thread \ {t} : call'[u] = call[u]
      BY <2>3, Typed
    <3> QED
      BY <1>1, <2>1, <2>3, <3>1, <3>2, AsideStep DEF pipes, Waiting, Executors
  <2> QED
    BY <1>1, <2>1, <2>2, <2>3, RequestIsSent
<1> QED
  BY <1>2, <1>3, <1>4

\* The steps that leave the pipes and the child alone.
LEMMA RestKeepsExchange ==
  ASSUME TypeInv, RoleInv, ExchangeInv, ~HostGone, NEW t \in Thread,
         \/ LoadLock(t) \/ ExecLock(t) \/ DropLock(t) \/ DecodeImport(t) \/ DecodeCopy(t)
         \/ Return(t) \/ DropRef(t) \/ DropRuntime(t)
  PROVE  ExchangeInv'
<1> USE Typed DEF Goto, Leave, Finish, Waiting, Executors
<1>1. UNCHANGED pipes
  BY DEF LoadLock, ExecLock, DropLock, DecodeImport, DecodeCopy, Return, DropRef, DropRuntime, pipes,
     childVars, heapVars, workerVars
<1>2. \A u \in Thread \ {t} : call'[u] = call[u]
  BY DEF LoadLock, ExecLock, DropLock, DecodeImport, DecodeCopy, Return, DropRef, DropRuntime
<1>3. runtime = "new" <=> runtime' = "new"
  BY DEF LoadLock, ExecLock, DropLock, DecodeImport, DecodeCopy, Return, DropRef, DropRuntime
<1>4. CASE LoadLock(t)
  <2>1. pc[t] = "loadLock" /\ \E to \in {"loadSend", "returning"} : pc' = [pc EXCEPT ![t] = to]
    BY <1>4 DEF LoadLock
  <2> QED
    BY <1>1, <1>2, <1>3, <2>1, AsideStep
<1>5. CASE ExecLock(t)
  <2>1. pc[t] = "execLock" /\ \E to \in {"execSend", "returning"} : pc' = [pc EXCEPT ![t] = to]
    BY <1>5 DEF ExecLock
  <2> QED
    BY <1>1, <1>2, <1>3, <2>1, AsideStep
<1>6. CASE DropLock(t)
  <2>1. pc[t] = "dropLock" /\ \E to \in {"dropSend", "dropRef"} : pc' = [pc EXCEPT ![t] = to]
    BY <1>6 DEF DropLock
  <2> QED
    BY <1>1, <1>2, <1>3, <2>1, AsideStep
<1>7. CASE DecodeImport(t)
  <2>1. pc[t] = "decode" /\ \/ pc' = [pc EXCEPT ![t] = "copyOut"] /\ UNCHANGED call
                            \/ pc' = [pc EXCEPT ![t] = "relSend"]
    BY <1>7 DEF DecodeImport
  <2> QED
    BY <1>1, <1>2, <1>3, <2>1, AsideStep
<1>8. CASE DecodeCopy(t)
  <2>1. pc[t] = "copyOut" /\ pc' = [pc EXCEPT ![t] = "relSend"]
    BY <1>8 DEF DecodeCopy
  <2> QED
    BY <1>1, <1>2, <1>3, <2>1, AsideStep
<1>9. CASE Return(t)
  <2>1. pc[t] = "returning" /\ pc' = [pc EXCEPT ![t] = "idle"]
    BY <1>9 DEF Return
  <2> QED
    BY <1>1, <1>2, <1>3, <2>1, AsideStep
<1>10. CASE DropRef(t)
  <2>1. pc[t] = "dropRef" /\ \E to \in {"closeSend", "idle"} : pc' = [pc EXCEPT ![t] = to]
    BY <1>10 DEF DropRef
  <2> QED
    BY <1>1, <1>2, <1>3, <2>1, AsideStep
<1>11. CASE DropRuntime(t)
  <2>1. pc[t] = "idle" /\ \E to \in {"closeSend", "idle"} : pc' = [pc EXCEPT ![t] = to]
    BY <1>11 DEF DropRuntime
  <2> QED
    BY <1>1, <1>2, <1>3, <2>1, AsideStep
<1> QED
  BY <1>4, <1>5, <1>6, <1>7, <1>8, <1>9, <1>10, <1>11

\* The steps of a caller between its calls.
LEMMA CallerKeepsExchange ==
  ASSUME TypeInv, EndInv, RoleInv, ChildInv, ExchangeInv, ~HostGone, NEW t \in Thread, Caller(t)
  PROVE  ExchangeInv'
<1> USE Typed DEF Goto
<1>1. CASE NewSpawn(t)
  <2>1. /\ pc[t] = "idle" /\ pc' = [pc EXCEPT ![t] = "newSend"] /\ runtime' = "new" /\ child' = "boot"
        /\ child = "none" /\ UNCHANGED <<call, toChild, toParent, pending>>
    BY <1>1 DEF NewSpawn, EndInv, heapVars
  <2>2. \A u \in Thread : pc[u] \in Creating \cup {"idle", "gone"} /\ pc[u] \notin Creating
    BY <1>1 DEF NewSpawn, RoleInv, CreatorIsAlone
  <2>3. \A u \in Thread : pc'[u] \notin Waiting \cup {"decode", "copyOut"}
    BY <2>1, <2>2 DEF Waiting, Creating
  <2>4. Quiet /\ pending = {} /\ toChild = <<>>
    BY <2>1, <2>2 DEF ExchangeInv, ChildInv, OutputsAreKept, Alive, Waiting, Creating
  <2>5. Quiet'
    BY <2>1, <2>4 DEF Quiet
  <2> QED
    BY <2>1, <2>3, <2>4, <2>5 DEF ExchangeInv
<1>2. CASE ~NewSpawn(t) /\ ~DropRuntime(t)
  <2>1. UNCHANGED <<pipes, runtime>> /\ pc[t] = "idle"
        /\ \E to \in {"idle", "loadLock", "execLock", "dropLock"} : pc' = [pc EXCEPT ![t] = to]
    <3>1. CASE \E b \in Buf : MemNew(t, b) \/ MemDrop(t, b)
      <4>1. pc[t] = "idle" /\ pc' = pc /\ UNCHANGED <<pipes, runtime>>
        BY <3>1 DEF MemNew, MemDrop, pipes, childVars, heapVars
      <4>2. pc' = [pc EXCEPT ![t] = "idle"]
        BY <4>1
      <4> QED
        BY <4>1, <4>2
    <3>2. CASE \E m \in Module : CallLoad(t, m)
      BY <3>2 DEF CallLoad, pipes, childVars, heapVars
    <3>3. CASE \E a \in arts : DropArtifact(t, a) \/ \E own, ref \in SUBSET Buf : CallExec(t, a, own, ref)
      BY <3>3 DEF DropArtifact, CallExec, pipes, childVars, heapVars
    <3> QED
      BY <1>2, <3>1, <3>2, <3>3 DEF Caller
  <2>2. \A u \in Thread \ {t} : call'[u] = call[u]
    BY <1>2 DEF Caller, MemNew, MemDrop, CallLoad, DropArtifact, CallExec
  <2> QED
    BY <2>1, <2>2, AsideStep DEF Waiting, Executors
<1>3. CASE DropRuntime(t)
  BY <1>3, RestKeepsExchange
<1> QED
  BY <1>1, <1>2, <1>3

\* The requests that nobody waits an answer for.
LEMMA PartingKeepsExchange ==
  ASSUME TypeInv, EndInv, RoleInv, ChildInv, ExchangeInv, ~HostGone, NEW t \in Thread,
         DropSend(t) \/ CloseSend(t) \/ CloseWait(t)
  PROVE  ExchangeInv'
<1> USE Typed
<1>1. pc[t] \in Engaged \ Waiting /\ pc[t] \notin Executors
  BY DEF DropSend, CloseSend, CloseWait, Engaged, Locked, Closing, Waiting, Executors
<1>2. Quiet /\ (child \in Alive => pending = {})
  BY <1>1, EngagedIsQuiet, NoneExecutes
<1>3. \A u \in Thread : pc[u] = "closeWait" => u = t
  BY <1>1, OneEngaged DEF Engaged, Closing
<1>4. /\ UNCHANGED <<toParent, pending>> /\ runtime' = runtime
      /\ child' = child \/ (CloseWait(t) /\ child' = "reaped")
  BY DEF DropSend, CloseSend, CloseWait, childVars, heapVars
<1>5. CASE CloseWait(t)
  <2>1. child \notin Alive /\ child' \notin Alive /\ toChild' = <<>> /\ pc' = [pc EXCEPT ![t] = "idle"]
    BY <1>5 DEF CloseWait, ChildInv, Alive, Leave, Goto
  <2>2. toParent' = <<>>
    BY <1>2, <1>4 DEF Quiet
  <2>3. Quiet'
    BY <2>1, <2>2 DEF Quiet, Alive
  <2> QED
    BY <1>1, <2>1, <2>3, QuietAfter DEF Waiting
<1>6. CASE DropSend(t) \/ CloseSend(t)
  <2>1. child' = child /\ pc[t] \in {"dropSend", "closeSend"}
    BY <1>6 DEF DropSend, CloseSend, childVars
  <2>2. \E to \in {"dropRef", "closeWait", "idle"} :
          /\ pc' = [pc EXCEPT ![t] = to]
          /\ \/ toChild' = toChild
             \/ \E req : /\ toChild' = Append(toChild, req) /\ child \in Alive
                         /\ req.op = "ReleaseArtifact" \/ (req.op = "Shutdown" /\ to = "closeWait")
    <3>1. CASE DropSend(t)
      <4>1. pc' = [pc EXCEPT ![t] = "dropRef"]
        BY <3>1 DEF DropSend, Goto
      <4>2. toChild' = toChild \/ \E i : Sent([op |-> "ReleaseArtifact", id |-> i])
        BY <3>1 DEF DropSend, SendFailed, SendPanicked
      <4>3. ASSUME NEW i, Sent([op |-> "ReleaseArtifact", id |-> i])
            PROVE  \E req : toChild' = Append(toChild, req) /\ child \in Alive /\ req.op = "ReleaseArtifact"
        <5>1. [op |-> "ReleaseArtifact", id |-> i].op = "ReleaseArtifact"
          OBVIOUS
        <5> QED
          BY <4>3, <5>1 DEF Sent
      <4> QED
        BY <4>1, <4>2, <4>3
    <3>2. CASE CloseSend(t)
      <4>1. CASE termination
        BY <3>2, <4>1 DEF CloseSend, Leave, Goto
      <4>2. CASE ~termination
        <5>1. /\ pc' = [pc EXCEPT ![t] = "closeWait"]
              /\ toChild' = toChild \/ (toChild' = Append(toChild, [op |-> "Shutdown"]) /\ child \in Alive)
          BY <3>2, <4>2 DEF CloseSend, Goto
        <5>2. [op |-> "Shutdown"].op = "Shutdown"
          OBVIOUS
        <5>3. toChild' = Append(toChild, [op |-> "Shutdown"]) =>
                \E req : toChild' = Append(toChild, req) /\ req.op = "Shutdown"
          BY <5>2
        <5> QED
          BY <5>1, <5>3
      <4> QED
        BY <4>1, <4>2
    <3> QED
      BY <1>6, <3>1, <3>2
  <2>3. PICK to \in {"dropRef", "closeWait", "idle"} :
          /\ pc' = [pc EXCEPT ![t] = to]
          /\ \/ toChild' = toChild
             \/ \E req : /\ toChild' = Append(toChild, req) /\ child \in Alive
                         /\ req.op = "ReleaseArtifact" \/ (req.op = "Shutdown" /\ to = "closeWait")
    BY <2>2
  <2>4. \A i \in 1..Len(toChild) : toChild[i].op = "ReleaseArtifact"
    BY <1>2, <1>3, <2>1 DEF Quiet
  <2>5. pc'[t] = to
    BY <2>3
  <2>6. \A i \in 1..Len(toChild') : \/ toChild'[i].op = "ReleaseArtifact"
                                    \/ toChild'[i].op = "Shutdown" /\ \E u \in Thread : pc'[u] = "closeWait"
    <3>1. CASE toChild' = toChild
      BY <2>4, <3>1
    <3>2. ASSUME NEW req, toChild' = Append(toChild, req),
                 req.op = "ReleaseArtifact" \/ (req.op = "Shutdown" /\ to = "closeWait")
          PROVE  \A i \in 1..Len(toChild') : \/ toChild'[i].op = "ReleaseArtifact"
                                             \/ toChild'[i].op = "Shutdown" /\ \E u \in Thread : pc'[u] = "closeWait"
      <4>1. Len(toChild') = Len(toChild) + 1 /\ toChild'[Len(toChild) + 1] = req /\ Len(toChild) \in Nat
            /\ \A i \in 1..Len(toChild) : toChild'[i] = toChild[i]
        BY <3>2, Appended
      <4>2. \A i \in 1..Len(toChild') : i \in 1..Len(toChild) \/ i = Len(toChild) + 1
        BY <4>1
      <4> QED
        BY <2>4, <2>5, <3>2, <4>1, <4>2
    <3> QED
      BY <2>3, <3>1, <3>2
  <2>7. child # "boot"
    BY <1>2, <2>1 DEF Quiet, RoleInv, CreatorIsAlone, CloserIsLast, Creating, Closing, Alive
  <2>8. toParent' = <<>> /\ (child' \in Alive => child' = (IF runtime' = "new" THEN "boot" ELSE "loop"))
    BY <1>2, <1>4, <2>1 DEF Quiet
  <2>9. Quiet'
    BY <2>1, <2>6, <2>7, <2>8 DEF Quiet
  <2>10. pc' = [pc EXCEPT ![t] = to] /\ to \notin Waiting \cup {"copyOut", "decode"}
         /\ (child' \in Alive => pending' = {})
    BY <1>2, <1>4, <2>1, <2>3 DEF Waiting
  <2> QED
    BY <1>1, <2>9, <2>10, QuietAfter
<1> QED
  BY <1>5, <1>6

LEMMA ExchangeInit == Init => ExchangeInv
  BY DEF Init, ExchangeInv, Quiet, Waiting, Alive, NoCall

LEMMA ExchangeStep ==
  TypeInv /\ EndInv /\ RoleInv /\ ChildInv /\ ExchangeInv /\ HandleInv /\ [Next]_vars => ExchangeInv'
<1> SUFFICES ASSUME TypeInv, EndInv, RoleInv, ChildInv, ExchangeInv, HandleInv, [Next]_vars
             PROVE  ExchangeInv'
  OBVIOUS
<1>1. CASE HostGone'
  BY <1>1 DEF ExchangeInv
<1>2. CASE ~HostGone'
  <2>1. ~HostGone
    BY <1>2, GoneStays
  <2>2. ASSUME NEW t \in Thread, Host(t) \/ Caller(t) PROVE ExchangeInv'
    BY <2>1, <2>2, SendingKeepsExchange, ReadingKeepsExchange, RestKeepsExchange, CallerKeepsExchange,
       PartingKeepsExchange DEF Host
  <2>3. CASE HostDies
    BY <1>2, <2>3, Typed DEF HostDies, HostGone
  <2>4. CASE UNCHANGED vars
    <3>1. UNCHANGED <<pc, call, runtime, toChild, toParent, child, pending, reply, job>>
      BY <2>4 DEF vars, hostVars, childVars, heapVars
    <3>2. \A u \in Thread : ExecuteRequest(u)' = ExecuteRequest(u)
      BY <3>1 DEF ExecuteRequest
    <3>3. \A u \in Thread : Exchange(u) => Exchange(u)'
      <4> SUFFICES ASSUME NEW u \in Thread, Exchange(u) PROVE Exchange(u)'
        OBVIOUS
      <4>1. Asked(u) => Asked(u)'
        BY <3>1, <3>2 DEF Asked, IsAskedBy
      <4>2. Served(u) => Served(u)'
        BY <3>1, <3>2 DEF Served, IsAnswerTo
      <4>3. Answered(u) => Answered(u)'
        BY <3>1 DEF Answered, IsAnswerTo
      <4>4. Lost(u) => Lost(u)'
        BY <3>1 DEF Lost
      <4> QED
        BY <4>1, <4>2, <4>3, <4>4 DEF Exchange
    <3>4. Quiet => Quiet'
      BY <3>1 DEF Quiet
    <3> QED
      BY <2>1, <3>1, <3>3, <3>4 DEF ExchangeInv
  <2> QED
    BY <2>1, <2>2, <2>3, <2>4, ChildKeepsExchange, StepCases
<1> QED
  BY <1>1, <1>2

-----------------------------------------------------------------------------
(* Layer 5 is inductive.                                                   *)

LEMMA GoneInit == Init => GoneInv
  BY DEF Init, GoneInv

LEMMA GoneStep == TypeInv /\ GoneInv /\ [Next]_vars => GoneInv'
<1> SUFFICES ASSUME TypeInv, GoneInv, [Next]_vars, HostGone' PROVE arts' = {} /\ runtime' # "live"
  BY DEF GoneInv
<1>1. CASE HostDies
  BY <1>1 DEF HostDies
<1>2. CASE Child \/ ChildCrash
  BY <1>2, ChildKeepsRoles DEF GoneInv, HostGone
<1>3. CASE UNCHANGED vars
  BY <1>3 DEF GoneInv, HostGone, vars, hostVars
<1>4. ASSUME NEW t \in Thread, Host(t) \/ Caller(t) PROVE FALSE
  <2>1. \E to \in Location \ {"gone"} : pc' = [pc EXCEPT ![t] = to]
    <3>1. CASE \E b \in Buf : MemNew(t, b) \/ MemDrop(t, b)
      <4>1. pc[t] = "idle" /\ pc' = pc
        BY <3>1 DEF MemNew, MemDrop
      <4>2. pc' = [pc EXCEPT ![t] = "idle"] /\ "idle" \in Location \ {"gone"}
        BY <4>1, Typed DEF Location
      <4> QED
        BY <4>2
    <3>2. CASE Host(t) /\ ~DropRef(t) /\ ~ExecRecv(t) /\ ~DecodeImport(t) /\ ~DecodeCopy(t)
      BY <3>2 DEF Host, NewSend, NewRecv, LoadLock, LoadSend, LoadRecv, ExecLock,
         ExecSend, ReleaseSend, ReleaseRecv, Return, DropLock, DropSend,
         CloseSend, CloseWait, NewFails, Finish, Leave, Goto, Location, Locked, Loading, Dropping
    <3>3. CASE DropRef(t) \/ ExecRecv(t) \/ DecodeImport(t) \/ DecodeCopy(t)
      BY <3>3 DEF DropRef, ExecRecv, DecodeImport, DecodeCopy, Finish, Leave, Goto, Location, Locked, Dropping
    <3>4. CASE NewSpawn(t) \/ DropRuntime(t) \/ \E m \in Module : CallLoad(t, m)
      BY <3>4 DEF NewSpawn, DropRuntime, CallLoad, Goto, Location, Loading
    <3>5. CASE \E a \in arts : DropArtifact(t, a) \/ \E own, ref \in SUBSET Buf : CallExec(t, a, own, ref)
      BY <3>5 DEF DropArtifact, CallExec, Goto, Location, Dropping
    <3> QED
      BY <1>4, <3>1, <3>2, <3>3, <3>4, <3>5 DEF Caller
  <2> QED
    BY <2>1, Typed DEF HostGone
<1> QED
  BY StepCases, <1>1, <1>2, <1>3, <1>4

\* A step of the host that makes no handle and drops none.
LEMMA HostKeepsHandles ==
  ASSUME TypeInv, HandleInv, ~HostGone, UNCHANGED <<arts, artifacts, reply>>,
         child' = child \/ child' \notin Alive,
         \/ toChild' = toChild
         \/ \E req : /\ toChild' = Append(toChild, req)
                     /\ req.op = "ReleaseArtifact" =>
                          req.id < Len(artifacts) /\ \A b \in arts : req.id # b.id,
         toParent' = toParent \/ toParent' = <<>>,
         NEW t \in Thread, NEW to, pc' = [pc EXCEPT ![t] = to],
         \A u \in Thread \ {t} : call'[u] = call[u],
         to # "dropLock", to = "dropSend" => pc[t] = "dropLock" /\ call'[t].art = call[t].art,
         to = "loadRecv" => child # "reply" /\ toParent' = <<>>
  PROVE  HandleInv'
<1> USE Typed
<1> SUFFICES ASSUME child \in Alive, child' = child
             PROVE  LiveHandles' /\ DroppedHandles' /\ ReleasedIds' /\ LoadedIds'
  BY DEF HandleInv
<1>1. LiveHandles /\ DroppedHandles /\ ReleasedIds /\ LoadedIds
  BY DEF HandleInv
<1>2. \A u \in Thread : pc'[u] \in {"dropLock", "dropSend"} =>
        pc[u] \in {"dropLock", "dropSend"} /\ call'[u].art = call[u].art
  <2> SUFFICES ASSUME NEW u \in Thread, pc'[u] \in {"dropLock", "dropSend"}
               PROVE  pc[u] \in {"dropLock", "dropSend"} /\ call'[u].art = call[u].art
    OBVIOUS
  <2>1. CASE u = t
    <3>1. pc'[t] = to
      OBVIOUS
    <3> QED
      BY <2>1, <3>1
  <2>2. CASE u # t
    <3>1. pc'[u] = pc[u] /\ call'[u] = call[u]
      BY <2>2
    <3> QED
      BY <3>1
  <2> QED
    BY <2>1, <2>2
<1>3. \A id, m : Denotes(id, m)' <=> Denotes(id, m)
  BY DEF Denotes
<1>4. \A id : IsFresh(id) => IsFresh(id)'
  BY <1>2 DEF IsFresh
<1>5. LiveHandles'
  BY <1>1, <1>3 DEF LiveHandles
<1>6. DroppedHandles'
  BY <1>1, <1>2 DEF DroppedHandles
<1>7. ReleasedIds'
  <2>1. CASE toChild' = toChild
    BY <1>1, <2>1 DEF ReleasedIds
  <2>2. ASSUME NEW req, toChild' = Append(toChild, req),
               req.op = "ReleaseArtifact" => req.id < Len(artifacts) /\ \A b \in arts : req.id # b.id
        PROVE  ReleasedIds'
    <3>1. Len(toChild') = Len(toChild) + 1 /\ toChild'[Len(toChild) + 1] = req /\ Len(toChild) \in Nat
          /\ \A i \in 1..Len(toChild) : toChild'[i] = toChild[i]
      BY <2>2, Appended
    <3>2. \A i \in 1..Len(toChild') : i \in 1..Len(toChild) \/ i = Len(toChild) + 1
      BY <3>1
    <3> QED
      BY <1>1, <2>2, <3>1, <3>2 DEF ReleasedIds
  <2> QED
    BY <2>1, <2>2
<1>8. LoadedIds'
  <2> SUFFICES ASSUME NEW u \in Thread, pc'[u] = "loadRecv"
               PROVE  /\ child = "reply" => Fits(u, reply)'
                      /\ toParent' # <<>> => Fits(u, toParent[1])'
    BY DEF LoadedIds
  <2>1. CASE u = t
    <3>1. pc'[t] = to
      OBVIOUS
    <3> QED
      BY <2>1, <3>1
  <2>2. CASE u # t
    <3>1. pc[u] = "loadRecv" /\ call'[u] = call[u]
      BY <2>2
    <3>2. \A res : Fits(u, res) => Fits(u, res)'
      BY <1>3, <1>4, <3>1 DEF Fits
    <3>3. /\ child = "reply" => Fits(u, reply)
          /\ toParent # <<>> => Fits(u, toParent[1])
      BY <1>1, <3>1 DEF LoadedIds
    <3> QED
      BY <3>2, <3>3
  <2> QED
    BY <2>1, <2>2
<1> QED
  BY <1>5, <1>6, <1>7, <1>8

\* A child that has just been started knows no handle, and none is live.
LEMMA SpawnKeepsHandles ==
  ASSUME TypeInv, EndInv, RoleInv, ChildInv, NEW t \in Thread, NewSpawn(t)
  PROVE  HandleInv'
<1> USE Typed
<1>1. /\ runtime = "none" /\ child = "none" /\ UNCHANGED <<arts, toChild, toParent>> /\ child' = "boot"
      /\ pc' = [pc EXCEPT ![t] = "newSend"]
  BY DEF NewSpawn, EndInv, Goto
<1>2. arts = {} /\ \A u \in Thread : pc[u] \in Creating \cup {"idle", "gone"}
  BY <1>1 DEF RoleInv, CreatorIsAlone
<1>3. \A u \in Thread : pc'[u] \notin {"dropLock", "dropSend", "loadRecv"}
  BY <1>1, <1>2 DEF Creating
<1>4. toChild = <<>>
  BY <1>1 DEF ChildInv, Alive
<1> QED
  BY <1>1, <1>2, <1>3, <1>4 DEF HandleInv, LiveHandles, DroppedHandles, ReleasedIds, LoadedIds

\* The id that the child answered is that of the new handle.
LEMMA LoadKeepsHandles ==
  ASSUME TypeInv, RoleInv, ChildInv, ExchangeInv, HandleInv, ~HostGone, NEW t \in Thread, LoadRecv(t)
  PROVE  HandleInv'
<1> USE Typed
<1>1. /\ pc[t] = "loadRecv" /\ pc' = [pc EXCEPT ![t] = "returning"]
      /\ UNCHANGED <<call, artifacts, toChild, reply>>
  BY DEF LoadRecv, Finish, Goto, heapVars
<1>2. CASE Received("Loaded") /\ Head(toParent).ok
  <2>1. /\ Answered(t) /\ Head(toParent) = toParent[1] /\ toParent' = <<>> /\ toChild = <<>>
        /\ child' = child /\ toParent # <<>> /\ toParent[1].op = "Loaded" /\ toParent[1].ok
    BY <1>1, <1>2, WhatIsRead DEF Received
  <2> DEFINE new == [id |-> toParent[1].id, module |-> call[t].module]
  <2>2. arts' = arts \cup {new}
    BY <1>2, <2>1 DEF LoadRecv, ReceiveFailed, Received
  <2> SUFFICES ASSUME child \in Alive
               PROVE  LiveHandles' /\ DroppedHandles' /\ ReleasedIds' /\ LoadedIds'
    BY <2>1 DEF HandleInv
  <2>3. LiveHandles /\ DroppedHandles /\ Denotes(new.id, new.module) /\ IsFresh(new.id)
    BY <1>1, <2>1 DEF HandleInv, LoadedIds, Fits
  <2> HIDE DEF new
  <2>4. LiveHandles'
    BY <1>1, <2>2, <2>3 DEF LiveHandles, Denotes
  <2>5. DroppedHandles'
    BY <1>1, <2>2, <2>3 DEF DroppedHandles, IsFresh
  <2>6. ReleasedIds'
    BY <1>1, <2>1 DEF ReleasedIds
  <2>7. LoadedIds'
    <3>1. child' # "reply"
      BY <2>1 DEF Answered
    <3> QED
      BY <2>1, <3>1 DEF LoadedIds
  <2> QED
    BY <2>4, <2>5, <2>6, <2>7
<1>3. CASE ~(Received("Loaded") /\ Head(toParent).ok)
  <2>1. arts' = arts /\ (Received("Loaded") \/ \E r : ReceiveFailed("Loaded", r))
    BY <1>3 DEF LoadRecv
  <2>2. toParent' = <<>> /\ (child' = child \/ child' \notin Alive)
    BY <1>1, <2>1, WhatIsRead
  <2> QED
    BY <1>1, <2>1, <2>2, HostKeepsHandles
<1> QED
  BY <1>2, <1>3

\* Handles with one id are one handle, so a dropped one leaves no other behind.
LEMMA DropKeepsHandles ==
  ASSUME TypeInv, HandleInv, ~HostGone, NEW t \in Thread, NEW a \in arts, DropArtifact(t, a)
  PROVE  HandleInv'
<1> USE Typed
<1>1. /\ pc[t] = "idle" /\ pc' = [pc EXCEPT ![t] = "dropLock"] /\ arts' = arts \ {a}
      /\ call' = [call EXCEPT ![t] = [NoCall EXCEPT !.art = {a}]]
      /\ UNCHANGED <<artifacts, toChild, toParent, child, reply>>
  BY DEF DropArtifact, Goto, childVars, heapVars
<1> SUFFICES ASSUME child \in Alive
             PROVE  LiveHandles' /\ DroppedHandles' /\ ReleasedIds' /\ LoadedIds'
  BY <1>1 DEF HandleInv
<1>2. LiveHandles /\ DroppedHandles /\ ReleasedIds /\ LoadedIds
  BY DEF HandleInv
<1>3. call'[t].art = {a}
  BY <1>1, NewCalls
<1>4. \A b \in arts' : b.id # a.id
  <2> SUFFICES ASSUME NEW b \in arts, b.id = a.id PROVE b = a
    BY <1>1
  <2>1. a \in Artifact /\ b \in Artifact /\ a.module = b.module
    BY <1>2 DEF LiveHandles, Denotes
  <2> QED
    BY <2>1 DEF Artifact
<1>5. a.id < Len(artifacts)
  BY <1>2 DEF LiveHandles, Denotes
<1>6. \A u \in Thread \ {t} : pc'[u] = pc[u] /\ call'[u] = call[u]
  BY <1>1
<1>7. pc'[t] = "dropLock"
  BY <1>1
<1>8. LiveHandles'
  BY <1>1, <1>2 DEF LiveHandles, Denotes
<1>9. DroppedHandles'
  <2> SUFFICES ASSUME NEW u \in Thread, pc'[u] \in {"dropLock", "dropSend"}, NEW c \in call'[u].art
               PROVE  c.id < Len(artifacts) /\ \A b \in arts' : c.id # b.id
    BY <1>1 DEF DroppedHandles
  <2>1. CASE u = t
    BY <1>3, <1>4, <1>5, <2>1
  <2>2. CASE u # t
    BY <1>1, <1>2, <1>6, <2>2 DEF DroppedHandles
  <2> QED
    BY <2>1, <2>2
<1>10. ReleasedIds'
  BY <1>1, <1>2 DEF ReleasedIds
<1>11. \A u \in Thread : \A res : Fits(u, res) /\ u # t => Fits(u, res)'
  <2>1. \A id : IsFresh(id) => IsFresh(id)'
    <3> SUFFICES ASSUME NEW id, IsFresh(id), NEW u \in Thread, pc'[u] \in {"dropLock", "dropSend"},
                        NEW c \in call'[u].art
                 PROVE  c.id # id
      BY <1>1 DEF IsFresh
    <3>1. CASE u = t
      BY <1>3, <3>1 DEF IsFresh
    <3>2. CASE u # t
      BY <1>6, <3>2 DEF IsFresh
    <3> QED
      BY <3>1, <3>2
  <2> QED
    BY <1>1, <1>6, <2>1 DEF Fits, Denotes
<1>12. LoadedIds'
  <2> SUFFICES ASSUME NEW u \in Thread, pc'[u] = "loadRecv"
               PROVE  /\ child = "reply" => Fits(u, reply)'
                      /\ toParent # <<>> => Fits(u, toParent[1])'
    BY <1>1 DEF LoadedIds
  <2>1. u # t /\ pc[u] = "loadRecv"
    BY <1>6, <1>7
  <2>2. /\ child = "reply" => Fits(u, reply)
        /\ toParent # <<>> => Fits(u, toParent[1])
    BY <1>2, <2>1 DEF LoadedIds
  <2>3. UNCHANGED <<reply, toParent>>
    BY <1>1
  <2> QED
    BY <1>11, <2>1, <2>2, <2>3
<1> QED
  BY <1>8, <1>9, <1>10, <1>12

\* Every other step of the host.
LEMMA HostHandles ==
  ASSUME TypeInv, EndInv, RoleInv, ChildInv, ExchangeInv, HandleInv, ~HostGone,
         NEW t \in Thread, Host(t) \/ Caller(t)
  PROVE  HandleInv'
<1> USE Typed DEF Goto, Leave, Finish
<1>1. CASE LoadLock(t) \/ ExecLock(t) \/ DropLock(t)
  <2>1. /\ UNCHANGED <<arts, artifacts, reply, child, toChild, toParent, call>>
        /\ \E to \in {"loadSend", "execSend", "dropSend", "returning", "dropRef"} :
             pc' = [pc EXCEPT ![t] = to] /\ (to = "dropSend" => pc[t] = "dropLock")
    BY <1>1 DEF LoadLock, ExecLock, DropLock, childVars, heapVars
  <2> QED
    BY <2>1, HostKeepsHandles
<1>2. CASE DecodeImport(t) \/ DecodeCopy(t) \/ Return(t) \/ DropRef(t) \/ DropRuntime(t)
  <2>1. UNCHANGED <<arts, artifacts, reply, child, toChild, toParent>>
    BY <1>2 DEF DecodeImport, DecodeCopy, Return, DropRef, DropRuntime, childVars, heapVars
  <2>2. /\ \A u \in Thread \ {t} : call'[u] = call[u]
        /\ \E to \in {"copyOut", "relSend", "idle", "closeSend"} : pc' = [pc EXCEPT ![t] = to]
    BY <1>2 DEF DecodeImport, DecodeCopy, Return, DropRef, DropRuntime
  <2> QED
    BY <2>1, <2>2, HostKeepsHandles
<1>3. CASE NewSend(t) \/ LoadSend(t) \/ ExecSend(t) \/ ReleaseSend(t)
  <2>1. pc[t] \in Engaged \ Waiting /\ UNCHANGED <<arts, artifacts, reply, child, toParent>>
    BY <1>3 DEF NewSend, LoadSend, ExecSend, ReleaseSend, childVars, heapVars, Engaged, Creating, Locked, Waiting
  <2>2. toParent = <<>> /\ child # "reply"
    BY <2>1, EngagedIsQuiet DEF Quiet, Alive
  <2>3. toChild' = toChild \/ \E req : toChild' = Append(toChild, req) /\ req.op # "ReleaseArtifact"
    <3>1. ASSUME NEW req \in {[op |-> "Initialize"], [op |-> "LoadModule", module |-> call[t].module],
                              ExecuteRequest(t), [op |-> "ReleaseOutputs"]},
                 Sent(req)
          PROVE  \E r : toChild' = Append(toChild, r) /\ r.op # "ReleaseArtifact"
      <4>1. req.op # "ReleaseArtifact"
        BY DEF ExecuteRequest
      <4> QED
        BY <3>1, <4>1 DEF Sent
    <3> QED
      BY <1>3, <3>1 DEF NewSend, LoadSend, ExecSend, ReleaseSend, SendFailed, SendPanicked
  <2>4. /\ \A u \in Thread \ {t} : call'[u] = call[u]
        /\ \E to \in Waiting \cup {"closeSend", "returning"} : pc' = [pc EXCEPT ![t] = to]
    BY <1>3 DEF NewSend, LoadSend, ExecSend, ReleaseSend, NewFails, DropValues, Waiting
  <2> QED
    BY <2>1, <2>2, <2>3, <2>4, HostKeepsHandles DEF Waiting
<1>4. CASE NewRecv(t) \/ ExecRecv(t) \/ ReleaseRecv(t)
  <2>1. UNCHANGED <<arts, artifacts, reply, toChild>>
    BY <1>4 DEF NewRecv, ExecRecv, ReleaseRecv, heapVars
  <2>2. PICK op : /\ Received(op) \/ \E r : ReceiveFailed(op, r)
                  /\ \/ pc[t] = "newRecv" /\ op = "Initialized"
                     \/ pc[t] = "execRecv" /\ op = "Executed"
                     \/ pc[t] = "relRecv" /\ op = "OutputsReleased"
    BY <1>4 DEF NewRecv, ExecRecv, ReleaseRecv
  <2>3. toParent' = <<>> /\ (child' = child \/ child' \notin Alive)
    BY <2>2, WhatIsRead
  <2>4. /\ \A u \in Thread \ {t} : call'[u] = call[u]
        /\ \E to \in {"idle", "closeSend", "decode", "returning"} : pc' = [pc EXCEPT ![t] = to]
    BY <1>4 DEF NewRecv, ExecRecv, ReleaseRecv, NewFails, DropValues
  <2> QED
    BY <2>1, <2>3, <2>4, HostKeepsHandles
<1>5. CASE DropSend(t)
  <2>1. pc[t] = "dropSend" /\ pc' = [pc EXCEPT ![t] = "dropRef"]
        /\ UNCHANGED <<arts, artifacts, reply, child, toParent, call>>
    BY <1>5 DEF DropSend, childVars, heapVars
  <2>2. PICK a \in Artifact : call[t].art = {a}
    BY <2>1 DEF RoleInv, CallsHoldHandles
  <2>3. toChild' = toChild \/ Sent([op |-> "ReleaseArtifact", id |-> a.id])
    BY <1>5, <2>2 DEF DropSend, SendFailed, SendPanicked
  <2> DEFINE req == [op |-> "ReleaseArtifact", id |-> a.id]
  <2>4. ASSUME Sent(req)
        PROVE  toChild' = Append(toChild, req) /\ req.id < Len(artifacts) /\ \A b \in arts : req.id # b.id
    BY <2>1, <2>2, <2>4 DEF Sent, HandleInv, DroppedHandles
  <2> HIDE DEF req
  <2> QED
    BY <2>1, <2>3, <2>4, HostKeepsHandles DEF req
<1>6. CASE CloseSend(t)
  <2>1. UNCHANGED <<arts, artifacts, reply, child, toParent, call>>
        /\ \E to \in {"idle", "closeWait"} : pc' = [pc EXCEPT ![t] = to]
    BY <1>6 DEF CloseSend, childVars, heapVars
  <2>2. toChild' = toChild \/ \E req : toChild' = Append(toChild, req) /\ req.op # "ReleaseArtifact"
    <3>1. [op |-> "Shutdown"].op # "ReleaseArtifact"
      OBVIOUS
    <3>2. toChild' = toChild \/ toChild' = Append(toChild, [op |-> "Shutdown"])
      BY <1>6 DEF CloseSend
    <3> QED
      BY <3>1, <3>2
  <2> QED
    BY <2>1, <2>2, HostKeepsHandles
<1>7. CASE CloseWait(t)
  <2>1. UNCHANGED <<arts, artifacts, reply, toChild, toParent, call>> /\ child' \notin Alive
        /\ pc' = [pc EXCEPT ![t] = "idle"]
    BY <1>7 DEF CloseWait, heapVars, Alive
  <2> QED
    BY <2>1, HostKeepsHandles
<1>8. CASE Caller(t) /\ ~NewSpawn(t) /\ ~DropRuntime(t) /\ ~\E a \in arts : DropArtifact(t, a)
  <2>1. CASE \E b \in Buf : MemNew(t, b) \/ MemDrop(t, b)
    <3>1. pc[t] = "idle" /\ pc' = pc /\ UNCHANGED <<arts, artifacts, reply, child, toChild, toParent, call>>
      BY <2>1 DEF MemNew, MemDrop, childVars, heapVars
    <3>2. pc' = [pc EXCEPT ![t] = "idle"]
      BY <3>1
    <3> QED
      BY <3>1, <3>2, HostKeepsHandles
  <2>2. CASE (\E m \in Module : CallLoad(t, m))
              \/ \E a \in arts, own, ref \in SUBSET Buf : CallExec(t, a, own, ref)
    <3>1. UNCHANGED <<arts, artifacts, reply, child, toChild, toParent>>
          /\ \E to \in {"loadLock", "execLock"} : pc' = [pc EXCEPT ![t] = to]
      BY <2>2 DEF CallLoad, CallExec, childVars, heapVars
    <3>2. \A u \in Thread \ {t} : call'[u] = call[u]
      BY <2>2 DEF CallLoad, CallExec
    <3> QED
      BY <3>1, <3>2, HostKeepsHandles
  <2> QED
    BY <1>8, <2>1, <2>2 DEF Caller
<1> QED
  BY <1>1, <1>2, <1>3, <1>4, <1>5, <1>6, <1>7, <1>8, SpawnKeepsHandles, LoadKeepsHandles,
     DropKeepsHandles DEF Host, Caller

\* A step of the child that changes neither its vector nor what is released.
LEMMA ChildAside ==
  ASSUME HandleInv, UNCHANGED <<pc, call, arts>>, child \in Alive, ~HostGone,
         child' \in Alive => artifacts' = artifacts /\ (toChild' = toChild \/ toChild' = <<>>),
         \A u \in Thread : pc[u] = "loadRecv" /\ child' \in Alive =>
           /\ child' = "reply" => reply'.op # "Loaded" \/ ~reply'.ok \/ (child = "reply" /\ reply' = reply)
           /\ toParent' # <<>> => Fits(u, toParent'[1])
  PROVE  HandleInv'
<1> SUFFICES ASSUME child' \in Alive PROVE LiveHandles' /\ DroppedHandles' /\ ReleasedIds' /\ LoadedIds'
  BY DEF HandleInv
<1>1. LiveHandles /\ DroppedHandles /\ ReleasedIds /\ LoadedIds
  BY DEF HandleInv
<1>2. LiveHandles' /\ DroppedHandles'
  BY <1>1 DEF LiveHandles, DroppedHandles, Denotes
<1>3. ReleasedIds'
  <2>1. CASE toChild' = toChild
    BY <1>1, <2>1 DEF ReleasedIds
  <2>2. CASE toChild' = <<>>
    BY <2>2 DEF ReleasedIds
  <2> QED
    BY <2>1, <2>2
<1>4. LoadedIds'
  <2> SUFFICES ASSUME NEW u \in Thread, pc[u] = "loadRecv"
               PROVE  /\ child' = "reply" => Fits(u, reply)'
                      /\ toParent' # <<>> => Fits(u, toParent[1])'
    BY DEF LoadedIds
  <2>1. \A res : Fits(u, res) => Fits(u, res)'
    BY DEF Fits, Denotes, IsFresh
  <2>2. ASSUME child' = "reply" PROVE Fits(u, reply)'
    <3>1. CASE reply'.op # "Loaded" \/ ~reply'.ok
      BY <3>1 DEF Fits
    <3>2. CASE child = "reply" /\ reply' = reply
      BY <1>1, <2>1, <3>2 DEF LoadedIds
    <3> QED
      BY <2>2, <3>1, <3>2
  <2> QED
    BY <2>1, <2>2
<1> QED
  BY <1>2, <1>3, <1>4

\* A new id is the length of the vector: above every id in use.
LEMMA ChildLoadKeepsHandles ==
  ASSUME TypeInv, RoleInv, ExchangeInv, HandleInv, ~HostGone, ChildLoad
  PROVE  HandleInv'
<1> USE Typed
<1>1. UNCHANGED <<pc, call, arts>>
  BY ChildKeepsRoles DEF Child
<1>2. /\ child = "loop" /\ toChild # <<>> /\ Head(toChild).op = "LoadModule" /\ toChild' = Tail(toChild)
      /\ child' = "reply" /\ toParent' = toParent
  BY DEF ChildLoad, ChildTakes, ChildAnswers
<1>3. PICK t \in Thread : pc[t] \in Waiting /\ Asked(t) /\ Tail(toChild) = <<>> /\ IsAskedBy(t, Head(toChild))
  BY <1>2, HeadIsAsked
<1>4. pc[t] = "loadRecv" /\ Head(toChild).module = call[t].module /\ toParent = <<>> /\ toChild' = <<>>
  BY <1>2, <1>3 DEF Asked, Waiting, IsAskedBy, ExecuteRequest
<1>5. \A u \in Thread : pc[u] = "loadRecv" => u = t
  BY <1>4, OneEngaged DEF Engaged, Locked
<1>6. CASE reply' = [op |-> "Loaded", ok |-> FALSE] /\ artifacts' = artifacts
  <2>1. ~reply'.ok
    BY <1>6
  <2> QED
    BY <1>1, <1>2, <1>4, <1>6, <2>1, ChildAside DEF Alive
<1>7. CASE /\ artifacts' = Append(artifacts, Head(toChild).module)
           /\ reply' = [op |-> "Loaded", ok |-> TRUE, id |-> Len(artifacts)]
  <2>1. /\ Len(artifacts') = Len(artifacts) + 1 /\ Len(artifacts) \in Nat
        /\ artifacts'[Len(artifacts) + 1] = call[t].module
        /\ \A i \in 1..Len(artifacts) : artifacts'[i] = artifacts[i]
    BY <1>4, <1>7, Appended
  <2>2. LiveHandles /\ DroppedHandles
    BY <1>2 DEF HandleInv, Alive
  <2>3. \A a \in Artifact : a.id \in Nat
    BY SessionAssumption DEF Artifact, Id
  <2>4. LiveHandles'
    <3> SUFFICES ASSUME NEW a \in arts PROVE Denotes(a.id, a.module)'
      BY <1>1 DEF LiveHandles
    <3>1. a.id < Len(artifacts) /\ artifacts[a.id + 1] = a.module /\ a.id \in Nat
      BY <2>2, <2>3 DEF LiveHandles, Denotes
    <3>2. a.id + 1 \in 1..Len(artifacts) /\ a.id < Len(artifacts')
      BY <2>1, <3>1
    <3> QED
      BY <2>1, <3>1, <3>2 DEF Denotes
  <2>5. \A u \in Thread : \A a \in call[u].art : a.id \in Nat
    BY <2>3, CallFields
  <2>6. DroppedHandles'
    BY <1>1, <2>1, <2>2, <2>5 DEF DroppedHandles
  <2>7. ReleasedIds'
    BY <1>4 DEF ReleasedIds
  <2>8. \A id : id = Len(artifacts) => IsFresh(id)'
    <3>1. \A a \in arts : a.id # Len(artifacts)
      BY <2>1, <2>2, <2>3 DEF LiveHandles, Denotes
    <3>2. \A u \in Thread : pc[u] \in {"dropLock", "dropSend"} => \A a \in call[u].art : a.id # Len(artifacts)
      BY <2>1, <2>2, <2>5 DEF DroppedHandles
    <3> QED
      BY <1>1, <3>1, <3>2 DEF IsFresh
  <2>9. Fits(t, reply)'
    <3>1. reply'.id = Len(artifacts)
      BY <1>7
    <3>2. Denotes(reply.id, call[t].module)'
      BY <1>1, <2>1, <3>1 DEF Denotes
    <3>3. IsFresh(reply.id)'
      BY <1>1, <2>8, <3>1 DEF IsFresh
    <3> QED
      BY <3>2, <3>3 DEF Fits
  <2>10. LoadedIds'
    BY <1>1, <1>2, <1>4, <1>5, <2>9 DEF LoadedIds
  <2> QED
    BY <2>4, <2>6, <2>7, <2>10 DEF HandleInv
<1> QED
  BY <1>6, <1>7 DEF ChildLoad, ChildAnswers

\* Storing None for a released id touches no live one.
LEMMA ChildReleaseKeepsHandles ==
  ASSUME TypeInv, RoleInv, ExchangeInv, HandleInv, ~HostGone, ChildReleaseArtifact
  PROVE  HandleInv'
<1> USE Typed
<1>1. UNCHANGED <<pc, call, arts>>
  BY ChildKeepsRoles DEF Child
<1>2. /\ child = "loop" /\ toChild # <<>> /\ Head(toChild).op = "ReleaseArtifact" /\ toChild' = Tail(toChild)
      /\ UNCHANGED <<child, toParent>>
  BY DEF ChildReleaseArtifact, ChildTakes
<1>3. /\ Head(toChild) = toChild[1] /\ Len(toChild) \in Nat /\ Len(toChild) >= 1
      /\ Len(toChild') = Len(toChild) - 1 /\ \A i \in 1..Len(toChild') : toChild'[i] = toChild[i + 1]
  BY <1>2, HeadTail
<1> DEFINE id == Head(toChild).id
<1>4. LiveHandles /\ DroppedHandles /\ ReleasedIds
  BY <1>2 DEF HandleInv, Alive
<1>5. id \in Nat /\ id < Len(artifacts) /\ \A b \in arts : id # b.id
  <2>1. Head(toChild) \in Request
    BY <1>2
  <2>2. id \in Nat
    BY <1>2, <2>1, RequestFields, SessionAssumption DEF Id
  <2> QED
    BY <1>2, <1>3, <1>4, <2>2 DEF ReleasedIds
<1>6. artifacts' = [artifacts EXCEPT ![id + 1] = NoModule]
  BY <1>5 DEF ChildReleaseArtifact
<1> HIDE DEF id
<1>7. Len(artifacts') = Len(artifacts) /\ \A i \in 1..Len(artifacts) : i # id + 1 => artifacts'[i] = artifacts[i]
  BY <1>6
<1>8. LiveHandles'
  <2> SUFFICES ASSUME NEW a \in arts PROVE Denotes(a.id, a.module)'
    BY <1>1 DEF LiveHandles
  <2>1. a.id < Len(artifacts) /\ artifacts[a.id + 1] = a.module /\ a.id # id
    BY <1>4, <1>5 DEF LiveHandles, Denotes
  <2>2. a.id \in Nat
    BY SessionAssumption DEF Artifact, Id
  <2>3. a.id + 1 \in 1..Len(artifacts) /\ a.id + 1 # id + 1
    BY <1>5, <2>1, <2>2
  <2> QED
    BY <1>7, <2>1, <2>3 DEF Denotes
<1>9. DroppedHandles'
  BY <1>1, <1>4, <1>7 DEF DroppedHandles
<1>10. ReleasedIds'
  <2> SUFFICES ASSUME NEW i \in 1..Len(toChild'), toChild'[i].op = "ReleaseArtifact"
               PROVE  toChild'[i].id < Len(artifacts') /\ \A b \in arts : toChild'[i].id # b.id
    BY <1>1 DEF ReleasedIds
  <2>1. i + 1 \in 1..Len(toChild) /\ toChild'[i] = toChild[i + 1]
    BY <1>3
  <2> QED
    BY <1>4, <1>7, <2>1 DEF ReleasedIds
<1>11. \A u \in Thread : pc[u] = "loadRecv" => toParent = <<>>
  <2> SUFFICES ASSUME NEW u \in Thread, pc[u] = "loadRecv" PROVE toParent = <<>>
    OBVIOUS
  <2>1. Exchange(u)
    BY DEF ExchangeInv, Waiting
  <2> QED
    BY <1>2, <2>1 DEF Exchange, Asked, Served, Answered, Lost, Alive
<1>12. LoadedIds'
  BY <1>1, <1>2, <1>11 DEF LoadedIds
<1> QED
  BY <1>8, <1>9, <1>10, <1>12 DEF HandleInv

LEMMA ChildHandles ==
  ASSUME TypeInv, RoleInv, ChildInv, ExchangeInv, HandleInv, ~HostGone, Child \/ ChildCrash
  PROVE  HandleInv'
<1>1. UNCHANGED <<pc, call, arts>>
  BY ChildKeepsRoles
<1>2. CASE ChildExit \/ ChildCrash
  BY <1>2 DEF ChildExit, ChildCrash, ChildGone, HandleInv, Alive
<1>3. CASE ChildInit \/ ChildReleaseOutputs
  <2>1. /\ child \in {"boot", "loop"} /\ child' = "reply" /\ UNCHANGED <<artifacts, toParent>>
        /\ toChild # <<>> /\ toChild' = Tail(toChild)
        /\ child = "boot" \/ Head(toChild).op = "ReleaseOutputs"
        /\ reply'.op # "Loaded"
    BY <1>3 DEF ChildInit, ChildReleaseOutputs, ChildTakes, ChildAnswers, heapVars
  <2>2. PICK t \in Thread : pc[t] \in Waiting /\ Asked(t) /\ Tail(toChild) = <<>>
    BY <2>1, HeadIsAsked
  <2>3. toParent' = <<>> /\ toChild' = <<>>
    BY <2>1, <2>2 DEF Asked
  <2> QED
    BY <1>1, <2>1, <2>3, ChildAside DEF Alive
<1>4. CASE ChildExecute
  <2>1. /\ child = "loop" /\ UNCHANGED <<artifacts, toParent>>
        /\ toChild # <<>> /\ toChild' = Tail(toChild) /\ Head(toChild).op = "Execute"
    BY <1>4 DEF ChildExecute, ChildTakes, heapVars
  <2>2. PICK t \in Thread : pc[t] \in Waiting /\ Asked(t) /\ Tail(toChild) = <<>>
    BY <2>1, HeadIsAsked
  <2>3. toParent' = <<>> /\ toChild' = <<>>
    BY <2>1, <2>2 DEF Asked
  <2>4. child' = "reply" => reply'.op # "Loaded"
    BY <1>4 DEF ChildExecute, ChildAnswers
  <2> QED
    BY <1>1, <2>1, <2>3, <2>4, ChildAside DEF Alive
<1>5. CASE ChildImport \/ ChildCopy \/ ChildRun \/ ChildExport \/ ChildUnmap
  <2>1. /\ child \in Executing /\ UNCHANGED <<artifacts, toChild, toParent>>
        /\ child' = "reply" => reply' = reply /\ child = "unmap"
    BY <1>5 DEF ChildImport, ChildCopy, ChildRun, ChildExport, ChildUnmap, ChildFails, Executing
  <2>2. child' = "reply" => reply'.op # "Loaded"
    BY <2>1 DEF ChildInv, AnswerIsForJob
  <2>3. toParent = <<>>
    BY <2>1, ServedIsWaiting DEF Served
  <2> QED
    BY <1>1, <2>1, <2>2, <2>3, ChildAside DEF Alive, Executing
<1>6. CASE ChildReply
  <2>1. PICK t \in Thread : pc[t] \in Waiting /\ Served(t)
    BY <1>6, ServedIsWaiting DEF ChildReply
  <2>2. /\ child = "reply" /\ toParent' = Append(toParent, reply) /\ toParent = <<>>
        /\ child' = "dead" \/ (child' = "loop" /\ UNCHANGED <<artifacts, toChild>>)
    BY <1>6, <2>1 DEF ChildReply, ChildGone, heapVars, Served
  <2>3. toParent'[1] = reply
    BY <2>2
  <2>4. \A u \in Thread : pc[u] = "loadRecv" => Fits(u, reply)
    BY <2>2 DEF HandleInv, LoadedIds, Alive
  <2> QED
    BY <1>1, <2>2, <2>3, <2>4, ChildAside DEF Alive
<1> QED
  BY <1>2, <1>3, <1>4, <1>5, <1>6, ChildLoadKeepsHandles, ChildReleaseKeepsHandles DEF Child

LEMMA HandleInit == Init => HandleInv
  BY DEF Init, HandleInv, Alive

LEMMA HandleStep ==
  TypeInv /\ EndInv /\ RoleInv /\ ChildInv /\ ExchangeInv /\ HandleInv /\ [Next]_vars => HandleInv'
<1> SUFFICES ASSUME TypeInv, EndInv, RoleInv, ChildInv, ExchangeInv, HandleInv, [Next]_vars, ~HostGone'
             PROVE  HandleInv'
  BY DEF HandleInv
<1>1. ~HostGone
  BY GoneStays
<1>2. CASE UNCHANGED vars
  <2>1. UNCHANGED <<pc, call, arts, child, artifacts, toChild, toParent, reply>>
    BY <1>2 DEF vars, hostVars, childVars, heapVars
  <2>2. child \in Alive => \A u \in Thread : pc[u] = "loadRecv" => (toParent # <<>> => Fits(u, toParent[1]))
    BY <1>1 DEF HandleInv, LoadedIds
  <2>3. CASE child \in Alive
    BY <1>1, <2>1, <2>2, <2>3, ChildAside
  <2>4. CASE child \notin Alive
    BY <2>1, <2>4 DEF HandleInv
  <2> QED
    BY <2>3, <2>4
<1>3. ~HostDies
  BY Typed DEF HostDies, HostGone
<1> QED
  BY <1>1, <1>2, <1>3, StepCases, HostHandles, ChildHandles

-----------------------------------------------------------------------------
(* What the calls of the threads end with.                                 *)

LEMMA ResultInit == Init => ResultInv
  BY DEF Init, ResultInv

LEMMA ResultStep ==
  TypeInv /\ EndInv /\ RoleInv /\ ChildInv /\ ExchangeInv /\ ResultInv /\ [Next]_vars => ResultInv'
<1> SUFFICES ASSUME TypeInv, EndInv, RoleInv, ChildInv, ExchangeInv, ResultInv, [Next]_vars PROVE ResultInv'
  OBVIOUS
<1> USE Typed DEF ResultInv, Leave, Record, Finish
<1>1. ASSUME NEW t \in Thread, NewSend(t) \/ LoadSend(t) \/ ExecSend(t) \/ ReleaseSend(t) \/ DropSend(t)
      PROVE  ResultInv'
  BY <1>1 DEF NewSend, NewFails, LoadSend, ExecSend, ReleaseSend, DropSend, SendFailed
<1>2. ASSUME NEW t \in Thread, NewRecv(t) \/ LoadRecv(t) \/ ExecRecv(t) \/ ReleaseRecv(t)
      PROVE  ResultInv'
  <2>1. pc[t] \in Waiting /\ ~HostGone
    BY <1>2 DEF NewRecv, LoadRecv, ExecRecv, ReleaseRecv, HostGone, Waiting
  <2>2. CASE NewRecv(t)
    <3>1. \A r : ReceiveFailed("Initialized", r) => r \in {"terminated", "transport"}
      BY <2>1, <2>2, WhatIsRead DEF NewRecv
    <3> QED
      BY <2>2, <3>1 DEF NewRecv, NewFails
  <2>3. CASE LoadRecv(t)
    <3>1. \A r : ReceiveFailed("Loaded", r) => r \in {"terminated", "transport"}
      BY <2>1, <2>3, WhatIsRead DEF LoadRecv
    <3> QED
      BY <2>3, <3>1 DEF LoadRecv
  <2>4. CASE ExecRecv(t)
    <3>1. pc[t] = "execRecv"
      BY <2>4 DEF ExecRecv
    <3>2. \A r : ReceiveFailed("Executed", r) => r \in {"terminated", "transport"}
      BY <2>1, <3>1, WhatIsRead
    <3>3. Received("Executed") => RemoteError(Head(toParent).ok) \notin {"unexpected", "unknown"}
      <4> SUFFICES ASSUME Received("Executed") PROVE Head(toParent).ok # "unknown"
        BY DEF RemoteError
      <4>1. Answered(t) /\ Head(toParent) = toParent[1] /\ Head(toParent).op = "Executed"
        BY <2>1, <3>1, WhatIsRead DEF Received
      <4> QED
        BY <4>1 DEF Answered, IsAnswerTo
    <3>4. \/ result' = result
          \/ \E r : result' = [result EXCEPT ![t] = r] /\ r \notin {"unexpected", "unknown"}
      BY <2>4, <3>2, <3>3 DEF ExecRecv
    <3> QED
      BY <3>4
  <2>5. CASE ReleaseRecv(t)
    <3>1. \A r : ReceiveFailed("OutputsReleased", r) => r \in {"terminated", "transport"}
      BY <2>1, <2>5, WhatIsRead DEF ReleaseRecv
    <3>2. call[t].decoded \in {"none", "ok", "transport", "memory"}
      BY CallFields
    <3> QED
      BY <2>5, <3>1, <3>2 DEF ReleaseRecv
  <2> QED
    BY <1>2, <2>2, <2>3, <2>4, <2>5
<1>3. ASSUME NEW t \in Thread,
             \/ LoadLock(t) \/ ExecLock(t) \/ DropLock(t) \/ DecodeImport(t) \/ DecodeCopy(t)
             \/ Return(t) \/ DropRef(t) \/ CloseSend(t) \/ CloseWait(t)
      PROVE  ResultInv'
  BY <1>3 DEF LoadLock, ExecLock, DropLock, DecodeImport, DecodeCopy, Return, DropRef, CloseSend, CloseWait
<1>4. ASSUME NEW t \in Thread, Caller(t) PROVE ResultInv'
  BY <1>4 DEF Caller, NewSpawn, DropRuntime, MemNew, MemDrop, CallLoad, DropArtifact, CallExec
<1>5. CASE Child \/ ChildCrash
  BY <1>5, ChildKeepsRoles
<1>6. CASE HostDies \/ UNCHANGED vars
  BY <1>6 DEF HostDies, vars, hostVars
<1> QED
  BY StepCases, <1>1, <1>2, <1>3, <1>4, <1>5, <1>6 DEF Host

-----------------------------------------------------------------------------
(* The invariant, and what it says of the protocol.                        *)

LEMMA ProtocolInvariance == Spec => []ProtocolInv
<1> DEFINE Upper == ExchangeInv /\ HandleInv /\ GoneInv /\ ResultInv
<1>1. Init => Upper
  BY ExchangeInit, HandleInit, GoneInit, ResultInit
<1>2. MemoryInv /\ Upper /\ [Next]_vars => Upper'
  BY ExchangeStep, HandleStep, GoneStep, ResultStep DEF MemoryInv
<1> QED
  BY <1>1, <1>2, MemoryInvariance, PTL DEF Spec, ProtocolInv

\* Every thread reads the answer to its own last request: UnexpectedResponse
\* and UnknownArtifact do not occur, whatever the others do and whenever the
\* child dies (SafeSession is one mutex around send and receive: mod.rs:183).
THEOREM Answers == Spec => []AnswersMatchRequests
<1>1. ProtocolInv => AnswersMatchRequests
  <2> SUFFICES ASSUME ProtocolInv, NEW t \in Thread, pc[t] = "execRecv",
                      NEW i \in DOMAIN toParent, toParent[i].op # "Torn"
               PROVE  toParent[i].op = "Executed" /\ toParent[i].by = t
    BY DEF AnswersMatchRequests, ProtocolInv, ResultInv
  <2> USE Typed DEF ProtocolInv, MemoryInv
  <2>1. i \in 1..Len(toParent) /\ toParent # <<>>
    OBVIOUS
  <2>2. Exchange(t)
    BY DEF ExchangeInv, HostGone, Waiting
  <2>3. Len(toParent) = 1 /\ (Answered(t) \/ toParent[1].op = "Torn")
    BY <2>1, <2>2 DEF Exchange, Asked, Served, Answered, Lost
  <2>4. i = 1
    BY <2>1, <2>3
  <2> QED
    BY <2>3, <2>4 DEF Answered, IsAnswerTo
<1> QED
  BY <1>1, ProtocolInvariance, PTL

\* While the child lives, the id of a live handle denotes the module that was
\* loaded under it and no release of that id is on its way (handle_load stores
\* at the end of the vector, release_artifact stores None: mod.rs:400-416).
THEOREM Handles == Spec => []HandlesDenoteTheirModule
<1>1. ProtocolInv => HandlesDenoteTheirModule
  <2> SUFFICES ASSUME ProtocolInv, child \in Alive, NEW a \in arts
               PROVE  /\ Lookup(a.id) = a.module
                      /\ \A i \in DOMAIN toChild : toChild[i].op = "ReleaseArtifact" => toChild[i].id # a.id
    BY DEF HandlesDenoteTheirModule
  <2> USE Typed DEF ProtocolInv, MemoryInv
  <2>1. LiveHandles /\ ReleasedIds
    BY DEF HandleInv, GoneInv
  <2>2. Lookup(a.id) = a.module
    BY <2>1 DEF LiveHandles, Denotes, Lookup
  <2>3. DOMAIN toChild = 1..Len(toChild)
    OBVIOUS
  <2> QED
    BY <2>1, <2>2, <2>3 DEF ReleasedIds
<1> QED
  BY <1>1, ProtocolInvariance, PTL

\* A session that nobody holds is clean: no answer on its way, nothing mapped,
\* copied or kept, and at most releases to be taken (mod.rs:187-246).
THEOREM Clean == Spec => []NothingLeftBetweenCalls
<1>1. ProtocolInv => NothingLeftBetweenCalls
  <2> SUFFICES ASSUME ProtocolInv, mutex = NoThread, runtime = "live", child \in Alive
               PROVE  /\ child = "loop" /\ toParent = <<>>
                      /\ maps = {} /\ cmem = {} /\ pending = {} /\ outMaps = {}
                      /\ \A i \in DOMAIN toChild : toChild[i].op = "ReleaseArtifact"
    BY DEF NothingLeftBetweenCalls
  <2> USE Typed DEF ProtocolInv, MemoryInv
  <2>1. ~HostGone
    BY DEF GoneInv
  <2>2. \A t \in Thread : pc[t] \notin Locked \cup Creating \cup Closing
    BY SessionAssumption DEF RoleInv, MutexIsHeld, CreatorIsAlone, CloserIsLast
  <2>3. \A t \in Thread : pc[t] \notin Waiting \cup {"decode", "copyOut", "relSend", "closeWait"}
    BY <2>2 DEF Waiting, Locked, Creating, Closing
  <2>4. Quiet /\ pending = {}
    BY <2>1, <2>3 DEF ExchangeInv, Waiting
  <2>5. child = "loop" /\ toParent = <<>>
    BY <2>4 DEF Quiet
  <2>6. maps = {} /\ cmem = {}
    BY <2>4, <2>5 DEF ChildInv, OutputsAreKept
  <2>7. outMaps = {}
    BY <2>3 DEF OwnInv, MapsOfCopier
  <2>8. \A i \in DOMAIN toChild : toChild[i].op = "ReleaseArtifact"
    BY <2>3, <2>4 DEF Quiet
  <2> QED
    BY <2>4, <2>5, <2>6, <2>7, <2>8
<1> QED
  BY <1>1, ProtocolInvariance, PTL

\* Neither process frees what the other has mapped: not the arguments, which
\* are dropped when the response is in, nor the outputs, which the child keeps
\* until their release is asked for (mod.rs:183-246, ipc.rs:99).
THEOREM MapsAreLive == Spec => []MappedMemoryIsLive
<1>1. ProtocolInv => MappedMemoryIsLive
  <2> SUFFICES ASSUME ProtocolInv PROVE MappedMemoryIsLive
    OBVIOUS
  <2> USE Typed DEF ProtocolInv, MemoryInv
  <2>1. ~HostGone => maps \subseteq mem
    <3> SUFFICES ASSUME ~HostGone, maps # {} PROVE maps \subseteq mem
      OBVIOUS
    <3>1. child \in Executing
      BY DEF ChildInv, OutputsAreKept, Executing
    <3>2. PICK t \in Thread : pc[t] \in Waiting /\ Served(t)
      BY <3>1, ServedIsWaiting
    <3>3. job = ExecuteRequest(t)
      BY <3>1, <3>2 DEF Served, Executing
    <3>4. maps \subseteq call[t].own \cup call[t].ref
      BY <3>1, <3>3 DEF ChildInv, OutputsAreKept, ExecuteRequest
    <3> QED
      BY <3>4, ArgumentsLive
  <2>2. child \in Alive => outMaps \subseteq pending /\ pending \subseteq cmem
    <3> SUFFICES ASSUME child \in Alive PROVE outMaps \subseteq pending /\ pending \subseteq cmem
      OBVIOUS
    <3>1. pending \subseteq cmem
      BY DEF ChildInv, OutputsAreKept, Alive
    <3>2. CASE \E t \in Thread : pc[t] = "copyOut"
      <4>1. PICK t \in Thread : pc[t] = "copyOut"
        BY <3>2
      <4>2. ~HostGone
        BY <4>1 DEF HostGone
      <4> QED
        BY <3>1, <4>1, <4>2 DEF ExchangeInv, OwnInv, MapsOfCopier
    <3>3. CASE ~\E t \in Thread : pc[t] = "copyOut"
      BY <3>1, <3>3 DEF OwnInv, MapsOfCopier
    <3> QED
      BY <3>2, <3>3
  <2>3. \A t \in Thread : (pc[t] \in {"decode", "copyOut"} /\ child \in Alive) => pending = call[t].outs
    BY DEF ExchangeInv, HostGone
  <2> QED
    BY <2>1, <2>2, <2>3 DEF MappedMemoryIsLive
<1> QED
  BY <1>1, ProtocolInvariance, PTL

\* When outputs are copied, the consumed arguments are freed and the child has
\* closed its mappings of them (mod.rs:211-217).
THEOREM Consumed == Spec => []ConsumedFreedBeforeCopies
<1>1. ProtocolInv => ConsumedFreedBeforeCopies
  <2> SUFFICES ASSUME ProtocolInv, NEW t \in Thread, pc[t] \in {"decode", "copyOut", "relSend"}
               PROVE  maps = {} /\ call[t].own = {}
    BY DEF ConsumedFreedBeforeCopies
  <2> USE DEF ProtocolInv, MemoryInv
  <2>1. call[t].own = {}
    BY DEF OwnInv, CarriedOnly
  <2>2. Quiet
    BY EngagedIsQuiet DEF HostGone, Engaged, Locked, Waiting
  <2>3. maps = {}
    BY <2>2 DEF Quiet, ChildInv, OutputsAreKept, Alive
  <2> QED
    BY <2>1, <2>3
<1> QED
  BY <1>1, ProtocolInvariance, PTL

-----------------------------------------------------------------------------
(* What was executed for each call, and the refinement.                    *)

OnceRun(t) == <<call[t].module>>

\* What an answer says of the execution.
Tells(t, res) ==
  res.op = "Executed" => /\ res.ok = "ok" => ran[t] = OnceRun(t)
                         /\ res.ok \in {"runtime", "unknown"} => ran[t] = <<>>

\* What was executed for t, by where the child stands.
RunsOnce(t) ==
  /\ ran[t] \in {<<>>, OnceRun(t)}
  /\ toParent = <<>> /\ child \in {"loop", "import", "copy", "run"} => ran[t] = <<>>
  /\ child = "export" => ran[t] = OnceRun(t)
  /\ child \in {"unmap", "reply"} => Tells(t, reply)
  /\ toParent # <<>> => Tells(t, toParent[1])

\* What was executed for t, by where t stands.
RanOf(t) ==
  /\ pc[t] # "gone"
  /\ pc[t] \in {"execLock", "execSend"} => ran[t] = <<>>
  /\ pc[t] = "execRecv" => RunsOnce(t)
  /\ pc[t] \in {"decode", "copyOut", "relSend", "relRecv"} => ran[t] = OnceRun(t)
  /\ pc[t] = "returning" /\ call[t].art # {} =>
       /\ result[t] = "ok" => ran[t] = OnceRun(t)
       /\ result[t] \in {"runtime", "unavailable"} => ran[t] = <<>>

RanInv == \A t \in Thread : RanOf(t)

LEMMA RanInit == Init => RanInv
  BY DEF Init, RanInv, RanOf

LEMMA TypedRan == TypeInv => ran \in [Thread -> Seq(Module \cup {NoModule})]
  BY DEF TypeInv, TypeOK, ChildTypeOK

\* A step of one thread, which leaves alone what others wait for.
LEMMA OneRan ==
  ASSUME TypeInv, RanInv, NEW t \in Thread, NEW to, pc' = [pc EXCEPT ![t] = to],
         \A u \in Thread \ {t} : call'[u] = call[u] /\ result'[u] = result[u] /\ ran'[u] = ran[u],
         (\A u \in Thread \ {t} : pc[u] # "execRecv") \/ UNCHANGED <<toParent, child, reply>>,
         RanOf(t)'
  PROVE  RanInv'
<1> SUFFICES ASSUME NEW u \in Thread, u # t PROVE RanOf(u)'
  BY DEF RanInv
<1>1. pc'[u] = pc[u] /\ call'[u] = call[u] /\ result'[u] = result[u] /\ ran'[u] = ran[u]
  BY Typed
<1>2. RanOf(u)
  BY DEF RanInv
<1>3. OnceRun(u)' = OnceRun(u)
  BY <1>1 DEF OnceRun
<1>4. ASSUME pc[u] = "execRecv" PROVE RunsOnce(u)'
  <2>1. UNCHANGED <<toParent, child, reply>>
    BY <1>4
  <2>2. RunsOnce(u)
    BY <1>2, <1>4 DEF RanOf
  <2> QED
    BY <1>1, <1>3, <2>1, <2>2 DEF RunsOnce, Tells
<1> QED
  BY <1>1, <1>2, <1>3, <1>4 DEF RanOf

\* The steps of the host outside of an execution.
Outside(t) ==
  \/ NewSpawn(t) \/ DropRuntime(t) \/ NewSend(t) \/ NewRecv(t)
  \/ LoadLock(t) \/ LoadSend(t) \/ LoadRecv(t)
  \/ DropLock(t) \/ DropSend(t) \/ DropRef(t) \/ CloseSend(t) \/ CloseWait(t) \/ Return(t)
  \/ \E m \in Module : CallLoad(t, m)
  \/ \E a \in arts : DropArtifact(t, a)
  \/ \E b \in Buf : MemNew(t, b) \/ MemDrop(t, b)

LEMMA OthersAside ==
  ASSUME TypeInv, NEW t \in Thread, Outside(t)
  PROVE  UNCHANGED ran /\ \A u \in Thread \ {t} : call'[u] = call[u] /\ result'[u] = result[u]
<1> USE Typed DEF Outside, Goto, Leave, Record, Finish
<1>1. UNCHANGED ran
  BY DEF NewSpawn, DropRuntime, NewSend, NewRecv, LoadLock, LoadSend, LoadRecv, DropLock, DropSend,
     DropRef, CloseSend, CloseWait, Return, CallLoad, DropArtifact, MemNew, MemDrop, childVars
<1>2. CASE \/ NewSpawn(t) \/ DropRuntime(t) \/ NewSend(t) \/ NewRecv(t)
           \/ LoadLock(t) \/ LoadSend(t) \/ LoadRecv(t)
  BY <1>1, <1>2 DEF NewSpawn, DropRuntime, NewSend, NewRecv, NewFails, LoadLock, LoadSend, LoadRecv
<1>3. CASE ~(\/ NewSpawn(t) \/ DropRuntime(t) \/ NewSend(t) \/ NewRecv(t)
             \/ LoadLock(t) \/ LoadSend(t) \/ LoadRecv(t))
  BY <1>1, <1>3 DEF DropLock, DropSend, DropRef, CloseSend, CloseWait, Return, CallLoad, DropArtifact,
     MemNew, MemDrop
<1> QED
  BY <1>2, <1>3

\* They lead to no place of exec_values, and end a load where its call is kept.
LEMMA OutsideMoves ==
  ASSUME TypeInv, NEW t \in Thread, Outside(t)
  PROVE  \E to \in Location \ (InExec \cup {"gone"}) :
           /\ pc' = [pc EXCEPT ![t] = to] /\ pc[t] \notin InExec
           /\ to = "returning" => call' = call /\ pc[t] \in Loading
<1> USE Typed DEF Outside, Goto, Leave, Record, Finish, Location, Locked, Loading, Dropping, InExec
<1>1. CASE \/ NewSpawn(t) \/ DropRuntime(t) \/ NewSend(t) \/ NewRecv(t)
           \/ LoadLock(t) \/ LoadSend(t) \/ LoadRecv(t)
  BY <1>1 DEF NewSpawn, DropRuntime, NewSend, NewRecv, NewFails, LoadLock, LoadSend, LoadRecv
<1>2. CASE \/ DropLock(t) \/ DropSend(t) \/ DropRef(t) \/ CloseSend(t) \/ CloseWait(t) \/ Return(t)
           \/ \E m \in Module : CallLoad(t, m)
           \/ \E a \in arts : DropArtifact(t, a)
  BY <1>2 DEF DropLock, DropSend, DropRef, CloseSend, CloseWait, Return, CallLoad, DropArtifact
<1>3. CASE \E b \in Buf : MemNew(t, b) \/ MemDrop(t, b)
  <2>1. pc[t] = "idle" /\ pc' = pc
    BY <1>3 DEF MemNew, MemDrop
  <2>2. pc' = [pc EXCEPT ![t] = "idle"]
    BY <2>1
  <2>3. "idle" \in Location \ (InExec \cup {"gone"}) /\ "idle" # "returning" /\ pc[t] \notin InExec
    BY <2>1
  <2> QED
    BY <2>2, <2>3
<1> QED
  BY <1>1, <1>2, <1>3

LEMMA OtherCallsRan ==
  ASSUME TypeInv, EndInv, RoleInv, ChildInv, ExchangeInv, RanInv, ~HostGone, NEW t \in Thread, Outside(t)
  PROVE  RanInv'
<1> USE Typed DEF Outside
<1>1. \A u \in Thread \ {t} : call'[u] = call[u] /\ result'[u] = result[u] /\ ran'[u] = ran[u]
  BY OthersAside
<1>2. (\A u \in Thread \ {t} : pc[u] # "execRecv") \/ UNCHANGED <<toParent, child, reply>>
  <2>1. CASE NewRecv(t) \/ LoadRecv(t) \/ CloseWait(t)
    <3>1. pc[t] \in Engaged
      BY <2>1 DEF NewRecv, LoadRecv, CloseWait, Engaged, Creating, Closing, Locked
    <3>2. \A u \in Thread \ {t} : pc[u] \notin Engaged
      BY <3>1, OneEngaged
    <3> QED
      BY <3>2 DEF Engaged, Locked
  <2>2. CASE NewSpawn(t)
    <3>1. \A u \in Thread : pc[u] \in Creating \cup {"idle", "gone"}
      BY <2>2 DEF NewSpawn, RoleInv, CreatorIsAlone
    <3> QED
      BY <3>1 DEF Creating
  <2>3. CASE ~NewSpawn(t) /\ ~NewRecv(t) /\ ~LoadRecv(t) /\ ~CloseWait(t)
    BY <2>3 DEF DropRuntime, NewSend, LoadLock, LoadSend, DropLock, DropSend, DropRef, CloseSend, Return,
       CallLoad, DropArtifact, MemNew, MemDrop, childVars
  <2> QED
    BY <2>1, <2>2, <2>3
<1>3. RanOf(t)'
  <2>1. PICK to \in Location \ (InExec \cup {"gone"}) :
          /\ pc' = [pc EXCEPT ![t] = to]
          /\ to = "returning" => call' = call /\ pc[t] \in Loading
    BY OutsideMoves
  <2>2. pc'[t] = to
    BY <2>1
  <2>3. to = "returning" => call'[t].art = {}
    BY <2>1 DEF RoleInv, CallsHoldHandles, Loading, InExec, Dropping
  <2> QED
    BY <2>2, <2>3 DEF RanOf, InExec
<1>4. \E to : pc' = [pc EXCEPT ![t] = to]
  BY OutsideMoves
<1> QED
  BY <1>1, <1>2, <1>3, <1>4, OneRan

\* The steps of exec_values.
LEMMA ExecRan ==
  ASSUME TypeInv, EndInv, RoleInv, ChildInv, ExchangeInv, RanInv, ~HostGone, NEW t \in Thread,
         \/ \E a \in arts, own, ref \in SUBSET Buf : CallExec(t, a, own, ref)
         \/ ExecLock(t) \/ ExecSend(t) \/ ExecRecv(t) \/ DecodeImport(t) \/ DecodeCopy(t)
         \/ ReleaseSend(t) \/ ReleaseRecv(t)
  PROVE  RanInv'
<1> USE Typed, TypedRan DEF Goto, Record, Finish
<1>0. RanOf(t)
  BY DEF RanInv
<1>1. CASE \E a \in arts, own, ref \in SUBSET Buf : CallExec(t, a, own, ref)
  <2>1. /\ pc' = [pc EXCEPT ![t] = "execLock"] /\ ran' = [ran EXCEPT ![t] = <<>>]
        /\ UNCHANGED <<result, toParent, child, reply>>
        /\ \A u \in Thread \ {t} : call'[u] = call[u]
    BY <1>1 DEF CallExec
  <2>2. pc'[t] = "execLock" /\ ran'[t] = <<>>
    BY <2>1
  <2>3. RanOf(t)'
    BY <2>2 DEF RanOf
  <2> QED
    BY <2>1, <2>3, OneRan
<1>2. CASE ExecLock(t)
  <2>1. /\ UNCHANGED <<call, ran, toParent, child, reply>> /\ pc[t] = "execLock"
        /\ \/ pc' = [pc EXCEPT ![t] = "execSend"] /\ UNCHANGED result
           \/ pc' = [pc EXCEPT ![t] = "returning"]
              /\ \E r \in {"transport", "unavailable", "runtime", "memory"} : result' = [result EXCEPT ![t] = r]
    BY <1>2 DEF ExecLock, childVars, heapVars
  <2>2. ran[t] = <<>>
    BY <1>0, <2>1 DEF RanOf
  <2>3. RanOf(t)'
    <3>1. pc'[t] = "execSend" \/ (pc'[t] = "returning" /\ result'[t] # "ok")
      BY <2>1
    <3> QED
      BY <2>1, <2>2, <3>1 DEF RanOf
  <2> QED
    BY <2>1, <2>3, OneRan
<1>3. CASE ExecSend(t)
  <2>1. /\ UNCHANGED <<call, ran, toParent, child, reply>> /\ pc[t] = "execSend"
        /\ \/ pc' = [pc EXCEPT ![t] = "execRecv"] /\ UNCHANGED result
           \/ pc' = [pc EXCEPT ![t] = "returning"]
              /\ \E r \in {"transport", "terminated", "panic"} : result' = [result EXCEPT ![t] = r]
    BY <1>3 DEF ExecSend, SendFailed, childVars, heapVars
  <2>2. ran[t] = <<>>
    BY <1>0, <2>1 DEF RanOf
  <2>3. Quiet
    BY <2>1, EngagedIsQuiet DEF Engaged, Locked, Waiting
  <2>4. RunsOnce(t)'
    BY <2>1, <2>2, <2>3 DEF RunsOnce, Quiet, Alive, Tells
  <2>5. RanOf(t)'
    <3>1. pc'[t] = "execRecv" \/ (pc'[t] = "returning" /\ result'[t] \in {"transport", "terminated", "panic"})
      BY <2>1
    <3> QED
      BY <2>4, <3>1 DEF RanOf
  <2> QED
    BY <2>1, <2>5, OneRan
<1>4. ASSUME pc[t] \in Engaged PROVE \A u \in Thread \ {t} : pc[u] # "execRecv"
  BY <1>4, OneEngaged DEF Engaged, Locked
<1>5. CASE ExecRecv(t)
  <2>1. pc[t] = "execRecv" /\ pc[t] \in Engaged /\ UNCHANGED ran
    BY <1>5 DEF ExecRecv, Engaged, Locked
  <2>2. RunsOnce(t)
    BY <1>0, <2>1 DEF RanOf
  <2>3. \A u \in Thread \ {t} : call'[u] = call[u] /\ result'[u] = result[u]
    BY <1>5 DEF ExecRecv
  <2>4. call'[t].module = call[t].module
    <3>1. call \in [Thread -> Call] /\ \A c \in Call : DOMAIN c = {"art", "module", "own", "ref", "outs", "vals", "decoded"}
      BY DEF Call
    <3> QED
      BY <1>5, <3>1 DEF ExecRecv
  <2>5. CASE Received("Executed")
    <3>1. Head(toParent) = toParent[1] /\ toParent # <<>> /\ Head(toParent).op = "Executed"
      BY <2>1, <2>5, WhatIsRead DEF Received
    <3>2. Tells(t, Head(toParent))
      BY <2>2, <3>1 DEF RunsOnce
    <3>3. Head(toParent).ok \in {"ok", "runtime", "unknown", "memory"}
      <4>1. Head(toParent) \in Response
        BY <3>1
      <4> QED
        BY <3>1, <4>1, ResponseFields
    <3>4. \/ Head(toParent).ok = "ok" /\ pc' = [pc EXCEPT ![t] = "decode"]
          \/ Head(toParent).ok # "ok" /\ pc' = [pc EXCEPT ![t] = "returning"]
             /\ result' = [result EXCEPT ![t] = RemoteError(Head(toParent).ok)]
      BY <1>5, <2>5 DEF ExecRecv, Received, ReceiveFailed
    <3>5. CASE Head(toParent).ok = "ok" /\ pc' = [pc EXCEPT ![t] = "decode"]
      <4>1. ran[t] = OnceRun(t)
        BY <3>1, <3>2, <3>5 DEF Tells
      <4>2. pc'[t] = "decode" /\ OnceRun(t)' = OnceRun(t)
        BY <2>4, <3>5 DEF OnceRun
      <4>3. RanOf(t)'
        BY <2>1, <4>1, <4>2 DEF RanOf
      <4> QED
        BY <1>4, <2>1, <2>3, <3>5, <4>3, OneRan
    <3>6. CASE /\ Head(toParent).ok # "ok" /\ pc' = [pc EXCEPT ![t] = "returning"]
               /\ result' = [result EXCEPT ![t] = RemoteError(Head(toParent).ok)]
      <4>1. pc'[t] = "returning" /\ result'[t] = RemoteError(Head(toParent).ok)
        BY <3>6
      <4>2. result'[t] # "ok" /\ (result'[t] \in {"runtime", "unavailable"} => Head(toParent).ok = "runtime")
        BY <3>3, <3>6, <4>1 DEF RemoteError
      <4>3. RanOf(t)'
        BY <2>1, <3>1, <3>2, <4>1, <4>2 DEF RanOf, Tells
      <4> QED
        BY <1>4, <2>1, <2>3, <3>6, <4>3, OneRan
    <3> QED
      BY <3>4, <3>5, <3>6
  <2>6. CASE ~Received("Executed")
    <3>1. PICK r : ReceiveFailed("Executed", r) /\ pc' = [pc EXCEPT ![t] = "returning"]
                   /\ result' = [result EXCEPT ![t] = r]
      BY <1>5, <2>6 DEF ExecRecv
    <3>2. r \in {"terminated", "transport"}
      BY <2>1, <3>1, WhatIsRead
    <3>3. pc'[t] = "returning" /\ result'[t] = r
      BY <3>1
    <3>4. RanOf(t)'
      BY <3>2, <3>3 DEF RanOf
    <3> QED
      BY <1>4, <2>1, <2>3, <3>1, <3>4, OneRan
  <2> QED
    BY <2>5, <2>6
<1>6. CASE DecodeImport(t) \/ DecodeCopy(t) \/ ReleaseSend(t) \/ ReleaseRecv(t)
  <2>1. pc[t] \in {"decode", "copyOut", "relSend", "relRecv"} /\ pc[t] \in Engaged /\ UNCHANGED ran
    BY <1>6 DEF DecodeImport, DecodeCopy, ReleaseSend, ReleaseRecv, childVars, Engaged, Locked
  <2>2. ran[t] = OnceRun(t)
    BY <1>0, <2>1 DEF RanOf
  <2>3. \A u \in Thread \ {t} : call'[u] = call[u] /\ result'[u] = result[u]
    BY <1>6 DEF DecodeImport, DecodeCopy, ReleaseSend, ReleaseRecv, DropValues
  <2>4. call'[t].module = call[t].module
    <3>1. \A d, v : /\ call' = [call EXCEPT ![t].decoded = d] => call'[t].module = call[t].module
                    /\ call' = [call EXCEPT ![t].vals = v] => call'[t].module = call[t].module
      <4>1. call[t] \in Call
        OBVIOUS
      <4> QED
        BY <4>1 DEF Call
    <3>2. \A new \in SUBSET Buf : call' = [call EXCEPT ![t].vals = new, ![t].decoded = "ok"] =>
            call'[t].module = call[t].module
      BY TwoUpdates DEF SameHandles
    <3>3. CASE DecodeImport(t) \/ ReleaseSend(t) \/ ReleaseRecv(t)
      <4>1. call' = call \/ call' = [call EXCEPT ![t].decoded = "transport"]
              \/ call' = [call EXCEPT ![t].vals = {}]
        BY <3>3 DEF DecodeImport, ReleaseSend, ReleaseRecv, DropValues
      <4> QED
        BY <3>1, <4>1
    <3>4. CASE DecodeCopy(t)
      <4>1. \/ \E new \in SUBSET Buf : call' = [call EXCEPT ![t].vals = new, ![t].decoded = "ok"]
            \/ call' = [call EXCEPT ![t].decoded = "memory"]
        BY <3>4 DEF DecodeCopy
      <4> QED
        BY <3>1, <3>2, <4>1
    <3> QED
      BY <1>6, <3>3, <3>4
  <2>5. OnceRun(t)' = OnceRun(t)
    BY <2>4 DEF OnceRun
  <2>6. \/ \E to \in {"copyOut", "relSend", "relRecv"} : pc' = [pc EXCEPT ![t] = to]
        \/ /\ pc' = [pc EXCEPT ![t] = "returning"]
           /\ \E r : result' = [result EXCEPT ![t] = r] /\ r \notin {"runtime", "unavailable"}
    <3>1. CASE DecodeImport(t) \/ DecodeCopy(t)
      BY <3>1 DEF DecodeImport, DecodeCopy
    <3>2. CASE ReleaseSend(t)
      BY <3>2 DEF ReleaseSend, SendFailed
    <3>3. CASE ReleaseRecv(t)
      <4>1. call[t].decoded \in {"none", "ok", "transport", "memory"}
        BY CallFields
      <4>2. \A r : ReceiveFailed("OutputsReleased", r) => r \in {"terminated", "transport"}
        BY <3>3, WhatIsRead DEF ReleaseRecv
      <4> QED
        BY <3>3, <4>1, <4>2 DEF ReleaseRecv
    <3> QED
      BY <1>6, <3>1, <3>2, <3>3
  <2>7. CASE \E to \in {"copyOut", "relSend", "relRecv"} : pc' = [pc EXCEPT ![t] = to]
    <3>1. pc'[t] \in {"copyOut", "relSend", "relRecv"}
      BY <2>7
    <3>2. RanOf(t)'
      BY <2>1, <2>2, <2>5, <3>1 DEF RanOf
    <3> QED
      BY <1>4, <2>1, <2>3, <2>7, <3>2, OneRan
  <2>8. CASE /\ pc' = [pc EXCEPT ![t] = "returning"]
             /\ \E r : result' = [result EXCEPT ![t] = r] /\ r \notin {"runtime", "unavailable"}
    <3>1. pc'[t] = "returning" /\ result'[t] \notin {"runtime", "unavailable"}
      BY <2>8
    <3>2. RanOf(t)'
      BY <2>1, <2>2, <2>5, <3>1 DEF RanOf
    <3> QED
      BY <1>4, <2>1, <2>3, <2>8, <3>2, OneRan
  <2> QED
    BY <2>6, <2>7, <2>8
<1> QED
  BY <1>1, <1>2, <1>3, <1>5, <1>6

\* A step of the child, told for each thread that waits for an execution.
LEMMA ChildRan ==
  ASSUME TypeInv, RanInv, UNCHANGED <<pc, call, result>>,
         \A u \in Thread : pc[u] # "execRecv" => ran'[u] = ran[u],
         \A u \in Thread : pc[u] = "execRecv" => RunsOnce(u)'
  PROVE  RanInv'
  BY DEF RanInv, RanOf, OnceRun

\* The step that executes the program is for the thread that asked, once, and
\* by the module of its handle.
LEMMA RunIsAsked ==
  ASSUME TypeInv, RoleInv, ExchangeInv, HandleInv, RanInv, ~HostGone, child \in Executing
  PROVE  \E t \in Thread : /\ pc[t] = "execRecv" /\ job.by = t /\ Lookup(job.id) = call[t].module
                           /\ toChild = <<>> /\ toParent = <<>> /\ RunsOnce(t)
                           /\ \A u \in Thread : pc[u] = "execRecv" => u = t
<1>1. PICK t \in Thread : pc[t] \in Waiting /\ Served(t)
  BY ServedIsWaiting
<1>2. pc[t] = "execRecv" /\ job = ExecuteRequest(t) /\ toChild = <<>> /\ toParent = <<>>
  BY <1>1 DEF Served, Executing
<1>3. Lookup(job.id) = call[t].module
  BY <1>2, ArtifactIsKnown DEF InExec, Executing, Alive
<1>4. job.by = t
  BY <1>2 DEF ExecuteRequest
<1>5. RunsOnce(t)
  BY <1>2 DEF RanInv, RanOf
<1>6. \A u \in Thread : pc[u] = "execRecv" => u = t
  BY <1>2, OneEngaged DEF Engaged, Locked
<1> QED
  BY <1>2, <1>3, <1>4, <1>5, <1>6

\* While t waits for an execution the child takes no other request than its own.
LEMMA WaitsForExecute ==
  ASSUME TypeInv, ExchangeInv, RanInv, NEW t \in Thread, pc[t] = "execRecv",
         child \in {"boot", "loop"}, toChild # <<>>
  PROVE  /\ child = "loop" /\ toParent = <<>> /\ ran[t] = <<>>
         /\ Head(toChild).op \in {"ReleaseArtifact", "Execute"}
<1>1. Exchange(t) /\ pc[t] \in Waiting
  BY DEF ExchangeInv, HostGone, Waiting
<1>2. Asked(t)
  BY <1>1 DEF Exchange, Served, Answered, Lost, Executing, Alive
<1>3. Head(toChild).op # "ReleaseArtifact" => Head(toChild).op = "Execute"
  <2> SUFFICES ASSUME Head(toChild).op # "ReleaseArtifact" PROVE Head(toChild).op = "Execute"
    OBVIOUS
  <2>1. IsAskedBy(t, Head(toChild))
    BY <1>1, <1>2, TakenIsAsked
  <2> QED
    BY <2>1 DEF IsAskedBy, ExecuteRequest
<1>4. child = "loop" /\ toParent = <<>>
  BY <1>2 DEF Asked
<1>5. RunsOnce(t)
  BY DEF RanInv, RanOf
<1>6. ran[t] = <<>>
  BY <1>4, <1>5 DEF RunsOnce
<1> QED
  BY <1>3, <1>4, <1>6

LEMMA ChildKeepsRan ==
  ASSUME TypeInv, RoleInv, ChildInv, ExchangeInv, HandleInv, RanInv, ~HostGone, Child \/ ChildCrash
  PROVE  RanInv'
<1> USE Typed, TypedRan
<1>1. UNCHANGED <<pc, call, result>>
  BY ChildKeepsRoles
<1>2. \A u \in Thread : OnceRun(u)' = OnceRun(u)
  BY <1>1 DEF OnceRun
<1>3. \A u \in Thread : pc[u] = "execRecv" => RunsOnce(u)
  BY DEF RanInv, RanOf
<1>4. CASE ChildInit \/ ChildLoad \/ ChildReleaseOutputs
  <2>1. \A u \in Thread : pc[u] # "execRecv"
    BY <1>4, WaitsForExecute DEF ChildInit, ChildLoad, ChildReleaseOutputs, ChildTakes
  <2>2. UNCHANGED ran
    BY <1>4 DEF ChildInit, ChildLoad, ChildReleaseOutputs
  <2> QED
    BY <1>1, <2>1, <2>2, ChildRan
<1>5. CASE ChildReleaseArtifact
  <2>1. UNCHANGED <<ran, toParent, child, reply>>
    BY <1>5 DEF ChildReleaseArtifact
  <2>2. \A u \in Thread : pc[u] = "execRecv" => RunsOnce(u)'
    BY <1>2, <1>3, <2>1 DEF RunsOnce, Tells
  <2> QED
    BY <1>1, <2>1, <2>2, ChildRan
<1>6. CASE ChildExecute
  <2>1. /\ child = "loop" /\ toChild # <<>> /\ UNCHANGED <<ran, toParent>>
        /\ \/ child' = "import"
           \/ child' = "reply" /\ reply'.ok # "ok" 
    BY <1>6 DEF ChildExecute, ChildTakes, ChildAnswers
  <2>2. ASSUME NEW u \in Thread, pc[u] = "execRecv" PROVE RunsOnce(u)'
    <3>1. toParent' = <<>> /\ ran'[u] = <<>>
      BY <2>1, <2>2, WaitsForExecute
    <3> QED
      BY <2>1, <3>1 DEF RunsOnce, Tells
  <2> QED
    BY <1>1, <2>1, <2>2, ChildRan
<1>7. CASE ChildImport \/ ChildCopy \/ ChildRun \/ ChildExport \/ ChildUnmap
  <2>1. child \in Executing
    BY <1>7 DEF ChildImport, ChildCopy, ChildRun, ChildExport, ChildUnmap, Executing
  <2>2. PICK t \in Thread : /\ pc[t] = "execRecv" /\ job.by = t /\ Lookup(job.id) = call[t].module
                            /\ toChild = <<>> /\ toParent = <<>> /\ RunsOnce(t)
                            /\ \A u \in Thread : pc[u] = "execRecv" => u = t
    BY <2>1, RunIsAsked
  <2>3. toParent' = <<>>
    BY <1>7, <2>2 DEF ChildImport, ChildCopy, ChildRun, ChildExport, ChildUnmap
  <2> SUFFICES RunsOnce(t)' /\ \A u \in Thread \ {t} : ran'[u] = ran[u]
    BY <1>1, <2>2, ChildRan
  <2>4. CASE ChildImport \/ ChildCopy
    <3>1. /\ child \in {"import", "copy"} /\ UNCHANGED ran
          /\ child' \in {"copy", "run"} \/ (child' = "unmap" /\ reply' = Executed("memory", {}))
      BY <2>4 DEF ChildImport, ChildCopy, ChildFails
    <3>2. ran[t] = <<>>
      BY <2>2, <3>1 DEF RunsOnce
    <3>3. child' = "unmap" => reply'.ok = "memory"
      BY <3>1, Executions
    <3> QED
      BY <2>3, <3>1, <3>2, <3>3 DEF RunsOnce, Tells
  <2>5. CASE ChildRun
    <3>1. ran[t] = <<>>
      BY <2>2, <2>5 DEF ChildRun, RunsOnce
    <3>2. CASE child' = "export"
      <4>1. ran' = [ran EXCEPT ![t] = Append(<<>>, call[t].module)]
        BY <2>2, <2>5, <3>1, <3>2 DEF ChildRun, ChildFails
      <4>2. Append(<<>>, call[t].module) = <<call[t].module>>
        OBVIOUS
      <4>3. ran'[t] = OnceRun(t)
        BY <4>1, <4>2 DEF OnceRun
      <4> QED
        BY <1>2, <2>3, <3>2, <4>1, <4>3 DEF RunsOnce
    <3>3. CASE child' # "export"
      <4>1. ran' = ran /\ child' = "unmap" /\ reply' = Executed("runtime", {})
        BY <2>5, <3>3 DEF ChildRun, ChildFails
      <4>2. reply'.ok = "runtime"
        BY <4>1, Executions
      <4> QED
        BY <2>3, <3>1, <4>1, <4>2 DEF RunsOnce, Tells
    <3> QED
      BY <3>2, <3>3
  <2>6. CASE ChildExport
    <3>1. child = "export" /\ child' = "unmap" /\ UNCHANGED ran
          /\ (reply' = Executed("ok", cmem) \/ reply' = Executed("memory", {}))
      BY <2>6 DEF ChildExport, ChildFails
    <3>2. ran[t] = OnceRun(t)
      BY <2>2, <3>1 DEF RunsOnce
    <3>3. reply'.ok \in {"ok", "memory"}
      BY <3>1, Executions
    <3> QED
      BY <1>2, <2>3, <3>1, <3>2, <3>3 DEF RunsOnce, Tells
  <2>7. CASE ChildUnmap
    <3>1. child = "unmap" /\ child' = "reply" /\ UNCHANGED <<ran, reply>>
      BY <2>7 DEF ChildUnmap
    <3> QED
      BY <1>2, <2>2, <2>3, <3>1 DEF RunsOnce, Tells
  <2> QED
    BY <1>7, <2>4, <2>5, <2>6, <2>7
<1>8. CASE ChildReply
  <2>1. /\ child = "reply" /\ toParent' = Append(toParent, reply) /\ UNCHANGED ran
        /\ child' \in {"dead", "loop"}
    BY <1>8 DEF ChildReply, ChildGone
  <2>2. toParent = <<>>
    BY <2>1, ServedIsWaiting DEF Served
  <2>3. toParent'[1] = reply /\ toParent' # <<>>
    BY <2>1, <2>2
  <2>4. \A u \in Thread : pc[u] = "execRecv" => RunsOnce(u)'
    BY <1>2, <1>3, <2>1, <2>3 DEF RunsOnce, Tells
  <2> QED
    BY <1>1, <2>1, <2>4, ChildRan
<1>9. CASE ChildExit \/ ChildCrash
  <2>1. /\ child' = "dead" /\ UNCHANGED ran
        /\ toParent' = toParent \/ (child = "reply" /\ toParent' = Append(toParent, NoReply))
    BY <1>9 DEF ChildExit, ChildCrash, ChildGone
  <2>2. ASSUME NEW u \in Thread, pc[u] = "execRecv" PROVE RunsOnce(u)'
    <3>1. CASE toParent' = toParent
      BY <1>2, <1>3, <2>1, <2>2, <3>1 DEF RunsOnce, Tells
    <3>2. CASE child = "reply" /\ toParent' = Append(toParent, NoReply)
      <4>1. toParent = <<>>
        BY <3>2, ServedIsWaiting DEF Served
      <4>2. toParent'[1] = NoReply
        BY <3>2, <4>1
      <4>3. toParent'[1].op = "Torn"
        BY <4>2 DEF NoReply
      <4> QED
        BY <1>2, <1>3, <2>1, <2>2, <4>3 DEF RunsOnce, Tells
    <3> QED
      BY <2>1, <3>1, <3>2
  <2> QED
    BY <1>1, <2>1, <2>2, ChildRan
<1> QED
  BY <1>4, <1>5, <1>6, <1>7, <1>8, <1>9 DEF Child

LEMMA GoneMeansNobody == RanInv /\ HostGone => Thread = {}
  BY DEF RanInv, RanOf, HostGone

LEMMA RanStep ==
  ASSUME ~HostMayDie
  PROVE  ProtocolInv /\ RanInv /\ [Next]_vars => RanInv'
<1> SUFFICES ASSUME ProtocolInv, RanInv, [Next]_vars PROVE RanInv'
  OBVIOUS
<1> USE DEF ProtocolInv, MemoryInv
<1>1. CASE HostGone
  BY <1>1, GoneMeansNobody DEF RanInv
<1>2. CASE ~HostGone
  <2>1. ASSUME NEW t \in Thread, Host(t) \/ Caller(t) PROVE RanInv'
    BY <1>2, <2>1, OtherCallsRan, ExecRan DEF Host, Caller, Outside
  <2>2. CASE UNCHANGED vars
    <3>1. UNCHANGED <<pc, call, result, ran, toParent, child, reply>>
      BY <2>2 DEF vars, hostVars, childVars
    <3> QED
      BY <3>1 DEF RanInv, RanOf, RunsOnce, OnceRun, Tells
  <2> QED
    BY <1>2, <2>1, <2>2, ChildKeepsRan, StepCases DEF HostDies
<1> QED
  BY <1>1, <1>2

-----------------------------------------------------------------------------
(* The refinement mapping of SafeSession, by name.                         *)

StateOf(t) ==
  CASE pc[t] \in {"execLock", "execSend", "execRecv", "decode", "copyOut",
                  "relSend", "relRecv"} -> "called"
    [] pc[t] = "returning" /\ call[t].art # {} ->
         IF result[t] = "ok" THEN "ok"
         ELSE IF result[t] \in {"runtime", "unavailable"} THEN "rejected" ELSE "failed"
    [] OTHER -> "idle"

AskedOf(t) == IF pc[t] \in Dropping \cup Loading THEN NoModule
              ELSE IF call[t].art = {} THEN NoModule ELSE call[t].module

Server == IF child = "none" THEN "absent" ELSE IF child \in Alive THEN "up" ELSE "down"

SameFor(t) == StateOf(t)' = StateOf(t) /\ AskedOf(t)' = AskedOf(t)

(* The actions of RemoteExecution under that mapping.                      *)

LEMMA Stutters ==
  ASSUME \A u \in Thread : SameFor(u), UNCHANGED ran, Server' = Server
  PROVE  UNCHANGED Abstract!vars
  BY DEF Abstract!vars, SameFor, StateOf, AskedOf, Server

LEMMA Begins ==
  ASSUME Init
  PROVE  Abstract!Init
  BY DEF Init, Abstract!Init, NoCall, Dropping, Loading

LEMMA Starts ==
  ASSUME \A u \in Thread : SameFor(u), UNCHANGED ran, Server = "absent", Server' = "up"
  PROVE  Abstract!Start
  BY DEF Abstract!Start, SameFor, StateOf, AskedOf, Server

LEMMA Stops ==
  ASSUME \A u \in Thread : SameFor(u), UNCHANGED ran, Server = "up", Server' = "down"
  PROVE  Abstract!Stop
  BY DEF Abstract!Stop, SameFor, StateOf, AskedOf, Server

LEMMA Calls ==
  ASSUME NEW t \in Thread, NEW m, StateOf(t) = "idle", StateOf(t)' = "called", AskedOf(t)' = m,
         \A u \in Thread \ {t} : SameFor(u),
         ran' = [ran EXCEPT ![t] = <<>>], Server' = Server
  PROVE  Abstract!Call(t, m)
<1> DEFINE state == [u \in Thread |-> StateOf(u)]
           asked == [u \in Thread |-> AskedOf(u)]
<1>1. state' = [state EXCEPT ![t] = "called"]
  BY DEF SameFor
<1>2. asked' = [asked EXCEPT ![t] = m]
  BY DEF SameFor
<1> QED
  BY <1>1, <1>2 DEF Abstract!Call, StateOf, AskedOf, Server

LEMMA Runs ==
  ASSUME NEW t \in Thread, StateOf(t) = "called", ran[t] = <<>>, Server = "up",
         ran' = [ran EXCEPT ![t] = <<AskedOf(t)>>],
         \A u \in Thread : SameFor(u), Server' = Server
  PROVE  Abstract!Run(t)
  BY DEF Abstract!Run, SameFor, StateOf, AskedOf, Server

LEMMA Finishes ==
  ASSUME NEW t \in Thread, NEW outcome, StateOf(t) = "called", StateOf(t)' = outcome,
         AskedOf(t)' = AskedOf(t),
         outcome = "ok" => ran[t] = <<AskedOf(t)>>, outcome = "rejected" => ran[t] = <<>>,
         \A u \in Thread \ {t} : SameFor(u), UNCHANGED ran, Server' = Server
  PROVE  Abstract!Finish(t, outcome)
<1> DEFINE state == [u \in Thread |-> StateOf(u)]
           asked == [u \in Thread |-> AskedOf(u)]
<1>1. state' = [state EXCEPT ![t] = outcome]
  BY DEF SameFor
<1>2. asked' = asked
  BY DEF SameFor
<1> QED
  BY <1>1, <1>2 DEF Abstract!Finish, StateOf, AskedOf, Server

LEMMA Returns ==
  ASSUME NEW t \in Thread, StateOf(t) \in {"ok", "rejected", "failed"}, StateOf(t)' = "idle",
         AskedOf(t)' = NoModule,
         \A u \in Thread \ {t} : SameFor(u), UNCHANGED ran, Server' = Server
  PROVE  Abstract!Return(t)
<1> DEFINE state == [u \in Thread |-> StateOf(u)]
           asked == [u \in Thread |-> AskedOf(u)]
<1>1. state' = [state EXCEPT ![t] = "idle"]
  BY DEF SameFor
<1>2. asked' = [asked EXCEPT ![t] = NoModule]
  BY DEF SameFor
<1> QED
  BY <1>1, <1>2 DEF Abstract!Return, StateOf, AskedOf, Server

-----------------------------------------------------------------------------
(* Each step of the session, under the mapping.                            *)

ExecStep(t) == \/ ExecLock(t) \/ ExecSend(t) \/ ExecRecv(t) \/ DecodeImport(t) \/ DecodeCopy(t)
               \/ ReleaseSend(t) \/ ReleaseRecv(t)

\* The calls of the other threads stay where they are.
LEMMA OthersMap ==
  ASSUME TypeInv, NEW t \in Thread, NEW to, pc' = [pc EXCEPT ![t] = to],
         \A u \in Thread \ {t} :
           call'[u].art = call[u].art /\ call'[u].module = call[u].module /\ result'[u] = result[u]
  PROVE  \A u \in Thread \ {t} : SameFor(u)
<1> SUFFICES ASSUME NEW u \in Thread \ {t} PROVE SameFor(u)
  OBVIOUS
<1>1. pc'[u] = pc[u]
  BY Typed
<1> QED
  BY <1>1 DEF SameFor, StateOf, AskedOf

\* The host waits for a child that is gone, and starts one.
LEMMA ServerMap ==
  ASSUME TypeInv, EndInv, NEW t \in Thread, Host(t) \/ Caller(t), ~NewSpawn(t)
  PROVE  Server' = Server
<1>1. UNCHANGED child \/ (child # "none" /\ child \notin Alive /\ child' = "reaped")
  <2>1. CASE NewRecv(t) \/ LoadRecv(t) \/ ExecRecv(t) \/ ReleaseRecv(t)
    BY <2>1 DEF NewRecv, LoadRecv, ExecRecv, ReleaseRecv, Received, ReceiveFailed, Reap, Alive
  <2>2. CASE CloseWait(t)
    BY <2>2 DEF CloseWait, Alive
  <2>3. CASE ~(NewRecv(t) \/ LoadRecv(t) \/ ExecRecv(t) \/ ReleaseRecv(t)) /\ ~CloseWait(t)
    BY <2>3 DEF Host, Caller, NewSend, LoadLock, LoadSend, ExecLock, ExecSend, DecodeImport, DecodeCopy,
       ReleaseSend, Return, DropLock, DropSend, DropRef, CloseSend, DropRuntime, MemNew, MemDrop,
       CallLoad, DropArtifact, CallExec, childVars
  <2> QED
    BY <2>1, <2>2, <2>3
<1> QED
  BY <1>1 DEF Server, Alive

\* A step of exec_values goes on with the call, or finishes it.
LEMMA ExecMap ==
  ASSUME TypeInv, EndInv, RoleInv, RanInv, RanInv', NEW t \in Thread, ExecStep(t)
  PROVE  UNCHANGED Abstract!vars \/ \E outcome \in {"ok", "rejected", "failed"} : Abstract!Finish(t, outcome)
<1>1. pc[t] \in InExec /\ UNCHANGED ran /\ \A u \in Thread \ {t} : result'[u] = result[u]
  BY Typed DEF ExecStep, ExecLock, ExecSend, ExecRecv, DecodeImport, DecodeCopy, ReleaseSend, ReleaseRecv,
     InExec, Finish, Record, childVars
<1>2. SameHandles(call, call')
  BY CallStep, SameCalls DEF ExecStep, ExecLock, ExecSend
<1>3. PICK to \in InExec \cup {"returning"} : pc' = [pc EXCEPT ![t] = to]
  BY DEF ExecStep, ExecLock, ExecSend, ExecRecv, DecodeImport, DecodeCopy, ReleaseSend, ReleaseRecv,
     InExec, Finish, Goto
<1>4. pc'[t] = to
  BY <1>3, Typed
<1>5. Server' = Server
  <2>1. Host(t) /\ ~NewSpawn(t)
    BY <1>1 DEF ExecStep, Host, NewSpawn, InExec
  <2> QED
    BY <2>1, ServerMap
<1>6. \A u \in Thread \ {t} : SameFor(u)
  BY <1>1, <1>2, <1>3, OthersMap DEF SameHandles
<1>7. /\ call'[t].art = call[t].art /\ call'[t].module = call[t].module /\ call[t].art # {}
      /\ StateOf(t) = "called" /\ AskedOf(t) = call[t].module
  BY <1>1, <1>2 DEF SameHandles, RoleInv, CallsHoldHandles, StateOf, AskedOf, InExec, Dropping, Loading
<1>8. AskedOf(t)' = AskedOf(t)
  BY <1>4, <1>7 DEF AskedOf, InExec, Dropping, Loading
<1>9. CASE to \in InExec
  <2>1. StateOf(t)' = "called"
    BY <1>4, <1>9 DEF StateOf, InExec
  <2>2. SameFor(t)
    BY <1>7, <1>8, <2>1 DEF SameFor
  <2> QED
    BY <1>1, <1>5, <1>6, <2>2, Stutters
<1>10. CASE to = "returning"
  <2>1. RanOf(t)'
    BY DEF RanInv
  <2>2. /\ result'[t] = "ok" => ran[t] = <<AskedOf(t)>>
        /\ result'[t] \in {"runtime", "unavailable"} => ran[t] = <<>>
    BY <1>1, <1>4, <1>7, <1>10, <2>1 DEF RanOf, OnceRun
  <2>3. PICK outcome \in {"ok", "rejected", "failed"} :
          /\ StateOf(t)' = outcome
          /\ outcome = "ok" => result'[t] = "ok"
          /\ outcome = "rejected" => result'[t] \in {"runtime", "unavailable"}
    BY <1>4, <1>7, <1>10 DEF StateOf
  <2>4. Abstract!Finish(t, outcome)
    BY <1>1, <1>5, <1>6, <1>7, <1>8, <2>2, <2>3, Finishes
  <2> QED
    BY <2>4
<1> QED
  BY <1>9, <1>10

\* What a thread does outside of exec_values is no step of a call, but that a
\* call returns and that the session is created.
LEMMA OutsideMap ==
  ASSUME TypeInv, EndInv, RoleInv, RoleInv', NEW t \in Thread, Outside(t)
  PROVE  UNCHANGED Abstract!vars \/ Abstract!Start \/ Abstract!Return(t)
<1>1. PICK to \in Location \ (InExec \cup {"gone"}) :
        /\ pc' = [pc EXCEPT ![t] = to] /\ pc[t] \notin InExec
        /\ to = "returning" => call' = call /\ pc[t] \in Loading
  BY OutsideMoves
<1>2. pc'[t] = to
  BY <1>1, Typed
<1>3. UNCHANGED ran /\ \A u \in Thread \ {t} : SameFor(u)
  BY <1>1, OthersAside, OthersMap
<1>4. to = "returning" => call'[t].art = {}
  BY <1>1 DEF RoleInv, CallsHoldHandles, Loading, InExec, Dropping
<1>5. StateOf(t)' = "idle" /\ AskedOf(t)' = NoModule
  <2>1. to \notin InExec \cup Dropping \cup {"returning"} => call'[t].art = {}
    BY <1>2 DEF RoleInv, CallsHoldHandles
  <2> QED
    BY <1>2, <1>4, <2>1 DEF StateOf, AskedOf, InExec
<1>6. pc[t] # "returning" \/ call[t].art = {} => StateOf(t) = "idle" /\ AskedOf(t) = NoModule
  <2>1. pc[t] \notin InExec \cup Dropping \cup {"returning"} => call[t].art = {}
    BY DEF RoleInv, CallsHoldHandles
  <2> QED
    BY <1>1, <2>1 DEF StateOf, AskedOf, InExec
<1>7. CASE NewSpawn(t)
  <2>1. pc[t] # "returning" /\ runtime = "none" /\ child' = "boot"
    BY <1>7 DEF NewSpawn
  <2>2. child = "none"
    BY <2>1 DEF EndInv
  <2>3. Server = "absent" /\ Server' = "up"
    BY <2>1, <2>2 DEF Server, Alive
  <2> QED
    BY <1>3, <1>5, <1>6, <2>1, <2>3, Starts DEF SameFor
<1>8. CASE ~NewSpawn(t)
  <2>1. Host(t) \/ Caller(t)
    BY DEF Outside, Host, Caller
  <2>2. Server' = Server
    BY <1>8, <2>1, ServerMap
  <2>3. CASE pc[t] # "returning" \/ call[t].art = {}
    BY <1>3, <1>5, <1>6, <2>2, <2>3, Stutters DEF SameFor
  <2>4. CASE pc[t] = "returning" /\ call[t].art # {}
    <3>1. StateOf(t) \in {"ok", "rejected", "failed"}
      BY <2>4 DEF StateOf
    <3> QED
      BY <1>3, <1>5, <2>2, <3>1, Returns
  <2> QED
    BY <2>3, <2>4
<1> QED
  BY <1>7, <1>8

LEMMA CallMap ==
  ASSUME TypeInv, EndInv, RoleInv, RoleInv', NEW t \in Thread,
         \E a \in arts, own, ref \in SUBSET Buf : CallExec(t, a, own, ref)
  PROVE  \E m \in Module : Abstract!Call(t, m)
<1>1. PICK a \in arts, own \in SUBSET Buf, ref \in SUBSET Buf : CallExec(t, a, own, ref)
  OBVIOUS
<1>2. /\ pc[t] = "idle" /\ pc' = [pc EXCEPT ![t] = "execLock"] /\ UNCHANGED <<result, child>>
      /\ ran' = [ran EXCEPT ![t] = <<>>]
      /\ \A u \in Thread \ {t} : call'[u] = call[u]
  BY <1>1, Typed DEF CallExec, Goto
<1>3. /\ call'[t].art = {a} /\ call'[t].module = a.module /\ a.module \in Module
  BY <1>1, Typed DEF CallExec, NoCall, Artifact
<1>4. pc'[t] = "execLock"
  BY <1>2, Typed
<1>5. StateOf(t) = "idle" /\ StateOf(t)' = "called" /\ AskedOf(t)' = a.module
  BY <1>2, <1>3, <1>4 DEF StateOf, AskedOf, Dropping, Loading
<1>6. \A u \in Thread \ {t} : SameFor(u)
  BY <1>2, OthersMap
<1>7. Server' = Server
  BY <1>2 DEF Server
<1>8. Abstract!Call(t, a.module)
  BY <1>2, <1>5, <1>6, <1>7, Calls
<1> QED
  BY <1>3, <1>8

\* The child executes for the thread that waits, or dies, or nobody sees it.
LEMMA ChildMap ==
  ASSUME TypeInv, RoleInv, ExchangeInv, HandleInv, RanInv, Child \/ ChildCrash
  PROVE  UNCHANGED Abstract!vars \/ Abstract!Stop \/ \E t \in Thread : Abstract!Run(t)
<1>1. \A u \in Thread : SameFor(u)
  <2>1. UNCHANGED <<pc, call, result>>
    BY ChildKeepsRoles
  <2> QED
    BY <2>1 DEF SameFor, StateOf, AskedOf
<1>2. Server = "up" /\ Server' \in {"up", "down"}
  <2>1. child \in Alive /\ child' \in Alive \cup {"dead"}
    BY DEF Child, ChildInit, ChildLoad, ChildReleaseArtifact, ChildReleaseOutputs, ChildExit,
       ChildExecute, ChildImport, ChildCopy, ChildRun, ChildExport, ChildUnmap, ChildReply, ChildCrash,
       ChildTakes, ChildAnswers, ChildFails, ChildGone, Alive
  <2> QED
    BY <2>1 DEF Server, Alive
<1>3. CASE ChildRun /\ child' = "export"
  <2>1. child \in Executing /\ child' \in Alive
    BY <1>3 DEF ChildRun, Executing, Alive
  <2>2. ~HostGone
    <3>1. job \in Request /\ job.op = "Execute"
      BY <2>1 DEF TypeInv, TypeOK, ChildTypeOK, CallsHoldWhatTheyUse
    <3>2. job.by \in Thread
      BY <3>1, RequestFields
    <3> QED
      BY <3>2, GoneMeansNobody
  <2>3. PICK t \in Thread : /\ pc[t] = "execRecv" /\ job.by = t /\ Lookup(job.id) = call[t].module
                            /\ toParent = <<>> /\ RunsOnce(t)
    BY <2>1, <2>2, RunIsAsked
  <2>4. ran[t] = <<>>
    BY <1>3, <2>3 DEF ChildRun, RunsOnce
  <2>5. StateOf(t) = "called" /\ AskedOf(t) = call[t].module
    BY <2>3 DEF StateOf, AskedOf, RoleInv, CallsHoldHandles, InExec, Dropping, Loading
  <2>6. ran' = [ran EXCEPT ![t] = Append(<<>>, AskedOf(t))]
    BY <1>3, <2>3, <2>4, <2>5 DEF ChildRun, ChildFails
  <2>7. Append(<<>>, AskedOf(t)) = <<AskedOf(t)>>
    OBVIOUS
  <2>8. ran' = [ran EXCEPT ![t] = <<AskedOf(t)>>]
    BY <2>6, <2>7
  <2>9. Server' = Server
    BY <1>2, <2>1 DEF Server, Alive
  <2>10. Abstract!Run(t)
    BY <1>1, <1>2, <2>4, <2>5, <2>8, <2>9, Runs
  <2> QED
    BY <2>10
<1>4. CASE ~(ChildRun /\ child' = "export")
  <2>1. UNCHANGED ran
    BY <1>4 DEF Child, ChildInit, ChildLoad, ChildReleaseArtifact, ChildReleaseOutputs, ChildExit,
       ChildExecute, ChildImport, ChildCopy, ChildRun, ChildExport, ChildUnmap, ChildReply, ChildCrash
  <2> QED
    BY <1>1, <1>2, <2>1, Stutters, Stops
<1> QED
  BY <1>3, <1>4

LEMMA StepMap ==
  ASSUME ~HostMayDie
  PROVE  ProtocolInv /\ ProtocolInv' /\ RanInv /\ RanInv' /\ [Next]_vars => [Abstract!Next]_(Abstract!vars)
<1> SUFFICES ASSUME ProtocolInv, ProtocolInv', RanInv, RanInv', [Next]_vars
             PROVE  Abstract!Next \/ UNCHANGED Abstract!vars
  OBVIOUS
<1> USE DEF ProtocolInv, MemoryInv
<1>1. ASSUME NEW t \in Thread, Host(t) \/ Caller(t) PROVE Abstract!Next \/ UNCHANGED Abstract!vars
  <2>1. \/ Outside(t) \/ ExecStep(t)
        \/ \E a \in arts, own, ref \in SUBSET Buf : CallExec(t, a, own, ref)
    BY <1>1 DEF Host, Caller, Outside, ExecStep
  <2>2. CASE Outside(t)
    BY <2>2, OutsideMap DEF Abstract!Next
  <2>3. CASE ExecStep(t)
    BY <2>3, ExecMap DEF Abstract!Next
  <2>4. CASE \E a \in arts, own, ref \in SUBSET Buf : CallExec(t, a, own, ref)
    BY <2>4, CallMap DEF Abstract!Next
  <2> QED
    BY <2>1, <2>2, <2>3, <2>4
<1>2. CASE Child \/ ChildCrash
  BY <1>2, ChildMap DEF Abstract!Next
<1>3. CASE UNCHANGED vars
  <2>1. UNCHANGED <<pc, call, result, ran, child>>
    BY <1>3 DEF vars, hostVars, childVars
  <2>2. Server' = Server /\ \A u \in Thread : SameFor(u)
    BY <2>1 DEF Server, SameFor, StateOf, AskedOf
  <2> QED
    BY <2>1, <2>2, Stutters
<1> QED
  BY <1>1, <1>2, <1>3, StepCases DEF HostDies

\* The session implements remote execution at most once: what the threads see
\* of exec_values is a behaviour of RemoteExecution, over any number of calls,
\* loads, drops and failures of the child.  While the host lives: a thread that
\* is killed in a call never returns from it (src/safe_runtime/mod.rs:178-246).
THEOREM Refines ==
  ASSUME ~HostMayDie
  PROVE  Spec => RemoteExecution
<1>1. Init => Abstract!Init
  BY Begins
<1>2. ProtocolInv /\ RanInv /\ [Next]_vars => RanInv'
  BY RanStep
<1>3. ProtocolInv /\ ProtocolInv' /\ RanInv /\ RanInv' /\ [Next]_vars => [Abstract!Next]_(Abstract!vars)
  BY StepMap
<1> QED
  BY <1>1, <1>2, <1>3, RanInit, ProtocolInvariance, PTL DEF Spec, RemoteExecution, Abstract!Spec
=============================================================================
