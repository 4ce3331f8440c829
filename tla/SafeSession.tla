---------------------------- MODULE SafeSession ----------------------------
(***************************************************************************)
(* The process-isolated runtime of catena-lang (src/safe_runtime): threads *)
(* of the host share one SafeSession, a mutex around a child process which *)
(* loads and runs compiled programs.  Requests and responses cross a pair  *)
(* of pipes; device buffers cross as IPC handles, so each process maps     *)
(* memory that the other one owns and frees.  The child may die at any     *)
(* moment: generated code aborts, and GPU faults kill it asynchronously.   *)
(***************************************************************************)
EXTENDS Naturals, Sequences, FiniteSets

CONSTANTS
  Thread,        \* host threads that hold handles to the session
  Buf,           \* device allocations of the host
  CBuf,          \* device allocations of the child
  Module,        \* rendered runtime modules
  MaxLoads,      \* bound: modules the child ever loads
  WaitMayFail,   \* waitpid may fail (ECHILD: the host ignores SIGCHLD)
  HostMayDie,    \* the host process may be killed
  NoThread, NoModule

ASSUME SessionAssumption ==
  /\ NoThread \notin Thread
  /\ NoModule \notin Module
  /\ MaxLoads \in Nat
  /\ WaitMayFail \in BOOLEAN /\ HostMayDie \in BOOLEAN

VARIABLES
  \* the host
  pc,            \* where each thread stands in the code
  result,        \* how its call ended, until the call returns
  call,          \* what its current call holds
  held,          \* allocations the thread owns outside of a call
  mem,           \* live device allocations of the host
  outMaps,       \* allocations of the child that the host has mapped
  runtime,       \* the SafeRuntime handle
  arts,          \* live Artifact handles
  mutex,         \* holder of SafeSession::worker
  poisoned,      \* a holder panicked
  stdin,         \* WorkerProcess::stdin is Some ("open") or None
  termination,   \* WorkerProcess::termination is Some
  \* the pipes
  toChild, toParent,
  \* the child
  child,         \* its phase, "reaped" once the host has waited for it
  artifacts,     \* Vec<Option<RuntimeArtifact>>
  pending,       \* pending_outputs
  maps,          \* allocations of the host that the child has mapped
  cmem,          \* live device allocations of the child
  job,           \* the request being executed
  reply,         \* the response to be written
  ran            \* history: modules run for each thread's current call

hostVars == <<pc, result, call, held, mem, outMaps, runtime, arts>>
workerVars == <<mutex, poisoned, stdin, termination>>
heapVars == <<artifacts, pending, maps, cmem>>
childVars == <<child, heapVars, job, reply, ran>>
vars == <<hostVars, workerVars, toChild, toParent, childVars>>

Id == {i \in 0..MaxLoads : i < MaxLoads}   \* indices of the child's vector

Artifact == [id : Id, module : Module]     \* module: history, what was loaded

Outcome == {"none", "ok", "runtime", "memory", "transport", "unknown",
            "unexpected", "terminated", "unavailable", "failed", "panic"}

Call == [art : SUBSET Artifact,      \* the handle used or dropped
         module : Module \cup {NoModule},
         own : SUBSET Buf,           \* Value::MemOwn arguments
         ref : SUBSET Buf,           \* Value::MemRef arguments
         outs : SUBSET CBuf,         \* exported outputs
         vals : SUBSET Buf,          \* host copies of the outputs
         decoded : {"none", "ok", "transport", "memory"}]   \* decode_child_outputs

NoCall == [art |-> {}, module |-> NoModule, own |-> {}, ref |-> {},
           outs |-> {}, vals |-> {}, decoded |-> "none"]

Request ==
  [op : {"Initialize", "ReleaseOutputs", "Shutdown"}]
    \cup [op : {"LoadModule"}, module : Module]
    \cup [op : {"ReleaseArtifact"}, id : Id]
    \cup [op : {"Execute"}, id : Id, own : SUBSET Buf, ref : SUBSET Buf, by : Thread]

\* "Torn" is the part of a frame that a dying child managed to write; the
\* field by is history, the thread whose request is answered.
Response ==
  [op : {"OutputsReleased", "Torn"}]
    \cup [op : {"Initialized"}, ok : BOOLEAN]
    \cup [op : {"Loaded"}, ok : {TRUE}, id : Id]
    \cup [op : {"Loaded"}, ok : {FALSE}]
    \cup [op : {"Executed"}, ok : {"ok", "runtime", "unknown", "memory"},
          outs : SUBSET CBuf, by : Thread]

NoJob == [op |-> "Shutdown"]
NoReply == [op |-> "Torn"]

Alive == {"boot", "loop", "import", "copy", "run", "export", "unmap", "reply"}

\* The locations at which a thread holds the mutex.
Locked == {"loadSend", "loadRecv", "execSend", "execRecv", "decode", "copyOut",
           "relSend", "relRecv", "dropSend"}
Dropping == {"dropLock", "dropSend", "dropRef"}
Loading == {"loadLock", "loadSend", "loadRecv"}
Location == Locked \cup Dropping \cup Loading
              \cup {"idle", "newSend", "newRecv", "execLock", "returning",
                    "closeSend", "closeWait", "gone"}

Init ==
  /\ pc = [t \in Thread |-> "idle"]
  /\ result = [t \in Thread |-> "none"]
  /\ call = [t \in Thread |-> NoCall]
  /\ held = [t \in Thread |-> {}]
  /\ mem = {} /\ outMaps = {}
  /\ runtime = "none" /\ arts = {}
  /\ mutex = NoThread /\ poisoned = FALSE
  /\ stdin = "closed" /\ termination = FALSE
  /\ toChild = <<>> /\ toParent = <<>>
  /\ child = "none" /\ artifacts = <<>>
  /\ pending = {} /\ maps = {} /\ cmem = {}
  /\ job = NoJob /\ reply = NoReply
  /\ ran = [t \in Thread |-> <<>>]

-----------------------------------------------------------------------------
(* WorkerProcess: a frame out, a frame in.                                 *)

Goto(t, there) == pc' = [pc EXCEPT ![t] = there]
Leave(t) == Goto(t, "idle") /\ result' = [result EXCEPT ![t] = "none"]
Record(t, r) == result' = [result EXCEPT ![t] = r]

\* write_frame succeeds as long as the child has not exited.
Sent(req) ==
  /\ stdin = "open" /\ child \in Alive
  /\ toChild' = Append(toChild, req)

\* How WorkerProcess::send fails: EPIPE, or no stdin left after reap.
SendFailed(r) ==
  /\ UNCHANGED toChild
  /\ \/ stdin = "open" /\ child \notin Alive /\ r = "transport"
     \/ stdin = "closed" /\ termination /\ r = "terminated"

\* The expect() in send: stdin was taken but no termination recorded.
SendPanicked == stdin = "closed" /\ ~termination /\ UNCHANGED toChild

Received(op) ==
  /\ toParent # <<>> /\ Head(toParent).op = op
  /\ toParent' = Tail(toParent)
  /\ UNCHANGED <<stdin, termination, child>>

\* Mutant: the termination is recorded without waiting for the child.
ReapUnwaited(waited) ==
  /\ stdin' = "closed"
  /\ termination' = TRUE
  /\ UNCHANGED child

\* receive saw end-of-file: reap takes stdin before it waits, and returns
\* early when the wait fails.
Reap(waited) ==
  /\ waited \/ WaitMayFail
  /\ stdin' = "closed"
  /\ termination' = waited
  /\ child' = "reaped"

\* Mutant: reading goes on at end-of-file.
ReceiveFailedButEof(op, r) ==
  /\ toParent # <<>> /\ Head(toParent).op # op
  /\ r = IF Head(toParent).op = "Torn" THEN "transport" ELSE "unexpected"
  /\ toParent' = Tail(toParent)
  /\ UNCHANGED <<stdin, termination, child>>

\* Every way in which the frame `op` does not arrive.
ReceiveFailed(op, r) ==
  \/ /\ toParent # <<>> /\ Head(toParent).op # op
     /\ r = IF Head(toParent).op = "Torn" THEN "transport" ELSE "unexpected"
     /\ toParent' = Tail(toParent)
     /\ UNCHANGED <<stdin, termination, child>>
  \/ /\ toParent = <<>> /\ child = "dead"
     /\ r \in {"terminated", "transport"}
     /\ Reap(r = "terminated")
     /\ UNCHANGED toParent

Acquire(t) == mutex = NoThread /\ ~poisoned /\ mutex' = t

\* Leave the critical section; the arguments are dropped after the guard.
Finish(t, r) ==
  /\ Record(t, r)
  /\ mutex' = NoThread
  /\ Goto(t, "returning")

-----------------------------------------------------------------------------
(* The threads' own device memory.                                         *)

Held == UNION {held[t] : t \in Thread}
Borrowed == UNION {call[t].ref : t \in Thread}

MemNew(t, b) ==
  /\ pc[t] = "idle" /\ b \notin mem
  /\ mem' = mem \cup {b}
  /\ held' = [held EXCEPT ![t] = @ \cup {b}]
  /\ UNCHANGED <<pc, result, call, outMaps, runtime, arts, workerVars, toChild,
                 toParent, childVars>>

MemDrop(t, b) ==
  /\ pc[t] = "idle" /\ b \in held[t] \ Borrowed
  /\ mem' = mem \ {b}
  /\ held' = [held EXCEPT ![t] = @ \ {b}]
  /\ UNCHANGED <<pc, result, call, outMaps, runtime, arts, workerVars, toChild,
                 toParent, childVars>>

-----------------------------------------------------------------------------
(* SafeRuntime::new                                                        *)

NewSpawn(t) ==
  /\ pc[t] = "idle" /\ runtime = "none"
  /\ runtime' = "new"
  /\ child' = "boot" /\ stdin' = "open"
  /\ Goto(t, "newSend")
  /\ UNCHANGED <<result, call, held, mem, outMaps, arts, mutex, poisoned,
                 termination, toChild, toParent, heapVars, job, reply, ran>>

\* An initialization that fails drops the worker.
NewFails(t, r) == runtime' = "dropped" /\ Record(t, r) /\ Goto(t, "closeSend")

NewSend(t) ==
  /\ pc[t] = "newSend"
  /\ \/ Sent([op |-> "Initialize"]) /\ Goto(t, "newRecv") /\ UNCHANGED <<result, runtime>>
     \/ \E r \in Outcome : SendFailed(r) /\ NewFails(t, r)
  /\ UNCHANGED <<call, held, mem, outMaps, arts, workerVars, toParent, childVars>>

NewRecv(t) ==
  /\ pc[t] = "newRecv"
  /\ \/ /\ Received("Initialized") /\ Head(toParent).ok
        /\ runtime' = "live" /\ Leave(t)
     \/ Received("Initialized") /\ ~Head(toParent).ok /\ NewFails(t, "failed")
     \/ \E r \in Outcome : ReceiveFailed("Initialized", r) /\ NewFails(t, r)
  /\ UNCHANGED <<call, held, mem, outMaps, arts, mutex, poisoned, toChild,
                 heapVars, job, reply, ran>>

-----------------------------------------------------------------------------
(* SafeRuntime::load                                                       *)

CallLoad(t, m) ==
  /\ pc[t] = "idle" /\ runtime = "live"
  /\ \A u \in Thread : pc[u] \notin Loading        \* load takes &mut self
  /\ call' = [call EXCEPT ![t] = [NoCall EXCEPT !.module = m]]
  /\ Goto(t, "loadLock")
  /\ UNCHANGED <<result, held, mem, outMaps, runtime, arts, workerVars, toChild,
                 toParent, childVars>>

\* load does not look at the termination before it sends.
LoadLock(t) ==
  /\ pc[t] = "loadLock"
  /\ \/ Acquire(t) /\ Goto(t, "loadSend") /\ UNCHANGED result
     \/ mutex = NoThread /\ poisoned /\ Finish(t, "transport")
  /\ UNCHANGED <<call, held, mem, outMaps, runtime, arts, poisoned, stdin,
                 termination, toChild, toParent, childVars>>

LoadSend(t) ==
  /\ pc[t] = "loadSend"
  /\ \/ /\ Sent([op |-> "LoadModule", module |-> call[t].module])
        /\ Goto(t, "loadRecv")
        /\ UNCHANGED <<result, mutex, poisoned>>
     \/ Finish(t, "transport") /\ UNCHANGED <<toChild, poisoned>>   \* FrameTooLarge
     \/ \E r \in Outcome : SendFailed(r) /\ Finish(t, r) /\ UNCHANGED poisoned
     \/ SendPanicked /\ Finish(t, "panic") /\ poisoned' = TRUE
  /\ UNCHANGED <<call, held, mem, outMaps, runtime, arts, stdin, termination,
                 toParent, childVars>>

LoadRecv(t) ==
  /\ pc[t] = "loadRecv"
  /\ \/ /\ Received("Loaded") /\ Head(toParent).ok
        /\ arts' = arts \cup {[id |-> Head(toParent).id, module |-> call[t].module]}
        /\ Finish(t, "ok")
     \/ Received("Loaded") /\ ~Head(toParent).ok /\ Finish(t, "failed") /\ UNCHANGED arts
     \/ \E r \in Outcome : ReceiveFailed("Loaded", r) /\ Finish(t, r) /\ UNCHANGED arts
  /\ UNCHANGED <<call, held, mem, outMaps, runtime, poisoned, toChild, heapVars,
                 job, reply, ran>>

-----------------------------------------------------------------------------
(* Artifact::exec_values                                                   *)

\* Owned arguments move into the call, borrowed ones stay with their owner.
CallExec(t, a, own, ref) ==
  /\ pc[t] = "idle" /\ a \in arts
  /\ own \subseteq held[t] \ Borrowed
  /\ ref \subseteq Held \ own
  /\ call' = [call EXCEPT ![t] =
                [NoCall EXCEPT !.art = {a}, !.module = a.module, !.own = own, !.ref = ref]]
  /\ held' = [held EXCEPT ![t] = @ \ own]
  /\ ran' = [ran EXCEPT ![t] = <<>>]
  /\ Goto(t, "execLock")
  /\ UNCHANGED <<result, mem, outMaps, runtime, arts, workerVars, toChild,
                 toParent, child, heapVars, job, reply>>

\* encode_parent_arguments fails on a foreign dialect, an export or a sync.
ExecLock(t) ==
  /\ pc[t] = "execLock"
  /\ \/ Acquire(t) /\ ~termination /\ Goto(t, "execSend") /\ UNCHANGED result
     \/ mutex = NoThread /\ poisoned /\ Finish(t, "transport")
     \/ mutex = NoThread /\ ~poisoned /\ termination /\ Finish(t, "unavailable")
     \/ /\ mutex = NoThread /\ ~poisoned /\ ~termination
        /\ call[t].own \cup call[t].ref # {}
        /\ \E r \in {"runtime", "memory"} : Finish(t, r)
  /\ UNCHANGED <<call, held, mem, outMaps, runtime, arts, poisoned, stdin,
                 termination, toChild, toParent, childVars>>

ExecuteRequest(t) ==
  [op |-> "Execute", id |-> (CHOOSE a \in call[t].art : TRUE).id,
   own |-> call[t].own, ref |-> call[t].ref, by |-> t]

\* Mutant: the arguments are freed once the request is out.
ExecSendFrees(t) ==
  /\ pc[t] = "execSend"
  /\ \/ /\ Sent(ExecuteRequest(t)) /\ Goto(t, "execRecv")
        /\ mem' = mem \ call[t].own /\ call' = [call EXCEPT ![t].own = {}]
        /\ UNCHANGED <<result, mutex>>
     \/ \E r \in Outcome : SendFailed(r) /\ Finish(t, r) /\ UNCHANGED <<mem, call>>
  /\ UNCHANGED <<held, outMaps, runtime, arts, poisoned, stdin, termination,
                 toParent, childVars>>

ExecSend(t) ==
  /\ pc[t] = "execSend"
  /\ \/ Sent(ExecuteRequest(t)) /\ Goto(t, "execRecv") /\ UNCHANGED <<result, mutex, poisoned>>
     \/ Finish(t, "transport") /\ UNCHANGED <<toChild, poisoned>>   \* FrameTooLarge
     \/ \E r \in Outcome : SendFailed(r) /\ Finish(t, r) /\ UNCHANGED poisoned
     \/ SendPanicked /\ Finish(t, "panic") /\ poisoned' = TRUE
  /\ UNCHANGED <<call, held, mem, outMaps, runtime, arts, stdin, termination,
                 toParent, childVars>>

\* Mutant: every remote error is reported as one of the runtime.
RemoteErrorIsRuntime(ok) == IF ok = "unknown" THEN "unknown" ELSE "runtime"

\* How a remote error surfaces; ReleaseOutputs is not sent after one.
RemoteError(ok) ==
  CASE ok = "runtime" -> "runtime" [] ok = "unknown" -> "unknown" [] OTHER -> "transport"

\* Mutant: the arguments live until the call returns.
ExecRecvKeeps(t) ==
  /\ pc[t] = "execRecv"
  /\ UNCHANGED mem
  /\ \/ /\ Received("Executed")
        /\ LET res == Head(toParent)
           IN  IF res.ok = "ok"
               THEN call' = [call EXCEPT ![t].outs = res.outs] /\ Goto(t, "decode")
                    /\ UNCHANGED <<result, mutex>>
               ELSE Finish(t, RemoteError(res.ok)) /\ UNCHANGED call
     \/ \E r \in Outcome : ReceiveFailed("Executed", r) /\ Finish(t, r) /\ UNCHANGED call
  /\ UNCHANGED <<held, outMaps, runtime, arts, poisoned, toChild, heapVars, job,
                 reply, ran>>

\* Consumed arguments are freed as soon as the response is in.
ExecRecv(t) ==
  /\ pc[t] = "execRecv"
  /\ \/ /\ Received("Executed")
        /\ mem' = mem \ call[t].own
        /\ LET res == Head(toParent)
           IN  IF res.ok = "ok"
               THEN /\ call' = [call EXCEPT ![t].own = {}, ![t].outs = res.outs]
                    /\ Goto(t, "decode") /\ UNCHANGED <<result, mutex>>
               ELSE /\ call' = [call EXCEPT ![t].own = {}]
                    /\ Finish(t, RemoteError(res.ok))
     \/ /\ \E r \in Outcome : ReceiveFailed("Executed", r) /\ Finish(t, r)
        /\ UNCHANGED <<call, mem>>
  /\ UNCHANGED <<held, outMaps, runtime, arts, poisoned, toChild, heapVars, job,
                 reply, ran>>

\* decode_child_outputs: map the exported buffers ...
DecodeImport(t) ==
  /\ pc[t] = "decode"
  /\ \/ outMaps' = call[t].outs /\ Goto(t, "copyOut") /\ UNCHANGED call
     \/ /\ call[t].outs # {} /\ UNCHANGED outMaps
        /\ call' = [call EXCEPT ![t].decoded = "transport"]
        /\ Goto(t, "relSend")
  /\ UNCHANGED <<result, held, mem, runtime, arts, workerVars, toChild, toParent,
                 childVars>>

\* ... copy each into an allocation of the host's, and unmap.
DecodeCopy(t) ==
  /\ pc[t] = "copyOut"
  /\ \/ \E new \in SUBSET (Buf \ mem) :
          /\ Cardinality(new) = Cardinality(call[t].outs)
          /\ mem' = mem \cup new
          /\ call' = [call EXCEPT ![t].vals = new, ![t].decoded = "ok"]
     \/ /\ call[t].outs # {} /\ UNCHANGED mem
        /\ call' = [call EXCEPT ![t].decoded = "memory"]
  /\ outMaps' = {}
  /\ Goto(t, "relSend")
  /\ UNCHANGED <<result, held, runtime, arts, workerVars, toChild, toParent, childVars>>

\* Mutant: the decoded values are forgotten.
DropValuesLeaks(t) ==
  /\ UNCHANGED mem
  /\ call' = [call EXCEPT ![t].vals = {}]

\* An error of the release exchange drops the decoded values.
DropValues(t) ==
  /\ mem' = mem \ call[t].vals
  /\ call' = [call EXCEPT ![t].vals = {}]

\* Mutant: the call returns without the acknowledgment.
ReleaseSendOnly(t) ==
  /\ pc[t] = "relSend"
  /\ \/ Sent([op |-> "ReleaseOutputs"]) /\ Finish(t, call[t].decoded) /\ UNCHANGED <<mem, call>>
     \/ \E r \in Outcome : SendFailed(r) /\ Finish(t, r) /\ DropValues(t)
  /\ UNCHANGED <<held, outMaps, runtime, arts, poisoned, stdin, termination,
                 toParent, childVars>>

ReleaseSend(t) ==
  /\ pc[t] = "relSend"
  /\ \/ /\ Sent([op |-> "ReleaseOutputs"]) /\ Goto(t, "relRecv")
        /\ UNCHANGED <<result, mutex, mem, call>>
     \/ \E r \in Outcome : SendFailed(r) /\ Finish(t, r) /\ DropValues(t)
  /\ UNCHANGED <<held, outMaps, runtime, arts, poisoned, stdin, termination,
                 toParent, childVars>>

\* Mutant: a failed acknowledgment is ignored.
ReleaseRecvIgnores(t) ==
  /\ pc[t] = "relRecv"
  /\ \/ Received("OutputsReleased")
     \/ \E r \in Outcome : ReceiveFailed("OutputsReleased", r)
  /\ Finish(t, call[t].decoded)
  /\ UNCHANGED <<call, held, mem, outMaps, runtime, arts, poisoned, toChild,
                 heapVars, job, reply, ran>>

ReleaseRecv(t) ==
  /\ pc[t] = "relRecv"
  /\ \/ Received("OutputsReleased") /\ Finish(t, call[t].decoded) /\ UNCHANGED <<mem, call>>
     \/ \E r \in Outcome : ReceiveFailed("OutputsReleased", r) /\ Finish(t, r) /\ DropValues(t)
  /\ UNCHANGED <<held, outMaps, runtime, arts, poisoned, toChild, heapVars, job,
                 reply, ran>>

\* The caller gets the values; arguments not yet consumed are dropped.
Return(t) ==
  /\ pc[t] = "returning"
  /\ mem' = mem \ call[t].own
  /\ held' = [held EXCEPT ![t] = @ \cup call[t].vals]
  /\ call' = [call EXCEPT ![t] = NoCall]
  /\ Leave(t)
  /\ UNCHANGED <<outMaps, runtime, arts, workerVars, toChild, toParent, childVars>>

-----------------------------------------------------------------------------
(* Dropping the handles: Artifact, SafeRuntime, and with the last of them  *)
(* the SafeSession and its WorkerProcess.                                  *)

InUse(a) == \E u \in Thread : a \in call[u].art

\* The Arc<SafeSession> that t gives up is the last one.
LastHandle(t) ==
  /\ runtime # "live" /\ arts = {}
  /\ \A u \in Thread \ {t} : pc[u] \notin Dropping

DropArtifact(t, a) ==
  /\ pc[t] = "idle" /\ a \in arts /\ ~InUse(a)
  /\ arts' = arts \ {a}
  /\ call' = [call EXCEPT ![t] = [NoCall EXCEPT !.art = {a}]]
  /\ Goto(t, "dropLock")
  /\ UNCHANGED <<result, held, mem, outMaps, runtime, workerVars, toChild,
                 toParent, childVars>>

DropLock(t) ==
  /\ pc[t] = "dropLock"
  /\ \/ Acquire(t) /\ ~termination /\ Goto(t, "dropSend")
     \/ mutex = NoThread /\ (poisoned \/ termination) /\ Goto(t, "dropRef") /\ UNCHANGED mutex
  /\ UNCHANGED <<result, call, held, mem, outMaps, runtime, arts, poisoned, stdin,
                 termination, toChild, toParent, childVars>>

\* The result of this send is ignored, and the request is not answered.
DropSend(t) ==
  /\ pc[t] = "dropSend"
  /\ LET a == CHOOSE b \in call[t].art : TRUE
     IN  \/ Sent([op |-> "ReleaseArtifact", id |-> a.id]) /\ UNCHANGED <<poisoned, result>>
         \/ (\E r \in Outcome : SendFailed(r)) /\ UNCHANGED <<poisoned, result>>
         \/ SendPanicked /\ poisoned' = TRUE /\ Record(t, "panic")
  /\ mutex' = NoThread
  /\ Goto(t, "dropRef")
  /\ UNCHANGED <<call, held, mem, outMaps, runtime, arts, stdin, termination,
                 toParent, childVars>>

DropRef(t) ==
  /\ pc[t] = "dropRef"
  /\ IF LastHandle(t) THEN Goto(t, "closeSend") /\ UNCHANGED result ELSE Leave(t)
  /\ call' = [call EXCEPT ![t] = NoCall]
  /\ UNCHANGED <<held, mem, outMaps, runtime, arts, workerVars, toChild,
                 toParent, childVars>>

DropRuntime(t) ==
  /\ pc[t] = "idle" /\ runtime = "live"
  /\ \A u \in Thread : pc[u] \notin Loading
  /\ runtime' = "dropped"
  /\ Goto(t, IF arts = {} /\ \A u \in Thread : pc[u] \notin Dropping
             THEN "closeSend" ELSE "idle")
  /\ UNCHANGED <<result, call, held, mem, outMaps, arts, workerVars, toChild,
                 toParent, childVars>>

\* Mutant: the child is waited for with stdin still open and no request sent.
CloseWaitsFirst(t) ==
  /\ pc[t] = "closeSend"
  /\ IF termination THEN Leave(t) ELSE Goto(t, "closeWait") /\ UNCHANGED result
  /\ UNCHANGED <<call, held, mem, outMaps, runtime, arts, workerVars, toChild,
                 toParent, childVars>>

\* Drop for WorkerProcess: ask for a shutdown, close stdin, and wait.
CloseSend(t) ==
  /\ pc[t] = "closeSend"
  /\ IF termination
     THEN Leave(t) /\ UNCHANGED <<stdin, toChild>>
     ELSE /\ toChild' = IF stdin = "open" /\ child \in Alive
                         THEN Append(toChild, [op |-> "Shutdown"]) ELSE toChild
          /\ stdin' = "closed"
          /\ Goto(t, "closeWait") /\ UNCHANGED result
  /\ UNCHANGED <<call, held, mem, outMaps, runtime, arts, mutex, poisoned,
                 termination, toParent, childVars>>

CloseWait(t) ==
  /\ pc[t] = "closeWait" /\ child \in {"dead", "reaped"}
  /\ child' = "reaped"
  /\ Leave(t)
  /\ UNCHANGED <<call, held, mem, outMaps, runtime, arts, workerVars,
                 toChild, toParent, heapVars, job, reply, ran>>

\* The host is killed: its memory, mappings and pipe ends go with it.
HostGone == \A t \in Thread : pc[t] = "gone"

HostDies ==
  /\ HostMayDie /\ ~HostGone
  /\ pc' = [t \in Thread |-> "gone"]
  /\ result' = [t \in Thread |-> "none"]
  /\ call' = [t \in Thread |-> NoCall]
  /\ held' = [t \in Thread |-> {}]
  /\ mem' = {} /\ outMaps' = {} /\ arts' = {} /\ runtime' = "dropped"
  /\ mutex' = NoThread /\ stdin' = "closed" /\ toParent' = <<>>
  /\ UNCHANGED <<poisoned, termination, toChild, childVars>>

-----------------------------------------------------------------------------
(* run_child_loop and execute_in_child                                     *)

ChildTakes(op) ==
  /\ child = "loop"
  /\ toChild # <<>> /\ Head(toChild).op = op
  /\ toChild' = Tail(toChild)

ChildAnswers(res) == reply' = res /\ child' = "reply"

Executed(ok, outs) ==
  [op |-> "Executed", ok |-> ok, outs |-> outs, by |-> job.by]

\* The process is gone, and the driver with all that it held on the device.
ChildGone ==
  /\ child' = "dead"
  /\ toChild' = <<>>
  /\ artifacts' = <<>> /\ pending' = {} /\ maps' = {} /\ cmem' = {}
  /\ job' = NoJob /\ reply' = NoReply

ChildInit ==
  /\ child = "boot"
  /\ toChild # <<>> /\ toChild' = Tail(toChild)
  /\ \E ok \in BOOLEAN : ChildAnswers([op |-> "Initialized", ok |-> ok])
  /\ UNCHANGED <<hostVars, workerVars, toParent, heapVars, job, ran>>

\* Mutant: the id is the length of the vector after the push.
ChildLoadPushed ==
  /\ ChildTakes("LoadModule")
  /\ Len(artifacts) < MaxLoads
  /\ artifacts' = Append(artifacts, Head(toChild).module)
  /\ ChildAnswers([op |-> "Loaded", ok |-> TRUE, id |-> Len(artifacts) + 1])
  /\ UNCHANGED <<hostVars, workerVars, toParent, pending, maps, cmem, job, ran>>

ChildLoad ==
  /\ ChildTakes("LoadModule")
  /\ \/ /\ Len(artifacts) < MaxLoads
        /\ artifacts' = Append(artifacts, Head(toChild).module)
        /\ ChildAnswers([op |-> "Loaded", ok |-> TRUE, id |-> Len(artifacts)])
     \/ /\ ChildAnswers([op |-> "Loaded", ok |-> FALSE])
        /\ UNCHANGED artifacts
  /\ UNCHANGED <<hostVars, workerVars, toParent, pending, maps, cmem, job, ran>>

\* Mutant: Vec::remove instead of storing None.
ChildReleaseRemoves ==
  /\ ChildTakes("ReleaseArtifact")
  /\ LET id == Head(toChild).id
     IN  artifacts' = SubSeq(artifacts, 1, id) \o SubSeq(artifacts, id + 2, Len(artifacts))
  /\ UNCHANGED <<hostVars, workerVars, toParent, child, pending, maps, cmem, job,
                 reply, ran>>

ChildReleaseArtifact ==
  /\ ChildTakes("ReleaseArtifact")
  /\ LET id == Head(toChild).id
     IN  artifacts' = IF id < Len(artifacts)
                      THEN [artifacts EXCEPT ![id + 1] = NoModule] ELSE artifacts
  /\ UNCHANGED <<hostVars, workerVars, toParent, child, pending, maps, cmem, job,
                 reply, ran>>

ChildReleaseOutputs ==
  /\ ChildTakes("ReleaseOutputs")
  /\ pending' = {} /\ cmem' = cmem \ pending
  /\ ChildAnswers([op |-> "OutputsReleased"])
  /\ UNCHANGED <<hostVars, workerVars, toParent, artifacts, maps, job, ran>>

\* Mutant: the loop does not end with its input.
ChildExitOnRequest ==
  /\ child = "loop" /\ toChild # <<>> /\ Head(toChild).op = "Shutdown"
  /\ ChildGone
  /\ UNCHANGED <<hostVars, workerVars, toParent, ran>>

\* Shutdown, or end-of-file on stdin.
ChildExit ==
  /\ \/ child = "loop" /\ toChild # <<>> /\ Head(toChild).op = "Shutdown"
     \/ child \in {"boot", "loop"} /\ toChild = <<>> /\ stdin = "closed"
  /\ ChildGone
  /\ UNCHANGED <<hostVars, workerVars, toParent, ran>>

Lookup(id) == IF id < Len(artifacts) THEN artifacts[id + 1] ELSE NoModule

ChildExecute ==
  /\ ChildTakes("Execute")
  /\ LET req == Head(toChild)
         Refuse(why) == ChildAnswers([op |-> "Executed", ok |-> why, outs |-> {}, by |-> req.by])
     IN  /\ job' = req
         /\ \/ pending # {} /\ Refuse("memory")
            \/ pending = {} /\ Lookup(req.id) = NoModule /\ Refuse("unknown")
            \/ /\ pending = {} /\ Lookup(req.id) # NoModule
               /\ child' = "import" /\ UNCHANGED reply
  /\ UNCHANGED <<hostVars, workerVars, toParent, heapVars, ran>>

\* An error on the way leaves through the drop of the mappings as well.
ChildFails(ok) == reply' = Executed(ok, {}) /\ child' = "unmap"

ChildImport ==
  /\ child = "import"
  /\ \/ maps' = job.own \cup job.ref /\ child' = "copy" /\ UNCHANGED reply
     \/ job.own \cup job.ref # {} /\ ChildFails("memory") /\ UNCHANGED maps
  /\ UNCHANGED <<hostVars, workerVars, toChild, toParent, artifacts, pending,
                 cmem, job, ran>>

\* Owned arguments are copied; a failed copy drops those already made.
ChildCopy ==
  /\ child = "copy"
  /\ \/ /\ \E new \in SUBSET (CBuf \ cmem) :
             Cardinality(new) = Cardinality(job.own) /\ cmem' = cmem \cup new
        /\ child' = "run" /\ UNCHANGED reply
     \/ job.own # {} /\ ChildFails("memory") /\ UNCHANGED cmem
  /\ UNCHANGED <<hostVars, workerVars, toChild, toParent, artifacts, pending,
                 maps, job, ran>>

\* The program consumes its owned arguments and returns owned outputs;
\* exec_values checks its arguments before it calls the program.
ChildRun ==
  /\ child = "run"
  /\ \/ /\ \E outs \in SUBSET CBuf : cmem' = outs
        /\ ran' = [ran EXCEPT ![job.by] = Append(@, Lookup(job.id))]
        /\ child' = "export" /\ UNCHANGED reply
     \/ ChildFails("runtime") /\ cmem' = {} /\ UNCHANGED ran
  /\ UNCHANGED <<hostVars, workerVars, toChild, toParent, artifacts, pending,
                 maps, job>>

\* Mutant: outputs pushed before the error stay pending.
ChildExportKeeps ==
  /\ child = "export"
  /\ \/ pending' = cmem /\ reply' = Executed("ok", cmem) /\ child' = "unmap"
     \/ pending' = cmem /\ ChildFails("memory")
  /\ UNCHANGED <<hostVars, workerVars, toChild, toParent, artifacts, maps, cmem, job, ran>>

\* synchronize and encode_child_outputs: on an error no output is kept.
ChildExport ==
  /\ child = "export"
  /\ \/ pending' = cmem /\ reply' = Executed("ok", cmem) /\ child' = "unmap" /\ UNCHANGED cmem
     \/ pending' = {} /\ cmem' = {} /\ ChildFails("memory")
  /\ UNCHANGED <<hostVars, workerVars, toChild, toParent, artifacts, maps, job, ran>>

ChildUnmap ==
  /\ child = "unmap"
  /\ maps' = {} /\ child' = "reply"
  /\ UNCHANGED <<hostVars, workerVars, toChild, toParent, artifacts, pending,
                 cmem, job, reply, ran>>

\* write_response; a child whose Runtime::new failed, or that has nobody to
\* answer to (EPIPE), then leaves.
ChildReply ==
  /\ child = "reply"
  /\ toParent' = IF HostGone THEN toParent ELSE Append(toParent, reply)
  /\ IF HostGone \/ (reply.op = "Initialized" /\ reply.ok = FALSE)
     THEN ChildGone
     ELSE /\ child' = "loop" /\ job' = NoJob /\ reply' = NoReply
          /\ UNCHANGED <<toChild, heapVars>>
  /\ UNCHANGED <<hostVars, workerVars, ran>>

\* An abort, a GPU fault or a signal, at any moment.
ChildCrash ==
  /\ child \in Alive
  /\ \/ UNCHANGED toParent
     \/ child = "reply" /\ ~HostGone /\ toParent' = Append(toParent, NoReply)
  /\ ChildGone
  /\ UNCHANGED <<hostVars, workerVars, ran>>

-----------------------------------------------------------------------------
Host(t) ==
  \/ NewSend(t) \/ NewRecv(t)
  \/ LoadLock(t) \/ LoadSend(t) \/ LoadRecv(t)
  \/ ExecLock(t) \/ ExecSend(t) \/ ExecRecv(t) \/ DecodeImport(t) \/ DecodeCopy(t)
  \/ ReleaseSend(t) \/ ReleaseRecv(t) \/ Return(t)
  \/ DropLock(t) \/ DropSend(t) \/ DropRef(t) \/ CloseSend(t) \/ CloseWait(t)

Caller(t) ==
  \/ NewSpawn(t) \/ DropRuntime(t)
  \/ \E b \in Buf : MemNew(t, b) \/ MemDrop(t, b)
  \/ \E m \in Module : CallLoad(t, m)
  \/ \E a \in arts : DropArtifact(t, a) \/ \E own, ref \in SUBSET Buf : CallExec(t, a, own, ref)

Child ==
  \/ ChildInit \/ ChildLoad \/ ChildReleaseArtifact \/ ChildReleaseOutputs \/ ChildExit
  \/ ChildExecute \/ ChildImport \/ ChildCopy \/ ChildRun \/ ChildExport \/ ChildUnmap
  \/ ChildReply

\* Everything is dropped: the session has come to its end.
Closed ==
  /\ runtime = "dropped" /\ arts = {}
  /\ \A t \in Thread : pc[t] \in {"idle", "gone"}
  /\ child \notin Alive
Ended == Closed /\ UNCHANGED vars

Next ==
  \/ \E t \in Thread : Host(t) \/ Caller(t)
  \/ Child \/ ChildCrash
  \/ HostDies
  \/ Ended

\* Threads run on and the child serves what it read: generated programs have
\* no recursion and only bounded folds, so they return or abort.
Fairness == /\ \A t \in Thread : WF_vars(Host(t))
            /\ WF_vars(Child)

Spec == Init /\ [][Next]_vars
FairSpec == Spec /\ Fairness

-----------------------------------------------------------------------------
(* Properties                                                              *)

HostTypeOK ==
  /\ pc \in [Thread -> Location]
  /\ result \in [Thread -> Outcome]
  /\ call \in [Thread -> Call]
  /\ held \in [Thread -> SUBSET Buf]
  /\ mem \in SUBSET Buf /\ outMaps \in SUBSET CBuf
  /\ runtime \in {"none", "new", "live", "dropped"}
  /\ arts \in SUBSET Artifact

WorkerTypeOK ==
  /\ mutex \in Thread \cup {NoThread} /\ poisoned \in BOOLEAN
  /\ stdin \in {"open", "closed"} /\ termination \in BOOLEAN

PipeTypeOK == toChild \in Seq(Request) /\ toParent \in Seq(Response)

ChildTypeOK ==
  /\ child \in Alive \cup {"none", "dead", "reaped"}
  /\ artifacts \in Seq(Module \cup {NoModule})
  /\ pending \in SUBSET CBuf /\ maps \in SUBSET Buf /\ cmem \in SUBSET CBuf
  /\ job \in Request /\ reply \in Response
  /\ ran \in [Thread -> Seq(Module \cup {NoModule})]

TypeOK == HostTypeOK /\ WorkerTypeOK /\ PipeTypeOK /\ ChildTypeOK

\* A call leaves nothing behind for the next one: while nobody holds the
\* worker, the child has no answer on the way, maps no buffer of the host,
\* keeps no copy or output, and has at most released artifacts to forget.
\* (Every exit of exec_values: mod.rs:187-246, the release exchange included.)
NothingLeftBetweenCalls ==
  (mutex = NoThread /\ runtime = "live" /\ child \in Alive) =>
    /\ child = "loop" /\ toParent = <<>>
    /\ maps = {} /\ cmem = {} /\ pending = {} /\ outMaps = {}
    /\ \A i \in DOMAIN toChild : toChild[i].op = "ReleaseArtifact"

\* No thread reads the answer to another thread's request, or to an earlier
\* request of its own: UnexpectedResponse and UnknownArtifact do not occur.
AnswersMatchRequests ==
  /\ \A t \in Thread : result[t] \notin {"unexpected", "unknown"}
  /\ \A t \in Thread : pc[t] = "execRecv" =>
       \A i \in DOMAIN toParent :
         toParent[i].op # "Torn" => toParent[i].op = "Executed" /\ toParent[i].by = t

\* The id of a live handle denotes in the child the module that was loaded
\* under it, after the releases still under way (ids are indices that are
\* never reused: mod.rs:400-416).
HandlesDenoteTheirModule ==
  child \in Alive =>
    \A a \in arts :
      /\ Lookup(a.id) = a.module
      /\ \A i \in DOMAIN toChild : toChild[i].op = "ReleaseArtifact" => toChild[i].id # a.id

\* Neither process frees what the other has mapped, and the child keeps every
\* output the host is about to copy ("Exports a view while its owning process
\* keeps the allocation alive": ipc.rs:99).
MappedMemoryIsLive ==
  /\ ~HostGone => maps \subseteq mem
  /\ child \in Alive => outMaps \subseteq pending /\ pending \subseteq cmem
  /\ \A t \in Thread : (pc[t] \in {"decode", "copyOut"} /\ child \in Alive) => pending = call[t].outs

\* "Free consumed parent allocations before output copies can reuse their GEM
\* handles" (mod.rs:211-217): when outputs are copied, the consumed arguments
\* of the call are freed and the child has closed its mappings of them.
ConsumedFreedBeforeCopies ==
  \A t \in Thread : pc[t] \in {"decode", "copyOut", "relSend"} =>
    maps = {} /\ call[t].own = {}

\* Every device allocation of the host has exactly one owner: none leaks on
\* an error path of a call, and none is freed twice or while it is borrowed.
OneOwner ==
  /\ \A b \in Buf :
       Cardinality({t \in Thread : b \in held[t]})
         + Cardinality({t \in Thread : b \in call[t].own})
         + Cardinality({t \in Thread : b \in call[t].vals}) = IF b \in mem THEN 1 ELSE 0
  /\ Borrowed \subseteq mem

\* A report of the child's termination is true and complete: the child was
\* waited for, and its pipe is closed.
TerminationIsReal ==
  /\ termination => child = "reaped" /\ stdin = "closed"
  /\ \A t \in Thread : result[t] \in {"terminated", "unavailable"} => child = "reaped"

\* A recorded termination stays, and no call ends well from the step on that
\* records it: exec_values gives up values it has copied if the child does not
\* live to acknowledge their release (mod.rs:235-246).
TerminationIsFinal ==
  [][/\ termination => termination'
     /\ termination' => \A t \in Thread : result'[t] = "ok" => result[t] = "ok"]_vars

\* The calls of the threads implement remote execution at most once.
Abstract == INSTANCE RemoteExecution WITH
  state <- [t \in Thread |->
              CASE pc[t] \in {"execLock", "execSend", "execRecv", "decode", "copyOut",
                              "relSend", "relRecv"} -> "called"
                [] pc[t] = "returning" /\ call[t].art # {} ->
                     IF result[t] = "ok" THEN "ok"
                     ELSE IF result[t] \in {"runtime", "unavailable"} THEN "rejected" ELSE "failed"
                [] OTHER -> "idle"],
  asked <- [t \in Thread |-> IF pc[t] \in Dropping \cup Loading THEN NoModule
                             ELSE IF call[t].art = {} THEN NoModule ELSE call[t].module],
  ran <- ran,
  server <- IF child = "none" THEN "absent" ELSE IF child \in Alive THEN "up" ELSE "down"
RemoteExecution == Abstract!Spec

\* Whoever holds the worker gives it back, whatever becomes of the child.
ExchangesEnd == \A t \in Thread : mutex = t ~> mutex # t

\* When the last handle is gone the child exits and is waited for.
ChildIsReaped == (runtime = "dropped" /\ arts = {} /\ ~HostGone) ~> (child = "reaped" \/ HostGone)

\* A child whose host was killed finds its pipes closed and exits.
OrphanExits == HostGone ~> child \notin Alive

\* mod.rs:6-8: "If execution terminates the child, the host process survives
\* and receives a structured error with its exit status and stderr."
DeathIsReported ==
  [][\A t \in Thread :
       /\ pc[t] \in {"relSend", "relRecv"} /\ call[t].decoded = "ok"
       /\ child \notin Alive /\ result'[t] \notin {"none", "ok"}
       => result'[t] = "terminated"]_vars

\* mod.rs:660: "closed worker stdin should have termination state".
ClosedStdinHasTermination ==
  (runtime = "live" /\ stdin = "closed") => termination
=============================================================================
