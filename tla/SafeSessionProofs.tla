------------------------- MODULE SafeSessionProofs -------------------------
(***************************************************************************)
(* Facts about the session for any number of threads, buffers, modules and *)
(* loads: its types, what a recorded termination of the child is worth,    *)
(* and the first three layers of the invariant of the protocol, each       *)
(* preserved by every step under those before it: who may be where         *)
(* together, who owns the memory of the host, and what the child keeps by  *)
(* itself.                                                                 *)
(***************************************************************************)
EXTENDS SafeSession, FiniteSetTheorems, SequenceTheorems, TLAPS

Executing == {"import", "copy", "run", "export", "unmap"}
InExec == {"execLock", "execSend", "execRecv", "decode", "copyOut", "relSend", "relRecv"}

\* A call holds what its steps use, and the child executes an Execute.  Without
\* this TypeOK is not inductive: LoadRecv makes an Artifact of call[t].module,
\* ExecSend and DropSend name the artifact in call[t].art, Executed names job.by.
CallsHoldWhatTheyUse ==
  /\ \A t \in Thread : pc[t] \in Loading => call[t].module \in Module
  /\ \A t \in Thread : pc[t] \in InExec \cup {"dropLock", "dropSend"} => call[t].art # {}
  /\ child \in Executing => job.op = "Execute"

TypeInv == TypeOK /\ CallsHoldWhatTheyUse

USE SessionAssumption

-----------------------------------------------------------------------------
(* The records that calls and pipes are made of.                           *)

LEMMA CallFields ==
  ASSUME NEW c \in Call
  PROVE  /\ c.art \subseteq Artifact /\ c.module \in Module \cup {NoModule}
         /\ c.own \subseteq Buf /\ c.ref \subseteq Buf /\ c.outs \subseteq CBuf /\ c.vals \subseteq Buf
         /\ c.decoded \in {"none", "ok", "transport", "memory"}
  BY DEF Call

LEMMA NewCalls ==
  /\ NoCall \in Call
  /\ \A m \in Module : LET c == [NoCall EXCEPT !.module = m] IN c \in Call /\ c.module = m
  /\ \A a \in Artifact : LET c == [NoCall EXCEPT !.art = {a}] IN c \in Call /\ c.art = {a}
  /\ \A a \in Artifact, m \in Module, own, ref \in SUBSET Buf :
       LET c == [NoCall EXCEPT !.art = {a}, !.module = m, !.own = own, !.ref = ref]
       IN  c \in Call /\ c.art = {a}
  BY ZenonT(60) DEF NoCall, Call, Outcome

LEMMA Requests ==
  /\ [op |-> "Initialize"] \in Request /\ [op |-> "ReleaseOutputs"] \in Request
  /\ [op |-> "Shutdown"] \in Request /\ NoJob \in Request
  /\ \A m \in Module : [op |-> "LoadModule", module |-> m] \in Request
  /\ \A i \in Id : [op |-> "ReleaseArtifact", id |-> i] \in Request
  /\ \A i \in Id, own, ref \in SUBSET Buf, t \in Thread :
       [op |-> "Execute", id |-> i, own |-> own, ref |-> ref, by |-> t] \in Request
  BY DEF Request, NoJob

LEMMA RequestFields ==
  ASSUME NEW r \in Request
  PROVE  /\ r.op = "LoadModule" => r.module \in Module
         /\ r.op = "ReleaseArtifact" => r.id \in Id
         /\ r.op = "Execute" => r.id \in Id /\ r.own \subseteq Buf /\ r.ref \subseteq Buf /\ r.by \in Thread
  BY DEF Request

LEMMA Responses ==
  /\ NoReply \in Response /\ [op |-> "OutputsReleased"] \in Response
  /\ \A ok \in BOOLEAN : [op |-> "Initialized", ok |-> ok] \in Response
  /\ \A i \in Id : [op |-> "Loaded", ok |-> TRUE, id |-> i] \in Response
  /\ [op |-> "Loaded", ok |-> FALSE] \in Response
  /\ \A ok \in {"ok", "runtime", "unknown", "memory"}, outs \in SUBSET CBuf, t \in Thread :
       [op |-> "Executed", ok |-> ok, outs |-> outs, by |-> t] \in Response
  BY DEF Response, NoReply

LEMMA ResponseFields ==
  ASSUME NEW r \in Response
  PROVE  /\ r.op = "Loaded" /\ r.ok => r.id \in Id
         /\ r.op = "Executed" => r.ok \in {"ok", "runtime", "unknown", "memory"} /\ r.outs \subseteq CBuf
  BY DEF Response

\* What the pipes carry has its type on both sides.
LEMMA SentType ==
  ASSUME PipeTypeOK, NEW req \in Request, Sent(req)
  PROVE  toChild' \in Seq(Request)
  BY DEF PipeTypeOK, Sent

LEMMA ReceivedType ==
  ASSUME PipeTypeOK, NEW op, Received(op)
  PROVE  /\ toParent' \in Seq(Response)
         /\ Head(toParent) \in Response /\ Head(toParent).op = op
  BY DEF PipeTypeOK, Received

LEMMA ReceiveFailedType ==
  ASSUME PipeTypeOK, NEW op, NEW r, ReceiveFailed(op, r)
  PROVE  toParent' \in Seq(Response)
  BY DEF PipeTypeOK, ReceiveFailed

LEMMA TakenType ==
  ASSUME PipeTypeOK, NEW op, ChildTakes(op)
  PROVE  /\ toChild' \in Seq(Request)
         /\ Head(toChild) \in Request /\ Head(toChild).op = op
  BY DEF PipeTypeOK, ChildTakes

LEMMA LookupType ==
  ASSUME ChildTypeOK, NEW i \in Id
  PROVE  Lookup(i) \in Module \cup {NoModule}
  BY SessionAssumption DEF ChildTypeOK, Lookup, Id

\* What CallsHoldWhatTheyUse says of a call.
SameHandles(c, d) == \A u \in Thread : d[u].art = c[u].art /\ d[u].module = c[u].module

LEMMA TwoUpdates ==
  ASSUME NEW c \in [Thread -> Call], NEW t \in Thread
  PROVE  /\ \A outs \in SUBSET CBuf :
              LET d == [c EXCEPT ![t].own = {}, ![t].outs = outs]
              IN  d \in [Thread -> Call] /\ SameHandles(c, d)
         /\ \A new \in SUBSET Buf :
              LET d == [c EXCEPT ![t].vals = new, ![t].decoded = "ok"]
              IN  d \in [Thread -> Call] /\ SameHandles(c, d)
<1>1. ASSUME NEW outs \in SUBSET CBuf
      PROVE LET d == [c EXCEPT ![t].own = {}, ![t].outs = outs]
            IN  d \in [Thread -> Call] /\ SameHandles(c, d)
  BY ZenonT(60) DEF Call, SameHandles
<1>2. ASSUME NEW new \in SUBSET Buf
      PROVE LET d == [c EXCEPT ![t].vals = new, ![t].decoded = "ok"]
            IN  d \in [Thread -> Call] /\ SameHandles(c, d)
  BY ZenonT(60) DEF Call, Outcome, SameHandles
<1> QED
  BY <1>1, <1>2

-----------------------------------------------------------------------------

(* One step of the specification: by the host, its callers, or the child.  *)
LEMMA StepCases ==
  ASSUME [Next]_vars
  PROVE  \/ \E t \in Thread : Host(t) \/ Caller(t)
         \/ Child \/ ChildCrash \/ HostDies \/ UNCHANGED vars
  BY DEF Next, Ended

LEMMA ChildKeepsHost == Child \/ ChildCrash => UNCHANGED hostVars
  BY DEF Child, ChildInit, ChildLoad, ChildReleaseArtifact, ChildReleaseOutputs, ChildExit,
     ChildExecute, ChildImport, ChildCopy, ChildRun, ChildExport, ChildUnmap, ChildReply, ChildCrash

LEMMA NoFrames == <<>> \in Seq(Request) /\ <<>> \in Seq(Response)
  OBVIOUS

LEMMA WorkerTypeStep == WorkerTypeOK /\ [Next]_vars => WorkerTypeOK'
<1> SUFFICES ASSUME WorkerTypeOK, [Next]_vars PROVE WorkerTypeOK'
  OBVIOUS
<1> USE DEF WorkerTypeOK, workerVars
<1>1. ASSUME NEW t \in Thread, NewSpawn(t) \/ LoadLock(t) \/ ExecLock(t) \/ DropLock(t)
      PROVE  WorkerTypeOK'
  BY <1>1 DEF NewSpawn, LoadLock, ExecLock, DropLock, Acquire, Finish
<1>2. ASSUME NEW t \in Thread, NewSend(t) \/ LoadSend(t) \/ ExecSend(t) \/ ReleaseSend(t)
                                \/ DropSend(t) \/ CloseSend(t)
      PROVE  WorkerTypeOK'
  BY <1>2 DEF NewSend, LoadSend, ExecSend, ReleaseSend, DropSend, CloseSend, Finish
<1>3. ASSUME NEW op, NEW r, Received(op) \/ ReceiveFailed(op, r)
      PROVE  stdin' \in {"open", "closed"} /\ termination' \in BOOLEAN
  BY <1>3 DEF Received, ReceiveFailed, Reap
<1>4. ASSUME NEW t \in Thread, NewRecv(t) \/ LoadRecv(t) \/ ExecRecv(t) \/ ReleaseRecv(t)
      PROVE  WorkerTypeOK'
  BY <1>3, <1>4 DEF NewRecv, LoadRecv, ExecRecv, ReleaseRecv, Finish
<1>5. ASSUME NEW t \in Thread,
             DecodeImport(t) \/ DecodeCopy(t) \/ Return(t) \/ DropRef(t) \/ CloseWait(t)
      PROVE  WorkerTypeOK'
  BY <1>5 DEF DecodeImport, DecodeCopy, Return, DropRef, CloseWait
<1>6. ASSUME NEW t \in Thread, Caller(t) PROVE WorkerTypeOK'
  BY <1>1, <1>6 DEF Caller, DropRuntime, MemNew, MemDrop, CallLoad, DropArtifact, CallExec
<1>7. CASE Child \/ ChildCrash
  BY <1>7 DEF Child, ChildInit, ChildLoad, ChildReleaseArtifact, ChildReleaseOutputs, ChildExit,
     ChildExecute, ChildImport, ChildCopy, ChildRun, ChildExport, ChildUnmap, ChildReply, ChildCrash
<1>8. CASE HostDies \/ UNCHANGED vars
  BY <1>8 DEF HostDies, vars
<1> QED
  BY StepCases, <1>1, <1>2, <1>4, <1>5, <1>6, <1>7, <1>8 DEF Host

LEMMA PipeTypeStep == TypeInv /\ [Next]_vars => PipeTypeOK'
<1> SUFFICES ASSUME TypeInv, [Next]_vars PROVE PipeTypeOK'
  OBVIOUS
<1> USE DEF TypeInv, TypeOK
<1>1. ASSUME NEW t \in Thread, NewSend(t) \/ ReleaseSend(t) \/ CloseSend(t) PROVE PipeTypeOK'
  <2>1. CASE NewSend(t) \/ ReleaseSend(t)
    BY <2>1, SentType, Requests DEF NewSend, ReleaseSend, SendFailed, PipeTypeOK
  <2>2. CASE CloseSend(t)
    <3>1. Append(toChild, [op |-> "Shutdown"]) \in Seq(Request)
      BY Requests DEF PipeTypeOK
    <3> QED
      BY <2>2, <3>1 DEF CloseSend, PipeTypeOK
  <2> QED
    BY <1>1, <2>1, <2>2
<1>2. ASSUME NEW t \in Thread, LoadSend(t) PROVE PipeTypeOK'
  <2>1. [op |-> "LoadModule", module |-> call[t].module] \in Request
    BY <1>2, Requests DEF LoadSend, CallsHoldWhatTheyUse, Loading
  <2> QED
    BY <1>2, <2>1, SentType DEF LoadSend, SendFailed, SendPanicked, PipeTypeOK
<1>3. ASSUME NEW t \in Thread, pc[t] \in InExec \cup {"dropLock", "dropSend"}
      PROVE  (CHOOSE a \in call[t].art : TRUE).id \in Id
  BY <1>3, CallFields DEF HostTypeOK, CallsHoldWhatTheyUse, Artifact
<1>4. ASSUME NEW t \in Thread, ExecSend(t) PROVE PipeTypeOK'
  <2>1. ExecuteRequest(t) \in Request
    BY <1>3, <1>4, CallFields, Requests DEF ExecSend, ExecuteRequest, HostTypeOK, InExec
  <2> QED
    BY <1>4, <2>1, SentType DEF ExecSend, SendFailed, SendPanicked, PipeTypeOK
<1>5. ASSUME NEW t \in Thread, DropSend(t) PROVE PipeTypeOK'
  <2> DEFINE a == CHOOSE b \in call[t].art : TRUE
  <2>1. [op |-> "ReleaseArtifact", id |-> a.id] \in Request
    BY <1>3, <1>5, Requests DEF DropSend
  <2> QED
    BY <1>5, <2>1, SentType DEF DropSend, SendFailed, SendPanicked, PipeTypeOK
<1>6. ASSUME NEW t \in Thread, NewRecv(t) \/ LoadRecv(t) \/ ExecRecv(t) \/ ReleaseRecv(t)
      PROVE  PipeTypeOK'
  BY <1>6, ReceivedType, ReceiveFailedType
     DEF NewRecv, LoadRecv, ExecRecv, ReleaseRecv, PipeTypeOK
<1>7. ASSUME NEW t \in Thread,
             \/ LoadLock(t) \/ ExecLock(t) \/ DecodeImport(t) \/ DecodeCopy(t) \/ Return(t)
             \/ DropLock(t) \/ DropRef(t) \/ CloseWait(t) \/ Caller(t)
      PROVE  PipeTypeOK'
  BY <1>7 DEF LoadLock, ExecLock, DecodeImport, DecodeCopy, Return, DropLock, DropRef, CloseWait,
     Caller, NewSpawn, DropRuntime, MemNew, MemDrop, CallLoad, DropArtifact, CallExec, PipeTypeOK
<1>8. CASE ChildInit \/ ChildLoad \/ ChildReleaseArtifact \/ ChildReleaseOutputs \/ ChildExecute
  <2>1. toParent' = toParent
    BY <1>8 DEF ChildInit, ChildLoad, ChildReleaseArtifact, ChildReleaseOutputs, ChildExecute
  <2>2. CASE ChildInit
    <3>1. toChild # <<>> => Tail(toChild) \in Seq(Request)
      BY DEF PipeTypeOK
    <3> QED
      BY <2>1, <2>2, <3>1 DEF ChildInit, PipeTypeOK
  <2>3. CASE ChildLoad \/ ChildReleaseArtifact \/ ChildReleaseOutputs \/ ChildExecute
    <3>1. toChild' \in Seq(Request)
      BY <2>3, TakenType DEF ChildLoad, ChildReleaseArtifact, ChildReleaseOutputs, ChildExecute
    <3> QED
      BY <2>1, <3>1 DEF PipeTypeOK
  <2> QED
    BY <1>8, <2>2, <2>3
<1>9. CASE ChildImport \/ ChildCopy \/ ChildRun \/ ChildExport \/ ChildUnmap
  BY <1>9 DEF ChildImport, ChildCopy, ChildRun, ChildExport, ChildUnmap, PipeTypeOK
<1>10. CASE ChildExit \/ ChildReply \/ ChildCrash
  <2>1. toChild' \in {toChild, <<>>}
    BY <1>10 DEF ChildExit, ChildReply, ChildCrash, ChildGone
  <2>2. Append(toParent, reply) \in Seq(Response) /\ Append(toParent, NoReply) \in Seq(Response)
    BY Responses DEF PipeTypeOK, ChildTypeOK
  <2> QED
    BY <1>10, <2>1, <2>2, NoFrames DEF ChildExit, ChildReply, ChildCrash, PipeTypeOK
<1>11. CASE HostDies \/ UNCHANGED vars
  <2>1. toChild' = toChild /\ toParent' \in {toParent, <<>>}
    BY <1>11 DEF HostDies, vars
  <2> QED
    BY <2>1, NoFrames DEF PipeTypeOK
<1> QED
  BY StepCases, <1>1, <1>2, <1>4, <1>5, <1>6, <1>7, <1>8, <1>9, <1>10, <1>11 DEF Host, Child

LEMMA ChildTypeStep == TypeInv /\ [Next]_vars => ChildTypeOK'
<1> SUFFICES ASSUME TypeInv, [Next]_vars PROVE ChildTypeOK'
  OBVIOUS
<1> USE DEF TypeInv, TypeOK, ChildTypeOK, childVars, heapVars, Alive
<1>1. ASSUME NEW t \in Thread, NewSpawn(t) \/ DropRuntime(t) PROVE ChildTypeOK'
  BY <1>1 DEF NewSpawn, DropRuntime
<1>2. ASSUME NEW t \in Thread, NEW a \in arts, NEW own, NEW ref, CallExec(t, a, own, ref)
      PROVE  ChildTypeOK'
  BY <1>2 DEF CallExec
<1>3. ASSUME NEW t \in Thread, NEW m, NEW a \in arts,
             MemNew(t, m) \/ MemDrop(t, m) \/ CallLoad(t, m) \/ DropArtifact(t, a)
      PROVE  ChildTypeOK'
  BY <1>3 DEF MemNew, MemDrop, CallLoad, DropArtifact
<1>4. ASSUME NEW t \in Thread, NEW m, MemNew(t, m) \/ MemDrop(t, m) \/ CallLoad(t, m)
      PROVE  ChildTypeOK'
  BY <1>4 DEF MemNew, MemDrop, CallLoad
<1>5. ASSUME NEW op, NEW r, Received(op) \/ ReceiveFailed(op, r)
      PROVE  child' \in Alive \cup {"none", "dead", "reaped"}
  BY <1>5 DEF Received, ReceiveFailed, Reap
<1>6. ASSUME NEW t \in Thread,
             \/ NewRecv(t) \/ LoadRecv(t) \/ ExecRecv(t) \/ ReleaseRecv(t) \/ CloseWait(t)
      PROVE  ChildTypeOK'
  BY <1>5, <1>6 DEF NewRecv, LoadRecv, ExecRecv, ReleaseRecv, CloseWait
<1>7. ASSUME NEW t \in Thread,
             \/ NewSend(t) \/ LoadLock(t) \/ LoadSend(t) \/ ExecLock(t) \/ ExecSend(t)
             \/ DecodeImport(t) \/ DecodeCopy(t) \/ ReleaseSend(t) \/ Return(t)
             \/ DropLock(t) \/ DropSend(t) \/ DropRef(t) \/ CloseSend(t)
      PROVE  ChildTypeOK'
  BY <1>7 DEF NewSend, LoadLock, LoadSend, ExecLock, ExecSend, DecodeImport, DecodeCopy,
     ReleaseSend, Return, DropLock, DropSend, DropRef, CloseSend
<1>8. CASE ChildInit
  BY <1>8, Responses DEF ChildInit, ChildAnswers
<1>9. CASE ChildLoad
  <2>1. Head(toChild).module \in Module
    BY <1>9, TakenType, RequestFields DEF ChildLoad
  <2>2. Len(artifacts) < MaxLoads => Len(artifacts) \in Id
    BY DEF Id
  <2>3. Append(artifacts, Head(toChild).module) \in Seq(Module \cup {NoModule})
    BY <2>1
  <2>4. reply' \in Response
    BY <1>9, <2>2, Responses DEF ChildLoad, ChildAnswers
  <2> QED
    BY <1>9, <2>3, <2>4 DEF ChildLoad, ChildAnswers
<1>10. CASE ChildReleaseArtifact
  BY <1>10 DEF ChildReleaseArtifact
<1>11. CASE ChildReleaseOutputs \/ ChildUnmap
  BY <1>11, Responses DEF ChildReleaseOutputs, ChildUnmap, ChildAnswers
<1>12. CASE ChildExecute
  <2>1. Head(toChild) \in Request /\ Head(toChild).by \in Thread
    BY <1>12, TakenType, RequestFields DEF ChildExecute
  <2> QED
    BY <1>12, <2>1, Responses, ZenonT(60) DEF ChildExecute, ChildAnswers
<1>13. child \in Executing => job.by \in Thread /\ job.own \in SUBSET Buf /\ job.ref \in SUBSET Buf /\ job.id \in Id
  BY RequestFields DEF CallsHoldWhatTheyUse
<1>14. ASSUME child \in Executing, NEW ok \in {"ok", "runtime", "unknown", "memory"}, NEW outs \in SUBSET CBuf
       PROVE  Executed(ok, outs) \in Response
  BY <1>13, <1>14, Responses DEF Executed
<1>15. CASE ChildImport
  BY <1>13, <1>14, <1>15 DEF ChildImport, ChildFails, Executing
<1>16. CASE ChildCopy \/ ChildExport
  BY <1>14, <1>16 DEF ChildCopy, ChildExport, ChildFails, Executing
<1>17. CASE ChildRun
  <2>1. Lookup(job.id) \in Module \cup {NoModule}
    BY <1>13, <1>17, LookupType DEF ChildRun, Executing
  <2>2. ran' \in [Thread -> Seq(Module \cup {NoModule})]
    <3>1. job.by \in Thread
      BY <1>13, <1>17 DEF ChildRun, Executing
    <3>2. Append(ran[job.by], Lookup(job.id)) \in Seq(Module \cup {NoModule})
      BY <2>1, <3>1
    <3> QED
      BY <1>17, <3>1, <3>2 DEF ChildRun
  <2>3. reply' \in Response
    BY <1>14, <1>17 DEF ChildRun, ChildFails, Executing
  <2> QED
    BY <1>17, <2>2, <2>3 DEF ChildRun, ChildFails
<1>18. CASE ChildExit \/ ChildReply \/ ChildCrash
  <2>1. CASE ChildGone
    BY <1>18, <2>1, Requests, Responses DEF ChildExit, ChildReply, ChildCrash, ChildGone
  <2>2. CASE ~ChildGone
    BY <1>18, <2>2, Requests, Responses DEF ChildExit, ChildReply, ChildCrash
  <2> QED
    BY <2>1, <2>2
<1>19. CASE HostDies \/ UNCHANGED vars
  BY <1>19 DEF HostDies, vars
<1> QED
  BY StepCases, <1>1, <1>2, <1>3, <1>4, <1>6, <1>7, <1>8, <1>9, <1>10, <1>11, <1>12, <1>15,
     <1>16, <1>17, <1>18, <1>19 DEF Host, Caller, Child

\* The steps that change one call keep its handle and module.
LEMMA CallStep ==
  ASSUME TypeInv, NEW t \in Thread,
         \/ ExecRecv(t) \/ DecodeImport(t) \/ DecodeCopy(t) \/ ReleaseSend(t) \/ ReleaseRecv(t)
  PROVE  call' \in [Thread -> Call] /\ SameHandles(call, call')
<1>1. call \in [Thread -> Call] /\ PipeTypeOK
  BY DEF TypeInv, TypeOK, HostTypeOK
<1>2. CASE ExecRecv(t)
  <2>1. CASE call' = [call EXCEPT ![t].own = {}]
    BY <1>1, <2>1 DEF Call, SameHandles
  <2>2. CASE Received("Executed") /\ call' = [call EXCEPT ![t].own = {}, ![t].outs = Head(toParent).outs]
    <3>1. Head(toParent).outs \in SUBSET CBuf
      BY <1>1, <2>2, ReceivedType, ResponseFields
    <3> QED
      BY <1>1, <2>2, <3>1, TwoUpdates
  <2>3. CASE UNCHANGED call
    BY <1>1, <2>3 DEF SameHandles
  <2> QED
    BY <1>2, <2>1, <2>2, <2>3 DEF ExecRecv
<1>3. CASE DecodeImport(t)
  BY <1>1, <1>3 DEF DecodeImport, Call, Outcome, SameHandles
<1>4. CASE DecodeCopy(t)
  <2>1. CASE call' = [call EXCEPT ![t].decoded = "memory"]
    BY <1>1, <2>1 DEF Call, Outcome, SameHandles
  <2>2. ASSUME NEW new \in SUBSET Buf, call' = [call EXCEPT ![t].vals = new, ![t].decoded = "ok"]
        PROVE  call' \in [Thread -> Call] /\ SameHandles(call, call')
    BY <1>1, <2>2, TwoUpdates
  <2> QED
    BY <1>4, <2>1, <2>2 DEF DecodeCopy
<1>5. CASE ReleaseSend(t) \/ ReleaseRecv(t)
  BY <1>1, <1>5 DEF ReleaseSend, ReleaseRecv, DropValues, Call, SameHandles
<1> QED
  BY <1>2, <1>3, <1>4, <1>5

LEMMA HostTypeStep == TypeInv /\ [Next]_vars => HostTypeOK'
<1> SUFFICES ASSUME TypeInv, [Next]_vars PROVE HostTypeOK'
  OBVIOUS
<1> USE DEF TypeInv, TypeOK, HostTypeOK, Goto, Leave, Record, Finish, Location, Locked, Dropping,
            Loading, Outcome
<1>1. ASSUME NEW t \in Thread, NewSpawn(t) \/ NewSend(t) \/ NewRecv(t) \/ DropRuntime(t)
      PROVE  HostTypeOK'
  BY <1>1 DEF NewSpawn, NewSend, NewRecv, DropRuntime, NewFails
<1>2. ASSUME NEW t \in Thread, LoadLock(t) \/ LoadSend(t) \/ ExecLock(t) \/ ExecSend(t)
                                \/ DropLock(t) \/ DropSend(t) \/ CloseSend(t) \/ CloseWait(t)
      PROVE  HostTypeOK'
  BY <1>2 DEF LoadLock, LoadSend, ExecLock, ExecSend, DropLock, DropSend, CloseSend, CloseWait
<1>3. ASSUME NEW t \in Thread, LoadRecv(t) PROVE HostTypeOK'
  <2>1. arts' \in SUBSET Artifact
    BY <1>3, ReceivedType, ResponseFields DEF LoadRecv, CallsHoldWhatTheyUse, Artifact
  <2> QED
    BY <1>3, <2>1 DEF LoadRecv
<1>4. ASSUME NEW t \in Thread, ExecRecv(t) PROVE HostTypeOK'
  <2>1. result' \in [Thread -> Outcome]
    BY <1>4 DEF ExecRecv, RemoteError
  <2> QED
    BY <1>4, <2>1, CallStep DEF ExecRecv
<1>5. ASSUME NEW t \in Thread, DecodeImport(t) \/ DecodeCopy(t) PROVE HostTypeOK'
  <2>1. outMaps' \in SUBSET CBuf
    BY <1>5, CallFields DEF DecodeImport, DecodeCopy
  <2> QED
    BY <1>5, <2>1, CallStep DEF DecodeImport, DecodeCopy
<1>6. ASSUME NEW t \in Thread, ReleaseSend(t) \/ ReleaseRecv(t) PROVE HostTypeOK'
  <2>1. call[t].decoded \in {"none", "ok", "transport", "memory"}
    BY CallFields
  <2> QED
    BY <1>6, <2>1, CallStep, ZenonT(60) DEF ReleaseSend, ReleaseRecv, DropValues
<1>7. ASSUME NEW t \in Thread, Return(t) \/ DropRef(t) PROVE HostTypeOK'
  <2>1. call' \in [Thread -> Call]
    BY <1>7, NewCalls DEF Return, DropRef
  <2>2. CASE Return(t)
    <3>1. call[t].vals \subseteq Buf
      BY CallFields
    <3> QED
      BY <2>1, <2>2, <3>1 DEF Return
  <2>3. CASE DropRef(t)
    BY <2>1, <2>3 DEF DropRef
  <2> QED
    BY <1>7, <2>2, <2>3
<1>8. ASSUME NEW t \in Thread, NEW b \in Buf, MemNew(t, b) \/ MemDrop(t, b) PROVE HostTypeOK'
  BY <1>8 DEF MemNew, MemDrop
<1>9. ASSUME NEW t \in Thread, NEW m \in Module, CallLoad(t, m) PROVE HostTypeOK'
  BY <1>9, NewCalls DEF CallLoad
<1>10. ASSUME NEW t \in Thread, NEW a \in arts, DropArtifact(t, a) PROVE HostTypeOK'
  BY <1>10, NewCalls DEF DropArtifact
<1>11. ASSUME NEW t \in Thread, NEW a \in arts, NEW own \in SUBSET Buf, NEW ref \in SUBSET Buf,
              CallExec(t, a, own, ref)
       PROVE  HostTypeOK'
  <2>1. a.module \in Module
    BY DEF Artifact
  <2> QED
    BY <1>11, <2>1, NewCalls DEF CallExec
<1>12. CASE Child \/ ChildCrash
  BY <1>12, ChildKeepsHost DEF hostVars
<1>13. CASE HostDies \/ UNCHANGED vars
  <2>1. CASE HostDies
    BY <2>1, NewCalls DEF HostDies
  <2>2. CASE UNCHANGED vars
    BY <2>2 DEF vars, hostVars
  <2> QED
    BY <1>13, <2>1, <2>2
<1> QED
  BY StepCases, <1>1, <1>2, <1>3, <1>4, <1>5, <1>6, <1>7, <1>8, <1>9, <1>10, <1>11, <1>12,
     <1>13 DEF Host, Caller

LEMMA HoldStep == TypeInv /\ HostTypeOK' /\ [Next]_vars => CallsHoldWhatTheyUse'
<1> SUFFICES ASSUME TypeInv, HostTypeOK', [Next]_vars PROVE CallsHoldWhatTheyUse'
  OBVIOUS
<1> USE DEF TypeInv, TypeOK, HostTypeOK, CallsHoldWhatTheyUse, Goto, Leave, Finish, Dropping,
            Loading, InExec
<1>1. child' \in Executing => job'.op = "Execute"
  <2>1. CASE Child \/ ChildCrash
    BY <2>1, TakenType DEF Child, ChildInit, ChildLoad, ChildReleaseArtifact,
       ChildReleaseOutputs, ChildExit, ChildExecute, ChildImport, ChildCopy, ChildRun,
       ChildExport, ChildUnmap, ChildReply, ChildCrash, ChildAnswers, ChildGone, ChildFails,
       Executing
  <2>2. CASE HostDies \/ UNCHANGED vars
    BY <2>2 DEF HostDies, vars, childVars
  <2>3. ASSUME NEW t \in Thread, Host(t) \/ Caller(t)
        PROVE  child' \in {child, "boot", "reaped"} /\ job' = job
    BY <2>3 DEF Host, Caller, NewSpawn, NewSend, NewRecv, LoadLock, LoadSend, LoadRecv, ExecLock,
       ExecSend, ExecRecv, DecodeImport, DecodeCopy, ReleaseSend, ReleaseRecv, Return, DropLock,
       DropSend, DropRef, DropRuntime, CloseSend, CloseWait, MemNew, MemDrop, CallLoad, CallExec,
       DropArtifact, Received, ReceiveFailed, Reap, childVars
  <2> QED
    BY StepCases, <2>1, <2>2, <2>3 DEF Executing
<1> DEFINE Holds == /\ \A u \in Thread : pc[u] \in Loading => call[u].module \in Module
                    /\ \A u \in Thread :
                         pc[u] \in InExec \cup {"dropLock", "dropSend"} => call[u].art # {}
<1>2. ASSUME NEW t \in Thread,
             \/ NewSpawn(t) \/ NewSend(t) \/ NewRecv(t) \/ LoadLock(t) \/ LoadSend(t) \/ LoadRecv(t)
      PROVE  Holds'
  BY <1>2 DEF NewSpawn, NewSend, NewRecv, LoadLock, LoadSend, LoadRecv, NewFails
<1>3. ASSUME NEW t \in Thread, \/ ExecLock(t) \/ ExecSend(t) \/ DropLock(t) \/ DropSend(t)
                               \/ CloseSend(t) \/ CloseWait(t) \/ DropRuntime(t)
      PROVE  Holds'
  BY <1>3 DEF ExecLock, ExecSend, DropLock, DropSend, CloseSend, CloseWait, DropRuntime
<1>4. ASSUME NEW t \in Thread, \/ ExecRecv(t) \/ DecodeImport(t) \/ DecodeCopy(t)
                               \/ ReleaseSend(t) \/ ReleaseRecv(t)
      PROVE  Holds'
  <2>1. SameHandles(call, call')
    BY <1>4, CallStep
  <2>2. pc' \in [Thread -> Location] /\ pc[t] \in InExec
        /\ \E l \in InExec \cup {"returning"} : pc' = [pc EXCEPT ![t] = l]
    BY <1>4 DEF ExecRecv, DecodeImport, DecodeCopy, ReleaseSend, ReleaseRecv
  <2> QED
    BY <2>1, <2>2 DEF SameHandles
<1>5. ASSUME NEW t \in Thread, Return(t) \/ DropRef(t) PROVE Holds'
  BY <1>5 DEF Return, DropRef
<1>6. ASSUME NEW t \in Thread, NEW b \in Buf, MemNew(t, b) \/ MemDrop(t, b) PROVE Holds'
  BY <1>6 DEF MemNew, MemDrop
<1>7. ASSUME NEW t \in Thread, NEW m \in Module, CallLoad(t, m) PROVE Holds'
  BY <1>7, NewCalls DEF CallLoad
<1>8. ASSUME NEW t \in Thread, NEW a \in arts, DropArtifact(t, a) PROVE Holds'
  <2>1. [NoCall EXCEPT !.art = {a}].art # {}
    BY DEF NoCall
  <2> QED
    BY <1>8, <2>1 DEF DropArtifact
<1>9. ASSUME NEW t \in Thread, NEW a \in arts, NEW own \in SUBSET Buf, NEW ref \in SUBSET Buf,
             CallExec(t, a, own, ref)
      PROVE  Holds'
  <2>1. [NoCall EXCEPT !.art = {a}, !.module = a.module, !.own = own, !.ref = ref].art # {}
    BY DEF NoCall
  <2> QED
    BY <1>9, <2>1 DEF CallExec
<1>10. ASSUME Child \/ ChildCrash \/ UNCHANGED vars PROVE Holds'
  BY <1>10, ChildKeepsHost DEF hostVars, vars
<1>11. ASSUME HostDies PROVE Holds'
  BY <1>11 DEF HostDies
<1> QED
  BY StepCases, <1>1, <1>2, <1>3, <1>4, <1>5, <1>6, <1>7, <1>8, <1>9, <1>10, <1>11
     DEF Host, Caller

LEMMA TypeInit == Init => TypeInv
<1> SUFFICES ASSUME Init PROVE TypeInv
  OBVIOUS
<1>1. HostTypeOK
  BY NewCalls DEF Init, HostTypeOK, Location, Outcome
<1>2. WorkerTypeOK
  BY DEF Init, WorkerTypeOK
<1>3. PipeTypeOK
  BY NoFrames DEF Init, PipeTypeOK
<1>4. ChildTypeOK
  BY Requests, Responses DEF Init, ChildTypeOK
<1>5. CallsHoldWhatTheyUse
  BY DEF Init, CallsHoldWhatTheyUse, Loading, InExec, Executing
<1> QED
  BY <1>1, <1>2, <1>3, <1>4, <1>5 DEF TypeInv, TypeOK

LEMMA TypeStep == TypeInv /\ [Next]_vars => TypeInv'
<1>1. TypeInv => WorkerTypeOK
  BY DEF TypeInv, TypeOK
<1> QED
  BY <1>1, HostTypeStep, WorkerTypeStep, PipeTypeStep, ChildTypeStep, HoldStep DEF TypeInv, TypeOK

LEMMA TypeInvariance == Spec => []TypeInv
  BY TypeInit, TypeStep, PTL DEF Spec

\* Every frame, call and handle has its type: in particular, only ids of the
\* child's vector and modules that were loaded become Artifact handles.
THEOREM Types == Spec => []TypeOK
<1>1. TypeInv => TypeOK
  BY DEF TypeInv
<1> QED
  BY <1>1, TypeInvariance, PTL

-----------------------------------------------------------------------------
\* TerminationIsReal, and what makes it inductive: a session is created once,
\* and a pipe at whose end the termination was noticed is empty.
EndInv ==
  /\ runtime = "none" => child = "none"
  /\ termination => child = "reaped" /\ stdin = "closed" /\ toParent = <<>>
  /\ \A t \in Thread : result[t] \in {"terminated", "unavailable"} => child = "reaped"

LEMMA EndInit == Init => EndInv
  BY DEF Init, EndInv

LEMMA EndStep == TypeInv /\ EndInv /\ [Next]_vars => EndInv'
<1> SUFFICES ASSUME TypeInv, EndInv, [Next]_vars PROVE EndInv'
  OBVIOUS
<1> USE DEF EndInv, Goto, Leave, Record, Finish
<1>0. result \in [Thread -> Outcome] /\ termination \in BOOLEAN
  BY DEF TypeInv, TypeOK, HostTypeOK, WorkerTypeOK
<1>1. ASSUME NEW t \in Thread, NewSpawn(t) \/ DropRuntime(t) PROVE EndInv'
  BY <1>0, <1>1 DEF NewSpawn, DropRuntime, workerVars, childVars
<1>2. ASSUME NEW t \in Thread,
             NewSend(t) \/ LoadSend(t) \/ ExecSend(t) \/ ReleaseSend(t) \/ DropSend(t)
      PROVE  EndInv'
  BY <1>0, <1>2 DEF NewSend, NewFails, LoadSend, ExecSend, ReleaseSend, DropSend, SendFailed,
     workerVars, childVars
<1>3. ASSUME NEW t \in Thread, NewRecv(t) \/ LoadRecv(t) PROVE EndInv'
  BY <1>0, <1>3 DEF NewRecv, LoadRecv, NewFails, Received, ReceiveFailed, Reap
<1>4. ASSUME NEW t \in Thread, ExecRecv(t) PROVE EndInv'
  BY <1>0, <1>4 DEF ExecRecv, RemoteError, Received, ReceiveFailed, Reap
<1>5. ASSUME NEW t \in Thread, ReleaseRecv(t) PROVE EndInv'
  <2>1. call[t].decoded \in {"none", "ok", "transport", "memory"}
    BY CallFields DEF TypeInv, TypeOK, HostTypeOK
  <2> QED
    BY <1>0, <1>5, <2>1 DEF ReleaseRecv, Received, ReceiveFailed, Reap
<1>6. ASSUME NEW t \in Thread, LoadLock(t) \/ ExecLock(t) \/ DropLock(t) PROVE EndInv'
  BY <1>0, <1>6 DEF LoadLock, ExecLock, DropLock, childVars
<1>7. ASSUME NEW t \in Thread, DecodeImport(t) \/ DecodeCopy(t) \/ Return(t) \/ DropRef(t)
                                \/ CloseSend(t) \/ CloseWait(t)
      PROVE  EndInv'
  BY <1>0, <1>7 DEF DecodeImport, DecodeCopy, Return, DropRef, CloseSend, CloseWait, workerVars,
     childVars
<1>8. ASSUME NEW t \in Thread, Caller(t) PROVE EndInv'
  <2>1. \/ NewSpawn(t) \/ DropRuntime(t)
        \/ UNCHANGED <<result, runtime, stdin, termination, toParent, child>>
    BY <1>8 DEF Caller, MemNew, MemDrop, CallLoad, CallExec, DropArtifact, workerVars, childVars
  <2> QED
    BY <1>1, <2>1
<1>9. CASE Child \/ ChildCrash
  BY <1>0, <1>9 DEF Child, ChildInit, ChildLoad, ChildReleaseArtifact, ChildReleaseOutputs,
     ChildExit, ChildExecute, ChildImport, ChildCopy, ChildRun, ChildExport, ChildUnmap, ChildReply,
     ChildCrash, ChildTakes, ChildAnswers, ChildFails, ChildGone, Alive, hostVars, workerVars
<1>10. CASE HostDies \/ UNCHANGED vars
  BY <1>10 DEF HostDies, vars, hostVars, workerVars, childVars
<1> QED
  BY StepCases, <1>1, <1>2, <1>3, <1>4, <1>5, <1>6, <1>7, <1>8, <1>9, <1>10 DEF Host

\* A recorded termination is real: the child was waited for, its stdin closed,
\* and its output read to the end; only then is "terminated" or "unavailable"
\* reported (WorkerProcess::reap, Artifact::exec_values).
THEOREM Terminations == Spec => []TerminationIsReal
<1>1. EndInv => TerminationIsReal
  BY DEF EndInv, TerminationIsReal
<1> QED
  BY <1>1, TypeInvariance, EndInit, EndStep, PTL DEF Spec

\* No call succeeds from the step on that records the termination, and the
\* record is never taken back.
THEOREM Final == Spec => TerminationIsFinal
<1> DEFINE Lasting == /\ termination => termination'
                      /\ termination' => \A t \in Thread : result'[t] = "ok" => result[t] = "ok"
<1>1. TypeInv /\ EndInv /\ [Next]_vars => [Lasting]_vars
  <2> SUFFICES ASSUME TypeInv, EndInv, [Next]_vars PROVE Lasting
    OBVIOUS
  <2> USE DEF EndInv, Goto, Leave, Record, Finish
  <2>0. result \in [Thread -> Outcome] /\ termination \in BOOLEAN
    BY DEF TypeInv, TypeOK, HostTypeOK, WorkerTypeOK
  <2>1. ASSUME NEW t \in Thread, LoadRecv(t) \/ NewRecv(t) \/ ExecRecv(t) \/ ReleaseRecv(t)
        PROVE  Lasting
    <3>1. CASE \E op \in {"Initialized", "Loaded", "Executed", "OutputsReleased"} : Received(op)
      <4>1. termination' = termination /\ ~termination
        BY <2>0, <3>1 DEF Received
      <4> QED
        BY <4>1
    <3>2. CASE \A op \in {"Initialized", "Loaded", "Executed", "OutputsReleased"} : ~Received(op)
      BY <2>0, <2>1, <3>2 DEF LoadRecv, NewRecv, ExecRecv, ReleaseRecv, NewFails, ReceiveFailed, Reap
    <3> QED
      BY <3>1, <3>2
  <2>2. ASSUME NEW t \in Thread,
               NewSend(t) \/ LoadSend(t) \/ ExecSend(t) \/ ReleaseSend(t) \/ DropSend(t)
        PROVE  Lasting
    BY <2>0, <2>2 DEF NewSend, NewFails, LoadSend, ExecSend, ReleaseSend, DropSend, SendFailed,
       workerVars
  <2>3. ASSUME NEW t \in Thread, LoadLock(t) \/ ExecLock(t) \/ DropLock(t) PROVE Lasting
    BY <2>0, <2>3 DEF LoadLock, ExecLock, DropLock
  <2>4. ASSUME NEW t \in Thread, DecodeImport(t) \/ DecodeCopy(t) \/ Return(t) \/ DropRef(t)
                                  \/ CloseSend(t) \/ CloseWait(t)
        PROVE  Lasting
    BY <2>0, <2>4 DEF DecodeImport, DecodeCopy, Return, DropRef, CloseSend, CloseWait, workerVars
  <2>5. ASSUME NEW t \in Thread, Caller(t) PROVE Lasting
    BY <2>0, <2>5 DEF Caller, NewSpawn, DropRuntime, MemNew, MemDrop, CallLoad, CallExec,
       DropArtifact, workerVars
  <2>6. CASE Child \/ ChildCrash
    BY <2>6 DEF Child, ChildInit, ChildLoad, ChildReleaseArtifact, ChildReleaseOutputs,
       ChildExit, ChildExecute, ChildImport, ChildCopy, ChildRun, ChildExport, ChildUnmap,
       ChildReply, ChildCrash, hostVars, workerVars
  <2>7. CASE HostDies \/ UNCHANGED vars
    BY <2>7 DEF HostDies, vars, hostVars, workerVars
  <2> QED
    BY StepCases, <2>1, <2>2, <2>3, <2>4, <2>5, <2>6, <2>7 DEF Host
<1> QED
  BY <1>1, TypeInvariance, EndInit, EndStep, PTL DEF Spec, TerminationIsFinal

-----------------------------------------------------------------------------
(* Groups of places.                                                       *)

HIDE SessionAssumption

Creating == {"newSend", "newRecv"}
Closing == {"closeSend", "closeWait"}
Waiting == {"newRecv", "loadRecv", "execRecv", "relRecv"}
Engaged == Locked \cup Creating \cup Closing

-----------------------------------------------------------------------------
(* Layer 1: the places that threads may have together.                     *)

MutexIsHeld == \A t \in Thread : pc[t] \in Locked <=> mutex = t

\* Before the handle exists only its creator does anything.
CreatorIsAlone ==
  /\ runtime \in {"none", "new"} =>
       arts = {} /\ \A t \in Thread : pc[t] \in Creating \cup {"idle", "gone"}
  /\ \A t \in Thread : pc[t] \in Creating =>
       runtime = "new" /\ \A u \in Thread : pc[u] \in Creating => u = t

\* WorkerProcess is dropped when nobody can reach the session any more.
CloserIsLast ==
  \A t \in Thread : pc[t] \in Closing =>
    /\ runtime = "dropped" /\ arts = {}
    /\ \A u \in Thread \ {t} : pc[u] \in {"idle", "returning"}

LoadersHoldRuntime == \A t \in Thread : pc[t] \in Loading => runtime = "live"

AllGone == \A t \in Thread : pc[t] = "gone" => HostGone

\* A call that executes keeps its handle alive, one that drops has taken it.
CallsHoldHandles ==
  \A t \in Thread :
    /\ pc[t] \in InExec => \E a \in arts : call[t].art = {a} /\ call[t].module = a.module
    /\ pc[t] = "returning" /\ call[t].art # {} =>
         \E a \in arts : call[t].art = {a} /\ call[t].module = a.module
    /\ pc[t] \in {"dropLock", "dropSend"} => \E a \in Artifact : call[t].art = {a}
    /\ pc[t] \notin InExec \cup Dropping \cup {"returning"} => call[t].art = {}

RoleInv == /\ MutexIsHeld /\ CreatorIsAlone /\ CloserIsLast /\ LoadersHoldRuntime
           /\ AllGone /\ CallsHoldHandles

-----------------------------------------------------------------------------
(* Layer 2: what the host owns.                                            *)

Carrying == InExec \cup {"returning"}

\* Each allocation has one owner; what is borrowed is held by some thread.
OwnersAreApart ==
  \A t, u \in Thread :
    /\ held[t] \cap call[u].own = {} /\ held[t] \cap call[u].vals = {}
    /\ call[t].own \cap call[u].vals = {}
    /\ t # u => /\ held[t] \cap held[u] = {} /\ call[t].own \cap call[u].own = {}
                /\ call[t].vals \cap call[u].vals = {}

OwnedIsLive ==
  \A b \in Buf :
    b \in mem <=> \E t \in Thread : b \in held[t] \cup call[t].own \cup call[t].vals

BorrowedIsHeld == \A t \in Thread : \A b \in call[t].ref : \E u \in Thread : b \in held[u]

CarriedOnly ==
  \A t \in Thread :
    /\ pc[t] \notin Carrying => call[t].own = {} /\ call[t].ref = {}
    /\ pc[t] \notin {"relSend", "relRecv", "returning"} => call[t].vals = {}
    /\ pc[t] \in {"decode", "copyOut", "relSend", "relRecv"} => call[t].own = {}

\* Outputs are mapped while they are copied, and by no other thread.
MapsOfCopier ==
  /\ \A t \in Thread : pc[t] = "copyOut" => outMaps = call[t].outs
  /\ (\A t \in Thread : pc[t] # "copyOut") => outMaps = {}

OwnInv == OwnersAreApart /\ OwnedIsLive /\ BorrowedIsHeld /\ CarriedOnly /\ MapsOfCopier

-----------------------------------------------------------------------------
(* Layer 3: the child by itself.                                           *)

\* An exported output stays until it is released, a copy until the program ran.
OutputsAreKept ==
  /\ child \in {"none", "import", "copy", "run", "export"} => pending = {}
  /\ child \notin {"run", "export"} => cmem = pending
  /\ child \notin {"copy", "run", "export", "unmap"} => maps = {}
  /\ child \in Executing => maps \subseteq job.own \cup job.ref

\* The answer to an execution names the thread that asked, and its outputs.
AnswerIsForJob ==
  /\ child = "unmap" => reply.op = "Executed"
  /\ child \in {"unmap", "reply"} /\ reply.op = "Executed" =>
       /\ reply.by = job.by
       /\ reply.ok = "ok" => reply.outs = pending
  /\ child = "unmap" => reply.ok \in {"ok", "runtime", "memory"} /\ (reply.ok # "ok" => pending = {})

ChildInv == /\ OutputsAreKept /\ AnswerIsForJob
            /\ child \notin Alive => toChild = <<>>

MemoryInv == TypeInv /\ EndInv /\ RoleInv /\ OwnInv /\ ChildInv

-----------------------------------------------------------------------------
(* Layer 1 is inductive.                                                   *)

LEMMA Typed ==
  ASSUME TypeInv
  PROVE  /\ pc \in [Thread -> Location] /\ call \in [Thread -> Call] /\ result \in [Thread -> Outcome]
         /\ held \in [Thread -> SUBSET Buf] /\ mem \in SUBSET Buf /\ outMaps \in SUBSET CBuf
         /\ arts \in SUBSET Artifact /\ mutex \in Thread \cup {NoThread}
         /\ runtime \in {"none", "new", "live", "dropped"}
         /\ toChild \in Seq(Request) /\ toParent \in Seq(Response)
         /\ artifacts \in Seq(Module \cup {NoModule})
  BY DEF TypeInv, TypeOK, HostTypeOK, WorkerTypeOK, PipeTypeOK, ChildTypeOK

LEMMA ChildKeepsRoles ==
  Child \/ ChildCrash => UNCHANGED <<pc, call, arts, runtime, mutex, held, mem, outMaps, result>>
<1>1. Child \/ ChildCrash => UNCHANGED <<hostVars, mutex>>
  BY DEF Child, ChildInit, ChildLoad, ChildReleaseArtifact, ChildReleaseOutputs, ChildExit,
     ChildExecute, ChildImport, ChildCopy, ChildRun, ChildExport, ChildUnmap, ChildReply, ChildCrash,
     hostVars, workerVars
<1> QED
  BY <1>1 DEF hostVars

LEMMA RoleInit == Init => RoleInv
<1> SUFFICES ASSUME Init PROVE RoleInv
  OBVIOUS
<1>1. MutexIsHeld
  BY SessionAssumption DEF Init, MutexIsHeld, Locked
<1>2. CreatorIsAlone /\ CloserIsLast /\ LoadersHoldRuntime /\ AllGone
  BY DEF Init, CreatorIsAlone, CloserIsLast, LoadersHoldRuntime, AllGone, Creating, Closing, Loading
<1>3. CallsHoldHandles
  BY DEF Init, CallsHoldHandles, InExec, Dropping, NoCall
<1> QED
  BY <1>1, <1>2, <1>3 DEF RoleInv

\* How the mutex goes with the place of the thread that moves to `to`.
MutexGoesWith(t, to) ==
  /\ to \in Locked <=> mutex' = t
  /\ \A u \in Thread \ {t} : mutex' = u <=> mutex = u

LEMMA MutexMoves ==
  ASSUME TypeInv, MutexIsHeld, NEW t \in Thread, NEW to
  PROVE  /\ Acquire(t) /\ to \in Locked => MutexGoesWith(t, to)
         /\ pc[t] \in Locked /\ mutex' = NoThread /\ to \notin Locked => MutexGoesWith(t, to)
         /\ (pc[t] \in Locked <=> to \in Locked) /\ mutex' = mutex => MutexGoesWith(t, to)
         /\ mutex = NoThread /\ mutex' = NoThread /\ to \notin Locked => MutexGoesWith(t, to)
  BY Typed, SessionAssumption DEF MutexIsHeld, MutexGoesWith, Acquire

LEMMA MutexStep ==
  ASSUME TypeInv, MutexIsHeld, NEW t \in Thread, NEW to, pc' = [pc EXCEPT ![t] = to],
         MutexGoesWith(t, to)
  PROVE  MutexIsHeld'
  BY Typed DEF MutexIsHeld, MutexGoesWith

\* A step within a call.
LEMMA InCall ==
  ASSUME TypeInv, RoleInv, NEW t \in Thread, NEW to, pc' = [pc EXCEPT ![t] = to],
         \/ pc[t] \in InExec /\ to \in InExec \cup {"returning"} /\ arts' = arts
         \/ pc[t] \in Loading /\ to \in Loading \cup {"returning"} /\ arts \subseteq arts',
         UNCHANGED runtime, SameHandles(call, call'), MutexGoesWith(t, to)
  PROVE  RoleInv'
<1> USE Typed DEF RoleInv, InExec, Loading
<1>1. MutexIsHeld'
  BY MutexStep
<1>2. pc[t] \notin Creating \cup Closing \cup {"idle", "gone", "returning"}
      /\ to \notin Creating \cup Closing \cup {"idle", "gone"}
  BY DEF Creating, Closing
<1>3. runtime \notin {"none", "new"} /\ \A u \in Thread : pc[u] \notin Creating
  BY <1>2 DEF CreatorIsAlone
<1>4. CreatorIsAlone'
  BY <1>2, <1>3 DEF CreatorIsAlone
<1>5. \A u \in Thread : pc[u] \notin Closing
  BY <1>2 DEF CloserIsLast
<1>6. CloserIsLast'
  BY <1>2, <1>5 DEF CloserIsLast
<1>7. LoadersHoldRuntime' 
  BY DEF LoadersHoldRuntime
<1>8. AllGone'
  BY <1>2 DEF AllGone, HostGone
<1>9. CallsHoldHandles'
  <2> DEFINE Holds(u) == \E a \in arts : call[u].art = {a} /\ call[u].module = a.module
  <2>1. \A u \in Thread : Holds(u) => Holds(u)'
    BY DEF SameHandles
  <2>2. CASE pc[t] \in InExec
    BY <2>1, <2>2 DEF CallsHoldHandles, SameHandles, Dropping
  <2>3. CASE pc[t] \in Loading
    <3>1. call'[t].art = {}
      BY <2>3 DEF CallsHoldHandles, SameHandles, Dropping
    <3> QED
      BY <2>1, <2>3, <3>1 DEF CallsHoldHandles, SameHandles, Dropping
  <2> QED
    BY <2>2, <2>3
<1> QED
  BY <1>1, <1>4, <1>6, <1>7, <1>8, <1>9

LEMMA SameCalls == UNCHANGED call => SameHandles(call, call')
  BY DEF SameHandles

\* A step that ends a call, with or without the mutex.
LEMMA EndsCall ==
  ASSUME TypeInv, RoleInv, NEW t \in Thread, NEW r, Finish(t, r),
         pc[t] \in Locked \/ mutex = NoThread,
         \/ pc[t] \in InExec /\ arts' = arts
         \/ pc[t] \in Loading /\ arts \subseteq arts',
         UNCHANGED runtime, SameHandles(call, call')
  PROVE  RoleInv'
<1>1. MutexGoesWith(t, "returning")
  BY MutexMoves DEF Finish, RoleInv, Locked
<1> QED
  BY <1>1, InCall DEF Finish, Goto

LEMMA LoadKeepsRoles ==
  ASSUME TypeInv, RoleInv, NEW t \in Thread, LoadLock(t) \/ LoadSend(t) \/ LoadRecv(t)
  PROVE  RoleInv'
<1>1. pc[t] \in Loading /\ UNCHANGED <<runtime, call>> /\ (pc[t] \in Locked \/ mutex = NoThread)
      /\ SameHandles(call, call')
  BY SameCalls DEF LoadLock, LoadSend, LoadRecv, Loading, Locked, Acquire
<1>2. arts \subseteq arts'
  BY DEF LoadLock, LoadSend, LoadRecv
<1>3. \/ \E r : Finish(t, r)
      \/ /\ pc[t] = "loadLock" /\ Acquire(t) /\ Goto(t, "loadSend")
      \/ /\ pc[t] = "loadSend" /\ Goto(t, "loadRecv") /\ UNCHANGED mutex
  BY DEF LoadLock, LoadSend, LoadRecv
<1>4. CASE Acquire(t) /\ Goto(t, "loadSend")
  <2>1. MutexGoesWith(t, "loadSend")
    BY <1>4, MutexMoves DEF RoleInv, Locked
  <2> QED
    BY <1>1, <1>2, <1>4, <2>1, InCall DEF Goto, Loading
<1>5. CASE pc[t] = "loadSend" /\ Goto(t, "loadRecv") /\ UNCHANGED mutex
  <2>1. MutexGoesWith(t, "loadRecv")
    BY <1>5, MutexMoves DEF RoleInv, Locked
  <2> QED
    BY <1>1, <1>2, <1>5, <2>1, InCall DEF Goto, Loading
<1> QED
  BY <1>1, <1>2, <1>3, <1>4, <1>5, EndsCall

LEMMA ExecKeepsRoles ==
  ASSUME TypeInv, RoleInv, NEW t \in Thread,
         \/ ExecLock(t) \/ ExecSend(t) \/ ExecRecv(t) \/ DecodeImport(t) \/ DecodeCopy(t)
         \/ ReleaseSend(t) \/ ReleaseRecv(t)
  PROVE  RoleInv'
<1>1. pc[t] \in InExec /\ UNCHANGED <<runtime, arts>> /\ (pc[t] \in Locked \/ mutex = NoThread)
  BY DEF ExecLock, ExecSend, ExecRecv, DecodeImport, DecodeCopy, ReleaseSend, ReleaseRecv,
     InExec, Locked, Acquire
<1>2. SameHandles(call, call')
  BY CallStep, SameCalls DEF ExecLock, ExecSend
<1>3. \/ \E r : Finish(t, r)
      \/ pc[t] = "execLock" /\ Acquire(t) /\ Goto(t, "execSend")
      \/ /\ pc[t] \in Locked /\ UNCHANGED mutex
         /\ \E to \in Locked \cap InExec : Goto(t, to)
  BY DEF ExecLock, ExecSend, ExecRecv, DecodeImport, DecodeCopy, ReleaseSend, ReleaseRecv,
     InExec, Locked, workerVars
<1>4. CASE Acquire(t) /\ Goto(t, "execSend")
  <2>1. MutexGoesWith(t, "execSend")
    BY <1>4, MutexMoves DEF RoleInv, Locked
  <2> QED
    BY <1>1, <1>2, <1>4, <2>1, InCall DEF Goto, InExec
<1>5. ASSUME NEW to \in Locked \cap InExec, pc[t] \in Locked, Goto(t, to), UNCHANGED mutex
      PROVE  RoleInv'
  <2>1. MutexGoesWith(t, to)
    BY <1>5, MutexMoves DEF RoleInv
  <2> QED
    BY <1>1, <1>2, <1>5, <2>1, InCall DEF Goto
<1> QED
  BY <1>1, <1>2, <1>3, <1>4, <1>5, EndsCall

LEMMA DropKeepsRoles ==
  ASSUME TypeInv, RoleInv, NEW t \in Thread, DropLock(t) \/ DropSend(t) \/ DropRef(t)
  PROVE  RoleInv'
<1> USE Typed DEF RoleInv, Goto, Leave
<1>1. pc[t] \in Dropping /\ UNCHANGED <<runtime, arts>>
  BY DEF DropLock, DropSend, DropRef, Dropping
<1>2. PICK to \in {"dropSend", "dropRef", "idle", "closeSend"} :
        /\ pc' = [pc EXCEPT ![t] = to] 
        /\ MutexGoesWith(t, to)
        /\ to \in {"dropSend", "dropRef"} => UNCHANGED call
        /\ to = "dropSend" => pc[t] = "dropLock"
        /\ to \in {"idle", "closeSend"} => call' = [call EXCEPT ![t] = NoCall]
        /\ to = "closeSend" => LastHandle(t)
  <2>1. CASE DropLock(t)
    <3>1. CASE Acquire(t) /\ Goto(t, "dropSend")
      BY <2>1, <3>1, MutexMoves DEF DropLock, Locked
    <3>2. CASE mutex = NoThread /\ mutex' = NoThread /\ Goto(t, "dropRef")
      BY <2>1, <3>2, MutexMoves DEF DropLock, Locked
    <3> QED
      BY <2>1, <3>1, <3>2 DEF DropLock
  <2>2. CASE DropSend(t)
    BY <2>2, MutexMoves DEF DropSend, Locked
  <2>3. CASE DropRef(t)
    BY <2>3, MutexMoves DEF DropRef, Locked, workerVars
  <2> QED
    BY <2>1, <2>2, <2>3
<1>3. pc[t] \notin Creating \cup Closing \cup {"idle", "gone", "returning"} \cup Loading \cup InExec
      /\ to \notin Creating \cup {"closeWait", "gone", "returning", "dropLock"} \cup Loading \cup InExec
  BY <1>1, <1>2 DEF Creating, Closing, Dropping, Loading, InExec
<1>4. runtime \notin {"none", "new"} /\ \A u \in Thread : pc[u] \notin Creating \cup Closing
  BY <1>3 DEF CreatorIsAlone, CloserIsLast
<1>5. MutexIsHeld'
  BY <1>2, MutexStep
<1>6. CreatorIsAlone' /\ LoadersHoldRuntime' /\ AllGone'
  BY <1>1, <1>2, <1>3, <1>4 DEF CreatorIsAlone, LoadersHoldRuntime, AllGone, HostGone
<1>7. CloserIsLast'
  <2>1. CASE to = "closeSend"
    <3>1. runtime = "dropped" /\ arts = {}
      BY <1>2, <1>4, <2>1 DEF LastHandle
    <3>2. \A u \in Thread \ {t} : pc[u] \in {"idle", "returning"}
      <4> SUFFICES ASSUME NEW u \in Thread \ {t} PROVE pc[u] \in {"idle", "returning"}
        OBVIOUS
      <4>1. pc[u] \notin Dropping
        BY <1>2, <2>1 DEF LastHandle
      <4>2. pc[u] \notin InExec \cup Loading
        BY <3>1 DEF CallsHoldHandles, LoadersHoldRuntime
      <4>3. pc[u] # "gone"
        BY <1>3 DEF AllGone, HostGone
      <4> QED
        BY <4>1, <4>2, <4>3, <1>4 DEF Location, Locked, Dropping, Loading, InExec, Creating, Closing
    <3> QED
      BY <1>1, <1>2, <1>4, <2>1, <3>1, <3>2 DEF CloserIsLast
  <2>2. CASE to # "closeSend"
    BY <1>1, <1>2, <1>3, <1>4, <2>2 DEF CloserIsLast, Closing
  <2> QED
    BY <2>1, <2>2
<1>8. CallsHoldHandles'
  <2> DEFINE Holding(p, c, as) ==
        /\ p \in InExec => \E a \in as : c.art = {a} /\ c.module = a.module
        /\ p = "returning" /\ c.art # {} => \E a \in as : c.art = {a} /\ c.module = a.module
        /\ p \in {"dropLock", "dropSend"} => \E a \in Artifact : c.art = {a}
        /\ p \notin InExec \cup Dropping \cup {"returning"} => c.art = {}
  <2>1. \A u \in Thread : Holding(pc[u], call[u], arts)
    BY DEF CallsHoldHandles
  <2>2. pc'[t] = to
    BY <1>2
  <2>3. to \in {"dropSend", "dropRef"} => Holding(to, call[t], arts)
    <3>1. to = "dropSend" => \E a \in Artifact : call[t].art = {a}
      BY <1>2, <2>1
    <3> QED
      BY <3>1 DEF Dropping, InExec
  <2>4. to \in {"idle", "closeSend"} => Holding(to, NoCall, arts)
    <3>1. NoCall.art = {}
      BY DEF NoCall
    <3> QED
      BY <3>1 DEF Dropping, InExec
  <2>5. call' = call \/ call' = [call EXCEPT ![t] = NoCall]
    BY <1>2
  <2>6. \A u \in Thread \ {t} : pc'[u] = pc[u] /\ call'[u] = call[u]
    BY <1>2, <2>5
  <2>7. call'[t] = IF to \in {"idle", "closeSend"} THEN NoCall ELSE call[t]
    BY <1>2
  <2> HIDE DEF Holding
  <2>8. \A u \in Thread : Holding(pc'[u], call'[u], arts')
    BY <1>1, <1>2, <2>1, <2>2, <2>3, <2>4, <2>6, <2>7
  <2> QED
    BY <2>8 DEF CallsHoldHandles, Holding
<1> QED
  BY <1>5, <1>6, <1>7, <1>8

LEMMA CreateKeepsRoles ==
  ASSUME TypeInv, RoleInv, NEW t \in Thread, NewSpawn(t) \/ NewSend(t) \/ NewRecv(t)
  PROVE  RoleInv'
<1> USE Typed DEF RoleInv, Goto, Leave
<1>1. PICK to \in {"newSend", "newRecv", "idle", "closeSend"} :
        /\ pc' = [pc EXCEPT ![t] = to] 
        /\ runtime' = IF to = "idle" THEN "live" ELSE IF to = "closeSend" THEN "dropped" ELSE "new"
  BY DEF NewSpawn, NewSend, NewRecv, NewFails, CreatorIsAlone, Creating
<1>2. pc[t] \in Creating \cup {"idle"} /\ runtime \in {"none", "new"} /\ UNCHANGED <<call, arts, mutex>>
  BY DEF NewSpawn, NewSend, NewRecv, NewFails, CreatorIsAlone, Creating, workerVars
<1>3. arts = {} /\ \A u \in Thread : pc[u] \in Creating \cup {"idle", "gone"}
  BY <1>2 DEF CreatorIsAlone
<1>4. \A u \in Thread : pc[u] \in Creating \cup {"idle"}
  BY <1>2, <1>3 DEF AllGone, HostGone, Creating
<1>5. \A u \in Thread \ {t} : pc[u] = "idle"
  <2>1. CASE NewSpawn(t)
    BY <1>4, <2>1 DEF CreatorIsAlone, NewSpawn, Creating
  <2>2. CASE NewSend(t) \/ NewRecv(t)
    BY <1>4, <2>2 DEF CreatorIsAlone, NewSend, NewRecv, Creating
  <2> QED
    BY <2>1, <2>2
<1>6. MutexIsHeld'
  BY <1>1, <1>2 DEF MutexIsHeld, Locked, Creating
<1>7. CreatorIsAlone' /\ CloserIsLast'
  BY <1>1, <1>2, <1>3, <1>5 DEF CreatorIsAlone, CloserIsLast, Creating, Closing
<1>8. LoadersHoldRuntime' /\ AllGone'
  BY <1>1, <1>5 DEF LoadersHoldRuntime, AllGone, HostGone, Loading
<1>9. CallsHoldHandles'
  BY <1>1, <1>2, <1>5 DEF CallsHoldHandles, Creating, InExec, Dropping
<1> QED
  BY <1>6, <1>7, <1>8, <1>9

LEMMA CloseKeepsRoles ==
  ASSUME TypeInv, RoleInv, NEW t \in Thread,
         Return(t) \/ DropRuntime(t) \/ CloseSend(t) \/ CloseWait(t)
  PROVE  RoleInv'
<1> USE Typed DEF RoleInv, Goto, Leave
<1>1. CASE Return(t)
  <2>1. pc[t] = "returning" /\ pc' = [pc EXCEPT ![t] = "idle"] /\ call' = [call EXCEPT ![t] = NoCall]
        /\ UNCHANGED <<mutex, runtime, arts>>
    BY <1>1 DEF Return, workerVars
  <2>2. NoCall.art = {}
    BY DEF NoCall
  <2>3. MutexIsHeld' /\ CreatorIsAlone' /\ CloserIsLast'
    BY <2>1 DEF MutexIsHeld, CreatorIsAlone, CloserIsLast, Locked, Creating, Closing
  <2>4. LoadersHoldRuntime' /\ AllGone' 
    BY <2>1 DEF LoadersHoldRuntime, AllGone, HostGone, Loading
  <2>5. CallsHoldHandles'
    BY <2>1, <2>2 DEF CallsHoldHandles, InExec, Dropping
  <2> QED
    BY <2>3, <2>4, <2>5
<1>2. CASE DropRuntime(t)
  <2>1. PICK to \in {"idle", "closeSend"} :
          /\ pc' = [pc EXCEPT ![t] = to]
          /\ to = "closeSend" => arts = {} /\ \A u \in Thread : pc[u] \notin Dropping
    BY <1>2 DEF DropRuntime
  <2>2. /\ pc[t] = "idle" /\ runtime = "live" /\ runtime' = "dropped"
        /\ \A u \in Thread : pc[u] \notin Loading
        /\ UNCHANGED <<mutex, call, arts>>
    BY <1>2 DEF DropRuntime, workerVars
  <2>3. \A u \in Thread : pc[u] \notin Creating \cup Closing \cup {"gone"}
    BY <2>2 DEF CreatorIsAlone, CloserIsLast, AllGone, HostGone, Creating
  <2>4. MutexIsHeld' /\ CreatorIsAlone' /\ LoadersHoldRuntime' /\ AllGone' 
    BY <2>1, <2>2, <2>3 DEF MutexIsHeld, CreatorIsAlone, LoadersHoldRuntime, AllGone, HostGone,
       Locked, Creating, Loading
  <2>5. CloserIsLast'
    <3>1. CASE to = "closeSend"
      <4>1. \A u \in Thread : pc[u] \notin InExec
        BY <2>1, <3>1 DEF CallsHoldHandles
      <4>2. \A u \in Thread : pc[u] \in {"idle", "returning"}
        BY <2>1, <2>2, <2>3, <3>1, <4>1 DEF Location, Locked, Dropping, Loading, InExec, Creating, Closing
      <4> QED
        BY <2>1, <2>2, <3>1, <4>2 DEF CloserIsLast, Closing
    <3>2. CASE to = "idle"
      BY <2>1, <2>2, <2>3, <3>2 DEF CloserIsLast, Closing
    <3> QED
      BY <3>1, <3>2
  <2>6. CallsHoldHandles'
    BY <2>1, <2>2 DEF CallsHoldHandles, InExec, Dropping
  <2> QED
    BY <2>4, <2>5, <2>6
<1>3. CASE CloseSend(t) \/ CloseWait(t)
  <2>1. PICK to \in {"idle", "closeWait"} : pc' = [pc EXCEPT ![t] = to]
    BY <1>3 DEF CloseSend, CloseWait
  <2>2. pc[t] \in Closing /\ UNCHANGED <<mutex, runtime, call, arts>>
    BY <1>3 DEF CloseSend, CloseWait, Closing, workerVars
  <2>3. MutexIsHeld' /\ CreatorIsAlone' /\ CloserIsLast'
    BY <2>1, <2>2 DEF MutexIsHeld, CreatorIsAlone, CloserIsLast, Locked, Creating, Closing
  <2>4. LoadersHoldRuntime' /\ AllGone' 
    BY <2>1, <2>2 DEF LoadersHoldRuntime, AllGone, HostGone, Loading, Closing
  <2>5. CallsHoldHandles'
    BY <2>1, <2>2 DEF CallsHoldHandles, InExec, Dropping, Closing
  <2> QED
    BY <2>3, <2>4, <2>5
<1> QED
  BY <1>1, <1>2, <1>3

LEMMA CallKeepsRoles ==
  ASSUME TypeInv, RoleInv, NEW t \in Thread, pc[t] = "idle",
         \/ \E m \in Module : CallLoad(t, m)
         \/ \E a \in arts : DropArtifact(t, a) \/ \E own, ref \in SUBSET Buf : CallExec(t, a, own, ref)
  PROVE  RoleInv'
<1> USE Typed DEF RoleInv, Goto
<1>1. PICK to \in {"loadLock", "execLock", "dropLock"} :
        /\ pc' = [pc EXCEPT ![t] = to]
        /\ to = "loadLock" => runtime = "live"
        /\ to # "loadLock" => arts # {}
  BY DEF CallLoad, DropArtifact, CallExec
<1>2. /\ UNCHANGED <<mutex, runtime>> /\ arts' \subseteq arts
      /\ to # "dropLock" => UNCHANGED arts
  BY <1>1 DEF CallLoad, DropArtifact, CallExec, workerVars
<1>3. runtime \notin {"none", "new"} /\ \A u \in Thread : pc[u] \notin Creating \cup Closing \cup {"gone"}
  BY <1>1 DEF CreatorIsAlone, CloserIsLast, AllGone, HostGone
<1>4. MutexIsHeld' /\ CreatorIsAlone' /\ CloserIsLast'
  BY <1>1, <1>2, <1>3 DEF MutexIsHeld, CreatorIsAlone, CloserIsLast, Locked, Creating, Closing
<1>5. LoadersHoldRuntime' /\ AllGone'
  BY <1>1, <1>2, <1>3 DEF LoadersHoldRuntime, AllGone, HostGone, Loading
<1>6. CallsHoldHandles'
  <2>1. ASSUME NEW m \in Module, CallLoad(t, m) PROVE CallsHoldHandles'
    <3>1. [NoCall EXCEPT !.module = m].art = {}
      BY DEF NoCall
    <3> QED
      BY <2>1, <3>1 DEF CallLoad, CallsHoldHandles, InExec, Dropping
  <2>2. ASSUME NEW a \in arts, NEW own \in SUBSET Buf, NEW ref \in SUBSET Buf, CallExec(t, a, own, ref)
        PROVE  CallsHoldHandles'
    <3> DEFINE c == [NoCall EXCEPT !.art = {a}, !.module = a.module, !.own = own, !.ref = ref]
    <3>1. c.art = {a} /\ c.module = a.module
      BY ZenonT(60) DEF NoCall
    <3>2. call' = [call EXCEPT ![t] = c] /\ pc' = [pc EXCEPT ![t] = "execLock"] /\ arts' = arts
      BY <2>2 DEF CallExec
    <3> HIDE DEF c
    <3> QED
      BY <3>1, <3>2 DEF CallsHoldHandles, InExec, Dropping
  <2>3. ASSUME NEW a \in arts, DropArtifact(t, a) PROVE CallsHoldHandles'
    <3> DEFINE c == [NoCall EXCEPT !.art = {a}]
    <3>1. c.art = {a}
      BY DEF NoCall
    <3>2. /\ call' = [call EXCEPT ![t] = c] /\ pc' = [pc EXCEPT ![t] = "dropLock"]
          /\ arts' = arts \ {a} /\ \A u \in Thread : a \notin call[u].art
      BY <2>3 DEF DropArtifact, InUse
    <3> HIDE DEF c
    <3>3. \A u \in Thread, b \in arts : call[u].art = {b} => b \in arts'
      BY <3>2
    <3> QED
      BY <3>1, <3>2, <3>3 DEF CallsHoldHandles, InExec, Dropping
  <2> QED
    BY <2>1, <2>2, <2>3
<1> QED
  BY <1>4, <1>5, <1>6

LEMMA RoleStep == TypeInv /\ RoleInv /\ [Next]_vars => RoleInv'
<1> SUFFICES ASSUME TypeInv, RoleInv, [Next]_vars PROVE RoleInv'
  OBVIOUS
<1>1. ASSUME NEW t \in Thread, Host(t) PROVE RoleInv'
  BY <1>1, CreateKeepsRoles, LoadKeepsRoles, ExecKeepsRoles, DropKeepsRoles, CloseKeepsRoles DEF Host
<1>2. ASSUME UNCHANGED <<pc, call, arts, runtime, mutex>> PROVE RoleInv'
  BY <1>2 DEF RoleInv, MutexIsHeld, CreatorIsAlone, CloserIsLast, LoadersHoldRuntime, AllGone,
     HostGone, CallsHoldHandles
<1>3. ASSUME NEW t \in Thread, Caller(t) PROVE RoleInv'
  <2>1. ASSUME NEW b \in Buf, MemNew(t, b) \/ MemDrop(t, b) PROVE RoleInv'
    BY <1>2, <2>1 DEF MemNew, MemDrop, workerVars
  <2>2. ASSUME pc[t] = "idle",
               \/ \E m \in Module : CallLoad(t, m)
               \/ \E a \in arts : DropArtifact(t, a)
                                 \/ \E own, ref \in SUBSET Buf : CallExec(t, a, own, ref)
        PROVE  RoleInv'
    BY <2>2, CallKeepsRoles
  <2> QED
    BY <1>3, <2>1, <2>2, CreateKeepsRoles, CloseKeepsRoles
       DEF Caller, CallLoad, DropArtifact, CallExec
<1>4. CASE Child \/ ChildCrash
  BY <1>2, <1>4, ChildKeepsRoles
<1>5. CASE HostDies
  BY <1>5, SessionAssumption DEF HostDies, RoleInv, MutexIsHeld, CreatorIsAlone, CloserIsLast, LoadersHoldRuntime,
     AllGone, HostGone, CallsHoldHandles, Locked, Creating, Closing, Loading, InExec, Dropping, NoCall
<1>6. CASE UNCHANGED vars
  BY <1>2, <1>6 DEF vars, hostVars, workerVars
<1> QED
  BY StepCases, <1>1, <1>3, <1>4, <1>5, <1>6

-----------------------------------------------------------------------------
(* Layer 2 is inductive.                                                   *)

\* What layer 2 says of a call.
SameMemory(c, d) ==
  \A u \in Thread : d[u].own = c[u].own /\ d[u].ref = c[u].ref /\ d[u].vals = c[u].vals

LEMMA OwnInit == Init => OwnInv
<1> SUFFICES ASSUME Init PROVE OwnInv
  OBVIOUS
<1>1. NoCall.own = {} /\ NoCall.ref = {} /\ NoCall.vals = {}
  BY DEF NoCall
<1> QED
  BY <1>1 DEF Init, OwnInv, OwnersAreApart, OwnedIsLive, BorrowedIsHeld, CarriedOnly, MapsOfCopier

\* A step that leaves the memory of the host alone.
LEMMA NeutralStep ==
  ASSUME TypeInv, OwnInv, NEW t \in Thread, NEW to, pc' = [pc EXCEPT ![t] = to],
         SameMemory(call, call'), \A u \in Thread \ {t} : call'[u].outs = call[u].outs,
         UNCHANGED <<held, mem, outMaps>>,
         \/ pc[t] \notin Carrying /\ to \notin InExec
         \/ pc[t] \in {"execLock", "execSend", "execRecv"} /\ to \in {"execSend", "execRecv", "returning"}
         \/ pc[t] \in {"relSend", "relRecv"} /\ to \in {"relRecv", "returning"}
  PROVE  OwnInv'
<1> USE Typed DEF OwnInv, SameMemory
<1>1. OwnersAreApart' /\ OwnedIsLive' /\ BorrowedIsHeld'
  <2>1. OwnersAreApart'
    BY DEF OwnersAreApart
  <2>2. OwnedIsLive'
    BY DEF OwnedIsLive
  <2>3. BorrowedIsHeld'
    BY DEF BorrowedIsHeld
  <2> QED
    BY <2>1, <2>2, <2>3
<1>2. CarriedOnly'
  BY DEF CarriedOnly, Carrying, InExec
<1>3. pc[t] # "copyOut" /\ to # "copyOut"
  BY DEF Carrying, InExec
<1>4. MapsOfCopier'
  BY <1>3 DEF MapsOfCopier
<1> QED
  BY <1>1, <1>2, <1>4

LEMMA UnchangedMemory == UNCHANGED call => SameMemory(call, call')
  BY DEF SameMemory

LEMMA EmptyCall == NoCall.own = {} /\ NoCall.ref = {} /\ NoCall.vals = {}
  BY DEF NoCall

\* Steps of the host between calls, while loading, and while dropping.
LEMMA OthersKeepOwners ==
  ASSUME TypeInv, OwnInv, NEW t \in Thread,
         \/ NewSpawn(t) \/ NewSend(t) \/ NewRecv(t) \/ LoadLock(t) \/ LoadSend(t) \/ LoadRecv(t)
         \/ DropLock(t) \/ DropSend(t) \/ DropRef(t) \/ DropRuntime(t) \/ CloseSend(t) \/ CloseWait(t)
         \/ (\E m \in Module : CallLoad(t, m)) \/ (\E a \in arts : DropArtifact(t, a))
  PROVE  OwnInv'
<1> USE Typed DEF OwnInv, Goto, Leave, Finish
<1>1. PICK to \in Location \ InExec : pc' = [pc EXCEPT ![t] = to]
  BY DEF NewSpawn, NewSend, NewRecv, NewFails, LoadLock, LoadSend, LoadRecv, DropLock, DropSend,
     DropRef, DropRuntime, CloseSend, CloseWait, CallLoad, DropArtifact, Location, InExec, Locked, Dropping,
     Loading
<1>2. pc[t] \notin Carrying /\ UNCHANGED <<held, mem, outMaps>>
  BY DEF NewSpawn, NewSend, NewRecv, NewFails, LoadLock, LoadSend, LoadRecv, DropLock, DropSend,
     DropRef, DropRuntime, CloseSend, CloseWait, CallLoad, DropArtifact, Carrying, InExec
<1>3. call[t].own = {} /\ call[t].ref = {} /\ call[t].vals = {}
  BY <1>2 DEF CarriedOnly, Carrying, InExec
<1>4. PICK c : /\ c.own = {} /\ c.ref = {} /\ c.vals = {}
               /\ UNCHANGED call \/ call' = [call EXCEPT ![t] = c]
  <2>1. CASE UNCHANGED call
    BY <2>1, EmptyCall
  <2>2. CASE DropRef(t)
    BY <2>2, EmptyCall DEF DropRef
  <2>3. ASSUME NEW m \in Module, CallLoad(t, m)
        PROVE  \E c : c.own = {} /\ c.ref = {} /\ c.vals = {} /\ call' = [call EXCEPT ![t] = c]
    BY <2>3 DEF CallLoad, NoCall
  <2>4. ASSUME NEW a \in arts, DropArtifact(t, a)
        PROVE  \E c : c.own = {} /\ c.ref = {} /\ c.vals = {} /\ call' = [call EXCEPT ![t] = c]
    BY <2>4 DEF DropArtifact, NoCall
  <2> QED
    BY <2>1, <2>2, <2>3, <2>4 DEF NewSpawn, NewSend, NewRecv, LoadLock, LoadSend, LoadRecv, DropLock,
       DropSend, DropRuntime, CloseSend, CloseWait
<1>5. SameMemory(call, call') /\ \A u \in Thread \ {t} : call'[u].outs = call[u].outs
  BY <1>3, <1>4 DEF SameMemory
<1> QED
  BY <1>1, <1>2, <1>5, NeutralStep

\* The threads' own allocations.
LEMMA CallersKeepOwners ==
  ASSUME TypeInv, OwnInv, NEW t \in Thread,
         \/ \E b \in Buf : MemNew(t, b) \/ MemDrop(t, b)
         \/ \E a \in arts, own, ref \in SUBSET Buf : CallExec(t, a, own, ref)
  PROVE  OwnInv'
<1> USE Typed DEF OwnInv, Goto
<1>1. ASSUME NEW b \in Buf, MemNew(t, b) PROVE OwnInv'
  <2>1. /\ b \notin mem /\ mem' = mem \cup {b} /\ UNCHANGED <<pc, call, outMaps>>
        /\ held' = [held EXCEPT ![t] = held[t] \cup {b}]
    BY <1>1 DEF MemNew
  <2>2. \A u \in Thread : b \notin held[u] \cup call[u].own \cup call[u].vals
    BY <2>1 DEF OwnedIsLive
  <2>3. OwnersAreApart'
    BY <2>1, <2>2 DEF OwnersAreApart
  <2>4. OwnedIsLive' /\ BorrowedIsHeld'
    BY <2>1 DEF OwnedIsLive, BorrowedIsHeld
  <2>5. CarriedOnly' /\ MapsOfCopier'
    BY <2>1 DEF CarriedOnly, MapsOfCopier
  <2> QED
    BY <2>3, <2>4, <2>5
<1>2. ASSUME NEW b \in Buf, MemDrop(t, b) PROVE OwnInv'
  <2>1. /\ b \in held[t] /\ mem' = mem \ {b} /\ UNCHANGED <<pc, call, outMaps>>
        /\ held' = [held EXCEPT ![t] = held[t] \ {b}]
        /\ \A u \in Thread : b \notin call[u].ref
    BY <1>2 DEF MemDrop, Borrowed
  <2>2. OwnersAreApart'
    BY <2>1 DEF OwnersAreApart
  <2>3. /\ \A u \in Thread : b \notin call[u].own \cup call[u].vals
        /\ \A u \in Thread \ {t} : b \notin held[u]
    BY <2>1 DEF OwnersAreApart
  <2>4. OwnedIsLive'
    BY <2>1, <2>3 DEF OwnedIsLive
  <2>5. BorrowedIsHeld'
    BY <2>1 DEF BorrowedIsHeld
  <2>6. CarriedOnly' /\ MapsOfCopier'
    BY <2>1 DEF CarriedOnly, MapsOfCopier
  <2> QED
    BY <2>2, <2>4, <2>5, <2>6
<1>3. ASSUME NEW a \in arts, NEW own \in SUBSET Buf, NEW ref \in SUBSET Buf, CallExec(t, a, own, ref)
      PROVE  OwnInv'
  <2> DEFINE c == [NoCall EXCEPT !.art = {a}, !.module = a.module, !.own = own, !.ref = ref]
  <2>1. c.own = own /\ c.ref = ref /\ c.vals = {}
    BY ZenonT(60) DEF NoCall
  <2>2. /\ call' = [call EXCEPT ![t] = c] /\ pc' = [pc EXCEPT ![t] = "execLock"]
        /\ held' = [held EXCEPT ![t] = held[t] \ own] /\ UNCHANGED <<mem, outMaps>>
        /\ pc[t] = "idle" /\ own \subseteq held[t] \ Borrowed /\ ref \subseteq Held \ own
    BY <1>3 DEF CallExec
  <2>8. /\ \A u \in Thread : own \cap call[u].ref = {}
        /\ \A b \in ref : b \notin own /\ \E u \in Thread : b \in held[u]
    BY <2>2 DEF Borrowed, Held
  <2> HIDE DEF c
  <2>3. call[t].own = {} /\ call[t].ref = {} /\ call[t].vals = {}
    BY <2>2 DEF CarriedOnly, Carrying, InExec
  <2>4. OwnersAreApart'
    BY <2>1, <2>2, <2>3 DEF OwnersAreApart
  <2>5. OwnedIsLive'
    BY <2>1, <2>2, <2>3 DEF OwnedIsLive
  <2>6. BorrowedIsHeld'
    BY <2>1, <2>2, <2>8 DEF BorrowedIsHeld
  <2>7. CarriedOnly' /\ MapsOfCopier'
    BY <2>1, <2>2 DEF CarriedOnly, MapsOfCopier, Carrying, InExec
  <2> QED
    BY <2>4, <2>5, <2>6, <2>7
<1> QED
  BY <1>1, <1>2, <1>3

\* Consumed arguments are freed: when the answer is in, or at the latest when
\* the call returns; values that are not returned are freed too.
LEMMA ExecKeepsOwners ==
  ASSUME TypeInv, RoleInv, OwnInv, NEW t \in Thread, ExecLock(t) \/ ExecSend(t) \/ ExecRecv(t)
  PROVE  OwnInv'
<1> USE Typed DEF OwnInv, Goto, Finish
<1>1. ASSUME ExecLock(t) \/ ExecSend(t) \/ (pc[t] = "execRecv" /\ (\E r : Finish(t, r)) /\ UNCHANGED <<call, mem, held, outMaps>>)
      PROVE OwnInv'
  <2>1. \E to \in {"execSend", "execRecv", "returning"} : pc' = [pc EXCEPT ![t] = to]
    BY <1>1 DEF ExecLock, ExecSend
  <2>2. pc[t] \in {"execLock", "execSend", "execRecv"} /\ UNCHANGED <<call, mem, held, outMaps>>
    BY <1>1 DEF ExecLock, ExecSend
  <2> QED
    BY <2>1, <2>2, NeutralStep, UnchangedMemory
<1>2. ASSUME NEW outs, NEW to \in {"decode", "returning"}, pc[t] = "execRecv", pc' = [pc EXCEPT ![t] = to],
             mem' = mem \ call[t].own, UNCHANGED <<held, outMaps>>,
             \/ call' = [call EXCEPT ![t].own = {}]
             \/ call' = [call EXCEPT ![t].own = {}, ![t].outs = outs]
      PROVE  OwnInv'
  <2>1. /\ \A u \in Thread \ {t} : call'[u] = call[u]
        /\ call'[t].own = {} /\ call'[t].ref = call[t].ref /\ call'[t].vals = call[t].vals
    <3>1. CASE call' = [call EXCEPT ![t].own = {}]
      BY <3>1 DEF Call
    <3>2. CASE call' = [call EXCEPT ![t].own = {}, ![t].outs = outs]
      BY <3>2, ZenonT(60) DEF Call
    <3> QED
      BY <1>2, <3>1, <3>2
  <2>2. OwnersAreApart'
    BY <1>2, <2>1 DEF OwnersAreApart
  <2>3. OwnedIsLive'
    <3>1. \A b \in Buf : b \in mem' <=> b \in mem /\ b \notin call[t].own
      BY <1>2
    <3>2. \A b \in call[t].own, u \in Thread :
            b \notin held[u] \cup call[u].vals /\ (u # t => b \notin call[u].own)
      BY DEF OwnersAreApart
    <3> QED
      BY <1>2, <2>1, <3>1, <3>2 DEF OwnedIsLive
  <2>4. BorrowedIsHeld'
    BY <1>2, <2>1 DEF BorrowedIsHeld
  <2>5. CarriedOnly'
    BY <1>2, <2>1 DEF CarriedOnly, Carrying, InExec
  <2>6. MapsOfCopier'
    BY <1>2, <2>1 DEF MapsOfCopier
  <2> QED
    BY <2>2, <2>3, <2>4, <2>5, <2>6
<1>3. CASE ExecRecv(t)
  <2>1. \/ (\E r : Finish(t, r)) /\ UNCHANGED <<call, mem, held, outMaps>>
        \/ \E outs, to \in {"decode", "returning"} :
              /\ pc' = [pc EXCEPT ![t] = to] /\ mem' = mem \ call[t].own /\ UNCHANGED <<held, outMaps>>
              /\ \/ call' = [call EXCEPT ![t].own = {}]
                 \/ call' = [call EXCEPT ![t].own = {}, ![t].outs = outs]
    BY <1>3 DEF ExecRecv
  <2> QED
    BY <1>1, <1>2, <1>3, <2>1 DEF ExecRecv
<1> QED
  BY <1>1, <1>3

\* Outputs are mapped, copied into allocations of the host, and unmapped.
LEMMA DecodeKeepsOwners ==
  ASSUME TypeInv, RoleInv, OwnInv, NEW t \in Thread, DecodeImport(t) \/ DecodeCopy(t)
  PROVE  OwnInv'
<1> USE Typed DEF OwnInv, Goto
<1>1. ASSUME NEW u \in Thread, pc[u] = "copyOut", pc[t] \in {"decode", "copyOut"} PROVE u = t
  BY <1>1 DEF RoleInv, MutexIsHeld, Locked
<1>2. CASE DecodeImport(t)
  <2>1. /\ pc[t] = "decode" /\ UNCHANGED <<held, mem>>
        /\ SameMemory(call, call') /\ \A u \in Thread : call'[u].outs = call[u].outs
    <3>1. UNCHANGED call \/ call' = [call EXCEPT ![t].decoded = "transport"]
      BY <1>2 DEF DecodeImport
    <3>2. SameMemory(call, call') /\ \A u \in Thread : call'[u].outs = call[u].outs
      <4>1. CASE UNCHANGED call
        BY <4>1 DEF SameMemory
      <4>2. CASE call' = [call EXCEPT ![t].decoded = "transport"]
        BY <4>2 DEF SameMemory, Call
      <4> QED
        BY <3>1, <4>1, <4>2
    <3> QED
      BY <1>2, <3>2 DEF DecodeImport
  <2>2. \/ pc' = [pc EXCEPT ![t] = "copyOut"] /\ outMaps' = call[t].outs
        \/ pc' = [pc EXCEPT ![t] = "relSend"] /\ outMaps' = outMaps
    BY <1>2 DEF DecodeImport
  <2>3. OwnersAreApart'
    BY <2>1 DEF OwnersAreApart, SameMemory
  <2>4. OwnedIsLive' /\ BorrowedIsHeld'
    BY <2>1 DEF OwnedIsLive, BorrowedIsHeld, SameMemory
  <2>5. CarriedOnly'
    BY <2>1, <2>2 DEF CarriedOnly, SameMemory, Carrying, InExec
  <2>6. MapsOfCopier'
    BY <1>1, <2>1, <2>2 DEF MapsOfCopier
  <2> QED
    BY <2>3, <2>4, <2>5, <2>6
<1>3. CASE DecodeCopy(t)
  <2>1. /\ pc[t] = "copyOut" /\ outMaps' = {} /\ pc' = [pc EXCEPT ![t] = "relSend"] /\ UNCHANGED held
    BY <1>3 DEF DecodeCopy
  <2>2. MapsOfCopier'
    BY <1>1, <2>1 DEF MapsOfCopier
  <2>3. CASE UNCHANGED mem /\ call' = [call EXCEPT ![t].decoded = "memory"]
    <3>1. SameMemory(call, call')
      BY <2>3 DEF SameMemory, Call
    <3>2. OwnersAreApart' /\ OwnedIsLive' /\ BorrowedIsHeld' /\ CarriedOnly'
      BY <2>1, <2>3, <3>1 DEF OwnersAreApart, OwnedIsLive, BorrowedIsHeld, CarriedOnly, SameMemory, Carrying, InExec
    <3> QED
      BY <2>2, <3>2
  <2>4. ASSUME NEW new \in SUBSET (Buf \ mem), mem' = mem \cup new,
               call' = [call EXCEPT ![t].vals = new, ![t].decoded = "ok"]
        PROVE  OwnInv'
    <3>1. /\ \A u \in Thread \ {t} : call'[u] = call[u]
          /\ call'[t].own = call[t].own /\ call'[t].ref = call[t].ref /\ call'[t].vals = new
      BY <2>4, ZenonT(60) DEF Call
    <3>2. call[t].vals = {}
      BY <2>1 DEF CarriedOnly
    <3>3. \A u \in Thread : \A b \in new : b \notin held[u] \cup call[u].own \cup call[u].vals
      BY DEF OwnedIsLive
    <3>4. OwnersAreApart'
      BY <2>1, <3>1, <3>3 DEF OwnersAreApart
    <3>5. OwnedIsLive'
      BY <2>1, <2>4, <3>1, <3>2 DEF OwnedIsLive
    <3>6. BorrowedIsHeld' /\ CarriedOnly'
      BY <2>1, <3>1 DEF BorrowedIsHeld, CarriedOnly, Carrying, InExec
    <3> QED
      BY <2>2, <3>4, <3>5, <3>6
  <2> QED
    BY <1>3, <2>3, <2>4 DEF DecodeCopy
<1> QED
  BY <1>2, <1>3

LEMMA EndKeepsOwners ==
  ASSUME TypeInv, OwnInv, NEW t \in Thread, ReleaseSend(t) \/ ReleaseRecv(t) \/ Return(t)
  PROVE  OwnInv'
<1> USE Typed DEF OwnInv, Goto, Leave, Finish
<1>1. CASE (ReleaseSend(t) \/ ReleaseRecv(t)) /\ UNCHANGED <<call, mem>>
  <2>1. /\ pc[t] \in {"relSend", "relRecv"} /\ UNCHANGED <<held, outMaps>>
        /\ \E to \in {"relRecv", "returning"} : pc' = [pc EXCEPT ![t] = to]
    BY <1>1 DEF ReleaseSend, ReleaseRecv
  <2> QED
    BY <1>1, <2>1, NeutralStep, UnchangedMemory
<1>2. CASE (ReleaseSend(t) \/ ReleaseRecv(t)) /\ DropValues(t) /\ \E r : Finish(t, r)
  <2>1. /\ pc[t] \in {"relSend", "relRecv"} /\ UNCHANGED <<held, outMaps>>
        /\ pc' = [pc EXCEPT ![t] = "returning"]
        /\ mem' = mem \ call[t].vals /\ call' = [call EXCEPT ![t].vals = {}]
    BY <1>2 DEF ReleaseSend, ReleaseRecv, DropValues
  <2>2. /\ \A u \in Thread \ {t} : call'[u] = call[u]
        /\ call'[t].own = call[t].own /\ call'[t].ref = call[t].ref /\ call'[t].vals = {}
    BY <2>1 DEF Call
  <2>3. OwnersAreApart'
    BY <2>1, <2>2 DEF OwnersAreApart
  <2>4. OwnedIsLive'
    BY <2>1, <2>2 DEF OwnedIsLive, OwnersAreApart
  <2>5. BorrowedIsHeld' /\ CarriedOnly' /\ MapsOfCopier'
    BY <2>1, <2>2 DEF BorrowedIsHeld, CarriedOnly, MapsOfCopier, Carrying, InExec
  <2> QED
    BY <2>3, <2>4, <2>5
<1>3. CASE Return(t)
  <2>1. /\ pc[t] = "returning" /\ UNCHANGED outMaps /\ pc' = [pc EXCEPT ![t] = "idle"]
        /\ mem' = mem \ call[t].own /\ call' = [call EXCEPT ![t] = NoCall]
        /\ held' = [held EXCEPT ![t] = held[t] \cup call[t].vals]
    BY <1>3 DEF Return
  <2>2. OwnersAreApart'
    BY <2>1, EmptyCall DEF OwnersAreApart
  <2>3. OwnedIsLive'
    BY <2>1, EmptyCall DEF OwnedIsLive, OwnersAreApart
  <2>4. BorrowedIsHeld'
    BY <2>1, EmptyCall DEF BorrowedIsHeld
  <2>5. CarriedOnly' /\ MapsOfCopier'
    BY <2>1, EmptyCall DEF CarriedOnly, MapsOfCopier, Carrying, InExec
  <2> QED
    BY <2>2, <2>3, <2>4, <2>5
<1> QED
  BY <1>1, <1>2, <1>3 DEF ReleaseSend, ReleaseRecv

LEMMA OwnStep == TypeInv /\ RoleInv /\ OwnInv /\ [Next]_vars => OwnInv'
<1> SUFFICES ASSUME TypeInv, RoleInv, OwnInv, [Next]_vars PROVE OwnInv'
  OBVIOUS
<1>1. ASSUME NEW t \in Thread, Host(t) \/ Caller(t) PROVE OwnInv'
  BY <1>1, OthersKeepOwners, CallersKeepOwners, ExecKeepsOwners, DecodeKeepsOwners, EndKeepsOwners
     DEF Host, Caller
<1>2. ASSUME UNCHANGED <<pc, call, held, mem, outMaps>> PROVE OwnInv'
  BY <1>2 DEF OwnInv, OwnersAreApart, OwnedIsLive, BorrowedIsHeld, CarriedOnly, MapsOfCopier
<1>3. CASE HostDies
  BY <1>3, EmptyCall DEF HostDies, OwnInv, OwnersAreApart, OwnedIsLive, BorrowedIsHeld, CarriedOnly,
     MapsOfCopier
<1>4. UNCHANGED vars => UNCHANGED <<pc, call, held, mem, outMaps>>
  BY DEF vars, hostVars
<1> QED
  BY StepCases, ChildKeepsRoles, <1>1, <1>2, <1>3, <1>4

-----------------------------------------------------------------------------
(* Layer 3 is inductive.                                                   *)

LEMMA ChildLocalInit == Init => ChildInv
  BY DEF Init, ChildInv, OutputsAreKept, AnswerIsForJob, Executing, Alive

\* What the host does to the child: it starts one and waits for a dead one.
LEMMA HostLeavesChild ==
  ASSUME EndInv, NEW t \in Thread, Host(t) \/ Caller(t)
  PROVE  /\ UNCHANGED <<artifacts, pending, maps, cmem, job, reply>>
         /\ \/ child' = child
            \/ child = "none" /\ child' = "boot" /\ toChild' = toChild /\ NewSpawn(t)
            \/ child \in {"dead", "reaped"} /\ child' = "reaped" /\ toChild' = toChild
         /\ child \in Alive \/ toChild' = toChild
<1> USE DEF heapVars, childVars, workerVars, Alive
<1>1. CASE NewSpawn(t)
  BY <1>1 DEF NewSpawn, EndInv
<1>2. ASSUME NEW op, NEW r, Received(op) \/ ReceiveFailed(op, r)
      PROVE  child' = child \/ (child \in {"dead", "reaped"} /\ child' = "reaped")
  BY <1>2 DEF Received, ReceiveFailed, Reap
<1>3. CASE NewRecv(t) \/ LoadRecv(t) \/ ExecRecv(t) \/ ReleaseRecv(t) \/ CloseWait(t)
  BY <1>2, <1>3 DEF NewRecv, LoadRecv, ExecRecv, ReleaseRecv, CloseWait
<1>4. CASE NewSend(t) \/ LoadSend(t) \/ ExecSend(t) \/ ReleaseSend(t) \/ DropSend(t) \/ CloseSend(t)
  BY <1>4 DEF NewSend, LoadSend, ExecSend, ReleaseSend, DropSend, CloseSend, Sent, SendFailed, SendPanicked
<1>5. CASE LoadLock(t) \/ ExecLock(t) \/ DropLock(t) \/ DecodeImport(t) \/ DecodeCopy(t) \/ Return(t)
           \/ DropRef(t)
  BY <1>5 DEF LoadLock, ExecLock, DropLock, DecodeImport, DecodeCopy, Return, DropRef
<1>6. CASE Caller(t)
  BY <1>1, <1>6 DEF Caller, DropRuntime, MemNew, MemDrop, CallLoad, DropArtifact, CallExec
<1> QED
  BY <1>1, <1>3, <1>4, <1>5, <1>6 DEF Host

LEMMA Executions ==
  ASSUME NEW ok, NEW outs
  PROVE  LET e == Executed(ok, outs)
         IN  e.op = "Executed" /\ e.ok = ok /\ e.outs = outs /\ e.by = job.by
  BY DEF Executed

LEMMA ChildLocalStep == TypeInv /\ EndInv /\ ChildInv /\ [Next]_vars => ChildInv'
<1> SUFFICES ASSUME TypeInv, EndInv, ChildInv, [Next]_vars PROVE ChildInv'
  OBVIOUS
<1> USE DEF ChildInv, OutputsAreKept, AnswerIsForJob, Executing, Alive
<1>1. ASSUME NEW t \in Thread, Host(t) \/ Caller(t) PROVE ChildInv'
  BY <1>1, HostLeavesChild
<1>2. CASE ChildInit \/ ChildLoad \/ ChildReleaseArtifact \/ ChildReleaseOutputs
  <2>1. CASE ChildInit
    BY <2>1 DEF ChildInit, ChildAnswers, heapVars
  <2>2. CASE ChildLoad
    BY <2>2 DEF ChildLoad, ChildTakes, ChildAnswers
  <2>3. CASE ChildReleaseArtifact
    BY <2>3 DEF ChildReleaseArtifact, ChildTakes
  <2>4. CASE ChildReleaseOutputs
    BY <2>4 DEF ChildReleaseOutputs, ChildTakes, ChildAnswers
  <2> QED
    BY <1>2, <2>1, <2>2, <2>3, <2>4
<1>3. CASE ChildExecute
  BY <1>3 DEF ChildExecute, ChildTakes, ChildAnswers, heapVars
<1>4. CASE ChildImport \/ ChildCopy
  BY <1>4 DEF ChildImport, ChildCopy, ChildFails, Executed
<1>5. CASE ChildRun \/ ChildExport
  <2>1. CASE ChildRun /\ child' = "export"
    BY <2>1 DEF ChildRun
  <2>2. CASE ChildRun /\ child' # "export"
    <3>1. reply' = Executed("runtime", {}) /\ child = "run" /\ child' = "unmap" /\ cmem' = {}
          /\ UNCHANGED <<pending, maps, job, toChild>>
      BY <2>2 DEF ChildRun, ChildFails
    <3> QED
      BY <3>1, Executions
  <2>3. CASE ChildExport /\ cmem' = cmem
    <3>1. \/ reply' = Executed("ok", cmem) /\ pending' = cmem
          \/ reply' = Executed("memory", {}) /\ pending' = {} /\ cmem = {}
      BY <2>3 DEF ChildExport, ChildFails
    <3>2. child = "export" /\ child' = "unmap" /\ UNCHANGED <<maps, job, toChild>>
      BY <2>3 DEF ChildExport, ChildFails
    <3>3. cmem' = cmem
      BY <2>3
    <3>4. CASE reply' = Executed("ok", cmem) /\ pending' = cmem
      BY <3>2, <3>3, <3>4, Executions
    <3>5. CASE reply' = Executed("memory", {}) /\ pending' = {} /\ cmem = {}
      BY <3>2, <3>3, <3>5, Executions
    <3> QED
      BY <3>1, <3>4, <3>5
  <2>4. CASE ChildExport /\ cmem' = {}
    <3>1. \/ reply' = Executed("ok", cmem) /\ pending' = cmem /\ cmem = {}
          \/ reply' = Executed("memory", {}) /\ pending' = {}
      BY <2>4 DEF ChildExport, ChildFails
    <3>2. child = "export" /\ child' = "unmap" /\ UNCHANGED <<maps, job, toChild>>
      BY <2>4 DEF ChildExport, ChildFails
    <3> QED
      BY <2>4, <3>1, <3>2, Executions
  <2> QED
    BY <1>5, <2>1, <2>2, <2>3, <2>4 DEF ChildExport
<1>6. CASE ChildUnmap \/ ChildReply
  BY <1>6 DEF ChildUnmap, ChildReply, ChildGone, NoReply, heapVars
<1>7. CASE ChildExit \/ ChildCrash
  BY <1>7 DEF ChildExit, ChildCrash, ChildGone, NoReply
<1>8. CASE HostDies \/ UNCHANGED vars
  BY <1>8 DEF HostDies, vars, childVars, heapVars
<1> QED
  BY StepCases, <1>1, <1>2, <1>3, <1>4, <1>5, <1>6, <1>7, <1>8 DEF Child

-----------------------------------------------------------------------------
(* What the first layers say of the host's memory.                         *)

LEMMA MemoryInvariance == Spec => []MemoryInv
<1>1. Init => MemoryInv
  BY TypeInit, EndInit, RoleInit, OwnInit, ChildLocalInit DEF MemoryInv
<1>2. MemoryInv /\ [Next]_vars => MemoryInv'
  BY TypeStep, EndStep, RoleStep, OwnStep, ChildLocalStep DEF MemoryInv
<1> QED
  BY <1>1, <1>2, PTL DEF Spec

\* The buffers that a call lent or gave live while it is in progress.
LEMMA ArgumentsLive ==
  ASSUME OwnInv, TypeInv, NEW t \in Thread
  PROVE  call[t].own \cup call[t].ref \subseteq mem
<1>1. call[t].own \subseteq Buf /\ call[t].ref \subseteq Buf
  BY CallFields, Typed
<1> QED
  BY <1>1 DEF OwnInv, OwnedIsLive, BorrowedIsHeld

LEMMA AloneOrNobody ==
  ASSUME NEW S, \A t \in S : \A u \in S : t = u
  PROVE  Cardinality(S) = IF S = {} THEN 0 ELSE 1
<1>1. CASE S = {}
  BY <1>1, FS_EmptySet
<1>2. CASE S # {}
  <2>1. PICK t \in S : S = {t}
    BY <1>2
  <2> QED
    BY <1>2, <2>1, FS_Singleton
<1> QED
  BY <1>1, <1>2

\* Every allocation of the host has exactly one owner: an argument, a decoded
\* value or a buffer a thread keeps; none leaks and none is freed twice, on any
\* error path of exec_values, and what is borrowed is live.
THEOREM Owners == Spec => []OneOwner
<1>1. MemoryInv => OneOwner
  <2> SUFFICES ASSUME MemoryInv PROVE OneOwner
    OBVIOUS
  <2> USE Typed DEF MemoryInv
  <2>1. Borrowed \subseteq mem
    BY ArgumentsLive DEF Borrowed
  <2>2. ASSUME NEW b \in Buf
        PROVE  Cardinality({t \in Thread : b \in held[t]})
                 + Cardinality({t \in Thread : b \in call[t].own})
                 + Cardinality({t \in Thread : b \in call[t].vals}) = IF b \in mem THEN 1 ELSE 0
    <3> DEFINE H == {t \in Thread : b \in held[t]}
               O == {t \in Thread : b \in call[t].own}
               V == {t \in Thread : b \in call[t].vals}
    <3>1. /\ \A t \in H : \A u \in H : t = u
          /\ \A t \in O : \A u \in O : t = u
          /\ \A t \in V : \A u \in V : t = u
      BY DEF OwnInv, OwnersAreApart
    <3>2. H = {} \/ O = {}
      BY DEF OwnInv, OwnersAreApart
    <3>3. H = {} \/ V = {}
      BY DEF OwnInv, OwnersAreApart
    <3>4. O = {} \/ V = {}
      BY DEF OwnInv, OwnersAreApart
    <3>5. b \in mem <=> H # {} \/ O # {} \/ V # {}
      BY DEF OwnInv, OwnedIsLive
    <3> HIDE DEF H, O, V
    <3>6. /\ Cardinality(H) = IF H = {} THEN 0 ELSE 1
          /\ Cardinality(O) = IF O = {} THEN 0 ELSE 1
          /\ Cardinality(V) = IF V = {} THEN 0 ELSE 1
      BY <3>1, AloneOrNobody
    <3>7. Cardinality(H) + Cardinality(O) + Cardinality(V) = IF b \in mem THEN 1 ELSE 0
      BY <3>2, <3>3, <3>4, <3>5, <3>6
    <3> QED
      BY <3>7 DEF H, O, V
  <2> QED
    BY <2>1, <2>2 DEF OneOwner
<1> QED
  BY <1>1, MemoryInvariance, PTL
=============================================================================
