-------------------------- MODULE RemoteExecution --------------------------
(***************************************************************************)
(* What safe_runtime::Artifact::exec_values promises its callers, without  *)
(* the process, the pipes and the lock: a program is executed at most once *)
(* per call, by the module of the handle, and only while the child lives;  *)
(* success means that it was executed, and an error of the Runtime or      *)
(* Unavailable kind that it was not, so that the call may be repeated.     *)
(***************************************************************************)
EXTENDS Sequences

CONSTANTS Thread, Module, NoModule

VARIABLES
  state,    \* of each thread's call
  asked,    \* the module it wants executed
  ran,      \* what was executed for it
  server    \* the executing process

vars == <<state, asked, ran, server>>

Init ==
  /\ state = [t \in Thread |-> "idle"]
  /\ asked = [t \in Thread |-> NoModule]
  /\ ran = [t \in Thread |-> <<>>]
  /\ server = "absent"

Start == server = "absent" /\ server' = "up" /\ UNCHANGED <<state, asked, ran>>
Stop == server = "up" /\ server' = "down" /\ UNCHANGED <<state, asked, ran>>

Call(t, m) ==
  /\ state[t] = "idle"
  /\ state' = [state EXCEPT ![t] = "called"]
  /\ asked' = [asked EXCEPT ![t] = m]
  /\ ran' = [ran EXCEPT ![t] = <<>>]
  /\ UNCHANGED server

Run(t) ==
  /\ state[t] = "called" /\ ran[t] = <<>> /\ server = "up"
  /\ ran' = [ran EXCEPT ![t] = <<asked[t]>>]
  /\ UNCHANGED <<state, asked, server>>

Finish(t, outcome) ==
  /\ state[t] = "called"
  /\ outcome = "ok" => ran[t] = <<asked[t]>>
  /\ outcome = "rejected" => ran[t] = <<>>
  /\ state' = [state EXCEPT ![t] = outcome]
  /\ UNCHANGED <<asked, ran>>
  /\ UNCHANGED server

Return(t) ==
  /\ state[t] \in {"ok", "rejected", "failed"}
  /\ state' = [state EXCEPT ![t] = "idle"]
  /\ asked' = [asked EXCEPT ![t] = NoModule]
  /\ UNCHANGED <<ran, server>>

Next ==
  \/ Start \/ Stop
  \/ \E t \in Thread :
       \/ Run(t) \/ Return(t)
       \/ \E m \in Module : Call(t, m)
       \/ \E outcome \in {"ok", "rejected", "failed"} : Finish(t, outcome)

Spec == Init /\ [][Next]_vars
=============================================================================
