------------------------- MODULE InlineDefinitions -------------------------
(***************************************************************************)
(* pass/inline_definitions.rs: the selected definitions of a theory (those *)
(* with a closure at their boundary, compile.rs:148-172) are expanded into *)
(* their users, bottom-up, and removed unless something still refers to    *)
(* them.  A body is the set of operations it calls and the set it names    *)
(* (f and name.f); how they are wired does not matter here, nor how often  *)
(* they occur.  BTreeSets are visited in any order.  The theory is a user  *)
(* theory and type-checked (compile.rs:90), so that a body always fits the *)
(* boundary of the operation it replaces; the selection may be anything.   *)
(***************************************************************************)
EXTENDS Naturals, Sequences

CONSTANTS
  Def,          \* operations declared in the theory
  Nameable,     \* those whose name.* occurs in bodies
  None          \* no definition, no inline body, the loop over the selection

ASSUME DefAssumption == Nameable \subseteq Def /\ None \notin Def

Body == [calls : SUBSET Def, names : SUBSET Nameable]

ASSUME NoneAssumption == None \notin Body

VARIABLES
  input,        \* definitions of the theory before the pass
  selected,     \* what is to be inlined
  elsewhere,    \* what definitions of other theories refer to
  stack,        \* loops that run: of definitions, on the one over the selection
  todo,         \* what each loop has still to do
  states,       \* VisitState of each definition
  bodies,       \* inline_bodies
  output,       \* definitions after the pass
  declared,     \* operations declared after the pass
  named,        \* operations whose name.* is declared after the pass
  phase

vars == <<input, selected, elsewhere, stack, todo, states, bodies, output,
          declared, named, phase>>

Init ==
  /\ input \in [Def -> Body \cup {None}]
  /\ selected \in SUBSET Def
  /\ elsewhere \in [calls : SUBSET Nameable, names : SUBSET Nameable]
  /\ stack = <<None>>
  /\ todo = [d \in Def \cup {None} |-> IF d = None THEN selected ELSE {}]
  /\ states = [d \in Def |-> "new"]
  /\ bodies = [d \in Def |-> None]
  /\ output = input
  /\ declared = Def
  /\ named = Def
  /\ phase = "collect"

\* The program that is compiled and what of it is to be inlined.
program == <<input, selected, elsewhere>>
\* The theory in the output.
theory == <<output, declared, named>>

Dependencies(d) == {e \in selected : input[d] # None /\ e \in input[d].calls}

\* inline_term: calls are replaced by their bodies, names stay.
Substitute(b, defs) ==
  LET inlined == {d \in b.calls : defs[d] # None} IN
  [calls |-> (b.calls \ inlined) \cup UNION {defs[d].calls : d \in inlined},
   names |-> b.names \cup UNION {defs[d].names : d \in inlined}]

Top == stack[Len(stack)]

\* The loop that runs now goes on to its next definition.
Advance(d) == todo' = [todo EXCEPT ![Top] = @ \ {d}]

\* The loop that runs now comes to d.
Comes(d) ==
  /\ phase = "collect"
  /\ d \in todo[Top]

\* Mutant: the loop does not go on.
SkipStays(d) ==
  /\ Comes(d)
  /\ states[d] = "done"
  /\ UNCHANGED <<program, theory, stack, todo, states, bodies, phase>>

\* Mutant: a definition that is being visited counts as done.
SkipSeen(d) ==
  /\ Comes(d)
  /\ states[d] # "new"
  /\ Advance(d)
  /\ UNCHANGED <<program, theory, stack, states, bodies, phase>>

Skip(d) ==
  /\ Comes(d)
  /\ states[d] = "done"
  /\ Advance(d)
  /\ UNCHANGED <<program, theory, stack, states, bodies, phase>>

FindCycle(d) ==
  /\ Comes(d)
  /\ states[d] = "visiting"
  /\ phase' = "cycle"
  /\ UNCHANGED <<program, theory, stack, todo, states, bodies>>

FindMissing(d) ==
  /\ Comes(d)
  /\ states[d] = "new"
  /\ input[d] = None
  /\ phase' = "missing"
  /\ UNCHANGED <<program, theory, stack, todo, states, bodies>>

Visit(d) ==
  /\ Comes(d)
  /\ states[d] = "new"
  /\ input[d] # None
  /\ states' = [states EXCEPT ![d] = "visiting"]
  /\ stack' = Append(stack, d)
  /\ todo' = [todo EXCEPT ![Top] = @ \ {d}, ![d] = Dependencies(d)]
  /\ UNCHANGED <<program, theory, bodies, phase>>

\* Mutant: the definition is never marked as done.
LeaveVisiting ==
  /\ phase = "collect"
  /\ Len(stack) > 1
  /\ todo[Top] = {}
  /\ bodies' = [bodies EXCEPT ![Top] = Substitute(input[Top], bodies)]
  /\ stack' = SubSeq(stack, 1, Len(stack) - 1)
  /\ UNCHANGED <<program, theory, todo, states, phase>>

\* Every dependency is collected: d is expanded and collected itself.
Leave ==
  /\ phase = "collect"
  /\ Len(stack) > 1
  /\ todo[Top] = {}
  /\ bodies' = [bodies EXCEPT ![Top] = Substitute(input[Top], bodies)]
  /\ states' = [states EXCEPT ![Top] = "done"]
  /\ stack' = SubSeq(stack, 1, Len(stack) - 1)
  /\ UNCHANGED <<program, theory, todo, phase>>

\* Mutant: selected definitions keep the bodies they had.
RewriteOthers ==
  /\ phase = "collect"
  /\ Len(stack) = 1
  /\ todo[Top] = {}
  /\ output' = [d \in Def |->
                  CASE d \in selected -> input[d]
                    [] d \notin selected /\ input[d] = None -> None
                    [] OTHER -> Substitute(input[d], bodies)]
  /\ phase' = "remove"
  /\ UNCHANGED <<program, declared, named, stack, todo, states, bodies>>

\* The whole selection is collected: every definition is rewritten.
Rewrite ==
  /\ phase = "collect"
  /\ Len(stack) = 1
  /\ todo[Top] = {}
  /\ output' = [d \in Def |->
                  CASE d \in selected -> bodies[d]
                    [] d \notin selected /\ input[d] = None -> None
                    [] OTHER -> Substitute(input[d], bodies)]
  /\ phase' = "remove"
  /\ UNCHANGED <<program, declared, named, stack, todo, states, bodies>>

\* The bodies of the output, in this theory and in the others.
Present == {output[d] : d \in {e \in declared : output[e] # None}} \cup {elsewhere}

\* Mutant: a name does not count as a reference.
Called(d) == \E b \in Present : d \in b.calls

Referenced(d) == \E b \in Present : d \in b.calls \cup b.names

\* What nothing refers to any more goes, with its name.
Remove ==
  /\ phase = "remove"
  /\ LET retained == {d \in selected : Referenced(d)} IN
     /\ declared' = declared \ (selected \ retained)
     /\ named' = named \ (selected \ retained)
  /\ phase' = "done"
  /\ UNCHANGED <<program, stack, todo, states, bodies, output>>

Final == phase \in {"done", "cycle", "missing"}

Returned == Final /\ UNCHANGED vars

Next ==
  \/ \E d \in Def : Skip(d) \/ FindCycle(d) \/ FindMissing(d) \/ Visit(d)
  \/ Leave \/ Rewrite \/ Remove
  \/ Returned

Spec == Init /\ [][Next]_vars

\* The pass is a loop of its caller's thread.
FairSpec == Spec /\ WF_vars(Next)

-----------------------------------------------------------------------------
\* The definitions being visited are those on the stack, once each, and the
\* loop over the selection is at its bottom.
TypeOK ==
  /\ input \in [Def -> Body \cup {None}]
  /\ selected \subseteq Def
  /\ elsewhere \in [calls : SUBSET Nameable, names : SUBSET Nameable]
  /\ stack \in Seq(Def \cup {None}) /\ Len(stack) > 0 /\ stack[1] = None
  /\ todo \in [Def \cup {None} -> SUBSET Def]
  /\ states \in [Def -> {"new", "visiting", "done"}]
  /\ \A i, j \in 1 .. Len(stack) : stack[i] = stack[j] => i = j
  /\ \A d \in Def : (states[d] = "visiting")
                      <=> (\E i \in 2 .. Len(stack) : stack[i] = d)
  /\ bodies \in [Def -> Body \cup {None}]
  /\ \A d \in Def : (states[d] = "done") <=> (bodies[d] # None)
  /\ output \in [Def -> Body \cup {None}]
  /\ declared \subseteq Def /\ named \subseteq Def
  /\ phase \in {"collect", "remove", "done", "cycle", "missing"}

\* Some definitions of S each call another one of S.
Cyclic(S) ==
  \E C \in SUBSET S : /\ C # {}
                      /\ \A d \in C : input[d] # None /\ input[d].calls \cap C # {}

\* A cycle is reported only of a selection that has one, a missing definition
\* only of a selection that has one, and a selection with either is never
\* accepted: a diamond is no cycle, and a cycle that is entered from outside
\* is found (collect_inline_body, 168-211).
CyclesAreReported ==
  /\ phase = "cycle" => Cyclic(selected)
  /\ phase = "missing" => \E d \in selected : input[d] = None
  /\ phase \in {"remove", "done"} =>
       ~Cyclic(selected) /\ \A d \in selected : input[d] # None

\* The selected definitions that d needs, directly or through one another: the
\* least set that holds the dependencies of d and of its own members.
Needed(d) ==
  {e \in selected :
     \A S \in SUBSET selected :
       (/\ Dependencies(d) \subseteq S
        /\ \A f \in S : Dependencies(f) \subseteq S) => e \in S}

\* d with everything it needs put in its place, in one go.
Expansion(d) ==
  LET all == {d} \cup Needed(d) IN
  [calls |-> (UNION {input[e].calls : e \in all}) \ selected,
   names |-> UNION {input[e].names : e \in all}]

\* Collecting bodies bottom-up, in whatever order, gives each definition its
\* full expansion: nothing selected is called any more, also not by a selected
\* definition that is retained (run, 37-85).
ResultIsExpansion ==
  phase \in {"remove", "done"} =>
    \A d \in Def : IF input[d] = None THEN output[d] = None
                                      ELSE output[d] = Expansion(d)

\* Whatever the output still calls or names is still declared, in this theory
\* and for the others (run, 87-115).
NothingDangles ==
  phase = "done" =>
    \A b \in Present : b.calls \subseteq declared /\ b.names \subseteq named

\* The pass returns, whatever calls whatever.
Ends == <>Final
=============================================================================
