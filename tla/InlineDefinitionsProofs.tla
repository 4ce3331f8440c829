---------------------- MODULE InlineDefinitionsProofs ----------------------
(***************************************************************************)
(* Proofs about InlineDefinitions, for any theory and any selection.       *)
(***************************************************************************)
EXTENDS InlineDefinitions, TLAPS

\* What is on the stack: every loop belongs to a selected definition that the
\* loop below came to, and what a loop has passed is done.
StackInv ==
  /\ todo[None] \subseteq selected
  /\ \A i \in 2 .. Len(stack) :
       /\ stack[i] \in selected
       /\ todo[stack[i]] \subseteq Dependencies(stack[i])
       /\ input[stack[i]] # None
  /\ \A i \in 1 .. Len(stack) :
       \A e \in IF i = 1 THEN selected ELSE Dependencies(stack[i]) :
         \/ states[e] = "done"
         \/ e \in todo[stack[i]]
         \/ i < Len(stack) /\ e = stack[i + 1]
  /\ \A i \in 2 .. Len(stack) - 1 : stack[i + 1] \in Dependencies(stack[i])

Done == {d \in Def : states[d] = "done"}

\* What is done is closed under dependency, has no cycle and is expanded.
DoneInv ==
  /\ Done \subseteq selected
  /\ \A d \in Done : input[d] # None /\ Dependencies(d) \subseteq Done
  /\ ~Cyclic(Done)
  /\ \A d \in Done : bodies[d] = Expansion(d)

\* How the pass ended.
EndInv ==
  /\ CyclesAreReported
  /\ phase \in {"remove", "done"} => selected \subseteq Done
  /\ ResultIsExpansion

Inv == TypeOK /\ StackInv /\ DoneInv /\ EndInv

-----------------------------------------------------------------------------
(***************************************************************************)
(* Expansion.                                                              *)
(***************************************************************************)

\* No action changes the program that is compiled: what is defined from it
\* alone stays as it is.
LEMMA ProgramStays ==
  ASSUME UNCHANGED program
  PROVE  /\ \A d : Dependencies(d)' = Dependencies(d)
         /\ \A d : Needed(d)' = Needed(d)
         /\ \A d : Expansion(d)' = Expansion(d)
         /\ \A S : Cyclic(S)' = Cyclic(S)
<1>1. input' = input /\ selected' = selected
  BY DEF program
<1>2. \A d : Dependencies(d)' = Dependencies(d)
  BY <1>1 DEF Dependencies
<1>3. \A d : Needed(d)' = Needed(d)
  BY <1>1 DEF Needed, Dependencies
<1>4. \A d : Expansion(d)' = Expansion(d)
  BY <1>1, <1>3 DEF Expansion
<1>5. \A S : Cyclic(S)' = Cyclic(S)
  BY <1>1 DEF Cyclic
<1> QED BY <1>2, <1>3, <1>4, <1>5

\* Needed(d) is closed, and the least such set.
LEMMA NeededIsClosed ==
  ASSUME NEW d, NEW f \in Needed(d)
  PROVE  Dependencies(f) \subseteq Needed(d)
BY DEF Needed, Dependencies

LEMMA NeededIsLeast ==
  ASSUME NEW d, NEW S \in SUBSET selected, Dependencies(d) \subseteq S,
         \A f \in S : Dependencies(f) \subseteq S
  PROVE  Needed(d) \subseteq S
BY DEF Needed

\* What d needs is what it calls and what that needs.
LEMMA NeededUnfolds ==
  ASSUME NEW d
  PROVE  Needed(d) = Dependencies(d) \cup UNION {Needed(e) : e \in Dependencies(d)}
<1> DEFINE T == Dependencies(d) \cup UNION {Needed(e) : e \in Dependencies(d)}
<1>1. \A e : Dependencies(e) \subseteq Needed(e) /\ Needed(e) \subseteq selected
  BY DEF Needed, Dependencies
<1>2. T \subseteq Needed(d)
  <2>1. SUFFICES ASSUME NEW e \in Dependencies(d)
                 PROVE  Needed(e) \subseteq Needed(d)
    BY <1>1
  <2>2. Dependencies(e) \subseteq Needed(d)
    BY <1>1, NeededIsClosed
  <2>3. \A f \in Needed(d) : Dependencies(f) \subseteq Needed(d)
    BY NeededIsClosed
  <2> QED BY <1>1, <2>2, <2>3, NeededIsLeast
<1>3. T \in SUBSET selected
  BY <1>1
<1>4. ASSUME NEW f \in T PROVE Dependencies(f) \subseteq T
  <2>1. CASE f \in Dependencies(d)
    BY <1>1, <2>1
  <2>2. CASE \E e \in Dependencies(d) : f \in Needed(e)
    BY <2>2, NeededIsClosed
  <2> QED BY <2>1, <2>2
<1>5. Needed(d) \subseteq T
  <2> HIDE DEF T
  <2>1. Dependencies(d) \subseteq T
    BY DEF T
  <2> QED BY <1>3, <1>4, <2>1, NeededIsLeast
<1> QED BY <1>2, <1>5

LEMMA SubstituteType ==
  ASSUME NEW b \in Body, NEW defs \in [Def -> Body \cup {None}]
  PROVE  Substitute(b, defs) \in Body
<1> DEFINE inlined == {d \in b.calls : defs[d] # None}
<1>1. b.calls \subseteq Def /\ b.names \subseteq Nameable
  BY DEF Body
<1>2. \A d \in inlined : defs[d].calls \subseteq Def /\ defs[d].names \subseteq Nameable
  BY <1>1 DEF Body
<1>3. UNION {defs[d].calls : d \in inlined} \subseteq Def
  BY <1>2
<1>4. UNION {defs[d].names : d \in inlined} \subseteq Nameable
  BY <1>2
<1> QED BY <1>1, <1>3, <1>4 DEF Substitute, Body

\* A body whose dependencies are expanded is expanded by one substitution.
LEMMA SubstituteExpands ==
  ASSUME TypeOK, DoneInv, NEW d \in Def, input[d] # None,
         Dependencies(d) \subseteq Done
  PROVE  Substitute(input[d], bodies) = Expansion(d)
<1> DEFINE D == Dependencies(d)
<1>1. input[d] \in Body /\ input[d].calls \subseteq Def
  BY DEF TypeOK, Body
<1>2. {e \in input[d].calls : bodies[e] # None} = D
  BY <1>1 DEF TypeOK, DoneInv, Done, Dependencies
<1>3. \A e \in D : bodies[e] = Expansion(e)
  BY DEF DoneInv
<1>4. Needed(d) = D \cup UNION {Needed(e) : e \in D}
  BY NeededUnfolds
<1>5. input[d].calls \ D = input[d].calls \ selected
  BY DEF Dependencies
<1>6. Substitute(input[d], bodies)
        = [calls |-> (input[d].calls \ D) \cup UNION {Expansion(e).calls : e \in D},
           names |-> input[d].names \cup UNION {Expansion(e).names : e \in D}]
  <2>1. UNION {bodies[e].calls : e \in D} = UNION {Expansion(e).calls : e \in D}
    BY <1>3
  <2>2. UNION {bodies[e].names : e \in D} = UNION {Expansion(e).names : e \in D}
    BY <1>3
  <2> QED BY <1>2, <2>1, <2>2 DEF Substitute
<1>7. \A e : /\ Expansion(e).calls
                  = (UNION {input[f].calls : f \in {e} \cup Needed(e)}) \ selected
             /\ Expansion(e).names = UNION {input[f].names : f \in {e} \cup Needed(e)}
  BY DEF Expansion
<1>8. (input[d].calls \ D) \cup UNION {Expansion(e).calls : e \in D} = Expansion(d).calls
  BY <1>4, <1>5, <1>7
<1>9. input[d].names \cup UNION {Expansion(e).names : e \in D} = Expansion(d).names
  BY <1>4, <1>7
<1>10. Expansion(d) = [calls |-> Expansion(d).calls, names |-> Expansion(d).names]
  BY DEF Expansion
<1> QED BY <1>6, <1>8, <1>9, <1>10

-----------------------------------------------------------------------------
(***************************************************************************)
(* The traversal.                                                          *)
(***************************************************************************)

\* A definition that is done: the loop goes on to the next.
LEMMA SkipStep ==
  ASSUME Inv, NEW d \in Def, Skip(d)
  PROVE  Inv'
<1> USE DEF Inv
<1>1. /\ todo' = [todo EXCEPT ![Top] = @ \ {d}]
      /\ states[d] = "done" /\ d \in todo[Top]
      /\ UNCHANGED <<program, theory, stack, states, bodies, phase>>
  BY DEF Skip, Comes, Advance
<1>2. Len(stack) \in Nat /\ Len(stack) > 0 /\ Top \in Def \cup {None}
  BY DEF TypeOK, Top
<1>3. /\ todo' \in [Def \cup {None} -> SUBSET Def]
      /\ \A e \in Def \cup {None} :
           todo'[e] = IF e = Top THEN todo[e] \ {d} ELSE todo[e]
  BY <1>1, <1>2 DEF TypeOK
<1>4. TypeOK'
  BY <1>1, <1>3 DEF TypeOK, program, theory
<1>5. StackInv'
  <2>1. \A e : Dependencies(e)' = Dependencies(e)
    BY <1>1, ProgramStays
  <2>2. /\ input' = input /\ selected' = selected /\ states' = states
        /\ stack' = stack
    BY <1>1 DEF program
  <2>3. /\ \A i \in 1 .. Len(stack) : stack[i] \in Def \cup {None}
        /\ selected \subseteq Def /\ \A e : Dependencies(e) \subseteq selected
    BY DEF TypeOK, Dependencies
  <2>4. \A i \in 1 .. Len(stack) : todo'[stack[i]] \subseteq todo[stack[i]]
    BY <1>3, <2>3
  <2>5. ASSUME NEW i \in 1 .. Len(stack),
               NEW e \in IF i = 1 THEN selected ELSE Dependencies(stack[i])
        PROVE  \/ states[e] = "done"
               \/ e \in todo'[stack[i]]
               \/ i < Len(stack) /\ e = stack[i + 1]
    BY <1>1, <1>3, <2>3 DEF StackInv
  <2>6. todo'[None] \subseteq selected
    BY <1>3 DEF StackInv
  <2>7. ASSUME NEW i \in 2 .. Len(stack)
        PROVE  /\ stack[i] \in selected
               /\ todo'[stack[i]] \subseteq Dependencies(stack[i])
               /\ input[stack[i]] # None
    <3>1. i \in 1 .. Len(stack)
      BY <1>2
    <3> QED BY <2>4, <3>1 DEF StackInv
  <2>8. \A i \in 2 .. Len(stack) - 1 : stack[i + 1] \in Dependencies(stack[i])
    BY DEF StackInv
  <2> QED BY <2>2, <2>5, <2>6, <2>7, <2>8 DEF StackInv, Dependencies
<1>6. DoneInv' /\ EndInv'
  BY <1>1, ProgramStays
     DEF DoneInv, EndInv, Done, CyclesAreReported, ResultIsExpansion, program, theory
<1> QED BY <1>4, <1>5, <1>6

\* A new definition: its own loop starts above the one that came to it.
LEMMA VisitStep ==
  ASSUME Inv, NEW d \in Def, Visit(d)
  PROVE  Inv'
<1> USE DEF Inv
<1>n. PICK n \in Nat \ {0} : n = Len(stack)
  BY DEF TypeOK
<1>1. /\ stack' = Append(stack, d) /\ d \in todo[Top]
      /\ states[d] = "new" /\ input[d] # None
      /\ todo' = [todo EXCEPT ![Top] = @ \ {d}, ![d] = Dependencies(d)]
      /\ states' = [states EXCEPT ![d] = "visiting"]
      /\ UNCHANGED <<program, theory, bodies, phase>>
  BY DEF Visit, Comes
<1>2. /\ \A i \in 1 .. n : stack[i] \in Def \cup {None}
      /\ \A i, j \in 1 .. n : stack[i] = stack[j] => i = j
      /\ stack[n] = Top /\ stack[1] = None /\ Top \in Def \cup {None}
  BY <1>n DEF TypeOK, Top
<1>s. /\ todo[None] \subseteq selected
      /\ \A i \in 2 .. n :
           /\ stack[i] \in selected
           /\ todo[stack[i]] \subseteq Dependencies(stack[i])
           /\ input[stack[i]] # None
      /\ \A i \in 1 .. n :
           \A e \in IF i = 1 THEN selected ELSE Dependencies(stack[i]) :
             \/ states[e] = "done"
             \/ e \in todo[stack[i]]
             \/ i < n /\ e = stack[i + 1]
      /\ \A i \in 2 .. n - 1 : stack[i + 1] \in Dependencies(stack[i])
  BY <1>n DEF StackInv
<1>3. /\ Len(stack') = n + 1 /\ stack' \in Seq(Def \cup {None})
      /\ stack'[n + 1] = d /\ \A i \in 1 .. n : stack'[i] = stack[i]
  BY <1>1, <1>n, <1>2 DEF TypeOK
<1>4. \A i \in 1 .. n : stack[i] # d
  BY <1>1, <1>n, <1>2, DefAssumption DEF TypeOK
<1>5. /\ selected \subseteq Def /\ \A e : Dependencies(e) \subseteq selected
  BY DEF TypeOK, Dependencies
<1>6. /\ todo' \in [Def \cup {None} -> SUBSET Def]
      /\ todo'[d] = Dependencies(d)
      /\ \A i \in 1 .. n :
           /\ todo'[stack[i]] \subseteq todo[stack[i]]
           /\ \A e \in todo[stack[i]] : e \in todo'[stack[i]] \/ (i = n /\ e = d)
  <2>1. /\ todo' \in [Def \cup {None} -> SUBSET Def]
        /\ \A e \in Def \cup {None} :
             todo'[e] = IF e = d THEN Dependencies(d)
                        ELSE IF e = Top THEN todo[e] \ {d} ELSE todo[e]
    BY <1>1, <1>n, <1>2, <1>5, ZenonT(60) DEF TypeOK
  <2>2. \A i \in 1 .. n : stack[i] = Top => i = n
    BY <1>n, <1>2 DEF TypeOK
  <2> QED BY <1>n, <1>2, <1>4, <2>1, <2>2, ZenonT(60)
<1>7. input' = input /\ selected' = selected /\ bodies' = bodies
  BY <1>1 DEF program
<1>8. /\ states' \in [Def -> {"new", "visiting", "done"}] /\ Done' = Done
      /\ \A e \in Def : (states'[e] = "done") <=> (states[e] = "done")
  BY <1>1 DEF TypeOK, Done
<1>9. \A e \in Def : (states'[e] = "visiting") <=> (e = d \/ states[e] = "visiting")
  BY <1>1 DEF TypeOK
<1>10. TypeOK'
  <2>1. \A i, j \in 1 .. Len(stack') : stack'[i] = stack'[j] => i = j
    BY <1>n, <1>2, <1>3, <1>4 DEF TypeOK
  <2>2. \A e \in Def : (states'[e] = "visiting")
                          <=> (\E i \in 2 .. Len(stack') : stack'[i] = e)
    <3>1. ASSUME NEW e \in Def, e # d
          PROVE  (\E i \in 2 .. n : stack[i] = e)
                   <=> (\E i \in 2 .. n + 1 : stack'[i] = e)
      BY <1>n, <1>2, <1>3, <3>1
    <3>2. n + 1 \in 2 .. n + 1
      BY <1>n, <1>2
    <3>3. \A e \in Def : (states[e] = "visiting") <=> (\E i \in 2 .. n : stack[i] = e)
      BY <1>n DEF TypeOK
    <3>4. Len(stack') = n + 1 /\ stack'[n + 1] = d
      BY <1>n, <1>3
    <3> QED BY <1>9, <3>1, <3>2, <3>3, <3>4
  <2>3. \A e \in Def : (states'[e] = "done") <=> (bodies'[e] # None)
    BY <1>7, <1>8 DEF TypeOK
  <2>4. stack' \in Seq(Def \cup {None}) /\ Len(stack') > 0 /\ stack'[1] = None
    BY <1>n, <1>2, <1>3
  <2> QED BY <1>1, <1>6, <1>8, <2>1, <2>2, <2>3, <2>4 DEF TypeOK, program, theory
<1>11. StackInv'
  <2>1. d \in selected
    <3>1. CASE n = 1
      BY <1>s, <1>1, <1>2, <3>1
    <3>2. CASE n > 1
      <4>1. n \in 2 .. n
        BY <3>2
      <4> QED BY <1>s, <1>1, <1>2, <1>5, <4>1
    <3> QED BY <3>1, <3>2
  <2>2. todo'[None] \subseteq selected
    <3>1. 1 \in 1 .. n
      OBVIOUS
    <3> QED BY <1>s, <1>2, <1>6, <3>1
  <2>3. ASSUME NEW i \in 2 .. n + 1
        PROVE  /\ stack'[i] \in selected
               /\ todo'[stack'[i]] \subseteq Dependencies(stack'[i])
               /\ input[stack'[i]] # None
    <3>1. CASE i = n + 1
      BY <1>1, <1>3, <1>6, <2>1, <3>1
    <3>2. CASE i \in 2 .. n
      <4>1. stack'[i] = stack[i] /\ todo'[stack[i]] \subseteq todo[stack[i]]
        BY <1>3, <1>6, <3>2
      <4> QED BY <1>s, <3>2, <4>1
    <3> QED BY <3>1, <3>2
  <2>4. ASSUME NEW i \in 1 .. n + 1,
               NEW e \in IF i = 1 THEN selected ELSE Dependencies(stack'[i])
        PROVE  \/ states'[e] = "done"
               \/ e \in todo'[stack'[i]]
               \/ i < n + 1 /\ e = stack'[i + 1]
    <3>1. CASE i = n + 1
      BY <1>2, <1>3, <1>6, <3>1
    <3>2. CASE i \in 1 .. n
      <4>1. /\ stack'[i] = stack[i] /\ e \in Def
            /\ \/ states[e] = "done"
               \/ e \in todo[stack[i]]
               \/ i < n /\ e = stack[i + 1]
        BY <1>s, <1>3, <1>5, <3>2
      <4>2. CASE i = n
        BY <1>2, <1>3, <1>6, <1>8, <4>1, <4>2
      <4>3. CASE i < n
        <5>1. stack'[i + 1] = stack[i + 1]
          BY <1>2, <1>3, <3>2, <4>3
        <5> QED BY <1>2, <1>6, <1>8, <3>2, <4>1, <4>3, <5>1
      <4> QED BY <3>2, <4>2, <4>3
    <3> QED BY <3>1, <3>2
  <2>5. ASSUME NEW i \in 2 .. n
        PROVE  stack'[i + 1] \in Dependencies(stack'[i])
    <3>1. CASE i = n
      <4>1. todo[stack[n]] \subseteq Dependencies(stack[n])
        BY <1>s, <3>1
      <4> QED BY <1>1, <1>2, <1>3, <3>1, <4>1
    <3>2. CASE i \in 2 .. n - 1
      <4>1. stack'[i] = stack[i] /\ stack'[i + 1] = stack[i + 1]
        BY <1>2, <1>3, <3>2
      <4> QED BY <1>s, <3>2, <4>1
    <3> QED BY <3>1, <3>2
  <2> QED BY <1>2, <1>3, <1>7, <2>2, <2>3, <2>4, <2>5 DEF StackInv, Dependencies
<1>12. DoneInv' /\ EndInv'
  BY <1>1, <1>7, <1>8, ProgramStays
     DEF DoneInv, EndInv, CyclesAreReported, ResultIsExpansion, theory
<1> QED BY <1>10, <1>11, <1>12

\* From d on, each definition on the stack calls the one above it, and the
\* last one calls d.
LEMMA FindCycleStep ==
  ASSUME Inv, NEW d \in Def, FindCycle(d)
  PROVE  Inv'
<1> USE DEF Inv
<1>n. PICK n \in Nat \ {0} : n = Len(stack)
  BY DEF TypeOK
<1>1. /\ states[d] = "visiting" /\ d \in todo[Top] /\ phase' = "cycle"
      /\ UNCHANGED <<program, theory, stack, todo, states, bodies>>
  BY DEF FindCycle, Comes
<1>2. PICK j \in 2 .. n : stack[j] = d
  BY <1>n, <1>1 DEF TypeOK
<1>3. Cyclic(selected)
  <2> DEFINE C == {stack[i] : i \in j .. n}
  <2>1. C \in SUBSET selected /\ C # {}
    BY <1>n, <1>2 DEF StackInv
  <2>2. ASSUME NEW i \in j .. n
        PROVE  input[stack[i]] # None /\ input[stack[i]].calls \cap C # {}
    <3>1. i \in 2 .. n /\ input[stack[i]] # None
      BY <1>n, <1>2 DEF StackInv
    <3>2. CASE i = n
      <4>1. d \in Dependencies(stack[n])
        BY <1>n, <1>1, <3>1, <3>2 DEF StackInv, Top
      <4>2. d \in C
        BY <1>2
      <4> QED BY <3>2, <4>1, <4>2, <3>1 DEF Dependencies
    <3>3. CASE i < n
      <4>1. i + 1 \in j .. n /\ stack[i + 1] \in C /\ i \in 2 .. n - 1
        BY <1>2, <3>3
      <4>2. stack[i + 1] \in Dependencies(stack[i])
        BY <1>n, <4>1 DEF StackInv
      <4> QED BY <3>1, <4>1, <4>2 DEF Dependencies
    <3> QED BY <3>2, <3>3
  <2>3. \A e \in C : input[e] # None /\ input[e].calls \cap C # {}
    BY <2>2
  <2> QED BY <2>1, <2>3 DEF Cyclic
<1>4. TypeOK'
  BY <1>1 DEF TypeOK, program, theory
<1>5. StackInv'
  BY <1>1 DEF StackInv, Dependencies, program
<1>6. DoneInv'
  BY <1>1, ProgramStays DEF DoneInv, Done, program
<1>7. EndInv'
  BY <1>1, <1>3, ProgramStays DEF EndInv, CyclesAreReported, ResultIsExpansion, program
<1> QED BY <1>4, <1>5, <1>6, <1>7

\* The loops only come to selected definitions.
LEMMA FindMissingStep ==
  ASSUME Inv, NEW d \in Def, FindMissing(d)
  PROVE  Inv'
<1> USE DEF Inv
<1>n. PICK n \in Nat \ {0} : n = Len(stack)
  BY DEF TypeOK
<1>1. /\ input[d] = None /\ d \in todo[Top] /\ phase' = "missing"
      /\ UNCHANGED <<program, theory, stack, todo, states, bodies>>
  BY DEF FindMissing, Comes
<1>2. d \in selected
  <2>1. CASE n = 1
    BY <1>n, <1>1, <2>1 DEF StackInv, TypeOK, Top
  <2>2. CASE n > 1
    <3>1. n \in 2 .. n
      BY <2>2
    <3> QED BY <1>n, <1>1, <3>1 DEF StackInv, Top, Dependencies
  <2> QED BY <2>1, <2>2
<1>3. TypeOK'
  BY <1>1 DEF TypeOK, program, theory
<1>4. StackInv'
  BY <1>1 DEF StackInv, Dependencies, program
<1>5. DoneInv'
  BY <1>1, ProgramStays DEF DoneInv, Done, program
<1>6. EndInv'
  BY <1>1, <1>2, ProgramStays DEF EndInv, CyclesAreReported, ResultIsExpansion, program
<1> QED BY <1>3, <1>4, <1>5, <1>6

\* A definition whose dependencies are done joins no cycle of those that are.
LEMMA DoneStaysAcyclic ==
  ASSUME DoneInv, NEW d, d \notin Done, input[d] # None,
         Dependencies(d) \subseteq Done, d \in selected
  PROVE  ~Cyclic(Done \cup {d})
<1>1. SUFFICES ASSUME NEW C \in SUBSET (Done \cup {d}), C # {},
                      \A e \in C : input[e] # None /\ input[e].calls \cap C # {}
               PROVE  FALSE
  BY DEF Cyclic
<1>2. Done \subseteq selected /\ \A e \in Done : Dependencies(e) \subseteq Done
  BY DEF DoneInv
<1>3. \A e \in C : \E f \in C : f \in Dependencies(e)
  BY <1>1, <1>2 DEF Dependencies
<1>4. d \notin Dependencies(d) /\ \A e \in Done : d \notin Dependencies(e)
  BY <1>2
<1>5. C \ {d} # {}
  BY <1>1, <1>3, <1>4
<1>6. \A e \in C \ {d} : input[e] # None /\ input[e].calls \cap (C \ {d}) # {}
  <2>1. ASSUME NEW e \in C \ {d}
        PROVE  input[e].calls \cap (C \ {d}) # {}
    <3>1. PICK f \in C : f \in Dependencies(e)
      BY <1>3
    <3>2. f # d
      BY <1>4, <3>1
    <3> QED BY <3>1, <3>2 DEF Dependencies
  <2> QED BY <1>1, <2>1
<1>7. C \ {d} \in SUBSET Done
  OBVIOUS
<1> QED BY <1>5, <1>6, <1>7 DEF DoneInv, Cyclic

\* The loop of d is over: all that d needs is done, and so is d.
LEMMA LeaveStep ==
  ASSUME Inv, Leave
  PROVE  Inv'
<1> USE DEF Inv
<1>n. PICK n \in Nat \ {0, 1} : n = Len(stack)
  BY DEF TypeOK, Leave
<1> DEFINE d == Top
<1>1. /\ phase = "collect" /\ todo[Top] = {}
      /\ bodies' = [bodies EXCEPT ![d] = Substitute(input[d], bodies)]
      /\ states' = [states EXCEPT ![d] = "done"]
      /\ stack' = SubSeq(stack, 1, Len(stack) - 1)
      /\ UNCHANGED <<program, theory, todo, phase>>
  BY DEF Leave
<1>2. /\ \A i \in 1 .. n : stack[i] \in Def \cup {None}
      /\ \A i, j \in 1 .. n : stack[i] = stack[j] => i = j
      /\ stack[n] = d /\ stack[1] = None /\ n \in 2 .. n
  BY <1>n DEF TypeOK, Top
<1>3. /\ todo[None] \subseteq selected
      /\ \A i \in 2 .. n :
           /\ stack[i] \in selected
           /\ todo[stack[i]] \subseteq Dependencies(stack[i])
           /\ input[stack[i]] # None
      /\ \A i \in 1 .. n :
           \A e \in IF i = 1 THEN selected ELSE Dependencies(stack[i]) :
             \/ states[e] = "done"
             \/ e \in todo[stack[i]]
             \/ i < n /\ e = stack[i + 1]
      /\ \A i \in 2 .. n - 1 : stack[i + 1] \in Dependencies(stack[i])
  BY <1>n DEF StackInv
<1>4. /\ Len(stack') = n - 1 /\ stack' \in Seq(Def \cup {None})
      /\ \A i \in 1 .. n - 1 : stack'[i] = stack[i]
  BY <1>n, <1>1 DEF TypeOK
<1>5. /\ selected \subseteq Def /\ \A e : Dependencies(e) \subseteq selected
  BY DEF TypeOK, Dependencies
<1>6. /\ d \in selected /\ d \in Def /\ input[d] # None
      /\ states[d] = "visiting" /\ d \notin Done
  <2>1. d \in selected /\ d \in Def /\ input[d] # None
    BY <1>2, <1>3, <1>5
  <2>2. states[d] = "visiting"
    BY <1>n, <1>2, <2>1 DEF TypeOK
  <2> QED BY <2>1, <2>2 DEF Done
<1>7. Dependencies(d) \subseteq Done
  BY <1>1, <1>2, <1>3, <1>5 DEF Done
<1>8. /\ Substitute(input[d], bodies) = Expansion(d)
      /\ Substitute(input[d], bodies) \in Body
  <2>1. input[d] \in Body /\ bodies \in [Def -> Body \cup {None}]
    BY <1>6 DEF TypeOK
  <2> QED BY <1>6, <1>7, <2>1, SubstituteExpands, SubstituteType
<1> HIDE DEF d
<1>9. /\ input' = input /\ selected' = selected
      /\ bodies' \in [Def -> Body \cup {None}]
      /\ bodies'[d] = Expansion(d) /\ bodies'[d] # None
      /\ \A e \in Def : e # d => bodies'[e] = bodies[e]
  BY <1>1, <1>6, <1>8, NoneAssumption DEF TypeOK, program
<1>10. /\ states' \in [Def -> {"new", "visiting", "done"}] /\ states'[d] = "done"
       /\ \A e \in Def : e # d => states'[e] = states[e]
       /\ Done' = Done \cup {d}
  BY <1>1, <1>6 DEF TypeOK, Done
<1>11. TypeOK'
  <2>1. \A i, j \in 1 .. Len(stack') : stack'[i] = stack'[j] => i = j
    BY <1>2, <1>4
  <2>2. ASSUME NEW e \in Def
        PROVE  (states'[e] = "visiting") <=> (\E i \in 2 .. Len(stack') : stack'[i] = e)
    <3>1. (states[e] = "visiting") <=> (\E i \in 2 .. n : stack[i] = e)
      BY <1>n DEF TypeOK
    <3>2. (\E i \in 2 .. n : stack[i] = e)
             <=> (e = d \/ \E i \in 2 .. n - 1 : stack'[i] = e)
      BY <1>2, <1>4
    <3>3. \A i \in 2 .. n - 1 : stack'[i] # d
      BY <1>2, <1>4
    <3> QED BY <1>4, <1>10, <3>1, <3>2, <3>3
  <2>3. \A e \in Def : (states'[e] = "done") <=> (bodies'[e] # None)
    BY <1>9, <1>10 DEF TypeOK
  <2>4. stack' \in Seq(Def \cup {None}) /\ Len(stack') > 0 /\ stack'[1] = None
    BY <1>2, <1>4
  <2> QED BY <1>1, <1>9, <1>10, <2>1, <2>2, <2>3, <2>4 DEF TypeOK, program, theory
<1>12. StackInv'
  <2>1. todo' = todo
    BY <1>1
  <2>2. ASSUME NEW i \in 1 .. n - 1,
               NEW e \in IF i = 1 THEN selected ELSE Dependencies(stack'[i])
        PROVE  \/ states'[e] = "done"
               \/ e \in todo[stack'[i]]
               \/ i < n - 1 /\ e = stack'[i + 1]
    <3>1. /\ stack'[i] = stack[i] /\ e \in Def
          /\ \/ states[e] = "done"
             \/ e \in todo[stack[i]]
             \/ e = stack[i + 1]
      BY <1>3, <1>4, <1>5
    <3>2. CASE i + 1 = n
      BY <1>2, <1>10, <3>1, <3>2
    <3>3. CASE i + 1 < n
      <4>1. stack'[i + 1] = stack[i + 1]
        BY <1>4, <3>3
      <4> QED BY <1>10, <3>1, <3>3, <4>1
    <3> QED BY <3>2, <3>3
  <2>3. \A i \in 2 .. n - 1 :
          /\ stack'[i] \in selected
          /\ todo[stack'[i]] \subseteq Dependencies(stack'[i])
          /\ input[stack'[i]] # None
    BY <1>3, <1>4
  <2>4. \A i \in 2 .. n - 2 : stack'[i + 1] \in Dependencies(stack'[i])
    BY <1>3, <1>4
  <2> QED BY <1>3, <1>4, <1>9, <2>1, <2>2, <2>3, <2>4 DEF StackInv, Dependencies
<1>13. DoneInv'
  <2>1. ~Cyclic(Done \cup {d})
    BY <1>6, <1>7, DoneStaysAcyclic
  <2>2. ~Cyclic(Done')
    BY <1>10, <2>1
  <2>3. /\ Done' \subseteq selected
        /\ \A e \in Done' : input[e] # None /\ Dependencies(e) \subseteq Done'
        /\ \A e \in Done' : bodies'[e] = Expansion(e)
    BY <1>5, <1>6, <1>7, <1>9, <1>10 DEF DoneInv
  <2>4. /\ \A e : Dependencies(e)' = Dependencies(e)
        /\ \A e : Expansion(e)' = Expansion(e)
    BY <1>1, ProgramStays
  <2>5. ~Cyclic(Done)'
    BY <1>9, <2>2 DEF Cyclic
  <2> QED BY <1>9, <2>3, <2>4, <2>5 DEF DoneInv
<1>14. EndInv'
  BY <1>1 DEF EndInv, CyclesAreReported, ResultIsExpansion
<1> QED BY <1>11, <1>12, <1>13, <1>14

\* The loop over the selection is over: all of it is done.
LEMMA RewriteStep ==
  ASSUME Inv, Rewrite
  PROVE  Inv'
<1> USE DEF Inv
<1>1. /\ Len(stack) = 1 /\ todo[Top] = {} /\ phase' = "remove"
      /\ output' = [d \in Def |->
                      CASE d \in selected -> bodies[d]
                        [] d \notin selected /\ input[d] = None -> None
                        [] OTHER -> Substitute(input[d], bodies)]
      /\ UNCHANGED <<program, declared, named, stack, todo, states, bodies>>
  BY DEF Rewrite
<1>2. selected \subseteq Done /\ Done \subseteq selected
  BY <1>1 DEF StackInv, TypeOK, DoneInv, Done, Top
<1>3. Done = selected /\ \A d \in selected : input[d] # None
  BY <1>2 DEF DoneInv
<1>4. ASSUME NEW d \in Def, input[d] # None
      PROVE  /\ Substitute(input[d], bodies) = Expansion(d)
             /\ Substitute(input[d], bodies) \in Body
  <2>1. input[d] \in Body /\ bodies \in [Def -> Body \cup {None}]
    BY <1>4 DEF TypeOK
  <2>2. Dependencies(d) \subseteq Done
    BY <1>2 DEF Dependencies
  <2> QED BY <1>4, <2>1, <2>2, SubstituteExpands, SubstituteType
<1>5. ASSUME NEW d \in Def
      PROVE  /\ output'[d] \in Body \cup {None}
             /\ input[d] = None => output'[d] = None
             /\ input[d] # None => output'[d] = Expansion(d)
  <2>1. CASE d \in selected
    BY <1>1, <1>3, <2>1 DEF DoneInv, TypeOK
  <2>2. CASE d \notin selected /\ input[d] = None
    BY <1>1, <2>2
  <2>3. CASE d \notin selected /\ input[d] # None
    <3>1. output'[d] = Substitute(input[d], bodies)
      BY <1>1, <2>3
    <3> QED BY <1>4, <2>3, <3>1
  <2> QED BY <2>1, <2>2, <2>3
<1>6. TypeOK'
  <2>1. output' \in [Def -> Body \cup {None}]
    <3>1. output' = [d \in Def |-> output'[d]]
      BY <1>1
    <3> QED BY <1>5, <3>1
  <2>2. /\ UNCHANGED <<program, declared, named, stack, todo, states, bodies>>
        /\ phase' = "remove"
    BY <1>1
  <2> QED BY <2>1, <2>2, ZenonT(60) DEF TypeOK, program
<1>7. StackInv'
  BY <1>1 DEF StackInv, Dependencies, program
<1>8. DoneInv'
  BY <1>1, ProgramStays DEF DoneInv, Done, program
<1>9. EndInv'
  <2>1. ~Cyclic(selected)
    BY <1>3 DEF DoneInv
  <2>2. CyclesAreReported'
    BY <1>1, <1>3, <2>1 DEF CyclesAreReported, Cyclic, program
  <2>3. ResultIsExpansion'
    BY <1>1, <1>5, ProgramStays DEF ResultIsExpansion, program
  <2> QED BY <1>1, <1>2, <2>2, <2>3 DEF EndInv, Done, program
<1> QED BY <1>6, <1>7, <1>8, <1>9

LEMMA RemoveStep ==
  ASSUME Inv, Remove
  PROVE  Inv'
<1> USE DEF Inv
<1>1. /\ phase = "remove" /\ phase' = "done"
      /\ declared' \subseteq declared /\ named' \subseteq named
      /\ UNCHANGED <<program, stack, todo, states, bodies, output>>
  BY DEF Remove
<1>2. TypeOK'
  BY <1>1 DEF TypeOK, program
<1>3. StackInv'
  BY <1>1 DEF StackInv, Dependencies, program
<1>4. DoneInv'
  BY <1>1, ProgramStays DEF DoneInv, Done, program
<1>5. EndInv'
  BY <1>1, ProgramStays
     DEF EndInv, CyclesAreReported, ResultIsExpansion, Done, Cyclic, program
<1> QED BY <1>2, <1>3, <1>4, <1>5

LEMMA InitInv ==
  ASSUME Init
  PROVE  Inv
<1>1. /\ stack = <<None>> /\ todo = [d \in Def \cup {None} |-> IF d = None THEN selected ELSE {}]
      /\ Len(stack) = 1 /\ stack[1] = None /\ phase = "collect"
  BY DEF Init
<1>2. TypeOK
  <2>1. stack \in Seq(Def \cup {None})
    BY <1>1
  <2>2. todo \in [Def \cup {None} -> SUBSET Def]
    BY <1>1 DEF Init
  <2>3. /\ states \in [Def -> {"new", "visiting", "done"}]
        /\ \A d \in Def : states[d] = "new"
        /\ bodies \in [Def -> Body \cup {None}]
        /\ \A d \in Def : bodies[d] = None
    BY DEF Init
  <2>4. /\ input \in [Def -> Body \cup {None}] /\ output = input
        /\ selected \subseteq Def /\ declared = Def /\ named = Def
        /\ elsewhere \in [calls : SUBSET Nameable, names : SUBSET Nameable]
    BY DEF Init
  <2> QED BY <1>1, <2>1, <2>2, <2>3, <2>4 DEF TypeOK
<1>3. StackInv
  <2>1. todo[None] = selected
    BY <1>1
  <2>2. /\ \A i \in 1 .. Len(stack) : i = 1 /\ stack[i] = None
        /\ 2 .. Len(stack) = {} /\ 2 .. Len(stack) - 1 = {}
    BY <1>1
  <2> QED BY <2>1, <2>2 DEF StackInv
<1>4. DoneInv
  <2>1. Done = {}
    BY DEF Init, Done
  <2> QED BY <2>1 DEF DoneInv, Cyclic
<1>5. EndInv
  BY <1>1 DEF EndInv, CyclesAreReported, ResultIsExpansion
<1> QED BY <1>2, <1>3, <1>4, <1>5 DEF Inv

LEMMA NextInv ==
  ASSUME Inv, [Next]_vars
  PROVE  Inv'
<1>1. ASSUME NEW d \in Def, Skip(d) \/ FindCycle(d) \/ FindMissing(d) \/ Visit(d)
      PROVE  Inv'
  BY <1>1, SkipStep, FindCycleStep, FindMissingStep, VisitStep
<1>2. CASE Leave
  BY <1>2, LeaveStep
<1>3. CASE Rewrite
  BY <1>3, RewriteStep
<1>4. CASE Remove
  BY <1>4, RemoveStep
<1>5. CASE UNCHANGED vars
  <2>1. UNCHANGED <<program, stack, todo, states, bodies, output, declared, named, phase>>
    BY <1>5 DEF vars, program
  <2>2. TypeOK'
    BY <2>1 DEF Inv, TypeOK, program
  <2>3. StackInv'
    BY <2>1 DEF Inv, StackInv, Dependencies, program
  <2>4. DoneInv'
    BY <2>1, ProgramStays DEF Inv, DoneInv, Done, program
  <2>5. EndInv'
    BY <2>1, ProgramStays
       DEF Inv, EndInv, CyclesAreReported, ResultIsExpansion, Done, Cyclic, program
  <2> QED BY <2>2, <2>3, <2>4, <2>5 DEF Inv
<1> QED BY <1>1, <1>2, <1>3, <1>4, <1>5 DEF Next, Returned

\* The inductive invariant holds throughout.
THEOREM Invariant == Spec => []Inv
BY InitInv, NextInv, PTL DEF Spec

-----------------------------------------------------------------------------
(***************************************************************************)
(* What the pass promises.                                                 *)
(***************************************************************************)

\* Visiting means to be on the stack of collect_inline_body.
THEOREM Types == Spec => []TypeOK
<1>1. Inv => TypeOK
  BY DEF Inv
<1> QED BY <1>1, Invariant, PTL

\* collect_inline_body reports a cycle or a missing definition exactly when
\* there is one, whatever the order in which it visits the selection.
THEOREM Cycles == Spec => []CyclesAreReported
<1>1. Inv => CyclesAreReported
  BY DEF Inv, EndInv
<1> QED BY <1>1, Invariant, PTL

\* Substituting bottom-up expands every definition in full.
THEOREM Expands == Spec => []ResultIsExpansion
<1>1. Inv => ResultIsExpansion
  BY DEF Inv, EndInv
<1> QED BY <1>1, Invariant, PTL

\* What the passes after this one find: no body calls a selected definition.
THEOREM NothingSelectedIsCalled ==
  Spec => [](phase = "done" =>
               \A d \in Def : output[d] # None => output[d].calls \cap selected = {})
<1>1. \A d : Expansion(d).calls \cap selected = {}
  BY DEF Expansion
<1>2. Inv => (phase = "done" =>
                \A d \in Def : output[d] # None => output[d].calls \cap selected = {})
  BY <1>1 DEF Inv, EndInv, ResultIsExpansion
<1> QED BY <1>2, Invariant, PTL

\* Everything is declared until the pass removes what nothing refers to.
DeclaredInv ==
  /\ phase # "done" => declared = Def /\ named = Def
  /\ NothingDangles

LEMMA DeclaredNext ==
  ASSUME TypeOK, DeclaredInv, [Next]_vars
  PROVE  DeclaredInv'
<1>1. CASE Remove
  <2>1. /\ phase = "remove" /\ phase' = "done" /\ declared = Def /\ named = Def
        /\ output' = output /\ elsewhere' = elsewhere
        /\ declared' = declared \ (selected \ {d \in selected : Referenced(d)})
        /\ named' = named \ (selected \ {d \in selected : Referenced(d)})
    BY <1>1 DEF Remove, DeclaredInv, program
  <2>2. \A b \in Present' : /\ b \in Present
                            /\ b.calls \subseteq Def /\ b.names \subseteq Def
    <3>1. ASSUME NEW d \in Def, output[d] # None
          PROVE  output[d].calls \subseteq Def /\ output[d].names \subseteq Def
      BY <3>1, DefAssumption DEF TypeOK, Body
    <3>2. elsewhere.calls \subseteq Def /\ elsewhere.names \subseteq Def
      BY DefAssumption DEF TypeOK
    <3> QED BY <2>1, <3>1, <3>2 DEF Present
  <2>3. \A b \in Present' : b.calls \subseteq declared' /\ b.names \subseteq named'
    BY <2>1, <2>2 DEF Referenced
  <2> QED BY <2>1, <2>3 DEF DeclaredInv, NothingDangles
<1>2. CASE \E d \in Def : Skip(d) \/ FindCycle(d) \/ FindMissing(d) \/ Visit(d)
  BY <1>2 DEF Skip, FindCycle, FindMissing, Visit, Comes, theory, DeclaredInv, NothingDangles
<1>3. CASE Leave \/ Rewrite
  BY <1>3 DEF Leave, Rewrite, theory, DeclaredInv, NothingDangles
<1>4. CASE UNCHANGED vars
  BY <1>4 DEF vars, DeclaredInv, NothingDangles, Present
<1> QED BY <1>1, <1>2, <1>3, <1>4 DEF Next, Returned

\* No reference is left without its declaration, in this theory or another.
THEOREM Declared == Spec => []NothingDangles
<1>1. Init => DeclaredInv
  BY DEF Init, DeclaredInv, NothingDangles
<1>2. TypeOK /\ DeclaredInv /\ [Next]_vars => DeclaredInv'
  BY DeclaredNext
<1>3. DeclaredInv => NothingDangles
  BY DEF DeclaredInv
<1> QED BY <1>1, <1>2, <1>3, Types, PTL DEF Spec
=============================================================================
