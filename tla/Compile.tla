------------------------------- MODULE Compile -------------------------------
(***************************************************************************)
(* compile_with_progress (compile.rs), from the theories of a program to   *)
(* the terms that code generation gets: elaboration, type checking, the    *)
(* inlining of definitions with closures at their boundary, and the passes *)
(* that forget closures, record sizes and unpack products.                 *)
(*                                                                         *)
(* Terms that still have a closure when closures are forgotten go through  *)
(* closure conversion, which ClosureConversion models; they are left out   *)
(* from there on, and the others are as they were.  Inlining is its        *)
(* result, the expansion that InlineDefinitions reaches step by step.      *)
(* TypeOf stands for metacat's check of programs that can be typed from    *)
(* their inputs to their outputs.                                          *)
(***************************************************************************)
EXTENDS Elaboration, ClosureFunctor

VARIABLE terms   \* of each theory of terms, its definitions so far

vars == <<elaborationVars, terms>>

-----------------------------------------------------------------------------
\* Types.

Leaves(c) == [i \in 1..c |-> Leaf(i)]

\* The objects of the targets of a type map on metavariables.
Objects(map, context) ==
  LET result(e, known, n) ==
        Node(e.n, (CHOOSE i \in DOMAIN e.tgt : e.tgt[i] = n) - 1,
             [i \in DOMAIN e.src |-> known[e.src[i]]])
      step(known, e) == known @@ [n \in Range(e.tgt) |-> result(e, known, n)]
      begin == [n \in Range(map.sources) |->
                  context[CHOOSE i \in DOMAIN map.sources : map.sources[i] = n]]
      listed(known) == [i \in DOMAIN map.targets |-> known[map.targets[i]]]
  IN listed(FoldLeft(step, begin, map.edges))

\* The objects that metavariables of the pattern p have in o, 0 for a difference.
RECURSIVE Bindings(_, _)
Bindings(p, o) ==
  CASE p.k = Op("leaf") -> {<<p.i, o>>}
    [] p.k = o.k /\ p.i = o.i /\ Len(p.a) = Len(o.a) ->
         UNION {Bindings(p.a[i], o.a[i]) : i \in DOMAIN p.a}
    [] OTHER -> {<<0, o>>}

\* What an arrow makes of inputs: an ill-typed use has no results.
ResultsOf(arrow, inputs) ==
  LET c == Context(arrow)
      patterns == Objects(SourceMap(arrow), Leaves(c))
      solved(found) ==
        IF {b[1] : b \in found} = 1..c /\ Cardinality(found) = c
        THEN <<Objects(TargetMap(arrow), [i \in 1..c |-> (CHOOSE b \in found : b[1] = i)[2]])>>
        ELSE <<>>
  IN IF Len(patterns) # Len(inputs) THEN <<>>
     ELSE solved(UNION {Bindings(patterns[i], inputs[i]) : i \in DOMAIN inputs})

\* The term body of arrow labelled with types, or nothing if it has none.
TypeOf(arrows, arrow, body) ==
  LET source == Objects(SourceMap(arrow), Leaves(Context(arrow)))
      target == Objects(TargetMap(arrow), Leaves(Context(arrow)))
      labelled(known, e, results) ==
        IF results = <<>> \/ known = <<>> THEN <<>>
        ELSE <<known[1] @@ [n \in Range(e.tgt) |->
                              results[1][CHOOSE i \in DOMAIN e.tgt : e.tgt[i] = n]]>>
      step(known, e) ==
        labelled(known, e,
                 IF known = <<>> THEN <<>>
                 ELSE ResultsOf(arrows[e.n], [i \in DOMAIN e.src |-> known[1][e.src[i]]]))
      ended(known) ==
        IF known # <<>> /\ [i \in DOMAIN body.targets |-> known[1][body.targets[i]]] = target
        THEN <<[body EXCEPT !.labels = known[1]]>> ELSE <<>>
  IN ended(FoldLeft(step, <<[n \in Range(body.sources) |->
                               source[CHOOSE i \in DOMAIN body.sources : body.sources[i] = n]]>>,
                    body.edges))

-----------------------------------------------------------------------------
\* Passes.

Init == ElaborationInit /\ terms = <<>>

Elaboration == Elaborate /\ UNCHANGED terms

\* TheorySet::from_raw: every operation is declared.
Undeclared(t, o) ==
  LET arrow == raw[t].arrows[o]
  IN \/ ~(InMaps(arrow) \subseteq DOMAIN raw[raw[t].syntax].arrows)
     \/ ~(InDefinition(arrow) \subseteq DOMAIN raw[t].arrows)

Defined(t) == {o \in DOMAIN raw[t].arrows : raw[t].arrows[o].def # <<>>}
Bodies == [t \in Above |-> [o \in Defined(t) |-> raw[t].arrows[o].def[1]]]

Interpret ==
  /\ stage = "elaborated"
  /\ IF \E t \in Above : \E o \in DOMAIN raw[t].arrows : Undeclared(t, o)
     THEN Refuse("Load") /\ UNCHANGED <<terms, uses, sourceVars>>
     ELSE /\ stage' = "typecheck"
          /\ terms' = Bodies
          /\ UNCHANGED <<given, raw, uses, error, sourceVars>>

\* All of terms with the types that check finds.
CheckedTerms ==
  [t \in DOMAIN terms |->
     [o \in DOMAIN terms[t] |-> TypeOf(raw[t].arrows, raw[t].arrows[o], terms[t][o])]]

Check(then) ==
  LET put(checked) ==
        IF \E t \in DOMAIN checked : \E o \in DOMAIN checked[t] : checked[t][o] = <<>>
        THEN Refuse("Check") /\ UNCHANGED <<terms, uses, sourceVars>>
        ELSE /\ terms' = [t \in DOMAIN checked |-> [o \in DOMAIN checked[t] |-> checked[t][o][1]]]
             /\ stage' = then
             /\ UNCHANGED <<given, raw, uses, error, sourceVars>>
  IN put(CheckedTerms)

Typecheck == stage = "typecheck" /\ Check("inline definitions")
TypecheckInlined == stage = "typecheck inlined" /\ Check("forget closures")

\* One of the passes, from here to there.
Pass(here, there, after) ==
  /\ stage = here
  /\ terms' = after
  /\ stage' = there
  /\ UNCHANGED <<given, raw, uses, error, sourceVars>>

\* closure_boundary_definitions.
ClosureBoundary(arrow) == Op("=>") \in InMaps(arrow)
Selected(t) == {o \in DOMAIN terms[t] : ClosureBoundary(raw[t].arrows[o])}

RECURSIVE Expanded(_, _)
Expanded(t, o) ==
  LET inserted(edge, src, tgt) ==
        IF edge.n \in Selected(t) THEN Expanded(t, edge.n) ELSE Singleton(edge.k, edge.n, src, tgt)
  IN Mapped(terms[t][o], LAMBDA x : <<x>>, inserted)

\* A selected definition stays if a body of any theory still refers to it.
Retained(bodies, t) ==
  LET isReferenced(o) ==
        \E u \in DOMAIN bodies : \E f \in DOMAIN bodies[u] :
          {o, NameOf(o)} \cap Operations(bodies[u][f]) # {}
  IN {o \in DOMAIN bodies[t] : o \in Selected(t) => isReferenced(o)}

InlineDefinitions ==
  LET bodies == [t \in DOMAIN terms |-> [o \in DOMAIN terms[t] |-> Expanded(t, o)]]
  IN Pass("inline definitions", "typecheck inlined",
          [t \in DOMAIN bodies |-> [o \in Retained(bodies, t) |-> bodies[t][o]]])

\* map(x) of each of the terms.
Each(map(_)) == [t \in DOMAIN terms |-> [o \in DOMAIN terms[t] |-> map(terms[t][o])]]

Forget == Pass("forget closures", "closure conversion", Each(ForgetClosures))

ClosureFree(t, o) == ~ClosureBoundary(raw[t].arrows[o]) /\ OfKind(terms[t][o], "marker") = {}

Convert ==
  Pass("closure conversion", "record boundary sizes",
       [t \in DOMAIN terms |->
          [o \in {f \in DOMAIN terms[t] : ClosureFree(t, f)} |-> terms[t][o]]])

RecordSizes ==
  Pass("record boundary sizes", "unpack products", Each(RecordBoundarySizes))

Unpack == Pass("unpack products", "compiled", Each(UnpackProducts))

Finished == stage \in {"compiled", "refused"} /\ UNCHANGED vars

Next ==
  \/ Elaboration \/ Interpret \/ Typecheck \/ InlineDefinitions \/ TypecheckInlined
  \/ Forget \/ Convert \/ RecordSizes \/ Unpack \/ Finished

Spec == Init /\ [][Next]_vars
=============================================================================
