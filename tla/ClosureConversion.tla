-------------------------- MODULE ClosureConversion --------------------------
(***************************************************************************)
(* closure/region_conversion.rs with what it calls in region.rs,           *)
(* schedule.rs, definition.rs and replace.rs, then the end of closure/     *)
(* mod.rs: the closures of a definition are cut out of its graph one at a  *)
(* time, each becoming a generated function and, where it was made, the    *)
(* pair of its packed captures and a pointer to that function.             *)
(*                                                                         *)
(* A term is a hypergraph: edges in order, a label per node ("closure" for *)
(* a type with a => in it, "static" for a type parameter, "value" for the  *)
(* rest), and its boundary.  An edge has a kind k, which is "op",          *)
(* "converted" (the environment-aware form of a primitive), "eval",        *)
(* "name", "closure" (the name of a generated function), "marker",         *)
(* "context" or "call", and a name n: that of the operation, or the        *)
(* identifier of the generated function.  Nodes and edges are renumbered   *)
(* by the code after every replacement; here a node keeps its number, and  *)
(* nodes that are new have higher ones.                                    *)
(*                                                                         *)
(* One definition is converted: definitions share the counter of generated *)
(* functions and nothing else, and are converted one after the other.      *)
(***************************************************************************)
EXTENDS Hypergraph

CONSTANTS
  Terms,        \* closure-forgotten terms of definitions
  Primitives    \* CONVERTED_PRIMITIVES

-----------------------------------------------------------------------------
\* Graphs.

Markers(t) == OfKind(t, "marker")
Names(t) == OfKind(t, "name") \cup OfKind(t, "closure")
Ordinary(t) == EdgesOf(t) \ Markers(t)

\* A term of any number of edges, whose nodes have labels.
IsTerm(t) ==
  /\ t.labels \in [DOMAIN t.labels -> {"value", "closure", "static"}]
  /\ DOMAIN t.labels \subseteq Nat
  /\ Range(t.sources) \cup Range(t.targets) \cup Produced(t, EdgesOf(t))
       \cup Consumed(t, EdgesOf(t)) \subseteq DOMAIN t.labels

(***************************************************************************)
(* A term as forgetting closures leaves it: an eval has its argument and   *)
(* its function, and each marker made the node of its closure (it is the   *)
(* end of an adapter).  "pack" is what the pass packs an environment by.   *)
(***************************************************************************)
IsForgotten(t) ==
  LET nodes == DOMAIN t.labels
  IN /\ IsFiniteSet(nodes) /\ IsTerm(t)
     /\ t \in [edges : Seq([k : {"op", "eval", "name", "marker"}, n : STRING,
                             src : Seq(nodes), tgt : Seq(nodes)]),
               labels : {t.labels}, sources : Seq(nodes), targets : Seq(nodes)]
     /\ \A e \in EdgesOf(t) : /\ t.edges[e].k = "op" => t.edges[e].n # "pack"
                              /\ t.edges[e].k = "eval" => Len(t.edges[e].src) = 2
     /\ \A m \in Markers(t) : \A e \in EdgesOf(t) \ {m} : Targets(t, m) \cap Targets(t, e) = {}

ASSUME TermsAssumption == \A t \in Terms : IsForgotten(t)

\* The arguments of the closures, which nothing makes: they are made for the
\* body of the generated function to have.
Domains(t) == {t.edges[m].src[1] : m \in Markers(t)}

(***************************************************************************)
(* More that the passes before leave, which some theorems start from.      *)
(* Every wire is made once and is given or made, but for type parameters;  *)
(* a name has only type parameters, and a marker makes a closure.          *)
(***************************************************************************)
Inputs(t) == Range(t.sources) \cup Domains(t)
Used(t) == Consumed(t, EdgesOf(t)) \cup Range(t.targets)
HasSupply(t, n) == n \in Inputs(t) \cup Produced(t, EdgesOf(t)) \/ t.labels[n] = "static"

IsSupplied(t) ==
  /\ \A e, f \in EdgesOf(t) : e # f => Targets(t, e) \cap Targets(t, f) = {}
  /\ Inputs(t) \cap Produced(t, EdgesOf(t)) = {}
  /\ \A n \in Used(t) : HasSupply(t, n)

IsWired(t) ==
  /\ IsSupplied(t)
  /\ \A n \in Consumed(t, Names(t)) : t.labels[n] = "static"
  /\ \A n \in Produced(t, Markers(t)) : t.labels[n] = "closure"

\* An eval has no closure, and a pointer that is called is used for nothing else.
PointersAreCalled(t) ==
  \A v \in OfKind(t, "eval") :
    /\ Sources(t, v) \cap Produced(t, Markers(t)) = {}
    /\ \A m \in Names(t) : t.edges[v].src[2] \in Targets(t, m) =>
         /\ Targets(t, m) \cap Range(t.targets) = {}
         /\ \A e \in EdgesOf(t) : Targets(t, m) \cap Sources(t, e) # {} =>
              t.edges[e].k = "eval" /\ t.edges[e].src[1] \notin Targets(t, m)

\* Closures are made by markers, are no arguments of closures or names, and are
\* what primitives take.
ClosuresAreMarked(t) ==
  /\ \A n \in DOMAIN t.labels : t.labels[n] = "closure" =>
       n \in Produced(t, Markers(t)) \ (Domains(t) \cup Consumed(t, Names(t)))
  /\ \A e \in OfKind(t, "op") : t.edges[e].n \in Primitives =>
       \E n \in Sources(t, e) : t.labels[n] = "closure"

TermsAreWired == \A t \in Terms : IsWired(t) /\ PointersAreCalled(t)
TermsAreMarked == \A t \in Terms : ClosuresAreMarked(t)

VARIABLES
  original,     \* the term that is converted
  term,         \* the term as it is now
  regions,      \* discovered_regions, those of term
  functions,    \* generated functions, in the order of their identifiers
  status        \* "discovering" or "scheduling", then "done"

vars == <<original, term, regions, functions, status>>

\* Ordinary edges that use what an edge makes, and that make what it uses.
After(t) == {s \in Ordinary(t) \X Ordinary(t) :
               Targets(t, s[1]) \cap Sources(t, s[2]) # {}}
Before(t) == {<<s[2], s[1]>> : s \in After(t)}

-----------------------------------------------------------------------------
\* Regions.

Forward(t, n) == Reached(After(t), {e \in Ordinary(t) : n \in Sources(t, e)})
Backward(t, n) == Reached(Before(t), {e \in Ordinary(t) : n \in Targets(t, e)})

IsDiscardSink(t, e) ==
  \/ Targets(t, e) = {}
  \/ \E n \in Targets(t, e) : /\ n \notin Range(t.targets)
                              /\ n \notin Consumed(t, EdgesOf(t))

DiscardTerminated(t, E) == Reached(Before(t), {e \in E : IsDiscardSink(t, e)})

\* Mutant: the names of the functions that are called stay outside.
NamedDependenciesOutside(t, E) == E

NamedDependencies(t, E) ==
  Reached({s \in Before(t) : s[2] \in Names(t)}, E)

\* What E uses and edges do not make.
Free(t, edges, E) == Consumed(t, E) \ Produced(t, edges)

\* environment_nodes: the captured values, with context those of the names. A
\* closure of a deferred value has no path, and captures its codomain.
EnvironmentNodes(t, edges, domain, codomain, context) ==
  ((Free(t, edges, edges) \ {domain}) \ context)
    \cup ({codomain} \ ({domain} \cup Produced(t, edges)))

FindRegion(t, marker) ==
  LET domain == t.edges[marker].src[1]
      codomain == t.edges[marker].src[2]
      forward == Forward(t, domain)
      path == forward \cap (Backward(t, codomain) \cup DiscardTerminated(t, forward))
      edges == NamedDependencies(t, path)
      context == Free(t, edges, edges \cap Names(t))
      environment == EnvironmentNodes(t, edges, domain, codomain, context)
  IN [marker |-> marker, domain |-> domain, codomain |-> codomain,
      closure |-> t.edges[marker].tgt[1], edges |-> edges,
      context |-> context, environment |-> environment,
      nodes |-> {domain, codomain} \cup environment \cup context
                  \cup Produced(t, edges) \cup Consumed(t, edges)]

InvalidMarker(t) ==
  \E e \in Markers(t) : Len(t.edges[e].src) # 2 \/ Len(t.edges[e].tgt) # 1

-----------------------------------------------------------------------------
\* Which regions wait for which.

Outside(r) == r.environment \cup r.context
Internal(r) == (r.nodes \ Outside(r)) \ {r.closure}

Captures(r, q) == q.closure \in r.environment
Encloses(r, q) == {q.domain, q.codomain} \cap Internal(r) # {}

\* Ordinary edges of nobody or of other regions that touch an internal node.
Foreign(t, r) ==
  {e \in Ordinary(t) \ r.edges : Incident(t, e) \cap Internal(r) # {}}

Owners(R, r, e) == {q \in R \ {r} : e \in q.edges}

\* Mutant: the closures whose type parameters are made in r are not awaited.
NoContextPrerequisites(t, R, r, e) == {}

ContextPrerequisites(t, R, r, e) ==
  {q \in R \ {r} : q.context \cap Produced(t, Reached(After(t), {e})) # {}}

Prerequisites(t, R, r) ==
  {q \in R \ {r} : Captures(r, q) \/ Encloses(r, q)}
    \cup UNION {IF Owners(R, r, e) # {} THEN Owners(R, r, e)
                ELSE ContextPrerequisites(t, R, r, e) : e \in Foreign(t, r)}

\* The assertion of analyze.
Escapes(t, R) ==
  \E r \in R : \E e \in Foreign(t, r) :
    Owners(R, r, e) = {} /\ ContextPrerequisites(t, R, r, e) = {}

Ready(t, R) == {r \in R : Prerequisites(t, R, r) = {}}
FirstInOrder(R) == CHOOSE r \in R : \A q \in R : r.marker <= q.marker

-----------------------------------------------------------------------------
\* The generated function.

\* The name.f that an eval of the region calls.
NameOf(t, r, eval) ==
  {e \in r.edges \cap Names(t) : t.edges[eval].src[2] \in Targets(t, e)}

Evals(t, r) == r.edges \cap OfKind(t, "eval")

\* EvalWithoutName: named_calls finds no name.f for the pointer, or
\* inline_named_call not one argument before it and one result.  An eval whose
\* argument was a closure has three sources once that closure is converted.
HasUnnamedEval(t, r) ==
  \E e \in Evals(t, r) :
    \/ NameOf(t, r, e) = {}
    \/ Len(t.edges[e].src) # 2
    \/ Len(t.edges[e].tgt) # 1

\* Mutant: operations without a result are taken for useless.
CopiedUnlessDiscards(t, r) ==
  {e \in r.edges : Targets(t, e) # {}} \ UNION {NameOf(t, r, e) \cup {e} : e \in Evals(t, r)}

\* The edges that are copied; the others become calls.
Copied(t, r) ==
  r.edges \ UNION {NameOf(t, r, e) \cup {e} : e \in Evals(t, r)}

(***************************************************************************)
(* build_body: the edges of the region, a name.f and its eval being the    *)
(* call of f again.  The sources are the components of the environment,    *)
(* which the function unpacks first, and the argument of the closure.      *)
(***************************************************************************)
BuildBody(t, r) ==
  LET name(e) == Min(NameOf(t, r, e))
      call(e) == Edge("call", t.edges[name(e)].n,
                      <<t.edges[e].src[1]>>, t.edges[e].tgt)
      calls == Ascending(Evals(t, r))
      copied == Ascending(Copied(t, r))
      edges == [i \in DOMAIN copied |-> t.edges[copied[i]]]
                 \o [i \in DOMAIN calls |-> call(calls[i])]
      boundary == Append(Ascending(r.environment), r.domain)
      required == Range(boundary) \cup {r.codomain}
                    \cup UNION {Range(e.src) \cup Range(e.tgt) : e \in Range(edges)}
  IN [edges |-> edges, labels |-> [n \in required |-> t.labels[n]],
      sources |-> boundary, targets |-> <<r.codomain>>]

-----------------------------------------------------------------------------
\* The replacement.

\* Nodes of the region that go, the closure among them.
Deleted(r) == (r.nodes \ Outside(r)) \cup {r.closure}

\* The edges that stay.
Kept(t, r) == EdgesOf(t) \ (r.edges \cup {r.marker})

\* remap_node: the boundary, an edge that stays or an input of the closure is
\* at a node that goes.  The closure itself has a replacement, as a source of
\* the term an empty one.
HasDeletedBoundary(t, r) ==
  LET gone == Deleted(r) \ {r.closure}
  IN \/ \E e \in Kept(t, r) : Incident(t, e) \cap gone # {}
     \/ (Range(t.sources) \cup Range(t.targets)) \cap gone # {}
     \/ r.closure \in Outside(r)

(***************************************************************************)
(* build_closure_value.  The captures and the static inputs pass through a *)
(* context projection, which makes copies of the captures, packed as the   *)
(* environment, and the type parameters that name.closure takes: here      *)
(* there is one parameter, and it is taken when a node of the body or an   *)
(* input of it depends on it.  Packing one capture is no operation.  The   *)
(* numbers above base are not in use.                                      *)
(***************************************************************************)
ClosureValue(t, r, id, base) ==
  LET captures == Ascending(r.environment)
      count == Len(captures)
      copies == [i \in 1..count |-> base + i]
      parameters == IF \E n \in r.nodes : t.labels[n] = "static"
                    THEN <<base + count + 1>> ELSE <<>>
      environment == IF count = 1 THEN base + 1 ELSE base + count + 2
      pointer == base + count + 3
      label(n) == IF n \in Range(copies) THEN t.labels[captures[n - base]]
                  ELSE IF n \in Range(parameters) THEN "static"
                  ELSE IF n = environment
                            /\ \E c \in r.environment : t.labels[c] = "closure"
                       THEN "closure" ELSE "value"
      new == Range(copies) \cup Range(parameters) \cup {environment, pointer}
  IN [edges |->
        <<Edge("context", id, captures \o Ascending(r.context), copies \o parameters)>>
        \o (IF count = 1 THEN <<>> ELSE <<Edge("op", "pack", copies, <<environment>>)>>)
        \o <<Edge("closure", id, parameters, <<pointer>>)>>,
      labels |-> [n \in new |-> label(n)],
      targets |-> <<environment, pointer>>]

\* expand_closure_node: the wires ns with those of a pair in the place of n.
Expanded(ns, n, pair) ==
  FlattenSeq([i \in DOMAIN ns |-> IF ns[i] = n THEN pair ELSE <<ns[i]>>])

\* splice_region: the term t with the value v in the place of the region r.
Spliced(t, r, v) ==
  LET expand(ns) == Expanded(ns, r.closure, v.targets)
      kept == Ascending(Kept(t, r))
  IN [edges |-> [i \in DOMAIN kept |-> [t.edges[kept[i]] EXCEPT !.src = expand(@),
                                                               !.tgt = expand(@)]]
                  \o v.edges,
      labels |-> [n \in (DOMAIN t.labels \ Deleted(r)) \cup DOMAIN v.labels |->
                    IF n \in DOMAIN v.labels THEN v.labels[n] ELSE t.labels[n]],
      sources |-> Picked(t.sources, {i \in DOMAIN t.sources : t.sources[i] # r.closure}),
      targets |-> expand(t.targets)]

\* Mutant: primitives wait for the end of the pass.
RewrittenLater(t) == t

\* rewrite_ready_converted_primitives
Rewritten(t) ==
  [t EXCEPT !.edges = [e \in DOMAIN @ |->
     IF /\ t.edges[e].k = "op"
        /\ t.edges[e].n \in Primitives
        /\ \A n \in Sources(t, e) : t.labels[n] # "closure"
     THEN [t.edges[e] EXCEPT !.k = "converted"] ELSE t.edges[e]]]

-----------------------------------------------------------------------------
\* The end of the pass.

\* rewrite_converted_primitives
Converted(t) ==
  [t EXCEPT !.edges = [e \in DOMAIN @ |->
     IF t.edges[e].k = "op" /\ t.edges[e].n \in Primitives
     THEN [t.edges[e] EXCEPT !.k = "converted"] ELSE t.edges[e]]]

\* Mutant: each target is wired to the first source of its type.
ContextWiresByType(t, e) ==
  LET src == t.edges[e].src
      tgt == t.edges[e].tgt
      like(i) == {j \in DOMAIN src : t.labels[src[j]] = t.labels[tgt[i]]}
      wired == Ascending({i \in DOMAIN tgt : like(i) # {}})
  IN [k \in DOMAIN wired |-> <<tgt[wired[k]], src[Min(like(wired[k]))]>>]

\* Mutant: the prefix ends one before the first disagreement.
ContextWiresOfShorterPrefix(t, e) ==
  LET src == t.edges[e].src
      tgt == t.edges[e].tgt
      same(i) == i \in DOMAIN src \cap DOMAIN tgt /\ t.labels[src[i]] = t.labels[tgt[i]]
      wired == Ascending({i \in DOMAIN tgt : \A j \in 1..(i + 1) : same(j)})
  IN [k \in DOMAIN wired |-> <<tgt[wired[k]], src[wired[k]]>>]

(***************************************************************************)
(* context::erase.  A projection becomes wires: as long as sources and     *)
(* targets agree each target is its source, and after that the first       *)
(* source of its type, which here is the type parameter, or nothing.       *)
(***************************************************************************)
ContextWires(t, e) ==
  LET src == t.edges[e].src
      tgt == t.edges[e].tgt
      same(i) == i \in DOMAIN src /\ t.labels[src[i]] = t.labels[tgt[i]]
      prefix(i) == \A j \in 1..i : same(j)
      static == {j \in DOMAIN src : t.labels[src[j]] = "static"}
      wired == Ascending({i \in DOMAIN tgt : prefix(i) \/ static # {}})
  IN [k \in DOMAIN wired |->
        <<tgt[wired[k]], IF prefix(wired[k]) THEN src[wired[k]] ELSE src[Min(static)]>>]

Erased(t) ==
  LET contexts == Ascending(OfKind(t, "context"))
  IN Quotient([t EXCEPT !.edges = Picked(@, EdgesOf(t) \ OfKind(t, "context"))],
              FlattenSeq([i \in DOMAIN contexts |-> ContextWires(t, contexts[i])]))

-----------------------------------------------------------------------------
\* The loop.

Init ==
  /\ original \in Terms
  /\ term = original
  /\ regions = {}
  /\ functions = <<>>
  /\ status = "discovering"

\* region::run
Discover ==
  /\ status = "discovering"
  /\ Markers(term) # {}
  /\ ~InvalidMarker(term)
  /\ regions' = {FindRegion(term, e) : e \in Markers(term)}
  /\ status' = "scheduling"
  /\ UNCHANGED <<original, term, functions>>

Selected == FirstInOrder(Ready(term, regions))

\* Numbers above this are not in use.
LastNode ==
  Max(DOMAIN term.labels \cup UNION {DOMAIN f.labels : f \in Range(functions)})

SelectedValue == ClosureValue(term, Selected, Len(functions), LastNode)

\* What analyze and require_ready_region assert.
Scheduled ==
  /\ status = "scheduling"
  /\ ~Escapes(term, regions)
  /\ Ready(term, regions) # {}

\* define_closure_and_name returns an error, and the pass with it.
Refuses == Scheduled /\ HasUnnamedEval(term, Selected)

\* An assertion fails, of the scheduler or of the replacement, and the pass stops.
Panics ==
  \/ status = "scheduling" /\ ~Scheduled
  \/ Scheduled /\ ~Refuses /\ HasDeletedBoundary(term, Selected)

\* Mutant: the regions are discovered once.
ConvertSnapshot ==
  /\ Scheduled
  /\ ~Refuses
  /\ ~Panics
  /\ functions' = Append(functions, BuildBody(term, Selected))
  /\ term' = Rewritten(Spliced(term, Selected, SelectedValue))
  /\ regions' = regions \ {Selected}
  /\ status' = IF regions' = {} THEN "discovering" ELSE status
  /\ UNCHANGED original

\* schedule_next_region, add_closure_and_name,
\* replace_region_with_closure_representation, rewrite_ready_converted_primitives
Convert ==
  /\ Scheduled
  /\ ~Refuses
  /\ ~Panics
  /\ functions' = Append(functions, BuildBody(term, Selected))
  /\ term' = Rewritten(Spliced(term, Selected, SelectedValue))
  /\ regions' = {}
  /\ status' = "discovering"
  /\ UNCHANGED original

\* build_rewritten_definitions, erase
Finish ==
  /\ status = "discovering"
  /\ Markers(term) = {}
  /\ term' = Erased(Converted(term))
  /\ functions' = [i \in DOMAIN functions |-> Erased(Converted(functions[i]))]
  /\ status' = "done"
  /\ UNCHANGED <<original, regions>>

Next == Discover \/ Convert \/ Finish

Spec == Init /\ [][Next]_vars
-----------------------------------------------------------------------------
\* Properties.

Graphs == {term} \cup Range(functions)

\* Every node that is used is a node of its graph, whatever the last splice,
\* extraction or quotient did.
TypeOK ==
  /\ \A t \in Graphs : IsTerm(t)
  /\ \A r \in regions : r.nodes \subseteq DOMAIN term.labels
  /\ status \in {"discovering", "scheduling", "done"}

\* schedule.rs:136-139: what waits for what is acyclic, so a region is always
\* ready; no wire escapes (schedule.rs:59-61), nothing that stays refers to what
\* goes (replace.rs:580-611), and a marker has its three ends after any splice
\* (region.rs:118-128).
NeverPanics == ~Panics /\ ~InvalidMarker(term)

\* schedule.rs:360-362: that an "internal wire of closure region escapes through
\* unowned edge" is asserted of no region; replace.rs:580-582 calls it a "hard
\* invariant of regions produced from CMC graphs".
NoWireEscapes == status = "scheduling" => ~Escapes(term, regions)

\* What inline_named_call asks of an eval, of one as it was written: its pointer
\* is made by a name.f, it is given no closure, and it has one result.
IsNamedCall(t, e) ==
  /\ t.edges[e].src[2] \in Produced(t, Names(t))
  /\ Sources(t, e) \cap Produced(t, Markers(t)) = {}
  /\ Len(t.edges[e].tgt) = 1

\* definition.rs:66-67, 367, 379, 409: an eval is refused only in a definition
\* that was written with one that cannot become a call: whatever closures are cut
\* out before, the name.f of an eval stays in the region of the eval, and its
\* sources stay two.
RefusesUnnamedOnly ==
  Refuses => \E e \in OfKind(original, "eval") : ~IsNamedCall(original, e)

\* schedule.rs:131-134: a generated function never has a closure among its
\* wires: those it captures or makes were converted before it, and primitives
\* that take them have their converted form (region_conversion.rs:86).
FunctionsAreClosureFree ==
  \A f \in Range(functions) :
    /\ \A n \in DOMAIN f.labels : f.labels[n] # "closure"
    /\ \A edge \in Range(f.edges) : edge.k = "op" => edge.n \notin Primitives

\* Where t has the operation n.
Occurrences(t, n) ==
  {e \in EdgesOf(t) : t.edges[e].k \in {"op", "converted"} /\ t.edges[e].n = n}

\* The definition and the generated functions, and the places of the operation
\* n in them.
Graph(i) == IF i = 0 THEN term ELSE functions[i]
Places(n) ==
  UNION {{<<i, e>> : e \in Occurrences(Graph(i), n)} : i \in 0..Len(functions)}

\* replace.rs:580-582: no operation is lost with a region or left behind in a
\* second one: each is in the definition or in one generated function, whether
\* its result matters or not (region.rs:246-252).
EachOperationOnce ==
  \A edge \in Range(original.edges) :
    edge.k = "op" =>
      Cardinality(Places(edge.n)) = Cardinality(Occurrences(original, edge.n))

\* When the pass is done each wire that is used in a definition or a generated
\* function is made there once, or else is given: nothing of a closure is left
\* that only its marker held together.  A type parameter need not be given.
WiresAreMade ==
  status = "done" =>
    \A t \in Graphs : \A n \in Consumed(t, EdgesOf(t)) \cup Range(t.targets) :
      LET made == {e \in EdgesOf(t) : n \in Targets(t, e)}
      IN IF n \in Range(t.sources) THEN made = {}
         ELSE Cardinality(made) = 1 \/ (made = {} /\ t.labels[n] = "static")

=============================================================================
