--------------------------- MODULE CompileMeaning ---------------------------
(***************************************************************************)
(* What a definition computes, as its author reads it and as the flat term *)
(* that code generation gets computes it, and the properties of Compile.   *)
(*                                                                         *)
(* A value is a tree of pairs and units over atoms: an input of the        *)
(* definition, or a result of an operation on the groups of atoms that its *)
(* sources have.  Pointers and closures occur in between.                  *)
(***************************************************************************)
EXTENDS Compile

Value(v, o, i, a) == [v |-> v, o |-> o, i |-> i, a |-> a]
Given(i) == Value("given", Op(""), i, <<>>)
Atom(o, i, groups) == Value("result", o, i, groups)
Pointer(o, context) == Value("pointer", o, 0, context)
Pair(x, y) == Value("pair", Op(""), 0, <<x, y>>)
None == Value("unit", Op(""), 0, <<>>)
Closure(k, o, n, a) == Value(k, o, n, a)

RECURSIVE Flat(_), Shaped(_, _), Unpaired(_, _), Paired(_)

\* The atoms of a value, and the value of type o that has the given atoms.
Flat(x) == CASE x.v = "pair" -> Flat(x.a[1]) \o Flat(x.a[2])
             [] x.v = "unit" -> <<>>
             [] OTHER -> <<x>>
FlatAll(xs) == [i \in DOMAIN xs |-> Flat(xs[i])]

Shaped(o, atoms) ==
  CASE IsUnit(o) -> None
    [] IsProduct(o) -> Pair(Shaped(o.a[1], SubSeq(atoms, 1, ObjectSize(o.a[1]))),
                            Shaped(o.a[2], SubSeq(atoms, ObjectSize(o.a[1]) + 1, Len(atoms))))
    [] OTHER -> atoms[1]

\* n values out of one that packs them, and one of several.
Unpaired(x, n) == CASE n = 0 -> <<>>
                    [] n = 1 -> <<x>>
                    [] OTHER -> <<x.a[1]>> \o Unpaired(x.a[2], n - 1)
Paired(xs) == CASE xs = <<>> -> None
                [] Len(xs) = 1 -> xs[1]
                [] OTHER -> Pair(Head(xs), Paired(Tail(xs)))

\* atoms in groups of the given sizes.
Grouped(atoms, sizes) ==
  LET before(i) == MapThenSumSet(LAMBDA j : sizes[j], 1..(i - 1))
  IN [i \in DOMAIN sizes |-> SubSeq(atoms, before(i) + 1, before(i) + sizes[i])]

SourceObjects(arrow) == Objects(SourceMap(arrow), Leaves(Context(arrow)))
TargetObjects(arrow) == Objects(TargetMap(arrow), Leaves(Context(arrow)))

\* The results of types objects of the operation o on groups of atoms.
Results(o, groups, objects) ==
  LET all == Len(MapObjects(objects))
      shaped(atoms) == [i \in DOMAIN objects |->
                          Shaped(objects[i], Grouped(atoms, Sizes(objects))[i])]
  IN shaped([i \in 1..all |-> Atom(o, i, groups)])

-----------------------------------------------------------------------------
(***************************************************************************)
(* As it is written: partial.f.N holds what it was applied to until the    *)
(* other inputs come, and then f is called on all of them.                 *)
(***************************************************************************)
RECURSIVE Apply(_, _, _), Means(_, _, _)

\* A function that is called by its name on metavariables and inputs.
Called(t, o, context, inputs) ==
  Paired(Results(o, <<Flat(Paired(context))>> \o FlatAll(inputs), TargetObjects(raw[t].arrows[o])))

Apply(t, c, x) ==
  CASE c.v = "defer" -> c.a[1]
    [] c.v = "compose" -> Apply(t, c.a[2], Apply(t, c.a[1], x))
    [] c.v = "tensor" -> Pair(Apply(t, c.a[1], x.a[1]), Apply(t, c.a[2], x.a[2]))
    [] c.v = "lift" ->
         Called(t, c.a[1].o, c.a[1].a, Unpaired(x, Arity(raw[t].arrows[c.a[1].o])))
    [] c.v = "partial" ->
         LET arrow == raw[t].arrows[c.o]
             n == Context(arrow)
         IN Called(t, c.o, SubSeq(c.a, 1, n),
                   SubSeq(c.a, n + 1, Len(c.a)) \o Unpaired(x, Arity(arrow) - c.i))

\* The results of the operation o of the theory t on xs.
OperationMeans(t, o, xs) ==
  CASE o = Op("*.intro") -> <<Pair(xs[1], xs[2])>>
    [] o = Op("*.elim") -> xs[1].a
    [] o = Op("unit.intro") -> <<None>>
    [] o = Op("unit.elim") -> <<>>
    [] o \in {Op("defer"), Op("compose"), Op("tensor"), Op("lift")} -> <<Closure(o.f, o, 0, xs)>>
    [] o = Op("run") -> <<Apply(t, xs[1], None)>>
    [] Starts(o, "name") -> <<Pointer(Name(Tail(o.p), o.f, o.n), xs)>>
    [] Starts(o, "partial") -> <<Closure("partial", PartialOf(o), AppliedBy(o), xs)>>
    [] o \in Defined(t) /\ ClosureBoundary(raw[t].arrows[o]) -> Means(t, o, xs)
    [] OTHER -> Results(o, FlatAll(xs), TargetObjects(raw[t].arrows[o]))

\* The values of the targets of a term whose operations are in order.
Means(t, o, inputs) ==
  LET def == given[t].arrows[o].def[1]
      put(known, e, out) ==
        known @@ [n \in Range(e.tgt) |-> out[CHOOSE i \in DOMAIN e.tgt : e.tgt[i] = n]]
      step(known, e) ==
        put(known, e, OperationMeans(t, e.n, [i \in DOMAIN e.src |-> known[e.src[i]]]))
      listed(known) == [i \in DOMAIN def.targets |-> known[def.targets[i]]]
  IN listed(FoldLeft(step, [n \in Range(def.sources) |->
                              inputs[CHOOSE i \in DOMAIN inputs : def.sources[i] = n]], def.edges))

-----------------------------------------------------------------------------
(***************************************************************************)
(* As it is compiled: operations see groups of atoms of the recorded       *)
(* sizes.  They are done when all that they need is known.                 *)
(***************************************************************************)
RECURSIVE Runs(_, _, _), Done(_, _, _)

\* A call of what a pointer points to: a definition's term, or an operation.
EvalMeans(t, pointer, atoms, count) ==
  LET arrow == raw[t].arrows[pointer.o]
      groups == <<FlattenSeq(pointer.a)>> \o Grouped(atoms, Sizes(SourceObjects(arrow)))
  IN IF pointer.o \in DOMAIN terms[t] /\ pointer.o \notin DOMAIN given[t].arrows
     THEN Runs(t, pointer.o, atoms)
     ELSE [i \in 1..count |-> Atom(pointer.o, i, groups)]

FlatMeans(t, edge, atoms) ==
  LET groups == Grouped(atoms, edge.n.source_sizes)
      o == edge.n.operation
  IN CASE o = Op("eval") -> EvalMeans(t, Last(atoms), Front(atoms), Len(edge.tgt))
       [] Starts(o, "name") -> <<Pointer(Name(Tail(o.p), o.f, o.n), groups)>>
       [] OTHER -> [i \in DOMAIN edge.tgt |-> Atom(o, i, groups)]

Done(t, known, left) ==
  LET ready == SelectSeq(left, LAMBDA e : Range(e.src) \subseteq DOMAIN known)
      put(k, e, out) == k @@ [n \in Range(e.tgt) |-> out[CHOOSE i \in DOMAIN e.tgt : e.tgt[i] = n]]
      step(k, e) == put(k, e, FlatMeans(t, e, [i \in DOMAIN e.src |-> k[e.src[i]]]))
  IN IF ready = <<>> THEN known
     ELSE Done(t, FoldLeft(step, known, ready),
               SelectSeq(left, LAMBDA e : ~(Range(e.src) \subseteq DOMAIN known)))

Runs(t, o, atoms) ==
  LET term == terms[t][o]
      listed(known) == [i \in DOMAIN term.targets |->
                          IF term.targets[i] \in DOMAIN known THEN known[term.targets[i]] ELSE None]
  IN listed(Done(t, [n \in Range(term.sources) |->
                       atoms[CHOOSE i \in DOMAIN atoms : term.sources[i] = n]], term.edges))

-----------------------------------------------------------------------------
Stages ==
  {"bundles", "merge", "literals u64", "literals u32", "validation", "constants u64",
   "constants u32", "uses", "partials", "names", "elaborated", "typecheck", "inline definitions", "typecheck inlined",
   "forget closures", "closure conversion", "record boundary sizes", "unpack products",
   "compiled", "refused"}

IsTerm(t) ==
  /\ \A e \in EdgesOf(t) : Incident(t, e) \subseteq DOMAIN t.labels
  /\ Range(t.sources) \cup Range(t.targets) \subseteq DOMAIN t.labels

\* Whatever is cut out of a type map or bent in a term, operations and boundaries
\* are on nodes that are there; only a refused program has an error.
TypeOK ==
  /\ stage \in Stages /\ (stage = "refused" <=> error # "none")
  /\ stage \in {"bundles", "merge"} => given = <<>>
  /\ given # <<>> => DOMAIN raw = DOMAIN given
  /\ DOMAIN terms \subseteq Above
  /\ \A u \in uses : u.theory \in Above /\ Starts(Used(u), "partial")
  /\ \A t \in Above : \A a \in Arrows(raw[t]) : \A m \in Range(a.maps) \cup Range(a.def) : IsTerm(m)
  /\ \A t \in DOMAIN terms : \A m \in Range(terms[t]) : IsTerm(m)

Generated(t) == DOMAIN raw[t].arrows \ DOMAIN given[t].arrows
IsElaborated == stage \in {"elaborated", "typecheck"}

\* Whatever order the uses came in, every operation that a generated arrow needs
\* is declared, helpers and their names among them, and every generated definition
\* has the interface that it was generated with, for every arity, context and
\* number of captured inputs: only what the program defines itself is refused for
\* its types, and that before definitions are inlined.
GeneratedAreSound ==
  /\ error = "Check" =>
       \E t \in DOMAIN terms : \E o \in DOMAIN terms[t] \cap DOMAIN given[t].arrows :
         TypeOf(raw[t].arrows, raw[t].arrows[o], given[t].arrows[o].def[1]) = <<>>
  /\ IsElaborated =>
    \A t \in Above : \A o \in Generated(t) :
      /\ ~Undeclared(t, o)
      /\ o \in Defined(t) =>
           TypeOf(raw[t].arrows, raw[t].arrows[o], raw[t].arrows[o].def[1]) # <<>>

\* What is compiled computes what is written: a partial application calls its
\* function on the captured inputs and then the others, in order and with the
\* metavariables of the function, through the closures and helpers that stand for
\* it; bent wires connect what was composed; and the recorded sizes group what was
\* in a product.
CompiledIsMeant ==
  stage = "compiled" =>
    \A t \in DOMAIN terms : \A o \in DOMAIN terms[t] \cap DOMAIN given[t].arrows :
      LET objects == SourceObjects(raw[t].arrows[o])
          atoms == [i \in 1..Len(MapObjects(objects)) |-> Given(i)]
          inputs == [i \in DOMAIN objects |->
                       Shaped(objects[i], Grouped(atoms, Sizes(objects))[i])]
      IN Runs(t, o, atoms) = FlattenSeq(FlatAll(Means(t, o, inputs)))
=============================================================================
