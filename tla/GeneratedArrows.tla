--------------------------- MODULE GeneratedArrows ---------------------------
(***************************************************************************)
(* The arrows that elaboration makes: elaborate/partial_applications.rs,   *)
(* name_symbols.rs and constants.rs, with pack_nodes of nonstrict.rs.      *)
(*                                                                         *)
(* The name of an operation has prefixes p, a stem f and numbers n at its  *)
(* end: name.partial.f.2 is <<"name", "partial">>, "f", <<2>>, and helper  *)
(* i of partial.f.2 has the numbers <<2, i>>.  An expression is the graph  *)
(* that it denotes, its operations in the order of the text.  The sources  *)
(* of a type map are its metavariables, the targets its objects.  An arrow *)
(* has two type maps and at most one definition; labels are the operations *)
(* in the annotations of its wires, and reserved says whether one of its   *)
(* variables begins with __catena_.                                        *)
(***************************************************************************)
EXTENDS Hypergraph

Name(p, f, n) == [p |-> p, f |-> f, n |-> n]
Op(f) == Name(<<>>, f, <<>>)
Starts(o, prefix) == o.p # <<>> /\ Head(o.p) = prefix
Prefixed(prefix, o) == [o EXCEPT !.p = <<prefix>> \o @]
NameOf(o) == Prefixed("name", o)

Term(edges, labels, sources, targets) ==
  [edges |-> edges, labels |-> labels, sources |-> sources, targets |-> targets]

\* n wires and nothing else.
Wires(n) == Term(<<>>, [i \in 1..n |-> ""], [i \in 1..n |-> i], [i \in 1..n |-> i])

Newest(t) == Max({0} \cup DOMAIN t.labels)

\* t with one more operation, whose target is its newest node.
AddOperation(t, o, src) ==
  [t EXCEPT !.edges = Append(@, Edge("op", o, src, <<Newest(t) + 1>>)),
            !.labels = @ @@ (Newest(t) + 1 :> "")]

AddOperations(t, operations) ==
  FoldLeft(LAMBDA u, x : AddOperation(u, x[1], x[2]), t, operations)

\* t and u, without a node in common.
Beside(t, u) ==
  LET put(v) == Term(t.edges \o v.edges, t.labels @@ v.labels,
                     t.sources \o v.sources, t.targets \o v.targets)
  IN put(Renamed(u, LAMBDA n : n + Newest(t)))

-----------------------------------------------------------------------------
\* One object of several, unit and pair being the operations for none and two.
\* The last two are paired first.
PackNodes(t, ns, unit, pair) ==
  LET tail(u, i) == IF i = Len(ns) - 1 THEN ns[Len(ns)] ELSE Newest(u)
      packed(u, i) == AddOperation(u, pair, <<ns[i], tail(u, i)>>)
  IN CASE ns = <<>> -> AddOperation(t, unit, <<>>)
       [] Len(ns) = 1 -> t
       [] OTHER -> FoldLeft(packed, t, [j \in 1..(Len(ns) - 1) |-> Len(ns) - j])

PackedNode(packed, ns) == IF Len(ns) = 1 THEN ns[1] ELSE Newest(packed)

\* t with its targets packed.
PackTargets(t) ==
  LET put(packed) == [packed EXCEPT !.targets = <<PackedNode(packed, t.targets)>>]
  IN put(PackNodes(t, t.targets, Op("1"), Op("*")))

\* The part of t on which its targets from start + 1 to end depend; the
\* metavariables all stay.
Slice(t, start, end) ==
  LET wanted == Range(SubSeq(t.targets, start + 1, end)) \cup Range(t.sources)
      before == {x \in EdgesOf(t) \X EdgesOf(t) : Targets(t, x[2]) \cap Sources(t, x[1]) # {}}
      cut(edges, nodes) ==
        Term(SelectSeq(t.edges, LAMBDA x : x \in edges),
             [n \in nodes |-> t.labels[n]], t.sources, SubSeq(t.targets, start + 1, end))
      kept(E) == cut({t.edges[e] : e \in E}, wanted \cup Produced(t, E) \cup Consumed(t, E))
  IN kept(Reached(before, {e \in EdgesOf(t) : Targets(t, e) \cap wanted # {}}))

PackedSlice(t, start, end) == PackTargets(Slice(t, start, end))

\* The type map of t and u over their common metavariables, put together by
\* operations that are applied in turn.
OverContext(t, u, operations) ==
  LET c == Len(t.sources)
      applied(v, o) == [AddOperation(v, o, v.targets) EXCEPT !.targets = <<Newest(v) + 1>>]
      shared(v) == Quotient([v EXCEPT !.sources = SubSeq(@, 1, c)],
                            [i \in 1..c |-> <<v.sources[i], v.sources[c + i]>>])
  IN shared(FoldLeft(applied, Beside(t, u), operations))

-----------------------------------------------------------------------------
\* name.f : metavariables -> (pack(sources) -> pack(targets)) val.

Arrow(source, target, def) ==
  [maps |-> <<source, target>>, def |-> def, labels |-> <<>>, reserved |-> FALSE]

SourceMap(arrow) == arrow.maps[1]
TargetMap(arrow) == arrow.maps[2]
Context(arrow) == Len(SourceMap(arrow).sources)
Arity(arrow) == Len(SourceMap(arrow).targets)

NameTarget(arrow) ==
  OverContext(PackTargets(SourceMap(arrow)), PackTargets(TargetMap(arrow)),
              <<Op("->"), Op("val")>>)

NameArrow(arrow) == Arrow(Wires(Context(arrow)), NameTarget(arrow), <<>>)

-----------------------------------------------------------------------------
\* partial.f.N : metavariables * first N inputs -> (other inputs => outputs).

Helper(kind, i, o) == [o EXCEPT !.p = <<kind>> \o @, !.n = Append(@, i)]
Identity(i, o) == Helper("catena.partial.identity", i, o)
WithLeftUnit(i, o) == Helper("catena.partial.with-left-unit", i, o)
GeneratedPrefixes == {"catena", "catena.partial.identity", "catena.partial.with-left-unit"}

\* Mutant: the boundary is that of the whole type map.
PartialSourceOfAll(source, applied) ==
  [Slice(source, 0, applied) EXCEPT !.targets = source.sources \o source.targets]

PartialSource(source, applied) ==
  LET put(prefix) == [prefix EXCEPT !.targets = prefix.sources \o @]
  IN put(Slice(source, 0, applied))

PartialTarget(source, target, applied) ==
  OverContext(PackedSlice(source, applied, Len(source.targets)),
              PackedSlice(target, 0, Len(target.targets)), <<Op("=>")>>)

\* The closure of the function o, by its name on the metavariables.
NamedClosure(t, o, context) ==
  AddOperations(t, <<<<NameOf(o), context>>, <<Op("lift"), <<Newest(t) + 1>>>>>>)

(***************************************************************************)
(* One captured input in front: t has the closure previous, 0 if there is  *)
(* none, that prepends those after it.                                     *)
(***************************************************************************)
Prepended(t, previous, captured, i, o, context) ==
  LET first(m) == <<<<Op("defer"), <<captured>>>>,
                    <<NameOf(Identity(i, o)), context>>, <<Op("lift"), <<m + 2>>>>,
                    <<NameOf(WithLeftUnit(i, o)), context>>, <<Op("lift"), <<m + 4>>>>,
                    <<Op("tensor"), <<m + 1, m + 3>>>>, <<Op("compose"), <<m + 5, m + 6>>>>>>
      after(m) == IF previous = 0 THEN <<>> ELSE <<<<Op("compose"), <<previous, m + 7>>>>>>
  IN AddOperations(t, first(Newest(t)) \o after(Newest(t)))

\* The definition of the partial application o of f to applied inputs.
PartialDefinition(f, c, arity, applied, o) ==
  LET context == [i \in 1..c |-> i]
      captured == [i \in 1..applied |-> c + i]
      original == c + applied + 2
      start == NamedClosure(Term(<<>>, [n \in 1..(c + applied) |-> ""], context \o captured, <<>>),
                            f, context)
      prepend(t, j) ==
        LET i == applied - j
        IN Prepended(t, IF j = 0 THEN 0 ELSE Newest(t), captured[i], i - 1, o, context)
      packed == PackNodes(start, captured, Op("unit.intro"), Op("*.intro"))
      deferred(t) == AddOperations(t, <<<<Op("defer"), <<PackedNode(t, captured)>>>>,
                                        <<Op("compose"), <<Newest(t) + 1, original>>>>>>)
      composed(t) == AddOperation(t, Op("compose"), <<Newest(t), original>>)
      closed(t) == [t EXCEPT !.targets = <<Newest(t)>>]
  IN closed(CASE applied = 0 -> start
              [] applied # 0 /\ applied = arity -> deferred(packed)
              [] OTHER -> composed(FoldLeft(prepend, start, [j \in 1..applied |-> j - 1])))

WithLeftUnitMap(remaining) ==
  LET put(t) == [t EXCEPT !.targets = <<Newest(t)>>]
  IN put(AddOperations(remaining, <<<<Op("1"), <<>>>>,
                                    <<Op("*"), <<Newest(remaining) + 1, remaining.targets[1]>>>>>>))

WithLeftUnitDefinition ==
  LET put(t) == [t EXCEPT !.targets = <<Newest(t)>>]
  IN put(AddOperations(Wires(1), <<<<Op("unit.intro"), <<>>>>, <<Op("*.intro"), <<2, 1>>>>>>))

IdentityArrow(rest) == Arrow(rest, rest, <<Wires(1)>>)
WithLeftUnitArrow(rest) == Arrow(rest, WithLeftUnitMap(rest), <<WithLeftUnitDefinition>>)

\* Mutant: a captured input is still there after it was put in front.
RestWith(source, i) == PackedSlice(source, i, Len(source.targets))

\* What is left after captured input i.
Rest(source, i) == PackedSlice(source, i + 1, Len(source.targets))

\* What the use o of arrow, which is called f, adds to the theory.
PartialArrows(arrow, f, applied, o) ==
  LET source == SourceMap(arrow)
      helped == IF applied < Len(source.targets) THEN 0..(applied - 1) ELSE {}
      partial == Arrow(PartialSource(source, applied),
                       PartialTarget(source, TargetMap(arrow), applied),
                       <<PartialDefinition(f, Context(arrow), Arity(arrow), applied, o)>>)
      indexed(h) == CHOOSE i \in helped : h \in {Identity(i, o), WithLeftUnit(i, o)}
      rest(h) == Rest(source, indexed(h))
      identities == [h \in {Identity(i, o) : i \in helped} |-> IdentityArrow(rest(h))]
      units == [h \in {WithLeftUnit(i, o) : i \in helped} |-> WithLeftUnitArrow(rest(h))]
  IN Override([h \in {o} |-> partial], Override(identities, units))

-----------------------------------------------------------------------------
\* Constants: const.u64.L : [] -> u64 val, type.const.u64.L : [] -> its symbol
\* as a u64, and type.const.u64.L : 0 -> 1 among the types.

U64 == [prefix |-> "const.u64", type |-> "u64", nibbles |-> 16]
U32 == [prefix |-> "const.u32", type |-> "u32", nibbles |-> 8]

\* A type map without metavariables.
Closed(operations) ==
  LET put(t) == [t EXCEPT !.targets = IF operations = <<>> THEN <<>> ELSE <<Newest(t)>>]
  IN put(AddOperations(Wires(0), operations))

ConstArrow(kind) ==
  Arrow(Closed(<<>>), Closed(<<<<Op(kind.type), <<>>>>, <<Op("val"), <<1>>>>>>), <<>>)

SymbolicConstArrow(o, kind) ==
  Arrow(Closed(<<>>),
        Closed(<<<<o, <<>>>>, <<Op(kind.type), <<>>>>, <<Op(":"), <<1, 2>>>>>>), <<>>)

\* The interface m -> n of an operation on types.
TypeArrow(m, n) ==
  Arrow(Closed(<<<<Op(m), <<>>>>>>), Closed(<<<<Op(n), <<>>>>>>), <<>>)
=============================================================================
