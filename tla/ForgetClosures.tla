--------------------------- MODULE ForgetClosures ---------------------------
(***************************************************************************)
(* pass/forget_closures.rs, and what closure/inline_named_calls.rs makes   *)
(* of its result: the graphs on which closure conversion works.            *)
(*                                                                         *)
(* An object is a record of a kind and its children: "val", "static" (a    *)
(* type parameter, erased at run time), "unit", "product", "hom" (the      *)
(* closure type =>) and "fn" (a function pointer).  A term is a hypergraph *)
(* with its boundary; each edge has an operation and two lists of nodes.   *)
(* A wire w of the source term becomes the nodes 10 w, 10 w + 1, ..., one  *)
(* per object that is left of its type; an edge e of it makes nodes of     *)
(* 1000 e and above.  Objects have at most ten leaves, terms 99 wires.     *)
(*                                                                         *)
(* Operators in this module are evaluated on bounded terms only: no        *)
(* theorem is stated about them.                                           *)
(***************************************************************************)
EXTENDS Hypergraph

Obj(k, a) == [k |-> k, a |-> a]
Val == Obj("val", <<>>)
Static == Obj("static", <<>>)
Unit == Obj("unit", <<>>)
Product(l, r) == Obj("product", <<l, r>>)
Hom(d, c) == Obj("hom", <<d, c>>)
Fn(d, c) == Obj("fn", <<d, c>>)

\* The objects that are left of an object when closures and products are gone.
RECURSIVE Boundary(_)
Boundary(o) ==
  CASE o.k = "unit" -> <<>>
    [] o.k \in {"product", "hom"} -> Boundary(o.a[1]) \o Boundary(o.a[2])
    [] OTHER -> <<o>>

RECURSIVE ContainsClosure(_)
ContainsClosure(o) ==
  o.k = "hom" \/ (o.k = "product" /\ \E c \in Range(o.a) : ContainsClosure(c))

\* All that closure conversion asks of an object.
Label(o) == IF ContainsClosure(o) THEN "closure"
            ELSE IF o.k = "static" THEN "static" ELSE "value"

ClosureMarker(d, c, k) == Edge("marker", "!closure", <<d, c>>, <<k>>)

\* What an edge becomes: its own nodes and edges, and the nodes it joins.
Fragment == [edges |-> <<>>, labels |-> <<>>, joins |-> <<>>]

Both(f, g) == [edges |-> f.edges \o g.edges, labels |-> f.labels @@ g.labels,
               joins |-> f.joins \o g.joins]

Joined(ns, ms) == [Fragment EXCEPT !.joins = [i \in DOMAIN ns |-> <<ns[i], ms[i]>>]]

\* An adapter whose last edge e makes or takes node, of type o.
Ending(node, o, e, before) ==
  [node |-> node,
   fragment |-> Both(before, [edges |-> <<e>>, labels |-> node :> Label(o), joins |-> <<>>])]

\* The edge between a pair of nodes and the node of the product or closure o.
PairEdge(o, positive, pair, node) ==
  CASE o.k = "hom" -> ClosureMarker(pair[1], pair[2], node)
    [] o.k = "product" /\ positive -> Edge("op", "*.intro", pair, <<node>>)
    [] o.k = "product" /\ ~positive -> Edge("op", "*.elim", <<node>>, pair)

UnitEdge(positive, node) ==
  IF positive THEN Edge("op", "unit.intro", <<>>, <<node>>)
              ELSE Edge("op", "unit.elim", <<node>>, <<>>)

Paired(o, positive, node, left, right) ==
  Ending(node, o, PairEdge(o, positive, <<left.node, right.node>>, node),
         Both(left.fragment, right.fragment))

(***************************************************************************)
(* The source adapter of an object: from the nodes ns that are left of it  *)
(* to one node id + h, h its place in the tree of the object.  Behind the  *)
(* domain of a closure the adapter runs backwards.                         *)
(***************************************************************************)
RECURSIVE Adapter(_, _, _, _, _)
Adapter(o, positive, ns, id, h) ==
  CASE o.k \in {"product", "hom"} ->
         Paired(o, positive, id + h,
                Adapter(o.a[1], positive # (o.k = "hom"),
                        SubSeq(ns, 1, Len(Boundary(o.a[1]))), id, 2 * h),
                Adapter(o.a[2], positive,
                        SubSeq(ns, Len(Boundary(o.a[1])) + 1, Len(ns)), id, 2 * h + 1))
    [] o.k = "unit" -> Ending(id + h, o, UnitEdge(positive, id + h), Fragment)
    [] OTHER -> [node |-> ns[1], fragment |-> Fragment]

\* map_non_cmc_operation: adapters and the operation.  Results of operations
\* are values and function pointers here, which need no flattener.
Operation(k, n, objects, nodes, targets, id) ==
  LET adapt(made, i) ==
        LET arg == Adapter(objects[i], TRUE, nodes[i], id + 100 * i, 1)
        IN [fragment |-> Both(made.fragment, arg.fragment), ns |-> Append(made.ns, arg.node)]
      applied(made) ==
        Both(made.fragment, [Fragment EXCEPT !.edges = <<Edge(k, n, made.ns, targets)>>])
  IN applied(FoldLeft(adapt, [fragment |-> Fragment, ns |-> <<>>],
                      [i \in DOMAIN objects |-> i]))

(***************************************************************************)
(* open_input_adapter at the domain of a closure that is passed to an      *)
(* inlined definition: a product keeps its adapter, which points away from *)
(* the nodes ns, and gets a second one in front; nodes is where the body   *)
(* of the definition is connected.                                         *)
(***************************************************************************)
Opened(o, ns, id) ==
  LET leaves(fresh) == [Fragment EXCEPT !.labels = [n \in Range(fresh) |-> "value"]]
      turned(old, new, fresh) ==
        [nodes |-> fresh,
         fragment |-> Both(Both(Both(old.fragment, new.fragment), leaves(fresh)),
                           Joined(<<old.node>>, <<new.node>>))]
      open(fresh) ==
        turned(Adapter(o, FALSE, ns, id, 1), Adapter(o, TRUE, fresh, id + 100, 1), fresh)
  IN IF o.k = "product" THEN open([i \in DOMAIN ns |-> id + 900 + i])
     ELSE [nodes |-> ns, fragment |-> Fragment]

\* The body of the definition that is inlined, between its ends.
Inserted(body, open, T) ==
  Both([open.fragment EXCEPT !.edges = @ \o body.edges, !.labels = @ @@ body.labels],
       Joined(body.sources \o body.targets,
              open.nodes \o SubSeq(T, Len(open.nodes) + 1, Len(T))))

\* compose, of closures from a nodes to b nodes and from these on.
Composed(S, T, a, b) ==
  Both(Joined(SubSeq(S, 1, a) \o SubSeq(S, a + 2 * b + 1, Len(S)), T),
       Joined(SubSeq(S, a + 1, a + b), SubSeq(S, a + b + 1, a + 2 * b)))

\* tensor, of a closure of ab nodes, a of them its domain, and one whose domain
\* has c nodes.
Tensored(S, T, a, ab, c) ==
  Joined(SubSeq(S, 1, a) \o SubSeq(S, ab + 1, ab + c)
           \o SubSeq(S, a + 1, ab) \o SubSeq(S, ab + c + 1, Len(S)), T)

(***************************************************************************)
(* What the functor makes of an edge whose sources have the objects os and *)
(* the lists of nodes ns, S being all of them, and T the nodes of its      *)
(* targets.  A call of a definition with a closure at its boundary, name.g *)
(* and lift in the source, becomes the body of g between the two ends of   *)
(* the closure: the call that forgetting makes of it is inlined before     *)
(* regions are looked for.                                                 *)
(***************************************************************************)
MapEdge(edge, os, ns, S, T, id) ==
  LET part(i, j) == Len(Boundary(os[i].a[j]))
      applied(split, k, n, objects, lists) ==
        Operation(k, n, objects, lists, SubSeq(T, split + 1, Len(T)), id)
  IN CASE edge.k \in {"defer", "run"} -> Joined(S, T)
       [] edge.k = "compose" -> Composed(S, T, part(1, 1), part(1, 2))
       [] edge.k = "tensor" -> Tensored(S, T, part(1, 1), Len(ns[1]), part(2, 1))
       [] edge.k = "lift" ->
            applied(part(1, 1), "eval", "eval", <<os[1].a[1], os[1]>>,
                    <<SubSeq(T, 1, part(1, 1)), ns[1]>>)
       [] edge.k = "inlined" ->
            Inserted(Renamed(edge.body, LAMBDA m : m + 1000 * id),
                     Opened(edge.domain, SubSeq(T, 1, Len(Boundary(edge.domain))), id), T)
       [] OTHER -> applied(0, edge.k, edge.n, os, ns)

\* forget_closures of a term: objects gives each wire its type.
Forget(t) ==
  LET nodes(w) == [i \in DOMAIN Boundary(t.objects[w]) |-> 10 * w + i - 1]
      lists(ws) == [i \in DOMAIN ws |-> nodes(ws[i])]
      wire(f, w) == f @@ [n \in Range(nodes(w)) |->
                            Label(Boundary(t.objects[w])[n - 10 * w + 1])]
      mapped(f, e) ==
        Both(f, MapEdge(t.edges[e], [i \in DOMAIN t.edges[e].src |-> t.objects[t.edges[e].src[i]]],
                        lists(t.edges[e].src), FlattenSeq(lists(t.edges[e].src)),
                        FlattenSeq(lists(t.edges[e].tgt)), 1000 * e))
      glued(all) ==
        Quotient([edges |-> all.edges,
                  labels |-> FoldLeft(wire, <<>>, [w \in DOMAIN t.objects |-> w]) @@ all.labels,
                  sources |-> FlattenSeq(lists(t.sources)),
                  targets |-> FlattenSeq(lists(t.targets))], all.joins)
  IN glued(FoldLeft(mapped, Fragment, [e \in DOMAIN t.edges |-> e]))
=============================================================================
