------------------------------ MODULE Products ------------------------------
(***************************************************************************)
(* pass/record_boundary_sizes.rs and pass/unpack_products.rs.  Before      *)
(* products are unpacked every operation is labelled with the sizes of its *)
(* sources and targets, by which code generation groups the flat lists of  *)
(* nodes that unpacking leaves.                                            *)
(***************************************************************************)
EXTENDS NonStrict

\* A functor's action on a term: node w becomes the nodes from 100 w on, as many
\* as onObject gives objects, and edge e what onEdge makes of its operation and
\* objects, with nodes from 100000 e on, joined to those at its ends.  In the end
\* nodes are numbered from 1.
Mapped(t, onObject(_), onEdge(_, _, _)) ==
  LET at(w) == [i \in DOMAIN onObject(t.labels[w]) |-> 100 * w + i - 1]
      nodes(ws) == FlattenSeq([i \in DOMAIN ws |-> at(ws[i])])
      objects(ws) == [i \in DOMAIN ws |-> t.labels[ws[i]]]
      image(e) == Renamed(onEdge(t.edges[e], objects(t.edges[e].src), objects(t.edges[e].tgt)),
                          LAMBDA n : 100000 * e + n)
      pairs(ns, ms) == [i \in DOMAIN ns |-> <<ns[i], ms[i]>>]
      with(f, e, u) ==
        [edges |-> f.edges \o u.edges, labels |-> f.labels @@ u.labels,
         joins |-> f.joins \o pairs(nodes(t.edges[e].src), u.sources)
                     \o pairs(nodes(t.edges[e].tgt), u.targets)]
      wires == [n \in UNION {Range(at(w)) : w \in DOMAIN t.labels} |->
                  onObject(t.labels[n \div 100])[(n % 100) + 1]]
      numbered(u, ns) ==
        Quotiented([u EXCEPT !.labels = [i \in DOMAIN ns |-> @[ns[i]]]],
                   [n \in Range(ns) |-> CHOOSE i \in DOMAIN ns : ns[i] = n])
      glued(f) == Quotient(Term(f.edges, f.labels, nodes(t.sources), nodes(t.targets)), f.joins)
      put(u) == numbered(u, FoldSet(LAMBDA n, ns : Append(ns, n), <<>>, DOMAIN u.labels))
  IN put(glued(FoldLeft(LAMBDA f, e : with(f, e, image(e)),
                    [edges |-> <<>>, labels |-> wires, joins |-> <<>>],
                    [e \in DOMAIN t.edges |-> e])))

-----------------------------------------------------------------------------
Sizes(objects) == [i \in DOMAIN objects |-> ObjectSize(objects[i])]

\* RecordBoundarySizes::map_operation.
Recorded(edge, src, tgt) ==
  Singleton(edge.k,
            [operation |-> edge.n, source_sizes |-> Sizes(src), target_sizes |-> Sizes(tgt)],
            src, tgt)

RecordBoundarySizes(t) == Mapped(t, LAMBDA o : <<o>>, Recorded)

RECURSIVE FlattenObject(_)
FlattenObject(o) ==
  CASE IsUnit(o) -> <<>>
    [] IsProduct(o) -> FlattenSeq([i \in DOMAIN o.a |-> FlattenObject(o.a[i])])
    [] OTHER -> <<o>>

MapObjects(objects) == FlattenSeq([i \in DOMAIN objects |-> FlattenObject(objects[i])])

IsForgotten(o) == o \in {Op("*.intro"), Op("*.elim"), Op("unit.intro"), Op("unit.elim")}

\* UnpackProducts::map_operation.
Unpacked(edge, src, tgt) ==
  IF IsForgotten(edge.n.operation) THEN IdentityOn(MapObjects(src))
  ELSE Singleton(edge.k, edge.n, MapObjects(src), MapObjects(tgt))

UnpackProducts(t) == Mapped(t, FlattenObject, Unpacked)
=============================================================================
