------------------------------ MODULE Hypergraph ------------------------------
(***************************************************************************)
(* The hypergraphs of the open_hypergraphs crate, as far as the closure    *)
(* passes use them.  A term has edges in order, a label for each of its    *)
(* nodes (numbers) and a boundary, the lists sources and targets.  An edge *)
(* has a kind k, a name n and two lists of nodes.                          *)
(***************************************************************************)
EXTENDS Collections

\* f, and g where f has no value.
Override(f, g) ==
  [x \in DOMAIN f \cup DOMAIN g |-> IF x \in DOMAIN f THEN f[x] ELSE g[x]]

Edge(k, n, s, t) == [k |-> k, n |-> n, src |-> s, tgt |-> t]

EdgesOf(t) == DOMAIN t.edges
Sources(t, e) == Range(t.edges[e].src)
Targets(t, e) == Range(t.edges[e].tgt)
Incident(t, e) == Sources(t, e) \cup Targets(t, e)
OfKind(t, k) == {e \in EdgesOf(t) : t.edges[e].k = k}
Produced(t, E) == UNION {Targets(t, e) : e \in E}
Consumed(t, E) == UNION {Sources(t, e) : e \in E}

\* A term with the nodes of every edge and of its boundary put through to.
Renamed(t, to(_)) ==
  LET list(ns) == [i \in DOMAIN ns |-> to(ns[i])]
  IN [edges |-> [e \in DOMAIN t.edges |->
        [t.edges[e] EXCEPT !.src = list(@), !.tgt = list(@)]],
      labels |-> [n \in {to(m) : m \in DOMAIN t.labels} |->
                    t.labels[CHOOSE m \in DOMAIN t.labels : to(m) = n]],
      sources |-> list(t.sources), targets |-> list(t.targets)]

\* The term t with the node rep[n] in the place of each n.
Quotiented(t, rep) ==
  [Renamed([t EXCEPT !.labels = <<>>], LAMBDA n : rep[n])
     EXCEPT !.labels = [n \in Range(rep) |-> t.labels[n]]]

\* unify of each of the joins, a sequence of pairs of nodes, and quotient: the
\* least node of each class of joined nodes stands for the class.
Quotient(t, joins) ==
  LET rep[i \in 0..Len(joins)] ==
        IF i = 0 THEN [n \in DOMAIN t.labels |-> n]
        ELSE LET before == rep[i - 1]
                 joined == {before[joins[i][1]], before[joins[i][2]]}
                 least == Min(joined)
             IN [n \in DOMAIN t.labels |->
                   LET was == before[n] IN IF was \in joined THEN least ELSE was]
  IN Quotiented(t, rep[Len(joins)])
=============================================================================
