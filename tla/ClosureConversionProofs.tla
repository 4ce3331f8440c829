----------------------- MODULE ClosureConversionProofs -----------------------
(***************************************************************************)
(* Closure conversion, for every closure-forgotten term: every node that   *)
(* is used is a node of its graph, no operation is lost or made twice, and *)
(* only a definition that lifts a pointer it has not got by name is        *)
(* refused.  A step at a time, each replacement keeps that the graphs are  *)
(* graphs, that each marker alone made the node of its closure, and that   *)
(* the function of an eval was made by a name; nothing is assumed of the   *)
(* order in which closures are converted.                                  *)
(*                                                                         *)
(* With that order, and of terms whose closures are what markers make, no  *)
(* generated function has a closure.  Of terms that are wired, every wire  *)
(* is made once, or given, in what is generated and what is left.          *)
(***************************************************************************)
EXTENDS ClosureConversion, CollectionsProofs

Kinds == {"op", "converted", "eval", "name", "closure", "marker", "context", "call"}

\* The operations of a program, the generated functions, and what the pass packs by.
Given == STRING \cup Nat \cup {"pack"}

Wires(nodes) == [k : Kinds, n : Given, src : Seq(nodes), tgt : Seq(nodes)]

\* What the pass makes of a term: the wires of an eval may become more.
IsGraph(t) ==
  LET nodes == DOMAIN t.labels
  IN /\ {"edges", "labels", "sources", "targets"} \subseteq DOMAIN t
     /\ nodes \subseteq Nat /\ IsFiniteSet(nodes)
     /\ t.labels \in [nodes -> {"value", "closure", "static"}]
     /\ t.edges \in Seq(Wires(nodes))
     /\ t.sources \in Seq(nodes) /\ t.targets \in Seq(nodes)
     /\ \A e \in DOMAIN t.edges : t.edges[e].k = "eval" => Len(t.edges[e].src) >= 2

-----------------------------------------------------------------------------
\* Graphs.

LEMMA ListRange ==
  ASSUME NEW X, NEW s \in Seq(X)
  PROVE  /\ Len(s) \in Nat /\ DOMAIN s = 1..Len(s) /\ Range(s) \subseteq X /\ s \in Seq(Range(s))
         /\ \A i \in 1..Len(s) : s[i] \in X /\ s[i] \in Range(s)
<1>1. Len(s) \in Nat /\ DOMAIN s = 1..Len(s) /\ \A i \in 1..Len(s) : s[i] \in X
  OBVIOUS
<1>2. IsList(s)
  BY ListOf
<1> QED
  BY <1>1, <1>2 DEF Range, IsList

LEMMA ListIn ==
  ASSUME NEW X, NEW s \in Seq(X), NEW Y, Range(s) \subseteq Y
  PROVE  s \in Seq(Y)
<1>1. Len(s) \in Nat /\ s = [i \in 1..Len(s) |-> s[i]] /\ \A i \in 1..Len(s) : s[i] \in Y
  BY ListRange
<1>2. [i \in 1..Len(s) |-> s[i]] \in Seq(Y)
  BY <1>1
<1> QED
  BY <1>1, <1>2

LEMMA Single ==
  ASSUME NEW X, NEW x \in X
  PROVE  <<x>> \in Seq(X) /\ Len(<<x>>) = 1 /\ <<x>>[1] = x /\ Range(<<x>>) = {x}
BY DEF Range

\* The edges of a graph are places of a list, and its wires are nodes.
LEMMA GraphParts ==
  ASSUME NEW t, IsGraph(t)
  PROVE  /\ EdgesOf(t) = 1..Len(t.edges) /\ Len(t.edges) \in Nat
         /\ EdgesOf(t) \subseteq Nat /\ IsFiniteSet(EdgesOf(t))
         /\ \A e \in EdgesOf(t) :
              /\ t.edges[e] \in Wires(DOMAIN t.labels)
              /\ t.edges[e].src \in Seq(DOMAIN t.labels) /\ t.edges[e].tgt \in Seq(DOMAIN t.labels)
              /\ Sources(t, e) \subseteq DOMAIN t.labels /\ Targets(t, e) \subseteq DOMAIN t.labels
         /\ Range(t.sources) \subseteq DOMAIN t.labels /\ Range(t.targets) \subseteq DOMAIN t.labels
<1> DEFINE nodes == DOMAIN t.labels
<1>1. t.edges \in Seq(Wires(nodes)) /\ t.sources \in Seq(nodes) /\ t.targets \in Seq(nodes)
  BY DEF IsGraph
<1> HIDE DEF nodes
<1>2. /\ Len(t.edges) \in Nat /\ EdgesOf(t) = 1..Len(t.edges)
      /\ \A e \in EdgesOf(t) : t.edges[e] \in Wires(nodes)
  BY <1>1 DEF EdgesOf
<1>3. EdgesOf(t) \subseteq Nat /\ IsFiniteSet(EdgesOf(t))
  BY <1>2, FS_Interval
<1>4. ASSUME NEW e \in EdgesOf(t)
      PROVE  /\ t.edges[e].src \in Seq(nodes) /\ t.edges[e].tgt \in Seq(nodes)
             /\ Sources(t, e) \subseteq nodes /\ Targets(t, e) \subseteq nodes
  <2>1. t.edges[e].src \in Seq(nodes) /\ t.edges[e].tgt \in Seq(nodes)
    BY <1>2 DEF Wires
  <2> QED
    BY <2>1, ListRange DEF Sources, Targets
<1>5. Range(t.sources) \subseteq nodes /\ Range(t.targets) \subseteq nodes
  BY <1>1, ListRange
<1> QED
  BY <1>2, <1>3, <1>4, <1>5 DEF nodes

LEMMA GraphIsTerm ==
  ASSUME NEW t, IsGraph(t)
  PROVE  IsTerm(t)
<1>1. /\ t.labels \in [DOMAIN t.labels -> {"value", "closure", "static"}]
      /\ DOMAIN t.labels \subseteq Nat
  BY DEF IsGraph
<1>2. Produced(t, EdgesOf(t)) \subseteq DOMAIN t.labels /\ Consumed(t, EdgesOf(t)) \subseteq DOMAIN t.labels
  BY GraphParts DEF Produced, Consumed
<1> QED
  BY <1>1, <1>2, GraphParts DEF IsTerm

\* The edge w with other wires, and with another kind.
IsRewired(x, w, B, src, tgt) ==
  x \in Wires(B) /\ x.k = w.k /\ x.n = w.n /\ x.src = src /\ x.tgt = tgt

LEMMA Rewired ==
  ASSUME NEW A, NEW w, w \in Wires(A), NEW B, NEW src, src \in Seq(B), NEW tgt, tgt \in Seq(B)
  PROVE  IsRewired([w EXCEPT !.src = src, !.tgt = tgt], w, B, src, tgt)
BY DEF Wires, IsRewired

LEMMA NewEdge ==
  ASSUME NEW A, NEW k \in Kinds, NEW n \in Given, NEW src \in Seq(A), NEW tgt \in Seq(A)
  PROVE  LET w == Edge(k, n, src, tgt)
         IN w \in Wires(A) /\ w.k = k /\ w.n = n /\ w.src = src /\ w.tgt = tgt
BY DEF Wires, Edge

\* The wires ns with a and b in the place of n.
IsExpanded(s, ns, n, a, b) ==
  /\ s \in Seq((Range(ns) \ {n}) \cup {a, b})
  /\ Range(ns) \ {n} \subseteq Range(s)
  /\ n \notin Range(ns) => s \in Seq(Range(ns))
  /\ Len(ns) >= 2 =>
       Len(s) >= 2 /\ s[2] = (IF ns[1] = n THEN b ELSE IF ns[2] = n THEN a ELSE ns[2])

LEMMA ExpandedParts ==
  ASSUME NEW X, NEW ns, ns \in Seq(X), NEW n, NEW a, NEW b
  PROVE  IsExpanded(Expanded(ns, n, <<a, b>>), ns, n, a, b)
<1> DEFINE part(i) == IF ns[i] = n THEN <<a, b>> ELSE <<ns[i]>>
           parts == [i \in DOMAIN ns |-> part(i)]
           Y == (Range(ns) \ {n}) \cup {a, b}
           s == Expanded(ns, n, <<a, b>>)
<1>1. s = FlattenSeq(parts)
  BY DEF Expanded
<1>2. Len(ns) \in Nat /\ DOMAIN ns = 1..Len(ns) /\ \A i \in 1..Len(ns) : ns[i] \in Range(ns)
  BY ListRange
<1>a. \A i \in 1..Len(ns) : /\ ns[i] = n => part(i) = <<a, b>>
                            /\ ns[i] # n => part(i) = <<ns[i]>>
  OBVIOUS
<1>3. \A i \in 1..Len(ns) : part(i) \in Seq(Y)
  <2> TAKE i \in 1..Len(ns)
  <2>1. CASE ns[i] = n
    BY <2>1
  <2>2. CASE ns[i] # n
    BY <1>2, <2>2
  <2> QED
    BY <2>1, <2>2
<1>4. Len(parts) = Len(ns) /\ \A i \in 1..Len(ns) : parts[i] = part(i)
  BY <1>2
<1> HIDE DEF part, Y, s
<1>5. parts \in Seq(Seq(Y))
  BY <1>2, <1>3
<1> HIDE DEF parts
<1>6. /\ s \in Seq(Y) /\ \A i \in 1..Len(ns) : Range(part(i)) \subseteq Range(s)
  <2>1. /\ FlattenSeq(parts) \in Seq(Y)
        /\ \A i \in 1..Len(parts) : Range(parts[i]) \subseteq Range(FlattenSeq(parts))
    BY <1>5, Flattened
  <2> QED
    BY <1>1, <1>4, <2>1
<1>7. Range(ns) \ {n} \subseteq Range(s)
  <2> SUFFICES ASSUME NEW x \in Range(ns) \ {n} PROVE x \in Range(s)
    OBVIOUS
  <2>1. PICK i \in 1..Len(ns) : ns[i] = x
    BY <1>2 DEF Range
  <2>2. part(i) = <<x>>
    BY <1>a, <2>1
  <2>3. Range(<<x>>) = {x}
    BY DEF Range
  <2> QED
    BY <1>6, <2>2, <2>3
<1>8. ASSUME n \notin Range(ns) PROVE s \in Seq(Range(ns))
  <2>1. \A i \in 1..Len(ns) : parts[i] = <<ns[i]>> /\ ns[i] \in Range(ns)
    BY <1>2, <1>4, <1>8, <1>a
  <2> DEFINE R == Range(ns)
  <2> HIDE DEF R
  <2>b. \A i \in 1..Len(ns) : parts[i] = <<ns[i]>> /\ ns[i] \in R
    BY <2>1 DEF R
  <2>c. \A x \in R : <<x>> \in Seq(R)
    OBVIOUS
  <2>a. \A i \in 1..Len(ns) : parts[i] \in Seq(R)
    BY <2>b, <2>c
  <2>2. parts \in Seq(Seq(R))
    BY <1>2, <1>4, <1>5, <2>a
  <2>3. FlattenSeq(parts) \in Seq(R)
    BY <2>2, Flattened
  <2> QED
    BY <1>1, <2>3 DEF R
<1>9. ASSUME Len(ns) >= 2
      PROVE  Len(s) >= 2 /\ s[2] = IF ns[1] = n THEN b ELSE IF ns[2] = n THEN a ELSE ns[2]
  <2> DEFINE p == part(1)
             q == part(2)
             pq == p \o q
  <2> HIDE DEF p, q, pq
  <2>1. /\ Len(s) >= Len(p) + Len(q)
        /\ \A k \in 1..(Len(p) + Len(q)) : s[k] = pq[k]
    <3>1. Len(parts) >= 2 /\ parts[1] = p /\ parts[2] = q
      BY <1>2, <1>4, <1>9 DEF p, q
    <3>2. Len(parts) >= 2 =>
              /\ Len(FlattenSeq(parts)) >= Len(parts[1]) + Len(parts[2])
              /\ \A k \in 1..(Len(parts[1]) + Len(parts[2])) :
                   FlattenSeq(parts)[k] = (parts[1] \o parts[2])[k]
      BY <1>5, Flattened
    <3> QED
      BY <1>1, <3>1, <3>2 DEF pq
  <2>2. 1 \in 1..Len(ns) /\ 2 \in 1..Len(ns)
    BY <1>2, <1>9
  <2>a. Len(s) \in Nat
    BY <1>6
  <2>b. /\ p \in Seq(Y) /\ q \in Seq(Y)
        /\ ns[1] = n => p = <<a, b>>
        /\ ns[1] # n => p = <<ns[1]>>
        /\ ns[2] = n => q = <<a, b>>
        /\ ns[2] # n => q = <<ns[2]>>
    BY <1>3, <1>a, <2>2 DEF p, q
  <2>c. /\ Len(p) \in Nat /\ Len(q) \in Nat
        /\ \A i \in 1..Len(p) : pq[i] = p[i]
        /\ \A i \in 1..Len(q) : pq[Len(p) + i] = q[i]
    BY <2>b, Joined DEF pq
  <2>d. Len(q) >= 1 /\ q[1] = IF ns[2] = n THEN a ELSE ns[2]
    BY <2>b
  <2>3. CASE ns[1] = n
    <3>1. Len(p) = 2 /\ p[2] = b
      BY <2>3, <2>b
    <3>2. Len(s) >= 2 /\ s[2] = b
      BY <2>1, <2>a, <2>c, <3>1
    <3> QED
      BY <2>3, <3>2
  <2>4. CASE ns[1] # n
    <3>1. Len(p) = 1
      BY <2>4, <2>b
    <3>2. pq[1 + 1] = q[1]
      BY <2>c, <2>d, <3>1
    <3>3. Len(s) >= 2 /\ s[2] = q[1]
      BY <2>1, <2>a, <2>c, <2>d, <3>1, <3>2
    <3> QED
      BY <2>4, <2>d, <3>3
  <2> QED
    BY <2>3, <2>4
<1> QED
  BY <1>6, <1>7, <1>8, <1>9 DEF s, Y, IsExpanded

-----------------------------------------------------------------------------
\* Regions.

\* A region of a graph: its nodes are those of the graph, and what it does not
\* own it does not make.
IsRegion(t, r) ==
  /\ r.marker \in Markers(t) /\ r.closure \in Targets(t, r.marker)
  /\ r.closure \in DOMAIN t.labels /\ r.domain \in r.nodes /\ r.codomain \in r.nodes
  /\ r.edges \subseteq Ordinary(t)
  /\ r.nodes \subseteq DOMAIN t.labels
  /\ r.environment \subseteq r.nodes /\ r.context \subseteq r.nodes
  /\ Produced(t, r.edges) \cup Consumed(t, r.edges) \subseteq r.nodes
  /\ Produced(t, r.edges) \cap Outside(r) = {}

\* An edge of the region has with it the names that make what it uses.
HasItsNames(t, r) ==
  \A e \in r.edges : \A m \in Names(t) : Targets(t, m) \cap Sources(t, e) # {} => m \in r.edges

LEMMA StepsFinite ==
  ASSUME NEW t, IsGraph(t)
  PROVE  /\ \A s \in After(t) : s \in Ordinary(t) \X Ordinary(t)
         /\ \A s \in Before(t) : s \in Ordinary(t) \X Ordinary(t)
         /\ IsFiniteSet(After(t)) /\ \A S \in SUBSET Before(t) : IsFiniteSet(S)
<1> DEFINE O == Ordinary(t)
<1>1. IsFiniteSet(EdgesOf(t)) /\ O \in SUBSET EdgesOf(t)
  BY GraphParts DEF Ordinary
<1>2. IsFiniteSet(O)
  BY <1>1, FS_Subset
<1>3. IsFiniteSet(O \X O)
  BY <1>2, FS_Product
<1>4. After(t) \in SUBSET (O \X O)
  BY DEF After
<1>5. Before(t) \in SUBSET (O \X O)
  <2>1. \A s \in O \X O : <<s[2], s[1]>> \in O \X O
    OBVIOUS
  <2> QED
    BY <1>4, <2>1 DEF Before
<1> HIDE DEF O
<1>6. IsFiniteSet(After(t)) /\ \A S \in SUBSET Before(t) : IsFiniteSet(S)
  BY <1>3, <1>4, <1>5, FS_Subset
<1> QED
  BY <1>4, <1>5, <1>6 DEF O

LEMMA OrdinaryReached ==
  ASSUME NEW t, IsGraph(t), NEW steps, steps \subseteq After(t) \/ steps \subseteq Before(t),
         NEW E, E \subseteq Ordinary(t)
  PROVE  Reached(steps, E) \subseteq Ordinary(t)
<1>1. IsFiniteSet(steps) /\ \A s \in steps : s \in Ordinary(t) \X Ordinary(t)
  <2>1. CASE steps \subseteq After(t)
    <3>1. steps \in SUBSET After(t)
      BY <2>1
    <3> QED
      BY <2>1, <3>1, StepsFinite, FS_Subset
  <2>2. CASE steps \subseteq Before(t)
    BY <2>2, StepsFinite
  <2> QED
    BY <2>1, <2>2
<1>2. IsClosed(steps, Ordinary(t))
  BY <1>1 DEF IsClosed
<1> QED
  BY <1>1, <1>2, ReachedWithin

LEMMA FoundRegion ==
  ASSUME NEW t, IsGraph(t), ~InvalidMarker(t), NEW e \in Markers(t)
  PROVE  IsRegion(t, FindRegion(t, e)) /\ HasItsNames(t, FindRegion(t, e))
         /\ FindRegion(t, e).marker = e
<1> DEFINE nodes == DOMAIN t.labels
           domain == t.edges[e].src[1]
           codomain == t.edges[e].src[2]
           forward == Forward(t, domain)
           path == forward \cap (Backward(t, codomain) \cup DiscardTerminated(t, forward))
           edges == NamedDependencies(t, path)
           context == Free(t, edges, edges \cap Names(t))
           environment == EnvironmentNodes(t, edges, domain, codomain, context)
           r == FindRegion(t, e)
<1>1. e \in EdgesOf(t) /\ Len(t.edges[e].src) = 2 /\ Len(t.edges[e].tgt) = 1
  BY DEF InvalidMarker, Markers, OfKind
<1>2. /\ t.edges[e].src \in Seq(nodes) /\ t.edges[e].tgt \in Seq(nodes)
      /\ Sources(t, e) \subseteq nodes /\ Targets(t, e) \subseteq nodes
  BY <1>1, GraphParts
<1>3. domain \in nodes /\ codomain \in nodes /\ t.edges[e].tgt[1] \in Targets(t, e)
  <2>1. 1 \in 1..Len(t.edges[e].src) /\ 2 \in 1..Len(t.edges[e].src) /\ 1 \in 1..Len(t.edges[e].tgt)
    BY <1>1
  <2>2. t.edges[e].tgt[1] \in Range(t.edges[e].tgt)
    BY <1>2, <2>1, ListRange
  <2> QED
    BY <1>2, <2>1, <2>2, ListRange DEF Targets
<1>4. forward \subseteq Ordinary(t)
  <2>1. {f \in Ordinary(t) : domain \in Sources(t, f)} \subseteq Ordinary(t)
    OBVIOUS
  <2> QED
    BY <2>1, OrdinaryReached DEF Forward
<1>5. edges \subseteq Ordinary(t)
  <2>1. path \subseteq Ordinary(t)
    BY <1>4
  <2>2. {s \in Before(t) : s[2] \in Names(t)} \subseteq Before(t)
    OBVIOUS
  <2> HIDE DEF path
  <2> QED
    BY <2>1, <2>2, OrdinaryReached DEF NamedDependencies
<1>6. IsClosed({s \in Before(t) : s[2] \in Names(t)}, edges)
  <2>1. IsFiniteSet({s \in Before(t) : s[2] \in Names(t)})
    <3>1. {s \in Before(t) : s[2] \in Names(t)} \in SUBSET Before(t)
      OBVIOUS
    <3> QED
      BY <3>1, StepsFinite
  <2> QED
    BY <2>1, ReachedClosed DEF NamedDependencies
<1> HIDE DEF edges, path, forward
<1>7. r = [marker |-> e, domain |-> domain, codomain |-> codomain,
           closure |-> t.edges[e].tgt[1], edges |-> edges,
           context |-> context, environment |-> environment,
           nodes |-> {domain, codomain} \cup environment \cup context
                       \cup Produced(t, edges) \cup Consumed(t, edges)]
  BY DEF FindRegion, edges, path, forward
<1> HIDE DEF domain, codomain, context, environment, r
<1>8. /\ r.marker = e /\ r.domain = domain /\ r.codomain = codomain
      /\ r.closure = t.edges[e].tgt[1] /\ r.edges = edges
      /\ r.context = context /\ r.environment = environment
      /\ r.nodes = {domain, codomain} \cup environment \cup context
                       \cup Produced(t, edges) \cup Consumed(t, edges)
  BY <1>7
<1>9. Produced(t, edges) \subseteq nodes /\ Consumed(t, edges) \subseteq nodes
  BY <1>5, GraphParts DEF Produced, Consumed, Ordinary
<1>10. context \subseteq Consumed(t, edges) \ Produced(t, edges)
  BY DEF context, Free, Consumed
<1>11. environment \subseteq (Consumed(t, edges) \cup {codomain}) \ Produced(t, edges)
  BY DEF environment, EnvironmentNodes, Free
<1>12. IsRegion(t, r)
  BY <1>2, <1>3, <1>5, <1>8, <1>9, <1>10, <1>11 DEF IsRegion, Outside
<1>13. HasItsNames(t, r)
  <2> SUFFICES ASSUME NEW f \in edges, NEW m \in Names(t), Targets(t, m) \cap Sources(t, f) # {}
               PROVE  m \in edges
    BY <1>8 DEF HasItsNames
  <2>1. m \in Ordinary(t) /\ f \in Ordinary(t)
    <3>1. m \in EdgesOf(t) /\ t.edges[m].k # "marker"
      BY DEF Names, OfKind
    <3> QED
      BY <1>5, <3>1 DEF Ordinary, Markers, OfKind
  <2>2. <<m, f>> \in After(t)
    BY <2>1 DEF After
  <2>3. <<f, m>> \in Before(t)
    <3>1. <<<<m, f>>[2], <<m, f>>[1]>> \in Before(t)
      BY <2>2 DEF Before
    <3> QED
      BY <3>1
  <2>4. <<f, m>> \in {s \in Before(t) : s[2] \in Names(t)}
    BY <2>3
  <2> QED
    BY <1>6, <2>4 DEF IsClosed
<1> QED
  BY <1>8, <1>12, <1>13 DEF r

-----------------------------------------------------------------------------
\* The generated function.

LEMMA NodesFinite ==
  ASSUME NEW t, IsGraph(t), NEW S, S \subseteq DOMAIN t.labels
  PROVE  S \subseteq Nat /\ IsFiniteSet(S)
<1>1. S \in SUBSET DOMAIN t.labels /\ IsFiniteSet(DOMAIN t.labels) /\ DOMAIN t.labels \subseteq Nat
  BY DEF IsGraph
<1> QED
  BY <1>1, FS_Subset

LEMMA EdgesFinite ==
  ASSUME NEW t, IsGraph(t), NEW S, S \subseteq EdgesOf(t)
  PROVE  S \subseteq Nat /\ IsFiniteSet(S)
<1>1. S \in SUBSET EdgesOf(t) /\ IsFiniteSet(EdgesOf(t)) /\ EdgesOf(t) \subseteq Nat
  BY GraphParts
<1> QED
  BY <1>1, FS_Subset

\* The nodes that a list of edges needs.
Needed(edges) == UNION {Range(w.src) \cup Range(w.tgt) : w \in Range(edges)}

\* Edges between some nodes, and a label for each, are a graph.
LEMMA RestrictedGraph ==
  ASSUME NEW t, IsGraph(t), NEW edges \in Seq(Wires(DOMAIN t.labels)),
         NEW sources \in Seq(DOMAIN t.labels), NEW targets \in Seq(DOMAIN t.labels),
         \A i \in 1..Len(edges) : edges[i].k = "eval" => Len(edges[i].src) >= 2,
         NEW required, required \subseteq DOMAIN t.labels,
         Range(sources) \subseteq required, Range(targets) \subseteq required,
         Needed(edges) \subseteq required
  PROVE  IsGraph([edges |-> edges, labels |-> [n \in required |-> t.labels[n]],
                  sources |-> sources, targets |-> targets])
<1> DEFINE labels == [n \in required |-> t.labels[n]]
           g == [edges |-> edges, labels |-> labels, sources |-> sources, targets |-> targets]
<1>1. required \subseteq Nat /\ IsFiniteSet(required)
  BY NodesFinite
<1>2. labels \in [required -> {"value", "closure", "static"}] /\ DOMAIN labels = required
  BY DEF IsGraph
<1>3. sources \in Seq(required) /\ targets \in Seq(required)
  BY ListIn
<1>4. edges \in Seq(Wires(required))
  <2>1. ASSUME NEW w \in Range(edges) PROVE w \in Wires(required)
    <3>1. w \in Wires(DOMAIN t.labels)
      BY ListRange
    <3>2. Range(w.src) \subseteq required /\ Range(w.tgt) \subseteq required
      BY DEF Needed
    <3>3. w.src \in Seq(DOMAIN t.labels) /\ w.tgt \in Seq(DOMAIN t.labels)
      BY <3>1 DEF Wires
    <3>4. w.src \in Seq(required) /\ w.tgt \in Seq(required)
      BY <3>2, <3>3, ListIn
    <3> QED
      BY <3>1, <3>4 DEF Wires
  <2> QED
    BY <2>1, ListIn
<1>5. DOMAIN edges = 1..Len(edges)
  OBVIOUS
<1> HIDE DEF labels
<1>6. /\ g.edges = edges /\ g.labels = labels /\ g.sources = sources /\ g.targets = targets
      /\ DOMAIN g = {"edges", "labels", "sources", "targets"}
  OBVIOUS
<1> HIDE DEF g
<1>7. IsGraph(g)
  BY <1>1, <1>2, <1>3, <1>4, <1>5, <1>6 DEF IsGraph
<1> QED
  BY <1>7 DEF g, labels

LEMMA BodyParts ==
  ASSUME NEW t, IsGraph(t), NEW r, IsRegion(t, r), ~HasUnnamedEval(t, r)
  PROVE  LET b == BuildBody(t, r)
             c == Cardinality(Copied(t, r))
         IN /\ IsGraph(b) /\ c \in Nat /\ Len(b.edges) >= c
            /\ \A i \in 1..c : b.edges[i] = t.edges[Ascending(Copied(t, r))[i]]
            /\ \A i \in (c + 1)..Len(b.edges) : b.edges[i].k = "call"
<1> DEFINE nodes == DOMAIN t.labels
           name(e) == Min(NameOf(t, r, e))
           call(e) == Edge("call", t.edges[name(e)].n, <<t.edges[e].src[1]>>, t.edges[e].tgt)
           calls == Ascending(Evals(t, r))
           copied == Ascending(Copied(t, r))
           first == [i \in DOMAIN copied |-> t.edges[copied[i]]]
           second == [i \in DOMAIN calls |-> call(calls[i])]
           edges == first \o second
           boundary == Append(Ascending(r.environment), r.domain)
           required == Range(boundary) \cup {r.codomain} \cup Needed(edges)
           b == BuildBody(t, r)
           c == Cardinality(Copied(t, r))
<1>1. b = [edges |-> edges, labels |-> [n \in required |-> t.labels[n]],
           sources |-> boundary, targets |-> <<r.codomain>>]
  BY DEF BuildBody, Needed
<1>2. r.edges \subseteq EdgesOf(t) /\ Copied(t, r) \subseteq r.edges /\ Evals(t, r) \subseteq r.edges
  BY DEF IsRegion, Ordinary, Copied, Evals
<1>3. /\ copied \in Seq(Copied(t, r)) /\ Len(copied) = c /\ DOMAIN copied = 1..c /\ c \in Nat
      /\ calls \in Seq(Evals(t, r)) /\ DOMAIN calls = 1..Len(calls) /\ Len(calls) \in Nat
  <2>1. /\ Copied(t, r) \subseteq Nat /\ IsFiniteSet(Copied(t, r))
        /\ Evals(t, r) \subseteq Nat /\ IsFiniteSet(Evals(t, r))
    <3>1. Copied(t, r) \subseteq EdgesOf(t) /\ Evals(t, r) \subseteq EdgesOf(t)
      BY <1>2
    <3> QED
      BY <3>1, EdgesFinite
  <2> QED
    BY <2>1, AscendingList, ListRange
<1> HIDE DEF copied, calls
<1>4. ASSUME NEW e \in Evals(t, r) PROVE call(e) \in Wires(nodes) /\ call(e).k = "call"
  <2>1. e \in EdgesOf(t) /\ t.edges[e].k = "eval"
    BY <1>2 DEF Evals, OfKind
  <2>2. t.edges[e].src \in Seq(nodes) /\ t.edges[e].tgt \in Seq(nodes) /\ Len(t.edges[e].src) >= 2
    BY <2>1, GraphParts DEF IsGraph, EdgesOf
  <2>3. t.edges[e].src[1] \in nodes
    BY <2>2
  <2>4. NameOf(t, r, e) # {} /\ NameOf(t, r, e) \subseteq EdgesOf(t)
    BY <1>2 DEF HasUnnamedEval, NameOf
  <2>5. name(e) \in EdgesOf(t)
    <3>1. NameOf(t, r, e) \subseteq Nat
      BY <2>4, GraphParts
    <3> QED
      BY <2>4, <3>1, Least
  <2>6. t.edges[name(e)].n \in Given
    BY <2>5, GraphParts DEF Wires
  <2> HIDE DEF name
  <2>7. <<t.edges[e].src[1]>> \in Seq(nodes)
    BY <2>3, Single
  <2>8. "call" \in Kinds
    BY DEF Kinds
  <2> DEFINE src == <<t.edges[e].src[1]>>
             tgt == t.edges[e].tgt
             nm == t.edges[name(e)].n
  <2>9. src \in Seq(nodes) /\ tgt \in Seq(nodes) /\ nm \in Given
    BY <2>2, <2>6, <2>7
  <2>10. call(e) = Edge("call", nm, src, tgt)
    OBVIOUS
  <2> HIDE DEF nodes, src, tgt, nm, call
  <2>11. Edge("call", nm, src, tgt) \in Wires(nodes) /\ Edge("call", nm, src, tgt).k = "call"
    BY <2>8, <2>9, NewEdge
  <2> QED
    BY <2>10, <2>11
<1> HIDE DEF call
<1>5. /\ first \in Seq(Wires(nodes)) /\ Len(first) = c
      /\ \A i \in 1..c : first[i] = t.edges[copied[i]] /\ copied[i] \in Copied(t, r)
  <2>1. \A i \in 1..c : copied[i] \in Copied(t, r) /\ t.edges[copied[i]] \in Wires(nodes)
    <3>1. \A i \in 1..c : copied[i] \in Copied(t, r)
      BY <1>3, ListRange
    <3> QED
      BY <1>2, <3>1, GraphParts
  <2>2. first = [i \in 1..c |-> t.edges[copied[i]]]
    BY <1>3
  <2> HIDE DEF first
  <2>3. first \in Seq(Wires(nodes)) /\ Len(first) = c /\ \A i \in 1..c : first[i] = t.edges[copied[i]]
    BY <1>3, <2>1, <2>2
  <2> QED
    BY <2>1, <2>3
<1>6. /\ second \in Seq(Wires(nodes)) /\ Len(second) = Len(calls)
      /\ \A i \in 1..Len(calls) : second[i].k = "call"
  <2>1. \A i \in 1..Len(calls) : call(calls[i]) \in Wires(nodes) /\ call(calls[i]).k = "call"
    BY <1>3, <1>4, ListRange
  <2>2. second = [i \in 1..Len(calls) |-> call(calls[i])]
    BY <1>3
  <2> HIDE DEF second
  <2> QED
    BY <1>3, <2>1, <2>2
<1> HIDE DEF first, second, edges
<1>7. /\ edges \in Seq(Wires(nodes)) /\ Len(edges) = c + Len(calls)
      /\ \A i \in 1..c : edges[i] = first[i]
      /\ \A i \in 1..Len(calls) : edges[c + i] = second[i]
  <2>1. /\ edges \in Seq(Wires(nodes)) /\ Len(edges) = Len(first) + Len(second)
        /\ \A i \in 1..Len(first) : edges[i] = first[i]
        /\ \A i \in 1..Len(second) : edges[Len(first) + i] = second[i]
    <3> DEFINE W == Wires(nodes)
    <3> HIDE DEF W
    <3>1. first \in Seq(W) /\ second \in Seq(W)
      BY <1>5, <1>6 DEF W
    <3>2. /\ edges \in Seq(W) /\ Len(edges) = Len(first) + Len(second)
          /\ \A i \in 1..Len(first) : edges[i] = first[i]
          /\ \A i \in 1..Len(second) : edges[Len(first) + i] = second[i]
      BY <3>1, Joined DEF edges
    <3> QED
      BY <3>2 DEF W
  <2> QED
    BY <1>5, <1>6, <2>1
<1>8. /\ \A i \in 1..c : edges[i] = t.edges[copied[i]]
      /\ \A i \in (c + 1)..Len(edges) : edges[i].k = "call"
  <2>1. ASSUME NEW i \in (c + 1)..Len(edges) PROVE edges[i].k = "call"
    <3>1. i - c \in 1..Len(calls) /\ c + (i - c) = i
      BY <1>3, <1>7
    <3> QED
      BY <1>6, <1>7, <3>1
  <2> QED
    BY <1>5, <1>7, <2>1
<1>9. \A i \in 1..Len(edges) : edges[i].k = "eval" => Len(edges[i].src) >= 2
  <2>1. ASSUME NEW i \in 1..Len(edges), edges[i].k = "eval" PROVE Len(edges[i].src) >= 2
    <3>1. i \in 1..c
      BY <1>3, <1>7, <1>8, <2>1
    <3>2. edges[i] = t.edges[copied[i]] /\ copied[i] \in EdgesOf(t)
      BY <1>2, <1>5, <1>8, <3>1
    <3> QED
      BY <2>1, <3>2 DEF IsGraph, EdgesOf
  <2> QED
    BY <2>1
<1>10. Needed(edges) \subseteq nodes
  <2>1. ASSUME NEW w \in Range(edges) PROVE Range(w.src) \cup Range(w.tgt) \subseteq nodes
    <3>1. w \in Wires(nodes)
      BY <1>7, ListRange
    <3>2. w.src \in Seq(nodes) /\ w.tgt \in Seq(nodes)
      BY <3>1 DEF Wires
    <3> QED
      BY <3>2, ListRange
  <2> QED
    BY <2>1 DEF Needed
<1>11. boundary \in Seq(nodes)
  <2>1. r.environment \subseteq nodes /\ r.domain \in nodes
    BY DEF IsRegion
  <2>2. Ascending(r.environment) \in Seq(r.environment)
    BY <2>1, NodesFinite, AscendingList
  <2>3. Ascending(r.environment) \in Seq(nodes)
    BY <2>1, <2>2, SeqMonotonic
  <2> HIDE DEF nodes
  <2> QED
    BY <2>1, <2>3, AppendProperties
<1>12. <<r.codomain>> \in Seq(nodes) /\ Range(<<r.codomain>>) = {r.codomain} /\ r.codomain \in nodes
  <2>1. r.codomain \in nodes
    BY DEF IsRegion
  <2> QED
    BY <2>1, Single
<1> HIDE DEF boundary
<1>13. required \subseteq nodes
  BY <1>10, <1>11, <1>12, ListRange
<1>14. /\ Range(boundary) \subseteq required /\ Range(<<r.codomain>>) \subseteq required
       /\ Needed(edges) \subseteq required
  BY <1>12
<1> HIDE DEF required, b
<1>15. IsGraph(b)
  BY <1>1, <1>7, <1>9, <1>11, <1>12, <1>13, <1>14, RestrictedGraph
<1>16. b.edges = edges
  BY <1>1
<1> QED
  BY <1>3, <1>7, <1>8, <1>15, <1>16 DEF b, copied

-----------------------------------------------------------------------------
\* What replaces a region.

\* A value of new nodes: its edges use only what the region does not own, and
\* no edge of it is an operation of the program.  The second of the pair is
\* made by the name of a generated function.
IsValue(t, r, v) ==
  /\ DOMAIN v.labels \subseteq Nat /\ IsFiniteSet(DOMAIN v.labels)
  /\ DOMAIN v.labels \cap DOMAIN t.labels = {}
  /\ v.labels \in [DOMAIN v.labels -> {"value", "closure", "static"}]
  /\ v.edges \in Seq(Wires(Outside(r) \cup DOMAIN v.labels))
  /\ \A j \in 1..Len(v.edges) : /\ v.edges[j].k \in {"context", "op", "closure"}
                                /\ v.edges[j].k = "op" => v.edges[j].n = "pack"
                                /\ Range(v.edges[j].tgt) \subseteq DOMAIN v.labels
  /\ \E a, b \in DOMAIN v.labels :
       /\ v.targets = <<a, b>>
       /\ \E j \in 1..Len(v.edges) : v.edges[j].k = "closure" /\ b \in Range(v.edges[j].tgt)

\* Three edges in a row, or two.
LEMMA Row ==
  ASSUME NEW W, NEW x \in W, NEW y, NEW z \in W, y \in Seq(W), Len(y) <= 1
  PROVE  LET s == <<x>> \o y \o <<z>>
         IN /\ s \in Seq(W) /\ Len(s) = Len(y) + 2 /\ s[1] = x /\ s[Len(y) + 2] = z
            /\ Len(y) = 1 => s[2] = y[1]
<1> DEFINE p == <<x>>
           q == p \o y
           u == <<z>>
           s == q \o u
<1>1. p \in Seq(W) /\ Len(p) = 1 /\ p[1] = x /\ u \in Seq(W) /\ Len(u) = 1 /\ u[1] = z
  BY Single
<1> HIDE DEF p, u
<1>2. /\ q \in Seq(W) /\ Len(q) = 1 + Len(y) /\ Len(y) \in Nat
      /\ \A i \in 1..1 : q[i] = p[i]
      /\ \A i \in 1..Len(y) : q[1 + i] = y[i]
  <2>1. /\ q \in Seq(W) /\ Len(q) = Len(p) + Len(y) /\ Len(y) \in Nat
        /\ \A i \in 1..Len(p) : q[i] = p[i]
        /\ \A i \in 1..Len(y) : q[Len(p) + i] = y[i]
    <3>1. IsJoined(q, W, p, y)
      BY <1>1, JoinedTwo
    <3> HIDE DEF q
    <3> QED
      BY <1>1, <3>1 DEF IsJoined
  <2> QED
    BY <1>1, <2>1
<1> HIDE DEF q
<1>3. /\ s \in Seq(W) /\ Len(s) = Len(q) + 1
      /\ \A i \in 1..Len(q) : s[i] = q[i]
      /\ \A i \in 1..1 : s[Len(q) + i] = u[i]
  <2>1. /\ s \in Seq(W) /\ Len(s) = Len(q) + Len(u)
        /\ \A i \in 1..Len(q) : s[i] = q[i]
        /\ \A i \in 1..Len(u) : s[Len(q) + i] = u[i]
    BY <1>1, <1>2, Joined
  <2> QED
    BY <1>1, <2>1
<1> HIDE DEF s
<1>4. s[1] = x
  <2>1. 1 \in 1..Len(q) /\ 1 \in 1..1
    BY <1>2
  <2> QED
    BY <1>1, <1>2, <1>3, <2>1
<1>5. s[Len(y) + 2] = z
  <2>1. 1 \in 1..1 /\ Len(q) + 1 = Len(y) + 2
    BY <1>2
  <2>2. s[Len(q) + 1] = u[1]
    BY <1>3, <2>1
  <2> QED
    BY <1>1, <2>1, <2>2
<1>6. ASSUME Len(y) = 1 PROVE s[2] = y[1]
  <2>1. 1 \in 1..Len(y) /\ 2 \in 1..Len(q) /\ 1 + 1 = 2
    BY <1>2, <1>6
  <2>2. s[2] = q[2]
    BY <1>3, <2>1
  <2>3. q[1 + 1] = y[1]
    BY <1>2, <2>1
  <2> QED
    BY <2>1, <2>2, <2>3
<1> QED
  BY <1>2, <1>3, <1>4, <1>5, <1>6 DEF s, q, p, u

LEMMA ValueParts ==
  ASSUME NEW t, IsGraph(t), NEW r, IsRegion(t, r), NEW id \in Nat,
         NEW base \in Nat, \A n \in DOMAIN t.labels : n <= base
  PROVE  IsValue(t, r, ClosureValue(t, r, id, base))
<1> DEFINE captures == Ascending(r.environment)
           count == Len(captures)
           copies == [i \in 1..count |-> base + i]
           parameters == IF \E n \in r.nodes : t.labels[n] = "static"
                         THEN <<base + count + 1>> ELSE <<>>
           environment == IF count = 1 THEN base + 1 ELSE base + count + 2
           pointer == base + count + 3
           label(n) == IF n \in Range(copies) THEN t.labels[captures[n - base]]
                       ELSE IF n \in Range(parameters) THEN "static"
                       ELSE IF n = environment
                                 /\ \E c \in r.environment : t.labels[c] = "closure"
                            THEN "closure" ELSE "value"
           new == Range(copies) \cup Range(parameters) \cup {environment, pointer}
           projected == captures \o Ascending(r.context)
           copied == copies \o parameters
           context == Edge("context", id, projected, copied)
           pack == IF count = 1 THEN <<>> ELSE <<Edge("op", "pack", copies, <<environment>>)>>
           closure == Edge("closure", id, parameters, <<pointer>>)
           edges == <<context>> \o pack \o <<closure>>
           labels == [n \in new |-> label(n)]
           nodes == Outside(r) \cup new
           v == ClosureValue(t, r, id, base)
<1>1. v = [edges |-> edges, labels |-> labels, targets |-> <<environment, pointer>>]
  BY DEF ClosureValue
<1>2. /\ captures \in Seq(r.environment) /\ count \in Nat
      /\ Ascending(r.context) \in Seq(r.context)
      /\ r.environment \subseteq DOMAIN t.labels
  <2>1. r.environment \subseteq DOMAIN t.labels /\ r.context \subseteq DOMAIN t.labels
    BY DEF IsRegion
  <2>2. /\ r.environment \subseteq Nat /\ IsFiniteSet(r.environment)
        /\ r.context \subseteq Nat /\ IsFiniteSet(r.context)
    BY <2>1, NodesFinite
  <2>3. captures \in Seq(r.environment) /\ Ascending(r.context) \in Seq(r.context)
    BY <2>2, AscendingList
  <2> QED
    BY <2>1, <2>3, ListRange
<1> HIDE DEF captures, count
<1>3. /\ copies \in Seq(Range(copies)) /\ Len(copies) = count
      /\ \A n \in Range(copies) : n \in Nat /\ base < n /\ n <= base + count
  <2>1. \A i \in 1..count : copies[i] = base + i
    OBVIOUS
  <2>2. DOMAIN copies = 1..count
    OBVIOUS
  <2>3. copies = [i \in 1..count |-> copies[i]]
    BY <2>1
  <2> HIDE DEF copies
  <2>4. IsList(copies) /\ Len(copies) = count
    BY <1>2, <2>3, CountedIsList
  <2>5. \A n \in Range(copies) : n \in Nat /\ base < n /\ n <= base + count
    BY <1>2, <2>1, <2>2 DEF Range
  <2> QED
    BY <2>4, <2>5 DEF IsList
<1>4. /\ parameters \in Seq(Range(parameters))
      /\ \A n \in Range(parameters) : n = base + count + 1
  <2>1. /\ <<base + count + 1>> \in Seq({base + count + 1})
        /\ Range(<<base + count + 1>>) = {base + count + 1}
    BY Single
  <2>2. <<>> \in Seq(Range(<<>>)) /\ Range(<<>>) = {}
    BY DEF Range
  <2> QED
    BY <2>1, <2>2
<1> HIDE DEF parameters
<1>5. /\ environment \in Nat /\ base < environment /\ environment <= base + count + 3
      /\ pointer \in Nat /\ base < pointer
  BY <1>2
<1>6. ASSUME NEW n \in new PROVE n \in Nat /\ base < n /\ n <= base + count + 3
  BY <1>2, <1>3, <1>4, <1>5
<1>7. new \subseteq Nat /\ IsFiniteSet(new)
  <2>1. new \in SUBSET ((base + 1)..(base + count + 3))
    <3> HIDE DEF new
    <3> QED
      BY <1>2, <1>6
  <2>2. IsFiniteSet((base + 1)..(base + count + 3))
    <3>1. base + 1 \in Int /\ base + count + 3 \in Int
      BY <1>2
    <3> QED
      BY <3>1, FS_Interval
  <2> HIDE DEF new
  <2> QED
    BY <1>6, <2>1, <2>2, FS_Subset
<1>8. \A n \in new : label(n) \in {"value", "closure", "static"}
  <2> SUFFICES ASSUME NEW n \in new PROVE label(n) \in {"value", "closure", "static"}
    OBVIOUS
  <2>1. CASE n \in Range(copies)
    <3>1. n - base \in 1..count
      BY <1>2, <1>3, <2>1
    <3>2. captures[n - base] \in DOMAIN t.labels
      BY <1>2, <3>1, ListRange DEF count
    <3>3. t.labels[captures[n - base]] \in {"value", "closure", "static"}
      BY <3>2 DEF IsGraph
    <3> QED
      BY <2>1, <3>3
  <2>2. CASE n \notin Range(copies)
    BY <2>2
  <2> QED
    BY <2>1, <2>2
<1> HIDE DEF label, copies, environment, pointer
<1>9. /\ copies \in Seq(new) /\ parameters \in Seq(new)
      /\ <<environment>> \in Seq(new) /\ <<pointer>> \in Seq(new)
      /\ Range(<<pointer>>) = {pointer}
  <2>1. Range(copies) \subseteq new /\ Range(parameters) \subseteq new /\ environment \in new /\ pointer \in new
    OBVIOUS
  <2> HIDE DEF new
  <2>2. copies \in Seq(new) /\ parameters \in Seq(new)
    BY <1>3, <1>4, <2>1, ListIn
  <2> QED
    BY <2>1, <2>2, Single
<1>10. environment \in new /\ pointer \in new
  OBVIOUS
<1> HIDE DEF new
<1>11. copied \in Seq(new)
  BY <1>9, Joined
<1>12. projected \in Seq(Outside(r))
  <2>1. captures \in Seq(Outside(r)) /\ Ascending(r.context) \in Seq(Outside(r))
    BY <1>2, SeqMonotonic DEF Outside
  <2> QED
    BY <2>1, Joined
<1> HIDE DEF copied, projected
<1>13. ASSUME NEW s \in Seq(new) PROVE s \in Seq(nodes)
  BY <1>13, SeqMonotonic
<1>14. projected \in Seq(nodes)
  BY <1>12, SeqMonotonic
<1>b. /\ copies \in Seq(nodes) /\ parameters \in Seq(nodes)
      /\ <<environment>> \in Seq(nodes) /\ <<pointer>> \in Seq(nodes) /\ copied \in Seq(nodes)
  BY <1>9, <1>11, <1>13
<1>a. "context" \in Kinds /\ "op" \in Kinds /\ "closure" \in Kinds /\ id \in Given /\ "pack" \in Given
  BY DEF Kinds, Given
<1> HIDE DEF nodes
<1>15. context \in Wires(nodes) /\ context.k = "context" /\ context.tgt = copied
  BY <1>a, <1>b, <1>14, NewEdge
<1>16. closure \in Wires(nodes) /\ closure.k = "closure" /\ closure.tgt = <<pointer>>
  <2> DEFINE u == <<pointer>>
  <2> HIDE DEF u
  <2>1. u \in Seq(nodes)
    BY <1>b DEF u
  <2>2. /\ Edge("closure", id, parameters, u) \in Wires(nodes)
        /\ Edge("closure", id, parameters, u).k = "closure"
        /\ Edge("closure", id, parameters, u).tgt = u
    BY <1>a, <1>b, <2>1, NewEdge
  <2> QED
    BY <2>2 DEF u
<1>17. /\ pack \in Seq(Wires(nodes)) /\ Len(pack) <= 1 /\ Len(pack) \in Nat
       /\ Len(pack) = 1 => pack[1].k = "op" /\ pack[1].n = "pack" /\ pack[1].tgt = <<environment>>
  <2>0. /\ "op" \in Kinds /\ "pack" \in Given
        /\ copies \in Seq(nodes) /\ <<environment>> \in Seq(nodes)
    BY <1>a, <1>b
  <2> DEFINE u == <<environment>>
             w == Edge("op", "pack", copies, u)
  <2>1. w \in Wires(nodes) /\ w.k = "op" /\ w.n = "pack" /\ w.tgt = <<environment>>
    <3> HIDE DEF u
    <3>1. u \in Seq(nodes)
      BY <2>0 DEF u
    <3>2. w \in Wires(nodes)
      BY <2>0, <3>1, NewEdge
    <3>3. w.k = "op" /\ w.n = "pack" /\ w.tgt = u
      BY DEF Edge
    <3> QED
      BY <3>2, <3>3 DEF u
  <2> HIDE DEF w
  <2>2. <<w>> \in Seq(Wires(nodes)) /\ Len(<<w>>) = 1 /\ <<w>>[1] = w
    BY <2>1, Single
  <2>3. CASE count = 1
    <3>1. pack = <<>>
      BY <2>3
    <3>2. <<>> \in Seq(Wires(nodes)) /\ Len(<<>>) = 0
      OBVIOUS
    <3> HIDE DEF pack
    <3> QED
      BY <3>1, <3>2
  <2>4. CASE count # 1
    <3>1. pack = <<w>>
      BY <2>4 DEF w
    <3> HIDE DEF pack
    <3> QED
      BY <2>1, <2>2, <3>1
  <2> QED
    BY <2>3, <2>4
<1> HIDE DEF context, closure, pack
<1>18. /\ edges \in Seq(Wires(nodes)) /\ Len(edges) = Len(pack) + 2
       /\ edges[1] = context /\ edges[Len(pack) + 2] = closure
       /\ Len(pack) = 1 => edges[2] = pack[1]
  BY <1>15, <1>16, <1>17, Row
<1> HIDE DEF edges
<1>19. ASSUME NEW j \in 1..Len(edges)
       PROVE  /\ edges[j].k \in {"context", "op", "closure"}
              /\ edges[j].k = "op" => edges[j].n = "pack"
              /\ Range(edges[j].tgt) \subseteq new
  <2>1. CASE j = 1
    <3>1. edges[j] = context
      BY <1>18, <2>1
    <3> QED
      BY <1>11, <1>15, <3>1, ListRange
  <2>2. CASE j = Len(pack) + 2
    <3>1. edges[j] = closure
      BY <1>18, <2>2
    <3> QED
      BY <1>9, <1>10, <1>16, <3>1, ListRange
  <2>3. CASE j # 1 /\ j # Len(pack) + 2
    <3>1. Len(pack) = 1 /\ j = 2
      <4> DEFINE l == Len(pack)
      <4>1. l \in Nat /\ l <= 1 /\ j \in 1..(l + 2)
        BY <1>17, <1>18
      <4> HIDE DEF l
      <4>2. j # 1 /\ j # l + 2
        BY <2>3 DEF l
      <4>3. l = 1 /\ j = 2
        BY <4>1, <4>2
      <4> QED
        BY <4>3 DEF l
    <3>2. edges[j] = pack[1]
      BY <1>18, <3>1
    <3> QED
      BY <1>9, <1>17, <3>1, <3>2, ListRange
  <2> QED
    BY <2>1, <2>2, <2>3
<1>20. \E j \in 1..Len(edges) : edges[j].k = "closure" /\ pointer \in Range(edges[j].tgt)
  <2>1. Len(pack) + 2 \in 1..Len(edges)
    BY <1>17, <1>18
  <2> QED
    BY <1>9, <1>16, <1>18, <2>1
<1>21. labels \in [new -> {"value", "closure", "static"}] /\ DOMAIN labels = new
  BY <1>8
<1> HIDE DEF labels
<1>22. v.edges = edges /\ v.labels = labels /\ v.targets = <<environment, pointer>>
  BY <1>1
<1>23. new \cap DOMAIN t.labels = {}
  <2>1. ASSUME NEW n \in new, n \in DOMAIN t.labels PROVE FALSE
    BY <1>6, <2>1
  <2> QED
    BY <2>1
<1> HIDE DEF v
<1>24. v.edges \in Seq(Wires(Outside(r) \cup DOMAIN v.labels))
  BY <1>18, <1>21, <1>22 DEF nodes
<1>25. IsValue(t, r, v)
  BY <1>7, <1>10, <1>19, <1>20, <1>21, <1>22, <1>23, <1>24 DEF IsValue
<1> QED
  BY <1>25 DEF v

LEMMA WiresIn ==
  ASSUME NEW A, NEW B, A \subseteq B
  PROVE  Wires(A) \subseteq Wires(B) /\ Seq(Wires(A)) \subseteq Seq(Wires(B))
<1>1. Seq(A) \subseteq Seq(B)
  BY SeqMonotonic
<1>2. Wires(A) \subseteq Wires(B)
  BY <1>1 DEF Wires
<1> QED
  BY <1>2, SeqMonotonic

LEMMA SplicedParts ==
  ASSUME NEW t, IsGraph(t), NEW r, IsRegion(t, r), NEW v, IsValue(t, r, v),
         ~HasDeletedBoundary(t, r)
  PROVE  LET g == Spliced(t, r, v)
             place == Ascending(Kept(t, r))
             k == Cardinality(Kept(t, r))
         IN /\ IsGraph(g) /\ k \in Nat /\ Len(g.edges) = k + Len(v.edges)
            /\ \A i \in 1..k : /\ g.edges[i].k = t.edges[place[i]].k
                               /\ g.edges[i].n = t.edges[place[i]].n
                               /\ g.edges[i].src = Expanded(t.edges[place[i]].src, r.closure, v.targets)
                               /\ g.edges[i].tgt = Expanded(t.edges[place[i]].tgt, r.closure, v.targets)
            /\ \A j \in 1..Len(v.edges) : g.edges[k + j] = v.edges[j]
<1> DEFINE old == DOMAIN t.labels
           fresh == DOMAIN v.labels
           nodes == (old \ Deleted(r)) \cup fresh
           place == Ascending(Kept(t, r))
           k == Cardinality(Kept(t, r))
           expand(ns) == Expanded(ns, r.closure, v.targets)
           kept == [i \in DOMAIN place |-> [t.edges[place[i]] EXCEPT !.src = expand(@),
                                                                   !.tgt = expand(@)]]
           edges == kept \o v.edges
           labels == [n \in nodes |-> IF n \in fresh THEN v.labels[n] ELSE t.labels[n]]
           rest == {i \in DOMAIN t.sources : t.sources[i] # r.closure}
           sources == Picked(t.sources, rest)
           targets == expand(t.targets)
           g == Spliced(t, r, v)
<1>1. g = [edges |-> edges, labels |-> labels, sources |-> sources, targets |-> targets]
  BY DEF Spliced
<1>3. ASSUME NEW ns \in Seq(old), Range(ns) \cap (Deleted(r) \ {r.closure}) = {}
      PROVE  expand(ns) \in Seq(nodes) /\ (Len(ns) >= 2 => Len(expand(ns)) >= 2)
  <2>0. PICK a \in fresh, b \in fresh : v.targets = <<a, b>>
    BY DEF IsValue
  <2>1. /\ expand(ns) \in Seq((Range(ns) \ {r.closure}) \cup {a, b})
        /\ Len(ns) >= 2 => Len(expand(ns)) >= 2
    <3>1. IsExpanded(expand(ns), ns, r.closure, a, b)
      BY <2>0, ExpandedParts
    <3> QED
      BY <3>1 DEF IsExpanded
  <2>2. Range(ns) \subseteq old
    BY ListRange
  <2>3. (Range(ns) \ {r.closure}) \cup {a, b} \subseteq nodes
    BY <1>3, <2>2
  <2> HIDE DEF expand, nodes
  <2> QED
    BY <2>1, <2>3, SeqMonotonic
<1>4. Kept(t, r) \subseteq EdgesOf(t) /\ \A e \in Kept(t, r) : Incident(t, e) \cap (Deleted(r) \ {r.closure}) = {}
  BY DEF Kept, HasDeletedBoundary
<1>5. /\ place \in Seq(Kept(t, r)) /\ DOMAIN place = 1..k /\ k \in Nat
      /\ \A i \in 1..k : place[i] \in Kept(t, r)
  <2>1. Kept(t, r) \subseteq Nat /\ IsFiniteSet(Kept(t, r))
    BY <1>4, EdgesFinite
  <2> QED
    BY <2>1, AscendingList, ListRange
<1> HIDE DEF place, expand, nodes
<1>6. ASSUME NEW e \in Kept(t, r)
      PROVE  LET w == [t.edges[e] EXCEPT !.src = expand(@), !.tgt = expand(@)]
             IN /\ w \in Wires(nodes) /\ w.k = t.edges[e].k /\ w.n = t.edges[e].n
                /\ w.src = expand(t.edges[e].src) /\ w.tgt = expand(t.edges[e].tgt)
                /\ w.k = "eval" => Len(w.src) >= 2
  <2> DEFINE o == t.edges[e]
             src == expand(o.src)
             tgt == expand(o.tgt)
             w == [o EXCEPT !.src = src, !.tgt = tgt]
  <2>1. /\ e \in EdgesOf(t) /\ o \in Wires(old) /\ o.src \in Seq(old) /\ o.tgt \in Seq(old)
    BY <1>4, GraphParts
  <2>2. Range(o.src) \cap (Deleted(r) \ {r.closure}) = {} /\ Range(o.tgt) \cap (Deleted(r) \ {r.closure}) = {}
    BY <1>4 DEF Incident, Sources, Targets
  <2>3. /\ src \in Seq(nodes) /\ tgt \in Seq(nodes)
        /\ o.k = "eval" => Len(src) >= 2
    <3>1. o.k = "eval" => Len(o.src) >= 2
      BY <2>1 DEF IsGraph, EdgesOf
    <3> QED
      BY <1>3, <2>1, <2>2, <3>1
  <2>4. [o EXCEPT !.src = expand(@), !.tgt = expand(@)] = w
    BY <2>1 DEF Wires
  <2> HIDE DEF src, tgt, o, fresh, old
  <2>5. w \in Wires(nodes) /\ w.k = o.k /\ w.n = o.n /\ w.src = src /\ w.tgt = tgt
    <3>1. IsRewired(w, o, nodes, src, tgt)
      BY <2>1, <2>3, Rewired
    <3> QED
      BY <3>1 DEF IsRewired
  <2> HIDE DEF w
  <2>6. /\ w \in Wires(nodes) /\ w.k = o.k /\ w.n = o.n /\ w.src = src /\ w.tgt = tgt
        /\ w.k = "eval" => Len(w.src) >= 2
    BY <2>3, <2>5
  <2> QED
    BY <2>4, <2>6 DEF o, src, tgt
<1>7. /\ kept \in Seq(Wires(nodes)) /\ Len(kept) = k
      /\ \A i \in 1..k : /\ kept[i].k = t.edges[place[i]].k
                         /\ kept[i].n = t.edges[place[i]].n
                         /\ kept[i].src = expand(t.edges[place[i]].src)
                         /\ kept[i].tgt = expand(t.edges[place[i]].tgt)
                         /\ kept[i].k = "eval" => Len(kept[i].src) >= 2
  <2> DEFINE w(e) == [t.edges[e] EXCEPT !.src = expand(@), !.tgt = expand(@)]
  <2>1. kept = [i \in 1..k |-> w(place[i])]
    BY <1>5
  <2>2. \A e \in Kept(t, r) :
          /\ w(e) \in Wires(nodes) /\ w(e).k = t.edges[e].k /\ w(e).n = t.edges[e].n
          /\ w(e).src = expand(t.edges[e].src) /\ w(e).tgt = expand(t.edges[e].tgt)
          /\ w(e).k = "eval" => Len(w(e).src) >= 2
    BY <1>6
  <2> HIDE DEF w, kept
  <2>3. \A i \in 1..k : kept[i] = w(place[i])
    BY <2>1
  <2>4. kept \in Seq(Wires(nodes)) /\ Len(kept) = k
    BY <1>5, <2>1, <2>2
  <2> QED
    BY <1>5, <2>2, <2>3, <2>4
<1> HIDE DEF kept
<1>8. Outside(r) \subseteq old \ Deleted(r)
  BY DEF IsRegion, HasDeletedBoundary, Outside, Deleted
<1>9. v.edges \in Seq(Wires(nodes))
  <2>1. Outside(r) \cup fresh \subseteq nodes
    BY <1>8 DEF nodes
  <2>2. v.edges \in Seq(Wires(Outside(r) \cup fresh))
    BY DEF IsValue
  <2> QED
    BY <2>1, <2>2, WiresIn
<1>10. /\ edges \in Seq(Wires(nodes)) /\ Len(edges) = k + Len(v.edges) /\ Len(v.edges) \in Nat
       /\ \A i \in 1..k : edges[i] = kept[i]
       /\ \A j \in 1..Len(v.edges) : edges[k + j] = v.edges[j]
  <2> DEFINE W == Wires(nodes)
             new == v.edges
             pq == kept \o new
  <2>1. kept \in Seq(W) /\ new \in Seq(W) /\ Len(kept) = k
    BY <1>7, <1>9
  <2> HIDE DEF W, new, pq, fresh
  <2>2. /\ pq \in Seq(W) /\ Len(pq) = Len(kept) + Len(new) /\ Len(new) \in Nat
        /\ \A i \in 1..Len(kept) : pq[i] = kept[i]
        /\ \A j \in 1..Len(new) : pq[Len(kept) + j] = new[j]
    <3>1. IsJoined(pq, W, kept, new)
      BY <2>1, JoinedTwo DEF pq
    <3> QED
      BY <3>1 DEF IsJoined
  <2>3. edges = pq
    BY DEF pq, new
  <2> HIDE DEF edges
  <2> QED
    BY <2>1, <2>2, <2>3 DEF W, new
<1> HIDE DEF edges
<1>11. \A i \in DOMAIN edges : edges[i].k = "eval" => Len(edges[i].src) >= 2
  <2> SUFFICES ASSUME NEW i \in 1..Len(edges), edges[i].k = "eval" PROVE Len(edges[i].src) >= 2
    BY <1>10
  <2>1. CASE i \in 1..k
    BY <1>7, <1>10, <2>1
  <2>2. CASE i \notin 1..k
    <3>1. i - k \in 1..Len(v.edges) /\ k + (i - k) = i
      BY <1>5, <1>10, <2>2
    <3>2. edges[i] = v.edges[i - k] /\ v.edges[i - k].k \in {"context", "op", "closure"}
      BY <1>10, <3>1 DEF IsValue
    <3> QED
      BY <3>2
  <2> QED
    BY <2>1, <2>2
<1>12. labels \in [nodes -> {"value", "closure", "static"}] /\ DOMAIN labels = nodes
  BY DEF IsGraph, IsValue, nodes
<1> HIDE DEF labels
<1>13. nodes \subseteq Nat /\ IsFiniteSet(nodes)
  <2>1. IsFiniteSet(old \ Deleted(r)) /\ IsFiniteSet(fresh) /\ fresh \subseteq Nat /\ old \subseteq Nat
    BY NodesFinite DEF IsValue, IsGraph
  <2> QED
    BY <2>1, FS_Union DEF nodes
<1>a. (Range(t.sources) \cup Range(t.targets)) \cap (Deleted(r) \ {r.closure}) = {}
  BY DEF HasDeletedBoundary
<1>b. t.sources \in Seq(old) /\ t.targets \in Seq(old)
  BY DEF IsGraph
<1>14. sources \in Seq(nodes)
  <2>1. IsList(t.sources) /\ rest \subseteq DOMAIN t.sources
    BY <1>b, ListOf
  <2>2. IsList(sources) /\ Len(sources) = Cardinality(rest)
    BY <2>1, PickedIsList
  <2>3. \A i \in 1..Cardinality(rest) : \E n \in rest : sources[i] = t.sources[n]
    <3> HIDE DEF rest
    <3> QED
      BY <2>1, PickedFrom
  <2>4. \A n \in rest : t.sources[n] \in nodes
    <3> SUFFICES ASSUME NEW n \in rest PROVE t.sources[n] \in nodes
      OBVIOUS
    <3>1. n \in 1..Len(t.sources) /\ t.sources[n] # r.closure
      BY <1>b, ListRange
    <3>2. t.sources[n] \in Range(t.sources) /\ t.sources[n] \in old
      BY <1>b, <3>1, ListRange
    <3> QED
      BY <1>a, <3>1, <3>2 DEF nodes
  <2> HIDE DEF rest, sources
  <2>5. sources \in Seq(Range(sources)) /\ DOMAIN sources = 1..Len(sources)
    BY <2>2, Lists DEF IsList
  <2>6. Range(sources) \subseteq nodes
    BY <2>2, <2>3, <2>4, <2>5 DEF Range
  <2> QED
    BY <2>5, <2>6, ListIn
<1>15. targets \in Seq(nodes)
  BY <1>3, <1>a, <1>b
<1> HIDE DEF sources, targets
<1>16. /\ g.edges = edges /\ g.labels = labels /\ g.sources = sources /\ g.targets = targets
       /\ DOMAIN g = {"edges", "labels", "sources", "targets"}
  BY <1>1
<1> HIDE DEF g
<1>17. IsGraph(g)
  BY <1>10, <1>11, <1>12, <1>13, <1>14, <1>15, <1>16 DEF IsGraph
<1> QED
  BY <1>5, <1>7, <1>10, <1>16, <1>17 DEF g, place, expand

-----------------------------------------------------------------------------
\* Primitives that get their converted form.

\* The edges of g are those of t, but that operations may be converted.
IsConverted(g, t) ==
  /\ IsGraph(g) /\ DOMAIN g.edges = DOMAIN t.edges /\ g.labels = t.labels
  /\ g.sources = t.sources /\ g.targets = t.targets
  /\ \A e \in DOMAIN t.edges :
       /\ g.edges[e].n = t.edges[e].n
       /\ g.edges[e].src = t.edges[e].src /\ g.edges[e].tgt = t.edges[e].tgt
       /\ g.edges[e].k = t.edges[e].k \/ (t.edges[e].k = "op" /\ g.edges[e].k = "converted")

LEMMA ConvertedEdges ==
  ASSUME NEW t, IsGraph(t), NEW P, P \subseteq OfKind(t, "op"), NEW edges,
         edges = [e \in DOMAIN t.edges |->
                    IF e \in P THEN [t.edges[e] EXCEPT !.k = "converted"] ELSE t.edges[e]],
         NEW g, g = [t EXCEPT !.edges = edges]
  PROVE  IsConverted(g, t)
<1> DEFINE nodes == DOMAIN t.labels
           w(e) == [t.edges[e] EXCEPT !.k = "converted"]
<1>1. \A e \in DOMAIN t.edges : t.edges[e] \in Wires(nodes)
  BY GraphParts DEF EdgesOf
<1>2. \A e \in DOMAIN t.edges :
        /\ w(e) \in Wires(nodes) /\ w(e).k = "converted" /\ w(e).n = t.edges[e].n
        /\ w(e).src = t.edges[e].src /\ w(e).tgt = t.edges[e].tgt
  BY <1>1 DEF Wires, Kinds
<1>3. Len(t.edges) \in Nat /\ DOMAIN t.edges = 1..Len(t.edges)
  BY GraphParts DEF EdgesOf
<1> HIDE DEF w
<1>4. \A e \in DOMAIN t.edges : edges[e] = IF e \in P THEN w(e) ELSE t.edges[e]
  BY DEF w
<1>5. edges \in Seq(Wires(nodes)) /\ DOMAIN edges = DOMAIN t.edges
  <2>1. \A e \in 1..Len(t.edges) : edges[e] \in Wires(nodes)
    <3> SUFFICES ASSUME NEW e \in DOMAIN t.edges PROVE edges[e] \in Wires(nodes)
      BY <1>3
    <3>1. t.edges[e] \in Wires(nodes) /\ w(e) \in Wires(nodes)
      BY <1>1, <1>2
    <3> HIDE DEF nodes
    <3> QED
      BY <1>4, <3>1
  <2>2. edges = [e \in 1..Len(t.edges) |-> edges[e]]
    BY <1>3
  <2> DEFINE W == Wires(nodes)
             k == Len(t.edges)
  <2> HIDE DEF W, k
  <2>3. /\ k \in Nat /\ Counts(edges, k) /\ \A e \in 1..k : edges[e] \in W
    BY <1>3, <2>1, <2>2 DEF W, k, Counts
  <2>4. edges \in Seq(W) /\ DOMAIN edges = 1..k
    BY <2>3, Counted
  <2> QED
    BY <1>3, <2>4 DEF W, k
<1>6. ASSUME NEW e \in DOMAIN t.edges
      PROVE  /\ edges[e].n = t.edges[e].n
             /\ edges[e].src = t.edges[e].src /\ edges[e].tgt = t.edges[e].tgt
             /\ edges[e].k = t.edges[e].k \/ (t.edges[e].k = "op" /\ edges[e].k = "converted")
             /\ edges[e].k = "eval" => Len(edges[e].src) >= 2
  <2>1. t.edges[e].k = "eval" => Len(t.edges[e].src) >= 2
    BY DEF IsGraph
  <2>2. CASE e \in P
    <3>1. t.edges[e].k = "op"
      BY <2>2 DEF OfKind
    <3> QED
      BY <1>2, <1>4, <2>2, <3>1
  <2>3. CASE e \notin P
    BY <1>4, <2>1, <2>3
  <2> QED
    BY <2>2, <2>3
<1>7. /\ g.edges = edges /\ g.labels = t.labels /\ g.sources = t.sources /\ g.targets = t.targets
      /\ DOMAIN g = DOMAIN t
  BY DEF IsGraph
<1>8. IsGraph(g)
  BY <1>5, <1>6, <1>7 DEF IsGraph
<1> QED
  <2>1. DOMAIN g.edges = DOMAIN t.edges /\ g.labels = t.labels
    BY <1>5, <1>7
  <2>2. \A e \in DOMAIN t.edges :
          /\ g.edges[e].n = t.edges[e].n
          /\ g.edges[e].src = t.edges[e].src /\ g.edges[e].tgt = t.edges[e].tgt
          /\ g.edges[e].k = t.edges[e].k \/ (t.edges[e].k = "op" /\ g.edges[e].k = "converted")
    BY <1>6, <1>7
  <2> QED
    BY <1>7, <1>8, <2>1, <2>2 DEF IsConverted

\* What is no closure is not waited for.
IsReady(t, e) == t.edges[e].n \in Primitives /\ \A n \in Sources(t, e) : t.labels[n] # "closure"

LEMMA RewrittenParts ==
  ASSUME NEW t, IsGraph(t)
  PROVE  /\ IsConverted(Rewritten(t), t)
         /\ \A e \in OfKind(Rewritten(t), "op") : ~IsReady(t, e)
<1> DEFINE ready(e) == /\ t.edges[e].k = "op"
                       /\ t.edges[e].n \in Primitives
                       /\ \A n \in Sources(t, e) : t.labels[n] # "closure"
           P == {e \in DOMAIN t.edges : ready(e)}
           edges == [e \in DOMAIN t.edges |->
                       IF e \in P THEN [t.edges[e] EXCEPT !.k = "converted"] ELSE t.edges[e]]
<1>1. P \subseteq OfKind(t, "op")
  BY DEF OfKind, EdgesOf
<1>2. edges = [e \in DOMAIN t.edges |->
                 IF ready(e) THEN [t.edges[e] EXCEPT !.k = "converted"] ELSE t.edges[e]]
  OBVIOUS
<1>3. Rewritten(t) = [t EXCEPT !.edges = edges]
  BY <1>2 DEF Rewritten, IsGraph
<1>4. edges = [e \in DOMAIN t.edges |->
                 IF e \in P THEN [t.edges[e] EXCEPT !.k = "converted"] ELSE t.edges[e]]
  OBVIOUS
<1>5. ASSUME NEW e \in OfKind(Rewritten(t), "op"), IsReady(t, e) PROVE FALSE
  <2>1. Rewritten(t).edges = edges
    BY <1>3 DEF IsGraph
  <2>2. e \in DOMAIN t.edges /\ edges[e].k = "op"
    BY <2>1 DEF OfKind, EdgesOf
  <2>3. t.edges[e] \in Wires(DOMAIN t.labels)
    BY <2>2, GraphParts DEF EdgesOf
  <2>4. [t.edges[e] EXCEPT !.k = "converted"].k = "converted"
    BY <2>3 DEF Wires
  <2>5. t.edges[e].k # "op"
    BY <1>5, <2>2, <2>4 DEF IsReady
  <2> QED
    BY <2>2, <2>4, <2>5
<1> HIDE DEF P, edges
<1> QED
  BY <1>1, <1>3, <1>4, <1>5, ConvertedEdges

LEMMA ConvertedParts ==
  ASSUME NEW t, IsGraph(t)
  PROVE  IsConverted(Converted(t), t)
<1> DEFINE ready(e) == t.edges[e].k = "op" /\ t.edges[e].n \in Primitives
           P == {e \in DOMAIN t.edges : ready(e)}
           edges == [e \in DOMAIN t.edges |->
                       IF e \in P THEN [t.edges[e] EXCEPT !.k = "converted"] ELSE t.edges[e]]
<1>1. P \subseteq OfKind(t, "op")
  BY DEF OfKind, EdgesOf
<1>2. edges = [e \in DOMAIN t.edges |->
                 IF ready(e) THEN [t.edges[e] EXCEPT !.k = "converted"] ELSE t.edges[e]]
  OBVIOUS
<1>3. Converted(t) = [t EXCEPT !.edges = edges]
  BY <1>2 DEF Converted, IsGraph
<1>4. edges = [e \in DOMAIN t.edges |->
                 IF e \in P THEN [t.edges[e] EXCEPT !.k = "converted"] ELSE t.edges[e]]
  OBVIOUS
<1> HIDE DEF P, edges
<1> QED
  BY <1>1, <1>3, <1>4, ConvertedEdges

-----------------------------------------------------------------------------
\* The end of the pass.

\* A projection makes higher nodes of lower ones, and those it has no source for
\* are static.
Ascends(t, src, tgt) ==
  LET same(i) == i \in DOMAIN src /\ t.labels[src[i]] = t.labels[tgt[i]]
  IN /\ \A n \in Range(src) : \A m \in Range(tgt) : n < m
     /\ \A i, l \in DOMAIN tgt : tgt[i] = tgt[l] => i = l
     /\ \A i \in DOMAIN tgt : t.labels[tgt[i]] = "static" \/ \A l \in 1..i : same(l)

\* Each target that is not static is joined once, to a source.
IsWiring(w, t, e) ==
  /\ \A k \in 1..Len(w) : w[k][1] \in Targets(t, e) /\ w[k][2] \in Sources(t, e)
  /\ \A k, l \in 1..Len(w) : w[k][1] = w[l][1] => k = l
  /\ \A n \in Targets(t, e) : t.labels[n] = "static" \/ \E k \in 1..Len(w) : w[k][1] = n

LEMMA ContextPairs ==
  ASSUME NEW t, IsGraph(t), NEW e, e \in EdgesOf(t)
  PROVE  /\ ContextWires(t, e) \in Seq((DOMAIN t.labels) \X (DOMAIN t.labels))
         /\ Ascends(t, t.edges[e].src, t.edges[e].tgt) => IsWiring(ContextWires(t, e), t, e)
<1> DEFINE nodes == DOMAIN t.labels
           src == t.edges[e].src
           tgt == t.edges[e].tgt
           same(i) == i \in DOMAIN src /\ t.labels[src[i]] = t.labels[tgt[i]]
           prefix(i) == \A j \in 1..i : same(j)
           static == {j \in DOMAIN src : t.labels[src[j]] = "static"}
           places == {i \in DOMAIN tgt : prefix(i) \/ static # {}}
           wired == Ascending(places)
           from(i) == IF prefix(i) THEN src[i] ELSE src[Min(static)]
           pair(k) == <<tgt[wired[k]], from(wired[k])>>
<1>1. ContextWires(t, e) = [k \in DOMAIN wired |-> pair(k)]
  BY DEF ContextWires
<1>2. /\ src \in Seq(nodes) /\ tgt \in Seq(nodes)
      /\ Sources(t, e) = Range(src) /\ Targets(t, e) = Range(tgt)
  BY GraphParts DEF Sources, Targets
<1>8. Ascends(t, src, tgt) => /\ \A i, l \in DOMAIN tgt : tgt[i] = tgt[l] => i = l
                             /\ \A i \in DOMAIN tgt : t.labels[tgt[i]] = "static" \/ i \in places
  BY DEF Ascends
<1> HIDE DEF src, tgt, nodes
<1>3. ASSUME NEW i \in places
      PROVE  /\ i \in Nat /\ i \in DOMAIN tgt /\ tgt[i] \in nodes /\ from(i) \in nodes
             /\ from(i) \in Range(src)
  <2>1. i \in 1..Len(tgt) /\ i \in DOMAIN tgt /\ tgt[i] \in nodes
    BY <1>2
  <2>2. CASE prefix(i)
    <3>1. i \in 1..i
      BY <2>1
    <3>2. i \in DOMAIN src
      BY <2>2, <3>1
    <3>3. src[i] \in nodes /\ src[i] \in Range(src)
      BY <1>2, <3>2 DEF Range
    <3>4. from(i) = src[i]
      BY <2>2
    <3> QED
      BY <2>1, <3>3, <3>4
  <2>3. CASE ~prefix(i)
    <3>1. static # {} /\ static \subseteq DOMAIN src
      BY <2>3
    <3>2. static \subseteq Nat
      BY <1>2
    <3>3. from(i) = src[Min(static)]
      BY <2>3
    <3> HIDE DEF static, from
    <3>4. Min(static) \in DOMAIN src
      BY <3>1, <3>2, Least
    <3>5. src[Min(static)] \in nodes /\ src[Min(static)] \in Range(src)
      BY <1>2, <3>4 DEF Range
    <3> QED
      BY <2>1, <3>3, <3>5
  <2> QED
    BY <2>2, <2>3
<1>4. /\ wired \in Seq(places) /\ DOMAIN wired = 1..Cardinality(places) /\ Cardinality(places) \in Nat
      /\ \A k, l \in 1..Cardinality(places) : wired[k] = wired[l] => k = l
      /\ \A i \in places : \E k \in 1..Cardinality(places) : wired[k] = i
  <2>1. places \in SUBSET (1..Len(tgt)) /\ places \subseteq Nat /\ Len(tgt) \in Nat
    BY <1>2
  <2> HIDE DEF places
  <2>2. IsFiniteSet(1..Len(tgt))
    BY <2>1, FS_Interval
  <2>3. IsFiniteSet(places)
    BY <2>1, <2>2, FS_Subset
  <2> QED
    BY <2>1, <2>3, AscendingList, AscendingPlaces, FS_CardinalityType
<1> HIDE DEF places, wired, from
<1>5. ASSUME NEW k \in 1..Cardinality(places) PROVE pair(k) \in nodes \X nodes
  <2>1. wired[k] \in places
    BY <1>4
  <2> QED
    BY <1>3, <2>1
<1>9. ASSUME NEW k \in 1..Cardinality(places)
      PROVE  /\ pair(k)[1] = tgt[wired[k]] /\ pair(k)[2] = from(wired[k])
             /\ wired[k] \in places
  BY <1>4
<1> HIDE DEF pair
<1>6. [k \in 1..Cardinality(places) |-> pair(k)] \in Seq(nodes \X nodes)
  BY <1>4, <1>5
<1>7. ContextWires(t, e) \in Seq(nodes \X nodes)
  BY <1>1, <1>4, <1>6
<1> DEFINE w == ContextWires(t, e)
           c == Cardinality(places)
<1>10. Len(w) = c /\ \A k \in 1..c : w[k] = pair(k)
  BY <1>1, <1>4
<1> HIDE DEF w, c
<1>11. ASSUME Ascends(t, src, tgt) PROVE IsWiring(w, t, e)
  <2>1. ASSUME NEW k \in 1..c PROVE w[k][1] = tgt[wired[k]] /\ w[k][1] \in Range(tgt) /\ w[k][2] \in Range(src)
                                     /\ wired[k] \in places /\ wired[k] \in DOMAIN tgt
    <3>1. w[k] = pair(k) /\ wired[k] \in places /\ pair(k)[1] = tgt[wired[k]] /\ pair(k)[2] = from(wired[k])
      BY <1>9, <1>10 DEF c
    <3>2. wired[k] \in DOMAIN tgt /\ from(wired[k]) \in Range(src)
      BY <1>3, <3>1
    <3> QED
      BY <3>1, <3>2 DEF Range
  <2>2. ASSUME NEW k \in 1..c, NEW l \in 1..c, w[k][1] = w[l][1] PROVE k = l
    <3>1. tgt[wired[k]] = tgt[wired[l]] /\ wired[k] \in DOMAIN tgt /\ wired[l] \in DOMAIN tgt
      BY <2>1, <2>2
    <3>2. wired[k] = wired[l]
      BY <1>8, <1>11, <3>1
    <3> QED
      BY <1>4, <3>2 DEF c
  <2>3. ASSUME NEW n \in Range(tgt), t.labels[n] # "static" PROVE \E k \in 1..c : w[k][1] = n
    <3>1. PICK i \in DOMAIN tgt : tgt[i] = n
      BY DEF Range
    <3>2. i \in places
      BY <1>8, <1>11, <2>3, <3>1
    <3>3. PICK k \in 1..c : wired[k] = i
      BY <1>4, <3>2 DEF c
    <3> QED
      BY <2>1, <3>1, <3>3
  <2> QED
    BY <1>2, <1>10, <2>1, <2>2, <2>3 DEF IsWiring
<1> QED
  BY <1>7, <1>11 DEF nodes, w, src, tgt

\* The ends of a join are in one class, and the least of it stands for both.
Merged(D, f, joined) == [n \in D |-> IF f[n] \in joined THEN Min(joined) ELSE f[n]]

MergedNext(D, f, join) == Merged(D, f, {f[join[1]], f[join[2]]})

Merging(D, joins, f) ==
  f = [i \in 0..Len(joins) |-> IF i = 0 THEN [n \in D |-> n]
                               ELSE MergedNext(D, f[i - 1], joins[i])]

LEMMA MergedType ==
  ASSUME NEW D, D \subseteq Nat, NEW f, f \in [D -> D], NEW S, S \subseteq D, S # {}
  PROVE  Merged(D, f, S) \in [D -> D]
<1> DEFINE least == Min(S)
<1>1. least \in D
  <2>1. S \subseteq Nat
    OBVIOUS
  <2> QED
    BY <2>1, Least
<1>2. Merged(D, f, S) = [n \in D |-> IF f[n] \in S THEN least ELSE f[n]]
  BY DEF Merged
<1> HIDE DEF least
<1> QED
  BY <1>1, <1>2

LEMMA QuotientUnfold ==
  ASSUME NEW t, NEW joins, Len(joins) \in Nat
  PROVE  \E f : /\ Merging(DOMAIN t.labels, joins, f)
                /\ Quotient(t, joins) = Quotiented(t, f[Len(joins)])
<1> DEFINE D == DOMAIN t.labels
           N == Len(joins)
           start == [n \in D |-> n]
           Rec(g, k) == [i \in 0..k |-> IF i = 0 THEN start ELSE MergedNext(D, g[i - 1], joins[i])]
           bad == {k \in Nat : \A g : g # Rec(g, k)}
<1>1. bad = {}
  <2> HIDE DEF start
  <2> SUFFICES ASSUME bad # {} PROVE FALSE
    OBVIOUS
  <2>1. PICK k \in bad : \A m \in bad : k <= m
    BY LeastNat
  <2>2. CASE k = 0
    <3> DEFINE g == [i \in 0..0 |-> start]
    <3>1. g = Rec(g, 0)
      OBVIOUS
    <3> QED
      BY <2>1, <2>2, <3>1
  <2>3. CASE k # 0
    <3>1. k \in Nat /\ k > 0
      BY <2>3
    <3>2. k - 1 \in Nat /\ k - 1 \notin bad
      <4> HIDE DEF bad
      <4> QED
        BY <2>1, <3>1
    <3>3. PICK g : g = Rec(g, k - 1)
      BY <3>2
    <3> DEFINE h == [i \in 0..k |-> IF i = k THEN MergedNext(D, g[k - 1], joins[k]) ELSE g[i]]
    <3>4. ASSUME NEW i \in 0..k
          PROVE  h[i] = IF i = 0 THEN start ELSE MergedNext(D, h[i - 1], joins[i])
      <4>1. CASE i = k
        BY <2>3, <3>2, <4>1
      <4>2. CASE i # k
        <5>1. i \in 0..(k - 1)
          BY <3>2, <4>2
        <5>2. g[i] = IF i = 0 THEN start ELSE MergedNext(D, g[i - 1], joins[i])
          BY <3>3, <5>1
        <5> QED
          BY <3>2, <5>1, <5>2
      <4> QED
        BY <4>1, <4>2
    <3>5. h = Rec(h, k)
      BY <3>4
    <3> QED
      BY <2>1, <3>5
  <2> QED
    BY <2>2, <2>3
<1>2. \E f : f = Rec(f, N)
  <2>1. N \in Nat /\ N \notin bad
    BY <1>1
  <2> QED
    BY <2>1
<1> DEFINE rep[i \in 0..N] ==
             IF i = 0 THEN [n \in DOMAIN t.labels |-> n]
             ELSE LET before == rep[i - 1]
                      joined == {before[joins[i][1]], before[joins[i][2]]}
                      least == Min(joined)
                  IN [n \in DOMAIN t.labels |->
                        LET was == before[n] IN IF was \in joined THEN least ELSE was]
<1>3. rep = CHOOSE f : f = Rec(f, N)
  BY DEF MergedNext, Merged
<1>4. rep = Rec(rep, N)
  <2> HIDE DEF rep, Rec
  <2> QED
    BY <1>2, <1>3
<1>5. Quotient(t, joins) = Quotiented(t, rep[N])
  BY DEF Quotient
<1> HIDE DEF rep
<1> QED
  BY <1>4, <1>5 DEF Merging

LEMMA QuotientMap ==
  ASSUME NEW t, IsGraph(t), NEW joins, joins \in Seq((DOMAIN t.labels) \X (DOMAIN t.labels))
  PROVE  \E f : /\ Merging(DOMAIN t.labels, joins, f)
                /\ f[Len(joins)] \in [DOMAIN t.labels -> DOMAIN t.labels]
                /\ Quotient(t, joins) = Quotiented(t, f[Len(joins)])
<1> DEFINE D == DOMAIN t.labels
           N == Len(joins)
<1>1. N \in Nat /\ D \subseteq Nat /\ \A i \in 1..N : joins[i][1] \in D /\ joins[i][2] \in D
  BY DEF IsGraph
<1>2. PICK f : Merging(D, joins, f) /\ Quotient(t, joins) = Quotiented(t, f[N])
  BY <1>1, QuotientUnfold
<1> HIDE DEF D, N
<1>3. /\ f[0] = [n \in D |-> n]
      /\ \A i \in 0..N : i # 0 => f[i] = MergedNext(D, f[i - 1], joins[i])
  <2> DEFINE value(i) == IF i = 0 THEN [n \in D |-> n] ELSE MergedNext(D, f[i - 1], joins[i])
  <2>1. f = [i \in 0..N |-> value(i)]
    BY <1>2 DEF Merging, N
  <2>2. \A i \in 0..N : f[i] = value(i)
    <3> HIDE DEF value
    <3> QED
      BY <2>1
  <2>3. 0 \in 0..N
    BY <1>1
  <2>4. f[0] = value(0)
    BY <2>2, <2>3
  <2> QED
    BY <2>2, <2>4
<1> DEFINE bad == {i \in 0..N : f[i] \notin [D -> D]}
<1>4. bad = {}
  <2> SUFFICES ASSUME bad # {} PROVE FALSE
    OBVIOUS
  <2>1. bad \subseteq Nat
    OBVIOUS
  <2>2. PICK k \in bad : \A m \in bad : k <= m
    BY <2>1, LeastNat
  <2>3. k # 0
    BY <1>3
  <2>4. k - 1 \in 0..N /\ k - 1 \notin bad /\ k \in 1..N
    <3>1. k \in 0..N
      OBVIOUS
    <3> HIDE DEF bad
    <3> QED
      BY <1>1, <2>2, <2>3, <3>1
  <2>5. f[k - 1] \in [D -> D]
    BY <2>4
  <2>6. f[k] = MergedNext(D, f[k - 1], joins[k])
    BY <1>3, <2>3
  <2> DEFINE g == f[k - 1]
             S == {g[joins[k][1]], g[joins[k][2]]}
  <2>7. g \in [D -> D] /\ S \subseteq D /\ S # {}
    BY <1>1, <2>4, <2>5
  <2>8. f[k] = Merged(D, g, S)
    BY <2>6 DEF MergedNext
  <2> HIDE DEF g, S
  <2>9. f[k] \in [D -> D]
    <3>1. D \subseteq Nat
      BY <1>1
    <3>2. Merged(D, g, S) \in [D -> D]
      BY <2>7, <3>1, MergedType, Zenon
    <3> QED
      BY <2>8, <3>2
  <2> QED
    BY <2>9
<1>5. f[N] \in [D -> D]
  <2>1. N \in 0..N
    BY <1>1
  <2> QED
    BY <1>4, <2>1
<1> QED
  BY <1>2, <1>5 DEF D, N

\* g has the edges of t at the places I, whatever their wires are.
HasEdgesAt(g, t, I) ==
  /\ IsGraph(g) /\ I \subseteq DOMAIN t.edges
  /\ Cardinality(I) \in Nat /\ DOMAIN g.edges = 1..Cardinality(I)
  /\ \A i \in 1..Cardinality(I) : /\ g.edges[i].k = t.edges[Ascending(I)[i]].k
                                  /\ g.edges[i].n = t.edges[Ascending(I)[i]].n

\* g is the part of t that has the edges at the places I.
IsPart(g, t, I) ==
  /\ HasEdgesAt(g, t, I) /\ g.labels = t.labels
  /\ g.sources = t.sources /\ g.targets = t.targets
  /\ \A i \in 1..Cardinality(I) : g.edges[i] = t.edges[Ascending(I)[i]]

\* g has the edges of t between the nodes that rep puts in the place of those of t.
Through(rep, ns) == [i \in DOMAIN ns |-> rep[ns[i]]]

IsPutThrough(g, t, rep) ==
  /\ DOMAIN g.labels = Range(rep) /\ \A n \in Range(rep) : g.labels[n] = t.labels[n]
  /\ g.sources = Through(rep, t.sources) /\ g.targets = Through(rep, t.targets)

IsMergedBy(g, t, rep) ==
  /\ IsGraph(g) /\ DOMAIN g.edges = DOMAIN t.edges /\ IsPutThrough(g, t, rep)
  /\ \A e \in DOMAIN t.edges : /\ g.edges[e].k = t.edges[e].k /\ g.edges[e].n = t.edges[e].n
                               /\ g.edges[e].src = Through(rep, t.edges[e].src)
                               /\ g.edges[e].tgt = Through(rep, t.edges[e].tgt)

LEMMA Relisted ==
  ASSUME NEW A, NEW ns, ns \in Seq(A), NEW B, NEW rep, \A a \in A : rep[a] \in B,
         NEW s, s = [i \in DOMAIN ns |-> rep[ns[i]]]
  PROVE  s \in Seq(B) /\ Len(s) = Len(ns)
<1> DEFINE k == Len(ns)
<1>1. k \in Nat /\ DOMAIN ns = 1..k /\ \A i \in 1..k : ns[i] \in A
  OBVIOUS
<1> HIDE DEF k
<1>2. Counts(s, k) /\ \A i \in 1..k : s[i] \in B
  BY <1>1 DEF Counts
<1>3. s \in Seq(B) /\ Len(s) = k
  BY <1>1, <1>2, Counted
<1> QED
  BY <1>3 DEF k

LEMMA QuotientedParts ==
  ASSUME NEW t, IsGraph(t), NEW rep, rep \in [DOMAIN t.labels -> DOMAIN t.labels]
  PROVE  IsMergedBy(Quotiented(t, rep), t, rep)
<1> DEFINE D == DOMAIN t.labels
           nodes == Range(rep)
           list(ns) == [i \in DOMAIN ns |-> rep[ns[i]]]
           w(e) == [t.edges[e] EXCEPT !.src = list(@), !.tgt = list(@)]
           edges == [e \in DOMAIN t.edges |-> w(e)]
           labels == [n \in nodes |-> t.labels[n]]
           sources == list(t.sources)
           targets == list(t.targets)
           g == Quotiented(t, rep)
<1>1. /\ g.edges = edges /\ g.labels = labels /\ g.sources = sources /\ g.targets = targets
      /\ DOMAIN g = {"edges", "labels", "sources", "targets"}
  <2>1. {"edges", "labels", "sources", "targets"} \subseteq DOMAIN t
    BY DEF IsGraph
  <2> DEFINE u == [t EXCEPT !.labels = <<>>]
  <2>2. u.edges = t.edges /\ u.sources = t.sources /\ u.targets = t.targets
    BY <2>1
  <2> DEFINE h == Renamed(u, LAMBDA n : rep[n])
  <2>3. g = [h EXCEPT !.labels = labels]
    BY DEF Quotiented
  <2>4. /\ h.edges = edges /\ h.sources = sources /\ h.targets = targets
        /\ DOMAIN h = {"edges", "labels", "sources", "targets"}
    <3> HIDE DEF u
    <3>1. h = [edges |-> [e \in DOMAIN u.edges |->
                [u.edges[e] EXCEPT !.src = list(@), !.tgt = list(@)]],
              labels |-> [n \in {rep[m] : m \in DOMAIN u.labels} |->
                    u.labels[CHOOSE m \in DOMAIN u.labels : rep[m] = n]],
              sources |-> list(u.sources), targets |-> list(u.targets)]
      BY DEF Renamed
    <3> HIDE DEF h, list
    <3> QED
      BY <2>2, <3>1
  <2> HIDE DEF h, g, edges, labels, sources, targets
  <2> QED
    BY <2>3, <2>4
<1>2. /\ nodes \subseteq D /\ \A n \in D : rep[n] \in nodes
  BY DEF Range
<1>3. nodes \subseteq Nat /\ IsFiniteSet(nodes)
  BY <1>2, NodesFinite
<1>4. labels \in [nodes -> {"value", "closure", "static"}] /\ DOMAIN labels = nodes
  BY <1>2 DEF IsGraph
<1> HIDE DEF nodes, labels
<1>5. ASSUME NEW ns, ns \in Seq(D) PROVE list(ns) \in Seq(nodes) /\ Len(list(ns)) = Len(ns)
  <2> DEFINE s == list(ns)
  <2>1. s = [i \in DOMAIN ns |-> rep[ns[i]]]
    OBVIOUS
  <2> HIDE DEF s, D
  <2> QED
    BY <1>2, <1>5, <2>1, Relisted DEF s
<1>6. sources \in Seq(nodes) /\ targets \in Seq(nodes)
  <2>1. t.sources \in Seq(D) /\ t.targets \in Seq(D)
    BY DEF IsGraph
  <2> QED
    BY <1>5, <2>1
<1> HIDE DEF list, sources, targets
<1>7. Len(t.edges) \in Nat /\ DOMAIN t.edges = 1..Len(t.edges)
  BY GraphParts DEF EdgesOf
<1>8. ASSUME NEW e \in DOMAIN t.edges
      PROVE  /\ w(e) \in Wires(nodes) /\ w(e).k = t.edges[e].k /\ w(e).n = t.edges[e].n
             /\ w(e).k = "eval" => Len(w(e).src) >= 2
             /\ w(e).src = list(t.edges[e].src) /\ w(e).tgt = list(t.edges[e].tgt)
  <2> DEFINE o == t.edges[e]
             src == list(o.src)
             tgt == list(o.tgt)
             x == [o EXCEPT !.src = src, !.tgt = tgt]
  <2>2. src \in Seq(nodes) /\ tgt \in Seq(nodes) /\ Len(src) = Len(o.src)
    <3>1. o.src \in Seq(D) /\ o.tgt \in Seq(D)
      BY GraphParts DEF EdgesOf
    <3> QED
      BY <1>5, <3>1
  <2>3. o \in Wires(D)
    BY GraphParts DEF EdgesOf
  <2>4. w(e) = x
    BY <2>3 DEF Wires
  <2>5. o.k = "eval" => Len(o.src) >= 2
    BY DEF IsGraph
  <2> HIDE DEF src, tgt, o
  <2>6. IsRewired(x, o, nodes, src, tgt)
    BY <2>2, <2>3, Rewired
  <2>8. x \in Wires(nodes) /\ x.k = o.k /\ x.n = o.n /\ x.src = src /\ x.tgt = tgt
    BY <2>6 DEF IsRewired
  <2>9. x.k = "eval" => Len(x.src) >= 2
    BY <2>2, <2>5, <2>6 DEF IsRewired
  <2> HIDE DEF x
  <2> QED
    BY <2>4, <2>8, <2>9 DEF o, src, tgt
<1> HIDE DEF w
<1>9. /\ edges \in Seq(Wires(nodes)) /\ DOMAIN edges = DOMAIN t.edges
      /\ \A e \in DOMAIN t.edges : edges[e] = w(e)
  <2> DEFINE W == Wires(nodes)
             k == Len(t.edges)
  <2>1. k \in Nat /\ Counts(edges, k) /\ \A e \in 1..k : edges[e] \in W
    BY <1>7, <1>8 DEF Counts
  <2>2. \A e \in DOMAIN t.edges : edges[e] = w(e)
    OBVIOUS
  <2> HIDE DEF W, k, edges
  <2>3. edges \in Seq(W) /\ DOMAIN edges = 1..k
    BY <2>1, Counted
  <2> QED
    BY <1>7, <2>2, <2>3 DEF W, k
<1> HIDE DEF edges, g
<1>10. IsGraph(g)
  BY <1>1, <1>3, <1>4, <1>6, <1>8, <1>9 DEF IsGraph
<1>11. IsPutThrough(g, t, rep)
  BY <1>1 DEF IsPutThrough, Through, sources, targets, list, labels, nodes
<1>12. \A e \in DOMAIN t.edges : /\ g.edges[e].k = t.edges[e].k /\ g.edges[e].n = t.edges[e].n
                                 /\ g.edges[e].src = Through(rep, t.edges[e].src)
                                 /\ g.edges[e].tgt = Through(rep, t.edges[e].tgt)
  BY <1>1, <1>8, <1>9 DEF Through, list
<1>13. IsMergedBy(g, t, rep)
  BY <1>1, <1>9, <1>10, <1>11, <1>12 DEF IsMergedBy
<1> QED
  BY <1>13 DEF g

LEMMA PickedEdges ==
  ASSUME NEW t, IsGraph(t), NEW I, I \subseteq DOMAIN t.edges,
         NEW g, g = [t EXCEPT !.edges = Picked(t.edges, I)]
  PROVE  IsPart(g, t, I)
<1> DEFINE nodes == DOMAIN t.labels
           W == Wires(nodes)
           c == Cardinality(I)
           edges == Picked(t.edges, I)
           place == Ascending(I)
<1>1. I \subseteq Nat /\ IsFiniteSet(I) /\ c \in Nat
  <2>1. I \subseteq EdgesOf(t)
    BY DEF EdgesOf
  <2> QED
    BY <2>1, EdgesFinite, FS_CardinalityType
<1>2. \A i \in 1..c : place[i] \in I
  BY <1>1, AscendingPlaces
<1>3. edges = [i \in 1..c |-> t.edges[place[i]]]
  BY DEF Picked
<1> HIDE DEF place, c
<1>4. \A i \in 1..c : edges[i] = t.edges[place[i]] /\ t.edges[place[i]] \in W
  <2> SUFFICES ASSUME NEW i \in 1..c PROVE edges[i] = t.edges[place[i]] /\ t.edges[place[i]] \in W
    OBVIOUS
  <2>1. place[i] \in EdgesOf(t)
    BY <1>2 DEF EdgesOf
  <2>2. t.edges[place[i]] \in W
    BY <2>1, GraphParts
  <2> HIDE DEF W, edges
  <2> QED
    BY <1>3, <2>2
<1>5. edges \in Seq(W) /\ DOMAIN edges = 1..c
  <2>1. Counts(edges, c) /\ \A i \in 1..c : edges[i] \in W
    BY <1>3, <1>4 DEF Counts
  <2> HIDE DEF W, edges
  <2> QED
    BY <1>1, <2>1, Counted
<1>6. \A i \in 1..c : edges[i].k = "eval" => Len(edges[i].src) >= 2
  <2> SUFFICES ASSUME NEW i \in 1..c, edges[i].k = "eval" PROVE Len(edges[i].src) >= 2
    OBVIOUS
  <2>1. edges[i] = t.edges[place[i]] /\ place[i] \in DOMAIN t.edges
    BY <1>2, <1>4
  <2> HIDE DEF edges
  <2> QED
    BY <2>1 DEF IsGraph
<1> HIDE DEF edges
<1>7. g = [t EXCEPT !.edges = edges]
  BY DEF edges
<1>8. /\ g.edges = edges /\ g.labels = t.labels /\ g.sources = t.sources /\ g.targets = t.targets
      /\ DOMAIN g = DOMAIN t
  BY <1>7 DEF IsGraph
<1>9. IsGraph(g)
  BY <1>5, <1>6, <1>8 DEF IsGraph
<1> QED
  BY <1>1, <1>4, <1>5, <1>8, <1>9 DEF IsPart, HasEdgesAt, c, place

\* What erase joins, and the edges that are there when the contexts are wires.
ContextJoins(t) ==
  LET contexts == Ascending(OfKind(t, "context"))
  IN FlattenSeq([i \in DOMAIN contexts |-> ContextWires(t, contexts[i])])

Lasting(t) == EdgesOf(t) \ OfKind(t, "context")

\* g is t without its contexts, merged as f says round by round.
IsErasedBy(g, t, f) ==
  LET rep == f[Len(ContextJoins(t))]
  IN /\ Merging(DOMAIN t.labels, ContextJoins(t), f)
     /\ rep \in [DOMAIN t.labels -> DOMAIN t.labels] /\ IsPutThrough(g, t, rep)
     /\ \A i \in 1..Cardinality(Lasting(t)) :
          /\ g.edges[i].src = Through(rep, t.edges[Ascending(Lasting(t))[i]].src)
          /\ g.edges[i].tgt = Through(rep, t.edges[Ascending(Lasting(t))[i]].tgt)

LEMMA ErasedParts ==
  ASSUME NEW t, IsGraph(t)
  PROVE  /\ HasEdgesAt(Erased(t), t, Lasting(t)) /\ \E f : IsErasedBy(Erased(t), t, f)
         /\ ContextJoins(t) \in Seq((DOMAIN t.labels) \X (DOMAIN t.labels))
<1> DEFINE D == DOMAIN t.labels
           C == OfKind(t, "context")
           I == EdgesOf(t) \ C
           contexts == Ascending(C)
           parts == [i \in DOMAIN contexts |-> ContextWires(t, contexts[i])]
           joins == FlattenSeq(parts)
           u == [t EXCEPT !.edges = Picked(t.edges, I)]
<1>1. Erased(t) = Quotient(u, joins)
  BY DEF Erased, IsGraph
<1>2. IsPart(u, t, I)
  <2>1. I \subseteq DOMAIN t.edges
    BY DEF EdgesOf
  <2> HIDE DEF I
  <2> QED
    BY <2>1, PickedEdges
<1>3. joins \in Seq(D \X D)
  <2>1. C \subseteq EdgesOf(t)
    BY DEF OfKind
  <2>2. C \subseteq Nat /\ IsFiniteSet(C)
    BY <2>1, EdgesFinite
  <2>3. /\ DOMAIN contexts = 1..Cardinality(C) /\ Cardinality(C) \in Nat
        /\ contexts \in Seq(C)
    BY <2>2, AscendingList, FS_CardinalityType
  <2> DEFINE c == Cardinality(C)
             X == D \X D
  <2>4. \A i \in 1..c : contexts[i] \in EdgesOf(t)
    BY <2>1, <2>3
  <2> HIDE DEF contexts, c
  <2>5. /\ c \in Nat /\ DOMAIN contexts = 1..c
    BY <2>3 DEF c
  <2>6. Counts(parts, c) /\ \A i \in 1..c : parts[i] = ContextWires(t, contexts[i])
    BY <2>5 DEF Counts
  <2>7. \A i \in 1..c : parts[i] \in Seq(X)
    BY <2>4, <2>6, ContextPairs
  <2> HIDE DEF parts, X
  <2> DEFINE S == Seq(X)
  <2> HIDE DEF S
  <2>8. parts \in Seq(S)
    BY <2>5, <2>6, <2>7, Counted DEF S
  <2>9. parts \in Seq(Seq(X))
    BY <2>8 DEF S
  <2> QED
    BY <2>9, Flattened DEF X
<1> HIDE DEF u, I, joins
<1>4. IsGraph(u) /\ u.labels = t.labels /\ u.sources = t.sources /\ u.targets = t.targets
  BY <1>2 DEF IsPart, HasEdgesAt
<1>5. PICK f : /\ Merging(D, joins, f) /\ f[Len(joins)] \in [D -> D]
               /\ Quotient(u, joins) = Quotiented(u, f[Len(joins)])
  BY <1>3, <1>4, QuotientMap
<1> DEFINE g == Erased(t)
           rep == f[Len(joins)]
           place == Ascending(I)
           k == Cardinality(I)
<1>6. IsMergedBy(Quotiented(u, rep), u, rep)
  BY <1>4, <1>5, QuotientedParts
<1>7. IsMergedBy(g, u, rep)
  BY <1>1, <1>5, <1>6
<1> HIDE DEF g, D, rep, place, k
<1>8. /\ HasEdgesAt(u, t, I) /\ DOMAIN u.edges = 1..k
      /\ \A i \in 1..k : u.edges[i] = t.edges[place[i]]
  BY <1>2 DEF IsPart, HasEdgesAt, k, place
<1>9. HasEdgesAt(g, t, I)
  BY <1>7, <1>8 DEF HasEdgesAt, IsMergedBy
<1>10. IsPutThrough(g, t, rep)
  BY <1>4, <1>7 DEF IsMergedBy, IsPutThrough
<1>11. \A i \in 1..k : /\ g.edges[i].src = Through(rep, t.edges[place[i]].src)
                      /\ g.edges[i].tgt = Through(rep, t.edges[place[i]].tgt)
  BY <1>7, <1>8 DEF IsMergedBy
<1>12. I = Lasting(t) /\ joins = ContextJoins(t)
  BY DEF I, joins, Lasting, ContextJoins
<1>13. IsErasedBy(g, t, f)
  BY <1>5, <1>10, <1>11, <1>12 DEF IsErasedBy, D, k, place, rep
<1> QED
  BY <1>3, <1>9, <1>12, <1>13 DEF g, D

-----------------------------------------------------------------------------
\* The pass.

MarkersMakeAlone(t) ==
  \A m \in Markers(t) : \A e \in EdgesOf(t) \ {m} : Targets(t, m) \cap Targets(t, e) = {}

\* Every eval can become a call of the function that its pointer names.
AllNamed(t) == \A e \in OfKind(t, "eval") : IsNamedCall(t, e) /\ Len(t.edges[e].src) = 2

GraphInv ==
  /\ original \in Terms /\ IsGraph(original)
  /\ IsGraph(term)
  /\ IsList(functions) /\ \A i \in DOMAIN functions : IsGraph(functions[i])
  /\ status \in {"discovering", "scheduling", "done"}

RegionInv ==
  IF status = "scheduling"
  THEN ~InvalidMarker(term) /\ regions = {FindRegion(term, e) : e \in Markers(term)}
  ELSE regions = {}

NameInv ==
  status # "done" => MarkersMakeAlone(term) /\ (AllNamed(original) => AllNamed(term))

ConvInv == GraphInv /\ RegionInv /\ NameInv

LEMMA ForgottenIsGraph ==
  ASSUME NEW t, IsForgotten(t)
  PROVE  IsGraph(t) /\ MarkersMakeAlone(t)
<1> DEFINE nodes == DOMAIN t.labels
           E == [k : {"op", "eval", "name", "marker"}, n : STRING,
                 src : Seq(nodes), tgt : Seq(nodes)]
<1>1. IsFiniteSet(nodes) /\ IsTerm(t)
  BY DEF IsForgotten
<1>2. t \in [edges : Seq(E), labels : {t.labels}, sources : Seq(nodes), targets : Seq(nodes)]
  BY DEF IsForgotten
<1>3. /\ \A e \in EdgesOf(t) : t.edges[e].k = "eval" => Len(t.edges[e].src) = 2
      /\ MarkersMakeAlone(t)
  BY DEF IsForgotten, MarkersMakeAlone
<1>4. nodes \subseteq Nat /\ t.labels \in [nodes -> {"value", "closure", "static"}]
  BY <1>1 DEF IsTerm
<1>5. E \subseteq Wires(nodes)
  BY DEF Wires, Kinds, Given
<1> HIDE DEF E, nodes
<1>6. /\ DOMAIN t = {"edges", "labels", "sources", "targets"}
      /\ t.edges \in Seq(E) /\ t.sources \in Seq(nodes) /\ t.targets \in Seq(nodes)
  BY <1>2
<1>7. t.edges \in Seq(Wires(nodes))
  BY <1>5, <1>6, SeqMonotonic
<1>8. \A e \in DOMAIN t.edges : t.edges[e].k = "eval" => Len(t.edges[e].src) >= 2
  <2>1. \A e \in DOMAIN t.edges : t.edges[e].k = "eval" => Len(t.edges[e].src) = 2
    BY <1>3, Zenon DEF EdgesOf
  <2>2. \A l : l = 2 => l >= 2
    OBVIOUS
  <2> QED
    BY <2>1, <2>2, Zenon
<1>9. {"edges", "labels", "sources", "targets"} \subseteq DOMAIN t
  BY <1>6
<1>10. /\ IsFiniteSet(DOMAIN t.labels) /\ DOMAIN t.labels \subseteq Nat
       /\ t.labels \in [DOMAIN t.labels -> {"value", "closure", "static"}]
       /\ t.edges \in Seq(Wires(DOMAIN t.labels))
       /\ t.sources \in Seq(DOMAIN t.labels) /\ t.targets \in Seq(DOMAIN t.labels)
  BY <1>1, <1>4, <1>6, <1>7 DEF nodes
<1>11. IsGraph(t)
  BY <1>8, <1>9, <1>10 DEF IsGraph
<1> QED
  BY <1>3, <1>11

LEMMA InitConv ==
  ASSUME Init
  PROVE  ConvInv
<1>1. original \in Terms /\ term = original /\ functions = <<>> /\ regions = {} /\ status = "discovering"
  BY DEF Init
<1>2. IsForgotten(original)
  BY <1>1, TermsAssumption
<1>3. IsGraph(original) /\ MarkersMakeAlone(original)
  BY <1>2, ForgottenIsGraph
<1>4. IsList(functions) /\ DOMAIN functions = {}
  BY <1>1 DEF IsList
<1> QED
  BY <1>1, <1>3, <1>4 DEF ConvInv, GraphInv, RegionInv, NameInv

LEMMA SelectedRegion ==
  ASSUME ConvInv, Scheduled
  PROVE  /\ Selected \in regions /\ IsRegion(term, Selected) /\ HasItsNames(term, Selected)
         /\ Selected \in Ready(term, regions)
<1>1. /\ IsGraph(term) /\ ~InvalidMarker(term)
      /\ regions = {FindRegion(term, e) : e \in Markers(term)}
  BY DEF ConvInv, GraphInv, RegionInv, Scheduled
<1>2. \A r \in regions : IsRegion(term, r) /\ HasItsNames(term, r) /\ r.marker \in Nat
  <2> TAKE r \in regions
  <2>1. PICK e \in Markers(term) : r = FindRegion(term, e)
    BY <1>1
  <2>2. IsRegion(term, r) /\ HasItsNames(term, r) /\ r.marker = e
    BY <1>1, <2>1, FoundRegion
  <2>3. e \in Nat
    BY <1>1, GraphParts DEF Markers, OfKind
  <2> QED
    BY <2>2, <2>3
<1> DEFINE R == Ready(term, regions)
           numbers == {r.marker : r \in R}
<1>3. R # {} /\ R \subseteq regions
  BY DEF Scheduled, Ready
<1> HIDE DEF R
<1>4. numbers \subseteq Nat /\ numbers # {}
  BY <1>2, <1>3
<1>5. PICK m \in numbers : \A q \in numbers : m <= q
  <2> HIDE DEF numbers
  <2> QED
    BY <1>4, LeastNat
<1>6. \E r \in R : \A q \in R : r.marker <= q.marker
  BY <1>5
<1>7. Selected \in R
  BY <1>6 DEF Selected, FirstInOrder, R
<1> QED
  BY <1>2, <1>3, <1>7 DEF R

LEMMA LastNodes ==
  ASSUME ConvInv, regions # {}
  PROVE  LastNode \in Nat /\ \A n \in DOMAIN term.labels : n <= LastNode
<1> DEFINE f == functions
           used == {DOMAIN g.labels : g \in Range(f)}
           all == DOMAIN term.labels \cup UNION used
<1>1. /\ IsGraph(term) /\ IsList(f) /\ \A i \in DOMAIN f : IsGraph(f[i])
      /\ ~InvalidMarker(term) /\ \E e \in Markers(term) : TRUE
  BY DEF ConvInv, GraphInv, RegionInv
<1>2. Len(f) \in Nat /\ DOMAIN f = 1..Len(f)
  BY <1>1, Lists
<1>3. \A S \in used : S \subseteq Nat /\ IsFiniteSet(S)
  BY <1>1 DEF Range, IsGraph
<1>4. IsFiniteSet(used)
  <2> DEFINE named == [i \in 1..Len(f) |-> DOMAIN f[i].labels]
  <2>1. IsFiniteSet(1..Len(f))
    BY <1>2, FS_Interval
  <2>2. named \in Surjection(1..Len(f), used)
    <3>1. \A i \in 1..Len(f) : named[i] \in used
      BY <1>2 DEF Range
    <3>2. \A S \in used : \E i \in 1..Len(f) : named[i] = S
      BY <1>2 DEF Range
    <3>3. named \in [1..Len(f) -> used]
      BY <3>1
    <3> HIDE DEF named, used
    <3> QED
      BY <3>2, <3>3 DEF Surjection
  <2> HIDE DEF named, used
  <2> QED
    BY <2>1, <2>2, FS_Surjection
<1>5. IsFiniteSet(DOMAIN term.labels) /\ DOMAIN term.labels \subseteq Nat
  BY <1>1 DEF IsGraph
<1>6. IsFiniteSet(UNION used)
  <2> HIDE DEF used
  <2> QED
    BY <1>3, <1>4, FS_UNION
<1>7. all \subseteq Nat /\ IsFiniteSet(all)
  <2>1. UNION used \subseteq Nat
    BY <1>3
  <2> HIDE DEF used
  <2> QED
    BY <1>5, <1>6, <2>1, FS_Union
<1>8. all # {}
  <2>1. PICK e \in Markers(term) : TRUE
    BY <1>1
  <2>2. IsRegion(term, FindRegion(term, e))
    BY <1>1, FoundRegion
  <2> QED
    BY <2>2 DEF IsRegion
<1>9. LastNode = Max(all)
  BY DEF LastNode
<1> HIDE DEF all
<1>10. Max(all) \in all /\ \A n \in all : Max(all) >= n
  BY <1>7, <1>8, Greatest
<1>11. Max(all) \in Nat /\ \A n \in all : n \in Nat
  BY <1>7, <1>10
<1>12. \A n \in all : n <= Max(all)
  BY <1>10, <1>11
<1> QED
  BY <1>9, <1>11, <1>12 DEF all

\* What is put in the place of the region that is converted.
LEMMA ConvertParts ==
  ASSUME ConvInv, Convert
  PROVE  /\ IsRegion(term, Selected) /\ HasItsNames(term, Selected)
         /\ ~HasUnnamedEval(term, Selected) /\ ~HasDeletedBoundary(term, Selected)
         /\ IsValue(term, Selected, SelectedValue)
         /\ IsGraph(term)
<1>1. Scheduled /\ ~HasUnnamedEval(term, Selected) /\ ~HasDeletedBoundary(term, Selected)
  BY DEF Convert, Panics, Refuses
<1>2. Selected \in regions /\ IsRegion(term, Selected) /\ HasItsNames(term, Selected)
  BY <1>1, SelectedRegion
<1>3. LastNode \in Nat /\ \A n \in DOMAIN term.labels : n <= LastNode
  BY <1>2, LastNodes
<1>4. IsGraph(term) /\ Len(functions) \in Nat
  BY Lists DEF ConvInv, GraphInv
<1>5. IsValue(term, Selected, SelectedValue)
  BY <1>2, <1>3, <1>4, ValueParts DEF SelectedValue
<1> QED
  BY <1>1, <1>2, <1>4, <1>5

LEMMA ConvertGraph ==
  ASSUME ConvInv, Convert
  PROVE  GraphInv' /\ RegionInv'
<1>1. /\ IsRegion(term, Selected) /\ ~HasUnnamedEval(term, Selected) /\ IsGraph(term)
      /\ ~HasDeletedBoundary(term, Selected) /\ IsValue(term, Selected, SelectedValue)
  BY ConvertParts
<1> DEFINE spliced == Spliced(term, Selected, SelectedValue)
           body == BuildBody(term, Selected)
<1>2. /\ term' = Rewritten(spliced) /\ functions' = Append(functions, body)
      /\ regions' = {} /\ status' = "discovering" /\ original' = original
  BY DEF Convert
<1>3. IsGraph(spliced)
  BY <1>1, SplicedParts
<1>4. IsGraph(body)
  BY <1>1, BodyParts
<1> HIDE DEF spliced, body
<1>5. IsGraph(term')
  <2>1. IsConverted(Rewritten(spliced), spliced)
    BY <1>3, RewrittenParts
  <2> QED
    BY <1>2, <2>1 DEF IsConverted
<1>6. IsList(functions) /\ \A i \in DOMAIN functions : IsGraph(functions[i])
  BY DEF ConvInv, GraphInv
<1>7. /\ IsList(functions') /\ DOMAIN functions' = 1..(Len(functions) + 1)
      /\ functions'[Len(functions) + 1] = body
      /\ \A i \in 1..Len(functions) : functions'[i] = functions[i]
      /\ Len(functions) \in Nat /\ DOMAIN functions = 1..Len(functions)
  <2>1. /\ IsList(Append(functions, body)) /\ Len(Append(functions, body)) = Len(functions) + 1
        /\ Append(functions, body)[Len(functions) + 1] = body
        /\ \A i \in 1..Len(functions) : Append(functions, body)[i] = functions[i]
    BY <1>6, Pushed
  <2>2. DOMAIN Append(functions, body) = 1..(Len(functions) + 1)
    BY <2>1, Lists
  <2> QED
    BY <1>2, <1>6, <2>1, <2>2, Lists
<1>8. \A i \in DOMAIN functions' : IsGraph(functions'[i])
  <2> TAKE i \in DOMAIN functions'
  <2>1. CASE i = Len(functions) + 1
    BY <1>4, <1>7, <2>1
  <2>2. CASE i # Len(functions) + 1
    <3>1. i \in 1..Len(functions)
      BY <1>7, <2>2
    <3>2. functions'[i] = functions[i]
      BY <1>7, <3>1
    <3> QED
      BY <1>6, <1>7, <3>1, <3>2
  <2> QED
    BY <2>1, <2>2
<1>9. GraphInv'
  BY <1>2, <1>5, <1>7, <1>8 DEF ConvInv, GraphInv
<1> QED
  BY <1>2, <1>9 DEF RegionInv

LEMMA FinishedGraph ==
  ASSUME NEW t, IsGraph(t)
  PROVE  IsGraph(Erased(Converted(t)))
<1> DEFINE c == Converted(t)
<1>1. IsGraph(c)
  BY ConvertedParts DEF IsConverted
<1> HIDE DEF c
<1>2. HasEdgesAt(Erased(c), c, Lasting(c))
  BY <1>1, ErasedParts
<1> QED
  BY <1>2 DEF HasEdgesAt, c

LEMMA FinishGraph ==
  ASSUME ConvInv, Finish
  PROVE  GraphInv' /\ RegionInv'
<1> DEFINE finished(i) == Erased(Converted(functions[i]))
<1>1. /\ term' = Erased(Converted(term)) /\ status' = "done"
      /\ functions' = [i \in DOMAIN functions |-> finished(i)]
      /\ original' = original /\ regions' = {}
  BY DEF Finish, ConvInv, RegionInv
<1>2. /\ IsGraph(term) /\ IsList(functions) /\ \A i \in DOMAIN functions : IsGraph(functions[i])
  BY DEF ConvInv, GraphInv
<1>3. IsGraph(term')
  BY <1>1, <1>2, FinishedGraph
<1>4. \A i \in DOMAIN functions : IsGraph(finished(i))
  BY <1>2, FinishedGraph
<1> HIDE DEF finished
<1>5. IsList(functions') /\ \A i \in DOMAIN functions' : IsGraph(functions'[i])
  <2>1. functions' = [i \in DOMAIN functions |-> functions'[i]]
    BY <1>1
  <2>2. IsList(functions')
    BY <1>2, <2>1, MappedIsList
  <2> QED
    BY <1>1, <1>4, <2>2
<1>6. GraphInv'
  BY <1>1, <1>3, <1>5 DEF ConvInv, GraphInv
<1> QED
  BY <1>1, <1>6 DEF RegionInv

LEMMA NextGraph ==
  ASSUME ConvInv, [Next]_vars
  PROVE  GraphInv' /\ RegionInv'
<1>1. CASE Discover
  BY <1>1 DEF Discover, ConvInv, GraphInv, RegionInv
<1>2. CASE Convert
  BY <1>2, ConvertGraph
<1>3. CASE Finish
  BY <1>3, FinishGraph
<1>4. CASE UNCHANGED vars
  BY <1>4 DEF vars, ConvInv, GraphInv, RegionInv
<1> QED
  BY <1>1, <1>2, <1>3, <1>4 DEF Next

-----------------------------------------------------------------------------
\* Refusals.

\* What stays of t in g makes what it made, and what is new makes what is new.
KeepsTargets(g, t, place, k, fresh) ==
  /\ \A i \in 1..k : /\ g.edges[i].k = t.edges[place[i]].k
                     /\ Targets(g, i) = Targets(t, place[i])
  /\ \A i \in EdgesOf(g) \ (1..k) : /\ g.edges[i].k \notin {"eval", "marker"}
                                    /\ Targets(g, i) \subseteq fresh

LEMMA SplicedTargets ==
  ASSUME NEW t, IsGraph(t), MarkersMakeAlone(t), NEW r, IsRegion(t, r), NEW v, IsValue(t, r, v),
         ~HasDeletedBoundary(t, r)
  PROVE  KeepsTargets(Spliced(t, r, v), t, Ascending(Kept(t, r)), Cardinality(Kept(t, r)),
                      DOMAIN v.labels)
<1> DEFINE g == Spliced(t, r, v)
           place == Ascending(Kept(t, r))
           k == Cardinality(Kept(t, r))
<1>1. /\ IsGraph(g) /\ k \in Nat /\ Len(g.edges) = k + Len(v.edges)
      /\ \A i \in 1..k : /\ g.edges[i].k = t.edges[place[i]].k
                         /\ g.edges[i].n = t.edges[place[i]].n
                         /\ g.edges[i].src = Expanded(t.edges[place[i]].src, r.closure, v.targets)
                         /\ g.edges[i].tgt = Expanded(t.edges[place[i]].tgt, r.closure, v.targets)
      /\ \A j \in 1..Len(v.edges) : g.edges[k + j] = v.edges[j]
  BY SplicedParts
<1>2. \A i \in 1..k : place[i] \in Kept(t, r)
  <2>1. Kept(t, r) \subseteq Nat /\ IsFiniteSet(Kept(t, r))
    <3>1. Kept(t, r) \subseteq EdgesOf(t)
      BY DEF Kept
    <3> QED
      BY <3>1, EdgesFinite
  <2> QED
    BY <2>1, AscendingPlaces
<1> HIDE DEF g, place, k
<1>3. ASSUME NEW i \in 1..k PROVE Targets(g, i) = Targets(t, place[i])
  <2> DEFINE ns == t.edges[place[i]].tgt
             s == Expanded(ns, r.closure, v.targets)
  <2>1. place[i] \in EdgesOf(t) /\ place[i] # r.marker
    BY <1>2 DEF Kept
  <2>2. ns \in Seq(DOMAIN t.labels)
    BY <2>1, GraphParts
  <2>3. r.closure \notin Range(ns)
    BY <2>1 DEF MarkersMakeAlone, IsRegion, Targets
  <2>4. PICK a, b \in DOMAIN v.labels : v.targets = <<a, b>>
    BY DEF IsValue
  <2> HIDE DEF ns, s
  <2>5. IsExpanded(Expanded(ns, r.closure, <<a, b>>), ns, r.closure, a, b)
    BY <2>2, ExpandedParts
  <2>6. IsExpanded(s, ns, r.closure, a, b)
    BY <2>4, <2>5 DEF s
  <2>7. Range(ns) \ {r.closure} \subseteq Range(s) /\ s \in Seq(Range(ns))
    BY <2>3, <2>6 DEF IsExpanded
  <2>8. Range(s) \subseteq Range(ns)
    BY <2>7, ListRange
  <2>9. Range(s) = Range(ns)
    BY <2>3, <2>7, <2>8
  <2> QED
    BY <1>1, <2>9 DEF s, ns, Targets
<1>4. ASSUME NEW i \in EdgesOf(g) \ (1..k)
      PROVE  g.edges[i].k \notin {"eval", "marker"} /\ Targets(g, i) \subseteq DOMAIN v.labels
  <2>1. i \in 1..Len(g.edges)
    BY <1>1, GraphParts
  <2>2. Len(v.edges) \in Nat
    BY DEF IsValue
  <2>3. i - k \in 1..Len(v.edges) /\ k + (i - k) = i
    BY <1>1, <1>4, <2>1, <2>2
  <2>4. g.edges[i] = v.edges[i - k]
    BY <1>1, <2>3
  <2>5. v.edges[i - k].k \in {"context", "op", "closure"} /\ Range(v.edges[i - k].tgt) \subseteq DOMAIN v.labels
    BY <2>3 DEF IsValue
  <2> QED
    BY <2>4, <2>5 DEF Targets
<1>5. KeepsTargets(g, t, place, k, DOMAIN v.labels)
  BY <1>1, <1>3, <1>4 DEF KeepsTargets
<1> QED
  BY <1>5 DEF g, place, k

LEMMA SplicedMarkers ==
  ASSUME NEW t, IsGraph(t), MarkersMakeAlone(t), NEW r, IsRegion(t, r), NEW v, IsValue(t, r, v),
         ~HasDeletedBoundary(t, r)
  PROVE  MarkersMakeAlone(Spliced(t, r, v))
<1> DEFINE g == Spliced(t, r, v)
           place == Ascending(Kept(t, r))
           k == Cardinality(Kept(t, r))
           fresh == DOMAIN v.labels
<1>1. KeepsTargets(g, t, place, k, fresh)
  BY SplicedTargets
<1>2. /\ \A i \in 1..k : place[i] \in Kept(t, r)
      /\ \A i, j \in 1..k : place[i] = place[j] => i = j
  <2>1. Kept(t, r) \subseteq Nat /\ IsFiniteSet(Kept(t, r))
    <3>1. Kept(t, r) \subseteq EdgesOf(t)
      BY DEF Kept
    <3> QED
      BY <3>1, EdgesFinite
  <2> QED
    BY <2>1, AscendingPlaces
<1>3. fresh \cap DOMAIN t.labels = {}
  BY DEF IsValue
<1> HIDE DEF g, place, k, fresh
<1>4. SUFFICES ASSUME NEW m \in Markers(g), NEW e \in EdgesOf(g) \ {m}
               PROVE  Targets(g, m) \cap Targets(g, e) = {}
  BY DEF MarkersMakeAlone, g
<1>5. m \in 1..k /\ g.edges[m].k = "marker"
  BY <1>1 DEF KeepsTargets, Markers, OfKind
<1>6. Targets(g, m) = Targets(t, place[m]) /\ place[m] \in Markers(t)
  BY <1>1, <1>2, <1>5 DEF KeepsTargets, Markers, OfKind, Kept
<1>7. CASE e \in 1..k
  <2>1. Targets(g, e) = Targets(t, place[e]) /\ place[e] \in EdgesOf(t) /\ place[e] # place[m]
    BY <1>1, <1>2, <1>5, <1>7 DEF KeepsTargets, Kept
  <2> QED
    BY <1>6, <2>1 DEF MarkersMakeAlone
<1>8. CASE e \notin 1..k
  <2>1. Targets(g, e) \subseteq fresh
    BY <1>1, <1>8 DEF KeepsTargets
  <2>2. Targets(t, place[m]) \subseteq DOMAIN t.labels
    BY <1>6, GraphParts DEF Markers, OfKind
  <2> QED
    BY <1>3, <1>6, <2>1, <2>2
<1> QED
  BY <1>7, <1>8

LEMMA ExpandedWires ==
  ASSUME NEW X, NEW ns, ns \in Seq(X), NEW n, NEW a, NEW b
  PROVE  LET s == Expanded(ns, n, <<a, b>>)
         IN /\ n \notin Range(ns) => s = ns
            /\ Range(s) \subseteq (Range(ns) \ {n}) \cup {a, b} /\ Range(ns) \ {n} \subseteq Range(s)
            /\ Len(ns) >= 1 => s[1] = IF ns[1] = n THEN a ELSE ns[1]
<1> DEFINE part(i) == IF ns[i] = n THEN <<a, b>> ELSE <<ns[i]>>
           parts == [i \in DOMAIN ns |-> part(i)]
           Y == (Range(ns) \ {n}) \cup {a, b}
           s == Expanded(ns, n, <<a, b>>)
<1>1. s = FlattenSeq(parts)
  BY DEF Expanded
<1>2. Len(ns) \in Nat /\ DOMAIN ns = 1..Len(ns) /\ \A i \in 1..Len(ns) : ns[i] \in Range(ns)
  BY ListRange
<1>3. s \in Seq(Y) /\ Range(ns) \ {n} \subseteq Range(s)
  <2>1. IsExpanded(s, ns, n, a, b)
    BY ExpandedParts
  <2> QED
    BY <2>1 DEF IsExpanded
<1>4. Range(s) \subseteq Y
  <2> HIDE DEF s, Y
  <2> QED
    BY <1>3, ListRange
<1>5. ASSUME n \notin Range(ns) PROVE s = ns
  <2>1. \A i \in DOMAIN ns : part(i) = <<ns[i]>>
    BY <1>2, <1>5
  <2>2. parts = [i \in DOMAIN ns |-> <<ns[i]>>]
    BY <2>1
  <2> HIDE DEF parts, s
  <2>3. FlattenSeq(parts) = ns
    BY <2>2, FlattenedSingles
  <2> QED
    BY <1>1, <2>3
<1>6. ASSUME Len(ns) >= 1 PROVE s[1] = IF ns[1] = n THEN a ELSE ns[1]
  <2>1. 1 \in 1..Len(ns)
    BY <1>2, <1>6
  <2>2. \A i \in 1..Len(ns) : part(i) \in Seq(Y) /\ Len(part(i)) >= 1
    <3> TAKE i \in 1..Len(ns)
    <3>1. CASE ns[i] = n
      BY <3>1
    <3>2. CASE ns[i] # n
      BY <1>2, <3>2
    <3> QED
      BY <3>1, <3>2
  <2>3. part(1)[1] = IF ns[1] = n THEN a ELSE ns[1]
    OBVIOUS
  <2> HIDE DEF part, Y, s
  <2>4. parts \in Seq(Seq(Y)) /\ Len(parts) = Len(ns) /\ parts[1] = part(1)
    BY <1>2, <2>1, <2>2
  <2> HIDE DEF parts
  <2>5. Len(parts) >= 1 /\ Len(parts[1]) >= 1
    BY <1>6, <2>1, <2>2, <2>4
  <2>6. FlattenSeq(parts)[1] = parts[1][1]
    BY <2>4, <2>5, FlattenedFirst
  <2> QED
    BY <1>1, <2>3, <2>4, <2>6
<1> QED
  BY <1>3, <1>4, <1>5, <1>6

\* What stays has its targets, and its sources but for the pair in the place of
\* the closure; what is new is as in the value.
KeepsWires(g, t, r, v, place, k) ==
  /\ k \in Nat /\ Len(v.edges) \in Nat /\ EdgesOf(g) = 1..(k + Len(v.edges))
  /\ \A e \in Kept(t, r) : \E i \in 1..k : place[i] = e
  /\ \A i, j \in 1..k : place[i] = place[j] => i = j
  /\ \A i \in 1..k :
       /\ place[i] \in Kept(t, r) /\ place[i] \in EdgesOf(t)
       /\ g.edges[i].k = t.edges[place[i]].k /\ g.edges[i].n = t.edges[place[i]].n
       /\ g.edges[i].tgt = t.edges[place[i]].tgt
       /\ Sources(g, i) \subseteq (Sources(t, place[i]) \ {r.closure}) \cup Range(v.targets)
       /\ Sources(t, place[i]) \ {r.closure} \subseteq Sources(g, i)
       /\ r.closure \notin Sources(t, place[i]) => g.edges[i].src = t.edges[place[i]].src
       /\ Len(t.edges[place[i]].src) >= 1 =>
            IF t.edges[place[i]].src[1] = r.closure THEN g.edges[i].src[1] \in Range(v.targets)
            ELSE g.edges[i].src[1] = t.edges[place[i]].src[1]
  /\ \A j \in 1..Len(v.edges) : g.edges[k + j] = v.edges[j]

LEMMA SplicedWires ==
  ASSUME NEW t, IsGraph(t), MarkersMakeAlone(t), NEW r, IsRegion(t, r), NEW v, IsValue(t, r, v),
         ~HasDeletedBoundary(t, r)
  PROVE  KeepsWires(Spliced(t, r, v), t, r, v, Ascending(Kept(t, r)), Cardinality(Kept(t, r)))
<1> DEFINE g == Spliced(t, r, v)
           place == Ascending(Kept(t, r))
           k == Cardinality(Kept(t, r))
<1>1. /\ IsGraph(g) /\ k \in Nat /\ Len(g.edges) = k + Len(v.edges)
      /\ \A i \in 1..k : /\ g.edges[i].k = t.edges[place[i]].k
                         /\ g.edges[i].n = t.edges[place[i]].n
                         /\ g.edges[i].src = Expanded(t.edges[place[i]].src, r.closure, v.targets)
                         /\ g.edges[i].tgt = Expanded(t.edges[place[i]].tgt, r.closure, v.targets)
      /\ \A j \in 1..Len(v.edges) : g.edges[k + j] = v.edges[j]
  BY SplicedParts
<1>2. /\ \A i \in 1..k : place[i] \in Kept(t, r)
      /\ \A i, j \in 1..k : place[i] = place[j] => i = j
      /\ \A e \in Kept(t, r) : \E i \in 1..k : place[i] = e
  <2>1. Kept(t, r) \subseteq Nat /\ IsFiniteSet(Kept(t, r))
    <3>1. Kept(t, r) \subseteq EdgesOf(t)
      BY DEF Kept
    <3> QED
      BY <3>1, EdgesFinite
  <2> QED
    BY <2>1, AscendingPlaces
<1> HIDE DEF g, place, k
<1>3. EdgesOf(g) = 1..(k + Len(v.edges)) /\ Len(v.edges) \in Nat
  BY <1>1, GraphParts DEF IsValue
<1>4. PICK a, b : v.targets = <<a, b>>
  BY DEF IsValue
<1>5. Range(v.targets) = {a, b}
  BY <1>4 DEF Range
<1>6. ASSUME NEW i \in 1..k
      PROVE  /\ place[i] \in EdgesOf(t)
             /\ g.edges[i].tgt = t.edges[place[i]].tgt
             /\ Sources(g, i) \subseteq (Sources(t, place[i]) \ {r.closure}) \cup Range(v.targets)
             /\ Sources(t, place[i]) \ {r.closure} \subseteq Sources(g, i)
             /\ r.closure \notin Sources(t, place[i]) => g.edges[i].src = t.edges[place[i]].src
             /\ Len(t.edges[place[i]].src) >= 1 =>
                  IF t.edges[place[i]].src[1] = r.closure THEN g.edges[i].src[1] \in Range(v.targets)
                  ELSE g.edges[i].src[1] = t.edges[place[i]].src[1]
  <2> DEFINE src == t.edges[place[i]].src
             tgt == t.edges[place[i]].tgt
  <2>1. place[i] \in EdgesOf(t) /\ place[i] # r.marker
    BY <1>2 DEF Kept
  <2>2. src \in Seq(DOMAIN t.labels) /\ tgt \in Seq(DOMAIN t.labels)
    BY <2>1, GraphParts
  <2>3. r.closure \notin Range(tgt)
    BY <2>1 DEF MarkersMakeAlone, IsRegion, Targets
  <2>4. /\ g.edges[i].src = Expanded(src, r.closure, <<a, b>>)
        /\ g.edges[i].tgt = Expanded(tgt, r.closure, <<a, b>>)
    BY <1>1, <1>4
  <2>5. Sources(g, i) = Range(g.edges[i].src) /\ Sources(t, place[i]) = Range(src)
    BY DEF Sources
  <2> HIDE DEF src, tgt
  <2>6. g.edges[i].tgt = tgt
    BY <2>2, <2>3, <2>4, ExpandedWires
  <2> DEFINE s == Expanded(src, r.closure, <<a, b>>)
  <2>7. /\ r.closure \notin Range(src) => s = src
        /\ Range(s) \subseteq (Range(src) \ {r.closure}) \cup {a, b}
        /\ Range(src) \ {r.closure} \subseteq Range(s)
        /\ Len(src) >= 1 => s[1] = IF src[1] = r.closure THEN a ELSE src[1]
    BY <2>2, ExpandedWires
  <2> HIDE DEF s
  <2> QED
    BY <1>5, <2>1, <2>4, <2>5, <2>6, <2>7 DEF s, src, tgt
<1>7. KeepsWires(g, t, r, v, place, k)
  BY <1>1, <1>2, <1>3, <1>6 DEF KeepsWires
<1> QED
  BY <1>7 DEF g, place, k

LEMMA SplicedNames ==
  ASSUME NEW t, IsGraph(t), MarkersMakeAlone(t), NEW r, IsRegion(t, r), NEW v, IsValue(t, r, v),
         ~HasDeletedBoundary(t, r), AllNamed(t)
  PROVE  AllNamed(Spliced(t, r, v))
<1> DEFINE g == Spliced(t, r, v)
           place == Ascending(Kept(t, r))
           k == Cardinality(Kept(t, r))
           fresh == DOMAIN v.labels
<1>1. KeepsTargets(g, t, place, k, fresh)
  BY SplicedTargets
<1>2. KeepsWires(g, t, r, v, place, k)
  BY SplicedWires
<1> HIDE DEF g, place, k, fresh
<1>3. /\ k \in Nat /\ Len(v.edges) \in Nat /\ EdgesOf(g) = 1..(k + Len(v.edges))
      /\ \A e \in Kept(t, r) : \E i \in 1..k : place[i] = e
      /\ \A i \in 1..k : place[i] \in Kept(t, r) /\ place[i] \in EdgesOf(t)
  BY <1>2 DEF KeepsWires
<1>4. r.marker \in Markers(t) /\ r.closure \in Produced(t, Markers(t))
  BY DEF IsRegion, Produced
<1>5. Produced(g, Markers(g)) \subseteq Produced(t, Markers(t))
  <2> SUFFICES ASSUME NEW m \in Markers(g)
               PROVE  Targets(g, m) \subseteq Produced(t, Markers(t))
    BY DEF Produced
  <2>1. m \in 1..k /\ g.edges[m].k = "marker"
    BY <1>1 DEF KeepsTargets, Markers, OfKind
  <2>2. Targets(g, m) = Targets(t, place[m]) /\ place[m] \in Markers(t)
    BY <1>1, <1>3, <2>1 DEF KeepsTargets, Markers, OfKind
  <2> QED
    BY <2>2 DEF Produced
<1>6. SUFFICES ASSUME NEW i \in OfKind(g, "eval")
               PROVE  IsNamedCall(g, i) /\ Len(g.edges[i].src) = 2
  BY DEF AllNamed, g
<1>7. i \in 1..k /\ g.edges[i].k = "eval"
  BY <1>1 DEF KeepsTargets, OfKind
<1> DEFINE x == place[i]
           ns == t.edges[x].src
<1>8. x \in Kept(t, r) /\ x \in OfKind(t, "eval") /\ x \in EdgesOf(t)
  BY <1>1, <1>3, <1>7 DEF KeepsTargets, OfKind
<1>9. /\ ns[2] \in Produced(t, Names(t)) /\ Len(ns) = 2 /\ Len(t.edges[x].tgt) = 1
      /\ Sources(t, x) \cap Produced(t, Markers(t)) = {}
  BY <1>8 DEF AllNamed, IsNamedCall
\* The closure is no source of the eval, which stays as it is.
<1>10. g.edges[i].src = ns /\ g.edges[i].tgt = t.edges[x].tgt
  <2>1. r.closure \notin Sources(t, x)
    BY <1>4, <1>9
  <2> QED
    BY <1>2, <1>7, <2>1 DEF KeepsWires
<1>11. Sources(g, i) = Sources(t, x)
  BY <1>10 DEF Sources
<1>12. ns[2] \in Sources(t, x)
  <2>1. ns \in Seq(DOMAIN t.labels) /\ 2 \in 1..Len(ns)
    BY <1>8, <1>9, GraphParts
  <2> HIDE DEF x
  <2> QED
    BY <2>1, ListRange DEF Sources
<1>13. PICK m \in Names(t) : ns[2] \in Targets(t, m)
  BY <1>9 DEF Produced
<1>14. m \in EdgesOf(t) /\ t.edges[m].k \in {"name", "closure"} /\ m # r.marker
  BY <1>4 DEF Names, OfKind, Markers
<1>15. ns[2] # r.closure
  BY <1>4, <1>9, <1>12
\* A name in the region would make an inner node, which nothing that stays uses.
<1>16. m \notin r.edges
  <2> SUFFICES ASSUME m \in r.edges PROVE FALSE
    OBVIOUS
  <2>1. ns[2] \in Produced(t, r.edges)
    BY <1>13 DEF Produced
  <2>2. ns[2] \in r.nodes /\ ns[2] \notin Outside(r)
    BY <2>1 DEF IsRegion
  <2>3. ns[2] \in Deleted(r) \ {r.closure}
    BY <1>15, <2>2 DEF Deleted
  <2>4. ns[2] \in Incident(t, x)
    BY <1>12 DEF Incident
  <2> QED
    BY <1>8, <2>3, <2>4 DEF HasDeletedBoundary
<1>17. PICK q \in 1..k : place[q] = m
  <2>1. m \in Kept(t, r)
    BY <1>14, <1>16 DEF Kept
  <2> QED
    BY <1>3, <2>1
<1>18. q \in Names(g) /\ ns[2] \in Targets(g, q)
  <2>1. q \in EdgesOf(g) /\ g.edges[q].k \in {"name", "closure"} /\ Targets(g, q) = Targets(t, m)
    BY <1>1, <1>3, <1>14, <1>17 DEF KeepsTargets
  <2> QED
    BY <1>13, <2>1 DEF Names, OfKind
<1>19. ns[2] \in Produced(g, Names(g))
  BY <1>18 DEF Produced
<1> HIDE DEF x
<1> QED
  BY <1>5, <1>9, <1>10, <1>11, <1>19 DEF IsNamedCall

LEMMA ConvertedNames ==
  ASSUME NEW t, IsGraph(t), NEW g, IsConverted(g, t), MarkersMakeAlone(t)
  PROVE  MarkersMakeAlone(g) /\ (AllNamed(t) => AllNamed(g))
<1>1. /\ EdgesOf(g) = EdgesOf(t)
      /\ \A e \in EdgesOf(t) : /\ Targets(g, e) = Targets(t, e) /\ Sources(g, e) = Sources(t, e)
                               /\ g.edges[e].src = t.edges[e].src /\ g.edges[e].tgt = t.edges[e].tgt
                               /\ \/ g.edges[e].k = t.edges[e].k
                                  \/ g.edges[e].k = "converted" /\ t.edges[e].k = "op"
  BY DEF IsConverted, EdgesOf, Targets, Sources
<1>2. Markers(g) = Markers(t) /\ Names(g) = Names(t) /\ OfKind(g, "eval") = OfKind(t, "eval")
  BY <1>1 DEF Markers, Names, OfKind
<1>3. MarkersMakeAlone(g)
  BY <1>1, <1>2 DEF MarkersMakeAlone, Markers, OfKind
<1>4. /\ Produced(g, Names(g)) = Produced(t, Names(t))
      /\ Produced(g, Markers(g)) = Produced(t, Markers(t))
  <2>1. \A e \in Names(t) \cup Markers(t) : Targets(g, e) = Targets(t, e)
    BY <1>1 DEF Names, Markers, OfKind
  <2> QED
    BY <1>2, <2>1 DEF Produced
<1>5. ASSUME AllNamed(t) PROVE AllNamed(g)
  <2> SUFFICES ASSUME NEW e \in OfKind(g, "eval")
               PROVE  IsNamedCall(g, e) /\ Len(g.edges[e].src) = 2
    BY DEF AllNamed
  <2>1. IsNamedCall(t, e) /\ Len(t.edges[e].src) = 2 /\ e \in EdgesOf(t)
    BY <1>2, <1>5 DEF AllNamed, OfKind
  <2> QED
    BY <1>1, <1>4, <2>1 DEF IsNamedCall
<1> QED
  BY <1>3, <1>5

LEMMA ConvertNames ==
  ASSUME ConvInv, Convert
  PROVE  NameInv'
<1>1. /\ IsRegion(term, Selected) /\ IsGraph(term) /\ ~HasDeletedBoundary(term, Selected)
      /\ IsValue(term, Selected, SelectedValue)
  BY ConvertParts
<1> DEFINE r == Selected
           v == SelectedValue
           g == Spliced(term, r, v)
<1>2. term' = Rewritten(g) /\ original' = original
  BY DEF Convert
<1>3. status # "done"
  BY DEF Convert, Scheduled
<1>4. MarkersMakeAlone(term) /\ (AllNamed(original) => AllNamed(term))
  BY <1>3 DEF ConvInv, NameInv
<1> HIDE DEF r, v
<1>5. MarkersMakeAlone(g) /\ IsGraph(g)
  BY <1>1, <1>4, SplicedMarkers, SplicedParts DEF r, v
<1>6. AllNamed(term) => AllNamed(g)
  BY <1>1, <1>4, SplicedNames DEF r, v
<1> HIDE DEF g
<1>7. IsConverted(Rewritten(g), g)
  BY <1>5, RewrittenParts
<1>8. MarkersMakeAlone(Rewritten(g)) /\ (AllNamed(g) => AllNamed(Rewritten(g)))
  BY <1>5, <1>7, ConvertedNames
<1> QED
  BY <1>2, <1>4, <1>6, <1>8 DEF NameInv

LEMMA NextConv ==
  ASSUME ConvInv, [Next]_vars
  PROVE  ConvInv'
<1>1. GraphInv' /\ RegionInv'
  BY NextGraph
<1>2. NameInv'
  <2>1. CASE Discover
    BY <2>1 DEF Discover, ConvInv, NameInv
  <2>2. CASE Convert
    BY <2>2, ConvertNames
  <2>3. CASE Finish
    BY <2>3 DEF Finish, NameInv
  <2>4. CASE UNCHANGED vars
    BY <2>4 DEF vars, ConvInv, NameInv
  <2> QED
    BY <2>1, <2>2, <2>3, <2>4 DEF Next
<1> QED
  BY <1>1, <1>2 DEF ConvInv

THEOREM Converts == Spec => []ConvInv
<1>1. ConvInv /\ [Next]_vars => ConvInv'
  BY NextConv
<1> QED
  BY <1>1, InitConv, PTL DEF Spec

LEMMA ConvTypes ==
  ASSUME ConvInv
  PROVE  TypeOK
<1>1. \A t \in Graphs : IsTerm(t)
  <2>1. \A t \in Graphs : IsGraph(t)
    BY DEF Graphs, Range, ConvInv, GraphInv
  <2> QED
    BY <2>1, GraphIsTerm
<1>2. \A r \in regions : r.nodes \subseteq DOMAIN term.labels
  <2> TAKE r \in regions
  <2>1. PICK e \in Markers(term) : r = FindRegion(term, e)
    BY DEF ConvInv, RegionInv
  <2>2. IsRegion(term, r)
    BY <2>1, FoundRegion DEF ConvInv, GraphInv, RegionInv
  <2> QED
    BY <2>2 DEF IsRegion
<1> QED
  BY <1>1, <1>2 DEF TypeOK, ConvInv, GraphInv

\* Every node that an edge, a boundary or a region uses is a node of its graph,
\* whatever splice_region, build_body or context::erase did last.
THEOREM Types == Spec => []TypeOK
BY Converts, ConvTypes, PTL

LEMMA ConvRefusals ==
  ASSUME ConvInv
  PROVE  RefusesUnnamedOnly
<1> SUFFICES ASSUME Refuses, \A e \in OfKind(original, "eval") : IsNamedCall(original, e)
             PROVE  FALSE
  BY DEF RefusesUnnamedOnly
<1>1. Scheduled /\ HasUnnamedEval(term, Selected)
  BY DEF Refuses
<1>2. IsRegion(term, Selected) /\ HasItsNames(term, Selected)
  BY <1>1, SelectedRegion
<1>3. AllNamed(original)
  <2>1. IsForgotten(original)
    BY TermsAssumption DEF ConvInv, GraphInv
  <2>2. \A e \in EdgesOf(original) :
          original.edges[e].k = "eval" => Len(original.edges[e].src) = 2
    BY <2>1 DEF IsForgotten
  <2> QED
    BY <2>2 DEF AllNamed, OfKind
<1>4. IsGraph(term) /\ AllNamed(term)
  BY <1>1, <1>3 DEF ConvInv, GraphInv, NameInv, Scheduled
<1> DEFINE r == Selected
<1> HIDE DEF r
<1>5. ASSUME NEW e \in Evals(term, r)
      PROVE  NameOf(term, r, e) # {} /\ Len(term.edges[e].src) = 2 /\ Len(term.edges[e].tgt) = 1
  <2>1. e \in r.edges /\ e \in OfKind(term, "eval") /\ e \in EdgesOf(term)
    BY DEF Evals, OfKind
  <2> DEFINE ns == term.edges[e].src
  <2>2. /\ ns[2] \in Produced(term, Names(term)) /\ Len(ns) = 2 /\ Len(term.edges[e].tgt) = 1
    BY <1>4, <2>1 DEF AllNamed, IsNamedCall
  <2>3. ns[2] \in Sources(term, e)
    <3>1. ns \in Seq(DOMAIN term.labels) /\ 2 \in 1..Len(ns)
      BY <1>4, <2>1, <2>2, GraphParts
    <3> QED
      BY <3>1, ListRange DEF Sources
  <2>4. PICK m \in Names(term) : ns[2] \in Targets(term, m)
    BY <2>2 DEF Produced
  <2>5. m \in r.edges
    BY <1>2, <2>1, <2>3, <2>4 DEF HasItsNames, r
  <2> QED
    BY <2>2, <2>4, <2>5 DEF NameOf
<1> QED
  BY <1>1, <1>5 DEF HasUnnamedEval, r

\* A definition whose evals all take their function from a name, no closure, and
\* have one result is never refused, whatever was cut out of it before
\* (define_closure_and_name, named_calls, inline_named_call).
THEOREM Refusals == Spec => []RefusesUnnamedOnly
BY Converts, ConvRefusals, PTL

-----------------------------------------------------------------------------
\* Operations.

\* The places of the operation n in a definition t and its generated functions fs.
GraphIn(t, fs, i) == IF i = 0 THEN t ELSE fs[i]
PlacesIn(t, fs, n) ==
  UNION {{<<i, e>> : e \in Occurrences(GraphIn(t, fs, i), n)} : i \in 0..Len(fs)}

\* g has the operation n where t has it, as far as I lists the edges of t.
TakesFrom(g, t, I, n) ==
  Occurrences(g, n) = {i \in 1..Cardinality(I) : Ascending(I)[i] \in Occurrences(t, n)}

IsMoved(new, old) == IsFiniteSet(new) /\ Cardinality(new) = Cardinality(old)

LEMMA SameNumber ==
  ASSUME NEW S, NEW T, IsFiniteSet(T), NEW f, f \in [S -> T],
         \A x, y \in S : f[x] = f[y] => x = y,
         \A y \in T : \E x \in S : f[x] = y
  PROVE  IsMoved(S, T)
<1>1. f \in Injection(S, T)
  BY DEF Injection, IsInjective
<1>2. f \in Surjection(S, T)
  BY DEF Surjection
<1> QED
  BY <1>1, <1>2, FS_Injection DEF IsMoved

\* A list K of the edges of t went into g and the rest that matter, C, into b.
LEMMA MovedByConvert ==
  ASSUME NEW t, NEW fs, IsList(fs), NEW g, NEW b, NEW n,
         NEW K, K \subseteq Nat, IsFiniteSet(K), NEW C, C \subseteq Nat, IsFiniteSet(C),
         K \cap C = {}, Occurrences(t, n) \subseteq K \cup C,
         TakesFrom(g, t, K, n), TakesFrom(b, t, C, n), IsFiniteSet(PlacesIn(t, fs, n))
  PROVE  IsMoved(PlacesIn(g, Append(fs, b), n), PlacesIn(t, fs, n))
<1> DEFINE gs == Append(fs, b)
           N == Len(fs)
           S == PlacesIn(g, gs, n)
           T == PlacesIn(t, fs, n)
           kept == Ascending(K)
           moved == Ascending(C)
           at(p) == IF p[1] = 0 THEN <<0, kept[p[2]]>>
                    ELSE IF p[1] = N + 1 THEN <<0, moved[p[2]]>> ELSE p
           f == [p \in S |-> at(p)]
<1>1. N \in Nat /\ Len(gs) = N + 1 /\ gs[N + 1] = b /\ \A i \in 1..N : gs[i] = fs[i]
  BY Lists, Pushed
<1>2. /\ \A i \in 1..Cardinality(K) : kept[i] \in K
      /\ \A i, j \in 1..Cardinality(K) : kept[i] = kept[j] => i = j
      /\ \A e \in K : \E i \in 1..Cardinality(K) : kept[i] = e
  BY AscendingPlaces
<1>3. /\ \A i \in 1..Cardinality(C) : moved[i] \in C
      /\ \A i, j \in 1..Cardinality(C) : moved[i] = moved[j] => i = j
      /\ \A e \in C : \E i \in 1..Cardinality(C) : moved[i] = e
  BY AscendingPlaces
<1> HIDE DEF kept, moved, gs, N
<1>4. /\ Occurrences(g, n) = {i \in 1..Cardinality(K) : kept[i] \in Occurrences(t, n)}
      /\ Occurrences(b, n) = {i \in 1..Cardinality(C) : moved[i] \in Occurrences(t, n)}
  BY DEF TakesFrom, kept, moved
<1>5. \A p : p \in T <=> \/ \E e \in Occurrences(t, n) : p = <<0, e>>
                         \/ \E i \in 1..N : \E e \in Occurrences(fs[i], n) : p = <<i, e>>
  <2>1. 0..N = {0} \cup 1..N /\ \A i \in 1..N : i # 0
    BY <1>1
  <2> QED
    BY <2>1 DEF PlacesIn, GraphIn, N
<1>6. \A p : p \in S <=> \/ \E e \in Occurrences(g, n) : p = <<0, e>>
                         \/ \E e \in Occurrences(b, n) : p = <<N + 1, e>>
                         \/ \E i \in 1..N : \E e \in Occurrences(fs[i], n) : p = <<i, e>>
  <2>1. 0..(N + 1) = {0, N + 1} \cup 1..N /\ N + 1 # 0 /\ \A i \in 1..N : i # 0 /\ i # N + 1
    BY <1>1
  <2>2. /\ GraphIn(g, gs, 0) = g /\ GraphIn(g, gs, N + 1) = b
        /\ \A i \in 1..N : GraphIn(g, gs, i) = fs[i]
    BY <1>1, <2>1 DEF GraphIn
  <2> QED
    BY <1>1, <2>1, <2>2 DEF PlacesIn
<1> HIDE DEF S, T, at, f
<1>7. /\ \A e \in Occurrences(g, n) : at(<<0, e>>) = <<0, kept[e]>> /\ kept[e] \in Occurrences(t, n) \cap K
      /\ \A e \in Occurrences(b, n) : at(<<N + 1, e>>) = <<0, moved[e]>> /\ moved[e] \in Occurrences(t, n) \cap C
      /\ \A i \in 1..N : \A e \in Occurrences(fs[i], n) : at(<<i, e>>) = <<i, e>>
  <2>1. N + 1 # 0 /\ \A i \in 1..N : i # 0 /\ i # N + 1
    BY <1>1
  <2> QED
    BY <1>2, <1>3, <1>4, <2>1 DEF at
<1>8. f = [p \in S |-> at(p)]
  BY DEF f
<1>9. f \in [S -> T]
  <2>1. \A p \in S : at(p) \in T
    BY <1>5, <1>6, <1>7
  <2> QED
    BY <1>8, <2>1
<1>d. \A p \in S :
        \/ \E e \in 1..Cardinality(K) : p = <<0, e>> /\ at(p) = <<0, kept[e]>> /\ kept[e] \in K
        \/ \E e \in 1..Cardinality(C) : p = <<N + 1, e>> /\ at(p) = <<0, moved[e]>> /\ moved[e] \in C
        \/ at(p) = p /\ p[1] # 0
  <2> TAKE p \in S
  <2>1. CASE \E e \in Occurrences(g, n) : p = <<0, e>>
    BY <1>4, <1>7, <2>1
  <2>2. CASE \E e \in Occurrences(b, n) : p = <<N + 1, e>>
    BY <1>4, <1>7, <2>2
  <2>3. CASE \E i \in 1..N : \E e \in Occurrences(fs[i], n) : p = <<i, e>>
    <3>1. \A i \in 1..N : i # 0
      BY <1>1
    <3> QED
      BY <1>7, <2>3, <3>1
  <2> QED
    BY <1>6, <2>1, <2>2, <2>3
<1>10. ASSUME NEW p \in S, NEW q \in S, f[p] = f[q] PROVE p = q
  <2>1. at(p) = at(q)
    BY <1>8, <1>10
  <2>3. CASE \E e \in 1..Cardinality(K) : p = <<0, e>> /\ at(p) = <<0, kept[e]>> /\ kept[e] \in K
    <3>1. PICK e \in 1..Cardinality(K) : p = <<0, e>> /\ at(p) = <<0, kept[e]>> /\ kept[e] \in K
      BY <2>3
    <3>a. at(q) = <<0, kept[e]>>
      BY <2>1, <3>1
    <3>b. kept[e] \notin C
      BY <3>1
    <3>2. at(q)[1] = 0 /\ at(q)[2] = kept[e] /\ kept[e] \notin C
      BY <3>a, <3>b
    <3>3. PICK d \in 1..Cardinality(K) : q = <<0, d>> /\ at(q) = <<0, kept[d]>>
      BY <1>d, <3>2
    <3>4. kept[e] = kept[d]
      BY <3>2, <3>3
    <3> QED
      BY <1>2, <3>1, <3>3, <3>4
  <2>4. CASE \E e \in 1..Cardinality(C) : p = <<N + 1, e>> /\ at(p) = <<0, moved[e]>> /\ moved[e] \in C
    <3>1. PICK e \in 1..Cardinality(C) : p = <<N + 1, e>> /\ at(p) = <<0, moved[e]>> /\ moved[e] \in C
      BY <2>4
    <3>a. at(q) = <<0, moved[e]>>
      BY <2>1, <3>1
    <3>b. moved[e] \notin K
      BY <3>1
    <3>2. at(q)[1] = 0 /\ at(q)[2] = moved[e] /\ moved[e] \notin K
      BY <3>a, <3>b
    <3>3. PICK d \in 1..Cardinality(C) : q = <<N + 1, d>> /\ at(q) = <<0, moved[d]>>
      BY <1>d, <3>2
    <3>4. moved[e] = moved[d]
      BY <3>2, <3>3
    <3> QED
      BY <1>3, <3>1, <3>3, <3>4
  <2>5. CASE at(p) = p /\ p[1] # 0
    <3>1. at(q)[1] # 0
      BY <2>1, <2>5
    <3>2. at(q) = q
      BY <1>d, <3>1
    <3> QED
      BY <2>1, <2>5, <3>2
  <2> QED
    BY <1>d, <2>3, <2>4, <2>5
<1>11. ASSUME NEW y \in T PROVE \E p \in S : f[p] = y
  <2>1. CASE \E e \in Occurrences(t, n) : y = <<0, e>>
    <3>1. PICK e \in Occurrences(t, n) : y = <<0, e>>
      BY <2>1
    <3>2. CASE e \in K
      <4>1. PICK i \in 1..Cardinality(K) : kept[i] = e
        BY <1>2, <3>2
      <4>2. i \in Occurrences(g, n)
        BY <1>4, <3>1, <4>1
      <4>3. <<0, i>> \in S /\ at(<<0, i>>) = y
        BY <1>6, <1>7, <3>1, <4>1, <4>2
      <4> QED
        BY <1>8, <4>3
    <3>3. CASE e \in C
      <4>1. PICK i \in 1..Cardinality(C) : moved[i] = e
        BY <1>3, <3>3
      <4>2. i \in Occurrences(b, n)
        BY <1>4, <3>1, <4>1
      <4>3. <<N + 1, i>> \in S /\ at(<<N + 1, i>>) = y
        BY <1>6, <1>7, <3>1, <4>1, <4>2
      <4> QED
        BY <1>8, <4>3
    <3> QED
      BY <3>2, <3>3
  <2>2. CASE \E i \in 1..N : \E e \in Occurrences(fs[i], n) : y = <<i, e>>
    <3>1. y \in S /\ at(y) = y
      BY <1>6, <1>7, <2>2
    <3> QED
      BY <1>8, <3>1
  <2> QED
    BY <1>5, <2>1, <2>2
<1>12. IsMoved(S, T)
  <2>1. \A x, y \in S : f[x] = f[y] => x = y
    BY <1>10
  <2>2. \A y \in T : \E x \in S : f[x] = y
    BY <1>11
  <2>3. IsFiniteSet(T)
    BY DEF T
  <2> QED
    BY <1>9, <2>1, <2>2, <2>3, SameNumber
<1> QED
  BY <1>12 DEF S, T, gs

LEMMA SplicedOccurrences ==
  ASSUME NEW t, IsGraph(t), NEW r, IsRegion(t, r), NEW v, IsValue(t, r, v),
         ~HasDeletedBoundary(t, r), NEW n, n # "pack"
  PROVE  TakesFrom(Rewritten(Spliced(t, r, v)), t, Kept(t, r), n)
<1> DEFINE g == Spliced(t, r, v)
           h == Rewritten(g)
           place == Ascending(Kept(t, r))
           k == Cardinality(Kept(t, r))
<1>1. /\ IsGraph(g) /\ k \in Nat /\ Len(g.edges) = k + Len(v.edges)
      /\ \A i \in 1..k : /\ g.edges[i].k = t.edges[place[i]].k
                         /\ g.edges[i].n = t.edges[place[i]].n
      /\ \A j \in 1..Len(v.edges) : g.edges[k + j] = v.edges[j]
  BY SplicedParts
<1>2. \A i \in 1..k : place[i] \in Kept(t, r)
  <2>1. Kept(t, r) \subseteq Nat /\ IsFiniteSet(Kept(t, r))
    <3>1. Kept(t, r) \subseteq EdgesOf(t)
      BY DEF Kept
    <3> QED
      BY <3>1, EdgesFinite
  <2> QED
    BY <2>1, AscendingPlaces
<1> HIDE DEF g, place, k
<1>3. IsConverted(Rewritten(g), g)
  BY <1>1, RewrittenParts
<1> HIDE DEF h
<1>4. /\ EdgesOf(h) = 1..Len(g.edges)
      /\ \A i \in EdgesOf(h) :
           /\ h.edges[i].n = g.edges[i].n
           /\ h.edges[i].k \in {"op", "converted"} <=> g.edges[i].k \in {"op", "converted"}
  <2>1. DOMAIN g.edges = 1..Len(g.edges)
    BY <1>1, GraphParts DEF EdgesOf
  <2> QED
    BY <1>3, <2>1 DEF IsConverted, EdgesOf, h
<1>5. Len(v.edges) \in Nat
  BY DEF IsValue
<1>6. \A i \in 1..k : i \in Occurrences(h, n) <=> place[i] \in Occurrences(t, n)
  <2> TAKE i \in 1..k
  <2>1. i \in EdgesOf(h) /\ place[i] \in EdgesOf(t)
    BY <1>1, <1>2, <1>4, <1>5 DEF Kept
  <2> QED
    BY <1>1, <1>4, <2>1 DEF Occurrences
<1>7. Occurrences(h, n) \subseteq 1..k
  <2> SUFFICES ASSUME NEW i \in Occurrences(h, n), i \notin 1..k PROVE FALSE
    OBVIOUS
  <2>1. i \in EdgesOf(h) /\ g.edges[i].k \in {"op", "converted"} /\ g.edges[i].n = n
    BY <1>4 DEF Occurrences
  <2>2. i - k \in 1..Len(v.edges) /\ k + (i - k) = i
    BY <1>1, <1>4, <1>5, <2>1
  <2>3. g.edges[i] = v.edges[i - k]
    BY <1>1, <2>2
  <2>4. v.edges[i - k].k \in {"context", "op", "closure"} /\ (v.edges[i - k].k = "op" => v.edges[i - k].n = "pack")
    BY <2>2 DEF IsValue
  <2> QED
    BY <2>1, <2>3, <2>4
<1>8. Occurrences(h, n) = {i \in 1..k : place[i] \in Occurrences(t, n)}
  BY <1>6, <1>7
<1> QED
  BY <1>8 DEF TakesFrom, g, h, place, k

LEMMA BodyOccurrences ==
  ASSUME NEW t, IsGraph(t), NEW r, IsRegion(t, r), ~HasUnnamedEval(t, r), NEW n
  PROVE  TakesFrom(BuildBody(t, r), t, Copied(t, r), n)
<1> DEFINE b == BuildBody(t, r)
           place == Ascending(Copied(t, r))
           c == Cardinality(Copied(t, r))
<1>1. /\ IsGraph(b) /\ c \in Nat /\ Len(b.edges) >= c
      /\ \A i \in 1..c : b.edges[i] = t.edges[place[i]]
      /\ \A i \in (c + 1)..Len(b.edges) : b.edges[i].k = "call"
  BY BodyParts
<1>2. \A i \in 1..c : place[i] \in EdgesOf(t)
  <2>1. Copied(t, r) \subseteq EdgesOf(t)
    BY DEF Copied, IsRegion, Ordinary
  <2>2. Copied(t, r) \subseteq Nat /\ IsFiniteSet(Copied(t, r))
    BY <2>1, EdgesFinite
  <2>3. \A i \in 1..Cardinality(Copied(t, r)) : Ascending(Copied(t, r))[i] \in Copied(t, r)
    BY <2>2, AscendingPlaces
  <2> QED
    BY <2>1, <2>3
<1> HIDE DEF b, place, c
<1>3. EdgesOf(b) = 1..Len(b.edges) /\ Len(b.edges) \in Nat
  BY <1>1, GraphParts
<1>4. \A i \in 1..c : i \in Occurrences(b, n) <=> place[i] \in Occurrences(t, n)
  <2> TAKE i \in 1..c
  <2>1. i \in EdgesOf(b) /\ place[i] \in EdgesOf(t)
    BY <1>1, <1>2, <1>3
  <2> QED
    BY <1>1, <2>1 DEF Occurrences
<1>5. Occurrences(b, n) \subseteq 1..c
  <2> SUFFICES ASSUME NEW i \in Occurrences(b, n), i \notin 1..c PROVE FALSE
    OBVIOUS
  <2>1. i \in 1..Len(b.edges) /\ b.edges[i].k \in {"op", "converted"}
    BY <1>3 DEF Occurrences
  <2>2. i \in (c + 1)..Len(b.edges)
    BY <1>1, <1>3, <2>1
  <2> QED
    BY <1>1, <2>1, <2>2
<1>6. Occurrences(b, n) = {i \in 1..c : place[i] \in Occurrences(t, n)}
  BY <1>4, <1>5
<1> QED
  BY <1>6 DEF TakesFrom, b, place, c

\* The operations of a region go into its function, the others stay.
LEMMA KeptOrCopied ==
  ASSUME NEW t, NEW r, IsRegion(t, r), NEW n
  PROVE  /\ Kept(t, r) \cap Copied(t, r) = {}
         /\ Occurrences(t, n) \subseteq Kept(t, r) \cup Copied(t, r)
<1>1. Kept(t, r) \cap Copied(t, r) = {}
  BY DEF Kept, Copied
<1>2. ASSUME NEW e \in Occurrences(t, n), e \notin Kept(t, r) PROVE e \in Copied(t, r)
  <2>1. e \in EdgesOf(t) /\ t.edges[e].k \in {"op", "converted"}
    BY DEF Occurrences
  <2>2. e # r.marker
    BY <2>1 DEF IsRegion, Markers, OfKind
  <2>3. e \in r.edges
    BY <1>2, <2>1, <2>2 DEF Kept
  <2>4. e \notin Names(t) /\ e \notin OfKind(t, "eval")
    BY <2>1 DEF Names, OfKind
  <2>5. \A x \in Evals(t, r) : e \notin NameOf(t, r, x) \cup {x}
    BY <2>4 DEF NameOf, Evals
  <2> QED
    BY <2>3, <2>5 DEF Copied
<1> QED
  BY <1>1, <1>2

LEMMA ConvertPlaces ==
  ASSUME ConvInv, Convert, NEW CONSTANT n, n # "pack", IsFiniteSet(PlacesIn(term, functions, n))
  PROVE  IsMoved(PlacesIn(term', functions', n), PlacesIn(term, functions, n))
<1> DEFINE r == Selected
           K == Kept(term, r)
           C == Copied(term, r)
           g == Rewritten(Spliced(term, r, SelectedValue))
           b == BuildBody(term, r)
<1>1. /\ IsRegion(term, r) /\ ~HasUnnamedEval(term, r) /\ IsGraph(term)
      /\ ~HasDeletedBoundary(term, r) /\ IsValue(term, r, SelectedValue)
  BY ConvertParts
<1>2. term' = g /\ functions' = Append(functions, b)
  BY DEF Convert
<1>3. IsList(functions)
  BY DEF ConvInv, GraphInv
<1> HIDE DEF r
<1>4. TakesFrom(g, term, K, n)
  BY <1>1, SplicedOccurrences
<1>5. TakesFrom(b, term, C, n)
  BY <1>1, BodyOccurrences
<1>6. K \cap C = {} /\ Occurrences(term, n) \subseteq K \cup C
  BY <1>1, KeptOrCopied
<1>7. K \subseteq Nat /\ IsFiniteSet(K) /\ C \subseteq Nat /\ IsFiniteSet(C)
  <2>1. K \subseteq EdgesOf(term) /\ C \subseteq EdgesOf(term)
    BY <1>1 DEF Kept, Copied, IsRegion, Ordinary
  <2> QED
    BY <1>1, <2>1, EdgesFinite
<1> HIDE DEF K, C, g, b
<1>8. IsMoved(PlacesIn(g, Append(functions, b), n), PlacesIn(term, functions, n))
  BY <1>3, <1>4, <1>5, <1>6, <1>7, MovedByConvert
<1> QED
  BY <1>2, <1>8

LEMMA FinishedOccurrences ==
  ASSUME NEW t, IsGraph(t), NEW n
  PROVE  /\ TakesFrom(Erased(Converted(t)), t, Lasting(t), n)
         /\ Lasting(t) \subseteq Nat /\ IsFiniteSet(Lasting(t)) /\ Occurrences(t, n) \subseteq Lasting(t)
<1> DEFINE c == Converted(t)
           g == Erased(c)
           I == Lasting(t)
           place == Ascending(I)
           k == Cardinality(I)
<1>1. I \subseteq Nat /\ IsFiniteSet(I)
  <2>1. I \subseteq EdgesOf(t)
    BY DEF Lasting
  <2> HIDE DEF I
  <2> QED
    BY <2>1, EdgesFinite
<1>2. Occurrences(t, n) \subseteq I
  BY DEF Lasting, Occurrences, OfKind
<1>3. IsConverted(c, t) /\ IsGraph(c)
  BY ConvertedParts DEF IsConverted
<1> HIDE DEF c
<1>4. /\ EdgesOf(c) = EdgesOf(t) /\ Lasting(c) = I
      /\ \A e \in EdgesOf(t) :
           /\ c.edges[e].n = t.edges[e].n
           /\ c.edges[e].k \in {"op", "converted"} <=> t.edges[e].k \in {"op", "converted"}
  BY <1>3 DEF IsConverted, EdgesOf, OfKind, Lasting
<1>5. HasEdgesAt(g, c, I)
  <2>1. HasEdgesAt(Erased(c), c, Lasting(c))
    BY <1>3, ErasedParts
  <2> QED
    BY <1>4, <2>1
<1> HIDE DEF g, I, place, k
<1>6. EdgesOf(g) = 1..k /\ \A i \in 1..k : g.edges[i].k = c.edges[place[i]].k /\ g.edges[i].n = c.edges[place[i]].n
  BY <1>5 DEF HasEdgesAt, EdgesOf, place, k
<1>7. \A i \in 1..k : place[i] \in EdgesOf(t)
  <2>1. \A i \in 1..k : place[i] \in I
    BY <1>1, AscendingPlaces DEF place, k
  <2> QED
    BY <2>1 DEF I, Lasting
<1>8. Occurrences(g, n) = {i \in 1..k : place[i] \in Occurrences(t, n)}
  BY <1>4, <1>6, <1>7 DEF Occurrences
<1> QED
  BY <1>1, <1>2, <1>8 DEF TakesFrom, c, g, I, place, k

LEMMA MovedByFinish ==
  ASSUME NEW t, NEW fs, NEW g, NEW gs, Len(gs) = Len(fs), NEW n,
         \A i \in 0..Len(fs) :
           LET h == GraphIn(t, fs, i)
           IN /\ TakesFrom(GraphIn(g, gs, i), h, Lasting(h), n)
              /\ Lasting(h) \subseteq Nat /\ IsFiniteSet(Lasting(h)) /\ Occurrences(h, n) \subseteq Lasting(h),
         IsFiniteSet(PlacesIn(t, fs, n))
  PROVE  IsMoved(PlacesIn(g, gs, n), PlacesIn(t, fs, n))
<1> DEFINE N == Len(fs)
           S == PlacesIn(g, gs, n)
           T == PlacesIn(t, fs, n)
           old(i) == GraphIn(t, fs, i)
           new(i) == GraphIn(g, gs, i)
           place(i) == Ascending(Lasting(old(i)))
           many(i) == Cardinality(Lasting(old(i)))
           at(p) == <<p[1], place(p[1])[p[2]]>>
           f == [p \in S |-> at(p)]
<1>1. ASSUME NEW i \in 0..N
      PROVE  /\ Occurrences(new(i), n) = {e \in 1..many(i) : place(i)[e] \in Occurrences(old(i), n)}
             /\ \A d, e \in 1..many(i) : place(i)[d] = place(i)[e] => d = e
             /\ \A e \in Occurrences(old(i), n) : \E d \in 1..many(i) : place(i)[d] = e
  <2>1. /\ TakesFrom(new(i), old(i), Lasting(old(i)), n)
        /\ Lasting(old(i)) \subseteq Nat /\ IsFiniteSet(Lasting(old(i)))
        /\ Occurrences(old(i), n) \subseteq Lasting(old(i))
    OBVIOUS
  <2> HIDE DEF old, new
  <2>2. /\ \A d, e \in 1..many(i) : place(i)[d] = place(i)[e] => d = e
        /\ \A e \in Lasting(old(i)) : \E d \in 1..many(i) : place(i)[d] = e
    BY <2>1, AscendingPlaces
  <2> QED
    BY <2>1, <2>2 DEF TakesFrom
<1>2. \A p : p \in T <=> \E i \in 0..N : \E e \in Occurrences(old(i), n) : p = <<i, e>>
  BY DEF PlacesIn
<1>3. \A p : p \in S <=> \E i \in 0..N : \E e \in Occurrences(new(i), n) : p = <<i, e>>
  BY DEF PlacesIn
<1>4. \A i, e : at(<<i, e>>) = <<i, place(i)[e]>>
  OBVIOUS
<1>5. IsFiniteSet(T)
  OBVIOUS
<1> HIDE DEF S, T, N, old, new, place, many, at
<1>6. f = [p \in S |-> at(p)]
  OBVIOUS
<1> HIDE DEF f
<1>7. f \in [S -> T]
  <2>1. \A p \in S : at(p) \in T
    BY <1>1, <1>2, <1>3, <1>4
  <2> QED
    BY <1>6, <2>1
<1>8. \A p, q \in S : f[p] = f[q] => p = q
  <2> TAKE p, q \in S
  <2> HAVE f[p] = f[q]
  <2>1. PICK i \in 0..N : \E e \in Occurrences(new(i), n) : p = <<i, e>>
    BY <1>3
  <2>2. PICK e \in Occurrences(new(i), n) : p = <<i, e>>
    BY <2>1
  <2>3. PICK j \in 0..N : \E d \in Occurrences(new(j), n) : q = <<j, d>>
    BY <1>3
  <2>4. PICK d \in Occurrences(new(j), n) : q = <<j, d>>
    BY <2>3
  <2>5. <<i, place(i)[e]>> = <<j, place(j)[d]>>
    BY <1>4, <1>6, <2>2, <2>4
  <2>6. i = j /\ place(i)[e] = place(i)[d]
    BY <2>5
  <2>7. e \in 1..many(i) /\ d \in 1..many(i)
    BY <1>1, <2>2, <2>4, <2>6
  <2>8. e = d
    BY <1>1, <2>6, <2>7
  <2> QED
    BY <2>2, <2>4, <2>6, <2>8
<1>9. \A y \in T : \E p \in S : f[p] = y
  <2> TAKE y \in T
  <2>1. PICK i \in 0..N : \E e \in Occurrences(old(i), n) : y = <<i, e>>
    BY <1>2
  <2>2. PICK e \in Occurrences(old(i), n) : y = <<i, e>>
    BY <2>1
  <2>3. PICK d \in 1..many(i) : place(i)[d] = e
    BY <1>1, <2>2
  <2>4. d \in Occurrences(new(i), n)
    BY <1>1, <2>2, <2>3
  <2>5. <<i, d>> \in S /\ at(<<i, d>>) = y
    BY <1>3, <1>4, <2>2, <2>3, <2>4
  <2> QED
    BY <1>6, <2>5
<1>10. IsMoved(S, T)
  BY <1>5, <1>7, <1>8, <1>9, SameNumber
<1> QED
  BY <1>10 DEF S, T

LEMMA FinishPlaces ==
  ASSUME ConvInv, Finish, NEW CONSTANT n, IsFiniteSet(PlacesIn(term, functions, n))
  PROVE  IsMoved(PlacesIn(term', functions', n), PlacesIn(term, functions, n))
<1> DEFINE t == term
           fs == functions
           g == Erased(Converted(t))
           gs == [i \in DOMAIN fs |-> Erased(Converted(fs[i]))]
<1>1. term' = g /\ functions' = gs
  BY DEF Finish
<1>2. /\ IsGraph(t) /\ IsList(fs) /\ \A i \in DOMAIN fs : IsGraph(fs[i])
      /\ Len(fs) \in Nat /\ DOMAIN fs = 1..Len(fs)
  BY Lists DEF ConvInv, GraphInv
<1>3. Len(gs) = Len(fs)
  <2> DEFINE done(i) == Erased(Converted(fs[i]))
  <2>1. gs = [i \in 1..Len(fs) |-> done(i)]
    BY <1>2
  <2> HIDE DEF done, gs
  <2> QED
    BY <1>2, <2>1
<1>4. \A i \in 0..Len(fs) :
        IsGraph(GraphIn(t, fs, i)) /\ GraphIn(g, gs, i) = Erased(Converted(GraphIn(t, fs, i)))
  <2> TAKE i \in 0..Len(fs)
  <2>1. CASE i = 0
    BY <1>2, <2>1 DEF GraphIn
  <2>2. CASE i # 0
    <3>1. i \in DOMAIN fs
      BY <1>2, <2>2
    <3> QED
      BY <1>2, <2>2, <3>1 DEF GraphIn
  <2> QED
    BY <2>1, <2>2
<1> HIDE DEF g, gs, t, fs
<1>5. ASSUME NEW i \in 0..Len(fs)
      PROVE  LET h == GraphIn(t, fs, i)
             IN /\ TakesFrom(GraphIn(g, gs, i), h, Lasting(h), n)
                /\ Lasting(h) \subseteq Nat /\ IsFiniteSet(Lasting(h)) /\ Occurrences(h, n) \subseteq Lasting(h)
  BY <1>4, FinishedOccurrences
<1>6. IsFiniteSet(PlacesIn(t, fs, n))
  BY DEF t, fs
<1>7. IsMoved(PlacesIn(g, gs, n), PlacesIn(t, fs, n))
  BY <1>3, <1>5, <1>6, MovedByFinish
<1> QED
  BY <1>1, <1>7 DEF t, fs

\* With ConvInv inductive: each operation of the definition has a number of
\* places, as many as it had.
OperationInv ==
  \A edge \in Range(original.edges) :
    edge.k = "op" => IsMoved(PlacesIn(term, functions, edge.n), Occurrences(original, edge.n))

LEMMA InitOperations ==
  ASSUME Init
  PROVE  OperationInv
<1>1. term = original /\ functions = <<>> /\ IsGraph(original)
  BY InitConv DEF Init, ConvInv, GraphInv
<1> SUFFICES ASSUME NEW n PROVE IsMoved(PlacesIn(term, functions, n), Occurrences(original, n))
  BY DEF OperationInv
<1> DEFINE S == PlacesIn(term, functions, n)
           T == Occurrences(original, n)
           f == [p \in S |-> p[2]]
<1>2. \A p : p \in S <=> \E e \in T : p = <<0, e>>
  <2>1. 0..Len(functions) = {0} /\ GraphIn(term, functions, 0) = original
    BY <1>1 DEF GraphIn
  <2> QED
    BY <2>1 DEF PlacesIn
<1>3. IsFiniteSet(T)
  <2>1. T \subseteq EdgesOf(original)
    BY DEF Occurrences
  <2> HIDE DEF T
  <2> QED
    BY <1>1, <2>1, EdgesFinite
<1> HIDE DEF S, T
<1>4. f \in [S -> T]
  BY <1>2
<1>5. \A x, y \in S : f[x] = f[y] => x = y
  BY <1>2
<1>6. \A y \in T : \E x \in S : f[x] = y
  <2> TAKE y \in T
  <2>1. <<0, y>> \in S /\ f[<<0, y>>] = y
    BY <1>2
  <2> QED
    BY <2>1
<1> HIDE DEF f
<1>7. IsMoved(S, T)
  BY <1>3, <1>4, <1>5, <1>6, SameNumber
<1> QED
  BY <1>7 DEF S, T

LEMMA NextOperations ==
  ASSUME ConvInv, OperationInv, [Next]_vars
  PROVE  OperationInv'
<1>1. original' = original
  BY DEF Next, Discover, Convert, Finish, vars
<1>2. SUFFICES ASSUME NEW CONSTANT edge, edge \in Range(original.edges), edge.k = "op"
               PROVE  IsMoved(PlacesIn(term', functions', edge.n), Occurrences(original, edge.n))
  BY <1>1 DEF OperationInv
<1> DEFINE n == edge.n
           S == PlacesIn(term, functions, n)
           T == Occurrences(original, n)
<1>3. n # "pack"
  <2>1. IsForgotten(original)
    BY TermsAssumption DEF ConvInv, GraphInv
  <2>2. \A e \in EdgesOf(original) : original.edges[e].k = "op" => original.edges[e].n # "pack"
    BY <2>1 DEF IsForgotten
  <2>3. PICK e \in EdgesOf(original) : original.edges[e] = edge
    BY <1>2 DEF EdgesOf, Range
  <2> QED
    BY <1>2, <2>2, <2>3
<1>4. IsMoved(S, T)
  BY <1>2 DEF OperationInv
<1>5. IsFiniteSet(S) /\ Cardinality(S) = Cardinality(T)
  BY <1>4 DEF IsMoved
<1> HIDE DEF T
<1>6. CASE Discover \/ UNCHANGED vars
  <2>1. term' = term /\ functions' = functions
    BY <1>6 DEF Discover, vars
  <2> QED
    BY <1>4, <2>1 DEF T
<1>7. CASE Convert
  <2>1. IsMoved(PlacesIn(term', functions', n), S)
    BY <1>3, <1>5, <1>7, ConvertPlaces
  <2> QED
    BY <1>5, <2>1 DEF IsMoved, T
<1>8. CASE Finish
  <2>1. IsMoved(PlacesIn(term', functions', n), S)
    BY <1>5, <1>8, FinishPlaces
  <2> QED
    BY <1>5, <2>1 DEF IsMoved, T
<1> QED
  BY <1>6, <1>7, <1>8 DEF Next

\* Whatever is discovered and in whichever order it is converted, an operation of
\* the definition is afterwards in one place, its own or that of a generated
\* function: no splice loses or copies one (replace.rs:580-582).
THEOREM Operations == Spec => []EachOperationOnce
<1>1. ConvInv /\ OperationInv /\ [Next]_vars => (ConvInv /\ OperationInv)'
  BY NextConv, NextOperations
<1>2. ConvInv /\ OperationInv => EachOperationOnce
  <2> SUFFICES ASSUME OperationInv, NEW n PROVE Places(n) = PlacesIn(term, functions, n)
    BY DEF OperationInv, EachOperationOnce, IsMoved
  <2> QED
    BY DEF Places, PlacesIn, Graph, GraphIn
<1>3. Init => ConvInv /\ OperationInv
  BY InitConv, InitOperations
<1> QED
  BY <1>1, <1>2, <1>3, PTL DEF Spec

-----------------------------------------------------------------------------
\* Wires: where those of a region come from, and what a replacement makes of them.

\* The ends of a region's marker, and where its wires come from: what its edges
\* use they make, or it is the argument, captured, or a parameter of a name.
HasItsEnds(t, r) ==
  /\ r.marker \in Markers(t)
  /\ r.domain \in Sources(t, r.marker) /\ r.codomain \in Sources(t, r.marker)
  /\ Targets(t, r.marker) = {r.closure} /\ r.domain = t.edges[r.marker].src[1]
  /\ r.edges \subseteq EdgesOf(t)
  /\ r.codomain \in r.environment \cup {r.domain} \cup Produced(t, r.edges)
  /\ Consumed(t, r.edges) \subseteq Produced(t, r.edges) \cup Outside(r) \cup {r.domain}
  /\ r.context \subseteq Consumed(t, r.edges \cap Names(t))
  /\ r.environment \subseteq Consumed(t, r.edges) \cup {r.codomain}
  /\ r.domain \notin r.environment
  /\ r.nodes \subseteq Outside(r) \cup {r.domain} \cup Produced(t, r.edges)

LEMMA FoundEnds ==
  ASSUME NEW t, IsGraph(t), ~InvalidMarker(t), NEW e \in Markers(t)
  PROVE  HasItsEnds(t, FindRegion(t, e))
<1> DEFINE domain == t.edges[e].src[1]
           codomain == t.edges[e].src[2]
           forward == Forward(t, domain)
           path == forward \cap (Backward(t, codomain) \cup DiscardTerminated(t, forward))
           edges == NamedDependencies(t, path)
           context == Free(t, edges, edges \cap Names(t))
           environment == EnvironmentNodes(t, edges, domain, codomain, context)
           r == FindRegion(t, e)
<1>1. e \in EdgesOf(t) /\ Len(t.edges[e].src) = 2 /\ Len(t.edges[e].tgt) = 1
  BY DEF InvalidMarker, Markers, OfKind
<1>2. domain \in Sources(t, e) /\ codomain \in Sources(t, e) /\ Targets(t, e) = {t.edges[e].tgt[1]}
  <2> DEFINE src == t.edges[e].src
             tgt == t.edges[e].tgt
  <2>1. src \in Seq(DOMAIN t.labels) /\ tgt \in Seq(DOMAIN t.labels)
    BY <1>1, GraphParts
  <2>2. Len(src) = 2 /\ Len(tgt) = 1
    BY <1>1
  <2> HIDE DEF src, tgt
  <2>3. src[1] \in Range(src) /\ src[2] \in Range(src) /\ Range(tgt) = {tgt[1]}
    BY <2>1, <2>2 DEF Range
  <2> QED
    BY <2>3 DEF src, tgt, Sources, Targets
<1>3. r.edges \subseteq Ordinary(t) /\ r.edges = edges
  <2>1. IsRegion(t, r)
    BY FoundRegion
  <2> QED
    BY <2>1 DEF IsRegion, FindRegion
<1> HIDE DEF edges, path, forward
<1>4. r = [marker |-> e, domain |-> domain, codomain |-> codomain,
           closure |-> t.edges[e].tgt[1], edges |-> edges,
           context |-> context, environment |-> environment,
           nodes |-> {domain, codomain} \cup environment \cup context
                       \cup Produced(t, edges) \cup Consumed(t, edges)]
  BY DEF FindRegion, edges, path, forward
<1> HIDE DEF domain, codomain, context, environment, r
<1>5. /\ r.marker = e /\ r.domain = domain /\ r.codomain = codomain
      /\ r.closure = t.edges[e].tgt[1] /\ r.context = context /\ r.environment = environment
      /\ r.nodes = {domain, codomain} \cup environment \cup context
                       \cup Produced(t, edges) \cup Consumed(t, edges)
  BY <1>4
<1>6. context \subseteq Consumed(t, edges \cap Names(t))
  BY DEF context, Free
<1>7. /\ environment \subseteq Consumed(t, edges) \cup {codomain} /\ domain \notin environment
      /\ codomain \in environment \cup {domain} \cup Produced(t, edges)
      /\ Consumed(t, edges) \subseteq Produced(t, edges) \cup environment \cup context \cup {domain}
  BY DEF environment, EnvironmentNodes, Free
<1>8. r.nodes \subseteq Outside(r) \cup {r.domain} \cup Produced(t, edges)
  BY <1>5, <1>7 DEF Outside
<1>9. domain = t.edges[e].src[1] /\ r.edges = edges /\ edges \subseteq EdgesOf(t)
  BY <1>3 DEF Ordinary, domain
<1>10. HasItsEnds(t, r)
  BY <1>2, <1>5, <1>6, <1>7, <1>8, <1>9 DEF HasItsEnds, Outside
<1> QED
  BY <1>10 DEF r

\* A region that is ready captures the closure of no region.
LEMMA SelectedEnds ==
  ASSUME ConvInv, Scheduled, ~HasDeletedBoundary(term, Selected)
  PROVE  /\ HasItsEnds(term, Selected)
         /\ \A n \in Produced(term, Markers(term)) : n \notin Selected.environment
<1> DEFINE r == Selected
<1>1. /\ IsGraph(term) /\ ~InvalidMarker(term)
      /\ regions = {FindRegion(term, e) : e \in Markers(term)}
  BY DEF ConvInv, GraphInv, RegionInv, Scheduled
<1>2. r \in Ready(term, regions)
  BY SelectedRegion
<1>3. r \in regions /\ Prerequisites(term, regions, r) = {}
  BY <1>2 DEF Ready
<1> HIDE DEF r
<1>4. HasItsEnds(term, r)
  BY <1>1, <1>3, FoundEnds
<1>5. ASSUME NEW n \in Produced(term, Markers(term)), n \in r.environment
      PROVE  FALSE
  <2>1. PICK m \in Markers(term) : n \in Targets(term, m)
    BY DEF Produced
  <2> DEFINE q == FindRegion(term, m)
  <2>2. HasItsEnds(term, q) /\ q.marker = m
    BY <1>1, FoundEnds, FoundRegion
  <2>3. q \in regions
    BY <1>1
  <2> HIDE DEF q
  <2>4. n = q.closure
    BY <2>1, <2>2 DEF HasItsEnds
  <2>5. q = r
    BY <1>3, <1>5, <2>3, <2>4 DEF Prerequisites, Captures
  <2> QED
    BY <1>5, <2>4, <2>5 DEF HasDeletedBoundary, Outside, r
<1> QED
  BY <1>4, <1>5 DEF r

\* The region that is converted has no closure.
LEMMA RegionIsFree ==
  ASSUME NEW t, IsGraph(t), MarkersMakeAlone(t), ClosuresAreMarked(t),
         NEW r, IsRegion(t, r), HasItsEnds(t, r),
         \A n \in Produced(t, Markers(t)) : n \notin r.environment
  PROVE  \A n \in r.nodes : t.labels[n] # "closure"
<1> SUFFICES ASSUME NEW n \in r.nodes, t.labels[n] = "closure" PROVE FALSE
  OBVIOUS
<1>1. n \in DOMAIN t.labels
  BY DEF IsRegion
<1>2. n \in Produced(t, Markers(t)) /\ n \notin Domains(t) /\ n \notin Consumed(t, Names(t))
  BY <1>1 DEF ClosuresAreMarked
<1>3. n # r.domain
  BY <1>2 DEF HasItsEnds, Domains
<1>4. n \notin r.context
  BY <1>2 DEF HasItsEnds, Consumed
<1>5. n \notin Produced(t, r.edges)
  <2> SUFFICES ASSUME NEW e \in r.edges, n \in Targets(t, e) PROVE FALSE
    BY DEF Produced
  <2>1. PICK m \in Markers(t) : n \in Targets(t, m)
    BY <1>2 DEF Produced
  <2>2. e \in EdgesOf(t) \ {m}
    BY DEF IsRegion, Ordinary
  <2> QED
    BY <2>1, <2>2 DEF MarkersMakeAlone
<1> QED
  BY <1>2, <1>3, <1>4, <1>5 DEF HasItsEnds, Outside

\* The nodes that stay have their labels, and the boundary is that of the term.
KeepsNodes(g, t, r, v) ==
  /\ DOMAIN g.labels = (DOMAIN t.labels \ Deleted(r)) \cup DOMAIN v.labels
  /\ \A n \in DOMAIN t.labels \ Deleted(r) : g.labels[n] = t.labels[n]
  /\ \A n \in DOMAIN v.labels : g.labels[n] = v.labels[n]
  /\ Range(g.sources) = Range(t.sources) \ {r.closure}
  /\ Range(g.targets) \subseteq (Range(t.targets) \ {r.closure}) \cup Range(v.targets)

LEMMA PickedRange ==
  ASSUME NEW X, NEW s, s \in Seq(X), NEW n
  PROVE  Range(Picked(s, {i \in DOMAIN s : s[i] # n})) = Range(s) \ {n}
<1> DEFINE I == {i \in DOMAIN s : s[i] # n}
           place == Ascending(I)
           c == Cardinality(I)
<1>1. Len(s) \in Nat /\ DOMAIN s = 1..Len(s)
  OBVIOUS
<1>2. I \subseteq Nat /\ IsFiniteSet(I)
  <2>1. I \in SUBSET (1..Len(s)) /\ IsFiniteSet(1..Len(s))
    BY <1>1, FS_Interval
  <2> QED
    BY <1>1, <2>1, FS_Subset
<1>3. Picked(s, I) = [i \in 1..c |-> s[place[i]]]
  BY DEF Picked
<1>4. \A i \in I : s[i] # n /\ i \in DOMAIN s
  OBVIOUS
<1>5. \A i \in DOMAIN s : s[i] # n => i \in I
  OBVIOUS
<1> HIDE DEF I
<1>6. /\ \A i \in 1..c : place[i] \in I
      /\ \A e \in I : \E i \in 1..c : place[i] = e
  BY <1>2, AscendingPlaces
<1> HIDE DEF place, c
<1> DEFINE p == Picked(s, I)
<1>7. DOMAIN p = 1..c /\ \A i \in 1..c : p[i] = s[place[i]]
  BY <1>3
<1> HIDE DEF p
<1>8. ASSUME NEW x \in Range(p) PROVE x \in Range(s) \ {n}
  BY <1>4, <1>6, <1>7 DEF Range
<1>9. ASSUME NEW x \in Range(s) \ {n} PROVE x \in Range(p)
  <2>1. PICK e \in DOMAIN s : s[e] = x
    BY DEF Range
  <2>2. PICK i \in 1..c : place[i] = e
    BY <1>5, <1>6, <2>1
  <2> QED
    BY <1>7, <2>1, <2>2 DEF Range
<1> QED
  BY <1>8, <1>9 DEF I, p

LEMMA SplicedNodes ==
  ASSUME NEW t, IsGraph(t), NEW r, NEW v, IsValue(t, r, v)
  PROVE  KeepsNodes(Spliced(t, r, v), t, r, v)
<1> DEFINE g == Spliced(t, r, v)
           nodes == (DOMAIN t.labels \ Deleted(r)) \cup DOMAIN v.labels
<1>1. /\ g.labels = [n \in nodes |-> IF n \in DOMAIN v.labels THEN v.labels[n] ELSE t.labels[n]]
      /\ g.sources = Picked(t.sources, {i \in DOMAIN t.sources : t.sources[i] # r.closure})
      /\ g.targets = Expanded(t.targets, r.closure, v.targets)
  BY DEF Spliced
<1> HIDE DEF g
<1>2. t.sources \in Seq(DOMAIN t.labels) /\ t.targets \in Seq(DOMAIN t.labels)
  BY DEF IsGraph
<1>3. Range(g.sources) = Range(t.sources) \ {r.closure}
  BY <1>1, <1>2, PickedRange
<1>4. PICK a, b : v.targets = <<a, b>>
  BY DEF IsValue
<1>5. Range(v.targets) = {a, b}
  BY <1>4 DEF Range
<1>6. Range(g.targets) \subseteq (Range(t.targets) \ {r.closure}) \cup {a, b}
  BY <1>1, <1>2, <1>4, ExpandedWires
<1>7. DOMAIN v.labels \cap DOMAIN t.labels = {}
  BY DEF IsValue
<1>8. KeepsNodes(g, t, r, v)
  BY <1>1, <1>3, <1>5, <1>6, <1>7 DEF KeepsNodes
<1> QED
  BY <1>8 DEF g

\* The edge j of the value v is a projection that passes on what the region r
\* does not own: to higher nodes, each to one of its label or a type parameter.
Projects(t, r, v, j) ==
  LET src == v.edges[j].src
      tgt == v.edges[j].tgt
      same(i) == i \in DOMAIN src /\ t.labels[src[i]] = v.labels[tgt[i]]
  IN /\ Range(src) \subseteq Outside(r)
     /\ \A n \in Range(src) : \A m \in Range(tgt) : n < m
     /\ \A i, l \in DOMAIN tgt : tgt[i] = tgt[l] => i = l
     /\ \A i \in DOMAIN tgt : v.labels[tgt[i]] = "static" \/ \A l \in 1..i : same(l)

\* Each node of a value is made once, and but for its projection the value uses
\* only its own nodes.
HasItsWires(t, r, v) ==
  /\ \A i, j \in EdgesOf(v) : i # j => Targets(v, i) \cap Targets(v, j) = {}
  /\ \A j \in EdgesOf(v) :
       /\ v.edges[j].k = "context" => Projects(t, r, v, j)
       /\ v.edges[j].k # "context" => Sources(v, j) \subseteq Produced(v, EdgesOf(v))
       /\ v.edges[j].k = "closure" => \A n \in Sources(v, j) : v.labels[n] = "static"
  /\ Range(v.targets) \subseteq Produced(v, EdgesOf(v))
  /\ \A n \in DOMAIN v.labels :
       v.labels[n] = "closure" => \E c \in r.environment : t.labels[c] = "closure"

LEMMA ValueWires ==
  ASSUME NEW t, IsGraph(t), NEW r, IsRegion(t, r), NEW id \in Nat,
         NEW base \in Nat, \A n \in DOMAIN t.labels : n <= base
  PROVE  HasItsWires(t, r, ClosureValue(t, r, id, base))
<1> DEFINE captures == Ascending(r.environment)
           count == Len(captures)
           copies == [i \in 1..count |-> base + i]
           parameters == IF \E n \in r.nodes : t.labels[n] = "static"
                         THEN <<base + count + 1>> ELSE <<>>
           environment == IF count = 1 THEN base + 1 ELSE base + count + 2
           pointer == base + count + 3
           label(n) == IF n \in Range(copies) THEN t.labels[captures[n - base]]
                       ELSE IF n \in Range(parameters) THEN "static"
                       ELSE IF n = environment
                                 /\ \E c \in r.environment : t.labels[c] = "closure"
                            THEN "closure" ELSE "value"
           new == Range(copies) \cup Range(parameters) \cup {environment, pointer}
           projected == captures \o Ascending(r.context)
           copied == copies \o parameters
           context == Edge("context", id, projected, copied)
           pack == IF count = 1 THEN <<>> ELSE <<Edge("op", "pack", copies, <<environment>>)>>
           closure == Edge("closure", id, parameters, <<pointer>>)
           edges == <<context>> \o pack \o <<closure>>
           labels == [n \in new |-> label(n)]
           v == ClosureValue(t, r, id, base)
<1>1. v.edges = edges /\ v.labels = labels /\ v.targets = <<environment, pointer>>
  BY DEF ClosureValue
<1> HIDE DEF v
<1>2. /\ captures \in Seq(r.environment) /\ count \in Nat /\ Range(captures) = r.environment
      /\ Ascending(r.context) \in Seq(r.context)
      /\ r.environment \subseteq DOMAIN t.labels /\ r.context \subseteq DOMAIN t.labels
  <2>1. r.environment \subseteq DOMAIN t.labels /\ r.context \subseteq DOMAIN t.labels
    BY DEF IsRegion
  <2>2. /\ r.environment \subseteq Nat /\ IsFiniteSet(r.environment)
        /\ r.context \subseteq Nat /\ IsFiniteSet(r.context)
    BY <2>1, NodesFinite
  <2>3. captures \in Seq(r.environment) /\ Ascending(r.context) \in Seq(r.context)
        /\ Range(captures) = r.environment
    BY <2>2, AscendingList
  <2> QED
    BY <2>1, <2>3, ListRange
<1>a. \A i \in 1..count : captures[i] \in r.environment
  <2> HIDE DEF captures
  <2> QED
    BY <1>2
<1> HIDE DEF captures
<1>3. /\ copies \in Seq(Nat) /\ Len(copies) = count
      /\ \A i \in 1..count : copies[i] = base + i
      /\ \A n \in Range(copies) : n \in Nat /\ base < n /\ n <= base + count
  <2>1. \A i \in 1..count : copies[i] = base + i
    OBVIOUS
  <2>2. DOMAIN copies = 1..count
    OBVIOUS
  <2>3. copies = [i \in 1..count |-> copies[i]]
    BY <2>1
  <2> HIDE DEF copies, count
  <2>4. IsList(copies) /\ Len(copies) = count
    BY <1>2, <2>3, CountedIsList
  <2>5. \A n \in Range(copies) : n \in Nat /\ base < n /\ n <= base + count
    BY <1>2, <2>1, <2>2 DEF Range
  <2>6. Range(copies) \subseteq Nat
    BY <2>5
  <2>7. copies \in Seq(Nat)
    BY <2>4, <2>6, SeqMonotonic DEF IsList
  <2> QED
    BY <2>1, <2>4, <2>5, <2>7
<1>4. /\ parameters \in Seq(Nat) /\ Len(parameters) \in Nat /\ Len(parameters) <= 1
      /\ \A i \in 1..Len(parameters) : parameters[i] = base + count + 1
      /\ \A n \in Range(parameters) : n = base + count + 1
  <2> DEFINE x == base + count + 1
  <2>0. x \in Nat
    BY <1>2
  <2> HIDE DEF x
  <2>a. <<x>> \in Seq(Nat) /\ Len(<<x>>) = 1 /\ <<x>>[1] = x /\ Range(<<x>>) = {x}
    BY <2>0, Single
  <2>1. /\ <<base + count + 1>> \in Seq(Nat) /\ Len(<<base + count + 1>>) = 1
        /\ <<base + count + 1>>[1] = base + count + 1
        /\ Range(<<base + count + 1>>) = {base + count + 1}
    BY <2>a DEF x
  <2>2. <<>> \in Seq(Nat) /\ Range(<<>>) = {} /\ Len(<<>>) = 0
    BY DEF Range
  <2> HIDE DEF count
  <2> QED
    BY <2>1, <2>2
<1> HIDE DEF parameters
<1>5. environment = IF count = 1 THEN base + 1 ELSE base + count + 2
  OBVIOUS
<1>6. pointer = base + count + 3
  OBVIOUS
<1> HIDE DEF copies
<1>7. /\ copied \in Seq(Nat) /\ Len(copied) = count + Len(parameters)
      /\ \A i \in 1..count : copied[i] = base + i
      /\ \A i \in 1..Len(parameters) : copied[count + i] = base + count + 1
      /\ Range(copied) = Range(copies) \cup Range(parameters)
  BY <1>3, <1>4, Joined
<1>8. \A i \in 1..Len(copied) : copied[i] = base + i
  <2> TAKE i \in 1..Len(copied)
  <2> HIDE DEF copied, count
  <2>1. CASE i \in 1..count
    BY <1>7, <2>1
  <2>2. CASE i \notin 1..count
    <3>1. 1 \in 1..Len(parameters) /\ i = count + 1
      BY <1>2, <1>4, <1>7, <2>2
    <3>2. copied[count + 1] = base + count + 1
      BY <1>7, <3>1
    <3> QED
      BY <1>2, <3>1, <3>2
  <2> QED
    BY <2>1, <2>2
<1>9. /\ projected \in Seq(Outside(r)) /\ Range(projected) = r.environment \cup Range(Ascending(r.context))
      /\ Len(projected) >= count /\ Len(projected) \in Nat
      /\ \A i \in 1..count : projected[i] = captures[i]
      /\ Range(projected) \subseteq Outside(r)
  <2> DEFINE O == Outside(r)
  <2>1. captures \in Seq(O) /\ Ascending(r.context) \in Seq(O)
    BY <1>2, SeqMonotonic DEF Outside
  <2> HIDE DEF O
  <2>2. /\ projected \in Seq(O) /\ Len(projected) = count + Len(Ascending(r.context))
        /\ Len(Ascending(r.context)) \in Nat
        /\ \A i \in 1..count : projected[i] = captures[i]
        /\ Range(projected) = Range(captures) \cup Range(Ascending(r.context))
    BY <2>1, Joined
  <2> HIDE DEF projected, count
  <2>3. Range(projected) \subseteq O
    BY <2>2, ListRange
  <2> QED
    BY <1>2, <2>2, <2>3 DEF O
<1> HIDE DEF copied, projected
<1>10. /\ context.k = "context" /\ context.src = projected /\ context.tgt = copied
       /\ closure.k = "closure" /\ closure.src = parameters /\ closure.tgt = <<pointer>>
  BY DEF Edge
<1>11. /\ Len(pack) \in Nat /\ Len(pack) <= 1 /\ (Len(pack) = 0 <=> count = 1)
       /\ Len(pack) = 1 => /\ pack[1].k = "op" /\ pack[1].src = copies
                           /\ pack[1].tgt = <<environment>>
       /\ IsList(pack)
  <2> DEFINE w == Edge("op", "pack", copies, <<environment>>)
  <2>1. w.k = "op" /\ w.src = copies /\ w.tgt = <<environment>>
    BY DEF Edge
  <2>2. pack = IF count = 1 THEN <<>> ELSE <<w>>
    OBVIOUS
  <2> HIDE DEF w
  <2>3. Len(<<w>>) = 1 /\ <<w>>[1] = w /\ <<w>> \in Seq({w}) /\ <<>> \in Seq({w}) /\ Len(<<>>) = 0
    BY Single
  <2> HIDE DEF pack, count
  <2>4. pack \in Seq({w})
    BY <2>2, <2>3
  <2>5. IsList(pack)
    BY <2>4, ListOf
  <2>6. CASE count = 1
    BY <2>2, <2>3, <2>5, <2>6
  <2>7. CASE count # 1
    <3>1. pack = <<w>> /\ pack[1] = w /\ Len(pack) = 1
      BY <2>2, <2>3, <2>7
    <3> QED
      BY <2>1, <2>5, <2>7, <3>1
  <2> QED
    BY <2>6, <2>7
<1> HIDE DEF context, closure, pack
<1>12. /\ EdgesOf(v) = 1..(Len(pack) + 2) /\ v.edges[1] = context
       /\ v.edges[Len(pack) + 2] = closure /\ (Len(pack) = 1 => v.edges[2] = pack[1])
  <2> DEFINE W == {context, closure} \cup Range(pack)
  <2>1. context \in W /\ closure \in W
    OBVIOUS
  <2>2. pack \in Seq(W)
    <3>1. Range(pack) \subseteq W
      OBVIOUS
    <3> HIDE DEF W
    <3> QED
      BY <1>11, <3>1, SeqMonotonic DEF IsList
  <2> HIDE DEF W
  <2>3. /\ edges \in Seq(W) /\ Len(edges) = Len(pack) + 2 /\ edges[1] = context
        /\ edges[Len(pack) + 2] = closure /\ (Len(pack) = 1 => edges[2] = pack[1])
    BY <1>11, <2>1, <2>2, Row
  <2> HIDE DEF edges
  <2>4. DOMAIN edges = 1..(Len(pack) + 2)
    BY <2>3
  <2> QED
    BY <1>1, <2>3, <2>4 DEF EdgesOf
<1> HIDE DEF edges
<1>13. ASSUME NEW j \in EdgesOf(v)
       PROVE  \/ j = 1 /\ v.edges[j] = context
              \/ j = 2 /\ Len(pack) = 1 /\ v.edges[j] = pack[1]
              \/ j = Len(pack) + 2 /\ v.edges[j] = closure
  <2> DEFINE l == Len(pack)
  <2>1. l \in Nat /\ l <= 1 /\ j \in 1..(l + 2)
    BY <1>11, <1>12
  <2> HIDE DEF l
  <2>2. j = 1 \/ (j = 2 /\ l = 1) \/ j = l + 2
    BY <2>1
  <2> QED
    BY <1>12, <2>2 DEF l
<1>14. Range(<<environment>>) = {environment} /\ Range(<<pointer>>) = {pointer}
       /\ Range(<<environment, pointer>>) = {environment, pointer}
  BY DEF Range
<1>b. environment \in Nat /\ pointer \in Nat
  BY <1>2
<1>c. 1 \in EdgesOf(v) /\ Len(pack) + 2 \in EdgesOf(v)
  BY <1>11, <1>12
<1> HIDE DEF environment, pointer, count
<1>15. ASSUME NEW j \in EdgesOf(v)
       PROVE  \/ j = 1 /\ v.edges[j].k = "context" /\ Targets(v, j) = Range(copied)
              \/ /\ j = 2 /\ Len(pack) = 1 /\ v.edges[j].k = "op"
                 /\ Targets(v, j) = {environment} /\ Sources(v, j) = Range(copies)
              \/ /\ j = Len(pack) + 2 /\ v.edges[j].k = "closure"
                 /\ Targets(v, j) = {pointer} /\ Sources(v, j) = Range(parameters)
  BY <1>10, <1>11, <1>13, <1>14 DEF Targets, Sources
<1>16. /\ \A n \in Range(copied) : n \in Nat /\ base < n /\ n <= base + count + 1
       /\ Len(pack) = 1 => environment = base + count + 2
       /\ Len(pack) # 1 => environment \in Range(copied)
  <2>1. \A n \in Range(copied) : n \in Nat /\ base < n /\ n <= base + count + 1
    BY <1>2, <1>3, <1>4, <1>7
  <2>2. Len(pack) = 1 => environment = base + count + 2
    BY <1>5, <1>11
  <2>3. ASSUME Len(pack) # 1 PROVE environment \in Range(copied)
    <3>1. count = 1 /\ environment = base + 1
      <4> DEFINE l == Len(pack)
      <4>1. l \in Nat /\ l <= 1 /\ l # 1 /\ (l = 0 <=> count = 1)
        BY <1>11, <2>3
      <4> HIDE DEF l
      <4>2. count = 1
        BY <4>1
      <4> QED
        BY <1>5, <4>2
    <3>2. copies[1] = base + 1 /\ 1 \in DOMAIN copies
      BY <1>3, <3>1
    <3>3. base + 1 \in Range(copies)
      BY <3>2 DEF Range
    <3> QED
      BY <1>7, <3>1, <3>3
  <2> QED
    BY <2>1, <2>2, <2>3
<1>17. \A i, j \in EdgesOf(v) : i # j => Targets(v, i) \cap Targets(v, j) = {}
  <2>1. pointer \notin Range(copied) /\ (Len(pack) = 1 => environment \notin Range(copied) /\ environment # pointer)
    BY <1>2, <1>6, <1>16
  <2> QED
    BY <1>15, <2>1
<1>18. Targets(v, 1) = Range(copied) /\ Targets(v, Len(pack) + 2) = {pointer}
       /\ (Len(pack) = 1 => Targets(v, 2) = {environment})
  BY <1>10, <1>11, <1>12, <1>14 DEF Targets
<1>19. /\ Range(copied) \subseteq Produced(v, EdgesOf(v))
       /\ Range(v.targets) \subseteq Produced(v, EdgesOf(v))
  <2>1. Range(copied) \subseteq Produced(v, EdgesOf(v)) /\ pointer \in Produced(v, EdgesOf(v))
    BY <1>c, <1>18 DEF Produced
  <2>2. environment \in Produced(v, EdgesOf(v))
    <3>1. CASE Len(pack) = 1
      <4>1. 2 \in EdgesOf(v) /\ Targets(v, 2) = {environment}
        BY <1>12, <1>18, <3>1
      <4> QED
        BY <4>1 DEF Produced
    <3> QED
      BY <1>16, <2>1, <3>1
  <2> QED
    BY <1>1, <1>14, <2>1, <2>2
<1>20. \A n \in DOMAIN v.labels : v.labels[n] = label(n)
  BY <1>1
<1>21. Range(copied) \subseteq DOMAIN v.labels
  BY <1>1, <1>7
<1>22. \A n \in Range(parameters) : n \notin Range(copies)
  BY <1>2, <1>3, <1>4
<1>23. \A n \in Range(parameters) : v.labels[n] = "static"
  BY <1>7, <1>20, <1>21, <1>22
<1>24. \A i \in 1..count : v.labels[base + i] = t.labels[captures[i]]
  <2> TAKE i \in 1..count
  <2>1. base + i \in Range(copies)
    BY <1>3 DEF Range
  <2>2. (base + i) - base = i
    BY <1>2
  <2>3. v.labels[base + i] = t.labels[captures[(base + i) - base]]
    BY <1>7, <1>20, <1>21, <2>1
  <2> QED
    BY <2>2, <2>3
<1>25. ASSUME NEW n \in DOMAIN v.labels, v.labels[n] = "closure"
       PROVE  \E c \in r.environment : t.labels[c] = "closure"
  <2>1. CASE n \in Range(copies)
    <3>1. n - base \in 1..count
      BY <1>2, <1>3, <2>1
    <3>2. t.labels[captures[n - base]] = "closure"
      BY <1>20, <1>25, <2>1
    <3> QED
      BY <1>a, <3>1, <3>2
  <2>2. CASE n \notin Range(copies)
    BY <1>20, <1>25, <2>2
  <2> QED
    BY <2>1, <2>2
<1> HIDE DEF label, labels
<1>26. Projects(t, r, v, 1)
  <2>1. v.edges[1].src = projected /\ v.edges[1].tgt = copied
    BY <1>10, <1>12
  <2>2. \A n \in Range(projected) : \A m \in Range(copied) : n < m
    <3>1. \A n \in Range(projected) : n \in Nat /\ n <= base
      BY <1>2, <1>9 DEF Outside, IsGraph
    <3> QED
      BY <1>16, <3>1
  <2>3. DOMAIN copied = 1..Len(copied) /\ DOMAIN projected = 1..Len(projected) /\ Len(copied) \in Nat
    BY <1>7, <1>9
  <2>4. \A i, l \in DOMAIN copied : copied[i] = copied[l] => i = l
    BY <1>8, <2>3
  <2>5. ASSUME NEW i \in DOMAIN copied
        PROVE  \/ v.labels[copied[i]] = "static"
               \/ \A l \in 1..i : l \in DOMAIN projected /\ t.labels[projected[l]] = v.labels[copied[l]]
    <3>1. CASE i \in 1..count
      <4>1. ASSUME NEW l \in 1..i PROVE l \in DOMAIN projected /\ t.labels[projected[l]] = v.labels[copied[l]]
        <5>1. l \in 1..count /\ l \in 1..Len(copied) /\ l \in 1..Len(projected)
          <6>1. /\ count \in Nat /\ Len(parameters) \in Nat /\ Len(projected) \in Nat
                /\ Len(copied) = count + Len(parameters) /\ Len(projected) >= count
            BY <1>2, <1>4, <1>7, <1>9
          <6> HIDE DEF count
          <6> QED
            BY <3>1, <6>1
        <5> QED
          BY <1>8, <1>9, <1>24, <2>3, <5>1
      <4> QED
        BY <4>1
    <3>2. CASE i \notin 1..count
      <4>1. 1 \in 1..Len(parameters) /\ i = count + 1
        BY <1>2, <1>4, <1>7, <2>3, <3>2
      <4>2. copied[i] = base + count + 1 /\ parameters[1] = base + count + 1
        BY <1>4, <1>7, <4>1
      <4>3. 1 \in DOMAIN parameters
        BY <1>4, <4>1
      <4>4. copied[i] \in Range(parameters)
        BY <4>2, <4>3 DEF Range
      <4> QED
        BY <1>23, <4>4
    <3> QED
      BY <3>1, <3>2
  <2> QED
    BY <1>9, <2>1, <2>2, <2>4, <2>5 DEF Projects
<1>27. ASSUME NEW j \in EdgesOf(v)
       PROVE  /\ v.edges[j].k = "context" => Projects(t, r, v, j)
              /\ v.edges[j].k # "context" => Sources(v, j) \subseteq Produced(v, EdgesOf(v))
              /\ v.edges[j].k = "closure" => \A n \in Sources(v, j) : v.labels[n] = "static"
  BY <1>7, <1>15, <1>19, <1>23, <1>26
<1>28. HasItsWires(t, r, v)
  BY <1>17, <1>19, <1>25, <1>27 DEF HasItsWires
<1> QED
  BY <1>28 DEF v

\* The edges that are new, in g and in the value.
LEMMA NewEdges ==
  ASSUME NEW g, NEW t, NEW r, NEW v, IsValue(t, r, v), NEW place, NEW k,
         KeepsWires(g, t, r, v, place, k), NEW i \in EdgesOf(g), i \notin 1..k
  PROVE  \E j \in EdgesOf(v) :
           /\ i = k + j /\ g.edges[i] = v.edges[j]
           /\ Sources(g, i) = Sources(v, j) /\ Targets(g, i) = Targets(v, j)
           /\ g.edges[i].k \in {"context", "op", "closure"}
           /\ Targets(g, i) \subseteq DOMAIN v.labels
<1>1. i - k \in 1..Len(v.edges) /\ k + (i - k) = i
  BY DEF KeepsWires
<1>2. EdgesOf(v) = 1..Len(v.edges)
  BY DEF IsValue, EdgesOf
<1> DEFINE j == i - k
<1>3. j \in 1..Len(v.edges) /\ k + j = i
  BY <1>1
<1> HIDE DEF j
<1>4. g.edges[i] = v.edges[j]
  BY <1>3 DEF KeepsWires
<1>5. v.edges[j].k \in {"context", "op", "closure"} /\ Range(v.edges[j].tgt) \subseteq DOMAIN v.labels
  BY <1>3 DEF IsValue
<1> QED
  BY <1>2, <1>3, <1>4, <1>5 DEF Sources, Targets

\* What a value makes is new.
LEMMA ValueMakesNew ==
  ASSUME NEW t, NEW r, NEW v, IsValue(t, r, v), HasItsWires(t, r, v)
  PROVE  /\ Produced(v, EdgesOf(v)) \subseteq DOMAIN v.labels /\ Range(v.targets) \subseteq DOMAIN v.labels
         /\ DOMAIN v.labels \cap DOMAIN t.labels = {}
<1>1. EdgesOf(v) = 1..Len(v.edges)
  BY DEF IsValue, EdgesOf
<1>2. Produced(v, EdgesOf(v)) \subseteq DOMAIN v.labels
  BY <1>1 DEF Produced, Targets, IsValue
<1> QED
  BY <1>2 DEF HasItsWires, IsValue

\* The markers, evals and names of g are those of t that stay, and new names.
KeepsKinds(g, t, r, place, k) ==
  /\ \A i \in Markers(g) : i \in 1..k /\ place[i] \in Markers(t)
  /\ \A i \in OfKind(g, "eval") : i \in 1..k /\ place[i] \in OfKind(t, "eval")
  /\ \A i \in 1..k : i \in Names(g) => place[i] \in Names(t)
  /\ \A i \in 1..k : /\ place[i] \in Kept(t, r) /\ place[i] \in EdgesOf(t)
                    /\ i \in EdgesOf(g) /\ Targets(g, i) = Targets(t, place[i])
  /\ \A e \in Kept(t, r) : \E i \in 1..k : place[i] = e

LEMMA KeptKinds ==
  ASSUME NEW g, NEW t, NEW r, NEW v, IsValue(t, r, v), NEW place, NEW k,
         KeepsWires(g, t, r, v, place, k)
  PROVE  KeepsKinds(g, t, r, place, k)
<1>1. \A i \in EdgesOf(g) : g.edges[i].k \in {"marker", "eval"} => i \in 1..k
  <2> SUFFICES ASSUME NEW i \in EdgesOf(g), i \notin 1..k PROVE g.edges[i].k \notin {"marker", "eval"}
    OBVIOUS
  <2>1. g.edges[i].k \in {"context", "op", "closure"}
    BY NewEdges
  <2> QED
    BY <2>1
<1>2. \A i \in 1..k : /\ place[i] \in Kept(t, r) /\ place[i] \in EdgesOf(t)
                      /\ g.edges[i].k = t.edges[place[i]].k
                      /\ i \in EdgesOf(g) /\ Targets(g, i) = Targets(t, place[i])
  BY DEF KeepsWires, Targets
<1>3. \A e \in Kept(t, r) : \E i \in 1..k : place[i] = e
  BY DEF KeepsWires
<1> QED
  BY <1>1, <1>2, <1>3 DEF KeepsKinds, Markers, Names, OfKind

\* A closure that stays has its marker, and is still no argument.
LEMMA SplicedClosures ==
  ASSUME NEW t, IsGraph(t), ~InvalidMarker(t), MarkersMakeAlone(t), ClosuresAreMarked(t),
         NEW r, IsRegion(t, r), HasItsEnds(t, r), \A n \in r.nodes : t.labels[n] # "closure",
         NEW v, IsValue(t, r, v), HasItsWires(t, r, v), ~HasDeletedBoundary(t, r),
         NEW g, g = Spliced(t, r, v), NEW n \in DOMAIN g.labels, g.labels[n] = "closure"
  PROVE  n \in Produced(g, Markers(g)) \ (Domains(g) \cup Consumed(g, Names(g)))
<1> DEFINE place == Ascending(Kept(t, r))
           k == Cardinality(Kept(t, r))
<1>1. KeepsWires(g, t, r, v, place, k) /\ KeepsNodes(g, t, r, v)
  BY SplicedWires, SplicedNodes
<1> HIDE DEF place, k
<1>b. KeepsKinds(g, t, r, place, k)
  BY <1>1, KeptKinds
<1>2. n \notin DOMAIN v.labels
  <2> SUFFICES ASSUME n \in DOMAIN v.labels PROVE FALSE
    OBVIOUS
  <2>1. v.labels[n] = "closure"
    BY <1>1 DEF KeepsNodes
  <2>2. PICK c \in r.environment : t.labels[c] = "closure"
    BY <2>1 DEF HasItsWires
  <2> QED
    BY <2>2 DEF IsRegion
<1>3. n \in DOMAIN t.labels \ Deleted(r) /\ t.labels[n] = "closure"
  BY <1>1, <1>2 DEF KeepsNodes
<1>4. n \in Produced(t, Markers(t)) /\ n \notin Domains(t) /\ n \notin Consumed(t, Names(t))
  BY <1>3 DEF ClosuresAreMarked
<1>a. /\ Produced(v, EdgesOf(v)) \subseteq DOMAIN v.labels /\ Range(v.targets) \subseteq DOMAIN v.labels
  BY ValueMakesNew
<1>5. n \in Produced(g, Markers(g))
  <2>1. PICK m \in Markers(t) : n \in Targets(t, m)
    BY <1>4 DEF Produced
  <2>2. m # r.marker
    BY <1>3, <2>1 DEF HasItsEnds, Deleted
  <2>3. m \in Kept(t, r) /\ t.edges[m].k = "marker"
    BY <2>2 DEF Kept, IsRegion, Ordinary, Markers, OfKind
  <2>4. PICK i \in 1..k : place[i] = m
    BY <1>b, <2>3 DEF KeepsKinds
  <2>5. i \in EdgesOf(g) /\ g.edges[i].k = "marker" /\ Targets(g, i) = Targets(t, m)
    BY <1>1, <1>b, <2>3, <2>4 DEF KeepsWires, KeepsKinds
  <2> QED
    BY <2>1, <2>5 DEF Produced, Markers, OfKind
<1>6. n \notin Domains(g)
  <2> SUFFICES ASSUME NEW m \in Markers(g), n = g.edges[m].src[1] PROVE FALSE
    BY DEF Domains
  <2>1. m \in 1..k /\ place[m] \in Markers(t)
    BY <1>b DEF KeepsKinds
  <2>2. Len(t.edges[place[m]].src) = 2
    BY <2>1 DEF InvalidMarker
  <2>3. n \in Range(v.targets) \/ n = t.edges[place[m]].src[1]
    BY <1>1, <2>1, <2>2 DEF KeepsWires
  <2> QED
    BY <1>a, <1>2, <1>4, <2>1, <2>3 DEF Domains
<1>7. n \notin Consumed(g, Names(g))
  <2> SUFFICES ASSUME NEW m \in Names(g), n \in Sources(g, m) PROVE FALSE
    BY DEF Consumed
  <2>1. CASE m \in 1..k
    <3>1. place[m] \in Names(t)
      BY <1>b, <2>1 DEF KeepsKinds
    <3>2. n \in Sources(t, place[m])
      BY <1>1, <1>2, <1>a, <2>1 DEF KeepsWires
    <3> QED
      BY <1>4, <3>1, <3>2 DEF Consumed
  <2>2. CASE m \notin 1..k
    <3>1. m \in EdgesOf(g) /\ g.edges[m].k \in {"name", "closure"}
      BY DEF Names, OfKind
    <3>2. PICK j \in EdgesOf(v) : g.edges[m] = v.edges[j] /\ Sources(g, m) = Sources(v, j)
      BY <1>1, <2>2, <3>1, NewEdges
    <3>3. Sources(v, j) \subseteq Produced(v, EdgesOf(v))
      BY <3>1, <3>2 DEF HasItsWires
    <3> QED
      BY <1>a, <1>2, <3>2, <3>3
  <2> QED
    BY <2>1, <2>2
<1> QED
  BY <1>5, <1>6, <1>7

-----------------------------------------------------------------------------
\* The wires of a generated function.

\* The body b of the region r has the edges from of t, evals as calls.
IsBody(b, t, r, from) ==
  /\ \A i \in EdgesOf(b) :
       /\ from[i] \in Copied(t, r) \cup Evals(t, r)
       /\ Targets(b, i) = Targets(t, from[i])
       /\ from[i] \in Copied(t, r) => b.edges[i] = t.edges[from[i]]
       /\ from[i] \in Evals(t, r) =>
            b.edges[i].k = "call" /\ Sources(b, i) = {t.edges[from[i]].src[1]}
  /\ \A i, j \in EdgesOf(b) : from[i] = from[j] => i = j
  /\ \A e \in Copied(t, r) \cup Evals(t, r) : \E i \in EdgesOf(b) : from[i] = e
  /\ Range(b.sources) = r.environment \cup {r.domain} /\ Range(b.targets) = {r.codomain}
  /\ DOMAIN b.labels \subseteq r.nodes /\ \A n \in DOMAIN b.labels : b.labels[n] = t.labels[n]

IsInARow(s, S, U, c, m) ==
  /\ s \in Seq(Nat) /\ DOMAIN s = 1..(c + m) /\ c \in Nat /\ m \in Nat
  /\ \A i \in 1..c : s[i] = Ascending(S)[i] /\ s[i] \in S
  /\ \A i \in 1..m : s[c + i] = Ascending(U)[i] /\ s[c + i] \in U
  /\ \A i, j \in 1..(c + m) : s[i] = s[j] => i = j
  /\ \A e \in S \cup U : \E i \in 1..(c + m) : s[i] = e

\* Two lists in a row, each of which tells the elements of its set apart.
LEMMA InARow ==
  ASSUME NEW S, S \subseteq Nat, IsFiniteSet(S), NEW U, U \subseteq Nat, IsFiniteSet(U),
         S \cap U = {}
  PROVE  IsInARow(Ascending(S) \o Ascending(U), S, U, Cardinality(S), Cardinality(U))
<1> DEFINE p == Ascending(S)
           q == Ascending(U)
           s == p \o q
           c == Cardinality(S)
           m == Cardinality(U)
<1>1. /\ p \in Seq(S) /\ Len(p) = c /\ c \in Nat
      /\ \A i \in 1..c : p[i] \in S
      /\ \A i, j \in 1..c : p[i] = p[j] => i = j
      /\ \A e \in S : \E i \in 1..c : p[i] = e
  BY AscendingList, AscendingPlaces
<1>2. /\ q \in Seq(U) /\ Len(q) = m /\ m \in Nat
      /\ \A i \in 1..m : q[i] \in U
      /\ \A i, j \in 1..m : q[i] = q[j] => i = j
      /\ \A e \in U : \E i \in 1..m : q[i] = e
  BY AscendingList, AscendingPlaces
<1>3. p \in Seq(Nat) /\ q \in Seq(Nat)
  BY <1>1, <1>2, SeqMonotonic
<1> HIDE DEF p, q, c, m
<1>4. IsJoined(s, Nat, p, q)
  BY <1>3, JoinedTwo
<1> HIDE DEF s
<1>9. /\ s \in Seq(Nat) /\ Len(s) = c + m
      /\ \A i \in 1..c : s[i] = p[i]
      /\ \A i \in 1..m : s[c + i] = q[i]
  BY <1>1, <1>2, <1>4 DEF IsJoined
<1>5. DOMAIN s = 1..(c + m)
  BY <1>9
<1>6. ASSUME NEW i \in 1..(c + m)
      PROVE  \/ i \in 1..c /\ s[i] = p[i] /\ s[i] \in S
             \/ i \notin 1..c /\ i - c \in 1..m /\ s[i] = q[i - c] /\ s[i] \in U
  <2>1. CASE i \in 1..c
    BY <1>1, <1>9, <2>1
  <2>2. CASE i \notin 1..c
    <3>1. i - c \in 1..m /\ c + (i - c) = i
      BY <1>1, <1>2, <2>2
    <3> QED
      BY <1>2, <1>9, <2>2, <3>1
  <2> QED
    BY <2>1, <2>2
<1>7. ASSUME NEW i \in 1..(c + m), NEW j \in 1..(c + m), s[i] = s[j]
      PROVE  i = j
  <2>0. s[i] = s[j]
    BY <1>7
  <2>1. CASE i \in 1..c /\ j \in 1..c
    BY <1>1, <1>6, <2>0, <2>1
  <2>2. CASE i \notin 1..c /\ j \notin 1..c
    <3> DEFINE a == i - c
               b == j - c
    <3>1. s[i] = q[a] /\ s[j] = q[b] /\ a \in 1..m /\ b \in 1..m
      BY <1>6, <2>2
    <3>2. a = b
      <4> HIDE DEF a, b
      <4> QED
        BY <1>2, <2>0, <3>1
    <3> QED
      BY <1>1, <1>2, <3>2
  <2>3. CASE (i \in 1..c) # (j \in 1..c)
    <3>1. (s[i] \in S /\ s[j] \in U) \/ (s[i] \in U /\ s[j] \in S)
      BY <1>6, <2>3
    <3> QED
      BY <2>0, <3>1
  <2> QED
    BY <2>1, <2>2, <2>3
<1>8. ASSUME NEW e \in S \cup U PROVE \E i \in 1..(c + m) : s[i] = e
  <2>1. CASE e \in S
    <3>1. PICK i \in 1..c : p[i] = e
      BY <1>1, <2>1
    <3>2. i \in 1..(c + m)
      BY <1>1, <1>2
    <3> QED
      BY <1>9, <3>1, <3>2
  <2>2. CASE e \in U
    <3>1. PICK i \in 1..m : q[i] = e
      BY <1>2, <2>2
    <3>2. c + i \in 1..(c + m)
      BY <1>1, <1>2
    <3> QED
      BY <1>9, <3>1, <3>2
  <2> QED
    BY <2>1, <2>2
<1> QED
  <2>1. ASSUME NEW i \in 1..c PROVE s[i] = p[i] /\ s[i] \in S
    BY <1>1, <1>9
  <2>2. ASSUME NEW i \in 1..m PROVE s[c + i] = q[i] /\ s[c + i] \in U
    BY <1>2, <1>9
  <2>3. IsInARow(s, S, U, c, m)
    BY <1>1, <1>2, <1>9, <1>5, <1>7, <1>8, <2>1, <2>2 DEF IsInARow, p, q
  <2> QED
    BY <2>3 DEF s, p, q, c, m

LEMMA BodyWires ==
  ASSUME NEW t, IsGraph(t), NEW r, IsRegion(t, r)
  PROVE  \E from : IsBody(BuildBody(t, r), t, r, from)
<1> DEFINE S == Copied(t, r)
           U == Evals(t, r)
           name(e) == Min(NameOf(t, r, e))
           call(e) == Edge("call", t.edges[name(e)].n, <<t.edges[e].src[1]>>, t.edges[e].tgt)
           copied == Ascending(S)
           calls == Ascending(U)
           first == [i \in DOMAIN copied |-> t.edges[copied[i]]]
           second == [i \in DOMAIN calls |-> call(calls[i])]
           edges == first \o second
           boundary == Append(Ascending(r.environment), r.domain)
           required == Range(boundary) \cup {r.codomain} \cup Needed(edges)
           b == BuildBody(t, r)
           from == copied \o calls
           c == Cardinality(S)
           m == Cardinality(U)
<1>1. /\ b.edges = edges /\ b.labels = [n \in required |-> t.labels[n]]
      /\ b.sources = boundary /\ b.targets = <<r.codomain>>
  BY DEF BuildBody, Needed
<1> HIDE DEF b
<1>2. r.edges \subseteq EdgesOf(t) /\ S \subseteq r.edges /\ U \subseteq r.edges /\ S \cap U = {}
  BY DEF IsRegion, Ordinary, Copied, Evals
<1>3. S \subseteq Nat /\ IsFiniteSet(S) /\ U \subseteq Nat /\ IsFiniteSet(U)
  <2>1. S \subseteq EdgesOf(t) /\ U \subseteq EdgesOf(t)
    BY <1>2
  <2> QED
    BY <2>1, EdgesFinite
<1>4. /\ IsList(copied) /\ Len(copied) = c /\ DOMAIN copied = 1..c
      /\ IsList(calls) /\ Len(calls) = m /\ DOMAIN calls = 1..m
  <2>1. /\ copied \in Seq(S) /\ Len(copied) = c /\ DOMAIN copied = 1..c
        /\ calls \in Seq(U) /\ Len(calls) = m /\ DOMAIN calls = 1..m
    BY <1>3, AscendingList
  <2> QED
    BY <2>1, ListOf
<1>5. /\ DOMAIN from = 1..(c + m) /\ c \in Nat /\ m \in Nat
      /\ \A i \in 1..c : from[i] = copied[i] /\ from[i] \in S
      /\ \A i \in 1..m : from[c + i] = calls[i] /\ from[c + i] \in U
      /\ \A i, j \in 1..(c + m) : from[i] = from[j] => i = j
      /\ \A e \in S \cup U : \E i \in 1..(c + m) : from[i] = e
  <2>1. IsInARow(from, S, U, c, m)
    <3> HIDE DEF S, U
    <3> QED
      BY <1>2, <1>3, InARow
  <2> QED
    BY <2>1 DEF IsInARow
<1> HIDE DEF S, U, copied, calls, from, c, m
<1>6. /\ IsList(first) /\ Len(first) = c /\ \A i \in 1..c : first[i] = t.edges[copied[i]]
      /\ IsList(second) /\ Len(second) = m /\ \A i \in 1..m : second[i] = call(calls[i])
  <2>1. \A i \in 1..c : first[i] = t.edges[copied[i]]
    BY <1>4
  <2>2. \A i \in 1..m : second[i] = call(calls[i])
    BY <1>4
  <2>3. first = [i \in DOMAIN copied |-> first[i]] /\ second = [i \in DOMAIN calls |-> second[i]]
    OBVIOUS
  <2> HIDE DEF first, second
  <2> QED
    BY <1>4, <2>1, <2>2, <2>3, MappedIsList
<1> HIDE DEF first, second
<1>7. /\ DOMAIN edges = 1..(c + m)
      /\ \A i \in 1..c : edges[i] = first[i]
      /\ \A i \in 1..m : edges[c + i] = second[i]
  <2> DEFINE X == Range(first) \cup Range(second)
  <2>0. Range(first) \subseteq X /\ Range(second) \subseteq X
    OBVIOUS
  <2> HIDE DEF X
  <2>1. first \in Seq(X) /\ second \in Seq(X)
    BY <1>6, <2>0, SeqMonotonic DEF IsList
  <2>2. /\ edges \in Seq(X) /\ Len(edges) = Len(first) + Len(second)
        /\ \A i \in 1..Len(first) : edges[i] = first[i]
        /\ \A i \in 1..Len(second) : edges[Len(first) + i] = second[i]
    BY <2>1, Joined
  <2> HIDE DEF edges
  <2> QED
    BY <1>6, <2>2
<1> HIDE DEF edges
<1>8. ASSUME NEW e \in U
      PROVE  /\ call(e).k = "call" /\ call(e).tgt = t.edges[e].tgt
             /\ Range(call(e).src) = {t.edges[e].src[1]} /\ t.edges[e].src[1] \in Sources(t, e)
  <2>1. e \in EdgesOf(t) /\ t.edges[e].k = "eval"
    BY <1>2 DEF U, Evals, OfKind
  <2>2. t.edges[e].src \in Seq(DOMAIN t.labels) /\ Len(t.edges[e].src) >= 2
    BY <2>1, GraphParts DEF IsGraph, EdgesOf
  <2>3. t.edges[e].src[1] \in Sources(t, e)
    <3> DEFINE src == t.edges[e].src
    <3> HIDE DEF src
    <3>1. src \in Seq(DOMAIN t.labels) /\ Len(src) >= 2
      BY <2>2 DEF src
    <3>2. src[1] \in Range(src)
      BY <3>1 DEF Range
    <3> QED
      BY <3>2 DEF src, Sources
  <2>4. Range(<<t.edges[e].src[1]>>) = {t.edges[e].src[1]}
    BY DEF Range
  <2> QED
    BY <2>3, <2>4 DEF Edge
<1> HIDE DEF call
<1>9. EdgesOf(b) = 1..(c + m)
  BY <1>1, <1>7 DEF EdgesOf
<1>10. ASSUME NEW i \in EdgesOf(b)
       PROVE  /\ from[i] \in S \cup U
              /\ Targets(b, i) = Targets(t, from[i])
              /\ from[i] \in S => b.edges[i] = t.edges[from[i]]
              /\ from[i] \in U => b.edges[i].k = "call" /\ Sources(b, i) = {t.edges[from[i]].src[1]}
              /\ Incident(b, i) \subseteq r.nodes
  <2>0. ASSUME NEW e \in r.edges PROVE Sources(t, e) \subseteq r.nodes /\ Targets(t, e) \subseteq r.nodes
    BY DEF IsRegion, Produced, Consumed
  <2>1. CASE i \in 1..c
    <3>1. b.edges[i] = t.edges[from[i]] /\ from[i] \in S
      <4>1. b.edges[i] = edges[i] /\ edges[i] = first[i] /\ first[i] = t.edges[copied[i]]
        BY <1>1, <1>6, <1>7, <2>1, Zenon
      <4>2. from[i] = copied[i] /\ from[i] \in S
        BY <1>5, <2>1, Zenon
      <4> QED
        BY <4>1, <4>2
    <3>2. from[i] \notin U /\ from[i] \in r.edges
      BY <1>2, <3>1
    <3> QED
      BY <2>0, <3>1, <3>2 DEF Targets, Sources, Incident
  <2>2. CASE i \notin 1..c
    <3>1. i - c \in 1..m /\ c + (i - c) = i
      BY <1>5, <1>9, <2>2
    <3>2. b.edges[i] = call(from[i]) /\ from[i] \in U
      <4> DEFINE l == i - c
      <4>1. l \in 1..m /\ c + l = i
        BY <3>1
      <4> HIDE DEF l
      <4>2. b.edges[c + l] = edges[c + l] /\ edges[c + l] = second[l] /\ second[l] = call(calls[l])
        BY <1>1, <1>6, <1>7, <4>1, Zenon
      <4>3. from[c + l] = calls[l] /\ from[c + l] \in U
        BY <1>5, <4>1, Zenon
      <4> QED
        BY <4>1, <4>2, <4>3
    <3>3. from[i] \notin S /\ from[i] \in r.edges
      BY <1>2, <3>2
    <3>4. b.edges[i].k = "call" /\ Sources(b, i) = {t.edges[from[i]].src[1]} /\ Targets(b, i) = Targets(t, from[i])
      BY <1>8, <3>2 DEF Sources, Targets
    <3> QED
      BY <1>8, <2>0, <3>2, <3>3, <3>4 DEF Incident
  <2> QED
    BY <2>1, <2>2
<1>11. Range(b.sources) = r.environment \cup {r.domain} /\ Range(b.targets) = {r.codomain}
  <2> DEFINE env == Ascending(r.environment)
             s == Append(env, r.domain)
  <2>1. r.environment \subseteq DOMAIN t.labels
    BY DEF IsRegion
  <2>2. env \in Seq(r.environment) /\ Range(env) = r.environment
    BY <2>1, NodesFinite, AscendingList
  <2> HIDE DEF env
  <2>3. Len(env) \in Nat /\ DOMAIN env = 1..Len(env)
    BY <2>2
  <2>4. DOMAIN s = 1..(Len(env) + 1) /\ s[Len(env) + 1] = r.domain /\ \A i \in 1..Len(env) : s[i] = env[i]
    BY <2>2, <2>3
  <2>5. Range(s) = r.environment \cup {r.domain}
    <3> HIDE DEF s
    <3>1. \A x \in Range(s) : x \in Range(env) \cup {r.domain}
      BY <2>3, <2>4 DEF Range
    <3>2. \A x \in Range(env) : x \in Range(s)
      BY <2>3, <2>4 DEF Range
    <3>3. r.domain \in Range(s)
      <4>1. Len(env) + 1 \in DOMAIN s
        BY <2>3, <2>4
      <4> QED
        BY <2>4, <4>1 DEF Range
    <3> QED
      BY <2>2, <3>1, <3>2, <3>3
  <2>6. Range(<<r.codomain>>) = {r.codomain}
    BY DEF Range
  <2> QED
    BY <1>1, <2>5, <2>6 DEF env
<1>12. DOMAIN b.labels \subseteq r.nodes /\ \A n \in DOMAIN b.labels : b.labels[n] = t.labels[n]
  <2>1. Needed(edges) \subseteq r.nodes
    <3> SUFFICES ASSUME NEW w \in Range(edges) PROVE Range(w.src) \cup Range(w.tgt) \subseteq r.nodes
      BY DEF Needed
    <3>1. PICK i \in EdgesOf(b) : w = b.edges[i]
      BY <1>1 DEF Range, EdgesOf
    <3> QED
      BY <1>10, <3>1 DEF Incident, Sources, Targets
  <2>2. required \subseteq r.nodes
    <3>1. Range(boundary) = r.environment \cup {r.domain}
      BY <1>1, <1>11
    <3> HIDE DEF boundary
    <3> QED
      BY <2>1, <3>1 DEF IsRegion
  <2> HIDE DEF required
  <2> QED
    BY <1>1, <2>2
<1>13. IsBody(b, t, r, from)
  BY <1>5, <1>9, <1>10, <1>11, <1>12 DEF IsBody, S, U
<1> QED
  BY <1>13 DEF b

-----------------------------------------------------------------------------
\* Closures are made by markers, and generated functions have none.

IsClosureFree(f) ==
  /\ \A n \in DOMAIN f.labels : f.labels[n] # "closure"
  /\ \A i \in EdgesOf(f) : f.edges[i].k = "op" => f.edges[i].n \notin Primitives

\* A term whose closures are marked stays one when its primitives are converted.
LEMMA RewrittenMarked ==
  ASSUME NEW t, IsGraph(t),
         \A n \in DOMAIN t.labels : t.labels[n] = "closure" =>
           n \in Produced(t, Markers(t)) \ (Domains(t) \cup Consumed(t, Names(t)))
  PROVE  ClosuresAreMarked(Rewritten(t))
<1> DEFINE g == Rewritten(t)
<1>1. IsConverted(g, t) /\ \A e \in OfKind(g, "op") : ~IsReady(t, e)
  BY RewrittenParts
<1> HIDE DEF g
<1>2. Markers(g) = Markers(t) /\ Names(g) = Names(t)
  BY <1>1 DEF IsConverted, Markers, Names, OfKind, EdgesOf
<1>3. \A e \in EdgesOf(g) : /\ Sources(g, e) = Sources(t, e) /\ Targets(g, e) = Targets(t, e)
                            /\ g.edges[e].src = t.edges[e].src /\ g.edges[e].n = t.edges[e].n
  BY <1>1 DEF IsConverted, EdgesOf, Sources, Targets
<1>4. \A m \in Markers(g) \cup Names(g) : m \in EdgesOf(g)
  BY DEF Markers, Names, OfKind
<1>5. /\ Produced(g, Markers(g)) = Produced(t, Markers(t)) /\ Domains(g) = Domains(t)
      /\ Consumed(g, Names(g)) = Consumed(t, Names(t))
  BY <1>2, <1>3, <1>4 DEF Produced, Consumed, Domains
<1>6. g.labels = t.labels
  BY <1>1 DEF IsConverted
<1>7. ASSUME NEW e \in OfKind(g, "op"), g.edges[e].n \in Primitives
      PROVE  \E n \in Sources(g, e) : g.labels[n] = "closure"
  <2>1. e \in EdgesOf(g)
    BY DEF OfKind
  <2> QED
    BY <1>1, <1>3, <1>6, <1>7, <2>1 DEF IsReady
<1>8. ClosuresAreMarked(g)
  BY <1>5, <1>6, <1>7 DEF ClosuresAreMarked
<1> QED
  BY <1>8 DEF g

\* The function that is generated has no closure, and no primitive for one.
LEMMA BodyIsFree ==
  ASSUME NEW t, IsGraph(t), ClosuresAreMarked(t), NEW r, IsRegion(t, r),
         \A n \in r.nodes : t.labels[n] # "closure"
  PROVE  IsClosureFree(BuildBody(t, r))
<1> DEFINE b == BuildBody(t, r)
<1>1. PICK from : IsBody(b, t, r, from)
  BY BodyWires
<1> HIDE DEF b
<1>2. \A n \in DOMAIN b.labels : b.labels[n] # "closure"
  BY <1>1 DEF IsBody
<1>3. ASSUME NEW i \in EdgesOf(b), b.edges[i].k = "op", b.edges[i].n \in Primitives
      PROVE  FALSE
  <2>1. from[i] \in Copied(t, r) /\ b.edges[i] = t.edges[from[i]]
    BY <1>1, <1>3 DEF IsBody
  <2>2. from[i] \in r.edges /\ from[i] \in OfKind(t, "op")
    BY <1>3, <2>1 DEF Copied, IsRegion, Ordinary, OfKind
  <2>3. PICK n \in Sources(t, from[i]) : t.labels[n] = "closure"
    BY <1>3, <2>1, <2>2 DEF ClosuresAreMarked
  <2>4. n \in r.nodes
    BY <2>2 DEF IsRegion, Consumed
  <2> QED
    BY <2>3, <2>4
<1> QED
  BY <1>2, <1>3 DEF IsClosureFree, b

\* Nor has it any when it is finished.
LEMMA FinishedIsFree ==
  ASSUME NEW t, IsGraph(t), IsClosureFree(t)
  PROVE  IsClosureFree(Erased(Converted(t)))
<1> DEFINE c == Converted(t)
           g == Erased(c)
           place == Ascending(Lasting(c))
           k == Cardinality(Lasting(c))
<1>1. IsConverted(c, t) /\ IsGraph(c)
  BY ConvertedParts DEF IsConverted
<1> HIDE DEF c
<1>2. HasEdgesAt(g, c, Lasting(c)) /\ \E f : IsErasedBy(g, c, f)
  BY <1>1, ErasedParts
<1>3. PICK f : IsErasedBy(g, c, f)
  BY <1>2
<1> HIDE DEF g
<1>4. \A i \in 1..k : place[i] \in EdgesOf(c)
  <2>1. Lasting(c) \subseteq EdgesOf(c)
    BY DEF Lasting
  <2>2. Lasting(c) \subseteq Nat /\ IsFiniteSet(Lasting(c))
    BY <1>1, <2>1, EdgesFinite
  <2> QED
    BY <2>1, <2>2, AscendingPlaces
<1>5. \A n \in DOMAIN g.labels : g.labels[n] # "closure"
  <2> DEFINE rep == f[Len(ContextJoins(c))]
  <2>1. rep \in [DOMAIN c.labels -> DOMAIN c.labels] /\ IsPutThrough(g, c, rep)
    BY <1>3 DEF IsErasedBy
  <2> HIDE DEF rep
  <2>2. Range(rep) \subseteq DOMAIN c.labels
    BY <2>1 DEF Range
  <2> QED
    BY <1>1, <2>1, <2>2 DEF IsPutThrough, IsConverted, IsClosureFree
<1>6. ASSUME NEW i \in EdgesOf(g), g.edges[i].k = "op", g.edges[i].n \in Primitives
      PROVE  FALSE
  <2>1. i \in 1..k /\ g.edges[i].k = c.edges[place[i]].k /\ g.edges[i].n = c.edges[place[i]].n
    BY <1>2 DEF HasEdgesAt, EdgesOf
  <2> DEFINE e == place[i]
  <2>2. e \in EdgesOf(c) /\ c.edges[e].k = "op" /\ c.edges[e].n \in Primitives
    BY <1>4, <1>6, <2>1
  <2> HIDE DEF e
  <2>3. e \in EdgesOf(t) /\ t.edges[e].k = "op" /\ t.edges[e].n \in Primitives
    BY <1>1, <2>2 DEF IsConverted, EdgesOf
  <2> QED
    BY <2>3 DEF IsClosureFree
<1> QED
  BY <1>5, <1>6 DEF IsClosureFree, c, g

FreeInv ==
  /\ status # "done" => ClosuresAreMarked(term)
  /\ \A i \in DOMAIN functions : IsClosureFree(functions[i])

\* What is appended, and what was there.
LEMMA AppendedFunctions ==
  ASSUME ConvInv, Convert
  PROVE  \A f \in Range(functions') :
           f = BuildBody(term, Selected) \/ f \in Range(functions)
<1> DEFINE body == BuildBody(term, Selected)
<1>1. functions' = Append(functions, body) /\ IsList(functions)
  BY DEF Convert, ConvInv, GraphInv
<1> HIDE DEF body
<1>2. /\ IsList(Append(functions, body)) /\ Len(Append(functions, body)) = Len(functions) + 1
      /\ Append(functions, body)[Len(functions) + 1] = body
      /\ \A i \in 1..Len(functions) : Append(functions, body)[i] = functions[i]
      /\ Len(functions) \in Nat /\ DOMAIN functions = 1..Len(functions)
  BY <1>1, Pushed, Lists
<1>3. DOMAIN functions' = 1..(Len(functions) + 1)
  BY <1>1, <1>2, Lists
<1> SUFFICES ASSUME NEW i \in DOMAIN functions'
             PROVE  functions'[i] = body \/ functions'[i] \in Range(functions)
  BY DEF Range, body
<1>4. CASE i = Len(functions) + 1
  BY <1>1, <1>2, <1>4
<1>5. CASE i # Len(functions) + 1
  <2>1. i \in 1..Len(functions)
    BY <1>2, <1>3, <1>5
  <2> QED
    BY <1>1, <1>2, <2>1 DEF Range
<1> QED
  BY <1>4, <1>5

LEMMA ConvertFree ==
  ASSUME ConvInv, FreeInv, Convert
  PROVE  FreeInv'
<1> DEFINE t == term
           r == Selected
           v == SelectedValue
           g == Spliced(t, r, v)
<1>1. /\ IsRegion(t, r) /\ IsValue(t, r, v) /\ IsGraph(t) /\ ~HasDeletedBoundary(t, r)
  BY ConvertParts
<1>2. /\ Scheduled /\ status = "scheduling" /\ term' = Rewritten(g)
  BY DEF Convert, Scheduled
<1>3. HasItsEnds(t, r) /\ \A n \in Produced(t, Markers(t)) : n \notin r.environment
  BY <1>1, <1>2, SelectedEnds
<1>4. ClosuresAreMarked(t) /\ MarkersMakeAlone(t) /\ ~InvalidMarker(t)
  BY <1>2 DEF FreeInv, ConvInv, NameInv, RegionInv
<1>5. HasItsWires(t, r, v)
  <2>1. Selected \in regions
    BY <1>2, SelectedRegion
  <2>2. LastNode \in Nat /\ \A n \in DOMAIN term.labels : n <= LastNode
    BY <2>1, LastNodes
  <2>3. Len(functions) \in Nat
    BY Lists DEF ConvInv, GraphInv
  <2> QED
    BY <1>1, <2>2, <2>3, ValueWires DEF SelectedValue
<1>6. IsGraph(g)
  BY <1>1, SplicedParts
<1> HIDE DEF r, v, g, t
<1>7. \A n \in r.nodes : t.labels[n] # "closure"
  BY <1>1, <1>3, <1>4, RegionIsFree
<1>8. \A n \in DOMAIN g.labels : g.labels[n] = "closure" =>
        n \in Produced(g, Markers(g)) \ (Domains(g) \cup Consumed(g, Names(g)))
  <2>1. g = Spliced(t, r, v)
    BY DEF g
  <2> QED
    BY <1>1, <1>3, <1>4, <1>5, <1>7, <2>1, SplicedClosures
<1>9. ClosuresAreMarked(term')
  BY <1>2, <1>6, <1>8, RewrittenMarked
<1>10. IsClosureFree(BuildBody(t, r))
  BY <1>1, <1>4, <1>7, BodyIsFree
<1>11. \A i \in DOMAIN functions' : IsClosureFree(functions'[i])
  <2>1. \A f \in Range(functions') : f = BuildBody(t, r) \/ f \in Range(functions)
    BY AppendedFunctions DEF t, r
  <2>2. \A f \in Range(functions) : IsClosureFree(f)
    BY DEF Range, FreeInv
  <2>3. \A i \in DOMAIN functions' : functions'[i] \in Range(functions')
    BY DEF Range
  <2> QED
    BY <1>10, <2>1, <2>2, <2>3
<1> QED
  BY <1>9, <1>11 DEF FreeInv

LEMMA FinishFree ==
  ASSUME ConvInv, FreeInv, Finish
  PROVE  FreeInv'
<1> DEFINE finished(i) == Erased(Converted(functions[i]))
<1>1. /\ status' = "done" /\ functions' = [i \in DOMAIN functions |-> finished(i)]
      /\ \A i \in DOMAIN functions : IsGraph(functions[i]) /\ IsClosureFree(functions[i])
  BY DEF Finish, ConvInv, GraphInv, FreeInv
<1>2. \A i \in DOMAIN functions : IsClosureFree(finished(i))
  BY <1>1, FinishedIsFree
<1> HIDE DEF finished
<1>3. \A i \in DOMAIN functions' : IsClosureFree(functions'[i])
  BY <1>1, <1>2
<1> QED
  BY <1>1, <1>3 DEF FreeInv

LEMMA NextFree ==
  ASSUME ConvInv, FreeInv, [Next]_vars
  PROVE  FreeInv'
<1>1. CASE Discover
  <2>1. status # "done" /\ term' = term /\ functions' = functions
    BY <1>1 DEF Discover
  <2> QED
    BY <2>1 DEF FreeInv
<1>2. CASE Convert
  BY <1>2, ConvertFree
<1>3. CASE Finish
  BY <1>3, FinishFree
<1>4. CASE UNCHANGED vars
  BY <1>4 DEF vars, FreeInv
<1> QED
  BY <1>1, <1>2, <1>3, <1>4 DEF Next

\* A generated function never has a closure among its wires, nor a primitive
\* that would take one (schedule.rs:131-134), if the closures of the terms are
\* what markers make.
THEOREM FunctionsFree == Spec /\ TermsAreMarked => []FunctionsAreClosureFree
<1>1. Init /\ TermsAreMarked => FreeInv
  <2> SUFFICES ASSUME Init, TermsAreMarked PROVE FreeInv
    OBVIOUS
  <2>1. original \in Terms /\ term = original /\ functions = <<>>
    BY DEF Init
  <2> QED
    BY <2>1 DEF FreeInv, TermsAreMarked
<1>2. FreeInv => FunctionsAreClosureFree
  BY DEF FreeInv, FunctionsAreClosureFree, IsClosureFree, Range, EdgesOf
<1>3. ConvInv /\ FreeInv /\ [Next]_vars => (ConvInv /\ FreeInv)'
  BY NextConv, NextFree
<1>4. Init => ConvInv
  BY InitConv
<1> QED
  BY <1>1, <1>2, <1>3, <1>4, PTL DEF Spec

-----------------------------------------------------------------------------
\* Each wire is made once: in a generated function.

\* Every projection ascends, and projects no closure of a marker.
ContextsAscend(t) ==
  \A e \in OfKind(t, "context") :
    /\ Ascends(t, t.edges[e].src, t.edges[e].tgt)
    /\ Sources(t, e) \cap Produced(t, Markers(t)) = {}

IsFunction(f) == IsSupplied(f) /\ ContextsAscend(f) /\ Markers(f) = {}

\* Ascending is a matter of the labels of the wires.
LEMMA AscendsElsewhere ==
  ASSUME NEW t, NEW g, NEW src, NEW tgt, Ascends(t, src, tgt),
         \A n \in Range(src) \cup Range(tgt) : g.labels[n] = t.labels[n],
         NEW X, tgt \in Seq(X)
  PROVE  Ascends(g, src, tgt)
<1>1. \A i \in DOMAIN src : g.labels[src[i]] = t.labels[src[i]]
  BY DEF Range
<1>2. \A i \in DOMAIN tgt : g.labels[tgt[i]] = t.labels[tgt[i]]
  BY DEF Range
<1>3. ASSUME NEW i \in DOMAIN tgt, g.labels[tgt[i]] # "static", NEW l \in 1..i
      PROVE  l \in DOMAIN src /\ g.labels[src[l]] = g.labels[tgt[l]]
  <2>1. t.labels[tgt[i]] # "static"
    BY <1>2, <1>3
  <2>2. l \in DOMAIN src /\ t.labels[src[l]] = t.labels[tgt[l]]
    BY <2>1 DEF Ascends
  <2>3. l \in DOMAIN tgt
    BY ListRange
  <2> QED
    BY <1>1, <1>2, <2>2, <2>3
<1> QED
  BY <1>3 DEF Ascends

\* Each wire of a generated function is made once, or given to it.
LEMMA BodyIsFunction ==
  ASSUME NEW t, IsGraph(t), IsWired(t), PointersAreCalled(t), ContextsAscend(t),
         NEW r, IsRegion(t, r), HasItsEnds(t, r), ~HasUnnamedEval(t, r)
  PROVE  IsFunction(BuildBody(t, r))
<1> DEFINE b == BuildBody(t, r)
<1>1. IsGraph(b)
  BY BodyParts
<1>2. PICK from : IsBody(b, t, r, from)
  BY BodyWires
<1> HIDE DEF b
<1>3. \A i \in EdgesOf(b) : from[i] \in r.edges /\ from[i] \in Ordinary(t) /\ from[i] \in EdgesOf(t)
  <2>1. Copied(t, r) \cup Evals(t, r) \subseteq r.edges
    BY DEF Copied, Evals
  <2> QED
    BY <1>2, <2>1 DEF IsBody, IsRegion, Ordinary
<1>4. \A i, j \in EdgesOf(b) : i # j => Targets(b, i) \cap Targets(b, j) = {}
  BY <1>2, <1>3 DEF IsBody, IsWired, IsSupplied
<1>5. \A i \in EdgesOf(b) : b.edges[i].k = "call" \/
                             (from[i] \in Copied(t, r) /\ b.edges[i] = t.edges[from[i]])
  BY <1>2 DEF IsBody
<1>6. Markers(b) = {}
  <2> SUFFICES ASSUME NEW i \in EdgesOf(b), b.edges[i].k = "marker" PROVE FALSE
    BY DEF Markers, OfKind
  <2>1. t.edges[from[i]].k = "marker"
    BY <1>5
  <2> QED
    BY <1>3, <2>1 DEF Ordinary, Markers, OfKind
<1>7. Inputs(b) = r.environment \cup {r.domain}
  BY <1>2, <1>6 DEF IsBody, Inputs, Domains
<1>8. Produced(b, EdgesOf(b)) \subseteq Produced(t, r.edges)
  BY <1>2, <1>3 DEF IsBody, Produced
<1>9. Inputs(b) \cap Produced(b, EdgesOf(b)) = {}
  <2>1. r.environment \cap Produced(t, r.edges) = {}
    BY DEF IsRegion, Outside
  <2>2. r.domain \in Inputs(t)
    BY DEF HasItsEnds, Inputs, Domains
  <2>3. Produced(t, r.edges) \subseteq Produced(t, EdgesOf(t))
    BY DEF HasItsEnds, Produced
  <2>4. r.domain \notin Produced(t, r.edges)
    BY <2>2, <2>3 DEF IsWired, IsSupplied
  <2> QED
    BY <1>7, <1>8, <2>1, <2>4
<1>10. \A n \in DOMAIN b.labels : b.labels[n] = t.labels[n]
  BY <1>2 DEF IsBody
<1>11. ASSUME NEW n \in Used(b)
       PROVE  /\ n \in Produced(t, r.edges) \cup Outside(r) \cup {r.domain}
              /\ \/ n = r.codomain
                 \/ \E e \in Copied(t, r) : n \in Sources(t, e)
                 \/ \E e \in Evals(t, r) : n \in Sources(t, e) /\ n = t.edges[e].src[1]
  <2>1. \/ n = r.codomain
        \/ \E e \in Copied(t, r) : n \in Sources(t, e)
        \/ \E e \in Evals(t, r) : n \in Sources(t, e) /\ n = t.edges[e].src[1]
    <3>1. CASE n \in Range(b.targets)
      BY <1>2, <3>1 DEF IsBody
    <3>2. CASE n \in Consumed(b, EdgesOf(b))
      <4>1. PICK i \in EdgesOf(b) : n \in Sources(b, i)
        BY <3>2 DEF Consumed
      <4>2. CASE from[i] \in Copied(t, r)
        <5>1. b.edges[i] = t.edges[from[i]]
          BY <1>2, <4>2 DEF IsBody
        <5> QED
          BY <4>1, <4>2, <5>1 DEF Sources
      <4>3. CASE from[i] \in Evals(t, r)
        <5>1. n = t.edges[from[i]].src[1]
          BY <1>2, <4>1, <4>3 DEF IsBody
        <5>2. n \in Sources(t, from[i])
          <6> DEFINE src == t.edges[from[i]].src
          <6>1. src \in Seq(DOMAIN t.labels) /\ Len(src) >= 2
            BY <4>3, GraphParts DEF IsGraph, Evals, OfKind, EdgesOf
          <6> HIDE DEF src
          <6>2. src[1] \in Range(src)
            BY <6>1 DEF Range
          <6> QED
            BY <5>1, <6>2 DEF Sources, src
        <5> QED
          BY <4>3, <5>1, <5>2
      <4> QED
        BY <1>2, <4>2, <4>3 DEF IsBody
    <3> QED
      BY <3>1, <3>2 DEF Used
  <2>2. Copied(t, r) \subseteq r.edges /\ Evals(t, r) \subseteq r.edges
    BY DEF Copied, Evals
  <2>3. n = r.codomain \/ n \in Consumed(t, r.edges)
    BY <2>1, <2>2 DEF Consumed
  <2> QED
    BY <2>1, <2>3 DEF HasItsEnds, Outside
<1>12. ASSUME NEW n \in Used(b), n \in Produced(t, r.edges) PROVE n \in Produced(b, EdgesOf(b))
  <2>1. PICK e \in r.edges : n \in Targets(t, e)
    BY <1>12 DEF Produced
  <2>2. CASE e \in Copied(t, r) \cup Evals(t, r)
    <3>1. PICK i \in EdgesOf(b) : from[i] = e
      BY <1>2, <2>2 DEF IsBody
    <3> QED
      BY <1>2, <2>1, <3>1 DEF IsBody, Produced
  <2>3. CASE e \notin Copied(t, r) \cup Evals(t, r)
    <3>1. PICK v \in Evals(t, r) : e \in NameOf(t, r, v)
      BY <2>3 DEF Copied
    <3>2. e \in Names(t) /\ t.edges[v].src[2] \in Targets(t, e) /\ v \in OfKind(t, "eval")
      BY <3>1 DEF NameOf, Evals
    <3>3. \A c \in EdgesOf(t) : n \in Sources(t, c) =>
            t.edges[c].k = "eval" /\ t.edges[c].src[1] # n
      BY <2>1, <3>2 DEF PointersAreCalled
    <3>4. n # r.codomain
      <4>1. r.marker \in EdgesOf(t) /\ t.edges[r.marker].k = "marker" /\ r.codomain \in Sources(t, r.marker)
        BY DEF HasItsEnds, Markers, OfKind
      <4> QED
        BY <3>3, <4>1
    <3>5. \A c \in Copied(t, r) : n \notin Sources(t, c)
      <4> SUFFICES ASSUME NEW c \in Copied(t, r), n \in Sources(t, c) PROVE FALSE
        OBVIOUS
      <4>1. c \in r.edges /\ c \in EdgesOf(t) /\ c \notin Evals(t, r)
        BY DEF Copied, IsRegion, Ordinary
      <4>2. t.edges[c].k = "eval"
        BY <3>3, <4>1
      <4> QED
        BY <4>1, <4>2 DEF Evals, OfKind
    <3>6. \A c \in Evals(t, r) : n \in Sources(t, c) => n # t.edges[c].src[1]
      BY <3>3 DEF Evals, OfKind
    <3> QED
      BY <1>11, <3>4, <3>5, <3>6
  <2> QED
    BY <2>2, <2>3
<1>13. ASSUME NEW n \in Used(b), n \in r.context PROVE b.labels[n] = "static"
  <2>1. n \in Consumed(t, Names(t))
    BY <1>13 DEF HasItsEnds, Consumed
  <2>2. t.labels[n] = "static"
    BY <2>1 DEF IsWired
  <2>3. n \in DOMAIN b.labels
    BY <1>1, GraphParts DEF Used, Consumed
  <2> QED
    BY <1>10, <2>2, <2>3
<1>14. \A n \in Used(b) : HasSupply(b, n)
  BY <1>7, <1>11, <1>12, <1>13 DEF HasSupply, Outside
<1>15. ContextsAscend(b)
  <2> SUFFICES ASSUME NEW i \in EdgesOf(b), b.edges[i].k = "context"
               PROVE  Ascends(b, b.edges[i].src, b.edges[i].tgt)
    BY <1>6 DEF ContextsAscend, OfKind, Produced
  <2> DEFINE e == from[i]
             src == t.edges[e].src
             tgt == t.edges[e].tgt
  <2>1. b.edges[i] = t.edges[e] /\ e \in OfKind(t, "context")
    BY <1>3, <1>5 DEF OfKind
  <2>2. Ascends(t, src, tgt) /\ tgt \in Seq(DOMAIN t.labels)
    BY <2>1, GraphParts DEF ContextsAscend, OfKind
  <2>3. Range(src) \cup Range(tgt) \subseteq DOMAIN b.labels
    BY <1>1, <2>1, GraphParts DEF Sources, Targets
  <2> HIDE DEF src, tgt
  <2>4. Ascends(b, src, tgt)
    BY <1>10, <2>2, <2>3, AscendsElsewhere
  <2> QED
    BY <2>1, <2>4 DEF src, tgt
<1>16. IsFunction(b)
  BY <1>4, <1>6, <1>9, <1>14, <1>15 DEF IsFunction, IsSupplied
<1> QED
  BY <1>16 DEF b

-----------------------------------------------------------------------------
\* Each wire is made once: in the term, after a replacement.

\* g is t with the value v in the place of the region r, as SplicedWires and the
\* lemmas after it say.
IsReplacement(g, t, r, v, place, k) ==
  /\ IsGraph(t) /\ ~InvalidMarker(t)
  /\ IsRegion(t, r) /\ HasItsNames(t, r) /\ HasItsEnds(t, r) /\ ~HasDeletedBoundary(t, r)
  /\ \A n \in Produced(t, Markers(t)) : n \notin r.environment
  /\ IsValue(t, r, v) /\ HasItsWires(t, r, v)
  /\ IsGraph(g) /\ KeepsWires(g, t, r, v, place, k) /\ KeepsNodes(g, t, r, v)
  /\ KeepsKinds(g, t, r, place, k)

\* The nodes of both terms, and those that are new.
HasOldAndNew(g, t, r, v, place, k) ==
  /\ \A i \in 1..k : /\ i \in EdgesOf(g) /\ place[i] \in EdgesOf(t) /\ place[i] \in Kept(t, r)
                     /\ Targets(g, i) = Targets(t, place[i])
                     /\ Sources(g, i) \subseteq (Sources(t, place[i]) \ {r.closure}) \cup Range(v.targets)
                     /\ r.closure \notin Sources(t, place[i]) =>
                          g.edges[i].src = t.edges[place[i]].src /\ Sources(g, i) = Sources(t, place[i])
  /\ \A e \in EdgesOf(t) : Targets(t, e) \subseteq DOMAIN t.labels /\ Sources(t, e) \subseteq DOMAIN t.labels
  /\ \A n \in DOMAIN t.labels \cap DOMAIN g.labels :
       n \notin Deleted(r) /\ n \notin DOMAIN v.labels /\ g.labels[n] = t.labels[n]
  /\ Produced(v, EdgesOf(v)) \subseteq DOMAIN v.labels /\ Range(v.targets) \subseteq Produced(v, EdgesOf(v))
  /\ DOMAIN v.labels \cap DOMAIN t.labels = {}

LEMMA ReplacedNodes ==
  ASSUME NEW g, NEW t, NEW r, NEW v, NEW place, NEW k, IsReplacement(g, t, r, v, place, k)
  PROVE  HasOldAndNew(g, t, r, v, place, k)
<1>1. IsValue(t, r, v) /\ HasItsWires(t, r, v) /\ IsGraph(t) /\ KeepsWires(g, t, r, v, place, k)
      /\ KeepsNodes(g, t, r, v) /\ KeepsKinds(g, t, r, place, k)
  BY DEF IsReplacement
<1>2. /\ Produced(v, EdgesOf(v)) \subseteq DOMAIN v.labels /\ Range(v.targets) \subseteq Produced(v, EdgesOf(v))
      /\ DOMAIN v.labels \cap DOMAIN t.labels = {}
  BY <1>1, ValueMakesNew DEF HasItsWires
<1>3. \A e \in EdgesOf(t) : Targets(t, e) \subseteq DOMAIN t.labels /\ Sources(t, e) \subseteq DOMAIN t.labels
  BY <1>1, GraphParts
<1>4. \A n \in DOMAIN t.labels \cap DOMAIN g.labels :
        n \notin Deleted(r) /\ n \notin DOMAIN v.labels /\ g.labels[n] = t.labels[n]
  BY <1>1, <1>2 DEF KeepsNodes
<1>5. \A i \in 1..k :
        /\ i \in EdgesOf(g) /\ place[i] \in EdgesOf(t) /\ place[i] \in Kept(t, r)
        /\ Targets(g, i) = Targets(t, place[i])
        /\ Sources(g, i) \subseteq (Sources(t, place[i]) \ {r.closure}) \cup Range(v.targets)
        /\ r.closure \notin Sources(t, place[i]) =>
             g.edges[i].src = t.edges[place[i]].src /\ Sources(g, i) = Sources(t, place[i])
  BY <1>1 DEF KeepsKinds, KeepsWires, Sources
<1> QED
  BY <1>2, <1>3, <1>4, <1>5 DEF HasOldAndNew

\* What is new in g, with the nodes it uses.
LEMMA ReplacedNew ==
  ASSUME NEW g, NEW t, NEW r, NEW v, NEW place, NEW k, IsReplacement(g, t, r, v, place, k),
         NEW i \in EdgesOf(g), i \notin 1..k
  PROVE  \E j \in EdgesOf(v) :
           /\ i = k + j /\ g.edges[i] = v.edges[j]
           /\ Sources(g, i) = Sources(v, j) /\ Targets(g, i) = Targets(v, j)
           /\ g.edges[i].k \in {"context", "op", "closure"}
           /\ Targets(g, i) \subseteq DOMAIN v.labels
           /\ g.edges[i].k = "context" => Projects(t, r, v, j) /\ Sources(g, i) \subseteq Outside(r)
           /\ g.edges[i].k # "context" => Sources(g, i) \subseteq Produced(v, EdgesOf(v))
           /\ g.edges[i].k = "closure" => \A n \in Sources(v, j) : v.labels[n] = "static"
<1>1. IsValue(t, r, v) /\ HasItsWires(t, r, v) /\ KeepsWires(g, t, r, v, place, k)
  BY DEF IsReplacement
<1>2. PICK j \in EdgesOf(v) :
           /\ i = k + j /\ g.edges[i] = v.edges[j]
           /\ Sources(g, i) = Sources(v, j) /\ Targets(g, i) = Targets(v, j)
           /\ g.edges[i].k \in {"context", "op", "closure"}
           /\ Targets(g, i) \subseteq DOMAIN v.labels
  BY <1>1, NewEdges
<1>3. /\ v.edges[j].k = "context" => Projects(t, r, v, j)
      /\ v.edges[j].k # "context" => Sources(v, j) \subseteq Produced(v, EdgesOf(v))
      /\ v.edges[j].k = "closure" => \A n \in Sources(v, j) : v.labels[n] = "static"
  BY <1>1 DEF HasItsWires
<1>4. v.edges[j].k = "context" => Sources(v, j) \subseteq Outside(r)
  BY <1>3 DEF Projects, Sources
<1> QED
  BY <1>2, <1>3, <1>4

\* The captures are used in t, but by no name that stays; no closure is among them.
LEMMA CapturedWires ==
  ASSUME NEW t, IsWired(t), NEW r, HasItsEnds(t, r), \A n \in Produced(t, Markers(t)) : n \notin r.environment
  PROVE  /\ \A n \in Outside(r) : n \in Used(t)
         /\ \A n \in Outside(r) : n \in Consumed(t, r.edges) \cup {r.codomain}
         /\ \A n \in Outside(r) : n \notin Produced(t, Markers(t))
         /\ \A n \in r.context : t.labels[n] = "static"
<1>1. \A n \in r.context : t.labels[n] = "static" /\ n \in Consumed(t, r.edges)
  BY DEF HasItsEnds, Consumed, IsWired
<1>2. \A n \in Outside(r) : n \in Consumed(t, r.edges) \cup {r.codomain}
  BY <1>1 DEF HasItsEnds, Outside
<1>3. Consumed(t, r.edges) \cup {r.codomain} \subseteq Consumed(t, EdgesOf(t))
  BY DEF HasItsEnds, Consumed, Markers, OfKind
<1>4. \A n \in Outside(r) : n \in Used(t)
  BY <1>2, <1>3 DEF Used
<1>5. \A n \in r.context : n \notin Produced(t, Markers(t))
  BY <1>1 DEF IsWired
<1>6. \A n \in Outside(r) : n \notin Produced(t, Markers(t))
  BY <1>5 DEF Outside
<1> QED
  BY <1>1, <1>2, <1>4, <1>6

LEMMA ReplacedOnce ==
  ASSUME NEW g, NEW t, NEW r, NEW v, NEW place, NEW k, IsReplacement(g, t, r, v, place, k), IsWired(t)
  PROVE  \A i, j \in EdgesOf(g) : i # j => Targets(g, i) \cap Targets(g, j) = {}
<1> SUFFICES ASSUME NEW i \in EdgesOf(g), NEW j \in EdgesOf(g), i # j
             PROVE  Targets(g, i) \cap Targets(g, j) = {}
  OBVIOUS
<1>0. HasOldAndNew(g, t, r, v, place, k)
  BY ReplacedNodes
<1>1. DOMAIN v.labels \cap DOMAIN t.labels = {}
  BY <1>0 DEF HasOldAndNew
<1>2. ASSUME NEW e \in 1..k PROVE Targets(g, e) = Targets(t, place[e]) /\ Targets(g, e) \subseteq DOMAIN t.labels
                                  /\ place[e] \in EdgesOf(t)
  <2>1. /\ Targets(g, e) = Targets(t, place[e]) /\ place[e] \in EdgesOf(t)
        /\ \A a \in EdgesOf(t) : Targets(t, a) \subseteq DOMAIN t.labels
    BY <1>0 DEF HasOldAndNew
  <2> QED
    BY <2>1
<1>3. CASE i \in 1..k /\ j \in 1..k
  <2>1. place[i] # place[j]
    BY <1>3 DEF IsReplacement, KeepsWires
  <2> QED
    BY <1>2, <1>3, <2>1 DEF IsWired, IsSupplied
<1>4. CASE i \notin 1..k /\ j \notin 1..k
  <2>1. PICK a \in EdgesOf(v) : i = k + a /\ Targets(g, i) = Targets(v, a)
    BY <1>4, ReplacedNew
  <2>2. PICK b \in EdgesOf(v) : j = k + b /\ Targets(g, j) = Targets(v, b)
    BY <1>4, ReplacedNew
  <2>3. a # b
    BY <2>1, <2>2
  <2> QED
    BY <2>1, <2>2, <2>3 DEF IsReplacement, HasItsWires
<1>5. CASE i \in 1..k /\ j \notin 1..k
  <2>1. Targets(g, j) \subseteq DOMAIN v.labels
    BY <1>5, ReplacedNew
  <2> QED
    BY <1>1, <1>2, <1>5, <2>1
<1>6. CASE i \notin 1..k /\ j \in 1..k
  <2>1. Targets(g, i) \subseteq DOMAIN v.labels
    BY <1>6, ReplacedNew
  <2> QED
    BY <1>1, <1>2, <1>6, <2>1
<1> QED
  BY <1>3, <1>4, <1>5, <1>6

\* An argument of a closure that stays is one still, and what is given to g was
\* given to t.
LEMMA ReplacedInputs ==
  ASSUME NEW g, NEW t, NEW r, NEW v, NEW place, NEW k, IsReplacement(g, t, r, v, place, k), IsWired(t)
  PROVE  /\ Inputs(g) \subseteq Inputs(t) /\ Inputs(t) \subseteq DOMAIN t.labels
         /\ \A n \in Inputs(t) : n # r.domain => n \in Inputs(g)
<1>1. HasOldAndNew(g, t, r, v, place, k) /\ KeepsWires(g, t, r, v, place, k) /\ KeepsKinds(g, t, r, place, k)
  BY ReplacedNodes DEF IsReplacement
<1>2. Range(g.sources) = Range(t.sources) \ {r.closure}
  BY DEF IsReplacement, KeepsNodes
<1>3. Inputs(t) \cap Produced(t, EdgesOf(t)) = {}
  BY DEF IsWired, IsSupplied
<1>4. r.closure \in Produced(t, EdgesOf(t))
  BY DEF IsReplacement, IsRegion, Markers, OfKind, Produced
<1>5. ASSUME NEW m \in Markers(t)
      PROVE  /\ m \in EdgesOf(t) /\ t.edges[m].k = "marker" /\ Len(t.edges[m].src) >= 1
             /\ t.edges[m].src[1] \in Sources(t, m)
             /\ t.edges[m].src[1] # r.closure
  <2>1. m \in EdgesOf(t) /\ t.edges[m].k = "marker"
    BY DEF Markers, OfKind
  <2> DEFINE src == t.edges[m].src
  <2>2. src \in Seq(DOMAIN t.labels) /\ Len(src) = 2
    BY <2>1, GraphParts DEF IsReplacement, InvalidMarker
  <2>3. src[1] \in Domains(t)
    BY DEF Domains
  <2> HIDE DEF src
  <2>4. src[1] \in Range(src)
    BY <2>2 DEF Range
  <2>5. src[1] # r.closure
    BY <1>3, <1>4, <2>3 DEF Inputs
  <2> QED
    BY <2>1, <2>2, <2>4, <2>5 DEF src, Sources
<1>6. Domains(g) \subseteq Domains(t)
  <2> SUFFICES ASSUME NEW m \in Markers(g) PROVE g.edges[m].src[1] \in Domains(t)
    BY DEF Domains
  <2>1. m \in 1..k /\ place[m] \in Markers(t)
    BY <1>1 DEF KeepsKinds
  <2>2. g.edges[m].src[1] = t.edges[place[m]].src[1]
    BY <1>1, <1>5, <2>1 DEF KeepsWires
  <2> QED
    BY <2>1, <2>2 DEF Domains
<1>7. ASSUME NEW m \in Markers(t), t.edges[m].src[1] # r.domain
      PROVE  t.edges[m].src[1] \in Domains(g)
  <2>1. m \in Kept(t, r)
    BY <1>5, <1>7 DEF Kept, IsReplacement, IsRegion, Ordinary, HasItsEnds
  <2>2. PICK i \in 1..k : place[i] = m
    BY <1>1, <2>1 DEF KeepsKinds
  <2>3. i \in Markers(g) /\ g.edges[i].src[1] = t.edges[m].src[1]
    BY <1>1, <1>5, <2>2 DEF KeepsWires, HasOldAndNew, Markers, OfKind
  <2> QED
    BY <2>3 DEF Domains
<1>8. Inputs(t) \subseteq DOMAIN t.labels
  <2>1. Range(t.sources) \subseteq DOMAIN t.labels
    BY GraphParts DEF IsReplacement
  <2>2. Domains(t) \subseteq DOMAIN t.labels
    BY <1>1, <1>5 DEF Domains, HasOldAndNew
  <2> QED
    BY <2>1, <2>2 DEF Inputs
<1>9. ASSUME NEW n \in Inputs(t), n # r.domain PROVE n \in Inputs(g)
  <2>1. CASE n \in Range(t.sources)
    BY <1>2, <1>3, <1>4, <2>1 DEF Inputs
  <2>2. CASE n \in Domains(t)
    <3>1. PICK m \in Markers(t) : n = t.edges[m].src[1]
      BY <2>2 DEF Domains
    <3> QED
      BY <1>7, <1>9, <3>1 DEF Inputs
  <2> QED
    BY <2>1, <2>2 DEF Inputs
<1> QED
  BY <1>2, <1>6, <1>8, <1>9 DEF Inputs

\* A node that stays has what it had.
LEMMA ReplacedSupply ==
  ASSUME NEW g, NEW t, NEW r, NEW v, NEW place, NEW k, IsReplacement(g, t, r, v, place, k), IsWired(t),
         NEW n \in DOMAIN t.labels \cap DOMAIN g.labels, HasSupply(t, n)
  PROVE  HasSupply(g, n)
<1>1. HasOldAndNew(g, t, r, v, place, k) /\ KeepsKinds(g, t, r, place, k)
  BY ReplacedNodes DEF IsReplacement
<1>2. n \notin Deleted(r) /\ g.labels[n] = t.labels[n]
  BY <1>1 DEF HasOldAndNew
<1>3. CASE t.labels[n] = "static"
  BY <1>2, <1>3 DEF HasSupply
<1>4. CASE n \in Inputs(t) /\ n # r.domain
  BY <1>4, ReplacedInputs DEF HasSupply
<1>5. CASE n = r.domain
  <2>1. n \in Outside(r)
    BY <1>2, <1>5 DEF Deleted, IsReplacement, IsRegion
  <2>2. n \in r.context
    BY <1>5, <2>1 DEF Outside, IsReplacement, HasItsEnds
  <2>3. t.labels[n] = "static"
    BY <2>2, CapturedWires DEF IsReplacement
  <2> QED
    BY <1>2, <2>3 DEF HasSupply
<1>6. CASE n \in Produced(t, EdgesOf(t))
  <2>1. PICK e \in EdgesOf(t) : n \in Targets(t, e)
    BY <1>6 DEF Produced
  <2>2. e \notin r.edges
    <3> SUFFICES ASSUME e \in r.edges PROVE FALSE
      OBVIOUS
    <3>1. n \in Produced(t, r.edges)
      BY <2>1 DEF Produced
    <3> QED
      BY <1>2, <3>1 DEF Deleted, IsReplacement, IsRegion
  <2>3. e # r.marker
    BY <1>2, <2>1 DEF Deleted, IsReplacement, HasItsEnds
  <2>4. PICK i \in 1..k : place[i] = e
    BY <1>1, <2>2, <2>3 DEF KeepsKinds, Kept
  <2>5. i \in EdgesOf(g) /\ n \in Targets(g, i)
    BY <1>1, <2>1, <2>4 DEF HasOldAndNew
  <2> QED
    BY <2>5 DEF HasSupply, Produced
<1> QED
  BY <1>3, <1>4, <1>5, <1>6 DEF HasSupply

LEMMA ReplacedSupplied ==
  ASSUME NEW g, NEW t, NEW r, NEW v, NEW place, NEW k, IsReplacement(g, t, r, v, place, k), IsWired(t)
  PROVE  IsSupplied(g)
<1>1. HasOldAndNew(g, t, r, v, place, k) /\ KeepsKinds(g, t, r, place, k)
  BY ReplacedNodes DEF IsReplacement
<1>2. IsGraph(g) /\ KeepsNodes(g, t, r, v) /\ KeepsWires(g, t, r, v, place, k)
  BY DEF IsReplacement
<1>3. Produced(g, EdgesOf(g)) \subseteq Produced(t, EdgesOf(t)) \cup DOMAIN v.labels
  <2> SUFFICES ASSUME NEW i \in EdgesOf(g)
               PROVE  Targets(g, i) \subseteq Produced(t, EdgesOf(t)) \cup DOMAIN v.labels
    BY DEF Produced
  <2>1. CASE i \in 1..k
    BY <1>1, <2>1 DEF HasOldAndNew, Produced
  <2>2. CASE i \notin 1..k
    BY <2>2, ReplacedNew
  <2> QED
    BY <2>1, <2>2
<1>4. Inputs(g) \cap Produced(g, EdgesOf(g)) = {}
  <2>1. Inputs(g) \subseteq Inputs(t) /\ Inputs(t) \subseteq DOMAIN t.labels
    BY ReplacedInputs
  <2> QED
    BY <1>1, <1>3, <2>1 DEF HasOldAndNew, IsWired, IsSupplied
<1>5. Produced(v, EdgesOf(v)) \subseteq Produced(g, EdgesOf(g))
  <2> SUFFICES ASSUME NEW j \in EdgesOf(v) PROVE \E i \in EdgesOf(g) : Targets(g, i) = Targets(v, j)
    BY DEF Produced
  <2>1. EdgesOf(v) = 1..Len(v.edges)
    BY DEF IsReplacement, IsValue, EdgesOf
  <2>2. k + j \in EdgesOf(g) /\ g.edges[k + j] = v.edges[j]
    BY <1>2, <2>1 DEF KeepsWires
  <2> QED
    BY <2>2 DEF Targets
<1>6. \A n \in Outside(r) : n \in Used(t)
  BY CapturedWires DEF IsReplacement
<1>7. ASSUME NEW n \in Used(g), n \notin Produced(v, EdgesOf(v)) PROVE n \in Used(t)
  <2>1. CASE n \in Range(g.targets)
    BY <1>1, <1>2, <1>7, <2>1 DEF KeepsNodes, HasOldAndNew, Used
  <2>2. CASE n \in Consumed(g, EdgesOf(g))
    <3>1. PICK i \in EdgesOf(g) : n \in Sources(g, i)
      BY <2>2 DEF Consumed
    <3>2. CASE i \in 1..k
      <4>1. n \in Sources(t, place[i]) /\ place[i] \in EdgesOf(t)
        BY <1>1, <1>7, <3>1, <3>2 DEF HasOldAndNew
      <4> QED
        BY <4>1 DEF Used, Consumed
    <3>3. CASE i \notin 1..k
      <4>1. g.edges[i].k # "context" => Sources(g, i) \subseteq Produced(v, EdgesOf(v))
        BY <3>3, ReplacedNew
      <4>2. g.edges[i].k = "context" => Sources(g, i) \subseteq Outside(r)
        BY <3>3, ReplacedNew
      <4> QED
        BY <1>6, <1>7, <3>1, <4>1, <4>2
    <3> QED
      BY <3>2, <3>3
  <2> QED
    BY <2>1, <2>2 DEF Used
<1>8. ASSUME NEW n \in Used(g) PROVE HasSupply(g, n)
  <2>1. CASE n \in Produced(v, EdgesOf(v))
    BY <1>5, <2>1 DEF HasSupply
  <2>2. CASE n \notin Produced(v, EdgesOf(v))
    <3>1. n \in Used(t) /\ HasSupply(t, n)
      BY <1>7, <2>2 DEF IsWired, IsSupplied
    <3>2. n \in DOMAIN g.labels
      BY <1>2, GraphParts DEF Used, Consumed
    <3>3. n \in DOMAIN t.labels
      <4>1. IsGraph(t)
        BY DEF IsReplacement
      <4> QED
        BY <3>1, <4>1, GraphParts DEF Used, Consumed
    <3> QED
      BY <3>1, <3>2, <3>3, ReplacedSupply
  <2> QED
    BY <2>1, <2>2
<1>9. \A i, j \in EdgesOf(g) : i # j => Targets(g, i) \cap Targets(g, j) = {}
  BY ReplacedOnce
<1> QED
  BY <1>4, <1>8, <1>9 DEF IsSupplied

LEMMA ReplacedMarkers ==
  ASSUME NEW g, NEW t, NEW r, NEW v, NEW place, NEW k, IsReplacement(g, t, r, v, place, k)
  PROVE  Produced(g, Markers(g)) \subseteq Produced(t, Markers(t))
<1>1. HasOldAndNew(g, t, r, v, place, k) /\ KeepsKinds(g, t, r, place, k)
  BY ReplacedNodes DEF IsReplacement
<1> SUFFICES ASSUME NEW m \in Markers(g) PROVE Targets(g, m) \subseteq Produced(t, Markers(t))
  BY DEF Produced
<1>2. m \in 1..k /\ place[m] \in Markers(t)
  BY <1>1 DEF KeepsKinds
<1>3. Targets(g, m) = Targets(t, place[m])
  BY <1>1, <1>2 DEF HasOldAndNew
<1> QED
  BY <1>2, <1>3 DEF Produced

LEMMA ReplacedWired ==
  ASSUME NEW g, NEW t, NEW r, NEW v, NEW place, NEW k, IsReplacement(g, t, r, v, place, k), IsWired(t)
  PROVE  IsWired(g)
<1>1. HasOldAndNew(g, t, r, v, place, k) /\ KeepsKinds(g, t, r, place, k)
  BY ReplacedNodes DEF IsReplacement
<1>2. IsGraph(g) /\ KeepsNodes(g, t, r, v) /\ IsGraph(t)
  BY DEF IsReplacement
<1>3. ASSUME NEW n \in Consumed(g, Names(g)) PROVE g.labels[n] = "static"
  <2>1. PICK m \in Names(g) : n \in Sources(g, m)
    BY DEF Consumed
  <2>2. m \in EdgesOf(g) /\ g.edges[m].k \in {"name", "closure"} /\ n \in DOMAIN g.labels
    BY <1>2, <2>1, GraphParts DEF Names, OfKind
  <2>3. CASE m \in 1..k
    <3>1. place[m] \in Names(t) /\ place[m] \in EdgesOf(t)
      BY <1>1, <2>3 DEF KeepsKinds
    <3>2. \A a \in Sources(t, place[m]) : t.labels[a] = "static"
      BY <3>1 DEF IsWired, Consumed
    <3>3. r.closure \in Produced(t, Markers(t))
      BY DEF IsReplacement, IsRegion, Produced
    <3>4. r.closure \notin Sources(t, place[m])
      BY <3>2, <3>3 DEF IsWired
    <3>5. n \in Sources(t, place[m])
      BY <1>1, <2>1, <2>3, <3>4 DEF HasOldAndNew
    <3>6. n \in DOMAIN t.labels
      BY <1>1, <3>1, <3>5 DEF HasOldAndNew
    <3> QED
      BY <1>1, <2>2, <3>2, <3>5, <3>6 DEF HasOldAndNew
  <2>4. CASE m \notin 1..k
    <3>1. PICK j \in EdgesOf(v) :
            /\ Sources(g, m) = Sources(v, j) /\ g.edges[m].k \in {"context", "op", "closure"}
            /\ g.edges[m].k # "context" => Sources(g, m) \subseteq Produced(v, EdgesOf(v))
            /\ g.edges[m].k = "closure" => \A a \in Sources(v, j) : v.labels[a] = "static"
      BY <2>2, <2>4, ReplacedNew
    <3>2. g.edges[m].k = "closure"
      BY <2>2, <3>1
    <3>3. n \in DOMAIN v.labels /\ v.labels[n] = "static"
      BY <1>1, <2>1, <3>1, <3>2 DEF HasOldAndNew
    <3> QED
      BY <1>2, <3>3 DEF KeepsNodes
  <2> QED
    BY <2>3, <2>4
<1>4. ASSUME NEW n \in Produced(g, Markers(g)) PROVE g.labels[n] = "closure"
  <2>1. n \in Produced(t, Markers(t))
    BY ReplacedMarkers
  <2>2. n \in DOMAIN g.labels /\ n \in DOMAIN t.labels
    BY <1>2, <2>1, GraphParts DEF Produced, Markers, OfKind
  <2>3. g.labels[n] = t.labels[n]
    BY <1>1, <2>2 DEF HasOldAndNew
  <2> QED
    BY <2>1, <2>3 DEF IsWired
<1>5. IsSupplied(g)
  BY ReplacedSupplied
<1> QED
  BY <1>3, <1>4, <1>5 DEF IsWired

LEMMA ReplacedPointers ==
  ASSUME NEW g, NEW t, NEW r, NEW v, NEW place, NEW k, IsReplacement(g, t, r, v, place, k),
         IsWired(t), PointersAreCalled(t)
  PROVE  PointersAreCalled(g)
<1>1. HasOldAndNew(g, t, r, v, place, k) /\ KeepsKinds(g, t, r, place, k) /\ KeepsWires(g, t, r, v, place, k)
  BY ReplacedNodes DEF IsReplacement
<1>2. IsGraph(g) /\ KeepsNodes(g, t, r, v) /\ IsGraph(t)
  BY DEF IsReplacement
<1>3. r.closure \in Produced(t, Markers(t))
  BY DEF IsReplacement, IsRegion, Produced
<1>4. ASSUME NEW w \in OfKind(g, "eval")
      PROVE  /\ w \in 1..k /\ place[w] \in OfKind(t, "eval") /\ g.edges[w].src = t.edges[place[w]].src
             /\ Sources(g, w) = Sources(t, place[w])
  <2>1. w \in 1..k /\ place[w] \in OfKind(t, "eval")
    BY <1>1 DEF KeepsKinds
  <2>2. r.closure \notin Sources(t, place[w])
    BY <1>3, <2>1 DEF PointersAreCalled
  <2> QED
    BY <1>1, <2>1, <2>2 DEF HasOldAndNew
<1>5. ASSUME NEW w \in OfKind(g, "eval")
      PROVE  Sources(g, w) \cap Produced(g, Markers(g)) = {}
  BY <1>4, ReplacedMarkers DEF PointersAreCalled
<1>6. ASSUME NEW w \in OfKind(g, "eval"), NEW m \in Names(g), g.edges[w].src[2] \in Targets(g, m)
      PROVE  /\ Targets(g, m) \cap Range(g.targets) = {}
             /\ \A e \in EdgesOf(g) : Targets(g, m) \cap Sources(g, e) # {} =>
                  g.edges[e].k = "eval" /\ g.edges[e].src[1] \notin Targets(g, m)
  <2> DEFINE p == g.edges[w].src[2]
             a == place[m]
  <2>1. p \in DOMAIN t.labels /\ p = t.edges[place[w]].src[2]
    <3> DEFINE src == t.edges[place[w]].src
    <3>1. g.edges[w].src = src /\ src \in Seq(DOMAIN t.labels) /\ Len(src) >= 2
      BY <1>2, <1>4, GraphParts DEF OfKind, IsGraph, EdgesOf
    <3> HIDE DEF src
    <3>2. src[2] \in DOMAIN t.labels
      BY <3>1
    <3> QED
      BY <3>1, <3>2 DEF src
  <2>2. m \in EdgesOf(g)
    BY DEF Names, OfKind
  <2>3. m \in 1..k
    <3> SUFFICES ASSUME m \notin 1..k PROVE FALSE
      OBVIOUS
    <3>1. Targets(g, m) \subseteq DOMAIN v.labels
      BY <2>2, ReplacedNew
    <3> QED
      BY <1>1, <1>6, <2>1, <3>1 DEF HasOldAndNew
  <2>4. a \in Names(t) /\ Targets(g, m) = Targets(t, a) /\ a \in EdgesOf(t) /\ a \in Kept(t, r)
    BY <1>1, <2>3 DEF KeepsKinds
  <2> HIDE DEF p, a
  <2>5. /\ Targets(t, a) \cap Range(t.targets) = {}
        /\ \A e \in EdgesOf(t) : Targets(t, a) \cap Sources(t, e) # {} =>
             t.edges[e].k = "eval" /\ t.edges[e].src[1] \notin Targets(t, a)
    BY <1>4, <1>6, <2>1, <2>4 DEF PointersAreCalled, p
  <2>6. Targets(t, a) \subseteq DOMAIN t.labels /\ Targets(t, a) \cap DOMAIN v.labels = {}
    BY <1>1, <2>4 DEF HasOldAndNew
  <2>7. Targets(g, m) \cap Range(g.targets) = {}
    BY <1>1, <1>2, <2>4, <2>5, <2>6 DEF KeepsNodes, HasOldAndNew
  <2>8. Targets(t, a) \cap Outside(r) = {}
    <3> SUFFICES ASSUME NEW n \in Targets(t, a), n \in Outside(r) PROVE FALSE
      OBVIOUS
    <3>1. n \in Consumed(t, r.edges) \cup {r.codomain}
      BY CapturedWires DEF IsReplacement
    <3>2. CASE n = r.codomain
      <4>1. r.marker \in EdgesOf(t) /\ t.edges[r.marker].k = "marker" /\ n \in Sources(t, r.marker)
        BY <3>2 DEF IsReplacement, HasItsEnds, Markers, OfKind
      <4> QED
        BY <2>5, <4>1
    <3>3. CASE n \in Consumed(t, r.edges)
      <4>1. PICK e \in r.edges : n \in Sources(t, e)
        BY <3>3 DEF Consumed
      <4>2. a \in r.edges
        BY <2>4, <4>1 DEF IsReplacement, HasItsNames
      <4> QED
        BY <2>4, <4>2 DEF Kept
    <3> QED
      BY <3>1, <3>2, <3>3
  <2>9. ASSUME NEW e \in EdgesOf(g), Targets(g, m) \cap Sources(g, e) # {}
        PROVE  g.edges[e].k = "eval" /\ g.edges[e].src[1] \notin Targets(g, m)
    <3>1. PICK n \in Targets(t, a) : n \in Sources(g, e)
      BY <2>4, <2>9
    <3>2. n \notin Produced(v, EdgesOf(v)) /\ n \notin Range(v.targets)
      BY <1>1, <2>6, <3>1 DEF HasOldAndNew
    <3>3. CASE e \in 1..k
      <4>1. n \in Sources(t, place[e]) /\ place[e] \in EdgesOf(t)
        BY <1>1, <3>1, <3>2, <3>3 DEF HasOldAndNew
      <4>2. t.edges[place[e]].k = "eval" /\ t.edges[place[e]].src[1] \notin Targets(t, a)
        BY <2>5, <3>1, <4>1
      <4>3. e \in OfKind(g, "eval")
        BY <1>1, <3>3, <4>2 DEF KeepsWires, OfKind
      <4> QED
        BY <1>4, <2>4, <4>2, <4>3 DEF OfKind
    <3>4. CASE e \notin 1..k
      <4>1. g.edges[e].k # "context" => Sources(g, e) \subseteq Produced(v, EdgesOf(v))
        BY <3>4, ReplacedNew
      <4>2. g.edges[e].k = "context" => Sources(g, e) \subseteq Outside(r)
        BY <3>4, ReplacedNew
      <4> QED
        BY <2>8, <3>1, <3>2, <4>1, <4>2
    <3> QED
      BY <3>3, <3>4
  <2> QED
    BY <2>7, <2>9
<1> QED
  BY <1>5, <1>6 DEF PointersAreCalled

LEMMA ReplacedContexts ==
  ASSUME NEW g, NEW t, NEW r, NEW v, NEW place, NEW k, IsReplacement(g, t, r, v, place, k),
         IsWired(t), ContextsAscend(t)
  PROVE  ContextsAscend(g)
<1>1. HasOldAndNew(g, t, r, v, place, k) /\ KeepsKinds(g, t, r, place, k) /\ KeepsWires(g, t, r, v, place, k)
  BY ReplacedNodes DEF IsReplacement
<1>2. IsGraph(g) /\ KeepsNodes(g, t, r, v) /\ IsGraph(t)
  BY DEF IsReplacement
<1> SUFFICES ASSUME NEW i \in EdgesOf(g), g.edges[i].k = "context"
             PROVE  /\ Ascends(g, g.edges[i].src, g.edges[i].tgt)
                    /\ Sources(g, i) \cap Produced(g, Markers(g)) = {}
  BY DEF ContextsAscend, OfKind
<1> DEFINE src == g.edges[i].src
           tgt == g.edges[i].tgt
<1>3. /\ tgt \in Seq(DOMAIN g.labels) /\ Range(src) \cup Range(tgt) \subseteq DOMAIN g.labels
      /\ Range(src) = Sources(g, i) /\ Range(tgt) = Targets(g, i)
  BY <1>2, GraphParts DEF Sources, Targets
<1>4. CASE i \in 1..k
  <2> DEFINE e == place[i]
  <2>1. e \in OfKind(t, "context") /\ t.edges[e].tgt = tgt
    BY <1>1, <1>4 DEF KeepsWires, OfKind
  <2>2. r.closure \in Produced(t, Markers(t))
    BY DEF IsReplacement, IsRegion, Produced
  <2>3. src = t.edges[e].src /\ Sources(g, i) = Sources(t, e)
    BY <1>1, <1>4, <2>1, <2>2 DEF ContextsAscend, HasOldAndNew
  <2>4. Ascends(t, src, tgt) /\ Sources(g, i) \cap Produced(t, Markers(t)) = {}
    BY <2>1, <2>3 DEF ContextsAscend
  <2>5. Range(src) \cup Range(tgt) \subseteq DOMAIN t.labels
    BY <1>2, <2>1, <2>3, GraphParts DEF OfKind, Sources, Targets
  <2>6. \A n \in Range(src) \cup Range(tgt) : g.labels[n] = t.labels[n]
    BY <1>1, <1>3, <2>5 DEF HasOldAndNew
  <2> HIDE DEF src, tgt
  <2>7. Ascends(g, src, tgt)
    BY <1>3, <2>4, <2>6, AscendsElsewhere
  <2> QED
    BY <2>4, <2>7, ReplacedMarkers DEF src, tgt
<1>5. CASE i \notin 1..k
  <2>1. PICK j \in EdgesOf(v) :
           /\ g.edges[i] = v.edges[j] /\ Targets(g, i) \subseteq DOMAIN v.labels
           /\ g.edges[i].k = "context" => Projects(t, r, v, j) /\ Sources(g, i) \subseteq Outside(r)
    BY <1>5, ReplacedNew
  <2>2. Sources(g, i) \subseteq Outside(r) /\ Outside(r) \subseteq DOMAIN t.labels
    BY <2>1 DEF Outside, IsReplacement, IsRegion
  <2>3. /\ \A n \in Range(src) : g.labels[n] = t.labels[n]
        /\ \A n \in Range(tgt) : g.labels[n] = v.labels[n]
    BY <1>1, <1>2, <1>3, <2>1, <2>2 DEF HasOldAndNew, KeepsNodes
  <2> HIDE DEF src, tgt
  <2>4. /\ \A n \in Range(src) : \A m \in Range(tgt) : n < m
        /\ \A a, l \in DOMAIN tgt : tgt[a] = tgt[l] => a = l
        /\ \A a \in DOMAIN tgt : v.labels[tgt[a]] = "static" \/
             \A l \in 1..a : l \in DOMAIN src /\ t.labels[src[l]] = v.labels[tgt[l]]
    BY <2>1 DEF Projects, src, tgt
  <2>5. ASSUME NEW a \in DOMAIN tgt, g.labels[tgt[a]] # "static", NEW l \in 1..a
        PROVE  l \in DOMAIN src /\ g.labels[src[l]] = g.labels[tgt[l]]
    <3>1. l \in DOMAIN tgt
      BY <1>3, ListRange
    <3>2. tgt[a] \in Range(tgt) /\ tgt[l] \in Range(tgt) /\ (l \in DOMAIN src => src[l] \in Range(src))
      BY <3>1 DEF Range
    <3>3. l \in DOMAIN src /\ t.labels[src[l]] = v.labels[tgt[l]]
      BY <2>3, <2>4, <2>5, <3>2
    <3> QED
      BY <2>3, <3>2, <3>3
  <2>6. Ascends(g, src, tgt)
    BY <2>4, <2>5 DEF Ascends
  <2>7. \A n \in Outside(r) : n \notin Produced(t, Markers(t))
    BY CapturedWires DEF IsReplacement
  <2> QED
    BY <2>2, <2>6, <2>7, ReplacedMarkers DEF src, tgt
<1> QED
  BY <1>4, <1>5

-----------------------------------------------------------------------------
\* Each wire is made once: after every step but the last.

IsAscendingWired(t) == IsWired(t) /\ PointersAreCalled(t) /\ ContextsAscend(t)

\* Converting operations changes no wire.
HasTheWires(g, t) ==
  /\ EdgesOf(g) = EdgesOf(t) /\ Markers(g) = Markers(t) /\ Names(g) = Names(t)
  /\ OfKind(g, "eval") = OfKind(t, "eval") /\ OfKind(g, "context") = OfKind(t, "context")
  /\ \A e \in EdgesOf(t) : /\ g.edges[e].src = t.edges[e].src /\ g.edges[e].tgt = t.edges[e].tgt
                           /\ Sources(g, e) = Sources(t, e) /\ Targets(g, e) = Targets(t, e)
  /\ \A E \in SUBSET EdgesOf(t) : Produced(g, E) = Produced(t, E) /\ Consumed(g, E) = Consumed(t, E)
  /\ g.labels = t.labels /\ g.sources = t.sources /\ g.targets = t.targets
  /\ Used(g) = Used(t) /\ Inputs(g) = Inputs(t)

LEMMA ConvertedWires ==
  ASSUME NEW t, NEW g, IsConverted(g, t)
  PROVE  HasTheWires(g, t)
<1>1. /\ EdgesOf(g) = EdgesOf(t) /\ g.labels = t.labels /\ g.sources = t.sources /\ g.targets = t.targets
      /\ \A e \in EdgesOf(t) : g.edges[e].src = t.edges[e].src /\ g.edges[e].tgt = t.edges[e].tgt
  BY DEF IsConverted, EdgesOf
<1>2. /\ Markers(g) = Markers(t) /\ Names(g) = Names(t)
      /\ OfKind(g, "eval") = OfKind(t, "eval") /\ OfKind(g, "context") = OfKind(t, "context")
  BY DEF IsConverted, EdgesOf, Markers, Names, OfKind
<1>3. \A e \in EdgesOf(t) : Sources(g, e) = Sources(t, e) /\ Targets(g, e) = Targets(t, e)
  BY <1>1 DEF Sources, Targets
<1>4. \A E \in SUBSET EdgesOf(t) : Produced(g, E) = Produced(t, E) /\ Consumed(g, E) = Consumed(t, E)
  BY <1>3 DEF Produced, Consumed
<1>5. Used(g) = Used(t)
  BY <1>1, <1>4 DEF Used
<1>6. Inputs(g) = Inputs(t)
  BY <1>1, <1>2 DEF Inputs, Domains, Markers, OfKind
<1> QED
  BY <1>1, <1>2, <1>3, <1>4, <1>5, <1>6 DEF HasTheWires

LEMMA ConvertedIsWired ==
  ASSUME NEW t, NEW g, IsConverted(g, t)
  PROVE  /\ IsAscendingWired(t) => IsAscendingWired(g)
         /\ IsFunction(t) => IsFunction(g)
<1>1. HasTheWires(g, t)
  BY ConvertedWires
<1>2. Markers(t) \subseteq EdgesOf(t) /\ Names(t) \subseteq EdgesOf(t) /\ OfKind(t, "context") \subseteq EdgesOf(t)
      /\ OfKind(t, "eval") \subseteq EdgesOf(t)
  BY DEF Markers, Names, OfKind
<1>3. Produced(g, Markers(g)) = Produced(t, Markers(t)) /\ Consumed(g, Names(g)) = Consumed(t, Names(t))
      /\ Produced(g, EdgesOf(g)) = Produced(t, EdgesOf(t))
  BY <1>1, <1>2 DEF HasTheWires
<1>4. IsSupplied(t) => IsSupplied(g)
  BY <1>1, <1>3 DEF IsSupplied, HasSupply, HasTheWires
<1>5. ContextsAscend(t) => ContextsAscend(g)
  <2> SUFFICES ASSUME ContextsAscend(t), NEW e \in OfKind(t, "context")
               PROVE  /\ Ascends(g, g.edges[e].src, g.edges[e].tgt)
                      /\ Sources(g, e) \cap Produced(t, Markers(t)) = {}
    BY <1>1, <1>3 DEF ContextsAscend, HasTheWires
  <2>1. /\ Ascends(t, t.edges[e].src, t.edges[e].tgt) /\ Sources(t, e) \cap Produced(t, Markers(t)) = {}
    BY DEF ContextsAscend
  <2>2. g.edges[e].src = t.edges[e].src /\ g.edges[e].tgt = t.edges[e].tgt /\ Sources(g, e) = Sources(t, e)
        /\ g.labels = t.labels
    BY <1>1, <1>2 DEF HasTheWires
  <2> QED
    BY <2>1, <2>2 DEF Ascends
<1>6. PointersAreCalled(t) => PointersAreCalled(g)
  <2>1. \A w \in OfKind(t, "eval") : g.edges[w].src = t.edges[w].src /\ Sources(g, w) = Sources(t, w)
    BY <1>1, <1>2 DEF HasTheWires
  <2>2. \A m \in Names(t) : Targets(g, m) = Targets(t, m)
    BY <1>1, <1>2 DEF HasTheWires
  <2>3. \A e \in EdgesOf(t) : g.edges[e].src = t.edges[e].src /\ Sources(g, e) = Sources(t, e)
    BY <1>1 DEF HasTheWires
  <2>4. \A e \in EdgesOf(t) : t.edges[e].k = "eval" => g.edges[e].k = "eval"
    BY <1>1 DEF HasTheWires, OfKind
  <2>5. /\ EdgesOf(g) = EdgesOf(t) /\ Names(g) = Names(t) /\ OfKind(g, "eval") = OfKind(t, "eval")
        /\ g.targets = t.targets
    BY <1>1 DEF HasTheWires
  <2> QED
    BY <1>3, <2>1, <2>2, <2>3, <2>4, <2>5 DEF PointersAreCalled
<1>7. IsWired(t) => IsWired(g)
  BY <1>1, <1>3, <1>4 DEF IsWired, HasTheWires
<1> QED
  BY <1>1, <1>4, <1>5, <1>6, <1>7 DEF IsAscendingWired, IsFunction, HasTheWires

WireInv ==
  /\ status # "done" => /\ IsAscendingWired(term)
                        /\ \A i \in DOMAIN functions : IsFunction(functions[i])
  /\ WiresAreMade

LEMMA ConvertReplaces ==
  ASSUME ConvInv, Convert
  PROVE  /\ \E place, k : IsReplacement(Spliced(term, Selected, SelectedValue), term, Selected, SelectedValue,
                                        place, k)
         /\ term' = Rewritten(Spliced(term, Selected, SelectedValue))
<1> DEFINE t == term
           r == Selected
           v == SelectedValue
           g == Spliced(t, r, v)
           place == Ascending(Kept(t, r))
           k == Cardinality(Kept(t, r))
<1>1. /\ IsRegion(t, r) /\ HasItsNames(t, r) /\ IsValue(t, r, v) /\ IsGraph(t) /\ ~HasDeletedBoundary(t, r)
  BY ConvertParts
<1>2. /\ Scheduled /\ status = "scheduling" /\ term' = Rewritten(g)
  BY DEF Convert, Scheduled
<1>3. HasItsEnds(t, r) /\ \A n \in Produced(t, Markers(t)) : n \notin r.environment
  BY <1>1, <1>2, SelectedEnds
<1>4. MarkersMakeAlone(t) /\ ~InvalidMarker(t)
  BY <1>2 DEF ConvInv, NameInv, RegionInv
<1>5. HasItsWires(t, r, v)
  <2>1. Selected \in regions
    BY <1>2, SelectedRegion
  <2>2. LastNode \in Nat /\ \A n \in DOMAIN term.labels : n <= LastNode
    BY <2>1, LastNodes
  <2>3. Len(functions) \in Nat
    BY Lists DEF ConvInv, GraphInv
  <2> QED
    BY <1>1, <2>2, <2>3, ValueWires DEF SelectedValue
<1>6. IsGraph(g)
  BY <1>1, SplicedParts
<1>7. KeepsWires(g, t, r, v, place, k) /\ KeepsNodes(g, t, r, v)
  BY <1>1, <1>4, SplicedWires, SplicedNodes
<1> HIDE DEF r, v, g, t, place, k
<1>8. KeepsKinds(g, t, r, place, k)
  BY <1>1, <1>7, KeptKinds
<1>9. IsReplacement(g, t, r, v, place, k)
  BY <1>1, <1>3, <1>4, <1>5, <1>6, <1>7, <1>8 DEF IsReplacement
<1> QED
  BY <1>2, <1>9 DEF r, v, g, t

LEMMA ConvertWires ==
  ASSUME ConvInv, WireInv, Convert
  PROVE  WireInv'
<1> DEFINE g == Spliced(term, Selected, SelectedValue)
<1>1. /\ status' = "discovering" /\ IsAscendingWired(term)
      /\ \A i \in DOMAIN functions : IsFunction(functions[i])
  BY DEF Convert, Scheduled, WireInv
<1>2. PICK place, k : IsReplacement(g, term, Selected, SelectedValue, place, k)
  BY ConvertReplaces
<1>3. term' = Rewritten(g)
  BY ConvertReplaces
<1> HIDE DEF g
<1>4. IsAscendingWired(g)
  BY <1>1, <1>2, ReplacedWired, ReplacedPointers, ReplacedContexts DEF IsAscendingWired
<1>5. IsGraph(g)
  BY <1>2 DEF IsReplacement
<1>6. IsAscendingWired(term')
  BY <1>3, <1>4, <1>5, RewrittenParts, ConvertedIsWired
<1>7. IsFunction(BuildBody(term, Selected))
  <2>1. /\ IsGraph(term) /\ IsRegion(term, Selected) /\ HasItsEnds(term, Selected)
    BY <1>2 DEF IsReplacement
  <2>2. ~HasUnnamedEval(term, Selected)
    BY ConvertParts
  <2> QED
    BY <1>1, <2>1, <2>2, BodyIsFunction DEF IsAscendingWired
<1>8. \A i \in DOMAIN functions' : IsFunction(functions'[i])
  <2>1. \A f \in Range(functions') : f = BuildBody(term, Selected) \/ f \in Range(functions)
    BY AppendedFunctions
  <2>2. \A f \in Range(functions) : IsFunction(f)
    BY <1>1 DEF Range
  <2>3. \A i \in DOMAIN functions' : functions'[i] \in Range(functions')
    BY DEF Range
  <2> QED
    BY <1>7, <2>1, <2>2, <2>3
<1> QED
  BY <1>1, <1>6, <1>8 DEF WireInv, WiresAreMade

-----------------------------------------------------------------------------
\* Each wire is made once: what erasing projections merges.

\* Every join is of a projected node, which is joined once, and a lower one.
AreJoins(joins, t) ==
  /\ \A i \in 1..Len(joins) :
       /\ joins[i][2] < joins[i][1]
       /\ \E e \in OfKind(t, "context") : joins[i][1] \in Targets(t, e) /\ joins[i][2] \in Sources(t, e)
  /\ \A i, j \in 1..Len(joins) : joins[i][1] = joins[j][1] => i = j
  /\ \A e \in OfKind(t, "context") : \A n \in Targets(t, e) :
       t.labels[n] = "static" \/ \E i \in 1..Len(joins) : joins[i][1] = n

LEMMA JoinsOfContexts ==
  ASSUME NEW t, IsGraph(t), IsSupplied(t), ContextsAscend(t)
  PROVE  AreJoins(ContextJoins(t), t)
<1> DEFINE D == DOMAIN t.labels
           X == D \X D
           C == OfKind(t, "context")
           contexts == Ascending(C)
           c == Cardinality(C)
           parts == [i \in DOMAIN contexts |-> ContextWires(t, contexts[i])]
           joins == FlattenSeq(parts)
           h == [x \in X |-> x[1]]
<1>1. joins = ContextJoins(t)
  BY DEF ContextJoins
<1>2. C \subseteq EdgesOf(t) /\ C \subseteq Nat /\ IsFiniteSet(C)
  <2>1. C \subseteq EdgesOf(t)
    BY DEF OfKind
  <2> HIDE DEF C
  <2> QED
    BY <2>1, EdgesFinite
<1>3. /\ DOMAIN contexts = 1..c /\ c \in Nat
      /\ \A i \in 1..c : contexts[i] \in C
      /\ \A i, j \in 1..c : contexts[i] = contexts[j] => i = j
      /\ \A e \in C : \E i \in 1..c : contexts[i] = e
  <2> HIDE DEF C
  <2> QED
    BY <1>2, AscendingList, AscendingPlaces
<1> HIDE DEF contexts, c
<1>4. ASSUME NEW i \in 1..c
      PROVE  /\ parts[i] \in Seq(X) /\ IsWiring(parts[i], t, contexts[i]) /\ contexts[i] \in C
             /\ contexts[i] \in EdgesOf(t)
  <2>1. parts[i] = ContextWires(t, contexts[i]) /\ contexts[i] \in C /\ contexts[i] \in EdgesOf(t)
    BY <1>2, <1>3
  <2>2. Ascends(t, t.edges[contexts[i]].src, t.edges[contexts[i]].tgt)
    BY <2>1 DEF ContextsAscend
  <2>3. /\ ContextWires(t, contexts[i]) \in Seq(X)
        /\ IsWiring(ContextWires(t, contexts[i]), t, contexts[i])
    BY <2>1, <2>2, ContextPairs
  <2> QED
    BY <2>1, <2>3
<1>5. Counts(parts, c)
  BY <1>3 DEF Counts
<1> HIDE DEF parts, C
<1>6. parts \in Seq(Seq(X)) /\ Len(parts) = c
  <2> DEFINE S == Seq(X)
  <2>1. \A i \in 1..c : parts[i] \in S
    BY <1>4
  <2> HIDE DEF S
  <2>2. parts \in Seq(S) /\ Len(parts) = c
    BY <1>3, <1>5, <2>1, Counted
  <2> QED
    BY <2>2 DEF S
<1>7. ASSUME NEW i \in 1..c, NEW k \in 1..Len(parts[i])
      PROVE  /\ parts[i][k] \in X /\ h[parts[i][k]] = parts[i][k][1]
             /\ parts[i][k][1] \in Targets(t, contexts[i]) /\ parts[i][k][2] \in Sources(t, contexts[i])
  <2> DEFINE q == parts[i]
  <2>1. q \in Seq(X) /\ IsWiring(q, t, contexts[i])
    BY <1>4
  <2> HIDE DEF q, X
  <2>2. q[k] \in X /\ q[k][1] \in Targets(t, contexts[i]) /\ q[k][2] \in Sources(t, contexts[i])
    BY <2>1 DEF IsWiring, q
  <2> QED
    BY <2>2 DEF q
<1>8. ASSUME NEW i \in 1..c, NEW j \in 1..c, NEW k \in 1..Len(parts[i]), NEW l \in 1..Len(parts[j]),
             h[parts[i][k]] = h[parts[j][l]]
      PROVE  i = j /\ k = l
  <2>1. parts[i][k][1] = parts[j][l][1]
    BY <1>7, <1>8
  <2>2. contexts[i] = contexts[j]
    <3>1. Targets(t, contexts[i]) \cap Targets(t, contexts[j]) # {}
      BY <1>7, <2>1
    <3> QED
      BY <1>4, <3>1 DEF IsSupplied
  <2>3. i = j
    BY <1>3, <2>2
  <2> QED
    BY <1>4, <2>1, <2>3 DEF IsWiring
<1>9. IsRowApart(joins, parts, h)
  <2> HIDE DEF h, X
  <2> QED
    BY <1>6, <1>8, FlattenedApart
<1>10. joins \in Seq(X) /\ \A i \in 1..c : Range(parts[i]) \subseteq Range(joins)
  <2> HIDE DEF X
  <2> QED
    BY <1>6, Flattened
<1> HIDE DEF joins
<1>11. ASSUME NEW m \in 1..Len(joins)
       PROVE  \E e \in C : joins[m][1] \in Targets(t, e) /\ joins[m][2] \in Sources(t, e)
  <2>1. PICK i \in 1..c : \E k \in 1..Len(parts[i]) : joins[m] = parts[i][k]
    BY <1>6, <1>9 DEF IsRowApart
  <2>2. PICK k \in 1..Len(parts[i]) : joins[m] = parts[i][k]
    BY <2>1
  <2>3. parts[i][k][1] \in Targets(t, contexts[i]) /\ parts[i][k][2] \in Sources(t, contexts[i])
    BY <1>7
  <2> QED
    BY <1>3, <2>2, <2>3
<1>12. ASSUME NEW m \in 1..Len(joins) PROVE joins[m][2] < joins[m][1]
  <2>1. PICK e \in C : joins[m][1] \in Targets(t, e) /\ joins[m][2] \in Sources(t, e)
    BY <1>11
  <2> QED
    BY <2>1 DEF ContextsAscend, Ascends, Targets, Sources, C
<1>13. ASSUME NEW m \in 1..Len(joins), NEW n \in 1..Len(joins), joins[m][1] = joins[n][1]
       PROVE  m = n
  <2>1. h[joins[m]] = h[joins[n]]
    <3>1. joins[m] \in X /\ joins[n] \in X
      BY <1>10
    <3> QED
      BY <1>13, <3>1
  <2> HIDE DEF h
  <2> QED
    BY <1>9, <2>1 DEF IsRowApart
<1>14. ASSUME NEW e \in C, NEW n \in Targets(t, e), t.labels[n] # "static"
       PROVE  \E m \in 1..Len(joins) : joins[m][1] = n
  <2>1. PICK i \in 1..c : contexts[i] = e
    BY <1>3
  <2>2. PICK k \in 1..Len(parts[i]) : parts[i][k][1] = n
    BY <1>4, <1>14, <2>1 DEF IsWiring
  <2>3. parts[i][k] \in Range(joins)
    <3> DEFINE q == parts[i]
    <3>1. q \in Seq(X) /\ Range(q) \subseteq Range(joins)
      BY <1>4, <1>10
    <3> HIDE DEF q, X
    <3>2. q[k] \in Range(q)
      BY <3>1, <2>2 DEF Range, q
    <3> QED
      BY <3>1, <3>2 DEF q
  <2>4. PICK m \in 1..Len(joins) : joins[m] = parts[i][k]
    BY <1>10, <2>3 DEF Range
  <2> QED
    BY <2>2, <2>4
<1>15. AreJoins(joins, t)
  BY <1>11, <1>12, <1>13, <1>14 DEF AreJoins, C
<1> QED
  BY <1>1, <1>15

\* A node is merged into the end of the chain of joins that begins at it.
IsChained(rep, D, joins, i) ==
  /\ rep \in [D -> D]
  /\ \A n \in D : rep[n] <= n
  /\ \A n \in D : rep[n] = n \/ \E j \in 1..i : rep[n] = joins[j][2]
  /\ \A n \in D : \A j \in 1..i : rep[n] # joins[j][1]
  /\ \A n \in D : (\A j \in 1..i : n # joins[j][1]) => rep[n] = n

LEMMA ChainedNext ==
  ASSUME NEW D, D \subseteq Nat, NEW joins, NEW i, i \in Nat, NEW rep, IsChained(rep, D, joins, i),
         joins[i + 1][1] \in D, joins[i + 1][2] \in D, joins[i + 1][2] < joins[i + 1][1],
         \A j \in 1..i : joins[j][1] # joins[i + 1][1]
  PROVE  IsChained(MergedNext(D, rep, joins[i + 1]), D, joins, i + 1)
<1> DEFINE a == joins[i + 1][1]
           b == joins[i + 1][2]
           x == rep[b]
           S == {rep[a], rep[b]}
           next == MergedNext(D, rep, joins[i + 1])
<1>1. /\ rep[a] = a /\ x <= b /\ x \in D /\ a \in D /\ b \in D /\ a \in Nat /\ b \in Nat /\ x \in Nat /\ b < a
  BY DEF IsChained
<1>2. x # a /\ S = {a, x} /\ x < a
  BY <1>1
<1>3. Min(S) = x
  <2>1. S \subseteq Nat /\ S # {}
    BY <1>1, <1>2
  <2> HIDE DEF S
  <2>2. Min(S) \in S /\ \A n \in S : Min(S) <= n
    BY <2>1, Least
  <2>3. x \in S /\ \A n \in S : n = a \/ n = x
    BY <1>2
  <2> QED
    BY <1>1, <1>2, <2>2, <2>3
<1>4. next = [n \in D |-> IF rep[n] \in S THEN Min(S) ELSE rep[n]]
  BY DEF MergedNext, Merged
<1>5. \A n \in D : next[n] = IF rep[n] = a THEN x ELSE rep[n]
  BY <1>2, <1>3, <1>4
<1>6. next \in [D -> D]
  <2>1. \A n \in D : next[n] \in D
    BY <1>1, <1>5 DEF IsChained
  <2>2. next = [n \in D |-> next[n]]
    BY <1>4
  <2> HIDE DEF next
  <2> QED
    BY <2>1, <2>2
<1> HIDE DEF next, S
<1>7. /\ \A n \in D : n \in Nat /\ rep[n] \in Nat /\ rep[n] <= n
      /\ \A n \in D : rep[n] = n \/ \E j \in 1..i : rep[n] = joins[j][2]
      /\ \A n \in D : \A j \in 1..i : rep[n] # joins[j][1]
      /\ \A n \in D : (\A j \in 1..i : n # joins[j][1]) => rep[n] = n
  BY DEF IsChained
<1>8. \A j \in 1..(i + 1) : j \in 1..i \/ j = i + 1
  OBVIOUS
<1>9. 1..i \subseteq 1..(i + 1) /\ i + 1 \in 1..(i + 1)
  OBVIOUS
<1>10. ASSUME NEW n \in D
       PROVE  /\ next[n] <= n
              /\ next[n] = n \/ \E j \in 1..(i + 1) : next[n] = joins[j][2]
              /\ \A j \in 1..(i + 1) : next[n] # joins[j][1]
              /\ (\A j \in 1..(i + 1) : n # joins[j][1]) => next[n] = n
  <2>1. CASE rep[n] = a
    <3>1. next[n] = x /\ rep[n] <= n /\ n \in Nat
      BY <1>5, <1>7, <2>1
    <3>2. next[n] <= n
      BY <1>1, <1>2, <2>1, <3>1
    <3>3. \E j \in 1..(i + 1) : next[n] = joins[j][2]
      <4>1. CASE x = b
        BY <1>9, <3>1, <4>1
      <4>2. CASE x # b
        BY <1>1, <1>7, <1>9, <3>1, <4>2
      <4> QED
        BY <4>1, <4>2
    <3>4. \A j \in 1..(i + 1) : next[n] # joins[j][1]
      BY <1>1, <1>2, <1>7, <1>8, <3>1
    <3>5. (\A j \in 1..(i + 1) : n # joins[j][1]) => next[n] = n
      <4> SUFFICES ASSUME \A j \in 1..(i + 1) : n # joins[j][1] PROVE FALSE
        OBVIOUS
      <4>1. rep[n] = n /\ n # a
        BY <1>7, <1>9
      <4> QED
        BY <2>1, <4>1
    <3> QED
      BY <3>2, <3>3, <3>4, <3>5
  <2>2. CASE rep[n] # a
    <3>1. next[n] = rep[n]
      BY <1>5, <2>2
    <3>2. \A j \in 1..(i + 1) : next[n] # joins[j][1]
      BY <1>7, <1>8, <2>2, <3>1
    <3> QED
      BY <1>7, <1>9, <3>1, <3>2
  <2> QED
    BY <2>1, <2>2
<1>11. IsChained(next, D, joins, i + 1)
  BY <1>6, <1>10 DEF IsChained
<1> QED
  BY <1>11 DEF next

LEMMA MergedChain ==
  ASSUME NEW D, D \subseteq Nat, NEW joins, joins \in Seq(D \X D), NEW f, Merging(D, joins, f),
         \A i \in 1..Len(joins) : joins[i][2] < joins[i][1],
         \A i, j \in 1..Len(joins) : joins[i][1] = joins[j][1] => i = j
  PROVE  IsChained(f[Len(joins)], D, joins, Len(joins))
<1> DEFINE N == Len(joins)
<1>1. N \in Nat /\ \A i \in 1..N : joins[i][1] \in D /\ joins[i][2] \in D
  OBVIOUS
<1>2. \A i \in 1..N : joins[i][2] < joins[i][1]
  OBVIOUS
<1>3. \A i, j \in 1..N : joins[i][1] = joins[j][1] => i = j
  OBVIOUS
<1> HIDE DEF N
<1>4. /\ f[0] = [n \in D |-> n]
      /\ \A i \in 0..N : i # 0 => f[i] = MergedNext(D, f[i - 1], joins[i])
  <2> DEFINE value(i) == IF i = 0 THEN [n \in D |-> n] ELSE MergedNext(D, f[i - 1], joins[i])
  <2>1. f = [i \in 0..N |-> value(i)]
    BY DEF Merging, N
  <2>2. \A i \in 0..N : f[i] = value(i)
    <3> HIDE DEF value
    <3> QED
      BY <2>1
  <2>3. f[0] = value(0)
    BY <1>1, <2>2
  <2> QED
    BY <2>2, <2>3
<1> DEFINE bad == {i \in 0..N : ~IsChained(f[i], D, joins, i)}
<1>5. bad = {}
  <2> SUFFICES ASSUME bad # {} PROVE FALSE
    OBVIOUS
  <2>1. PICK k \in bad : \A m \in bad : k <= m
    <3>1. bad \subseteq Nat
      OBVIOUS
    <3> QED
      BY <3>1, LeastNat
  <2>2. k # 0
    <3> DEFINE g == f[0]
    <3>1. g \in [D -> D] /\ \A n \in D : g[n] = n /\ n \in Nat
      BY <1>4
    <3>2. 1..0 = {}
      OBVIOUS
    <3> HIDE DEF g
    <3>3. IsChained(g, D, joins, 0)
      BY <3>1, <3>2 DEF IsChained
    <3> QED
      BY <2>1, <3>3 DEF g
  <2>3. k \in 0..N /\ k - 1 \in 0..N /\ k - 1 \in Nat /\ (k - 1) + 1 = k /\ k \in 1..N
    BY <1>1, <2>2
  <2> DEFINE i == k - 1
             rep == f[i]
  <2>4. i \in 0..N /\ i \in Nat /\ i + 1 = k /\ ~(k <= i)
    BY <2>3
  <2> HIDE DEF i
  <2>5. IsChained(rep, D, joins, i)
    <3>1. i \notin bad
      <4> HIDE DEF bad
      <4> QED
        BY <2>1, <2>4
    <3> QED
      BY <2>4, <3>1
  <2>6. f[k] = MergedNext(D, rep, joins[i + 1])
    <3>1. k - 1 = i
      BY DEF i
    <3> QED
      BY <1>4, <2>2, <2>3, <2>4, <3>1
  <2>7. i + 1 \in 1..N /\ \A j \in 1..i : j \in 1..N /\ j # i + 1
    BY <1>1, <2>3, <2>4
  <2>8. /\ joins[i + 1][1] \in D /\ joins[i + 1][2] \in D /\ joins[i + 1][2] < joins[i + 1][1]
        /\ \A j \in 1..i : joins[j][1] # joins[i + 1][1]
    BY <1>1, <1>2, <1>3, <2>7
  <2> HIDE DEF rep, bad
  <2>9. IsChained(MergedNext(D, rep, joins[i + 1]), D, joins, i + 1)
    BY <2>4, <2>5, <2>8, ChainedNext
  <2>10. ~IsChained(f[k], D, joins, k)
    BY <2>1 DEF bad
  <2> QED
    BY <2>4, <2>6, <2>9, <2>10
<1>6. N \in 0..N
  BY <1>1
<1>7. IsChained(f[N], D, joins, N)
  BY <1>5, <1>6
<1> QED
  BY <1>7 DEF N

-----------------------------------------------------------------------------
\* Each wire is made once: at the end of the pass.

\* What is left has each wire that is used made once, or given.
HasMadeWires(t) ==
  \A n \in Consumed(t, EdgesOf(t)) \cup Range(t.targets) :
    LET made == {e \in EdgesOf(t) : n \in Targets(t, e)}
    IN IF n \in Range(t.sources) THEN made = {}
       ELSE Cardinality(made) = 1 \/ (made = {} /\ t.labels[n] = "static")

LEMMA SuppliedIsMade ==
  ASSUME NEW t, IsSupplied(t), Markers(t) = {}
  PROVE  HasMadeWires(t)
<1> SUFFICES ASSUME NEW n, n \in Consumed(t, EdgesOf(t)) \cup Range(t.targets)
             PROVE  LET made == {e \in EdgesOf(t) : n \in Targets(t, e)}
                    IN IF n \in Range(t.sources) THEN made = {}
                       ELSE Cardinality(made) = 1 \/ (made = {} /\ t.labels[n] = "static")
  BY DEF HasMadeWires
<1> DEFINE made == {e \in EdgesOf(t) : n \in Targets(t, e)}
<1>1. Inputs(t) = Range(t.sources) /\ HasSupply(t, n)
  BY DEF Inputs, Domains, IsSupplied, Used
<1>2. CASE n \in Range(t.sources)
  <2>1. n \notin Produced(t, EdgesOf(t))
    BY <1>1, <1>2 DEF IsSupplied
  <2>2. made = {}
    BY <2>1 DEF Produced
  <2> QED
    BY <1>2, <2>2
<1>3. CASE n \notin Range(t.sources) /\ made = {}
  <2>1. n \notin Produced(t, EdgesOf(t))
    BY <1>3 DEF Produced
  <2>2. t.labels[n] = "static"
    BY <1>1, <1>3, <2>1 DEF HasSupply
  <2> QED
    BY <1>3, <2>2
<1>4. CASE n \notin Range(t.sources) /\ made # {}
  <2>1. PICK e \in made : TRUE
    BY <1>4
  <2>2. \A f \in made : f = e
    BY <2>1 DEF IsSupplied
  <2>3. made = {e}
    <3> HIDE DEF made
    <3> QED
      BY <2>1, <2>2
  <2>4. Cardinality(made) = 1
    BY <2>3, FS_Singleton
  <2> QED
    BY <1>4, <2>4
<1> QED
  BY <1>2, <1>3, <1>4

LEMMA ThroughRange ==
  ASSUME NEW rep, NEW X, NEW ns, ns \in Seq(X)
  PROVE  Range(Through(rep, ns)) = {rep[n] : n \in Range(ns)}
BY DEF Through, Range

\* Erasing projections leaves each wire made once, or given.
LEMMA ErasedIsFunction ==
  ASSUME NEW t, IsGraph(t), IsFunction(t)
  PROVE  HasMadeWires(Erased(t))
<1> DEFINE g == Erased(t)
           D == DOMAIN t.labels
           C == OfKind(t, "context")
           L == Lasting(t)
           k == Cardinality(L)
           place == Ascending(L)
           joins == ContextJoins(t)
<1>1. /\ HasEdgesAt(g, t, L) /\ joins \in Seq(D \X D) /\ D \subseteq Nat
      /\ IsSupplied(t) /\ ContextsAscend(t) /\ Markers(t) = {}
  BY ErasedParts DEF IsFunction, IsGraph
<1>2. PICK f : IsErasedBy(g, t, f)
  BY ErasedParts
<1> DEFINE rep == f[Len(joins)]
<1>3. AreJoins(joins, t)
  BY <1>1, JoinsOfContexts
<1>4. L \subseteq EdgesOf(t) /\ L \subseteq Nat /\ IsFiniteSet(L)
  <2>1. L \subseteq EdgesOf(t)
    BY DEF Lasting
  <2> HIDE DEF L
  <2> QED
    BY <2>1, EdgesFinite
<1>5. /\ k \in Nat /\ \A i \in 1..k : place[i] \in L
      /\ \A i, j \in 1..k : place[i] = place[j] => i = j
      /\ \A e \in L : \E i \in 1..k : place[i] = e
  BY <1>4, AscendingPlaces
<1>6. IsChained(rep, D, joins, Len(joins))
  <2>1. Merging(D, joins, f)
    BY <1>2 DEF IsErasedBy
  <2>2. /\ \A i \in 1..Len(joins) : joins[i][2] < joins[i][1]
        /\ \A i, j \in 1..Len(joins) : joins[i][1] = joins[j][1] => i = j
    BY <1>3 DEF AreJoins
  <2> HIDE DEF joins, D
  <2> QED
    BY <1>1, <2>1, <2>2, MergedChain
<1>7. IsGraph(g) /\ EdgesOf(g) = 1..k /\ \A i \in 1..k : g.edges[i].k = t.edges[place[i]].k
  BY <1>1 DEF HasEdgesAt, EdgesOf
<1>8. /\ DOMAIN g.labels = Range(rep) /\ \A n \in Range(rep) : g.labels[n] = t.labels[n]
      /\ g.sources = Through(rep, t.sources) /\ g.targets = Through(rep, t.targets)
      /\ \A i \in 1..k : /\ g.edges[i].src = Through(rep, t.edges[place[i]].src)
                         /\ g.edges[i].tgt = Through(rep, t.edges[place[i]].tgt)
  BY <1>2 DEF IsErasedBy, IsPutThrough
<1>9. /\ Range(g.sources) = {rep[n] : n \in Range(t.sources)}
      /\ Range(g.targets) = {rep[n] : n \in Range(t.targets)}
      /\ \A i \in 1..k : /\ Sources(g, i) = {rep[n] : n \in Sources(t, place[i])}
                         /\ Targets(g, i) = {rep[n] : n \in Targets(t, place[i])}
  <2>1. t.sources \in Seq(D) /\ t.targets \in Seq(D)
    BY DEF IsGraph
  <2>2. \A e \in L : t.edges[e].src \in Seq(D) /\ t.edges[e].tgt \in Seq(D)
    BY <1>4, GraphParts
  <2> HIDE DEF rep, L, place, k, g, D
  <2> QED
    BY <1>5, <1>8, <2>1, <2>2, ThroughRange DEF Sources, Targets
<1> HIDE DEF rep, joins, place, k, g
<1>10. \A j \in 1..Len(joins) : \E e \in C : joins[j][1] \in Targets(t, e) /\ joins[j][2] \in Sources(t, e)
  BY <1>3 DEF AreJoins
<1>11. \A n \in D : (\A j \in 1..Len(joins) : n # joins[j][1]) => rep[n] = n
  BY <1>6 DEF IsChained
<1>12. C \subseteq EdgesOf(t) /\ L = EdgesOf(t) \ C
  BY DEF OfKind, Lasting
<1>13. /\ Range(t.sources) \subseteq D /\ Range(t.targets) \subseteq D
       /\ \A e \in EdgesOf(t) : Targets(t, e) \subseteq D /\ Sources(t, e) \subseteq D
  BY GraphParts
<1> HIDE DEF L, C, D
<1>14. Inputs(t) = Range(t.sources)
  BY <1>1 DEF Inputs, Domains
<1>15. \A n \in Range(t.sources) : rep[n] = n
  <2> SUFFICES ASSUME NEW n \in Range(t.sources), NEW j \in 1..Len(joins), n = joins[j][1] PROVE FALSE
    BY <1>11, <1>13
  <2>1. n \in Produced(t, EdgesOf(t))
    BY <1>10, <1>12 DEF Produced
  <2> QED
    BY <1>1, <1>14, <2>1 DEF IsSupplied
<1>16. \A e \in L : \A n \in Targets(t, e) : rep[n] = n
  <2> SUFFICES ASSUME NEW e \in L, NEW n \in Targets(t, e), NEW j \in 1..Len(joins), n = joins[j][1]
               PROVE  FALSE
    BY <1>11, <1>12, <1>13
  <2>1. PICK d \in C : n \in Targets(t, d)
    BY <1>10
  <2> QED
    BY <1>1, <1>12, <2>1 DEF IsSupplied
<1>17. \A i \in 1..k : Targets(g, i) = Targets(t, place[i])
  <2> TAKE i \in 1..k
  <2> DEFINE T == Targets(t, place[i])
  <2>1. \A n \in T : rep[n] = n
    BY <1>5, <1>16
  <2>2. Targets(g, i) = {rep[n] : n \in T}
    BY <1>9
  <2>3. Targets(g, i) = T
    <3> HIDE DEF T
    <3> QED
      BY <2>1, <2>2
  <2> QED
    BY <2>3
<1>18. Range(g.sources) = Range(t.sources)
  BY <1>9, <1>15
<1>19. Markers(g) = {}
  <2> SUFFICES ASSUME NEW i \in 1..k, g.edges[i].k = "marker" PROVE FALSE
    BY <1>7 DEF Markers, OfKind
  <2>1. place[i] \in Markers(t)
    BY <1>5, <1>7, <1>12 DEF Markers, OfKind
  <2> QED
    BY <1>1, <2>1
<1>20. Inputs(g) = Range(g.sources)
  BY <1>19 DEF Inputs, Domains
<1>21. \A i, j \in EdgesOf(g) : i # j => Targets(g, i) \cap Targets(g, j) = {}
  <2> SUFFICES ASSUME NEW i \in 1..k, NEW j \in 1..k, i # j PROVE Targets(g, i) \cap Targets(g, j) = {}
    BY <1>7
  <2>1. place[i] # place[j] /\ place[i] \in EdgesOf(t) /\ place[j] \in EdgesOf(t)
    BY <1>5, <1>12
  <2> QED
    BY <1>1, <1>17, <2>1 DEF IsSupplied
<1>22. Inputs(g) \cap Produced(g, EdgesOf(g)) = {}
  <2>1. Produced(g, EdgesOf(g)) \subseteq Produced(t, EdgesOf(t))
    BY <1>5, <1>7, <1>12, <1>17 DEF Produced
  <2> QED
    BY <1>1, <1>14, <1>18, <1>20, <2>1 DEF IsSupplied
<1>23. ASSUME NEW n \in Used(t)
       PROVE  rep[n] \in Used(t) /\ rep[n] \in Range(rep) /\ \A j \in 1..Len(joins) : rep[n] # joins[j][1]
  <2>1. n \in D
    BY <1>13 DEF Used, Consumed
  <2>2. /\ rep \in [D -> D]
        /\ rep[n] = n \/ \E j \in 1..Len(joins) : rep[n] = joins[j][2]
        /\ \A j \in 1..Len(joins) : rep[n] # joins[j][1]
    BY <1>6, <2>1 DEF IsChained
  <2>3. \A j \in 1..Len(joins) : joins[j][2] \in Used(t)
    BY <1>10, <1>12 DEF Used, Consumed
  <2>4. rep[n] \in Range(rep)
    BY <2>1, <2>2 DEF Range
  <2> QED
    BY <2>2, <2>3, <2>4
<1>24. ASSUME NEW n \in Used(t)
       PROVE  HasSupply(g, rep[n])
  <2> DEFINE m == rep[n]
  <2>1. m \in Used(t) /\ m \in Range(rep) /\ \A j \in 1..Len(joins) : m # joins[j][1]
    BY <1>23
  <2> HIDE DEF m
  <2>2. HasSupply(t, m) /\ g.labels[m] = t.labels[m]
    BY <1>1, <1>8, <2>1 DEF IsSupplied
  <2>3. CASE m \in Inputs(t)
    BY <1>14, <1>18, <1>20, <2>3 DEF HasSupply, m
  <2>4. CASE m \in Produced(t, EdgesOf(t))
    <3>1. PICK e \in EdgesOf(t) : m \in Targets(t, e)
      BY <2>4 DEF Produced
    <3>2. CASE e \in C
      <4>1. t.labels[m] = "static"
        BY <1>3, <2>1, <3>1, <3>2 DEF AreJoins, C
      <4> QED
        BY <2>2, <4>1 DEF HasSupply, m
    <3>3. CASE e \notin C
      <4>1. PICK i \in 1..k : place[i] = e
        BY <1>5, <1>12, <3>3
      <4>2. m \in Targets(g, i) /\ i \in EdgesOf(g)
        BY <1>7, <1>17, <3>1, <4>1
      <4> QED
        BY <4>2 DEF HasSupply, Produced, m
    <3> QED
      BY <3>2, <3>3
  <2>5. CASE t.labels[m] = "static"
    BY <2>2, <2>5 DEF HasSupply, m
  <2> QED
    BY <2>2, <2>3, <2>4, <2>5 DEF HasSupply
<1>25. \A m \in Used(g) : \E n \in Used(t) : m = rep[n]
  <2> TAKE m \in Used(g)
  <2>1. CASE m \in Range(g.targets)
    BY <1>9, <2>1 DEF Used
  <2>2. CASE m \in Consumed(g, EdgesOf(g))
    <3>1. PICK i \in 1..k : m \in Sources(g, i)
      BY <1>7, <2>2 DEF Consumed
    <3>2. PICK n \in Sources(t, place[i]) : m = rep[n]
      BY <1>9, <3>1
    <3>3. n \in Used(t)
      BY <1>5, <1>12 DEF Used, Consumed
    <3> QED
      BY <3>2, <3>3
  <2> QED
    BY <2>1, <2>2 DEF Used
<1>26. IsSupplied(g)
  BY <1>21, <1>22, <1>24, <1>25 DEF IsSupplied
<1> QED
  BY <1>19, <1>26, SuppliedIsMade DEF g

LEMMA FinishedIsMade ==
  ASSUME NEW t, IsGraph(t), IsFunction(t)
  PROVE  HasMadeWires(Erased(Converted(t)))
<1> DEFINE c == Converted(t)
<1>1. IsConverted(c, t)
  BY ConvertedParts
<1> HIDE DEF c
<1>2. IsGraph(c) /\ IsFunction(c)
  BY <1>1, ConvertedIsWired DEF IsConverted
<1> QED
  BY <1>2, ErasedIsFunction DEF c

LEMMA FinishWires ==
  ASSUME ConvInv, WireInv, Finish
  PROVE  WireInv'
<1> DEFINE finished(i) == Erased(Converted(functions[i]))
<1>1. /\ status' = "done" /\ term' = Erased(Converted(term)) /\ Markers(term) = {}
      /\ functions' = [i \in DOMAIN functions |-> finished(i)]
      /\ IsGraph(term) /\ \A i \in DOMAIN functions : IsGraph(functions[i])
      /\ IsAscendingWired(term) /\ \A i \in DOMAIN functions : IsFunction(functions[i])
  BY DEF Finish, ConvInv, GraphInv, WireInv
<1>2. IsFunction(term)
  BY <1>1 DEF IsAscendingWired, IsWired, IsFunction
<1>3. HasMadeWires(term')
  BY <1>1, <1>2, FinishedIsMade
<1>4. \A i \in DOMAIN functions : HasMadeWires(finished(i))
  BY <1>1, FinishedIsMade
<1> HIDE DEF finished
<1>5. \A i \in DOMAIN functions' : HasMadeWires(functions'[i])
  BY <1>1, <1>4
<1>6. \A t \in Graphs' : HasMadeWires(t)
  BY <1>3, <1>5 DEF Graphs, Range
<1>7. WiresAreMade'
  BY <1>6 DEF WiresAreMade, HasMadeWires
<1> QED
  BY <1>1, <1>7 DEF WireInv

LEMMA InitWires ==
  ASSUME Init, TermsAreWired
  PROVE  WireInv
<1>1. original \in Terms /\ term = original /\ functions = <<>> /\ status = "discovering"
  BY DEF Init
<1>2. IsForgotten(term) /\ IsWired(term) /\ PointersAreCalled(term)
  BY <1>1, TermsAssumption DEF TermsAreWired
<1>3. OfKind(term, "context") = {}
  <2> DEFINE E == [k : {"op", "eval", "name", "marker"}, n : STRING,
                   src : Seq(DOMAIN term.labels), tgt : Seq(DOMAIN term.labels)]
  <2>1. term.edges \in Seq(E)
    BY <1>2 DEF IsForgotten
  <2>2. \A w \in E : w.k # "context"
    OBVIOUS
  <2> HIDE DEF E
  <2> QED
    BY <2>1, <2>2 DEF OfKind, EdgesOf
<1>4. ContextsAscend(term)
  BY <1>3 DEF ContextsAscend
<1> QED
  BY <1>1, <1>2, <1>4 DEF WireInv, IsAscendingWired, WiresAreMade

LEMMA NextWires ==
  ASSUME ConvInv, WireInv, [Next]_vars
  PROVE  WireInv'
<1>1. CASE Discover
  <2>1. /\ status = "discovering" /\ status' = "scheduling" /\ term' = term /\ functions' = functions
    BY <1>1 DEF Discover
  <2> QED
    BY <2>1 DEF WireInv, WiresAreMade
<1>2. CASE Convert
  BY <1>2, ConvertWires
<1>3. CASE Finish
  BY <1>3, FinishWires
<1>4. CASE UNCHANGED vars
  BY <1>4 DEF vars, WireInv, WiresAreMade, Graphs
<1> QED
  BY <1>1, <1>2, <1>3, <1>4 DEF Next

\* When the pass is done each wire that is used is made once, or given, in the
\* definition and in every generated function, if so it was in the terms, and no
\* pointer that is called there is used for something else.
THEOREM WiresMade == Spec /\ TermsAreWired => []WiresAreMade
<1>1. Init /\ TermsAreWired => WireInv
  BY InitWires
<1>2. WireInv => WiresAreMade
  BY DEF WireInv
<1>3. ConvInv /\ WireInv /\ [Next]_vars => (ConvInv /\ WireInv)'
  BY NextConv, NextWires
<1>4. Init => ConvInv
  BY InitConv
<1> QED
  BY <1>1, <1>2, <1>3, <1>4, PTL DEF Spec
=============================================================================
