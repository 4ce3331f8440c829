------------------------------ MODULE NonStrict ------------------------------
(***************************************************************************)
(* nonstrict.rs: terms between a list of objects and one object that packs *)
(* them, and between an object and the list of its leaves.                 *)
(*                                                                         *)
(* An object is a tree of type operations; i is the output of the          *)
(* operation k that it is, and a metavariable is a leaf.  A term whose     *)
(* nodes are labelled with objects is composed of smaller ones as in       *)
(* open_hypergraphs: side by side, or with the targets of one joined to    *)
(* the sources of the other.                                               *)
(***************************************************************************)
EXTENDS GeneratedArrows

Node(o, i, a) == [k |-> o, i |-> i, a |-> a]
Leaf(i) == Node(Op("leaf"), i, <<>>)

Unit == Node(Op("1"), 0, <<>>)
Product(l, r) == Node(Op("*"), 0, <<l, r>>)
IsUnit(o) == o.k = Op("1") /\ o.a = <<>>
IsProduct(o) == o.k = Op("*")
IsClosure(o) == o.k = Op("=>")

IdentityOn(objects) ==
  LET all == [i \in DOMAIN objects |-> i] IN Term(<<>>, objects, all, all)

\* One operation, its k "op" or "marker".
Singleton(k, o, src, tgt) ==
  LET from == [i \in DOMAIN src |-> i]
      to == [i \in DOMAIN tgt |-> Len(src) + i]
  IN Term(<<Edge(k, o, from, to)>>, src \o tgt, from, to)

Composed(t, u) ==
  LET m == Len(t.targets)
      joined(v) == Quotient([v EXCEPT !.sources = SubSeq(@, 1, Len(t.sources)),
                                      !.targets = SubSeq(@, m + 1, Len(@))],
                            [i \in 1..m |-> <<v.targets[i], v.sources[Len(t.sources) + i]>>])
  IN joined(Beside(t, u))

\* map(o) of each of the objects, side by side.
AllBeside(map(_), objects) ==
  FoldLeft(LAMBDA t, o : Beside(t, map(o)), IdentityOn(<<>>), objects)

-----------------------------------------------------------------------------
RECURSIVE ObjectSize(_), Unflattener(_), PackObjects(_), PackerFor(_)

ObjectSize(o) ==
  CASE IsUnit(o) -> 0
    [] IsProduct(o) -> MapThenSumSet(LAMBDA i : ObjectSize(o.a[i]), DOMAIN o.a)
    [] OTHER -> 1

Intro(o, parts) ==
  Singleton("op", IF parts = <<>> THEN Op("unit.intro") ELSE Op("*.intro"), parts, <<o>>)

Unflattener(o) ==
  CASE IsUnit(o) -> Intro(o, <<>>)
    [] IsProduct(o) ->
         Composed(Beside(Unflattener(o.a[1]), Unflattener(o.a[2])), Intro(o, o.a))
    [] OTHER -> IdentityOn(<<o>>)

Opposite(o) == IF o = Op("*.intro") THEN Op("*.elim") ELSE Op("unit.elim")

\* The mirror image of a term of introductions.
Dual(t) ==
  [t EXCEPT !.edges = [e \in DOMAIN @ |-> Edge(@[e].k, Opposite(@[e].n), @[e].tgt, @[e].src)],
            !.sources = t.targets, !.targets = t.sources]

Flattener(o) == Dual(Unflattener(o))
Flatteners(objects) == AllBeside(Flattener, objects)

PackObjects(objects) ==
  CASE objects = <<>> -> Unit
    [] Len(objects) = 1 -> objects[1]
    [] OTHER -> Product(Head(objects), PackObjects(Tail(objects)))

PackerFor(objects) ==
  CASE objects = <<>> -> Intro(Unit, <<>>)
    [] Len(objects) = 1 -> IdentityOn(objects)
    [] OTHER ->
         Composed(Beside(IdentityOn(<<Head(objects)>>), PackerFor(Tail(objects))),
                  Intro(PackObjects(objects), <<Head(objects), PackObjects(Tail(objects))>>))

Unpacker(objects) == Dual(PackerFor(objects))
=============================================================================
