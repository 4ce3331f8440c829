--------------------------- MODULE ClosureFunctor ---------------------------
(***************************************************************************)
(* pass/forget_closures.rs as the functor that it is: the image of every   *)
(* operation, and of every object, of a term whose nodes are labelled with *)
(* their types.  (ForgetClosures is about the graphs that closure          *)
(* conversion gets, where results have no products.)  A closure becomes    *)
(* the wires of its domain and its codomain; a deferred, composed or run   *)
(* closure becomes nothing but wires that are bent.                        *)
(***************************************************************************)
EXTENDS Products

Part(o, i) == o.a[i]

RECURSIVE Boundary(_)
Boundary(o) ==
  CASE IsUnit(o) -> <<>>
    [] IsProduct(o) \/ IsClosure(o) -> FlattenSeq([i \in DOMAIN o.a |-> Boundary(o.a[i])])
    [] OTHER -> <<o>>

Boundaries(objects) == FlattenSeq([i \in DOMAIN objects |-> Boundary(objects[i])])

\* closure_erased_operation_object: what an operation has in the place of o.
RECURSIVE Erased(_)
Erased(o) ==
  CASE IsProduct(o) -> <<Product(PackObjects(Erased(o.a[1])), PackObjects(Erased(o.a[2])))>>
    [] IsClosure(o) -> Erased(o.a[1]) \o Erased(o.a[2])
    [] OTHER -> <<o>>

ErasedObjects(objects) == FlattenSeq([i \in DOMAIN objects |-> Erased(objects[i])])

-----------------------------------------------------------------------------
\* flip_boundaries.
Flipped(t) == [t EXCEPT !.sources = t.targets, !.targets = t.sources]

\* An adapter from the wires that are left of an object to the objects that an
\* operation has in its place.  Behind the domain of a closure (not positive) it
\* runs backwards.
Adapted(objects, term) == [objects |-> objects, term |-> term]

ProductAdapter(positive, l, r) ==
  IF positive THEN Singleton("op", Op("*.intro"), <<l, r>>, <<Product(l, r)>>)
              ELSE Flipped(Singleton("op", Op("*.elim"), <<Product(l, r)>>, <<l, r>>))

UnitAdapter(positive) ==
  IF positive THEN Singleton("op", Op("unit.intro"), <<>>, <<Unit>>)
              ELSE Flipped(Singleton("op", Op("unit.elim"), <<Unit>>, <<>>))

\* source_adapter_component: the adapter a, its objects packed.
Component(a, positive) ==
  Adapted(<<PackObjects(a.objects)>>,
          Composed(a.term, IF positive THEN PackerFor(a.objects)
                                       ELSE Flipped(Unpacker(a.objects))))

BothAdapted(l, r, term) == Adapted(l.objects \o r.objects, Composed(Beside(l.term, r.term), term))

RECURSIVE SourceAdapter(_, _)
SourceAdapter(o, positive) ==
  LET product(l, r) ==
        [BothAdapted(l, r, ProductAdapter(positive, l.objects[1], r.objects[1]))
           EXCEPT !.objects = <<Product(l.objects[1], r.objects[1])>>]
      closure(l, r) ==
        [BothAdapted(l, r, Singleton("marker", Op("!closure"), l.objects \o r.objects, <<o>>))
           EXCEPT !.objects = <<o>>]
  IN CASE IsProduct(o) -> product(Component(SourceAdapter(o.a[1], positive), positive),
                                  Component(SourceAdapter(o.a[2], positive), positive))
       [] IsUnit(o) -> Adapted(<<o>>, UnitAdapter(positive))
       [] IsClosure(o) -> closure(SourceAdapter(o.a[1], ~positive), SourceAdapter(o.a[2], positive))
       [] OTHER -> Adapted(<<o>>, IdentityOn(<<o>>))

SourceAdapters(objects) ==
  FoldLeft(LAMBDA a, o : LET b == SourceAdapter(o, TRUE)
                         IN Adapted(a.objects \o b.objects, Beside(a.term, b.term)),
           Adapted(<<>>, IdentityOn(<<>>)), objects)

-----------------------------------------------------------------------------
\* Bent wires: both ends of each on the right, or on the left.
Cup(objects) ==
  LET all == [i \in DOMAIN objects |-> i] IN Term(<<>>, objects, <<>>, all \o all)
Cap(objects) ==
  LET all == [i \in DOMAIN objects |-> i] IN Term(<<>>, objects, all \o all, <<>>)

MapStructural(src) == IdentityOn(Boundaries(src))

\* map_non_cmc_operation.
MapOther(o, src, tgt) ==
  LET made(a) == Composed(a.term, Composed(Singleton("op", o, a.objects, ErasedObjects(tgt)),
                                           Flatteners(ErasedObjects(tgt))))
  IN made(SourceAdapters(src))

MapCompose(l, r) ==
  Beside(Beside(IdentityOn(Boundary(Part(l, 1))), Cap(Boundary(Part(l, 2)))),
         IdentityOn(Boundary(Part(r, 2))))

\* Mutant: the wires stay where they were.
MapTensorUncrossed(l, r) == IdentityOn(Boundary(l) \o Boundary(r))

\* The codomain of the first goes behind the domain of the second.
MapTensor(l, r) ==
  LET of(c, i) == Boundary(Part(c, i))
      a == Len(of(l, 1))
      b == a + Len(of(l, 2))
      c == b + Len(of(r, 1))
      span(m, n) == [i \in 1..(n - m) |-> m + i]
      crossed(t) == [t EXCEPT !.targets = span(0, a) \o span(b, c) \o span(a, b)
                                            \o span(c, Len(t.sources))]
  IN crossed(IdentityOn(of(l, 1) \o of(l, 2) \o of(r, 1) \o of(r, 2)))

\* A function pointer, of the type (A -> B) val, as a closure.
MapLift(pointer) ==
  LET function == Part(pointer, 1)
      domain == Boundary(Part(function, 1))
  IN Composed(Beside(Cup(domain), IdentityOn(<<pointer>>)),
              Beside(IdentityOn(domain),
                     MapOther(Op("eval"), <<Part(function, 1), pointer>>, <<Part(function, 2)>>)))

\* ForgetClosures::map_operation; the operations that closure conversion adds
\* itself (catena.context and name of a closure) come later.
MapOperation(edge, src, tgt) ==
  CASE IsForgotten(edge.n) -> MapStructural(src)
    [] edge.n \in {Op("defer"), Op("run")} -> IdentityOn(Boundaries(src))
    [] edge.n = Op("compose") -> MapCompose(src[1], src[2])
    [] edge.n = Op("tensor") -> MapTensor(src[1], src[2])
    [] edge.n = Op("lift") -> MapLift(src[1])
    [] OTHER -> MapOther(edge.n, src, tgt)

ForgetClosures(t) == Mapped(t, Boundary, MapOperation)
=============================================================================
