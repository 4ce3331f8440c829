------------------------- MODULE MCClosureConversion -------------------------
(***************************************************************************)
(* Programs to convert.  A program is a tree of the combinators of the     *)
(* closed monoidal language; Written makes a source term of it, which      *)
(* ForgetClosures turns into the graph that is converted.                  *)
(***************************************************************************)
EXTENDS ClosureMeaning
F == INSTANCE ForgetClosures

CONSTANTS
  Depth,        \* how deep closures are combined
  Definitions,  \* the definitions with a closure boundary that are called
  Others        \* further closures: none, or SharedPointers

\* A tree of the kind k: n is a name that it has, and w a wire that is given.
Leaf(k, w) == [k |-> k, n |-> "", w |-> w, args |-> <<>>]
Tree(k, n, args) == [k |-> k, n |-> n, w |-> 0, args |-> args]
Wire(i) == Leaf("wire", i)
Pointer(i) == Leaf("pointer", i)
Lift(f) == Tree("lift", f, <<>>)
Defer(x) == Tree("defer", "", <<x>>)
With(a, b) == Tree("with", "", <<a, b>>)     \* tensor a b ; lift name.add
Then(a) == Tree("then", "", <<a>>)           \* a ; lift name.f
Pass(g, a, b) == Tree("pass", g, <<a, b>>)   \* tensor (defer a) b ; lift name.g
Shared(f) == Tree("shared", f, <<>>)         \* let p = name.f in
                                             \*   tensor (defer p) (lift p) ; lift name.apply
Give(a) == Tree("give", "const", <<a>>)      \* evaluate: [x f.] ({([.x] defer) [.f]}
                                             \*   compose run), of a and lift name.const
Use(n, closures, x) == Tree("use", n, Append(closures, x))

\* Both a definition and the body of one that is inlined start from a value
\* (wire 1), the value and the type parameter that naming it gives (wires 2 and
\* 3) and something that they are given (wire 4): a function pointer or a
\* closure.
Start(given) ==
  [objects |-> <<F!Val, F!Val, F!Static, given>>,
   edges |-> <<[k |-> "op", n |-> "named", src |-> <<1>>, tgt |-> <<2, 3>>]>>,
   wire |-> 0, sources |-> <<4, 1>>, targets |-> <<>>]

\* First-order definitions: their types, and whether name.f has a parameter.
Domain(f) ==
  CASE f = "add" -> F!Product(F!Val, F!Val)
    [] f = "apply" -> F!Product(F!Fn(F!Val, F!Val), F!Val)
    [] OTHER -> F!Val
Parameters(f) == IF f = "poly" THEN <<3>> ELSE <<>>

\* The term b with one more edge, whose target is a wire of type o.
Add(b, k, n, src, o) ==
  [b EXCEPT !.objects = Append(@, o),
            !.edges = Append(@, [k |-> k, n |-> n, src |-> src,
                                 tgt |-> <<Len(b.objects) + 1>>])]
Top(b) == Len(b.objects)
Hom(b, w) == b.objects[w].a

\* The term b whose result is its last wire.
AtTop(b) == [b EXCEPT !.wire = Top(b)]

Compose(b, v, w) == Add(b, "compose", "", <<v, w>>, F!Hom(Hom(b, v)[1], Hom(b, w)[2]))
Tensor(b, v, w) ==
  Add(b, "tensor", "", <<v, w>>,
      F!Hom(F!Product(Hom(b, v)[1], Hom(b, w)[1]), F!Product(Hom(b, v)[2], Hom(b, w)[2])))
Deferred(b, w) == Add(b, "defer", "", <<w>>, F!Hom(F!Unit, b.objects[w]))
LiftedPointer(b, w) == Add(b, "lift", "", <<w>>, F!Hom(b.objects[w].a[1], F!Val))

\* name.f on its parameters, and lift of it.
Named(b, f) == Add(b, "name", f, Parameters(f), F!Fn(Domain(f), F!Val))
LiftedTop(b) == LiftedPointer(b, Top(b))
Lifted(b, f) == LiftedTop(Named(b, f))

\* The wire w composed with the last.
ComposedWithTop(b, w) == Compose(b, w, Top(b))

\* The bodies of the definitions with a closure and a value: use the closure;
\* use it in a new closure that captures the value, or that captures what is
\* computed from it; use it beside one that has a type parameter of the body; use
\* it for what a polymorphic function makes of another closure.
Body(g) ==
  LET capturing(x) == Use("fold", <<With(With(Defer(x), Lift("f")), Wire(4))>>, Wire(1))
  IN CASE g = "apply" -> Use("fold", <<Wire(4)>>, Wire(1))
       [] g = "capture" -> capturing(Wire(1))
       [] g = "computed" -> capturing(Use("g", <<>>, Wire(1)))
       [] g = "poly" -> Use("both", <<With(Lift("poly"), Defer(Wire(2))), Wire(4)>>, Wire(1))
       [] g = "give" -> Use("fold", <<Wire(4)>>, Give(Defer(Wire(1))))

RECURSIVE Written(_, _)

\* The edge for the definition g, whose closure is of type o, from the term of its
\* body.
Inlined(g, o, body) ==
  [k |-> "inlined", n |-> g, src |-> <<>>, domain |-> o.a[1],
   body |-> F!Forget([body EXCEPT !.targets = <<body.wire>>])]

\* The call of g, whose closure is of type o, as the next edge of b.
AddCall(b, g, o) ==
  [b EXCEPT !.objects = Append(@, F!Hom(F!Product(o, F!Val), F!Val)),
            !.edges = Append(@, [tgt |-> <<Top(b) + 1>>]
                                  @@ Inlined(g, o, Written(Body(g), Start(o))))]

\* The closure w, whose defer is the last wire, given to g with x.
Passed(b, g, w, x) ==
  ComposedWithTop(AddCall(Tensor(b, Top(b), x), g, b.objects[w]), Top(b) + 1)

\* The pointer p, the last wire of b, given to apply with what p makes of a value.
Applied(b, p) ==
  ComposedWithTop(Lifted(Tensor(LiftedPointer(Deferred(b, p), p), p + 1, p + 2), "apply"), p + 3)

\* What name.f makes of the closure w, whose type is its parameter: no closure is
\* at the declared boundary of f, which is not inlined.
Given(b, f, w) ==
  LET parameter == Add(Deferred(b, w), "op", "type", <<>>, F!Static)
      named == Add(parameter, "name", f, <<Top(parameter)>>, F!Fn(b.objects[w], F!Val))
      closure == ComposedWithTop(LiftedTop(named), Top(b) + 1)
  IN Add(closure, "run", "", <<Top(closure)>>, F!Val)

\* The node of a tree whose arguments are the wires ws of the term b.
Made(tree, b, ws) ==
  CASE tree.k = "wire" -> [b EXCEPT !.wire = tree.w]
    [] tree.k = "lift" -> AtTop(Lifted(b, tree.n))
    [] tree.k = "pointer" -> AtTop(LiftedPointer(b, tree.w))
    [] tree.k = "shared" -> AtTop(Applied(Named(b, tree.n), Top(b) + 1))
    [] tree.k = "defer" -> AtTop(Deferred(b, ws[1]))
    [] tree.k = "then" -> AtTop(ComposedWithTop(Lifted(b, "f"), ws[1]))
    [] tree.k = "with" ->
         AtTop(ComposedWithTop(Lifted(Tensor(b, ws[1], ws[2]), "add"), Top(b) + 1))
    [] tree.k = "pass" -> AtTop(Passed(Deferred(b, ws[1]), tree.n, ws[1], ws[2]))
    [] tree.k = "give" -> AtTop(Given(b, tree.n, ws[1]))
    [] tree.k = "use" -> AtTop(Add(b, "op", tree.n, ws, F!Val))

\* The tree at the end of the term b, its arguments one after the other.
Written(tree, b) ==
  LET write(before, a) ==
        LET now == Written(a, before.b)
        IN [b |-> now, ws |-> Append(before.ws, now.wire)]
      made(args) == Made(tree, args.b, args.ws)
  IN made(FoldLeft(write, [b |-> b, ws |-> <<>>], tree.args))

Definition(tree) ==
  LET whole(b) == F!Forget([b EXCEPT !.targets = <<b.wire, 2>>])
  IN whole(Written(tree, Start(F!Fn(F!Val, F!Val))))

Simple == {Lift("f"), Lift("poly"), Pointer(4), Defer(Wire(2))}

RECURSIVE Closures(_)
Closures(d) ==
  IF d = 0 THEN Simple
  ELSE LET smaller == Closures(d - 1)
       IN smaller \cup {Then(a) : a \in smaller}
                  \cup {With(a, b) : a \in smaller, b \in Simple}
                  \cup {Pass(g, a, b) : g \in Definitions, a \in smaller, b \in Simple}

Programs == {Use("fold", <<a>>, Wire(1)) : a \in Closures(Depth) \cup Others}
              \cup {Use("both", <<a, b>>, Wire(1)) : a \in Closures(1), b \in Simple}

\* A closure that calls a function and passes on the pointer to it.
SharedPointers == {Shared("f")}

ProgramTerms == {Definition(p) : p \in Programs}

\* A closure is given to a function that is not inlined.
GivesClosure(t) == \E e \in EdgesOf(t) : t.edges[e].n = "const"

\* What the theorems start from holds of the programs: all of it of those that give
\* no closure to an eval and share no pointer.
ASSUME ProgramsAssumption ==
  /\ TermsAreMarked
  /\ \A t \in Terms : IsWired(t)
  /\ Others = {} => \A t \in Terms : GivesClosure(t) \/ PointersAreCalled(t)
=============================================================================
