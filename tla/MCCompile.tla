------------------------------ MODULE MCCompile ------------------------------
(***************************************************************************)
(* Programs to compile: operations with a definition that applies one of   *)
(* them to its inputs in two steps, and programs with a fault or with uses *)
(* of generated operations in every order.                                 *)
(***************************************************************************)
EXTENDS CompileMeaning

\* A type map with c metavariables, its operations and its targets.
Map(c, operations, targets) ==
  [AddOperations(Wires(c), [i \in DOMAIN operations |-> <<Op(operations[i][1]), operations[i][2]>>])
     EXCEPT !.targets = targets]

Primitive(source, target) == Arrow(source, target, <<>>)
Def(source, target, body) == Arrow(source, target, <<body>>)

\* stdlib/metacat/cmc.hex, with products and units.
Cmc ==
  Op("defer") :> Primitive(Map(1, <<>>, <<1>>), Map(1, <<<<"1", <<>>>>, <<"=>", <<2, 1>>>>>>, <<3>>))
  @@ Op("run") :> Primitive(Map(1, <<<<"1", <<>>>>, <<"=>", <<2, 1>>>>>>, <<3>>), Map(1, <<>>, <<1>>))
  @@ Op("compose") :> Primitive(Map(3, <<<<"=>", <<1, 2>>>>, <<"=>", <<2, 3>>>>>>, <<4, 5>>),
                                Map(3, <<<<"=>", <<1, 3>>>>>>, <<4>>))
  @@ Op("tensor") :> Primitive(Map(4, <<<<"=>", <<1, 2>>>>, <<"=>", <<3, 4>>>>>>, <<5, 6>>),
                               Map(4, <<<<"*", <<1, 3>>>>, <<"*", <<2, 4>>>>, <<"=>", <<5, 6>>>>>>, <<7>>))
  @@ Op("lift") :> Primitive(Map(2, <<<<"->", <<1, 2>>>>, <<"val", <<3>>>>>>, <<4>>),
                             Map(2, <<<<"=>", <<1, 2>>>>>>, <<3>>))
  @@ Op("*.intro") :> Primitive(Map(2, <<>>, <<1, 2>>), Map(2, <<<<"*", <<1, 2>>>>>>, <<3>>))
  @@ Op("*.elim") :> Primitive(Map(2, <<<<"*", <<1, 2>>>>>>, <<3>>), Map(2, <<>>, <<1, 2>>))
  @@ Op("unit.intro") :> Primitive(Map(0, <<>>, <<>>), Map(0, <<<<"1", <<>>>>>>, <<1>>))
  @@ Op("unit.elim") :> Primitive(Map(0, <<<<"1", <<>>>>>>, <<1>>), Map(0, <<>>, <<>>))

TypeNames == {"1", "*", "->", "=>", "val", ":", "u64", "u32", "A", "B", "C", "ix", "split"}
Types == [syntax |-> "nat", arrows |-> [o \in {Op(f) : f \in TypeNames} |-> TypeArrow("0", "1")]]

A == <<"A", <<>>>>
B == <<"B", <<>>>>
C == <<"C", <<>>>>

\* Operations of none to three inputs, with products among them, metavariables
\* that they share, and an operation on types with two results.
Operators ==
  "f0" :> Primitive(Map(0, <<>>, <<>>), Map(0, <<A>>, <<1>>))
  @@ "f1" :> Primitive(Map(0, <<A>>, <<1>>), Map(0, <<B, C>>, <<1, 2>>))
  @@ "f2" :> Primitive(Map(0, <<A, A>>, <<1, 2>>), Map(0, <<B>>, <<1>>))
  @@ "f3" :> Primitive(Map(0, <<A>>, <<1, 1, 1>>), Map(0, <<>>, <<>>))
  @@ "products" :> Primitive(Map(0, <<A, B, <<"*", <<1, 2>>>>, <<"1", <<>>>>, C, <<"*", <<4, 5>>>>>>,
                                 <<3, 4, 6>>),
                             Map(0, <<A, B, <<"*", <<1, 2>>>>, <<"1", <<>>>>, <<"*", <<4, 3>>>>>>,
                                 <<5, 1>>))
  @@ "shared" :> Primitive(Map(2, <<<<"ix", <<1>>>>, <<"ix", <<2>>>>>>, <<4, 3, 3>>),
                           Map(2, <<<<"ix", <<2>>>>>>, <<3>>))
  @@ "split" :> Primitive(Term(<<Edge("op", Op("split"), <<1>>, <<2, 3>>),
                                 Edge("op", Op("ix"), <<3>>, <<4>>)>>,
                               [i \in 1..4 |-> ""], <<1>>, <<2, 4, 3>>),
                          Map(1, <<>>, <<1>>))

Partial(f, n) == Name(<<"partial">>, f, <<n>>)

\* The definition of inputs whose packed rest goes to the closure that the last
\* node of term(t) is.
Running(t, packed) ==
  LET closure == Newest(t)
      run(u) == AddOperations(u, <<<<Op("defer"), <<packed>>>>, <<Op("compose"), <<Newest(u) + 1, closure>>>>,
                                   <<Op("run"), <<Newest(u) + 2>>>>>>)
      ended(u) == [u EXCEPT !.targets = <<Newest(u)>>]
  IN ended(run(t))

Inputs(n) == [Wires(n) EXCEPT !.targets = <<>>]

\* f of its inputs, n of them captured by a partial application.
InTwoSteps(f, n) ==
  LET arrow == Operators[f]
      c == Context(arrow)
      rest == [i \in 1..(Arity(arrow) - n) |-> c + n + i]
      packed == PackNodes(Inputs(c + Arity(arrow)), rest, Op("unit.intro"), Op("*.intro"))
      applied(u) == AddOperation(u, Partial(f, n), [i \in 1..(c + n) |-> i])
  IN Def(PartialSource(SourceMap(arrow), Arity(arrow)), PackTargets(TargetMap(arrow)),
         Running(applied(packed), PackedNode(packed, rest)))

\* Two partial applications side by side on a pair, and a function that is called
\* by its name.
SideBySide ==
  Def(Map(0, <<A>>, <<1, 1, 1, 1>>), Map(0, <<B, <<"*", <<1, 1>>>>>>, <<2>>),
      Running(AddOperations(Inputs(4), <<<<Op("*.intro"), <<3, 4>>>>, <<Partial("f2", 1), <<1>>>>,
                                         <<Partial("f2", 1), <<2>>>>, <<Op("tensor"), <<6, 7>>>>>>),
              5))
ByName ==
  Def(Map(0, <<A>>, <<1>>), Map(0, <<B, C, <<"*", <<1, 2>>>>>>, <<3>>),
      Running(AddOperations(Inputs(1), <<<<NameOf(Op("f1")), <<>>>>, <<Op("lift"), <<2>>>>>>), 1))

\* A definition that returns a partial application, and one that runs it.
Returns == Def(Map(0, <<A>>, <<1>>), Map(0, <<A, B, <<"=>", <<1, 2>>>>>>, <<3>>),
               [AddOperation(Inputs(1), Partial("f2", 1), <<1>>) EXCEPT !.targets = <<2>>])
RunsReturned ==
  Def(Map(0, <<A>>, <<1, 1>>), Map(0, <<B>>, <<1>>),
      Running(AddOperation(Inputs(2), Op("returns"), <<1>>), 2))

\* An operation on products, its results taken apart.
OnProducts ==
  Def(SourceMap(Operators["products"]), Map(0, <<A, B>>, <<1, 1, 2>>),
      LET called == [Inputs(3) EXCEPT !.edges = <<Edge("op", Op("products"), <<1, 2, 3>>, <<4, 5>>),
                                                  Edge("op", Op("*.elim"), <<4>>, <<6, 7>>),
                                                  Edge("op", Op("unit.elim"), <<6>>, <<>>),
                                                  Edge("op", Op("*.elim"), <<7>>, <<8, 9>>)>>]
      IN [called EXCEPT !.labels = [i \in 1..9 |-> ""], !.targets = <<5, 8, 9>>])

SourceFile(path, theories) == [path |-> path, theories |-> theories]
Theory(arrows) == [syntax |-> "type", arrows |-> arrows]
Bundle(extends, file) == [extends |-> extends, files |-> <<file>>]

\* The standard library, a diamond, a ring and a bundle with a gap below it.
Library ==
  "types" :> Bundle(<<>>, SourceFile("types", "type" :> Types))
  @@ "stdlib" :> Bundle(<<"types">>, SourceFile("cmc", "program" :> Theory(Cmc)))
  @@ "base" :> Bundle(<<>>, SourceFile("base", "type" :> Types))
  @@ "left" :> Bundle(<<"base">>, SourceFile("left", "program" :> Theory(Op("f0") :> Operators["f0"])))
  @@ "right" :> Bundle(<<"base">>, SourceFile("right", "program" :> Theory(Op("f1") :> Operators["f1"])))
  @@ "top" :> Bundle(<<"left", "right">>, SourceFile("top", "program" :> Theory(Op("f2") :> Operators["f2"])))
  @@ "ring" :> Bundle(<<"left", "back">>, SourceFile("ring", <<>>))
  @@ "back" :> Bundle(<<"ring">>, SourceFile("back", <<>>))
  @@ "gap" :> Bundle(<<"left", "missing">>, SourceFile("gap", <<>>))

Command(roots, inputs) == [roots |-> roots, inputs |-> inputs]

\* Programs with the operators fs.
OnLibrary(theories) == Command(<<"stdlib">>, <<SourceFile("main", theories)>>)
Program(fs, arrows) ==
  OnLibrary("program" :> Theory(arrows @@ [o \in {Op(f) : f \in fs} |-> Operators[o.f]]))
Main(def) == Op("main") :> def

WellTyped ==
  {Program({f}, Main(InTwoSteps(f, n))) : <<f, n>> \in {p \in (DOMAIN Operators) \X (0..3) :
                                                          p[2] <= Arity(Operators[p[1]])}}
    \cup {Program({"f2"}, Main(SideBySide)), Program({"f1"}, Main(ByName)),
          Program({"products"}, Main(OnProducts)),
          Program({"f2"}, Main(RunsReturned) @@ Op("returns") :> Returns)}

-----------------------------------------------------------------------------
\* Uses of operations, their wires left out, in the definitions "a" and "z".

Using(os) == Def(Map(0, <<>>, <<>>), Map(0, <<>>, <<>>),
                 [Inputs(0) EXCEPT !.edges = [i \in DOMAIN os |-> Edge("op", os[i], <<>>, <<>>)]])

LiteralForms ==
  "wide" :> [hex |-> TRUE, nibbles |-> 16, clean |-> TRUE]
  @@ "narrow" :> [hex |-> TRUE, nibbles |-> 8, clean |-> TRUE]
  @@ "decimal" :> [hex |-> FALSE, nibbles |-> 16, clean |-> TRUE]
  @@ "unclean" :> [hex |-> TRUE, nibbles |-> 16, clean |-> FALSE]

Const(prefix, f) == Name(<<prefix>>, f, <<>>)
TypeLiteral(prefix, f) == Name(<<"type", prefix>>, f, <<>>)

Uses ==
  [n \in 0..3 |-> Partial("f2", n)]
    @@ 4 :> Partial("missing", 1) @@ 5 :> Name(<<"partial">>, "f2", <<>>)
    @@ 6 :> Name(<<"partial", "partial">>, "f2", <<1, 1>>)
    @@ 7 :> Name(<<"name", "partial">>, "f2", <<1>>) @@ 8 :> NameOf(Op("f2"))
    @@ 9 :> Name(<<"partial", "name">>, "f2", <<0>>)
    @@ 10 :> Name(<<"partial", "const.u64">>, "wide", <<0>>)
    @@ 11 :> Name(<<"name", "const.u64">>, "wide", <<>>)
    @@ 12 :> Const("const.u64", "wide") @@ 13 :> TypeLiteral("const.u32", "narrow")
    @@ 14 :> Name(<<"name", "name", "catena">>, "x", <<>>)
    @@ 15 :> Name(<<"name", "catena.partial.identity", "partial">>, "f2", <<1, 0>>)

WithUses ==
  {Program({"f2"}, Op("a") :> Using(<<Uses[p[1]]>>) @@ Op("z") :> Using(<<Uses[p[2]]>>)) :
     p \in {q \in (0..15) \X (0..15) : q[1] <= q[2]}}
    \cup {Program({"f2", "f3"}, Main(InTwoSteps("f3", 2)) @@ Op("a") :> Using(<<Uses[i]>>)) : i \in 0..15}

\* One fault each, or a declaration that is none.
Declaring(arrows) == Program({}, arrows)
Faulty ==
  {Program({"f2"}, Name(<<p>>, "f2", <<>>) :> Operators["f3"]) : p \in ReservedPrefixes}
    \cup {Declaring(Main(Using(<<Const(k, f)>>))) : k \in {"const.u64", "const.u32"}, f \in DOMAIN LiteralForms}
    \cup {Declaring(Main([Using(<<>>) EXCEPT !.labels = <<TypeLiteral(k, f)>>])) :
            k \in {"const.u64", "const.u32"}, f \in DOMAIN LiteralForms}
    \cup {Declaring(Main([Using(<<>>) EXCEPT !.labels = <<Const("catena", "x")>>])),
          Declaring(Main([Using(<<>>) EXCEPT !.reserved = TRUE])),
          Declaring(Main(Def(Map(0, <<A>>, <<1>>), Map(0, <<B>>, <<1>>), Wires(1)))),
          Declaring(Main(Primitive(Map(0, <<>>, <<>>), Map(1, <<>>, <<1>>)))),
          Declaring(Main(Primitive(Map(0, <<<<"unknown", <<>>>>>>, <<1>>), Map(0, <<>>, <<>>)))),
          Command(<<>>, <<SourceFile("main", "program" :> Theory(Cmc))>>),
          Command(<<>>, <<SourceFile("main", "program" :>
                                         Theory(Main(Using(<<TypeLiteral("const.u64", "wide")>>))))>>)}
    \cup {OnLibrary("type" :> [syntax |-> "nat", arrows |-> TypeLiteral("const.u64", "wide") :> declared]
                      @@ "program" :> Theory(Main(Using(<<TypeLiteral("const.u64", "wide")>>)))) :
            declared \in {TypeArrow("0", "1"), TypeArrow("1", "1")}}

-----------------------------------------------------------------------------
\* Bundles that are selected in any order, and files with the arrow "f1": the
\* primitive, a copy, another primitive, a definition and another syntax.

Selections ==
  {Command(roots, <<>>) : roots \in SeqOf({"base", "left", "right", "top", "ring", "gap"}, 2)}

Declaration(path, syntax, arrow) ==
  SourceFile(path, "program" :> [syntax |-> syntax, arrows |-> Op("f1") :> arrow])
Declarations ==
  {Declaration("first", "type", Operators["f1"]), Declaration("copy", "type", Operators["f1"]),
   Declaration("other", "type", Operators["f2"]),
   Declaration("definition", "type", Def(Map(0, <<A>>, <<1>>), Map(0, <<A>>, <<1>>), Wires(1))),
   Declaration("syntax", "other", Operators["f1"])}
Merges == {Command(<<"types">>, inputs) : inputs \in TupleOf(Declarations, 2)}

AllCommands == WellTyped \cup WithUses \cup Faulty \cup Selections \cup Merges
=============================================================================
