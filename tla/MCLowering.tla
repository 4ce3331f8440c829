----------------------------- MODULE MCLowering -----------------------------
(***************************************************************************)
(* Programs to lower: definitions on two numbers and a condition, each a   *)
(* short sequence of statements.                                           *)
(***************************************************************************)
EXTENDS LoweringMeaning

\* A statement of the kind k with the function f.
S(k, f) == [k |-> k, f |-> f]

\* A definition whose inputs have the given types, as it is written: x, y and c
\* are the nodes of its numbers and its condition.
Begin(types, x, y, c) ==
  [types |-> types, ins |-> [i \in DOMAIN types |-> i], outs |-> <<>>, code |-> <<>>,
   x |-> x, y |-> y, c |-> c]

\* d with an assignment that has one new node of type ty, or none.
Add(d, k, n, groups, ty) ==
  [d EXCEPT !.types = Append(@, ty),
            !.code = Append(@, [k |-> k, n |-> n, groups |-> groups,
                                tgt |-> <<Len(d.types) + 1>>])]
Added(d) == Len(d.types)

\* The same with new numbers and a new condition.
AddAll(d, k, n, groups) ==
  LET all == Len(d.types)
  IN [d EXCEPT !.types = @ \o <<"u32", "u32", "bool">>,
               !.x = all + 1, !.y = all + 2, !.c = all + 3,
               !.code = Append(@, [k |-> k, n |-> n, groups |-> groups,
                                   tgt |-> <<all + 1, all + 2, all + 3>>])]
All(d) == <<d.x, d.y, d.c>>

One(n) == <<n>>
Named(d, f) == Add(d, "name", f, <<>>, "fn")

\* A launch of the kernel f on what is captured.
AddLaunch(d, f, captures) ==
  LET grid == Add(d, "op", "make_grid", <<One(d.x)>>, "grid")
      named == Named(grid, f)
  IN Add(named, "launch", "", <<One(Added(grid)), captures, One(Added(named))>>, "proof")

\* Branches that capture different numbers.
AddIf(d, yes, no) ==
  AddAll(d, "if", "", <<One(d.c), All(d), One(d.x), One(yes), One(d.y), One(no)>>)

\* d and then the statement s.
Then(d, s) ==
  CASE s.k = "inc" -> LET inc == Add(d, "op", "inc", <<One(d.x)>>, "u32")
                      IN [inc EXCEPT !.x = Added(inc)]
    [] s.k = "swap" -> [d EXCEPT !.x = d.y, !.y = d.x]
    [] s.k \in {"sync", "free", "assert"} -> Add(d, "op", s.k, <<One(d.x)>>, "proof")
    [] s.k = "call" -> AddAll(d, "call", s.f, <<One(d.y), All(d)>>)
    [] s.k = "if" -> LET named == Named(Named(d, "leaf"), s.f)
                     IN AddIf(named, Added(named), Added(named) - 1)
    [] s.k = "fold" -> LET named == Named(d, s.f)
                       IN AddAll(named, "fold", "",
                                 <<One(d.x), All(d), <<>>, One(Added(named))>>)
    [] s.k = "launch" -> AddLaunch(d, "kernel", One(d.x))
    [] s.k = "wide" -> LET wide == Add(d, "op", "widen", <<One(d.x)>>, "u64")
                       IN AddLaunch(wide, "kernel", One(Added(wide)))
    [] s.k = "with" -> LET named == Named(d, s.f)
                       IN AddLaunch(named, "evaluator", <<Added(named), d.x, d.c>>)

Finished(d, outs) == [types |-> d.types, ins |-> d.ins, outs |-> outs, code |-> d.code]
Written(d, statements) ==
  LET w == FoldLeft(Then, d, statements) IN Finished(w, All(w))

-----------------------------------------------------------------------------
\* The definitions.  A callback is given a number, an index or what was captured,
\* and then the numbers and the condition.

Callback == Begin(<<"u32", "u32", "u32", "bool">>, 2, 3, 4)

Leaf ==
  LET add == Add(Callback, "op", "add", <<<<1, 2>>>>, "u32")
  IN Finished(add, <<3, Added(add), 4>>)

Stored(d, x, thread) ==
  LET store == Add(d, "op", "store", <<<<x, thread>>>>, "proof")
  IN Finished(store, One(Added(store)))

Kernel == Stored(Begin(<<"any", "thread">>, 0, 0, 0), 1, 2)

Evaluator ==
  LET d == AddAll(Begin(<<"fn", "u32", "bool", "thread">>, 2, 2, 3), "eval", "",
                  <<<<2, 2, 2, 3>>, One(1)>>)
  IN Stored(d, d.x, 4)

Plain == {S(k, "") : k \in {"inc", "swap", "sync", "free", "assert", "launch", "wide"}}
OfCallback(f) == {S(k, f) : k \in {"call", "if", "fold", "with"}}

\* What main does, and what the callback does that it uses.
Uses == Plain \cup OfCallback("callback") \cup {S("with", "leaf")}
Bodies == Plain \cup OfCallback("leaf") \cup {S("call", "callback")}

Entry == Begin(<<"u32", "u32", "bool">>, 1, 2, 3)

Program(main, callback) ==
  "callback" :> Written(Callback, callback) @@ "leaf" :> Leaf
  @@ "kernel" :> Kernel @@ "evaluator" :> Evaluator
  @@ "main" :> Written(Entry, main)
  @@ "other" :> Written(Entry, <<S("wide", ""), S("with", "leaf"), S("launch", "")>>)

\* The last is one where a definition that is no helper is given a function.
AllPrograms ==
  {Program(m, <<b>>) : m \in [1..2 -> Uses], b \in Bodies}
    \cup {Program(<<m>>, b) : m \in Uses, b \in [1..2 -> Bodies]}
    \cup {[Program(<<S("inc", "")>>, <<S("inc", "")>>) EXCEPT !["other"] = Evaluator]}
AllNames == <<"callback", "evaluator", "kernel", "leaf", "main", "other">>
Helpers == {"callback", "evaluator", "kernel", "leaf"}
=============================================================================
