---------------------------- MODULE ClosureMeaning ----------------------------
(***************************************************************************)
(* What the definition computes, before and after closure conversion, as   *)
(* an expression: operations applied to expressions, with closures as      *)
(* functions of a bound variable.  Evaluated on bounded terms only.        *)
(***************************************************************************)
EXTENDS ClosureConversion

Expr(op, n, of) == [op |-> op, n |-> n, of |-> of]

\* A closure, its variable named after the node of its argument.
Lambda(domain, e) == Expr("lambda", domain, <<e>>)
Variable(domain) == Expr("variable", domain, <<>>)

(***************************************************************************)
(* The expression at the node n of t, where known gives those of the nodes *)
(* that are given.  A converted primitive is given the environment and     *)
(* the function of each of its closures: together they are the closure     *)
(* that computes the body of the function from the captured expressions.   *)
(***************************************************************************)
RECURSIVE Value(_, _, _)
Value(t, n, known) ==
  LET at == {e \in EdgesOf(t) : n \in Targets(t, e)}
      edge == t.edges[CHOOSE e \in at : TRUE]
      port == CHOOSE i \in DOMAIN edge.tgt : edge.tgt[i] = n
      closure(environment, f) ==
        LET captures == Front(f.sources)
            held(i) == IF Len(captures) = 1 THEN environment ELSE environment.of[i]
            index(c) == CHOOSE i \in DOMAIN captures : captures[i] = c
        IN Lambda(Last(f.sources),
                  Value(f, f.targets[1],
                        [c \in Range(f.sources) |-> IF c = Last(f.sources) THEN Variable(c)
                                                    ELSE held(index(c))]))
      argument(args, m) ==
        LET v == Value(t, m, known)
        IN IF v.op = "function"
           THEN Append(Front(args), closure(Last(args), functions[v.n + 1]))
           ELSE Append(args, v)
      args == FoldLeft(argument, <<>>, edge.src)
  IN CASE n \in DOMAIN known -> known[n]
       [] n \notin DOMAIN known /\ at = {} -> Expr("unknown", n, <<>>)
       [] OTHER ->
            CASE edge.k = "marker" ->
                   Lambda(edge.src[1],
                          Value(t, edge.src[2],
                                edge.src[1] :> Variable(edge.src[1]) @@ known))
              [] edge.k = "eval" -> IF args[2].op = "name"
                                    THEN Expr("call", args[2].n, <<args[1]>>)
                                    ELSE Expr("eval", "", args)
              [] edge.k = "closure" -> Expr("function", edge.n, <<>>)
              [] edge.k = "name" -> Expr("name", edge.n, <<>>)
              [] edge.k = "call" -> Expr("call", edge.n, args)
              [] OTHER -> Expr(<<"op", port>>, edge.n, args)

Meaning(t) ==
  LET given == [n \in Range(t.sources) |-> Expr("given", n, <<>>)]
  IN [i \in DOMAIN t.targets |-> Value(t, t.targets[i], given)]

\* Conversion keeps what a definition computes: each use of a closure gets a
\* function that computes what the region of the closure did, from what it
\* captured, wherever it is called (doc/CLOSURE_CONVERSION.md:68-90).
MeaningIsKept == status = "done" => Meaning(term) = Meaning(original)
=============================================================================
