--------------------------- MODULE LoweringMeaning ---------------------------
(***************************************************************************)
(* What a definition does, and what the instructions made of it do: the    *)
(* expressions of its results and the sequence of its effects, where an    *)
(* effect has the effects of its blocks or of its kernel.  A loop runs     *)
(* Rounds times.                                                           *)
(***************************************************************************)
EXTENDS Lowering

CONSTANT Rounds

Expr(k, n, of, ty) == [op |-> <<k, n>>, of |-> of, ty |-> ty]
Given(i, ty) == Expr("given", i, <<>>, ty)
Index(k) == Expr("index", k, <<>>, "u32")
Applied(op, of, ty) == Expr("op", op, of, ty)
Either(c, a, b) == IF a = b THEN a ELSE Applied("either", <<c, a, b>>, a.ty)

Did(op, of, inner) == [op |-> op, of |-> of, inner |-> inner]

-----------------------------------------------------------------------------
(***************************************************************************)
(* Definitions, from the calls of functions on expressions.  ok is whether *)
(* every operation is where it may be and no definition calls itself.      *)
(***************************************************************************)

Reference(f) == Expr("function", f, <<>>, "fn")
Referred(e) == e.op[2]
Proof == Applied("proof", <<>>, "proof")
Data(es) == SelectSeq(es, LAMBDA e : e.ty \in RuntimeTypes)

\* The arguments for parameters of the given types, with proofs filled in.
WithProofs(types, data) ==
  FoldLeft(LAMBDA made, ty : IF ty \in RuntimeTypes
                             THEN [args |-> Append(made.args, Head(made.rest)),
                                   rest |-> Tail(made.rest)]
                             ELSE [made EXCEPT !.args = Append(@, Proof)],
           [args |-> <<>>, rest |-> data], types).args

RECURSIVE Means(_, _, _, _)

\* The function e called at a place with captures and data, by the functions in
\* within.
CallMeans(e, captures, data, where, within) ==
  Means(Referred(e), captures \o WithProofs(Parameters(Referred(e), captures), data),
        where, within)

\* One round of a loop after what came before.
RoundMeans(e, captures, before, k, where, within) ==
  LET after == CallMeans(e, captures, <<Index(k)>> \o before.out, where, within)
  IN [out |-> Data(after.out), did |-> before.did \o after.did, ok |-> before.ok /\ after.ok]

\* An effect with the effects of what is inside.
Inside(op, of, inner) == Did(op, of, [i \in DOMAIN inner |-> inner[i].did])

Result(out, did, ok) == [out |-> out, did |-> did, ok |-> ok]

Branches(c, yes, no) ==
  Result([i \in DOMAIN Data(yes.out) |-> Either(c, Data(yes.out)[i], Data(no.out)[i])],
         <<Inside("if", <<c>>, <<yes, no>>)>>, yes.ok /\ no.ok)

\* What the assignment a does on the groups of expressions gs, with runtime
\* results of the types wanted.
StepMeans(a, gs, wanted, where, within) ==
  LET flat == FlattenSeq(gs)
  IN CASE a.k = "op" ->
            Result([i \in DOMAIN wanted |-> Applied(a.n, Data(flat), wanted[i])],
                   CASE a.n = "store" -> <<Did("bounds", Data(flat), <<>>),
                                           Did("store", Data(flat), <<>>)>>
                     [] a.n # "store" /\ HasEffect(a.n) -> <<Did(a.n, Data(flat), <<>>)>>
                     [] OTHER -> <<>>,
                   CASE a.n \in {"store", "sync"} -> where = "device"
                     [] a.n = "free" -> where = "host"
                     [] OTHER -> TRUE)
       [] a.k = "name" -> Result(<<Reference(a.n)>>, <<>>, TRUE)
       [] a.k = "call" -> Means(a.n, flat, where, within)
       [] a.k = "eval" -> Means(Referred(Last(flat)), Front(flat), where, within)
       [] a.k = "if" -> Branches(gs[1][1], CallMeans(gs[4][1], gs[3], Data(gs[2]), where, within),
                                 CallMeans(gs[6][1], gs[5], Data(gs[2]), where, within))
       [] a.k = "fold" ->
            LET ends == FoldLeft(LAMBDA before, k : RoundMeans(gs[4][1], gs[3], before, k,
                                                               where, within),
                                 Result(Data(gs[2]), <<>>, TRUE), [k \in 1..Rounds |-> k])
            IN Result(ends.out, <<Inside("for", gs[1], <<ends>>)>>, ends.ok)
       [] a.k = "launch" ->
            LET kernel == CallMeans(gs[3][1], gs[2], <<Applied("thread", gs[1], "thread")>>, "device", within)
            IN Result(<<>>, <<Inside("launch", gs[1], <<kernel>>)>>,
                      kernel.ok /\ where = "host")

\* The values of the nodes after the assignment a, whose nodes have the types
\* labels, has made out.
KnownAfter(known, a, labels, out) ==
  LET made == IF a.k = "name" THEN out ELSE WithProofs(labels, Data(out))
  IN [n \in Range(a.tgt) |-> made[CHOOSE i \in DOMAIN made : a.tgt[i] = n]] @@ known

AfterStep(before, a, labels, done) ==
  [known |-> KnownAfter(before.known, a, labels, done.out),
   did |-> before.did \o done.did,
   ok |-> before.ok /\ done.ok]

ValueAt(known, n) == IF n \in DOMAIN known THEN known[n] ELSE Proof

\* The definition f, whose nodes have the types labels, on args.
BodyMeans(def, labels, args, where, within) ==
  LET step(before, a) ==
        LET types == [i \in DOMAIN a.tgt |-> labels[a.tgt[i]]]
        IN AfterStep(before, a, types,
                     StepMeans(a, [g \in DOMAIN a.groups |->
                                     [i \in DOMAIN a.groups[g] |->
                                        ValueAt(before.known, a.groups[g][i])]],
                               SelectSeq(types, LAMBDA ty : ty \in RuntimeTypes),
                               where, within))
      begin == [known |-> [n \in Range(def.ins) |->
                             args[CHOOSE i \in DOMAIN args : def.ins[i] = n]],
                did |-> <<>>, ok |-> TRUE]
      whole(end) == Result([i \in DOMAIN def.outs |-> ValueAt(end.known, def.outs[i])],
                           end.did, end.ok)
  IN whole(FoldLeft(step, begin, def.code))

Means(f, args, where, within) ==
  LET def == program[f]
      generic == {i \in DOMAIN args : def.types[def.ins[i]] = "any"}
      any == IF generic = {} THEN "proof" ELSE args[Min(generic)].ty
      labels == [n \in DOMAIN def.types |-> IF def.types[n] = "any" THEN any
                                            ELSE def.types[n]]
  IN IF f \in Range(within)
     THEN Result([i \in DOMAIN def.outs |-> Applied("endless", <<>>, labels[def.outs[i]])],
                 <<>>, FALSE)
     ELSE BodyMeans(def, labels, args, where, Append(within, f))

DefinitionMeans(f) ==
  LET types == [i \in DOMAIN program[f].ins |-> program[f].types[program[f].ins[i]]]
      runtime == SelectSeq(types, LAMBDA ty : ty \in RuntimeTypes)
  IN Means(f, WithProofs(types, [i \in DOMAIN runtime |-> Given(i, runtime[i])]), "host", <<>>)

-----------------------------------------------------------------------------
(***************************************************************************)
(* Instructions, run where variables have the expressions env.  A variable *)
(* that a block declares is not known after it.                            *)
(***************************************************************************)
RECURSIVE Runs(_, _)

Held(env, v) == IF v \in DOMAIN env THEN env[v] ELSE Applied("undeclared", <<>>, "")
HeldAll(env, vs) == [i \in DOMAIN vs |-> Held(env, vs[i])]

\* What a kernel gets for the parameter x.
Passed(e, x) == IF e.ty = x.ty THEN e ELSE Applied("converted", <<e>>, x.ty)

\* The state after x, of env and did.
Executed(before, x) ==
  LET of == HeldAll(before.env, x.of)
      add(inner) == Append(before.did, Inside(x.i, of, inner))
      outer(f(_)) == [v \in DOMAIN before.env |-> f(v)]
  IN CASE x.i = "let" ->
            [before EXCEPT !.env = (x.v :> CASE x.op = "copy" -> of[1]
                                             [] OTHER -> Applied(x.op, of, x.ty)) @@ @]
       [] x.i = "assign" -> [before EXCEPT !.env = (x.v :> of[1]) @@ @]
       [] x.i = "do" -> [before EXCEPT !.did = Append(@, Did(x.op, of, <<>>))]
       [] x.i = "if" ->
            LET yes == Runs(x.yes, before.env)
                no == Runs(x.no, before.env)
            IN [env |-> outer(LAMBDA v : Either(of[1], yes.env[v], no.env[v])),
                did |-> add(<<yes, no>>)]
       [] x.i = "for" ->
            LET round(r, k) ==
                  LET inner == Runs(x.body, (x.v :> Index(k)) @@ r.env)
                  IN [env |-> outer(LAMBDA v : inner.env[v]), did |-> r.did \o inner.did]
                ends == FoldLeft(round, [env |-> before.env, did |-> <<>>],
                                 [k \in 1..Rounds |-> k])
            IN [env |-> ends.env, did |-> add(<<ends>>)]
       [] x.i = "launch" ->
            LET kernel == kernels[x.kernel]
                ran == Runs(kernel.body,
                            [v \in {p.v : p \in Range(kernel.inputs)} |->
                               LET i == CHOOSE j \in DOMAIN of : kernel.inputs[j].v = v
                               IN Passed(of[i], kernel.inputs[i])])
            IN [before EXCEPT !.did = Append(@, Inside("launch", <<of[1]>>, <<ran>>))]

Runs(block, env) == FoldLeft(Executed, [env |-> env, did |-> <<>>], block)

FunctionDoes(fn) ==
  LET inputs == fn.inputs
      ran == Runs(fn.body, [v \in {p.v : p \in Range(inputs)} |->
                              LET i == CHOOSE j \in DOMAIN inputs : inputs[j].v = v
                              IN Given(i, inputs[i].ty)])
      outputs == {v \in DOMAIN ran.env : v < 0}
  IN [out |-> [i \in 1..Cardinality(outputs) |-> ran.env[-i]], did |-> ran.did]

-----------------------------------------------------------------------------
\* The code of every exported definition does what the definition does: the same
\* effects in the same order and blocks, on the same values, and the same results,
\* whatever else was inlined, named or launched before it.
LoweredIsMeant ==
  status = "done" =>
    \A i \in DOMAIN functions :
      LET means == DefinitionMeans(functions[i].name)
      IN FunctionDoes(functions[i]) = [out |-> Data(means.out), did |-> means.did]

\* A program is refused only if an exported definition calls one that calls itself
\* or reaches an operation in the wrong place, and then always; and what is
\* lowered is valid.
RefusedRightly ==
  LET faults == {i \in DOMAIN Exported : "fn" \in Interface(Exported[i])
                                           \/ ~DefinitionMeans(Exported[i]).ok}
  IN /\ status = "done" => faults = {}
     /\ status = "refused" => /\ faults # {}
                              /\ Len(functions) + 1 = Min(faults)
     /\ status # "invalid"
=============================================================================
