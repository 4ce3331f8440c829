------------------------------- MODULE Lowering -------------------------------
(***************************************************************************)
(* codegen/default: lower_to_ir (mod.rs) with lower.rs, ops/control.rs,    *)
(* ops/launch.rs, values.rs and validate.rs.  Converted definitions become *)
(* functions and kernels in structured instructions: definitions are       *)
(* inlined where they are called, callbacks in branches, loops and         *)
(* kernels.                                                                *)
(*                                                                         *)
(* The recursion of call, lower_operation and callback is the sequence     *)
(* frames; then says what the caller does with the results.  A definition  *)
(* has a type for each of its nodes, the nodes ins and outs, and its       *)
(* assignments in the order that ssa gives them.  An assignment has a kind *)
(* k, a name n, its groups of sources and its targets.  Types are the      *)
(* runtime types and "proof" (erased), "fn" (a function reference) and     *)
(* "any" (a type variable, bound by an argument).  Products are flattened, *)
(* variables and kernels are numbers.  Programs are well typed.  Left out: *)
(* function references to primitives (nothing calls one), shared memory,   *)
(* contracts and invariants (erased), meta operations and the reading of   *)
(* memory.                                                                 *)
(***************************************************************************)
EXTENDS Collections, TLC

CONSTANTS
  Programs,   \* functions from names to definitions
  Names,      \* the names in order
  Hidden,     \* those of library definitions and generated closures
  MaxDepth    \* of calls (128)

Assignments(nodes) ==
  [k : STRING, n : STRING, groups : Seq(Seq(nodes)), tgt : Seq(nodes)]

\* The operands of the operations with callbacks (control.rs:40, launch.rs:93).
Operands == [if |-> 6, fold |-> 4, launch |-> 3]

IsDefinition(d) ==
  LET nodes == DOMAIN d.types
  IN /\ d.ins \in Seq(nodes) /\ d.outs \in Seq(nodes)
     /\ d.code \in Seq(Assignments(nodes))
     /\ \A i \in DOMAIN d.code :
          d.code[i].k \in DOMAIN Operands => Len(d.code[i].groups) = Operands[d.code[i].k]

ASSUME ProgramsAssumption ==
  /\ MaxDepth \in Nat
  /\ \A p \in Programs : /\ Names \in Seq(DOMAIN p)
                         /\ \A f \in DOMAIN p : IsDefinition(p[f])

VARIABLES
  program,
  functions,  \* modules.functions, in the order of Names
  kernels,    \* modules.kernels
  cache,      \* kernel_cache
  frames,     \* stack, with the locals of each call
  body,       \* the block that is being written
  place,      \* "host" or "device"
  next,       \* the last fresh name
  status      \* "lowering", then "done", "refused" or "invalid"

vars == <<program, functions, kernels, cache, frames, body, place, next, status>>

-----------------------------------------------------------------------------
\* Values and instructions.

AbiTypes == {"bool", "u32", "u64"}
RuntimeTypes == AbiTypes \cup {"grid", "thread"}

Runtime(v, ty) == [r |-> "runtime", v |-> v, f |-> "", ty |-> ty]
Function(f) == [r |-> "function", v |-> 0, f |-> f, ty |-> "fn"]
Erased(ty) == [r |-> "erased", v |-> 0, f |-> "", ty |-> ty]

RuntimeArgs(values) == Picked(values, {i \in DOMAIN values : values[i].r = "runtime"})
RuntimeAmong(types) == Picked(types, {i \in DOMAIN types : types[i] \in RuntimeTypes})
Exprs(values) == [i \in DOMAIN values |-> values[i].v]

\* Fresh names after n, as values of the given types, or of those of like.
FreshOf(n, types) == [i \in DOMAIN types |-> Runtime(n + i, types[i])]
Fresh(n, like) == FreshOf(n, [i \in DOMAIN like |-> like[i].ty])

Let(x, op, of) == [i |-> "let", v |-> x.v, ty |-> x.ty, op |-> op, of |-> of]
Assign(v, w) == [i |-> "assign", v |-> v, of |-> <<w>>]
Do(op, of) == [i |-> "do", op |-> op, of |-> of]
If(condition, yes, no) == [i |-> "if", of |-> <<condition>>, yes |-> yes, no |-> no]
For(index, end, inner) == [i |-> "for", v |-> index, of |-> <<end>>, body |-> inner]
Launch(kernel, arguments) == [i |-> "launch", kernel |-> kernel, of |-> arguments]

Copies(to, from) == [i \in DOMAIN to |-> Let(to[i], "copy", <<from[i].v>>)]
Assigns(to, from) == [i \in DOMAIN to |-> Assign(to[i].v, from[i].v)]

\* argument and results: erased types are filled in, the others take the data.
Filled(types, data) ==
  LET runtime(i) == Cardinality({j \in 1..i : types[j] \in RuntimeTypes})
  IN [i \in DOMAIN types |->
        IF types[i] \in RuntimeTypes THEN [data[runtime(i)] EXCEPT !.ty = types[i]]
        ELSE Erased(types[i])]

-----------------------------------------------------------------------------
\* Frames.

Code(fr) == program[fr.op].code
Current(fr) == Code(fr)[fr.pc]

\* The label of the node n, with the type variable bound.
Label(fr, n) ==
  IF program[fr.op].types[n] = "any" THEN fr.any ELSE program[fr.op].types[n]

Input(fr, n) == IF n \in DOMAIN fr.values THEN fr.values[n] ELSE Erased(Label(fr, n))
Inputs(fr, ns) == [i \in DOMAIN ns |-> Input(fr, ns[i])]
Group(fr, g) == Inputs(fr, Current(fr).groups[g])
Argument(fr, g) == Group(fr, g)[1]
Outputs(fr) == [i \in DOMAIN Current(fr).tgt |-> Label(fr, Current(fr).tgt[i])]

\* bind: the type variable of f is the type of the argument at the first source
\* that has it.
Bound(f, args) ==
  LET generic == {i \in DOMAIN args : program[f].types[program[f].ins[i]] = "any"}
  IN IF generic = {} THEN "proof" ELSE args[Min(generic)].ty

Frame(f, args, then) ==
  [op |-> f, pc |-> 1, any |-> Bound(f, args),
   values |-> [n \in Range(program[f].ins) |->
                 args[CHOOSE i \in DOMAIN args : program[f].ins[i] = n]],
   then |-> then]

\* The stack after the results of its last frame's current assignment.
Assigned(stack, results) ==
  LET fr == Last(stack)
      tgt == Current(fr).tgt
      values == [n \in Range(tgt) |->
                   LET i == CHOOSE j \in DOMAIN tgt : tgt[j] = n
                   IN [results[i] EXCEPT !.ty = Label(fr, n)]]
  IN Append(Front(stack), [fr EXCEPT !.pc = @ + 1,
                             !.values = [n \in DOMAIN @ \cup Range(tgt) |->
                                           IF n \in Range(tgt) THEN values[n] ELSE @[n]]])

\* Mutant: a definition may be called from itself.
CallableUnlessDeep(stack, f) == Len(stack) <= MaxDepth

\* f is among the templates, is not being called, and the stack not full.
Callable(stack, f) ==
  /\ f \in DOMAIN program
  /\ \A i \in DOMAIN stack : stack[i].op # f
  /\ Len(stack) <= MaxDepth

\* Callback::new and callback: the captures, then the parameters of f.
Parameters(f, captures) ==
  LET ins == program[f].ins
  IN [i \in 1..(Len(ins) - Len(captures)) |-> program[f].types[ins[Len(captures) + i]]]

CallbackArgs(f, captures, data) == captures \o Filled(Parameters(f, captures), data)

Top == Last(frames)
Callers == Front(frames)
Caller == Last(Callers)

At(kinds) ==
  /\ status = "lowering"
  /\ frames # <<>>
  /\ Top.pc <= Len(Code(Top))
  /\ Current(Top).k \in kinds

\* The call at the top of the stack is over, and its caller wants it for c.
Over(c) ==
  /\ status = "lowering"
  /\ frames # <<>>
  /\ Top.pc > Len(Code(Top))
  /\ Top.then.c = c

Results == Inputs(Top, program[Top.op].outs)

-----------------------------------------------------------------------------
\* Functions.

Interface(f) ==
  {program[f].types[n] : n \in Range(program[f].ins) \cup Range(program[f].outs)}

\* Definitions that take or return a function, which is an error, and those with
\* an interface of the runtime ABI.
Exported ==
  LET isExported(f) ==
        /\ f \notin Hidden
        /\ "fn" \in Interface(f) \/ Interface(f) \subseteq AbiTypes \cup {"proof"}
  IN Picked(Names, {i \in DOMAIN Names : isExported(Names[i])})
NextExport == Exported[Len(functions) + 1]
Exporting == status = "lowering" /\ frames = <<>> /\ Len(functions) < Len(Exported)

Init ==
  /\ program \in Programs
  /\ functions = <<>>
  /\ kernels = <<>>
  /\ cache = <<>>
  /\ frames = <<>>
  /\ body = <<>>
  /\ place = "host"
  /\ next = 0
  /\ status = "lowering"

\* A definition that is a function of the library: its inputs, then its call.
FunctionStart ==
  /\ Exporting
  /\ "fn" \notin Interface(NextExport)
  /\ LET f == NextExport
         types == [i \in DOMAIN program[f].ins |-> program[f].types[program[f].ins[i]]]
         inputs == FreshOf(next, RuntimeAmong(types))
     IN /\ frames' = <<Frame(f, Filled(types, inputs), [c |-> "entry", inputs |-> inputs])>>
        /\ next' = next + Len(inputs)
  /\ body' = <<>>
  /\ UNCHANGED <<program, functions, kernels, cache, place, status>>

\* The output i is the variable -i.
FunctionEnd ==
  /\ Over("entry")
  /\ LET fields == RuntimeArgs(Results)
         outputs == [i \in DOMAIN fields |-> Assign(-i, fields[i].v)]
     IN functions' = Append(functions, [name |-> Top.op, inputs |-> Top.then.inputs,
                                        body |-> body \o outputs])
  /\ frames' = <<>>
  /\ body' = <<>>
  /\ UNCHANGED <<program, kernels, cache, place, next, status>>

-----------------------------------------------------------------------------
\* Operations that have no callback.

Places(op) ==
  CASE op \in {"store", "sync"} -> {"device"}
    [] op \in {"free"} -> {"host"}
    [] OTHER -> {"host", "device"}

\* A write checks its index first; other operations with effects are one
\* instruction.
Effect(op, of) ==
  IF op = "store" THEN <<Do("bounds", of), Do("store", of)>> ELSE <<Do(op, of)>>
HasEffect(op) == op \in {"store", "sync", "free", "assert"}

\* ops::lower: an effect, or the one result that is not erased.
Primitive ==
  /\ At({"op"})
  /\ LET op == Current(Top).n
         of == Exprs(RuntimeArgs(FlattenSeq([g \in DOMAIN Current(Top).groups |->
                                               Group(Top, g)])))
         made == FreshOf(next, RuntimeAmong(Outputs(Top)))
     IN /\ place \in Places(op)
        /\ body' = body \o IF HasEffect(op) THEN Effect(op, of)
                           ELSE [i \in DOMAIN made |-> Let(made[i], op, of)]
        /\ next' = next + Len(made)
        /\ frames' = Assigned(frames, Filled(Outputs(Top), made))
  /\ UNCHANGED <<program, functions, kernels, cache, place, status>>

\* name.f
Name ==
  /\ At({"name"})
  /\ frames' = Assigned(frames, <<Function(Current(Top).n)>>)
  /\ UNCHANGED <<program, functions, kernels, cache, body, place, next, status>>

\* A call, or an eval, whose last source is the function.
Call ==
  /\ At({"call", "eval"})
  /\ LET args == FlattenSeq([g \in DOMAIN Current(Top).groups |-> Group(Top, g)])
         direct == Current(Top).k = "call"
         f == IF direct THEN Current(Top).n ELSE Last(args).f
     IN /\ Callable(frames, f)
        /\ frames' = Append(frames, Frame(f, IF direct THEN args ELSE Front(args),
                                          [c |-> "assign"]))
  /\ UNCHANGED <<program, functions, kernels, cache, body, place, next, status>>

Return ==
  /\ Over("assign")
  /\ frames' = Assigned(Callers, Results)
  /\ UNCHANGED <<program, functions, kernels, cache, body, place, next, status>>
-----------------------------------------------------------------------------
\* core.if: condition, context, and environment and function of each branch.

Branch(fr, env, fn, stack, then) ==
  LET f == Argument(fr, fn).f
  IN /\ Callable(stack, f)
     /\ frames' = Append(stack, Frame(f, CallbackArgs(f, Group(fr, env),
                                                      RuntimeArgs(Group(fr, 2))), then))

IfStart ==
  /\ At({"if"})
  /\ Branch(Top, 3, 4, frames, [c |-> "yes", outer |-> body])
  /\ body' = <<>>
  /\ UNCHANGED <<program, functions, kernels, cache, place, next, status>>

IfElse ==
  /\ Over("yes")
  /\ Branch(Caller, 5, 6, Callers,
            [c |-> "no", outer |-> Top.then.outer, yes |-> body, left |-> RuntimeArgs(Results)])
  /\ body' = <<>>
  /\ UNCHANGED <<program, functions, kernels, cache, place, next, status>>

IfEnd ==
  /\ Over("no")
  /\ LET right == RuntimeArgs(Results)
         merged == Fresh(next, Top.then.left)
     IN /\ body' = Top.then.outer
                     \o [i \in DOMAIN merged |-> Let(merged[i], "zero", <<>>)]
                     \o <<If(Argument(Caller, 1).v,
                             Top.then.yes \o Assigns(merged, Top.then.left),
                             body \o Assigns(merged, right))>>
        /\ next' = next + Len(merged)
        /\ frames' = Assigned(Callers, Filled(Outputs(Caller), merged))
  /\ UNCHANGED <<program, functions, kernels, cache, place, status>>
-----------------------------------------------------------------------------
\* core.fold: bound, initial state, environment, function.

FoldStart ==
  /\ At({"fold"})
  /\ LET f == Argument(Top, 4).f
         initial == RuntimeArgs(Group(Top, 2))
         state == Fresh(next, initial)
         index == Runtime(next + Len(state) + 1, "u32")
     IN /\ Callable(frames, f)
        /\ frames' = Append(frames,
             Frame(f, CallbackArgs(f, Group(Top, 3), <<index>> \o state),
                   [c |-> "loop", outer |-> body \o Copies(state, initial),
                    index |-> index.v, state |-> state]))
        /\ next' = index.v
  /\ body' = <<>>
  /\ UNCHANGED <<program, functions, kernels, cache, place, status>>

\* Mutant: the new state is assigned field by field.
FoldEndInPlace ==
  /\ Over("loop")
  /\ body' = Top.then.outer
               \o <<For(Top.then.index, Argument(Caller, 1).v,
                        body \o Assigns(Top.then.state, RuntimeArgs(Results)))>>
  /\ frames' = Assigned(Callers, Filled(Outputs(Caller), Top.then.state))
  /\ UNCHANGED <<program, functions, kernels, cache, place, next, status>>

\* All fields are read before the first is assigned.
FoldEnd ==
  /\ Over("loop")
  /\ LET snapshots == Fresh(next, Top.then.state)
     IN /\ body' = Top.then.outer
                     \o <<For(Top.then.index, Argument(Caller, 1).v,
                              body \o Copies(snapshots, RuntimeArgs(Results))
                                   \o Assigns(Top.then.state, snapshots))>>
        /\ next' = next + Len(snapshots)
        /\ frames' = Assigned(Callers, Filled(Outputs(Caller), Top.then.state))
  /\ UNCHANGED <<program, functions, kernels, cache, place, status>>
-----------------------------------------------------------------------------
\* unsafe.launch: grid, environment, kernel.

\* KernelKey, of a kernel and its captures.
Key(f, captures) ==
  [function |-> f,
   types |-> [i \in DOMAIN captures |-> captures[i].ty],
   functions |-> [i \in DOMAIN captures |-> captures[i].f]]

Known(key) == {i \in DOMAIN cache : cache[i].key = key}

LaunchKnown ==
  /\ At({"launch"})
  /\ place = "host"
  /\ LET captures == Group(Top, 2)
         known == Known(Key(Argument(Top, 3).f, captures))
     IN /\ known # {}
        /\ body' = Append(body, Launch(cache[Min(known)].symbol,
                                       <<Argument(Top, 1).v>> \o Exprs(RuntimeArgs(captures))))
  /\ frames' = Assigned(frames, Filled(Outputs(Top), <<>>))
  /\ UNCHANGED <<program, functions, kernels, cache, place, next, status>>

(***************************************************************************)
(* The body of a kernel that is not known is lowered with parameters of    *)
(* its own: the grid, and one for each runtime value among the captures.   *)
(* Its block and thread are the instruction "thread".                      *)
(***************************************************************************)
LaunchStart ==
  /\ At({"launch"})
  /\ place = "host"
  /\ LET f == Argument(Top, 3).f
         captures == Group(Top, 2)
         grid == Runtime(next + 1, "grid")
         inputs == Fresh(next + 1, RuntimeArgs(captures))
         rank(i) == Len(RuntimeArgs(SubSeq(captures, 1, i)))
         captured == [i \in DOMAIN captures |->
                        IF captures[i].r = "runtime" THEN inputs[rank(i)] ELSE captures[i]]
         data == FreshOf(next + 1 + Len(inputs), RuntimeAmong(Parameters(f, captures)))
     IN /\ Known(Key(f, captures)) = {}
        /\ Callable(frames, f)
        /\ frames' = Append(frames,
             Frame(f, CallbackArgs(f, captured, data),
                   [c |-> "kernel", outer |-> body, key |-> Key(f, captures),
                    inputs |-> <<grid>> \o inputs,
                    arguments |-> <<Argument(Top, 1).v>> \o Exprs(RuntimeArgs(captures))]))
        /\ body' = [i \in DOMAIN data |-> Let(data[i], "thread", <<grid.v>>)]
        /\ next' = next + 1 + Len(inputs) + Len(data)
  /\ place' = "device"
  /\ UNCHANGED <<program, functions, kernels, cache, status>>

\* Mutant: the rest of the function is taken for device code.
LaunchEndOnDevice ==
  /\ Over("kernel")
  /\ next' = next + 1
  /\ kernels' = [k \in DOMAIN kernels \cup {next'} |->
                   IF k = next' THEN [inputs |-> Top.then.inputs, body |-> body]
                   ELSE kernels[k]]
  /\ cache' = Append(cache, [key |-> Top.then.key, symbol |-> next'])
  /\ body' = Append(Top.then.outer, Launch(next', Top.then.arguments))
  /\ frames' = Assigned(Callers, Filled(Outputs(Caller), <<>>))
  /\ UNCHANGED <<program, functions, place, status>>

LaunchEnd ==
  /\ Over("kernel")
  /\ next' = next + 1
  /\ kernels' = [k \in DOMAIN kernels \cup {next'} |->
                   IF k = next' THEN [inputs |-> Top.then.inputs, body |-> body]
                   ELSE kernels[k]]
  /\ cache' = Append(cache, [key |-> Top.then.key, symbol |-> next'])
  /\ body' = Append(Top.then.outer, Launch(next', Top.then.arguments))
  /\ place' = "host"
  /\ frames' = Assigned(Callers, Filled(Outputs(Caller), <<>>))
  /\ UNCHANGED <<program, functions, status>>
-----------------------------------------------------------------------------
\* The end.

\* What the next step would call.
Called ==
  CASE At({"call"}) -> {<<frames, Current(Top).n>>}
    [] At({"eval"}) -> {<<frames, Argument(Top, Len(Current(Top).groups)).f>>}
    [] At({"if"}) -> {<<frames, Argument(Top, 4).f>>}
    [] Over("yes") -> {<<Callers, Argument(Caller, 6).f>>}
    [] At({"fold"}) -> {<<frames, Argument(Top, 4).f>>}
    [] At({"launch"}) ->
         IF Known(Key(Argument(Top, 3).f, Group(Top, 2))) = {}
         THEN {<<frames, Argument(Top, 3).f>>} ELSE {}
    [] OTHER -> {}

\* An error: an interface without a representation, an operation in the wrong
\* place, or a recursive call.
Refuse ==
  /\ \/ Exporting /\ "fn" \in Interface(NextExport)
     \/ At({"op"}) /\ place \notin Places(Current(Top).n)
     \/ At({"launch"}) /\ place # "host"
     \/ \E c \in Called : c[2] \in DOMAIN program /\ ~Callable(c[1], c[2])
  /\ status' = "refused"
  /\ UNCHANGED <<program, functions, kernels, cache, frames, body, place, next>>

-----------------------------------------------------------------------------
\* validate: the instructions of a body and of the blocks in it, which are no
\* deeper than the calls.

Blocks(x) ==
  CASE x.i = "if" -> {x.yes, x.no}
    [] x.i = "for" -> {x.body}
    [] OTHER -> {}

Instructions(block) ==
  LET at[d \in Nat] == IF d = 0 THEN Range(block)
                       ELSE UNION {UNION {Range(b) : b \in Blocks(x)} : x \in at[d - 1]}
  IN UNION {at[d] : d \in 0..MaxDepth}

Permitted(x, where) ==
  /\ x.i = "do" => where \in Places(x.op)
  /\ x.i = "launch" => /\ where = "host"
                       /\ x.kernel \in DOMAIN kernels
                       /\ Len(kernels[x.kernel].inputs) = Len(x.of)

Valid ==
  /\ \A i \in DOMAIN functions : \A x \in Instructions(functions[i].body) :
       Permitted(x, "host")
  /\ \A k \in DOMAIN kernels : \A x \in Instructions(kernels[k].body) :
       Permitted(x, "device")

Finish ==
  /\ status = "lowering"
  /\ frames = <<>>
  /\ Len(functions) = Len(Exported)
  /\ status' = IF Valid THEN "done" ELSE "invalid"
  /\ UNCHANGED <<program, functions, kernels, cache, frames, body, place, next>>

\* The pass has returned.
Returned == status # "lowering" /\ UNCHANGED vars

Next ==
  \/ FunctionStart \/ FunctionEnd
  \/ Primitive \/ Name \/ Call \/ Return
  \/ IfStart \/ IfElse \/ IfEnd
  \/ FoldStart \/ FoldEnd
  \/ LaunchKnown \/ LaunchStart \/ LaunchEnd
  \/ Refuse \/ Finish \/ Returned

Spec == Init /\ [][Next]_vars

-----------------------------------------------------------------------------
\* Types, and: device code is written inside one kernel and only there, nothing
\* is inlined in itself, and there is one kernel for each key.
TypeOK ==
  LET called == [i \in DOMAIN frames |-> frames[i].op]
      inKernel == {i \in DOMAIN frames : frames[i].then.c = "kernel"}
  IN /\ status \in {"lowering", "done", "refused", "invalid"}
     /\ next \in Nat
     /\ place = IF inKernel = {} THEN "host" ELSE "device"
     /\ Cardinality(inKernel) <= 1
     /\ IsInjective(called)
     /\ Len(frames) <= MaxDepth + 1
     /\ DOMAIN kernels = {cache[i].symbol : i \in DOMAIN cache}
     /\ \A i, j \in DOMAIN cache : cache[i].key = cache[j].key => i = j
=============================================================================
