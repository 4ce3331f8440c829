---------------------------- MODULE LoweringProofs ----------------------------
(***************************************************************************)
(* Lowering, for every program: each frame is that of another definition,  *)
(* a kernel is written by one frame on the device, and no kernel is made   *)
(* twice.  The kernel that is being made is not in the cache, since only   *)
(* the end of a kernel adds to it and no launch is started on the device.  *)
(***************************************************************************)
EXTENDS Lowering, CollectionsProofs

IsFrame(fr) ==
  /\ {"op", "pc", "values", "then"} \subseteq DOMAIN fr
  /\ fr.op \in DOMAIN program
  /\ fr.pc \in Nat \ {0}
  /\ fr.then.c = "no" => IsList(fr.then.left)
  /\ fr.then.c = "loop" => IsList(fr.then.state)

\* Only the first frame is that of a function, the others are of callbacks and
\* calls, and no definition has two.
IsStack(fs) ==
  /\ IsList(fs) /\ Len(fs) <= MaxDepth + 1
  /\ \A i \in DOMAIN fs : IsFrame(fs[i]) /\ (fs[i].then.c = "entry" <=> i = 1)
  /\ \A i, j \in DOMAIN fs : fs[i].op = fs[j].op => i = j

InKernel(fs) == {i \in DOMAIN fs : fs[i].then.c = "kernel"}

KernelInv ==
  /\ place = IF InKernel(frames) = {} THEN "host" ELSE "device"
  /\ \A i, j \in InKernel(frames) : i = j
  /\ \A i \in InKernel(frames) : Known(frames[i].then.key) = {}

CacheInv ==
  /\ IsList(functions) /\ IsList(cache)
  /\ DOMAIN kernels = {cache[i].symbol : i \in DOMAIN cache}
  /\ \A i, j \in DOMAIN cache : cache[i].key = cache[j].key => i = j

LoweringInv ==
  /\ program \in Programs /\ next \in Nat
  /\ status \in {"lowering", "done", "refused", "invalid"}
  /\ IsStack(frames) /\ KernelInv /\ CacheInv

-----------------------------------------------------------------------------
\* Fresh names for a list are one.

LEMMA FreshIsList ==
  ASSUME NEW like, IsList(like), NEW n
  PROVE  /\ IsList(FreshOf(n, like)) /\ Len(FreshOf(n, like)) = Len(like)
         /\ IsList(Fresh(n, like)) /\ Len(Fresh(n, like)) = Len(like)
<1>1. ASSUME NEW types, IsList(types)
      PROVE  IsList(FreshOf(n, types)) /\ Len(FreshOf(n, types)) = Len(types)
  <2>1. Len(types) \in Nat /\ DOMAIN types = 1..Len(types)
    BY <1>1, Lists
  <2>2. FreshOf(n, types) = [i \in 1..Len(types) |-> Runtime(n + i, types[i])]
    BY <2>1 DEF FreshOf
  <2> DEFINE S == {Runtime(n + i, types[i]) : i \in 1..Len(types)}
  <2>3. FreshOf(n, types) \in Seq(S) /\ Len(FreshOf(n, types)) = Len(types)
    BY <2>1, <2>2
  <2> QED
    BY <2>3, ListOf
<1> DEFINE types == [i \in DOMAIN like |-> like[i].ty]
<1>2. Len(like) \in Nat /\ types = [i \in 1..Len(like) |-> like[i].ty]
  BY Lists
<1>3. types \in Seq({like[i].ty : i \in 1..Len(like)}) /\ Len(types) = Len(like)
  BY <1>2
<1>4. IsList(types)
  BY <1>3, ListOf
<1> HIDE DEF types
<1>5. Fresh(n, like) = FreshOf(n, types)
  BY DEF Fresh, types
<1> QED
  BY <1>1, <1>3, <1>4, <1>5

-----------------------------------------------------------------------------
\* The stack.

\* The call is written by a kernel, or it is not, in both stacks.
SameKernels(fs, gs) ==
  /\ InKernel(gs) = InKernel(fs)
  /\ \A i \in InKernel(fs) : gs[i].then = fs[i].then

\* What the caller's frame keeps when the next assignment's turn comes.
LEMMA Advanced ==
  ASSUME NEW fr, {"op", "pc", "values", "then"} \subseteq DOMAIN fr, NEW v
  PROVE  LET g == [fr EXCEPT !.pc = @ + 1, !.values = v]
         IN /\ DOMAIN g = DOMAIN fr
            /\ g.op = fr.op /\ g.then = fr.then /\ g.pc = fr.pc + 1
OBVIOUS

LEMMA AssignedStack ==
  ASSUME NEW fs, IsStack(fs), fs # <<>>, NEW results
  PROVE  /\ IsStack(Assigned(fs, results)) /\ SameKernels(fs, Assigned(fs, results))
         /\ Assigned(fs, results) # <<>>
<1> DEFINE fr == Last(fs)
           tgt == Current(fr).tgt
           values == [n \in Range(tgt) |->
                        LET i == CHOOSE j \in DOMAIN tgt : tgt[j] = n
                        IN [results[i] EXCEPT !.ty = Label(fr, n)]]
           v == [n \in DOMAIN fr.values \cup Range(tgt) |->
                   IF n \in Range(tgt) THEN values[n] ELSE fr.values[n]]
           g == [fr EXCEPT !.pc = @ + 1, !.values = v]
           gs == Append(Front(fs), g)
<1>1. Assigned(fs, results) = gs
  BY DEF Assigned
<1>2. IsList(fs) /\ Len(fs) <= MaxDepth + 1
  BY DEF IsStack
<1>3. /\ Len(fs) \in Nat \ {0} /\ fr = fs[Len(fs)]
      /\ IsList(Front(fs)) /\ Len(Front(fs)) = Len(fs) - 1
      /\ \A i \in 1..(Len(fs) - 1) : Front(fs)[i] = fs[i]
  BY <1>2, Popped
<1> HIDE DEF tgt, values, v
<1>4. IsFrame(fr) /\ DOMAIN fs = 1..Len(fs)
  BY <1>2, <1>3, Lists DEF IsStack
<1>5. /\ DOMAIN g = DOMAIN fr
      /\ g.op = fr.op /\ g.then = fr.then /\ g.pc = fr.pc + 1
  BY <1>4, Advanced DEF IsFrame
<1>6. IsFrame(g)
  BY <1>4, <1>5 DEF IsFrame
<1> HIDE DEF g
<1>7. /\ IsList(gs) /\ Len(gs) = Len(fs) /\ gs[Len(fs)] = g
      /\ \A i \in 1..(Len(fs) - 1) : gs[i] = fs[i]
  <2>1. Len(fs) - 1 + 1 = Len(fs)
    BY <1>3
  <2> QED
    BY <1>3, <2>1, Pushed
<1>8. DOMAIN gs = 1..Len(fs)
  BY <1>7, Lists
<1> HIDE DEF gs, fr
<1>9. \A i \in 1..Len(fs) : gs[i].op = fs[i].op /\ gs[i].then = fs[i].then /\ IsFrame(gs[i])
  <2> TAKE i \in 1..Len(fs)
  <2>1. CASE i = Len(fs)
    BY <2>1, <1>3, <1>5, <1>6, <1>7
  <2>2. CASE i \in 1..(Len(fs) - 1)
    BY <2>2, <1>4, <1>7 DEF IsStack
  <2> QED
    BY <2>1, <2>2, <1>3
<1>10. IsStack(gs)
  BY <1>2, <1>4, <1>7, <1>8, <1>9 DEF IsStack
<1>11. SameKernels(fs, gs)
  BY <1>4, <1>8, <1>9 DEF SameKernels, InKernel
<1>12. gs # <<>>
  BY <1>3, <1>7
<1> QED
  BY <1>1, <1>10, <1>11, <1>12

LEMMA PushedStack ==
  ASSUME ProgramsAssumption, NEW fs, IsStack(fs), NEW f, Callable(fs, f), NEW args, NEW then,
         (then.c = "entry") <=> (fs = <<>>),
         then.c = "no" => IsList(then.left), then.c = "loop" => IsList(then.state)
  PROVE  LET gs == Append(fs, Frame(f, args, then))
         IN /\ IsStack(gs) /\ Len(gs) = Len(fs) + 1 /\ gs[Len(gs)].then = then
            /\ \A i \in DOMAIN fs : gs[i] = fs[i]
            /\ then.c # "kernel" => SameKernels(fs, gs)
            /\ then.c = "kernel" => InKernel(gs) = InKernel(fs) \cup {Len(gs)}
<1> DEFINE fr == Frame(f, args, then)
           gs == Append(fs, fr)
<1>1. /\ DOMAIN fr = {"op", "pc", "any", "values", "then"}
      /\ fr.op = f /\ fr.pc = 1 /\ fr.then = then
  BY DEF Frame
<1>2. f \in DOMAIN program /\ (\A i \in DOMAIN fs : fs[i].op # f) /\ Len(fs) <= MaxDepth
  BY DEF Callable
<1>3. IsFrame(fr)
  BY <1>1, <1>2 DEF IsFrame
<1> HIDE DEF fr
<1>4. IsList(fs) /\ MaxDepth \in Nat
  BY DEF IsStack, ProgramsAssumption
<1>5. /\ IsList(gs) /\ Len(gs) = Len(fs) + 1 /\ gs[Len(fs) + 1] = fr
      /\ \A i \in 1..Len(fs) : gs[i] = fs[i]
  BY <1>4, Pushed
<1>6. /\ Len(fs) \in Nat /\ DOMAIN fs = 1..Len(fs) /\ DOMAIN gs = 1..(Len(fs) + 1)
  BY <1>4, <1>5, Lists
<1>a. fs = <<>> <=> Len(fs) = 0
  BY <1>4, EmptySeq DEF IsList
<1> HIDE DEF gs
<1>7. \A i \in DOMAIN gs : IsFrame(gs[i]) /\ (gs[i].then.c = "entry" <=> i = 1)
  <2> TAKE i \in DOMAIN gs
  <2>1. CASE i = Len(fs) + 1
    BY <2>1, <1>1, <1>3, <1>5, <1>6, <1>a
  <2>2. CASE i \in 1..Len(fs)
    BY <2>2, <1>5, <1>6 DEF IsStack
  <2> QED
    BY <2>1, <2>2, <1>6
<1>8. \A i, j \in DOMAIN gs : gs[i].op = gs[j].op => i = j
  <2> TAKE i, j \in DOMAIN gs
  <2>1. CASE i \in 1..Len(fs) /\ j \in 1..Len(fs)
    BY <2>1, <1>5, <1>6 DEF IsStack
  <2>2. CASE i = Len(fs) + 1 /\ j \in 1..Len(fs)
    BY <2>2, <1>1, <1>2, <1>5, <1>6
  <2>3. CASE j = Len(fs) + 1 /\ i \in 1..Len(fs)
    BY <2>3, <1>1, <1>2, <1>5, <1>6
  <2> QED
    BY <2>1, <2>2, <2>3, <1>6
<1>9. IsStack(gs)
  BY <1>2, <1>4, <1>5, <1>6, <1>7, <1>8 DEF IsStack
<1>10. then.c # "kernel" => SameKernels(fs, gs)
  BY <1>1, <1>5, <1>6 DEF SameKernels, InKernel
<1>11. then.c = "kernel" => InKernel(gs) = InKernel(fs) \cup {Len(gs)}
  BY <1>1, <1>5, <1>6 DEF InKernel
<1> QED
  BY <1>1, <1>5, <1>6, <1>9, <1>10, <1>11 DEF gs, fr

LEMMA PoppedStack ==
  ASSUME NEW fs, IsStack(fs), fs # <<>>
  PROVE  /\ IsFrame(Last(fs)) /\ IsStack(Front(fs)) /\ Len(fs) \in DOMAIN fs
         /\ Last(fs) = fs[Len(fs)]
         /\ Last(fs).then.c # "entry" => Front(fs) # <<>>
         /\ Last(fs).then.c = "entry" => Len(fs) = 1
         /\ Last(fs).then.c # "kernel" => SameKernels(fs, Front(fs))
         /\ Last(fs).then.c = "kernel" => InKernel(Front(fs)) = InKernel(fs) \ {Len(fs)}
<1>1. IsList(fs) /\ Len(fs) <= MaxDepth + 1
  BY DEF IsStack
<1>2. /\ Len(fs) \in Nat \ {0} /\ Last(fs) = fs[Len(fs)]
      /\ IsList(Front(fs)) /\ Len(Front(fs)) = Len(fs) - 1
      /\ \A i \in 1..(Len(fs) - 1) : Front(fs)[i] = fs[i]
  BY <1>1, Popped
<1>3. DOMAIN fs = 1..Len(fs) /\ DOMAIN Front(fs) = 1..(Len(fs) - 1)
  BY <1>1, <1>2, Lists
<1>4. IsFrame(Last(fs)) /\ (Last(fs).then.c = "entry" <=> Len(fs) = 1)
  BY <1>2, <1>3 DEF IsStack
<1>5. Len(fs) # 1 => Front(fs) # <<>>
  BY <1>2
<1>6. Len(Front(fs)) <= MaxDepth + 1
  BY <1>1, <1>2, ProgramsAssumption DEF ProgramsAssumption
<1>7. \A i \in DOMAIN Front(fs) : Front(fs)[i] = fs[i] /\ i \in DOMAIN fs
  BY <1>2, <1>3
<1>8. IsStack(Front(fs))
  BY <1>2, <1>6, <1>7 DEF IsStack
<1>9. Last(fs).then.c # "kernel" => SameKernels(fs, Front(fs))
  BY <1>2, <1>3, <1>7 DEF SameKernels, InKernel
<1>10. Last(fs).then.c = "kernel" => InKernel(Front(fs)) = InKernel(fs) \ {Len(fs)}
  BY <1>2, <1>3, <1>7 DEF InKernel
<1> QED
  BY <1>2, <1>3, <1>4, <1>5, <1>8, <1>9, <1>10

-----------------------------------------------------------------------------
\* The lists of a frame.

LEMMA CurrentOf ==
  ASSUME ProgramsAssumption, program \in Programs, NEW fr, IsFrame(fr), fr.pc <= Len(Code(fr))
  PROVE  /\ IsList(Current(fr).tgt) /\ IsList(Current(fr).groups)
         /\ \A g \in DOMAIN Current(fr).groups : IsList(Current(fr).groups[g])
         /\ Current(fr).k \in DOMAIN Operands =>
              DOMAIN Current(fr).groups = 1..Operands[Current(fr).k]
<1> DEFINE d == program[fr.op]
           nodes == DOMAIN d.types
           code == d.code
<1>1. IsDefinition(d)
  BY DEF ProgramsAssumption, IsFrame
<1>2. /\ code \in Seq(Assignments(nodes))
      /\ \A i \in DOMAIN code :
           code[i].k \in DOMAIN Operands => Len(code[i].groups) = Operands[code[i].k]
  BY <1>1 DEF IsDefinition
<1>3. Code(fr) = code /\ Current(fr) = code[fr.pc]
  BY DEF Code, Current
<1> HIDE DEF nodes, code
<1>4. fr.pc \in DOMAIN code
  BY <1>2, <1>3 DEF IsFrame
<1>5. code[fr.pc] \in Assignments(nodes)
  BY <1>2, <1>4
<1> DEFINE a == code[fr.pc]
<1>6. a.tgt \in Seq(nodes) /\ a.groups \in Seq(Seq(nodes))
  BY <1>5 DEF Assignments
<1>7. a.k \in DOMAIN Operands => Len(a.groups) = Operands[a.k]
  BY <1>2, <1>4
<1> HIDE DEF a
<1>8. IsList(a.tgt) /\ IsList(a.groups)
  BY <1>6, ListOf
<1>9. \A g \in DOMAIN a.groups : a.groups[g] \in Seq(nodes)
  BY <1>6
<1>10. \A g \in DOMAIN a.groups : IsList(a.groups[g])
  BY <1>9, ListOf
<1>11. DOMAIN a.groups = 1..Len(a.groups)
  BY <1>8, Lists
<1> QED
  BY <1>3, <1>7, <1>8, <1>10, <1>11 DEF a

LEMMA GroupIsList ==
  ASSUME ProgramsAssumption, program \in Programs, NEW fr, IsFrame(fr), fr.pc <= Len(Code(fr)),
         NEW g \in DOMAIN Current(fr).groups
  PROVE  IsList(Group(fr, g)) /\ IsList(RuntimeArgs(Group(fr, g)))
<1> DEFINE ns == Current(fr).groups[g]
           group == [i \in DOMAIN ns |-> Input(fr, ns[i])]
<1>1. IsList(ns)
  BY CurrentOf
<1>2. Group(fr, g) = group
  BY DEF Group, Inputs
<1> HIDE DEF ns
<1>3. group = [i \in DOMAIN ns |-> group[i]]
  OBVIOUS
<1>4. IsList(group)
  BY <1>1, <1>3, MappedIsList
<1>5. IsList(RuntimeArgs(group))
  BY <1>4, PickedIsList DEF RuntimeArgs
<1> QED
  BY <1>2, <1>4, <1>5

LEMMA OutputsIsList ==
  ASSUME ProgramsAssumption, program \in Programs, NEW fr, IsFrame(fr), fr.pc <= Len(Code(fr)),
         NEW n
  PROVE  /\ IsList(FreshOf(n, RuntimeAmong(Outputs(fr))))
<1> DEFINE tgt == Current(fr).tgt
           types == [i \in DOMAIN tgt |-> Label(fr, tgt[i])]
<1>1. IsList(tgt)
  BY CurrentOf
<1>2. Outputs(fr) = types
  BY DEF Outputs
<1> HIDE DEF tgt
<1>3. types = [i \in DOMAIN tgt |-> types[i]]
  OBVIOUS
<1>4. IsList(types)
  BY <1>1, <1>3, MappedIsList
<1> HIDE DEF types
<1>5. IsList(RuntimeAmong(types))
  BY <1>4, PickedIsList DEF RuntimeAmong
<1> QED
  BY <1>2, <1>5, FreshIsList

LEMMA InterfaceLists ==
  ASSUME ProgramsAssumption, program \in Programs, NEW f \in DOMAIN program
  PROVE  IsList(program[f].ins) /\ IsList(program[f].outs) /\ IsList(Names)
<1>1. IsDefinition(program[f]) /\ Names \in Seq(DOMAIN program)
  BY DEF ProgramsAssumption
<1>2. program[f].ins \in Seq(DOMAIN program[f].types) /\ program[f].outs \in Seq(DOMAIN program[f].types)
  BY <1>1 DEF IsDefinition
<1> QED
  BY <1>1, <1>2, ListOf

LEMMA ResultsIsList ==
  ASSUME ProgramsAssumption, program \in Programs, NEW fr, IsFrame(fr)
  PROVE  IsList(RuntimeArgs(Inputs(fr, program[fr.op].outs)))
<1> DEFINE ns == program[fr.op].outs
           results == [i \in DOMAIN ns |-> Input(fr, ns[i])]
<1>1. IsList(ns)
  BY InterfaceLists DEF IsFrame
<1>2. Inputs(fr, ns) = results
  BY DEF Inputs
<1> HIDE DEF ns
<1>3. results = [i \in DOMAIN ns |-> results[i]]
  OBVIOUS
<1>4. IsList(results)
  BY <1>1, <1>3, MappedIsList
<1> HIDE DEF results
<1>5. IsList(RuntimeArgs(results))
  BY <1>4, PickedIsList DEF RuntimeArgs
<1> QED
  BY <1>2, <1>5 DEF ns

LEMMA ParametersIsList ==
  ASSUME ProgramsAssumption, program \in Programs, NEW f \in DOMAIN program,
         NEW captures, IsList(captures), NEW n
  PROVE  IsList(FreshOf(n, RuntimeAmong(Parameters(f, captures))))
<1> DEFINE ins == program[f].ins
           m == Len(ins) - Len(captures)
           types == [i \in 1..m |-> program[f].types[ins[Len(captures) + i]]]
<1>1. Len(ins) \in Nat /\ Len(captures) \in Nat
  BY InterfaceLists, Lists
<1>2. Parameters(f, captures) = types
  BY DEF Parameters
<1>3. m \in Int
  BY <1>1
<1> HIDE DEF m, ins
<1>4. PICK k \in Nat : 1..m = 1..k
  <2>1. CASE m >= 0
    BY <1>3, <2>1
  <2>2. CASE m < 0
    <3>1. 1..m = 1..0
      BY <1>3, <2>2
    <3> QED
      BY <3>1
  <2> QED
    BY <1>3, <2>1, <2>2
<1>5. types = [i \in 1..k |-> types[i]]
  BY <1>4
<1> HIDE DEF types
<1>6. IsList(types)
  BY <1>5, CountedIsList
<1>7. IsList(RuntimeAmong(types))
  BY <1>6, PickedIsList DEF RuntimeAmong
<1> QED
  BY <1>2, <1>7, FreshIsList

-----------------------------------------------------------------------------
\* What the stack is after a step.

LEMMA StackPrimed ==
  ASSUME NEW gs, IsStack(gs), frames' = gs, program' = program
  PROVE  IsStack(frames)'
BY DEF IsStack, IsFrame

LEMMA KernelsKept ==
  ASSUME KernelInv, SameKernels(frames, frames'), UNCHANGED <<place, cache>>
  PROVE  KernelInv'
<1>1. InKernel(frames)' = InKernel(frames)
  BY DEF SameKernels, InKernel
<1>2. \A i \in InKernel(frames) : frames'[i].then = frames[i].then
  BY DEF SameKernels
<1>3. \A key : Known(key)' = Known(key)
  BY DEF Known
<1> QED
  BY <1>1, <1>2, <1>3 DEF KernelInv

LEMMA CacheKept ==
  ASSUME CacheInv, UNCHANGED <<functions, kernels, cache>>
  PROVE  CacheInv'
BY DEF CacheInv

-----------------------------------------------------------------------------
\* One lemma for each action.

LEMMA NextExportIsKnown ==
  ASSUME ProgramsAssumption, program \in Programs, IsList(functions), Exporting
  PROVE  NextExport \in DOMAIN program
<1> DEFINE isExported(f) ==
             /\ f \notin Hidden
             /\ "fn" \in Interface(f) \/ Interface(f) \subseteq AbiTypes \cup {"proof"}
           I == {i \in DOMAIN Names : isExported(Names[i])}
<1>1. Exported = Picked(Names, I)
  BY DEF Exported
<1>2. Names \in Seq(DOMAIN program) /\ I \subseteq DOMAIN Names
  BY DEF ProgramsAssumption
<1> HIDE DEF I
<1>3. IsList(Names)
  BY <1>2, ListOf
<1>4. /\ Len(functions) \in Nat
      /\ Len(functions) < Len(Exported) /\ Len(Exported) = Cardinality(I) /\ IsFiniteSet(I)
  BY <1>1, <1>2, <1>3, PickedIsList, Lists DEF Exporting
<1>5. Len(functions) + 1 \in 1..Cardinality(I)
  BY <1>4, FS_CardinalityType
<1>6. PICK n \in I : Picked(Names, I)[Len(functions) + 1] = Names[n]
  BY <1>2, <1>3, <1>5, PickedFrom
<1> QED
  BY <1>1, <1>2, <1>6 DEF NextExport

LEMMA FunctionStartStep ==
  ASSUME ProgramsAssumption, LoweringInv, FunctionStart
  PROVE  LoweringInv'
<1> DEFINE f == NextExport
           ins == program[f].ins
           types == [i \in DOMAIN ins |-> program[f].types[ins[i]]]
           inputs == FreshOf(next, RuntimeAmong(types))
           then == [c |-> "entry", inputs |-> inputs]
           args == Filled(types, inputs)
           fr == Frame(f, args, then)
           gs == Append(<<>>, fr)
<1>1. /\ Exporting /\ frames' = <<fr>> /\ next' = next + Len(inputs)
      /\ UNCHANGED <<program, functions, kernels, cache, place, status>>
  BY DEF FunctionStart
<1>2. frames = <<>> /\ next \in Nat /\ program \in Programs /\ IsStack(frames)
      /\ KernelInv /\ CacheInv
  BY <1>1 DEF LoweringInv, Exporting
<1>3. f \in DOMAIN program
  BY <1>1, <1>2, NextExportIsKnown DEF CacheInv
<1>4. then.c = "entry"
  OBVIOUS
<1>5. Callable(frames, f)
  BY <1>2, <1>3, ProgramsAssumption DEF Callable, ProgramsAssumption
<1>6. Len(inputs) \in Nat
  <2>1. IsList(ins)
    BY <1>2, <1>3, InterfaceLists
  <2> HIDE DEF ins
  <2>2. types = [i \in DOMAIN ins |-> types[i]]
    OBVIOUS
  <2>3. IsList(types)
    BY <2>1, <2>2, MappedIsList
  <2> HIDE DEF types
  <2>4. IsList(RuntimeAmong(types))
    BY <2>3, PickedIsList DEF RuntimeAmong
  <2>5. IsList(inputs)
    BY <2>4, FreshIsList
  <2> QED
    BY <2>5, Lists
<1> HIDE DEF f, args, then, fr
<1>7. frames' = Append(frames, fr)
  BY <1>1, <1>2
<1>8. IsStack(frames') /\ SameKernels(frames, frames')
  BY <1>2, <1>4, <1>5, <1>7, PushedStack DEF fr
<1>9. IsStack(frames)'
  BY <1>1, <1>8, StackPrimed
<1> QED
  BY <1>1, <1>2, <1>6, <1>8, <1>9, KernelsKept, CacheKept DEF LoweringInv

\* The caller takes the results of its current assignment, and nothing is written
\* of a kernel.
LEMMA Assigning ==
  ASSUME LoweringInv, frames # <<>>, NEW results, frames' = Assigned(frames, results),
         next' \in Nat, UNCHANGED <<program, functions, kernels, cache, place, status>>
  PROVE  LoweringInv'
<1>1. IsStack(frames) /\ KernelInv /\ CacheInv
  BY DEF LoweringInv
<1>2. IsStack(frames') /\ SameKernels(frames, frames')
  BY <1>1, AssignedStack
<1>3. IsStack(frames)'
  BY <1>2, StackPrimed
<1> QED
  BY <1>1, <1>2, <1>3, KernelsKept, CacheKept DEF LoweringInv

\* The same of the frame below the one that is over.
LEMMA Returning ==
  ASSUME LoweringInv, frames # <<>>, Top.then.c \notin {"entry", "kernel"},
         NEW results, frames' = Assigned(Callers, results),
         next' \in Nat, UNCHANGED <<program, functions, kernels, cache, place, status>>
  PROVE  LoweringInv'
<1>1. IsStack(frames) /\ KernelInv /\ CacheInv
  BY DEF LoweringInv
<1>2. IsStack(Callers) /\ Callers # <<>> /\ SameKernels(frames, Callers)
  BY <1>1, PoppedStack DEF Callers, Top
<1>3. IsStack(frames') /\ SameKernels(Callers, frames')
  BY <1>2, AssignedStack
<1>4. IsStack(frames)'
  BY <1>3, StackPrimed
<1>5. SameKernels(frames, frames')
  BY <1>2, <1>3 DEF SameKernels
<1> QED
  BY <1>1, <1>4, <1>5, KernelsKept, CacheKept DEF LoweringInv

\* A call that is not of a kernel.
LEMMA Calling ==
  ASSUME ProgramsAssumption, LoweringInv, frames # <<>>,
         NEW f, Callable(frames, f), NEW args, NEW then, then.c \notin {"entry", "kernel"},
         then.c = "no" => IsList(then.left), then.c = "loop" => IsList(then.state),
         frames' = Append(frames, Frame(f, args, then)),
         next' \in Nat, UNCHANGED <<program, functions, kernels, cache, place, status>>
  PROVE  LoweringInv'
<1>1. IsStack(frames) /\ KernelInv /\ CacheInv
  BY DEF LoweringInv
<1>2. IsStack(frames') /\ SameKernels(frames, frames')
  BY <1>1, PushedStack
<1>3. IsStack(frames)'
  BY <1>2, StackPrimed
<1> QED
  BY <1>1, <1>2, <1>3, KernelsKept, CacheKept DEF LoweringInv

\* A call in the place of the one that is over.
LEMMA CallingNext ==
  ASSUME ProgramsAssumption, LoweringInv, frames # <<>>, Top.then.c \notin {"entry", "kernel"},
         NEW f, Callable(Callers, f), NEW args, NEW then, then.c \notin {"entry", "kernel"},
         then.c = "no" => IsList(then.left), then.c = "loop" => IsList(then.state),
         frames' = Append(Callers, Frame(f, args, then)),
         next' \in Nat, UNCHANGED <<program, functions, kernels, cache, place, status>>
  PROVE  LoweringInv'
<1>1. IsStack(frames) /\ KernelInv /\ CacheInv
  BY DEF LoweringInv
<1>2. IsStack(Callers) /\ Callers # <<>> /\ SameKernels(frames, Callers)
  BY <1>1, PoppedStack DEF Callers, Top
<1>3. IsStack(frames') /\ SameKernels(Callers, frames')
  BY <1>2, PushedStack
<1>4. IsStack(frames)'
  BY <1>3, StackPrimed
<1>5. SameKernels(frames, frames')
  BY <1>2, <1>3 DEF SameKernels
<1> QED
  BY <1>1, <1>4, <1>5, KernelsKept, CacheKept DEF LoweringInv

LEMMA TopFrame ==
  ASSUME LoweringInv, frames # <<>>
  PROVE  IsFrame(Top) /\ program \in Programs /\ next \in Nat
BY PoppedStack DEF LoweringInv, Top

LEMMA FunctionEndStep ==
  ASSUME LoweringInv, FunctionEnd
  PROVE  LoweringInv'
<1>1. /\ frames # <<>> /\ Top.then.c = "entry" /\ frames' = <<>>
      /\ UNCHANGED <<program, kernels, cache, place, next, status>>
  BY DEF FunctionEnd, Over
<1>2. PICK fn : functions' = Append(functions, fn)
  BY DEF FunctionEnd
<1>3. IsStack(frames) /\ KernelInv /\ CacheInv
  BY DEF LoweringInv
<1>4. /\ IsStack(Front(frames)) /\ Len(frames) = 1
      /\ SameKernels(frames, Front(frames))
  BY <1>1, <1>3, PoppedStack DEF Top
<1>5. Front(frames) = <<>>
  <2>1. IsList(frames)
    BY <1>3 DEF IsStack
  <2>2. IsList(Front(frames)) /\ Len(Front(frames)) = 0
    BY <1>1, <1>4, <2>1, Popped
  <2> QED
    BY <2>2, EmptySeq DEF IsList
<1>6. IsStack(frames)'
  BY <1>1, <1>4, <1>5, StackPrimed
<1>7. IsList(functions)'
  BY <1>2, <1>3, Pushed DEF CacheInv
<1> QED
  BY <1>1, <1>3, <1>4, <1>5, <1>6, <1>7, KernelsKept DEF LoweringInv, CacheInv

LEMMA PrimitiveStep ==
  ASSUME ProgramsAssumption, LoweringInv, Primitive
  PROVE  LoweringInv'
<1> DEFINE made == FreshOf(next, RuntimeAmong(Outputs(Top)))
<1>1. /\ frames # <<>> /\ Top.pc <= Len(Code(Top))
      /\ next' = next + Len(made) /\ frames' = Assigned(frames, Filled(Outputs(Top), made))
      /\ UNCHANGED <<program, functions, kernels, cache, place, status>>
  BY DEF Primitive, At
<1>2. IsList(made)
  BY <1>1, TopFrame, OutputsIsList
<1>3. next' \in Nat
  BY <1>1, <1>2, TopFrame, Lists
<1> QED
  BY <1>1, <1>3, Assigning

LEMMA NameStep ==
  ASSUME LoweringInv, Name
  PROVE  LoweringInv'
<1>1. /\ frames # <<>> /\ frames' = Assigned(frames, <<Function(Current(Top).n)>>)
      /\ UNCHANGED <<program, functions, kernels, cache, place, next, status>>
  BY DEF Name, At
<1> QED
  BY <1>1, TopFrame, Assigning

LEMMA CallStep ==
  ASSUME ProgramsAssumption, LoweringInv, Call
  PROVE  LoweringInv'
<1> DEFINE args == FlattenSeq([g \in DOMAIN Current(Top).groups |-> Group(Top, g)])
           direct == Current(Top).k = "call"
           f == IF direct THEN Current(Top).n ELSE Last(args).f
           given == IF direct THEN args ELSE Front(args)
           then == [c |-> "assign"]
<1>1. /\ frames # <<>> /\ Callable(frames, f)
      /\ frames' = Append(frames, Frame(f, given, then))
      /\ UNCHANGED <<program, functions, kernels, cache, place, next, status>>
  BY DEF Call, At
<1>2. then.c = "assign"
  OBVIOUS
<1> HIDE DEF f, given, then
<1> QED
  BY <1>1, <1>2, TopFrame, Calling

LEMMA ReturnStep ==
  ASSUME LoweringInv, Return
  PROVE  LoweringInv'
<1>1. /\ frames # <<>> /\ Top.then.c = "assign" /\ frames' = Assigned(Callers, Results)
      /\ UNCHANGED <<program, functions, kernels, cache, place, next, status>>
  BY DEF Return, Over
<1> QED
  BY <1>1, TopFrame, Returning

LEMMA IfStartStep ==
  ASSUME ProgramsAssumption, LoweringInv, IfStart
  PROVE  LoweringInv'
<1> DEFINE f == Argument(Top, 4).f
           args == CallbackArgs(f, Group(Top, 3), RuntimeArgs(Group(Top, 2)))
           then == [c |-> "yes", outer |-> body]
<1>1. /\ frames # <<>> /\ Callable(frames, f)
      /\ frames' = Append(frames, Frame(f, args, then))
      /\ UNCHANGED <<program, functions, kernels, cache, place, next, status>>
  BY DEF IfStart, Branch, At
<1>2. then.c = "yes"
  OBVIOUS
<1> HIDE DEF f, args, then
<1> QED
  BY <1>1, <1>2, TopFrame, Calling

LEMMA IfElseStep ==
  ASSUME ProgramsAssumption, LoweringInv, IfElse
  PROVE  LoweringInv'
<1> DEFINE f == Argument(Caller, 6).f
           args == CallbackArgs(f, Group(Caller, 5), RuntimeArgs(Group(Caller, 2)))
           left == RuntimeArgs(Results)
           then == [c |-> "no", outer |-> Top.then.outer, yes |-> body, left |-> left]
<1>1. /\ frames # <<>> /\ Top.then.c = "yes" /\ Callable(Callers, f)
      /\ frames' = Append(Callers, Frame(f, args, then))
      /\ UNCHANGED <<program, functions, kernels, cache, place, next, status>>
  BY DEF IfElse, Branch, Over
<1>2. IsList(left)
  BY <1>1, TopFrame, ResultsIsList DEF Results
<1> HIDE DEF left
<1>3. then.c = "no" /\ then.left = left
  OBVIOUS
<1> HIDE DEF f, args, then
<1> QED
  BY <1>1, <1>2, <1>3, TopFrame, CallingNext

LEMMA IfEndStep ==
  ASSUME LoweringInv, IfEnd
  PROVE  LoweringInv'
<1> DEFINE merged == Fresh(next, Top.then.left)
<1>1. /\ frames # <<>> /\ Top.then.c = "no" /\ next' = next + Len(merged)
      /\ frames' = Assigned(Callers, Filled(Outputs(Caller), merged))
      /\ UNCHANGED <<program, functions, kernels, cache, place, status>>
  BY DEF IfEnd, Over
<1>2. IsList(Top.then.left)
  BY <1>1, TopFrame DEF IsFrame
<1>3. Len(merged) \in Nat
  BY <1>2, FreshIsList, Lists
<1> HIDE DEF merged
<1>4. next' \in Nat
  BY <1>1, <1>3, TopFrame
<1> QED
  BY <1>1, <1>4, Returning

LEMMA FoldStartStep ==
  ASSUME ProgramsAssumption, LoweringInv, FoldStart
  PROVE  LoweringInv'
<1> DEFINE f == Argument(Top, 4).f
           initial == RuntimeArgs(Group(Top, 2))
           state == Fresh(next, initial)
           index == Runtime(next + Len(state) + 1, "u32")
           args == CallbackArgs(f, Group(Top, 3), <<index>> \o state)
           then == [c |-> "loop", outer |-> body \o Copies(state, initial),
                    index |-> index.v, state |-> state]
<1>1. /\ At({"fold"}) /\ Callable(frames, f)
      /\ frames' = Append(frames, Frame(f, args, then)) /\ next' = index.v
      /\ UNCHANGED <<program, functions, kernels, cache, place, status>>
  BY DEF FoldStart
<1>2. frames # <<>> /\ Top.pc <= Len(Code(Top)) /\ Current(Top).k = "fold"
  BY <1>1 DEF At
<1>3. 2 \in DOMAIN Current(Top).groups
  BY <1>2, TopFrame, CurrentOf DEF Operands
<1>4. IsList(initial)
  BY <1>2, <1>3, TopFrame, GroupIsList
<1>5. IsList(state) /\ Len(state) \in Nat
  BY <1>4, FreshIsList, Lists
<1>6. index.v = next + Len(state) + 1
  BY DEF Runtime
<1> HIDE DEF state, index
<1>7. next' \in Nat
  BY <1>1, <1>2, <1>5, <1>6, TopFrame
<1>8. then.c = "loop" /\ then.state = state
  OBVIOUS
<1> HIDE DEF f, args, then
<1> QED
  BY <1>1, <1>2, <1>5, <1>7, <1>8, Calling

LEMMA FoldEndStep ==
  ASSUME LoweringInv, FoldEnd
  PROVE  LoweringInv'
<1> DEFINE snapshots == Fresh(next, Top.then.state)
<1>1. /\ frames # <<>> /\ Top.then.c = "loop" /\ next' = next + Len(snapshots)
      /\ frames' = Assigned(Callers, Filled(Outputs(Caller), Top.then.state))
      /\ UNCHANGED <<program, functions, kernels, cache, place, status>>
  BY DEF FoldEnd, Over
<1>2. IsList(Top.then.state)
  BY <1>1, TopFrame DEF IsFrame
<1>3. Len(snapshots) \in Nat
  BY <1>2, FreshIsList, Lists
<1> HIDE DEF snapshots
<1>4. next' \in Nat
  BY <1>1, <1>3, TopFrame
<1> QED
  BY <1>1, <1>4, Returning

LEMMA LaunchKnownStep ==
  ASSUME LoweringInv, LaunchKnown
  PROVE  LoweringInv'
<1>1. /\ frames # <<>> /\ frames' = Assigned(frames, Filled(Outputs(Top), <<>>))
      /\ UNCHANGED <<program, functions, kernels, cache, place, next, status>>
  BY DEF LaunchKnown, At
<1> QED
  BY <1>1, TopFrame, Assigning

\* On the host no kernel is being written, so that the one that is started is the
\* only one, and it is not in the cache.
LEMMA LaunchStartStep ==
  ASSUME ProgramsAssumption, LoweringInv, LaunchStart
  PROVE  LoweringInv'
<1> DEFINE f == Argument(Top, 3).f
           captures == Group(Top, 2)
           grid == Runtime(next + 1, "grid")
           inputs == Fresh(next + 1, RuntimeArgs(captures))
           rank(i) == Len(RuntimeArgs(SubSeq(captures, 1, i)))
           captured == [i \in DOMAIN captures |->
                          IF captures[i].r = "runtime" THEN inputs[rank(i)] ELSE captures[i]]
           data == FreshOf(next + 1 + Len(inputs), RuntimeAmong(Parameters(f, captures)))
           args == CallbackArgs(f, captured, data)
           key == Key(f, captures)
           then == [c |-> "kernel", outer |-> body, key |-> key,
                    inputs |-> <<grid>> \o inputs,
                    arguments |-> <<Argument(Top, 1).v>> \o Exprs(RuntimeArgs(captures))]
<1>1. /\ At({"launch"}) /\ place = "host" /\ Known(key) = {} /\ Callable(frames, f)
      /\ frames' = Append(frames, Frame(f, args, then))
      /\ next' = next + 1 + Len(inputs) + Len(data) /\ place' = "device"
      /\ UNCHANGED <<program, functions, kernels, cache, status>>
  BY DEF LaunchStart
<1>2. frames # <<>> /\ Top.pc <= Len(Code(Top)) /\ Current(Top).k = "launch"
  BY <1>1 DEF At
<1>3. 2 \in DOMAIN Current(Top).groups
  BY <1>2, TopFrame, CurrentOf DEF Operands
<1>4. IsList(captures) /\ IsList(RuntimeArgs(captures))
  BY <1>2, <1>3, TopFrame, GroupIsList
<1> HIDE DEF f, captures
<1>5. Len(inputs) \in Nat
  BY <1>4, FreshIsList, Lists
<1>6. Len(data) \in Nat
  <2>1. f \in DOMAIN program
    BY <1>1 DEF Callable
  <2>2. IsList(data)
    BY <1>2, <1>4, <2>1, TopFrame, ParametersIsList
  <2> QED
    BY <2>2, Lists
<1> HIDE DEF inputs, data
<1>7. next' \in Nat
  BY <1>1, <1>2, <1>5, <1>6, TopFrame
<1>8. then.c = "kernel" /\ then.key = key
  OBVIOUS
<1> HIDE DEF then, args, key
<1>9. IsStack(frames) /\ KernelInv /\ CacheInv
  BY DEF LoweringInv
<1>10. /\ IsStack(frames') /\ frames'[Len(frames')].then = then
       /\ \A i \in DOMAIN frames : frames'[i] = frames[i]
       /\ InKernel(frames') = InKernel(frames) \cup {Len(frames')}
  BY <1>1, <1>2, <1>8, <1>9, PushedStack
<1>11. InKernel(frames) = {}
  BY <1>1, <1>9 DEF KernelInv
<1>12. InKernel(frames)' = {Len(frames')} /\ \A k : Known(k)' = Known(k)
  BY <1>1, <1>10, <1>11 DEF InKernel, Known
<1>13. KernelInv'
  BY <1>1, <1>8, <1>10, <1>12 DEF KernelInv
<1>14. IsStack(frames)'
  BY <1>1, <1>10, StackPrimed
<1> QED
  BY <1>1, <1>7, <1>9, <1>13, <1>14, CacheKept DEF LoweringInv

LEMMA LaunchEndStep ==
  ASSUME LoweringInv, LaunchEnd
  PROVE  LoweringInv'
<1> DEFINE results == Filled(Outputs(Caller), <<>>)
           entry == [key |-> Top.then.key, symbol |-> next']
<1>1. /\ frames # <<>> /\ Top.then.c = "kernel" /\ next' = next + 1 /\ place' = "host"
      /\ cache' = Append(cache, entry)
      /\ DOMAIN kernels' = DOMAIN kernels \cup {next'}
      /\ frames' = Assigned(Callers, results)
      /\ UNCHANGED <<program, functions, status>>
  BY DEF LaunchEnd, Over
<1>2. IsStack(frames) /\ KernelInv /\ CacheInv /\ next' \in Nat
  BY <1>1 DEF LoweringInv
<1>3. /\ IsStack(Callers) /\ Callers # <<>>
      /\ Len(frames) \in DOMAIN frames /\ Top = frames[Len(frames)]
      /\ InKernel(Callers) = InKernel(frames) \ {Len(frames)}
  BY <1>1, <1>2, PoppedStack DEF Callers, Top
<1>4. Len(frames) \in InKernel(frames)
  BY <1>1, <1>3 DEF InKernel
<1>5. Known(Top.then.key) = {} /\ InKernel(Callers) = {}
  BY <1>2, <1>3, <1>4 DEF KernelInv
<1>6. IsStack(frames') /\ SameKernels(Callers, frames')
  BY <1>1, <1>3, AssignedStack
<1>7. IsStack(frames)'
  BY <1>1, <1>6, StackPrimed
<1>8. InKernel(frames)' = {}
  BY <1>5, <1>6 DEF SameKernels, InKernel
<1>9. KernelInv'
  BY <1>1, <1>8 DEF KernelInv
<1>10. entry.key = Top.then.key /\ entry.symbol = next'
  OBVIOUS
<1> HIDE DEF entry
<1>11. /\ IsList(cache') /\ Len(cache') = Len(cache) + 1 /\ Len(cache) \in Nat
       /\ DOMAIN cache = 1..Len(cache) /\ DOMAIN cache' = 1..(Len(cache) + 1)
       /\ cache'[Len(cache) + 1] = entry
       /\ \A i \in 1..Len(cache) : cache'[i] = cache[i]
  BY <1>1, <1>2, Pushed, Lists DEF CacheInv
<1>12. \A i \in DOMAIN cache : cache[i].key # Top.then.key
  BY <1>5 DEF Known
<1>13. DOMAIN kernels' = {cache'[i].symbol : i \in DOMAIN cache'}
  BY <1>1, <1>2, <1>10, <1>11 DEF CacheInv
<1>14. ASSUME NEW i \in DOMAIN cache', NEW j \in DOMAIN cache', cache'[i].key = cache'[j].key
       PROVE  i = j
  BY <1>2, <1>10, <1>11, <1>12, <1>14 DEF CacheInv
<1>15. CacheInv'
  BY <1>1, <1>2, <1>11, <1>13, <1>14 DEF CacheInv
<1> QED
  BY <1>1, <1>2, <1>7, <1>9, <1>15 DEF LoweringInv

LEMMA StandStep ==
  ASSUME LoweringInv, Refuse \/ Finish \/ UNCHANGED vars
  PROVE  LoweringInv'
<1>1. /\ UNCHANGED <<program, functions, kernels, cache, frames, place, next>>
      /\ status' \in {"lowering", "done", "refused", "invalid"}
  BY DEF LoweringInv, Refuse, Finish, vars
<1>2. IsStack(frames) /\ KernelInv /\ CacheInv
  BY DEF LoweringInv
<1>3. IsStack(frames)' /\ SameKernels(frames, frames')
  BY <1>1, <1>2, StackPrimed DEF SameKernels, InKernel
<1> QED
  BY <1>1, <1>2, <1>3, KernelsKept, CacheKept DEF LoweringInv

-----------------------------------------------------------------------------

LEMMA LoweringInit ==
  ASSUME ProgramsAssumption, Init
  PROVE  LoweringInv
<1>1. /\ IsList(<<>>) /\ Len(<<>>) = 0 /\ DOMAIN <<>> = {} /\ MaxDepth \in Nat
  BY DEF IsList, ProgramsAssumption
<1> QED
  BY <1>1 DEF Init, LoweringInv, IsStack, KernelInv, InKernel, CacheInv

LEMMA LoweringSafe ==
  ASSUME ProgramsAssumption, LoweringInv
  PROVE  TypeOK
<1>1. IsStack(frames) /\ KernelInv /\ CacheInv
  BY DEF LoweringInv
<1> DEFINE called == [i \in DOMAIN frames |-> frames[i].op]
           inKernel == {i \in DOMAIN frames : frames[i].then.c = "kernel"}
<1>2. inKernel = InKernel(frames)
  BY DEF InKernel
<1>3. IsInjective(called)
  BY <1>1 DEF IsInjective, IsStack
<1> HIDE DEF inKernel
<1>4. Cardinality(inKernel) <= 1
  <2>1. CASE inKernel = {}
    BY <2>1, FS_EmptySet
  <2>2. CASE inKernel # {}
    <3>1. PICK i : inKernel = {i}
      BY <1>1, <1>2, <2>2 DEF KernelInv
    <3>2. Cardinality({i}) = 1
      BY FS_Singleton
    <3> QED
      BY <3>1, <3>2
  <2> QED
    BY <2>1, <2>2
<1> QED
  BY <1>1, <1>2, <1>3, <1>4 DEF LoweringInv, IsStack, KernelInv, CacheInv, TypeOK, inKernel

\* lower_to_ir: the stack is no deeper than MAX_CALL_DEPTH and has no definition
\* twice, the host and the device are told apart by the one kernel that is being
\* written, and the cache has one symbol for each key and each kernel.
THEOREM Types == Spec => []TypeOK
<1>1. Init => LoweringInv
  BY ProgramsAssumption, LoweringInit
<1>2. LoweringInv /\ [Next]_vars => LoweringInv'
  <2> SUFFICES ASSUME LoweringInv, [Next]_vars
               PROVE  LoweringInv'
    OBVIOUS
  <2>1. CASE FunctionStart
    BY <2>1, ProgramsAssumption, FunctionStartStep
  <2>2. CASE FunctionEnd
    BY <2>2, FunctionEndStep
  <2>3. CASE Primitive
    BY <2>3, ProgramsAssumption, PrimitiveStep
  <2>4. CASE Name
    BY <2>4, NameStep
  <2>5. CASE Call
    BY <2>5, ProgramsAssumption, CallStep
  <2>6. CASE Return
    BY <2>6, ReturnStep
  <2>7. CASE IfStart
    BY <2>7, ProgramsAssumption, IfStartStep
  <2>8. CASE IfElse
    BY <2>8, ProgramsAssumption, IfElseStep
  <2>9. CASE IfEnd
    BY <2>9, IfEndStep
  <2>10. CASE FoldStart
    BY <2>10, ProgramsAssumption, FoldStartStep
  <2>11. CASE FoldEnd
    BY <2>11, FoldEndStep
  <2>12. CASE LaunchKnown
    BY <2>12, LaunchKnownStep
  <2>13. CASE LaunchStart
    BY <2>13, ProgramsAssumption, LaunchStartStep
  <2>14. CASE LaunchEnd
    BY <2>14, LaunchEndStep
  <2>15. CASE Refuse \/ Finish \/ UNCHANGED vars
    BY <2>15, StandStep
  <2>16. CASE Returned
    BY <2>16, StandStep DEF Returned
  <2> QED
    BY <2>1, <2>2, <2>3, <2>4, <2>5, <2>6, <2>7, <2>8, <2>9, <2>10, <2>11, <2>12, <2>13,
       <2>14, <2>15, <2>16 DEF Next
<1>3. LoweringInv => TypeOK
  BY ProgramsAssumption, LoweringSafe
<1> QED
  BY <1>1, <1>2, <1>3, PTL DEF Spec
=============================================================================
