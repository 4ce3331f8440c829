# Verification of catena-lang

catena-lang compiles a categorical language for GPU programs: sources are
checked and elaborated, lowered by a sequence of passes to a flat program,
printed as C++/HIP/CUDA, compiled by the vendor's compiler into a shared
object, and executed either in the process (`Runtime`) or in a child process
(`SafeRuntime`).  This directory holds TLA+ models of the parts whose
correctness depends on the order of events, TLC runs over small instances, and
proofs checked by TLAPS.  Paths below are relative to `src/catena-lang/src/`
unless they name another directory.

## Inventory

| Component | State | Operations and interactions | What is hard | What must be true |
|---|---|---|---|---|
| Safe runtime (`safe_runtime/`) | per host a `SafeSession` (mutex, `WorkerProcess` with pipes, `termination`); per child `artifacts`, `pending_outputs`, imported mappings | `SafeRuntime::new/load`, `Artifact::exec_values`, the drops of the handles; `run_child_loop` serves requests from stdin; device memory crosses as IPC handles | threads share the session; the child may die anywhere; each process maps memory that the other frees; a release request that is never answered | answers meet their requests, at most one execution per call, no allocation leaks or is freed while mapped, deaths are reported truly, nobody waits for ever |
| Compile caches (`runtime/module_cache.rs`, `runtime/artifact.rs`) | a directory of lock files, entries and temporary files shared by all processes of a user | `get_or_compile`, `compile_cached` | processes killed between two steps; the directory deleted while in use; corrupted entries | only whole entries of the right key are served; a key is compiled once; nobody waits for the lock of a dead process |
| In-process runtime (`runtime/`, `gpu.rs`) | loaded libraries, device allocations | `Runtime::load`, `exec_values`, transfers | ownership of allocations across a C ABI | each allocation has one owner |
| Elaboration (`elaborate/`) | the theories, which each pass adds arrows to | type literals, validation, constants, partial applications, names | every pass sees what the one before added; helpers that call helpers; type maps that are cut and put together again | no arrow is replaced, generated arrows have the types they claim, helpers are reached from partial applications only |
| Passes (`pass/`, `nonstrict.rs`) | none | inlining of definitions, forgetting of closures, recording of boundary sizes, unpacking of products | recursion through the call graph, sharing; wires bent backwards behind the domain of a closure; units, which have no wire | termination, cycles found, interfaces and meaning kept |
| Closure conversion (`closure/`, after `pass/forget_closures.rs`) | the graph of each definition, the regions found in it, the generated functions | discover the regions, choose one, make a function of it, replace it, discover again; then erase the projections | the order of replacements; nested and captured closures; what is computed outside the path of a closure; type parameters | no assertion fails, no operation or wire is lost, generated functions have no closures, the meaning is kept |
| Code generation (`codegen/`) | the `Lowerer`: the block being written, host or device, the call stack, fresh names, the kernels so far | inline definitions at their calls and callbacks in branches, loops and kernels; validate; print | saved and restored fields under recursion, kernels shared by several launches, order of effects, scopes | the instructions do what the definitions do; misplaced and recursive operations are refused |
| Pipeline, command line, reports (`compile.rs`, `main.rs`, `check.rs`, `report/`, `source_merge.rs`, `stdlib*`) | the bundles visited and being visited, the files merged | resolve bundles, merge files, run the above in order | bundles shared by several others, or circular; declarations that repeat each other | every file once and after what it needs; only cycles, gaps and conflicts refused; what is compiled is what was written |

`PROJECT.json` lists every component with its status, and under `hazards` what
in this code is hard to test, each with the properties that cover it.

## Modules

**`SafeSession`** models `safe_runtime/mod.rs` with `protocol.rs` and `ipc.rs`.
Host threads (`Thread`) hold the handles `runtime` (the `SafeRuntime`) and
`arts` (the live `Artifact`s).  Each thread has a program counter `pc` whose
values are the points of the code between which other threads, the child or a
crash may come: `execLock -> execSend -> execRecv -> decode -> copyOut ->
relSend -> relRecv -> returning` is `Artifact::exec_values`.  `mutex`,
`poisoned`, `stdin` and `termination` are the `Mutex<WorkerProcess>`; `toChild`
and `toParent` the pipes.  The child's phases `boot, loop, import, copy, run,
export, unmap, reply` are `run_child_loop` and `execute_in_child`; `dead` and
`reaped` are a zombie and a process that was waited for.  Device memory is
counted exactly: `mem` and `cmem` are the live allocations of the two
processes, `maps` and `outMaps` what each has mapped of the other, `held`,
`call.own`, `call.vals` who owns what.  `ChildCrash` may happen at any moment,
also in the middle of writing an answer (`Torn`).  With `WaitMayFail`,
`waitpid` fails, as it does in a host that ignores `SIGCHLD`; with
`HostMayDie` the host is killed.

**`RemoteExecution`** is the abstract specification: a call runs its program
at most once, by the module of its handle, and only while the server is up;
success means that it ran, an error of the `Runtime` or `Unavailable` kind
that it did not.  `SafeSession` implements it under the mapping `Abstract`.

**`CompileCache`** models both caches, which share one protocol (lock, look
up, build, write a temporary file, rename) and differ in what a lookup
verifies (`Verified`).  Lock files are inodes (`Lock`): after the directory is
deleted two processes may hold locks on different inodes of one name.  A
content is named by the key it was built for; `Garbage` stands for a partial
or damaged file.

**`InlineDefinitions`** models `pass/inline_definitions.rs`.  The recursion of
`collect_inline_body` is the sequence `stack` of the definitions being visited,
above `None` for the loop of `collect_inline_bodies`; `todo` is what each loop
has still to do.  `Skip`, `FindCycle`, `FindMissing`, `Visit` and `Leave` are
the ways of one call, `Rewrite` and `Remove` the two loops of `run`.  A body is
what it calls and what it names; wires and repetitions are left out, so the
error of a body that does not fit where it is put (`Inline`) is too: the pass
runs on theories that were just checked.  `selected` may be anything, though
`compile.rs` selects only definitions with closures at their boundary; one
theory is modelled, the references of the others are `elsewhere`.
`Expansion` is the reference definition, by the least set of definitions that
one needs, without a traversal.

**`ClosureConversion`** models the loop of `closure/region_conversion.rs` with
what it calls, and the end of `closure/mod.rs`.  A term is a hypergraph
(**`Hypergraph`**) whose nodes are labelled with what the pass asks of a type:
does it hold a closure, is it a type parameter.  `Discover` finds the region of
each `!closure` marker (`FindRegion`: the edges on a path from domain to
codomain, those that end in a discarded result, and the names they call),
`Convert` is one round of the loop (choose a ready region, append its function,
splice the packed captures and the pointer in its place, rewrite primitives,
forget the regions), `Finish` the rewriting and erasure at the end.  A round
that the code ends by an error (`Refuses`) or a failed assertion (`Panics`) is
no step.  Definitions share a counter only, so one is converted.  The code keeps
numbers of nodes dense and the model does not, but a new edge has its place at
the end in both, which is what the scheduler's tie-break by marker sees.

**`ForgetClosures`** models `pass/forget_closures.rs` as the operator `Forget`
from typed source terms to the graphs that are converted: products are
flattened, a closure is the pair of its ends, composition and tensor are
joins, and an operation gets adapters that run backwards behind the domain of a
closure.  A call of a definition with a closure at its boundary becomes the
definition's body at once, as `closure/inline_named_calls.rs` has it before
regions are looked for, with the adapter at a product domain opened
(`Opened`).  **`MCClosureConversion`** writes the programs and
**`ClosureMeaning`** gives the reference: `Value` is what a graph computes at a
node, as an expression with bound variables, before conversion by its markers
and after it by the generated functions.

**`Compile`** models the way from a command to the terms that code generation
gets, and is composed of the modules below.  Its state is what the passes hand
on: `raw` (the theories), `terms` (their checked definitions) and `stage`, the
pass that is next.
**`Sources`** is `load_theories`: the recursion of `BundleRegistry::visit` is the
stack `active`, one frame for each bundle that is being visited, and
`MergeFile`, `SkipFile` and `RefuseFile` are one round of the loop over files.
**`Elaboration`** has an action for each pass of `elaborate`; partial
applications, whose uses see what earlier uses added, get one step each
(`SkipPartial`, `RefusePartial`, `AddPartial`), in any order of the definitions
and in the order of the text within one.  **`GeneratedArrows`** says what is
added: `PartialArrows` the arrow `partial.f.N` with its two kinds of helpers,
`NameArrow` that of a name, `ConstArrow` and `TypeArrow` those of constants.
An expression is the graph it denotes; `Slice` is `slice_term`.
**`NonStrict`** and **`Products`** model `nonstrict.rs`,
`pass/record_boundary_sizes.rs` and `pass/unpack_products.rs`; `Mapped` is the
action of a functor on a term, which the crates' `Functor` trait gives.
**`ClosureFunctor`** models `pass/forget_closures.rs` once more, as a functor on
terms with types: every operation, with products in its results.
(`ForgetClosures` builds the graphs of `ClosureConversion` directly, without
types.)  In `Compile` the definitions that still have a closure after
`forget closures` are left out from there on, as `ClosureConversion` is about
them; inlining is its result, `InlineDefinitions` being about its steps; and
`TypeOf` stands for the type checker, which is another crate's.
**`CompileMeaning`** gives the reference, `Means`, in which a partial
application is a function that waits for its other inputs, and `Runs`, which
executes flat terms by the recorded sizes.  **`MCCompile`** writes the commands.

**`Lowering`** models `lower_to_ir` of `codegen/default/`: `lower.rs`, the
operations of `ops/control.rs` and `ops/launch.rs`, and `validate.rs`.  The
recursion of `call`, `lower_operation` and `callback` is the sequence `frames`;
a frame's `then` is what its caller does with the results and what it had put
aside (`outer`, the branch already written, the inputs of the kernel).  `body`,
`place`, `next` and `cache` are fields of `Lowerer`.  `FunctionStart` and
`FunctionEnd` are the loop over definitions, `If...`, `Fold...` and `Launch...`
the steps between recursive calls, `LaunchKnown` a launch of a kernel that is
there already, `Refuse` the errors a well-typed program can cause, and `Finish`
is `validate`.  What a primitive computes is its name.  A type variable gets its
type from an argument, as `bind` does; the numbering of type witnesses in
`KernelKey` is left out.
**`LoweringMeaning`** gives both meanings: `Means` of a definition, by calling
functions on expressions, and `Runs` of instructions, by executing them on an
environment, with the scopes of C++ and the conversion that a launch does when
the type of an argument is not that of the parameter.
**`MCLowering`** writes the programs.

**`Collections`** has what the passes do with a `BTreeSet` of numbers, with
`filter` on a `Vec` and with a worklist (`Ascending`, `Picked`, `Reached`);
**`Hypergraph`** and **`Lowering`** use it.

Theorems are in **`SafeSessionProofs`** and, on top of it,
**`SessionProtocolProofs`**; in **`CompileCacheProofs`**,
**`InlineDefinitionsProofs`**, **`ElaborationProofs`** (which is also about
`Sources`), **`LoweringProofs`** and **`ClosureConversionProofs`**; the last three
cite the lemmas of **`CollectionsProofs`**.  **`MCSafeSession`**,
**`MCCompileCache`** and **`MCInlineDefinitions`** hold the symmetry sets for TLC.
`Forget`, `Value`, `Means`, `Runs` and the functors are recursive; they are kept
out of `ClosureConversion`, `Lowering` and `Elaboration`, so that these can be
proved about.

## Runs

| Run | Question | Bounds |
|---|---|---|
| `session_calls` | do answers, handles and terminations mean what they say, and do calls implement `RemoteExecution`? | 2 threads, 1+1 buffers, 2 modules, 2 loads, failing waits |
| `session_memory` | does every path of a call give back what it took, in an order in which nothing mapped is freed? | 2 threads, 2+2 buffers, 1 module |
| `session_live` | does every exchange end, the child get reaped, an orphan exit? | 2 threads, 1+1 buffers, 1 module, host deaths, failing waits |
| `session_deathReport` | (violated) is a death always reported with its status? | 2 threads |
| `session_closedStdin` | (violated) does a closed stdin always come with a termination? | 2 threads |
| `cache_locking` | is a key compiled by one process at a time, and only on a miss, and does the verifying cache serve only what was asked for? | 3 processes, 2 keys, crashes and damaged entries |
| `cache_native` | does the cache that verifies nothing, and does every request end? | 2 processes, 1 key, every failure but corruption |
| `inline_graphs` | are cycles found, and only cycles; are expansions complete; does removal leave a reference without its declaration; does the pass end? | 3 definitions, 1 nameable |
| `closure_programs` | is every closure converted, without a failed assertion, a lost operation or wire, or another meaning? | 440 programs: closures of 4 kinds, combined to depth 1, with 4 higher-order definitions |
| `closure_nested` | (violated) does no wire escape from a region? | 164 programs with a definition that computes before it captures |
| `compile_programs` | is what a command needs loaded, once and in order; does elaboration replace nothing and add only what it can type; are helpers private; does the flat program compute what was written? | 279 commands (see below) |
| `lowering_programs` | does the lowered code do what the definitions do, and are the right programs refused? | 3457 programs: two statements in `main`, one in the callback, or the other way round; loops run twice |

Why the bounds suffice.  One session serialises its calls, so a second thread
already produces every interleaving of an exchange with another thread's
drop, load or call; a third adds only more waiters.  Two buffers tell a
partial failure from a complete one; two modules and two loads tell an index
from another.  Calls may follow one another without bound: no counter but
`MaxLoads` limits a behaviour.  In the cache a third process adds waiters
behind a waiter; two keys are needed only where entries can be swapped.
Three definitions are enough for a cycle entered from outside and for a
definition reached by two ways; the theorems lift the bound.

A program of `closure_programs` applies a primitive to one closure or two.
The simple closures are a named function, one with a type parameter, a given
function pointer (no name for its eval) and a deferred value (no operations);
`Then` composes one with a named function, `With` combines two, `Pass` gives one
to an inlined definition that uses it (`apply`), that captures it and a value in
a new closure (`capture`), that uses it beside a closure with a type parameter
of the definition's own (`poly`), or that uses it for what a polymorphic function
makes of another closure (`give`: that function has no closure at its declared
boundary, so it is not inlined, and its eval has three sources once the closure is
converted).  Refused are the programs in which a region holds the eval of the given
pointer or of `give`.  The others bring in nested, captured, shared and
static inputs in every pair; the 2204 programs of `Depth` 2 (12896 states, some
minutes) pass too.  Both runs switch the deadlock check off, since the pass
ends.  The loop has no liveness property: each `Convert` removes a marker and
adds none, so that it ends is plain from the code, and whether it can get stuck
is `NeverPanics`.

A program of `lowering_programs` has two exported definitions that share
helpers.  A statement changes or exchanges the carried values, has an effect (on
the host, on the device, or anywhere), or uses the callback: calls it, branches or
loops with it, or launches a kernel that evaluates it; and the callback may do
each of these with another, launch, or call itself.  So a loop's body
permutes its state, branches return different captures, a launch is in a branch
in a loop, and two kernels differ only in a captured function or in a captured
type.  Two rounds tell a loop from one assignment.  No program of the run is as
deep as `MaxDepth`, so no refusal for depth is met: that the stack stays within
it is proved (`Types`).  This run checks for deadlock: until it has returned the
pass has a step.

A command of `compile_programs` is of one of five kinds.  One or two bundles are
selected, in any order, from a diamond, a ring and one with a gap.  Two files
declare the same arrow as a primitive, as a copy, with another interface, with a
definition and in another syntax, in any order.  A program has one fault, or a
literal of each form.  A program uses any two of 16 operations that elaboration
makes (partial applications of partial applications, of names and of constants,
ill-formed ones, names behind two prefixes) in two definitions whose order is
free.  And a definition applies an operation in two steps, for each number of
captured inputs: operations of none to three inputs, with products and units,
with metavariables that two inputs share or one leaves out, and with a type
operation of two results that the cut goes through; two partial applications
side by side, one that is returned by a definition, and a named function.

Symmetry is used in runs that check no liveness property.

Fairness.  Host threads run on (`WF` of each thread's own steps) and the child
serves what it has read: generated programs have no recursion and only bounded
folds, so they return or abort.  Nothing is assumed of callers: they need never
call or drop anything.  `std::sync::Mutex` promises no order to its waiters, so
the liveness property is that a holder gives the mutex back (`ExchangesEnd`), not
that every caller gets it.  For the cache the system is assumed to pass a file
lock to one of its waiters and to starve none (`SF` of `Acquire`); the compiler
is assumed to terminate.

### What the code does otherwise

* `session_deathReport`: `mod.rs:6-8` promises a structured error with the exit
  status and stderr.  A child that dies after it answered is found out by the
  `EPIPE` of the next request, which `map_exec_worker_error` reports as
  `Transport`; nothing then reads the end-of-file that would reap the child, so
  later calls report the same.
* `session_closedStdin`: `reap` takes `stdin` and then returns early when `wait`
  fails; the next `send` panics in the `expect` of `mod.rs:660` and poisons the
  mutex.
* `closure_nested`: the closure of `\x. fold(\z. z + g(x), x)`, nested through
  an inlined higher-order definition.  `g` uses the argument of the outer closure
  and is needed only inside the inner one, and discovery does not follow markers: no
  region has it.  `schedule.rs:360` then panics on a graph that
  the passes make of a legal program, although `replace.rs:580-582` holds such
  graphs impossible.  Capturing `x` itself works (`capture`).

Met in the proof of `WiresMade`, with no run of its own: a closure with
`let p = name.f` that calls `f` (`lift p`) and passes `p` on to another function.
`build_body` makes the `eval` a call of `f` again and leaves out its `name.f`
(`definition.rs:230-233`, `273-275`), though the other function uses the same
wire: that use is copied and nothing makes the wire, so that code generation
stops with "missing runtime SSA input" (`lower.rs:225`).  `region.rs:301-302` says
to keep the producers of named pointers "in the extracted body".  The programs of
the runs leave it out (`Others = {}`); with `Others <- SharedPointers` in
`MCClosureConversion_programs.cfg` TLC finds `WiresAreMade` violated by it.  No
run that passes would notice it, therefore.

Noted, but not counted as an error: a polymorphic function that is given a closure
is refused in a region ("`eval` ... without a matching `name.*` producer",
`definition.rs:66`, `409`), although it has its `name.f`: the closure has become two
sources of the `eval`.  Outside of regions code generation takes such an `eval` as a
call with two arguments (`lower.rs:296-305`), and `MeaningIsKept` has it so.

Noted, too: `region.rs:367-371` says that static inputs
"are not packed into its runtime environment".  A type parameter that the
context projection of a nested closure takes is packed, as an ordinary input;
whether it costs anything depends on erasure in code generation.

## Proofs

TLC checks the properties on the instances above; the theorems hold for all
values of the constants, under the assumptions below.  Every invariant was
checked by TLC, as an invariant of these runs, before it was proved.

### What is assumed

* `SessionAssumption`, `CacheAssumption`, `DefAssumption` and `NoneAssumption`
  keep markers such as `NoThread` apart from the values beside which they stand.
* `SourcesAssumption`: bundles and files are what their parsers return.
  `LibraryAssumption`: a registry is finite, a path is that of one file, which
  nobody writes while it is read, and no file belongs to two bundles (bundles are
  directories).
* `ProgramsAssumption`: code generation gets a program of definitions
  (`IsDefinition`: inputs, outputs and operands are nodes with types, and an if,
  a fold and a launch have their six, four and three groups of operands).
* `TermsAssumption`: closure conversion gets terms as `forget closures` leaves
  them: an `eval` has its argument and its function, and a marker alone makes the
  node of its closure, which is the new node at the end of an adapter.
  Two theorems say more of the terms in their statement.  `FunctionsFree` starts
  from `TermsAreMarked`: a node of a closure type is what a marker makes, and no
  argument of a closure or parameter of a name, and the primitives that have a
  converted form take a closure (that is why they have one).  `WiresMade` starts
  from `TermsAreWired`: each wire is made once, or given, or a type parameter
  (`IsWired`, with the types of what names take and markers make); and a named
  pointer that is called is used by evals only, as their function, and is no
  result, and an eval is given no closure (`PointersAreCalled`).  All this holds of
  every term that `ForgetClosures` makes of the programs of the two closure runs,
  but for the last: the programs with `give` break it, and so does a shared pointer
  (see "What the code does otherwise").  For them `WiresAreMade` is model-checked
  only, and for shared pointers it is false.
  `ProgramsAssumption` of `MCClosureConversion` states it, for TLC to evaluate.
* `Refines` alone assumes `~HostMayDie`: a thread that is killed inside a call
  never returns, so it does not implement a call.  The other theorems about the
  session include the death of the host.

TLC evaluates each of them in a run, on the sources, programs and terms of that
run, also what the two theorems start from.

### The session

`SafeSessionProofs` and `SessionProtocolProofs` build one inductive invariant in
layers.  Each layer is inductive given those before it, and is needed by the
next.

1. `TypeInv`.  `TypeOK` is not inductive: an `Execute` request takes its
   artifact from the call, so a thread inside a call holds what the call uses.
   `EndInv` relates the recorded termination, `stdin`, the state of the child
   and the results of the threads: a thread that reports a death saw the child
   reaped, and a reaped child never comes back.  From these follow `Types`,
   `Terminations` (`TerminationIsReal`) and `Final` (`TerminationIsFinal`).
2. `RoleInv` says who may be where together: one thread holds the mutex, the
   thread that creates or closes the session is alone, callers hold handles.
   Without it two threads could wait on the pipes at once.
3. `OwnInv` says that what threads own is live and disjoint, and what is borrowed
   is held.  With `ChildInv`, what the child keeps by itself, follows `Owners`
   (`OneOwner`).
4. `ExchangeInv` lists what the two pipes can hold while a thread waits: the
   request is still there behind releases (`Asked`), or the child works on it
   (`Served`), or its answer is there alone (`Answered`), or the child is gone
   (`Lost`); when nobody waits, at most releases are under way (`Quiet`).
   `Answers` (`AnswersMatchRequests`), `Clean` (`NothingLeftBetweenCalls`),
   `MapsAreLive` (`MappedMemoryIsLive`) and `Consumed`
   (`ConsumedFreedBeforeCopies`) are read off it.
5. `HandleInv`: an identifier is a place of the child's vector, live handles have
   different ones, and a release on its way names none of them.  `Handles`
   (`HandlesDenoteTheirModule`) follows.

`Refines` (`RemoteExecution`) maps each step to a step of the abstract
specification or to a stutter.  Most map to a stutter; for the others the last
layer says that no answer is of a kind that the request cannot have
(`ResultInv`), and `RanInv` ties what has run, which is a fact about the child,
to what the answer in the pipe, or the error that the thread is about to return,
will claim about it.

### The other components

* `CompileCacheProofs`: `Types` (`TypeOK`), `Served` (`ServedIsRequested`),
  `Whole` (`EntriesAreWhole`), `OneBuilder` (`BuilderIsAlone`), `BuildsMisses`
  (`MissesOnly`).  `ContentInv` says what every file and every result may hold
  at each location; `LockInv` ties the holder of a lock to the process that
  has it open and the open file to the name `<key>.lock`, which is what
  deletion of the directory breaks (hence the hypotheses of the last two).
* `InlineDefinitionsProofs`: `Types` (`TypeOK`), `Cycles`
  (`CyclesAreReported`), `Expands` (`ResultIsExpansion`), `Declared`
  (`NothingDangles`) and `NothingSelectedIsCalled`.  `StackInv` says that each
  definition on the stack calls the one above it and that what a loop has
  passed is done: a definition met while it is being visited closes a cycle,
  and a loop that is over has all its dependencies done.  `DoneInv` says that
  what is done is closed under dependency, acyclic (a definition whose
  dependencies are done joins no cycle) and expanded (`SubstituteExpands`, from
  `NeededUnfolds`: what one needs is what it calls and what that needs).
* `ElaborationProofs`, about `ElaborationSpec`, the steps from a command to
  elaborated theories, for any bundles and files and names of any length:
  * `Stays` (`ArrowsStay`).  The passes that insert without looking are safe
    because what they insert is new, and that is `FreeInv`: once validated, no
    arrow begins with `name`, and a helper of `partial.f.N` is there only if
    `partial.f.N` is (`HelpersDiffer`: helpers of different partial applications
    differ).  `UsesInv` says that what is added next is a partial application of
    a declared arrow; `TheoriesInv` that until then definitions are as in the
    sources, so that the uses that are collected are names; `LoadingInv` that the
    stack and the files are those of declared bundles.
  * `Private` (`HelpersArePrivate`).  Validation strips one prefix; `PrivateInv`
    says why that is enough: nothing that is declared leads to a helper through
    further prefixes, since to be declared itself it would have needed a
    reference that validation refused.  `CleanInv` says that references stay as
    they were validated, `GivenInv` that the arrows of the sources are still there.
  * `Loads` (`SourcesAreLoaded`).  `StackInv`: the bundles being visited are a
    path of `extends`, each with what it has left to visit; `VisitedInv`: what is
    visited is closed under `extends` and on no cycle; `FilesInv`: files are read
    once and after those of the bundles below; `MergedInv`: what was read is in
    the theories as declared.  A bundle that is met while it is on the stack is
    therefore on a cycle, and only then refused.
* `LoweringProofs`: `Types` (`TypeOK`).  `IsStack` says that each frame is what
  the step that pushed it made, so that what it puts aside can be put back;
  `KernelInv` that at most one frame is a kernel's, that `place` says whether one
  is, and that its key is not in the cache yet, which a nested launch could break;
  `CacheInv` that keys and symbols are one to one.
* `ClosureConversionProofs`: `Types` (`TypeOK`), `Refusals`
  (`RefusesUnnamedOnly`), `Operations` (`EachOperationOnce`), `FunctionsFree`
  (`FunctionsAreClosureFree`) and `WiresMade` (`WiresAreMade`).  `ConvInv` says
  that all graphs are graphs, that the regions are those of the present term, that
  each marker alone makes the node of its closure, and that if every eval of the
  definition can become a call (`AllNamed`: its function from a name, two sources, no
  closure among them, one result), so can every eval of the present term.  A
  splice puts two wires in the place of one (`ExpandedParts`), that of the closure,
  which is made by a marker and is therefore no source of an eval: a kept eval
  has the wires that it had (`SplicedWires`).  An eval that is given a closure gets
  a third source here, and is refused, so the theorem has to exclude it.  The name
  is still there, because a name in the region would make an inner wire, which
  nothing that stays may use (the assertion of `plan_region_deletion`).
  `OperationInv` counts: `SplicedOccurrences` and `BodyOccurrences` say which edge
  of the old graph each operation of the two new ones comes from, `KeptOrCopied`
  that none is left out or taken twice.  For these three nothing is assumed of
  the order in which regions are converted, and a region may come from any path.
  * `FunctionsFree`.  `FreeInv`: in the term every closure is made by a marker and
    no primitive that is ready waits; in the generated functions there is neither.
    A region has no closure inside (`RegionIsFree`): one that it captures would
    make it wait (`Captures`), one that an edge of it makes is not made by a
    marker, and its own goes.  So here the order matters: it is readiness that is used.  The
    packed environment that takes the place of a closure is no closure, because
    what it packs is none (`SplicedClosures`).
  * `WiresMade`.  `WireInv`: until the pass is done, the term is wired, its
    pointers are only called and its projections ascend (`ContextsAscend`): they
    make higher nodes of lower ones, each of the label of the one it copies or
    static, and project no closure.  A generated function is wired and ascends
    (`BodyIsFunction`): what its edges use is made in it, captured, its argument
    or a parameter, and the only thing it loses is the pointer of an eval.  A
    replacement keeps this of the term (`ReplacedWired` and what follows it): what
    made wires of the region is gone, but so is every use, or the assertion of
    `plan_region_deletion` would have failed.  At the end the projections become
    joins.  Each joins a node to a lower one, and a node is joined once
    (`JoinsOfContexts`), so that the node that stands for a class is the end of a
    chain and no projection makes it (`MergedChain`): it is given, made by an
    edge that stays, or a type parameter (`ErasedIsFunction`).
* `CollectionsProofs` has the lemmas that these share.  `Ascending` lists a finite
  set of numbers, each once (`AscendingPlaces`); what `Reached` gives is closed
  under the steps (`ReachedClosed`), and within every closed set around the start
  (`ReachedWithin`).  The prover cannot use the library's induction theorems, but
  a fact about a recursive function on numbers can be had from a least
  counterexample (`LeastNat`); so the functions behind `Reached`, `Quotient` and
  the library's `FlattenSeq` were dealt with.

### Only model-checked

* Liveness (`ExchangesEnd`, `ChildIsReaped`, `OrphanExits`, `RequestsEnd`,
  `Ends`), which is out of the prover's reach, as are `ENABLED` and fairness.
* What compares meanings, which are RECURSIVE operators: `MeaningIsKept`,
  `LoweredIsMeant`, `RefusedRightly`, `GeneratedAreSound`, `CompiledIsMeant` and
  `CompileMeaning`'s `TypeOK`.
* `NeverPanics`: `closure_nested` shows that it does not hold of every term, and
  which terms the scheduler's assertion fails for depends on how a program nests
  its closures, which a term no longer tells.

## Plan

1. More of the model: the operations that closure conversion adds itself
   (`catena.context`, names of closures) in `ClosureFunctor`, so that the terms
   that `Compile` leaves out can go through `ClosureConversion` with their types;
   the recovery of call boundaries in `inline_named_calls.rs`; the runtime's value
   ABI (`RuntimeAbi`); in `Lowering` shared memory, memory reads with their order
   against writes, and the canonical witnesses of `KernelKey`.
2. Proofs: that `ForgetClosures` leaves the terms that `FunctionsFree` and
   `WiresMade` start from, which needs its recursion over types put as a function;
   for `Lowering`, that the blocks put aside come back in order, as a first part
   of `LoweredIsMeant` that does not need the meanings.

## Not modelled

Bytes: hashing, bincode and the text of generated programs.  The GPU driver
beyond allocation, mapping and release.  Machine crashes (neither cache syncs
before it renames).  Pipe capacities: requests and answers alternate, and
stderr is drained by a thread of its own.  Reports, argument parsing, scripts,
the parsing of sources and the type checker (crates of their own; `TypeOf` checks
the programs of the run, from inputs to outputs).  The HIP/KFD double deletion
with allocations of other threads, against which `safe_runtime/mod.rs:213-216`
says that the code does not protect.
