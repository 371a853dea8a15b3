# Verification of luauc

luauc compiles Luau packages ahead of time to WebAssembly: the compiler lowers each
module to wasm functions, the linker joins them with a prebuilt runtime pack (the Luau
VM without its interpreter, plus `runtime/src/call_frame.cpp`), and an embedding host
(JavaScript or Wasmtime) runs the result. This directory holds TLA+ models of the parts
of luauc whose correctness depends on the order of things, the TLC runs that check them
on small instances, and TLAPS proofs of what matters most for every instance.

Contents: 1 inventory, 2 how the parts interact, 3 the modules and how they correspond
to the code, 4 runs, bounds and fairness, 5 proofs, 6 where documents and code disagree,
7 what is not modelled, 8 plan.

`tlc -config X.cfg M` checks a run (`PROJECT.json` names the module of each cfg) and
`tlapm XProofs.tla` checks the proofs of a module.

## 1. Inventory

| Component | Source | State it keeps | Operations | Hard behaviour | What makes it correct |
|---|---|---|---|---|---|
| Static module registry | `runtime/src/call_frame.cpp` (`require_static`, `publishModuleRegistry`, the tail of `enter`) | one record per module: root closure, status, cached value or error; the entry's id | require, completion of the entry, failure, retry | cycles caught by the program, retries inside an active run, suspended duplicates, allocations that throw half way | one value per module, only results cached, no module wedged |
| AOT call frames | `runtime/src/call_frame.cpp` (`luau_precall`, `luau_poscall`, `callAotFunction`, `prepare/finish_compiled_call`, `exchange_continuation`, `forg_loop_*`, `finish_yielded_op`), patch 0003 of `ldo.cpp` | the CallInfo stack of a thread, flags and continuation id of each native frame, the prepared call | call, return, yield, resume, error | a suspension anywhere in a chain of native frames, results of another count than wanted, stacks that move | a resumed frame goes on at the continuation it published, once, with its own results |
| AOT closures and upvalues | `runtime/src/call_frame.cpp` (`newclosure`, `dupclosure`, `capture_*`, `get/set_upvalue`, `close_upvalues`, the environments of templates) | templates, open and closed cells | make a closure, capture one variable, read, write, close | a template shared by closures of several runs, a closure instruction cut into one helper call per capture | a closure captures what its sources meant, and keeps it |
| AOT data operations | rest of `runtime/src/call_frame.cpp` | the Lua stack and the heap while a helper runs; coverage counters | table, global, string, metamethod, iteration, vararg and loading helpers | stacks that move, objects no root holds yet, barriers that are a later command | no stale address, nothing in use is collected, `L->top` is right on every way out |
| Compiler host | `compiler/compiler_host.zig` | 8 generational context slots, the live results | context create and destroy, compile, alloc, free | stale handles, failure at each step of a compile, counters at their limits | handles never alias, nothing leaks, artifacts match their requests |
| Compiler port | `compiler/compiler_port.zig` | a request stream | read, compile, answer | truncated and oversized frames | every request answered once, in order |
| Embed provider | `profiles/embed/provider_entry.c` | one Lua state per context, the last result | context create and destroy, invoke, coverage query | suspensions, collections while suspended, errors that escape, a query made twice | a context stays usable however its invocations end; a probe's capacity suffices |
| Protected calls | `profiles/embed/provider_bridge.c`, `runtime/include/error_channel.h`, `hosts/js/host.mjs`, `hosts/wasmtime/src/main.rs` | the active thunk, the host's stack of throw codes | protected call, throw, trap | a trap that unwinds past frames that wanted to restore state | nested calls behave as structured exceptions |
| Frontend adapter | `frontend/frontend_adapter.cpp` | a global switch | compile a module, inline | seven returns and a trap past the restore of the switch | a compile leaves nothing behind for the next one |
| Package liveness | `frontend/package_liveness.h` | what each expression of a package may denote, what may run, what may be seen | analyse to a fixpoint, rewrite | a fixpoint over modules with facts that arrive late; a host that reads and writes what it gets | only code nobody can run or see is removed |
| Frontend snapshot | `compiler/ir`, `schema/frontend_snapshot_v1.h` | none | encode, decode, validate | arithmetic of ranges | only well-formed snapshots pass |
| Backend | `compiler/backend` | plans, lowered functions, emitted bodies | plan, lower, emit, dispatch | values live across suspensions, continuation ids, threaded dispatch | compiled control flow is the bytecode's |
| Linker | `compiler/link` | the pack and the object, the function maps, the generated bodies | prune, resolve, share arms, thread dispatches, share regions, write | functions only found late, locals a transformed body may still read, constants packed into words | exactly what is reachable is kept, and the module does what pack and object mean together |
| Schemas | `schema` | none | parse packages, profiles, results | arithmetic of offsets | only well-formed input passes |
| Pack builder, tools, conformance harness | `profiles/pack_builder.mjs`, `tools`, `conformance` | files | build and test | none | — |

`PROJECT.json` lists every component with its status, and under "hazards" each line where
one of the hard behaviours bites with the property that watches it, or the reason no
property does yet.

## 2. How the parts interact

A host loads one compiler instance, creates **contexts** (a profile and a pack), and
compiles packages through them: source package → frontend per module → package → object →
link → artifact. Everything is synchronous; there is one thread, so the interleavings are
those of callers who hold handles, of exits in the middle of a compile, and of instances
that trap. `ContextTable` is the table, `CompileJob` extends it with the compile, and `CompilerPort`
extends that with the process that answers a stream of requests with one context. Before a package
is compiled, `PackageLiveness` replaces its dead functions. At the end of a compile the linker joins
the package's object with the runtime pack and transforms the generated bodies (`Linker`, over
`PackPruning`, `ArmSharing`, `DispatchThreading` and `RegionSharing`).

The artifact is run by a host too. `luauc_embed_v1_context_create` runs the program's
entry and keeps the function it returns; `luauc_embed_v1_invoke` calls it on a coroutine
(`EmbedProvider`). Modules require each other through the **registry** (`ModuleInit`). Every
`pcall`, `lua_resume` and error passes through the **protected calls** between artifact and
host (`ProtectedCalls`), because the artifact has no unwinding of its own. Generated
functions call each other, the runtime and C functions on the wasm stack; a yield cannot keep
that stack, so it returns through all of them and `ldo.cpp` enters their **frames** again one
by one (`AotFrames`). In between they call helpers, one per operation, that make and fill
closures (`AotClosures`) and work on the Lua stack and the heap while the stack may move and the
collector may run (`AotHelpers`). `ModuleInit`'s
host frames are `EmbedProvider`'s invocations, and its `Raise`/`Catch` are what
`Exceptions` (the abstract specification of protected calls) promises: an error reaches
the innermost region that catches.

## 3. Modules

### ModuleInit — the static module registry
* **State.** `registry` is the `LuaucModuleRecord` array (status, cached reference or
  message). `stack` is the chain of nested `lua_resume` calls: the entry chunk, an
  initializer `require_static` runs on its own thread, a suspended duplicate of the entry
  that some code resumed ("loose"), or a host invocation. `raising` is an error on its way
  through the innermost frame. `abandoned` counts duplicates of the entry that yielded: the
  entry's proto completes its record in `enter` whoever resumes it. `delivered`,
  `duplicated`, `caught` and `exhausted` (modules a run of which ended for lack of memory, which
  leaves the record marked) are history the program does not keep.
* **Actions.** `RequireCached/Failed/Cycle/Start/Overflow/OutOfMemory` are the exits of
  `require_static` up to `lua_resume`; `ReturnRequired`, `MiscountRequired`,
  `FailRequired`, `FailRequiredOutOfMemory`, `YieldRequired` those after it; `ReturnEntry`
  and `ReturnLoose` the tail of `enter`; `HostInvoke/HostReturn` an invocation. What a
  program does between is arbitrary: any frame may require any module at any time, raise,
  and, if its module is in `Catchers`, catch.
* **Abstraction.** `ModuleCache` is what the registry promises: a value is published or
  withdrawn only by a run still in progress. `ImplementsCache` is the refinement: an
  initialized record is a cached value, an active or suspended frame a run in progress.

### ContextTable — handles of the compiler host
* `slots` is the static table, `sessions` the contexts callers ever created, with the
  handle `generation * 256 + slot` each was given and how often its slot was recycled
  since (`age`, history). `ContextDestroy` is called with *any* handle a caller ever got.
  A create that fails leaves the table as it was and is a stuttering step.

### CompileJob — a compiler instance and its compiles
* **State.** `job` is the frame of `compile` (its request, stage, `compiled_count`, summed
  functions); `heap` the set of live allocations; `results` the callers' `CompileResultV1`
  buffers; `feedback` the global flag of the frontend that `buildInlinedBytecode` turns on
  (`FrontendInlines`, keeping what it was in the job) and puts back on each of its returns
  (`Restored`). A module without plans is compiled with the flag as it is, and a job is `tainted`
  when one was while the flag was on. `trapped` has the kinds of modules the instance trapped in
  (history).
* **Actions.** One per step of `compile` that may fail, each with its error path. `Deferred`
  is what the `defer`s free for the stage reached; `Publish` ends a compile in one action:
  result written, temporaries freed. `FrontendTrap` frees nothing and writes nothing: what its
  compile owned is `Lost`, and the flag may stay on. Callers may go on with an instance that
  trapped, because nothing stops them (`compiler_error_channel.h` speaks of a "fresh/recovered
  instance"); `FreshInstance` is a host that instantiates anew.
* **Data.** A source is known by whether it has inline plans and a host-named export,
  the output of the frontend by its size and number of functions (which stand for
  instructions too, summed the same way), the linker's by size and functions. `MaxCount` is
  the width of the u32 counters. Malformed requests are the free choice in
  `CompileRefused`. The status for an invalid stored profile is left out: a stored profile
  was validated when its context was created and never changes. The packing flag is left
  out as well: every compile sets it before use.

### CompilerPort — the process around an instance
* `port` says where `main` is, `asked` and `answers` are what was read and written. The port is the
  only caller of its instance: its steps are `CompileJob`'s actions with its own handle, so every
  exit of a compile is one it has to answer. `port = "absent"` is an embedding host instead, which
  calls as it likes; both are initial states of one specification.
* A stream that ends before a length ends the port (`PortStops`), one that ends inside a length or a
  request, or a length over the limit, gets one rejection and ends it (`PortRejects`). The bytes of
  a frame are abstracted to these outcomes. A trap ends the process without an answer: the native
  build has no exceptions, and a Luau error there is a trap.

### PackageLiveness — dead functions; LuauSubset — what a package does
* **State.** `facts` is what is known: relations for locals, fields, unknown fields, returns,
  varargs, module results, reads of keys, and the sets of active, observed and escaped objects. An
  object is a function or table expression; 0 is the unknown value. `position`, `changed` and
  `rounds` are the loop of `run`; `cut` and `removed` what the rewrite did.
* **Actions.** `VisitModule`, `EntryEscapes`, `VisitObject` (one object of `order`), `NextRound`,
  `GiveUp` after `MaxRounds`, and `Rewrite`, which leaves open which replacements do not
  fit in the text they replace. The facts of an expression or a statement are one operator per case
  of the visitor; because the analysis only ever adds, the order of the expressions inside one
  statement does not matter and a statement's effect is a union.
* **Reference.** `LuauSubset` runs a package: an evaluator of the constructs the analysis knows,
  with a host that calls every function and reads (and, in half of the comparisons, writes) every
  table it gets. `PrunedPackageBehaves` compares the log of the package with that of the pruned
  one. It is a definition of the Luau language (external), not of code in the repository.
* **Left out.** Spans of text, native attributes and the source-size limit. Names such as `getfenv`
  disable the analysis, in dead functions too.

### Linker over PackPruning, ArmSharing, DispatchThreading, RegionSharing; WasmSubset — what code means
* **State.** `live`, `pending`, `cursor` and `at` are those of `prunePackFunctions`; `bodies` the
  generated functions as the passes leave them; `shapes`, `used`, `cuts` and `helpers` those of the
  two sharing passes. `meant` and `final` are two machines: the object with the whole pack,
  and the emitted module, run on the same input.
* **Actions.** `MarkRoot`, `ScanCall`, `Prune` and their failures, one instruction per step; `Resolve`
  (the function map and the relocations); then the passes in the order of `emit`: `FindArms`,
  `ShareArm`, `ReplaceArms`, `ThreadBodies`, `FindRegions`, `ShareRegion`, `Emit`. Which shapes are worth sharing
  depends on byte counts in the code and is a free choice here, so every order and every subset is
  covered that the code may take.
* **Passes.** `DispatchThreading` replaces "set the case, go to the dispatcher" by a branch to the case
  where its local is dead. `ArmSharing` moves arms that differ in constants to helpers that get the
  locals read first; it drops what an arm writes to local 4. That is right only because no generated
  arm leaves local 4 to another one (`driver.zig` 634–640 gives locals 2–4 their roles); the links keep
  to it, as the generator does. `RegionSharing` moves repeated straight-line regions, with constants
  as arguments of their own or packed into words.
* **Reference.** `WasmSubset` executes the instructions by the semantics of WebAssembly (external): a
  block is left through the label it pushed, never through the tables the linker computes. An
  ill-typed step rejects the module. A host call may move the frame's base, so reading it late shows.

### AotClosures — closures and captured variables
* **State.** `cells` are the UpVals (open: a register of a live frame; closed: a value). `closures`
  are published closures and templates, a template named by its proto; `pending` is a closure
  instruction between two of its capture calls; `meant` is history: what each closure's sources
  held when it was made. `runs` counts attempts of the module's initializer, each with its own
  environment (`bindAotClosureTemplateEnvs`, which also rebinds templates an earlier, failed
  attempt had published, although the comment at line 3222 speaks of fresh ones).
* **Actions.** One per helper: `MakeEmpty` and `NewClosureCapture` of NEWCLOSURE, `DupClosureCapture`
  (stays on the template, fills it, or clones), `GetUpvalue`, `SetUpvalue`, `CloseUpvalues`; and
  `Assign` to a local, `Call`, `Return` (closes, then moves the results), `Raise` (also between two
  captures, where the next one allocates a clone or a cell), and `Run`, a new attempt of the initializer.

### AotHelpers over StackSteps — the memory discipline of the helpers
* `StackSteps` is a small language of what a helper does to memory: take an address, use it,
  reserve stack, push, make an object, publish it, store, pay a barrier, collect, run something
  that may call Lua, leave. `AotHelpers` writes each helper as the set of its paths in that
  language, with the names of the source, so `table_set_string` reads like its function.
* **Constants.** `FrameSize`, `Fixed` and `Extra` are the sizes of a frame and of its arguments,
  `MaxConstants` how many strings, templates (and items of one), imports and closures a proto has,
  and `Loads` the programs: each a sequence of trees of protos, one per module. `push_program`
  makes the protos of every tree before it roots one, so `LoadProgram` runs through the trees four times as
  the code does. `GlobalsCall` says whether looking up an import may call a function.
* **Semantics.** One action per kind of step takes the next step of the helper that runs. Whatever
  may move the stack invalidates every address taken before (`valid`); a collection may shrink stack room above `ci->top`; an object no
  register, stack slot or held object refers to is `loose`; a store into an object of the heap owes
  a barrier; an error may leave at every step that can raise. Values are left out.
* Growing a table counts as moving the stack, which is more than it does. Thread barriers are left
  out, and registers below the top count as roots.

### ProtectedCalls — traps, codes and thunks; Exceptions — what they promise
* `boundaries` is the wasm stack reduced to the open `protected_call`s, each with the
  `active_thunk` its frame saved; `throwCodes` the host's stack. A trap does not run the
  code after the call in the frames it passes, so `Rethrow` (no code: host rethrows) pops a
  boundary *without* restoring `active`, while `Catch` restores it, because then the
  provider's frame is returned to.
* `RaiseOutside` tells whether the runtime raises where no protected call is open. The
  shadow stack pointer and the payload of the typed channel are not modelled.
* `ImplementsExceptions`: nested calls and traps refine structured exceptions. A trap
  nobody raised abandons every region at once in the abstract specification and unwinds one
  region per step in the detailed one.

### EmbedProvider — contexts and invocations
* `stack` is the Lua stack of each context's main state, `heap` its threads, `job` the
  invocation, `result` what the host reads. A context is "lost" when creating it was left
  by an error that no protected call surrounds.
* Every exit of `luauc_embed_v1_invoke`: malformed, too many suspensions, other yields,
  errors with or without room for the message, results with or without room, and
  `InvokeEscapes` for traps and failing allocations outside `lua_resume`. `CollectorStep` is
  the collector's own progress, `Boundary` the full collection of a "gc-boundary" yield.
* A host that gets status 2 may call again: the program is then run again from its start.
* `EmbedCoverage` composes the provider with the coverage query and the host's `coverage()`, which
  probes for the capacity and asks again with a buffer of it, with counters of `MaxU32`. The number
  of records is a property of the program: its coverage sites.

### AotFrames — call frames of compiled code; ResumableCalls — what they promise
* **State.** `ci` and `depth` are the CallInfo array and `L->ci`; what lies above `depth` is
  kept, because records are reused. A record has its function, the continuation id of
  `aotstate` and the `OPYIELD` flag. `native[i]` is the function that runs frame `i` on the
  wasm stack, or `Heap` when the frame waits to be entered by the loop; its `phase` says how
  far the protocol of the current site has come: id published, `prepare_compiled_call`
  returned, callee entered. `slot` is the register a call leaves its result in, `prepared` is
  `gPreparedCall`, `status` is `L->status`. `mode` is what wasm's control flow does (runs,
  returns `YIELDED`, unwinds); `fault` is history: a check of the runtime or of the generated
  code failed.
* **Code.** A function is the sequence of its sites: a call, the iterator call of a generic
  loop, an interrupt, an operation with a metamethod. Which callee, what it does (return,
  raise, yield, pcall, call back) and what it returns is free. `Dispatch` is the generated
  entry switch: where a published id makes a function go on.
* **Actions.** `FastCall` is a call whose frame the generated code installs itself;
  `PrepareCompiledCall`, `CallPreparedEntry`, `PreparedYielded` one through `gPreparedCall`;
  `EnterNative` one by `forg_loop_call`, by `callAotFunction`, by a metamethod or from inside a
  C function; `CReturns`, `CSuspends`, `CCallsCompiled` are C functions. `ReturnYielded` is one
  frame of the way back of `YIELDED`, with the checks of that level. `Resume`,
  `RunScheduled`, `RunContinuation` and `EnterFrame` are the loop of `ldo.cpp`, which is
  not in the repository: they follow from patch 0003 and from what the runtime checks.
  `CatchNative` and `CatchSuspended` are the two ways to a `pcall`.
* **Abstraction.** `ResumableCalls` has no ids, no wasm stack and no loop: a stack of
  activations, each at a site, that goes on behind a call with its value when the activation
  above ends. `ImplementsResumableCalls` maps a frame on the wasm stack to its place there and
  a frame on the heap to the place its id stands for.

## 4. Runs, bounds and fairness

| Run | Instance | What it shows |
|---|---|---|
| `module_init` | entry and one module, everyone catches, 4 frames, allocations fail | no wedged module unless memory ran out in a run of it, one value for all, a duplicate run needs two caught errors, the registry implements `ModuleCache` |
| `compile_job` | a host or a port; 2 slots, generations 1 and 2, 4 contexts; 2 profiles, 4 requests of up to 2 modules, 1 buffer, failing memory; 2 requests on a stream | live handles work, stale ones are refused for a cycle of generations, nothing leaks, artifacts match requests, failures are explained, compiles are pure until a module with inline plans traps, a port answers in order and always |
| `protected_calls` | 4 nested calls, 2 thunks, 2 codes, traps anywhere | the right thunk runs, codes belong to the current error, failures stay failures, refinement of `Exceptions` |
| `protected_calls_stale` | violation, errors raised outside | a stale code answers a later trap (finding) |
| `embed_provider` | 2 contexts, 2 threads, 2 suspensions, 3 sizes, 0–16 records with counters up to 15 and 4-byte records | contexts stay usable, threads rooted, answers fit, invocations end, probes suffice |
| `aot_frames` | functions `call; loop` and `interrupt; metamethod; call`, 5 frames | no check of the protocol fails, suspended frames are published, `OPYIELD` is exact, frames run their own code, refinement of `ResumableCalls` |
| `package_liveness` | some six thousand packages: two declarations and a use | pruning happens at a fixpoint and cannot be seen |
| `package_liveness_strings` | violation: the use may call a method of a string | a function passed to `s:gsub` is pruned (finding) |
| `aot_closures` | a counter, a function that shares its variable and captures one more, a recursive function with a template, one without captures; 2 runs, 2 frames | captures mean their sources and are permanent, open cells are variables, variables change by assignment only |
| `aot_closures_self` | violation: the recursive function captures itself first | a closure made after a failed run keeps the failed run's as itself (finding) |
| `aot_helpers` | every path of every helper, with a register or constant more or less; a program of a root and a child, one of two modules | no stale address, no loose object at a collection, barriers paid, room for temporaries, `L->top` exact |
| `linker` | 18 objects of up to 3 bodies and 4 cases, 7 refused or unpruned links, a pack of 10 functions, 5-bit integers, 2 inputs | exactly what is reachable is kept, the emitted module behaves as meant |

The type invariants of `ModuleInit`, `ContextTable`, `ProtectedCalls`, `EmbedProvider`,
`AotFrames` and `PackPruning` are theorems (section 5) and are not checked again by the runs.

**Why the bounds are enough.** The shortest history that starts a duplicate run has three
requires of one module from inside its own run, at depth 2, so four frames hold a duplicate inside
its module's run inside the entry's, a duplicate in a duplicate, and a loose run above or below
either. A module's record changes only with that module's own requires and runs, so a second module
is enough for what happens to one while runs of another begin and end around it. `MaxDepth` is also behaviour of the
code: `RequireOverflow` is the C-call limit that `lua_resume` reports. One kept duplicate
(`MaxAbandoned`) is enough for a suspended run that outlives the program's start; a loose run that
is suspended again adds to it. A slot of the context table wraps after 2 destroys, and four
contexts over two slots reach the wrap with a live neighbour in the other slot. `compile_job` has
requests with and without inline plans, with host-named exports, for either profile, one whose
ceilings are too low, and a function counter that overflows at 3; two requests on a stream let one
fail and the next be answered, or be cut short. Four nested protected calls show a call with two callers
and two callees of different outcomes. `MaxStale` bounds the codes only where errors are
raised outside protected calls. Two suspensions, two threads and capacities 0–2 cover the
last allowed suspension, the one too many, an invocation that finds the thread of an escaped
one, and results smaller than, as large as and larger than the buffer. The record counts lie around
what a capacity can say (3, 4 of 4 bytes each below 15) and around the counter's end (15, 16). In `aot_frames` five frames hold a function that calls `pcall`, whose
function suspends in its turn (two pcall frames on the heap below a third function), a
metamethod under which a `pcall` stays on the wasm stack and catches, a suspended loop below a
suspended call, and records reused after an error dropped frames that had published ids.
`MaxDepth` is also behaviour of the code: the size the CallInfo array may reach.

The packages of `package_liveness` combine every way to declare a function in a table with every
other, with what a library may do besides (return, iterate, pass on, set a metatable, hide a key
behind a computed index), and with every expression and statement by which an entry can use it, so
each case of the visitor decides about some function's life. One unfit replacement (`MaxUnfit`) of two
shows that the other is right without it. The fixpoint takes fewer than the 6 rounds allowed,
except where the analysis gives up by design. `aot_closures` has each kind of capture, a
template with captures that agree, differ at the first and differ at a later capture, two runs (a failed one and its
retry) and two frames (a capture of a caller's variable and a call of the closure). `aot_helpers`
takes every path of every helper, and between two of its steps the stack may
move or shrink, a collection run or an error leave whenever the code allows; what is counted (registers,
constants, modules) is the same steps again, and the proofs are for any number of them.

The objects of `linker` have forward and backward jumps, jumps inside an `if`, flat and paged
dispatchers, cases that read their own number, arms with live and own locals, with a branch or an arm
inside, and arms that may not be shared; regions that overlap, whose locals are permuted or of other
types, and whose constants are the ends of an integer. The thresholds are scaled down (`MinOps` 6 for 12,
`MaxWindow` 12 for 160, 5 bits for 32 with fields of at most 3 for 24), so that packing fills one word and begins another.
Two helpers (`MaxHelpers`) are enough for shapes that compete for the same instructions and for a region over code an arm helper left.

**Deadlock** is checked wherever the code cannot stop. It is off for `ModuleInit` (a closed
program does nothing more), for `CompileJob` with `CompilerPort` (the number of contexts
created is bounded, and a port ends), for `AotClosures` (the runs, closures and cells are bounded) and for `Linker` (a link ends).

**Fairness** is assumed in two modules. In `CompilerPort` it is `WF_allVars(PortWorks)`: a process
that has its request compiles and answers without waiting for anybody. Reading is not fair, because
the other end may never write, and nothing says which exit a compile takes. In `EmbedProvider` it is
`WF_vars(InvocationStep)`, one condition on
the whole invocation, because an export called by its host runs until it returns and
nothing else runs meanwhile. It assumes that each `lua_resume` returns (a program may
loop for ever; nothing bounds that in the code). It says nothing of which outcome a resume
has: an invocation may yield "gc-boundary" every time, and `InvocationsEnd` holds because
of the counter of suspensions, not because of fairness.

## 5. Proofs

Every theorem holds for all values of the constants its module's assumptions allow.

* **ModuleInitProofs** (any modules, catchers, depth). `TypeCorrect` has the types and
  `CachesOnlyResults`, which typing needs because a cached value is handed to the requirer.
  `DuplicatesNeedCaughtErrors` is not inductive; `ErrorsSeen` makes it so: while a run of a
  module is active, its record can be `FAILED` only after one error of that run, and
  `UNINITIALIZED` only after two, an error on its way counted. `NeverWedged` says that
  whoever marks a record stays on the stack until it settles it, unless a run of the module ended
  because memory did (`exhausted`): `require_static` has no way to settle the record then. `ModulesAreSingletons` is about who may still touch an initialized record:
  nobody, as long as no run of the module started inside another (`OneRun`, `CachedIsIdle`,
  and for the entry, which starts marked, `EntryRuns`). `RegistryIsCache` is the refinement: each
  action of the registry is an action of `ModuleCache` or a stutter.
* **CompileJobProofs**, its first part, is about the context table alone (`ContextSpec`); the second
  carries it over to the instance. The invariant `IInv` ties each session to its slot: the slot's generation
  is the session's, advanced `age` times in the cycle that leaves out 0. `LiveHandlesAlwaysWork`
  and `StaleHandlesAreRefused` follow by arithmetic on that cycle, for every `GenerationBound`
  of at least 3, 65536 included.
* The second part of **CompileJobProofs** (any requests, profiles, packs and limits). `CompileInv` adds four parts to the table's invariant:
  the types, what the compile in progress may have reached (`JobInv`), what each held result
  says (`ResultsInv`), and `HeapInv`, which is the point: the heap is exactly the
  blocks of the contexts, of the results, of the stage the compile is in and of the compiles that
  trapped, so each exit has to free just what its stage had. `NothingEverLeaks`, `ArtifactsAreRequested`,
  `FailuresStayExplained` and `HandlesKeepWorking` follow. `CompilesStayPure` has no assumption about what
  callers do after a trap; its invariant `PureInv` says that, until a module with inline plans
  trapped, the flag is on only while such a module is compiled, and that what was kept to be put
  back is off. For the port, `PortIsACaller` shows that
  what the process does is something an instance's caller may do, so all of these hold of it too;
  `AnswersStayInOrder` adds `PortInv`, which ties the number of answers to where `main` is and says that
  the port's one context lives as long as it serves.
* **ProtectedCallsProofs.** `InnermostThunkRuns` holds in general, also after a trap that left
  `active` dangling: nothing reads it before the next protected call saved and
  replaced it. `CodesStayCurrent`, `FailuresAreNotAnswered` and the refinement
  `ProtectedCallsAreExceptions` assume `~RaiseOutside`, which is exactly the condition whose
  failure `protected_calls_stale` shows.
* **EmbedProviderProofs.** `ContextsStayUsable`, `ThreadsStayRooted` and `NoAnswerOverruns`,
  from one invariant that says what is on a context's stack at each step of an invocation.
  `CoverageImplementsProvider` carries them over to the composition with the coverage query, and
  `ProbesAlwaysSuffice` is its arithmetic for every width of the counters and size of a record: what the
  host goes on with is a product that did not overflow, and a buffer of `n` whole records holds `n`.

* **AotFramesProofs** (any functions with any sites, any depth). The five safety properties
  of the run, from one inductive invariant, `Consistent`. Its parts: a frame on the wasm
  stack has published an id exactly in the phases in which something may suspend it, and the
  id is its own site (`NativeFrame`); a frame on the heap holds the id of a call, a loop or,
  on top, an interrupt, or has not started (`HeapFrame`); the frames on the wasm stack
  have no gap (`Contiguous`): below them are suspended frames, above them only frames a C
  function just installed and those `YIELDED` has already left; each waiting frame
  has the phase that fits what runs above it (`Waits`, `LastNative`); and `mode`, `status` and `prepared`
  fit the innermost frame (`Modes`, `InnermostRuns`, `SuspendedStack`). The last part is what
  makes a stale `gPreparedCall` harmless. There is one `...Keeps` lemma per action over a few
  general ones (entering, leaving, installing and cutting frames).
  `FramesAreResumableCalls` is the refinement of `ResumableCalls`. It needs one invariant more,
  `Registers`: every frame below the innermost waits for a value in its register, the innermost one holds a value exactly
  when its call has returned (to it, or to the loop while it is on the heap), and a coroutine is
  suspended in a C function or at an interrupt and nowhere else. What differs between the 26
  actions is then small: most leave all activations as they are (publishing an id, each `YIELDED`
  frame, entering a frame from its start), and the others move the innermost one to another site, push activations,
  end one, or cut the stack at a `pcall`; there is a lemma for each of these shapes.
* **AotClosuresProofs** (any functions with any captures, any numbers of runs, frames, cells and
  closures). `ClosuresInv` has the types, `OpenCellsAreVariables`, what holds between two captures of one closure
  instruction (`PendingInv`: the closure is not published, or it is a template in use that agreed so far), and
  that a template in use is filled (`Templates`). From it follow `VariablesStayVariables`,
  `CapturesStay` and `VariablesChangeWhenAssigned`. `SharingIsNotObservable` says that closures capture what
  their sources meant under `SelfLast`: no function refers to itself before it refers to
  another local. That is exactly what finding 3 violates; without it `SelfTemplates`, by which a template
  that captures itself holds itself, does not carry over to a clone.

* **LinkerProofs** (any pack, object and profile). `RetainedIsReachable` says that pruning keeps the
  least set that holds the roots and what its members call. The inductive invariant `IInv` is that
  of a worklist: the roots before `root` are marked (`RootsMarkedSoFar`), what precedes `cursor` has
  its calls marked (`ScannedSoFar`), `pending` lists `live` (`Worklist`), and whatever is marked lies in every
  closed set (`Minimal`). `LinkerRetainsReachable` carries it over to the whole linker.
  `RenumberingIsSound` says that new numbers keep the order of the old ones, so no two functions get
  one number, and that imports keep theirs; it rests on the cardinalities of initial segments.

* **AotHelpersProofs** (frames of any size, any numbers of arguments, constants and modules, any
  programs). All five properties of the run: `HelpersAddresses`, `HelpersRootAll`,
  `HelpersBarriers`, `HelpersHaveRoom` and `HelpersTop`.
  - *The invariant.* Whether the rest of a path is safe depends on all its steps, so no
    predicate on the present memory alone is inductive. `SafeTo(S, B)` says of a set `S` of pairs
    of a path and a memory that it has the steps' conditions (`Fine`) in each pair and contains, for
    whatever memory a step can make (`Makes`), what is left after it. `IInv` says that some such
    set contains the steps left and the memory there is. It quantifies over sets of paths, so TLC
    cannot evaluate it; what TLC checks is that its consequences, the five properties, hold.
  - *The helpers.* `Triple(A, P, B)` says that from a memory in `A` every path of `P` is safe and
    leaves or ends in `B`. There is one rule per kind of step, and rules for sequences, choices
    and repetitions. Each helper has one lemma, `Safe...`, whose proof goes along its
    definition: its intermediate assertions say which addresses are fresh, which objects loose and how
    much room is left at each point of the code. `HelperIsSafe` joins them.
  - *Loading.* The loops of `push_program` keep what is loose between them: after the first all the
    protos of all the trees (`LoadingTrees`), after the second the roots (`HoldingAll`), after
    `publishModuleRegistry` none. The stack holds one closure per module when the registry's tables are
    made, which is what the `+ 8` of the reservation has to be enough for.
  - *Repetition.* `InTurn` is a recursive function on numbers; `Repeating` follows its parts
    by `Induction`. The library's induction theorems cannot be used here, so `Induction` is proved from
    the pigeonhole principle: a least counterexample would map a finite set one to one into a smaller one.
  - `HelpersRootAll` assumes `~GlobalsCall`. That is needed: with `GlobalsCall = TRUE` TLC finds a
    collection among the protos (section 6).

Only model-checked, and why:

* `PackageLiveness`: its expressions are a recursion over trees, and `LuauSubset` is an evaluator.
  Both use RECURSIVE operators, and what they compute for every package is an induction over trees;
  the proof system handles neither.
* `LinkedModuleBehaves`: the passes after pruning are folds over instructions, and the property
  compares two executions of any code: a simulation proof for four transformations one
  after the other, which has not been attempted.
* Liveness (`InvocationsEnd`, `RequestsAreAnswered`), which is out of the proof system's reach, as is
  ENABLED.

## 6. Where documents and code disagree

1. **Stale codes** (`protected_calls_stale`). An error raised outside every protected call leaves
   its code with the host, which then answers a later, unexpected trap with it.
2. **Functions passed to methods of strings** (`package_liveness_strings`). A constant string is
   no object and not unknown either, so `("x"):gsub(".", function ... end)` has no callee, its
   argument is never exposed, and the function becomes `nil`; `docs/field-liveness.md` says unknown
   calls expose their arguments.
3. **A recursive function after a failed run** (`aot_closures_self`). When its first capture is itself
   and a later one differs from the template, the clone takes the first one from the template: the
   function calls the closure of the failed run. The interpreter publishes the new closure before
   it reads any source, and comments at lines 2171 and 2238 claim the same behaviour.

Seen, and not given a run of their own:

* `require_static` resets a record that a cycle failed while the run that owns it is still active
  (`call_frame.cpp:3192`), so the third caught require of the entry starts its initializer a second
  time, against the comment at 3637–3640 ("fails as a cycle instead of starting a duplicate
  initializer"). `DuplicateNeedsTwoCaughtErrors` is what holds instead.
* After 65535 destroys of a slot an old handle names its present context, while
  `docs/architecture.md:48` says a stale handle cannot alias; `StaleUntilWrap` is the exact bound.
* After a trap in `buildInlinedBytecode` the frontend's flag stays on and a later compile in that
  instance differs (`frontend_adapter.cpp:1362`), while `docs/architecture.md:46` says that identical
  requests give identical bytes. `PureUntilTrap` is the exact bound: without its exception TLC finds a
  history of 14 states in which an inlined module traps and the next request, of a module without
  plans, is compiled with the flag on. Recovery must be a fresh instance.
* The request's `i64` number passes through the C `int` of `lua_pushinteger`
  (`provider_entry.c:359`, against `docs/embedding.md:31`).
* A thread's 65th "gc-boundary" is answered as a failure, while `docs/embedding.md` describes the
  boundary without a limit; the limit itself is what `InvocationsEnd` relies on.
* The left operand of `and` and `or` is united into the value and never observed
  (`package_liveness.h`, around line 336), so in `local c = g and {k = 0}` the function `g` is
  pruned and `c` is `nil`; `Truthiness = TRUE` in `package_liveness` shows it.
* An open `set_list` refuses more values than the frame holds (line 1411 of `call_frame.cpp`),
  which the comment at 1400 does not expect.
* Imports are resolved while a program's protos are not rooted yet (3482–3536). With a globals table
  that calls functions a collection could run there: `GlobalsCall = TRUE` violates
  `NothingLooseIsCollected`. The embed provider's globals have no such metatable.

## 7. Not modelled

In `AotFrames`: how many values a call passes and returns, stack addresses and their
relocation (`AotHelpers` has those of one helper at a time), `xpcall`'s handlers, C functions as metamethods,
other coroutines (a coroutine that resumes another is a C function that returns), and the source line
that shares a word with the continuation id. In `AotHelpers`: values, coverage counters, thread
barriers and the collector's test hooks. In `AotClosures`: coroutines. In `Linker`: parsing
and the rejections of malformed sections, data segments and their arena, type indices, the padding and tightening of encodings,
digests, the bytes a helper saves, and `validateFinal`. Loading a program that runs out of memory leaves the two arrays of
`push_program` behind (`call_frame.cpp:3803`); nothing promises otherwise. The VM (Luau's own source is a submodule and not part of the
repository; `ldo.cpp` is modelled as far as the runtime relies on it), the wording of
diagnostics, digests, the bytes of every format, the build scripts and the conformance harness. The
hosts' compile drivers instantiate the compiler, make one compile and drop the instance, which is less
than what `CompileJob` lets a caller do. The other components with status `not_modelled` in
`PROJECT.json` are either sequential transformations of one buffer without state between calls
(snapshot, schemas, object writer), translations of one operation at a time whose meaning is that of
WebAssembly and of the VM (emission), or planned below.

## 8. Plan

In order of what they would add:

1. **Proofs**: lemmas about the linker's passes, now that `Induction` is there to use (the sites `Chosen`
   for a shape do not overlap, the fields of a packed word do not either), and the rounds of `PackageLiveness`
   apart from what one visit computes.
2. **Continuations** of the backend (`plan/continuation_plan.zig`, `lower/continuations.zig`,
   dispatch): which blocks are entries, ids within their range, what is live across each; checked
   against a reference reachability. Composes with `AotFrames` through the ids.
3. **Values of calls** (`call_frame.cpp:278`): how many results are wanted and given, and where
   they are copied, in `AotFrames`.
4. **Formats**: range arithmetic of snapshots, profiles and packages as operators.
