------------------------------- MODULE CompileJob -------------------------------
(***************************************************************************)
(* One compiler instance (compiler/compiler_host.zig): the context table   *)
(* and the compiles made through it.  A compile is synchronous; its steps  *)
(* are separate actions because each may fail, and what it allocated so    *)
(* far must then be given back.  The frontend (frontend/frontend_adapter)  *)
(* keeps one switch in global memory, call feedback, which decides what    *)
(* bytecode a module without inline plans gets, and a Luau error it cannot *)
(* return traps out of the whole call, past every cleanup.  Nothing stops  *)
(* a caller from using the instance afterwards.                            *)
(***************************************************************************)
EXTENDS ContextTable

CONSTANTS
    Requests,        \* the requests callers make
    Needs,           \* imports and features of each pair's profile
    Usages,          \* what the frontend can make of a module
    Links,           \* what the linker can make of a package
    MaxCount,        \* largest value of the u32 usage counters
    Buffers,         \* the callers' CompileResultV1 buffers
    MemoryMayFail,   \* whether an allocation can fail
    NoJob,           \* no compile is in progress
    NoResult,        \* a buffer with nothing in it
    NoRecord         \* a result without a diagnostic record

Ok == 0
InvalidRequest == 2
FrontendFailure == 3
BackendFailure == 4
LinkFailure == 5
ResourceLimit == 6
InvalidContext == 7

Module == [inlined : BOOLEAN, hostNamed : BOOLEAN]
Kinds == {"plain", "inlined"}

(* The stages of compile; each names what the compile waits for. *)
Stages == <<"sources", "frontend", "package", "hosts", "object", "link">>

(* A compile in progress, and what it leaves in the caller's buffer. *)
Job ==
    [buffer : Buffers, request : Requests, pair : Pairs, stage : {Stages[n] : n \in DOMAIN Stages},
     rewritten : SUBSET Nat, compiled : Nat, functions : 0..MaxCount,
     spent : Nat, inlining : BOOLEAN, previousFeedback : BOOLEAN, tainted : BOOLEAN]
Result ==
    [status : 0..7, artifact : BOOLEAN, diagnostic : BOOLEAN,
     record : 1..7 \cup {NoRecord}, request : Requests,
     pair : Pairs \cup {NoPair}, spent : Nat,
     link : [size : Nat, functions : Nat], tainted : BOOLEAN]

ASSUME RequestsAssumption ==
    \A req \in Requests :
        /\ req.pair \in Pairs
        /\ req.modules \in Seq(Module)
        /\ req.modules # <<>>
        /\ {req.imports, req.features, req.coverage,
            req.bytes, req.functions} \subseteq Nat
ASSUME NeedsAssumption == Needs \in [Pairs -> [imports : Nat, features : Nat]]
ASSUME UsagesAssumption == Usages \subseteq [size : Nat, functions : 0..MaxCount]
ASSUME LinksAssumption == Links \subseteq [size : Nat, functions : Nat]
ASSUME CountAssumption == MaxCount \in Nat
ASSUME NothingsAssumption ==
    NoJob \notin Job /\ NoResult \notin Result /\ NoRecord \notin 1..7
ASSUME SwitchesAssumption == MemoryMayFail \in BOOLEAN

VARIABLES
    job,       \* the compile in progress
    results,   \* what each result buffer holds
    heap,      \* the allocations that are live
    feedback,  \* FFlag::LuauEmitCallFeedback
    trapped    \* the kinds of modules the instance trapped in (history)

jobVars == <<job, results, heap, feedback, trapped>>
vars == <<slots, sessions, job, results, heap, feedback, trapped>>

-----------------------------------------------------------------------------
(* The blocks the parts of the instance own. *)
Given(condition, block) == IF condition THEN {block} ELSE {}
SlotMemory(i) == {<<"profile", i>>, <<"pack", i>>}
ResultMemory(r, res) ==
    Given(res.artifact, <<"artifact", r>>)
    \cup Given(res.diagnostic, <<"diagnostic", r>>)
    \cup Given(res.record # NoRecord, <<"records", r>>)

Past(j, stage) ==
    \E m, n \in DOMAIN Stages :
        Stages[m] = stage /\ Stages[n] = j.stage /\ m < n

(* Memory no one will free: what compiles that trapped owned.              *)
Lost(kinds) == {<<"lost", kind>> : kind \in kinds}

(* What the defers of compile free when it returns from where j is. *)
Deferred(j) ==
    {<<"sources", 0>>}
    \cup {<<"rewritten", i>> : i \in j.rewritten}
    \cup Given(Past(j, "sources"), <<"frontend results", 0>>)
    \cup {<<"snapshot", i>> : i \in 1..j.compiled}
    \cup Given(Past(j, "package"), <<"package", 0>>)
    \cup Given(Past(j, "hosts"), <<"hosts", 0>>)
    \cup Given(Past(j, "object"), <<"object", 0>>)

Failure(status, message, record, req, pair) ==
    [status |-> status, artifact |-> FALSE, diagnostic |-> message,
     record |-> record, request |-> req, pair |-> pair, spent |-> 0,
     link |-> [size |-> 0, functions |-> 0], tainted |-> FALSE]
Copied == {TRUE, ~MemoryMayFail}

(* Mutant: the status stays what it was when the message is not copied. *)
FailuresSilent(req, pair, status) ==
    {Failure(status, message, IF kept THEN status ELSE NoRecord, req, pair) :
        message \in Copied, kept \in Copied}

(* The results a failing compile can leave: publishDiagnosticFor makes a   *)
(* record of the status, then a copy of the message; a record that cannot  *)
(* be allocated is left out, a message that cannot changes the status.     *)
Failures(req, pair, status) ==
    {Failure(IF message THEN status ELSE ResourceLimit, message,
             IF kept THEN status ELSE NoRecord, req, pair) :
        message \in Copied, kept \in Copied}

(* A compile ends with res in buffer r, freeing its temporaries. *)
Publish(r, res, freed) ==
    /\ results' = [results EXCEPT ![r] = res]
    /\ heap' = (heap \ freed) \cup ResultMemory(r, res)
    /\ job' = NoJob

Reject(status) ==
    /\ \E res \in Failures(job.request, job.pair, status) :
         Publish(job.buffer, res, Deferred(job))
    /\ UNCHANGED <<slots, sessions, feedback, trapped>>

(* The compile in progress reaches its next stage, owning one block more. *)
Advance(stage, block) ==
    /\ job' = [job EXCEPT !.stage = stage]
    /\ heap' = heap \cup {block}
    /\ UNCHANGED <<slots, sessions, results, feedback, trapped>>

-----------------------------------------------------------------------------
Init ==
    /\ ContextInit
    /\ job = NoJob
    /\ results = [r \in Buffers |-> NoResult]
    /\ heap = {}
    /\ feedback = FALSE
    /\ trapped = {}

CreateContext(p) ==
    /\ job = NoJob
    /\ ContextCreate(p)
    /\ heap' = heap \cup UNION {SlotMemory(i) : i \in {n \in Slots : FirstFree(n)}}
    /\ UNCHANGED <<job, results, feedback, trapped>>

DestroyContext(h) ==
    /\ job = NoJob
    /\ ContextDestroy(h)
    /\ heap' = heap \ SlotMemory(ContextFor(h))
    /\ UNCHANGED <<job, results, feedback, trapped>>

(* The statuses with which compile refuses a request before it allocates:  *)
(* digests that are not the context's, then the two ceilings.              *)
Admissible(req, pair) ==
    /\ req.pair = pair
    /\ Needs[pair].imports <= req.imports
    /\ Needs[pair].features <= req.features
RefusedStatus(req, pair) ==
    IF req.pair # pair THEN InvalidRequest ELSE ResourceLimit

(* Pruning rewrites sources only where it cannot be observed. *)
MayPrune(req) ==
    /\ req.coverage = 0
    /\ \A i \in DOMAIN req.modules :
         ~req.modules[i].inlined /\ ~req.modules[i].hostNamed

(* Compiles are made with an empty buffer. *)
MayCompile(r) ==
    /\ job = NoJob
    /\ results[r] = NoResult

CompileInvalidContext(h, req, r) ==
    /\ MayCompile(r)
    /\ ~Resolves(h)
    /\ \E res \in Failures(req, NoPair, InvalidContext) : Publish(r, res, {})
    /\ UNCHANGED <<slots, sessions, feedback, trapped>>

(* The request is malformed or names another pair (the pair is then not    *)
(* published), exceeds a ceiling, or its sources cannot be allocated.      *)
CompileRefused(h, req, r) ==
    /\ MayCompile(r)
    /\ Resolves(h)
    /\ LET pair == slots[ContextFor(h)].pair
           malformed == Failures(req, NoPair, InvalidRequest)
                        \cup Failures(req, NoPair, ResourceLimit)
           refused == IF MemoryMayFail \/ ~Admissible(req, pair)
                      THEN Failures(req,
                                    IF req.pair = pair THEN pair ELSE NoPair,
                                    RefusedStatus(req, pair))
                      ELSE {}
       IN  \E res \in malformed \cup refused : Publish(r, res, {})
    /\ UNCHANGED <<slots, sessions, feedback, trapped>>

CompileStart(h, req, r) ==
    /\ MayCompile(r)
    /\ Resolves(h)
    /\ Admissible(req, slots[ContextFor(h)].pair)
    /\ \E rewritten \in SUBSET DOMAIN req.modules :
         /\ MayPrune(req) \/ rewritten = {}
         /\ job' = [buffer |-> r, request |-> req,
                    pair |-> slots[ContextFor(h)].pair,
                    stage |-> "sources", rewritten |-> rewritten,
                    compiled |-> 0, functions |-> 0, spent |-> 0,
                    inlining |-> FALSE, previousFeedback |-> FALSE,
                    tainted |-> FALSE]
         /\ heap' = heap \cup {<<"sources", 0>>}
                         \cup {<<"rewritten", i>> : i \in rewritten}
    /\ UNCHANGED <<slots, sessions, results, feedback, trapped>>

FrontendStart ==
    /\ job # NoJob
    /\ job.stage = "sources"
    /\ \/ Advance("frontend", <<"frontend results", 0>>)
       \/ MemoryMayFail /\ Reject(ResourceLimit)

-----------------------------------------------------------------------------
(* The loop over the modules: compiled_count names the module whose turn   *)
(* it is, from the call of the frontend on.                                *)
Compiling ==
    /\ job # NoJob
    /\ job.stage = "frontend"
    /\ job.compiled < Len(job.request.modules)
NextModule == job.request.modules[job.compiled + 1]

(* The plans of an inlined module are invalid, or cannot be allocated. *)
FrontendBadPlans ==
    /\ Compiling
    /\ NextModule.inlined /\ ~job.inlining
    /\ \/ Reject(InvalidRequest)
       \/ MemoryMayFail /\ Reject(ResourceLimit)

(* buildInlinedBytecode keeps what the switch is and turns it on. *)
FrontendInlines ==
    /\ Compiling
    /\ NextModule.inlined /\ ~job.inlining
    /\ job' = [job EXCEPT !.inlining = TRUE, !.previousFeedback = feedback]
    /\ feedback' = TRUE
    /\ UNCHANGED <<slots, sessions, results, heap, trapped>>

(* The frontend got as far as compiling the module.  A module without      *)
(* plans is compiled with the switch as it is.                             *)
Bytecoding == Compiling /\ (NextModule.inlined => job.inlining)
Taints == feedback /\ ~NextModule.inlined

(* What the switch is again when buildInlinedBytecode returns. *)
Restored == IF job.inlining THEN job.previousFeedback ELSE feedback

(* Mutant: a module is counted, and so freed, only after its checks. *)
FrontendFailedUncounted(status) ==
    /\ Compiling
    /\ \E res \in Failures(job.request, job.pair, status) :
         /\ results' = [results EXCEPT ![job.buffer] = res]
         /\ heap' = (heap \ Deferred(job))
                    \cup {<<"snapshot", job.compiled + 1>>}
                    \cup ResultMemory(job.buffer, res)
         /\ job' = NoJob
    /\ feedback' = Restored
    /\ UNCHANGED <<slots, sessions, trapped>>

(* Mutant: an early return of buildInlinedBytecode leaves the switch on. *)
FrontendFailedLeavesOn(status) ==
    /\ Compiling
    /\ \E res \in Failures(job.request, job.pair, status) :
         Publish(job.buffer, res,
                 Deferred([job EXCEPT !.compiled = @ + 1]))
    /\ UNCHANGED <<slots, sessions, feedback, trapped>>

(* The frontend returned for a module, and the compile ends there: the     *)
(* snapshot (or the frontend's diagnostic) is freed with the others.       *)
FrontendFailed(status) ==
    /\ Compiling
    /\ \E res \in Failures(job.request, job.pair, status) :
         Publish(job.buffer, res,
                 Deferred([job EXCEPT !.compiled = @ + 1]))
    /\ feedback' = Restored
    /\ UNCHANGED <<slots, sessions, trapped>>

(* Mutant: the sum of the counters wraps instead of being refused. *)
WithinBudgetWrapped(usage) ==
    /\ usage.size <= job.request.bytes
    /\ (job.functions + usage.functions) % (MaxCount + 1) <= job.request.functions

(* A snapshot within the byte budget, and a sum that fits its counter and  *)
(* the function budget.  Functions stand for instructions too: the code    *)
(* keeps a second sum of the same kind for them.                           *)
WithinBudget(usage) ==
    /\ usage.size <= job.request.bytes
    /\ job.functions + usage.functions <= MaxCount
    /\ job.functions + usage.functions <= job.request.functions

FrontendRejected ==
    \/ FrontendFailed(FrontendFailure)
    \/ /\ Bytecoding
       /\ \E usage \in Usages : ~WithinBudget(usage)
       /\ FrontendFailed(ResourceLimit)

FrontendAccepted ==
    /\ Bytecoding
    /\ \E usage \in Usages :
         /\ WithinBudget(usage)
         /\ job' = [job EXCEPT
                      !.compiled = @ + 1,
                      !.functions = (@ + usage.functions) % (MaxCount + 1),
                      !.spent = @ + usage.functions,
                      !.inlining = FALSE,
                      !.previousFeedback = FALSE,
                      !.tainted = @ \/ Taints,
                      !.stage = IF job.compiled + 1 = Len(job.request.modules)
                                THEN "package" ELSE @]
    /\ feedback' = Restored
    /\ heap' = heap \cup {<<"snapshot", job.compiled + 1>>}
    /\ UNCHANGED <<slots, sessions, results, trapped>>

(* A Luau error the wasm32 frontend cannot catch (compiler_error_channel)  *)
(* traps: no defer runs, no destructor, and the buffer is not written.  An *)
(* inlined module may have returned from buildInlinedBytecode by then.     *)
FrontendTrap ==
    /\ Bytecoding
    /\ LET kind == IF NextModule.inlined THEN "inlined" ELSE "plain"
       IN  /\ trapped' = trapped \cup {kind}
           /\ heap' = (heap \ Deferred(job)) \cup Lost({kind})
    /\ feedback' \in {feedback, Restored}
    /\ job' = NoJob
    /\ UNCHANGED <<slots, sessions, results>>

-----------------------------------------------------------------------------
PackageBuilt ==
    /\ job # NoJob
    /\ job.stage = "package"
    /\ Advance("hosts", <<"package", 0>>) \/ Reject(ResourceLimit)

HostListEncoded ==
    /\ job # NoJob
    /\ job.stage = "hosts"
    /\ \/ Advance("object", <<"hosts", 0>>)
       \/ MemoryMayFail /\ Reject(ResourceLimit)

ObjectBuilt ==
    /\ job # NoJob
    /\ job.stage = "object"
    /\ \/ Advance("link", <<"object", 0>>)
       \/ \E status \in {InvalidRequest, BackendFailure, ResourceLimit} :
            Reject(status)

LinkFailed ==
    /\ job # NoJob
    /\ job.stage = "link"
    /\ \/ \E link \in Links :
            /\ link.size > job.request.bytes \/ link.functions > job.request.functions
            /\ Reject(ResourceLimit)
       \/ \E status \in {LinkFailure, ResourceLimit} : Reject(status)

(* The artifact, and the linker's own count of functions, fit the budgets. *)
Fits(link) ==
    /\ link.size <= job.request.bytes
    /\ link.functions <= job.request.functions

LinkSucceeded ==
    /\ job # NoJob
    /\ job.stage = "link"
    /\ \E link \in Links :
         /\ Fits(link)
         /\ Publish(job.buffer,
                    [status |-> Ok, artifact |-> TRUE, diagnostic |-> FALSE,
                     record |-> NoRecord, request |-> job.request,
                     pair |-> job.pair, spent |-> job.spent, link |-> link,
                     tainted |-> job.tainted],
                    Deferred(job))
    /\ UNCHANGED <<slots, sessions, feedback, trapped>>

(* luauc_v1_result_free: the blocks are freed, the buffer is zeroed. *)
ResultFree(r) ==
    /\ job = NoJob
    /\ results[r] # NoResult
    /\ results' = [results EXCEPT ![r] = NoResult]
    /\ heap' = heap \ ResultMemory(r, results[r])
    /\ UNCHANGED <<slots, sessions, job, feedback, trapped>>

(* A host may instantiate the compiler anew after a trap. *)
FreshInstance ==
    /\ trapped # {}
    /\ job = NoJob
    /\ slots' = [i \in Slots |-> [generation |-> 1, pair |-> NoPair]]
    /\ sessions' = <<>>
    /\ results' = [r \in Buffers |-> NoResult]
    /\ heap' = {}
    /\ feedback' = FALSE
    /\ trapped' = {}
    /\ UNCHANGED job

(* A step of the compile in progress. *)
CompileStep ==
    \/ FrontendStart
    \/ FrontendBadPlans
    \/ FrontendInlines
    \/ FrontendRejected
    \/ FrontendAccepted
    \/ FrontendTrap
    \/ PackageBuilt
    \/ HostListEncoded
    \/ ObjectBuilt
    \/ LinkFailed
    \/ LinkSucceeded

Next ==
    \/ \E p \in Pairs : CreateContext(p)
    \/ \E h \in HeldHandles : DestroyContext(h)
    \/ \E h \in HeldHandles, req \in Requests, r \in Buffers :
         \/ CompileInvalidContext(h, req, r)
         \/ CompileRefused(h, req, r)
         \/ CompileStart(h, req, r)
    \/ CompileStep
    \/ \E r \in Buffers : ResultFree(r)
    \/ FreshInstance

Spec == Init /\ [][Next]_vars

-----------------------------------------------------------------------------
(* The variables keep their types. *)
TypeOK ==
    /\ ContextTypeOK
    /\ job \in Job \cup {NoJob}
    /\ results \in [Buffers -> Result \cup {NoResult}]
    /\ feedback \in BOOLEAN
    /\ trapped \subseteq Kinds

Held(r) == results[r] # NoResult

(* Whatever step of a compile failed, once it returned the instance owns   *)
(* exactly the bytes of its contexts and of the results callers hold: the  *)
(* defers of compile free every temporary, once, on every exit.  A trap    *)
(* loses what its own compile had made, and neither then nor later         *)
(* anything else.                                                          *)
NothingLeaks ==
    job = NoJob =>
        heap = (UNION {SlotMemory(i) : i \in {n \in Slots : slots[n].pair # NoPair}})
               \cup (UNION {ResultMemory(r, results[r]) : r \in {b \in Buffers : Held(b)}})
               \cup Lost(trapped)

(* An artifact is the one its request asked for: linked against the very   *)
(* profile and pack the request names, whatever handle it came through     *)
(* (stale handles included), and within every budget of the request.       *)
ArtifactsMatchRequests ==
    \A r \in Buffers : Held(r) /\ results[r].status = Ok =>
        LET res == results[r]
        IN  /\ res.artifact
            /\ res.pair = res.request.pair
            /\ res.spent <= res.request.functions
            /\ res.link.functions <= res.request.functions
            /\ res.link.size <= res.request.bytes

(* A caller can tell why a compile failed: the diagnostic record carries   *)
(* the status, unless the message could not be copied, and then there is   *)
(* no message and the status is the resource limit; no artifact is left.   *)
FailuresAreExplained ==
    \A r \in Buffers : Held(r) /\ results[r].status # Ok =>
        LET res == results[r]
        IN  /\ ~res.artifact
            /\ res.diagnostic /\ res.record # NoRecord => res.record = res.status
            /\ ~res.diagnostic => res.status = ResourceLimit

(* docs/architecture.md says: "Identical compiler, context, request, and   *)
(* options produce identical artifact bytes".  What holds is that only a   *)
(* trap in a module with inline plans, earlier in the life of the          *)
(* instance, can change an artifact: whatever order of compiles and of     *)
(* failures, buildInlinedBytecode otherwise leaves the switch as it was    *)
(* for the modules and the compiles that come after it.                    *)
PureUntilTrap ==
    \A r \in Buffers : Held(r) /\ results[r].tainted => "inlined" \in trapped
===============================================================================
