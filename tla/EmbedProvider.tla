----------------------------- MODULE EmbedProvider -----------------------------
(***************************************************************************)
(* The embed-v1 provider (profiles/embed/provider_entry.c): contexts, each *)
(* a Lua state whose stack holds the program's exported function, and      *)
(* invocations, each a Lua thread of its own that is resumed until it ends *)
(* or has suspended too often.  The artifact imports nothing that lets a   *)
(* host enter it again, so one invocation runs at a time; an error raised  *)
(* outside lua_resume, or a trap, takes it away at whatever step it is.    *)
(***************************************************************************)
EXTENDS Integers, Sequences, FiniteSets

CONSTANTS
    Contexts,        \* the addresses malloc gives contexts
    Threads,         \* the addresses of Lua threads
    MaxSuspensions,  \* how often an invocation may suspend (64 in the code)
    Sizes,           \* sizes of strings and of output buffers
    Export, None

ASSUME ProviderAssumption ==
    /\ MaxSuspensions \in Nat
    /\ Sizes \subseteq Nat /\ 0 \in Sizes
    /\ IsFiniteSet(Threads)
    /\ Export \notin Threads
    /\ None \notin Threads \cup Contexts

VARIABLES
    memory,   \* what is at a context's address: "free", "making", "live", "lost"
    stack,    \* the main state's stack of each context
    heap,     \* the Lua threads of each context that were not collected
    job,      \* the invocation that runs, or None
    result    \* the invocation result the host reads

vars == <<memory, stack, heap, job, result>>

Live == {c \in Contexts : memory[c] = "live"}
Rooted(c) == {t \in Threads : \E i \in 1..Len(stack[c]) : stack[c][i] = t}
NoResult == [status |-> 0, flags |-> 0, size |-> 0, capacity |-> 0]

(* Mutant: lua_settop(state, 0). *)
UnwoundWholly(c) == [stack EXCEPT ![c] = <<>>]

(* lua_settop(state, 1) *)
Unwound(c) == [stack EXCEPT ![c] = SubSeq(stack[c], 1, 1)]

(* What lua_gc(LUA_GCCOLLECT) leaves. *)
Collected(c) == [heap EXCEPT ![c] = heap[c] \cap Rooted(c)]

Init ==
    /\ memory = [c \in Contexts |-> "free"]
    /\ stack = [c \in Contexts |-> <<>>]
    /\ heap = [c \in Contexts |-> {}]
    /\ job = None
    /\ result = NoResult

-----------------------------------------------------------------------------
(* luauc_embed_v1_context_create allocates the context and its state ...   *)
CreateBegins(c) ==
    /\ job = None
    /\ \A d \in Contexts : memory[d] # "making"
    /\ memory[c] = "free"
    /\ memory' = [memory EXCEPT ![c] = "making"]
    /\ UNCHANGED <<stack, heap, job, result>>

(* ... or has no memory for one ... *)
CreateRefused ==
    /\ job = None
    /\ \A d \in Contexts : memory[d] # "making"
    /\ UNCHANGED vars

(* ... runs the program's entry, whose result is the export ... *)
CreateSucceeds(c) ==
    /\ memory[c] = "making"
    /\ memory' = [memory EXCEPT ![c] = "live"]
    /\ stack' = [stack EXCEPT ![c] = <<Export>>]
    /\ UNCHANGED <<heap, job, result>>

(* ... or closes the state and frees the context: the program did not      *)
(* load, failed, or returned no function. *)
CreateFails(c) ==
    /\ memory[c] = "making"
    /\ memory' = [memory EXCEPT ![c] = "free"]
    /\ UNCHANGED <<stack, heap, job, result>>

(* An error in luaL_openlibs, publishEmbedImport or luaL_sandbox has no    *)
(* protected call around it: nobody frees the context.                     *)
CreateEscapes(c) ==
    /\ memory[c] = "making"
    /\ memory' = [memory EXCEPT ![c] = "lost"]
    /\ UNCHANGED <<stack, heap, job, result>>

Destroy(c) ==
    /\ job = None
    /\ \A d \in Contexts : memory[d] # "making"
    /\ memory[c] = "live"
    /\ memory' = [memory EXCEPT ![c] = "free"]
    /\ stack' = [stack EXCEPT ![c] = <<>>]
    /\ heap' = [heap EXCEPT ![c] = {}]
    /\ UNCHANGED <<job, result>>

-----------------------------------------------------------------------------
(* luauc_embed_v1_invoke refuses a malformed request ... *)
InvokeRefused ==
    /\ job = None
    /\ Live # {}
    /\ result' = [NoResult EXCEPT !.status = 1]
    /\ UNCHANGED <<memory, stack, heap, job>>

(* ... or drops what an invocation that escaped left on the stack ... *)
Invoke(c, capacity) ==
    /\ job = None
    /\ c \in Live
    /\ stack' = Unwound(c)
    /\ result' = [NoResult EXCEPT !.capacity = capacity]
    /\ job' = [context |-> c, at |-> "entered", thread |-> None,
               suspensions |-> 0, size |-> 0]
    /\ UNCHANGED <<memory, heap>>

At(step) == job # None /\ job.at = step

(* ... and makes a thread, which the main stack roots, for the export and  *)
(* its arguments.                                                          *)
NewThread(t) ==
    /\ At("entered")
    /\ t \notin heap[job.context]
    /\ heap' = [heap EXCEPT ![job.context] = @ \cup {t}]
    /\ stack' = [stack EXCEPT ![job.context] = Append(@, t)]
    /\ job' = [job EXCEPT !.at = "prepared", !.thread = t]
    /\ UNCHANGED <<memory, result>>

FirstResume ==
    /\ At("prepared")
    /\ job' = [job EXCEPT !.at = "running"]
    /\ UNCHANGED <<memory, stack, heap, result>>

(* lua_resume returns: the program yielded the boundary or something       *)
(* else, failed with a message, or returned a string.                      *)
ResumeReturns(how, size) ==
    /\ At("running")
    /\ job' = [job EXCEPT !.at = how, !.size = size]
    /\ UNCHANGED <<memory, stack, heap, result>>

(* The collector's own steps free a thread that nothing roots. *)
CollectorStep(t) ==
    /\ job # None
    /\ t \in heap[job.context] \ Rooted(job.context)
    /\ heap' = [heap EXCEPT ![job.context] = @ \ {t}]
    /\ UNCHANGED <<memory, stack, job, result>>

(* Mutant: the thread leaves the stack before the collection. *)
BoundaryUnrooted ==
    /\ At("boundary")
    /\ job.suspensions < MaxSuspensions
    /\ heap' = [heap EXCEPT ![job.context] = {}]
    /\ job' = [job EXCEPT !.at = "running", !.suspensions = @ + 1]
    /\ UNCHANGED <<memory, stack, result>>

(* Mutant: suspensions are not counted. *)
BoundaryUncounted ==
    /\ At("boundary")
    /\ job.suspensions < MaxSuspensions
    /\ heap' = Collected(job.context)
    /\ job' = [job EXCEPT !.at = "running"]
    /\ UNCHANGED <<memory, stack, result>>

(* A "gc-boundary" yield: everything is collected, and the thread resumed. *)
Boundary ==
    /\ At("boundary")
    /\ job.suspensions < MaxSuspensions
    /\ heap' = Collected(job.context)
    /\ job' = [job EXCEPT !.at = "running", !.suspensions = @ + 1]
    /\ UNCHANGED <<memory, stack, result>>

(* Every return of invoke. *)
Returns(status, flags, size) ==
    /\ result' = [result EXCEPT !.status = status, !.flags = flags, !.size = size]
    /\ stack' = Unwound(job.context)
    /\ job' = None
    /\ UNCHANGED <<memory, heap>>

(* Any other yield is an error without a message. *)
OtherYield ==
    /\ At("other")
    /\ job.suspensions < MaxSuspensions
    /\ Returns(3, 0, 0)

(* Mutant: the message is copied whole. *)
FailureOverruns ==
    /\ \/ At("error")
       \/ /\ At("boundary") \/ At("other")
          /\ job.suspensions >= MaxSuspensions
    /\ Returns(3, 1, job.size)

(* A failure, or one suspension too many: the message if it fits. *)
Failure ==
    /\ \/ At("error")
       \/ /\ At("boundary") \/ At("other")
          /\ job.suspensions >= MaxSuspensions
    /\ Returns(3, 1, IF job.size <= result.capacity THEN job.size ELSE 0)

Success ==
    /\ At("ok")
    /\ IF job.size > result.capacity
       THEN Returns(2, 0, 0)
       ELSE Returns(0, 0, job.size)

(* The allocations before the first resume, the conversion of a result to  *)
(* a string, and a trap that nobody raised leave the invocation through    *)
(* the host.                                                               *)
InvokeEscapes ==
    /\ job # None
    /\ job' = None
    /\ UNCHANGED <<memory, stack, heap, result>>

InvocationStep ==
    \/ \E t \in Threads : NewThread(t)
    \/ FirstResume
    \/ \E how \in {"boundary", "other", "error", "ok"}, size \in Sizes :
          ResumeReturns(how, size)
    \/ Boundary
    \/ OtherYield
    \/ Failure
    \/ Success
    \/ InvokeEscapes

Next ==
    \/ \E c \in Contexts :
          \/ CreateBegins(c) \/ CreateSucceeds(c) \/ CreateFails(c) \/ CreateEscapes(c)
          \/ Destroy(c)
          \/ \E capacity \in Sizes : Invoke(c, capacity)
    \/ CreateRefused
    \/ InvokeRefused
    \/ \E t \in Threads : CollectorStep(t)
    \/ InvocationStep

Spec == Init /\ [][Next]_vars

(* A host that calls invoke runs it; every resume ends. *)
FairSpec == Spec /\ WF_vars(InvocationStep)

-----------------------------------------------------------------------------
(* The variables keep their types, and no thread suspends more often than  *)
(* it may. *)
Job == [context : Contexts, thread : Threads \cup {None}, suspensions : 0..MaxSuspensions, size : Sizes,
        at : {"entered", "prepared", "running", "boundary", "other", "error", "ok"}]
TypeOK ==
    /\ memory \in [Contexts -> {"free", "making", "live", "lost"}]
    /\ stack \in [Contexts -> Seq(Threads \cup {Export})]
    /\ heap \in [Contexts -> SUBSET Threads]
    /\ job = None \/ job \in Job
    /\ result \in [status : 0..3, flags : {0, 1}, size : Sizes, capacity : Sizes]

(* Whatever way earlier invocations ended, a live context still holds its  *)
(* export at the bottom of its stack, with at most the thread of an        *)
(* invocation that escaped above it.                                       *)
ExportIsKept ==
    \A c \in Live :
        /\ stack[c] # <<>> /\ stack[c][1] = Export
        /\ Len(stack[c]) <= 2

(* The thread of an invocation is on its context's main stack and was not  *)
(* collected, from its creation to its last resume.                        *)
ThreadIsRooted ==
    job # None /\ job.thread # None =>
        /\ stack[job.context] = <<Export, job.thread>>
        /\ job.thread \in heap[job.context]

(* An answer never claims or writes more bytes than the buffer holds, and  *)
(* only success and described failures carry any.                          *)
AnswersFit ==
    /\ result.size <= result.capacity
    /\ result.size > 0 => result.status = 0 \/ result.flags = 1

(* An invocation whose resumes end, ends: a program cannot keep its host   *)
(* in the collection loop. *)
InvocationsEnd == job # None ~> job = None
===============================================================================
