------------------------------ MODULE ModuleInit ------------------------------
(***************************************************************************)
(* The static module registry of the strict AOT runtime                    *)
(* (runtime/src/call_frame.cpp): one record per linked module, the         *)
(* initializers that are running, and the errors that unwind them.         *)
(*                                                                         *)
(* luauc_runtime_v1_require_static runs an initializer inside a nested     *)
(* lua_resume, so the initializers in progress form a stack, whatever      *)
(* coroutines the modules themselves create.  The bottom of the stack is   *)
(* the entry chunk while the program starts, and a host invocation of the  *)
(* function the entry returned afterwards.                                 *)
(***************************************************************************)
EXTENDS Naturals, Sequences

CONSTANTS
    Modules,       \* the modules of the linked program
    Entry,         \* the entry module; push_program's caller runs its root
    Host,          \* owner of a frame the embedding host invoked
    Catchers,      \* modules (or Host) whose code uses pcall or coroutine.resume
    Values,        \* the values an initializer can return, nil apart
    MaxDepth,      \* nested frames before lua_resume reports a C stack overflow
    MaxAbandoned,  \* suspended duplicate entry threads the program keeps
    AllocMayFail   \* whether an allocation inside require_static can throw

Nil == "nil"
CycleMessage == "static require cycle"
ErrorMessage == "initializer error"
Results == Values \cup {Nil}
NotDelivered == "not delivered"

ASSUME ModulesAssumption ==
    /\ Entry \in Modules
    /\ Host \notin Modules
    /\ Catchers \subseteq Modules \cup {Host}
ASSUME ValuesAssumption ==
    Values \cap {Nil, CycleMessage, ErrorMessage, NotDelivered} = {}
ASSUME BoundsAssumption ==
    /\ MaxDepth \in Nat \ {0}
    /\ MaxAbandoned \in Nat
    /\ AllocMayFail \in BOOLEAN

Statuses == {"UNINITIALIZED", "INITIALIZING", "INITIALIZED", "FAILED"}
Records == [status : Statuses,
            value : Results \cup {CycleMessage, ErrorMessage}]

(***************************************************************************)
(* A frame is a run of a module root on the C stack: the entry chunk, an   *)
(* initializer require_static started, a suspended duplicate of the entry  *)
(* some code resumed later ("loose"), or a host invocation.  "caught"      *)
(* counts, up to 2, the errors code caught while the frame was active; the *)
(* program does not keep it.                                               *)
(***************************************************************************)
Frames == [mod : {Entry}, kind : {"entry", "loose"}, caught : 0..2]
          \cup [mod : Modules, kind : {"required"}, caught : 0..2]
          \cup [mod : {Host}, kind : {"host"}, caught : 0..2]
NewFrame(m, k) == [mod |-> m, kind |-> k, caught |-> 0]
Initializer(f) == f.kind \in {"entry", "required"}

VARIABLES
    registry,    \* the record of each module
    stack,       \* the frames in progress, innermost last
    raising,     \* an error is propagating through the innermost frame
    abandoned,   \* suspended duplicate runs of the entry nobody resumed yet
    closed,      \* the entry failed and its caller closed the state
    delivered,   \* the value the last successful require of a module returned
    duplicated,  \* modules an initializer of which started during another run
    exhausted    \* modules wedged by a run that ended for lack of memory

vars == <<registry, stack, raising, abandoned, closed, delivered, duplicated, exhausted>>

-----------------------------------------------------------------------------
Top == stack[Len(stack)]
Pop == SubSeq(stack, 1, Len(stack) - 1)
Running == stack # <<>> /\ ~raising
Active(m) == \E i \in 1..Len(stack) : stack[i].mod = m
ActiveInitializer(m) ==
    \E i \in 1..Len(stack) : stack[i].mod = m /\ Initializer(stack[i])

Suspended(m) == m = Entry /\ abandoned > 0 /\ ~closed

SetRecord(m, s, v) ==
    registry' = [registry EXCEPT ![m] = [status |-> s, value |-> v]]

(* A run of m starts; it is a duplicate if another run of m has not ended. *)
NoteStart(m) ==
    duplicated' = IF Active(m) \/ Suspended(m)
                  THEN duplicated \cup {m}
                  ELSE duplicated

(* A run of m ends for lack of memory and its record stays as it is, which *)
(* wedges m, unless another run in these frames is to settle it, until two *)
(* more requires have failed.                                              *)
NoteExhausted(m, frames) ==
    exhausted' = IF \E i \in 1..Len(frames) :
                        frames[i].mod = m /\ Initializer(frames[i])
                 THEN exhausted
                 ELSE exhausted \cup {m}

(***************************************************************************)
(* The end of a run that succeeded, as both enter (for the entry chunk)    *)
(* and require_static finish it: a record a cycle failed meanwhile is      *)
(* reset and the failure raised, a record that is no longer initializing   *)
(* is left alone and the error raised, otherwise the value is cached.      *)
(***************************************************************************)
Complete(rec, v) ==
    CASE rec.status = "INITIALIZING" ->
            [rec |-> [status |-> "INITIALIZED", value |-> v], raised |-> FALSE]
      [] rec.status = "FAILED" ->
            [rec |-> [rec EXCEPT !.status = "UNINITIALIZED"], raised |-> TRUE]
      [] OTHER -> [rec |-> rec, raised |-> TRUE]

(* Mutant: a record a cycle failed is left failed. *)
AbandonKeepsFailed(rec) ==
    IF rec.status = "FAILED"
    THEN rec
    ELSE [status |-> "UNINITIALIZED", value |-> ErrorMessage]

(* The end of a run that failed: the first failure of an active cycle is   *)
(* kept, any other state of the record is overwritten; both are retryable. *)
Abandon(rec) ==
    IF rec.status = "FAILED"
    THEN [rec EXCEPT !.status = "UNINITIALIZED"]
    ELSE [status |-> "UNINITIALIZED", value |-> ErrorMessage]

(* require_static after an initializer returned one value.  The entry's    *)
(* own proto also completes its record in enter, before require_static.    *)
RequiredReturned(m, rec, v) ==
    IF m # Entry
    THEN Complete(rec, v)
    ELSE LET entered == Complete(rec, v)
         IN  IF entered.raised
             THEN [rec |-> Abandon(entered.rec), raised |-> TRUE]
             ELSE Complete(entered.rec, v)

(* require_static after an initializer returned no value, or several. *)
RequiredMiscounted(m, rec) ==
    IF m # Entry THEN Abandon(rec) ELSE Abandon(Complete(rec, Nil).rec)

-----------------------------------------------------------------------------
(* publishModuleRegistry, and the call of the entry root that follows. *)
Init ==
    /\ registry = [m \in Modules |->
                     [status |-> IF m = Entry THEN "INITIALIZING"
                                              ELSE "UNINITIALIZED",
                      value |-> Nil]]
    /\ stack = <<NewFrame(Entry, "entry")>>
    /\ raising = FALSE
    /\ abandoned = 0
    /\ closed = FALSE
    /\ delivered = [m \in Modules |-> NotDelivered]
    /\ duplicated = {}
    /\ exhausted = {}

(* A require of an initialized module: the cached value. *)
RequireCached(m) ==
    /\ Running
    /\ registry[m].status = "INITIALIZED"
    /\ delivered' = [delivered EXCEPT ![m] = registry[m].value]
    /\ UNCHANGED <<registry, stack, raising, abandoned, closed, duplicated, exhausted>>

(* A require of a module a cycle has failed: reset for retry, and raise. *)
RequireFailed(m) ==
    /\ Running
    /\ registry[m].status = "FAILED"
    /\ SetRecord(m, "UNINITIALIZED", registry[m].value)
    /\ raising' = TRUE
    /\ exhausted' = exhausted \ {m}
    /\ UNCHANGED <<stack, abandoned, closed, delivered, duplicated>>

(* Mutant: the cycle does not preserve the failure of the active run. *)
RequireCycleResets(m) ==
    /\ Running
    /\ registry[m].status = "INITIALIZING"
    /\ SetRecord(m, "UNINITIALIZED", CycleMessage)
    /\ raising' = TRUE
    /\ UNCHANGED <<stack, abandoned, closed, delivered, duplicated, exhausted>>

(* A require of a module that is initializing: a cycle. *)
RequireCycle(m) ==
    /\ Running
    /\ registry[m].status = "INITIALIZING"
    /\ SetRecord(m, "FAILED", CycleMessage)
    /\ raising' = TRUE
    /\ UNCHANGED <<stack, abandoned, closed, delivered, duplicated, exhausted>>

(* Mutant: the cache is not consulted before the initializer starts. *)
RequireStartAlways(m) ==
    /\ Running
    /\ registry[m].status \in {"UNINITIALIZED", "INITIALIZED"}
    /\ Len(stack) < MaxDepth
    /\ SetRecord(m, "INITIALIZING", Nil)
    /\ stack' = Append(stack, NewFrame(m, "required"))
    /\ NoteStart(m)
    /\ UNCHANGED <<raising, abandoned, closed, delivered, exhausted>>

(* A require that starts the initializer on a thread of its own. *)
RequireStart(m) ==
    /\ Running
    /\ registry[m].status = "UNINITIALIZED"
    /\ Len(stack) < MaxDepth
    /\ SetRecord(m, "INITIALIZING", Nil)
    /\ stack' = Append(stack, NewFrame(m, "required"))
    /\ NoteStart(m)
    /\ UNCHANGED <<raising, abandoned, closed, delivered, exhausted>>

(* A require whose lua_resume fails at once: the C call limit. *)
RequireOverflow(m) ==
    /\ Running
    /\ registry[m].status = "UNINITIALIZED"
    /\ Len(stack) = MaxDepth
    /\ SetRecord(m, "UNINITIALIZED", ErrorMessage)
    /\ raising' = TRUE
    /\ UNCHANGED <<stack, abandoned, closed, delivered, duplicated, exhausted>>

(* An allocation throws between the record's update and lua_resume. *)
RequireOutOfMemory(m) ==
    /\ AllocMayFail
    /\ Running
    /\ registry[m].status = "UNINITIALIZED"
    /\ SetRecord(m, "INITIALIZING", Nil)
    /\ raising' = TRUE
    /\ NoteExhausted(m, stack)
    /\ UNCHANGED <<stack, abandoned, closed, delivered, duplicated>>

-----------------------------------------------------------------------------
(* The code of the innermost frame raises an error, or catches one. *)
Raise ==
    /\ Running
    /\ raising' = TRUE
    /\ UNCHANGED <<registry, stack, abandoned, closed, delivered, duplicated, exhausted>>

Catch ==
    /\ stack # <<>>
    /\ raising
    /\ Top.mod \in Catchers
    /\ raising' = FALSE
    /\ stack' = [i \in 1..Len(stack) |->
                   [stack[i] EXCEPT !.caught = IF @ = 2 THEN 2 ELSE @ + 1]]
    /\ UNCHANGED <<registry, abandoned, closed, delivered, duplicated, exhausted>>

-----------------------------------------------------------------------------
(* The initializer on top of the stack returns one value. *)
ReturnRequired(v) ==
    /\ Running
    /\ Top.kind = "required"
    /\ LET m == Top.mod
           end == RequiredReturned(m, registry[m], v)
       IN  /\ registry' = [registry EXCEPT ![m] = end.rec]
           /\ raising' = end.raised
           /\ delivered' = IF end.raised THEN delivered
                           ELSE [delivered EXCEPT ![m] = v]
    /\ stack' = Pop
    /\ UNCHANGED <<abandoned, closed, duplicated, exhausted>>

(* It returns no value, or several. *)
MiscountRequired ==
    /\ Running
    /\ Top.kind = "required"
    /\ registry' = [registry EXCEPT ![Top.mod] =
                      RequiredMiscounted(Top.mod, registry[Top.mod])]
    /\ raising' = TRUE
    /\ stack' = Pop
    /\ UNCHANGED <<abandoned, closed, delivered, duplicated, exhausted>>

(* Its error reaches lua_resume. *)
FailRequired ==
    /\ stack # <<>>
    /\ raising
    /\ Top.kind = "required"
    /\ registry' = [registry EXCEPT ![Top.mod] = Abandon(registry[Top.mod])]
    /\ stack' = Pop
    /\ UNCHANGED <<raising, abandoned, closed, delivered, duplicated, exhausted>>

(* Its run fails in one of these ways, and copying the message runs out of *)
(* memory before the record is updated: the error is raised all the same.  *)
FailRequiredOutOfMemory ==
    /\ AllocMayFail
    /\ stack # <<>>
    /\ Top.kind = "required"
    /\ LET m == Top.mod
           miscounted == IF m = Entry /\ ~raising
                         THEN {Complete(registry[m], Nil).rec} ELSE {}
       IN  \E rec \in {registry[m]} \cup miscounted :
              /\ rec.status # "FAILED"
              /\ registry' = [registry EXCEPT ![m] = rec]
    /\ raising' = TRUE
    /\ stack' = Pop
    /\ NoteExhausted(Top.mod, Pop)
    /\ UNCHANGED <<abandoned, closed, delivered, duplicated>>

(* It yields: no continuation contract.  Only a run of the entry's proto   *)
(* can still touch the registry if its thread is resumed later.            *)
YieldRequired ==
    /\ Running
    /\ Top.kind = "required"
    /\ registry' = [registry EXCEPT ![Top.mod] = Abandon(registry[Top.mod])]
    /\ raising' = TRUE
    /\ stack' = Pop
    /\ abandoned' = IF Top.mod = Entry /\ abandoned < MaxAbandoned
                    THEN abandoned + 1 ELSE abandoned
    /\ UNCHANGED <<closed, delivered, duplicated, exhausted>>

-----------------------------------------------------------------------------
(* Some code resumes the thread of a suspended duplicate of the entry. *)
ResumeLoose ==
    /\ Running
    /\ abandoned > 0
    /\ Len(stack) < MaxDepth
    /\ abandoned' = abandoned - 1
    /\ stack' = Append(stack, NewFrame(Entry, "loose"))
    /\ NoteStart(Entry)
    /\ UNCHANGED <<registry, raising, closed, delivered, exhausted>>

(* It returns, and enter completes the entry's record. *)
ReturnLoose(v) ==
    /\ Running
    /\ Top.kind = "loose"
    /\ LET end == Complete(registry[Entry], v)
       IN  /\ registry' = [registry EXCEPT ![Entry] = end.rec]
           /\ raising' = end.raised
    /\ stack' = Pop
    /\ UNCHANGED <<abandoned, closed, delivered, duplicated, exhausted>>

(* It fails, which enter does not see, or it is suspended again. *)
FailLoose ==
    /\ stack # <<>>
    /\ raising
    /\ Top.kind = "loose"
    /\ stack' = Pop
    /\ UNCHANGED <<registry, raising, abandoned, closed, delivered, duplicated, exhausted>>

YieldLoose ==
    /\ Running
    /\ Top.kind = "loose"
    /\ stack' = Pop
    /\ abandoned' = abandoned + 1
    /\ UNCHANGED <<registry, raising, closed, delivered, duplicated, exhausted>>

-----------------------------------------------------------------------------
(* The entry chunk returns: enter completes its record; nil is cached      *)
(* unless it returned exactly one value.  An error here, as one the chunk  *)
(* raised, ends the program.                                               *)
Close ==
    /\ closed' = TRUE
    /\ stack' = <<>>
    /\ raising' = FALSE

ReturnEntry(v) ==
    /\ Running
    /\ Top.kind = "entry"
    /\ LET end == Complete(registry[Entry], v)
       IN  /\ registry' = [registry EXCEPT ![Entry] = end.rec]
           /\ IF end.raised
              THEN Close
              ELSE stack' = Pop /\ UNCHANGED <<raising, closed>>
    /\ UNCHANGED <<abandoned, delivered, duplicated, exhausted>>

FailEntry ==
    /\ stack # <<>>
    /\ raising
    /\ Top.kind = "entry"
    /\ Close
    /\ UNCHANGED <<registry, abandoned, delivered, duplicated, exhausted>>

(* luauc_embed_v1_invoke calls the function the entry returned, and gets   *)
(* its result or its error.                                                *)
HostInvoke ==
    /\ stack = <<>>
    /\ ~closed
    /\ stack' = <<NewFrame(Host, "host")>>
    /\ UNCHANGED <<registry, raising, abandoned, closed, delivered, duplicated, exhausted>>

HostReturn ==
    /\ stack # <<>>
    /\ Top.kind = "host"
    /\ stack' = Pop
    /\ raising' = FALSE
    /\ UNCHANGED <<registry, abandoned, closed, delivered, duplicated, exhausted>>

-----------------------------------------------------------------------------
Require(m) ==
    \/ RequireCached(m)
    \/ RequireFailed(m)
    \/ RequireCycle(m)
    \/ RequireStart(m)
    \/ RequireOverflow(m)
    \/ RequireOutOfMemory(m)

EndRequired ==
    \/ \E v \in Results : ReturnRequired(v)
    \/ MiscountRequired
    \/ FailRequired
    \/ FailRequiredOutOfMemory
    \/ YieldRequired

LooseStep ==
    \/ ResumeLoose
    \/ \E v \in Results : ReturnLoose(v)
    \/ FailLoose
    \/ YieldLoose

EndProgramStep ==
    \/ \E v \in Results : ReturnEntry(v)
    \/ FailEntry
    \/ HostInvoke
    \/ HostReturn

Next ==
    \/ \E m \in Modules : Require(m)
    \/ Raise
    \/ Catch
    \/ EndRequired
    \/ LooseStep
    \/ EndProgramStep

Spec == Init /\ [][Next]_vars

-----------------------------------------------------------------------------
(* Types of the state. *)
TypeOK ==
    /\ registry \in [Modules -> Records]
    /\ stack \in Seq(Frames)
    /\ raising \in BOOLEAN
    /\ abandoned \in Nat
    /\ closed \in BOOLEAN
    /\ delivered \in [Modules -> Results \cup {NotDelivered}]
    /\ duplicated \subseteq Modules
    /\ exhausted \subseteq Modules

(* "Static require caches only successful initializers": what an           *)
(* initialized record holds is a result, never the message of a failure.   *)
CachesOnlyResults ==
    \A m \in Modules : registry[m].status = "INITIALIZED"
                       => registry[m].value \in Results

(* No module is wedged: a record is initializing or failed only while a    *)
(* run that will settle it is on the stack, so whenever every run has      *)
(* ended each module is cached or can be required again.  An allocation    *)
(* that throws half way through require_static wedges the module required, *)
(* and no other, until requiring it has failed twice.                      *)
NoWedgedModule ==
    ~closed =>
        \A m \in Modules \ exhausted :
            registry[m].status \in {"INITIALIZING", "FAILED"}
                => ActiveInitializer(m)

(* Modules are singletons: while no initializer of m ever ran inside       *)
(* another, everyone who required m got the value m is still cached with.  *)
SameValueToEveryRequirer ==
    \A m \in Modules \ duplicated :
        delivered[m] # NotDelivered =>
            /\ registry[m].status = "INITIALIZED"
            /\ registry[m].value = delivered[m]

(* require_static starts a second initializer of a module inside the first *)
(* only if the program caught at least two errors during the first: one    *)
(* failed require marks the cycle, the next one resets the mark.           *)
DuplicateNeedsTwoCaughtErrors ==
    \A i, j \in 1..Len(stack) :
        /\ i < j
        /\ stack[i].mod = stack[j].mod
        /\ Initializer(stack[i])
        /\ stack[j].kind = "required"
        => stack[i].caught = 2

(***************************************************************************)
(* The registry implements the abstract cache.  After the program closed   *)
(* its state no run is in progress.                                        *)
(***************************************************************************)
Cached == [m \in Modules |-> IF registry[m].status = "INITIALIZED"
                             THEN registry[m].value ELSE NotDelivered]
InProgress == {m \in Modules : Active(m) \/ Suspended(m)}

Cache == INSTANCE ModuleCache WITH
    Empty <- NotDelivered, cache <- Cached, running <- InProgress

(* Whatever the registry does to its records is a step of the abstract     *)
(* cache: only a run in progress publishes a value or withdraws one.       *)
ImplementsCache == Cache!Spec
=============================================================================
