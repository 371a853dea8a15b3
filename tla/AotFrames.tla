------------------------------- MODULE AotFrames -------------------------------
(***************************************************************************)
(* The call frames of one coroutine of compiled code: the runtime's        *)
(* CallInfo stack (runtime/src/call_frame.cpp), the generated functions on *)
(* the wasm stack (compiler/backend), and the loop of ldo.cpp that enters  *)
(* frames again (patch 0003).                                              *)
(*                                                                         *)
(* A frame can outlive its place on the wasm stack: a yield returns        *)
(* through every generated function, and each frame is entered again later *)
(* at the continuation id it had published in its CallInfo.  Protos are    *)
(* abstracted to the sites that matter: calls, generic loops, interrupts,  *)
(* and operations with a metamethod, which cannot be suspended.            *)
(***************************************************************************)
EXTENDS Naturals, Sequences

CONSTANTS
    Protos,    \* the compiled functions
    Code,      \* the sites of each: "call", "loop", "interrupt" or "meta"
    MaxDepth   \* LUAI_MAXCALLS: the size the CallInfo array may reach

CFunctions == {"plain", "pcall"}
Kinds == {"call", "loop", "interrupt", "meta"}
Values == {"nil", "value"}

ASSUME ProtosAssumption ==
    /\ Protos # {}
    /\ Protos \cap (CFunctions \cup {"none"}) = {}
ASSUME CodeAssumption == Code \in [Protos -> Seq(Kinds)]
ASSUME MaxDepthAssumption == MaxDepth \in Nat \ {0}

VARIABLES
    ci,        \* the CallInfo array; what is above depth is left over
    depth,     \* L->ci
    slot,      \* the register a frame's current call leaves its result in
    native,    \* the generated (or C) function running each frame on the wasm stack
    status,    \* L->status: "ok", "yield" or "scheduled" (SCHEDULED_REENTRY)
    prepared,  \* gPreparedCall
    mode,      \* "running", "returning" YIELDED, "raising", or "dead"
    fault      \* history: some internal check of the code failed

vars == <<ci, depth, slot, native, status, prepared, mode, fault>>

Levels == 1..MaxDepth
Heap == [code |-> "none", at |-> 0, phase |-> "none"]

IsLua(i) == ci[i].fn \in Protos
OnHeap(i) == native[i] = Heap
AtKinds(i, kinds) ==
    /\ native[i].code \in Protos
    /\ native[i].at \in 1..Len(Code[native[i].code])
    /\ Code[native[i].code][native[i].at] \in kinds

(* The function of frame i is the innermost on the wasm stack; none is, if *)
(* i is 0.                                                                 *)
Innermost(i) ==
    /\ i \in 0..depth
    /\ i > 0 => ~OnHeap(i)
    /\ \A j \in (i + 1)..depth : OnHeap(j)

(* Generated code of frame i is executing, in that phase.                  *)
Executing(i, phase) ==
    /\ mode = "running"
    /\ i \in 1..depth
    /\ Innermost(i)
    /\ native[i].code \in Protos
    /\ native[i].phase = phase

(* nCcalls <= baseCcalls: no C function and no metamethod waits on the     *)
(* wasm stack for a call it made.                                          *)
Yieldable ==
    \A i \in 1..depth : ~OnHeap(i) =>
        /\ native[i].code \in Protos
        /\ ~AtKinds(i, {"meta"})

(***************************************************************************)
(* Suspension checks of the runtime.                                       *)
(***************************************************************************)
validNativeSuspensionFrame(i) == IsLua(i) /\ ci[i].aotstate # 0

(* The nearest compiled frame below i, over frames in between.             *)
NearestLuaPublished(i, between) ==
    \E j \in 1..(i - 1) :
        /\ validNativeSuspensionFrame(j)
        /\ \A m \in (j + 1)..(i - 1) : ci[m].fn \in between

validCallSuspension ==
    /\ status # "ok"
    /\ ~IsLua(depth)
    /\ NearestLuaPublished(depth, CFunctions)

validScheduledReentrySuspension ==
    /\ status = "scheduled"
    /\ depth > 1
    /\ IsLua(depth)
    /\ ci[depth].aotstate = 0
    /\ ci[depth - 1].fn = "pcall"
    /\ NearestLuaPublished(depth - 1, {"pcall"})

validAotSuspension ==
    /\ status # "ok"
    /\ \/ validNativeSuspensionFrame(depth)
       \/ validCallSuspension
       \/ validScheduledReentrySuspension

(***************************************************************************)
(* Frames.                                                                 *)
(***************************************************************************)

(* Mutant: a reused CallInfo keeps the id of the frame that was there.     *)
FastInstallFrameKeepsId(i, fn) == [ci[i] EXCEPT !.fn = fn, !.opyield = FALSE]

FastInstallFrame(i, fn) == [fn |-> fn, aotstate |-> 0, opyield |-> FALSE]

(* The CallInfo luau_precall sets up.                                      *)
PrecallFrame(i, fn) == [fn |-> fn, aotstate |-> 0, opyield |-> FALSE]

Installs(fns) == depth + Len(fns) <= MaxDepth

(* fns are called, each by the one before; the callers' result registers   *)
(* still hold the functions.                                               *)
Push(fns) ==
    /\ depth' = depth + Len(fns)
    /\ slot' = [i \in Levels |->
                  IF i \in depth..(depth + Len(fns) - 1) THEN "pending"
                  ELSE IF i = depth + Len(fns) THEN "none" ELSE slot[i]]

PrecallFrames(fns) ==
    ci' = [i \in Levels |-> IF i \in (depth + 1)..(depth + Len(fns))
                            THEN PrecallFrame(i, fns[i - depth]) ELSE ci[i]]

(* Where generated code of p goes on after the call at k returned v.       *)
After(p, k, v) == IF Code[p][k] = "loop" /\ v # "nil" THEN k ELSE k + 1

(* The block generated code of p enters for a published id: the entry, the *)
(* suffix of a call, the end of a loop's iterator call, or an interrupt,   *)
(* which is run again.                                                     *)
Dispatch(p, id, v) ==
    IF id = 0 THEN 1 ELSE IF Code[p][id] = "interrupt" THEN id ELSE After(p, id, v)

KnownContinuation(p, id) ==
    id = 0 \/ (id \in 1..Len(Code[p]) /\ Code[p][id] # "meta")

(* Generated code of p starts on a frame: its prologue takes the id.       *)
Prologue(frame, p, v) ==
    [code |-> p, at |-> Dispatch(p, frame.aotstate, v), phase |-> "runs"]
Taken(frame) == [frame EXCEPT !.aotstate = 0]

(* A check of the code: a failure is an error of the program.              *)
Checked(holds, next) ==
    /\ fault' = (fault \/ ~holds)
    /\ mode' = IF holds THEN next ELSE "raising"

Init ==
    /\ \E p \in Protos :
          ci = [i \in Levels |-> [fn |-> IF i = 1 THEN p ELSE "plain",
                                  aotstate |-> 0, opyield |-> FALSE]]
    /\ depth = 1
    /\ slot = [i \in Levels |-> "none"]
    /\ native = [i \in Levels |-> Heap]
    /\ status = "ok"
    /\ prepared = [status |-> "ok", entry |-> "none"]
    /\ mode = "running"
    /\ fault = FALSE

(***************************************************************************)
(* Generated code: calls.                                                  *)
(***************************************************************************)

(* The id of the site is published before anything that may yield; nothing *)
(* else may be published.  (An interrupt of a host without a callback      *)
(* publishes nothing and goes on: publishing and InterruptReturns.  The    *)
(* source line that shares the word with the id is left out.)              *)
PublishContinuation ==
    /\ Executing(depth, "runs")
    /\ AtKinds(depth, {"call", "loop", "interrupt"})
    /\ ci' = [ci EXCEPT ![depth].aotstate = native[depth].at]
    /\ native' = [native EXCEPT ![depth].phase = "published"]
    /\ Checked(ci[depth].aotstate = 0, mode)
    /\ UNCHANGED <<depth, slot, status, prepared>>

(* Mutant: the caller's id is taken back before the callee has run. *)
FastCallClearsFirst(p) ==
    LET frame == FastInstallFrame(depth + 1, p) IN
    /\ Executing(depth, "published")
    /\ AtKinds(depth, {"call", "loop"})
    /\ Installs(<<p>>)
    /\ Push(<<p>>)
    /\ ci' = [ci EXCEPT ![depth] = Taken(@), ![depth + 1] = Taken(frame)]
    /\ native' = [native EXCEPT ![depth].phase = "callee",
                                ![depth + 1] = Prologue(frame, p, "none")]
    /\ Checked(KnownContinuation(p, frame.aotstate), mode)
    /\ UNCHANGED <<status, prepared>>

(* A call whose callee's frame generated code installs itself.             *)
FastCall(p) ==
    LET frame == FastInstallFrame(depth + 1, p) IN
    /\ Executing(depth, "published")
    /\ AtKinds(depth, {"call", "loop"})
    /\ Installs(<<p>>)
    /\ Push(<<p>>)
    /\ ci' = [ci EXCEPT ![depth + 1] = Taken(frame)]
    /\ native' = [native EXCEPT ![depth].phase = "callee",
                                ![depth + 1] = Prologue(frame, p, "none")]
    /\ Checked(KnownContinuation(p, frame.aotstate), mode)
    /\ UNCHANGED <<status, prepared>>

(* luauc_runtime_v1_prepare_compiled_call of a compiled function.          *)
PrepareCompiledCall(p) ==
    /\ Executing(depth, "published")
    /\ AtKinds(depth, {"call"})
    /\ Installs(<<p>>)
    /\ Push(<<p>>)
    /\ PrecallFrames(<<p>>)
    /\ native' = [native EXCEPT ![depth].phase = "prepare"]
    /\ prepared' = [status |-> "prepared", entry |-> p]
    /\ UNCHANGED <<status, mode, fault>>

(* The caller reads gPreparedCall, and calls the entry it names.           *)
CallPreparedEntry ==
    \E i \in Levels :
        /\ Executing(i, "prepare")
        /\ prepared.status = "prepared"
        /\ ci' = [ci EXCEPT ![depth] = Taken(@)]
        /\ native' = [native EXCEPT
                        ![i].phase = "callee",
                        ![depth] = Prologue(ci[depth], prepared.entry, slot[depth])]
        /\ Checked(KnownContinuation(prepared.entry, ci[depth].aotstate), mode)
        /\ UNCHANGED <<depth, slot, status, prepared>>

PreparedYielded ==
    \E i \in Levels :
        /\ Executing(i, "prepare")
        /\ prepared.status = "yielded"
        /\ mode' = "returning"
        /\ UNCHANGED <<ci, depth, slot, native, status, prepared, fault>>

(* The helper of a generic loop enters a compiled iterator.  A metamethod  *)
(* is entered the same way, from a site that published nothing, and so is  *)
(* what a C function calls after its first call.                           *)
EnterNative(p) ==
    LET frame == PrecallFrame(depth + 1, p) IN
    /\ \/ Executing(depth, "published") /\ AtKinds(depth, {"loop"})
       \/ Executing(depth, "runs") /\ AtKinds(depth, {"meta"})
       \/ mode = "running" /\ native[depth].code = "plain"
    /\ Installs(<<p>>)
    /\ Push(<<p>>)
    /\ ci' = [ci EXCEPT ![depth + 1] = Taken(frame)]
    /\ native' = [native EXCEPT ![depth].phase = "callee",
                                ![depth + 1] = Prologue(frame, p, "none")]
    /\ UNCHANGED <<status, prepared, mode, fault>>

(***************************************************************************)
(* Calls of C functions: through prepare_compiled_call for a call, through *)
(* forg_loop_call for a loop.                                              *)
(***************************************************************************)
AtCall == Executing(depth, "published") /\ AtKinds(depth, {"call", "loop"})
Calling == IF AtKinds(depth, {"call"}) THEN "prepare" ELSE "callee"

PreparedStatus(s) ==
    prepared' = IF AtKinds(depth, {"call"}) THEN [status |-> s, entry |-> "none"] ELSE prepared

CReturns(v) ==
    /\ AtCall
    /\ slot' = [slot EXCEPT ![depth] = v]
    /\ native' = [native EXCEPT ![depth].phase = Calling]
    /\ PreparedStatus("ok")
    /\ UNCHANGED <<ci, depth, status, mode, fault>>

(* lua_yield, or a pcall that leaves its function to the loop.             *)
Suspensions(s) ==
    IF s = "yield" THEN {<<"plain">>, <<"pcall", "plain">>}
    ELSE UNION {{<<"pcall", p>>, <<"pcall", "pcall", p>>} : p \in Protos}

CSuspends(fns, s) ==
    /\ AtCall
    /\ Yieldable
    /\ Installs(fns)
    /\ Push(fns)
    /\ PrecallFrames(fns)
    /\ status' = s
    /\ native' = [native EXCEPT ![depth].phase = Calling]
    /\ PreparedStatus("yielded")
    /\ IF AtKinds(depth, {"call"})
       THEN Checked((validCallSuspension \/ validScheduledReentrySuspension)', "running")
       ELSE mode' = "returning" /\ UNCHANGED fault

(* A C function that calls compiled code on the wasm stack: lua_call, or   *)
(* pcall where nothing may yield.                                          *)
Reentries(p) ==
    {<<"plain", p>>} \cup
    IF Yieldable THEN {} ELSE {<<"pcall", p>>, <<"pcall", "pcall", p>>}

CCallsCompiled(p, fns) ==
    /\ AtCall
    /\ Installs(fns)
    /\ Push(fns)
    /\ PrecallFrames(fns)
    /\ native' = [i \in Levels |->
                    IF i = depth THEN [native[i] EXCEPT !.phase = Calling]
                    ELSE IF i = depth + Len(fns) THEN Prologue(PrecallFrame(i, p), p, "none")
                    ELSE IF i \in (depth + 1)..(depth + Len(fns))
                         THEN [code |-> fns[i - depth], at |-> 1, phase |-> "callee"]
                    ELSE native[i]]
    /\ PreparedStatus("ok")
    /\ UNCHANGED <<status, mode, fault>>

(* The callee raises an error, or there is no room for its frame, or it    *)
(* yields where nothing may.                                               *)
Raises ==
    /\ \/ Executing(depth, "published")
       \/ Executing(depth, "runs") /\ AtKinds(depth, {"meta"})
    /\ mode' = "raising"
    /\ UNCHANGED <<ci, depth, slot, native, status, prepared, fault>>

(***************************************************************************)
(* Returns.                                                                *)
(***************************************************************************)

(* luau_poscall: the frame is left, and what it returned is in the         *)
(* caller's register.                                                      *)
luau_poscall(v) ==
    /\ depth > 1
    /\ depth' = depth - 1
    /\ slot' = [slot EXCEPT ![depth - 1] = v, ![depth] = "none"]
    /\ native' = [native EXCEPT ![depth] = Heap]

AtEnd ==
    /\ Executing(depth, "runs")
    /\ native[depth].at = Len(Code[native[depth].code]) + 1

Return(v) ==
    /\ AtEnd
    /\ luau_poscall(v)
    /\ UNCHANGED <<ci, status, prepared, mode, fault>>

(* The coroutine's own function returns to the host.                       *)
ReturnToHost ==
    /\ AtEnd
    /\ depth = 1
    /\ mode' = "dead"
    /\ UNCHANGED <<ci, depth, slot, native, status, prepared, fault>>

(* Mutant: prepare_compiled_call leaves the status of a call made during   *)
(* the C function.                                                         *)
CFunctionReturnsStale(v) ==
    /\ mode = "running"
    /\ native[depth].code \in CFunctions
    /\ luau_poscall(v)
    /\ UNCHANGED <<ci, status, prepared, mode, fault>>

(* A C function on the wasm stack returns.                                 *)
CFunctionReturns(v) ==
    /\ mode = "running"
    /\ native[depth].code \in CFunctions
    /\ luau_poscall(v)
    /\ prepared' = IF native[depth - 1].phase = "prepare"
                   THEN [prepared EXCEPT !.status = "ok"] ELSE prepared
    /\ UNCHANGED <<ci, status, mode, fault>>

(* Mutant: a call that ended without yielding leaves its id published. *)
FinishCallKeepsId ==
    /\ Executing(depth, "callee") \/ (Executing(depth, "prepare") /\ prepared.status = "ok")
    /\ AtKinds(depth, {"call", "loop"})
    /\ native' = [native EXCEPT ![depth].phase = "runs",
                                ![depth].at = After(native[depth].code, @, slot[depth])]
    /\ slot' = [slot EXCEPT ![depth] = "none"]
    /\ UNCHANGED <<ci, depth, status, prepared, mode, fault>>

(* The caller takes its id back, which must be the one it published, and   *)
(* goes on behind the call or, in a loop, from what the iterator returned. *)
FinishCall ==
    /\ Executing(depth, "callee") \/ (Executing(depth, "prepare") /\ prepared.status = "ok")
    /\ AtKinds(depth, {"call", "loop"})
    /\ ci' = [ci EXCEPT ![depth].aotstate = 0]
    /\ native' = [native EXCEPT ![depth].phase = "runs",
                                ![depth].at = After(native[depth].code, @, slot[depth])]
    /\ slot' = [slot EXCEPT ![depth] = "none"]
    /\ Checked(ci[depth].aotstate = native[depth].at, mode)
    /\ UNCHANGED <<depth, status, prepared>>

(* An operation is done, with a metamethod of compiled code or without.    *)
FinishMetamethod ==
    /\ Executing(depth, "callee") \/ Executing(depth, "runs")
    /\ AtKinds(depth, {"meta"})
    /\ native' = [native EXCEPT ![depth].phase = "runs", ![depth].at = @ + 1]
    /\ slot' = [slot EXCEPT ![depth] = "none"]
    /\ UNCHANGED <<ci, depth, status, prepared, mode, fault>>

(***************************************************************************)
(* Interrupts: the host's callback may return, yield or raise.             *)
(***************************************************************************)
InterruptReturns ==
    /\ Executing(depth, "published")
    /\ AtKinds(depth, {"interrupt"})
    /\ ci' = [ci EXCEPT ![depth].aotstate = 0]
    /\ native' = [native EXCEPT ![depth].phase = "runs", ![depth].at = @ + 1]
    /\ Checked(ci[depth].aotstate = native[depth].at, mode)
    /\ UNCHANGED <<depth, slot, status, prepared>>

InterruptYields ==
    /\ Executing(depth, "published")
    /\ AtKinds(depth, {"interrupt"})
    /\ Yieldable
    /\ status' = "yield"
    /\ mode' = "returning"
    /\ UNCHANGED <<ci, depth, slot, native, prepared, fault>>

(***************************************************************************)
(* YIELDED returns through the generated functions, innermost first, down  *)
(* to the entry; a loop's caller is marked for the end of its iterator.    *)
(***************************************************************************)
InIterator(i) == AtKinds(i, {"loop"}) /\ native[i].phase = "callee"

(* Mutant: the caller of a suspended iterator is not marked. *)
ReturnYieldedUnmarked ==
    \E i \in Levels :
        LET last == \A j \in 1..(i - 1) : OnHeap(j) IN
        /\ mode = "returning"
        /\ Innermost(i)
        /\ native' = [native EXCEPT ![i] = Heap]
        /\ Checked(last => validAotSuspension, IF last THEN "running" ELSE "returning")
        /\ UNCHANGED <<ci, depth, slot, status, prepared>>

ReturnYielded ==
    \E i \in Levels :
        LET last == \A j \in 1..(i - 1) : OnHeap(j) IN
        /\ mode = "returning"
        /\ Innermost(i)
        /\ native' = [native EXCEPT ![i] = Heap]
        /\ ci' = [ci EXCEPT ![i].opyield = @ \/ InIterator(i)]
        /\ Checked(/\ last => validAotSuspension
                   /\ InIterator(i) => validNativeSuspensionFrame(i) /\ validAotSuspension,
                   IF last THEN "running" ELSE "returning")
        /\ UNCHANGED <<depth, slot, status, prepared>>

(***************************************************************************)
(* The loop of ldo.cpp, when no compiled code is on the wasm stack.        *)
(***************************************************************************)
LoopRuns == mode = "running" /\ Innermost(0)

(* lua_resume: the host's values are the results of the function that      *)
(* yielded; a yield in an interrupt has none.                              *)
Resume(v) ==
    /\ LoopRuns
    /\ status = "yield"
    /\ ~IsLua(depth)
    /\ luau_poscall(v)
    /\ status' = "ok"
    /\ UNCHANGED <<ci, prepared, mode, fault>>

ResumeInterrupt ==
    /\ LoopRuns
    /\ status = "yield"
    /\ IsLua(depth)
    /\ status' = "ok"
    /\ UNCHANGED <<ci, depth, slot, native, prepared, mode, fault>>

(* A scheduled function is entered at once.                                *)
RunScheduled ==
    /\ LoopRuns
    /\ status = "scheduled"
    /\ status' = "ok"
    /\ UNCHANGED <<ci, depth, slot, native, prepared, mode, fault>>

(* resume_continue of a C frame: only a pcall has a continuation.          *)
RunContinuation(v) ==
    /\ LoopRuns
    /\ status = "ok"
    /\ ~IsLua(depth)
    /\ luau_poscall(v)
    /\ Checked(ci[depth].fn = "pcall", mode)
    /\ UNCHANGED <<ci, status, prepared>>

(* finish_yielded_op and enter: the frame goes on from its id.             *)
EnterFrame ==
    /\ LoopRuns
    /\ status = "ok"
    /\ IsLua(depth)
    /\ ci' = [ci EXCEPT ![depth] = [Taken(@) EXCEPT !.opyield = FALSE]]
    /\ native' = [native EXCEPT ![depth] = Prologue(ci[depth], ci[depth].fn, slot[depth])]
    /\ slot' = [slot EXCEPT ![depth] = "none"]
    /\ Checked(/\ ci[depth].opyield => ci[depth].aotstate # 0
               /\ KnownContinuation(ci[depth].fn, ci[depth].aotstate), mode)
    /\ UNCHANGED <<depth, status, prepared>>

(***************************************************************************)
(* Errors unwind to the innermost pcall.                                   *)
(***************************************************************************)
TopOf(S, i) == i \in S /\ \A j \in S : j <= i
NativePcalls == {i \in 1..depth : native[i].code = "pcall"}
Pcalls == {i \in 1..depth : ci[i].fn = "pcall"}

CutTo(i) ==
    /\ depth' = i
    /\ slot' = [j \in Levels |-> IF j <= i THEN slot[j] ELSE "none"]
    /\ status' = "ok"
    /\ mode' = "running"

(* luaD_pcall on the wasm stack.                                           *)
CatchNative ==
    \E i \in Levels :
        /\ mode = "raising"
        /\ TopOf(NativePcalls, i)
        /\ CutTo(i)
        /\ native' = [j \in Levels |-> IF j <= i THEN native[j] ELSE Heap]
        /\ UNCHANGED <<ci, prepared, fault>>

(* resume_findhandler: a suspended pcall, continued by the loop.           *)
CatchSuspended ==
    \E i \in Levels :
        /\ mode = "raising"
        /\ NativePcalls = {}
        /\ TopOf(Pcalls, i)
        /\ CutTo(i)
        /\ native' = [j \in Levels |-> Heap]
        /\ UNCHANGED <<ci, prepared, fault>>

Uncaught ==
    /\ mode = "raising"
    /\ Pcalls = {}
    /\ mode' = "dead"
    /\ UNCHANGED <<ci, depth, slot, native, status, prepared, fault>>

Dead == mode = "dead" /\ UNCHANGED vars

Next ==
    \/ PublishContinuation
    \/ \E p \in Protos :
          \/ FastCall(p)
          \/ PrepareCompiledCall(p)
          \/ EnterNative(p)
          \/ \E fns \in Reentries(p) : CCallsCompiled(p, fns)
    \/ CallPreparedEntry \/ PreparedYielded
    \/ \E s \in {"yield", "scheduled"} : \E fns \in Suspensions(s) : CSuspends(fns, s)
    \/ Raises
    \/ \E v \in Values :
          CReturns(v) \/ Return(v) \/ CFunctionReturns(v) \/ Resume(v) \/ RunContinuation(v)
    \/ ReturnToHost \/ FinishCall \/ FinishMetamethod
    \/ InterruptReturns \/ InterruptYields \/ ReturnYielded
    \/ ResumeInterrupt \/ RunScheduled \/ EnterFrame
    \/ CatchNative \/ CatchSuspended \/ Uncaught
    \/ Dead

Spec == Init /\ [][Next]_vars

(***************************************************************************)
(* Properties.                                                             *)
(***************************************************************************)

(* Every variable has its type. *)
TypeOK ==
    /\ ci \in [Levels -> [fn : Protos \cup CFunctions, aotstate : Nat, opyield : BOOLEAN]]
    /\ depth \in Levels
    /\ slot \in [Levels -> Values \cup {"none", "pending"}]
    /\ native \in [Levels -> [code : Protos \cup CFunctions \cup {"none"}, at : Nat,
                              phase : {"none", "runs", "published", "prepare", "callee"}]]
    /\ status \in {"ok", "yield", "scheduled"}
    /\ prepared \in [status : {"ok", "yielded", "prepared"}, entry : Protos \cup {"none"}]
    /\ mode \in {"running", "returning", "raising", "dead"}
    /\ fault \in BOOLEAN

(* No check the runtime and the generated code make on each other fails:   *)
(* an id is published only where none is, taken back by the site that      *)
(* published it, known to the function it enters, and every YIELDED comes  *)
(* with a suspension that can be resumed.                                  *)
NoInternalError == ~fault

(* A frame that has left the wasm stack below another one waits at a call  *)
(* or a loop whose id it has published: entering it goes on behind that    *)
(* call, not anywhere else and not from the start.                         *)
SuspendedFramesArePublished ==
    mode # "dead" =>
        \A i \in 1..depth : IsLua(i) /\ OnHeap(i) /\ i < depth =>
            /\ ci[i].aotstate \in 1..Len(Code[ci[i].fn])
            /\ Code[ci[i].fn][ci[i].aotstate] \in {"call", "loop"}

(* OPYIELD marks exactly the frames that wait for a suspended iterator.    *)
OpYieldMarksSuspendedIterators ==
    mode # "dead" =>
        \A i \in 1..depth : IsLua(i) =>
            (ci[i].opyield <=>
                /\ OnHeap(i)
                /\ ci[i].aotstate # 0
                /\ Code[ci[i].fn][ci[i].aotstate] = "loop")

(* The generated function that runs a frame is the one of the closure the  *)
(* frame was installed for, whatever other calls used the shared           *)
(* gPreparedCall in between.                                               *)
FrameRunsItsOwnCode ==
    \A i \in 1..depth : ~OnHeap(i) => native[i].code = ci[i].fn

(***************************************************************************)
(* What the frames amount to.  A frame is where its function is on the     *)
(* wasm stack, or else where its id will make it go on.                    *)
(***************************************************************************)
Position(i) ==
    IF ~IsLua(i) THEN 0
    ELSE IF ~OnHeap(i) THEN native[i].at
    ELSE IF ci[i].aotstate = 0 THEN 1 ELSE ci[i].aotstate

Activation(i) == [fn |-> ci[i].fn, at |-> Position(i), slot |-> slot[i]]
Activations == IF mode = "dead" THEN <<>> ELSE [i \in 1..depth |-> Activation(i)]
Life ==
    IF mode = "dead" THEN "dead" ELSE IF status = "yield" THEN "suspended" ELSE "running"

Calls == INSTANCE ResumableCalls WITH calls <- Activations, life <- Life

(* The frames, ids, native returns and re-entries implement calls that can *)
(* be suspended: every activation goes on exactly once for every call it   *)
(* made, behind that call, with the value that call returned.              *)
ImplementsResumableCalls == Calls!Spec
=============================================================================
