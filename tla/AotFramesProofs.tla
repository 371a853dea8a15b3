----------------------------- MODULE AotFramesProofs -----------------------------
(***************************************************************************)
(* Proofs about AotFrames, for any functions, any sites in them and any    *)
(* size of the CallInfo array: what its frames keep, and that they         *)
(* implement ResumableCalls.                                               *)
(***************************************************************************)
EXTENDS AotFrames, SequenceTheorems, TLAPS

(***************************************************************************)
(* The inductive invariant, by parts.                                      *)
(***************************************************************************)

(* A frame whose function is on the wasm stack: its id is the site it is   *)
(* at, from the moment the site publishes it until the site takes it back. *)
NativeFrame(i) ==
    /\ native[i].code = ci[i].fn
    /\ ~IsLua(i) => native[i].phase = "callee"
    /\ IsLua(i) =>
         /\ native[i].at \in 1..(Len(Code[ci[i].fn]) + 1)
         /\ native[i].phase # "none"
         /\ ~ci[i].opyield
         /\ native[i].phase = "runs" => ci[i].aotstate = 0
         /\ native[i].phase = "published" =>
              AtKinds(i, {"call", "loop", "interrupt"}) /\ ci[i].aotstate = native[i].at
         /\ native[i].phase = "prepare" =>
              AtKinds(i, {"call"}) /\ ci[i].aotstate = native[i].at
         /\ native[i].phase = "callee" =>
              \/ AtKinds(i, {"call", "loop"}) /\ ci[i].aotstate = native[i].at
              \/ AtKinds(i, {"meta"}) /\ ci[i].aotstate = 0

(* A frame that is only a CallInfo.                                        *)
HeapFrame(i) ==
    /\ ci[i].fn = "plain" => i = depth /\ status = "yield"
    /\ IsLua(i) =>
         /\ KnownContinuation(ci[i].fn, ci[i].aotstate)
         /\ i < depth => /\ ci[i].aotstate # 0
                         /\ Code[ci[i].fn][ci[i].aotstate] \in {"call", "loop"}
         /\ ci[i].opyield <=> /\ ci[i].aotstate # 0
                              /\ Code[ci[i].fn][ci[i].aotstate] = "loop"

FrameOK ==
    \A i \in Levels :
        /\ i > depth => OnHeap(i)
        /\ i <= depth /\ OnHeap(i) => HeapFrame(i)
        /\ i <= depth /\ ~OnHeap(i) => NativeFrame(i)

(* The functions on the wasm stack run neighbouring frames, and all but    *)
(* the innermost wait for the one above.                                   *)
Contiguous ==
    \A i, k \in Levels : ~OnHeap(i) /\ ~OnHeap(k) =>
        \A j \in Levels : i < j /\ j < k => ~OnHeap(j)
Waits ==
    \A i \in Levels : i < depth /\ ~OnHeap(i) /\ ~OnHeap(i + 1) =>
        /\ native[i].phase \in {"prepare", "callee"}
        /\ native[i].phase = "prepare" => ci[i + 1].fn \in CFunctions

(* While the coroutine is suspended, nothing on the wasm stack may lose    *)
(* its place, and the suspension can be resumed.                           *)
SuspendedStack ==
    status # "ok" =>
        /\ validAotSuspension
        /\ \A i \in Levels : ~OnHeap(i) =>
             /\ IsLua(i)
             /\ ~AtKinds(i, {"meta"})
             /\ \/ native[i].phase \in {"prepare", "callee"}
                \/ mode = "returning" /\ i = depth /\ AtKinds(i, {"interrupt"})

(* Which function can be the innermost while the program runs.             *)
LastNative(i) == i <= depth /\ ~OnHeap(i) /\ (i < depth => OnHeap(i + 1))

InnermostRuns ==
    mode = "running" =>
        \A i \in Levels : LastNative(i) =>
            /\ status # "ok" => native[i].phase = "prepare" /\ prepared.status = "yielded"
            /\ status = "ok" =>
                 \/ i = depth /\ (native[i].phase = "prepare" => prepared.status = "ok")
                 \/ /\ i = depth - 1
                    /\ native[i].phase = "prepare"
                    /\ prepared = [status |-> "prepared", entry |-> ci[depth].fn]
                    /\ IsLua(depth)
                    /\ ci[depth].aotstate = 0
                    /\ ~ci[depth].opyield

Modes ==
    /\ mode = "returning" => status # "ok"
    /\ mode = "raising" => status = "ok" /\ ~OnHeap(depth)

Consistent ==
    /\ TypeOK
    /\ ~fault
    /\ FrameOK
    /\ Contiguous
    /\ Waits
    /\ SuspendedStack
    /\ InnermostRuns
    /\ Modes

USE ProtosAssumption, CodeAssumption, MaxDepthAssumption DEF CFunctions, Kinds, Values, Levels, Heap

CallInfos == [fn : Protos \cup CFunctions, aotstate : Nat, opyield : BOOLEAN]
NativeFunctions ==
    [code : Protos \cup CFunctions \cup {"none"}, at : Nat,
     phase : {"none", "runs", "published", "prepare", "callee"}]

(* What the proof of every step starts from.                               *)
LEMMA Facts ==
    ASSUME Consistent
    PROVE  /\ depth \in Levels
           /\ \A i \in Levels : i \in Nat
           /\ \A i \in Levels : i > depth => OnHeap(i)
           /\ ci \in [Levels -> CallInfos]
           /\ native \in [Levels -> NativeFunctions]
           /\ slot \in [Levels -> Values \cup {"none", "pending"}]
           /\ fault = FALSE
           /\ \A p \in Protos : Len(Code[p]) \in Nat
  BY DEF Consistent, TypeOK, FrameOK, CallInfos, NativeFunctions

(* A frame that executes outside of a prepared call runs in a coroutine    *)
(* that is not suspended.                                                  *)
LEMMA ExecutingIsNotSuspended ==
    ASSUME Consistent, NEW phase, phase # "prepare", Executing(depth, phase)
    PROVE  /\ status = "ok"
           /\ ~OnHeap(depth) /\ IsLua(depth) /\ NativeFrame(depth)
<1>1. depth \in Levels
  BY DEF Consistent, TypeOK
<1>2. ~OnHeap(depth)
  BY <1>1 DEF Executing, OnHeap, Innermost
<1>3. NativeFrame(depth)
  BY <1>1, <1>2 DEF Consistent, FrameOK
<1>4. status = "ok"
  BY <1>1, <1>2 DEF Consistent, InnermostRuns, LastNative, Executing
<1> QED
  BY <1>2, <1>3, <1>4 DEF NativeFrame, Executing, IsLua

(***************************************************************************)
(* A step after which the frames from base up are all on the wasm stack,   *)
(* those below base are as they were, and the program runs.                *)
(***************************************************************************)
RunsFrom(base) ==
    /\ TypeOK' /\ fault' = FALSE /\ mode' = "running" /\ status' = "ok"
    /\ base \in Levels /\ base <= depth /\ base <= depth'
    /\ \A i \in Levels : i > base => OnHeap(i)
    /\ ~OnHeap(base) \/ (\A i \in Levels : OnHeap(i))
    /\ \A i \in Levels : i < base => ci'[i] = ci[i] /\ native'[i] = native[i]
    /\ ci'[base].fn = ci[base].fn
    /\ \A i \in base..depth' : native'[i] # Heap /\ NativeFrame(i)'
    /\ \A i \in Levels : i > depth' => native'[i] = Heap
    /\ \A i \in base..(depth' - 1) :
          /\ native'[i].phase \in {"prepare", "callee"}
          /\ native'[i].phase = "prepare" => ci'[i + 1].fn \in CFunctions
    /\ native'[depth'].phase = "prepare" => prepared'.status = "ok"

LEMMA RunsOn ==
    ASSUME Consistent, NEW base, RunsFrom(base)
    PROVE  Consistent'
<1> USE DEF RunsFrom
<1>1. /\ depth \in Levels /\ depth' \in Levels
      /\ \A i \in Levels : i \in Nat
  BY DEF Consistent, TypeOK
<1>2. FrameOK'
  <2> SUFFICES ASSUME NEW i \in Levels
               PROVE  /\ i > depth' => native'[i] = Heap
                      /\ i <= depth' /\ native'[i] = Heap => HeapFrame(i)'
                      /\ i <= depth' /\ native'[i] # Heap => NativeFrame(i)'
    BY DEF FrameOK, OnHeap
  <2>1. CASE i >= base
    BY <1>1, <2>1
  <2>2. CASE i < base
    <3>1. ci'[i] = ci[i] /\ native'[i] = native[i] /\ i < depth /\ i < depth'
      BY <1>1, <2>2
    <3>2. ASSUME OnHeap(i) PROVE HeapFrame(i)'
      <4>1. HeapFrame(i)
        BY <1>1, <3>1, <3>2 DEF Consistent, FrameOK
      <4> QED
        BY <1>1, <3>1, <4>1 DEF HeapFrame, IsLua, KnownContinuation
    <3>3. ASSUME ~OnHeap(i) PROVE NativeFrame(i)'
      <4>1. NativeFrame(i)
        BY <1>1, <3>1, <3>3 DEF Consistent, FrameOK
      <4> QED
        BY <3>1, <4>1 DEF NativeFrame, IsLua, AtKinds
    <3> QED
      BY <1>1, <3>1, <3>2, <3>3 DEF OnHeap
  <2> QED
    BY <1>1, <2>1, <2>2
<1>3. Contiguous'
  <2> SUFFICES ASSUME NEW i \in Levels, NEW k \in Levels, NEW j \in Levels,
                      native'[i] # Heap, native'[k] # Heap, i < j, j < k
               PROVE  native'[j] # Heap
    BY DEF Contiguous, OnHeap
  <2>1. k <= depth'
    BY <1>1
  <2>2. CASE j >= base
    BY <1>1, <2>1, <2>2
  <2>3. CASE j < base
    <3>1. ~OnHeap(i) /\ native'[j] = native[j]
      BY <1>1, <2>3 DEF OnHeap
    <3> QED
      BY <1>1, <2>3, <3>1 DEF Consistent, Contiguous, OnHeap
  <2> QED
    BY <1>1, <2>2, <2>3
<1>4. Waits'
  <2> SUFFICES ASSUME NEW i \in Levels, i < depth', native'[i] # Heap, native'[i + 1] # Heap
               PROVE  /\ native'[i].phase \in {"prepare", "callee"}
                      /\ native'[i].phase = "prepare" => ci'[i + 1].fn \in CFunctions
    BY DEF Waits, OnHeap
  <2>1. CASE i >= base
    BY <1>1, <2>1
  <2>2. CASE i < base
    <3>1. native'[i] = native[i] /\ ~OnHeap(i) /\ i + 1 \in Levels /\ i < depth
      BY <1>1, <2>2 DEF OnHeap
    <3>2. ~OnHeap(i + 1) /\ ci'[i + 1].fn = ci[i + 1].fn
      <4>1. CASE i + 1 = base
        BY <1>1, <3>1, <4>1
      <4>2. CASE i + 1 < base
        BY <1>1, <3>1, <4>2 DEF OnHeap
      <4> QED
        BY <1>1, <2>2, <4>1, <4>2
    <3> QED
      BY <3>1, <3>2 DEF Consistent, Waits
  <2> QED
    BY <1>1, <2>1, <2>2
<1>5. InnermostRuns'
  <2> SUFFICES ASSUME NEW i \in Levels, LastNative(i)'
               PROVE  i = depth' /\ (native'[i].phase = "prepare" => prepared'.status = "ok")
    BY DEF InnermostRuns
  <2>1. i <= depth' /\ native'[i] # Heap /\ (i < depth' => native'[i + 1] = Heap)
    BY DEF LastNative, OnHeap
  <2>2. CASE i >= base
    BY <1>1, <2>1, <2>2
  <2>3. CASE i < base
    <3>1. ~OnHeap(i) /\ ~OnHeap(base)
      BY <1>1, <2>1, <2>3 DEF OnHeap
    <3>2. i + 1 \in Levels /\ (i + 1 = base \/ (i < i + 1 /\ i + 1 < base))
      BY <1>1, <2>3
    <3>3. ~OnHeap(i + 1)
      BY <3>1, <3>2 DEF Consistent, Contiguous
    <3>4. native'[i + 1] # Heap
      BY <1>1, <3>2, <3>3 DEF OnHeap
    <3> QED
      BY <1>1, <2>1, <2>3, <3>4
  <2> QED
    BY <1>1, <2>2, <2>3
<1>6. SuspendedStack' /\ Modes'
  BY DEF SuspendedStack, Modes
<1> QED
  BY <1>2, <1>3, <1>4, <1>5, <1>6 DEF Consistent

(* A step of the innermost frame alone.                                    *)
LEMMA InnermostGoesOn ==
    ASSUME Consistent, ~OnHeap(depth), depth' = depth, status' = "ok",
           fault' = FALSE, mode' = "running", TypeOK',
           \A i \in depth..depth' : native'[i] # Heap /\ NativeFrame(i)',
           \A i \in Levels : i # depth => ci'[i] = ci[i] /\ native'[i] = native[i],
           ci'[depth].fn = ci[depth].fn,
           native'[depth].phase = "prepare" => prepared'.status = "ok"
    PROVE  RunsFrom(depth)
<1>1. /\ depth \in Levels /\ depth \in Nat
      /\ \A i \in Levels : i \in Nat
      /\ \A i \in Levels : i > depth => OnHeap(i)
  BY Facts
<1>2. depth <= depth /\ depth <= depth'
  BY <1>1
<1>3. \A i \in Levels : i < depth => ci'[i] = ci[i] /\ native'[i] = native[i]
  BY <1>1
<1>4. \A i \in Levels : i > depth' => native'[i] = Heap
  BY <1>1 DEF OnHeap
<1>5. \A i \in depth..(depth' - 1) : FALSE
  BY <1>1
<1> QED
  BY <1>1, <1>2, <1>3, <1>4, <1>5 DEF RunsFrom

LEMMA PublishContinuationKeeps ==
    ASSUME Consistent, PublishContinuation PROVE Consistent'
<1>1. /\ status = "ok"
      /\ ~OnHeap(depth) /\ IsLua(depth) /\ NativeFrame(depth)
      /\ native[depth].phase = "runs" /\ mode = "running"
  BY ExecutingIsNotSuspended DEF PublishContinuation, Executing
<1>2. fault' = FALSE /\ mode' = "running"
  BY <1>1, Facts DEF PublishContinuation, Checked, NativeFrame
<1>3. TypeOK'
  <2>1. ci' \in [Levels -> CallInfos] /\ native' \in [Levels -> NativeFunctions]
    <3>1. ci[depth] \in CallInfos /\ native[depth] \in NativeFunctions
      BY Facts
    <3>2. [ci[depth] EXCEPT !.aotstate = native[depth].at] \in CallInfos
      BY <3>1 DEF CallInfos, NativeFunctions
    <3>3. [native[depth] EXCEPT !.phase = "published"] \in NativeFunctions
      BY <3>1 DEF NativeFunctions
    <3> QED
      BY <3>2, <3>3, Facts DEF PublishContinuation
  <2> QED
    BY <1>2, <2>1 DEF Consistent, TypeOK, PublishContinuation, CallInfos, NativeFunctions
<1>4. ASSUME NEW i \in depth..depth' PROVE native'[i] # Heap /\ NativeFrame(i)'
  <2>1. i = depth
    BY Facts DEF PublishContinuation
  <2> QED
    BY <1>1, <2>1, Facts DEF PublishContinuation, NativeFrame, IsLua, AtKinds, CallInfos, NativeFunctions
<1>5. RunsFrom(depth)
  <2>1. depth' = depth /\ status' = "ok" /\ depth \in Nat
    BY <1>1, Facts DEF PublishContinuation
  <2>2. \A i \in Levels : i # depth => ci'[i] = ci[i] /\ native'[i] = native[i]
    BY Facts DEF PublishContinuation
  <2>3. ci'[depth].fn = ci[depth].fn /\ native'[depth].phase # "prepare"
    BY Facts DEF PublishContinuation, CallInfos, NativeFunctions
  <2> QED
    BY <1>1, <1>2, <1>3, <1>4, <2>1, <2>2, <2>3, InnermostGoesOn
<1> QED
  BY <1>5, RunsOn

LEMMA CReturnsKeeps ==
    ASSUME Consistent, NEW v \in Values, CReturns(v) PROVE Consistent'
<1>1. /\ status = "ok"
      /\ ~OnHeap(depth) /\ IsLua(depth) /\ NativeFrame(depth)
      /\ native[depth].phase = "published" /\ mode = "running"
  BY ExecutingIsNotSuspended DEF CReturns, AtCall, Executing
<1>2. fault' = FALSE /\ mode' = "running"
  BY <1>1, Facts DEF CReturns
<1>3. TypeOK'
  <2>1. ci' \in [Levels -> CallInfos] /\ native' \in [Levels -> NativeFunctions]
    <3>1. Calling \in {"prepare", "callee"} /\ native[depth] \in NativeFunctions
      BY Facts DEF Calling
    <3>2. [native[depth] EXCEPT !.phase = Calling] \in NativeFunctions
      BY <3>1 DEF NativeFunctions
    <3> QED
      BY <3>2, Facts DEF CReturns
  <2> QED
    BY <1>2, <2>1, Facts DEF Consistent, TypeOK, CReturns, AtCall, Calling, PreparedStatus, CallInfos, NativeFunctions
<1>4. ASSUME NEW i \in depth..depth' PROVE native'[i] # Heap /\ NativeFrame(i)'
  <2>1. i = depth
    BY Facts DEF CReturns
  <2>2. native'[depth] = [native[depth] EXCEPT !.phase = Calling] /\ native[depth] \in NativeFunctions
    BY Facts DEF CReturns
  <2>3. /\ native'[depth].code = native[depth].code /\ native'[depth].at = native[depth].at
        /\ native'[depth].phase = Calling
        /\ ci'[depth] = ci[depth]
    BY <2>2, Facts DEF CReturns, NativeFunctions
  <2>4. /\ native'[i].code = native[i].code /\ native'[i].at = native[i].at
        /\ ci'[i] = ci[i]
    BY <2>1, <2>3
  <2>5. /\ AtKinds(i, {"call", "loop"})' <=> AtKinds(i, {"call", "loop"})
        /\ AtKinds(i, {"call"})' <=> AtKinds(i, {"call"})
        /\ IsLua(i)' <=> IsLua(i)
    BY <2>4 DEF AtKinds, IsLua
  <2>6. AtKinds(i, {"call", "loop"}) /\ native'[i].phase = IF AtKinds(i, {"call"}) THEN "prepare" ELSE "callee"
    BY <2>1, <2>3 DEF CReturns, AtCall, Calling
  <2>7. NativeFrame(i) /\ IsLua(i) /\ native[i].phase = "published"
    BY <1>1, <2>1
  <2>8. native'[i] # Heap
    BY <2>6 DEF Heap
  <2> QED
    BY <2>4, <2>5, <2>6, <2>7, <2>8 DEF NativeFrame
<1>5. RunsFrom(depth)
  <2>1. depth' = depth /\ status' = "ok" /\ depth \in Nat
    BY <1>1, Facts DEF CReturns
  <2>2. \A i \in Levels : i # depth => ci'[i] = ci[i] /\ native'[i] = native[i]
    BY Facts DEF CReturns
  <2>3. /\ ci'[depth].fn = ci[depth].fn
        /\ native'[depth].phase = "prepare" => prepared'.status = "ok"
    BY <1>1, Facts DEF CReturns, AtCall, Calling, PreparedStatus, CallInfos, NativeFunctions
  <2> QED
    BY <1>1, <1>2, <1>3, <1>4, <2>1, <2>2, <2>3, InnermostGoesOn
<1> QED
  BY <1>5, RunsOn

LEMMA InterruptReturnsKeeps ==
    ASSUME Consistent, InterruptReturns PROVE Consistent'
<1>1. /\ status = "ok"
      /\ ~OnHeap(depth) /\ IsLua(depth) /\ NativeFrame(depth)
      /\ native[depth].phase = "published" /\ mode = "running"
  BY ExecutingIsNotSuspended DEF InterruptReturns, Executing
<1>2. fault' = FALSE /\ mode' = "running"
  BY <1>1, Facts DEF InterruptReturns, Checked, NativeFrame
<1>3. TypeOK'
  <2>1. ci' \in [Levels -> CallInfos]
    <3>1. [ci[depth] EXCEPT !.aotstate = 0] \in CallInfos
      BY Facts DEF CallInfos
    <3> QED
      BY <3>1, Facts DEF InterruptReturns
  <2>2. native' \in [Levels -> NativeFunctions]
    <3>1. native[depth].at + 1 \in Nat
      BY <1>1, Facts DEF NativeFunctions, After
    <3>2. native[depth] \in NativeFunctions
      BY Facts
    <3>3. native'[depth] \in NativeFunctions
      BY <3>1, <3>2, Facts DEF InterruptReturns, NativeFunctions
    <3> QED
      BY <3>3, Facts DEF InterruptReturns
  <2> QED
    BY <1>2, <2>1, <2>2, Facts DEF Consistent, TypeOK, InterruptReturns, CallInfos, NativeFunctions
<1>4. ASSUME NEW i \in depth..depth' PROVE native'[i] # Heap /\ NativeFrame(i)'
  <2>1. i = depth
    BY Facts DEF InterruptReturns
  <2>2. /\ native'[depth].code = native[depth].code
        /\ native'[depth].phase = "runs"
        /\ native'[depth].at = native[depth].at + 1
        /\ ci'[depth].fn = ci[depth].fn /\ ci'[depth].opyield = ci[depth].opyield
        /\ ci'[depth].aotstate = 0
    BY <1>1, Facts DEF InterruptReturns, NativeFunctions, CallInfos, NativeFrame, AtKinds
  <2>3. native'[depth].at \in 1..(Len(Code[ci[depth].fn]) + 1)
    BY <1>1, <2>2, Facts DEF InterruptReturns, After, NativeFrame, AtKinds, IsLua
  <2> QED
    BY <1>1, <2>1, <2>2, <2>3, Facts DEF NativeFrame, IsLua
<1>5. RunsFrom(depth)
  <2>1. depth' = depth /\ status' = "ok" /\ depth \in Nat
    BY <1>1, Facts DEF InterruptReturns
  <2>2. \A i \in Levels : i # depth => ci'[i] = ci[i] /\ native'[i] = native[i]
    BY Facts DEF InterruptReturns
  <2>3. /\ ci'[depth].fn = ci[depth].fn
        /\ native'[depth].phase = "prepare" => prepared'.status = "ok"
    BY <1>1, Facts DEF InterruptReturns, CallInfos, NativeFunctions
  <2> QED
    BY <1>1, <1>2, <1>3, <1>4, <2>1, <2>2, <2>3, InnermostGoesOn
<1> QED
  BY <1>5, RunsOn

(* A call can only be finished where the coroutine is not suspended.       *)
LEMMA FinishedIsNotSuspended ==
    ASSUME Consistent,
           \/ Executing(depth, "callee")
           \/ Executing(depth, "runs")
           \/ Executing(depth, "prepare") /\ prepared.status = "ok"
    PROVE  /\ status = "ok" /\ mode = "running"
           /\ ~OnHeap(depth) /\ IsLua(depth) /\ NativeFrame(depth)
<1>1. CASE Executing(depth, "callee") \/ Executing(depth, "runs")
  BY <1>1, ExecutingIsNotSuspended DEF Executing
<1>2. CASE Executing(depth, "prepare") /\ prepared.status = "ok"
  <2>1. depth \in Levels /\ depth \in Nat /\ mode = "running" /\ ~OnHeap(depth)
    BY <1>2, Facts DEF Executing, Innermost
  <2>2. status = "ok"
    BY <1>2, <2>1 DEF Consistent, InnermostRuns, LastNative
  <2>3. NativeFrame(depth)
    BY <2>1 DEF Consistent, FrameOK
  <2> QED
    BY <1>2, <2>1, <2>2, <2>3 DEF NativeFrame, Executing, IsLua
<1> QED
  BY <1>1, <1>2

LEMMA FinishCallKeeps ==
    ASSUME Consistent, FinishCall PROVE Consistent'
<1>1. /\ status = "ok"
      /\ ~OnHeap(depth) /\ IsLua(depth) /\ NativeFrame(depth)
      /\ native[depth].phase # "published" /\ mode = "running"
  BY FinishedIsNotSuspended DEF FinishCall, Executing
<1>2. fault' = FALSE /\ mode' = "running"
  BY <1>1, Facts DEF FinishCall, Checked, NativeFrame, AtKinds, Executing
<1>3. TypeOK'
  <2>1. ci' \in [Levels -> CallInfos]
    <3>1. [ci[depth] EXCEPT !.aotstate = 0] \in CallInfos
      BY Facts DEF CallInfos
    <3> QED
      BY <3>1, Facts DEF FinishCall
  <2>2. native' \in [Levels -> NativeFunctions]
    <3>1. After(native[depth].code, native[depth].at, slot[depth]) \in Nat
      BY <1>1, Facts DEF NativeFunctions, After
    <3>2. native[depth] \in NativeFunctions
      BY Facts
    <3>3. native'[depth] \in NativeFunctions
      BY <3>1, <3>2, Facts DEF FinishCall, NativeFunctions
    <3> QED
      BY <3>3, Facts DEF FinishCall
  <2> QED
    BY <1>2, <2>1, <2>2, Facts DEF Consistent, TypeOK, FinishCall, After, CallInfos, NativeFunctions
<1>4. ASSUME NEW i \in depth..depth' PROVE native'[i] # Heap /\ NativeFrame(i)'
  <2>1. i = depth
    BY Facts DEF FinishCall
  <2>2. /\ native'[depth].code = native[depth].code
        /\ native'[depth].phase = "runs"
        /\ native'[depth].at = After(native[depth].code, native[depth].at, slot[depth])
        /\ ci'[depth].fn = ci[depth].fn /\ ci'[depth].opyield = ci[depth].opyield
        /\ ci'[depth].aotstate = 0
    BY <1>1, Facts DEF FinishCall, NativeFunctions, CallInfos, NativeFrame, AtKinds
  <2>3. native'[depth].at \in 1..(Len(Code[ci[depth].fn]) + 1)
    BY <1>1, <2>2, Facts DEF FinishCall, After, NativeFrame, AtKinds, IsLua
  <2> QED
    BY <1>1, <2>1, <2>2, <2>3, Facts DEF NativeFrame, IsLua
<1>5. RunsFrom(depth)
  <2>1. depth' = depth /\ status' = "ok" /\ depth \in Nat
    BY <1>1, Facts DEF FinishCall
  <2>2. \A i \in Levels : i # depth => ci'[i] = ci[i] /\ native'[i] = native[i]
    BY Facts DEF FinishCall
  <2>3. /\ ci'[depth].fn = ci[depth].fn
        /\ native'[depth].phase = "prepare" => prepared'.status = "ok"
    BY <1>1, Facts DEF FinishCall, After, CallInfos, NativeFunctions
  <2> QED
    BY <1>1, <1>2, <1>3, <1>4, <2>1, <2>2, <2>3, InnermostGoesOn
<1> QED
  BY <1>5, RunsOn

LEMMA FinishMetamethodKeeps ==
    ASSUME Consistent, FinishMetamethod PROVE Consistent'
<1>1. /\ status = "ok"
      /\ ~OnHeap(depth) /\ IsLua(depth) /\ NativeFrame(depth)
      /\ native[depth].phase # "published" /\ mode = "running"
  BY FinishedIsNotSuspended DEF FinishMetamethod, Executing
<1>2. fault' = FALSE /\ mode' = "running"
  BY <1>1, Facts DEF FinishMetamethod
<1>3. TypeOK'
  <2>1. ci' \in [Levels -> CallInfos]
    BY <1>1, Facts DEF FinishMetamethod, CallInfos
  <2>2. native' \in [Levels -> NativeFunctions]
    <3>1. native[depth].at + 1 \in Nat
      BY <1>1, Facts DEF NativeFunctions, After
    <3>2. native[depth] \in NativeFunctions
      BY Facts
    <3>3. native'[depth] \in NativeFunctions
      <4>1. native'[depth] = [native[depth] EXCEPT !.phase = "runs", !.at = @ + 1]
        BY Facts DEF FinishMetamethod
      <4> QED
        BY <3>1, <3>2, <4>1 DEF NativeFunctions
    <3> QED
      BY <3>3, Facts DEF FinishMetamethod
  <2> QED
    BY <1>2, <2>1, <2>2, Facts DEF Consistent, TypeOK, FinishMetamethod, CallInfos, NativeFunctions
<1>4. ASSUME NEW i \in depth..depth' PROVE native'[i] # Heap /\ NativeFrame(i)'
  <2>1. i = depth
    BY Facts DEF FinishMetamethod
  <2>2. /\ native'[depth].code = native[depth].code
        /\ native'[depth].phase = "runs"
        /\ native'[depth].at = native[depth].at + 1
        /\ ci'[depth].fn = ci[depth].fn /\ ci'[depth].opyield = ci[depth].opyield
        /\ ci'[depth].aotstate = 0
    BY <1>1, Facts DEF FinishMetamethod, NativeFunctions, CallInfos, NativeFrame, AtKinds
  <2>3. native'[depth].at \in 1..(Len(Code[ci[depth].fn]) + 1)
    BY <1>1, <2>2, Facts DEF FinishMetamethod, After, NativeFrame, AtKinds, IsLua
  <2> QED
    BY <1>1, <2>1, <2>2, <2>3, Facts DEF NativeFrame, IsLua
<1>5. RunsFrom(depth)
  <2>1. depth' = depth /\ status' = "ok" /\ depth \in Nat
    BY <1>1, Facts DEF FinishMetamethod
  <2>2. \A i \in Levels : i # depth => ci'[i] = ci[i] /\ native'[i] = native[i]
    BY Facts DEF FinishMetamethod
  <2>3. /\ ci'[depth].fn = ci[depth].fn
        /\ native'[depth].phase = "prepare" => prepared'.status = "ok"
    BY <1>1, Facts DEF FinishMetamethod, CallInfos, NativeFunctions
  <2> QED
    BY <1>1, <1>2, <1>3, <1>4, <2>1, <2>2, <2>3, InnermostGoesOn
<1> QED
  BY <1>5, RunsOn

(* A frame that a call installs is entered at the start of its function.   *)
NewFrame(fn) == [fn |-> fn, aotstate |-> 0, opyield |-> FALSE]
Start(p) == [code |-> p, at |-> 1, phase |-> "runs"]

LEMMA Installed ==
    ASSUME NEW p \in Protos
    PROVE  /\ \A i : FastInstallFrame(i, p) = NewFrame(p) /\ PrecallFrame(i, p) = NewFrame(p)
           /\ Taken(NewFrame(p)) = NewFrame(p)
           /\ \A v : Prologue(NewFrame(p), p, v) = Start(p)
           /\ KnownContinuation(p, NewFrame(p).aotstate)
           /\ NewFrame(p) \in CallInfos
           /\ Start(p) \in NativeFunctions /\ Start(p) # Heap
<1>1. \A i : FastInstallFrame(i, p) = NewFrame(p) /\ PrecallFrame(i, p) = NewFrame(p)
  BY DEF FastInstallFrame, PrecallFrame, NewFrame
<1>2. Taken(NewFrame(p)) = NewFrame(p) /\ NewFrame(p).aotstate = 0
  <2>1. \A f \in CallInfos : f.aotstate = 0 => [f EXCEPT !.aotstate = 0] = f
    BY DEF CallInfos
  <2>2. NewFrame(p) \in CallInfos /\ NewFrame(p).aotstate = 0
    BY DEF NewFrame, CallInfos
  <2> QED
    BY <2>1, <2>2 DEF Taken
<1>3. (\A v : Prologue(NewFrame(p), p, v) = Start(p)) /\ KnownContinuation(p, NewFrame(p).aotstate)
  BY <1>2 DEF Prologue, Dispatch, Start, KnownContinuation
<1>4. NewFrame(p) \in CallInfos /\ Start(p) \in NativeFunctions
  BY DEF NewFrame, Start, CallInfos, NativeFunctions
<1>5. Start(p) # Heap
  <2>1. p # "none" /\ Start(p).code = p /\ Heap.code = "none"
    BY DEF Start
  <2> QED
    BY <2>1
<1> QED
  BY <1>1, <1>2, <1>3, <1>4, <1>5

(* A call that is entered on the wasm stack at once. *)
EntersCallee(p) ==
    /\ Installs(<<p>>)
    /\ Push(<<p>>)
    /\ ci' = [ci EXCEPT ![depth + 1] = NewFrame(p)]
    /\ native' = [native EXCEPT ![depth].phase = "callee", ![depth + 1] = Start(p)]
    /\ fault' = FALSE
    /\ UNCHANGED <<status, prepared, mode>>

MayEnter ==
    /\ status = "ok" /\ mode = "running" /\ ~OnHeap(depth) /\ NativeFrame(depth)
    /\ IsLua(depth) => \/ native[depth].phase = "published" /\ AtKinds(depth, {"call", "loop"})
                       \/ native[depth].phase = "runs" /\ AtKinds(depth, {"meta"})
    /\ ~IsLua(depth) => ci[depth].fn = "plain"

LEMMA EnteringKeeps ==
    ASSUME Consistent, NEW p \in Protos, MayEnter, EntersCallee(p)
    PROVE  Consistent'
<1>1. /\ status = "ok" /\ mode = "running" /\ ~OnHeap(depth) /\ NativeFrame(depth)
      /\ IsLua(depth) => \/ native[depth].phase = "published" /\ AtKinds(depth, {"call", "loop"})
                         \/ native[depth].phase = "runs" /\ AtKinds(depth, {"meta"})
  BY DEF MayEnter
<1>2. /\ depth' = depth + 1 /\ depth + 1 \in Levels /\ depth \in Nat
      /\ ci' = [ci EXCEPT ![depth + 1] = NewFrame(p)]
      /\ native' = [native EXCEPT ![depth].phase = "callee", ![depth + 1] = Start(p)]
      /\ status' = "ok" /\ prepared' = prepared
  <2>1. Len(<<p>>) = 1
    OBVIOUS
  <2> QED
    BY <1>1, <2>1, Facts DEF EntersCallee, Installs, Push
<1>3. fault' = FALSE /\ mode' = "running"
  BY <1>1 DEF EntersCallee
<1>4. /\ native'[depth].code = native[depth].code /\ native'[depth].at = native[depth].at
      /\ native'[depth].phase = "callee"
      /\ native'[depth] \in NativeFunctions /\ native'[depth] # Heap
      /\ native'[depth + 1] = Start(p)
      /\ ci'[depth] = ci[depth] /\ ci'[depth + 1] = NewFrame(p)
  <2>1. native[depth] \in NativeFunctions
    BY Facts
  <2> QED
    BY <1>2, <2>1, Facts DEF NativeFunctions
<1>5. \A i \in Levels : i < depth \/ i > depth + 1 => ci'[i] = ci[i] /\ native'[i] = native[i]
  BY <1>2, Facts
<1>6. TypeOK'
  <2>1. ci' \in [Levels -> CallInfos] /\ native' \in [Levels -> NativeFunctions]
    BY <1>2, <1>4, Installed, Facts
  <2>2. slot' \in [Levels -> Values \cup {"none", "pending"}]
    BY <1>2, Facts DEF EntersCallee, Push
  <2> QED
    BY <1>2, <1>3, <2>1, <2>2 DEF Consistent, TypeOK, CallInfos, NativeFunctions
<1>7. ASSUME NEW i \in depth..depth' PROVE native'[i] # Heap /\ NativeFrame(i)'
  <2>1. CASE i = depth
    BY <1>1, <1>4, <2>1, Facts DEF NativeFrame, IsLua, AtKinds
  <2>2. CASE i = depth + 1
    BY <1>4, <2>2, Installed, Facts DEF NativeFrame, IsLua, NewFrame, Start
  <2> QED
    BY <1>2, <2>1, <2>2
<1>8. RunsFrom(depth)
  <2>1. \A i \in depth..(depth' - 1) : i = depth
    BY <1>2
  <2>2. \A i \in Levels : i > depth' => native'[i] = Heap
    <3> SUFFICES ASSUME NEW i \in Levels, i > depth' PROVE native'[i] = Heap
      OBVIOUS
    <3>1. i > depth + 1 /\ i > depth
      BY <1>2, Facts
    <3>2. OnHeap(i)
      BY <3>1, Facts
    <3> QED
      BY <1>5, <3>1, <3>2 DEF OnHeap
  <2>3. native'[depth'].phase # "prepare"
    BY <1>2, <1>4 DEF Start
  <2>4. \A i \in depth..(depth' - 1) :
          /\ native'[i].phase \in {"prepare", "callee"}
          /\ native'[i].phase = "prepare" => ci'[i + 1].fn \in CFunctions
    BY <2>1, <1>4
  <2>5. \A i \in Levels : i < depth => ci'[i] = ci[i] /\ native'[i] = native[i]
    BY <1>5
  <2>6. depth <= depth' /\ ci'[depth].fn = ci[depth].fn
    BY <1>2, <1>4
  <2> QED
    <3>1. TypeOK' /\ fault' = FALSE /\ mode' = "running" /\ status' = "ok"
      BY <1>2, <1>3, <1>6
    <3>2. depth \in Levels /\ depth <= depth /\ depth <= depth'
      BY <1>2, <2>6, Facts
    <3>3. \A i \in Levels : i > depth => OnHeap(i)
      BY Facts
    <3>4. ~OnHeap(depth) \/ (\A i \in Levels : OnHeap(i))
      BY <1>1
    <3>5. \A i \in depth..depth' : native'[i] # Heap /\ NativeFrame(i)'
      BY <1>7
    <3>6. native'[depth'].phase = "prepare" => prepared'.status = "ok"
      BY <2>3
    <3> QED
      BY <3>1, <3>2, <3>3, <3>4, <3>5, <3>6, <2>2, <2>4, <2>5, <2>6 DEF RunsFrom
<1> QED
  BY <1>8, RunsOn

LEMMA FastCallEnters ==
    ASSUME Consistent, NEW p \in Protos, FastCall(p) PROVE MayEnter /\ EntersCallee(p)
<1>1. /\ status = "ok" /\ mode = "running" /\ ~OnHeap(depth) /\ NativeFrame(depth)
      /\ native[depth].phase = "published" /\ AtKinds(depth, {"call", "loop"})
      /\ IsLua(depth)
  BY ExecutingIsNotSuspended DEF FastCall, Executing
<1>2. EntersCallee(p)
  <2>1. /\ FastInstallFrame(depth + 1, p) = NewFrame(p)
        /\ Taken(NewFrame(p)) = NewFrame(p)
        /\ Prologue(NewFrame(p), p, "none") = Start(p)
        /\ KnownContinuation(p, NewFrame(p).aotstate)
    BY Installed
  <2> QED
    BY <1>1, <2>1, Facts DEF FastCall, Checked, EntersCallee
<1> QED
  BY <1>1, <1>2 DEF MayEnter

LEMMA EnterNativeEnters ==
    ASSUME Consistent, NEW p \in Protos, EnterNative(p) PROVE MayEnter /\ EntersCallee(p)
<1>1. /\ status = "ok" /\ mode = "running" /\ ~OnHeap(depth) /\ NativeFrame(depth)
      /\ IsLua(depth) => \/ native[depth].phase = "published" /\ AtKinds(depth, {"loop"})
                         \/ native[depth].phase = "runs" /\ AtKinds(depth, {"meta"})
      /\ ~IsLua(depth) => ci[depth].fn = "plain"
  <2>1. CASE Executing(depth, "published") \/ Executing(depth, "runs")
    BY <2>1, ExecutingIsNotSuspended DEF EnterNative, Executing, AtKinds
  <2>2. CASE mode = "running" /\ native[depth].code = "plain"
    <3>0. depth \in Levels /\ depth \in Nat /\ ~OnHeap(depth)
      BY <2>2, Facts DEF OnHeap
    <3>1. ~OnHeap(depth) /\ NativeFrame(depth)
      BY <3>0 DEF Consistent, FrameOK
    <3>2. ~IsLua(depth) /\ ci[depth].fn = "plain" /\ native[depth].phase = "callee"
      BY <2>2, <3>1 DEF NativeFrame, IsLua
    <3>3. status = "ok"
      BY <2>2, <3>0, <3>2 DEF Consistent, InnermostRuns, LastNative
    <3> QED
      BY <2>2, <3>1, <3>2, <3>3
  <2> QED
    BY <2>1, <2>2 DEF EnterNative
<1>2. EntersCallee(p)
  <2>1. /\ PrecallFrame(depth + 1, p) = NewFrame(p)
        /\ Taken(NewFrame(p)) = NewFrame(p)
        /\ Prologue(NewFrame(p), p, "none") = Start(p)
    BY Installed
  <2> QED
    BY <2>1, Facts DEF EnterNative, EntersCallee
<1>3. AtKinds(depth, {"loop"}) => AtKinds(depth, {"call", "loop"})
  BY DEF AtKinds
<1> QED
  BY <1>1, <1>2, <1>3 DEF MayEnter

(* A frame is entered at a site of its function, or at its end.            *)
LEMMA Dispatched ==
    ASSUME NEW p \in Protos, NEW id \in Nat, NEW v, KnownContinuation(p, id)
    PROVE  Dispatch(p, id, v) \in 1..(Len(Code[p]) + 1)
<1>1. Len(Code[p]) \in Nat
  OBVIOUS
<1> QED
  BY <1>1 DEF Dispatch, After, KnownContinuation

(* When the loop runs, nothing is on the wasm stack.                       *)
LEMMA LoopFacts ==
    ASSUME Consistent, LoopRuns
    PROVE  /\ mode = "running"
           /\ \A i \in Levels : OnHeap(i)
           /\ HeapFrame(depth)
<1>1. \A i \in Levels : OnHeap(i)
  BY Facts DEF LoopRuns, Innermost
<1>2. HeapFrame(depth)
  <2>1. depth \in Levels /\ depth <= depth /\ OnHeap(depth)
    BY <1>1, Facts
  <2> QED
    BY <2>1 DEF Consistent, FrameOK
<1> QED
  BY <1>1, <1>2 DEF LoopRuns

LEMMA EnterFrameKeeps ==
    ASSUME Consistent, EnterFrame PROVE Consistent'
<1> DEFINE p == ci[depth].fn
           at == Dispatch(p, ci[depth].aotstate, slot[depth])
<1>1. /\ depth \in Levels /\ depth \in Nat /\ p \in Protos
      /\ \A i \in Levels : OnHeap(i)
      /\ KnownContinuation(p, ci[depth].aotstate)
      /\ ci[depth].opyield => ci[depth].aotstate # 0
      /\ ci[depth].aotstate \in Nat
      /\ status = "ok" /\ mode = "running"
  BY LoopFacts, Facts DEF EnterFrame, HeapFrame, IsLua, CallInfos
<1>2. at \in 1..(Len(Code[p]) + 1) /\ at \in Nat
  BY <1>1, Dispatched, Facts
<1>3. /\ ci'[depth].fn = p /\ ci'[depth].aotstate = 0 /\ ci'[depth].opyield = FALSE
      /\ ci'[depth] \in CallInfos
      /\ \A i \in Levels : i # depth => ci'[i] = ci[i]
  <2>1. ci[depth] \in CallInfos
    BY Facts
  <2>2. ci'[depth] = [[ci[depth] EXCEPT !.aotstate = 0] EXCEPT !.opyield = FALSE]
    BY <1>1, Facts DEF EnterFrame, Taken
  <2>3. \A i \in Levels : i # depth => ci'[i] = ci[i]
    BY Facts DEF EnterFrame
  <2>4. /\ ci'[depth].fn = p /\ ci'[depth].aotstate = 0 /\ ci'[depth].opyield = FALSE
        /\ ci'[depth] \in CallInfos
    <3> DEFINE f == [ci[depth] EXCEPT !.aotstate = 0]
    <3>1. f \in CallInfos /\ f.fn = p /\ f.aotstate = 0
      BY <2>1 DEF CallInfos
    <3>2. \A g \in CallInfos : LET h == [g EXCEPT !.opyield = FALSE]
                               IN  /\ h \in CallInfos /\ h.fn = g.fn
                                   /\ h.aotstate = g.aotstate /\ h.opyield = FALSE
      BY DEF CallInfos
    <3> QED
      BY <2>2, <3>1, <3>2
  <2> QED
    BY <2>3, <2>4
<1>4. /\ native'[depth] = [code |-> p, at |-> at, phase |-> "runs"]
      /\ native'[depth] \in NativeFunctions /\ native'[depth] # Heap
      /\ \A i \in Levels : i # depth => native'[i] = native[i]
  <2>1. native'[depth] = [code |-> p, at |-> at, phase |-> "runs"]
    BY <1>1, Facts DEF EnterFrame, Prologue
  <2>2. native'[depth].phase # Heap.phase
    BY <2>1
  <2> QED
    BY <1>1, <1>2, <2>1, <2>2, Facts DEF EnterFrame, NativeFunctions
<1>5. fault' = FALSE /\ mode' = "running" /\ depth' = depth /\ status' = "ok"
  BY <1>1, Facts DEF EnterFrame, Checked
<1>6. TypeOK'
  <2>1. ci' \in [Levels -> CallInfos]
    BY <1>1, <1>3, Facts DEF EnterFrame
  <2>2. native' \in [Levels -> NativeFunctions]
    BY <1>1, <1>4, Facts DEF EnterFrame
  <2>3. slot' \in [Levels -> Values \cup {"none", "pending"}] /\ prepared' = prepared
    BY <1>1, Facts DEF EnterFrame
  <2> QED
    BY <1>5, <2>1, <2>2, <2>3 DEF Consistent, TypeOK, CallInfos, NativeFunctions
<1>7. ASSUME NEW i \in depth..depth' PROVE native'[i] # Heap /\ NativeFrame(i)'
  <2>1. i = depth
    BY <1>1, <1>5
  <2> QED
    BY <1>1, <1>2, <1>3, <1>4, <2>1, SMTT(20) DEF NativeFrame, IsLua
<1>8. RunsFrom(depth)
  <2>1. \A i \in Levels : i > depth' => native'[i] = Heap
    BY <1>1, <1>4, <1>5 DEF OnHeap
  <2>2. native'[depth'].phase # "prepare" /\ depth <= depth'
    BY <1>1, <1>4, <1>5
  <2>3. \A i \in depth..(depth' - 1) : FALSE
    BY <1>1, <1>5
  <2>4. ci'[depth].fn = ci[depth].fn /\ ~(depth < depth)
    BY <1>1, <1>3
  <2>5. \A i \in Levels : i < depth => ci'[i] = ci[i] /\ native'[i] = native[i]
    <3>1. \A i \in Levels : i < depth => i # depth
      BY <1>1
    <3> QED
      BY <1>3, <1>4, <3>1
  <2> QED
    BY <1>1, <1>5, <1>6, <1>7, <2>1, <2>2, <2>3, <2>4, <2>5 DEF RunsFrom
<1> QED
  BY <1>8, RunsOn

LEMMA CallPreparedEntryKeeps ==
    ASSUME Consistent, CallPreparedEntry PROVE Consistent'
<1> DEFINE p == ci[depth].fn
<1>1. PICK i \in Levels :
        /\ Executing(i, "prepare")
        /\ prepared.status = "prepared"
        /\ ci' = [ci EXCEPT ![depth] = Taken(@)]
        /\ native' = [native EXCEPT
                        ![i].phase = "callee",
                        ![depth] = Prologue(ci[depth], prepared.entry, slot[depth])]
        /\ Checked(KnownContinuation(prepared.entry, ci[depth].aotstate), mode)
        /\ UNCHANGED <<depth, slot, status, prepared>>
  BY DEF CallPreparedEntry
<1>2. /\ i \in 1..depth /\ i \in Nat /\ depth \in Nat /\ mode = "running"
      /\ ~OnHeap(i) /\ native[i].phase = "prepare" /\ native[i].code \in Protos
      /\ LastNative(i)
      /\ \A j \in (i + 1)..depth : OnHeap(j)
  <2>1. /\ i \in 1..depth /\ i \in Nat /\ depth \in Nat /\ mode = "running"
        /\ ~OnHeap(i) /\ native[i].phase = "prepare" /\ native[i].code \in Protos
        /\ \A j \in (i + 1)..depth : OnHeap(j)
    BY <1>1, Facts DEF Executing, Innermost
  <2>2. LastNative(i)
    BY <2>1 DEF LastNative
  <2> QED
    BY <2>1, <2>2
<1>3. /\ status = "ok" /\ i = depth - 1
      /\ prepared = [status |-> "prepared", entry |-> p] /\ p \in Protos
      /\ ci[depth].aotstate = 0 /\ ~ci[depth].opyield
  BY <1>1, <1>2 DEF Consistent, InnermostRuns, IsLua
<1>4. ci' = ci
  <2>1. ci[depth] \in CallInfos
    BY Facts
  <2>2. Taken(ci[depth]) = ci[depth]
    BY <1>3, <2>1 DEF Taken, CallInfos
  <2> QED
    BY <1>1, <2>2, Facts
<1>5. native' = [native EXCEPT ![i].phase = "callee", ![depth] = Start(p)]
  <2>1. Prologue(ci[depth], p, slot[depth]) = Start(p)
    BY <1>3 DEF Prologue, Dispatch, Start
  <2>2. prepared.entry = p
    BY <1>3
  <2> QED
    BY <1>1, <2>1, <2>2
<1>6. fault' = FALSE /\ mode' = "running" /\ depth' = depth /\ status' = "ok"
  <2>1. KnownContinuation(prepared.entry, ci[depth].aotstate)
    BY <1>3 DEF KnownContinuation
  <2> QED
    BY <1>1, <1>2, <1>3, <2>1, Facts DEF Checked
<1>7. /\ native'[i].code = native[i].code /\ native'[i].at = native[i].at
      /\ native'[i].phase = "callee"
      /\ native'[i] \in NativeFunctions /\ native'[i] # Heap
      /\ native'[depth] = Start(p) /\ native'[depth] # Heap
      /\ native'[depth] \in NativeFunctions
      /\ \A j \in Levels : j # i /\ j # depth => native'[j] = native[j]
  <2>1. native[i] \in NativeFunctions /\ i # depth /\ depth \in Levels
    BY <1>3, <1>2, Facts
  <2>2. /\ native'[i] = [native[i] EXCEPT !.phase = "callee"]
        /\ native'[depth] = Start(p)
        /\ \A j \in Levels : j # i /\ j # depth => native'[j] = native[j]
    BY <1>5, <2>1, Facts
  <2>3. Start(p) # Heap /\ Start(p) \in NativeFunctions
    BY <1>3, Installed
  <2>4. /\ native'[i].code = native[i].code /\ native'[i].at = native[i].at
        /\ native'[i].phase = "callee" /\ native'[i] \in NativeFunctions
    BY <2>1, <2>2 DEF NativeFunctions
  <2>5. native'[i] # Heap
    BY <2>4
  <2> QED
    BY <2>2, <2>3, <2>4, <2>5
<1>8. TypeOK'
  <2>1. native' \in [Levels -> NativeFunctions]
    BY <1>5, <1>7, Facts
  <2> QED
    BY <1>1, <1>4, <1>6, <2>1 DEF Consistent, TypeOK, NativeFunctions
<1>9. ASSUME NEW j \in i..depth' PROVE native'[j] # Heap /\ NativeFrame(j)'
  <2>1. CASE j = i
    <3>1. NativeFrame(i)
      BY <1>2 DEF Consistent, FrameOK
    <3> QED
      BY <1>2, <1>4, <1>7, <2>1, <3>1 DEF NativeFrame, IsLua, AtKinds
  <2>2. CASE j = depth
    BY <1>3, <1>4, <1>7, <2>2, Facts DEF NativeFrame, IsLua, Start
  <2> QED
    BY <1>2, <1>3, <1>6, <2>1, <2>2
<1>10. RunsFrom(i)
  <2>1. \A j \in Levels : j > depth' => native'[j] = Heap
    BY <1>2, <1>3, <1>6, <1>7, Facts DEF OnHeap
  <2>2. native'[depth'].phase # "prepare" /\ i <= depth' /\ i <= depth
    BY <1>2, <1>6, <1>7 DEF Start
  <2>3. \A j \in i..(depth' - 1) : j = i
    BY <1>2, <1>3, <1>6
  <2>4. \A j \in Levels : j < i => ci'[j] = ci[j] /\ native'[j] = native[j]
    BY <1>2, <1>4, <1>7
  <2>5. \A j \in Levels : j > i => OnHeap(j)
    BY <1>2, Facts
  <2>6. \A j \in i..(depth' - 1) :
          /\ native'[j].phase \in {"prepare", "callee"}
          /\ native'[j].phase = "prepare" => ci'[j + 1].fn \in CFunctions
    BY <2>3, <1>7
  <2> QED
    BY <1>2, <1>4, <1>6, <1>8, <1>9, <2>1, <2>2, <2>4, <2>5, <2>6 DEF RunsFrom
<1> QED
  BY <1>10, RunsOn

(* C functions that end in a compiled function, or in one that yields.     *)
LEMMA ReentriesAre ==
    ASSUME NEW p \in Protos, NEW fns \in Reentries(p)
    PROVE  /\ Len(fns) \in {2, 3} /\ fns[Len(fns)] = p
           /\ \A k \in 1..(Len(fns) - 1) : fns[k] \in CFunctions
<1>1. fns \in {<<"plain", p>>, <<"pcall", p>>, <<"pcall", "pcall", p>>}
  BY DEF Reentries
<1>2. CASE fns = <<"plain", p>>
  BY <1>2
<1>3. CASE fns = <<"pcall", p>>
  BY <1>3
<1>4. CASE fns = <<"pcall", "pcall", p>>
  BY <1>4
<1> QED
  BY <1>1, <1>2, <1>3, <1>4

LEMMA CCallsCompiledKeeps ==
    ASSUME Consistent, NEW p \in Protos, NEW fns \in Reentries(p), CCallsCompiled(p, fns)
    PROVE  Consistent'
<1> DEFINE n == Len(fns)
<1>1. /\ status = "ok" /\ mode = "running" /\ ~OnHeap(depth) /\ NativeFrame(depth)
      /\ IsLua(depth) /\ native[depth].phase = "published" /\ AtKinds(depth, {"call", "loop"})
  BY ExecutingIsNotSuspended DEF CCallsCompiled, AtCall, Executing
<1>2. /\ n \in {2, 3} /\ fns[n] = p
      /\ \A k \in 1..(n - 1) : fns[k] \in CFunctions
      /\ \A k \in 1..n : fns[k] \in Protos \cup CFunctions
  BY ReentriesAre
<1> HIDE DEF n
<1>3. /\ depth' = depth + n /\ depth \in Levels /\ depth \in Nat /\ depth + n \in Levels
      /\ status' = "ok" /\ mode' = "running" /\ fault' = FALSE
  BY <1>1, <1>2, Facts DEF CCallsCompiled, Installs, Push, n
<1>4. \A i \in Levels :
        ci'[i] = IF i \in (depth + 1)..(depth + n) THEN NewFrame(fns[i - depth]) ELSE ci[i]
  BY DEF CCallsCompiled, PrecallFrames, PrecallFrame, NewFrame, n
<1>5. native' = [i \in Levels |->
                   IF i = depth THEN [native[i] EXCEPT !.phase = Calling]
                   ELSE IF i = depth + n THEN Start(p)
                   ELSE IF i \in (depth + 1)..(depth + n)
                        THEN [code |-> fns[i - depth], at |-> 1, phase |-> "callee"]
                   ELSE native[i]]
  <2>1. \A i \in Levels : Prologue(PrecallFrame(i, p), p, "none") = Start(p)
    BY Installed
  <2> QED
    BY <2>1 DEF CCallsCompiled, n
<1>6. /\ Calling \in {"prepare", "callee"}
      /\ Calling = "prepare" <=> AtKinds(depth, {"call"})
      /\ native'[depth].code = native[depth].code /\ native'[depth].at = native[depth].at
      /\ native'[depth].phase = Calling
      /\ native'[depth] \in NativeFunctions /\ native'[depth] # Heap
  <2>1. Calling \in {"prepare", "callee"} /\ (Calling = "prepare" <=> AtKinds(depth, {"call"}))
    BY DEF Calling
  <2>2. native[depth] \in NativeFunctions /\ native'[depth] = [native[depth] EXCEPT !.phase = Calling]
    BY <1>3, <1>5, Facts
  <2>3. /\ native'[depth].code = native[depth].code /\ native'[depth].at = native[depth].at
        /\ native'[depth].phase = Calling /\ native'[depth] \in NativeFunctions
    BY <2>1, <2>2 DEF NativeFunctions
  <2> QED
    BY <2>1, <2>3
<1>7. \A i \in Levels : depth < i /\ i < depth + n =>
        /\ native'[i].phase = "callee" /\ native'[i].code = fns[i - depth]
        /\ fns[i - depth] \in CFunctions
        /\ native'[i] \in NativeFunctions /\ native'[i] # Heap
  <2> SUFFICES ASSUME NEW i \in Levels, depth < i, i < depth + n
               PROVE  /\ native'[i].phase = "callee" /\ native'[i].code = fns[i - depth]
                      /\ fns[i - depth] \in CFunctions
                      /\ native'[i] \in NativeFunctions /\ native'[i] # Heap
    OBVIOUS
  <2>1. i - depth \in 1..(n - 1)
    BY <1>2, <1>3
  <2>2. fns[i - depth] \in CFunctions
    BY <1>2, <2>1
  <2>3. native'[i] = [code |-> fns[i - depth], at |-> 1, phase |-> "callee"]
    BY <1>2, <1>3, <1>5
  <2>4. native'[i].phase = "callee" /\ native'[i].code = fns[i - depth]
    BY <2>3
  <2> QED
    BY <2>2, <2>3, <2>4 DEF NativeFunctions
<1>8. native'[depth + n] = Start(p) /\ Start(p) \in NativeFunctions /\ Start(p) # Heap
  BY <1>2, <1>3, <1>5, Installed
<1>9. \A i \in Levels : i < depth \/ i > depth + n => ci'[i] = ci[i] /\ native'[i] = native[i]
  BY <1>2, <1>3, <1>4, <1>5
<1>10. TypeOK'
  <2>1. ci' \in [Levels -> CallInfos]
    <3>1. ASSUME NEW i \in Levels PROVE ci'[i] \in CallInfos
      <4>1. CASE i \in (depth + 1)..(depth + n)
        <5>1. i - depth \in 1..n
          BY <1>2, <1>3, <4>1
        <5>2. fns[i - depth] \in Protos \cup CFunctions
          BY <1>2, <5>1
        <5>3. ci'[i] = NewFrame(fns[i - depth])
          BY <1>4, <4>1
        <5> QED
          BY <5>2, <5>3 DEF NewFrame, CallInfos
      <4>2. CASE i \notin (depth + 1)..(depth + n)
        BY <1>4, <4>2, Facts
      <4> QED
        BY <4>1, <4>2
    <3>2. ci' = [i \in Levels |-> ci'[i]]
      BY DEF CCallsCompiled, PrecallFrames
    <3> QED
      BY <3>1, <3>2
  <2>2. native' \in [Levels -> NativeFunctions]
    <3>1. ASSUME NEW i \in Levels PROVE native'[i] \in NativeFunctions
      BY <1>2, <1>3, <1>6, <1>7, <1>8, <1>9, Facts
    <3>2. native' = [i \in Levels |-> native'[i]]
      BY <1>5
    <3> QED
      BY <3>1, <3>2
  <2>3. slot' \in [Levels -> Values \cup {"none", "pending"}]
    BY <1>3, Facts DEF CCallsCompiled, Push
  <2>4. prepared' \in [status : {"ok", "yielded", "prepared"}, entry : Protos \cup {"none"}]
    BY DEF CCallsCompiled, PreparedStatus, Consistent, TypeOK
  <2> QED
    BY <1>3, <2>1, <2>2, <2>3, <2>4 DEF TypeOK, CallInfos, NativeFunctions
<1>11. ASSUME NEW i \in depth..depth' PROVE native'[i] # Heap /\ NativeFrame(i)'
  <2>0. i \in Levels
    BY <1>2, <1>3
  <2>1. CASE i = depth
    <3>1. ci'[depth] = ci[depth]
      BY <1>2, <1>3, <1>4
    <3> QED
      BY <1>1, <1>6, <2>1, <3>1 DEF NativeFrame, IsLua, AtKinds
  <2>2. CASE depth < i /\ i < depth + n
    <3>1. ci'[i].fn = fns[i - depth]
      <4>1. ci'[i] = NewFrame(fns[i - depth])
        BY <1>2, <1>3, <1>4, <2>0, <2>2
      <4> QED
        BY <4>1 DEF NewFrame
    <3> QED
      BY <1>7, <2>0, <2>2, <3>1 DEF NativeFrame, IsLua
  <2>3. CASE i = depth + n
    <3>1. ci'[i] = NewFrame(p)
      BY <1>2, <1>3, <1>4, <2>0, <2>3
    <3> QED
      BY <1>8, <2>3, <3>1, Facts DEF NativeFrame, IsLua, NewFrame, Start
  <2> QED
    BY <1>2, <1>3, <2>1, <2>2, <2>3
<1>12. RunsFrom(depth)
  <2>1. \A i \in Levels : i > depth' => native'[i] = Heap
    <3>1. \A i \in Levels : i > depth' => i > depth + n /\ i > depth
      BY <1>2, <1>3
    <3> QED
      BY <1>9, <3>1, Facts DEF OnHeap
  <2>2. native'[depth'].phase # "prepare" /\ depth <= depth' /\ depth <= depth
    BY <1>2, <1>3, <1>8 DEF Start
  <2>3. ASSUME NEW i \in depth..(depth' - 1)
        PROVE  /\ native'[i].phase \in {"prepare", "callee"}
               /\ native'[i].phase = "prepare" => ci'[i + 1].fn \in CFunctions
    <3>1. CASE i = depth
      <4>1. ci'[depth + 1].fn = fns[1] /\ fns[1] \in CFunctions
        <5>1. depth + 1 \in (depth + 1)..(depth + n) /\ depth + 1 \in Levels /\ (depth + 1) - depth = 1
          BY <1>2, <1>3
        <5>2. ci'[depth + 1] = NewFrame(fns[1])
          BY <1>4, <5>1
        <5> QED
          BY <1>2, <5>2 DEF NewFrame
      <4> QED
        BY <1>6, <3>1, <4>1
    <3>2. CASE i # depth
      <4>1. i \in Levels /\ depth < i /\ i < depth + n
        BY <1>2, <1>3, <3>2
      <4> QED
        BY <1>7, <4>1
    <3> QED
      BY <3>1, <3>2
  <2>4. \A i \in Levels : i < depth => ci'[i] = ci[i] /\ native'[i] = native[i]
    BY <1>9
  <2>5. ci'[depth].fn = ci[depth].fn
    BY <1>2, <1>3, <1>4
  <2>6. \A i \in Levels : i > depth => OnHeap(i)
    BY Facts
  <2>7. depth \in Levels /\ (~OnHeap(depth) \/ (\A i \in Levels : OnHeap(i)))
    BY <1>1, <1>3
  <2>8. \A i \in depth..depth' : native'[i] # Heap /\ NativeFrame(i)'
    BY <1>11
  <2>9. TypeOK' /\ fault' = FALSE /\ mode' = "running" /\ status' = "ok"
    BY <1>3, <1>10
  <2>10. \A i \in depth..(depth' - 1) :
            /\ native'[i].phase \in {"prepare", "callee"}
            /\ native'[i].phase = "prepare" => ci'[i + 1].fn \in CFunctions
    BY <2>3
  <2> QED
    BY <2>1, <2>2, <2>4, <2>5, <2>6, <2>7, <2>8, <2>9, <2>10 DEF RunsFrom
<1> QED
  BY <1>12, RunsOn

(***************************************************************************)
(* A step that leaves the innermost frame.                                 *)
(***************************************************************************)
Leaves(v) ==
    /\ luau_poscall(v)
    /\ ci' = ci /\ status' = "ok" /\ mode' = "running" /\ fault' = FALSE
    /\ prepared' \in [status : {"ok", "yielded", "prepared"}, entry : Protos \cup {"none"}]
    /\ ~OnHeap(depth) \/ (\A i \in Levels : OnHeap(i))
    /\ native[depth - 1].phase = "prepare" => prepared'.status = "ok"

LEMMA LeavingKeeps ==
    ASSUME Consistent, NEW v \in Values, Leaves(v)
    PROVE  Consistent'
<1>1. /\ depth \in Levels /\ depth \in Nat /\ depth > 1 /\ depth - 1 \in Levels
      /\ depth' = depth - 1 /\ ci' = ci /\ native' = [native EXCEPT ![depth] = Heap]
      /\ slot' = [slot EXCEPT ![depth - 1] = v, ![depth] = "none"]
  BY Facts DEF Leaves, luau_poscall
<1>2. /\ native'[depth] = Heap
      /\ \A i \in Levels : i # depth => native'[i] = native[i]
  BY <1>1, Facts
<1>3. TypeOK'
  <2>1. native' \in [Levels -> NativeFunctions]
    BY <1>1, Facts DEF NativeFunctions
  <2>2. slot' \in [Levels -> Values \cup {"none", "pending"}]
    BY <1>1, Facts
  <2> QED
    BY <1>1, <2>1, <2>2 DEF Leaves, Consistent, TypeOK, NativeFunctions
<1>4. FrameOK'
  <2> SUFFICES ASSUME NEW i \in Levels
               PROVE  /\ i > depth' => native'[i] = Heap
                      /\ i <= depth' /\ native'[i] = Heap => HeapFrame(i)'
                      /\ i <= depth' /\ native'[i] # Heap => NativeFrame(i)'
    BY DEF FrameOK, OnHeap
  <2>1. ASSUME i > depth' PROVE native'[i] = Heap
    <3>1. i = depth \/ i > depth
      BY <1>1, <2>1, Facts
    <3> QED
      BY <1>1, <1>2, <3>1, Facts DEF OnHeap
  <2>2. ASSUME i <= depth' PROVE i < depth /\ native'[i] = native[i] /\ i # depth
    BY <1>1, <1>2, <2>2, Facts
  <2>3. ASSUME i <= depth', native'[i] = Heap PROVE HeapFrame(i)'
    <3>1. HeapFrame(i) /\ i # depth /\ i < depth /\ i \in Nat
      BY <1>1, <2>2, <2>3, Facts DEF Consistent, FrameOK, OnHeap
    <3>2. ~(ci[i].fn = "plain")
      BY <3>1 DEF HeapFrame
    <3> QED
      BY <1>1, <3>1, <3>2 DEF HeapFrame, IsLua, KnownContinuation
  <2>4. ASSUME i <= depth', native'[i] # Heap PROVE NativeFrame(i)'
    <3>1. NativeFrame(i)
      BY <1>1, <2>2, <2>4, Facts DEF Consistent, FrameOK, OnHeap
    <3> QED
      BY <1>1, <2>2, <2>4, <3>1 DEF NativeFrame, IsLua, AtKinds
  <2> QED
    BY <2>1, <2>3, <2>4
<1>5. Contiguous'
  <2> SUFFICES ASSUME NEW i \in Levels, NEW k \in Levels, NEW j \in Levels,
                      native'[i] # Heap, native'[k] # Heap, i < j, j < k
               PROVE  native'[j] # Heap
    BY DEF Contiguous, OnHeap
  <2>1. i # depth /\ k # depth /\ ~OnHeap(i) /\ ~OnHeap(k)
    BY <1>2 DEF OnHeap
  <2>2. ~OnHeap(j) /\ k <= depth
    <3>1. ~OnHeap(j)
      BY <2>1 DEF Consistent, Contiguous
    <3>2. ~(k > depth)
      BY <2>1, Facts
    <3> QED
      BY <3>1, <3>2, Facts
  <2>3. j # depth
    BY <1>1, <2>2, Facts
  <2> QED
    BY <1>2, <2>2, <2>3 DEF OnHeap
<1>6. Waits'
  <2> SUFFICES ASSUME NEW i \in Levels, i < depth', native'[i] # Heap, native'[i + 1] # Heap
               PROVE  /\ native'[i].phase \in {"prepare", "callee"}
                      /\ native'[i].phase = "prepare" => ci'[i + 1].fn \in CFunctions
    BY DEF Waits, OnHeap
  <2>1. i < depth /\ i # depth /\ i + 1 # depth /\ i + 1 \in Levels
    BY <1>1, Facts
  <2>2. ~OnHeap(i) /\ ~OnHeap(i + 1) /\ native'[i] = native[i]
    BY <1>2, <2>1 DEF OnHeap
  <2> QED
    BY <1>1, <2>1, <2>2 DEF Consistent, Waits
<1>7. InnermostRuns'
  <2> SUFFICES ASSUME NEW i \in Levels, LastNative(i)'
               PROVE  i = depth' /\ (native'[i].phase = "prepare" => prepared'.status = "ok")
    BY DEF InnermostRuns, Leaves
  <2>1. i <= depth' /\ native'[i] # Heap /\ (i < depth' => native'[i + 1] = Heap)
    BY DEF LastNative, OnHeap
  <2>2. ~OnHeap(i) /\ i # depth /\ i < depth
    BY <1>1, <1>2, <2>1, Facts DEF OnHeap
  <2>3. ~OnHeap(depth)
    BY <2>2 DEF Leaves
  <2>4. i = depth - 1
    <3>1. SUFFICES ASSUME i # depth - 1 PROVE FALSE
      OBVIOUS
    <3>2. i + 1 \in Levels /\ i < i + 1 /\ i + 1 < depth /\ i + 1 # depth
      BY <1>1, <2>2, <3>1, Facts
    <3>3. ~OnHeap(i + 1)
      BY <1>1, <2>2, <2>3, <3>2 DEF Consistent, Contiguous
    <3> QED
      BY <1>1, <1>2, <2>1, <3>2, <3>3 DEF OnHeap
  <2> QED
    BY <1>1, <1>2, <2>2, <2>4 DEF Leaves
<1>8. SuspendedStack' /\ Modes'
  BY DEF Leaves, SuspendedStack, Modes
<1> QED
  BY <1>3, <1>4, <1>5, <1>6, <1>7, <1>8 DEF Consistent, Leaves

LEMMA ReturnLeaves ==
    ASSUME Consistent, NEW v \in Values, Return(v) PROVE Leaves(v)
<1>1. /\ status = "ok" /\ mode = "running" /\ ~OnHeap(depth) /\ IsLua(depth)
  BY ExecutingIsNotSuspended DEF Return, AtEnd, Executing
<1>2. depth > 1 /\ depth - 1 \in Levels /\ depth - 1 < depth /\ (depth - 1) + 1 = depth
  BY Facts DEF Return, luau_poscall
<1>3. native[depth - 1].phase # "prepare"
  <2>1. CASE OnHeap(depth - 1)
    BY <2>1 DEF OnHeap
  <2>2. CASE ~OnHeap(depth - 1)
    <3>1. native[depth - 1].phase = "prepare" => ci[depth].fn \in CFunctions
      BY <1>1, <1>2, <2>2 DEF Consistent, Waits
    <3> QED
      BY <1>1, <3>1 DEF IsLua
  <2> QED
    BY <2>1, <2>2
<1> QED
  BY <1>1, <1>3, Facts DEF Return, Leaves, Consistent, TypeOK

LEMMA CFunctionReturnsLeaves ==
    ASSUME Consistent, NEW v \in Values, CFunctionReturns(v) PROVE Leaves(v)
<1>1. depth \in Levels /\ depth \in Nat /\ ~OnHeap(depth) /\ mode = "running"
  BY Facts DEF CFunctionReturns, OnHeap
<1>2. native[depth].phase = "callee"
  <2>1. NativeFrame(depth)
    BY <1>1 DEF Consistent, FrameOK
  <2> QED
    BY <2>1 DEF CFunctionReturns, NativeFrame, IsLua
<1>3. status = "ok"
  BY <1>1, <1>2 DEF Consistent, InnermostRuns, LastNative
<1>4. /\ prepared' \in [status : {"ok", "yielded", "prepared"}, entry : Protos \cup {"none"}]
      /\ native[depth - 1].phase = "prepare" => prepared'.status = "ok"
  BY DEF CFunctionReturns, Consistent, TypeOK
<1> QED
  BY <1>1, <1>3, <1>4, Facts DEF CFunctionReturns, Leaves

LEMMA ResumeLeaves ==
    ASSUME Consistent, NEW v \in Values, Resume(v) PROVE Leaves(v)
<1>1. depth > 1 /\ native[depth - 1] = Heap /\ native[depth - 1].phase # "prepare"
  BY LoopFacts, Facts DEF Resume, luau_poscall, OnHeap
<1> QED
  BY <1>1, LoopFacts, Facts DEF Resume, Leaves, Consistent, TypeOK

LEMMA RunContinuationLeaves ==
    ASSUME Consistent, NEW v \in Values, RunContinuation(v) PROVE Leaves(v)
<1>1. depth > 1 /\ native[depth - 1] = Heap /\ native[depth - 1].phase # "prepare"
  BY LoopFacts, Facts DEF RunContinuation, luau_poscall, OnHeap
<1>2. ci[depth].fn = "pcall"
  <2>1. ci[depth].fn \in CFunctions
    BY Facts DEF RunContinuation, IsLua, CallInfos
  <2> QED
    BY <2>1, LoopFacts DEF RunContinuation, HeapFrame
<1> QED
  BY <1>1, <1>2, LoopFacts, Facts DEF RunContinuation, Leaves, Checked, Consistent, TypeOK

(***************************************************************************)
(* A step that installs frames without entering them.                      *)
(***************************************************************************)
InstallsFrames(fns, phase) ==
    /\ status = "ok" /\ ~OnHeap(depth) /\ IsLua(depth) /\ NativeFrame(depth)
    /\ native[depth].phase = "published"
    /\ \/ phase = "prepare" /\ AtKinds(depth, {"call"})
       \/ phase = "callee" /\ AtKinds(depth, {"loop"})
    /\ Len(fns) \in 1..3
    /\ \A k \in 1..Len(fns) : fns[k] \in Protos \cup CFunctions
    /\ \A k \in 1..(Len(fns) - 1) : fns[k] = "pcall"
    /\ fns[Len(fns)] = "plain" => status' = "yield"
    /\ Installs(fns) /\ Push(fns) /\ PrecallFrames(fns)
    /\ native' = [native EXCEPT ![depth].phase = phase]

LEMMA InstallingKeeps ==
    ASSUME Consistent, NEW fns, NEW phase, InstallsFrames(fns, phase)
    PROVE  /\ ci' \in [Levels -> CallInfos] /\ native' \in [Levels -> NativeFunctions]
           /\ slot' \in [Levels -> Values \cup {"none", "pending"}]
           /\ depth' = depth + Len(fns) /\ depth' \in Levels
           /\ FrameOK' /\ Contiguous' /\ Waits'
           /\ \A i \in Levels : LastNative(i)' => i = depth
           /\ \A i \in Levels : i # depth => native'[i] = native[i]
           /\ \A i \in Levels : i <= depth => ci'[i] = ci[i]
           /\ \A k \in 1..Len(fns) : ci'[depth + k] = NewFrame(fns[k])
           /\ native'[depth].phase = phase /\ native'[depth].code = native[depth].code
           /\ native'[depth].at = native[depth].at
<1> DEFINE n == Len(fns)
<1>1. /\ depth' = depth + n /\ depth \in Levels /\ depth \in Nat /\ depth + n \in Levels
      /\ n \in 1..3 /\ n \in Nat
  BY Facts DEF InstallsFrames, Installs, Push
<1>2. \A i \in Levels :
        ci'[i] = IF i \in (depth + 1)..(depth + n) THEN NewFrame(fns[i - depth]) ELSE ci[i]
  BY DEF InstallsFrames, PrecallFrames, PrecallFrame, NewFrame
<1>3. \A k \in 1..n : fns[k] \in Protos \cup CFunctions /\ NewFrame(fns[k]) \in CallInfos
  BY DEF InstallsFrames, NewFrame, CallInfos
<1> HIDE DEF n
<1>4. \A k \in 1..n : ci'[depth + k] = NewFrame(fns[k])
  <2> SUFFICES ASSUME NEW k \in 1..n PROVE ci'[depth + k] = NewFrame(fns[k])
    OBVIOUS
  <2>1. depth + k \in Levels /\ depth + k \in (depth + 1)..(depth + n) /\ (depth + k) - depth = k
    BY <1>1
  <2> QED
    BY <1>2, <2>1
<1>5. \A i \in Levels : i <= depth \/ i > depth + n => ci'[i] = ci[i]
  BY <1>1, <1>2
<1>6. /\ phase \in {"prepare", "callee"}
      /\ native'[depth].phase = phase /\ native'[depth].code = native[depth].code
      /\ native'[depth].at = native[depth].at /\ native'[depth] \in NativeFunctions
      /\ native'[depth] # Heap
      /\ \A i \in Levels : i # depth => native'[i] = native[i]
  <2>1. phase \in {"prepare", "callee"} /\ native[depth] \in NativeFunctions
    BY Facts DEF InstallsFrames
  <2>2. native'[depth] = [native[depth] EXCEPT !.phase = phase]
    BY Facts DEF InstallsFrames
  <2>3. /\ native'[depth].phase = phase /\ native'[depth].code = native[depth].code
        /\ native'[depth].at = native[depth].at /\ native'[depth] \in NativeFunctions
    BY <2>1, <2>2 DEF NativeFunctions
  <2>4. \A i \in Levels : i # depth => native'[i] = native[i]
    BY Facts DEF InstallsFrames
  <2> QED
    BY <2>1, <2>3, <2>4
<1>7. \A i \in Levels : native'[i] = Heap <=> OnHeap(i)
  BY <1>6 DEF InstallsFrames, OnHeap
<1>8. ci' \in [Levels -> CallInfos]
  <2>1. ASSUME NEW i \in Levels PROVE ci'[i] \in CallInfos
    <3>1. CASE i \in (depth + 1)..(depth + n)
      <4>1. i - depth \in 1..n
        BY <1>1, <3>1
      <4> QED
        BY <1>2, <1>3, <3>1, <4>1
    <3>2. CASE i \notin (depth + 1)..(depth + n)
      BY <1>2, <3>2, Facts
    <3> QED
      BY <3>1, <3>2
  <2>2. ci' = [i \in Levels |-> ci'[i]]
    BY DEF InstallsFrames, PrecallFrames
  <2> QED
    BY <2>1, <2>2
<1>9. native' \in [Levels -> NativeFunctions]
  BY <1>6, Facts DEF InstallsFrames
<1>10. slot' \in [Levels -> Values \cup {"none", "pending"}]
  BY <1>1, Facts DEF InstallsFrames, Push
<1>11. FrameOK'
  <2> SUFFICES ASSUME NEW i \in Levels
               PROVE  /\ i > depth' => native'[i] = Heap
                      /\ i <= depth' /\ native'[i] = Heap => HeapFrame(i)'
                      /\ i <= depth' /\ native'[i] # Heap => NativeFrame(i)'
    BY DEF FrameOK, OnHeap
  <2>1. CASE i > depth + n
    <3>1. i > depth /\ ~(i <= depth')
      BY <1>1, <2>1
    <3>2. OnHeap(i)
      BY <3>1, Facts
    <3> QED
      BY <1>7, <3>1, <3>2
  <2>2. CASE depth < i /\ i <= depth + n
    <3> DEFINE k == i - depth
    <3>1. k \in 1..n /\ k \in Nat /\ i = depth + k /\ i # depth
      BY <1>1, <2>2
    <3>2. native'[i] = Heap
      BY <1>7, <2>2, Facts
    <3>3. ci'[i].fn = fns[k] /\ ci'[i].aotstate = 0 /\ ci'[i].opyield = FALSE
      <4>1. ci'[i] = NewFrame(fns[k])
        BY <1>4, <3>1
      <4> QED
        BY <4>1 DEF NewFrame
    <3>4. k < n => fns[k] = "pcall"
      BY <1>1, <3>1 DEF InstallsFrames, n
    <3>5. k = n => (fns[k] = "plain" => status' = "yield")
      BY DEF InstallsFrames, n
    <3>6. IsLua(i)' => k = n
      BY <1>1, <3>1, <3>3, <3>4 DEF IsLua
    <3>7. i <= depth' /\ ~(i > depth')
      BY <1>1, <2>2
    <3>8. HeapFrame(i)'
      <4>1. ci'[i].fn = "plain" => k = n /\ i = depth' /\ status' = "yield"
        BY <1>1, <3>1, <3>3, <3>4, <3>5
      <4>2. KnownContinuation(ci[i].fn, ci[i].aotstate)'
        BY <3>3 DEF KnownContinuation
      <4>3. IsLua(i)' => ~(i < depth')
        BY <1>1, <3>1, <3>6
      <4> QED
        BY <3>3, <4>1, <4>2, <4>3 DEF HeapFrame
    <3> QED
      BY <3>2, <3>7, <3>8
  <2>3. CASE i = depth
    <3>1. NativeFrame(i)'
      <4>1. ci'[i] = ci[i] /\ native'[i].code = native[i].code /\ native'[i].at = native[i].at
        BY <1>1, <1>5, <1>6, <2>3
      <4>2. /\ NativeFrame(i) /\ IsLua(i) /\ native[i].phase = "published"
            /\ native'[i].phase = "prepare" => AtKinds(i, {"call"})
            /\ native'[i].phase = "callee" => AtKinds(i, {"call", "loop"})
            /\ native'[i].phase \in {"prepare", "callee"}
        BY <1>6, <2>3 DEF InstallsFrames, AtKinds
      <4> QED
        BY <4>1, <4>2 DEF NativeFrame, IsLua, AtKinds
    <3> QED
      BY <1>1, <1>6, <2>3, <3>1
  <2>4. CASE i < depth
    <3>1. ci'[i] = ci[i] /\ native'[i] = native[i] /\ i < depth' /\ i <= depth /\ ~(i > depth')
      BY <1>1, <1>5, <1>6, <2>4
    <3>2. ASSUME OnHeap(i) PROVE HeapFrame(i)'
      <4>1. HeapFrame(i)
        BY <3>1, <3>2 DEF Consistent, FrameOK
      <4> QED
        BY <1>1, <2>4, <3>1, <4>1 DEF HeapFrame, IsLua, KnownContinuation
    <3>3. ASSUME ~OnHeap(i) PROVE NativeFrame(i)'
      <4>1. NativeFrame(i)
        BY <3>1, <3>3 DEF Consistent, FrameOK
      <4> QED
        BY <3>1, <4>1 DEF NativeFrame, IsLua, AtKinds
    <3> QED
      BY <1>7, <3>1, <3>2, <3>3
  <2> QED
    BY <1>1, <2>1, <2>2, <2>3, <2>4
<1>12. Contiguous'
  BY <1>7 DEF Consistent, Contiguous, OnHeap
<1>13. Waits'
  <2> SUFFICES ASSUME NEW i \in Levels, i < depth', native'[i] # Heap, native'[i + 1] # Heap
               PROVE  /\ native'[i].phase \in {"prepare", "callee"}
                      /\ native'[i].phase = "prepare" => ci'[i + 1].fn \in CFunctions
    BY DEF Waits, OnHeap
  <2>1. i + 1 \in Levels /\ i \in Nat
    BY <1>1
  <2>2. ~OnHeap(i) /\ ~OnHeap(i + 1)
    BY <1>7, <2>1
  <2>3. i + 1 <= depth
    <3>1. ~(i + 1 > depth)
      BY <2>1, <2>2, Facts
    <3> QED
      BY <1>1, <2>1, <3>1
  <2>4. i < depth /\ native'[i] = native[i] /\ ci'[i + 1] = ci[i + 1]
    BY <1>1, <1>5, <1>6, <2>1, <2>3
  <2> QED
    BY <2>2, <2>4 DEF Consistent, Waits
<1>14. ASSUME NEW i \in Levels, LastNative(i)' PROVE i = depth
  <2>1. i <= depth' /\ native'[i] # Heap /\ (i < depth' => native'[i + 1] = Heap)
    BY <1>14 DEF LastNative, OnHeap
  <2>2. ~OnHeap(i) /\ i \in Nat
    BY <1>7, <2>1
  <2>3. ~(i > depth)
    BY <2>2, Facts
  <2>4. ASSUME i < depth PROVE FALSE
    <3>1. i + 1 \in Levels /\ i < i + 1 /\ (i + 1 < depth \/ i + 1 = depth) /\ i < depth'
      BY <1>1, <2>2, <2>4
    <3>2. ~OnHeap(depth)
      BY DEF InstallsFrames
    <3>3. ~OnHeap(i + 1)
      BY <1>1, <2>2, <3>1, <3>2 DEF Consistent, Contiguous
    <3> QED
      BY <1>7, <2>1, <3>1, <3>3
  <2> QED
    BY <1>1, <2>2, <2>3, <2>4
<1> QED
  BY <1>1, <1>4, <1>5, <1>6, <1>8, <1>9, <1>10, <1>11, <1>12, <1>13, <1>14 DEF n

LEMMA PrepareCompiledCallInstalls ==
    ASSUME Consistent, NEW p \in Protos, PrepareCompiledCall(p)
    PROVE  InstallsFrames(<<p>>, "prepare") /\ mode = "running"
<1>1. /\ status = "ok" /\ mode = "running" /\ ~OnHeap(depth) /\ NativeFrame(depth)
      /\ IsLua(depth) /\ native[depth].phase = "published" /\ AtKinds(depth, {"call"})
  BY ExecutingIsNotSuspended DEF PrepareCompiledCall, Executing
<1> DEFINE fns == <<p>>
<1>2. Len(fns) = 1 /\ fns[1] = p /\ p \notin CFunctions
  OBVIOUS
<1> QED
  BY <1>1, <1>2 DEF PrepareCompiledCall, InstallsFrames

LEMMA PrepareCompiledCallKeeps ==
    ASSUME Consistent, NEW p \in Protos, PrepareCompiledCall(p) PROVE Consistent'
<1> DEFINE fns == <<p>>
<1>1. status = "ok" /\ mode = "running"
  BY PrepareCompiledCallInstalls DEF InstallsFrames
<1>2. Len(fns) = 1 /\ fns[1] = p /\ p \notin CFunctions
  OBVIOUS
<1>3. InstallsFrames(fns, "prepare")
  BY PrepareCompiledCallInstalls
<1>4. /\ status' = "ok" /\ mode' = "running" /\ fault' = FALSE
      /\ prepared' = [status |-> "prepared", entry |-> p]
  BY <1>1, Facts DEF PrepareCompiledCall
<1>5. TypeOK'
  BY <1>3, <1>4, InstallingKeeps DEF TypeOK, CallInfos, NativeFunctions
<1>6. InnermostRuns'
  <2> SUFFICES ASSUME NEW i \in Levels, LastNative(i)'
               PROVE  /\ i = depth' - 1
                      /\ native'[i].phase = "prepare"
                      /\ prepared' = [status |-> "prepared", entry |-> ci'[depth'].fn]
                      /\ IsLua(depth)'
                      /\ ci'[depth'].aotstate = 0 /\ ~ci'[depth'].opyield
    BY <1>4 DEF InnermostRuns
  <2>1. i = depth /\ native'[i].phase = "prepare" /\ depth' = depth + 1
    BY <1>2, <1>3, InstallingKeeps
  <2>2. ci'[depth'] = NewFrame(p)
    <3>1. \A k \in 1..Len(fns) : ci'[depth + k] = NewFrame(fns[k])
      BY <1>3, InstallingKeeps
    <3>2. 1 \in 1..Len(fns)
      BY <1>2
    <3>3. ci'[depth + 1] = NewFrame(fns[1])
      BY <3>1, <3>2
    <3> QED
      BY <1>2, <2>1, <3>3
  <2> QED
    BY <1>4, <2>1, <2>2, Facts DEF IsLua, NewFrame
<1>7. SuspendedStack' /\ Modes'
  BY <1>4 DEF SuspendedStack, Modes
<1> QED
  BY <1>3, <1>4, <1>5, <1>6, <1>7, InstallingKeeps DEF Consistent

LEMMA SuspensionsAre ==
    ASSUME NEW s \in {"yield", "scheduled"}, NEW fns \in Suspensions(s)
    PROVE  /\ Len(fns) \in 1..3
           /\ \A k \in 1..(Len(fns) - 1) : fns[k] = "pcall"
           /\ s = "yield" => fns[Len(fns)] = "plain"
           /\ s = "scheduled" => fns[Len(fns)] \in Protos /\ Len(fns) > 1
<1>1. CASE s = "yield"
  <2>1. fns \in {<<"plain">>, <<"pcall", "plain">>}
    BY <1>1 DEF Suspensions
  <2>2. CASE fns = <<"plain">>
    BY <1>1, <2>2
  <2>3. CASE fns = <<"pcall", "plain">>
    BY <1>1, <2>3
  <2> QED
    BY <2>1, <2>2, <2>3
<1>2. CASE s = "scheduled"
  <2>1. PICK p \in Protos : fns \in {<<"pcall", p>>, <<"pcall", "pcall", p>>}
    BY <1>2 DEF Suspensions
  <2>2. CASE fns = <<"pcall", p>>
    BY <1>2, <2>2
  <2>3. CASE fns = <<"pcall", "pcall", p>>
    BY <1>2, <2>3
  <2> QED
    BY <2>1, <2>2, <2>3
<1> QED
  BY <1>1, <1>2

(* A C function that yields, or leaves its function to the loop, can be    *)
(* resumed.                                                                *)
LEMMA SuspensionIsValid ==
    ASSUME Consistent, NEW s \in {"yield", "scheduled"}, NEW fns \in Suspensions(s),
           NEW phase, InstallsFrames(fns, phase), status' = s
    PROVE  (validCallSuspension \/ validScheduledReentrySuspension)'
<1> DEFINE n == Len(fns)
<1>1. /\ depth' = depth + n /\ depth \in Levels /\ depth \in Nat /\ n \in 1..3
      /\ \A k \in 1..n : ci'[depth + k] = NewFrame(fns[k])
      /\ \A k \in 1..(n - 1) : fns[k] = "pcall"
      /\ ci'[depth] = ci[depth]
  BY InstallingKeeps, SuspensionsAre, Facts
<1> HIDE DEF n
<1>2. validNativeSuspensionFrame(depth) /\ ci'[depth].fn \in Protos /\ ci'[depth].aotstate # 0
  BY <1>1, Facts DEF InstallsFrames, NativeFrame, validNativeSuspensionFrame, IsLua, AtKinds
<1>3. CASE s = "yield"
  <2>1. ci'[depth'].fn = "plain" /\ \A m \in (depth + 1)..(depth' - 1) : ci'[m].fn = "pcall"
    <3>1. ci'[depth + n] = NewFrame("plain")
      <4>1. n \in 1..n
        BY <1>1
      <4>2. fns[n] = "plain"
        BY <1>3, SuspensionsAre DEF n
      <4> QED
        BY <1>1, <4>1, <4>2
    <3>2. ASSUME NEW m \in (depth + 1)..(depth' - 1) PROVE ci'[m].fn = "pcall"
      <4>1. m - depth \in 1..(n - 1) /\ m = depth + (m - depth) /\ m - depth \in 1..n
        BY <1>1
      <4>2. ci'[m] = NewFrame("pcall")
        BY <1>1, <4>1
      <4> QED
        BY <4>2 DEF NewFrame
    <3> QED
      BY <1>1, <3>1, <3>2 DEF NewFrame
  <2>2. depth \in 1..(depth' - 1)
    BY <1>1
  <2>3. NearestLuaPublished(depth, CFunctions)'
    BY <1>2, <2>1, <2>2 DEF NearestLuaPublished, validNativeSuspensionFrame, IsLua
  <2> QED
    BY <1>3, <2>1, <2>3 DEF validCallSuspension, IsLua
<1>4. CASE s = "scheduled"
  <2>1. n > 1 /\ n \in Nat /\ fns[n] \in Protos
    BY <1>1, <1>4, SuspensionsAre DEF n
  <2>2. ci'[depth'] = NewFrame(fns[n])
    BY <1>1
  <2>3. ASSUME NEW m \in (depth + 1)..(depth' - 1) PROVE ci'[m].fn = "pcall"
    <3>1. m - depth \in 1..(n - 1) /\ m = depth + (m - depth) /\ m - depth \in 1..n
      BY <1>1
    <3>2. ci'[m] = NewFrame("pcall")
      BY <1>1, <3>1
    <3> QED
      BY <3>2 DEF NewFrame
  <2>4. ci'[depth' - 1].fn = "pcall" /\ depth' > 1
    BY <1>1, <2>1, <2>3
  <2>5. NearestLuaPublished(depth - 1, {"pcall"})'
    <3>1. depth \in 1..((depth' - 1) - 1)
      BY <1>1, <2>1
    <3>2. \A m \in (depth + 1)..((depth' - 1) - 1) : ci'[m].fn = "pcall"
      BY <1>1, <2>3
    <3> QED
      BY <1>2, <3>1, <3>2 DEF NearestLuaPublished, validNativeSuspensionFrame, IsLua
  <2> QED
    BY <1>4, <2>1, <2>2, <2>4, <2>5 DEF validScheduledReentrySuspension, IsLua, NewFrame
<1> QED
  BY <1>3, <1>4

LEMMA CSuspendsInstalls ==
    ASSUME Consistent, NEW s \in {"yield", "scheduled"}, NEW fns \in Suspensions(s),
           CSuspends(fns, s)
    PROVE  InstallsFrames(fns, Calling) /\ mode = "running"
<1>1. /\ status = "ok" /\ mode = "running" /\ ~OnHeap(depth) /\ NativeFrame(depth)
      /\ IsLua(depth) /\ native[depth].phase = "published" /\ AtKinds(depth, {"call", "loop"})
  BY ExecutingIsNotSuspended DEF CSuspends, AtCall, Executing
<1>2. /\ Calling = "prepare" <=> AtKinds(depth, {"call"})
      /\ Calling = "callee" <=> ~AtKinds(depth, {"call"})
      /\ ~AtKinds(depth, {"call"}) => AtKinds(depth, {"loop"})
  BY <1>1 DEF Calling, AtKinds
<1>3. \A k \in 1..Len(fns) : fns[k] \in Protos \cup CFunctions
  <2> SUFFICES ASSUME NEW k \in 1..Len(fns) PROVE fns[k] \in Protos \cup CFunctions
    OBVIOUS
  <2>1. Len(fns) \in 1..3
    BY SuspensionsAre
  <2>2. k \in 1..(Len(fns) - 1) \/ k = Len(fns)
    BY <2>1
  <2> QED
    BY <2>2, SuspensionsAre
<1>4. InstallsFrames(fns, Calling)
  <2>1. status' = s /\ Installs(fns) /\ Push(fns) /\ PrecallFrames(fns)
        /\ native' = [native EXCEPT ![depth].phase = Calling]
    BY DEF CSuspends
  <2>2. fns[Len(fns)] = "plain" => status' = "yield"
    BY <2>1, SuspensionsAre
  <2> QED
    BY <1>1, <1>2, <1>3, <2>1, <2>2, SuspensionsAre DEF InstallsFrames
<1> QED
  BY <1>1, <1>4

LEMMA CSuspendsKeeps ==
    ASSUME Consistent, NEW s \in {"yield", "scheduled"}, NEW fns \in Suspensions(s),
           CSuspends(fns, s)
    PROVE  Consistent'
<1>1. /\ status = "ok" /\ mode = "running" /\ ~OnHeap(depth) /\ NativeFrame(depth)
      /\ IsLua(depth) /\ native[depth].phase = "published" /\ AtKinds(depth, {"call", "loop"})
  BY ExecutingIsNotSuspended DEF CSuspends, AtCall, Executing
<1>2. /\ Calling = "prepare" <=> AtKinds(depth, {"call"})
      /\ Calling = "callee" <=> ~AtKinds(depth, {"call"})
      /\ ~AtKinds(depth, {"call"}) => AtKinds(depth, {"loop"})
  BY <1>1 DEF Calling, AtKinds
<1>4. InstallsFrames(fns, Calling)
  BY CSuspendsInstalls
<1>5. (validCallSuspension \/ validScheduledReentrySuspension)' /\ status' = s /\ s # "ok"
  BY <1>4, SuspensionIsValid DEF CSuspends
<1>6. /\ fault' = FALSE
      /\ mode' \in {"running", "returning"}
      /\ mode' = "running" => /\ Calling = "prepare"
                              /\ prepared'.status = "yielded"
      /\ prepared' \in [status : {"ok", "yielded", "prepared"}, entry : Protos \cup {"none"}]
  <2>1. prepared' \in [status : {"ok", "yielded", "prepared"}, entry : Protos \cup {"none"}]
    BY DEF CSuspends, PreparedStatus, Consistent, TypeOK
  <2>2. CASE AtKinds(depth, {"call"})
    BY <1>1, <1>2, <1>5, <2>1, <2>2, Facts DEF CSuspends, PreparedStatus, Checked
  <2>3. CASE ~AtKinds(depth, {"call"})
    BY <2>1, <2>3, Facts DEF CSuspends
  <2> QED
    BY <2>2, <2>3
<1>7. TypeOK'
  BY <1>4, <1>5, <1>6, InstallingKeeps DEF TypeOK, CallInfos, NativeFunctions
<1>8. SuspendedStack'
  <2> SUFFICES ASSUME NEW i \in Levels, native'[i] # Heap
               PROVE  /\ IsLua(i)' /\ ~AtKinds(i, {"meta"})'
                      /\ native'[i].phase \in {"prepare", "callee"}
    BY <1>5 DEF SuspendedStack, validAotSuspension, OnHeap
  <2>1. ~OnHeap(i) /\ i <= depth /\ i \in Nat
    <3>1. ~OnHeap(i)
      BY <1>1, <1>4, InstallingKeeps DEF OnHeap
    <3> QED
      BY <3>1, Facts
  <2>2. native[i].code \in Protos /\ ~AtKinds(i, {"meta"}) /\ native[i].code = ci[i].fn
    <3>1. i \in 1..depth
      BY <2>1, Facts
    <3>2. NativeFrame(i)
      BY <2>1 DEF Consistent, FrameOK
    <3> QED
      BY <2>1, <3>1, <3>2 DEF CSuspends, Yieldable, NativeFrame
  <2>3. ci'[i] = ci[i] /\ native'[i].code = native[i].code /\ native'[i].at = native[i].at
    BY <1>4, <2>1, InstallingKeeps
  <2>4. native'[i].phase \in {"prepare", "callee"}
    <3>1. CASE i = depth
      BY <1>2, <1>4, <3>1, InstallingKeeps DEF Calling
    <3>2. CASE i # depth
      <4>1. i < depth /\ i + 1 \in Levels /\ (i + 1 = depth \/ (i < i + 1 /\ i + 1 < depth))
        BY <2>1, <3>2, Facts
      <4>2. ~OnHeap(i + 1)
        BY <1>1, <2>1, <4>1, Facts DEF Consistent, Contiguous
      <4>3. native[i].phase \in {"prepare", "callee"}
        BY <2>1, <4>1, <4>2 DEF Consistent, Waits
      <4>4. native'[i] = native[i]
        BY <1>4, <3>2, InstallingKeeps
      <4> QED
        BY <4>3, <4>4
    <3> QED
      BY <3>1, <3>2
  <2> QED
    BY <2>2, <2>3, <2>4 DEF IsLua, AtKinds
<1>9. InnermostRuns'
  <2> SUFFICES ASSUME NEW i \in Levels, LastNative(i)', mode' = "running"
               PROVE  native'[i].phase = "prepare" /\ prepared'.status = "yielded"
    BY <1>5 DEF InnermostRuns
  <2> QED
    BY <1>4, <1>6, InstallingKeeps
<1>10. Modes'
  BY <1>5, <1>6 DEF Modes
<1> QED
  BY <1>4, <1>6, <1>7, <1>8, <1>9, <1>10, InstallingKeeps DEF Consistent

(***************************************************************************)
(* A step that changes no frame.                                           *)
(***************************************************************************)
SameFrames ==
    /\ UNCHANGED <<ci, depth, slot, native, prepared, fault>>
    /\ status' \in {"ok", "yield", "scheduled"}
    /\ mode' \in {"running", "returning", "raising", "dead"}
    /\ status' = status \/ ~(OnHeap(depth) /\ ci[depth].fn = "plain")

LEMMA SameFramesKeep ==
    ASSUME Consistent, SameFrames
    PROVE  TypeOK' /\ ~fault' /\ FrameOK' /\ Contiguous' /\ Waits'
<1>1. TypeOK' /\ ~fault'
  BY DEF SameFrames, Consistent, TypeOK
<1>2. FrameOK'
  <2> SUFFICES ASSUME NEW i \in Levels
               PROVE  /\ i > depth => OnHeap(i)
                      /\ i <= depth /\ OnHeap(i) => HeapFrame(i)'
                      /\ i <= depth /\ ~OnHeap(i) => NativeFrame(i)'
    BY DEF FrameOK, OnHeap, SameFrames
  <2>1. i > depth => OnHeap(i)
    BY Facts
  <2>2. ASSUME i <= depth, OnHeap(i) PROVE HeapFrame(i)'
    <3>1. HeapFrame(i)
      BY <2>2 DEF Consistent, FrameOK
    <3> QED
      BY <2>2, <3>1 DEF SameFrames, HeapFrame, IsLua, KnownContinuation
  <2>3. ASSUME i <= depth, ~OnHeap(i) PROVE NativeFrame(i)'
    <3>1. NativeFrame(i)
      BY <2>3 DEF Consistent, FrameOK
    <3> QED
      BY <3>1 DEF SameFrames, NativeFrame, IsLua, AtKinds
  <2> QED
    BY <2>1, <2>2, <2>3
<1>3. Contiguous' /\ Waits'
  BY DEF SameFrames, Consistent, Contiguous, Waits, OnHeap
<1> QED
  BY <1>1, <1>2, <1>3

LEMMA PreparedYieldedKeeps ==
    ASSUME Consistent, PreparedYielded PROVE Consistent'
<1>1. PICK i \in Levels : Executing(i, "prepare") /\ prepared.status = "yielded"
  BY DEF PreparedYielded
<1>2. /\ UNCHANGED <<ci, depth, slot, native, status, prepared, fault>>
      /\ mode = "running" /\ mode' = "returning"
  BY <1>1 DEF PreparedYielded, Executing
<1>3. status # "ok"
  <2>1. LastNative(i) /\ native[i].phase = "prepare"
    BY <1>1, Facts DEF Executing, Innermost, LastNative
  <2> QED
    BY <1>1, <1>2, <2>1 DEF Consistent, InnermostRuns
<1>4. SameFrames
  BY <1>2 DEF SameFrames, Consistent, TypeOK
<1>5. SuspendedStack'
  BY <1>2, <1>3 DEF Consistent, SuspendedStack, validAotSuspension, validNativeSuspensionFrame,
       validCallSuspension, validScheduledReentrySuspension, NearestLuaPublished, IsLua, OnHeap, AtKinds
<1>6. InnermostRuns' /\ Modes'
  BY <1>2, <1>3 DEF InnermostRuns, Modes
<1> QED
  BY <1>4, <1>5, <1>6, SameFramesKeep DEF Consistent

LEMMA RaisesKeeps ==
    ASSUME Consistent, Raises PROVE Consistent'
<1>1. status = "ok" /\ ~OnHeap(depth)
  BY ExecutingIsNotSuspended DEF Raises
<1>2. SameFrames
  BY DEF Raises, SameFrames, Consistent, TypeOK
<1>3. SuspendedStack' /\ InnermostRuns' /\ Modes'
  BY <1>1 DEF Raises, SuspendedStack, InnermostRuns, Modes, OnHeap
<1> QED
  BY <1>2, <1>3, SameFramesKeep DEF Consistent

LEMMA ReturnToHostKeeps ==
    ASSUME Consistent, ReturnToHost PROVE Consistent'
<1>1. status = "ok"
  BY ExecutingIsNotSuspended DEF ReturnToHost, AtEnd
<1>2. SameFrames
  BY DEF ReturnToHost, SameFrames, Consistent, TypeOK
<1>3. SuspendedStack' /\ InnermostRuns' /\ Modes'
  BY <1>1 DEF ReturnToHost, SuspendedStack, InnermostRuns, Modes
<1> QED
  BY <1>2, <1>3, SameFramesKeep DEF Consistent

LEMMA UncaughtKeeps ==
    ASSUME Consistent, Uncaught PROVE Consistent'
<1>1. status = "ok"
  BY DEF Uncaught, Consistent, Modes
<1>2. SameFrames
  BY DEF Uncaught, SameFrames, Consistent, TypeOK
<1>3. SuspendedStack' /\ InnermostRuns' /\ Modes'
  BY <1>1 DEF Uncaught, SuspendedStack, InnermostRuns, Modes
<1> QED
  BY <1>2, <1>3, SameFramesKeep DEF Consistent

LEMMA InterruptYieldsKeeps ==
    ASSUME Consistent, InterruptYields PROVE Consistent'
<1>1. /\ status = "ok" /\ mode = "running" /\ ~OnHeap(depth) /\ NativeFrame(depth)
      /\ IsLua(depth) /\ native[depth].phase = "published" /\ AtKinds(depth, {"interrupt"})
  BY ExecutingIsNotSuspended DEF InterruptYields, Executing
<1>2. /\ UNCHANGED <<ci, depth, slot, native, prepared, fault>>
      /\ status' = "yield" /\ mode' = "returning" /\ Yieldable
  BY DEF InterruptYields
<1>3. SameFrames
  BY <1>1, <1>2 DEF SameFrames
<1>4. validAotSuspension'
  <2>1. ci[depth].aotstate # 0
    BY <1>1 DEF NativeFrame, AtKinds
  <2> QED
    BY <1>1, <1>2, <2>1 DEF validAotSuspension, validNativeSuspensionFrame, IsLua
<1>5. SuspendedStack'
  <2> SUFFICES ASSUME NEW i \in Levels, ~OnHeap(i)
               PROVE  /\ IsLua(i) /\ ~AtKinds(i, {"meta"})
                      /\ \/ native[i].phase \in {"prepare", "callee"}
                         \/ i = depth /\ AtKinds(i, {"interrupt"})
    BY <1>2, <1>4 DEF SuspendedStack, IsLua, OnHeap, AtKinds
  <2>1. i <= depth /\ i \in Nat /\ i \in 1..depth
    BY Facts
  <2>2. IsLua(i) /\ ~AtKinds(i, {"meta"})
    <3>1. NativeFrame(i)
      BY <2>1 DEF Consistent, FrameOK
    <3> QED
      BY <1>2, <2>1, <3>1 DEF Yieldable, NativeFrame, IsLua
  <2>3. CASE i = depth
    BY <1>1, <2>2, <2>3
  <2>4. CASE i # depth
    <3>1. i < depth /\ i + 1 \in Levels /\ (i + 1 = depth \/ (i < i + 1 /\ i + 1 < depth))
      BY <2>1, <2>4, Facts
    <3>2. ~OnHeap(i + 1)
      BY <1>1, <3>1, Facts DEF Consistent, Contiguous
    <3> QED
      BY <2>2, <3>1, <3>2 DEF Consistent, Waits
  <2> QED
    BY <2>3, <2>4
<1>6. InnermostRuns' /\ Modes'
  BY <1>2 DEF InnermostRuns, Modes
<1> QED
  BY <1>3, <1>5, <1>6, SameFramesKeep DEF Consistent

LEMMA LoopGoesOnKeeps ==
    ASSUME Consistent, ResumeInterrupt \/ RunScheduled PROVE Consistent'
<1>1. /\ mode = "running" /\ (\A i \in Levels : OnHeap(i)) /\ HeapFrame(depth)
      /\ UNCHANGED <<ci, depth, slot, native, prepared, mode, fault>> /\ status' = "ok"
  BY LoopFacts DEF ResumeInterrupt, RunScheduled
<1>2. ci[depth].fn # "plain"
  BY <1>1 DEF ResumeInterrupt, RunScheduled, HeapFrame, IsLua
<1>3. SameFrames
  BY <1>1, <1>2 DEF SameFrames
<1>4. SuspendedStack' /\ InnermostRuns' /\ Modes'
  BY <1>1 DEF SuspendedStack, InnermostRuns, LastNative, Modes, OnHeap
<1> QED
  BY <1>3, <1>4, SameFramesKeep DEF Consistent

(***************************************************************************)
(* YIELDED returns.                                                        *)
(***************************************************************************)
LEMMA ReturnYieldedKeeps ==
    ASSUME Consistent, ReturnYielded PROVE Consistent'
<1> DEFINE Last(i) == \A j \in 1..(i - 1) : OnHeap(j)
<1>1. PICK i \in Levels :
        /\ mode = "returning" /\ Innermost(i)
        /\ native' = [native EXCEPT ![i] = Heap]
        /\ ci' = [ci EXCEPT ![i].opyield = @ \/ InIterator(i)]
        /\ Checked(/\ Last(i) => validAotSuspension
                   /\ InIterator(i) => validNativeSuspensionFrame(i) /\ validAotSuspension,
                   IF Last(i) THEN "running" ELSE "returning")
        /\ UNCHANGED <<depth, slot, status, prepared>>
  BY DEF ReturnYielded
<1> HIDE DEF Last
<1>2. /\ i \in Nat /\ i > 0 /\ i <= depth /\ depth \in Levels /\ depth \in Nat
      /\ ~OnHeap(i) /\ (\A j \in Levels : j > i => OnHeap(j))
      /\ status # "ok" /\ validAotSuspension
  <2>1. i \in Nat /\ i > 0 /\ i <= depth /\ depth \in Levels /\ depth \in Nat /\ ~OnHeap(i)
    BY <1>1, Facts DEF Innermost
  <2>2. ASSUME NEW j \in Levels, j > i PROVE OnHeap(j)
    <3>1. CASE j > depth
      BY <3>1, Facts
    <3>2. CASE ~(j > depth)
      <4>1. j \in (i + 1)..depth
        BY <2>1, <2>2, <3>2, Facts
      <4> QED
        BY <1>1, <4>1 DEF Innermost
    <3> QED
      BY <3>1, <3>2
  <2>3. status # "ok"
    BY <1>1 DEF Consistent, Modes
  <2> QED
    BY <2>1, <2>2, <2>3 DEF Consistent, SuspendedStack
<1>3. /\ NativeFrame(i) /\ IsLua(i) /\ ~AtKinds(i, {"meta"})
      /\ \/ native[i].phase \in {"prepare", "callee"}
         \/ i = depth /\ AtKinds(i, {"interrupt"})
  BY <1>2 DEF Consistent, FrameOK, SuspendedStack
<1>4. InIterator(i) => validNativeSuspensionFrame(i)
  BY <1>3 DEF InIterator, NativeFrame, AtKinds, validNativeSuspensionFrame
<1>5. /\ fault' = FALSE /\ mode' = IF Last(i) THEN "running" ELSE "returning"
  BY <1>1, <1>2, <1>4, Facts DEF Checked
<1>6. /\ ci'[i].fn = ci[i].fn /\ ci'[i].aotstate = ci[i].aotstate
      /\ ci'[i].opyield <=> InIterator(i)
      /\ ci'[i] \in CallInfos
      /\ \A j \in Levels : j # i => ci'[j] = ci[j]
      /\ native'[i] = Heap /\ \A j \in Levels : j # i => native'[j] = native[j]
  <2>1. ci[i] \in CallInfos /\ (InIterator(i) \in BOOLEAN) /\ ci[i].opyield \in BOOLEAN
    BY Facts DEF CallInfos, InIterator, AtKinds
  <2>2. ci[i].opyield = FALSE
    BY <1>3, <2>1 DEF NativeFrame
  <2>3. ci'[i] = [ci[i] EXCEPT !.opyield = ci[i].opyield \/ InIterator(i)]
    BY <1>1, Facts
  <2>4. \A g \in CallInfos, b \in BOOLEAN :
          LET h == [g EXCEPT !.opyield = b]
          IN  h \in CallInfos /\ h.fn = g.fn /\ h.aotstate = g.aotstate /\ h.opyield = b
    BY DEF CallInfos
  <2>5. (ci[i].opyield \/ InIterator(i)) \in BOOLEAN
    OBVIOUS
  <2>6. /\ ci'[i] \in CallInfos /\ ci'[i].fn = ci[i].fn /\ ci'[i].aotstate = ci[i].aotstate
        /\ ci'[i].opyield = (ci[i].opyield \/ InIterator(i))
    BY <2>1, <2>3, <2>4, <2>5
  <2>7. /\ \A j \in Levels : j # i => ci'[j] = ci[j]
        /\ native'[i] = Heap /\ \A j \in Levels : j # i => native'[j] = native[j]
    BY <1>1, Facts
  <2> QED
    BY <2>2, <2>6, <2>7
<1>7. TypeOK'
  <2>1. ci' \in [Levels -> CallInfos]
    BY <1>1, <1>6, Facts
  <2>2. native' \in [Levels -> NativeFunctions]
    BY <1>1, Facts DEF NativeFunctions
  <2> QED
    BY <1>1, <1>5, <2>1, <2>2 DEF Consistent, TypeOK, CallInfos, NativeFunctions
<1>8. \A j \in Levels : ci'[j].fn = ci[j].fn /\ ci'[j].aotstate = ci[j].aotstate
  BY <1>6
<1>9. FrameOK'
  <2> SUFFICES ASSUME NEW j \in Levels
               PROVE  /\ j > depth => native'[j] = Heap
                      /\ j <= depth /\ native'[j] = Heap => HeapFrame(j)'
                      /\ j <= depth /\ native'[j] # Heap => NativeFrame(j)'
    BY <1>1 DEF FrameOK, OnHeap
  <2>1. CASE j = i
    <3> DEFINE code == Code[ci[i].fn]
               id == ci[i].aotstate
    <3>0. \/ id = 0 /\ native[i].phase \notin {"prepare", "callee"}
          \/ /\ id = native[i].at /\ id \in 1..Len(code) /\ id # 0
             /\ code[id] \in {"call", "loop", "interrupt"}
             /\ code[id] = "loop" => native[i].phase = "callee"
      <4>1. CASE native[i].phase = "prepare"
        BY <1>3, <4>1 DEF NativeFrame, AtKinds
      <4>2. CASE native[i].phase = "callee"
        BY <1>3, <4>2 DEF NativeFrame, AtKinds
      <4>3. CASE native[i].phase \notin {"prepare", "callee"}
        <5>1. native[i].phase \in {"runs", "published"}
          BY <1>3, <4>3, Facts DEF NativeFrame, NativeFunctions
        <5>2. AtKinds(i, {"interrupt"})
          BY <1>3, <4>3
        <5> QED
          BY <1>3, <4>3, <5>1, <5>2 DEF NativeFrame, AtKinds
      <4> QED
        BY <4>1, <4>2, <4>3
    <3>1. KnownContinuation(ci[i].fn, ci[i].aotstate)
      BY <3>0 DEF KnownContinuation
    <3>2. i < depth => ci[i].aotstate # 0 /\ Code[ci[i].fn][ci[i].aotstate] \in {"call", "loop"}
      BY <1>2, <1>3 DEF NativeFrame, IsLua, AtKinds
    <3>3. InIterator(i) <=> ci[i].aotstate # 0 /\ Code[ci[i].fn][ci[i].aotstate] = "loop"
      <4>1. native[i].code = ci[i].fn /\ ci[i].fn \in Protos
        BY <1>3 DEF NativeFrame, IsLua
      <4>2. InIterator(i) => id # 0 /\ code[id] = "loop"
        BY <1>3, <4>1 DEF InIterator, NativeFrame, AtKinds
      <4>3. id # 0 /\ code[id] = "loop" => InIterator(i)
        BY <3>0, <4>1 DEF InIterator, AtKinds
      <4> QED
        BY <4>2, <4>3
    <3>4. HeapFrame(i)'
      BY <1>1, <1>3, <1>6, <3>1, <3>2, <3>3 DEF HeapFrame, IsLua, KnownContinuation
    <3> QED
      BY <1>2, <1>6, <2>1, <3>4
  <2>2. CASE j # i
    <3>1. ci'[j] = ci[j] /\ native'[j] = native[j]
      BY <1>6, <2>2
    <3>2. ASSUME j <= depth, OnHeap(j) PROVE HeapFrame(j)'
      <4>1. HeapFrame(j)
        BY <3>2 DEF Consistent, FrameOK
      <4> QED
        BY <1>1, <3>1, <4>1 DEF HeapFrame, IsLua, KnownContinuation
    <3>3. ASSUME j <= depth, ~OnHeap(j) PROVE NativeFrame(j)'
      <4>1. NativeFrame(j)
        BY <3>3 DEF Consistent, FrameOK
      <4> QED
        BY <3>1, <4>1 DEF NativeFrame, IsLua, AtKinds
    <3> QED
      BY <3>1, <3>2, <3>3, Facts DEF OnHeap
  <2> QED
    BY <2>1, <2>2
<1>10. \A j \in Levels : native'[j] # Heap => j < i /\ j # i /\ ~OnHeap(j) /\ native'[j] = native[j]
  BY <1>2, <1>6, Facts DEF OnHeap
<1>11. Contiguous'
  <2> SUFFICES ASSUME NEW l \in Levels, NEW k \in Levels, NEW j \in Levels,
                      native'[l] # Heap, native'[k] # Heap, l < j, j < k
               PROVE  native'[j] # Heap
    BY DEF Contiguous, OnHeap
  <2>1. ~OnHeap(l) /\ ~OnHeap(k) /\ k < i
    BY <1>10
  <2>2. ~OnHeap(j) /\ j # i
    BY <1>2, <2>1, Facts DEF Consistent, Contiguous
  <2> QED
    BY <1>6, <2>2 DEF OnHeap
<1>12. Waits'
  <2> SUFFICES ASSUME NEW j \in Levels, j < depth, native'[j] # Heap, native'[j + 1] # Heap
               PROVE  /\ native'[j].phase \in {"prepare", "callee"}
                      /\ native'[j].phase = "prepare" => ci'[j + 1].fn \in CFunctions
    BY <1>1 DEF Waits, OnHeap
  <2>1. j + 1 \in Levels
    BY <1>2, Facts
  <2>2. ~OnHeap(j) /\ ~OnHeap(j + 1) /\ native'[j] = native[j] /\ ci'[j + 1].fn = ci[j + 1].fn
    BY <1>8, <1>10, <2>1
  <2> QED
    BY <2>2 DEF Consistent, Waits
<1>13. validAotSuspension'
  <2>3. validNativeSuspensionFrame(depth) => validNativeSuspensionFrame(depth)'
    BY <1>1, <1>2, <1>8 DEF validNativeSuspensionFrame, IsLua
  <2>4. validCallSuspension => validCallSuspension'
    <3>1. NearestLuaPublished(depth, CFunctions) => NearestLuaPublished(depth, CFunctions)'
      <4>1. ASSUME NEW j \in 1..(depth - 1), validNativeSuspensionFrame(j),
                   \A m \in (j + 1)..(depth - 1) : ci[m].fn \in CFunctions
            PROVE  NearestLuaPublished(depth, CFunctions)'
        <5>1. j \in Levels /\ \A m \in (j + 1)..(depth - 1) : m \in Levels
          BY <1>2
        <5>2. j \in 1..(depth' - 1) /\ validNativeSuspensionFrame(j)'
          BY <1>1, <1>8, <4>1, <5>1 DEF validNativeSuspensionFrame, IsLua
        <5>3. \A m \in (j + 1)..(depth' - 1) : ci'[m].fn \in CFunctions
          BY <1>1, <1>8, <4>1, <5>1
        <5> QED
          BY <5>2, <5>3 DEF NearestLuaPublished, validNativeSuspensionFrame, IsLua
      <4> QED
        BY <4>1 DEF NearestLuaPublished
    <3> QED
      BY <1>1, <1>2, <1>8, <3>1 DEF validCallSuspension, IsLua
  <2>5. validScheduledReentrySuspension => validScheduledReentrySuspension'
    <3>1. depth > 1 => (NearestLuaPublished(depth - 1, {"pcall"}) => NearestLuaPublished(depth - 1, {"pcall"})')
      <4>1. ASSUME NEW j \in 1..((depth - 1) - 1), validNativeSuspensionFrame(j),
                   \A m \in (j + 1)..((depth - 1) - 1) : ci[m].fn \in {"pcall"}
            PROVE  NearestLuaPublished(depth - 1, {"pcall"})'
        <5>1. j \in Levels /\ \A m \in (j + 1)..((depth - 1) - 1) : m \in Levels
          BY <1>2
        <5>2. j \in 1..((depth' - 1) - 1) /\ validNativeSuspensionFrame(j)'
          BY <1>1, <1>8, <4>1, <5>1 DEF validNativeSuspensionFrame, IsLua
        <5>3. \A m \in (j + 1)..((depth' - 1) - 1) : ci'[m].fn \in {"pcall"}
          BY <1>1, <1>8, <4>1, <5>1
        <5> QED
          BY <5>2, <5>3 DEF NearestLuaPublished, validNativeSuspensionFrame, IsLua
      <4> QED
        BY <4>1 DEF NearestLuaPublished
    <3>2. depth > 1 => depth - 1 \in Levels
      BY <1>2
    <3> QED
      BY <1>1, <1>2, <1>8, <3>1, <3>2 DEF validScheduledReentrySuspension, IsLua
  <2> QED
    BY <1>1, <1>2, <2>3, <2>4, <2>5 DEF validAotSuspension
<1>14. SuspendedStack'
  <2> SUFFICES ASSUME NEW j \in Levels, native'[j] # Heap
               PROVE  /\ IsLua(j)' /\ ~AtKinds(j, {"meta"})'
                      /\ native'[j].phase \in {"prepare", "callee"}
    BY <1>13 DEF SuspendedStack, OnHeap
  <2>1. ~OnHeap(j) /\ native'[j] = native[j] /\ ci'[j].fn = ci[j].fn /\ j # depth
    BY <1>2, <1>8, <1>10
  <2> QED
    BY <1>2, <2>1 DEF Consistent, SuspendedStack, IsLua, AtKinds
<1>15. InnermostRuns'
  <2> SUFFICES ASSUME NEW j \in Levels, mode' = "running", LastNative(j)' PROVE FALSE
    BY DEF InnermostRuns
  <2>1. native'[j] # Heap
    BY DEF LastNative, OnHeap
  <2>2. ~OnHeap(j) /\ j \in 1..(i - 1)
    BY <1>2, <1>10, <2>1, Facts
  <2>3. Last(i)
    BY <1>5
  <2> QED
    BY <2>2, <2>3 DEF Last
<1>16. Modes'
  BY <1>1, <1>2, <1>5 DEF Modes
<1> QED
  BY <1>5, <1>7, <1>9, <1>11, <1>12, <1>14, <1>15, <1>16 DEF Consistent

(***************************************************************************)
(* Errors.  What is left is a part of the frames that were there.          *)
(***************************************************************************)
Cut(i) ==
    /\ TypeOK'
    /\ i \in 1..depth
    /\ ci[i].fn = "pcall" /\ \A j \in (i + 1)..depth : ci[j].fn # "pcall"
    /\ \A j \in Levels : j <= i => slot'[j] = slot[j]
    /\ depth' = i /\ ci' = ci
    /\ \A j \in Levels : j > i => native'[j] = Heap
    /\ \A j \in Levels : j <= i => native'[j] = native[j]
    /\ status = "ok" /\ status' = "ok" /\ mode' = "running" /\ fault' = FALSE
    /\ native[i].phase # "prepare"
    /\ ~OnHeap(i) \/ (\A j \in Levels : native'[j] = Heap)

LEMMA CutKeeps ==
    ASSUME Consistent, NEW i, Cut(i) PROVE Consistent'
<1>1. i \in Levels /\ i \in Nat /\ depth \in Nat /\ i <= depth /\ depth' = i /\ ci' = ci
  BY Facts DEF Cut
<1>2. FrameOK'
  <2> SUFFICES ASSUME NEW j \in Levels
               PROVE  /\ j > i => native'[j] = Heap
                      /\ j <= i /\ native'[j] = Heap => HeapFrame(j)'
                      /\ j <= i /\ native'[j] # Heap => NativeFrame(j)'
    BY <1>1 DEF FrameOK, OnHeap
  <2>1. j > i => native'[j] = Heap
    BY DEF Cut
  <2>2. ASSUME j <= i PROVE j <= depth /\ native'[j] = native[j]
    BY <1>1, <2>2, Facts DEF Cut
  <2>3. ASSUME j <= i, OnHeap(j) PROVE HeapFrame(j)'
    <3>1. HeapFrame(j) /\ (j < i => j < depth)
      BY <1>1, <2>2, <2>3, Facts DEF Consistent, FrameOK
    <3>2. ci[j].fn # "plain"
      BY <3>1 DEF Cut, HeapFrame
    <3> QED
      BY <1>1, <3>1, <3>2 DEF HeapFrame, IsLua, KnownContinuation
  <2>4. ASSUME j <= i, ~OnHeap(j) PROVE NativeFrame(j)'
    <3>1. NativeFrame(j)
      BY <2>2, <2>4 DEF Consistent, FrameOK
    <3> QED
      BY <1>1, <2>2, <2>4, <3>1 DEF NativeFrame, IsLua, AtKinds
  <2> QED
    BY <2>1, <2>2, <2>3, <2>4 DEF OnHeap
<1>3. \A j \in Levels : native'[j] # Heap => j <= i /\ ~OnHeap(j) /\ native'[j] = native[j]
  BY <1>1, Facts DEF Cut, OnHeap
<1>4. Contiguous'
  <2> SUFFICES ASSUME NEW l \in Levels, NEW k \in Levels, NEW j \in Levels,
                      native'[l] # Heap, native'[k] # Heap, l < j, j < k
               PROVE  native'[j] # Heap
    BY DEF Contiguous, OnHeap
  <2>1. ~OnHeap(l) /\ ~OnHeap(k) /\ k <= i
    BY <1>3
  <2>2. ~OnHeap(j)
    BY <2>1 DEF Consistent, Contiguous
  <2>3. native'[j] = native[j]
    BY <1>1, <2>1, Facts DEF Cut
  <2> QED
    BY <2>2, <2>3 DEF OnHeap
<1>5. Waits'
  <2> SUFFICES ASSUME NEW j \in Levels, j < i, native'[j] # Heap, native'[j + 1] # Heap
               PROVE  /\ native'[j].phase \in {"prepare", "callee"}
                      /\ native'[j].phase = "prepare" => ci[j + 1].fn \in CFunctions
    BY <1>1 DEF Waits, OnHeap
  <2>1. j + 1 \in Levels /\ j < depth
    BY <1>1, Facts
  <2>2. ~OnHeap(j) /\ ~OnHeap(j + 1) /\ native'[j] = native[j]
    BY <1>3, <2>1
  <2> QED
    BY <2>1, <2>2 DEF Consistent, Waits
<1>6. InnermostRuns'
  <2> SUFFICES ASSUME NEW j \in Levels, LastNative(j)'
               PROVE  j = depth' /\ native'[j].phase # "prepare"
    BY DEF InnermostRuns, Cut
  <2>1. j <= i /\ native'[j] # Heap /\ (j < i => native'[j + 1] = Heap)
    BY <1>1 DEF LastNative, OnHeap
  <2>2. ~OnHeap(j) /\ native'[j] = native[j] /\ ~OnHeap(i) /\ j \in Nat
    BY <1>1, <1>3, <2>1, Facts DEF Cut
  <2>3. ASSUME j < i PROVE FALSE
    <3>1. j + 1 \in Levels /\ j < j + 1 /\ (j + 1 < i \/ j + 1 = i) /\ j + 1 <= i
      BY <1>1, <2>2, <2>3
    <3>2. ~OnHeap(j + 1)
      BY <1>1, <2>2, <3>1 DEF Consistent, Contiguous
    <3>3. native'[j + 1] = native[j + 1]
      BY <3>1 DEF Cut
    <3> QED
      BY <2>1, <2>3, <3>2, <3>3 DEF OnHeap
  <2> QED
    BY <1>1, <2>1, <2>2, <2>3 DEF Cut
<1>7. SuspendedStack' /\ Modes' /\ ~fault' /\ TypeOK'
  BY DEF Cut, SuspendedStack, Modes
<1> QED
  BY <1>2, <1>4, <1>5, <1>6, <1>7 DEF Consistent

LEMMA CatchNativeCuts ==
    ASSUME Consistent, CatchNative PROVE \E i \in Levels : Cut(i) /\ mode = "raising"
<1>1. PICK i \in Levels :
        /\ mode = "raising" /\ TopOf(NativePcalls, i) /\ CutTo(i)
        /\ native' = [j \in Levels |-> IF j <= i THEN native[j] ELSE Heap]
        /\ UNCHANGED <<ci, prepared, fault>>
  BY DEF CatchNative
<1>2. i \in 1..depth /\ native[i].code = "pcall" /\ status = "ok"
  BY <1>1 DEF TopOf, NativePcalls, Consistent, Modes
<1>3. \A j \in (i + 1)..depth : ci[j].fn # "pcall"
  <2> SUFFICES ASSUME NEW j \in (i + 1)..depth, ci[j].fn = "pcall" PROVE FALSE
    OBVIOUS
  <2>1. /\ i \in Levels /\ j \in Levels /\ depth \in Levels /\ i < j /\ j <= depth
        /\ j \in 1..depth /\ (j = depth \/ j < depth)
    BY <1>2, Facts
  <2>2. ~OnHeap(j)
    <3>1. ~OnHeap(i) /\ ~OnHeap(depth)
      BY <1>1, <1>2 DEF OnHeap, Consistent, Modes
    <3> QED
      BY <2>1, <3>1 DEF Consistent, Contiguous
  <2>3. native[j].code = "pcall"
    BY <2>1, <2>2 DEF Consistent, FrameOK, NativeFrame
  <2>4. j <= i
    BY <1>1, <2>1, <2>3 DEF TopOf, NativePcalls
  <2> QED
    BY <2>1, <2>4
<1>4. ~OnHeap(i) /\ native[i].phase # "prepare" /\ ci[i].fn = "pcall"
  <2>1. ~OnHeap(i)
    BY <1>2 DEF OnHeap
  <2>2. NativeFrame(i)
    BY <1>1, <1>2, <2>1, Facts DEF Consistent, FrameOK
  <2> QED
    BY <1>2, <2>1, <2>2 DEF NativeFrame, IsLua
<1>5. TypeOK'
  <2>1. native' \in [Levels -> NativeFunctions]
    <3>1. Heap \in NativeFunctions
      BY DEF NativeFunctions
    <3> QED
      BY <1>1, <3>1, Facts
  <2>2. slot' \in [Levels -> Values \cup {"none", "pending"}]
    BY <1>1, Facts DEF CutTo
  <2> QED
    BY <1>1, <2>1, <2>2 DEF CutTo, Consistent, TypeOK, NativeFunctions
<1>6. Cut(i)
  <2>1. /\ \A j \in Levels : j > i => native'[j] = Heap
        /\ \A j \in Levels : j <= i => native'[j] = native[j]
    BY <1>1, Facts
  <2>2. \A j \in Levels : j <= i => slot'[j] = slot[j]
    BY <1>1 DEF CutTo
  <2> QED
    BY <1>1, <1>2, <1>3, <1>4, <1>5, <2>1, <2>2, Facts DEF Cut, CutTo
<1> QED
  BY <1>1, <1>6

LEMMA CatchSuspendedCuts ==
    ASSUME Consistent, CatchSuspended PROVE \E i \in Levels : Cut(i) /\ mode = "raising"
<1>1. PICK i \in Levels :
        /\ mode = "raising" /\ NativePcalls = {} /\ TopOf(Pcalls, i) /\ CutTo(i)
        /\ native' = [j \in Levels |-> Heap]
        /\ UNCHANGED <<ci, prepared, fault>>
  BY DEF CatchSuspended
<1>2. i \in 1..depth /\ ci[i].fn = "pcall" /\ status = "ok" /\ ~OnHeap(depth)
  BY <1>1 DEF TopOf, Pcalls, Consistent, Modes
<1>3. \A j \in (i + 1)..depth : ci[j].fn # "pcall"
  <2> SUFFICES ASSUME NEW j \in (i + 1)..depth, ci[j].fn = "pcall" PROVE FALSE
    OBVIOUS
  <2>1. i < j /\ j \in 1..depth
    BY <1>2, Facts
  <2>2. j <= i
    BY <1>1, <2>1 DEF TopOf, Pcalls
  <2> QED
    BY <1>2, <2>1, <2>2, Facts
<1>4. OnHeap(i)
  <2>1. ASSUME ~OnHeap(i) PROVE native[i].code = "pcall"
    BY <1>1, <1>2, <2>1, Facts DEF Consistent, FrameOK, NativeFrame
  <2> QED
    BY <1>1, <1>2, <2>1 DEF NativePcalls
<1>5. \A j \in Levels : j <= i => OnHeap(j)
  <2> SUFFICES ASSUME NEW j \in Levels, j <= i, ~OnHeap(j) PROVE FALSE
    OBVIOUS
  <2>1. j < i /\ i < depth
    <3>1. j # i /\ i # depth
      BY <1>2, <1>4
    <3> QED
      BY <1>2, <3>1, Facts
  <2> QED
    BY <1>1, <1>2, <1>4, <2>1, Facts DEF Consistent, Contiguous
<1>6. TypeOK'
  <2>1. native' \in [Levels -> NativeFunctions]
    <3>1. Heap \in NativeFunctions
      BY DEF NativeFunctions
    <3> QED
      BY <1>1, <3>1
  <2>2. slot' \in [Levels -> Values \cup {"none", "pending"}]
    BY <1>1, Facts DEF CutTo
  <2> QED
    BY <1>1, <2>1, <2>2 DEF CutTo, Consistent, TypeOK, NativeFunctions
<1>7. Cut(i)
  <2>1. \A j \in Levels : native'[j] = Heap
    BY <1>1
  <2>2. \A j \in Levels : j <= i => native'[j] = native[j]
    BY <1>5, <2>1 DEF OnHeap
  <2>3. native[i].phase # "prepare"
    BY <1>4 DEF OnHeap
  <2>4. \A j \in Levels : j <= i => slot'[j] = slot[j]
    BY <1>1 DEF CutTo
  <2> QED
    BY <1>1, <1>2, <1>3, <1>6, <2>1, <2>2, <2>3, <2>4, Facts DEF Cut, CutTo
<1> QED
  BY <1>1, <1>7

LEMMA StutterKeeps ==
    ASSUME Consistent, UNCHANGED vars PROVE Consistent'
<1>1. SameFrames
  BY DEF SameFrames, vars, Consistent, TypeOK
<1>2. SuspendedStack'
  BY DEF vars, Consistent, SuspendedStack, validAotSuspension, validNativeSuspensionFrame,
     validCallSuspension, validScheduledReentrySuspension, NearestLuaPublished, IsLua, OnHeap, AtKinds
<1>3. InnermostRuns' /\ Modes'
  BY DEF vars, Consistent, InnermostRuns, LastNative, Modes, IsLua, OnHeap
<1> QED
  BY <1>1, <1>2, <1>3, SameFramesKeep DEF Consistent

LEMMA InitConsistent == Init => Consistent
<1> SUFFICES ASSUME Init PROVE Consistent
  OBVIOUS
<1>1. PICK p \in Protos :
        ci = [i \in Levels |-> [fn |-> IF i = 1 THEN p ELSE "plain",
                                aotstate |-> 0, opyield |-> FALSE]]
  BY DEF Init
<1>2. /\ depth = 1 /\ status = "ok" /\ mode = "running" /\ fault = FALSE
      /\ \A i \in Levels : OnHeap(i)
      /\ 1 \in Levels
  BY DEF Init, OnHeap
<1>3. TypeOK
  <2>1. ci \in [Levels -> CallInfos]
    BY <1>1 DEF CallInfos
  <2>2. native \in [Levels -> NativeFunctions]
    BY DEF Init, NativeFunctions
  <2> QED
    BY <1>2, <2>1, <2>2 DEF Init, TypeOK, CallInfos, NativeFunctions
<1>4. FrameOK
  <2>1. HeapFrame(1)
    <3>1. ci[1].fn = p /\ ci[1].aotstate = 0 /\ ci[1].opyield = FALSE
      BY <1>1, <1>2
    <3> QED
      BY <1>2, <3>1 DEF HeapFrame, IsLua, KnownContinuation
  <2>2. \A i \in Levels : i <= depth => i = 1
    BY <1>2
  <2> QED
    BY <1>2, <2>1, <2>2 DEF FrameOK
<1>5. Contiguous /\ Waits /\ SuspendedStack /\ InnermostRuns /\ Modes
  BY <1>2 DEF Contiguous, Waits, SuspendedStack, InnermostRuns, LastNative, Modes
<1> QED
  BY <1>2, <1>3, <1>4, <1>5 DEF Consistent

LEMMA NextKeepsConsistent == Consistent /\ [Next]_vars => Consistent'
<1> SUFFICES ASSUME Consistent, [Next]_vars PROVE Consistent'
  OBVIOUS
<1>1. CASE PublishContinuation \/ CallPreparedEntry \/ PreparedYielded
  BY <1>1, PublishContinuationKeeps, CallPreparedEntryKeeps, PreparedYieldedKeeps
<1>2. CASE \E p \in Protos :
             \/ FastCall(p) \/ PrepareCompiledCall(p) \/ EnterNative(p)
             \/ \E fns \in Reentries(p) : CCallsCompiled(p, fns)
  BY <1>2, FastCallEnters, EnterNativeEnters, EnteringKeeps, PrepareCompiledCallKeeps,
     CCallsCompiledKeeps
<1>3. CASE \E s \in {"yield", "scheduled"} : \E fns \in Suspensions(s) : CSuspends(fns, s)
  BY <1>3, CSuspendsKeeps
<1>4. CASE \E v \in Values :
             CReturns(v) \/ Return(v) \/ CFunctionReturns(v) \/ Resume(v) \/ RunContinuation(v)
  BY <1>4, CReturnsKeeps, ReturnLeaves, CFunctionReturnsLeaves, ResumeLeaves,
     RunContinuationLeaves, LeavingKeeps
<1>5. CASE Raises \/ ReturnToHost \/ FinishCall \/ FinishMetamethod
  BY <1>5, RaisesKeeps, ReturnToHostKeeps, FinishCallKeeps, FinishMetamethodKeeps
<1>6. CASE InterruptReturns \/ InterruptYields \/ ReturnYielded
  BY <1>6, InterruptReturnsKeeps, InterruptYieldsKeeps, ReturnYieldedKeeps
<1>7. CASE ResumeInterrupt \/ RunScheduled \/ EnterFrame
  BY <1>7, LoopGoesOnKeeps, EnterFrameKeeps
<1>8. CASE CatchNative \/ CatchSuspended \/ Uncaught
  BY <1>8, CatchNativeCuts, CatchSuspendedCuts, CutKeeps, UncaughtKeeps
<1>9. CASE Dead \/ UNCHANGED vars
  BY <1>9, StutterKeeps DEF Dead
<1> QED
  BY <1>1, <1>2, <1>3, <1>4, <1>5, <1>6, <1>7, <1>8, <1>9 DEF Next

LEMMA AlwaysConsistent == Spec => []Consistent
  BY InitConsistent, NextKeepsConsistent, PTL DEF Spec

LEMMA EveryFrame ==
    ASSUME Consistent, NEW i \in 1..depth
    PROVE  (OnHeap(i) => HeapFrame(i)) /\ (~OnHeap(i) => NativeFrame(i))
<1>1. i \in Levels /\ i <= depth
  BY Facts
<1> QED
  BY <1>1 DEF Consistent, FrameOK

(***************************************************************************)
(* Theorems.                                                               *)
(***************************************************************************)

(* Every variable has its type; depth never passes the size the CallInfo   *)
(* array may reach.                                                        *)
THEOREM Types == Spec => []TypeOK
<1>1. Consistent => TypeOK
  BY DEF Consistent
<1> QED
  BY <1>1, AlwaysConsistent, PTL

(* None of the checks that the runtime (validAotSuspension, enter) and     *)
(* the generated code (exchange_continuation, the dispatch) make on each   *)
(* other can fail.                                                         *)
THEOREM ChecksHold == Spec => []NoInternalError
<1>1. Consistent => NoInternalError
  BY DEF Consistent, NoInternalError
<1> QED
  BY <1>1, AlwaysConsistent, PTL

(* A frame that left the wasm stack below another waits at the call or the *)
(* loop that it will go on behind (exchange_continuation, enter).          *)
THEOREM SuspendedFramesKeepTheirPlace == Spec => []SuspendedFramesArePublished
<1>1. Consistent => SuspendedFramesArePublished
  <2> SUFFICES ASSUME Consistent, NEW i \in 1..depth, IsLua(i), OnHeap(i), i < depth
               PROVE  /\ ci[i].aotstate \in 1..Len(Code[ci[i].fn])
                      /\ Code[ci[i].fn][ci[i].aotstate] \in {"call", "loop"}
    BY DEF SuspendedFramesArePublished
  <2>1. HeapFrame(i)
    BY EveryFrame
  <2> QED
    BY <2>1 DEF HeapFrame, KnownContinuation
<1> QED
  BY <1>1, AlwaysConsistent, PTL

(* OPYIELD marks exactly the frames whose iterator is suspended            *)
(* (forg_loop_call, enter).                                                *)
THEOREM OpYieldIsExact == Spec => []OpYieldMarksSuspendedIterators
<1>1. Consistent => OpYieldMarksSuspendedIterators
  <2> SUFFICES ASSUME Consistent, NEW i \in 1..depth, IsLua(i)
               PROVE  ci[i].opyield <=>
                        /\ OnHeap(i)
                        /\ ci[i].aotstate # 0
                        /\ Code[ci[i].fn][ci[i].aotstate] = "loop"
    BY DEF OpYieldMarksSuspendedIterators
  <2>1. CASE OnHeap(i)
    <3>1. HeapFrame(i)
      BY <2>1, EveryFrame
    <3> QED
      BY <2>1, <3>1 DEF HeapFrame
  <2>2. CASE ~OnHeap(i)
    <3>1. NativeFrame(i)
      BY <2>2, EveryFrame
    <3> QED
      BY <2>2, <3>1 DEF NativeFrame
  <2> QED
    BY <2>1, <2>2
<1> QED
  BY <1>1, AlwaysConsistent, PTL

(* A frame is run by the function of its own closure, though the prepared  *)
(* call of every caller is the same static record (prepare_compiled_call). *)
THEOREM FramesRunTheirOwnCode == Spec => []FrameRunsItsOwnCode
<1>1. Consistent => FrameRunsItsOwnCode
  <2> SUFFICES ASSUME Consistent, NEW i \in 1..depth, ~OnHeap(i)
               PROVE  native[i].code = ci[i].fn
    BY DEF FrameRunsItsOwnCode
  <2>1. NativeFrame(i)
    BY EveryFrame
  <2> QED
    BY <2>1 DEF NativeFrame
<1> QED
  BY <1>1, AlwaysConsistent, PTL

(***************************************************************************)
(* Sequences that differ at the end.                                       *)
(***************************************************************************)
LEMMA FunctionIsSequence ==
    ASSUME NEW S, NEW n \in Nat, NEW f \in [1..n -> S]
    PROVE  f \in Seq(S) /\ Len(f) = n
  OBVIOUS

LEMMA BeginningIs ==
    ASSUME NEW S, NEW c \in Seq(S), NEW d \in Seq(S), NEW h \in Nat,
           h <= Len(c), Len(d) = h, \A i \in 1..h : d[i] = c[i]
    PROVE  d = SubSeq(c, 1, h)
<1>1. \A i \in 1..h : c[i] \in S
  BY ElementOfSeq
<1>2. /\ SubSeq(c, 1, h) \in Seq(S) /\ Len(SubSeq(c, 1, h)) = h
      /\ \A i \in 1..h : SubSeq(c, 1, h)[i] = c[i]
  <2>1. /\ SubSeq(c, 1, h) \in Seq(S)
        /\ Len(SubSeq(c, 1, h)) = IF 1 <= h THEN h - 1 + 1 ELSE 0
        /\ \A i \in 1..(h - 1 + 1) : SubSeq(c, 1, h)[i] = c[1 + i - 1]
    BY <1>1, SubSeqProperties
  <2>2. \A i \in 1..h : i \in 1..(h - 1 + 1) /\ 1 + i - 1 = i
    OBVIOUS
  <2> QED
    BY <2>1, <2>2
<1> QED
  BY <1>2, SeqEqual

LEMMA ReplacedTop ==
    ASSUME NEW S, NEW c \in Seq(S), NEW d \in Seq(S), NEW k \in Nat, k <= Len(c),
           Len(d) = Len(c) - k + 1, \A i \in 1..(Len(c) - k) : d[i] = c[i]
    PROVE  d = Append(SubSeq(c, 1, Len(c) - k), d[Len(d)])
<1> DEFINE h == Len(c) - k
           b == SubSeq(c, 1, h)
<1>1. h \in Nat /\ h <= Len(c) /\ Len(d) = h + 1 /\ Len(d) \in 1..Len(d)
  BY LenProperties
<1>2. b \in Seq(S) /\ Len(b) = h /\ \A i \in 1..h : b[i] = c[i]
  <2>1. \A i \in 1..h : c[i] \in S
    BY <1>1, ElementOfSeq
  <2>2. /\ SubSeq(c, 1, h) \in Seq(S)
        /\ Len(SubSeq(c, 1, h)) = IF 1 <= h THEN h - 1 + 1 ELSE 0
        /\ \A i \in 1..(h - 1 + 1) : SubSeq(c, 1, h)[i] = c[1 + i - 1]
    BY <1>1, <2>1, SubSeqProperties
  <2>3. \A i \in 1..h : i \in 1..(h - 1 + 1) /\ 1 + i - 1 = i
    BY <1>1
  <2> QED
    BY <1>1, <2>2, <2>3
<1>3. d[Len(d)] \in S
  BY <1>1, ElementOfSeq
<1> HIDE DEF h, b
<1>4. /\ Append(b, d[Len(d)]) \in Seq(S) /\ Len(Append(b, d[Len(d)])) = h + 1
      /\ \A i \in 1..h : Append(b, d[Len(d)])[i] = b[i]
      /\ Append(b, d[Len(d)])[h + 1] = d[Len(d)]
  BY <1>2, <1>3, AppendProperties
<1>5. ASSUME NEW i \in 1..Len(d) PROVE d[i] = Append(b, d[Len(d)])[i]
  <2>1. CASE i \in 1..h
    BY <1>2, <1>4, <2>1 DEF h
  <2>2. CASE i = h + 1
    BY <1>1, <1>4, <2>2
  <2>3. i \in 1..h \/ i = h + 1
    BY <1>1
  <2> QED
    BY <2>1, <2>2, <2>3
<1>6. d = Append(b, d[Len(d)])
  BY <1>1, <1>4, <1>5, SeqEqual
<1> QED
  BY <1>6 DEF b, h

LEMMA Extended ==
    ASSUME NEW S, NEW c \in Seq(S), NEW d \in Seq(S), NEW n \in Nat, Len(c) > 0,
           Len(d) = Len(c) + n, \A i \in 1..(Len(c) - 1) : d[i] = c[i]
    PROVE  d = Append(SubSeq(c, 1, Len(c) - 1), d[Len(c)]) \o [i \in 1..n |-> d[Len(c) + i]]
<1> DEFINE h == Len(c)
           b == SubSeq(d, 1, h)
           e == [i \in 1..n |-> d[h + i]]
<1>1. h \in Nat /\ h > 0 /\ h <= Len(d) /\ Len(d) = h + n /\ Len(d) \in Nat
  BY LenProperties
<1>2. /\ b \in Seq(S) /\ Len(b) = h /\ \A i \in 1..h : b[i] = d[i]
  <2>1. \A i \in 1..h : d[i] \in S
    BY <1>1, ElementOfSeq
  <2>2. /\ SubSeq(d, 1, h) \in Seq(S)
        /\ Len(SubSeq(d, 1, h)) = IF 1 <= h THEN h - 1 + 1 ELSE 0
        /\ \A i \in 1..(h - 1 + 1) : SubSeq(d, 1, h)[i] = d[1 + i - 1]
    BY <1>1, <2>1, SubSeqProperties
  <2>3. \A i \in 1..h : i \in 1..(h - 1 + 1) /\ 1 + i - 1 = i
    BY <1>1
  <2> QED
    BY <1>1, <2>2, <2>3
<1>3. e \in Seq(S) /\ Len(e) = n
  <2>1. \A i \in 1..n : d[h + i] \in S
    BY <1>1, ElementOfSeq
  <2>2. e \in [1..n -> S]
    BY <2>1
  <2> HIDE DEF e
  <2> QED
    BY <2>2, FunctionIsSequence
<1>4. b = Append(SubSeq(c, 1, Len(c) - 1), d[Len(c)])
  <2> HIDE DEF b
  <2>1. Len(b) = Len(c) - 1 + 1 /\ \A i \in 1..(Len(c) - 1) : b[i] = c[i]
    BY <1>1, <1>2
  <2>2. b = Append(SubSeq(c, 1, Len(c) - 1), b[Len(b)])
    BY <1>1, <1>2, <2>1, ReplacedTop
  <2>3. b[Len(b)] = d[Len(c)]
    BY <1>1, <1>2
  <2> QED
    BY <2>2, <2>3
<1>5. d = b \o e
  <2>1. \A i \in 1..n : e[i] = d[h + i]
    OBVIOUS
  <2> HIDE DEF b, e, h
  <2>2. /\ b \o e \in Seq(S) /\ Len(b \o e) = h + n
        /\ \A i \in 1..(h + n) : (b \o e)[i] = IF i <= h THEN b[i] ELSE e[i - h]
    BY <1>2, <1>3, ConcatProperties
  <2>3. ASSUME NEW i \in 1..Len(d) PROVE d[i] = (b \o e)[i]
    <3>1. CASE i <= h
      BY <1>1, <1>2, <2>2, <3>1
    <3>2. CASE ~(i <= h)
      <4>1. i - h \in 1..n /\ h + (i - h) = i /\ i \in 1..(h + n)
        BY <1>1, <3>2
      <4>2. e[i - h] = d[i]
        BY <2>1, <4>1
      <4> QED
        BY <2>2, <3>2, <4>1, <4>2
    <3> QED
      BY <3>1, <3>2
  <2> QED
    BY <1>1, <2>2, <2>3, SeqEqual
<1> QED
  BY <1>4, <1>5

(***************************************************************************)
(* The frames implement calls that can be suspended.                       *)
(***************************************************************************)
Acts == [fn : Protos \cup CFunctions, at : Nat, slot : Values \cup {"none", "pending"}]

StackIs ==
    /\ Activations \in Seq(Acts)
    /\ Len(Activations) = depth
    /\ \A i \in 1..depth : Activations[i] = Activation(i)

LEMMA ActivationTypes ==
    ASSUME TypeOK, NEW i \in Levels
    PROVE  Position(i) \in Nat /\ Activation(i) \in Acts
<1>1. Position(i) \in Nat
  BY DEF TypeOK, Position
<1> HIDE DEF Position
<1> QED
  BY <1>1 DEF TypeOK, Activation, Acts

LEMMA Stack == TypeOK /\ mode # "dead" => StackIs
<1> SUFFICES ASSUME TypeOK, mode # "dead" PROVE StackIs
  OBVIOUS
<1>1. depth \in Nat /\ \A i \in 1..depth : i \in Levels
  BY DEF TypeOK
<1>2. Activations = [i \in 1..depth |-> Activation(i)]
  BY DEF Activations
<1>3. Activations \in [1..depth -> Acts] /\ \A i \in 1..depth : Activations[i] = Activation(i)
  BY <1>1, <1>2, ActivationTypes
<1> QED
  BY <1>1, <1>3, FunctionIsSequence DEF StackIs

LEMMA StackAfter == TypeOK' /\ (mode # "dead")' => StackIs'
  BY Stack, PTL

(* The activations below n are as they were. *)
Undisturbed(n) == \A i \in Levels : i < n => Activation(i)' = Activation(i)

LEMMA FramesBelowAreKept ==
    ASSUME NEW n, \A i \in Levels : i < n => /\ ci'[i] = ci[i] /\ native'[i] = native[i]
                                            /\ slot'[i] = slot[i]
    PROVE  Undisturbed(n)
  BY DEF Undisturbed, Activation, Position, IsLua, OnHeap

LEMMA StacksBothWays ==
    ASSUME Consistent, Consistent', mode # "dead", mode' # "dead"
    PROVE  /\ Activations \in Seq(Acts) /\ Len(Activations) = depth
           /\ \A i \in 1..depth : i \in Levels /\ Activations[i] = Activation(i)
           /\ Activations' \in Seq(Acts) /\ Len(Activations') = depth'
           /\ \A i \in 1..depth' : i \in Levels /\ Activations'[i] = Activation(i)'
           /\ Activations'[depth'] = Activation(depth)'
           /\ depth \in Levels /\ depth \in Nat /\ depth' \in Levels /\ depth' \in Nat
           /\ Calls!Top = Activation(depth)
<1>1. TypeOK /\ TypeOK'
  BY DEF Consistent
<1>2. depth \in Levels /\ depth \in Nat /\ depth' \in Levels /\ depth' \in Nat
  BY <1>1 DEF TypeOK
<1>3. StackIs /\ StackIs'
  BY <1>1, Stack, StackAfter
<1>4. /\ \A i \in 1..depth : i \in Levels /\ Activations[i] = Activation(i)
      /\ \A i \in 1..depth' : i \in Levels /\ Activations'[i] = Activation(i)'
  BY <1>2, <1>3 DEF StackIs
<1>5. depth \in 1..depth /\ depth' \in 1..depth'
  BY <1>2
<1>6. Activations'[depth'] = Activation(depth)' /\ Activations[depth] = Activation(depth)
  <2>1. Activations[depth] = Activation(depth)
    BY <1>4, <1>5
  <2>2. Activations'[depth'] = Activation(depth)'
    BY <1>4, <1>5
  <2> QED
    BY <2>1, <2>2
<1> QED
  BY <1>2, <1>3, <1>4, <1>6 DEF StackIs, Calls!Top

(* What a step that changes the end of the stack makes of it. *)
LEMMA NothingChanges ==
    ASSUME Consistent, Consistent', mode # "dead", mode' # "dead",
           depth' = depth, Undisturbed(depth + 1)
    PROVE  Activations' = Activations
<1>1. \A i \in 1..depth : Activations'[i] = Activations[i]
  BY StacksBothWays DEF Undisturbed
<1> QED
  BY <1>1, StacksBothWays, SeqEqual

LEMMA TopChanges ==
    ASSUME Consistent, Consistent', mode # "dead", mode' # "dead",
           depth' = depth, Undisturbed(depth)
    PROVE  Activations' = Append(Calls!Without(1), Activation(depth)')
<1>1. \A i \in 1..(depth - 1) : Activations'[i] = Activations[i]
  BY StacksBothWays DEF Undisturbed
<1>2. Len(Activations') = Len(Activations) - 1 + 1 /\ 1 <= Len(Activations)
  BY StacksBothWays
<1>3. Activations' = Append(SubSeq(Activations, 1, Len(Activations) - 1), Activations'[Len(Activations')])
  BY <1>1, <1>2, StacksBothWays, ReplacedTop
<1> QED
  BY <1>3, StacksBothWays DEF Calls!Without

LEMMA TopEnds ==
    ASSUME Consistent, Consistent', mode # "dead", mode' # "dead",
           depth' = depth - 1, Undisturbed(depth - 1)
    PROVE  /\ Activations' = Append(Calls!Without(2), Activation(depth)')
           /\ Calls!Below = Activation(depth - 1)
<1>1. \A i \in 1..(depth - 2) : Activations'[i] = Activations[i]
  BY StacksBothWays DEF Undisturbed
<1>2. Len(Activations') = Len(Activations) - 2 + 1 /\ 2 <= Len(Activations)
  <2>1. depth \in Nat /\ depth' >= 1
    BY StacksBothWays
  <2>2. Len(Activations') = depth - 1 /\ Len(Activations) = depth
    BY StacksBothWays
  <2> QED
    BY <2>1, <2>2
<1>3. Activations' = Append(SubSeq(Activations, 1, Len(Activations) - 2), Activations'[Len(Activations')])
  <2>1. \A i \in 1..(Len(Activations) - 2) : Activations'[i] = Activations[i]
    BY <1>1, StacksBothWays
  <2>2. Activations \in Seq(Acts) /\ Activations' \in Seq(Acts) /\ 2 \in Nat
    BY StacksBothWays
  <2> QED
    BY <1>2, <2>1, <2>2, ReplacedTop
<1>4. depth - 1 \in 1..depth
  <2>1. depth \in Nat /\ depth' >= 1
    BY StacksBothWays
  <2> QED
    BY <2>1
<1> QED
  BY <1>3, <1>4, StacksBothWays DEF Calls!Without, Calls!Below

LEMMA StackGrows ==
    ASSUME Consistent, Consistent', mode # "dead", mode' # "dead",
           NEW n \in Nat, depth' = depth + n, Undisturbed(depth)
    PROVE  Activations' = Append(Calls!Without(1), Activations'[depth])
                          \o [i \in 1..n |-> Activations'[depth + i]]
<1>1. \A i \in 1..(depth - 1) : Activations'[i] = Activations[i]
  BY StacksBothWays DEF Undisturbed
<1>2. Len(Activations') = Len(Activations) + n /\ Len(Activations) > 0
  BY StacksBothWays
<1>3. Activations' = Append(SubSeq(Activations, 1, Len(Activations) - 1), Activations'[Len(Activations)])
                     \o [i \in 1..n |-> Activations'[Len(Activations) + i]]
  BY <1>1, <1>2, StacksBothWays, Extended
<1> QED
  BY <1>3, StacksBothWays DEF Calls!Without

LEMMA StackIsCut ==
    ASSUME Consistent, Consistent', mode # "dead", mode' # "dead",
           depth' <= depth, Undisturbed(depth' + 1)
    PROVE  Activations' = SubSeq(Activations, 1, depth')
<1>1. \A i \in 1..depth' : Activations'[i] = Activations[i]
  BY StacksBothWays DEF Undisturbed
<1> QED
  BY <1>1, StacksBothWays, BeginningIs

(***************************************************************************)
(* What the result registers hold, and where a coroutine is suspended.     *)
(***************************************************************************)

(* The call of the innermost frame has returned to the runtime.            *)
Returned ==
    IF OnHeap(depth) THEN /\ ci[depth].aotstate # 0
                          /\ Code[ci[depth].fn][ci[depth].aotstate] \in {"call", "loop"}
    ELSE native[depth].phase \in {"prepare", "callee"}

Registers ==
    mode # "dead" =>
        /\ \A i \in Levels : i < depth => slot[i] = "pending"
        /\ IsLua(depth) => slot[depth] \in IF Returned THEN Values ELSE {"none"}
        /\ status = "yield" =>
             \/ ci[depth].fn = "plain"
             \/ /\ IsLua(depth) /\ ci[depth].aotstate # 0
                /\ Code[ci[depth].fn][ci[depth].aotstate] = "interrupt"
        /\ status = "scheduled" => OnHeap(depth)

(* The innermost frame goes on to a site, with that in its register.       *)
Moves(at, value) ==
    /\ depth' = depth /\ status = "ok" /\ status' = "ok" /\ mode = "running" /\ mode' = "running"
    /\ IsLua(depth) /\ ci'[depth].fn = ci[depth].fn
    /\ \A i \in Levels : i # depth => ci'[i] = ci[i] /\ native'[i] = native[i] /\ slot'[i] = slot[i]
    /\ native'[depth] # Heap /\ native'[depth].at = at
    /\ slot'[depth] = value
    /\ value \in IF native'[depth].phase \in {"prepare", "callee"} THEN Values ELSE {"none"}

LEMMA MovedStack ==
    ASSUME Consistent, Consistent', Registers, NEW at, NEW value, Moves(at, value)
    PROVE  /\ Registers'
           /\ Activations # <<>>
           /\ Calls!Top = [fn |-> ci[depth].fn, at |-> Position(depth), slot |-> slot[depth]]
           /\ Activations' = Append(Calls!Without(1), [fn |-> ci[depth].fn, at |-> at, slot |-> value])
           /\ Life = "running" /\ Life' = "running"
<1>1. /\ mode # "dead" /\ mode' # "dead" /\ depth' = depth /\ depth \in Nat /\ depth \in Levels
  BY Facts DEF Moves
<1>2. Undisturbed(depth)
  <2>1. \A i \in Levels : i < depth => ci'[i] = ci[i] /\ native'[i] = native[i] /\ slot'[i] = slot[i]
    BY <1>1 DEF Moves
  <2> QED
    BY <2>1, FramesBelowAreKept
<1>3. Activation(depth)' = [fn |-> ci[depth].fn, at |-> at, slot |-> value]
  BY <1>1 DEF Activation, Position, IsLua, OnHeap, Moves
<1>4. Activations' = Append(Calls!Without(1), [fn |-> ci[depth].fn, at |-> at, slot |-> value])
  BY <1>1, <1>2, <1>3, TopChanges
<1>5. Registers'
  <2>1. \A i \in Levels : i < depth' => slot'[i] = "pending"
    BY <1>1 DEF Moves, Registers
  <2>2. slot'[depth'] \in IF Returned' THEN Values ELSE {"none"}
    BY <1>1 DEF Moves, Returned, OnHeap
  <2> QED
    BY <1>1, <2>1, <2>2 DEF Registers, Moves
<1>6. Activations # <<>> /\ Calls!Top = Activation(depth)
  BY <1>1, StacksBothWays
<1> QED
  BY <1>1, <1>4, <1>5, <1>6 DEF Moves, Life, Activation

LEMMA GoesOnBehindTheCall ==
    ASSUME Consistent, Consistent', Registers,
           Moves(After(ci[depth].fn, Position(depth), slot[depth]), "none"),
           slot[depth] \in Values,
           Position(depth) \in 1..Len(Code[ci[depth].fn]),
           Code[ci[depth].fn][Position(depth)] \in {"call", "loop", "meta"}
    PROVE  Registers' /\ Calls!GoOn
<1> DEFINE f == ci[depth].fn
           at == Position(depth)
           v == slot[depth]
           next == After(f, at, v)
<1>1. /\ Registers' /\ Activations # <<>>
      /\ Calls!Top = [fn |-> f, at |-> at, slot |-> v]
      /\ Activations' = Append(Calls!Without(1), [fn |-> f, at |-> next, slot |-> "none"])
      /\ Life = "running" /\ Life' = "running"
  BY MovedStack
<1>2. f \in Protos /\ at \in DOMAIN Code[f] /\ Code[f][at] \in {"call", "loop", "meta"}
  BY DEF Moves, IsLua
<1>3. next = IF Code[f][at] = "loop" /\ v # "nil" THEN at ELSE at + 1
  BY DEF After
<1>4. v \in Values
  OBVIOUS
<1> HIDE DEF f, at, v, next
<1>5. [Calls!Top EXCEPT !.at = IF Code[Calls!Top.fn][Calls!Top.at] = "loop" /\ Calls!Top.slot # "nil"
                               THEN @ ELSE @ + 1,
                        !.slot = "none"]
      = [fn |-> f, at |-> next, slot |-> "none"]
  <2> DEFINE site == IF Code[Calls!Top.fn][Calls!Top.at] = "loop" /\ Calls!Top.slot # "nil"
                     THEN Calls!Top.at ELSE Calls!Top.at + 1
             a == [Calls!Top EXCEPT !.at = site, !.slot = "none"]
             b == [fn |-> f, at |-> next, slot |-> "none"]
  <2>1. next = site /\ Calls!Top = [fn |-> f, at |-> at, slot |-> v]
    BY <1>1, <1>3
  <2> HIDE DEF site
  <2>2. a.fn = b.fn /\ a.at = b.at /\ a.slot = b.slot
    BY <2>1
  <2>3. /\ DOMAIN a = {"fn", "at", "slot"} /\ DOMAIN b = {"fn", "at", "slot"}
        /\ a = [x \in DOMAIN a |-> a[x]] /\ b = [x \in DOMAIN b |-> b[x]]
    BY <2>1
  <2> HIDE DEF a, b
  <2>4. a = b
    BY <2>2, <2>3
  <2> QED
    BY <2>4 DEF a, b, site
<1>6. Calls!AtSite(Calls!Top, {"call", "loop", "meta"}) /\ Calls!Top.slot \in Values
  BY <1>1, <1>2, <1>4 DEF Calls!AtSite
<1> QED
  BY <1>1, <1>5, <1>6 DEF Calls!GoOn

LEMMA Passes ==
    ASSUME Consistent, Consistent', Registers,
           Moves(Position(depth) + 1, "none"),
           slot[depth] = "none",
           Position(depth) \in 1..Len(Code[ci[depth].fn]),
           Code[ci[depth].fn][Position(depth)] \in {"interrupt", "meta"}
    PROVE  Registers' /\ Calls!Pass
<1> DEFINE f == ci[depth].fn
           at == Position(depth)
<1>1. /\ Registers' /\ Activations # <<>>
      /\ Calls!Top = [fn |-> f, at |-> at, slot |-> "none"]
      /\ Activations' = Append(Calls!Without(1), [fn |-> f, at |-> at + 1, slot |-> "none"])
      /\ Life = "running" /\ Life' = "running"
  BY MovedStack
<1>2. f \in Protos /\ at \in DOMAIN Code[f] /\ Code[f][at] \in {"interrupt", "meta"}
  BY DEF Moves, IsLua
<1> HIDE DEF f, at
<1>3. [Calls!Top EXCEPT !.at = @ + 1] = [fn |-> f, at |-> at + 1, slot |-> "none"]
  BY <1>1
<1>4. Calls!AtSite(Calls!Top, {"interrupt", "meta"}) /\ Calls!Top.slot = "none"
  BY <1>1, <1>2 DEF Calls!AtSite
<1> QED
  BY <1>1, <1>3, <1>4 DEF Calls!Pass

(* No check fails in a step between two consistent states. *)
LEMMA ChecksPass ==
    ASSUME Consistent, Consistent', NEW holds, NEW next, Checked(holds, next)
    PROVE  mode' = next
  BY DEF Consistent, Checked

(* Where a frame is whose function is on the wasm stack. *)
LEMMA NativePosition ==
    ASSUME ~OnHeap(depth), IsLua(depth), NativeFrame(depth), NEW kinds, AtKinds(depth, kinds)
    PROVE  /\ Position(depth) = native[depth].at
           /\ native[depth].code = ci[depth].fn
           /\ Position(depth) \in 1..Len(Code[ci[depth].fn])
           /\ Code[ci[depth].fn][Position(depth)] \in kinds
  BY DEF Position, NativeFrame, AtKinds

LEMMA FinishCallGoesOn ==
    ASSUME Consistent, Consistent', Registers, FinishCall
    PROVE  Registers' /\ Calls!GoOn
<1>1. /\ status = "ok" /\ mode = "running" /\ ~OnHeap(depth) /\ IsLua(depth) /\ NativeFrame(depth)
      /\ depth \in Levels /\ native[depth].phase \in {"prepare", "callee"}
  BY FinishedIsNotSuspended, Facts DEF FinishCall, Executing
<1>2. /\ Position(depth) = native[depth].at /\ native[depth].code = ci[depth].fn
      /\ Position(depth) \in 1..Len(Code[ci[depth].fn])
      /\ Code[ci[depth].fn][Position(depth)] \in {"call", "loop"}
  BY <1>1, NativePosition DEF FinishCall
<1>3. slot[depth] \in Values
  BY <1>1 DEF Registers, Returned
<1>4. Moves(After(ci[depth].fn, Position(depth), slot[depth]), "none")
  <2>1. mode' = "running"
    BY <1>1, ChecksPass DEF FinishCall
  <2>2. ci[depth] \in CallInfos /\ native[depth] \in NativeFunctions
    BY <1>1, Facts
  <2>3. ci'[depth].fn = ci[depth].fn
    BY <1>1, <2>2, Facts DEF FinishCall, CallInfos
  <2>4. /\ native'[depth].at = After(ci[depth].fn, Position(depth), slot[depth])
        /\ native'[depth].phase = "runs" /\ native'[depth] # Heap
    BY <1>1, <1>2, <2>2, Facts DEF FinishCall, NativeFunctions
  <2>5. /\ \A i \in Levels : i # depth => ci'[i] = ci[i] /\ native'[i] = native[i] /\ slot'[i] = slot[i]
        /\ slot'[depth] = "none" /\ depth' = depth /\ status' = "ok"
    BY <1>1, Facts DEF FinishCall
  <2> QED
    BY <1>1, <2>1, <2>3, <2>4, <2>5 DEF Moves
<1> QED
  BY <1>2, <1>3, <1>4, GoesOnBehindTheCall

LEMMA FinishMetamethodGoesOn ==
    ASSUME Consistent, Consistent', Registers, FinishMetamethod
    PROVE  Registers' /\ (Calls!GoOn \/ Calls!Pass)
<1>1. /\ status = "ok" /\ mode = "running" /\ ~OnHeap(depth) /\ IsLua(depth) /\ NativeFrame(depth)
      /\ depth \in Levels
  BY FinishedIsNotSuspended, Facts DEF FinishMetamethod
<1>2. /\ Position(depth) = native[depth].at /\ native[depth].code = ci[depth].fn
      /\ Position(depth) \in 1..Len(Code[ci[depth].fn])
      /\ Code[ci[depth].fn][Position(depth)] \in {"meta"}
  BY <1>1, NativePosition DEF FinishMetamethod
<1>3. Moves(Position(depth) + 1, "none")
  <2>1. native[depth] \in NativeFunctions
    BY <1>1, Facts
  <2>2. /\ native'[depth].at = Position(depth) + 1
        /\ native'[depth].phase = "runs" /\ native'[depth] # Heap
    BY <1>1, <1>2, <2>1, Facts DEF FinishMetamethod, NativeFunctions
  <2>3. /\ \A i \in Levels : i # depth => ci'[i] = ci[i] /\ native'[i] = native[i] /\ slot'[i] = slot[i]
        /\ ci' = ci /\ slot'[depth] = "none" /\ depth' = depth /\ status' = "ok" /\ mode' = "running"
    BY <1>1, Facts DEF FinishMetamethod
  <2> QED
    BY <1>1, <2>2, <2>3 DEF Moves
<1>4. CASE native[depth].phase = "callee"
  <2>1. slot[depth] \in Values
    BY <1>1, <1>4 DEF Registers, Returned
  <2>2. After(ci[depth].fn, Position(depth), slot[depth]) = Position(depth) + 1
    BY <1>2 DEF After
  <2> QED
    BY <1>2, <1>3, <2>1, <2>2, GoesOnBehindTheCall
<1>5. CASE native[depth].phase = "runs"
  <2>1. slot[depth] = "none"
    BY <1>1, <1>5 DEF Registers, Returned
  <2> QED
    BY <1>2, <1>3, <2>1, Passes
<1> QED
  BY <1>4, <1>5 DEF FinishMetamethod, Executing

LEMMA InterruptPasses ==
    ASSUME Consistent, Consistent', Registers, InterruptReturns
    PROVE  Registers' /\ Calls!Pass
<1>1. /\ status = "ok" /\ mode = "running" /\ ~OnHeap(depth) /\ IsLua(depth) /\ NativeFrame(depth)
      /\ depth \in Levels /\ native[depth].phase = "published"
  BY ExecutingIsNotSuspended, Facts DEF InterruptReturns, Executing
<1>2. /\ Position(depth) = native[depth].at /\ native[depth].code = ci[depth].fn
      /\ Position(depth) \in 1..Len(Code[ci[depth].fn])
      /\ Code[ci[depth].fn][Position(depth)] \in {"interrupt"}
  BY <1>1, NativePosition DEF InterruptReturns
<1>3. slot[depth] = "none"
  BY <1>1 DEF Registers, Returned
<1>4. Moves(Position(depth) + 1, "none")
  <2>1. mode' = "running"
    BY <1>1, ChecksPass DEF InterruptReturns
  <2>2. ci[depth] \in CallInfos /\ native[depth] \in NativeFunctions
    BY <1>1, Facts
  <2>3. ci'[depth].fn = ci[depth].fn
    BY <1>1, <2>2, Facts DEF InterruptReturns, CallInfos
  <2>4. /\ native'[depth].at = Position(depth) + 1
        /\ native'[depth].phase = "runs" /\ native'[depth] # Heap
    BY <1>1, <1>2, <2>2, Facts DEF InterruptReturns, NativeFunctions
  <2>5. /\ \A i \in Levels : i # depth => ci'[i] = ci[i] /\ native'[i] = native[i] /\ slot'[i] = slot[i]
        /\ slot'[depth] = "none" /\ depth' = depth /\ status' = "ok"
    BY <1>1, <1>3, Facts DEF InterruptReturns
  <2> QED
    BY <1>1, <2>1, <2>3, <2>4, <2>5 DEF Moves
<1> QED
  BY <1>2, <1>3, <1>4, Passes

LEMMA CReturnsEnds ==
    ASSUME Consistent, Consistent', Registers, NEW v \in Values, CReturns(v)
    PROVE  Registers' /\ Calls!CallEnds(v)
<1>1. /\ status = "ok" /\ mode = "running" /\ ~OnHeap(depth) /\ IsLua(depth) /\ NativeFrame(depth)
      /\ depth \in Levels /\ native[depth].phase = "published" /\ AtKinds(depth, {"call", "loop"})
  BY ExecutingIsNotSuspended, Facts DEF CReturns, AtCall, Executing
<1>2. /\ Position(depth) = native[depth].at
      /\ Position(depth) \in 1..Len(Code[ci[depth].fn])
      /\ Code[ci[depth].fn][Position(depth)] \in {"call", "loop"}
  BY <1>1, NativePosition
<1>3. slot[depth] = "none"
  BY <1>1 DEF Registers, Returned
<1>4. Moves(Position(depth), v)
  <2>1. native[depth] \in NativeFunctions /\ Calling \in {"prepare", "callee"}
    BY <1>1, Facts DEF Calling
  <2>2. /\ native'[depth].at = Position(depth)
        /\ native'[depth].phase \in {"prepare", "callee"} /\ native'[depth] # Heap
    BY <1>1, <1>2, <2>1, Facts DEF CReturns, NativeFunctions
  <2>3. /\ \A i \in Levels : i # depth => ci'[i] = ci[i] /\ native'[i] = native[i] /\ slot'[i] = slot[i]
        /\ ci' = ci /\ slot'[depth] = v /\ depth' = depth /\ status' = "ok" /\ mode' = "running"
    BY <1>1, Facts DEF CReturns
  <2> QED
    BY <1>1, <2>2, <2>3 DEF Moves
<1>5. /\ Registers' /\ Activations # <<>> /\ Life = "running" /\ Life' = "running"
      /\ Calls!Top = [fn |-> ci[depth].fn, at |-> Position(depth), slot |-> "none"]
      /\ Activations' = Append(Calls!Without(1), [fn |-> ci[depth].fn, at |-> Position(depth), slot |-> v])
  BY <1>3, <1>4, MovedStack
<1> DEFINE f == ci[depth].fn
           at == Position(depth)
<1>6. f \in Protos /\ at \in DOMAIN Code[f] /\ Code[f][at] \in {"call", "loop"}
  BY <1>1, <1>2 DEF IsLua
<1> HIDE DEF f, at
<1>7. Calls!Given(Calls!Top, v) = [fn |-> f, at |-> at, slot |-> v]
  BY <1>5 DEF Calls!Given, f, at
<1>8. Calls!AtSite(Calls!Top, {"call", "loop"}) /\ Calls!Top.slot = "none"
  BY <1>5, <1>6 DEF Calls!AtSite, f, at
<1> QED
  BY <1>5, <1>7, <1>8 DEF Calls!CallEnds, f, at

(***************************************************************************)
(* Steps of the frames alone.                                              *)
(***************************************************************************)
LEMMA FramesStay ==
    ASSUME Consistent, Consistent', Registers, mode # "dead", mode' # "dead",
           UNCHANGED <<ci, depth, slot, native>>,
           status' \in {"ok", status}
    PROVE  Registers' /\ Activations' = Activations
<1>1. Undisturbed(depth + 1)
  BY FramesBelowAreKept
<1>2. Registers'
  BY DEF Registers, Returned, IsLua, OnHeap
<1> QED
  BY <1>1, <1>2, NothingChanges

LEMMA StaysTheSame ==
    ASSUME Consistent, Consistent', Registers,
           PreparedYielded \/ Raises \/ RunScheduled
    PROVE  Registers' /\ UNCHANGED <<Activations, Life>>
<1>1. /\ UNCHANGED <<ci, depth, slot, native>> /\ mode # "dead" /\ mode' # "dead"
      /\ status' \in {"ok", status} /\ (status = "yield" <=> status' = "yield")
  BY DEF PreparedYielded, Raises, RunScheduled, Executing, LoopRuns
<1> QED
  BY <1>1, FramesStay DEF Life

LEMMA InterruptSuspends ==
    ASSUME Consistent, Consistent', Registers, InterruptYields
    PROVE  Registers' /\ Calls!SuspendAtInterrupt
<1>1. /\ status = "ok" /\ mode = "running" /\ ~OnHeap(depth) /\ IsLua(depth) /\ NativeFrame(depth)
      /\ depth \in Levels /\ native[depth].phase = "published" /\ AtKinds(depth, {"interrupt"})
  BY ExecutingIsNotSuspended, Facts DEF InterruptYields, Executing
<1>2. /\ UNCHANGED <<ci, depth, slot, native>> /\ status' = "yield" /\ mode' = "returning"
  BY DEF InterruptYields
<1>3. Activations' = Activations
  <2>1. Undisturbed(depth + 1)
    BY <1>2, FramesBelowAreKept
  <2> QED
    BY <1>1, <1>2, <2>1, NothingChanges
<1>4. /\ Position(depth) = native[depth].at
      /\ Position(depth) \in 1..Len(Code[ci[depth].fn])
      /\ Code[ci[depth].fn][Position(depth)] = "interrupt"
      /\ ci[depth].aotstate = native[depth].at
  BY <1>1, NativePosition DEF NativeFrame
<1>5. Registers'
  <2>1. ci[depth].aotstate # 0 /\ Code[ci[depth].fn][ci[depth].aotstate] = "interrupt"
    BY <1>1, <1>4
  <2> QED
    BY <1>1, <1>2, <2>1 DEF Registers, Returned, IsLua, OnHeap
<1>6. Activations # <<>> /\ Calls!AtSite(Calls!Top, {"interrupt"})
  <2>1. Activations # <<>> /\ Calls!Top = Activation(depth)
    BY <1>1, <1>2, StacksBothWays
  <2>2. /\ Activation(depth).fn = ci[depth].fn /\ Activation(depth).at = Position(depth)
        /\ Position(depth) \in DOMAIN Code[ci[depth].fn] /\ ci[depth].fn \in Protos
    BY <1>1, <1>4 DEF Activation, IsLua
  <2> QED
    BY <1>4, <2>1, <2>2 DEF Calls!AtSite
<1>7. Life = "running" /\ Life' = "suspended"
  BY <1>1, <1>2 DEF Life
<1> QED
  BY <1>3, <1>5, <1>6, <1>7 DEF Calls!SuspendAtInterrupt

LEMMA InterruptResumes ==
    ASSUME Consistent, Consistent', Registers, ResumeInterrupt
    PROVE  Registers' /\ Calls!ResumeAtInterrupt
<1>1. /\ mode = "running" /\ OnHeap(depth) /\ IsLua(depth) /\ HeapFrame(depth) /\ depth \in Levels
      /\ status = "yield" /\ status' = "ok" /\ UNCHANGED <<ci, depth, slot, native, mode>>
  BY LoopFacts, Facts DEF ResumeInterrupt
<1>2. Registers' /\ Activations' = Activations
  BY <1>1, FramesStay
<1>3. /\ ci[depth].fn \in Protos
      /\ Position(depth) \in DOMAIN Code[ci[depth].fn]
      /\ Code[ci[depth].fn][Position(depth)] = "interrupt"
  <2>1. /\ ci[depth].fn \in Protos /\ ci[depth].aotstate # 0
        /\ Code[ci[depth].fn][ci[depth].aotstate] = "interrupt"
    BY <1>1 DEF Registers, IsLua
  <2>2. ci[depth].aotstate \in 1..Len(Code[ci[depth].fn])
    BY <1>1, <2>1 DEF HeapFrame, KnownContinuation
  <2>3. Position(depth) = ci[depth].aotstate
    BY <1>1, <2>1 DEF Position
  <2> QED
    BY <2>1, <2>2, <2>3
<1>4. Activations # <<>> /\ Calls!AtSite(Calls!Top, {"interrupt"})
  <2>1. Activations # <<>> /\ Calls!Top = Activation(depth)
    BY <1>1, StacksBothWays
  <2>2. Activation(depth).fn = ci[depth].fn /\ Activation(depth).at = Position(depth)
    BY DEF Activation
  <2> QED
    BY <1>3, <2>1, <2>2 DEF Calls!AtSite
<1>5. Life = "suspended" /\ Life' = "running"
  BY <1>1 DEF Life
<1> QED
  BY <1>2, <1>4, <1>5 DEF Calls!ResumeAtInterrupt

LEMMA PublishingStays ==
    ASSUME Consistent, Consistent', Registers, PublishContinuation
    PROVE  Registers' /\ UNCHANGED <<Activations, Life>>
<1>1. /\ status = "ok" /\ mode = "running" /\ ~OnHeap(depth) /\ IsLua(depth) /\ NativeFrame(depth)
      /\ depth \in Levels /\ native[depth].phase = "runs"
  BY ExecutingIsNotSuspended, Facts DEF PublishContinuation, Executing
<1>2. /\ depth' = depth /\ slot' = slot /\ status' = "ok" /\ mode' = "running"
      /\ \A i \in Levels : i # depth => ci'[i] = ci[i] /\ native'[i] = native[i]
  <2>1. mode' = mode
    BY ChecksPass DEF PublishContinuation
  <2> QED
    BY <1>1, <2>1, Facts DEF PublishContinuation
<1>3. /\ ci'[depth].fn = ci[depth].fn /\ native'[depth].at = native[depth].at
      /\ native'[depth].phase = "published" /\ native'[depth] # Heap
  <2>1. ci[depth] \in CallInfos /\ native[depth] \in NativeFunctions
    BY <1>1, Facts
  <2> QED
    BY <1>1, <2>1, Facts DEF PublishContinuation, CallInfos, NativeFunctions
<1>4. Undisturbed(depth + 1)
  <2>1. ASSUME NEW i \in Levels PROVE Activation(i)' = Activation(i)
    <3>1. CASE i = depth
      BY <1>1, <1>2, <1>3, <3>1 DEF Activation, Position, IsLua, OnHeap
    <3>2. CASE i # depth
      BY <1>2, <3>2 DEF Activation, Position, IsLua, OnHeap
    <3> QED
      BY <3>1, <3>2
  <2> QED
    BY <2>1 DEF Undisturbed
<1>5. Registers'
  BY <1>1, <1>2, <1>3 DEF Registers, Returned, IsLua, OnHeap
<1> QED
  BY <1>1, <1>2, <1>4, <1>5, NothingChanges DEF Life

LEMMA EnterFrameGoesOn ==
    ASSUME Consistent, Consistent', Registers, EnterFrame
    PROVE  Registers' /\ (Calls!GoOn \/ UNCHANGED <<Activations, Life>>)
<1> DEFINE f == ci[depth].fn
           id == ci[depth].aotstate
           at == Dispatch(f, id, slot[depth])
<1>1. /\ status = "ok" /\ mode = "running" /\ OnHeap(depth) /\ IsLua(depth) /\ HeapFrame(depth)
      /\ depth \in Levels /\ f \in Protos /\ id \in Nat /\ KnownContinuation(f, id)
  BY LoopFacts, Facts DEF EnterFrame, HeapFrame, IsLua, CallInfos
<1>2. Moves(at, "none")
  <2>1. mode' = "running"
    BY <1>1, ChecksPass DEF EnterFrame
  <2>2. ci'[depth].fn = f
    <3>1. ci[depth] \in CallInfos /\ ci'[depth] = [[ci[depth] EXCEPT !.aotstate = 0] EXCEPT !.opyield = FALSE]
      BY <1>1, Facts DEF EnterFrame, Taken
    <3> QED
      BY <3>1 DEF CallInfos
  <2>3. native'[depth].at = at /\ native'[depth].phase = "runs" /\ native'[depth] # Heap
    BY <1>1, Facts DEF EnterFrame, Prologue
  <2>4. /\ \A i \in Levels : i # depth => ci'[i] = ci[i] /\ native'[i] = native[i] /\ slot'[i] = slot[i]
        /\ slot'[depth] = "none" /\ depth' = depth /\ status' = "ok"
    BY <1>1, Facts DEF EnterFrame
  <2> QED
    BY <1>1, <2>1, <2>2, <2>3, <2>4 DEF Moves
<1>3. CASE id # 0 /\ Code[f][id] \in {"call", "loop"}
  <2>1. Position(depth) = id /\ id \in 1..Len(Code[f])
    BY <1>1, <1>3 DEF Position, KnownContinuation
  <2>2. slot[depth] \in Values
    BY <1>1, <1>3 DEF Registers, Returned
  <2>3. at = After(f, Position(depth), slot[depth])
    BY <1>3, <2>1 DEF Dispatch
  <2> QED
    BY <1>2, <1>3, <2>1, <2>2, <2>3, GoesOnBehindTheCall
<1>4. CASE ~(id # 0 /\ Code[f][id] \in {"call", "loop"})
  <2>1. id = 0 \/ Code[f][id] = "interrupt"
    <3>1. ASSUME id # 0 PROVE Code[f][id] = "interrupt"
      <4>1. id \in 1..Len(Code[f]) /\ Code[f][id] # "meta"
        BY <1>1, <3>1 DEF KnownContinuation
      <4>2. Code[f][id] \in Kinds
        <5>1. Code[f] \in Seq(Kinds)
          BY <1>1
        <5> HIDE DEF f, id
        <5> QED
          BY <4>1, <5>1, ElementOfSeq
      <4> QED
        BY <1>4, <3>1, <4>1, <4>2
    <3> QED
      BY <3>1
  <2>2. at = Position(depth)
    BY <1>1, <2>1 DEF Dispatch, Position
  <2>3. slot[depth] = "none"
    BY <1>1, <1>4 DEF Registers, Returned
  <2>4. Undisturbed(depth + 1)
    <3>1. ASSUME NEW i \in Levels PROVE Activation(i)' = Activation(i)
      <4>1. CASE i = depth
        BY <1>1, <1>2, <2>2, <2>3, <4>1 DEF Moves, Activation, Position, IsLua, OnHeap
      <4>2. CASE i # depth
        BY <1>2, <4>2 DEF Moves, Activation, Position, IsLua, OnHeap
      <4> QED
        BY <4>1, <4>2
    <3> QED
      BY <3>1 DEF Undisturbed
  <2>5. Registers' /\ Life' = Life
    BY <1>2, MovedStack
  <2>6. mode # "dead" /\ mode' # "dead" /\ depth' = depth
    BY <1>2 DEF Moves
  <2> QED
    BY <2>4, <2>5, <2>6, NothingChanges
<1> QED
  BY <1>3, <1>4

LEMMA PreparedEntryStays ==
    ASSUME Consistent, Consistent', Registers, CallPreparedEntry
    PROVE  Registers' /\ UNCHANGED <<Activations, Life>>
<1>1. PICK i \in Levels :
        /\ Executing(i, "prepare")
        /\ prepared.status = "prepared"
        /\ ci' = [ci EXCEPT ![depth] = Taken(@)]
        /\ native' = [native EXCEPT
                        ![i].phase = "callee",
                        ![depth] = Prologue(ci[depth], prepared.entry, slot[depth])]
        /\ Checked(KnownContinuation(prepared.entry, ci[depth].aotstate), mode)
        /\ UNCHANGED <<depth, slot, status, prepared>>
  BY DEF CallPreparedEntry
<1>2. /\ i \in 1..depth /\ i \in Nat /\ depth \in Nat /\ depth \in Levels /\ mode = "running"
      /\ ~OnHeap(i) /\ native[i].phase = "prepare" /\ LastNative(i) /\ OnHeap(i + 1)
      /\ status = "ok" /\ i = depth - 1 /\ ci[depth].aotstate = 0
      /\ prepared.entry = ci[depth].fn /\ IsLua(depth)
  <2>1. /\ i \in 1..depth /\ i \in Nat /\ depth \in Nat /\ depth \in Levels /\ mode = "running"
        /\ ~OnHeap(i) /\ native[i].phase = "prepare"
        /\ \A j \in (i + 1)..depth : OnHeap(j)
    BY <1>1, Facts DEF Executing, Innermost
  <2>2. LastNative(i)
    BY <2>1 DEF LastNative
  <2>3. /\ status = "ok" /\ i = depth - 1 /\ ci[depth].aotstate = 0
        /\ prepared.entry = ci[depth].fn /\ IsLua(depth)
    BY <1>1, <2>1, <2>2 DEF Consistent, InnermostRuns
  <2> QED
    BY <2>1, <2>2, <2>3
<1>3. OnHeap(depth) /\ slot[depth] = "none"
  <2>1. OnHeap(depth)
    BY <1>2
  <2> QED
    BY <1>2, <2>1 DEF Registers, Returned
<1>4. /\ depth' = depth /\ slot' = slot /\ status' = "ok" /\ mode' = "running"
      /\ \A j \in Levels : j # depth => ci'[j] = ci[j] /\ ci'[depth].fn = ci[depth].fn
  <2>1. mode' = mode
    BY <1>1, ChecksPass
  <2>2. ci[depth] \in CallInfos
    BY <1>2, Facts
  <2> QED
    BY <1>1, <1>2, <2>1, <2>2, Facts DEF Taken, CallInfos
<1>5. /\ native'[i] # Heap /\ native'[i].at = native[i].at
      /\ native'[depth] # Heap /\ native'[depth].at = 1 /\ native'[depth].phase = "runs"
      /\ \A j \in Levels : j # i /\ j # depth => native'[j] = native[j]
  <2>1. native[i] \in NativeFunctions /\ i # depth
    BY <1>2, Facts
  <2>2. native'[i] = [native[i] EXCEPT !.phase = "callee"]
    BY <1>1, <2>1, Facts
  <2>3. native'[depth].at = 1 /\ native'[depth].phase = "runs" /\ native'[depth] # Heap
    <3>1. native'[depth] = Prologue(ci[depth], prepared.entry, slot[depth])
      BY <1>1, <1>2, Facts
    <3>2. native'[depth].at = 1 /\ native'[depth].phase = "runs"
      BY <1>2, <3>1 DEF Prologue, Dispatch
    <3> QED
      BY <3>2
  <2>4. \A j \in Levels : j # i /\ j # depth => native'[j] = native[j]
    BY <1>1, Facts
  <2>5. native'[i].phase = "callee" /\ native'[i].at = native[i].at
    BY <2>1, <2>2 DEF NativeFunctions
  <2> QED
    BY <2>3, <2>4, <2>5
<1>6. Undisturbed(depth + 1)
  <2>1. ASSUME NEW j \in Levels PROVE Activation(j)' = Activation(j)
    <3>1. CASE j = depth
      BY <1>2, <1>3, <1>4, <1>5, <3>1 DEF Activation, Position, IsLua, OnHeap
    <3>2. CASE j = i
      BY <1>2, <1>4, <1>5, <3>2 DEF Activation, Position, IsLua, OnHeap
    <3>3. CASE j # i /\ j # depth
      BY <1>4, <1>5, <3>3 DEF Activation, Position, IsLua, OnHeap
    <3> QED
      BY <3>1, <3>2, <3>3
  <2> QED
    BY <2>1 DEF Undisturbed
<1>7. Registers'
  BY <1>2, <1>3, <1>4, <1>5 DEF Registers, Returned, IsLua, OnHeap
<1> QED
  BY <1>2, <1>4, <1>6, <1>7, NothingChanges DEF Life

LEMMA ReturnYieldedStays ==
    ASSUME Consistent, Consistent', Registers, ReturnYielded
    PROVE  Registers' /\ UNCHANGED <<Activations, Life>>
<1>1. PICK i \in Levels :
        /\ mode = "returning" /\ Innermost(i)
        /\ native' = [native EXCEPT ![i] = Heap]
        /\ ci' = [ci EXCEPT ![i].opyield = @ \/ InIterator(i)]
        /\ mode' \in {"running", "returning", "raising"}
        /\ UNCHANGED <<depth, slot, status, prepared>>
  BY DEF ReturnYielded, Checked
<1>2. /\ i \in Nat /\ i <= depth /\ depth \in Levels /\ depth \in Nat /\ ~OnHeap(i) /\ status # "ok"
      /\ NativeFrame(i) /\ IsLua(i) /\ ~AtKinds(i, {"meta"})
      /\ \/ native[i].phase \in {"prepare", "callee"}
         \/ i = depth /\ AtKinds(i, {"interrupt"})
  <2>1. i \in Nat /\ i <= depth /\ depth \in Levels /\ depth \in Nat /\ ~OnHeap(i) /\ status # "ok"
    BY <1>1, Facts DEF Innermost, Consistent, Modes
  <2> QED
    BY <1>1, <2>1 DEF Consistent, FrameOK, SuspendedStack
<1>3. /\ ci[i].aotstate = native[i].at /\ ci[i].aotstate # 0
      /\ \/ native[i].phase \in {"prepare", "callee"} /\ AtKinds(i, {"call", "loop"})
         \/ i = depth /\ native[i].phase = "published" /\ AtKinds(i, {"interrupt"})
  <2>1. CASE native[i].phase \in {"prepare", "callee"}
    BY <1>2, <2>1 DEF NativeFrame, AtKinds
  <2>2. CASE i = depth /\ AtKinds(i, {"interrupt"}) /\ native[i].phase \notin {"prepare", "callee"}
    <3>1. status = "yield" /\ ci[depth].aotstate # 0
      <4>1. status \in {"yield", "scheduled"} /\ ci[depth].fn # "plain"
        BY <1>2, <2>2 DEF Consistent, TypeOK, IsLua
      <4> QED
        BY <1>1, <1>2, <2>2, <4>1 DEF Registers
    <3>2. native[i].phase \in {"none", "runs", "published", "prepare", "callee"}
      BY Facts DEF NativeFunctions
    <3> QED
      BY <1>2, <2>2, <3>1, <3>2 DEF NativeFrame
  <2> QED
    BY <1>2, <2>1, <2>2
<1>4. /\ ci'[i].fn = ci[i].fn /\ ci'[i].aotstate = ci[i].aotstate /\ native'[i] = Heap
      /\ \A j \in Levels : j # i => ci'[j] = ci[j] /\ native'[j] = native[j]
  <2>1. ci[i] \in CallInfos /\ \A j \in Levels : j # i => ci'[j] = ci[j] /\ native'[j] = native[j]
    BY <1>1, Facts
  <2>2. ci'[i] = [ci[i] EXCEPT !.opyield = ci[i].opyield \/ InIterator(i)] /\ native'[i] = Heap
    BY <1>1, Facts
  <2>3. ci'[i].fn = ci[i].fn /\ ci'[i].aotstate = ci[i].aotstate
    BY <2>1, <2>2 DEF CallInfos
  <2> QED
    BY <2>1, <2>2, <2>3
<1>5. Undisturbed(depth + 1)
  <2>1. ASSUME NEW j \in Levels PROVE Activation(j)' = Activation(j)
    <3>1. CASE j = i
      BY <1>1, <1>2, <1>3, <1>4, <3>1 DEF Activation, Position, IsLua, OnHeap
    <3>2. CASE j # i
      BY <1>1, <1>4, <3>2 DEF Activation, Position, IsLua, OnHeap
    <3> QED
      BY <3>1, <3>2
  <2> QED
    BY <2>1 DEF Undisturbed
<1>6. Registers'
  <2>1. \A j \in Levels : j < depth' => slot'[j] = "pending"
    BY <1>1 DEF Registers
  <2>2. /\ ci'[depth].fn = ci[depth].fn /\ ci'[depth].aotstate = ci[depth].aotstate
        /\ OnHeap(depth) => native'[depth] = Heap
    BY <1>2, <1>4 DEF OnHeap
  <2>3. Returned' <=> Returned
    <3>1. CASE i = depth
      <4>1. Returned <=> Code[ci[depth].fn][ci[depth].aotstate] \in {"call", "loop"}
        BY <1>2, <1>3, <3>1 DEF Returned, AtKinds, NativeFrame
      <4>2. Returned' <=> Code[ci[depth].fn][ci[depth].aotstate] \in {"call", "loop"}
        BY <1>1, <1>3, <1>4, <2>2, <3>1 DEF Returned, OnHeap
      <4> QED
        BY <4>1, <4>2
    <3>2. CASE i # depth
      BY <1>1, <1>2, <1>4, <3>2 DEF Returned, OnHeap
    <3> QED
      BY <3>1, <3>2
  <2>4. IsLua(depth)' <=> IsLua(depth)
    BY <1>1, <2>2 DEF IsLua
  <2>5. status = "scheduled" => OnHeap(depth)'
    BY <1>1, <2>2 DEF Registers, OnHeap
  <2>6. IsLua(depth)' => slot'[depth'] \in IF Returned' THEN Values ELSE {"none"}
    <3>1. IsLua(depth) => slot[depth] \in IF Returned THEN Values ELSE {"none"}
      BY <1>1 DEF Registers
    <3>2. slot'[depth'] = slot[depth]
      BY <1>1
    <3> QED
      BY <2>3, <2>4, <3>1, <3>2
  <2>7. status' = "yield" => \/ ci'[depth'].fn = "plain"
                             \/ /\ IsLua(depth)' /\ ci'[depth'].aotstate # 0
                                /\ Code[ci'[depth'].fn][ci'[depth'].aotstate] = "interrupt"
    BY <1>1, <2>2, <2>4 DEF Registers
  <2> QED
    BY <1>1, <2>1, <2>5, <2>6, <2>7 DEF Registers
<1> QED
  BY <1>1, <1>5, <1>6, NothingChanges DEF Life

(***************************************************************************)
(* Steps that end activations.                                             *)
(***************************************************************************)
LEMMA LeavingEnds ==
    ASSUME Consistent, Consistent', Registers, NEW v \in Values, Leaves(v), mode = "running",
           status = "yield" => ci[depth].fn = "plain",
           IsLua(depth) => Position(depth) = Len(Code[ci[depth].fn]) + 1 /\ slot[depth] = "none"
    PROVE  Registers' /\ Calls!End(v)
<1> DEFINE d == depth - 1
           f == ci[d].fn
           at == Position(d)
<1>1. /\ depth \in Levels /\ depth \in Nat /\ depth > 1 /\ d \in Levels /\ d \in Nat
      /\ d < depth /\ d + 1 = depth /\ depth' = d
      /\ \A i \in Levels : i < d => i < depth /\ i # d /\ i # depth
      /\ \A i \in Levels : i < depth => i # depth
      /\ ci' = ci /\ status' = "ok" /\ mode' = "running"
      /\ ~OnHeap(depth) \/ (\A i \in Levels : OnHeap(i))
  BY Facts DEF Leaves, luau_poscall
<1>2. /\ slot' = [slot EXCEPT ![d] = v, ![depth] = "none"]
      /\ native' = [native EXCEPT ![depth] = Heap]
  BY DEF Leaves, luau_poscall
<1> HIDE DEF d
<1>3. /\ slot'[d] = v /\ \A i \in Levels : i < d => slot'[i] = slot[i]
      /\ \A i \in Levels : i < depth => native'[i] = native[i]
  <2>1. slot'[d] = v /\ \A i \in Levels : i # d /\ i # depth => slot'[i] = slot[i]
    BY <1>1, <1>2, Facts
  <2>2. \A i \in Levels : i # depth => native'[i] = native[i]
    BY <1>1, <1>2, Facts
  <2> QED
    BY <1>1, <2>1, <2>2
<1>4. Undisturbed(d)
  <2>1. \A i \in Levels : i < d => /\ ci'[i] = ci[i] /\ native'[i] = native[i]
                                   /\ slot'[i] = slot[i]
    BY <1>1, <1>3
  <2> QED
    BY <2>1, FramesBelowAreKept
<1>5. Activation(depth)' = [fn |-> f, at |-> at, slot |-> v]
  <2>1. depth' = d /\ ci'[d] = ci[d] /\ native'[d] = native[d] /\ slot'[d] = v
    BY <1>1, <1>3
  <2> QED
    BY <2>1 DEF Activation, Position, IsLua, OnHeap
<1>6. Calls!Below = [fn |-> f, at |-> at, slot |-> "pending"]
  <2>1. Calls!Below = Activation(depth - 1)
    BY <1>1, <1>4, TopEnds DEF d
  <2>2. slot[d] = "pending"
    BY <1>1 DEF Registers
  <2> QED
    BY <2>1, <2>2 DEF Activation, d
<1>7. Activations' = Append(Calls!Without(2), [fn |-> f, at |-> at, slot |-> v])
  BY <1>1, <1>4, <1>5, TopEnds DEF d
<1>8. /\ Calls!Top = Activation(depth) /\ Len(Activations) > 1
      /\ Activation(depth).fn = ci[depth].fn /\ Activation(depth).at = Position(depth)
      /\ Activation(depth).slot = slot[depth]
  BY <1>1, StacksBothWays DEF Activation
<1>9. /\ Life = "running" \/ (Life = "suspended" /\ Calls!Top.fn = "plain")
      /\ Life' = "running"
      /\ Calls!Top.fn \in Protos =>
           Calls!Top.at = Len(Code[Calls!Top.fn]) + 1 /\ Calls!Top.slot = "none"
  BY <1>1, <1>8 DEF Life, IsLua
<1>10. Registers'
  <2>1. \A i \in Levels : i < depth' => slot'[i] = "pending"
    BY <1>1, <1>3 DEF Registers
  <2>2. ASSUME IsLua(depth)' PROVE Returned'
    <3>1. ci[d].fn \in Protos /\ native'[d] = native[d]
      <4>1. depth' = d /\ ci'[d] = ci[d] /\ native'[d] = native[d]
        BY <1>1, <1>3
      <4> QED
        BY <2>2, <4>1 DEF IsLua
    <3>2. CASE OnHeap(d)
      <4>1. HeapFrame(d)
        BY <1>1, <3>2 DEF Consistent, FrameOK
      <4> QED
        BY <1>1, <3>1, <3>2, <4>1 DEF HeapFrame, IsLua, Returned, OnHeap
    <3>3. CASE ~OnHeap(d)
      <4>1. ~OnHeap(depth)
        BY <1>1, <3>3
      <4>2. native[d].phase \in {"prepare", "callee"}
        BY <1>1, <3>3, <4>1 DEF Consistent, Waits
      <4> QED
        BY <1>1, <3>1, <3>3, <4>2 DEF Returned, OnHeap
    <3> QED
      BY <3>2, <3>3
  <2>3. slot'[depth'] \in Values
    BY <1>1, <1>3
  <2> QED
    BY <1>1, <2>1, <2>2, <2>3 DEF Registers
<1> HIDE DEF f, at
<1>11. Calls!Given(Calls!Below, v) = [fn |-> f, at |-> at, slot |-> v] /\ Calls!Below.slot = "pending"
  BY <1>6 DEF Calls!Given
<1> QED
  BY <1>7, <1>8, <1>9, <1>10, <1>11 DEF Calls!End

LEMMA ReturnsEnd ==
    ASSUME Consistent, Consistent', Registers, NEW v \in Values,
           Return(v) \/ CFunctionReturns(v) \/ Resume(v) \/ RunContinuation(v)
    PROVE  Registers' /\ Calls!End(v)
<1>1. CASE Return(v)
  <2>1. /\ status = "ok" /\ mode = "running" /\ ~OnHeap(depth) /\ IsLua(depth) /\ NativeFrame(depth)
        /\ native[depth].phase = "runs" /\ native[depth].at = Len(Code[ci[depth].fn]) + 1
    BY <1>1, ExecutingIsNotSuspended DEF Return, AtEnd, Executing, NativeFrame
  <2>2. Position(depth) = Len(Code[ci[depth].fn]) + 1 /\ slot[depth] = "none"
    BY <2>1 DEF Position, Registers, Returned
  <2> QED
    BY <1>1, <2>1, <2>2, ReturnLeaves, LeavingEnds
<1>2. CASE CFunctionReturns(v)
  <2>1. depth \in Levels /\ ~OnHeap(depth)
    BY <1>2, Facts DEF CFunctionReturns, OnHeap
  <2>2. NativeFrame(depth)
    BY <2>1, Facts DEF Consistent, FrameOK
  <2>3. mode = "running" /\ ~IsLua(depth) /\ native[depth].phase = "callee"
    BY <1>2, <2>2 DEF CFunctionReturns, NativeFrame, IsLua
  <2>4. status = "ok"
    BY <2>1, <2>3, Facts DEF Consistent, InnermostRuns, LastNative
  <2> QED
    BY <1>2, <2>3, <2>4, CFunctionReturnsLeaves, LeavingEnds
<1>3. CASE Resume(v)
  <2>1. mode = "running" /\ status = "yield" /\ ~IsLua(depth)
    BY <1>3 DEF Resume, LoopRuns
  <2>2. ci[depth].fn = "plain"
    BY <2>1 DEF Registers
  <2> QED
    BY <1>3, <2>1, <2>2, ResumeLeaves, LeavingEnds
<1>4. CASE RunContinuation(v)
  <2>1. mode = "running" /\ status = "ok" /\ ~IsLua(depth)
    BY <1>4 DEF RunContinuation, LoopRuns
  <2> QED
    BY <1>4, <2>1, RunContinuationLeaves, LeavingEnds
<1> QED
  BY <1>1, <1>2, <1>3, <1>4

LEMMA CoroutineEnds ==
    ASSUME Consistent, Registers, ReturnToHost
    PROVE  Registers' /\ Calls!EndOfCoroutine
<1>1. /\ status = "ok" /\ mode = "running" /\ ~OnHeap(depth) /\ IsLua(depth) /\ NativeFrame(depth)
      /\ native[depth].phase = "runs" /\ native[depth].at = Len(Code[ci[depth].fn]) + 1
      /\ depth = 1 /\ mode' = "dead"
  BY ExecutingIsNotSuspended DEF ReturnToHost, AtEnd, Executing, NativeFrame
<1>2. Position(depth) = Len(Code[ci[depth].fn]) + 1 /\ slot[depth] = "none"
  BY <1>1 DEF Position, Registers, Returned
<1>3. Len(Activations) = 1 /\ Activations[1] = Activation(depth)
  <2>1. StackIs
    BY <1>1, Stack DEF Consistent
  <2> QED
    BY <1>1, <2>1 DEF StackIs
<1>4. /\ Calls!Top.at = Len(Code[Calls!Top.fn]) + 1 /\ Calls!Top.slot = "none"
  <2>1. Calls!Top = Activation(depth)
    BY <1>3 DEF Calls!Top
  <2>2. /\ Activation(depth).fn = ci[depth].fn /\ Activation(depth).at = Position(depth)
        /\ Activation(depth).slot = slot[depth]
    BY DEF Activation
  <2> QED
    BY <1>2, <2>1, <2>2
<1>5. Activations' = <<>> /\ Life = "running" /\ Life' = "dead" /\ Registers'
  BY <1>1 DEF Activations, Life, Registers
<1> QED
  BY <1>3, <1>4, <1>5 DEF Calls!EndOfCoroutine

LEMMA CatchingCuts ==
    ASSUME Consistent, Consistent', Registers, NEW h \in Levels, Cut(h), mode = "raising"
    PROVE  Registers' /\ Calls!Catch
<1>1. /\ h \in 1..depth /\ depth' = h /\ ci' = ci /\ h \in Nat /\ depth \in Nat
      /\ mode # "dead" /\ mode' # "dead" /\ status = "ok" /\ status' = "ok"
      /\ ci[h].fn = "pcall" /\ \A i \in (h + 1)..depth : ci[i].fn # "pcall"
      /\ \A i \in Levels : i <= h => native'[i] = native[i] /\ slot'[i] = slot[i]
  BY Facts DEF Cut
<1>2. Undisturbed(h + 1)
  <2>1. \A i \in Levels : i < h + 1 => ci'[i] = ci[i] /\ native'[i] = native[i] /\ slot'[i] = slot[i]
    BY <1>1
  <2> QED
    BY <2>1, FramesBelowAreKept
<1>3. Activations' = SubSeq(Activations, 1, h)
  BY <1>1, <1>2, StackIsCut
<1>4. /\ Len(Activations) = depth
      /\ \A i \in 1..depth : Activations[i].fn = ci[i].fn
  <2>1. \A i \in 1..depth : Activation(i).fn = ci[i].fn
    BY DEF Activation
  <2> QED
    BY <1>1, <2>1, StacksBothWays
<1>5. /\ h \in 1..Len(Activations) /\ Activations[h].fn = "pcall"
      /\ \A i \in (h + 1)..Len(Activations) : Activations[i].fn # "pcall"
  <2>1. \A i \in (h + 1)..Len(Activations) : i \in 1..depth
    BY <1>1, <1>4
  <2> QED
    BY <1>1, <1>4, <2>1
<1>6. Registers'
  BY <1>1 DEF Registers, IsLua
<1>7. Life = "running" /\ Life' = Life
  BY <1>1 DEF Life
<1> QED
  BY <1>3, <1>5, <1>6, <1>7 DEF Calls!Catch

LEMMA UncaughtFails ==
    ASSUME Consistent, Registers, Uncaught
    PROVE  Registers' /\ Calls!Fail
<1>1. mode = "raising" /\ mode' = "dead" /\ status = "ok" /\ \A i \in 1..depth : ci[i].fn # "pcall"
  BY DEF Uncaught, Pcalls, Consistent, Modes
<1>2. \A i \in 1..Len(Activations) : Activations[i].fn # "pcall"
  <2>1. StackIs
    BY <1>1, Stack DEF Consistent
  <2>2. \A i \in 1..depth : Activation(i).fn = ci[i].fn
    BY DEF Activation
  <2> QED
    BY <1>1, <2>1, <2>2 DEF StackIs
<1>3. Activations' = <<>> /\ Life = "running" /\ Life' = "dead" /\ Registers'
  BY <1>1 DEF Activations, Life, Registers
<1> QED
  BY <1>2, <1>3 DEF Calls!Fail

(***************************************************************************)
(* Steps that call.                                                        *)
(***************************************************************************)

(* fns are called in turn, the last on the wasm stack or on the heap.      *)
Pushes(fns) ==
    /\ status = "ok" /\ mode = "running" /\ mode' # "dead"
    /\ Len(fns) \in 1..3 /\ Installs(fns) /\ Push(fns)
    /\ ~OnHeap(depth)
    /\ \/ /\ IsLua(depth) /\ NativeFrame(depth) /\ native[depth].phase \in {"runs", "published"}
          /\ AtKinds(depth, {"call", "loop", "meta"})
       \/ ci[depth].fn = "plain"
    /\ native'[depth] # Heap /\ native'[depth].at = native[depth].at
    /\ \A i \in Levels : i < depth => native'[i] = native[i]
    /\ \A i \in Levels : i <= depth => ci'[i] = ci[i]
    /\ \A k \in 1..Len(fns) : /\ ci'[depth + k] = NewFrame(fns[k])
                              /\ native'[depth + k] = Heap \/ native'[depth + k].at = 1
    /\ native'[depth + Len(fns)] = Heap \/ native'[depth + Len(fns)].phase = "runs"
    /\ \/ status' = "ok"
       \/ status' = "scheduled" /\ native'[depth + Len(fns)] = Heap
       \/ status' = "yield" /\ fns[Len(fns)] = "plain"

LEMMA CallingCalls ==
    ASSUME Consistent, Consistent', Registers, NEW fns, Pushes(fns)
    PROVE  Registers' /\ Calls!Call(fns)
<1> DEFINE n == Len(fns)
           f == ci[depth].fn
           at == Position(depth)
           New(k) == [fn |-> fns[k], at |-> IF fns[k] \in Protos THEN 1 ELSE 0,
                      slot |-> IF k = n THEN "none" ELSE "pending"]
<1>1. /\ depth \in Levels /\ depth \in Nat /\ n \in 1..3 /\ n \in Nat /\ depth' = depth + n
      /\ depth' \in Levels /\ mode # "dead" /\ mode' # "dead"
  BY Facts DEF Pushes, Installs, Push
<1>2. \A i \in Levels : /\ i < depth => slot'[i] = slot[i]
                        /\ depth <= i /\ i < depth' => slot'[i] = "pending"
                        /\ i = depth' => slot'[i] = "none"
  BY <1>1 DEF Pushes, Push
<1> HIDE DEF n
<1>3. Undisturbed(depth)
  <2>1. \A i \in Levels : i < depth => ci'[i] = ci[i] /\ native'[i] = native[i] /\ slot'[i] = slot[i]
    BY <1>1, <1>2 DEF Pushes
  <2> QED
    BY <2>1, FramesBelowAreKept
<1>4. Activations'[depth] = [fn |-> f, at |-> at, slot |-> "pending"]
  <2>1. \A i \in Levels : i = depth => Activation(i)' = [fn |-> f, at |-> at, slot |-> "pending"]
    BY <1>1, <1>2 DEF Pushes, Activation, Position, IsLua, OnHeap
  <2>2. depth \in 1..depth'
    BY <1>1
  <2>3. \A i \in 1..depth' : i \in Levels /\ Activations'[i] = Activation(i)'
    BY <1>1, StacksBothWays
  <2> QED
    BY <2>1, <2>2, <2>3
<1>5. \A k \in 1..n : Activations'[depth + k] = New(k)
  <2> SUFFICES ASSUME NEW k \in 1..n PROVE Activations'[depth + k] = New(k)
    OBVIOUS
  <2>1. /\ depth + k \in 1..depth' /\ depth + k \in Levels /\ depth <= depth + k
        /\ k = n => depth + k = depth'
        /\ k # n => depth + k < depth'
    BY <1>1
  <2>2. /\ ci'[depth + k].fn = fns[k] /\ ci'[depth + k].aotstate = 0
        /\ native'[depth + k] = Heap \/ native'[depth + k].at = 1
    <3>1. /\ ci'[depth + k] = NewFrame(fns[k])
          /\ native'[depth + k] = Heap \/ native'[depth + k].at = 1
      BY DEF Pushes, n
    <3> QED
      BY <3>1 DEF NewFrame
  <2>3. slot'[depth + k] = IF k = n THEN "none" ELSE "pending"
    BY <1>2, <2>1
  <2>4. \A i \in Levels : i = depth + k => Activation(i)' = New(k)
    BY <2>2, <2>3 DEF Activation, Position, IsLua, OnHeap
  <2>5. \A i \in 1..depth' : i \in Levels /\ Activations'[i] = Activation(i)'
    BY <1>1, StacksBothWays
  <2> QED
    BY <2>1, <2>4, <2>5
<1>6. Calls!Top = [fn |-> f, at |-> at, slot |-> slot[depth]]
      /\ Activations # <<>> /\ Len(Activations) = depth /\ Len(Activations') = depth'
  BY <1>1, StacksBothWays DEF Activation
<1>7. \/ Calls!AtSite(Calls!Top, {"call", "loop", "meta"}) /\ Calls!Top.slot = "none"
      \/ Calls!Top.fn = "plain"
  <2>1. CASE ci[depth].fn = "plain"
    BY <1>6, <2>1
  <2>2. CASE /\ IsLua(depth) /\ NativeFrame(depth) /\ native[depth].phase \in {"runs", "published"}
             /\ AtKinds(depth, {"call", "loop", "meta"})
    <3>1. ~OnHeap(depth)
      BY DEF Pushes
    <3>2. /\ f \in Protos /\ at \in DOMAIN Code[f] /\ Code[f][at] \in {"call", "loop", "meta"}
      BY <2>2, <3>1, NativePosition DEF IsLua
    <3>3. slot[depth] = "none"
      BY <1>1, <2>2, <3>1 DEF Registers, Returned
    <3> HIDE DEF f, at
    <3> QED
      BY <1>6, <3>2, <3>3 DEF Calls!AtSite
  <2> QED
    BY <2>1, <2>2 DEF Pushes
<1>8. Registers'
  <2>1. \A i \in Levels : i < depth' => slot'[i] = "pending"
    BY <1>1, <1>2 DEF Registers
  <2>2. ci'[depth'].fn = fns[n] /\ ci'[depth'].aotstate = 0
    <3>1. n \in 1..n
      BY <1>1
    <3>2. ci'[depth + n] = NewFrame(fns[n])
      BY <3>1 DEF Pushes, n
    <3> QED
      BY <1>1, <3>2 DEF NewFrame
  <2>3. ~Returned'
    BY <1>1, <2>2 DEF Returned, OnHeap, Pushes, n
  <2>4. slot'[depth'] = "none"
    BY <1>1, <1>2
  <2> QED
    BY <1>1, <2>1, <2>2, <2>3, <2>4 DEF Registers, Pushes, OnHeap, n
<1>9. Life = "running" /\ Life' \in IF fns[n] = "plain" THEN {"running", "suspended"} ELSE {"running"}
  BY <1>1 DEF Life, Pushes, n
<1>10. Activations' = Append(Calls!Without(1), Activations'[depth])
                      \o [i \in 1..n |-> Activations'[depth + i]]
  BY <1>1, <1>3, StackGrows
<1> DEFINE e == [i \in 1..n |-> Activations'[depth + i]]
           g == [i \in 1..n |-> IF i = n THEN Calls!Activation(fns[i])
                                ELSE Calls!Waiting(Calls!Activation(fns[i]))]
<1>11. e = g
  <2>1. ASSUME NEW k \in 1..n
        PROVE  New(k) = IF k = n THEN Calls!Activation(fns[k])
                        ELSE Calls!Waiting(Calls!Activation(fns[k]))
    BY DEF Calls!Activation, Calls!Waiting
  <2> HIDE DEF New
  <2> QED
    BY <1>5, <2>1
<1>12. Activations'[depth] = Calls!Waiting(Calls!Top)
  <2> HIDE DEF f, at
  <2> QED
    BY <1>4, <1>6 DEF Calls!Waiting
<1> HIDE DEF f, at
<1>13. Activations' = Append(Calls!Without(1), Calls!Waiting(Calls!Top)) \o g
  BY <1>10, <1>11, <1>12
<1> QED
  BY <1>1, <1>6, <1>7, <1>8, <1>9, <1>13 DEF Calls!Call, n

LEMMA EnteringCalls ==
    ASSUME Consistent, Consistent', Registers, NEW p \in Protos, FastCall(p) \/ EnterNative(p)
    PROVE  Registers' /\ Calls!Call(<<p>>)
<1> DEFINE fns == <<p>>
<1>1. Len(fns) = 1 /\ fns[1] = p
  OBVIOUS
<1>2. MayEnter /\ EntersCallee(p)
  BY FastCallEnters, EnterNativeEnters
<1>3. /\ depth' = depth + 1 /\ depth + 1 \in Levels /\ depth \in Nat /\ depth \in Levels
      /\ ci' = [ci EXCEPT ![depth + 1] = NewFrame(p)]
      /\ native' = [native EXCEPT ![depth].phase = "callee", ![depth + 1] = Start(p)]
      /\ status' = "ok" /\ mode' = "running"
  BY <1>1, <1>2, Facts DEF MayEnter, EntersCallee, Installs, Push
<1>4. /\ native'[depth].at = native[depth].at /\ native'[depth] # Heap
      /\ native'[depth + 1] = Start(p) /\ ci'[depth + 1] = NewFrame(p)
      /\ \A i \in Levels : i < depth => native'[i] = native[i]
      /\ \A i \in Levels : i <= depth => ci'[i] = ci[i]
  <2>1. native[depth] \in NativeFunctions
    BY <1>3, Facts
  <2>2. native'[depth] = [native[depth] EXCEPT !.phase = "callee"]
    <3>1. depth # depth + 1
      BY <1>3
    <3> QED
      BY <1>3, <3>1, Facts
  <2>3. native'[depth].at = native[depth].at /\ native'[depth].phase = "callee"
    BY <2>1, <2>2 DEF NativeFunctions
  <2>4. /\ native'[depth + 1] = Start(p) /\ ci'[depth + 1] = NewFrame(p)
        /\ \A i \in Levels : i < depth => native'[i] = native[i]
        /\ \A i \in Levels : i <= depth => ci'[i] = ci[i]
    BY <1>3, Facts
  <2> QED
    BY <2>3, <2>4
<1>5. Installs(fns) /\ Push(fns)
  BY <1>2 DEF EntersCallee
<1>6. \/ /\ IsLua(depth) /\ NativeFrame(depth) /\ native[depth].phase \in {"runs", "published"}
         /\ AtKinds(depth, {"call", "loop", "meta"})
      \/ ci[depth].fn = "plain"
  BY <1>2 DEF MayEnter, AtKinds
<1> HIDE DEF fns
<1>7. Pushes(fns)
  <2>1. \A k \in 1..Len(fns) : /\ ci'[depth + k] = NewFrame(fns[k])
                               /\ native'[depth + k] = Heap \/ native'[depth + k].at = 1
    BY <1>1, <1>4 DEF Start
  <2>2. native'[depth + Len(fns)].phase = "runs"
    BY <1>1, <1>4 DEF Start
  <2>3. /\ status = "ok" /\ mode = "running" /\ mode' # "dead" /\ status' = "ok" /\ ~OnHeap(depth)
        /\ Len(fns) \in 1..3
    BY <1>1, <1>2, <1>3 DEF MayEnter
  <2> QED
    BY <1>4, <1>5, <1>6, <2>1, <2>2, <2>3 DEF Pushes
<1> QED
  BY <1>7, CallingCalls DEF fns

LEMMA InstallingCalls ==
    ASSUME Consistent, Consistent', Registers, NEW fns, NEW phase, InstallsFrames(fns, phase),
           mode = "running", mode' # "dead",
           \/ status' = "ok"
           \/ status' = "scheduled"
           \/ status' = "yield" /\ fns[Len(fns)] = "plain"
    PROVE  Registers' /\ Calls!Call(fns)
<1>1. /\ depth \in Levels /\ depth \in Nat /\ Len(fns) \in 1..3
      /\ depth' = depth + Len(fns) /\ depth' \in Levels
      /\ \A i \in Levels : i # depth => native'[i] = native[i]
      /\ \A i \in Levels : i <= depth => ci'[i] = ci[i]
      /\ \A k \in 1..Len(fns) : ci'[depth + k] = NewFrame(fns[k])
      /\ native'[depth].at = native[depth].at /\ native'[depth].phase = phase
  BY InstallingKeeps, Facts DEF InstallsFrames
<1>2. /\ status = "ok" /\ ~OnHeap(depth) /\ IsLua(depth) /\ NativeFrame(depth)
      /\ native[depth].phase = "published" /\ phase \in {"prepare", "callee"}
      /\ AtKinds(depth, {"call", "loop", "meta"})
      /\ Installs(fns) /\ Push(fns)
  BY DEF InstallsFrames, AtKinds
<1>3. \A k \in 1..Len(fns) : native'[depth + k] = Heap
  <2> SUFFICES ASSUME NEW k \in 1..Len(fns) PROVE native'[depth + k] = Heap
    OBVIOUS
  <2>1. depth + k \in Levels /\ depth + k # depth /\ depth + k > depth
    BY <1>1
  <2>2. OnHeap(depth + k)
    BY <2>1, Facts
  <2> QED
    BY <1>1, <2>1, <2>2 DEF OnHeap
<1>4. Len(fns) \in 1..Len(fns) /\ native'[depth] # Heap /\ \A i \in Levels : i < depth => i # depth
  <2>1. Len(fns) \in 1..Len(fns)
    <3> DEFINE n == Len(fns)
    <3>1. n \in 1..3
      BY DEF InstallsFrames
    <3> HIDE DEF n
    <3>2. n \in 1..n
      BY <3>1
    <3> QED
      BY <3>2 DEF n
  <2>2. native'[depth] # Heap
    BY <1>1, <1>2
  <2>3. \A i \in Levels : i < depth => i # depth
    BY <1>1
  <2> QED
    BY <2>1, <2>2, <2>3
<1> QED
  BY <1>1, <1>2, <1>3, <1>4, CallingCalls DEF Pushes

LEMMA PreparingCalls ==
    ASSUME Consistent, Consistent', Registers, NEW p \in Protos, PrepareCompiledCall(p)
    PROVE  Registers' /\ Calls!Call(<<p>>)
<1>1. status' = "ok" /\ mode' # "dead" /\ mode = "running"
  BY PrepareCompiledCallInstalls DEF PrepareCompiledCall, InstallsFrames
<1> QED
  BY <1>1, PrepareCompiledCallInstalls, InstallingCalls

LEMMA SuspendingCalls ==
    ASSUME Consistent, Consistent', Registers,
           NEW s \in {"yield", "scheduled"}, NEW fns \in Suspensions(s), CSuspends(fns, s)
    PROVE  Registers' /\ Calls!Call(fns)
<1>1. status' = s /\ mode' # "dead" /\ mode = "running"
  BY CSuspendsInstalls DEF CSuspends, Checked
<1>2. s = "yield" => fns[Len(fns)] = "plain"
  BY SuspensionsAre
<1> QED
  BY <1>1, <1>2, CSuspendsInstalls, InstallingCalls

LEMMA ReentryCalls ==
    ASSUME Consistent, Consistent', Registers,
           NEW p \in Protos, NEW fns \in Reentries(p), CCallsCompiled(p, fns)
    PROVE  Registers' /\ Calls!Call(fns)
<1> DEFINE n == Len(fns)
<1>1. /\ status = "ok" /\ mode = "running" /\ ~OnHeap(depth) /\ NativeFrame(depth)
      /\ IsLua(depth) /\ native[depth].phase = "published" /\ AtKinds(depth, {"call", "loop"})
  BY ExecutingIsNotSuspended DEF CCallsCompiled, AtCall, Executing
<1>2. n \in {2, 3} /\ n \in Nat /\ n \in 1..3
  BY ReentriesAre
<1> HIDE DEF n
<1>3. /\ depth' = depth + n /\ depth \in Levels /\ depth \in Nat /\ depth + n \in Levels
      /\ status' = "ok" /\ mode' = "running"
  BY <1>1, <1>2, Facts DEF CCallsCompiled, Installs, Push, n
<1>4. \A i \in Levels :
        ci'[i] = IF i \in (depth + 1)..(depth + n) THEN NewFrame(fns[i - depth]) ELSE ci[i]
  BY DEF CCallsCompiled, PrecallFrames, PrecallFrame, NewFrame, n
<1>5. native' = [i \in Levels |->
                   IF i = depth THEN [native[i] EXCEPT !.phase = Calling]
                   ELSE IF i = depth + n THEN Start(p)
                   ELSE IF i \in (depth + 1)..(depth + n)
                        THEN [code |-> fns[i - depth], at |-> 1, phase |-> "callee"]
                   ELSE native[i]]
  <2>1. \A i \in Levels : Prologue(PrecallFrame(i, p), p, "none") = Start(p)
    BY Installed
  <2> QED
    BY <2>1 DEF CCallsCompiled, n
<1>6. native'[depth].at = native[depth].at /\ native'[depth] # Heap
  <2>1. native[depth] \in NativeFunctions /\ native'[depth] = [native[depth] EXCEPT !.phase = Calling]
        /\ Calling # "none"
    BY <1>3, <1>5, Facts DEF Calling
  <2>2. native'[depth].at = native[depth].at /\ native'[depth].phase = Calling
    BY <2>1 DEF NativeFunctions
  <2> QED
    BY <2>1, <2>2
<1>7. ASSUME NEW k \in 1..n
      PROVE  /\ ci'[depth + k] = NewFrame(fns[k])
             /\ native'[depth + k].at = 1
             /\ k = n => native'[depth + k].phase = "runs"
  <2>1. /\ depth + k \in Levels /\ depth + k \in (depth + 1)..(depth + n)
        /\ (depth + k) - depth = k /\ depth + k # depth /\ (k = n <=> depth + k = depth + n)
    BY <1>2, <1>3
  <2>2. CASE k = n
    BY <1>4, <1>5, <2>1, <2>2 DEF Start
  <2>3. CASE k # n
    <3>1. native'[depth + k] = [code |-> fns[(depth + k) - depth], at |-> 1, phase |-> "callee"]
      BY <1>5, <2>1, <2>3
    <3> QED
      BY <1>4, <2>1, <2>3, <3>1
  <2> QED
    BY <2>2, <2>3
<1>8. /\ \A i \in Levels : i < depth => native'[i] = native[i]
      /\ \A i \in Levels : i <= depth => ci'[i] = ci[i]
  BY <1>2, <1>3, <1>4, <1>5
<1>9. Pushes(fns)
  <2>1. Installs(fns) /\ Push(fns)
    BY DEF CCallsCompiled
  <2>2. n \in 1..n /\ AtKinds(depth, {"call", "loop", "meta"})
    BY <1>1, <1>2 DEF AtKinds
  <2> QED
    BY <1>1, <1>2, <1>3, <1>6, <1>7, <1>8, <2>1, <2>2 DEF Pushes, n
<1> QED
  BY <1>9, CallingCalls

(***************************************************************************)
(* What the abstract calls may call.                                       *)
(***************************************************************************)
LEMMA ProtosAreChains ==
    ASSUME NEW p \in Protos
    PROVE  <<p>> \in Calls!Chains
  BY DEF Calls!Chains

LEMMA ReentriesAreChains ==
    ASSUME NEW p \in Protos, NEW fns \in Reentries(p)
    PROVE  fns \in Calls!Chains
<1>1. fns \in {<<"plain", p>>, <<"pcall", p>>, <<"pcall", "pcall", p>>}
  BY DEF Reentries
<1>2. CASE fns = <<"plain", p>>
  BY <1>2 DEF Calls!Chains
<1>3. CASE fns = <<"pcall", p>>
  BY <1>3 DEF Calls!Chains
<1>4. CASE fns = <<"pcall", "pcall", p>>
  BY <1>4 DEF Calls!Chains
<1> QED
  BY <1>1, <1>2, <1>3, <1>4

LEMMA SuspensionsAreChains ==
    ASSUME NEW s \in {"yield", "scheduled"}, NEW fns \in Suspensions(s)
    PROVE  fns \in Calls!Chains
<1>1. CASE s = "yield"
  <2>1. fns \in {<<"plain">>, <<"pcall", "plain">>}
    BY <1>1 DEF Suspensions
  <2>2. CASE fns = <<"plain">>
    BY <2>2 DEF Calls!Chains
  <2>3. CASE fns = <<"pcall", "plain">>
    BY <2>3 DEF Calls!Chains
  <2> QED
    BY <2>1, <2>2, <2>3
<1>2. CASE s = "scheduled"
  <2>1. PICK p \in Protos : fns \in {<<"pcall", p>>, <<"pcall", "pcall", p>>}
    BY <1>2 DEF Suspensions
  <2>2. CASE fns = <<"pcall", p>>
    BY <2>2 DEF Calls!Chains
  <2>3. CASE fns = <<"pcall", "pcall", p>>
    BY <2>3 DEF Calls!Chains
  <2> QED
    BY <2>1, <2>2, <2>3
<1> QED
  BY <1>1, <1>2

(***************************************************************************)
(* The refinement.                                                         *)
(***************************************************************************)
LEMMA InitRefines == Init => Registers /\ Calls!Init
<1> SUFFICES ASSUME Init PROVE Registers /\ Calls!Init
  OBVIOUS
<1>1. PICK p \in Protos :
        ci = [i \in Levels |-> [fn |-> IF i = 1 THEN p ELSE "plain",
                                aotstate |-> 0, opyield |-> FALSE]]
  BY DEF Init
<1>2. /\ depth = 1 /\ status = "ok" /\ mode = "running" /\ 1 \in Levels
      /\ slot[1] = "none" /\ OnHeap(1)
      /\ \A i \in Levels : ~(i < depth)
  BY DEF Init, OnHeap
<1>3. ci[1].fn = p /\ ci[1].aotstate = 0
  BY <1>1, <1>2
<1>4. Registers
  BY <1>2, <1>3 DEF Registers, Returned, IsLua
<1>5. Life = "running"
  BY <1>2 DEF Life
<1>6. Activation(1) = Calls!Activation(p)
  BY <1>2, <1>3 DEF Activation, Position, IsLua, Calls!Activation
<1>7. Activations = <<Calls!Activation(p)>>
  <2>1. /\ Activations \in Seq(Acts) /\ Len(Activations) = 1
        /\ Activations[1] = Calls!Activation(p)
    <3>1. StackIs
      BY <1>2, InitConsistent, Stack DEF Consistent
    <3> QED
      BY <1>2, <1>6, <3>1 DEF StackIs
  <2> HIDE DEF Activations
  <2> QED
    BY <2>1
<1> QED
  BY <1>4, <1>5, <1>7 DEF Calls!Init

LEMMA CallsOfStep ==
    ASSUME Consistent, Consistent', Registers,
           \/ \E p \in Protos :
                 \/ FastCall(p) \/ PrepareCompiledCall(p) \/ EnterNative(p)
                 \/ \E fns \in Reentries(p) : CCallsCompiled(p, fns)
           \/ \E s \in {"yield", "scheduled"} : \E fns \in Suspensions(s) : CSuspends(fns, s)
    PROVE  Registers' /\ Calls!Next
<1>1. Registers' /\ \E fns \in Calls!Chains : Calls!Call(fns)
  <2>1. CASE \E p \in Protos :
                \/ FastCall(p) \/ PrepareCompiledCall(p) \/ EnterNative(p)
                \/ \E fns \in Reentries(p) : CCallsCompiled(p, fns)
    BY <2>1, EnteringCalls, PreparingCalls, ReentryCalls, ProtosAreChains, ReentriesAreChains
  <2>2. CASE \E s \in {"yield", "scheduled"} : \E fns \in Suspensions(s) : CSuspends(fns, s)
    BY <2>2, SuspendingCalls, SuspensionsAreChains
  <2> QED
    BY <2>1, <2>2
<1> QED
  BY <1>1 DEF Calls!Next

LEMMA NextRefines ==
    Consistent /\ Consistent' /\ Registers /\ [Next]_vars
        => Registers' /\ [Calls!Next]_(Calls!vars)
<1> SUFFICES ASSUME Consistent, Consistent', Registers, [Next]_vars
             PROVE  Registers' /\ [Calls!Next]_(Calls!vars)
  OBVIOUS
<1> USE DEF Calls!vars
<1>1. CASE \/ \E p \in Protos :
                 \/ FastCall(p) \/ PrepareCompiledCall(p) \/ EnterNative(p)
                 \/ \E fns \in Reentries(p) : CCallsCompiled(p, fns)
           \/ \E s \in {"yield", "scheduled"} : \E fns \in Suspensions(s) : CSuspends(fns, s)
  BY <1>1, CallsOfStep
<1>2. CASE \/ PublishContinuation \/ CallPreparedEntry \/ PreparedYielded
           \/ Raises \/ ReturnYielded \/ RunScheduled
  BY <1>2, PublishingStays, PreparedEntryStays, StaysTheSame, ReturnYieldedStays
<1>3. CASE \E v \in Values :
             CReturns(v) \/ Return(v) \/ CFunctionReturns(v) \/ Resume(v) \/ RunContinuation(v)
  BY <1>3, CReturnsEnds, ReturnsEnd DEF Calls!Next
<1>4. CASE FinishCall \/ FinishMetamethod \/ InterruptReturns \/ EnterFrame
  BY <1>4, FinishCallGoesOn, FinishMetamethodGoesOn, InterruptPasses, EnterFrameGoesOn
     DEF Calls!Next
<1>5. CASE InterruptYields \/ ResumeInterrupt
  BY <1>5, InterruptSuspends, InterruptResumes DEF Calls!Next
<1>6. CASE CatchNative \/ CatchSuspended
  BY <1>6, CatchNativeCuts, CatchSuspendedCuts, CatchingCuts DEF Calls!Next
<1>7. CASE ReturnToHost \/ Uncaught
  BY <1>7, CoroutineEnds, UncaughtFails DEF Calls!Next
<1>8. CASE Dead \/ UNCHANGED vars
  <2>1. UNCHANGED vars
    BY <1>8 DEF Dead
  <2> QED
    BY <2>1 DEF vars, Registers, Returned, IsLua, OnHeap, Life, Activations, Activation, Position
<1> QED
  BY <1>1, <1>2, <1>3, <1>4, <1>5, <1>6, <1>7, <1>8 DEF Next

(* Whatever the frames, the ids they publish and the returns and entries   *)
(* on the wasm stack go through (call_frame.cpp, the generated functions,  *)
(* the loop of ldo.cpp), what the coroutine does is a behaviour of calls   *)
(* that can be suspended: every activation goes on once for every call it  *)
(* made, behind that call, with the value that call returned.              *)
THEOREM FramesAreResumableCalls == Spec => ImplementsResumableCalls
  BY InitRefines, NextRefines, AlwaysConsistent, PTL
     DEF Spec, ImplementsResumableCalls, Calls!Spec
=============================================================================
