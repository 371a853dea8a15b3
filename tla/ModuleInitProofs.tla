--------------------------- MODULE ModuleInitProofs ---------------------------
(* Proofs about ModuleInit, for every program and every bound. *)
EXTENDS ModuleInit, SequenceTheorems, TLAPS

(***************************************************************************)
(* The inductive invariant, in named parts.                                *)
(***************************************************************************)
AtBottom ==
    \A i \in 1..Len(stack) : stack[i].kind \in {"entry", "host"} => i = 1

ClosedIsEmpty == closed => stack = <<>>

(* How many errors must have been raised during a run of m that is still   *)
(* active for the record of m to be in this state.                         *)
Need(s) == CASE s = "UNINITIALIZED" -> 2
             [] s = "FAILED" -> 1
             [] OTHER -> 0

Raised == IF raising THEN 1 ELSE 0

ErrorsSeen ==
    \A i \in 1..Len(stack) :
        Initializer(stack[i]) =>
            stack[i].caught + Raised >= Need(registry[stack[i].mod].status)

(* What is known of a module that never ran inside another run of itself. *)
OneRun ==
    \A m \in Modules \ duplicated :
        \A i, j \in 1..Len(stack) :
            stack[i].mod = m /\ stack[j].mod = m => i = j

CachedIsIdle ==
    \A m \in Modules \ duplicated :
        registry[m].status = "INITIALIZED" => ~Active(m)

EntryRuns ==
    /\ abandoned > 0 => Entry \in duplicated
    /\ \A i \in 1..Len(stack) :
          stack[i].mod = Entry /\ stack[i].kind # "entry" => Entry \in duplicated
    /\ \/ Entry \in duplicated
       \/ closed
       \/ registry[Entry].status = "INITIALIZED"
       \/ /\ stack # <<>>
          /\ stack[1].kind = "entry"

-----------------------------------------------------------------------------
(* What the operators on records and on the stack return. *)
CachesResult(rec) == rec.status = "INITIALIZED" => rec.value \in Results

LEMMA CompleteFacts ==
    ASSUME NEW rec \in Records, NEW v \in Results
    PROVE  /\ Complete(rec, v).rec \in Records
           /\ Complete(rec, v).raised \in BOOLEAN
           /\ Complete(rec, v).rec.status \in {"INITIALIZED", "UNINITIALIZED"}
           /\ ~Complete(rec, v).raised => /\ rec.status = "INITIALIZING"
                                          /\ Complete(rec, v).rec =
                                               [status |-> "INITIALIZED", value |-> v]
           /\ rec.status = "INITIALIZING" => ~Complete(rec, v).raised
           /\ rec.status = "FAILED" =>
                 Complete(rec, v).rec.status = "UNINITIALIZED"
           /\ rec.status \notin {"INITIALIZING", "FAILED"} =>
                 Complete(rec, v).rec = rec
           /\ CachesResult(rec) => CachesResult(Complete(rec, v).rec)
  BY DEF Complete, Records, Statuses, Results, CachesResult

LEMMA AbandonFacts ==
    ASSUME NEW rec \in Records
    PROVE  /\ Abandon(rec) \in Records
           /\ Abandon(rec).status = "UNINITIALIZED"
  BY DEF Abandon, Records, Statuses, Results

LEMMA RequiredReturnedFacts ==
    ASSUME NEW m \in Modules, NEW rec \in Records, NEW v \in Results
    PROVE  /\ RequiredReturned(m, rec, v).rec \in Records
           /\ RequiredReturned(m, rec, v).raised \in BOOLEAN
           /\ RequiredReturned(m, rec, v).rec.status \in
                 {"INITIALIZED", "UNINITIALIZED"}
           /\ ~RequiredReturned(m, rec, v).raised =>
                 /\ m # Entry
                 /\ RequiredReturned(m, rec, v).rec =
                      [status |-> "INITIALIZED", value |-> v]
           /\ CachesResult(rec) => CachesResult(RequiredReturned(m, rec, v).rec)
  <1> DEFINE end == RequiredReturned(m, rec, v)
  <1>1. CASE m # Entry
    BY <1>1, CompleteFacts DEF RequiredReturned
  <1>2. CASE m = Entry
    <2> DEFINE entered == Complete(rec, v)
    <2>1. CASE entered.raised
      <3>1. entered.rec \in Records
        BY CompleteFacts
      <3>2. /\ Abandon(entered.rec) \in Records
            /\ Abandon(entered.rec).status = "UNINITIALIZED"
        BY <3>1, AbandonFacts
      <3>3. end = [rec |-> Abandon(entered.rec), raised |-> TRUE]
        BY <1>2, <2>1 DEF RequiredReturned
      <3> QED BY <3>2, <3>3 DEF CachesResult
    <2>2. CASE ~entered.raised
      <3>1. /\ entered.rec \in Records
            /\ entered.rec.status = "INITIALIZED"
            /\ CachesResult(rec) => CachesResult(entered.rec)
        <4> HIDE DEF entered
        <4>1. entered = Complete(rec, v)
          BY DEF entered
        <4>2. /\ entered.rec \in Records
              /\ entered.rec = [status |-> "INITIALIZED", value |-> v]
          BY <2>2, <4>1, CompleteFacts
        <4> QED BY <4>2 DEF CachesResult
      <3>2. end = [rec |-> entered.rec, raised |-> TRUE]
        BY <1>2, <2>2, <3>1 DEF RequiredReturned, Complete
      <3> QED BY <3>1, <3>2
    <2> QED BY <2>1, <2>2
  <1> QED BY <1>1, <1>2

LEMMA RequiredMiscountedFacts ==
    ASSUME NEW m \in Modules, NEW rec \in Records
    PROVE  /\ RequiredMiscounted(m, rec) \in Records
           /\ RequiredMiscounted(m, rec).status = "UNINITIALIZED"
  <1>1. Nil \in Results
    BY DEF Results
  <1> QED BY <1>1, CompleteFacts, AbandonFacts DEF RequiredMiscounted

LEMMA FrontFacts ==
    ASSUME NEW S, NEW s \in Seq(S), s # <<>>
    PROVE  LET t == SubSeq(s, 1, Len(s) - 1)
           IN  /\ t \in Seq(S)
               /\ Len(t) = Len(s) - 1
               /\ \A i \in 1..Len(t) : t[i] = s[i]
  <1> DEFINE n == Len(s) - 1
  <1>1. n \in Nat /\ Len(s) = n + 1
    OBVIOUS
  <1>2. \A i \in 1..n : s[i] \in S
    BY <1>1
  <1> HIDE DEF n
  <1>3. SubSeq(s, 1, n) \in Seq(S) /\ Len(SubSeq(s, 1, n)) = n
    BY <1>1, <1>2, SubSeqProperties
  <1>4. \A i \in 1..n : SubSeq(s, 1, n)[i] = s[i]
    BY <1>1
  <1> QED BY <1>1, <1>3, <1>4 DEF n

LEMMA PopFacts ==
    ASSUME stack \in Seq(Frames), stack # <<>>
    PROVE  /\ Len(stack) \in Nat \ {0}
           /\ Top \in Frames
           /\ Pop \in Seq(Frames)
           /\ Len(Pop) = Len(stack) - 1
           /\ \A i \in 1..Len(Pop) : i \in 1..Len(stack) /\ Pop[i] = stack[i]
  <1>1. Len(stack) \in Nat \ {0}
    BY EmptySeq
  <1>2. \A i \in 1..Len(stack) : stack[i] \in Frames
    BY ElementOfSeq
  <1>3. /\ Pop \in Seq(Frames)
        /\ Len(Pop) = Len(stack) - 1
        /\ \A i \in 1..Len(Pop) : Pop[i] = stack[i]
    BY FrontFacts DEF Pop
  <1> QED BY <1>1, <1>2, <1>3 DEF Top

LEMMA PushFacts ==
    ASSUME stack \in Seq(Frames), NEW f \in Frames
    PROVE  LET t == Append(stack, f)
           IN  /\ t \in Seq(Frames)
               /\ t # <<>>
               /\ Len(stack) \in Nat
               /\ Len(t) = Len(stack) + 1
               /\ \A i \in 1..Len(stack) : t[i] = stack[i]
               /\ t[Len(t)] = f
  BY AppendProperties, LenProperties

LEMMA CatchFacts ==
    ASSUME stack \in Seq(Frames), Catch
    PROVE  /\ stack' \in Seq(Frames)
           /\ Len(stack) \in Nat
           /\ Len(stack') = Len(stack)
           /\ \A i \in 1..Len(stack) :
                 /\ stack'[i].mod = stack[i].mod
                 /\ stack'[i].kind = stack[i].kind
                 /\ stack[i].caught \in 0..2
                 /\ stack'[i].caught = IF stack[i].caught = 2 THEN 2
                                       ELSE stack[i].caught + 1
  <1>1. /\ Len(stack) \in Nat
        /\ \A i \in 1..Len(stack) : stack[i] \in Frames
    BY LenProperties, ElementOfSeq
  <1>2. stack' = [i \in 1..Len(stack) |->
                   [stack[i] EXCEPT !.caught = IF @ = 2 THEN 2 ELSE @ + 1]]
    BY DEF Catch
  <1>3. \A i \in 1..Len(stack) : stack'[i] \in Frames
    <2> SUFFICES ASSUME NEW i \in 1..Len(stack)
                 PROVE  stack'[i] \in Frames
      OBVIOUS
    <2>1. stack[i] \in Frames
      BY <1>1
    <2>2. stack'[i] = [stack[i] EXCEPT !.caught = IF @ = 2 THEN 2 ELSE @ + 1]
      BY <1>2
    <2>3. CASE stack[i] \in [mod : {Entry}, kind : {"entry", "loose"}, caught : 0..2]
      BY <2>2, <2>3 DEF Frames
    <2>4. CASE stack[i] \in [mod : Modules, kind : {"required"}, caught : 0..2]
      BY <2>2, <2>4 DEF Frames
    <2>5. CASE stack[i] \in [mod : {Host}, kind : {"host"}, caught : 0..2]
      BY <2>2, <2>5 DEF Frames
    <2> QED BY <2>1, <2>3, <2>4, <2>5 DEF Frames
  <1>4. stack' \in Seq(Frames) /\ Len(stack') = Len(stack)
    BY <1>1, <1>2, <1>3
  <1>5. \A i \in 1..Len(stack) :
            /\ stack'[i].mod = stack[i].mod
            /\ stack'[i].kind = stack[i].kind
            /\ stack[i].caught \in 0..2
            /\ stack'[i].caught = IF stack[i].caught = 2 THEN 2
                                  ELSE stack[i].caught + 1
    BY <1>1, <1>2 DEF Frames
  <1> QED BY <1>1, <1>4, <1>5

-----------------------------------------------------------------------------
(* Type correctness. *)
LEMMA InitTypeOK == Init => TypeOK
  <1> SUFFICES ASSUME Init PROVE TypeOK
    OBVIOUS
  <1>1. NewFrame(Entry, "entry") \in Frames
    BY DEF NewFrame, Frames
  <1>2. stack \in Seq(Frames)
    BY <1>1 DEF Init
  <1>3. registry \in [Modules -> Records]
    BY DEF Init, Records, Statuses, Results
  <1> QED BY <1>2, <1>3 DEF Init, TypeOK

(* The frame on top of the stack belongs to whom its kind says. *)
LEMMA TopFacts ==
    ASSUME TypeOK, stack # <<>>
    PROVE  /\ Top.kind = "required" => Top.mod \in Modules
           /\ Top.kind \in {"entry", "loose"} => Top.mod = Entry
           /\ Top.kind = "host" => Top.mod = Host
           /\ Top.mod \in Modules => registry[Top.mod] \in Records
           /\ registry[Entry] \in Records
  <1>1. Top \in Frames
    BY PopFacts DEF TypeOK
  <1>2. /\ Top.kind = "required" => Top.mod \in Modules
        /\ Top.kind \in {"entry", "loose"} => Top.mod = Entry
        /\ Top.kind = "host" => Top.mod = Host
    BY <1>1 DEF Frames
  <1> QED BY <1>2, ModulesAssumption DEF TypeOK

(* Typing needs to know that cached values are results: require_static     *)
(* hands them to the requirer.                                             *)
Typed == TypeOK /\ CachesOnlyResults

LEMMA RequireTyped ==
    ASSUME Typed, NEW m \in Modules, Require(m)
    PROVE  Typed'
  <1> USE DEF Typed, TypeOK, CachesOnlyResults, SetRecord
  <1>1. registry[m] \in Records
    OBVIOUS
  <1>2. CASE RequireCached(m)
    BY <1>2 DEF RequireCached
  <1>3. CASE RequireFailed(m)
    BY <1>1, <1>3 DEF RequireFailed, Records, Statuses
  <1>4. CASE RequireCycle(m)
    BY <1>1, <1>4 DEF RequireCycle, Records, Statuses
  <1>5. CASE RequireStart(m)
    <2>1. NewFrame(m, "required") \in Frames
      BY DEF NewFrame, Frames
    <2>2. stack' \in Seq(Frames)
      BY <1>5, <2>1, PushFacts DEF RequireStart
    <2>3. duplicated' \subseteq Modules
      BY <1>5 DEF RequireStart, NoteStart
    <2> QED BY <1>1, <1>5, <2>2, <2>3 DEF RequireStart, Records, Statuses, Results
  <1>6. CASE RequireOverflow(m)
    BY <1>1, <1>6 DEF RequireOverflow, Records, Statuses
  <1>7. CASE RequireOutOfMemory(m)
    BY <1>1, <1>7 DEF RequireOutOfMemory, NoteExhausted, Records, Statuses, Results
  <1> QED BY <1>2, <1>3, <1>4, <1>5, <1>6, <1>7 DEF Require

LEMMA EndRequiredTyped ==
    ASSUME Typed, EndRequired
    PROVE  Typed'
  <1> USE DEF Typed, TypeOK, CachesOnlyResults
  <1> DEFINE m == Top.mod
  <1>1. /\ stack # <<>>
        /\ Top.kind = "required"
        /\ stack' = Pop
        /\ closed' = closed
        /\ duplicated' = duplicated
    BY DEF EndRequired, ReturnRequired, MiscountRequired, FailRequired,
           FailRequiredOutOfMemory, YieldRequired, Running
  <1>2. m \in Modules /\ registry[m] \in Records
    BY <1>1, TopFacts
  <1>3. stack' \in Seq(Frames)
    BY <1>1, PopFacts
  <1>4. ASSUME NEW v \in Results, ReturnRequired(v)
        PROVE  Typed'
    <2> DEFINE end == RequiredReturned(m, registry[m], v)
    <2>1. /\ registry' = [registry EXCEPT ![m] = end.rec]
          /\ raising' = end.raised
          /\ delivered' = IF end.raised THEN delivered
                          ELSE [delivered EXCEPT ![m] = v]
          /\ UNCHANGED <<abandoned, exhausted>>
      BY <1>4 DEF ReturnRequired
    <2>2. /\ end.rec \in Records
          /\ end.raised \in BOOLEAN
          /\ CachesResult(registry[m]) => CachesResult(end.rec)
      <3> HIDE DEF m
      <3> QED BY <1>2, RequiredReturnedFacts
    <2> HIDE DEF end, m
    <2> QED BY <1>1, <1>2, <1>3, <2>1, <2>2 DEF CachesResult
  <1>5. CASE MiscountRequired
    BY <1>1, <1>2, <1>3, <1>5, RequiredMiscountedFacts DEF MiscountRequired
  <1>6. CASE FailRequired
    BY <1>1, <1>2, <1>3, <1>6, AbandonFacts DEF FailRequired
  <1>7. CASE FailRequiredOutOfMemory
    <2>1. PICK rec \in {registry[m], Complete(registry[m], Nil).rec} :
              registry' = [registry EXCEPT ![m] = rec]
      BY <1>7 DEF FailRequiredOutOfMemory
    <2>2. /\ rec \in Records
          /\ CachesResult(registry[m]) => CachesResult(rec)
      <3>1. Nil \in Results
        BY DEF Results
      <3> HIDE DEF m
      <3>2. /\ Complete(registry[m], Nil).rec \in Records
            /\ CachesResult(registry[m])
                 => CachesResult(Complete(registry[m], Nil).rec)
        BY <1>2, <3>1, CompleteFacts
      <3> QED BY <1>2, <2>1, <3>2
    <2>3. exhausted' \subseteq Modules
      BY <1>2, <1>7 DEF FailRequiredOutOfMemory, NoteExhausted, m
    <2> HIDE DEF m
    <2> QED BY <1>1, <1>2, <1>3, <1>7, <2>1, <2>2, <2>3
            DEF FailRequiredOutOfMemory, CachesResult
  <1>8. CASE YieldRequired
    BY <1>1, <1>2, <1>3, <1>8, AbandonFacts DEF YieldRequired
  <1> QED BY <1>4, <1>5, <1>6, <1>7, <1>8 DEF EndRequired

LEMMA LooseTyped ==
    ASSUME Typed, LooseStep
    PROVE  Typed'
  <1> USE DEF Typed, TypeOK, CachesOnlyResults
  <1>1. CASE ResumeLoose
    <2>1. NewFrame(Entry, "loose") \in Frames
      BY DEF NewFrame, Frames
    <2>2. stack' \in Seq(Frames)
      BY <1>1, <2>1, PushFacts DEF ResumeLoose
    <2>3. duplicated' \subseteq Modules /\ abandoned' \in Nat
      BY <1>1, ModulesAssumption DEF ResumeLoose, NoteStart
    <2> QED BY <1>1, <2>2, <2>3 DEF ResumeLoose
  <1>2. ASSUME NEW v \in Results, ReturnLoose(v)
        PROVE  Typed'
    <2> DEFINE end == Complete(registry[Entry], v)
    <2>1. /\ stack # <<>>
          /\ registry' = [registry EXCEPT ![Entry] = end.rec]
          /\ raising' = end.raised
          /\ stack' = Pop
          /\ UNCHANGED <<abandoned, closed, delivered, duplicated, exhausted>>
      BY <1>2 DEF ReturnLoose, Running
    <2>2. registry[Entry] \in Records
      BY ModulesAssumption
    <2>3. /\ end.rec \in Records
          /\ end.raised \in BOOLEAN
          /\ CachesResult(registry[Entry]) => CachesResult(end.rec)
      BY <2>2, CompleteFacts
    <2>4. stack' \in Seq(Frames)
      BY <2>1, PopFacts
    <2> HIDE DEF end
    <2> QED BY <2>1, <2>3, <2>4, ModulesAssumption DEF CachesResult
  <1>3. CASE FailLoose
    BY <1>3, PopFacts DEF FailLoose
  <1>4. CASE YieldLoose
    BY <1>4, PopFacts DEF YieldLoose, Running
  <1> QED BY <1>1, <1>2, <1>3, <1>4 DEF LooseStep

LEMMA EndProgramTyped ==
    ASSUME Typed, EndProgramStep
    PROVE  Typed'
  <1> USE DEF Typed, TypeOK, CachesOnlyResults
  <1>1. <<>> \in Seq(Frames)
    BY EmptySeq
  <1>2. ASSUME NEW v \in Results, ReturnEntry(v)
        PROVE  Typed'
    <2> DEFINE end == Complete(registry[Entry], v)
    <2>1. /\ stack # <<>>
          /\ registry' = [registry EXCEPT ![Entry] = end.rec]
          /\ \/ Close
             \/ stack' = Pop /\ UNCHANGED <<raising, closed>>
          /\ UNCHANGED <<abandoned, delivered, duplicated, exhausted>>
      BY <1>2 DEF ReturnEntry, Running
    <2>2. registry[Entry] \in Records
      BY ModulesAssumption
    <2>3. /\ end.rec \in Records
          /\ CachesResult(registry[Entry]) => CachesResult(end.rec)
      BY <2>2, CompleteFacts
    <2>4. /\ stack' \in Seq(Frames)
          /\ raising' \in BOOLEAN
          /\ closed' \in BOOLEAN
      BY <1>1, <2>1, PopFacts DEF Close
    <2> HIDE DEF end
    <2> QED BY <2>1, <2>3, <2>4, ModulesAssumption DEF CachesResult
  <1>3. CASE FailEntry
    BY <1>1, <1>3 DEF FailEntry, Close
  <1>4. CASE HostInvoke
    <2>1. NewFrame(Host, "host") \in Frames
      BY DEF NewFrame, Frames
    <2>2. <<NewFrame(Host, "host")>> \in Seq(Frames)
      BY <2>1
    <2> QED BY <1>4, <2>2 DEF HostInvoke
  <1>5. CASE HostReturn
    BY <1>5, PopFacts DEF HostReturn
  <1> QED BY <1>2, <1>3, <1>4, <1>5 DEF EndProgramStep

LEMMA TypedStep ==
    ASSUME Typed, [Next]_vars
    PROVE  Typed'
  <1>1. CASE \E m \in Modules : Require(m)
    BY <1>1, RequireTyped
  <1>2. CASE Raise
    BY <1>2 DEF Raise, Typed, TypeOK, CachesOnlyResults
  <1>3. CASE Catch
    BY <1>3, CatchFacts DEF Catch, Typed, TypeOK, CachesOnlyResults
  <1>4. CASE EndRequired
    BY <1>4, EndRequiredTyped
  <1>5. CASE LooseStep
    BY <1>5, LooseTyped
  <1>6. CASE EndProgramStep
    BY <1>6, EndProgramTyped
  <1>7. CASE UNCHANGED vars
    BY <1>7 DEF vars, Typed, TypeOK, CachesOnlyResults
  <1> QED BY <1>1, <1>2, <1>3, <1>4, <1>5, <1>6, <1>7 DEF Next

(* In every reachable state the variables have their types, and only       *)
(* results of successful runs are cached.                                  *)
THEOREM TypeCorrect == Spec => [](TypeOK /\ CachesOnlyResults)
  <1>1. Init => Typed
    BY InitTypeOK DEF Init, Typed, CachesOnlyResults
  <1>2. Typed /\ [Next]_vars => Typed'
    BY TypedStep
  <1>3. Typed => TypeOK /\ CachesOnlyResults
    BY DEF Typed
  <1> QED BY <1>1, <1>2, <1>3, PTL DEF Spec

-----------------------------------------------------------------------------
(* The shapes of the steps that push or pop a frame. *)
Pushed(f) == stack' = Append(stack, f)

LEMMA PushShape ==
    ASSUME TypeOK, NEW f \in Frames, Pushed(f)
    PROVE  /\ Len(stack) \in Nat
           /\ Len(stack') = Len(stack) + 1
           /\ stack' # <<>>
           /\ \A i \in 1..Len(stack) : stack'[i] = stack[i]
           /\ stack'[Len(stack')] = f
  BY PushFacts DEF Pushed, TypeOK

LEMMA PopShape ==
    ASSUME TypeOK, stack # <<>>, stack' = Pop
    PROVE  /\ Len(stack) \in Nat \ {0}
           /\ Len(stack') = Len(stack) - 1
           /\ \A i \in 1..Len(stack') : i \in 1..Len(stack) /\ stack'[i] = stack[i]
           /\ Top = stack[Len(stack)]
  BY PopFacts DEF TypeOK, Top

(* The end of an initializer require_static started, however it ends. *)
LEMMA EndRequiredShape ==
    ASSUME Typed, EndRequired
    PROVE  /\ stack # <<>> /\ Top.kind = "required" /\ stack' = Pop
           /\ Top.mod \in Modules
           /\ UNCHANGED <<closed, duplicated>>
           /\ raising' = TRUE \/ raising = FALSE
           /\ abandoned' = abandoned \/ Top.mod = Entry
           /\ \A m \in Modules : m # Top.mod =>
                 registry'[m] = registry[m] /\ delivered'[m] = delivered[m]
           /\ exhausted \subseteq exhausted'
           /\ \/ Top.mod \in exhausted'
              \/ \E i \in 1..Len(Pop) : Pop[i].mod = Top.mod /\ Initializer(Pop[i])
              \/ registry'[Top.mod].status \in {"INITIALIZED", "UNINITIALIZED"}
           /\ \/ delivered' = delivered
              \/ /\ registry'[Top.mod].status = "INITIALIZED"
                 /\ registry'[Top.mod].value = delivered'[Top.mod]
  <1> DEFINE m == Top.mod
  <1>1. /\ stack # <<>>
        /\ Top.kind = "required"
        /\ stack' = Pop
        /\ closed' = closed
        /\ duplicated' = duplicated
    BY DEF EndRequired, ReturnRequired, MiscountRequired, FailRequired,
           FailRequiredOutOfMemory, YieldRequired, Running
  <1>2. /\ m \in Modules
        /\ registry[m] \in Records
        /\ registry \in [Modules -> Records]
        /\ delivered \in [Modules -> Results \cup {NotDelivered}]
    BY <1>1, TopFacts DEF Typed, TypeOK
  <1>3. raising' = TRUE \/ raising = FALSE
    BY DEF EndRequired, ReturnRequired, MiscountRequired, FailRequired,
           FailRequiredOutOfMemory, YieldRequired, Running
  <1>4. abandoned' = abandoned \/ m = Entry
    BY DEF EndRequired, ReturnRequired, MiscountRequired, FailRequired,
           FailRequiredOutOfMemory, YieldRequired
  <1> DEFINE Effect ==
        /\ \A x \in Modules : x # m =>
              registry'[x] = registry[x] /\ delivered'[x] = delivered[x]
        /\ exhausted \subseteq exhausted'
        /\ \/ m \in exhausted'
           \/ \E i \in 1..Len(Pop) : Pop[i].mod = m /\ Initializer(Pop[i])
           \/ registry'[m].status \in {"INITIALIZED", "UNINITIALIZED"}
        /\ \/ delivered' = delivered
           \/ /\ registry'[m].status = "INITIALIZED"
              /\ registry'[m].value = delivered'[m]
  <1> HIDE DEF m
  <1>5. ASSUME NEW rec \in Records, registry' = [registry EXCEPT ![m] = rec],
               delivered' = delivered, exhausted \subseteq exhausted',
               \/ m \in exhausted'
               \/ \E i \in 1..Len(Pop) : Pop[i].mod = m /\ Initializer(Pop[i])
               \/ rec.status \in {"INITIALIZED", "UNINITIALIZED"}
        PROVE  Effect
    BY <1>2, <1>5
  <1>6. ASSUME NEW v \in Results, ReturnRequired(v)
        PROVE  Effect
    <2> DEFINE end == RequiredReturned(m, registry[m], v)
    <2>1. /\ registry' = [registry EXCEPT ![m] = end.rec]
          /\ delivered' = IF end.raised THEN delivered
                          ELSE [delivered EXCEPT ![m] = v]
          /\ exhausted' = exhausted
      BY <1>6 DEF ReturnRequired, m
    <2>2. /\ end.rec.status \in {"INITIALIZED", "UNINITIALIZED"}
          /\ ~end.raised => end.rec = [status |-> "INITIALIZED", value |-> v]
      BY <1>2, RequiredReturnedFacts
    <2> HIDE DEF end
    <2> QED BY <1>2, <2>1, <2>2
  <1>7. ASSUME MiscountRequired
        PROVE  Effect
    <2> DEFINE rec == RequiredMiscounted(m, registry[m])
    <2>1. rec \in Records /\ rec.status = "UNINITIALIZED"
      BY <1>2, RequiredMiscountedFacts
    <2>2. registry' = [registry EXCEPT ![m] = rec] /\ UNCHANGED <<delivered, exhausted>>
      BY <1>7 DEF MiscountRequired, m
    <2> HIDE DEF rec, Effect
    <2> QED BY <1>5, <2>1, <2>2
  <1>8. ASSUME FailRequired \/ YieldRequired
        PROVE  Effect
    <2> DEFINE rec == Abandon(registry[m])
    <2>1. rec \in Records /\ rec.status = "UNINITIALIZED"
      BY <1>2, AbandonFacts
    <2>2. registry' = [registry EXCEPT ![m] = rec] /\ UNCHANGED <<delivered, exhausted>>
      BY <1>8 DEF FailRequired, YieldRequired, m
    <2> HIDE DEF rec, Effect
    <2> QED BY <1>5, <2>1, <2>2
  <1>9. ASSUME FailRequiredOutOfMemory
        PROVE  Effect
    <2>1. PICK rec \in {registry[m], Complete(registry[m], Nil).rec} :
              registry' = [registry EXCEPT ![m] = rec]
      BY <1>9 DEF FailRequiredOutOfMemory, m
    <2>2. Nil \in Results
      BY DEF Results
    <2>3. Complete(registry[m], Nil).rec \in Records
      BY <1>2, <2>2, CompleteFacts
    <2>4. rec \in Records
      BY <1>2, <2>1, <2>3
    <2>5. /\ exhausted \subseteq exhausted'
          /\ \/ m \in exhausted'
             \/ \E i \in 1..Len(Pop) : Pop[i].mod = m /\ Initializer(Pop[i])
      BY <1>9 DEF FailRequiredOutOfMemory, NoteExhausted, m
    <2>6. delivered' = delivered
      BY <1>9 DEF FailRequiredOutOfMemory
    <2> HIDE DEF Effect
    <2> QED BY <1>5, <2>1, <2>4, <2>5, <2>6
  <1>10. Effect
    BY <1>6, <1>7, <1>8, <1>9 DEF EndRequired
  <1> QED BY <1>1, <1>2, <1>3, <1>4, <1>10 DEF m

-----------------------------------------------------------------------------
(* Errors seen by the runs in progress. *)
ErrorInv ==
    /\ AtBottom
    /\ ClosedIsEmpty
    /\ ErrorsSeen
    /\ DuplicateNeedsTwoCaughtErrors

(* What is known of each frame of a well-typed stack. *)
LEMMA FrameFacts ==
    ASSUME TypeOK, NEW i \in 1..Len(stack)
    PROVE  /\ stack[i].mod \in Modules \cup {Host}
           /\ stack[i].caught \in 0..2
           /\ Initializer(stack[i]) => /\ stack[i].mod \in Modules
                                       /\ registry[stack[i].mod] \in Records
           /\ stack[i].kind \in {"entry", "required", "loose", "host"}
           /\ stack[i].kind \in {"entry", "loose"} => stack[i].mod = Entry
           /\ stack[i].kind = "required" => stack[i].mod \in Modules
           /\ stack[i].kind = "host" => stack[i].mod = Host
  <1>1. stack[i] \in Frames
    BY ElementOfSeq DEF TypeOK
  <1> QED BY <1>1, ModulesAssumption DEF Frames, Initializer, TypeOK

LEMMA RequireErrorInv ==
    ASSUME Typed, ErrorInv, NEW m \in Modules, Require(m)
    PROVE  ErrorInv'
  <1> USE DEF ErrorInv, AtBottom, ClosedIsEmpty, ErrorsSeen, Need, Raised,
              DuplicateNeedsTwoCaughtErrors, Initializer
  <1>1. /\ TypeOK
        /\ registry \in [Modules -> Records]
        /\ Len(stack) \in Nat
        /\ ~raising
    BY LenProperties DEF Typed, TypeOK, Require, Running, RequireCached,
       RequireFailed, RequireCycle, RequireStart, RequireOverflow,
       RequireOutOfMemory
  <1>2. \A i \in 1..Len(stack) :
            /\ stack[i].caught \in 0..2
            /\ Initializer(stack[i]) => stack[i].mod \in Modules
    BY <1>1, FrameFacts
  <1>3. CASE RequireCached(m)
    BY <1>3 DEF RequireCached
  <1>4. CASE RequireFailed(m)
    BY <1>1, <1>2, <1>4 DEF RequireFailed, SetRecord
  <1>5. CASE RequireCycle(m)
    BY <1>1, <1>2, <1>5 DEF RequireCycle, SetRecord
  <1>6. CASE RequireStart(m)
    <2> DEFINE f == NewFrame(m, "required")
    <2>1. f \in Frames /\ f.kind = "required" /\ f.mod = m /\ f.caught = 0
      BY DEF NewFrame, Frames
    <2>2. Pushed(f)
      BY <1>6 DEF RequireStart, Pushed
    <2> HIDE DEF f
    <2>3. /\ Len(stack') = Len(stack) + 1
          /\ \A i \in 1..Len(stack) : stack'[i] = stack[i]
          /\ stack'[Len(stack')] = f
      BY <1>1, <2>1, <2>2, PushShape
    <2>4. /\ registry[m].status = "UNINITIALIZED"
          /\ registry' = [registry EXCEPT ![m] = [status |-> "INITIALIZING", value |-> Nil]]
          /\ raising' = raising /\ closed' = closed /\ stack # <<>>
      BY <1>6 DEF RequireStart, SetRecord, Running
    <2>5. AtBottom' /\ ClosedIsEmpty'
      BY <1>1, <2>1, <2>3, <2>4
    <2>6. \A i \in 1..Len(stack) :
             Initializer(stack[i]) /\ stack[i].mod = m => stack[i].caught = 2
      BY <1>1, <1>2, <2>4
    <2>7. ErrorsSeen'
      BY <1>1, <1>2, <2>1, <2>3, <2>4
    <2>8. DuplicateNeedsTwoCaughtErrors'
      BY <1>1, <1>2, <2>1, <2>3, <2>6
    <2> QED BY <2>5, <2>7, <2>8
  <1>7. CASE RequireOverflow(m)
    BY <1>1, <1>2, <1>7 DEF RequireOverflow, SetRecord
  <1>8. CASE RequireOutOfMemory(m)
    BY <1>1, <1>2, <1>8 DEF RequireOutOfMemory, SetRecord
  <1> QED BY <1>3, <1>4, <1>5, <1>6, <1>7, <1>8 DEF Require

LEMMA EndRequiredErrorInv ==
    ASSUME Typed, ErrorInv, EndRequired
    PROVE  ErrorInv'
  <1> USE DEF ErrorInv, AtBottom, ClosedIsEmpty, ErrorsSeen, Need, Raised,
              DuplicateNeedsTwoCaughtErrors, Initializer
  <1>1. /\ stack # <<>> /\ Top.kind = "required" /\ stack' = Pop
        /\ Top.mod \in Modules
        /\ closed' = closed
        /\ raising' = TRUE \/ raising = FALSE
        /\ \A m \in Modules : m # Top.mod => registry'[m] = registry[m]
    BY EndRequiredShape
  <1>2. /\ Len(stack) \in Nat \ {0}
        /\ Len(stack') = Len(stack) - 1
        /\ \A i \in 1..Len(stack') : i \in 1..Len(stack) /\ stack'[i] = stack[i]
        /\ Top = stack[Len(stack)]
    BY <1>1, PopShape DEF Typed
  <1>3. \A i \in 1..Len(stack) :
            /\ stack[i].caught \in 0..2
            /\ Initializer(stack[i]) => stack[i].mod \in Modules
    BY FrameFacts DEF Typed
  <1>4. AtBottom' /\ ClosedIsEmpty' /\ DuplicateNeedsTwoCaughtErrors'
    BY <1>1, <1>2
  <1>5. ASSUME NEW i \in 1..Len(stack'), Initializer(stack'[i])
        PROVE  stack'[i].caught + Raised' >= Need(registry'[stack'[i].mod].status)
    <2>1. /\ i \in 1..Len(stack) /\ i < Len(stack)
          /\ stack'[i] = stack[i]
          /\ stack[i].mod \in Modules
          /\ stack[i].caught \in 0..2
      BY <1>2, <1>3, <1>5
    <2>2. CASE stack[i].mod = Top.mod
      BY <1>1, <1>2, <1>5, <2>1, <2>2
    <2>3. CASE stack[i].mod # Top.mod
      BY <1>1, <1>5, <2>1, <2>3
    <2> QED BY <2>2, <2>3
  <1> QED BY <1>4, <1>5

LEMMA LooseErrorInv ==
    ASSUME Typed, ErrorInv, LooseStep
    PROVE  ErrorInv'
  <1> USE DEF ErrorInv, AtBottom, ClosedIsEmpty, ErrorsSeen, Need, Raised,
              DuplicateNeedsTwoCaughtErrors, Initializer
  <1>1. /\ TypeOK
        /\ registry \in [Modules -> Records]
        /\ Len(stack) \in Nat
        /\ Entry \in Modules
    BY LenProperties, ModulesAssumption DEF Typed, TypeOK
  <1>2. \A i \in 1..Len(stack) :
            /\ stack[i].caught \in 0..2
            /\ Initializer(stack[i]) => stack[i].mod \in Modules
    BY <1>1, FrameFacts
  <1>3. CASE ResumeLoose
    <2> DEFINE f == NewFrame(Entry, "loose")
    <2>1. f \in Frames /\ f.kind = "loose"
      BY DEF NewFrame, Frames
    <2>2. Pushed(f)
      BY <1>3 DEF ResumeLoose, Pushed
    <2> HIDE DEF f
    <2>3. /\ Len(stack') = Len(stack) + 1
          /\ \A i \in 1..Len(stack) : stack'[i] = stack[i]
          /\ stack'[Len(stack')] = f
      BY <1>1, <2>1, <2>2, PushShape
    <2>4. UNCHANGED <<registry, raising, closed>> /\ stack # <<>>
      BY <1>3 DEF ResumeLoose, Running
    <2> QED BY <1>1, <1>2, <2>1, <2>3, <2>4
  <1>4. ASSUME NEW v \in Results, ReturnLoose(v)
        PROVE  ErrorInv'
    <2> DEFINE end == Complete(registry[Entry], v)
    <2>1. /\ stack # <<>> /\ stack' = Pop
          /\ raising = FALSE
          /\ registry' = [registry EXCEPT ![Entry] = end.rec]
          /\ raising' = end.raised
          /\ closed' = closed
      BY <1>4 DEF ReturnLoose, Running
    <2>2. /\ end.rec.status \in {"INITIALIZED", "UNINITIALIZED"}
          /\ end.raised \in BOOLEAN
          /\ end.rec.status = "UNINITIALIZED" =>
                /\ registry[Entry].status \in {"UNINITIALIZED", "FAILED"}
                /\ end.raised
      BY <1>1 DEF Complete, Records, Statuses
    <2> HIDE DEF end
    <2>3. /\ Len(stack) \in Nat \ {0}
          /\ Len(stack') = Len(stack) - 1
          /\ \A i \in 1..Len(stack') : i \in 1..Len(stack) /\ stack'[i] = stack[i]
      BY <1>1, <2>1, PopShape
    <2>4. AtBottom' /\ ClosedIsEmpty' /\ DuplicateNeedsTwoCaughtErrors'
      BY <2>1, <2>3
    <2>5. ASSUME NEW i \in 1..Len(stack'), Initializer(stack'[i])
          PROVE  stack'[i].caught + Raised' >= Need(registry'[stack'[i].mod].status)
      <3>1. /\ i \in 1..Len(stack)
            /\ stack'[i] = stack[i]
            /\ stack[i].mod \in Modules
            /\ stack[i].caught \in 0..2
        BY <1>2, <2>3, <2>5
      <3>2. CASE stack[i].mod = Entry
        <4>1. stack[i].caught + Raised >= Need(registry[Entry].status)
          BY <2>5, <3>1, <3>2
        <4>2. registry'[Entry].status = end.rec.status
          BY <1>1, <2>1
        <4>3. stack[i].caught + Raised' >= Need(end.rec.status)
          BY <2>1, <2>2, <3>1, <4>1
        <4> QED BY <3>1, <3>2, <4>2, <4>3
      <3>3. CASE stack[i].mod # Entry
        BY <1>1, <2>1, <2>2, <2>5, <3>1, <3>3
      <3> QED BY <3>2, <3>3
    <2> QED BY <2>4, <2>5
  <1>5. CASE FailLoose \/ YieldLoose
    <2>1. /\ stack # <<>> /\ stack' = Pop
          /\ UNCHANGED <<registry, raising, closed>>
      BY <1>5 DEF FailLoose, YieldLoose, Running
    <2>2. /\ Len(stack) \in Nat \ {0}
          /\ Len(stack') = Len(stack) - 1
          /\ \A i \in 1..Len(stack') : i \in 1..Len(stack) /\ stack'[i] = stack[i]
      BY <1>1, <2>1, PopShape
    <2> QED BY <1>1, <1>2, <2>1, <2>2
  <1> QED BY <1>3, <1>4, <1>5 DEF LooseStep

(* The entry chunk and a host invocation are the only frames when they end. *)
LEMMA EndProgramShape ==
    ASSUME Typed, ErrorInv, EndProgramStep
    PROVE  /\ UNCHANGED <<abandoned, delivered, duplicated, exhausted>>
           /\ raising' \in {raising, FALSE}
           /\ \/ /\ stack = <<>>
                 /\ ~closed
                 /\ stack' = <<NewFrame(Host, "host")>>
                 /\ UNCHANGED <<registry, closed>>
              \/ /\ stack # <<>> /\ stack' = <<>>
                 /\ Top.kind = "host"
                 /\ UNCHANGED <<registry, closed>>
              \/ /\ stack # <<>> /\ stack' = <<>>
                 /\ Top.kind = "entry"
                 /\ closed'
                 /\ \A m \in Modules \ {Entry} : registry'[m] = registry[m]
                 /\ registry'[Entry] # registry[Entry] =>
                       registry'[Entry].status = "UNINITIALIZED"
              \/ /\ stack # <<>> /\ stack' = <<>>
                 /\ Top.kind = "entry"
                 /\ closed' = closed
                 /\ \A m \in Modules \ {Entry} : registry'[m] = registry[m]
                 /\ registry'[Entry].status = "INITIALIZED"
  <1>1. /\ TypeOK
        /\ registry \in [Modules -> Records]
        /\ Entry \in Modules
    BY ModulesAssumption DEF Typed, TypeOK
  <1>2. stack # <<>> /\ Top.kind \in {"entry", "host"} => Pop = <<>>
    <2> SUFFICES ASSUME stack # <<>>, Top.kind \in {"entry", "host"}
                 PROVE  Pop = <<>>
      OBVIOUS
    <2>1. Len(stack) = 1
      BY <1>1, PopFacts DEF ErrorInv, AtBottom, Top, TypeOK
    <2>2. Pop \in Seq(Frames) /\ Len(Pop) = 0
      BY <1>1, <2>1, PopFacts DEF TypeOK
    <2> QED BY <2>2, EmptySeq
  <1>3. ASSUME NEW v \in Results, ReturnEntry(v)
        PROVE  /\ UNCHANGED <<abandoned, delivered, duplicated, exhausted>>
               /\ raising' \in {raising, FALSE}
               /\ stack # <<>> /\ stack' = <<>>
               /\ Top.kind = "entry"
               /\ \A m \in Modules \ {Entry} : registry'[m] = registry[m]
               /\ \/ /\ closed'
                     /\ registry'[Entry] # registry[Entry] =>
                           registry'[Entry].status = "UNINITIALIZED"
                  \/ /\ closed' = closed
                     /\ registry'[Entry].status = "INITIALIZED"
    <2> DEFINE end == Complete(registry[Entry], v)
    <2>1. /\ stack # <<>> /\ Top.kind = "entry"
          /\ registry' = [registry EXCEPT ![Entry] = end.rec]
          /\ IF end.raised
             THEN Close
             ELSE stack' = Pop /\ UNCHANGED <<raising, closed>>
          /\ UNCHANGED <<abandoned, delivered, duplicated, exhausted>>
      BY <1>3 DEF ReturnEntry, Running
    <2>2. /\ ~end.raised => end.rec.status = "INITIALIZED"
          /\ end.raised => \/ end.rec = registry[Entry]
                           \/ end.rec.status = "UNINITIALIZED"
      BY <1>1 DEF Complete, Records, Statuses
    <2> HIDE DEF end
    <2> QED BY <1>1, <1>2, <2>1, <2>2 DEF Close
  <1>4. CASE FailEntry
    BY <1>4 DEF FailEntry, Close
  <1>5. CASE HostInvoke
    BY <1>5 DEF HostInvoke
  <1>6. CASE HostReturn
    BY <1>2, <1>6 DEF HostReturn
  <1> QED BY <1>3, <1>4, <1>5, <1>6 DEF EndProgramStep

LEMMA EndProgramErrorInv ==
    ASSUME Typed, ErrorInv, EndProgramStep
    PROVE  ErrorInv'
  <1> DEFINE f == NewFrame(Host, "host")
  <1>1. \/ stack' = <<>>
        \/ stack = <<>> /\ stack' = <<f>> /\ closed' = closed /\ ~closed
    BY EndProgramShape
  <1>2. f.kind = "host"
    BY DEF NewFrame
  <1> HIDE DEF f
  <1>3. CASE stack' = <<>>
    BY <1>3 DEF ErrorInv, AtBottom, ClosedIsEmpty, ErrorsSeen,
                DuplicateNeedsTwoCaughtErrors
  <1>4. CASE stack' = <<f>> /\ ~closed'
    <2>1. Len(stack') = 1 /\ stack'[1] = f
      BY <1>4
    <2> QED BY <1>2, <1>4, <2>1
            DEF ErrorInv, AtBottom, ClosedIsEmpty, ErrorsSeen, Initializer,
                DuplicateNeedsTwoCaughtErrors
  <1> QED BY <1>1, <1>3, <1>4

LEMMA CatchErrorInv ==
    ASSUME Typed, ErrorInv, Catch
    PROVE  ErrorInv'
  <1> USE DEF ErrorInv, AtBottom, ClosedIsEmpty, ErrorsSeen, Need, Raised,
              DuplicateNeedsTwoCaughtErrors, Initializer
  <1>1. /\ Len(stack) \in Nat
        /\ Len(stack') = Len(stack)
        /\ \A i \in 1..Len(stack) :
              /\ stack'[i].mod = stack[i].mod
              /\ stack'[i].kind = stack[i].kind
              /\ stack[i].caught \in 0..2
              /\ stack'[i].caught = IF stack[i].caught = 2 THEN 2
                                    ELSE stack[i].caught + 1
    BY CatchFacts DEF Typed, TypeOK
  <1>2. /\ stack # <<>> /\ raising = TRUE /\ raising' = FALSE
        /\ UNCHANGED <<registry, closed>>
    BY DEF Catch, Typed, TypeOK
  <1> QED BY <1>1, <1>2

LEMMA RaiseErrorInv ==
    ASSUME Typed, ErrorInv, Raise
    PROVE  ErrorInv'
  <1>1. \A i \in 1..Len(stack) : stack[i].caught \in 0..2
    BY FrameFacts DEF Typed
  <1>2. raising = FALSE /\ raising' = TRUE /\ UNCHANGED <<registry, stack, closed>>
    BY DEF Raise, Running, Typed, TypeOK
  <1> QED BY <1>1, <1>2
          DEF ErrorInv, AtBottom, ClosedIsEmpty, ErrorsSeen, Need, Raised,
              DuplicateNeedsTwoCaughtErrors

LEMMA ErrorInvStep ==
    ASSUME Typed, ErrorInv, [Next]_vars
    PROVE  ErrorInv'
  <1>1. CASE \E m \in Modules : Require(m)
    BY <1>1, RequireErrorInv
  <1>2. CASE Raise
    BY <1>2, RaiseErrorInv
  <1>3. CASE Catch
    BY <1>3, CatchErrorInv
  <1>4. CASE EndRequired
    BY <1>4, EndRequiredErrorInv
  <1>5. CASE LooseStep
    BY <1>5, LooseErrorInv
  <1>6. CASE EndProgramStep
    BY <1>6, EndProgramErrorInv
  <1>7. CASE UNCHANGED vars
    BY <1>7 DEF vars, ErrorInv, AtBottom, ClosedIsEmpty, ErrorsSeen, Need, Raised,
                DuplicateNeedsTwoCaughtErrors
  <1> QED BY <1>1, <1>2, <1>3, <1>4, <1>5, <1>6, <1>7 DEF Next

LEMMA InitErrorInv == Init => ErrorInv
  <1> SUFFICES ASSUME Init PROVE ErrorInv
    OBVIOUS
  <1>1. /\ Len(stack) = 1
        /\ stack[1] = NewFrame(Entry, "entry")
        /\ closed = FALSE
        /\ registry[Entry].status = "INITIALIZING"
    BY ModulesAssumption DEF Init
  <1>2. stack[1].caught = 0 /\ stack[1].mod = Entry
    BY <1>1 DEF NewFrame
  <1> QED BY <1>1, <1>2 DEF ErrorInv, AtBottom, ClosedIsEmpty, ErrorsSeen, Need,
             Raised, DuplicateNeedsTwoCaughtErrors

(* A duplicate initializer needs two errors caught during the first run:   *)
(* code that lets errors end the program never runs a module twice.        *)
THEOREM DuplicatesNeedCaughtErrors == Spec => []DuplicateNeedsTwoCaughtErrors
  <1>1. Init => Typed /\ ErrorInv
    BY InitTypeOK, InitErrorInv DEF Init, Typed, CachesOnlyResults
  <1>2. Typed /\ ErrorInv /\ [Next]_vars => Typed' /\ ErrorInv'
    BY TypedStep, ErrorInvStep
  <1>3. ErrorInv => DuplicateNeedsTwoCaughtErrors
    BY DEF ErrorInv
  <1> QED BY <1>1, <1>2, <1>3, PTL DEF Spec

-----------------------------------------------------------------------------
(* No module is wedged. *)
Unsettled(m) == registry[m].status \in {"INITIALIZING", "FAILED"}

(* Popping a frame that is not an initializer of m keeps m's initializer. *)
LEMMA PopKeepsInitializer ==
    ASSUME TypeOK, stack # <<>>, stack' = Pop, NEW m, ActiveInitializer(m),
           Top.mod # m \/ ~Initializer(Top)
    PROVE  ActiveInitializer(m)'
  <1>1. PICK i \in 1..Len(stack) : stack[i].mod = m /\ Initializer(stack[i])
    BY DEF ActiveInitializer
  <1>2. /\ Len(stack) \in Nat \ {0}
        /\ Len(stack') = Len(stack) - 1
        /\ \A j \in 1..Len(stack') : stack'[j] = stack[j]
        /\ Top = stack[Len(stack)]
    BY PopShape
  <1>3. i # Len(stack)
    BY <1>1, <1>2
  <1>4. i \in 1..Len(stack') /\ stack'[i] = stack[i]
    BY <1>1, <1>2, <1>3
  <1> QED BY <1>1, <1>4 DEF ActiveInitializer, Initializer

LEMMA NoWedgedStep ==
    ASSUME Typed, ErrorInv, NoWedgedModule, [Next]_vars
    PROVE  NoWedgedModule'
  <1> SUFFICES ASSUME ~closed', NEW m \in Modules, m \notin exhausted', Unsettled(m)'
               PROVE  ActiveInitializer(m)'
    BY DEF NoWedgedModule, Unsettled
  <1>1. /\ TypeOK
        /\ registry \in [Modules -> Records]
        /\ Len(stack) \in Nat
        /\ Entry \in Modules
    BY LenProperties, ModulesAssumption DEF Typed, TypeOK
  <1>2. ~closed /\ Unsettled(m) /\ m \notin exhausted => ActiveInitializer(m)
    BY DEF NoWedgedModule, Unsettled
  <1>3. ASSUME NEW n \in Modules, Require(n)
        PROVE  ActiveInitializer(m)'
    <2>1. CASE RequireStart(n)
      <3> DEFINE f == NewFrame(n, "required")
      <3>1. f \in Frames /\ Initializer(f) /\ f.mod = n
        BY DEF NewFrame, Frames, Initializer
      <3>2. Pushed(f)
        BY <2>1 DEF RequireStart, Pushed
      <3> HIDE DEF f
      <3>3. /\ Len(stack') = Len(stack) + 1
            /\ \A i \in 1..Len(stack) : stack'[i] = stack[i]
            /\ stack'[Len(stack')] = f
        BY <1>1, <3>1, <3>2, PushShape
      <3>4. CASE m = n
        <4>1. Len(stack') \in 1..Len(stack')
          BY <1>1, <3>3
        <4> QED BY <3>1, <3>3, <3>4, <4>1 DEF ActiveInitializer, Initializer
      <3>5. CASE m # n
        <4>1. ActiveInitializer(m)
          BY <1>1, <1>2, <2>1, <3>5 DEF RequireStart, SetRecord, Unsettled
        <4>2. PICK i \in 1..Len(stack) : stack[i].mod = m /\ Initializer(stack[i])
          BY <4>1 DEF ActiveInitializer
        <4>3. i \in 1..Len(stack') /\ stack'[i] = stack[i]
          BY <1>1, <3>3
        <4> QED BY <4>2, <4>3 DEF ActiveInitializer, Initializer
      <3> QED BY <3>4, <3>5
    <2>2. CASE ~RequireStart(n)
      <3>1. stack' = stack /\ closed' = closed
        BY <1>3, <2>2 DEF Require, RequireCached, RequireFailed, RequireCycle,
                          RequireOverflow, RequireOutOfMemory
      <3>2. CASE RequireOutOfMemory(n) /\ m = n
        BY <3>1, <3>2 DEF RequireOutOfMemory, NoteExhausted, ActiveInitializer,
                          Initializer
      <3>3. CASE ~(RequireOutOfMemory(n) /\ m = n)
        <4>1. Unsettled(m) /\ m \notin exhausted
          BY <1>1, <1>3, <2>2, <3>3
             DEF Require, RequireCached, RequireFailed, RequireCycle,
                 RequireOverflow, RequireOutOfMemory, NoteExhausted, SetRecord,
                 Unsettled
        <4> QED BY <1>2, <3>1, <4>1 DEF ActiveInitializer, Initializer
      <3> QED BY <3>2, <3>3
    <2> QED BY <2>1, <2>2
  <1>4. CASE Raise \/ UNCHANGED vars
    BY <1>2, <1>4 DEF Raise, vars, Unsettled, ActiveInitializer, Initializer
  <1>5. CASE Catch
    <2>1. /\ Len(stack') = Len(stack)
          /\ \A i \in 1..Len(stack) : /\ stack'[i].mod = stack[i].mod
                                      /\ stack'[i].kind = stack[i].kind
      BY <1>1, <1>5, CatchFacts DEF TypeOK
    <2> QED BY <1>2, <1>5, <2>1 DEF Catch, Unsettled, ActiveInitializer, Initializer
  <1>6. CASE EndRequired
    <2>1. /\ stack # <<>> /\ stack' = Pop /\ closed' = closed
          /\ Top.mod \in Modules
          /\ m # Top.mod => registry'[m] = registry[m]
          /\ exhausted \subseteq exhausted'
          /\ \/ Top.mod \in exhausted'
             \/ \E i \in 1..Len(Pop) : Pop[i].mod = Top.mod /\ Initializer(Pop[i])
             \/ registry'[Top.mod].status \in {"INITIALIZED", "UNINITIALIZED"}
      BY <1>6, EndRequiredShape
    <2>2. CASE m # Top.mod
      <3>1. ActiveInitializer(m)
        BY <1>2, <2>1, <2>2 DEF Unsettled
      <3> QED BY <1>1, <2>1, <2>2, <3>1, PopKeepsInitializer
    <2>3. CASE m = Top.mod
      <3>1. \E i \in 1..Len(Pop) : Pop[i].mod = m /\ Initializer(Pop[i])
        BY <2>1, <2>3 DEF Unsettled
      <3>2. PICK i \in 1..Len(Pop) : Pop[i].mod = m /\ Initializer(Pop[i])
        BY <3>1
      <3>3. i \in 1..Len(stack') /\ stack'[i].mod = m /\ Initializer(stack'[i])
        BY <2>1, <3>2
      <3> QED BY <3>3 DEF ActiveInitializer, Initializer
    <2> QED BY <2>2, <2>3
  <1>7. CASE LooseStep
    <2>1. CASE ResumeLoose
      <3> DEFINE f == NewFrame(Entry, "loose")
      <3>1. f \in Frames
        BY DEF NewFrame, Frames
      <3>2. Pushed(f) /\ UNCHANGED <<registry, closed, exhausted>>
        BY <2>1 DEF ResumeLoose, Pushed
      <3> HIDE DEF f
      <3>3. /\ Len(stack') = Len(stack) + 1
            /\ \A i \in 1..Len(stack) : stack'[i] = stack[i]
        BY <1>1, <3>1, <3>2, PushShape
      <3>4. PICK i \in 1..Len(stack) : stack[i].mod = m /\ Initializer(stack[i])
        BY <1>2, <3>2 DEF ActiveInitializer, Unsettled
      <3>5. i \in 1..Len(stack') /\ stack'[i] = stack[i]
        BY <1>1, <3>3
      <3> QED BY <3>4, <3>5 DEF ActiveInitializer, Initializer
    <2>2. ASSUME NEW v \in Results, ReturnLoose(v)
          PROVE  ActiveInitializer(m)'
      <3>1. /\ stack # <<>> /\ stack' = Pop /\ UNCHANGED <<closed, exhausted>>
            /\ Top.kind = "loose"
            /\ registry' = [registry EXCEPT ![Entry] =
                              Complete(registry[Entry], v).rec]
        BY <2>2 DEF ReturnLoose, Running
      <3>2. m # Entry
        <4>1. Complete(registry[Entry], v).rec.status \in
                {"INITIALIZED", "UNINITIALIZED"}
          BY <1>1, CompleteFacts
        <4> QED BY <1>1, <3>1, <4>1 DEF Unsettled
      <3>3. ActiveInitializer(m) /\ ~Initializer(Top)
        BY <1>1, <1>2, <3>1, <3>2 DEF Unsettled, Initializer
      <3> QED BY <1>1, <3>1, <3>3, PopKeepsInitializer
    <2>3. CASE FailLoose \/ YieldLoose
      <3>1. /\ stack # <<>> /\ stack' = Pop
            /\ UNCHANGED <<registry, closed, exhausted>>
            /\ Top.kind = "loose"
        BY <2>3 DEF FailLoose, YieldLoose, Running
      <3>2. ActiveInitializer(m) /\ ~Initializer(Top)
        BY <1>2, <3>1 DEF Unsettled, Initializer
      <3> QED BY <1>1, <3>1, <3>2, PopKeepsInitializer
    <2> QED BY <1>7, <2>1, <2>2, <2>3 DEF LooseStep
  <1>8. CASE EndProgramStep
    <2>1. /\ exhausted' = exhausted
          /\ \/ /\ stack = <<>> /\ ~closed /\ registry' = registry
             \/ /\ stack # <<>> /\ stack' = <<>> /\ Top.kind = "host"
                /\ UNCHANGED <<registry, closed>>
             \/ /\ stack # <<>> /\ stack' = <<>> /\ Top.kind = "entry"
                /\ closed' = closed
                /\ \A x \in Modules \ {Entry} : registry'[x] = registry[x]
                /\ registry'[Entry].status = "INITIALIZED"
      BY <1>8, EndProgramShape
    <2>2. CASE stack = <<>>
      BY <1>2, <2>1, <2>2 DEF Unsettled, ActiveInitializer
    <2>3. CASE stack # <<>>
      <3>1. /\ Len(stack) = 1
            /\ Top.kind = "host" => ~Initializer(stack[1])
            /\ Top.kind = "entry" => stack[1].mod = Entry
        BY <1>1, <2>1, <2>3, PopFacts, TopFacts
           DEF ErrorInv, AtBottom, Top, TypeOK, Initializer
      <3>2. m # Entry /\ Top.kind = "entry" => ~ActiveInitializer(m)
        BY <3>1 DEF ActiveInitializer
      <3>3. Top.kind = "host" => ~ActiveInitializer(m)
        BY <3>1 DEF ActiveInitializer
      <3> QED BY <1>2, <2>1, <2>3, <3>2, <3>3 DEF Unsettled
    <2> QED BY <2>2, <2>3
  <1> QED BY <1>3, <1>4, <1>5, <1>6, <1>7, <1>8 DEF Next

(* A module without an initializer in progress is cached or can be         *)
(* required again, unless a run of it ended for lack of memory.            *)
THEOREM NeverWedged == Spec => []NoWedgedModule
  <1>1. Init => Typed /\ ErrorInv
    BY InitTypeOK, InitErrorInv DEF Init, Typed, CachesOnlyResults
  <1>2. Init => NoWedgedModule
    <2> SUFFICES ASSUME Init PROVE NoWedgedModule
      OBVIOUS
    <2>1. Len(stack) = 1 /\ stack[1] = NewFrame(Entry, "entry")
      BY DEF Init
    <2>2. ActiveInitializer(Entry)
      BY <2>1 DEF ActiveInitializer, Initializer, NewFrame
    <2>3. \A m \in Modules : m # Entry => registry[m].status = "UNINITIALIZED"
      BY DEF Init
    <2> QED BY <2>2, <2>3 DEF NoWedgedModule
  <1>3. Typed /\ ErrorInv /\ NoWedgedModule /\ [Next]_vars
          => Typed' /\ ErrorInv' /\ NoWedgedModule'
    BY TypedStep, ErrorInvStep, NoWedgedStep
  <1> QED BY <1>1, <1>2, <1>3, PTL DEF Spec

-----------------------------------------------------------------------------
(* Modules are singletons. *)
SingletonInv ==
    /\ OneRun
    /\ CachedIsIdle
    /\ EntryRuns
    /\ SameValueToEveryRequirer

(* A module that never ran inside itself and has just lost its only frame  *)
(* has none left; a pop never makes a module active.                       *)
LEMMA PopActivity ==
    ASSUME TypeOK, OneRun, stack # <<>>, stack' = Pop, NEW m \in Modules
    PROVE  /\ Active(m)' => Active(m)
           /\ m \notin duplicated /\ m = Top.mod => ~Active(m)'
           /\ \A i, j \in 1..Len(stack') :
                 stack'[i].mod = m /\ stack'[j].mod = m /\ m \notin duplicated
                   => i = j
  <1>1. /\ Len(stack) \in Nat \ {0}
        /\ Len(stack') = Len(stack) - 1
        /\ \A i \in 1..Len(stack') : i \in 1..Len(stack) /\ stack'[i] = stack[i]
        /\ Top = stack[Len(stack)]
    BY PopShape
  <1>2. Active(m)' => Active(m)
    BY <1>1 DEF Active
  <1>3. ASSUME m \notin duplicated, m = Top.mod, NEW i \in 1..Len(stack'),
               stack'[i].mod = m
        PROVE  FALSE
    BY <1>1, <1>3 DEF OneRun
  <1>4. \A i, j \in 1..Len(stack') :
            stack'[i].mod = m /\ stack'[j].mod = m /\ m \notin duplicated => i = j
    BY <1>1 DEF OneRun
  <1> QED BY <1>2, <1>3, <1>4 DEF Active

(* Pushing a frame of n makes n active, and a duplicate if it was. *)
LEMMA PushActivity ==
    ASSUME TypeOK, OneRun, NEW n \in Modules, NEW f \in Frames, f.mod = n,
           Pushed(f), NoteStart(n)
    PROVE  /\ OneRun'
           /\ \A m \in Modules : m # n /\ Active(m)' => Active(m)
           /\ duplicated \subseteq duplicated'
           /\ \A m \in Modules : m # n => (m \in duplicated' <=> m \in duplicated)
           /\ Active(n) \/ Suspended(n) => n \in duplicated'
  <1>1. /\ Len(stack) \in Nat
        /\ Len(stack') = Len(stack) + 1
        /\ \A i \in 1..Len(stack) : stack'[i] = stack[i]
        /\ stack'[Len(stack')] = f
    BY PushShape
  <1>2. /\ duplicated \subseteq duplicated'
        /\ \A m \in Modules : m # n => (m \in duplicated' <=> m \in duplicated)
        /\ Active(n) \/ Suspended(n) => n \in duplicated'
    BY DEF NoteStart
  <1>3. \A m \in Modules : m # n /\ Active(m)' => Active(m)
    BY <1>1 DEF Active
  <1>4. OneRun'
    <2> SUFFICES ASSUME NEW m \in Modules \ duplicated',
                        NEW i \in 1..Len(stack'), NEW j \in 1..Len(stack'),
                        stack'[i].mod = m, stack'[j].mod = m, i < j
                 PROVE  FALSE
      BY <1>1 DEF OneRun
    <2>1. i \in 1..Len(stack) /\ stack[i].mod = m /\ m \notin duplicated
      BY <1>1, <1>2
    <2>2. CASE j = Len(stack')
      <3>1. m = n /\ Active(n)
        BY <1>1, <2>1, <2>2 DEF Active
      <3> QED BY <1>2, <3>1
    <2>3. CASE j # Len(stack')
      BY <1>1, <2>1, <2>3 DEF OneRun
    <2> QED BY <2>2, <2>3
  <1> QED BY <1>2, <1>3, <1>4

LEMMA RequireSingletonInv ==
    ASSUME Typed, ErrorInv, SingletonInv, NEW n \in Modules, Require(n)
    PROVE  SingletonInv'
  <1> USE DEF SingletonInv
  <1>1. /\ TypeOK
        /\ registry \in [Modules -> Records]
        /\ delivered \in [Modules -> Results \cup {NotDelivered}]
        /\ Len(stack) \in Nat
        /\ Entry \in Modules
    BY LenProperties, ModulesAssumption DEF Typed, TypeOK
  <1>2. CASE ~RequireStart(n)
    <2>1. /\ UNCHANGED <<stack, abandoned, closed, duplicated>>
          /\ \A m \in Modules : m # n => registry'[m] = registry[m]
          /\ \A m \in Modules : delivered'[m] # delivered[m] =>
                registry'[m] = registry[m] /\ registry[m].status = "INITIALIZED"
                /\ delivered'[m] = registry[m].value
          /\ registry'[n].status = "INITIALIZED" => registry'[n] = registry[n]
          /\ registry[n].status = "INITIALIZED" => registry'[n] = registry[n]
      BY <1>1, <1>2 DEF Require, RequireCached, RequireFailed, RequireCycle,
         RequireOverflow, RequireOutOfMemory, SetRecord
    <2>2. OneRun' /\ CachedIsIdle'
      BY <2>1 DEF OneRun, CachedIsIdle, Active
    <2>3. EntryRuns'
      BY <1>1, <2>1 DEF EntryRuns
    <2>4. SameValueToEveryRequirer'
      BY <1>1, <2>1 DEF SameValueToEveryRequirer
    <2> QED BY <2>2, <2>3, <2>4
  <1>3. CASE RequireStart(n)
    <2> DEFINE f == NewFrame(n, "required")
    <2>1. f \in Frames /\ f.mod = n /\ f.kind = "required"
      BY DEF NewFrame, Frames
    <2>2. /\ Pushed(f) /\ NoteStart(n)
          /\ UNCHANGED <<abandoned, closed, delivered>>
          /\ stack # <<>>
          /\ registry[n].status = "UNINITIALIZED"
          /\ registry' = [registry EXCEPT ![n] = [status |-> "INITIALIZING", value |-> Nil]]
      BY <1>3 DEF RequireStart, Pushed, Running, SetRecord
    <2> HIDE DEF f
    <2>3. /\ OneRun'
          /\ \A m \in Modules : m # n /\ Active(m)' => Active(m)
          /\ duplicated \subseteq duplicated'
          /\ \A m \in Modules : m # n => (m \in duplicated' <=> m \in duplicated)
          /\ Active(n) \/ Suspended(n) => n \in duplicated'
      BY <1>1, <2>1, <2>2, PushActivity
    <2>4. /\ Len(stack') = Len(stack) + 1 /\ stack' # <<>>
          /\ \A i \in 1..Len(stack) : stack'[i] = stack[i]
          /\ stack'[Len(stack')] = f
      BY <1>1, <2>1, <2>2, PushShape
    <2>5. CachedIsIdle'
      BY <1>1, <2>2, <2>3 DEF CachedIsIdle
    <2>6. n = Entry => Entry \in duplicated'
      <3> SUFFICES ASSUME n = Entry, Entry \notin duplicated
                   PROVE  Active(Entry)
        BY <2>3
      <3>1. ~closed
        BY <2>2 DEF ErrorInv, ClosedIsEmpty
      <3>2. stack # <<>> /\ stack[1].kind = "entry"
        BY <2>2, <3>1 DEF EntryRuns
      <3>3. 1 \in 1..Len(stack)
        BY <1>1, <2>2, EmptySeq DEF TypeOK
      <3>4. stack[1].mod = Entry
        BY <1>1, <3>2, <3>3, FrameFacts
      <3> QED BY <3>3, <3>4 DEF Active
    <2>7. EntryRuns'
      <3>1. abandoned' > 0 => Entry \in duplicated'
        BY <2>2, <2>3 DEF EntryRuns
      <3>2. ASSUME NEW i \in 1..Len(stack'), stack'[i].mod = Entry,
                   stack'[i].kind # "entry"
            PROVE  Entry \in duplicated'
        BY <1>1, <2>1, <2>3, <2>4, <2>6, <3>2 DEF EntryRuns
      <3>3. \/ Entry \in duplicated' \/ closed'
            \/ registry'[Entry].status = "INITIALIZED"
            \/ stack' # <<>> /\ stack'[1].kind = "entry"
        <4>1. 1 \in 1..Len(stack)
          BY <1>1, <2>2, EmptySeq DEF TypeOK
        <4> QED BY <1>1, <2>2, <2>3, <2>4, <2>6, <4>1 DEF EntryRuns
      <3> QED BY <3>1, <3>2, <3>3 DEF EntryRuns
    <2>8. SameValueToEveryRequirer'
      BY <1>1, <2>2, <2>3 DEF SameValueToEveryRequirer
    <2> QED BY <2>3, <2>5, <2>7, <2>8
  <1> QED BY <1>2, <1>3

(* A frame other than the entry chunk's ends: what is known of the entry   *)
(* stays known, unless the entry already ran twice.                        *)
LEMMA PopEntryRuns ==
    ASSUME Typed, ErrorInv, EntryRuns, stack # <<>>, stack' = Pop,
           Top.kind # "entry",
           duplicated' = duplicated, closed' = closed,
           \/ Entry \in duplicated
           \/ /\ abandoned' = abandoned
              /\ registry'[Entry] = registry[Entry]
    PROVE  EntryRuns'
  <1>1. /\ Len(stack) \in Nat \ {0}
        /\ Len(stack') = Len(stack) - 1
        /\ \A i \in 1..Len(stack') : i \in 1..Len(stack) /\ stack'[i] = stack[i]
        /\ Top = stack[Len(stack)]
    BY PopShape DEF Typed
  <1>2. CASE Entry \in duplicated
    BY <1>2 DEF EntryRuns
  <1>3. CASE Entry \notin duplicated
    <2>1. stack # <<>> /\ stack[1].kind = "entry" =>
             stack' # <<>> /\ stack'[1].kind = "entry"
      <3> SUFFICES ASSUME stack[1].kind = "entry"
                   PROVE  stack' # <<>> /\ stack'[1].kind = "entry"
        OBVIOUS
      <3>1. Len(stack) # 1
        BY <1>1
      <3>2. 1 \in 1..Len(stack') /\ Len(stack') # 0
        BY <1>1, <3>1
      <3> QED BY <1>1, <3>2
    <2> QED BY <1>1, <1>3, <2>1 DEF EntryRuns
  <1> QED BY <1>2, <1>3

LEMMA EndRequiredSingletonInv ==
    ASSUME Typed, ErrorInv, SingletonInv, EndRequired
    PROVE  SingletonInv'
  <1> USE DEF SingletonInv
  <1>1. /\ stack # <<>> /\ Top.kind = "required" /\ stack' = Pop
        /\ Top.mod \in Modules
        /\ closed' = closed /\ duplicated' = duplicated
        /\ abandoned' = abandoned \/ Top.mod = Entry
        /\ \A m \in Modules : m # Top.mod =>
              registry'[m] = registry[m] /\ delivered'[m] = delivered[m]
        /\ \/ delivered' = delivered
           \/ /\ registry'[Top.mod].status = "INITIALIZED"
              /\ registry'[Top.mod].value = delivered'[Top.mod]
    BY EndRequiredShape
  <1>2. /\ TypeOK /\ Entry \in Modules /\ duplicated \subseteq Modules
        /\ Len(stack) \in Nat \ {0} /\ Top = stack[Len(stack)]
    BY <1>1, PopShape, ModulesAssumption DEF Typed, TypeOK
  <1>3. \A m \in Modules :
           /\ Active(m)' => Active(m)
           /\ m \notin duplicated /\ m = Top.mod => ~Active(m)'
           /\ \A i, j \in 1..Len(stack') :
                 stack'[i].mod = m /\ stack'[j].mod = m /\ m \notin duplicated
                   => i = j
    BY <1>1, <1>2, PopActivity
  <1>4. OneRun'
    BY <1>1, <1>3 DEF OneRun
  <1>5. CachedIsIdle'
    BY <1>1, <1>3 DEF CachedIsIdle
  <1>6. Active(Top.mod) /\ (Top.mod = Entry => Entry \in duplicated)
    <2>1. /\ Len(stack) \in 1..Len(stack)
          /\ stack[Len(stack)].mod = Top.mod
          /\ stack[Len(stack)].kind # "entry"
      BY <1>1, <1>2
    <2> QED BY <2>1 DEF Active, EntryRuns
  <1>7. EntryRuns'
    <2>1. \/ Entry \in duplicated
          \/ abandoned' = abandoned /\ registry'[Entry] = registry[Entry]
      BY <1>1, <1>2, <1>6
    <2>2. /\ stack # <<>> /\ stack' = Pop
          /\ Top.kind # "entry" /\ EntryRuns
          /\ duplicated' = duplicated /\ closed' = closed
      BY <1>1
    <2> QED BY <2>1, <2>2, PopEntryRuns, Zenon
  <1>8. SameValueToEveryRequirer'
    <2> SUFFICES ASSUME NEW m \in Modules \ duplicated,
                        delivered'[m] # NotDelivered
                 PROVE  /\ registry'[m].status = "INITIALIZED"
                        /\ registry'[m].value = delivered'[m]
      BY <1>1 DEF SameValueToEveryRequirer
    <2>1. CASE m # Top.mod
      BY <1>1, <2>1 DEF SameValueToEveryRequirer
    <2>2. CASE m = Top.mod
      <3>1. delivered[m] = NotDelivered
        BY <1>6, <2>2 DEF SameValueToEveryRequirer, CachedIsIdle
      <3> QED BY <1>1, <2>2, <3>1
    <2> QED BY <2>1, <2>2
  <1> QED BY <1>4, <1>5, <1>7, <1>8

LEMMA LooseSingletonInv ==
    ASSUME Typed, ErrorInv, SingletonInv, LooseStep
    PROVE  SingletonInv'
  <1> USE DEF SingletonInv
  <1>1. /\ TypeOK /\ Entry \in Modules
        /\ registry \in [Modules -> Records]
        /\ abandoned \in Nat
        /\ Len(stack) \in Nat
    BY LenProperties, ModulesAssumption DEF Typed, TypeOK
  <1>2. CASE ResumeLoose
    <2> DEFINE f == NewFrame(Entry, "loose")
    <2>1. f \in Frames /\ f.mod = Entry /\ f.kind = "loose"
      BY DEF NewFrame, Frames
    <2>2. /\ Pushed(f) /\ NoteStart(Entry)
          /\ UNCHANGED <<registry, closed, delivered>>
          /\ abandoned > 0
      BY <1>2 DEF ResumeLoose, Pushed
    <2> HIDE DEF f
    <2>3. Entry \in duplicated
      BY <2>2 DEF EntryRuns
    <2>4. /\ OneRun'
          /\ \A m \in Modules : m # Entry /\ Active(m)' => Active(m)
          /\ duplicated \subseteq duplicated'
      BY <1>1, <2>1, <2>2, PushActivity
    <2> QED BY <2>2, <2>3, <2>4
            DEF CachedIsIdle, EntryRuns, SameValueToEveryRequirer
  <1>3. CASE ~ResumeLoose
    <2>1. /\ stack # <<>> /\ stack' = Pop /\ Top.kind = "loose"
          /\ UNCHANGED <<closed, delivered, duplicated>>
      BY <1>3 DEF LooseStep, ReturnLoose, FailLoose, YieldLoose, Running
    <2>2. /\ Len(stack) \in Nat \ {0} /\ Top = stack[Len(stack)]
          /\ Top.mod = Entry
      BY <1>1, <2>1, PopShape, TopFacts
    <2>3. Entry \in duplicated
      <3>1. /\ Len(stack) \in 1..Len(stack)
            /\ stack[Len(stack)].mod = Entry
            /\ stack[Len(stack)].kind # "entry"
        BY <2>1, <2>2
      <3> QED BY <3>1 DEF EntryRuns
    <2>4. \A m \in Modules : m # Entry => registry'[m] = registry[m]
      BY <1>1, <1>3 DEF LooseStep, ReturnLoose, FailLoose, YieldLoose
    <2>5. \A m \in Modules :
             /\ Active(m)' => Active(m)
             /\ \A i, j \in 1..Len(stack') :
                   stack'[i].mod = m /\ stack'[j].mod = m /\ m \notin duplicated
                     => i = j
      BY <1>1, <2>1, PopActivity
    <2>6. OneRun' /\ CachedIsIdle' /\ SameValueToEveryRequirer'
      BY <2>1, <2>3, <2>4, <2>5
         DEF OneRun, CachedIsIdle, SameValueToEveryRequirer
    <2>7. EntryRuns'
      BY <2>1, <2>3, PopEntryRuns
    <2> QED BY <2>6, <2>7
  <1> QED BY <1>2, <1>3

LEMMA EndProgramSingletonInv ==
    ASSUME Typed, ErrorInv, SingletonInv, EndProgramStep
    PROVE  SingletonInv'
  <1> DEFINE f == NewFrame(Host, "host")
  <1>1. /\ UNCHANGED <<abandoned, delivered, duplicated>>
        /\ \/ /\ stack = <<>> /\ stack' = <<f>>
              /\ UNCHANGED <<registry, closed>>
           \/ /\ stack # <<>> /\ stack' = <<>> /\ Top.kind = "host"
              /\ UNCHANGED <<registry, closed>>
           \/ /\ stack # <<>> /\ stack' = <<>> /\ Top.kind = "entry"
              /\ \A m \in Modules \ {Entry} : registry'[m] = registry[m]
              /\ closed' \/ registry'[Entry].status = "INITIALIZED"
              /\ registry'[Entry] # registry[Entry] =>
                    registry'[Entry].status \in {"INITIALIZED", "UNINITIALIZED"}
    BY EndProgramShape
  <1>2. f.mod = Host /\ f.kind = "host" /\ Host \notin Modules /\ Entry \in Modules
    BY ModulesAssumption DEF NewFrame
  <1> HIDE DEF f
  <1>3. stack' = <<>> \/ stack' = <<f>>
    BY <1>1
  <1>4. \A m \in Modules : ~Active(m)'
    BY <1>2, <1>3 DEF Active
  <1>5. OneRun' /\ CachedIsIdle'
    <2>1. \A m \in Modules : \A i, j \in 1..Len(stack') :
             stack'[i].mod = m /\ stack'[j].mod = m => i = j
      BY <1>4 DEF Active
    <2> QED BY <1>4, <2>1 DEF OneRun, CachedIsIdle
  <1>6. Entry \notin duplicated /\ stack # <<>> /\ Top.kind = "entry"
          => delivered[Entry] = NotDelivered
    <2> SUFFICES ASSUME Entry \notin duplicated, stack # <<>>, Top.kind = "entry"
                 PROVE  delivered[Entry] = NotDelivered
      OBVIOUS
    <2>1. /\ Len(stack) \in 1..Len(stack)
          /\ stack[Len(stack)].mod = Entry
      BY PopFacts, TopFacts DEF Typed, TypeOK, Top
    <2>2. Active(Entry)
      BY <2>1 DEF Active
    <2> QED BY <1>2, <2>2 DEF SingletonInv, CachedIsIdle, SameValueToEveryRequirer
  <1>7. SameValueToEveryRequirer'
    BY <1>1, <1>2, <1>6 DEF SingletonInv, SameValueToEveryRequirer
  <1>8. EntryRuns'
    <2>1. \A i \in 1..Len(stack') : stack'[i].mod # Entry
      BY <1>2, <1>4 DEF Active
    <2>2. CASE stack # <<>> /\ Top.kind = "host"
      <3>1. Len(stack) = 1
        BY <2>2, PopFacts DEF ErrorInv, AtBottom, Top, Typed, TypeOK
      <3>2. stack[1].kind = "host"
        BY <2>2, <3>1 DEF Top
      <3> QED BY <1>1, <2>1, <2>2, <3>2 DEF SingletonInv, EntryRuns
    <2>3. CASE ~(stack # <<>> /\ Top.kind = "host")
      BY <1>1, <2>1, <2>3 DEF SingletonInv, EntryRuns
    <2> QED BY <2>2, <2>3
  <1> QED BY <1>5, <1>7, <1>8 DEF SingletonInv

LEMMA CatchSingletonInv ==
    ASSUME Typed, SingletonInv, Catch
    PROVE  SingletonInv'
  <1>1. /\ Len(stack) \in Nat
        /\ Len(stack') = Len(stack)
        /\ \A i \in 1..Len(stack) : /\ stack'[i].mod = stack[i].mod
                                    /\ stack'[i].kind = stack[i].kind
    BY CatchFacts DEF Typed, TypeOK
  <1>2. /\ stack # <<>>
        /\ UNCHANGED <<registry, abandoned, closed, delivered, duplicated>>
    BY DEF Catch
  <1>3. 1 \in 1..Len(stack) /\ stack' # <<>>
    BY <1>1, <1>2, PopFacts DEF Typed, TypeOK
  <1> QED BY <1>1, <1>2, <1>3
          DEF SingletonInv, OneRun, CachedIsIdle, EntryRuns, Active,
              SameValueToEveryRequirer

LEMMA SingletonInvStep ==
    ASSUME Typed, ErrorInv, SingletonInv, [Next]_vars
    PROVE  SingletonInv'
  <1>1. CASE \E m \in Modules : Require(m)
    BY <1>1, RequireSingletonInv
  <1>2. CASE Raise \/ UNCHANGED vars
    BY <1>2 DEF Raise, vars, SingletonInv, OneRun, CachedIsIdle, EntryRuns, Active,
                SameValueToEveryRequirer
  <1>3. CASE Catch
    BY <1>3, CatchSingletonInv
  <1>4. CASE EndRequired
    BY <1>4, EndRequiredSingletonInv
  <1>5. CASE LooseStep
    BY <1>5, LooseSingletonInv
  <1>6. CASE EndProgramStep
    BY <1>6, EndProgramSingletonInv
  <1> QED BY <1>1, <1>2, <1>3, <1>4, <1>5, <1>6 DEF Next

LEMMA InitSingletonInv == Init => SingletonInv
  <1> SUFFICES ASSUME Init PROVE SingletonInv
    OBVIOUS
  <1>1. /\ Len(stack) = 1
        /\ stack # <<>>
        /\ stack[1] = NewFrame(Entry, "entry")
        /\ stack[1].kind = "entry" /\ stack[1].mod = Entry
    BY DEF Init, NewFrame
  <1>2. /\ \A m \in Modules : registry[m].status # "INITIALIZED"
        /\ \A m \in Modules : delivered[m] = NotDelivered
        /\ abandoned = 0
    BY DEF Init
  <1> QED BY <1>1, <1>2 DEF SingletonInv, OneRun, CachedIsIdle, EntryRuns,
             SameValueToEveryRequirer

(* Everyone who requires a module gets the same value, for ever, unless an *)
(* initializer of that module ran inside another.                          *)
THEOREM ModulesAreSingletons == Spec => []SameValueToEveryRequirer
  <1>1. Init => Typed /\ ErrorInv /\ SingletonInv
    BY InitTypeOK, InitErrorInv, InitSingletonInv
       DEF Init, Typed, CachesOnlyResults
  <1>2. Typed /\ ErrorInv /\ SingletonInv /\ [Next]_vars
          => Typed' /\ ErrorInv' /\ SingletonInv'
    BY TypedStep, ErrorInvStep, SingletonInvStep
  <1>3. SingletonInv => SameValueToEveryRequirer
    BY DEF SingletonInv
  <1> QED BY <1>1, <1>2, <1>3, PTL DEF Spec

-----------------------------------------------------------------------------
(***************************************************************************)
(* The registry implements the abstract cache: every step is one of its    *)
(* steps or leaves what is cached and what is in progress as it was.       *)
(***************************************************************************)
CacheStep == [Cache!Next]_(Cache!vars)

(* A record may be settled or reset, but a cached value is never replaced  *)
(* by another one in one step.                                             *)
Keeps(old, new) ==
    \/ new = old
    \/ new.status # "INITIALIZED"
    \/ old.status # "INITIALIZED" /\ new.value \in Results

LEMMA CompleteKeeps ==
    ASSUME NEW rec \in Records, NEW v \in Results
    PROVE  Keeps(rec, Complete(rec, v).rec)
  BY DEF Complete, Records, Statuses, Keeps

LEMMA RequiredReturnedKeeps ==
    ASSUME NEW m \in Modules, NEW rec \in Records, NEW v \in Results
    PROVE  Keeps(rec, RequiredReturned(m, rec, v).rec)
  <1> DEFINE entered == Complete(rec, v)
  <1>1. CASE m # Entry
    BY <1>1, CompleteKeeps DEF RequiredReturned
  <1>2. CASE m = Entry /\ entered.raised
    <2>1. /\ entered.rec \in Records
          /\ RequiredReturned(m, rec, v).rec = Abandon(entered.rec)
      BY <1>2, CompleteFacts DEF RequiredReturned
    <2> QED BY <2>1, AbandonFacts DEF Keeps
  <1>3. CASE m = Entry /\ ~entered.raised
    <2>1. /\ entered.rec \in Records
          /\ entered.rec.status = "INITIALIZED"
      <3> HIDE DEF entered
      <3>1. entered = Complete(rec, v)
        BY DEF entered
      <3>2. /\ entered.rec \in Records
            /\ entered.rec = [status |-> "INITIALIZED", value |-> v]
        BY <1>3, <3>1, CompleteFacts
      <3> QED BY <3>2
    <2>2. RequiredReturned(m, rec, v).rec = entered.rec
      BY <1>3, <2>1 DEF RequiredReturned, Complete
    <2> QED BY <2>2, CompleteKeeps
  <1> QED BY <1>1, <1>2, <1>3

LEMMA MiscountedKeeps ==
    ASSUME NEW m \in Modules, NEW rec \in Records
    PROVE  Keeps(rec, RequiredMiscounted(m, rec))
  BY RequiredMiscountedFacts DEF Keeps

(* Nothing cached changes when no cached record does, and none becomes one. *)
LEMMA SameCached ==
    ASSUME \A m \in Modules :
              \/ registry'[m] = registry[m]
              \/ /\ registry[m].status # "INITIALIZED"
                 /\ registry'[m].status # "INITIALIZED"
    PROVE  Cached' = Cached
  BY DEF Cached

LEMMA Stutters ==
    ASSUME Cached' = Cached, InProgress' = InProgress
    PROVE  CacheStep
  BY DEF CacheStep, Cache!vars

(* A run of m ends, or one of several, and its record is settled or reset. *)
LEMMA RunOfModuleEnds ==
    ASSUME Typed, NEW m \in InProgress, NEW rec \in Records,
           registry' = [registry EXCEPT ![m] = rec],
           Keeps(registry[m], rec),
           InProgress' \in {InProgress, InProgress \ {m}}
    PROVE  CacheStep
  <1>1. m \in Modules /\ registry \in [Modules -> Records]
    BY DEF InProgress, Typed, TypeOK
  <1>2. Cached' = [Cached EXCEPT ![m] = IF rec.status = "INITIALIZED"
                                        THEN rec.value ELSE NotDelivered]
    BY <1>1 DEF Cached
  <1>3. Cached \in [Modules -> {Cached[x] : x \in Modules}]
    BY DEF Cached
  <1>4. CASE rec = registry[m]
    <2>1. Cached' = Cached
      BY <1>1, <1>4 DEF Cached
    <2>2. CASE InProgress' = InProgress
      BY <2>1, <2>2, Stutters
    <2>3. CASE InProgress' = InProgress \ {m}
      <3>1. Cache!End(m)
        BY <2>1, <2>3 DEF Cache!End
      <3> QED BY <1>1, <3>1 DEF CacheStep, Cache!Next
    <2> QED BY <2>2, <2>3
  <1>5. CASE rec.status # "INITIALIZED"
    <2>1. Cached' = [Cached EXCEPT ![m] = NotDelivered]
      BY <1>2, <1>5
    <2>2. Cache!Withdraw(m)
      BY <2>1 DEF Cache!Withdraw, Cache!MayEnd
    <2> QED BY <1>1, <2>2 DEF CacheStep, Cache!Next
  <1>6. CASE /\ rec.status = "INITIALIZED"
             /\ registry[m].status # "INITIALIZED"
             /\ rec.value \in Results
    <2>1. Cached[m] = NotDelivered
      BY <1>1, <1>6 DEF Cached
    <2>2. Cached' = [Cached EXCEPT ![m] = rec.value]
      BY <1>2, <1>6
    <2>3. Cache!Publish(m, rec.value)
      BY <2>1, <2>2 DEF Cache!Publish, Cache!MayEnd
    <2> QED BY <1>1, <1>6, <2>3 DEF CacheStep, Cache!Next
  <1> QED BY <1>4, <1>5, <1>6 DEF Keeps

(* A popped frame ends a run of its module and of no other. *)
LEMMA PopInProgress ==
    ASSUME TypeOK, stack # <<>>, stack' = Pop, Top.mod \in Modules,
           closed' = closed,
           abandoned' = abandoned \/ Top.mod = Entry
    PROVE  /\ Top.mod \in InProgress
           /\ InProgress' \in {InProgress, InProgress \ {Top.mod}}
  <1>1. /\ Len(stack) \in Nat \ {0}
        /\ Len(stack') = Len(stack) - 1
        /\ \A i \in 1..Len(stack') : i \in 1..Len(stack) /\ stack'[i] = stack[i]
        /\ Top = stack[Len(stack)]
    BY PopShape
  <1>2. Active(Top.mod)
    BY <1>1 DEF Active
  <1>3. \A m \in Modules : m # Top.mod => (Active(m)' <=> Active(m))
    <2> SUFFICES ASSUME NEW m \in Modules, m # Top.mod
                 PROVE  Active(m)' <=> Active(m)
      OBVIOUS
    <2>1. Active(m)' => Active(m)
      BY <1>1 DEF Active
    <2>2. ASSUME NEW i \in 1..Len(stack), stack[i].mod = m
          PROVE  Active(m)'
      <3>1. i # Len(stack)
        BY <1>1, <2>2
      <3>2. i \in 1..Len(stack') /\ stack'[i].mod = m
        BY <1>1, <2>2, <3>1
      <3> QED BY <3>2 DEF Active
    <2> QED BY <2>1, <2>2 DEF Active
  <1>4. \A m \in Modules : m # Top.mod => (Suspended(m)' <=> Suspended(m))
    BY DEF Suspended
  <1>5. \A m \in Modules : m # Top.mod => (m \in InProgress' <=> m \in InProgress)
    BY <1>3, <1>4 DEF InProgress
  <1>6. Top.mod \in InProgress
    BY <1>2 DEF InProgress
  <1> QED BY <1>5, <1>6 DEF InProgress

LEMMA RequireIsCacheStep ==
    ASSUME Typed, NEW m \in Modules, Require(m)
    PROVE  CacheStep
  <1>1. TypeOK /\ registry \in [Modules -> Records]
    BY DEF Typed, TypeOK
  <1>2. CASE ~RequireStart(m)
    <2>1. /\ UNCHANGED <<stack, abandoned, closed>>
          /\ \A x \in Modules :
                \/ registry'[x] = registry[x]
                \/ /\ registry[x].status # "INITIALIZED"
                   /\ registry'[x].status # "INITIALIZED"
      BY <1>1, <1>2 DEF Require, RequireCached, RequireFailed, RequireCycle,
         RequireOverflow, RequireOutOfMemory, SetRecord
    <2>2. InProgress' = InProgress
      BY <2>1 DEF InProgress, Active, Suspended
    <2> QED BY <2>1, <2>2, SameCached, Stutters
  <1>3. CASE RequireStart(m)
    <2> DEFINE f == NewFrame(m, "required")
    <2>1. f \in Frames /\ f.mod = m
      BY DEF NewFrame, Frames
    <2>2. /\ Pushed(f)
          /\ UNCHANGED <<abandoned, closed>>
          /\ registry[m].status = "UNINITIALIZED"
          /\ registry' = [registry EXCEPT ![m] = [status |-> "INITIALIZING", value |-> Nil]]
      BY <1>3 DEF RequireStart, Pushed, SetRecord
    <2> HIDE DEF f
    <2>3. /\ Len(stack) \in Nat
          /\ Len(stack') = Len(stack) + 1
          /\ \A i \in 1..Len(stack) : stack'[i] = stack[i]
          /\ stack'[Len(stack')] = f
      BY <1>1, <2>1, <2>2, PushShape
    <2>4. \A x \in Modules : Active(x)' <=> Active(x) \/ x = m
      BY <2>1, <2>3 DEF Active
    <2>5. InProgress' = InProgress \cup {m}
      BY <2>2, <2>4 DEF InProgress, Suspended
    <2>6. Cached' = Cached
      BY <1>1, <2>2, SameCached
    <2>7. Cached[m] = NotDelivered
      BY <2>2 DEF Cached
    <2>8. Cache!Begin(m)
      BY <2>5, <2>6, <2>7 DEF Cache!Begin
    <2> QED BY <2>8 DEF CacheStep, Cache!Next
  <1> QED BY <1>2, <1>3

LEMMA EndRequiredIsCacheStep ==
    ASSUME Typed, ErrorInv, EndRequired
    PROVE  CacheStep
  <1> DEFINE m == Top.mod
  <1>1. /\ stack # <<>> /\ stack' = Pop
        /\ m \in Modules /\ registry[m] \in Records
        /\ closed' = closed
        /\ abandoned' = abandoned \/ m = Entry
    BY EndRequiredShape DEF Typed, TypeOK
  <1>2. /\ m \in InProgress
        /\ InProgress' \in {InProgress, InProgress \ {m}}
    BY <1>1, PopInProgress DEF Typed
  <1> HIDE DEF m
  <1>3. ASSUME NEW rec \in Records, registry' = [registry EXCEPT ![m] = rec],
               Keeps(registry[m], rec)
        PROVE  CacheStep
    BY <1>2, <1>3, RunOfModuleEnds
  <1>4. ASSUME NEW v \in Results, ReturnRequired(v)
        PROVE  CacheStep
    <2> DEFINE rec == RequiredReturned(m, registry[m], v).rec
    <2>1. registry' = [registry EXCEPT ![m] = rec]
      BY <1>4 DEF ReturnRequired, m
    <2>2. rec \in Records /\ Keeps(registry[m], rec)
      BY <1>1, RequiredReturnedFacts, RequiredReturnedKeeps
    <2> HIDE DEF rec
    <2> QED BY <1>3, <2>1, <2>2
  <1>5. CASE MiscountRequired
    <2> DEFINE rec == RequiredMiscounted(m, registry[m])
    <2>1. registry' = [registry EXCEPT ![m] = rec]
      BY <1>5 DEF MiscountRequired, m
    <2>2. rec \in Records /\ Keeps(registry[m], rec)
      BY <1>1, RequiredMiscountedFacts, MiscountedKeeps
    <2> HIDE DEF rec
    <2> QED BY <1>3, <2>1, <2>2
  <1>6. CASE FailRequired \/ YieldRequired
    <2> DEFINE rec == Abandon(registry[m])
    <2>1. registry' = [registry EXCEPT ![m] = rec]
      BY <1>6 DEF FailRequired, YieldRequired, m
    <2>2. rec \in Records /\ Keeps(registry[m], rec)
      BY <1>1, AbandonFacts DEF Keeps
    <2> HIDE DEF rec
    <2> QED BY <1>3, <2>1, <2>2
  <1>7. CASE FailRequiredOutOfMemory
    <2>1. PICK rec \in {registry[m], Complete(registry[m], Nil).rec} :
              registry' = [registry EXCEPT ![m] = rec]
      BY <1>7 DEF FailRequiredOutOfMemory, m
    <2>2. Nil \in Results
      BY DEF Results
    <2>3. /\ Complete(registry[m], Nil).rec \in Records
          /\ Keeps(registry[m], Complete(registry[m], Nil).rec)
      BY <1>1, <2>2, CompleteFacts, CompleteKeeps
    <2>4. rec \in Records
      BY <1>1, <2>1, <2>3
    <2>5. Keeps(registry[m], rec)
      BY <2>1, <2>3 DEF Keeps
    <2> QED BY <1>3, <2>1, <2>4, <2>5
  <1> QED BY <1>4, <1>5, <1>6, <1>7 DEF EndRequired

LEMMA LooseIsCacheStep ==
    ASSUME Typed, ErrorInv, LooseStep
    PROVE  CacheStep
  <1>1. /\ TypeOK /\ Entry \in Modules
        /\ registry[Entry] \in Records
        /\ abandoned \in Nat /\ Len(stack) \in Nat
        /\ registry \in [Modules -> Records]
    BY LenProperties, ModulesAssumption DEF Typed, TypeOK
  <1>2. stack # <<>> /\ ~closed /\ closed' = closed
    BY DEF LooseStep, ResumeLoose, ReturnLoose, FailLoose, YieldLoose, Running,
           ErrorInv, ClosedIsEmpty
  <1>3. CASE ResumeLoose
    <2> DEFINE f == NewFrame(Entry, "loose")
    <2>1. f \in Frames /\ f.mod = Entry
      BY DEF NewFrame, Frames
    <2>2. Pushed(f) /\ registry' = registry /\ abandoned > 0
      BY <1>3 DEF ResumeLoose, Pushed
    <2> HIDE DEF f
    <2>3. /\ Len(stack') = Len(stack) + 1
          /\ \A i \in 1..Len(stack) : stack'[i] = stack[i]
          /\ stack'[Len(stack')] = f
      BY <1>1, <2>1, <2>2, PushShape
    <2>4. \A x \in Modules : Active(x)' <=> Active(x) \/ x = Entry
      BY <1>1, <2>1, <2>3 DEF Active
    <2>5. InProgress' = InProgress
      BY <1>2, <2>2, <2>4 DEF InProgress, Suspended
    <2> QED BY <2>2, <2>5, SameCached, Stutters
  <1>4. CASE ~ResumeLoose
    <2>1. stack' = Pop /\ Top.kind = "loose"
      BY <1>4 DEF LooseStep, ReturnLoose, FailLoose, YieldLoose
    <2>2. Top.mod = Entry
      BY <1>1, <1>2, <2>1, TopFacts
    <2>3. /\ Entry \in InProgress
          /\ InProgress' \in {InProgress, InProgress \ {Entry}}
      BY <1>1, <1>2, <2>1, <2>2, PopInProgress
    <2>4. ASSUME NEW v \in Results, ReturnLoose(v)
          PROVE  CacheStep
      <3> DEFINE rec == Complete(registry[Entry], v).rec
      <3>1. registry' = [registry EXCEPT ![Entry] = rec]
        BY <2>4 DEF ReturnLoose
      <3>2. rec \in Records /\ Keeps(registry[Entry], rec)
        BY <1>1, CompleteFacts, CompleteKeeps
      <3> HIDE DEF rec
      <3> QED BY <2>3, <3>1, <3>2, RunOfModuleEnds
    <2>5. CASE FailLoose \/ YieldLoose
      <3>1. registry' = [registry EXCEPT ![Entry] = registry[Entry]]
        BY <1>1, <2>5 DEF FailLoose, YieldLoose
      <3> QED BY <1>1, <2>3, <3>1, RunOfModuleEnds DEF Keeps
    <2> QED BY <1>4, <2>4, <2>5 DEF LooseStep
  <1> QED BY <1>3, <1>4

LEMMA EndProgramIsCacheStep ==
    ASSUME Typed, ErrorInv, EndProgramStep
    PROVE  CacheStep
  <1>1. /\ TypeOK /\ Entry \in Modules /\ Host \notin Modules
        /\ registry \in [Modules -> Records]
        /\ registry[Entry] \in Records
    BY ModulesAssumption DEF Typed, TypeOK
  <1>2. abandoned' = abandoned
    BY EndProgramShape
  <1>3. CASE HostInvoke \/ HostReturn
    <2>1. registry' = registry /\ closed' = closed
      BY <1>3 DEF HostInvoke, HostReturn
    <2>2. \A m \in Modules : ~Active(m) /\ ~Active(m)'
      <3>1. CASE HostInvoke
        <4>1. stack = <<>> /\ stack' = <<NewFrame(Host, "host")>>
          BY <3>1 DEF HostInvoke
        <4>2. NewFrame(Host, "host").mod = Host
          BY DEF NewFrame
        <4> HIDE DEF NewFrame
        <4> QED BY <1>1, <4>1, <4>2 DEF Active
      <3>2. CASE HostReturn
        <4>1. stack # <<>> /\ Top.kind = "host" /\ stack' = Pop
          BY <3>2 DEF HostReturn
        <4>2. /\ Top.mod = Host
              /\ Len(stack) \in 1..Len(stack)
              /\ Top = stack[Len(stack)]
              /\ Len(stack') = Len(stack) - 1
          BY <1>1, <4>1, TopFacts, PopShape
        <4>3. Len(stack) = 1
          BY <4>1, <4>2 DEF ErrorInv, AtBottom
        <4> QED BY <1>1, <4>2, <4>3 DEF Active
      <3> QED BY <1>3, <3>1, <3>2
    <2>3. InProgress' = InProgress
      BY <1>2, <2>1, <2>2 DEF InProgress, Suspended
    <2> QED BY <2>1, <2>3, SameCached, Stutters
  <1>4. ASSUME NEW v \in Results, ReturnEntry(v)
        PROVE  CacheStep
    <2> DEFINE end == Complete(registry[Entry], v)
    <2>1. /\ stack # <<>> /\ Top.kind = "entry"
          /\ registry' = [registry EXCEPT ![Entry] = end.rec]
          /\ IF end.raised THEN Close
             ELSE stack' = Pop /\ UNCHANGED <<raising, closed>>
      BY <1>4 DEF ReturnEntry, Running
    <2>2. /\ end.rec \in Records
          /\ Keeps(registry[Entry], end.rec)
          /\ end.raised => \/ end.rec = registry[Entry]
                           \/ /\ end.rec.status # "INITIALIZED"
                              /\ registry[Entry].status # "INITIALIZED"
      <3>1. end.rec \in Records /\ Keeps(registry[Entry], end.rec)
        BY <1>1, CompleteFacts, CompleteKeeps
      <3>2. end.raised => \/ end.rec = registry[Entry]
                          \/ /\ end.rec.status # "INITIALIZED"
                             /\ registry[Entry].status # "INITIALIZED"
        BY <1>1 DEF Complete, Records, Statuses
      <3> QED BY <3>1, <3>2
    <2>3. Top.mod = Entry
      BY <1>1, <2>1, TopFacts
    <2> HIDE DEF end
    <2>4. CASE end.raised
      <3>1. Cached' = Cached
        BY <1>1, <2>1, <2>2, <2>4, SameCached
      <3>2. InProgress' = {}
        BY <2>1, <2>4 DEF Close, InProgress, Active, Suspended
      <3>3. Cache!Close
        BY <3>1, <3>2 DEF Cache!Close
      <3> QED BY <3>3 DEF CacheStep, Cache!Next
    <2>5. CASE ~end.raised
      <3>1. stack' = Pop /\ closed' = closed
        BY <2>1, <2>5
      <3>2. /\ Entry \in InProgress
            /\ InProgress' \in {InProgress, InProgress \ {Entry}}
        BY <1>1, <1>2, <2>1, <2>3, <3>1, PopInProgress
      <3> QED BY <2>1, <2>2, <3>2, RunOfModuleEnds
    <2> QED BY <2>4, <2>5
  <1>5. CASE FailEntry
    <2>1. registry' = registry /\ Close
      BY <1>5 DEF FailEntry
    <2>2. InProgress' = {}
      BY <2>1 DEF Close, InProgress, Active, Suspended
    <2>3. Cached' = Cached
      BY <2>1, SameCached
    <2>4. Cache!Close
      BY <2>2, <2>3 DEF Cache!Close
    <2> QED BY <2>4 DEF CacheStep, Cache!Next
  <1> QED BY <1>3, <1>4, <1>5 DEF EndProgramStep

LEMMA NextIsCacheStep ==
    ASSUME Typed, ErrorInv, [Next]_vars
    PROVE  CacheStep
  <1>1. CASE \E m \in Modules : Require(m)
    BY <1>1, RequireIsCacheStep
  <1>2. CASE Raise \/ UNCHANGED vars
    <2>1. UNCHANGED <<registry, stack, abandoned, closed>>
      BY <1>2 DEF Raise, vars
    <2>2. InProgress' = InProgress
      BY <2>1 DEF InProgress, Active, Suspended
    <2> QED BY <2>1, <2>2, SameCached, Stutters
  <1>3. CASE Catch
    <2>1. /\ UNCHANGED <<registry, abandoned, closed>>
          /\ Len(stack') = Len(stack)
          /\ \A i \in 1..Len(stack) : stack'[i].mod = stack[i].mod
      BY <1>3, CatchFacts DEF Catch, Typed, TypeOK
    <2>2. InProgress' = InProgress
      BY <2>1 DEF InProgress, Active, Suspended
    <2> QED BY <2>1, <2>2, SameCached, Stutters
  <1>4. CASE EndRequired
    BY <1>4, EndRequiredIsCacheStep
  <1>5. CASE LooseStep
    BY <1>5, LooseIsCacheStep
  <1>6. CASE EndProgramStep
    BY <1>6, EndProgramIsCacheStep
  <1> QED BY <1>1, <1>2, <1>3, <1>4, <1>5, <1>6 DEF Next

(* Only a run in progress publishes a value or withdraws one, and no value *)
(* replaces another: the registry behaves as the abstract cache.           *)
THEOREM RegistryIsCache == Spec => ImplementsCache
  <1>1. Init => Cache!Init
    <2> SUFFICES ASSUME Init PROVE Cache!Init
      OBVIOUS
    <2>1. Cached = [m \in Modules |-> NotDelivered]
      BY DEF Init, Cached
    <2>2. Len(stack) = 1 /\ stack[1].mod = Entry /\ abandoned = 0
      BY DEF Init, NewFrame
    <2>3. InProgress = {Entry}
      BY <2>2, ModulesAssumption DEF InProgress, Active, Suspended
    <2> QED BY <2>1, <2>3 DEF Cache!Init
  <1>2. Init => Typed /\ ErrorInv
    BY InitTypeOK, InitErrorInv DEF Init, Typed, CachesOnlyResults
  <1>3. Typed /\ ErrorInv /\ [Next]_vars => Typed' /\ ErrorInv'
    BY TypedStep, ErrorInvStep
  <1>4. Typed /\ ErrorInv /\ [Next]_vars => CacheStep
    BY NextIsCacheStep
  <1> QED BY <1>1, <1>2, <1>3, <1>4, PTL DEF Spec, CacheStep, ImplementsCache, Cache!Spec
=============================================================================
