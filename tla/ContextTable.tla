----------------------------- MODULE ContextTable -----------------------------
(***************************************************************************)
(* The compiler's context table (compiler/compiler_host.zig): eight slots, *)
(* each the owner of one profile and runtime pack, addressed by handles    *)
(* that carry the generation of their slot.  Callers keep the handles they *)
(* were given for as long as they like, and may pass any of them again.    *)
(***************************************************************************)
EXTENDS Integers, Sequences

CONSTANTS
    MaxContexts,      \* max_contexts, the number of slots
    GenerationBound,  \* number of values of the u16 generation
    Pairs,            \* the (profile, pack) pairs contextCreate accepts
    MaxCreated        \* bound: contexts created in one life of the instance

NoPair == "no pair"
HandleRadix == 256    \* the low byte of a handle is the slot

ASSUME ContextsAssumption == MaxContexts \in 1..(HandleRadix - 1)
ASSUME GenerationAssumption == GenerationBound \in Nat /\ GenerationBound >= 3
ASSUME PairsAssumption == NoPair \notin Pairs
ASSUME CreatedAssumption == MaxCreated \in Nat

VARIABLES
    slots,    \* the table: generation and stored pair of each slot
    sessions  \* what callers were given: each context ever created

contextVars == <<slots, sessions>>

Slots == 1..MaxContexts
Generations == 1..(GenerationBound - 1)
Slot == [generation : Generations, pair : Pairs \cup {NoPair}]

(* A session counts how often its slot was recycled since it was created   *)
(* (the program does not keep this): 0 means the context is still alive.   *)
Session == [slot : Slots, generation : Generations, handle : Nat,
            pair : Pairs, age : Nat]

ContextHandle(i, g) == g * HandleRadix + i

(* contextFor: the handle names an occupied slot of its generation. *)
Resolves(h) ==
    LET low == h % HandleRadix
    IN  /\ low \in Slots
        /\ slots[low].pair # NoPair
        /\ slots[low].generation = (h \div HandleRadix) % GenerationBound

ContextFor(h) == h % HandleRadix

(* generation +%= 1, and 0 becomes 1. *)
NextGeneration(g) == IF g + 1 = GenerationBound THEN 1 ELSE g + 1

ContextInit ==
    /\ slots = [i \in Slots |-> [generation |-> 1, pair |-> NoPair]]
    /\ sessions = <<>>

(* Mutant: the table is taken to be one slot longer than it is full. *)
FirstFreeOrLast(i) ==
    /\ slots[i].pair = NoPair \/ i = MaxContexts
    /\ \A j \in 1..(i - 1) : slots[j].pair # NoPair

FirstFree(i) ==
    /\ slots[i].pair = NoPair
    /\ \A j \in 1..(i - 1) : slots[j].pair # NoPair

(***************************************************************************)
(* A context is created in the first free slot.  Invalid bytes, a full     *)
(* table and a failing allocation leave the table as it is (a copy of the  *)
(* profile is freed again when the copy of the pack fails): those calls    *)
(* are stuttering steps here.                                              *)
(***************************************************************************)
ContextCreate(p) ==
    /\ Len(sessions) < MaxCreated
    /\ \E i \in Slots :
         /\ FirstFree(i)
         /\ slots' = [slots EXCEPT ![i].pair = p]
         /\ sessions' =
              Append(sessions,
                     [slot |-> i,
                      generation |-> slots[i].generation,
                      handle |-> ContextHandle(i, slots[i].generation),
                      pair |-> p,
                      age |-> 0])

(* Mutant: the generation of a destroyed slot stays what it was. *)
ContextDestroyKeepsGeneration(h) ==
    /\ Resolves(h)
    /\ slots' = [slots EXCEPT ![ContextFor(h)].pair = NoPair]
    /\ sessions' = [k \in DOMAIN sessions |->
                      IF sessions[k].slot = ContextFor(h)
                      THEN [sessions[k] EXCEPT !.age = @ + 1]
                      ELSE sessions[k]]

(* A caller destroys the context a handle names now; an invalid or stale   *)
(* handle is answered with a status and changes nothing.                   *)
ContextDestroy(h) ==
    /\ Resolves(h)
    /\ slots' = [slots EXCEPT ![ContextFor(h)] =
                   [generation |-> NextGeneration(@.generation),
                    pair |-> NoPair]]
    /\ sessions' = [k \in DOMAIN sessions |->
                      IF sessions[k].slot = ContextFor(h)
                      THEN [sessions[k] EXCEPT !.age = @ + 1]
                      ELSE sessions[k]]

HeldHandles == {sessions[k].handle : k \in DOMAIN sessions}

ContextNext ==
    \/ \E p \in Pairs : ContextCreate(p)
    \/ \E h \in HeldHandles : ContextDestroy(h)

ContextSpec == ContextInit /\ [][ContextNext]_contextVars

-----------------------------------------------------------------------------
(* The variables keep their types. *)
ContextTypeOK ==
    /\ slots \in [Slots -> Slot]
    /\ sessions \in Seq(Session)
    /\ Len(sessions) <= MaxCreated

(* A caller that has not seen its context destroyed can count on it: its   *)
(* handle names the pair it was created with, and no other live context    *)
(* has the same handle (contextHandle, contextFor, contextDestroy).        *)
LiveHandlesWork ==
    \A k \in DOMAIN sessions :
        sessions[k].age = 0 =>
            /\ Resolves(sessions[k].handle)
            /\ slots[ContextFor(sessions[k].handle)].pair = sessions[k].pair
            /\ \A j \in DOMAIN sessions :
                 /\ sessions[j].age = 0
                 /\ sessions[j].handle = sessions[k].handle
                 => j = k

(* The handle of a destroyed context is refused until its slot was         *)
(* recycled once for every generation (contextDestroy's u16 generation,    *)
(* which never is 0).                                                      *)
StaleUntilWrap ==
    \A k \in DOMAIN sessions :
        sessions[k].age \in 1..(GenerationBound - 2) =>
            ~Resolves(sessions[k].handle)
===============================================================================
