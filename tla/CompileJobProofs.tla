--------------------------- MODULE CompileJobProofs ---------------------------
(* Proofs about ContextTable, CompileJob and CompilerPort: for up to 255   *)
(* slots and any width of a generation, for any requests, profiles,        *)
(* budgets and buffers, whatever step of a compile fails.                  *)
EXTENDS CompilerPort, TLAPS

(***************************************************************************)
(* The table alone, for any history of creations and destructions.         *)
(***************************************************************************)
(***************************************************************************)
(* The inductive invariant.  The generation of a slot is that of any       *)
(* context it held, moved on by the number of times it was recycled since: *)
(* until a whole cycle has passed, that fixes the age of a handle.         *)
(***************************************************************************)
Ahead(g, n) ==
    IF g + n < GenerationBound THEN g + n ELSE g + n - (GenerationBound - 1)

HandlesNameTheirSlots ==
    \A k \in DOMAIN sessions :
        sessions[k].handle = ContextHandle(sessions[k].slot,
                                           sessions[k].generation)

GenerationsCountAges ==
    \A k \in DOMAIN sessions :
        sessions[k].age < GenerationBound =>
            slots[sessions[k].slot].generation =
                Ahead(sessions[k].generation, sessions[k].age)

LiveSessionsOwnTheirSlots ==
    \A k \in DOMAIN sessions :
        sessions[k].age = 0 =>
            /\ slots[sessions[k].slot].pair = sessions[k].pair
            /\ \A j \in DOMAIN sessions :
                 sessions[j].age = 0 /\ sessions[j].slot = sessions[k].slot => j = k

IInv == /\ ContextTypeOK
        /\ HandlesNameTheirSlots
        /\ GenerationsCountAges
        /\ LiveSessionsOwnTheirSlots

USE DEF Slots, Generations, Slot, Session

-----------------------------------------------------------------------------
(* The conversions of handles: both parts of a handle can be read back. *)
LEMMA HandleArithmetic ==
    ASSUME NEW i \in Slots, NEW g \in Generations
    PROVE  /\ ContextHandle(i, g) \in Nat
           /\ ContextHandle(i, g) % HandleRadix = i
           /\ (ContextHandle(i, g) \div HandleRadix) % GenerationBound = g
<1>1. i \in 1..255 /\ g \in Nat
  BY ContextsAssumption, GenerationAssumption DEF HandleRadix
<1>2. (g * 256 + i) % 256 = i /\ (g * 256 + i) \div 256 = g
  BY <1>1
<1>3. g % GenerationBound = g
  BY GenerationAssumption
<1> QED BY <1>1, <1>2, <1>3 DEF ContextHandle, HandleRadix

(* Sequences of sessions are typed entry by entry. *)
LEMMA SequenceEntries ==
    ASSUME NEW S, NEW s \in Seq(S)
    PROVE  /\ Len(s) \in Nat
           /\ DOMAIN s = 1..Len(s)
           /\ \A k \in DOMAIN s : s[k] \in S
  OBVIOUS

LEMMA SessionEntries ==
    ASSUME sessions \in Seq(Session)
    PROVE  /\ Len(sessions) \in Nat
           /\ DOMAIN sessions = 1..Len(sessions)
           /\ \A k \in DOMAIN sessions :
                /\ sessions[k] \in Session
                /\ sessions[k].slot \in Slots
                /\ sessions[k].generation \in Generations
                /\ sessions[k].pair \in Pairs
                /\ sessions[k].age \in Nat
<1> HIDE DEF Session
<1>1. /\ Len(sessions) \in Nat
      /\ DOMAIN sessions = 1..Len(sessions)
      /\ \A k \in DOMAIN sessions : sessions[k] \in Session
  BY SequenceEntries
<1>2. \A s \in Session : /\ s.slot \in Slots
                         /\ s.generation \in Generations
                         /\ s.pair \in Pairs
                         /\ s.age \in Nat
  BY DEF Session
<1> QED BY <1>1, <1>2

LEMMA GenerationStep ==
    ASSUME NEW g \in Generations, NEW n \in Nat, n + 1 < GenerationBound
    PROVE  /\ NextGeneration(Ahead(g, n)) = Ahead(g, n + 1)
           /\ Ahead(g, n) \in Generations
           /\ Ahead(g, 0) = g
           /\ n > 0 => Ahead(g, n) # g
  BY GenerationAssumption DEF NextGeneration, Ahead

LEMMA NextGenerationType ==
    ASSUME NEW g \in Generations
    PROVE  NextGeneration(g) \in Generations
  BY GenerationAssumption DEF NextGeneration

-----------------------------------------------------------------------------
LEMMA InitHolds == ContextInit => IInv
<1> SUFFICES ASSUME ContextInit PROVE IInv
  OBVIOUS
<1>1. 1 \in Generations
  BY GenerationAssumption
<1>2. slots \in [Slots -> Slot]
  BY <1>1 DEF ContextInit
<1>3. sessions = <<>> /\ DOMAIN sessions = {} /\ Len(sessions) = 0
  BY DEF ContextInit
<1> QED BY <1>2, <1>3, CreatedAssumption
       DEF IInv, ContextTypeOK, HandlesNameTheirSlots, GenerationsCountAges,
           LiveSessionsOwnTheirSlots

LEMMA CreateStep ==
    ASSUME IInv, NEW p \in Pairs, ContextCreate(p)
    PROVE  IInv'
<1> DEFINE n == Len(sessions)
<1>1. PICK i \in Slots :
        /\ FirstFree(i)
        /\ slots' = [slots EXCEPT ![i].pair = p]
        /\ sessions' = Append(sessions,
                         [slot |-> i, generation |-> slots[i].generation,
                          handle |-> ContextHandle(i, slots[i].generation),
                          pair |-> p, age |-> 0])
  BY DEF ContextCreate
<1> DEFINE fresh == [slot |-> i, generation |-> slots[i].generation,
                     handle |-> ContextHandle(i, slots[i].generation),
                     pair |-> p, age |-> 0]
<1>2. /\ slots[i].generation \in Generations
      /\ slots[i].pair = NoPair
      /\ n \in Nat /\ n < MaxCreated
  BY <1>1, CreatedAssumption DEF IInv, ContextTypeOK, FirstFree, ContextCreate
<1>3. fresh \in Session
  BY <1>2, HandleArithmetic
<1>4. /\ sessions' \in Seq(Session)
      /\ Len(sessions') = n + 1
      /\ DOMAIN sessions' = 1..(n + 1)
      /\ DOMAIN sessions = 1..n
      /\ \A k \in 1..n : sessions'[k] = sessions[k]
      /\ sessions'[n + 1] = fresh
  <2> HIDE DEF fresh
  <2>1. sessions \in Seq(Session) /\ sessions' = Append(sessions, fresh)
    BY <1>1 DEF IInv, ContextTypeOK, fresh
  <2> QED BY <2>1, <1>3
<1>5. /\ \A j \in Slots : slots'[j].generation = slots[j].generation
      /\ \A j \in Slots \ {i} : slots'[j] = slots[j]
      /\ slots'[i].pair = p
      /\ slots' \in [Slots -> Slot]
  BY <1>1 DEF IInv, ContextTypeOK
<1> HIDE DEF n, fresh
<1> USE DEF IInv
<1>6. \A k \in 1..n : /\ sessions[k] \in Session
                      /\ sessions[k].slot \in Slots
                      /\ sessions[k].age \in Nat
                      /\ sessions[k].age = 0 => sessions[k].slot # i
  <2> HIDE DEF Session, Slot, Slots
  <2>1. \A k \in 1..n : /\ sessions[k] \in Session
                        /\ sessions[k].slot \in Slots
                        /\ sessions[k].pair \in Pairs
                        /\ sessions[k].age \in Nat
    BY <1>4, SessionEntries DEF ContextTypeOK
  <2> QED BY <2>1, <1>2, <1>4, PairsAssumption DEF LiveSessionsOwnTheirSlots
<1>0. /\ fresh.slot = i /\ fresh.generation = slots[i].generation
      /\ fresh.handle = ContextHandle(i, slots[i].generation)
      /\ fresh.pair = p /\ fresh.age = 0
  BY DEF fresh
<1> HIDE DEF Session, Slot, Slots, Generations
<1>7. ContextTypeOK'
  BY <1>2, <1>4, <1>5, CreatedAssumption DEF ContextTypeOK
<1>8. HandlesNameTheirSlots'
  <2>1. ASSUME NEW k \in 1..(n + 1)
        PROVE  sessions'[k].handle = ContextHandle(sessions'[k].slot,
                                                   sessions'[k].generation)
    <3>1. CASE k = n + 1
      BY <3>1, <1>0, <1>4
    <3>2. CASE k # n + 1
      BY <3>2, <1>2, <1>4 DEF HandlesNameTheirSlots
    <3> QED BY <3>1, <3>2
  <2> QED BY <2>1, <1>4 DEF HandlesNameTheirSlots
<1>9. GenerationsCountAges'
  <2>1. Ahead(slots[i].generation, 0) = slots[i].generation
    BY <1>2, GenerationStep, GenerationAssumption
  <2>2. ASSUME NEW k \in 1..(n + 1), sessions'[k].age < GenerationBound
        PROVE  slots'[sessions'[k].slot].generation =
                 Ahead(sessions'[k].generation, sessions'[k].age)
    <3>1. CASE k = n + 1
      BY <3>1, <2>1, <1>0, <1>4, <1>5
    <3>2. CASE k # n + 1
      BY <3>2, <2>2, <1>2, <1>4, <1>5, <1>6 DEF GenerationsCountAges
    <3> QED BY <3>1, <3>2
  <2> QED BY <2>2, <1>4 DEF GenerationsCountAges
<1>10. LiveSessionsOwnTheirSlots'
  <2>1. ASSUME NEW k \in 1..(n + 1), sessions'[k].age = 0
        PROVE  slots'[sessions'[k].slot].pair = sessions'[k].pair
    <3>1. CASE k = n + 1
      BY <3>1, <1>0, <1>4, <1>5
    <3>2. CASE k # n + 1
      BY <3>2, <2>1, <1>2, <1>4, <1>5, <1>6, SMTT(20) DEF LiveSessionsOwnTheirSlots
    <3> QED BY <3>1, <3>2
  <2>2. ASSUME NEW k \in 1..(n + 1), NEW j \in 1..(n + 1),
               sessions'[k].age = 0, sessions'[j].age = 0,
               sessions'[j].slot = sessions'[k].slot
        PROVE  j = k
    <3>1. CASE j \in 1..n /\ k \in 1..n
      BY <3>1, <2>2, <1>4 DEF LiveSessionsOwnTheirSlots
    <3>2. CASE j = n + 1 /\ k \in 1..n
      BY <3>2, <2>2, <1>0, <1>4, <1>6
    <3>3. CASE j \in 1..n /\ k = n + 1
      BY <3>3, <2>2, <1>0, <1>4, <1>6
    <3>4. CASE j = n + 1 /\ k = n + 1
      BY <3>4
    <3> QED BY <3>1, <3>2, <3>3, <3>4, <1>2
  <2> QED BY <2>1, <2>2, <1>4 DEF LiveSessionsOwnTheirSlots
<1> QED BY <1>7, <1>8, <1>9, <1>10 DEF IInv

LEMMA DestroyStep ==
    ASSUME IInv, NEW h \in HeldHandles, ContextDestroy(h)
    PROVE  IInv'
<1> DEFINE i == ContextFor(h)
<1>1. i \in Slots
  BY DEF ContextDestroy, Resolves, ContextFor
<1>2. /\ slots' = [slots EXCEPT ![i] =
                     [generation |-> NextGeneration(slots[i].generation),
                      pair |-> NoPair]]
      /\ sessions' = [k \in DOMAIN sessions |->
                        IF sessions[k].slot = i
                        THEN [sessions[k] EXCEPT !.age = @ + 1]
                        ELSE sessions[k]]
  BY DEF ContextDestroy
<1> HIDE DEF i
<1>3. /\ slots' \in [Slots -> Slot]
      /\ \A j \in Slots \ {i} : slots'[j] = slots[j]
      /\ slots'[i].generation = NextGeneration(slots[i].generation)
  <2>1. NextGeneration(slots[i].generation) \in Generations
    BY <1>1, NextGenerationType DEF IInv, ContextTypeOK
  <2> QED BY <1>1, <1>2, <2>1 DEF IInv, ContextTypeOK
<1>4. /\ DOMAIN sessions' = DOMAIN sessions
      /\ \A k \in DOMAIN sessions :
           /\ sessions[k] \in Session
           /\ sessions'[k] \in Session
           /\ sessions'[k].slot = sessions[k].slot
           /\ sessions'[k].generation = sessions[k].generation
           /\ sessions'[k].handle = sessions[k].handle
           /\ sessions'[k].pair = sessions[k].pair
           /\ sessions'[k].age = IF sessions[k].slot = i
                                 THEN sessions[k].age + 1
                                 ELSE sessions[k].age
  <2>1. \A k \in DOMAIN sessions : sessions[k] \in Session
    <3> HIDE DEF Session
    <3> QED BY SessionEntries DEF IInv, ContextTypeOK
  <2>2. /\ DOMAIN sessions' = DOMAIN sessions
        /\ \A k \in DOMAIN sessions :
             sessions'[k] = IF sessions[k].slot = i
                            THEN [sessions[k] EXCEPT !.age = @ + 1]
                            ELSE sessions[k]
    <3> HIDE DEF Session
    <3> QED BY <1>2
  <2>3. ASSUME NEW s \in Session
        PROVE  LET t == [s EXCEPT !.age = @ + 1]
               IN  /\ t \in Session
                   /\ t.slot = s.slot /\ t.generation = s.generation
                   /\ t.handle = s.handle /\ t.pair = s.pair
                   /\ t.age = s.age + 1
    OBVIOUS
  <2>4. ASSUME NEW k \in DOMAIN sessions
        PROVE  /\ sessions[k] \in Session
               /\ sessions'[k] \in Session
               /\ sessions'[k].slot = sessions[k].slot
               /\ sessions'[k].generation = sessions[k].generation
               /\ sessions'[k].handle = sessions[k].handle
               /\ sessions'[k].pair = sessions[k].pair
               /\ sessions'[k].age = IF sessions[k].slot = i
                                     THEN sessions[k].age + 1
                                     ELSE sessions[k].age
    <3> HIDE DEF Session
    <3>1. CASE sessions[k].slot = i
      BY <3>1, <2>1, <2>2, <2>3, ZenonT(40)
    <3>2. CASE sessions[k].slot # i
      BY <3>2, <2>1, <2>2
    <3> QED BY <3>1, <3>2
  <2> QED BY <2>2, <2>4
<1>5. sessions' \in Seq(Session) /\ Len(sessions') = Len(sessions)
  <2> HIDE DEF Session
  <2>1. Len(sessions) \in Nat /\ DOMAIN sessions = 1..Len(sessions)
    BY SessionEntries DEF IInv, ContextTypeOK
  <2>2. sessions' \in [1..Len(sessions) -> Session]
    BY <1>2, <1>4, <2>1
  <2> QED BY <2>1, <2>2
<1>6. ContextTypeOK'
  BY <1>3, <1>5 DEF IInv, ContextTypeOK
<1>7. HandlesNameTheirSlots'
  BY <1>4 DEF IInv, HandlesNameTheirSlots
<1>8. GenerationsCountAges'
  <2> SUFFICES ASSUME NEW k \in DOMAIN sessions,
                      sessions'[k].age < GenerationBound
               PROVE  slots'[sessions[k].slot].generation =
                        Ahead(sessions[k].generation, sessions'[k].age)
    BY <1>4 DEF GenerationsCountAges
  <2>1. CASE sessions[k].slot # i
    BY <2>1, <1>3, <1>4 DEF IInv, GenerationsCountAges
  <2>2. CASE sessions[k].slot = i
    <3>1. /\ sessions[k].age \in Nat
          /\ sessions[k].generation \in Generations
          /\ sessions[k].age + 1 < GenerationBound
          /\ sessions'[k].age = sessions[k].age + 1
      BY <2>2, <1>4
    <3>2. slots[i].generation = Ahead(sessions[k].generation, sessions[k].age)
      BY <2>2, <3>1, GenerationAssumption DEF IInv, GenerationsCountAges
    <3> QED BY <2>2, <1>3, <3>1, <3>2, GenerationStep
  <2> QED BY <2>1, <2>2
<1>9. LiveSessionsOwnTheirSlots'
  BY <1>3, <1>4 DEF IInv, LiveSessionsOwnTheirSlots
<1> QED BY <1>6, <1>7, <1>8, <1>9 DEF IInv

LEMMA InvStep == IInv /\ [ContextNext]_contextVars => IInv'
<1> SUFFICES ASSUME IInv, [ContextNext]_contextVars PROVE IInv'
  OBVIOUS
<1>1. ASSUME NEW p \in Pairs, ContextCreate(p) PROVE IInv'
  BY <1>1, CreateStep
<1>2. ASSUME NEW h \in HeldHandles, ContextDestroy(h) PROVE IInv'
  BY <1>2, DestroyStep
<1>3. CASE UNCHANGED contextVars
  BY <1>3 DEF contextVars, IInv, ContextTypeOK, HandlesNameTheirSlots,
              GenerationsCountAges, LiveSessionsOwnTheirSlots
<1> QED BY <1>1, <1>2, <1>3 DEF ContextNext

-----------------------------------------------------------------------------
LEMMA InvImpliesProperties == IInv => LiveHandlesWork /\ StaleUntilWrap
<1> SUFFICES ASSUME IInv PROVE LiveHandlesWork /\ StaleUntilWrap
  OBVIOUS
<1>1. ASSUME NEW k \in DOMAIN sessions
      PROVE  /\ sessions[k] \in Session
             /\ sessions[k].handle % HandleRadix = sessions[k].slot
             /\ (sessions[k].handle \div HandleRadix) % GenerationBound
                  = sessions[k].generation
  <2>1. sessions[k] \in Session
    <3> HIDE DEF Session
    <3> QED BY <1>1, SessionEntries DEF IInv, ContextTypeOK
  <2>2. sessions[k].handle = ContextHandle(sessions[k].slot, sessions[k].generation)
    BY <1>1 DEF IInv, HandlesNameTheirSlots
  <2> QED BY <2>1, <2>2, HandleArithmetic
<1>2. LiveHandlesWork
  <2> SUFFICES ASSUME NEW k \in DOMAIN sessions, sessions[k].age = 0
               PROVE  /\ Resolves(sessions[k].handle)
                      /\ slots[ContextFor(sessions[k].handle)].pair = sessions[k].pair
                      /\ \A j \in DOMAIN sessions :
                           /\ sessions[j].age = 0
                           /\ sessions[j].handle = sessions[k].handle
                           => j = k
    BY DEF LiveHandlesWork
  <2>1. /\ slots[sessions[k].slot].pair = sessions[k].pair
        /\ sessions[k].pair # NoPair
    BY <1>1, PairsAssumption DEF IInv, LiveSessionsOwnTheirSlots
  <2>2. slots[sessions[k].slot].generation = sessions[k].generation
    <3>1. Ahead(sessions[k].generation, 0) = sessions[k].generation
      BY <1>1, GenerationStep, GenerationAssumption
    <3> QED BY <3>1, <1>1, GenerationAssumption DEF IInv, GenerationsCountAges
  <2>3. Resolves(sessions[k].handle)
    BY <1>1, <2>1, <2>2 DEF Resolves
  <2>4. ASSUME NEW j \in DOMAIN sessions, sessions[j].age = 0,
               sessions[j].handle = sessions[k].handle
        PROVE  j = k
    <3>1. sessions[j].slot = sessions[k].slot
      BY <2>4, <1>1
    <3> QED BY <2>4, <3>1 DEF IInv, LiveSessionsOwnTheirSlots
  <2> QED BY <1>1, <2>1, <2>3, <2>4 DEF ContextFor
<1>3. StaleUntilWrap
  <2> SUFFICES ASSUME NEW k \in DOMAIN sessions,
                      sessions[k].age \in 1..(GenerationBound - 2),
                      Resolves(sessions[k].handle)
               PROVE  FALSE
    BY DEF StaleUntilWrap
  <2>1. /\ sessions[k].age \in Nat
        /\ sessions[k].age > 0
        /\ sessions[k].age + 1 < GenerationBound
        /\ sessions[k].age < GenerationBound
    BY GenerationAssumption
  <2>2. slots[sessions[k].slot].generation # sessions[k].generation
    BY <1>1, <2>1, GenerationStep DEF IInv, GenerationsCountAges
  <2> QED BY <1>1, <2>2 DEF Resolves
<1> QED BY <1>2, <1>3

(* The table always holds slots of the right shape, and the sessions are   *)
(* those that were created (type correctness of the context table).        *)
THEOREM ContextTypes == ContextSpec => []ContextTypeOK
<1>1. IInv => ContextTypeOK
  BY DEF IInv
<1> QED BY <1>1, InitHolds, InvStep, PTL DEF ContextSpec

(* A context that nobody destroyed is reached by its handle and by no      *)
(* other, however many contexts were created and destroyed before.         *)
THEOREM LiveHandlesAlwaysWork == ContextSpec => []LiveHandlesWork
<1> QED BY InitHolds, InvStep, InvImpliesProperties, PTL DEF ContextSpec

(* A stale handle is refused for a whole cycle of generations: 65534       *)
(* further destroys of its slot with the u16 of the code.                  *)
THEOREM StaleHandlesAreRefused == ContextSpec => []StaleUntilWrap
<1> QED BY InitHolds, InvStep, InvImpliesProperties, PTL DEF ContextSpec

-------------------------------------------------------------------------------

(***************************************************************************)
(* The blocks of the heap by owner: the table, the buffers of the callers, *)
(* the compile in progress.                                                *)
(***************************************************************************)
ContextBlocks(table) ==
    UNION {SlotMemory(i) : i \in {n \in Slots : table[n].pair # NoPair}}
ResultBlocks(buffers) ==
    UNION {ResultMemory(r, buffers[r]) : r \in {b \in Buffers : buffers[b] # NoResult}}
JobBlocks(j) == IF j = NoJob THEN {} ELSE Deferred(j)

Temporaries ==
    {"sources", "rewritten", "frontend results", "snapshot", "package", "hosts", "object"}
OnlyTemporaries(blocks) == \A b \in blocks : b[1] \in Temporaries

(***************************************************************************)
(* The inductive invariant.                                                *)
(***************************************************************************)
(* What a result says of its compile. *)
Matching(res) ==
    res.status = Ok =>
        /\ res.artifact
        /\ res.pair = res.request.pair
        /\ res.spent <= res.request.functions
        /\ res.link.functions <= res.request.functions
        /\ res.link.size <= res.request.bytes
Explained(res) ==
    res.status # Ok =>
        /\ ~res.artifact
        /\ res.diagnostic /\ res.record # NoRecord => res.record = res.status
        /\ ~res.diagnostic => res.status = ResourceLimit

(* A compile counts without wrapping, for the pair its request names, into *)
(* a buffer that is empty; before the frontend there is nothing to free    *)
(* but the sources, and only while the frontend is at a module with plans  *)
(* does it keep what the switch was.                                       *)
JobOK(j) ==
    /\ j \in Job
    /\ j.pair = j.request.pair
    /\ j.stage = "sources" => j.compiled = 0
    /\ j.spent = j.functions
    /\ j.spent <= j.request.functions
    /\ results[j.buffer] = NoResult
    /\ j.inlining => /\ j.stage = "frontend" /\ j.compiled < Len(j.request.modules)
                     /\ j.request.modules[j.compiled + 1].inlined
JobInv == job # NoJob => JobOK(job)

HeapInv ==
    heap = ContextBlocks(slots) \cup ResultBlocks(results) \cup JobBlocks(job) \cup Lost(trapped)

ResultsInv ==
    \A r \in Buffers : Held(r) => Matching(results[r]) /\ Explained(results[r])

CompileInv ==
    /\ IInv
    /\ TypeOK
    /\ JobInv
    /\ ResultsInv
    /\ HeapInv

(* The switch is on while a module with plans is compiled; without a trap  *)
(* in one it is off at any other time, and that is what is kept meanwhile. *)
Spoilt == "inlined" \in trapped
PureInv ==
    ~Spoilt =>
        /\ feedback => job # NoJob /\ job.inlining
        /\ job # NoJob => ~job.tainted /\ ~(job.inlining /\ job.previousFeedback)
        /\ PureUntilTrap

-----------------------------------------------------------------------------
(* Every block says what it is.                                            *)
LEMMA Tags ==
    /\ \A j : OnlyTemporaries(Deferred(j))
    /\ \A j : OnlyTemporaries(JobBlocks(j))
    /\ \A i : \A b \in SlotMemory(i) : b[1] \in {"profile", "pack"} /\ b[2] = i
    /\ \A r, res : \A b \in ResultMemory(r, res) :
         b[1] \in {"artifact", "diagnostic", "records"} /\ b[2] = r
<1>1. \A j : OnlyTemporaries(Deferred(j))
  <2> TAKE j
  <2> SUFFICES ASSUME NEW b \in Deferred(j) PROVE b[1] \in Temporaries
    BY DEF OnlyTemporaries
  <2>1. \A condition, block : b \in Given(condition, block) => b = block
    BY DEF Given
  <2>2. \/ b = <<"sources", 0>> \/ (\E i \in j.rewritten : b = <<"rewritten", i>>)
        \/ (\E i \in 1..j.compiled : b = <<"snapshot", i>>)
        \/ b = <<"frontend results", 0>> \/ b = <<"package", 0>>
        \/ b = <<"hosts", 0>> \/ b = <<"object", 0>>
    BY <2>1, Zenon DEF Deferred
  <2>3. \A kind, i : b = <<kind, i>> => b[1] = kind
    OBVIOUS
  <2>4. \E kind \in Temporaries : \E i : b = <<kind, i>>
    BY <2>2 DEF Temporaries
  <2> QED BY <2>3, <2>4
<1>2. \A j : OnlyTemporaries(JobBlocks(j))
  BY <1>1 DEF JobBlocks, OnlyTemporaries
<1>3. \A i : \A b \in SlotMemory(i) : b[1] \in {"profile", "pack"} /\ b[2] = i
  BY DEF SlotMemory
<1>4. \A r, res : \A b \in ResultMemory(r, res) :
         b[1] \in {"artifact", "diagnostic", "records"} /\ b[2] = r
  BY DEF ResultMemory, Given
<1> QED BY <1>1, <1>2, <1>3, <1>4

LEMMA OwnersDiffer ==
    ASSUME NEW table, NEW buffers, NEW blocks, OnlyTemporaries(blocks), NEW kinds
    PROVE  /\ ContextBlocks(table) \cap ResultBlocks(buffers) = {}
           /\ ContextBlocks(table) \cap blocks = {}
           /\ ResultBlocks(buffers) \cap blocks = {}
           /\ Lost(kinds) \cap blocks = {}
<1>1. \A b \in ContextBlocks(table) : b[1] \in {"profile", "pack"}
  BY Tags DEF ContextBlocks
<1>2. \A b \in ResultBlocks(buffers) : b[1] \in {"artifact", "diagnostic", "records"}
  BY Tags DEF ResultBlocks
<1>3. \A b \in Lost(kinds) : b[1] = "lost"
  BY DEF Lost
<1> QED BY <1>1, <1>2, <1>3 DEF OnlyTemporaries, Temporaries

(* Nobody frees what a trap lost.                                          *)
LEMMA LostStays ==
    ASSUME NEW kinds, NEW i, NEW res
    PROVE  /\ Lost(kinds) \cap SlotMemory(i) = {}
           /\ Lost(kinds) \cap ResultMemory(i, res) = {}
<1>1. \A b \in Lost(kinds) : b[1] = "lost"
  BY DEF Lost
<1> QED BY <1>1, Tags

(* A buffer that is filled adds its blocks, one that is freed takes them   *)
(* away, and no other's.                                                   *)
LEMMA ResultFilled ==
    ASSUME NEW S, NEW buffers \in [Buffers -> S], NEW r \in Buffers, buffers[r] = NoResult,
           NEW res, res # NoResult
    PROVE  ResultBlocks([buffers EXCEPT ![r] = res])
               = ResultBlocks(buffers) \cup ResultMemory(r, res)
<1> DEFINE filled == [buffers EXCEPT ![r] = res]
<1>1. filled[r] = res /\ \A b \in Buffers \ {r} : filled[b] = buffers[b]
  OBVIOUS
<1>2. ASSUME NEW x \in ResultBlocks(filled)
      PROVE  x \in ResultBlocks(buffers) \cup ResultMemory(r, res)
  BY <1>1, <1>2 DEF ResultBlocks
<1>3. ASSUME NEW x \in ResultBlocks(buffers) PROVE x \in ResultBlocks(filled)
  BY <1>1, <1>3 DEF ResultBlocks
<1>4. ASSUME NEW x \in ResultMemory(r, res) PROVE x \in ResultBlocks(filled)
  BY <1>1, <1>4 DEF ResultBlocks
<1> HIDE DEF filled
<1>5. ResultBlocks(filled) = ResultBlocks(buffers) \cup ResultMemory(r, res)
  BY <1>2, <1>3, <1>4
<1> QED BY <1>5 DEF filled

LEMMA ResultEmptied ==
    ASSUME NEW S, NEW buffers \in [Buffers -> S], NEW r \in Buffers, buffers[r] # NoResult
    PROVE  ResultBlocks([buffers EXCEPT ![r] = NoResult])
               = ResultBlocks(buffers) \ ResultMemory(r, buffers[r])
<1> DEFINE emptied == [buffers EXCEPT ![r] = NoResult]
<1>1. emptied[r] = NoResult /\ \A b \in Buffers \ {r} : emptied[b] = buffers[b]
  OBVIOUS
<1>2. ASSUME NEW x \in ResultBlocks(emptied)
      PROVE  x \in ResultBlocks(buffers) \ ResultMemory(r, buffers[r])
  <2>1. PICK b \in Buffers : emptied[b] # NoResult /\ x \in ResultMemory(b, emptied[b])
    BY <1>2 DEF ResultBlocks
  <2>2. b # r /\ buffers[b] = emptied[b]
    BY <1>1, <2>1
  <2>3. x \in ResultBlocks(buffers)
    BY <2>1, <2>2 DEF ResultBlocks
  <2>4. x \notin ResultMemory(r, buffers[r])
    BY <2>1, <2>2, Tags
  <2> QED BY <2>3, <2>4
<1>3. ASSUME NEW x \in ResultBlocks(buffers), x \notin ResultMemory(r, buffers[r])
      PROVE  x \in ResultBlocks(emptied)
  BY <1>1, <1>3 DEF ResultBlocks
<1> HIDE DEF emptied
<1>4. ResultBlocks(emptied) = ResultBlocks(buffers) \ ResultMemory(r, buffers[r])
  BY <1>2, <1>3
<1> QED BY <1>4 DEF emptied

LEMMA ContextFilled ==
    ASSUME NEW table \in [Slots -> Slot], NEW i \in Slots, table[i].pair = NoPair,
           NEW p \in Pairs
    PROVE  ContextBlocks([table EXCEPT ![i].pair = p])
               = ContextBlocks(table) \cup SlotMemory(i)
<1> DEFINE filled == [table EXCEPT ![i].pair = p]
<1>1. filled[i].pair # NoPair /\ \A n \in Slots \ {i} : filled[n] = table[n]
  BY PairsAssumption
<1> HIDE DEF filled
<1>2. ASSUME NEW x \in ContextBlocks(filled)
      PROVE  x \in ContextBlocks(table) \cup SlotMemory(i)
  BY <1>1, <1>2 DEF ContextBlocks
<1>3. ASSUME NEW x \in ContextBlocks(table) PROVE x \in ContextBlocks(filled)
  BY <1>1, <1>3 DEF ContextBlocks
<1>4. ASSUME NEW x \in SlotMemory(i) PROVE x \in ContextBlocks(filled)
  BY <1>1, <1>4 DEF ContextBlocks
<1>5. ContextBlocks(filled) = ContextBlocks(table) \cup SlotMemory(i)
  BY <1>2, <1>3, <1>4
<1> QED BY <1>5 DEF filled

LEMMA ContextEmptied ==
    ASSUME NEW table \in [Slots -> Slot], NEW i \in Slots, table[i].pair # NoPair, NEW g
    PROVE  ContextBlocks([table EXCEPT ![i] = [generation |-> g, pair |-> NoPair]])
               = ContextBlocks(table) \ SlotMemory(i)
<1> DEFINE emptied == [table EXCEPT ![i] = [generation |-> g, pair |-> NoPair]]
<1>1. emptied[i].pair = NoPair /\ \A n \in Slots \ {i} : emptied[n] = table[n]
  OBVIOUS
<1> HIDE DEF emptied
<1>2. ASSUME NEW x \in ContextBlocks(emptied)
      PROVE  x \in ContextBlocks(table) \ SlotMemory(i)
  <2>1. PICK n \in Slots : emptied[n].pair # NoPair /\ x \in SlotMemory(n)
    BY <1>2 DEF ContextBlocks
  <2>2. n # i /\ table[n] = emptied[n]
    BY <1>1, <2>1
  <2>3. x \in ContextBlocks(table)
    BY <2>1, <2>2 DEF ContextBlocks
  <2>4. x \notin SlotMemory(i)
    BY <2>1, <2>2, Tags
  <2> QED BY <2>3, <2>4
<1>3. ASSUME NEW x \in ContextBlocks(table), x \notin SlotMemory(i)
      PROVE  x \in ContextBlocks(emptied)
  BY <1>1, <1>3 DEF ContextBlocks
<1>4. ContextBlocks(emptied) = ContextBlocks(table) \ SlotMemory(i)
  BY <1>2, <1>3
<1> QED BY <1>4 DEF emptied

-----------------------------------------------------------------------------
(***************************************************************************)
(* The steps that end a compile, as the invariants see them: a result that *)
(* is explained goes to an empty buffer, and all that the compile had, and *)
(* temporaries only, are freed.                                            *)
(***************************************************************************)
Ends ==
    \E r \in Buffers, res \in Result : \E freed :
        /\ results[r] = NoResult
        /\ Publish(r, res, freed)
        /\ Matching(res) /\ Explained(res)
        /\ res.tainted => job # NoJob /\ job.tainted
        /\ JobBlocks(job) \subseteq freed
        /\ OnlyTemporaries(freed)
        /\ feedback' = IF job # NoJob THEN Restored ELSE feedback
        /\ UNCHANGED <<slots, sessions, trapped>>

LEMMA FailureShape ==
    ASSUME NEW req \in Requests, NEW pair \in Pairs \cup {NoPair}, NEW status \in 1..7,
           NEW res \in Failures(req, pair, status)
    PROVE  /\ res \in Result
           /\ Matching(res) /\ Explained(res)
           /\ ~res.tainted
<1>1. PICK message \in BOOLEAN, kept \in BOOLEAN :
        res = Failure(IF message THEN status ELSE ResourceLimit, message,
                      IF kept THEN status ELSE NoRecord, req, pair)
  <2>1. Copied \subseteq BOOLEAN
    BY DEF Copied
  <2>2. \E message \in Copied, kept \in Copied :
          res = Failure(IF message THEN status ELSE ResourceLimit, message,
                        IF kept THEN status ELSE NoRecord, req, pair)
    BY DEF Failures
  <2> QED BY <2>1, <2>2
<1>2. /\ res.status = IF message THEN status ELSE ResourceLimit
      /\ ~res.artifact /\ res.diagnostic = message
      /\ res.record = IF kept THEN status ELSE NoRecord
      /\ ~res.tainted
  BY <1>1 DEF Failure
<1>3. res \in Result
  BY <1>1 DEF Failure, Result, ResourceLimit
<1> QED BY <1>2, <1>3 DEF Matching, Explained, Ok, ResourceLimit

LEMMA RejectEnds ==
    ASSUME JobInv, job # NoJob, ~job.inlining, NEW status \in 1..7, Reject(status)
    PROVE  Ends
<1>1. PICK res \in Failures(job.request, job.pair, status) :
        Publish(job.buffer, res, Deferred(job))
  BY DEF Reject
<1>2. job.buffer \in Buffers /\ job.request \in Requests /\ job.pair \in Pairs
      /\ results[job.buffer] = NoResult
  BY DEF JobInv, JobOK, Job
<1>3. res \in Result /\ Matching(res) /\ Explained(res) /\ ~res.tainted
  BY <1>2, FailureShape
<1>4. JobBlocks(job) = Deferred(job) /\ OnlyTemporaries(Deferred(job))
  BY Tags DEF JobBlocks
<1>5. feedback' = Restored /\ UNCHANGED <<slots, sessions, trapped>>
  BY DEF Reject, Restored
<1> QED BY <1>1, <1>2, <1>3, <1>4, <1>5 DEF Ends

LEMMA FrontendFailedEnds ==
    ASSUME JobInv, NEW status \in 1..7, FrontendFailed(status)
    PROVE  Ends
<1> DEFINE counted == [job EXCEPT !.compiled = @ + 1]
<1>1. PICK res \in Failures(job.request, job.pair, status) :
        Publish(job.buffer, res, Deferred(counted))
  BY DEF FrontendFailed
<1>2. job # NoJob /\ job \in Job /\ results[job.buffer] = NoResult
  BY DEF JobInv, JobOK, FrontendFailed, Compiling
<1>3. res \in Result /\ Matching(res) /\ Explained(res) /\ ~res.tainted
  BY <1>2, FailureShape DEF Job
<1>4. Deferred(job) \subseteq Deferred(counted)
  <2>1. /\ counted.rewritten = job.rewritten /\ counted.stage = job.stage
        /\ 1..job.compiled \subseteq 1..counted.compiled
    BY <1>2 DEF Job
  <2> HIDE DEF counted
  <2>2. \A stage : Past(counted, stage) = Past(job, stage)
    BY <2>1 DEF Past
  <2> QED BY <2>1, <2>2, Zenon DEF Deferred
<1>5. OnlyTemporaries(Deferred(counted))
  BY Tags
<1>6. job.buffer \in Buffers /\ JobBlocks(job) \subseteq Deferred(counted)
  BY <1>2, <1>4 DEF JobBlocks, Job
<1>7. feedback' = Restored /\ UNCHANGED <<slots, sessions, trapped>>
  BY DEF FrontendFailed
<1> HIDE DEF counted
<1> QED BY <1>1, <1>2, <1>3, <1>5, <1>6, <1>7 DEF Ends

LEMMA RefusalEnds ==
    ASSUME ContextTypeOK, NEW h, NEW req \in Requests, NEW r \in Buffers,
           CompileInvalidContext(h, req, r) \/ CompileRefused(h, req, r)
    PROVE  Ends
<1>1. job = NoJob /\ results[r] = NoResult
  BY DEF CompileInvalidContext, CompileRefused, MayCompile
<1>2. \E pair \in Pairs \cup {NoPair}, status \in 1..7 :
        \E res \in Failures(req, pair, status) : Publish(r, res, {})
  <2>1. CASE CompileInvalidContext(h, req, r)
    BY <2>1 DEF CompileInvalidContext, InvalidContext
  <2>2. CASE CompileRefused(h, req, r)
    <3>1. Resolves(h) /\ slots[ContextFor(h)].pair \in Pairs
      BY <2>2 DEF CompileRefused, Resolves, ContextFor, ContextTypeOK, Slots, Slot
    <3> DEFINE pair == slots[ContextFor(h)].pair
               named == IF req.pair = pair THEN pair ELSE NoPair
    <3>2. RefusedStatus(req, pair) \in 1..7 /\ named \in Pairs \cup {NoPair}
      BY <3>1 DEF RefusedStatus, InvalidRequest, ResourceLimit
    <3>3. PICK res \in Failures(req, NoPair, InvalidRequest)
                       \cup Failures(req, NoPair, ResourceLimit)
                       \cup Failures(req, named, RefusedStatus(req, pair)) :
            Publish(r, res, {})
      BY <2>2 DEF CompileRefused
    <3>4. InvalidRequest \in 1..7 /\ ResourceLimit \in 1..7
      BY DEF InvalidRequest, ResourceLimit
    <3> HIDE DEF pair, named
    <3> QED BY <3>2, <3>3, <3>4
  <2> QED BY <2>1, <2>2
<1>3. PICK pair \in Pairs \cup {NoPair}, status \in 1..7 :
        \E res \in Failures(req, pair, status) : Publish(r, res, {})
  BY <1>2
<1>4. PICK res \in Failures(req, pair, status) : Publish(r, res, {})
  BY <1>3
<1>5. res \in Result /\ Matching(res) /\ Explained(res) /\ ~res.tainted
  BY FailureShape
<1>6. JobBlocks(job) = {} /\ OnlyTemporaries({})
  BY <1>1 DEF JobBlocks, OnlyTemporaries
<1>7. UNCHANGED <<slots, sessions, feedback, trapped>>
  BY DEF CompileInvalidContext, CompileRefused
<1> QED BY <1>1, <1>4, <1>5, <1>6, <1>7 DEF Ends

LEMMA LinkSucceededEnds ==
    ASSUME JobInv, LinkSucceeded
    PROVE  Ends
<1>1. PICK link \in Links :
        /\ Fits(link)
        /\ Publish(job.buffer,
                   [status |-> Ok, artifact |-> TRUE, diagnostic |-> FALSE,
                    record |-> NoRecord, request |-> job.request,
                    pair |-> job.pair, spent |-> job.spent, link |-> link,
                    tainted |-> job.tainted],
                   Deferred(job))
  BY DEF LinkSucceeded
<1> DEFINE res == [status |-> Ok, artifact |-> TRUE, diagnostic |-> FALSE,
                   record |-> NoRecord, request |-> job.request,
                   pair |-> job.pair, spent |-> job.spent, link |-> link,
                   tainted |-> job.tainted]
<1>2. job # NoJob /\ JobOK(job) /\ job \in Job
  BY DEF JobInv, JobOK, LinkSucceeded
<1>3. /\ job.buffer \in Buffers /\ job.request \in Requests /\ job.pair \in Pairs
      /\ job.spent \in Nat /\ job.tainted \in BOOLEAN
  BY <1>2 DEF Job
<1>4. link \in [size : Nat, functions : Nat]
  BY LinksAssumption
<1>5. res \in Result
  BY <1>3, <1>4 DEF Result, Ok
<1>6. Matching(res) /\ Explained(res)
  BY <1>1, <1>2 DEF Matching, Explained, JobOK, Fits, Ok
<1>7. JobBlocks(job) = Deferred(job) /\ OnlyTemporaries(Deferred(job))
  BY <1>2, Tags DEF JobBlocks
<1>8. results[job.buffer] = NoResult /\ (res.tainted => job # NoJob /\ job.tainted)
  BY <1>2 DEF JobOK
<1>9. /\ feedback' = Restored /\ job # NoJob
      /\ UNCHANGED <<slots, sessions, trapped>> /\ Publish(job.buffer, res, Deferred(job))
  BY <1>1, <1>2 DEF LinkSucceeded, Restored, JobOK
<1> HIDE DEF res
<1> QED BY <1>3, <1>5, <1>6, <1>7, <1>8, <1>9 DEF Ends

-----------------------------------------------------------------------------
(***************************************************************************)
(* What the defers of compile free at each stage.                          *)
(***************************************************************************)
Loose(j) ==
    {<<"sources", 0>>} \cup {<<"rewritten", i>> : i \in j.rewritten}
    \cup {<<"snapshot", i>> : i \in 1..j.compiled}
Made(j) ==
    IF j.stage = "sources" THEN {}
    ELSE IF j.stage \in {"frontend", "package"} THEN {<<"frontend results", 0>>}
    ELSE IF j.stage = "hosts" THEN {<<"frontend results", 0>>, <<"package", 0>>}
    ELSE IF j.stage = "object"
    THEN {<<"frontend results", 0>>, <<"package", 0>>, <<"hosts", 0>>}
    ELSE {<<"frontend results", 0>>, <<"package", 0>>, <<"hosts", 0>>, <<"object", 0>>}
StageNames == {"sources", "frontend", "package", "hosts", "object", "link"}

LEMMA StagesAre == {Stages[n] : n \in DOMAIN Stages} = StageNames
  BY DEF Stages, StageNames

LEMMA PastStages ==
    ASSUME NEW j, j.stage \in StageNames
    PROVE  /\ Past(j, "sources") <=> j.stage # "sources"
           /\ Past(j, "package") <=> j.stage \in {"hosts", "object", "link"}
           /\ Past(j, "hosts") <=> j.stage \in {"object", "link"}
           /\ Past(j, "object") <=> j.stage = "link"
<1> DEFINE order == [kind \in StageNames |->
                       CASE kind = "sources" -> 1 [] kind = "frontend" -> 2
                         [] kind = "package" -> 3 [] kind = "hosts" -> 4
                         [] kind = "object" -> 5 [] OTHER -> 6]
<1>1. /\ DOMAIN Stages = 1..6
      /\ Stages[1] = "sources" /\ Stages[2] = "frontend" /\ Stages[3] = "package"
      /\ Stages[4] = "hosts" /\ Stages[5] = "object" /\ Stages[6] = "link"
  BY DEF Stages
<1>2. \A n \in 1..6 : order[Stages[n]] = n
  <2>1. \A n \in 1..6 : n = 1 \/ n = 2 \/ n = 3 \/ n = 4 \/ n = 5 \/ n = 6
    OBVIOUS
  <2> QED BY <1>1, <2>1 DEF StageNames
<1>3. \A kind \in StageNames : order[kind] \in 1..6 /\ Stages[order[kind]] = kind
  BY <1>1 DEF StageNames
<1>4. \A kind \in StageNames : Past(j, kind) <=> order[kind] < order[j.stage]
  <2> HIDE DEF order
  <2> QED BY <1>1, <1>2, <1>3 DEF Past
<1> QED BY <1>4 DEF StageNames

LEMMA DeferredIs ==
    ASSUME NEW j, j.stage \in StageNames
    PROVE  Deferred(j) = Loose(j) \cup Made(j)
<1> DEFINE f == Given(Past(j, "sources"), <<"frontend results", 0>>)
           p == Given(Past(j, "package"), <<"package", 0>>)
           h == Given(Past(j, "hosts"), <<"hosts", 0>>)
           o == Given(Past(j, "object"), <<"object", 0>>)
<1>1. f \cup p \cup h \cup o = Made(j)
  <2> DEFINE a == <<"frontend results", 0>>
             b == <<"package", 0>>
             c == <<"hosts", 0>>
             d == <<"object", 0>>
  <2>1. /\ f = IF j.stage = "sources" THEN {} ELSE {a}
        /\ p = IF j.stage \in {"hosts", "object", "link"} THEN {b} ELSE {}
        /\ h = IF j.stage \in {"object", "link"} THEN {c} ELSE {}
        /\ o = IF j.stage = "link" THEN {d} ELSE {}
    BY PastStages, Zenon DEF Given
  <2>2. Made(j) = IF j.stage = "sources" THEN {}
                  ELSE IF j.stage \in {"frontend", "package"} THEN {a}
                  ELSE IF j.stage = "hosts" THEN {a, b}
                  ELSE IF j.stage = "object" THEN {a, b, c} ELSE {a, b, c, d}
    BY DEF Made
  <2> HIDE DEF a, b, c, d, f, p, h, o
  <2> QED BY <2>1, <2>2 DEF StageNames
<1>2. Deferred(j) = Loose(j) \cup (f \cup p \cup h \cup o)
  <2> DEFINE sources == {<<"sources", 0>>}
             rewritten == {<<"rewritten", i>> : i \in j.rewritten}
             snapshots == {<<"snapshot", i>> : i \in 1..j.compiled}
  <2>1. Deferred(j) = sources \cup rewritten \cup f \cup snapshots \cup p \cup h \cup o
    BY DEF Deferred
  <2>2. Loose(j) = sources \cup rewritten \cup snapshots
    BY DEF Loose
  <2> HIDE DEF f, p, h, o, sources, rewritten, snapshots
  <2> QED BY <2>1, <2>2
<1> HIDE DEF f, p, h, o
<1> QED BY <1>1, <1>2

-----------------------------------------------------------------------------
(***************************************************************************)
(* The steps, as the invariants see them.                                  *)
(***************************************************************************)
(* A compile goes from one stage to the next and owns one block more. *)
Advances ==
    \E stage, block :
        /\ stage \in StageNames /\ job # NoJob
        /\ Advance(stage, block)
        /\ \/ job.stage = "sources" /\ stage = "frontend" /\ block = <<"frontend results", 0>>
           \/ job.stage = "package" /\ stage = "hosts" /\ block = <<"package", 0>>
           \/ job.stage = "hosts" /\ stage = "object" /\ block = <<"hosts", 0>>
           \/ job.stage = "object" /\ stage = "link" /\ block = <<"object", 0>>
Creates == \E p \in Pairs : CreateContext(p)
Destroys == \E h \in HeldHandles : DestroyContext(h)
Starts == \E h \in HeldHandles, req \in Requests, r \in Buffers : CompileStart(h, req, r)
Frees == \E r \in Buffers : ResultFree(r)

LEMMA CompileSteps ==
    ASSUME JobInv, CompileStep
    PROVE  Ends \/ Advances \/ FrontendInlines \/ FrontendAccepted \/ FrontendTrap
<1>0. /\ InvalidRequest \in 1..7 /\ FrontendFailure \in 1..7 /\ BackendFailure \in 1..7
      /\ LinkFailure \in 1..7 /\ ResourceLimit \in 1..7
  BY DEF InvalidRequest, FrontendFailure, BackendFailure, LinkFailure, ResourceLimit
<1>9. job # NoJob /\ job.stage # "frontend" => ~job.inlining
  BY DEF JobInv, JobOK
<1>10. "sources" # "frontend" /\ "package" # "frontend" /\ "hosts" # "frontend"
       /\ "object" # "frontend" /\ "link" # "frontend"
  OBVIOUS
<1>1. CASE FrontendStart
  BY <1>0, <1>1, <1>9, <1>10, RejectEnds, Zenon DEF FrontendStart, Advances, StageNames
<1>2. CASE FrontendBadPlans
  BY <1>0, <1>2, RejectEnds DEF FrontendBadPlans, Compiling
<1>3. CASE FrontendRejected
  BY <1>0, <1>3, FrontendFailedEnds DEF FrontendRejected
<1>4. CASE PackageBuilt
  BY <1>0, <1>4, <1>9, <1>10, RejectEnds, Zenon DEF PackageBuilt, Advances, StageNames
<1>5. CASE HostListEncoded
  BY <1>0, <1>5, <1>9, <1>10, RejectEnds, Zenon DEF HostListEncoded, Advances, StageNames
<1>6. CASE ObjectBuilt
  BY <1>0, <1>6, <1>9, <1>10, RejectEnds, Zenon DEF ObjectBuilt, Advances, StageNames
<1>7. CASE LinkFailed
  BY <1>0, <1>7, <1>9, RejectEnds DEF LinkFailed
<1>8. CASE LinkSucceeded
  BY <1>8, LinkSucceededEnds
<1> QED BY <1>1, <1>2, <1>3, <1>4, <1>5, <1>6, <1>7, <1>8 DEF CompileStep

LEMMA Steps ==
    ASSUME TypeOK, JobInv, [Next]_vars
    PROVE  \/ Creates \/ Destroys \/ Ends \/ Starts \/ Advances
           \/ FrontendInlines \/ FrontendAccepted \/ FrontendTrap \/ Frees \/ FreshInstance
           \/ UNCHANGED vars
<1>1. ASSUME NEW h \in HeldHandles, NEW req \in Requests, NEW r \in Buffers,
             CompileInvalidContext(h, req, r) \/ CompileRefused(h, req, r)
      PROVE  Ends
  BY <1>1, RefusalEnds DEF TypeOK
<1> QED BY <1>1, CompileSteps DEF Next, Creates, Destroys, Starts, Frees

-----------------------------------------------------------------------------
(***************************************************************************)
(* Types.                                                                  *)
(***************************************************************************)
LEMMA StartTypes ==
    ASSUME TypeOK, Starts
    PROVE  JobOK(job)' /\ UNCHANGED <<slots, sessions, results, feedback, trapped>>
<1>1. PICK h \in HeldHandles, req \in Requests, r \in Buffers : CompileStart(h, req, r)
  BY DEF Starts
<1> DEFINE pair == slots[ContextFor(h)].pair
<1>2. PICK rewritten \in SUBSET DOMAIN req.modules :
        job' = [buffer |-> r, request |-> req, pair |-> pair,
                stage |-> "sources", rewritten |-> rewritten,
                compiled |-> 0, functions |-> 0, spent |-> 0,
                inlining |-> FALSE, previousFeedback |-> FALSE, tainted |-> FALSE]
  BY <1>1 DEF CompileStart
<1>3. results' = results /\ results[r] = NoResult /\ req.pair = pair
  BY <1>1 DEF CompileStart, MayCompile, Admissible
<1>4. req.pair \in Pairs /\ rewritten \in SUBSET Nat /\ 0 <= req.functions
  BY RequestsAssumption
<1>5. job' \in Job
  BY <1>2, <1>3, <1>4, CountAssumption, StagesAre DEF Job, StageNames
<1>6. UNCHANGED <<slots, sessions, results, feedback, trapped>>
  BY <1>1 DEF CompileStart
<1> HIDE DEF pair
<1> QED BY <1>2, <1>3, <1>4, <1>5, <1>6 DEF JobOK

LEMMA AdvanceTypes ==
    ASSUME JobInv, Advances
    PROVE  JobOK(job)' /\ UNCHANGED <<slots, sessions, results, feedback, trapped>>
<1>1. PICK stage \in StageNames : job' = [job EXCEPT !.stage = stage] /\ stage # "sources"
  BY DEF Advances, Advance
<1>2. job # NoJob /\ UNCHANGED <<slots, sessions, results, feedback, trapped>>
  BY DEF Advances, Advance
<1>3. job' \in Job
  BY <1>1, <1>2, StagesAre DEF JobInv, JobOK, Job
<1>4. job.stage # "frontend" /\ job \in Job
  BY DEF Advances, JobInv, JobOK
<1>5. job'.inlining = FALSE
  BY <1>1, <1>2, <1>4 DEF JobInv, JobOK, Job
<1> QED BY <1>1, <1>2, <1>3, <1>5 DEF JobInv, JobOK, Job

LEMMA RestoredTypes ==
    ASSUME TypeOK, JobInv, job # NoJob
    PROVE  Restored \in BOOLEAN
  BY DEF TypeOK, JobInv, JobOK, Job, Restored

LEMMA InlinesTypes ==
    ASSUME TypeOK, JobInv, FrontendInlines
    PROVE  /\ JobOK(job)' /\ feedback' \in BOOLEAN
           /\ UNCHANGED <<slots, sessions, results, trapped>>
<1>1. /\ job # NoJob /\ JobOK(job) /\ job \in Job /\ NextModule.inlined
      /\ job.stage = "frontend" /\ job.compiled < Len(job.request.modules)
  BY DEF FrontendInlines, Compiling, JobInv, JobOK
<1>2. job' = [job EXCEPT !.inlining = TRUE, !.previousFeedback = feedback]
      /\ feedback' = TRUE /\ UNCHANGED <<slots, sessions, results, trapped>>
  BY DEF FrontendInlines
<1>3. feedback \in BOOLEAN
  BY DEF TypeOK
<1>4. job' \in Job
  BY <1>1, <1>2, <1>3 DEF Job
<1>5. /\ job'.pair = job.pair /\ job'.request = job.request /\ job'.stage = job.stage
      /\ job'.compiled = job.compiled /\ job'.spent = job.spent
      /\ job'.functions = job.functions /\ job'.buffer = job.buffer
  BY <1>1, <1>2 DEF Job
<1> QED BY <1>1, <1>2, <1>4, <1>5 DEF JobOK, NextModule

LEMMA AcceptedTypes ==
    ASSUME TypeOK, JobInv, FrontendAccepted
    PROVE  /\ JobOK(job)' /\ feedback' \in BOOLEAN
           /\ UNCHANGED <<slots, sessions, results, trapped>>
<1>1. PICK usage \in Usages :
         /\ WithinBudget(usage)
         /\ job' = [job EXCEPT
                      !.compiled = @ + 1,
                      !.functions = (@ + usage.functions) % (MaxCount + 1),
                      !.spent = @ + usage.functions,
                      !.inlining = FALSE,
                      !.previousFeedback = FALSE,
                      !.tainted = @ \/ Taints,
                      !.stage = IF job.compiled + 1 = Len(job.request.modules)
                                THEN "package" ELSE @]
  BY DEF FrontendAccepted
<1>2. job # NoJob /\ JobOK(job) /\ job.stage = "frontend"
  BY DEF FrontendAccepted, Bytecoding, Compiling, JobInv
<1>3. usage.functions \in 0..MaxCount /\ job.functions \in 0..MaxCount
      /\ job.spent \in Nat /\ job.compiled \in Nat
  BY <1>2, UsagesAssumption DEF JobOK, Job
<1>4. job.functions + usage.functions \in 0..MaxCount
      /\ job.functions + usage.functions <= job.request.functions
  BY <1>1, <1>3, CountAssumption DEF WithinBudget
<1>5. (job.functions + usage.functions) % (MaxCount + 1) = job.functions + usage.functions
  BY <1>4, CountAssumption
<1>6. job' \in Job
  <2>1. job.compiled + 1 \in Nat /\ job.spent + usage.functions \in Nat
    BY <1>3, <1>4
  <2>2. (job.functions + usage.functions) % (MaxCount + 1) \in 0..MaxCount
    BY <1>4, <1>5
  <2>3. (job.tainted \/ Taints) \in BOOLEAN
    OBVIOUS
  <2>4. (IF job.compiled + 1 = Len(job.request.modules) THEN "package" ELSE job.stage)
             \in {Stages[n] : n \in DOMAIN Stages}
    BY <1>2, StagesAre DEF StageNames
  <2>5. job \in Job
    BY <1>2 DEF JobOK
  <2> QED BY <1>1, <2>1, <2>2, <2>3, <2>4, <2>5 DEF Job
<1>7. feedback' \in BOOLEAN /\ UNCHANGED <<slots, sessions, results, trapped>>
  BY <1>2, RestoredTypes DEF FrontendAccepted
<1>8. /\ job'.spent = job'.functions /\ job'.spent <= job'.request.functions
      /\ job'.pair = job'.request.pair /\ job'.stage # "sources"
      /\ job'.buffer = job.buffer /\ ~job'.inlining
  BY <1>1, <1>2, <1>4, <1>5 DEF JobOK, Job
<1> QED BY <1>2, <1>6, <1>7, <1>8 DEF JobOK

LEMMA TypesStep == IInv /\ TypeOK /\ JobInv /\ [Next]_vars => IInv' /\ TypeOK' /\ JobInv'
<1> SUFFICES ASSUME IInv, TypeOK, JobInv, [Next]_vars PROVE IInv' /\ TypeOK' /\ JobInv'
  OBVIOUS
<1>0. UNCHANGED contextVars => IInv'
  BY InvStep
<1>1. CASE Creates
  <2>1. PICK p \in Pairs : CreateContext(p)
    BY <1>1 DEF Creates
  <2>2. ContextCreate(p) /\ UNCHANGED <<job, results, feedback, trapped>> /\ job = NoJob
    BY <2>1 DEF CreateContext
  <2>3. IInv' /\ ContextTypeOK'
    BY <2>2, CreateStep DEF IInv
  <2> QED BY <2>2, <2>3 DEF TypeOK, JobInv
<1>2. CASE Destroys
  <2>1. PICK h \in HeldHandles : DestroyContext(h)
    BY <1>2 DEF Destroys
  <2>2. ContextDestroy(h) /\ UNCHANGED <<job, results, feedback, trapped>> /\ job = NoJob
    BY <2>1 DEF DestroyContext
  <2>3. IInv' /\ ContextTypeOK'
    BY <2>2, DestroyStep DEF IInv
  <2> QED BY <2>2, <2>3 DEF TypeOK, JobInv
<1>3. CASE Ends
  <2>1. PICK r \in Buffers, res \in Result : job' = NoJob /\ results' = [results EXCEPT ![r] = res]
    BY <1>3 DEF Ends, Publish
  <2>2. UNCHANGED <<slots, sessions, trapped>> /\ feedback' \in BOOLEAN
    BY <1>3, RestoredTypes DEF Ends, TypeOK
  <2>3. IInv' /\ ContextTypeOK'
    BY <2>2, <1>0 DEF contextVars, IInv
  <2> QED BY <2>1, <2>2, <2>3 DEF TypeOK, JobInv
<1>4. ASSUME JobOK(job)', feedback' \in BOOLEAN, UNCHANGED <<slots, sessions, results, trapped>>
      PROVE  IInv' /\ TypeOK' /\ JobInv'
  <2>1. IInv' /\ ContextTypeOK'
    BY <1>4, <1>0 DEF contextVars, IInv
  <2> QED BY <1>4, <2>1 DEF TypeOK, JobInv, JobOK
<1>5. CASE Starts \/ Advances \/ FrontendInlines \/ FrontendAccepted
  BY <1>4, <1>5, StartTypes, AdvanceTypes, InlinesTypes, AcceptedTypes DEF TypeOK
<1>6. CASE FrontendTrap
  <2>1. job # NoJob
    BY <1>6 DEF FrontendTrap, Bytecoding, Compiling
  <2>2. /\ job' = NoJob /\ feedback' \in BOOLEAN /\ UNCHANGED <<slots, sessions, results>>
        /\ trapped' \subseteq Kinds
    BY <1>6, <2>1, RestoredTypes DEF FrontendTrap, TypeOK, Kinds
  <2>3. IInv' /\ ContextTypeOK'
    BY <2>2, <1>0 DEF contextVars, IInv
  <2> QED BY <2>2, <2>3 DEF TypeOK, JobInv
<1>7. CASE Frees
  <2>1. PICK r \in Buffers : ResultFree(r)
    BY <1>7 DEF Frees
  <2>2. IInv' /\ ContextTypeOK'
    BY <2>1, <1>0 DEF ResultFree, contextVars, IInv
  <2> QED BY <2>1, <2>2 DEF ResultFree, TypeOK, JobInv
<1>8. CASE FreshInstance
  <2>1. ContextInit' => IInv'
    BY InitHolds, PTL
  <2>2. IInv' /\ ContextTypeOK'
    BY <1>8, <2>1 DEF FreshInstance, ContextInit, IInv
  <2> QED BY <1>8, <2>2 DEF FreshInstance, TypeOK, JobInv
<1>9. CASE UNCHANGED vars
  <2>1. IInv' /\ ContextTypeOK'
    BY <1>9, <1>0 DEF vars, contextVars, IInv
  <2> QED BY <1>9, <2>1 DEF vars, TypeOK, JobInv, JobOK
<1> QED BY <1>1, <1>2, <1>3, <1>5, <1>6, <1>7, <1>8, <1>9, Steps

-----------------------------------------------------------------------------
(***************************************************************************)
(* Memory.                                                                 *)
(***************************************************************************)
LEMMA CreatesKeepsHeap ==
    ASSUME IInv, TypeOK, HeapInv, Creates
    PROVE  HeapInv'
<1>1. PICK p \in Pairs : CreateContext(p)
  BY DEF Creates
<1>2. PICK i \in Slots : FirstFree(i) /\ slots' = [slots EXCEPT ![i].pair = p]
  BY <1>1 DEF CreateContext, ContextCreate
<1>3. \A n \in Slots : FirstFree(n) => n = i
  <2>1. \A n \in Slots : n \in Nat /\ n >= 1
    BY DEF Slots
  <2>2. SUFFICES ASSUME NEW n \in Slots, FirstFree(n) PROVE n = i
    OBVIOUS
  <2>3. n < i => slots[n].pair # NoPair
    BY <1>2, <2>1 DEF FirstFree, Slots
  <2>4. i < n => slots[i].pair # NoPair
    BY <2>1, <2>2 DEF FirstFree, Slots
  <2> QED BY <1>2, <2>1, <2>2, <2>3, <2>4 DEF FirstFree
<1>4. UNION {SlotMemory(n) : n \in {m \in Slots : FirstFree(m)}} = SlotMemory(i)
  BY <1>2, <1>3
<1>5. heap' = heap \cup SlotMemory(i) /\ UNCHANGED <<job, results, trapped>>
  BY <1>1, <1>4 DEF CreateContext
<1>6. ContextBlocks(slots') = ContextBlocks(slots) \cup SlotMemory(i)
  BY <1>2, ContextFilled DEF TypeOK, ContextTypeOK, FirstFree
<1> QED BY <1>5, <1>6 DEF HeapInv

LEMMA DestroysKeepsHeap ==
    ASSUME IInv, TypeOK, HeapInv, Destroys
    PROVE  HeapInv'
<1>1. PICK h \in HeldHandles : DestroyContext(h)
  BY DEF Destroys
<1> DEFINE i == ContextFor(h)
<1>2. /\ i \in Slots /\ slots[i].pair # NoPair
      /\ \E g : slots' = [slots EXCEPT ![i] = [generation |-> g, pair |-> NoPair]]
  BY <1>1 DEF DestroyContext, ContextDestroy, Resolves, ContextFor
<1>3. heap' = heap \ SlotMemory(i) /\ UNCHANGED <<job, results, trapped>> /\ job = NoJob
  BY <1>1 DEF DestroyContext
<1>4. ContextBlocks(slots') = ContextBlocks(slots) \ SlotMemory(i)
  BY <1>2, ContextEmptied DEF TypeOK, ContextTypeOK
<1>5. ResultBlocks(results) \cap SlotMemory(i) = {}
  <2>1. \A b \in ResultBlocks(results) : b[1] \in {"artifact", "diagnostic", "records"}
    BY Tags DEF ResultBlocks
  <2> QED BY <2>1, Tags
<1>6. Lost(trapped) \cap SlotMemory(i) = {}
  BY LostStays
<1> HIDE DEF i
<1> QED BY <1>3, <1>4, <1>5, <1>6 DEF HeapInv, JobBlocks

LEMMA EndsKeepsHeap ==
    ASSUME TypeOK, HeapInv, Ends
    PROVE  HeapInv'
<1>1. PICK r \in Buffers, res \in Result : \E freed :
        /\ results[r] = NoResult
        /\ Publish(r, res, freed)
        /\ JobBlocks(job) \subseteq freed
        /\ OnlyTemporaries(freed)
        /\ UNCHANGED <<slots, sessions, trapped>>
  BY DEF Ends
<1>2. PICK freed :
        /\ results[r] = NoResult
        /\ Publish(r, res, freed)
        /\ JobBlocks(job) \subseteq freed
        /\ OnlyTemporaries(freed)
        /\ UNCHANGED <<slots, sessions, trapped>>
  BY <1>1
<1>3. /\ heap' = (heap \ freed) \cup ResultMemory(r, res) /\ JobBlocks(job') = {}
      /\ results' = [results EXCEPT ![r] = res] /\ res # NoResult
  BY <1>2, NothingsAssumption DEF Publish, JobBlocks
<1>4. ResultBlocks(results') = ResultBlocks(results) \cup ResultMemory(r, res)
  BY <1>2, <1>3, ResultFilled DEF TypeOK
<1>5. /\ ContextBlocks(slots) \cap freed = {} /\ ResultBlocks(results) \cap freed = {}
      /\ Lost(trapped) \cap freed = {}
  BY <1>2, OwnersDiffer
<1> QED BY <1>2, <1>3, <1>4, <1>5 DEF HeapInv

(* What a compile in progress makes is freed by the defers it then has.    *)
LEMMA StartsKeepsHeap ==
    ASSUME TypeOK, HeapInv, Starts
    PROVE  HeapInv'
<1>1. PICK h \in HeldHandles, req \in Requests, r \in Buffers : CompileStart(h, req, r)
  BY DEF Starts
<1>2. PICK rewritten \in SUBSET DOMAIN req.modules :
        /\ job'.stage = "sources" /\ job'.rewritten = rewritten /\ job'.compiled = 0
        /\ heap' = heap \cup {<<"sources", 0>>} \cup {<<"rewritten", i>> : i \in rewritten}
  BY <1>1 DEF CompileStart
<1>3. job = NoJob /\ UNCHANGED <<slots, results, trapped>>
  BY <1>1 DEF CompileStart, MayCompile
<1>4. job' # NoJob
  BY StartTypes, NothingsAssumption DEF JobOK
<1>5. Deferred(job') = {<<"sources", 0>>} \cup {<<"rewritten", i>> : i \in rewritten}
  <2>1. Deferred(job') = Loose(job') \cup Made(job')
    BY <1>2, DeferredIs DEF StageNames
  <2>2. Made(job') = {} /\ 1..job'.compiled = {}
    BY <1>2 DEF Made
  <2> QED BY <1>2, <2>1, <2>2 DEF Loose
<1> QED BY <1>2, <1>3, <1>4, <1>5 DEF HeapInv, JobBlocks

LEMMA AdvancesKeepsHeap ==
    ASSUME TypeOK, JobInv, HeapInv, Advances
    PROVE  HeapInv'
<1>1. PICK stage, block :
        /\ stage \in StageNames
        /\ job' = [job EXCEPT !.stage = stage] /\ heap' = heap \cup {block}
        /\ UNCHANGED <<slots, results, trapped>> /\ job # NoJob
        /\ \/ job.stage = "sources" /\ stage = "frontend" /\ block = <<"frontend results", 0>>
           \/ job.stage = "package" /\ stage = "hosts" /\ block = <<"package", 0>>
           \/ job.stage = "hosts" /\ stage = "object" /\ block = <<"hosts", 0>>
           \/ job.stage = "object" /\ stage = "link" /\ block = <<"object", 0>>
  BY DEF Advances, Advance
<1>2. job \in Job /\ job.stage \in StageNames /\ stage \in StageNames
  BY <1>1, StagesAre DEF JobInv, JobOK, Job
<1>3. /\ job'.stage = stage /\ job'.rewritten = job.rewritten /\ job'.compiled = job.compiled
  BY <1>1, <1>2 DEF Job
<1>4. job' # NoJob
  BY <1>1, AdvanceTypes, NothingsAssumption DEF JobOK
<1>5. Loose(job') = Loose(job)
  BY <1>3 DEF Loose
<1>6. Made(job') = Made(job) \cup {block}
  <2> DEFINE a == <<"frontend results", 0>>
             b == <<"package", 0>>
             c == <<"hosts", 0>>
             d == <<"object", 0>>
  <2>1. \A j : Made(j) = IF j.stage = "sources" THEN {}
                        ELSE IF j.stage \in {"frontend", "package"} THEN {a}
                        ELSE IF j.stage = "hosts" THEN {a, b}
                        ELSE IF j.stage = "object" THEN {a, b, c} ELSE {a, b, c, d}
    BY DEF Made
  <2>2. \/ job.stage = "sources" /\ stage = "frontend" /\ block = a
        \/ job.stage = "package" /\ stage = "hosts" /\ block = b
        \/ job.stage = "hosts" /\ stage = "object" /\ block = c
        \/ job.stage = "object" /\ stage = "link" /\ block = d
    BY <1>1
  <2> HIDE DEF a, b, c, d
  <2> QED BY <1>3, <2>1, <2>2
<1>7. Deferred(job) = Loose(job) \cup Made(job) /\ Deferred(job') = Loose(job') \cup Made(job')
  BY <1>2, <1>3, DeferredIs
<1> QED BY <1>1, <1>4, <1>5, <1>6, <1>7 DEF HeapInv, JobBlocks

LEMMA InlinesKeepsHeap ==
    ASSUME TypeOK, JobInv, HeapInv, FrontendInlines
    PROVE  HeapInv'
<1>1. job # NoJob /\ job \in Job
  BY DEF FrontendInlines, Compiling, JobInv, JobOK
<1>2. /\ job'.compiled = job.compiled /\ job'.rewritten = job.rewritten
      /\ job'.stage = job.stage
      /\ UNCHANGED <<slots, results, heap, trapped>>
  BY <1>1 DEF FrontendInlines, Job
<1>3. job' # NoJob
  BY InlinesTypes, NothingsAssumption DEF JobOK
<1>4. job.stage \in StageNames /\ job'.stage \in StageNames
  BY <1>1, <1>2, StagesAre DEF Job
<1>5. Deferred(job') = Deferred(job)
  <2>1. Loose(job') = Loose(job) /\ Made(job') = Made(job)
    BY <1>2 DEF Loose, Made
  <2> QED BY <1>4, <2>1, DeferredIs
<1> QED BY <1>1, <1>2, <1>3, <1>5 DEF HeapInv, JobBlocks

LEMMA AcceptedKeepsHeap ==
    ASSUME TypeOK, JobInv, HeapInv, FrontendAccepted
    PROVE  HeapInv'
<1>1. job # NoJob /\ job.stage = "frontend" /\ job \in Job
  BY DEF FrontendAccepted, Bytecoding, Compiling, JobInv, JobOK
<1>2. /\ job'.compiled = job.compiled + 1 /\ job'.rewritten = job.rewritten
      /\ job'.stage \in {"frontend", "package"}
      /\ heap' = heap \cup {<<"snapshot", job.compiled + 1>>}
      /\ UNCHANGED <<slots, results, trapped>>
  BY <1>1 DEF FrontendAccepted, Job
<1>3. job' # NoJob
  BY AcceptedTypes, NothingsAssumption DEF JobOK
<1>4. 1..job'.compiled = 1..job.compiled \cup {job.compiled + 1}
  BY <1>1, <1>2 DEF Job
<1>5. Loose(job') = Loose(job) \cup {<<"snapshot", job.compiled + 1>>}
  BY <1>2, <1>4 DEF Loose
<1>6. Made(job') = Made(job)
  BY <1>1, <1>2 DEF Made
<1>7. Deferred(job) = Loose(job) \cup Made(job) /\ Deferred(job') = Loose(job') \cup Made(job')
  BY <1>1, <1>2, DeferredIs DEF StageNames
<1> QED BY <1>1, <1>2, <1>3, <1>5, <1>6, <1>7 DEF HeapInv, JobBlocks

LEMMA FreesKeepsHeap ==
    ASSUME TypeOK, HeapInv, Frees
    PROVE  HeapInv'
<1>1. PICK r \in Buffers : ResultFree(r)
  BY DEF Frees
<1>2. /\ job = NoJob /\ results[r] # NoResult /\ UNCHANGED <<slots, trapped, job>>
      /\ results' = [results EXCEPT ![r] = NoResult]
      /\ heap' = heap \ ResultMemory(r, results[r])
  BY <1>1 DEF ResultFree
<1>3. ResultBlocks(results') = ResultBlocks(results) \ ResultMemory(r, results[r])
  BY <1>2, ResultEmptied DEF TypeOK
<1>4. ContextBlocks(slots) \cap ResultMemory(r, results[r]) = {}
  <2>1. \A b \in ContextBlocks(slots) : b[1] \in {"profile", "pack"}
    BY Tags DEF ContextBlocks
  <2> QED BY <2>1, Tags
<1>5. Lost(trapped) \cap ResultMemory(r, results[r]) = {}
  BY LostStays
<1> QED BY <1>2, <1>3, <1>4, <1>5 DEF HeapInv, JobBlocks

(* What the compile that traps had is lost, and nothing else.              *)
LEMMA TrapKeepsHeap ==
    ASSUME TypeOK, JobInv, HeapInv, FrontendTrap
    PROVE  HeapInv'
<1>1. PICK kind \in Kinds :
        trapped' = trapped \cup {kind} /\ heap' = (heap \ Deferred(job)) \cup Lost({kind})
  BY DEF FrontendTrap, Kinds
<1>2. job # NoJob /\ job' = NoJob /\ UNCHANGED <<slots, results>>
  BY DEF FrontendTrap, Bytecoding, Compiling
<1>3. Lost(trapped') = Lost(trapped) \cup Lost({kind})
  BY <1>1 DEF Lost
<1>4. OnlyTemporaries(Deferred(job))
  BY Tags
<1>5. /\ ContextBlocks(slots) \cap Deferred(job) = {} /\ ResultBlocks(results) \cap Deferred(job) = {}
      /\ Lost(trapped) \cap Deferred(job) = {}
  BY <1>4, OwnersDiffer
<1> QED BY <1>1, <1>2, <1>3, <1>5 DEF HeapInv, JobBlocks

LEMMA NothingOwned ==
    ASSUME slots = [i \in Slots |-> [generation |-> 1, pair |-> NoPair]],
           results = [r \in Buffers |-> NoResult], job = NoJob, heap = {}, trapped = {}
    PROVE  HeapInv
<1>1. {n \in Slots : slots[n].pair # NoPair} = {} /\ {b \in Buffers : results[b] # NoResult} = {}
  OBVIOUS
<1> QED BY <1>1 DEF HeapInv, ContextBlocks, ResultBlocks, JobBlocks, Lost

LEMMA HeapStep == IInv /\ TypeOK /\ JobInv /\ HeapInv /\ [Next]_vars => HeapInv'
<1> SUFFICES ASSUME IInv, TypeOK, JobInv, HeapInv, [Next]_vars PROVE HeapInv'
  OBVIOUS
<1>1. CASE FrontendTrap
  BY <1>1, TrapKeepsHeap
<1>2. CASE FreshInstance
  <2>1. /\ slots' = [i \in Slots |-> [generation |-> 1, pair |-> NoPair]]
        /\ results' = [r \in Buffers |-> NoResult] /\ job' = NoJob /\ heap' = {}
        /\ trapped' = {}
    BY <1>2 DEF FreshInstance
  <2>2. {n \in Slots : slots'[n].pair # NoPair} = {} /\ {b \in Buffers : results'[b] # NoResult} = {}
    BY <2>1
  <2> QED BY <2>1, <2>2 DEF HeapInv, ContextBlocks, ResultBlocks, JobBlocks, Lost
<1>3. CASE UNCHANGED vars
  BY <1>3 DEF vars, HeapInv
<1> QED BY <1>1, <1>2, <1>3, Steps, CreatesKeepsHeap, DestroysKeepsHeap, EndsKeepsHeap,
           StartsKeepsHeap, AdvancesKeepsHeap, InlinesKeepsHeap, AcceptedKeepsHeap,
           FreesKeepsHeap

-----------------------------------------------------------------------------
(***************************************************************************)
(* What results say, and that nothing of an earlier call is in them.       *)
(***************************************************************************)
LEMMA ResultsStep == TypeOK /\ JobInv /\ ResultsInv /\ [Next]_vars => ResultsInv'
<1> SUFFICES ASSUME TypeOK, JobInv, ResultsInv, [Next]_vars PROVE ResultsInv'
  OBVIOUS
<1>1. CASE Ends
  <2>1. PICK r \in Buffers, res \in Result :
          results' = [results EXCEPT ![r] = res] /\ Matching(res) /\ Explained(res)
    BY <1>1 DEF Ends, Publish
  <2> QED BY <2>1 DEF ResultsInv, Held, TypeOK
<1>2. CASE Frees
  BY <1>2 DEF Frees, ResultFree, ResultsInv, Held, TypeOK
<1>3. CASE FreshInstance
  BY <1>3 DEF FreshInstance, ResultsInv, Held
<1>4. ASSUME UNCHANGED results PROVE ResultsInv'
  BY <1>4 DEF ResultsInv, Held
<1>5. CASE Creates \/ Destroys \/ FrontendTrap \/ UNCHANGED vars
  BY <1>4, <1>5 DEF Creates, CreateContext, Destroys, DestroyContext, FrontendTrap, vars
<1>6. CASE Starts \/ Advances \/ FrontendInlines \/ FrontendAccepted
  BY <1>4, <1>6, StartTypes, AdvanceTypes, InlinesTypes, AcceptedTypes
<1> QED BY <1>1, <1>2, <1>3, <1>5, <1>6, Steps

LEMMA PureStep ==
    TypeOK /\ JobInv /\ PureInv /\ [Next]_vars => PureInv'
<1> SUFFICES ASSUME TypeOK, JobInv, PureInv, [Next]_vars PROVE PureInv'
  OBVIOUS
<1> USE DEF PureInv, PureUntilTrap, Spoilt, Held
<1>0. ASSUME UNCHANGED <<job, results, feedback, trapped>> PROVE PureInv'
  BY <1>0
<1>1. CASE Creates \/ Destroys \/ UNCHANGED vars
  BY <1>0, <1>1 DEF Creates, CreateContext, Destroys, DestroyContext, vars
<1>2. CASE Ends
  <2>1. PICK r \in Buffers, res \in Result :
          /\ results' = [results EXCEPT ![r] = res] /\ job' = NoJob
          /\ res.tainted => job # NoJob /\ job.tainted
    BY <1>2 DEF Ends, Publish
  <2>2. trapped' = trapped /\ feedback' = IF job # NoJob THEN Restored ELSE feedback
    BY <1>2 DEF Ends
  <2>3. ~Spoilt => ~feedback' /\ ~res.tainted
    BY <2>1, <2>2 DEF Restored
  <2> QED BY <2>1, <2>2, <2>3 DEF TypeOK
<1>3. CASE Starts
  <2>1. job = NoJob /\ ~job'.tainted /\ ~job'.inlining
    BY <1>3 DEF Starts, CompileStart, MayCompile
  <2> QED BY <1>3, <2>1, StartTypes
<1>4. CASE Advances
  <2>1. /\ job # NoJob /\ job'.tainted = job.tainted /\ job'.inlining = job.inlining
        /\ job'.previousFeedback = job.previousFeedback
    BY <1>4 DEF Advances, Advance, JobInv, JobOK, Job
  <2>2. JobOK(job)' /\ UNCHANGED <<results, feedback, trapped>>
    BY <1>4, AdvanceTypes
  <2>3. job' # NoJob
    BY <2>2, NothingsAssumption DEF JobOK
  <2> QED BY <2>1, <2>2, <2>3
<1>5. CASE FrontendInlines
  <2>1. /\ job # NoJob /\ ~job.inlining /\ job'.tainted = job.tainted
        /\ job'.inlining /\ job'.previousFeedback = feedback
    BY <1>5 DEF FrontendInlines, Compiling, JobInv, JobOK, Job
  <2>2. JobOK(job)' /\ UNCHANGED <<results, trapped>>
    BY <1>5, InlinesTypes
  <2>3. job' # NoJob
    BY <2>2, NothingsAssumption DEF JobOK
  <2> QED BY <2>1, <2>2, <2>3
<1>6. CASE FrontendAccepted
  <2>1. /\ job # NoJob /\ ~job'.inlining /\ feedback' = Restored
        /\ job'.tainted = (job.tainted \/ Taints)
    BY <1>6 DEF FrontendAccepted, Bytecoding, Compiling, JobInv, JobOK, Job
  <2>2. job.inlining => NextModule.inlined
    BY <2>1 DEF JobInv, JobOK, NextModule
  <2>3. ~Spoilt => ~feedback' /\ ~job'.tainted
    BY <2>1, <2>2 DEF Restored, Taints
  <2>4. UNCHANGED <<results, trapped>>
    BY <1>6, AcceptedTypes
  <2> QED BY <2>1, <2>3, <2>4
<1>7. CASE FrontendTrap
  <2>1. /\ job # NoJob /\ job' = NoJob /\ feedback' \in {feedback, Restored}
        /\ trapped' = trapped \cup {IF NextModule.inlined THEN "inlined" ELSE "plain"}
        /\ UNCHANGED results
    BY <1>7 DEF FrontendTrap, Bytecoding, Compiling
  <2>2. job.inlining => NextModule.inlined
    BY <2>1 DEF JobInv, JobOK, NextModule
  <2>3. CASE NextModule.inlined
    BY <2>1, <2>3
  <2>4. CASE ~NextModule.inlined
    BY <2>1, <2>2, <2>4 DEF Restored
  <2> QED BY <2>3, <2>4
<1>8. CASE Frees
  BY <1>8 DEF Frees, ResultFree, TypeOK
<1>9. CASE FreshInstance
  BY <1>9 DEF FreshInstance
<1> QED BY <1>1, <1>2, <1>3, <1>4, <1>5, <1>6, <1>7, <1>8, <1>9, Steps

-----------------------------------------------------------------------------
LEMMA CompileInvInit == Init => CompileInv /\ PureInv
<1> SUFFICES ASSUME Init PROVE CompileInv /\ PureInv
  OBVIOUS
<1>1. IInv /\ ContextTypeOK
  BY InitHolds DEF Init, IInv
<1>2. HeapInv
  BY NothingOwned DEF Init, ContextInit
<1> QED BY <1>1, <1>2 DEF Init, CompileInv, PureInv, TypeOK, JobInv, ResultsInv, Held, PureUntilTrap

LEMMA CompileInvStep == CompileInv /\ [Next]_vars => CompileInv'
  BY TypesStep, HeapStep, ResultsStep DEF CompileInv

LEMMA CompileInvImplies ==
    CompileInv => /\ LiveHandlesWork /\ StaleUntilWrap
                  /\ NothingLeaks /\ ArtifactsMatchRequests /\ FailuresAreExplained
<1> SUFFICES ASSUME CompileInv
             PROVE  /\ LiveHandlesWork /\ StaleUntilWrap
                    /\ NothingLeaks /\ ArtifactsMatchRequests /\ FailuresAreExplained
  OBVIOUS
<1>1. LiveHandlesWork /\ StaleUntilWrap
  BY InvImpliesProperties DEF CompileInv
<1>2. NothingLeaks
  <2>1. job = NoJob => heap = ContextBlocks(slots) \cup ResultBlocks(results) \cup Lost(trapped)
    BY DEF CompileInv, HeapInv, JobBlocks
  <2>2. {b \in Buffers : Held(b)} = {b \in Buffers : results[b] # NoResult}
    BY DEF Held
  <2>3. ContextBlocks(slots)
          = UNION {SlotMemory(i) : i \in {n \in Slots : slots[n].pair # NoPair}}
    BY DEF ContextBlocks
  <2>4. ResultBlocks(results)
          = UNION {ResultMemory(r, results[r]) : r \in {b \in Buffers : Held(b)}}
    BY <2>2, Zenon DEF ResultBlocks
  <2> QED BY <2>1, <2>3, <2>4, Zenon DEF NothingLeaks
<1>3. ArtifactsMatchRequests /\ FailuresAreExplained
  BY DEF CompileInv, ResultsInv, Matching, Explained, ArtifactsMatchRequests, FailuresAreExplained
<1> QED BY <1>1, <1>2, <1>3

(* A compiler instance is in a state of the invariant for ever.            *)
THEOREM CompileInvariant == Spec => []CompileInv
<1>1. Init => CompileInv
  BY CompileInvInit
<1> QED BY <1>1, CompileInvStep, PTL DEF Spec

(* Whatever is compiled, fails and traps in an instance, and whoever goes  *)
(* on with it: an artifact is what its request alone makes it, until a     *)
(* module with inline plans trapped.                                       *)
THEOREM CompilesStayPure == Spec => []PureUntilTrap
<1>1. Init => PureInv
  BY CompileInvInit
<1>2. CompileInv /\ PureInv /\ [Next]_vars => PureInv'
  BY PureStep DEF CompileInv
<1>3. PureInv => PureUntilTrap
  BY DEF PureInv, PureUntilTrap, Spoilt
<1> QED BY <1>1, <1>2, <1>3, CompileInvariant, PTL DEF Spec

-----------------------------------------------------------------------------
(***************************************************************************)
(* The port.  While it serves, the instance has one context, which its     *)
(* handle names, and at most one result, that of the request it compiles.  *)
(***************************************************************************)
Serving == port \in {"reading", "compiling", "closing"}
NoResults == \A r \in Buffers : results[r] = NoResult
OneResult ==
    \E r \in Buffers : results[r] # NoResult /\ \A b \in Buffers \ {r} : results[b] = NoResult

PortTypes ==
    /\ port \in {"absent", "starting", "reading", "compiling", "closing", "ended"}
    /\ asked \in Seq(Requests)
    /\ answers \in Seq([of : Nat, ok : BOOLEAN])

PortContext ==
    /\ port = "starting" => Init
    /\ Serving =>
         /\ Len(sessions) = 1 /\ sessions[1].age = 0
         /\ \A i \in Slots : slots[i].pair # NoPair => i = sessions[1].slot
         /\ trapped = {}
    /\ port \in {"reading", "closing"} => job = NoJob /\ NoResults
    /\ port = "compiling" => IF job # NoJob THEN NoResults ELSE OneResult
    /\ port = "ended" /\ trapped = {} => heap = {}

PortAnswersInv ==
    /\ port \in {"absent", "starting"} => asked = <<>> /\ answers = <<>>
    /\ port = "reading" => Len(answers) = Len(asked)
    /\ port = "compiling" => Len(answers) + 1 = Len(asked)
    /\ port \notin {"closing", "ended"} => \A i \in 1..Len(answers) : answers[i].of = i
    /\ AnswersInOrder

PortInv == PortTypes /\ PortContext /\ PortAnswersInv

LEMMA HandleIsHeld == Serving /\ PortContext /\ TypeOK => Handle \in HeldHandles
  BY DEF PortContext, Handle, HeldHandles, TypeOK, ContextTypeOK

(* Whatever the port does, its instance does a step of an instance.        *)
LEMMA PortSteps == CompileInv /\ PortInv /\ [PortNext]_allVars => [Next]_vars
<1> SUFFICES ASSUME CompileInv, PortInv, [PortNext]_allVars PROVE [Next]_vars
  OBVIOUS
<1>1. CASE PortStarts
  BY <1>1 DEF PortStarts, Next
<1>2. ASSUME NEW req \in Requests, PortReads(req) PROVE [Next]_vars
  <2>1. Handle \in HeldHandles
    BY <1>2, HandleIsHeld DEF PortReads, Serving, PortInv, CompileInv
  <2> QED BY <1>2, <2>1 DEF PortReads, Next
<1>3. CASE PortCompiles
  BY <1>3 DEF PortCompiles, Next
<1>4. ASSUME NEW r \in Buffers, PortAnswers(r) PROVE [Next]_vars
  BY <1>4 DEF PortAnswers, Next
<1>5. CASE PortRejects \/ PortStops
  BY <1>5 DEF PortRejects, PortStops, vars
<1>6. CASE PortCloses
  <2>1. Handle \in HeldHandles
    BY <1>6, HandleIsHeld DEF PortCloses, Serving, PortInv, CompileInv
  <2> QED BY <1>6, <2>1 DEF PortCloses, Next
<1>7. CASE UNCHANGED allVars
  BY <1>7 DEF allVars, vars
<1> QED BY <1>1, <1>2, <1>3, <1>4, <1>5, <1>6, <1>7 DEF PortNext, PortWorks

LEMMA PortInitHolds == PortInit => PortInv
<1> SUFFICES ASSUME PortInit PROVE PortInv
  OBVIOUS
<1>1. PortTypes /\ PortContext
  BY DEF PortInit, PortTypes, PortContext, Serving, Init
<1>2. Len(answers) = 0 /\ Len(asked) = 0 /\ port \in {"absent", "starting"}
      /\ asked = <<>> /\ answers = <<>>
  BY DEF PortInit
<1>3. PortAnswersInv
  BY <1>2 DEF PortAnswersInv, AnswersInOrder
<1> QED BY <1>1, <1>3 DEF PortInv

LEMMA EndsFillsOne ==
    ASSUME TypeOK, NoResults, Ends
    PROVE  job' = NoJob /\ OneResult' /\ UNCHANGED <<slots, sessions, trapped>>
<1>1. PICK r \in Buffers, res \in Result :
        job' = NoJob /\ results' = [results EXCEPT ![r] = res]
  BY DEF Ends, Publish
<1>2. UNCHANGED <<slots, sessions, trapped>>
  BY DEF Ends
<1>3. results'[r] # NoResult /\ \A b \in Buffers \ {r} : results'[b] = NoResult
  BY <1>1, NothingsAssumption DEF NoResults, TypeOK
<1> QED BY <1>1, <1>2, <1>3 DEF OneResult

(* The call of compile and each of its steps, between two answers.         *)
LEMMA CallFills ==
    ASSUME CompileInv, NoResults, job = NoJob,
           NEW h \in HeldHandles, NEW req \in Requests, NEW r \in Buffers,
           \/ CompileInvalidContext(h, req, r) \/ CompileRefused(h, req, r)
           \/ CompileStart(h, req, r)
    PROVE  /\ UNCHANGED <<slots, sessions, trapped>>
           /\ IF job' # NoJob THEN NoResults' ELSE OneResult'
<1>1. CASE CompileInvalidContext(h, req, r) \/ CompileRefused(h, req, r)
  BY <1>1, RefusalEnds, EndsFillsOne DEF CompileInv, TypeOK
<1>2. CASE CompileStart(h, req, r)
  <2>1. Starts
    BY <1>2 DEF Starts
  <2>2. JobOK(job)' /\ UNCHANGED <<slots, sessions, results, feedback, trapped>>
    BY <2>1, StartTypes DEF CompileInv
  <2>3. job' # NoJob
    BY <2>2, NothingsAssumption DEF JobOK
  <2> QED BY <2>2, <2>3 DEF NoResults
<1> QED BY <1>1, <1>2

LEMMA StepFills ==
    ASSUME CompileInv, NoResults, CompileStep
    PROVE  \/ trapped' # {}
           \/ /\ UNCHANGED <<slots, sessions, trapped>>
              /\ IF job' # NoJob THEN NoResults' ELSE OneResult'
<1>1. CASE Ends
  BY <1>1, EndsFillsOne DEF CompileInv
<1>2. CASE Advances \/ FrontendInlines \/ FrontendAccepted
  <2>1. JobOK(job)' /\ UNCHANGED <<slots, sessions, results, trapped>>
    BY <1>2, AdvanceTypes, InlinesTypes, AcceptedTypes DEF CompileInv
  <2>2. job' # NoJob
    BY <2>1, NothingsAssumption DEF JobOK
  <2> QED BY <2>1, <2>2 DEF NoResults
<1>3. CASE FrontendTrap
  BY <1>3 DEF FrontendTrap
<1> QED BY <1>1, <1>2, <1>3, CompileSteps DEF CompileInv

LEMMA CompileStepIsOfJob == CompileStep => job # NoJob
  BY DEF CompileStep, FrontendStart, FrontendBadPlans, FrontendRejected, FrontendFailed,
         FrontendInlines, FrontendAccepted, FrontendTrap, Bytecoding, Compiling, PackageBuilt,
         HostListEncoded, ObjectBuilt, LinkFailed, LinkSucceeded

-----------------------------------------------------------------------------
LEMMA PortTypesStep == PortTypes /\ [PortNext]_allVars => PortTypes'
<1> SUFFICES ASSUME PortTypes, [PortNext]_allVars PROVE PortTypes'
  OBVIOUS
<1>1. ASSUME NEW req \in Requests, PortReads(req) PROVE PortTypes'
  BY <1>1 DEF PortReads, PortTypes
<1>2. ASSUME NEW r \in Buffers, PortAnswers(r) PROVE PortTypes'
  <2> DEFINE answer == [of |-> Len(asked), ok |-> results[r].status = Ok]
  <2>1. answer \in [of : Nat, ok : BOOLEAN]
    BY DEF PortTypes
  <2>2. UNCHANGED asked /\ \/ port' = "reading" /\ answers' = Append(answers, answer)
                           \/ port' = "closing" /\ UNCHANGED answers
    BY <1>2, Zenon DEF PortAnswers
  <2>3. answers' \in Seq([of : Nat, ok : BOOLEAN])
    <3> DEFINE S == [of : Nat, ok : BOOLEAN]
    <3>1. answers \in Seq(S) /\ answer \in S
      BY <2>1 DEF PortTypes
    <3> HIDE DEF S, answer
    <3>2. Append(answers, answer) \in Seq(S)
      BY <3>1
    <3>3. answers' \in Seq(S)
      BY <2>2, <3>1, <3>2
    <3> QED BY <3>3 DEF S
  <2> HIDE DEF answer
  <2> QED BY <2>2, <2>3 DEF PortTypes
<1>3. CASE PortRejects
  <2>1. Rejection \in [of : Nat, ok : BOOLEAN]
    BY DEF Rejection
  <2> QED BY <1>3, <2>1 DEF PortRejects, PortTypes
<1>4. CASE port = "absent" /\ Next /\ UNCHANGED portVars
  BY <1>4 DEF portVars, PortTypes
<1>5. CASE PortStarts \/ PortCompiles \/ PortStops \/ PortCloses \/ UNCHANGED allVars
  BY <1>5 DEF PortStarts, PortCompiles, PortStops, PortCloses, allVars, PortTypes
<1> QED BY <1>1, <1>2, <1>3, <1>4, <1>5 DEF PortNext, PortWorks

LEMMA PortContextStep ==
    CompileInv /\ PortInv /\ [PortNext]_allVars => PortContext'
<1> SUFFICES ASSUME CompileInv, PortInv, [PortNext]_allVars PROVE PortContext'
  OBVIOUS
<1> USE DEF PortInv
<1>1. CASE port = "absent" /\ Next /\ UNCHANGED portVars
  BY <1>1 DEF portVars, PortContext, Serving
<1>2. CASE PortStarts
  <2>1. CASE port' = "ended" /\ UNCHANGED vars
    BY <1>2, <2>1 DEF PortStarts, PortContext, Serving, Init, vars
  <2>2. ASSUME NEW p \in Pairs, CreateContext(p), port' = "reading" PROVE PortContext'
    <3>1. Init
      BY <1>2 DEF PortStarts, PortContext
    <3>2. PICK i \in Slots :
            /\ slots' = [slots EXCEPT ![i].pair = p]
            /\ sessions' = Append(sessions, [slot |-> i, generation |-> slots[i].generation,
                                            handle |-> ContextHandle(i, slots[i].generation),
                                            pair |-> p, age |-> 0])
      BY <2>2 DEF CreateContext, ContextCreate
    <3>3. Len(sessions') = 1 /\ sessions'[1].age = 0 /\ sessions'[1].slot = i
      BY <3>1, <3>2 DEF Init, ContextInit
    <3>4. \A n \in Slots : slots'[n].pair # NoPair => n = i
      BY <3>1, <3>2 DEF Init, ContextInit
    <3>5. job' = NoJob /\ NoResults' /\ trapped' = {}
      BY <2>2, <3>1 DEF CreateContext, Init, NoResults
    <3> QED BY <2>2, <3>3, <3>4, <3>5 DEF PortContext, Serving
  <2> QED BY <1>2, <2>1, <2>2 DEF PortStarts
<1>3. ASSUME NEW req \in Requests, PortReads(req) PROVE PortContext'
  <2>1. port = "reading" /\ port' = "compiling" /\ Handle \in HeldHandles /\ job = NoJob /\ NoResults
    BY <1>3, HandleIsHeld DEF PortReads, PortContext, Serving, CompileInv
  <2>2. /\ UNCHANGED <<slots, sessions, trapped>>
        /\ IF job' # NoJob THEN NoResults' ELSE OneResult'
    BY <1>3, <2>1, CallFills DEF PortReads
  <2> QED BY <2>1, <2>2 DEF PortContext, Serving
<1>4. CASE PortCompiles
  <2>1. NoResults /\ CompileStep /\ port = "compiling"
    BY <1>4, CompileStepIsOfJob DEF PortCompiles, PortContext
  <2>2. CASE trapped' # {}
    BY <1>4, <2>2 DEF PortCompiles, PortContext, Serving
  <2>3. CASE UNCHANGED <<slots, sessions, trapped>>
             /\ IF job' # NoJob THEN NoResults' ELSE OneResult'
    BY <1>4, <2>1, <2>3 DEF PortCompiles, PortContext, Serving
  <2> QED BY <2>1, <2>2, <2>3, StepFills
<1>5. ASSUME NEW r \in Buffers, PortAnswers(r) PROVE PortContext'
  <2>1. port = "compiling" /\ port' \in {"reading", "closing"} /\ job = NoJob /\ job' = NoJob
        /\ UNCHANGED <<slots, sessions, trapped>>
    BY <1>5 DEF PortAnswers, ResultFree
  <2>2. PICK b \in Buffers : \A c \in Buffers \ {b} : results[c] = NoResult
    BY <2>1 DEF PortContext, OneResult
  <2>3. results' = [results EXCEPT ![r] = NoResult] /\ r = b
    BY <1>5, <2>2 DEF PortAnswers, ResultFree
  <2>4. NoResults'
    BY <2>2, <2>3 DEF NoResults, CompileInv, TypeOK
  <2> QED BY <2>1, <2>4 DEF PortContext, Serving
<1>6. CASE PortRejects \/ PortStops
  BY <1>6 DEF PortRejects, PortStops, PortContext, Serving, NoResults, Init
<1>7. CASE PortCloses
  <2>1. /\ port = "closing" /\ port' = "ended" /\ DestroyContext(Handle)
        /\ job = NoJob /\ NoResults /\ trapped = {}
    BY <1>7 DEF PortCloses, PortContext, Serving
  <2>2. heap' = heap \ SlotMemory(ContextFor(Handle)) /\ Resolves(Handle)
    BY <2>1 DEF DestroyContext, ContextDestroy
  <2>3. ResultBlocks(results) = {} /\ JobBlocks(job) = {}
    BY <2>1 DEF ResultBlocks, JobBlocks, NoResults
  <2>4. ContextBlocks(slots) \subseteq SlotMemory(ContextFor(Handle))
    <3>1. ContextFor(Handle) \in Slots /\ slots[ContextFor(Handle)].pair # NoPair
      BY <2>2 DEF Resolves, ContextFor
    <3>2. \A n \in Slots : slots[n].pair # NoPair => n = ContextFor(Handle)
      BY <2>1, <3>1 DEF PortContext, Serving
    <3> QED BY <3>2 DEF ContextBlocks
  <2>5. heap' = {}
    BY <2>1, <2>2, <2>3, <2>4 DEF CompileInv, HeapInv, Lost
  <2> QED BY <2>1, <2>5 DEF PortContext, Serving
<1>8. CASE UNCHANGED allVars
  BY <1>8 DEF allVars, PortContext, Serving, NoResults, OneResult, Init, ContextInit
<1> QED BY <1>1, <1>2, <1>3, <1>4, <1>5, <1>6, <1>7, <1>8 DEF PortNext, PortWorks

(* An answer that is appended is for the request that was read last.       *)
LEMMA AnswerAppended ==
    ASSUME NEW answer, answers \in Seq([of : Nat, ok : BOOLEAN]),
           answer \in [of : Nat, ok : BOOLEAN], answers' = Append(answers, answer)
    PROVE  /\ Len(answers') = Len(answers) + 1
           /\ answers'[Len(answers')] = answer
           /\ \A i \in 1..Len(answers) : answers'[i] = answers[i]
           /\ \A i \in 1..Len(answers') : i = Len(answers') \/ i \in 1..Len(answers)
  OBVIOUS

LEMMA PortAnswersStep ==
    CompileInv /\ PortInv /\ PortContext' /\ [PortNext]_allVars => PortAnswersInv'
<1> SUFFICES ASSUME CompileInv, PortInv, PortContext', [PortNext]_allVars PROVE PortAnswersInv'
  OBVIOUS
<1> USE DEF PortInv
<1>0. Len(asked) \in Nat /\ Len(answers) \in Nat
  BY DEF PortTypes
<1>9. port' = "ended" /\ trapped' = {} => heap' = {}
  BY DEF PortContext
<1>1. CASE port = "absent" /\ Next /\ UNCHANGED portVars
  BY <1>1, <1>9 DEF portVars, PortAnswersInv, AnswersInOrder
<1>2. CASE PortStarts
  <2>1. Len(answers) = 0 /\ Len(asked) = 0
    BY <1>2 DEF PortStarts, PortAnswersInv
  <2> QED BY <1>2, <1>9, <2>1 DEF PortStarts, PortAnswersInv, AnswersInOrder
<1>3. ASSUME NEW req \in Requests, PortReads(req) PROVE PortAnswersInv'
  <2>1. Len(asked') = Len(asked) + 1 /\ answers' = answers /\ port = "reading" /\ port' = "compiling"
    BY <1>3 DEF PortReads, PortTypes
  <2> QED BY <1>0, <2>1 DEF PortAnswersInv, AnswersInOrder
<1>4. CASE PortCompiles
  BY <1>4, <1>0, <1>9 DEF PortCompiles, PortAnswersInv, AnswersInOrder
<1>5. ASSUME NEW r \in Buffers, PortAnswers(r) PROVE PortAnswersInv'
  <2> DEFINE answer == [of |-> Len(asked), ok |-> results[r].status = Ok]
  <2>1. answer \in [of : Nat, ok : BOOLEAN] /\ answer.of = Len(asked)
    BY <1>0
  <2>2. UNCHANGED asked /\ port = "compiling"
        /\ \/ port' = "reading" /\ answers' = Append(answers, answer)
           \/ port' = "closing" /\ UNCHANGED answers
    BY <1>5, Zenon DEF PortAnswers
  <2> HIDE DEF answer
  <2>3. CASE port' = "reading" /\ answers' = Append(answers, answer)
    BY <1>0, <2>1, <2>2, <2>3, AnswerAppended DEF PortTypes, PortAnswersInv, AnswersInOrder
  <2>4. CASE port' = "closing" /\ UNCHANGED answers
    BY <1>0, <2>2, <2>4 DEF PortAnswersInv, AnswersInOrder
  <2> QED BY <2>2, <2>3, <2>4
<1>6. CASE PortRejects
  <2>1. Rejection \in [of : Nat, ok : BOOLEAN]
    BY DEF Rejection
  <2>2. port = "reading" /\ port' = "closing" /\ UNCHANGED asked /\ answers' = Append(answers, Rejection)
    BY <1>6 DEF PortRejects
  <2>3. /\ Len(answers') = Len(answers) + 1 /\ answers'[Len(answers')] = Rejection
        /\ \A i \in 1..Len(answers) : answers'[i] = answers[i]
        /\ \A i \in 1..Len(answers') : i = Len(answers') \/ i \in 1..Len(answers)
    BY <2>1, <2>2, AnswerAppended DEF PortTypes
  <2> QED BY <1>0, <2>2, <2>3 DEF PortAnswersInv, AnswersInOrder
<1>7. CASE PortStops \/ PortCloses
  BY <1>0, <1>7, <1>9 DEF PortStops, PortCloses, PortAnswersInv, AnswersInOrder
<1>8. CASE UNCHANGED allVars
  BY <1>8, <1>9 DEF allVars, PortAnswersInv, AnswersInOrder
<1> QED BY <1>1, <1>2, <1>3, <1>4, <1>5, <1>6, <1>7, <1>8 DEF PortNext, PortWorks

LEMMA PortInvariant == PortSpec => [](CompileInv /\ PortInv)
<1>1. PortInit => CompileInv /\ PortInv
  BY CompileInvInit, PortInitHolds DEF PortInit
<1>2. CompileInv /\ PortInv /\ [PortNext]_allVars => CompileInv' /\ PortInv'
  BY PortSteps, CompileInvStep, PortTypesStep, PortContextStep, PortAnswersStep DEF PortInv
<1> QED BY <1>1, <1>2, PTL DEF PortSpec

-----------------------------------------------------------------------------
(***************************************************************************)
(* The theorems.                                                           *)
(***************************************************************************)
(* The port is one of the callers an instance may have: what holds of an   *)
(* instance whoever calls it holds of the port's.                          *)
THEOREM PortIsACaller == PortSpec => Spec
<1>1. PortInit => Init
  BY DEF PortInit
<1>2. CompileInv /\ PortInv /\ [PortNext]_allVars => [Next]_vars
  BY PortSteps
<1> QED BY <1>1, <1>2, PortInvariant, PTL DEF PortSpec, Spec

(* Whichever step of a compile fails, and whoever called it, the defers    *)
(* free every temporary: nothing is left but contexts and results, and     *)
(* after a trap what the compile that trapped had made.                    *)
THEOREM NothingEverLeaks == Spec => []NothingLeaks
  BY CompileInvariant, CompileInvImplies, PTL

(* An artifact is linked for the pair its request names and fits every     *)
(* budget, whatever handle it came through.                                *)
THEOREM ArtifactsAreRequested == Spec => []ArtifactsMatchRequests
  BY CompileInvariant, CompileInvImplies, PTL

(* A failed compile tells its status, or that memory was short.            *)
THEOREM FailuresStayExplained == Spec => []FailuresAreExplained
  BY CompileInvariant, CompileInvImplies, PTL

(* Handles keep their meaning while compiles go on between creations and   *)
(* destructions, and after an instance was replaced.                       *)
THEOREM HandlesKeepWorking == Spec => [](LiveHandlesWork /\ StaleUntilWrap)
  BY CompileInvariant, CompileInvImplies, PTL

(* The answers of the port are those of the requests, in their order, and  *)
(* a port that ended without a trap has freed everything.                  *)
THEOREM AnswersStayInOrder == PortSpec => []AnswersInOrder
<1>1. PortInv => AnswersInOrder
  BY DEF PortInv, PortAnswersInv
<1> QED BY <1>1, PortInvariant, PTL

===============================================================================
