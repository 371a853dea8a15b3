------------------------------ MODULE LinkerProofs ----------------------------
(***************************************************************************)
(* Proofs about the pruning of the pack and the linker that uses it, for   *)
(* any links: packs of any size, calls of any form, any number of roots.   *)
(***************************************************************************)
EXTENDS Linker, FiniteSetTheorems, SequenceTheorems, TLAPS

(***************************************************************************)
(* The inductive invariant.  The worklist holds the live functions; the    *)
(* roots before root are live; so is what the functions before cursor      *)
(* call, and what the instructions before at call; and nothing is live     *)
(* that a closed set could leave out.                                      *)
(***************************************************************************)
TypesOK ==
    /\ link \in Links
    /\ root \in Nat \ {0} /\ cursor \in Nat \ {0} /\ at \in Nat \ {0}
    /\ live \subseteq Functions(link)
    /\ pending \in Seq(live)

Worklist == \A f \in live : \E i \in 1..Len(pending) : pending[i] = f

RootsMarkedSoFar ==
    /\ \A r \in 1..Len(Roots(link)) : r < root => Roots(link)[r] \in live
    /\ phase \notin {"roots", "failed"} => root > Len(Roots(link))

CallsOf(l, f, k) ==  \* the calls before instruction k
    {Ops(l, f)[j].imm : j \in {i \in 1..Len(Ops(l, f)) : i < k /\ Ops(l, f)[i].op = "call"}}

ScannedSoFar ==
    /\ \A c \in 1..Len(pending) : c < cursor => Calls(link, pending[c]) \subseteq live
    /\ cursor <= Len(pending) /\ pending[cursor] >= Imported(link)
            => CallsOf(link, pending[cursor], at) \subseteq live
    /\ phase = "roots" => cursor = 1 /\ at = 1
    /\ phase = "pruned" => cursor > Len(pending)

Minimal == \A S \in SUBSET Functions(link) : Closed(link, S) => live \subseteq S

IInv == TypesOK /\ Worklist /\ RootsMarkedSoFar /\ ScannedSoFar /\ Minimal

-------------------------------------------------------------------------------
(* What the assumption on the links gives. *)

LEMMA LinkFacts ==
    ASSUME NEW l \in Links
    PROVE  /\ Imported(l) \in Nat /\ Count(l) \in Nat /\ Functions(l) \subseteq Nat
           /\ \A f \in Functions(l) : f >= Imported(l) =>
                /\ Len(Ops(l, f)) \in Nat
                /\ \A k \in 1..Len(Ops(l, f)) : Ops(l, f)[k].op = "call" => Ops(l, f)[k].imm \in Nat
<1>1. Imported(l) \in Nat /\ Len(l.pack.bodies) \in Nat
  BY LinksAssumption
<1>2. Count(l) \in Nat
  <2>1. Count(l) = Imported(l) + Len(l.pack.bodies)
    BY DEF Count, Imported
  <2> QED BY <1>1, <2>1
<1>3. Functions(l) \subseteq Nat
  BY <1>2 DEF Functions
<1> QED BY <1>1, <1>2, <1>3, LinksAssumption

LEMMA RootsAreListed ==
    ASSUME NEW l \in Links
    PROVE  Len(Roots(l)) \in Nat
<1> DEFINE imports == [i \in 1..Imported(l) |-> i - 1]
           wanted == [i \in 1..Len(l.object.imports) |-> Exported(l.pack.exports, l.object.imports[i].name)]
           kept == [i \in 1..Len(l.retained) |-> Exported(l.pack.exports, l.retained[i])]
<1>1. \A name : Exported(l.pack.exports, name) \in Int
  BY LinksAssumption DEF Exported, Missing
<1>2. imports \in Seq(Int)
  BY LinkFacts, IsASeq
<1>3. wanted \in Seq(Int)
  BY <1>1, LinksAssumption, IsASeq
<1>4. kept \in Seq(Int)
  BY <1>1, LinksAssumption, IsASeq
<1>5. l.pack.elements \in Seq(Int)
  BY LinksAssumption, SeqMonotonic
<1> HIDE DEF imports, wanted, kept
<1>6. imports \o wanted \o kept \o l.pack.elements \in Seq(Int)
  BY <1>2, <1>3, <1>4, <1>5, ConcatProperties
<1> QED BY <1>6, LenProperties DEF Roots, imports, wanted, kept

(* Marking keeps what was marked, in order, and adds the function. *)
LEMMA Marking ==
    ASSUME TypesOK, Worklist, NEW index \in Functions(link), MarkPackFunction(index)
    PROVE  /\ live' = live \cup {index}
           /\ pending' \in Seq(live') /\ Len(pending') >= Len(pending)
           /\ \A i \in 1..Len(pending) : pending'[i] = pending[i]
           /\ \A f \in live' : \E i \in 1..Len(pending') : pending'[i] = f
<1>1. CASE index \in live
  <2>1. live' = live /\ pending' = pending
    BY <1>1 DEF MarkPackFunction
  <2> QED BY <1>1, <2>1, LenProperties DEF TypesOK, Worklist
<1>2. CASE index \notin live
  <2>1. live' = live \cup {index} /\ pending' = Append(pending, index)
    BY <1>2 DEF MarkPackFunction
  <2>2. pending \in Seq(live') /\ index \in live' /\ Len(pending) \in Nat
    BY <2>1, SeqMonotonic, LenProperties DEF TypesOK
  <2>3. /\ pending' \in Seq(live') /\ Len(pending') = Len(pending) + 1
        /\ \A i \in 1..Len(pending) : pending'[i] = pending[i]
        /\ pending'[Len(pending) + 1] = index
    BY <2>1, <2>2, AppendProperties
  <2>4. ASSUME NEW f \in live' PROVE \E i \in 1..Len(pending') : pending'[i] = f
    <3>1. CASE f = index
      BY <3>1, <2>2, <2>3
    <3>2. CASE f \in live
      <4>1. PICK i \in 1..Len(pending) : pending[i] = f
        BY <3>2 DEF Worklist
      <4> QED BY <4>1, <2>2, <2>3
    <3> QED BY <2>1, <3>1, <3>2
  <2> QED BY <2>1, <2>2, <2>3, <2>4
<1> QED BY <1>1, <1>2

-------------------------------------------------------------------------------
(* The calls of a body, read up to an instruction. *)

LEMMA CallsAreFound ==
    ASSUME NEW l \in Links, NEW f \in Functions(l), f >= Imported(l), NEW k \in Nat,
           k > Len(Ops(l, f))
    PROVE  CallsOf(l, f, k) = Calls(l, f)
<1>1. Len(Ops(l, f)) \in Nat /\ Imported(l) \in Nat /\ f \in Nat
  BY LinkFacts
<1>2. {i \in 1..Len(Ops(l, f)) : i < k /\ Ops(l, f)[i].op = "call"}
        = {j \in 1..Len(Ops(l, f)) : Ops(l, f)[j].op = "call"}
  BY <1>1
<1> QED BY <1>1, <1>2 DEF Calls, CallsOf

(* An instruction more adds its callee, if it is a call. *)
LEMMA OneMoreInstruction ==
    ASSUME NEW l \in Links, NEW f \in Functions(l), f >= Imported(l),
           NEW k \in 1..Len(Ops(l, f)), NEW S, CallsOf(l, f, k) \subseteq S,
           Ops(l, f)[k].op = "call" => Ops(l, f)[k].imm \in S
    PROVE  CallsOf(l, f, k + 1) \subseteq S
<1>1. Len(Ops(l, f)) \in Nat
  BY LinkFacts
<1> SUFFICES ASSUME NEW i \in 1..Len(Ops(l, f)), i < k + 1, Ops(l, f)[i].op = "call"
             PROVE  Ops(l, f)[i].imm \in S
  BY DEF CallsOf
<1>2. CASE i = k
  BY <1>2
<1>3. CASE i < k
  BY <1>3 DEF CallsOf
<1> QED BY <1>1, <1>2, <1>3

-------------------------------------------------------------------------------
(* Every step of the pruning keeps the invariant. *)

LEMMA InitIInv == Init => IInv
<1> SUFFICES ASSUME Init PROVE IInv
  OBVIOUS
<1> USE DEF Init
<1>1. TypesOK
  <2>1. pending \in Seq(live) /\ live \subseteq Functions(link)
    BY EmptySeq
  <2> QED BY <2>1 DEF TypesOK
<1>2. Worklist
  BY DEF Worklist
<1>3. RootsMarkedSoFar
  BY <1>1, RootsAreListed DEF RootsMarkedSoFar, TypesOK
<1>4. ScannedSoFar
  BY EmptySeq DEF ScannedSoFar
<1>5. Minimal
  BY DEF Minimal
<1> QED BY <1>1, <1>2, <1>3, <1>4, <1>5 DEF IInv

LEMMA MarkRootKeeps == IInv /\ MarkRoot => IInv'
<1> SUFFICES ASSUME IInv, MarkRoot PROVE IInv'
  OBVIOUS
<1> DEFINE index == Roots(link)[root]
<1> USE DEF IInv
<1>1. /\ index \in Functions(link) /\ root \in 1..Len(Roots(link)) /\ root \in Nat
      /\ Len(Roots(link)) \in Nat /\ root' = root + 1
      /\ link' = link /\ phase' = phase /\ phase = "roots" /\ cursor' = cursor /\ at' = at
  BY RootsAreListed DEF MarkRoot, TypesOK
<1>2. /\ live' = live \cup {index}
      /\ pending' \in Seq(live') /\ Len(pending') >= Len(pending)
      /\ \A i \in 1..Len(pending) : pending'[i] = pending[i]
      /\ \A f \in live' : \E i \in 1..Len(pending') : pending'[i] = f
  <2>1. MarkPackFunction(index)
    BY DEF MarkRoot
  <2> QED BY <1>1, <2>1, Marking
<1> HIDE DEF index
<1>3. TypesOK'
  <2>1. link' \in Links /\ root' \in Nat \ {0} /\ cursor' \in Nat \ {0} /\ at' \in Nat \ {0}
    BY <1>1 DEF TypesOK
  <2>2. live' \subseteq Functions(link')
    <3>1. live \subseteq Functions(link)
      BY DEF TypesOK
    <3> QED BY <1>1, <1>2, <3>1
  <2> QED BY <1>2, <2>1, <2>2 DEF TypesOK
<1>4. Worklist'
  BY <1>2 DEF Worklist
<1>5. RootsMarkedSoFar'
  <2>1. ASSUME NEW r \in 1..Len(Roots(link)), r < root + 1 PROVE Roots(link)[r] \in live'
    <3>1. CASE r = root
      BY <3>1, <1>2 DEF index
    <3>2. CASE r < root
      BY <3>2, <1>2 DEF RootsMarkedSoFar
    <3> QED BY <1>1, <2>1, <3>1, <3>2
  <2> QED BY <1>1, <2>1 DEF RootsMarkedSoFar, Roots, Imported
<1>6. ScannedSoFar'
  <2>1. cursor = 1 /\ at = 1
    BY <1>1 DEF ScannedSoFar
  <2>2. CallsOf(link', pending'[1], 1) = {}
    BY DEF CallsOf
  <2>3. cursor' = 1 /\ at' = 1 /\ link' = link /\ phase' = "roots"
    BY <1>1, <2>1
  <2>4. \A c \in 1..Len(pending') : ~(c < cursor')
    BY <2>3
  <2> QED BY <2>2, <2>3, <2>4 DEF ScannedSoFar
<1>7. Minimal'
  <2> SUFFICES ASSUME NEW S \in SUBSET Functions(link), Closed(link, S) PROVE live' \subseteq S
    BY <1>1 DEF Minimal
  <2>1. live \subseteq S
    BY DEF Minimal
  <2>2. index \in S
    BY <1>1 DEF Closed, RootSet, index
  <2> QED BY <1>2, <2>1, <2>2
<1> QED BY <1>3, <1>4, <1>5, <1>6, <1>7

LEMMA ScanCallKeeps == IInv /\ ScanCall => IInv'
<1> SUFFICES ASSUME IInv, ScanCall PROVE IInv'
  OBVIOUS
<1> DEFINE index == Read.imm
<1> USE DEF IInv
<1>1. /\ phase = "scan" /\ cursor \in 1..Len(pending) /\ Len(pending) \in Nat
      /\ Scanned \in live /\ Scanned \in Functions(link) /\ Scanned >= Imported(link)
      /\ at \in 1..Len(Ops(link, Scanned)) /\ at \in Nat /\ index \in Functions(link)
      /\ Ops(link, Scanned)[at].op = "call"
      /\ at' = at + 1 /\ UNCHANGED <<link, phase, root, cursor>>
  <2>1. /\ phase = "scan" /\ cursor <= Len(pending) /\ Scanned >= Imported(link)
        /\ at <= Len(Ops(link, Scanned)) /\ index \in Functions(link)
        /\ Ops(link, Scanned)[at].op = "call"
        /\ at' = at + 1 /\ UNCHANGED <<link, phase, root, cursor>>
    BY DEF ScanCall, ReadingOp, Scanning, Read
  <2>2. Len(pending) \in Nat /\ cursor \in Nat \ {0} /\ at \in Nat \ {0}
    BY LenProperties DEF TypesOK
  <2>3. cursor \in 1..Len(pending)
    BY <2>1, <2>2
  <2>4. Scanned \in live
    BY <2>3, ElementOfSeq DEF TypesOK, Scanned
  <2>5. Scanned \in Functions(link) /\ link \in Links
    BY <2>4 DEF TypesOK
  <2>6. Len(Ops(link, Scanned)) \in Nat
    BY <2>1, <2>5, LinkFacts
  <2>7. at \in 1..Len(Ops(link, Scanned))
    BY <2>1, <2>2, <2>6
  <2> QED BY <2>1, <2>2, <2>3, <2>4, <2>5, <2>7
<1>2. /\ live' = live \cup {index}
      /\ pending' \in Seq(live') /\ Len(pending') >= Len(pending)
      /\ \A i \in 1..Len(pending) : pending'[i] = pending[i]
      /\ \A f \in live' : \E i \in 1..Len(pending') : pending'[i] = f
  <2>1. MarkPackFunction(index)
    BY DEF ScanCall
  <2> QED BY <1>1, <2>1, Marking
<1>a. index = Ops(link, Scanned)[at].imm
  BY DEF Read
<1> HIDE DEF index
<1>3. TypesOK'
  <2>1. link' \in Links /\ root' \in Nat \ {0} /\ cursor' \in Nat \ {0} /\ at' \in Nat \ {0}
    BY <1>1 DEF TypesOK
  <2>2. live' \subseteq Functions(link')
    <3>1. live \subseteq Functions(link)
      BY DEF TypesOK
    <3> QED BY <1>1, <1>2, <3>1
  <2> QED BY <1>2, <2>1, <2>2 DEF TypesOK
<1>4. Worklist'
  BY <1>2 DEF Worklist
<1>5. RootsMarkedSoFar'
  BY <1>1, <1>2 DEF RootsMarkedSoFar
<1>6. ScannedSoFar'
  <2>1. pending'[cursor] = Scanned
    BY <1>1, <1>2 DEF Scanned
  <2>2. CallsOf(link, Scanned, at) \subseteq live'
    BY <1>1, <1>2 DEF ScannedSoFar, Scanned
  <2>3. CallsOf(link, Scanned, at + 1) \subseteq live'
    <3>1. link \in Links
      BY DEF TypesOK
    <3>2. Ops(link, Scanned)[at].imm \in live'
      BY <1>2, <1>a
    <3> QED BY <1>1, <2>2, <3>1, <3>2, OneMoreInstruction
  <2>4. ASSUME NEW c \in 1..Len(pending'), c < cursor
        PROVE  Calls(link, pending'[c]) \subseteq live'
    <3>1. c \in 1..Len(pending)
      BY <1>1, <2>4
    <3>2. Calls(link, pending[c]) \subseteq live
      BY <2>4, <3>1 DEF ScannedSoFar
    <3> QED BY <1>2, <3>1, <3>2
  <2> QED BY <1>1, <2>1, <2>3, <2>4 DEF ScannedSoFar
<1>7. Minimal'
  <2> SUFFICES ASSUME NEW S \in SUBSET Functions(link), Closed(link, S) PROVE live' \subseteq S
    BY <1>1 DEF Minimal
  <2>1. live \subseteq S
    BY DEF Minimal
  <2>2. Calls(link, Scanned) \subseteq S
    BY <1>1, <2>1 DEF Closed
  <2>3. index \in Calls(link, Scanned)
    <3>1. Imported(link) \in Nat /\ Scanned \in Nat
      BY <1>1, LinkFacts DEF TypesOK
    <3>2. ~(Scanned < Imported(link))
      BY <1>1, <3>1
    <3> QED BY <1>1, <1>a, <3>2 DEF Calls
  <2> QED BY <1>2, <2>1, <2>2, <2>3
<1> QED BY <1>3, <1>4, <1>5, <1>6, <1>7

LEMMA ScanOtherKeeps == IInv /\ ScanOther => IInv'
<1> SUFFICES ASSUME IInv, ScanOther PROVE IInv'
  OBVIOUS
<1> USE DEF IInv
<1>1. /\ phase = "scan" /\ cursor <= Len(pending) /\ Scanned >= Imported(link)
      /\ at <= Len(Ops(link, Scanned)) /\ Ops(link, Scanned)[at].op # "call"
      /\ at' = at + 1 /\ UNCHANGED <<link, phase, root, live, pending, cursor>>
  BY DEF ScanOther, ReadingOp, Scanning, Read
<1>2. Scanned \in Functions(link) /\ link \in Links /\ at \in Nat \ {0}
  <2>1. Len(pending) \in Nat /\ cursor \in Nat \ {0}
    BY LenProperties DEF TypesOK
  <2>2. Scanned \in live
    BY <1>1, <2>1, ElementOfSeq DEF TypesOK, Scanned
  <2> QED BY <2>2 DEF TypesOK
<1>3. Len(Ops(link, Scanned)) \in Nat
  BY <1>1, <1>2, LinkFacts
<1>4. TypesOK' /\ Worklist' /\ RootsMarkedSoFar' /\ Minimal'
  <2>1. TypesOK'
    BY <1>1, <1>2 DEF TypesOK
  <2>2. Worklist' /\ RootsMarkedSoFar' /\ Minimal'
    BY <1>1 DEF Worklist, RootsMarkedSoFar, Minimal
  <2> QED BY <2>1, <2>2
<1>5. ScannedSoFar'
  <2>1. CallsOf(link, Scanned, at) \subseteq live
    BY <1>1 DEF ScannedSoFar, Scanned
  <2>2. CallsOf(link, Scanned, at + 1) \subseteq live
    BY <1>1, <1>2, <1>3, <2>1, OneMoreInstruction
  <2> QED BY <1>1, <2>2 DEF ScannedSoFar, Scanned
<1> QED BY <1>4, <1>5

LEMMA NextPendingKeeps == IInv /\ NextPending => IInv'
<1> SUFFICES ASSUME IInv, NextPending PROVE IInv'
  OBVIOUS
<1> USE DEF IInv
<1>1. /\ phase = "scan" /\ cursor <= Len(pending)
      /\ Scanned >= Imported(link) => at > Len(Ops(link, Scanned))
      /\ cursor' = cursor + 1 /\ at' = 1 /\ UNCHANGED <<link, phase, root, live, pending>>
  BY DEF NextPending, Scanning
<1>2. Len(pending) \in Nat /\ cursor \in Nat \ {0} /\ at \in Nat \ {0} /\ link \in Links
  BY LenProperties DEF TypesOK
<1>3. Scanned \in live /\ Scanned \in Functions(link)
  <2>1. Scanned \in live
    BY <1>1, <1>2, ElementOfSeq DEF TypesOK, Scanned
  <2> QED BY <2>1 DEF TypesOK
<1>4. Imported(link) \in Nat /\ Scanned \in Nat
  BY <1>2, <1>3, LinkFacts
<1>5. TypesOK' /\ Worklist' /\ RootsMarkedSoFar' /\ Minimal'
  <2>1. TypesOK'
    BY <1>1, <1>2 DEF TypesOK
  <2>2. Worklist' /\ RootsMarkedSoFar' /\ Minimal'
    BY <1>1 DEF Worklist, RootsMarkedSoFar, Minimal
  <2> QED BY <2>1, <2>2
<1>6. Calls(link, Scanned) \subseteq live
  <2>1. CASE Scanned < Imported(link)
    BY <2>1 DEF Calls
  <2>2. CASE Scanned >= Imported(link)
    <3>1. CallsOf(link, Scanned, at) \subseteq live
      BY <1>1, <2>2 DEF ScannedSoFar, Scanned
    <3>2. CallsOf(link, Scanned, at) = Calls(link, Scanned)
      BY <1>1, <1>2, <1>3, <2>2, CallsAreFound
    <3> QED BY <3>1, <3>2
  <2> QED BY <1>4, <2>1, <2>2
<1>7. ScannedSoFar'
  <2>1. ASSUME NEW c \in 1..Len(pending), c < cursor + 1
        PROVE  Calls(link, pending[c]) \subseteq live
    <3>1. CASE c = cursor
      BY <3>1, <1>6 DEF Scanned
    <3>2. CASE c < cursor
      BY <3>2 DEF ScannedSoFar
    <3> QED BY <1>2, <2>1, <3>1, <3>2
  <2>2. ASSUME NEW f PROVE CallsOf(link, f, 1) = {}
    BY DEF CallsOf
  <2> QED BY <1>1, <2>1, <2>2 DEF ScannedSoFar
<1> QED BY <1>5, <1>7

(* A step that changes the phase alone. *)
LEMMA PhaseKeeps ==
    ASSUME IInv, UNCHANGED <<link, root, live, pending, cursor, at>>,
           phase' # "roots",
           phase' # "failed" => root > Len(Roots(link)),
           phase' = "pruned" => cursor > Len(pending)
    PROVE  IInv'
<1> USE DEF IInv
<1>1. TypesOK' /\ Worklist' /\ Minimal'
  BY DEF TypesOK, Worklist, Minimal
<1>2. RootsMarkedSoFar'
  BY DEF RootsMarkedSoFar
<1>3. ScannedSoFar'
  BY DEF ScannedSoFar
<1> QED BY <1>1, <1>2, <1>3

(* The steps of the pruning, all together. *)
LEMMA PruningKeeps == IInv /\ [Next]_pruningVars => IInv'
<1> SUFFICES ASSUME IInv, [Next]_pruningVars PROVE IInv'
  OBVIOUS
<1>1. CASE MarkRoot
  BY <1>1, MarkRootKeeps
<1>2. CASE RootFails \/ ScanFails \/ PruneFails
  <2>1. phase' = "failed" /\ UNCHANGED <<link, root, live, pending, cursor, at>>
    BY <1>2 DEF RootFails, ScanFails, PruneFails, Fail
  <2> QED BY <2>1, PhaseKeeps
<1>3. CASE RootsMarked
  BY <1>3, PhaseKeeps DEF RootsMarked
<1>4. CASE NextPending
  BY <1>4, NextPendingKeeps
<1>5. CASE ScanOther
  BY <1>5, ScanOtherKeeps
<1>6. CASE ScanCall
  BY <1>6, ScanCallKeeps
<1>7. CASE Prune
  <2>1. /\ phase = "scan" /\ phase' = "pruned" /\ cursor > Len(pending)
        /\ UNCHANGED <<link, root, live, pending, cursor, at>>
    BY <1>7 DEF Prune
  <2>2. root > Len(Roots(link))
    BY <2>1 DEF IInv, RootsMarkedSoFar
  <2> QED BY <2>1, <2>2, PhaseKeeps
<1>8. CASE UNCHANGED pruningVars
  BY <1>8 DEF pruningVars, IInv, TypesOK, Worklist, RootsMarkedSoFar, ScannedSoFar, Minimal
<1> QED BY <1>1, <1>2, <1>3, <1>4, <1>5, <1>6, <1>7, <1>8 DEF Next

(* When the scan is over, every root and every call has been followed. *)
LEMMA IInvRetains == IInv => RetainedIsReachable
<1> SUFFICES ASSUME IInv, phase = "pruned"
             PROVE  /\ Closed(link, live)
                    /\ \A S \in SUBSET Functions(link) : Closed(link, S) => live \subseteq S
  BY DEF RetainedIsReachable
<1> USE DEF IInv
<1>1. RootSet(link) \subseteq live
  <2>1. Len(Roots(link)) \in Nat /\ root \in Nat /\ root > Len(Roots(link))
    BY RootsAreListed DEF TypesOK, RootsMarkedSoFar
  <2> QED BY <2>1 DEF RootSet, RootsMarkedSoFar
<1>2. ASSUME NEW f \in live PROVE Calls(link, f) \subseteq live
  <2>1. PICK i \in 1..Len(pending) : pending[i] = f
    BY DEF Worklist
  <2>2. i < cursor
    <3>1. Len(pending) \in Nat /\ cursor \in Nat /\ cursor > Len(pending)
      BY LenProperties DEF TypesOK, ScannedSoFar
    <3> QED BY <3>1
  <2> QED BY <2>1, <2>2 DEF ScannedSoFar
<1> QED BY <1>1, <1>2 DEF Closed, Minimal

(* The pruning retains what the roots of the pack reach, all of it and     *)
(* nothing else (prunePackFunctions), whatever is linked.                  *)
THEOREM PruningRetainsReachable == Spec => []RetainedIsReachable
<1>1. Init => IInv
  BY InitIInv
<1>2. IInv /\ [Next]_pruningVars => IInv'
  BY PruningKeeps
<1>3. IInv => RetainedIsReachable
  BY IInvRetains
<1> QED BY <1>1, <1>2, <1>3, PTL DEF Spec

(* The steps of the linker outside of the pruning only move its phase on.  *)
LEMMA LinkerKeeps == IInv /\ [LinkNext]_vars => IInv'
<1> SUFFICES ASSUME IInv, [LinkNext]_vars PROVE IInv'
  OBVIOUS
<1>1. CASE PruneStep
  BY <1>1, PruningKeeps DEF PruneStep
<1>2. CASE UNCHANGED pruningVars
  BY <1>2, PruningKeeps
<1>3. CASE Resolve \/ FindArms \/ ReplaceArms \/ ThreadBodies \/ FindRegions \/ Emit
  <2>1. /\ phase \in {"pruned", "relocated", "arms", "shared", "threaded", "regions"}
        /\ phase' \in {"relocated", "arms", "shared", "threaded", "regions", "emitted"}
        /\ UNCHANGED <<link, root, live, pending, cursor, at>>
    BY <1>3 DEF Resolve, FindArms, ReplaceArms, ThreadBodies, FindRegions, Emit
  <2>2. root > Len(Roots(link))
    BY <2>1 DEF IInv, RootsMarkedSoFar
  <2> QED BY <2>1, <2>2, PhaseKeeps
<1>4. CASE ResolveFails
  <2>1. phase' = "failed" /\ UNCHANGED <<link, root, live, pending, cursor, at>>
    BY <1>4 DEF ResolveFails, Fail
  <2> QED BY <2>1, PhaseKeeps
<1>5. CASE RunMeant \/ ShareArm \/ ShareRegion \/ RunLinked
  <2>1. UNCHANGED pruningVars
    BY <1>5 DEF RunMeant, ShareArm, ShareRegion, RunLinked
  <2> QED BY <1>2, <2>1
<1>6. CASE UNCHANGED vars
  BY <1>2, <1>6 DEF vars
<1> QED BY <1>1, <1>3, <1>4, <1>5, <1>6 DEF LinkNext

(* So does the linker that prunes as its first part (link).                *)
THEOREM LinkerRetainsReachable == LinkSpec => []RetainedIsReachable
<1>1. LinkInit => IInv
  BY InitIInv DEF LinkInit
<1>2. IInv /\ [LinkNext]_vars => IInv'
  BY LinkerKeeps
<1>3. IInv => RetainedIsReachable
  BY IInvRetains
<1> QED BY <1>1, <1>2, <1>3, PTL DEF LinkSpec

-------------------------------------------------------------------------------
(* The new numbers. *)

LEMMA LiveIsFinite ==
    ASSUME IInv
    PROVE  /\ IsFiniteSet(live) /\ live \subseteq Nat
           /\ \A f \in live : IsFiniteSet({g \in live : g < f}) /\ Mapping(f) \in Nat
<1>1. link \in Links /\ live \subseteq Functions(link)
  BY DEF IInv, TypesOK
<1>2. IsFiniteSet(Functions(link)) /\ Functions(link) \subseteq Nat
  <2>1. Count(link) \in Nat
    BY <1>1, LinkFacts
  <2> QED BY <1>1, <2>1, LinkFacts, FS_Interval DEF Functions
<1>3. IsFiniteSet(live) /\ live \subseteq Nat
  BY <1>1, <1>2, FS_Subset
<1>4. ASSUME NEW f \in live PROVE IsFiniteSet({g \in live : g < f}) /\ Mapping(f) \in Nat
  <2>1. {g \in live : g < f} \subseteq live
    OBVIOUS
  <2>2. IsFiniteSet({g \in live : g < f})
    BY <1>3, <2>1, FS_Subset
  <2> QED BY <2>2, FS_CardinalityType DEF Mapping
<1> QED BY <1>3, <1>4

(* Renumbering (mapping in prunePackFunctions) keeps the order of the      *)
(* functions that are retained: two never get one number, and the imports, *)
(* which all are, keep theirs.                                             *)
LEMMA MappingIsIncreasing ==
    ASSUME IInv, NEW f \in live, NEW g \in live, f < g
    PROVE  Mapping(f) < Mapping(g)
<1> DEFINE below == {h \in live : h < f}
           upTo == below \cup {f}
<1>1. /\ IsFiniteSet(below) /\ IsFiniteSet({h \in live : h < g})
      /\ Mapping(f) \in Nat /\ Mapping(g) \in Nat /\ live \subseteq Nat
  BY LiveIsFinite
<1>2. f \notin below
  BY <1>1
<1>3. Cardinality(upTo) = Cardinality(below) + 1
  BY <1>1, <1>2, FS_AddElement
<1>4. upTo \subseteq {h \in live : h < g}
  <2>1. ASSUME NEW h \in live, h < f PROVE h < g
    <3>1. f \in Nat /\ g \in Nat /\ h \in Nat
      BY <1>1
    <3> QED BY <2>1, <3>1
  <2> QED BY <2>1
<1>5. Cardinality(upTo) <= Cardinality({h \in live : h < g})
  BY <1>1, <1>4, FS_Subset
<1> QED BY <1>1, <1>3, <1>5 DEF Mapping

LEMMA ConcatBegins ==
    ASSUME NEW S, NEW s \in Seq(S), NEW t \in Seq(S), NEW k \in 1..Len(s)
    PROVE  k \in 1..Len(s \o t) /\ (s \o t)[k] = s[k]
<1>1. /\ Len(s \o t) = Len(s) + Len(t) /\ Len(s) \in Nat /\ Len(t) \in Nat
  BY ConcatProperties, LenProperties
<1>2. \A i \in 1..Len(s) + Len(t) :
        (s \o t)[i] = IF i <= Len(s) THEN s[i] ELSE t[i - Len(s)]
  BY ConcatProperties
<1>3. k \in 1..Len(s) + Len(t) /\ k <= Len(s)
  BY <1>1
<1> QED BY <1>1, <1>2, <1>3

LEMMA ImportsAreLive ==
    ASSUME IInv, phase \notin {"roots", "failed"}, NEW i \in 0..Imported(link) - 1
    PROVE  i \in live
<1>1. link \in Links /\ Imported(link) \in Nat
  BY LinkFacts DEF IInv, TypesOK
<1> DEFINE imports == [k \in 1..Imported(link) |-> k - 1]
           wanted == [k \in 1..Len(link.object.imports) |-> Exported(link.pack.exports, link.object.imports[k].name)]
           kept == [k \in 1..Len(link.retained) |-> Exported(link.pack.exports, link.retained[k])]
<1>2. \A name : Exported(link.pack.exports, name) \in Int
  BY <1>1, LinksAssumption DEF Exported, Missing
<1>3. imports \in Seq(Int) /\ Len(imports) = Imported(link)
  BY <1>1, IsASeq
<1>4. wanted \in Seq(Int)
  BY <1>1, <1>2, LinksAssumption, IsASeq
<1>5. kept \in Seq(Int)
  BY <1>1, <1>2, LinksAssumption, IsASeq
<1>6. link.pack.elements \in Seq(Int)
  BY <1>1, LinksAssumption, SeqMonotonic
<1>7. imports[i + 1] = i /\ i + 1 \in 1..Len(imports)
  BY <1>1, <1>3
<1> HIDE DEF imports, wanted, kept
<1>8. i + 1 \in 1..Len(imports \o wanted) /\ (imports \o wanted)[i + 1] = i
  BY <1>3, <1>4, <1>7, ConcatBegins
<1>9. imports \o wanted \in Seq(Int)
  BY <1>3, <1>4, ConcatProperties
<1>10. i + 1 \in 1..Len(imports \o wanted \o kept) /\ (imports \o wanted \o kept)[i + 1] = i
  BY <1>5, <1>8, <1>9, ConcatBegins
<1>11. imports \o wanted \o kept \in Seq(Int)
  BY <1>5, <1>9, ConcatProperties
<1>12. i + 1 \in 1..Len(Roots(link)) /\ Roots(link)[i + 1] = i
  <2>1. imports \o wanted \o kept \o link.pack.elements = Roots(link)
    BY DEF Roots, imports, wanted, kept
  <2> DEFINE before == imports \o wanted \o kept
  <2>2. before \in Seq(Int) /\ i + 1 \in 1..Len(before) /\ before[i + 1] = i
    BY <1>10, <1>11
  <2>3. before \o link.pack.elements = Roots(link)
    BY <2>1
  <2> HIDE DEF before
  <2>4. /\ i + 1 \in 1..Len(before \o link.pack.elements)
        /\ (before \o link.pack.elements)[i + 1] = before[i + 1]
    BY <1>6, <2>2, ConcatBegins
  <2> QED BY <2>2, <2>3, <2>4
<1>13. root > Len(Roots(link)) /\ Len(Roots(link)) \in Nat /\ root \in Nat
  BY <1>1, RootsAreListed DEF IInv, TypesOK, RootsMarkedSoFar
<1> QED BY <1>12, <1>13 DEF IInv, RootsMarkedSoFar

LEMMA ImportsKeepTheirNumbers ==
    ASSUME IInv, phase \notin {"roots", "failed"}, NEW i \in 0..Imported(link) - 1
    PROVE  Mapping(i) = i
<1>1. Imported(link) \in Nat /\ live \subseteq Nat
  BY LinkFacts, LiveIsFinite DEF IInv, TypesOK
<1>2. {g \in live : g < i} = 0..i - 1
  <2>1. ASSUME NEW g \in 0..i - 1 PROVE g \in live
    <3>1. g \in 0..Imported(link) - 1
      BY <1>1
    <3> QED BY <3>1, ImportsAreLive
  <2>2. ASSUME NEW g \in live, g < i PROVE g \in 0..i - 1
    <3>1. g \in Nat /\ i \in Int
      BY <1>1
    <3> QED BY <2>2, <3>1
  <2>3. ASSUME NEW g \in 0..i - 1 PROVE g < i
    BY <1>1
  <2> QED BY <2>1, <2>2, <2>3
<1>3. Cardinality(0..i - 1) = i
  BY <1>1, FS_Interval
<1> QED BY <1>2, <1>3 DEF Mapping

(* What the linker relies on when it renumbers: the retained functions     *)
(* keep their order, so that no two get one number, and an import is what  *)
(* it was, so that imports still precede bodies.                           *)
NumbersAgree ==
    phase = "pruned" =>
        /\ \A f, g \in live : f < g => Mapping(f) < Mapping(g)
        /\ \A i \in 0..Imported(link) - 1 : i \in live /\ Mapping(i) = i

(* The numbers that prunePackFunctions gives agree with the old ones.      *)
THEOREM RenumberingIsSound == LinkSpec => []NumbersAgree
<1>1. LinkInit => IInv
  BY InitIInv DEF LinkInit
<1>2. IInv /\ [LinkNext]_vars => IInv'
  BY LinkerKeeps
<1>3. IInv => NumbersAgree
  BY MappingIsIncreasing, ImportsAreLive, ImportsKeepTheirNumbers DEF NumbersAgree
<1> QED BY <1>1, <1>2, <1>3, PTL DEF LinkSpec
===============================================================================
