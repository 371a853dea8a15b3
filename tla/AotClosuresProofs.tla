--------------------------- MODULE AotClosuresProofs ---------------------------
(***************************************************************************)
(* Proofs about AotClosures, for any protos, any capture lists at their    *)
(* closure instructions, any frame size and any bounds: captured variables *)
(* are variables, what a function captured is permanent, and, when no      *)
(* function refers to itself before it refers to another local, sharing a  *)
(* template is not observable.                                             *)
(***************************************************************************)
EXTENDS AotClosures, FiniteSetTheorems, SequenceTheorems, TLAPS

(***************************************************************************)
(* The inductive invariant, by parts.                                      *)
(***************************************************************************)
Protos == Children \cup {Root}
Cells == {Cell(i) : i \in 1..Len(cells)}
Uprefs == Values \cup Cells
UpVal == [level : 0..MaxDepth, register : Registers, value : Values]

IsClosure(x, values) ==
    /\ x = [proto |-> x.proto, env |-> x.env, uprefs |-> x.uprefs, preload |-> x.preload]
    /\ x.proto \in Protos /\ x.env \in Nat /\ x.preload \in Nat
    /\ x.uprefs \in [1..Nups(x.proto) -> values]

(* The closures are the templates and those made so far, in order.         *)
InOrder == \E n \in 0..MaxClosures : DOMAIN closures = Shared \cup 0..n

Types ==
    /\ runs \in 0..MaxRuns /\ initialized \in BOOLEAN
    /\ frames \in Seq(DOMAIN closures) /\ Depth <= MaxDepth
    /\ stack \in [Levels -> [Registers -> Values]]
    /\ InOrder
    /\ \A c \in DOMAIN closures : IsClosure(closures[c], Uprefs)
    /\ cells \in Seq(UpVal) /\ Len(cells) <= MaxCells
    /\ Published \subseteq DOMAIN closures

(* Between two captures the frame that makes the closure is still there,   *)
(* and no one has the closure yet, unless it is a template in use.         *)
PendingInv ==
    ~Idle =>
      /\ frames # <<>>
      /\ pending.child \in Children
      /\ pending.captured \in Seq(Uprefs \cup {Itself})
      /\ Len(pending.captured) \in 1..(Nups(pending.child) - 1)
      /\ pending.made \in DOMAIN closures
      /\ closures[pending.made].proto = pending.child
      /\ pending.made \in Shared => pending.made = pending.child
      /\ pending.made \in Published =>
           pending.made \in Shared /\ closures[pending.made].preload = 0

(* A template keeps its proto; one in use is not filled any more.          *)
Templates ==
    \A c \in Shared :
        /\ closures[c].proto = c
        /\ c \in Published \/ Nups(c) = 0 => closures[c].preload = 0

ClosuresInv == Types /\ PendingInv /\ Templates /\ OpenCellsAreVariables

(***************************************************************************)
(* What is captured, when a function that captures itself does so last.    *)
(***************************************************************************)
IsSelf(child, i) ==
    /\ Site[child].captures[i].kind = "val"
    /\ Site[child].captures[i].source = Destination(child)

(* No function refers to itself before it refers to another local (the run *)
(* aot_closures_self shows what happens to one that does).                 *)
SelfLast ==
    \A c \in Shared : \A i, j \in 1..Nups(c) : i < j /\ IsSelf(c, i) => IsSelf(c, j)

Holds(child, c, uprefs, captured) ==
    \A j \in 1..Len(captured) :
        /\ captured[j] = Itself <=> IsSelf(child, j)
        /\ uprefs[j] = IF captured[j] = Itself THEN Function(c) ELSE captured[j]

PendingSources ==
    ~Idle => Holds(pending.child, pending.made, closures[pending.made].uprefs,
                   pending.captured)

(* A template in use that captures itself holds itself.                    *)
SelfTemplates ==
    \A c \in Shared : closures[c].preload = 0 =>
        \A j \in 1..Nups(c) : IsSelf(c, j) => closures[c].uprefs[j] = Function(c)

SourcesInv == PendingSources /\ SelfTemplates /\ ClosuresCaptureTheirSources

(***************************************************************************)
(* Lemmas about the constants and the operators.                           *)
(***************************************************************************)
(* A proto has some number of upvalues.                                    *)
LEMMA NupsNat == \A p \in Protos : Nups(p) \in Nat
BY ProtosAssumption, SitesAssumption, LenProperties DEF Protos, Nups

(* The parts of a closure instruction.                                     *)
LEMMA CaptureTypes ==
    ASSUME NEW child \in Children
    PROVE  /\ child \in Protos /\ Destination(child) \in Registers
           /\ Nups(child) = Len(Site[child].captures)
           /\ \A i \in 1..Nups(child) :
                LET capture == Site[child].captures[i]
                IN  /\ capture.kind \in Kinds
                    /\ capture.kind = "upval" => capture.source \in 1..Nups(Parent[child])
                    /\ capture.kind # "upval" => capture.source \in Registers
                    /\ child \in Shared => capture.kind # "ref"
<1>1. Site[child] \in [dest : Registers, captures : Seq(Captures)]
  BY SitesAssumption
<1>2. child # Root
  BY ProtosAssumption
<1>3. Nups(child) = Len(Site[child].captures)
  BY <1>2 DEF Nups
<1>4. \A i \in 1..Nups(child) : Site[child].captures[i] \in Captures
  BY <1>1, <1>3, ElementOfSeq
<1> QED
  BY <1>1, <1>3, <1>4, SitesAssumption DEF Protos, Destination, Captures

(* A new closure is none of those there are.                               *)
LEMMA NextIsNew ==
    ASSUME InOrder
    PROVE  /\ NextClosure \in Nat \ {0} /\ NextClosure \notin DOMAIN closures
           /\ NextClosure \notin Shared
           /\ DOMAIN closures = Shared \cup 0..(NextClosure - 1)
<1>1. PICK n \in 0..MaxClosures : DOMAIN closures = Shared \cup 0..n
  BY DEF InOrder
<1>2. Shared \cap Nat = {} /\ MaxClosures \in Nat
  BY ProtosAssumption
<1>3. DOMAIN closures \ Shared = 0..n
  BY <1>1, <1>2
<1>4. Cardinality(0..n) = n + 1
  BY <1>1, <1>2, FS_Interval
<1>5. NextClosure = n + 1
  BY <1>3, <1>4 DEF NextClosure
<1> QED
  BY <1>1, <1>2, <1>5

(* A slot of an upvalue holds a cell there is, or a value.                 *)
LEMMA UprefKinds ==
    /\ \A v \in Uprefs :
         /\ v # Itself
         /\ v.type = "upval" => v.of \in 1..Len(cells) /\ v = Cell(v.of)
         /\ v.type # "upval" => v \in Values
    /\ \A v \in Values : v \in Uprefs /\ v # Itself
    /\ Nil \in Values
BY DEF Uprefs, Cells, Values, Constants, Nil, Datum, Function, Cell, Itself

(* What Store does to a closure.                                           *)
LEMMA StoreStores ==
    ASSUME NEW values, NEW x, IsClosure(x, values), NEW i \in 1..Nups(x.proto),
           NEW value \in values, NEW preload \in Nat
    PROVE  LET y == Store(x, i, value, preload)
           IN  /\ IsClosure(y, values) /\ y.proto = x.proto
               /\ y.uprefs = [x.uprefs EXCEPT ![i] = value]
               /\ y.preload = IF i = Nups(x.proto) THEN 0 ELSE preload
<1>1. Nups(x.proto) \in Nat
  BY NupsNat DEF IsClosure
<1>2. Len(x.uprefs) = Nups(x.proto)
  <2>1. x.uprefs \in Seq(values)
    BY <1>1, SeqDef DEF IsClosure
  <2>2. DOMAIN x.uprefs = 1..Len(x.uprefs) /\ Len(x.uprefs) \in Nat
    BY <2>1, LenProperties
  <2>3. DOMAIN x.uprefs = 1..Nups(x.proto)
    BY DEF IsClosure
  <2> QED
    BY <1>1, <2>2, <2>3
<1> DEFINE zero == IF i = Nups(x.proto) THEN 0 ELSE preload
           uprefs == [x.uprefs EXCEPT ![i] = value]
<1>3. Store(x, i, value, preload)
        = [proto |-> x.proto, env |-> x.env, uprefs |-> uprefs, preload |-> zero]
  <2>1. Store(x, i, value, preload) = [x EXCEPT !.uprefs = uprefs, !.preload = zero]
    BY <1>2 DEF Store
  <2>2. DOMAIN x = {"proto", "env", "uprefs", "preload"}
    BY DEF IsClosure
  <2>3. Store(x, i, value, preload)
          = [n \in {"proto", "env", "uprefs", "preload"} |->
               IF n = "uprefs" THEN uprefs ELSE IF n = "preload" THEN zero ELSE x[n]]
    <3> HIDE DEF uprefs, zero
    <3> QED
      BY <2>1, <2>2
  <2> HIDE DEF uprefs, zero
  <2> QED
    BY <2>3
<1>4. zero \in Nat
  OBVIOUS
<1>5. uprefs \in [1..Nups(x.proto) -> values]
  BY DEF IsClosure
<1> QED
  BY <1>3, <1>4, <1>5 DEF IsClosure

(* An empty closure.                                                       *)
LEMMA ClosureIsClosure ==
    ASSUME NEW values, Nil \in values, NEW p \in Protos, NEW env \in Nat
    PROVE  IsClosure(Closure(p, env), values)
BY DEF IsClosure, Closure

(* A closure stays one when there are more values.                         *)
LEMMA ClosureGrows ==
    ASSUME NEW values, NEW more, values \subseteq more, NEW x, IsClosure(x, values)
    PROVE  IsClosure(x, more)
BY DEF IsClosure

(* The running frame and its function.                                     *)
LEMMA RunningFacts ==
    ASSUME Types, frames # <<>>
    PROVE  /\ Depth \in Nat \ {0} /\ Depth \in Levels
           /\ frames[Depth] \in DOMAIN closures
           /\ IsClosure(Running, Uprefs)
           /\ Nups(Running.proto) \in Nat /\ Len(Running.uprefs) = Nups(Running.proto)
           /\ \A i \in 1..Nups(Running.proto) : Running.uprefs[i] \in Uprefs
<1>1. Depth \in Nat \ {0}
  BY EmptySeq DEF Types, Depth
<1>2. Depth \in Levels
  BY <1>1, ProtosAssumption DEF Types, Levels
<1>3. frames[Depth] \in DOMAIN closures
  BY <1>1, ElementOfSeq DEF Types, Depth
<1>4. IsClosure(Running, Uprefs)
  BY <1>3 DEF Types, Running
<1>5. Nups(Running.proto) \in Nat
  BY <1>4, NupsNat DEF IsClosure
<1>6. Running.uprefs \in [1..Nups(Running.proto) -> Uprefs]
  BY <1>4 DEF IsClosure
<1>7. Running.uprefs \in Seq(Uprefs)
  BY <1>5, <1>6, SeqDef
<1>8. DOMAIN Running.uprefs = 1..Len(Running.uprefs) /\ Len(Running.uprefs) \in Nat
  BY <1>7, LenProperties
<1>9. DOMAIN Running.uprefs = 1..Nups(Running.proto)
  BY <1>6
<1>10. Len(Running.uprefs) = Nups(Running.proto)
  BY <1>5, <1>8, <1>9
<1> QED
  BY <1>1, <1>2, <1>3, <1>4, <1>5, <1>6, <1>10

(* The cells of a state, as a function.                                    *)
LEMMA CellFacts ==
    ASSUME Types
    PROVE  /\ Len(cells) \in Nat
           /\ \A i \in 1..Len(cells) :
                /\ cells[i] \in UpVal
                /\ cells[i].level \in 0..MaxDepth /\ cells[i].register \in Registers
                /\ cells[i].value \in Values
<1>1. Len(cells) \in Nat /\ \A i \in 1..Len(cells) : cells[i] \in UpVal
  BY LenProperties, ElementOfSeq DEF Types
<1> QED
  BY <1>1 DEF UpVal

(* There are never fewer values.                                           *)
LEMMA ValuesGrow ==
    ASSUME DOMAIN closures \subseteq DOMAIN closures'
    PROVE  Values \subseteq Values' /\ UpVal \subseteq UpVal'
BY DEF Values, UpVal

LEMMA UprefsGrow ==
    ASSUME DOMAIN closures \subseteq DOMAIN closures', Len(cells) \in Nat, Len(cells)' \in Nat,
           Len(cells) <= Len(cells)'
    PROVE  Uprefs \subseteq Uprefs'
<1>1. Cells \subseteq Cells'
  <2> DEFINE C(n) == {Cell(i) : i \in 1..n}
  <2>1. \A m, n \in Nat : m <= n => C(m) \subseteq C(n)
    OBVIOUS
  <2>2. Cells = C(Len(cells)) /\ Cells' = C(Len(cells)')
    BY DEF Cells, Cell
  <2> QED
    BY <2>1, <2>2
<1> QED
  BY <1>1, ValuesGrow DEF Uprefs

(***************************************************************************)
(* What the three closure instructions have in common: the closure c, made *)
(* by this step or before it, becomes x and is shown to the frame.         *)
(***************************************************************************)
OneCellMore ==
    \E r \in Registers :
        /\ CellsOf(r) = {}
        /\ Len(cells) < MaxCells
        /\ cells' = Append(cells, [level |-> Depth, register |-> r, value |-> Nil])

CaptureStep(child, c, x, captured) ==
    /\ frames # <<>> /\ child \in Children
    /\ c \in DOMAIN closures \/ (c = NextClosure /\ NextClosure <= MaxClosures)
    /\ c \in Shared => c = child
    /\ DOMAIN closures' = DOMAIN closures \cup {c}
    /\ \A d \in DOMAIN closures : d # c => closures'[d] = closures[d]
    /\ closures'[c] = x /\ x.proto = child /\ IsClosure(x, Uprefs')
    /\ c \in Published =>
         c \in Shared /\ x.preload = 0 /\ x.uprefs = closures[c].uprefs
    /\ c \in Shared /\ Len(captured) = Nups(child) => x.preload = 0
    /\ c \in Shared /\ x.preload = 0 =>
         \/ Len(captured) = Nups(child)
         \/ closures[c].preload = 0 /\ x.uprefs = closures[c].uprefs
    /\ captured \in Seq(Uprefs' \cup {Itself})
    /\ Len(captured) \in 0..Nups(child)
    /\ Len(captured) = 0 => Nups(child) = 0
    /\ stack' = Shown(stack, child, c)
    /\ cells' = cells \/ OneCellMore
    /\ Advance(child, c, captured)
    /\ UNCHANGED <<runs, initialized, frames>>

(* One more cell is one more variable.                                     *)
LEMMA CellsAfterCapture ==
    ASSUME Types, OpenCellsAreVariables, frames # <<>>, UNCHANGED frames,
           DOMAIN closures \subseteq DOMAIN closures',
           cells' = cells \/ OneCellMore
    PROVE  /\ cells' \in Seq(UpVal') /\ Len(cells)' \in Nat
           /\ Len(cells) <= Len(cells)' /\ Len(cells)' <= MaxCells
           /\ \A i \in 1..Len(cells) : cells'[i] = cells[i]
           /\ OpenCellsAreVariables'
<1>1. UpVal \subseteq UpVal'
  BY ValuesGrow
<1>2. cells \in Seq(UpVal')
  BY <1>1, SeqMonotonic DEF Types
<1>3. CASE cells' = cells
  BY <1>2, <1>3, CellFacts DEF OpenCellsAreVariables, IsOpen, Depth, Types
<1>4. CASE OneCellMore
  <2>1. PICK r \in Registers :
          /\ CellsOf(r) = {} /\ Len(cells) < MaxCells
          /\ cells' = Append(cells, [level |-> Depth, register |-> r, value |-> Nil])
    BY <1>4 DEF OneCellMore
  <2> DEFINE new == [level |-> Depth, register |-> r, value |-> Nil]
  <2>2. new \in UpVal'
    <3>1. Nil \in Values'
      BY ValuesGrow, UprefKinds
    <3>2. Depth \in 0..MaxDepth
      BY RunningFacts, ProtosAssumption DEF Types
    <3> QED
      BY <3>1, <3>2 DEF UpVal
  <2>3. /\ cells' \in Seq(UpVal') /\ Len(cells') = Len(cells) + 1
        /\ \A i \in 1..Len(cells) : cells'[i] = cells[i]
        /\ cells'[Len(cells) + 1] = new
    <3> DEFINE all == UpVal'
    <3>1. cells \in Seq(all) /\ new \in all /\ cells' = Append(cells, new)
      BY <1>2, <2>1, <2>2
    <3>2. /\ cells' \in Seq(all) /\ Len(cells') = Len(cells) + 1
          /\ \A i \in 1..Len(cells) : cells'[i] = cells[i]
          /\ cells'[Len(cells) + 1] = new
      <4> HIDE DEF all, new
      <4> QED
        BY <3>1
    <3> QED
      BY <3>2
  <2>4. Len(cells)' \in Nat /\ MaxCells \in Nat
    BY <2>3, CellFacts, ProtosAssumption
  <2>5. OpenCellsAreVariables'
    <3>1. \A i \in 1..Len(cells) : ~(cells[i].level = Depth /\ cells[i].register = r)
      BY <2>1 DEF CellsOf
    <3>2. new.level = Depth /\ new.register = r /\ Depth \in Nat \ {0} /\ Depth' = Depth
      BY RunningFacts DEF Depth
    <3>3. \A i \in 1..Len(cells') : i \in 1..Len(cells) \/ i = Len(cells) + 1
      BY <2>3, CellFacts
    <3> HIDE DEF new
    <3> QED
      BY <2>3, <3>1, <3>2, <3>3 DEF OpenCellsAreVariables, IsOpen
  <2> QED
    BY <2>1, <2>3, <2>4, <2>5, CellFacts
<1> QED
  BY <1>3, <1>4

(* Showing the closure writes the frame of the instruction.                *)
LEMMA StackAfterCapture ==
    ASSUME Types, frames # <<>>, NEW child \in Children, NEW c \in DOMAIN closures',
           DOMAIN closures \subseteq DOMAIN closures'
    PROVE  /\ Shown(stack, child, c) \in [Levels -> [Registers -> Values']]
           /\ \A l \in Levels : \A r \in Registers :
                ~(l = Depth /\ r = Destination(child))
                  => Shown(stack, child, c)[l][r] = stack[l][r]
           /\ Shown(stack, child, c)[Depth][Destination(child)] = Function(c)
<1>1. Values \subseteq Values' /\ Function(c) \in Values'
  BY ValuesGrow DEF Values, Function
<1>2. stack \in [Levels -> [Registers -> Values']]
  BY <1>1 DEF Types
<1>3. Depth \in Levels /\ Destination(child) \in Registers
  BY RunningFacts, CaptureTypes
<1> QED
  BY <1>1, <1>2, <1>3 DEF Shown

(* The types after a capture.                                              *)
LEMMA TypesAfterCapture ==
    ASSUME ClosuresInv, NEW child, NEW c, NEW x, NEW captured,
           CaptureStep(child, c, x, captured)
    PROVE  Types'
<1> USE DEF ClosuresInv
<1>1. DOMAIN closures' = DOMAIN closures \cup {c} /\ child \in Children
  BY DEF CaptureStep
<1>2. /\ cells' \in Seq(UpVal') /\ Len(cells)' \in Nat /\ Len(cells) <= Len(cells)'
      /\ Len(cells)' <= MaxCells
  BY <1>1, CellsAfterCapture DEF CaptureStep
<1>3. Uprefs \subseteq Uprefs'
  BY <1>1, <1>2, CellFacts, UprefsGrow
<1>4. runs' \in 0..MaxRuns /\ initialized' \in BOOLEAN
  BY DEF CaptureStep, Types
<1>5. frames' \in Seq(DOMAIN closures') /\ Depth' <= MaxDepth
  BY <1>1, SeqMonotonic DEF CaptureStep, Types, Depth
<1>6. stack' \in [Levels -> [Registers -> Values']]
  BY <1>1, StackAfterCapture DEF CaptureStep
<1>7. InOrder'
  <2>1. PICK n \in 0..MaxClosures : DOMAIN closures = Shared \cup 0..n
    BY DEF Types, InOrder
  <2>2. CASE c \in DOMAIN closures
    BY <1>1, <2>1, <2>2 DEF InOrder
  <2>3. CASE c = NextClosure /\ NextClosure <= MaxClosures
    <3>1. NextClosure \in Nat \ {0} /\ DOMAIN closures = Shared \cup 0..(NextClosure - 1)
      BY NextIsNew DEF Types
    <3>2. 0..(NextClosure - 1) \cup {NextClosure} = 0..NextClosure
      BY <3>1
    <3>3. DOMAIN closures' = Shared \cup 0..NextClosure
      BY <1>1, <2>3, <3>1, <3>2
    <3>4. NextClosure \in 0..MaxClosures
      BY <2>3, <3>1, ProtosAssumption
    <3> QED
      BY <3>3, <3>4 DEF InOrder
  <2> QED
    BY <2>2, <2>3 DEF CaptureStep
<1>8. \A d \in DOMAIN closures' : IsClosure(closures'[d], Uprefs')
  <2>1. \A d \in DOMAIN closures : IsClosure(closures[d], Uprefs')
    BY <1>3, ClosureGrows DEF Types
  <2> QED
    BY <1>1, <2>1 DEF CaptureStep
<1>9. Published' \subseteq DOMAIN closures'
  BY <1>1 DEF CaptureStep, Advance, Extend, Published, Types
<1> QED
  BY <1>2, <1>4, <1>5, <1>6, <1>7, <1>8, <1>9 DEF Types

(* The closure between two captures after one more of them.                *)
LEMMA PendingAfterCapture ==
    ASSUME ClosuresInv, NEW child, NEW c, NEW x, NEW captured,
           CaptureStep(child, c, x, captured)
    PROVE  PendingInv'
<1>1. CASE Len(captured) < Nups(child)
  <2>1. pending' = [child |-> child, made |-> c, captured |-> captured] /\ meant' = meant
    BY <1>1 DEF CaptureStep, Advance
  <2>2. child \in Children /\ Nups(child) \in Nat
    BY NupsNat DEF CaptureStep, Protos
  <2>3. Len(captured) \in 1..(Nups(child) - 1)
    BY <1>1, <2>2 DEF CaptureStep
  <2>4. captured \in Seq(Uprefs' \cup {Itself})
    BY DEF CaptureStep
  <2>5. frames' # <<>> /\ c \in DOMAIN closures' /\ closures'[c].proto = child
    BY DEF CaptureStep
  <2>6. c \in Published' => c \in Shared /\ closures'[c].preload = 0
    BY <2>1 DEF CaptureStep, Published
  <2>7. c \in Shared => c = child
    BY DEF CaptureStep
  <2>8. pending'.child = child /\ pending'.made = c /\ pending'.captured = captured
    BY <2>1
  <2> QED
    BY <2>2, <2>3, <2>4, <2>5, <2>6, <2>7, <2>8 DEF PendingInv, Itself
<1>2. CASE ~(Len(captured) < Nups(child))
  BY <1>2 DEF CaptureStep, Advance, PendingInv, Idle, NoPending
<1> QED
  BY <1>1, <1>2

(* The templates after one more capture.                                   *)
LEMMA TemplatesAfterCapture ==
    ASSUME ClosuresInv, NEW child, NEW c, NEW x, NEW captured,
           CaptureStep(child, c, x, captured)
    PROVE  Templates'
<1> USE DEF ClosuresInv
<1>1. Shared \subseteq DOMAIN closures
  BY DEF Types, InOrder
<1>2. SUFFICES ASSUME NEW t \in Shared
               PROVE  /\ closures'[t].proto = t
                      /\ t \in Published' \/ Nups(t) = 0 => closures'[t].preload = 0
  BY DEF Templates
<1>3. CASE t # c
  <2>1. closures'[t] = closures[t]
    BY <1>1, <1>3 DEF CaptureStep
  <2>2. t \in Published' => t \in Published
    BY <1>3 DEF CaptureStep, Advance, Extend, Published
  <2> QED
    BY <2>1, <2>2 DEF Templates
<1>4. CASE t = c
  <2>1. closures'[t].proto = t
    BY <1>4 DEF CaptureStep
  <2>2. CASE Len(captured) < Nups(child)
    <3>1. Published' = Published /\ Nups(t) # 0
      BY <1>4, <2>2 DEF CaptureStep, Advance, Published
    <3> QED
      BY <1>4, <2>1, <3>1 DEF CaptureStep
  <2>3. CASE ~(Len(captured) < Nups(child))
    <3>1. Nups(child) \in Nat
      BY NupsNat DEF CaptureStep, Protos
    <3>2. Len(captured) = Nups(child)
      BY <2>3, <3>1 DEF CaptureStep
    <3> QED
      BY <1>4, <2>1, <3>2 DEF CaptureStep
  <2> QED
    BY <2>2, <2>3
<1> QED
  BY <1>3, <1>4

(* A capture keeps the invariant.                                          *)
LEMMA CaptureKeepsInv ==
    ASSUME ClosuresInv, NEW child, NEW c, NEW x, NEW captured,
           CaptureStep(child, c, x, captured)
    PROVE  ClosuresInv'
<1>1. OpenCellsAreVariables'
  BY CellsAfterCapture DEF CaptureStep, ClosuresInv
<1> QED
  BY <1>1, TypesAfterCapture, PendingAfterCapture, TemplatesAfterCapture DEF ClosuresInv

(***************************************************************************)
(* Each closure instruction is such a step.                                *)
(***************************************************************************)
CaptureMade ==
    \E child, c, x, captured :
        /\ CaptureStep(child, c, x, captured)
        /\ SelfLast /\ SourcesInv => Holds(child, c, x.uprefs, captured)

(* What a capture reads, and what its source means.                        *)
LEMMA CapturedMeans ==
    ASSUME Types, frames # <<>>, NEW child \in Children, NEW i \in 1..Nups(child),
           Running.proto = Parent[child], Site[child].captures[i].kind # "ref",
           NEW c \in DOMAIN closures', DOMAIN closures \subseteq DOMAIN closures',
           Uprefs \subseteq Uprefs'
    PROVE  LET value == Captured(child, i, Shown(stack, child, c))
           IN  /\ value \in Uprefs' /\ Meaning(child, i) \in Uprefs' \cup {Itself}
               /\ Meaning(child, i) = Itself <=> IsSelf(child, i)
               /\ value = IF Meaning(child, i) = Itself THEN Function(c)
                          ELSE Meaning(child, i)
<1> DEFINE capture == Site[child].captures[i]
           registers == Shown(stack, child, c)
<1>1. /\ capture.kind = "upval" => capture.source \in 1..Nups(Parent[child])
      /\ capture.kind # "upval" => capture.source \in Registers
      /\ capture.kind \in {"val", "upval"}
  BY CaptureTypes DEF Kinds
<1>2. /\ registers \in [Levels -> [Registers -> Values']]
      /\ \A l \in Levels : \A r \in Registers :
           ~(l = Depth /\ r = Destination(child)) => registers[l][r] = stack[l][r]
      /\ registers[Depth][Destination(child)] = Function(c)
  BY StackAfterCapture
<1>3. Depth \in Levels /\ \A j \in 1..Nups(Running.proto) : Running.uprefs[j] \in Uprefs
  BY RunningFacts
<1>4. (\A v \in Uprefs : v # Itself) /\ (\A v \in Values' : v \in Uprefs' /\ v # Itself)
  <2>1. \A v \in Uprefs : v # Itself
    BY DEF Uprefs, Cells, Values, Constants, Nil, Datum, Function, Cell, Itself
  <2>2. \A v \in Values' : v \in Uprefs' /\ v # Itself
    BY DEF Uprefs, Values, Constants, Nil, Datum, Function, Itself
  <2> QED
    BY <2>1, <2>2
<1> HIDE DEF registers
<1>5. CASE capture.kind = "upval"
  <2>1. /\ Captured(child, i, registers) = Running.uprefs[capture.source]
        /\ Meaning(child, i) = Running.uprefs[capture.source]
    BY <1>5 DEF Captured, Meaning
  <2>2. Running.uprefs[capture.source] \in Uprefs
    BY <1>1, <1>3, <1>5
  <2>3. ~IsSelf(child, i)
    BY <1>5 DEF IsSelf
  <2> QED
    BY <1>4, <2>1, <2>2, <2>3 DEF registers, Itself
<1>6. CASE capture.kind = "val"
  <2>1. /\ Captured(child, i, registers) = registers[Depth][capture.source]
        /\ Captured(child, i, stack) = stack[Depth][capture.source]
    BY <1>6 DEF Captured
  <2>2. capture.source \in Registers
    BY <1>1, <1>6
  <2>3. registers[Depth][capture.source] \in Values'
    BY <1>2, <1>3, <2>2
  <2>4. CASE capture.source = Destination(child)
    <3>1. Meaning(child, i) = Itself /\ IsSelf(child, i)
      BY <1>6, <2>4 DEF Meaning, IsSelf
    <3>2. registers[Depth][capture.source] = Function(c)
      BY <1>2, <2>4
    <3> QED
      BY <1>4, <2>1, <2>3, <3>1, <3>2 DEF registers
  <2>5. CASE capture.source # Destination(child)
    <3>1. Meaning(child, i) = stack[Depth][capture.source] /\ ~IsSelf(child, i)
      BY <1>6, <2>1, <2>5 DEF Meaning, IsSelf
    <3>2. registers[Depth][capture.source] = stack[Depth][capture.source]
      BY <1>2, <1>3, <2>2, <2>5
    <3> QED
      BY <1>4, <2>1, <2>3, <3>1, <3>2 DEF registers
  <2> QED
    BY <2>4, <2>5
<1> QED
  BY <1>1, <1>5, <1>6

(* The captures so far, one more.                                          *)
LEMMA CapturedAppends ==
    ASSUME ClosuresInv, NEW child \in Children, NEW i, NextCapture(child, i),
           Uprefs \subseteq Uprefs', NEW meaning, meaning \in Uprefs' \cup {Itself}
    PROVE  LET captured == CapturedSoFar(child, i, meaning)
           IN  /\ captured \in Seq(Uprefs' \cup {Itself})
               /\ Len(captured) = i
               /\ captured[i] = meaning
               /\ \A j \in 1..(i - 1) : captured[j] = pending.captured[j]
<1> DEFINE all == Uprefs' \cup {Itself}
           before == IF i = 1 THEN <<>> ELSE pending.captured
<1>1. i \in Nat \ {0} /\ (i # 1 => i = Len(pending.captured) + 1 /\ pending.child = child)
  BY NupsNat DEF NextCapture, Protos
<1>2. before \in Seq(all) /\ Len(before) = i - 1
  <2>1. CASE i = 1
    BY <2>1, EmptySeq
  <2>2. CASE i # 1
    <3>1. ~Idle
      BY <1>1, <2>2, ProtosAssumption DEF Idle, NoPending
    <3>2. pending.captured \in Seq(Uprefs \cup {Itself})
      BY <3>1 DEF ClosuresInv, PendingInv
    <3>3. pending.captured \in Seq(all) /\ Len(pending.captured) \in Nat
      BY <3>2, SeqMonotonic, LenProperties
    <3> QED
      BY <1>1, <2>2, <3>3
  <2> QED
    BY <2>1, <2>2
<1>3. CapturedSoFar(child, i, meaning) = Append(before, meaning)
  BY DEF CapturedSoFar
<1>4. meaning \in all
  OBVIOUS
<1>5. /\ Append(before, meaning) \in Seq(all) /\ Len(Append(before, meaning)) = i
      /\ Append(before, meaning)[i] = meaning
      /\ \A j \in 1..(i - 1) : Append(before, meaning)[j] = before[j]
  <2> HIDE DEF all, before
  <2> QED
    BY <1>1, <1>2, <1>4
<1>6. \A j \in 1..(i - 1) : before[j] = pending.captured[j]
  BY <1>1
<1> QED
  BY <1>3, <1>5, <1>6

(* After the first capture, the closure is the one in the making.          *)
LEMMA LaterCapture ==
    ASSUME ClosuresInv, NEW child \in Children, NEW i, NextCapture(child, i), i # 1
    PROVE  /\ ~Idle /\ pending.child = child /\ i = Len(pending.captured) + 1
           /\ pending.made \in DOMAIN closures /\ closures[pending.made].proto = child
           /\ IsClosure(closures[pending.made], Uprefs)
           /\ pending.made \in Shared => pending.made = child
           /\ pending.made \in Published =>
                pending.made \in Shared /\ closures[pending.made].preload = 0
<1>1. pending.child = child /\ i = Len(pending.captured) + 1
  BY DEF NextCapture
<1>2. ~Idle
  BY <1>1, ProtosAssumption DEF Idle, NoPending
<1> QED
  BY <1>1, <1>2 DEF ClosuresInv, PendingInv, Types

(* An empty closure is one.                                                *)
LEMMA MakeEmptyCaptures ==
    ASSUME ClosuresInv, MakeEmpty
    PROVE  CaptureMade
<1> USE DEF ClosuresInv
<1>1. PICK child \in Children :
        /\ Running.proto = Parent[child] /\ Nups(child) = 0
        /\ EmptyClosure(child) = NextClosure => NextClosure <= MaxClosures
        /\ closures' = IF EmptyClosure(child) = child THEN closures
                       ELSE Extend(closures, NextClosure, Closure(child, Running.env))
        /\ stack' = Shown(stack, child, EmptyClosure(child))
        /\ Advance(child, EmptyClosure(child), <<>>)
  BY DEF MakeEmpty
<1>2. frames # <<>> /\ UNCHANGED <<runs, initialized, frames, cells>>
  BY DEF MakeEmpty
<1> DEFINE c == EmptyClosure(child)
           x == closures'[c]
<1>3. NextClosure \in Nat /\ NextClosure \notin DOMAIN closures /\ NextClosure \notin Shared
  BY NextIsNew DEF Types
<1>4. \/ c = child /\ child \in Shared
      \/ c = NextClosure /\ c # child
  BY <1>3, ProtosAssumption DEF EmptyClosure
<1>5. Shared \subseteq DOMAIN closures
  BY DEF Types, InOrder
<1>6. /\ DOMAIN closures' = DOMAIN closures \cup {c}
      /\ \A d \in DOMAIN closures : d # c => closures'[d] = closures[d]
      /\ c = child => x = closures[c]
      /\ c # child => x = Closure(child, Running.env)
  <2>1. CASE c = child
    <3>1. closures' = closures
      BY <1>1, <2>1
    <3>2. c \in DOMAIN closures
      BY <1>3, <1>4, <1>5, <2>1
    <3> QED
      BY <2>1, <3>1, <3>2
  <2>2. CASE c # child
    <3> DEFINE made == Closure(child, Running.env)
    <3>1. closures' = Extend(closures, c, made)
      BY <1>1, <1>4, <2>2
    <3> HIDE DEF made, c
    <3>2. /\ DOMAIN closures' = DOMAIN closures \cup {c}
          /\ \A d \in DOMAIN closures : d # c => closures'[d] = closures[d]
          /\ closures'[c] = made
      BY <3>1 DEF Extend
    <3> QED
      BY <2>2, <3>2 DEF made
  <2> QED
    BY <2>1, <2>2
<1>7. Uprefs \subseteq Uprefs'
  BY <1>2, <1>6, CellFacts, UprefsGrow
<1>8. x.proto = child /\ IsClosure(x, Uprefs')
  <2>1. CASE c = child
    <3>1. x = closures[c] /\ c \in Shared /\ c \in DOMAIN closures
      BY <1>4, <1>5, <1>6, <2>1, <1>3
    <3>2. closures[c].proto = child /\ IsClosure(closures[c], Uprefs)
      BY <2>1, <3>1 DEF Templates, Types
    <3>3. IsClosure(closures[c], Uprefs')
      BY <1>7, <3>2, ClosureGrows
    <3> QED
      BY <3>1, <3>2, <3>3
  <2>2. CASE c # child
    <3>1. Running.env \in Nat /\ child \in Protos
      BY <1>2, RunningFacts DEF IsClosure, Protos
    <3>2. Nil \in Uprefs'
      BY <1>7, UprefKinds
    <3>3. IsClosure(Closure(child, Running.env), Uprefs')
      BY <3>1, <3>2, ClosureIsClosure
    <3>4. Closure(child, Running.env).proto = child
      BY DEF Closure
    <3> QED
      BY <1>6, <2>2, <3>3, <3>4
  <2> QED
    BY <2>1, <2>2
<1>9. <<>> \in Seq(Uprefs' \cup {Itself}) /\ Len(<<>>) = 0
  BY EmptySeq
<1>10. c \in Shared => c = child /\ x.preload = 0 /\ x.uprefs = closures[c].uprefs
  BY <1>1, <1>3, <1>4, <1>6 DEF Templates
<1>11. c \in Published => c \in Shared
  BY <1>3, <1>4 DEF Types
<1>12. c \in DOMAIN closures \/ (c = NextClosure /\ NextClosure <= MaxClosures)
  BY <1>1, <1>4, <1>5
<1> HIDE DEF c
<1>13. stack' = Shown(stack, child, c) /\ Advance(child, c, <<>>)
  BY <1>1 DEF c
<1>14. CaptureStep(child, c, x, <<>>)
  BY <1>1, <1>2, <1>6, <1>8, <1>9, <1>10, <1>11, <1>12, <1>13 DEF CaptureStep
<1>15. Holds(child, c, x.uprefs, <<>>)
  BY <1>9 DEF Holds
<1> QED
  BY <1>14, <1>15 DEF CaptureMade

(* A capture that stores value in slot i of closure c, which was before.   *)
Stores(child, i, c, before, value, preload, meaning) ==
    /\ child \in Children /\ NextCapture(child, i)
    /\ c \in DOMAIN closures \/ (c = NextClosure /\ NextClosure <= MaxClosures)
    /\ c \in Shared => c = child
    /\ before.proto = child /\ IsClosure(before, Uprefs')
    /\ value \in Uprefs' /\ preload \in Nat /\ meaning \in Uprefs' \cup {Itself}
    /\ DOMAIN closures' = DOMAIN closures \cup {c}
    /\ \A d \in DOMAIN closures : d # c => closures'[d] = closures[d]
    /\ closures'[c] = Store(before, i, value, preload)
    /\ c \in Published => c \in Shared /\ preload = 0
    /\ c \in Shared =>
         /\ before = closures[c]
         /\ preload = 0 => before.preload = 0 /\ value = before.uprefs[i]
    /\ Uprefs \subseteq Uprefs'
    /\ stack' = Shown(stack, child, c)
    /\ cells' = cells \/ OneCellMore
    /\ Advance(child, c, CapturedSoFar(child, i, meaning))
    /\ UNCHANGED <<runs, initialized, frames>>

(* ... and what it stores is what it should.                               *)
StoresMeaning(child, i, c, before, value, meaning) ==
    /\ meaning = Itself <=> IsSelf(child, i)
    /\ value = IF meaning = Itself THEN Function(c) ELSE meaning
    /\ i # 1 => Holds(child, c, before.uprefs, pending.captured)

LEMMA StoringCaptures ==
    ASSUME ClosuresInv, NEW child, NEW i, NEW c, NEW before, NEW value, NEW preload, NEW meaning,
           Stores(child, i, c, before, value, preload, meaning),
           SelfLast /\ SourcesInv => StoresMeaning(child, i, c, before, value, meaning)
    PROVE  CaptureMade
<1> DEFINE captured == CapturedSoFar(child, i, meaning)
           x == Store(before, i, value, preload)
<1>1. /\ child \in Children /\ NextCapture(child, i) /\ before.proto = child
      /\ IsClosure(before, Uprefs') /\ value \in Uprefs' /\ preload \in Nat
      /\ meaning \in Uprefs' \cup {Itself} /\ Uprefs \subseteq Uprefs'
  BY DEF Stores
<1>2. i \in 1..Nups(child) /\ Nups(child) \in Nat /\ frames # <<>>
  BY <1>1, NupsNat DEF NextCapture, Protos
<1>3. /\ captured \in Seq(Uprefs' \cup {Itself}) /\ Len(captured) = i
      /\ captured[i] = meaning
      /\ \A j \in 1..(i - 1) : captured[j] = pending.captured[j]
  BY <1>1, CapturedAppends
<1>4. /\ IsClosure(x, Uprefs') /\ x.proto = child
      /\ x.uprefs = [before.uprefs EXCEPT ![i] = value]
      /\ x.preload = IF i = Nups(child) THEN 0 ELSE preload
  BY <1>1, <1>2, StoreStores
<1>5. before.uprefs \in [1..Nups(child) -> Uprefs']
  BY <1>1 DEF IsClosure
<1> HIDE DEF captured, x
<1>6. c \in Shared /\ preload = 0 => x.preload = 0 /\ x.uprefs = closures[c].uprefs
  <2> SUFFICES ASSUME c \in Shared, preload = 0
               PROVE  x.preload = 0 /\ x.uprefs = closures[c].uprefs
    OBVIOUS
  <2>1. before = closures[c] /\ value = before.uprefs[i]
    BY DEF Stores
  <2>2. x.uprefs = before.uprefs
    BY <1>2, <1>4, <1>5, <2>1
  <2> QED
    BY <1>4, <2>1, <2>2
<1>7. CaptureStep(child, c, x, captured)
  <2>1. /\ c \in Published => c \in Shared /\ x.preload = 0 /\ x.uprefs = closures[c].uprefs
        /\ c \in Shared /\ Len(captured) = Nups(child) => x.preload = 0
    BY <1>3, <1>4, <1>6 DEF Stores
  <2>2. c \in Shared /\ x.preload = 0 =>
          \/ Len(captured) = Nups(child)
          \/ closures[c].preload = 0 /\ x.uprefs = closures[c].uprefs
    BY <1>3, <1>4, <1>6 DEF Stores
  <2>3. closures'[c] = x /\ Advance(child, c, captured)
    BY DEF Stores, x, captured
  <2> QED
    BY <1>2, <1>3, <1>4, <2>1, <2>2, <2>3 DEF CaptureStep, Stores
<1>8. SelfLast /\ SourcesInv => Holds(child, c, x.uprefs, captured)
  <2> SUFFICES ASSUME SelfLast, SourcesInv, NEW j \in 1..i
               PROVE  /\ captured[j] = Itself <=> IsSelf(child, j)
                      /\ x.uprefs[j] = IF captured[j] = Itself THEN Function(c)
                                       ELSE captured[j]
    BY <1>3 DEF Holds
  <2>1. StoresMeaning(child, i, c, before, value, meaning)
    OBVIOUS
  <2>2. CASE j = i
    BY <1>2, <1>3, <1>4, <1>5, <2>1, <2>2 DEF StoresMeaning
  <2>3. CASE j # i
    <3>1. j \in 1..(i - 1) /\ i # 1
      BY <1>2, <2>3
    <3>2. i = Len(pending.captured) + 1
      BY <1>1, <3>1 DEF NextCapture
    <3>3. j \in 1..Len(pending.captured)
      <4>1. Len(pending.captured) \in Nat
        BY <1>1, <3>1, LaterCapture, LenProperties DEF ClosuresInv, PendingInv
      <4> QED
        BY <3>1, <3>2, <4>1
    <3>4. Holds(child, c, before.uprefs, pending.captured)
      BY <2>1, <3>1 DEF StoresMeaning
    <3>5. x.uprefs[j] = before.uprefs[j] /\ captured[j] = pending.captured[j]
      BY <1>2, <1>3, <1>4, <1>5, <2>3, <3>1
    <3> QED
      BY <3>3, <3>4, <3>5 DEF Holds
  <2> QED
    BY <2>2, <2>3
<1> QED
  BY <1>7, <1>8 DEF CaptureMade

(* A capture of a closure that shares nothing.                             *)
LEMMA NewClosureCaptures ==
    ASSUME ClosuresInv, NewClosureCapture
    PROVE  CaptureMade
<1> USE DEF ClosuresInv
<1>1. SUFFICES ASSUME
        NEW child \in Children \ Shared, NEW i \in 1..Nups(child),
        LET c == IF i = 1 THEN NextClosure ELSE pending.made
            closure == IF i = 1 THEN Closure(child, Running.env) ELSE closures[c]
            capture == Site[child].captures[i]
            registers == Shown(stack, child, c)
            known == CellsOf(capture.source)
            cell == IF known = {} THEN Len(cells) + 1 ELSE CHOOSE j \in known : TRUE
            value == IF capture.kind = "ref" THEN Cell(cell)
                     ELSE Captured(child, i, registers)
            meaning == IF capture.kind = "ref" THEN value ELSE Meaning(child, i)
        IN  /\ NextCapture(child, i)
            /\ c <= MaxClosures /\ cell <= MaxCells
            /\ stack' = registers
            /\ closures' = Extend(closures, c, Store(closure, i, value, i))
            /\ cells' = IF capture.kind = "ref" /\ known = {}
                        THEN Append(cells, [level |-> Depth, register |-> capture.source,
                                            value |-> Nil])
                        ELSE cells
            /\ Advance(child, c, CapturedSoFar(child, i, meaning))
        PROVE CaptureMade
  BY DEF NewClosureCapture
<1> DEFINE c == IF i = 1 THEN NextClosure ELSE pending.made
           closure == IF i = 1 THEN Closure(child, Running.env) ELSE closures[c]
           capture == Site[child].captures[i]
           registers == Shown(stack, child, c)
           known == CellsOf(capture.source)
           cell == IF known = {} THEN Len(cells) + 1 ELSE CHOOSE j \in known : TRUE
           value == IF capture.kind = "ref" THEN Cell(cell)
                    ELSE Captured(child, i, registers)
           meaning == IF capture.kind = "ref" THEN value ELSE Meaning(child, i)
           x == Store(closure, i, value, i)
<1>2. /\ NextCapture(child, i)
      /\ c <= MaxClosures /\ cell <= MaxCells
      /\ stack' = registers
      /\ closures' = Extend(closures, c, x)
      /\ Advance(child, c, CapturedSoFar(child, i, meaning))
  BY <1>1
<1>3. cells' = IF capture.kind = "ref" /\ known = {}
               THEN Append(cells, [level |-> Depth, register |-> capture.source,
                                   value |-> Nil])
               ELSE cells
  BY <1>1
<1>4. UNCHANGED <<runs, initialized, frames>>
  BY DEF NewClosureCapture
<1>5. frames # <<>> /\ Running.proto = Parent[child] /\ child \in Children
  BY <1>2, ProtosAssumption DEF NextCapture
<1>6. /\ NextClosure \in Nat /\ NextClosure \notin DOMAIN closures /\ NextClosure \notin Shared
  BY NextIsNew DEF Types
<1>7. /\ c \notin Shared /\ c \notin Published
      /\ c \in DOMAIN closures \/ (c = NextClosure /\ NextClosure <= MaxClosures)
  <2>1. CASE i = 1
    BY <1>2, <1>6, <2>1 DEF Types
  <2>2. CASE i # 1
    BY <1>2, <1>5, <2>2, LaterCapture
  <2> QED
    BY <2>1, <2>2
<1>8. /\ capture.kind = "ref" => capture.source \in Registers
      /\ capture.kind \in Kinds
  BY <1>5, CaptureTypes
<1>9. /\ Len(cells) \in Nat
      /\ known # {} => cell \in known /\ cell \in 1..Len(cells)
      /\ known = {} => cell = Len(cells) + 1 /\ Len(cells) < MaxCells
  <2>1. Len(cells) \in Nat /\ MaxCells \in Nat
    BY CellFacts, ProtosAssumption
  <2>2. known # {} => cell \in known
    OBVIOUS
  <2>3. known \subseteq 1..Len(cells)
    BY DEF CellsOf
  <2> QED
    BY <1>2, <2>1, <2>2, <2>3
<1> HIDE DEF c, registers, known, cell, x
<1>10. cells' = cells \/ OneCellMore
  BY <1>3, <1>8, <1>9 DEF OneCellMore, known
<1>11. /\ DOMAIN closures' = DOMAIN closures \cup {c}
       /\ \A d \in DOMAIN closures : d # c => closures'[d] = closures[d]
       /\ closures'[c] = x
  BY <1>2 DEF Extend
<1>12. /\ Len(cells)' \in Nat /\ Len(cells) <= Len(cells)'
  BY <1>4, <1>5, <1>10, <1>11, CellsAfterCapture
<1>13. Uprefs \subseteq Uprefs'
  BY <1>9, <1>11, <1>12, UprefsGrow
<1>14. closure.proto = child /\ IsClosure(closure, Uprefs')
  <2>1. CASE i = 1
    <3>1. Running.env \in Nat /\ child \in Protos
      BY <1>5, RunningFacts DEF IsClosure, Protos
    <3>2. Nil \in Uprefs'
      BY <1>13, UprefKinds
    <3>3. IsClosure(Closure(child, Running.env), Uprefs')
      BY <3>1, <3>2, ClosureIsClosure
    <3>4. Closure(child, Running.env).proto = child
      BY DEF Closure
    <3> QED
      BY <2>1, <3>3, <3>4
  <2>2. CASE i # 1
    <3>1. closure = closures[pending.made]
      BY <2>2 DEF c
    <3>2. closure.proto = child /\ IsClosure(closure, Uprefs)
      BY <1>2, <1>5, <2>2, <3>1, LaterCapture
    <3> QED
      BY <1>13, <3>2, ClosureGrows
  <2> QED
    BY <2>1, <2>2
<1>15. SelfLast /\ SourcesInv /\ i # 1 => Holds(child, c, closure.uprefs, pending.captured)
  <2> SUFFICES ASSUME SourcesInv, i # 1
               PROVE  Holds(child, c, closure.uprefs, pending.captured)
    OBVIOUS
  <2>1. ~Idle /\ pending.child = child /\ c = pending.made /\ closure = closures[c]
    BY <1>2, <1>5, LaterCapture DEF c
  <2> QED
    BY <2>1 DEF SourcesInv, PendingSources
<1>16. /\ value \in Uprefs' /\ meaning \in Uprefs' \cup {Itself}
       /\ meaning = Itself <=> IsSelf(child, i)
       /\ value = IF meaning = Itself THEN Function(c) ELSE meaning
  <2>1. CASE capture.kind = "ref"
    <3>1. cell \in 1..Len(cells')
      <4>1. CASE known # {}
        BY <1>9, <1>12, <4>1
      <4>2. CASE known = {}
        <5>1. cells \in Seq(UpVal)
          BY DEF Types
        <5>2. cells' = Append(cells, [level |-> Depth, register |-> capture.source,
                                      value |-> Nil])
          BY <1>3, <2>1, <4>2
        <5>3. Len(cells') = Len(cells) + 1
          BY <5>1, <5>2
        <5> QED
          BY <1>9, <4>2, <5>3
      <4> QED
        BY <4>1, <4>2
    <3>2. Cell(cell) \in Uprefs'
      BY <3>1 DEF Uprefs, Cells, Cell
    <3>3. Cell(cell) # Itself
      BY DEF Cell, Itself
    <3>4. ~IsSelf(child, i)
      BY <2>1 DEF IsSelf
    <3> QED
      BY <2>1, <3>2, <3>3, <3>4
  <2>2. CASE capture.kind # "ref"
    <3>1. c \in DOMAIN closures' /\ DOMAIN closures \subseteq DOMAIN closures'
      BY <1>11
    <3>2. value = Captured(child, i, Shown(stack, child, c)) /\ meaning = Meaning(child, i)
      BY <2>2 DEF registers
    <3> QED
      BY <1>5, <1>13, <2>2, <3>1, <3>2, CapturedMeans
  <2> QED
    BY <2>1, <2>2
<1> HIDE DEF closure, value, meaning
<1>17. Stores(child, i, c, closure, value, i, meaning)
  BY <1>2, <1>4, <1>5, <1>7, <1>10, <1>11, <1>13, <1>14, <1>16 DEF Stores, x, registers
<1>18. SelfLast /\ SourcesInv => StoresMeaning(child, i, c, closure, value, meaning)
  BY <1>15, <1>16 DEF StoresMeaning
<1> QED
  BY <1>17, <1>18, StoringCaptures

(* A capture of a closure with a template: it shares what the template     *)
(* holds, leaves the template for a closure of its own, or fills.          *)
LEMMA DupClosureCaptures ==
    ASSUME ClosuresInv, DupClosureCapture
    PROVE  CaptureMade
<1> USE DEF ClosuresInv
<1>1. SUFFICES ASSUME
        NEW child \in Shared, NEW i \in 1..Nups(child),
        LET template == closures[child]
            first == IF template.env = Running.env THEN child ELSE NextClosure
            c == IF i = 1 THEN first ELSE pending.made
            registers == Shown(stack, child, c)
            value == Captured(child, i, registers)
            captured == CapturedSoFar(child, i, Meaning(child, i))
            closure == IF c \in DOMAIN closures THEN closures[c]
                       ELSE Closure(child, Running.env)
            matches == Matches(child, i, c, registers)
            clones == Clones(child, i, c, registers)
            cloned == Shown(stack, child, NextClosure)
            copied == [Closure(child, Running.env) EXCEPT
                         !.uprefs = [j \in 1..Nups(child) |->
                                       IF j < i THEN template.uprefs[j] ELSE Nil]]
        IN  /\ NextCapture(child, i)
            /\ \/ /\ matches
                  /\ stack' = registers
                  /\ closures' = [closures EXCEPT ![c] =
                                    Store(template, i, value, template.preload)]
                  /\ Advance(child, c, captured)
               \/ /\ clones
                  /\ NextClosure <= MaxClosures
                  /\ stack' = cloned
                  /\ closures' = Extend(closures, NextClosure,
                                   Store(copied, i, Captured(child, i, cloned), 0))
                  /\ Advance(child, NextClosure, captured)
               \/ /\ ~matches /\ ~clones
                  /\ c \in Nat => c <= MaxClosures
                  /\ stack' = registers
                  /\ closures' = Extend(closures, c, Store(closure, i, value, closure.preload))
                  /\ Advance(child, c, captured)
        PROVE CaptureMade
  BY DEF DupClosureCapture
<1> DEFINE template == closures[child]
           first == IF template.env = Running.env THEN child ELSE NextClosure
           c == IF i = 1 THEN first ELSE pending.made
           registers == Shown(stack, child, c)
           value == Captured(child, i, registers)
           captured == CapturedSoFar(child, i, Meaning(child, i))
           closure == IF c \in DOMAIN closures THEN closures[c]
                      ELSE Closure(child, Running.env)
           matches == Matches(child, i, c, registers)
           clones == Clones(child, i, c, registers)
           cloned == Shown(stack, child, NextClosure)
           copied == [Closure(child, Running.env) EXCEPT
                        !.uprefs = [j \in 1..Nups(child) |->
                                      IF j < i THEN template.uprefs[j] ELSE Nil]]
           Shares == /\ matches
                     /\ stack' = registers
                     /\ closures' = [closures EXCEPT ![c] =
                                       Store(template, i, value, template.preload)]
                     /\ Advance(child, c, captured)
           Leaves == /\ clones
                     /\ NextClosure <= MaxClosures
                     /\ stack' = cloned
                     /\ closures' = Extend(closures, NextClosure,
                                      Store(copied, i, Captured(child, i, cloned), 0))
                     /\ Advance(child, NextClosure, captured)
           Fills == /\ ~matches /\ ~clones
                    /\ c \in Nat => c <= MaxClosures
                    /\ stack' = registers
                    /\ closures' = Extend(closures, c, Store(closure, i, value, closure.preload))
                    /\ Advance(child, c, captured)
<1>2. NextCapture(child, i) /\ (Shares \/ Leaves \/ Fills)
  BY <1>1
<1>3. UNCHANGED <<runs, initialized, frames, cells>>
  BY DEF DupClosureCapture
<1>4. /\ frames # <<>> /\ Running.proto = Parent[child]
      /\ child \in Children /\ child \in Protos
  BY <1>2, ProtosAssumption DEF NextCapture, Protos
<1>5. /\ NextClosure \in Nat /\ NextClosure \notin DOMAIN closures
      /\ NextClosure \notin Shared /\ NextClosure # child
      /\ Shared \cap Nat = {}
  BY NextIsNew, ProtosAssumption DEF Types
<1>6. /\ child \in DOMAIN closures /\ template.proto = child
      /\ IsClosure(template, Uprefs)
      /\ child \in Published => template.preload = 0
  BY DEF Types, InOrder, Templates
<1>7. Site[child].captures[i].kind # "ref"
  BY <1>4, CaptureTypes
<1>8. \/ c = child
      \/ c = NextClosure /\ i = 1
      \/ /\ i # 1 /\ c = pending.made /\ c \in DOMAIN closures
         /\ c \notin Shared /\ c \notin Published
         /\ closures[c].proto = child /\ IsClosure(closures[c], Uprefs)
  <2>1. CASE i = 1
    BY <2>1
  <2>2. CASE i # 1
    BY <1>2, <1>4, <2>2, LaterCapture
  <2> QED
    BY <2>1, <2>2
<1>9. SourcesInv /\ i # 1 => Holds(child, c, closures[c].uprefs, pending.captured)
  <2> SUFFICES ASSUME SourcesInv, i # 1
               PROVE  Holds(child, c, closures[c].uprefs, pending.captured)
    OBVIOUS
  <2>1. ~Idle /\ pending.child = child /\ c = pending.made
    BY <1>2, <1>4, LaterCapture
  <2> QED
    BY <2>1 DEF SourcesInv, PendingSources
<1>10. Len(cells) \in Nat
  BY CellFacts
<1>11. ASSUME NEW y,
              DOMAIN closures' = DOMAIN closures \cup {y}, y \in DOMAIN closures'
       PROVE  /\ Uprefs \subseteq Uprefs'
              /\ LET v == Captured(child, i, Shown(stack, child, y))
                 IN  /\ v \in Uprefs' /\ Meaning(child, i) \in Uprefs' \cup {Itself}
                     /\ Meaning(child, i) = Itself <=> IsSelf(child, i)
                     /\ v = IF Meaning(child, i) = Itself THEN Function(y)
                            ELSE Meaning(child, i)
  <2>1. DOMAIN closures \subseteq DOMAIN closures'
    BY <1>11
  <2>2. Uprefs \subseteq Uprefs'
    BY <1>3, <1>10, <2>1, UprefsGrow
  <2> QED
    BY <1>4, <1>7, <1>11, <2>1, <2>2, CapturedMeans
<1>12. /\ IsClosure(Closure(child, Running.env), Uprefs)
       /\ Closure(child, Running.env).proto = child
  <2>1. Running.env \in Nat
    BY <1>4, RunningFacts DEF IsClosure
  <2> QED
    BY <1>4, <2>1, UprefKinds, ClosureIsClosure DEF Closure
<1> DEFINE meaning == Meaning(child, i)
<1>13. CASE Shares
  <2>1. /\ c = child /\ template.uprefs[i] = value
        /\ stack' = registers /\ Advance(child, c, captured)
    BY <1>13 DEF Matches
  <2>2. closures' = [closures EXCEPT ![child] = Store(template, i, value, template.preload)]
    BY <1>13, <2>1
  <2>3. /\ DOMAIN closures' = DOMAIN closures \cup {c}
        /\ \A d \in DOMAIN closures : d # c => closures'[d] = closures[d]
        /\ closures'[c] = Store(template, i, value, template.preload)
        /\ c \in DOMAIN closures'
    <3> HIDE DEF c, template, value
    <3> QED
      BY <1>6, <2>1, <2>2 DEF template
  <2>4. /\ Uprefs \subseteq Uprefs'
        /\ value \in Uprefs' /\ meaning \in Uprefs' \cup {Itself}
        /\ meaning = Itself <=> IsSelf(child, i)
        /\ value = IF meaning = Itself THEN Function(c) ELSE meaning
    BY <1>11, <2>3
  <2>5. template = closures[c] /\ template.preload \in Nat /\ IsClosure(template, Uprefs')
    BY <1>6, <2>1, <2>4, ClosureGrows DEF IsClosure
  <2> HIDE DEF c, template, value, meaning, registers
  <2>6. Stores(child, i, c, template, value, template.preload, meaning)
    <3>1. c \in Published => c \in Shared /\ template.preload = 0
      BY <1>6, <2>1
    <3> QED
      BY <1>2, <1>3, <1>4, <1>6, <2>1, <2>3, <2>4, <2>5, <3>1 DEF Stores, registers, meaning
  <2>7. SelfLast /\ SourcesInv => StoresMeaning(child, i, c, template, value, meaning)
    BY <1>9, <2>4, <2>5 DEF StoresMeaning, template
  <2> QED
    BY <2>6, <2>7, StoringCaptures
<1>14. CASE Leaves
  <2> DEFINE n == NextClosure
             own == Captured(child, i, cloned)
  <2>1. /\ c = child /\ template.preload = 0 /\ template.uprefs[i] # value
        /\ n <= MaxClosures /\ stack' = cloned /\ Advance(child, n, captured)
    BY <1>14 DEF Clones, Matches
  <2>2. closures' = Extend(closures, n, Store(copied, i, own, 0))
    BY <1>14
  <2>3. /\ DOMAIN closures' = DOMAIN closures \cup {n}
        /\ \A d \in DOMAIN closures : d # n => closures'[d] = closures[d]
        /\ closures'[n] = Store(copied, i, own, 0)
    <3> HIDE DEF n, copied, own
    <3> QED
      BY <2>2 DEF Extend
  <2>4. /\ Uprefs \subseteq Uprefs'
        /\ own \in Uprefs' /\ meaning \in Uprefs' \cup {Itself}
        /\ meaning = Itself <=> IsSelf(child, i)
        /\ own = IF meaning = Itself THEN Function(n) ELSE meaning
    BY <1>11, <2>3
  <2>5. /\ copied.proto = child /\ IsClosure(copied, Uprefs')
        /\ \A j \in 1..(i - 1) : copied.uprefs[j] = template.uprefs[j]
    <3> DEFINE uprefs == [j \in 1..Nups(child) |-> IF j < i THEN template.uprefs[j] ELSE Nil]
               env == Running.env
               nils == [j \in 1..Nups(child) |-> Nil]
    <3>1. copied = [proto |-> child, env |-> env, uprefs |-> uprefs, preload |-> 0]
      <4>1. copied = [Closure(child, env) EXCEPT !.uprefs = uprefs]
        OBVIOUS
      <4>2. Closure(child, env) = [proto |-> child, env |-> env, uprefs |-> nils, preload |-> 0]
        BY DEF Closure
      <4> HIDE DEF uprefs, env, nils, copied
      <4> QED
        BY <4>1, <4>2
    <3>2. Nil \in Uprefs' /\ \A j \in 1..Nups(child) : template.uprefs[j] \in Uprefs'
      BY <1>6, <2>4, UprefKinds DEF IsClosure
    <3>3. uprefs \in [1..Nups(child) -> Uprefs']
      BY <3>2
    <3>4. \A j \in 1..(i - 1) : uprefs[j] = template.uprefs[j]
      BY <1>4, NupsNat
    <3>5. Running.env \in Nat
      BY <1>4, RunningFacts DEF IsClosure
    <3> HIDE DEF uprefs, template, env, copied
    <3>6. IsClosure(copied, Uprefs')
      BY <1>4, <3>1, <3>3, <3>5 DEF IsClosure, env
    <3> QED
      BY <3>1, <3>4, <3>6
  <2>6. SelfLast /\ SourcesInv => \A j \in 1..(i - 1) : ~IsSelf(child, j)
    <3> SUFFICES ASSUME SelfLast, SourcesInv, NEW j \in 1..(i - 1), IsSelf(child, j)
                 PROVE  FALSE
      OBVIOUS
    <3>1. IsSelf(child, i)
      <4>1. j \in 1..Nups(child) /\ j < i
        BY <1>4, NupsNat
      <4> QED
        BY <4>1 DEF SelfLast
    <3>2. template.uprefs[i] = Function(child)
      BY <2>1, <3>1 DEF SourcesInv, SelfTemplates
    <3>3. /\ Site[child].captures[i].kind = "val"
          /\ Site[child].captures[i].source = Destination(child)
      BY <3>1 DEF IsSelf
    <3>4. value = registers[Depth][Destination(child)]
      BY <3>3 DEF Captured
    <3>5. registers[Depth][Destination(child)] = Function(child)
      <4>1. c \in DOMAIN closures' /\ DOMAIN closures \subseteq DOMAIN closures'
        BY <1>6, <2>1, <2>3
      <4> QED
        BY <1>4, <2>1, <4>1, StackAfterCapture
    <3> QED
      BY <2>1, <3>2, <3>4, <3>5
  <2>7. SelfLast /\ SourcesInv /\ i # 1 => Holds(child, n, copied.uprefs, pending.captured)
    <3> SUFFICES ASSUME SelfLast, SourcesInv, i # 1
                 PROVE  Holds(child, n, copied.uprefs, pending.captured)
      OBVIOUS
    <3>1. Holds(child, child, template.uprefs, pending.captured)
      BY <1>9, <2>1
    <3>2. Len(pending.captured) = i - 1
      BY <1>2, <1>4, LaterCapture, LenProperties DEF PendingInv
    <3> HIDE DEF n, copied, template
    <3> QED
      BY <2>5, <2>6, <3>1, <3>2 DEF Holds
  <2> HIDE DEF n, copied, own, meaning, template
  <2>8. Stores(child, i, n, copied, own, 0, meaning)
    <3>1. n = NextClosure /\ n \notin Shared /\ n \notin Published
      BY <1>5 DEF n, Types
    <3>2. stack' = Shown(stack, child, n) /\ Advance(child, n, CapturedSoFar(child, i, meaning))
      BY <2>1 DEF n, meaning
    <3> QED
      BY <1>2, <1>3, <1>4, <2>1, <2>3, <2>4, <2>5, <3>1, <3>2 DEF Stores
  <2>9. SelfLast /\ SourcesInv => StoresMeaning(child, i, n, copied, own, meaning)
    BY <2>4, <2>7 DEF StoresMeaning
  <2> QED
    BY <2>8, <2>9, StoringCaptures
<1>15. CASE Fills
  <2>1. /\ stack' = registers /\ Advance(child, c, captured)
        /\ c = child => closure = template /\ template.preload # 0 /\ c \notin Published
    BY <1>6, <1>15 DEF Clones
  <2>2. closures' = Extend(closures, c, Store(closure, i, value, closure.preload))
    BY <1>15
  <2>3. /\ c \in DOMAIN closures \/ (c = NextClosure /\ NextClosure <= MaxClosures)
        /\ c \in Shared => c = child
        /\ c \notin Published
        /\ closure.proto = child /\ IsClosure(closure, Uprefs)
        /\ c \in DOMAIN closures => closure = closures[c]
    BY <1>5, <1>6, <1>8, <1>12, <1>15, <2>1 DEF Types
  <2> HIDE DEF closure
  <2>4. /\ DOMAIN closures' = DOMAIN closures \cup {c}
        /\ \A d \in DOMAIN closures : d # c => closures'[d] = closures[d]
        /\ closures'[c] = Store(closure, i, value, closure.preload)
    <3> HIDE DEF c, value
    <3> QED
      BY <2>2 DEF Extend
  <2>5. /\ Uprefs \subseteq Uprefs'
        /\ value \in Uprefs' /\ meaning \in Uprefs' \cup {Itself}
        /\ meaning = Itself <=> IsSelf(child, i)
        /\ value = IF meaning = Itself THEN Function(c) ELSE meaning
    BY <1>11, <2>4
  <2>6. closure.preload \in Nat /\ IsClosure(closure, Uprefs')
    BY <2>3, <2>5, ClosureGrows DEF IsClosure
  <2>7. i # 1 => c \in DOMAIN closures
    BY <1>6, <1>8
  <2>8. c \in Shared => closure = closures[c] /\ closure.preload # 0
    BY <1>6, <2>1, <2>3
  <2> HIDE DEF c, template, value, meaning, registers
  <2>9. Stores(child, i, c, closure, value, closure.preload, meaning)
    BY <1>2, <1>3, <1>4, <2>1, <2>3, <2>4, <2>5, <2>6, <2>8 DEF Stores, registers, meaning
  <2>10. SelfLast /\ SourcesInv => StoresMeaning(child, i, c, closure, value, meaning)
    BY <1>9, <2>3, <2>5, <2>7 DEF StoresMeaning
  <2> QED
    BY <2>9, <2>10, StoringCaptures
<1> QED
  BY <1>2, <1>13, <1>14, <1>15

(***************************************************************************)
(* The steps that capture nothing.                                         *)
(***************************************************************************)
(* Closing takes the values along and leaves the other cells alone.        *)
LEMMA ClosedCells ==
    ASSUME Types, NEW S
    PROVE  LET new == Closed(S, stack)
           IN  /\ new \in Seq(UpVal) /\ Len(new) = Len(cells)
               /\ \A i \in 1..Len(cells) :
                    new[i] = IF IsOpen(i) /\ <<cells[i].level, cells[i].register>> \in S
                             THEN [level |-> 0, register |-> 0,
                                   value |-> stack[cells[i].level][cells[i].register]]
                             ELSE cells[i]
<1> DEFINE new == Closed(S, stack)
<1>1. Len(cells) \in Nat /\ \A i \in 1..Len(cells) : cells[i] \in UpVal
  BY CellFacts
<1>2. new = [i \in 1..Len(cells) |->
               IF IsOpen(i) /\ <<cells[i].level, cells[i].register>> \in S
               THEN [level |-> 0, register |-> 0,
                     value |-> stack[cells[i].level][cells[i].register]]
               ELSE cells[i]]
  BY DEF Closed
<1>3. ASSUME NEW i \in 1..Len(cells)
      PROVE  new[i] \in UpVal
  <2>1. CASE new[i] = cells[i]
    BY <1>1, <2>1
  <2>2. CASE IsOpen(i) /\ new[i] = [level |-> 0, register |-> 0,
                                value |-> stack[cells[i].level][cells[i].register]]
    <3>1. cells[i].level \in Levels /\ cells[i].register \in Registers
      BY <2>2, CellFacts, ProtosAssumption DEF IsOpen, Levels
    <3>2. stack[cells[i].level][cells[i].register] \in Values
      BY <3>1 DEF Types
    <3>3. 0 \in 0..MaxDepth /\ 0 \in Registers
      BY ProtosAssumption DEF Registers
    <3> QED
      BY <2>2, <3>2, <3>3 DEF UpVal
  <2> QED
    BY <1>2, <2>1, <2>2
<1>4. new \in [1..Len(cells) -> UpVal]
  <2>1. DOMAIN new = 1..Len(cells) /\ new = [i \in 1..Len(cells) |-> new[i]]
    BY <1>2
  <2> HIDE DEF new
  <2> QED
    BY <1>3, <2>1
<1>5. new \in Seq(UpVal) /\ Len(new) = Len(cells)
  <2> HIDE DEF new
  <2>1. new \in Seq(UpVal)
    BY <1>1, <1>4, SeqDef
  <2>2. Len(new) \in Nat /\ DOMAIN new = 1..Len(new)
    BY <2>1, LenProperties
  <2>3. DOMAIN new = 1..Len(cells)
    BY <1>4
  <2> QED
    BY <1>1, <2>1, <2>2, <2>3
<1> QED
  BY <1>2, <1>5

(* When the frames above a level are left, what is open is below.          *)
LEMMA OpenAfterLeaving ==
    ASSUME Types, OpenCellsAreVariables, NEW level \in 0..Depth,
           cells' = Closed(FramesAbove(level), stack), Depth' = level
    PROVE  OpenCellsAreVariables'
<1>1. /\ Len(cells)' = Len(cells)
      /\ \A i \in 1..Len(cells) :
           cells'[i] = IF IsOpen(i) /\ <<cells[i].level, cells[i].register>> \in FramesAbove(level)
                       THEN [level |-> 0, register |-> 0,
                             value |-> stack[cells[i].level][cells[i].register]]
                       ELSE cells[i]
  BY ClosedCells
<1>2. Depth \in Nat /\ Depth <= MaxDepth /\ MaxDepth \in Nat
  BY LenProperties, ProtosAssumption DEF Types, Depth
<1>3. ASSUME NEW i \in 1..Len(cells), cells'[i].level # 0
      PROVE  cells'[i] = cells[i] /\ cells[i].level <= level
  <2> DEFINE inside == <<cells[i].level, cells[i].register>> \in FramesAbove(level)
             closed == [level |-> 0, register |-> 0,
                        value |-> stack[cells[i].level][cells[i].register]]
  <2>1. cells'[i] = IF IsOpen(i) /\ inside THEN closed ELSE cells[i]
    BY <1>1
  <2>2. closed.level = 0
    OBVIOUS
  <2>3. inside <=> /\ cells[i].level \in (level + 1)..MaxDepth
                   /\ cells[i].register \in Registers
    BY DEF FramesAbove
  <2> HIDE DEF inside, closed
  <2>4. ~(IsOpen(i) /\ inside) /\ cells'[i] = cells[i]
    BY <1>3, <2>1, <2>2
  <2>5. IsOpen(i) /\ cells[i].level \in 0..MaxDepth /\ cells[i].register \in Registers
    BY <1>3, <2>4, CellFacts DEF IsOpen
  <2> QED
    BY <1>2, <2>3, <2>4, <2>5
<1> QED
  BY <1>1, <1>3 DEF OpenCellsAreVariables, IsOpen

(* Closing changes no variable; nor does what is written elsewhere.        *)
LEMMA DerefAfterClosing ==
    ASSUME Types, NEW S, cells' = Closed(S, stack), NEW i \in 1..Len(cells),
           IsOpen(i) /\ <<cells[i].level, cells[i].register>> \notin S =>
             stack'[cells[i].level][cells[i].register]
               = stack[cells[i].level][cells[i].register]
    PROVE  Deref(i)' = Deref(i)
<1>1. cells'[i] = IF IsOpen(i) /\ <<cells[i].level, cells[i].register>> \in S
                  THEN [level |-> 0, register |-> 0,
                        value |-> stack[cells[i].level][cells[i].register]]
                  ELSE cells[i]
  BY ClosedCells
<1>2. CASE IsOpen(i) /\ <<cells[i].level, cells[i].register>> \in S
  BY <1>1, <1>2 DEF Deref, IsOpen
<1>3. CASE ~(IsOpen(i) /\ <<cells[i].level, cells[i].register>> \in S)
  BY <1>1, <1>3 DEF Deref, IsOpen
<1> QED
  BY <1>2, <1>3

(* A step that makes no closure and is not between captures afterwards.    *)
Quiet ==
    /\ DOMAIN closures' = DOMAIN closures
    /\ \A c \in DOMAIN closures :
         /\ IsClosure(closures'[c], Uprefs)
         /\ closures'[c].proto = closures[c].proto
         /\ closures'[c].uprefs = closures[c].uprefs
         /\ closures'[c].preload = closures[c].preload
    /\ meant' = meant /\ Idle'
    /\ runs' \in 0..MaxRuns /\ initialized' \in BOOLEAN
    /\ frames' \in Seq(DOMAIN closures) /\ Depth' <= MaxDepth
    /\ stack' \in [Levels -> [Registers -> Values]]
    /\ cells' \in Seq(UpVal) /\ Len(cells)' = Len(cells)
    /\ OpenCellsAreVariables'

LEMMA QuietKeepsInv ==
    ASSUME ClosuresInv, Quiet
    PROVE  ClosuresInv' /\ (SourcesInv => SourcesInv')
<1>1. Values' = Values /\ UpVal' = UpVal /\ Uprefs' = Uprefs /\ Published' = Published
  BY DEF Quiet, Values, UpVal, Uprefs, Cells, Published
<1>2. Shared \subseteq DOMAIN closures /\ Published \subseteq DOMAIN closures
  BY DEF ClosuresInv, Types, InOrder
<1>3. Types'
  BY <1>1 DEF ClosuresInv, Types, InOrder, Quiet
<1>4. PendingInv' /\ PendingSources'
  BY DEF Quiet, PendingInv, PendingSources
<1>5. Templates'
  BY <1>1, <1>2 DEF ClosuresInv, Templates, Quiet
<1>6. SelfTemplates => SelfTemplates'
  BY <1>2 DEF SelfTemplates, Quiet
<1>7. ClosuresCaptureTheirSources => ClosuresCaptureTheirSources'
  BY <1>1, <1>2 DEF ClosuresCaptureTheirSources, Quiet
<1> QED
  BY <1>3, <1>4, <1>5, <1>6, <1>7 DEF ClosuresInv, SourcesInv, Quiet

(* What VariablesChangeByAssignment says of a step.                        *)
OnlyAssigned == \A i \in 1..Len(cells) : Deref(i)' # Deref(i) => Assignable(i)

(* The closures of a step that touches none, and the rest that stays.      *)
LEMMA ClosuresUntouched ==
    ASSUME Types, closures' = closures
    PROVE  /\ DOMAIN closures' = DOMAIN closures
           /\ \A c \in DOMAIN closures :
                /\ IsClosure(closures'[c], Uprefs)
                /\ closures'[c].proto = closures[c].proto
                /\ closures'[c].uprefs = closures[c].uprefs
                /\ closures'[c].preload = closures[c].preload
BY DEF Types

(* A closure that gets another environment.                                *)
LEMMA EnvChanges ==
    ASSUME NEW values, NEW x, IsClosure(x, values), NEW env \in Nat
    PROVE  LET y == [x EXCEPT !.env = env]
           IN  /\ IsClosure(y, values)
               /\ y.proto = x.proto /\ y.uprefs = x.uprefs /\ y.preload = x.preload
<1> DEFINE y == [x EXCEPT !.env = env]
<1>1. DOMAIN x = {"proto", "env", "uprefs", "preload"}
  BY DEF IsClosure
<1>2. y = [n \in {"proto", "env", "uprefs", "preload"} |-> IF n = "env" THEN env ELSE x[n]]
  BY <1>1
<1>3. y = [proto |-> x.proto, env |-> env, uprefs |-> x.uprefs, preload |-> x.preload]
  BY <1>2
<1> HIDE DEF y
<1> QED
  BY <1>3 DEF IsClosure, y

(* A new frame leaves the others alone.                                    *)
LEMMA FreshFrame ==
    ASSUME Types, NEW p, Fresh(p, stack), Depth < MaxDepth
    PROVE  /\ stack' \in [Levels -> [Registers -> Values]]
           /\ \A l \in Levels : l # Depth + 1 => stack'[l] = stack[l]
<1>1. Nil \in Values /\ Constants \subseteq Values
  BY DEF Values, Constants
<1>2. PICK value \in (IF ByValue(p) = {} THEN {Nil} ELSE Constants) :
        stack' = [stack EXCEPT ![Depth + 1] =
                   [r \in Registers |-> IF r \in ByValue(p) THEN value ELSE Nil]]
  BY DEF Fresh
<1>3. value \in Values
  BY <1>1
<1>4. [r \in Registers |-> IF r \in ByValue(p) THEN value ELSE Nil] \in [Registers -> Values]
  BY <1>1, <1>3
<1>5. stack \in [Levels -> [Registers -> Values]]
  BY DEF Types
<1> QED
  BY <1>2, <1>4, <1>5

(* An attempt of the initializer: nothing is open, no closure is made.     *)
LEMMA RunIsQuiet ==
    ASSUME ClosuresInv, Run
    PROVE  Quiet /\ OnlyAssigned
<1> USE DEF ClosuresInv
<1>1. /\ frames = <<>> /\ runs < MaxRuns /\ runs' = runs + 1 /\ frames' = <<0>>
      /\ Fresh(Root, stack) /\ UNCHANGED <<initialized, cells, pending, meant>>
      /\ closures' = [c \in DOMAIN closures |->
                        IF c \in Shared \cup {0} THEN [closures[c] EXCEPT !.env = runs + 1]
                        ELSE closures[c]]
  BY DEF Run
<1>2. runs' \in 0..MaxRuns /\ runs + 1 \in Nat
  BY <1>1, ProtosAssumption DEF Types
<1>3. \A c \in DOMAIN closures :
        /\ IsClosure(closures'[c], Uprefs)
        /\ closures'[c].proto = closures[c].proto
        /\ closures'[c].uprefs = closures[c].uprefs
        /\ closures'[c].preload = closures[c].preload
  <2> SUFFICES ASSUME NEW c \in DOMAIN closures
               PROVE  /\ IsClosure(closures'[c], Uprefs)
                      /\ closures'[c].proto = closures[c].proto
                      /\ closures'[c].uprefs = closures[c].uprefs
                      /\ closures'[c].preload = closures[c].preload
    OBVIOUS
  <2>1. IsClosure(closures[c], Uprefs)
    BY DEF Types
  <2>2. CASE closures'[c] = [closures[c] EXCEPT !.env = runs + 1]
    BY <1>2, <2>1, <2>2, EnvChanges
  <2>3. CASE closures'[c] = closures[c]
    BY <2>1, <2>3
  <2> QED
    BY <1>1, <2>2, <2>3
<1>4. Depth = 0
  BY <1>1, EmptySeq DEF Depth
<1>5. 0 \in DOMAIN closures
  BY DEF Types, InOrder
<1>6. frames' \in Seq(DOMAIN closures) /\ Depth' = 1
  BY <1>1, <1>5 DEF Depth
<1>7. Depth < MaxDepth /\ Depth' <= MaxDepth
  BY <1>4, <1>6, ProtosAssumption
<1>8. \A i \in 1..Len(cells) : ~IsOpen(i)
  BY <1>4, CellFacts, ProtosAssumption DEF OpenCellsAreVariables, IsOpen
<1>9. OpenCellsAreVariables' /\ OnlyAssigned
  BY <1>1, <1>8 DEF OpenCellsAreVariables, OnlyAssigned, IsOpen, Deref
<1>10. Idle'
  BY <1>1 DEF PendingInv, Idle
<1>11. stack' \in [Levels -> [Registers -> Values]]
  BY <1>1, <1>7, FreshFrame
<1>12. DOMAIN closures' = DOMAIN closures
  BY <1>1
<1>13. cells' \in Seq(UpVal) /\ Len(cells)' = Len(cells) /\ initialized' \in BOOLEAN
  BY <1>1 DEF Types
<1> QED
  BY <1>1, <1>2, <1>3, <1>6, <1>7, <1>9, <1>10, <1>11, <1>12, <1>13 DEF Quiet

(* A call: the cells point into the frames there were.                     *)
LEMMA CallIsQuiet ==
    ASSUME ClosuresInv, Call
    PROVE  Quiet /\ OnlyAssigned
<1> USE DEF ClosuresInv
<1>1. PICK c \in Published :
        frames' = Append(frames, c) /\ Fresh(closures[c].proto, stack)
  BY DEF Call
<1>2. /\ Idle /\ frames # <<>> /\ Depth < MaxDepth
      /\ UNCHANGED <<runs, initialized, closures, cells, pending, meant>>
  BY DEF Call
<1>3. c \in DOMAIN closures
  BY DEF Types
<1>4. frames' \in Seq(DOMAIN closures) /\ Depth' = Depth + 1 /\ Depth \in Nat
  <2> DEFINE all == DOMAIN closures
  <2>1. frames \in Seq(all) /\ c \in all
    BY <1>3 DEF Types
  <2> HIDE DEF all
  <2>2. Append(frames, c) \in Seq(all) /\ Len(Append(frames, c)) = Len(frames) + 1
        /\ Len(frames) \in Nat
    BY <2>1
  <2> QED
    BY <1>1, <2>2 DEF Depth, all
<1>5. /\ stack' \in [Levels -> [Registers -> Values]]
      /\ \A l \in Levels : l # Depth + 1 => stack'[l] = stack[l]
  BY <1>1, <1>2, FreshFrame
<1>6. Depth' <= MaxDepth
  BY <1>2, <1>4, ProtosAssumption
<1>7. OpenCellsAreVariables'
  BY <1>2, <1>4, CellFacts DEF OpenCellsAreVariables, IsOpen
<1>8. OnlyAssigned
  <2> SUFFICES ASSUME NEW i \in 1..Len(cells) PROVE Deref(i)' = Deref(i)
    BY DEF OnlyAssigned
  <2>1. CASE IsOpen(i)
    <3>1. cells[i].level \in Levels /\ cells[i].level # Depth + 1
      BY <1>4, <2>1, CellFacts, ProtosAssumption DEF OpenCellsAreVariables, IsOpen, Levels
    <3> QED
      BY <1>2, <1>5, <2>1, <3>1 DEF Deref, IsOpen
  <2>2. CASE ~IsOpen(i)
    BY <1>2, <2>2 DEF Deref, IsOpen
  <2> QED
    BY <2>1, <2>2
<1>9. Idle' /\ runs' \in 0..MaxRuns /\ initialized' \in BOOLEAN /\ cells' \in Seq(UpVal)
  BY <1>2 DEF Idle, Types
<1> QED
  BY <1>2, <1>4, <1>5, <1>6, <1>7, <1>8, <1>9, ClosuresUntouched DEF Quiet

(* The results of a return, and the frames that are left.                  *)
LEMMA MovedDownTypes ==
    ASSUME Types, frames # <<>>, NEW source \in Registers,
           NEW count \in 0..(FrameSize - source)
    PROVE  /\ MovedDown(source, count) \in [Levels -> [Registers -> Values]]
           /\ \A l \in Levels : l # Depth => MovedDown(source, count)[l] = stack[l]
<1>1. Depth \in Levels
  BY RunningFacts
<1>2. stack \in [Levels -> [Registers -> Values]]
  BY DEF Types
<1>3. \A r \in Registers : r < count => source + r \in Registers
  BY ProtosAssumption DEF Registers
<1> DEFINE row == [r \in Registers |->
                     IF r < count THEN stack[Depth][source + r] ELSE stack[Depth][r]]
<1>4. row \in [Registers -> Values]
  BY <1>1, <1>2, <1>3
<1>5. MovedDown(source, count) = [stack EXCEPT ![Depth] = row]
  BY DEF MovedDown
<1> HIDE DEF row
<1> QED
  BY <1>1, <1>2, <1>4, <1>5

LEMMA PoppedTypes ==
    ASSUME NEW registers \in [Levels -> [Registers -> Values]], NEW level
    PROVE  /\ Popped(registers, level) \in [Levels -> [Registers -> Values]]
           /\ \A l \in Levels : ~(l > level) => Popped(registers, level)[l] = registers[l]
<1>1. [r \in Registers |-> Nil] \in [Registers -> Values]
  BY UprefKinds
<1> QED
  BY <1>1 DEF Popped

(* What a frame below another is.                                          *)
LEMMA LowerFrames ==
    ASSUME Types, NEW level \in 0..Depth
    PROVE  /\ SubSeq(frames, 1, level) \in Seq(DOMAIN closures)
           /\ Len(SubSeq(frames, 1, level)) = level /\ level <= MaxDepth
           /\ Depth \in Nat /\ level \in Nat
<1>1. Len(frames) \in Nat /\ \A i \in 1..Len(frames) : frames[i] \in DOMAIN closures
  BY LenProperties, ElementOfSeq DEF Types
<1>2. level \in Nat /\ level <= Len(frames)
  BY <1>1 DEF Depth
<1> QED
  BY <1>1, <1>2, SubSeqProperties, ProtosAssumption DEF Types, Depth

(* A return: the results are moved after the cells have taken theirs.      *)
LEMMA ReturnIsQuiet ==
    ASSUME ClosuresInv, Return
    PROVE  Quiet /\ OnlyAssigned
<1> USE DEF ClosuresInv
<1>1. /\ Idle /\ frames # <<>>
      /\ cells' = Closed(FramesAbove(Depth - 1), stack)
      /\ initialized' = (initialized \/ Running.proto = Root)
      /\ frames' = SubSeq(frames, 1, Depth - 1)
      /\ UNCHANGED <<runs, closures, pending, meant>>
  BY DEF Return
<1>2. PICK source \in Registers, count \in 0..FrameSize :
        /\ count \in 0..(FrameSize - source)
        /\ LET results == MovedDown(source, count)
               first == IF count = 0 THEN Nil ELSE results[Depth][0]
           IN  IF Depth = 1 THEN stack' = Popped(results, 0)
               ELSE \E r \in Registers \ ByValue(closures[frames[Depth - 1]].proto) :
                      stack' = [Popped(results, Depth - 1) EXCEPT ![Depth - 1][r] = first]
  <2>1. PICK source \in Registers : \E count \in 0..(FrameSize - source) :
          LET results == MovedDown(source, count)
              first == IF count = 0 THEN Nil ELSE results[Depth][0]
          IN  IF Depth = 1 THEN stack' = Popped(results, 0)
              ELSE \E r \in Registers \ ByValue(closures[frames[Depth - 1]].proto) :
                     stack' = [Popped(results, Depth - 1) EXCEPT ![Depth - 1][r] = first]
    BY DEF Return
  <2>2. 0..(FrameSize - source) \subseteq 0..FrameSize
    BY ProtosAssumption DEF Registers
  <2> QED
    BY <2>1, <2>2
<1> DEFINE results == MovedDown(source, count)
           first == IF count = 0 THEN Nil ELSE results[Depth][0]
<1>3. /\ Depth \in Nat \ {0} /\ Depth \in Levels /\ Depth - 1 \in 0..Depth
      /\ Depth - 1 < Depth
  BY <1>1, RunningFacts
<1>4. /\ results \in [Levels -> [Registers -> Values]]
      /\ \A l \in Levels : l # Depth => results[l] = stack[l]
  BY <1>1, <1>2, MovedDownTypes
<1>5. first \in Values
  <2>1. 0 \in Registers
    BY ProtosAssumption DEF Registers
  <2> QED
    BY <1>3, <1>4, <2>1, UprefKinds
<1> HIDE DEF results, first
<1>6. \/ Depth = 1 /\ stack' = Popped(results, 0)
      \/ /\ Depth # 1
         /\ \E r \in Registers :
              stack' = [Popped(results, Depth - 1) EXCEPT ![Depth - 1][r] = first]
  BY <1>2 DEF results, first
<1>7. /\ stack' \in [Levels -> [Registers -> Values]]
      /\ \A l \in Levels : l < Depth - 1 => stack'[l] = stack[l]
  <2>1. CASE Depth = 1 /\ stack' = Popped(results, 0)
    BY <1>4, <2>1, PoppedTypes DEF Levels
  <2>2. CASE Depth # 1
    <3>1. PICK r \in Registers :
            stack' = [Popped(results, Depth - 1) EXCEPT ![Depth - 1][r] = first]
      BY <1>6, <2>2
    <3> DEFINE popped == Popped(results, Depth - 1)
    <3>2. /\ popped \in [Levels -> [Registers -> Values]]
          /\ \A l \in Levels : ~(l > Depth - 1) => popped[l] = results[l]
      BY <1>4, PoppedTypes
    <3>3. stack' = [popped EXCEPT ![Depth - 1][r] = first]
      BY <3>1
    <3>4. Depth - 1 \in Levels
      BY <1>3, <2>2, ProtosAssumption DEF Levels
    <3> HIDE DEF popped
    <3>5. stack' \in [Levels -> [Registers -> Values]]
      BY <1>5, <3>2, <3>3, <3>4
    <3>6. \A l \in Levels : l # Depth - 1 => stack'[l] = popped[l]
      BY <3>2, <3>3, <3>4
    <3>7. \A l \in Levels : l < Depth - 1 => ~(l > Depth - 1) /\ l # Depth - 1 /\ l # Depth
      BY <1>3 DEF Levels
    <3> QED
      BY <1>4, <3>2, <3>5, <3>6, <3>7
  <2> QED
    BY <1>6, <2>1, <2>2
<1>8. frames' \in Seq(DOMAIN closures) /\ Depth' = Depth - 1 /\ Depth' <= MaxDepth
  BY <1>1, <1>3, LowerFrames DEF Depth
<1>9. OpenCellsAreVariables'
  BY <1>1, <1>3, <1>8, OpenAfterLeaving
<1>10. cells' \in Seq(UpVal) /\ Len(cells)' = Len(cells)
  BY <1>1, ClosedCells
<1>11. OnlyAssigned
  <2> SUFFICES ASSUME NEW i \in 1..Len(cells), ~(cells[i].level = Depth - 1)
               PROVE  Deref(i)' = Deref(i)
    BY <1>8 DEF OnlyAssigned, Assignable, Depth
  <2> DEFINE inside == <<cells[i].level, cells[i].register>> \in FramesAbove(Depth - 1)
  <2>1. inside <=> /\ cells[i].level \in (Depth - 1 + 1)..MaxDepth
                   /\ cells[i].register \in Registers
    BY DEF FramesAbove
  <2> HIDE DEF inside
  <2>2. ASSUME IsOpen(i), ~inside
        PROVE  cells[i].level \in Levels /\ cells[i].level < Depth - 1
    BY <1>3, <2>1, <2>2, CellFacts, ProtosAssumption DEF IsOpen, Levels
  <2>3. IsOpen(i) /\ ~inside =>
          stack'[cells[i].level][cells[i].register] = stack[cells[i].level][cells[i].register]
    BY <1>7, <2>2
  <2> QED
    BY <1>1, <2>3, DerefAfterClosing DEF inside
<1>12. Idle' /\ runs' \in 0..MaxRuns /\ initialized' \in BOOLEAN
  <2>1. Idle' /\ runs' \in 0..MaxRuns
    BY <1>1 DEF Idle, Types
  <2>2. initialized' \in BOOLEAN
    BY <1>1 DEF Types
  <2> QED
    BY <2>1, <2>2
<1> QED
  BY <1>1, <1>7, <1>8, <1>9, <1>10, <1>11, <1>12, ClosuresUntouched DEF Quiet

(* An error: what is left is closed, and the rest keeps its registers.     *)
LEMMA RaiseIsQuiet ==
    ASSUME ClosuresInv, Raise
    PROVE  Quiet /\ OnlyAssigned
<1> USE DEF ClosuresInv
<1>1. PICK level \in 0..(Depth - 1) :
        /\ frames' = SubSeq(frames, 1, level)
        /\ cells' = Closed(FramesAbove(level), stack)
        /\ stack' = Popped(stack, level)
  BY DEF Raise
<1>2. /\ frames # <<>> /\ pending' = NoPending
      /\ UNCHANGED <<runs, initialized, closures, meant>>
  BY DEF Raise
<1>3. Depth \in Nat \ {0} /\ level \in 0..Depth /\ level \in Nat
  BY <1>2, RunningFacts
<1>4. frames' \in Seq(DOMAIN closures) /\ Depth' = level /\ Depth' <= MaxDepth
  BY <1>1, <1>3, LowerFrames DEF Depth
<1>5. /\ stack' \in [Levels -> [Registers -> Values]]
      /\ \A l \in Levels : ~(l > level) => stack'[l] = stack[l]
  BY <1>1, PoppedTypes DEF Types
<1>6. OpenCellsAreVariables'
  BY <1>1, <1>3, <1>4, OpenAfterLeaving
<1>7. cells' \in Seq(UpVal) /\ Len(cells)' = Len(cells)
  BY <1>1, ClosedCells
<1>8. OnlyAssigned
  <2> SUFFICES ASSUME NEW i \in 1..Len(cells)
               PROVE  Deref(i)' = Deref(i)
    BY DEF OnlyAssigned
  <2> DEFINE inside == <<cells[i].level, cells[i].register>> \in FramesAbove(level)
  <2>1. inside <=> /\ cells[i].level \in (level + 1)..MaxDepth
                   /\ cells[i].register \in Registers
    BY DEF FramesAbove
  <2> HIDE DEF inside
  <2>2. ASSUME IsOpen(i), ~inside
        PROVE  cells[i].level \in Levels /\ ~(cells[i].level > level)
    BY <1>3, <2>1, <2>2, CellFacts, ProtosAssumption DEF IsOpen, Levels
  <2>3. IsOpen(i) /\ ~inside =>
          stack'[cells[i].level][cells[i].register] = stack[cells[i].level][cells[i].register]
    BY <1>5, <2>2
  <2> QED
    BY <1>1, <2>3, DerefAfterClosing DEF inside
<1>9. Idle' /\ runs' \in 0..MaxRuns /\ initialized' \in BOOLEAN
  <2>1. Idle' /\ runs' \in 0..MaxRuns
    BY <1>2 DEF Idle, Types, NoPending
  <2>2. initialized' \in BOOLEAN
    BY <1>2 DEF Types
  <2> QED
    BY <2>1, <2>2
<1> QED
  BY <1>2, <1>4, <1>5, <1>6, <1>7, <1>8, <1>9, ClosuresUntouched DEF Quiet

(* The variable behind an upvalue has a value.                             *)
LEMMA DerefTypes ==
    ASSUME Types, NEW i \in 1..Len(cells)
    PROVE  Deref(i) \in Values
<1>1. CASE IsOpen(i)
  <2>1. cells[i].level \in Levels /\ cells[i].register \in Registers
    BY <1>1, CellFacts, ProtosAssumption DEF IsOpen, Levels
  <2> QED
    BY <1>1, <2>1 DEF Deref, Types
<1>2. CASE ~IsOpen(i)
  BY <1>2, CellFacts DEF Deref
<1> QED
  BY <1>1, <1>2

(* A step that writes one register of the running frame.                   *)
LEMMA WriteIsQuiet ==
    ASSUME ClosuresInv, Idle, frames # <<>>, NEW r \in Registers, NEW value \in Values,
           stack' = [stack EXCEPT ![Depth][r] = value],
           UNCHANGED <<runs, initialized, frames, closures, cells, pending, meant>>
    PROVE  Quiet /\ OnlyAssigned
<1> USE DEF ClosuresInv
<1>1. Depth \in Levels /\ Depth' = Depth
  BY RunningFacts DEF Depth
<1>2. /\ stack' \in [Levels -> [Registers -> Values]]
      /\ \A l \in Levels : l # Depth => stack'[l] = stack[l]
  BY <1>1 DEF Types
<1>3. OpenCellsAreVariables'
  BY <1>1 DEF OpenCellsAreVariables, IsOpen
<1>4. OnlyAssigned
  <2> SUFFICES ASSUME NEW i \in 1..Len(cells), cells[i].level # Depth
               PROVE  Deref(i)' = Deref(i)
    BY DEF OnlyAssigned, Assignable
  <2>1. CASE IsOpen(i)
    <3>1. cells[i].level \in Levels
      BY <2>1, CellFacts, ProtosAssumption DEF IsOpen, Levels
    <3> QED
      BY <1>2, <2>1, <3>1 DEF Deref, IsOpen
  <2>2. CASE ~IsOpen(i)
    BY <2>2 DEF Deref, IsOpen
  <2> QED
    BY <2>1, <2>2
<1>5. Idle' /\ runs' \in 0..MaxRuns
  BY DEF Idle, Types
<1>6. initialized' \in BOOLEAN
  BY DEF Types
<1>7. frames' \in Seq(DOMAIN closures) /\ Depth' <= MaxDepth /\ cells' \in Seq(UpVal)
  BY <1>1 DEF Types
<1> QED
  BY <1>2, <1>3, <1>4, <1>5, <1>6, <1>7, ClosuresUntouched DEF Quiet

LEMMA AssignIsQuiet ==
    ASSUME ClosuresInv, Assign
    PROVE  Quiet /\ OnlyAssigned
<1>1. PICK r \in Writable, value \in {Register(q) : q \in Registers} :
        stack' = [stack EXCEPT ![Depth][r] = value]
  BY DEF Assign
<1>2. /\ Idle /\ frames # <<>>
      /\ UNCHANGED <<runs, initialized, frames, closures, cells, pending, meant>>
  BY DEF Assign
<1>3. r \in Registers /\ value \in Values
  <2>1. Depth \in Levels
    BY <1>2, RunningFacts DEF ClosuresInv
  <2> QED
    BY <2>1 DEF Writable, Register, ClosuresInv, Types
<1> QED
  BY <1>1, <1>2, <1>3, WriteIsQuiet

LEMMA GetUpvalueIsQuiet ==
    ASSUME ClosuresInv, GetUpvalue
    PROVE  Quiet /\ OnlyAssigned
<1>1. PICK r \in Writable, i \in 1..Len(Running.uprefs) :
        stack' = [stack EXCEPT ![Depth][r] =
                   IF Running.uprefs[i].type = "upval" THEN Deref(Running.uprefs[i].of)
                   ELSE Running.uprefs[i]]
  BY DEF GetUpvalue
<1>2. /\ Idle /\ frames # <<>>
      /\ UNCHANGED <<runs, initialized, frames, closures, cells, pending, meant>>
  BY DEF GetUpvalue
<1> DEFINE upref == Running.uprefs[i]
           value == IF upref.type = "upval" THEN Deref(upref.of) ELSE upref
<1>3. upref \in Uprefs
  BY <1>2, RunningFacts DEF ClosuresInv
<1>4. value \in Values
  <2> HIDE DEF upref
  <2>1. /\ upref.type = "upval" => upref.of \in 1..Len(cells)
        /\ upref.type # "upval" => upref \in Values
    BY <1>3, UprefKinds
  <2>2. upref.type = "upval" => Deref(upref.of) \in Values
    BY <2>1, DerefTypes DEF ClosuresInv
  <2> QED
    BY <2>1, <2>2
<1>5. r \in Registers
  BY DEF Writable
<1>6. stack' = [stack EXCEPT ![Depth][r] = value]
  BY <1>1
<1> HIDE DEF value
<1> QED
  BY <1>2, <1>4, <1>5, <1>6, WriteIsQuiet

(* A function assigns the variable it captured, and no other.              *)
LEMMA SetUpvalueIsQuiet ==
    ASSUME ClosuresInv, SetUpvalue
    PROVE  Quiet /\ OnlyAssigned
<1> USE DEF ClosuresInv
<1>1. /\ Idle /\ frames # <<>>
      /\ UNCHANGED <<runs, initialized, frames, closures, pending, meant>>
  BY DEF SetUpvalue
<1>2. PICK r \in Registers, u \in 1..Len(Running.uprefs) :
        LET cell == Running.uprefs[u].of
        IN  /\ Running.uprefs[u].type = "upval"
            /\ IF IsOpen(cell)
               THEN /\ stack' = [stack EXCEPT ![cells[cell].level][cells[cell].register] =
                                   Register(r)]
                    /\ UNCHANGED cells
               ELSE /\ cells' = [cells EXCEPT ![cell].value = Register(r)]
                    /\ UNCHANGED stack
  BY DEF SetUpvalue
<1> DEFINE upref == Running.uprefs[u]
           cell == upref.of
           value == Register(r)
<1>3. upref \in Uprefs /\ upref.type = "upval"
  BY <1>1, <1>2, RunningFacts
<1>4. cell \in 1..Len(cells) /\ upref = Cell(cell)
  BY <1>3, UprefKinds
<1>5. value \in Values
  <2>1. Depth \in Levels
    BY <1>1, RunningFacts
  <2> QED
    BY <2>1 DEF Register, Types
<1>6. cells[cell] \in UpVal
  BY <1>4, CellFacts
<1>7. /\ IsOpen(cell) =>
           /\ stack' = [stack EXCEPT ![cells[cell].level][cells[cell].register] = value]
           /\ cells' = cells
      /\ ~IsOpen(cell) => /\ cells' = [cells EXCEPT ![cell].value = value]
                          /\ stack' = stack
  BY <1>2
<1>8. \A i \in 1..Len(cells) : i = cell => Assignable(i)
  BY <1>1, <1>4 DEF Assignable
<1> HIDE DEF upref, cell, value
<1>9. /\ stack' \in [Levels -> [Registers -> Values]]
      /\ cells' \in Seq(UpVal) /\ Len(cells)' = Len(cells)
      /\ OpenCellsAreVariables' /\ OnlyAssigned
  <2>1. CASE IsOpen(cell)
    <3>1. cells[cell].level \in Levels /\ cells[cell].register \in Registers
      BY <1>4, <2>1, CellFacts, ProtosAssumption DEF IsOpen, Levels
    <3> DEFINE row == stack[cells[cell].level]
    <3>2. stack' \in [Levels -> [Registers -> Values]]
      <4>1. stack \in [Levels -> [Registers -> Values]]
        BY DEF Types
      <4>2. [row EXCEPT ![cells[cell].register] = value] \in [Registers -> Values]
        BY <1>5, <3>1, <4>1
      <4>3. stack' = [stack EXCEPT ![cells[cell].level] =
                       [row EXCEPT ![cells[cell].register] = value]]
        BY <1>7, <2>1
      <4> QED
        BY <3>1, <4>1, <4>2, <4>3
    <3>3. \A l \in Levels : \A q \in Registers :
            ~(l = cells[cell].level /\ q = cells[cell].register) => stack'[l][q] = stack[l][q]
      BY <1>7, <2>1, <3>1 DEF Types
    <3>4. OpenCellsAreVariables' /\ cells' \in Seq(UpVal) /\ Len(cells)' = Len(cells)
      BY <1>1, <1>7, <2>1 DEF OpenCellsAreVariables, IsOpen, Depth, Types
    <3>5. OnlyAssigned
      <4> SUFFICES ASSUME NEW i \in 1..Len(cells), i # cell
                   PROVE  Deref(i)' = Deref(i)
        BY <1>8 DEF OnlyAssigned
      <4>1. CASE IsOpen(i)
        <5>1. ~(/\ cells[i].level = cells[cell].level
                /\ cells[i].register = cells[cell].register)
          BY <1>4, <4>1 DEF OpenCellsAreVariables
        <5>2. cells[i].level \in Levels /\ cells[i].register \in Registers
          BY <4>1, CellFacts, ProtosAssumption DEF IsOpen, Levels
        <5> QED
          BY <1>7, <2>1, <3>3, <4>1, <5>1, <5>2 DEF Deref, IsOpen
      <4>2. CASE ~IsOpen(i)
        BY <1>7, <2>1, <4>2 DEF Deref, IsOpen
      <4> QED
        BY <4>1, <4>2
    <3> QED
      BY <3>2, <3>4, <3>5
  <2>2. CASE ~IsOpen(cell)
    <3> DEFINE new == [cells[cell] EXCEPT !.value = value]
    <3>1. /\ new \in UpVal /\ new.level = cells[cell].level
          /\ new.register = cells[cell].register
      BY <1>5, <1>6 DEF UpVal
    <3>2. cells' = [cells EXCEPT ![cell] = new]
      BY <1>7, <2>2
    <3> HIDE DEF new
    <3>3. /\ cells' \in Seq(UpVal) /\ Len(cells') = Len(cells)
          /\ \A j \in 1..Len(cells) : cells'[j] = IF j = cell THEN new ELSE cells[j]
      BY <1>4, <3>1, <3>2, ExceptSeq DEF Types
    <3>4. OpenCellsAreVariables'
      BY <1>1, <3>1, <3>3 DEF OpenCellsAreVariables, IsOpen, Depth
    <3>5. OnlyAssigned
      <4> SUFFICES ASSUME NEW i \in 1..Len(cells), i # cell
                   PROVE  Deref(i)' = Deref(i)
        BY <1>8 DEF OnlyAssigned
      <4>1. cells'[i] = cells[i] /\ stack' = stack
        BY <1>7, <2>2, <3>3
      <4> QED
        BY <4>1 DEF Deref, IsOpen
    <3> QED
      BY <1>7, <2>2, <3>3, <3>4, <3>5 DEF Types
  <2> QED
    BY <2>1, <2>2
<1>10. Idle' /\ runs' \in 0..MaxRuns
  BY <1>1 DEF Idle, Types
<1>11. initialized' \in BOOLEAN
  BY <1>1 DEF Types
<1>12. frames' \in Seq(DOMAIN closures) /\ Depth' <= MaxDepth
  BY <1>1 DEF Types, Depth
<1> QED
  BY <1>1, <1>9, <1>10, <1>11, <1>12, ClosuresUntouched DEF Quiet

(* The end of a scope: its variables live on in their cells.               *)
LEMMA CloseUpvaluesIsQuiet ==
    ASSUME ClosuresInv, CloseUpvalues
    PROVE  Quiet /\ OnlyAssigned
<1> USE DEF ClosuresInv
<1>1. /\ Idle /\ frames # <<>>
      /\ UNCHANGED <<runs, initialized, frames, stack, closures, pending, meant>>
  BY DEF CloseUpvalues
<1>2. PICK first \in Registers :
        cells' = Closed((Depth..MaxDepth) \X {r \in Registers : r >= first}, stack)
  BY DEF CloseUpvalues
<1> DEFINE S == (Depth..MaxDepth) \X {r \in Registers : r >= first}
<1> HIDE DEF S
<1>3. cells' = Closed(S, stack)
  BY <1>2 DEF S
<1>4. cells' \in Seq(UpVal) /\ Len(cells)' = Len(cells)
  BY <1>3, ClosedCells
<1>5. \A i \in 1..Len(cells) : cells'[i].level # 0 => cells'[i] = cells[i]
  <2> SUFFICES ASSUME NEW i \in 1..Len(cells), cells'[i].level # 0
               PROVE  cells'[i] = cells[i]
    OBVIOUS
  <2> DEFINE inside == <<cells[i].level, cells[i].register>> \in S
             closed == [level |-> 0, register |-> 0,
                        value |-> stack[cells[i].level][cells[i].register]]
  <2>1. cells'[i] = IF IsOpen(i) /\ inside THEN closed ELSE cells[i]
    BY <1>3, ClosedCells
  <2>2. closed.level = 0
    OBVIOUS
  <2> HIDE DEF inside, closed
  <2> QED
    BY <2>1, <2>2
<1>6. OpenCellsAreVariables'
  BY <1>1, <1>4, <1>5 DEF OpenCellsAreVariables, IsOpen, Depth
<1>7. OnlyAssigned
  BY <1>1, <1>3, DerefAfterClosing DEF OnlyAssigned
<1>8. Idle' /\ runs' \in 0..MaxRuns /\ stack' \in [Levels -> [Registers -> Values]]
  BY <1>1 DEF Idle, Types
<1>9. initialized' \in BOOLEAN
  BY <1>1 DEF Types
<1>10. frames' \in Seq(DOMAIN closures) /\ Depth' <= MaxDepth
  BY <1>1 DEF Types, Depth
<1> QED
  BY <1>1, <1>4, <1>6, <1>7, <1>8, <1>9, <1>10, ClosuresUntouched DEF Quiet

(***************************************************************************)
(* The theorems.                                                           *)
(***************************************************************************)
LEMMA InitInv == Init => ClosuresInv /\ SourcesInv
<1> SUFFICES ASSUME Init PROVE ClosuresInv /\ SourcesInv
  OBVIOUS
<1>1. /\ runs = 0 /\ initialized = FALSE /\ frames = <<>> /\ cells = <<>>
      /\ stack = [l \in Levels |-> [r \in Registers |-> Nil]]
      /\ closures = [c \in Shared \cup {0} |->
                       IF c = 0 THEN Closure(Root, 0)
                       ELSE [Closure(c, 0) EXCEPT !.preload = IF Nups(c) = 0 THEN 0 ELSE 1]]
      /\ Idle
  BY DEF Init, Idle
<1>2. Published = {}
  BY DEF Init, Published
<1>3. DOMAIN closures = Shared \cup 0..0
  <2>1. 0..0 = {0}
    OBVIOUS
  <2> QED
    BY <1>1, <2>1
<1>4. InOrder
  BY <1>3, ProtosAssumption DEF InOrder
<1> DEFINE Empty(p) == [Closure(p, 0) EXCEPT !.preload = IF Nups(p) = 0 THEN 0 ELSE 1]
<1>5. ASSUME NEW p \in Protos
      PROVE  /\ IsClosure(Closure(p, 0), Uprefs)
             /\ IsClosure(Empty(p), Uprefs) /\ Empty(p).proto = p
             /\ Empty(p).preload = IF Nups(p) = 0 THEN 0 ELSE 1
  <2> DEFINE x == Closure(p, 0)
             preload == IF Nups(p) = 0 THEN 0 ELSE 1
             y == [x EXCEPT !.preload = preload]
             nils == [i \in 1..Nups(p) |-> Nil]
  <2>1. x = [proto |-> p, env |-> 0, uprefs |-> nils, preload |-> 0]
    BY DEF Closure
  <2>2. y = [proto |-> p, env |-> 0, uprefs |-> nils, preload |-> preload]
    <3> HIDE DEF nils, preload, x
    <3> QED
      BY <2>1
  <2>3. nils \in [1..Nups(p) -> Uprefs] /\ preload \in Nat
    BY UprefKinds
  <2> HIDE DEF nils, preload, x, y
  <2>4. IsClosure(x, Uprefs)
    BY <2>1, <2>3 DEF IsClosure
  <2>5. IsClosure(y, Uprefs) /\ y.proto = p /\ y.preload = preload
    BY <2>2, <2>3 DEF IsClosure
  <2> QED
    BY <2>4, <2>5 DEF x, y, preload
<1>6. \A c \in Shared :
        /\ c \in Protos /\ c # 0
        /\ closures[c] = Empty(c)
  BY <1>1, ProtosAssumption DEF Protos
<1>7. closures[0] = Closure(Root, 0) /\ Root \in Protos
  BY <1>1 DEF Protos
<1> HIDE DEF Empty
<1>8. \A c \in DOMAIN closures : IsClosure(closures[c], Uprefs)
  BY <1>3, <1>5, <1>6, <1>7
<1>9. \A c \in Shared : /\ closures[c].proto = c
                        /\ closures[c].preload = IF Nups(c) = 0 THEN 0 ELSE 1
  BY <1>5, <1>6
<1>10. stack \in [Levels -> [Registers -> Values]]
  BY <1>1, UprefKinds
<1>11. Types
  <2>1. <<>> \in Seq(DOMAIN closures) /\ <<>> \in Seq(UpVal) /\ Len(<<>>) = 0
    BY EmptySeq
  <2> QED
    <3>1. runs \in 0..MaxRuns
      BY <1>1, ProtosAssumption
    <3>4. initialized \in BOOLEAN
      BY <1>1
    <3>2. frames \in Seq(DOMAIN closures) /\ Depth <= MaxDepth
      BY <1>1, <2>1, ProtosAssumption DEF Depth
    <3>3. cells \in Seq(UpVal) /\ Len(cells) <= MaxCells
      BY <1>1, <2>1, ProtosAssumption
    <3> QED
      BY <1>2, <1>4, <1>8, <1>10, <3>1, <3>2, <3>3, <3>4 DEF Types
<1>12. Templates /\ PendingInv /\ PendingSources
  BY <1>1, <1>2, <1>9 DEF Templates, PendingInv, PendingSources
<1>13. OpenCellsAreVariables
  BY <1>1 DEF OpenCellsAreVariables
<1>14. SelfTemplates
  <2> SUFFICES ASSUME NEW c \in Shared, closures[c].preload = 0, NEW j \in 1..Nups(c)
               PROVE  FALSE
    BY DEF SelfTemplates
  <2> QED
    BY <1>6, <1>9, NupsNat
<1>15. ClosuresCaptureTheirSources
  BY <1>2 DEF ClosuresCaptureTheirSources
<1> QED
  BY <1>11, <1>12, <1>13, <1>14, <1>15 DEF ClosuresInv, SourcesInv

(* A step is one of the closure instructions or touches no closure.        *)
LEMMA NextSteps ==
    ASSUME ClosuresInv, Next
    PROVE  CaptureMade \/ (Quiet /\ OnlyAssigned)
<1>1. CASE Run BY <1>1, RunIsQuiet
<1>2. CASE Call BY <1>2, CallIsQuiet
<1>3. CASE Return BY <1>3, ReturnIsQuiet
<1>4. CASE Raise BY <1>4, RaiseIsQuiet
<1>5. CASE Assign BY <1>5, AssignIsQuiet
<1>6. CASE MakeEmpty BY <1>6, MakeEmptyCaptures
<1>7. CASE NewClosureCapture BY <1>7, NewClosureCaptures
<1>8. CASE DupClosureCapture BY <1>8, DupClosureCaptures
<1>9. CASE GetUpvalue BY <1>9, GetUpvalueIsQuiet
<1>10. CASE SetUpvalue BY <1>10, SetUpvalueIsQuiet
<1>11. CASE CloseUpvalues BY <1>11, CloseUpvaluesIsQuiet
<1> QED
  BY <1>1, <1>2, <1>3, <1>4, <1>5, <1>6, <1>7, <1>8, <1>9, <1>10, <1>11 DEF Next

(* Nothing changes in a stuttering step.                                   *)
LEMMA StutterKeepsInv ==
    ASSUME ClosuresInv, UNCHANGED vars
    PROVE  ClosuresInv' /\ (SourcesInv => SourcesInv')
<1> USE DEF vars
<1>1. Types'
  BY DEF ClosuresInv, Types, InOrder, Uprefs, Cells, Values, UpVal, Published, Depth
<1>2. PendingInv' /\ Templates' /\ OpenCellsAreVariables'
  BY DEF ClosuresInv, PendingInv, Templates, OpenCellsAreVariables, Idle, IsOpen, Depth,
         Published, Uprefs, Cells, Values
<1>3. SourcesInv => SourcesInv'
  BY DEF SourcesInv, PendingSources, SelfTemplates, ClosuresCaptureTheirSources, Idle, Published
<1> QED
  BY <1>1, <1>2, <1>3 DEF ClosuresInv

LEMMA NextKeepsInv == ClosuresInv /\ [Next]_vars => ClosuresInv'
<1> SUFFICES ASSUME ClosuresInv, [Next]_vars PROVE ClosuresInv'
  OBVIOUS
<1>1. CASE CaptureMade
  BY <1>1, CaptureKeepsInv DEF CaptureMade
<1>2. CASE Quiet
  BY <1>2, QuietKeepsInv
<1>3. CASE UNCHANGED vars
  BY <1>3, StutterKeepsInv
<1> QED
  BY <1>1, <1>2, <1>3, NextSteps

(* The inductive invariant gives the types TLC checks.                     *)
LEMMA InvImpliesTypeOK == ClosuresInv => TypeOK
<1> SUFFICES ASSUME ClosuresInv PROVE TypeOK
  OBVIOUS
<1> USE DEF ClosuresInv
<1>1. \A l \in 1..Depth : frames[l] \in DOMAIN closures
  BY ElementOfSeq DEF Types, Depth
<1>2. DOMAIN closures \subseteq ClosureIds
  BY ProtosAssumption DEF Types, InOrder, ClosureIds
<1>3. \A c \in DOMAIN closures :
        closures[c].uprefs \in [1..Nups(closures[c].proto)
                               -> Values \cup {Cell(i) : i \in 1..Len(cells)}]
  BY DEF Types, IsClosure, Uprefs, Cells
<1>4. \A i \in 1..Len(cells) : cells[i].value \in Values
  BY CellFacts
<1> QED
  BY <1>1, <1>2, <1>3, <1>4 DEF Types, TypeOK

(* Registers hold values and every cell a closure refers to exists, for    *)
(* any protos, captures and bounds.                                        *)
THEOREM ClosuresInvariant == Spec => [](ClosuresInv /\ TypeOK)
<1>1. Init => ClosuresInv
  BY InitInv
<1>2. ClosuresInv /\ [Next]_vars => ClosuresInv'
  BY NextKeepsInv
<1> QED
  BY <1>1, <1>2, InvImpliesTypeOK, PTL DEF Spec

(* No register has two open cells, and no cell points into a frame that    *)
(* was left, however runs, calls, errors and closure instructions mix.     *)
THEOREM VariablesStayVariables == Spec => []OpenCellsAreVariables
<1>1. ClosuresInv => OpenCellsAreVariables
  BY DEF ClosuresInv
<1> QED
  BY <1>1, ClosuresInvariant, PTL

(* What a function the program has captured never changes: a template is   *)
(* filled in place only before anyone has seen it.                         *)
THEOREM CapturesStay == Spec => CapturesArePermanent
<1>1. ASSUME ClosuresInv, [Next]_vars
      PROVE  [\A c \in Published : closures'[c].uprefs = closures[c].uprefs]_vars
  <2>1. Published \subseteq DOMAIN closures
    BY <1>1 DEF ClosuresInv, Types
  <2>2. CASE CaptureMade
    BY <2>1, <2>2 DEF CaptureMade, CaptureStep
  <2>3. CASE Quiet
    BY <2>1, <2>3 DEF Quiet
  <2> QED
    BY <1>1, <2>2, <2>3, NextSteps
<1> QED
  BY <1>1, ClosuresInvariant, PTL DEF Spec, CapturesArePermanent

(* The value of a captured variable changes only when its frame or a       *)
(* function that captured it assigns it: never because its scope ends, the *)
(* stack is reused or results are moved over its register.                 *)
THEOREM VariablesChangeWhenAssigned == Spec => VariablesChangeByAssignment
<1>1. ASSUME ClosuresInv, CaptureMade
      PROVE  OnlyAssigned
  <2>1. PICK child, c, x, captured : CaptureStep(child, c, x, captured)
    BY <1>1 DEF CaptureMade
  <2>2. /\ frames' = frames /\ frames # <<>> /\ child \in Children
        /\ DOMAIN closures' = DOMAIN closures \cup {c}
        /\ stack' = Shown(stack, child, c)
    BY <2>1 DEF CaptureStep
  <2>3. \A i \in 1..Len(cells) : cells'[i] = cells[i]
    BY <1>1, <2>1, <2>2, CellsAfterCapture DEF ClosuresInv, CaptureStep
  <2>4. \A l \in Levels : \A r \in Registers :
          ~(l = Depth /\ r = Destination(child)) => stack'[l][r] = stack[l][r]
    BY <1>1, <2>2, StackAfterCapture DEF ClosuresInv
  <2> SUFFICES ASSUME NEW i \in 1..Len(cells), cells[i].level # Depth
               PROVE  Deref(i)' = Deref(i)
    BY <2>2 DEF OnlyAssigned, Assignable
  <2>5. CASE IsOpen(i)
    <3>1. cells[i].level \in Levels /\ cells[i].register \in Registers
      BY <1>1, <2>5, CellFacts, ProtosAssumption DEF IsOpen, Levels, ClosuresInv
    <3> QED
      BY <2>3, <2>4, <2>5, <3>1 DEF Deref, IsOpen
  <2>6. CASE ~IsOpen(i)
    BY <2>3, <2>6 DEF Deref, IsOpen
  <2> QED
    BY <2>5, <2>6
<1>2. ASSUME ClosuresInv, [Next]_vars
      PROVE  [OnlyAssigned]_vars
  BY <1>1, <1>2, NextSteps
<1>3. ClosuresInv /\ [Next]_vars =>
        [\A i \in 1..Len(cells) : Deref(i)' # Deref(i) => Assignable(i)]_vars
  BY <1>2 DEF OnlyAssigned
<1> QED
  BY <1>3, ClosuresInvariant, PTL DEF Spec, VariablesChangeByAssignment

(* The captures of a closure, one more, and of the closures there are.     *)
LEMMA CaptureKeepsSources ==
    ASSUME ClosuresInv, SourcesInv, NEW child, NEW c, NEW x, NEW captured,
           CaptureStep(child, c, x, captured), Holds(child, c, x.uprefs, captured)
    PROVE  SourcesInv'
<1>1. /\ child \in Children /\ Nups(child) \in Nat
      /\ Len(captured) \in 0..Nups(child)
  BY NupsNat DEF CaptureStep, Protos
<1>2. Shared \subseteq DOMAIN closures /\ Published \subseteq DOMAIN closures
  BY DEF ClosuresInv, Types, InOrder
<1>3. closures'[c] = x /\ x.uprefs \in [1..Nups(child) -> Uprefs']
  BY DEF CaptureStep, IsClosure
<1>0. SelfTemplates /\ ClosuresCaptureTheirSources
  BY DEF SourcesInv
<1>4. PendingSources'
  <2>1. CASE Len(captured) < Nups(child)
    <3>1. pending' = [child |-> child, made |-> c, captured |-> captured]
      BY <2>1 DEF CaptureStep, Advance
    <3>2. pending'.child = child /\ pending'.made = c /\ pending'.captured = captured
      BY <3>1
    <3>3. Holds(child, c, closures'[c].uprefs, captured)
      BY <1>3
    <3> QED
      BY <3>2, <3>3 DEF PendingSources, Holds
  <2>2. CASE ~(Len(captured) < Nups(child))
    BY <2>2 DEF CaptureStep, Advance, PendingSources, Idle, NoPending
  <2> QED
    BY <2>1, <2>2
<1>5. SelfTemplates'
  <2> SUFFICES ASSUME NEW t \in Shared, closures'[t].preload = 0,
                      NEW j \in 1..Nups(t), IsSelf(t, j)
               PROVE  closures'[t].uprefs[j] = Function(t)
    BY DEF SelfTemplates
  <2>1. CASE t # c
    BY <1>0, <1>2, <2>1 DEF CaptureStep, SelfTemplates
  <2>2. CASE t = c
    <3>1. t = child
      BY <2>2 DEF CaptureStep
    <3>2. \/ Len(captured) = Nups(child)
          \/ closures[c].preload = 0 /\ x.uprefs = closures[c].uprefs
      BY <1>3, <2>2 DEF CaptureStep
    <3>3. CASE Len(captured) = Nups(child)
      BY <1>3, <2>2, <3>1, <3>3 DEF Holds
    <3>4. CASE closures[c].preload = 0 /\ x.uprefs = closures[c].uprefs
      BY <1>0, <1>3, <2>2, <3>4 DEF SelfTemplates
    <3> QED
      BY <3>2, <3>3, <3>4
  <2> QED
    BY <2>1, <2>2
<1>6. ClosuresCaptureTheirSources'
  <2> SUFFICES ASSUME NEW d \in Published'
               PROVE  closures'[d].uprefs = meant'[d]
    BY DEF ClosuresCaptureTheirSources
  <2>1. CASE Len(captured) < Nups(child)
    <3>1. meant' = meant
      BY <2>1 DEF CaptureStep, Advance
    <3>2. d \in Published /\ closures[d].uprefs = meant[d]
      BY <1>0, <3>1 DEF Published, ClosuresCaptureTheirSources
    <3>3. closures'[d].uprefs = closures[d].uprefs
      BY <1>2, <3>2 DEF CaptureStep
    <3> QED
      BY <3>1, <3>2, <3>3
  <2>2. CASE ~(Len(captured) < Nups(child))
    <3> DEFINE all == [j \in 1..Nups(child) |->
                         IF captured[j] = Itself THEN Function(c) ELSE captured[j]]
    <3>1. meant' = Extend(meant, c, all)
      BY <2>2 DEF CaptureStep, Advance
    <3>2. Len(captured) = Nups(child)
      BY <1>1, <2>2
    <3>3. x.uprefs = all
      <4>1. \A j \in 1..Nups(child) : x.uprefs[j] = all[j]
        BY <3>2 DEF Holds
      <4>2. DOMAIN all = 1..Nups(child) /\ all = [j \in 1..Nups(child) |-> all[j]]
        OBVIOUS
      <4>3. x.uprefs = [j \in 1..Nups(child) |-> x.uprefs[j]]
        BY <1>3
      <4> HIDE DEF all
      <4> QED
        BY <4>1, <4>2, <4>3
    <3> HIDE DEF all
    <3>4. CASE d = c
      <4>1. meant'[c] = all
        BY <3>1 DEF Extend
      <4> QED
        BY <1>3, <3>3, <3>4, <4>1
    <3>5. CASE d # c
      <4>1. d \in Published /\ meant'[d] = meant[d]
        BY <3>1, <3>5 DEF Extend, Published
      <4>2. closures'[d] = closures[d]
        BY <1>2, <3>5, <4>1 DEF CaptureStep
      <4> QED
        BY <1>0, <4>1, <4>2 DEF ClosuresCaptureTheirSources
    <3> QED
      BY <3>4, <3>5
  <2> QED
    BY <2>1, <2>2
<1> QED
  BY <1>4, <1>5, <1>6 DEF SourcesInv

(* When no function refers to itself before it refers to another local,    *)
(* every closure holds what its sources meant: that templates are shared   *)
(* and captures copied from them cannot be observed.                       *)
THEOREM SharingIsNotObservable == SelfLast /\ Spec => []ClosuresCaptureTheirSources
<1>1. SelfLast /\ ClosuresInv /\ SourcesInv /\ [Next]_vars => SourcesInv'
  <2> SUFFICES ASSUME SelfLast, ClosuresInv, SourcesInv, [Next]_vars
               PROVE  SourcesInv'
    OBVIOUS
  <2>1. CASE CaptureMade
    BY <2>1, CaptureKeepsSources DEF CaptureMade
  <2>2. CASE Quiet
    BY <2>2, QuietKeepsInv
  <2>3. CASE UNCHANGED vars
    BY <2>3, StutterKeepsInv
  <2> QED
    BY <2>1, <2>2, <2>3, NextSteps
<1>2. SelfLast => [](SelfLast)
  <2>1. SUFFICES ASSUME SelfLast PROVE []SelfLast
    OBVIOUS
  <2> QED
    BY <2>1, PTL
<1>3. SourcesInv => ClosuresCaptureTheirSources
  BY DEF SourcesInv
<1> QED
  BY <1>1, <1>2, <1>3, InitInv, ClosuresInvariant, PTL DEF Spec
===============================================================================
