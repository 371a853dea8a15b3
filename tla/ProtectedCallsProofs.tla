------------------------- MODULE ProtectedCallsProofs -------------------------
(* Proofs about ProtectedCalls, for any codes, thunks and nesting. *)
EXTENDS ProtectedCalls, SequenceTheorems, TLAPS

Boundary == [thunk : Thunks, saved : Thunks \cup {None}]

(***************************************************************************)
(* The inductive invariant.  ChainedThunks makes the restored thunk the    *)
(* right one; while a failure nobody caught unwinds, active_thunk is stale *)
(* and stays so until the next protected call overwrites it.               *)
(***************************************************************************)
ChainedThunks ==
    \A i \in 2..Len(boundaries) : boundaries[i].saved = boundaries[i - 1].thunk

ActiveIsTop ==
    /\ trapping = None \/ throwCodes # <<>>
    /\ boundaries # <<>>
    => active = Innermost.thunk

IdleIsEmpty ==
    host \in {"ready", "dropped"} => boundaries = <<>> /\ trapping = None

IInv == TypeOK /\ ChainedThunks /\ ActiveIsTop /\ IdleIsEmpty

(* With no error raised outside a protected call, moreover: *)
ErrorsHaveARegion == trapping \in Codes => boundaries # <<>>
NotYetAnswered == trapping # None => answer = None
IInvCodes ==
    /\ ~RaiseOutside
    /\ IInv
    /\ CodesAreCurrent
    /\ ErrorsHaveARegion
    /\ NotYetAnswered

-----------------------------------------------------------------------------
(* What removing the last element of a sequence leaves. *)
LEMMA FrontFacts ==
    ASSUME NEW S, NEW q \in Seq(S), q # <<>>
    PROVE  LET front == SubSeq(q, 1, Len(q) - 1)
           IN  /\ Len(q) \in Nat \ {0}
               /\ front \in Seq(S)
               /\ Len(front) = Len(q) - 1
               /\ \A i \in 1..(Len(q) - 1) : front[i] = q[i]
<1> DEFINE n == Len(q) - 1
<1>1. n \in Nat /\ Len(q) = n + 1
  OBVIOUS
<1>2. \A i \in 1..n : q[i] \in S
  BY <1>1
<1> HIDE DEF n
<1>3. SubSeq(q, 1, n) \in Seq(S) /\ Len(SubSeq(q, 1, n)) = n
  BY <1>1, <1>2, SubSeqProperties
<1>4. \A i \in 1..n : SubSeq(q, 1, n)[i] = q[i]
  BY <1>1
<1> QED BY <1>1, <1>3, <1>4 DEF n

LEMMA OuterFacts ==
    ASSUME TypeOK, boundaries # <<>>
    PROVE  /\ Len(boundaries) \in Nat \ {0}
           /\ Innermost \in Boundary
           /\ Outer \in Seq(Boundary)
           /\ Len(Outer) = Len(boundaries) - 1
           /\ \A i \in 1..(Len(boundaries) - 1) : Outer[i] = boundaries[i]
<1>1. boundaries \in Seq(Boundary)
  BY DEF TypeOK, Boundary
<1> HIDE DEF Boundary
<1>2. Innermost \in Boundary
  BY <1>1 DEF Innermost
<1> QED BY <1>1, <1>2, FrontFacts DEF Outer

(* A protected call that ends, however it does, leaves the chain intact    *)
(* and gives back the thunk of the call around it.                         *)
LEMMA PopStep ==
    ASSUME IInv, boundaries # <<>>, boundaries' = Outer
    PROVE  /\ boundaries' \in Seq(Boundary)
           /\ Len(boundaries') <= MaxNesting
           /\ ChainedThunks'
           /\ Innermost.saved \in Thunks \cup {None}
           /\ boundaries' # <<>> => Innermost.saved = Innermost'.thunk
<1>1. /\ Len(boundaries) \in Nat \ {0}
      /\ Innermost \in Boundary
      /\ boundaries' \in Seq(Boundary)
      /\ Len(boundaries') = Len(boundaries) - 1
      /\ \A i \in 1..(Len(boundaries) - 1) : boundaries'[i] = boundaries[i]
  BY OuterFacts DEF IInv
<1>2. ChainedThunks'
  <2> SUFFICES ASSUME NEW i \in 2..Len(boundaries')
               PROVE  boundaries'[i].saved = boundaries'[i - 1].thunk
    BY DEF ChainedThunks
  <2>1. i \in 1..(Len(boundaries) - 1) /\ i - 1 \in 1..(Len(boundaries) - 1)
        /\ i \in 2..Len(boundaries)
    BY <1>1
  <2> QED BY <1>1, <2>1 DEF IInv, ChainedThunks
<1>3. Innermost.saved \in Thunks \cup {None}
  BY <1>1 DEF Boundary
<1>4. ASSUME boundaries' # <<>> PROVE Innermost.saved = Innermost'.thunk
  <2> DEFINE n == Len(boundaries)
  <2>1. n \in Nat /\ n >= 2
    BY <1>1, <1>4, EmptySeq
  <2>2. Len(boundaries') = n - 1 /\ n - 1 \in 1..(n - 1)
    BY <1>1, <2>1
  <2>3. Innermost' = boundaries[n - 1]
    BY <1>1, <2>2 DEF Innermost
  <2>4. boundaries[n].saved = boundaries[n - 1].thunk
    BY <2>1 DEF IInv, ChainedThunks
  <2> QED BY <2>3, <2>4 DEF Innermost
<1>5. Len(boundaries') <= MaxNesting
  BY <1>1, BoundsAssumption DEF IInv, TypeOK
<1> QED BY <1>1, <1>2, <1>3, <1>4, <1>5

-----------------------------------------------------------------------------
LEMMA InitHolds == Init => IInv /\ (~RaiseOutside => IInvCodes)
<1> SUFFICES ASSUME Init PROVE IInv /\ (~RaiseOutside => IInvCodes)
  OBVIOUS
<1>1. TypeOK
  BY BoundsAssumption DEF Init, TypeOK
<1>2. ChainedThunks /\ ActiveIsTop /\ IdleIsEmpty
  BY DEF Init, ChainedThunks, ActiveIsTop, IdleIsEmpty
<1>3. CodesAreCurrent /\ ErrorsHaveARegion /\ NotYetAnswered
  BY CodesAssumption DEF Init, CodesAreCurrent, ErrorsHaveARegion, NotYetAnswered
<1> QED BY <1>1, <1>2, <1>3 DEF IInvCodes, IInv

LEMMA InvStep ==
    ASSUME IInv, [Next]_vars
    PROVE  IInv'
<1> USE DEF IInv
<1>1. ASSUME Instantiate PROVE IInv'
  BY <1>1, BoundsAssumption
     DEF Instantiate, TypeOK, ChainedThunks, ActiveIsTop, IdleIsEmpty, Innermost
<1>2. ASSUME CallExport PROVE IInv'
  BY <1>2 DEF CallExport, TypeOK, ChainedThunks, ActiveIsTop, IdleIsEmpty, Innermost
<1>3. ASSUME NEW t \in Thunks, ProtectedCall(t) PROVE IInv'
  <2> DEFINE b == [thunk |-> t, saved |-> active]
             n == Len(boundaries)
  <2>1. b \in Boundary /\ boundaries \in Seq(Boundary)
    BY DEF TypeOK, Boundary
  <2>2. boundaries' = Append(boundaries, b) /\ b.thunk = t /\ b.saved = active
    BY <1>3 DEF ProtectedCall
  <2> HIDE DEF b
  <2>3. /\ boundaries' \in Seq(Boundary)
        /\ n \in Nat
        /\ Len(boundaries') = n + 1
        /\ boundaries'[n + 1] = b
        /\ \A i \in 1..n : boundaries'[i] = boundaries[i]
    <3> HIDE DEF Boundary
    <3> QED BY <2>1, <2>2
  <2>4. TypeOK'
    BY <1>3, <2>3, BoundsAssumption DEF ProtectedCall, TypeOK, Boundary
  <2>5. n > 0 => active = boundaries[n].thunk
    BY <1>3, <2>3 DEF ProtectedCall, Executing, ActiveIsTop, Innermost
  <2>6. ChainedThunks'
    <3> SUFFICES ASSUME NEW i \in 2..(n + 1)
                 PROVE  boundaries'[i].saved = boundaries'[i - 1].thunk
      BY <2>3 DEF ChainedThunks
    <3>1. CASE i = n + 1
      <4>1. n > 0 /\ n \in 1..n /\ i - 1 = n
        BY <3>1, <2>3
      <4> QED BY <3>1, <4>1, <2>2, <2>3, <2>5
    <3>2. CASE i # n + 1
      <4>1. i \in 2..n /\ i \in 1..n /\ i - 1 \in 1..n
        BY <3>2, <2>3
      <4> QED BY <4>1, <2>3 DEF ChainedThunks
    <3> QED BY <3>1, <3>2
  <2>7. ActiveIsTop'
    BY <1>3, <2>2, <2>3 DEF ProtectedCall, ActiveIsTop, Innermost
  <2>8. IdleIsEmpty'
    BY <1>3 DEF ProtectedCall, Executing, IdleIsEmpty
  <2> QED BY <2>4, <2>6, <2>7, <2>8
<1>4. ASSUME ThunkReturns PROVE IInv'
  BY <1>4, PopStep
     DEF ThunkReturns, Executing, TypeOK, Boundary, ActiveIsTop, IdleIsEmpty
<1>5. ASSUME NEW c \in Codes, Raise(c) PROVE IInv'
  <2>1. Append(throwCodes, c) \in Seq(Codes)
        /\ Len(Append(throwCodes, c)) = Len(throwCodes) + 1
        /\ Len(throwCodes) \in Nat
    BY DEF TypeOK
  <2> QED BY <1>5, <2>1, BoundsAssumption
        DEF Raise, Executing, TypeOK, ChainedThunks, ActiveIsTop, IdleIsEmpty, Innermost
<1>6. ASSUME Trap PROVE IInv'
  BY <1>6 DEF Trap, Executing, TypeOK, ChainedThunks, ActiveIsTop, IdleIsEmpty, Innermost
<1>7. ASSUME Catch PROVE IInv'
  <2>1. /\ throwCodes' \in Seq(Codes)
        /\ Len(throwCodes') <= MaxStale
        /\ throwCodes[Len(throwCodes)] \in Codes
    <3>1. Len(throwCodes) \in Nat \ {0} /\ throwCodes[Len(throwCodes)] \in Codes
      BY <1>7 DEF Catch, TypeOK
    <3> QED BY <1>7, <3>1, FrontFacts, BoundsAssumption DEF Catch, TypeOK
  <2> QED BY <1>7, <2>1, PopStep
        DEF Catch, TypeOK, Boundary, ActiveIsTop, IdleIsEmpty
<1>8. ASSUME Rethrow PROVE IInv'
  BY <1>8, PopStep DEF Rethrow, TypeOK, Boundary, ActiveIsTop, IdleIsEmpty
<1>9. ASSUME Escape PROVE IInv'
  BY <1>9 DEF Escape, TypeOK, ChainedThunks, ActiveIsTop, IdleIsEmpty, Innermost
<1>10. ASSUME ExportReturns PROVE IInv'
  BY <1>10 DEF ExportReturns, Executing, TypeOK, ChainedThunks, ActiveIsTop,
               IdleIsEmpty, Innermost
<1>11. CASE UNCHANGED vars
  BY <1>11 DEF vars, TypeOK, ChainedThunks, ActiveIsTop, IdleIsEmpty, Innermost
<1> QED BY <1>1, <1>2, <1>3, <1>4, <1>5, <1>6, <1>7, <1>8, <1>9, <1>10, <1>11
       DEF Next

-----------------------------------------------------------------------------
LEMMA Invariant == Spec => []IInv
<1>1. Init => IInv
  BY InitHolds
<1> QED BY <1>1, InvStep, PTL DEF Spec

(* The variables keep their types. *)
THEOREM Types == Spec => []TypeOK
<1>1. IInv => TypeOK
  BY DEF IInv
<1> QED BY <1>1, Invariant, PTL

(* However the calls in between ended, the dispatcher runs the thunk of    *)
(* the innermost protected call, even when stale codes confuse the host.   *)
THEOREM InnermostThunkRuns == Spec => []ActiveIsInnermost
<1>1. IInv => ActiveIsInnermost
  BY DEF IInv, ActiveIsTop, ChainedThunks, ActiveIsInnermost, Executing
<1> QED BY <1>1, Invariant, PTL

-----------------------------------------------------------------------------
(* With no error raised outside a protected call, the host holds exactly   *)
(* the code of the error that is unwinding.                                *)
LEMMA CodesStep ==
    ASSUME IInvCodes, [Next]_vars
    PROVE  IInvCodes'
<1> USE CodesAssumption DEF IInvCodes, CodesAreCurrent, ErrorsHaveARegion, NotYetAnswered
<1> DEFINE Kept == CodesAreCurrent /\ ErrorsHaveARegion /\ NotYetAnswered
<1>0. IInv'
  BY InvStep
<1>1. ASSUME Instantiate PROVE Kept'
  BY <1>1 DEF Instantiate, IInv, IdleIsEmpty
<1>2. ASSUME CallExport PROVE Kept'
  BY <1>2 DEF CallExport
<1>3. ASSUME NEW t \in Thunks, ProtectedCall(t)
      PROVE  Kept'
  BY <1>3 DEF ProtectedCall, Executing
<1>4. ASSUME ThunkReturns PROVE Kept'
  BY <1>4 DEF ThunkReturns, Executing
<1>5. ASSUME NEW c \in Codes, Raise(c) PROVE Kept'
  <2>1. throwCodes = <<>> /\ throwCodes' = Append(throwCodes, c)
        /\ trapping' = c /\ boundaries # <<>> /\ boundaries' = boundaries
        /\ answer' = None
    BY <1>5 DEF Raise, Executing
  <2>2. Append(<<>>, c) = <<c>>
    OBVIOUS
  <2> QED BY <2>1, <2>2
<1>6. ASSUME Trap PROVE Kept'
  BY <1>6 DEF Trap, Executing
<1>7. ASSUME Catch PROVE Kept'
  <2>1. throwCodes = <<trapping>> /\ trapping' = None
    BY <1>7 DEF Catch
  <2>2. throwCodes' = SubSeq(<<trapping>>, 1, 0)
    BY <1>7, <2>1 DEF Catch
  <2>3. SubSeq(<<trapping>>, 1, 0) = <<>>
    OBVIOUS
  <2> QED BY <2>1, <2>2, <2>3
<1>8. ASSUME Rethrow PROVE Kept'
  BY <1>8 DEF Rethrow
<1>9. ASSUME Escape PROVE Kept'
  BY <1>9 DEF Escape
<1>10. ASSUME ExportReturns PROVE Kept'
  BY <1>10 DEF ExportReturns, Executing
<1>11. ASSUME UNCHANGED vars PROVE Kept'
  BY <1>11 DEF vars
<1> QED BY <1>0, <1>1, <1>2, <1>3, <1>4, <1>5, <1>6, <1>7, <1>8, <1>9, <1>10, <1>11
       DEF Next

LEMMA CodesInvariant == ~RaiseOutside /\ Spec => []IInvCodes
<1>1. ~RaiseOutside /\ Init => IInvCodes
  BY InitHolds
<1>2. IInvCodes /\ [Next]_vars => IInvCodes'
  BY CodesStep
<1> QED BY <1>1, <1>2, PTL DEF Spec

(* The host holds a code only while the error it belongs to unwinds. *)
THEOREM CodesStayCurrent == ~RaiseOutside /\ Spec => []CodesAreCurrent
<1>1. IInvCodes => CodesAreCurrent
  BY DEF IInvCodes
<1> QED BY <1>1, CodesInvariant, PTL

(* A trap nobody raised is never answered as an error, as long as nothing  *)
(* is raised outside every protected call.                                 *)
THEOREM FailuresAreNotAnswered == ~RaiseOutside /\ Spec => TrapsRemainFailures
<1>1. IInvCodes /\ [Next]_vars => [trapping = Failure => answer' = None]_vars
  <2> SUFFICES ASSUME IInvCodes, Next, trapping = Failure PROVE answer' = None
    OBVIOUS
  <2>1. /\ trapping # None /\ trapping \notin Codes
        /\ host \notin {"ready", "dropped"}
        /\ throwCodes = <<>> /\ answer = None
    BY CodesAssumption
       DEF IInvCodes, IInv, IdleIsEmpty, CodesAreCurrent, NotYetAnswered
  <2>2. Rethrow \/ Escape
    BY <2>1 DEF Next, Instantiate, CallExport, ProtectedCall, ThunkReturns,
         Raise, Trap, Catch, ExportReturns, Executing
  <2> QED BY <2>1, <2>2 DEF Rethrow, Escape
<1> QED BY <1>1, CodesInvariant, PTL DEF Spec, TrapsRemainFailures

-----------------------------------------------------------------------------
LEMMA ThunkTypes ==
    ASSUME TypeOK
    PROVE  \A i \in 1..Len(boundaries) : boundaries[i].thunk \in Thunks
<1>1. \A i \in 1..Len(boundaries) : boundaries[i] \in Boundary
  <2>1. boundaries \in Seq(Boundary)
    BY DEF TypeOK, Boundary
  <2> HIDE DEF Boundary
  <2> QED BY <2>1
<1> QED BY <1>1 DEF Boundary

(* What a protected call does to the abstract regions. *)
LEMMA ThunksOpen ==
    ASSUME TypeOK, TypeOK', NEW b \in Boundary, boundaries' = Append(boundaries, b)
    PROVE  OpenThunks' = Append(OpenThunks, b.thunk)
<1> DEFINE n == Len(boundaries)
<1>1. boundaries \in Seq(Boundary)
  BY DEF TypeOK, Boundary
<1>2. /\ n \in Nat
      /\ Len(boundaries') = n + 1
      /\ boundaries'[n + 1] = b
      /\ \A i \in 1..n : boundaries'[i] = boundaries[i]
  <2> HIDE DEF Boundary
  <2> QED BY <1>1
<1>3. \A i \in 1..n : boundaries[i].thunk \in Thunks
  BY ThunkTypes
<1> DEFINE ts == [i \in 1..n |-> boundaries[i].thunk]
<1>4. ts \in Seq(Thunks) /\ Len(ts) = n /\ \A i \in 1..n : ts[i] = boundaries[i].thunk
  BY <1>2, <1>3
<1> HIDE DEF ts
<1>5. b.thunk \in Thunks
  BY DEF Boundary
<1>6. Append(ts, b.thunk) = [i \in 1..(n + 1) |-> IF i = n + 1 THEN b.thunk ELSE ts[i]]
  BY <1>2, <1>4, <1>5
<1>7. \A i \in 1..(n + 1) :
         boundaries'[i].thunk = IF i = n + 1 THEN b.thunk ELSE ts[i]
  BY <1>2, <1>4
<1>8. OpenThunks' = [i \in 1..(n + 1) |-> boundaries'[i].thunk]
  BY <1>2 DEF OpenThunks
<1>9. OpenThunks = ts
  BY DEF OpenThunks, ts
<1> QED BY <1>6, <1>7, <1>8, <1>9

LEMMA ThunksClose ==
    ASSUME TypeOK, boundaries # <<>>, boundaries' = Outer
    PROVE  /\ OpenThunks # <<>>
           /\ OpenThunks' = SubSeq(OpenThunks, 1, Len(OpenThunks) - 1)
<1> DEFINE n == Len(boundaries)
           ts == [i \in 1..n |-> boundaries[i].thunk]
<1>1. /\ n \in Nat \ {0}
      /\ Len(boundaries') = n - 1
      /\ \A i \in 1..(n - 1) : boundaries'[i] = boundaries[i]
  BY OuterFacts
<1>2. \A i \in 1..n : boundaries[i].thunk \in Thunks
  BY ThunkTypes
<1>3. ts \in Seq(Thunks) /\ Len(ts) = n /\ \A i \in 1..n : ts[i] = boundaries[i].thunk
  BY <1>1, <1>2
<1>4. OpenThunks = ts
  BY DEF OpenThunks
<1> HIDE DEF ts
<1>5. SubSeq(ts, 1, n - 1) = [i \in 1..(n - 1) |-> ts[i]]
  BY <1>1, <1>3
<1>6. OpenThunks' = [i \in 1..(n - 1) |-> boundaries'[i].thunk]
  BY <1>1 DEF OpenThunks
<1>7. \A i \in 1..(n - 1) : boundaries'[i].thunk = ts[i]
  BY <1>1, <1>3
<1>8. ts # <<>>
  BY <1>1, <1>3
<1> QED BY <1>3, <1>4, <1>5, <1>6, <1>7, <1>8

LEMMA NoThunks ==
    ASSUME boundaries = <<>>
    PROVE  OpenThunks = <<>>
BY DEF OpenThunks

LEMMA ExceptionsStep ==
    ASSUME IInvCodes, IInvCodes', [Next]_vars
    PROVE  [Structured!AbstractNext]_(Structured!abstractVars)
<1> USE CodesAssumption
<1> DEFINE Maps == Structured!AbstractNext \/ UNCHANGED Structured!abstractVars
<1>0. TypeOK /\ TypeOK'
  BY DEF IInvCodes, IInv
<1>1. ASSUME Instantiate \/ CallExport PROVE Maps
  <2>1. UNCHANGED <<boundaries, trapping, answer>>
    BY <1>1 DEF Instantiate, CallExport
  <2> QED BY <2>1 DEF Structured!abstractVars, OpenThunks
<1>2. ASSUME NEW t \in Thunks, ProtectedCall(t) PROVE Maps
  <2> DEFINE b == [thunk |-> t, saved |-> active]
  <2>1. b \in Boundary /\ b.thunk = t
    BY <1>0 DEF Boundary, TypeOK
  <2>2. boundaries' = Append(boundaries, b)
    BY <1>2 DEF ProtectedCall
  <2> HIDE DEF b
  <2>3. OpenThunks' = Append(OpenThunks, t)
    BY <1>0, <2>1, <2>2, ThunksOpen
  <2>4. Structured!Open(t)
    BY <1>2, <2>3 DEF ProtectedCall, Executing, Structured!Open
  <2> QED BY <2>4 DEF Structured!AbstractNext
<1>3. ASSUME ThunkReturns PROVE Maps
  <2>1. OpenThunks # <<>> /\ OpenThunks' = SubSeq(OpenThunks, 1, Len(OpenThunks) - 1)
    BY <1>0, <1>3, ThunksClose DEF ThunkReturns
  <2>2. Structured!Close
    BY <1>3, <2>1 DEF ThunkReturns, Executing, Structured!Close
  <2> QED BY <2>2 DEF Structured!AbstractNext
<1>4. ASSUME NEW c \in Codes, Raise(c) PROVE Maps
  <2>1. Structured!Throw(c)
    BY <1>4 DEF Raise, Executing, Structured!Throw, OpenThunks
  <2> QED BY <2>1 DEF Structured!AbstractNext
<1>5. ASSUME Trap PROVE Maps
  <2>1. Structured!Fail
    BY <1>5 DEF Trap, Executing, Structured!Fail
  <2> QED BY <2>1 DEF Structured!AbstractNext
<1>6. ASSUME Catch PROVE Maps
  <2>1. trapping \in Codes /\ throwCodes = <<trapping>>
    BY <1>6 DEF Catch, IInvCodes, CodesAreCurrent
  <2>2. answer' = trapping /\ trapping' = None
    BY <1>6, <2>1 DEF Catch
  <2>3. OpenThunks # <<>> /\ OpenThunks' = SubSeq(OpenThunks, 1, Len(OpenThunks) - 1)
    BY <1>0, <1>6, ThunksClose DEF Catch
  <2>4. Structured!Report
    BY <2>1, <2>2, <2>3 DEF Structured!Report
  <2> QED BY <2>4 DEF Structured!AbstractNext
<1>7. ASSUME Rethrow PROVE Maps
  <2>1. throwCodes = <<>> /\ trapping # None /\ UNCHANGED <<trapping, answer>>
    BY <1>7 DEF Rethrow
  <2>2. trapping = Failure
    BY <1>0, <2>1 DEF IInvCodes, CodesAreCurrent, TypeOK
  <2> QED BY <2>1, <2>2 DEF Structured!abstractVars
<1>8. ASSUME Escape PROVE Maps
  <2>1. OpenThunks = <<>> /\ OpenThunks' = <<>>
    BY <1>8, NoThunks DEF Escape, OpenThunks
  <2>2. Structured!End
    BY <1>8, <2>1 DEF Escape, Structured!End
  <2> QED BY <2>2 DEF Structured!AbstractNext
<1>9. ASSUME ExportReturns PROVE Maps
  <2>1. Structured!Forget
    BY <1>9 DEF ExportReturns, Executing, Structured!Forget, OpenThunks
  <2> QED BY <2>1 DEF Structured!AbstractNext
<1>10. ASSUME UNCHANGED vars PROVE Maps
  BY <1>10 DEF vars, Structured!abstractVars, OpenThunks
<1>11. Maps
  BY <1>1, <1>2, <1>3, <1>4, <1>5, <1>6, <1>7, <1>8, <1>9, <1>10 DEF Next
<1> QED BY <1>11

(* Protected calls built from nested calls and traps are structured        *)
(* exceptions, for any codes, any thunks and any nesting, as long as       *)
(* nothing is raised outside every protected call.                         *)
THEOREM ProtectedCallsAreExceptions == ~RaiseOutside /\ Spec => ImplementsExceptions
<1>1. Init => Structured!AbstractInit
  BY CodesAssumption, NoThunks DEF Init, Structured!AbstractInit
<1>2. IInvCodes /\ IInvCodes' /\ [Next]_vars
         => [Structured!AbstractNext]_(Structured!abstractVars)
  BY ExceptionsStep
<1> QED BY <1>1, <1>2, CodesInvariant, PTL
        DEF Spec, ImplementsExceptions, Structured!AbstractSpec
===============================================================================
