-------------------------- MODULE EmbedProviderProofs --------------------------
(* Proofs about EmbedProvider, for any contexts, threads and bounds. *)
EXTENDS EmbedCoverage, SequenceTheorems, TLAPS

(***************************************************************************)
(* The inductive invariant: what a main stack can look like, and how an    *)
(* invocation's thread and step agree with the stack of its context.       *)
(***************************************************************************)
One(c) == stack[c] = <<Export>>
Two(c, t) == stack[c] = <<Export, t>>

StacksOK ==
    \A c \in Contexts :
        /\ stack[c] = <<>> \/ One(c) \/ \E t \in Threads : Two(c, t)
        /\ memory[c] = "live" => stack[c] # <<>>

JobOK ==
    job # None =>
        /\ job \in Job
        /\ memory[job.context] = "live"
        /\ job.at = "entered" <=> job.thread = None
        /\ job.thread = None => One(job.context)
        /\ job.thread # None =>
               /\ Two(job.context, job.thread)
               /\ job.thread \in heap[job.context]

IInv == TypeOK /\ StacksOK /\ JobOK

(* lua_settop(state, 1) on a stack that has a bottom, and lua_newthread. *)
LEMMA Bottom ==
    ASSUME NEW S, NEW q \in Seq(S), q # <<>>
    PROVE  SubSeq(q, 1, 1) = <<q[1]>>
<1>1. Len(q) \in Nat \ {0} /\ q[1] \in S
  BY EmptySeq
<1>2. SubSeq(q, 1, 1) \in Seq(S) /\ Len(SubSeq(q, 1, 1)) = 1 /\ SubSeq(q, 1, 1)[1] = q[1]
  BY <1>1, SubSeqProperties
<1>3. <<q[1]>> \in Seq(S) /\ Len(<<q[1]>>) = 1 /\ <<q[1]>>[1] = q[1]
  BY <1>1
<1>4. \A i \in 1..1 : SubSeq(q, 1, 1)[i] = <<q[1]>>[i]
  <2> SUFFICES ASSUME NEW i \in 1..1 PROVE SubSeq(q, 1, 1)[i] = <<q[1]>>[i]
    OBVIOUS
  <2>1. i = 1
    OBVIOUS
  <2> QED BY <2>1, <1>2, <1>3
<1> QED BY <1>2, <1>3, <1>4, SeqEqual

LEMMA Pushed ==
    ASSUME NEW x, NEW y
    PROVE  Append(<<x>>, y) = <<x, y>>
<1> DEFINE S == {x, y}
<1>1. <<x>> \in Seq(S) /\ Len(<<x>>) = 1 /\ <<x>>[1] = x /\ y \in S
  OBVIOUS
<1>2. /\ Append(<<x>>, y) \in Seq(S)
      /\ Len(Append(<<x>>, y)) = 2
      /\ Append(<<x>>, y)[1] = x
      /\ Append(<<x>>, y)[2] = y
  <2> HIDE DEF S
  <2> QED BY <1>1, AppendProperties
<1>3. /\ <<x, y>> \in Seq(S) /\ Len(<<x, y>>) = 2
      /\ <<x, y>>[1] = x /\ <<x, y>>[2] = y
  OBVIOUS
<1> DEFINE p == Append(<<x>>, y)
           q == <<x, y>>
<1> HIDE DEF S, p, q
<1>4. \A i \in 1..2 : p[i] = q[i]
  <2> SUFFICES ASSUME NEW i \in 1..2 PROVE p[i] = q[i]
    OBVIOUS
  <2>1. i = 1 \/ i = 2
    OBVIOUS
  <2>2. p[1] = q[1] /\ p[2] = q[2]
    BY <1>2, <1>3 DEF p, q
  <2> QED BY <2>1, <2>2
<1>5. p = q
  BY <1>2, <1>3, <1>4, SeqEqual DEF p, q
<1> QED BY <1>5 DEF p, q

(* The stack after lua_settop(state, 1). *)
LEMMA UnwoundFacts ==
    ASSUME IInv, NEW c \in Live, stack' = Unwound(c), UNCHANGED memory
    PROVE  /\ stack'[c] = <<Export>>
           /\ \A d \in Contexts \ {c} : stack'[d] = stack[d]
           /\ stack' \in [Contexts -> Seq(Threads \cup {Export})]
           /\ StacksOK'
<1>1. c \in Contexts /\ stack \in [Contexts -> Seq(Threads \cup {Export})]
  BY DEF Live, IInv, TypeOK
<1>2. SubSeq(stack[c], 1, 1) = <<Export>>
  <2>1. stack[c] \in Seq(Threads \cup {Export}) /\ stack[c] # <<>>
    BY <1>1 DEF IInv, StacksOK, Live
  <2>2. stack[c][1] = Export
    BY <1>1, <2>1 DEF IInv, StacksOK, One, Two
  <2> QED BY <2>1, <2>2, Bottom
<1>3. stack'[c] = <<Export>> /\ \A d \in Contexts \ {c} : stack'[d] = stack[d]
  BY <1>1, <1>2 DEF Unwound
<1>4. stack' \in [Contexts -> Seq(Threads \cup {Export})]
  <2>1. <<Export>> \in Seq(Threads \cup {Export})
    OBVIOUS
  <2> QED BY <1>1, <1>2, <2>1 DEF Unwound
<1>5. StacksOK'
  <2> SUFFICES ASSUME NEW d \in Contexts
               PROVE  /\ \/ stack'[d] = <<>> \/ stack'[d] = <<Export>>
                         \/ \E t \in Threads : stack'[d] = <<Export, t>>
                      /\ memory'[d] = "live" => stack'[d] # <<>>
    BY DEF StacksOK, One, Two
  <2>1. CASE d = c
    BY <1>3, <2>1
  <2>2. CASE d # c
    BY <1>3, <2>2 DEF IInv, StacksOK, One, Two
  <2> QED BY <2>1, <2>2
<1> QED BY <1>3, <1>4, <1>5

LEMMA InitHolds == Init => IInv
<1> SUFFICES ASSUME Init PROVE IInv
  OBVIOUS
<1> USE ProviderAssumption
<1>1. TypeOK
  BY DEF Init, TypeOK, NoResult
<1> QED BY <1>1 DEF Init, IInv, StacksOK, JobOK

(* Every way invoke returns unwinds the stack and ends the job. *)
LEMMA ReturnStep ==
    ASSUME IInv, job # None, NEW status \in 0..3, NEW flags \in {0, 1},
           NEW size \in Sizes, Returns(status, flags, size)
    PROVE  IInv'
<1>1. job.context \in Live
  BY DEF IInv, JobOK, Job, Live
<1>2. StacksOK' /\ stack' \in [Contexts -> Seq(Threads \cup {Export})]
  BY <1>1, UnwoundFacts DEF Returns
<1>3. TypeOK'
  BY <1>2 DEF Returns, IInv, TypeOK
<1> QED BY <1>2, <1>3 DEF Returns, IInv, JobOK

(* Steps that leave the stacks and the contexts alone. *)
LEMMA SameStacks ==
    ASSUME StacksOK, UNCHANGED <<memory, stack>>
    PROVE  StacksOK'
BY DEF StacksOK, One, Two

LEMMA InvStep ==
    ASSUME IInv, [Next]_vars
    PROVE  IInv'
<1> USE ProviderAssumption DEF IInv
<1>1. ASSUME NEW c \in Contexts, NEW m \in {"free", "making", "lost"},
             memory[c] # "live", memory' = [memory EXCEPT ![c] = m],
             UNCHANGED <<stack, heap, job, result>>
      PROVE  IInv'
  <2>1. TypeOK'
    BY <1>1 DEF TypeOK
  <2>2. StacksOK'
    BY <1>1 DEF TypeOK, StacksOK, One, Two
  <2>3. JobOK'
    BY <1>1 DEF TypeOK, JobOK, Job, One, Two
  <2> QED BY <2>1, <2>2, <2>3
<1>2. ASSUME NEW c \in Contexts, CreateBegins(c) \/ CreateFails(c) \/ CreateEscapes(c)
      PROVE  IInv'
  <2>1. memory[c] # "live"
    BY <1>2 DEF CreateBegins, CreateFails, CreateEscapes
  <2> QED BY <1>1, <1>2, <2>1 DEF CreateBegins, CreateFails, CreateEscapes
<1>3. ASSUME NEW c \in Contexts, CreateSucceeds(c) PROVE IInv'
  <2>1. <<Export>> \in Seq(Threads \cup {Export}) /\ <<Export>> # <<>>
    OBVIOUS
  <2>2. TypeOK'
    BY <1>3, <2>1 DEF CreateSucceeds, TypeOK
  <2>3. StacksOK'
    BY <1>3, <2>1 DEF CreateSucceeds, TypeOK, StacksOK, One, Two
  <2>4. JobOK'
    BY <1>3 DEF CreateSucceeds, TypeOK, JobOK, Job, One, Two
  <2> QED BY <2>2, <2>3, <2>4
<1>4. ASSUME NEW c \in Contexts, Destroy(c) PROVE IInv'
  <2>1. TypeOK'
    BY <1>4 DEF Destroy, TypeOK
  <2>2. StacksOK'
    BY <1>4 DEF Destroy, TypeOK, StacksOK, One, Two
  <2> QED BY <1>4, <2>1, <2>2 DEF Destroy, JobOK
<1>5. ASSUME NEW c \in Contexts, NEW capacity \in Sizes,
             Invoke(c, capacity)
      PROVE  IInv'
  <2>1. c \in Live /\ stack' = Unwound(c) /\ UNCHANGED memory
    BY <1>5 DEF Invoke
  <2>2. stack'[c] = <<Export>> /\ StacksOK'
        /\ stack' \in [Contexts -> Seq(Threads \cup {Export})]
    BY <2>1, UnwoundFacts
  <2>3. job' \in Job /\ job'.context = c /\ job'.thread = None /\ job'.at = "entered"
    BY <1>5 DEF Invoke, Job
  <2>4. TypeOK'
    <3>1. result' = [status |-> 0, flags |-> 0, size |-> 0, capacity |-> capacity]
      BY <1>5 DEF Invoke, NoResult
    <3>2. result' \in [status : 0..3, flags : {0, 1}, size : Sizes, capacity : Sizes]
      BY <3>1
    <3> QED BY <1>5, <2>2, <2>3, <3>2 DEF Invoke, TypeOK
  <2>5. JobOK'
    BY <1>5, <2>1, <2>2, <2>3 DEF Invoke, JobOK, One, Two, Live
  <2> QED BY <2>2, <2>4, <2>5
<1>6. ASSUME CreateRefused PROVE IInv'
  BY <1>6 DEF CreateRefused, vars, TypeOK, StacksOK, JobOK, Job, One, Two
<1>7. ASSUME InvokeRefused PROVE IInv'
  BY <1>7, SameStacks, SMTT(20) DEF InvokeRefused, TypeOK, JobOK, NoResult
<1>8. ASSUME NEW t \in Threads, CollectorStep(t) PROVE IInv'
  <2>1. TypeOK'
    BY <1>8 DEF CollectorStep, TypeOK, JobOK, Job
  <2>2. StacksOK'
    BY <1>8, SameStacks DEF CollectorStep
  <2>3. job.thread # None => job.thread \in Rooted(job.context)
    <3> SUFFICES ASSUME job.thread # None PROVE job.thread \in Rooted(job.context)
      OBVIOUS
    <3>1. stack[job.context] = <<Export, job.thread>> /\ job.thread \in Threads
      BY <1>8 DEF CollectorStep, JobOK, Job, Two
    <3>2. 2 \in 1..Len(stack[job.context]) /\ stack[job.context][2] = job.thread
      BY <3>1
    <3> QED BY <3>1, <3>2 DEF Rooted
  <2>4. JobOK'
    BY <1>8, <2>3 DEF CollectorStep, TypeOK, JobOK, Job, One, Two
  <2> QED BY <2>1, <2>2, <2>4
<1>9. ASSUME NEW t \in Threads, NewThread(t) PROVE IInv'
  <2> DEFINE c == job.context
  <2>1. c \in Contexts /\ job \in Job /\ One(c) /\ memory[c] = "live" /\ job.thread = None
    BY <1>9 DEF NewThread, At, JobOK, Job
  <2>2. Append(stack[c], t) = <<Export, t>>
    BY <2>1, Pushed DEF One
  <2>3. <<Export, t>> \in Seq(Threads \cup {Export}) /\ <<Export, t>> # <<>>
    OBVIOUS
  <2>4. stack' = [stack EXCEPT ![c] = <<Export, t>>]
    BY <1>9, <2>2 DEF NewThread
  <2>5. /\ job' \in Job /\ job'.context = c
        /\ job'.at = "prepared" /\ job'.thread = t
    BY <1>9, <2>1 DEF NewThread, Job
  <2>6. TypeOK'
    BY <1>9, <2>1, <2>3, <2>4, <2>5 DEF NewThread, TypeOK
  <2>7. StacksOK'
    <3>1. stack'[c] = <<Export, t>>
      BY <2>1, <2>4 DEF TypeOK
    <3>2. \A d \in Contexts \ {c} : stack'[d] = stack[d]
      BY <2>1, <2>4 DEF TypeOK
    <3>3. UNCHANGED memory
      BY <1>9 DEF NewThread
    <3> SUFFICES ASSUME NEW d \in Contexts
                 PROVE  /\ \/ stack'[d] = <<>> \/ One(d)' \/ \E u \in Threads : Two(d, u)'
                        /\ memory'[d] = "live" => stack'[d] # <<>>
      BY DEF StacksOK
    <3>4. CASE d = c
      BY <2>3, <3>1, <3>4 DEF Two
    <3>5. CASE d # c
      BY <3>2, <3>3, <3>5 DEF StacksOK, One, Two
    <3> QED BY <3>4, <3>5
  <2>8. t \in heap'[c] /\ stack'[c] = <<Export, t>>
    <3>1. stack'[c] = <<Export, t>>
      BY <2>1, <2>4 DEF TypeOK
    <3>2. t \in heap'[c]
      BY <1>9, <2>1 DEF NewThread, TypeOK
    <3> QED BY <3>1, <3>2
  <2>9. JobOK'
    BY <1>9, <2>1, <2>5, <2>8 DEF NewThread, JobOK, Two
  <2> QED BY <2>6, <2>7, <2>9
<1>10. ASSUME FirstResume PROVE IInv'
  BY <1>10, SameStacks DEF FirstResume, At, TypeOK, JobOK, Job, One, Two
<1>11. ASSUME NEW how \in {"boundary", "other", "error", "ok"}, NEW size \in Sizes,
              ResumeReturns(how, size)
       PROVE  IInv'
  BY <1>11, SameStacks DEF ResumeReturns, At, TypeOK, JobOK, Job, One, Two
<1>12. ASSUME Boundary PROVE IInv'
  <2> DEFINE c == job.context
  <2>1. job \in Job /\ stack[c] = <<Export, job.thread>> /\ job.thread \in Threads
        /\ job.thread \in heap[c] /\ c \in Contexts
    BY <1>12 DEF Boundary, At, JobOK, Job, Two
  <2>2. job.thread \in Rooted(c)
    <3>1. 2 \in 1..Len(stack[c]) /\ stack[c][2] = job.thread
      BY <2>1
    <3> QED BY <2>1, <3>1 DEF Rooted
  <2>3. job' \in Job /\ job'.context = c /\ job'.thread = job.thread
        /\ job'.at = "running"
    <3>1. job.suspensions + 1 \in 0..MaxSuspensions
      BY <1>12, <2>1 DEF Boundary, Job
    <3> QED BY <1>12, <2>1, <3>1 DEF Boundary, Job
  <2>4. heap' \in [Contexts -> SUBSET Threads] /\ job.thread \in heap'[c]
    BY <1>12, <2>1, <2>2 DEF Boundary, Collected, TypeOK
  <2>5. StacksOK'
    BY <1>12, SameStacks DEF Boundary
  <2>6. TypeOK'
    BY <1>12, <2>3, <2>4 DEF Boundary, TypeOK
  <2>7. JobOK'
    BY <1>12, <2>1, <2>3, <2>4 DEF Boundary, At, JobOK, Two
  <2> QED BY <2>5, <2>6, <2>7
<1>13. ASSUME OtherYield PROVE IInv'
  BY <1>13, ReturnStep DEF OtherYield, At
<1>14. ASSUME Failure PROVE IInv'
  <2>1. job # None /\ job.size \in Sizes
    BY <1>14 DEF Failure, At, JobOK, Job
  <2>2. PICK size \in Sizes : Returns(3, 1, size)
    BY <1>14, <2>1 DEF Failure
  <2> QED BY <2>1, <2>2, ReturnStep
<1>15. ASSUME Success PROVE IInv'
  <2>1. job # None /\ job.size \in Sizes
    BY <1>15 DEF Success, At, JobOK, Job
  <2>2. Returns(2, 0, 0) \/ Returns(0, 0, job.size)
    BY <1>15 DEF Success
  <2>3. 0 \in Sizes /\ 0 \in {0, 1} /\ 0 \in 0..3 /\ 2 \in 0..3
    OBVIOUS
  <2>4. CASE Returns(2, 0, 0)
    BY <2>1, <2>3, <2>4, ReturnStep
  <2>5. CASE Returns(0, 0, job.size)
    BY <2>1, <2>3, <2>5, ReturnStep
  <2> QED BY <2>2, <2>4, <2>5
<1>16. ASSUME InvokeEscapes PROVE IInv'
  BY <1>16, SameStacks DEF InvokeEscapes, TypeOK, JobOK
<1>17. ASSUME UNCHANGED vars PROVE IInv'
  BY <1>17 DEF vars, TypeOK, StacksOK, JobOK, Job, One, Two
<1> QED BY <1>2, <1>3, <1>4, <1>5, <1>6, <1>7, <1>8, <1>9, <1>10, <1>11, <1>12,
           <1>13, <1>14, <1>15, <1>16, <1>17
       DEF Next, InvocationStep

LEMMA Invariant == Spec => []IInv
BY InitHolds, InvStep, PTL DEF Spec

(* The variables keep their types, and no thread suspends too often. *)
THEOREM Types == Spec => []TypeOK
<1>1. IInv => TypeOK
  BY DEF IInv
<1> QED BY <1>1, Invariant, PTL

(* However invocations end, a live context keeps its export. *)
THEOREM ContextsStayUsable == Spec => []ExportIsKept
<1>1. IInv => ExportIsKept
  <2> SUFFICES ASSUME IInv, NEW c \in Live
               PROVE  stack[c] # <<>> /\ stack[c][1] = Export /\ Len(stack[c]) <= 2
    BY DEF ExportIsKept
  <2>1. One(c) \/ \E t \in Threads : Two(c, t)
    BY DEF IInv, StacksOK, Live
  <2>2. CASE One(c)
    BY <2>2 DEF One
  <2>3. ASSUME NEW t \in Threads, Two(c, t)
        PROVE  stack[c] # <<>> /\ stack[c][1] = Export /\ Len(stack[c]) <= 2
    BY <2>3 DEF Two
  <2> QED BY <2>1, <2>2, <2>3
<1> QED BY <1>1, Invariant, PTL

(* The collector never frees the thread of a running invocation. *)
THEOREM ThreadsStayRooted == Spec => []ThreadIsRooted
<1>1. IInv => ThreadIsRooted
  BY DEF IInv, JobOK, ThreadIsRooted, Two
<1> QED BY <1>1, Invariant, PTL

-----------------------------------------------------------------------------
LEMMA AnswerStep ==
    ASSUME TypeOK, TypeOK', AnswersFit, [Next]_vars
    PROVE  AnswersFit'
<1> USE ProviderAssumption
<1>1. ASSUME UNCHANGED result PROVE AnswersFit'
  BY <1>1 DEF AnswersFit
<1>2. ASSUME NEW status, NEW flags, NEW size \in Sizes,
             Returns(status, flags, size),
             size <= result.capacity,
             size > 0 => status = 0 \/ flags = 1
      PROVE  AnswersFit'
  BY <1>2 DEF Returns, AnswersFit, TypeOK
<1>3. 0 \in Sizes /\ result.capacity \in Nat /\ 0 <= result.capacity
  <2>1. result.capacity \in Sizes
    BY DEF TypeOK
  <2>2. Sizes \subseteq Nat
    OBVIOUS
  <2>3. result.capacity \in Nat
    BY <2>1, <2>2
  <2> QED BY <2>3
<1>4. ASSUME InvokeRefused \/ \E c \in Contexts, capacity \in Sizes : Invoke(c, capacity)
      PROVE  AnswersFit'
  <2>1. PICK status \in 0..3, capacity \in Sizes :
            result' = [status |-> status, flags |-> 0, size |-> 0, capacity |-> capacity]
    BY <1>3, <1>4 DEF InvokeRefused, Invoke, NoResult
  <2> QED BY <2>1 DEF AnswersFit
<1>5. ASSUME OtherYield PROVE AnswersFit'
  <2>1. Returns(3, 0, 0)
    BY <1>5 DEF OtherYield
  <2> QED BY <2>1, <1>2, <1>3
<1>6. ASSUME Failure PROVE AnswersFit'
  <2>1. job.size \in Sizes
    BY <1>6 DEF Failure, At, TypeOK, Job
  <2>2. CASE job.size <= result.capacity
    <3>1. Returns(3, 1, job.size)
      BY <1>6, <2>2 DEF Failure
    <3> QED BY <2>1, <2>2, <3>1, <1>2
  <2>3. CASE ~(job.size <= result.capacity)
    <3>1. Returns(3, 1, 0)
      BY <1>6, <2>3 DEF Failure
    <3> QED BY <3>1, <1>2, <1>3
  <2> QED BY <2>2, <2>3
<1>7. ASSUME Success PROVE AnswersFit'
  <2>1. job.size \in Sizes
    BY <1>7 DEF Success, At, TypeOK, Job
  <2>2. CASE job.size > result.capacity
    <3>1. Returns(2, 0, 0)
      BY <1>7, <2>2 DEF Success
    <3> QED BY <3>1, <1>2, <1>3
  <2>3. CASE ~(job.size > result.capacity)
    <3>1. Returns(0, 0, job.size)
      BY <1>7, <2>3 DEF Success
    <3>2. job.size \in Nat
      BY <2>1
    <3>3. job.size <= result.capacity
      BY <1>3, <2>3, <3>2
    <3> QED BY <2>1, <3>1, <3>3, <1>2
  <2> QED BY <2>2, <2>3
<1> QED BY <1>1, <1>4, <1>5, <1>6, <1>7
       DEF Next, InvocationStep, CreateBegins, CreateSucceeds, CreateFails,
           CreateEscapes, CreateRefused, Destroy, CollectorStep, NewThread,
           FirstResume, ResumeReturns, Boundary, InvokeEscapes, vars

(* No answer claims more bytes than the buffer it was given holds. *)
THEOREM NoAnswerOverruns == Spec => []AnswersFit
<1>1. Init => AnswersFit
  BY DEF Init, AnswersFit, NoResult
<1>2. TypeOK /\ TypeOK' /\ AnswersFit /\ [Next]_vars => AnswersFit'
  BY AnswerStep
<1> QED BY <1>1, <1>2, Types, PTL DEF Spec

-----------------------------------------------------------------------------
(* The coverage query leaves the provider alone: what was proved of the    *)
(* provider holds of the composition.                                      *)
THEOREM CoverageImplementsProvider == CoverageSpec => Spec
<1>1. ASSUME [CoverageNext]_<<vars, coverageVars>> PROVE [Next]_vars
  BY <1>1 DEF CoverageNext, vars
<1>2. CoverageInit => Init
  BY DEF CoverageInit
<1> QED BY <1>1, <1>2, PTL DEF CoverageSpec, Spec

(* The arithmetic of a buffer that holds a number of whole records. *)
LEMMA WholeRecords ==
    ASSUME NEW n \in Nat
    PROVE  (n * RecordSize) \div RecordSize = n
<1>1. RecordSize \in Nat /\ RecordSize > 1
  BY CoverageAssumption
<1> QED BY <1>1

(* What a probe answers when the host goes on. *)
QueryOK ==
    /\ records \in Nat
    /\ query.at = "probed" => query.answer \in {CoverageAnswer(0), CoverageRefused}
    /\ ProbesSuffice

LEMMA QueryStepKeeps ==
    ASSUME QueryOK, [CoverageNext]_<<vars, coverageVars>>
    PROVE  QueryOK'
<1>1. ASSUME UNCHANGED coverageVars PROVE QueryOK'
  BY <1>1 DEF QueryOK, ProbesSuffice, coverageVars, CoverageAnswer, Counted, Written
<1>2. ASSUME NEW c \in Contexts, Probe(c) PROVE QueryOK'
  BY <1>2 DEF Probe, QueryOK, ProbesSuffice, CoverageAnswer, Counted, Written
<1>3. ASSUME ProbeEnds PROVE QueryOK'
  BY <1>3 DEF ProbeEnds, QueryOK, ProbesSuffice, Idle
<1>4. ASSUME Ask PROVE QueryOK'
  <2> DEFINE first == query.answer
             size == first.required
  <2>1. /\ first \in {CoverageAnswer(0), CoverageRefused} /\ records \in Nat
        /\ size # MaxU32 /\ size > 0
    BY <1>4 DEF Ask, ProbeAccepted, QueryOK
  <2>2. CoverageRefused.required = 0
    BY DEF CoverageRefused, NoAnswer
  <2>3. first = CoverageAnswer(0)
    BY <2>1, <2>2
  <2>4. /\ ~(records > MaxU32 \/ Counted > MaxU32 \div RecordSize)
        /\ size = Counted * RecordSize
    BY <2>1, <2>3 DEF CoverageAnswer
  <2>5. Counted = records /\ size = records * RecordSize /\ size \div RecordSize = records
    BY <2>1, <2>4, WholeRecords, CoverageAssumption DEF Counted
  <2>6. Written(size) = records
    BY <2>1, <2>5 DEF Written
  <2>7. CoverageAnswer(size) = [status |-> 0, count |-> records, required |-> size,
                                written |-> records]
    BY <2>1, <2>4, <2>5, <2>6 DEF CoverageAnswer
  <2>8. PICK answer \in {CoverageAnswer(size), CoverageRefused} :
            query' = [at |-> "asked", capacity |-> size, answer |-> answer]
    BY <1>4 DEF Ask
  <2>9. records' = records
    BY <1>4 DEF Ask
  <2>10. CASE answer = CoverageRefused
    BY <2>1, <2>8, <2>9, <2>10 DEF QueryOK, ProbesSuffice, CoverageRefused, NoAnswer
  <2>11. CASE answer = CoverageAnswer(size)
    BY <2>1, <2>5, <2>7, <2>8, <2>9, <2>11 DEF QueryOK, ProbesSuffice
  <2> QED BY <2>8, <2>10, <2>11
<1> QED BY <1>1, <1>2, <1>3, <1>4 DEF CoverageNext, QueryStep

(* The capacity a probe reports is enough for the query that follows, for  *)
(* any number of records, any record size and any width of the counters.   *)
THEOREM ProbesAlwaysSuffice == CoverageSpec => []ProbesSuffice
<1>1. CoverageInit => QueryOK
  BY CoverageAssumption DEF CoverageInit, QueryOK, ProbesSuffice, Idle
<1>2. QueryOK => ProbesSuffice
  BY DEF QueryOK
<1> QED BY <1>1, <1>2, QueryStepKeeps, PTL DEF CoverageSpec
===============================================================================
