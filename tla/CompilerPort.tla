------------------------------ MODULE CompilerPort ------------------------------
(***************************************************************************)
(* The compiler port (compiler/compiler_port.zig): a process that reads    *)
(* framed requests from a stream, compiles each through one context of the *)
(* compiler host and writes an answer for each.  It is the only caller of  *)
(* its instance; where there is no port, an embedding host is.             *)
(***************************************************************************)
EXTENDS CompileJob

CONSTANT MaxAsked   \* bound: complete requests on the stream

ASSUME AskedAssumption == MaxAsked \in Nat

VARIABLES
    port,      \* where main is, or "absent"
    asked,     \* the complete requests read so far
    answers    \* what was written

portVars == <<port, asked, answers>>
allVars == <<slots, sessions, job, results, heap, feedback, trapped,
             port, asked, answers>>

Rejection == [of |-> 0, ok |-> FALSE]
Handle == sessions[1].handle

PortInit ==
    /\ Init
    /\ port \in {"absent", "starting"}
    /\ asked = <<>>
    /\ answers = <<>>

(* main reads the profile and the pack and creates its context, or exits.  *)
PortStarts ==
    /\ port = "starting"
    /\ \/ \E p \in Pairs : CreateContext(p) /\ port' = "reading"
       \/ port' = "ended" /\ UNCHANGED vars
    /\ UNCHANGED <<asked, answers>>

(* A complete request arrives, and compile is called. *)
PortReads(req) ==
    /\ port = "reading"
    /\ Len(asked) < MaxAsked
    /\ \E r \in Buffers :
         \/ CompileInvalidContext(Handle, req, r)
         \/ CompileRefused(Handle, req, r)
         \/ CompileStart(Handle, req, r)
    /\ port' = "compiling"
    /\ asked' = Append(asked, req)
    /\ UNCHANGED answers

(* A trap ends the process where it is. *)
PortCompiles ==
    /\ port = "compiling"
    /\ CompileStep
    /\ port' = IF trapped' # {} THEN "ended" ELSE port
    /\ UNCHANGED <<asked, answers>>

(* Mutant: only successful compiles are answered.                          *)
PortAnswersSuccesses(r) ==
    /\ port = "compiling"
    /\ results[r] # NoResult /\ results[r].status = Ok
    /\ ResultFree(r)
    /\ \/ /\ port' = "reading"
          /\ answers' = Append(answers, [of |-> Len(asked), ok |-> TRUE])
       \/ port' = "closing" /\ UNCHANGED answers
    /\ UNCHANGED asked

(* compile returned: its answer is written, unless writing fails, and its  *)
(* result and the request are freed. *)
PortAnswers(r) ==
    /\ port = "compiling"
    /\ results[r] # NoResult
    /\ ResultFree(r)
    /\ \/ /\ port' = "reading"
          /\ answers' = Append(answers, [of |-> Len(asked), ok |-> results[r].status = Ok])
       \/ port' = "closing" /\ UNCHANGED answers
    /\ UNCHANGED asked

(* Mutant: the stream is read on after a request that was cut short. *)
PortRejectsAndReads ==
    /\ port = "reading"
    /\ answers' = Append(answers, Rejection)
    /\ Len(answers) < MaxAsked
    /\ UNCHANGED <<slots, sessions, job, results, heap, feedback, trapped, port, asked>>

(* The stream ends inside a length or a request, or a length is over the   *)
(* limit: one answer says so and nothing is read after it, ... *)
PortRejects ==
    /\ port = "reading"
    /\ port' = "closing"
    /\ answers' = Append(answers, Rejection)
    /\ UNCHANGED <<slots, sessions, job, results, heap, feedback, trapped, asked>>

(* ... or the stream ends before a length, or reading, writing or an       *)
(* allocation fails. *)
PortStops ==
    /\ port = "reading"
    /\ port' = "closing"
    /\ UNCHANGED <<slots, sessions, job, results, heap, feedback, trapped, asked, answers>>

(* The defers of main. *)
PortCloses ==
    /\ port = "closing"
    /\ DestroyContext(Handle)
    /\ port' = "ended"
    /\ UNCHANGED <<asked, answers>>

PortWorks == PortCompiles \/ \E r \in Buffers : PortAnswers(r)

PortNext ==
    \/ port = "absent" /\ Next /\ UNCHANGED portVars
    \/ PortStarts
    \/ \E req \in Requests : PortReads(req)
    \/ PortWorks
    \/ PortRejects
    \/ PortStops
    \/ PortCloses

(* A process that has its request goes on: nothing it does until it has    *)
(* answered waits for anybody (reading and starting do).                   *)
PortSpec ==
    /\ PortInit
    /\ [][PortNext]_allVars
    /\ WF_allVars(PortWorks)

-----------------------------------------------------------------------------
(* A caller that sends requests one after another can tell which answer is *)
(* whose by counting: each complete request has one answer, in order, and  *)
(* a rejection is the last thing written; only a port that stopped may     *)
(* owe an answer, to its last request.                                     *)
AnswersInOrder ==
    /\ \A i \in 1..Len(answers) :
         \/ answers[i].of = i
         \/ answers[i] = Rejection /\ i = Len(answers) /\ port \in {"closing", "ended"}
    /\ port = "reading" => Len(answers) = Len(asked)
    /\ Len(answers) \in {Len(asked) - 1, Len(asked), Len(asked) + 1}
    /\ port = "ended" /\ trapped = {} => heap = {}

(* Every request the port read is answered, or the port ends: no failure   *)
(* of a compile leaves the caller waiting.                                 *)
RequestsAreAnswered == port = "compiling" ~> port # "compiling"
===============================================================================
