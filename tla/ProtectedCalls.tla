----------------------------- MODULE ProtectedCalls -----------------------------
(***************************************************************************)
(* Unwinding in the embed-v1 profile: a protected call is a nested call    *)
(* of the artifact through its host, an error is a code handed to the host *)
(* followed by a trap, and the host turns the trap into a status at the    *)
(* innermost nested call (profiles/embed/provider_bridge.c, hosts/js and   *)
(* hosts/wasmtime).  The artifact's own globals (the thunk to run) are not *)
(* unwound by a trap that passes through its frames.                       *)
(***************************************************************************)
EXTENDS Naturals, Sequences

CONSTANTS
    Codes,        \* the error codes the runtime raises
    Thunks,       \* what protected calls run
    MaxNesting,   \* bound: protected calls open at a time
    MaxStale,     \* bound: codes the host keeps at a time
    RaiseOutside, \* whether the runtime raises outside every protected call
    None,
    Failure       \* a trap nobody raised: stack exhaustion, unreachable, ...

ASSUME CodesAssumption ==
    /\ Codes \subseteq Nat \ {0}
    /\ None \notin Codes \cup {Failure} \cup Thunks
    /\ Failure \notin Codes
ASSUME BoundsAssumption ==
    MaxNesting \in Nat /\ MaxStale \in Nat \ {0} /\ RaiseOutside \in BOOLEAN

VARIABLES
    host,        \* "starting", "ready", "inside" an export, or "dropped"
    boundaries,  \* the open protected calls: their thunk and what they saved
    active,      \* active_thunk
    throwCodes,  \* the host's stack of codes set_throw pushed
    trapping,    \* the cause of the trap that is unwinding, or None
    answer       \* what the last protected call returned, or None

vars == <<host, boundaries, active, throwCodes, trapping, answer>>

Executing == host \in {"starting", "inside"} /\ trapping = None
Innermost == boundaries[Len(boundaries)]
Outer == SubSeq(boundaries, 1, Len(boundaries) - 1)

(* instantiateArtifact calls the initializer first. *)
Init ==
    /\ host = "starting"
    /\ boundaries = <<>>
    /\ active = None
    /\ throwCodes = <<>>
    /\ trapping = None
    /\ answer = None

(* luauc_runtime_v1_protected_call up to the thunk: the dispatcher the     *)
(* host calls runs the active thunk.                                       *)
ProtectedCall(t) ==
    /\ Executing
    /\ Len(boundaries) < MaxNesting
    /\ boundaries' = Append(boundaries, [thunk |-> t, saved |-> active])
    /\ active' = t
    /\ answer' = None
    /\ UNCHANGED <<host, throwCodes, trapping>>

(* Mutant: the outer thunk is not put back. *)
ThunkReturnsKeepingActive ==
    /\ Executing
    /\ boundaries # <<>>
    /\ boundaries' = Outer
    /\ answer' = 0
    /\ UNCHANGED <<host, active, throwCodes, trapping>>

ThunkReturns ==
    /\ Executing
    /\ boundaries # <<>>
    /\ boundaries' = Outer
    /\ active' = Innermost.saved
    /\ answer' = 0
    /\ UNCHANGED <<host, throwCodes, trapping>>

(* luauc_runtime_v1_raise: set_throw, then a trap. *)
Raise(c) ==
    /\ Executing
    /\ boundaries # <<>> \/ RaiseOutside
    /\ Len(throwCodes) < MaxStale
    /\ throwCodes' = Append(throwCodes, c)
    /\ trapping' = c
    /\ answer' = None
    /\ UNCHANGED <<host, boundaries, active>>

Trap ==
    /\ Executing
    /\ trapping' = Failure
    /\ answer' = None
    /\ UNCHANGED <<host, boundaries, active, throwCodes>>

(* Mutant: the code is read, and not removed. *)
CatchKeepsCode ==
    /\ trapping # None
    /\ boundaries # <<>>
    /\ throwCodes # <<>>
    /\ answer' = throwCodes[Len(throwCodes)]
    /\ boundaries' = Outer
    /\ active' = Innermost.saved
    /\ trapping' = None
    /\ UNCHANGED <<host, throwCodes>>

(* The host's protected_call catches a trap and has a code for it: the     *)
(* artifact's protected call returns the code.                             *)
Catch ==
    /\ trapping # None
    /\ boundaries # <<>>
    /\ throwCodes # <<>>
    /\ answer' = throwCodes[Len(throwCodes)]
    /\ throwCodes' = SubSeq(throwCodes, 1, Len(throwCodes) - 1)
    /\ boundaries' = Outer
    /\ active' = Innermost.saved
    /\ trapping' = None
    /\ UNCHANGED host

(* Mutant: a trap without a code is taken for a normal return. *)
RethrowAnswersZero ==
    /\ trapping # None
    /\ boundaries # <<>>
    /\ throwCodes = <<>>
    /\ boundaries' = Outer
    /\ active' = Innermost.saved
    /\ trapping' = None
    /\ answer' = 0
    /\ UNCHANGED <<host, throwCodes>>

(* It has none: the trap goes on, past the frame that saved the thunk. *)
Rethrow ==
    /\ trapping # None
    /\ boundaries # <<>>
    /\ throwCodes = <<>>
    /\ boundaries' = Outer
    /\ UNCHANGED <<host, active, throwCodes, trapping, answer>>

(* The trap leaves the artifact; a host drops an instance whose            *)
(* initializer failed, and may call any other export again.                *)
Escape ==
    /\ trapping # None
    /\ boundaries = <<>>
    /\ trapping' = None
    /\ host' = IF host = "starting" THEN "dropped" ELSE "ready"
    /\ UNCHANGED <<boundaries, active, throwCodes, answer>>

(* An export returns; after the initializer the host checks its codes. *)
ExportReturns ==
    /\ Executing
    /\ boundaries = <<>>
    /\ host' = IF host = "starting" /\ throwCodes # <<>>
               THEN "dropped" ELSE "ready"
    /\ answer' = None
    /\ UNCHANGED <<boundaries, active, throwCodes, trapping>>

CallExport ==
    /\ host = "ready"
    /\ host' = "inside"
    /\ UNCHANGED <<boundaries, active, throwCodes, trapping, answer>>

(* Another instance of the artifact, with globals and codes of its own. *)
Instantiate ==
    /\ host = "dropped"
    /\ host' = "starting"
    /\ active' = None
    /\ throwCodes' = <<>>
    /\ UNCHANGED <<boundaries, trapping, answer>>

Next ==
    \/ Instantiate
    \/ CallExport
    \/ \E t \in Thunks : ProtectedCall(t)
    \/ ThunkReturns
    \/ \E c \in Codes : Raise(c)
    \/ Trap
    \/ Catch
    \/ Rethrow
    \/ Escape
    \/ ExportReturns

Spec == Init /\ [][Next]_vars

-----------------------------------------------------------------------------
(* The variables keep their types. *)
TypeOK ==
    /\ host \in {"starting", "ready", "inside", "dropped"}
    /\ boundaries \in Seq([thunk : Thunks, saved : Thunks \cup {None}])
    /\ Len(boundaries) <= MaxNesting
    /\ active \in Thunks \cup {None}
    /\ throwCodes \in Seq(Codes)
    /\ Len(throwCodes) <= MaxStale
    /\ trapping \in Codes \cup {Failure, None}
    /\ answer \in Codes \cup {0, None}

(* While code runs inside a protected call, active_thunk is the thunk of   *)
(* the innermost one, and every call saved its caller's: whatever ended    *)
(* the calls in between, the dispatcher never runs another region's body.  *)
ActiveIsInnermost ==
    Executing /\ boundaries # <<>> =>
        /\ active = Innermost.thunk
        /\ \A i \in 2..Len(boundaries) : boundaries[i].saved = boundaries[i - 1].thunk

(* The host holds at most the code of the error that is unwinding: no      *)
(* code outlives the trap it was raised with.                              *)
CodesAreCurrent ==
    throwCodes = IF trapping \in Codes THEN <<trapping>> ELSE <<>>

(* A trap that nobody raised is never answered as if it were an error      *)
(* (docs/embedding.md: "Unexpected traps remain failures").                *)
TrapsRemainFailures ==
    [][trapping = Failure => answer' = None]_vars

(* Protected calls implement structured exceptions; a trap that unwinds    *)
(* is mapped to the failure of the whole call.                             *)
OpenThunks == [i \in 1..Len(boundaries) |-> boundaries[i].thunk]
Structured == INSTANCE Exceptions WITH
    regions <- IF trapping = Failure THEN <<>> ELSE OpenThunks,
    pending <- trapping

ImplementsExceptions == Structured!AbstractSpec
===============================================================================
