------------------------------- MODULE Exceptions -------------------------------
(***************************************************************************)
(* What the runtime expects of an unwinding mechanism (runtime/include/    *)
(* trap.h, docs/embedding.md), whatever it is built from: protected        *)
(* regions nest, an error reaches the innermost region with the code it    *)
(* was raised with, and a failure that nobody raised ends the whole call,  *)
(* as does an error raised outside every region.                           *)
(***************************************************************************)
EXTENDS Naturals, Sequences

CONSTANTS Codes, Thunks, None, Failure

VARIABLES
    regions,  \* the thunks whose protected regions are open, innermost last
    pending,  \* the code being raised, or Failure, or None
    answer    \* what the protected region that ended last reported, or None

abstractVars == <<regions, pending, answer>>

AbstractInit ==
    /\ regions = <<>>
    /\ pending = None
    /\ answer = None

Open(t) ==
    /\ pending = None
    /\ regions' = Append(regions, t)
    /\ answer' = None
    /\ UNCHANGED pending

Close ==
    /\ pending = None
    /\ regions # <<>>
    /\ regions' = SubSeq(regions, 1, Len(regions) - 1)
    /\ answer' = 0
    /\ UNCHANGED pending

Throw(c) ==
    /\ pending = None
    /\ pending' = c
    /\ answer' = None
    /\ UNCHANGED regions

(* A failure abandons every region at once. *)
Fail ==
    /\ pending = None
    /\ pending' = Failure
    /\ regions' = <<>>
    /\ answer' = None

(* Only a code that was raised is ever reported, and by one region. *)
Report ==
    /\ pending \in Codes
    /\ regions # <<>>
    /\ regions' = SubSeq(regions, 1, Len(regions) - 1)
    /\ answer' = pending
    /\ pending' = None

(* The whole call ends; no region reports anything. *)
End ==
    /\ pending # None
    /\ regions = <<>>
    /\ pending' = None
    /\ UNCHANGED <<regions, answer>>

Forget ==
    /\ pending = None
    /\ answer' = None
    /\ UNCHANGED <<regions, pending>>

AbstractNext ==
    \/ \E t \in Thunks : Open(t)
    \/ Close
    \/ \E c \in Codes : Throw(c)
    \/ Fail
    \/ Report
    \/ End
    \/ Forget

AbstractSpec == AbstractInit /\ [][AbstractNext]_abstractVars
===============================================================================
