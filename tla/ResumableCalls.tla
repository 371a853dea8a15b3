---------------------------- MODULE ResumableCalls ----------------------------
(***************************************************************************)
(* What compiled functions promise a coroutine of the program: calls that  *)
(* can be suspended anywhere.  A coroutine is a stack of activations, each *)
(* at a site of its code.  An activation that calls waits until the one    *)
(* above it ends and leaves a value, and then goes on from the site of     *)
(* that call; a suspension changes no activation; an error ends the        *)
(* activations down to the innermost pcall.  There is no continuation id,  *)
(* no native stack and no scheduling here.                                 *)
(***************************************************************************)
EXTENDS Naturals, Sequences

CONSTANTS Protos, Code, Values

VARIABLES
    calls,   \* activations, innermost last: [fn, at, slot]
    life     \* "running", "suspended" or "dead"

vars == <<calls, life>>

Top == calls[Len(calls)]
Below == calls[Len(calls) - 1]
Without(n) == SubSeq(calls, 1, Len(calls) - n)

Activation(fn) == [fn |-> fn, at |-> IF fn \in Protos THEN 1 ELSE 0, slot |-> "none"]
Waiting(a) == [a EXCEPT !.slot = "pending"]
Given(a, v) == [a EXCEPT !.slot = v]

AtSite(a, kinds) == a.fn \in Protos /\ a.at \in DOMAIN Code[a.fn] /\ Code[a.fn][a.at] \in kinds

Init == calls \in {<<Activation(p)>> : p \in Protos} /\ life = "running"

(* The innermost activation calls: fns is the function and what it calls   *)
(* in turn before anything else happens.                                   *)
Call(fns) ==
    /\ life = "running"
    /\ Len(calls') = Len(calls) + Len(fns)
    /\ calls # <<>>
    /\ \/ AtSite(Top, {"call", "loop", "meta"}) /\ Top.slot = "none"
       \/ Top.fn = "plain"
    /\ calls' = Append(Without(1), Waiting(Top)) \o
                [i \in 1..Len(fns) |-> IF i = Len(fns) THEN Activation(fns[i])
                                                       ELSE Waiting(Activation(fns[i]))]
    /\ life' \in IF fns[Len(fns)] = "plain" THEN {"running", "suspended"} ELSE {"running"}

(* A callee that ends at once. *)
CallEnds(v) ==
    /\ life = "running"
    /\ calls # <<>>
    /\ AtSite(Top, {"call", "loop"})
    /\ Top.slot = "none"
    /\ calls' = Append(Without(1), Given(Top, v))
    /\ UNCHANGED life

(* The innermost activation ends; one that waits for the host ends when it *)
(* is resumed.                                                             *)
End(v) ==
    /\ life = "running" \/ (life = "suspended" /\ Top.fn = "plain")
    /\ Len(calls) > 1
    /\ Top.fn \in Protos => Top.at = Len(Code[Top.fn]) + 1 /\ Top.slot = "none"
    /\ Below.slot = "pending"
    /\ calls' = Append(Without(2), Given(Below, v))
    /\ life' = "running"

EndOfCoroutine ==
    /\ life = "running"
    /\ Len(calls) = 1
    /\ Top.at = Len(Code[Top.fn]) + 1
    /\ Top.slot = "none"
    /\ calls' = <<>>
    /\ life' = "dead"

(* The value is taken and the caller goes on; a loop calls again until its *)
(* iterator returns nil.                                                   *)
GoOn ==
    /\ life = "running"
    /\ calls # <<>>
    /\ AtSite(Top, {"call", "loop", "meta"})
    /\ Top.slot \in Values
    /\ calls' = Append(Without(1),
                   [Top EXCEPT !.at = IF Code[Top.fn][Top.at] = "loop" /\ Top.slot # "nil"
                                      THEN @ ELSE @ + 1,
                               !.slot = "none"])
    /\ UNCHANGED life

(* An interrupt, or an operation that calls no metamethod. *)
Pass ==
    /\ life = "running"
    /\ calls # <<>>
    /\ AtSite(Top, {"interrupt", "meta"})
    /\ Top.slot = "none"
    /\ calls' = Append(Without(1), [Top EXCEPT !.at = @ + 1])
    /\ UNCHANGED life

SuspendAtInterrupt ==
    /\ life = "running"
    /\ calls # <<>>
    /\ AtSite(Top, {"interrupt"})
    /\ life' = "suspended"
    /\ UNCHANGED calls

ResumeAtInterrupt ==
    /\ life = "suspended"
    /\ calls # <<>>
    /\ AtSite(Top, {"interrupt"})
    /\ life' = "running"
    /\ UNCHANGED calls

(* An error ends the activations above the innermost pcall. *)
Catch ==
    /\ life = "running"
    /\ \E h \in 1..Len(calls) :
          /\ calls[h].fn = "pcall"
          /\ \A i \in (h + 1)..Len(calls) : calls[i].fn # "pcall"
          /\ calls' = SubSeq(calls, 1, h)
    /\ UNCHANGED life

Fail ==
    /\ life = "running"
    /\ \A i \in 1..Len(calls) : calls[i].fn # "pcall"
    /\ calls' = <<>>
    /\ life' = "dead"

(* A compiled function, a C function that yields or calls a compiled one,  *)
(* or pcalls of these.                                                     *)
Chains ==
    {<<f>> : f \in Protos \cup {"plain"}}
    \cup {<<"pcall", f>> : f \in Protos \cup {"plain"}}
    \cup {<<"plain", p>> : p \in Protos}
    \cup {<<"pcall", "pcall", p>> : p \in Protos}

Next ==
    \/ \E fns \in Chains : Call(fns)
    \/ \E v \in Values : CallEnds(v) \/ End(v)
    \/ EndOfCoroutine \/ GoOn
    \/ Pass \/ SuspendAtInterrupt \/ ResumeAtInterrupt
    \/ Catch \/ Fail

Spec == Init /\ [][Next]_vars
=============================================================================
