----------------------------- MODULE ModuleCache ------------------------------
(***************************************************************************)
(* What the static module registry promises the modules of a program: a    *)
(* cache of one value per module.  A module is run only when nothing is    *)
(* cached for it, only a run that is still in progress may publish a value *)
(* or withdraw one, and a value is never replaced by another in one step.  *)
(* Hence a value published by the last run in progress stays for good.     *)
(***************************************************************************)
CONSTANTS Modules, Entry, Results, Empty

VARIABLES
    cache,    \* the cached value of each module, or Empty
    running   \* the modules a run of which is in progress, or suspended

vars == <<cache, running>>

Init ==
    /\ cache = [m \in Modules |-> Empty]
    /\ running = {Entry}

(* After a step a module may go on running, in another run of it. *)
MayEnd(m) == running' \in {running, running \ {m}}

Begin(m) ==
    /\ cache[m] = Empty
    /\ running' = running \cup {m}
    /\ UNCHANGED cache

Publish(m, v) ==
    /\ m \in running
    /\ cache[m] = Empty
    /\ cache' = [cache EXCEPT ![m] = v]
    /\ MayEnd(m)

Withdraw(m) ==
    /\ m \in running
    /\ cache' = [cache EXCEPT ![m] = Empty]
    /\ MayEnd(m)

End(m) ==
    /\ m \in running
    /\ running' = running \ {m}
    /\ UNCHANGED cache

(* The program ends, in the middle of any number of runs. *)
Close ==
    /\ running' = {}
    /\ UNCHANGED cache

Next ==
    \/ \E m \in Modules :
          \/ Begin(m)
          \/ \E v \in Results : Publish(m, v)
          \/ Withdraw(m)
          \/ End(m)
    \/ Close

Spec == Init /\ [][Next]_vars
=============================================================================
