----------------------------- MODULE MCCompileJob -----------------------------
(* Instances of CompilerPort for TLC: two profiles, one with an import and a *)
(* feature; requests of one and two modules, with and without plans.       *)
EXTENDS CompilerPort, TLC

CONSTANTS p, q

MCNeeds == p :> [imports |-> 1, features |-> 0]
           @@ q :> [imports |-> 0, features |-> 1]

Plain == [inlined |-> FALSE, hostNamed |-> FALSE]
Inlined == [inlined |-> TRUE, hostNamed |-> FALSE]
HostNamed == [inlined |-> FALSE, hostNamed |-> TRUE]
Request(pair, modules, imports, features) ==
    [pair |-> pair, modules |-> modules, imports |-> imports,
     features |-> features, coverage |-> 0, bytes |-> 1, functions |-> 2]

MCRequests ==
    {Request(p, <<Plain, Plain>>, 1, 1),
     Request(p, <<Inlined, Plain>>, 1, 0),
     Request(q, <<Plain, HostNamed>>, 0, 1),
     Request(q, <<Plain>>, 0, 0)}

MCUsages == {[size |-> 1, functions |-> 1], [size |-> 1, functions |-> 2],
             [size |-> 2, functions |-> 1]}
MCLinks == {[size |-> 1, functions |-> 2], [size |-> 2, functions |-> 1],
            [size |-> 1, functions |-> 3]}
===============================================================================
