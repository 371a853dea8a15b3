------------------------------ MODULE PackPruning -----------------------------
(***************************************************************************)
(* prunePackFunctions of the linker: which functions of the runtime pack   *)
(* a linked module keeps, and the pack with only those, renumbered.        *)
(*                                                                         *)
(* The functions of a pack are numbered as in WebAssembly: the imports     *)
(* first, from 0, then the bodies.  The roots are the imports, what the    *)
(* object imports, the exports the profile retains and the pack's table.   *)
(* From there a worklist follows the calls, one instruction at a time.     *)
(***************************************************************************)
EXTENDS Integers, Sequences, FiniteSets

CONSTANT Links  \* what may be linked: a pack, an object and the retained exports

Imported(l) == Len(l.pack.imports)
Count(l) == Len(l.pack.imports) + Len(l.pack.bodies)
Functions(l) == 0..Count(l) - 1
Ops(l, f) == l.pack.bodies[f - Imported(l) + 1].ops

ASSUME LinksAssumption == \A l \in Links :
    /\ Imported(l) \in Nat /\ Len(l.pack.bodies) \in Nat
    /\ \A f \in Functions(l) : f >= Imported(l) =>
            /\ Len(Ops(l, f)) \in Nat
            /\ \A k \in 1..Len(Ops(l, f)) : Ops(l, f)[k].op = "call" => Ops(l, f)[k].imm \in Nat
    /\ \A name \in DOMAIN l.pack.exports : l.pack.exports[name] \in Nat
    /\ l.pack.elements \in Seq(Nat)
    /\ Len(l.object.imports) \in Nat /\ Len(l.retained) \in Nat

VARIABLES
    link,     \* the link that is made
    phase,    \* "roots", "scan", "pruned", later phases of the linker, or "failed"
    root,     \* the next root to mark
    live,     \* the functions marked
    pending,  \* the functions marked, in the order they were
    cursor,   \* the function of pending that is scanned
    at,       \* the instruction of its body that is looked at
    pack,     \* the pack, pruned in the end
    failure   \* the error the link failed with

pruningVars == <<link, phase, root, live, pending, cursor, at, pack, failure>>

Missing == -1
Exported(exports, name) == IF name \in DOMAIN exports THEN exports[name] ELSE Missing

Roots(l) ==
    [i \in 1..Imported(l) |-> i - 1]
        \o [i \in 1..Len(l.object.imports) |-> Exported(l.pack.exports, l.object.imports[i].name)]
        \o [i \in 1..Len(l.retained) |-> Exported(l.pack.exports, l.retained[i])]
        \o l.pack.elements

Init ==
    /\ link \in Links
    /\ phase = "roots" /\ root = 1
    /\ live = {} /\ pending = <<>>
    /\ cursor = 1 /\ at = 1
    /\ pack = link.pack
    /\ failure = "none"

(* Mutant: a function that is marked is not scanned unless a root. *)
MarkUnscanned(index) ==
    /\ live' = live \cup {index}
    /\ pending' = IF index \in live \/ phase = "scan" THEN pending ELSE Append(pending, index)

MarkPackFunction(index) ==
    IF index \in live THEN UNCHANGED <<live, pending>>
    ELSE live' = live \cup {index} /\ pending' = Append(pending, index)

Fail(error) ==
    /\ phase' = "failed" /\ failure' = error
    /\ UNCHANGED <<link, root, live, pending, cursor, at, pack>>

MarkRoot ==
    /\ phase = "roots" /\ root <= Len(Roots(link))
    /\ Roots(link)[root] \in Functions(link)
    /\ MarkPackFunction(Roots(link)[root])
    /\ root' = root + 1
    /\ UNCHANGED <<link, phase, cursor, at, pack, failure>>

RootFails ==
    /\ phase = "roots" /\ root <= Len(Roots(link))
    /\ Roots(link)[root] \notin Functions(link)
    /\ Fail(IF Roots(link)[root] = Missing THEN "MissingRuntimeSymbol" ELSE "InvalidFunction")

RootsMarked ==
    /\ phase = "roots" /\ root > Len(Roots(link))
    /\ phase' = "scan"
    /\ UNCHANGED <<link, root, live, pending, cursor, at, pack, failure>>

Scanned == pending[cursor]
Scanning == phase = "scan" /\ cursor <= Len(pending)

(* An import has no body; a body that is read to its end is done. *)
NextPending ==
    /\ Scanning
    /\ Scanned >= Imported(link) => at > Len(Ops(link, Scanned))
    /\ cursor' = cursor + 1 /\ at' = 1
    /\ UNCHANGED <<link, phase, root, live, pending, pack, failure>>

ReadingOp == Scanning /\ Scanned >= Imported(link) /\ at <= Len(Ops(link, Scanned))
Read == Ops(link, Scanned)[at]

ScanOther ==
    /\ ReadingOp /\ Read.op # "call"
    /\ at' = at + 1
    /\ UNCHANGED <<link, phase, root, live, pending, cursor, pack, failure>>

ScanCall ==
    /\ ReadingOp /\ Read.op = "call" /\ Read.imm \in Functions(link)
    /\ MarkPackFunction(Read.imm)
    /\ at' = at + 1
    /\ UNCHANGED <<link, phase, root, cursor, pack, failure>>

ScanFails ==
    /\ ReadingOp /\ Read.op = "call" /\ Read.imm \notin Functions(link)
    /\ Fail("InvalidFunction")

(* The new number of a retained function: how many retained ones precede it. *)
Mapping(f) == Cardinality({g \in live : g < f})

Renumbered(code) ==
    [code EXCEPT !.ops = [k \in DOMAIN code.ops |->
        IF code.ops[k].op = "call" THEN [code.ops[k] EXCEPT !.imm = Mapping(code.ops[k].imm)]
        ELSE code.ops[k]]]

Pruned ==
    LET kept == SelectSeq([i \in 1..Len(link.pack.bodies) |-> i],
                          LAMBDA i : Imported(link) + i - 1 \in live)
        exports == link.pack.exports
    IN  [imports |-> link.pack.imports,
         bodies |-> [n \in DOMAIN kept |-> Renumbered(link.pack.bodies[kept[n]])],
         exports |-> [name \in {n \in DOMAIN exports : exports[n] \in live} |->
                            Mapping(exports[name])],
         elements |-> [i \in DOMAIN link.pack.elements |-> Mapping(link.pack.elements[i])]]

(* An export of the pack that names no function is found when the exports  *)
(* are renumbered, so only if something is removed.                        *)
Stray == \E name \in DOMAIN link.pack.exports : link.pack.exports[name] \notin Functions(link)
Removing == Len(pending) # Count(link)

Prune ==
    /\ phase = "scan" /\ cursor > Len(pending)
    /\ Removing => ~Stray
    /\ phase' = "pruned"
    /\ pack' = IF Removing THEN Pruned ELSE pack
    /\ UNCHANGED <<link, root, live, pending, cursor, at, failure>>

PruneFails ==
    /\ phase = "scan" /\ cursor > Len(pending)
    /\ Removing /\ Stray
    /\ Fail("InvalidExport")

Next ==
    \/ MarkRoot \/ RootFails \/ RootsMarked
    \/ NextPending \/ ScanOther \/ ScanCall \/ ScanFails
    \/ Prune \/ PruneFails

Spec == Init /\ [][Next]_pruningVars

-------------------------------------------------------------------------------
(* Properties. *)

RootSet(l) == {Roots(l)[r] : r \in 1..Len(Roots(l))}
Calls(l, f) ==
    IF f < Imported(l) THEN {}
    ELSE {Ops(l, f)[k].imm : k \in {j \in 1..Len(Ops(l, f)) : Ops(l, f)[j].op = "call"}}
Closed(l, S) == RootSet(l) \subseteq S /\ \A f \in S : Calls(l, f) \subseteq S

(* What is retained is what the roots reach and nothing else: once the     *)
(* scan is over, the live functions hold every root and every function     *)
(* that a live function calls, and no smaller set does.                    *)
RetainedIsReachable ==
    phase = "pruned" =>
        /\ Closed(link, live)
        /\ \A S \in SUBSET Functions(link) : Closed(link, S) => live \subseteq S
===============================================================================
