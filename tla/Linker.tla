-------------------------------- MODULE Linker --------------------------------
(***************************************************************************)
(* The linker: link of linker.zig from the parsed pack and object to the   *)
(* module it emits.  The pack is pruned (PackPruning), the object's calls  *)
(* and table entries are resolved, the generated bodies are threaded       *)
(* (DispatchThreading) and repeated regions move to helpers                *)
(* (RegionSharing).  What the object and the whole pack mean together is   *)
(* run first and the emitted module last, with the same input.             *)
(***************************************************************************)
EXTENDS PackPruning, ArmSharing, RegionSharing

CONSTANTS
    Inputs,        \* what the program is called with
    MaxHelpers,    \* how many helpers are made (a bound of the model)
    MaxFunctions   \* Limits.max_functions

VARIABLES
    input,    \* the input of both runs
    program,  \* what is run: first what is meant, then the emitted module
    meant,    \* the run of what is meant
    final,    \* the run of the emitted module
    bodies,   \* the generated functions as the passes leave them
    shapes,   \* the shapes of arms, then of regions, that could be shared
    used,     \* the instructions that helpers of regions took
    cuts,     \* the arms, then the regions, that calls replace
    helpers   \* the helpers

linkerVars == <<input, program, meant, final, bodies, shapes, used, cuts, helpers>>
vars == <<pruningVars, linkerVars>>

Idle == [frames |-> <<>>, log |-> <<>>, base |-> 0, status |-> "idle"]

Program(codes, table, entry, slot) ==
    [code |-> [f \in 0..Len(codes) - 1 |-> Loaded(codes[f + 1])],
     table |-> table, entry |-> entry, slot |-> slot]

-------------------------------------------------------------------------------
(* What is meant: the object's functions after all of the pack's. *)

Calling(code, Callee(_)) ==
    [code EXCEPT !.ops = [k \in DOMAIN code.ops |->
        IF code.ops[k].op = "call" THEN [code.ops[k] EXCEPT !.imm = Callee(@)] ELSE code.ops[k]]]

Meaningful(l) == Missing \notin RootSet(l)
Meaning(l) ==
    LET imports == l.object.imports
        Callee(f) == IF f < Len(imports) THEN l.pack.exports[imports[f + 1].name]
                     ELSE Count(l) + f - Len(imports)
    IN  Program(l.pack.imports \o l.pack.bodies
                    \o [i \in DOMAIN l.object.functions |-> Calling(l.object.functions[i], Callee)],
                l.pack.elements \o [i \in DOMAIN l.object.elements |-> Callee(l.object.elements[i])],
                l.pack.exports[l.retained[1]],
                Len(l.pack.elements) + SelectInSeq(l.object.elements, LAMBDA f : f = l.object.program) - 1)

LinkInit ==
    /\ Init
    /\ input \in Inputs
    /\ program = IF Meaningful(link) THEN Meaning(link) ELSE <<>>
    /\ meant = IF Meaningful(link) THEN Started(program, input) ELSE Idle
    /\ final = Idle
    /\ bodies = link.object.functions
    /\ shapes = {} /\ used = {} /\ cuts = {} /\ helpers = <<>>

RunMeant ==
    /\ meant.status = "running"
    /\ meant' = Execute(program, meant)
    /\ UNCHANGED <<pruningVars, input, program, final, bodies, shapes, used, cuts, helpers>>

PruneStep ==
    /\ meant.status # "running"
    /\ Next
    /\ UNCHANGED linkerVars

-------------------------------------------------------------------------------
(* resolve and applyRelocations. *)

PackCodes == pack.imports \o pack.bodies
ObjectImports == link.object.imports

FunctionMap(f) ==
    IF f < Len(ObjectImports) THEN Exported(pack.exports, ObjectImports[f + 1].name)
    ELSE Len(PackCodes) + f - Len(ObjectImports)

Mismatched(i) ==
    LET code == PackCodes[FunctionMap(i - 1) + 1]
    IN  code.params # ObjectImports[i].params \/ code.results # ObjectImports[i].results

ResolveError ==
    IF \E i \in DOMAIN ObjectImports : Mismatched(i) THEN "TypeMismatch"
    ELSE IF Len(PackCodes) + Len(bodies) > MaxFunctions THEN "ResourceLimit"
    ELSE "none"

Resolve ==
    /\ phase = "pruned" /\ ResolveError = "none"
    /\ phase' = "relocated"
    /\ bodies' = [i \in DOMAIN bodies |-> Calling(bodies[i], FunctionMap)]
    /\ UNCHANGED <<link, root, live, pending, cursor, at, pack, failure>>
    /\ UNCHANGED <<input, program, meant, final, shapes, used, cuts, helpers>>

ResolveFails ==
    /\ phase = "pruned" /\ ResolveError # "none"
    /\ Fail(ResolveError)
    /\ UNCHANGED linkerVars

TableBase == Len(pack.elements)
Table == pack.elements \o [i \in DOMAIN link.object.elements |-> FunctionMap(link.object.elements[i])]
ProgramSlot ==
    TableBase + SelectInSeq(link.object.elements, LAMBDA f : f = link.object.program) - 1

-------------------------------------------------------------------------------
(* emit. *)

FirstHelper == Len(PackCodes) + Len(bodies)
RoomForHelper == Len(helpers) < MaxHelpers /\ FirstHelper + Len(helpers) < MaxFunctions
Cut(site, ops) == [body |-> site.body, start |-> site.start, count |-> site.count, ops |-> ops]

FindArms ==
    /\ phase = "relocated"
    /\ phase' = "arms"
    /\ shapes' = ArmShapes(bodies)
    /\ UNCHANGED <<link, root, live, pending, cursor, at, pack, failure>>
    /\ UNCHANGED <<input, program, meant, final, bodies, used, cuts, helpers>>

ShareArm ==
    /\ phase = "arms" /\ RoomForHelper
    /\ \E shape \in shapes :
        /\ ParameterCount(bodies, shape) <= MaxParameters
        /\ shapes' = shapes \ {shape}
        /\ helpers' = Append(helpers, ArmHelper(bodies, shape))
        /\ cuts' = cuts \cup {Cut(arm, ArmSite(bodies, shape, arm, FirstHelper + Len(helpers))) :
                                arm \in shape}
    /\ UNCHANGED <<pruningVars, input, program, meant, final, bodies, used>>

ReplaceArms ==
    /\ phase = "arms"
    /\ phase' = "shared"
    /\ bodies' = Rewritten(bodies, Apart(cuts))
    /\ shapes' = {} /\ cuts' = {}
    /\ UNCHANGED <<link, root, live, pending, cursor, at, pack, failure>>
    /\ UNCHANGED <<input, program, meant, final, used, helpers>>

ThreadBodies ==
    /\ phase = "shared"
    /\ phase' = "threaded"
    /\ bodies' = [i \in DOMAIN bodies |-> [bodies[i] EXCEPT !.ops = Threaded(@)]]
    /\ UNCHANGED <<link, root, live, pending, cursor, at, pack, failure>>
    /\ UNCHANGED <<input, program, meant, final, shapes, used, cuts, helpers>>

Signatures ==
    LET codes == PackCodes \o bodies \o helpers
    IN  [f \in 0..Len(codes) - 1 |-> [params |-> codes[f + 1].params, results |-> codes[f + 1].results]]

FindRegions ==
    /\ phase = "threaded"
    /\ phase' = "regions"
    /\ shapes' = Shapes(bodies, Signatures)
    /\ UNCHANGED <<link, root, live, pending, cursor, at, pack, failure>>
    /\ UNCHANGED <<input, program, meant, final, bodies, used, cuts, helpers>>

ShareRegion ==
    /\ phase = "regions" /\ RoomForHelper
    /\ \E shape \in shapes :
        LET sites == Chosen(shape, used)
            variants == Variants(bodies, shape)
        IN  /\ Len(sites) >= 3
            /\ \E arguments \in {PlainArguments(variants), PackedArguments(bodies, sites, variants)} :
                /\ helpers' = Append(helpers, Helper(bodies, sites[1], arguments))
                /\ cuts' = cuts \cup
                    {Cut(sites[i], SiteOps(bodies, sites[i], arguments, FirstHelper + Len(helpers))) :
                        i \in DOMAIN sites}
                /\ used' = used \cup UNION {Occupied(sites[i]) : i \in DOMAIN sites}
    /\ UNCHANGED <<pruningVars, input, program, meant, final, bodies, shapes>>

Emit ==
    /\ phase = "regions"
    /\ phase' = "emitted"
    /\ program' = Program(PackCodes \o Rewritten(bodies, cuts) \o helpers,
                          Table, pack.exports[link.retained[1]], ProgramSlot)
    /\ final' = Started(program', input)
    /\ UNCHANGED <<link, root, live, pending, cursor, at, pack, failure>>
    /\ UNCHANGED <<input, meant, bodies, shapes, used, cuts, helpers>>

RunLinked ==
    /\ final.status = "running"
    /\ final' = Execute(program, final)
    /\ UNCHANGED <<pruningVars, input, program, meant, bodies, shapes, used, cuts, helpers>>

LinkNext ==
    \/ RunMeant \/ PruneStep
    \/ Resolve \/ ResolveFails
    \/ FindArms \/ ShareArm \/ ReplaceArms
    \/ ThreadBodies \/ FindRegions \/ ShareRegion \/ Emit
    \/ RunLinked

LinkSpec == LinkInit /\ [][LinkNext]_vars

-------------------------------------------------------------------------------
(* Properties. *)

(* The emitted module does what the object and the whole pack mean: it     *)
(* validates, calls the host with the same values in the same order and    *)
(* answers the same.                                                       *)
LinkedModuleBehaves ==
    phase = "emitted" =>
        /\ final.status \in {"running", meant.status}
        /\ IsPrefix(final.log, meant.log)
        /\ final.status = "done" => final.log = meant.log
===============================================================================
