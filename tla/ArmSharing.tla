------------------------------- MODULE ArmSharing -----------------------------
(***************************************************************************)
(* shareIdenticalReturnArms of the linker: arms of generated bodies that   *)
(* differ only in i32 constants move to a helper function.                 *)
(*                                                                         *)
(* An arm is what the if on the state (local 0) guards in the block of a   *)
(* case.  It ends with a return, or by setting local 3 to a constant and   *)
(* branching; then the helper does what precedes that.  The helper gets    *)
(* the state, the constants that differ and those of the locals 2 to 4     *)
(* whose first mention is a read.  Local 2 is the base of the frame, which *)
(* the body loads again from the state when the arm may have changed it.   *)
(* How many bytes a helper saves is left out: any shape may be shared.     *)
(***************************************************************************)
EXTENDS DispatchThreading, FiniteSets

CONSTANTS
    MaxHoles,      \* i32 constants of an arm that is shared (32)
    MaxParameters  \* parameters of a helper (32)

ASSUME ArmAssumption == {MaxHoles, MaxParameters} \subseteq Nat

State == 0
Base == 2
Passed == <<Base, Selector, 4>>  \* the locals that an arm may use

Reload == <<Get(State), Bare("load"), Set(Base)>>

-------------------------------------------------------------------------------
(* Arms: [body, start, count, mode]; mode is how the arm ends and count    *)
(* spans what the helper does.                                             *)

ArmOps(codes, arm) == SubSeq(codes[arm.body].ops, arm.start, arm.start + arm.count - 1)

Guarded(ops, nest, f) ==
    /\ ops[f].op = "if" /\ f > 1 /\ ops[f - 1] = Get(State)
    /\ Len(nest.open[f]) >= 2
    /\ ops[Last(nest.open[f])].op = "block"
    /\ \E i \in 1..Len(nest.open[f]) - 1 : ops[nest.open[f][i]].op = "loop"

NoMode == "none"
ModeOf(arm) ==
    LET n == Len(arm)
    IN  IF n > 0 /\ arm[n].op = "return" THEN "value"
        ELSE IF /\ n >= 4 /\ arm[n].op = "br"
                /\ arm[n - 1] = Set(Selector) /\ arm[n - 2].op = "const"
        THEN "jump"
        ELSE NoMode

(* Which field the load reads is not compared, as in the code: a compiled  *)
(* function loads local 2 with emitReloadBase, from the base of the state, *)
(* and WasmSubset has that load alone.                                     *)
BaseSetsAreReloads(ops) ==
    \A k \in DOMAIN ops : ops[k].op \in {"set", "tee"} /\ ops[k].imm = Base =>
        /\ ops[k].op = "set" /\ k > 2
        /\ ops[k - 1].op = "load" /\ ops[k - 2] = Get(State)

HolesOf(ops) == SelectSeq([k \in DOMAIN ops |-> k], LAMBDA k : ops[k].op = "const")

Shareable(ops, mode) ==
    LET depth == Nesting(ops)
    IN  /\ Len(HolesOf(ops)) \in 1..MaxHoles
        /\ \A k \in DOMAIN ops :
            /\ ops[k].op \notin {"br_table", "call_indirect", "fconst"}
            /\ ops[k].op = "br" => ops[k].imm < depth[k]
            /\ mode = "jump" => ops[k].op # "return"
            /\ ops[k].op \in LocalOps => ops[k].imm # 1 /\ ops[k].imm <= 4
        /\ mode = "jump" => BaseSetsAreReloads(ops)

ArmsOf(codes, body) ==
    LET ops == codes[body].ops
        nest == Nest(ops)
        Arm(f) == SubSeq(ops, f + 1, nest.ends[f] - 1)
        Found(f) == LET mode == ModeOf(Arm(f))
                    IN  [body |-> body, start |-> f + 1, mode |-> mode,
                         count |-> IF mode = "jump" THEN Len(Arm(f)) - 3 ELSE Len(Arm(f))]
    IN  {arm \in {Found(f) : f \in {k \in DOMAIN ops : Guarded(ops, nest, k)}} :
            arm.mode # NoMode /\ Shareable(ArmOps(codes, arm), arm.mode)}

(* The arms that are one another up to their constants, two or more.       *)
ArmShapes(codes) ==
    LET arms == UNION {ArmsOf(codes, body) : body \in DOMAIN codes}
        Shape(arm) == <<arm.mode, [k \in 1..arm.count |->
                            LET op == ArmOps(codes, arm)[k]
                            IN  IF op.op = "const" THEN Bare("const") ELSE op]>>
    IN  {like \in {{other \in arms : Shape(other) = Shape(arm)} : arm \in arms} :
            Cardinality(like) >= 2}

-------------------------------------------------------------------------------
(* What a helper is passed. *)

Mentions(ops, local) ==
    SelectSeq(ops, LAMBDA op : op.op \in LocalOps /\ op.imm = local)
Uses(ops, local) == Mentions(ops, local) # <<>>
LiveIn(ops, local) == Uses(ops, local) /\ Mentions(ops, local)[1].op = "get"
SetsBase(ops) == \E k \in DOMAIN ops : ops[k].op \in {"set", "tee"} /\ ops[k].imm = Base

Hole(codes, arm, h) == LET ops == ArmOps(codes, arm) IN ops[HolesOf(ops)[h]].imm

(* The constants, by ordinal, in which the arms of a shape differ.         *)
Varying(codes, shape) ==
    LET ops == ArmOps(codes, CHOOSE arm \in shape : TRUE)
    IN  SelectSeq([h \in DOMAIN HolesOf(ops) |-> h],
                  LAMBDA h : Cardinality({Hole(codes, arm, h) : arm \in shape}) > 1)

LiveLocals(ops) == SelectSeq(Passed, LAMBDA local : LiveIn(ops, local))
OwnLocals(ops) == SelectSeq(Passed, LAMBDA local : Uses(ops, local) /\ ~LiveIn(ops, local))

ParameterCount(codes, shape) ==
    1 + Len(Varying(codes, shape)) + Len(LiveLocals(ArmOps(codes, CHOOSE arm \in shape : TRUE)))

-------------------------------------------------------------------------------
(* The helper of a shape, and the call that replaces an arm. *)

ArmHelper(codes, shape) ==
    LET arm == CHOOSE a \in shape : TRUE
        ops == ArmOps(codes, arm)
        holes == HolesOf(ops)
        varying == Varying(codes, shape)
        locals == LiveLocals(ops) \o OwnLocals(ops)
        Place(local) == Len(varying) + SelectInSeq(locals, LAMBDA l : l = local)
        Moved(k) ==
            IF ops[k].op = "const" /\ \E v \in DOMAIN varying : holes[varying[v]] = k
            THEN Get(CHOOSE v \in DOMAIN varying : holes[varying[v]] = k)
            ELSE IF ops[k].op \in LocalOps /\ Contains(locals, ops[k].imm)
            THEN Op(ops[k].op, Place(ops[k].imm))
            ELSE ops[k]
    IN  [host |-> FALSE,
         params |-> [p \in 1..ParameterCount(codes, shape) |-> "i32"],
         results |-> IF arm.mode = "value" THEN <<"i32">> ELSE <<>>,
         locals |-> [i \in DOMAIN OwnLocals(ops) |-> "i32"],
         ops |-> Append([k \in DOMAIN ops |-> Moved(k)], Bare("end"))]

ArmSite(codes, shape, arm, helper) ==
    LET ops == ArmOps(codes, arm)
        varying == Varying(codes, shape)
        live == LiveLocals(ops)
    IN  <<Get(State)>>
            \o [v \in DOMAIN varying |-> Const(Hole(codes, arm, varying[v]))]
            \o [i \in DOMAIN live |-> Get(live[i])]
            \o <<Call(helper)>>
            \o (IF arm.mode = "value" THEN <<Bare("return")>>
                ELSE IF SetsBase(ops) THEN Reload ELSE <<>>)

(* A body in which arms that are shared overlap is left as it is.          *)
Apart(cuts) ==
    {cut \in cuts : \A one, other \in {c \in cuts : c.body = cut.body} :
        one # other => one.start + one.count <= other.start \/ other.start + other.count <= one.start}
===============================================================================
