------------------------------ MODULE WasmSubset ------------------------------
(***************************************************************************)
(* The instructions of WebAssembly that the linker's passes look at, and   *)
(* what running them does.  It is what the passes must preserve, so it is  *)
(* written from the semantics of WebAssembly and shares no definition with *)
(* them: a block is left through the label it pushed, never through the    *)
(* tables the linker builds.                                               *)
(*                                                                         *)
(* A function is a record [host, params, results, locals, ops]; the first  *)
(* three lists hold types.  Only the body of a function without host has   *)
(* instructions.  A host function notes its arguments; as it may move the  *)
(* stack of the state, what is loaded from the state changes with it.      *)
(***************************************************************************)
EXTENDS Integers, Sequences, SequencesExt

CONSTANT Width  \* the bits of an i32 (32)

ASSUME WidthAssumption == Width \in Nat \ {0}

-------------------------------------------------------------------------------
(* Instructions. *)

Op(op, imm) == [op |-> op, imm |-> imm, labels |-> <<>>]
BrTable(labels, default) == [op |-> "br_table", imm |-> default, labels |-> labels]

Const(n) == Op("const", n)
FConst(n) == Op("fconst", n)
Get(l) == Op("get", l)
Set(l) == Op("set", l)
Call(f) == Op("call", f)
Br(d) == Op("br", d)
Bare(name) == Op(name, 0)

Openers == {"block", "loop", "if"}
LocalOps == {"get", "set", "tee"}

-------------------------------------------------------------------------------
(* Values and loaded functions. *)

I32(n) == [type |-> "i32", v |-> n % (2 ^ Width)]
F64(n) == [type |-> "f64", v |-> n]
Types(code) == code.params \o code.locals

(* The instructions between an opener and its end, found by counting. *)
Nesting(ops) ==
    LET depth[k \in 0..Len(ops)] ==
            IF k = 0 THEN 0
            ELSE depth[k - 1] + (IF ops[k].op \in Openers THEN 1
                                 ELSE IF ops[k].op = "end" THEN -1 ELSE 0)
    IN  [k \in 0..Len(ops) |-> depth[k]]

Loaded(code) ==
    LET depth == Nesting(code.ops)
        EndOf(s) == CHOOSE k \in s + 1..Len(code.ops) :
                        /\ depth[k] = depth[s] - 1
                        /\ \A j \in s + 1..k - 1 : depth[j] # depth[s] - 1
        Elses(s) == {k \in s + 1..EndOf(s) : code.ops[k].op = "else" /\ depth[k] = depth[s]}
    IN  [code EXCEPT !.ops =
            [k \in DOMAIN code.ops |->
                [op |-> code.ops[k].op, imm |-> code.ops[k].imm, labels |-> code.ops[k].labels,
                 end |-> IF code.ops[k].op \in Openers THEN EndOf(k) ELSE 0,
                 else |-> IF code.ops[k].op # "if" \/ Elses(k) = {} THEN 0
                          ELSE CHOOSE e \in Elses(k) : TRUE]]]

-------------------------------------------------------------------------------
(* A machine: the frames of the calls that run, what the host noted, where *)
(* the stack of the state is, and how the run ended.  "invalid" is a       *)
(* module that validation rejects.                                         *)

Frame(code, f, arguments) ==
    [fn |-> f, pc |-> 1, stack |-> <<>>, labels |-> <<>>,
     locals |-> arguments \o [i \in DOMAIN code.locals |->
                                IF code.locals[i] = "i32" THEN I32(0) ELSE F64(0)]]

Started(program, input) ==
    [frames |-> <<Frame(program.code[program.entry], program.entry, <<I32(1), I32(input)>>)>>,
     log |-> <<>>, base |-> 1, status |-> "running"]

Rejected(m) == [m EXCEPT !.status = "invalid", !.frames = <<>>]

Below(s, n) == SubSeq(s, 1, Len(s) - n)
TopOf(s, n) == SubSeq(s, Len(s) - n + 1, Len(s))
TypesOf(values) == [i \in DOMAIN values |-> values[i].type]

Put(m, fr) == [m EXCEPT !.frames = Append(Front(@), fr)]
Advance(fr) == [fr EXCEPT !.pc = @ + 1]
Push(fr, value) == [Advance(fr) EXCEPT !.stack = Append(@, value)]

Binary(name, a, b) ==
    CASE name = "add" -> I32(a.v + b.v)
      [] name = "sub" -> I32(a.v - b.v)
      [] name = "ge_u" -> I32(IF a.v >= b.v THEN 1 ELSE 0)
      [] name = "shr_u" -> I32(a.v \div (2 ^ b.v))
      [] name = "and" -> I32(a.v % (b.v + 1))     \* the masks are 2^n - 1
      [] name = "fadd" -> F64(a.v + b.v)
BinaryOps == {"add", "sub", "ge_u", "shr_u", "and", "fadd"}

Return(program, m, fr) ==
    LET results == program.code[fr.fn].results
        values == TopOf(fr.stack, Len(results))
        callers == Front(m.frames)
    IN  IF Len(fr.stack) < Len(results) \/ TypesOf(values) # results THEN Rejected(m)
        ELSE IF callers = <<>>
        THEN [m EXCEPT !.frames = <<>>, !.status = "done", !.log = Append(@, values)]
        ELSE [m EXCEPT !.frames =
                Append(Front(callers), [Last(callers) EXCEPT !.stack = @ \o values])]

Branch(program, m, fr, d) ==
    IF d = Len(fr.labels) THEN Return(program, m, fr)
    ELSE LET at == fr.labels[Len(fr.labels) - d]
             opener == program.code[fr.fn].ops[at]
         IN  Put(m, IF opener.op = "loop"
                    THEN [fr EXCEPT !.pc = at + 1, !.labels = Below(@, d)]
                    ELSE [fr EXCEPT !.pc = opener.end + 1, !.labels = Below(@, d + 1)])

Invoke(program, m, fr, f) ==
    LET code == program.code[f]
        n == Len(code.params)
        arguments == TopOf(fr.stack, n)
        caller == [Advance(fr) EXCEPT !.stack = Below(@, n)]
    IN  IF Len(fr.stack) < n \/ TypesOf(arguments) # code.params THEN Rejected(m)
        ELSE IF code.host THEN [Put(m, caller) EXCEPT !.log = Append(@, arguments), !.base = @ + 1]
        ELSE [Put(m, caller) EXCEPT !.frames = Append(@, Frame(code, f, arguments))]

(* One instruction of the innermost frame. *)
Execute(program, m) ==
    LET fr == Last(m.frames)
        code == program.code[fr.fn]
        op == code.ops[fr.pc]
        top == Last(fr.stack)
        popped == [fr EXCEPT !.stack = Front(@)]
    IN  CASE op.op = "const" -> Put(m, Push(fr, I32(op.imm)))
          [] op.op = "fconst" -> Put(m, Push(fr, F64(op.imm)))
          [] op.op = "slot" -> Put(m, Push(fr, I32(program.slot)))
          [] op.op = "load" ->
                IF top.type # "i32" THEN Rejected(m) ELSE Put(m, Push(popped, I32(m.base)))
          [] op.op = "get" -> Put(m, Push(fr, fr.locals[op.imm + 1]))
          [] op.op \in {"set", "tee"} ->
                IF top.type # Types(code)[op.imm + 1] THEN Rejected(m)
                ELSE Put(m, [Advance(IF op.op = "set" THEN popped ELSE fr)
                                EXCEPT !.locals[op.imm + 1] = top])
          [] op.op \in BinaryOps ->
                LET a == fr.stack[Len(fr.stack) - 1]
                IN  IF {a.type, top.type} # {IF op.op = "fadd" THEN "f64" ELSE "i32"}
                    THEN Rejected(m)
                    ELSE Put(m, Push([fr EXCEPT !.stack = Below(@, 2)], Binary(op.op, a, top)))
          [] op.op \in {"block", "loop"} -> Put(m, [Advance(fr) EXCEPT !.labels = Append(@, fr.pc)])
          [] op.op = "if" ->
                Put(m, IF top.v # 0 THEN [Advance(popped) EXCEPT !.labels = Append(@, fr.pc)]
                       ELSE IF op.else # 0
                       THEN [popped EXCEPT !.pc = op.else + 1, !.labels = Append(@, fr.pc)]
                       ELSE [popped EXCEPT !.pc = op.end + 1])
          [] op.op = "else" ->
                Put(m, [fr EXCEPT !.pc = code.ops[Last(fr.labels)].end + 1, !.labels = Front(@)])
          [] op.op = "end" ->
                IF fr.labels = <<>> THEN Return(program, m, fr)
                ELSE Put(m, [Advance(fr) EXCEPT !.labels = Front(@)])
          [] op.op = "br" -> Branch(program, m, fr, op.imm)
          [] op.op = "br_table" ->
                Branch(program, m, popped,
                       IF top.v < Len(op.labels) THEN op.labels[top.v + 1] ELSE op.imm)
          [] op.op = "return" -> Return(program, m, fr)
          [] op.op = "call" -> Invoke(program, m, fr, op.imm)
          [] op.op = "call_indirect" -> Invoke(program, m, popped, program.table[top.v + 1])
===============================================================================
