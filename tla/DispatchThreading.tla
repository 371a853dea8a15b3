--------------------------- MODULE DispatchThreading --------------------------
(***************************************************************************)
(* control_flow.zig: in the body of a generated function, a branch back to *)
(* the dispatcher with a constant case becomes a branch to that case.      *)
(*                                                                         *)
(* A generated body is a loop around nested blocks, one for each case; a   *)
(* br_table on local 3 leaves the block of the case.  Setting local 3 to a *)
(* constant and branching to the loop is replaced when the case can be     *)
(* left for from there and does not read local 3 any more.                 *)
(***************************************************************************)
EXTENDS WasmSubset

Selector == 3  \* the local the dispatcher reads
Absent == 0

(* The labels open before each instruction, the end of each opener and of  *)
(* each else, and the else of each if.                                     *)
Nest(ops) ==
    LET Step(n, k) ==
            LET op == ops[k].op
                label == IF n.stack = <<>> THEN Absent ELSE Last(n.stack)
                seen == [n EXCEPT !.open = Append(@, n.stack)]
            IN  CASE op \in Openers -> [seen EXCEPT !.stack = Append(@, k)]
                  [] op = "else" -> [seen EXCEPT !.other[label] = k]
                  [] op = "end" /\ label # Absent ->
                        [seen EXCEPT !.stack = Front(@),
                                     !.ends = [i \in DOMAIN ops |->
                                        IF i \in {label, n.other[label]} THEN k ELSE @[i]]]
                  [] OTHER -> seen
    IN  FoldLeftDomain(Step, [stack |-> <<>>, open |-> <<>>,
                              ends |-> [i \in DOMAIN ops |-> Absent],
                              other |-> [i \in DOMAIN ops |-> Absent]], ops)

BranchLabel(stack, depth) ==
    IF depth = Len(stack) THEN Absent ELSE stack[Len(stack) - depth]

Destination(ops, nest, label) ==
    IF label = Absent THEN Len(ops) + 1
    ELSE IF ops[label].op = "loop" THEN label + 1
    ELSE nest.ends[label] + 1

(* Where control goes after instruction k. *)
Successors(ops, nest, k) ==
    LET op == ops[k]
        To(depth) == Destination(ops, nest, BranchLabel(nest.open[k], depth))
    IN  CASE op.op \in {"block", "loop", "end"} -> {k + 1}
          [] op.op = "if" ->
                {k + 1, IF nest.other[k] = Absent THEN nest.ends[k] + 1 ELSE nest.other[k] + 1}
          [] op.op = "else" -> {nest.ends[k] + 1}
          [] op.op = "br" -> {To(op.imm)}
          [] op.op = "br_table" -> {To(op.imm)} \cup {To(op.labels[i]) : i \in DOMAIN op.labels}
          [] op.op = "return" -> {}
          [] OTHER -> {k + 1}

Writes(op) == op.op \in {"set", "tee"} /\ op.imm = Selector
Reads(op) == op.op = "get" /\ op.imm = Selector

(* Mutant: only the instruction that reads local 3 needs it. *)
ReadAt(ops, nest) == {k \in DOMAIN ops : Reads(ops[k])}

(* The instructions from which local 3 may be read before it is written:   *)
(* from the reads, back along the edges until nothing is added.            *)
LiveAt(ops, nest) ==
    LET closure[live \in SUBSET DOMAIN ops] ==
            LET more == {k \in DOMAIN ops \ live :
                            ~Writes(ops[k]) /\ Successors(ops, nest, k) \cap live # {}}
            IN  IF more = {} THEN live ELSE closure[live \cup more]
    IN  closure[{k \in DOMAIN ops : Reads(ops[k])}]

(* The first case of the br_table at k: 0 for one that is given local 3,   *)
(* the page size for the first of the two tables of a paged dispatcher.    *)
NoBase == -1
SelectorBase(ops, k) ==
    IF k > 1 /\ Reads(ops[k - 1]) THEN 0
    ELSE IF /\ k >= 8 /\ k + 4 <= Len(ops)
            /\ Reads(ops[k - 7]) /\ ops[k - 6].op = "const" /\ ops[k - 6].imm > 0
            /\ ops[k - 5].op = "ge_u" /\ ops[k - 4].op = "if" /\ Reads(ops[k - 3])
            /\ ops[k - 2].op = "const" /\ ops[k - 2].imm = ops[k - 6].imm
            /\ ops[k - 1].op = "sub" /\ ops[k + 1].op = "else" /\ Reads(ops[k + 2])
            /\ ops[k + 3].op = "br_table" /\ ops[k + 4].op = "end"
    THEN ops[k - 6].imm
    ELSE NoBase

(* The dispatcher: its loop, the if between its pages, and the block that  *)
(* each case leaves.  Nothing but blocks may stand between the loop and    *)
(* the reading of the case, or skipping it would skip what it does.        *)
(* A table whose cases are not blocks makes the code give up the body;     *)
(* none is generated.                                                      *)
NoDispatch == [loop |-> Absent, page |-> Absent, cases |-> <<>>]

Dispatcher(ops, nest) ==
    LET tables == SelectSeq([k \in DOMAIN ops |-> k], LAMBDA k : ops[k].op = "br_table")
        Step(d, k) ==
            LET stack == nest.open[k]
                base == SelectorBase(ops, k)
                loop == IF \A i \in DOMAIN stack : ops[stack[i]].op # "loop" THEN Absent
                        ELSE stack[SelectLastInSeq(stack, LAMBDA s : ops[s].op = "loop")]
                start == IF base > 0 THEN k - 7
                         ELSE IF d.page # Absent /\ Contains(stack, d.page) THEN d.page - 3
                         ELSE k - 1
                suitable ==
                   /\ base # NoBase
                   /\ \A i \in DOMAIN stack :
                           ops[stack[i]].op = "if" /\ stack[i] # d.page
                               => base # 0 /\ stack[i] = k - 4
                   /\ loop # Absent /\ d.loop \in {Absent, loop}
                   /\ \A h \in loop + 1..start - 1 : ops[h].op = "block"
                table == [c \in base..base + Len(ops[k].labels) - 1 |->
                           BranchLabel(stack, ops[k].labels[c - base + 1])]
            IN  IF ~suitable THEN d
                ELSE [loop |-> loop, page |-> IF base # 0 THEN k - 4 ELSE d.page,
                      cases |-> table @@ d.cases]
    IN  FoldLeft(Step, NoDispatch, tables)

(* The branches that are replaced, each at the constant before it. *)
Replaceable(ops, nest, d, live) ==
    LET Case(k) == d.cases[ops[k].imm]
    IN  {k \in 1..Len(ops) - 2 :
            /\ d.loop # Absent
            /\ ops[k].op = "const" /\ ops[k + 1].op = "set" /\ ops[k + 1].imm = Selector
            /\ ops[k + 2].op = "br" /\ BranchLabel(nest.open[k + 2], ops[k + 2].imm) = d.loop
            /\ ops[k].imm \in DOMAIN d.cases
            /\ Destination(ops, nest, Case(k)) \notin live
            /\ Contains(nest.open[k + 2], Case(k))}

Threaded(ops) ==
    LET nest == Nest(ops)
        d == Dispatcher(ops, nest)
        replaced == Replaceable(ops, nest, d, LiveAt(ops, nest))
        Direct(k) == Br(Len(nest.open[k + 2])
                            - SelectInSeq(nest.open[k + 2], LAMBDA s : s = d.cases[ops[k].imm]))
    IN  IF replaced = {} THEN ops
        ELSE FlattenSeq([k \in DOMAIN ops |->
            IF k \in replaced THEN <<Direct(k)>>
            ELSE IF {k - 1, k - 2} \cap replaced # {} THEN <<>>
            ELSE <<ops[k]>>])
===============================================================================
