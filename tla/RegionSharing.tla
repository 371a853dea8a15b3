----------------------------- MODULE RegionSharing ----------------------------
(***************************************************************************)
(* regions.zig: straight-line regions that several generated bodies repeat *)
(* move to helper functions.                                               *)
(*                                                                         *)
(* A region leaves the operand stack as it finds it.  Two regions have one *)
(* shape when they differ only in i32 constants and in which locals they   *)
(* use.  The helper gets the locals a region reads before it writes them   *)
(* and the constants that differ, and returns the locals it writes.  Small *)
(* constants may be packed into words.  How many bytes a helper saves is   *)
(* left out: any shape may be shared, in any order.                        *)
(***************************************************************************)
EXTENDS WasmSubset, FiniteSets

CONSTANTS
    MinOps, MaxWindow,          \* instructions of a region (12 and 160)
    MaxLocals, MaxConstants,    \* locals and constants it may use (16 and 64)
    MaxLive, MaxWritten,        \* locals passed and returned (12 and 4)
    MaxPacked                   \* the widest constant that is packed (24 bits)

ASSUME RegionAssumption ==
    /\ {MinOps, MaxWindow, MaxLocals, MaxConstants, MaxLive, MaxWritten, MaxPacked} \subseteq Nat
    /\ MinOps > 0 /\ MaxPacked < Width

-------------------------------------------------------------------------------
(* Regions. *)

(* What an instruction takes from the operand stack and gives to it; those *)
(* without an effect end a region.                                         *)
Effects == [get |-> <<0, 1>>, const |-> <<0, 1>>, fconst |-> <<0, 1>>,
            set |-> <<1, 0>>, tee |-> <<1, 1>>, load |-> <<1, 1>>,
            add |-> <<2, 1>>, sub |-> <<2, 1>>, ge_u |-> <<2, 1>>, fadd |-> <<2, 1>>]
HasEffect(op, signatures) ==
    \/ op.op \in DOMAIN Effects
    \/ op.op = "call" /\ op.imm \in DOMAIN signatures
Effect(op, signatures) ==
    IF op.op = "call"
    THEN <<Len(signatures[op.imm].params), Len(signatures[op.imm].results)>>
    ELSE Effects[op.op]

(* The locals of a region by first use; live and written hold ordinals. *)
NoBinding == [locals |-> <<>>, live |-> {}, written |-> {}, constants |-> <<>>]
Ordinal(b, local) ==
    IF Contains(b.locals, local) THEN SelectInSeq(b.locals, LAMBDA l : l = local)
    ELSE Len(b.locals) + 1

Bind(b, op) ==
    IF op.op = "const" THEN [b EXCEPT !.constants = Append(@, op.imm)]
    ELSE IF op.op \notin LocalOps THEN b
    ELSE LET n == Ordinal(b, op.imm)
         IN  [b EXCEPT !.locals = IF n > Len(@) THEN Append(@, op.imm) ELSE @,
                       !.live = IF op.op = "get" /\ n \notin b.written THEN @ \cup {n} ELSE @,
                       !.written = IF op.op = "get" THEN @ ELSE @ \cup {n}]

Fits(b) ==
    /\ Len(b.constants) <= MaxConstants /\ Len(b.locals) <= MaxLocals
    /\ Cardinality(b.written) <= MaxWritten /\ Cardinality(b.live) <= MaxLive

Region(codes, site) == SubSeq(codes[site.body].ops, site.start, site.start + site.count - 1)
Binding(codes, site) == FoldLeft(Bind, NoBinding, Region(codes, site))

(* The counts of instructions from start on that make a region. *)
RegionsFrom(code, start, signatures) ==
    LET last == IF start + MaxWindow - 1 < Len(code.ops) THEN start + MaxWindow - 1 ELSE Len(code.ops)
        Step(w, op) ==
            IF ~w.open \/ ~HasEffect(op, signatures) \/ w.height < Effect(op, signatures)[1]
            THEN [w EXCEPT !.open = FALSE]
            ELSE LET height == w.height - Effect(op, signatures)[1] + Effect(op, signatures)[2]
                     b == Bind(w.binding, op)
                     next == [w EXCEPT !.height = height, !.binding = b, !.count = @ + 1]
                 IN  IF ~Fits(b) THEN [w EXCEPT !.open = FALSE]
                     ELSE IF height = 0 /\ next.count >= MinOps
                     THEN [next EXCEPT !.counts = Append(@, next.count)]
                     ELSE next
    IN  FoldLeft(Step, [open |-> TRUE, height |-> 0, count |-> 0, counts |-> <<>>,
                        binding |-> NoBinding],
                 SubSeq(code.ops, start, last)).counts

Sites(codes, signatures) ==
    FlattenSeq([body \in DOMAIN codes |->
        FlattenSeq([start \in DOMAIN codes[body].ops |->
            LET counts == RegionsFrom(codes[body], start, signatures)
            IN  [i \in DOMAIN counts |-> [body |-> body, start |-> start, count |-> counts[i]]]])])

(* A region up to its constants and the choice of its locals. *)
Normal(codes, site) ==
    LET ops == Region(codes, site)
        b == Binding(codes, site)
    IN  [k \in DOMAIN ops |->
            CASE ops[k].op = "const" -> <<"const">>
              [] ops[k].op \in LocalOps ->
                    <<ops[k].op, Ordinal(b, ops[k].imm), Types(codes[site.body])[ops[k].imm + 1]>>
              [] OTHER -> <<ops[k].op, ops[k].imm>>]

(* The shapes with three occurrences or more, each as its sites in order. *)
Shapes(codes, signatures) ==
    LET sites == Sites(codes, signatures)
        normals == [i \in DOMAIN sites |-> Normal(codes, sites[i])]
        Like(i) == {j \in DOMAIN sites : sites[j].count = sites[i].count /\ normals[j] = normals[i]}
    IN  {[n \in 1..Cardinality(like) |->
            sites[CHOOSE j \in like : Cardinality({h \in like : h < j}) = n - 1]] :
                like \in {s \in {Like(i) : i \in DOMAIN sites} : Cardinality(s) >= 3}}

(* The constants, by ordinal, in which some site differs from the first. *)
Variants(codes, shape) ==
    LET constants == [i \in DOMAIN shape |-> Binding(codes, shape[i]).constants]
    IN  {c \in DOMAIN constants[1] : \E i \in DOMAIN shape : constants[i][c] # constants[1][c]}

(* The occurrences that are replaced: none that overlaps an earlier one of *)
(* the shape or one that another helper took.  used holds instructions.    *)
Occupied(site) == {<<site.body, k>> : k \in site.start..site.start + site.count - 1}
Chosen(shape, used) ==
    FoldLeft(LAMBDA chosen, site :
                IF \/ Occupied(site) \cap used # {}
                   \/ /\ chosen # <<>> /\ Last(chosen).body = site.body
                      /\ Last(chosen).start + Last(chosen).count > site.start
                THEN chosen ELSE Append(chosen, site),
             <<>>, shape)

-------------------------------------------------------------------------------
(* Constants as arguments. *)

InOrder(S, n) == SelectSeq([i \in 1..n |-> i], LAMBDA i : i \in S)

PlainArguments(variants) ==
    [variants |-> variants, count |-> Cardinality(variants),
     word |-> [c \in variants |-> Cardinality({d \in variants : d < c})],
     minimum |-> [c \in variants |-> 0], bits |-> [c \in variants |-> Width],
     shift |-> [c \in variants |-> 0]]

BitsOf(range) ==
    CHOOSE b \in 1..Width : range < 2 ^ b /\ \A smaller \in 1..b - 1 : range >= 2 ^ smaller

PackedArguments(codes, sites, variants) ==
    LET constants == [i \in DOMAIN sites |-> Binding(codes, sites[i]).constants]
        Values(c) == {constants[i][c] : i \in DOMAIN sites}
        Narrow(c) == BitsOf(Max(Values(c)) - Min(Values(c)))
        Bits(c) == IF Narrow(c) > MaxPacked THEN Width ELSE Narrow(c)
        Place(a, c) ==
            LET full == a.used + Bits(c) > Width
                count == IF full THEN a.count + 1 ELSE a.count
                shift == IF full THEN 0 ELSE a.used
            IN  [a EXCEPT !.count = count, !.used = shift + Bits(c),
                          !.word = (c :> count - 1) @@ @, !.shift = (c :> shift) @@ @]
        placed == FoldLeft(Place, [count |-> 0, used |-> Width, word |-> <<>>, shift |-> <<>>],
                           InOrder(variants, Len(constants[1])))
    IN  [variants |-> variants, count |-> placed.count, word |-> placed.word,
         shift |-> placed.shift, bits |-> [c \in variants |-> Bits(c)],
         minimum |-> [c \in variants |->
                        IF Bits(c) = Width THEN 0 ELSE Min(Values(c))]]

-------------------------------------------------------------------------------
(* The call that replaces a region, and the helper it calls. *)

SiteOps(codes, site, arguments, helper) ==
    LET b == Binding(codes, site)
        n == Len(b.locals)
        live == InOrder(b.live, n)
        written == InOrder(b.written, n)
        Field(c) == ((b.constants[c] - arguments.minimum[c]) % (2 ^ Width)) * 2 ^ arguments.shift[c]
        Word(w) == MapThenSumSet(Field, {c \in arguments.variants : arguments.word[c] = w})
    IN  [i \in DOMAIN live |-> Get(b.locals[live[i]])]
            \o [w \in 1..arguments.count |-> Const(Word(w - 1))]
            \o <<Call(helper)>>
            \o [i \in DOMAIN written |-> Set(b.locals[written[Len(written) + 1 - i]])]

(* A constant that is an argument is read from its word: shifted, masked   *)
(* and moved back by the minimum, each only where it does something.       *)
Unpacked(c, arguments, first) ==
    <<Get(first + arguments.word[c])>>
        \o (IF arguments.shift[c] = 0 THEN <<>>
            ELSE <<Const(arguments.shift[c]), Bare("shr_u")>>)
        \o (IF arguments.bits[c] = Width THEN <<>>
            ELSE <<Const(2 ^ arguments.bits[c] - 1), Bare("and")>>)
        \o (IF arguments.minimum[c] = 0 THEN <<>>
            ELSE <<Const(arguments.minimum[c]), Bare("add")>>)

Helper(codes, site, arguments) ==
    LET b == Binding(codes, site)
        ops == Region(codes, site)
        n == Len(b.locals)
        live == InOrder(b.live, n)
        written == InOrder(b.written, n)
        others == InOrder((1..n) \ b.live, n)
        TypeOf(i) == Types(codes[site.body])[b.locals[i] + 1]
        Place(i) == IF i \in b.live THEN SelectInSeq(live, LAMBDA l : l = i) - 1
                    ELSE Len(live) + arguments.count + SelectInSeq(others, LAMBDA l : l = i) - 1
        ConstantsTo(k) == Cardinality({j \in 1..k : ops[j].op = "const"})
        Instruction(k) ==
            IF ops[k].op \in LocalOps THEN <<Op(ops[k].op, Place(Ordinal(b, ops[k].imm)))>>
            ELSE IF ops[k].op = "const" /\ ConstantsTo(k) \in arguments.variants
            THEN Unpacked(ConstantsTo(k), arguments, Len(live))
            ELSE <<ops[k]>>
    IN  [host |-> FALSE,
         params |-> [i \in DOMAIN live |-> TypeOf(live[i])]
                        \o [w \in 1..arguments.count |-> "i32"],
         results |-> [i \in DOMAIN written |-> TypeOf(written[i])],
         locals |-> [i \in DOMAIN others |-> TypeOf(others[i])],
         ops |-> FlattenSeq([k \in DOMAIN ops |-> Instruction(k)])
                    \o [i \in DOMAIN written |-> Get(Place(written[i]))]
                    \o <<Bare("end")>>]

(* The bodies with cuts [body, start, count, ops] replaced.                *)
Rewritten(codes, cuts) ==
    LET CutAt(body, k) == {cut \in cuts : <<body, k>> \in Occupied(cut)}
    IN  [body \in DOMAIN codes |->
            [codes[body] EXCEPT !.ops = FlattenSeq([k \in DOMAIN codes[body].ops |->
                IF CutAt(body, k) = {} THEN <<codes[body].ops[k]>>
                ELSE LET cut == CHOOSE c \in CutAt(body, k) : TRUE
                     IN  IF cut.start = k THEN cut.ops ELSE <<>>])]]
===============================================================================
