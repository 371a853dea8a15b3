------------------------------- MODULE MCLinker -------------------------------
(***************************************************************************)
(* Links for Linker.  Generated bodies have the layout of the lowering     *)
(* driver (driver.zig): a loop, a block for each case and one around them, *)
(* the table, and for each case its end and its arm under an if on the     *)
(* state, which is never null.                                             *)
(***************************************************************************)
EXTENDS Linker

I == "i32"
F == "f64"
Function(params, results, locals, ops) ==
    [host |-> FALSE, params |-> params, results |-> results, locals |-> locals,
     ops |-> Append(ops, Bare("end"))]
Host(type) == [host |-> TRUE, params |-> <<type>>, results |-> <<>>, locals |-> <<>>, ops |-> <<>>]

(* A pack: invoke is retained by the profile, note and notef are imported  *)
(* by objects, unused and what only it calls goes, two functions that call *)
(* each other stay because one is in the table.                            *)
PackBodies == <<
    Function(<<I, I>>, <<I>>, <<>>, <<Get(0), Get(1), Bare("slot"), Bare("call_indirect")>>),
    Function(<<I>>, <<>>, <<>>, <<Get(0), Call(4)>>),
    Function(<<I>>, <<>>, <<>>, <<Get(0), Call(0)>>),
    Function(<<I, I>>, <<>>, <<>>, <<Get(1), Call(6)>>),
    Function(<<I>>, <<>>, <<>>, <<Get(0), Call(0)>>),
    Function(<<F>>, <<>>, <<>>, <<Get(0), Call(1)>>),
    Function(<<I>>, <<>>, <<>>, <<Get(0), Call(9)>>),
    Function(<<I>>, <<>>, <<>>, <<Get(0), Call(8)>>)>>

Pack == [imports |-> <<Host(I), Host(F)>>, bodies |-> PackBodies, elements |-> <<8>>,
         exports |-> [invoke |-> 2, unused |-> 3, note |-> 5, notef |-> 7]]

Note == [name |-> "note", params |-> <<I, I>>, results |-> <<>>]
NoteF == [name |-> "notef", params |-> <<F>>, results |-> <<>>]

Object(functions) ==
    [imports |-> <<Note, NoteF>>, functions |-> functions,
     elements |-> [i \in DOMAIN functions |-> i + 1], program |-> 2]
LinkOf(object) == [pack |-> Pack, object |-> object, retained |-> <<"invoke">>]

-------------------------------------------------------------------------------
(* Generated bodies.  Local 1 is the argument, 2 the base of the frame, 3  *)
(* the case, 4 is scratch that no arm leaves to another, y and z an        *)
(* integer and a float.                                                            *)

Failed == 7
Page == 2

FlatTable(n) == <<Get(3), BrTable([i \in 1..n |-> i - 1], n)>>
PagedTable(n) ==
    <<Get(3), Const(Page), Bare("ge_u"), Bare("if"),
        Get(3), Const(Page), Bare("sub"), BrTable([i \in 1..n - Page |-> Page + i], n + 1),
      Bare("else"),
        Get(3), BrTable([i \in 1..Page |-> i], n + 1),
      Bare("end")>>

(* Arm(i, loop): the arm of case i - 1, given the depth of the loop. *)
Generated(n, Table1(_), Arm(_, _), locals) ==
    Function(<<I, I>>, <<I>>, locals,
        Reload \o <<Const(0), Set(3), Bare("loop")>>
            \o [i \in 1..n + 1 |-> Bare("block")]
            \o Table1(n)
            \o FlattenSeq([i \in 1..n |->
                    <<Bare("end"), Get(0), Bare("if")>> \o Arm(i, n + 2 - i) \o <<Bare("end")>>])
            \o <<Const(Failed), Bare("return"), Bare("end"), Bare("end"), Const(Failed)>>)

YZ == <<I, I, I, I, F>>
ZY == <<I, I, I, F, I>>

NoteOps(c) == <<Get(0), Const(c), Call(0)>>
Added(d, y) == <<Get(y), Const(d), Bare("add"), Set(y)>>
Repeated(c, d, y) == NoteOps(c) \o Added(d, y)
Mixed(c, d, y, z) == Repeated(c, d, y) \o <<Get(z), FConst(1), Bare("fadd"), Set(z)>>
Jump(case, loop) == <<Const(case), Set(3), Br(loop)>>
Either(l, a, b, loop) ==
    <<Get(l), Bare("if"), Const(a), Set(3), Bare("else"), Const(b), Set(3), Bare("end"), Br(loop)>>
Answer(y, z) == <<Get(z), Call(1), Get(y), Bare("return")>>

(* Three repeated regions whose constants pack; forward jumps. *)
ForwardArm(i, loop) ==
    CASE i = 1 -> Repeated(1, 0, 5) \o Jump(1, loop)
      [] i = 2 -> Repeated(2, 3, 5) \o Either(1, 2, 3, loop)
      [] i = 3 -> Repeated(3, 6, 5) \o Jump(3, loop)
      [] i = 4 -> Answer(5, 6)

(* A jump inside an if, a jump back, and constants at the ends of i32. *)
BackwardArm(i, loop) ==
    CASE i = 1 -> Repeated(1, -16, 5) \o <<Get(1), Bare("if")>> \o Jump(2, loop + 1)
                    \o <<Bare("end")>> \o Jump(1, loop)
      [] i = 2 -> Repeated(2, 15, 5) \o <<Const(1), Set(1)>> \o Jump(0, loop)
      [] i = 3 -> Repeated(2, 0, 5) \o Answer(5, 6)

(* The case is read after it was set: by the arm that is left for, or by   *)
(* the dispatcher once more when the arm does not set it on every path.    *)
ReadingArm(i, loop) ==
    CASE i = 1 -> NoteOps(1) \o Jump(1, loop)
      [] i = 2 -> <<Get(1), Bare("if")>> \o Jump(2, loop + 1) \o <<Bare("end")>>
                    \o <<Const(1), Set(1), Br(loop)>>
      [] i = 3 -> NoteOps(2) \o <<Get(3), Bare("return")>>

(* Repetitions that follow each other, so that regions overlap. *)
RepeatingArm(i, loop) ==
    CASE i = 1 -> FlattenSeq([c \in 1..6 |-> NoteOps(c)]) \o Jump(1, loop)
      [] i = 2 -> Answer(5, 6)

(* Regions that differ only in the types of their locals. *)
Copies(a, b) == <<Get(a), Set(b), Get(b), Set(a), Get(a), Set(b)>>
CopyingArm(i, loop) == Copies(5, 6) \o Copies(7, 8) \o Copies(6, 5) \o Answer(5, 7)

(* Arms that differ in constants: those that return and use the base, a    *)
(* local they set on every path and a branch inside; those that go on with *)
(* a new base; and those with an arm inside.                               *)
NoteBase == <<Get(0), Get(2), Call(0)>>
ValueArm(c) ==
    NoteBase \o <<Const(c), Set(4), Get(2), Bare("if"), Bare("block"), Br(0), Bare("end"),
                  Const(1), Set(4), Bare("end"), Get(4), Bare("return")>>
JumpArm(c) == NoteBase \o <<Const(c), Set(4), Get(0), Get(4), Call(0)>> \o Reload
NestingArm(c) ==
    <<Bare("block"), Get(0), Bare("if"), Const(c), Bare("return"), Bare("end"), Bare("end"),
      Const(c), Bare("return")>>

Returning(Arm(_), i, loop) == IF i = 1 THEN Either(1, 1, 2, loop) ELSE Arm(i + 1)
Going(Arm(_), i, loop) ==
    IF i = 3 THEN NoteBase \o <<Get(2), Bare("return")>> ELSE Arm(i) \o Jump(i, loop)

(* Arms that no helper can take: one that branches out of itself, one that *)
(* goes on or returns, one that leaves another base.                       *)
EscapingArm(c) == <<Get(0), Bare("if"), Br(1), Bare("end")>> \o NoteOps(c) \o <<Const(c), Bare("return")>>
EndingArm(c) == NoteOps(c) \o <<Get(0), Bare("if"), Const(c), Bare("return"), Bare("end")>>
RebasingArm(c) == NoteOps(c) \o <<Const(c), Set(2)>>

(* One region in each of three bodies, over locals in another order; each  *)
(* body calls the next.                                                    *)
SharingArm(c, y, z, next) ==
    Mixed(c, 2 * c, y, z) \o <<Get(z), Call(1), Get(y)>>
        \o (IF next = 0 THEN <<>> ELSE <<Get(0), Get(1), Call(next), Bare("add")>>)
        \o <<Bare("return")>>

Simple == Object(<<Function(<<I, I>>, <<I>>, <<>>, NoteOps(3) \o <<Get(1)>>)>>)
Objects == {
    Object(<<Generated(4, FlatTable, ForwardArm, YZ)>>),
    Object(<<Generated(4, PagedTable, ForwardArm, YZ)>>),
    Object(<<Generated(3, FlatTable, BackwardArm, YZ)>>),
    Object(<<Generated(3, PagedTable, BackwardArm, YZ)>>),
    Object(<<Generated(3, FlatTable, ReadingArm, YZ)>>),
    Object(<<Generated(3, PagedTable, ReadingArm, YZ)>>),
    Object(<<Generated(2, FlatTable, RepeatingArm, YZ)>>),
    Object(<<Generated(1, FlatTable, CopyingArm, <<I, I, I, I, I, F, F>>)>>),
    Object(<<Generated(1, FlatTable, LAMBDA i, loop : SharingArm(1, 5, 6, 3), YZ),
             Generated(1, FlatTable, LAMBDA i, loop : SharingArm(2, 6, 5, 4), ZY),
             Generated(1, FlatTable, LAMBDA i, loop : SharingArm(3, 5, 6, 0), YZ)>>)}

ArmObjects ==
    LET With(Arm(_, _)) == Object(<<Generated(3, FlatTable, Arm, <<I, I, I>>)>>)
    IN  {With(LAMBDA i, loop : Returning(ValueArm, i, loop)),
         With(LAMBDA i, loop : Returning(NestingArm, i, loop)),
         With(LAMBDA i, loop : Returning(EscapingArm, i, loop)),
         With(LAMBDA i, loop : Going(JumpArm, i, loop)),
         With(LAMBDA i, loop : Going(EndingArm, i, loop)),
         With(LAMBDA i, loop : Going(RebasingArm, i, loop))}

(* Links that the linker refuses, and one whose pack is all retained. *)
Refused == {
    LinkOf([Simple EXCEPT !.imports[1].name = "absent"]),
    LinkOf([Simple EXCEPT !.imports[1].params = <<I>>]),
    LinkOf([Simple EXCEPT !.functions = [i \in 1..6 |-> Simple.functions[1]]]),
    [LinkOf(Simple) EXCEPT !.pack.elements = <<99>>],
    [LinkOf(Simple) EXCEPT !.pack.exports.unused = 99],
    [LinkOf(Simple) EXCEPT !.pack.bodies[8].ops[2].imm = 99]}

MCLinks ==
    {LinkOf(object) : object \in Objects \cup ArmObjects} \cup Refused
        \cup {[LinkOf(Simple) EXCEPT !.retained = <<"invoke", "unused">>]}
===============================================================================
