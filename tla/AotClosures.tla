------------------------------ MODULE AotClosures ------------------------------
(***************************************************************************)
(* Closures and captured variables of compiled code: the helpers that make *)
(* closures, capture by helper calls of one capture each, read and write   *)
(* upvalues and close them (runtime/src/call_frame.cpp), over the runs of  *)
(* one module's initializer, which require_static may run again after a    *)
(* failure.                                                                *)
(*                                                                         *)
(* A variable captured by reference is a cell: an open cell aliases a      *)
(* register of a live frame, a closed one holds the value.  A function     *)
(* whose upvalues are never written has a template in the constants of its *)
(* parent, and its closure is shared as long as what it would capture is   *)
(* what the template holds.                                                *)
(***************************************************************************)
EXTENDS Naturals, Sequences, FiniteSets

CONSTANTS
    Root,         \* the proto of the module's chunk
    Children,     \* the other protos of the module
    Parent,       \* the proto each is a direct child of
    Site,         \* the one closure instruction of each: destination, captures
    Shared,       \* those made by DUPCLOSURE: they have a template
    FrameSize,    \* maxstacksize
    Data,         \* values that are no functions
    MaxRuns, MaxDepth, MaxClosures, MaxCells   \* bounds

Registers == 0..(FrameSize - 1)
Nups(p) == IF p = Root THEN 0 ELSE Len(Site[p].captures)

Kinds == {"val", "ref", "upval"}
Captures == [kind : Kinds, source : Nat]

ASSUME ProtosAssumption ==
    /\ Root \notin Children
    /\ Children \cap Nat = {}
    /\ Parent \in [Children -> Children \cup {Root}]
    /\ Shared \subseteq Children
    /\ FrameSize \in Nat \ {0}
    /\ {MaxRuns, MaxClosures, MaxCells} \subseteq Nat
    /\ MaxDepth \in Nat \ {0}
ASSUME SitesAssumption ==
    /\ Site \in [Children -> [dest : Registers, captures : Seq(Captures)]]
    /\ \A c \in Children : \A i \in 1..Len(Site[c].captures) :
         LET capture == Site[c].captures[i]
         IN  /\ capture.kind = "upval" => capture.source \in 1..Nups(Parent[c])
             /\ capture.kind # "upval" => capture.source \in Registers
             /\ c \in Shared => capture.kind # "ref"

(* A variable captured by value is never written once it has its value:    *)
(* the compiler captures it so for that reason.  (A closure that captures  *)
(* itself is the value of its variable.)                                   *)
ByValue(p) ==
    {r \in Registers : \E c \in Children : \E i \in 1..Nups(c) :
        /\ Parent[c] = p /\ Site[c].dest # r
        /\ Site[c].captures[i] = [kind |-> "val", source |-> r]}

VARIABLES
    runs,         \* attempts to run the initializer; each has an environment
    initialized,  \* one of them returned
    frames,       \* the closures of the active calls
    stack,        \* the registers of each
    closures,     \* the closures: a template is named by its proto, 0 is the chunk's
    cells,        \* the UpVals
    pending,      \* a closure instruction between two of its captures
    meant         \* history: what each published closure should have captured

vars == <<runs, initialized, frames, stack, closures, cells, pending, meant>>

Depth == Len(frames)
Levels == 1..MaxDepth

Nil == [type |-> "nil", of |-> 0]
Datum(d) == [type |-> "data", of |-> d]
Function(c) == [type |-> "function", of |-> c]
Cell(i) == [type |-> "upval", of |-> i]

NextClosure == Cardinality(DOMAIN closures \ Shared)
Published == DOMAIN meant
Constants == {Nil} \cup {Datum(d) : d \in Data}

NoPending == [child |-> Root, made |-> 0, captured |-> <<>>]
Idle == pending = NoPending

Running == closures[frames[Depth]]
Register(r) == stack[Depth][r]

Closure(p, env) ==
    [proto |-> p, env |-> env, uprefs |-> [i \in 1..Nups(p) |-> Nil], preload |-> 0]
Extend(function, x, value) ==
    [y \in DOMAIN function \cup {x} |-> IF y = x THEN value ELSE function[y]]

Init ==
    /\ runs = 0 /\ initialized = FALSE
    /\ frames = <<>>
    /\ stack = [l \in Levels |-> [r \in Registers |-> Nil]]
    /\ closures = [c \in Shared \cup {0} |->
                     IF c = 0 THEN Closure(Root, 0)
                     ELSE [Closure(c, 0) EXCEPT !.preload = IF Nups(c) = 0 THEN 0 ELSE 1]]
    /\ cells = <<>>
    /\ pending = NoPending
    /\ meant = [c \in {} |-> <<>>]

(***************************************************************************)
(* The variables captured by reference.                                    *)
(***************************************************************************)
IsOpen(i) == cells[i].level # 0
Deref(i) == IF IsOpen(i) THEN stack[cells[i].level][cells[i].register] ELSE cells[i].value

(* luaF_findupval: the cell of a register of the running frame, if any.    *)
CellsOf(r) == {i \in 1..Len(cells) : cells[i].level = Depth /\ cells[i].register = r}

(* luaF_close: the cells of a set of registers take their values along.    *)
Closed(S, registers) ==
    [i \in 1..Len(cells) |->
       IF IsOpen(i) /\ <<cells[i].level, cells[i].register>> \in S
       THEN [level |-> 0, register |-> 0,
             value |-> registers[cells[i].level][cells[i].register]]
       ELSE cells[i]]
FramesAbove(level) == ((level + 1)..MaxDepth) \X Registers

(***************************************************************************)
(* Runs, calls and errors.                                                 *)
(***************************************************************************)
(* The registers of a new frame of p: its variables captured by value get  *)
(* theirs here.                                                            *)
Fresh(p, registers) ==
    \E value \in IF ByValue(p) = {} THEN {Nil} ELSE Constants :
        stack' = [registers EXCEPT ![Depth + 1] =
                    [r \in Registers |-> IF r \in ByValue(p) THEN value ELSE Nil]]
Writable == Registers \ ByValue(Running.proto)

(* require_static starts the initializer, on a new thread with a new       *)
(* environment, and gives that environment to every template of the module *)
(* (bindAotClosureTemplateEnvs).                                           *)
Run ==
    /\ frames = <<>> /\ ~initialized
    /\ runs < MaxRuns
    /\ runs' = runs + 1
    /\ closures' = [c \in DOMAIN closures |->
                      IF c \in Shared \cup {0} THEN [closures[c] EXCEPT !.env = runs + 1]
                      ELSE closures[c]]
    /\ frames' = <<0>>
    /\ Fresh(Root, stack)
    /\ UNCHANGED <<initialized, cells, pending, meant>>

(* A function the program still has is called.                             *)
Call ==
    /\ Idle /\ frames # <<>>
    /\ Depth < MaxDepth
    /\ \E c \in Published :
         /\ frames' = Append(frames, c)
         /\ Fresh(closures[c].proto, stack)
    /\ UNCHANGED <<runs, initialized, closures, cells, pending, meant>>

(* The registers of the frames above a level mean nothing.                 *)
Popped(registers, level) ==
    [l \in Levels |-> IF l > level THEN [r \in Registers |-> Nil] ELSE registers[l]]

(* luauc_runtime_v1_return: what is open in the frame is closed, then the  *)
(* results are moved down to its base; the caller takes the first to the   *)
(* register of its call.                                                   *)
MovedDown(source, count) ==
    [stack EXCEPT ![Depth] =
       [r \in Registers |-> IF r < count THEN stack[Depth][source + r] ELSE stack[Depth][r]]]

(* Mutant: the results are moved before the cells are closed.              *)
ReturnMovesFirst ==
    /\ Idle /\ frames # <<>>
    /\ \E source \in Registers : \E count \in 0..(FrameSize - source) :
         /\ stack' = Popped(stack, Depth - 1)
         /\ cells' = Closed(FramesAbove(Depth - 1), MovedDown(source, count))
    /\ initialized' = (initialized \/ Running.proto = Root)
    /\ frames' = SubSeq(frames, 1, Depth - 1)
    /\ UNCHANGED <<runs, closures, pending, meant>>

(* Mutant: a return that pops its frame without luaF_close. *)
ReturnLeavesOpen ==
    /\ Idle /\ frames # <<>>
    /\ stack' = Popped(stack, Depth - 1)
    /\ initialized' = (initialized \/ Running.proto = Root)
    /\ frames' = SubSeq(frames, 1, Depth - 1)
    /\ UNCHANGED <<runs, cells, closures, pending, meant>>

Return ==
    /\ Idle /\ frames # <<>>
    /\ \E source \in Registers : \E count \in 0..(FrameSize - source) :
         LET results == MovedDown(source, count)
             first == IF count = 0 THEN Nil ELSE results[Depth][0]
         IN  IF Depth = 1 THEN stack' = Popped(results, 0)
                      ELSE \E r \in Registers \ ByValue(closures[frames[Depth - 1]].proto) :
                             stack' = [Popped(results, Depth - 1) EXCEPT
                                         ![Depth - 1][r] = first]
    /\ cells' = Closed(FramesAbove(Depth - 1), stack)
    /\ initialized' = (initialized \/ Running.proto = Root)
    /\ frames' = SubSeq(frames, 1, Depth - 1)
    /\ UNCHANGED <<runs, closures, pending, meant>>

(* Generated code moves a register to another.                             *)
Assign ==
    /\ Idle /\ frames # <<>>
    /\ \E r \in Writable, value \in {Register(q) : q \in Registers} :
         stack' = [stack EXCEPT ![Depth][r] = value]
    /\ UNCHANGED <<runs, initialized, frames, closures, cells, pending, meant>>

(***************************************************************************)
(* Closure instructions.  The frame publishes the closure in its           *)
(* destination before the first capture reads its source.                  *)
(***************************************************************************)
Destination(child) == Site[child].dest
Shown(registers, child, c) == [registers EXCEPT ![Depth][Destination(child)] = Function(c)]

(* The helper call for capture i of child is the next thing that happens.  *)
NextCapture(child, i) ==
    /\ frames # <<>> /\ Running.proto = Parent[child]
    /\ i \in 1..Nups(child)
    /\ IF i = 1 THEN Idle ELSE pending.child = child /\ i = Len(pending.captured) + 1

(* What capture i of child reads: a register, or an upvalue of the parent. *)
Captured(child, i, registers) ==
    LET capture == Site[child].captures[i]
    IN  IF capture.kind = "upval" THEN Running.uprefs[capture.source]
        ELSE registers[Depth][capture.source]

(* What the source of capture i means to the program: the closure being    *)
(* made, when it is the destination.                                       *)
Itself == [type |-> "itself", of |-> 0]
Meaning(child, i) ==
    LET capture == Site[child].captures[i]
    IN  IF capture.kind = "val" /\ capture.source = Destination(child) THEN Itself
        ELSE Captured(child, i, stack)

(* Captures so far, and the end of the instruction after the last one.     *)
Advance(child, c, captured) ==
    IF Len(captured) < Nups(child)
    THEN /\ pending' = [child |-> child, made |-> c, captured |-> captured]
         /\ UNCHANGED meant
    ELSE /\ pending' = NoPending
         /\ meant' = Extend(meant, c, [i \in 1..Nups(child) |->
                       IF captured[i] = Itself THEN Function(c) ELSE captured[i]])
CapturedSoFar(child, i, meaning) ==
    Append(IF i = 1 THEN <<>> ELSE pending.captured, meaning)

(* The preload byte after capture i: zero after the last one.              *)
Store(closure, i, value, preload) ==
    [closure EXCEPT !.uprefs = [@ EXCEPT ![i] = value],
                    !.preload = IF i = Len(closure.uprefs) THEN 0 ELSE preload]

(* luauc_runtime_v1_newclosure_empty, and luauc_runtime_v1_dupclosure,     *)
(* which shares the template of the same environment.                      *)
EmptyClosure(child) ==
    IF child \in Shared /\ closures[child].env = Running.env THEN child ELSE NextClosure
MakeEmpty ==
    /\ Idle /\ frames # <<>>
    /\ \E child \in Children :
         /\ Running.proto = Parent[child] /\ Nups(child) = 0
         /\ EmptyClosure(child) = NextClosure => NextClosure <= MaxClosures
         /\ closures' = IF EmptyClosure(child) = child THEN closures
                        ELSE Extend(closures, NextClosure, Closure(child, Running.env))
         /\ stack' = Shown(stack, child, EmptyClosure(child))
         /\ Advance(child, EmptyClosure(child), <<>>)
    /\ UNCHANGED <<runs, initialized, frames, cells>>

(* luauc_runtime_v1_newclosure_capture: the preload byte counts.           *)
NewClosureCapture ==
    /\ \E child \in Children \ Shared : \E i \in 1..Nups(child) :
         LET c == IF i = 1 THEN NextClosure ELSE pending.made
             closure == IF i = 1 THEN Closure(child, Running.env) ELSE closures[c]
             capture == Site[child].captures[i]
             registers == Shown(stack, child, c)
             known == CellsOf(capture.source)
             cell == IF known = {} THEN Len(cells) + 1 ELSE CHOOSE j \in known : TRUE
             value == IF capture.kind = "ref" THEN Cell(cell)
                      ELSE Captured(child, i, registers)
             meaning == IF capture.kind = "ref" THEN value ELSE Meaning(child, i)
         IN  /\ NextCapture(child, i)
             /\ c <= MaxClosures /\ cell <= MaxCells
             /\ stack' = registers
             /\ closures' = Extend(closures, c, Store(closure, i, value, i))
             /\ cells' = IF capture.kind = "ref" /\ known = {}
                         THEN Append(cells, [level |-> Depth, register |-> capture.source,
                                             value |-> Nil])
                         ELSE cells
             /\ Advance(child, c, CapturedSoFar(child, i, meaning))
    /\ UNCHANGED <<runs, initialized, frames>>

(* Mutants: a template is shared whatever it holds, or is filled again.    *)
MatchesAnything(child, i, c, registers) == c = child /\ closures[child].preload = 0
ClonesNever(child, i, c, registers) == FALSE

(* The closure c of the instruction is the template and already holds what *)
(* capture i reads, or it is a template in use that holds something else.  *)
Matches(child, i, c, registers) ==
    c = child /\ closures[child].uprefs[i] = Captured(child, i, registers)
Clones(child, i, c, registers) ==
    c = child /\ closures[child].preload = 0 /\ ~Matches(child, i, c, registers)

(* luauc_runtime_v1_dupclosure_capture.  The template is shared when its   *)
(* environment is the parent's and it holds what would be captured; before *)
(* its first use (preload) it is filled in place; otherwise a new closure  *)
(* takes over, with the captures made so far.                              *)
DupClosureCapture ==
    /\ \E child \in Shared : \E i \in 1..Nups(child) :
         LET template == closures[child]
             first == IF template.env = Running.env THEN child ELSE NextClosure
             c == IF i = 1 THEN first ELSE pending.made
             registers == Shown(stack, child, c)
             value == Captured(child, i, registers)
             captured == CapturedSoFar(child, i, Meaning(child, i))
             closure == IF c \in DOMAIN closures THEN closures[c]
                        ELSE Closure(child, Running.env)
             matches == Matches(child, i, c, registers)
             clones == Clones(child, i, c, registers)
             cloned == Shown(stack, child, NextClosure)
             copied == [Closure(child, Running.env) EXCEPT
                          !.uprefs = [j \in 1..Nups(child) |->
                                        IF j < i THEN template.uprefs[j] ELSE Nil]]
         IN  /\ NextCapture(child, i)
             /\ \/ /\ matches
                   /\ stack' = registers
                   /\ closures' = [closures EXCEPT ![c] =
                                     Store(template, i, value, template.preload)]
                   /\ Advance(child, c, captured)
                \/ /\ clones
                   /\ NextClosure <= MaxClosures
                   /\ stack' = cloned
                   /\ closures' = Extend(closures, NextClosure,
                                    Store(copied, i, Captured(child, i, cloned), 0))
                   /\ Advance(child, NextClosure, captured)
                \/ /\ ~matches /\ ~clones
                   /\ c \in Nat => c <= MaxClosures
                   /\ stack' = registers
                   /\ closures' = Extend(closures, c, Store(closure, i, value, closure.preload))
                   /\ Advance(child, c, captured)
    /\ UNCHANGED <<runs, initialized, frames, cells>>

(* Between two captures only an allocation can fail: of a clone, or of the *)
(* cell of a register captured by reference that has none yet.             *)
NextAllocates ==
    LET child == pending.child
        i == Len(pending.captured) + 1
        capture == Site[child].captures[i]
    IN  IF child \in Shared THEN Clones(child, i, pending.made, stack)
        ELSE capture.kind = "ref" /\ CellsOf(capture.source) = {}

(* An error unwinds to a protected call at some level, or out of the run.  *)
(* The cells of a dead thread stay open on a stack nobody writes: closed   *)
(* here.                                                                   *)
Raise ==
    /\ frames # <<>>
    /\ ~Idle => NextAllocates
    /\ \E level \in 0..(Depth - 1) :
         /\ frames' = SubSeq(frames, 1, level)
         /\ cells' = Closed(FramesAbove(level), stack)
         /\ stack' = Popped(stack, level)
    /\ pending' = NoPending
    /\ UNCHANGED <<runs, initialized, closures, meant>>

(***************************************************************************)
(* Upvalues.                                                               *)
(***************************************************************************)
(* Mutant: the upvalue slot is copied, be it a value or a cell.            *)
GetUpvalueSlot ==
    /\ Idle /\ frames # <<>>
    /\ \E r \in Writable : \E i \in 1..Len(Running.uprefs) :
         stack' = [stack EXCEPT ![Depth][r] = Running.uprefs[i]]
    /\ UNCHANGED <<runs, initialized, frames, closures, cells, pending, meant>>

(* luauc_runtime_v1_get_upvalue.                                           *)
GetUpvalue ==
    /\ Idle /\ frames # <<>>
    /\ \E r \in Writable : \E i \in 1..Len(Running.uprefs) :
         LET upref == Running.uprefs[i]
         IN  stack' = [stack EXCEPT ![Depth][r] =
                         IF upref.type = "upval" THEN Deref(upref.of) ELSE upref]
    /\ UNCHANGED <<runs, initialized, frames, closures, cells, pending, meant>>

(* luauc_runtime_v1_set_upvalue: only of a reference capture.              *)
SetUpvalue ==
    /\ Idle /\ frames # <<>>
    /\ \E r \in Registers : \E i \in 1..Len(Running.uprefs) :
         LET cell == Running.uprefs[i].of
         IN  /\ Running.uprefs[i].type = "upval"
             /\ IF IsOpen(cell)
                THEN /\ stack' = [stack EXCEPT ![cells[cell].level][cells[cell].register] =
                                    Register(r)]
                     /\ UNCHANGED cells
                ELSE /\ cells' = [cells EXCEPT ![cell].value = Register(r)]
                     /\ UNCHANGED stack
    /\ UNCHANGED <<runs, initialized, frames, closures, pending, meant>>

(* luauc_runtime_v1_close_upvalues.                                        *)
CloseUpvalues ==
    /\ Idle /\ frames # <<>>
    /\ \E first \in Registers :
         cells' = Closed((Depth..MaxDepth) \X {r \in Registers : r >= first}, stack)
    /\ UNCHANGED <<runs, initialized, frames, stack, closures, pending, meant>>

Next ==
    \/ Run \/ Call \/ Return \/ Raise \/ Assign
    \/ MakeEmpty \/ NewClosureCapture \/ DupClosureCapture
    \/ GetUpvalue \/ SetUpvalue \/ CloseUpvalues

Spec == Init /\ [][Next]_vars

(***************************************************************************)
(* Properties.                                                             *)
(***************************************************************************)
ClosureIds == Shared \cup 0..MaxClosures
Values == Constants \cup {Function(c) : c \in DOMAIN closures}

(* The state has the shapes the code gives it: registers hold values,      *)
(* never cells, and every cell a closure refers to exists.                 *)
TypeOK ==
    /\ runs \in 0..MaxRuns /\ initialized \in BOOLEAN
    /\ Depth <= MaxDepth
    /\ \A l \in 1..Depth : frames[l] \in DOMAIN closures
    /\ stack \in [Levels -> [Registers -> Values]]
    /\ DOMAIN closures \subseteq ClosureIds
    /\ \A c \in DOMAIN closures :
         closures[c].uprefs \in [1..Nups(closures[c].proto)
                                -> Values \cup {Cell(i) : i \in 1..Len(cells)}]
    /\ \A i \in 1..Len(cells) : cells[i].value \in Values
    /\ Len(cells) <= MaxCells
    /\ Published \subseteq DOMAIN closures

(* What a closure captured is what the sources of its captures meant when  *)
(* it was made, the closure itself where it captures itself: sharing a     *)
(* template and copying captures from it are not observable                *)
(* (luauc_runtime_v1_dupclosure_capture).                                  *)
ClosuresCaptureTheirSources ==
    \A c \in Published : closures[c].uprefs = meant[c]

(* A closure the program has never gets other captures: a template is      *)
(* filled in place only before anyone has seen it (the preload byte).      *)
CapturesArePermanent ==
    [][\A c \in Published : closures'[c].uprefs = closures[c].uprefs]_vars

(* Each captured variable is one variable: no register has two open cells, *)
(* and no cell points into a frame that was left (luaF_findupval, return   *)
(* and the unwinding of errors).                                           *)
OpenCellsAreVariables ==
    \A i \in 1..Len(cells) : IsOpen(i) =>
        /\ cells[i].level <= Depth
        /\ \A j \in 1..Len(cells) :
             (cells[j].level = cells[i].level /\ cells[j].register = cells[i].register)
             => i = j

(* The value of a captured variable changes only by an assignment: by      *)
(* generated code in the frame whose variable it is (or a result it takes),*)
(* or by a function that captured it.  Leaving its scope, moving results   *)
(* over its register and reusing the stack keep it.                        *)
Assignable(i) ==
    \/ frames' = frames /\ cells[i].level = Depth
    \/ frames' = frames /\ Cell(i) \in {Running.uprefs[u] : u \in 1..Len(Running.uprefs)}
    \/ Len(frames') = Depth - 1 /\ cells[i].level = Depth - 1
VariablesChangeByAssignment ==
    [][\A i \in 1..Len(cells) : Deref(i)' # Deref(i) => Assignable(i)]_vars
===============================================================================
