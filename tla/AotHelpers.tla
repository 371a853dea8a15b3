------------------------------ MODULE AotHelpers ------------------------------
(***************************************************************************)
(* The helpers generated code calls for tables, globals, strings, builtin  *)
(* functions, iteration and varargs, and the loading of a program          *)
(* (runtime/src/call_frame.cpp): how they use the stack and the heap.      *)
(*                                                                         *)
(* The stack can move whenever it is grown or shrunk, a collection frees   *)
(* what no root reaches, and a black object must not get a white value     *)
(* without a barrier.  Each helper is a set of paths in the steps of       *)
(* StackSteps; the values it computes with are left out.                   *)
(***************************************************************************)
EXTENDS StackSteps

CONSTANTS
    GlobalsCall,  \* looking up an import can call a function (__index)
    FrameSize,    \* the registers of a frame
    Fixed,        \* the parameters of a function that also takes others
    Extra,        \* how many of those it was given
    MaxConstants, \* how many constants of a kind, or items of one, a proto has
    Loads         \* the programs: whether they have modules, and the trees of their protos

ASSUME HelpersAssumption ==
    /\ GlobalsCall \in BOOLEAN
    /\ {FrameSize, Fixed, Extra, MaxConstants} \subseteq Nat

ASSUME LoadsAssumption ==
    \A load \in Loads :
        /\ load.modules \in BOOLEAN
        /\ Len(load.trees) \in Nat \ {0} /\ DOMAIN load.trees = 1..Len(load.trees)
        /\ ~load.modules => Len(load.trees) = 1
        /\ \A i \in DOMAIN load.trees :
            LET children == load.trees[i].children
            IN  Len(children) \in Nat /\ DOMAIN children = 1..Len(children)

(***************************************************************************)
(* The operands.                                                           *)
(***************************************************************************)
activeAotFrameProto == Guard
activeAotRegister(S) == Guard ** At(S)
activeAotValueOperand(S) == activeAotRegister(S) ** Guard   \* {}: a constant
activeAotTable(S) == activeAotRegister(S) ** Use(S) ** Guard
activeAotPlainTable(S) == activeAotTable(S) ** Guard
activeAotStringKey(o) == Guard ** New(o)

(* The registers of an operation, published and live.                      *)
Operands(S) == activeAotFrameProto ** activeAotRegister(S) ** Guard

(* Mutant: the key is published first and the room made for it then.       *)
RootedKeyLate(S) ==
    SaveTop ** activeAotStringKey("key") ** Push("key") ** Reserve(1) ** At({"key"}) ** At(S)

(* A key decoded from the program, on the stack while it is used.          *)
RootedKey(S) ==
    SaveTop ** Reserve(1) ** activeAotStringKey("key") ** Push("key") ** At(S)

Restored == RestoreTop ** Collect ** RestoreTop

builtin_type_error == Operands({"source"}) ** Use({"source"}) ** (Leave \cup Guard ** Leave)
builtin_number == Operands({"source"}) ** Use({"source"}) ** Guard

(***************************************************************************)
(* Tables.                                                                 *)
(***************************************************************************)
newAotTable ==
    Operands({"dest"}) ** Guard ** New("table") ** Publish("dest", "table")
new_table == newAotTable ** Collect
new_table_deferred == newAotTable
check_gc == activeAotFrameProto ** Collect
dup_table == Operands({"dest"}) ** Guard ** New("table") ** Publish("dest", "table")
load_constant == Operands({"dest"}) ** Guard ** Use({"dest"})

(* Mutant: a barrier is left out.                                          *)
AppendGrownUnbarriered == Grow ** At({"source"}) ** Use({"source", "slot"}) ** Store("table")

AppendGrown == Grow ** At({"source"}) ** Use({"source", "slot"}) ** Store("table") ** Barrier("table")

(* Does nothing and lets the caller go on, or does all and leaves.         *)
tryLiveInsertAppend ==
    Possibly(At({"table"}) ** Use({"table"}) ** Possibly(AppendGrown ** Leave))
table_insert_append ==
    tryLiveInsertAppend
    ** activeAotFrameProto ** activeAotPlainTable({"table"}) ** Operands({"table", "source"})
    ** Guard ** AppendGrown

table_set_string ==
    Operands({"table", "source"}) ** RootedKey({"table", "source"})
    ** Run({"table", "key", "source"}) ** Restored
table_get_string ==
    Operands({"dest", "table"}) ** RootedKey({"dest", "table"})
    ** Run({"table", "key", "dest"}) ** Restored

(* Mutant: the destination keeps its address over the lookup.              *)
LookupMethodStale == Run({"receiver", "dest"}) ** Use({"dest"}) ** Guard

LookupMethod == Run({"receiver", "dest"}) ** At({"dest", "self"}) ** Use({"dest"}) ** Guard

namecall_plain ==
    Operands({"dest", "self", "source"}) ** activeAotValueOperand({}) ** Guard
    ** Possibly(Use({"source"}) ** Use({"self"}) ** Use({"dest"}) ** Leave)
    ** SaveTop ** Reserve(1) ** At({"source"}) ** Use({"source"}) ** Push("receiver")
    ** Use({"receiver"}) ** At({"dest", "self"}) ** Use({"self"})
    ** (Use({"dest"}) \cup LookupMethod) ** Restored

publishPlainNumericSet ==
    Possibly(Use({"table"}) ** Possibly(At({"source"}) ** Use({"source"}) ** Possibly(AppendGrown ** Leave)))
tryLiveRegisterNumericSet ==
    Possibly(At({"key"}) ** Use({"key"}) ** Possibly(At({"table"}) ** publishPlainNumericSet))
table_set ==
    Possibly(tryLiveRegisterNumericSet)
    ** Operands({"table", "source"}) ** activeAotValueOperand({"key"})
    ** publishPlainNumericSet ** Run({"table", "key", "source"})
table_get ==
    Operands({"dest", "table"}) ** activeAotValueOperand({"key"})
    ** Use({"table"})
    ** (Use({"key", "dest"}) \cup Run({"table", "key", "dest"}))
table_set_number ==
    Operands({"table", "source"}) ** publishPlainNumericSet ** Run({"table", "source"})
table_get_number == Operands({"dest", "table"}) ** Run({"table", "dest"})
table_array_set ==
    Operands({"table", "source"}) ** Use({"table"})
    ** Possibly(Use({"source"}) ** Store("table") ** Barrier("table"))
table_array_get == Operands({"dest", "table"}) ** Use({"table"}) ** Possibly(Use({"dest"}))
array_set ==
    activeAotFrameProto ** activeAotTable({"table"}) ** activeAotRegister({"source"}) ** Guard
    ** Use({"source"}) ** Store("table") ** Barrier("table")
array_get ==
    activeAotFrameProto ** activeAotTable({"table"}) ** activeAotRegister({"dest"}) ** Guard
    ** Use({"dest"})

(* Every value up to the top, if the count is open.                        *)
set_list ==
    activeAotFrameProto ** (Nothing \cup Top("open") ** Guard ** Top("frame"))
    ** activeAotTable({"table"}) ** Guard ** (Leave \cup Guard)
    ** Possibly(Grow) ** Guard
    ** activeAotTable({"table"}) ** At({"source"}) ** Use({"source"})
    ** Store("table") ** Barrier("table")

(* A store whose barrier is a command of its own: generated code calls it  *)
(* next.                                                                   *)
barrier_table_forward == Operands({"source"}) ** Guard ** Use({"source"}) ** Barrier("table")
barrier_table_back == activeAotFrameProto ** Guard ** Barrier("table")
barrier_object == Operands({"source"}) ** Guard ** Use({"source"}) ** Barrier("userdata")

table_store ==
    activeAotFrameProto ** activeAotPlainTable({"table"}) ** activeAotRegister({"source"})
    ** Guard ** Grow ** At({"source"}) ** Use({"source", "slot"}) ** Store("table")
new_userdata ==
    activeAotFrameProto ** Guard ** Collect ** New("userdata")
check_userdata_tag == activeAotFrameProto ** Guard
set_userdata_metatable == Operands({"source"}) ** Guard ** Use({"source"}) ** Store("userdata")
hash_node_addr == activeAotFrameProto ** activeAotTable({"table"}) ** At({"node"})
slot_node_addr == activeAotFrameProto ** Guard ** At({"node"})
node_slot_match == activeAotFrameProto ** Guard ** Use({"node"})
check_node_no_next == activeAotFrameProto ** Guard ** Use({"node"})
check_node_value == activeAotFrameProto ** Guard ** Use({"node"})
GuardedSlot ==
    (hash_node_addr \cup slot_node_addr)
    ** node_slot_match ** check_node_no_next ** check_node_value ** Use({"node"})

(***************************************************************************)
(* Globals and imports.                                                    *)
(***************************************************************************)
get_global == Operands({"dest"}) ** Guard ** RootedKey({"dest"}) ** Run({"key", "dest"}) ** Restored
get_global_constant ==
    Operands({"dest"}) ** activeAotValueOperand({}) ** Guard
    ** (Use({"dest"}) \cup Run({"dest"}))
set_global ==
    Operands({"source"}) ** Guard ** RootedKey({"source"}) ** Run({"key", "source"}) ** Restored

(***************************************************************************)
(* Operators, builtin functions and strings.                               *)
(***************************************************************************)
do_arith ==
    activeAotFrameProto ** activeAotRegister({"dest"})
    ** activeAotValueOperand({"left"}) ** activeAotValueOperand({"right"}) ** Guard
    ** SaveTop ** Run({"dest", "left", "right"}) ** RestoreTop
compare_any ==
    activeAotFrameProto ** activeAotValueOperand({"left"}) ** activeAotValueOperand({"right"})
    ** SaveTop ** Run({"left", "right"}) ** RestoreTop
do_len == Operands({"dest", "source"}) ** SaveTop ** At({"dest", "source"}) ** Run({"dest", "source"}) ** RestoreTop
table_len ==
    activeAotFrameProto ** activeAotRegister({"table"}) ** Use({"table"})
    ** (do_len \cup activeAotRegister({"dest"}) ** Use({"dest"}))

concat ==
    activeAotFrameProto ** Guard ** activeAotRegister({"dest"}) ** At({"source"})
    ** SaveTop ** Run({}) ** RestoreTop ** At({"dest", "source"})
    ** Use({"dest", "source"}) ** Collect ** RestoreTop

(* The third argument of three is no neighbour of the second: both are     *)
(* copied above the top.                                                   *)
fastcall ==
    Operands({"dest", "source"}) ** Guard ** Possibly(Leave) ** Guard ** Possibly(Leave) ** Guard
    ** ( (Use({"dest", "source"})
            \cup (At({"second"}) \cup activeAotValueOperand({"second"})) ** Use({"dest", "source", "second"}))
         \cup activeAotValueOperand({"second"}) ** Guard ** activeAotValueOperand({"third"})
           ** SaveTop ** Reserve(2) ** At({"source", "dest", "second", "third"})
           ** Use({"second", "third"}) ** Above(2) ** Use({"dest", "source"}) ** RestoreTop )

type_name == Operands({"dest", "source"}) ** Guard ** Use({"source"}) ** Guard ** Use({"dest"})

Slice(dest, source) ==
    activeAotFrameProto ** activeAotRegister({dest}) ** activeAotRegister({source})
    ** Use({source}) ** Guard ** Collect ** At({source}) ** Use({source}) ** Guard
    ** New("slice") ** At({dest}) ** Publish(dest, "slice") ** Top("frame") ** Collect
slice_string == Slice("dest", "source")
sub_string ==
    activeAotFrameProto ** Possibly(Leave)
    ** At({"dest", "source", "start", "end"}) ** Use({"source", "start", "end"}) ** Possibly(Leave)
    ** Collect ** At({"source"}) ** Use({"source"}) ** New("slice") ** At({"dest"})
    ** Publish("dest", "slice") ** Top("frame") ** Collect
find_string ==
    activeAotFrameProto ** Possibly(Leave)
    ** At({"dest", "source", "pattern", "init", "plain"})
    ** Use({"source", "pattern", "init", "plain"}) ** Possibly(Leave)
    ** Use({"dest", "source"}) ** Top("frame")
match_string ==
    activeAotFrameProto ** Possibly(Leave)
    ** At({"dest", "source", "pattern"}) ** Use({"source", "pattern"})
    ** activeAotValueOperand({}) ** Possibly(Leave)
    ** ( Use({"dest", "source"}) ** Top("frame")
         \cup Slice("dest", "source")
                ** (Nothing \cup Slice("source", "source") \cup At({"source"}) ** Use({"source"})) )

(***************************************************************************)
(* Calls, iteration and varargs.                                           *)
(***************************************************************************)
forn_prepare == activeAotFrameProto ** Guard ** At({"loop"}) ** Use({"loop"}) ** Guard

(* Mutant: the top is left at the end of the three results.                *)
IterMethodOpen ==
    Use({"iterator"}) ** Top("cut") ** Call({"iterator"}) ** At({"iterator"}) ** Use({"iterator"}) ** Guard

IterMethod ==
    Use({"iterator"}) ** Top("cut") ** Call({"iterator"}) ** Top("frame")
    ** At({"iterator"}) ** Use({"iterator"}) ** Guard
forg_prep ==
    activeAotFrameProto ** Guard ** At({"iterator"}) ** Use({"iterator"}) ** Possibly(Leave)
    ** (IterMethod ** Leave \cup Leave \cup Guard ** Use({"iterator"}))
forgprep_xnext_fallback ==
    activeAotFrameProto ** Guard ** At({"iterator"}) ** Guard ** Use({"iterator"}) ** Possibly(Guard)
forg_loop ==
    activeAotFrameProto ** Guard ** At({"iterator"}) ** Use({"iterator"}) ** Guard ** Use({"iterator"})

(* The arguments may end one slot above the frame.                         *)
IteratorCall ==
    activeAotFrameProto ** Guard ** At({"iterator"}) ** Reserve(3) ** At({"iterator"})
    ** Use({"iterator"}) ** Above(1) ** Top("cut") ** Call({"iterator"})
forg_loop_call == IteratorCall ** Guard
forg_loop_finish ==
    activeAotFrameProto ** Guard ** Top("frame") ** At({"iterator"}) ** Guard ** Use({"iterator"})
callAotFunction == Call({"function"}) ** Guard
call ==
    Guard ** At({"function"}) ** Guard
    ** (Top("cut") \cup Top("open")) ** callAotFunction
    ** (Top("frame") ** Collect \cup Collect ** LeaveOpen)

prep_varargs ==
    Guard ** Reserve(FrameSize + Fixed) ** At({"fixed", "relocated"}) ** Use({"fixed"})
    ** Above(Fixed) ** Above(FrameSize) ** Top("frame")
get_varargs_fixed == Guard ** At({"source", "dest"}) ** Use({"source", "dest"})
get_varargs_multret ==
    Guard ** Reserve(Extra) ** At({"source", "dest"}) ** Use({"source"}) ** Above(Extra)
    ** Top("open") ** LeaveOpen

(***************************************************************************)
(* The loading of a program.  The objects it makes hold each other; a      *)
(* proto is held by its parent or by the closure of a root.                *)
(***************************************************************************)
Lookup(S) == IF GlobalsCall THEN Run(S) ELSE Use(S)

resolveAotImport ==
    Lookup({"result"})
    ** Possibly(At({"result"}) ** Use({"result"}) ** Possibly(Lookup({"result"}))
                ** Possibly(At({"result"}) ** Use({"result"}) ** Possibly(Lookup({"result"}))))
materializeOneAotImport ==
    Reserve(1) ** Push("result") ** Possibly(resolveAotImport ** Guard)
    ** At({"result"}) ** Use({"result"}) ** Store("proto") ** Barrier("proto") ** Pop
materializeAotImportConstants == AtMost(MaxConstants, materializeOneAotImport)

(* Strings first, then the templates of tables, item by item, and imports. *)
Template ==
    New("template") ** AtMost(MaxConstants, Store("template") ** Barrier("template"))
    ** Hold("template")
materializeAotConstants ==
    AtMost(MaxConstants, New("string") ** Hold("string"))
    ** AtMost(MaxConstants, Template)
    ** materializeAotImportConstants
initializeAotProto == Hold("source") ** materializeAotConstants
materializeAotClosureConstants ==
    AtMost(MaxConstants, Guard ** New("closure") ** Hold("closure") ** Store("proto") ** Barrier("proto"))

(* The closure of a root roots its protos.                                 *)
publishRootClosure(root) == New("root") ** Hold(root) ** Push("root")
push_root ==
    Possibly(Leave) ** ReserveTop(1) ** Collect
    ** New("source") ** New("proto") ** initializeAotProto ** publishRootClosure("proto")
    ** LeaveWith(1)

(* A closure of each root first, then the tables; the entry's stays.       *)
ApiTable(o) == Collect ** Push(o)
Field(o) == Push(o) ** Pop
Record == ApiTable("record") ** Field("anchor") ** Field("status") ** Pop
publishModuleRegistry(trees) ==
    InTurn([i \in DOMAIN trees |-> publishRootClosure(trees[i].root)])
    ** ApiTable("registry") ** Field("count") ** Field("entry") ** Times(Len(trees), Record)
    ** Push("key") ** Push("value") ** Pop ** Pop ** Field("anchor") ** Times(Len(trees), Pop)

(* A tree: the source it is from, its root and the protos below the root.  *)
LoadProto(proto) == New(proto) ** initializeAotProto

(* Mutant: the protos of the trees before are collected, as none is rooted. *)
LoadTreeCollecting(tree) == Collect ** New("source") ** LoadProto(tree.root)

LoadTree(tree) ==
    New("source") ** LoadProto(tree.root)
    ** InTurn([c \in DOMAIN tree.children |-> LoadProto(tree.children[c])])
HoldChildren(tree) == InTurn([c \in DOMAIN tree.children |-> Hold(tree.children[c])])
TreeClosures(tree) == Times(1 + Len(tree.children), materializeAotClosureConstants)

(* Every proto is made before one is rooted.                               *)
LoadProgram(load) ==
    Collect
    ** InTurn([i \in DOMAIN load.trees |-> LoadTree(load.trees[i])])
    ** InTurn([i \in DOMAIN load.trees |-> HoldChildren(load.trees[i])])
    ** InTurn([i \in DOMAIN load.trees |-> TreeClosures(load.trees[i])])
    ** (IF load.modules THEN publishModuleRegistry(load.trees)
        ELSE publishRootClosure(load.trees[1].root))

(* A program with modules is refused when there is one.                    *)
PrepareLoad(load) ==
    IF load.modules
    THEN ReserveTop(Len(load.trees) + 8) ** Push("registry") ** Pop ** Possibly(Leave)
    ELSE ReserveTop(1)
push_program ==
    Possibly(Leave)
    ** (UNION {PrepareLoad(load) ** LoadProgram(load) : load \in Loads})
    ** LeaveWith(1)

(* The coverage of every module, through the API: at most three values on  *)
(* the stack.                                                              *)
Coverage ==
    Push("record") ** Possibly(RestoreTop ** Leave)
    ** Push("closure") ** Possibly(RestoreTop ** Leave)
    ** Use({"closure"}) ** Pop ** Pop
get_program_coverage ==
    Possibly(Leave) ** ReserveTop(3) ** SaveTop ** Push("registry") ** Possibly(RestoreTop ** Leave)
    ** Push("count") ** Possibly(RestoreTop ** Leave) ** Pop ** Possibly(RestoreTop ** Leave)
    ** (UNION {Times(Len(load.trees), Coverage) : load \in Loads}) ** RestoreTop

(***************************************************************************)
(* The programs of helpers that generated code runs.  A store and its      *)
(* barrier, new userdata and its publication, the call of an iterator and  *)
(* its end are helpers it calls one after the other.                       *)
(***************************************************************************)
Programs == [
    builtin_type_error |-> builtin_type_error, builtin_number |-> builtin_number,
    new_table |-> new_table, new_table_deferred |-> new_table_deferred ** check_gc,
    dup_table |-> dup_table ** check_gc, load_constant |-> load_constant,
    table_insert_append |-> table_insert_append,
    table_set_string |-> table_set_string, table_get_string |-> table_get_string,
    namecall_plain |-> namecall_plain,
    table_set |-> table_set, table_get |-> table_get,
    table_set_number |-> table_set_number, table_get_number |-> table_get_number,
    table_array_set |-> table_array_set, table_array_get |-> table_array_get,
    array_set |-> array_set, array_get |-> array_get, set_list |-> set_list,
    table_store |-> table_store ** (barrier_table_forward \cup barrier_table_back),
    new_userdata |-> new_userdata ** check_userdata_tag ** At({"dest"})
                     ** Publish("dest", "userdata") ** set_userdata_metatable ** barrier_object,
    slots |-> GuardedSlot,
    get_global |-> get_global, get_global_constant |-> get_global_constant,
    set_global |-> set_global,
    do_arith |-> do_arith, compare_any |-> compare_any, do_len |-> do_len,
    table_len |-> table_len, concat |-> concat, fastcall |-> fastcall,
    type_name |-> type_name, slice_string |-> slice_string, sub_string |-> sub_string,
    find_string |-> find_string, match_string |-> match_string,
    forn_prepare |-> forn_prepare, forg_prep |-> forg_prep,
    forgprep_xnext_fallback |-> forgprep_xnext_fallback, forg_loop |-> forg_loop,
    forg_loop_call |-> forg_loop_call ** forg_loop_finish, call |-> call,
    prep_varargs |-> Top("open") ** prep_varargs ** get_varargs_fixed,
    get_varargs_multret |-> get_varargs_multret,
    push_root |-> push_root, push_program |-> push_program,
    get_program_coverage |-> get_program_coverage]

VARIABLES
    helper,       \* the one running
    left,         \* the steps left of its path
    valid,        \* the addresses taken since the stack moved last
    loose,        \* new objects no root reaches
    owed,         \* objects that got a value and no barrier yet
    temporaries,  \* what is above the top the helper found
    room,         \* the slots above that top the stack has
    kept,         \* those of them below ci->top
    top,          \* L->top: "frame" (ci->top), "open", "cut" or "results"
    saved         \* the top that was saved

vars == <<helper, left, valid, loose, owed, temporaries, room, kept, top, saved>>

Init ==
    /\ helper = "none" /\ left = <<>>
    /\ valid = {} /\ loose = {} /\ owed = {}
    /\ temporaries = <<>> /\ room = 0 /\ kept = 0
    /\ top = "frame" /\ saved = 0

Idle ==
    /\ helper' = "none" /\ left' = <<>>
    /\ valid' = {} /\ loose' = {} /\ owed' = {}
    /\ temporaries' = <<>> /\ room' = 0 /\ kept' = 0
    /\ top' = "frame" /\ saved' = 0

Doing(kind) == left # <<>> /\ left[1].do = kind
Advance == left' = Tail(left) /\ UNCHANGED helper
Objects == left[1].with
Addresses == left[1].on

(* The stack is where it was, or elsewhere.                                *)
MayMove == valid' \in {valid, {}}

Enter ==
    /\ left = <<>>
    /\ \E h \in DOMAIN Programs : \E p \in Programs[h] ** Leave : helper' = h /\ left' = p
    /\ UNCHANGED <<valid, loose, owed, temporaries, room, kept, top, saved>>

Finish ==
    /\ Doing("leave")
    /\ Idle

(* An error, which drops what the helper had.                              *)
Raise ==
    /\ \E kind \in {"guard", "reserve", "raise", "new", "grow", "run", "call"} : Doing(kind)
    /\ Idle

Take ==
    /\ Doing("take") /\ Advance
    /\ valid' = valid \cup Addresses
    /\ UNCHANGED <<loose, owed, temporaries, room, kept, top, saved>>

Access ==
    /\ \E kind \in {"guard", "use", "above"} : Doing(kind)
    /\ Advance
    /\ UNCHANGED <<valid, loose, owed, temporaries, room, kept, top, saved>>

ReserveStack ==
    /\ \E kind \in {"reserve", "raise"} : Doing(kind)
    /\ Advance
    /\ MayMove
    /\ LET enough == Len(temporaries) + left[1].size
       IN  /\ room' = IF enough > room THEN enough ELSE room
           /\ kept' = IF Doing("raise") /\ enough > kept THEN enough ELSE kept
    /\ UNCHANGED <<loose, owed, temporaries, top, saved>>

Allocate ==
    /\ Doing("new") /\ Advance
    /\ loose' = loose \cup Objects
    /\ UNCHANGED <<valid, owed, temporaries, room, kept, top, saved>>

Root ==
    /\ \E kind \in {"publish", "hold"} : Doing(kind)
    /\ Advance
    /\ loose' = loose \ Objects
    /\ UNCHANGED <<valid, owed, temporaries, room, kept, top, saved>>

PushValue ==
    /\ Doing("push") /\ Advance
    /\ \E o \in Objects : temporaries' = Append(temporaries, o)
    /\ loose' = loose \ Objects
    /\ valid' = valid \cup Addresses
    /\ UNCHANGED <<owed, room, kept, top, saved>>

Dropped(n) == {temporaries[i] : i \in (n + 1)..Len(temporaries)}
CutTo(n) ==
    /\ temporaries' = SubSeq(temporaries, 1, n)
    /\ valid' = valid \ Dropped(n)

PopValue ==
    /\ Doing("pop") /\ Advance
    /\ CutTo(Len(temporaries) - 1)
    /\ UNCHANGED <<loose, owed, room, kept, top, saved>>

SetTop ==
    /\ Doing("top") /\ Advance
    /\ top' \in Objects
    /\ UNCHANGED <<valid, loose, owed, temporaries, room, kept, saved>>

Save ==
    /\ Doing("save") /\ Advance
    /\ saved' = Len(temporaries)
    /\ UNCHANGED <<valid, loose, owed, temporaries, room, kept, top>>

Restore ==
    /\ Doing("restore") /\ Advance
    /\ CutTo(saved)
    /\ UNCHANGED <<loose, owed, room, kept, top, saved>>

GrowTable ==
    /\ Doing("grow") /\ Advance
    /\ \E still \in {valid, {}} : valid' = still \cup Addresses
    /\ UNCHANGED <<loose, owed, temporaries, room, kept, top, saved>>

StoreValue ==
    /\ Doing("store") /\ Advance
    /\ owed' = owed \cup Objects
    /\ UNCHANGED <<valid, loose, temporaries, room, kept, top, saved>>

PayBarrier ==
    /\ Doing("barrier") /\ Advance
    /\ owed' = owed \ Objects
    /\ UNCHANGED <<valid, loose, temporaries, room, kept, top, saved>>

(* A collection step, or code that may take some.  A collection gives back *)
(* stack that is not in use and above ci->top.                             *)
Shrink == room' \in {room, IF Len(temporaries) > kept THEN Len(temporaries) ELSE kept}
Collection ==
    /\ \E kind \in {"collect", "run"} : Doing(kind)
    /\ Advance
    /\ MayMove /\ Shrink
    /\ UNCHANGED <<loose, owed, temporaries, kept, top, saved>>

CallFunction ==
    /\ Doing("call") /\ Advance
    /\ MayMove /\ Shrink
    /\ top' = "results"
    /\ UNCHANGED <<loose, owed, temporaries, kept, saved>>

Next ==
    \/ Enter \/ Finish \/ Raise
    \/ Take \/ Access
    \/ ReserveStack \/ Allocate \/ Root
    \/ PushValue \/ PopValue \/ SetTop \/ Save \/ Restore
    \/ GrowTable \/ StoreValue \/ PayBarrier
    \/ Collection \/ CallFunction

Spec == Init /\ [][Next]_vars

(***************************************************************************)
(* Properties.                                                             *)
(***************************************************************************)
Collecting == {"collect", "run", "call", "leave"}

(* No helper reads or writes the stack through an address it took before   *)
(* the stack could move, nor a temporary it has popped.                    *)
AddressesAreFresh ==
    left # <<>> /\ left[1].do \in {"use", "publish", "run", "call"} => Addresses \subseteq valid

(* When a collection can run, and when a helper ends, every object the     *)
(* helper has made is in a register, on the stack below the top, or in an  *)
(* object that is.                                                         *)
NothingLooseIsCollected ==
    left # <<>> /\ left[1].do \in Collecting => loose = {}

(* Every value stored in an object has had its barrier by the next         *)
(* collection.                                                             *)
BarriersArePaid ==
    left # <<>> /\ left[1].do \in Collecting => owed = {}

(* What a helper puts above the top fits in the room it has reserved, and  *)
(* it pops and restores only what it has pushed.                           *)
TemporariesHaveRoom ==
    /\ Doing("pop") => temporaries # <<>>
    /\ saved <= Len(temporaries)
    /\ Doing("push") => Len(temporaries) < room
    /\ Doing("above") => Len(temporaries) + left[1].size <= room

(* A helper ends with the top of its frame, with the end of the values it  *)
(* produces, or with what it was asked to push.                            *)
TopIsExact ==
    Doing("leave") => top \in Objects /\ Len(temporaries) = left[1].size

===============================================================================
