------------------------------ MODULE StackSteps ------------------------------
(***************************************************************************)
(* What a helper of the runtime does to memory, step by step: the language *)
(* AotHelpers describes the helpers in.  A helper is the set of its paths, *)
(* each a sequence of steps on stack addresses, objects and L->top; the    *)
(* values are left out.                                                    *)
(***************************************************************************)
EXTENDS Naturals, Sequences

(* A step on addresses, with objects, of some size.                        *)
Step(do, addresses, objects, size) ==
    {<<[do |-> do, on |-> addresses, with |-> objects, size |-> size]>>}

(* One after the other; a path that has left the helper goes no further.   *)
Ended(path) == path # <<>> /\ path[Len(path)].do = "leave"
P ** Q == {IF Ended(p) THEN p ELSE p \o q : p \in P, q \in Q}

Nothing == {<<>>}
Possibly(P) == P \cup Nothing

(* The parts of a sequence in turn; the same n times, or at most n times.  *)
InTurn(parts) ==
    LET first[k \in 0..Len(parts)] == IF k = 0 THEN Nothing ELSE first[k - 1] ** parts[k]
    IN  first[Len(parts)]
Times(n, P) == InTurn([i \in 1..n |-> P])
AtMost(n, P) == UNION {Times(k, P) : k \in 0..n}

At(S) == Step("take", S, {}, 0)             \* L->base + index, of each
Use(S) == Step("use", S, {}, 0)             \* read or write through them
Guard == Step("guard", {}, {}, 0)           \* go on, or raise
Reserve(n) == Step("reserve", {}, {}, n)    \* luaD_checkstack
ReserveTop(n) == Step("raise", {}, {}, n)   \* lua_checkstack: raises ci->top too
New(o) == Step("new", {}, {o}, 0)           \* an allocation: no collection, no root
Publish(r, o) == Step("publish", {r}, {o}, 0)   \* set a register to a new object
Hold(o) == Step("hold", {}, {o}, 0)         \* an object that is held holds it
Push(o) == Step("push", {o}, {o}, 1)        \* setobj(L->top); L->top++
Pop == Step("pop", {}, {}, 1)
Above(n) == Step("above", {}, {}, n)        \* write n slots from L->top on
Top(t) == Step("top", {}, {t}, 0)           \* L->top = ci->top, or the end of values
SaveTop == Step("save", {}, {}, 0)
RestoreTop == Step("restore", {}, {}, 0)
Grow == Step("grow", {"slot"}, {}, 0)       \* luaH_setnum, luaH_resizearray
Store(o) == Step("store", {}, {o}, 0)       \* an object gets a value
Barrier(o) == Step("barrier", {}, {o}, 0)
Collect == Step("collect", {}, {}, 0)       \* luaC_checkGC
Run(S) == Step("run", S, {}, 0)             \* an operation that may call Lua or C
Call(S) == Step("call", S, {}, 0)           \* luaD_call: moves L->top too
Leave == Step("leave", {}, {"frame"}, 0)
LeaveOpen == Step("leave", {}, {"open", "results"}, 0)   \* the end of values
LeaveWith(n) == Step("leave", {}, {"frame"}, n) \* with n values on the stack
===============================================================================
