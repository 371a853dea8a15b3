--------------------------- MODULE MCPackageLiveness ---------------------------
(* Packages for PackageLiveness: a library that declares two functions in   *)
(* every way a declaration takes and may do more with them, and an entry    *)
(* that uses the library in every way an expression or a statement allows.  *)
EXTENDS PackageLiveness

CONSTANTS
    Strings,      \* the entry calls methods of strings
    Truthiness    \* the entry takes a function as the left operand of and

None == [kind |-> "none"]
L(x) == [kind |-> "local", name |-> x]
G == [kind |-> "global", name |-> "host"]
N == [kind |-> "number"]
S == [kind |-> "string"]
Var == [kind |-> "varargs"]
F(id) == [kind |-> "function", id |-> id]
T(id, items) == [kind |-> "table", id |-> id, items |-> items]
Item(key, value) == [key |-> key, value |-> value]
Field(base, key) == [kind |-> "field", base |-> base, key |-> key]
At(base, by) == [kind |-> "index", base |-> base, by |-> by]
Call(func, args) == [kind |-> "call", func |-> func, args |-> args]
Method(base, key, args) == [kind |-> "method", base |-> base, key |-> key, args |-> args]
Binary(kind, left, right) == [kind |-> kind, left |-> left, right |-> right]
Unary(kind, operand) == [kind |-> kind, operand |-> operand]
Key == Unary("interp", N)      \* a string that is no constant
Choice(c, yes, no) == [kind |-> "ifelse", condition |-> c, yes |-> yes, no |-> no]
Say(e) == [kind |-> "do", value |-> e]
Tell(x) == Say(Call(G, <<x>>))
LocalStat(x, e) == [kind |-> "local", names |-> <<x>>, values |-> <<e>>]
Locals(xs, es) == [kind |-> "local", names |-> xs, values |-> es]
LocalFunction(x, id) == [kind |-> "localfunction", name |-> x, id |-> id]
FunctionStat(target, id) == [kind |-> "functionstat", target |-> target, id |-> id]
Assign2(targets, values) == [kind |-> "assign", targets |-> targets, values |-> values]
Return(es) == [kind |-> "return", values |-> es]
If(c, yes) == [kind |-> "if", condition |-> c, yes |-> yes, no |-> <<>>]
ForIn(xs, e, body) == [kind |-> "forin", names |-> xs, values |-> <<e>>, body |-> body]

Function(module, params, vararg, body, target) ==
    [module |-> module, params |-> params, vararg |-> vararg, body |-> body, target |-> target]
NoFunctions == [o \in {} |-> None]
(* A part of a module: statements, the functions they hold, the tables.     *)
Part(body, fns, tables) == [body |-> body, fns |-> fns, tables |-> tables]

M == L("M")
Speaks == <<Tell(S)>>
Lib1(params, body, target) == Function("lib", params, FALSE, body, target)

(* The s-th declaration of the library, of key; other is the other's key.   *)
Declarations(s, key, other) ==
    LET id == 10 * s
        x == "x" \o ToString(s)
        at == Field(M, key)
    IN  {\* function M.key() host("") end
         Part(<<FunctionStat(at, id)>>, id :> Lib1(<<>>, Speaks, at), {}),
         \* function M:key(cb) return cb end
         Part(<<FunctionStat(at, id)>>,
              id :> Lib1(<<"self" \o x, x>>, <<Return(<<L(x)>>)>>, at), {}),
         \* M.key = function(cb) if cb then cb(0) end end
         Part(<<Assign2(<<at>>, <<F(id)>>)>>,
              id :> Lib1(<<x>>, <<If(L(x), <<Say(Call(L(x), <<N>>))>>)>>, None), {}),
         \* local function x() host("") end  M.key = x
         Part(<<LocalFunction(x, id), Assign2(<<at>>, <<L(x)>>)>>,
              id :> Lib1(<<>>, Speaks, None), {}),
         \* function M.key(...) return ... end
         Part(<<FunctionStat(at, id)>>,
              id :> Function("lib", <<>>, TRUE, <<Return(<<Var>>)>>, at), {}),
         \* function M.key() return M.other() end
         Part(<<FunctionStat(at, id)>>,
              id :> Lib1(<<>>, <<Return(<<Call(Field(M, other), <<>>)>>)>>, at), {}),
         \* function M.key() return function() host("") end end
         Part(<<FunctionStat(at, id)>>,
              id :> Lib1(<<>>, <<Return(<<F(id + 1)>>)>>, at)
              @@ (id + 1) :> Lib1(<<>>, Speaks, None), {}),
         \* function M.key(t) for i = 1, 2 do t[i] = function() host("") end end end
         Part(<<FunctionStat(at, id)>>,
              id :> Lib1(<<x>>, <<[kind |-> "for", name |-> "i" \o x, range |-> <<N, N>>,
                                   body |-> <<Assign2(<<At(L(x), L("i" \o x))>>, <<F(id + 1)>>)>>]>>, at)
              @@ (id + 1) :> Lib1(<<>>, Speaks, None), {})}

(* What else the library does. *)
Extras ==
    {Part(<<>>, NoFunctions, {}),
     \* local A = M  function A.k() host("") end
     Part(<<LocalStat("A", M), FunctionStat(Field(L("A"), "k"), 30)>>,
          30 :> Lib1(<<>>, Speaks, Field(L("A"), "k")), {}),
     Part(<<Tell(M)>>, NoFunctions, {}),                     \* host(M)
     \* M = { a = function() host("") end }
     Part(<<Assign2(<<M>>, <<T(31, <<Item("a", F(30))>>)>>)>>,
          30 :> Lib1(<<>>, Speaks, None), {31}),
     \* for _, v in M do v() end
     Part(<<ForIn(<<"key", "v">>, M, <<Say(Call(L("v"), <<>>))>>)>>, NoFunctions, {}),
     \* while M.a == M.b do M.a = 0 end
     Part(<<[kind |-> "while", condition |-> Binary("equal", Field(M, "a"), Field(M, "b")),
             body |-> <<Assign2(<<Field(M, "a")>>, <<N>>)>>]>>, NoFunctions, {}),
     \* M = nil  function M.k() end
     Part(<<Assign2(<<M>>, <<[kind |-> "nil"]>>), FunctionStat(Field(M, "k"), 30)>>,
          30 :> Lib1(<<>>, <<>>, Field(M, "k")), {}),
     Part(<<LocalStat("d", At(M, Key)), If(L("d"), Speaks)>>, NoFunctions, {}),   \* M[key]
     Part(<<[kind |-> "goto"]>>, NoFunctions, {}),
     \* function M.k() goto next  ::next:: end
     Part(<<FunctionStat(Field(M, "k"), 30)>>,
          30 :> Lib1(<<>>, <<[kind |-> "goto"]>>, Field(M, "k")), {}),
     Part(<<Tell([kind |-> "global", name |-> "getfenv"])>>, NoFunctions, {}),
     Part(<<[kind |-> "compound", target |-> Field(M, "a"), value |-> N]>>, NoFunctions, {}),
     \* repeat local r = M.b until r ~= 0 ...
     Part(<<[kind |-> "repeat", body |-> <<LocalStat("r", Field(M, "b"))>>,
             condition |-> L("r")]>>, NoFunctions, {})}

m == L("m")
g == L("g")
h == L("h")
(* What the entry does; function 42 is there for one use. *)
Uses ==
    {Part(<<>>, NoFunctions, {}),
     Part(<<Say(Call(Field(m, "a"), <<>>))>>, NoFunctions, {}),
     Part(<<Say(Method(m, "a", <<g>>))>>, NoFunctions, {}),
     Part(<<LocalStat("r", Call(Field(m, "a"), <<g>>)), Say(Call(L("r"), <<>>))>>, NoFunctions, {}),
     Part(<<Say(Call(Field(m, "b"), <<F(42)>>))>>, 42 :> Function("main", <<>>, FALSE, Speaks, None), {}),
     Part(<<Tell(m)>>, NoFunctions, {}),
     \* host(m)  m.a(g): the host may have replaced the field
     Part(<<Tell(m), Say(Call(Field(m, "a"), <<g>>))>>, NoFunctions, {}),
     \* local function v(p, q) q() end  v(m.b(h, g))
     Part(<<LocalFunction("v", 42), Say(Call(L("v"), <<Call(Field(m, "b"), <<h, g>>)>>))>>,
          42 :> Function("main", <<"p", "q">>, FALSE, <<Say(Call(L("q"), <<>>))>>, None), {}),
     \* local i = { k = g }  local j = { k = i }  local t = { k = j }  host(t)
     Part(<<LocalStat("i", T(43, <<Item("k", g)>>)), LocalStat("j", T(44, <<Item("k", L("i"))>>)),
            LocalStat("t", T(45, <<Item("k", L("j"))>>)), Tell(L("t"))>>, NoFunctions, {43, 44, 45}),
     Part(<<Tell(g)>>, NoFunctions, {}),
     Part(<<Tell(At(m, Key))>>, NoFunctions, {}),
     Part(<<LocalStat("t", T(43, <<Item("", g), Item("k", h)>>)),
            ForIn(<<"key", "v">>, L("t"), <<Say(Call(L("v"), <<>>))>>)>>, NoFunctions, {43}),
     Part(<<Say(Call(Call(h, <<g>>), <<>>))>>, NoFunctions, {}),
     Part(<<Tell(Binary("equal", Field(T(43, <<Item("k", g)>>), "k"), h))>>, NoFunctions, {43}),
     Part(<<Return(<<m>>)>>, NoFunctions, {}),
     Part(<<Return(<<T(43, <<Item("a", g)>>)>>)>>, NoFunctions, {43}),
     Part(<<LocalStat("c", Binary("and", Field(m, "a"), h)), Say(Call(L("c"), <<g>>))>>, NoFunctions, {}),
     Part(<<LocalStat("c", Binary("or", Field(m, "b"), g)), Say(Call(L("c"), <<>>))>>, NoFunctions, {}),
     Part(<<Tell(Unary("interp", g))>>, NoFunctions, {}),
     Part(<<If(Unary("not", g), Speaks)>>, NoFunctions, {}),
     Part(<<Assign2(<<Field(m, "a"), Field(m, "k")>>, <<g>>), Say(Call(Field(m, "a"), <<>>))>>, NoFunctions, {}),
     \* local function v(...) local a, b = ... b() end v(g, function() host("") end)
     Part(<<LocalFunction("v", 42), Say(Call(L("v"), <<g, F(43)>>))>>,
          42 :> Function("main", <<>>, TRUE, <<Locals(<<"p", "q">>, <<Var>>), Say(Call(L("q"), <<>>))>>, None)
          @@ 43 :> Function("main", <<>>, FALSE, Speaks, None), {}),
     \* local x, y = 0, m.a(g, h)  y()
     Part(<<Locals(<<"p", "q">>, <<N, Call(Field(m, "a"), <<g, h>>)>>), If(L("q"), <<Say(Call(L("q"), <<>>))>>)>>,
          NoFunctions, {}),
     \* h(m.b(h, g))
     Part(<<Tell(Call(h, <<Call(Field(m, "b"), <<h, g>>)>>))>>, NoFunctions, {}),
     \* local t = { m.a() }  if #t then host(0) end
     Part(<<LocalStat("t", T(43, <<Item("", Call(Field(m, "a"), <<>>))>>)),
            If(Unary("length", L("t")), Speaks)>>, NoFunctions, {43}),
     Part(<<Say(Call(Choice(G, g, h), <<>>))>>, NoFunctions, {}),
     \* local t = { [host] = g }  m.b(t)  t[1]()
     Part(<<LocalStat("t", T(43, <<[key |-> "[]", by |-> G, value |-> g]>>)),
            Say(Call(Field(m, "b"), <<L("t")>>)), Say(Call(At(L("t"), N), <<>>))>>, NoFunctions, {43}),
     \* host.x = g: a store where unknown code sees it
     Part(<<Assign2(<<Field(G, "a")>>, <<g>>)>>, NoFunctions, {}),
     Part(<<Assign2(<<G>>, <<g>>)>>, NoFunctions, {})}
    \cup
    (IF Strings   \* ("").gsub and (""):gsub("", function() host("") end)
     THEN {Part(<<Say(Method(S, "k", <<S, F(42)>>))>>,
                42 :> Function("main", <<>>, FALSE, Speaks, None), {})} ELSE {})
    \cup
    (IF Truthiness   \* local c = g and { k = 0 }  host(c.k)
     THEN {Part(<<LocalStat("c", Binary("and", g, T(43, <<Item("k", N)>>))),
                  Tell(Field(L("c"), "k"))>>, NoFunctions, {43})} ELSE {})

(* local M = {}  <declarations>  <extra>  return M *)
Library(first, second, extra) ==
    <<LocalStat("M", T(1, <<>>))>> \o first.body \o second.body \o extra.body \o <<Return(<<M>>)>>
(* local m = require "lib"  local g = function() host("") end              *)
(* local function h(x) return x end  <use>  return 0                       *)
EntryFunctions == 40 :> Function("main", <<>>, FALSE, Speaks, None)
                  @@ 41 :> Function("main", <<"hx">>, FALSE, <<Return(<<L("hx")>>)>>, None)
EntryBody(use) ==
    <<LocalStat("m", [kind |-> "require", name |-> "lib"]), LocalStat("g", F(40)),
      LocalFunction("h", 41)>> \o use.body \o <<Return(<<N>>)>>

Package(first, second, extra, use) ==
    LET fns == first.fns @@ second.fns @@ extra.fns @@ EntryFunctions @@ use.fns
        tables == {1} \cup extra.tables \cup use.tables
    IN  [modules |-> "lib" :> Library(first, second, extra) @@ "main" :> EntryBody(use),
         entry |-> "main", fns |-> fns,
         names |-> <<"lib", "main">>,
         order |-> SelectSeq([i \in 1 .. 45 |-> i], LAMBDA i : i \in DOMAIN fns \cup tables)]

(* Every two declarations with every use; every two with every extra and    *)
(* two uses; every one with every extra and every use.                      *)
Plainly == Part(<<>>, NoFunctions, {})
Second == Part(<<FunctionStat(Field(M, "b"), 20)>>,
               20 :> Lib1(<<"x2">>, <<Return(<<L("x2")>>)>>, Field(M, "b")), {})
FewUses == {Part(<<Say(Call(Field(m, "b"), <<g>>))>>, NoFunctions, {}),
            Part(<<Tell(Field(m, "a"))>>, NoFunctions, {})}
MCPackages ==
    {Package(d, e, Plainly, u) : d \in Declarations(1, "a", "b"), e \in Declarations(2, "b", "a"),
                                 u \in Uses}
    \cup {Package(d, e, x, u) : d \in Declarations(1, "a", "b"), e \in Declarations(2, "b", "a"),
                                x \in Extras, u \in FewUses}
    \cup {Package(d, Second, x, u) : d \in Declarations(1, "a", "b"), x \in Extras, u \in Uses}
================================================================================
