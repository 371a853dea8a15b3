------------------------------- MODULE LuauSubset -------------------------------
(***************************************************************************)
(* What a small source package does: the reference that PackageLiveness is *)
(* checked against.  It follows the semantics of the Luau language (Luau   *)
(* itself is not in the repository): evaluation order, closures, tables,   *)
(* methods, multiple results, varargs, the string library reached through  *)
(* a string, static require, and a host that may call every function and   *)
(* read and write every table it gets hold of.                             *)
(*                                                                         *)
(* A package is [modules, entry, fns]: the statements of each module, the  *)
(* entry's name, and the functions its function expressions name by id.    *)
(* Values are tuples that begin with their type.  A local is one cell: the *)
(* packages call no function again while a closure over its locals lives.  *)
(***************************************************************************)
EXTENDS Integers, Sequences, SequencesExt, TLC

Nil == <<"nil">>
Num == <<"number">>
Str == <<"string">>
Lib == <<"library">>      \* a function of the string library
Host == <<"host">>        \* any value of the host's: a function and a table
Bool(b) == <<"boolean", b>>
Truthy(v) == v \notin {Nil, Bool(FALSE)}

(* The keys a table can have, in the order of an iteration. *)
Keys == <<"1", "2", "a", "b", "k">>
KeyOf(v) == IF v = Num THEN "1" ELSE "k"

(* How deep the host looks into what it gets, and how many calls a run may make. *)
HostDepth == 4
Fuel == 40

Res(vs, m) == [vs |-> vs, m |-> m]
First(r) == IF r.vs = <<>> THEN Nil ELSE Head(r.vs)
Log(m, what) == [m EXCEPT !.log = Append(@, what)]
Fail(m) == [m EXCEPT !.status = "error"]
Bind(m, xs, vs) ==
    [m EXCEPT !.vars = [x \in Range(xs) |->
                          LET i == CHOOSE i \in DOMAIN xs : xs[i] = x
                          IN  IF i <= Len(vs) THEN vs[i] ELSE Nil] @@ @]

(* The evaluator is one recursion (Step, at the end) over these operations. *)
RECURSIVE Step(_, _, _)
Eval(e, m) == Step("eval", e, m)
EvalAll(es, m) == Step("evalall", es, m)
Apply(f, args, m) == Step("apply", <<f, args>>, m)
Expose(v, depth, m) == Step("expose", <<v, depth>>, m)
Exec(s, m) == Step("exec", s, m)
While(s, m) == Step("while", s, m)
Each(s, t, keys, m) == Step("each", <<s, t, keys>>, m)
Fill(t, items, n, m) == Step("fill", <<t, items, n>>, m)
Block(body, m) == FoldLeft(LAMBDA acc, s : Exec(s, acc), m, body)

Get(v, key, m) ==
    CASE v[1] = "table" -> Res(<<m.heap[v[2]][key]>>, m)
      [] v = Host -> Res(<<Host>>, m)
      [] v = Str -> Res(<<Lib>>, m)
      [] OTHER -> Res(<<Nil>>, Fail(m))
Put(v, key, value, m) ==
    CASE m.status # "run" -> m
      [] v[1] = "table" -> [m EXCEPT !.heap[v[2]][key] = value]
      [] v = Host -> Expose(value, HostDepth, m)
      [] OTHER -> Fail(m)

(* The entries of a table constructor, positional ones counted by n. *)
FillTable(t, items, n, m) ==
    IF items = <<>> \/ m.status # "run" THEN m
    ELSE LET item == Head(items)
             by == IF item.key = "[]" THEN Eval(item.by, m) ELSE Res(<<>>, m)
             r == Eval(item.value, by.m)
             last == item.key = "" /\ Len(items) = 1
             vs == IF last THEN r.vs ELSE <<First(r)>>
             key(i) == IF item.key = "" THEN ToString(n + i - 1)
                       ELSE IF item.key = "[]" THEN KeyOf(First(by)) ELSE item.key
             filled == FoldLeft(LAMBDA acc, i : Put(t, key(i), vs[i], acc),
                                r.m, [i \in 1 .. Len(vs) |-> i])
         IN  Fill(t, Tail(items), IF item.key = "" THEN n + 1 ELSE n, filled)

NewTable(e, m) ==
    LET t == <<"table", Len(m.heap) + 1>>
        empty == [m EXCEPT !.heap = Append(@, [key \in Range(Keys) |-> Nil])]
    IN  Res(<<t>>, Fill(t, e.items, 1, empty))

RequireModule(name, m) ==
    IF name \in DOMAIN m.loaded THEN Res(<<m.loaded[name]>>, m)
    ELSE LET done == Block(m.package.modules[name], [m EXCEPT !.varargs = <<>>])
             value == First(Res(done.results, done))
         IN  IF done.status = "return"
             THEN Res(<<value>>, [done EXCEPT !.status = "run", !.results = <<>>,
                                              !.varargs = m.varargs,
                                              !.loaded = (name :> value) @@ @])
             ELSE Res(<<Nil>>, done)

Evaluate(e, m) ==
    IF m.status # "run" THEN Res(<<Nil>>, m) ELSE
    CASE e.kind = "nil" -> Res(<<Nil>>, m)
      [] e.kind = "number" -> Res(<<Num>>, m)
      [] e.kind = "string" -> Res(<<Str>>, m)
      [] e.kind = "local" -> Res(<<m.vars[e.name]>>, m)
      [] e.kind = "global" -> Res(<<Host>>, m)
      [] e.kind = "function" ->
             Res(<<IF e.id \in m.cut THEN Nil ELSE <<"function", e.id>>>>, m)
      [] e.kind = "table" -> NewTable(e, m)
      [] e.kind = "varargs" -> Res(m.varargs, m)
      [] e.kind = "require" -> RequireModule(e.name, m)
      [] e.kind = "field" -> LET base == Eval(e.base, m)
                             IN  Get(First(base), e.key, base.m)
      [] e.kind = "index" -> LET base == Eval(e.base, m)
                                 by == Eval(e.by, base.m)
                             IN  Get(First(base), KeyOf(First(by)), by.m)
      [] e.kind = "call" -> LET f == Eval(e.func, m)
                                args == EvalAll(e.args, f.m)
                            IN  Apply(First(f), args.vs, args.m)
      [] e.kind = "method" -> LET base == Eval(e.base, m)
                                  f == Get(First(base), e.key, base.m)
                                  args == EvalAll(e.args, f.m)
                              IN  Apply(First(f), <<First(base)>> \o args.vs, args.m)
      [] e.kind \in {"and", "or"} ->
             LET l == Eval(e.left, m)
             IN  IF Truthy(First(l)) = (e.kind = "and")
                 THEN LET r == Eval(e.right, l.m) IN Res(<<First(r)>>, r.m)
                 ELSE Res(<<First(l)>>, l.m)
      [] e.kind = "equal" -> LET l == Eval(e.left, m)
                                 r == Eval(e.right, l.m)
                             IN  Res(<<Bool(First(l) = First(r))>>, r.m)
      [] e.kind = "not" -> LET v == Eval(e.operand, m)
                           IN  Res(<<Bool(~Truthy(First(v)))>>, v.m)
      [] e.kind = "length" ->
             LET v == Eval(e.operand, m)
                 t == First(v)
             IN  CASE t = Host -> Res(<<Num>>, v.m)
                   [] t[1] = "table" ->     \* visible as a Boolean: is it empty
                          Res(<<Bool(v.m.heap[t[2]]["1"] # Nil)>>, v.m)
                   [] OTHER -> Res(<<Num>>, IF t = Str THEN v.m ELSE Fail(v.m))
      [] e.kind = "ifelse" -> LET c == Eval(e.condition, m)
                                  r == Eval(IF Truthy(First(c)) THEN e.yes ELSE e.no, c.m)
                              IN  Res(<<First(r)>>, r.m)
      [] e.kind = "interp" ->      \* the text shows what kind of value it was
             LET v == Eval(e.operand, m) IN Res(<<Str>>, Log(v.m, First(v)[1]))

EvaluateAll(es, m) ==
    IF es = <<>> THEN Res(<<>>, m)
    ELSE LET r == Eval(Head(es), m)
             rest == EvalAll(Tail(es), r.m)
         IN  IF Len(es) = 1 THEN r ELSE Res(<<First(r)>> \o rest.vs, rest.m)

(* A value reaches the host: it sees its type, calls a function with values *)
(* of its own and looks at what it returns, and reads every field of a      *)
(* table; a host that writes then replaces a field.                         *)
ShowHost(v, depth, m) ==
    LET seen == Log(m, v[1])
        each(acc, x) == Expose(x, depth - 1, acc)
    IN  CASE m.status # "run" -> m
          [] depth = 0 -> seen
          [] v[1] = "function" -> LET r == Apply(v, <<Host, Host>>, seen)
                                  IN  FoldLeft(each, r.m, r.vs)
          [] v[1] = "table" ->
                 LET read == FoldLeft(LAMBDA acc, key :
                                        Expose(acc.heap[v[2]][key], depth - 1, Log(acc, key)),
                                      seen, Keys)
                 IN  IF m.writes THEN [read EXCEPT !.heap[v[2]]["a"] = Host] ELSE read
          [] OTHER -> seen

CallFunction(f, args, m) ==
    CASE m.status # "run" -> Res(<<Nil>>, m)
      [] m.fuel = 0 -> Res(<<Nil>>, [m EXCEPT !.status = "fuel"])
      [] f[1] = "function" ->
             LET d == m.package.fns[f[2]]
                 extra == SubSeq(args, Len(d.params) + 1, Len(args))
                 entered == [Bind(m, d.params, args)
                              EXCEPT !.varargs = IF d.vararg THEN extra ELSE <<>>,
                                     !.fuel = @ - 1]
                 done == Block(d.body, entered)
             IN  Res(done.results,
                     [done EXCEPT !.status = IF @ = "return" THEN "run" ELSE @,
                                  !.results = <<>>, !.varargs = m.varargs])
      [] f = Host ->
             Res(<<Host>>, FoldLeft(LAMBDA acc, v : Expose(v, HostDepth, acc), Log(m, "call"), args))
      [] f = Lib ->     \* gsub: needs its replacement and calls it
             IF Nil \in Range(args) THEN Res(<<Nil>>, Fail(m))
             ELSE Res(<<Str>>, FoldLeft(LAMBDA acc, v : IF v[1] = "function"
                                                        THEN Apply(v, <<Str>>, acc).m
                                                        ELSE acc, m, args))
      [] OTHER -> Res(<<Nil>>, Fail(m))

Assign(target, v, m) ==
    CASE m.status # "run" -> m
      [] target.kind = "local" -> Bind(m, <<target.name>>, <<v>>)
      [] target.kind = "field" -> LET base == Eval(target.base, m)
                                  IN  Put(First(base), target.key, v, base.m)
      [] target.kind = "index" -> LET base == Eval(target.base, m)
                                      by == Eval(target.by, base.m)
                                  IN  Put(First(base), KeyOf(First(by)), v, by.m)
      [] target.kind = "global" -> m

(* The body of a generic for, for each entry of a table. *)
ForEach(s, t, keys, m) ==
    IF keys = <<>> \/ m.status # "run" THEN m
    ELSE LET v == m.heap[t[2]][Head(keys)]
         IN  Each(s, t, Tail(keys),
                  IF v = Nil THEN m ELSE Block(s.body, Bind(m, s.names, <<Str, v>>)))

RepeatWhile(s, m) ==
    LET c == Eval(s.condition, m)
    IN  IF Truthy(First(c)) /\ c.m.status = "run" THEN While(s, Block(s.body, c.m)) ELSE c.m

Execute(s, m) ==
    IF m.status # "run" THEN m ELSE
    CASE s.kind = "local" -> LET r == EvalAll(s.values, m) IN Bind(r.m, s.names, r.vs)
      [] s.kind = "localfunction" ->
             Bind(m, <<s.name>>, <<First(Eval([kind |-> "function", id |-> s.id], m))>>)
      [] s.kind = "functionstat" ->
             IF s.id \in m.removed THEN m
             ELSE Assign(s.target, First(Eval([kind |-> "function", id |-> s.id], m)), m)
      [] s.kind = "assign" ->
             LET r == EvalAll(s.values, m)
             IN  FoldLeft(LAMBDA acc, i : Assign(s.targets[i],
                                                 IF i <= Len(r.vs) THEN r.vs[i] ELSE Nil, acc),
                          r.m, [i \in 1 .. Len(s.targets) |-> i])
      [] s.kind = "compound" ->        \* of a number, a string or the host's value
             LET l == Eval(s.target, m)
                 r == Eval(s.value, l.m)
             IN  IF {First(l), First(r)} \subseteq {Num, Str, Host}
                 THEN Assign(s.target, First(l), r.m) ELSE Fail(r.m)
      [] s.kind = "return" -> LET r == EvalAll(s.values, m)
                              IN  IF r.m.status # "run" THEN r.m
                                  ELSE [r.m EXCEPT !.status = "return", !.results = r.vs]
      [] s.kind = "goto" -> m           \* to the next statement
      [] s.kind = "do" -> Eval(s.value, m).m
      [] s.kind = "if" -> LET c == Eval(s.condition, m)
                          IN  Block(IF Truthy(First(c)) THEN s.yes ELSE s.no, c.m)
      [] s.kind = "while" -> While(s, m)
      [] s.kind = "repeat" ->
             LET c == Eval(s.condition, Block(s.body, m))
             IN  IF Truthy(First(c)) \/ c.m.status # "run" THEN c.m ELSE Exec(s, c.m)
      [] s.kind = "for" ->              \* from 1 to 2
             LET r == EvalAll(s.range, m)
                 round(acc) == Block(s.body, Bind(acc, <<s.name>>, <<Num>>))
             IN  IF Range(r.vs) \subseteq {Num} THEN round(round(r.m)) ELSE Fail(r.m)
      [] s.kind = "forin" ->
             LET r == EvalAll(s.values, m)
                 t == First(r)
             IN  CASE t[1] = "table" -> Each(s, t, Keys, r.m)
                   [] t = Host -> Block(s.body, Bind(r.m, s.names, <<Host, Host>>))
                   [] OTHER -> Fail(r.m)

(* The host runs the entry and takes what it returns. *)
RunPackage(entry, m) ==
    LET ran == RequireModule(entry, m)
    IN  Expose(First(ran), HostDepth, ran.m)

Step(what, x, m) ==
    CASE what = "eval" -> Evaluate(x, m)
      [] what = "evalall" -> EvaluateAll(x, m)
      [] what = "apply" -> CallFunction(x[1], x[2], m)
      [] what = "expose" -> ShowHost(x[1], x[2], m)
      [] what = "exec" -> Execute(x, m)
      [] what = "while" -> RepeatWhile(x, m)
      [] what = "each" -> ForEach(x[1], x[2], x[3], m)
      [] what = "fill" -> FillTable(x[1], x[2], x[3], m)
      [] what = "run" -> RunPackage(x, m)

(* Running a package of which the functions in cut are nil, and the        *)
(* statements that declare those in removed are not there.                 *)
Behaviour(package, cut, removed, writes) ==
    LET done == Step("run", package.entry,
                     [package |-> package, cut |-> cut, removed |-> removed,
                      writes |-> writes, fuel |-> Fuel, status |-> "run", vars |-> <<>>,
                      heap |-> <<>>, log |-> <<>>, results |-> <<>>, varargs |-> <<>>,
                      loaded |-> <<>>])
    IN  <<done.log, done.status>>
=================================================================================
