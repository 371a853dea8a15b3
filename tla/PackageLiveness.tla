---------------------------- MODULE PackageLiveness ----------------------------
(***************************************************************************)
(* The analysis that replaces dead function expressions of a package by    *)
(* nil before it is compiled (frontend/package_liveness.h).                *)
(*                                                                         *)
(* A value is the set of objects (function and table expressions, by id)   *)
(* an expression may denote, with Unknown for anything else.  The analysis *)
(* only ever adds to what it knows, so its maps of values are relations    *)
(* here and a statement's effect is the facts it adds to them.  It visits  *)
(* the module roots and then the objects, in order, until a round adds     *)
(* nothing, and then rewrites.                                             *)
(*                                                                         *)
(* A package is as in LuauSubset; its functions also say in which module   *)
(* they are and which statement declares them.  The program's text is not  *)
(* modelled: a replacement that does not fit in the text it replaces is    *)
(* not made (which ones those are is left open).                           *)
(***************************************************************************)
EXTENDS LuauSubset, FiniteSetsExt

CONSTANTS
    Packages,   \* the packages to analyse
    MaxRounds,  \* the rounds after which the analysis gives up (256)
    MaxUnfit    \* bound: how many replacements do not fit

ASSUME PackagesAssumption == MaxRounds \in Nat \ {0} /\ MaxUnfit \in Nat

VARIABLES
    package,    \* the package: constant
    facts,      \* what is known (Relations)
    changed,    \* this round has added to it
    position,   \* the next module root or object to visit
    rounds,     \* the rounds that are over
    phase,      \* "modules", "entry", "objects", "round", "done"
    cut,        \* the functions replaced by nil
    removed     \* those of them whose declaration is not there at all

vars == <<package, facts, changed, position, rounds, phase, cut, removed>>

Unknown == 0

(* locals, fields, rest (unknownFields), returns, varargs and modules      *)
(* (their returns) are sets of pairs that end with a member of a value;    *)
(* reads are pairs of a table and a key; active, observed and escaped are  *)
(* sets of objects; disabled is empty or {TRUE}.                           *)
Relations == {"locals", "fields", "rest", "returns", "varargs", "modules",
              "reads", "active", "observed", "escaped", "disabled"}
Nothing == [r \in Relations |-> {}]
Fact(r, S) == [Nothing EXCEPT ![r] = S]
Join(f, g) == [r \in Relations |-> f[r] \cup g[r]]
JoinAll(S) == [r \in Relations |-> UNION {f[r] : f \in S}]
Of(relation, x) == {p[2] : p \in {q \in relation : q[1] = x}}

IsFunction(o) == o \in DOMAIN package.fns
Tables(v) == {o \in v \ {Unknown} : ~IsFunction(o)}
Functions(v) == {o \in v \ {Unknown} : IsFunction(o)}
Observe(v) == Fact("observed", v \ {Unknown})
Escape(v) == Fact("escaped", v \ {Unknown})
Disable == Fact("disabled", {TRUE})

(* Mutant: a table unknown code can write is read like any other. *)
FieldValueOfEscaped(base, key, st) ==
    (IF Unknown \in base \/ Functions(base) # {} THEN {Unknown} ELSE {})
    \cup UNION {Of(st.fields, <<o, key>>) \cup Of(st.rest, o) : o \in Tables(base)}
(* Reading a field, of what base may be. *)
FieldValue(base, key, st) ==
    (IF Unknown \in base \/ Functions(base) # {} \/ base \cap st.escaped # {}
     THEN {Unknown} ELSE {})
    \cup UNION {Of(st.fields, <<o, key>>) \cup Of(st.rest, o) : o \in Tables(base)}
FieldFacts(base, key, st) ==
    Join(Fact("reads", (base \ {Unknown}) \X {key}), Observe(FieldValue(base, key, st)))

(* Storing v in a field of base: store and storeUnknown. *)
StoreFacts(base, key, v) ==
    Join(Fact("fields", {<<o, key>> : o \in Tables(base)} \X v),
         IF Unknown \in base \/ Functions(base) # {} THEN Escape(v) ELSE Nothing)
StoreUnknownFacts(base, v) ==
    Join(Fact("rest", Tables(base) \X v),
         IF Unknown \in base \/ Functions(base) # {} THEN Escape(v) ELSE Nothing)

(* Globals the analysis gives up at.  (Collector looks for them everywhere: *)
(* here they count where they are evaluated, so it gives up less.)         *)
Reflective == {"getfenv", "setfenv", "loadstring", "_G"}
IsMultiple(es) == es # <<>> /\ Last(es).kind \in {"call", "method", "require", "varargs"}

(* Values and facts of expressions are one recursion: see Visit. *)
RECURSIVE Visit(_, _, _, _)
Value(e, f, st) == Visit("value", e, f, st)
Facts(e, f, st) == Visit("facts", e, f, st)

(* The function a call calls, and its arguments with the receiver. *)
Callee(e, f, st) == IF e.kind = "method" THEN FieldValue(Value(e.base, f, st), e.key, st)
                    ELSE Value(e.func, f, st)
Arguments(e, f, st) == LET given == [i \in DOMAIN e.args |-> Value(e.args[i], f, st)]
                       IN  IF e.kind = "method" THEN <<Value(e.base, f, st)>> \o given ELSE given

(* What expression e may denote in function f (0 in a module's root). *)
ValueOf(e, f, st) ==
    CASE e.kind = "local" -> Of(st.locals, e.name)
      [] e.kind \in {"function", "table"} -> {e.id}
      [] e.kind = "field" -> FieldValue(Value(e.base, f, st), e.key, st)
      [] e.kind = "index" ->
             LET base == Value(e.base, f, st) \ {Unknown}
             IN  {Unknown} \cup UNION {Of(st.rest, o) : o \in base}
                 \cup {p[2] : p \in {q \in st.fields : q[1][1] \in base}}
      [] e.kind \in {"call", "method"} ->
             LET callee == Callee(e, f, st)
             IN  (IF callee = Functions(callee) THEN {} ELSE {Unknown})
                 \cup UNION {Of(st.returns, o) : o \in Functions(callee)}
      [] e.kind = "require" ->
             IF e.name \in DOMAIN package.modules THEN Of(st.modules, e.name) ELSE {Unknown}
      [] e.kind \in {"and", "or"} -> Value(e.left, f, st) \cup Value(e.right, f, st)
      [] e.kind = "ifelse" -> Value(e.yes, f, st) \cup Value(e.no, f, st)
      [] e.kind = "varargs" -> IF f = 0 THEN {Unknown} ELSE Of(st.varargs, f)
      [] e.kind \in {"nil", "number", "string", "interp"} -> {}
      [] e.kind \in {"global", "equal", "not", "length"} -> {Unknown}

(* A call: an unknown callee sees the arguments, a table is called by its   *)
(* metatable, and a function's parameters take the arguments, the last one  *)
(* standing for every result it may have.                                  *)
CallFacts(e, f, st) ==
    LET callee == Callee(e, f, st)
        args == Arguments(e, f, st)
        every == UNION Range(args)
        more == IF IsMultiple(e.args) THEN Last(args) ELSE {}
        argument(i) == IF i <= Len(args) THEN args[i] ELSE more
        enter(o) ==
            LET d == package.fns[o]
                extra == {args[i] : i \in Len(d.params) + 1 .. Len(args)} \cup {more}
            IN  JoinAll({Fact("locals", {d.params[i]} \X argument(i)) : i \in DOMAIN d.params}
                        \cup {Fact("active", {o}),
                              Fact("varargs", IF d.vararg THEN {o} \X UNION extra ELSE {})})
    IN  JoinAll({enter(o) : o \in Functions(callee)}
                \cup {Escape(Tables(callee)),
                      IF callee = Functions(callee) THEN Nothing ELSE Escape(every)})

ItemFacts(table, item, f, st) ==
    LET v == Value(item.value, f, st)
    IN  JoinAll({Facts(item.value, f, st),
                 CASE item.key = "" -> StoreUnknownFacts({table}, v)
                   [] item.key = "[]" -> JoinAll({Facts(item.by, f, st),
                                                  Escape(Value(item.by, f, st)),
                                                  StoreUnknownFacts({table}, v)})
                   [] OTHER -> StoreFacts({table}, item.key, v)})

(* What evaluating e adds. *)
FactsOf(e, f, st) ==
    CASE e.kind = "field" ->
             Join(Facts(e.base, f, st), FieldFacts(Value(e.base, f, st), e.key, st))
      [] e.kind = "index" ->
             JoinAll({Facts(e.base, f, st), Facts(e.by, f, st),
                      Escape(Value(e.base, f, st)), Escape(Value(e.by, f, st))})
      [] e.kind = "call" ->
             JoinAll({Facts(e.args[i], f, st) : i \in DOMAIN e.args}
                     \cup {Facts(e.func, f, st), CallFacts(e, f, st)})
      [] e.kind = "method" ->
             JoinAll({Facts(e.args[i], f, st) : i \in DOMAIN e.args}
                     \cup {Facts(e.base, f, st), CallFacts(e, f, st),
                           FieldFacts(Value(e.base, f, st), e.key, st)})
      [] e.kind = "table" -> JoinAll({ItemFacts(e.id, e.items[i], f, st) : i \in DOMAIN e.items})
      [] e.kind \in {"and", "or"} -> Join(Facts(e.left, f, st), Facts(e.right, f, st))
      [] e.kind = "equal" ->
             JoinAll({Facts(e.left, f, st), Facts(e.right, f, st),
                      Observe(Value(e.left, f, st)), Observe(Value(e.right, f, st))})
      [] e.kind = "not" -> Join(Facts(e.operand, f, st), Observe(Value(e.operand, f, st)))
      [] e.kind \in {"length", "interp"} ->
             Join(Facts(e.operand, f, st), Escape(Value(e.operand, f, st)))
      [] e.kind = "ifelse" ->
             JoinAll({Facts(e.condition, f, st), Observe(Value(e.condition, f, st)),
                      Facts(e.yes, f, st), Facts(e.no, f, st)})
      [] e.kind = "global" -> IF e.name \in Reflective THEN Disable ELSE Nothing
      [] OTHER -> Nothing

Visit(what, e, f, st) == IF what = "value" THEN ValueOf(e, f, st) ELSE FactsOf(e, f, st)

(* Assigning v to a target; a global cannot be assigned. *)
AssignFacts(target, v, f, st) ==
    CASE target.kind = "local" -> Fact("locals", {target.name} \X v)
      [] target.kind = "field" ->
             Join(Facts(target.base, f, st), StoreFacts(Value(target.base, f, st), target.key, v))
      [] target.kind = "index" ->
             JoinAll({Facts(target.base, f, st), Facts(target.by, f, st),
                      Escape(Value(target.by, f, st)),
                      StoreUnknownFacts(Value(target.base, f, st), v)})
      [] OTHER -> Join(Disable, Escape(v))

(* The values a list of expressions gives to the i-th of several targets. *)
Given(es, i, f, st) ==
    CASE i <= Len(es) -> Value(es[i], f, st)
      [] i > Len(es) /\ IsMultiple(es) -> Value(Last(es), f, st)
      [] OTHER -> {}
ListFacts(es, f, st) == JoinAll({Facts(es[i], f, st) : i \in DOMAIN es})
Observed(e, f, st) == Join(Facts(e, f, st), Observe(Value(e, f, st)))

RECURSIVE BlockState(_, _, _, _)

(* What is known after statement s of module m. *)
StatementState(s, m, f, st) ==
    CASE s.kind = "local" ->
             JoinAll({st, ListFacts(s.values, f, st)}
                     \cup {Fact("locals", {s.names[i]} \X Given(s.values, i, f, st))
                           : i \in DOMAIN s.names})
      [] s.kind = "localfunction" -> Join(st, Fact("locals", {<<s.name, s.id>>}))
      [] s.kind = "functionstat" -> Join(st, AssignFacts(s.target, {s.id}, f, st))
      [] s.kind = "assign" ->
             JoinAll({st, ListFacts(s.values, f, st)}
                     \cup {AssignFacts(s.targets[i], Given(s.values, i, f, st), f, st)
                           : i \in DOMAIN s.targets})
      [] s.kind = "compound" ->
             JoinAll({st, Observed(s.target, f, st), Observed(s.value, f, st),
                      AssignFacts(s.target, {Unknown}, f, st)})
      [] s.kind = "return" ->
             LET v == UNION {Value(s.values[i], f, st) : i \in DOMAIN s.values}
             IN  JoinAll({st, ListFacts(s.values, f, st),
                          IF f = 0 THEN Fact("modules", {m} \X v) ELSE Fact("returns", {f} \X v)})
      [] s.kind = "do" -> Join(st, Observed(s.value, f, st))
      [] s.kind = "if" ->
             BlockState(s.no, m, f, BlockState(s.yes, m, f, Join(st, Observed(s.condition, f, st))))
      [] s.kind = "while" -> BlockState(s.body, m, f, Join(st, Observed(s.condition, f, st)))
      [] s.kind = "repeat" ->
             LET inner == BlockState(s.body, m, f, st)
             IN  Join(inner, Observed(s.condition, f, inner))
      [] s.kind = "for" ->
             BlockState(s.body, m, f, JoinAll({st} \cup {Observed(s.range[i], f, st)
                                                         : i \in DOMAIN s.range}))
      [] s.kind = "forin" ->
             BlockState(s.body, m, f,
                 JoinAll({st, ListFacts(s.values, f, st),
                          Fact("locals", Range(s.names) \X {Unknown})}
                         \cup {Escape(Value(s.values[i], f, st)) : i \in DOMAIN s.values}))
      [] s.kind = "goto" -> st

BlockState(body, m, f, st) == FoldLeft(LAMBDA acc, s : StatementState(s, m, f, acc), st, body)

(* Every statement of a body, with those nested in it. *)
RECURSIVE Statements(_)
Statements(body) ==
    FlattenSeq([i \in DOMAIN body |->
        LET s == body[i]
        IN  <<s>> \o CASE s.kind = "if" -> Statements(s.yes) \o Statements(s.no)
                       [] s.kind \in {"while", "repeat", "for", "forin"} -> Statements(s.body)
                       [] OTHER -> <<>>])
EveryStatement ==
    FlattenSeq([i \in DOMAIN package.names |-> Statements(package.modules[package.names[i]])])
    \o FlattenSeq([i \in DOMAIN package.order |->
           IF IsFunction(package.order[i]) THEN Statements(package.fns[package.order[i]].body)
           ELSE <<>>])

(* Collector: the locals that are assigned or whose function is declared    *)
(* anew, and the expression each local starts with.                        *)
AssignedLocals(all) ==
    UNION {CASE s.kind = "assign" -> {t.name : t \in {t \in Range(s.targets) : t.kind = "local"}}
             [] s.kind \in {"compound", "functionstat"} ->
                    IF s.target.kind = "local" THEN {s.target.name} ELSE {}
             [] OTHER -> {}
           : s \in {all[i] : i \in DOMAIN all}}
Initializers(all) ==
    FoldLeft(LAMBDA acc, s :
                 IF s.kind # "local" THEN acc
                 ELSE [x \in {s.names[i] : i \in DOMAIN s.names \cap DOMAIN s.values} |->
                          s.values[Max({i \in DOMAIN s.names : s.names[i] = x})]] @@ acc,
             <<>>, all)
HasGoto(m) ==
    LET functions == {d \in Range(package.fns) : d.module = m}
    IN  \E body \in {package.modules[m]} \cup {d.body : d \in functions} :
            \E s \in Range(Statements(body)) : s.kind = "goto"

(* The table an expression starts as when every local on the way to it     *)
(* keeps its initial value, or Unknown.                                    *)
RECURSIVE InitialTable(_, _, _)
InitialTable(e, initial, assigned) ==
    CASE e.kind = "table" -> e.id
      [] e.kind = "local" /\ e.name \in DOMAIN initial \ assigned ->
             InitialTable(initial[e.name], initial, assigned)
      [] OTHER -> Unknown
(* Those of the functions in dead whose declaration can go: it stores a key *)
(* nobody reads in a table no unknown code sees.                           *)
RemovableFields(dead) ==
    LET all == EveryStatement
        initial == Initializers(all)
        assigned == AssignedLocals(all)
    IN  {o \in dead :
           LET d == package.fns[o]
           IN  /\ d.target.kind = "field" /\ ~HasGoto(d.module)
               /\ LET table == InitialTable(d.target.base, initial, assigned)
                  IN  /\ table # Unknown /\ table \notin facts.escaped
                      /\ <<table, d.target.key>> \notin facts.reads}

------------------------------------------------------------------------------

Init ==
    /\ package \in Packages
    /\ facts = Nothing
    /\ changed = FALSE
    /\ position = 1
    /\ rounds = 0
    /\ phase = "modules"
    /\ cut = {} /\ removed = {}

Unchanged == UNCHANGED <<package, rounds, cut, removed>>

(* Mutant: escape does not count as a change. *)
LearnButEscapes(st) ==
    /\ facts' = st
    /\ changed' = (changed \/ \E r \in Relations \ {"reads", "disabled", "escaped"} : st[r] # facts[r])
(* Everything but a read of a key is noticed as a change. *)
Learn(st) ==
    /\ facts' = st
    /\ changed' = (changed \/ \E r \in Relations \ {"reads", "disabled"} : st[r] # facts[r])

(* The root of the next module. *)
ModuleState(m, st) == BlockState(package.modules[m], m, 0, st)
VisitModule ==
    /\ phase = "modules"
    /\ Learn(ModuleState(package.names[position], facts))
    /\ IF position = Len(package.names) THEN phase' = "entry" /\ position' = 1
       ELSE phase' = phase /\ position' = position + 1
    /\ Unchanged

(* The host gets what the entry returns. *)
EntryState(st) == Join(st, Escape(Of(st.modules, package.entry)))
EntryEscapes ==
    /\ phase = "entry"
    /\ Learn(EntryState(facts))
    /\ phase' = "objects"
    /\ UNCHANGED position /\ Unchanged

(* The next object: what unknown code may do with it if it escaped, and     *)
(* the body of a function that may run.                                    *)
EscapedFacts(o, st) ==
    IF o \notin st.escaped THEN Nothing
    ELSE IF IsFunction(o)
         THEN LET d == package.fns[o]
              IN  JoinAll({Fact("active", {o}), Fact("locals", Range(d.params) \X {Unknown}),
                           Fact("varargs", {<<o, Unknown>>}), Escape(Of(st.returns, o))})
         ELSE Join(Escape({p[2] : p \in {q \in st.fields : q[1][1] = o}}), Escape(Of(st.rest, o)))
ObjectState(o, st) ==
    LET known == Join(st, EscapedFacts(o, st))
    IN  IF o \in known.active
        THEN BlockState(package.fns[o].body, package.fns[o].module, o, known)
        ELSE known
VisitObject ==
    /\ phase = "objects"
    /\ Learn(ObjectState(package.order[position], facts))
    /\ IF position = Len(package.order) THEN phase' = "round" /\ position' = 1
       ELSE phase' = phase /\ position' = position + 1
    /\ Unchanged

(* A round that added something is followed by another. *)
NextRound ==
    /\ phase = "round"
    /\ facts.disabled = {} /\ changed /\ rounds + 1 < MaxRounds
    /\ phase' = "modules" /\ changed' = FALSE
    /\ rounds' = rounds + 1
    /\ UNCHANGED <<package, facts, position, cut, removed>>

(* Nothing is rewritten: the package uses what the analysis does not       *)
(* follow, or it has visited too many nodes or made too many rounds.       *)
GiveUp ==
    /\ \/ phase = "round" /\ (facts.disabled # {} \/ (changed /\ rounds + 1 = MaxRounds))
       \/ phase # "done" /\ position = 1      \* the bound on the nodes visited
    /\ phase' = "done"
    /\ UNCHANGED <<package, facts, changed, position, rounds, cut, removed>>

(* The functions that cannot run, be seen or reach unknown code. *)
Dead == {o \in DOMAIN package.fns :
            o \notin facts.active \cup facts.observed \cup facts.escaped}

(* After a round that added nothing: each replacement that fits is made. *)
Rewrite ==
    /\ phase = "round"
    /\ facts.disabled = {} /\ ~changed
    /\ \E fits \in SUBSET Dead :
          /\ Cardinality(Dead \ fits) <= MaxUnfit
          /\ cut' = fits
          /\ removed' = RemovableFields(fits)
    /\ phase' = "done"
    /\ UNCHANGED <<package, facts, changed, position, rounds>>

Done == phase = "done" /\ UNCHANGED vars

Next == VisitModule \/ EntryEscapes \/ VisitObject \/ NextRound \/ GiveUp \/ Rewrite \/ Done

Spec == Init /\ [][Next]_vars

------------------------------------------------------------------------------

(* When the analysis rewrites, no visit of a module or an object could add *)
(* anything, the reads of keys included, although those are not counted as *)
(* a change (run's loop and field).                                        *)
RewritesAFixpoint ==
    phase = "round" /\ facts.disabled = {} /\ ~changed =>
        /\ \A m \in DOMAIN package.modules : ModuleState(m, facts) = facts
        /\ EntryState(facts) = facts
        /\ \A o \in Range(package.order) : ObjectState(o, facts) = facts

(* The compiled package does what its source does, whatever of the         *)
(* replacements fit, for a host that reads what it is given and for one    *)
(* that also writes it (docs/field-liveness.md).                           *)
PrunedPackageBehaves ==
    phase = "done" /\ cut # {} =>
        \A writes \in BOOLEAN :
            Behaviour(package, cut, removed, writes) = Behaviour(package, {}, {}, writes)
================================================================================
