----------------------------- MODULE AotHelpersProofs ---------------------------
(***************************************************************************)
(* Proofs about the helpers' use of the stack and the heap, for frames of  *)
(* any size, any numbers of arguments and constants, and any programs that *)
(* are loaded.                                                             *)
(*                                                                         *)
(* A path cannot be judged step by step from the state it is in: whether   *)
(* the rest is safe depends on all the steps that are left.  So paths are  *)
(* reasoned about like programs, with preconditions and postconditions on  *)
(* memory, and the inductive invariant says that the steps left are safe   *)
(* in the memory there is.                                                 *)
(***************************************************************************)
EXTENDS AotHelpers, FiniteSetTheorems, SequenceTheorems, TLAPS

IsPath(p) == \E R : p \in Seq(R)

(* The names in the steps of a path, and of all the paths there are.       *)
NamesIn(p) == UNION {p[i].on \cup p[i].with : i \in DOMAIN p}
Names == UNION {UNION {NamesIn(p) : p \in Programs[h] ** Leave} : h \in DOMAIN Programs}

(* The memory of a helper; of the temporaries, how many there are.         *)
Memory == [valid : SUBSET Names, loose : SUBSET Names, owed : SUBSET Names,
           height : Nat, room : Nat, kept : Nat, top : Names \cup {"frame", "results"}, saved : Nat]
memory == [valid |-> valid, loose |-> loose, owed |-> owed, height |-> Len(temporaries),
           room |-> room, kept |-> kept, top |-> top, saved |-> saved]

(* What the properties ask of the memory in which a step is taken.         *)
Fine(s, m) ==
    /\ s.size \in Nat
    /\ s.do \in {"use", "publish", "run", "call"} => s.on \subseteq m.valid
    /\ s.do \in Collecting => m.owed = {} /\ (GlobalsCall \/ m.loose = {})
    /\ m.saved <= m.height
    /\ s.do = "pop" => m.height > 0
    /\ s.do = "push" => m.height < m.room
    /\ s.do = "above" => m.height + s.size <= m.room
    /\ s.do = "leave" => m.top \in s.with /\ m.height = s.size

(* The memory n that step s can make of m.                                 *)
Moving == {"reserve", "raise", "collect", "run", "call"}
Shrinking == {"collect", "run", "call"}
Makes(s, m, n) ==
    /\ CASE s.do \in {"take", "push"} -> n.valid = m.valid \cup s.on
         [] s.do = "grow" -> n.valid = s.on \/ n.valid = m.valid \cup s.on
         [] s.do \in Moving -> n.valid = {} \/ n.valid = m.valid
         [] s.do \in {"pop", "restore"} -> n.valid \subseteq m.valid
         [] OTHER -> n.valid = m.valid
    /\ CASE s.do = "new" -> n.loose = m.loose \cup s.with
         [] s.do \in {"publish", "hold", "push"} -> n.loose = m.loose \ s.with
         [] OTHER -> n.loose = m.loose
    /\ CASE s.do = "store" -> n.owed = m.owed \cup s.with
         [] s.do = "barrier" -> n.owed = m.owed \ s.with
         [] OTHER -> n.owed = m.owed
    /\ CASE s.do = "push" -> n.height = m.height + 1
         [] s.do = "pop" -> n.height = m.height - 1
         [] s.do = "restore" -> n.height = m.saved
         [] OTHER -> n.height = m.height
    /\ CASE s.do \in {"reserve", "raise"} -> n.room >= m.room /\ n.room >= m.height + s.size
         [] s.do \in Shrinking -> n.room = m.room \/ (n.room >= m.height /\ n.room >= m.kept)
         [] OTHER -> n.room = m.room
    /\ IF s.do = "raise" THEN n.kept >= m.kept /\ n.kept >= m.height + s.size ELSE n.kept = m.kept
    /\ CASE s.do = "top" -> n.top \in s.with
         [] s.do = "call" -> n.top = "results"
         [] OTHER -> n.top = m.top
    /\ n.saved = IF s.do = "save" THEN m.height ELSE m.saved

(* A set of paths, each with a memory in which to take it, that contains   *)
(* what is left after each step: all of them are safe, and those that do   *)
(* not leave end in B.                                                     *)
SafeTo(S, B) ==
    \A p, m : <<p, m>> \in S =>
        /\ IsPath(p) /\ m \in Memory
        /\ IF p = <<>> THEN m \in B
           ELSE /\ Fine(p[1], m)
                /\ p[1].do # "leave" =>
                       \A n \in Memory : Makes(p[1], m, n) => <<Tail(p), n>> \in S

(* From a memory in A every path of P is safe and leaves or ends in B.     *)
Triple(A, P, B) ==
    /\ A \subseteq Memory /\ B \subseteq Memory
    /\ \A p \in P : IsPath(p)
    /\ \E S : SafeTo(S, B) /\ \A p \in P, m \in A : <<p, m>> \in S

-------------------------------------------------------------------------------
(* Induction over the natural numbers.  A least number outside S would     *)
(* have no predecessor outside S: going to the predecessor maps the        *)
(* numbers up to x outside S one to one to fewer.                          *)
LEMMA Induction ==
    ASSUME NEW S, 0 \in S, \A n \in Nat : n \in S => n + 1 \in S
    PROVE  Nat \subseteq S
<1> SUFFICES ASSUME NEW x \in Nat, x \notin S PROVE FALSE
  OBVIOUS
<1> DEFINE D == {y \in 0..x : y \notin S}
           E == D \ {x}
           f == [y \in D |-> y - 1]
<1>1. IsFiniteSet(D) /\ x \in D
  <2>1. IsFiniteSet(0..x)
    BY FS_Interval
  <2> QED BY <2>1, FS_Subset
<1>2. IsFiniteSet(E) /\ Cardinality(E) = Cardinality(D) - 1
  BY <1>1, FS_RemoveElement
<1>3. Cardinality(E) < Cardinality(D)
  BY <1>1, <1>2, FS_CardinalityType
<1>4. ASSUME NEW y \in D PROVE y - 1 \in E /\ y \in Nat /\ y # 0
  <2>1. y \in Nat /\ y <= x /\ y \notin S /\ y # 0
    OBVIOUS
  <2>2. y - 1 \in Nat /\ (y - 1) + 1 = y
    BY <2>1
  <2>3. y - 1 \notin S
    BY <2>1, <2>2
  <2> QED BY <2>1, <2>2, <2>3
<1>5. f \in [D -> E]
  BY <1>4
<1>6. PICK y, z \in D : y # z /\ f[y] = f[z]
  <2> HIDE DEF D, E, f
  <2> QED BY <1>1, <1>2, <1>3, <1>5, FS_PigeonHole
<1> QED BY <1>4, <1>6

(* What InTurn computes: nothing for no parts, and one part more each time. *)
LEMMA PartByPart ==
    ASSUME NEW parts, Len(parts) \in Nat
    PROVE  \E f : /\ InTurn(parts) = f[Len(parts)]
                  /\ f[0] = Nothing
                  /\ \A k \in 1..Len(parts) : f[k] = f[k - 1] ** parts[k]
<1> DEFINE N == Len(parts)
           Is(f, n) == f = [k \in 0..n |-> IF k = 0 THEN Nothing ELSE f[k - 1] ** parts[k]]
           S == {n \in Nat : \E f : Is(f, n)}
<1>1. 0 \in S
  <2> DEFINE f == [k \in 0..0 |-> Nothing]
  <2>1. Is(f, 0)
    OBVIOUS
  <2> HIDE DEF f
  <2> QED BY <2>1
<1>2. ASSUME NEW n \in Nat, n \in S PROVE n + 1 \in S
  <2>1. PICK f : Is(f, n)
    BY <1>2
  <2> DEFINE g == [k \in 0..n + 1 |-> IF k = n + 1 THEN f[n] ** parts[k] ELSE f[k]]
  <2>2. ASSUME NEW k \in 0..n + 1 PROVE g[k] = IF k = 0 THEN Nothing ELSE g[k - 1] ** parts[k]
    <3>1. CASE k = n + 1
      BY <3>1
    <3>2. CASE k \in 0..n
      <4>1. f[k] = IF k = 0 THEN Nothing ELSE f[k - 1] ** parts[k]
        BY <3>2, <2>1
      <4>2. g[k] = f[k] /\ (k # 0 => g[k - 1] = f[k - 1])
        BY <3>2
      <4> QED BY <4>1, <4>2
    <3> QED BY <3>1, <3>2
  <2>3. Is(g, n + 1)
    BY <2>2
  <2> HIDE DEF g
  <2> QED BY <2>3
<1>3. N \in S
  <2> HIDE DEF S
  <2> QED BY <1>1, <1>2, Induction
<1> DEFINE h == CHOOSE f : Is(f, N)
<1>4. Is(h, N)
  BY <1>3
<1>5. InTurn(parts) = h[N]
  BY DEF InTurn
<1> HIDE DEF h
<1>6. \A k \in 0..N : h[k] = IF k = 0 THEN Nothing ELSE h[k - 1] ** parts[k]
  BY <1>4
<1> QED BY <1>5, <1>6

-------------------------------------------------------------------------------
(* The rules. *)

(* No step: the memory stays.                                              *)
LEMMA Skip ==
    ASSUME NEW A, A \subseteq Memory
    PROVE  Triple(A, Nothing, A)
<1> DEFINE S == {<<>>} \X A
<1>1. IsPath(<<>>)
  BY DEF IsPath
<1>2. SafeTo(S, A)
  BY <1>1 DEF SafeTo
<1> QED BY <1>1, <1>2 DEF Triple, Nothing

(* One step.                                                               *)
LEMMA OneStep ==
    ASSUME NEW A, NEW B, A \subseteq Memory, B \subseteq Memory, NEW s,
           \A m \in A : /\ Fine(s, m)
                        /\ s.do # "leave" => \A n \in Memory : Makes(s, m, n) => n \in B
    PROVE  Triple(A, {<<s>>}, B)
<1> DEFINE S == ({<<s>>} \X A) \cup ({<<>>} \X B)
<1>1. IsPath(<<>>) /\ IsPath(<<s>>) /\ <<s>> # <<>> /\ Tail(<<s>>) = <<>> /\ <<s>>[1] = s
  <2>1. <<>> \in Seq({s}) /\ <<s>> \in Seq({s})
    OBVIOUS
  <2>2. IsPath(<<>>) /\ IsPath(<<s>>)
    BY <2>1 DEF IsPath
  <2>3. <<s>> # <<>> /\ Tail(<<s>>) = <<>> /\ <<s>>[1] = s
    OBVIOUS
  <2> QED BY <2>2, <2>3
<1>2. SafeTo(S, B)
  <2>1. ASSUME NEW p, NEW m, <<p, m>> \in S
        PROVE  /\ IsPath(p) /\ m \in Memory
               /\ IF p = <<>> THEN m \in B
                  ELSE /\ Fine(p[1], m)
                       /\ p[1].do # "leave" =>
                             \A n \in Memory : Makes(p[1], m, n) => <<Tail(p), n>> \in S
    <3>1. CASE p = <<>> /\ m \in B
      BY <3>1, <1>1
    <3>2. CASE p = <<s>> /\ m \in A
      BY <3>2, <1>1
    <3> QED BY <3>1, <3>2, <2>1
  <2> QED BY <2>1 DEF SafeTo
<1> QED BY <1>1, <1>2 DEF Triple

(* From less and to more.                                                  *)
LEMMA Weaken ==
    ASSUME NEW A, NEW B, NEW C, NEW D, NEW P, Triple(B, P, C),
           A \subseteq B, C \subseteq D, D \subseteq Memory
    PROVE  Triple(A, P, D)
<1>1. PICK S : SafeTo(S, C) /\ \A p \in P, m \in B : <<p, m>> \in S
  BY DEF Triple
<1>2. SafeTo(S, D)
  BY <1>1 DEF SafeTo
<1> QED BY <1>1, <1>2 DEF Triple

(* Either of two.                                                          *)
LEMMA Choice ==
    ASSUME NEW A, NEW B, NEW P, NEW Q, Triple(A, P, B), Triple(A, Q, B)
    PROVE  Triple(A, P \cup Q, B)
<1>1. PICK S : SafeTo(S, B) /\ \A p \in P, m \in A : <<p, m>> \in S
  BY DEF Triple
<1>2. PICK T : SafeTo(T, B) /\ \A q \in Q, m \in A : <<q, m>> \in T
  BY DEF Triple
<1>3. SafeTo(S \cup T, B)
  BY <1>1, <1>2 DEF SafeTo
<1> QED BY <1>1, <1>2, <1>3 DEF Triple

(* Any of a family.                                                        *)
LEMMA AnyOf ==
    ASSUME NEW A, NEW B, NEW F, A \subseteq Memory, B \subseteq Memory, \A P \in F : Triple(A, P, B)
    PROVE  Triple(A, UNION F, B)
<1> DEFINE SafeFor(P) == CHOOSE S : SafeTo(S, B) /\ \A p \in P, m \in A : <<p, m>> \in S
           U == UNION {SafeFor(P) : P \in F}
<1>1. ASSUME NEW P \in F
      PROVE  SafeTo(SafeFor(P), B) /\ (\A p \in P, m \in A : <<p, m>> \in SafeFor(P))
               /\ \A p \in P : IsPath(p)
  <2>1. \E S : SafeTo(S, B) /\ \A p \in P, m \in A : <<p, m>> \in S
    BY DEF Triple
  <2>2. \A p \in P : IsPath(p)
    BY DEF Triple
  <2> QED BY <2>1, <2>2
<1> HIDE DEF SafeFor
<1>2. SafeTo(U, B)
  <2>1. ASSUME NEW p, NEW m, <<p, m>> \in U
        PROVE  /\ IsPath(p) /\ m \in Memory
               /\ IF p = <<>> THEN m \in B
                  ELSE /\ Fine(p[1], m)
                       /\ p[1].do # "leave" =>
                             \A n \in Memory : Makes(p[1], m, n) => <<Tail(p), n>> \in U
    <3>1. PICK P \in F : <<p, m>> \in SafeFor(P)
      BY <2>1
    <3>2. SafeTo(SafeFor(P), B) /\ SafeFor(P) \subseteq U
      BY <1>1
    <3> QED BY <3>1, <3>2 DEF SafeTo
  <2> QED BY <2>1 DEF SafeTo
<1>3. \A p \in UNION F, m \in A : <<p, m>> \in U
  BY <1>1
<1>4. \A p \in UNION F : IsPath(p)
  BY <1>1
<1> QED BY <1>2, <1>3, <1>4 DEF Triple

(* Paths are put together: what is left of the first part, the second, or  *)
(* only the first if it leaves.                                            *)
LEMMA Heads ==
    ASSUME NEW p, NEW q, IsPath(p), IsPath(q)
    PROVE  /\ IsPath(p \o q)
           /\ p = <<>> => p \o q = q
           /\ p # <<>> => /\ IsPath(Tail(p)) /\ p \o q # <<>>
                          /\ (p \o q)[1] = p[1] /\ Tail(p \o q) = Tail(p) \o q
                          /\ Ended(p) /\ p[1].do # "leave" => Ended(Tail(p))
<1>1. PICK R : p \in Seq(R) /\ q \in Seq(R)
  <2>1. PICK R1, R2 : p \in Seq(R1) /\ q \in Seq(R2)
    BY DEF IsPath
  <2>2. p \in Seq(R1 \cup R2) /\ q \in Seq(R1 \cup R2)
    BY <2>1, LenProperties, ElementOfSeq, SeqDef
  <2> QED BY <2>2
<1>2. /\ p \o q \in Seq(R) /\ Len(p \o q) = Len(p) + Len(q) /\ Len(p) \in Nat /\ Len(q) \in Nat
      /\ \A i \in 1..Len(p) + Len(q) : (p \o q)[i] = IF i <= Len(p) THEN p[i] ELSE q[i - Len(p)]
  BY <1>1, ConcatProperties, LenProperties
<1>3. p = <<>> => p \o q = q
  BY <1>1, ConcatEmptySeq
<1> SUFFICES ASSUME p # <<>>
             PROVE  /\ IsPath(Tail(p)) /\ p \o q # <<>>
                    /\ (p \o q)[1] = p[1] /\ Tail(p \o q) = Tail(p) \o q
                    /\ Ended(p) /\ p[1].do # "leave" => Ended(Tail(p))
  BY <1>2, <1>3 DEF IsPath
<1>4. Len(p) > 0
  BY <1>1, <1>2, EmptySeq
<1>5. /\ Tail(p) \in Seq(R) /\ Len(Tail(p)) = Len(p) - 1
      /\ \A i \in 1..Len(p) - 1 : Tail(p)[i] = p[i + 1]
  BY <1>1, HeadTailProperties
<1>6. p \o q # <<>> /\ (p \o q)[1] = p[1]
  <2>1. Len(p \o q) # 0 /\ Len(<<>>) = 0
    BY <1>2, <1>4
  <2>2. 1 \in 1..Len(p) + Len(q) /\ 1 <= Len(p)
    BY <1>2, <1>4
  <2> QED BY <1>2, <2>1, <2>2
<1>7. Tail(p \o q) = Tail(p) \o q
  <2>1. /\ Tail(p \o q) \in Seq(R) /\ Len(Tail(p \o q)) = Len(p) + Len(q) - 1
        /\ \A i \in 1..Len(p) + Len(q) - 1 : Tail(p \o q)[i] = (p \o q)[i + 1]
    BY <1>2, <1>6, HeadTailProperties
  <2>2. /\ Tail(p) \o q \in Seq(R) /\ Len(Tail(p) \o q) = Len(p) - 1 + Len(q)
        /\ \A i \in 1..Len(p) - 1 + Len(q) :
                (Tail(p) \o q)[i] = IF i <= Len(p) - 1 THEN Tail(p)[i] ELSE q[i - (Len(p) - 1)]
    BY <1>1, <1>5, ConcatProperties
  <2>3. ASSUME NEW i \in 1..Len(p) + Len(q) - 1 PROVE Tail(p \o q)[i] = (Tail(p) \o q)[i]
    <3>1. Tail(p \o q)[i] = IF i + 1 <= Len(p) THEN p[i + 1] ELSE q[i + 1 - Len(p)]
      BY <1>2, <2>1
    <3>2. (Tail(p) \o q)[i] = IF i <= Len(p) - 1 THEN p[i + 1] ELSE q[i - (Len(p) - 1)]
      BY <1>2, <1>4, <1>5, <2>2
    <3> QED BY <1>2, <3>1, <3>2
  <2> QED BY <1>2, <1>4, <2>1, <2>2, <2>3, SeqEqual
<1>8. Ended(p) /\ p[1].do # "leave" => Ended(Tail(p))
  <2>1. SUFFICES ASSUME p[Len(p)].do = "leave", p[1].do # "leave" PROVE Ended(Tail(p))
    BY DEF Ended
  <2>2. Len(p) > 1
    BY <1>2, <1>4, <2>1
  <2>3. Tail(p)[Len(Tail(p))] = p[Len(p)]
    <3> DEFINE n == Len(p) - 1
    <3>1. n \in 1..Len(p) - 1 /\ n + 1 = Len(p) /\ Len(Tail(p)) = n
      BY <1>2, <1>5, <2>2
    <3> HIDE DEF n
    <3>2. Tail(p)[n] = p[n + 1]
      BY <1>5, <3>1
    <3> QED BY <3>1, <3>2
  <2>4. Tail(p) # <<>>
    <3>1. Len(Tail(p)) # 0
      BY <1>2, <1>5, <2>2
    <3>2. Len(<<>>) = 0
      OBVIOUS
    <3> QED BY <3>1, <3>2
  <2> QED BY <2>1, <2>3, <2>4 DEF Ended
<1> QED BY <1>5, <1>6, <1>7, <1>8 DEF IsPath

(* One after the other.                                                    *)
LEMMA Sequence ==
    ASSUME NEW A, NEW B, NEW C, NEW P, NEW Q, Triple(A, P, B), Triple(B, Q, C)
    PROVE  Triple(A, P ** Q, C)
<1>1. PICK S : SafeTo(S, B) /\ \A p \in P, m \in A : <<p, m>> \in S
  BY DEF Triple
<1>2. PICK T : SafeTo(T, C) /\ \A q \in Q, m \in B : <<q, m>> \in T
  BY DEF Triple
<1>3. /\ \A p \in P : IsPath(p)
      /\ \A q \in Q : IsPath(q)
      /\ A \subseteq Memory /\ B \subseteq Memory /\ C \subseteq Memory
  BY DEF Triple
<1> DEFINE Leaving == {e \in S : Ended(e[1])}
           Parts == {e[1] : e \in S}
           Joined == UNION {{p \o q : p \in Parts} : q \in Q}
           Going == {e \in Joined \X Memory : \E p \in Parts, q \in Q :
                        e[1] = p \o q /\ <<p, e[2]>> \in S}
           U == Leaving \cup Going \cup T
<1>4. ASSUME NEW p, NEW q, NEW m, q \in Q, <<p, m>> \in S PROVE <<p \o q, m>> \in U
  <2>1. m \in Memory /\ p \in Parts
    BY <1>1, <1>4 DEF SafeTo
  <2>2. p \o q \in Joined
    BY <1>4, <2>1
  <2> HIDE DEF Joined, Parts
  <2> QED BY <1>4, <2>1, <2>2
<1>5. \A p, m : <<p, m>> \in S /\ Ended(p) => <<p, m>> \in U
  OBVIOUS
<1>6. \A q, m : <<q, m>> \in T => <<q, m>> \in U
  OBVIOUS
<1>7. ASSUME NEW r, NEW m, <<r, m>> \in U
      PROVE  \/ <<r, m>> \in T
             \/ <<r, m>> \in S /\ Ended(r)
             \/ \E p, q : q \in Q /\ r = p \o q /\ <<p, m>> \in S
  <2> HIDE DEF Joined, Parts
  <2> QED BY <1>7
<1> HIDE DEF U
<1>8. ASSUME NEW r, NEW m, <<r, m>> \in U
      PROVE  /\ IsPath(r) /\ m \in Memory
             /\ IF r = <<>> THEN m \in C
                ELSE /\ Fine(r[1], m)
                     /\ r[1].do # "leave" =>
                           \A n \in Memory : Makes(r[1], m, n) => <<Tail(r), n>> \in U
  <2>1. CASE <<r, m>> \in T
    BY <1>2, <1>6, <2>1 DEF SafeTo
  <2>2. CASE <<r, m>> \in S /\ Ended(r)
    <3>1. r # <<>> /\ IsPath(r) /\ m \in Memory
      BY <1>1, <2>2 DEF Ended, SafeTo
    <3>2. r[1].do # "leave" => Ended(Tail(r))
      BY <2>2, <3>1, Heads
    <3> QED BY <1>1, <1>5, <2>2, <3>1, <3>2 DEF SafeTo
  <2>3. ASSUME NEW p, NEW q, q \in Q, r = p \o q, <<p, m>> \in S
        PROVE  /\ IsPath(r) /\ m \in Memory
               /\ IF r = <<>> THEN m \in C
                  ELSE /\ Fine(r[1], m)
                       /\ r[1].do # "leave" =>
                             \A n \in Memory : Makes(r[1], m, n) => <<Tail(r), n>> \in U
    <3>1. IsPath(p) /\ IsPath(q) /\ IsPath(r) /\ m \in Memory
      BY <1>1, <1>3, <2>3, Heads DEF SafeTo
    <3>2. CASE p = <<>>
      <4>1. r = q
        BY <2>3, <3>1, <3>2, Heads
      <4>2. m \in B
        BY <1>1, <2>3, <3>2 DEF SafeTo
      <4>3. <<r, m>> \in T
        BY <1>2, <2>3, <4>1, <4>2
      <4> QED BY <2>1, <4>3
    <3>3. CASE p # <<>>
      <4>1. r # <<>> /\ r[1] = p[1] /\ Tail(r) = Tail(p) \o q
        BY <2>3, <3>1, <3>3, Heads
      <4>2. Fine(p[1], m) /\ (p[1].do # "leave" =>
                \A n \in Memory : Makes(p[1], m, n) => <<Tail(p), n>> \in S)
        BY <1>1, <2>3, <3>3 DEF SafeTo
      <4> QED BY <1>4, <2>3, <3>1, <4>1, <4>2
    <3> QED BY <3>2, <3>3
  <2> QED BY <1>7, <1>8, <2>1, <2>2, <2>3
<1>9. SafeTo(U, C)
  BY <1>8 DEF SafeTo
<1>10. ASSUME NEW r \in P ** Q PROVE IsPath(r)
  <2>1. PICK p \in P, q \in Q : r = IF Ended(p) THEN p ELSE p \o q
    BY DEF **
  <2> QED BY <1>3, <2>1, Heads
<1>11. ASSUME NEW r \in P ** Q, NEW m \in A PROVE <<r, m>> \in U
  <2>1. PICK p \in P, q \in Q : r = IF Ended(p) THEN p ELSE p \o q
    BY DEF **
  <2>2. <<p, m>> \in S
    BY <1>1, <1>3
  <2> QED BY <1>4, <1>5, <2>1, <2>2
<1> QED BY <1>3, <1>9, <1>10, <1>11 DEF Triple

-------------------------------------------------------------------------------
(* What is known of the memory: which addresses are good at least, what is *)
(* loose and owed at most, how many temporaries there are, in how much     *)
(* room at least, what the top may be, and which height was saved.         *)
Having(V, L, O, h, r, k, T, s) ==
    {m \in Memory : /\ V \subseteq m.valid /\ m.loose \subseteq L /\ m.owed \subseteq O
                    /\ m.height = h /\ m.room >= r /\ m.kept >= k
                    /\ m.top \in T /\ m.saved = s}

(* Addresses are taken.                                                    *)
LEMMA Taking ==
    ASSUME NEW V, NEW L, NEW O, NEW h \in Nat, NEW r \in Nat, NEW k \in Nat, NEW T, NEW s \in Nat,
           NEW S, NEW W, s <= h, W \subseteq V \cup S
    PROVE  Triple(Having(V, L, O, h, r, k, T, s), At(S), Having(W, L, O, h, r, k, T, s))
<1> DEFINE e == [do |-> "take", on |-> S, with |-> {}, size |-> 0]
<1>1. At(S) = {<<e>>} /\ e.do # "leave"
  BY DEF At, Step
<1>2. \A m \in Having(V, L, O, h, r, k, T, s) : Fine(e, m)
  BY DEF Having, Fine, Collecting, Memory
<1>3. \A m \in Having(V, L, O, h, r, k, T, s), x \in Memory :
        Makes(e, m, x) => x \in Having(W, L, O, h, r, k, T, s)
  BY DEF Having, Makes, Moving, Shrinking, Memory
<1>4. Having(V, L, O, h, r, k, T, s) \subseteq Memory
        /\ Having(W, L, O, h, r, k, T, s) \subseteq Memory
  BY DEF Having
<1> HIDE DEF e
<1> QED BY <1>1, <1>2, <1>3, <1>4, OneStep

(* They are used.                                                          *)
LEMMA Using ==
    ASSUME NEW V, NEW L, NEW O, NEW h \in Nat, NEW r \in Nat, NEW k \in Nat, NEW T, NEW s \in Nat,
           NEW S, NEW W, s <= h, S \subseteq V, W \subseteq V
    PROVE  Triple(Having(V, L, O, h, r, k, T, s), Use(S), Having(W, L, O, h, r, k, T, s))
<1> DEFINE e == [do |-> "use", on |-> S, with |-> {}, size |-> 0]
<1>1. Use(S) = {<<e>>} /\ e.do # "leave"
  BY DEF Use, Step
<1>2. \A m \in Having(V, L, O, h, r, k, T, s) : Fine(e, m)
  BY DEF Having, Fine, Collecting, Memory
<1>3. \A m \in Having(V, L, O, h, r, k, T, s), x \in Memory :
        Makes(e, m, x) => x \in Having(W, L, O, h, r, k, T, s)
  BY DEF Having, Makes, Moving, Shrinking, Memory
<1>4. Having(V, L, O, h, r, k, T, s) \subseteq Memory
        /\ Having(W, L, O, h, r, k, T, s) \subseteq Memory
  BY DEF Having
<1> HIDE DEF e
<1> QED BY <1>1, <1>2, <1>3, <1>4, OneStep

(* A check.                                                                *)
LEMMA Guarding ==
    ASSUME NEW V, NEW L, NEW O, NEW h \in Nat, NEW r \in Nat, NEW k \in Nat, NEW T, NEW s \in Nat,
           NEW W, s <= h, W \subseteq V
    PROVE  Triple(Having(V, L, O, h, r, k, T, s), Guard, Having(W, L, O, h, r, k, T, s))
<1> DEFINE e == [do |-> "guard", on |-> {}, with |-> {}, size |-> 0]
<1>1. Guard = {<<e>>} /\ e.do # "leave"
  BY DEF Guard, Step
<1>2. \A m \in Having(V, L, O, h, r, k, T, s) : Fine(e, m)
  BY DEF Having, Fine, Collecting, Memory
<1>3. \A m \in Having(V, L, O, h, r, k, T, s), x \in Memory :
        Makes(e, m, x) => x \in Having(W, L, O, h, r, k, T, s)
  BY DEF Having, Makes, Moving, Shrinking, Memory
<1>4. Having(V, L, O, h, r, k, T, s) \subseteq Memory
        /\ Having(W, L, O, h, r, k, T, s) \subseteq Memory
  BY DEF Having
<1> HIDE DEF e
<1> QED BY <1>1, <1>2, <1>3, <1>4, OneStep

(* Room is made, and the stack may move.                                   *)
LEMMA Reserving ==
    ASSUME NEW V, NEW L, NEW O, NEW h \in Nat, NEW r \in Nat, NEW k \in Nat, NEW T, NEW s \in Nat,
           NEW n \in Nat, NEW q \in Nat, s <= h, q <= h + n \/ q <= r
    PROVE  Triple(Having(V, L, O, h, r, k, T, s), Reserve(n), Having({}, L, O, h, q, k, T, s))
<1> DEFINE e == [do |-> "reserve", on |-> {}, with |-> {}, size |-> n]
<1>1. Reserve(n) = {<<e>>} /\ e.do # "leave"
  BY DEF Reserve, Step
<1>2. \A m \in Having(V, L, O, h, r, k, T, s) : Fine(e, m)
  BY DEF Having, Fine, Collecting, Memory
<1>3. \A m \in Having(V, L, O, h, r, k, T, s), x \in Memory :
        Makes(e, m, x) => x \in Having({}, L, O, h, q, k, T, s)
  BY DEF Having, Makes, Moving, Shrinking, Memory
<1>4. Having(V, L, O, h, r, k, T, s) \subseteq Memory
        /\ Having({}, L, O, h, q, k, T, s) \subseteq Memory
  BY DEF Having
<1> HIDE DEF e
<1> QED BY <1>1, <1>2, <1>3, <1>4, OneStep

(* Room is made below ci->top.                                             *)
LEMMA RaisingTop ==
    ASSUME NEW V, NEW L, NEW O, NEW h \in Nat, NEW r \in Nat, NEW k \in Nat, NEW T, NEW s \in Nat,
           NEW n \in Nat, NEW q \in Nat, s <= h, q <= h + n
    PROVE  Triple(Having(V, L, O, h, r, k, T, s), ReserveTop(n), Having({}, L, O, h, q, q, T, s))
<1> DEFINE e == [do |-> "raise", on |-> {}, with |-> {}, size |-> n]
<1>1. ReserveTop(n) = {<<e>>} /\ e.do # "leave"
  BY DEF ReserveTop, Step
<1>2. \A m \in Having(V, L, O, h, r, k, T, s) : Fine(e, m)
  BY DEF Having, Fine, Collecting, Memory
<1>3. \A m \in Having(V, L, O, h, r, k, T, s), x \in Memory :
        Makes(e, m, x) => x \in Having({}, L, O, h, q, q, T, s)
  BY DEF Having, Makes, Moving, Shrinking, Memory
<1>4. Having(V, L, O, h, r, k, T, s) \subseteq Memory
        /\ Having({}, L, O, h, q, q, T, s) \subseteq Memory
  BY DEF Having
<1> HIDE DEF e
<1> QED BY <1>1, <1>2, <1>3, <1>4, OneStep

(* An object is made.                                                      *)
LEMMA Allocating ==
    ASSUME NEW V, NEW L, NEW O, NEW h \in Nat, NEW r \in Nat, NEW k \in Nat, NEW T, NEW s \in Nat,
           NEW o, NEW M, NEW W, s <= h, W \subseteq V, L \cup {o} \subseteq M
    PROVE  Triple(Having(V, L, O, h, r, k, T, s), New(o), Having(W, M, O, h, r, k, T, s))
<1> DEFINE e == [do |-> "new", on |-> {}, with |-> {o}, size |-> 0]
<1>1. New(o) = {<<e>>} /\ e.do # "leave"
  BY DEF New, Step
<1>2. \A m \in Having(V, L, O, h, r, k, T, s) : Fine(e, m)
  BY DEF Having, Fine, Collecting, Memory
<1>3. \A m \in Having(V, L, O, h, r, k, T, s), x \in Memory :
        Makes(e, m, x) => x \in Having(W, M, O, h, r, k, T, s)
  BY DEF Having, Makes, Moving, Shrinking, Memory
<1>4. Having(V, L, O, h, r, k, T, s) \subseteq Memory
        /\ Having(W, M, O, h, r, k, T, s) \subseteq Memory
  BY DEF Having
<1> HIDE DEF e
<1> QED BY <1>1, <1>2, <1>3, <1>4, OneStep

(* It is put in a register.                                                *)
LEMMA Publishing ==
    ASSUME NEW V, NEW L, NEW O, NEW h \in Nat, NEW r \in Nat, NEW k \in Nat, NEW T, NEW s \in Nat,
           NEW a, NEW o, NEW M, NEW W, s <= h, W \subseteq V, a \in V, L \ {o} \subseteq M
    PROVE  Triple(Having(V, L, O, h, r, k, T, s), Publish(a, o), Having(W, M, O, h, r, k, T, s))
<1> DEFINE e == [do |-> "publish", on |-> {a}, with |-> {o}, size |-> 0]
<1>1. Publish(a, o) = {<<e>>} /\ e.do # "leave"
  BY DEF Publish, Step
<1>2. \A m \in Having(V, L, O, h, r, k, T, s) : Fine(e, m)
  BY DEF Having, Fine, Collecting, Memory
<1>3. \A m \in Having(V, L, O, h, r, k, T, s), x \in Memory :
        Makes(e, m, x) => x \in Having(W, M, O, h, r, k, T, s)
  BY DEF Having, Makes, Moving, Shrinking, Memory
<1>4. Having(V, L, O, h, r, k, T, s) \subseteq Memory
        /\ Having(W, M, O, h, r, k, T, s) \subseteq Memory
  BY DEF Having
<1> HIDE DEF e
<1> QED BY <1>1, <1>2, <1>3, <1>4, OneStep

(* It is put in an object.                                                 *)
LEMMA Holding ==
    ASSUME NEW V, NEW L, NEW O, NEW h \in Nat, NEW r \in Nat, NEW k \in Nat, NEW T, NEW s \in Nat,
           NEW o, NEW M, NEW W, s <= h, W \subseteq V, L \ {o} \subseteq M
    PROVE  Triple(Having(V, L, O, h, r, k, T, s), Hold(o), Having(W, M, O, h, r, k, T, s))
<1> DEFINE e == [do |-> "hold", on |-> {}, with |-> {o}, size |-> 0]
<1>1. Hold(o) = {<<e>>} /\ e.do # "leave"
  BY DEF Hold, Step
<1>2. \A m \in Having(V, L, O, h, r, k, T, s) : Fine(e, m)
  BY DEF Having, Fine, Collecting, Memory
<1>3. \A m \in Having(V, L, O, h, r, k, T, s), x \in Memory :
        Makes(e, m, x) => x \in Having(W, M, O, h, r, k, T, s)
  BY DEF Having, Makes, Moving, Shrinking, Memory
<1>4. Having(V, L, O, h, r, k, T, s) \subseteq Memory
        /\ Having(W, M, O, h, r, k, T, s) \subseteq Memory
  BY DEF Having
<1> HIDE DEF e
<1> QED BY <1>1, <1>2, <1>3, <1>4, OneStep

(* It is pushed, and its address is known.                                 *)
LEMMA Pushing ==
    ASSUME NEW V, NEW L, NEW O, NEW h \in Nat, NEW r \in Nat, NEW k \in Nat, NEW T, NEW s \in Nat,
           NEW o, NEW M, NEW W, NEW g \in Nat, s <= h, h < r, g = h + 1, L \ {o} \subseteq M,
           W \subseteq V \cup {o}
    PROVE  Triple(Having(V, L, O, h, r, k, T, s), Push(o), Having(W, M, O, g, r, k, T, s))
<1> DEFINE e == [do |-> "push", on |-> {o}, with |-> {o}, size |-> 1]
<1>1. Push(o) = {<<e>>} /\ e.do # "leave"
  BY DEF Push, Step
<1>2. \A m \in Having(V, L, O, h, r, k, T, s) : Fine(e, m)
  BY DEF Having, Fine, Collecting, Memory
<1>3. \A m \in Having(V, L, O, h, r, k, T, s), x \in Memory :
        Makes(e, m, x) => x \in Having(W, M, O, g, r, k, T, s)
  BY DEF Having, Makes, Moving, Shrinking, Memory
<1>4. Having(V, L, O, h, r, k, T, s) \subseteq Memory
        /\ Having(W, M, O, g, r, k, T, s) \subseteq Memory
  BY DEF Having
<1> HIDE DEF e
<1> QED BY <1>1, <1>2, <1>3, <1>4, OneStep

(* The first value, in room for it.                                        *)
LEMMA PushingFirst ==
    ASSUME NEW V, NEW L, NEW O, NEW r \in Nat, NEW k \in Nat, NEW T, NEW o, NEW M, NEW W,
           0 < r, L \ {o} \subseteq M, W \subseteq V \cup {o}
    PROVE  Triple(Having(V, L, O, 0, r, k, T, 0), Push(o), Having(W, M, O, 1, r, k, T, 0))
<1>1. 1 = 0 + 1 /\ 0 <= 0 /\ 0 \in Nat /\ 1 \in Nat
  OBVIOUS
<1> QED BY <1>1, Pushing

(* A value is popped.                                                      *)
LEMMA Popping ==
    ASSUME NEW V, NEW L, NEW O, NEW h \in Nat, NEW r \in Nat, NEW k \in Nat, NEW T, NEW s \in Nat,
           NEW g \in Nat, s <= h, h = g + 1, s <= g
    PROVE  Triple(Having(V, L, O, h, r, k, T, s), Pop, Having({}, L, O, g, r, k, T, s))
<1> DEFINE e == [do |-> "pop", on |-> {}, with |-> {}, size |-> 1]
<1>1. Pop = {<<e>>} /\ e.do # "leave"
  BY DEF Pop, Step
<1>2. \A m \in Having(V, L, O, h, r, k, T, s) : Fine(e, m)
  BY DEF Having, Fine, Collecting, Memory
<1>3. \A m \in Having(V, L, O, h, r, k, T, s), x \in Memory :
        Makes(e, m, x) => x \in Having({}, L, O, g, r, k, T, s)
  BY DEF Having, Makes, Moving, Shrinking, Memory
<1>4. Having(V, L, O, h, r, k, T, s) \subseteq Memory
        /\ Having({}, L, O, g, r, k, T, s) \subseteq Memory
  BY DEF Having
<1> HIDE DEF e
<1> QED BY <1>1, <1>2, <1>3, <1>4, OneStep

(* Slots above the top are written.                                        *)
LEMMA WritingAbove ==
    ASSUME NEW V, NEW L, NEW O, NEW h \in Nat, NEW r \in Nat, NEW k \in Nat, NEW T, NEW s \in Nat,
           NEW n \in Nat, NEW W, s <= h, h + n <= r, W \subseteq V
    PROVE  Triple(Having(V, L, O, h, r, k, T, s), Above(n), Having(W, L, O, h, r, k, T, s))
<1> DEFINE e == [do |-> "above", on |-> {}, with |-> {}, size |-> n]
<1>1. Above(n) = {<<e>>} /\ e.do # "leave"
  BY DEF Above, Step
<1>2. \A m \in Having(V, L, O, h, r, k, T, s) : Fine(e, m)
  BY DEF Having, Fine, Collecting, Memory
<1>3. \A m \in Having(V, L, O, h, r, k, T, s), x \in Memory :
        Makes(e, m, x) => x \in Having(W, L, O, h, r, k, T, s)
  BY DEF Having, Makes, Moving, Shrinking, Memory
<1>4. Having(V, L, O, h, r, k, T, s) \subseteq Memory
        /\ Having(W, L, O, h, r, k, T, s) \subseteq Memory
  BY DEF Having
<1> HIDE DEF e
<1> QED BY <1>1, <1>2, <1>3, <1>4, OneStep

(* The top is set.                                                         *)
LEMMA SettingTop ==
    ASSUME NEW V, NEW L, NEW O, NEW h \in Nat, NEW r \in Nat, NEW k \in Nat, NEW T, NEW s \in Nat,
           NEW t, NEW W, NEW X, NEW q \in Nat, s <= h, t \in X, q <= r, W \subseteq V
    PROVE  Triple(Having(V, L, O, h, r, k, T, s), Top(t), Having(W, L, O, h, q, k, X, s))
<1> DEFINE e == [do |-> "top", on |-> {}, with |-> {t}, size |-> 0]
<1>1. Top(t) = {<<e>>} /\ e.do # "leave"
  BY DEF Top, Step
<1>2. \A m \in Having(V, L, O, h, r, k, T, s) : Fine(e, m)
  BY DEF Having, Fine, Collecting, Memory
<1>3. \A m \in Having(V, L, O, h, r, k, T, s), x \in Memory :
        Makes(e, m, x) => x \in Having(W, L, O, h, q, k, X, s)
  BY DEF Having, Makes, Moving, Shrinking, Memory
<1>4. Having(V, L, O, h, r, k, T, s) \subseteq Memory
        /\ Having(W, L, O, h, q, k, X, s) \subseteq Memory
  BY DEF Having
<1> HIDE DEF e
<1> QED BY <1>1, <1>2, <1>3, <1>4, OneStep

(* The top is saved.                                                       *)
LEMMA Saving ==
    ASSUME NEW V, NEW L, NEW O, NEW h \in Nat, NEW r \in Nat, NEW k \in Nat, NEW T, NEW s \in Nat,
           NEW W, s <= h, W \subseteq V
    PROVE  Triple(Having(V, L, O, h, r, k, T, s), SaveTop, Having(W, L, O, h, r, k, T, h))
<1> DEFINE e == [do |-> "save", on |-> {}, with |-> {}, size |-> 0]
<1>1. SaveTop = {<<e>>} /\ e.do # "leave"
  BY DEF SaveTop, Step
<1>2. \A m \in Having(V, L, O, h, r, k, T, s) : Fine(e, m)
  BY DEF Having, Fine, Collecting, Memory
<1>3. \A m \in Having(V, L, O, h, r, k, T, s), x \in Memory :
        Makes(e, m, x) => x \in Having(W, L, O, h, r, k, T, h)
  BY DEF Having, Makes, Moving, Shrinking, Memory
<1>4. Having(V, L, O, h, r, k, T, s) \subseteq Memory
        /\ Having(W, L, O, h, r, k, T, h) \subseteq Memory
  BY DEF Having
<1> HIDE DEF e
<1> QED BY <1>1, <1>2, <1>3, <1>4, OneStep

(* What is above the saved top goes, with its addresses.                   *)
LEMMA Restoring ==
    ASSUME NEW V, NEW L, NEW O, NEW h \in Nat, NEW r \in Nat, NEW k \in Nat, NEW T, NEW s \in Nat,
           NEW q \in Nat, s <= h, q <= r
    PROVE  Triple(Having(V, L, O, h, r, k, T, s), RestoreTop, Having({}, L, O, s, q, k, T, s))
<1> DEFINE e == [do |-> "restore", on |-> {}, with |-> {}, size |-> 0]
<1>1. RestoreTop = {<<e>>} /\ e.do # "leave"
  BY DEF RestoreTop, Step
<1>2. \A m \in Having(V, L, O, h, r, k, T, s) : Fine(e, m)
  BY DEF Having, Fine, Collecting, Memory
<1>3. \A m \in Having(V, L, O, h, r, k, T, s), x \in Memory :
        Makes(e, m, x) => x \in Having({}, L, O, s, q, k, T, s)
  BY DEF Having, Makes, Moving, Shrinking, Memory
<1>4. Having(V, L, O, h, r, k, T, s) \subseteq Memory
        /\ Having({}, L, O, s, q, k, T, s) \subseteq Memory
  BY DEF Having
<1> HIDE DEF e
<1> QED BY <1>1, <1>2, <1>3, <1>4, OneStep

(* A table grows, which may move the stack.                                *)
LEMMA Growing ==
    ASSUME NEW V, NEW L, NEW O, NEW h \in Nat, NEW r \in Nat, NEW k \in Nat, NEW T, NEW s \in Nat,
           NEW W, s <= h, W \subseteq {"slot"}
    PROVE  Triple(Having(V, L, O, h, r, k, T, s), Grow, Having(W, L, O, h, r, k, T, s))
<1> DEFINE e == [do |-> "grow", on |-> {"slot"}, with |-> {}, size |-> 0]
<1>1. Grow = {<<e>>} /\ e.do # "leave"
  BY DEF Grow, Step
<1>2. \A m \in Having(V, L, O, h, r, k, T, s) : Fine(e, m)
  BY DEF Having, Fine, Collecting, Memory
<1>3. \A m \in Having(V, L, O, h, r, k, T, s), x \in Memory :
        Makes(e, m, x) => x \in Having(W, L, O, h, r, k, T, s)
  BY DEF Having, Makes, Moving, Shrinking, Memory
<1>4. Having(V, L, O, h, r, k, T, s) \subseteq Memory
        /\ Having(W, L, O, h, r, k, T, s) \subseteq Memory
  BY DEF Having
<1> HIDE DEF e
<1> QED BY <1>1, <1>2, <1>3, <1>4, OneStep

(* A value is stored in an object.                                         *)
LEMMA Storing ==
    ASSUME NEW V, NEW L, NEW O, NEW h \in Nat, NEW r \in Nat, NEW k \in Nat, NEW T, NEW s \in Nat,
           NEW o, NEW M, NEW W, s <= h, W \subseteq V, O \cup {o} \subseteq M
    PROVE  Triple(Having(V, L, O, h, r, k, T, s), Store(o), Having(W, L, M, h, r, k, T, s))
<1> DEFINE e == [do |-> "store", on |-> {}, with |-> {o}, size |-> 0]
<1>1. Store(o) = {<<e>>} /\ e.do # "leave"
  BY DEF Store, Step
<1>2. \A m \in Having(V, L, O, h, r, k, T, s) : Fine(e, m)
  BY DEF Having, Fine, Collecting, Memory
<1>3. \A m \in Having(V, L, O, h, r, k, T, s), x \in Memory :
        Makes(e, m, x) => x \in Having(W, L, M, h, r, k, T, s)
  BY DEF Having, Makes, Moving, Shrinking, Memory
<1>4. Having(V, L, O, h, r, k, T, s) \subseteq Memory
        /\ Having(W, L, M, h, r, k, T, s) \subseteq Memory
  BY DEF Having
<1> HIDE DEF e
<1> QED BY <1>1, <1>2, <1>3, <1>4, OneStep

(* The object has its barrier.                                             *)
LEMMA Paying ==
    ASSUME NEW V, NEW L, NEW O, NEW h \in Nat, NEW r \in Nat, NEW k \in Nat, NEW T, NEW s \in Nat,
           NEW o, NEW M, NEW W, s <= h, W \subseteq V, O \ {o} \subseteq M
    PROVE  Triple(Having(V, L, O, h, r, k, T, s), Barrier(o), Having(W, L, M, h, r, k, T, s))
<1> DEFINE e == [do |-> "barrier", on |-> {}, with |-> {o}, size |-> 0]
<1>1. Barrier(o) = {<<e>>} /\ e.do # "leave"
  BY DEF Barrier, Step
<1>2. \A m \in Having(V, L, O, h, r, k, T, s) : Fine(e, m)
  BY DEF Having, Fine, Collecting, Memory
<1>3. \A m \in Having(V, L, O, h, r, k, T, s), x \in Memory :
        Makes(e, m, x) => x \in Having(W, L, M, h, r, k, T, s)
  BY DEF Having, Makes, Moving, Shrinking, Memory
<1>4. Having(V, L, O, h, r, k, T, s) \subseteq Memory
        /\ Having(W, L, M, h, r, k, T, s) \subseteq Memory
  BY DEF Having
<1> HIDE DEF e
<1> QED BY <1>1, <1>2, <1>3, <1>4, OneStep

(* A collection may move the stack and give room back.                     *)
LEMMA CollectingOnce ==
    ASSUME NEW V, NEW L, NEW O, NEW h \in Nat, NEW r \in Nat, NEW k \in Nat, NEW T, NEW s \in Nat,
           NEW q \in Nat, s <= h, O = {}, GlobalsCall \/ L = {}, q <= r, q <= h \/ q <= k
    PROVE  Triple(Having(V, L, O, h, r, k, T, s), Collect, Having({}, L, O, h, q, k, T, s))
<1> DEFINE e == [do |-> "collect", on |-> {}, with |-> {}, size |-> 0]
<1>1. Collect = {<<e>>} /\ e.do # "leave"
  BY DEF Collect, Step
<1>2. \A m \in Having(V, L, O, h, r, k, T, s) : Fine(e, m)
  BY DEF Having, Fine, Collecting, Memory
<1>3. \A m \in Having(V, L, O, h, r, k, T, s), x \in Memory :
        Makes(e, m, x) => x \in Having({}, L, O, h, q, k, T, s)
  BY DEF Having, Makes, Moving, Shrinking, Memory
<1>4. Having(V, L, O, h, r, k, T, s) \subseteq Memory
        /\ Having({}, L, O, h, q, k, T, s) \subseteq Memory
  BY DEF Having
<1> HIDE DEF e
<1> QED BY <1>1, <1>2, <1>3, <1>4, OneStep

(* So may an operation that can call a function.                           *)
LEMMA Running ==
    ASSUME NEW V, NEW L, NEW O, NEW h \in Nat, NEW r \in Nat, NEW k \in Nat, NEW T, NEW s \in Nat,
           NEW S, NEW q \in Nat, s <= h, S \subseteq V, O = {}, GlobalsCall \/ L = {}, q <= r,
           q <= h \/ q <= k
    PROVE  Triple(Having(V, L, O, h, r, k, T, s), Run(S), Having({}, L, O, h, q, k, T, s))
<1> DEFINE e == [do |-> "run", on |-> S, with |-> {}, size |-> 0]
<1>1. Run(S) = {<<e>>} /\ e.do # "leave"
  BY DEF Run, Step
<1>2. \A m \in Having(V, L, O, h, r, k, T, s) : Fine(e, m)
  BY DEF Having, Fine, Collecting, Memory
<1>3. \A m \in Having(V, L, O, h, r, k, T, s), x \in Memory :
        Makes(e, m, x) => x \in Having({}, L, O, h, q, k, T, s)
  BY DEF Having, Makes, Moving, Shrinking, Memory
<1>4. Having(V, L, O, h, r, k, T, s) \subseteq Memory
        /\ Having({}, L, O, h, q, k, T, s) \subseteq Memory
  BY DEF Having
<1> HIDE DEF e
<1> QED BY <1>1, <1>2, <1>3, <1>4, OneStep

(* A call leaves the top at the end of its results.                        *)
LEMMA Calling ==
    ASSUME NEW V, NEW L, NEW O, NEW h \in Nat, NEW r \in Nat, NEW k \in Nat, NEW T, NEW s \in Nat,
           NEW S, NEW q \in Nat, s <= h, S \subseteq V, O = {}, GlobalsCall \/ L = {}, q <= r,
           q <= h \/ q <= k
    PROVE  Triple(Having(V, L, O, h, r, k, T, s), Call(S),
             Having({}, L, O, h, q, k, {"results"}, s))
<1> DEFINE e == [do |-> "call", on |-> S, with |-> {}, size |-> 0]
<1>1. Call(S) = {<<e>>} /\ e.do # "leave"
  BY DEF Call, Step
<1>2. \A m \in Having(V, L, O, h, r, k, T, s) : Fine(e, m)
  BY DEF Having, Fine, Collecting, Memory
<1>3. \A m \in Having(V, L, O, h, r, k, T, s), x \in Memory :
        Makes(e, m, x) => x \in Having({}, L, O, h, q, k, {"results"}, s)
  BY DEF Having, Makes, Moving, Shrinking, Memory
<1>4. Having(V, L, O, h, r, k, T, s) \subseteq Memory
        /\ Having({}, L, O, h, q, k, {"results"}, s) \subseteq Memory
  BY DEF Having
<1> HIDE DEF e
<1> QED BY <1>1, <1>2, <1>3, <1>4, OneStep

(* A helper leaves with the top of its frame.                              *)
LEMMA Leaving ==
    ASSUME NEW V, NEW L, NEW O, NEW h \in Nat, NEW r \in Nat, NEW k \in Nat, NEW T, NEW s \in Nat,
           NEW B, s <= h, O = {}, GlobalsCall \/ L = {}, B \subseteq Memory, T = {"frame"}, h = 0
    PROVE  Triple(Having(V, L, O, h, r, k, T, s), Leave, B)
<1> DEFINE e == [do |-> "leave", on |-> {}, with |-> {"frame"}, size |-> 0]
<1>1. Leave = {<<e>>} /\ e.do = "leave"
  BY DEF Leave, Step
<1>2. \A m \in Having(V, L, O, h, r, k, T, s) : Fine(e, m)
  BY DEF Having, Fine, Collecting, Memory
<1>3. Having(V, L, O, h, r, k, T, s) \subseteq Memory
  BY DEF Having
<1> HIDE DEF e
<1> QED BY <1>1, <1>2, <1>3, OneStep

(* Or with the end of what it produces.                                    *)
LEMMA LeavingOpen ==
    ASSUME NEW V, NEW L, NEW O, NEW h \in Nat, NEW r \in Nat, NEW k \in Nat, NEW T, NEW s \in Nat,
           NEW B, s <= h, O = {}, GlobalsCall \/ L = {}, B \subseteq Memory,
           T \subseteq {"open", "results"}, h = 0
    PROVE  Triple(Having(V, L, O, h, r, k, T, s), LeaveOpen, B)
<1> DEFINE e == [do |-> "leave", on |-> {}, with |-> {"open", "results"}, size |-> 0]
<1>1. LeaveOpen = {<<e>>} /\ e.do = "leave"
  BY DEF LeaveOpen, Step
<1>2. \A m \in Having(V, L, O, h, r, k, T, s) : Fine(e, m)
  BY DEF Having, Fine, Collecting, Memory
<1>3. Having(V, L, O, h, r, k, T, s) \subseteq Memory
  BY DEF Having
<1> HIDE DEF e
<1> QED BY <1>1, <1>2, <1>3, OneStep

(* Or with values on the stack.                                            *)
LEMMA LeavingWith ==
    ASSUME NEW V, NEW L, NEW O, NEW h \in Nat, NEW r \in Nat, NEW k \in Nat, NEW T, NEW s \in Nat,
           NEW n \in Nat, NEW B, s <= h, O = {}, GlobalsCall \/ L = {}, B \subseteq Memory,
           T = {"frame"}, h = n
    PROVE  Triple(Having(V, L, O, h, r, k, T, s), LeaveWith(n), B)
<1> DEFINE e == [do |-> "leave", on |-> {}, with |-> {"frame"}, size |-> n]
<1>1. LeaveWith(n) = {<<e>>} /\ e.do = "leave"
  BY DEF LeaveWith, Step
<1>2. \A m \in Having(V, L, O, h, r, k, T, s) : Fine(e, m)
  BY DEF Having, Fine, Collecting, Memory
<1>3. Having(V, L, O, h, r, k, T, s) \subseteq Memory
  BY DEF Having
<1> HIDE DEF e
<1> QED BY <1>1, <1>2, <1>3, OneStep

-------------------------------------------------------------------------------
(* Rules for several steps: three in turn, and more.                       *)
LEMMA Chain3 ==
    ASSUME NEW A0, NEW A1, NEW A2, NEW A3,
           NEW P1, NEW P2, NEW P3,
           Triple(A0, P1, A1), Triple(A1, P2, A2), Triple(A2, P3, A3)
    PROVE  Triple(A0, P1 ** P2 ** P3, A3)
<1>1. Triple(A0, P1 ** P2, A2)
  BY Sequence
<1> QED BY <1>1, Sequence

(* And 4.                                                                  *)
LEMMA Chain4 ==
    ASSUME NEW A0, NEW A1, NEW A2, NEW A3, NEW A4,
           NEW P1, NEW P2, NEW P3, NEW P4,
           Triple(A0, P1, A1), Triple(A1, P2, A2), Triple(A2, P3, A3), Triple(A3, P4, A4)
    PROVE  Triple(A0, P1 ** P2 ** P3 ** P4, A4)
<1>1. Triple(A0, P1 ** P2 ** P3, A3)
  BY Chain3
<1> QED BY <1>1, Sequence

(* And 5.                                                                  *)
LEMMA Chain5 ==
    ASSUME NEW A0, NEW A1, NEW A2, NEW A3, NEW A4, NEW A5,
           NEW P1, NEW P2, NEW P3, NEW P4, NEW P5,
           Triple(A0, P1, A1), Triple(A1, P2, A2), Triple(A2, P3, A3), Triple(A3, P4, A4),
           Triple(A4, P5, A5)
    PROVE  Triple(A0, P1 ** P2 ** P3 ** P4 ** P5, A5)
<1>1. Triple(A0, P1 ** P2 ** P3 ** P4, A4)
  BY Chain4
<1> QED BY <1>1, Sequence

(* And 6.                                                                  *)
LEMMA Chain6 ==
    ASSUME NEW A0, NEW A1, NEW A2, NEW A3, NEW A4, NEW A5, NEW A6,
           NEW P1, NEW P2, NEW P3, NEW P4, NEW P5, NEW P6,
           Triple(A0, P1, A1), Triple(A1, P2, A2), Triple(A2, P3, A3), Triple(A3, P4, A4),
           Triple(A4, P5, A5), Triple(A5, P6, A6)
    PROVE  Triple(A0, P1 ** P2 ** P3 ** P4 ** P5 ** P6, A6)
<1>1. Triple(A0, P1 ** P2 ** P3 ** P4 ** P5, A5)
  BY Chain5
<1> QED BY <1>1, Sequence

(* And 7.                                                                  *)
LEMMA Chain7 ==
    ASSUME NEW A0, NEW A1, NEW A2, NEW A3, NEW A4, NEW A5, NEW A6, NEW A7,
           NEW P1, NEW P2, NEW P3, NEW P4, NEW P5, NEW P6, NEW P7,
           Triple(A0, P1, A1), Triple(A1, P2, A2), Triple(A2, P3, A3), Triple(A3, P4, A4),
           Triple(A4, P5, A5), Triple(A5, P6, A6), Triple(A6, P7, A7)
    PROVE  Triple(A0, P1 ** P2 ** P3 ** P4 ** P5 ** P6 ** P7, A7)
<1>1. Triple(A0, P1 ** P2 ** P3 ** P4 ** P5 ** P6, A6)
  BY Chain6
<1> QED BY <1>1, Sequence

(* And 8.                                                                  *)
LEMMA Chain8 ==
    ASSUME NEW A0, NEW A1, NEW A2, NEW A3, NEW A4, NEW A5, NEW A6, NEW A7, NEW A8,
           NEW P1, NEW P2, NEW P3, NEW P4, NEW P5, NEW P6, NEW P7, NEW P8,
           Triple(A0, P1, A1), Triple(A1, P2, A2), Triple(A2, P3, A3), Triple(A3, P4, A4),
           Triple(A4, P5, A5), Triple(A5, P6, A6), Triple(A6, P7, A7), Triple(A7, P8, A8)
    PROVE  Triple(A0, P1 ** P2 ** P3 ** P4 ** P5 ** P6 ** P7 ** P8, A8)
<1>1. Triple(A0, P1 ** P2 ** P3 ** P4 ** P5 ** P6 ** P7, A7)
  BY Chain7
<1> QED BY <1>1, Sequence

(* What may be done or not.                                                *)
LEMMA Optional ==
    ASSUME NEW A, NEW B, NEW P, Triple(A, P, B), A \subseteq B
    PROVE  Triple(A, Possibly(P), B)
<1>1. A \subseteq Memory /\ B \subseteq Memory
  BY DEF Triple
<1>2. Triple(A, Nothing, B)
  BY <1>1, Skip, Weaken
<1> QED BY <1>2, Choice DEF Possibly

(* The parts of a sequence in turn, with an assertion after each.          *)
LEMMA Turns ==
    ASSUME NEW parts, Len(parts) \in Nat, NEW a, a[0] \subseteq Memory,
           \A i \in 1..Len(parts) : Triple(a[i - 1], parts[i], a[i])
    PROVE  Triple(a[0], InTurn(parts), a[Len(parts)])
<1> DEFINE N == Len(parts)
<1>1. PICK f : /\ InTurn(parts) = f[N]
               /\ f[0] = Nothing
               /\ \A i \in 1..N : f[i] = f[i - 1] ** parts[i]
  BY PartByPart
<1> DEFINE S == {i \in Nat : i <= N => Triple(a[0], f[i], a[i])}
<1>2. 0 \in S
  BY <1>1, Skip
<1>3. ASSUME NEW i \in Nat, i \in S PROVE i + 1 \in S
  <2>1. SUFFICES ASSUME i + 1 <= N PROVE Triple(a[0], f[i + 1], a[i + 1])
    OBVIOUS
  <2>2. Triple(a[0], f[i], a[i])
    BY <1>3, <2>1
  <2> DEFINE j == i + 1
  <2>3. j \in 1..N /\ j - 1 = i
    BY <2>1
  <2> HIDE DEF j
  <2>4. f[j] = f[i] ** parts[j] /\ Triple(a[i], parts[j], a[j])
    BY <1>1, <2>3
  <2>5. Triple(a[0], f[j], a[j])
    BY <2>2, <2>4, Sequence
  <2> QED BY <2>5 DEF j
<1>4. N \in S
  <2> HIDE DEF S
  <2> QED BY <1>2, <1>3, Induction
<1> QED BY <1>1, <1>4

(* How many parts there are.                                               *)
LEMMA LengthOf ==
    ASSUME NEW n \in Nat, NEW f, f = [i \in 1..n |-> f[i]]
    PROVE  Len(f) = n
<1> DEFINE R == {f[i] : i \in 1..n}
<1>1. f \in [1..n -> R]
  <2>1. \A i \in 1..n : f[i] \in R
    OBVIOUS
  <2> HIDE DEF R
  <2> QED BY <2>1
<1>2. f \in Seq(R)
  BY <1>1, SeqDef
<1>3. Len(f) \in Nat /\ DOMAIN f = 1..Len(f) /\ DOMAIN f = 1..n
  BY <1>1, <1>2, LenProperties
<1> HIDE DEF R
<1>4. CASE Len(f) < n
  <2>1. n \in 1..n /\ n \notin 1..Len(f)
    BY <1>3, <1>4
  <2> QED BY <1>3, <2>1
<1>5. CASE Len(f) > n
  <2>1. Len(f) \in 1..Len(f) /\ Len(f) \notin 1..n
    BY <1>3, <1>5
  <2> QED BY <1>3, <2>1
<1> QED BY <1>3, <1>4, <1>5

(* The same again and again.                                               *)
LEMMA Repeating ==
    ASSUME NEW A, NEW P, NEW n \in Nat, Triple(A, P, A)
    PROVE  Triple(A, Times(n, P), A)
<1> DEFINE parts == [i \in 1..n |-> P]
           a == [i \in 0..n |-> A]
<1>1. Len(parts) = n
  BY LengthOf
<1>2. \A i \in 1..n : parts[i] = P /\ a[i - 1] = A /\ a[i] = A
  OBVIOUS
<1>3. a[0] = A /\ A \subseteq Memory
  BY DEF Triple
<1>4. Times(n, P) = InTurn(parts)
  BY DEF Times
<1> HIDE DEF parts, a
<1>5. Triple(a[0], InTurn(parts), a[n])
  BY <1>1, <1>2, <1>3, Turns
<1>6. a[n] = A
  BY DEF a
<1> QED BY <1>3, <1>4, <1>5, <1>6

(* Or up to so many times.                                                 *)
LEMMA Repeated ==
    ASSUME NEW A, NEW P, NEW n \in Nat, Triple(A, P, A)
    PROVE  Triple(A, AtMost(n, P), A)
<1>1. A \subseteq Memory
  BY DEF Triple
<1>2. \A Q \in {Times(i, P) : i \in 0..n} : Triple(A, Q, A)
  BY Repeating
<1> QED BY <1>1, <1>2, AnyOf DEF AtMost

-------------------------------------------------------------------------------
(* The states helpers go through: at ease, with some addresses taken; with *)
(* values on the stack; with objects that are loose or owed a barrier; and *)
(* with another top.                                                       *)
Calm(V) == Having(V, {}, {}, 0, 0, 0, {"frame"}, 0)
Lifted(V, h, r) == Having(V, {}, {}, h, r, 0, {"frame"}, 0)
Making(V, L, O) == Having(V, L, O, 0, 0, 0, {"frame"}, 0)
Topped(V, t) == Having(V, {}, {}, 0, 0, 0, {t}, 0)

(* Knowing less of the addresses.                                          *)
LEMMA Fewer ==
    ASSUME NEW V, NEW L, NEW O, NEW h, NEW r, NEW k, NEW T, NEW s, NEW W, W \subseteq V
    PROVE  Having(V, L, O, h, r, k, T, s) \subseteq Having(W, L, O, h, r, k, T, s)
BY DEF Having

(* Assertions are about memory.                                            *)
LEMMA HavingMemory ==
    ASSUME NEW V, NEW L, NEW O, NEW h, NEW r, NEW k, NEW T, NEW s
    PROVE  Having(V, L, O, h, r, k, T, s) \subseteq Memory
BY DEF Having

(* A register.                                                             *)
LEMMA Registering ==
    ASSUME NEW V, NEW L, NEW O, NEW h \in Nat, NEW r \in Nat, NEW k \in Nat, NEW T, NEW s \in Nat,
           NEW S, NEW W, s <= h, W \subseteq V \cup S
    PROVE  Triple(Having(V, L, O, h, r, k, T, s), activeAotRegister(S),
             Having(W, L, O, h, r, k, T, s))
<1>1. Triple(Having(V, L, O, h, r, k, T, s), Guard, Having(V, L, O, h, r, k, T, s))
  BY Guarding
<1>2. Triple(Having(V, L, O, h, r, k, T, s), At(S), Having(W, L, O, h, r, k, T, s))
  BY Taking
<1> QED BY <1>1, <1>2, Sequence DEF activeAotRegister

(* A register or a constant.                                               *)
LEMMA Valuing ==
    ASSUME NEW V, NEW L, NEW O, NEW h \in Nat, NEW r \in Nat, NEW k \in Nat, NEW T, NEW s \in Nat,
           NEW S, NEW W, s <= h, W \subseteq V \cup S
    PROVE  Triple(Having(V, L, O, h, r, k, T, s), activeAotValueOperand(S),
             Having(W, L, O, h, r, k, T, s))
<1>1. Triple(Having(V, L, O, h, r, k, T, s), activeAotRegister(S), Having(W, L, O, h, r, k, T, s))
  BY Registering
<1>2. Triple(Having(W, L, O, h, r, k, T, s), Guard, Having(W, L, O, h, r, k, T, s))
  BY Guarding
<1> QED BY <1>1, <1>2, Sequence DEF activeAotValueOperand

(* A register that holds a table.                                          *)
LEMMA Tabling ==
    ASSUME NEW V, NEW L, NEW O, NEW h \in Nat, NEW r \in Nat, NEW k \in Nat, NEW T, NEW s \in Nat,
           NEW S, NEW W, s <= h, W \subseteq V \cup S
    PROVE  Triple(Having(V, L, O, h, r, k, T, s), activeAotTable(S), Having(W, L, O, h, r, k, T, s))
<1>1. Triple(Having(V, L, O, h, r, k, T, s),
             activeAotRegister(S),
             Having(V \cup S, L, O, h, r, k, T, s))
  BY Registering
<1>2. Triple(Having(V \cup S, L, O, h, r, k, T, s), Use(S), Having(W, L, O, h, r, k, T, s))
  BY Using
<1>3. Triple(Having(W, L, O, h, r, k, T, s), Guard, Having(W, L, O, h, r, k, T, s))
  BY Guarding
<1> QED BY <1>1, <1>2, <1>3, Chain3 DEF activeAotTable

(* A plain table.                                                          *)
LEMMA TablingPlainly ==
    ASSUME NEW V, NEW L, NEW O, NEW h \in Nat, NEW r \in Nat, NEW k \in Nat, NEW T, NEW s \in Nat,
           NEW S, NEW W, s <= h, W \subseteq V \cup S
    PROVE  Triple(Having(V, L, O, h, r, k, T, s), activeAotPlainTable(S),
             Having(W, L, O, h, r, k, T, s))
<1>1. Triple(Having(V, L, O, h, r, k, T, s), activeAotTable(S), Having(W, L, O, h, r, k, T, s))
  BY Tabling
<1>2. Triple(Having(W, L, O, h, r, k, T, s), Guard, Having(W, L, O, h, r, k, T, s))
  BY Guarding
<1> QED BY <1>1, <1>2, Sequence DEF activeAotPlainTable

(* The operands of a helper.                                               *)
LEMMA Operating ==
    ASSUME NEW V, NEW L, NEW O, NEW h \in Nat, NEW r \in Nat, NEW k \in Nat, NEW T, NEW s \in Nat,
           NEW S, NEW W, s <= h, W \subseteq V \cup S
    PROVE  Triple(Having(V, L, O, h, r, k, T, s), Operands(S), Having(W, L, O, h, r, k, T, s))
<1>1. Triple(Having(V, L, O, h, r, k, T, s), activeAotFrameProto, Having(V, L, O, h, r, k, T, s))
  BY Guarding DEF activeAotFrameProto
<1>2. Triple(Having(V, L, O, h, r, k, T, s), activeAotRegister(S), Having(W, L, O, h, r, k, T, s))
  BY Registering
<1>3. Triple(Having(W, L, O, h, r, k, T, s), Guard, Having(W, L, O, h, r, k, T, s))
  BY Guarding
<1> QED BY <1>1, <1>2, <1>3, Chain3 DEF Operands

(* A key is on the stack, and the registers are looked up after it.        *)
LEMMA Rooting ==
    ASSUME NEW V, NEW S, NEW W, W \subseteq S \cup {"key"}
    PROVE  Triple(Calm(V), RootedKey(S), Lifted(W, 1, 1))
<1>1. Triple(Calm(V), SaveTop, Calm({}))
  BY Saving DEF Calm
<1>2. Triple(Calm({}), Reserve(1), Lifted({}, 0, 1))
  BY Reserving DEF Calm, Lifted
<1>3. Triple(Lifted({}, 0, 1),
             activeAotStringKey("key"),
             Having({}, {"key"}, {}, 0, 1, 0, {"frame"}, 0))
  <2>1. Triple(Lifted({}, 0, 1), Guard, Lifted({}, 0, 1))
    BY Guarding DEF Lifted
  <2>2. Triple(Lifted({}, 0, 1), New("key"), Having({}, {"key"}, {}, 0, 1, 0, {"frame"}, 0))
    BY Allocating DEF Lifted
  <2> QED BY <2>1, <2>2, Sequence DEF activeAotStringKey
<1>4. Triple(Having({}, {"key"}, {}, 0, 1, 0, {"frame"}, 0), Push("key"), Lifted({"key"}, 1, 1))
  BY PushingFirst DEF Lifted
<1>5. Triple(Lifted({"key"}, 1, 1), At(S), Lifted(W, 1, 1))
  BY Taking DEF Lifted
<1> QED BY <1>1, <1>2, <1>3, <1>4, <1>5, Chain5 DEF RootedKey

(* What is above the top goes, before a collection and after it.           *)
LEMMA RestoredTop ==
    ASSUME NEW V, NEW h \in Nat, NEW r \in Nat
    PROVE  Triple(Lifted(V, h, r), Restored, Calm({}))
<1>1. Triple(Lifted(V, h, r), RestoreTop, Lifted({}, 0, r))
  BY Restoring DEF Lifted
<1>2. Triple(Lifted({}, 0, r), Collect, Calm({}))
  BY CollectingOnce DEF Calm, Lifted
<1>3. Triple(Calm({}), RestoreTop, Calm({}))
  BY Restoring DEF Calm
<1> QED BY <1>1, <1>2, <1>3, Chain3 DEF Restored

-------------------------------------------------------------------------------
(* The helpers.                                                            *)

(* The argument is read before the error.                                  *)
LEMMA SafeTypeError ==
    Triple(Calm({}), builtin_type_error, Calm({}))
<1>1. Triple(Calm({}), Operands({"source"}), Calm({"source"}))
  BY Operating DEF Calm
<1>2. Triple(Calm({"source"}), Use({"source"}), Calm({}))
  BY Using DEF Calm
<1>3. Triple(Calm({}), Leave \cup Guard ** Leave, Calm({}))
  <2>1. Triple(Calm({}), Leave, Calm({}))
    BY Leaving, HavingMemory DEF Calm
  <2>2. Triple(Calm({}), Guard ** Leave, Calm({}))
    <3>1. Triple(Calm({}), Guard, Calm({}))
      BY Guarding DEF Calm
    <3>2. Triple(Calm({}), Leave, Calm({}))
      BY Leaving, HavingMemory DEF Calm
    <3> QED BY <3>1, <3>2, Sequence
  <2> QED BY <2>1, <2>2, Choice
<1> QED BY <1>1, <1>2, <1>3, Chain3 DEF builtin_type_error

(* A number is read.                                                       *)
LEMMA SafeBuiltinNumber ==
    Triple(Calm({}), builtin_number, Calm({}))
<1>1. Triple(Calm({}), Operands({"source"}), Calm({"source"}))
  BY Operating DEF Calm
<1>2. Triple(Calm({"source"}), Use({"source"}), Calm({}))
  BY Using DEF Calm
<1>3. Triple(Calm({}), Guard, Calm({}))
  BY Guarding DEF Calm
<1> QED BY <1>1, <1>2, <1>3, Chain3 DEF builtin_number

(* A new table is in a register before the collection.                     *)
LEMMA SafeNewAotTable ==
    Triple(Calm({}), newAotTable, Calm({}))
<1>1. Triple(Calm({}), Operands({"dest"}), Calm({"dest"}))
  BY Operating DEF Calm
<1>2. Triple(Calm({"dest"}), Guard, Calm({"dest"}))
  BY Guarding DEF Calm
<1>3. Triple(Calm({"dest"}), New("table"), Making({"dest"}, {"table"}, {}))
  BY Allocating DEF Calm, Making
<1>4. Triple(Making({"dest"}, {"table"}, {}), Publish("dest", "table"), Calm({}))
  BY Publishing DEF Calm, Making
<1> QED BY <1>1, <1>2, <1>3, <1>4, Chain4 DEF newAotTable

(* So it is with the collection.                                           *)
LEMMA SafeNewTable ==
    Triple(Calm({}), new_table, Calm({}))
<1>1. Triple(Calm({}), newAotTable, Calm({}))
  BY SafeNewAotTable
<1>2. Triple(Calm({}), Collect, Calm({}))
  BY CollectingOnce DEF Calm
<1> QED BY <1>1, <1>2, Sequence DEF new_table

(* A collection by itself.                                                 *)
LEMMA SafeCheckGc ==
    Triple(Calm({}), check_gc, Calm({}))
<1>1. Triple(Calm({}), activeAotFrameProto, Calm({}))
  BY Guarding DEF activeAotFrameProto, Calm
<1>2. Triple(Calm({}), Collect, Calm({}))
  BY CollectingOnce DEF Calm
<1> QED BY <1>1, <1>2, Sequence DEF check_gc

(* Or with a collection later.                                             *)
LEMMA SafeDeferred ==
    Triple(Calm({}), new_table_deferred ** check_gc, Calm({}))
<1>1. Triple(Calm({}), new_table_deferred, Calm({}))
  BY SafeNewAotTable DEF new_table_deferred
<1>2. Triple(Calm({}), check_gc, Calm({}))
  BY SafeCheckGc
<1> QED BY <1>1, <1>2, Sequence

(* A copy of a table.                                                      *)
LEMMA SafeDupTable ==
    Triple(Calm({}), dup_table ** check_gc, Calm({}))
<1>1. Triple(Calm({}), dup_table, Calm({}))
  <2>1. Triple(Calm({}), Operands({"dest"}), Calm({"dest"}))
    BY Operating DEF Calm
  <2>2. Triple(Calm({"dest"}), Guard, Calm({"dest"}))
    BY Guarding DEF Calm
  <2>3. Triple(Calm({"dest"}), New("table"), Making({"dest"}, {"table"}, {}))
    BY Allocating DEF Calm, Making
  <2>4. Triple(Making({"dest"}, {"table"}, {}), Publish("dest", "table"), Calm({}))
    BY Publishing DEF Calm, Making
  <2> QED BY <2>1, <2>2, <2>3, <2>4, Chain4 DEF dup_table
<1>2. Triple(Calm({}), check_gc, Calm({}))
  BY SafeCheckGc
<1> QED BY <1>1, <1>2, Sequence

(* A constant.                                                             *)
LEMMA SafeLoadConstant ==
    Triple(Calm({}), load_constant, Calm({}))
<1>1. Triple(Calm({}), Operands({"dest"}), Calm({"dest"}))
  BY Operating DEF Calm
<1>2. Triple(Calm({"dest"}), Guard, Calm({"dest"}))
  BY Guarding DEF Calm
<1>3. Triple(Calm({"dest"}), Use({"dest"}), Calm({}))
  BY Using DEF Calm
<1> QED BY <1>1, <1>2, <1>3, Chain3 DEF load_constant

(* The value is looked up after the table has grown, and has its barrier.  *)
LEMMA SafeAppendGrown ==
    ASSUME NEW V
    PROVE  Triple(Calm(V), AppendGrown, Calm({}))
<1>1. Triple(Calm(V), Grow, Calm({"slot"}))
  BY Growing DEF Calm
<1>2. Triple(Calm({"slot"}), At({"source"}), Calm({"source", "slot"}))
  BY Taking DEF Calm
<1>3. Triple(Calm({"source", "slot"}), Use({"source", "slot"}), Calm({}))
  BY Using DEF Calm
<1>4. Triple(Calm({}), Store("table"), Making({}, {}, {"table"}))
  BY Storing DEF Calm, Making
<1>5. Triple(Making({}, {}, {"table"}), Barrier("table"), Calm({}))
  BY Paying DEF Calm, Making
<1> QED BY <1>1, <1>2, <1>3, <1>4, <1>5, Chain5 DEF AppendGrown

(* An append does nothing, or all and leaves.                              *)
LEMMA SafeLiveInsert ==
    Triple(Calm({}), tryLiveInsertAppend, Calm({}))
<1>1. Triple(Calm({}),
             Possibly(At({"table"}) ** Use({"table"}) ** Possibly(AppendGrown ** Leave)),
             Calm({}))
  <2>1. Triple(Calm({}),
               At({"table"}) ** Use({"table"}) ** Possibly(AppendGrown ** Leave),
               Calm({}))
    <3>1. Triple(Calm({}), At({"table"}), Calm({"table"}))
      BY Taking DEF Calm
    <3>2. Triple(Calm({"table"}), Use({"table"}), Calm({}))
      BY Using DEF Calm
    <3>3. Triple(Calm({}), Possibly(AppendGrown ** Leave), Calm({}))
      <4>1. Triple(Calm({}), AppendGrown ** Leave, Calm({}))
        <5>1. Triple(Calm({}), AppendGrown, Calm({}))
          BY SafeAppendGrown
        <5>2. Triple(Calm({}), Leave, Calm({}))
          BY Leaving, HavingMemory DEF Calm
        <5> QED BY <5>1, <5>2, Sequence
      <4> QED BY <4>1, Optional
    <3> QED BY <3>1, <3>2, <3>3, Chain3
  <2> QED BY <2>1, Optional
<1> QED BY <1>1 DEF tryLiveInsertAppend

(* An append.                                                              *)
LEMMA SafeInsert ==
    Triple(Calm({}), table_insert_append, Calm({}))
<1>1. Triple(Calm({}), tryLiveInsertAppend, Calm({}))
  BY SafeLiveInsert
<1>2. Triple(Calm({}), activeAotFrameProto, Calm({}))
  BY Guarding DEF activeAotFrameProto, Calm
<1>3. Triple(Calm({}), activeAotPlainTable({"table"}), Calm({}))
  BY TablingPlainly DEF Calm
<1>4. Triple(Calm({}), Operands({"table", "source"}), Calm({}))
  BY Operating DEF Calm
<1>5. Triple(Calm({}), Guard, Calm({}))
  BY Guarding DEF Calm
<1>6. Triple(Calm({}), AppendGrown, Calm({}))
  BY SafeAppendGrown
<1> QED BY <1>1, <1>2, <1>3, <1>4, <1>5, <1>6, Chain6 DEF table_insert_append

(* A key is a temporary while a table gets a value, or is asked for one.   *)
LEMMA SafeTableSetString ==
    Triple(Calm({}), table_set_string, Calm({}))
<1>1. Triple(Calm({}), Operands({"table", "source"}), Calm({}))
  BY Operating DEF Calm
<1>2. Triple(Calm({}), RootedKey({"table", "source"}), Lifted({"table", "key", "source"}, 1, 1))
  BY Rooting
<1>3. Triple(Lifted({"table", "key", "source"}, 1, 1),
             Run({"table", "key", "source"}),
             Lifted({}, 1, 0))
  BY Running DEF Lifted
<1>4. Triple(Lifted({}, 1, 0), Restored, Calm({}))
  BY RestoredTop
<1> QED BY <1>1, <1>2, <1>3, <1>4, Chain4 DEF table_set_string

(* A key is a temporary while a table is asked for a value.                *)
LEMMA SafeTableGetString ==
    Triple(Calm({}), table_get_string, Calm({}))
<1>1. Triple(Calm({}), Operands({"dest", "table"}), Calm({}))
  BY Operating DEF Calm
<1>2. Triple(Calm({}), RootedKey({"dest", "table"}), Lifted({"table", "key", "dest"}, 1, 1))
  BY Rooting
<1>3. Triple(Lifted({"table", "key", "dest"}, 1, 1),
             Run({"table", "key", "dest"}),
             Lifted({}, 1, 0))
  BY Running DEF Lifted
<1>4. Triple(Lifted({}, 1, 0), Restored, Calm({}))
  BY RestoredTop
<1> QED BY <1>1, <1>2, <1>3, <1>4, Chain4 DEF table_get_string

(* A method is looked up, and the destination after it.                    *)
LEMMA SafeLookupMethod ==
    Triple(Lifted({"receiver", "dest"}, 1, 1), LookupMethod, Lifted({}, 1, 1))
<1>1. Triple(Lifted({"receiver", "dest"}, 1, 1), Run({"receiver", "dest"}), Lifted({}, 1, 1))
  BY Running DEF Lifted
<1>2. Triple(Lifted({}, 1, 1), At({"dest", "self"}), Lifted({"dest"}, 1, 1))
  BY Taking DEF Lifted
<1>3. Triple(Lifted({"dest"}, 1, 1), Use({"dest"}), Lifted({}, 1, 1))
  BY Using DEF Lifted
<1>4. Triple(Lifted({}, 1, 1), Guard, Lifted({}, 1, 1))
  BY Guarding DEF Lifted
<1> QED BY <1>1, <1>2, <1>3, <1>4, Chain4 DEF LookupMethod

(* The receiver is on the stack while its method is looked up.             *)
LEMMA SafeNamecall ==
    Triple(Calm({}), namecall_plain, Calm({}))
<1>1. Triple(Calm({}),
             Operands({"dest", "self", "source"}) ** activeAotValueOperand({}) ** Guard
               ** Possibly(Use({"source"}) ** Use({"self"}) ** Use({"dest"}) ** Leave)
               ** SaveTop ** Reserve(1) ** At({"source"}) ** Use({"source"}) ** Push("receiver"),
             Lifted({"receiver"}, 1, 1))
  <2>1. Triple(Calm({}),
               Operands({"dest", "self", "source"}) ** activeAotValueOperand({}) ** Guard
                 ** Possibly(Use({"source"}) ** Use({"self"}) ** Use({"dest"}) ** Leave),
               Calm({}))
    <3>1. Triple(Calm({}), Operands({"dest", "self", "source"}), Calm({"source", "self", "dest"}))
      BY Operating DEF Calm
    <3>2. Triple(Calm({"source", "self", "dest"}),
                 activeAotValueOperand({}),
                 Calm({"source", "self", "dest"}))
      BY Valuing DEF Calm
    <3>3. Triple(Calm({"source", "self", "dest"}), Guard, Calm({"source", "self", "dest"}))
      BY Guarding DEF Calm
    <3>4. Triple(Calm({"source", "self", "dest"}),
                 Possibly(Use({"source"}) ** Use({"self"}) ** Use({"dest"}) ** Leave),
                 Calm({}))
      <4>1. Triple(Calm({"source", "self", "dest"}),
                   Use({"source"}) ** Use({"self"}) ** Use({"dest"}) ** Leave,
                   Calm({}))
        <5>1. Triple(Calm({"source", "self", "dest"}), Use({"source"}), Calm({"self", "dest"}))
          BY Using DEF Calm
        <5>2. Triple(Calm({"self", "dest"}), Use({"self"}), Calm({"dest"}))
          BY Using DEF Calm
        <5>3. Triple(Calm({"dest"}), Use({"dest"}), Calm({}))
          BY Using DEF Calm
        <5>4. Triple(Calm({}), Leave, Calm({}))
          BY Leaving, HavingMemory DEF Calm
        <5> QED BY <5>1, <5>2, <5>3, <5>4, Chain4
      <4> QED BY <4>1, Optional, Fewer DEF Calm
    <3> QED BY <3>1, <3>2, <3>3, <3>4, Chain4
  <2>2. Triple(Calm({}), SaveTop, Calm({}))
    BY Saving DEF Calm
  <2>3. Triple(Calm({}), Reserve(1), Lifted({}, 0, 1))
    BY Reserving DEF Calm, Lifted
  <2>4. Triple(Lifted({}, 0, 1), At({"source"}), Lifted({"source"}, 0, 1))
    BY Taking DEF Lifted
  <2>5. Triple(Lifted({"source"}, 0, 1), Use({"source"}), Lifted({}, 0, 1))
    BY Using DEF Lifted
  <2>6. Triple(Lifted({}, 0, 1), Push("receiver"), Lifted({"receiver"}, 1, 1))
    BY PushingFirst DEF Lifted
  <2> QED BY <2>1, <2>2, <2>3, <2>4, <2>5, <2>6, Chain6
<1>2. Triple(Lifted({"receiver"}, 1, 1), Use({"receiver"}), Lifted({"receiver"}, 1, 1))
  BY Using DEF Lifted
<1>3. Triple(Lifted({"receiver"}, 1, 1),
             At({"dest", "self"}),
             Lifted({"receiver", "dest", "self"}, 1, 1))
  BY Taking DEF Lifted
<1>4. Triple(Lifted({"receiver", "dest", "self"}, 1, 1),
             Use({"self"}),
             Lifted({"receiver", "dest"}, 1, 1))
  BY Using DEF Lifted
<1>5. Triple(Lifted({"receiver", "dest"}, 1, 1), Use({"dest"}) \cup LookupMethod, Lifted({}, 1, 1))
  <2>1. Triple(Lifted({"receiver", "dest"}, 1, 1), Use({"dest"}), Lifted({}, 1, 1))
    BY Using DEF Lifted
  <2>2. Triple(Lifted({"receiver", "dest"}, 1, 1), LookupMethod, Lifted({}, 1, 1))
    BY SafeLookupMethod
  <2> QED BY <2>1, <2>2, Choice
<1>6. Triple(Lifted({}, 1, 1), Restored, Calm({}))
  BY RestoredTop
<1> QED BY <1>1, <1>2, <1>3, <1>4, <1>5, <1>6, Chain6 DEF namecall_plain

(* A numeric set does nothing to the addresses, or all and leaves.         *)
LEMMA SafeNumericSet ==
    ASSUME NEW V, NEW W, W \subseteq V, "table" \in V
    PROVE  Triple(Calm(V), publishPlainNumericSet, Calm(W))
<1>1. Triple(Calm(V),
             Possibly(Use({"table"}) ** Possibly(At({"source"}) ** Use({"source"})
               ** Possibly(AppendGrown ** Leave))),
             Calm(W))
  <2>1. Triple(Calm(V),
               Use({"table"}) ** Possibly(At({"source"}) ** Use({"source"})
                 ** Possibly(AppendGrown ** Leave)),
               Calm(W))
    <3>1. Triple(Calm(V), Use({"table"}), Calm(V))
      BY Using DEF Calm
    <3>2. Triple(Calm(V),
                 Possibly(At({"source"}) ** Use({"source"}) ** Possibly(AppendGrown ** Leave)),
                 Calm(W))
      <4>1. Triple(Calm(V),
                   At({"source"}) ** Use({"source"}) ** Possibly(AppendGrown ** Leave),
                   Calm(W))
        <5>1. Triple(Calm(V), At({"source"}), Calm(V \cup {"source"}))
          BY Taking DEF Calm
        <5>2. Triple(Calm(V \cup {"source"}), Use({"source"}), Calm(V))
          BY Using DEF Calm
        <5>3. Triple(Calm(V), Possibly(AppendGrown ** Leave), Calm(W))
          <6>1. Triple(Calm(V), AppendGrown ** Leave, Calm(W))
            <7>1. Triple(Calm(V), AppendGrown, Calm({}))
              BY SafeAppendGrown
            <7>2. Triple(Calm({}), Leave, Calm(W))
              BY Leaving, HavingMemory DEF Calm
            <7> QED BY <7>1, <7>2, Sequence
          <6> QED BY <6>1, Optional, Fewer DEF Calm
        <5> QED BY <5>1, <5>2, <5>3, Chain3
      <4> QED BY <4>1, Optional, Fewer DEF Calm
    <3> QED BY <3>1, <3>2, Sequence
  <2> QED BY <2>1, Optional, Fewer DEF Calm
<1> QED BY <1>1 DEF publishPlainNumericSet

(* So does one that looks its operands up itself.                          *)
LEMMA SafeLiveNumericSet ==
    Triple(Calm({}), tryLiveRegisterNumericSet, Calm({}))
<1>1. Triple(Calm({}),
             Possibly(At({"key"}) ** Use({"key"})
               ** Possibly(At({"table"}) ** publishPlainNumericSet)),
             Calm({}))
  <2>1. Triple(Calm({}),
               At({"key"}) ** Use({"key"}) ** Possibly(At({"table"}) ** publishPlainNumericSet),
               Calm({}))
    <3>1. Triple(Calm({}), At({"key"}), Calm({"key"}))
      BY Taking DEF Calm
    <3>2. Triple(Calm({"key"}), Use({"key"}), Calm({"key"}))
      BY Using DEF Calm
    <3>3. Triple(Calm({"key"}), Possibly(At({"table"}) ** publishPlainNumericSet), Calm({}))
      <4>1. Triple(Calm({"key"}), At({"table"}) ** publishPlainNumericSet, Calm({}))
        <5>1. Triple(Calm({"key"}), At({"table"}), Calm({"key", "table"}))
          BY Taking DEF Calm
        <5>2. Triple(Calm({"key", "table"}), publishPlainNumericSet, Calm({}))
          BY SafeNumericSet
        <5> QED BY <5>1, <5>2, Sequence
      <4> QED BY <4>1, Optional, Fewer DEF Calm
    <3> QED BY <3>1, <3>2, <3>3, Chain3
  <2> QED BY <2>1, Optional
<1> QED BY <1>1 DEF tryLiveRegisterNumericSet

(* A table gets a value.                                                   *)
LEMMA SafeTableSet ==
    Triple(Calm({}), table_set, Calm({}))
<1>1. Triple(Calm({}), Possibly(tryLiveRegisterNumericSet), Calm({}))
  <2>1. Triple(Calm({}), tryLiveRegisterNumericSet, Calm({}))
    BY SafeLiveNumericSet
  <2> QED BY <2>1, Optional
<1>2. Triple(Calm({}), Operands({"table", "source"}), Calm({"table", "source"}))
  BY Operating DEF Calm
<1>3. Triple(Calm({"table", "source"}),
             activeAotValueOperand({"key"}),
             Calm({"table", "key", "source"}))
  BY Valuing DEF Calm
<1>4. Triple(Calm({"table", "key", "source"}),
             publishPlainNumericSet,
             Calm({"table", "key", "source"}))
  BY SafeNumericSet
<1>5. Triple(Calm({"table", "key", "source"}), Run({"table", "key", "source"}), Calm({}))
  BY Running DEF Calm
<1> QED BY <1>1, <1>2, <1>3, <1>4, <1>5, Chain5 DEF table_set

(* A table is asked for one.                                               *)
LEMMA SafeTableGet ==
    Triple(Calm({}), table_get, Calm({}))
<1>1. Triple(Calm({}), Operands({"dest", "table"}), Calm({"dest", "table"}))
  BY Operating DEF Calm
<1>2. Triple(Calm({"dest", "table"}),
             activeAotValueOperand({"key"}),
             Calm({"table", "key", "dest"}))
  BY Valuing DEF Calm
<1>3. Triple(Calm({"table", "key", "dest"}), Use({"table"}), Calm({"table", "key", "dest"}))
  BY Using DEF Calm
<1>4. Triple(Calm({"table", "key", "dest"}),
             Use({"key", "dest"}) \cup Run({"table", "key", "dest"}),
             Calm({}))
  <2>1. Triple(Calm({"table", "key", "dest"}), Use({"key", "dest"}), Calm({}))
    BY Using DEF Calm
  <2>2. Triple(Calm({"table", "key", "dest"}), Run({"table", "key", "dest"}), Calm({}))
    BY Running DEF Calm
  <2> QED BY <2>1, <2>2, Choice
<1> QED BY <1>1, <1>2, <1>3, <1>4, Chain4 DEF table_get

(* By a number.                                                            *)
LEMMA SafeTableSetNumber ==
    Triple(Calm({}), table_set_number, Calm({}))
<1>1. Triple(Calm({}), Operands({"table", "source"}), Calm({"table", "source"}))
  BY Operating DEF Calm
<1>2. Triple(Calm({"table", "source"}), publishPlainNumericSet, Calm({"table", "source"}))
  BY SafeNumericSet
<1>3. Triple(Calm({"table", "source"}), Run({"table", "source"}), Calm({}))
  BY Running DEF Calm
<1> QED BY <1>1, <1>2, <1>3, Chain3 DEF table_set_number

(* By a number.                                                            *)
LEMMA SafeTableGetNumber ==
    Triple(Calm({}), table_get_number, Calm({}))
<1>1. Triple(Calm({}), Operands({"dest", "table"}), Calm({"table", "dest"}))
  BY Operating DEF Calm
<1>2. Triple(Calm({"table", "dest"}), Run({"table", "dest"}), Calm({}))
  BY Running DEF Calm
<1> QED BY <1>1, <1>2, Sequence DEF table_get_number

(* In the array part.                                                      *)
LEMMA SafeTableArraySet ==
    Triple(Calm({}), table_array_set, Calm({}))
<1>1. Triple(Calm({}), Operands({"table", "source"}), Calm({"table", "source"}))
  BY Operating DEF Calm
<1>2. Triple(Calm({"table", "source"}), Use({"table"}), Calm({"source"}))
  BY Using DEF Calm
<1>3. Triple(Calm({"source"}),
             Possibly(Use({"source"}) ** Store("table") ** Barrier("table")),
             Calm({}))
  <2>1. Triple(Calm({"source"}), Use({"source"}) ** Store("table") ** Barrier("table"), Calm({}))
    <3>1. Triple(Calm({"source"}), Use({"source"}), Calm({}))
      BY Using DEF Calm
    <3>2. Triple(Calm({}), Store("table"), Making({}, {}, {"table"}))
      BY Storing DEF Calm, Making
    <3>3. Triple(Making({}, {}, {"table"}), Barrier("table"), Calm({}))
      BY Paying DEF Calm, Making
    <3> QED BY <3>1, <3>2, <3>3, Chain3
  <2> QED BY <2>1, Optional, Fewer DEF Calm
<1> QED BY <1>1, <1>2, <1>3, Chain3 DEF table_array_set

(* From the array part.                                                    *)
LEMMA SafeTableArrayGet ==
    Triple(Calm({}), table_array_get, Calm({}))
<1>1. Triple(Calm({}), Operands({"dest", "table"}), Calm({"dest", "table"}))
  BY Operating DEF Calm
<1>2. Triple(Calm({"dest", "table"}), Use({"table"}), Calm({"dest"}))
  BY Using DEF Calm
<1>3. Triple(Calm({"dest"}), Possibly(Use({"dest"})), Calm({}))
  <2>1. Triple(Calm({"dest"}), Use({"dest"}), Calm({}))
    BY Using DEF Calm
  <2> QED BY <2>1, Optional, Fewer DEF Calm
<1> QED BY <1>1, <1>2, <1>3, Chain3 DEF table_array_get

(* In the array part of a plain table.                                     *)
LEMMA SafeArraySet ==
    Triple(Calm({}), array_set, Calm({}))
<1>1. Triple(Calm({}), activeAotFrameProto, Calm({}))
  BY Guarding DEF activeAotFrameProto, Calm
<1>2. Triple(Calm({}), activeAotTable({"table"}), Calm({}))
  BY Tabling DEF Calm
<1>3. Triple(Calm({}), activeAotRegister({"source"}), Calm({"source"}))
  BY Registering DEF Calm
<1>4. Triple(Calm({"source"}), Guard, Calm({"source"}))
  BY Guarding DEF Calm
<1>5. Triple(Calm({"source"}), Use({"source"}), Calm({}))
  BY Using DEF Calm
<1>6. Triple(Calm({}), Store("table"), Making({}, {}, {"table"}))
  BY Storing DEF Calm, Making
<1>7. Triple(Making({}, {}, {"table"}), Barrier("table"), Calm({}))
  BY Paying DEF Calm, Making
<1> QED BY <1>1, <1>2, <1>3, <1>4, <1>5, <1>6, <1>7, Chain7 DEF array_set

(* From the array part of a plain table.                                   *)
LEMMA SafeArrayGet ==
    Triple(Calm({}), array_get, Calm({}))
<1>1. Triple(Calm({}), activeAotFrameProto, Calm({}))
  BY Guarding DEF activeAotFrameProto, Calm
<1>2. Triple(Calm({}), activeAotTable({"table"}), Calm({}))
  BY Tabling DEF Calm
<1>3. Triple(Calm({}), activeAotRegister({"dest"}), Calm({"dest"}))
  BY Registering DEF Calm
<1>4. Triple(Calm({"dest"}), Guard, Calm({"dest"}))
  BY Guarding DEF Calm
<1>5. Triple(Calm({"dest"}), Use({"dest"}), Calm({}))
  BY Using DEF Calm
<1> QED BY <1>1, <1>2, <1>3, <1>4, <1>5, Chain5 DEF array_get

(* Many values, looked up after the table has grown.                       *)
LEMMA SafeSetList ==
    Triple(Calm({}), set_list, Calm({}))
<1>1. Triple(Calm({}),
             activeAotFrameProto ** (Nothing \cup Top("open") ** Guard ** Top("frame"))
               ** activeAotTable({"table"}) ** Guard ** (Leave \cup Guard) ** Possibly(Grow)
               ** Guard,
             Calm({}))
  <2>1. Triple(Calm({}), activeAotFrameProto, Calm({}))
    BY Guarding DEF activeAotFrameProto, Calm
  <2>2. Triple(Calm({}), Nothing \cup Top("open") ** Guard ** Top("frame"), Calm({}))
    <3>1. Triple(Calm({}), Nothing, Calm({}))
      BY Skip, HavingMemory DEF Calm
    <3>2. Triple(Calm({}), Top("open") ** Guard ** Top("frame"), Calm({}))
      <4>1. Triple(Calm({}), Top("open"), Topped({}, "open"))
        BY SettingTop DEF Calm, Topped
      <4>2. Triple(Topped({}, "open"), Guard, Topped({}, "open"))
        BY Guarding DEF Topped
      <4>3. Triple(Topped({}, "open"), Top("frame"), Calm({}))
        BY SettingTop DEF Calm, Topped
      <4> QED BY <4>1, <4>2, <4>3, Chain3
    <3> QED BY <3>1, <3>2, Choice
  <2>3. Triple(Calm({}), activeAotTable({"table"}), Calm({}))
    BY Tabling DEF Calm
  <2>4. Triple(Calm({}), Guard, Calm({}))
    BY Guarding DEF Calm
  <2>5. Triple(Calm({}), Leave \cup Guard, Calm({}))
    <3>1. Triple(Calm({}), Leave, Calm({}))
      BY Leaving, HavingMemory DEF Calm
    <3>2. Triple(Calm({}), Guard, Calm({}))
      BY Guarding DEF Calm
    <3> QED BY <3>1, <3>2, Choice
  <2>6. Triple(Calm({}), Possibly(Grow), Calm({}))
    <3>1. Triple(Calm({}), Grow, Calm({}))
      BY Growing DEF Calm
    <3> QED BY <3>1, Optional
  <2>7. Triple(Calm({}), Guard, Calm({}))
    BY Guarding DEF Calm
  <2> QED BY <2>1, <2>2, <2>3, <2>4, <2>5, <2>6, <2>7, Chain7
<1>2. Triple(Calm({}), activeAotTable({"table"}), Calm({}))
  BY Tabling DEF Calm
<1>3. Triple(Calm({}), At({"source"}), Calm({"source"}))
  BY Taking DEF Calm
<1>4. Triple(Calm({"source"}), Use({"source"}), Calm({}))
  BY Using DEF Calm
<1>5. Triple(Calm({}), Store("table"), Making({}, {}, {"table"}))
  BY Storing DEF Calm, Making
<1>6. Triple(Making({}, {}, {"table"}), Barrier("table"), Calm({}))
  BY Paying DEF Calm, Making
<1> QED BY <1>1, <1>2, <1>3, <1>4, <1>5, <1>6, Chain6 DEF set_list

(* A store, and its barrier by the next command.                           *)
LEMMA SafeTableStore ==
    Triple(Calm({}), table_store ** (barrier_table_forward \cup barrier_table_back), Calm({}))
<1>1. Triple(Calm({}), table_store, Making({}, {}, {"table"}))
  <2>1. Triple(Calm({}), activeAotFrameProto, Calm({}))
    BY Guarding DEF activeAotFrameProto, Calm
  <2>2. Triple(Calm({}), activeAotPlainTable({"table"}), Calm({}))
    BY TablingPlainly DEF Calm
  <2>3. Triple(Calm({}), activeAotRegister({"source"}), Calm({}))
    BY Registering DEF Calm
  <2>4. Triple(Calm({}), Guard, Calm({}))
    BY Guarding DEF Calm
  <2>5. Triple(Calm({}), Grow, Calm({"slot"}))
    BY Growing DEF Calm
  <2>6. Triple(Calm({"slot"}), At({"source"}), Calm({"source", "slot"}))
    BY Taking DEF Calm
  <2>7. Triple(Calm({"source", "slot"}), Use({"source", "slot"}), Calm({}))
    BY Using DEF Calm
  <2>8. Triple(Calm({}), Store("table"), Making({}, {}, {"table"}))
    BY Storing DEF Calm, Making
  <2> QED BY <2>1, <2>2, <2>3, <2>4, <2>5, <2>6, <2>7, <2>8, Chain8 DEF table_store
<1>2. Triple(Making({}, {}, {"table"}), barrier_table_forward \cup barrier_table_back, Calm({}))
  <2>1. Triple(Making({}, {}, {"table"}), barrier_table_forward, Calm({}))
    <3>1. Triple(Making({}, {}, {"table"}), Operands({"source"}), Making({"source"}, {}, {"table"}))
      BY Operating DEF Making
    <3>2. Triple(Making({"source"}, {}, {"table"}), Guard, Making({"source"}, {}, {"table"}))
      BY Guarding DEF Making
    <3>3. Triple(Making({"source"}, {}, {"table"}), Use({"source"}), Making({}, {}, {"table"}))
      BY Using DEF Making
    <3>4. Triple(Making({}, {}, {"table"}), Barrier("table"), Calm({}))
      BY Paying DEF Calm, Making
    <3> QED BY <3>1, <3>2, <3>3, <3>4, Chain4 DEF barrier_table_forward
  <2>2. Triple(Making({}, {}, {"table"}), barrier_table_back, Calm({}))
    <3>1. Triple(Making({}, {}, {"table"}), activeAotFrameProto, Making({}, {}, {"table"}))
      BY Guarding DEF activeAotFrameProto, Making
    <3>2. Triple(Making({}, {}, {"table"}), Guard, Making({}, {}, {"table"}))
      BY Guarding DEF Making
    <3>3. Triple(Making({}, {}, {"table"}), Barrier("table"), Calm({}))
      BY Paying DEF Calm, Making
    <3> QED BY <3>1, <3>2, <3>3, Chain3 DEF barrier_table_back
  <2> QED BY <2>1, <2>2, Choice
<1> QED BY <1>1, <1>2, Sequence

(* New userdata is in a register before anything collects.                 *)
LEMMA SafeUserdata ==
    Triple(Calm({}), new_userdata ** check_userdata_tag ** At({"dest"})
      ** Publish("dest", "userdata") ** set_userdata_metatable ** barrier_object, Calm({}))
<1>1. Triple(Calm({}), new_userdata, Making({}, {"userdata"}, {}))
  <2>1. Triple(Calm({}), activeAotFrameProto, Calm({}))
    BY Guarding DEF activeAotFrameProto, Calm
  <2>2. Triple(Calm({}), Guard, Calm({}))
    BY Guarding DEF Calm
  <2>3. Triple(Calm({}), Collect, Calm({}))
    BY CollectingOnce DEF Calm
  <2>4. Triple(Calm({}), New("userdata"), Making({}, {"userdata"}, {}))
    BY Allocating DEF Calm, Making
  <2> QED BY <2>1, <2>2, <2>3, <2>4, Chain4 DEF new_userdata
<1>2. Triple(Making({}, {"userdata"}, {}), check_userdata_tag, Making({}, {"userdata"}, {}))
  <2>1. Triple(Making({}, {"userdata"}, {}), activeAotFrameProto, Making({}, {"userdata"}, {}))
    BY Guarding DEF activeAotFrameProto, Making
  <2>2. Triple(Making({}, {"userdata"}, {}), Guard, Making({}, {"userdata"}, {}))
    BY Guarding DEF Making
  <2> QED BY <2>1, <2>2, Sequence DEF check_userdata_tag
<1>3. Triple(Making({}, {"userdata"}, {}), At({"dest"}), Making({"dest"}, {"userdata"}, {}))
  BY Taking DEF Making
<1>4. Triple(Making({"dest"}, {"userdata"}, {}), Publish("dest", "userdata"), Calm({}))
  BY Publishing DEF Calm, Making
<1>5. Triple(Calm({}), set_userdata_metatable, Making({}, {}, {"userdata"}))
  <2>1. Triple(Calm({}), Operands({"source"}), Calm({"source"}))
    BY Operating DEF Calm
  <2>2. Triple(Calm({"source"}), Guard, Calm({"source"}))
    BY Guarding DEF Calm
  <2>3. Triple(Calm({"source"}), Use({"source"}), Calm({}))
    BY Using DEF Calm
  <2>4. Triple(Calm({}), Store("userdata"), Making({}, {}, {"userdata"}))
    BY Storing DEF Calm, Making
  <2> QED BY <2>1, <2>2, <2>3, <2>4, Chain4 DEF set_userdata_metatable
<1>6. Triple(Making({}, {}, {"userdata"}), barrier_object, Calm({}))
  <2>1. Triple(Making({}, {}, {"userdata"}),
               Operands({"source"}),
               Making({"source"}, {}, {"userdata"}))
    BY Operating DEF Making
  <2>2. Triple(Making({"source"}, {}, {"userdata"}), Guard, Making({"source"}, {}, {"userdata"}))
    BY Guarding DEF Making
  <2>3. Triple(Making({"source"}, {}, {"userdata"}), Use({"source"}), Making({}, {}, {"userdata"}))
    BY Using DEF Making
  <2>4. Triple(Making({}, {}, {"userdata"}), Barrier("userdata"), Calm({}))
    BY Paying DEF Calm, Making
  <2> QED BY <2>1, <2>2, <2>3, <2>4, Chain4 DEF barrier_object
<1> QED BY <1>1, <1>2, <1>3, <1>4, <1>5, <1>6, Chain6

(* A slot that generated code has checked.                                 *)
LEMMA SafeSlot ==
    Triple(Calm({}), GuardedSlot, Calm({}))
<1>1. Triple(Calm({}), hash_node_addr \cup slot_node_addr, Calm({"node"}))
  <2>1. Triple(Calm({}), hash_node_addr, Calm({"node"}))
    <3>1. Triple(Calm({}), activeAotFrameProto, Calm({}))
      BY Guarding DEF activeAotFrameProto, Calm
    <3>2. Triple(Calm({}), activeAotTable({"table"}), Calm({}))
      BY Tabling DEF Calm
    <3>3. Triple(Calm({}), At({"node"}), Calm({"node"}))
      BY Taking DEF Calm
    <3> QED BY <3>1, <3>2, <3>3, Chain3 DEF hash_node_addr
  <2>2. Triple(Calm({}), slot_node_addr, Calm({"node"}))
    <3>1. Triple(Calm({}), activeAotFrameProto, Calm({}))
      BY Guarding DEF activeAotFrameProto, Calm
    <3>2. Triple(Calm({}), Guard, Calm({}))
      BY Guarding DEF Calm
    <3>3. Triple(Calm({}), At({"node"}), Calm({"node"}))
      BY Taking DEF Calm
    <3> QED BY <3>1, <3>2, <3>3, Chain3 DEF slot_node_addr
  <2> QED BY <2>1, <2>2, Choice
<1>2. Triple(Calm({"node"}), node_slot_match, Calm({"node"}))
  <2>1. Triple(Calm({"node"}), activeAotFrameProto, Calm({"node"}))
    BY Guarding DEF activeAotFrameProto, Calm
  <2>2. Triple(Calm({"node"}), Guard, Calm({"node"}))
    BY Guarding DEF Calm
  <2>3. Triple(Calm({"node"}), Use({"node"}), Calm({"node"}))
    BY Using DEF Calm
  <2> QED BY <2>1, <2>2, <2>3, Chain3 DEF node_slot_match
<1>3. Triple(Calm({"node"}), check_node_no_next, Calm({"node"}))
  <2>1. Triple(Calm({"node"}), activeAotFrameProto, Calm({"node"}))
    BY Guarding DEF activeAotFrameProto, Calm
  <2>2. Triple(Calm({"node"}), Guard, Calm({"node"}))
    BY Guarding DEF Calm
  <2>3. Triple(Calm({"node"}), Use({"node"}), Calm({"node"}))
    BY Using DEF Calm
  <2> QED BY <2>1, <2>2, <2>3, Chain3 DEF check_node_no_next
<1>4. Triple(Calm({"node"}), check_node_value, Calm({"node"}))
  <2>1. Triple(Calm({"node"}), activeAotFrameProto, Calm({"node"}))
    BY Guarding DEF activeAotFrameProto, Calm
  <2>2. Triple(Calm({"node"}), Guard, Calm({"node"}))
    BY Guarding DEF Calm
  <2>3. Triple(Calm({"node"}), Use({"node"}), Calm({"node"}))
    BY Using DEF Calm
  <2> QED BY <2>1, <2>2, <2>3, Chain3 DEF check_node_value
<1>5. Triple(Calm({"node"}), Use({"node"}), Calm({}))
  BY Using DEF Calm
<1> QED BY <1>1, <1>2, <1>3, <1>4, <1>5, Chain5 DEF GuardedSlot

(* A global is looked up by a temporary key.                               *)
LEMMA SafeGetGlobal ==
    Triple(Calm({}), get_global, Calm({}))
<1>1. Triple(Calm({}), Operands({"dest"}), Calm({}))
  BY Operating DEF Calm
<1>2. Triple(Calm({}), Guard, Calm({}))
  BY Guarding DEF Calm
<1>3. Triple(Calm({}), RootedKey({"dest"}), Lifted({"key", "dest"}, 1, 1))
  BY Rooting
<1>4. Triple(Lifted({"key", "dest"}, 1, 1), Run({"key", "dest"}), Lifted({}, 1, 0))
  BY Running DEF Lifted
<1>5. Triple(Lifted({}, 1, 0), Restored, Calm({}))
  BY RestoredTop
<1> QED BY <1>1, <1>2, <1>3, <1>4, <1>5, Chain5 DEF get_global

(* Or by a constant.                                                       *)
LEMMA SafeGetGlobalConstant ==
    Triple(Calm({}), get_global_constant, Calm({}))
<1>1. Triple(Calm({}), Operands({"dest"}), Calm({"dest"}))
  BY Operating DEF Calm
<1>2. Triple(Calm({"dest"}), activeAotValueOperand({}), Calm({"dest"}))
  BY Valuing DEF Calm
<1>3. Triple(Calm({"dest"}), Guard, Calm({"dest"}))
  BY Guarding DEF Calm
<1>4. Triple(Calm({"dest"}), Use({"dest"}) \cup Run({"dest"}), Calm({}))
  <2>1. Triple(Calm({"dest"}), Use({"dest"}), Calm({}))
    BY Using DEF Calm
  <2>2. Triple(Calm({"dest"}), Run({"dest"}), Calm({}))
    BY Running DEF Calm
  <2> QED BY <2>1, <2>2, Choice
<1> QED BY <1>1, <1>2, <1>3, <1>4, Chain4 DEF get_global_constant

(* A global is set.                                                        *)
LEMMA SafeSetGlobal ==
    Triple(Calm({}), set_global, Calm({}))
<1>1. Triple(Calm({}), Operands({"source"}), Calm({}))
  BY Operating DEF Calm
<1>2. Triple(Calm({}), Guard, Calm({}))
  BY Guarding DEF Calm
<1>3. Triple(Calm({}), RootedKey({"source"}), Lifted({"key", "source"}, 1, 1))
  BY Rooting
<1>4. Triple(Lifted({"key", "source"}, 1, 1), Run({"key", "source"}), Lifted({}, 1, 0))
  BY Running DEF Lifted
<1>5. Triple(Lifted({}, 1, 0), Restored, Calm({}))
  BY RestoredTop
<1> QED BY <1>1, <1>2, <1>3, <1>4, <1>5, Chain5 DEF set_global

(* An operation that can call a function leaves the saved top.             *)
LEMMA SafeArith ==
    Triple(Calm({}), do_arith, Calm({}))
<1>1. Triple(Calm({}), activeAotFrameProto, Calm({}))
  BY Guarding DEF activeAotFrameProto, Calm
<1>2. Triple(Calm({}), activeAotRegister({"dest"}), Calm({"dest"}))
  BY Registering DEF Calm
<1>3. Triple(Calm({"dest"}), activeAotValueOperand({"left"}), Calm({"left", "dest"}))
  BY Valuing DEF Calm
<1>4. Triple(Calm({"left", "dest"}),
             activeAotValueOperand({"right"}),
             Calm({"right", "left", "dest"}))
  BY Valuing DEF Calm
<1>5. Triple(Calm({"right", "left", "dest"}), Guard, Calm({"dest", "left", "right"}))
  BY Guarding DEF Calm
<1>6. Triple(Calm({"dest", "left", "right"}), SaveTop, Calm({"dest", "left", "right"}))
  BY Saving DEF Calm
<1>7. Triple(Calm({"dest", "left", "right"}), Run({"dest", "left", "right"}), Calm({}))
  BY Running DEF Calm
<1>8. Triple(Calm({}), RestoreTop, Calm({}))
  BY Restoring DEF Calm
<1> QED BY <1>1, <1>2, <1>3, <1>4, <1>5, <1>6, <1>7, <1>8, Chain8 DEF do_arith

(* A comparison.                                                           *)
LEMMA SafeCompare ==
    Triple(Calm({}), compare_any, Calm({}))
<1>1. Triple(Calm({}), activeAotFrameProto, Calm({}))
  BY Guarding DEF activeAotFrameProto, Calm
<1>2. Triple(Calm({}), activeAotValueOperand({"left"}), Calm({"left"}))
  BY Valuing DEF Calm
<1>3. Triple(Calm({"left"}), activeAotValueOperand({"right"}), Calm({"left", "right"}))
  BY Valuing DEF Calm
<1>4. Triple(Calm({"left", "right"}), SaveTop, Calm({"left", "right"}))
  BY Saving DEF Calm
<1>5. Triple(Calm({"left", "right"}), Run({"left", "right"}), Calm({}))
  BY Running DEF Calm
<1>6. Triple(Calm({}), RestoreTop, Calm({}))
  BY Restoring DEF Calm
<1> QED BY <1>1, <1>2, <1>3, <1>4, <1>5, <1>6, Chain6 DEF compare_any

(* A length.                                                               *)
LEMMA SafeDoLen ==
    Triple(Calm({}), do_len, Calm({}))
<1>1. Triple(Calm({}), Operands({"dest", "source"}), Calm({}))
  BY Operating DEF Calm
<1>2. Triple(Calm({}), SaveTop, Calm({}))
  BY Saving DEF Calm
<1>3. Triple(Calm({}), At({"dest", "source"}), Calm({"dest", "source"}))
  BY Taking DEF Calm
<1>4. Triple(Calm({"dest", "source"}), Run({"dest", "source"}), Calm({}))
  BY Running DEF Calm
<1>5. Triple(Calm({}), RestoreTop, Calm({}))
  BY Restoring DEF Calm
<1> QED BY <1>1, <1>2, <1>3, <1>4, <1>5, Chain5 DEF do_len

(* The length of a table.                                                  *)
LEMMA SafeTableLen ==
    Triple(Calm({}), table_len, Calm({}))
<1>1. Triple(Calm({}), activeAotFrameProto, Calm({}))
  BY Guarding DEF activeAotFrameProto, Calm
<1>2. Triple(Calm({}), activeAotRegister({"table"}), Calm({"table"}))
  BY Registering DEF Calm
<1>3. Triple(Calm({"table"}), Use({"table"}), Calm({}))
  BY Using DEF Calm
<1>4. Triple(Calm({}), do_len \cup activeAotRegister({"dest"}) ** Use({"dest"}), Calm({}))
  <2>1. Triple(Calm({}), do_len, Calm({}))
    BY SafeDoLen
  <2>2. Triple(Calm({}), activeAotRegister({"dest"}) ** Use({"dest"}), Calm({}))
    <3>1. Triple(Calm({}), activeAotRegister({"dest"}), Calm({"dest"}))
      BY Registering DEF Calm
    <3>2. Triple(Calm({"dest"}), Use({"dest"}), Calm({}))
      BY Using DEF Calm
    <3> QED BY <3>1, <3>2, Sequence
  <2> QED BY <2>1, <2>2, Choice
<1> QED BY <1>1, <1>2, <1>3, <1>4, Chain4 DEF table_len

(* A concatenation, whose result is moved before the collection.           *)
LEMMA SafeConcat ==
    Triple(Calm({}), concat, Calm({}))
<1>1. Triple(Calm({}),
             activeAotFrameProto ** Guard ** activeAotRegister({"dest"}) ** At({"source"})
               ** SaveTop ** Run({}) ** RestoreTop,
             Calm({}))
  <2>1. Triple(Calm({}), activeAotFrameProto, Calm({}))
    BY Guarding DEF activeAotFrameProto, Calm
  <2>2. Triple(Calm({}), Guard, Calm({}))
    BY Guarding DEF Calm
  <2>3. Triple(Calm({}), activeAotRegister({"dest"}), Calm({}))
    BY Registering DEF Calm
  <2>4. Triple(Calm({}), At({"source"}), Calm({}))
    BY Taking DEF Calm
  <2>5. Triple(Calm({}), SaveTop, Calm({}))
    BY Saving DEF Calm
  <2>6. Triple(Calm({}), Run({}), Calm({}))
    BY Running DEF Calm
  <2>7. Triple(Calm({}), RestoreTop, Calm({}))
    BY Restoring DEF Calm
  <2> QED BY <2>1, <2>2, <2>3, <2>4, <2>5, <2>6, <2>7, Chain7
<1>2. Triple(Calm({}), At({"dest", "source"}), Calm({"dest", "source"}))
  BY Taking DEF Calm
<1>3. Triple(Calm({"dest", "source"}), Use({"dest", "source"}), Calm({}))
  BY Using DEF Calm
<1>4. Triple(Calm({}), Collect, Calm({}))
  BY CollectingOnce DEF Calm
<1>5. Triple(Calm({}), RestoreTop, Calm({}))
  BY Restoring DEF Calm
<1> QED BY <1>1, <1>2, <1>3, <1>4, <1>5, Chain5 DEF concat

(* Two arguments are copied above the top, where there is room for two.    *)
LEMMA SafeFastcall ==
    Triple(Calm({}), fastcall, Calm({}))
<1>1. Triple(Calm({}), Operands({"dest", "source"}), Calm({"dest", "source"}))
  BY Operating DEF Calm
<1>2. Triple(Calm({"dest", "source"}), Guard, Calm({"dest", "source"}))
  BY Guarding DEF Calm
<1>3. Triple(Calm({"dest", "source"}), Possibly(Leave), Calm({"dest", "source"}))
  <2>1. Triple(Calm({"dest", "source"}), Leave, Calm({"dest", "source"}))
    BY Leaving, HavingMemory DEF Calm
  <2> QED BY <2>1, Optional
<1>4. Triple(Calm({"dest", "source"}), Guard, Calm({"dest", "source"}))
  BY Guarding DEF Calm
<1>5. Triple(Calm({"dest", "source"}), Possibly(Leave), Calm({"dest", "source"}))
  <2>1. Triple(Calm({"dest", "source"}), Leave, Calm({"dest", "source"}))
    BY Leaving, HavingMemory DEF Calm
  <2> QED BY <2>1, Optional
<1>6. Triple(Calm({"dest", "source"}), Guard, Calm({"dest", "source"}))
  BY Guarding DEF Calm
<1>7. Triple(Calm({"dest", "source"}),
             Use({"dest", "source"}) \cup (At({"second"})
               \cup activeAotValueOperand({"second"})) ** Use({"dest", "source", "second"})
               \cup activeAotValueOperand({"second"}) ** Guard
               ** activeAotValueOperand({"third"}) ** SaveTop ** Reserve(2)
               ** At({"source", "dest", "second", "third"}) ** Use({"second", "third"})
               ** Above(2) ** Use({"dest", "source"}) ** RestoreTop,
             Calm({}))
  <2>1. Triple(Calm({"dest", "source"}),
               Use({"dest", "source"}) \cup (At({"second"})
                 \cup activeAotValueOperand({"second"})) ** Use({"dest", "source", "second"}),
               Calm({}))
    <3>1. Triple(Calm({"dest", "source"}), Use({"dest", "source"}), Calm({}))
      BY Using DEF Calm
    <3>2. Triple(Calm({"dest", "source"}),
                 (At({"second"}) \cup activeAotValueOperand({"second"}))
                   ** Use({"dest", "source", "second"}),
                 Calm({}))
      <4>1. Triple(Calm({"dest", "source"}),
                   At({"second"}) \cup activeAotValueOperand({"second"}),
                   Calm({"dest", "source", "second"}))
        <5>1. Triple(Calm({"dest", "source"}), At({"second"}), Calm({"dest", "source", "second"}))
          BY Taking DEF Calm
        <5>2. Triple(Calm({"dest", "source"}),
                     activeAotValueOperand({"second"}),
                     Calm({"dest", "source", "second"}))
          BY Valuing DEF Calm
        <5> QED BY <5>1, <5>2, Choice
      <4>2. Triple(Calm({"dest", "source", "second"}), Use({"dest", "source", "second"}), Calm({}))
        BY Using DEF Calm
      <4> QED BY <4>1, <4>2, Sequence
    <3> QED BY <3>1, <3>2, Choice
  <2>2. Triple(Calm({"dest", "source"}),
               activeAotValueOperand({"second"}) ** Guard ** activeAotValueOperand({"third"})
                 ** SaveTop ** Reserve(2) ** At({"source", "dest", "second", "third"})
                 ** Use({"second", "third"}) ** Above(2) ** Use({"dest", "source"}) ** RestoreTop,
               Calm({}))
    <3>1. Triple(Calm({"dest", "source"}),
                 activeAotValueOperand({"second"}) ** Guard ** activeAotValueOperand({"third"})
                   ** SaveTop ** Reserve(2),
                 Lifted({}, 0, 2))
      <4>1. Triple(Calm({"dest", "source"}), activeAotValueOperand({"second"}), Calm({}))
        BY Valuing DEF Calm
      <4>2. Triple(Calm({}), Guard, Calm({}))
        BY Guarding DEF Calm
      <4>3. Triple(Calm({}), activeAotValueOperand({"third"}), Calm({}))
        BY Valuing DEF Calm
      <4>4. Triple(Calm({}), SaveTop, Calm({}))
        BY Saving DEF Calm
      <4>5. Triple(Calm({}), Reserve(2), Lifted({}, 0, 2))
        BY Reserving DEF Calm, Lifted
      <4> QED BY <4>1, <4>2, <4>3, <4>4, <4>5, Chain5
    <3>2. Triple(Lifted({}, 0, 2),
                 At({"source", "dest", "second", "third"}),
                 Lifted({"source", "dest", "second", "third"}, 0, 2))
      BY Taking DEF Lifted
    <3>3. Triple(Lifted({"source", "dest", "second", "third"}, 0, 2),
                 Use({"second", "third"}),
                 Lifted({"source", "dest"}, 0, 2))
      BY Using DEF Lifted
    <3>4. Triple(Lifted({"source", "dest"}, 0, 2), Above(2), Lifted({"source", "dest"}, 0, 2))
      BY WritingAbove DEF Lifted
    <3>5. Triple(Lifted({"source", "dest"}, 0, 2), Use({"dest", "source"}), Lifted({}, 0, 2))
      BY Using DEF Lifted
    <3>6. Triple(Lifted({}, 0, 2), RestoreTop, Calm({}))
      BY Restoring DEF Calm, Lifted
    <3> QED BY <3>1, <3>2, <3>3, <3>4, <3>5, <3>6, Chain6
  <2> QED BY <2>1, <2>2, Choice
<1> QED BY <1>1, <1>2, <1>3, <1>4, <1>5, <1>6, <1>7, Chain7 DEF fastcall

(* The name of a type.                                                     *)
LEMMA SafeTypeName ==
    Triple(Calm({}), type_name, Calm({}))
<1>1. Triple(Calm({}), Operands({"dest", "source"}), Calm({"dest", "source"}))
  BY Operating DEF Calm
<1>2. Triple(Calm({"dest", "source"}), Guard, Calm({"dest", "source"}))
  BY Guarding DEF Calm
<1>3. Triple(Calm({"dest", "source"}), Use({"source"}), Calm({"dest"}))
  BY Using DEF Calm
<1>4. Triple(Calm({"dest"}), Guard, Calm({"dest"}))
  BY Guarding DEF Calm
<1>5. Triple(Calm({"dest"}), Use({"dest"}), Calm({}))
  BY Using DEF Calm
<1> QED BY <1>1, <1>2, <1>3, <1>4, <1>5, Chain5 DEF type_name

(* A slice is in a register before the collection, and what it is made of  *)
(* is looked up after the one before.                                      *)
LEMMA Slicing ==
    ASSUME NEW V, NEW dest, NEW source
    PROVE  Triple(Calm(V), Slice(dest, source), Calm({}))
<1>1. Triple(Calm(V),
             activeAotFrameProto ** activeAotRegister({dest}) ** activeAotRegister({source})
               ** Use({source}) ** Guard ** Collect ** At({source}) ** Use({source}),
             Calm({}))
  <2>1. Triple(Calm(V), activeAotFrameProto, Calm({}))
    BY Guarding DEF activeAotFrameProto, Calm
  <2>2. Triple(Calm({}), activeAotRegister({dest}), Calm({}))
    BY Registering DEF Calm
  <2>3. Triple(Calm({}), activeAotRegister({source}), Calm({source}))
    BY Registering DEF Calm
  <2>4. Triple(Calm({source}), Use({source}), Calm({}))
    BY Using DEF Calm
  <2>5. Triple(Calm({}), Guard, Calm({}))
    BY Guarding DEF Calm
  <2>6. Triple(Calm({}), Collect, Calm({}))
    BY CollectingOnce DEF Calm
  <2>7. Triple(Calm({}), At({source}), Calm({source}))
    BY Taking DEF Calm
  <2>8. Triple(Calm({source}), Use({source}), Calm({}))
    BY Using DEF Calm
  <2> QED BY <2>1, <2>2, <2>3, <2>4, <2>5, <2>6, <2>7, <2>8, Chain8
<1>2. Triple(Calm({}), Guard, Calm({}))
  BY Guarding DEF Calm
<1>3. Triple(Calm({}), New("slice"), Making({}, {"slice"}, {}))
  BY Allocating DEF Calm, Making
<1>4. Triple(Making({}, {"slice"}, {}), At({dest}), Making({dest}, {"slice"}, {}))
  BY Taking DEF Making
<1>5. Triple(Making({dest}, {"slice"}, {}), Publish(dest, "slice"), Calm({}))
  BY Publishing DEF Calm, Making
<1>6. Triple(Calm({}), Top("frame"), Calm({}))
  BY SettingTop DEF Calm
<1>7. Triple(Calm({}), Collect, Calm({}))
  BY CollectingOnce DEF Calm
<1> QED BY <1>1, <1>2, <1>3, <1>4, <1>5, <1>6, <1>7, Chain7 DEF Slice

(* A slice by itself.                                                      *)
LEMMA SafeSliceString ==
    Triple(Calm({}), slice_string, Calm({}))
<1>1. Triple(Calm({}), Slice("dest", "source"), Calm({}))
  BY Slicing
<1> QED BY <1>1 DEF slice_string

(* string.sub.                                                             *)
LEMMA SafeSubString ==
    Triple(Calm({}), sub_string, Calm({}))
<1>1. Triple(Calm({}),
             activeAotFrameProto ** Possibly(Leave) ** At({"dest", "source", "start", "end"})
               ** Use({"source", "start", "end"}) ** Possibly(Leave) ** Collect
               ** At({"source"}) ** Use({"source"}),
             Calm({}))
  <2>1. Triple(Calm({}), activeAotFrameProto, Calm({}))
    BY Guarding DEF activeAotFrameProto, Calm
  <2>2. Triple(Calm({}), Possibly(Leave), Calm({}))
    <3>1. Triple(Calm({}), Leave, Calm({}))
      BY Leaving, HavingMemory DEF Calm
    <3> QED BY <3>1, Optional
  <2>3. Triple(Calm({}),
               At({"dest", "source", "start", "end"}),
               Calm({"dest", "source", "start", "end"}))
    BY Taking DEF Calm
  <2>4. Triple(Calm({"dest", "source", "start", "end"}), Use({"source", "start", "end"}), Calm({}))
    BY Using DEF Calm
  <2>5. Triple(Calm({}), Possibly(Leave), Calm({}))
    <3>1. Triple(Calm({}), Leave, Calm({}))
      BY Leaving, HavingMemory DEF Calm
    <3> QED BY <3>1, Optional
  <2>6. Triple(Calm({}), Collect, Calm({}))
    BY CollectingOnce DEF Calm
  <2>7. Triple(Calm({}), At({"source"}), Calm({"source"}))
    BY Taking DEF Calm
  <2>8. Triple(Calm({"source"}), Use({"source"}), Calm({}))
    BY Using DEF Calm
  <2> QED BY <2>1, <2>2, <2>3, <2>4, <2>5, <2>6, <2>7, <2>8, Chain8
<1>2. Triple(Calm({}), New("slice"), Making({}, {"slice"}, {}))
  BY Allocating DEF Calm, Making
<1>3. Triple(Making({}, {"slice"}, {}), At({"dest"}), Making({"dest"}, {"slice"}, {}))
  BY Taking DEF Making
<1>4. Triple(Making({"dest"}, {"slice"}, {}), Publish("dest", "slice"), Calm({}))
  BY Publishing DEF Calm, Making
<1>5. Triple(Calm({}), Top("frame"), Calm({}))
  BY SettingTop DEF Calm
<1>6. Triple(Calm({}), Collect, Calm({}))
  BY CollectingOnce DEF Calm
<1> QED BY <1>1, <1>2, <1>3, <1>4, <1>5, <1>6, Chain6 DEF sub_string

(* string.find.                                                            *)
LEMMA SafeFindString ==
    Triple(Calm({}), find_string, Calm({}))
<1>1. Triple(Calm({}), activeAotFrameProto, Calm({}))
  BY Guarding DEF activeAotFrameProto, Calm
<1>2. Triple(Calm({}), Possibly(Leave), Calm({}))
  <2>1. Triple(Calm({}), Leave, Calm({}))
    BY Leaving, HavingMemory DEF Calm
  <2> QED BY <2>1, Optional
<1>3. Triple(Calm({}),
             At({"dest", "source", "pattern", "init", "plain"}),
             Calm({"dest", "source", "pattern", "init", "plain"}))
  BY Taking DEF Calm
<1>4. Triple(Calm({"dest", "source", "pattern", "init", "plain"}),
             Use({"source", "pattern", "init", "plain"}),
             Calm({"dest", "source"}))
  BY Using DEF Calm
<1>5. Triple(Calm({"dest", "source"}), Possibly(Leave), Calm({"dest", "source"}))
  <2>1. Triple(Calm({"dest", "source"}), Leave, Calm({"dest", "source"}))
    BY Leaving, HavingMemory DEF Calm
  <2> QED BY <2>1, Optional
<1>6. Triple(Calm({"dest", "source"}), Use({"dest", "source"}), Calm({}))
  BY Using DEF Calm
<1>7. Triple(Calm({}), Top("frame"), Calm({}))
  BY SettingTop DEF Calm
<1> QED BY <1>1, <1>2, <1>3, <1>4, <1>5, <1>6, <1>7, Chain7 DEF find_string

(* string.match.                                                           *)
LEMMA SafeMatchString ==
    Triple(Calm({}), match_string, Calm({}))
<1>1. Triple(Calm({}), activeAotFrameProto, Calm({}))
  BY Guarding DEF activeAotFrameProto, Calm
<1>2. Triple(Calm({}), Possibly(Leave), Calm({}))
  <2>1. Triple(Calm({}), Leave, Calm({}))
    BY Leaving, HavingMemory DEF Calm
  <2> QED BY <2>1, Optional
<1>3. Triple(Calm({}), At({"dest", "source", "pattern"}), Calm({"dest", "source", "pattern"}))
  BY Taking DEF Calm
<1>4. Triple(Calm({"dest", "source", "pattern"}),
             Use({"source", "pattern"}),
             Calm({"dest", "source"}))
  BY Using DEF Calm
<1>5. Triple(Calm({"dest", "source"}), activeAotValueOperand({}), Calm({"dest", "source"}))
  BY Valuing DEF Calm
<1>6. Triple(Calm({"dest", "source"}), Possibly(Leave), Calm({"dest", "source"}))
  <2>1. Triple(Calm({"dest", "source"}), Leave, Calm({"dest", "source"}))
    BY Leaving, HavingMemory DEF Calm
  <2> QED BY <2>1, Optional
<1>7. Triple(Calm({"dest", "source"}),
             Use({"dest", "source"}) ** Top("frame") \cup Slice("dest", "source")
               ** (Nothing \cup Slice("source", "source") \cup At({"source"}) ** Use({"source"})),
             Calm({}))
  <2>1. Triple(Calm({"dest", "source"}), Use({"dest", "source"}) ** Top("frame"), Calm({}))
    <3>1. Triple(Calm({"dest", "source"}), Use({"dest", "source"}), Calm({}))
      BY Using DEF Calm
    <3>2. Triple(Calm({}), Top("frame"), Calm({}))
      BY SettingTop DEF Calm
    <3> QED BY <3>1, <3>2, Sequence
  <2>2. Triple(Calm({"dest", "source"}),
               Slice("dest", "source") ** (Nothing \cup Slice("source", "source")
                 \cup At({"source"}) ** Use({"source"})),
               Calm({}))
    <3>1. Triple(Calm({"dest", "source"}), Slice("dest", "source"), Calm({}))
      BY Slicing
    <3>2. Triple(Calm({}),
                 Nothing \cup Slice("source", "source") \cup At({"source"}) ** Use({"source"}),
                 Calm({}))
      <4>1. Triple(Calm({}), Nothing \cup Slice("source", "source"), Calm({}))
        <5>1. Triple(Calm({}), Nothing, Calm({}))
          BY Skip, HavingMemory DEF Calm
        <5>2. Triple(Calm({}), Slice("source", "source"), Calm({}))
          BY Slicing
        <5> QED BY <5>1, <5>2, Choice
      <4>2. Triple(Calm({}), At({"source"}) ** Use({"source"}), Calm({}))
        <5>1. Triple(Calm({}), At({"source"}), Calm({"source"}))
          BY Taking DEF Calm
        <5>2. Triple(Calm({"source"}), Use({"source"}), Calm({}))
          BY Using DEF Calm
        <5> QED BY <5>1, <5>2, Sequence
      <4> QED BY <4>1, <4>2, Choice
    <3> QED BY <3>1, <3>2, Sequence
  <2> QED BY <2>1, <2>2, Choice
<1> QED BY <1>1, <1>2, <1>3, <1>4, <1>5, <1>6, <1>7, Chain7 DEF match_string

(* The values of a loop.                                                   *)
LEMMA SafeFornPrepare ==
    Triple(Calm({}), forn_prepare, Calm({}))
<1>1. Triple(Calm({}), activeAotFrameProto, Calm({}))
  BY Guarding DEF activeAotFrameProto, Calm
<1>2. Triple(Calm({}), Guard, Calm({}))
  BY Guarding DEF Calm
<1>3. Triple(Calm({}), At({"loop"}), Calm({"loop"}))
  BY Taking DEF Calm
<1>4. Triple(Calm({"loop"}), Use({"loop"}), Calm({}))
  BY Using DEF Calm
<1>5. Triple(Calm({}), Guard, Calm({}))
  BY Guarding DEF Calm
<1> QED BY <1>1, <1>2, <1>3, <1>4, <1>5, Chain5 DEF forn_prepare

(* After a call the top is set again, and the iterator looked up.          *)
LEMMA SafeIterMethod ==
    Triple(Calm({"iterator"}), IterMethod, Calm({}))
<1>1. Triple(Calm({"iterator"}), Use({"iterator"}), Calm({"iterator"}))
  BY Using DEF Calm
<1>2. Triple(Calm({"iterator"}), Top("cut"), Topped({"iterator"}, "cut"))
  BY SettingTop DEF Calm, Topped
<1>3. Triple(Topped({"iterator"}, "cut"), Call({"iterator"}), Topped({}, "results"))
  BY Calling DEF Topped
<1>4. Triple(Topped({}, "results"), Top("frame"), Calm({}))
  BY SettingTop DEF Calm, Topped
<1>5. Triple(Calm({}), At({"iterator"}), Calm({"iterator"}))
  BY Taking DEF Calm
<1>6. Triple(Calm({"iterator"}), Use({"iterator"}), Calm({}))
  BY Using DEF Calm
<1>7. Triple(Calm({}), Guard, Calm({}))
  BY Guarding DEF Calm
<1> QED BY <1>1, <1>2, <1>3, <1>4, <1>5, <1>6, <1>7, Chain7 DEF IterMethod

(* A loop is prepared.                                                     *)
LEMMA SafeForgPrep ==
    Triple(Calm({}), forg_prep, Calm({}))
<1>1. Triple(Calm({}), activeAotFrameProto, Calm({}))
  BY Guarding DEF activeAotFrameProto, Calm
<1>2. Triple(Calm({}), Guard, Calm({}))
  BY Guarding DEF Calm
<1>3. Triple(Calm({}), At({"iterator"}), Calm({"iterator"}))
  BY Taking DEF Calm
<1>4. Triple(Calm({"iterator"}), Use({"iterator"}), Calm({"iterator"}))
  BY Using DEF Calm
<1>5. Triple(Calm({"iterator"}), Possibly(Leave), Calm({"iterator"}))
  <2>1. Triple(Calm({"iterator"}), Leave, Calm({"iterator"}))
    BY Leaving, HavingMemory DEF Calm
  <2> QED BY <2>1, Optional
<1>6. Triple(Calm({"iterator"}),
             IterMethod ** Leave \cup Leave \cup Guard ** Use({"iterator"}),
             Calm({}))
  <2>1. Triple(Calm({"iterator"}), IterMethod ** Leave \cup Leave, Calm({}))
    <3>1. Triple(Calm({"iterator"}), IterMethod ** Leave, Calm({}))
      <4>1. Triple(Calm({"iterator"}), IterMethod, Calm({}))
        BY SafeIterMethod
      <4>2. Triple(Calm({}), Leave, Calm({}))
        BY Leaving, HavingMemory DEF Calm
      <4> QED BY <4>1, <4>2, Sequence
    <3>2. Triple(Calm({"iterator"}), Leave, Calm({}))
      BY Leaving, HavingMemory DEF Calm
    <3> QED BY <3>1, <3>2, Choice
  <2>2. Triple(Calm({"iterator"}), Guard ** Use({"iterator"}), Calm({}))
    <3>1. Triple(Calm({"iterator"}), Guard, Calm({"iterator"}))
      BY Guarding DEF Calm
    <3>2. Triple(Calm({"iterator"}), Use({"iterator"}), Calm({}))
      BY Using DEF Calm
    <3> QED BY <3>1, <3>2, Sequence
  <2> QED BY <2>1, <2>2, Choice
<1> QED BY <1>1, <1>2, <1>3, <1>4, <1>5, <1>6, Chain6 DEF forg_prep

(* Or by its fallback.                                                     *)
LEMMA SafeForgFallback ==
    Triple(Calm({}), forgprep_xnext_fallback, Calm({}))
<1>1. Triple(Calm({}), activeAotFrameProto, Calm({}))
  BY Guarding DEF activeAotFrameProto, Calm
<1>2. Triple(Calm({}), Guard, Calm({}))
  BY Guarding DEF Calm
<1>3. Triple(Calm({}), At({"iterator"}), Calm({"iterator"}))
  BY Taking DEF Calm
<1>4. Triple(Calm({"iterator"}), Guard, Calm({"iterator"}))
  BY Guarding DEF Calm
<1>5. Triple(Calm({"iterator"}), Use({"iterator"}), Calm({}))
  BY Using DEF Calm
<1>6. Triple(Calm({}), Possibly(Guard), Calm({}))
  <2>1. Triple(Calm({}), Guard, Calm({}))
    BY Guarding DEF Calm
  <2> QED BY <2>1, Optional
<1> QED BY <1>1, <1>2, <1>3, <1>4, <1>5, <1>6, Chain6 DEF forgprep_xnext_fallback

(* A loop over a table goes on.                                            *)
LEMMA SafeForgLoop ==
    Triple(Calm({}), forg_loop, Calm({}))
<1>1. Triple(Calm({}), activeAotFrameProto, Calm({}))
  BY Guarding DEF activeAotFrameProto, Calm
<1>2. Triple(Calm({}), Guard, Calm({}))
  BY Guarding DEF Calm
<1>3. Triple(Calm({}), At({"iterator"}), Calm({"iterator"}))
  BY Taking DEF Calm
<1>4. Triple(Calm({"iterator"}), Use({"iterator"}), Calm({"iterator"}))
  BY Using DEF Calm
<1>5. Triple(Calm({"iterator"}), Guard, Calm({"iterator"}))
  BY Guarding DEF Calm
<1>6. Triple(Calm({"iterator"}), Use({"iterator"}), Calm({}))
  BY Using DEF Calm
<1> QED BY <1>1, <1>2, <1>3, <1>4, <1>5, <1>6, Chain6 DEF forg_loop

(* A loop calls its iterator, and sets the top again by the next command.  *)
LEMMA SafeForgCall ==
    Triple(Calm({}), forg_loop_call ** forg_loop_finish, Calm({}))
<1>1. Triple(Calm({}), forg_loop_call, Topped({}, "results"))
  <2>1. Triple(Calm({}), IteratorCall, Topped({}, "results"))
    <3>1. Triple(Calm({}),
                 activeAotFrameProto ** Guard ** At({"iterator"}) ** Reserve(3)
                   ** At({"iterator"}) ** Use({"iterator"}),
                 Lifted({"iterator"}, 0, 3))
      <4>1. Triple(Calm({}), activeAotFrameProto, Calm({}))
        BY Guarding DEF activeAotFrameProto, Calm
      <4>2. Triple(Calm({}), Guard, Calm({}))
        BY Guarding DEF Calm
      <4>3. Triple(Calm({}), At({"iterator"}), Calm({}))
        BY Taking DEF Calm
      <4>4. Triple(Calm({}), Reserve(3), Lifted({}, 0, 3))
        BY Reserving DEF Calm, Lifted
      <4>5. Triple(Lifted({}, 0, 3), At({"iterator"}), Lifted({"iterator"}, 0, 3))
        BY Taking DEF Lifted
      <4>6. Triple(Lifted({"iterator"}, 0, 3), Use({"iterator"}), Lifted({"iterator"}, 0, 3))
        BY Using DEF Lifted
      <4> QED BY <4>1, <4>2, <4>3, <4>4, <4>5, <4>6, Chain6
    <3>2. Triple(Lifted({"iterator"}, 0, 3), Above(1), Lifted({"iterator"}, 0, 3))
      BY WritingAbove DEF Lifted
    <3>3. Triple(Lifted({"iterator"}, 0, 3), Top("cut"), Topped({"iterator"}, "cut"))
      BY SettingTop DEF Lifted, Topped
    <3>4. Triple(Topped({"iterator"}, "cut"), Call({"iterator"}), Topped({}, "results"))
      BY Calling DEF Topped
    <3> QED BY <3>1, <3>2, <3>3, <3>4, Chain4 DEF IteratorCall
  <2>2. Triple(Topped({}, "results"), Guard, Topped({}, "results"))
    BY Guarding DEF Topped
  <2> QED BY <2>1, <2>2, Sequence DEF forg_loop_call
<1>2. Triple(Topped({}, "results"), forg_loop_finish, Calm({}))
  <2>1. Triple(Topped({}, "results"), activeAotFrameProto, Topped({}, "results"))
    BY Guarding DEF activeAotFrameProto, Topped
  <2>2. Triple(Topped({}, "results"), Guard, Topped({}, "results"))
    BY Guarding DEF Topped
  <2>3. Triple(Topped({}, "results"), Top("frame"), Calm({}))
    BY SettingTop DEF Calm, Topped
  <2>4. Triple(Calm({}), At({"iterator"}), Calm({"iterator"}))
    BY Taking DEF Calm
  <2>5. Triple(Calm({"iterator"}), Guard, Calm({"iterator"}))
    BY Guarding DEF Calm
  <2>6. Triple(Calm({"iterator"}), Use({"iterator"}), Calm({}))
    BY Using DEF Calm
  <2> QED BY <2>1, <2>2, <2>3, <2>4, <2>5, <2>6, Chain6 DEF forg_loop_finish
<1> QED BY <1>1, <1>2, Sequence

(* A call, which leaves with the end of its results or sets the top again. *)
LEMMA SafeCall ==
    Triple(Calm({}), call, Calm({}))
<1>1. Triple(Calm({}), Guard, Calm({}))
  BY Guarding DEF Calm
<1>2. Triple(Calm({}), At({"function"}), Calm({"function"}))
  BY Taking DEF Calm
<1>3. Triple(Calm({"function"}), Guard, Calm({"function"}))
  BY Guarding DEF Calm
<1>4. Triple(Calm({"function"}),
             Top("cut") \cup Top("open"),
             Having({"function"}, {}, {}, 0, 0, 0, {"cut", "open"}, 0))
  <2>1. Triple(Calm({"function"}),
               Top("cut"),
               Having({"function"}, {}, {}, 0, 0, 0, {"cut", "open"}, 0))
    BY SettingTop DEF Calm
  <2>2. Triple(Calm({"function"}),
               Top("open"),
               Having({"function"}, {}, {}, 0, 0, 0, {"cut", "open"}, 0))
    BY SettingTop DEF Calm
  <2> QED BY <2>1, <2>2, Choice
<1>5. Triple(Having({"function"}, {}, {}, 0, 0, 0, {"cut", "open"}, 0),
             callAotFunction,
             Topped({}, "results"))
  <2>1. Triple(Having({"function"}, {}, {}, 0, 0, 0, {"cut", "open"}, 0),
               Call({"function"}),
               Topped({}, "results"))
    BY Calling DEF Topped
  <2>2. Triple(Topped({}, "results"), Guard, Topped({}, "results"))
    BY Guarding DEF Topped
  <2> QED BY <2>1, <2>2, Sequence DEF callAotFunction
<1>6. Triple(Topped({}, "results"), Top("frame") ** Collect \cup Collect ** LeaveOpen, Calm({}))
  <2>1. Triple(Topped({}, "results"), Top("frame") ** Collect, Calm({}))
    <3>1. Triple(Topped({}, "results"), Top("frame"), Calm({}))
      BY SettingTop DEF Calm, Topped
    <3>2. Triple(Calm({}), Collect, Calm({}))
      BY CollectingOnce DEF Calm
    <3> QED BY <3>1, <3>2, Sequence
  <2>2. Triple(Topped({}, "results"), Collect ** LeaveOpen, Calm({}))
    <3>1. Triple(Topped({}, "results"), Collect, Topped({}, "results"))
      BY CollectingOnce DEF Topped
    <3>2. Triple(Topped({}, "results"), LeaveOpen, Calm({}))
      BY LeavingOpen, HavingMemory DEF Calm, Topped
    <3> QED BY <3>1, <3>2, Sequence
  <2> QED BY <2>1, <2>2, Choice
<1> QED BY <1>1, <1>2, <1>3, <1>4, <1>5, <1>6, Chain6 DEF call

(* The sizes are natural numbers.                                          *)
LEMMA HelpersNat ==
    FrameSize \in Nat /\ Fixed \in Nat /\ Extra \in Nat /\ MaxConstants \in Nat
      /\ FrameSize + Fixed \in Nat
<1>1. FrameSize \in Nat /\ Fixed \in Nat /\ Extra \in Nat /\ MaxConstants \in Nat
  BY HelpersAssumption
<1> QED BY <1>1

(* The parameters and the registers fit above the arguments.               *)
LEMMA SafeVarargs ==
    Triple(Calm({}), Top("open") ** prep_varargs ** get_varargs_fixed, Calm({}))
<1>1. Triple(Calm({}), Top("open"), Topped({}, "open"))
  BY SettingTop DEF Calm, Topped
<1>2. Triple(Topped({}, "open"), prep_varargs, Calm({}))
  <2>1. Triple(Topped({}, "open"), Guard, Topped({}, "open"))
    BY Guarding DEF Topped
  <2>2. Triple(Topped({}, "open"),
               Reserve(FrameSize + Fixed),
               Having({}, {}, {}, 0, FrameSize + Fixed, 0, {"open"}, 0))
    BY HelpersNat, Reserving DEF Topped
  <2>3. Triple(Having({}, {}, {}, 0, FrameSize + Fixed, 0, {"open"}, 0),
               At({"fixed", "relocated"}),
               Having({"fixed"}, {}, {}, 0, FrameSize + Fixed, 0, {"open"}, 0))
    BY HelpersNat, Taking
  <2>4. Triple(Having({"fixed"}, {}, {}, 0, FrameSize + Fixed, 0, {"open"}, 0),
               Use({"fixed"}),
               Having({}, {}, {}, 0, FrameSize + Fixed, 0, {"open"}, 0))
    BY HelpersNat, Using
  <2>5. Triple(Having({}, {}, {}, 0, FrameSize + Fixed, 0, {"open"}, 0),
               Above(Fixed),
               Having({}, {}, {}, 0, FrameSize + Fixed, 0, {"open"}, 0))
    BY HelpersNat, WritingAbove
  <2>6. Triple(Having({}, {}, {}, 0, FrameSize + Fixed, 0, {"open"}, 0),
               Above(FrameSize),
               Having({}, {}, {}, 0, FrameSize + Fixed, 0, {"open"}, 0))
    BY HelpersNat, WritingAbove
  <2>7. Triple(Having({}, {}, {}, 0, FrameSize + Fixed, 0, {"open"}, 0), Top("frame"), Calm({}))
    BY HelpersNat, SettingTop DEF Calm
  <2> QED BY <2>1, <2>2, <2>3, <2>4, <2>5, <2>6, <2>7, Chain7 DEF prep_varargs
<1>3. Triple(Calm({}), get_varargs_fixed, Calm({}))
  <2>1. Triple(Calm({}), Guard, Calm({}))
    BY Guarding DEF Calm
  <2>2. Triple(Calm({}), At({"source", "dest"}), Calm({"source", "dest"}))
    BY Taking DEF Calm
  <2>3. Triple(Calm({"source", "dest"}), Use({"source", "dest"}), Calm({}))
    BY Using DEF Calm
  <2> QED BY <2>1, <2>2, <2>3, Chain3 DEF get_varargs_fixed
<1> QED BY <1>1, <1>2, <1>3, Chain3

(* The others fit above the top.                                           *)
LEMMA SafeMultret ==
    Triple(Calm({}), get_varargs_multret, Calm({}))
<1>1. Triple(Calm({}), Guard, Calm({}))
  BY Guarding DEF Calm
<1>2. Triple(Calm({}), Reserve(Extra), Having({}, {}, {}, 0, Extra, 0, {"frame"}, 0))
  BY HelpersNat, Reserving DEF Calm
<1>3. Triple(Having({}, {}, {}, 0, Extra, 0, {"frame"}, 0),
             At({"source", "dest"}),
             Having({"source"}, {}, {}, 0, Extra, 0, {"frame"}, 0))
  BY HelpersNat, Taking
<1>4. Triple(Having({"source"}, {}, {}, 0, Extra, 0, {"frame"}, 0),
             Use({"source"}),
             Having({}, {}, {}, 0, Extra, 0, {"frame"}, 0))
  BY HelpersNat, Using
<1>5. Triple(Having({}, {}, {}, 0, Extra, 0, {"frame"}, 0),
             Above(Extra),
             Having({}, {}, {}, 0, Extra, 0, {"frame"}, 0))
  BY HelpersNat, WritingAbove
<1>6. Triple(Having({}, {}, {}, 0, Extra, 0, {"frame"}, 0), Top("open"), Topped({}, "open"))
  BY HelpersNat, SettingTop DEF Topped
<1>7. Triple(Topped({}, "open"), LeaveOpen, Calm({}))
  BY LeavingOpen, HavingMemory DEF Calm, Topped
<1> QED BY <1>1, <1>2, <1>3, <1>4, <1>5, <1>6, <1>7, Chain7 DEF get_varargs_multret

-------------------------------------------------------------------------------
(* The loading of a program, in room that was reserved below ci->top.      *)
Loaded(V, L, h, r) == Having(V, L, {}, h, r, r, {"frame"}, 0)

(* A lookup may call a function only if the globals allow it.              *)
LEMMA LookingUp ==
    ASSUME NEW V, NEW L, NEW h \in Nat, NEW r \in Nat, NEW S, S \subseteq V
    PROVE  Triple(Loaded(V, L, h, r), Lookup(S), Loaded({}, L, h, r))
<1>1. CASE GlobalsCall
  <2>1. Triple(Loaded(V, L, h, r), Run(S), Loaded({}, L, h, r))
    BY <1>1, Running DEF Loaded
  <2> QED BY <1>1, <2>1 DEF Lookup
<1>2. CASE ~GlobalsCall
  <2>1. Triple(Loaded(V, L, h, r), Use(S), Loaded({}, L, h, r))
    BY Using DEF Loaded
  <2> QED BY <1>2, <2>1 DEF Lookup
<1> QED BY <1>1, <1>2

(* The parts of an import, each looked up in the one before.               *)
LEMMA Resolving ==
    ASSUME NEW L, NEW r \in Nat
    PROVE  Triple(Loaded({"result"}, L, 1, r), resolveAotImport, Loaded({}, L, 1, r))
<1>1. Triple(Loaded({"result"}, L, 1, r), Lookup({"result"}), Loaded({}, L, 1, r))
  BY LookingUp
<1>2. Triple(Loaded({}, L, 1, r),
             Possibly(At({"result"}) ** Use({"result"}) ** Possibly(Lookup({"result"}))
               ** Possibly(At({"result"}) ** Use({"result"}) ** Possibly(Lookup({"result"})))),
             Loaded({}, L, 1, r))
  <2>1. Triple(Loaded({}, L, 1, r),
               At({"result"}) ** Use({"result"}) ** Possibly(Lookup({"result"}))
                 ** Possibly(At({"result"}) ** Use({"result"}) ** Possibly(Lookup({"result"}))),
               Loaded({}, L, 1, r))
    <3>1. Triple(Loaded({}, L, 1, r), At({"result"}), Loaded({"result"}, L, 1, r))
      BY Taking DEF Loaded
    <3>2. Triple(Loaded({"result"}, L, 1, r), Use({"result"}), Loaded({"result"}, L, 1, r))
      BY Using DEF Loaded
    <3>3. Triple(Loaded({"result"}, L, 1, r), Possibly(Lookup({"result"})), Loaded({}, L, 1, r))
      <4>1. Triple(Loaded({"result"}, L, 1, r), Lookup({"result"}), Loaded({}, L, 1, r))
        BY LookingUp
      <4> QED BY <4>1, Optional, Fewer DEF Loaded
    <3>4. Triple(Loaded({}, L, 1, r),
                 Possibly(At({"result"}) ** Use({"result"}) ** Possibly(Lookup({"result"}))),
                 Loaded({}, L, 1, r))
      <4>1. Triple(Loaded({}, L, 1, r),
                   At({"result"}) ** Use({"result"}) ** Possibly(Lookup({"result"})),
                   Loaded({}, L, 1, r))
        <5>1. Triple(Loaded({}, L, 1, r), At({"result"}), Loaded({"result"}, L, 1, r))
          BY Taking DEF Loaded
        <5>2. Triple(Loaded({"result"}, L, 1, r), Use({"result"}), Loaded({"result"}, L, 1, r))
          BY Using DEF Loaded
        <5>3. Triple(Loaded({"result"}, L, 1, r), Possibly(Lookup({"result"})), Loaded({}, L, 1, r))
          <6>1. Triple(Loaded({"result"}, L, 1, r), Lookup({"result"}), Loaded({}, L, 1, r))
            BY LookingUp
          <6> QED BY <6>1, Optional, Fewer DEF Loaded
        <5> QED BY <5>1, <5>2, <5>3, Chain3
      <4> QED BY <4>1, Optional
    <3> QED BY <3>1, <3>2, <3>3, <3>4, Chain4
  <2> QED BY <2>1, Optional
<1> QED BY <1>1, <1>2, Sequence DEF resolveAotImport

(* An import: a proto that gets its value has its barrier.                 *)
LEMMA Importing ==
    ASSUME NEW L, NEW r \in Nat, 0 < r
    PROVE  Triple(Loaded({}, L, 0, r), materializeOneAotImport, Loaded({}, L, 0, r))
<1>1. Triple(Loaded({}, L, 0, r), Reserve(1), Loaded({}, L, 0, r))
  BY Reserving DEF Loaded
<1>2. Triple(Loaded({}, L, 0, r), Push("result"), Loaded({"result"}, L, 1, r))
  BY PushingFirst DEF Loaded
<1>3. Triple(Loaded({"result"}, L, 1, r), Possibly(resolveAotImport ** Guard), Loaded({}, L, 1, r))
  <2>1. Triple(Loaded({"result"}, L, 1, r), resolveAotImport ** Guard, Loaded({}, L, 1, r))
    <3>1. Triple(Loaded({"result"}, L, 1, r), resolveAotImport, Loaded({}, L, 1, r))
      BY Resolving
    <3>2. Triple(Loaded({}, L, 1, r), Guard, Loaded({}, L, 1, r))
      BY Guarding DEF Loaded
    <3> QED BY <3>1, <3>2, Sequence
  <2> QED BY <2>1, Optional, Fewer DEF Loaded
<1>4. Triple(Loaded({}, L, 1, r), At({"result"}), Loaded({"result"}, L, 1, r))
  BY Taking DEF Loaded
<1>5. Triple(Loaded({"result"}, L, 1, r), Use({"result"}), Loaded({}, L, 1, r))
  BY Using DEF Loaded
<1>6. Triple(Loaded({}, L, 1, r), Store("proto"), Having({}, L, {"proto"}, 1, r, r, {"frame"}, 0))
  BY Storing DEF Loaded
<1>7. Triple(Having({}, L, {"proto"}, 1, r, r, {"frame"}, 0), Barrier("proto"), Loaded({}, L, 1, r))
  BY Paying DEF Loaded
<1>8. Triple(Loaded({}, L, 1, r), Pop, Loaded({}, L, 0, r))
  BY Popping DEF Loaded
<1> QED BY <1>1, <1>2, <1>3, <1>4, <1>5, <1>6, <1>7, <1>8, Chain8 DEF materializeOneAotImport

(* A template gets its items with their barriers, and is held.             *)
LEMMA Templating ==
    ASSUME NEW L, NEW r \in Nat
    PROVE  Triple(Loaded({}, L, 0, r), Template, Loaded({}, L, 0, r))
<1>1. Triple(Loaded({}, L, 0, r), New("template"), Loaded({}, L \cup {"template"}, 0, r))
  BY Allocating DEF Loaded
<1>2. Triple(Loaded({}, L \cup {"template"}, 0, r),
             Store("template") ** Barrier("template"),
             Loaded({}, L \cup {"template"}, 0, r))
  <2>1. Triple(Loaded({}, L \cup {"template"}, 0, r), Store("template"),
          Having({}, L \cup {"template"}, {"template"}, 0, r, r, {"frame"}, 0))
    BY Storing DEF Loaded
  <2>2. Triple(Having({}, L \cup {"template"}, {"template"}, 0, r, r, {"frame"}, 0),
          Barrier("template"), Loaded({}, L \cup {"template"}, 0, r))
    BY Paying DEF Loaded
  <2> QED BY <2>1, <2>2, Sequence
<1>3. Triple(Loaded({}, L \cup {"template"}, 0, r),
             AtMost(MaxConstants, Store("template") ** Barrier("template")),
             Loaded({}, L \cup {"template"}, 0, r))
  BY <1>2, HelpersNat, Repeated
<1>4. Triple(Loaded({}, L \cup {"template"}, 0, r), Hold("template"), Loaded({}, L, 0, r))
  BY Holding DEF Loaded
<1> QED BY <1>1, <1>3, <1>4, Chain3 DEF Template

(* The constants of a proto: each string is held before the next is made.  *)
LEMMA Materializing ==
    ASSUME NEW L, NEW r \in Nat, 0 < r
    PROVE  Triple(Loaded({}, L, 0, r), materializeAotConstants, Loaded({}, L, 0, r))
<1>1. Triple(Loaded({}, L, 0, r), New("string") ** Hold("string"), Loaded({}, L, 0, r))
  <2>1. Triple(Loaded({}, L, 0, r), New("string"), Loaded({}, L \cup {"string"}, 0, r))
    BY Allocating DEF Loaded
  <2>2. Triple(Loaded({}, L \cup {"string"}, 0, r), Hold("string"), Loaded({}, L, 0, r))
    BY Holding DEF Loaded
  <2> QED BY <2>1, <2>2, Sequence
<1>2. Triple(Loaded({}, L, 0, r), AtMost(MaxConstants, New("string") ** Hold("string")),
        Loaded({}, L, 0, r))
  BY <1>1, HelpersNat, Repeated
<1>3. Triple(Loaded({}, L, 0, r), AtMost(MaxConstants, Template), Loaded({}, L, 0, r))
  BY Templating, HelpersNat, Repeated
<1>4. Triple(Loaded({}, L, 0, r), materializeAotImportConstants, Loaded({}, L, 0, r))
  BY Importing, HelpersNat, Repeated DEF materializeAotImportConstants
<1> QED BY <1>2, <1>3, <1>4, Chain3 DEF materializeAotConstants

(* A proto holds its source.                                               *)
LEMMA Initializing ==
    ASSUME NEW L, NEW M, NEW r \in Nat, 0 < r, L \ {"source"} \subseteq M
    PROVE  Triple(Loaded({}, L, 0, r), initializeAotProto, Loaded({}, M, 0, r))
<1>1. Triple(Loaded({}, L, 0, r), Hold("source"), Loaded({}, M, 0, r))
  BY Holding DEF Loaded
<1>2. Triple(Loaded({}, M, 0, r), materializeAotConstants, Loaded({}, M, 0, r))
  BY Materializing
<1> QED BY <1>1, <1>2, Sequence DEF initializeAotProto

(* The closures of a proto have their barriers.                            *)
LEMMA Closing ==
    ASSUME NEW L, NEW r \in Nat
    PROVE  Triple(Loaded({}, L, 0, r), materializeAotClosureConstants, Loaded({}, L, 0, r))
<1>1. Triple(Loaded({}, L, 0, r),
             Guard ** New("closure") ** Hold("closure") ** Store("proto") ** Barrier("proto"),
             Loaded({}, L, 0, r))
  <2>1. Triple(Loaded({}, L, 0, r), Guard, Loaded({}, L, 0, r))
    BY Guarding DEF Loaded
  <2>2. Triple(Loaded({}, L, 0, r), New("closure"), Loaded({}, L \cup {"closure"}, 0, r))
    BY Allocating DEF Loaded
  <2>3. Triple(Loaded({}, L \cup {"closure"}, 0, r), Hold("closure"), Loaded({}, L, 0, r))
    BY Holding DEF Loaded
  <2>4. Triple(Loaded({}, L, 0, r), Store("proto"), Having({}, L, {"proto"}, 0, r, r, {"frame"}, 0))
    BY Storing DEF Loaded
  <2>5. Triple(Having({}, L, {"proto"}, 0, r, r, {"frame"}, 0),
               Barrier("proto"),
               Loaded({}, L, 0, r))
    BY Paying DEF Loaded
  <2> QED BY <2>1, <2>2, <2>3, <2>4, <2>5, Chain5
<1> QED BY <1>1, HelpersNat, Repeated DEF materializeAotClosureConstants

(* The closure of a root is on the stack, and holds the root's proto.      *)
LEMMA RootedClosure ==
    ASSUME NEW L, NEW M, NEW root, NEW h \in Nat, NEW r \in Nat, h < r, L \ {root} \subseteq M
    PROVE  Triple(Loaded({}, L, h, r), publishRootClosure(root), Loaded({}, M, h + 1, r))
<1>1. Triple(Loaded({}, L, h, r), New("root"), Loaded({}, L \cup {"root"}, h, r))
  BY Allocating DEF Loaded
<1>2. Triple(Loaded({}, L \cup {"root"}, h, r), Hold(root), Loaded({}, M \cup {"root"}, h, r))
  BY Holding DEF Loaded
<1>3. Triple(Loaded({}, M \cup {"root"}, h, r), Push("root"), Loaded({}, M, h + 1, r))
  BY Pushing DEF Loaded
<1> QED BY <1>1, <1>2, <1>3, Chain3 DEF publishRootClosure

(* One root: the closure is on the stack when the helper leaves.           *)
LEMMA SafePushRoot ==
    Triple(Calm({}), push_root, Calm({}))
<1>1. Triple(Calm({}), Possibly(Leave), Calm({}))
  <2>1. Triple(Calm({}), Leave, Calm({}))
    BY Leaving, HavingMemory DEF Calm
  <2> QED BY <2>1, Optional
<1>2. Triple(Calm({}), ReserveTop(1), Loaded({}, {}, 0, 1))
  BY RaisingTop DEF Calm, Loaded
<1>3. Triple(Loaded({}, {}, 0, 1), Collect, Loaded({}, {}, 0, 1))
  BY CollectingOnce DEF Loaded
<1>4. Triple(Loaded({}, {}, 0, 1), New("source"), Loaded({}, {"source"}, 0, 1))
  BY Allocating DEF Loaded
<1>5. Triple(Loaded({}, {"source"}, 0, 1), New("proto"), Loaded({}, {"source", "proto"}, 0, 1))
  BY Allocating DEF Loaded
<1>6. Triple(Loaded({}, {"source", "proto"}, 0, 1), initializeAotProto, Loaded({}, {"proto"}, 0, 1))
  BY Initializing
<1>7. Triple(Loaded({}, {"proto"}, 0, 1), publishRootClosure("proto"), Loaded({}, {}, 1, 1))
  BY RootedClosure
<1>8. Triple(Loaded({}, {}, 1, 1), LeaveWith(1), Calm({}))
  BY LeavingWith, HavingMemory DEF Calm, Loaded
<1> QED BY <1>1, <1>2, <1>3, <1>4, <1>5, <1>6, <1>7, <1>8, Chain8 DEF push_root

(* A value is pushed.                                                      *)
LEMMA PushingOne ==
    ASSUME NEW o, NEW h \in Nat, NEW r \in Nat, h < r, NEW g \in Nat, g = h + 1
    PROVE  Triple(Loaded({}, {}, h, r), Push(o), Loaded({}, {}, g, r))
<1>1. Triple(Having({}, {}, {}, h, r, r, {"frame"}, 0), Push(o),
        Having({}, {}, {}, g, r, r, {"frame"}, 0))
  <2>1. 0 \in Nat /\ 0 <= h /\ {} \ {o} \subseteq {} /\ {} \subseteq {} \cup {o}
    OBVIOUS
  <2> QED BY <2>1, Pushing
<1> QED BY <1>1 DEF Loaded

(* A table made through the API is on the stack after its collection.      *)
LEMMA ApiTabling ==
    ASSUME NEW o, NEW h \in Nat, NEW r \in Nat, h < r
    PROVE  Triple(Loaded({}, {}, h, r), ApiTable(o), Loaded({}, {}, h + 1, r))
<1>1. Triple(Loaded({}, {}, h, r), Collect, Loaded({}, {}, h, r))
  BY CollectingOnce DEF Loaded
<1>2. Triple(Loaded({}, {}, h, r), Push(o), Loaded({}, {}, h + 1, r))
  BY PushingOne
<1> QED BY <1>1, <1>2, Sequence DEF ApiTable

(* A field is set with its value on the stack.                             *)
LEMMA Fielding ==
    ASSUME NEW o, NEW h \in Nat, NEW r \in Nat, h < r
    PROVE  Triple(Loaded({}, {}, h, r), Field(o), Loaded({}, {}, h, r))
<1>1. Triple(Loaded({}, {}, h, r), Push(o), Loaded({}, {}, h + 1, r))
  BY PushingOne
<1>2. Triple(Loaded({}, {}, h + 1, r), Pop, Loaded({}, {}, h, r))
  BY Popping DEF Loaded
<1> QED BY <1>1, <1>2, Sequence DEF Field

(* A record takes two slots for a time.                                    *)
LEMMA Recording ==
    ASSUME NEW h \in Nat, NEW r \in Nat, h + 1 < r
    PROVE  Triple(Loaded({}, {}, h, r), Record, Loaded({}, {}, h, r))
<1> DEFINE g == h + 1
<1>1. g \in Nat /\ g < r /\ h < r
  OBVIOUS
<1>2. Triple(Loaded({}, {}, h, r), ApiTable("record"), Loaded({}, {}, g, r))
  BY <1>1, ApiTabling
<1>3. Triple(Loaded({}, {}, g, r), Pop, Loaded({}, {}, h, r))
  BY Popping DEF Loaded
<1> HIDE DEF g
<1>4. Triple(Loaded({}, {}, g, r), Field("anchor"), Loaded({}, {}, g, r))
  BY <1>1, Fielding
<1>5. Triple(Loaded({}, {}, g, r), Field("status"), Loaded({}, {}, g, r))
  BY <1>1, Fielding
<1> QED BY <1>2, <1>3, <1>4, <1>5, Chain4 DEF Record

(* A closure of each root is on the stack, one above the other.            *)
LEMMA RootedClosures ==
    ASSUME NEW trees, NEW n \in Nat, DOMAIN trees = 1..n, NEW r \in Nat, n < r
    PROVE  Triple(Loaded({}, {trees[i].root : i \in 1..n}, 0, r),
                  InTurn([i \in DOMAIN trees |-> publishRootClosure(trees[i].root)]),
                  Loaded({}, {}, n, r))
<1> DEFINE parts == [i \in 1..n |-> publishRootClosure(trees[i].root)]
           a == [i \in 0..n |-> Loaded({}, {trees[j].root : j \in i + 1..n}, i, r)]
<1>1. Len(parts) = n
  BY LengthOf
<1>2. ASSUME NEW i \in 1..n PROVE Triple(a[i - 1], parts[i], a[i])
  <2> DEFINE h == i - 1
             Before == {trees[j].root : j \in h + 1..n}
             After == {trees[j].root : j \in i + 1..n}
  <2>1. h \in Nat /\ h < r /\ h + 1 = i /\ h \in 0..n /\ i \in 0..n
    OBVIOUS
  <2>2. Before \ {trees[i].root} \subseteq After
    BY <2>1
  <2>3. a[h] = Loaded({}, Before, h, r) /\ a[i] = Loaded({}, After, i, r)
    BY <2>1
  <2>4. parts[i] = publishRootClosure(trees[i].root)
    OBVIOUS
  <2> HIDE DEF h, Before, After, a, parts
  <2>5. Triple(Loaded({}, Before, h, r), publishRootClosure(trees[i].root),
          Loaded({}, After, h + 1, r))
    BY <2>1, <2>2, RootedClosure
  <2> QED BY <2>1, <2>3, <2>4, <2>5 DEF h
<1>3. a[0] = Loaded({}, {trees[i].root : i \in 1..n}, 0, r) /\ a[0] \subseteq Memory
  BY DEF Loaded, Having
<1>4. a[n] = Loaded({}, {}, n, r)
  <2>1. {trees[j].root : j \in n + 1..n} = {}
    OBVIOUS
  <2> QED BY <2>1
<1> HIDE DEF a
<1>5. Triple(a[0], InTurn(parts), a[n])
  <2> HIDE DEF parts
  <2> QED BY <1>1, <1>2, <1>3, Turns
<1> QED BY <1>3, <1>4, <1>5

(* The closures are popped, all but the entry's.                           *)
LEMMA PoppingAll ==
    ASSUME NEW n \in Nat, NEW r \in Nat
    PROVE  Triple(Loaded({}, {}, n + 1, r), Times(n, Pop), Loaded({}, {}, 1, r))
<1> DEFINE parts == [i \in 1..n |-> Pop]
           a == [i \in 0..n |-> Loaded({}, {}, n + 1 - i, r)]
<1>1. Len(parts) = n
  BY LengthOf
<1>2. ASSUME NEW i \in 1..n PROVE Triple(a[i - 1], parts[i], a[i])
  <2> DEFINE g == n + 1 - i
             h == n + 1 - (i - 1)
  <2>1. g \in Nat /\ h \in Nat /\ h = g + 1
    OBVIOUS
  <2>2. a[i - 1] = Loaded({}, {}, h, r) /\ a[i] = Loaded({}, {}, g, r) /\ parts[i] = Pop
    OBVIOUS
  <2> HIDE DEF g, h, a, parts
  <2>3. Triple(Loaded({}, {}, h, r), Pop, Loaded({}, {}, g, r))
    BY <2>1, Popping DEF Loaded
  <2> QED BY <2>2, <2>3
<1>3. a[0] = Loaded({}, {}, n + 1, r) /\ a[0] \subseteq Memory
  BY DEF Loaded, Having
<1>4. a[n] = Loaded({}, {}, 1, r)
  <2>1. n + 1 - n = 1 /\ n \in 0..n
    OBVIOUS
  <2> QED BY <2>1
<1>5. Times(n, Pop) = InTurn(parts)
  BY DEF Times
<1> HIDE DEF a, parts
<1>6. Triple(a[0], InTurn(parts), a[n])
  BY <1>1, <1>2, <1>3, Turns
<1> QED BY <1>3, <1>4, <1>5, <1>6

(* The registry of a program with modules: every root is on the stack      *)
(* before a table is made, and the room that was reserved is enough.       *)
LEMMA PublishingRegistry ==
    ASSUME NEW trees, NEW n \in Nat, DOMAIN trees = 1..n, Len(trees) = n, NEW r \in Nat, r = n + 8
    PROVE  Triple(Loaded({}, {trees[i].root : i \in 1..n}, 0, r), publishModuleRegistry(trees),
             Loaded({}, {}, 1, r))
<1> DEFINE g == n + 1
           R == {trees[i].root : i \in 1..n}
<1>1. g \in Nat /\ n < r /\ g < r /\ g + 1 < r /\ g + 1 \in Nat /\ g + 2 \in Nat
        /\ g + 2 = (g + 1) + 1 /\ g = n + 1
  OBVIOUS
<1>2. Triple(Loaded({}, R, 0, r),
             InTurn([i \in DOMAIN trees |-> publishRootClosure(trees[i].root)]),
             Loaded({}, {}, n, r))
  BY <1>1, RootedClosures
<1> HIDE DEF g, R
<1>3. Triple(Loaded({}, {}, n, r), ApiTable("registry"), Loaded({}, {}, g, r))
  BY <1>1, ApiTabling
<1>4. \A o : Triple(Loaded({}, {}, g, r), Field(o), Loaded({}, {}, g, r))
  BY <1>1, Fielding
<1>5. Triple(Loaded({}, {}, g, r), Times(Len(trees), Record), Loaded({}, {}, g, r))
  BY <1>1, Recording, Repeating
<1>6. Triple(Loaded({}, {}, g, r), Push("key"), Loaded({}, {}, g + 1, r))
  BY <1>1, PushingOne
<1>7. Triple(Loaded({}, {}, g + 1, r), Push("value"), Loaded({}, {}, g + 2, r))
  BY <1>1, PushingOne
<1>8. Triple(Loaded({}, {}, g + 2, r), Pop, Loaded({}, {}, g + 1, r))
  BY <1>1, Popping DEF Loaded
<1>9. Triple(Loaded({}, {}, g + 1, r), Pop, Loaded({}, {}, g, r))
  BY <1>1, Popping DEF Loaded
<1>10. Triple(Loaded({}, {}, g, r), Times(Len(trees), Pop), Loaded({}, {}, 1, r))
  BY <1>1, PoppingAll
<1> DEFINE P == InTurn([i \in DOMAIN trees |-> publishRootClosure(trees[i].root)])
<1> HIDE DEF P
<1>11. Triple(Loaded({}, R, 0, r),
              P ** ApiTable("registry") ** Field("count") ** Field("entry")
                ** Times(Len(trees), Record),
              Loaded({}, {}, g, r))
  BY <1>2, <1>3, <1>4, <1>5, Chain5 DEF P
<1>12. Triple(Loaded({}, R, 0, r),
              P ** ApiTable("registry") ** Field("count") ** Field("entry")
                ** Times(Len(trees), Record)
                ** Push("key") ** Push("value") ** Pop ** Pop ** Field("anchor")
                  ** Times(Len(trees), Pop),
              Loaded({}, {}, 1, r))
  BY <1>4, <1>6, <1>7, <1>8, <1>9, <1>10, <1>11, Chain7
<1> QED BY <1>12 DEF publishModuleRegistry, P, R

(* A proto is made, and holds its source.                                  *)
LEMMA LoadingProto ==
    ASSUME NEW L, NEW M, NEW proto, NEW r \in Nat, 0 < r, (L \cup {proto}) \ {"source"} \subseteq M
    PROVE  Triple(Loaded({}, L, 0, r), LoadProto(proto), Loaded({}, M, 0, r))
<1>1. Triple(Loaded({}, L, 0, r), New(proto), Loaded({}, L \cup {proto}, 0, r))
  BY Allocating DEF Loaded
<1>2. Triple(Loaded({}, L \cup {proto}, 0, r), initializeAotProto, Loaded({}, M, 0, r))
  BY Initializing
<1> QED BY <1>1, <1>2, Sequence DEF LoadProto

(* What each part of a sequence keeps, all of them keep.                   *)
LEMMA EachKeeps ==
    ASSUME NEW A, A \subseteq Memory, NEW n \in Nat, NEW parts, parts = [i \in 1..n |-> parts[i]],
           \A i \in 1..n : Triple(A, parts[i], A)
    PROVE  Triple(A, InTurn(parts), A)
<1> DEFINE a == [i \in 0..n |-> A]
<1>1. Len(parts) = n
  BY LengthOf
<1>2. \A i \in 1..n : a[i - 1] = A /\ a[i] = A
  OBVIOUS
<1>3. a[0] = A /\ a[n] = A
  OBVIOUS
<1> HIDE DEF a
<1>4. \A i \in 1..n : Triple(a[i - 1], parts[i], a[i])
  BY <1>2
<1>5. Triple(a[0], InTurn(parts), a[n])
  BY <1>1, <1>3, <1>4, Turns
<1> QED BY <1>3, <1>5

(* The protos of a tree, none of them rooted.                              *)
LEMMA LoadingTree ==
    ASSUME NEW M, NEW tree, NEW n \in Nat, DOMAIN tree.children = 1..n, NEW r \in Nat, 0 < r,
           tree.root \in M, \A c \in 1..n : tree.children[c] \in M
    PROVE  Triple(Loaded({}, M, 0, r), LoadTree(tree), Loaded({}, M, 0, r))
<1> DEFINE A == Loaded({}, M, 0, r)
           parts == [c \in 1..n |-> LoadProto(tree.children[c])]
<1>1. A \subseteq Memory
  BY DEF Loaded, Having
<1>2. Triple(A, New("source"), Loaded({}, M \cup {"source"}, 0, r))
  BY Allocating DEF Loaded
<1>3. Triple(Loaded({}, M \cup {"source"}, 0, r), LoadProto(tree.root), A)
  BY LoadingProto
<1>4. \A c \in 1..n : Triple(A, LoadProto(tree.children[c]), A)
  BY LoadingProto
<1>5. Triple(A, InTurn(parts), A)
  <2>1. \A c \in 1..n : Triple(A, parts[c], A)
    BY <1>4
  <2>2. parts = [c \in 1..n |-> parts[c]]
    OBVIOUS
  <2> HIDE DEF parts, A
  <2> QED BY <1>1, <2>1, <2>2, EachKeeps
<1>6. LoadTree(tree) = New("source") ** LoadProto(tree.root) ** InTurn(parts)
  BY DEF LoadTree
<1> HIDE DEF parts
<1> QED BY <1>2, <1>3, <1>5, <1>6, Chain3

(* The children of a tree are held one after the other.                    *)
LEMMA HoldingChildren ==
    ASSUME NEW L, NEW M, NEW tree, NEW n \in Nat, DOMAIN tree.children = 1..n, NEW r \in Nat,
           L \ {tree.children[c] : c \in 1..n} \subseteq M
    PROVE  Triple(Loaded({}, L, 0, r), HoldChildren(tree), Loaded({}, M, 0, r))
<1> DEFINE parts == [c \in 1..n |-> Hold(tree.children[c])]
           Left(i) == L \ {tree.children[c] : c \in 1..i}
           a == [i \in 0..n |-> Loaded({}, Left(i), 0, r)]
<1>1. Len(parts) = n
  BY LengthOf
<1>2. ASSUME NEW i \in 1..n PROVE Triple(a[i - 1], parts[i], a[i])
  <2> DEFINE h == i - 1
  <2>1. h \in 0..n /\ i \in 0..n
    OBVIOUS
  <2>2. Left(h) \ {tree.children[i]} \subseteq Left(i)
    <3>1. \A c \in 1..i : c \in 1..h \/ c = i
      OBVIOUS
    <3> QED BY <3>1
  <2>3. a[h] = Loaded({}, Left(h), 0, r) /\ a[i] = Loaded({}, Left(i), 0, r)
    BY <2>1
  <2>4. parts[i] = Hold(tree.children[i])
    OBVIOUS
  <2> HIDE DEF Left, a, parts
  <2>5. Triple(Loaded({}, Left(h), 0, r), Hold(tree.children[i]), Loaded({}, Left(i), 0, r))
    BY <2>2, Holding DEF Loaded
  <2> QED BY <2>3, <2>4, <2>5
<1>3. a[0] = Loaded({}, Left(0), 0, r) /\ a[n] = Loaded({}, Left(n), 0, r) /\ a[0] \subseteq Memory
  <2>1. Loaded({}, Left(0), 0, r) \subseteq Memory
    BY DEF Loaded, Having
  <2> HIDE DEF Left
  <2> QED BY <2>1
<1>4. Left(0) = L /\ Left(n) \subseteq M
  OBVIOUS
<1>5. HoldChildren(tree) = InTurn(parts)
  BY DEF HoldChildren
<1> HIDE DEF Left, a, parts
<1>6. Triple(a[0], InTurn(parts), a[n])
  BY <1>1, <1>2, <1>3, Turns
<1>7. Loaded({}, Left(n), 0, r) \subseteq Loaded({}, M, 0, r)
        /\ Loaded({}, M, 0, r) \subseteq Memory
  BY <1>4 DEF Loaded, Having
<1>8. Triple(Loaded({}, L, 0, r), InTurn(parts), Loaded({}, Left(n), 0, r))
  BY <1>3, <1>4, <1>6
<1> QED BY <1>5, <1>7, <1>8, Weaken

(* What a load is.                                                         *)
LEMMA LoadType ==
    ASSUME NEW load \in Loads
    PROVE  /\ Len(load.trees) \in Nat /\ Len(load.trees) > 0
             /\ DOMAIN load.trees = 1..Len(load.trees)
           /\ ~load.modules => Len(load.trees) = 1
           /\ \A i \in 1..Len(load.trees) :
                /\ Len(load.trees[i].children) \in Nat
                /\ DOMAIN load.trees[i].children = 1..Len(load.trees[i].children)
BY LoadsAssumption

(* The roots of a load, and the protos below those of the trees from i on. *)
Roots(load) == {load.trees[i].root : i \in 1..Len(load.trees)}
Below(load, i) ==
    UNION {{load.trees[j].children[c] : c \in 1..Len(load.trees[j].children)} : j \in i + 1..Len(load.trees)}

(* The protos of every tree, the ones before not rooted yet.               *)
LEMMA LoadingTrees ==
    ASSUME NEW load \in Loads, NEW r \in Nat, 0 < r
    PROVE  Triple(Loaded({}, Roots(load) \cup Below(load, 0), 0, r),
                  InTurn([i \in DOMAIN load.trees |-> LoadTree(load.trees[i])]),
                  Loaded({}, Roots(load) \cup Below(load, 0), 0, r))
<1> DEFINE n == Len(load.trees)
           M == Roots(load) \cup Below(load, 0)
           A == Loaded({}, M, 0, r)
           parts == [i \in 1..n |-> LoadTree(load.trees[i])]
<1>1. n \in Nat /\ DOMAIN load.trees = 1..n
  BY LoadType
<1>2. A \subseteq Memory
  BY DEF Loaded, Having
<1>3. ASSUME NEW i \in 1..n PROVE Triple(A, LoadTree(load.trees[i]), A)
  <2> DEFINE tree == load.trees[i]
             m == Len(tree.children)
  <2>1. m \in Nat /\ DOMAIN tree.children = 1..m
    BY LoadType
  <2>2. tree.root \in M
    BY DEF Roots
  <2>3. \A c \in 1..m : tree.children[c] \in M
    <3>1. i \in 0 + 1..n
      BY <1>1
    <3> QED BY <3>1 DEF Below
  <2> HIDE DEF tree, m, M
  <2>4. Triple(Loaded({}, M, 0, r), LoadTree(tree), Loaded({}, M, 0, r))
    BY <2>1, <2>2, <2>3, LoadingTree
  <2> QED BY <2>4 DEF tree
<1>4. Triple(A, InTurn(parts), A)
  <2>1. \A i \in 1..n : Triple(A, parts[i], A)
    BY <1>3
  <2>2. parts = [i \in 1..n |-> parts[i]]
    OBVIOUS
  <2> HIDE DEF parts, A, n
  <2> QED BY <1>1, <1>2, <2>1, <2>2, EachKeeps
<1> QED BY <1>1, <1>4

(* Then the protos below the roots are held, tree by tree.                 *)
LEMMA HoldingAll ==
    ASSUME NEW load \in Loads, NEW r \in Nat
    PROVE  Triple(Loaded({}, Roots(load) \cup Below(load, 0), 0, r),
                  InTurn([i \in DOMAIN load.trees |-> HoldChildren(load.trees[i])]),
                  Loaded({}, Roots(load), 0, r))
<1> DEFINE n == Len(load.trees)
           Loose(i) == Roots(load) \cup Below(load, i)
           parts == [i \in 1..n |-> HoldChildren(load.trees[i])]
           a == [i \in 0..n |-> Loaded({}, Loose(i), 0, r)]
<1>1. n \in Nat /\ DOMAIN load.trees = 1..n
  BY LoadType
<1>2. Len(parts) = n
  <2> HIDE DEF n
  <2> QED BY <1>1, LengthOf
<1>3. ASSUME NEW i \in 1..n PROVE Triple(a[i - 1], parts[i], a[i])
  <2> DEFINE tree == load.trees[i]
             m == Len(tree.children)
             h == i - 1
  <2>1. m \in Nat /\ DOMAIN tree.children = 1..m
    BY LoadType
  <2>2. h \in 0..n /\ i \in 0..n /\ h + 1 = i
    BY <1>1
  <2>3. Loose(h) \ {tree.children[c] : c \in 1..m} \subseteq Loose(i)
    <3>1. \A j \in h + 1..n : j = i \/ j \in i + 1..n
      BY <1>1
    <3>2. ASSUME NEW x \in Below(load, h)
          PROVE x \in {tree.children[c] : c \in 1..m} \/ x \in Below(load, i)
      <4>1. PICK j \in h + 1..n : x \in {load.trees[j].children[c] : c \in 1..Len(load.trees[j].children)}
        BY DEF Below
      <4>2. CASE j = i
        BY <4>1, <4>2
      <4>3. CASE j \in i + 1..n
        BY <4>1, <4>3 DEF Below
      <4> HIDE DEF h
      <4> QED BY <3>1, <4>2, <4>3
    <3> QED BY <3>2
  <2>4. a[h] = Loaded({}, Loose(h), 0, r) /\ a[i] = Loaded({}, Loose(i), 0, r)
    BY <2>2
  <2>5. parts[i] = HoldChildren(tree)
    OBVIOUS
  <2> HIDE DEF tree, m, Loose, a, parts
  <2>6. Triple(Loaded({}, Loose(h), 0, r), HoldChildren(tree), Loaded({}, Loose(i), 0, r))
    BY <2>1, <2>3, HoldingChildren
  <2> QED BY <2>4, <2>5, <2>6
<1>4. a[0] = Loaded({}, Loose(0), 0, r) /\ a[n] = Loaded({}, Loose(n), 0, r)
  <2> HIDE DEF Loose, n
  <2> QED BY <1>1
<1>5. Loose(n) = Roots(load)
  <2>1. \A j \in n + 1..n : FALSE
    BY <1>1
  <2>2. Below(load, n) = {}
    BY <2>1 DEF Below
  <2> QED BY <2>2
<1>6. Loaded({}, Loose(0), 0, r) \subseteq Memory
  BY DEF Loaded, Having
<1> HIDE DEF a, Loose
<1>7. Triple(a[0], InTurn(parts), a[n])
  <2> HIDE DEF parts, n
  <2> QED BY <1>1, <1>2, <1>3, <1>4, <1>6, Turns
<1>8. Triple(Loaded({}, Loose(0), 0, r), InTurn(parts), Loaded({}, Roots(load), 0, r))
  BY <1>4, <1>5, <1>7
<1> QED BY <1>1, <1>8 DEF Loose

(* And the constants that are closures.                                    *)
LEMMA ClosingAll ==
    ASSUME NEW load \in Loads, NEW r \in Nat, NEW L
    PROVE  Triple(Loaded({}, L, 0, r),
                  InTurn([i \in DOMAIN load.trees |-> TreeClosures(load.trees[i])]),
                  Loaded({}, L, 0, r))
<1> DEFINE n == Len(load.trees)
           A == Loaded({}, L, 0, r)
           parts == [i \in 1..n |-> TreeClosures(load.trees[i])]
<1>1. n \in Nat /\ DOMAIN load.trees = 1..n
  BY LoadType
<1>2. A \subseteq Memory
  BY DEF Loaded, Having
<1>3. ASSUME NEW i \in 1..n PROVE Triple(A, TreeClosures(load.trees[i]), A)
  <2>1. 1 + Len(load.trees[i].children) \in Nat
    <3> DEFINE m == Len(load.trees[i].children)
    <3>1. m \in Nat
      BY LoadType
    <3> HIDE DEF m
    <3>2. 1 + m \in Nat
      BY <3>1
    <3> QED BY <3>2 DEF m
  <2>2. Triple(A, materializeAotClosureConstants, A)
    BY Closing
  <2> HIDE DEF A
  <2> QED BY <2>1, <2>2, Repeating DEF TreeClosures
<1>4. Triple(A, InTurn(parts), A)
  <2>1. \A i \in 1..n : Triple(A, parts[i], A)
    BY <1>3
  <2>2. parts = [i \in 1..n |-> parts[i]]
    OBVIOUS
  <2> HIDE DEF parts, A, n
  <2> QED BY <1>1, <1>2, <2>1, <2>2, EachKeeps
<1> QED BY <1>1, <1>4

(* A program is loaded: every proto is made before one is rooted, and      *)
(* nothing is loose when the first table of the registry is made.          *)
LEMMA LoadingProgram ==
    ASSUME NEW load \in Loads, NEW r \in Nat, 0 < r, load.modules => r = Len(load.trees) + 8
    PROVE  Triple(Loaded({}, {}, 0, r), LoadProgram(load), Loaded({}, {}, 1, r))
<1> DEFINE n == Len(load.trees)
           M == Roots(load) \cup Below(load, 0)
           P == InTurn([i \in DOMAIN load.trees |-> LoadTree(load.trees[i])])
           Q == InTurn([i \in DOMAIN load.trees |-> HoldChildren(load.trees[i])])
           R == InTurn([i \in DOMAIN load.trees |-> TreeClosures(load.trees[i])])
           S == IF load.modules THEN publishModuleRegistry(load.trees)
                ELSE publishRootClosure(load.trees[1].root)
<1>1. n \in Nat /\ n > 0 /\ DOMAIN load.trees = 1..n /\ (~load.modules => n = 1)
  BY LoadType
<1>2. Triple(Loaded({}, {}, 0, r), Collect, Loaded({}, M, 0, r))
  <2>1. Triple(Loaded({}, {}, 0, r), Collect, Loaded({}, {}, 0, r))
    BY CollectingOnce DEF Loaded
  <2>2. Loaded({}, {}, 0, r) \subseteq Loaded({}, M, 0, r) /\ Loaded({}, M, 0, r) \subseteq Memory
    BY DEF Loaded, Having
  <2> HIDE DEF M
  <2> QED BY <2>1, <2>2, Weaken
<1>3. Triple(Loaded({}, M, 0, r), P, Loaded({}, M, 0, r))
  BY LoadingTrees
<1>4. Triple(Loaded({}, M, 0, r), Q, Loaded({}, Roots(load), 0, r))
  BY HoldingAll
<1>5. Triple(Loaded({}, Roots(load), 0, r), R, Loaded({}, Roots(load), 0, r))
  BY ClosingAll
<1>6. Triple(Loaded({}, Roots(load), 0, r), S, Loaded({}, {}, 1, r))
  <2>1. CASE load.modules
    <3>1. Triple(Loaded({}, {load.trees[i].root : i \in 1..n}, 0, r),
                 publishModuleRegistry(load.trees),
                 Loaded({}, {}, 1, r))
      <4>1. r = n + 8 /\ Len(load.trees) = n
        BY <2>1
      <4> HIDE DEF n
      <4> QED BY <1>1, <4>1, PublishingRegistry
    <3> QED BY <2>1, <3>1 DEF Roots
  <2>2. CASE ~load.modules
    <3>1. Roots(load) \ {load.trees[1].root} \subseteq {}
      BY <1>1, <2>2 DEF Roots
    <3>2. Triple(Loaded({}, Roots(load), 0, r), publishRootClosure(load.trees[1].root),
            Loaded({}, {}, 0 + 1, r))
      BY <3>1, RootedClosure
    <3> QED BY <2>2, <3>2
  <2> QED BY <2>1, <2>2
<1>7. LoadProgram(load) = Collect ** P ** Q ** R ** S
  BY DEF LoadProgram
<1> HIDE DEF M, P, Q, R, S
<1> QED BY <1>2, <1>3, <1>4, <1>5, <1>6, <1>7, Chain5

(* Room is reserved for it: as much as the registry needs.                 *)
LEMMA Preparing ==
    ASSUME NEW load \in Loads, NEW r \in Nat, r = IF load.modules THEN Len(load.trees) + 8 ELSE 1
    PROVE  Triple(Calm({}), PrepareLoad(load), Loaded({}, {}, 0, r))
<1>1. CASE load.modules
  <2> DEFINE n == Len(load.trees) + 8
  <2>1. n \in Nat /\ r = n /\ 0 < r
    BY <1>1, LoadType
  <2> HIDE DEF n
  <2>2. Triple(Calm({}), ReserveTop(n), Loaded({}, {}, 0, r))
    BY <2>1, RaisingTop DEF Calm, Loaded
  <2>3. Triple(Loaded({}, {}, 0, r), Push("registry"), Loaded({}, {}, 1, r))
    BY <2>1, PushingOne
  <2>4. Triple(Loaded({}, {}, 1, r), Pop, Loaded({}, {}, 0, r))
    BY Popping DEF Loaded
  <2>5. Triple(Loaded({}, {}, 0, r), Possibly(Leave), Loaded({}, {}, 0, r))
    <3>1. Triple(Loaded({}, {}, 0, r), Leave, Loaded({}, {}, 0, r))
      BY Leaving, HavingMemory DEF Loaded
    <3> QED BY <3>1, Optional
  <2>6. PrepareLoad(load) = ReserveTop(n) ** Push("registry") ** Pop ** Possibly(Leave)
    BY <1>1 DEF PrepareLoad, n
  <2> QED BY <2>2, <2>3, <2>4, <2>5, <2>6, Chain4
<1>2. CASE ~load.modules
  <2>1. Triple(Calm({}), ReserveTop(1), Loaded({}, {}, 0, 1))
    BY RaisingTop DEF Calm, Loaded
  <2> QED BY <1>2, <2>1 DEF PrepareLoad
<1> QED BY <1>1, <1>2

(* A program that is loaded leaves the closure of its entry.               *)
LEMMA SafePushProgram ==
    Triple(Calm({}), push_program, Calm({}))
<1> DEFINE Loading(load) == PrepareLoad(load) ** LoadProgram(load)
           F == {Loading(load) : load \in Loads}
           B == Having({}, {}, {}, 1, 0, 0, {"frame"}, 0)
<1>1. Calm({}) \subseteq Memory /\ B \subseteq Memory
  BY DEF Calm, Having
<1>2. Triple(Calm({}), Possibly(Leave), Calm({}))
  <2>1. Triple(Calm({}), Leave, Calm({}))
    BY Leaving, HavingMemory DEF Calm
  <2> QED BY <2>1, Optional
<1>3. ASSUME NEW load \in Loads PROVE Triple(Calm({}), Loading(load), B)
  <2> DEFINE r == IF load.modules THEN Len(load.trees) + 8 ELSE 1
  <2>1. r \in Nat /\ 0 < r /\ (load.modules => r = Len(load.trees) + 8)
    BY LoadType
  <2>2. r = IF load.modules THEN Len(load.trees) + 8 ELSE 1
    OBVIOUS
  <2> HIDE DEF r
  <2>3. Triple(Calm({}), PrepareLoad(load), Loaded({}, {}, 0, r))
    BY <2>1, <2>2, Preparing
  <2>4. Triple(Loaded({}, {}, 0, r), LoadProgram(load), Loaded({}, {}, 1, r))
    BY <2>1, LoadingProgram
  <2>5. Loaded({}, {}, 1, r) \subseteq B
    BY <2>1 DEF Loaded, Having, Memory
  <2> HIDE DEF B
  <2>6. Triple(Calm({}), Loading(load), Loaded({}, {}, 1, r))
    BY <2>3, <2>4, Sequence
  <2> HIDE DEF Loading
  <2> QED BY <1>1, <2>5, <2>6, Weaken
<1>4. Triple(Calm({}), UNION F, B)
  <2>1. \A P \in F : Triple(Calm({}), P, B)
    BY <1>3
  <2> HIDE DEF F, B
  <2> QED BY <1>1, <2>1, AnyOf
<1>5. Triple(B, LeaveWith(1), Calm({}))
  BY LeavingWith, HavingMemory DEF Calm
<1>6. push_program = Possibly(Leave) ** (UNION F) ** LeaveWith(1)
  BY DEF push_program
<1> HIDE DEF F, B
<1> QED BY <1>2, <1>4, <1>5, <1>6, Chain3

(* The third value, whose address is used.                                 *)
LEMMA PushingClosure ==
    Triple(Loaded({}, {}, 2, 3), Push("closure"), Loaded({"closure"}, {}, 3, 3))
<1>1. Triple(Having({}, {}, {}, 2, 3, 3, {"frame"}, 0),
             Push("closure"),
             Having({"closure"}, {}, {}, 3, 3, 3, {"frame"}, 0))
  <2>1. 2 < 3 /\ 3 = 2 + 1 /\ 0 <= 2 /\ 0 \in Nat /\ 2 \in Nat /\ 3 \in Nat
    OBVIOUS
  <2>2. {} \ {"closure"} \subseteq {} /\ {"closure"} \subseteq {} \cup {"closure"}
    OBVIOUS
  <2> QED BY <2>1, <2>2, Pushing
<1> QED BY <1>1 DEF Loaded

(* The coverage of a module takes at most three slots.                     *)
LEMMA Covering ==
    Triple(Loaded({}, {}, 1, 3), Coverage, Loaded({}, {}, 1, 3))
<1>1. Triple(Loaded({}, {}, 1, 3), Push("record"), Loaded({}, {}, 2, 3))
  BY PushingOne
<1>2. Triple(Loaded({}, {}, 2, 3), Possibly(RestoreTop ** Leave), Loaded({}, {}, 2, 3))
  <2>1. Triple(Loaded({}, {}, 2, 3), RestoreTop ** Leave, Loaded({}, {}, 2, 3))
    <3>1. Triple(Loaded({}, {}, 2, 3), RestoreTop, Loaded({}, {}, 0, 3))
      BY Restoring DEF Loaded
    <3>2. Triple(Loaded({}, {}, 0, 3), Leave, Loaded({}, {}, 2, 3))
      BY Leaving, HavingMemory DEF Loaded
    <3> QED BY <3>1, <3>2, Sequence
  <2> QED BY <2>1, Optional
<1>3. Triple(Loaded({}, {}, 2, 3), Push("closure"), Loaded({"closure"}, {}, 3, 3))
  BY PushingClosure
<1>4. Triple(Loaded({"closure"}, {}, 3, 3),
             Possibly(RestoreTop ** Leave),
             Loaded({"closure"}, {}, 3, 3))
  <2>1. Triple(Loaded({"closure"}, {}, 3, 3), RestoreTop ** Leave, Loaded({"closure"}, {}, 3, 3))
    <3>1. Triple(Loaded({"closure"}, {}, 3, 3), RestoreTop, Loaded({}, {}, 0, 3))
      BY Restoring DEF Loaded
    <3>2. Triple(Loaded({}, {}, 0, 3), Leave, Loaded({"closure"}, {}, 3, 3))
      BY Leaving, HavingMemory DEF Loaded
    <3> QED BY <3>1, <3>2, Sequence
  <2> QED BY <2>1, Optional
<1>5. Triple(Loaded({"closure"}, {}, 3, 3), Use({"closure"}), Loaded({}, {}, 3, 3))
  BY Using DEF Loaded
<1>6. Triple(Loaded({}, {}, 3, 3), Pop, Loaded({}, {}, 2, 3))
  BY Popping DEF Loaded
<1>7. Triple(Loaded({}, {}, 2, 3), Pop, Loaded({}, {}, 1, 3))
  BY Popping DEF Loaded
<1> QED BY <1>1, <1>2, <1>3, <1>4, <1>5, <1>6, <1>7, Chain7 DEF Coverage

(* The coverage of a program.                                              *)
LEMMA SafeCoverage ==
    Triple(Calm({}), get_program_coverage, Calm({}))
<1> DEFINE A == Loaded({}, {}, 1, 3)
           F == {Times(Len(load.trees), Coverage) : load \in Loads}
<1>1. Triple(Calm({}),
             Possibly(Leave) ** ReserveTop(3) ** SaveTop ** Push("registry")
               ** Possibly(RestoreTop ** Leave) ** Push("count") ** Possibly(RestoreTop ** Leave),
             Loaded({}, {}, 2, 3))
  <2>1. Triple(Calm({}), Possibly(Leave), Calm({}))
    <3>1. Triple(Calm({}), Leave, Calm({}))
      BY Leaving, HavingMemory DEF Calm
    <3> QED BY <3>1, Optional
  <2>2. Triple(Calm({}), ReserveTop(3), Loaded({}, {}, 0, 3))
    BY RaisingTop DEF Calm, Loaded
  <2>3. Triple(Loaded({}, {}, 0, 3), SaveTop, Loaded({}, {}, 0, 3))
    BY Saving DEF Loaded
  <2>4. Triple(Loaded({}, {}, 0, 3), Push("registry"), Loaded({}, {}, 1, 3))
    BY PushingOne
  <2>5. Triple(Loaded({}, {}, 1, 3), Possibly(RestoreTop ** Leave), Loaded({}, {}, 1, 3))
    <3>1. Triple(Loaded({}, {}, 1, 3), RestoreTop ** Leave, Loaded({}, {}, 1, 3))
      <4>1. Triple(Loaded({}, {}, 1, 3), RestoreTop, Loaded({}, {}, 0, 3))
        BY Restoring DEF Loaded
      <4>2. Triple(Loaded({}, {}, 0, 3), Leave, Loaded({}, {}, 1, 3))
        BY Leaving, HavingMemory DEF Loaded
      <4> QED BY <4>1, <4>2, Sequence
    <3> QED BY <3>1, Optional
  <2>6. Triple(Loaded({}, {}, 1, 3), Push("count"), Loaded({}, {}, 2, 3))
    BY PushingOne
  <2>7. Triple(Loaded({}, {}, 2, 3), Possibly(RestoreTop ** Leave), Loaded({}, {}, 2, 3))
    <3>1. Triple(Loaded({}, {}, 2, 3), RestoreTop ** Leave, Loaded({}, {}, 2, 3))
      <4>1. Triple(Loaded({}, {}, 2, 3), RestoreTop, Loaded({}, {}, 0, 3))
        BY Restoring DEF Loaded
      <4>2. Triple(Loaded({}, {}, 0, 3), Leave, Loaded({}, {}, 2, 3))
        BY Leaving, HavingMemory DEF Loaded
      <4> QED BY <4>1, <4>2, Sequence
    <3> QED BY <3>1, Optional
  <2> QED BY <2>1, <2>2, <2>3, <2>4, <2>5, <2>6, <2>7, Chain7
<1>2. Triple(Loaded({}, {}, 2, 3), Pop, Loaded({}, {}, 1, 3))
  BY Popping DEF Loaded
<1>3. Triple(Loaded({}, {}, 1, 3), Possibly(RestoreTop ** Leave), Loaded({}, {}, 1, 3))
  <2>1. Triple(Loaded({}, {}, 1, 3), RestoreTop ** Leave, Loaded({}, {}, 1, 3))
    <3>1. Triple(Loaded({}, {}, 1, 3), RestoreTop, Loaded({}, {}, 0, 3))
      BY Restoring DEF Loaded
    <3>2. Triple(Loaded({}, {}, 0, 3), Leave, Loaded({}, {}, 1, 3))
      BY Leaving, HavingMemory DEF Loaded
    <3> QED BY <3>1, <3>2, Sequence
  <2> QED BY <2>1, Optional
<1>4. Triple(A, UNION F, A)
  <2>1. A \subseteq Memory
    BY DEF Loaded, Having
  <2>2. \A load \in Loads : Triple(A, Times(Len(load.trees), Coverage), A)
    BY Covering, LoadType, Repeating
  <2> HIDE DEF A
  <2>3. \A P \in F : Triple(A, P, A)
    BY <2>2
  <2> HIDE DEF F
  <2> QED BY <2>1, <2>3, AnyOf
<1>5. Triple(A, RestoreTop, Calm({}))
  <2>1. Triple(A, RestoreTop, Having({}, {}, {}, 0, 0, 3, {"frame"}, 0))
    BY Restoring DEF Loaded
  <2>2. Having({}, {}, {}, 0, 0, 3, {"frame"}, 0) \subseteq Calm({}) /\ Calm({}) \subseteq Memory
    BY DEF Calm, Having, Memory
  <2> HIDE DEF A
  <2> QED BY <2>1, <2>2, Weaken
<1> DEFINE Q == Possibly(Leave) ** ReserveTop(3) ** SaveTop ** Push("registry")
      ** Possibly(RestoreTop ** Leave) ** Push("count") ** Possibly(RestoreTop ** Leave)
<1>6. get_program_coverage = Q ** Pop ** Possibly(RestoreTop ** Leave) ** (UNION F) ** RestoreTop
  BY DEF get_program_coverage
<1> HIDE DEF F, Q
<1> QED BY <1>1, <1>2, <1>3, <1>4, <1>5, <1>6, Chain5 DEF Q

-------------------------------------------------------------------------------
(* The programs, one by one.                                               *)
LEMMA HelperIsSafe ==
    ASSUME NEW h \in DOMAIN Programs
    PROVE  Triple(Calm({}), Programs[h], Calm({}))
<1>1. CASE h = "builtin_type_error"
  BY <1>1, SafeTypeError DEF Programs
<1>2. CASE h = "builtin_number"
  BY <1>2, SafeBuiltinNumber DEF Programs
<1>3. CASE h = "new_table"
  BY <1>3, SafeNewTable DEF Programs
<1>4. CASE h = "new_table_deferred"
  BY <1>4, SafeDeferred DEF Programs
<1>5. CASE h = "dup_table"
  BY <1>5, SafeDupTable DEF Programs
<1>6. CASE h = "load_constant"
  BY <1>6, SafeLoadConstant DEF Programs
<1>7. CASE h = "table_insert_append"
  BY <1>7, SafeInsert DEF Programs
<1>8. CASE h = "table_set_string"
  BY <1>8, SafeTableSetString DEF Programs
<1>9. CASE h = "table_get_string"
  BY <1>9, SafeTableGetString DEF Programs
<1>10. CASE h = "namecall_plain"
  BY <1>10, SafeNamecall DEF Programs
<1>11. CASE h = "table_set"
  BY <1>11, SafeTableSet DEF Programs
<1>12. CASE h = "table_get"
  BY <1>12, SafeTableGet DEF Programs
<1>13. CASE h = "table_set_number"
  BY <1>13, SafeTableSetNumber DEF Programs
<1>14. CASE h = "table_get_number"
  BY <1>14, SafeTableGetNumber DEF Programs
<1>15. CASE h = "table_array_set"
  BY <1>15, SafeTableArraySet DEF Programs
<1>16. CASE h = "table_array_get"
  BY <1>16, SafeTableArrayGet DEF Programs
<1>17. CASE h = "array_set"
  BY <1>17, SafeArraySet DEF Programs
<1>18. CASE h = "array_get"
  BY <1>18, SafeArrayGet DEF Programs
<1>19. CASE h = "set_list"
  BY <1>19, SafeSetList DEF Programs
<1>20. CASE h = "table_store"
  BY <1>20, SafeTableStore DEF Programs
<1>21. CASE h = "new_userdata"
  BY <1>21, SafeUserdata DEF Programs
<1>22. CASE h = "slots"
  BY <1>22, SafeSlot DEF Programs
<1>23. CASE h = "get_global"
  BY <1>23, SafeGetGlobal DEF Programs
<1>24. CASE h = "get_global_constant"
  BY <1>24, SafeGetGlobalConstant DEF Programs
<1>25. CASE h = "set_global"
  BY <1>25, SafeSetGlobal DEF Programs
<1>26. CASE h = "do_arith"
  BY <1>26, SafeArith DEF Programs
<1>27. CASE h = "compare_any"
  BY <1>27, SafeCompare DEF Programs
<1>28. CASE h = "do_len"
  BY <1>28, SafeDoLen DEF Programs
<1>29. CASE h = "table_len"
  BY <1>29, SafeTableLen DEF Programs
<1>30. CASE h = "concat"
  BY <1>30, SafeConcat DEF Programs
<1>31. CASE h = "fastcall"
  BY <1>31, SafeFastcall DEF Programs
<1>32. CASE h = "type_name"
  BY <1>32, SafeTypeName DEF Programs
<1>33. CASE h = "slice_string"
  BY <1>33, SafeSliceString DEF Programs
<1>34. CASE h = "sub_string"
  BY <1>34, SafeSubString DEF Programs
<1>35. CASE h = "find_string"
  BY <1>35, SafeFindString DEF Programs
<1>36. CASE h = "match_string"
  BY <1>36, SafeMatchString DEF Programs
<1>37. CASE h = "forn_prepare"
  BY <1>37, SafeFornPrepare DEF Programs
<1>38. CASE h = "forg_prep"
  BY <1>38, SafeForgPrep DEF Programs
<1>39. CASE h = "forgprep_xnext_fallback"
  BY <1>39, SafeForgFallback DEF Programs
<1>40. CASE h = "forg_loop"
  BY <1>40, SafeForgLoop DEF Programs
<1>41. CASE h = "forg_loop_call"
  BY <1>41, SafeForgCall DEF Programs
<1>42. CASE h = "call"
  BY <1>42, SafeCall DEF Programs
<1>43. CASE h = "prep_varargs"
  BY <1>43, SafeVarargs DEF Programs
<1>44. CASE h = "get_varargs_multret"
  BY <1>44, SafeMultret DEF Programs
<1>45. CASE h = "push_root"
  BY <1>45, SafePushRoot DEF Programs
<1>46. CASE h = "push_program"
  BY <1>46, SafePushProgram DEF Programs
<1>47. CASE h = "get_program_coverage"
  BY <1>47, SafeCoverage DEF Programs
<1> QED
  BY <1>1, <1>2, <1>3, <1>4, <1>5, <1>6, <1>7, <1>8, <1>9, <1>10, <1>11, <1>12, <1>13, <1>14,
       <1>15, <1>16, <1>17, <1>18, <1>19, <1>20, <1>21, <1>22, <1>23, <1>24, <1>25, <1>26,
       <1>27, <1>28, <1>29, <1>30, <1>31, <1>32, <1>33, <1>34, <1>35, <1>36, <1>37, <1>38,
       <1>39, <1>40, <1>41, <1>42, <1>43, <1>44, <1>45, <1>46, <1>47
     DEF Programs

(* With the end of the helper, and its names.                              *)
LEMMA PathIsSafe ==
    ASSUME NEW h \in DOMAIN Programs, NEW p \in Programs[h] ** Leave
    PROVE  /\ NamesIn(p) \subseteq Names
           /\ \A m \in Calm({}) : \E S : SafeTo(S, {}) /\ <<p, m>> \in S
<1>1. NamesIn(p) \subseteq Names
  BY DEF Names
<1>2. Triple(Calm({}), Programs[h] ** Leave, {})
  <2>1. Triple(Calm({}), Programs[h], Calm({}))
    BY HelperIsSafe
  <2>2. Triple(Calm({}), Leave, {})
    BY Leaving DEF Calm
  <2> QED BY <2>1, <2>2, Sequence
<1> QED BY <1>1, <1>2 DEF Triple

-------------------------------------------------------------------------------
(* The inductive invariant: no helper runs and the memory is at ease, or   *)
(* what is left of the path is safe in the memory there is.                *)
Typed ==
    /\ memory \in Memory
    /\ temporaries \in Seq(Names)
    /\ NamesIn(left) \subseteq Names
IInv ==
    /\ Typed
    /\ \/ left = <<>> /\ memory \in Calm({})
       \/ \E S : SafeTo(S, {}) /\ <<left, memory>> \in S

(* A path that is not at its end.                                          *)
LEMMA UnderWay ==
    ASSUME IInv, left # <<>>
    PROVE  /\ Fine(left[1], memory)
           /\ left[1].on \subseteq Names /\ left[1].with \subseteq Names
           /\ NamesIn(Tail(left)) \subseteq Names
           /\ left[1].do # "leave" =>
                \A n \in Memory : Makes(left[1], memory, n)
                  => \E S : SafeTo(S, {}) /\ <<Tail(left), n>> \in S
<1>1. PICK S : SafeTo(S, {}) /\ <<left, memory>> \in S
  BY DEF IInv
<1>2. /\ IsPath(left) /\ Fine(left[1], memory)
      /\ left[1].do # "leave" => \A n \in Memory : Makes(left[1], memory, n)
           => <<Tail(left), n>> \in S
  BY <1>1 DEF SafeTo
<1>3. PICK R : left \in Seq(R)
  BY <1>2 DEF IsPath
<1>4. Len(left) \in Nat /\ Len(left) > 0 /\ DOMAIN left = 1..Len(left)
  BY <1>3, LenProperties, EmptySeq
<1>5. 1 \in DOMAIN left
  BY <1>4
<1>6. left[1].on \subseteq Names /\ left[1].with \subseteq Names
  BY <1>5 DEF IInv, Typed, NamesIn
<1>7. NamesIn(Tail(left)) \subseteq Names
  <2>1. DOMAIN Tail(left) = 1..Len(left) - 1
          /\ \A i \in 1..Len(left) - 1 : Tail(left)[i] = left[i + 1]
    <3>1. Tail(left) \in Seq(R) /\ Len(Tail(left)) = Len(left) - 1
      BY <1>3, HeadTailProperties
    <3>2. DOMAIN Tail(left) = 1..Len(left) - 1
      BY <3>1, LenProperties
    <3>3. \A i \in 1..Len(left) - 1 : Tail(left)[i] = left[i + 1]
      BY <1>3, HeadTailProperties
    <3> QED BY <3>2, <3>3
  <2>2. ASSUME NEW i \in DOMAIN Tail(left) PROVE Tail(left)[i].on
        \cup Tail(left)[i].with \subseteq NamesIn(left)
    <3> DEFINE j == i + 1
    <3>1. j \in DOMAIN left /\ Tail(left)[i] = left[j]
      BY <1>4, <2>1
    <3> HIDE DEF j
    <3> QED BY <3>1 DEF NamesIn
  <2> QED BY <2>2 DEF IInv, Typed, NamesIn
<1> QED BY <1>1, <1>2, <1>6, <1>7

(* A step of the path.                                                     *)
LEMMA Stepping ==
    ASSUME IInv, left # <<>>, left' = Tail(left), left[1].do # "leave",
           Makes(left[1], memory, memory'), memory' \in Memory, temporaries' \in Seq(Names)
    PROVE  IInv'
<1>1. NamesIn(left') \subseteq Names
  BY UnderWay
<1>2. \E S : SafeTo(S, {}) /\ <<left', memory'>> \in S
  BY UnderWay
<1> QED BY <1>1, <1>2 DEF IInv, Typed

(* What an action finds.                                                   *)
LEMMA Found ==
    ASSUME IInv, left # <<>>
    PROVE  /\ valid \subseteq Names /\ loose \subseteq Names /\ owed \subseteq Names
           /\ Len(temporaries) \in Nat /\ room \in Nat /\ kept \in Nat /\ saved \in Nat
           /\ top \in Names \cup {"frame", "results"}
           /\ temporaries \in Seq(Names)
           /\ left[1].on \subseteq Names /\ left[1].with \subseteq Names /\ left[1].size \in Nat
           /\ saved <= Len(temporaries)
           /\ left[1].do = "pop" => Len(temporaries) > 0
<1>1. memory \in Memory /\ temporaries \in Seq(Names)
  BY DEF IInv, Typed
<1>2. Fine(left[1], memory) /\ left[1].on \subseteq Names /\ left[1].with \subseteq Names
  BY UnderWay
<1>3. left[1].size \in Nat /\ saved <= Len(temporaries)
        /\ (left[1].do = "pop" => Len(temporaries) > 0)
  BY <1>2 DEF Fine, memory
<1> QED BY <1>1, <1>2, <1>3 DEF memory, Memory

(* A prefix of the temporaries.                                            *)
LEMMA Cutting ==
    ASSUME IInv, left # <<>>, NEW n \in Nat, n <= Len(temporaries), CutTo(n)
    PROVE  temporaries' \in Seq(Names) /\ Len(temporaries') = n /\ valid' \subseteq valid
<1>1. temporaries \in Seq(Names) /\ Len(temporaries) \in Nat
  BY Found
<1>2. temporaries' = SubSeq(temporaries, 1, n) /\ valid' \subseteq valid
  BY DEF CutTo
<1>3. SubSeq(temporaries, 1, n) \in Seq(Names) /\ Len(SubSeq(temporaries, 1, n)) = n
  <2>1. \A i \in 1..n : temporaries[i] \in Names
    BY <1>1, ElementOfSeq
  <2>2. SubSeq(temporaries, 1, n) \in Seq(Names)
    BY <1>1, <2>1, SubSeqProperties
  <2>3. Len(SubSeq(temporaries, 1, n)) = n
    BY <1>1, SubSeqProperties
  <2> QED BY <2>2, <2>3
<1> QED BY <1>2, <1>3

(* Addresses are taken.                                                    *)
LEMMA TakeStep ==
    ASSUME IInv, Take
    PROVE  IInv'
<1>1. left # <<>> /\ left' = Tail(left) /\ left[1].do \in {"take"}
  BY DEF Take, Doing, Advance
<1>3. temporaries' \in Seq(Names) /\ Len(temporaries') \in Nat
  BY <1>1, Found DEF Take
<1>4. memory' \in Memory
  BY <1>1, <1>3, Found DEF Take, Addresses, Objects, Doing, memory, Memory
<1>5. Makes(left[1], memory, memory')
  BY <1>1, <1>3, Found DEF Take, Addresses, Objects, Doing, memory, Makes, Moving, Shrinking
<1> QED BY <1>1, <1>3, <1>4, <1>5, Stepping

(* A step that changes nothing.                                            *)
LEMMA AccessStep ==
    ASSUME IInv, Access
    PROVE  IInv'
<1>1. left # <<>> /\ left' = Tail(left) /\ left[1].do \in {"guard", "use", "above"}
  BY DEF Access, Doing, Advance
<1>3. temporaries' \in Seq(Names) /\ Len(temporaries') \in Nat
  BY <1>1, Found DEF Access
<1>4. memory' \in Memory
  BY <1>1, <1>3, Found DEF Access, Addresses, Objects, Doing, memory, Memory
<1>5. Makes(left[1], memory, memory')
  BY <1>1, <1>3, Found DEF Access, Addresses, Objects, Doing, memory, Makes, Moving, Shrinking
<1> QED BY <1>1, <1>3, <1>4, <1>5, Stepping

(* Room is reserved.                                                       *)
LEMMA ReserveStep ==
    ASSUME IInv, ReserveStack
    PROVE  IInv'
<1>1. left # <<>> /\ left' = Tail(left) /\ left[1].do \in {"reserve", "raise"}
  BY DEF ReserveStack, Doing, Advance
<1>3. temporaries' \in Seq(Names) /\ Len(temporaries') \in Nat
  BY <1>1, Found DEF ReserveStack
<1>4. memory' \in Memory
  BY <1>1, <1>3, Found DEF ReserveStack, Addresses, Objects, Doing, memory, Memory, MayMove
<1>5. Makes(left[1], memory, memory')
  BY <1>1, <1>3, Found DEF ReserveStack, Addresses, Objects, Doing, memory, Makes, Moving,
       Shrinking, MayMove
<1> QED BY <1>1, <1>3, <1>4, <1>5, Stepping

(* An object is made.                                                      *)
LEMMA AllocateStep ==
    ASSUME IInv, Allocate
    PROVE  IInv'
<1>1. left # <<>> /\ left' = Tail(left) /\ left[1].do \in {"new"}
  BY DEF Allocate, Doing, Advance
<1>3. temporaries' \in Seq(Names) /\ Len(temporaries') \in Nat
  BY <1>1, Found DEF Allocate
<1>4. memory' \in Memory
  BY <1>1, <1>3, Found DEF Allocate, Addresses, Objects, Doing, memory, Memory
<1>5. Makes(left[1], memory, memory')
  BY <1>1, <1>3, Found DEF Allocate, Addresses, Objects, Doing, memory, Makes, Moving, Shrinking
<1> QED BY <1>1, <1>3, <1>4, <1>5, Stepping

(* An object is rooted.                                                    *)
LEMMA RootStep ==
    ASSUME IInv, Root
    PROVE  IInv'
<1>1. left # <<>> /\ left' = Tail(left) /\ left[1].do \in {"publish", "hold"}
  BY DEF Root, Doing, Advance
<1>3. temporaries' \in Seq(Names) /\ Len(temporaries') \in Nat
  BY <1>1, Found DEF Root
<1>4. memory' \in Memory
  BY <1>1, <1>3, Found DEF Root, Addresses, Objects, Doing, memory, Memory
<1>5. Makes(left[1], memory, memory')
  BY <1>1, <1>3, Found DEF Root, Addresses, Objects, Doing, memory, Makes, Moving, Shrinking
<1> QED BY <1>1, <1>3, <1>4, <1>5, Stepping

(* The top is set.                                                         *)
LEMMA SetTopStep ==
    ASSUME IInv, SetTop
    PROVE  IInv'
<1>1. left # <<>> /\ left' = Tail(left) /\ left[1].do \in {"top"}
  BY DEF SetTop, Doing, Advance
<1>3. temporaries' \in Seq(Names) /\ Len(temporaries') \in Nat
  BY <1>1, Found DEF SetTop
<1>4. memory' \in Memory
  BY <1>1, <1>3, Found DEF SetTop, Addresses, Objects, Doing, memory, Memory
<1>5. Makes(left[1], memory, memory')
  BY <1>1, <1>3, Found DEF SetTop, Addresses, Objects, Doing, memory, Makes, Moving, Shrinking
<1> QED BY <1>1, <1>3, <1>4, <1>5, Stepping

(* The top is saved.                                                       *)
LEMMA SaveStep ==
    ASSUME IInv, Save
    PROVE  IInv'
<1>1. left # <<>> /\ left' = Tail(left) /\ left[1].do \in {"save"}
  BY DEF Save, Doing, Advance
<1>3. temporaries' \in Seq(Names) /\ Len(temporaries') \in Nat
  BY <1>1, Found DEF Save
<1>4. memory' \in Memory
  BY <1>1, <1>3, Found DEF Save, Addresses, Objects, Doing, memory, Memory
<1>5. Makes(left[1], memory, memory')
  BY <1>1, <1>3, Found DEF Save, Addresses, Objects, Doing, memory, Makes, Moving, Shrinking
<1> QED BY <1>1, <1>3, <1>4, <1>5, Stepping

(* A table grows.                                                          *)
LEMMA GrowStep ==
    ASSUME IInv, GrowTable
    PROVE  IInv'
<1>1. left # <<>> /\ left' = Tail(left) /\ left[1].do \in {"grow"}
  BY DEF GrowTable, Doing, Advance
<1>3. temporaries' \in Seq(Names) /\ Len(temporaries') \in Nat
  BY <1>1, Found DEF GrowTable
<1>4. memory' \in Memory
  BY <1>1, <1>3, Found DEF GrowTable, Addresses, Objects, Doing, memory, Memory
<1>5. Makes(left[1], memory, memory')
  BY <1>1, <1>3, Found DEF GrowTable, Addresses, Objects, Doing, memory, Makes, Moving, Shrinking
<1> QED BY <1>1, <1>3, <1>4, <1>5, Stepping

(* A value is stored.                                                      *)
LEMMA StoreStep ==
    ASSUME IInv, StoreValue
    PROVE  IInv'
<1>1. left # <<>> /\ left' = Tail(left) /\ left[1].do \in {"store"}
  BY DEF StoreValue, Doing, Advance
<1>3. temporaries' \in Seq(Names) /\ Len(temporaries') \in Nat
  BY <1>1, Found DEF StoreValue
<1>4. memory' \in Memory
  BY <1>1, <1>3, Found DEF StoreValue, Addresses, Objects, Doing, memory, Memory
<1>5. Makes(left[1], memory, memory')
  BY <1>1, <1>3, Found DEF StoreValue, Addresses, Objects, Doing, memory, Makes, Moving, Shrinking
<1> QED BY <1>1, <1>3, <1>4, <1>5, Stepping

(* An object has its barrier.                                              *)
LEMMA PayStep ==
    ASSUME IInv, PayBarrier
    PROVE  IInv'
<1>1. left # <<>> /\ left' = Tail(left) /\ left[1].do \in {"barrier"}
  BY DEF PayBarrier, Doing, Advance
<1>3. temporaries' \in Seq(Names) /\ Len(temporaries') \in Nat
  BY <1>1, Found DEF PayBarrier
<1>4. memory' \in Memory
  BY <1>1, <1>3, Found DEF PayBarrier, Addresses, Objects, Doing, memory, Memory
<1>5. Makes(left[1], memory, memory')
  BY <1>1, <1>3, Found DEF PayBarrier, Addresses, Objects, Doing, memory, Makes, Moving, Shrinking
<1> QED BY <1>1, <1>3, <1>4, <1>5, Stepping

(* Something may collect.                                                  *)
LEMMA CollectionStep ==
    ASSUME IInv, Collection
    PROVE  IInv'
<1>1. left # <<>> /\ left' = Tail(left) /\ left[1].do \in {"collect", "run"}
  BY DEF Collection, Doing, Advance
<1>2. /\ valid' = valid \/ valid' = {}
      /\ room' = room \/ (room' >= Len(temporaries) /\ room' >= kept)
  BY <1>1, Found DEF Collection, MayMove, Shrink
<1>3. temporaries' \in Seq(Names) /\ Len(temporaries') \in Nat
  BY <1>1, <1>2, Found DEF Collection
<1>4. memory' \in Memory
  BY <1>1, <1>2, <1>3, Found DEF Collection, Addresses, Objects, Doing, memory, Memory, MayMove,
       Shrink
<1>5. Makes(left[1], memory, memory')
  BY <1>1, <1>2, <1>3, Found DEF Collection, Addresses, Objects, Doing, memory, Makes, Moving,
       Shrinking
<1> QED BY <1>1, <1>3, <1>4, <1>5, Stepping

(* A function is called.                                                   *)
LEMMA CallStep ==
    ASSUME IInv, CallFunction
    PROVE  IInv'
<1>1. left # <<>> /\ left' = Tail(left) /\ left[1].do \in {"call"}
  BY DEF CallFunction, Doing, Advance
<1>2. /\ valid' = valid \/ valid' = {}
      /\ room' = room \/ (room' >= Len(temporaries) /\ room' >= kept)
  BY <1>1, Found DEF CallFunction, MayMove, Shrink
<1>3. temporaries' \in Seq(Names) /\ Len(temporaries') \in Nat
  BY <1>1, <1>2, Found DEF CallFunction
<1>4. memory' \in Memory
  BY <1>1, <1>2, <1>3, Found DEF CallFunction, Addresses, Objects, Doing, memory, Memory,
       MayMove, Shrink
<1>5. Makes(left[1], memory, memory')
  BY <1>1, <1>2, <1>3, Found DEF CallFunction, Addresses, Objects, Doing, memory, Makes, Moving,
       Shrinking
<1> QED BY <1>1, <1>3, <1>4, <1>5, Stepping

(* A value is pushed.                                                      *)
LEMMA PushStep ==
    ASSUME IInv, PushValue
    PROVE  IInv'
<1>1. left # <<>> /\ left' = Tail(left) /\ left[1].do \in {"push"}
  BY DEF PushValue, Doing, Advance
<1>2. temporaries' \in Seq(Names) /\ Len(temporaries') = Len(temporaries) + 1
  <2>1. PICK o \in left[1].with : temporaries' = Append(temporaries, o)
    BY DEF PushValue, Objects
  <2>2. temporaries \in Seq(Names) /\ o \in Names
    BY <1>1, Found
  <2> QED BY <2>1, <2>2, AppendProperties
<1>3. temporaries' \in Seq(Names) /\ Len(temporaries') \in Nat
  BY <1>1, <1>2, Found DEF PushValue
<1>4. memory' \in Memory
  BY <1>1, <1>2, <1>3, Found DEF PushValue, Addresses, Objects, Doing, memory, Memory
<1>5. Makes(left[1], memory, memory')
  BY <1>1, <1>2, <1>3, Found DEF PushValue, Addresses, Objects, Doing, memory, Makes, Moving,
       Shrinking
<1> QED BY <1>1, <1>3, <1>4, <1>5, Stepping

(* A value is popped.                                                      *)
LEMMA PopStep ==
    ASSUME IInv, PopValue
    PROVE  IInv'
<1>1. left # <<>> /\ left' = Tail(left) /\ left[1].do \in {"pop"}
  BY DEF PopValue, Doing, Advance
<1>2. temporaries' \in Seq(Names) /\ Len(temporaries') = Len(temporaries) - 1
        /\ valid' \subseteq valid
  <2> DEFINE n == Len(temporaries) - 1
  <2>1. n \in Nat /\ n <= Len(temporaries)
    BY <1>1, Found
  <2>2. CutTo(n)
    BY DEF PopValue
  <2> HIDE DEF n
  <2>3. temporaries' \in Seq(Names) /\ Len(temporaries') = n /\ valid' \subseteq valid
    BY <1>1, <2>1, <2>2, Cutting
  <2> QED BY <2>3 DEF n
<1>3. temporaries' \in Seq(Names) /\ Len(temporaries') \in Nat
  BY <1>1, <1>2, Found DEF PopValue
<1>4. memory' \in Memory
  BY <1>1, <1>2, <1>3, Found DEF PopValue, Addresses, Objects, Doing, memory, Memory
<1>5. Makes(left[1], memory, memory')
  BY <1>1, <1>2, <1>3, Found DEF PopValue, Addresses, Objects, Doing, memory, Makes, Moving,
       Shrinking
<1> QED BY <1>1, <1>3, <1>4, <1>5, Stepping

(* The saved top is restored.                                              *)
LEMMA RestoreStep ==
    ASSUME IInv, Restore
    PROVE  IInv'
<1>1. left # <<>> /\ left' = Tail(left) /\ left[1].do \in {"restore"}
  BY DEF Restore, Doing, Advance
<1>2. temporaries' \in Seq(Names) /\ Len(temporaries') = saved /\ valid' \subseteq valid
  <2>1. saved \in Nat /\ saved <= Len(temporaries)
    BY <1>1, Found
  <2>2. CutTo(saved)
    BY DEF Restore
  <2> QED BY <1>1, <2>1, <2>2, Cutting
<1>3. temporaries' \in Seq(Names) /\ Len(temporaries') \in Nat
  BY <1>1, <1>2, Found DEF Restore
<1>4. memory' \in Memory
  BY <1>1, <1>2, <1>3, Found DEF Restore, Addresses, Objects, Doing, memory, Memory
<1>5. Makes(left[1], memory, memory')
  BY <1>1, <1>2, <1>3, Found DEF Restore, Addresses, Objects, Doing, memory, Makes, Moving,
       Shrinking
<1> QED BY <1>1, <1>3, <1>4, <1>5, Stepping

(* Between helpers.                                                        *)
LEMMA IdleInvariant ==
    ASSUME helper = "none", left = <<>>, valid = {}, loose = {}, owed = {},
           temporaries = <<>>, room = 0, kept = 0, top = "frame", saved = 0
    PROVE  IInv
<1>1. temporaries \in Seq(Names) /\ Len(temporaries) = 0
  OBVIOUS
<1>2. memory \in Memory
  BY <1>1 DEF memory, Memory
<1>3. memory \in Calm({})
  BY <1>1, <1>2 DEF memory, Calm, Having
<1>4. NamesIn(left) = {}
  BY DEF NamesIn
<1> QED BY <1>1, <1>2, <1>3, <1>4 DEF IInv, Typed

(* The initial state satisfies the invariant.                              *)
LEMMA InitInvariant == Init => IInv
BY IdleInvariant DEF Init

(* A helper that is called starts on one of its paths.                     *)
LEMMA EnterStep ==
    ASSUME IInv, Enter
    PROVE  IInv'
<1>1. PICK h \in DOMAIN Programs : \E p \in Programs[h] ** Leave : left' = p
  BY DEF Enter
<1>2. left' \in Programs[h] ** Leave
  BY <1>1
<1>3. memory \in Calm({})
  <2>1. ASSUME NEW S, SafeTo(S, {}), <<left, memory>> \in S PROVE FALSE
    BY <2>1 DEF SafeTo, Enter
  <2> QED BY <2>1 DEF IInv
<1>4. memory' = memory /\ temporaries' = temporaries
  BY DEF Enter, memory
<1>5. NamesIn(left') \subseteq Names /\ \E S : SafeTo(S, {}) /\ <<left', memory>> \in S
  BY <1>2, <1>3, PathIsSafe
<1> QED BY <1>4, <1>5 DEF IInv, Typed

(* A helper that ends, or raises an error, leaves the memory at ease.      *)
LEMMA IdleStep ==
    ASSUME Idle
    PROVE  IInv'
<1>1. /\ helper' = "none" /\ left' = <<>> /\ valid' = {} /\ loose' = {} /\ owed' = {}
      /\ temporaries' = <<>> /\ room' = 0 /\ kept' = 0 /\ top' = "frame" /\ saved' = 0
  BY DEF Idle
<1>2. temporaries' \in Seq(Names) /\ Len(temporaries') = 0
  BY <1>1
<1>3. memory' \in Memory
  BY <1>1, <1>2 DEF memory, Memory
<1>4. memory' \in Calm({})
  BY <1>1, <1>2, <1>3 DEF memory, Calm, Having
<1>5. NamesIn(left') = {}
  BY <1>1 DEF NamesIn
<1> QED BY <1>1, <1>2, <1>3, <1>4, <1>5 DEF IInv, Typed

(* Every step preserves the invariant.                                     *)
LEMMA NextInvariant ==
    ASSUME IInv, [Next]_vars
    PROVE  IInv'
<1>1. CASE Enter
  BY <1>1, EnterStep
<1>2. CASE Finish
  BY <1>2, IdleStep DEF Finish
<1>3. CASE Raise
  BY <1>3, IdleStep DEF Raise
<1>4. CASE Take
  BY <1>4, TakeStep
<1>5. CASE Access
  BY <1>5, AccessStep
<1>6. CASE ReserveStack
  BY <1>6, ReserveStep
<1>7. CASE Allocate
  BY <1>7, AllocateStep
<1>8. CASE Root
  BY <1>8, RootStep
<1>9. CASE PushValue
  BY <1>9, PushStep
<1>10. CASE PopValue
  BY <1>10, PopStep
<1>11. CASE SetTop
  BY <1>11, SetTopStep
<1>12. CASE Save
  BY <1>12, SaveStep
<1>13. CASE Restore
  BY <1>13, RestoreStep
<1>14. CASE GrowTable
  BY <1>14, GrowStep
<1>15. CASE StoreValue
  BY <1>15, StoreStep
<1>16. CASE PayBarrier
  BY <1>16, PayStep
<1>17. CASE Collection
  BY <1>17, CollectionStep
<1>18. CASE CallFunction
  BY <1>18, CallStep
<1>19. CASE UNCHANGED vars
  BY <1>19 DEF vars, IInv, Typed, memory, NamesIn
<1> QED
  BY <1>1, <1>2, <1>3, <1>4, <1>5, <1>6, <1>7, <1>8, <1>9, <1>10, <1>11, <1>12, <1>13, <1>14,
       <1>15, <1>16, <1>17, <1>18, <1>19
     DEF Next

(* The invariant holds throughout.                                         *)
THEOREM HelpersInvariant == Spec => []IInv
<1>1. Init => IInv
  BY InitInvariant
<1>2. IInv /\ [Next]_vars => IInv'
  BY NextInvariant
<1> QED BY <1>1, <1>2, PTL DEF Spec

(* What it says of the step that comes next.                               *)
LEMMA NextStepIsFine ==
    ASSUME IInv, left # <<>>
    PROVE  /\ left[1].do \in {"use", "publish", "run", "call"} => left[1].on \subseteq valid
           /\ left[1].do \in Collecting => owed = {} /\ (GlobalsCall \/ loose = {})
           /\ left[1].do = "pop" => Len(temporaries) > 0
           /\ left[1].do = "push" => Len(temporaries) < room
           /\ left[1].do = "above" => Len(temporaries) + left[1].size <= room
           /\ left[1].do = "leave" => top \in left[1].with /\ Len(temporaries) = left[1].size
<1>1. Fine(left[1], memory)
  BY UnderWay
<1> QED BY <1>1 DEF Fine, memory

(* No helper uses an address it took before the stack could move, whatever *)
(* the frame, the arguments and the programs are.                          *)
THEOREM HelpersAddresses == Spec => []AddressesAreFresh
<1>1. IInv => AddressesAreFresh
  BY NextStepIsFine DEF AddressesAreFresh, Addresses
<1> QED BY <1>1, HelpersInvariant, PTL

(* Every value stored in an object has had its barrier by the next         *)
(* collection.                                                             *)
THEOREM HelpersBarriers == Spec => []BarriersArePaid
<1>1. IInv => BarriersArePaid
  BY NextStepIsFine DEF BarriersArePaid
<1> QED BY <1>1, HelpersInvariant, PTL

(* If the lookup of an import calls no function, nothing a helper has made *)
(* is loose when a collection can run.                                     *)
THEOREM HelpersRootAll == ~GlobalsCall => (Spec => []NothingLooseIsCollected)
<1> SUFFICES ASSUME ~GlobalsCall PROVE Spec => []NothingLooseIsCollected
  OBVIOUS
<1>1. IInv => NothingLooseIsCollected
  BY NextStepIsFine DEF NothingLooseIsCollected
<1> QED BY <1>1, HelpersInvariant, PTL

(* What a helper puts above the top has room, and it pops and restores     *)
(* only what it has pushed.                                                *)
THEOREM HelpersHaveRoom == Spec => []TemporariesHaveRoom
<1>1. IInv => TemporariesHaveRoom
  <2> SUFFICES ASSUME IInv PROVE TemporariesHaveRoom
    OBVIOUS
  <2>1. Doing("pop") => temporaries # <<>>
    <3>1. Len(<<>>) = 0
      OBVIOUS
    <3>2. Doing("pop") => Len(temporaries) > 0
      BY NextStepIsFine DEF Doing
    <3> QED BY <3>1, <3>2
  <2>2. saved <= Len(temporaries)
    <3>1. CASE left = <<>>
      <4>1. memory \in Calm({})
        <5>1. ASSUME NEW S, SafeTo(S, {}), <<left, memory>> \in S PROVE FALSE
          BY <3>1, <5>1 DEF SafeTo
        <5> QED BY <5>1 DEF IInv
      <4> QED BY <4>1 DEF Calm, Having, memory
    <3>2. CASE left # <<>>
      BY <3>2, Found
    <3> QED BY <3>1, <3>2
  <2>3. Doing("push") => Len(temporaries) < room
    BY NextStepIsFine DEF Doing
  <2>4. Doing("above") => Len(temporaries) + left[1].size <= room
    BY NextStepIsFine DEF Doing
  <2> QED BY <2>1, <2>2, <2>3, <2>4 DEF TemporariesHaveRoom
<1> QED BY <1>1, HelpersInvariant, PTL

(* A helper ends with the top its caller expects, and with nothing else on *)
(* the stack than what it was asked to push.                               *)
THEOREM HelpersTop == Spec => []TopIsExact
<1>1. IInv => TopIsExact
  BY NextStepIsFine DEF TopIsExact, Doing, Objects
<1> QED BY <1>1, HelpersInvariant, PTL

=================================================================================
