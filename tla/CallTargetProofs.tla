-------------------------- MODULE CallTargetProofs --------------------------
(***************************************************************************)
(* Proofs about CallTarget, for any methods that the runtime accepts, any  *)
(* sizes of what is added and any choices of a run.                        *)
(*                                                                         *)
(* The argument has four parts.                                            *)
(*   The list: what the rewriter makes of a method is the method's own     *)
(*   instructions, in their order, between two parts that are the same for *)
(*   every method, and Export leaves displacements that lead to their      *)
(*   targets.  What an index or an offset needs of induction comes from    *)
(*   the cardinality of finite sets.                                       *)
(*   The run by places: a step of the runtime in the method is a function  *)
(*   of a moment (place, stack, handlers, choices used).  That a run leads *)
(*   from one moment to another is said without induction: every set of    *)
(*   moments that holds the first and all that follows holds the other.    *)
(*   Two lists, one run: an instruction of the method does at its place in *)
(*   the rewritten list what it does in the method, until the method ends. *)
(*   The zones: from every end of the method the added clauses lead to     *)
(*   EndMethod, once, and from there out with the same end.                *)
(***************************************************************************)
EXTENDS CallTarget, FiniteSetTheorems, SequenceTheorems, TLAPS

\* Induction, for a set of numbers: what a finite set and its image under +1 have in common.
LEMMA SetInduction ==
    ASSUME NEW S, 0 \in S, \A n \in Nat : n \in S => n + 1 \in S
    PROVE  \A n \in Nat : n \in S
<1> SUFFICES ASSUME NEW n \in Nat, n \notin S PROVE FALSE
  OBVIOUS
<1> DEFINE U == {i \in 0 .. n : i \in S}
           f == [i \in U |-> i + 1]
<1>1. IsFiniteSet(U)
  <2>1. IsFiniteSet(0 .. n)
    BY FS_Interval
  <2>2. U \subseteq 0 .. n
    OBVIOUS
  <2> QED
    BY <2>1, <2>2, FS_Subset
<1>2. 0 \in U
  OBVIOUS
<1>3. \A i \in U : i + 1 \in U \ {0}
  OBVIOUS
<1>4. f \in Injection(U, U \ {0})
  BY <1>3 DEF Injection, IsInjective
<1>5. Cardinality(U \ {0}) = Cardinality(U) - 1 /\ IsFiniteSet(U \ {0})
  BY <1>1, <1>2, FS_RemoveElement
<1>6. Cardinality(U) <= Cardinality(U \ {0})
  BY <1>4, <1>5, FS_Injection
<1> QED
  BY <1>1, <1>5, <1>6, FS_CardinalityType

\* A finite set of numbers that is not empty has a least element, which Min yields.
LEMMA MinIsLeast ==
    ASSUME NEW S \in SUBSET Nat, S # {}
    PROVE  Min(S) \in S /\ \A x \in S : Min(S) <= x
<1> DEFINE L == {n \in Nat : \A x \in S : n <= x}
<1>1. 0 \in L
  OBVIOUS
<1>2. \E n \in L : n + 1 \notin L
  <2> SUFFICES ASSUME \A n \in L : n + 1 \in L PROVE FALSE
    OBVIOUS
  <2>1. \A n \in Nat : n \in L
    <3>1. \A n \in Nat : n \in L => n + 1 \in L
      OBVIOUS
    <3> HIDE DEF L
    <3> QED
      BY <1>1, <3>1, SetInduction
  <2>2. PICK x \in S : TRUE
    OBVIOUS
  <2>3. x + 1 \in L
    BY <2>1
  <2> QED
    BY <2>3
<1>3. PICK n \in L : n + 1 \notin L
  BY <1>2
<1>4. n \in S
  <2>1. PICK x \in S : ~(n + 1 <= x)
    BY <1>3
  <2> QED
    BY <2>1
<1>5. \E x \in S : \A y \in S : x <= y
  BY <1>4
<1> QED
  BY <1>5 DEF Min

\* The first loop of a pass of Export: every place has an offset, which is the sum of the
\* sizes in front of it.
LEMMA OffsetsExist ==
    ASSUME NEW a \in Seq(Nat)
    PROVE  \E g \in [1 .. (Len(a) + 1) -> Nat] :
              g = [i \in 1 .. (Len(a) + 1) |-> IF i = 1 THEN 0 ELSE g[i - 1] + a[i - 1]]
<1> DEFINE P(n, g) ==
             /\ g \in [1 .. (n + 1) -> Nat]
             /\ \A i \in 1 .. (n + 1) : g[i] = IF i = 1 THEN 0 ELSE g[i - 1] + a[i - 1]
           S == {n \in Nat : n <= Len(a) => \E g : P(n, g)}
<1>1. 0 \in S
  <2>1. P(0, [i \in 1 .. 1 |-> 0])
    OBVIOUS
  <2> HIDE DEF P
  <2> QED
    BY <2>1
<1>2. ASSUME NEW n \in Nat, n \in S, n + 1 <= Len(a) PROVE \E g : P(n + 1, g)
  <2>1. PICK g : P(n, g)
    <3> HIDE DEF P
    <3> QED
      BY <1>2
  <2> DEFINE h == [i \in 1 .. (n + 2) |-> IF i = n + 2 THEN g[n + 1] + a[n + 1] ELSE g[i]]
  <2>2. a[n + 1] \in Nat
    BY <1>2
  <2>3. h \in [1 .. (n + 2) -> Nat]
    BY <2>1, <2>2
  <2>4. \A i \in 1 .. (n + 2) : h[i] = IF i = 1 THEN 0 ELSE h[i - 1] + a[i - 1]
    <3> SUFFICES ASSUME NEW i \in 1 .. (n + 2)
                 PROVE  h[i] = IF i = 1 THEN 0 ELSE h[i - 1] + a[i - 1]
      OBVIOUS
    <3>1. \A j \in 1 .. (n + 1) : g[j] = IF j = 1 THEN 0 ELSE g[j - 1] + a[j - 1]
      BY <2>1
    <3>2. CASE i = n + 2
      BY <3>2
    <3>3. CASE i \in 1 .. (n + 1)
      BY <3>1, <3>3
    <3> QED
      BY <3>2, <3>3
  <2>5. P(n + 1, h)
    BY <2>3, <2>4
  <2> HIDE DEF P, h
  <2> QED
    BY <2>5
<1>3. \A n \in Nat : n \in S => n + 1 \in S
  <2> HIDE DEF P
  <2> QED
    BY <1>2
<1>4. \A n \in Nat : n \in S
  <2> HIDE DEF S
  <2> QED
    BY <1>1, <1>3, SetInduction
<1>5. Len(a) \in Nat
  OBVIOUS
<1>6. \E g : P(Len(a), g)
  <2> HIDE DEF P
  <2> QED
    BY <1>4, <1>5
<1>7. PICK g : P(Len(a), g)
  BY <1>6
<1> QED
  BY <1>7

-----------------------------------------------------------------------------
(* Lists of instructions *)

\* Identities of the method's own instructions
OwnId(a) == a \in Nat /\ 0 < a /\ a < Added

\* An instruction, of the method or added
AllOps == Ops \cup {"init", "begin", "log", "stexc", "end", "stret", "ldret"}
Instrs ==
    [id : Nat, op : AllOps, target : Nat \cup {None}, short : BOOLEAN, size : Nat,
     value : Values \cup {None}]

\* Size is positive when that of an instruction that is not a branch is.
Sized(list) == \A i \in DOMAIN list : ~IsBranch(list[i]) => list[i].size > 0

\* No two instructions have the same identity.
DistinctIds(list) == \A i, j \in DOMAIN list : list[i].id = list[j].id => i = j

\* Export computes m_offset as the sum of the sizes in front.
LEMMA OffsetsAre ==
    ASSUME NEW list \in Seq(Instrs)
    PROVE  /\ Offsets(list) \in [1 .. (Len(list) + 1) -> Nat]
           /\ Offsets(list)[1] = 0
           /\ \A i \in DOMAIN list : Offsets(list)[i + 1] = Offsets(list)[i] + Size(list[i])
<1> DEFINE a == [i \in 1 .. Len(list) |-> Size(list[i])]
           P(g) == g = [i \in 1 .. (Len(list) + 1) |->
                          IF i = 1 THEN 0 ELSE g[i - 1] + Size(list[i - 1])]
<1>1. \A i \in DOMAIN list : Size(list[i]) \in Nat
  <2> SUFFICES ASSUME NEW i \in DOMAIN list PROVE Size(list[i]) \in Nat
    OBVIOUS
  <2>1. list[i] \in Instrs
    OBVIOUS
  <2>2. list[i].size \in Nat
    BY <2>1 DEF Instrs
  <2> QED
    BY <2>2 DEF Size
<1>2. a \in Seq(Nat) /\ Len(a) = Len(list)
  BY <1>1
<1>3. PICK g \in [1 .. (Len(a) + 1) -> Nat] :
         g = [i \in 1 .. (Len(a) + 1) |-> IF i = 1 THEN 0 ELSE g[i - 1] + a[i - 1]]
  <2> HIDE DEF a
  <2> QED
    BY <1>2, OffsetsExist
<1>4. P(g)
  <2>1. \A i \in 1 .. (Len(list) + 1) : i # 1 => i - 1 \in 1 .. Len(list)
    OBVIOUS
  <2>2. \A i \in 1 .. (Len(list) + 1) :
           g[i] = IF i = 1 THEN 0 ELSE g[i - 1] + Size(list[i - 1])
    BY <2>1, <1>2, <1>3
  <2> QED
    BY <2>2, <1>2
<1>5. Offsets(list) = CHOOSE f : P(f)
  BY DEF Offsets
<1>6. P(Offsets(list))
  <2> HIDE DEF P
  <2> QED
    BY <1>4, <1>5
<1>7. ASSUME NEW f, P(f)
      PROVE  /\ f \in [1 .. (Len(list) + 1) -> Nat]
             /\ f[1] = 0
             /\ \A i \in DOMAIN list : f[i + 1] = f[i] + Size(list[i])
  <2> DEFINE S == {n \in Nat : n + 1 \in 1 .. (Len(list) + 1) => f[n + 1] \in Nat}
  <2>1. \A i \in 1 .. (Len(list) + 1) : f[i] = IF i = 1 THEN 0 ELSE f[i - 1] + Size(list[i - 1])
    BY <1>7
  <2>2. 0 \in S
    BY <2>1
  <2>3. ASSUME NEW n \in Nat, n \in S PROVE n + 1 \in S
    <3>1. ASSUME n + 1 + 1 \in 1 .. (Len(list) + 1) PROVE f[n + 1 + 1] \in Nat
      <4>1. f[n + 1] \in Nat /\ n + 1 \in DOMAIN list
        BY <2>3, <3>1
      <4>2. n + 1 + 1 # 1 /\ n + 1 + 1 - 1 = n + 1
        OBVIOUS
      <4>3. f[n + 1 + 1] = f[n + 1] + Size(list[n + 1])
        BY <2>1, <4>2, <3>1
      <4> QED
        BY <4>1, <4>3, <1>1
    <3> QED
      BY <3>1
  <2>4. \A n \in Nat : n \in S
    <3> HIDE DEF S
    <3> QED
      BY <2>2, <2>3, SetInduction
  <2>5. \A i \in 1 .. (Len(list) + 1) : f[i] \in Nat
    <3> SUFFICES ASSUME NEW i \in 1 .. (Len(list) + 1) PROVE f[i] \in Nat
      OBVIOUS
    <3>1. i - 1 \in Nat /\ i - 1 + 1 = i
      OBVIOUS
    <3>2. i - 1 \in S
      BY <2>4, <3>1
    <3> QED
      BY <3>1, <3>2
  <2>6. f \in [1 .. (Len(list) + 1) -> Nat]
    BY <2>5, <1>7
  <2>7. \A i \in DOMAIN list : i + 1 \in 1 .. (Len(list) + 1) /\ i + 1 # 1 /\ i + 1 - 1 = i
    OBVIOUS
  <2>8. \A i \in DOMAIN list : f[i + 1] = f[i] + Size(list[i])
    BY <2>1, <2>7
  <2> QED
    BY <2>1, <2>6, <2>8
<1> QED
  BY <1>6, <1>7

\* A later place has a larger offset.
LEMMA OffsetsGrow ==
    ASSUME NEW list \in Seq(Instrs), Sized(list)
    PROVE  \A i, j \in 1 .. (Len(list) + 1) : i < j => Offsets(list)[i] < Offsets(list)[j]
<1> DEFINE f == Offsets(list)
<1>1. /\ f \in [1 .. (Len(list) + 1) -> Nat]
      /\ \A i \in DOMAIN list : f[i + 1] = f[i] + Size(list[i])
  BY OffsetsAre
<1>2. \A i \in DOMAIN list : Size(list[i]) \in Nat /\ Size(list[i]) > 0
  <2> SUFFICES ASSUME NEW i \in DOMAIN list PROVE Size(list[i]) \in Nat /\ Size(list[i]) > 0
    OBVIOUS
  <2>1. list[i] \in Instrs
    OBVIOUS
  <2>2. list[i].size \in Nat
    BY <2>1 DEF Instrs
  <2> QED
    BY <2>2 DEF Size, Sized
<1> HIDE DEF f
<1>3. \A i \in DOMAIN list : f[i] < f[i + 1]
  <2> SUFFICES ASSUME NEW i \in DOMAIN list PROVE f[i] < f[i + 1]
    OBVIOUS
  <2>1. f[i] \in Nat /\ f[i + 1] = f[i] + Size(list[i])
    BY <1>1
  <2> QED
    BY <2>1, <1>2
<1> DEFINE S == {n \in Nat : n \in 1 .. (Len(list) + 1) =>
                    \A i \in 1 .. (Len(list) + 1) : i < n => f[i] < f[n]}
<1>4. 0 \in S
  OBVIOUS
<1>5. \A n \in Nat : n \in S => n + 1 \in S
  <2> SUFFICES ASSUME NEW n \in Nat, n \in S, n + 1 \in 1 .. (Len(list) + 1),
                      NEW i \in 1 .. (Len(list) + 1), i < n + 1
               PROVE  f[i] < f[n + 1]
    OBVIOUS
  <2>1. n \in DOMAIN list /\ n \in 1 .. (Len(list) + 1)
    OBVIOUS
  <2>2. f[n] < f[n + 1]
    BY <2>1, <1>3
  <2>3. f[i] \in Nat /\ f[n] \in Nat /\ f[n + 1] \in Nat
    BY <1>1, <2>1
  <2>4. CASE i = n
    BY <2>2, <2>4
  <2>5. CASE i < n
    <3>1. f[i] < f[n]
      BY <2>5, <2>1
    <3> QED
      BY <3>1, <2>2, <2>3
  <2> QED
    BY <2>4, <2>5
<1>6. \A n \in Nat : n \in S
  <2> HIDE DEF S
  <2> QED
    BY <1>4, <1>5, SetInduction
<1> QED
  <2> SUFFICES ASSUME NEW i \in 1 .. (Len(list) + 1), NEW j \in 1 .. (Len(list) + 1), i < j
               PROVE  f[i] < f[j]
    BY DEF f
  <2>1. j \in S
    BY <1>6
  <2> QED
    BY <2>1

\* An instruction is where its identity is.
LEMMA PositionIs ==
    ASSUME NEW list, DistinctIds(list), NEW i \in DOMAIN list
    PROVE  Position(list, list[i].id) = i
  BY DEF Position, DistinctIds

\* Where there is an instruction with the identity, its place has it.
LEMMA PositionExists ==
    ASSUME NEW list, NEW id, \E i \in DOMAIN list : list[i].id = id
    PROVE  Position(list, id) \in DOMAIN list /\ list[Position(list, id)].id = id
  BY DEF Position

\* A concatenation c holds s and then t.
LEMMA ConcatIs ==
    ASSUME NEW R, NEW s \in Seq(R), NEW t \in Seq(R), NEW c, c = s \o t
    PROVE  /\ c \in Seq(R)
           /\ Len(c) = Len(s) + Len(t)
           /\ \A i \in 1 .. Len(s) : c[i] = s[i]
           /\ \A i \in 1 .. Len(t) : c[Len(s) + i] = t[i]
  OBVIOUS

\* FlattenSeq, which the model uses for InsertBefore: the sequences one after the other.
LEMMA FlattenIs ==
    ASSUME NEW R, NEW ss \in Seq(Seq(R)), Len(ss) > 0
    PROVE  \E f \in [1 .. Len(ss) -> Seq(R)] :
              /\ f[Len(ss)] = FlattenSeq(ss)
              /\ f[1] = ss[1]
              /\ \A i \in 1 .. (Len(ss) - 1) : f[i + 1] = f[i] \o ss[i + 1]
<1> DEFINE Cat(s, t) == s \o t
           N == Len(ss)
           Q(n, g) ==
             /\ g \in [1 .. (n + 1) -> Seq(R)]
             /\ \A i \in 1 .. (n + 1) : g[i] = IF i = 1 THEN ss[i] ELSE Cat(g[i - 1], ss[i])
           P(g) == g = [i \in 1 .. Len(ss) |-> IF i = 1 THEN ss[i] ELSE Cat(g[i - 1], ss[i])]
           S == {n \in Nat : n + 1 <= N => \E g : Q(n, g)}
<1>0. N \in Nat /\ N > 0
  OBVIOUS
<1>a. \A i \in 1 .. N : ss[i] \in Seq(R)
  OBVIOUS
<1>c. \A s, t \in Seq(R) : Cat(s, t) \in Seq(R)
  OBVIOUS
<1>9. FlattenSeq(ss) = (CHOOSE f : P(f))[Len(ss)]
  BY <1>0 DEF FlattenSeq
<1> HIDE DEF Cat
<1>1. 0 \in S
  <2>1. ss[1] \in Seq(R)
    BY <1>0, <1>a
  <2>2. Q(0, [i \in 1 .. 1 |-> ss[1]])
    BY <2>1
  <2> HIDE DEF Q
  <2> QED
    BY <2>2
<1>2. ASSUME NEW n \in Nat, n \in S, n + 1 + 1 <= N PROVE \E g : Q(n + 1, g)
  <2>1. PICK g : Q(n, g)
    <3> HIDE DEF Q
    <3> QED
      BY <1>2, <1>0
  <2> DEFINE h == [i \in 1 .. (n + 2) |-> IF i = n + 2 THEN Cat(g[n + 1], ss[n + 2]) ELSE g[i]]
  <2>2. g[n + 1] \in Seq(R) /\ ss[n + 2] \in Seq(R)
    BY <1>0, <1>2, <1>a, <2>1
  <2>3. h \in [1 .. (n + 2) -> Seq(R)]
    <3>1. \A i \in 1 .. (n + 2) : h[i] \in Seq(R)
      BY <2>1, <2>2, <1>c
    <3> QED
      BY <3>1
  <2>4. \A i \in 1 .. (n + 2) : h[i] = IF i = 1 THEN ss[i] ELSE Cat(h[i - 1], ss[i])
    <3> SUFFICES ASSUME NEW i \in 1 .. (n + 2)
                 PROVE  h[i] = IF i = 1 THEN ss[i] ELSE Cat(h[i - 1], ss[i])
      OBVIOUS
    <3>1. \A j \in 1 .. (n + 1) : g[j] = IF j = 1 THEN ss[j] ELSE Cat(g[j - 1], ss[j])
      BY <2>1
    <3>2. CASE i = n + 2
      <4>1. i - 1 = n + 1 /\ i - 1 # n + 2 /\ i # 1 /\ i - 1 \in 1 .. (n + 2)
        BY <3>2
      <4>2. h[i] = Cat(g[n + 1], ss[n + 2]) /\ h[i - 1] = g[n + 1]
        BY <3>2, <4>1
      <4> QED
        BY <4>1, <4>2, <3>2
    <3>3. CASE i \in 1 .. (n + 1)
      <4>1. h[i] = g[i] /\ (i # 1 => h[i - 1] = g[i - 1])
        BY <3>3
      <4> QED
        BY <3>1, <3>3, <4>1
    <3> QED
      BY <3>2, <3>3
  <2>5. Q(n + 1, h)
    <3>1. n + 1 + 1 = n + 2
      OBVIOUS
    <3> HIDE DEF h
    <3> QED
      BY <2>3, <2>4, <3>1
  <2> HIDE DEF Q, h
  <2> QED
    BY <2>5
<1>3. \A n \in Nat : n \in S => n + 1 \in S
  <2> HIDE DEF Q
  <2> QED
    BY <1>2
<1>4. \A n \in Nat : n \in S
  <2> HIDE DEF S
  <2> QED
    BY <1>1, <1>3, SetInduction
<1>5. N - 1 \in Nat /\ N - 1 + 1 = N
  BY <1>0
<1>6. \E g : Q(N - 1, g)
  <2>1. N - 1 \in S
    BY <1>4, <1>5
  <2> HIDE DEF Q
  <2> QED
    BY <2>1, <1>5
<1>7. PICK g : Q(N - 1, g)
  BY <1>6
<1>8. P(g)
  BY <1>5, <1>7
<1>10. PICK f : f = CHOOSE h : P(h)
  OBVIOUS
<1>11. P(f)
  <2> HIDE DEF P
  <2> QED
    BY <1>8, <1>10
<1>12. \A i \in 1 .. N : f[i] = IF i = 1 THEN ss[i] ELSE Cat(f[i - 1], ss[i])
  BY <1>11
<1>13. \A i \in 1 .. N : f[i] \in Seq(R)
  <2> DEFINE T == {n \in Nat : n + 1 <= N => f[n + 1] \in Seq(R)}
  <2> HIDE DEF N
  <2>1. 0 \in T
    BY <1>0, <1>12, <1>a
  <2>2. ASSUME NEW n \in Nat, n \in T PROVE n + 1 \in T
    <3>1. ASSUME n + 1 + 1 <= N PROVE f[n + 1 + 1] \in Seq(R)
      <4>1. f[n + 1] \in Seq(R)
        BY <2>2, <3>1, <1>0
      <4>2. n + 1 + 1 # 1 /\ n + 1 + 1 - 1 = n + 1 /\ n + 1 + 1 \in 1 .. N
        BY <3>1, <1>0
      <4>3. f[n + 1 + 1] = Cat(f[n + 1], ss[n + 1 + 1]) /\ ss[n + 1 + 1] \in Seq(R)
        BY <4>2, <1>12, <1>a
      <4> QED
        BY <4>1, <4>3, <1>c
    <3> QED
      BY <3>1
  <2>3. \A n \in Nat : n \in T
    <3> HIDE DEF T
    <3> QED
      BY <2>1, <2>2, SetInduction
  <2> SUFFICES ASSUME NEW i \in 1 .. N PROVE f[i] \in Seq(R)
    OBVIOUS
  <2>4. i - 1 \in Nat /\ i - 1 + 1 = i /\ i <= N
    BY <1>0
  <2>5. i - 1 \in T
    BY <2>3, <2>4
  <2> QED
    BY <2>4, <2>5
<1>14. f \in [1 .. Len(ss) -> Seq(R)]
  BY <1>11, <1>13
<1>15. \A i \in 1 .. (N - 1) : i + 1 \in 1 .. N /\ i + 1 # 1 /\ i + 1 - 1 = i
  BY <1>0
<1>16. \A i \in 1 .. (N - 1) : f[i + 1] = Cat(f[i], ss[i + 1])
  BY <1>12, <1>15
<1>17. f[1] = ss[1] /\ f[Len(ss)] = FlattenSeq(ss)
  <2>1. 1 \in 1 .. N
    BY <1>0
  <2> HIDE DEF P
  <2> QED
    BY <2>1, <1>9, <1>10, <1>12
<1> QED
  BY <1>14, <1>16, <1>17, Zenon DEF Cat

\* Where the elements are: e[i] is the end of the i-th sequence.
LEMMA FlattenShape ==
    ASSUME NEW R, NEW ss \in Seq(Seq(R)), Len(ss) > 0
    PROVE  /\ FlattenSeq(ss) \in Seq(R)
           /\ \E e \in [0 .. Len(ss) -> Nat] :
                /\ e[0] = 0
                /\ e[Len(ss)] = Len(FlattenSeq(ss))
                /\ \A i \in 1 .. Len(ss) :
                     /\ e[i] = e[i - 1] + Len(ss[i])
                     /\ \A k \in 1 .. Len(ss[i]) : FlattenSeq(ss)[e[i - 1] + k] = ss[i][k]
                /\ \A k \in 1 .. Len(FlattenSeq(ss)) :
                     \E i \in 1 .. Len(ss) : e[i - 1] < k /\ k <= e[i]
<1> DEFINE N == Len(ss)
<1>0. N \in Nat /\ N > 0 /\ \A i \in 1 .. N : ss[i] \in Seq(R) /\ Len(ss[i]) \in Nat
  OBVIOUS
<1>1. PICK f \in [1 .. N -> Seq(R)] :
              /\ f[N] = FlattenSeq(ss)
              /\ f[1] = ss[1]
              /\ \A i \in 1 .. (N - 1) : f[i + 1] = f[i] \o ss[i + 1]
  BY FlattenIs
<1> DEFINE e == [i \in 0 .. N |-> IF i = 0 THEN 0 ELSE Len(f[i])]
<1> HIDE DEF N
<1>2. \A i \in 1 .. N : f[i] \in Seq(R) /\ e[i] = Len(f[i]) /\ e[i] \in Nat
  BY <1>0
<1>3. e \in [0 .. N -> Nat] /\ e[0] = 0
  <2>1. \A i \in 0 .. N : e[i] \in Nat
    BY <1>0, <1>2
  <2> QED
    BY <2>1, <1>0
<1>4. \A i \in 1 .. N : e[i] = e[i - 1] + Len(ss[i])
  <2> SUFFICES ASSUME NEW i \in 1 .. N PROVE e[i] = e[i - 1] + Len(ss[i])
    OBVIOUS
  <2>1. CASE i = 1
    BY <2>1, <1>0, <1>1, <1>2, <1>3
  <2>2. CASE i # 1
    <3>1. i - 1 \in 1 .. (N - 1) /\ i - 1 + 1 = i /\ i - 1 \in 1 .. N
      BY <2>2, <1>0
    <3>2. f[i] = f[i - 1] \o ss[i]
      BY <3>1, <1>1
    <3>3. Len(f[i]) = Len(f[i - 1]) + Len(ss[i])
      BY <3>1, <3>2, <1>0, <1>2
    <3> QED
      BY <3>1, <3>3, <1>2
  <2> QED
    BY <2>1, <2>2
<1> HIDE DEF e
<1> DEFINE Q(n) ==
             /\ \A i \in 1 .. n : e[i] <= e[n]
             /\ \A i \in 1 .. n : \A k \in 1 .. Len(ss[i]) : f[n][e[i - 1] + k] = ss[i][k]
             /\ \A k \in 1 .. Len(f[n]) : \E i \in 1 .. n : e[i - 1] < k /\ k <= e[i]
           S == {n \in Nat : n + 1 <= N => Q(n + 1)}
<1>5. 0 \in S
  <2>1. 1 - 1 = 0 /\ 0 + 1 = 1 /\ 1 \in 1 .. N
    BY <1>0
  <2>2. e[1] = Len(f[1]) /\ e[1 - 1] = 0 /\ f[1] = ss[1] /\ e[1] \in Nat
    BY <2>1, <1>1, <1>2, <1>3
  <2>3. \A i \in 1 .. 1 : i = 1
    OBVIOUS
  <2>4. \A k \in 1 .. Len(ss[1]) : 0 + k = k /\ 0 < k
    BY <1>0
  <2>5. Q(1)
    BY <2>1, <2>2, <2>3, <2>4
  <2> HIDE DEF Q
  <2> QED
    BY <2>1, <2>5
<1>6. ASSUME NEW m \in 1 .. (N - 1), Q(m) PROVE Q(m + 1)
  <2>0. m \in Nat /\ m \in 1 .. N /\ m + 1 \in 1 .. N /\ m + 1 - 1 = m
    BY <1>0
  <2>1. Q(m)
    BY <1>6
  <2>a. f[m + 1] = f[m] \o ss[m + 1]
    BY <1>1
  <2>b. f[m] \in Seq(R) /\ ss[m + 1] \in Seq(R) /\ Len(ss[m + 1]) \in Nat
    BY <2>0, <1>0, <1>2
  <2>c. Len(f[m]) = e[m] /\ Len(f[m + 1]) = e[m + 1] /\ e[m] \in Nat /\ e[m + 1] \in Nat
    BY <2>0, <1>2
  <2>d. e[m + 1] = e[m] + Len(ss[m + 1])
    BY <2>0, <1>4
  <2>2. /\ f[m + 1] = f[m] \o ss[m + 1]
        /\ f[m] \in Seq(R) /\ ss[m + 1] \in Seq(R)
        /\ Len(f[m]) = e[m] /\ Len(f[m + 1]) = e[m + 1]
        /\ e[m + 1] = e[m] + Len(ss[m + 1])
        /\ e[m] \in Nat /\ e[m + 1] \in Nat /\ Len(ss[m + 1]) \in Nat
    BY <2>a, <2>b, <2>c, <2>d
  <2>e. /\ \A x \in 1 .. Len(f[m]) : f[m + 1][x] = f[m][x]
        /\ \A x \in 1 .. Len(ss[m + 1]) : f[m + 1][Len(f[m]) + x] = ss[m + 1][x]
    <3>1. PICK c, s, t : c = f[m + 1] /\ s = f[m] /\ t = ss[m + 1]
      OBVIOUS
    <3>2. s \in Seq(R) /\ t \in Seq(R) /\ c = s \o t
      BY <3>1, <2>a, <2>b
    <3>3. /\ \A x \in 1 .. Len(s) : c[x] = s[x]
          /\ \A x \in 1 .. Len(t) : c[Len(s) + x] = t[x]
      BY <3>2, ConcatIs
    <3> QED
      BY <3>1, <3>3, Zenon
  <2>3. \A i \in 1 .. (m + 1) : i = m + 1 \/ i \in 1 .. m
    BY <2>0
  <2>4. \A i \in 1 .. (m + 1) : e[i] <= e[m + 1]
    <3> SUFFICES ASSUME NEW i \in 1 .. m PROVE e[i] <= e[m + 1]
      BY <2>3, <2>c
    <3>1. e[i] \in Nat
      BY <1>2, <2>0, <1>0
    <3>2. e[i] <= e[m]
      BY <2>1
    <3> QED
      BY <2>b, <2>c, <2>d, <3>1, <3>2, SMTT(30)
  <2>5. ASSUME NEW i \in 1 .. (m + 1), NEW k \in 1 .. Len(ss[i])
        PROVE  f[m + 1][e[i - 1] + k] = ss[i][k]
    <3>1. CASE i = m + 1
      <4>1. k \in 1 .. Len(ss[m + 1]) /\ i - 1 = m
        BY <2>0, <3>1
      <4>2. f[m + 1][Len(f[m]) + k] = ss[m + 1][k]
        BY <2>e, <4>1
      <4> QED
        BY <4>1, <4>2, <2>c, <3>1
    <3>2. CASE i \in 1 .. m
      <4>1. i \in 1 .. N /\ i - 1 \in 0 .. N
        BY <2>0, <3>2, <1>0
      <4>2. e[i] \in Nat /\ e[i - 1] \in Nat /\ e[i] = e[i - 1] + Len(ss[i])
        BY <4>1, <1>2, <1>3, <1>4
      <4>3. e[i] <= e[m] /\ f[m][e[i - 1] + k] = ss[i][k]
        BY <2>1, <3>2
      <4>4. Len(ss[i]) \in Nat
        BY <4>1, <1>0
      <4>5. e[i - 1] + k \in 1 .. Len(f[m])
        <5>1. k \in Nat /\ 1 <= k /\ k <= Len(ss[i])
          BY <4>4
        <5>2. e[i - 1] + k \in Nat /\ 1 <= e[i - 1] + k /\ e[i - 1] + k <= e[m]
          <6>1. e[i] <= e[m]
            BY <4>3
          <6>3. e[m] \in Nat
            BY <2>c
          <6>4. PICK a, b, d, l : a = e[i] /\ b = e[i - 1] /\ d = e[m] /\ l = Len(ss[i])
            OBVIOUS
          <6>5. a \in Nat /\ b \in Nat /\ d \in Nat /\ l \in Nat /\ a = b + l /\ a <= d
            BY <6>1, <6>3, <6>4, <4>2, <4>4
          <6>6. k \in Nat /\ 1 <= k /\ k <= l
            BY <5>1, <6>4
          <6>7. b + k \in Nat /\ 1 <= b + k /\ b + k <= d
            BY <6>5, <6>6
          <6> QED
            BY <6>4, <6>7
        <5> QED
          BY <5>2, <2>c
      <4>6. f[m + 1][e[i - 1] + k] = f[m][e[i - 1] + k]
        BY <2>e, <4>5
      <4> QED
        BY <4>3, <4>6
    <3> QED
      BY <2>3, <3>1, <3>2
  <2>6. ASSUME NEW k \in 1 .. Len(f[m + 1])
        PROVE  \E i \in 1 .. (m + 1) : e[i - 1] < k /\ k <= e[i]
    <3>1. CASE k <= e[m]
      <4>1. k \in 1 .. Len(f[m])
        BY <2>2, <3>1
      <4>2. PICK i \in 1 .. m : e[i - 1] < k /\ k <= e[i]
        BY <4>1, <2>1
      <4>3. i \in 1 .. (m + 1)
        BY <2>0
      <4> QED
        BY <4>2, <4>3
    <3>2. CASE k > e[m]
      <4>1. m + 1 \in 1 .. (m + 1) /\ e[m + 1 - 1] = e[m]
        BY <2>0
      <4>2. e[m + 1 - 1] < k /\ k <= e[m + 1]
        BY <4>1, <3>2, <2>2
      <4> QED
        BY <4>1, <4>2
    <3> QED
      BY <2>2, <3>1, <3>2
  <2> QED
    BY <2>4, <2>5, <2>6
<1>7. ASSUME NEW n \in Nat, n \in S PROVE n + 1 \in S
  <2> HIDE DEF Q
  <2>1. ASSUME n + 1 + 1 <= N PROVE Q(n + 1 + 1)
    <3>1. n + 1 \in 1 .. (N - 1) /\ n + 1 <= N
      BY <2>1, <1>0
    <3>2. Q(n + 1)
      BY <1>7, <3>1
    <3> QED
      BY <3>1, <3>2, <1>6
  <2> QED
    BY <2>1
<1>8. \A n \in Nat : n \in S
  <2> HIDE DEF S
  <2> QED
    BY <1>5, <1>7, SetInduction
<1>9. Q(N)
  <2>1. N - 1 \in Nat /\ N - 1 + 1 = N
    BY <1>0
  <2>2. N - 1 \in S
    BY <1>8, <2>1
  <2> HIDE DEF Q
  <2> QED
    BY <2>1, <2>2
<1>10. f[N] = FlattenSeq(ss) /\ f[N] \in Seq(R) /\ e[N] = Len(FlattenSeq(ss)) /\ N = Len(ss)
  BY <1>0, <1>1, <1>2 DEF N
<1>11. /\ e[Len(ss)] = Len(FlattenSeq(ss))
       /\ \A i \in 1 .. Len(ss) :
            /\ e[i] = e[i - 1] + Len(ss[i])
            /\ \A k \in 1 .. Len(ss[i]) : FlattenSeq(ss)[e[i - 1] + k] = ss[i][k]
       /\ \A k \in 1 .. Len(FlattenSeq(ss)) :
            \E i \in 1 .. Len(ss) : e[i - 1] < k /\ k <= e[i]
  <2>1. \A i \in 1 .. N : \A k \in 1 .. Len(ss[i]) : f[N][e[i - 1] + k] = ss[i][k]
    BY <1>9
  <2>2. \A k \in 1 .. Len(f[N]) : \E i \in 1 .. N : e[i - 1] < k /\ k <= e[i]
    BY <1>9
  <2> HIDE DEF Q
  <2> QED
    BY <1>4, <1>10, <2>1, <2>2, Zenon
<1> HIDE DEF Q, S
<1> QED
  BY <1>3, <1>10, <1>11, Zenon

-----------------------------------------------------------------------------
(* The rewritten list *)

\* What Import, the rewriter and Export keep: distinct instructions, with a size, and
\* branches that lead to one of them.
WellFormed(list) ==
    /\ list \in Seq(Instrs)
    /\ Sized(list)
    /\ DistinctIds(list)
    /\ \A i \in DOMAIN list : IsBranch(list[i]) =>
          \E j \in DOMAIN list : list[j].id = list[i].target

\* What the rewriter makes of a method
Bodies(m) == [i \in DOMAIN m.il |-> Returns(m.void, m.il[i])]
Rewriting(m) == BeginPart(m.il[1].id) \o FlattenSeq(Bodies(m)) \o EndPart(m.void)

\* The added instruction at a place
AddedAt(list, i, id, op, target) ==
    i \in DOMAIN list /\ list[i].id = Added + id /\ list[i].op = op /\ list[i].target = target

\* Every instruction i of the method has its place at[i], behind the value that is stored in
\* front of a return; from[i] is the first of its places.
Placed(m, list, at, from, n) ==
    /\ n \in Nat
    /\ at \in [DOMAIN m.il -> 7 .. (6 + n)]
    /\ from \in [DOMAIN m.il -> 7 .. (6 + n)]
    /\ \A i \in DOMAIN m.il :
         /\ i + 1 \in DOMAIN m.il => from[i + 1] = at[i] + 1
         /\ \A j \in DOMAIN m.il : i < j => at[i] < at[j]
         /\ list[at[i]].id = m.il[i].id
         /\ list[at[i]].value = m.il[i].value \/ m.il[i].op = "ret"
         /\ m.il[i].op # "ret" =>
              /\ list[at[i]].op = m.il[i].op
              /\ list[at[i]].target = m.il[i].target
              /\ from[i] = at[i]
         /\ m.il[i].op = "ret" =>
              /\ list[at[i]].op = "leave"
              /\ list[at[i]].target = Added + (IF m.void THEN 20 ELSE 19)
              /\ m.void => from[i] = at[i]
              /\ ~m.void => from[i] = at[i] - 1 /\ list[from[i]].op = "stret"
                              /\ list[from[i]].target = None

\* The added part in front of the method
BeginAt(m, list) ==
    /\ AddedAt(list, 1, 1, "init", None)
    /\ AddedAt(list, 2, 2, "begin", None)
    /\ AddedAt(list, 3, 3, "nop", None)
    /\ AddedAt(list, 4, 4, "leave", m.il[1].id)
    /\ AddedAt(list, 5, 5, "log", None)
    /\ AddedAt(list, 6, 6, "leave", m.il[1].id)

\* k is the place of the catch; d counts the instruction for the value.
EndAt(m, list, k, d) ==
    /\ d = IF m.void THEN 0 ELSE 1
    /\ AddedAt(list, k, 11, "stexc", None)
    /\ AddedAt(list, k + 1, 12, "rethrow", None)
    /\ AddedAt(list, k + 2, 13, "end", None)
    /\ ~m.void => AddedAt(list, k + 3, 14, "stret", None)
    /\ AddedAt(list, k + 3 + d, 15, "leave", Added + 17)
    /\ AddedAt(list, k + 4 + d, 16, "log", None)
    /\ AddedAt(list, k + 5 + d, 18, "leave", Added + 17)
    /\ AddedAt(list, k + 6 + d, 17, "endfinally", None)
    /\ ~m.void => AddedAt(list, k + 7 + d, 19, "ldret", None)
    /\ AddedAt(list, k + 7 + d + d, 20, "ret", None)

\* The whole rewritten list: the method takes the n places behind the first six.
Shape(m, list, at, from, n, d) ==
    /\ WellFormed(list)
    /\ Len(list) > Len(m.il)
    /\ Placed(m, list, at, from, n)
    /\ BeginAt(m, list)
    /\ EndAt(m, list, n + 7, d)

Shaped(m, list) == \E at, from, n, d : Shape(m, list, at, from, n, d)

\* Two lists that differ in the length of branches only
Like(list, other) ==
    /\ list \in Seq(Instrs)
    /\ Len(list) = Len(other)
    /\ \A i \in DOMAIN other :
         /\ list[i].id = other[i].id
         /\ list[i].op = other[i].op
         /\ list[i].target = other[i].target
         /\ list[i].size = other[i].size
         /\ list[i].value = other[i].value

\* A pass of Export, which makes branches longer only, keeps the shape of the list.
LEMMA LikeShape ==
    ASSUME NEW m, NEW list, NEW other, Like(list, other), Shaped(m, other)
    PROVE  Shaped(m, list)
<1>1. PICK at, from, n, d : Shape(m, other, at, from, n, d)
  BY DEF Shaped
<1>2. WellFormed(other) /\ other \in Seq(Instrs) /\ list \in Seq(Instrs) /\ DOMAIN list = DOMAIN other
  BY <1>1 DEF Shape, WellFormed, Like
<1>3. WellFormed(list)
  <2>1. Sized(list)
    BY <1>2 DEF Like, Sized, WellFormed, IsBranch
  <2>2. DistinctIds(list)
    BY <1>2 DEF Like, DistinctIds, WellFormed
  <2>3. \A i \in DOMAIN list : IsBranch(list[i]) =>
          \E j \in DOMAIN list : list[j].id = list[i].target
    BY <1>2 DEF Like, WellFormed, IsBranch
  <2> QED
    BY <1>2, <2>1, <2>2, <2>3 DEF WellFormed
<1>4. Placed(m, list, at, from, n)
  <2>0. Placed(m, other, at, from, n)
    BY <1>1 DEF Shape
  <2>1. \A i \in DOMAIN other : /\ list[i].id = other[i].id
                                /\ list[i].op = other[i].op
                                /\ list[i].target = other[i].target
                                /\ list[i].value = other[i].value
    BY DEF Like
  <2>2. \A i \in DOMAIN m.il : at[i] \in DOMAIN other /\ from[i] \in DOMAIN other
    <3>1. AddedAt(other, n + 7, 11, "stexc", None)
      BY <1>1 DEF Shape, EndAt
    <3>2. n + 7 \in DOMAIN other
      BY <3>1 DEF AddedAt
    <3>3. 7 .. (6 + n) \subseteq DOMAIN other
      BY <1>2, <2>0, <3>2 DEF Placed
    <3> QED
      BY <3>3, <2>0 DEF Placed
  <2> QED
    BY <2>0, <2>1, <2>2 DEF Placed
<1>5. \A i, id, op, target : AddedAt(other, i, id, op, target) => AddedAt(list, i, id, op, target)
  BY <1>2 DEF Like, AddedAt
<1>6. BeginAt(m, list) /\ EndAt(m, list, n + 7, d)
  <2>1. BeginAt(m, other) /\ EndAt(m, other, n + 7, d)
    BY <1>1 DEF Shape
  <2> QED
    BY <1>5, <2>1 DEF BeginAt, EndAt
<1>7. Len(list) > Len(m.il)
  BY <1>1 DEF Shape, Like
<1> QED
  BY <1>3, <1>4, <1>6, <1>7 DEF Shaped, Shape

\* What the assumptions say of a method
LEMMA MethodIs ==
    ASSUME NEW m \in Methods
    PROVE  /\ m.void \in BOOLEAN
           /\ m.il \in Seq(Instructions) /\ Len(m.il) \in Nat \ {0}
           /\ WellFormed(m.il)
           /\ TooFar(m.il, Offsets(m.il)) = {}
           /\ None \notin Nat
<1>1. Imported(m) /\ None \notin Nat
  BY CallTargetAssumption
<1>2. m.void \in BOOLEAN /\ m.il \in Seq(Instructions) /\ TooFar(m.il, Offsets(m.il)) = {}
      /\ m.il # <<>>
  BY <1>1 DEF Imported
<1>3. Len(m.il) \in Nat \ {0}
  BY <1>2
<1>4. m.il \in Seq(Instrs)
  <2>1. \A x \in Instructions : x \in Instrs
    <3> SUFFICES ASSUME NEW x \in Instructions PROVE x \in Instrs
      OBVIOUS
    <3>1. 1 .. (Added - 1) \subseteq Nat
      BY DEF Added
    <3>2. Ops \subseteq AllOps
      BY DEF AllOps
    <3> QED
      BY <3>1, <3>2 DEF Instructions, Instrs
  <2> QED
    BY <1>2, <2>1
<1>5. Sized(m.il)
  BY <1>1 DEF Sized, Imported
<1>6. DistinctIds(m.il)
  BY <1>1 DEF DistinctIds, Imported
<1>7. \A i \in DOMAIN m.il : IsBranch(m.il[i]) =>
          \E j \in DOMAIN m.il : m.il[j].id = m.il[i].target
  BY <1>1 DEF Imported
<1> QED
  BY <1>1, <1>2, <1>3, <1>4, <1>5, <1>6, <1>7 DEF WellFormed

\* An instruction that is added
LEMMA InstrIs ==
    ASSUME NEW id \in Nat, NEW op \in AllOps, NEW size \in Nat
    PROVE  /\ Instr(Added + id, op, size) \in Instrs
           /\ Instr(Added + id, op, size).id = Added + id
           /\ Instr(Added + id, op, size).op = op
           /\ Instr(Added + id, op, size).target = None
           /\ Instr(Added + id, op, size).size = size
<1>1. Added + id \in Nat
  BY DEF Added
<1> QED
  BY <1>1 DEF Instr, Instrs

\* The fields of an added leave
LEMMA LeaveSIs ==
    ASSUME NEW id \in Nat, NEW target \in Nat
    PROVE  /\ LeaveS(id, target) \in Instrs
           /\ LeaveS(id, target).id = id /\ LeaveS(id, target).op = "leave"
           /\ LeaveS(id, target).target = target
<1>1. "leave" \in AllOps
  BY DEF AllOps, Ops, Jumps
<1> QED
  BY <1>1 DEF LeaveS, Instrs

\* The instruction x is the one that was added under the number id.
IsAdded(x, id, op) == x.id = Added + id /\ x.op = op /\ x.target = None /\ x.size > 0
IsLeave(x, id, target) == x.id = Added + id /\ x.op = "leave" /\ x.target = target

\* An added instruction that is not a branch is an instruction, the one of its number.
LEMMA AddedIs ==
    ASSUME NEW x, NEW id \in Nat, NEW op \in AllOps, NEW size \in Nat, size > 0,
           x = Instr(Added + id, op, size)
    PROVE  x \in Instrs /\ IsAdded(x, id, op)
  BY InstrIs DEF IsAdded

\* The same for an added leave
LEMMA AddedLeaveIs ==
    ASSUME NEW x, NEW id \in Nat, NEW target \in Nat, x = LeaveS(Added + id, target)
    PROVE  x \in Instrs /\ IsLeave(x, id, target)
<1>1. Added + id \in Nat
  BY DEF Added
<1> QED
  BY <1>1, LeaveSIs DEF IsLeave

\* The operations of the added instructions
LEMMA AddedOps ==
    /\ "init" \in AllOps /\ "begin" \in AllOps /\ "log" \in AllOps /\ "stexc" \in AllOps
    /\ "end" \in AllOps /\ "stret" \in AllOps /\ "ldret" \in AllOps /\ "nop" \in AllOps
    /\ "rethrow" \in AllOps /\ "endfinally" \in AllOps /\ "ret" \in AllOps
  BY DEF AllOps, Ops, NeverFallThrough

\* What becomes of an instruction of the method
ReturnsAs(m, x, s) ==
    /\ x \in Instrs /\ OwnId(x.id) /\ s \in Seq(Instrs)
    /\ x.op # "ret" => Len(s) = 1 /\ s[1] = x
    /\ x.op = "ret" /\ m.void => Len(s) = 1 /\ s[1] = LeaveS(x.id, Added + 20)
    /\ x.op = "ret" /\ ~m.void =>
         /\ Len(s) = 2
         /\ s[1] = Instr(Added + 100 + x.id, "stret", 2)
         /\ s[2] = LeaveS(x.id, Added + 19)

\* Every instruction of the method is kept or, a return, becomes a leave, with a store in
\* front of it where there is a value.
LEMMA ReturnsIs ==
    ASSUME NEW m \in Methods, NEW i \in DOMAIN m.il
    PROVE  ReturnsAs(m, m.il[i], Returns(m.void, m.il[i]))
<1>0. PICK x, s : x = m.il[i] /\ s = Returns(m.void, x)
  OBVIOUS
<1>1. x \in Instructions /\ x \in Instrs
  <2>1. m.il \in Seq(Instructions) /\ m.il \in Seq(Instrs)
    BY MethodIs DEF WellFormed
  <2> QED
    BY <1>0, <2>1
<1>2. OwnId(x.id)
  BY <1>1, SMTT(30) DEF Instructions, OwnId, Added
<1>3. /\ Instr(Added + 100 + x.id, "stret", 2) \in Instrs
      /\ LeaveS(x.id, Added + 20) \in Instrs /\ LeaveS(x.id, Added + 19) \in Instrs
  <2>1. \A a : OwnId(a) => Added + 100 + a = Added + (100 + a) /\ 100 + a \in Nat /\ a \in Nat
    BY DEF Added, OwnId
  <2>2. Added + 20 \in Nat /\ Added + 19 \in Nat
    BY DEF Added
  <2>3. Added + 100 + x.id = Added + (100 + x.id) /\ 100 + x.id \in Nat /\ x.id \in Nat
    BY <1>2, <2>1, Zenon
  <2>4. Instr(Added + (100 + x.id), "stret", 2) \in Instrs
    BY <2>3, InstrIs, AddedOps
  <2>5. LeaveS(x.id, Added + 20) \in Instrs /\ LeaveS(x.id, Added + 19) \in Instrs
    BY <2>2, <2>3, LeaveSIs
  <2> QED
    BY <2>3, <2>4, <2>5
<1> SUFFICES ReturnsAs(m, x, s)
  BY <1>0
<1>4. CASE x.op # "ret"
  <2>1. s = <<x>>
    BY <1>0, <1>4 DEF Returns
  <2> QED
    BY <1>1, <1>2, <1>4, <2>1 DEF ReturnsAs
<1>5. CASE x.op = "ret" /\ m.void
  <2>1. s = <<LeaveS(x.id, Added + 20)>>
    BY <1>0, <1>5 DEF Returns
  <2>2. s \in Seq(Instrs) /\ Len(s) = 1 /\ s[1] = LeaveS(x.id, Added + 20)
    BY <1>3, <2>1
  <2> QED
    BY <1>1, <1>2, <1>5, <2>2, Zenon DEF ReturnsAs
<1>6. CASE x.op = "ret" /\ ~m.void
  <2>1. s = <<Instr(Added + 100 + x.id, "stret", 2), LeaveS(x.id, Added + 19)>>
    BY <1>0, <1>6 DEF Returns
  <2> QED
    BY <1>1, <1>2, <1>3, <1>6, <2>1 DEF ReturnsAs
<1> QED
  BY <1>4, <1>5, <1>6

\* The part behind the body, in full
EndVoid(E) ==
    /\ Len(E) = 8
    /\ IsAdded(E[1], 11, "stexc")
    /\ IsAdded(E[2], 12, "rethrow")
    /\ IsAdded(E[3], 13, "end")
    /\ IsLeave(E[4], 15, Added + 17)
    /\ IsAdded(E[5], 16, "log")
    /\ IsLeave(E[6], 18, Added + 17)
    /\ IsAdded(E[7], 17, "endfinally")
    /\ IsAdded(E[8], 20, "ret")
\* The same for a method that returns a value
EndValue(E) ==
    /\ Len(E) = 10
    /\ IsAdded(E[1], 11, "stexc")
    /\ IsAdded(E[2], 12, "rethrow")
    /\ IsAdded(E[3], 13, "end")
    /\ IsAdded(E[4], 14, "stret")
    /\ IsLeave(E[5], 15, Added + 17)
    /\ IsAdded(E[6], 16, "log")
    /\ IsLeave(E[7], 18, Added + 17)
    /\ IsAdded(E[8], 17, "endfinally")
    /\ IsAdded(E[9], 19, "ldret")
    /\ IsAdded(E[10], 20, "ret")

\* The part behind the method, place by place
LEMMA EndPartIs ==
    ASSUME NEW void \in BOOLEAN, NEW E, E = EndPart(void)
    PROVE  /\ E \in Seq(Instrs)
           /\ void => EndVoid(E)
           /\ ~void => EndValue(E)
<1>1. PICK a11, a12, a13, a14, a15, a16, a18, a17, a19, a20 :
        /\ a11 = Instr(Added + 11, "stexc", 2) /\ a12 = Instr(Added + 12, "rethrow", 2)
        /\ a13 = Instr(Added + 13, "end", EndSize) /\ a14 = Instr(Added + 14, "stret", 2)
        /\ a15 = LeaveS(Added + 15, Added + 17) /\ a16 = Instr(Added + 16, "log", 5)
        /\ a18 = LeaveS(Added + 18, Added + 17) /\ a17 = Instr(Added + 17, "endfinally", 1)
        /\ a19 = Instr(Added + 19, "ldret", 2) /\ a20 = Instr(Added + 20, "ret", 1)
  OBVIOUS
<1>a. EndSize \in Nat /\ EndSize > 0 /\ Added + 17 \in Nat
  BY CallTargetAssumption DEF Added
<1>b. a11 \in Instrs /\ IsAdded(a11, 11, "stexc") /\ a12 \in Instrs /\ IsAdded(a12, 12, "rethrow")
  BY <1>1, AddedIs, AddedOps
<1>c. a13 \in Instrs /\ IsAdded(a13, 13, "end") /\ a14 \in Instrs /\ IsAdded(a14, 14, "stret")
  BY <1>1, <1>a, AddedIs, AddedOps
<1>d. a15 \in Instrs /\ IsLeave(a15, 15, Added + 17) /\ a18 \in Instrs /\ IsLeave(a18, 18, Added + 17)
  BY <1>1, <1>a, AddedLeaveIs
<1>e. a16 \in Instrs /\ IsAdded(a16, 16, "log") /\ a17 \in Instrs /\ IsAdded(a17, 17, "endfinally")
  BY <1>1, AddedIs, AddedOps
<1>f. a19 \in Instrs /\ IsAdded(a19, 19, "ldret") /\ a20 \in Instrs /\ IsAdded(a20, 20, "ret")
  BY <1>1, AddedIs, AddedOps
<1>2. /\ a11 \in Instrs /\ a12 \in Instrs /\ a13 \in Instrs /\ a14 \in Instrs /\ a15 \in Instrs
      /\ a16 \in Instrs /\ a18 \in Instrs /\ a17 \in Instrs /\ a19 \in Instrs /\ a20 \in Instrs
  BY <1>b, <1>c, <1>d, <1>e, <1>f
<1>3. CASE void
  <2>1. E = <<a11, a12, a13>> \o <<>> \o <<a15, a16, a18, a17>> \o <<>> \o <<a20>>
    BY <1>1, <1>3 DEF EndPart
  <2>2. PICK p, q, r, s, t, c1, c2, c3 :
           /\ p = <<a11, a12, a13>> /\ q = <<>> /\ r = <<a15, a16, a18, a17>>
           /\ s = <<>> /\ t = <<a20>>
           /\ c1 = p \o q /\ c2 = c1 \o r /\ c3 = c2 \o s
    OBVIOUS
  <2>3. /\ p \in Seq(Instrs) /\ q \in Seq(Instrs) /\ r \in Seq(Instrs) /\ s \in Seq(Instrs)
        /\ t \in Seq(Instrs) /\ E = c3 \o t
    BY <1>2, <2>1, <2>2
  <2>4. Len(p) = 3 /\ Len(q) = 0 /\ Len(r) = 4 /\ Len(s) = 0 /\ Len(t) = 1
    BY <2>2
  <2>5. c1 \in Seq(Instrs) /\ Len(c1) = 3 /\ c1[1] = a11 /\ c1[2] = a12 /\ c1[3] = a13
    BY <2>2, <2>3, <2>4
  <2>6. c2 \in Seq(Instrs) /\ Len(c2) = 7
        /\ c2[1] = a11 /\ c2[2] = a12 /\ c2[3] = a13 /\ c2[4] = a15 /\ c2[5] = a16 /\ c2[6] = a18 /\ c2[7] = a17
    BY <2>2, <2>3, <2>4, <2>5
  <2>7. c3 \in Seq(Instrs) /\ Len(c3) = 7
        /\ c3[1] = a11 /\ c3[2] = a12 /\ c3[3] = a13 /\ c3[4] = a15 /\ c3[5] = a16 /\ c3[6] = a18 /\ c3[7] = a17
    BY <2>2, <2>3, <2>4, <2>6
  <2>8. E \in Seq(Instrs) /\ Len(E) = 8
        /\ E[1] = a11 /\ E[2] = a12 /\ E[3] = a13 /\ E[4] = a15 /\ E[5] = a16 /\ E[6] = a18 /\ E[7] = a17 /\ E[8] = a20
    BY <2>2, <2>3, <2>4, <2>7
  <2> QED
    BY <1>b, <1>c, <1>d, <1>e, <1>f, <1>3, <2>8 DEF EndVoid
<1>4. CASE ~void
  <2>1. E = <<a11, a12, a13>> \o <<a14>> \o <<a15, a16, a18, a17>> \o <<a19>> \o <<a20>>
    BY <1>1, <1>4 DEF EndPart
  <2>2. PICK p, q, r, s, t, c1, c2, c3 :
           /\ p = <<a11, a12, a13>> /\ q = <<a14>> /\ r = <<a15, a16, a18, a17>>
           /\ s = <<a19>> /\ t = <<a20>>
           /\ c1 = p \o q /\ c2 = c1 \o r /\ c3 = c2 \o s
    OBVIOUS
  <2>3. /\ p \in Seq(Instrs) /\ q \in Seq(Instrs) /\ r \in Seq(Instrs) /\ s \in Seq(Instrs)
        /\ t \in Seq(Instrs) /\ E = c3 \o t
    BY <1>2, <2>1, <2>2
  <2>4. Len(p) = 3 /\ Len(q) = 1 /\ Len(r) = 4 /\ Len(s) = 1 /\ Len(t) = 1
    BY <2>2
  <2>5. c1 \in Seq(Instrs) /\ Len(c1) = 4 /\ c1[1] = a11 /\ c1[2] = a12 /\ c1[3] = a13 /\ c1[4] = a14
    BY <2>2, <2>3, <2>4
  <2>6. c2 \in Seq(Instrs) /\ Len(c2) = 8
        /\ c2[1] = a11 /\ c2[2] = a12 /\ c2[3] = a13 /\ c2[4] = a14 /\ c2[5] = a15 /\ c2[6] = a16 /\ c2[7] = a18 /\ c2[8] = a17
    BY <2>2, <2>3, <2>4, <2>5
  <2>7. c3 \in Seq(Instrs) /\ Len(c3) = 9
        /\ c3[1] = a11 /\ c3[2] = a12 /\ c3[3] = a13 /\ c3[4] = a14 /\ c3[5] = a15 /\ c3[6] = a16 /\ c3[7] = a18 /\ c3[8] = a17 /\ c3[9] = a19
    BY <2>2, <2>3, <2>4, <2>6
  <2>8. E \in Seq(Instrs) /\ Len(E) = 10
        /\ E[1] = a11 /\ E[2] = a12 /\ E[3] = a13 /\ E[4] = a14 /\ E[5] = a15 /\ E[6] = a16 /\ E[7] = a18 /\ E[8] = a17 /\ E[9] = a19 /\ E[10] = a20
    BY <2>2, <2>3, <2>4, <2>7
  <2> QED
    BY <1>b, <1>c, <1>d, <1>e, <1>f, <1>4, <2>8 DEF EndValue
<1> QED
  BY <1>3, <1>4

\* The part in front of the method, place by place
LEMMA BeginPartIs ==
    ASSUME NEW first \in Nat, NEW B, B = BeginPart(first)
    PROVE  /\ B \in Seq(Instrs)
           /\ Len(B) = 6
           /\ IsAdded(B[1], 1, "init")
           /\ IsAdded(B[2], 2, "begin")
           /\ IsAdded(B[3], 3, "nop")
           /\ IsLeave(B[4], 4, first)
           /\ IsAdded(B[5], 5, "log")
           /\ IsLeave(B[6], 6, first)
<1>1. PICK b1, b2, b3, b4, b5, b6 :
         /\ b1 = Instr(Added + 1, "init", 14) /\ b2 = Instr(Added + 2, "begin", BeginSize)
         /\ b3 = Instr(Added + 3, "nop", 2) /\ b4 = LeaveS(Added + 4, first)
         /\ b5 = Instr(Added + 5, "log", 5) /\ b6 = LeaveS(Added + 6, first)
  OBVIOUS
<1>a. BeginSize \in Nat /\ BeginSize > 0
  BY CallTargetAssumption
<1>b. b1 \in Instrs /\ IsAdded(b1, 1, "init") /\ b2 \in Instrs /\ IsAdded(b2, 2, "begin")
  BY <1>1, <1>a, AddedIs, AddedOps
<1>c. b3 \in Instrs /\ IsAdded(b3, 3, "nop") /\ b5 \in Instrs /\ IsAdded(b5, 5, "log")
  BY <1>1, AddedIs, AddedOps
<1>d. b4 \in Instrs /\ IsLeave(b4, 4, first) /\ b6 \in Instrs /\ IsLeave(b6, 6, first)
  BY <1>1, AddedLeaveIs
<1>3. B = <<b1, b2, b3, b4, b5, b6>>
  BY <1>1 DEF BeginPart
<1>4. B \in Seq(Instrs) /\ Len(B) = 6 /\ B[1] = b1 /\ B[2] = b2 /\ B[3] = b3 /\ B[4] = b4
      /\ B[5] = b5 /\ B[6] = b6
  BY <1>b, <1>c, <1>d, <1>3
<1> QED
  BY <1>b, <1>c, <1>d, <1>4

\* A function of the numbers up to N that grows with every step
LEMMA StepsGrow ==
    ASSUME NEW N \in Nat, NEW f \in [0 .. N -> Nat], \A i \in 1 .. N : f[i - 1] < f[i]
    PROVE  /\ \A i, j \in 0 .. N : i < j => f[i] < f[j]
           /\ \A i \in 0 .. N : i <= f[i]
<1> DEFINE S == {n \in Nat : n \in 0 .. N => n <= f[n] /\ \A i \in 0 .. N : i < n => f[i] < f[n]}
<1>1. 0 \in S
  OBVIOUS
<1>2. ASSUME NEW n \in Nat, n \in S PROVE n + 1 \in S
  <2> SUFFICES ASSUME n + 1 \in 0 .. N
               PROVE  n + 1 <= f[n + 1] /\ \A i \in 0 .. N : i < n + 1 => f[i] < f[n + 1]
    OBVIOUS
  <2>1. n \in 0 .. N /\ n + 1 \in 1 .. N /\ n + 1 - 1 = n
    OBVIOUS
  <2>2. f[n] < f[n + 1] /\ f[n] \in Nat /\ f[n + 1] \in Nat
    BY <2>1
  <2>3. n <= f[n] /\ \A i \in 0 .. N : i < n => f[i] < f[n]
    BY <1>2, <2>1
  <2>4. ASSUME NEW i \in 0 .. N, i < n + 1 PROVE f[i] < f[n + 1]
    <3>1. CASE i = n
      BY <2>2, <3>1
    <3>2. CASE i < n
      <4>1. f[i] < f[n] /\ f[i] \in Nat
        BY <2>3, <3>2
      <4> QED
        BY <4>1, <2>2
    <3> QED
      BY <2>4, <3>1, <3>2
  <2>5. n + 1 <= f[n + 1]
    BY <2>2, <2>3
  <2> QED
    BY <2>4, <2>5
<1>3. \A n \in Nat : n \in S
  <2> HIDE DEF S
  <2> QED
    BY <1>1, <1>2, SetInduction
<1>4. ASSUME NEW i \in 0 .. N, NEW j \in 0 .. N, i < j PROVE f[i] < f[j]
  <2>1. j \in S
    BY <1>3
  <2> QED
    BY <1>4, <2>1
<1>5. ASSUME NEW i \in 0 .. N PROVE i <= f[i]
  <2>1. i \in S
    BY <1>3
  <2> QED
    BY <2>1
<1> QED
  BY <1>4, <1>5

\* The body of the method, with its returns replaced: e[i] is the place of instruction i.
BodyAt(m, F, e) ==
    /\ F \in Seq(Instrs)
    /\ e \in [0 .. Len(m.il) -> Nat]
    /\ e[0] = 0
    /\ e[Len(m.il)] = Len(F)
    /\ \A i \in 1 .. Len(m.il) :
         /\ m.il[i].op # "ret" => e[i] = e[i - 1] + 1 /\ F[e[i]] = m.il[i]
         /\ m.il[i].op = "ret" /\ m.void =>
              e[i] = e[i - 1] + 1 /\ F[e[i]] = LeaveS(m.il[i].id, Added + 20)
         /\ m.il[i].op = "ret" /\ ~m.void =>
              /\ e[i] = e[i - 1] + 2
              /\ F[e[i - 1] + 1] = Instr(Added + (100 + m.il[i].id), "stret", 2)
              /\ F[e[i]] = LeaveS(m.il[i].id, Added + 19)
    /\ \A k \in 1 .. Len(F) : \E i \in 1 .. Len(m.il) : e[i - 1] < k /\ k <= e[i]

\* The rewritten instructions, one after the other: where those of each instruction end
LEMMA BodyShape ==
    ASSUME NEW m \in Methods
    PROVE  \E e : BodyAt(m, FlattenSeq(Bodies(m)), e)
<1> DEFINE ss == Bodies(m)
           N == Len(m.il)
<1>1. N \in Nat /\ N > 0 /\ DOMAIN m.il = 1 .. N
  <2>1. m.il \in Seq(Instructions) /\ Len(m.il) \in Nat \ {0}
    BY MethodIs
  <2> QED
    BY <2>1
<1>2. \A i \in 1 .. N : ss[i] = Returns(m.void, m.il[i])
  BY <1>1 DEF Bodies
<1>3. ASSUME NEW i \in 1 .. N PROVE ReturnsAs(m, m.il[i], ss[i])
  <2>1. ReturnsAs(m, m.il[i], Returns(m.void, m.il[i]))
    BY <1>1, ReturnsIs
  <2> HIDE DEF ss
  <2> QED
    BY <1>2, <2>1
<1>4. ss \in Seq(Seq(Instrs)) /\ Len(ss) = N /\ Len(ss) > 0
  <2>1. ss = [i \in 1 .. N |-> ss[i]]
    BY <1>1 DEF Bodies
  <2> HIDE DEF ss
  <2>2. PICK R : R = Seq(Instrs)
    OBVIOUS
  <2>3. \A i \in 1 .. N : ss[i] \in R
    BY <1>3, <2>2 DEF ReturnsAs
  <2>4. ss \in [1 .. N -> R]
    BY <2>1, <2>3
  <2>5. ss \in Seq(R) /\ Len(ss) = N
    <3> HIDE DEF N
    <3> QED
      BY <1>1, <2>4
  <2> QED
    BY <1>1, <2>2, <2>5
<1> HIDE DEF ss
<1>5. PICK e \in [0 .. Len(ss) -> Nat] :
         /\ e[0] = 0
         /\ e[Len(ss)] = Len(FlattenSeq(ss))
         /\ \A i \in 1 .. Len(ss) :
              /\ e[i] = e[i - 1] + Len(ss[i])
              /\ \A k \in 1 .. Len(ss[i]) : FlattenSeq(ss)[e[i - 1] + k] = ss[i][k]
         /\ \A k \in 1 .. Len(FlattenSeq(ss)) :
              \E i \in 1 .. Len(ss) : e[i - 1] < k /\ k <= e[i]
  BY <1>4, FlattenShape, Zenon
<1>6. FlattenSeq(ss) \in Seq(Instrs)
  BY <1>4, FlattenShape
<1>7. PICK F : F = FlattenSeq(ss)
  OBVIOUS
<1>8. /\ e \in [0 .. N -> Nat] /\ e[0] = 0 /\ e[N] = Len(F) /\ F \in Seq(Instrs)
      /\ \A k \in 1 .. Len(F) : \E i \in 1 .. N : e[i - 1] < k /\ k <= e[i]
  BY <1>4, <1>5, <1>6, <1>7, Zenon
<1>9. \A i \in 1 .. N : e[i] = e[i - 1] + Len(ss[i]) /\ e[i] \in Nat /\ e[i - 1] \in Nat
  <2>1. \A i \in 1 .. N : e[i] = e[i - 1] + Len(ss[i])
    BY <1>4, <1>5, Zenon
  <2>2. \A i \in 1 .. N : i \in 0 .. N /\ i - 1 \in 0 .. N
    <3> HIDE DEF N
    <3> QED
      BY <1>1
  <2>3. \A i \in 0 .. N : e[i] \in Nat
    BY <1>8
  <2> QED
    BY <2>1, <2>2, <2>3, Zenon
<1>10. \A i \in 1 .. N : \A k \in 1 .. Len(ss[i]) : F[e[i - 1] + k] = ss[i][k]
  BY <1>4, <1>5, <1>7, Zenon
<1>11. ASSUME NEW i \in 1 .. N
       PROVE  /\ m.il[i].op # "ret" => e[i] = e[i - 1] + 1 /\ F[e[i]] = m.il[i]
              /\ m.il[i].op = "ret" /\ m.void =>
                   e[i] = e[i - 1] + 1 /\ F[e[i]] = LeaveS(m.il[i].id, Added + 20)
              /\ m.il[i].op = "ret" /\ ~m.void =>
                   /\ e[i] = e[i - 1] + 2
                   /\ F[e[i - 1] + 1] = Instr(Added + (100 + m.il[i].id), "stret", 2)
                   /\ F[e[i]] = LeaveS(m.il[i].id, Added + 19)
  <2>1. CASE Len(ss[i]) = 1
    <3>0. e[i] = e[i - 1] + Len(ss[i])
      BY <1>9
    <3>1. 1 \in 1 .. Len(ss[i]) /\ e[i] = e[i - 1] + 1
      BY <2>1, <3>0
    <3>2. F[e[i]] = ss[i][1]
      BY <3>1, <1>10
    <3> QED
      BY <3>1, <3>2, <1>3, <2>1 DEF ReturnsAs
  <2>2. CASE Len(ss[i]) = 2
    <3>0. e[i] = e[i - 1] + Len(ss[i])
      BY <1>9
    <3>1. 1 \in 1 .. Len(ss[i]) /\ 2 \in 1 .. Len(ss[i]) /\ e[i] = e[i - 1] + 2
      BY <2>2, <3>0
    <3>2. F[e[i]] = ss[i][2] /\ F[e[i - 1] + 1] = ss[i][1]
      BY <3>1, <1>10
    <3>3. \A a : OwnId(a) => Added + 100 + a = Added + (100 + a)
      BY DEF Added, OwnId
    <3>4. Added + 100 + m.il[i].id = Added + (100 + m.il[i].id)
      BY <3>3, <1>3, Zenon DEF ReturnsAs
    <3> QED
      BY <3>1, <3>2, <3>4, <1>3, <2>2 DEF ReturnsAs
  <2>3. Len(ss[i]) = 1 \/ Len(ss[i]) = 2
    BY <1>3 DEF ReturnsAs
  <2> QED
    BY <2>1, <2>2, <2>3
<1>12. BodyAt(m, F, e)
  BY <1>8, <1>11 DEF BodyAt
<1> QED
  BY <1>7, <1>12 DEF ss

\* The instruction at place k of the body: instruction i, or the store in front of it
Own(m, F, e, k, i) == k = e[i] /\ F[k].id = m.il[i].id
Store(m, F, e, k, i) ==
    /\ k = e[i - 1] + 1 /\ k = e[i] - 1 /\ m.il[i].op = "ret" /\ ~m.void
    /\ F[k] = Instr(Added + (100 + m.il[i].id), "stret", 2)
    /\ F[k].id = Added + (100 + m.il[i].id)

\* Identities of the stores
StoreId(a) == a \in Nat /\ a > Added + 100

\* Every place of the rewritten instructions holds an instruction of the method or a store.
LEMMA BodyFacts ==
    ASSUME NEW m \in Methods, NEW F, NEW e, BodyAt(m, F, e)
    PROVE  /\ \A i, j \in 0 .. Len(m.il) : i < j => e[i] < e[j]
           /\ Len(m.il) <= Len(F)
           /\ \A i \in 1 .. Len(m.il) : e[i] \in 1 .. Len(F) /\ F[e[i]].id = m.il[i].id
           /\ \A k \in 1 .. Len(F) :
                \E i \in 1 .. Len(m.il) : Own(m, F, e, k, i) \/ Store(m, F, e, k, i)
<1> DEFINE N == Len(m.il)
<1>0. N \in Nat /\ N > 0 /\ m.void \in BOOLEAN /\ F \in Seq(Instrs) /\ Len(F) \in Nat
      /\ e \in [0 .. N -> Nat] /\ e[0] = 0 /\ e[N] = Len(F)
  BY MethodIs DEF BodyAt
<1>1. ASSUME NEW i \in 1 .. N
      PROVE  /\ m.il[i].id \in Nat
             /\ e[i] \in Nat /\ e[i - 1] \in Nat
             /\ F[e[i]].id = m.il[i].id
             /\ e[i] = e[i - 1] + 1
                \/ (e[i] = e[i - 1] + 2 /\ m.il[i].op = "ret" /\ ~m.void
                     /\ F[e[i - 1] + 1] = Instr(Added + (100 + m.il[i].id), "stret", 2))
  <2>1. m.il[i].id \in Nat
    <3>1. m.il \in Seq(Instrs)
      BY MethodIs DEF WellFormed
    <3>2. m.il[i] \in Instrs
      BY <1>0, <3>1
    <3> QED
      BY <3>2 DEF Instrs
  <2>2. LeaveS(m.il[i].id, Added + 20).id = m.il[i].id
        /\ LeaveS(m.il[i].id, Added + 19).id = m.il[i].id
    <3>1. Added + 19 \in Nat /\ Added + 20 \in Nat
      BY DEF Added
    <3> QED
      BY <2>1, <3>1, LeaveSIs
  <2>3. e[i] \in Nat /\ e[i - 1] \in Nat
    BY <1>0
  <2> QED
    BY <1>0, <2>1, <2>2, <2>3 DEF BodyAt
<1>2. \A i \in 1 .. N : e[i - 1] < e[i]
  BY <1>1
<1>3. /\ \A i, j \in 0 .. N : i < j => e[i] < e[j]
      /\ \A i \in 0 .. N : i <= e[i]
  <2> HIDE DEF N
  <2> QED
    BY <1>0, <1>2, StepsGrow
<1>4. N <= Len(F)
  <2>1. N \in 0 .. N
    BY <1>0
  <2> QED
    BY <1>0, <1>3, <2>1
<1>5. ASSUME NEW i \in 1 .. N PROVE e[i] \in 1 .. Len(F) /\ F[e[i]].id = m.il[i].id
  <2>1. i \in 0 .. N /\ N \in 0 .. N /\ e[i] \in Nat /\ i <= e[i]
    BY <1>0, <1>1, <1>3
  <2>2. e[i] <= e[N]
    <3>1. CASE i = N
      BY <1>0, <3>1
    <3>2. CASE i < N
      <4>1. e[i] < e[N]
        BY <1>3, <2>1, <3>2
      <4> QED
        BY <4>1, <1>0, <2>1
    <3> QED
      BY <1>0, <3>1, <3>2
  <2> QED
    BY <1>0, <1>1, <2>1, <2>2
<1>6. ASSUME NEW k \in 1 .. Len(F)
      PROVE  \E i \in 1 .. N : Own(m, F, e, k, i) \/ Store(m, F, e, k, i)
  <2>1. PICK i \in 1 .. N : e[i - 1] < k /\ k <= e[i]
    BY DEF BodyAt
  <2>2. /\ e[i] \in Nat /\ e[i - 1] \in Nat
        /\ e[i] = e[i - 1] + 1 \/ e[i] = e[i - 1] + 2
    BY <1>1
  <2>3. k = e[i] \/ (k = e[i - 1] + 1 /\ k = e[i] - 1 /\ e[i] = e[i - 1] + 2)
    BY <1>0, <2>1, <2>2, SMTT(30)
  <2>4. CASE k = e[i]
    BY <1>1, <2>4 DEF Own
  <2>5. CASE k = e[i - 1] + 1 /\ k = e[i] - 1 /\ e[i] = e[i - 1] + 2
    <3>1. /\ m.il[i].op = "ret" /\ ~m.void
          /\ F[e[i - 1] + 1] = Instr(Added + (100 + m.il[i].id), "stret", 2)
      <4>1. e[i] # e[i - 1] + 1
        BY <2>2, <2>5
      <4> QED
        BY <4>1, <1>1
    <3>2. 100 + m.il[i].id \in Nat
      BY <1>1
    <3>3. Instr(Added + (100 + m.il[i].id), "stret", 2).id = Added + (100 + m.il[i].id)
      <4>1. \A b \in Nat : Instr(Added + b, "stret", 2).id = Added + b
        BY InstrIs, AddedOps
      <4> QED
        BY <3>2, <4>1
    <3> QED
      BY <3>1, <3>3, <2>5 DEF Store
  <2> QED
    BY <2>3, <2>4, <2>5
<1> QED
  BY <1>3, <1>4, <1>5, <1>6

\* The instructions of the body are distinct, and not those of the other two parts.
LEMMA BodyIds ==
    ASSUME NEW m \in Methods, NEW F, NEW e, BodyAt(m, F, e)
    PROVE  /\ \A k \in 1 .. Len(F) : OwnId(F[k].id) \/ StoreId(F[k].id)
           /\ \A k, l \in 1 .. Len(F) : F[k].id = F[l].id => k = l
<1> DEFINE N == Len(m.il)
<1>1. \A i \in 1 .. N : OwnId(m.il[i].id)
  <2> SUFFICES ASSUME NEW i \in 1 .. N PROVE OwnId(m.il[i].id)
    OBVIOUS
  <2>1. i \in DOMAIN m.il
    BY MethodIs
  <2> QED
    BY <2>1, ReturnsIs DEF ReturnsAs
<1>2. DistinctIds(m.il) /\ DOMAIN m.il = 1 .. N
  BY MethodIs DEF WellFormed
<1>3. \A k \in 1 .. Len(F) : \E i \in 1 .. N : Own(m, F, e, k, i) \/ Store(m, F, e, k, i)
  BY BodyFacts
<1>4. \A a : OwnId(a) => StoreId(Added + (100 + a))
  BY DEF Added, OwnId, StoreId
<1>5. \A k, i : Store(m, F, e, k, i) /\ i \in 1 .. N => StoreId(F[k].id)
  BY <1>1, <1>4, Zenon DEF Store
<1>6. \A k, i : Own(m, F, e, k, i) /\ i \in 1 .. N => OwnId(F[k].id)
  BY <1>1 DEF Own
<1>7. \A a : OwnId(a) => ~StoreId(a)
  BY DEF Added, OwnId, StoreId
<1>8. \A a, b : OwnId(a) /\ OwnId(b) /\ Added + (100 + a) = Added + (100 + b) => a = b
  BY DEF Added, OwnId
<1>9. ASSUME NEW k \in 1 .. Len(F), NEW l \in 1 .. Len(F), F[k].id = F[l].id
      PROVE  k = l
  <2>1. PICK i \in 1 .. N : Own(m, F, e, k, i) \/ Store(m, F, e, k, i)
    BY <1>3
  <2>2. PICK j \in 1 .. N : Own(m, F, e, l, j) \/ Store(m, F, e, l, j)
    BY <1>3
  <2>3. CASE Own(m, F, e, k, i) /\ Own(m, F, e, l, j)
    BY <1>2, <1>9, <2>3 DEF Own, DistinctIds
  <2>4. CASE Store(m, F, e, k, i) /\ Store(m, F, e, l, j)
    <3>1. m.il[i].id = m.il[j].id
      <4>1. Added + (100 + m.il[i].id) = Added + (100 + m.il[j].id)
        BY <1>9, <2>4 DEF Store
      <4> QED
        BY <1>1, <1>8, <4>1, Zenon
    <3>2. i = j
      BY <1>2, <3>1 DEF DistinctIds
    <3> QED
      BY <2>4, <3>2 DEF Store
  <2>5. CASE Own(m, F, e, k, i) /\ Store(m, F, e, l, j)
    BY <1>5, <1>6, <1>7, <1>9, <2>5, Zenon
  <2>6. CASE Store(m, F, e, k, i) /\ Own(m, F, e, l, j)
    BY <1>5, <1>6, <1>7, <1>9, <2>6, Zenon
  <2> QED
    BY <2>1, <2>2, <2>3, <2>4, <2>5, <2>6
<1>10. \A k \in 1 .. Len(F) : OwnId(F[k].id) \/ StoreId(F[k].id)
  BY <1>3, <1>5, <1>6, Zenon
<1> QED
  BY <1>9, <1>10

\* The three parts of the rewritten list
Parts(L, B, F, E) ==
    /\ L \in Seq(Instrs) /\ B \in Seq(Instrs) /\ F \in Seq(Instrs) /\ E \in Seq(Instrs)
    /\ Len(B) = 6 /\ Len(L) = 6 + Len(F) + Len(E)
    /\ \A k \in 1 .. 6 : L[k] = B[k]
    /\ \A k \in 1 .. Len(F) : L[6 + k] = F[k]
    /\ \A k \in 1 .. Len(E) : L[6 + Len(F) + k] = E[k]

\* The rewritten list is its three parts, one after the other.
LEMMA PartsExist ==
    ASSUME NEW m \in Methods, NEW B, NEW F, NEW E,
           B = BeginPart(m.il[1].id), F = FlattenSeq(Bodies(m)), E = EndPart(m.void)
    PROVE  Parts(Rewriting(m), B, F, E)
<1>1. m.il[1].id \in Nat /\ m.void \in BOOLEAN
  <2>1. m.il \in Seq(Instrs) /\ Len(m.il) \in Nat \ {0} /\ m.void \in BOOLEAN
    BY MethodIs DEF WellFormed
  <2>2. m.il[1] \in Instrs
    BY <2>1
  <2> QED
    BY <2>1, <2>2 DEF Instrs
<1>2. B \in Seq(Instrs) /\ Len(B) = 6
  BY <1>1, BeginPartIs
<1>3. E \in Seq(Instrs)
  BY <1>1, EndPartIs
<1>4. F \in Seq(Instrs)
  BY BodyShape DEF BodyAt
<1>5. PICK c, L : c = B \o F /\ L = c \o E
  OBVIOUS
<1>6. L = Rewriting(m)
  BY <1>5 DEF Rewriting
<1>0. /\ c \in Seq(Instrs) /\ Len(c) = Len(B) + Len(F)
      /\ \A k \in 1 .. Len(B) : c[k] = B[k]
      /\ \A k \in 1 .. Len(F) : c[Len(B) + k] = F[k]
  <2>1. B \in Seq(Instrs) /\ F \in Seq(Instrs) /\ c = B \o F
    BY <1>2, <1>4, <1>5
  <2> QED
    BY <2>1, ConcatIs
<1>7. /\ c \in Seq(Instrs) /\ Len(c) = 6 + Len(F)
      /\ \A k \in 1 .. 6 : c[k] = B[k]
      /\ \A k \in 1 .. Len(F) : c[6 + k] = F[k]
  BY <1>0, <1>2
<1>8. /\ L \in Seq(Instrs) /\ Len(L) = Len(c) + Len(E)
      /\ \A k \in 1 .. Len(c) : L[k] = c[k]
      /\ \A k \in 1 .. Len(E) : L[Len(c) + k] = E[k]
  <2>1. c \in Seq(Instrs) /\ E \in Seq(Instrs) /\ L = c \o E
    BY <1>3, <1>5, <1>7
  <2> QED
    BY <2>1, ConcatIs, SMTT(30)
<1>9. Len(F) \in Nat
  BY <1>4
<1>10. \A k \in 1 .. 6 : L[k] = B[k]
  BY <1>7, <1>8, <1>9
<1>11. \A k \in 1 .. Len(F) : L[6 + k] = F[k]
  <2> SUFFICES ASSUME NEW k \in 1 .. Len(F) PROVE L[6 + k] = F[k]
    OBVIOUS
  <2>1. 6 + k \in 1 .. Len(c)
    BY <1>7, <1>9
  <2> QED
    BY <2>1, <1>7, <1>8
<1>12. Len(L) = 6 + Len(F) + Len(E) /\ \A k \in 1 .. Len(E) : L[6 + Len(F) + k] = E[k]
  BY <1>7, <1>8
<1> QED
  BY <1>2, <1>3, <1>4, <1>6, <1>8, <1>10, <1>11, <1>12 DEF Parts

\* The first part is at the places 1 to 6.
LEMMA RewritingBegins ==
    ASSUME NEW m \in Methods, NEW L, NEW B, NEW F, NEW E, Parts(L, B, F, E),
           B = BeginPart(m.il[1].id)
    PROVE  /\ BeginAt(m, L)
           /\ \A k \in 1 .. 6 : L[k].id = Added + k /\ (L[k].target = None => L[k].size > 0)
                                 /\ (L[k].target = None \/ L[k].target = m.il[1].id)
<1>1. PICK first \in Nat : first = m.il[1].id
  <2>1. m.il \in Seq(Instrs) /\ Len(m.il) \in Nat \ {0}
    BY MethodIs DEF WellFormed
  <2>2. m.il[1] \in Instrs
    BY <2>1
  <2> QED
    BY <2>1, <2>2 DEF Instrs
<1>2. /\ IsAdded(B[1], 1, "init") /\ IsAdded(B[2], 2, "begin") /\ IsAdded(B[3], 3, "nop")
      /\ IsLeave(B[4], 4, first) /\ IsAdded(B[5], 5, "log") /\ IsLeave(B[6], 6, first)
  BY <1>1, BeginPartIs
<1>3. first # None
  BY CallTargetAssumption
<1>7. L[1] = B[1] /\ L[2] = B[2] /\ L[3] = B[3] /\ L[4] = B[4] /\ L[5] = B[5] /\ L[6] = B[6]
      /\ 1 \in DOMAIN L /\ 2 \in DOMAIN L /\ 3 \in DOMAIN L /\ 4 \in DOMAIN L /\ 5 \in DOMAIN L
      /\ 6 \in DOMAIN L
  BY DEF Parts
<1>8. /\ IsAdded(L[1], 1, "init") /\ IsAdded(L[2], 2, "begin") /\ IsAdded(L[3], 3, "nop")
      /\ IsLeave(L[4], 4, first) /\ IsAdded(L[5], 5, "log") /\ IsLeave(L[6], 6, first)
  BY <1>2, <1>7
<1>17. BeginAt(m, L)
  BY <1>1, <1>7, <1>8 DEF BeginAt, AddedAt, IsAdded, IsLeave
<1>18. ASSUME NEW k \in 1 .. 6
       PROVE  L[k].id = Added + k /\ (L[k].target = None => L[k].size > 0)
                /\ (L[k].target = None \/ L[k].target = m.il[1].id)
  <2>1. k = 1 \/ k = 2 \/ k = 3 \/ k = 4 \/ k = 5 \/ k = 6
    OBVIOUS
  <2> QED
    BY <1>1, <1>3, <1>8, <2>1 DEF IsAdded, IsLeave
<1> QED
  BY <1>17, <1>18

\* The identities of the last part are distinct, and its branches stay in it.
LEMMA EndIds ==
    ASSUME NEW E, EndVoid(E) \/ EndValue(E)
    PROVE  /\ \A k \in 1 .. Len(E) :
                /\ E[k].id \in Nat /\ E[k].id > Added + 10 /\ E[k].id < Added + 100
                /\ E[k].target = None => E[k].size > 0
                /\ E[k].target # None => \E l \in 1 .. Len(E) : E[l].id = E[k].target
           /\ \A k, l \in 1 .. Len(E) : E[k].id = E[l].id => k = l
<1>0. None \notin Nat
  BY CallTargetAssumption
<1>1. CASE EndVoid(E)
  <2>1. /\ Len(E) = 8
        /\ E[1].id = 1011 /\ E[2].id = 1012 /\ E[3].id = 1013 /\ E[4].id = 1015
        /\ E[5].id = 1016 /\ E[6].id = 1018 /\ E[7].id = 1017 /\ E[8].id = 1020
    BY <1>1 DEF EndVoid, IsAdded, IsLeave, Added
  <2>2. \A k \in 1 .. 8 : k = 1 \/ k = 2 \/ k = 3 \/ k = 4 \/ k = 5 \/ k = 6 \/ k = 7 \/ k = 8
    OBVIOUS
  <2>3. \A k, l \in 1 .. Len(E) : E[k].id = E[l].id => k = l
    BY <2>1, <2>2
  <2>4. \A k \in 1 .. Len(E) : E[k].id \in Nat /\ E[k].id > Added + 10 /\ E[k].id < Added + 100
    BY <2>1, <2>2 DEF Added
  <2>5. \A k \in 1 .. 8 : E[k].target = None => E[k].size > 0
    BY <1>0, <1>1, <2>2 DEF EndVoid, IsAdded, IsLeave, Added
  <2>6. \A k \in 1 .. 8 : E[k].target # None => E[7].id = E[k].target
    BY <1>0, <1>1, <2>2 DEF EndVoid, IsAdded, IsLeave, Added
  <2>7. 7 \in 1 .. Len(E)
    BY <2>1
  <2> QED
    BY <2>1, <2>3, <2>4, <2>5, <2>6, <2>7
<1>2. CASE EndValue(E)
  <2>1. /\ Len(E) = 10
        /\ E[1].id = 1011 /\ E[2].id = 1012 /\ E[3].id = 1013 /\ E[4].id = 1014
        /\ E[5].id = 1015 /\ E[6].id = 1016 /\ E[7].id = 1018 /\ E[8].id = 1017
        /\ E[9].id = 1019 /\ E[10].id = 1020
    BY <1>2 DEF EndValue, IsAdded, IsLeave, Added
  <2>2. \A k \in 1 .. 10 : k = 1 \/ k = 2 \/ k = 3 \/ k = 4 \/ k = 5 \/ k = 6 \/ k = 7 \/ k = 8
                           \/ k = 9 \/ k = 10
    OBVIOUS
  <2>3. \A k, l \in 1 .. Len(E) : E[k].id = E[l].id => k = l
    BY <2>1, <2>2
  <2>4. \A k \in 1 .. Len(E) : E[k].id \in Nat /\ E[k].id > Added + 10 /\ E[k].id < Added + 100
    BY <2>1, <2>2 DEF Added
  <2>5. \A k \in 1 .. 10 : E[k].target = None => E[k].size > 0
    BY <1>0, <1>2, <2>2 DEF EndValue, IsAdded, IsLeave, Added
  <2>6. \A k \in 1 .. 10 : E[k].target # None => E[8].id = E[k].target
    BY <1>0, <1>2, <2>2 DEF EndValue, IsAdded, IsLeave, Added
  <2>7. 8 \in 1 .. Len(E)
    BY <2>1
  <2> QED
    BY <2>1, <2>3, <2>4, <2>5, <2>6, <2>7
<1> QED
  BY <1>1, <1>2

\* The last part is behind the instructions of the method.
LEMMA RewritingEnds ==
    ASSUME NEW m \in Methods, NEW L, NEW B, NEW F, NEW E, Parts(L, B, F, E),
           E = EndPart(m.void)
    PROVE  \E d \in 0 .. 1 : EndAt(m, L, Len(F) + 7, d)
<1>1. m.void \in BOOLEAN /\ Len(F) \in Nat /\ Len(L) = 6 + Len(F) + Len(E) /\ DOMAIN L = 1 .. Len(L)
  BY MethodIs DEF Parts
<1>2. (m.void => EndVoid(E)) /\ (~m.void => EndValue(E))
  BY <1>1, EndPartIs
<1>3. \A k \in 1 .. Len(E) : L[6 + Len(F) + k] = E[k]
  BY DEF Parts
<1>6. \A k \in 1 .. Len(E) :
         /\ \A id, op : IsAdded(E[k], id, op) => AddedAt(L, 6 + Len(F) + k, id, op, None)
         /\ \A id, target : IsLeave(E[k], id, target) =>
               AddedAt(L, 6 + Len(F) + k, id, "leave", target)
  <2> SUFFICES ASSUME NEW k \in 1 .. Len(E)
               PROVE  /\ \A id, op : IsAdded(E[k], id, op) => AddedAt(L, 6 + Len(F) + k, id, op, None)
                      /\ \A id, target : IsLeave(E[k], id, target) =>
                            AddedAt(L, 6 + Len(F) + k, id, "leave", target)
    OBVIOUS
  <2>0. Len(E) \in Nat
    BY DEF Parts
  <2>1. 6 + Len(F) + k \in DOMAIN L /\ L[6 + Len(F) + k] = E[k]
    BY <1>1, <1>3, <2>0
  <2> QED
    BY <2>1 DEF AddedAt, IsAdded, IsLeave
<1>4. CASE m.void
  <2>1. Len(E) = 8 /\ EndVoid(E)
    BY <1>2, <1>4 DEF EndVoid
  <2>2. /\ Len(F) + 7 = 6 + Len(F) + 1
        /\ Len(F) + 7 + 1 = 6 + Len(F) + 2
        /\ Len(F) + 7 + 2 = 6 + Len(F) + 3
        /\ Len(F) + 7 + 3 + 0 = 6 + Len(F) + 4
        /\ Len(F) + 7 + 4 + 0 = 6 + Len(F) + 5
        /\ Len(F) + 7 + 5 + 0 = 6 + Len(F) + 6
        /\ Len(F) + 7 + 6 + 0 = 6 + Len(F) + 7
        /\ Len(F) + 7 + 7 + 0 + 0 = 6 + Len(F) + 8
    BY <1>1
  <2>3. /\ AddedAt(L, 6 + Len(F) + 1, 11, "stexc", None)
        /\ AddedAt(L, 6 + Len(F) + 2, 12, "rethrow", None)
        /\ AddedAt(L, 6 + Len(F) + 3, 13, "end", None)
        /\ AddedAt(L, 6 + Len(F) + 4, 15, "leave", Added + 17)
        /\ AddedAt(L, 6 + Len(F) + 5, 16, "log", None)
        /\ AddedAt(L, 6 + Len(F) + 6, 18, "leave", Added + 17)
        /\ AddedAt(L, 6 + Len(F) + 7, 17, "endfinally", None)
        /\ AddedAt(L, 6 + Len(F) + 8, 20, "ret", None)
    <3>1. 1 \in 1 .. Len(E) /\ 2 \in 1 .. Len(E) /\ 3 \in 1 .. Len(E) /\ 4 \in 1 .. Len(E) /\ 5 \in 1 .. Len(E)
          /\ 6 \in 1 .. Len(E) /\ 7 \in 1 .. Len(E) /\ 8 \in 1 .. Len(E)
      BY <2>1
    <3> QED
      BY <1>6, <2>1, <3>1 DEF EndVoid
  <2>4. EndAt(m, L, Len(F) + 7, 0)
    BY <1>4, <2>2, <2>3 DEF EndAt
  <2> QED
    BY <2>4
<1>5. CASE ~m.void
  <2>1. Len(E) = 10 /\ EndValue(E)
    BY <1>2, <1>5 DEF EndValue
  <2>2. /\ Len(F) + 7 = 6 + Len(F) + 1
        /\ Len(F) + 7 + 1 = 6 + Len(F) + 2
        /\ Len(F) + 7 + 2 = 6 + Len(F) + 3
        /\ Len(F) + 7 + 3 = 6 + Len(F) + 4
        /\ Len(F) + 7 + 3 + 1 = 6 + Len(F) + 5
        /\ Len(F) + 7 + 4 + 1 = 6 + Len(F) + 6
        /\ Len(F) + 7 + 5 + 1 = 6 + Len(F) + 7
        /\ Len(F) + 7 + 6 + 1 = 6 + Len(F) + 8
        /\ Len(F) + 7 + 7 + 1 = 6 + Len(F) + 9
        /\ Len(F) + 7 + 7 + 1 + 1 = 6 + Len(F) + 10
    BY <1>1
  <2>3. /\ AddedAt(L, 6 + Len(F) + 1, 11, "stexc", None)
        /\ AddedAt(L, 6 + Len(F) + 2, 12, "rethrow", None)
        /\ AddedAt(L, 6 + Len(F) + 3, 13, "end", None)
        /\ AddedAt(L, 6 + Len(F) + 4, 14, "stret", None)
        /\ AddedAt(L, 6 + Len(F) + 5, 15, "leave", Added + 17)
        /\ AddedAt(L, 6 + Len(F) + 6, 16, "log", None)
        /\ AddedAt(L, 6 + Len(F) + 7, 18, "leave", Added + 17)
        /\ AddedAt(L, 6 + Len(F) + 8, 17, "endfinally", None)
        /\ AddedAt(L, 6 + Len(F) + 9, 19, "ldret", None)
        /\ AddedAt(L, 6 + Len(F) + 10, 20, "ret", None)
    <3>1. 1 \in 1 .. Len(E) /\ 2 \in 1 .. Len(E) /\ 3 \in 1 .. Len(E) /\ 4 \in 1 .. Len(E) /\ 5 \in 1 .. Len(E)
          /\ 6 \in 1 .. Len(E) /\ 7 \in 1 .. Len(E) /\ 8 \in 1 .. Len(E) /\ 9 \in 1 .. Len(E) /\ 10 \in 1 .. Len(E)
      BY <2>1
    <3> QED
      BY <1>6, <2>1, <3>1 DEF EndValue
  <2>4. EndAt(m, L, Len(F) + 7, 1)
    BY <1>5, <2>2, <2>3 DEF EndAt
  <2> QED
    BY <2>4
<1> QED
  BY <1>4, <1>5

\* The instructions of the method are between the two, in their order.
LEMMA RewritingPlaced ==
    ASSUME NEW m \in Methods, NEW L, NEW B, NEW F, NEW E, NEW e, Parts(L, B, F, E),
           BodyAt(m, F, e)
    PROVE  Placed(m, L, [i \in DOMAIN m.il |-> 6 + e[i]], [i \in DOMAIN m.il |-> 7 + e[i - 1]],
                  Len(F))
<1> DEFINE N == Len(m.il)
           at == [i \in DOMAIN m.il |-> 6 + e[i]]
           from == [i \in DOMAIN m.il |-> 7 + e[i - 1]]
<1>0. /\ N \in Nat /\ N > 0 /\ DOMAIN m.il = 1 .. N /\ m.void \in BOOLEAN
      /\ Len(F) \in Nat /\ m.il \in Seq(Instrs)
  BY MethodIs DEF Parts, WellFormed
<1>1. /\ \A i, j \in 0 .. N : i < j => e[i] < e[j]
      /\ \A i \in 1 .. N : e[i] \in 1 .. Len(F) /\ F[e[i]].id = m.il[i].id
  BY BodyFacts
<1>2. \A i \in 1 .. N : e[i] \in Nat /\ e[i - 1] \in Nat /\ e[i - 1] < e[i]
  <2> SUFFICES ASSUME NEW i \in 1 .. N PROVE e[i] \in Nat /\ e[i - 1] \in Nat /\ e[i - 1] < e[i]
    OBVIOUS
  <2>1. i \in 0 .. N /\ i - 1 \in 0 .. N /\ i - 1 < i
    BY <1>0
  <2>2. e \in [0 .. N -> Nat]
    BY DEF BodyAt
  <2> QED
    BY <1>1, <2>1, <2>2
<1>3. ASSUME NEW i \in 1 .. N
      PROVE  /\ at[i] = 6 + e[i] /\ at[i] \in 7 .. (6 + Len(F))
             /\ from[i] = 7 + e[i - 1] /\ from[i] \in 7 .. (6 + Len(F))
             /\ L[at[i]] = F[e[i]]
  <2>1. at[i] = 6 + e[i] /\ from[i] = 7 + e[i - 1]
    BY <1>0
  <2>2. e[i] \in 1 .. Len(F) /\ e[i - 1] \in Nat /\ e[i - 1] < e[i]
    BY <1>1, <1>2
  <2>3. L[6 + e[i]] = F[e[i]]
    BY <2>2 DEF Parts
  <2> HIDE DEF at, from
  <2> QED
    BY <1>0, <2>1, <2>2, <2>3, SMTT(30)
<1>4. at \in [DOMAIN m.il -> 7 .. (6 + Len(F))] /\ from \in [DOMAIN m.il -> 7 .. (6 + Len(F))]
  BY <1>0, <1>3
<1> HIDE DEF at, from
<1>5. ASSUME NEW i \in 1 .. N
      PROVE  /\ i + 1 \in DOMAIN m.il => from[i + 1] = at[i] + 1
             /\ \A j \in DOMAIN m.il : i < j => at[i] < at[j]
             /\ L[at[i]].id = m.il[i].id
  <2>1. ASSUME i + 1 \in DOMAIN m.il PROVE from[i + 1] = at[i] + 1
    <3>1. i + 1 \in 1 .. N /\ i + 1 - 1 = i /\ e[i] \in Nat
      BY <1>0, <1>2, <2>1
    <3>2. from[i + 1] = 7 + e[i]
      BY <1>3, <3>1
    <3> QED
      BY <1>3, <3>1, <3>2
  <2>2. ASSUME NEW j \in DOMAIN m.il, i < j PROVE at[i] < at[j]
    <3>1. j \in 1 .. N /\ e[i] \in Nat /\ e[j] \in Nat /\ i \in 0 .. N /\ j \in 0 .. N
      BY <1>0, <1>2
    <3>2. e[i] < e[j]
      BY <1>1, <2>2, <3>1
    <3>3. at[i] = 6 + e[i] /\ at[j] = 6 + e[j]
      BY <1>3, <3>1
    <3> QED
      BY <3>1, <3>2, <3>3
  <2>3. L[at[i]].id = m.il[i].id
    BY <1>1, <1>3
  <2> QED
    BY <2>1, <2>2, <2>3
<1>6. ASSUME NEW i \in 1 .. N, m.il[i].op # "ret"
      PROVE  L[at[i]] = m.il[i] /\ from[i] = at[i]
  <2>1. e[i] = e[i - 1] + 1 /\ F[e[i]] = m.il[i]
    BY <1>6 DEF BodyAt
  <2> QED
    BY <1>2, <1>3, <2>1
<1>7. \A i \in 1 .. N : m.il[i].id \in Nat
  <2> SUFFICES ASSUME NEW i \in 1 .. N PROVE m.il[i].id \in Nat
    OBVIOUS
  <2>1. m.il[i] \in Instrs
    BY <1>0
  <2> QED
    BY <2>1 DEF Instrs
<1>8. Added + 19 \in Nat /\ Added + 20 \in Nat
  BY DEF Added
<1>9. ASSUME NEW i \in 1 .. N, m.il[i].op = "ret", m.void
      PROVE  /\ L[at[i]].op = "leave" /\ L[at[i]].target = Added + 20 /\ from[i] = at[i]
  <2>1. e[i] = e[i - 1] + 1 /\ F[e[i]] = LeaveS(m.il[i].id, Added + 20)
    BY <1>9 DEF BodyAt
  <2>2. L[at[i]] = LeaveS(m.il[i].id, Added + 20)
    BY <1>3, <2>1
  <2>3. from[i] = at[i]
    BY <1>2, <1>3, <2>1
  <2> QED
    BY <1>7, <1>8, <2>2, <2>3, LeaveSIs
<1>10. ASSUME NEW i \in 1 .. N, m.il[i].op = "ret", ~m.void
       PROVE  /\ L[at[i]].op = "leave" /\ L[at[i]].target = Added + 19
              /\ from[i] = at[i] - 1 /\ L[from[i]].op = "stret" /\ L[from[i]].target = None
  <2>1. /\ e[i] = e[i - 1] + 2
        /\ F[e[i - 1] + 1] = Instr(Added + (100 + m.il[i].id), "stret", 2)
        /\ F[e[i]] = LeaveS(m.il[i].id, Added + 19)
    BY <1>10 DEF BodyAt
  <2>2. L[at[i]] = LeaveS(m.il[i].id, Added + 19)
    BY <1>3, <2>1
  <2>0. /\ at[i] = 6 + e[i] /\ from[i] = 7 + e[i - 1] /\ e[i] \in Nat /\ e[i - 1] \in Nat
        /\ e[i] = e[i - 1] + 2 /\ e[i] <= Len(F)
    <3>1. at[i] = 6 + e[i] /\ from[i] = 7 + e[i - 1]
      BY <1>3
    <3>2. e[i] \in Nat /\ e[i - 1] \in Nat
      BY <1>2
    <3>3. e[i] \in 1 .. Len(F)
      BY <1>1
    <3>4. e[i] <= Len(F)
      BY <3>3, <1>0
    <3> QED
      BY <2>1, <3>1, <3>2, <3>4
  <2>3. from[i] = at[i] - 1
    BY <2>0
  <2>4. e[i - 1] + 1 \in 1 .. Len(F) /\ from[i] = 6 + (e[i - 1] + 1)
    BY <1>0, <2>0, SMTT(30)
  <2>5. L[from[i]] = F[e[i - 1] + 1]
    BY <2>4 DEF Parts
  <2>6. \A a \in Nat : Instr(Added + (100 + a), "stret", 2).op = "stret"
                       /\ Instr(Added + (100 + a), "stret", 2).target = None
    <3>1. \A a \in Nat : 100 + a \in Nat
      OBVIOUS
    <3> QED
      BY <3>1, InstrIs, AddedOps
  <2>7. L[from[i]].op = "stret" /\ L[from[i]].target = None
    BY <1>7, <2>1, <2>5, <2>6
  <2> QED
    BY <1>7, <1>8, <2>2, <2>3, <2>7, LeaveSIs
<1> SUFFICES Placed(m, L, at, from, Len(F))
  BY DEF at, from
<1> QED
  BY <1>0, <1>4, <1>5, <1>6, <1>9, <1>10 DEF Placed

\* What the rewriter makes of a method is well formed and has the expected shape.
LEMMA RewritingShape ==
    ASSUME NEW m \in Methods
    PROVE  Shaped(m, Rewriting(m))
<1>1. PICK L, B, F, E : /\ L = Rewriting(m) /\ B = BeginPart(m.il[1].id)
                        /\ F = FlattenSeq(Bodies(m)) /\ E = EndPart(m.void)
  OBVIOUS
<1>2. Parts(L, B, F, E)
  BY <1>1, PartsExist
<1>3. PICK e : BodyAt(m, F, e)
  BY <1>1, BodyShape
<1>4. PICK at, from : Placed(m, L, at, from, Len(F))
  BY <1>2, <1>3, RewritingPlaced
<1>5. PICK d : EndAt(m, L, Len(F) + 7, d)
  BY <1>1, <1>2, RewritingEnds
<1>6. BeginAt(m, L)
  BY <1>1, <1>2, RewritingBegins
<1>0. /\ m.void \in BOOLEAN /\ Len(F) \in Nat /\ Len(E) \in Nat /\ Len(m.il) \in Nat \ {0}
      /\ L \in Seq(Instrs) /\ Len(L) = 6 + Len(F) + Len(E) /\ DOMAIN L = 1 .. Len(L)
      /\ DOMAIN m.il = 1 .. Len(m.il) /\ None \notin Nat
  BY <1>2, MethodIs DEF Parts
<1>7. \A k \in DOMAIN L : \/ k \in 1 .. 6
                          \/ \E j \in 1 .. Len(F) : k = 6 + j
                          \/ \E j \in 1 .. Len(E) : k = 6 + Len(F) + j
  <2> SUFFICES ASSUME NEW k \in DOMAIN L, k \notin 1 .. 6
               PROVE  \/ \E j \in 1 .. Len(F) : k = 6 + j
                      \/ \E j \in 1 .. Len(E) : k = 6 + Len(F) + j
    OBVIOUS
  <2>1. CASE k <= 6 + Len(F)
    <3>1. k - 6 \in 1 .. Len(F) /\ k = 6 + (k - 6)
      BY <1>0, <2>1, SMTT(30)
    <3> QED
      BY <3>1
  <2>2. CASE k > 6 + Len(F)
    <3>1. k - 6 - Len(F) \in 1 .. Len(E) /\ k = 6 + Len(F) + (k - 6 - Len(F))
      BY <1>0, <2>2, SMTT(30)
    <3> QED
      BY <3>1
  <2> QED
    BY <1>0, <2>1, <2>2
<1>8. (\A j \in 1 .. Len(F) : L[6 + j] = F[j]) /\ (\A j \in 1 .. Len(E) : L[6 + Len(F) + j] = E[j])
  BY <1>2 DEF Parts
<1>9. EndVoid(E) \/ EndValue(E)
  BY <1>0, <1>1, EndPartIs
<1>10. \A k \in 1 .. 6 : L[k].id = Added + k /\ (L[k].target = None => L[k].size > 0)
                         /\ (L[k].target = None \/ L[k].target = m.il[1].id)
  BY <1>1, <1>2, RewritingBegins
<1>11. DistinctIds(L)
  <2>1. /\ \A k \in 1 .. Len(F) : OwnId(F[k].id) \/ StoreId(F[k].id)
        /\ \A k, l \in 1 .. Len(F) : F[k].id = F[l].id => k = l
    BY <1>3, BodyIds
  <2>2. /\ \A k \in 1 .. Len(E) :
             E[k].id \in Nat /\ E[k].id > Added + 10 /\ E[k].id < Added + 100
        /\ \A k, l \in 1 .. Len(E) : E[k].id = E[l].id => k = l
    BY <1>9, EndIds
  <2> DEFINE P1(a) == a > Added /\ a < Added + 7
             P2(a) == OwnId(a) \/ StoreId(a)
             P3(a) == a > Added + 10 /\ a < Added + 100
  <2>3. \A a \in Nat : ~(P1(a) /\ P2(a)) /\ ~(P1(a) /\ P3(a)) /\ ~(P2(a) /\ P3(a))
    BY DEF Added, OwnId, StoreId
  <2>4. \A k \in 1 .. 6 : P1(L[k].id) /\ L[k].id \in Nat
    <3> SUFFICES ASSUME NEW k \in 1 .. 6 PROVE P1(L[k].id) /\ L[k].id \in Nat
      OBVIOUS
    <3>1. L[k].id = Added + k
      BY <1>10
    <3>2. Added + k \in Nat /\ Added + k > Added /\ Added + k < Added + 7
      BY DEF Added
    <3> QED
      BY <3>1, <3>2
  <2>5. \A k \in 1 .. Len(F) : P2(L[6 + k].id) /\ L[6 + k].id \in Nat
    BY <1>8, <2>1 DEF OwnId, StoreId
  <2>6. \A k \in 1 .. Len(E) : P3(L[6 + Len(F) + k].id) /\ L[6 + Len(F) + k].id \in Nat
    BY <1>8, <2>2
  <2> HIDE DEF P1, P2, P3
  <2> SUFFICES ASSUME NEW k \in DOMAIN L, NEW l \in DOMAIN L, L[k].id = L[l].id PROVE k = l
    BY DEF DistinctIds
  <2>7. CASE k \in 1 .. 6
    <3>1. P1(L[l].id) /\ L[l].id \in Nat
      BY <2>4, <2>7
    <3>2. l \in 1 .. 6
      BY <1>7, <2>3, <2>5, <2>6, <3>1
    <3>3. Added + k = Added + l
      BY <1>10, <2>7, <3>2
    <3> QED
      BY <2>7, <3>2, <3>3 DEF Added
  <2>8. ASSUME NEW j \in 1 .. Len(F), k = 6 + j PROVE k = l
    <3>1. P2(L[l].id) /\ L[l].id \in Nat
      BY <2>5, <2>8
    <3>2. PICK i \in 1 .. Len(F) : l = 6 + i
      BY <1>7, <2>3, <2>4, <2>6, <3>1
    <3>3. F[j].id = F[i].id
      BY <1>8, <2>8, <3>2
    <3> QED
      BY <2>1, <2>8, <3>2, <3>3
  <2>9. ASSUME NEW j \in 1 .. Len(E), k = 6 + Len(F) + j PROVE k = l
    <3>1. P3(L[l].id) /\ L[l].id \in Nat
      BY <2>6, <2>9
    <3>2. PICK i \in 1 .. Len(E) : l = 6 + Len(F) + i
      BY <1>7, <2>3, <2>4, <2>5, <3>1
    <3>3. E[j].id = E[i].id
      BY <1>8, <2>9, <3>2
    <3> QED
      BY <2>2, <2>9, <3>2, <3>3
  <2> QED
    BY <1>7, <2>7, <2>8, <2>9
<1> DEFINE Reaches(k) == \E j \in DOMAIN L : L[j].id = L[k].target
           Fine(k) == (~IsBranch(L[k]) => L[k].size > 0) /\ (IsBranch(L[k]) => Reaches(k))
<1>12. \A i \in DOMAIN m.il : \E j \in DOMAIN L : L[j].id = m.il[i].id
  <2> SUFFICES ASSUME NEW i \in DOMAIN m.il PROVE \E j \in DOMAIN L : L[j].id = m.il[i].id
    OBVIOUS
  <2>1. at[i] \in 7 .. (6 + Len(F)) /\ L[at[i]].id = m.il[i].id
    BY <1>4 DEF Placed
  <2>2. at[i] \in DOMAIN L
    BY <1>0, <2>1
  <2> QED
    BY <2>1, <2>2
<1>13. ASSUME NEW k \in 1 .. 6 PROVE Fine(k)
  <2>1. 1 \in DOMAIN m.il
    BY <1>0
  <2> QED
    BY <1>10, <1>12, <2>1 DEF IsBranch
<1>14. ASSUME NEW j \in 1 .. Len(E) PROVE Fine(6 + Len(F) + j)
  <2>1. /\ E[j].target = None => E[j].size > 0
        /\ E[j].target # None => \E l \in 1 .. Len(E) : E[l].id = E[j].target
    BY <1>9, EndIds
  <2>2. \A l \in 1 .. Len(E) : 6 + Len(F) + l \in DOMAIN L /\ L[6 + Len(F) + l] = E[l]
    BY <1>0, <1>8
  <2>3. L[6 + Len(F) + j] = E[j]
    BY <1>8
  <2> QED
    BY <2>1, <2>2, <2>3 DEF IsBranch
<1>15. ASSUME NEW j \in 1 .. Len(F) PROVE Fine(6 + j)
  <2>1. PICK i \in 1 .. Len(m.il) : Own(m, F, e, j, i) \/ Store(m, F, e, j, i)
    BY <1>3, BodyFacts
  <2>2. L[6 + j] = F[j]
    BY <1>8
  <2>3. m.il \in Seq(Instrs) /\ Sized(m.il)
        /\ \A x \in DOMAIN m.il : IsBranch(m.il[x]) =>
              \E y \in DOMAIN m.il : m.il[y].id = m.il[x].target
    BY MethodIs DEF WellFormed
  <2>4. m.il[i].id \in Nat
    <3>1. m.il[i] \in Instrs
      BY <2>3
    <3> QED
      BY <3>1 DEF Instrs
  <2>5. CASE Store(m, F, e, j, i)
    <3>1. F[j] = Instr(Added + (100 + m.il[i].id), "stret", 2)
      BY <2>5 DEF Store
    <3>2. \A a \in Nat : Instr(Added + (100 + a), "stret", 2).size = 2
                         /\ Instr(Added + (100 + a), "stret", 2).target = None
      BY DEF Instr
    <3>3. F[j].size = 2 /\ F[j].target = None
      BY <2>4, <3>1, <3>2
    <3> QED
      BY <2>2, <3>3 DEF IsBranch
  <2>6. CASE Own(m, F, e, j, i) /\ m.il[i].op # "ret"
    <3>1. F[j] = m.il[i]
      BY <1>3, <2>6 DEF BodyAt, Own
    <3>2. i \in DOMAIN m.il
      BY <1>0
    <3> QED
      BY <1>12, <2>2, <2>3, <3>1, <3>2 DEF Sized
  <2>7. CASE Own(m, F, e, j, i) /\ m.il[i].op = "ret"
    <3>1. /\ m.void => F[j] = LeaveS(m.il[i].id, Added + 20)
          /\ ~m.void => F[j] = LeaveS(m.il[i].id, Added + 19)
      BY <1>3, <2>7 DEF BodyAt, Own
    <3>2. Added + 19 \in Nat /\ Added + 20 \in Nat
      BY DEF Added
    <3>3. (m.void => F[j].target = Added + 20) /\ (~m.void => F[j].target = Added + 19)
      BY <2>4, <3>1, <3>2, LeaveSIs, SMTT(30)
    <3>4. PICK l : AddedAt(L, l, 20, "ret", None)
      BY <1>5 DEF EndAt
    <3>5. ~m.void => \E x : AddedAt(L, x, 19, "ldret", None)
      BY <1>5 DEF EndAt
    <3>6. \E x \in DOMAIN L : L[x].id = F[j].target
      BY <3>3, <3>4, <3>5 DEF AddedAt
    <3>7. IsBranch(L[6 + j])
      BY <1>0, <2>2, <3>2, <3>3 DEF IsBranch
    <3> QED
      BY <2>2, <3>6, <3>7
  <2> QED
    BY <2>1, <2>5, <2>6, <2>7
<1>16. \A k \in DOMAIN L : Fine(k)
  <2> HIDE DEF Fine
  <2> QED
    BY <1>7, <1>13, <1>14, <1>15
<1>17. WellFormed(L)
  BY <1>0, <1>11, <1>16 DEF WellFormed, Sized
<1>18. Len(L) > Len(m.il)
  <2>1. Len(m.il) <= Len(F)
    BY <1>3, BodyFacts
  <2> QED
    BY <1>0, <2>1
<1>19. Shape(m, L, at, from, Len(F), d)
  BY <1>4, <1>5, <1>6, <1>17, <1>18 DEF Shape
<1> QED
  BY <1>1, <1>19 DEF Shaped

-----------------------------------------------------------------------------
(* The list during the program *)

\* A method as written, or as the rewriter and Export have made it
Listed ==
    /\ m_offset = Offsets(il)
    /\ TooFar(il, m_offset) = {}
    /\ \/ il = method.il /\ clauses = method.clauses
       \/ Shaped(method, il) /\ clauses = NewClauses(method.clauses)

\* In every phase: the list is the method as written, or shaped by the rewriter.
ListInv ==
    /\ phase \in {"original", "rewrite", "export", "rewritten", "done"}
    /\ method \in Methods
    /\ WellFormed(il)
    /\ m_offset \in [DOMAIN m_offset -> Nat]
    /\ phase \in {"original", "rewrite"} => il = method.il /\ clauses = method.clauses
    /\ phase = "export" => Shaped(method, il) /\ clauses = NewClauses(method.clauses)
    /\ phase # "export" => Listed

\* The list at the start is the method's.
LEMMA ListInit == Init => ListInv
<1> SUFFICES ASSUME Init PROVE ListInv
  OBVIOUS
<1>1. /\ phase = "original" /\ method \in Methods /\ il = method.il /\ m_offset = Offsets(il)
      /\ clauses = method.clauses
  BY DEF Init
<1>2. WellFormed(il) /\ TooFar(il, m_offset) = {}
  BY <1>1, MethodIs
<1>3. Offsets(il) \in [1 .. (Len(il) + 1) -> Nat]
  BY <1>2, OffsetsAre DEF WellFormed
<1>4. m_offset \in [DOMAIN m_offset -> Nat]
  BY <1>1, <1>3
<1> QED
  BY <1>1, <1>2, <1>4 DEF ListInv, Listed

\* What Export replaces makes branches longer only.
LEMMA WidenIs ==
    ASSUME NEW list, WellFormed(list), NEW offset
    PROVE  /\ Like(Widen(list, offset), list)
           /\ TooFar(list, offset) = {} => Widen(list, offset) = list
           /\ WellFormed(Widen(list, offset))
<1> DEFINE far == TooFar(list, offset)
           wide == [i \in DOMAIN list |->
                      IF i \in far THEN [list[i] EXCEPT !.short = FALSE] ELSE list[i]]
<1>1. Widen(list, offset) = wide
  BY DEF Widen
<1> HIDE DEF far
<1>2. list \in Seq(Instrs) /\ Len(list) \in Nat /\ DOMAIN list = 1 .. Len(list)
  BY DEF WellFormed
<1>3. ASSUME NEW i \in DOMAIN list
      PROVE  /\ wide[i] \in Instrs
             /\ wide[i].id = list[i].id /\ wide[i].op = list[i].op
             /\ wide[i].target = list[i].target /\ wide[i].size = list[i].size
             /\ wide[i].value = list[i].value
  <2>1. list[i] \in Instrs
    BY <1>2
  <2>2. PICK x : x = list[i]
    OBVIOUS
  <2>3. wide[i] = x \/ wide[i] = [x EXCEPT !.short = FALSE]
    BY <2>2
  <2>4. \A y \in Instrs :
           LET z == [y EXCEPT !.short = FALSE]
           IN  z \in Instrs /\ z.id = y.id /\ z.op = y.op /\ z.target = y.target
               /\ z.size = y.size /\ z.value = y.value
    BY DEF Instrs
  <2> QED
    BY <2>1, <2>2, <2>3, <2>4
<1>4. wide = [i \in 1 .. Len(list) |-> wide[i]]
  BY <1>2
<1>5. far = {} => wide = list
  <2> SUFFICES ASSUME far = {} PROVE wide = list
    OBVIOUS
  <2>1. \A i \in 1 .. Len(list) : wide[i] = list[i]
    BY <1>2
  <2>2. list = [i \in 1 .. Len(list) |-> list[i]]
    BY <1>2
  <2> HIDE DEF wide
  <2> QED
    BY <1>4, <2>1, <2>2
<1> HIDE DEF wide
<1>6. wide \in Seq(Instrs) /\ Len(wide) = Len(list)
  BY <1>2, <1>3, <1>4
<1>7. Like(wide, list)
  BY <1>2, <1>3, <1>6 DEF Like
<1>8. WellFormed(wide)
  <2>1. DOMAIN wide = DOMAIN list
    BY <1>2, <1>6
  <2>2. Sized(wide)
    BY <1>3, <2>1 DEF Sized, WellFormed, IsBranch
  <2>3. DistinctIds(wide)
    BY <1>3, <2>1 DEF DistinctIds, WellFormed
  <2>4. \A i \in DOMAIN wide : IsBranch(wide[i]) =>
          \E j \in DOMAIN wide : wide[j].id = wide[i].target
    BY <1>3, <2>1 DEF WellFormed, IsBranch
  <2> QED
    BY <1>6, <2>2, <2>3, <2>4 DEF WellFormed
<1> QED
  BY <1>1, <1>5, <1>7, <1>8 DEF far

\* The actions of the run keep the list.
RunStep ==
    /\ UNCHANGED listVars
    /\ \/ phase \in {"original", "rewritten"} /\ phase' = phase
       \/ phase = "original" /\ phase' = "rewrite"
       \/ phase = "rewritten" /\ phase' = "done"

\* The method ends: the first run with the rewriter, the second with the end.
LEMMA FinishStep ==
    ASSUME NEW how, Finish(how)
    PROVE  \/ phase = "original" /\ phase' = "rewrite"
           \/ phase = "rewritten" /\ phase' = "done"
  BY DEF Finish

\* An exception stays in the run or ends it.
LEMMA RaiseStep ==
    ASSUME NEW e, NEW at, NEW from, Raise(e, at, from)
    PROVE  \/ phase' = phase
           \/ phase = "original" /\ phase' = "rewrite"
           \/ phase = "rewritten" /\ phase' = "done"
<1>1. (\E how : Finish(how)) \/ phase' = phase
  BY DEF Raise
<1> QED
  BY <1>1, FinishStep

\* Every step is one of the rewriter or one of the run.
LEMMA RunSteps ==
    ASSUME Next
    PROVE  Skip \/ Rewrite \/ Export \/ RunStep
<1> USE DEF Op, Running, RunStep, listVars
<1>1. ASSUME Straight PROVE RunStep
  BY <1>1 DEF Straight
<1>2. ASSUME Branch PROVE RunStep
  BY <1>2 DEF Branch
<1>3. ASSUME Call PROVE RunStep
  <2>1. (\E e, at, from : Raise(e, at, from)) \/ phase' = phase
    BY <1>3 DEF Call
  <2> QED
    BY <1>3, <2>1, RaiseStep DEF Call
<1>4. ASSUME Leave PROVE RunStep
  BY <1>4 DEF Leave, LeaveTo
<1>5. ASSUME EndFinally PROVE RunStep
  <2>1. (\E e, at, from : Raise(e, at, from)) \/ phase' = phase
    BY <1>5 DEF EndFinally, LeaveTo
  <2> QED
    BY <1>5, <2>1, RaiseStep, SMTT(30) DEF EndFinally
<1>6. ASSUME Rethrow PROVE RunStep
  <2>1. \E e, at, from : Raise(e, at, from)
    BY <1>6 DEF Rethrow
  <2> QED
    BY <1>6, <2>1, RaiseStep DEF Rethrow
<1>7. ASSUME Return PROVE RunStep
  <2>1. \E how : Finish(how)
    BY <1>7 DEF Return
  <2> QED
    BY <1>7, <2>1, FinishStep DEF Return
<1>8. ASSUME AddedStraight PROVE RunStep
  BY <1>8 DEF AddedStraight
<1>9. ASSUME BeginMethod PROVE RunStep
  <2>1. (\E e, at, from : Raise(e, at, from)) \/ phase' = phase
    BY <1>9 DEF BeginMethod
  <2> QED
    BY <1>9, <2>1, RaiseStep DEF BeginMethod
<1>10. ASSUME EndMethod PROVE RunStep
  <2>1. (\E e, at, from : Raise(e, at, from)) \/ phase' = phase
    BY <1>10 DEF EndMethod
  <2> QED
    BY <1>10, <2>1, RaiseStep DEF EndMethod
<1> QED
  BY <1>1, <1>2, <1>3, <1>4, <1>5, <1>6, <1>7, <1>8, <1>9, <1>10 DEF Next

\* Every step keeps the invariant of the list.
LEMMA ListStep == ListInv /\ [Next]_vars => ListInv'
<1> SUFFICES ASSUME ListInv, [Next]_vars PROVE ListInv'
  OBVIOUS
<1>1. CASE UNCHANGED vars
  BY <1>1 DEF vars, listVars, ListInv, Listed
<1>2. CASE Skip
  BY <1>2 DEF Skip, listVars, ListInv, Listed
<1>3. CASE Rewrite
  <2>1. /\ phase = "rewrite" /\ phase' = "export" /\ method' = method /\ m_offset' = m_offset
        /\ clauses' = NewClauses(clauses)
    BY <1>3 DEF Rewrite
  <2>2. il = method.il /\ clauses = method.clauses /\ method \in Methods
    BY <2>1 DEF ListInv
  <2>3. il' = BeginPart(Head(il).id) \o FlattenSeq([i \in DOMAIN il |-> Returns(method.void, il[i])])
                \o EndPart(method.void)
    BY <1>3 DEF Rewrite, Rewritten
  <2>4. Head(il) = il[1]
    <3>1. il \in Seq(Instrs) /\ Len(il) \in Nat \ {0}
      BY <2>2, MethodIs DEF WellFormed
    <3> QED
      BY <3>1
  <2>5. il' = Rewriting(method)
    BY <2>2, <2>3, <2>4 DEF Rewriting, Bodies
  <2>6. Shaped(method, il)'
    BY <2>1, <2>2, <2>5, RewritingShape
  <2>7. WellFormed(il)'
    BY <2>6 DEF Shaped, Shape
  <2> QED
    BY <2>1, <2>2, <2>6, <2>7 DEF ListInv
<1>4. CASE Export
  <2>1. /\ phase = "export" /\ m_offset' = Offsets(il) /\ il' = Widen(il, Offsets(il))
        /\ method' = method /\ clauses' = clauses
        /\ \/ phase' = phase
           \/ phase' = "rewritten" /\ TooFar(il, Offsets(il)) = {}
    BY <1>4 DEF Export, Again
  <2>2. Shaped(method, il) /\ clauses = NewClauses(method.clauses) /\ WellFormed(il)
        /\ method \in Methods
    BY <2>1 DEF ListInv
  <2>3. Like(il', il) /\ WellFormed(il') /\ (TooFar(il, Offsets(il)) = {} => il' = il)
    BY <2>1, <2>2, WidenIs
  <2>4. Shaped(method, il')
    BY <2>2, <2>3, LikeShape
  <2>5. m_offset' \in [DOMAIN m_offset' -> Nat]
    <3>1. Offsets(il) \in [1 .. (Len(il) + 1) -> Nat]
      BY <2>2, OffsetsAre DEF WellFormed
    <3> QED
      BY <2>1, <3>1
  <2> QED
    BY <2>1, <2>2, <2>3, <2>4, <2>5 DEF ListInv, Listed
<1>5. CASE RunStep
  BY <1>5 DEF RunStep, listVars, ListInv, Listed
<1> QED
  BY <1>1, <1>2, <1>3, <1>4, <1>5, RunSteps

\* A displacement of one byte that was kept is exact, and so is one of four.
LEMMA BranchesOfList ==
    ASSUME NEW list, WellFormed(list), TooFar(list, Offsets(list)) = {},
           NEW i \in DOMAIN list, IsBranch(list[i])
    PROVE  Destination(list, Offsets(list), i) = Offsets(list)[Position(list, list[i].target)]
<1> DEFINE p == Position(list, list[i].target)
           f == Offsets(list)
           delta == Delta(list, f, i)
<1>1. /\ list \in Seq(Instrs) /\ Len(list) \in Nat
      /\ f \in [1 .. (Len(list) + 1) -> Nat]
  BY OffsetsAre DEF WellFormed
<1>2. p \in DOMAIN list
  BY PositionExists DEF WellFormed
<1>3. f[p] \in Nat /\ f[i + 1] \in Nat
  BY <1>1, <1>2
<1>4. delta = f[p] - f[i + 1]
  BY DEF Delta
<1>5. list[i].short => Int8(delta) = delta
  BY DEF TooFar, Fits
<1>6. Destination(list, f, i) = f[i + 1] + (IF list[i].short THEN Int8(delta) ELSE delta)
  BY DEF Destination
<1> HIDE DEF p, f, delta
<1>7. Destination(list, f, i) = f[i + 1] + delta
  BY <1>5, <1>6
<1>8. Destination(list, f, i) = f[p]
  BY <1>3, <1>4, <1>7
<1> QED
  BY <1>8 DEF f, p

\* The list is well formed in every phase, and exported wherever it runs.
LEMMA ListInvariant == Spec => []ListInv
<1>1. Init => ListInv
  BY ListInit
<1>2. ListInv /\ [Next]_vars => ListInv'
  BY ListStep
<1> QED
  BY <1>1, <1>2, PTL DEF Spec

\* ILRewriter.Export, which stops when no short branch is too far: every displacement, of one
\* byte or of four, leads to the instruction the branch was meant for, for every method and
\* whatever the sizes of what BeginMethod and EndMethod need.
THEOREM ExportExact == Spec => []BranchesExact
<1>1. ListInv => BranchesExact
  <2> SUFFICES ASSUME ListInv, phase \in {"rewritten", "done"},
                      NEW i \in DOMAIN il, IsBranch(il[i])
               PROVE  Destination(il, m_offset, i) = Offsets(il)[Position(il, il[i].target)]
    BY DEF BranchesExact
  <2>1. WellFormed(il) /\ m_offset = Offsets(il) /\ TooFar(il, m_offset) = {}
    BY DEF ListInv, Listed
  <2> QED
    BY <2>1, BranchesOfList
<1> QED
  BY <1>1, ListInvariant, PTL

-----------------------------------------------------------------------------
(* Places and offsets *)

\* The four instructions that a clause names are in the list.
ClauseIn(list, c) ==
    /\ c.kind \in {"catch", "finally"}
    /\ \E i \in DOMAIN list : list[i].id = c.try_begin
    /\ \E i \in DOMAIN list : list[i].id = c.try_end
    /\ \E i \in DOMAIN list : list[i].id = c.handler_begin
    /\ \E i \in DOMAIN list : list[i].id = c.handler_end

\* The clauses that take an exception of place q, those that a leave from a to b goes
\* through, and the handlers of a kind around q
Catching(list, cls, q, first) ==
    {i \in DOMAIN cls : i >= first /\ q \in TryBlock(list, cls[i])}
Through(list, cls, b, a, first) ==
    {i \in DOMAIN cls : /\ i >= first
                        /\ cls[i].kind = "finally"
                        /\ a \in TryBlock(list, cls[i])
                        /\ b \notin TryBlock(list, cls[i])}
Within(list, cls, kind, q) ==
    {i \in DOMAIN cls : cls[i].kind = kind /\ q \in HandlerBlock(list, cls[i])}

\* The order of the offsets is that of the places.
LEMMA OffsetsOrder ==
    ASSUME NEW list, WellFormed(list),
           NEW i \in 1 .. (Len(list) + 1), NEW j \in 1 .. (Len(list) + 1)
    PROVE  /\ Offsets(list)[i] \in Nat
           /\ Offsets(list)[i] <= Offsets(list)[j] <=> i <= j
           /\ Offsets(list)[i] < Offsets(list)[j] <=> i < j
           /\ Offsets(list)[i] = Offsets(list)[j] => i = j
<1> DEFINE f == Offsets(list)
<1>1. list \in Seq(Instrs) /\ Sized(list) /\ Len(list) \in Nat
  BY DEF WellFormed
<1>2. \A x, y \in 1 .. (Len(list) + 1) : x < y => f[x] < f[y]
  BY <1>1, OffsetsGrow
<1>3. f \in [1 .. (Len(list) + 1) -> Nat]
  BY <1>1, OffsetsAre
<1> HIDE DEF f
<1>4. f[i] \in Nat /\ f[j] \in Nat /\ i \in Nat /\ j \in Nat
  BY <1>1, <1>3
<1>5. (i < j => f[i] < f[j]) /\ (j < i => f[j] < f[i]) /\ (i = j => f[i] = f[j])
  BY <1>2
<1>6. (f[i] <= f[j] <=> i <= j) /\ (f[i] < f[j] <=> i < j) /\ (f[i] = f[j] => i = j)
  BY <1>4, <1>5
<1> QED
  BY <1>4, <1>6 DEF f

\* An exported clause covers the places of its blocks.
LEMMA ExportedBlocks ==
    ASSUME NEW list, WellFormed(list), NEW c, ClauseIn(list, c), NEW q \in DOMAIN list
    PROVE  /\ InTry(ExportClause(list, Offsets(list), c), Offsets(list)[q])
                <=> q \in TryBlock(list, c)
           /\ InHandler(ExportClause(list, Offsets(list), c), Offsets(list)[q])
                <=> q \in HandlerBlock(list, c)
           /\ ExportClause(list, Offsets(list), c).handler_begin
                = Offsets(list)[Position(list, c.handler_begin)]
           /\ Position(list, c.handler_begin) \in DOMAIN list
<1> DEFINE f == Offsets(list)
<1>1. PICK tb, te, hb, he : /\ tb = Position(list, c.try_begin)
                            /\ te = Position(list, c.try_end)
                            /\ hb = Position(list, c.handler_begin)
                            /\ he = Position(list, c.handler_end)
  OBVIOUS
<1>2. /\ tb \in DOMAIN list /\ te \in DOMAIN list /\ hb \in DOMAIN list /\ he \in DOMAIN list
  BY <1>1, PositionExists DEF ClauseIn
<1>3. Len(list) \in Nat /\ DOMAIN list = 1 .. Len(list)
  BY DEF WellFormed
<1>4. PICK x : x = ExportClause(list, f, c)
  OBVIOUS
<1>5. /\ x.try_begin = f[tb] /\ x.try_end = f[te]
      /\ x.handler_begin = f[hb] /\ x.handler_end = f[he + 1]
  BY <1>1, <1>4 DEF ExportClause
<1>6. /\ q \in 1 .. (Len(list) + 1) /\ tb \in 1 .. (Len(list) + 1)
      /\ te \in 1 .. (Len(list) + 1) /\ hb \in 1 .. (Len(list) + 1)
      /\ he + 1 \in 1 .. (Len(list) + 1)
  BY <1>2, <1>3
<1> HIDE DEF f
<1>7. /\ f[tb] <= f[q] <=> tb <= q
      /\ f[q] < f[te] <=> q < te
      /\ f[hb] <= f[q] <=> hb <= q
      /\ f[q] < f[he + 1] <=> q < he + 1
  BY <1>6, OffsetsOrder DEF f
<1>8. InTry(x, f[q]) <=> q \in tb .. (te - 1)
  BY <1>2, <1>3, <1>5, <1>7 DEF InTry
<1>9. InHandler(x, f[q]) <=> q \in hb .. he
  BY <1>2, <1>3, <1>5, <1>7 DEF InHandler
<1> QED
  BY <1>1, <1>2, <1>4, <1>5, <1>8, <1>9 DEF TryBlock, HandlerBlock, f

\* The least element of a set of numbers that holds all the small ones of another
LEMMA MinOfPart ==
    ASSUME NEW S \in SUBSET Nat, NEW R \in SUBSET S, R # {},
           \A x \in S \ R : \A y \in R : y < x
    PROVE  Min(S) = Min(R) /\ Min(R) \in R
<1>1. R \in SUBSET Nat /\ S # {}
  OBVIOUS
<1>2. PICK a, b : a = Min(S) /\ b = Min(R)
  OBVIOUS
<1>3. b \in R /\ \A x \in R : b <= x
  BY <1>1, <1>2, MinIsLeast
<1>4. a \in S /\ \A x \in S : a <= x
  BY <1>1, <1>2, MinIsLeast
<1>5. a \in R
  <2> SUFFICES ASSUME a \notin R PROVE FALSE
    OBVIOUS
  <2>1. b < a /\ a <= b
    BY <1>3, <1>4
  <2> QED
    BY <1>1, <1>3, <1>4, <2>1
<1>6. a <= b /\ b <= a /\ a \in Nat /\ b \in Nat
  BY <1>3, <1>4, <1>5
<1>7. a = b
  BY <1>6
<1> QED
  BY <1>2, <1>3, <1>7

-----------------------------------------------------------------------------
(* A method in a list *)

\* Exception clauses
ClauseSet == [kind : {"catch", "finally"}, try_begin : Nat, try_end : Nat,
              handler_begin : Nat, handler_end : Nat]

\* The instructions and clauses of the method are in the list: instruction i is at at[i],
\* where from[i] leads straight to.
Frame(m, list, cls, at, from) ==
    /\ m \in Methods
    /\ WellFormed(list)
    /\ TooFar(list, Offsets(list)) = {}
    /\ at \in [DOMAIN m.il -> DOMAIN list]
    /\ from \in [DOMAIN m.il -> DOMAIN list]
    /\ \A i \in DOMAIN m.il :
         /\ i + 1 \in DOMAIN m.il => from[i + 1] = at[i] + 1
         /\ \A j \in DOMAIN m.il : i < j => at[i] < at[j]
         /\ list[at[i]].id = m.il[i].id
         /\ m.il[i].op # "ret" =>
              /\ list[at[i]].op = m.il[i].op
              /\ list[at[i]].target = m.il[i].target
              /\ list[at[i]].value = m.il[i].value
              /\ from[i] = at[i]
    /\ cls \in Seq(ClauseSet)
    /\ Len(m.clauses) <= Len(cls)
    /\ \A j \in DOMAIN m.clauses : cls[j] = m.clauses[j]
    /\ \A j \in DOMAIN cls : ClauseIn(list, cls[j])
    /\ \A j \in DOMAIN cls \ DOMAIN m.clauses :
         cls[j].kind = "finally" => \A i \in DOMAIN m.il : at[i] \in TryBlock(list, cls[j])

\* The clauses of a method name instructions of it.
LEMMA ClausesOf ==
    ASSUME NEW m \in Methods
    PROVE  /\ m.clauses \in Seq(ClauseSet)
           /\ Len(m.clauses) \in Nat /\ DOMAIN m.clauses = 1 .. Len(m.clauses)
           /\ \A j \in DOMAIN m.clauses : ClauseIn(m.il, m.clauses[j])
<1> DEFINE ids == {m.il[i].id : i \in DOMAIN m.il}
           Own1 == [kind : {"catch", "finally"}, try_begin : ids, try_end : ids,
                    handler_begin : ids, handler_end : ids]
<1>1. m.clauses \in Seq(Own1)
  BY CallTargetAssumption DEF Imported
<1>2. m.il \in Seq(Instrs)
  BY MethodIs DEF WellFormed
<1>3. ids \subseteq Nat
  <2> SUFFICES ASSUME NEW i \in DOMAIN m.il PROVE m.il[i].id \in Nat
    OBVIOUS
  <2>1. m.il[i] \in Instrs
    BY <1>2
  <2> QED
    BY <2>1 DEF Instrs
<1>4. \A x \in ids : \E i \in DOMAIN m.il : m.il[i].id = x
  OBVIOUS
<1> HIDE DEF ids
<1>5. \A c \in Own1 : c \in ClauseSet /\ ClauseIn(m.il, c)
  BY <1>3, <1>4 DEF ClauseSet, ClauseIn
<1> HIDE DEF Own1
<1>6. m.clauses \in Seq(ClauseSet) /\ \A j \in DOMAIN m.clauses : m.clauses[j] \in Own1
  BY <1>1, <1>5
<1> QED
  BY <1>5, <1>6

\* A clause of the method covers in the list the instructions that it covers in the method.
LEMMA OwnBlocks ==
    ASSUME NEW m, NEW list, NEW cls, NEW at, NEW from, Frame(m, list, cls, at, from),
           NEW j \in DOMAIN m.clauses
    PROVE  /\ Position(list, cls[j].handler_begin) = at[Position(m.il, m.clauses[j].handler_begin)]
           /\ Position(m.il, m.clauses[j].handler_begin) \in DOMAIN m.il
           /\ \A i \in DOMAIN m.il :
                /\ at[i] \in TryBlock(list, cls[j]) <=> i \in TryBlock(m.il, m.clauses[j])
                /\ at[i] \in HandlerBlock(list, cls[j]) <=> i \in HandlerBlock(m.il, m.clauses[j])
<1>0. /\ m \in Methods /\ WellFormed(list) /\ DistinctIds(list)
      /\ Len(m.il) \in Nat /\ DOMAIN m.il = 1 .. Len(m.il)
      /\ Len(list) \in Nat /\ DOMAIN list = 1 .. Len(list)
  <2>1. m \in Methods /\ WellFormed(list)
    BY DEF Frame
  <2>2. WellFormed(m.il)
    BY <2>1, MethodIs
  <2> QED
    BY <2>1, <2>2 DEF WellFormed
<1>1. /\ cls[j] = m.clauses[j] /\ ClauseIn(m.il, m.clauses[j])
      /\ at \in [DOMAIN m.il -> DOMAIN list]
      /\ \A x, y \in DOMAIN m.il : x < y => at[x] < at[y]
      /\ \A x \in DOMAIN m.il : list[at[x]].id = m.il[x].id
  BY <1>0, ClausesOf DEF Frame
<1>2. ASSUME NEW id, \E x \in DOMAIN m.il : m.il[x].id = id
      PROVE  Position(m.il, id) \in DOMAIN m.il /\ Position(list, id) = at[Position(m.il, id)]
  <2>1. PICK x : x = Position(m.il, id)
    OBVIOUS
  <2>2. x \in DOMAIN m.il /\ m.il[x].id = id
    BY <1>2, <2>1, PositionExists
  <2>3. at[x] \in DOMAIN list /\ list[at[x]].id = id
    BY <1>1, <2>2
  <2>4. Position(list, id) = at[x]
    BY <1>0, <2>3, PositionIs
  <2> QED
    BY <2>1, <2>2, <2>4
<1>3. PICK tb, te, hb, he : /\ tb = Position(m.il, m.clauses[j].try_begin)
                            /\ te = Position(m.il, m.clauses[j].try_end)
                            /\ hb = Position(m.il, m.clauses[j].handler_begin)
                            /\ he = Position(m.il, m.clauses[j].handler_end)
  OBVIOUS
<1>4. /\ tb \in DOMAIN m.il /\ te \in DOMAIN m.il /\ hb \in DOMAIN m.il /\ he \in DOMAIN m.il
      /\ Position(list, cls[j].try_begin) = at[tb] /\ Position(list, cls[j].try_end) = at[te]
      /\ Position(list, cls[j].handler_begin) = at[hb]
      /\ Position(list, cls[j].handler_end) = at[he]
  BY <1>1, <1>2, <1>3 DEF ClauseIn
<1>5. \A x, y \in DOMAIN m.il : (at[x] <= at[y] <=> x <= y) /\ (at[x] < at[y] <=> x < y)
  <2> SUFFICES ASSUME NEW x \in DOMAIN m.il, NEW y \in DOMAIN m.il
               PROVE  (at[x] <= at[y] <=> x <= y) /\ (at[x] < at[y] <=> x < y)
    OBVIOUS
  <2>1. at[x] \in Nat /\ at[y] \in Nat /\ x \in Nat /\ y \in Nat
    BY <1>0, <1>1
  <2>2. (x < y => at[x] < at[y]) /\ (y < x => at[y] < at[x]) /\ (x = y => at[x] = at[y])
    BY <1>1
  <2> QED
    BY <2>1, <2>2
<1>6. ASSUME NEW i \in DOMAIN m.il
      PROVE  /\ at[i] \in TryBlock(list, cls[j]) <=> i \in TryBlock(m.il, m.clauses[j])
             /\ at[i] \in HandlerBlock(list, cls[j]) <=> i \in HandlerBlock(m.il, m.clauses[j])
  <2>1. at[i] \in Int /\ at[tb] \in Int /\ at[te] \in Int /\ at[hb] \in Int /\ at[he] \in Int
        /\ i \in Int /\ tb \in Int /\ te \in Int /\ hb \in Int /\ he \in Int
    BY <1>0, <1>1, <1>4
  <2>2. /\ at[tb] <= at[i] <=> tb <= i
        /\ at[i] < at[te] <=> i < te
        /\ at[hb] <= at[i] <=> hb <= i
        /\ at[i] <= at[he] <=> i <= he
    BY <1>4, <1>5
  <2>3. at[i] \in at[tb] .. (at[te] - 1) <=> i \in tb .. (te - 1)
    BY <2>1, <2>2
  <2>4. at[i] \in at[hb] .. at[he] <=> i \in hb .. he
    BY <2>1, <2>2
  <2> QED
    BY <1>3, <1>4, <2>3, <2>4 DEF TryBlock, HandlerBlock
<1> QED
  BY <1>3, <1>4, <1>6

\* What endfinally and rethrow of the method find is what they find in the method itself, as
\* its clauses come first.
LEMMA OwnPart ==
    ASSUME NEW m, NEW list, NEW cls, NEW at, NEW from, Frame(m, list, cls, at, from),
           NEW S \in SUBSET DOMAIN cls, NEW R \in SUBSET DOMAIN m.clauses,
           \A j \in DOMAIN m.clauses : j \in S <=> j \in R
    PROVE  /\ R # {} => Min(S) = Min(R) /\ Min(R) \in R /\ S # {}
           /\ R = {} => S \cap DOMAIN m.clauses = {}
<1>1. /\ DOMAIN m.clauses \subseteq DOMAIN cls /\ DOMAIN cls \subseteq Nat
      /\ \A x \in DOMAIN cls \ DOMAIN m.clauses : \A y \in DOMAIN m.clauses : y < x
  <2>1. /\ m \in Methods /\ cls \in Seq(ClauseSet) /\ Len(cls) \in Nat /\ DOMAIN cls = 1 .. Len(cls)
        /\ Len(m.clauses) \in Nat /\ DOMAIN m.clauses = 1 .. Len(m.clauses)
        /\ Len(m.clauses) <= Len(cls)
    BY ClausesOf DEF Frame
  <2> QED
    BY <2>1
<1>2. S \in SUBSET Nat /\ R \in SUBSET S /\ \A x \in S \ R : \A y \in R : y < x
  BY <1>1
<1>3. R # {} => Min(S) = Min(R) /\ Min(R) \in R
  BY <1>2, MinOfPart
<1> QED
  BY <1>2, <1>3

\* The innermost handler of the method around a place is the same in the list.
LEMMA OwnWithin ==
    ASSUME NEW m, NEW list, NEW cls, NEW at, NEW from, Frame(m, list, cls, at, from),
           NEW a \in DOMAIN m.il, NEW kind, Within(m.il, m.clauses, kind, a) # {}
    PROVE  Min(Within(list, cls, kind, at[a])) = Min(Within(m.il, m.clauses, kind, a))
<1>1. \A j \in DOMAIN m.clauses : j \in DOMAIN cls /\ cls[j] = m.clauses[j]
  <2>1. /\ m \in Methods /\ cls \in Seq(ClauseSet) /\ Len(m.clauses) <= Len(cls)
        /\ \A j \in DOMAIN m.clauses : cls[j] = m.clauses[j]
    BY DEF Frame
  <2> QED
    BY <2>1, ClausesOf
<1>2. \A j \in DOMAIN m.clauses :
         at[a] \in HandlerBlock(list, cls[j]) <=> a \in HandlerBlock(m.il, m.clauses[j])
  BY OwnBlocks
<1>3. PICK S, R : S = Within(list, cls, kind, at[a]) /\ R = Within(m.il, m.clauses, kind, a)
  OBVIOUS
<1>4. /\ S \in SUBSET DOMAIN cls /\ R \in SUBSET DOMAIN m.clauses
      /\ \A j \in DOMAIN m.clauses : j \in S <=> j \in R
  BY <1>1, <1>2, <1>3 DEF Within
<1> QED
  BY <1>3, <1>4, OwnPart

\* The same for an exception and a leave
LEMMA OwnCatching ==
    ASSUME NEW m, NEW list, NEW cls, NEW at, NEW from, Frame(m, list, cls, at, from),
           NEW a \in DOMAIN m.il, NEW first
    PROVE  /\ Catching(m.il, m.clauses, a, first) # {} =>
                /\ Min(Catching(list, cls, at[a], first)) = Min(Catching(m.il, m.clauses, a, first))
                /\ Min(Catching(m.il, m.clauses, a, first)) \in Catching(m.il, m.clauses, a, first)
                /\ Catching(list, cls, at[a], first) # {}
           /\ Catching(m.il, m.clauses, a, first) = {} =>
                Catching(list, cls, at[a], first) \cap DOMAIN m.clauses = {}
<1>1. \A j \in DOMAIN m.clauses : j \in DOMAIN cls
  <2>1. m \in Methods /\ cls \in Seq(ClauseSet) /\ Len(m.clauses) <= Len(cls)
    BY DEF Frame
  <2> QED
    BY <2>1, ClausesOf
<1>2. \A j \in DOMAIN m.clauses :
         at[a] \in TryBlock(list, cls[j]) <=> a \in TryBlock(m.il, m.clauses[j])
  BY OwnBlocks
<1>3. PICK S, R : S = Catching(list, cls, at[a], first) /\ R = Catching(m.il, m.clauses, a, first)
  OBVIOUS
<1>4. /\ S \in SUBSET DOMAIN cls /\ R \in SUBSET DOMAIN m.clauses
      /\ \A j \in DOMAIN m.clauses : j \in S <=> j \in R
  BY <1>1, <1>2, <1>3 DEF Catching
<1> QED
  BY <1>3, <1>4, OwnPart

\* The finally handlers that a leave of the method goes through are the same in the list.
LEMMA OwnThrough ==
    ASSUME NEW m, NEW list, NEW cls, NEW at, NEW from, Frame(m, list, cls, at, from),
           NEW a \in DOMAIN m.il, NEW b \in DOMAIN m.il, NEW first
    PROVE  Through(list, cls, at[b], at[a], first) = Through(m.il, m.clauses, b, a, first)
<1>1. \A j \in DOMAIN m.clauses : j \in DOMAIN cls /\ cls[j] = m.clauses[j]
  <2>1. /\ m \in Methods /\ cls \in Seq(ClauseSet) /\ Len(m.clauses) <= Len(cls)
        /\ \A j \in DOMAIN m.clauses : cls[j] = m.clauses[j]
    BY DEF Frame
  <2> QED
    BY <2>1, ClausesOf
<1>2. \A j \in DOMAIN m.clauses : \A i \in DOMAIN m.il :
         at[i] \in TryBlock(list, cls[j]) <=> i \in TryBlock(m.il, m.clauses[j])
  BY OwnBlocks
<1>3. ASSUME NEW j \in DOMAIN cls, cls[j].kind = "finally", at[b] \notin TryBlock(list, cls[j])
      PROVE  j \in DOMAIN m.clauses
  BY <1>3 DEF Frame
<1> QED
  BY <1>1, <1>2, <1>3 DEF Through

-----------------------------------------------------------------------------
(* The run by places *)

\* The exported list is exact.
Exact ==
    /\ WellFormed(il)
    /\ m_offset = Offsets(il)
    /\ TooFar(il, m_offset) = {}
    /\ DOMAIN clauses \subseteq Nat
    /\ \A j \in DOMAIN clauses : ClauseIn(il, clauses[j])

\* The place of an offset is the one instruction that has it.
LEMMA HereIs ==
    ASSUME Exact, NEW q \in DOMAIN il, ip = m_offset[q]
    PROVE  /\ Here = q
           /\ Following = m_offset[q + 1]
<1>1. /\ il \in Seq(Instrs) /\ Len(il) \in Nat /\ DOMAIN il = 1 .. Len(il)
      /\ m_offset = Offsets(il) /\ WellFormed(il)
  BY DEF Exact, WellFormed
<1>2. \A i \in DOMAIN il : m_offset[i] = ip => i = q
  <2> SUFFICES ASSUME NEW i \in DOMAIN il, m_offset[i] = ip PROVE i = q
    OBVIOUS
  <2>1. i \in 1 .. (Len(il) + 1) /\ q \in 1 .. (Len(il) + 1)
    BY <1>1
  <2> QED
    BY <1>1, <2>1, OffsetsOrder
<1>3. Here = q
  BY <1>2 DEF Here
<1>4. m_offset[q + 1] = m_offset[q] + Size(il[q])
  BY <1>1, OffsetsAre
<1> QED
  BY <1>3, <1>4 DEF Following

\* A branch leads to the place of its target.
LEMMA JumpIs ==
    ASSUME Exact, NEW q \in DOMAIN il, IsBranch(il[q])
    PROVE  /\ Destination(il, m_offset, q) = m_offset[Position(il, il[q].target)]
           /\ Position(il, il[q].target) \in DOMAIN il
           /\ il[Position(il, il[q].target)].id = il[q].target
<1>1. WellFormed(il) /\ m_offset = Offsets(il) /\ TooFar(il, Offsets(il)) = {}
  BY DEF Exact
<1>2. Destination(il, m_offset, q) = m_offset[Position(il, il[q].target)]
  BY <1>1, BranchesOfList
<1>3. \E i \in DOMAIN il : il[i].id = il[q].target
  BY <1>1 DEF WellFormed
<1> QED
  BY <1>2, <1>3, PositionExists

\* An exception e of place a comes to the handler of clause i.
Handled(e, a, i) ==
    /\ i \in DOMAIN clauses
    /\ Position(il, clauses[i].handler_begin) \in DOMAIN il
    /\ ip' = m_offset[Position(il, clauses[i].handler_begin)]
    /\ clauses[i].kind = "catch" =>
         stack' = <<e>> /\ caught' = With(caught, i, e) /\ cont' = cont
    /\ clauses[i].kind # "catch" =>
         /\ stack' = <<>> /\ caught' = caught
         /\ cont' = With(cont, i, [kind |-> "throw", value |-> e, at |-> m_offset[a]])
    /\ phase' = phase /\ result' = result /\ outcome' = outcome

\* An exception of place a ends the method or comes to the first handler for a.
LEMMA RaiseIs ==
    ASSUME Exact, NEW a \in DOMAIN il, NEW e, NEW first, Raise(e, m_offset[a], first)
    PROVE  \/ /\ Catching(il, clauses, a, first) = {}
              /\ Finish([kind |-> "throw", value |-> e])
           \/ /\ Catching(il, clauses, a, first) # {}
              /\ Handled(e, a, Min(Catching(il, clauses, a, first)))
<1> DEFINE found == {i \in DOMAIN clauses : i >= first /\ InTry(Exported[i], m_offset[a])}
<1>1. \A i \in DOMAIN clauses :
         /\ InTry(Exported[i], m_offset[a]) <=> a \in TryBlock(il, clauses[i])
         /\ Exported[i].handler_begin = m_offset[Position(il, clauses[i].handler_begin)]
         /\ Position(il, clauses[i].handler_begin) \in DOMAIN il
  BY ExportedBlocks DEF Exact, Exported
<1>2. PICK S : S = Catching(il, clauses, a, first)
  OBVIOUS
<1>3. found = S
  BY <1>1, <1>2 DEF Catching
<1>4. S # {} => Min(S) \in S
  <2>1. S \in SUBSET Nat
    BY <1>2 DEF Catching, Exact
  <2> QED
    BY <2>1, MinIsLeast
<1>5. PICK i : i = Min(S)
  OBVIOUS
<1>6. \/ found = {} /\ Finish([kind |-> "throw", value |-> e])
      \/ /\ found # {}
         /\ ip' = Exported[Min(found)].handler_begin
         /\ \/ /\ clauses[Min(found)].kind = "catch"
               /\ stack' = <<e>>
               /\ caught' = With(caught, Min(found), e)
               /\ cont' = cont
            \/ /\ clauses[Min(found)].kind = "finally"
               /\ stack' = <<>>
               /\ cont' = With(cont, Min(found),
                               [kind |-> "throw", value |-> e, at |-> m_offset[a]])
               /\ caught' = caught
         /\ phase' = phase /\ result' = result /\ outcome' = outcome
  BY Zenon DEF Raise
<1> HIDE DEF found
<1>7. CASE S = {}
  BY <1>2, <1>3, <1>6, <1>7
<1>8. CASE S # {}
  <2>1. i \in DOMAIN clauses
    BY <1>2, <1>4, <1>5, <1>8 DEF Catching
  <2>2. /\ ip' = Exported[i].handler_begin
        /\ \/ /\ clauses[i].kind = "catch"
              /\ stack' = <<e>>
              /\ caught' = With(caught, i, e)
              /\ cont' = cont
           \/ /\ clauses[i].kind = "finally"
              /\ stack' = <<>>
              /\ cont' = With(cont, i, [kind |-> "throw", value |-> e, at |-> m_offset[a]])
              /\ caught' = caught
        /\ phase' = phase /\ result' = result /\ outcome' = outcome
    BY <1>3, <1>5, <1>6, <1>8
  <2>3. "catch" # "finally"
    OBVIOUS
  <2>4. Handled(e, a, i)
    BY <1>1, <2>1, <2>2, <2>3 DEF Handled
  <2> QED
    BY <1>2, <1>5, <1>8, <2>4
<1> QED
  BY <1>7, <1>8

\* A leave from a for b comes to the finally handler of clause i.
Diverted(b, a, i) ==
    /\ i \in DOMAIN clauses /\ clauses[i].kind = "finally"
    /\ Position(il, clauses[i].handler_begin) \in DOMAIN il
    /\ ip' = m_offset[Position(il, clauses[i].handler_begin)]
    /\ cont' = With(cont, i, [kind |-> "leave", value |-> m_offset[b], at |-> m_offset[a]])

\* A leave from a comes to b, or to the first finally handler in between.
LEMMA LeaveIs ==
    ASSUME Exact, NEW a \in DOMAIN il, NEW b \in DOMAIN il, NEW first,
           LeaveTo(m_offset[b], m_offset[a], first)
    PROVE  /\ stack' = <<>> /\ caught' = caught
           /\ phase' = phase /\ result' = result /\ outcome' = outcome
           /\ Through(il, clauses, b, a, first) = {} => ip' = m_offset[b] /\ cont' = cont
           /\ Through(il, clauses, b, a, first) # {} =>
                Diverted(b, a, Min(Through(il, clauses, b, a, first)))
<1> DEFINE through == {i \in DOMAIN clauses :
                         /\ i >= first
                         /\ clauses[i].kind = "finally"
                         /\ InTry(Exported[i], m_offset[a])
                         /\ ~InTry(Exported[i], m_offset[b])}
<1>1. \A i \in DOMAIN clauses :
         /\ InTry(Exported[i], m_offset[a]) <=> a \in TryBlock(il, clauses[i])
         /\ InTry(Exported[i], m_offset[b]) <=> b \in TryBlock(il, clauses[i])
         /\ Exported[i].handler_begin = m_offset[Position(il, clauses[i].handler_begin)]
         /\ Position(il, clauses[i].handler_begin) \in DOMAIN il
  BY ExportedBlocks DEF Exact, Exported
<1>2. PICK S : S = Through(il, clauses, b, a, first)
  OBVIOUS
<1>3. through = S
  BY <1>1, <1>2 DEF Through
<1>4. S # {} => Min(S) \in S
  <2>1. S \in SUBSET Nat
    BY <1>2 DEF Through, Exact
  <2> QED
    BY <2>1, MinIsLeast
<1>5. PICK i : i = Min(S)
  OBVIOUS
<1>6. /\ stack' = <<>>
      /\ \/ through = {} /\ ip' = m_offset[b] /\ cont' = cont
         \/ /\ through # {}
            /\ ip' = Exported[Min(through)].handler_begin
            /\ cont' = With(cont, Min(through),
                            [kind |-> "leave", value |-> m_offset[b], at |-> m_offset[a]])
      /\ phase' = phase /\ caught' = caught /\ result' = result /\ outcome' = outcome
  BY Zenon DEF LeaveTo
<1> HIDE DEF through
<1>7. S = {} => ip' = m_offset[b] /\ cont' = cont
  BY <1>3, <1>6
<1>8. ASSUME S # {} PROVE Diverted(b, a, i)
  <2>1. i \in DOMAIN clauses /\ clauses[i].kind = "finally"
    BY <1>2, <1>4, <1>5, <1>8 DEF Through
  <2>2. /\ ip' = Exported[i].handler_begin
        /\ cont' = With(cont, i, [kind |-> "leave", value |-> m_offset[b], at |-> m_offset[a]])
    BY <1>3, <1>5, <1>6, <1>8
  <2> QED
    BY <1>1, <2>1, <2>2 DEF Diverted
<1> QED
  BY <1>2, <1>5, <1>6, <1>7, <1>8

-----------------------------------------------------------------------------
(* The method as written, run by places with the choices T *)

\* A moment of the run: the next place, the stack, the exceptions of the handlers, what
\* follows the finally handlers, and how many choices were made.  Place 0 is the end.
Conf(p, s, ca, co, u) == [p |-> p, stack |-> s, caught |-> ca, cont |-> co, used |-> u]
Fin(how) == Conf(0, how, <<>>, <<>>, 0)
Start0 == Conf(1, <<>>, <<>>, <<>>, 0)
Go(c, q, s, u) == Conf(q, s, c.caught, c.cont, u)

\* An exception e of place a, to the first clause from the given one on
ARaise(m, c, u, e, a, first) ==
    LET found == Catching(m.il, m.clauses, a, first)
        i == Min(found)
        q == Position(m.il, m.clauses[i].handler_begin)
    IN  IF found = {} THEN Fin([kind |-> "throw", value |-> e])
        ELSE IF m.clauses[i].kind = "catch"
          THEN Conf(q, <<e>>, With(c.caught, i, e), c.cont, u)
          ELSE Conf(q, <<>>, c.caught,
                    With(c.cont, i, [kind |-> "throw", value |-> e, at |-> a]), u)

\* A leave from a to b
ALeave(m, c, b, a, first) ==
    LET through == Through(m.il, m.clauses, b, a, first)
        i == Min(through)
        q == Position(m.il, m.clauses[i].handler_begin)
    IN  IF through = {} THEN Conf(b, <<>>, c.caught, c.cont, c.used)
        ELSE Conf(q, <<>>, c.caught,
                  With(c.cont, i, [kind |-> "leave", value |-> b, at |-> a]), c.used)

\* Where a branch leads, the top and the rest of a stack, the handler that is around a place
Target(m, q) == Position(m.il, m.il[q].target)
TopOf(s) == s[Len(s)]
PoppedOf(s) == SubSeq(s, 1, Len(s) - 1)
Innermost(m, kind, q) == Min(Within(m.il, m.clauses, kind, q))

\* The moment that follows c
ANext(m, T, c) ==
    LET op == m.il[c.p].op
        value == m.il[c.p].value
        k == c.cont[Innermost(m, "finally", c.p)]
    IN  IF op = "nop" THEN Go(c, c.p + 1, c.stack, c.used)
        ELSE IF op = "push" THEN Go(c, c.p + 1, Append(c.stack, value), c.used)
        ELSE IF op = "dup" THEN Go(c, c.p + 1, Append(c.stack, TopOf(c.stack)), c.used)
        ELSE IF op = "pop" THEN Go(c, c.p + 1, PoppedOf(c.stack), c.used)
        ELSE IF op = "br" THEN Go(c, Target(m, c.p), c.stack, c.used)
        ELSE IF op = "brtrue"
          THEN Go(c, IF T[c.used + 1] THEN Target(m, c.p) ELSE c.p + 1,
                  PoppedOf(c.stack), c.used + 1)
        ELSE IF op = "call"
          THEN IF T[c.used + 1] THEN ARaise(m, c, c.used + 1, value, c.p, 1)
               ELSE Go(c, c.p + 1, c.stack, c.used + 1)
        ELSE IF op = "leave" THEN ALeave(m, c, Target(m, c.p), c.p, 1)
        ELSE IF op = "endfinally"
          THEN IF k.kind = "leave"
                 THEN ALeave(m, c, k.value, k.at, Innermost(m, "finally", c.p) + 1)
                 ELSE ARaise(m, c, c.used, k.value, k.at, Innermost(m, "finally", c.p) + 1)
        ELSE IF op = "rethrow"
          THEN ARaise(m, c, c.used, c.caught[Innermost(m, "catch", c.p)], c.p, 1)
        ELSE Fin([kind |-> "ret", value |-> IF m.void THEN None ELSE TopOf(c.stack)])

\* The choices that the next step takes have been made.
Ready(m, T, c) ==
    c.p # 0 /\ c.used \in Nat /\ (m.il[c.p].op \in {"brtrue", "call"} => c.used < Len(T))

\* The run leads from c to d: every set of moments that holds c and what follows holds d.
Closed(m, T, X) == \A c \in X : Ready(m, T, c) => ANext(m, T, c) \in X
Path(m, T, c, d) == \A X : c \in X /\ Closed(m, T, X) => d \in X

\* The run leads from every moment to itself.
LEMMA PathStarts ==
    ASSUME NEW m, NEW T, NEW c
    PROVE  Path(m, T, c, c)
  BY DEF Path

\* The run leads on to what follows.
LEMMA PathExtends ==
    ASSUME NEW m, NEW T, NEW c, NEW d, Path(m, T, c, d), Ready(m, T, d)
    PROVE  Path(m, T, c, ANext(m, T, d))
  BY DEF Path, Closed

\* A step taken leaves the rest of the way, as the run has no other choice.
LEMMA PathGoesOn ==
    ASSUME NEW m, NEW T, NEW c, NEW how, Path(m, T, c, Fin(how)), Ready(m, T, c)
    PROVE  Path(m, T, ANext(m, T, c), Fin(how))
<1> SUFFICES ASSUME NEW X, ANext(m, T, c) \in X, Closed(m, T, X) PROVE Fin(how) \in X
  BY DEF Path
<1>1. Closed(m, T, X \cup {c})
  BY DEF Closed
<1>2. Fin(how) \in X \cup {c}
  BY <1>1 DEF Path
<1>3. Fin(how).p = 0
  BY DEF Fin, Conf
<1>4. c # Fin(how)
  BY <1>3 DEF Ready
<1> QED
  BY <1>2, <1>4

\* An end leads to no other end.
LEMMA PathEnds ==
    ASSUME NEW m, NEW T, NEW how, NEW end, Path(m, T, Fin(how), Fin(end))
    PROVE  how = end
<1>1. Fin(how).p = 0 /\ Fin(how).stack = how /\ Fin(end).stack = end
  BY DEF Fin, Conf
<1>2. Closed(m, T, {Fin(how)})
  BY <1>1 DEF Closed, Ready
<1>3. Fin(end) \in {Fin(how)}
  BY <1>2 DEF Path
<1> QED
  BY <1>1, <1>3

\* A choice more leaves the way that was taken.
LEMMA PathKept ==
    ASSUME NEW m, NEW T \in Seq(BOOLEAN), NEW b \in BOOLEAN, NEW c, NEW d, Path(m, T, c, d)
    PROVE  Path(m, Append(T, b), c, d)
<1> SUFFICES ASSUME NEW X, c \in X, Closed(m, Append(T, b), X) PROVE d \in X
  BY DEF Path
<1>1. PICK U : U = Append(T, b)
  OBVIOUS
<1>2. Len(U) = Len(T) + 1 /\ Len(T) \in Nat /\ \A i \in 1 .. Len(T) : U[i] = T[i]
  BY <1>1
<1>3. ASSUME NEW x \in X, Ready(m, T, x) PROVE ANext(m, T, x) \in X
  <2>1. Ready(m, U, x)
    BY <1>2, <1>3 DEF Ready
  <2>2. ANext(m, U, x) \in X
    BY <1>1, <2>1 DEF Closed
  <2>3. CASE m.il[x.p].op \in {"brtrue", "call"}
    <3>1. x.used + 1 \in 1 .. Len(T)
      BY <1>2, <1>3, <2>3 DEF Ready
    <3>2. U[x.used + 1] = T[x.used + 1]
      BY <1>2, <3>1
    <3>3. ANext(m, U, x) = ANext(m, T, x)
      BY <3>2 DEF ANext
    <3> QED
      BY <2>2, <3>3
  <2>4. CASE m.il[x.p].op \notin {"brtrue", "call"}
    <3>1. ANext(m, U, x) = ANext(m, T, x)
      BY <2>4 DEF ANext
    <3> QED
      BY <2>2, <3>1
  <2> QED
    BY <2>3, <2>4
<1>4. Closed(m, T, X)
  BY <1>3 DEF Closed
<1> QED
  BY <1>4 DEF Path

\* The rules of the runtime, for the places of a method
LEMMA Rules ==
    ASSUME NEW m \in Methods
    PROVE  /\ \A i \in DOMAIN m.il :
                /\ m.il[i].op \in Ops
                /\ m.il[i].value \in Values \cup {None}
                /\ m.il[i].op \notin NeverFallThrough => i + 1 \in DOMAIN m.il
                /\ IsBranch(m.il[i]) <=> m.il[i].op \in Jumps
                /\ m.il[i].op \in Jumps =>
                     /\ Target(m, i) \in DOMAIN m.il
                     /\ m.il[Target(m, i)].id = m.il[i].target
                /\ m.il[i].op = "endfinally" => Within(m.il, m.clauses, "finally", i) # {}
                /\ m.il[i].op = "rethrow" => Within(m.il, m.clauses, "catch", i) # {}
                /\ m.il[i].op = "ret" => \A c \in DOMAIN m.clauses :
                     /\ i \notin TryBlock(m.il, m.clauses[c])
                     /\ i \notin HandlerBlock(m.il, m.clauses[c])
           /\ \A c \in DOMAIN m.clauses :
                /\ Position(m.il, m.clauses[c].handler_begin) \in DOMAIN m.il
                /\ Position(m.il, m.clauses[c].handler_begin) \in HandlerBlock(m.il, m.clauses[c])
                /\ 1 \notin HandlerBlock(m.il, m.clauses[c])
                /\ \A i \in DOMAIN m.il :
                     /\ i + 1 \in HandlerBlock(m.il, m.clauses[c])
                        /\ m.il[i].op \notin NeverFallThrough
                          => i \in HandlerBlock(m.il, m.clauses[c])
                     /\ m.il[i].op \in Jumps /\ Target(m, i) \in HandlerBlock(m.il, m.clauses[c])
                          => i \in HandlerBlock(m.il, m.clauses[c])
                /\ \A d \in DOMAIN m.clauses :
                     d # c /\ Position(m.il, m.clauses[d].handler_begin)
                                \in HandlerBlock(m.il, m.clauses[c])
                       => TryBlock(m.il, m.clauses[d]) \subseteq HandlerBlock(m.il, m.clauses[c])
           /\ ~m.void => m.il[1].op # "ret"
<1>0. /\ Imported(m) /\ HandlersEnteredByClause(m) /\ InstructionsInPlace(m)
      /\ m.il \in Seq(Instructions) /\ Len(m.il) \in Nat \ {0} /\ DOMAIN m.il = 1 .. Len(m.il)
  BY CallTargetAssumption, MethodIs
<1>1. ASSUME NEW i \in DOMAIN m.il
      PROVE  /\ m.il[i].op \in Ops
             /\ m.il[i].value \in Values \cup {None}
             /\ IsBranch(m.il[i]) <=> m.il[i].op \in Jumps
             /\ m.il[i].op \in Jumps =>
                  Target(m, i) \in DOMAIN m.il /\ m.il[Target(m, i)].id = m.il[i].target
  <2>1. m.il[i] \in Instructions
    BY <1>0
  <2>2. m.il[i].op \in Ops /\ m.il[i].value \in Values \cup {None}
    BY <2>1 DEF Instructions
  <2>3. IsBranch(m.il[i]) <=> m.il[i].op \in Jumps
    BY <1>0 DEF Imported
  <2>4. IsBranch(m.il[i]) => \E j \in DOMAIN m.il : m.il[j].id = m.il[i].target
    BY MethodIs DEF WellFormed
  <2> QED
    BY <2>2, <2>3, <2>4, PositionExists DEF Target
<1>2. ASSUME NEW i \in DOMAIN m.il, m.il[i].op \notin NeverFallThrough
      PROVE  i + 1 \in DOMAIN m.il
  <2>1. i # Len(m.il)
    BY <1>0, <1>2 DEF InstructionsInPlace
  <2> QED
    BY <1>0, <2>1
<1>3. ASSUME NEW i \in DOMAIN m.il
      PROVE  /\ m.il[i].op = "endfinally" => Within(m.il, m.clauses, "finally", i) # {}
             /\ m.il[i].op = "rethrow" => Within(m.il, m.clauses, "catch", i) # {}
             /\ m.il[i].op = "ret" => \A c \in DOMAIN m.clauses :
                  /\ i \notin TryBlock(m.il, m.clauses[c])
                  /\ i \notin HandlerBlock(m.il, m.clauses[c])
  BY <1>0 DEF InstructionsInPlace, Within
<1>4. ASSUME NEW c \in DOMAIN m.clauses
      PROVE  /\ Position(m.il, m.clauses[c].handler_begin) \in DOMAIN m.il
             /\ Position(m.il, m.clauses[c].handler_begin) \in HandlerBlock(m.il, m.clauses[c])
  <2>1. ClauseIn(m.il, m.clauses[c])
    BY ClausesOf
  <2>2. PICK hb, he : hb = Position(m.il, m.clauses[c].handler_begin)
                      /\ he = Position(m.il, m.clauses[c].handler_end)
    OBVIOUS
  <2>3. hb \in DOMAIN m.il /\ he \in DOMAIN m.il
    BY <2>1, <2>2, PositionExists DEF ClauseIn
  <2>4. hb .. he # {}
    BY <1>0, <2>2 DEF HandlersEnteredByClause, HandlerBlock
  <2>5. hb \in hb .. he
    BY <1>0, <2>3, <2>4
  <2> QED
    BY <2>2, <2>3, <2>5 DEF HandlerBlock
<1>5. ASSUME NEW c \in DOMAIN m.clauses
      PROVE  /\ 1 \notin HandlerBlock(m.il, m.clauses[c])
             /\ \A i \in DOMAIN m.il :
                  /\ i + 1 \in HandlerBlock(m.il, m.clauses[c])
                     /\ m.il[i].op \notin NeverFallThrough
                       => i \in HandlerBlock(m.il, m.clauses[c])
                  /\ IsBranch(m.il[i]) /\ Target(m, i) \in HandlerBlock(m.il, m.clauses[c])
                       => i \in HandlerBlock(m.il, m.clauses[c])
             /\ \A d \in DOMAIN m.clauses :
                  d # c /\ Position(m.il, m.clauses[d].handler_begin)
                             \in HandlerBlock(m.il, m.clauses[c])
                    => TryBlock(m.il, m.clauses[d]) \subseteq HandlerBlock(m.il, m.clauses[c])
  BY <1>0 DEF HandlersEnteredByClause, Target
<1>6. ~m.void => m.il[1].op # "ret"
  BY <1>0 DEF InstructionsInPlace
<1>7. \A i \in DOMAIN m.il : m.il[i].op \in Jumps => IsBranch(m.il[i])
  BY <1>1
<1>8. \A c \in DOMAIN m.clauses : \A i \in DOMAIN m.il :
         m.il[i].op \in Jumps /\ Target(m, i) \in HandlerBlock(m.il, m.clauses[c])
           => i \in HandlerBlock(m.il, m.clauses[c])
  BY <1>5, <1>7
<1> QED
  BY <1>1, <1>2, <1>3, <1>4, <1>5, <1>6, <1>8

-----------------------------------------------------------------------------
(* What holds at every moment of the run by places *)

\* A sequence, of whatever was pushed
IsStack(s) == \E S : s \in Seq(S)

\* A handler has what it was entered with.
Known(m, q, c) ==
    \A j \in DOMAIN m.clauses : q \in HandlerBlock(m.il, m.clauses[j]) =>
        /\ m.clauses[j].kind = "catch" => j \in DOMAIN c.caught
        /\ m.clauses[j].kind = "finally" => j \in DOMAIN c.cont

\* BranchToReturn, of a method
JumpsToReturn(m) ==
    /\ ~m.void
    /\ \E i, j \in DOMAIN m.il : m.il[i].target = m.il[j].id /\ m.il[j].op = "ret"

\* A place that a branch may lead to
JumpedTo(m, q) == m.il[q].op = "ret" /\ ~m.void => JumpsToReturn(m)

\* What follows a finally handler
Continues(m, c, k) ==
    /\ k.at \in DOMAIN m.il
    /\ Known(m, k.at, c)
    /\ k.kind \in {"leave", "throw"}
    /\ k.kind = "leave" => k.value \in DOMAIN m.il /\ Known(m, k.value, c) /\ JumpedTo(m, k.value)
    /\ k.kind = "throw" => k.value \in Values \cup {None}

\* A moment in the method
Sound(m, c) ==
    /\ c.p \in DOMAIN m.il
    /\ c.used \in Nat
    /\ IsStack(c.stack)
    /\ Known(m, c.p, c)
    /\ \A j \in DOMAIN c.caught : c.caught[j] \in Values \cup {None}
    /\ \A j \in DOMAIN c.cont : Continues(m, c, c.cont[j])

\* The fields of a moment
LEMMA ConfIs ==
    ASSUME NEW p, NEW s, NEW ca, NEW co, NEW u
    PROVE  /\ Conf(p, s, ca, co, u).p = p
           /\ Conf(p, s, ca, co, u).stack = s
           /\ Conf(p, s, ca, co, u).caught = ca
           /\ Conf(p, s, ca, co, u).cont = co
           /\ Conf(p, s, ca, co, u).used = u
  BY DEF Conf

\* A push and a pop leave a stack, a pop of the empty stack too.
LEMMA StackSteps ==
    ASSUME NEW s, IsStack(s), NEW x
    PROVE  IsStack(Append(s, x)) /\ IsStack(PoppedOf(s)) /\ IsStack(<<>>) /\ IsStack(<<x>>)
           /\ Len(s) \in Nat
<1>1. PICK S : s \in Seq(S)
  BY DEF IsStack
<1>2. Append(s, x) \in Seq(S \cup {x}) /\ Len(s) \in Nat
  BY <1>1
<1>3. PoppedOf(s) \in Seq(S)
  <2>1. CASE Len(s) = 0
    <3>1. SubSeq(s, 1, Len(s) - 1) = <<>>
      BY <1>1, <2>1
    <3> QED
      BY <3>1 DEF PoppedOf
  <2>2. CASE Len(s) # 0
    <3>1. 1 \in 1 .. (Len(s) + 1) /\ Len(s) - 1 \in (1 - 1) .. Len(s)
      BY <1>1, <1>2, <2>2
    <3> QED
      BY <1>1, <3>1, SubSeqProperties DEF PoppedOf
  <2> QED
    BY <2>1, <2>2
<1>4. <<>> \in Seq(S) /\ <<x>> \in Seq({x})
  OBVIOUS
<1> QED
  BY <1>2, <1>3, <1>4 DEF IsStack

\* What handlers know is not forgotten.
LEMMA KnownGrows ==
    ASSUME NEW m, NEW c, NEW d, DOMAIN c.caught \subseteq DOMAIN d.caught,
           DOMAIN c.cont \subseteq DOMAIN d.cont
    PROVE  /\ \A q : Known(m, q, c) => Known(m, q, d)
           /\ \A k : Continues(m, c, k) => Continues(m, d, k)
<1>1. \A q : Known(m, q, c) => Known(m, q, d)
  BY DEF Known
<1> QED
  BY <1>1 DEF Continues

\* An exception or a leave comes to a handler from its try block: the handlers around the
\* one it enters are those around the place it comes from.
LEMMA EntersSound ==
    ASSUME NEW m \in Methods, NEW c, Sound(m, c), NEW a \in DOMAIN m.il, Known(m, a, c),
           NEW i \in DOMAIN m.clauses, a \in TryBlock(m.il, m.clauses[i]),
           NEW d, DOMAIN c.caught \subseteq DOMAIN d.caught, DOMAIN c.cont \subseteq DOMAIN d.cont,
           m.clauses[i].kind = "catch" => i \in DOMAIN d.caught,
           m.clauses[i].kind = "finally" => i \in DOMAIN d.cont,
           NEW q, q = Position(m.il, m.clauses[i].handler_begin)
    PROVE  q \in DOMAIN m.il /\ m.il[q].op # "ret" /\ Known(m, q, d)
<1>1. /\ q \in DOMAIN m.il
      /\ q \in HandlerBlock(m.il, m.clauses[i])
      /\ \A x \in DOMAIN m.clauses : i # x /\ q \in HandlerBlock(m.il, m.clauses[x])
            => TryBlock(m.il, m.clauses[i]) \subseteq HandlerBlock(m.il, m.clauses[x])
      /\ \A x \in DOMAIN m.il : m.il[x].op = "ret" =>
            \A y \in DOMAIN m.clauses : x \notin HandlerBlock(m.il, m.clauses[y])
  BY Rules
<1>2. m.il[q].op # "ret"
  BY <1>1
<1>3. ASSUME NEW j \in DOMAIN m.clauses, q \in HandlerBlock(m.il, m.clauses[j])
      PROVE  /\ m.clauses[j].kind = "catch" => j \in DOMAIN d.caught
             /\ m.clauses[j].kind = "finally" => j \in DOMAIN d.cont
  <2>1. CASE j = i
    BY <2>1
  <2>2. CASE j # i
    <3>1. a \in HandlerBlock(m.il, m.clauses[j])
      BY <1>1, <1>3, <2>2
    <3> QED
      BY <3>1 DEF Known
  <2> QED
    BY <2>1, <2>2
<1> QED
  BY <1>1, <1>2, <1>3 DEF Known

\* An exception ends the method or comes to a handler.
LEMMA ARaiseSound ==
    ASSUME NEW m \in Methods, NEW c, Sound(m, c), NEW a \in DOMAIN m.il, Known(m, a, c),
           NEW e \in Values \cup {None}, NEW first \in Nat, NEW u \in Nat
    PROVE  \/ /\ Catching(m.il, m.clauses, a, first) = {}
              /\ ARaise(m, c, u, e, a, first) = Fin([kind |-> "throw", value |-> e])
           \/ /\ Catching(m.il, m.clauses, a, first) # {}
              /\ Sound(m, ARaise(m, c, u, e, a, first))
              /\ m.il[ARaise(m, c, u, e, a, first).p].op # "ret"
<1> DEFINE found == Catching(m.il, m.clauses, a, first)
<1>1. CASE found = {}
  BY <1>1 DEF ARaise
<1>2. CASE found # {}
  <2>1. PICK i : i = Min(found)
    OBVIOUS
  <2>2. i \in DOMAIN m.clauses /\ a \in TryBlock(m.il, m.clauses[i])
    <3>1. found \in SUBSET Nat
      BY ClausesOf DEF Catching
    <3>2. i \in found
      BY <1>2, <2>1, <3>1, MinIsLeast
    <3> QED
      BY <3>2 DEF Catching
  <2>3. PICK q : q = Position(m.il, m.clauses[i].handler_begin)
    OBVIOUS
  <2>4. PICK d : d = ARaise(m, c, u, e, a, first)
    OBVIOUS
  <2>5. m.clauses[i].kind = "catch" \/ m.clauses[i].kind = "finally"
    BY <2>2, ClausesOf DEF ClauseIn
  <2>6. CASE m.clauses[i].kind = "catch"
    <3>1. d = Conf(q, <<e>>, With(c.caught, i, e), c.cont, u)
      BY <1>2, <2>1, <2>3, <2>4, <2>6 DEF ARaise
    <3>2. /\ d.p = q /\ d.stack = <<e>> /\ d.caught = With(c.caught, i, e) /\ d.cont = c.cont
          /\ d.used = u
      BY <3>1, ConfIs
    <3>3. /\ DOMAIN d.caught = DOMAIN c.caught \cup {i} /\ d.caught[i] = e
          /\ \A j \in DOMAIN c.caught : j # i => d.caught[j] = c.caught[j]
      BY <3>2 DEF With
    <3>4. q \in DOMAIN m.il /\ m.il[q].op # "ret" /\ Known(m, q, d)
      BY <2>2, <2>3, <2>6, <3>2, <3>3, EntersSound
    <3>5. \A j \in DOMAIN d.cont : Continues(m, d, d.cont[j])
      BY <3>2, <3>3, KnownGrows DEF Sound
    <3>6. \A j \in DOMAIN d.caught : d.caught[j] \in Values \cup {None}
      BY <3>3 DEF Sound
    <3>7. IsStack(d.stack)
      BY <3>2, StackSteps DEF Sound
    <3> QED
      BY <1>2, <2>4, <3>2, <3>4, <3>5, <3>6, <3>7 DEF Sound
  <2>7. CASE m.clauses[i].kind = "finally"
    <3>0. PICK k : k = [kind |-> "throw", value |-> e, at |-> a]
      OBVIOUS
    <3>1. d = Conf(q, <<>>, c.caught, With(c.cont, i, k), u)
      BY <1>2, <2>1, <2>3, <2>4, <2>7, <3>0 DEF ARaise
    <3>2. /\ d.p = q /\ d.stack = <<>> /\ d.caught = c.caught /\ d.cont = With(c.cont, i, k)
          /\ d.used = u
      BY <3>1, ConfIs
    <3>3. /\ DOMAIN d.cont = DOMAIN c.cont \cup {i} /\ d.cont[i] = k
          /\ \A j \in DOMAIN c.cont : j # i => d.cont[j] = c.cont[j]
      BY <3>2 DEF With
    <3>4. q \in DOMAIN m.il /\ m.il[q].op # "ret" /\ Known(m, q, d)
      BY <2>2, <2>3, <2>7, <3>2, <3>3, EntersSound
    <3>5. Continues(m, c, k)
      BY <3>0 DEF Continues
    <3>6. \A j \in DOMAIN d.cont : Continues(m, d, d.cont[j])
      <4>1. \A x : Continues(m, c, x) => Continues(m, d, x)
        BY <3>2, <3>3, KnownGrows
      <4> QED
        BY <3>3, <3>5, <4>1 DEF Sound
    <3>7. IsStack(d.stack)
      BY <3>2, StackSteps DEF Sound
    <3> QED
      BY <1>2, <2>4, <3>2, <3>4, <3>6, <3>7 DEF Sound
  <2> QED
    BY <2>5, <2>6, <2>7
<1> QED
  BY <1>1, <1>2

\* A leave comes to a sound moment.
LEMMA ALeaveSound ==
    ASSUME NEW m \in Methods, NEW c, Sound(m, c), NEW a \in DOMAIN m.il, Known(m, a, c),
           NEW b \in DOMAIN m.il, Known(m, b, c), JumpedTo(m, b), NEW first \in Nat
    PROVE  /\ Sound(m, ALeave(m, c, b, a, first))
           /\ JumpedTo(m, ALeave(m, c, b, a, first).p)
<1> DEFINE through == Through(m.il, m.clauses, b, a, first)
<1>0. PICK d : d = ALeave(m, c, b, a, first)
  OBVIOUS
<1>1. CASE through = {}
  <2>1. d = Conf(b, <<>>, c.caught, c.cont, c.used)
    BY <1>0, <1>1 DEF ALeave
  <2>2. d.p = b /\ d.stack = <<>> /\ d.caught = c.caught /\ d.cont = c.cont /\ d.used = c.used
    BY <2>1, ConfIs
  <2>3. Known(m, b, d) /\ \A j \in DOMAIN d.cont : Continues(m, d, d.cont[j])
    BY <2>2, KnownGrows DEF Sound
  <2>4. IsStack(d.stack)
    BY <2>2, StackSteps DEF Sound
  <2> QED
    BY <1>0, <2>2, <2>3, <2>4 DEF Sound
<1>2. CASE through # {}
  <2>1. PICK i : i = Min(through)
    OBVIOUS
  <2>2. i \in DOMAIN m.clauses /\ a \in TryBlock(m.il, m.clauses[i]) /\ m.clauses[i].kind = "finally"
    <3>1. through \in SUBSET Nat
      BY ClausesOf DEF Through
    <3>2. i \in through
      BY <1>2, <2>1, <3>1, MinIsLeast
    <3> QED
      BY <3>2 DEF Through
  <2>3. PICK q, k : /\ q = Position(m.il, m.clauses[i].handler_begin)
                    /\ k = [kind |-> "leave", value |-> b, at |-> a]
    OBVIOUS
  <2>4. d = Conf(q, <<>>, c.caught, With(c.cont, i, k), c.used)
    BY <1>0, <1>2, <2>1, <2>3 DEF ALeave
  <2>5. /\ d.p = q /\ d.stack = <<>> /\ d.caught = c.caught /\ d.cont = With(c.cont, i, k)
        /\ d.used = c.used
    BY <2>4, ConfIs
  <2>6. /\ DOMAIN d.cont = DOMAIN c.cont \cup {i} /\ d.cont[i] = k
        /\ \A j \in DOMAIN c.cont : j # i => d.cont[j] = c.cont[j]
    BY <2>5 DEF With
  <2>7. q \in DOMAIN m.il /\ m.il[q].op # "ret" /\ Known(m, q, d)
    BY <2>2, <2>3, <2>5, <2>6, EntersSound
  <2>8. Continues(m, c, k)
    BY <2>3 DEF Continues
  <2>9. \A j \in DOMAIN d.cont : Continues(m, d, d.cont[j])
    <3>1. \A x : Continues(m, c, x) => Continues(m, d, x)
      BY <2>5, <2>6, KnownGrows
    <3> QED
      BY <2>6, <2>8, <3>1 DEF Sound
  <2>10. IsStack(d.stack)
    BY <2>5, StackSteps DEF Sound
  <2> QED
    BY <1>0, <2>5, <2>7, <2>9, <2>10 DEF Sound, JumpedTo
<1> QED
  BY <1>1, <1>2

\* ANext, by the instruction
LEMMA ANextIs ==
    ASSUME NEW m, NEW T, NEW c
    PROVE  /\ m.il[c.p].op = "nop" => ANext(m, T, c) = Go(c, c.p + 1, c.stack, c.used)
           /\ m.il[c.p].op = "push" =>
                ANext(m, T, c) = Go(c, c.p + 1, Append(c.stack, m.il[c.p].value), c.used)
           /\ m.il[c.p].op = "dup" =>
                ANext(m, T, c) = Go(c, c.p + 1, Append(c.stack, TopOf(c.stack)), c.used)
           /\ m.il[c.p].op = "pop" => ANext(m, T, c) = Go(c, c.p + 1, PoppedOf(c.stack), c.used)
           /\ m.il[c.p].op = "br" => ANext(m, T, c) = Go(c, Target(m, c.p), c.stack, c.used)
           /\ m.il[c.p].op = "brtrue" =>
                /\ T[c.used + 1] =>
                     ANext(m, T, c) = Go(c, Target(m, c.p), PoppedOf(c.stack), c.used + 1)
                /\ ~T[c.used + 1] =>
                     ANext(m, T, c) = Go(c, c.p + 1, PoppedOf(c.stack), c.used + 1)
           /\ m.il[c.p].op = "call" =>
                /\ T[c.used + 1] =>
                     ANext(m, T, c) = ARaise(m, c, c.used + 1, m.il[c.p].value, c.p, 1)
                /\ ~T[c.used + 1] => ANext(m, T, c) = Go(c, c.p + 1, c.stack, c.used + 1)
           /\ m.il[c.p].op = "leave" => ANext(m, T, c) = ALeave(m, c, Target(m, c.p), c.p, 1)
           /\ m.il[c.p].op = "ret" =>
                ANext(m, T, c) =
                  Fin([kind |-> "ret", value |-> IF m.void THEN None ELSE TopOf(c.stack)])
<1>1. PICK op : op = m.il[c.p].op
  BY Zenon
<1>2. CASE op = "nop"
  BY <1>1, <1>2, SMTT(30) DEF ANext
<1>3. CASE op = "push"
  BY <1>1, <1>3, SMTT(30) DEF ANext
<1>4. CASE op = "dup"
  BY <1>1, <1>4 DEF ANext
<1>5. CASE op = "pop"
  BY <1>1, <1>5, SMTT(30) DEF ANext
<1>6. CASE op = "br"
  BY <1>1, <1>6, SMTT(30) DEF ANext
<1>7. CASE op = "brtrue"
  BY <1>1, <1>7, SMTT(30) DEF ANext
<1>8. CASE op = "call"
  BY <1>1, <1>8, SMTT(30) DEF ANext
<1>9. CASE op = "leave"
  BY <1>1, <1>9, SMTT(30) DEF ANext
<1>12. CASE op = "ret"
  BY <1>1, <1>12 DEF ANext
<1>13. CASE op \notin Ops
  BY <1>1, <1>13 DEF Ops, Jumps, NeverFallThrough
<1>10. CASE op \in {"endfinally", "rethrow"}
  BY <1>1, <1>10
<1> QED
  BY <1>2, <1>3, <1>4, <1>5, <1>6, <1>7, <1>8, <1>9, <1>10, <1>12, <1>13
     DEF Ops, Jumps, NeverFallThrough

\* What follows a finally handler, in the run by places
LEMMA EndFinallyIs ==
    ASSUME NEW m, NEW T, NEW c, m.il[c.p].op = "endfinally",
           NEW i, i = Innermost(m, "finally", c.p), NEW k, k = c.cont[i]
    PROVE  /\ k.kind = "leave" => ANext(m, T, c) = ALeave(m, c, k.value, k.at, i + 1)
           /\ k.kind # "leave" => ANext(m, T, c) = ARaise(m, c, c.used, k.value, k.at, i + 1)
  BY DEF ANext

\* What follows a rethrow, in the run by places
LEMMA RethrowIs ==
    ASSUME NEW m, NEW T, NEW c, m.il[c.p].op = "rethrow",
           NEW i, i = Innermost(m, "catch", c.p)
    PROVE  ANext(m, T, c) = ARaise(m, c, c.used, c.caught[i], c.p, 1)
  BY DEF ANext

\* The fields of a moment that goes on
LEMMA GoIs ==
    ASSUME NEW c, NEW q, NEW s, NEW u
    PROVE  /\ Go(c, q, s, u).p = q
           /\ Go(c, q, s, u).stack = s
           /\ Go(c, q, s, u).caught = c.caught
           /\ Go(c, q, s, u).cont = c.cont
           /\ Go(c, q, s, u).used = u
  BY DEF Go, Conf

\* A moment that goes on in the method is sound.
LEMMA GoSound ==
    ASSUME NEW m, NEW c, Sound(m, c), NEW q \in DOMAIN m.il, Known(m, q, c), NEW s, IsStack(s),
           NEW u \in Nat
    PROVE  Sound(m, Go(c, q, s, u))
<1>1. PICK d : d = Go(c, q, s, u)
  OBVIOUS
<1>2. d.p = q /\ d.stack = s /\ d.caught = c.caught /\ d.cont = c.cont /\ d.used = u
  BY <1>1, GoIs
<1>3. Known(m, q, d) /\ \A k : Continues(m, c, k) => Continues(m, d, k)
  BY <1>2, KnownGrows
<1> QED
  BY <1>1, <1>2, <1>3 DEF Sound

\* Where the next step may go
Falls(m, c, d) == m.il[c.p].op \notin NeverFallThrough /\ d.p = c.p + 1
\* The method has thrown.
Ends(d) == \E e \in Values \cup {None} : d = Fin([kind |-> "throw", value |-> e])

\* Innermost is a clause that was entered.
LEMMA InnermostIs ==
    ASSUME NEW m \in Methods, NEW c, Sound(m, c), NEW kind, Within(m.il, m.clauses, kind, c.p) # {}
    PROVE  /\ Innermost(m, kind, c.p) \in DOMAIN m.clauses
           /\ Innermost(m, kind, c.p) \in Nat
           /\ Innermost(m, kind, c.p) <= Len(m.clauses)
           /\ kind = "catch" => Innermost(m, kind, c.p) \in DOMAIN c.caught
           /\ kind = "finally" => Innermost(m, kind, c.p) \in DOMAIN c.cont
<1>1. PICK S : S = Within(m.il, m.clauses, kind, c.p)
  OBVIOUS
<1>2. PICK i : i = Innermost(m, kind, c.p)
  OBVIOUS
<1>3. S \in SUBSET Nat /\ S # {}
  BY <1>1, ClausesOf DEF Within
<1>4. i \in S
  BY <1>1, <1>2, <1>3, MinIsLeast DEF Innermost
<1>5. i \in DOMAIN m.clauses /\ m.clauses[i].kind = kind /\ c.p \in HandlerBlock(m.il, m.clauses[i])
  BY <1>1, <1>4 DEF Within
<1>6. i \in Nat /\ i <= Len(m.clauses)
  BY <1>5, ClausesOf
<1> QED
  BY <1>2, <1>5, <1>6 DEF Sound, Known

\* A step from a sound moment leads to one or to an end.
LEMMA SoundStep ==
    ASSUME NEW m \in Methods, NEW T, NEW c, Sound(m, c), m.il[c.p].op # "ret"
    PROVE  \/ Ends(ANext(m, T, c))
           \/ /\ Sound(m, ANext(m, T, c))
              /\ Falls(m, c, ANext(m, T, c)) \/ JumpedTo(m, ANext(m, T, c).p)
<1>0. /\ c.p \in DOMAIN m.il /\ m.il[c.p].op \in Ops /\ c.used \in Nat /\ c.used + 1 \in Nat
      /\ IsStack(c.stack) /\ Known(m, c.p, c) /\ m.il[c.p].value \in Values \cup {None}
  BY Rules DEF Sound
<1>1. PICK d : d = ANext(m, T, c)
  OBVIOUS
<1> SUFFICES Ends(d) \/ (Sound(m, d) /\ (Falls(m, c, d) \/ JumpedTo(m, d.p)))
  BY <1>1
<1>2. ASSUME m.il[c.p].op \notin NeverFallThrough
      PROVE  c.p + 1 \in DOMAIN m.il /\ Known(m, c.p + 1, c)
  <2>1. c.p + 1 \in DOMAIN m.il
    BY <1>0, <1>2, Rules
  <2>2. \A j \in DOMAIN m.clauses : c.p + 1 \in HandlerBlock(m.il, m.clauses[j])
          => c.p \in HandlerBlock(m.il, m.clauses[j])
    BY <1>0, <1>2, Rules
  <2> QED
    BY <1>0, <2>1, <2>2 DEF Known
<1>3. ASSUME m.il[c.p].op \in Jumps
      PROVE  /\ Target(m, c.p) \in DOMAIN m.il
             /\ Known(m, Target(m, c.p), c)
             /\ JumpedTo(m, Target(m, c.p))
  <2>1. Target(m, c.p) \in DOMAIN m.il /\ m.il[Target(m, c.p)].id = m.il[c.p].target
    BY <1>0, <1>3, Rules
  <2>2. \A j \in DOMAIN m.clauses : Target(m, c.p) \in HandlerBlock(m.il, m.clauses[j])
          => c.p \in HandlerBlock(m.il, m.clauses[j])
    BY <1>0, <1>3, Rules
  <2>3. Known(m, Target(m, c.p), c)
    BY <1>0, <2>2 DEF Known
  <2>4. JumpedTo(m, Target(m, c.p))
    BY <1>0, <2>1 DEF JumpedTo, JumpsToReturn
  <2> QED
    BY <2>1, <2>3, <2>4
<1>4. ASSUME NEW s, NEW u \in Nat, IsStack(s), d = Go(c, c.p + 1, s, u),
             m.il[c.p].op \notin NeverFallThrough
      PROVE  Sound(m, d) /\ Falls(m, c, d)
  BY <1>2, <1>4, GoSound, GoIs DEF Falls
<1>5. ASSUME NEW s, NEW u \in Nat, IsStack(s), d = Go(c, Target(m, c.p), s, u),
             m.il[c.p].op \in Jumps
      PROVE  Sound(m, d) /\ JumpedTo(m, d.p)
  BY <1>3, <1>5, GoSound, GoIs
<1>6. ASSUME NEW a \in DOMAIN m.il, Known(m, a, c), NEW e \in Values \cup {None},
             NEW first \in Nat, NEW u \in Nat, d = ARaise(m, c, u, e, a, first)
      PROVE  Ends(d) \/ (Sound(m, d) /\ JumpedTo(m, d.p))
  <2>1. \/ ARaise(m, c, u, e, a, first) = Fin([kind |-> "throw", value |-> e])
        \/ Sound(m, ARaise(m, c, u, e, a, first)) /\ m.il[ARaise(m, c, u, e, a, first).p].op # "ret"
    BY <1>6, ARaiseSound
  <2> QED
    BY <1>6, <2>1 DEF Ends, JumpedTo
<1>7. IsStack(Append(c.stack, m.il[c.p].value)) /\ IsStack(Append(c.stack, TopOf(c.stack)))
      /\ IsStack(PoppedOf(c.stack))
  BY <1>0, StackSteps
<1>8. CASE m.il[c.p].op \in {"nop", "push", "dup", "pop"}
  <2>1. m.il[c.p].op \notin NeverFallThrough
    BY <1>8 DEF NeverFallThrough
  <2>2. \E s : IsStack(s) /\ d = Go(c, c.p + 1, s, c.used)
    <3>1. CASE m.il[c.p].op = "nop"
      BY <1>0, <1>1, <3>1, ANextIs
    <3>2. CASE m.il[c.p].op = "push"
      BY <1>1, <1>7, <3>2, ANextIs
    <3>3. CASE m.il[c.p].op = "dup"
      BY <1>1, <1>7, <3>3, ANextIs
    <3>4. CASE m.il[c.p].op = "pop"
      BY <1>1, <1>7, <3>4, ANextIs
    <3> QED
      BY <1>8, <3>1, <3>2, <3>3, <3>4
  <2> QED
    BY <1>0, <1>4, <2>1, <2>2
<1>9. CASE m.il[c.p].op = "br"
  <2>1. m.il[c.p].op \in Jumps /\ d = Go(c, Target(m, c.p), c.stack, c.used)
    BY <1>1, <1>9, ANextIs, ZenonT(30) DEF Jumps
  <2> QED
    BY <1>0, <1>5, <2>1
<1>10. CASE m.il[c.p].op = "brtrue"
  <2>1. m.il[c.p].op \in Jumps /\ m.il[c.p].op \notin NeverFallThrough
    BY <1>10 DEF Jumps, NeverFallThrough
  <2>2. \/ d = Go(c, Target(m, c.p), PoppedOf(c.stack), c.used + 1)
        \/ d = Go(c, c.p + 1, PoppedOf(c.stack), c.used + 1)
    BY <1>1, <1>10, ANextIs, ZenonT(30)
  <2> QED
    BY <1>0, <1>4, <1>5, <1>7, <2>1, <2>2
<1>11. CASE m.il[c.p].op = "call"
  <2>1. m.il[c.p].op \notin NeverFallThrough
    BY <1>11 DEF NeverFallThrough
  <2>2. \/ d = ARaise(m, c, c.used + 1, m.il[c.p].value, c.p, 1)
        \/ d = Go(c, c.p + 1, c.stack, c.used + 1)
    BY <1>1, <1>11, ANextIs, ZenonT(30)
  <2> QED
    BY <1>0, <1>4, <1>6, <2>1, <2>2
<1>12. CASE m.il[c.p].op = "leave"
  <2>1. m.il[c.p].op \in Jumps /\ d = ALeave(m, c, Target(m, c.p), c.p, 1)
    BY <1>1, <1>12, ANextIs, ZenonT(30) DEF Jumps
  <2> QED
    BY <1>0, <1>3, <2>1, ALeaveSound
<1>13. CASE m.il[c.p].op = "endfinally"
  <2>1. PICK i, k : i = Innermost(m, "finally", c.p) /\ k = c.cont[i]
    OBVIOUS
  <2>2. i \in DOMAIN c.cont /\ i \in Nat
    BY <1>0, <1>13, <2>1, Rules, InnermostIs
  <2>3. Continues(m, c, k)
    BY <2>1, <2>2 DEF Sound
  <2>4. /\ k.kind = "leave" => d = ALeave(m, c, k.value, k.at, i + 1)
        /\ k.kind # "leave" => d = ARaise(m, c, c.used, k.value, k.at, i + 1)
    BY <1>1, <1>13, <2>1, EndFinallyIs
  <2>5. i + 1 \in Nat
    BY <2>2
  <2>6. CASE k.kind = "leave"
    BY <2>3, <2>4, <2>5, <2>6, ALeaveSound DEF Continues
  <2>7. CASE k.kind # "leave"
    <3>1. k.at \in DOMAIN m.il /\ Known(m, k.at, c) /\ k.value \in Values \cup {None}
      BY <2>3, <2>7 DEF Continues
    <3> QED
      BY <1>0, <1>6, <2>4, <2>5, <2>7, <3>1
  <2> QED
    BY <2>6, <2>7
<1>14. CASE m.il[c.p].op = "rethrow"
  <2>1. PICK i : i = Innermost(m, "catch", c.p)
    OBVIOUS
  <2>2. i \in DOMAIN c.caught
    BY <1>0, <1>14, <2>1, Rules, InnermostIs
  <2>3. c.caught[i] \in Values \cup {None}
    BY <2>2 DEF Sound
  <2>4. d = ARaise(m, c, c.used, c.caught[i], c.p, 1)
    BY <1>1, <1>14, <2>1, RethrowIs
  <2> QED
    BY <1>0, <1>6, <2>3, <2>4
<1> QED
  BY <1>0, <1>8, <1>9, <1>10, <1>11, <1>12, <1>13, <1>14 DEF Ops, Jumps, NeverFallThrough

-----------------------------------------------------------------------------
(* The run of the program, by places *)

\* The instruction tells the action.
LEMMA WhichAction ==
    ASSUME Next, phase \in {"original", "rewritten"}, NEW op, op = il[Here].op
    PROVE  /\ op \in {"nop", "push", "dup", "pop"} => Straight
           /\ op \in {"br", "brtrue"} => Branch
           /\ op = "call" => Call
           /\ op = "leave" => Leave
           /\ op = "endfinally" => EndFinally
           /\ op = "rethrow" => Rethrow
           /\ op = "ret" => Return
           /\ op \in {"init", "stexc", "stret", "ldret", "log"} => AddedStraight
           /\ op = "begin" => BeginMethod
           /\ op = "end" => EndMethod
<1>1. ~Skip /\ ~Rewrite /\ ~Export
  BY DEF Skip, Rewrite, Export
<1>2. Straight => op \in {"nop", "push", "dup", "pop"}
  BY DEF Straight, Op
<1>3. Branch => op \in {"br", "brtrue"}
  BY DEF Branch, Op
<1>4. (Call => op = "call") /\ (Leave => op = "leave") /\ (EndFinally => op = "endfinally")
      /\ (Rethrow => op = "rethrow") /\ (Return => op = "ret")
  BY DEF Call, Leave, EndFinally, Rethrow, Return, Op
<1>5. AddedStraight => op \in {"init", "stexc", "stret", "ldret", "log"}
  BY DEF AddedStraight, Op
<1>6. (BeginMethod => op = "begin") /\ (EndMethod => op = "end")
  BY DEF BeginMethod, EndMethod, Op
<1> QED
  BY <1>1, <1>2, <1>3, <1>4, <1>5, <1>6 DEF Next

\* The list holds the method.
Framed(m, at, from) == Frame(m, il, clauses, at, from) /\ m_offset = Offsets(il)

\* What follows a finally handler, with offsets for places
Located(at, k) ==
    [kind |-> k.kind,
     value |-> IF k.kind = "leave" THEN m_offset[at[k.value]] ELSE k.value,
     at |-> m_offset[at[k.at]]]

\* The run of the program is in the method, at moment c of the run by places.
Body(m, at, from, c) ==
    /\ Sound(m, c)
    /\ \/ ip = m_offset[from[c.p]]
       \/ ip = m_offset[at[c.p]] /\ JumpedTo(m, c.p)
    /\ stack = c.stack
    /\ \A j \in DOMAIN c.caught : j \in DOMAIN caught /\ caught[j] = c.caught[j]
    /\ \A j \in DOMAIN c.cont : j \in DOMAIN cont /\ cont[j] = Located(at, c.cont[j])

\* A step from moment c to moment d
Goes(m, at, c, d) ==
    /\ phase' = phase /\ result' = result /\ outcome' = outcome
    /\ \/ ip' = m_offset[at[d.p]] /\ d.p \in DOMAIN m.il /\ JumpedTo(m, d.p)
       \/ ip' = m_offset[at[c.p] + 1] /\ d.p = c.p + 1
    /\ stack' = d.stack
    /\ \A j \in DOMAIN d.caught : j \in DOMAIN caught' /\ caught'[j] = d.caught[j]
    /\ \A j \in DOMAIN d.cont : j \in DOMAIN cont' /\ cont'[j] = Located(at, d.cont[j])

\* An exception that the method does not catch
Escapes(m, at, d) ==
    \E e \in Values \cup {None}, a \in DOMAIN m.il, first \in Nat :
        /\ first <= Len(m.clauses) + 1
        /\ d = Fin([kind |-> "throw", value |-> e])
        /\ Catching(m.il, m.clauses, a, first) = {}
        /\ Raise(e, m_offset[at[a]], first)

\* A list that holds the method is exact and has the method's clauses first.
LEMMA FramedIs ==
    ASSUME NEW m, NEW at, NEW from, Framed(m, at, from)
    PROVE  /\ Exact
           /\ m \in Methods /\ Frame(m, il, clauses, at, from)
           /\ at \in [DOMAIN m.il -> DOMAIN il]
           /\ DOMAIN m.clauses \subseteq DOMAIN clauses
           /\ \A j \in DOMAIN m.clauses : clauses[j] = m.clauses[j]
<1>1. /\ clauses \in Seq(ClauseSet) /\ m \in Methods /\ Len(m.clauses) <= Len(clauses)
      /\ \A j \in DOMAIN m.clauses : clauses[j] = m.clauses[j]
  BY DEF Framed, Frame
<1>2. DOMAIN clauses \subseteq Nat /\ DOMAIN m.clauses \subseteq DOMAIN clauses
  BY <1>1, ClausesOf
<1> QED
  BY <1>1, <1>2 DEF Framed, Frame, Exact

\* The fields of what follows a finally handler, with offsets
LEMMA LocatedIs ==
    ASSUME NEW at, NEW k
    PROVE  /\ Located(at, k).kind = k.kind
           /\ Located(at, k).at = m_offset[at[k.at]]
           /\ k.kind = "leave" => Located(at, k).value = m_offset[at[k.value]]
           /\ k.kind # "leave" => Located(at, k).value = k.value
  BY DEF Located

\* A handler does not begin with a return.
LEMMA HandlerNoReturn ==
    ASSUME NEW m \in Methods, NEW i \in DOMAIN m.clauses
    PROVE  /\ Position(m.il, m.clauses[i].handler_begin) \in DOMAIN m.il
           /\ m.il[Position(m.il, m.clauses[i].handler_begin)].op # "ret"
<1>1. PICK q : q = Position(m.il, m.clauses[i].handler_begin)
  OBVIOUS
<1>2. q \in DOMAIN m.il /\ q \in HandlerBlock(m.il, m.clauses[i])
  BY <1>1, Rules
<1>3. m.il[q].op = "ret" => q \notin HandlerBlock(m.il, m.clauses[i])
  BY <1>2, Rules
<1> QED
  BY <1>1, <1>2, <1>3

\* An exception in the list follows the one in the method.
LEMMA RaiseFollows ==
    ASSUME NEW m, NEW at, NEW from, Framed(m, at, from), NEW c, Body(m, at, from, c),
           NEW a \in DOMAIN m.il, NEW e, NEW first \in Nat, NEW u,
           Raise(e, m_offset[at[a]], first)
    PROVE  \/ /\ Catching(m.il, m.clauses, a, first) = {}
              /\ ARaise(m, c, u, e, a, first) = Fin([kind |-> "throw", value |-> e])
           \/ Goes(m, at, c, ARaise(m, c, u, e, a, first))
<1> DEFINE found == Catching(m.il, m.clauses, a, first)
<1>1. CASE found = {}
  BY <1>1 DEF ARaise
<1>2. CASE found # {}
  <2>0. Exact /\ at[a] \in DOMAIN il /\ Frame(m, il, clauses, at, from)
    BY FramedIs
  <2>1. PICK i : i = Min(found)
    OBVIOUS
  <2>2. /\ Min(Catching(il, clauses, at[a], first)) = i
        /\ i \in found /\ Catching(il, clauses, at[a], first) # {}
    BY <1>2, <2>0, <2>1, OwnCatching
  <2>3. i \in DOMAIN m.clauses /\ clauses[i] = m.clauses[i]
    BY <2>2, FramedIs DEF Catching
  <2>4. PICK q : q = Position(m.il, m.clauses[i].handler_begin)
    OBVIOUS
  <2>5. Handled(e, at[a], i)
    BY <2>0, <2>2, RaiseIs
  <2>6. Position(il, clauses[i].handler_begin) = at[q]
    BY <2>0, <2>3, <2>4, OwnBlocks
  <2>7. ip' = m_offset[at[q]] /\ phase' = phase /\ result' = result /\ outcome' = outcome
    BY <2>5, <2>6 DEF Handled
  <2>8. PICK d : d = ARaise(m, c, u, e, a, first)
    OBVIOUS
  <2>11. q \in DOMAIN m.il /\ JumpedTo(m, q)
    BY <2>3, <2>4, FramedIs, HandlerNoReturn DEF JumpedTo
  <2>9. CASE m.clauses[i].kind = "catch"
    <3>1. d = Conf(q, <<e>>, With(c.caught, i, e), c.cont, u)
      BY <1>2, <2>1, <2>4, <2>8, <2>9 DEF ARaise
    <3>2. d.p = q /\ d.stack = <<e>> /\ d.caught = With(c.caught, i, e) /\ d.cont = c.cont
      BY <3>1, ConfIs
    <3>3. stack' = <<e>> /\ caught' = With(caught, i, e) /\ cont' = cont
      BY <2>3, <2>5, <2>9 DEF Handled
    <3>4. \A j \in DOMAIN d.caught : j \in DOMAIN caught' /\ caught'[j] = d.caught[j]
      BY <3>2, <3>3 DEF With, Body
    <3>5. \A j \in DOMAIN d.cont : j \in DOMAIN cont' /\ cont'[j] = Located(at, d.cont[j])
      BY <3>2, <3>3 DEF Body
    <3> QED
      BY <2>7, <2>8, <2>11, <3>2, <3>3, <3>4, <3>5 DEF Goes
  <2>10. CASE m.clauses[i].kind # "catch"
    <3>0. PICK k, l : /\ k = [kind |-> "throw", value |-> e, at |-> a]
                      /\ l = [kind |-> "throw", value |-> e, at |-> m_offset[at[a]]]
      OBVIOUS
    <3>1. d = Conf(q, <<>>, c.caught, With(c.cont, i, k), u)
      BY <1>2, <2>1, <2>4, <2>8, <2>10, <3>0 DEF ARaise
    <3>2. d.p = q /\ d.stack = <<>> /\ d.caught = c.caught /\ d.cont = With(c.cont, i, k)
      BY <3>1, ConfIs
    <3>3. stack' = <<>> /\ caught' = caught /\ cont' = With(cont, i, l)
      BY <2>3, <2>5, <2>10, <3>0 DEF Handled
    <3>4. l = Located(at, k)
      BY <3>0 DEF Located
    <3>5. \A j \in DOMAIN d.cont : j \in DOMAIN cont' /\ cont'[j] = Located(at, d.cont[j])
      BY <3>2, <3>3, <3>4 DEF With, Body
    <3>6. \A j \in DOMAIN d.caught : j \in DOMAIN caught' /\ caught'[j] = d.caught[j]
      BY <3>2, <3>3 DEF Body
    <3> QED
      BY <2>7, <2>8, <2>11, <3>2, <3>3, <3>5, <3>6 DEF Goes
  <2> QED
    BY <2>9, <2>10
<1> QED
  BY <1>1, <1>2

\* A leave in the list follows the one in the method.
LEMMA LeaveFollows ==
    ASSUME NEW m, NEW at, NEW from, Framed(m, at, from), NEW c, Body(m, at, from, c),
           NEW a \in DOMAIN m.il, NEW b \in DOMAIN m.il, NEW first \in Nat,
           JumpedTo(m, b), LeaveTo(m_offset[at[b]], m_offset[at[a]], first)
    PROVE  Goes(m, at, c, ALeave(m, c, b, a, first))
<1>0. /\ Exact /\ at[a] \in DOMAIN il /\ at[b] \in DOMAIN il
      /\ Frame(m, il, clauses, at, from)
  BY FramedIs
<1>1. PICK S : S = Through(m.il, m.clauses, b, a, first)
  OBVIOUS
<1>2. Through(il, clauses, at[b], at[a], first) = S
  BY <1>0, <1>1, OwnThrough
<1>3. /\ stack' = <<>> /\ caught' = caught
      /\ phase' = phase /\ result' = result /\ outcome' = outcome
      /\ S = {} => ip' = m_offset[at[b]] /\ cont' = cont
      /\ S # {} => Diverted(at[b], at[a], Min(S))
  BY <1>0, <1>2, LeaveIs
<1>4. PICK d : d = ALeave(m, c, b, a, first)
  OBVIOUS
<1>5. CASE S = {}
  <2>1. d = Conf(b, <<>>, c.caught, c.cont, c.used)
    BY <1>1, <1>4, <1>5 DEF ALeave
  <2>2. d.p = b /\ d.stack = <<>> /\ d.caught = c.caught /\ d.cont = c.cont
    BY <2>1, ConfIs
  <2> QED
    BY <1>3, <1>4, <1>5, <2>2 DEF Goes, Body
<1>6. CASE S # {}
  <2>1. PICK i : i = Min(S)
    OBVIOUS
  <2>2. PICK q : q = Position(m.il, m.clauses[i].handler_begin)
    OBVIOUS
  <2>3. PICK k, l : /\ k = [kind |-> "leave", value |-> b, at |-> a]
                    /\ l = [kind |-> "leave", value |-> m_offset[at[b]], at |-> m_offset[at[a]]]
    OBVIOUS
  <2>4. i \in DOMAIN m.clauses
    <3>1. S \in SUBSET Nat
      BY <1>0, <1>1, ClausesOf DEF Through, Frame
    <3> QED
      BY <1>1, <1>6, <2>1, <3>1, MinIsLeast DEF Through
  <2>5. Position(il, clauses[i].handler_begin) = at[q]
    BY <1>0, <2>2, <2>4, OwnBlocks
  <2>6. ip' = m_offset[at[q]] /\ cont' = With(cont, i, l)
    BY <1>3, <1>6, <2>1, <2>3, <2>5 DEF Diverted
  <2>7. d = Conf(q, <<>>, c.caught, With(c.cont, i, k), c.used)
    BY <1>1, <1>4, <1>6, <2>1, <2>2, <2>3 DEF ALeave
  <2>8. d.p = q /\ d.stack = <<>> /\ d.caught = c.caught /\ d.cont = With(c.cont, i, k)
    BY <2>7, ConfIs
  <2>9. l = Located(at, k)
    BY <2>3 DEF Located
  <2>10. \A j \in DOMAIN d.cont : j \in DOMAIN cont' /\ cont'[j] = Located(at, d.cont[j])
    BY <2>6, <2>8, <2>9 DEF With, Body
  <2>11. \A j \in DOMAIN d.caught : j \in DOMAIN caught' /\ caught'[j] = d.caught[j]
    BY <1>3, <2>8 DEF Body
  <2>12. q \in DOMAIN m.il /\ JumpedTo(m, q)
    BY <2>2, <2>4, FramedIs, HandlerNoReturn DEF JumpedTo
  <2> QED
    BY <1>3, <1>4, <2>6, <2>8, <2>10, <2>11, <2>12 DEF Goes
<1> QED
  BY <1>5, <1>6

\* The instruction of the list at a moment in the method
LEMMA BodyHere ==
    ASSUME NEW m, NEW at, NEW from, Framed(m, at, from), NEW c, Body(m, at, from, c),
           m.il[c.p].op # "ret"
    PROVE  /\ c.p \in DOMAIN m.il /\ at[c.p] \in DOMAIN il
           /\ ip = m_offset[at[c.p]]
           /\ Here = at[c.p] /\ Following = m_offset[at[c.p] + 1]
           /\ il[Here].op = m.il[c.p].op
           /\ il[Here].value = m.il[c.p].value
           /\ il[Here].target = m.il[c.p].target
<1>1. Exact /\ at[c.p] \in DOMAIN il /\ Frame(m, il, clauses, at, from) /\ c.p \in DOMAIN m.il
  BY FramedIs DEF Body, Sound
<1>2. ip = m_offset[at[c.p]]
  BY <1>1 DEF Body, Frame
<1>3. Here = at[c.p] /\ Following = m_offset[at[c.p] + 1]
  BY <1>1, <1>2, HereIs
<1>4. /\ il[at[c.p]].op = m.il[c.p].op
      /\ il[at[c.p]].value = m.il[c.p].value
      /\ il[at[c.p]].target = m.il[c.p].target
  BY <1>1 DEF Frame
<1> QED
  BY <1>1, <1>2, <1>3, <1>4

\* A branch of the method leads where it leads in the method.
LEMMA BodyJump ==
    ASSUME NEW m, NEW at, NEW from, Framed(m, at, from), NEW q \in DOMAIN m.il,
           m.il[q].op \in Jumps
    PROVE  /\ Target(m, q) \in DOMAIN m.il
           /\ JumpedTo(m, Target(m, q))
           /\ Destination(il, m_offset, at[q]) = m_offset[at[Target(m, q)]]
<1>1. Exact /\ at[q] \in DOMAIN il /\ m \in Methods /\ at \in [DOMAIN m.il -> DOMAIN il]
      /\ Frame(m, il, clauses, at, from)
  BY FramedIs
<1>2. PICK t : t = Target(m, q)
  OBVIOUS
<1>3. /\ t \in DOMAIN m.il /\ m.il[t].id = m.il[q].target /\ IsBranch(m.il[q])
  BY <1>1, <1>2, Rules
<1>4. m.il[q].op # "ret"
  BY DEF Jumps
<1>5. il[at[q]].target = m.il[q].target /\ il[at[t]].id = m.il[t].id
  BY <1>1, <1>3, <1>4 DEF Frame
<1>6. IsBranch(il[at[q]])
  BY <1>3, <1>5 DEF IsBranch
<1>7. Destination(il, m_offset, at[q]) = m_offset[Position(il, il[at[q]].target)]
  BY <1>1, <1>6, JumpIs
<1>8. at[t] \in DOMAIN il /\ DistinctIds(il)
  BY <1>1, <1>3 DEF Exact, WellFormed
<1>9. Position(il, il[at[t]].id) = at[t]
  BY <1>8, PositionIs
<1>10. JumpedTo(m, t)
  BY <1>3 DEF JumpedTo, JumpsToReturn
<1> QED
  BY <1>2, <1>3, <1>5, <1>7, <1>9, <1>10

\* A step to another place of the list follows the one in the method.
LEMMA GoFollows ==
    ASSUME NEW m, NEW at, NEW from, NEW c, Body(m, at, from, c), NEW q, NEW s, NEW u,
           phase' = phase, result' = result, outcome' = outcome,
           \/ ip' = m_offset[at[q]] /\ q \in DOMAIN m.il /\ JumpedTo(m, q)
           \/ ip' = m_offset[at[c.p] + 1] /\ q = c.p + 1,
           stack' = s, caught' = caught, cont' = cont
    PROVE  Goes(m, at, c, Go(c, q, s, u))
<1>1. PICK d : d = Go(c, q, s, u)
  OBVIOUS
<1>2. d.p = q /\ d.stack = s /\ d.caught = c.caught /\ d.cont = c.cont
  BY <1>1, GoIs
<1> QED
  BY <1>1, <1>2 DEF Goes, Body

\* The choices that a step of the method takes
Chooses(m, c, d) ==
    \/ /\ m.il[c.p].op \in {"brtrue", "call"}
       /\ \E b \in BOOLEAN : Choose(b)
       /\ d.p = 0 \/ d.used = c.used + 1
    \/ /\ m.il[c.p].op \notin {"brtrue", "call"}
       /\ trail' = trail
       /\ d.p = 0 \/ d.used = c.used

\* A step of the program that follows the one from c to d
Follows(m, at, c, d) ==
    /\ localVars' = localVars
    /\ Escapes(m, at, d) \/ Goes(m, at, c, d)
    /\ Chooses(m, c, d)

\* The number of choices after an exception and after a leave
LEMMA UsedIs ==
    ASSUME NEW m, NEW c, NEW u, NEW e, NEW a, NEW b, NEW first
    PROVE  /\ ARaise(m, c, u, e, a, first).p = 0 \/ ARaise(m, c, u, e, a, first).used = u
           /\ ALeave(m, c, b, a, first).used = c.used
  BY DEF ARaise, ALeave, Conf, Fin

\* The instructions that neither branch nor throw follow the method's.
LEMMA StraightFollows ==
    ASSUME NEW m, NEW at, NEW from, Framed(m, at, from), NEW T, NEW c, Body(m, at, from, c),
           m.il[c.p].op \in {"nop", "push", "dup", "pop"}, Straight
    PROVE  Follows(m, at, c, ANext(m, T, c))
<1>0. m.il[c.p].op # "ret" /\ m.il[c.p].op \notin {"brtrue", "call"}
  OBVIOUS
<1>1. il[Here].op = m.il[c.p].op /\ il[Here].value = m.il[c.p].value
      /\ Following = m_offset[at[c.p] + 1]
  BY <1>0, BodyHere
<1>2. stack = c.stack
  BY DEF Body
<1>3. /\ phase' = phase /\ result' = result /\ outcome' = outcome
      /\ localVars' = localVars /\ trail' = trail /\ caught' = caught /\ cont' = cont
      /\ ip' = m_offset[at[c.p] + 1]
  BY <1>1 DEF Straight, localVars
<1>4. /\ m.il[c.p].op = "nop" => stack' = c.stack
      /\ m.il[c.p].op = "push" => stack' = Append(c.stack, m.il[c.p].value)
      /\ m.il[c.p].op = "dup" => stack' = Append(c.stack, TopOf(c.stack))
      /\ m.il[c.p].op = "pop" => stack' = PoppedOf(c.stack)
  BY <1>1, <1>2 DEF Straight, Op, Top, TopOf, Popped, PoppedOf
<1>5. ANext(m, T, c) = Go(c, c.p + 1, stack', c.used)
  <2>1. CASE m.il[c.p].op = "nop"
    BY <1>4, <2>1, ANextIs, ZenonT(30)
  <2>2. CASE m.il[c.p].op = "push"
    BY <1>4, <2>2, ANextIs, ZenonT(30)
  <2>3. CASE m.il[c.p].op = "dup"
    BY <1>4, <2>3, ANextIs, ZenonT(30)
  <2>4. CASE m.il[c.p].op = "pop"
    BY <1>4, <2>4, ANextIs, ZenonT(30)
  <2> QED
    BY <2>1, <2>2, <2>3, <2>4
<1>6. Goes(m, at, c, Go(c, c.p + 1, stack', c.used))
  BY <1>3, GoFollows
<1>7. Chooses(m, c, Go(c, c.p + 1, stack', c.used))
  BY <1>0, <1>3, GoIs DEF Chooses
<1> QED
  BY <1>3, <1>5, <1>6, <1>7 DEF Follows

\* The branches follow the method's.
LEMMA BranchFollows ==
    ASSUME NEW m, NEW at, NEW from, Framed(m, at, from), NEW T, NEW c, Body(m, at, from, c),
           m.il[c.p].op \in {"br", "brtrue"}, Branch,
           \A x \in BOOLEAN : m.il[c.p].op \in {"brtrue", "call"} /\ Choose(x)
              => x = T[c.used + 1]
    PROVE  Follows(m, at, c, ANext(m, T, c))
<1>0. m.il[c.p].op # "ret" /\ m.il[c.p].op \in Jumps
  BY DEF Jumps
<1>1. il[Here].op = m.il[c.p].op /\ c.p \in DOMAIN m.il /\ Here = at[c.p]
      /\ Following = m_offset[at[c.p] + 1]
  BY <1>0, BodyHere
<1>2. stack = c.stack
  BY DEF Body
<1>3. /\ Destination(il, m_offset, Here) = m_offset[at[Target(m, c.p)]]
      /\ Target(m, c.p) \in DOMAIN m.il /\ JumpedTo(m, Target(m, c.p))
  BY <1>0, <1>1, BodyJump
<1>4. /\ phase' = phase /\ result' = result /\ outcome' = outcome
      /\ localVars' = localVars /\ caught' = caught /\ cont' = cont
  BY DEF Branch, localVars
<1>5. CASE m.il[c.p].op = "br"
  <2>1. ip' = m_offset[at[Target(m, c.p)]] /\ stack' = c.stack /\ trail' = trail
    BY <1>1, <1>2, <1>3, <1>5 DEF Branch, Op
  <2>2. ANext(m, T, c) = Go(c, Target(m, c.p), c.stack, c.used)
    BY <1>5, ANextIs
  <2>3. Goes(m, at, c, Go(c, Target(m, c.p), c.stack, c.used))
    BY <1>3, <1>4, <2>1, GoFollows
  <2>4. Chooses(m, c, Go(c, Target(m, c.p), c.stack, c.used))
    BY <1>5, <2>1, GoIs DEF Chooses
  <2> QED
    BY <1>4, <2>2, <2>3, <2>4 DEF Follows
<1>6. CASE m.il[c.p].op = "brtrue"
  <2>1. PICK b \in BOOLEAN :
          /\ Choose(b)
          /\ stack' = PoppedOf(c.stack)
          /\ ip' = IF b THEN m_offset[at[Target(m, c.p)]] ELSE m_offset[at[c.p] + 1]
    BY <1>1, <1>2, <1>3, <1>6 DEF Branch, Op, Popped, PoppedOf
  <2>2. b = T[c.used + 1]
    BY <1>6, <2>1
  <2>3. PICK q : q = IF b THEN Target(m, c.p) ELSE c.p + 1
    OBVIOUS
  <2>4. ANext(m, T, c) = Go(c, q, PoppedOf(c.stack), c.used + 1)
    BY <1>6, <2>2, <2>3, ANextIs
  <2>5. \/ ip' = m_offset[at[q]] /\ q \in DOMAIN m.il /\ JumpedTo(m, q)
        \/ ip' = m_offset[at[c.p] + 1] /\ q = c.p + 1
    BY <1>3, <2>1, <2>3
  <2>6. Goes(m, at, c, Go(c, q, PoppedOf(c.stack), c.used + 1))
    BY <1>4, <2>1, <2>5, GoFollows
  <2>7. Chooses(m, c, Go(c, q, PoppedOf(c.stack), c.used + 1))
    BY <1>6, <2>1, GoIs DEF Chooses
  <2> QED
    BY <1>4, <2>4, <2>6, <2>7 DEF Follows
<1> QED
  BY <1>5, <1>6

\* The calls follow the method's.
LEMMA CallFollows ==
    ASSUME NEW m, NEW at, NEW from, Framed(m, at, from), NEW T, NEW c, Body(m, at, from, c),
           m.il[c.p].op = "call", Call,
           \A x \in BOOLEAN : m.il[c.p].op \in {"brtrue", "call"} /\ Choose(x)
              => x = T[c.used + 1]
    PROVE  Follows(m, at, c, ANext(m, T, c))
<1>0. m.il[c.p].op # "ret"
  OBVIOUS
<1>1. /\ il[Here].value = m.il[c.p].value /\ c.p \in DOMAIN m.il /\ ip = m_offset[at[c.p]]
      /\ Following = m_offset[at[c.p] + 1] /\ m \in Methods
      /\ stack = c.stack
  BY <1>0, BodyHere, FramedIs DEF Body
<1>2. localVars' = localVars
  BY DEF Call, localVars
<1>3. m.il[c.p].value \in Values \cup {None}
  BY <1>1, Rules
<1>4. PICK b \in BOOLEAN :
        /\ Choose(b)
        /\ \/ b /\ Raise(m.il[c.p].value, m_offset[at[c.p]], 1)
           \/ /\ ~b /\ ip' = m_offset[at[c.p] + 1]
              /\ phase' = phase /\ stack' = stack /\ caught' = caught /\ cont' = cont
              /\ result' = result /\ outcome' = outcome
  BY <1>1 DEF Call
<1>5. b = T[c.used + 1]
  BY <1>4
<1>6. CASE b
  <2>1. PICK d : d = ARaise(m, c, c.used + 1, m.il[c.p].value, c.p, 1)
    OBVIOUS
  <2>2. ANext(m, T, c) = d
    BY <1>5, <1>6, <2>1, ANextIs
  <2>3. Raise(m.il[c.p].value, m_offset[at[c.p]], 1)
    BY <1>4, <1>6
  <2>4. Escapes(m, at, d) \/ Goes(m, at, c, d)
    <3>1. \/ /\ Catching(m.il, m.clauses, c.p, 1) = {}
             /\ d = Fin([kind |-> "throw", value |-> m.il[c.p].value])
          \/ Goes(m, at, c, d)
      BY <1>1, <2>1, <2>3, RaiseFollows
    <3>2. 1 <= Len(m.clauses) + 1
      BY <1>1, ClausesOf
    <3> QED
      BY <1>1, <1>3, <2>3, <3>1, <3>2 DEF Escapes
  <2>5. Chooses(m, c, d)
    BY <1>4, <2>1, UsedIs DEF Chooses
  <2> QED
    BY <1>2, <2>2, <2>4, <2>5 DEF Follows
<1>7. CASE ~b
  <2>1. ANext(m, T, c) = Go(c, c.p + 1, c.stack, c.used + 1)
    BY <1>5, <1>7, ANextIs
  <2>2. Goes(m, at, c, Go(c, c.p + 1, c.stack, c.used + 1))
    BY <1>1, <1>4, <1>7, GoFollows
  <2>3. Chooses(m, c, Go(c, c.p + 1, c.stack, c.used + 1))
    BY <1>4, GoIs DEF Chooses
  <2> QED
    BY <1>2, <2>1, <2>2, <2>3 DEF Follows
<1> QED
  BY <1>6, <1>7

\* The leaves follow the method's.
LEMMA LeaveStepFollows ==
    ASSUME NEW m, NEW at, NEW from, Framed(m, at, from), NEW T, NEW c, Body(m, at, from, c),
           m.il[c.p].op = "leave", Leave
    PROVE  Follows(m, at, c, ANext(m, T, c))
<1>0. m.il[c.p].op # "ret" /\ m.il[c.p].op \in Jumps /\ m.il[c.p].op \notin {"brtrue", "call"}
  BY DEF Jumps
<1>1. c.p \in DOMAIN m.il /\ Here = at[c.p] /\ ip = m_offset[at[c.p]]
  BY <1>0, BodyHere
<1>2. /\ Destination(il, m_offset, Here) = m_offset[at[Target(m, c.p)]]
      /\ Target(m, c.p) \in DOMAIN m.il /\ JumpedTo(m, Target(m, c.p))
  BY <1>0, <1>1, BodyJump
<1>3. /\ LeaveTo(m_offset[at[Target(m, c.p)]], m_offset[at[c.p]], 1)
      /\ localVars' = localVars /\ trail' = trail
  BY <1>1, <1>2 DEF Leave, localVars
<1>4. PICK d : d = ALeave(m, c, Target(m, c.p), c.p, 1)
  OBVIOUS
<1>5. ANext(m, T, c) = d
  BY <1>4, ANextIs, ZenonT(30)
<1>6. Goes(m, at, c, d)
  BY <1>1, <1>2, <1>3, <1>4, LeaveFollows
<1>7. Chooses(m, c, d)
  BY <1>0, <1>3, <1>4, UsedIs DEF Chooses
<1> QED
  BY <1>3, <1>5, <1>6, <1>7 DEF Follows

\* The handler of the method that a place is in, in the list
LEMMA BodyHandler ==
    ASSUME NEW m, NEW at, NEW from, Framed(m, at, from), NEW c, Body(m, at, from, c),
           m.il[c.p].op # "ret", NEW kind, Within(m.il, m.clauses, kind, c.p) # {}
    PROVE  Min({j \in DOMAIN clauses : clauses[j].kind = kind /\ InHandler(Exported[j], ip)})
             = Innermost(m, kind, c.p)
<1>1. /\ Exact /\ c.p \in DOMAIN m.il /\ at[c.p] \in DOMAIN il /\ ip = m_offset[at[c.p]]
      /\ Frame(m, il, clauses, at, from)
  BY BodyHere, FramedIs
<1>2. \A j \in DOMAIN clauses :
         InHandler(Exported[j], ip) <=> at[c.p] \in HandlerBlock(il, clauses[j])
  BY <1>1, ExportedBlocks DEF Exact, Exported
<1>3. PICK S : S = Within(il, clauses, kind, at[c.p])
  OBVIOUS
<1>4. {j \in DOMAIN clauses : clauses[j].kind = kind /\ InHandler(Exported[j], ip)} = S
  BY <1>2, <1>3 DEF Within
<1>5. Min(S) = Min(Within(m.il, m.clauses, kind, c.p))
  BY <1>1, <1>3, OwnWithin
<1> QED
  BY <1>4, <1>5 DEF Innermost

\* The ends of the finally handlers follow the method's.
LEMMA EndFinallyFollows ==
    ASSUME NEW m, NEW at, NEW from, Framed(m, at, from), NEW T, NEW c, Body(m, at, from, c),
           m.il[c.p].op = "endfinally", EndFinally
    PROVE  Follows(m, at, c, ANext(m, T, c))
<1>0. m.il[c.p].op # "ret" /\ m.il[c.p].op \notin {"brtrue", "call"}
  OBVIOUS
<1>1. c.p \in DOMAIN m.il /\ m \in Methods /\ Sound(m, c)
  BY <1>0, BodyHere, FramedIs DEF Body
<1>2. Within(m.il, m.clauses, "finally", c.p) # {}
  BY <1>1, Rules
<1>3. PICK i : i = Innermost(m, "finally", c.p)
  OBVIOUS
<1>4. Min({j \in DOMAIN clauses : clauses[j].kind = "finally" /\ InHandler(Exported[j], ip)}) = i
  BY <1>0, <1>2, <1>3, BodyHandler
<1>5. i \in DOMAIN c.cont /\ i \in Nat /\ i <= Len(m.clauses)
  BY <1>1, <1>2, <1>3, InnermostIs
<1>6. PICK k, l : k = c.cont[i] /\ l = cont[i]
  OBVIOUS
<1>7. l = Located(at, k) /\ Continues(m, c, k)
  BY <1>1, <1>5, <1>6 DEF Body, Sound
<1>8. /\ \/ l.kind = "leave" /\ LeaveTo(l.value, l.at, i + 1)
         \/ l.kind = "throw" /\ Raise(l.value, l.at, i + 1)
      /\ localVars' = localVars /\ trail' = trail
  BY <1>4, <1>6 DEF EndFinally, localVars
<1>9. /\ l.kind = k.kind /\ l.at = m_offset[at[k.at]] /\ k.at \in DOMAIN m.il
      /\ i + 1 \in Nat /\ i + 1 <= Len(m.clauses) + 1
  BY <1>1, <1>5, <1>7, ClausesOf, LocatedIs DEF Continues
<1>10. CASE k.kind = "leave"
  <2>1. l.value = m_offset[at[k.value]] /\ k.value \in DOMAIN m.il /\ JumpedTo(m, k.value)
    BY <1>7, <1>10, LocatedIs DEF Continues
  <2>2. LeaveTo(m_offset[at[k.value]], m_offset[at[k.at]], i + 1)
    BY <1>8, <1>9, <1>10, <2>1
  <2>3. PICK d : d = ALeave(m, c, k.value, k.at, i + 1)
    OBVIOUS
  <2>4. ANext(m, T, c) = d
    BY <1>3, <1>6, <1>10, <2>3, EndFinallyIs
  <2>5. Goes(m, at, c, d)
    BY <1>9, <2>1, <2>2, <2>3, LeaveFollows
  <2>6. Chooses(m, c, d)
    BY <1>0, <1>8, <2>3, UsedIs DEF Chooses
  <2> QED
    BY <1>8, <2>4, <2>5, <2>6 DEF Follows
<1>11. CASE k.kind # "leave"
  <2>1. l.value = k.value /\ k.value \in Values \cup {None}
    BY <1>7, <1>11, LocatedIs DEF Continues
  <2>2. Raise(k.value, m_offset[at[k.at]], i + 1)
    BY <1>8, <1>9, <1>11, <2>1
  <2>3. PICK d : d = ARaise(m, c, c.used, k.value, k.at, i + 1)
    OBVIOUS
  <2>4. ANext(m, T, c) = d
    BY <1>3, <1>6, <1>11, <2>3, EndFinallyIs
  <2>5. Escapes(m, at, d) \/ Goes(m, at, c, d)
    <3>1. \/ /\ Catching(m.il, m.clauses, k.at, i + 1) = {}
             /\ d = Fin([kind |-> "throw", value |-> k.value])
          \/ Goes(m, at, c, d)
      BY <1>9, <2>2, <2>3, RaiseFollows
    <3> QED
      BY <1>9, <2>1, <2>2, <3>1 DEF Escapes
  <2>6. Chooses(m, c, d)
    BY <1>0, <1>8, <2>3, UsedIs DEF Chooses
  <2> QED
    BY <1>8, <2>4, <2>5, <2>6 DEF Follows
<1> QED
  BY <1>10, <1>11

\* The rethrows follow the method's.
LEMMA RethrowFollows ==
    ASSUME NEW m, NEW at, NEW from, Framed(m, at, from), NEW T, NEW c, Body(m, at, from, c),
           m.il[c.p].op = "rethrow", Rethrow
    PROVE  Follows(m, at, c, ANext(m, T, c))
<1>0. m.il[c.p].op # "ret" /\ m.il[c.p].op \notin {"brtrue", "call"}
  OBVIOUS
<1>1. c.p \in DOMAIN m.il /\ m \in Methods /\ Sound(m, c) /\ ip = m_offset[at[c.p]]
  BY <1>0, BodyHere, FramedIs DEF Body
<1>2. Within(m.il, m.clauses, "catch", c.p) # {}
  BY <1>1, Rules
<1>3. PICK i : i = Innermost(m, "catch", c.p)
  OBVIOUS
<1>4. Min({j \in DOMAIN clauses : clauses[j].kind = "catch" /\ InHandler(Exported[j], ip)}) = i
  BY <1>0, <1>2, <1>3, BodyHandler
<1>5. i \in DOMAIN c.caught
  BY <1>1, <1>2, <1>3, InnermostIs
<1>6. PICK e : e = c.caught[i]
  OBVIOUS
<1>7. caught[i] = e /\ e \in Values \cup {None}
  BY <1>1, <1>5, <1>6 DEF Body, Sound
<1>8. /\ Raise(e, m_offset[at[c.p]], 1)
      /\ localVars' = localVars /\ trail' = trail
  BY <1>1, <1>4, <1>7 DEF Rethrow, localVars
<1>9. PICK d : d = ARaise(m, c, c.used, e, c.p, 1)
  OBVIOUS
<1>10. ANext(m, T, c) = d
  BY <1>3, <1>6, <1>9, RethrowIs
<1>11. Escapes(m, at, d) \/ Goes(m, at, c, d)
  <2>1. \/ /\ Catching(m.il, m.clauses, c.p, 1) = {}
           /\ d = Fin([kind |-> "throw", value |-> e])
        \/ Goes(m, at, c, d)
    BY <1>1, <1>8, <1>9, RaiseFollows
  <2>2. 1 <= Len(m.clauses) + 1
    BY <1>1, ClausesOf
  <2> QED
    BY <1>1, <1>7, <1>8, <2>1, <2>2 DEF Escapes
<1>12. Chooses(m, c, d)
  BY <1>0, <1>8, <1>9, UsedIs DEF Chooses
<1> QED
  BY <1>8, <1>10, <1>11, <1>12 DEF Follows

\* Every step of the method is a step of the run by places.
LEMMA StepFollows ==
    ASSUME NEW m, NEW at, NEW from, Framed(m, at, from), NEW T, NEW c, Body(m, at, from, c),
           m.il[c.p].op # "ret", phase \in {"original", "rewritten"}, Next,
           \A x \in BOOLEAN : m.il[c.p].op \in {"brtrue", "call"} /\ Choose(x)
              => x = T[c.used + 1]
    PROVE  Follows(m, at, c, ANext(m, T, c))
<1>1. PICK op : op = m.il[c.p].op
  OBVIOUS
<1>2. c.p \in DOMAIN m.il /\ m \in Methods /\ il[Here].op = op
  BY <1>1, BodyHere, FramedIs
<1>3. op \in Ops /\ op # "ret"
  BY <1>1, <1>2, Rules
<1>4. CASE op \in {"nop", "push", "dup", "pop"}
  BY <1>1, <1>2, <1>4, WhichAction, StraightFollows
<1>5. CASE op \in {"br", "brtrue"}
  BY <1>1, <1>2, <1>5, WhichAction, BranchFollows
<1>6. CASE op = "call"
  BY <1>1, <1>2, <1>6, WhichAction, CallFollows
<1>7. CASE op = "leave"
  BY <1>1, <1>2, <1>7, WhichAction, LeaveStepFollows
<1>8. CASE op = "endfinally"
  BY <1>1, <1>2, <1>8, WhichAction, EndFinallyFollows
<1>9. CASE op = "rethrow"
  BY <1>1, <1>2, <1>9, WhichAction, RethrowFollows
<1> QED
  BY <1>3, <1>4, <1>5, <1>6, <1>7, <1>8, <1>9 DEF Ops, Jumps, NeverFallThrough

-----------------------------------------------------------------------------
(* The two lists *)

\* Every instruction is at its own place.
Same(m) == [i \in DOMAIN m.il |-> i]

\* The method as written
LEMMA PlainFrame ==
    ASSUME NEW m \in Methods, il = m.il, clauses = m.clauses, m_offset = Offsets(il)
    PROVE  Framed(m, Same(m), Same(m))
<1>0. /\ WellFormed(m.il) /\ TooFar(m.il, Offsets(m.il)) = {}
      /\ Len(m.il) \in Nat /\ DOMAIN m.il = 1 .. Len(m.il)
  <2>1. WellFormed(m.il) /\ TooFar(m.il, Offsets(m.il)) = {}
    BY MethodIs
  <2> QED
    BY <2>1 DEF WellFormed
<1>1. /\ m.clauses \in Seq(ClauseSet) /\ Len(m.clauses) \in Nat
      /\ \A j \in DOMAIN m.clauses : ClauseIn(m.il, m.clauses[j])
  BY ClausesOf
<1>2. PICK f : f = Same(m)
  OBVIOUS
<1>3. f \in [DOMAIN m.il -> DOMAIN m.il] /\ \A i \in DOMAIN m.il : f[i] = i
  BY <1>2 DEF Same
<1>4. ASSUME NEW i \in DOMAIN m.il
      PROVE  /\ i + 1 \in DOMAIN m.il => f[i + 1] = f[i] + 1
             /\ \A j \in DOMAIN m.il : i < j => f[i] < f[j]
             /\ f[i] = i
  BY <1>3
<1>5. Frame(m, m.il, m.clauses, f, f)
  BY <1>0, <1>1, <1>3, <1>4 DEF Frame
<1> QED
  BY <1>2, <1>5 DEF Framed

\* The blocks of a clause
Covers(list, c, kind, a, b, h, z) ==
    /\ c \in ClauseSet /\ ClauseIn(list, c) /\ c.kind = kind
    /\ TryBlock(list, c) = a .. b
    /\ HandlerBlock(list, c) = h .. z
    /\ Position(list, c.handler_begin) = h

\* The blocks of a clause, by the places of what it names
LEMMA CoversIs ==
    ASSUME NEW list, WellFormed(list), NEW c, NEW kind \in {"catch", "finally"},
           NEW tb \in DOMAIN list, NEW te \in DOMAIN list,
           NEW hb \in DOMAIN list, NEW he \in DOMAIN list,
           c = Clause(kind, list[tb].id, list[te].id, list[hb].id, list[he].id)
    PROVE  Covers(list, c, kind, tb, te - 1, hb, he)
<1>1. DistinctIds(list) /\ list \in Seq(Instrs)
  BY DEF WellFormed
<1>2. /\ c.kind = kind /\ c.try_begin = list[tb].id /\ c.try_end = list[te].id
      /\ c.handler_begin = list[hb].id /\ c.handler_end = list[he].id
  BY DEF Clause
<1>3. /\ Position(list, c.try_begin) = tb /\ Position(list, c.try_end) = te
      /\ Position(list, c.handler_begin) = hb /\ Position(list, c.handler_end) = he
  BY <1>1, <1>2, PositionIs
<1>4. ClauseIn(list, c)
  BY <1>2 DEF ClauseIn
<1>5. \A i \in DOMAIN list : list[i].id \in Nat
  <2> SUFFICES ASSUME NEW i \in DOMAIN list PROVE list[i].id \in Nat
    OBVIOUS
  <2>1. list[i] \in Instrs
    BY <1>1
  <2> QED
    BY <2>1 DEF Instrs
<1>6. PICK t1, t2, t3, t4 : /\ t1 = list[tb].id /\ t2 = list[te].id
                            /\ t3 = list[hb].id /\ t4 = list[he].id
  OBVIOUS
<1>7. t1 \in Nat /\ t2 \in Nat /\ t3 \in Nat /\ t4 \in Nat /\ c = Clause(kind, t1, t2, t3, t4)
  BY <1>5, <1>6
<1>8. c \in ClauseSet
  BY <1>7 DEF Clause, ClauseSet
<1> QED
  BY <1>2, <1>3, <1>4, <1>8 DEF Covers, TryBlock, HandlerBlock

\* The clauses of an instrumented method; o is how many it has itself.
ClausesAt(m, list, cls, o, k, d) ==
    /\ o \in Nat /\ o = Len(m.clauses)
    /\ cls \in Seq(ClauseSet) /\ Len(cls) = o + 4
    /\ \A j \in 1 .. o : cls[j] = m.clauses[j]
    /\ Covers(list, cls[o + 1], "catch", 1, 4, 5, 6)
    /\ Covers(list, cls[o + 2], "catch", k + 2, k + 3 + d, k + 4 + d, k + 5 + d)
    /\ Covers(list, cls[o + 3], "catch", 1, k - 1, k, k + 1)
    /\ Covers(list, cls[o + 4], "finally", 1, k + 1, k + 2, k + 6 + d)

\* The four clauses that the rewriter adds cover the places that they are meant for.
LEMMA NewClausesAt ==
    ASSUME NEW m \in Methods, NEW list, NEW at, NEW from, NEW n, NEW d,
           Shape(m, list, at, from, n, d), NEW cls, cls = NewClauses(m.clauses)
    PROVE  ClausesAt(m, list, cls, Len(m.clauses), n + 7, d)
<1> DEFINE own == m.clauses
           o == Len(own)
           k == n + 7
<1>1. /\ own \in Seq(ClauseSet) /\ o \in Nat /\ n \in Nat /\ d \in Nat /\ WellFormed(list)
      /\ BeginAt(m, list) /\ EndAt(m, list, k, d)
  BY ClausesOf DEF Shape, Placed, EndAt
<1>2. PICK c1, c2, c3, c4 :
        /\ c1 = Clause("catch", Added + 1, Added + 5, Added + 5, Added + 6)
        /\ c2 = Clause("catch", Added + 13, Added + 16, Added + 16, Added + 18)
        /\ c3 = Clause("catch", Added + 1, Added + 11, Added + 11, Added + 12)
        /\ c4 = Clause("finally", Added + 1, Added + 13, Added + 13, Added + 17)
  OBVIOUS
<1>3. cls = own \o <<c1, c2, c3, c4>>
  BY <1>2 DEF NewClauses
<1>4. /\ AddedAt(list, 1, 1, "init", None) /\ AddedAt(list, 5, 5, "log", None)
      /\ AddedAt(list, 6, 6, "leave", m.il[1].id)
      /\ AddedAt(list, k, 11, "stexc", None) /\ AddedAt(list, k + 1, 12, "rethrow", None)
      /\ AddedAt(list, k + 2, 13, "end", None) /\ AddedAt(list, k + 4 + d, 16, "log", None)
      /\ AddedAt(list, k + 5 + d, 18, "leave", Added + 17)
      /\ AddedAt(list, k + 6 + d, 17, "endfinally", None)
  BY <1>1 DEF BeginAt, EndAt
<1>10. k \in Nat
  BY <1>1
<1> HIDE DEF k
<1>5. /\ 1 \in DOMAIN list /\ 5 \in DOMAIN list /\ 6 \in DOMAIN list
      /\ k \in DOMAIN list /\ k + 1 \in DOMAIN list /\ k + 2 \in DOMAIN list
      /\ k + 4 + d \in DOMAIN list /\ k + 5 + d \in DOMAIN list /\ k + 6 + d \in DOMAIN list
      /\ list[1].id = Added + 1 /\ list[5].id = Added + 5 /\ list[6].id = Added + 6
      /\ list[k].id = Added + 11 /\ list[k + 1].id = Added + 12 /\ list[k + 2].id = Added + 13
      /\ list[k + 4 + d].id = Added + 16 /\ list[k + 5 + d].id = Added + 18
      /\ list[k + 6 + d].id = Added + 17
  BY <1>4 DEF AddedAt
<1>6. Covers(list, c1, "catch", 1, 4, 5, 6)
  <2>1. Covers(list, c1, "catch", 1, 5 - 1, 5, 6)
    BY <1>1, <1>2, <1>5, CoversIs
  <2> QED
    BY <2>1
<1>7. Covers(list, c2, "catch", k + 2, k + 3 + d, k + 4 + d, k + 5 + d)
  <2>1. PICK tb, te, he : tb = k + 2 /\ te = k + 4 + d /\ he = k + 5 + d
    OBVIOUS
  <2>2. Covers(list, c2, "catch", tb, te - 1, te, he)
    BY <1>1, <1>2, <1>5, <2>1, CoversIs
  <2>3. te - 1 = k + 3 + d
    BY <1>1, <1>10, <2>1
  <2> QED
    BY <2>1, <2>2, <2>3
<1>8. Covers(list, c3, "catch", 1, k - 1, k, k + 1)
  BY <1>1, <1>2, <1>5, CoversIs
<1>9. Covers(list, c4, "finally", 1, k + 1, k + 2, k + 6 + d)
  <2>1. PICK te, he : te = k + 2 /\ he = k + 6 + d
    OBVIOUS
  <2>2. Covers(list, c4, "finally", 1, te - 1, te, he)
    BY <1>1, <1>2, <1>5, <2>1, CoversIs
  <2>3. te - 1 = k + 1
    BY <1>10, <2>1
  <2> QED
    BY <2>1, <2>2, <2>3
<1>12. c1 \in ClauseSet /\ c2 \in ClauseSet /\ c3 \in ClauseSet /\ c4 \in ClauseSet
  BY <1>6, <1>7, <1>8, <1>9 DEF Covers
<1>13. PICK t : t = <<c1, c2, c3, c4>>
  OBVIOUS
<1>14. t \in Seq(ClauseSet) /\ Len(t) = 4 /\ t[1] = c1 /\ t[2] = c2 /\ t[3] = c3 /\ t[4] = c4
  BY <1>12, <1>13
<1>15. /\ cls \in Seq(ClauseSet) /\ Len(cls) = o + 4
       /\ \A j \in 1 .. o : cls[j] = own[j]
       /\ \A j \in 1 .. 4 : cls[o + j] = t[j]
  BY <1>1, <1>3, <1>13, <1>14, ConcatIs, SMTT(30)
<1>16. cls[o + 1] = c1 /\ cls[o + 2] = c2 /\ cls[o + 3] = c3 /\ cls[o + 4] = c4
  <2>1. 1 \in 1 .. 4 /\ 2 \in 1 .. 4 /\ 3 \in 1 .. 4 /\ 4 \in 1 .. 4
    OBVIOUS
  <2> QED
    BY <1>14, <1>15, <2>1
<1>17. ClausesAt(m, list, cls, o, k, d)
  <2> HIDE DEF o
  <2>1. o = Len(m.clauses) /\ o \in Nat
    BY <1>1 DEF o
  <2> QED
    BY <1>6, <1>7, <1>8, <1>9, <1>15, <1>16, <2>1 DEF ClausesAt
<1> QED
  BY <1>17 DEF k

\* The method in its wrapping
LEMMA AddedFrame ==
    ASSUME NEW m \in Methods, NEW at, NEW from, NEW n, NEW d, Shape(m, il, at, from, n, d),
           clauses = NewClauses(m.clauses), m_offset = Offsets(il), TooFar(il, m_offset) = {}
    PROVE  Framed(m, at, from)
<1>1. PICK o, k : o = Len(m.clauses) /\ k = n + 7
  OBVIOUS
<1>2. ClausesAt(m, il, clauses, o, k, d)
  BY <1>1, NewClausesAt
<1>3. /\ WellFormed(il) /\ Placed(m, il, at, from, n) /\ n \in Nat /\ k \in Nat
      /\ d \in Nat /\ o \in Nat
      /\ Len(il) \in Nat /\ DOMAIN il = 1 .. Len(il) /\ k \in DOMAIN il
  <2>1. AddedAt(il, n + 7, 11, "stexc", None)
    BY DEF Shape, EndAt
  <2>2. WellFormed(il) /\ Placed(m, il, at, from, n) /\ EndAt(m, il, n + 7, d)
    BY DEF Shape
  <2>3. il \in Seq(Instrs) /\ n \in Nat /\ d \in Nat /\ k \in Nat /\ k \in DOMAIN il
    BY <1>1, <2>1, <2>2 DEF Placed, WellFormed, AddedAt, EndAt
  <2>4. o \in Nat
    BY <1>2 DEF ClausesAt
  <2> QED
    BY <2>2, <2>3, <2>4
<1>4. 7 .. (6 + n) \subseteq DOMAIN il /\ \A x \in 7 .. (6 + n) : x \in 1 .. (k + 1)
  BY <1>1, <1>3
<1>5. at \in [DOMAIN m.il -> DOMAIN il] /\ from \in [DOMAIN m.il -> DOMAIN il]
      /\ \A i \in DOMAIN m.il : at[i] \in 1 .. (k + 1)
  BY <1>3, <1>4, ZenonT(30) DEF Placed
<1>6. \A i \in DOMAIN m.il :
         /\ i + 1 \in DOMAIN m.il => from[i + 1] = at[i] + 1
         /\ \A j \in DOMAIN m.il : i < j => at[i] < at[j]
         /\ il[at[i]].id = m.il[i].id
         /\ m.il[i].op # "ret" =>
              /\ il[at[i]].op = m.il[i].op
              /\ il[at[i]].target = m.il[i].target
              /\ il[at[i]].value = m.il[i].value
              /\ from[i] = at[i]
  BY <1>3 DEF Placed
<1>7. /\ clauses \in Seq(ClauseSet) /\ Len(m.clauses) <= Len(clauses)
      /\ DOMAIN clauses = 1 .. (o + 4) /\ DOMAIN m.clauses = 1 .. o
      /\ \A j \in DOMAIN m.clauses : clauses[j] = m.clauses[j]
  <2>1. m.clauses \in Seq(ClauseSet) /\ DOMAIN m.clauses = 1 .. o
    BY <1>1, ClausesOf
  <2>2. /\ clauses \in Seq(ClauseSet) /\ Len(clauses) = o + 4
        /\ \A j \in 1 .. o : clauses[j] = m.clauses[j]
    BY <1>2 DEF ClausesAt
  <2>3. DOMAIN clauses = 1 .. (o + 4)
    BY <2>2
  <2> QED
    BY <1>1, <1>3, <2>1, <2>2, <2>3
<1>8. ASSUME NEW j \in DOMAIN clauses \ DOMAIN m.clauses
      PROVE  /\ ClauseIn(il, clauses[j])
             /\ clauses[j].kind = "finally" => TryBlock(il, clauses[j]) = 1 .. (k + 1)
  <2>0. j \in 1 .. (o + 4) /\ ~(j \in 1 .. o)
    <3>1. j \in DOMAIN clauses /\ ~(j \in DOMAIN m.clauses)
      OBVIOUS
    <3> QED
      BY <1>7, <3>1, Zenon
  <2>1. j = o + 1 \/ j = o + 2 \/ j = o + 3 \/ j = o + 4
    BY <1>3, <2>0
  <2> QED
    BY <1>2, <2>1 DEF ClausesAt, Covers
<1>9. ASSUME NEW j \in DOMAIN m.clauses
      PROVE  ClauseIn(il, clauses[j])
  <2>1. ClauseIn(m.il, m.clauses[j]) /\ clauses[j] = m.clauses[j]
    BY <1>7, ClausesOf
  <2>2. \A id : (\E i \in DOMAIN m.il : m.il[i].id = id) => \E i \in DOMAIN il : il[i].id = id
    BY <1>5, <1>6
  <2> QED
    BY <2>1, <2>2 DEF ClauseIn
<1>10. \A j \in DOMAIN clauses : ClauseIn(il, clauses[j])
  BY <1>8, <1>9
<1>11. \A j \in DOMAIN clauses \ DOMAIN m.clauses :
          clauses[j].kind = "finally" => \A i \in DOMAIN m.il : at[i] \in TryBlock(il, clauses[j])
  BY <1>5, <1>8
<1> QED
  BY <1>3, <1>5, <1>6, <1>7, <1>10, <1>11 DEF Framed, Frame

-----------------------------------------------------------------------------
(* A step of the method, whole *)

\* An end has no place in the method.
LEMMA EndsNowhere ==
    ASSUME NEW m \in Methods, NEW d, Sound(m, d)
    PROVE  d.p # 0 /\ ~Ends(d)
<1>1. DOMAIN m.il = 1 .. Len(m.il) /\ d.p \in DOMAIN m.il /\ Len(m.il) \in Nat
  BY MethodIs DEF Sound
<1>2. d.p # 0
  BY <1>1
<1>3. \A how : Fin(how).p = 0
  BY DEF Fin, Conf
<1> QED
  BY <1>2, <1>3 DEF Ends

\* A step to a sound moment stays in the method.
LEMMA GoesBody ==
    ASSUME NEW m, NEW at, NEW from, Framed(m, at, from), NEW c, Body(m, at, from, c),
           NEW d, Goes(m, at, c, d), Sound(m, d), listVars' = listVars
    PROVE  Body(m, at, from, d)'
<1>1. m_offset' = m_offset
  BY DEF listVars
<1>2. ip' = m_offset'[from[d.p]] \/ (ip' = m_offset'[at[d.p]] /\ JumpedTo(m, d.p))
  <2>1. CASE ip' = m_offset[at[c.p] + 1] /\ d.p = c.p + 1
    <3>1. c.p \in DOMAIN m.il /\ c.p + 1 \in DOMAIN m.il
      BY <2>1 DEF Body, Sound
    <3>2. from[c.p + 1] = at[c.p] + 1
      BY <3>1 DEF Framed, Frame
    <3> QED
      BY <1>1, <2>1, <3>2
  <2> QED
    BY <1>1, <2>1 DEF Goes
<1>3. \A k : Located(at, k)' = Located(at, k)
  BY <1>1 DEF Located
<1>4. \A j \in DOMAIN d.cont : j \in DOMAIN cont' /\ cont'[j] = Located(at, d.cont[j])'
  BY <1>3 DEF Goes
<1>5. stack' = d.stack /\ \A j \in DOMAIN d.caught : j \in DOMAIN caught' /\ caught'[j] = d.caught[j]
  BY DEF Goes
<1> QED
  BY <1>2, <1>4, <1>5 DEF Body

\* A step in the method: on to the next moment, or out by an exception.
LEMMA BodyStep ==
    ASSUME NEW m, NEW at, NEW from, Framed(m, at, from), NEW T, NEW c, Body(m, at, from, c),
           m.il[c.p].op # "ret", phase \in {"original", "rewritten"}, Next,
           \A x \in BOOLEAN : m.il[c.p].op \in {"brtrue", "call"} /\ Choose(x)
              => x = T[c.used + 1]
    PROVE  /\ listVars' = listVars /\ localVars' = localVars
           /\ Chooses(m, c, ANext(m, T, c))
           /\ \/ Escapes(m, at, ANext(m, T, c))
              \/ /\ Body(m, at, from, ANext(m, T, c))'
                 /\ ANext(m, T, c).p # 0
                 /\ phase' = phase /\ result' = result /\ outcome' = outcome
<1>1. PICK d : d = ANext(m, T, c)
  OBVIOUS
<1>2. Follows(m, at, c, d)
  BY <1>1, StepFollows
<1>3. listVars' = listVars
  <2>1. RunStep
    BY RunSteps DEF Skip, Rewrite, Export
  <2> QED
    BY <2>1 DEF RunStep
<1>4. m \in Methods /\ Sound(m, c)
  BY FramedIs DEF Body
<1>5. Ends(d) \/ Sound(m, d)
  BY <1>1, <1>4, SoundStep
<1>6. CASE Escapes(m, at, d)
  BY <1>1, <1>2, <1>3, <1>6 DEF Follows
<1>7. CASE ~Escapes(m, at, d)
  <2>1. Goes(m, at, c, d)
    BY <1>2, <1>7 DEF Follows
  <2>2. ~Ends(d)
    <3> SUFFICES ASSUME NEW e \in Values \cup {None}, d = Fin([kind |-> "throw", value |-> e])
                 PROVE  FALSE
      BY DEF Ends
    <3>1. d.p = 0
      BY DEF Fin, Conf
    <3>2. DOMAIN m.il \subseteq Nat /\ 0 \notin DOMAIN m.il /\ c.p \in DOMAIN m.il
      BY <1>4, MethodIs DEF Sound
    <3> QED
      BY <2>1, <3>1, <3>2 DEF Goes
  <2> QED
    BY <1>1, <1>2, <1>3, <1>4, <1>5, <2>1, <2>2, GoesBody, EndsNowhere DEF Follows, Goes
<1> QED
  BY <1>6, <1>7

-----------------------------------------------------------------------------
(* The runs of the method as written *)

\* How a method may end
Ending(m, how) ==
    \/ \E e \in Values \cup {None} : how = [kind |-> "throw", value |-> e]
    \/ \E x : how = [kind |-> "ret", value |-> x] /\ (m.void => x = None)

\* What is left of the choices T after the first used of them
Left(T, used) ==
    /\ T \in Seq(BOOLEAN) /\ used \in Nat
    /\ Len(T) = used + Len(trail)
    /\ \A i \in 1 .. Len(trail) : trail[i] = T[used + i]

\* The first run: trail holds the choices that led from the start to moment c.
First(m, c) ==
    /\ Body(m, Same(m), Same(m), c)
    /\ c.used = Len(trail)
    /\ Path(m, trail, Start0, c)

\* The second run of a list that was left as it was: from moment c the choices that are
\* left lead to the end of the first run.
Second(m, T, c) ==
    /\ Body(m, Same(m), Same(m), c)
    /\ Left(T, c.used)
    /\ Path(m, T, c, Fin(result))

\* A return of the method as it was written ends it.
LEMMA PlainReturns ==
    ASSUME NEW m, m = method, Framed(m, Same(m), Same(m)), NEW T, NEW c, Body(m, Same(m), Same(m), c),
           m.il[c.p].op = "ret", phase \in {"original", "rewritten"}, Next, il = m.il
    PROVE  \E how : /\ Ending(m, how) /\ Finish(how)
                    /\ ANext(m, T, c) = Fin(how)
                    /\ listVars' = listVars /\ trail' = trail /\ localVars' = localVars
<1>1. c.p \in DOMAIN m.il /\ Exact
  BY FramedIs DEF Body, Sound
<1>2. ip = m_offset[c.p]
  BY <1>1 DEF Body, Same
<1>3. Here = c.p
  BY <1>1, <1>2, HereIs
<1>4. Return
  BY <1>3, WhichAction
<1>5. PICK how : how = [kind |-> "ret", value |-> IF m.void THEN None ELSE Top]
  OBVIOUS
<1>6. Finish(how) /\ listVars' = listVars /\ trail' = trail /\ localVars' = localVars
  BY <1>4, <1>5 DEF Return, listVars, localVars
<1>7. ANext(m, T, c) = Fin([kind |-> "ret", value |-> IF m.void THEN None ELSE TopOf(c.stack)])
  BY ANextIs
<1>8. Top = TopOf(c.stack)
  BY DEF Top, TopOf, Body
<1>9. ANext(m, T, c) = Fin(how)
  BY <1>5, <1>7, <1>8
<1>10. Ending(m, how)
  BY <1>5 DEF Ending
<1> QED
  BY <1>6, <1>9, <1>10

\* What the method as it was written does not catch ends it.
LEMMA PlainEscapes ==
    ASSUME NEW m, Framed(m, Same(m), Same(m)), il = m.il, clauses = m.clauses,
           NEW d, Escapes(m, Same(m), d)
    PROVE  \E how : Ending(m, how) /\ Finish(how) /\ d = Fin(how)
<1>1. PICK e \in Values \cup {None}, a \in DOMAIN m.il, first \in Nat :
        /\ d = Fin([kind |-> "throw", value |-> e])
        /\ Catching(m.il, m.clauses, a, first) = {}
        /\ Raise(e, m_offset[Same(m)[a]], first)
  BY DEF Escapes
<1>2. Same(m)[a] = a
  BY DEF Same
<1>3. Finish([kind |-> "throw", value |-> e])
  BY <1>1, <1>2, FramedIs, RaiseIs
<1>4. Ending(m, [kind |-> "throw", value |-> e])
  BY DEF Ending
<1> QED
  BY <1>1, <1>3, <1>4

\* A choice of the first run is added to the trail, a choice of the second is taken from it.
LEMMA ChooseIs ==
    ASSUME NEW b, Choose(b)
    PROVE  /\ phase = "original" => trail' = Append(trail, b)
           /\ phase = "rewritten" => trail # <<>> /\ b = Head(trail) /\ trail' = Tail(trail)
  BY DEF Choose

\* A step of the first run leads on, or ends the method with a path of choices to that end.
LEMMA FirstStep ==
    ASSUME NEW m, m = method, Framed(m, Same(m), Same(m)), il = m.il, clauses = m.clauses,
           trail \in Seq(BOOLEAN), NEW c, First(m, c), phase = "original", Next
    PROVE  /\ listVars' = listVars /\ localVars' = localVars /\ trail' \in Seq(BOOLEAN)
           /\ \/ phase' = "original" /\ \E d : First(m, d)'
              \/ phase' = "rewrite" /\ Ending(m, result') /\ Path(m, trail', Start0, Fin(result'))
<1> DEFINE op == m.il[c.p].op
<1>0. /\ Body(m, Same(m), Same(m), c) /\ c.used = Len(trail) /\ Path(m, trail, Start0, c)
      /\ Sound(m, c) /\ m \in Methods /\ c.used \in Nat
  BY FramedIs DEF First, Body, Sound
<1>1. c.p # 0
  BY <1>0, EndsNowhere
<1>2. \A how : Finish(how) => phase' = "rewrite" /\ result' = how
  BY DEF Finish
<1>3. CASE op = "ret"
  <2>1. PICK how : /\ Ending(m, how) /\ Finish(how)
                   /\ ANext(m, trail, c) = Fin(how)
                   /\ listVars' = listVars /\ trail' = trail /\ localVars' = localVars
    BY <1>0, <1>3, PlainReturns
  <2>2. Ready(m, trail, c)
    BY <1>0, <1>1, <1>3 DEF Ready
  <2>3. Path(m, trail, Start0, Fin(how))
    BY <1>0, <2>1, <2>2, PathExtends
  <2> QED
    BY <1>2, <2>1, <2>3
<1>4. CASE op # "ret"
  <2>1. PICK T : T = trail'
    OBVIOUS
  <2>2. ASSUME NEW x \in BOOLEAN, Choose(x)
        PROVE  T = Append(trail, x) /\ T \in Seq(BOOLEAN) /\ Len(T) = c.used + 1 /\ x = T[c.used + 1]
    <3>1. T = Append(trail, x)
      BY <2>1, <2>2, ChooseIs
    <3> QED
      BY <1>0, <3>1
  <2>3. PICK d : d = ANext(m, T, c)
    OBVIOUS
  <2>4. /\ listVars' = listVars /\ localVars' = localVars
        /\ Chooses(m, c, d)
        /\ \/ Escapes(m, Same(m), d)
           \/ Body(m, Same(m), Same(m), d)' /\ d.p # 0 /\ phase' = phase
    <3>1. \A x \in BOOLEAN : op \in {"brtrue", "call"} /\ Choose(x) => x = T[c.used + 1]
      BY <2>2
    <3> QED
      BY <1>0, <1>4, <2>3, <3>1, BodyStep
  <2>5. /\ T \in Seq(BOOLEAN) /\ Path(m, T, Start0, c) /\ Ready(m, T, c)
        /\ d.p = 0 \/ d.used = Len(T)
    <3>1. CASE op \in {"brtrue", "call"}
      <4>1. (\E b \in BOOLEAN : Choose(b)) /\ (d.p = 0 \/ d.used = c.used + 1)
        BY <2>4, <3>1 DEF Chooses
      <4>2. PICK b \in BOOLEAN : Choose(b)
        BY <4>1
      <4>3. T = Append(trail, b) /\ T \in Seq(BOOLEAN) /\ Len(T) = c.used + 1
        BY <2>2, <4>2
      <4>4. Path(m, T, Start0, c)
        BY <1>0, <4>3, PathKept
      <4> QED
        BY <1>0, <1>1, <4>1, <4>3, <4>4 DEF Ready
    <3>2. CASE op \notin {"brtrue", "call"}
      <4>1. T = trail /\ (d.p = 0 \/ d.used = c.used)
        BY <2>1, <2>4, <3>2 DEF Chooses
      <4> QED
        BY <1>0, <1>1, <3>2, <4>1 DEF Ready
    <3> QED
      BY <3>1, <3>2
  <2>6. Path(m, T, Start0, d)
    BY <2>3, <2>5, PathExtends
  <2>7. CASE Escapes(m, Same(m), d)
    <3>1. PICK how : Ending(m, how) /\ Finish(how) /\ d = Fin(how)
      BY <2>7, PlainEscapes
    <3> QED
      BY <1>2, <2>1, <2>4, <2>5, <2>6, <3>1
  <2>8. CASE Body(m, Same(m), Same(m), d)' /\ d.p # 0 /\ phase' = phase
    <3>1. First(m, d)'
      BY <2>1, <2>5, <2>6, <2>8 DEF First
    <3> QED
      BY <2>1, <2>4, <2>5, <2>8, <3>1
  <2> QED
    BY <2>4, <2>7, <2>8
<1> QED
  BY <1>3, <1>4

\* What a step of the second run takes from the trail is what is left of the choices.
LEMMA LeftStep ==
    ASSUME NEW m, NEW T, NEW c, Left(T, c.used), trail \in Seq(BOOLEAN), phase = "rewritten",
           NEW d, Chooses(m, c, d), d.p # 0 \/ m.il[c.p].op \notin {"brtrue", "call"}
    PROVE  /\ trail' \in Seq(BOOLEAN)
           /\ d.p # 0 => Left(T, d.used)'
<1>0. /\ T \in Seq(BOOLEAN) /\ c.used \in Nat /\ Len(T) = c.used + Len(trail)
      /\ \A i \in 1 .. Len(trail) : trail[i] = T[c.used + i]
  BY DEF Left
<1>1. CASE m.il[c.p].op \in {"brtrue", "call"}
  <2>1. PICK b \in BOOLEAN : Choose(b)
    BY <1>1 DEF Chooses
  <2>2. trail # <<>> /\ trail' = Tail(trail) /\ d.p # 0 /\ d.used = c.used + 1
    BY <1>1, <2>1, ChooseIs DEF Chooses
  <2>3. PICK t : t = Tail(trail)
    OBVIOUS
  <2>4. /\ t \in Seq(BOOLEAN) /\ Len(t) = Len(trail) - 1
        /\ \A i \in 1 .. Len(t) : t[i] = trail[i + 1]
    BY <2>2, <2>3
  <2>5. \A i \in 1 .. Len(t) : t[i] = T[c.used + 1 + i]
    <3> SUFFICES ASSUME NEW i \in 1 .. Len(t) PROVE t[i] = T[c.used + 1 + i]
      OBVIOUS
    <3>0. PICK u, n : u = c.used /\ n = Len(trail)
      OBVIOUS
    <3>4. u \in Nat /\ n \in Nat /\ i \in 1 .. (n - 1)
      BY <1>0, <2>4, <3>0
    <3>5. i + 1 \in 1 .. n /\ u + (i + 1) = u + 1 + i
      BY <3>4
    <3>1. i + 1 \in 1 .. Len(trail) /\ c.used + (i + 1) = c.used + 1 + i
      BY <3>0, <3>5
    <3>2. trail[i + 1] = T[c.used + (i + 1)]
      BY <1>0, <3>1
    <3> QED
      BY <2>4, <3>1, <3>2
  <2>6. Len(T) = c.used + 1 + Len(t)
    BY <1>0, <2>4
  <2> QED
    BY <1>0, <2>2, <2>3, <2>4, <2>5, <2>6 DEF Left
<1>2. CASE m.il[c.p].op \notin {"brtrue", "call"}
  BY <1>0, <1>2 DEF Chooses, Left
<1> QED
  BY <1>1, <1>2

\* The choice of the second run is the one that was made at the same moment.
LEMMA LeftChoice ==
    ASSUME NEW T, NEW used, Left(T, used), trail \in Seq(BOOLEAN), phase = "rewritten",
           NEW x, Choose(x)
    PROVE  x = T[used + 1] /\ used < Len(T)
<1>1. trail # <<>> /\ x = Head(trail)
  BY ChooseIs
<1>2. Len(trail) \in Nat /\ Len(trail) > 0 /\ x = trail[1]
  BY <1>1
<1>3. trail[1] = T[used + 1]
  BY <1>2 DEF Left
<1> QED
  BY <1>2, <1>3 DEF Left

\* A step in the method during the second run
LEMMA SecondBody ==
    ASSUME NEW m, NEW at, NEW from, Framed(m, at, from), NEW T, NEW c, Body(m, at, from, c),
           Left(T, c.used), trail \in Seq(BOOLEAN), Path(m, T, c, Fin(result)),
           m.il[c.p].op # "ret", phase = "rewritten", Next
    PROVE  /\ listVars' = listVars /\ localVars' = localVars /\ trail' \in Seq(BOOLEAN)
           /\ \/ Escapes(m, at, Fin(result))
              \/ /\ \E d : Body(m, at, from, d)' /\ Left(T, d.used)' /\ Path(m, T, d, Fin(result'))
                 /\ phase' = phase /\ result' = result /\ outcome' = outcome
<1>0. m \in Methods /\ Sound(m, c) /\ c.used \in Nat
  BY FramedIs DEF Body, Sound
<1>1. c.p # 0
  BY <1>0, EndsNowhere
<1>2. PICK d : d = ANext(m, T, c)
  OBVIOUS
<1>3. /\ listVars' = listVars /\ localVars' = localVars
      /\ Chooses(m, c, d)
      /\ \/ Escapes(m, at, d)
         \/ /\ Body(m, at, from, d)' /\ d.p # 0
            /\ phase' = phase /\ result' = result /\ outcome' = outcome
  <2>1. \A x \in BOOLEAN : m.il[c.p].op \in {"brtrue", "call"} /\ Choose(x) => x = T[c.used + 1]
    BY LeftChoice
  <2> QED
    BY <1>0, <1>2, <2>1, BodyStep
<1>4. Ready(m, T, c)
  <2>1. m.il[c.p].op \in {"brtrue", "call"} => \E b \in BOOLEAN : Choose(b)
    BY <1>3 DEF Chooses
  <2>2. m.il[c.p].op \in {"brtrue", "call"} => c.used < Len(T)
    BY <2>1, LeftChoice
  <2> QED
    BY <1>0, <1>1, <2>2 DEF Ready
<1>5. Path(m, T, d, Fin(result))
  BY <1>2, <1>4, PathGoesOn
<1>6. trail' \in Seq(BOOLEAN)
  <2>1. CASE m.il[c.p].op \in {"brtrue", "call"}
    <3>1. PICK b \in BOOLEAN : Choose(b)
      BY <1>3, <2>1 DEF Chooses
    <3>2. trail # <<>> /\ trail' = Tail(trail)
      BY <3>1, ChooseIs
    <3> QED
      BY <3>2
  <2>2. CASE m.il[c.p].op \notin {"brtrue", "call"}
    BY <1>3, <2>2 DEF Chooses
  <2> QED
    BY <2>1, <2>2
<1>7. CASE Escapes(m, at, d)
  <2>1. PICK e \in Values \cup {None} : d = Fin([kind |-> "throw", value |-> e])
    BY <1>7 DEF Escapes
  <2>2. [kind |-> "throw", value |-> e] = result
    BY <1>5, <2>1, PathEnds
  <2>3. d = Fin(result)
    BY <2>1, <2>2
  <2> QED
    BY <1>3, <1>6, <1>7, <2>3
<1>8. CASE /\ Body(m, at, from, d)' /\ d.p # 0
           /\ phase' = phase /\ result' = result /\ outcome' = outcome
  <2>1. Left(T, d.used)'
    BY <1>3, <1>8, LeftStep
  <2> QED
    BY <1>3, <1>5, <1>6, <1>8, <2>1
<1> QED
  BY <1>3, <1>7, <1>8

\* A step of the second run of such a list leads on, or ends the method in the same way.
LEMMA SecondStep ==
    ASSUME NEW m, m = method, Framed(m, Same(m), Same(m)), il = m.il, clauses = m.clauses,
           trail \in Seq(BOOLEAN), NEW T, NEW c, Second(m, T, c), phase = "rewritten", Next
    PROVE  /\ listVars' = listVars /\ localVars' = localVars /\ trail' \in Seq(BOOLEAN)
           /\ result' = result
           /\ \/ phase' = "rewritten" /\ \E d : Second(m, T, d)'
              \/ phase' = "done" /\ outcome' = result
<1>0. /\ Body(m, Same(m), Same(m), c) /\ Left(T, c.used) /\ Path(m, T, c, Fin(result))
      /\ m \in Methods /\ Sound(m, c) /\ c.used \in Nat
  BY FramedIs DEF Second, Body, Sound
<1>1. \A how : Finish(how) => phase' = "done" /\ outcome' = how /\ result' = result
  BY DEF Finish
<1>2. CASE m.il[c.p].op = "ret"
  <2>1. PICK how : /\ Ending(m, how) /\ Finish(how)
                   /\ ANext(m, T, c) = Fin(how)
                   /\ listVars' = listVars /\ trail' = trail /\ localVars' = localVars
    BY <1>0, <1>2, PlainReturns
  <2>2. Ready(m, T, c)
    BY <1>0, <1>2, EndsNowhere DEF Ready
  <2>3. Path(m, T, Fin(how), Fin(result))
    BY <1>0, <2>1, <2>2, PathGoesOn
  <2>4. how = result
    BY <2>3, PathEnds
  <2> QED
    BY <1>1, <2>1, <2>4
<1>3. CASE m.il[c.p].op # "ret"
  <2>1. /\ listVars' = listVars /\ localVars' = localVars /\ trail' \in Seq(BOOLEAN)
        /\ \/ Escapes(m, Same(m), Fin(result))
           \/ /\ \E d : /\ Body(m, Same(m), Same(m), d)' /\ Left(T, d.used)'
                        /\ Path(m, T, d, Fin(result'))
              /\ phase' = phase /\ result' = result /\ outcome' = outcome
    BY <1>0, <1>3, SecondBody
  <2>2. CASE Escapes(m, Same(m), Fin(result))
    <3>1. PICK how : Finish(how) /\ Fin(result) = Fin(how)
      BY <2>2, PlainEscapes
    <3>2. how = result
      <4>1. Fin(result).stack = result /\ Fin(how).stack = how
        BY DEF Fin, Conf
      <4> QED
        BY <3>1, <4>1
    <3> QED
      BY <1>1, <2>1, <3>1, <3>2
  <2>3. CASE /\ \E d : /\ Body(m, Same(m), Same(m), d)' /\ Left(T, d.used)'
                       /\ Path(m, T, d, Fin(result'))
             /\ phase' = phase /\ result' = result /\ outcome' = outcome
    <3>1. \E d : Second(m, T, d)'
      BY <2>3 DEF Second
    <3> QED
      BY <2>1, <2>3, <3>1
  <2> QED
    BY <2>1, <2>2, <2>3
<1> QED
  BY <1>2, <1>3

-----------------------------------------------------------------------------
(* The instrumented list *)

\* The list is what the rewriter and Export have made of the method; k is the place of the catch.
Wrapped(m, at, from, k, d) ==
    /\ m \in Methods /\ m = method
    /\ \E n : k = n + 7 /\ Shape(m, il, at, from, n, d)
    /\ clauses = NewClauses(m.clauses)
    /\ m_offset = Offsets(il)
    /\ TooFar(il, m_offset) = {}

\* What the proofs use of an instrumented list
LEMMA WrappedIs ==
    ASSUME NEW m, NEW at, NEW from, NEW k, NEW d, Wrapped(m, at, from, k, d)
    PROVE  /\ Framed(m, at, from) /\ Exact
           /\ ClausesAt(m, il, clauses, Len(m.clauses), k, d)
           /\ Len(m.clauses) \in Nat /\ k \in Nat /\ k > 6 /\ d \in Nat
           /\ (m.void => d = 0) /\ (~m.void => d = 1)
           /\ BeginAt(m, il) /\ EndAt(m, il, k, d) /\ Placed(m, il, at, from, k - 7)
           /\ \A i \in DOMAIN m.il : at[i] \in DOMAIN il /\ from[i] \in DOMAIN il
                                     /\ at[i] \in 7 .. (k - 1) /\ from[i] \in 7 .. (k - 1)
           /\ Len(il) > Len(m.il)
<1>1. PICK n : k = n + 7 /\ Shape(m, il, at, from, n, d)
  BY DEF Wrapped
<1>2. Framed(m, at, from)
  BY <1>1, AddedFrame DEF Wrapped
<1>3. ClausesAt(m, il, clauses, Len(m.clauses), n + 7, d)
  BY <1>1, NewClausesAt DEF Wrapped
<1>4. BeginAt(m, il) /\ EndAt(m, il, n + 7, d) /\ Placed(m, il, at, from, n) /\ Len(il) > Len(m.il)
  BY <1>1 DEF Shape
<1>5. n \in Nat
  BY <1>4 DEF Placed
<1>6. k \in Nat /\ k > 6 /\ k - 7 = n /\ 6 + n = k - 1
  BY <1>1, <1>5
<1>7. d \in Nat /\ (m.void => d = 0) /\ (~m.void => d = 1)
  BY <1>4 DEF EndAt
<1>8. \A i \in DOMAIN m.il : at[i] \in DOMAIN il /\ from[i] \in DOMAIN il
  BY <1>2 DEF Framed, Frame
<1>9. \A i \in DOMAIN m.il : at[i] \in 7 .. (6 + n) /\ from[i] \in 7 .. (6 + n)
  BY <1>4 DEF Placed
<1>10. Exact
  BY <1>2, FramedIs
<1>11. Len(m.clauses) \in Nat
  BY <1>3 DEF ClausesAt
<1> QED
  BY <1>1, <1>2, <1>3, <1>4, <1>6, <1>7, <1>8, <1>9, <1>10, <1>11

\* The blocks of the method's own clauses are in the method.
LEMMA OwnPlaces ==
    ASSUME NEW m, NEW at, NEW from, NEW k, NEW d, Wrapped(m, at, from, k, d),
           NEW j \in DOMAIN m.clauses
    PROVE  /\ \A q \in TryBlock(il, clauses[j]) : q > 6 /\ q < k
           /\ \A q \in HandlerBlock(il, clauses[j]) : q > 6 /\ q < k
<1>1. /\ Framed(m, at, from) /\ m \in Methods /\ k \in Nat
      /\ \A i \in DOMAIN m.il : at[i] \in DOMAIN il /\ at[i] \in 7 .. (k - 1)
  BY WrappedIs DEF Wrapped
<1>2. /\ clauses[j] = m.clauses[j] /\ DistinctIds(il)
      /\ \A i \in DOMAIN m.il : il[at[i]].id = m.il[i].id
  BY <1>1, FramedIs DEF Framed, Frame, Exact, WellFormed
<1>3. ASSUME NEW id, \E x \in DOMAIN m.il : m.il[x].id = id
      PROVE  Position(il, id) \in 7 .. (k - 1)
  <2>1. PICK x \in DOMAIN m.il : m.il[x].id = id
    BY <1>3
  <2>2. Position(il, il[at[x]].id) = at[x]
    BY <1>1, <1>2, PositionIs
  <2> QED
    BY <1>1, <1>2, <2>1, <2>2
<1>4. ClauseIn(m.il, m.clauses[j])
  BY <1>1, ClausesOf
<1>5. PICK tb, te, hb, he : /\ tb = Position(il, clauses[j].try_begin)
                            /\ te = Position(il, clauses[j].try_end)
                            /\ hb = Position(il, clauses[j].handler_begin)
                            /\ he = Position(il, clauses[j].handler_end)
  OBVIOUS
<1>6. tb \in 7 .. (k - 1) /\ te \in 7 .. (k - 1) /\ hb \in 7 .. (k - 1) /\ he \in 7 .. (k - 1)
  BY <1>2, <1>3, <1>4, <1>5 DEF ClauseIn
<1>7. TryBlock(il, clauses[j]) = tb .. (te - 1) /\ HandlerBlock(il, clauses[j]) = hb .. he
  BY <1>5 DEF TryBlock, HandlerBlock
<1> QED
  BY <1>1, <1>6, <1>7

\* The added clauses that cover a place, and the own ones that cannot
LEMMA AddedBlocks ==
    ASSUME NEW m, NEW at, NEW from, NEW k, NEW d, Wrapped(m, at, from, k, d),
           NEW o, o = Len(m.clauses), NEW q \in DOMAIN il
    PROVE  /\ DOMAIN clauses = 1 .. (o + 4) /\ DOMAIN m.clauses = 1 .. o /\ q \in Nat
           /\ q < 7 \/ q >= k => \A j \in 1 .. o : /\ q \notin TryBlock(il, clauses[j])
                                                   /\ q \notin HandlerBlock(il, clauses[j])
           /\ clauses[o + 1].kind = "catch" /\ clauses[o + 2].kind = "catch"
           /\ clauses[o + 3].kind = "catch" /\ clauses[o + 4].kind = "finally"
           /\ q \in TryBlock(il, clauses[o + 1]) <=> 1 <= q /\ q <= 4
           /\ q \in TryBlock(il, clauses[o + 2]) <=> k + 2 <= q /\ q <= k + 3 + d
           /\ q \in TryBlock(il, clauses[o + 3]) <=> 1 <= q /\ q <= k - 1
           /\ q \in TryBlock(il, clauses[o + 4]) <=> 1 <= q /\ q <= k + 1
           /\ q \in HandlerBlock(il, clauses[o + 1]) <=> 5 <= q /\ q <= 6
           /\ q \in HandlerBlock(il, clauses[o + 2]) <=> k + 4 + d <= q /\ q <= k + 5 + d
           /\ q \in HandlerBlock(il, clauses[o + 3]) <=> k <= q /\ q <= k + 1
           /\ q \in HandlerBlock(il, clauses[o + 4]) <=> k + 2 <= q /\ q <= k + 6 + d
           /\ Position(il, clauses[o + 1].handler_begin) = 5
           /\ Position(il, clauses[o + 2].handler_begin) = k + 4 + d
           /\ Position(il, clauses[o + 3].handler_begin) = k
           /\ Position(il, clauses[o + 4].handler_begin) = k + 2
<1>1. /\ ClausesAt(m, il, clauses, o, k, d) /\ k \in Nat /\ d \in Nat /\ o \in Nat /\ m \in Methods
      /\ Exact
  BY WrappedIs DEF Wrapped
<1>2. DOMAIN m.clauses = 1 .. o
  BY <1>1, ClausesOf
<1>3. q \in Nat
  BY <1>1 DEF Exact, WellFormed
<1>4. DOMAIN clauses = 1 .. (o + 4)
  <2>1. clauses \in Seq(ClauseSet) /\ Len(clauses) = o + 4
    BY <1>1 DEF ClausesAt
  <2> QED
    BY <2>1
<1>5. /\ Covers(il, clauses[o + 1], "catch", 1, 4, 5, 6)
      /\ Covers(il, clauses[o + 2], "catch", k + 2, k + 3 + d, k + 4 + d, k + 5 + d)
      /\ Covers(il, clauses[o + 3], "catch", 1, k - 1, k, k + 1)
      /\ Covers(il, clauses[o + 4], "finally", 1, k + 1, k + 2, k + 6 + d)
  BY <1>1 DEF ClausesAt
<1>7. /\ k + 2 \in Int /\ k + 3 + d \in Int /\ k + 4 + d \in Int /\ k + 5 + d \in Int
      /\ k - 1 \in Int /\ k + 1 \in Int /\ k + 6 + d \in Int /\ k \in Int
      /\ 1 \in Int /\ 4 \in Int /\ 5 \in Int /\ 6 \in Int
  BY <1>1
<1>8. ASSUME q < 7 \/ q >= k, NEW j \in 1 .. o
      PROVE  q \notin TryBlock(il, clauses[j]) /\ q \notin HandlerBlock(il, clauses[j])
  <2>1. ~(q > 6 /\ q < k)
    BY <1>1, <1>3, <1>8
  <2> QED
    BY <1>2, <2>1, OwnPlaces
<1>9. /\ clauses[o + 1].kind = "catch" /\ Position(il, clauses[o + 1].handler_begin) = 5
      /\ q \in TryBlock(il, clauses[o + 1]) <=> 1 <= q /\ q <= 4
      /\ q \in HandlerBlock(il, clauses[o + 1]) <=> 5 <= q /\ q <= 6
  <2>1. /\ clauses[o + 1].kind = "catch" /\ Position(il, clauses[o + 1].handler_begin) = 5
        /\ TryBlock(il, clauses[o + 1]) = 1 .. 4 /\ HandlerBlock(il, clauses[o + 1]) = 5 .. 6
    BY <1>5 DEF Covers
  <2>2. (q \in 1 .. 4 <=> 1 <= q /\ q <= 4) /\ (q \in 5 .. 6 <=> 5 <= q /\ q <= 6)
    BY <1>3
  <2> QED
    BY <2>1, <2>2, Zenon
<1>10. /\ clauses[o + 2].kind = "catch" /\ Position(il, clauses[o + 2].handler_begin) = k + 4 + d
       /\ q \in TryBlock(il, clauses[o + 2]) <=> k + 2 <= q /\ q <= k + 3 + d
       /\ q \in HandlerBlock(il, clauses[o + 2]) <=> k + 4 + d <= q /\ q <= k + 5 + d
  BY <1>1, <1>3, <1>5, <1>7 DEF Covers
<1>11. /\ clauses[o + 3].kind = "catch" /\ Position(il, clauses[o + 3].handler_begin) = k
       /\ q \in TryBlock(il, clauses[o + 3]) <=> 1 <= q /\ q <= k - 1
       /\ q \in HandlerBlock(il, clauses[o + 3]) <=> k <= q /\ q <= k + 1
  BY <1>1, <1>3, <1>5, <1>7 DEF Covers
<1>12. /\ clauses[o + 4].kind = "finally" /\ Position(il, clauses[o + 4].handler_begin) = k + 2
       /\ q \in TryBlock(il, clauses[o + 4]) <=> 1 <= q /\ q <= k + 1
       /\ q \in HandlerBlock(il, clauses[o + 4]) <=> k + 2 <= q /\ q <= k + 6 + d
  BY <1>1, <1>3, <1>5, <1>7 DEF Covers
<1> QED
  BY <1>2, <1>3, <1>4, <1>8, <1>9, <1>10, <1>11, <1>12

-----------------------------------------------------------------------------
(* Where exceptions and leaves of the instrumented list come to *)

\* A number of a set that none of the set is below is the one that Min yields.
LEMMA MinIs ==
    ASSUME NEW S \in SUBSET Nat, NEW i \in S, \A x \in S : i <= x
    PROVE  Min(S) = i
<1>1. PICK n : n = Min(S)
  OBVIOUS
<1>2. n \in S /\ n <= i
  BY <1>1, MinIsLeast
<1>3. i \in Nat /\ n \in Nat /\ i <= n
  BY <1>2
<1> QED
  BY <1>1, <1>2, <1>3

\* The places that are added in front of the method and behind it
LEMMA AddedPlaces ==
    ASSUME NEW m, NEW at, NEW from, NEW k, NEW d, Wrapped(m, at, from, k, d), NEW q \in Nat,
           1 <= q /\ q <= k + 7 + d + d
    PROVE  q \in DOMAIN il
<1>1. k \in Nat /\ d \in Nat /\ AddedAt(il, k + 7 + d + d, 20, "ret", None) /\ Exact
  BY WrappedIs DEF EndAt
<1>2. k + 7 + d + d \in DOMAIN il /\ DOMAIN il = 1 .. Len(il) /\ Len(il) \in Nat
  BY <1>1 DEF AddedAt, Exact, WellFormed
<1> QED
  BY <1>1, <1>2

\* An exception at an added place comes to the handler of the first clause, j, that has it.
LEMMA AddedRaise ==
    ASSUME NEW m, NEW at, NEW from, NEW k, NEW d, Wrapped(m, at, from, k, d),
           NEW q \in DOMAIN il, NEW e, NEW first \in Nat, Raise(e, m_offset[q], first),
           NEW j \in DOMAIN clauses, first <= j, q \in TryBlock(il, clauses[j]),
           \A i \in DOMAIN clauses : i >= first /\ i < j => q \notin TryBlock(il, clauses[i])
    PROVE  Handled(e, q, j)
<1>1. Exact /\ DOMAIN clauses \subseteq Nat
  BY WrappedIs DEF Exact
<1>2. PICK S : S = Catching(il, clauses, q, first)
  OBVIOUS
<1>3. S \in SUBSET Nat
  BY <1>1, <1>2 DEF Catching
<1>4. j \in S
  BY <1>1, <1>2 DEF Catching
<1>5. \A x \in S : j <= x
  BY <1>1, <1>2 DEF Catching
<1>6. Min(S) = j
  BY <1>3, <1>4, <1>5, MinIs
<1>7. S # {}
  BY <1>4
<1> QED
  BY <1>1, <1>2, <1>6, <1>7, RaiseIs

\* BeginMethod throws: the handler that logs gets the exception.
LEMMA BeginRaises ==
    ASSUME NEW m, NEW at, NEW from, NEW k, NEW d, Wrapped(m, at, from, k, d),
           NEW e, Raise(e, m_offset[2], 1)
    PROVE  /\ ip' = m_offset[5] /\ stack' = <<e>>
           /\ phase' = phase /\ result' = result /\ outcome' = outcome
<1>1. PICK o : o = Len(m.clauses)
  OBVIOUS
<1>2. o \in Nat /\ k \in Nat /\ d \in Nat /\ k > 6 /\ 2 \in Nat
  BY <1>1, WrappedIs
<1>3. 2 \in DOMAIN il
  BY <1>2, AddedPlaces
<1>4. /\ DOMAIN clauses = 1 .. (o + 4)
      /\ \A i \in 1 .. o : 2 \notin TryBlock(il, clauses[i])
      /\ clauses[o + 1].kind = "catch" /\ 2 \in TryBlock(il, clauses[o + 1])
      /\ Position(il, clauses[o + 1].handler_begin) = 5
  <2>1. PICK q : q = 2
    OBVIOUS
  <2>2. q < 7 /\ 1 <= q /\ q <= 4 /\ q \in DOMAIN il
    BY <1>3, <2>1
  <2>3. /\ DOMAIN clauses = 1 .. (o + 4)
        /\ \A i \in 1 .. o : q \notin TryBlock(il, clauses[i])
        /\ clauses[o + 1].kind = "catch"
        /\ Position(il, clauses[o + 1].handler_begin) = 5
        /\ q \in TryBlock(il, clauses[o + 1]) <=> 1 <= q /\ q <= 4
    BY <1>1, <2>2, AddedBlocks
  <2> QED
    BY <2>1, <2>2, <2>3
<1>5. Handled(e, 2, o + 1)
  <2>1. o + 1 \in DOMAIN clauses /\ 1 <= o + 1
    BY <1>2, <1>4
  <2>2. \A i \in DOMAIN clauses : i >= 1 /\ i < o + 1 => 2 \notin TryBlock(il, clauses[i])
    BY <1>2, <1>4
  <2> QED
    BY <1>3, <1>4, <2>1, <2>2, AddedRaise
<1> QED
  BY <1>4, <1>5 DEF Handled

\* The exception of the method goes on from the catch to the finally.
LEMMA RethrowRaises ==
    ASSUME NEW m, NEW at, NEW from, NEW k, NEW d, Wrapped(m, at, from, k, d),
           NEW e, Raise(e, m_offset[k + 1], 1), NEW o, o = Len(m.clauses)
    PROVE  /\ ip' = m_offset[k + 2] /\ stack' = <<>>
           /\ cont' = With(cont, o + 4, [kind |-> "throw", value |-> e, at |-> m_offset[k + 1]])
           /\ phase' = phase /\ result' = result /\ outcome' = outcome
<1>2. o \in Nat /\ k \in Nat /\ d \in Nat /\ k > 6
  BY WrappedIs
<1>3. k + 1 \in DOMAIN il
  BY <1>2, AddedPlaces
<1>10. k + 1 >= k /\ ~(k + 1 <= 4) /\ ~(k + 2 <= k + 1) /\ ~(k + 1 <= k - 1)
       /\ 1 <= k + 1 /\ k + 1 <= k + 1
  BY <1>2
<1>4. /\ DOMAIN clauses = 1 .. (o + 4)
      /\ \A i \in 1 .. o : k + 1 \notin TryBlock(il, clauses[i])
      /\ k + 1 \notin TryBlock(il, clauses[o + 1])
      /\ k + 1 \notin TryBlock(il, clauses[o + 2])
      /\ k + 1 \notin TryBlock(il, clauses[o + 3])
      /\ k + 1 \in TryBlock(il, clauses[o + 4])
      /\ clauses[o + 4].kind = "finally"
      /\ Position(il, clauses[o + 4].handler_begin) = k + 2
  BY <1>3, <1>10, AddedBlocks, SMTT(30)
<1>5. Handled(e, k + 1, o + 4)
  <2>1. o + 4 \in DOMAIN clauses /\ 1 <= o + 4
    BY <1>2, <1>4
  <2>2. \A i \in DOMAIN clauses : i >= 1 /\ i < o + 4 => k + 1 \notin TryBlock(il, clauses[i])
    <3> SUFFICES ASSUME NEW i \in DOMAIN clauses, i < o + 4
                 PROVE  k + 1 \notin TryBlock(il, clauses[i])
      OBVIOUS
    <3>0. i \in 1 .. (o + 4)
      BY <1>4
    <3>1. i \in 1 .. o \/ i = o + 1 \/ i = o + 2 \/ i = o + 3
      BY <1>2, <3>0
    <3> QED
      BY <1>4, <3>1
  <2> QED
    BY <1>3, <1>4, <2>1, <2>2, AddedRaise
<1>6. clauses[o + 4].kind # "catch"
  BY <1>4
<1> QED
  BY <1>4, <1>5, <1>6 DEF Handled

\* EndMethod throws: the handler that logs gets the exception.
LEMMA EndRaises ==
    ASSUME NEW m, NEW at, NEW from, NEW k, NEW d, Wrapped(m, at, from, k, d),
           NEW e, Raise(e, m_offset[k + 2], 1)
    PROVE  /\ ip' = m_offset[k + 4 + d] /\ stack' = <<e>> /\ cont' = cont
           /\ phase' = phase /\ result' = result /\ outcome' = outcome
<1>1. PICK o : o = Len(m.clauses)
  OBVIOUS
<1>2. o \in Nat /\ k \in Nat /\ d \in Nat /\ k > 6
  BY <1>1, WrappedIs
<1>3. k + 2 \in DOMAIN il
  BY <1>2, AddedPlaces
<1>10. k + 2 >= k /\ ~(k + 2 <= 4) /\ k + 2 <= k + 2 /\ k + 2 <= k + 3 + d
  BY <1>2
<1>4. /\ DOMAIN clauses = 1 .. (o + 4)
      /\ \A i \in 1 .. o : k + 2 \notin TryBlock(il, clauses[i])
      /\ k + 2 \notin TryBlock(il, clauses[o + 1])
      /\ k + 2 \in TryBlock(il, clauses[o + 2])
      /\ clauses[o + 2].kind = "catch"
      /\ Position(il, clauses[o + 2].handler_begin) = k + 4 + d
  BY <1>1, <1>3, <1>10, AddedBlocks
<1>5. Handled(e, k + 2, o + 2)
  <2>1. o + 2 \in DOMAIN clauses /\ 1 <= o + 2
    BY <1>2, <1>4
  <2>2. \A i \in DOMAIN clauses : i >= 1 /\ i < o + 2 => k + 2 \notin TryBlock(il, clauses[i])
    <3> SUFFICES ASSUME NEW i \in DOMAIN clauses, i < o + 2
                 PROVE  k + 2 \notin TryBlock(il, clauses[i])
      OBVIOUS
    <3>1. i \in 1 .. o \/ i = o + 1
      BY <1>2, <1>4
    <3> QED
      BY <1>4, <3>1
  <2> QED
    BY <1>3, <1>4, <2>1, <2>2, AddedRaise
<1> QED
  BY <1>4, <1>5 DEF Handled

\* What the method does not catch comes to the catch that keeps it.
LEMMA EscapeRaises ==
    ASSUME NEW m, NEW at, NEW from, NEW k, NEW d, Wrapped(m, at, from, k, d),
           NEW e, NEW a \in DOMAIN m.il, NEW first \in Nat, first <= Len(m.clauses) + 1,
           Catching(m.il, m.clauses, a, first) = {}, Raise(e, m_offset[at[a]], first),
           NEW o, o = Len(m.clauses)
    PROVE  /\ ip' = m_offset[k] /\ stack' = <<e>> /\ caught' = With(caught, o + 3, e)
           /\ phase' = phase /\ result' = result /\ outcome' = outcome
<1>1. PICK q : q = at[a]
  OBVIOUS
<1>2. /\ o \in Nat /\ k \in Nat /\ d \in Nat /\ k > 6 /\ q \in DOMAIN il /\ q \in 7 .. (k - 1)
      /\ Framed(m, at, from)
  BY <1>1, WrappedIs
<1>10. ~(q <= 4) /\ ~(k + 2 <= q) /\ 1 <= q /\ q <= k - 1
  BY <1>2
<1>4. /\ DOMAIN clauses = 1 .. (o + 4) /\ DOMAIN m.clauses = 1 .. o
      /\ q \notin TryBlock(il, clauses[o + 1])
      /\ q \notin TryBlock(il, clauses[o + 2])
      /\ q \in TryBlock(il, clauses[o + 3])
      /\ clauses[o + 3].kind = "catch"
      /\ Position(il, clauses[o + 3].handler_begin) = k
  <2>1. q \in DOMAIN il
    BY <1>2
  <2>2. /\ DOMAIN clauses = 1 .. (o + 4) /\ DOMAIN m.clauses = 1 .. o
        /\ clauses[o + 3].kind = "catch"
        /\ Position(il, clauses[o + 3].handler_begin) = k
        /\ q \in TryBlock(il, clauses[o + 1]) <=> 1 <= q /\ q <= 4
        /\ q \in TryBlock(il, clauses[o + 2]) <=> k + 2 <= q /\ q <= k + 3 + d
        /\ q \in TryBlock(il, clauses[o + 3]) <=> 1 <= q /\ q <= k - 1
    BY <2>1, AddedBlocks, SMTT(30)
  <2> QED
    BY <1>10, <2>2
<1>6. Catching(il, clauses, q, first) \cap DOMAIN m.clauses = {}
  BY <1>1, <1>2, OwnCatching DEF Framed
<1>7. \A i \in DOMAIN m.clauses : i >= first => q \notin TryBlock(il, clauses[i])
  <2>1. DOMAIN m.clauses \subseteq DOMAIN clauses
    BY <1>2, FramedIs
  <2> QED
    BY <1>6, <2>1 DEF Catching
<1>5. Handled(e, q, o + 3)
  <2>1. o + 3 \in DOMAIN clauses /\ first <= o + 3
    BY <1>2, <1>4
  <2>2. \A i \in DOMAIN clauses : i >= first /\ i < o + 3 => q \notin TryBlock(il, clauses[i])
    <3> SUFFICES ASSUME NEW i \in DOMAIN clauses, i >= first, i < o + 3
                 PROVE  q \notin TryBlock(il, clauses[i])
      OBVIOUS
    <3>1. i \in 1 .. o \/ i = o + 1 \/ i = o + 2
      BY <1>2, <1>4
    <3> QED
      BY <1>4, <1>7, <3>1
  <2> QED
    BY <1>1, <1>2, <1>4, <2>1, <2>2, AddedRaise
<1> QED
  BY <1>4, <1>5 DEF Handled

\* Behind the last clause nothing catches.
LEMMA LastRaises ==
    ASSUME NEW m, NEW at, NEW from, NEW k, NEW d, Wrapped(m, at, from, k, d),
           NEW e, NEW q \in DOMAIN il, NEW o, o = Len(m.clauses), Raise(e, m_offset[q], o + 5)
    PROVE  Finish([kind |-> "throw", value |-> e])
<1>1. Exact /\ o \in Nat
  BY WrappedIs
<1>2. DOMAIN clauses = 1 .. (o + 4)
  BY AddedBlocks
<1>3. \A i \in 1 .. (o + 4) : ~(i >= o + 5)
  BY <1>1
<1>4. Catching(il, clauses, q, o + 5) = {}
  BY <1>2, <1>3 DEF Catching
<1> QED
  BY <1>1, <1>4, RaiseIs

\* A leave that goes through no finally handler comes to its target.
Arrives(b) ==
    /\ ip' = m_offset[b] /\ stack' = <<>> /\ caught' = caught /\ cont' = cont
    /\ phase' = phase /\ result' = result /\ outcome' = outcome

\* A leave without a finally handler in between
LEMMA LeaveArrives ==
    ASSUME Exact, NEW a \in DOMAIN il, NEW b \in DOMAIN il, NEW first,
           LeaveTo(m_offset[b], m_offset[a], first),
           \A j \in DOMAIN clauses :
              j >= first /\ clauses[j].kind = "finally" /\ a \in TryBlock(il, clauses[j])
                => b \in TryBlock(il, clauses[j])
    PROVE  Arrives(b)
<1>1. Through(il, clauses, b, a, first) = {}
  BY DEF Through
<1> QED
  BY <1>1, LeaveIs DEF Arrives

\* Of the added clauses only the last is a finally.
LEMMA FinallyClauses ==
    ASSUME NEW m, NEW at, NEW from, NEW k, NEW d, Wrapped(m, at, from, k, d),
           NEW o, o = Len(m.clauses), NEW j \in DOMAIN clauses, clauses[j].kind = "finally"
    PROVE  j \in DOMAIN m.clauses \/ j = o + 4
<1>1. o \in Nat /\ k \in Nat /\ d \in Nat /\ k > 6 /\ 1 \in Nat
  BY WrappedIs
<1>2. 1 \in DOMAIN il
  BY <1>1, AddedPlaces
<1>3. PICK q \in DOMAIN il : TRUE
  BY <1>2
<1>4. /\ DOMAIN clauses = 1 .. (o + 4) /\ DOMAIN m.clauses = 1 .. o
      /\ clauses[o + 1].kind = "catch" /\ clauses[o + 2].kind = "catch"
      /\ clauses[o + 3].kind = "catch"
  BY <1>3, AddedBlocks, SMTT(30)
<1>5. j \in 1 .. o \/ j = o + 1 \/ j = o + 2 \/ j = o + 3 \/ j = o + 4
  <2>1. j \in 1 .. (o + 4)
    BY <1>4
  <2> QED
    BY <1>1, <2>1
<1> QED
  BY <1>4, <1>5

\* After BeginMethod, and after its exception was logged, the method starts.
LEMMA BeginLeaves ==
    ASSUME NEW m, NEW at, NEW from, NEW k, NEW d, Wrapped(m, at, from, k, d),
           NEW a \in {4, 6}, LeaveTo(m_offset[at[1]], m_offset[a], 1)
    PROVE  Arrives(at[1])
<1>1. PICK o, b : o = Len(m.clauses) /\ b = at[1]
  OBVIOUS
<1>2. /\ Exact /\ k \in Nat /\ d \in Nat /\ k > 6 /\ m \in Methods
      /\ \A i \in DOMAIN m.il : at[i] \in DOMAIN il /\ at[i] \in 7 .. (k - 1)
  BY WrappedIs DEF Wrapped
<1>3. a \in DOMAIN il
  BY <1>2, AddedPlaces
<1>4. b \in DOMAIN il /\ b \in 7 .. (k - 1)
  <2>1. 1 \in DOMAIN m.il
    <3>1. m.il \in Seq(Instructions) /\ m.il # <<>>
      BY <1>2, MethodIs DEF Imported
    <3> QED
      BY <3>1
  <2> QED
    BY <1>1, <1>2, <2>1
<1>5. \A j \in 1 .. o : a \notin TryBlock(il, clauses[j])
  <2>1. a < 7
    OBVIOUS
  <2> QED
    BY <1>1, <1>3, <2>1, AddedBlocks, SMTT(30)
<1>6. b \in TryBlock(il, clauses[o + 4])
  <2>1. 1 <= b /\ b <= k + 1
    BY <1>2, <1>4
  <2> QED
    BY <1>1, <1>4, <2>1, AddedBlocks, SMTT(30)
<1>7. DOMAIN m.clauses = 1 .. o
  BY <1>1, <1>3, AddedBlocks
<1>8. \A j \in DOMAIN clauses : clauses[j].kind = "finally" => j \in 1 .. o \/ j = o + 4
  BY <1>1, <1>7, FinallyClauses
<1> QED
  BY <1>1, <1>2, <1>3, <1>4, <1>5, <1>6, <1>8, LeaveArrives

\* A return leads through the added finally handler.
LEMMA ReturnLeaves ==
    ASSUME NEW m, NEW at, NEW from, NEW k, NEW d, Wrapped(m, at, from, k, d),
           NEW o, o = Len(m.clauses), NEW i \in DOMAIN m.il, m.il[i].op = "ret",
           LeaveTo(m_offset[k + 7 + d], m_offset[at[i]], 1)
    PROVE  /\ ip' = m_offset[k + 2] /\ stack' = <<>>
           /\ cont' = With(cont, o + 4, [kind |-> "leave", value |-> m_offset[k + 7 + d],
                                         at |-> m_offset[at[i]]])
           /\ phase' = phase /\ result' = result /\ outcome' = outcome
<1>1. PICK a, b : a = at[i] /\ b = k + 7 + d
  OBVIOUS
<1>2. /\ Exact /\ k \in Nat /\ d \in Nat /\ k > 6 /\ o \in Nat /\ m \in Methods
      /\ a \in DOMAIN il /\ a \in 7 .. (k - 1) /\ Framed(m, at, from)
  BY <1>1, WrappedIs DEF Wrapped
<1>3. b \in DOMAIN il
  BY <1>1, <1>2, AddedPlaces
<1>4. /\ DOMAIN clauses = 1 .. (o + 4) /\ DOMAIN m.clauses = 1 .. o
      /\ clauses[o + 4].kind = "finally"
      /\ Position(il, clauses[o + 4].handler_begin) = k + 2
  BY <1>3, AddedBlocks
<1>5. \A j \in 1 .. o : a \notin TryBlock(il, clauses[j])
  <2> SUFFICES ASSUME NEW j \in 1 .. o PROVE a \notin TryBlock(il, clauses[j])
    OBVIOUS
  <2>1. i \notin TryBlock(m.il, m.clauses[j])
    BY <1>2, <1>4, Rules
  <2> QED
    BY <1>1, <1>2, <1>4, <2>1, OwnBlocks DEF Framed
<1>6. a \in TryBlock(il, clauses[o + 4])
  <2>1. 1 <= a /\ a <= k + 1
    BY <1>2
  <2> QED
    BY <1>2, <2>1, AddedBlocks, ZenonT(30)
<1>7. b \notin TryBlock(il, clauses[o + 4])
  <2>1. ~(b <= k + 1)
    BY <1>1, <1>2
  <2> QED
    BY <1>3, <2>1, AddedBlocks
<1>8. \A j \in DOMAIN clauses : clauses[j].kind = "finally" => j \in 1 .. o \/ j = o + 4
  BY <1>4, FinallyClauses
<1>9. o + 4 \in DOMAIN clauses /\ o + 4 >= 1
  BY <1>2, <1>4
<1>10. Through(il, clauses, b, a, 1) = {o + 4}
  BY <1>4, <1>5, <1>6, <1>7, <1>8, <1>9 DEF Through
<1>11. Min({o + 4}) = o + 4
  <2>1. {o + 4} \in SUBSET Nat /\ \A x \in {o + 4} : o + 4 <= x
    BY <1>2
  <2> QED
    BY <2>1, MinIs
<1>12. /\ stack' = <<>> /\ phase' = phase /\ result' = result /\ outcome' = outcome
       /\ Diverted(b, a, o + 4)
  BY <1>1, <1>2, <1>3, <1>10, <1>11, LeaveIs
<1> QED
  BY <1>1, <1>4, <1>12 DEF Diverted

\* After EndMethod, and after its exception was logged, the finally handler ends.
LEMMA EndLeaves ==
    ASSUME NEW m, NEW at, NEW from, NEW k, NEW d, Wrapped(m, at, from, k, d),
           NEW a \in {k + 3 + d, k + 5 + d}, LeaveTo(m_offset[k + 6 + d], m_offset[a], 1)
    PROVE  Arrives(k + 6 + d)
<1>1. PICK o, b : o = Len(m.clauses) /\ b = k + 6 + d
  OBVIOUS
<1>2. /\ Exact /\ k \in Nat /\ d \in Nat /\ k > 6 /\ a \in Nat
  BY WrappedIs
<1>3. a \in DOMAIN il /\ b \in DOMAIN il
  BY <1>1, <1>2, AddedPlaces
<1>4. \A j \in 1 .. o : a \notin TryBlock(il, clauses[j])
  <2>1. a >= k
    BY <1>2
  <2> QED
    BY <1>1, <1>3, <2>1, AddedBlocks
<1>5. a \notin TryBlock(il, clauses[o + 4])
  <2>1. ~(a <= k + 1)
    BY <1>2
  <2> QED
    BY <1>1, <1>3, <2>1, AddedBlocks
<1>7. DOMAIN m.clauses = 1 .. o
  BY <1>1, <1>3, AddedBlocks
<1>8. \A j \in DOMAIN clauses : clauses[j].kind = "finally" => j \in 1 .. o \/ j = o + 4
  BY <1>1, <1>7, FinallyClauses
<1> QED
  BY <1>1, <1>2, <1>3, <1>4, <1>5, <1>8, LeaveArrives

\* Behind the last clause no finally handler is left.
LEMMA LastLeaves ==
    ASSUME NEW m, NEW at, NEW from, NEW k, NEW d, Wrapped(m, at, from, k, d),
           NEW a \in DOMAIN il, NEW b \in DOMAIN il, NEW o, o = Len(m.clauses),
           LeaveTo(m_offset[b], m_offset[a], o + 5)
    PROVE  Arrives(b)
<1>1. Exact /\ o \in Nat
  BY WrappedIs
<1>2. DOMAIN clauses = 1 .. (o + 4)
  BY AddedBlocks
<1>3. \A i \in 1 .. (o + 4) : ~(i >= o + 5)
  BY <1>1
<1> QED
  BY <1>1, <1>2, <1>3, LeaveArrives

\* The handlers that endfinally and rethrow find
LEMMA AddedHandler ==
    ASSUME NEW m, NEW at, NEW from, NEW k, NEW d, Wrapped(m, at, from, k, d),
           NEW q \in DOMAIN il, q >= k, ip = m_offset[q], NEW kind, NEW j \in DOMAIN clauses,
           Within(il, clauses, kind, q) = {j}
    PROVE  Min({i \in DOMAIN clauses : clauses[i].kind = kind /\ InHandler(Exported[i], ip)}) = j
<1>1. Exact /\ DOMAIN clauses \subseteq Nat
  BY WrappedIs DEF Exact
<1>2. \A i \in DOMAIN clauses :
         InHandler(Exported[i], ip) <=> q \in HandlerBlock(il, clauses[i])
  BY <1>1, ExportedBlocks DEF Exported, Exact
<1>3. {i \in DOMAIN clauses : clauses[i].kind = kind /\ InHandler(Exported[i], ip)} = {j}
  BY <1>2 DEF Within
<1>4. Min({j}) = j
  <2>1. {j} \in SUBSET Nat /\ \A x \in {j} : j <= x
    BY <1>1
  <2> QED
    BY <2>1, MinIs
<1> QED
  BY <1>3, <1>4

\* The added rethrow is in the catch that keeps the exception.
LEMMA RethrowHandler ==
    ASSUME NEW m, NEW at, NEW from, NEW k, NEW d, Wrapped(m, at, from, k, d),
           NEW o, o = Len(m.clauses), ip = m_offset[k + 1]
    PROVE  Min({i \in DOMAIN clauses : clauses[i].kind = "catch" /\ InHandler(Exported[i], ip)})
             = o + 3
<1>1. PICK q : q = k + 1
  OBVIOUS
<1>2. /\ k \in Nat /\ d \in Nat /\ k > 6 /\ o \in Nat
  BY WrappedIs
<1>3. q \in DOMAIN il /\ q >= k
  BY <1>1, <1>2, AddedPlaces
<1>4. /\ ~(q <= 6) /\ ~(k + 4 + d <= q) /\ k <= q /\ q <= k + 1
  BY <1>1, <1>2
<1>5. /\ DOMAIN clauses = 1 .. (o + 4)
      /\ \A i \in 1 .. o : q \notin HandlerBlock(il, clauses[i])
      /\ clauses[o + 3].kind = "catch" /\ clauses[o + 4].kind = "finally"
      /\ q \in HandlerBlock(il, clauses[o + 1]) <=> 5 <= q /\ q <= 6
      /\ q \in HandlerBlock(il, clauses[o + 2]) <=> k + 4 + d <= q /\ q <= k + 5 + d
      /\ q \in HandlerBlock(il, clauses[o + 3]) <=> k <= q /\ q <= k + 1
  BY <1>3, AddedBlocks, SMTT(30)
<1>6. \A i \in DOMAIN clauses : i \in 1 .. o \/ i = o + 1 \/ i = o + 2 \/ i = o + 3 \/ i = o + 4
  <2>1. \A i \in 1 .. (o + 4) : i \in 1 .. o \/ i = o + 1 \/ i = o + 2 \/ i = o + 3 \/ i = o + 4
    BY <1>2
  <2> QED
    BY <1>5, <2>1
<1>7. o + 3 \in DOMAIN clauses
  BY <1>2, <1>5
<1>8. "catch" # "finally"
  OBVIOUS
<1>9. Within(il, clauses, "catch", q) = {o + 3}
  BY <1>4, <1>5, <1>6, <1>7, <1>8 DEF Within
<1> QED
  BY <1>1, <1>3, <1>7, <1>9, AddedHandler

\* The added endfinally is in the finally with EndMethod.
LEMMA EndFinallyHandler ==
    ASSUME NEW m, NEW at, NEW from, NEW k, NEW d, Wrapped(m, at, from, k, d),
           NEW o, o = Len(m.clauses), ip = m_offset[k + 6 + d]
    PROVE  Min({i \in DOMAIN clauses : clauses[i].kind = "finally" /\ InHandler(Exported[i], ip)})
             = o + 4
<1>1. PICK q : q = k + 6 + d
  OBVIOUS
<1>2. /\ k \in Nat /\ d \in Nat /\ k > 6 /\ o \in Nat
  BY WrappedIs
<1>3. q \in DOMAIN il /\ q >= k
  BY <1>1, <1>2, AddedPlaces
<1>4. k + 2 <= q /\ q <= k + 6 + d
  BY <1>1, <1>2
<1>5. /\ DOMAIN clauses = 1 .. (o + 4) /\ DOMAIN m.clauses = 1 .. o
      /\ \A i \in 1 .. o : q \notin HandlerBlock(il, clauses[i])
      /\ clauses[o + 4].kind = "finally"
      /\ q \in HandlerBlock(il, clauses[o + 4]) <=> k + 2 <= q /\ q <= k + 6 + d
  BY <1>3, AddedBlocks
<1>6. \A i \in DOMAIN clauses : clauses[i].kind = "finally" => i \in 1 .. o \/ i = o + 4
  BY <1>5, FinallyClauses
<1>7. o + 4 \in DOMAIN clauses
  BY <1>2, <1>5
<1>9. Within(il, clauses, "finally", q) = {o + 4}
  BY <1>4, <1>5, <1>6, <1>7 DEF Within
<1> QED
  BY <1>1, <1>3, <1>7, <1>9, AddedHandler

-----------------------------------------------------------------------------
(* The zones of the instrumented run *)

\* The method returned, and the value to return was stored, if no branch goes past that.
TellsReturn(m) ==
    \E x : /\ result = [kind |-> "ret", value |-> x]
           /\ m.void => x = None
           /\ ~m.void => JumpsToReturn(m) \/ returnValue = x

TellsThrow(e) == e \in Values \cup {None} /\ result = [kind |-> "throw", value |-> e]

\* The second run has all choices still to repeat.
Whole(m, T) == Left(T, 0) /\ Path(m, T, Start0, Fin(result))

\* In front of the method
InBegin(m, T) ==
    /\ \E q \in 1 .. 6 : ip = m_offset[q] /\ (q # 1 => exception = None)
    /\ ends = <<>>
    /\ Whole(m, T)

\* In the method, at a moment that leads to its end
InBody(m, at, from, T) ==
    /\ exception = None
    /\ ends = <<>>
    /\ \E c : Body(m, at, from, c) /\ Left(T, c.used) /\ Path(m, T, c, Fin(result))

\* At a return whose value was stored
InReturn(m, at) ==
    /\ exception = None
    /\ ends = <<>>
    /\ TellsReturn(m)
    /\ \E i \in DOMAIN m.il : m.il[i].op = "ret" /\ ip = m_offset[at[i]]

\* In the catch, in front of stexc and of rethrow
InCatch(m, k) ==
    /\ ends = <<>>
    /\ \E e : /\ TellsThrow(e)
              /\ Len(m.clauses) + 3 \in DOMAIN caught
              /\ caught[Len(m.clauses) + 3] = e
              /\ \/ ip = m_offset[k] /\ stack = <<e>>
                 \/ ip = m_offset[k + 1] /\ exception = e

\* What the finally handler knows, and goes on to
Pending(m, k, d) ==
    LET next == cont[Len(m.clauses) + 4]
    IN  \/ /\ TellsReturn(m) /\ exception = None
           /\ \E x \in DOMAIN il :
                next = [kind |-> "leave", value |-> m_offset[k + 7 + d], at |-> m_offset[x]]
        \/ \E e : /\ TellsThrow(e) /\ exception = e
                  /\ next = [kind |-> "throw", value |-> e, at |-> m_offset[k + 1]]

\* EndMethod was told the two locals, once.
Told == ends = <<[value |-> returnValue, exception |-> exception]>>

\* In the finally handler, in front of EndMethod and behind it
InFinally(m, k, d) ==
    /\ Pending(m, k, d)
    /\ \/ ip = m_offset[k + 2] /\ ends = <<>>
       \/ /\ Told
          /\ \E q \in (k + 3) .. (k + 6 + d) :
               ip = m_offset[q] /\ (q = k + 3 /\ ~m.void => Top = returnValue)

\* Behind the finally handler
InOut(m, k, d) ==
    /\ TellsReturn(m) /\ exception = None /\ Told
    /\ \/ ip = m_offset[k + 7 + d]
       \/ ip = m_offset[k + 7 + d + d] /\ (~m.void => Top = returnValue)

\* Where an instrumented run is, and what it knows there
Zone(m, at, from, k, d, T) ==
    \/ InBegin(m, T) \/ InBody(m, at, from, T) \/ InReturn(m, at)
    \/ InCatch(m, k) \/ InFinally(m, k, d) \/ InOut(m, k, d)

\* How the instrumented run may end
Over(m) ==
    \/ /\ TellsReturn(m) /\ exception = None /\ Told
       /\ outcome = [kind |-> "ret", value |-> IF m.void THEN None ELSE returnValue]
    \/ \E e : TellsThrow(e) /\ exception = e /\ Told /\ outcome = result

\* What a step at an added instruction keeps
Stays == phase' = phase /\ listVars' = listVars /\ result' = result /\ trail' = trail

\* The next instruction is the one at the place.
LEMMA AtPlace ==
    ASSUME Exact, phase = "rewritten", NEW q \in DOMAIN il, ip = m_offset[q]
    PROVE  Here = q /\ Following = m_offset[q + 1]
  BY HereIs

\* Where an added leave leads to
LEMMA AddedJump ==
    ASSUME Exact, NEW q \in DOMAIN il, NEW p \in DOMAIN il, il[q].target = il[p].id
    PROVE  Destination(il, m_offset, q) = m_offset[p]
<1>1. WellFormed(il) /\ DistinctIds(il) /\ il \in Seq(Instrs)
  BY DEF Exact, WellFormed
<1>2. il[p].id \in Nat
  <2>1. il[p] \in Instrs
    BY <1>1
  <2> QED
    BY <2>1 DEF Instrs
<1>3. None \notin Nat
  BY CallTargetAssumption
<1>4. IsBranch(il[q])
  BY <1>2, <1>3 DEF IsBranch
<1>5. Position(il, il[p].id) = p
  BY <1>1, PositionIs
<1> QED
  BY <1>4, <1>5, JumpIs

\* What the added instructions do
LEMMA AddedStraightDoes ==
    ASSUME Exact, phase = "rewritten", Next, NEW q \in DOMAIN il, ip = m_offset[q],
           il[q].op \in {"init", "stexc", "stret", "ldret", "log"}
    PROVE  /\ Stays /\ ip' = m_offset[q + 1] /\ caught' = caught /\ cont' = cont /\ ends' = ends
           /\ il[q].op = "init" => exception' = None
           /\ il[q].op = "stexc" => exception' = Top /\ returnValue' = returnValue
           /\ il[q].op = "stret" => exception' = exception /\ returnValue' = Top
           /\ il[q].op = "ldret" =>
                /\ stack' = Append(stack, returnValue)
                /\ exception' = exception /\ returnValue' = returnValue
           /\ il[q].op = "log" => exception' = exception /\ returnValue' = returnValue
<1>1. Here = q /\ Following = m_offset[q + 1]
  BY AtPlace
<1>2. AddedStraight
  BY <1>1, WhichAction
<1>3. Stays /\ ip' = m_offset[q + 1] /\ caught' = caught /\ cont' = cont /\ ends' = ends
  BY <1>1, <1>2 DEF AddedStraight, Stays, listVars
<1> QED
  BY <1>1, <1>2, <1>3 DEF AddedStraight, Op, StoreException

\* An added leave leaves for its target.
LEMMA AddedLeaveDoes ==
    ASSUME Exact, phase = "rewritten", Next, NEW q \in DOMAIN il, ip = m_offset[q],
           il[q].op = "leave", NEW p \in DOMAIN il, il[q].target = il[p].id
    PROVE  /\ LeaveTo(m_offset[p], m_offset[q], 1)
           /\ listVars' = listVars /\ trail' = trail /\ localVars' = localVars
<1>1. Here = q
  BY AtPlace
<1>2. Leave
  BY <1>1, WhichAction
<1>3. Destination(il, m_offset, q) = m_offset[p]
  BY AddedJump
<1> QED
  BY <1>1, <1>2, <1>3 DEF Leave, listVars, localVars

\* The start is a moment in the method, and is jumped to.
LEMMA SoundStart ==
    ASSUME NEW m \in Methods
    PROVE  Sound(m, Start0) /\ JumpedTo(m, 1) /\ 1 \in DOMAIN m.il
<1>1. PICK c : c = Start0
  OBVIOUS
<1>2. c.p = 1 /\ c.stack = <<>> /\ c.caught = <<>> /\ c.cont = <<>> /\ c.used = 0
  BY <1>1 DEF Start0, Conf
<1>3. 1 \in DOMAIN m.il
  BY MethodIs
<1>4. Known(m, 1, c)
  BY Rules DEF Known
<1>5. JumpedTo(m, 1)
  BY Rules DEF JumpedTo
<1>6. IsStack(<<>>)
  <2>1. <<>> \in Seq({})
    OBVIOUS
  <2> QED
    BY <2>1 DEF IsStack
<1>7. DOMAIN <<>> = {}
  OBVIOUS
<1> QED
  BY <1>1, <1>2, <1>3, <1>4, <1>5, <1>6, <1>7 DEF Sound

\* The run starts, or comes to the first instruction.
LEMMA BodyInit ==
    ASSUME NEW m \in Methods, NEW at, NEW from, ip = m_offset[at[1]], stack = <<>>
    PROVE  Body(m, at, from, Start0)
<1>1. PICK c : c = Start0
  OBVIOUS
<1>2. c.p = 1 /\ c.stack = <<>> /\ c.caught = <<>> /\ c.cont = <<>>
  BY <1>1 DEF Start0, Conf
<1>3. Sound(m, c) /\ JumpedTo(m, 1)
  BY <1>1, SoundStart
<1>4. DOMAIN <<>> = {}
  OBVIOUS
<1> QED
  BY <1>1, <1>2, <1>3, <1>4 DEF Body

\* The same for the next state
LEMMA BodyStart ==
    ASSUME NEW m \in Methods, NEW at, NEW from, ip' = m_offset'[at[1]], stack' = <<>>
    PROVE  Body(m, at, from, Start0)'
<1>1. PICK c : c = Start0
  OBVIOUS
<1>2. c.p = 1 /\ c.stack = <<>> /\ c.caught = <<>> /\ c.cont = <<>>
  BY <1>1 DEF Start0, Conf
<1>3. Sound(m, c) /\ JumpedTo(m, 1)
  BY <1>1, SoundStart
<1>4. DOMAIN <<>> = {}
  OBVIOUS
<1> QED
  BY <1>1, <1>2, <1>3, <1>4 DEF Body

\* The first instruction runs with all choices still to repeat.
LEMMA EntersBody ==
    ASSUME NEW m, NEW at, NEW from, NEW k, NEW d, Wrapped(m, at, from, k, d),
           NEW T, Whole(m, T), Stays, exception' = None, ends' = <<>>, Arrives(at[1])
    PROVE  InBody(m, at, from, T)'
<1>1. Body(m, at, from, Start0)'
  BY BodyStart DEF Wrapped, Arrives, Stays, listVars
<1>2. Start0.used = 0
  BY DEF Start0, Conf
<1>3. Left(T, 0)' /\ Path(m, T, Start0, Fin(result'))
  BY DEF Whole, Left, Stays
<1> QED
  BY <1>1, <1>2, <1>3 DEF InBody

\* BeginMethod runs, throws or not, and the method starts.
LEMMA BeginStep ==
    ASSUME NEW m, NEW at, NEW from, NEW k, NEW d, Wrapped(m, at, from, k, d),
           NEW T, InBegin(m, T), phase = "rewritten", Next
    PROVE  Stays /\ (InBegin(m, T)' \/ InBody(m, at, from, T)')
<1>1. PICK q \in 1 .. 6 : ip = m_offset[q] /\ (q # 1 => exception = None)
  BY DEF InBegin
<1>2. ends = <<>> /\ Whole(m, T)
  BY DEF InBegin
<1>3. Exact /\ k \in Nat /\ d \in Nat /\ k > 6 /\ BeginAt(m, il) /\ m \in Methods /\ Framed(m, at, from)
  BY WrappedIs DEF Wrapped
<1>4. q \in DOMAIN il
  <2>1. q \in Nat /\ 1 <= q /\ q <= k + 7 + d + d
    BY <1>3
  <2> QED
    BY <2>1, AddedPlaces
<1>5. Here = q /\ Following = m_offset[q + 1]
  BY <1>1, <1>3, <1>4, AtPlace
<1>6. /\ at[1] \in DOMAIN il /\ il[at[1]].id = m.il[1].id
  <2>1. 1 \in DOMAIN m.il
    BY <1>3, SoundStart
  <2> QED
    BY <1>3, <2>1, WrappedIs DEF Framed, Frame
<1>7. \A p \in 1 .. 6 : (Stays /\ ip' = m_offset[p] /\ exception' = None /\ ends' = <<>>)
        => InBegin(m, T)'
  <2> SUFFICES ASSUME NEW p \in 1 .. 6, Stays, ip' = m_offset[p], exception' = None, ends' = <<>>
               PROVE  InBegin(m, T)'
    OBVIOUS
  <2>1. Whole(m, T)'
    BY <1>2 DEF Whole, Left, Stays
  <2>2. ip' = m_offset'[p]
    BY DEF Stays, listVars
  <2> QED
    BY <2>1, <2>2 DEF InBegin
<1>8. CASE q = 1
  <2>1. il[q].op = "init" /\ q + 1 \in 1 .. 6
    BY <1>3, <1>8 DEF BeginAt, AddedAt
  <2>2. Stays /\ ip' = m_offset[q + 1] /\ ends' = ends /\ exception' = None
    BY <1>1, <1>3, <1>4, <2>1, AddedStraightDoes
  <2> QED
    BY <1>2, <1>7, <2>1, <2>2
<1>9. CASE q = 2
  <2>1. il[q].op = "begin" /\ 3 \in 1 .. 6 /\ 5 \in 1 .. 6 /\ q + 1 = 3
    BY <1>3, <1>9 DEF BeginAt, AddedAt
  <2>2. BeginMethod
    BY <1>5, <2>1, WhichAction
  <2>3. /\ listVars' = listVars /\ trail' = trail /\ exception' = exception /\ ends' = ends
        /\ \/ Raise(Fault, ip, 1)
           \/ ip' = m_offset[3] /\ phase' = phase /\ result' = result
    BY <1>5, <2>1, <2>2 DEF BeginMethod, listVars, localVars
  <2>4. CASE Raise(Fault, ip, 1)
    <3>1. Raise(Fault, m_offset[2], 1)
      BY <1>1, <1>9, <2>4
    <3>2. ip' = m_offset[5] /\ phase' = phase /\ result' = result
      BY <3>1, BeginRaises
    <3> QED
      BY <1>1, <1>2, <1>7, <1>9, <2>1, <2>3, <3>2 DEF Stays
  <2>5. CASE ip' = m_offset[3] /\ phase' = phase /\ result' = result
    BY <1>1, <1>2, <1>7, <1>9, <2>1, <2>3, <2>5 DEF Stays
  <2> QED
    BY <2>3, <2>4, <2>5
<1>10. CASE q = 3
  <2>1. il[q].op = "nop" /\ q + 1 \in 1 .. 6
    BY <1>3, <1>10 DEF BeginAt, AddedAt
  <2>2. Straight
    BY <1>5, <2>1, WhichAction
  <2>3. Stays /\ ip' = m_offset[q + 1] /\ exception' = exception /\ ends' = ends
    BY <1>5, <2>2 DEF Straight, Stays, localVars
  <2> QED
    BY <1>1, <1>2, <1>7, <1>10, <2>1, <2>3
<1>11. CASE q = 5
  <2>1. il[q].op = "log" /\ q + 1 \in 1 .. 6
    BY <1>3, <1>11 DEF BeginAt, AddedAt
  <2>2. Stays /\ ip' = m_offset[q + 1] /\ ends' = ends /\ exception' = exception
    BY <1>1, <1>3, <1>4, <2>1, AddedStraightDoes
  <2> QED
    BY <1>1, <1>2, <1>7, <1>11, <2>1, <2>2
<1>12. CASE q \in {4, 6}
  <2>1. il[q].op = "leave" /\ il[q].target = m.il[1].id
    BY <1>3, <1>12 DEF BeginAt, AddedAt
  <2>2. /\ LeaveTo(m_offset[at[1]], m_offset[q], 1)
        /\ listVars' = listVars /\ trail' = trail /\ localVars' = localVars
    BY <1>1, <1>3, <1>4, <1>6, <2>1, AddedLeaveDoes
  <2>3. Arrives(at[1])
    BY <1>12, <2>2, BeginLeaves
  <2>4. Stays /\ exception' = None /\ ends' = <<>>
    BY <1>1, <1>2, <1>12, <2>2, <2>3 DEF Stays, Arrives, localVars
  <2> QED
    BY <1>2, <2>3, <2>4, EntersBody
<1>13. q = 1 \/ q = 2 \/ q = 3 \/ q = 5 \/ q \in {4, 6}
  OBVIOUS
<1> QED
  BY <1>8, <1>9, <1>10, <1>11, <1>12, <1>13

\* Behind the finally handler the value is loaded, or the method returns.
LEMMA OutPlace ==
    ASSUME NEW m, NEW at, NEW from, NEW k, NEW d, Wrapped(m, at, from, k, d)
    PROVE  /\ k + 7 + d \in DOMAIN il
           /\ il[k + 7 + d].id = Added + (IF m.void THEN 20 ELSE 19)
           /\ il[k + 7 + d].op = IF m.void THEN "ret" ELSE "ldret"
           /\ k + 7 + d + d \in DOMAIN il
           /\ il[k + 7 + d + d].op = "ret"
<1>1. /\ EndAt(m, il, k, d) /\ k \in Nat /\ d \in Nat
      /\ (m.void => d = 0) /\ (~m.void => d = 1)
  BY WrappedIs
<1>2. /\ ~m.void => AddedAt(il, k + 7 + d, 19, "ldret", None)
      /\ AddedAt(il, k + 7 + d + d, 20, "ret", None)
  BY <1>1 DEF EndAt
<1>3. m.void => k + 7 + d + d = k + 7 + d
  BY <1>1
<1> QED
  BY <1>2, <1>3 DEF AddedAt

\* A return, whose value was stored, leads to EndMethod.
LEMMA ReturnStep ==
    ASSUME NEW m, NEW at, NEW from, NEW k, NEW d, Wrapped(m, at, from, k, d),
           exception = None, ends = <<>>, TellsReturn(m),
           NEW i \in DOMAIN m.il, m.il[i].op = "ret", ip = m_offset[at[i]],
           phase = "rewritten", Next
    PROVE  Stays /\ InFinally(m, k, d)'
<1>1. PICK q, p : q = at[i] /\ p = k + 7 + d
  OBVIOUS
<1>2. /\ Exact /\ q \in DOMAIN il /\ k \in Nat /\ d \in Nat /\ Placed(m, il, at, from, k - 7)
  BY <1>1, WrappedIs
<1>3. p \in DOMAIN il /\ il[p].id = Added + (IF m.void THEN 20 ELSE 19)
  BY <1>1, OutPlace
<1>4. il[q].op = "leave" /\ il[q].target = Added + (IF m.void THEN 20 ELSE 19)
  BY <1>1, <1>2 DEF Placed
<1>5. /\ LeaveTo(m_offset[p], m_offset[q], 1)
      /\ listVars' = listVars /\ trail' = trail /\ localVars' = localVars
  BY <1>1, <1>2, <1>3, <1>4, AddedLeaveDoes
<1>6. PICK o : o = Len(m.clauses)
  OBVIOUS
<1>7. PICK l : l = [kind |-> "leave", value |-> m_offset[p], at |-> m_offset[q]]
  OBVIOUS
<1>8. /\ ip' = m_offset[k + 2] /\ cont' = With(cont, o + 4, l)
      /\ phase' = phase /\ result' = result
  BY <1>1, <1>5, <1>6, <1>7, ReturnLeaves
<1>9. cont'[o + 4] = l
  BY <1>8 DEF With
<1>10. Stays
  BY <1>5, <1>8 DEF Stays
<1>11. m_offset' = m_offset /\ il' = il /\ exception' = None /\ ends' = <<>> /\ TellsReturn(m)'
  BY <1>5, <1>8 DEF listVars, localVars, TellsReturn
<1>12. Pending(m, k, d)'
  BY <1>1, <1>2, <1>6, <1>7, <1>9, <1>11 DEF Pending
<1> QED
  BY <1>8, <1>10, <1>11, <1>12 DEF InFinally

\* A moment at a return tells how the method ends.
LEMMA BodyReturns ==
    ASSUME NEW m \in Methods, NEW at, NEW from, NEW T, NEW c, Body(m, at, from, c),
           Path(m, T, c, Fin(result)), m.il[c.p].op = "ret"
    PROVE  /\ result = [kind |-> "ret", value |-> IF m.void THEN None ELSE Top]
           /\ c.p \in DOMAIN m.il
<1>1. Sound(m, c) /\ c.used \in Nat /\ c.p \in DOMAIN m.il
  BY DEF Body, Sound
<1>2. Ready(m, T, c)
  BY <1>1, EndsNowhere DEF Ready
<1>3. PICK how : how = [kind |-> "ret", value |-> IF m.void THEN None ELSE Top]
  OBVIOUS
<1>4. Top = TopOf(c.stack)
  BY DEF Top, TopOf, Body
<1>5. ANext(m, T, c) = Fin(how)
  BY <1>3, <1>4, ANextIs
<1>6. Path(m, T, Fin(how), Fin(result))
  BY <1>2, <1>5, PathGoesOn
<1>7. how = result
  BY <1>6, PathEnds
<1> QED
  BY <1>1, <1>3, <1>7

\* A step at a return: its value is stored, unless a branch led past that.
LEMMA BodyReturnStep ==
    ASSUME NEW m, NEW at, NEW from, NEW k, NEW d, Wrapped(m, at, from, k, d),
           NEW T, NEW c, exception = None, ends = <<>>, Body(m, at, from, c),
           Path(m, T, c, Fin(result)), m.il[c.p].op = "ret",
           phase = "rewritten", Next
    PROVE  Stays /\ (InReturn(m, at)' \/ InFinally(m, k, d)')
<1>0. m \in Methods
  BY DEF Wrapped
<1>1. /\ result = [kind |-> "ret", value |-> IF m.void THEN None ELSE Top]
      /\ c.p \in DOMAIN m.il
  BY <1>0, BodyReturns
<1>2. PICK i : i = c.p
  OBVIOUS
<1>3. /\ Exact /\ Placed(m, il, at, from, k - 7) /\ at[i] \in DOMAIN il /\ from[i] \in DOMAIN il
      /\ i \in DOMAIN m.il /\ k \in Nat
  BY <1>1, <1>2, WrappedIs
<1>4. /\ m.void => from[i] = at[i]
      /\ ~m.void => from[i] = at[i] - 1 /\ il[from[i]].op = "stret"
  BY <1>2, <1>3 DEF Placed
<1>5. \/ ~m.void /\ ip = m_offset[from[i]]
      \/ ip = m_offset[at[i]] /\ (m.void \/ JumpsToReturn(m))
  BY <1>2, <1>4 DEF Body, JumpedTo
<1>6. CASE ~m.void /\ ip = m_offset[from[i]]
  <2>1. /\ Stays /\ ip' = m_offset[from[i] + 1] /\ ends' = ends /\ exception' = exception
        /\ returnValue' = Top
    BY <1>3, <1>4, <1>6, AddedStraightDoes
  <2>2. from[i] + 1 = at[i]
    <3>1. at[i] \in Nat
      BY <1>3 DEF Exact, WellFormed
    <3> QED
      BY <1>4, <1>6, <3>1
  <2>3. ip' = m_offset'[at[i]] /\ result' = result
    BY <2>1, <2>2 DEF Stays, listVars
  <2>4. TellsReturn(m)'
    BY <1>1, <1>6, <2>1, <2>3 DEF TellsReturn
  <2> QED
    BY <1>2, <1>3, <2>1, <2>3, <2>4 DEF InReturn
<1>7. CASE ip = m_offset[at[i]] /\ (m.void \/ JumpsToReturn(m))
  <2>1. TellsReturn(m)
    BY <1>1, <1>7 DEF TellsReturn
  <2> QED
    BY <1>2, <1>3, <1>7, <2>1, ReturnStep
<1> QED
  BY <1>5, <1>6, <1>7

\* A step in the method: on, or into the catch.
LEMMA BodyGoesOn ==
    ASSUME NEW m, NEW at, NEW from, NEW k, NEW d, Wrapped(m, at, from, k, d),
           NEW T, NEW c, exception = None, ends = <<>>, Body(m, at, from, c), Left(T, c.used),
           Path(m, T, c, Fin(result)), m.il[c.p].op # "ret", trail \in Seq(BOOLEAN),
           phase = "rewritten", Next
    PROVE  /\ phase' = phase /\ listVars' = listVars /\ result' = result /\ trail' \in Seq(BOOLEAN)
           /\ InBody(m, at, from, T)' \/ InCatch(m, k)'
<1>1. Framed(m, at, from)
  BY WrappedIs
<1>2. /\ listVars' = listVars /\ localVars' = localVars /\ trail' \in Seq(BOOLEAN)
      /\ \/ Escapes(m, at, Fin(result))
         \/ /\ \E b : Body(m, at, from, b)' /\ Left(T, b.used)' /\ Path(m, T, b, Fin(result'))
            /\ phase' = phase /\ result' = result /\ outcome' = outcome
  BY <1>1, SecondBody
<1>3. exception' = None /\ ends' = <<>>
  BY <1>2 DEF localVars
<1>4. CASE Escapes(m, at, Fin(result))
  <2>1. PICK e \in Values \cup {None}, a \in DOMAIN m.il, first \in Nat :
          /\ first <= Len(m.clauses) + 1
          /\ Fin(result) = Fin([kind |-> "throw", value |-> e])
          /\ Catching(m.il, m.clauses, a, first) = {}
          /\ Raise(e, m_offset[at[a]], first)
    BY <1>4 DEF Escapes
  <2>2. result = [kind |-> "throw", value |-> e]
    <3>1. \A x : Fin(x).stack = x
      BY DEF Fin, Conf
    <3> QED
      BY <2>1, <3>1
  <2>3. PICK o : o = Len(m.clauses)
    OBVIOUS
  <2>4. /\ ip' = m_offset[k] /\ stack' = <<e>> /\ caught' = With(caught, o + 3, e)
        /\ phase' = phase /\ result' = result
    BY <2>1, <2>3, EscapeRaises
  <2>5. o + 3 \in DOMAIN caught' /\ caught'[o + 3] = e
    BY <2>4 DEF With
  <2>6. TellsThrow(e)' /\ m_offset' = m_offset
    BY <1>2, <2>1, <2>2, <2>4 DEF TellsThrow, listVars
  <2>7. InCatch(m, k)'
    BY <1>3, <2>3, <2>4, <2>5, <2>6 DEF InCatch
  <2> QED
    BY <1>2, <2>4, <2>7
<1>5. CASE /\ \E b : Body(m, at, from, b)' /\ Left(T, b.used)' /\ Path(m, T, b, Fin(result'))
           /\ phase' = phase /\ result' = result /\ outcome' = outcome
  BY <1>2, <1>3, <1>5 DEF InBody
<1> QED
  BY <1>2, <1>4, <1>5

\* The exception is kept and goes on to EndMethod.
LEMMA CatchStep ==
    ASSUME NEW m, NEW at, NEW from, NEW k, NEW d, Wrapped(m, at, from, k, d),
           InCatch(m, k), phase = "rewritten", Next
    PROVE  Stays /\ (InCatch(m, k)' \/ InFinally(m, k, d)')
<1>1. PICK e : /\ TellsThrow(e)
               /\ Len(m.clauses) + 3 \in DOMAIN caught
               /\ caught[Len(m.clauses) + 3] = e
               /\ \/ ip = m_offset[k] /\ stack = <<e>>
                  \/ ip = m_offset[k + 1] /\ exception = e
  BY DEF InCatch
<1>2. /\ Exact /\ EndAt(m, il, k, d) /\ k \in Nat /\ d \in Nat /\ ends = <<>>
  BY WrappedIs DEF InCatch
<1>3. PICK o : o = Len(m.clauses)
  OBVIOUS
<1>4. CASE ip = m_offset[k] /\ stack = <<e>>
  <2>1. k \in DOMAIN il /\ il[k].op = "stexc"
    BY <1>2 DEF EndAt, AddedAt
  <2>2. Stays /\ ip' = m_offset[k + 1] /\ caught' = caught /\ ends' = ends /\ exception' = Top
    BY <1>2, <1>4, <2>1, AddedStraightDoes
  <2>3. Top = e
    BY <1>4 DEF Top
  <2>4. TellsThrow(e)' /\ m_offset' = m_offset
    BY <1>1, <2>2 DEF TellsThrow, Stays, listVars
  <2> QED
    BY <1>1, <1>2, <2>2, <2>3, <2>4 DEF InCatch
<1>5. CASE ip = m_offset[k + 1] /\ exception = e
  <2>1. k + 1 \in DOMAIN il /\ il[k + 1].op = "rethrow"
    BY <1>2 DEF EndAt, AddedAt
  <2>2. Here = k + 1
    BY <1>2, <1>5, <2>1, AtPlace
  <2>3. Rethrow
    BY <2>1, <2>2, WhichAction
  <2>4. /\ Raise(e, m_offset[k + 1], 1)
        /\ listVars' = listVars /\ trail' = trail /\ localVars' = localVars
    BY <1>1, <1>3, <1>5, <2>3, RethrowHandler DEF Rethrow, listVars, localVars
  <2>5. PICK l : l = [kind |-> "throw", value |-> e, at |-> m_offset[k + 1]]
    OBVIOUS
  <2>6. /\ ip' = m_offset[k + 2] /\ cont' = With(cont, o + 4, l)
        /\ phase' = phase /\ result' = result
    BY <1>3, <2>4, <2>5, RethrowRaises
  <2>7. cont'[o + 4] = l
    BY <2>6 DEF With
  <2>8. /\ Stays /\ TellsThrow(e)' /\ m_offset' = m_offset /\ exception' = e /\ ends' = <<>>
    BY <1>1, <1>2, <1>5, <2>4, <2>6 DEF Stays, TellsThrow, listVars, localVars
  <2>9. Pending(m, k, d)'
    BY <1>3, <2>5, <2>7, <2>8 DEF Pending
  <2> QED
    BY <2>6, <2>8, <2>9 DEF InFinally
<1> QED
  BY <1>1, <1>4, <1>5

\* The finally handler keeps what it goes on to.
LEMMA PendingStays ==
    ASSUME NEW m, NEW k, NEW d, Pending(m, k, d), Stays, returnValue' = returnValue,
           exception' = exception, cont' = cont
    PROVE  Pending(m, k, d)'
<1>1. il' = il /\ m_offset' = m_offset /\ result' = result
  BY DEF Stays, listVars
<1>2. TellsReturn(m) => TellsReturn(m)'
  BY <1>1 DEF TellsReturn
<1>3. \A e : TellsThrow(e) => TellsThrow(e)'
  BY <1>1 DEF TellsThrow
<1> QED
  BY <1>1, <1>2, <1>3 DEF Pending

\* What EndMethod was told stays true while the two locals are kept.
LEMMA ToldStays ==
    ASSUME Told, returnValue' = returnValue, exception' = exception, ends' = ends
    PROVE  Told'
  BY DEF Told

\* EndMethod is told the two locals, throws or not.
LEMMA EndStep ==
    ASSUME NEW m, NEW at, NEW from, NEW k, NEW d, Wrapped(m, at, from, k, d),
           Pending(m, k, d), ip = m_offset[k + 2], ends = <<>>, IsStack(stack),
           phase = "rewritten", Next
    PROVE  Stays /\ InFinally(m, k, d)'
<1>1. /\ Exact /\ EndAt(m, il, k, d) /\ k \in Nat /\ d \in Nat /\ m = method
  BY WrappedIs DEF Wrapped
<1>2. k + 2 \in DOMAIN il /\ il[k + 2].op = "end"
  BY <1>1 DEF EndAt, AddedAt
<1>3. Here = k + 2 /\ Following = m_offset[k + 3]
  <2>1. k + 2 + 1 = k + 3
    BY <1>1
  <2> QED
    BY <1>1, <1>2, <2>1, AtPlace
<1>4. EndMethod
  BY <1>2, <1>3, WhichAction
<1>5. /\ ends' = Append(ends, [value |-> returnValue, exception |-> exception])
      /\ \/ Raise(Fault, m_offset[k + 2], 1)
         \/ /\ ip' = m_offset[k + 3] /\ phase' = phase /\ cont' = cont /\ result' = result
            /\ stack' = IF m.void THEN stack ELSE Append(stack, returnValue)
      /\ listVars' = listVars /\ trail' = trail
      /\ returnValue' = returnValue /\ exception' = exception
  BY <1>1, <1>3, <1>4 DEF EndMethod, listVars
<1>6. Told'
  BY <1>5 DEF Told
<1>7. CASE Raise(Fault, m_offset[k + 2], 1)
  <2>1. ip' = m_offset[k + 4 + d] /\ cont' = cont /\ phase' = phase /\ result' = result
    BY <1>7, EndRaises
  <2>2. Stays /\ m_offset' = m_offset
    BY <1>5, <2>1 DEF Stays, listVars
  <2>3. Pending(m, k, d)'
    BY <1>5, <2>1, <2>2, PendingStays
  <2>4. k + 4 + d \in (k + 3) .. (k + 6 + d) /\ k + 4 + d # k + 3
    BY <1>1
  <2> QED
    BY <1>6, <2>1, <2>2, <2>3, <2>4 DEF InFinally
<1>8. CASE /\ ip' = m_offset[k + 3] /\ phase' = phase /\ cont' = cont /\ result' = result
           /\ stack' = IF m.void THEN stack ELSE Append(stack, returnValue)
  <2>1. Stays /\ m_offset' = m_offset
    BY <1>5, <1>8 DEF Stays, listVars
  <2>2. Pending(m, k, d)'
    BY <1>5, <1>8, <2>1, PendingStays
  <2>3. ~m.void => Top' = returnValue'
    <3>1. PICK S : stack \in Seq(S)
      BY DEF IsStack
    <3>2. TopOf(Append(stack, returnValue)) = returnValue
      BY <3>1 DEF TopOf
    <3> QED
      BY <1>5, <1>8, <3>2 DEF Top, TopOf
  <2>4. k + 3 \in (k + 3) .. (k + 6 + d)
    BY <1>1
  <2> QED
    BY <1>6, <1>8, <2>1, <2>2, <2>3, <2>4 DEF InFinally
<1> QED
  BY <1>5, <1>7, <1>8

\* The finally handler ends: the method returns or the exception goes on.
LEMMA FinallyEnds ==
    ASSUME NEW m, NEW at, NEW from, NEW k, NEW d, Wrapped(m, at, from, k, d),
           Pending(m, k, d), Told, ip = m_offset[k + 6 + d], phase = "rewritten", Next
    PROVE  /\ listVars' = listVars /\ result' = result /\ trail' = trail
           /\ \/ phase' = phase /\ InOut(m, k, d)'
              \/ phase' = "done" /\ Over(m)'
<1>1. /\ Exact /\ EndAt(m, il, k, d) /\ k \in Nat /\ d \in Nat
  BY WrappedIs
<1>2. k + 6 + d \in DOMAIN il /\ il[k + 6 + d].op = "endfinally"
  BY <1>1 DEF EndAt, AddedAt
<1>3. Here = k + 6 + d
  BY <1>1, <1>2, AtPlace
<1>4. EndFinally
  BY <1>2, <1>3, WhichAction
<1>5. PICK o, l : o = Len(m.clauses) /\ l = cont[o + 4]
  OBVIOUS
<1>6. o + 4 + 1 = o + 5
  <2>1. o \in Nat
    BY <1>5, WrappedIs
  <2> QED
    BY <2>1
<1>7. /\ \/ l.kind = "leave" /\ LeaveTo(l.value, l.at, o + 5)
         \/ l.kind = "throw" /\ Raise(l.value, l.at, o + 5)
      /\ listVars' = listVars /\ trail' = trail /\ localVars' = localVars
  BY <1>4, <1>5, <1>6, EndFinallyHandler DEF EndFinally, listVars, localVars
<1>8. /\ m_offset' = m_offset /\ exception' = exception /\ returnValue' = returnValue /\ Told'
  BY <1>7 DEF listVars, localVars, Told
<1>9. CASE /\ TellsReturn(m) /\ exception = None
           /\ \E x \in DOMAIN il :
                l = [kind |-> "leave", value |-> m_offset[k + 7 + d], at |-> m_offset[x]]
  <2>1. PICK x \in DOMAIN il :
          l = [kind |-> "leave", value |-> m_offset[k + 7 + d], at |-> m_offset[x]]
    BY <1>9
  <2>2. LeaveTo(m_offset[k + 7 + d], m_offset[x], o + 5)
    BY <1>7, <2>1
  <2>3. Arrives(k + 7 + d)
    BY <1>5, <2>2, OutPlace, LastLeaves
  <2>4. TellsReturn(m)'
    BY <1>8, <1>9, <2>3 DEF TellsReturn, Arrives
  <2> QED
    BY <1>7, <1>8, <1>9, <2>3, <2>4 DEF Arrives, InOut
<1>10. CASE \E e : /\ TellsThrow(e) /\ exception = e
                   /\ l = [kind |-> "throw", value |-> e, at |-> m_offset[k + 1]]
  <2>1. PICK e : /\ TellsThrow(e) /\ exception = e
                 /\ l = [kind |-> "throw", value |-> e, at |-> m_offset[k + 1]]
    BY <1>10
  <2>2. Raise(e, m_offset[k + 1], o + 5)
    BY <1>7, <2>1
  <2>3. k + 1 \in DOMAIN il
    BY <1>1 DEF EndAt, AddedAt
  <2>4. Finish([kind |-> "throw", value |-> e])
    BY <1>5, <2>2, <2>3, LastRaises
  <2>5. phase' = "done" /\ outcome' = [kind |-> "throw", value |-> e] /\ result' = result
    BY <2>4 DEF Finish
  <2>6. TellsThrow(e)' /\ outcome' = result'
    BY <2>1, <2>5 DEF TellsThrow
  <2> QED
    BY <1>7, <1>8, <2>1, <2>5, <2>6 DEF Over
<1>11. \/ /\ TellsReturn(m) /\ exception = None
          /\ \E x \in DOMAIN il :
               l = [kind |-> "leave", value |-> m_offset[k + 7 + d], at |-> m_offset[x]]
       \/ \E e : /\ TellsThrow(e) /\ exception = e
                 /\ l = [kind |-> "throw", value |-> e, at |-> m_offset[k + 1]]
  BY <1>5 DEF Pending
<1> QED
  BY <1>9, <1>10, <1>11

\* Behind EndMethod: its value is stored, and the handler comes to its end.
LEMMA AfterEndStep ==
    ASSUME NEW m, NEW at, NEW from, NEW k, NEW d, Wrapped(m, at, from, k, d),
           Pending(m, k, d), Told, NEW q \in (k + 3) .. (k + 5 + d), ip = m_offset[q],
           q = k + 3 /\ ~m.void => Top = returnValue, phase = "rewritten", Next
    PROVE  Stays /\ InFinally(m, k, d)'
<1>1. /\ Exact /\ EndAt(m, il, k, d) /\ k \in Nat /\ d \in Nat
      /\ (m.void => d = 0) /\ (~m.void => d = 1)
  BY WrappedIs
<1>2. \A p \in (k + 3) .. (k + 6 + d) :
         /\ Stays /\ ip' = m_offset[p] /\ p # k + 3 /\ cont' = cont /\ ends' = ends
         /\ returnValue' = returnValue /\ exception' = exception
         => InFinally(m, k, d)'
  <2> SUFFICES ASSUME NEW p \in (k + 3) .. (k + 6 + d),
                      Stays, ip' = m_offset[p], p # k + 3, cont' = cont, ends' = ends,
                      returnValue' = returnValue, exception' = exception
               PROVE  InFinally(m, k, d)'
    OBVIOUS
  <2>1. Pending(m, k, d)' /\ Told'
    BY PendingStays, ToldStays
  <2>2. ip' = m_offset'[p]
    BY DEF Stays, listVars
  <2> QED
    BY <2>1, <2>2 DEF InFinally
<1>3. \/ q = k + 3 /\ ~m.void
      \/ q = k + 3 + d
      \/ q = k + 4 + d
      \/ q = k + 5 + d
  BY <1>1
<1>4. CASE q = k + 3 /\ ~m.void
  <2>1. q \in DOMAIN il /\ il[q].op = "stret"
    BY <1>1, <1>4 DEF EndAt, AddedAt
  <2>2. /\ Stays /\ ip' = m_offset[q + 1] /\ cont' = cont /\ ends' = ends
        /\ exception' = exception /\ returnValue' = Top
    BY <1>1, <2>1, AddedStraightDoes
  <2>3. q + 1 \in (k + 3) .. (k + 6 + d) /\ q + 1 # k + 3
    BY <1>1, <1>4
  <2> QED
    BY <1>2, <1>4, <2>2, <2>3
<1>5. CASE q = k + 4 + d
  <2>1. q \in DOMAIN il /\ il[q].op = "log"
    BY <1>1, <1>5 DEF EndAt, AddedAt
  <2>2. /\ Stays /\ ip' = m_offset[q + 1] /\ cont' = cont /\ ends' = ends
        /\ exception' = exception /\ returnValue' = returnValue
    BY <1>1, <2>1, AddedStraightDoes
  <2>3. q + 1 \in (k + 3) .. (k + 6 + d) /\ q + 1 # k + 3
    BY <1>1, <1>5
  <2> QED
    BY <1>2, <2>2, <2>3
<1>6. CASE q \in {k + 3 + d, k + 5 + d}
  <2>1. PICK p : p = k + 6 + d
    OBVIOUS
  <2>2. /\ q \in DOMAIN il /\ il[q].op = "leave" /\ il[q].target = Added + 17
        /\ p \in DOMAIN il /\ il[p].id = Added + 17
    BY <1>1, <1>6, <2>1 DEF EndAt, AddedAt
  <2>3. /\ LeaveTo(m_offset[p], m_offset[q], 1)
        /\ listVars' = listVars /\ trail' = trail /\ localVars' = localVars
    BY <1>1, <2>2, AddedLeaveDoes
  <2>4. Arrives(p)
    BY <1>6, <2>1, <2>3, EndLeaves
  <2>5. /\ Stays /\ ip' = m_offset[p] /\ cont' = cont /\ ends' = ends
        /\ returnValue' = returnValue /\ exception' = exception
    BY <2>3, <2>4 DEF Arrives, Stays, localVars
  <2>6. p \in (k + 3) .. (k + 6 + d) /\ p # k + 3
    BY <1>1, <2>1
  <2> QED
    BY <1>2, <2>5, <2>6
<1> QED
  BY <1>3, <1>4, <1>5, <1>6

\* A step in the finally handler with EndMethod
LEMMA FinallyStep ==
    ASSUME NEW m, NEW at, NEW from, NEW k, NEW d, Wrapped(m, at, from, k, d),
           InFinally(m, k, d), IsStack(stack), phase = "rewritten", Next
    PROVE  /\ listVars' = listVars /\ result' = result /\ trail' = trail
           /\ \/ phase' = phase /\ (InFinally(m, k, d)' \/ InOut(m, k, d)')
              \/ phase' = "done" /\ Over(m)'
<1>1. Pending(m, k, d)
  BY DEF InFinally
<1>2. CASE ip = m_offset[k + 2] /\ ends = <<>>
  BY <1>1, <1>2, EndStep DEF Stays
<1>3. CASE /\ Told
           /\ \E q \in (k + 3) .. (k + 6 + d) :
                ip = m_offset[q] /\ (q = k + 3 /\ ~m.void => Top = returnValue)
  <2>1. PICK q \in (k + 3) .. (k + 6 + d) :
          ip = m_offset[q] /\ (q = k + 3 /\ ~m.void => Top = returnValue)
    BY <1>3
  <2>2. CASE q = k + 6 + d
    BY <1>1, <1>3, <2>1, <2>2, FinallyEnds
  <2>3. CASE q # k + 6 + d
    <3>1. k \in Nat /\ d \in Nat
      BY WrappedIs
    <3>2. q \in (k + 3) .. (k + 5 + d)
      BY <2>3, <3>1
    <3> QED
      BY <1>1, <1>3, <2>1, <3>2, AfterEndStep DEF Stays
  <2> QED
    BY <2>2, <2>3
<1> QED
  BY <1>2, <1>3 DEF InFinally

\* The method returns what EndMethod returned.
LEMMA OutStep ==
    ASSUME NEW m, NEW at, NEW from, NEW k, NEW d, Wrapped(m, at, from, k, d),
           InOut(m, k, d), IsStack(stack), phase = "rewritten", Next
    PROVE  /\ listVars' = listVars /\ result' = result /\ trail' = trail
           /\ \/ phase' = phase /\ InOut(m, k, d)'
              \/ phase' = "done" /\ Over(m)'
<1>1. /\ Exact /\ k \in Nat /\ d \in Nat /\ (m.void => d = 0) /\ (~m.void => d = 1) /\ m = method
  BY WrappedIs DEF Wrapped
<1>2. TellsReturn(m) /\ exception = None /\ Told
  BY DEF InOut
<1>3. CASE ip = m_offset[k + 7 + d] /\ ~m.void
  <2>1. k + 7 + d \in DOMAIN il /\ il[k + 7 + d].op = "ldret"
    BY <1>3, OutPlace
  <2>2. /\ Stays /\ ip' = m_offset[k + 7 + d + 1] /\ ends' = ends
        /\ stack' = Append(stack, returnValue)
        /\ exception' = exception /\ returnValue' = returnValue
    BY <1>1, <1>3, <2>1, AddedStraightDoes
  <2>3. k + 7 + d + 1 = k + 7 + d + d
    BY <1>1, <1>3
  <2>4. Top' = returnValue'
    <3>1. PICK S : stack \in Seq(S)
      BY DEF IsStack
    <3>2. TopOf(Append(stack, returnValue)) = returnValue
      BY <3>1 DEF TopOf
    <3> QED
      BY <2>2, <3>2 DEF Top, TopOf
  <2>5. TellsReturn(m)' /\ Told' /\ m_offset' = m_offset
    BY <1>2, <2>2 DEF TellsReturn, Told, Stays, listVars
  <2> QED
    BY <1>2, <2>2, <2>3, <2>4, <2>5 DEF InOut, Stays
<1>4. CASE ip = m_offset[k + 7 + d + d] /\ (~m.void => Top = returnValue)
  <2>1. k + 7 + d + d \in DOMAIN il /\ il[k + 7 + d + d].op = "ret"
    BY OutPlace
  <2>2. Here = k + 7 + d + d
    BY <1>1, <1>4, <2>1, AtPlace
  <2>3. Return
    BY <2>1, <2>2, WhichAction
  <2>4. /\ Finish([kind |-> "ret", value |-> IF m.void THEN None ELSE Top])
        /\ listVars' = listVars /\ trail' = trail /\ localVars' = localVars
    BY <1>1, <2>3 DEF Return, listVars, localVars
  <2>5. /\ phase' = "done" /\ result' = result
        /\ outcome' = [kind |-> "ret", value |-> IF m.void THEN None ELSE Top]
    BY <2>4 DEF Finish
  <2>6. /\ returnValue' = returnValue /\ exception' = exception
        /\ TellsReturn(m)' /\ Told'
    BY <1>2, <2>4, <2>5 DEF TellsReturn, Told, localVars
  <2>7. outcome' = [kind |-> "ret", value |-> IF m.void THEN None ELSE returnValue']
    BY <1>4, <2>5, <2>6
  <2> QED
    BY <1>2, <2>4, <2>5, <2>6, <2>7 DEF Over
<1>5. \/ ip = m_offset[k + 7 + d] /\ ~m.void
      \/ ip = m_offset[k + 7 + d + d] /\ (~m.void => Top = returnValue)
  <2>1. m.void => k + 7 + d = k + 7 + d + d
    BY <1>1
  <2> QED
    BY <2>1 DEF InOut
<1> QED
  BY <1>3, <1>4, <1>5

\* A step of the instrumented run
LEMMA ZoneStep ==
    ASSUME NEW m, NEW at, NEW from, NEW k, NEW d, Wrapped(m, at, from, k, d),
           NEW T, Zone(m, at, from, k, d, T), IsStack(stack), trail \in Seq(BOOLEAN),
           phase = "rewritten", Next
    PROVE  /\ listVars' = listVars /\ result' = result /\ trail' \in Seq(BOOLEAN)
           /\ \/ phase' = phase /\ Zone(m, at, from, k, d, T)'
              \/ phase' = "done" /\ Over(m)'
<1>1. CASE InBegin(m, T)
  BY <1>1, BeginStep DEF Stays, Zone
<1>2. CASE InBody(m, at, from, T)
  <2>1. PICK c : Body(m, at, from, c) /\ Left(T, c.used) /\ Path(m, T, c, Fin(result))
    BY <1>2 DEF InBody
  <2>2. exception = None /\ ends = <<>>
    BY <1>2 DEF InBody
  <2>3. CASE m.il[c.p].op = "ret"
    BY <2>1, <2>2, <2>3, BodyReturnStep DEF Stays, Zone
  <2>4. CASE m.il[c.p].op # "ret"
    BY <2>1, <2>2, <2>4, BodyGoesOn DEF Zone
  <2> QED
    BY <2>3, <2>4
<1>3. CASE InReturn(m, at)
  <2>1. PICK i \in DOMAIN m.il : m.il[i].op = "ret" /\ ip = m_offset[at[i]]
    BY <1>3 DEF InReturn
  <2> QED
    BY <1>3, <2>1, ReturnStep DEF InReturn, Stays, Zone
<1>4. CASE InCatch(m, k)
  BY <1>4, CatchStep DEF Stays, Zone
<1>5. CASE InFinally(m, k, d)
  BY <1>5, FinallyStep DEF Zone
<1>6. CASE InOut(m, k, d)
  BY <1>6, OutStep DEF Zone
<1> QED
  BY <1>1, <1>2, <1>3, <1>4, <1>5, <1>6 DEF Zone

-----------------------------------------------------------------------------
(* The invariant of the run *)

\* The stack, the choices and what EndMethod was told are sequences.
Stacks == IsStack(stack) /\ trail \in Seq(BOOLEAN) /\ IsStack(ends)

\* An exception leaves a stack.
LEMMA RaiseStacks ==
    ASSUME NEW e, NEW at, NEW first, Raise(e, at, first), IsStack(stack)
    PROVE  IsStack(stack')
<1>1. stack' = stack \/ stack' = <<e>> \/ stack' = <<>>
  BY DEF Raise, Finish
<1> QED
  BY <1>1, StackSteps

\* A choice leaves a sequence of choices.
LEMMA ChooseStacks ==
    ASSUME NEW c \in BOOLEAN, Choose(c), trail \in Seq(BOOLEAN)
    PROVE  trail' \in Seq(BOOLEAN)
<1>1. trail' = Append(trail, c) \/ (trail # <<>> /\ trail' = Tail(trail))
  BY DEF Choose
<1> QED
  BY <1>1

\* Every step leaves a stack and sequences.
LEMMA StacksStep == Stacks /\ [Next]_vars => Stacks'
<1> SUFFICES ASSUME Stacks, [Next]_vars PROVE Stacks'
  OBVIOUS
<1>0. /\ IsStack(stack) /\ trail \in Seq(BOOLEAN) /\ IsStack(ends)
      /\ IsStack(<<>>) /\ IsStack(Popped)
      /\ \A x : IsStack(Append(stack, x)) /\ IsStack(Append(ends, x))
  BY StackSteps DEF Stacks, Popped, PoppedOf
<1>1. CASE UNCHANGED vars
  BY <1>0, <1>1 DEF Stacks, vars, runVars, localVars
<1>2. CASE Skip \/ Rewrite \/ Export
  <2>1. /\ stack' = <<>> \/ stack' = stack
        /\ trail' = trail /\ ends' = ends
    BY <1>2 DEF Skip, Rewrite, Export, Start, runVars, localVars
  <2> QED
    BY <1>0, <2>1 DEF Stacks
<1>3. CASE Straight
  <2>1. trail' = trail /\ ends' = ends
    BY <1>3 DEF Straight, localVars
  <2>2. stack' = stack \/ stack' = Popped \/ \E x : stack' = Append(stack, x)
    BY <1>3 DEF Straight
  <2> QED
    BY <1>0, <2>1, <2>2 DEF Stacks
<1>4. CASE Branch
  <2>1. stack' = stack \/ stack' = Popped
    BY <1>4 DEF Branch
  <2>2. ends' = ends /\ (trail' = trail \/ \E c \in BOOLEAN : Choose(c))
    BY <1>4 DEF Branch, localVars
  <2> QED
    BY <1>0, <2>1, <2>2, ChooseStacks DEF Stacks
<1>5. CASE Call
  <2>1. stack' = stack \/ \E e, at, first : Raise(e, at, first)
    BY <1>5 DEF Call
  <2>2. ends' = ends /\ \E c \in BOOLEAN : Choose(c)
    BY <1>5 DEF Call, localVars
  <2> QED
    BY <1>0, <2>1, <2>2, ChooseStacks, RaiseStacks DEF Stacks
<1>6. CASE Leave
  BY <1>0, <1>6 DEF Stacks, Leave, LeaveTo, localVars
<1>7. CASE EndFinally
  <2>1. stack' = <<>> \/ \E e, at, first : Raise(e, at, first)
    BY <1>7 DEF EndFinally, LeaveTo
  <2>2. trail' = trail /\ ends' = ends
    BY <1>7 DEF EndFinally, localVars
  <2> QED
    BY <1>0, <2>1, <2>2, RaiseStacks, SMTT(30) DEF Stacks
<1>8. CASE Rethrow
  <2>1. \E e, at, first : Raise(e, at, first)
    BY <1>8 DEF Rethrow
  <2>2. trail' = trail /\ ends' = ends
    BY <1>8 DEF Rethrow, localVars
  <2> QED
    BY <1>0, <2>1, <2>2, RaiseStacks DEF Stacks
<1>9. CASE Return
  BY <1>0, <1>9 DEF Stacks, Return, Finish, localVars
<1>10. CASE AddedStraight
  <2>1. trail' = trail /\ ends' = ends
    BY <1>10 DEF AddedStraight
  <2>2. stack' = stack \/ stack' = Popped \/ \E x : stack' = Append(stack, x)
    BY <1>10 DEF AddedStraight
  <2> QED
    BY <1>0, <2>1, <2>2 DEF Stacks
<1>11. CASE BeginMethod
  <2>1. stack' = stack \/ \E e, at, first : Raise(e, at, first)
    BY <1>11 DEF BeginMethod
  <2>2. trail' = trail /\ ends' = ends
    BY <1>11 DEF BeginMethod, localVars
  <2> QED
    BY <1>0, <2>1, <2>2, RaiseStacks DEF Stacks
<1>12. CASE EndMethod
  <2>1. \/ stack' = stack \/ (\E x : stack' = Append(stack, x))
        \/ \E e, at, first : Raise(e, at, first)
    BY <1>12 DEF EndMethod
  <2>2. trail' = trail /\ \E x : ends' = Append(ends, x)
    BY <1>12 DEF EndMethod
  <2> QED
    BY <1>0, <2>1, <2>2, RaiseStacks DEF Stacks
<1> QED
  BY <1>1, <1>2, <1>3, <1>4, <1>5, <1>6, <1>7, <1>8, <1>9, <1>10, <1>11, <1>12 DEF Next

\* A run of the list that was left as it was
PlainRun(m, T) ==
    /\ il = m.il /\ clauses = m.clauses /\ ends = <<>>
    /\ \E c : Second(m, T, c)

\* A run of the instrumented list
WrappedRun(m, T) == \E at, from, k, d : Wrapped(m, at, from, k, d) /\ Zone(m, at, from, k, d, T)

\* The invariant: in the first run the choices led here, afterwards they lead from the start to
\* the method's end, and the second run is on that way or, behind it, in the added zones.
RunInv ==
    /\ ListInv
    /\ Stacks
    /\ phase = "original" => ends = <<>> /\ \E c : First(method, c)
    /\ phase \in {"rewrite", "export"} =>
         ends = <<>> /\ Ending(method, result) /\ Path(method, trail, Start0, Fin(result))
    /\ phase = "rewritten" =>
         Ending(method, result) /\ \E T : PlainRun(method, T) \/ WrappedRun(method, T)
    /\ phase = "done" =>
         \/ il = method.il /\ ends = <<>> /\ Ending(method, result) /\ outcome = result
         \/ Len(il) > Len(method.il) /\ Over(method)

\* The invariant holds at the start.
LEMMA RunInit == Init => RunInv
<1> SUFFICES ASSUME Init PROVE RunInv
  OBVIOUS
<1>1. ListInv
  BY ListInit
<1>2. PICK m : m = method
  OBVIOUS
<1>3. /\ m \in Methods /\ il = m.il /\ clauses = m.clauses /\ m_offset = Offsets(il)
      /\ ip = 0 /\ stack = <<>> /\ trail = <<>> /\ ends = <<>> /\ phase = "original"
  BY <1>2 DEF Init
<1>4. m_offset[Same(m)[1]] = 0
  <2>1. Same(m)[1] = 1
    BY <1>3, SoundStart DEF Same
  <2>2. m_offset[1] = 0
    BY <1>1, <1>3, OffsetsAre DEF ListInv, WellFormed
  <2> QED
    BY <2>1, <2>2
<1>5. Body(m, Same(m), Same(m), Start0)
  BY <1>3, <1>4, BodyInit
<1>6. First(m, Start0)
  <2>1. Start0.used = 0
    BY DEF Start0, Conf
  <2> QED
    BY <1>3, <1>5, <2>1, PathStarts DEF First
<1>7. Stacks
  <2>1. <<>> \in Seq({}) /\ <<>> \in Seq(BOOLEAN)
    OBVIOUS
  <2> QED
    BY <1>3, <2>1 DEF Stacks, IsStack
<1> QED
  BY <1>1, <1>2, <1>3, <1>6, <1>7 DEF RunInv

\* The moments of the run are about the variables only.
LEMMA StutterBody ==
    ASSUME UNCHANGED vars, NEW m, NEW at, NEW from, NEW c
    PROVE  /\ Body(m, at, from, c) => Body(m, at, from, c)'
           /\ \A u : Left(c, u) => Left(c, u)'
<1>1. /\ ip' = ip /\ stack' = stack /\ caught' = caught /\ cont' = cont /\ trail' = trail
      /\ m_offset' = m_offset
  BY DEF vars, listVars, runVars
<1>2. \A k : Located(at, k)' = Located(at, k)
  BY <1>1 DEF Located
<1>3. Body(m, at, from, c) => Body(m, at, from, c)'
  BY <1>1, <1>2 DEF Body
<1>4. \A u : Left(c, u) => Left(c, u)'
  BY <1>1 DEF Left
<1> QED
  BY <1>3, <1>4

\* The same for the zones
LEMMA StutterZone ==
    ASSUME UNCHANGED vars, NEW m, NEW at, NEW from, NEW k, NEW d, NEW T,
           Wrapped(m, at, from, k, d), Zone(m, at, from, k, d, T)
    PROVE  Wrapped(m, at, from, k, d)' /\ Zone(m, at, from, k, d, T)'
<1>1. /\ ip' = ip /\ stack' = stack /\ caught' = caught /\ cont' = cont /\ trail' = trail
      /\ method' = method /\ il' = il /\ clauses' = clauses /\ m_offset' = m_offset
      /\ returnValue' = returnValue /\ exception' = exception /\ ends' = ends
      /\ result' = result
  BY DEF vars, listVars, runVars, localVars
<1>2. Wrapped(m, at, from, k, d)'
  BY <1>1 DEF Wrapped
<1>3. InBegin(m, T) => InBegin(m, T)'
  BY <1>1 DEF InBegin, Whole, Left
<1>4. InBody(m, at, from, T) => InBody(m, at, from, T)'
  BY <1>1, StutterBody DEF InBody
<1>5. TellsReturn(m) => TellsReturn(m)'
  BY <1>1 DEF TellsReturn
<1>6. \A e : TellsThrow(e) => TellsThrow(e)'
  BY <1>1 DEF TellsThrow
<1>7. (Told => Told') /\ Top' = Top
  BY <1>1 DEF Told, Top
<1>8. InReturn(m, at) => InReturn(m, at)'
  BY <1>1, <1>5 DEF InReturn
<1>9. InCatch(m, k) => InCatch(m, k)'
  BY <1>1, <1>6 DEF InCatch
<1>10. Pending(m, k, d) => Pending(m, k, d)'
  BY <1>1, <1>5, <1>6 DEF Pending
<1>11. InFinally(m, k, d) => InFinally(m, k, d)'
  BY <1>1, <1>7, <1>10 DEF InFinally
<1>12. InOut(m, k, d) => InOut(m, k, d)'
  BY <1>1, <1>5, <1>7 DEF InOut
<1> QED
  BY <1>2, <1>3, <1>4, <1>8, <1>9, <1>11, <1>12 DEF Zone

\* A step that changes nothing keeps the invariant.
LEMMA RunStutters == RunInv /\ UNCHANGED vars => RunInv'
<1> SUFFICES ASSUME RunInv, UNCHANGED vars PROVE RunInv'
  OBVIOUS
<1>1. ListInv' /\ Stacks'
  BY ListStep, StacksStep DEF RunInv
<1>2. /\ phase' = phase /\ method' = method /\ il' = il /\ clauses' = clauses
      /\ ends' = ends /\ result' = result /\ outcome' = outcome /\ trail' = trail
      /\ returnValue' = returnValue /\ exception' = exception
  BY DEF vars, listVars, runVars, localVars
<1>3. PICK m : m = method
  OBVIOUS
<1>4. \A c : First(m, c) => First(m, c)'
  BY <1>2, StutterBody DEF First
<1>5. \A T : PlainRun(m, T) => PlainRun(m, T)'
  <2> SUFFICES ASSUME NEW T, PlainRun(m, T) PROVE PlainRun(m, T)'
    OBVIOUS
  <2>1. PICK c : Second(m, T, c)
    BY DEF PlainRun
  <2>2. Body(m, Same(m), Same(m), c) /\ Left(T, c.used) /\ Path(m, T, c, Fin(result))
    BY <2>1 DEF Second
  <2>3. Body(m, Same(m), Same(m), c)'
    BY <2>2, StutterBody
  <2>4. Left(T, c.used)'
    BY <2>2, StutterBody
  <2>5. Second(m, T, c)'
    BY <1>2, <2>2, <2>3, <2>4 DEF Second
  <2> QED
    BY <1>2, <2>5 DEF PlainRun
<1>6. \A T : WrappedRun(m, T) => WrappedRun(m, T)'
  BY StutterZone DEF WrappedRun
<1>7. Ending(m, result) => Ending(m, result)'
  BY <1>2
<1>8. Over(m) => Over(m)'
  BY <1>2 DEF Over, TellsReturn, TellsThrow, Told
<1>9. (\E T : PlainRun(m, T) \/ WrappedRun(m, T)) => (\E T : PlainRun(m, T) \/ WrappedRun(m, T))'
  BY <1>5, <1>6
<1>10. (\E c : First(m, c)) => (\E c : First(m, c))'
  BY <1>4
<1>11. CASE phase = "original"
  BY <1>1, <1>2, <1>3, <1>10, <1>11 DEF RunInv
<1>12. CASE phase \in {"rewrite", "export"}
  BY <1>1, <1>2, <1>3, <1>7, <1>12 DEF RunInv
<1>13. CASE phase = "rewritten"
  BY <1>1, <1>2, <1>3, <1>7, <1>9, <1>13 DEF RunInv
<1>14. CASE phase = "done"
  BY <1>1, <1>2, <1>3, <1>7, <1>8, <1>14 DEF RunInv
<1> QED
  BY <1>11, <1>12, <1>13, <1>14 DEF RunInv, ListInv

\* The first run, of the method as it was written
LEMMA OriginalStep ==
    ASSUME RunInv, phase = "original", Next
    PROVE  RunInv'
<1>1. ListInv' /\ Stacks'
  BY ListStep, StacksStep DEF RunInv
<1>2. PICK m : m = method
  OBVIOUS
<1>3. /\ m \in Methods /\ il = m.il /\ clauses = m.clauses /\ m_offset = Offsets(il)
      /\ ends = <<>> /\ trail \in Seq(BOOLEAN)
  BY <1>2 DEF RunInv, ListInv, Listed, Stacks
<1>4. PICK c : First(m, c)
  BY <1>2 DEF RunInv
<1>5. Framed(m, Same(m), Same(m))
  BY <1>3, PlainFrame
<1>6. /\ listVars' = listVars /\ localVars' = localVars /\ trail' \in Seq(BOOLEAN)
      /\ \/ phase' = "original" /\ \E d : First(m, d)'
         \/ phase' = "rewrite" /\ Ending(m, result') /\ Path(m, trail', Start0, Fin(result'))
  BY <1>2, <1>3, <1>4, <1>5, FirstStep
<1>7. method' = m /\ ends' = <<>>
  BY <1>2, <1>3, <1>6 DEF listVars, localVars
<1> QED
  BY <1>1, <1>6, <1>7 DEF RunInv

\* The second run starts with all choices still to repeat.
LEMMA TrailWhole ==
    ASSUME trail \in Seq(BOOLEAN), trail' = trail
    PROVE  Left(trail, 0)'
<1>1. PICK T : T = trail
  OBVIOUS
<1>2. T \in Seq(BOOLEAN) /\ Len(T) \in Nat /\ Len(T) = 0 + Len(T)
  BY <1>1
<1>3. \A i \in 1 .. Len(T) : T[i] = T[0 + i]
  BY <1>2
<1> QED
  BY <1>1, <1>2, <1>3 DEF Left

\* The body is left as it was.
LEMMA SkipStep ==
    ASSUME RunInv, Skip
    PROVE  RunInv'
<1>1. ListInv' /\ Stacks'
  BY ListStep, StacksStep DEF RunInv, Next
<1>2. PICK m, T : m = method /\ T = trail
  OBVIOUS
<1>3. /\ phase = "rewrite" /\ phase' = "rewritten" /\ ip' = 0 /\ stack' = <<>>
      /\ listVars' = listVars /\ trail' = trail /\ ends' = ends /\ result' = result
  BY DEF Skip, Start, localVars
<1>4. /\ m \in Methods /\ il = m.il /\ clauses = m.clauses /\ m_offset = Offsets(il)
      /\ ends = <<>> /\ trail \in Seq(BOOLEAN) /\ WellFormed(il)
      /\ Ending(m, result) /\ Path(m, T, Start0, Fin(result))
  BY <1>2, <1>3 DEF RunInv, ListInv, Listed, Stacks
<1>5. method' = m /\ il' = il /\ clauses' = clauses /\ m_offset' = m_offset
  BY <1>2, <1>3 DEF listVars
<1>6. m_offset'[Same(m)[1]] = 0
  <2>1. Same(m)[1] = 1
    BY <1>4, SoundStart DEF Same
  <2>2. m_offset[1] = 0
    BY <1>4, OffsetsAre DEF WellFormed
  <2> QED
    BY <1>5, <2>1, <2>2
<1>7. Body(m, Same(m), Same(m), Start0)'
  BY <1>3, <1>4, <1>6, BodyStart
<1>8. Start0.used = 0
  BY DEF Start0, Conf
<1>9. Left(T, 0)'
  BY <1>2, <1>3, <1>4, TrailWhole
<1>10. Second(m, T, Start0)'
  BY <1>3, <1>4, <1>7, <1>8, <1>9 DEF Second
<1>11. PlainRun(m, T)'
  BY <1>3, <1>4, <1>5, <1>10 DEF PlainRun
<1> QED
  BY <1>1, <1>3, <1>4, <1>5, <1>11 DEF RunInv

\* The body is rewritten.
LEMMA RewriteStep ==
    ASSUME RunInv, Rewrite
    PROVE  RunInv'
<1>1. ListInv' /\ Stacks'
  BY ListStep, StacksStep DEF RunInv, Next
<1>2. /\ phase = "rewrite" /\ phase' = "export" /\ method' = method
      /\ ends' = ends /\ result' = result /\ trail' = trail
  BY DEF Rewrite, runVars, localVars
<1> QED
  BY <1>1, <1>2 DEF RunInv

\* The last pass of Export: the instrumented run starts.
LEMMA ExportStep ==
    ASSUME RunInv, Export
    PROVE  RunInv'
<1>1. ListInv' /\ Stacks'
  BY ListStep, StacksStep DEF RunInv, Next
<1>2. /\ phase = "export" /\ method' = method /\ clauses' = clauses
      /\ ends' = ends /\ result' = result /\ trail' = trail
      /\ m_offset' = Offsets(il) /\ il' = Widen(il, Offsets(il))
      /\ \/ phase' = phase
         \/ /\ phase' = "rewritten" /\ TooFar(il, Offsets(il)) = {}
            /\ ip' = 0 /\ stack' = <<>>
  BY DEF Export, Again, Start, localVars
<1>3. CASE phase' = phase
  BY <1>1, <1>2, <1>3 DEF RunInv
<1>4. CASE /\ phase' = "rewritten" /\ TooFar(il, Offsets(il)) = {}
           /\ ip' = 0 /\ stack' = <<>>
  <2>1. PICK m, T : m = method /\ T = trail
    OBVIOUS
  <2>2. /\ m \in Methods /\ Shaped(m, il) /\ clauses = NewClauses(m.clauses)
        /\ ends = <<>> /\ trail \in Seq(BOOLEAN) /\ WellFormed(il)
        /\ Ending(m, result) /\ Path(m, T, Start0, Fin(result))
    BY <1>2, <2>1 DEF RunInv, ListInv, Stacks
  <2>3. il' = il
    BY <1>2, <1>4, <2>2, WidenIs
  <2>4. PICK at, from, n, d : Shape(m, il, at, from, n, d)
    BY <2>2 DEF Shaped
  <2>5. PICK k : k = n + 7
    OBVIOUS
  <2>6. Wrapped(m, at, from, k, d)'
    BY <1>2, <1>4, <2>1, <2>2, <2>3, <2>4, <2>5 DEF Wrapped
  <2>7. InBegin(m, T)'
    <3>1. m_offset'[1] = 0
      BY <1>2, <2>2, OffsetsAre DEF WellFormed
    <3>2. Left(T, 0)'
      BY <1>2, <2>1, <2>2, TrailWhole
    <3>3. Whole(m, T)'
      BY <1>2, <2>2, <3>2 DEF Whole
    <3>4. 1 \in 1 .. 6
      OBVIOUS
    <3> QED
      BY <1>2, <1>4, <2>2, <3>1, <3>3, <3>4 DEF InBegin
  <2>8. WrappedRun(m, T)'
    BY <2>6, <2>7 DEF WrappedRun, Zone
  <2> QED
    BY <1>1, <1>2, <1>4, <2>1, <2>2, <2>8 DEF RunInv
<1> QED
  BY <1>2, <1>3, <1>4

\* The second run
LEMMA RewrittenStep ==
    ASSUME RunInv, phase = "rewritten", Next
    PROVE  RunInv'
<1>1. ListInv' /\ Stacks'
  BY ListStep, StacksStep DEF RunInv
<1>2. PICK m : m = method
  OBVIOUS
<1>3. /\ m \in Methods /\ Listed /\ trail \in Seq(BOOLEAN) /\ IsStack(stack) /\ Ending(m, result)
  BY <1>2 DEF RunInv, ListInv, Stacks
<1>4. PICK T : PlainRun(m, T) \/ WrappedRun(m, T)
  BY <1>2 DEF RunInv
<1>5. CASE PlainRun(m, T)
  <2>1. PICK c : Second(m, T, c)
    BY <1>5 DEF PlainRun
  <2>2. il = m.il /\ clauses = m.clauses /\ ends = <<>> /\ m_offset = Offsets(il)
    BY <1>3, <1>5 DEF PlainRun, Listed
  <2>3. Framed(m, Same(m), Same(m))
    BY <1>3, <2>2, PlainFrame
  <2>4. /\ listVars' = listVars /\ localVars' = localVars /\ trail' \in Seq(BOOLEAN)
        /\ result' = result
        /\ \/ phase' = "rewritten" /\ \E b : Second(m, T, b)'
           \/ phase' = "done" /\ outcome' = result
    BY <1>2, <1>3, <2>1, <2>2, <2>3, SecondStep
  <2>5. method' = m /\ il' = m.il /\ clauses' = m.clauses /\ ends' = <<>>
    BY <1>2, <2>2, <2>4 DEF listVars, localVars
  <2>6. CASE phase' = "rewritten" /\ \E b : Second(m, T, b)'
    <3>1. PlainRun(m, T)'
      BY <2>5, <2>6 DEF PlainRun
    <3> QED
      BY <1>1, <1>3, <2>4, <2>5, <2>6, <3>1 DEF RunInv
  <2>7. CASE phase' = "done" /\ outcome' = result
    BY <1>1, <1>3, <2>4, <2>5, <2>7 DEF RunInv
  <2> QED
    BY <2>4, <2>6, <2>7
<1>6. CASE WrappedRun(m, T)
  <2>1. PICK at, from, k, d : Wrapped(m, at, from, k, d) /\ Zone(m, at, from, k, d, T)
    BY <1>6 DEF WrappedRun
  <2>2. /\ listVars' = listVars /\ result' = result /\ trail' \in Seq(BOOLEAN)
        /\ \/ phase' = phase /\ Zone(m, at, from, k, d, T)'
           \/ phase' = "done" /\ Over(m)'
    BY <1>3, <2>1, ZoneStep
  <2>3. method' = m /\ il' = il /\ clauses' = clauses /\ m_offset' = m_offset
    BY <1>2, <2>2 DEF listVars
  <2>4. CASE phase' = phase /\ Zone(m, at, from, k, d, T)'
    <3>1. Wrapped(m, at, from, k, d)'
      BY <1>2, <2>1, <2>3 DEF Wrapped
    <3>2. WrappedRun(m, T)'
      BY <2>4, <3>1 DEF WrappedRun
    <3> QED
      BY <1>1, <1>3, <2>2, <2>3, <2>4, <3>2 DEF RunInv
  <2>5. CASE phase' = "done" /\ Over(m)'
    <3>1. Len(il) > Len(m.il)
      BY <2>1, WrappedIs
    <3> QED
      BY <1>1, <2>3, <2>5, <3>1 DEF RunInv
  <2> QED
    BY <2>2, <2>4, <2>5
<1> QED
  BY <1>4, <1>5, <1>6

\* Every step keeps the invariant.
LEMMA RunStays == RunInv /\ [Next]_vars => RunInv'
<1> SUFFICES ASSUME RunInv, [Next]_vars PROVE RunInv'
  OBVIOUS
<1>1. CASE UNCHANGED vars
  BY <1>1, RunStutters
<1>2. CASE Next
  <2>1. Skip \/ Rewrite \/ Export \/ RunStep
    BY <1>2, RunSteps
  <2>2. CASE phase = "original"
    BY <1>2, <2>2, OriginalStep
  <2>3. CASE phase = "rewritten"
    BY <1>2, <2>3, RewrittenStep
  <2>4. RunStep => phase = "original" \/ phase = "rewritten"
    BY DEF RunStep
  <2> QED
    BY <2>1, <2>2, <2>3, <2>4, SkipStep, RewriteStep, ExportStep
<1> QED
  BY <1>1, <1>2

\* The invariant of the run holds, for every set of methods that the runtime accepts.
LEMMA RunInvariant == Spec => []RunInv
<1>1. Init => RunInv
  BY RunInit
<1>2. RunInv /\ [Next]_vars => RunInv'
  BY RunStays
<1> QED
  BY <1>1, <1>2, PTL DEF Spec

-----------------------------------------------------------------------------
(* The theorems of the run *)

\* While the method runs, the next instruction is one of the list.
LEMMA RunsAtPlace ==
    ASSUME RunInv, Running
    PROVE  \E i \in DOMAIN il : m_offset[i] = ip
<1>1. PICK m : m = method
  OBVIOUS
<1>2. m \in Methods
  BY <1>1 DEF RunInv, ListInv
<1>3. ASSUME il = m.il, NEW c, Body(m, Same(m), Same(m), c)
      PROVE  \E i \in DOMAIN il : m_offset[i] = ip
  <2>1. c.p \in DOMAIN il /\ Same(m)[c.p] = c.p
    BY <1>3 DEF Body, Sound, Same
  <2> QED
    BY <1>3, <2>1 DEF Body
<1>4. CASE phase = "original"
  <2>1. il = m.il /\ \E c : First(m, c)
    BY <1>1, <1>4 DEF RunInv, ListInv
  <2> QED
    BY <1>3, <2>1 DEF First
<1>5. CASE phase = "rewritten"
  <2>1. PICK T : PlainRun(m, T) \/ WrappedRun(m, T)
    BY <1>1, <1>5 DEF RunInv
  <2>2. CASE PlainRun(m, T)
    BY <1>3, <2>2 DEF PlainRun, Second
  <2>3. CASE WrappedRun(m, T)
    <3>1. PICK at, from, k, d : Wrapped(m, at, from, k, d) /\ Zone(m, at, from, k, d, T)
      BY <2>3 DEF WrappedRun
    <3>2. /\ k \in Nat /\ d \in Nat /\ k > 6
          /\ \A i \in DOMAIN m.il : at[i] \in DOMAIN il /\ from[i] \in DOMAIN il
      BY <3>1, WrappedIs
    <3>3. \A q \in Nat : 1 <= q /\ q <= k + 7 + d + d => q \in DOMAIN il
      BY <3>1, AddedPlaces
    <3>4. CASE InBegin(m, T)
      <4>1. \A q \in 1 .. 6 : q \in Nat /\ 1 <= q /\ q <= k + 7 + d + d
        BY <3>2
      <4> QED
        BY <3>3, <3>4, <4>1 DEF InBegin
    <3>5. CASE InBody(m, at, from, T)
      BY <3>2, <3>5 DEF InBody, Body, Sound
    <3>6. CASE InReturn(m, at)
      BY <3>2, <3>6 DEF InReturn
    <3>7. CASE InCatch(m, k)
      <4>1. k \in DOMAIN il /\ k + 1 \in DOMAIN il
        BY <3>2, <3>3
      <4> QED
        BY <3>7, <4>1 DEF InCatch
    <3>8. CASE InFinally(m, k, d)
      <4>1. k + 2 \in DOMAIN il
        BY <3>2, <3>3
      <4>2. \A q \in (k + 3) .. (k + 6 + d) : q \in Nat /\ 1 <= q /\ q <= k + 7 + d + d
        BY <3>2
      <4> QED
        BY <3>3, <3>8, <4>1, <4>2 DEF InFinally
    <3>9. CASE InOut(m, k, d)
      BY <3>1, <3>9, OutPlace DEF InOut
    <3> QED
      BY <3>1, <3>4, <3>5, <3>6, <3>7, <3>8, <3>9 DEF Zone
  <2> QED
    BY <2>1, <2>2, <2>3
<1> QED
  BY <1>4, <1>5 DEF Running

\* The variables have their types, and while the method runs the next instruction is one of
\* the list: no exception, leave or branch, displaced or not, leads anywhere else.
THEOREM RunTypeOK == Spec => []TypeOK
<1>1. RunInv => TypeOK
  <2> SUFFICES ASSUME RunInv PROVE TypeOK
    OBVIOUS
  <2>1. ListInv /\ Stacks
    BY DEF RunInv
  <2>2. /\ phase \in {"original", "rewrite", "export", "rewritten", "done"}
        /\ method \in Methods /\ WellFormed(il) /\ m_offset \in [DOMAIN m_offset -> Nat]
    BY <2>1 DEF ListInv
  <2>3. /\ \A i \in DOMAIN il : IsBranch(il[i]) => \E j \in DOMAIN il : il[j].id = il[i].target
        /\ \A i, j \in DOMAIN il : il[i].id = il[j].id => i = j
    BY <2>2 DEF WellFormed, DistinctIds
  <2>4. Len(stack) \in Nat /\ trail \in Seq(BOOLEAN) /\ Len(ends) \in Nat
    BY <2>1, StackSteps DEF Stacks
  <2>5. Running => \E i \in DOMAIN il : m_offset[i] = ip
    BY RunsAtPlace
  <2> QED
    BY <2>2, <2>3, <2>4, <2>5 DEF TypeOK
<1> QED
  BY <1>1, RunInvariant, PTL

\* An instrumented call runs EndMethod exactly once, and one that was left as it was never,
\* whatever the method, BeginMethod and EndMethod do: every return and every exception of
\* the method comes to the finally handler with EndMethod, and that handler ends once.
THEOREM EndOnce == Spec => []EndMatchesBegin
<1>1. RunInv => EndMatchesBegin
  <2> SUFFICES ASSUME RunInv, phase = "done"
               PROVE  Len(ends) = IF Instrumented THEN 1 ELSE 0
    BY DEF EndMatchesBegin
  <2>1. CASE il = method.il /\ ends = <<>>
    <3>1. ~(Len(il) > Len(method.il))
      <4>1. Len(il) \in Nat
        BY DEF RunInv, ListInv, WellFormed
      <4> QED
        BY <2>1, <4>1
    <3> QED
      BY <2>1, <3>1 DEF Instrumented
  <2>2. CASE Len(il) > Len(method.il) /\ Over(method)
    <3>1. Told
      BY <2>2 DEF Over
    <3> QED
      BY <2>2, <3>1 DEF Told, Instrumented
  <2> QED
    BY <2>1, <2>2 DEF RunInv
<1> QED
  BY <1>1, RunInvariant, PTL

\* What BeginMethod or EndMethod throw ends in the clauses that log it: the caller of the
\* method gets an exception of the method only.
THEOREM Isolation == Spec => []IntegrationIsolated
<1>1. RunInv => IntegrationIsolated
  <2> SUFFICES ASSUME RunInv, phase = "done", outcome.kind = "throw"
               PROVE  outcome.value # Fault
    BY DEF IntegrationIsolated
  <2>1. Fault \notin Values \cup {None}
    BY CallTargetAssumption
  <2>2. "throw" # "ret"
    OBVIOUS
  <2>3. CASE Ending(method, result) /\ outcome = result
    BY <2>1, <2>2, <2>3 DEF Ending
  <2>4. CASE Over(method)
    BY <2>1, <2>2, <2>4 DEF Over, TellsThrow
  <2> QED
    BY <2>3, <2>4 DEF RunInv
<1> QED
  BY <1>1, RunInvariant, PTL

\* Without a branch that leads to a return with the value on the stack, the caller gets
\* exactly what the method, as it was written, returns or throws with the same choices.
THEOREM SameOutcome == Spec => []OutcomePreserved
<1>1. RunInv => OutcomePreserved
  <2> SUFFICES ASSUME RunInv, phase = "done", ~BranchToReturn
               PROVE  outcome = result
    BY DEF OutcomePreserved
  <2>1. ~JumpsToReturn(method)
    BY DEF BranchToReturn, JumpsToReturn
  <2>2. CASE Over(method)
    <3>1. CASE /\ TellsReturn(method)
               /\ outcome = [kind |-> "ret", value |-> IF method.void THEN None ELSE returnValue]
      <4>1. PICK x : /\ result = [kind |-> "ret", value |-> x]
                     /\ method.void => x = None
                     /\ ~method.void => JumpsToReturn(method) \/ returnValue = x
        BY <3>1 DEF TellsReturn
      <4> QED
        BY <2>1, <3>1, <4>1
    <3> QED
      BY <2>2, <3>1 DEF Over
  <2> QED
    BY <2>2 DEF RunInv
<1> QED
  BY <1>1, RunInvariant, PTL

\* Under the same condition EndMethod is told the value that the method returned or the
\* exception that it threw, and not an exception when it returned.
THEOREM OutcomeTold == Spec => []EndSeesOutcome
<1>1. RunInv => EndSeesOutcome
  <2> SUFFICES ASSUME RunInv, phase = "done", Instrumented, ~BranchToReturn,
                      NEW i \in DOMAIN ends
               PROVE  IF result.kind = "throw"
                        THEN ends[i].exception = result.value
                        ELSE /\ ends[i].exception = None
                             /\ ~method.void => ends[i].value = result.value
    BY DEF EndSeesOutcome
  <2>1. ~JumpsToReturn(method)
    BY DEF BranchToReturn, JumpsToReturn
  <2>2. Over(method)
    <3>1. il # method.il
      <4>1. Len(il) \in Nat /\ Len(il) > Len(method.il)
        BY DEF RunInv, ListInv, WellFormed, Instrumented
      <4> QED
        BY <4>1
    <3> QED
      BY <3>1 DEF RunInv
  <2>3. ends[i].value = returnValue /\ ends[i].exception = exception
    <3>1. Told
      BY <2>2 DEF Over
    <3> QED
      BY <3>1 DEF Told
  <2>4. "throw" # "ret"
    OBVIOUS
  <2>5. CASE TellsReturn(method) /\ exception = None
    <3>1. PICK x : /\ result = [kind |-> "ret", value |-> x]
                   /\ ~method.void => JumpsToReturn(method) \/ returnValue = x
      BY <2>5 DEF TellsReturn
    <3> QED
      BY <2>1, <2>3, <2>4, <2>5, <3>1
  <2>6. CASE \E e : TellsThrow(e) /\ exception = e
    BY <2>3, <2>6 DEF TellsThrow
  <2> QED
    BY <2>2, <2>5, <2>6 DEF Over
<1> QED
  BY <1>1, RunInvariant, PTL
=============================================================================
