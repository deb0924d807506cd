---------------------------- MODULE Wire_proofs ----------------------------
(***************************************************************************)
(* Proofs about the loops of Wire, for byte strings of any length and for  *)
(* the widths that the code has: what SplitChangeChunks cuts is exactly    *)
(* what is one chunk after the other, lists lose only their end, and an    *)
(* info is read in full or refused.                                        *)
(***************************************************************************)
EXTENDS Wire, SequenceTheorems, WellFoundedInduction, TLAPS

-----------------------------------------------------------------------------
(* Induction and recursion over the naturals *)

LEMMA Least ==
    ASSUME NEW T \in SUBSET Nat, T # {}
    PROVE  \E m \in T : \A x \in T : m <= x
<1> DEFINE Less == {p \in Nat \X Nat : p[1] < p[2]}
<1>1. IsWellFoundedOn(Less, Nat)
  BY NatLessThanWellFounded DEF OpToRel
<1>2. \E m \in T : \A x \in T : ~(<<x, m>> \in Less)
  <2> HIDE DEF Less
  <2>. QED
    BY <1>1, WFMin
<1>3. PICK m \in T : \A x \in T : ~(<<x, m>> \in Less)
  BY <1>2
<1>4. ASSUME NEW x \in T PROVE m <= x
  <2>1. ~(x < m)
    BY <1>3
  <2>. QED
    BY <2>1
<1>. QED
  BY <1>4

\* Induction, with a set for the predicate.
LEMMA Induction ==
    ASSUME NEW T, 0 \in T, \A n \in Nat : n \in T => n + 1 \in T
    PROVE  \A n \in Nat : n \in T
<1> SUFFICES ASSUME NEW n \in Nat, n \notin T PROVE FALSE
  OBVIOUS
<1> DEFINE U == Nat \ T
<1>1. PICK m \in U : \A x \in U : m <= x
  <2>1. U \in SUBSET Nat /\ U # {}
    OBVIOUS
  <2> HIDE DEF U
  <2>. QED
    BY <2>1, Least
<1>2. m \in Nat /\ m # 0 /\ m - 1 \in Nat /\ m - 1 \in T
  BY <1>1
<1>. QED
  BY <1>1, <1>2

\* g satisfies the recursion on 0 .. n that starts from base and has the step F.
Solves(n, T, base, F, g) ==
    /\ g \in [0 .. n -> T] /\ g[0] = base
    /\ \A i \in 1 .. n : g[i] = F[<<i, g[i - 1]>>]

\* A recursion has a solution.
LEMMA Solution ==
    ASSUME NEW n \in Nat, NEW T, NEW base \in T, NEW F \in [(1 .. n) \X T -> T]
    PROVE  \E g : Solves(n, T, base, F, g)
<1> DEFINE A == {m \in Nat : m <= n => \E g \in [0 .. m -> T] :
                    g[0] = base /\ \A i \in 1 .. m : g[i] = F[<<i, g[i - 1]>>]}
<1>1. 0 \in A
  <2> DEFINE h == [x \in 0 .. 0 |-> base]
  <2>1. h \in [0 .. 0 -> T] /\ h[0] = base /\ \A i \in 1 .. 0 : FALSE
    OBVIOUS
  <2> HIDE DEF h
  <2>. QED
    BY <2>1
<1>2. ASSUME NEW m \in Nat, m \in A PROVE m + 1 \in A
  <2> SUFFICES ASSUME m + 1 <= n
               PROVE  \E g \in [0 .. m + 1 -> T] :
                         g[0] = base /\ \A i \in 1 .. m + 1 : g[i] = F[<<i, g[i - 1]>>]
    OBVIOUS
  <2>1. PICK g \in [0 .. m -> T] : g[0] = base /\ \A i \in 1 .. m : g[i] = F[<<i, g[i - 1]>>]
    BY <1>2
  <2> DEFINE e == F[<<m + 1, g[m]>>]
             h == [x \in 0 .. m + 1 |-> IF x = m + 1 THEN e ELSE g[x]]
  <2>2. g[m] \in T /\ <<m + 1, g[m]>> \in (1 .. n) \X T
    BY <2>1
  <2>3. e \in T
    BY <2>2
  <2> HIDE DEF e
  <2>4. h \in [0 .. m + 1 -> T]
    BY <2>1, <2>3
  <2>5. h[m + 1] = e /\ \A x \in 0 .. m : h[x] = g[x]
    OBVIOUS
  <2>6. h[0] = base
    BY <2>1, <2>5
  <2>7. ASSUME NEW i \in 1 .. m + 1 PROVE h[i] = F[<<i, h[i - 1]>>]
    <3>1. i - 1 \in 0 .. m /\ h[i - 1] = g[i - 1]
      BY <2>5
    <3>2. CASE i = m + 1
      <4>1. i - 1 = m
        BY <3>2
      <4>. QED
        BY <2>5, <3>1, <3>2, <4>1 DEF e
    <3>3. CASE i # m + 1
      <4>1. i \in 1 .. m
        BY <3>3
      <4>. QED
        BY <2>1, <2>5, <3>1, <4>1
    <3>. QED
      BY <3>2, <3>3
  <2> HIDE DEF h
  <2>. QED
    BY <2>4, <2>6, <2>7
<1>3. n \in A
  <2> HIDE DEF A
  <2>. QED
    BY <1>1, <1>2, Induction
<1>. QED
  BY <1>3 DEF Solves

\* g and h start alike and every step keeps them so.
AgreeStepwise(n, g, h) ==
    g[0] = h[0] /\ \A i \in 1 .. n : g[i - 1] = h[i - 1] => g[i] = h[i]

Agree(n, g, h) == \A i \in 0 .. n : g[i] = h[i]

\* Two solutions are equal.
LEMMA SameSolution ==
    ASSUME NEW n \in Nat, NEW g, NEW h, AgreeStepwise(n, g, h)
    PROVE  Agree(n, g, h)
<1> USE DEF AgreeStepwise, Agree
<1> DEFINE A == {m \in Nat : m <= n => g[m] = h[m]}
<1>1. 0 \in A
  OBVIOUS
<1>2. ASSUME NEW m \in Nat, m \in A PROVE m + 1 \in A
  <2>1. m + 1 <= n => m + 1 \in 1 .. n /\ (m + 1) - 1 = m /\ m <= n
    OBVIOUS
  <2>. QED
    BY <1>2, <2>1
<1>3. \A m \in Nat : m \in A
  <2> HIDE DEF A
  <2>. QED
    BY <1>1, <1>2, Induction
<1>. QED
  BY <1>3

-----------------------------------------------------------------------------
(* Concatenation *)

LEMMA FcnIsSeq ==
    ASSUME NEW S, NEW n \in Nat, NEW f \in [1 .. n -> S]
    PROVE  f \in Seq(S) /\ Len(f) = n
BY SeqDef

\* g[i] is the concatenation of the first i items of s.
Joins(s, g) ==
    /\ DOMAIN g = 0 .. Len(s) /\ g[0] = <<>>
    /\ \A i \in 1 .. Len(s) : g[i] = g[i - 1] \o s[i]

LEMMA JoinsExist ==
    ASSUME NEW S, NEW s \in Seq(Seq(S))
    PROVE  \E g \in [0 .. Len(s) -> Seq(S)] : Joins(s, g)
<1>1. ASSUME NEW n, NEW T, n = Len(s), T = Seq(S)
      PROVE  \E g \in [0 .. n -> T] : Joins(s, g)
  <2> DEFINE F == [p \in (1 .. n) \X T |-> p[2] \o s[p[1]]]
  <2>1. n \in Nat /\ \A i \in 1 .. n : s[i] \in T
    BY <1>1
  <2>2. ASSUME NEW i \in 1 .. n, NEW x \in T PROVE x \o s[i] \in T
    <3>1. s[i] \in T
      BY <2>1
    <3>. QED
      BY <1>1, <3>1, ConcatProperties
  <2>3. <<>> \in T
    BY <1>1, EmptySeq
  <2>4. F \in [(1 .. n) \X T -> T]
    BY <2>2
  <2>5. \A i \in 1 .. n : \A x \in T : F[<<i, x>>] = x \o s[i]
    OBVIOUS
  <2> HIDE DEF F
  <2>6. PICK g : Solves(n, T, <<>>, F, g)
    BY <2>1, <2>3, <2>4, Solution, Zenon
  <2>7. ASSUME NEW i \in 1 .. n PROVE g[i] = g[i - 1] \o s[i]
    <3>1. i - 1 \in 0 .. n
      BY <2>1
    <3>2. g[i - 1] \in T
      BY <2>6, <3>1 DEF Solves
    <3>. QED
      BY <2>5, <2>6, <3>2 DEF Solves
  <2>. QED
    BY <1>1, <2>6, <2>7 DEF Joins, Solves
<1>. QED
  BY <1>1

\* What FlattenSeq computes is what its recursion says.
LEMMA FlattenIsJoin ==
    ASSUME NEW S, NEW s \in Seq(Seq(S)), NEW g, Joins(s, g)
    PROVE  FlattenSeq(s) = g[Len(s)]
<1>1. Len(s) \in Nat /\ \A i \in 1 .. Len(s) : s[i] \in Seq(S)
  OBVIOUS
<1>2. CASE Len(s) = 0
  <2>1. s = <<>>
    BY <1>2, EmptySeq
  <2>2. FlattenSeq(s) = s
    BY <1>2 DEF FlattenSeq
  <2>. QED
    BY <1>2, <2>1, <2>2 DEF Joins
<1>3. CASE Len(s) # 0
  <2> DEFINE n == Len(s)
             Sol(f) == f = [i \in 1 .. n |-> IF i = 1 THEN s[i] ELSE f[i - 1] \o s[i]]
             h == [i \in 1 .. n |-> g[i]]
             f == CHOOSE x : Sol(x)
  <2>1. FlattenSeq(s) = f[n]
    BY <1>3 DEF FlattenSeq
  <2>2. n \in Nat /\ 1 \in 1 .. n
    BY <1>1, <1>3
  <2>3. g[1] = s[1]
    <3>0. 1 - 1 = 0
      OBVIOUS
    <3>1. g[1] = g[1 - 1] \o s[1] /\ g[0] = <<>>
      BY <2>2, Zenon DEF Joins
    <3>2. s[1] \in Seq(S)
      BY <1>1, <2>2
    <3>3. <<>> \o s[1] = s[1]
      BY <3>2, ConcatEmptySeq
    <3>4. g[1] = <<>> \o s[1]
      BY <3>0, <3>1, Zenon
    <3>. QED
      BY <3>3, <3>4, Zenon
  <2>4. \A i \in 1 .. n : i # 1 => i - 1 \in 1 .. n /\ h[i - 1] = g[i - 1]
    BY <2>2
  <2>5. ASSUME NEW i \in 1 .. n PROVE g[i] = IF i = 1 THEN s[i] ELSE h[i - 1] \o s[i]
    BY <2>3, <2>4 DEF Joins
  <2>6. Sol(h)
    BY <2>5
  <2>7. Sol(f)
    <3> HIDE DEF Sol, h
    <3>. QED
      BY <2>6
  <2> HIDE DEF f
  <2>8. f = [i \in 1 .. n |-> IF i = 1 THEN s[i] ELSE f[i - 1] \o s[i]]
    BY <2>7
  <2>9. \A i \in 1 .. n : f[i] = IF i = 1 THEN s[i] ELSE f[i - 1] \o s[i]
    BY <2>8
  <2> DEFINE f0 == [i \in 0 .. n |-> IF i = 0 THEN <<>> ELSE f[i]]
  <2>10. f0[0] = g[0] /\ \A i \in 1 .. n : f0[i] = f[i]
    BY <2>2 DEF Joins
  <2> HIDE DEF f0
  <2>11. ASSUME NEW i \in 1 .. n, f0[i - 1] = g[i - 1] PROVE f0[i] = g[i]
    <3>1. CASE i = 1
      BY <2>2, <2>3, <2>9, <2>10, <3>1
    <3>2. CASE i # 1
      <4>1. i - 1 \in 1 .. n /\ f0[i - 1] = f[i - 1]
        BY <2>2, <2>10, <3>2
      <4>2. f0[i] = f[i] /\ f[i] = f[i - 1] \o s[i]
        BY <2>9, <2>10, <3>2
      <4>3. f[i - 1] = g[i - 1]
        BY <2>11, <4>1
      <4>4. g[i] = g[i - 1] \o s[i]
        BY Zenon DEF Joins
      <4>. QED
        BY <4>2, <4>3, <4>4, Zenon
    <3>. QED
      BY <3>1, <3>2
  <2>12. \A i \in 0 .. n : f0[i] = g[i]
    <3>1. AgreeStepwise(n, f0, g)
      BY <2>10, <2>11 DEF AgreeStepwise
    <3>2. Agree(n, f0, g)
      BY <2>2, <3>1, SameSolution, Zenon
    <3>. QED
      BY <3>2 DEF Agree
  <2>13. n \in 1 .. n /\ n \in 0 .. n
    BY <1>1, <1>3
  <2>14. f[n] = g[n]
    BY <2>10, <2>12, <2>13
  <2>. QED
    BY <2>1, <2>14
<1>. QED
  BY <1>2, <1>3

\* The joins of the first k items are the first k joins.
LEMMA FlattenTake ==
    ASSUME NEW S, NEW s \in Seq(Seq(S)), NEW g, Joins(s, g), NEW k \in 0 .. Len(s)
    PROVE  FlattenSeq(SubSeq(s, 1, k)) = g[k]
<1> DEFINE t == SubSeq(s, 1, k)
           h == [i \in 0 .. k |-> g[i]]
<1>1. t \in Seq(Seq(S)) /\ Len(t) = k /\ k \in Nat /\ \A i \in 1 .. k : t[i] = s[i]
  OBVIOUS
<1>2. h[0] = <<>> /\ \A i \in 0 .. k : h[i] = g[i]
  BY <1>1 DEF Joins
<1>3. ASSUME NEW i \in 1 .. k PROVE h[i] = h[i - 1] \o t[i]
  <2>1. i \in 1 .. Len(s) /\ i - 1 \in 0 .. k /\ i \in 0 .. k
    BY <1>1
  <2>. QED
    BY <1>1, <1>2, <2>1 DEF Joins
<1>4. Joins(t, h)
  BY <1>1, <1>2, <1>3 DEF Joins
<1>5. h[k] = g[k]
  BY <1>1
<1> HIDE DEF t, h
<1>. QED
  BY <1>1, <1>4, <1>5, FlattenIsJoin DEF t

\* The joins grow at their end.
LEMMA JoinsGrow ==
    ASSUME NEW S, NEW s \in Seq(Seq(S)), NEW g, Joins(s, g)
    PROVE  /\ \A i \in 0 .. Len(s) : g[i] \in Seq(S)
           /\ \A i, j \in 0 .. Len(s) :
                 i <= j => /\ Len(g[i]) <= Len(g[j])
                           /\ \A x \in 1 .. Len(g[i]) : g[i][x] = g[j][x]
<1> DEFINE n == Len(s)
           Keeps(u, v) == /\ Len(u) <= Len(v)
                          /\ \A x \in 1 .. Len(u) : u[x] = v[x]
           A == {j \in Nat : j <= n => /\ g[j] \in Seq(S)
                                       /\ \A i \in 0 .. j : g[i] \in Seq(S) /\ Keeps(g[i], g[j])}
<1>1. n \in Nat /\ \A i \in 1 .. n : s[i] \in Seq(S)
  OBVIOUS
<1>2. 0 \in A
  <2>1. g[0] = <<>> /\ <<>> \in Seq(S)
    BY EmptySeq DEF Joins
  <2>2. Keeps(g[0], g[0])
    BY <2>1
  <2>3. \A i \in 0 .. 0 : i = 0
    OBVIOUS
  <2> HIDE DEF Keeps
  <2>. QED
    BY <2>1, <2>2, <2>3
<1>3. ASSUME NEW j \in Nat, j \in A PROVE j + 1 \in A
  <2> SUFFICES ASSUME j + 1 <= n
               PROVE  /\ g[j + 1] \in Seq(S)
                      /\ \A i \in 0 .. j + 1 : g[i] \in Seq(S) /\ Keeps(g[i], g[j + 1])
    OBVIOUS
  <2>1. g[j] \in Seq(S) /\ \A i \in 0 .. j : g[i] \in Seq(S) /\ Keeps(g[i], g[j])
    BY <1>1, <1>3
  <2>2. j + 1 \in 1 .. n /\ (j + 1) - 1 = j
    BY <1>1
  <2>3. g[j + 1] = g[j] \o s[j + 1] /\ s[j + 1] \in Seq(S)
    BY <1>1, <2>2 DEF Joins
  <2>4. g[j + 1] \in Seq(S) /\ Keeps(g[j], g[j + 1])
    <3> DEFINE u == g[j]
               v == s[j + 1]
    <3>1. u \in Seq(S) /\ v \in Seq(S) /\ g[j + 1] = u \o v
      BY <2>1, <2>3
    <3> HIDE DEF u, v
    <3>2. /\ u \o v \in Seq(S) /\ Len(u \o v) = Len(u) + Len(v) /\ Len(u) \in Nat /\ Len(v) \in Nat
          /\ \A x \in 1 .. Len(u) + Len(v) : x <= Len(u) => (u \o v)[x] = u[x]
      BY <3>1, ConcatProperties
    <3>3. Keeps(u, u \o v)
      BY <3>2
    <3> HIDE DEF Keeps
    <3>. QED
      BY <3>1, <3>2, <3>3 DEF u
  <2>5. ASSUME NEW i \in 0 .. j + 1 PROVE g[i] \in Seq(S) /\ Keeps(g[i], g[j + 1])
    <3>1. CASE i = j + 1
      BY <2>4, <3>1
    <3>2. CASE i # j + 1
      <4>1. i \in 0 .. j
        BY <3>2
      <4>2. g[i] \in Seq(S) /\ Keeps(g[i], g[j])
        BY <2>1, <4>1
      <4>. QED
        BY <2>1, <2>4, <4>2, SMTT(30)
    <3>. QED
      BY <3>1, <3>2
  <2>. QED
    BY <2>4, <2>5
<1>4. \A j \in Nat : j \in A
  <2> HIDE DEF A
  <2>. QED
    BY <1>2, <1>3, Induction
<1>. QED
  BY <1>1, <1>4

-----------------------------------------------------------------------------
(* Bytes from offset o to offset e *)

LEMMA Window ==
    ASSUME NEW S, NEW s \in Seq(S), NEW o \in Nat, NEW e \in Nat, o <= e, e <= Len(s)
    PROVE  /\ SubSeq(s, o + 1, e) \in Seq(S)
           /\ Len(SubSeq(s, o + 1, e)) = e - o
           /\ \A i \in 1 .. e - o : SubSeq(s, o + 1, e)[i] = s[o + i]
<1> DEFINE m == o + 1
<1>1. m \in Int /\ e \in Int /\ \A i \in m .. e : s[i] \in S
  <2>1. ASSUME NEW i \in m .. e PROVE s[i] \in S
    <3>1. i \in 1 .. Len(s)
      OBVIOUS
    <3>. QED
      BY <3>1, ElementOfSeq
  <2>. QED
    BY <2>1
<1>2. o = m - 1 /\ m \in 1 .. e + 1
  OBVIOUS
<1> HIDE DEF m
<1>3. /\ SubSeq(s, m, e) \in Seq(S)
      /\ Len(SubSeq(s, m, e)) = IF m <= e THEN e - m + 1 ELSE 0
      /\ \A i \in 1 .. e - m + 1 : SubSeq(s, m, e)[i] = s[m + i - 1]
  BY <1>1, SubSeqProperties
<1>4. e - o = e - m + 1 /\ \A i \in 1 .. e - o : o + i = m + i - 1
  BY <1>1, <1>2
<1>5. Len(SubSeq(s, m, e)) = e - o /\ \A i \in 1 .. e - o : SubSeq(s, m, e)[i] = s[o + i]
  BY <1>1, <1>2, <1>3, <1>4
<1>. QED
  BY <1>3, <1>5 DEF m

LEMMA WindowIs ==
    ASSUME NEW S, NEW s \in Seq(S), NEW o \in Nat, NEW e \in Nat, o <= e, e <= Len(s),
           NEW t \in Seq(S), Len(t) = e - o, \A i \in 1 .. e - o : t[i] = s[o + i]
    PROVE  SubSeq(s, o + 1, e) = t
<1> DEFINE w == SubSeq(s, o + 1, e)
<1>1. w \in Seq(S) /\ Len(w) = Len(t) /\ \A i \in 1 .. Len(w) : w[i] = t[i]
  BY Window
<1> HIDE DEF w
<1>2. w = t
  BY <1>1, SeqEqual
<1>. QED
  BY <1>2 DEF w

LEMMA Concat ==
    ASSUME NEW S, NEW u \in Seq(S), NEW v \in Seq(S)
    PROVE  /\ u \o v \in Seq(S) /\ Len(u \o v) = Len(u) + Len(v)
           /\ Len(u) \in Nat /\ Len(v) \in Nat
           /\ \A i \in 1 .. Len(u) : (u \o v)[i] = u[i]
           /\ \A i \in 1 .. Len(v) : (u \o v)[Len(u) + i] = v[i]
<1>1. /\ u \o v \in Seq(S) /\ Len(u \o v) = Len(u) + Len(v) /\ Len(u) \in Nat /\ Len(v) \in Nat
      /\ \A i \in 1 .. Len(u) + Len(v) :
            (u \o v)[i] = IF i <= Len(u) THEN u[i] ELSE v[i - Len(u)]
  BY ConcatProperties
<1> DEFINE w == u \o v
           a == Len(u)
           b == Len(v)
<1> HIDE DEF w, a, b
<1>2. a \in Nat /\ b \in Nat /\ \A i \in 1 .. a + b : w[i] = IF i <= a THEN u[i] ELSE v[i - a]
  BY <1>1 DEF w, a, b
<1>3. ASSUME NEW i \in 1 .. b PROVE w[a + i] = v[i]
  <2>1. a + i \in 1 .. a + b /\ ~(a + i <= a) /\ (a + i) - a = i
    BY <1>2
  <2>. QED
    BY <1>2, <2>1
<1>4. \A i \in 1 .. a : w[i] = u[i]
  BY <1>2
<1>. QED
  BY <1>1, <1>3, <1>4 DEF w, a, b

\* b is the start of the bytes q.
IsCut(b, q) == Len(b) \in 0 .. Len(q) /\ b = SubSeq(q, 1, Len(b))

\* Where block k + 1 of s starts, b holds its bytes, as far as b goes.
HoldsBlock(b, s, g, k) ==
    /\ Len(g[k]) \in Nat /\ Len(s[k + 1]) \in Nat
    /\ Len(g[k + 1]) = Len(g[k]) + Len(s[k + 1])
    /\ \A x \in 1 .. Len(s[k + 1]) :
          Len(g[k]) + x <= Len(b) => b[Len(g[k]) + x] = s[k + 1][x]

LEMMA AtBlock ==
    ASSUME NEW S, NEW s \in Seq(Seq(S)), NEW g, Joins(s, g), NEW b, IsCut(b, g[Len(s)]),
           NEW k \in 0 .. Len(s) - 1
    PROVE  HoldsBlock(b, s, g, k)
<1> DEFINE n == Len(s)
           r == Len(b)
           q == g[n]
           u == g[k]
           v == s[k + 1]
           w == g[k + 1]
<1>1. n \in Nat /\ k \in 0 .. n /\ k + 1 \in 0 .. n /\ k + 1 \in 1 .. n /\ n \in 0 .. n
      /\ (k + 1) - 1 = k /\ k + 1 <= n
  OBVIOUS
<1>2. q \in Seq(S) /\ u \in Seq(S) /\ w \in Seq(S) /\ v \in Seq(S)
  BY <1>1, JoinsGrow
<1>3. Len(w) <= Len(q) /\ \A x \in 1 .. Len(w) : w[x] = q[x]
  BY <1>1, JoinsGrow, SMTT(30)
<1>4. w = u \o v
  BY <1>1, Zenon DEF Joins
<1>5. r \in 0 .. Len(q) /\ b = SubSeq(q, 1, r)
  BY DEF IsCut
<1> HIDE DEF n, q, u, v, w, r
<1>6. /\ Len(w) = Len(u) + Len(v) /\ Len(u) \in Nat /\ Len(v) \in Nat
      /\ \A i \in 1 .. Len(v) : w[Len(u) + i] = v[i]
  BY <1>2, <1>4, Concat
<1>7. b \in Seq(S) /\ \A i \in 1 .. r : b[i] = q[i]
  <2>1. r \in Nat /\ r <= Len(q) /\ 0 <= r /\ 0 \in Nat /\ 0 + 1 = 1 /\ r - 0 = r
        /\ \A i \in 1 .. r : 0 + i = i
    BY <1>2, <1>5
  <2>2. /\ SubSeq(q, 0 + 1, r) \in Seq(S) /\ Len(SubSeq(q, 0 + 1, r)) = r - 0
        /\ \A i \in 1 .. r - 0 : SubSeq(q, 0 + 1, r)[i] = q[0 + i]
    BY <1>2, <2>1, Window
  <2>. QED
    BY <1>5, <2>1, <2>2
<1>8. ASSUME NEW x \in 1 .. Len(v), Len(u) + x <= r PROVE b[Len(u) + x] = v[x]
  <2>1. Len(u) + x \in 1 .. r /\ Len(u) + x \in 1 .. Len(w)
    BY <1>5, <1>6, <1>8
  <2>. QED
    BY <1>3, <1>6, <1>7, <2>1
<1>. QED
  BY <1>6, <1>8 DEF HoldsBlock, r, u, v, w

-----------------------------------------------------------------------------
(* Lists *)

\* The bytes of an item with its length before it.
LEMMA Prefixed ==
    ASSUME NEW p \in Seq(Nat)
    PROVE  /\ <<Len(p)>> \o p \in Seq(Nat) /\ Len(<<Len(p)>> \o p) = 1 + Len(p)
           /\ Len(p) \in Nat /\ (<<Len(p)>> \o p)[1] = Len(p)
           /\ \A i \in 1 .. Len(p) : (<<Len(p)>> \o p)[1 + i] = p[i]
<1>1. <<Len(p)>> \in Seq(Nat) /\ Len(<<Len(p)>>) = 1 /\ <<Len(p)>>[1] = Len(p) /\ Len(p) \in Nat
  OBVIOUS
<1>2. ASSUME NEW u \in Seq(Nat), Len(u) = 1, u[1] = Len(p)
      PROVE  /\ u \o p \in Seq(Nat) /\ Len(u \o p) = 1 + Len(p) /\ (u \o p)[1] = Len(p)
             /\ \A i \in 1 .. Len(p) : (u \o p)[1 + i] = p[i]
  <2>1. u \o p \in Seq(Nat) /\ Len(u \o p) = Len(u) + Len(p)
    BY ConcatProperties
  <2>2. \A i \in 1 .. Len(u) : (u \o p)[i] = u[i]
    BY Concat
  <2>3. \A i \in 1 .. Len(p) : (u \o p)[Len(u) + i] = p[i]
    BY Concat
  <2>4. 1 \in 1 .. Len(u)
    BY <1>2
  <2>. QED
    BY <1>2, <2>1, <2>2, <2>3, <2>4
<1>. QED
  BY <1>1, <1>2

\* TakeItem finds the item that starts at offset o, if all of it is there.
LEMMA TakesItem ==
    ASSUME NEW b \in Seq(Nat), NEW o \in Nat, o <= Len(b), NEW p \in Seq(Nat),
           o + 1 <= Len(b) => b[o + 1] = Len(p),
           \A i \in 1 .. Len(p) : o + 1 + i <= Len(b) => b[o + 1 + i] = p[i]
    PROVE  TakeItem(b, o) = IF o + 1 + Len(p) <= Len(b)
                            THEN [ok |-> TRUE, item |-> p, end |-> o + 1 + Len(p)]
                            ELSE [ok |-> FALSE]
<1>1. Len(p) \in Nat /\ Len(b) \in Nat
  OBVIOUS
<1>2. CASE o + 1 > Len(b)
  <2>1. ~(o + 1 + Len(p) <= Len(b))
    BY <1>1, <1>2
  <2>. QED
    BY <1>2, <2>1 DEF TakeItem
<1>3. CASE o + 1 <= Len(b) /\ o + 1 + Len(p) > Len(b)
  <2>1. b[o + 1] = Len(p) /\ ~(o + 1 + Len(p) <= Len(b))
    BY <1>1, <1>3
  <2>. QED
    BY <1>3, <2>1 DEF TakeItem
<1>4. CASE o + 1 <= Len(b) /\ o + 1 + Len(p) <= Len(b)
  <2> DEFINE q == o + 1
             e == o + 1 + Len(p)
  <2>1. b[o + 1] = Len(p) /\ ~(o + 1 > Len(b)) /\ ~(o + 1 + Len(p) > Len(b))
    BY <1>1, <1>4
  <2>2. /\ q \in Nat /\ e \in Nat /\ q <= e /\ e <= Len(b) /\ Len(p) = e - q
        /\ q + 1 = o + 2
    BY <1>1, <1>4
  <2>3. ASSUME NEW i \in 1 .. e - q PROVE p[i] = b[q + i]
    <3>1. i \in 1 .. Len(p) /\ o + 1 + i <= Len(b) /\ q + i = o + 1 + i
      BY <1>1, <1>4
    <3>. QED
      BY <3>1
  <2> HIDE DEF q, e
  <2>4. SubSeq(b, q + 1, e) = p
    BY <2>2, <2>3, WindowIs
  <2>5. TakeItem(b, o) = [ok |-> TRUE, item |-> SubSeq(b, o + 2, o + 1 + Len(p)),
                          end |-> o + 1 + Len(p)]
    BY <2>1 DEF TakeItem
  <2>6. SubSeq(b, o + 2, o + 1 + Len(p)) = p
    BY <2>2, <2>4 DEF e
  <2>. QED
    BY <1>4, <2>5, <2>6
<1>. QED
  BY <1>1, <1>2, <1>3, <1>4

\* The items of the list as the bytes hold them.
BlocksOf(j, p) == IF j = "hashes" THEN p ELSE [i \in DOMAIN p |-> <<Len(p[i])>> \o p[i]]

LEMMA BlocksType ==
    ASSUME NEW j, NEW p \in Seq(Seq(Nat))
    PROVE  /\ BlocksOf(j, p) \in Seq(Seq(Nat)) /\ Len(BlocksOf(j, p)) = Len(p)
           /\ j # "hashes" => \A i \in 1 .. Len(p) : BlocksOf(j, p)[i] = <<Len(p[i])>> \o p[i]
<1>1. CASE j = "hashes"
  <2>1. BlocksOf(j, p) = p
    BY <1>1 DEF BlocksOf
  <2>. QED
    BY <1>1, <2>1
<1>2. CASE j # "hashes"
  <2> DEFINE n == Len(p)
             f == [i \in 1 .. n |-> <<Len(p[i])>> \o p[i]]
  <2>1. n \in Nat /\ DOMAIN p = 1 .. n /\ \A i \in 1 .. n : p[i] \in Seq(Nat)
    OBVIOUS
  <2>2. BlocksOf(j, p) = f
    BY <1>2, <2>1 DEF BlocksOf
  <2>3. \A i \in 1 .. n : <<Len(p[i])>> \o p[i] \in Seq(Nat)
    BY <2>1, Prefixed
  <2>4. f \in [1 .. n -> Seq(Nat)]
    BY <2>3
  <2>5. \A i \in 1 .. n : f[i] = <<Len(p[i])>> \o p[i]
    OBVIOUS
  <2> HIDE DEF f, n
  <2>6. f \in Seq(Seq(Nat)) /\ Len(f) = n
    BY <2>1, <2>4, FcnIsSeq
  <2>. QED
    BY <2>2, <2>5, <2>6 DEF n
<1>. QED
  BY <1>1, <1>2, Zenon

\* A list: g holds the bytes of its first items; the loop stands at the end of
\* one of them, and ends where the next one is not there in full.
ListAt(g) ==
    /\ packed \in Seq(Seq(Nat))
    /\ job = "hashes" => \A i \in 1 .. Len(packed) : Len(packed[i]) = HashLen
    /\ Joins(BlocksOf(job, packed), g)
    /\ IsCut(raw, g[Len(packed)])
    /\ out \in Seq(Seq(Nat)) /\ Len(out) <= Len(packed)
    /\ \A i \in 1 .. Len(out) : out[i] = packed[i]
    /\ off = Len(g[Len(out)]) /\ off <= Len(raw)
    /\ pc \in {"loop", "ok"}
    /\ (pc = "ok" /\ Len(out) < Len(packed)) => Len(g[Len(out) + 1]) > Len(raw)

ListInv == job \in {"list", "keys", "hashes"} => \E g : ListAt(g)

LEMMA ListFacts ==
    ASSUME NEW g, ListAt(g), NEW b, b = BlocksOf(job, packed), NEW n, n = Len(packed), NEW k, k = Len(out)
    PROVE  /\ n \in Nat /\ k \in 0 .. n /\ b \in Seq(Seq(Nat)) /\ Len(b) = n /\ Joins(b, g)
           /\ g[n] \in Seq(Nat) /\ raw \in Seq(Nat) /\ Len(raw) \in Nat /\ off \in Nat
           /\ k = n => off = Len(raw)
<1>1. packed \in Seq(Seq(Nat)) /\ out \in Seq(Seq(Nat)) /\ Len(out) <= Len(packed)
  BY DEF ListAt
<1>2. n \in Nat /\ k \in 0 .. n
  BY <1>1
<1>3. b \in Seq(Seq(Nat)) /\ Len(b) = n
  BY <1>1, BlocksType
<1>4. Joins(b, g)
  BY DEF ListAt
<1>5. g[n] \in Seq(Nat) /\ g[k] \in Seq(Nat)
  BY <1>2, <1>3, <1>4, JoinsGrow
<1>6. Len(raw) \in 0 .. Len(g[n]) /\ raw = SubSeq(g[n], 1, Len(raw)) /\ off = Len(g[k]) /\ off <= Len(raw)
  BY DEF ListAt, IsCut
<1>7. Len(raw) \in Nat /\ off \in Nat
  BY <1>5, <1>6
<1>8. raw \in Seq(Nat)
  <2> DEFINE q == g[n]
             r == Len(raw)
  <2>1. q \in Seq(Nat) /\ r \in Nat /\ 0 \in Nat /\ 0 <= r /\ r <= Len(q)
    BY <1>5, <1>6, <1>7
  <2> HIDE DEF q, r
  <2>2. SubSeq(q, 0 + 1, r) \in Seq(Nat)
    BY <2>1, Window
  <2>3. SubSeq(q, 1, r) \in Seq(Nat)
    BY <2>2
  <2>. QED
    BY <1>6, <2>3 DEF q, r
<1>9. k = n => off = Len(raw)
  BY <1>5, <1>6, <1>7
<1>. QED
  BY <1>2, <1>3, <1>4, <1>5, <1>7, <1>8, <1>9

\* One more item.
LEMMA ListGrows ==
    ASSUME NEW g, ListAt(g), job \in {"list", "keys", "hashes"}, Len(out) < Len(packed),
           Len(g[Len(out) + 1]) <= Len(raw),
           out' = Append(out, packed[Len(out) + 1]), off' = Len(g[Len(out) + 1]),
           pc' = "loop", UNCHANGED <<job, packed, raw>>
    PROVE  ListAt(g)'
<1> DEFINE k == Len(out)
           c == packed[k + 1]
<1>1. packed \in Seq(Seq(Nat)) /\ out \in Seq(Seq(Nat)) /\ \A i \in 1 .. k : out[i] = packed[i]
  BY DEF ListAt
<1>2. k \in Nat /\ k + 1 \in 1 .. Len(packed) /\ Len(packed) \in Nat
  BY <1>1
<1>3. c \in Seq(Nat)
  BY <1>1, <1>2, ElementOfSeq
<1>4. out' = Append(out, c)
  OBVIOUS
<1> HIDE DEF c
<1>5. /\ out' \in Seq(Seq(Nat)) /\ Len(out') = k + 1
      /\ \A i \in 1 .. k : out'[i] = out[i]
      /\ out'[k + 1] = c
  BY <1>1, <1>3, <1>4, AppendProperties
<1>6. \A i \in 1 .. k + 1 : out'[i] = packed[i]
  BY <1>1, <1>2, <1>5 DEF c
<1>7. Len(out') <= Len(packed') /\ off' = Len(g[Len(out')]) /\ off' <= Len(raw')
  BY <1>2, <1>5
<1>. QED
  BY <1>5, <1>6, <1>7 DEF ListAt

\* The next item is not there in full.
LEMMA ListStops ==
    ASSUME NEW g, ListAt(g), Len(out) < Len(packed) => Len(g[Len(out) + 1]) > Len(raw),
           pc' = "ok", UNCHANGED <<job, packed, raw, off, out>>
    PROVE  ListAt(g)'
BY DEF ListAt

\* The loops that take items with a length before them.
LEMMA ItemsStep ==
    ASSUME NEW g, ListAt(g), NEW j \in {"list", "keys"}, ParseItems(j)
    PROVE  ListAt(g)'
<1> DEFINE b == BlocksOf(job, packed)
           n == Len(packed)
           k == Len(out)
<1>1. job = j /\ pc = "loop" /\ UNCHANGED <<job, packed, raw>> /\ job # "hashes"
  BY DEF ParseItems
<1>2. /\ n \in Nat /\ k \in 0 .. n /\ b \in Seq(Seq(Nat)) /\ Len(b) = n /\ Joins(b, g)
      /\ g[n] \in Seq(Nat) /\ raw \in Seq(Nat) /\ Len(raw) \in Nat /\ off \in Nat
      /\ k = n => off = Len(raw)
  BY ListFacts
<1>3. CASE k = n
  <2>1. off + 1 > Len(raw)
    BY <1>2, <1>3
  <2>2. ~TakeItem(raw, off).ok
    BY <2>1 DEF TakeItem
  <2>3. pc' = "ok" /\ UNCHANGED <<off, out>>
    BY <2>2 DEF ParseItems
  <2>4. ~(k < n)
    BY <1>2, <1>3
  <2>. QED
    BY <1>1, <2>3, <2>4, ListStops
<1>4. CASE k # n
  <2> DEFINE p == packed[k + 1]
             r == Len(raw)
  <2>1. k \in 0 .. n - 1 /\ k + 1 \in 1 .. n /\ k < n
    BY <1>2, <1>4
  <2>2. p \in Seq(Nat) /\ b[k + 1] = <<Len(p)>> \o p
    <3>1. packed \in Seq(Seq(Nat))
      BY DEF ListAt
    <3>. QED
      BY <1>1, <2>1, <3>1, BlocksType, ElementOfSeq
  <2>3. IsCut(raw, g[Len(b)]) /\ off = Len(g[k]) /\ off <= r
    BY <1>2 DEF ListAt
  <2> HIDE DEF b, p
  <2>4. HoldsBlock(raw, b, g, k)
    <3>1. k \in 0 .. Len(b) - 1
      BY <1>2, <2>1
    <3>. QED
      BY <1>2, <2>3, <3>1, AtBlock, Zenon
  <2>5. /\ Len(b[k + 1]) = 1 + Len(p) /\ Len(p) \in Nat /\ b[k + 1][1] = Len(p)
        /\ \A i \in 1 .. Len(p) : b[k + 1][1 + i] = p[i]
    BY <2>2, Prefixed
  <2>6. Len(g[k + 1]) = off + 1 + Len(p)
    <3>1. Len(g[k + 1]) = Len(g[k]) + Len(b[k + 1])
      BY <2>4, Zenon DEF HoldsBlock
    <3>2. Len(g[k + 1]) = off + (1 + Len(p))
      BY <2>3, <2>5, <3>1, Zenon
    <3>. QED
      BY <1>2, <2>5, <3>2
  <2>7. off + 1 <= r => raw[off + 1] = Len(p)
    <3>1. 1 \in 1 .. Len(b[k + 1])
      BY <2>5
    <3>. QED
      BY <2>3, <2>4, <2>5, <3>1 DEF HoldsBlock
  <2>8. ASSUME NEW i \in 1 .. Len(p), off + 1 + i <= r PROVE raw[off + 1 + i] = p[i]
    <3>1. 1 + i \in 1 .. Len(b[k + 1]) /\ off + (1 + i) = off + 1 + i
      BY <1>2, <2>5
    <3>. QED
      BY <2>3, <2>4, <2>5, <2>8, <3>1 DEF HoldsBlock
  <2>9. TakeItem(raw, off) = IF off + 1 + Len(p) <= Len(raw)
                             THEN [ok |-> TRUE, item |-> p, end |-> off + 1 + Len(p)]
                             ELSE [ok |-> FALSE]
    BY <1>2, <2>2, <2>3, <2>7, <2>8, TakesItem
  <2>10. CASE Len(g[k + 1]) <= Len(raw)
    <3>1. TakeItem(raw, off) = [ok |-> TRUE, item |-> p, end |-> off + 1 + Len(p)]
      BY <2>6, <2>9, <2>10
    <3>2. out' = Append(out, p) /\ off' = Len(g[k + 1]) /\ pc' = pc
      BY <2>6, <3>1 DEF ParseItems
    <3>. QED
      BY <1>1, <2>1, <2>10, <3>2, ListGrows DEF p
  <2>11. CASE ~(Len(g[k + 1]) <= Len(raw))
    <3>1. TakeItem(raw, off) = [ok |-> FALSE]
      BY <2>6, <2>9, <2>11
    <3>2. pc' = "ok" /\ UNCHANGED <<off, out>>
      BY <3>1 DEF ParseItems
    <3>3. Len(g[k + 1]) > Len(raw)
      BY <1>2, <2>5, <2>6, <2>11
    <3>. QED
      BY <1>1, <3>2, <3>3, ListStops
  <2>. QED
    BY <2>10, <2>11
<1>. QED
  BY <1>3, <1>4

LEMMA HashesStep ==
    ASSUME NEW g, ListAt(g), ParseChangeHashes
    PROVE  ListAt(g)'
<1> DEFINE n == Len(packed)
           k == Len(out)
<1>1. job = "hashes" /\ pc = "loop" /\ UNCHANGED <<job, packed, raw>>
  BY DEF ParseChangeHashes
<1>0. BlocksOf(job, packed) = packed
  BY <1>1 DEF BlocksOf
<1>2. /\ n \in Nat /\ k \in 0 .. n /\ packed \in Seq(Seq(Nat)) /\ Joins(packed, g)
      /\ raw \in Seq(Nat) /\ Len(raw) \in Nat /\ off \in Nat
      /\ k = n => off = Len(raw)
  BY <1>0, ListFacts
<1>3. HashLen \in Nat /\ HashLen > 0
  BY WireAssumption
<1>4. CASE k = n
  <2>1. ~(off + HashLen <= Len(raw)) /\ ~(k < n)
    BY <1>2, <1>3, <1>4
  <2>2. pc' = "ok" /\ UNCHANGED <<off, out>>
    BY <2>1 DEF ParseChangeHashes
  <2>. QED
    BY <1>1, <2>1, <2>2, ListStops
<1>5. CASE k # n
  <2> DEFINE p == packed[k + 1]
  <2>1. k \in 0 .. n - 1 /\ k + 1 \in 1 .. n /\ k < n
    BY <1>2, <1>5
  <2>2. p \in Seq(Nat) /\ Len(p) = HashLen
    BY <1>1, <1>2, <2>1, ElementOfSeq DEF ListAt
  <2>3. IsCut(raw, g[Len(packed)]) /\ off = Len(g[k]) /\ off <= Len(raw)
    BY DEF ListAt
  <2>4. HoldsBlock(raw, packed, g, k)
    BY <1>2, <2>1, <2>3, AtBlock, Zenon
  <2>5. Len(g[k + 1]) = Len(g[k]) + Len(p)
    BY <2>4, Zenon DEF HoldsBlock
  <2>6. Len(g[k + 1]) = off + HashLen
    BY <2>2, <2>3, <2>5, Zenon
  <2>7. \A x \in 1 .. HashLen : off + x <= Len(raw) => raw[off + x] = p[x]
    BY <2>2, <2>3, <2>4 DEF HoldsBlock
  <2>8. CASE off + HashLen <= Len(raw)
    <3> DEFINE e == off + HashLen
    <3>1. e \in Nat /\ off <= e /\ e <= Len(raw) /\ Len(p) = e - off
      BY <1>2, <1>3, <2>2, <2>8
    <3>2. \A i \in 1 .. e - off : p[i] = raw[off + i]
      BY <1>2, <1>3, <2>7, <2>8, SMTT(30)
    <3>3. out' = Append(out, SubSeq(raw, off + 1, e)) /\ off' = e /\ pc' = pc
      BY <2>8 DEF ParseChangeHashes
    <3> HIDE DEF p, e
    <3>4. SubSeq(raw, off + 1, e) = p
      BY <1>2, <2>2, <3>1, <3>2, WindowIs
    <3>5. Len(g[k + 1]) <= Len(raw) /\ off' = Len(g[k + 1]) /\ out' = Append(out, p)
      BY <2>6, <2>8, <3>3, <3>4 DEF e
    <3>. QED
      BY <1>1, <2>1, <3>3, <3>5, ListGrows DEF p
  <2>9. CASE ~(off + HashLen <= Len(raw))
    <3>1. pc' = "ok" /\ UNCHANGED <<off, out>>
      BY <2>9 DEF ParseChangeHashes
    <3>2. Len(g[k + 1]) > Len(raw)
      BY <1>2, <1>3, <2>6, <2>9
    <3>. QED
      BY <1>1, <3>1, <3>2, ListStops
  <2>. QED
    BY <2>8, <2>9
<1>. QED
  BY <1>4, <1>5

LEMMA WireTypes ==
    /\ Byte \subseteq Nat /\ Strings \subseteq Seq(Nat)
    /\ Hashes \subseteq Seq(Nat) /\ \A h \in Hashes : Len(h) = HashLen
<1>1. Byte \subseteq Nat
  BY WireAssumption DEF Byte
<1>2. Strings \subseteq Seq(Nat)
  BY <1>1, WireAssumption, SeqMonotonic
<1>3. ASSUME NEW h \in Hashes PROVE h \in Seq(Nat) /\ Len(h) = HashLen
  <2>1. HashLen \in Nat /\ h \in [1 .. HashLen -> Nat]
    BY <1>1, WireAssumption
  <2>. QED
    BY <2>1, FcnIsSeq
<1>. QED
  BY <1>1, <1>2, <1>3

LEMMA SeqOfType ==
    ASSUME NEW T, NEW n \in Nat, NEW s \in SeqOf(T, n)
    PROVE  s \in Seq(T)
<1>1. PICK m \in 0 .. n : s \in [1 .. m -> T]
  BY DEF SeqOf
<1>2. m \in Nat
  BY <1>1
<1>. QED
  BY <1>1, <1>2, FcnIsSeq

LEMMA CutIsCut ==
    ASSUME NEW q \in Seq(Nat), NEW b \in Cut(q)
    PROVE  b \in Seq(Nat) /\ IsCut(b, q)
<1>1. PICK m \in 0 .. Len(q) : b = SubSeq(q, 1, m)
  BY DEF Cut
<1>2. m \in Nat /\ 0 \in Nat /\ 0 <= m /\ m <= Len(q) /\ 0 + 1 = 1 /\ m - 0 = m
  OBVIOUS
<1>3. SubSeq(q, 0 + 1, m) \in Seq(Nat) /\ Len(SubSeq(q, 0 + 1, m)) = m - 0
  BY <1>2, Window
<1>. QED
  BY <1>1, <1>2, <1>3 DEF IsCut

LEMMA ListStart ==
    ASSUME off = 0, out = <<>>, pc = "loop", NEW q,
           packed \in Seq(Seq(Nat)), q = FlattenSeq(BlocksOf(job, packed)), raw \in Cut(q),
           job = "hashes" => \A i \in 1 .. Len(packed) : Len(packed[i]) = HashLen
    PROVE  \E g : ListAt(g)
<1> DEFINE b == BlocksOf(job, packed)
<1>1. b \in Seq(Seq(Nat)) /\ Len(b) = Len(packed)
  BY BlocksType
<1>2. q = FlattenSeq(b)
  OBVIOUS
<1> HIDE DEF b
<1>3. PICK g : g \in [0 .. Len(b) -> Seq(Nat)] /\ Joins(b, g)
  BY <1>1, JoinsExist
<1>4. q = g[Len(b)] /\ q \in Seq(Nat)
  <2>1. FlattenSeq(b) = g[Len(b)]
    BY <1>1, <1>3, FlattenIsJoin
  <2>2. Len(b) \in 0 .. Len(b)
    BY <1>1
  <2>. QED
    BY <1>2, <1>3, <2>1, <2>2
<1>5. IsCut(raw, q)
  BY <1>4, CutIsCut
<1>6. g[0] = <<>>
  BY <1>3 DEF Joins
<1>7. Len(<<>>) = 0 /\ <<>> \in Seq(Seq(Nat)) /\ Len(packed) \in Nat
  BY EmptySeq
<1>8. Len(raw) \in Nat
  BY <1>4, <1>5 DEF IsCut
<1>9. off = Len(g[Len(out)]) /\ off <= Len(raw) /\ Len(out) <= Len(packed)
  BY <1>6, <1>7, <1>8
<1>10. IsCut(raw, g[Len(packed)])
  BY <1>1, <1>4, <1>5
<1>11. ListAt(g)
  BY <1>3, <1>7, <1>9, <1>10 DEF ListAt, b
<1>. QED
  BY <1>11

LEMMA ListInit == WireInit \/ WireIdle => ListInv
<1> SUFFICES ASSUME WireInit, job \in {"list", "keys", "hashes"} PROVE \E g : ListAt(g)
  BY DEF ListInv, WireIdle
<1>1. off = 0 /\ out = <<>> /\ pc = "loop"
  BY DEF WireInit
<1>2. CASE job \in {"list", "keys"}
  <2>1. packed \in SeqOf(Strings, MaxItems) /\ raw \in Cut(EncodeLengthPrefixedList(packed))
    BY <1>2 DEF WireInit
  <2>2. packed \in Seq(Strings)
    BY <2>1, SeqOfType, WireAssumption
  <2>3. packed \in Seq(Seq(Nat))
    BY <2>2, WireTypes, SeqMonotonic
  <2>4. EncodeLengthPrefixedList(packed) = FlattenSeq(BlocksOf(job, packed))
    BY <1>2 DEF EncodeLengthPrefixedList, BlocksOf
  <2>5. job # "hashes"
    BY <1>2
  <2>. QED
    BY <1>1, <2>1, <2>3, <2>4, <2>5, ListStart
<1>3. CASE job = "hashes"
  <2>1. packed \in SeqOf(Hashes, MaxDeps) /\ raw \in Cut(EncodeChangeHashes(packed))
    BY <1>3 DEF WireInit
  <2>2. packed \in Seq(Hashes)
    BY <2>1, SeqOfType, WireAssumption
  <2>3. packed \in Seq(Seq(Nat))
    BY <2>2, WireTypes, SeqMonotonic
  <2>4. EncodeChangeHashes(packed) = FlattenSeq(BlocksOf(job, packed))
    BY <1>3 DEF EncodeChangeHashes, BlocksOf
  <2>5. \A i \in 1 .. Len(packed) : Len(packed[i]) = HashLen
    BY <2>2, WireTypes, ElementOfSeq
  <2>. QED
    BY <1>1, <2>1, <2>3, <2>4, <2>5, ListStart
<1>. QED
  BY <1>2, <1>3

LEMMA ListNext == ListInv /\ [WireNext]_wireVars => ListInv'
<1> SUFFICES ASSUME ListInv, [WireNext]_wireVars, job' \in {"list", "keys", "hashes"}
             PROVE  \E g : ListAt(g)'
  BY DEF ListInv
<1>1. job' = job
  BY DEF WireNext, wireVars, SplitChangeChunks, SplitDone, ParseRawChanges, ParseItems,
         ParseLengthPrefixedList, ObjKeys, ParseChangeHashes, ParseChangeInfo
<1>2. PICK g : ListAt(g)
  BY <1>1 DEF ListInv
<1>3. CASE UNCHANGED wireVars
  BY <1>2, <1>3 DEF wireVars, ListAt
<1>4. CASE ParseLengthPrefixedList
  BY <1>2, <1>4, ItemsStep DEF ParseLengthPrefixedList
<1>5. CASE ObjKeys
  BY <1>2, <1>5, ItemsStep DEF ObjKeys
<1>6. CASE ParseChangeHashes
  BY <1>2, <1>6, HashesStep
<1>7. CASE SplitChangeChunks \/ SplitDone \/ ParseRawChanges \/ ParseChangeInfo
  BY <1>1, <1>7 DEF SplitChangeChunks, SplitDone, ParseRawChanges, ParseChangeInfo
<1>. QED
  BY <1>3, <1>4, <1>5, <1>6, <1>7 DEF WireNext

LEMMA ListInvKeepsItems == ListInv => ListsLoseOnlyTheirEnd
<1> SUFFICES ASSUME ListInv, job \in {"list", "keys", "hashes"}, pc = "ok"
             PROVE  ListsLoseOnlyTheirEnd
  BY DEF ListsLoseOnlyTheirEnd
<1> DEFINE Enc(s) == IF job = "hashes" THEN EncodeChangeHashes(s)
                     ELSE EncodeLengthPrefixedList(s)
           b == BlocksOf(job, packed)
           n == Len(packed)
           k == Len(out)
<1>1. PICK g : ListAt(g)
  BY DEF ListInv
<1>2. /\ n \in Nat /\ k \in 0 .. n /\ b \in Seq(Seq(Nat)) /\ Len(b) = n /\ Joins(b, g)
      /\ Len(raw) \in Nat
  BY <1>1, ListFacts
<1>3. /\ packed \in Seq(Seq(Nat)) /\ out \in Seq(Seq(Nat))
      /\ k <= n /\ \A i \in 1 .. k : out[i] = packed[i]
      /\ k < n => Len(g[k + 1]) > Len(raw)
  BY <1>1 DEF ListAt
<1>4. IsPrefix(out, packed)
  <2>1. SubSeq(packed, 0 + 1, k) = out
    <3>1. 0 \in Nat /\ k \in Nat /\ 0 <= k /\ k - 0 = k /\ \A i \in 1 .. k : 0 + i = i
      BY <1>2
    <3>2. Len(out) = k - 0 /\ \A i \in 1 .. k - 0 : out[i] = packed[0 + i]
      BY <1>3, <3>1
    <3> HIDE DEF k, n
    <3>. QED
      BY <1>3, <3>1, <3>2, WindowIs DEF n
  <2>2. SubSeq(packed, 1, k) = out
    BY <2>1
  <2>3. SubSeq(out, 1, k) = out
    BY <1>3, SubSeqFull
  <2>. QED
    BY <1>3, <2>2, <2>3 DEF IsPrefix
<1>5. ASSUME NEW m \in 0 .. n, Len(Enc(SubSeq(packed, 1, m))) <= Len(raw)
      PROVE  m <= k
  <2> DEFINE t == SubSeq(packed, 1, m)
  <2>1. /\ t \in Seq(Seq(Nat)) /\ Len(t) = m /\ m \in Nat
        /\ \A i \in 1 .. m : t[i] = packed[i]
    BY <1>2, <1>3
  <2>2. Enc(t) = FlattenSeq(BlocksOf(job, t))
    BY DEF EncodeChangeHashes, EncodeLengthPrefixedList, BlocksOf
  <2>3. BlocksOf(job, t) = SubSeq(b, 1, m)
    <3> DEFINE c == BlocksOf(job, t)
    <3>1. c \in Seq(Seq(Nat)) /\ Len(c) = m
      BY <2>1, BlocksType
    <3>2. ASSUME NEW i \in 1 .. m PROVE c[i] = b[i]
      <4>1. i \in 1 .. n /\ i \in 1 .. Len(t) /\ t[i] = packed[i]
        BY <1>2, <2>1
      <4>2. CASE job = "hashes"
        BY <4>1, <4>2 DEF BlocksOf
      <4>3. CASE job # "hashes"
        <5>1. c[i] = <<Len(t[i])>> \o t[i]
          BY <2>1, <4>1, <4>3, BlocksType
        <5>2. b[i] = <<Len(packed[i])>> \o packed[i]
          BY <1>3, <4>1, <4>3, BlocksType
        <5>. QED
          BY <4>1, <5>1, <5>2, Zenon
      <4>. QED
        BY <4>2, <4>3
    <3>3. 0 \in Nat /\ 0 <= m /\ m <= Len(b) /\ m - 0 = m /\ \A i \in 1 .. m : 0 + i = i
      BY <1>2, <2>1
    <3>4. Len(c) = m - 0 /\ \A i \in 1 .. m - 0 : c[i] = b[0 + i]
      BY <3>1, <3>2, <3>3
    <3> HIDE DEF c, b
    <3>5. SubSeq(b, 0 + 1, m) = c
      BY <1>2, <2>1, <3>1, <3>3, <3>4, WindowIs
    <3>. QED
      BY <3>5 DEF c
  <2>4. Enc(t) = g[m]
    <3>1. m \in 0 .. Len(b)
      BY <1>2
    <3> HIDE DEF b, Enc, t
    <3>. QED
      BY <1>2, <2>2, <2>3, <3>1, FlattenTake
  <2>5. SUFFICES ASSUME ~(m <= k) PROVE FALSE
    OBVIOUS
  <2>6. k < n /\ k + 1 \in 0 .. Len(b) /\ m \in 0 .. Len(b) /\ k + 1 <= m
    BY <1>2, <2>1, <2>5
  <2>7. Len(g[k + 1]) <= Len(g[m]) /\ Len(g[k + 1]) \in Nat /\ Len(g[m]) \in Nat
    <3> HIDE DEF b
    <3>1. g[k + 1] \in Seq(Nat) /\ g[m] \in Seq(Nat) /\ Len(g[k + 1]) <= Len(g[m])
      BY <1>2, <2>6, JoinsGrow
    <3>. QED
      BY <3>1
  <2>8. Len(g[m]) <= Len(raw)
    BY <1>5, <2>4
  <2>. QED
    BY <1>2, <1>3, <2>6, <2>7, <2>8, SMTT(30)
<1>. QED
  BY <1>4, <1>5 DEF ListsLoseOnlyTheirEnd

\* ParseLengthPrefixedList, ParseChangeHashes and ObjKeys lose nothing but the
\* items that are cut off, for every list, every cut and every width.
THEOREM ListsKept == WireSpec => []ListsLoseOnlyTheirEnd
<1>1. WireSpec => []ListInv
  BY ListInit, ListNext, PTL DEF WireSpec
<1>. QED
  BY <1>1, ListInvKeepsItems, PTL

-----------------------------------------------------------------------------
(* The info of a change *)

\* q starts with u.
Starts(q, u) == Len(u) <= Len(q) /\ \A x \in 1 .. Len(u) : q[x] = u[x]

\* ... and then has v.
StartsWith(q, u, v) == Starts(q, u) /\ \A i \in 1 .. Len(v) : q[Len(u) + i] = v[i]

LEMMA StartsWithBoth ==
    ASSUME NEW q \in Seq(Nat), NEW u \in Seq(Nat), NEW v \in Seq(Nat), Starts(q, u \o v)
    PROVE  StartsWith(q, u, v)
<1> DEFINE w == u \o v
<1>1. /\ w \in Seq(Nat) /\ Len(w) = Len(u) + Len(v) /\ Len(u) \in Nat /\ Len(v) \in Nat
      /\ \A i \in 1 .. Len(u) : w[i] = u[i]
      /\ \A i \in 1 .. Len(v) : w[Len(u) + i] = v[i]
  BY Concat
<1>2. Len(w) <= Len(q) /\ \A x \in 1 .. Len(w) : q[x] = w[x]
  BY DEF Starts
<1> HIDE DEF w
<1>3. Starts(q, u)
  BY <1>1, <1>2 DEF Starts
<1>4. ASSUME NEW i \in 1 .. Len(v) PROVE q[Len(u) + i] = v[i]
  <2>1. Len(u) + i \in 1 .. Len(w)
    BY <1>1
  <2>. QED
    BY <1>1, <1>2, <2>1
<1>. QED
  BY <1>3, <1>4 DEF StartsWith

LEMMA ConcatLen ==
    ASSUME NEW u \in Seq(Nat), NEW v \in Seq(Nat), NEW w, w = u \o v
    PROVE  w \in Seq(Nat) /\ Len(w) = Len(u) + Len(v)
BY ConcatProperties

\* Hashes one after the other.
LEMMA HashBlocks ==
    ASSUME NEW s \in Seq(Hashes)
    PROVE  /\ FlattenSeq(s) \in Seq(Nat) /\ Len(FlattenSeq(s)) = Len(s) * HashLen
           /\ \A i \in 1 .. Len(s) : \A x \in 1 .. HashLen :
                 FlattenSeq(s)[(i - 1) * HashLen + x] = s[i][x]
<1> DEFINE n == Len(s)
           q == FlattenSeq(s)
<1>1. n \in Nat /\ s \in Seq(Seq(Nat)) /\ \A i \in 1 .. n : s[i] \in Seq(Nat) /\ Len(s[i]) = HashLen
  BY WireTypes, SeqMonotonic, ElementOfSeq
<1>2. HashLen \in Nat
  BY WireAssumption
<1>3. PICK g : g \in [0 .. n -> Seq(Nat)] /\ Joins(s, g)
  BY <1>1, JoinsExist
<1>4. q = g[n] /\ q \in Seq(Nat)
  BY <1>1, <1>3, FlattenIsJoin
<1>5. Len(q) \in Nat /\ IsCut(q, g[n])
  BY <1>4, SubSeqFull DEF IsCut
<1> HIDE DEF q
<1>6. ASSUME NEW k \in 0 .. n - 1 PROVE HoldsBlock(q, s, g, k)
  BY <1>1, <1>3, <1>5, AtBlock, Zenon
<1>7. \A i \in Nat : i <= n => Len(g[i]) = i * HashLen
  <2> DEFINE A == {i \in Nat : i <= n => Len(g[i]) = i * HashLen}
  <2>1. 0 \in A
    <3>1. Len(g[0]) = 0 /\ 0 * HashLen = 0
      BY <1>2, <1>3, EmptySeq DEF Joins
    <3>. QED
      BY <3>1
  <2>2. ASSUME NEW i \in Nat, i \in A PROVE i + 1 \in A
    <3> SUFFICES ASSUME i + 1 <= n PROVE Len(g[i + 1]) = (i + 1) * HashLen
      OBVIOUS
    <3>1. i \in 0 .. n - 1 /\ i + 1 \in 1 .. n /\ i <= n
      BY <1>1
    <3>2. Len(g[i]) = i * HashLen
      BY <2>2, <3>1
    <3>3. Len(g[i + 1]) = Len(g[i]) + Len(s[i + 1])
      BY <1>6, <3>1 DEF HoldsBlock
    <3>4. Len(s[i + 1]) = HashLen
      BY <1>1, <3>1
    <3>5. Len(g[i + 1]) = i * HashLen + HashLen
      BY <3>2, <3>3, <3>4, Zenon
    <3>6. i * HashLen + HashLen = (i + 1) * HashLen
      BY <1>2
    <3>. QED
      BY <3>5, <3>6, Zenon
  <2>3. \A i \in Nat : i \in A
    <3> HIDE DEF A
    <3>. QED
      BY <2>1, <2>2, Induction
  <2>. QED
    BY <2>3
<1>8. Len(q) = n * HashLen
  BY <1>1, <1>4, <1>7
<1>9. ASSUME NEW i \in 1 .. n, NEW x \in 1 .. HashLen PROVE q[(i - 1) * HashLen + x] = s[i][x]
  <2> DEFINE k == i - 1
             o == Len(g[k])
  <2>1. k \in 0 .. n - 1 /\ k + 1 = i /\ k \in Nat /\ k <= n /\ i \in Nat /\ i <= n
    BY <1>1
  <2>2. o = k * HashLen /\ Len(g[i]) = i * HashLen
    BY <1>7, <2>1
  <2>3. HoldsBlock(q, s, g, k)
    BY <1>6, <2>1
  <2>4. x \in 1 .. Len(s[k + 1]) /\ o \in Nat /\ Len(g[k + 1]) = o + HashLen
    BY <1>1, <2>1, <2>3 DEF HoldsBlock
  <2>5. Len(g[i]) <= Len(q)
    <3>1. i \in 0 .. Len(s) /\ Len(s) \in 0 .. Len(s) /\ i <= Len(s)
      BY <1>1, <2>1
    <3>2. Len(g[i]) <= Len(g[Len(s)])
      BY <1>1, <1>3, <3>1, JoinsGrow
    <3>. QED
      BY <1>4, <3>2
  <2>6. o + x <= Len(q)
    BY <1>2, <1>5, <2>1, <2>4, <2>5
  <2>7. q[o + x] = s[k + 1][x]
    BY <2>3, <2>4, <2>6 DEF HoldsBlock
  <2> HIDE DEF o
  <2>8. q[k * HashLen + x] = s[i][x]
    BY <2>1, <2>2, <2>7
  <2>. QED
    BY <2>8
<1>. QED
  BY <1>4, <1>8, <1>9 DEF q

\* Where the fields of a change info are.
InfoLayout(ci, q, La, Lm, Ld) ==
    /\ q \in Seq(Nat)
    /\ ci.hash \in Seq(Nat) /\ Len(ci.hash) = HashLen
    /\ ci.actor \in Seq(Nat) /\ Len(ci.actor) = La /\ La \in Nat
    /\ ci.message \in Seq(Nat) /\ Len(ci.message) = Lm /\ Lm \in Nat
    /\ ci.deps \in Seq(Hashes) /\ Len(ci.deps) = Ld /\ Ld \in Nat
    /\ Len(q) = HashLen + 5 + La + Lm + Ld * HashLen
    /\ \A i \in 1 .. HashLen : q[i] = ci.hash[i]
    /\ q[HashLen + 1] = ci.time /\ q[HashLen + 2] = ci.seq
    /\ q[HashLen + 3] = La
    /\ \A i \in 1 .. La : q[HashLen + 3 + i] = ci.actor[i]
    /\ q[HashLen + 4 + La] = Lm
    /\ \A i \in 1 .. Lm : q[HashLen + 4 + La + i] = ci.message[i]
    /\ q[HashLen + 5 + La + Lm] = Ld
    /\ \A i \in 1 .. Ld : \A x \in 1 .. HashLen :
          q[HashLen + 5 + La + Lm + (i - 1) * HashLen + x] = ci.deps[i][x]

LEMMA InfoIsLaidOut ==
    ASSUME NEW ci \in Infos
    PROVE  InfoLayout(ci, EncodeChangeInfo(ci), Len(ci.actor), Len(ci.message), Len(ci.deps))
<1> DEFINE La == Len(ci.actor)
           Lm == Len(ci.message)
           Ld == Len(ci.deps)
           F  == FlattenSeq(ci.deps)
           v1 == <<ci.time, ci.seq>>
           e1 == ci.hash \o v1
           e2 == e1 \o <<La>>
           e3 == e2 \o ci.actor
           e4 == e3 \o <<Lm>>
           e5 == e4 \o ci.message
           e6 == e5 \o <<Ld>>
           q  == e6 \o F
<1>1. /\ ci.hash \in Seq(Nat) /\ Len(ci.hash) = HashLen /\ ci.time \in Nat /\ ci.seq \in Nat
      /\ ci.actor \in Seq(Nat) /\ ci.message \in Seq(Nat) /\ HashLen \in Nat
  BY WireTypes, WireAssumption DEF Infos
<1>2. ci.deps \in Seq(Hashes)
  <2>1. ci.deps \in SeqOf(Hashes, MaxDeps)
    BY DEF Infos
  <2>. QED
    BY <2>1, WireAssumption, SeqOfType
<1>3. EncodeChangeInfo(ci) = q
  BY DEF EncodeChangeInfo
<1>4. La \in Nat /\ Lm \in Nat /\ Ld \in Nat
  BY <1>1, <1>2
<1>5. /\ F \in Seq(Nat) /\ Len(F) = Ld * HashLen
      /\ \A i \in 1 .. Ld : \A x \in 1 .. HashLen : F[(i - 1) * HashLen + x] = ci.deps[i][x]
  BY <1>2, HashBlocks
<1>6. v1 \in Seq(Nat) /\ Len(v1) = 2 /\ v1[1] = ci.time /\ v1[2] = ci.seq
  BY <1>1
<1>7. \A x \in Nat : <<x>> \in Seq(Nat) /\ Len(<<x>>) = 1 /\ <<x>>[1] = x
  OBVIOUS
<1> HIDE DEF F, v1, La, Lm, Ld
<1>c1. e1 = ci.hash \o v1
  OBVIOUS
<1>c2. e2 = e1 \o <<La>>
  OBVIOUS
<1>c3. e3 = e2 \o ci.actor
  OBVIOUS
<1>c4. e4 = e3 \o <<Lm>>
  OBVIOUS
<1>c5. e5 = e4 \o ci.message
  OBVIOUS
<1>c6. e6 = e5 \o <<Ld>>
  OBVIOUS
<1>c7. q = e6 \o F
  OBVIOUS
<1>l. La = Len(ci.actor) /\ Lm = Len(ci.message)
  BY DEF La, Lm
<1>n. /\ <<La>> \in Seq(Nat) /\ Len(<<La>>) = 1 /\ <<La>>[1] = La
      /\ <<Lm>> \in Seq(Nat) /\ Len(<<Lm>>) = 1 /\ <<Lm>>[1] = Lm
      /\ <<Ld>> \in Seq(Nat) /\ Len(<<Ld>>) = 1 /\ <<Ld>>[1] = Ld
  BY <1>4, <1>7
<1> HIDE DEF e1, e2, e3, e4, e5, e6, q
<1>8. e1 \in Seq(Nat) /\ Len(e1) = HashLen + 2
  <2>1. e1 \in Seq(Nat) /\ Len(e1) = Len(ci.hash) + Len(v1)
    BY <1>1, <1>6, <1>c1, ConcatLen, Zenon
  <2>. QED
    BY <1>1, <1>6, <2>1
<1>9. e2 \in Seq(Nat) /\ Len(e2) = HashLen + 3
  <2>1. e2 \in Seq(Nat) /\ Len(e2) = Len(e1) + Len(<<La>>)
    BY <1>8, <1>n, <1>c2, ConcatLen, Zenon
  <2>. QED
    BY <1>1, <1>8, <1>n, <2>1
<1>10. e3 \in Seq(Nat) /\ Len(e3) = HashLen + 3 + La
  <2>1. e3 \in Seq(Nat) /\ Len(e3) = Len(e2) + Len(ci.actor)
    BY <1>1, <1>9, <1>c3, ConcatLen, Zenon
  <2>. QED
    BY <1>1, <1>9, <1>l, <2>1
<1>11. e4 \in Seq(Nat) /\ Len(e4) = HashLen + 4 + La
  <2>1. e4 \in Seq(Nat) /\ Len(e4) = Len(e3) + Len(<<Lm>>)
    BY <1>10, <1>n, <1>c4, ConcatLen, Zenon
  <2>. QED
    BY <1>1, <1>4, <1>10, <1>n, <2>1
<1>12. e5 \in Seq(Nat) /\ Len(e5) = HashLen + 4 + La + Lm
  <2>1. e5 \in Seq(Nat) /\ Len(e5) = Len(e4) + Len(ci.message)
    BY <1>1, <1>11, <1>c5, ConcatLen, Zenon
  <2>. QED
    BY <1>1, <1>11, <1>l, <2>1
<1>13. e6 \in Seq(Nat) /\ Len(e6) = HashLen + 5 + La + Lm
  <2>1. e6 \in Seq(Nat) /\ Len(e6) = Len(e5) + Len(<<Ld>>)
    BY <1>12, <1>n, <1>c6, ConcatLen, Zenon
  <2>. QED
    BY <1>1, <1>4, <1>12, <1>n, <2>1
<1>14. q \in Seq(Nat) /\ Len(q) = Len(e6) + Len(F)
  BY <1>5, <1>13, <1>c7, ConcatLen, Zenon
<1>15. Starts(q, q)
  BY <1>14 DEF Starts
<1>16. StartsWith(q, e6, F)
  BY <1>5, <1>13, <1>14, <1>15, <1>c7, StartsWithBoth, Zenon
<1>17. StartsWith(q, e5, <<Ld>>)
  <2>1. Starts(q, e6)
    BY <1>16, Zenon DEF StartsWith
  <2>. QED
    BY <1>12, <1>n, <1>14, <2>1, <1>c6, StartsWithBoth, Zenon
<1>18. StartsWith(q, e4, ci.message)
  <2>1. Starts(q, e5)
    BY <1>17, Zenon DEF StartsWith
  <2>. QED
    BY <1>1, <1>11, <1>14, <2>1, <1>c5, StartsWithBoth, Zenon
<1>19. StartsWith(q, e3, <<Lm>>)
  <2>1. Starts(q, e4)
    BY <1>18, Zenon DEF StartsWith
  <2>. QED
    BY <1>10, <1>n, <1>14, <2>1, <1>c4, StartsWithBoth, Zenon
<1>20. StartsWith(q, e2, ci.actor)
  <2>1. Starts(q, e3)
    BY <1>19, Zenon DEF StartsWith
  <2>. QED
    BY <1>1, <1>9, <1>14, <2>1, <1>c3, StartsWithBoth, Zenon
<1>21. StartsWith(q, e1, <<La>>)
  <2>1. Starts(q, e2)
    BY <1>20, Zenon DEF StartsWith
  <2>. QED
    BY <1>8, <1>n, <1>14, <2>1, <1>c2, StartsWithBoth, Zenon
<1>22. StartsWith(q, ci.hash, v1)
  <2>1. Starts(q, e1)
    BY <1>21, Zenon DEF StartsWith
  <2>. QED
    BY <1>1, <1>6, <1>14, <2>1, <1>c1, StartsWithBoth, Zenon
<1>23. \A i \in 1 .. HashLen : q[i] = ci.hash[i]
  BY <1>1, <1>22 DEF StartsWith, Starts
<1>24. q[HashLen + 1] = ci.time /\ q[HashLen + 2] = ci.seq
  <2>1. 1 \in 1 .. Len(v1) /\ 2 \in 1 .. Len(v1)
    BY <1>6
  <2>. QED
    BY <1>1, <1>6, <1>22, <2>1 DEF StartsWith
<1>25. ASSUME NEW i \in 1 .. Ld, NEW x \in 1 .. HashLen
       PROVE  q[HashLen + 5 + La + Lm + (i - 1) * HashLen + x] = ci.deps[i][x]
  <2> DEFINE y == (i - 1) * HashLen + x
  <2>1. y \in 1 .. Ld * HashLen
    <3> DEFINE z == (i - 1) * HashLen
               d == Ld - i
    <3>0. i - 1 \in Nat /\ d \in Nat /\ Ld = (i - 1) + 1 + d
      BY <1>4
    <3>1. z \in Nat
      BY <1>1, <3>0
    <3>2. Ld * HashLen = z + HashLen + d * HashLen
      BY <1>1, <1>4, <3>0
    <3>3. d * HashLen \in Nat
      BY <1>1, <3>0
    <3>4. y = z + x
      OBVIOUS
    <3> DEFINE w == d * HashLen
               l == Ld * HashLen
    <3>5. l = z + HashLen + w /\ w \in Nat
      BY <3>2, <3>3
    <3> HIDE DEF z, y, w, d, l
    <3>6. y \in 1 .. l
      BY <1>1, <3>1, <3>4, <3>5
    <3>. QED
      BY <3>6 DEF l
  <2>2. q[Len(e6) + y] = F[y]
    BY <1>5, <1>16, <2>1 DEF StartsWith
  <2>3. F[y] = ci.deps[i][x]
    BY <1>5
  <2>4. Len(e6) + y = HashLen + 5 + La + Lm + (i - 1) * HashLen + x
    <3> DEFINE z == (i - 1) * HashLen
    <3>1. z \in Int /\ y = z + x
      BY <1>1, <1>4
    <3> HIDE DEF z, y
    <3>2. Len(e6) + y = HashLen + 5 + La + Lm + z + x
      BY <1>1, <1>4, <1>13, <3>1
    <3>. QED
      BY <3>2 DEF z
  <2>. QED
    BY <2>2, <2>3, <2>4
<1>26. q[HashLen + 3] = La
  <2>1. 1 \in 1 .. Len(<<La>>) /\ Len(e1) + 1 = HashLen + 3
    BY <1>1, <1>4, <1>n, <1>8
  <2>2. q[Len(e1) + 1] = <<La>>[1]
    BY <2>1, <1>21, Zenon DEF StartsWith
  <2>. QED
    BY <1>n, <2>1, <2>2
<1>27. q[HashLen + 4 + La] = Lm
  <2>1. 1 \in 1 .. Len(<<Lm>>) /\ Len(e3) + 1 = HashLen + 4 + La
    BY <1>1, <1>4, <1>n, <1>10
  <2>2. q[Len(e3) + 1] = <<Lm>>[1]
    BY <2>1, <1>19, Zenon DEF StartsWith
  <2>. QED
    BY <1>n, <2>1, <2>2
<1>28. q[HashLen + 5 + La + Lm] = Ld
  <2>1. 1 \in 1 .. Len(<<Ld>>) /\ Len(e5) + 1 = HashLen + 5 + La + Lm
    BY <1>1, <1>4, <1>n, <1>12
  <2>2. q[Len(e5) + 1] = <<Ld>>[1]
    BY <2>1, <1>17, Zenon DEF StartsWith
  <2>. QED
    BY <1>n, <2>1, <2>2
<1>29. \A i \in 1 .. La : q[HashLen + 3 + i] = ci.actor[i]
  BY <1>9, <1>20, <1>l DEF StartsWith
<1>30. \A i \in 1 .. Lm : q[HashLen + 4 + La + i] = ci.message[i]
  BY <1>11, <1>18, <1>l DEF StartsWith
<1>31. Len(q) = HashLen + 5 + La + Lm + Ld * HashLen
  BY <1>5, <1>13, <1>14
<1>32. InfoLayout(ci, q, La, Lm, Ld)
  BY <1>1, <1>2, <1>4, <1>14, <1>23, <1>24, <1>25, <1>26, <1>27, <1>28, <1>29, <1>30, <1>31
     DEF InfoLayout, La, Lm, Ld
<1>. QED
  BY <1>3, <1>32 DEF La, Lm, Ld

\* Reading the start b of the bytes of an info.
LEMMA InfoReads ==
    ASSUME NEW ci \in Infos, NEW b, IsCut(b, EncodeChangeInfo(ci))
    PROVE  IF b = EncodeChangeInfo(ci) THEN ChangeInfo(b) = [ok |-> TRUE, info |-> ci]
           ELSE ChangeInfo(b).ok = FALSE
<1> DEFINE H  == HashLen
           La == Len(ci.actor)
           Lm == Len(ci.message)
           Ld == Len(ci.deps)
           q  == EncodeChangeInfo(ci)
           fixed   == HashLen + 2
           actor   == TakeItem(b, fixed)
           message == TakeItem(b, actor.end)
           count   == b[message.end + 1]
           DepAt(i) == message.end + 1 + (i - 1) * HashLen
           bad == \/ Len(b) < fixed + 1 \/ ~actor.ok \/ ~message.ok
                  \/ message.end + 1 > Len(b)
                  \/ \E i \in 1 .. count : DepAt(i + 1) > Len(b)
           r == Len(b)
           f == H + 2
           a == f + 1 + La
           m == a + 1 + Lm
           l == Ld * HashLen
<1>1. InfoLayout(ci, q, La, Lm, Ld)
  BY InfoIsLaidOut
<1>2. H \in Nat /\ H > 0 /\ La \in Nat /\ Lm \in Nat /\ Ld \in Nat /\ ci.actor \in Seq(Nat) /\ ci.message \in Seq(Nat)
  BY <1>1, WireAssumption DEF InfoLayout
<1>a. q[HashLen + 3] = La /\ \A i \in 1 .. La : q[HashLen + 3 + i] = ci.actor[i]
  BY <1>1, Zenon DEF InfoLayout
<1>m. q[HashLen + 4 + La] = Lm /\ \A i \in 1 .. Lm : q[HashLen + 4 + La + i] = ci.message[i]
  BY <1>1, Zenon DEF InfoLayout
<1>3. r \in 0 .. Len(q) /\ b = SubSeq(q, 1, r) /\ q \in Seq(Nat)
  BY <1>1 DEF IsCut, InfoLayout
<1> HIDE DEF q
<1>4. b \in Seq(Nat) /\ r \in Nat /\ \A i \in 1 .. r : b[i] = q[i]
  <2>1. r \in Nat /\ r <= Len(q) /\ 0 <= r /\ 0 \in Nat /\ 0 + 1 = 1 /\ r - 0 = r
        /\ \A i \in 1 .. r : 0 + i = i
    BY <1>3
  <2>2. /\ SubSeq(q, 0 + 1, r) \in Seq(Nat)
        /\ \A i \in 1 .. r - 0 : SubSeq(q, 0 + 1, r)[i] = q[0 + i]
    BY <1>3, <2>1, Window
  <2>. QED
    BY <1>3, <2>1, <2>2
<1>5. (b = q) <=> (r = Len(q))
  BY <1>3, SubSeqFull
<1>6. ChangeInfo(b) = IF bad THEN [ok |-> FALSE]
       ELSE [ok |-> TRUE,
             info |-> [hash |-> SubSeq(b, 1, HashLen), time |-> b[HashLen + 1],
                       seq |-> b[fixed], actor |-> actor.item,
                       message |-> message.item,
                       deps |-> [i \in 1 .. count |->
                                   SubSeq(b, DepAt(i) + 1, DepAt(i + 1))]]]
  BY DEF ChangeInfo
<1>7. Len(q) = m + 1 + l /\ f \in Nat /\ a \in Nat /\ m \in Nat /\ l \in Nat
  <2>1. Len(q) = HashLen + 5 + La + Lm + l
    BY <1>1 DEF InfoLayout
  <2>2. l \in Nat
    BY <1>2
  <2> HIDE DEF l, La, Lm
  <2>. QED
    BY <1>2, <2>1, <2>2
<1> HIDE DEF l
<1>r. r \in Nat /\ r <= Len(q) /\ Len(q) \in Nat /\ f + 1 <= a /\ a + 1 <= m /\ m + 1 <= Len(q)
  <2>1. r \in Nat /\ r <= Len(q) /\ Len(q) \in Nat
    BY <1>3
  <2> HIDE DEF r, La, Lm
  <2>. QED
    BY <1>2, <1>7, <2>1
<1>8. SUFFICES \/ bad /\ r # Len(q)
               \/ /\ ~bad /\ r = Len(q)
                  /\ [hash |-> SubSeq(b, 1, HashLen), time |-> b[HashLen + 1],
                      seq |-> b[fixed], actor |-> actor.item, message |-> message.item,
                      deps |-> [i \in 1 .. count |-> SubSeq(b, DepAt(i) + 1, DepAt(i + 1))]] = ci
  <2> HIDE DEF bad, actor, message, count, DepAt
  <2>1. ASSUME bad, r # Len(q) PROVE ChangeInfo(b).ok = FALSE /\ b # q
    BY <1>5, <1>6, <2>1
  <2>2. ASSUME ~bad, r = Len(q),
               [hash |-> SubSeq(b, 1, HashLen), time |-> b[HashLen + 1],
                seq |-> b[fixed], actor |-> actor.item, message |-> message.item,
                deps |-> [i \in 1 .. count |-> SubSeq(b, DepAt(i) + 1, DepAt(i + 1))]] = ci
        PROVE  ChangeInfo(b) = [ok |-> TRUE, info |-> ci] /\ b = q
    BY <1>5, <1>6, <2>2
  <2>. QED
    BY <2>1, <2>2 DEF q
<1>9. CASE r < f + 1
  <2>1. r # Len(q)
    <3> HIDE DEF r, f, a, m
    <3>. QED
      BY <1>7, <1>9, <1>r
  <2>. QED
    BY <1>9, <2>1
<1>10. CASE r >= f + 1
  <2> HIDE DEF La, Lm, Ld
  <2>1. actor = IF a <= r THEN [ok |-> TRUE, item |-> ci.actor, end |-> a] ELSE [ok |-> FALSE]
    <3>1. f <= r /\ f + 1 \in 1 .. r /\ f + 1 = HashLen + 3
      <4>1. HashLen \in Nat /\ r \in Nat
        BY <1>2, <1>4
      <4> HIDE DEF r
      <4>. QED
        BY <1>10, <4>1
    <3>2. b[f + 1] = Len(ci.actor)
      <4>1. q[f + 1] = La
        BY <1>a, <3>1
      <4>. QED
        BY <1>4, <3>1, <4>1 DEF La
    <3>3. ASSUME NEW i \in 1 .. Len(ci.actor), f + 1 + i <= r PROVE b[f + 1 + i] = ci.actor[i]
      <4>1. i \in 1 .. La
        BY DEF La
      <4>2. HashLen \in Nat /\ La \in Nat /\ r \in Nat
        BY <1>2, <1>4
      <4> HIDE DEF r
      <4>3. f + 1 + i \in 1 .. r /\ f + 1 + i = HashLen + 3 + i
        BY <3>3, <4>1, <4>2
      <4> HIDE DEF f
      <4>4. q[f + 1 + i] = ci.actor[i]
        BY <1>a, <4>1, <4>3
      <4>. QED
        BY <1>4, <4>3, <4>4
    <3>4. f \in Nat /\ f <= Len(b)
      BY <1>7, <3>1
    <3> HIDE DEF f
    <3>5. TakeItem(b, f) = IF f + 1 + Len(ci.actor) <= Len(b)
                           THEN [ok |-> TRUE, item |-> ci.actor, end |-> f + 1 + Len(ci.actor)]
                           ELSE [ok |-> FALSE]
      BY <1>2, <1>4, <3>2, <3>3, <3>4, TakesItem, Zenon
    <3>. QED
      BY <3>5 DEF f, La
  <2>2. CASE ~(a <= r)
    <3>1. ~actor.ok
      BY <2>1, <2>2
    <3>2. r # Len(q)
      <4> HIDE DEF r, f, a, m
      <4>. QED
        BY <1>7, <1>r, <2>2
    <3>. QED
      BY <3>1, <3>2
  <2>3. CASE a <= r
    <3>1. actor = [ok |-> TRUE, item |-> ci.actor, end |-> a]
      BY <2>1, <2>3
    <3>2. actor.ok = TRUE /\ actor.item = ci.actor /\ actor.end = a
      BY <3>1
    <3> HIDE DEF actor
    <3>3. message = IF m <= r THEN [ok |-> TRUE, item |-> ci.message, end |-> m] ELSE [ok |-> FALSE]
      <4>1. a + 1 <= r => b[a + 1] = Len(ci.message)
        <5>1. a + 1 <= r => a + 1 \in 1 .. r /\ a + 1 = HashLen + 4 + La
          <6>1. HashLen \in Nat /\ La \in Nat /\ r \in Nat
            BY <1>2, <1>4
          <6> HIDE DEF r
          <6>. QED
            BY <6>1
        <5>2. a + 1 <= r => q[a + 1] = Lm
          BY <1>m, <5>1
        <5>. QED
          BY <1>4, <5>1, <5>2 DEF Lm
      <4>2. ASSUME NEW i \in 1 .. Len(ci.message), a + 1 + i <= r PROVE b[a + 1 + i] = ci.message[i]
        <5>1. i \in 1 .. Lm
          BY DEF Lm
        <5>2. HashLen \in Nat /\ La \in Nat /\ Lm \in Nat /\ r \in Nat
          BY <1>2, <1>4
        <5> HIDE DEF r
        <5>3. a + 1 + i \in 1 .. r /\ a + 1 + i = HashLen + 4 + La + i
          BY <4>2, <5>1, <5>2
        <5> HIDE DEF a
        <5>4. q[a + 1 + i] = ci.message[i]
          BY <1>m, <5>1, <5>3
        <5>. QED
          BY <1>4, <5>3, <5>4
      <4>t. a \in Nat /\ a <= Len(b)
        BY <1>7, <2>3
      <4> HIDE DEF a
      <4>3. TakeItem(b, a) = IF a + 1 + Len(ci.message) <= Len(b)
                             THEN [ok |-> TRUE, item |-> ci.message, end |-> a + 1 + Len(ci.message)]
                             ELSE [ok |-> FALSE]
        BY <1>2, <1>4, <4>1, <4>2, <4>t, TakesItem, Zenon
      <4>. QED
        BY <3>2, <4>3 DEF Lm
    <3>4. CASE ~(m <= r)
      <4>1. ~message.ok
        BY <3>3, <3>4
      <4>2. r # Len(q)
        <5> HIDE DEF r, a, m
        <5>. QED
          BY <1>7, <1>r, <3>4
      <4>. QED
        BY <4>1, <4>2
    <3>5. CASE m <= r
      <4>1. message.ok = TRUE /\ message.item = ci.message /\ message.end = m
        BY <3>3, <3>5
      <4> HIDE DEF message, a, m
      <4>2. CASE m + 1 > r
        BY <1>2, <1>4, <1>7, <4>1, <4>2
      <4>3. CASE m + 1 <= r
        <5>1. m + 1 \in 1 .. r /\ m + 1 = HashLen + 5 + La + Lm
          BY <1>2, <1>4, <1>7, <4>3 DEF a, m
        <5>2. b[m + 1] = Ld
          BY <1>1, <1>4, <5>1 DEF InfoLayout
        <5>3. count = Ld /\ \A i \in Int : DepAt(i) = m + 1 + (i - 1) * H
          BY <4>1, <5>2
        <5> HIDE DEF count, DepAt
        <5>4. CASE r < Len(q)
          <6>1. Ld # 0
            <7>1. Ld = 0 => l = 0
              BY <1>2 DEF l
            <7>. QED
              BY <1>2, <1>4, <1>7, <4>3, <5>4, <7>1
          <6>2. Ld \in 1 .. count /\ Ld + 1 \in Int /\ (Ld + 1) - 1 = Ld
            BY <1>2, <5>3, <6>1
          <6>3. DepAt(Ld + 1) = m + 1 + Ld * H
            BY <5>3, <6>2
          <6>4. DepAt(Ld + 1) > Len(b)
            BY <1>4, <1>7, <5>4, <6>3 DEF l
          <6>5. bad
            BY <6>2, <6>4
          <6>6. r # Len(q)
            BY <1>4, <1>7, <5>4
          <6> HIDE DEF bad
          <6>. QED
            BY <6>5, <6>6
        <5>5. CASE r >= Len(q)
          <6>1. r = Len(q)
            <7> HIDE DEF r
            <7>. QED
              BY <1>r, <5>5
          <6>2. ASSUME NEW i \in 1 .. Ld
                PROVE  /\ DepAt(i) \in Nat /\ DepAt(i + 1) = DepAt(i) + H /\ DepAt(i + 1) <= r
                       /\ DepAt(i) = m + 1 + (i - 1) * H
            <7> DEFINE z == (i - 1) * H
                       d == Ld - i
                       w == d * H
                       z1 == i * H
            <7>1. i - 1 \in Nat /\ d \in Nat /\ Ld = (i - 1) + 1 + d /\ i \in Int /\ i + 1 \in Int /\ (i + 1) - 1 = i
              BY <1>2
            <7>2. z \in Nat /\ w \in Nat
              BY <1>2, <7>1
            <7>3. z1 = z + H
              BY <1>2, <7>1
            <7>4. l = z1 + w
              BY <1>2, <7>1 DEF l
            <7>5. DepAt(i) = m + 1 + z /\ DepAt(i + 1) = m + 1 + z1
              BY <5>3, <7>1
            <7>6. r = m + 1 + l
              BY <1>7, <6>1
            <7> HIDE DEF z, d, w, z1
            <7>7. DepAt(i) \in Nat /\ DepAt(i + 1) = DepAt(i) + H /\ DepAt(i + 1) <= r
              BY <1>2, <1>4, <1>7, <7>2, <7>3, <7>4, <7>5, <7>6
            <7>. QED
              BY <7>5, <7>7 DEF z
          <6>3. ~bad
            <7>1. ~(Len(b) < fixed + 1)
              BY <1>2, <1>4, <1>10
            <7>2. ~(m + 1 > Len(b))
              BY <1>4, <1>7, <4>3
            <7>3. ~(\E i \in 1 .. count : DepAt(i + 1) > Len(b))
              <8>1. ASSUME NEW i \in 1 .. count PROVE ~(DepAt(i + 1) > Len(b))
                <9>1. i \in 1 .. Ld
                  BY <5>3
                <9>. QED
                  BY <1>2, <1>4, <6>2, <9>1
              <8>. QED
                BY <8>1
            <7>. QED
              BY <3>2, <4>1, <7>1, <7>2, <7>3
          <6>4. ASSUME NEW i \in 1 .. Ld PROVE SubSeq(b, DepAt(i) + 1, DepAt(i + 1)) = ci.deps[i]
            <7> DEFINE o == DepAt(i)
                       e == DepAt(i + 1)
            <7>1. o \in Nat /\ e = o + H /\ e <= r /\ o = m + 1 + (i - 1) * H
              BY <6>2
            <7>2. ci.deps[i] \in Seq(Nat) /\ Len(ci.deps[i]) = H
              <8>1. ci.deps \in Seq(Hashes) /\ Len(ci.deps) = Ld
                BY <1>1 DEF InfoLayout
              <8>. QED
                BY <8>1, WireTypes, ElementOfSeq
            <7>3. ASSUME NEW x \in 1 .. H PROVE ci.deps[i][x] = b[o + x]
              <8>1. q[HashLen + 5 + La + Lm + (i - 1) * HashLen + x] = ci.deps[i][x]
                BY <1>1 DEF InfoLayout
              <8> DEFINE z == (i - 1) * HashLen
              <8>2. z \in Int /\ o = m + 1 + z
                BY <1>2, <7>1
              <8>3. q[HashLen + 5 + La + Lm + z + x] = ci.deps[i][x]
                BY <8>1
              <8> HIDE DEF z, o
              <8>4. o + x = HashLen + 5 + La + Lm + z + x
                <9>1. HashLen \in Nat /\ La \in Nat /\ Lm \in Nat /\ m \in Nat /\ x \in Nat
                  BY <1>2, <1>7
                <9>. QED
                  BY <5>1, <8>2, <9>1
              <8>5. o + x \in 1 .. r
                <9>1. o \in Nat /\ o + HashLen <= r /\ r \in Nat /\ HashLen \in Nat
                  BY <1>2, <1>4, <7>1
                <9> HIDE DEF r
                <9>. QED
                  BY <9>1
              <8>. QED
                BY <1>4, <8>3, <8>4, <8>5
            <7>4. e \in Nat /\ o <= e /\ e <= Len(b) /\ e - o = H
              BY <1>2, <7>1
            <7> HIDE DEF o, e
            <7>5. SubSeq(b, o + 1, e) = ci.deps[i]
              <8>1. Len(ci.deps[i]) = e - o /\ \A x \in 1 .. e - o : ci.deps[i][x] = b[o + x]
                BY <7>2, <7>3, <7>4
              <8> DEFINE c == ci.deps[i]
              <8>2. c \in Seq(Nat) /\ Len(c) = e - o /\ \A x \in 1 .. e - o : c[x] = b[o + x]
                BY <7>2, <8>1
              <8>3. b \in Seq(Nat) /\ o \in Nat /\ e \in Nat /\ o <= e /\ e <= Len(b)
                BY <1>4, <7>1, <7>4
              <8> HIDE DEF c
              <8>4. SubSeq(b, o + 1, e) = c
                BY <8>2, <8>3, WindowIs
              <8>. QED
                BY <8>4 DEF c
            <7>. QED
              BY <7>5 DEF o, e
          <6>5. [i \in 1 .. count |-> SubSeq(b, DepAt(i) + 1, DepAt(i + 1))] = ci.deps
            <7>1. ci.deps = [i \in 1 .. Ld |-> ci.deps[i]]
              <8>1. ci.deps \in Seq(Hashes) /\ Len(ci.deps) = Ld
                BY <1>1 DEF InfoLayout
              <8>2. ci.deps \in [1 .. Ld -> Hashes]
                BY <8>1, LenProperties
              <8>. QED
                BY <8>2
            <7>2. [i \in 1 .. Ld |-> SubSeq(b, DepAt(i) + 1, DepAt(i + 1))]
                   = [i \in 1 .. Ld |-> ci.deps[i]]
              BY <6>4
            <7>. QED
              BY <5>3, <7>1, <7>2
          <6>6. SubSeq(b, 1, HashLen) = ci.hash
            <7>1. ci.hash \in Seq(Nat) /\ Len(ci.hash) = HashLen /\ \A i \in 1 .. HashLen : q[i] = ci.hash[i]
              BY <1>1 DEF InfoLayout
            <7>2. HashLen \in Nat /\ 0 \in Nat /\ 0 <= HashLen /\ HashLen <= Len(b) /\ HashLen - 0 = HashLen
              BY <1>2, <1>4, <1>10
            <7>3. \A i \in 1 .. HashLen : ci.hash[i] = b[0 + i]
              BY <1>4, <7>1, <7>2
            <7>4. SubSeq(b, 0 + 1, HashLen) = ci.hash
              BY <1>4, <7>1, <7>2, <7>3, WindowIs
            <7>. QED
              BY <7>4
          <6>7. b[HashLen + 1] = ci.time /\ b[fixed] = ci.seq
            <7>1. HashLen + 1 \in 1 .. r /\ HashLen + 2 \in 1 .. r
              BY <1>2, <1>4, <1>10
            <7>. QED
              BY <1>1, <1>4, <7>1 DEF InfoLayout
          <6>8. ci = [hash |-> ci.hash, time |-> ci.time, seq |-> ci.seq, actor |-> ci.actor,
                      message |-> ci.message, deps |-> ci.deps]
            BY DEF Infos
          <6> HIDE DEF bad
          <6>9. [hash |-> SubSeq(b, 1, HashLen), time |-> b[HashLen + 1],
                 seq |-> b[fixed], actor |-> actor.item, message |-> message.item,
                 deps |-> [i \in 1 .. count |-> SubSeq(b, DepAt(i) + 1, DepAt(i + 1))]] = ci
            BY <3>2, <4>1, <6>5, <6>6, <6>7, <6>8
          <6>. QED
            BY <6>1, <6>3, <6>9
        <5>. QED
          BY <1>4, <1>7, <5>4, <5>5
      <4>. QED
        BY <1>4, <1>7, <4>2, <4>3
    <3>. QED
      BY <3>4, <3>5
  <2>. QED
    BY <2>2, <2>3
<1>11. r < f + 1 \/ r >= f + 1
  BY <1>4, <1>7
<1> HIDE DEF bad, actor, message, count, DepAt, f
<1>. QED
  BY <1>9, <1>10, <1>11

\* An info that was written by the engine is read in full or refused.
InfoAt(ci) ==
    /\ packed = <<ci>> /\ IsCut(raw, EncodeChangeInfo(ci))
    /\ pc # "loop" => IF raw = EncodeChangeInfo(ci) THEN pc = "ok" /\ out = packed
                      ELSE pc = "error"

InfoInv == job = "info" => \E ci \in Infos : InfoAt(ci)

LEMMA InfoInit == WireInit \/ WireIdle => InfoInv
<1> SUFFICES ASSUME WireInit, job = "info" PROVE \E ci \in Infos : InfoAt(ci)
  BY DEF InfoInv, WireIdle
<1>1. pc = "loop"
  BY DEF WireInit
<1>2. PICK ci \in Infos : packed = <<ci>> /\ raw \in Cut(EncodeChangeInfo(ci))
  BY DEF WireInit
<1>3. EncodeChangeInfo(ci) \in Seq(Nat)
  BY InfoIsLaidOut DEF InfoLayout
<1>4. IsCut(raw, EncodeChangeInfo(ci))
  BY <1>2, <1>3, CutIsCut
<1>. QED
  BY <1>1, <1>2, <1>4 DEF InfoAt

LEMMA InfoNext == InfoInv /\ [WireNext]_wireVars => InfoInv'
<1> SUFFICES ASSUME InfoInv, [WireNext]_wireVars, job' = "info"
             PROVE  \E ci \in Infos : InfoAt(ci)'
  BY DEF InfoInv, Infos
<1>1. job' = job
  BY DEF WireNext, wireVars, SplitChangeChunks, SplitDone, ParseRawChanges, ParseItems,
         ParseLengthPrefixedList, ObjKeys, ParseChangeHashes, ParseChangeInfo
<1>2. PICK ci \in Infos : InfoAt(ci)
  BY <1>1 DEF InfoInv
<1>3. CASE UNCHANGED wireVars
  BY <1>2, <1>3 DEF wireVars, InfoAt
<1>4. CASE ParseChangeInfo
  <2> DEFINE q == EncodeChangeInfo(ci)
             c == ChangeInfo(raw)
  <2>1. /\ UNCHANGED <<packed, raw>>
        /\ IF c.ok THEN pc' = "ok" /\ out' = <<c.info>> ELSE pc' = "error" /\ UNCHANGED out
    BY <1>4 DEF ParseChangeInfo
  <2>2. packed = <<ci>> /\ IsCut(raw, q)
    BY <1>2 DEF InfoAt
  <2>3. IF raw = q THEN c = [ok |-> TRUE, info |-> ci] ELSE c.ok = FALSE
    BY <2>2, InfoReads
  <2> HIDE DEF q, c
  <2>4. IF raw = q THEN pc' = "ok" /\ out' = <<ci>> ELSE pc' = "error"
    BY <2>1, <2>3
  <2>. QED
    BY <2>1, <2>2, <2>4 DEF InfoAt, q
<1>5. CASE \/ SplitChangeChunks \/ SplitDone \/ ParseRawChanges
           \/ ParseLengthPrefixedList \/ ObjKeys \/ ParseChangeHashes
  BY <1>1, <1>5 DEF SplitChangeChunks, SplitDone, ParseRawChanges, ParseItems,
         ParseLengthPrefixedList, ObjKeys, ParseChangeHashes
<1>. QED
  BY <1>3, <1>4, <1>5 DEF WireNext

\* ParseChangeInfo gives back what the engine wrote, or an error when a byte of
\* it is missing, for every info and every width.
THEOREM InfosWhole == WireSpec => []InfoWholeOrRefused
<1>1. WireSpec => []InfoInv
  BY InfoInit, InfoNext, PTL DEF WireSpec
<1>2. InfoInv => InfoWholeOrRefused
  <2> SUFFICES ASSUME InfoInv, job = "info", pc # "loop" PROVE InfoWholeOrRefused
    BY DEF InfoWholeOrRefused
  <2>1. PICK ci \in Infos : InfoAt(ci)
    BY DEF InfoInv
  <2>2. packed[1] = ci
    BY <2>1 DEF InfoAt
  <2>. QED
    BY <2>1, <2>2 DEF InfoAt, InfoWholeOrRefused
<1>. QED
  BY <1>1, <1>2, PTL

-----------------------------------------------------------------------------
(* Change chunks *)

LEMMA LebType ==
    ASSUME NEW b \in Seq(Nat)
    PROVE  LebValue(b) \in Nat
<1> DEFINE n == Len(b)
           F == [p \in (1 .. n) \X Nat |-> (b[n + 1 - p[1]] % Base) + Base * p[2]]
           Sol(v) == v = [i \in 0 .. n |-> IF i = 0 THEN 0
                                           ELSE (b[n + 1 - i] % Base) + Base * v[i - 1]]
           v == CHOOSE x : Sol(x)
<1>1. n \in Nat /\ Base \in Nat /\ Base > 0
  BY WireAssumption
<1>2. LebValue(b) = v[n]
  BY DEF LebValue
<1>3. \A i \in 1 .. n : b[n + 1 - i] % Base \in Nat
  BY <1>1
<1>4. F \in [(1 .. n) \X Nat -> Nat]
  BY <1>1, <1>3, SMTT(30)
<1>5. \A i \in 1 .. n : \A x \in Nat : F[<<i, x>>] = (b[n + 1 - i] % Base) + Base * x
  OBVIOUS
<1> HIDE DEF F
<1>6. PICK g : Solves(n, Nat, 0, F, g)
  <2>1. 0 \in Nat
    OBVIOUS
  <2>. QED
    BY <1>1, <1>4, <2>1, Solution, Zenon
<1>7. g \in [0 .. n -> Nat] /\ g[0] = 0
  BY <1>6 DEF Solves
<1>8. ASSUME NEW i \in 1 .. n PROVE g[i] = (b[n + 1 - i] % Base) + Base * g[i - 1]
  <2>1. i - 1 \in 0 .. n
    BY <1>1
  <2>2. g[i - 1] \in Nat
    BY <1>7, <2>1
  <2>3. g[i] = F[<<i, g[i - 1]>>]
    BY <1>6 DEF Solves
  <2>. QED
    BY <1>5, <2>2, <2>3
<1>9. Sol(g)
  <2>1. \A i \in 0 .. n : g[i] = IF i = 0 THEN 0 ELSE (b[n + 1 - i] % Base) + Base * g[i - 1]
    <3>1. ASSUME NEW i \in 0 .. n, i # 0 PROVE g[i] = (b[n + 1 - i] % Base) + Base * g[i - 1]
      <4>1. i \in 1 .. n
        BY <3>1, <1>1
      <4>. QED
        BY <1>8, <4>1
    <3>. QED
      BY <1>7, <3>1
  <2>. QED
    BY <1>7, <2>1
<1>10. Sol(v)
  <2> HIDE DEF Sol
  <2>. QED
    BY <1>9
<1> HIDE DEF v
<1>11. /\ v[0] = 0
       /\ \A i \in 1 .. n : v[i] = (b[n + 1 - i] % Base) + Base * v[i - 1]
  <2>1. v = [i \in 0 .. n |-> IF i = 0 THEN 0 ELSE (b[n + 1 - i] % Base) + Base * v[i - 1]]
    BY <1>10
  <2>2. \A i \in 0 .. n : v[i] = IF i = 0 THEN 0 ELSE (b[n + 1 - i] % Base) + Base * v[i - 1]
    BY <2>1
  <2>3. 0 \in 0 .. n /\ \A i \in 1 .. n : i \in 0 .. n /\ i # 0
    BY <1>1
  <2>. QED
    BY <2>2, <2>3
<1>12. AgreeStepwise(n, v, g)
  BY <1>7, <1>8, <1>11 DEF AgreeStepwise
<1>13. Agree(n, v, g)
  BY <1>1, <1>12, SameSolution, Zenon
<1>14. v[n] = g[n] /\ g[n] \in Nat
  BY <1>1, <1>7, <1>13 DEF Agree
<1>. QED
  BY <1>2, <1>14

LEMMA ModSmall ==
    ASSUME NEW x \in Nat, NEW w \in Nat, x < w
    PROVE  x % w = x
OBVIOUS

LEMMA MinIs ==
    ASSUME NEW T \in SUBSET Nat, T # {}
    PROVE  Min(T) \in T /\ \A x \in T : Min(T) <= x
BY Least DEF Min

LEMMA WindowOfWindow ==
    ASSUME NEW S, NEW s \in Seq(S), NEW o \in Nat, NEW e \in Nat, o <= e, e <= Len(s),
           NEW p \in Nat, NEW r \in Nat, p <= r, r <= e - o
    PROVE  SubSeq(SubSeq(s, o + 1, e), p + 1, r) = SubSeq(s, o + p + 1, o + r)
<1> DEFINE w == SubSeq(s, o + 1, e)
           o1 == o + p
           e1 == o + r
           u == SubSeq(s, o1 + 1, e1)
<1>1. w \in Seq(S) /\ Len(w) = e - o /\ \A i \in 1 .. e - o : w[i] = s[o + i]
  BY Window
<1>2. o1 \in Nat /\ e1 \in Nat /\ o1 <= e1 /\ e1 <= Len(s) /\ e1 - o1 = r - p
  OBVIOUS
<1>3. u \in Seq(S) /\ Len(u) = e1 - o1 /\ \A i \in 1 .. e1 - o1 : u[i] = s[o1 + i]
  <2> HIDE DEF o1, e1
  <2>. QED
    BY <1>2, Window
<1>4. ASSUME NEW i \in 1 .. r - p PROVE u[i] = w[p + i]
  <2>1. p + i \in 1 .. e - o /\ o + (p + i) = o1 + i
    OBVIOUS
  <2>2. w[p + i] = s[o + (p + i)]
    BY <1>1, <2>1
  <2>3. u[i] = s[o1 + i]
    BY <1>2, <1>3
  <2>. QED
    BY <2>1, <2>2, <2>3
<1>5. Len(u) = r - p /\ r <= Len(w)
  BY <1>1, <1>2, <1>3
<1> HIDE DEF w, u
<1>6. SubSeq(w, p + 1, r) = u
  BY <1>1, <1>3, <1>4, <1>5, WindowIs, ZenonT(60)
<1>. QED
  BY <1>6 DEF w, u

\* s starts with a uLEB128 of n bytes.
Leb(s, n) ==
    /\ n \in Nat /\ n >= 1 /\ n <= Len(s) /\ n <= MaxLeb
    /\ \A i \in 1 .. n : (s[i] >= Base) <=> (i < n)

LEMMA LebRead ==
    ASSUME NEW s \in Seq(Nat), NEW n, Leb(s, n)
    PROVE  ReadULEB128(s) = [ok |-> TRUE, n |-> n, value |-> LebValue(SubSeq(s, 1, n)) % Word]
<1> DEFINE stops == {i \in 1 .. Len(s) : s[i] < Base}
<1>1. Base \in Nat /\ MaxLeb \in Nat /\ Len(s) \in Nat /\ \A i \in 1 .. Len(s) : s[i] \in Nat
  BY WireAssumption, SMTT(30)
<1>2. n \in stops /\ \A i \in stops : ~(i < n)
  BY <1>1 DEF Leb
<1>3. stops \in SUBSET Nat /\ stops # {}
  BY <1>2
<1>4. ReadULEB128(s) =
        IF stops = {} \/ Min(stops) > MaxLeb THEN [ok |-> FALSE, n |-> 0, value |-> 0]
        ELSE [ok |-> TRUE, n |-> Min(stops), value |-> LebValue(SubSeq(s, 1, Min(stops))) % Word]
  BY DEF ReadULEB128
<1> HIDE DEF stops
<1>5. Min(stops) \in stops /\ \A x \in stops : Min(stops) <= x
  BY <1>3, MinIs
<1>6. Min(stops) = n
  <2> DEFINE m == Min(stops)
  <2>1. m \in Nat /\ n \in Nat /\ m <= n /\ ~(m < n)
    BY <1>2, <1>3, <1>5, Zenon
  <2> HIDE DEF m
  <2>2. m = n
    BY <2>1
  <2>. QED
    BY <2>2 DEF m
<1>7. ~(n > MaxLeb)
  BY <1>1 DEF Leb
<1>. QED
  BY <1>3, <1>4, <1>6, <1>7

LEMMA LebOk ==
    ASSUME NEW s \in Seq(Nat), ReadULEB128(s).ok
    PROVE  \E n : Leb(s, n)
<1> DEFINE stops == {i \in 1 .. Len(s) : s[i] < Base}
<1>1. Base \in Nat /\ MaxLeb \in Nat /\ Len(s) \in Nat /\ \A i \in 1 .. Len(s) : s[i] \in Nat
  BY WireAssumption, SMTT(30)
<1>2. ReadULEB128(s) =
        IF stops = {} \/ Min(stops) > MaxLeb THEN [ok |-> FALSE, n |-> 0, value |-> 0]
        ELSE [ok |-> TRUE, n |-> Min(stops), value |-> LebValue(SubSeq(s, 1, Min(stops))) % Word]
  BY DEF ReadULEB128
<1>3. stops \in SUBSET Nat
  OBVIOUS
<1>4. \A i \in 1 .. Len(s) : i \in stops <=> s[i] < Base
  OBVIOUS
<1>0. stops \subseteq 1 .. Len(s)
  OBVIOUS
<1> HIDE DEF stops
<1>5. stops # {} /\ ~(Min(stops) > MaxLeb)
  <2>1. [ok |-> FALSE, n |-> 0, value |-> 0].ok = FALSE
    OBVIOUS
  <2>2. stops = {} \/ Min(stops) > MaxLeb => ReadULEB128(s) = [ok |-> FALSE, n |-> 0, value |-> 0]
    BY <1>2, Zenon
  <2>. QED
    BY <2>1, <2>2
<1>6. Min(stops) \in stops /\ \A x \in stops : Min(stops) <= x
  BY <1>3, <1>5, MinIs
<1> DEFINE n == Min(stops)
<1>7. n \in 1 .. Len(s) /\ n <= MaxLeb
  <2>1. n \in 1 .. Len(s) /\ ~(n > MaxLeb)
    BY <1>0, <1>5, <1>6, Zenon
  <2> HIDE DEF n
  <2>. QED
    BY <1>1, <2>1
<1>8. ASSUME NEW i \in 1 .. n PROVE (s[i] >= Base) <=> (i < n)
  <2>1. i \in 1 .. Len(s) /\ i <= n
    BY <1>1, <1>7
  <2>2. i \in stops <=> i = n
    BY <1>6, <1>7, <2>1
  <2>. QED
    BY <1>1, <1>4, <1>7, <2>1, <2>2
<1>9. Leb(s, n)
  BY <1>7, <1>8 DEF Leb
<1>. QED
  BY <1>9

\* At offset o of b a chunk starts that has n bytes of length and ends at e.
ChunkHere(b, o, n, e) ==
    /\ GoodHeader(b, o)
    /\ n \in Nat /\ n >= 1 /\ n <= MaxLeb /\ o + HeaderLen + n <= Len(b)
    /\ \A i \in 1 .. n : (b[o + HeaderLen + i] >= Base) <=> (i < n)
    /\ e = o + HeaderLen + n + LebValue(SubSeq(b, o + HeaderLen + 1, o + HeaderLen + n))

LEMMA HeaderType == HeaderLen \in Nat /\ HeaderLen >= 1 /\ Len(Magic) \in Nat /\ Len(Magic) < HeaderLen /\ Magic \in Seq(Nat)
<1>1. Magic \in Seq(Byte) /\ SumLen \in Nat
  BY WireAssumption
<1>2. Len(Magic) \in Nat /\ Magic \in Seq(Nat)
  <2>1. Magic \in Seq(Nat)
    BY <1>1, WireTypes, SeqMonotonic
  <2>. QED
    BY <2>1
<1>. QED
  BY <1>1, <1>2 DEF HeaderLen

LEMMA ChunkIsHere ==
    ASSUME NEW b \in Seq(Nat), NEW o \in Nat, NEW e \in Nat, o <= e, e <= Len(b),
           IsChunk(SubSeq(b, o + 1, e))
    PROVE  \E n : ChunkHere(b, o, n, e)
<1> DEFINE c == SubSeq(b, o + 1, e)
           H == HeaderLen
           M == Len(Magic)
<1>1. c \in Seq(Nat) /\ Len(c) = e - o /\ \A i \in 1 .. e - o : c[i] = b[o + i]
  BY Window
<1>2. H \in Nat /\ H >= 1 /\ M \in Nat /\ M < H /\ Magic \in Seq(Nat) /\ Len(b) \in Nat
  BY HeaderType
<1>3. /\ Len(c) > H /\ IsPrefix(Magic, c) /\ c[H] \in {1, 2}
      /\ \E n \in 1 .. Len(c) - H :
            /\ n <= MaxLeb
            /\ \A i \in 1 .. n : (SubSeq(c, H + 1, H + n)[i] >= Base) <=> (i < n)
            /\ LebValue(SubSeq(c, H + 1, H + n)) = Len(c) - H - n
  BY DEF IsChunk
<1> HIDE DEF H, M, c
<1>4. PICK n \in 1 .. Len(c) - H :
            /\ n <= MaxLeb
            /\ \A i \in 1 .. n : (SubSeq(c, H + 1, H + n)[i] >= Base) <=> (i < n)
            /\ LebValue(SubSeq(c, H + 1, H + n)) = Len(c) - H - n
  BY <1>3
<1>5. n \in Nat /\ n >= 1 /\ H + n <= e - o /\ o + H + n <= Len(b) /\ H <= e - o
  BY <1>1, <1>2
<1>6. SubSeq(c, H + 1, H + n) = SubSeq(b, o + H + 1, o + H + n)
  <2> DEFINE r == H + n
  <2>1. r \in Nat /\ H <= r /\ r <= e - o /\ o + r = o + H + n
    BY <1>2, <1>5
  <2> HIDE DEF r
  <2>2. SubSeq(c, H + 1, r) = SubSeq(b, o + H + 1, o + r)
    BY <1>2, <2>1, WindowOfWindow DEF c
  <2>. QED
    BY <2>1, <2>2 DEF r
<1>7. GoodHeader(b, o)
  <2>1. o + H <= Len(b)
    BY <1>2, <1>5
  <2>2. SubSeq(b, o + 1, o + M) = Magic
    <3>1. SubSeq(Magic, 1, M) = SubSeq(c, 1, M) /\ SubSeq(Magic, 1, M) = Magic
      BY <1>2, <1>3, SubSeqFull DEF IsPrefix, M
    <3>2. 0 \in Nat /\ 0 <= M /\ M <= e - o /\ o + 0 + 1 = o + 1 /\ 0 + 1 = 1
      BY <1>2, <1>5
    <3>3. SubSeq(c, 0 + 1, M) = SubSeq(b, o + 0 + 1, o + M)
      BY <1>2, <3>2, WindowOfWindow DEF c
    <3>. QED
      BY <3>1, <3>2, <3>3
  <2>3. b[o + H] \in {1, 2}
    <3>1. H \in 1 .. e - o
      BY <1>2, <1>5
    <3>. QED
      BY <1>1, <1>3, <3>1
  <2>. QED
    BY <2>1, <2>2, <2>3 DEF GoodHeader, H, M
<1>8. ASSUME NEW i \in 1 .. n PROVE (b[o + H + i] >= Base) <=> (i < n)
  <2> DEFINE w == SubSeq(b, o + H + 1, o + H + n)
             p == o + H
             r == o + H + n
  <2>1. p \in Nat /\ r \in Nat /\ p <= r /\ r <= Len(b) /\ i \in 1 .. r - p
    BY <1>2, <1>5
  <2> HIDE DEF p, r
  <2>2. SubSeq(b, p + 1, r)[i] = b[p + i]
    BY <2>1, Window
  <2>3. w[i] = b[o + H + i]
    BY <2>2 DEF p, r
  <2>4. (w[i] >= Base) <=> (i < n)
    BY <1>4, <1>6
  <2> HIDE DEF w
  <2>. QED
    BY <2>3, <2>4
<1>9. e = o + H + n + LebValue(SubSeq(b, o + H + 1, o + H + n))
  <2> DEFINE v == LebValue(SubSeq(b, o + H + 1, o + H + n))
  <2>1. v = Len(c) - H - n
    BY <1>4, <1>6
  <2> HIDE DEF v
  <2>2. e = o + H + n + v
    BY <1>1, <1>2, <1>5, <2>1
  <2>. QED
    BY <2>2 DEF v
<1>10. ChunkHere(b, o, n, e)
  BY <1>4, <1>5, <1>7, <1>8, <1>9 DEF ChunkHere, H
<1>. QED
  BY <1>10

LEMMA HereIsChunk ==
    ASSUME NEW b \in Seq(Nat), NEW o \in Nat, NEW n, NEW e, ChunkHere(b, o, n, e), e <= Len(b)
    PROVE  e \in Nat /\ o < e /\ IsChunk(SubSeq(b, o + 1, e))
<1> DEFINE c == SubSeq(b, o + 1, e)
           H == HeaderLen
           M == Len(Magic)
           l == SubSeq(b, o + H + 1, o + H + n)
           v == LebValue(l)
<1>1. H \in Nat /\ H >= 1 /\ M \in Nat /\ M < H /\ Magic \in Seq(Nat) /\ Len(b) \in Nat
  BY HeaderType
<1>2. n \in Nat /\ n >= 1 /\ n <= MaxLeb /\ o + H + n <= Len(b) /\ e = o + H + n + v /\ GoodHeader(b, o)
  BY DEF ChunkHere
<1>h. /\ SubSeq(b, o + 1, o + M) = Magic /\ b[o + H] \in {1, 2}
      /\ \A i \in 1 .. n : (b[o + H + i] >= Base) <=> (i < n)
  BY DEF ChunkHere, GoodHeader
<1> HIDE DEF H, M, v
<1>3. l \in Seq(Nat) /\ \A i \in 1 .. n : l[i] = b[o + H + i]
  <2> DEFINE p == o + H
             r == o + H + n
  <2>1. p \in Nat /\ r \in Nat /\ p <= r /\ r <= Len(b) /\ r - p = n
    BY <1>1, <1>2
  <2> HIDE DEF p, r
  <2>2. SubSeq(b, p + 1, r) \in Seq(Nat) /\ \A i \in 1 .. r - p : SubSeq(b, p + 1, r)[i] = b[p + i]
    BY <2>1, Window
  <2>. QED
    BY <2>1, <2>2 DEF p, r
<1>4. v \in Nat
  BY <1>3, LebType DEF v
<1>5. e \in Nat /\ o < e /\ o <= e /\ e - o > H /\ H + n <= e - o /\ v = e - o - H - n
  BY <1>1, <1>2, <1>4
<1>6. c \in Seq(Nat) /\ Len(c) = e - o /\ \A i \in 1 .. e - o : c[i] = b[o + i]
  BY <1>5, Window
<1>7. SubSeq(c, H + 1, H + n) = l
  <2> DEFINE r == H + n
  <2>1. r \in Nat /\ H <= r /\ r <= e - o /\ o + r = o + H + n
    BY <1>1, <1>2, <1>5
  <2> HIDE DEF r
  <2>2. SubSeq(c, H + 1, r) = SubSeq(b, o + H + 1, o + r)
    BY <1>1, <1>5, <2>1, WindowOfWindow
  <2>. QED
    BY <2>1, <2>2 DEF r
<1>8. IsPrefix(Magic, c)
  <2>1. 0 \in Nat /\ 0 <= M /\ M <= e - o /\ o + 0 + 1 = o + 1 /\ 0 + 1 = 1
    BY <1>1, <1>5
  <2>2. SubSeq(c, 0 + 1, M) = SubSeq(b, o + 0 + 1, o + M)
    BY <1>1, <1>5, <2>1, WindowOfWindow
  <2>3. SubSeq(c, 1, M) = Magic /\ SubSeq(Magic, 1, M) = Magic
    BY <1>1, <1>h, <2>1, <2>2, SubSeqFull DEF M
  <2> HIDE DEF c
  <2>. QED
    BY <1>6, <2>1, <2>3 DEF IsPrefix, M
<1>9. c[H] \in {1, 2}
  <2>1. H \in 1 .. e - o
    BY <1>1, <1>5
  <2>. QED
    BY <1>6, <1>h, <2>1
<1>10. \A i \in 1 .. n : (l[i] >= Base) <=> (i < n)
  BY <1>3, <1>h, Zenon
<1>11. n \in 1 .. Len(c) - H /\ Len(c) > H /\ v = Len(c) - H - n
  BY <1>1, <1>2, <1>5, <1>6
<1> HIDE DEF c, l
<1>12. IsChunk(c)
  <2>1. /\ n <= MaxLeb
        /\ \A i \in 1 .. n : (SubSeq(c, H + 1, H + n)[i] >= Base) <=> (i < n)
        /\ LebValue(SubSeq(c, H + 1, H + n)) = Len(c) - H - n
    BY <1>2, <1>7, <1>10, <1>11 DEF v
  <2>. QED
    BY <1>8, <1>9, <1>11, <2>1 DEF IsChunk, H
<1>. QED
  BY <1>5, <1>12 DEF c

\* What readULEB128 sees of it.
LEMMA HereIsRead ==
    ASSUME NEW b \in Seq(Nat), NEW o \in Nat, NEW n, NEW e, ChunkHere(b, o, n, e)
    PROVE  ReadULEB128(SubSeq(b, o + HeaderLen + 1, Len(b))) =
              [ok |-> TRUE, n |-> n,
               value |-> LebValue(SubSeq(b, o + HeaderLen + 1, o + HeaderLen + n)) % Word]
<1> DEFINE H == HeaderLen
           p == o + H
           L == Len(b)
           s == SubSeq(b, p + 1, L)
<1>h. /\ n \in Nat /\ n >= 1 /\ n <= MaxLeb /\ p + n <= L
      /\ \A i \in 1 .. n : (b[p + i] >= Base) <=> (i < n)
  BY Zenon DEF ChunkHere
<1>1. H \in Nat /\ p \in Nat /\ L \in Nat /\ n \in Nat /\ n >= 1 /\ p + n <= L /\ n <= MaxLeb
      /\ p <= L /\ L <= Len(b) /\ n <= L - p
  <2>1. H \in Nat /\ L \in Nat /\ L <= Len(b)
    BY HeaderType
  <2>2. n \in Nat /\ n >= 1 /\ n <= MaxLeb /\ p + n <= L
    BY <1>h
  <2> HIDE DEF H, L
  <2>. QED
    BY <2>1, <2>2
<1>2. \A i \in 1 .. n : (b[p + i] >= Base) <=> (i < n)
  BY <1>h
<1> HIDE DEF p
<1>3. s \in Seq(Nat) /\ Len(s) = L - p /\ \A i \in 1 .. L - p : s[i] = b[p + i]
  <2>1. p \in Nat /\ L \in Nat /\ p <= L /\ L <= Len(b)
    BY <1>1
  <2> HIDE DEF L
  <2>. QED
    BY <2>1, Window, ZenonT(60)
<1>4. Leb(s, n)
  <2> HIDE DEF s, L
  <2>1. \A i \in 1 .. n : i \in 1 .. L - p
    BY <1>1
  <2>2. \A i \in 1 .. n : s[i] = b[p + i]
    BY <1>3, <2>1, Zenon
  <2>. QED
    BY <1>1, <1>2, <1>3, <2>2 DEF Leb
<1>5. SubSeq(s, 1, n) = SubSeq(b, p + 1, p + n)
  <2>1. 0 \in Nat /\ 0 <= n /\ p + 0 + 1 = p + 1 /\ 0 + 1 = 1
    BY <1>1
  <2>2. SubSeq(s, 0 + 1, n) = SubSeq(b, p + 0 + 1, p + n)
    BY <1>1, <2>1, WindowOfWindow
  <2>. QED
    BY <2>1, <2>2
<1> HIDE DEF s
<1>6. ReadULEB128(s) = [ok |-> TRUE, n |-> n, value |-> LebValue(SubSeq(s, 1, n)) % Word]
  BY <1>3, <1>4, LebRead
<1>7. ReadULEB128(s) = [ok |-> TRUE, n |-> n, value |-> LebValue(SubSeq(b, p + 1, p + n)) % Word]
  BY <1>5, <1>6, Zenon
<1>. QED
  BY <1>7 DEF s, p

LEMMA ReadIsHere ==
    ASSUME NEW b \in Seq(Nat), NEW o \in Nat, GoodHeader(b, o),
           ReadULEB128(SubSeq(b, o + HeaderLen + 1, Len(b))).ok
    PROVE  \E n, e : ChunkHere(b, o, n, e)
<1> DEFINE H == HeaderLen
           p == o + H
           L == Len(b)
           s == SubSeq(b, p + 1, L)
<1>1. H \in Nat /\ p \in Nat /\ L \in Nat /\ p <= L /\ L <= Len(b)
  BY HeaderType DEF GoodHeader
<1>2. ReadULEB128(s).ok
  OBVIOUS
<1> HIDE DEF p
<1>3. s \in Seq(Nat) /\ Len(s) = L - p /\ \A i \in 1 .. L - p : s[i] = b[p + i]
  BY <1>1, Window
<1> HIDE DEF s
<1>4. PICK n : Leb(s, n)
  BY <1>2, <1>3, LebOk
<1>5. n \in Nat /\ n >= 1 /\ n <= MaxLeb /\ p + n <= L
  <2> HIDE DEF L
  <2>. QED
    BY <1>1, <1>3, <1>4 DEF Leb
<1>6. \A i \in 1 .. n : (b[p + i] >= Base) <=> (i < n)
  <2>1. \A i \in 1 .. n : s[i] = b[p + i]
    <3> HIDE DEF L
    <3>1. \A i \in 1 .. n : i \in 1 .. L - p
      BY <1>1, <1>5
    <3>. QED
      BY <1>3, <3>1, Zenon
  <2>. QED
    BY <1>4, <2>1 DEF Leb
<1>7. ChunkHere(b, o, n, p + n + LebValue(SubSeq(b, p + 1, p + n)))
  BY <1>5, <1>6 DEF ChunkHere, p
<1>. QED
  BY <1>7

\* The loop reads the chunk that is there, and sees its end where it is, when
\* no end that it comes to is beyond the word.
LEMMA HereIsEnd ==
    ASSUME raw \in Seq(Nat), LengthsFit, NEW o \in Nat, NEW n, NEW e, ChunkHere(raw, o, n, e),
           IsChunks(SubSeq(raw, 1, o)),
           NEW leb, leb = ReadULEB128(SubSeq(raw, o + HeaderLen + 1, Len(raw)))
    PROVE  leb.ok = TRUE /\ ChunkEnd(o, leb) = e /\ e \in Nat
<1> DEFINE p == o + HeaderLen
           v == LebValue(SubSeq(raw, o + HeaderLen + 1, o + HeaderLen + n))
           L == Len(raw)
<1>1. leb = [ok |-> TRUE, n |-> n, value |-> v % Word]
  BY HereIsRead
<1>2. leb.ok = TRUE /\ leb.n = n /\ leb.value = v % Word
  BY <1>1
<1>3. /\ p \in 0 .. L /\ o \in 0 .. L /\ n \in Nat /\ o + HeaderLen + n <= L
      /\ HeaderLen \in Nat /\ L \in Nat /\ Word \in Nat /\ e = o + HeaderLen + n + v
  <2>1. n \in Nat /\ o + HeaderLen + n <= L /\ e = o + HeaderLen + n + v
    BY DEF ChunkHere
  <2>2. HeaderLen \in Nat /\ L \in Nat /\ Word \in Nat
    BY HeaderType, WireAssumption
  <2> HIDE DEF L, v
  <2>. QED
    BY <2>1, <2>2
<1>4. e < Word
  <2>1. GoodHeader(raw, o)
    BY DEF ChunkHere
  <2>2. p + leb.n + LebValue(SubSeq(raw, p + 1, p + leb.n)) < Word
    BY <1>2, <1>3, <2>1 DEF LengthsFit
  <2>. QED
    BY <1>2, <1>3, <2>2
<1>5. v \in Nat
  <2> DEFINE r == p + n
  <2>1. p \in Nat /\ r \in Nat /\ p <= r /\ r <= L
    BY <1>3
  <2>2. SubSeq(raw, p + 1, r) \in Seq(Nat)
    <3> HIDE DEF p, r
    <3>. QED
      BY <2>1, Window
  <2>. QED
    BY <2>2, LebType
<1> HIDE DEF v, L
<1>6. v < Word /\ e \in Nat /\ e < Word
  BY <1>3, <1>4, <1>5
<1>7. v % Word = v
  BY <1>3, <1>5, <1>6, ModSmall
<1>8. o + HeaderLen + leb.n + leb.value = e
  BY <1>2, <1>3, <1>7
<1>9. e % Word = e
  BY <1>3, <1>6, ModSmall
<1>. QED
  BY <1>2, <1>6, <1>8, <1>9 DEF ChunkEnd

\* ends are the ends of chunks that make up b.
CutsInto(b, ends) ==
    /\ ends \in SUBSET (1 .. Len(b))
    /\ b # <<>> => Len(b) \in ends
    /\ \A e \in ends : IsChunk(SubSeq(b, Max({x \in ends \cup {0} : x < e}) + 1, e))

LEMMA CutsIntoChunks ==
    ASSUME NEW b
    PROVE  IsChunks(b) <=> \E ends : CutsInto(b, ends)
BY DEF IsChunks, CutsInto

\* Between two neighbouring ends there is a chunk.
LEMMA NextEnd ==
    ASSUME NEW b \in Seq(Nat), NEW ends, CutsInto(b, ends), NEW o \in Nat, o \in ends \cup {0}, o < Len(b)
    PROVE  \E e \in ends : e \in Nat /\ o < e /\ e <= Len(b) /\ IsChunk(SubSeq(b, o + 1, e))
<1> DEFINE later == {x \in ends : x > o}
<1>1. ends \subseteq 1 .. Len(b) /\ Len(b) \in Nat
  BY DEF CutsInto
<1>2. Len(b) \in ends
  <2>1. b # <<>>
    BY EmptySeq
  <2>. QED
    BY <2>1 DEF CutsInto
<1>3. later \in SUBSET Nat /\ later # {}
  <2>1. Len(b) \in later
    BY <1>1, <1>2
  <2>2. \A x \in later : x \in Nat
    BY <1>1
  <2> HIDE DEF later
  <2>. QED
    BY <2>1, <2>2
<1>4. PICK e \in later : \A x \in later : e <= x
  <2> HIDE DEF later
  <2>. QED
    BY <1>3, Least
<1>5. e \in ends /\ e > o /\ e \in Nat /\ e <= Len(b)
  BY <1>1, <1>4
<1> DEFINE before == {x \in ends \cup {0} : x < e}
<1>6. o \in before
  BY <1>5
<1>7. ASSUME NEW x \in before PROVE x \in Nat /\ o >= x
  <2>1. x \in Nat /\ x < e /\ (x \in ends \/ x = 0)
    BY <1>1
  <2>2. x > o => x \in later /\ e <= x
    BY <1>4, <2>1
  <2>. QED
    BY <1>5, <2>1, <2>2
<1>8. Max(before) = o
  <2> HIDE DEF before
  <2>1. PICK y : y = Max(before)
    OBVIOUS
  <2>2. y \in before /\ \A x \in before : y >= x
    BY <1>6, <1>7, <2>1 DEF Max
  <2>3. y \in Nat /\ o >= y /\ y >= o
    BY <1>6, <1>7, <2>2
  <2>4. y = o
    BY <2>3
  <2>. QED
    BY <2>1, <2>4
<1>9. IsChunk(SubSeq(b, Max(before) + 1, e))
  BY <1>5 DEF CutsInto
<1>10. IsChunk(SubSeq(b, o + 1, e))
  BY <1>8, <1>9
<1>. QED
  BY <1>5, <1>10

LEMMA MaxIs ==
    ASSUME NEW T, NEW k \in Nat, T \subseteq 0 .. k, T # {}
    PROVE  Max(T) \in T /\ \A x \in T : x <= Max(T)
<1> DEFINE U == {k - x : x \in T}
<1>1. U \in SUBSET Nat /\ U # {}
  <2>1. ASSUME NEW x \in T PROVE k - x \in Nat
    <3>1. x \in 0 .. k
      OBVIOUS
    <3>. QED
      BY <3>1
  <2>. QED
    BY <2>1
<1>2. PICK u \in U : \A x \in U : u <= x
  <2> HIDE DEF U
  <2>. QED
    BY <1>1, Least
<1>3. PICK m \in T : u = k - m
  BY <1>2
<1>4. ASSUME NEW x \in T PROVE m >= x
  <2>1. k - x \in U
    OBVIOUS
  <2>2. k - m <= k - x
    BY <1>2, <1>3, <2>1
  <2>3. x \in 0 .. k /\ m \in 0 .. k
    OBVIOUS
  <2>. QED
    BY <2>2, <2>3, SMTT(30)
<1>5. PICK y : y = Max(T)
  OBVIOUS
<1>6. y \in T /\ \A x \in T : y >= x
  BY <1>4, <1>5 DEF Max
<1>7. ASSUME NEW x \in T PROVE x <= y
  <2>1. x \in Nat /\ y \in Nat /\ y >= x
    BY <1>6
  <2>. QED
    BY <2>1
<1>. QED
  BY <1>5, <1>6, <1>7

\* Bytes that are one chunk after the other stay so with one chunk more.
LEMMA ChunksGrow ==
    ASSUME NEW b \in Seq(Nat), NEW o \in Nat, NEW e \in Nat, o < e, e <= Len(b),
           IsChunks(SubSeq(b, 1, o)), IsChunk(SubSeq(b, o + 1, e))
    PROVE  IsChunks(SubSeq(b, 1, e))
<1> DEFINE u == SubSeq(b, 1, o)
           w == SubSeq(b, 1, e)
<1>1. o <= Len(b) /\ Len(b) \in Nat /\ 0 \in Nat /\ 0 <= o /\ 0 <= e /\ 0 + 1 = 1
  OBVIOUS
<1>2. u \in Seq(Nat) /\ Len(u) = o
  <2>1. SubSeq(b, 0 + 1, o) \in Seq(Nat) /\ Len(SubSeq(b, 0 + 1, o)) = o - 0
    BY <1>1, Window
  <2>. QED
    BY <1>1, <2>1
<1>3. w \in Seq(Nat) /\ Len(w) = e
  <2>1. SubSeq(b, 0 + 1, e) \in Seq(Nat) /\ Len(SubSeq(b, 0 + 1, e)) = e - 0
    BY <1>1, Window
  <2>. QED
    BY <1>1, <2>1
<1>4. ASSUME NEW x \in Nat, x <= e, NEW p \in Nat, p <= x
      PROVE  SubSeq(w, p + 1, x) = SubSeq(b, p + 1, x)
  <2>1. SubSeq(SubSeq(b, 0 + 1, e), p + 1, x) = SubSeq(b, 0 + p + 1, 0 + x)
    BY <1>1, <1>4, WindowOfWindow
  <2>2. 0 + p + 1 = p + 1 /\ 0 + x = x
    OBVIOUS
  <2>. QED
    BY <1>1, <2>1, <2>2
<1>5. ASSUME NEW x \in Nat, x <= o, NEW p \in Nat, p <= x
      PROVE  SubSeq(u, p + 1, x) = SubSeq(b, p + 1, x)
  <2>1. SubSeq(SubSeq(b, 0 + 1, o), p + 1, x) = SubSeq(b, 0 + p + 1, 0 + x)
    BY <1>1, <1>5, WindowOfWindow
  <2>2. 0 + p + 1 = p + 1 /\ 0 + x = x
    OBVIOUS
  <2>. QED
    BY <1>1, <2>1, <2>2
<1>6. PICK ends : CutsInto(u, ends)
  <2>1. IsChunks(u)
    OBVIOUS
  <2> HIDE DEF u
  <2>. QED
    BY <2>1, CutsIntoChunks
<1> HIDE DEF u, w
<1>7. ends \subseteq 1 .. o /\ o \in ends \cup {0}
  <2>1. ends \subseteq 1 .. o /\ (u # <<>> => o \in ends)
    BY <1>2, <1>6 DEF CutsInto
  <2>2. u = <<>> => o = 0
    BY <1>2
  <2>. QED
    BY <2>1, <2>2
<1> DEFINE more == ends \cup {e}
           Before(x) == {y \in more \cup {0} : y < x}
           Earlier(x) == {y \in ends \cup {0} : y < x}
<1>8. IsChunk(SubSeq(w, Max(Before(e)) + 1, e))
  <2> DEFINE before == Before(e)
  <2>1. before \subseteq 0 .. o /\ o \in before
    <3>1. ASSUME NEW y \in before PROVE y \in 0 .. o
      <4>1. y \in ends \/ y = e \/ y = 0
        OBVIOUS
      <4>2. y < e
        OBVIOUS
      <4>. QED
        BY <1>7, <4>1, <4>2
    <3>2. o \in before
      BY <1>7
    <3>. QED
      BY <3>1, <3>2
  <2>2. PICK m : m = Max(before)
    OBVIOUS
  <2>3. m \in before /\ o <= m
    <3> HIDE DEF before
    <3>. QED
      BY <2>1, <2>2, MaxIs
  <2>4. m = o
    <3> HIDE DEF before
    <3>1. m \in 0 .. o
      BY <2>1, <2>3
    <3>. QED
      BY <2>3, <3>1
  <2>5. SubSeq(w, o + 1, e) = SubSeq(b, o + 1, e)
    <3>1. e <= e /\ o <= e
      OBVIOUS
    <3>. QED
      BY <1>4, <3>1
  <2>6. IsChunk(SubSeq(w, m + 1, e))
    BY <2>4, <2>5
  <2>. QED
    BY <2>2, <2>6
<1>9. ASSUME NEW x \in ends PROVE IsChunk(SubSeq(w, Max(Before(x)) + 1, x))
  <2>1. x \in Nat /\ 1 <= x /\ x <= o /\ x <= e
    BY <1>7
  <2>2. Before(x) = Earlier(x)
    <3>1. ~ (e < x)
      BY <2>1
    <3>. QED
      BY <3>1
  <2> DEFINE earlier == Earlier(x)
  <2>3. earlier \subseteq 0 .. x /\ 0 \in earlier
    <3>1. ASSUME NEW y \in earlier PROVE y \in 0 .. x
      <4>1. y < x /\ (y \in ends \/ y = 0)
        OBVIOUS
      <4>. QED
        BY <1>7, <2>1, <4>1
    <3>2. 0 \in earlier
      BY <2>1
    <3>. QED
      BY <3>1, <3>2
  <2>4. IsChunk(SubSeq(u, Max(earlier) + 1, x))
    BY <1>6 DEF CutsInto
  <2>5. PICK p : p = Max(earlier)
    OBVIOUS
  <2>6. p \in earlier
    <3> HIDE DEF earlier
    <3>. QED
      BY <2>1, <2>3, <2>5, MaxIs
  <2>7. p \in Nat /\ p <= x
    <3>1. p \in 0 .. x
      BY <2>3, <2>6
    <3>. QED
      BY <3>1
  <2>8. SubSeq(w, p + 1, x) = SubSeq(u, p + 1, x)
    BY <1>4, <1>5, <2>1, <2>7
  <2>9. IsChunk(SubSeq(w, p + 1, x))
    BY <2>4, <2>5, <2>8
  <2>. QED
    BY <2>2, <2>5, <2>9
<1>10. CutsInto(w, more)
  <2>1. more \in SUBSET (1 .. Len(w)) /\ Len(w) \in more
    BY <1>1, <1>3, <1>7
  <2>2. \A x \in more : IsChunk(SubSeq(w, Max({y \in more \cup {0} : y < x}) + 1, x))
    BY <1>8, <1>9
  <2> HIDE DEF more
  <2>. QED
    BY <2>1, <2>2 DEF CutsInto
<1>11. IsChunks(w)
  BY <1>10, CutsIntoChunks
<1>. QED
  BY <1>11 DEF w

\* The loop stands at the end of a chunk, wherever the bytes can be cut.
ChunksAt ==
    /\ off \in 0 .. Len(raw) /\ out \in Seq(Seq(Nat))
    /\ FlattenSeq(out) = SubSeq(raw, 1, off)
    /\ IsChunks(SubSeq(raw, 1, off))
    /\ \A i \in 1 .. Len(out) : IsChunk(out[i])
    /\ pc \in {"loop", "split", "ok", "error"}
    /\ pc \in {"split", "ok"} => off = Len(raw)
    /\ \A ends : CutsInto(raw, ends) => off \in ends \cup {0}
    /\ (pc = "error" /\ off < Len(raw)) => ~IsChunks(raw)

ChunkInv == job = "chunks" => raw \in Seq(Nat) /\ (LengthsFit => ChunksAt)

LEMMA FlattenAppend ==
    ASSUME NEW s \in Seq(Seq(Nat)), NEW c \in Seq(Nat)
    PROVE  FlattenSeq(Append(s, c)) = FlattenSeq(s) \o c
<1> DEFINE t == Append(s, c)
           k == Len(s)
<1>1. k \in Nat /\ t \in Seq(Seq(Nat)) /\ Len(t) = k + 1 /\ t[k + 1] = c /\ \A i \in 1 .. k : t[i] = s[i]
  BY AppendProperties
<1> HIDE DEF t
<1>2. SubSeq(t, 0 + 1, k) = s
  <2>1. 0 \in Nat /\ 0 <= k /\ k <= Len(t) /\ k - 0 = k /\ \A i \in 1 .. k : 0 + i = i
    BY <1>1
  <2>2. Len(s) = k - 0 /\ \A i \in 1 .. k - 0 : s[i] = t[0 + i]
    BY <1>1, <2>1
  <2> HIDE DEF k
  <2>. QED
    BY <1>1, <2>1, <2>2, WindowIs
<1>3. SubSeq(t, 1, k) = s
  BY <1>2
<1>4. PICK g : Joins(t, g)
  BY <1>1, JoinsExist
<1>5. k \in 0 .. Len(t) /\ k + 1 \in 1 .. Len(t) /\ (k + 1) - 1 = k
  BY <1>1
<1>6. FlattenSeq(SubSeq(t, 1, k)) = g[k]
  <2> HIDE DEF k
  <2>. QED
    BY <1>1, <1>4, <1>5, FlattenTake
<1>7. FlattenSeq(t) = g[k + 1]
  BY <1>1, <1>4, FlattenIsJoin
<1>8. g[k + 1] = g[k] \o t[k + 1]
  BY <1>4, <1>5, Zenon DEF Joins
<1>9. FlattenSeq(t) = FlattenSeq(s) \o c
  BY <1>1, <1>3, <1>6, <1>7, <1>8, Zenon
<1>. QED
  BY <1>9 DEF t

LEMMA SplitStep ==
    ASSUME raw \in Seq(Nat), LengthsFit, ChunksAt, SplitChangeChunks
    PROVE  ChunksAt'
<1> DEFINE leb == ReadULEB128(SubSeq(raw, off + HeaderLen + 1, Len(raw)))
           end == ChunkEnd(off, leb)
           bad == ~GoodHeader(raw, off) \/ ~leb.ok \/ end > Len(raw)
<1>1. /\ pc = "loop" /\ off < Len(raw) /\ UNCHANGED raw
      /\ \/ bad /\ pc' = "error" /\ UNCHANGED <<off, out>>
         \/ ~bad /\ end < off /\ pc' = "panic" /\ UNCHANGED <<off, out>>
         \/ /\ ~bad /\ end >= off
            /\ out' = Append(out, SubSeq(raw, off + 1, end))
            /\ off' = end
            /\ UNCHANGED pc
  BY DEF SplitChangeChunks
<1>2. /\ off \in Nat /\ off <= Len(raw) /\ Len(raw) \in Nat /\ out \in Seq(Seq(Nat))
      /\ IsChunks(SubSeq(raw, 1, off))
  BY DEF ChunksAt
<1>3. ASSUME NEW n, NEW e, ChunkHere(raw, off, n, e), e <= Len(raw) PROVE ~bad /\ end = e
  <2>1. leb.ok = TRUE /\ end = e /\ e \in Nat
    BY <1>2, <1>3, HereIsEnd
  <2>2. GoodHeader(raw, off)
    BY <1>3 DEF ChunkHere
  <2> HIDE DEF end, leb
  <2>. QED
    BY <1>2, <1>3, <2>1, <2>2
<1>4. ASSUME ~bad PROVE \E n : ChunkHere(raw, off, n, end) /\ end \in Nat /\ end <= Len(raw)
  <2>1. GoodHeader(raw, off) /\ leb.ok /\ ~(end > Len(raw))
    BY <1>4
  <2>2. PICK n, e : ChunkHere(raw, off, n, e)
    BY <1>2, <2>1, ReadIsHere
  <2>3. end = e /\ e \in Nat
    BY <1>2, <2>2, HereIsEnd
  <2> HIDE DEF end, leb
  <2>. QED
    BY <1>2, <2>1, <2>2, <2>3
<1>5. ASSUME NEW ends, CutsInto(raw, ends) PROVE ~bad /\ end \in ends
  <2>1. off \in ends \cup {0}
    BY <1>5 DEF ChunksAt
  <2>2. PICK e \in ends : e \in Nat /\ off < e /\ e <= Len(raw) /\ IsChunk(SubSeq(raw, off + 1, e))
    BY <1>1, <1>2, <1>5, <2>1, NextEnd
  <2>3. off <= e
    BY <1>2, <2>2
  <2>4. PICK n : ChunkHere(raw, off, n, e)
    BY <1>2, <2>2, <2>3, ChunkIsHere
  <2>5. ~bad /\ end = e
    BY <1>3, <2>2, <2>4
  <2> HIDE DEF bad, end
  <2>. QED
    BY <2>2, <2>5
<1> HIDE DEF bad, end, leb
<1>6. CASE bad
  <2>1. pc' = "error" /\ UNCHANGED <<off, out, raw>>
    BY <1>1, <1>6
  <2>2. ~IsChunks(raw)
    BY <1>5, <1>6, CutsIntoChunks
  <2>3. ~IsChunks(raw)'
    BY <2>1, <2>2 DEF IsChunks
  <2>4. \A ends : CutsInto(raw, ends)' => off' \in ends \cup {0}
    BY <1>5, <1>6, <2>1 DEF CutsInto
  <2>. QED
    BY <2>1, <2>3, <2>4 DEF ChunksAt
<1>7. CASE ~bad
  <2>1. PICK n : ChunkHere(raw, off, n, end) /\ end \in Nat /\ end <= Len(raw)
    BY <1>4, <1>7
  <2> DEFINE c == SubSeq(raw, off + 1, end)
  <2>2. off < end /\ IsChunk(c)
    BY <1>2, <2>1, HereIsChunk
  <2>3. ~(end < off)
    BY <1>2, <2>1, <2>2
  <2>4. out' = Append(out, c) /\ off' = end /\ pc' = "loop" /\ raw' = raw
    BY <1>1, <1>7, <2>3
  <2>5. c \in Seq(Nat)
    BY <1>2, <2>1, <2>2, Window
  <2>6. FlattenSeq(out') = SubSeq(raw, 1, end)
    <3>1. FlattenSeq(out') = FlattenSeq(out) \o c
      BY <1>2, <2>4, <2>5, FlattenAppend
    <3>2. FlattenSeq(out) = SubSeq(raw, 1, off)
      BY DEF ChunksAt
    <3>3. /\ 1 \in 1 .. Len(raw) + 1 /\ off \in 1 - 1 .. Len(raw) /\ end \in off .. Len(raw)
      BY <1>2, <2>1, <2>2
    <3>4. SubSeq(raw, 1, off) \o SubSeq(raw, off + 1, end) = SubSeq(raw, 1, end)
      BY <3>3, ConcatAdjacentSubSeq
    <3>. QED
      BY <3>1, <3>2, <3>4, Zenon
  <2>7. out' \in Seq(Seq(Nat)) /\ \A i \in 1 .. Len(out') : IsChunk(out'[i])
    <3> HIDE DEF c
    <3>1. /\ out' \in Seq(Seq(Nat)) /\ Len(out') = Len(out) + 1 /\ Len(out) \in Nat
          /\ \A i \in 1 .. Len(out) : out'[i] = out[i]
          /\ out'[Len(out) + 1] = c
      BY <1>2, <2>4, <2>5, AppendProperties
    <3>2. ASSUME NEW i \in 1 .. Len(out') PROVE IsChunk(out'[i])
      <4>1. i \in 1 .. Len(out) \/ i = Len(out) + 1
        BY <3>1
      <4>. QED
        BY <2>2, <3>1, <4>1 DEF ChunksAt
    <3>. QED
      BY <3>1, <3>2
  <2>8. off' \in 0 .. Len(raw')
    BY <2>1, <2>4
  <2>9. \A ends : CutsInto(raw, ends)' => off' \in ends \cup {0}
    BY <1>5, <2>4 DEF CutsInto
  <2>10. IsChunks(SubSeq(raw, 1, end))
    BY <1>2, <2>1, <2>2, ChunksGrow
  <2> HIDE DEF c
  <2>. QED
    BY <2>4, <2>6, <2>7, <2>8, <2>9, <2>10 DEF ChunksAt
<1>. QED
  BY <1>6, <1>7

LEMMA BuffersType == Buffers \subseteq Seq(Nat)
<1>1. Byte \subseteq Nat /\ SumLen \in Nat /\ MaxRaw \in Nat /\ MaxRaw - 1 \in Nat
  BY WireTypes, WireAssumption
<1>2. ASSUME NEW k \in Int, NEW b \in [1 .. k -> Byte] PROVE b \in Seq(Nat)
  <2>1. CASE k >= 0
    <3>1. k \in Nat
      BY <2>1
    <3>2. b \in [1 .. k -> Nat]
      <4>1. Byte \subseteq Nat
        BY <1>1
      <4>. QED
        BY <1>2, <4>1
    <3>. QED
      BY <3>1, <3>2, FcnIsSeq
  <2>2. CASE k < 0
    <3>1. 1 .. k = 1 .. 0
      BY <2>2
    <3>2. 0 \in Nat /\ b \in [1 .. 0 -> Nat]
      BY <1>1, <3>1
    <3>. QED
      BY <3>2, FcnIsSeq
  <2>. QED
    BY <2>1, <2>2
<1>3. Header \in Seq(Nat) /\ EmptyChunk \in Seq(Nat)
  <2> DEFINE z == [i \in 1 .. SumLen |-> 0]
             m == Magic \o z
  <2>1. z \in [1 .. SumLen -> Nat]
    OBVIOUS
  <2> HIDE DEF z
  <2>2. z \in Seq(Nat)
    BY <1>1, <2>1, FcnIsSeq
  <2>3. m \in Seq(Nat)
    BY <2>2, HeaderType, ConcatProperties
  <2>4. <<1>> \in Seq(Nat) /\ <<0>> \in Seq(Nat)
    OBVIOUS
  <2>5. Header = m \o <<1>>
    BY DEF Header, z
  <2> HIDE DEF m
  <2>6. Header \in Seq(Nat)
    BY <2>3, <2>4, <2>5, ConcatProperties
  <2>. QED
    BY <2>4, <2>6, ConcatProperties DEF EmptyChunk
<1>4. ASSUME NEW b \in SeqOf(Byte, MaxRaw - 1) PROVE b \in Seq(Nat)
  <2>1. b \in Seq(Byte)
    BY <1>1, SeqOfType
  <2>. QED
    BY <1>1, <2>1, SeqMonotonic
<1>5. ASSUME NEW b \in [1 .. MaxRaw - 1 -> Byte] PROVE Magic \o b \in Seq(Nat)
  <2>1. b \in Seq(Nat)
    BY <1>1, <1>2
  <2>. QED
    BY <2>1, HeaderType, ConcatProperties
<1>6. ASSUME NEW b \in [1 .. MaxRaw - 3 -> Byte] PROVE EmptyChunk \o Header \o b \in Seq(Nat)
  <2>1. b \in Seq(Nat)
    BY <1>1, <1>2
  <2> DEFINE u == EmptyChunk \o Header
  <2>2. u \in Seq(Nat)
    BY <1>3, ConcatProperties
  <2> HIDE DEF u
  <2>3. u \o b \in Seq(Nat)
    BY <2>1, <2>2, ConcatProperties
  <2>. QED
    BY <2>3 DEF u
<1>. QED
  BY <1>4, <1>5, <1>6 DEF Buffers

LEMMA ChunkInit == WireInit \/ WireIdle => ChunkInv
<1> SUFFICES ASSUME WireInit, job = "chunks" PROVE raw \in Seq(Nat) /\ ChunksAt
  BY DEF ChunkInv, WireIdle
<1>1. off = 0 /\ out = <<>> /\ pc = "loop" /\ raw \in Buffers
  BY DEF WireInit
<1>2. raw \in Seq(Nat)
  BY <1>1, BuffersType
<1>3. Len(raw) \in Nat
  BY <1>2
<1>4. out \in Seq(Seq(Nat)) /\ Len(out) = 0
  BY <1>1, EmptySeq
<1>5. FlattenSeq(out) = <<>>
  BY <1>1, <1>4 DEF FlattenSeq
<1>6. SubSeq(raw, 1, off) = <<>>
  BY <1>1, SubSeqEmpty
<1>7. FlattenSeq(out) = SubSeq(raw, 1, off)
  BY <1>5, <1>6, Zenon
<1>0. off \in 0 .. Len(raw)
  <2>1. off = 0
    BY <1>1
  <2>. QED
    BY <1>3, <2>1
<1>8. \A i \in 1 .. Len(out) : FALSE
  BY <1>4
<1>9. \A ends : off \in ends \cup {0}
  BY <1>1
<1>10. pc = "loop"
  BY <1>1
<1>11. IsChunks(SubSeq(raw, 1, off))
  <2>1. CutsInto(<<>>, {})
    BY DEF CutsInto
  <2>2. IsChunks(<<>>)
    BY <2>1, CutsIntoChunks
  <2>. QED
    BY <1>6, <2>2
<1>. QED
  BY <1>0, <1>2, <1>4, <1>7, <1>8, <1>9, <1>10, <1>11 DEF ChunksAt

LEMMA ChunkNext == ChunkInv /\ [WireNext]_wireVars => ChunkInv'
<1> SUFFICES ASSUME ChunkInv, [WireNext]_wireVars, job' = "chunks"
             PROVE  raw' \in Seq(Nat) /\ (LengthsFit' => ChunksAt')
  BY DEF ChunkInv
<1>1. job' = job /\ raw' = raw
  BY DEF WireNext, wireVars, SplitChangeChunks, SplitDone, ParseRawChanges, ParseItems,
         ParseLengthPrefixedList, ObjKeys, ParseChangeHashes, ParseChangeInfo
<1>2. raw \in Seq(Nat) /\ raw' \in Seq(Nat)
  BY <1>1 DEF ChunkInv
<1> SUFFICES ASSUME LengthsFit' PROVE ChunksAt'
  BY <1>2
<1>3. LengthsFit /\ ChunksAt
  BY <1>1 DEF ChunkInv, LengthsFit
<1>4. CASE UNCHANGED wireVars
  BY <1>3, <1>4 DEF wireVars, ChunksAt, CutsInto, IsChunks
<1>5. CASE SplitChangeChunks
  BY <1>2, <1>3, <1>5, SplitStep
<1>6. CASE SplitDone
  <2>1. off = Len(raw) /\ UNCHANGED <<off, out, raw>> /\ pc' \in {"ok", "split"}
    BY <1>2, <1>3, <1>6 DEF SplitDone, ChunksAt
  <2>. QED
    BY <1>3, <2>1 DEF ChunksAt, CutsInto
<1>7. CASE ParseRawChanges
  <2>1. off = Len(raw) /\ UNCHANGED <<off, out, raw>> /\ pc' \in {"ok", "error"}
    BY <1>3, <1>7 DEF ParseRawChanges, ChunksAt
  <2>2. ~(off' < Len(raw'))
    BY <1>2, <2>1
  <2>. QED
    BY <1>3, <2>1, <2>2 DEF ChunksAt, CutsInto
<1>8. CASE ParseLengthPrefixedList \/ ObjKeys \/ ParseChangeHashes \/ ParseChangeInfo
  BY <1>1, <1>8 DEF ParseLengthPrefixedList, ObjKeys, ParseItems, ParseChangeHashes, ParseChangeInfo
<1>. QED
  BY <1>4, <1>5, <1>6, <1>7, <1>8 DEF WireNext

\* LoadChanges takes apart exactly what is one chunk after the other, and into
\* these chunks, for every byte string and every width, as long as the chunks
\* that the loop comes to end within a word.
THEOREM ChunksExact == WireSpec => []SplitExact
<1>1. WireSpec => []ChunkInv
  BY ChunkInit, ChunkNext, PTL DEF WireSpec
<1>2. ChunkInv => SplitExact
  <2> SUFFICES ASSUME ChunkInv, job = "chunks", LengthsFit PROVE SplitExact
    BY DEF SplitExact
  <2>1. raw \in Seq(Nat) /\ ChunksAt
    BY DEF ChunkInv
  <2>2. pc \in {"split", "ok"} => SaveChanges(out) = raw
    BY <2>1, SubSeqFull DEF ChunksAt, SaveChanges
  <2>. QED
    BY <2>1, <2>2 DEF ChunksAt, SplitExact
<1>. QED
  BY <1>1, <1>2, PTL
=============================================================================
