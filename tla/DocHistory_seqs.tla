-------------------------- MODULE DocHistory_seqs --------------------------
(***************************************************************************)
(* The sequence numbers of changes.  In every history they are dense, also *)
(* when documents share actors.  When they do not, no batch is ever refused *)
(* or trapped, queues hold only changes that wait, and saved bytes load.   *)
(***************************************************************************)
EXTENDS DocHistory_steps

-----------------------------------------------------------------------------
(* Sequence numbers *)

\* No two changes of S have the same actor and number.
Distinct(c, S) == \A x, y \in S : SameSeq(c, x, y) => x = y

\* Of every actor, a closed set of changes has all that come before one it has.
Numbered(c) ==
    \A H \in SUBSET Names(c) :
        Deps(c, H) \subseteq H =>
            \A x \in H : /\ c[x].seq >= 1
                         /\ \A j \in 1 .. c[x].seq :
                               \E y \in H : c[y].actor = c[x].actor /\ c[y].seq = j

\* With Numbered, a history without repetitions has no gaps: the numbers of an
\* actor are as many as its changes and reach down to 1.
LEMMA DistinctIsDense ==
    ASSUME NEW c, GoodLog(c), Numbered(c), NEW H \in SUBSET Names(c),
           Deps(c, H) \subseteq H, Distinct(c, H), NEW a
    PROVE  {c[x].seq : x \in By(c, H, a)} = 1 .. SeqForActor(c, H, a)
<1> DEFINE B == By(c, H, a)
           I == {c[x].seq : x \in B}
           n == SeqForActor(c, H, a)
           f == [x \in B |-> c[x].seq]
<1>1. IsFiniteSet(B) /\ n \in Nat /\ n = Cardinality(B)
  <2>1. Len(c) \in Nat
    BY DEF GoodLog
  <2>2. IsFiniteSet(Names(c))
    BY <2>1, FS_Interval DEF Names
  <2>3. B \in SUBSET Names(c)
    BY DEF By
  <2>. QED
    BY <2>1, <2>2, <2>3, FS_Subset, SeqForActorType DEF SeqForActor, Names
<1>2. B \subseteq H /\ \A x \in B : c[x].actor = a /\ c[x].seq \in Nat /\ c[x].seq >= 1
  <2>1. B \subseteq H /\ \A x \in B : c[x].actor = a
    BY DEF By
  <2>2. \A x \in H : c[x] \in Change
    BY DEF GoodLog, Names
  <2>3. \A x \in H : c[x].seq \in Nat
    BY <2>2 DEF Change
  <2>4. \A x \in H : c[x].seq >= 1
    BY DEF Numbered
  <2>. QED
    BY <2>1, <2>3, <2>4
<1>3. \A x, y \in B : c[x].seq = c[y].seq => x = y
  BY <1>2 DEF Distinct, SameSeq
<1>4. f \in Surjection(B, I) /\ f \in Injection(B, I)
  BY <1>3 DEF Surjection, Injection, IsInjective
<1>5. IsFiniteSet(I) /\ Cardinality(I) = n
  BY <1>1, <1>4, FS_Surjection
<1>6. ASSUME NEW x \in B PROVE c[x].seq \in 1 .. n
  <2>1. 1 .. c[x].seq \subseteq I
    <3>1. ASSUME NEW j \in 1 .. c[x].seq PROVE j \in I
      <4>1. PICK y \in H : c[y].actor = c[x].actor /\ c[y].seq = j
        BY <1>2 DEF Numbered
      <4>2. y \in B
        BY <1>2, <4>1 DEF By
      <4>. QED
        BY <4>1, <4>2
    <3>. QED
      BY <3>1
  <2>2. Cardinality(1 .. c[x].seq) = c[x].seq
    BY <1>2, FS_Interval
  <2>3. Cardinality(1 .. c[x].seq) <= Cardinality(I)
    BY <1>5, <2>1, FS_Subset
  <2>. QED
    BY <1>1, <1>2, <1>5, <2>2, <2>3
<1>7. I \subseteq 1 .. n
  BY <1>6
<1> HIDE DEF I, n, B
<1>8. IsFiniteSet(1 .. n) /\ Cardinality(1 .. n) = n
  BY <1>1, FS_Interval
<1>9. I = 1 .. n
  BY <1>5, <1>7, <1>8, FS_Subset
<1>. QED
  BY <1>9 DEF I, B, n

\* The next change of an actor carries a number that the history does not have.
LEMMA CommittedDistinct ==
    ASSUME NEW c, GoodLog(c), Numbered(c), NEW s, GoodDoc(c, s), Distinct(c, s.hist)
    PROVE  Distinct(CommitLog(c, s), Committed(c, s).hist) /\ Numbered(CommitLog(c, s))
<1> DEFINE c2 == CommitLog(c, s)
           h  == Len(c) + 1
           n  == SeqForActor(c, s.hist, s.actor)
<1>1. /\ Extends(c, c2) /\ Len(c2) = h /\ c2[h] = NextChange(c, s)
      /\ GoodLog(c2) /\ Len(c) \in Nat
  BY CommitExtends DEF Extends, GoodLog
<1>2. s \in DocStateOf(c) /\ s.hist \in SUBSET Names(c) /\ Deps(c, s.hist) \subseteq s.hist
  BY DEF GoodDoc, DocStateOf
<1>3. {c[x].seq : x \in By(c, s.hist, s.actor)} = 1 .. n
  BY <1>2, DistinctIsDense
<1>4. n \in Nat
  BY <1>1, <1>2, SeqForActorType DEF Names
<1>5. /\ c2[h].actor = s.actor /\ c2[h].seq = n + 1
      /\ {x \in By(c, s.hist, s.actor) : c[x].seq = n} \subseteq c2[h].deps
  BY <1>1 DEF NextChange
<1>6. Committed(c, s).hist = s.hist \cup {h}
  BY <1>2 DEF Committed, DocStateOf
<1>7. \A x \in Names(c) : c2[x] = c[x]
  BY <1>1 DEF Extends
<1> HIDE DEF c2, h, n
<1>8. \A x \in s.hist : c[x].actor = s.actor => c[x].seq \in 1 .. n
  BY <1>3 DEF By
<1>9. Distinct(c2, s.hist \cup {h})
  <2>1. ASSUME NEW x \in s.hist, NEW y \in s.hist, SameSeq(c2, x, y) PROVE x = y
    BY <1>2, <1>7, <2>1 DEF Distinct, SameSeq
  <2>2. ASSUME NEW x \in s.hist PROVE ~SameSeq(c2, x, h) /\ ~SameSeq(c2, h, x)
    <3>1. c2[x].actor = s.actor => c2[x].seq \in 1 .. n
      BY <1>2, <1>7, <1>8
    <3>. QED
      BY <1>4, <1>5, <3>1 DEF SameSeq
  <2>. QED
    BY <2>1, <2>2 DEF Distinct
<1>10. ASSUME NEW H \in SUBSET Names(c2), Deps(c2, H) \subseteq H, NEW x \in H
       PROVE  /\ c2[x].seq >= 1
              /\ \A j \in 1 .. c2[x].seq :
                    \E y \in H : c2[y].actor = c2[x].actor /\ c2[y].seq = j
  <2> DEFINE G == H \ {h}
  <2>1. G \in SUBSET Names(c)
    <3>1. Names(c2) = Names(c) \cup {h}
      BY <1>1 DEF Names, h
    <3>. QED
      BY <3>1
  <2>2. Deps(c, G) \subseteq G
    <3>1. ASSUME NEW z \in G, NEW y \in c[z].deps PROVE y \in G
      <4>1. z \in Names(c) /\ c2[z].deps = c[z].deps /\ c[z].deps \subseteq 1 .. (z - 1)
        BY <1>7, <2>1 DEF GoodLog
      <4>2. y \in H
        BY <1>10, <4>1, <3>1, DepsMember
      <4>3. y # h
        BY <1>1, <4>1 DEF Names, h
      <4>. QED
        BY <4>2, <4>3
    <3>. QED
      BY <3>1, DepsMember
  <2>3. ASSUME NEW z \in G
        PROVE  /\ c2[z].seq >= 1
               /\ \A j \in 1 .. c2[z].seq :
                     \E y \in G : c2[y].actor = c2[z].actor /\ c2[y].seq = j
    <3>1. /\ c[z].seq >= 1
          /\ \A j \in 1 .. c[z].seq :
                \E y \in G : c[y].actor = c[z].actor /\ c[y].seq = j
      BY <2>1, <2>2 DEF Numbered
    <3>2. \A y \in G : c2[y] = c[y]
      BY <1>7, <2>1
    <3>. QED
      BY <3>1, <3>2
  <2>4. CASE x # h
    BY <2>3, <2>4
  <2>5. CASE x = h
    <3>1. c2[x].seq = n + 1
      BY <1>5, <2>5
    <3>2. ASSUME NEW j \in 1 .. n
          PROVE  \E y \in H : c2[y].actor = c2[x].actor /\ c2[y].seq = j
      <4>1. n \in 1 .. n
        BY <1>4
      <4>2. PICK z \in By(c, s.hist, s.actor) : c[z].seq = n
        BY <1>3, <4>1
      <4>3. z \in c2[h].deps /\ z \in Names(c) /\ c[z].actor = s.actor
        BY <1>2, <1>5, <4>2 DEF By
      <4>4. z \in G
        <5>1. z \in H
          BY <1>10, <2>5, <4>3, DepsMember
        <5>2. z # h
          BY <1>1, <4>3 DEF Names, h
        <5>. QED
          BY <5>1, <5>2
      <4>5. c2[z].seq = n /\ c2[z].actor = c2[x].actor
        BY <1>5, <1>7, <2>5, <4>2, <4>3
      <4>. QED
        BY <2>3, <4>4, <4>5
    <3>. QED
      BY <1>4, <1>5, <2>5, <3>1, <3>2
  <2>. QED
    BY <2>4, <2>5
<1>11. Numbered(c2)
  BY <1>10 DEF Numbered
<1>. QED
  BY <1>6, <1>9, <1>11 DEF c2

\* The assertion of add_changes is enough to keep numbers apart, although it
\* compares counts only: a repeated number would leave one too few below it.
LEMMA AppliedDistinct ==
    ASSUME NEW c, GoodLog(c), Numbered(c), NEW s, GoodDoc(c, s), Distinct(c, s.hist),
           NEW batch \in SUBSET Names(c), ~SeqAssertFails(c, s, batch)
    PROVE  Distinct(c, BatchApplied(c, s, batch).hist)
<1> DEFINE T         == BatchApplied(c, s, batch).hist
           ready     == T \ s.hist
           Before(x) == s.hist \cup {y \in ready \ {x} : c[y].seq <= c[x].seq}
<1>1. s \in DocStateOf(c) /\ s.hist \in SUBSET Names(c) /\ Deps(c, s.hist) \subseteq s.hist
  BY DEF GoodDoc, DocStateOf
<1>2. T \in SUBSET Names(c) /\ Deps(c, T) \subseteq T
  BY BatchAppliedGood DEF GoodDoc, DocStateOf
<1>3. s.hist \subseteq T
  BY <1>1 DEF BatchApplied, DocStateOf
<1>4. \A x \in ready : c[x].seq = SeqForActor(c, Before(x), c[x].actor) + 1
  BY DEF SeqAssertFails
<1> HIDE DEF T
<1>5. Len(c) \in Nat /\ IsFiniteSet(Names(c))
  BY FS_Interval DEF GoodLog, Names
<1>6. \A x \in T : c[x].seq \in Nat
  <2>1. \A x \in T : c[x] \in Change
    BY <1>2 DEF GoodLog, Names
  <2>. QED
    BY <2>1 DEF Change
<1>7. \A x \in ready : Before(x) \in SUBSET Names(c)
  BY <1>1, <1>2
<1>8. ASSUME NEW x \in ready, NEW y \in s.hist PROVE ~SameSeq(c, x, y)
  <2> DEFINE a == c[x].actor
  <2>1. SUFFICES ASSUME c[y].actor = a PROVE c[y].seq # c[x].seq
    BY DEF SameSeq
  <2>2. c[y].seq \in 1 .. SeqForActor(c, s.hist, a)
    <3>1. y \in By(c, s.hist, a)
      BY <2>1 DEF By
    <3>. QED
      BY <1>1, <3>1, DistinctIsDense, ZenonT(60)
  <2>3. SeqForActor(c, s.hist, a) <= SeqForActor(c, Before(x), a)
    <3>1. By(c, s.hist, a) \in SUBSET By(c, Before(x), a)
      BY DEF By
    <3>2. By(c, Before(x), a) \in SUBSET Names(c)
      BY <1>7 DEF By
    <3>3. IsFiniteSet(By(c, Before(x), a))
      BY <1>5, <3>2, FS_Subset
    <3>. QED
      BY <3>1, <3>3, FS_Subset DEF SeqForActor
  <2>4. SeqForActor(c, s.hist, a) \in Nat /\ SeqForActor(c, Before(x), a) \in Nat
    BY <1>1, <1>5, <1>7, SeqForActorType DEF Names
  <2>5. c[x].seq = SeqForActor(c, Before(x), a) + 1
    BY <1>4
  <2> HIDE DEF Before, a
  <2>. QED
    BY <2>2, <2>3, <2>4, <2>5
<1>9. ASSUME NEW x \in ready, NEW y \in ready, x # y, SameSeq(c, x, y) PROVE FALSE
  <2> DEFINE a == c[x].actor
             k == c[x].seq
             Q == By(c, Before(x), a)
             I == {c[z].seq : z \in Q}
             f == [z \in Q |-> c[z].seq]
  <2>1. k = Cardinality(Q) + 1
    BY <1>4 DEF SeqForActor
  <2>2. Q \in SUBSET Names(c)
    BY <1>7 DEF By
  <2>3. IsFiniteSet(Q) /\ Cardinality(Q) \in Nat
    BY <1>5, <2>2, FS_Subset, FS_CardinalityType
  <2>4. f \in Surjection(Q, I)
    BY DEF Surjection
  <2>5. IsFiniteSet(I) /\ Cardinality(I) <= Cardinality(Q)
    BY <2>3, <2>4, FS_Surjection
  <2>6. ASSUME NEW j \in 1 .. k PROVE j \in I
    <3>1. PICK z \in T : c[z].actor = a /\ c[z].seq = j
      BY <1>2 DEF Numbered
    <3>2. CASE j = k
      <4>1. y \in Q /\ c[y].seq = k
        BY <1>6, <1>9 DEF By, SameSeq
      <4>. QED
        BY <3>2, <4>1
    <3>3. CASE j # k
      <4>1. z # x
        BY <3>1, <3>3
      <4>2. c[z].seq <= k
        BY <1>6, <3>1
      <4>3. z \in Before(x)
        BY <3>1, <4>1, <4>2
      <4>4. z \in Q
        BY <3>1, <4>3 DEF By
      <4>. QED
        BY <3>1, <4>4
    <3>. QED
      BY <3>2, <3>3
  <2>7. 1 .. k \in SUBSET I
    BY <2>6
  <2> HIDE DEF I, Q
  <2>8. k \in Nat
    BY <2>1, <2>3
  <2> HIDE DEF k
  <2>9. Cardinality(1 .. k) = k
    BY <2>8, FS_Interval
  <2>10. Cardinality(1 .. k) <= Cardinality(I)
    BY <2>5, <2>7, FS_Subset
  <2>11. Cardinality(I) \in Nat
    BY <2>5, FS_CardinalityType
  <2>. QED
    BY <2>1, <2>3, <2>5, <2>8, <2>9, <2>10, <2>11
<1>10. \A x, y \in s.hist : SameSeq(c, x, y) => x = y
  BY DEF Distinct
<1>11. \A x, y \in T : SameSeq(c, x, y) => SameSeq(c, y, x)
  BY DEF SameSeq
<1>. QED
  <2>1. Distinct(c, T)
    BY <1>3, <1>8, <1>9, <1>10, <1>11 DEF Distinct
  <2>. QED
    BY <2>1 DEF T

\* Whatever becomes of a batch, the numbers of the history stay apart.
LEMMA BatchDistinct ==
    ASSUME NEW c, GoodLog(c), Numbered(c), NEW s, GoodDoc(c, s), Distinct(c, s.hist),
           NEW batch \in SUBSET Names(c), NEW t \in BatchOutcomes(c, s, batch)
    PROVE  Distinct(c, t.hist)
<1>1. s \in DocStateOf(c)
  BY DEF GoodDoc
<1>2. CASE DuplicateSeq(c, s, batch)
  <2>1. PICK P : t = [s EXCEPT !.queue = @ \cup P]
    BY <1>2 DEF BatchOutcomes, BatchRejected
  <2>2. t.hist = s.hist
    BY <1>1, <2>1 DEF DocStateOf
  <2>. QED
    BY <2>2
<1>3. CASE ~DuplicateSeq(c, s, batch) /\ SeqAssertFails(c, s, batch)
  <2>1. t.hist = s.hist
    BY <1>1, <1>3 DEF BatchOutcomes, DocStateOf
  <2>. QED
    BY <2>1
<1>4. CASE ~DuplicateSeq(c, s, batch) /\ ~SeqAssertFails(c, s, batch)
  BY <1>4, AppliedDistinct DEF BatchOutcomes
<1>. QED
  BY <1>2, <1>3, <1>4

\* A load has no assertion, but looks for duplicates in the bytes.
LEMMA CreatedDistinct ==
    ASSUME NEW c, NEW a, NEW u, Created(c, a, u)
    PROVE  Distinct(c, u.hist)
<1>1. CASE u = Blank(a)
  BY <1>1 DEF Blank, Distinct
<1>2. ASSUME NEW f, ~DuplicateSeq(c, Blank(a), FileChanges(f)), u = Loaded(c, f, a)
      PROVE  Distinct(c, u.hist)
  <2>1. Distinct(c, FileChanges(f))
    BY <1>2 DEF DuplicateSeq, Blank, Distinct
  <2>2. u.hist = ReadyIn(c, {}, FileChanges(f))
    BY <1>2 DEF Loaded, BatchApplied, Blank
  <2>3. u.hist \subseteq FileChanges(f)
    BY <2>2, ReadyClosed
  <2>. QED
    BY <2>1, <2>3 DEF Distinct
<1>. QED
  BY <1>1, <1>2 DEF Created

\* A longer log says the same of the numbers a document knows.
LEMMA ExtendsDistinct ==
    ASSUME NEW c, NEW c2, Extends(c, c2), NEW S \in SUBSET Names(c), Distinct(c, S)
    PROVE  Distinct(c2, S)
BY DEF Extends, Distinct, SameSeq

\* The inductive invariant behind DenseSeqs.
SeqInv == Numbered(chg) /\ \A d \in Doc : Distinct(chg, doc[d].hist)

\* What a call begins with satisfies it.
LEMMA BeginsDistinct ==
    ASSUME GoodState, SeqInv, NEW d \in Doc, NEW c, NEW s, Begins(d, c, s)
    PROVE  Numbered(c) /\ Distinct(c, s.hist)
BY CommittedDistinct DEF Begins, SeqInv, GoodState

\* Every step keeps the numbers of every history apart.
LEMMA SeqInvStep ==
    ASSUME GoodState, SeqInv, DocStep, Extends(chg, chg')
    PROVE  SeqInv'
<1>1. Numbered(chg')
  <2>1. CASE \E d \in Doc : CreateStep(d)
    BY <2>1 DEF CreateStep, SeqInv
  <2>2. ASSUME NEW d \in Doc, WorkStep(d) PROVE Numbered(chg')
    BY <2>2, BeginsDistinct DEF WorkStep
  <2>3. ASSUME NEW d \in Doc, NEW e \in Doc, CopyStep(d, e) PROVE Numbered(chg')
    BY <2>3, BeginsDistinct DEF CopyStep, Copies
  <2>. QED
    BY <2>1, <2>2, <2>3 DEF DocStep
<1>2. ASSUME NEW e \in Doc PROVE Distinct(chg', doc'[e].hist)
  <2>1. CASE doc'[e] = doc[e]
    <3>1. doc[e].hist \in SUBSET Names(chg) /\ Distinct(chg, doc[e].hist)
      BY DEF GoodState, DocStateOf, SeqInv
    <3>. QED
      BY <2>1, <3>1, ExtendsDistinct
  <2>2. ASSUME NEW s, Begins(e, chg', s), Works(chg', s, doc'[e])
        PROVE  Distinct(chg', doc'[e].hist)
    <3>1. Numbered(chg') /\ Distinct(chg', s.hist)
      BY <2>2, BeginsDistinct
    <3>2. GoodLog(chg') /\ GoodDoc(chg', s) /\ s \in DocStateOf(chg')
      BY <2>2, BeginsGood DEF GoodDoc
    <3>3. CASE Idles(s, doc'[e])
      BY <3>1, <3>3 DEF Idles
    <3>4. CASE \E batch \in SUBSET Names(chg') : doc'[e] \in BatchOutcomes(chg', s, batch)
      BY <3>1, <3>2, <3>4, BatchDistinct
    <3>5. CASE \E a \in Actor : doc'[e] = [s EXCEPT !.actor = a]
      <4>1. doc'[e].hist = s.hist
        BY <3>2, <3>5 DEF DocStateOf
      <4>. QED
        BY <3>1, <4>1
    <3>. QED
      BY <2>2, <3>3, <3>4, <3>5 DEF Works
  <2>3. CASE \E a \in Actor : Created(chg', a, doc'[e])
    BY <2>3, CreatedDistinct
  <2>. QED
    BY <2>1, <2>2, <2>3, EachDoc
<1>. QED
  BY <1>1, <1>2 DEF SeqInv

\* So does every step of the specification.
LEMMA SeqInvNext ==
    ASSUME GoodState, SeqInv, [Next]_vars
    PROVE  SeqInv'
<1>1. CASE UNCHANGED vars
  BY <1>1 DEF vars, SeqInv
<1>2. CASE Next
  BY <1>2, NextIsDocStep, NextExtends, SeqInvStep
<1>. QED
  BY <1>1, <1>2

\* In every history, the changes of an actor are numbered from 1 without a gap
\* or a repetition, whether or not documents share actors.
THEOREM SeqsAreDense == Spec => []DenseSeqs
<1>1. Init => GoodState /\ SeqInv
  <2> SUFFICES ASSUME Init PROVE GoodState /\ SeqInv
    OBVIOUS
  <2>1. GoodState
    BY InitGood
  <2>2. Names(chg) = {}
    BY DEF Init, Names
  <2>3. \A d \in Doc : doc[d].hist = {}
    BY <2>1, <2>2 DEF GoodState, DocStateOf
  <2>. QED
    BY <2>1, <2>2, <2>3 DEF SeqInv, Numbered, Distinct
<1>2. GoodState /\ SeqInv /\ [Next]_vars => GoodState' /\ SeqInv'
  BY NextGood, SeqInvNext
<1>3. GoodState /\ SeqInv => DenseSeqs
  <2> SUFFICES ASSUME GoodState, SeqInv, NEW d \in Doc, NEW a \in Actor
               PROVE  {chg[x].seq : x \in By(chg, doc[d].hist, a)}
                         = 1 .. SeqForActor(chg, doc[d].hist, a)
    BY DEF DenseSeqs
  <2>1. /\ GoodLog(chg) /\ doc[d].hist \in SUBSET Names(chg)
        /\ Deps(chg, doc[d].hist) \subseteq doc[d].hist
    BY DEF GoodState, GoodDoc, DocStateOf
  <2>. QED
    BY <2>1, DistinctIsDense DEF SeqInv
<1>. QED
  BY <1>1, <1>2, <1>3, PTL DEF Spec

-----------------------------------------------------------------------------
(* One actor per document *)

\* A batch applied leaves nothing that is ready in the queue.
LEMMA AppliedSettles ==
    ASSUME NEW c, NEW s \in DocStateOf(c), NEW batch,
           NEW t, t = BatchApplied(c, s, batch)
    PROVE  ReadyIn(c, t.hist, t.queue) = {}
<1> DEFINE pool  == s.queue \cup (batch \ s.hist)
           ready == ReadyIn(c, s.hist, pool)
<1>1. t.hist = s.hist \cup ready /\ t.queue = pool \ ready
  BY DEF BatchApplied, DocStateOf
<1>2. ready \subseteq pool /\ Deps(c, ready) \subseteq s.hist \cup ready
  BY ReadyClosed
<1> HIDE DEF pool, ready
<1>3. ASSUME NEW R \in SUBSET (pool \ ready), Deps(c, R) \subseteq s.hist \cup ready \cup R
      PROVE  R = {}
  <2>1. Deps(c, ready \cup R) = Deps(c, ready) \cup Deps(c, R)
    BY DepsMember
  <2>2. ready \cup R \subseteq ready
    <3>1. Deps(c, ready \cup R) \subseteq s.hist \cup (ready \cup R)
      BY <1>2, <1>3, <2>1
    <3>2. ready \cup R \in SUBSET pool
      BY <1>2
    <3>. QED
      BY <3>1, <3>2, ClosedIsReady DEF ready
  <2>. QED
    BY <2>2
<1>. QED
  BY <1>1, <1>3 DEF ReadyIn

\* Where no two changes share a number, no batch has a duplicate ...
LEMMA NoDuplicates ==
    ASSUME NEW c, GoodLog(c), Numbered(c), Distinct(c, Names(c)),
           NEW s, GoodDoc(c, s), NEW batch \in SUBSET Names(c)
    PROVE  ~DuplicateSeq(c, s, batch)
<1> DEFINE new == batch \ (s.hist \cup s.queue)
<1>1. /\ s.hist \in SUBSET Names(c) /\ s.queue \in SUBSET Names(c)
      /\ Deps(c, s.hist) \subseteq s.hist /\ Distinct(c, s.hist)
  BY DEF GoodDoc, DocStateOf, Distinct
<1>2. Deps(c, Names(c)) \subseteq Names(c) /\ Len(c) \in Nat
  <2>1. \A x \in Names(c) : c[x].deps \subseteq Names(c)
    BY DEF GoodLog, Names
  <2>. QED
    BY <2>1, DepsMember DEF GoodLog
<1>3. ASSUME NEW x \in new PROVE ~(SeqForActor(c, s.hist, c[x].actor) >= c[x].seq)
  <2> DEFINE a == c[x].actor
             n == SeqForActor(c, s.hist, a)
  <2>1. x \in Names(c) /\ x \notin s.hist
    OBVIOUS
  <2>2. c[x].seq >= 1 /\ c[x].seq \in Nat
    <3>1. c[x] \in Change
      BY <2>1 DEF GoodLog, Names
    <3>. QED
      BY <1>2, <2>1, <3>1 DEF Numbered, Change
  <2>3. n \in Nat
    BY <1>1, <1>2, SeqForActorType DEF Names
  <2>4. {c[y].seq : y \in By(c, s.hist, a)} = 1 .. n
    BY <1>1, DistinctIsDense
  <2>5. SUFFICES ASSUME n >= c[x].seq PROVE FALSE
    OBVIOUS
  <2>6. c[x].seq \in 1 .. n
    BY <2>2, <2>3, <2>5
  <2>7. PICK y \in By(c, s.hist, a) : c[y].seq = c[x].seq
    BY <2>4, <2>6
  <2>8. y \in s.hist /\ SameSeq(c, x, y)
    BY <2>7 DEF By, SameSeq
  <2>. QED
    BY <1>1, <2>1, <2>8 DEF Distinct
<1>4. ASSUME NEW x \in new, NEW y \in (s.queue \cup new) \ {x} PROVE ~SameSeq(c, x, y)
  BY <1>1 DEF Distinct
<1>. QED
  BY <1>3, <1>4 DEF DuplicateSeq

\* ... and the assertion of add_changes holds: below a ready change there are
\* exactly as many changes of its actor as its number says.
LEMMA NoAssertFailure ==
    ASSUME NEW c, GoodLog(c), Numbered(c), Distinct(c, Names(c)),
           NEW s, GoodDoc(c, s), NEW batch \in SUBSET Names(c)
    PROVE  ~SeqAssertFails(c, s, batch)
<1> DEFINE T         == BatchApplied(c, s, batch).hist
           ready     == T \ s.hist
           Before(x) == s.hist \cup {y \in ready \ {x} : c[y].seq <= c[x].seq}
<1>1. /\ s \in DocStateOf(c) /\ s.hist \in SUBSET Names(c)
      /\ Deps(c, s.hist) \subseteq s.hist /\ Distinct(c, s.hist)
  BY DEF GoodDoc, DocStateOf, Distinct
<1>2. T \in SUBSET Names(c) /\ Deps(c, T) \subseteq T
  BY BatchAppliedGood DEF GoodDoc, DocStateOf
<1>3. s.hist \subseteq T
  BY <1>1 DEF BatchApplied, DocStateOf
<1>4. SUFFICES ASSUME NEW x \in ready
               PROVE  c[x].seq = SeqForActor(c, Before(x), c[x].actor) + 1
  BY DEF SeqAssertFails
<1> HIDE DEF T
<1> DEFINE a == c[x].actor
           k == c[x].seq
           n == SeqForActor(c, s.hist, a)
           Q == By(c, Before(x), a)
           f == [z \in Q |-> c[z].seq]
<1>5. \A z \in T : c[z].seq \in Nat /\ c[z].seq >= 1
  <2>1. \A z \in T : c[z] \in Change
    BY <1>2 DEF GoodLog, Names
  <2>. QED
    BY <1>2, <2>1 DEF Change, Numbered
<1>6. \A y, z \in T : c[y].actor = c[z].actor /\ c[y].seq = c[z].seq => y = z
  BY <1>2 DEF Distinct, SameSeq
<1>7. k \in Nat /\ k >= 1
  BY <1>5
<1>8. ASSUME NEW z \in Q PROVE c[z].seq \in 1 .. (k - 1)
  <2>1. z \in T /\ z # x /\ c[z].actor = a
    BY <1>3 DEF By
  <2>2. c[z].seq # k
    BY <1>6, <2>1
  <2>3. CASE z \in s.hist
    <3>1. {c[y].seq : y \in By(c, s.hist, a)} = 1 .. n
      BY <1>1, DistinctIsDense
    <3>2. n \in Nat
      <4>1. Len(c) \in Nat
        BY DEF GoodLog
      <4>. QED
        BY <1>1, <4>1, SeqForActorType DEF Names
    <3>3. c[z].seq \in 1 .. n
      BY <2>1, <2>3, <3>1 DEF By
    <3>4. k \notin 1 .. n
      <4>1. SUFFICES ASSUME k \in 1 .. n PROVE FALSE
        OBVIOUS
      <4>2. PICK y \in By(c, s.hist, a) : c[y].seq = k
        BY <3>1, <4>1
      <4>3. y \in s.hist /\ c[y].actor = a
        BY <4>2 DEF By
      <4>. QED
        BY <1>3, <1>6, <4>2, <4>3
    <3> HIDE DEF n, k
    <3>. QED
      BY <1>5, <1>7, <2>1, <3>2, <3>3, <3>4
  <2>4. CASE z \notin s.hist
    <3>1. c[z].seq <= k
      BY <2>4 DEF By
    <3>. QED
      BY <1>5, <1>7, <2>1, <2>2, <3>1
  <2>. QED
    BY <2>3, <2>4
<1>9. ASSUME NEW j \in 1 .. (k - 1) PROVE \E z \in Q : c[z].seq = j
  <2>0. j \in 1 .. k /\ j # k /\ j <= k
    BY <1>7
  <2>1. PICK z \in T : c[z].actor = a /\ c[z].seq = j
    BY <1>2, <2>0 DEF Numbered
  <2>2. z # x
    BY <2>0, <2>1
  <2>3. z \in Before(x)
    BY <2>0, <2>1, <2>2
  <2>. QED
    BY <2>1, <2>3 DEF By
<1>10. \A y, z \in Q : c[y].seq = c[z].seq => y = z
  BY <1>3, <1>6 DEF By
<1> HIDE DEF Q, k
<1>11. f \in Surjection(Q, 1 .. (k - 1)) /\ f \in Injection(Q, 1 .. (k - 1))
  BY <1>8, <1>9, <1>10 DEF Surjection, Injection, IsInjective
<1>12. IsFiniteSet(1 .. (k - 1)) /\ Cardinality(1 .. (k - 1)) = k - 1
  BY <1>7, FS_Interval
<1>13. Cardinality(Q) = k - 1
  BY <1>11, <1>12, FS_Injection
<1>. QED
  BY <1>7, <1>13 DEF SeqForActor, Q, k

\* A document is not trapped, holds back nothing that is ready, and has no
\* changes before it is created.
Settled(c, s) ==
    /\ s.status # "trapped"
    /\ ReadyIn(c, s.hist, s.queue) = {}
    /\ s.status = "none" => s.hist = {} /\ s.queue = {}

\* A document has all changes that were made under its actor.
Owns(c, s) == s.status # "none" => By(c, Names(c), s.actor) \subseteq s.hist

ActorsDiffer ==
    \A d, e \in Doc : d # e /\ doc[d].status # "none" /\ doc[e].status # "none"
                         => doc[d].actor # doc[e].actor

\* The inductive invariant of programs that let no two documents share an actor.
OneInv ==
    /\ Distinct(chg, Names(chg))
    /\ ActorsDiffer
    /\ \A d \in Doc : Owns(chg, doc[d]) /\ Settled(chg, doc[d])

\* Of what was made, the log keeps telling the same.
LEMMA ExtendsReady ==
    ASSUME NEW c, NEW c2, Extends(c, c2), NEW hist, NEW pool \in SUBSET Names(c)
    PROVE  ReadyIn(c2, hist, pool) = ReadyIn(c, hist, pool)
<1>1. \A R \in SUBSET pool : Deps(c2, R) = Deps(c, R)
  BY ExtendsDeps
<1>. QED
  BY <1>1 DEF ReadyIn

\* A commit makes nothing ready: no change that exists can depend on it.
LEMMA BeginsSettled ==
    ASSUME GoodState, NEW d \in Doc, NEW c, NEW s, Begins(d, c, s),
           doc[d].status = "open", Settled(chg, doc[d])
    PROVE  ReadyIn(c, s.hist, s.queue) = {}
<1>1. /\ Extends(chg, c) /\ s.queue = doc[d].queue
      /\ s.hist = doc[d].hist \/ s.hist = doc[d].hist \cup {Len(chg) + 1}
  BY BeginsGood
<1>2. GoodLog(chg) /\ Len(chg) \in Nat /\ doc[d].queue \in SUBSET Names(chg)
  BY DEF GoodState, GoodLog, DocStateOf
<1>3. ASSUME NEW R \in SUBSET doc[d].queue, Deps(c, R) \subseteq s.hist \cup R
      PROVE  R = {}
  <2>1. Deps(c, R) = Deps(chg, R)
    BY <1>1, <1>2, ExtendsDeps
  <2>2. Len(chg) + 1 \notin Deps(chg, R)
    <3>1. \A x \in R : Len(chg) + 1 \notin chg[x].deps
      BY <1>2 DEF GoodLog, Names
    <3>. QED
      BY <3>1, DepsMember
  <2>3. Deps(chg, R) \subseteq doc[d].hist \cup R
    BY <1>1, <1>3, <2>1, <2>2
  <2>. QED
    BY <2>3 DEF Settled, ReadyIn
<1>. QED
  BY <1>1, <1>3 DEF ReadyIn

\* A step keeps the numbers of all changes apart: the actor's document has all
\* of its changes, so that the next number is new.
LEMMA LogStaysDistinct ==
    ASSUME GoodState, SeqInv, OneInv, DocStep
    PROVE  Distinct(chg', Names(chg'))
<1>1. CASE chg' = chg
  BY <1>1 DEF OneInv
<1>2. ASSUME NEW d \in Doc, doc[d].status = "open", chg' = CommitLog(chg, doc[d])
      PROVE  Distinct(chg', Names(chg'))
  <2> DEFINE s == doc[d]
             h == Len(chg) + 1
             n == SeqForActor(chg, s.hist, s.actor)
  <2>1. /\ GoodLog(chg) /\ Len(chg) \in Nat /\ GoodDoc(chg, s)
        /\ s.hist \in SUBSET Names(chg) /\ Deps(chg, s.hist) \subseteq s.hist
        /\ Numbered(chg) /\ Distinct(chg, s.hist)
    BY DEF GoodState, GoodLog, GoodDoc, DocStateOf, SeqInv
  <2>2. Extends(chg, chg') /\ Len(chg') = h /\ chg'[h] = NextChange(chg, s)
    BY <1>2, <2>1, CommitExtends
  <2>3. Names(chg') = Names(chg) \cup {h} /\ \A x \in Names(chg) : chg'[x] = chg[x]
    BY <2>1, <2>2 DEF Names, Extends
  <2>4. {chg[x].seq : x \in By(chg, s.hist, s.actor)} = 1 .. n /\ n \in Nat
    BY <2>1, DistinctIsDense, SeqForActorType DEF Names
  <2>5. chg'[h].actor = s.actor /\ chg'[h].seq = n + 1
    BY <2>2 DEF NextChange
  <2>6. By(chg, Names(chg), s.actor) \subseteq s.hist
    BY <1>2 DEF OneInv, Owns
  <2> HIDE DEF h, n
  <2>7. ASSUME NEW x \in Names(chg) PROVE ~SameSeq(chg', x, h) /\ ~SameSeq(chg', h, x)
    <3>1. CASE chg[x].actor = s.actor
      <4>1. x \in By(chg, s.hist, s.actor)
        BY <2>6, <3>1 DEF By
      <4>2. chg[x].seq \in 1 .. n
        BY <2>4, <4>1
      <4>3. chg[x].seq # n + 1
        BY <2>4, <4>2
      <4>. QED
        BY <2>3, <2>5, <4>3 DEF SameSeq
    <3>2. CASE chg[x].actor # s.actor
      BY <2>3, <2>5, <3>2 DEF SameSeq
    <3>. QED
      BY <3>1, <3>2
  <2>8. ASSUME NEW x \in Names(chg), NEW y \in Names(chg), SameSeq(chg', x, y) PROVE x = y
    BY <2>3, <2>8 DEF OneInv, Distinct, SameSeq
  <2>. QED
    BY <2>3, <2>7, <2>8 DEF Distinct
<1>. QED
  BY <1>1, <1>2, LogStep

\* A step keeps each document the owner of its actor's changes.
LEMMA OwnersStay ==
    ASSUME GoodState, OneInv, DocStep, ~ActorReuse
    PROVE  ActorsDiffer' /\ \A e \in Doc : Owns(chg', doc'[e])
<1>1. PICK n \in Doc : /\ \A e \in Doc : e # n => SameActor(e)
                       /\ \/ SameActor(n)
                          \/ doc'[n].status # "none" /\ FreshActor(doc'[n].actor)
  BY ActorStep
<1>2. ActorsDiffer'
  <2> SUFFICES ASSUME NEW d \in Doc, NEW e \in Doc, d # e,
                      doc'[d].status # "none", doc'[e].status # "none"
               PROVE  doc'[d].actor # doc'[e].actor
    BY DEF ActorsDiffer
  <2>1. ASSUME NEW x \in Doc, NEW y \in Doc, x # y, SameActor(x),
               doc'[x].status # "none", doc'[y].status # "none"
        PROVE  doc'[x].actor # doc'[y].actor
    <3>1. doc'[x].actor = doc[x].actor /\ doc[x].status # "none"
      BY <2>1 DEF SameActor
    <3>2. CASE SameActor(y)
      BY <2>1, <3>1, <3>2 DEF SameActor, OneInv, ActorsDiffer
    <3>3. CASE FreshActor(doc'[y].actor)
      BY <3>1, <3>3 DEF FreshActor
    <3>. QED
      BY <1>1, <3>2, <3>3
  <2>. QED
    BY <1>1, <2>1
<1>3. ASSUME NEW e \in Doc, doc'[e].status # "none", NEW x \in Names(chg'),
             chg'[x].actor = doc'[e].actor
      PROVE  x \in doc'[e].hist
  <2>1. Extends(chg, chg')
    <3>1. CASE chg' = chg
      BY <3>1, ExtendsRefl DEF GoodState
    <3>2. CASE chg' # chg
      BY <3>2, LogStep, CommitExtends DEF GoodState
    <3>. QED
      BY <3>1, <3>2
  <2>2. ASSUME doc[e].status # "none" PROVE doc[e].hist \subseteq doc'[e].hist
    <3>1. CASE doc'[e] = doc[e]
      BY <3>1
    <3>2. ASSUME NEW s, Begins(e, chg', s), Works(chg', s, doc'[e])
          PROVE  doc[e].hist \subseteq doc'[e].hist
      <4>1. s \in DocStateOf(chg') /\ doc[e].hist \subseteq s.hist
        BY <3>2, BeginsGood DEF GoodDoc
      <4>. QED
        BY <3>2, <4>1, WorksGrow
    <3>. QED
      BY <2>2, <3>1, <3>2, EachDoc
  <2>3. CASE x \in Names(chg)
    <3>1. chg[x].actor = doc'[e].actor
      BY <1>3, <2>1, <2>3 DEF Extends
    <3>2. ~FreshActor(doc'[e].actor)
      BY <2>3, <3>1 DEF FreshActor, Made, Names
    <3>3. SameActor(e)
      BY <1>1, <3>2
    <3>4. doc[e].status # "none" /\ x \in By(chg, Names(chg), doc[e].actor)
      BY <1>3, <2>3, <3>1, <3>3 DEF SameActor, By
    <3>. QED
      BY <2>2, <3>4 DEF OneInv, Owns
  <2>4. CASE x \notin Names(chg)
    <3>1. chg' # chg
      BY <1>3, <2>4
    <3>2. PICK d \in Doc : /\ doc[d].status = "open" /\ chg' = CommitLog(chg, doc[d])
                           /\ Len(chg') \in doc'[d].hist
      BY <3>1, LogStep
    <3>3. Len(chg') = Len(chg) + 1 /\ chg'[Len(chg) + 1] = NextChange(chg, doc[d]) /\ Len(chg) \in Nat
      <4>1. GoodLog(chg) /\ GoodDoc(chg, doc[d]) /\ Len(chg) \in Nat
        BY DEF GoodState, GoodLog
      <4>. QED
        BY <3>2, <4>1, CommitExtends
    <3>4. x = Len(chg')
      BY <1>3, <2>4, <3>3 DEF Names
    <3>5. doc'[e].actor = doc[d].actor
      BY <1>3, <3>3, <3>4 DEF NextChange
    <3>6. ~FreshActor(doc'[e].actor)
      BY <3>2, <3>5 DEF FreshActor
    <3>7. SameActor(e)
      BY <1>1, <3>6
    <3>8. e = d
      BY <1>3, <3>2, <3>5, <3>7 DEF SameActor, OneInv, ActorsDiffer
    <3>. QED
      BY <3>2, <3>4, <3>8
  <2>. QED
    BY <2>3, <2>4
<1>. QED
  BY <1>2, <1>3 DEF Owns, By

\* A step leaves nothing behind that is ready, and traps no document.
LEMMA DocsStaySettled ==
    ASSUME GoodState, SeqInv, OneInv, DocStep, GoodState', Extends(chg, chg'), NEW e \in Doc
    PROVE  Settled(chg', doc'[e])
<1>1. Distinct(chg', Names(chg')) /\ Numbered(chg') /\ GoodLog(chg') /\ Extends(chg, chg')
  BY LogStaysDistinct, SeqInvStep DEF SeqInv, GoodState
<1>2. doc[e].hist \in SUBSET Names(chg) /\ doc[e].queue \in SUBSET Names(chg)
  BY DEF GoodState, DocStateOf
<1>3. Settled(chg, doc[e])
  BY DEF OneInv
<1>4. CASE doc'[e] = doc[e]
  BY <1>1, <1>2, <1>3, <1>4, ExtendsReady DEF Settled
<1>5. ASSUME doc[e].status = "open", NEW s, Begins(e, chg', s), Works(chg', s, doc'[e])
      PROVE  Settled(chg', doc'[e])
  <2>1. GoodDoc(chg', s) /\ s \in DocStateOf(chg') /\ s.status = "open"
    BY <1>5, BeginsGood DEF GoodDoc
  <2>2. ReadyIn(chg', s.hist, s.queue) = {}
    BY <1>3, <1>5, BeginsSettled
  <2>3. CASE Idles(s, doc'[e])
    BY <2>1, <2>2, <2>3 DEF Idles, Settled
  <2>4. ASSUME NEW batch \in SUBSET Names(chg'), doc'[e] \in BatchOutcomes(chg', s, batch)
        PROVE  Settled(chg', doc'[e])
    <3>1. ~DuplicateSeq(chg', s, batch) /\ ~SeqAssertFails(chg', s, batch)
      BY <1>1, <2>1, NoDuplicates, NoAssertFailure
    <3>2. doc'[e] = BatchApplied(chg', s, batch)
      BY <2>4, <3>1 DEF BatchOutcomes
    <3>3. ReadyIn(chg', doc'[e].hist, doc'[e].queue) = {}
      BY <2>1, <3>2, AppliedSettles
    <3>4. doc'[e].status = "open"
      BY <2>1, <3>2 DEF BatchApplied, DocStateOf
    <3>. QED
      BY <3>3, <3>4 DEF Settled
  <2>5. ASSUME NEW a \in Actor, doc'[e] = [s EXCEPT !.actor = a]
        PROVE  Settled(chg', doc'[e])
    <3>1. doc'[e].hist = s.hist /\ doc'[e].queue = s.queue /\ doc'[e].status = "open"
      BY <2>1, <2>5 DEF DocStateOf
    <3>. QED
      BY <2>2, <3>1 DEF Settled
  <2>. QED
    BY <1>5, <2>3, <2>4, <2>5 DEF Works
<1>6. ASSUME NEW a \in Actor, Created(chg', a, doc'[e]) PROVE Settled(chg', doc'[e])
  <2>1. doc'[e].status = "open"
    BY <1>6, CreatedActor
  <2>2. CASE doc'[e] = Blank(a)
    BY <2>2 DEF Settled, ReadyIn, Blank
  <2>3. ASSUME NEW f, doc'[e] = Loaded(chg', f, a)
        PROVE  ReadyIn(chg', doc'[e].hist, doc'[e].queue) = {}
    <3>1. Blank(a) \in DocStateOf(chg')
      BY <1>1, BlankGood DEF GoodDoc
    <3>. QED
      BY <2>3, <3>1, AppliedSettles DEF Loaded
  <2>. QED
    BY <1>6, <2>1, <2>2, <2>3 DEF Created, Settled
<1>. QED
  BY <1>4, <1>5, <1>6, EachDoc

\* All that holds in every state of such a program.
OneState == GoodState /\ SeqInv /\ OneInv

\* There are no changes and no documents at first.
LEMMA OneInit == Init => OneState
<1> SUFFICES ASSUME Init PROVE OneState
  OBVIOUS
<1>1. GoodState
  BY InitGood
<1>2. Names(chg) = {}
  BY DEF Init, Names
<1>3. \A d \in Doc : doc[d].hist = {} /\ doc[d].queue = {}
  BY <1>1, <1>2 DEF GoodState, DocStateOf
<1>4. SeqInv
  BY <1>2, <1>3 DEF SeqInv, Numbered, Distinct
<1>5. \A d \in Doc : doc[d].status = "none"
  BY DEF Init, Blank
<1>6. \A d \in Doc : ReadyIn(chg, doc[d].hist, doc[d].queue) = {}
  BY <1>3 DEF ReadyIn
<1>. QED
  BY <1>1, <1>2, <1>3, <1>4, <1>5, <1>6
  DEF OneState, OneInv, Distinct, ActorsDiffer, Owns, Settled

\* Every call keeps the invariant if SetActorID names fresh actors only.
LEMMA OneStep ==
    ASSUME ~ActorReuse, OneState, DocStep, GoodState', Extends(chg, chg')
    PROVE  OneState'
<1>1. SeqInv'
  BY SeqInvStep DEF OneState
<1>2. /\ Distinct(chg', Names(chg')) /\ ActorsDiffer'
      /\ \A d \in Doc : Owns(chg', doc'[d])
  BY LogStaysDistinct, OwnersStay DEF OneState
<1>3. \A d \in Doc : Settled(chg', doc'[d])
  BY DocsStaySettled DEF OneState
<1>. QED
  BY <1>1, <1>2, <1>3 DEF OneState, OneInv

\* So does every step of the specification.
LEMMA OneNext ==
    ASSUME ~ActorReuse, OneState, [Next]_vars
    PROVE  OneState'
<1>1. GoodState' /\ Extends(chg, chg')
  BY NextGood, NextExtends DEF OneState
<1>2. CASE UNCHANGED vars
  BY <1>1, <1>2 DEF OneState, vars, SeqInv, OneInv, ActorsDiffer
<1>3. CASE Next
  BY <1>1, <1>3, NextIsDocStep, OneStep DEF OneState
<1>. QED
  BY <1>2, <1>3

\* While no two documents share an actor, no call traps an instance: the
\* assertion of add_changes holds for every batch, in whatever order.
THEOREM NothingTraps ==
    ASSUME ~ActorReuse
    PROVE  Spec => []NoTrap
<1>1. OneState => NoTrap
  BY DEF OneState, OneInv, Settled, NoTrap
<1>2. OneState /\ [Next]_vars => OneState'
  BY OneNext
<1>. QED
  BY <1>1, <1>2, OneInit, PTL DEF Spec

\* While no two documents share an actor, a queue holds only changes that wait
\* for one the document does not have.
THEOREM QueuesWait ==
    ASSUME ~ActorReuse
    PROVE  Spec => []OrphansOnly
<1>1. OneState => OrphansOnly
  BY DEF OneState, OneInv, Settled, OrphansOnly, Open
<1>2. OneState /\ [Next]_vars => OneState'
  BY OneNext
<1>. QED
  BY <1>1, <1>2, OneInit, PTL DEF Spec

\* The bytes of a settled document load to the same history, heads and queue.
LEMMA SettledLoads ==
    ASSUME NEW c, GoodLog(c), Numbered(c), Distinct(c, Names(c)),
           NEW s, GoodDoc(c, s), ReadyIn(c, s.hist, s.queue) = {}, NEW a \in Actor,
           NEW t, t = Loaded(c, SavedFile(s), a)
    PROVE  /\ CanLoad(c, SavedFile(s), a)
           /\ t.hist = s.hist /\ t.heads = s.heads /\ t.queue = s.queue
<1> DEFINE F == s.hist \cup s.queue
           R == ReadyIn(c, {}, F)
<1>1. FileChanges(SavedFile(s)) = F /\ SavedFile(s).whole /\ F \in SUBSET Names(c)
  BY DEF FileChanges, SavedFile, GoodDoc, DocStateOf
<1>2. CanLoad(c, SavedFile(s), a)
  <2>1. GoodDoc(c, Blank(a))
    BY BlankGood
  <2>. QED
    BY <1>1, <2>1, NoDuplicates DEF CanLoad
<1>3. t.hist = R /\ t.heads = R \ Deps(c, R) /\ t.queue = F \ R
  BY <1>1 DEF Loaded, BatchApplied, Blank, UpdateHeads
<1>4. s.hist \subseteq R
  BY ClosedIsReady DEF GoodDoc
<1>5. R \subseteq F /\ Deps(c, R) \subseteq R
  BY ReadyClosed
<1> HIDE DEF R
<1>6. R \ s.hist = {}
  <2>1. Deps(c, R \ s.hist) \subseteq s.hist \cup (R \ s.hist)
    BY <1>5, DepsMember
  <2>2. R \ s.hist \in SUBSET s.queue
    BY <1>5
  <2>3. R \ s.hist \subseteq ReadyIn(c, s.hist, s.queue)
    BY <2>1, <2>2, ClosedIsReady
  <2>. QED
    BY <2>3
<1>7. R = s.hist
  BY <1>4, <1>6
<1>. QED
  BY <1>2, <1>3, <1>7 DEF GoodDoc

\* While no two documents share an actor, Save loses nothing: its bytes always
\* load, and give back the history, the heads and the queue.
THEOREM SavesLoad ==
    ASSUME ~ActorReuse
    PROVE  Spec => []SaveLoads
<1>1. OneState => SaveLoads
  <2> SUFFICES ASSUME OneState, NEW d \in Open
               PROVE  LET a == doc[d].actor
                          t == Loaded(chg, SavedFile(doc[d]), a)
                      IN /\ CanLoad(chg, SavedFile(doc[d]), a)
                         /\ t.hist = doc[d].hist /\ t.heads = doc[d].heads
                         /\ t.queue = doc[d].queue
    BY DEF SaveLoads
  <2>1. d \in Doc
    BY DEF Open
  <2>2. /\ GoodLog(chg) /\ Numbered(chg) /\ Distinct(chg, Names(chg))
        /\ GoodDoc(chg, doc[d]) /\ doc[d].actor \in Actor
        /\ ReadyIn(chg, doc[d].hist, doc[d].queue) = {}
    BY <2>1 DEF OneState, GoodState, SeqInv, OneInv, Settled, DocStateOf
  <2>. QED
    BY <2>2, SettledLoads
<1>2. OneState /\ [Next]_vars => OneState'
  BY OneNext
<1>. QED
  BY <1>1, <1>2, OneInit, PTL DEF Spec

=============================================================================
