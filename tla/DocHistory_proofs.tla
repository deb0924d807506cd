-------------------------- MODULE DocHistory_proofs --------------------------
(***************************************************************************)
(* Proof that every document's history stays causally closed and that its  *)
(* heads stay the maximal changes, for any number of documents, actors,    *)
(* changes and files.                                                      *)
(***************************************************************************)
EXTENDS DocHistory, FiniteSetTheorems, TLAPS

(***************************************************************************)
(* The inductive invariant, as predicates of one log and one document.     *)
(* GoodLog: changes only depend on earlier ones.  GoodDoc: the history is  *)
(* closed, the heads are its maximal elements, the queue is apart from it. *)
(***************************************************************************)
Names(c) == 1 .. Len(c)

GoodLog(c) ==
    /\ c \in Seq(Change)
    /\ \A x \in Names(c) : c[x].deps \subseteq 1 .. (x - 1)

DocStateOf(c) ==
    [status : {"none", "open", "trapped"}, hist : SUBSET Names(c),
     heads : SUBSET Names(c), queue : SUBSET Names(c), pending : BOOLEAN,
     actor : Actor, cursor : SUBSET Names(c)]

GoodDoc(c, s) ==
    /\ s \in DocStateOf(c)
    /\ Deps(c, s.hist) \subseteq s.hist
    /\ s.heads = s.hist \ Deps(c, s.hist)
    /\ s.hist \cap s.queue = {}

-----------------------------------------------------------------------------
(* The operators of the change graph *)

\* Deps collects the dependencies of a set of changes.
LEMMA DepsMember ==
    ASSUME NEW c, NEW S, NEW y
    PROVE  y \in Deps(c, S) <=> \E x \in S : y \in c[x].deps
BY DEF Deps

\* The ready part of a pool has its dependencies in the history or in itself.
LEMMA ReadyClosed ==
    ASSUME NEW c, NEW hist, NEW pool
    PROVE  /\ ReadyIn(c, hist, pool) \subseteq pool
           /\ Deps(c, ReadyIn(c, hist, pool)) \subseteq hist \cup ReadyIn(c, hist, pool)
<1>1. ReadyIn(c, hist, pool) \subseteq pool
  BY DEF ReadyIn
<1>2. ASSUME NEW y \in Deps(c, ReadyIn(c, hist, pool))
      PROVE  y \in hist \cup ReadyIn(c, hist, pool)
  <2>1. PICK x \in ReadyIn(c, hist, pool) : y \in c[x].deps
    BY <1>2, DepsMember
  <2>2. PICK R \in SUBSET pool : x \in R /\ Deps(c, R) \subseteq hist \cup R
    BY <2>1 DEF ReadyIn
  <2>3. y \in hist \cup R
    BY <2>1, <2>2, DepsMember
  <2>4. R \subseteq ReadyIn(c, hist, pool)
    BY <2>2 DEF ReadyIn
  <2>. QED
    BY <2>3, <2>4
<1>. QED
  BY <1>1, <1>2

\* The number of changes of an actor in a history is a natural number.
LEMMA SeqForActorType ==
    ASSUME NEW c, NEW n \in Nat, NEW hist \in SUBSET (1 .. n), NEW a
    PROVE  SeqForActor(c, hist, a) \in Nat
<1>1. IsFiniteSet(1 .. n)
  BY FS_Interval
<1>2. By(c, hist, a) \subseteq 1 .. n
  BY DEF By
<1>. QED
  BY <1>1, <1>2, FS_Subset, FS_CardinalityType DEF SeqForActor

-----------------------------------------------------------------------------
(* Applying a batch *)

\* A batch without a duplicate keeps a document good: what it applies is
\* closed together with the history, and every head it removes is a dependency.
LEMMA BatchAppliedGood ==
    ASSUME NEW c, GoodLog(c), NEW s, GoodDoc(c, s), NEW batch \in SUBSET Names(c)
    PROVE  GoodDoc(c, BatchApplied(c, s, batch))
<1> DEFINE pool  == s.queue \cup (batch \ s.hist)
           ready == ReadyIn(c, s.hist, pool)
           t     == [s EXCEPT !.hist = @ \cup ready,
                              !.heads = UpdateHeads(c, @, ready),
                              !.queue = pool \ ready]
<1>1. BatchApplied(c, s, batch) = t
  BY DEF BatchApplied
<1>2. ready \subseteq pool /\ Deps(c, ready) \subseteq s.hist \cup ready
  BY ReadyClosed
<1>3. s \in DocStateOf(c)
  BY DEF GoodDoc
<1>4. pool \in SUBSET Names(c) /\ s.hist \cap pool = {}
  BY <1>3 DEF GoodDoc, DocStateOf
<1> HIDE DEF pool, ready
<1>5. /\ t.hist = s.hist \cup ready
      /\ t.heads = (s.heads \cup ready) \ Deps(c, ready)
      /\ t.queue = pool \ ready
  BY <1>3 DEF DocStateOf, UpdateHeads
<1>6. Deps(c, s.hist \cup ready) = Deps(c, s.hist) \cup Deps(c, ready)
  BY DepsMember
<1>7. t \in DocStateOf(c)
  BY <1>2, <1>3, <1>4 DEF DocStateOf, UpdateHeads
<1>8. Deps(c, t.hist) \subseteq t.hist
  BY <1>2, <1>5, <1>6 DEF GoodDoc
<1>9. t.heads = t.hist \ Deps(c, t.hist)
  BY <1>2, <1>4, <1>5, <1>6 DEF GoodDoc
<1>10. t.hist \cap t.queue = {}
  BY <1>4, <1>5
<1> HIDE DEF t
<1>. QED
  BY <1>1, <1>7, <1>8, <1>9, <1>10 DEF GoodDoc

\* Whatever happens to a batch, the document stays good: rejected, it only
\* gains queued changes; trapped, it keeps its state.
LEMMA BatchOutcomesGood ==
    ASSUME NEW c, GoodLog(c), NEW s, GoodDoc(c, s), NEW batch \in SUBSET Names(c),
           NEW t \in BatchOutcomes(c, s, batch)
    PROVE  GoodDoc(c, t)
<1>1. s \in DocStateOf(c)
  BY DEF GoodDoc
<1>2. CASE DuplicateSeq(c, s, batch)
  <2>1. t \in BatchRejected(c, s, batch)
    BY <1>2 DEF BatchOutcomes
  <2>2. PICK P \in SUBSET (batch \ (s.hist \cup s.queue)) :
               t = [s EXCEPT !.queue = @ \cup P]
    BY <2>1 DEF BatchRejected
  <2>3. /\ t \in DocStateOf(c)
        /\ t.hist = s.hist /\ t.heads = s.heads /\ t.queue = s.queue \cup P
    BY <1>1, <2>2 DEF DocStateOf
  <2>. QED
    BY <2>2, <2>3 DEF GoodDoc
<1>3. CASE ~DuplicateSeq(c, s, batch) /\ SeqAssertFails(c, s, batch)
  <2>1. t = [s EXCEPT !.status = "trapped"]
    BY <1>3 DEF BatchOutcomes
  <2>2. /\ t \in DocStateOf(c)
        /\ t.hist = s.hist /\ t.heads = s.heads /\ t.queue = s.queue
    BY <1>1, <2>1 DEF DocStateOf
  <2>. QED
    BY <2>2 DEF GoodDoc
<1>4. CASE ~DuplicateSeq(c, s, batch) /\ ~SeqAssertFails(c, s, batch)
  BY <1>4, BatchAppliedGood DEF BatchOutcomes
<1>. QED
  BY <1>2, <1>3, <1>4

\* A document without changes is good.
LEMMA BlankGood ==
    ASSUME NEW c, GoodLog(c), NEW a \in Actor
    PROVE  GoodDoc(c, Blank(a))
<1>1. Blank(a) \in DocStateOf(c)
  BY DEF Blank, DocStateOf
<1>2. Deps(c, {}) = {}
  BY DepsMember
<1>. QED
  BY <1>1, <1>2 DEF GoodDoc, Blank

\* What Load, Fork and Merge make of bytes is a good document: loading is
\* applying the changes of the bytes to a document that has none.
LEMMA LoadedGood ==
    ASSUME NEW c, GoodLog(c), NEW a \in Actor, NEW f,
           FileChanges(f) \in SUBSET Names(c)
    PROVE  GoodDoc(c, Loaded(c, f, a))
BY BlankGood, BatchAppliedGood DEF Loaded

-----------------------------------------------------------------------------
(* Committing *)

\* c2 is c with more changes at its end.
Extends(c, c2) ==
    /\ GoodLog(c) /\ GoodLog(c2)
    /\ Len(c) <= Len(c2)
    /\ \A x \in Names(c) : c2[x] = c[x]

\* A longer log says the same of the changes a document knows.
LEMMA ExtendsDeps ==
    ASSUME NEW c, NEW c2, Extends(c, c2), NEW S \in SUBSET Names(c)
    PROVE  Deps(c2, S) = Deps(c, S)
<1>1. \A x \in S : c2[x].deps = c[x].deps
  BY DEF Extends
<1>2. \A y : y \in Deps(c2, S) <=> y \in Deps(c, S)
  BY <1>1, DepsMember
<1>. QED
  BY <1>2

\* A longer log names the changes of the shorter one.
LEMMA ExtendsNames ==
    ASSUME NEW c, NEW c2, Extends(c, c2)
    PROVE  Names(c) \subseteq Names(c2)
<1>1. Len(c) \in Nat /\ Len(c2) \in Nat /\ Len(c) <= Len(c2)
  BY DEF Extends, GoodLog
<1>. QED
  BY <1>1 DEF Names

\* A document stays good while other documents make changes.
LEMMA ExtendsGood ==
    ASSUME NEW c, NEW c2, Extends(c, c2), NEW s, GoodDoc(c, s)
    PROVE  GoodDoc(c2, s)
<1>1. s \in DocStateOf(c)
  BY DEF GoodDoc
<1>2. s \in DocStateOf(c2)
  BY <1>1, ExtendsNames DEF DocStateOf
<1>3. Deps(c2, s.hist) = Deps(c, s.hist)
  BY <1>1, ExtendsDeps DEF DocStateOf
<1>. QED
  BY <1>2, <1>3 DEF GoodDoc

\* The change that closes a transaction depends on known changes only.
LEMMA NextChangeType ==
    ASSUME NEW c, GoodLog(c), NEW s, GoodDoc(c, s)
    PROVE  /\ NextChange(c, s) \in Change
           /\ NextChange(c, s).deps \subseteq s.hist
           /\ s.heads \subseteq NextChange(c, s).deps
<1>1. s \in DocStateOf(c) /\ Len(c) \in Nat
  BY DEF GoodDoc, GoodLog
<1>2. SeqForActor(c, s.hist, s.actor) \in Nat
  BY <1>1, SeqForActorType DEF DocStateOf, Names
<1>3. s.heads \subseteq s.hist
  BY DEF GoodDoc
<1>4. By(c, s.hist, s.actor) \subseteq s.hist
  BY DEF By
<1>5. s.hist \subseteq Nat /\ s.actor \in Actor
  BY <1>1 DEF DocStateOf, Names
<1>. QED
  BY <1>2, <1>3, <1>4, <1>5 DEF NextChange, Change

\* A commit adds one change at the end of the log and alters no other.
LEMMA CommitExtends ==
    ASSUME NEW c, GoodLog(c), NEW s, GoodDoc(c, s)
    PROVE  /\ Extends(c, CommitLog(c, s))
           /\ Len(CommitLog(c, s)) = Len(c) + 1
           /\ CommitLog(c, s)[Len(c) + 1] = NextChange(c, s)
<1> DEFINE e == NextChange(c, s)
           c2 == CommitLog(c, s)
<1>1. e \in Change /\ e.deps \subseteq s.hist
  BY NextChangeType
<1>2. c \in Seq(Change) /\ Len(c) \in Nat
  BY DEF GoodLog
<1>3. c2 = Append(c, e)
  BY DEF CommitLog
<1> HIDE DEF e, c2
<1>4. /\ c2 \in Seq(Change) /\ Len(c2) = Len(c) + 1
      /\ \A x \in 1 .. Len(c) : c2[x] = c[x]
      /\ c2[Len(c) + 1] = e
  BY <1>1, <1>2, <1>3
<1>5. s.hist \subseteq 1 .. Len(c)
  BY DEF GoodDoc, DocStateOf, Names
<1>6. ASSUME NEW x \in Names(c2)
      PROVE  c2[x].deps \subseteq 1 .. (x - 1)
  <2>1. CASE x = Len(c) + 1
    BY <1>1, <1>2, <1>4, <1>5, <2>1
  <2>2. CASE x \in 1 .. Len(c)
    BY <1>4, <2>2 DEF GoodLog, Names
  <2>. QED
    BY <1>2, <1>4, <1>6, <2>1, <2>2 DEF Names
<1>7. GoodLog(c2)
  BY <1>4, <1>6 DEF GoodLog
<1>. QED
  BY <1>2, <1>4, <1>7 DEF Extends, Names, e, c2

\* The new change is the only head: it depends on all the old ones.
LEMMA CommittedGood ==
    ASSUME NEW c, GoodLog(c), NEW s, GoodDoc(c, s)
    PROVE  GoodDoc(CommitLog(c, s), Committed(c, s))
<1> DEFINE h  == Len(c) + 1
           c2 == CommitLog(c, s)
           t  == [s EXCEPT !.hist = @ \cup {h},
                           !.heads = UpdateHeads(c2, @, {h}),
                           !.pending = FALSE]
<1>1. Committed(c, s) = t
  BY DEF Committed
<1>2. Extends(c, c2) /\ Len(c2) = h /\ c2[h] = NextChange(c, s)
  BY CommitExtends
<1>3. Len(c) \in Nat /\ h \in Names(c2) /\ h \notin Names(c)
  BY <1>2 DEF GoodLog, Names
<1>4. NextChange(c, s).deps \subseteq s.hist /\ s.heads \subseteq NextChange(c, s).deps
  BY NextChangeType
<1>5. s \in DocStateOf(c) /\ s \in DocStateOf(c2)
  BY <1>2, ExtendsGood DEF GoodDoc
<1> HIDE DEF h, c2
<1>6. Deps(c2, {h}) = NextChange(c, s).deps
  <2>1. \A y : y \in Deps(c2, {h}) <=> y \in c2[h].deps
    BY DepsMember
  <2>2. Deps(c2, {h}) = c2[h].deps
    BY <2>1
  <2>. QED
    BY <1>2, <2>2
<1>7. Deps(c2, s.hist) = Deps(c, s.hist)
  BY <1>2, <1>5, ExtendsDeps DEF DocStateOf
<1>8. Deps(c2, s.hist \cup {h}) = Deps(c, s.hist) \cup NextChange(c, s).deps
  BY <1>6, <1>7, DepsMember
<1>9. h \notin s.hist /\ h \notin s.queue
  BY <1>3, <1>5 DEF DocStateOf
<1>10. t \in DocStateOf(c2)
  <2>1. UpdateHeads(c2, s.heads, {h}) \in SUBSET Names(c2)
    BY <1>3, <1>5 DEF UpdateHeads, DocStateOf
  <2>. QED
    BY <1>3, <1>5, <2>1 DEF DocStateOf
<1>11. /\ t.hist = s.hist \cup {h}
       /\ t.heads = (s.heads \cup {h}) \ NextChange(c, s).deps
       /\ t.queue = s.queue
  BY <1>5, <1>6 DEF DocStateOf, UpdateHeads
<1> HIDE DEF t
<1>12. Deps(c2, t.hist) \subseteq t.hist
  BY <1>4, <1>8, <1>11 DEF GoodDoc
<1>13. t.heads = t.hist \ Deps(c2, t.hist)
  BY <1>4, <1>8, <1>9, <1>11 DEF GoodDoc
<1>14. t.hist \cap t.queue = {}
  BY <1>9, <1>11 DEF GoodDoc
<1>. QED
  BY <1>1, <1>10, <1>12, <1>13, <1>14 DEF GoodDoc, c2

-----------------------------------------------------------------------------
(* The invariant of the whole state, and the frame of a step *)

GoodState ==
    /\ GoodLog(chg)
    /\ doc \in [Doc -> DocStateOf(chg)]
    /\ \A d \in Doc : GoodDoc(chg, doc[d])
    /\ rest \in [Doc -> Seq(Made)]
    /\ snap \in [Doc -> File]
    /\ disk \subseteq File

\* GoodState is the inductive invariant HistoryInv that the runs check.
LEMMA GoodStateIsHistoryInv == GoodState => HistoryInv
<1> SUFFICES ASSUME GoodState PROVE HistoryInv
  OBVIOUS
<1>1. DocStateOf(chg) = DocState
  BY DEF DocStateOf, DocState, Names, Made
<1>2. TypeOK
  BY <1>1 DEF GoodState, GoodLog, TypeOK
<1>3. CausallyClosed /\ HeadsAreMaximal /\ QueueApart
  BY DEF GoodState, GoodDoc, CausallyClosed, HeadsAreMaximal, QueueApart
<1>4. DepsEarlier
  BY DEF GoodState, GoodLog, DepsEarlier, Made, Names
<1>. QED
  BY <1>2, <1>3, <1>4 DEF HistoryInv

\* A call that makes no change leaves a log that extends itself.
LEMMA ExtendsRefl ==
    ASSUME NEW c, GoodLog(c)
    PROVE  Extends(c, c)
BY DEF Extends, GoodLog

\* What callers and calls in progress hold stays well-formed as changes are made.
LEMMA TypesGrow ==
    ASSUME GoodState, Extends(chg, chg')
    PROVE  /\ rest \in [Doc -> Seq(Made')]
           /\ snap \in [Doc -> File']
           /\ disk \subseteq File'
<1>1. Made \subseteq Made'
  BY ExtendsNames DEF Made, Names
<1>2. Seq(Made) \subseteq Seq(Made')
  BY <1>1
<1>3. File \subseteq File'
  BY <1>1 DEF File
<1>. QED
  BY <1>2, <1>3 DEF GoodState

\* A step that makes good documents of the ones it changes keeps them all good.
LEMMA DocsStayGood ==
    ASSUME GoodState, Extends(chg, chg'),
           DOMAIN doc' = Doc, doc' = [e \in Doc |-> doc'[e]],
           \A e \in Doc : doc'[e] = doc[e] \/ GoodDoc(chg', doc'[e])
    PROVE  /\ doc' \in [Doc -> DocStateOf(chg')]
           /\ \A e \in Doc : GoodDoc(chg', doc'[e])
<1>1. ASSUME NEW e \in Doc PROVE GoodDoc(chg', doc'[e])
  <2>1. GoodDoc(chg, doc[e])
    BY DEF GoodState
  <2>2. GoodDoc(chg', doc[e])
    BY <2>1, ExtendsGood
  <2>. QED
    BY <2>2
<1>2. \A e \in Doc : doc'[e] \in DocStateOf(chg')
  BY <1>1 DEF GoodDoc
<1>. QED
  BY <1>1, <1>2

\* The usual step: one document gets a new state, and the log may grow.
LEMMA OneDocStep ==
    ASSUME GoodState, Extends(chg, chg'), NEW d \in Doc, NEW t,
           GoodDoc(chg', t), doc' = [doc EXCEPT ![d] = t],
           rest' \in [Doc -> Seq(Made')], snap' \in [Doc -> File'], disk' \subseteq File'
    PROVE  GoodState'
<1>1. doc \in [Doc -> DocStateOf(chg)]
  BY DEF GoodState
<1>2. /\ DOMAIN doc' = Doc /\ doc' = [e \in Doc |-> doc'[e]]
      /\ \A e \in Doc : doc'[e] = doc[e] \/ GoodDoc(chg', doc'[e])
  BY <1>1
<1>3. /\ doc' \in [Doc -> DocStateOf(chg')]
      /\ \A e \in Doc : GoodDoc(chg', doc'[e])
  BY <1>2, DocsStayGood
<1>4. GoodLog(chg')
  BY DEF Extends
<1>. QED
  BY <1>3, <1>4 DEF GoodState

-----------------------------------------------------------------------------
(* States that the actions build *)

\* The document t has at least the changes of s.
Keeps(s, t) == s.hist \cup s.queue \subseteq t.hist \cup t.queue

\* Closing the transaction makes a change or leaves all as it is.
LEMMA ClosedGood ==
    ASSUME GoodState, NEW d \in Doc
    PROVE  /\ Extends(chg, ClosedLog(doc[d]))
           /\ GoodLog(ClosedLog(doc[d]))
           /\ GoodDoc(ClosedLog(doc[d]), Closed(doc[d]))
           /\ Keeps(doc[d], Closed(doc[d]))
<1>1. GoodLog(chg) /\ GoodDoc(chg, doc[d])
  BY DEF GoodState
<1>2. CASE doc[d].pending
  <2>1. ClosedLog(doc[d]) = CommitLog(chg, doc[d]) /\ Closed(doc[d]) = Committed(chg, doc[d])
    BY <1>2 DEF ClosedLog, Closed
  <2>2. Extends(chg, CommitLog(chg, doc[d]))
    BY <1>1, CommitExtends
  <2>3. GoodDoc(CommitLog(chg, doc[d]), Committed(chg, doc[d]))
    BY <1>1, CommittedGood
  <2>4. Keeps(doc[d], Committed(chg, doc[d]))
    BY <1>1 DEF GoodDoc, DocStateOf, Committed, Keeps
  <2>. QED
    BY <2>1, <2>2, <2>3, <2>4 DEF Extends
<1>3. CASE ~doc[d].pending
  BY <1>1, <1>3, ExtendsRefl DEF ClosedLog, Closed, Keeps
<1>. QED
  BY <1>2, <1>3

\* A document keeps what it has through every outcome of a batch.
LEMMA BatchKeeps ==
    ASSUME NEW c, NEW s \in DocStateOf(c), NEW batch, NEW t \in BatchOutcomes(c, s, batch)
    PROVE  Keeps(s, t)
<1>1. CASE DuplicateSeq(c, s, batch)
  <2>1. PICK P : t = [s EXCEPT !.queue = @ \cup P]
    BY <1>1 DEF BatchOutcomes, BatchRejected
  <2>. QED
    BY <2>1 DEF DocStateOf, Keeps
<1>2. CASE ~DuplicateSeq(c, s, batch) /\ SeqAssertFails(c, s, batch)
  BY <1>2 DEF BatchOutcomes, DocStateOf, Keeps
<1>3. CASE ~DuplicateSeq(c, s, batch) /\ ~SeqAssertFails(c, s, batch)
  <2>1. t = BatchApplied(c, s, batch)
    BY <1>3 DEF BatchOutcomes
  <2>. QED
    BY <2>1 DEF BatchApplied, DocStateOf, Keeps
<1>. QED
  BY <1>1, <1>2, <1>3

\* Fields that the invariant does not relate may be set.
LEMMA SetFieldsGood ==
    ASSUME NEW c, NEW s, GoodDoc(c, s)
    PROVE  /\ \A S \in SUBSET Names(c) : /\ GoodDoc(c, [s EXCEPT !.cursor = S])
                                         /\ Keeps(s, [s EXCEPT !.cursor = S])
           /\ \A a \in Actor : /\ GoodDoc(c, [s EXCEPT !.actor = a])
                               /\ Keeps(s, [s EXCEPT !.actor = a])
           /\ GoodDoc(c, [s EXCEPT !.pending = TRUE])
           /\ Keeps(s, [s EXCEPT !.pending = TRUE])
<1>1. s \in DocStateOf(c)
  BY DEF GoodDoc
<1>2. ASSUME NEW S \in SUBSET Names(c)
      PROVE  /\ GoodDoc(c, [s EXCEPT !.cursor = S])
             /\ Keeps(s, [s EXCEPT !.cursor = S])
  <2>1. [s EXCEPT !.cursor = S] \in DocStateOf(c)
    BY <1>1 DEF DocStateOf
  <2>2. /\ [s EXCEPT !.cursor = S].hist = s.hist
        /\ [s EXCEPT !.cursor = S].heads = s.heads
        /\ [s EXCEPT !.cursor = S].queue = s.queue
    BY <1>1 DEF DocStateOf
  <2>. QED
    BY <2>1, <2>2 DEF GoodDoc, Keeps
<1>3. ASSUME NEW a \in Actor
      PROVE  /\ GoodDoc(c, [s EXCEPT !.actor = a])
             /\ Keeps(s, [s EXCEPT !.actor = a])
  <2>1. [s EXCEPT !.actor = a] \in DocStateOf(c)
    BY <1>1 DEF DocStateOf
  <2>2. /\ [s EXCEPT !.actor = a].hist = s.hist
        /\ [s EXCEPT !.actor = a].heads = s.heads
        /\ [s EXCEPT !.actor = a].queue = s.queue
    BY <1>1 DEF DocStateOf
  <2>. QED
    BY <2>1, <2>2 DEF GoodDoc, Keeps
<1>4. /\ GoodDoc(c, [s EXCEPT !.pending = TRUE])
      /\ Keeps(s, [s EXCEPT !.pending = TRUE])
  <2>1. [s EXCEPT !.pending = TRUE] \in DocStateOf(c)
    BY <1>1 DEF DocStateOf
  <2>2. /\ [s EXCEPT !.pending = TRUE].hist = s.hist
        /\ [s EXCEPT !.pending = TRUE].heads = s.heads
        /\ [s EXCEPT !.pending = TRUE].queue = s.queue
    BY <1>1 DEF DocStateOf
  <2>. QED
    BY <2>1, <2>2 DEF GoodDoc, Keeps
<1>. QED
  BY <1>2, <1>3, <1>4

\* The engine's save leaves a good document and writes changes of the log.
LEMMA SavedGood ==
    ASSUME GoodState, NEW d \in Doc
    PROVE  /\ GoodDoc(ClosedLog(doc[d]), Saved(doc[d]))
           /\ Keeps(doc[d], Saved(doc[d]))
           /\ FileChanges(SavedFile(Saved(doc[d]))) \in SUBSET Names(ClosedLog(doc[d]))
           /\ chg' = ClosedLog(doc[d]) => SavedFile(Saved(doc[d])) \in File'
<1> DEFINE c == ClosedLog(doc[d])
           s == Closed(doc[d])
           t == Saved(doc[d])
<1>1. GoodDoc(c, s) /\ Keeps(doc[d], s)
  BY ClosedGood
<1>2. s.heads \in SUBSET Names(c)
  BY <1>1 DEF GoodDoc, DocStateOf
<1>3. t = [s EXCEPT !.cursor = s.heads]
  BY DEF Saved
<1> HIDE DEF c, s, t
<1>4. GoodDoc(c, t) /\ Keeps(s, t)
  BY <1>1, <1>2, <1>3, SetFieldsGood
<1>5. t.hist \in SUBSET Names(c) /\ t.queue \in SUBSET Names(c)
  BY <1>4 DEF GoodDoc, DocStateOf
<1>6. Keeps(doc[d], t)
  BY <1>1, <1>4 DEF Keeps
<1>7. FileChanges(SavedFile(t)) \in SUBSET Names(c)
  BY <1>5 DEF FileChanges, SavedFile
<1>8. chg' = c => SavedFile(t) \in File'
  BY <1>5 DEF SavedFile, File, Made, Names
<1>. QED
  BY <1>4, <1>6, <1>7, <1>8 DEF c, s, t

-----------------------------------------------------------------------------
(* The actions: each keeps GoodState, and drops no change of an open document *)

StepKeeps == \A e \in Doc : doc[e].status = "open" => Keeps(doc[e], doc'[e])

\* A step that changes only d, which did not exist or keeps its changes.
LEMMA OneDocKeeps ==
    ASSUME GoodState, NEW d \in Doc, NEW t, doc' = [doc EXCEPT ![d] = t],
           doc[d].status = "none" \/ Keeps(doc[d], t)
    PROVE  StepKeeps
BY DEF GoodState, StepKeeps, Keeps

\* New creates an empty document.
LEMMA NewStep ==
    ASSUME GoodState, NEW d \in Doc, New(d)
    PROVE  GoodState' /\ StepKeeps
<1>1. PICK a \in Actor : doc' = [doc EXCEPT ![d] = Blank(a)]
  BY DEF New
<1>2. /\ chg' = chg /\ rest' = rest /\ snap' = snap /\ disk' = disk
      /\ doc[d].status = "none"
  BY DEF New
<1>3. GoodLog(chg) /\ Extends(chg, chg')
  BY <1>2, ExtendsRefl DEF GoodState
<1>4. GoodDoc(chg', Blank(a))
  BY <1>2, <1>3, BlankGood
<1>. QED
  BY <1>1, <1>2, <1>3, <1>4, TypesGrow, OneDocStep, OneDocKeeps

\* An edit opens a transaction; the history stays as it is.
LEMMA EditStep ==
    ASSUME GoodState, NEW d \in Doc, Edit(d)
    PROVE  GoodState' /\ StepKeeps
<1> DEFINE t == [doc[d] EXCEPT !.pending = TRUE]
<1>1. doc' = [doc EXCEPT ![d] = t]
  BY DEF Edit, GoodState
<1>2. chg' = chg /\ rest' = rest /\ snap' = snap /\ disk' = disk
  BY DEF Edit
<1>3. GoodLog(chg) /\ Extends(chg, chg') /\ GoodDoc(chg, doc[d])
  BY <1>2, ExtendsRefl DEF GoodState
<1>4. GoodDoc(chg', t) /\ Keeps(doc[d], t)
  BY <1>2, <1>3, SetFieldsGood
<1> HIDE DEF t
<1>. QED
  BY <1>1, <1>2, <1>3, <1>4, TypesGrow, OneDocStep, OneDocKeeps

\* Commit makes the pending operations, or nothing, a change.
LEMMA CommitStep ==
    ASSUME GoodState, NEW d \in Doc, NEW allowEmpty \in BOOLEAN, Commit(d, allowEmpty)
    PROVE  GoodState' /\ StepKeeps
<1> DEFINE t == Committed(chg, doc[d])
<1>1. doc' = [doc EXCEPT ![d] = t] /\ chg' = CommitLog(chg, doc[d])
  BY DEF Commit
<1>2. rest' = rest /\ snap' = snap /\ disk' = disk
  BY DEF Commit
<1>3. GoodLog(chg) /\ GoodDoc(chg, doc[d])
  BY DEF GoodState
<1>4. Extends(chg, chg') /\ GoodDoc(chg', t)
  BY <1>1, <1>3, CommitExtends, CommittedGood
<1>5. Keeps(doc[d], t)
  BY <1>3 DEF GoodDoc, DocStateOf, Committed, Keeps
<1> HIDE DEF t
<1>. QED
  BY <1>1, <1>2, <1>4, <1>5, TypesGrow, OneDocStep, OneDocKeeps

\* Heads, Changes and Change close the transaction before they read.
LEMMA ReadHistoryStep ==
    ASSUME GoodState, NEW d \in Doc, ReadHistory(d)
    PROVE  GoodState' /\ StepKeeps
<1> DEFINE t == Closed(doc[d])
<1>1. doc' = [doc EXCEPT ![d] = t] /\ chg' = ClosedLog(doc[d])
  BY DEF ReadHistory
<1>2. rest' = rest /\ snap' = snap /\ disk' = disk
  BY DEF ReadHistory
<1>3. Extends(chg, chg') /\ GoodDoc(chg', t) /\ Keeps(doc[d], t)
  BY <1>1, ClosedGood
<1> HIDE DEF t
<1>. QED
  BY <1>1, <1>2, <1>3, TypesGrow, OneDocStep, OneDocKeeps

\* One change of an Apply call: closing the transaction, then the batch.
LEMMA ApplyOneStep ==
    ASSUME GoodState, NEW d \in Doc, NEW cs \in Seq(Made), cs # <<>>, ApplyOne(d, cs)
    PROVE  GoodState' /\ StepKeeps
<1> DEFINE s == Closed(doc[d])
           c == ClosedLog(doc[d])
<1>1. /\ chg' = c
      /\ \E t \in BatchOutcomes(c, s, {Head(cs)}) : doc' = [doc EXCEPT ![d] = t]
      /\ snap' = snap /\ disk' = disk
      /\ rest' = [rest EXCEPT ![d] =
             IF DuplicateSeq(c, s, {Head(cs)}) \/ doc'[d].status = "trapped"
             THEN <<>> ELSE Tail(cs)]
  BY DEF ApplyOne
<1>2. PICK t \in BatchOutcomes(c, s, {Head(cs)}) : doc' = [doc EXCEPT ![d] = t]
  BY <1>1
<1>3. Extends(chg, c) /\ GoodLog(c) /\ GoodDoc(c, s) /\ Keeps(doc[d], s)
  BY ClosedGood
<1> HIDE DEF s, c
<1>4. Head(cs) \in Made /\ Tail(cs) \in Seq(Made)
  OBVIOUS
<1>5. {Head(cs)} \in SUBSET Names(c)
  BY <1>3, <1>4, ExtendsNames DEF Made, Names
<1>6. GoodDoc(c, t)
  BY <1>2, <1>3, <1>5, BatchOutcomesGood
<1>7. Keeps(s, t)
  BY <1>2, <1>3, BatchKeeps DEF GoodDoc
<1>8. Keeps(doc[d], t)
  BY <1>3, <1>7 DEF Keeps
<1>9. snap' \in [Doc -> File'] /\ disk' \subseteq File' /\ rest \in [Doc -> Seq(Made')]
  BY <1>1, <1>3, TypesGrow
<1>10. Made \subseteq Made'
  BY <1>1, <1>3, ExtendsNames DEF Made, Names
<1>11. Tail(cs) \in Seq(Made') /\ <<>> \in Seq(Made')
  BY <1>4, <1>10
<1>12. rest' \in [Doc -> Seq(Made')]
  BY <1>1, <1>9, <1>11
<1>. QED
  BY <1>1, <1>2, <1>3, <1>6, <1>8, <1>9, <1>12, OneDocStep, OneDocKeeps

\* The first iteration of Apply's loop.
LEMMA ApplyStep ==
    ASSUME GoodState, NEW d \in Doc, NEW n \in 1 .. MaxApply,
           NEW cs \in [1 .. n -> Made], Apply(d, cs)
    PROVE  GoodState' /\ StepKeeps
<1>1. n \in Nat
  BY HistoryAssumption
<1>2. cs \in Seq(Made)
  BY <1>1
<1>. QED
  BY <1>2, ApplyOneStep DEF Apply

\* The later iterations, under the same lock.
LEMMA ApplyNextStep ==
    ASSUME GoodState, NEW d \in Doc, ApplyNext(d)
    PROVE  GoodState' /\ StepKeeps
<1>1. rest[d] \in Seq(Made)
  BY DEF GoodState
<1>. QED
  BY <1>1, ApplyOneStep DEF ApplyNext

\* Save closes the transaction and moves the cursor.
LEMMA SaveStep ==
    ASSUME GoodState, NEW d \in Doc, Save(d)
    PROVE  GoodState' /\ StepKeeps
<1> DEFINE t == Saved(doc[d])
<1>1. doc' = [doc EXCEPT ![d] = t] /\ chg' = ClosedLog(doc[d])
  BY DEF Save
<1>2. rest' = rest /\ snap' = snap /\ disk' = disk \cup {SavedFile(t)}
  BY DEF Save
<1>3. /\ GoodDoc(chg', t) /\ Keeps(doc[d], t) /\ SavedFile(t) \in File'
  BY <1>1, SavedGood
<1>4. Extends(chg, chg')
  BY <1>1, ClosedGood
<1> HIDE DEF t
<1>5. disk' \subseteq File' /\ rest' \in [Doc -> Seq(Made')] /\ snap' \in [Doc -> File']
  BY <1>2, <1>3, <1>4, TypesGrow
<1>. QED
  BY <1>1, <1>3, <1>4, <1>5, OneDocStep, OneDocKeeps

\* The changes of a file that exists are changes of the log, also a later one.
LEMMA FileChangesMade ==
    ASSUME NEW f \in File, NEW c, Extends(chg, c)
    PROVE  FileChanges(f) \in SUBSET Names(c) /\ FileChanges(f) \in SUBSET Names(chg)
<1>1. FileChanges(f) \in SUBSET Names(chg)
  BY DEF File, FileChanges, Made, Names
<1>. QED
  BY <1>1, ExtendsNames

\* Load creates a document from bytes.
LEMMA LoadStep ==
    ASSUME GoodState, NEW d \in Doc, NEW f \in disk, Load(d, f)
    PROVE  GoodState' /\ StepKeeps
<1>1. PICK a \in Actor : doc' = [doc EXCEPT ![d] = Loaded(chg, f, a)]
  BY DEF Load
<1>2. /\ chg' = chg /\ rest' = rest /\ snap' = snap /\ disk' = disk
      /\ doc[d].status = "none"
  BY DEF Load
<1>3. GoodLog(chg) /\ Extends(chg, chg') /\ Extends(chg, chg)
  BY <1>2, ExtendsRefl DEF GoodState
<1>4. FileChanges(f) \in SUBSET Names(chg)
  BY <1>3, FileChangesMade DEF GoodState
<1>5. GoodDoc(chg', Loaded(chg, f, a))
  BY <1>2, <1>3, <1>4, LoadedGood
<1>. QED
  BY <1>1, <1>2, <1>3, <1>5, TypesGrow, OneDocStep, OneDocKeeps

\* SaveIncremental moves the cursor if it returns bytes.
LEMMA SaveIncrementalStep ==
    ASSUME GoodState, NEW d \in Doc, SaveIncremental(d)
    PROVE  GoodState' /\ StepKeeps
<1> DEFINE s     == Closed(doc[d])
           c     == ClosedLog(doc[d])
           delta == s.hist \ Ancestors(c, s.hist, s.cursor)
           file  == [whole |-> FALSE, changes |-> delta, orphans |-> {}]
           t     == IF delta = {} THEN s ELSE [s EXCEPT !.cursor = s.heads]
<1>1. /\ chg' = c /\ doc' = [doc EXCEPT ![d] = t]
      /\ disk' = (IF delta = {} THEN disk ELSE disk \cup {file})
      /\ rest' = rest /\ snap' = snap
  BY DEF SaveIncremental
<1>2. Extends(chg, c) /\ GoodDoc(c, s) /\ Keeps(doc[d], s)
  BY ClosedGood
<1> HIDE DEF s, c, delta
<1>3. delta \subseteq s.hist
  BY DEF delta
<1>4. s.hist \in SUBSET Names(c) /\ s.heads \in SUBSET Names(c)
  BY <1>2 DEF GoodDoc, DocStateOf
<1>5. GoodDoc(c, t) /\ Keeps(s, t)
  BY <1>2, <1>4, SetFieldsGood DEF Keeps
<1>6. file \in File'
  BY <1>1, <1>3, <1>4 DEF File, Made, Names
<1> HIDE DEF t, file
<1>7. Keeps(doc[d], t)
  BY <1>2, <1>5 DEF Keeps
<1>8. disk' \subseteq File' /\ rest' \in [Doc -> Seq(Made')] /\ snap' \in [Doc -> File']
  BY <1>1, <1>2, <1>6, TypesGrow
<1>. QED
  BY <1>1, <1>2, <1>5, <1>7, <1>8, OneDocStep, OneDocKeeps

\* LoadIncremental applies the changes of the bytes as one batch; only an
\* empty document, which has nothing to lose, is replaced.
LEMMA LoadIncrementalStep ==
    ASSUME GoodState, NEW d \in Doc, NEW f \in disk, LoadIncremental(d, f)
    PROVE  GoodState' /\ StepKeeps
<1> DEFINE s == Closed(doc[d])
           c == ClosedLog(doc[d])
           Stays == s.hist = {} /\ s.queue = {} /\ DuplicateSeq(c, s, FileChanges(f))
<1>1. /\ chg' = c /\ rest' = rest /\ snap' = snap /\ disk' = disk
      /\ \E t \in BatchOutcomes(c, s, FileChanges(f)) :
            doc' = [doc EXCEPT ![d] = IF Stays THEN s ELSE t]
  BY DEF LoadIncremental
<1>2. PICK t \in BatchOutcomes(c, s, FileChanges(f)) :
            doc' = [doc EXCEPT ![d] = IF Stays THEN s ELSE t]
  BY <1>1
<1>3. Extends(chg, c) /\ GoodLog(c) /\ GoodDoc(c, s) /\ Keeps(doc[d], s)
  BY ClosedGood
<1> HIDE DEF s, c, Stays
<1>4. FileChanges(f) \in SUBSET Names(c)
  BY <1>3, FileChangesMade DEF GoodState
<1>5. GoodDoc(c, t)
  BY <1>2, <1>3, <1>4, BatchOutcomesGood
<1>6. Keeps(s, t)
  BY <1>2, <1>3, BatchKeeps DEF GoodDoc
<1> DEFINE u == IF Stays THEN s ELSE t
<1>7. GoodDoc(c, u) /\ Keeps(doc[d], u) /\ doc' = [doc EXCEPT ![d] = u]
  BY <1>2, <1>3, <1>5, <1>6 DEF Keeps
<1> HIDE DEF u
<1>. QED
  BY <1>1, <1>3, <1>7, TypesGrow, OneDocStep, OneDocKeeps

\* The copy that Fork makes holds ancestors of asOf, or all that was saved.
LEMMA ForkOfGood ==
    ASSUME NEW c, GoodLog(c), NEW s, GoodDoc(c, s), NEW asOf, NEW a \in Actor
    PROVE  GoodDoc(c, ForkOf(c, s, asOf, a))
<1>1. s.hist \in SUBSET Names(c) /\ s.queue \in SUBSET Names(c)
  BY DEF GoodDoc, DocStateOf
<1>2. CASE asOf = {}
  <2>1. FileChanges(SavedFile(s)) \in SUBSET Names(c)
    BY <1>1 DEF FileChanges, SavedFile
  <2>. QED
    BY <1>2, <2>1, LoadedGood DEF ForkOf
<1>3. CASE asOf # {}
  <2> DEFINE past == Ancestors(c, s.hist, asOf)
             f    == [whole |-> TRUE, changes |-> past, orphans |-> {}]
  <2>1. past \in SUBSET Names(c)
    BY <1>1 DEF Ancestors
  <2>2. FileChanges(f) \in SUBSET Names(c)
    BY <2>1 DEF FileChanges
  <2>3. ForkOf(c, s, asOf, a) = Loaded(c, f, a)
    BY <1>3 DEF ForkOf
  <2> HIDE DEF f
  <2>. QED
    BY <2>2, <2>3, LoadedGood
<1>. QED
  BY <1>2, <1>3

\* Fork disturbs two documents: the forked one is saved, the new one loaded.
LEMMA ForkStep ==
    ASSUME GoodState, NEW d \in Doc, NEW nd \in Doc, NEW asOf \in SUBSET Made,
           Fork(d, nd, asOf)
    PROVE  GoodState' /\ StepKeeps
<1> DEFINE s == Saved(doc[d])
           c == ClosedLog(doc[d])
<1>1. /\ chg' = c /\ rest' = rest /\ snap' = snap /\ disk' = disk
      /\ doc[d].status = "open" /\ doc[nd].status = "none"
  BY DEF Fork, Free
<1>2. PICK a \in Actor :
         \/ doc' = [doc EXCEPT ![d] = s, ![nd] = ForkOf(c, Loaded(c, SavedFile(s), a), asOf, a)]
         \/ doc' = [doc EXCEPT ![d] = s]
  BY DEF Fork
<1>3. Extends(chg, c) /\ GoodLog(c)
  BY ClosedGood
<1>4. GoodDoc(c, s) /\ Keeps(doc[d], s) /\ FileChanges(SavedFile(s)) \in SUBSET Names(c)
  BY SavedGood
<1> HIDE DEF s, c
<1> DEFINE t == ForkOf(c, Loaded(c, SavedFile(s), a), asOf, a)
<1>5. GoodDoc(c, t)
  BY <1>3, <1>4, LoadedGood, ForkOfGood
<1>6. CASE doc' = [doc EXCEPT ![d] = s]
  BY <1>1, <1>3, <1>4, <1>6, TypesGrow, OneDocStep, OneDocKeeps
<1>7. CASE doc' = [doc EXCEPT ![d] = s, ![nd] = t]
  <2> HIDE DEF t
  <2>1. doc \in [Doc -> DocStateOf(chg)]
    BY DEF GoodState
  <2>2. d # nd
    BY <1>1
  <2>3. /\ DOMAIN doc' = Doc /\ doc' = [e \in Doc |-> doc'[e]]
        /\ doc'[d] = s /\ doc'[nd] = t
        /\ \A e \in Doc \ {d, nd} : doc'[e] = doc[e]
    BY <1>7, <2>1, <2>2
  <2>4. \A e \in Doc : doc'[e] = doc[e] \/ GoodDoc(chg', doc'[e])
    BY <1>1, <1>4, <1>5, <2>3
  <2>5. /\ doc' \in [Doc -> DocStateOf(chg')]
        /\ \A e \in Doc : GoodDoc(chg', doc'[e])
    BY <1>1, <1>3, <2>3, <2>4, DocsStayGood
  <2>6. StepKeeps
    BY <1>1, <1>4, <2>3 DEF StepKeeps, Keeps
  <2>7. rest' \in [Doc -> Seq(Made')] /\ snap' \in [Doc -> File'] /\ disk' \subseteq File'
    BY <1>1, <1>3, TypesGrow
  <2>. QED
    BY <1>1, <1>3, <2>5, <2>6, <2>7 DEF GoodState
<1>. QED
  BY <1>2, <1>6, <1>7 DEF t

\* The first half of Merge saves the other document.
LEMMA MergeSaveStep ==
    ASSUME GoodState, NEW d \in Doc, NEW d2 \in Doc, MergeSave(d, d2)
    PROVE  GoodState' /\ StepKeeps
<1> DEFINE t == Saved(doc[d2])
<1>1. /\ doc' = [doc EXCEPT ![d2] = t] /\ chg' = ClosedLog(doc[d2])
      /\ rest' = rest /\ disk' = disk /\ snap' = [snap EXCEPT ![d] = SavedFile(t)]
  BY DEF MergeSave
<1>2. GoodDoc(chg', t) /\ Keeps(doc[d2], t) /\ SavedFile(t) \in File'
  BY <1>1, SavedGood
<1>3. Extends(chg, chg')
  BY <1>1, ClosedGood
<1> HIDE DEF t
<1>4. rest' \in [Doc -> Seq(Made')] /\ disk' \subseteq File' /\ snap \in [Doc -> File']
  BY <1>1, <1>3, TypesGrow
<1>5. snap' \in [Doc -> File']
  BY <1>1, <1>2, <1>4
<1>. QED
  BY <1>1, <1>2, <1>3, <1>4, <1>5, OneDocStep, OneDocKeeps

\* The second half applies what the other document has and this one has not.
LEMMA MergeApplyStep ==
    ASSUME GoodState, NEW d \in Doc, MergeApply(d)
    PROVE  GoodState' /\ StepKeeps
<1> DEFINE a == doc[d].actor
           s == Closed(doc[d])
           c == ClosedLog(doc[d])
           added == ChangesAdded(c, s, snap[d], a)
<1>1. /\ rest' = rest /\ disk' = disk /\ snap' = [snap EXCEPT ![d] = NoFile]
      /\ \/ chg' = chg /\ doc' = doc
         \/ /\ chg' = c
            /\ \E t \in BatchOutcomes(c, s, added) : doc' = [doc EXCEPT ![d] = t]
  BY DEF MergeApply
<1>2. Extends(chg, c) /\ GoodLog(c) /\ GoodDoc(c, s) /\ Keeps(doc[d], s)
  BY ClosedGood
<1>3. GoodLog(chg) /\ doc[d] \in DocStateOf(chg) /\ Extends(chg, chg)
  BY ExtendsRefl DEF GoodState
<1>4. a \in Actor
  BY <1>3 DEF DocStateOf
<1> HIDE DEF s, c, a
<1>5. snap[d] \in File
  BY DEF GoodState
<1>6. added \in SUBSET Names(c)
  <2>1. FileChanges(snap[d]) \in SUBSET Names(c)
    BY <1>2, <1>5, FileChangesMade
  <2>2. GoodDoc(c, Loaded(c, snap[d], a))
    BY <1>2, <1>4, <2>1, LoadedGood
  <2>. QED
    BY <2>2 DEF ChangesAdded, GoodDoc, DocStateOf
<1> HIDE DEF added
<1>7. NoFile \in File'
  BY DEF NoFile, File
<1>8. CASE chg' = chg /\ doc' = doc
  <2>1. doc' = [doc EXCEPT ![d] = doc[d]] /\ GoodDoc(chg', doc[d]) /\ Extends(chg, chg')
    BY <1>3, <1>8 DEF GoodState
  <2>2. snap \in [Doc -> File'] /\ rest' \in [Doc -> Seq(Made')] /\ disk' \subseteq File'
    BY <1>1, <2>1, TypesGrow
  <2>3. snap' \in [Doc -> File']
    BY <1>1, <1>7, <2>2
  <2>. QED
    BY <2>1, <2>2, <2>3, OneDocStep, OneDocKeeps DEF Keeps
<1>9. CASE /\ chg' = c
           /\ \E t \in BatchOutcomes(c, s, added) : doc' = [doc EXCEPT ![d] = t]
  <2>1. PICK t \in BatchOutcomes(c, s, added) : doc' = [doc EXCEPT ![d] = t]
    BY <1>9
  <2>2. GoodDoc(c, t) /\ Keeps(s, t)
    BY <1>2, <1>6, <2>1, BatchOutcomesGood, BatchKeeps DEF GoodDoc
  <2>3. Keeps(doc[d], t)
    BY <1>2, <2>2 DEF Keeps
  <2>4. snap \in [Doc -> File'] /\ rest' \in [Doc -> Seq(Made')] /\ disk' \subseteq File'
    BY <1>1, <1>2, <1>9, TypesGrow
  <2>5. snap' \in [Doc -> File']
    BY <1>1, <1>7, <2>4
  <2>. QED
    BY <1>2, <1>9, <2>1, <2>2, <2>3, <2>4, <2>5, OneDocStep, OneDocKeeps
<1>. QED
  BY <1>1, <1>8, <1>9

\* SetActorID closes the transaction under the old actor.
LEMMA SetActorIDStep ==
    ASSUME GoodState, NEW d \in Doc, NEW a \in Actor, SetActorID(d, a)
    PROVE  GoodState' /\ StepKeeps
<1> DEFINE s == Closed(doc[d])
           t == [s EXCEPT !.actor = a]
<1>1. /\ doc' = [doc EXCEPT ![d] = t] /\ chg' = ClosedLog(doc[d])
      /\ rest' = rest /\ snap' = snap /\ disk' = disk
  BY DEF SetActorID
<1>2. Extends(chg, chg') /\ GoodDoc(chg', s) /\ Keeps(doc[d], s)
  BY <1>1, ClosedGood
<1> HIDE DEF s
<1>3. GoodDoc(chg', t) /\ Keeps(s, t)
  BY <1>2, SetFieldsGood
<1> HIDE DEF t
<1>4. Keeps(doc[d], t)
  BY <1>2, <1>3 DEF Keeps
<1>. QED
  BY <1>1, <1>2, <1>3, <1>4, TypesGrow, OneDocStep, OneDocKeeps

-----------------------------------------------------------------------------
(* The theorems *)

\* Documents that do not exist yet are good: they have no changes.
LEMMA InitGood == Init => GoodState
<1> SUFFICES ASSUME Init PROVE GoodState
  OBVIOUS
<1>1. PICK a \in Actor : doc = [d \in Doc |-> [Blank(a) EXCEPT !.status = "none"]]
  BY DEF Init
<1>2. chg = <<>> /\ Len(chg) = 0 /\ chg \in Seq(Change)
  BY DEF Init
<1>3. GoodLog(chg)
  BY <1>2 DEF GoodLog, Names
<1> DEFINE b == [Blank(a) EXCEPT !.status = "none"]
<1>4. GoodDoc(chg, b)
  <2>1. b \in DocStateOf(chg) /\ b.hist = {} /\ b.heads = {} /\ b.queue = {}
    BY DEF Blank, DocStateOf
  <2>2. Deps(chg, {}) = {}
    BY DepsMember
  <2>. QED
    BY <2>1, <2>2 DEF GoodDoc
<1> HIDE DEF b
<1>5. doc \in [Doc -> DocStateOf(chg)] /\ \A d \in Doc : GoodDoc(chg, doc[d])
  BY <1>1, <1>4 DEF b, GoodDoc
<1>6. /\ rest \in [Doc -> Seq(Made)] /\ snap \in [Doc -> File] /\ disk \subseteq File
  BY DEF Init, NoFile, File
<1>. QED
  BY <1>3, <1>5, <1>6 DEF GoodState

\* Every step keeps the state good and every document's changes.
LEMMA NextGood ==
    ASSUME GoodState, [Next]_vars
    PROVE  GoodState' /\ StepKeeps
<1>1. CASE UNCHANGED vars
  BY <1>1 DEF vars, GoodState, StepKeeps, Keeps, Made, File
<1>2. CASE Next
  <2>1. PICK d \in Doc : Calls(d)
    BY <1>2 DEF Next
  <2>. QED
    BY <2>1, NewStep, EditStep, CommitStep, ReadHistoryStep, ApplyStep, ApplyNextStep,
       SaveStep, LoadStep, SaveIncrementalStep, LoadIncrementalStep, ForkStep,
       MergeSaveStep, MergeApplyStep, SetActorIDStep DEF Calls
<1>. QED
  BY <1>1, <1>2

\* The invariant of the change graph holds in every reachable state, whatever
\* the numbers of documents, actors and changes: all of TypeOK, CausallyClosed,
\* HeadsAreMaximal, and the two facts that make them inductive.
THEOREM HistoryInvariant == Spec => []HistoryInv
<1>1. Init => GoodState
  BY InitGood
<1>2. GoodState /\ [Next]_vars => GoodState'
  BY NextGood
<1>3. GoodState => HistoryInv
  BY GoodStateIsHistoryInv
<1>. QED
  BY <1>1, <1>2, <1>3, PTL DEF Spec

\* The type of the state.
THEOREM TypeCorrect == Spec => []TypeOK
<1>1. HistoryInv => TypeOK
  BY DEF HistoryInv
<1>. QED
  BY <1>1, HistoryInvariant, PTL

\* No document ever contains a change without the changes it depends on.
THEOREM CausalClosure == Spec => []CausallyClosed
<1>1. HistoryInv => CausallyClosed
  BY DEF HistoryInv
<1>. QED
  BY <1>1, HistoryInvariant, PTL

\* The incrementally maintained heads are always the maximal changes.
THEOREM HeadsCorrect == Spec => []HeadsAreMaximal
<1>1. HistoryInv => HeadsAreMaximal
  BY DEF HistoryInv
<1>. QED
  BY <1>1, HistoryInvariant, PTL

\* No call, not even one that fails halfway, drops an accepted change.
THEOREM NoChangeLost == Spec => NothingLost
<1> DEFINE Keep == \A d \in Open :
         doc[d].hist \cup doc[d].queue \subseteq doc'[d].hist \cup doc'[d].queue
<1>1. Init => GoodState
  BY InitGood
<1>2. GoodState /\ [Next]_vars => GoodState'
  BY NextGood
<1>3. GoodState /\ [Next]_vars => [Keep]_vars
  <2> SUFFICES ASSUME GoodState, [Next]_vars PROVE Keep
    OBVIOUS
  <2>1. StepKeeps
    BY NextGood
  <2>. QED
    BY <2>1 DEF StepKeeps, Keeps, Open
<1>. QED
  BY <1>1, <1>2, <1>3, PTL DEF Spec, NothingLost

=============================================================================
