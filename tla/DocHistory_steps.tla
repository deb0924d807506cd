-------------------------- MODULE DocHistory_steps --------------------------
(***************************************************************************)
(* What a call may do to the documents, in one form for all calls, and     *)
(* what follows from it: an edit is never discarded; a Merge is complete   *)
(* although it runs under two locks, one after the other; and the          *)
(* documents implement causally complete replicas (CausalReplicas).        *)
(***************************************************************************)
EXTENDS DocHistory_proofs, WellFoundedInduction

-----------------------------------------------------------------------------
(* What all calls have in common.  A call works on one open document, whose *)
(* transaction it may close first, or creates a document, or both (Fork).   *)

\* Bytes without a duplicate sequence number make the new document u.
Created(c, a, u) ==
    \/ u = Blank(a)
    \/ \E f : /\ FileChanges(f) \in SUBSET Names(c)
              /\ ~DuplicateSeq(c, Blank(a), FileChanges(f))
              /\ u = Loaded(c, f, a)

\* The log and the document that a call on d works with: a commit, or not.
Begins(d, c, s) ==
    \/ c = chg /\ s = doc[d]
    \/ c = CommitLog(chg, doc[d]) /\ s = Committed(chg, doc[d])

\* The history, the queue and the actor of s stay as they are.
Idles(s, t) ==
    /\ t.hist = s.hist /\ t.heads = s.heads /\ t.queue = s.queue
    /\ t.status = s.status /\ t.actor = s.actor /\ (s.pending => t.pending)

\* The rest of the call: nothing, a batch of changes, or a new actor.
Works(c, s, t) ==
    \/ Idles(s, t)
    \/ \E batch \in SUBSET Names(c) : t \in BatchOutcomes(c, s, batch)
    \/ \E a \in Actor : (ActorReuse \/ FreshActor(a)) /\ t = [s EXCEPT !.actor = a]

CreateStep(d) ==
    /\ doc[d].status = "none" /\ chg' = chg
    /\ \E a \in Actor : \E u :
          FreshActor(a) /\ Created(chg, a, u) /\ doc' = [doc EXCEPT ![d] = u]

WorkStep(d) ==
    /\ doc[d].status = "open"
    /\ \E s, t : /\ Begins(d, chg', s) /\ Works(chg', s, t)
                 /\ doc' = [doc EXCEPT ![d] = t]

Copies(d, e, a, s, t, u) ==
    /\ Begins(d, chg', s) /\ Idles(s, t) /\ FreshActor(a) /\ Created(chg', a, u)
    /\ doc' = [doc EXCEPT ![d] = t, ![e] = u]

CopyStep(d, e) ==
    /\ doc[d].status = "open" /\ doc[e].status = "none"
    /\ \E a \in Actor : \E s, t, u : Copies(d, e, a, s, t, u)

DocStep ==
    \/ \E d \in Doc : CreateStep(d) \/ WorkStep(d)
    \/ \E d, e \in Doc : CopyStep(d, e)

\* Closing a transaction is a commit if there is one.
LEMMA ClosedBegins ==
    ASSUME NEW d \in Doc
    PROVE  Begins(d, ClosedLog(doc[d]), Closed(doc[d]))
BY DEF Begins, ClosedLog, Closed

\* The engine's save leaves the history alone.
LEMMA SavedIdles ==
    ASSUME GoodState, NEW d \in Doc
    PROVE  Idles(Closed(doc[d]), Saved(doc[d]))
<1>1. Closed(doc[d]) \in DocStateOf(ClosedLog(doc[d]))
  BY ClosedGood DEF GoodDoc
<1>. QED
  BY <1>1 DEF Saved, Idles, DocStateOf

\* A part of a batch without duplicates has none, where there is nothing else.
LEMMA FewerDuplicates ==
    ASSUME NEW c, NEW a, NEW B, NEW A \in SUBSET B, ~DuplicateSeq(c, Blank(a), B)
    PROVE  ~DuplicateSeq(c, Blank(a), A)
BY DEF DuplicateSeq, Blank

\* What Fork makes of a document that was loaded could be loaded, too.
LEMMA ForkOfCreated ==
    ASSUME NEW c, GoodLog(c), NEW f, FileChanges(f) \in SUBSET Names(c), NEW a \in Actor,
           ~DuplicateSeq(c, Blank(a), FileChanges(f)), NEW asOf
    PROVE  Created(c, a, ForkOf(c, Loaded(c, f, a), asOf, a))
<1> DEFINE t == Loaded(c, f, a)
<1>1. t.hist \subseteq FileChanges(f) /\ t.queue \subseteq FileChanges(f)
  <2> DEFINE pool == FileChanges(f)
  <2>1. ReadyIn(c, {}, pool) \subseteq pool
    BY ReadyClosed
  <2>2. t.hist = ReadyIn(c, {}, pool) /\ t.queue = pool \ ReadyIn(c, {}, pool)
    BY DEF Loaded, BatchApplied, Blank
  <2>. QED
    BY <2>1, <2>2
<1> HIDE DEF t
<1>2. CASE asOf = {}
  <2>1. FileChanges(SavedFile(t)) \subseteq FileChanges(f)
    BY <1>1 DEF FileChanges, SavedFile
  <2>2. ~DuplicateSeq(c, Blank(a), FileChanges(SavedFile(t)))
    BY <2>1, FewerDuplicates
  <2>3. ForkOf(c, t, asOf, a) = Loaded(c, SavedFile(t), a)
    BY <1>2 DEF ForkOf
  <2>4. FileChanges(SavedFile(t)) \in SUBSET Names(c)
    BY <2>1
  <2>. QED
    BY <2>2, <2>3, <2>4 DEF Created, t
<1>3. CASE asOf # {}
  <2> DEFINE g == [whole |-> TRUE, changes |-> Ancestors(c, t.hist, asOf), orphans |-> {}]
  <2>1. FileChanges(g) \subseteq FileChanges(f)
    BY <1>1 DEF FileChanges, Ancestors
  <2>2. ForkOf(c, t, asOf, a) = Loaded(c, g, a)
    BY <1>3 DEF ForkOf
  <2> HIDE DEF g
  <2>3. ~DuplicateSeq(c, Blank(a), FileChanges(g)) /\ FileChanges(g) \in SUBSET Names(c)
    BY <2>1, FewerDuplicates
  <2>. QED
    BY <2>2, <2>3 DEF Created, t
<1>. QED
  BY <1>2, <1>3

\* The calls that create a document: New and Load.
LEMMA CreatingSteps ==
    ASSUME GoodState, NEW d \in Doc
    PROVE  /\ New(d) => CreateStep(d)
           /\ \A f \in disk : Load(d, f) => CreateStep(d)
<1>1. ASSUME New(d) PROVE CreateStep(d)
  BY <1>1 DEF New, CreateStep, Created
<1>2. ASSUME NEW f \in disk, Load(d, f) PROVE CreateStep(d)
  <2>1. FileChanges(f) \in SUBSET Names(chg)
    BY FileChangesMade, ExtendsRefl DEF GoodState
  <2>. QED
    BY <1>2, <2>1 DEF Load, CreateStep, Created, CanLoad
<1>. QED
  BY <1>1, <1>2

\* The calls that apply no batch: Edit, Commit, the reads of the history, the
\* two kinds of Save, the first half of Merge, and SetActorID.
LEMMA QuietSteps ==
    ASSUME GoodState, NEW d \in Doc
    PROVE  /\ Edit(d) => WorkStep(d)
           /\ \A allowEmpty \in BOOLEAN : Commit(d, allowEmpty) => WorkStep(d)
           /\ ReadHistory(d) => WorkStep(d)
           /\ Save(d) => WorkStep(d)
           /\ SaveIncremental(d) => WorkStep(d)
           /\ \A e \in Doc : MergeSave(e, d) => WorkStep(d)
           /\ \A a \in Actor : SetActorID(d, a) => WorkStep(d)
<1>1. doc \in [Doc -> DocStateOf(chg)] /\ doc[d] \in DocStateOf(chg)
  BY DEF GoodState
<1>2. Begins(d, ClosedLog(doc[d]), Closed(doc[d]))
  BY ClosedBegins
<1>3. Closed(doc[d]) \in DocStateOf(ClosedLog(doc[d]))
  BY ClosedGood DEF GoodDoc
<1>4. \A s : Idles(s, s)
  BY DEF Idles
<1>5. ASSUME Edit(d) PROVE WorkStep(d)
  <2> DEFINE t == [doc[d] EXCEPT !.pending = TRUE]
  <2>1. doc' = [doc EXCEPT ![d] = t] /\ chg' = chg /\ doc[d].status = "open"
    BY <1>1, <1>5 DEF Edit, Free
  <2>2. Idles(doc[d], t)
    BY <1>1 DEF Idles, DocStateOf
  <2>3. Begins(d, chg', doc[d])
    BY <2>1 DEF Begins
  <2> HIDE DEF t
  <2>. QED
    BY <2>1, <2>2, <2>3 DEF WorkStep, Works
<1>6. ASSUME NEW allowEmpty \in BOOLEAN, Commit(d, allowEmpty) PROVE WorkStep(d)
  <2> DEFINE t == Committed(chg, doc[d])
  <2>1. doc' = [doc EXCEPT ![d] = t] /\ chg' = CommitLog(chg, doc[d]) /\ doc[d].status = "open"
    BY <1>6 DEF Commit, Free
  <2>2. Begins(d, chg', t)
    BY <2>1 DEF Begins
  <2> HIDE DEF t
  <2>. QED
    BY <1>4, <2>1, <2>2 DEF WorkStep, Works
<1>7. ASSUME ReadHistory(d) PROVE WorkStep(d)
  <2>1. /\ doc' = [doc EXCEPT ![d] = Closed(doc[d])] /\ chg' = ClosedLog(doc[d])
        /\ doc[d].status = "open"
    BY <1>7 DEF ReadHistory, Free
  <2>. QED
    BY <1>2, <1>4, <2>1 DEF WorkStep, Works
<1>8. ASSUME doc[d].status = "open", chg' = ClosedLog(doc[d]), doc' = [doc EXCEPT ![d] = Saved(doc[d])]
      PROVE  WorkStep(d)
  BY <1>2, <1>8, SavedIdles DEF WorkStep, Works
<1>9. ASSUME SaveIncremental(d) PROVE WorkStep(d)
  <2> DEFINE s     == Closed(doc[d])
             c     == ClosedLog(doc[d])
             delta == s.hist \ Ancestors(c, s.hist, s.cursor)
             t     == IF delta = {} THEN s ELSE [s EXCEPT !.cursor = s.heads]
  <2>1. doc' = [doc EXCEPT ![d] = t] /\ chg' = c /\ doc[d].status = "open"
    BY <1>9 DEF SaveIncremental, Free
  <2> HIDE DEF s, delta
  <2>2. Idles(s, t)
    BY <1>3 DEF Idles, DocStateOf, s
  <2> HIDE DEF t
  <2>. QED
    BY <1>2, <2>1, <2>2 DEF WorkStep, Works, s
<1>10. ASSUME NEW a \in Actor, SetActorID(d, a) PROVE WorkStep(d)
  BY <1>2, <1>10 DEF SetActorID, Free, WorkStep, Works
<1>11. Save(d) => WorkStep(d)
  BY <1>8 DEF Save, Free
<1>12. \A e \in Doc : MergeSave(e, d) => WorkStep(d)
  BY <1>8 DEF MergeSave, Free
<1>. QED
  BY <1>5, <1>6, <1>7, <1>9, <1>10, <1>11, <1>12

\* The calls that apply a batch: Apply, iteration by iteration, LoadIncremental
\* and the second half of Merge.
LEMMA BatchSteps ==
    ASSUME GoodState, NEW d \in Doc
    PROVE  /\ \A n \in 1 .. MaxApply : \A cs \in [1 .. n -> Made] : Apply(d, cs) => WorkStep(d)
           /\ ApplyNext(d) => WorkStep(d)
           /\ \A f \in disk : LoadIncremental(d, f) => WorkStep(d)
           /\ MergeApply(d) => WorkStep(d)
<1> DEFINE s == Closed(doc[d])
           c == ClosedLog(doc[d])
<1>1. Begins(d, c, s)
  BY ClosedBegins
<1>2. Extends(chg, c) /\ GoodLog(c) /\ GoodDoc(c, s) /\ Made \subseteq Names(c)
  BY ClosedGood, ExtendsNames DEF Made, Names
<1>3. ASSUME NEW batch \in SUBSET Names(c), NEW t \in BatchOutcomes(c, s, batch),
             doc' = [doc EXCEPT ![d] = t], chg' = c, doc[d].status = "open"
      PROVE  WorkStep(d)
  BY <1>1, <1>3 DEF WorkStep, Works
<1>4. ASSUME NEW cs \in Seq(Made), cs # <<>>, doc[d].status = "open", ApplyOne(d, cs)
      PROVE  WorkStep(d)
  <2>1. {Head(cs)} \in SUBSET Names(c)
    BY <1>2, <1>4
  <2>2. chg' = c /\ \E t \in BatchOutcomes(c, s, {Head(cs)}) : doc' = [doc EXCEPT ![d] = t]
    BY <1>4 DEF ApplyOne
  <2> HIDE DEF s, c
  <2>. QED
    BY <1>3, <1>4, <2>1, <2>2
<1>5. ASSUME NEW n \in 1 .. MaxApply, NEW cs \in [1 .. n -> Made], Apply(d, cs)
      PROVE  WorkStep(d)
  <2>1. n \in Nat
    BY HistoryAssumption
  <2>2. cs \in Seq(Made)
    BY <2>1
  <2>. QED
    BY <1>4, <1>5, <2>2 DEF Apply, Free
<1>6. ASSUME ApplyNext(d) PROVE WorkStep(d)
  BY <1>4, <1>6 DEF ApplyNext, GoodState
<1>7. ASSUME NEW f \in disk, LoadIncremental(d, f) PROVE WorkStep(d)
  <2>1. PICK t \in BatchOutcomes(c, s, FileChanges(f)) :
           doc' = [doc EXCEPT ![d] =
                     IF s.hist = {} /\ s.queue = {} /\ DuplicateSeq(c, s, FileChanges(f))
                     THEN s ELSE t]
    BY <1>7 DEF LoadIncremental
  <2>2. chg' = c /\ doc[d].status = "open"
    BY <1>7 DEF LoadIncremental, Free
  <2>3. FileChanges(f) \in SUBSET Names(c)
    BY <1>2, FileChangesMade DEF GoodState
  <2> HIDE DEF s, c
  <2>4. CASE doc' = [doc EXCEPT ![d] = t]
    BY <1>3, <2>1, <2>2, <2>3, <2>4
  <2>5. CASE doc' = [doc EXCEPT ![d] = s]
    BY <1>1, <2>2, <2>5 DEF WorkStep, Works, Idles
  <2>. QED
    BY <2>1, <2>4, <2>5
<1>8. ASSUME MergeApply(d) PROVE WorkStep(d)
  <2> DEFINE a     == doc[d].actor
             added == ChangesAdded(c, s, snap[d], a)
  <2>1. doc[d].status = "open"
    BY <1>8 DEF MergeApply, Free
  <2>2. CASE chg' = chg /\ doc' = doc
    <3>1. doc' = [doc EXCEPT ![d] = doc[d]]
      BY <2>2 DEF GoodState
    <3>. QED
      BY <2>1, <2>2, <3>1 DEF WorkStep, Works, Idles, Begins
  <2>3. CASE chg' = c /\ \E t \in BatchOutcomes(c, s, added) : doc' = [doc EXCEPT ![d] = t]
    <3>1. snap[d] \in File /\ a \in Actor
      BY DEF GoodState, DocStateOf
    <3>2. FileChanges(snap[d]) \in SUBSET Names(c)
      BY <1>2, <3>1, FileChangesMade
    <3>3. GoodDoc(c, Loaded(c, snap[d], a))
      BY <1>2, <3>1, <3>2, LoadedGood
    <3>4. added \in SUBSET Names(c)
      BY <3>3 DEF ChangesAdded, GoodDoc, DocStateOf
    <3> HIDE DEF added, s, c
    <3>. QED
      BY <1>3, <2>1, <2>3, <3>4
  <2>. QED
    BY <1>8, <2>2, <2>3 DEF MergeApply
<1>. QED
  BY <1>5, <1>6, <1>7, <1>8

\* Fork saves one document and creates another, unless the load fails.
LEMMA ForkSteps ==
    ASSUME GoodState, NEW d \in Doc, NEW nd \in Doc, NEW asOf \in SUBSET Made,
           Fork(d, nd, asOf)
    PROVE  WorkStep(d) \/ CopyStep(d, nd)
<1> DEFINE s == Saved(doc[d])
           c == ClosedLog(doc[d])
<1>1. chg' = c /\ doc[d].status = "open" /\ doc[nd].status = "none"
  BY DEF Fork, Free
<1>2. PICK a \in Actor :
         /\ FreshActor(a)
         /\ doc' = IF CanLoad(c, SavedFile(s), a) /\ asOf \subseteq Loaded(c, SavedFile(s), a).hist
                   THEN [doc EXCEPT ![d] = s,
                                    ![nd] = ForkOf(c, Loaded(c, SavedFile(s), a), asOf, a)]
                   ELSE [doc EXCEPT ![d] = s]
  BY DEF Fork
<1>3. Begins(d, c, Closed(doc[d])) /\ Idles(Closed(doc[d]), s)
  BY ClosedBegins, SavedIdles
<1>4. GoodLog(c) /\ FileChanges(SavedFile(s)) \in SUBSET Names(c)
  BY ClosedGood, SavedGood
<1> HIDE DEF s, c
<1>5. CASE CanLoad(c, SavedFile(s), a) /\ asOf \subseteq Loaded(c, SavedFile(s), a).hist
  <2> DEFINE u == ForkOf(c, Loaded(c, SavedFile(s), a), asOf, a)
  <2>1. Created(c, a, u)
    BY <1>4, <1>5, ForkOfCreated DEF CanLoad
  <2>2. doc' = [doc EXCEPT ![d] = s, ![nd] = u]
    BY <1>2, <1>5
  <2> HIDE DEF u
  <2>3. /\ Begins(d, chg', Closed(doc[d])) /\ Idles(Closed(doc[d]), s)
        /\ FreshActor(a) /\ Created(chg', a, u)
    BY <1>1, <1>2, <1>3, <2>1
  <2>4. Copies(d, nd, a, Closed(doc[d]), s, u)
    BY <2>2, <2>3 DEF Copies
  <2>. QED
    BY <1>1, <2>4 DEF CopyStep
<1>6. CASE ~(CanLoad(c, SavedFile(s), a) /\ asOf \subseteq Loaded(c, SavedFile(s), a).hist)
  BY <1>1, <1>2, <1>3, <1>6 DEF WorkStep, Works
<1>. QED
  BY <1>5, <1>6

\* Every call creates a document, works on one, or copies one.
LEMMA NextIsDocStep ==
    ASSUME GoodState, Next
    PROVE  DocStep
<1>1. PICK d \in Doc : Calls(d)
  BY DEF Next
<1>. QED
  BY <1>1, CreatingSteps, QuietSteps, BatchSteps, ForkSteps DEF Calls, DocStep

\* The end of a call takes nothing from the history and leaves a transaction
\* open that was not closed at its start.
LEMMA WorksGrow ==
    ASSUME NEW c, NEW s \in DocStateOf(c), NEW t, Works(c, s, t)
    PROVE  s.hist \subseteq t.hist /\ (s.pending => t.pending)
<1>1. CASE Idles(s, t)
  BY <1>1 DEF Idles
<1>2. ASSUME NEW batch \in SUBSET Names(c), t \in BatchOutcomes(c, s, batch)
      PROVE  s.hist \subseteq t.hist /\ (s.pending => t.pending)
  <2>1. CASE DuplicateSeq(c, s, batch)
    <3>1. PICK P : t = [s EXCEPT !.queue = @ \cup P]
      BY <1>2, <2>1 DEF BatchOutcomes, BatchRejected
    <3>. QED
      BY <3>1 DEF DocStateOf
  <2>2. CASE ~DuplicateSeq(c, s, batch) /\ SeqAssertFails(c, s, batch)
    BY <1>2, <2>2 DEF BatchOutcomes, DocStateOf
  <2>3. CASE ~DuplicateSeq(c, s, batch) /\ ~SeqAssertFails(c, s, batch)
    <3>1. t = BatchApplied(c, s, batch)
      BY <1>2, <2>3 DEF BatchOutcomes
    <3>. QED
      BY <3>1 DEF BatchApplied, DocStateOf
  <2>. QED
    BY <2>1, <2>2, <2>3
<1>3. ASSUME NEW a \in Actor, t = [s EXCEPT !.actor = a]
      PROVE  s.hist \subseteq t.hist /\ (s.pending => t.pending)
  BY <1>3 DEF DocStateOf
<1>. QED
  BY <1>1, <1>2, <1>3 DEF Works

\* What a call begins with: the same document, or one with a change more.
LEMMA BeginsGood ==
    ASSUME GoodState, NEW d \in Doc, NEW c, NEW s, Begins(d, c, s)
    PROVE  /\ Extends(chg, c) /\ GoodLog(c) /\ GoodDoc(c, s)
           /\ s.status = doc[d].status /\ s.actor = doc[d].actor /\ s.queue = doc[d].queue
           /\ doc[d].hist \subseteq s.hist
           /\ \/ c = chg /\ s = doc[d]
              \/ /\ c = CommitLog(chg, doc[d]) /\ Len(c) = Len(chg) + 1
                 /\ c[Len(c)] = NextChange(chg, doc[d])
                 /\ s.hist = doc[d].hist \cup {Len(c)}
<1>1. GoodLog(chg) /\ GoodDoc(chg, doc[d]) /\ doc[d] \in DocStateOf(chg)
  BY DEF GoodState
<1>2. CASE c = chg /\ s = doc[d]
  BY <1>1, <1>2, ExtendsRefl
<1>3. CASE c = CommitLog(chg, doc[d]) /\ s = Committed(chg, doc[d])
  <2>1. /\ Extends(chg, c) /\ Len(c) = Len(chg) + 1
        /\ c[Len(chg) + 1] = NextChange(chg, doc[d]) /\ GoodDoc(c, s)
    BY <1>1, <1>3, CommitExtends, CommittedGood
  <2>2. /\ s.status = doc[d].status /\ s.actor = doc[d].actor /\ s.queue = doc[d].queue
        /\ s.hist = doc[d].hist \cup {Len(chg) + 1}
    BY <1>1, <1>3 DEF Committed, DocStateOf
  <2>. QED
    BY <1>3, <2>1, <2>2 DEF Extends
<1>. QED
  BY <1>2, <1>3 DEF Begins

\* What a call may do to one document.
LEMMA EachDoc ==
    ASSUME GoodState, DocStep, NEW e \in Doc
    PROVE  \/ doc'[e] = doc[e]
           \/ /\ doc[e].status = "open"
              /\ \E s : Begins(e, chg', s) /\ Works(chg', s, doc'[e])
           \/ /\ doc[e].status = "none"
              /\ \E a \in Actor : FreshActor(a) /\ Created(chg', a, doc'[e])
<1>1. doc \in [Doc -> DocStateOf(chg)]
  BY DEF GoodState
<1>2. ASSUME NEW d \in Doc, CreateStep(d)
      PROVE  \/ doc'[e] = doc[e]
             \/ /\ doc[e].status = "none"
                /\ \E a \in Actor : FreshActor(a) /\ Created(chg', a, doc'[e])
  BY <1>1, <1>2 DEF CreateStep
<1>3. ASSUME NEW d \in Doc, WorkStep(d)
      PROVE  \/ doc'[e] = doc[e]
             \/ /\ doc[e].status = "open"
                /\ \E s : Begins(e, chg', s) /\ Works(chg', s, doc'[e])
  BY <1>1, <1>3 DEF WorkStep
<1>4. ASSUME NEW d \in Doc, NEW n \in Doc, CopyStep(d, n)
      PROVE  \/ doc'[e] = doc[e]
             \/ /\ doc[e].status = "open"
                /\ \E s : Begins(e, chg', s) /\ Works(chg', s, doc'[e])
             \/ /\ doc[e].status = "none"
                /\ \E a \in Actor : FreshActor(a) /\ Created(chg', a, doc'[e])
  <2>0. PICK a \in Actor : \E s, t, u : Copies(d, n, a, s, t, u)
    BY <1>4 DEF CopyStep
  <2>1. PICK s, t, u : Copies(d, n, a, s, t, u)
    BY <2>0
  <2>2. doc[d].status = "open" /\ doc[n].status = "none" /\ d # n
    BY <1>4 DEF CopyStep
  <2>3. doc'[d] = t /\ doc'[n] = u /\ \A f \in Doc \ {d, n} : doc'[f] = doc[f]
    BY <1>1, <2>1, <2>2 DEF Copies
  <2>4. Begins(d, chg', s) /\ Works(chg', s, t) /\ FreshActor(a) /\ Created(chg', a, u)
    BY <2>1 DEF Copies, Works
  <2>. QED
    BY <2>2, <2>3, <2>4
<1>. QED
  BY <1>2, <1>3, <1>4 DEF DocStep

\* An edit becomes a change of its document, under the actor it was made by:
\* the end of its transaction is a commit, whichever call ends it.
THEOREM EditsAreKept == Spec => EditsBecomeChanges
<1> DEFINE Kept(d) ==
              doc[d].pending /\ ~doc'[d].pending =>
                 /\ Len(chg') = Len(chg) + 1
                 /\ Len(chg') \in doc'[d].hist
                 /\ chg'[Len(chg')].actor = doc[d].actor
<1>1. ASSUME GoodState, Next, NEW d \in Open PROVE Kept(d)
  <2> SUFFICES ASSUME doc[d].pending, ~doc'[d].pending PROVE Kept(d)
    OBVIOUS
  <2>1. d \in Doc /\ doc[d].status = "open"
    BY DEF Open
  <2>2. PICK s : Begins(d, chg', s) /\ Works(chg', s, doc'[d])
    BY <1>1, <2>1, NextIsDocStep, EachDoc
  <2>3. /\ GoodDoc(chg', s)
        /\ \/ s = doc[d]
           \/ /\ Len(chg') = Len(chg) + 1
              /\ chg'[Len(chg')] = NextChange(chg, doc[d])
              /\ s.hist = doc[d].hist \cup {Len(chg')}
    BY <1>1, <2>1, <2>2, BeginsGood
  <2>4. s.hist \subseteq doc'[d].hist /\ (s.pending => doc'[d].pending)
    BY <2>2, <2>3, WorksGrow DEF GoodDoc
  <2>5. NextChange(chg, doc[d]).actor = doc[d].actor
    BY DEF NextChange
  <2>. QED
    BY <2>3, <2>4, <2>5
<1>2. GoodState /\ [Next]_vars => [\A d \in Open : Kept(d)]_vars
  BY <1>1
<1>3. Init => GoodState
  BY InitGood
<1>4. GoodState /\ [Next]_vars => GoodState'
  BY NextGood
<1>. QED
  BY <1>2, <1>3, <1>4, PTL DEF Spec, EditsBecomeChanges

\* A call makes at most one change, at the end of the log.
LEMMA NextExtends ==
    ASSUME GoodState, [Next]_vars
    PROVE  Extends(chg, chg')
<1>1. CASE UNCHANGED vars
  BY <1>1, ExtendsRefl DEF vars, GoodState
<1>2. CASE Next
  <2>1. DocStep
    BY <1>2, NextIsDocStep
  <2>2. CASE \E d \in Doc : CreateStep(d)
    BY <2>2, ExtendsRefl DEF CreateStep, GoodState
  <2>3. ASSUME NEW d \in Doc, WorkStep(d) PROVE Extends(chg, chg')
    BY <2>3, BeginsGood DEF WorkStep
  <2>4. ASSUME NEW d \in Doc, NEW e \in Doc, CopyStep(d, e) PROVE Extends(chg, chg')
    BY <2>4, BeginsGood DEF CopyStep, Copies
  <2>. QED
    BY <2>1, <2>2, <2>3, <2>4 DEF DocStep
<1>. QED
  BY <1>1, <1>2

-----------------------------------------------------------------------------
(* The log and the actors *)

\* The log grows by the change of one document, which has it from then on.
LEMMA LogStep ==
    ASSUME GoodState, DocStep
    PROVE  \/ chg' = chg
           \/ \E d \in Doc : /\ doc[d].status = "open"
                             /\ chg' = CommitLog(chg, doc[d])
                             /\ Len(chg') \in doc'[d].hist
<1>1. doc \in [Doc -> DocStateOf(chg)]
  BY DEF GoodState
<1>2. ASSUME NEW d \in Doc, WorkStep(d)
      PROVE  chg' = chg \/ (chg' = CommitLog(chg, doc[d]) /\ Len(chg') \in doc'[d].hist)
  <2>1. PICK s, t : Begins(d, chg', s) /\ Works(chg', s, t) /\ doc' = [doc EXCEPT ![d] = t]
    BY <1>2 DEF WorkStep
  <2>2. doc'[d] = t
    BY <1>1, <2>1
  <2>3. s \in DocStateOf(chg') /\ (chg' = chg \/ (chg' = CommitLog(chg, doc[d]) /\ Len(chg') \in s.hist))
    BY <2>1, BeginsGood DEF GoodDoc
  <2>. QED
    BY <2>1, <2>2, <2>3, WorksGrow
<1>3. ASSUME NEW d \in Doc, NEW e \in Doc, CopyStep(d, e)
      PROVE  chg' = chg \/ (chg' = CommitLog(chg, doc[d]) /\ Len(chg') \in doc'[d].hist)
  <2>1. PICK a \in Actor : \E s, t, u : Copies(d, e, a, s, t, u)
    BY <1>3 DEF CopyStep
  <2>2. PICK s, t, u : Copies(d, e, a, s, t, u)
    BY <2>1
  <2>3. d # e
    BY <1>3 DEF CopyStep
  <2>4. doc'[d] = t /\ Begins(d, chg', s) /\ Idles(s, t)
    BY <1>1, <2>2, <2>3 DEF Copies
  <2>5. chg' = chg \/ (chg' = CommitLog(chg, doc[d]) /\ Len(chg') \in s.hist)
    BY <2>4, BeginsGood
  <2>. QED
    BY <2>4, <2>5 DEF Idles
<1>. QED
  BY <1>2, <1>3 DEF DocStep, CreateStep, WorkStep, CopyStep

\* A call on an open document leaves it open or trapped, and only SetActorID
\* gives it another actor.
LEMMA WorksActor ==
    ASSUME NEW c, NEW s \in DocStateOf(c), s.status # "none", NEW t, Works(c, s, t)
    PROVE  /\ t.status # "none"
           /\ t.actor = s.actor \/ (t.actor \in Actor /\ (ActorReuse \/ FreshActor(t.actor)))
<1>1. CASE Idles(s, t)
  BY <1>1 DEF Idles
<1>2. ASSUME NEW batch \in SUBSET Names(c), t \in BatchOutcomes(c, s, batch)
      PROVE  t.status # "none" /\ t.actor = s.actor
  <2>1. CASE DuplicateSeq(c, s, batch)
    <3>1. PICK P : t = [s EXCEPT !.queue = @ \cup P]
      BY <1>2, <2>1 DEF BatchOutcomes, BatchRejected
    <3>. QED
      BY <3>1 DEF DocStateOf
  <2>2. CASE ~DuplicateSeq(c, s, batch) /\ SeqAssertFails(c, s, batch)
    BY <1>2, <2>2 DEF BatchOutcomes, DocStateOf
  <2>3. CASE ~DuplicateSeq(c, s, batch) /\ ~SeqAssertFails(c, s, batch)
    <3>1. t = BatchApplied(c, s, batch)
      BY <1>2, <2>3 DEF BatchOutcomes
    <3>. QED
      BY <3>1 DEF BatchApplied, DocStateOf
  <2>. QED
    BY <2>1, <2>2, <2>3
<1>3. ASSUME NEW a \in Actor, ActorReuse \/ FreshActor(a), t = [s EXCEPT !.actor = a]
      PROVE  t.status # "none" /\ t.actor = a
  BY <1>3 DEF DocStateOf
<1>. QED
  BY <1>1, <1>2, <1>3 DEF Works

\* A new document is open and has the actor it was given.
LEMMA CreatedActor ==
    ASSUME NEW c, NEW a, NEW u, Created(c, a, u)
    PROVE  u.status = "open" /\ u.actor = a
<1>1. CASE u = Blank(a)
  BY <1>1 DEF Blank
<1>2. ASSUME NEW f, u = Loaded(c, f, a)
      PROVE  u.status = "open" /\ u.actor = a
  BY <1>2 DEF Blank, Loaded, BatchApplied
<1>. QED
  BY <1>1, <1>2 DEF Created

\* The step leaves the actor of e as it is, and does not create e.
SameActor(e) == doc'[e].actor = doc[e].actor /\ (doc'[e].status = "none" <=> doc[e].status = "none")

\* A call gives at most one document another actor; a new document's is fresh.
LEMMA ActorStep ==
    ASSUME GoodState, DocStep
    PROVE  \E n \in Doc :
              /\ \A e \in Doc : e # n => SameActor(e)
              /\ \/ SameActor(n)
                 \/ /\ doc'[n].status # "none" /\ doc'[n].actor \in Actor
                    /\ ActorReuse \/ FreshActor(doc'[n].actor)
<1>1. doc \in [Doc -> DocStateOf(chg)]
  BY DEF GoodState
<1>2. ASSUME NEW d \in Doc, CreateStep(d)
      PROVE  /\ \A e \in Doc : e # d => SameActor(e)
             /\ doc'[d].status # "none" /\ doc'[d].actor \in Actor /\ FreshActor(doc'[d].actor)
  <2>1. PICK a \in Actor : \E u : FreshActor(a) /\ Created(chg, a, u) /\ doc' = [doc EXCEPT ![d] = u]
    BY <1>2 DEF CreateStep
  <2>2. PICK u : FreshActor(a) /\ Created(chg, a, u) /\ doc' = [doc EXCEPT ![d] = u]
    BY <2>1
  <2>3. doc'[d] = u /\ \A e \in Doc : e # d => doc'[e] = doc[e]
    BY <1>1, <2>2
  <2>4. u.status = "open" /\ u.actor = a
    BY <2>2, CreatedActor
  <2>. QED
    BY <2>2, <2>3, <2>4 DEF SameActor
<1>3. ASSUME NEW d \in Doc, WorkStep(d)
      PROVE  /\ \A e \in Doc : e # d => SameActor(e)
             /\ \/ SameActor(d)
                \/ /\ doc'[d].status # "none" /\ doc'[d].actor \in Actor
                   /\ ActorReuse \/ FreshActor(doc'[d].actor)
  <2>1. PICK s, t : Begins(d, chg', s) /\ Works(chg', s, t) /\ doc' = [doc EXCEPT ![d] = t]
    BY <1>3 DEF WorkStep
  <2>2. doc'[d] = t /\ \A e \in Doc : e # d => doc'[e] = doc[e]
    BY <1>1, <2>1
  <2>3. s \in DocStateOf(chg') /\ s.status = "open" /\ doc[d].status = "open" /\ s.actor = doc[d].actor
    BY <1>3, <2>1, BeginsGood DEF GoodDoc, WorkStep
  <2>4. /\ t.status # "none"
        /\ t.actor = s.actor \/ (t.actor \in Actor /\ (ActorReuse \/ FreshActor(t.actor)))
    BY <2>1, <2>3, WorksActor
  <2>. QED
    BY <2>2, <2>3, <2>4 DEF SameActor
<1>4. ASSUME NEW d \in Doc, NEW n \in Doc, CopyStep(d, n)
      PROVE  /\ \A e \in Doc : e # n => SameActor(e)
             /\ doc'[n].status # "none" /\ doc'[n].actor \in Actor /\ FreshActor(doc'[n].actor)
  <2>1. PICK a \in Actor : \E s, t, u : Copies(d, n, a, s, t, u)
    BY <1>4 DEF CopyStep
  <2>2. PICK s, t, u : Copies(d, n, a, s, t, u)
    BY <2>1
  <2>3. d # n
    BY <1>4 DEF CopyStep
  <2>4. doc'[d] = t /\ doc'[n] = u /\ \A e \in Doc \ {d, n} : doc'[e] = doc[e]
    BY <1>1, <2>2, <2>3 DEF Copies
  <2>5. s.status = doc[d].status /\ s.actor = doc[d].actor
    BY <2>2, BeginsGood DEF Copies
  <2>6. t.status = doc[d].status /\ t.actor = doc[d].actor
    BY <2>2, <2>5 DEF Copies, Idles
  <2>7. u.status = "open" /\ u.actor = a /\ FreshActor(a)
    BY <2>2, CreatedActor DEF Copies
  <2>. QED
    BY <2>4, <2>6, <2>7 DEF SameActor
<1>. QED
  BY <1>2, <1>3, <1>4 DEF DocStep

-----------------------------------------------------------------------------
(* Merge *)

\* The whole-file bytes that a Merge holds are those of a closed history,
\* although its documents go on working.
SnapClosed == \A d \in Doc : Deps(chg, snap[d].changes) \subseteq snap[d].changes

\* Only the two halves of Merge touch the bytes in between.
LEMMA SnapSteps ==
    ASSUME Next
    PROVE  \/ snap' = snap
           \/ \E d, e \in Doc : MergeSave(d, e)
           \/ \E d \in Doc : MergeApply(d)
<1>1. PICK d \in Doc : Calls(d)
  BY DEF Next
<1>. QED
  BY <1>1 DEF Calls, New, Edit, Commit, ReadHistory, Apply, ApplyNext, ApplyOne, Save, Load,
     SaveIncremental, LoadIncremental, Fork, SetActorID

\* Every step keeps them so.
LEMMA SnapStaysClosed ==
    ASSUME GoodState, SnapClosed, [Next]_vars
    PROVE  SnapClosed'
<1>1. snap \in [Doc -> File] /\ Extends(chg, chg')
  BY NextExtends DEF GoodState
<1>2. ASSUME NEW d \in Doc
      PROVE  Deps(chg', snap[d].changes) \subseteq snap[d].changes
  <2>1. snap[d].changes \in SUBSET Names(chg)
    BY <1>1 DEF File, Made, Names
  <2>. QED
    BY <1>1, <2>1, ExtendsDeps DEF SnapClosed
<1>3. CASE snap' = snap
  BY <1>2, <1>3 DEF SnapClosed
<1>4. ASSUME NEW d \in Doc, NEW e \in Doc, MergeSave(d, e) PROVE SnapClosed'
  <2>1. /\ snap' = [snap EXCEPT ![d] = SavedFile(Saved(doc[e]))]
        /\ GoodDoc(chg', Saved(doc[e]))
    BY <1>4, SavedGood DEF MergeSave
  <2>2. Deps(chg', SavedFile(Saved(doc[e])).changes) \subseteq SavedFile(Saved(doc[e])).changes
    BY <2>1 DEF SavedFile, GoodDoc
  <2>. QED
    BY <1>1, <1>2, <2>1, <2>2 DEF SnapClosed
<1>5. ASSUME NEW d \in Doc, MergeApply(d) PROVE SnapClosed'
  <2>1. snap' = [snap EXCEPT ![d] = NoFile]
    BY <1>5 DEF MergeApply
  <2>2. Deps(chg', NoFile.changes) \subseteq NoFile.changes
    BY DepsMember DEF NoFile
  <2>. QED
    BY <1>1, <1>2, <2>1, <2>2 DEF SnapClosed
<1>. QED
  BY <1>3, <1>4, <1>5, SnapSteps DEF vars

\* All of a closed set of changes is ready when it is in the pool.
LEMMA ClosedIsReady ==
    ASSUME NEW c, NEW hist, NEW pool, NEW R \in SUBSET pool, Deps(c, R) \subseteq hist \cup R
    PROVE  R \subseteq ReadyIn(c, hist, pool)
BY DEF ReadyIn

\* Applying all that a closed history L has and s has not leaves nothing of L out.
LEMMA ClosedBatchTaken ==
    ASSUME NEW c, NEW s \in DocStateOf(c), NEW L, Deps(c, L) \subseteq L
    PROVE  L \subseteq BatchApplied(c, s, L \ s.hist).hist
<1> DEFINE added == L \ s.hist
           pool  == s.queue \cup (added \ s.hist)
<1>1. Deps(c, added) \subseteq s.hist \cup added
  BY DepsMember
<1>2. added \subseteq pool
  OBVIOUS
<1>3. added \subseteq ReadyIn(c, s.hist, pool)
  BY <1>1, <1>2, ClosedIsReady
<1>4. BatchApplied(c, s, added).hist = s.hist \cup ReadyIn(c, s.hist, pool)
  BY DEF BatchApplied, DocStateOf
<1>. QED
  BY <1>3, <1>4

\* Loading bytes leaves out nothing of a closed part of them.
LEMMA LoadTakesClosed ==
    ASSUME NEW c, NEW a, NEW f, Deps(c, f.changes) \subseteq f.changes
    PROVE  f.changes \subseteq Loaded(c, f, a).hist
<1>1. f.changes \subseteq ReadyIn(c, {}, FileChanges(f))
  BY ClosedIsReady DEF FileChanges
<1>2. Loaded(c, f, a).hist = ReadyIn(c, {}, FileChanges(f))
  BY DEF Loaded, BatchApplied, Blank
<1>. QED
  BY <1>1, <1>2

\* Merge(d, d2) brings d every change that d2 had when it was saved, whatever
\* the two documents did between the two halves of the call.
THEOREM MergesAreComplete == Spec => MergeTakesAll
<1> DEFINE Takes(d) ==
         /\ snap[d] # NoFile /\ snap'[d] = NoFile
         /\ CanLoad(chg, snap[d], doc[d].actor)
         /\ ~DuplicateSeq(chg', Closed(doc[d]), Loaded(chg', snap[d], doc[d].actor).hist)
         /\ doc'[d].status = "open"
         => snap[d].changes \subseteq doc'[d].hist
<1>1. ASSUME GoodState, SnapClosed, Next, NEW d \in Doc PROVE Takes(d)
  <2> SUFFICES ASSUME snap[d] # NoFile, snap'[d] = NoFile,
                      CanLoad(chg, snap[d], doc[d].actor),
                      ~DuplicateSeq(chg', Closed(doc[d]), Loaded(chg', snap[d], doc[d].actor).hist),
                      doc'[d].status = "open"
               PROVE  snap[d].changes \subseteq doc'[d].hist
    OBVIOUS
  <2> DEFINE a == doc[d].actor
             s == Closed(doc[d])
             L == Loaded(chg', snap[d], a).hist
  <2>1. snap \in [Doc -> File] /\ doc \in [Doc -> DocStateOf(chg)] /\ Extends(chg, chg')
    BY <1>1, NextExtends DEF GoodState
  <2>2. MergeApply(d)
    <3>1. ASSUME NEW e \in Doc, NEW e2 \in Doc, MergeSave(e, e2) PROVE FALSE
      <4>1. snap' = [snap EXCEPT ![e] = SavedFile(Saved(doc[e2]))]
        BY <3>1 DEF MergeSave
      <4>2. SavedFile(Saved(doc[e2])) # NoFile
        BY DEF SavedFile, NoFile
      <4>. QED
        BY <2>1, <4>1, <4>2
    <3>2. ASSUME NEW e \in Doc, MergeApply(e) PROVE e = d
      BY <2>1, <3>2 DEF MergeApply
    <3>. QED
      BY <1>1, <3>1, <3>2, SnapSteps
  <2>3. /\ chg' = ClosedLog(doc[d])
        /\ \E t \in BatchOutcomes(chg', s, ChangesAdded(chg', s, snap[d], a)) :
              doc' = [doc EXCEPT ![d] = t]
    BY <2>2 DEF MergeApply
  <2>4. GoodLog(chg') /\ GoodDoc(chg', s)
    BY <1>1, <2>3, ClosedGood
  <2>5. a \in Actor /\ FileChanges(snap[d]) \in SUBSET Names(chg')
    BY <2>1, FileChangesMade DEF DocStateOf
  <2>6. Deps(chg', L) \subseteq L
    BY <2>4, <2>5, LoadedGood DEF GoodDoc
  <2>7. snap[d].changes \subseteq L
    <3>1. snap[d].changes \in SUBSET Names(chg)
      BY <2>1 DEF File, Made, Names
    <3>2. Deps(chg', snap[d].changes) \subseteq snap[d].changes
      BY <1>1, <2>1, <3>1, ExtendsDeps DEF SnapClosed
    <3>. QED
      BY <3>2, LoadTakesClosed
  <2> DEFINE added == L \ s.hist
  <2>8. doc'[d] \in BatchOutcomes(chg', s, added)
    BY <2>1, <2>3 DEF ChangesAdded
  <2>9. ~DuplicateSeq(chg', s, L)
    OBVIOUS
  <2> HIDE DEF s, L, a
  <2>10. ~DuplicateSeq(chg', s, added)
    <3>1. added \ (s.hist \cup s.queue) = L \ (s.hist \cup s.queue)
      OBVIOUS
    <3>. QED
      BY <2>9, <3>1 DEF DuplicateSeq
  <2>11. doc'[d] = BatchApplied(chg', s, added)
    <3>1. [s EXCEPT !.status = "trapped"].status = "trapped"
      BY <2>4 DEF GoodDoc, DocStateOf
    <3>. QED
      BY <2>8, <2>10, <3>1 DEF BatchOutcomes
  <2>. QED
    BY <2>4, <2>6, <2>7, <2>11, ClosedBatchTaken DEF GoodDoc
<1>2. GoodState /\ SnapClosed /\ [Next]_vars => [\A d \in Doc : Takes(d)]_vars
  BY <1>1
<1>3. Init => GoodState /\ SnapClosed
  <2>1. Deps(chg, NoFile.changes) \subseteq NoFile.changes
    BY DepsMember DEF NoFile
  <2>. QED
    BY <2>1, InitGood DEF Init, SnapClosed
<1>4. GoodState /\ SnapClosed /\ [Next]_vars => GoodState' /\ SnapClosed'
  BY NextGood, SnapStaysClosed
<1>. QED
  BY <1>2, <1>3, <1>4, PTL DEF Spec, MergeTakesAll

-----------------------------------------------------------------------------
(* Every call is a step of CausalReplicas.  A change names only the heads   *)
(* and its actor's last change, yet all that its document had is behind it. *)

\* A set of numbers below n that is not empty has a largest one.
LEMMA Largest ==
    ASSUME NEW n \in Nat, NEW S \in SUBSET (1 .. n), S # {}
    PROVE  \E m \in S : \A x \in S : x <= m
<1> DEFINE Less == {p \in Nat \X Nat : p[1] < p[2]}
           T    == {n - x : x \in S}
<1>1. IsWellFoundedOn(Less, Nat)
  BY NatLessThanWellFounded DEF OpToRel
<1>2. \A x \in S : x \in Nat /\ x <= n /\ n - x \in Nat
  OBVIOUS
<1>3. T \subseteq Nat /\ T # {}
  BY <1>2
<1>4. \E t \in T : \A u \in T : ~(<<u, t>> \in Less)
  <2> HIDE DEF Less, T
  <2>. QED
    BY <1>1, <1>3, WFMin
<1>5. PICK t \in T : \A u \in T : ~(<<u, t>> \in Less)
  BY <1>4
<1>6. PICK m \in S : t = n - m
  OBVIOUS
<1>7. ASSUME NEW x \in S PROVE x <= m
  <2>1. ~(n - x < n - m)
    BY <1>2, <1>5, <1>6
  <2>. QED
    BY <1>2, <2>1
<1>. QED
  BY <1>7

-----------------------------------------------------------------------------
(* The causal order *)

\* What a change comes after, and the pairs of them.
Behind(c, y) == Ancestors(c, Names(c), c[y].deps)

Order(c) == UNION {Behind(c, y) \X {y} : y \in Names(c)}

\* A closed set of changes contains what is behind each of its members.
LEMMA OrderClosed ==
    ASSUME NEW c, NEW H \in SUBSET Names(c), Deps(c, H) \subseteq H, NEW p \in Order(c), p[2] \in H
    PROVE  p[1] \in H
<1>1. PICK y \in Names(c) : p \in Behind(c, y) \X {y}
  BY DEF Order
<1>2. p[1] \in Behind(c, y) /\ p[2] = y
  BY <1>1
<1>3. c[y].deps \subseteq H
  BY <1>2, DepsMember
<1>. QED
  BY <1>2, <1>3 DEF Behind, Ancestors

\* What is behind a change does not depend on the changes made after it.
LEMMA BehindKept ==
    ASSUME NEW c, NEW c2, Extends(c, c2), NEW y \in Names(c)
    PROVE  Behind(c2, y) = Behind(c, y)
<1> DEFINE D == c[y].deps
           N == Names(c)
<1>1. /\ GoodLog(c) /\ N \subseteq Names(c2) /\ c2[y] = c[y]
      /\ \A x \in N : c2[x] = c[x]
  BY ExtendsNames DEF Extends
<1>2. \A x \in N : c[x].deps \subseteq N
  BY <1>1 DEF GoodLog, Names
<1>3. D \subseteq N /\ Deps(c, N) \subseteq N
  BY <1>2, DepsMember
<1>4. ASSUME NEW x \in Behind(c2, y) PROVE x \in Behind(c, y)
  <2>1. ASSUME NEW R \in SUBSET N, D \cap N \subseteq R, Deps(c, R) \subseteq R PROVE x \in R
    <3>1. Deps(c2, R) \subseteq R /\ D \cap Names(c2) \subseteq R /\ R \in SUBSET Names(c2)
      BY <1>1, <1>3, <2>1, ExtendsDeps
    <3>. QED
      BY <1>1, <1>4, <3>1 DEF Behind, Ancestors
  <2>2. x \in N
    BY <1>3, <2>1
  <2>. QED
    BY <2>1, <2>2 DEF Behind, Ancestors
<1>5. ASSUME NEW x \in Behind(c, y) PROVE x \in Behind(c2, y)
  <2>1. ASSUME NEW R \in SUBSET Names(c2), D \cap Names(c2) \subseteq R, Deps(c2, R) \subseteq R
        PROVE  x \in R
    <3>1. Deps(c, R \cap N) \subseteq R \cap N
      <4>1. ASSUME NEW z \in R \cap N, NEW w \in c[z].deps PROVE w \in R \cap N
        <5>1. w \in N /\ c2[z].deps = c[z].deps
          BY <1>1, <1>2
        <5>2. w \in Deps(c2, R)
          BY <5>1, DepsMember
        <5>. QED
          BY <2>1, <5>1, <5>2
      <4>. QED
        BY <4>1, DepsMember
    <3>2. D \cap N \subseteq R \cap N
      BY <1>1, <2>1
    <3>3. x \in R \cap N
      BY <1>5, <3>1, <3>2 DEF Behind, Ancestors
    <3>. QED
      BY <3>3
  <2>2. x \in Names(c2)
    BY <1>1, <1>5 DEF Behind, Ancestors
  <2>. QED
    BY <1>1, <2>1, <2>2 DEF Behind, Ancestors
<1>. QED
  BY <1>4, <1>5

\* Everything in a history is behind the change that is made on top of it: going
\* up from any of its changes ends in a head, and the change depends on the heads.
LEMMA BehindCommit ==
    ASSUME NEW c, GoodLog(c), NEW s, GoodDoc(c, s)
    PROVE  Behind(CommitLog(c, s), Len(c) + 1) = s.hist
<1> DEFINE c2 == CommitLog(c, s)
           h  == Len(c) + 1
           D  == c2[h].deps
<1>1. /\ Extends(c, c2) /\ Len(c2) = h /\ D = NextChange(c, s).deps /\ Len(c) \in Nat
      /\ Names(c) \subseteq Names(c2)
  BY CommitExtends, ExtendsNames DEF GoodLog
<1>2. D \subseteq s.hist /\ s.heads \subseteq D
  BY <1>1, NextChangeType
<1>3. s.hist \in SUBSET Names(c) /\ s.heads = s.hist \ Deps(c, s.hist) /\ Deps(c, s.hist) \subseteq s.hist
  BY DEF GoodDoc, DocStateOf
<1>4. Deps(c2, s.hist) = Deps(c, s.hist)
  BY <1>1, <1>3, ExtendsDeps
<1> HIDE DEF c2, h, D
<1>5. ASSUME NEW x \in Behind(c2, h) PROVE x \in s.hist
  BY <1>1, <1>2, <1>3, <1>4, <1>5 DEF Behind, Ancestors, D
<1>6. ASSUME NEW R \in SUBSET Names(c2), D \cap Names(c2) \subseteq R, Deps(c2, R) \subseteq R
      PROVE  s.hist \subseteq R
  <2> DEFINE S == s.hist \ R
  <2>1. SUFFICES ASSUME S # {} PROVE FALSE
    OBVIOUS
  <2>2. PICK m \in S : \A x \in S : x <= m
    <3>1. S \in SUBSET (1 .. Len(c))
      BY <1>3 DEF Names
    <3>. QED
      BY <1>1, <2>1, <3>1, Largest
  <2>3. m \notin s.heads
    BY <1>1, <1>2, <1>3, <1>6
  <2>4. PICK z \in s.hist : m \in c[z].deps
    BY <1>3, <2>3, DepsMember
  <2>5. m < z
    <3>1. z \in Names(c) /\ c[z].deps \subseteq 1 .. (z - 1)
      BY <1>3 DEF GoodLog
    <3>. QED
      BY <1>1, <2>4, <3>1 DEF Names
  <2>6. z \notin S
    <3>1. z \in Nat /\ m \in Nat
      BY <1>1, <1>3 DEF Names
    <3>. QED
      BY <2>2, <2>5, <3>1
  <2>7. z \in R /\ c2[z].deps = c[z].deps
    BY <1>1, <1>3, <2>6 DEF Extends
  <2>8. m \in R
    BY <1>6, <2>4, <2>7, DepsMember
  <2>. QED
    BY <2>8
<1>7. ASSUME NEW x \in s.hist PROVE x \in Behind(c2, h)
  BY <1>1, <1>3, <1>6 DEF Behind, Ancestors, D
<1>8. Behind(c2, h) = s.hist
  BY <1>5, <1>7
<1>. QED
  BY <1>8 DEF c2, h

\* The order after a commit.
LEMMA OrderCommit ==
    ASSUME NEW c, GoodLog(c), NEW s, GoodDoc(c, s)
    PROVE  Order(CommitLog(c, s)) = Order(c) \cup (s.hist \X {Len(c) + 1})
<1> DEFINE c2 == CommitLog(c, s)
           h  == Len(c) + 1
<1>1. Extends(c, c2) /\ Len(c2) = h /\ Len(c) \in Nat
  BY CommitExtends DEF GoodLog
<1>2. Names(c2) = Names(c) \cup {h}
  BY <1>1 DEF Names
<1>3. \A y \in Names(c) : Behind(c2, y) = Behind(c, y)
  BY <1>1, BehindKept
<1>4. Behind(c2, h) = s.hist
  BY BehindCommit
<1> HIDE DEF c2, h
<1>5. ASSUME NEW p PROVE p \in Order(c2) <=> p \in Order(c) \cup (s.hist \X {h})
  <2>1. p \in Order(c2) <=> \E y \in Names(c2) : p \in Behind(c2, y) \X {y}
    BY DEF Order
  <2>2. p \in Order(c) <=> \E y \in Names(c) : p \in Behind(c, y) \X {y}
    BY DEF Order
  <2>. QED
    BY <1>2, <1>3, <1>4, <2>1, <2>2
<1>6. Order(c2) = Order(c) \cup (s.hist \X {h})
  BY <1>5
<1>. QED
  BY <1>6 DEF c2, h

-----------------------------------------------------------------------------
(* The refinement *)

\* A document has no changes before it is created.
NoneEmpty == \A d \in Doc : doc[d].status = "none" => doc[d].hist = {}

\* Only New, Load and Fork create one, and no call makes it none again.
LEMMA NoneEmptyNext ==
    ASSUME GoodState, NoneEmpty, [Next]_vars
    PROVE  NoneEmpty'
<1>1. CASE UNCHANGED vars
  BY <1>1 DEF vars, NoneEmpty
<1>2. ASSUME Next, NEW e \in Doc, doc'[e].status = "none" PROVE doc'[e].hist = {}
  <2>1. DocStep
    BY <1>2, NextIsDocStep
  <2>2. ASSUME doc[e].status = "open", NEW s, Begins(e, chg', s), Works(chg', s, doc'[e])
        PROVE  FALSE
    <3>1. s \in DocStateOf(chg') /\ s.status # "none"
      BY <2>2, BeginsGood DEF GoodDoc
    <3>. QED
      BY <1>2, <2>2, <3>1, WorksActor
  <2>3. ASSUME NEW a, Created(chg', a, doc'[e]) PROVE FALSE
    BY <1>2, <2>3, CreatedActor
  <2>. QED
    BY <1>2, <2>1, <2>2, <2>3, EachDoc DEF NoneEmpty
<1>. QED
  BY <1>1, <1>2 DEF NoneEmpty

\* d makes a change; e has more than base gives it, the others have just that.
Commits(d) == chg' = CommitLog(chg, doc[d])

Grown(e, base) ==
    /\ \A f \in Doc : base[f] \subseteq doc'[f].hist
    /\ \A f \in Doc \ {e} : doc'[f].hist = base[f]

Hists == [d \in Doc |-> doc[d].hist]

\* What a step does to the histories: one document may grow, after at most one,
\* possibly the same, has committed.
LEMMA HistStep ==
    ASSUME GoodState, NoneEmpty, DocStep
    PROVE  \/ chg' = chg /\ \E e \in Doc : Grown(e, Hists)
           \/ \E d, e \in Doc :
                 Commits(d) /\ Grown(e, [Hists EXCEPT ![d] = @ \cup {Len(chg) + 1}])
<1>1. doc \in [Doc -> DocStateOf(chg)]
  BY DEF GoodState
<1>2. ASSUME NEW d \in Doc, CreateStep(d) PROVE chg' = chg /\ Grown(d, Hists)
  <2>1. PICK a \in Actor : \E u : doc' = [doc EXCEPT ![d] = u]
    BY <1>2 DEF CreateStep
  <2>. QED
    BY <1>1, <1>2, <2>1 DEF CreateStep, Grown, Hists, NoneEmpty
<1>3. ASSUME NEW d \in Doc, WorkStep(d)
      PROVE  \/ chg' = chg /\ Grown(d, Hists)
             \/ Commits(d) /\ Grown(d, [Hists EXCEPT ![d] = @ \cup {Len(chg) + 1}])
  <2>1. PICK s, t : Begins(d, chg', s) /\ Works(chg', s, t) /\ doc' = [doc EXCEPT ![d] = t]
    BY <1>3 DEF WorkStep
  <2>2. doc'[d] = t /\ \A f \in Doc \ {d} : doc'[f] = doc[f]
    BY <1>1, <2>1
  <2>3. /\ s \in DocStateOf(chg')
        /\ \/ chg' = chg /\ s = doc[d]
           \/ Commits(d) /\ s.hist = doc[d].hist \cup {Len(chg) + 1}
    BY <2>1, BeginsGood DEF GoodDoc, Commits
  <2>4. s.hist \subseteq t.hist
    BY <2>1, <2>3, WorksGrow
  <2>. QED
    BY <2>2, <2>3, <2>4 DEF Grown, Hists
<1>4. ASSUME NEW d \in Doc, NEW n \in Doc, CopyStep(d, n)
      PROVE  \/ chg' = chg /\ Grown(n, Hists)
             \/ Commits(d) /\ Grown(n, [Hists EXCEPT ![d] = @ \cup {Len(chg) + 1}])
  <2>1. PICK a \in Actor : \E s, t, u : Copies(d, n, a, s, t, u)
    BY <1>4 DEF CopyStep
  <2>2. PICK s, t, u : Copies(d, n, a, s, t, u)
    BY <2>1
  <2>3. d # n /\ doc[n].hist = {}
    BY <1>4 DEF CopyStep, NoneEmpty
  <2>4. doc'[d] = t /\ \A f \in Doc \ {d, n} : doc'[f] = doc[f]
    BY <1>1, <2>2, <2>3 DEF Copies
  <2>5. t.hist = s.hist
    BY <2>2 DEF Copies, Idles
  <2>6. \/ chg' = chg /\ s = doc[d]
        \/ Commits(d) /\ s.hist = doc[d].hist \cup {Len(chg) + 1}
    BY <2>2, BeginsGood DEF Copies, Commits
  <2>. QED
    BY <2>3, <2>4, <2>5, <2>6 DEF Grown, Hists
<1>. QED
  BY <1>2, <1>3, <1>4 DEF DocStep

\* The documents implement causally complete replicas: histories only grow, in
\* a causally complete way, and a change comes after all that its document had.
THEOREM CausalityRefined == Spec => CausalReplication
<1>1. Init => GoodState /\ NoneEmpty
  <2> SUFFICES ASSUME Init PROVE GoodState /\ NoneEmpty
    OBVIOUS
  <2>1. GoodState
    BY InitGood
  <2>2. Names(chg) = {}
    BY DEF Init, Names
  <2>. QED
    BY <2>1, <2>2 DEF GoodState, DocStateOf, NoneEmpty
<1>2. GoodState /\ NoneEmpty /\ [Next]_vars => GoodState' /\ NoneEmpty'
  BY NextGood, NoneEmptyNext
<1>3. Init => Abstract!Init
  <2> SUFFICES ASSUME Init PROVE Abstract!Init
    OBVIOUS
  <2>1. Made = {}
    BY DEF Init, Made
  <2>2. \A d \in Doc : doc[d].hist = {}
    BY DEF Init, Blank
  <2>. QED
    BY <2>1, <2>2 DEF Abstract!Init
<1>4. UNION {Ancestors(chg, Made, chg[y].deps) \X {y} : y \in Made} = Order(chg)
  BY DEF Order, Behind, Made, Names
<1>5. ASSUME GoodState, NoneEmpty, GoodState', Next PROVE Abstract!Next
  <2>0. DocStep /\ Extends(chg, chg')
    BY <1>5, NextIsDocStep, NextExtends
  <2>1. \A e \in Doc : Hists'[e] \subseteq Made'
    BY <1>5 DEF GoodState, DocStateOf, Made, Names, Hists
  <2>2. \A e \in Doc : Abstract!Complete(e)'
    <3>1. ASSUME NEW e \in Doc, NEW p \in Order(chg'), p[2] \in doc'[e].hist
          PROVE  p[1] \in doc'[e].hist
      <4>1. doc'[e].hist \in SUBSET Names(chg') /\ Deps(chg', doc'[e].hist) \subseteq doc'[e].hist
        BY <1>5 DEF GoodState, GoodDoc, DocStateOf
      <4>. QED
        BY <3>1, <4>1, OrderClosed
    <3>. QED
      BY <1>4, <3>1 DEF Abstract!Complete, Order, Behind, Made, Names
  <2>3. ASSUME chg' = chg, NEW e \in Doc, Grown(e, Hists) PROVE Abstract!Receive(e)
    BY <2>1, <2>2, <2>3 DEF Abstract!Receive, Abstract!Grow, Grown, Hists, Made
  <2>4. ASSUME NEW x, x = Len(chg) + 1, NEW d \in Doc, NEW e \in Doc, Commits(d),
               Grown(e, [Hists EXCEPT ![d] = @ \cup {x}])
        PROVE  x \in Made' \ Made /\ Abstract!Make(d, e, x)
    <3>1. /\ GoodLog(chg) /\ GoodDoc(chg, doc[d]) /\ Len(chg) \in Nat /\ Len(chg') = Len(chg) + 1
      <4>1. GoodLog(chg) /\ GoodDoc(chg, doc[d]) /\ Len(chg) \in Nat
        BY <1>5 DEF GoodState, GoodLog
      <4>. QED
        BY <2>4, <4>1, CommitExtends DEF Commits
    <3>2. Made' = Made \cup {x} /\ x \notin Made
      BY <2>4, <3>1 DEF Made
    <3>3. Order(chg') = Order(chg) \cup (doc[d].hist \X {x})
      BY <2>4, <3>1, OrderCommit DEF Commits
    <3>. QED
      BY <1>4, <2>1, <2>2, <2>4, <3>2, <3>3
      DEF Abstract!Make, Abstract!Grow, Grown, Hists, Order, Behind, Names, Made
  <2>5. CASE chg' = chg /\ \E e \in Doc : Grown(e, Hists)
    <3>1. \E e \in Doc : Abstract!Receive(e)
      BY <2>3, <2>5
    <3>. QED
      BY <3>1 DEF Abstract!Next
  <2>6. CASE \E d, e \in Doc :
                Commits(d) /\ Grown(e, [Hists EXCEPT ![d] = @ \cup {Len(chg) + 1}])
    <3>0. PICK d, e \in Doc :
             Commits(d) /\ Grown(e, [Hists EXCEPT ![d] = @ \cup {Len(chg) + 1}])
      BY <2>6
    <3>1. PICK x : x = Len(chg) + 1
      OBVIOUS
    <3>2. x \in Made' \ Made /\ Abstract!Make(d, e, x)
      BY <2>4, <3>0, <3>1
    <3>. QED
      BY <3>2 DEF Abstract!Next
  <2>. QED
    BY <1>5, <2>0, <2>5, <2>6, HistStep
<1>6. GoodState /\ NoneEmpty /\ GoodState' /\ [Next]_vars
        => [Abstract!Next]_<<Made, UNION {Ancestors(chg, Made, chg[y].deps) \X {y} : y \in Made},
                             [d \in Doc |-> doc[d].hist]>>
  BY <1>5 DEF vars, Made, Ancestors, Deps
<1>. QED
  BY <1>1, <1>2, <1>3, <1>6, PTL DEF Spec, CausalReplication, Abstract!Spec

=============================================================================
