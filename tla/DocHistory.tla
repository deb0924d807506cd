----------------------------- MODULE DocHistory -----------------------------
(***************************************************************************)
(* The change history of automerge documents: what Commit, Apply, Save,    *)
(* Load, SaveIncremental, LoadIncremental, Fork, Merge and SetActorID of   *)
(* doc.go do to the change graph, the queue of changes that are not        *)
(* causally ready, the open transaction and the save cursor of the engine  *)
(* behind each document (wasi/src/*.rs on wasi/vendor/automerge).          *)
(*                                                                         *)
(* A change is named by its position in chg, the sequence of all changes   *)
(* ever made by any document; the position stands for its hash.  The       *)
(* operations a change carries are left out.  Bytes are the sets of        *)
(* changes they encode.                                                    *)
(*                                                                         *)
(* A definition whose comment starts with "Fault" is a wrong variant of    *)
(* the definition after it.  The specification does not use it: it is put  *)
(* in the place of the right one to see that a property notices.           *)
(***************************************************************************)
EXTENDS Naturals, Sequences, FiniteSets

CONSTANTS
    Doc,         \* the document handles a program may create
    Actor,       \* actor ids
    MaxChanges,  \* bound: changes made in a behaviour
    MaxFiles,    \* bound: byte strings kept by callers
    MaxApply,    \* bound: changes passed to one call of Apply
    ActorReuse   \* TRUE: SetActorID may name an actor that is already in use

ASSUME HistoryAssumption ==
    /\ MaxChanges \in Nat /\ MaxFiles \in Nat /\ MaxApply \in Nat
    /\ ActorReuse \in BOOLEAN

VARIABLES
    chg,    \* every change made so far: its actor, sequence number and deps
    doc,    \* the state of each document
    rest,   \* changes an Apply call, which holds the lock, has still to apply
    snap,   \* snap[d]: bytes of d2 held by a Merge(d, d2) that waits for d's lock
    disk    \* byte strings that callers got from Save and SaveIncremental

vars == <<chg, doc, rest, snap, disk>>

-----------------------------------------------------------------------------
(* Types *)

Made == 1 .. Len(chg)

Change == [actor : Actor, seq : Nat, deps : SUBSET Nat]

\* What Save and SaveIncremental write: a document chunk (whole) or a list of
\* change chunks, followed by the orphans of the queue.
File == [whole : BOOLEAN, changes : SUBSET Made, orphans : SUBSET Made]

NoFile == [whole |-> FALSE, changes |-> {}, orphans |-> {}]

\* status: "none" before creation, "open", or "trapped" once a panic in the
\* engine aborted the WASM instance with its DOC cell still borrowed.
DocState == [status : {"none", "open", "trapped"}, hist : SUBSET Made,
             heads : SUBSET Made, queue : SUBSET Made, pending : BOOLEAN,
             actor : Actor, cursor : SUBSET Made]

-----------------------------------------------------------------------------
(* The change graph.  The operators take the sequence c of changes, so that *)
(* a step can use them after the change that its first action has added.   *)

Deps(c, S) == UNION {c[x].deps : x \in S}

SameSeq(c, x, y) == c[x].actor = c[y].actor /\ c[x].seq = c[y].seq

By(c, S, a) == {x \in S : c[x].actor = a}

\* The length of the actor's entry in seq_index.
SeqForActor(c, hist, a) == Cardinality(By(c, hist, a))

\* heads together with everything they depend on, within hist.
Ancestors(c, hist, heads) ==
    {x \in hist : \A R \in SUBSET hist :
        (heads \cap hist \subseteq R /\ Deps(c, R) \subseteq R) => x \in R}

\* Fault: no change waits for its dependencies.
ReadyInWholePool(c, hist, pool) == pool

\* The changes of the pool that Kahn's algorithm reaches from hist: the
\* largest part of the pool whose dependencies it or hist contains.
ReadyIn(c, hist, pool) ==
    UNION {R \in SUBSET pool : Deps(c, R) \subseteq hist \cup R}

\* Fault: the dependencies are removed before the new heads are inserted.
UpdateHeadsInsertLast(c, heads, new) == (heads \ Deps(c, new)) \cup new

UpdateHeads(c, heads, new) == (heads \cup new) \ Deps(c, new)

\* A change of batch that is new to s has a sequence number that the graph,
\* the queue or another new change of the batch has for the same actor.
DuplicateSeq(c, s, batch) ==
    LET new == batch \ (s.hist \cup s.queue)
    IN \E x \in new :
          \/ SeqForActor(c, s.hist, c[x].actor) >= c[x].seq
          \/ \E y \in (s.queue \cup new) \ {x} : SameSeq(c, x, y)

\* Fault: the queue is not looked at when a batch arrives.
BatchAppliedAlone(c, s, batch) ==
    LET pool  == batch \ (s.hist \cup s.queue)
        ready == ReadyIn(c, s.hist, pool)
    IN [s EXCEPT !.hist = @ \cup ready,
                 !.heads = UpdateHeads(c, @, ready),
                 !.queue = @ \cup (pool \ ready)]

\* The state after a batch without a duplicate sequence number.
BatchApplied(c, s, batch) ==
    LET pool  == s.queue \cup (batch \ s.hist)
        ready == ReadyIn(c, s.hist, pool)
    IN [s EXCEPT !.hist = @ \cup ready,
                 !.heads = UpdateHeads(c, @, ready),
                 !.queue = pool \ ready]

\* Fault: the assertion is compiled out.
SeqAssertOff(c, s, batch) == FALSE

\* add_changes asserts that a change carries the next number of its actor.
\* Changes from the queue were checked when they entered it, not now.
SeqAssertFails(c, s, batch) ==
    LET ready == BatchApplied(c, s, batch).hist \ s.hist
        Before(x) == s.hist \cup {y \in ready \ {x} : c[y].seq <= c[x].seq}
    IN \E x \in ready : c[x].seq # SeqForActor(c, Before(x), c[x].actor) + 1

\* Fault: the error path does not put the pool back.
BatchRejectedDropsQueue(c, s, batch) == {[s EXCEPT !.queue = {}]}

\* What may be left of a batch that has a duplicate: the new changes that
\* come before the duplicate stay in the queue, ready or not.
BatchRejected(c, s, batch) ==
    LET new == batch \ (s.hist \cup s.queue)
    IN {[s EXCEPT !.queue = @ \cup P] :
          P \in {Q \in SUBSET new :
                    /\ ~DuplicateSeq(c, s, Q)
                    /\ \E x \in new \ Q : DuplicateSeq(c, s, Q \cup {x})}}

\* All outcomes of applying a batch of changes to s.
BatchOutcomes(c, s, batch) ==
    IF DuplicateSeq(c, s, batch) THEN BatchRejected(c, s, batch)
    ELSE IF SeqAssertFails(c, s, batch) THEN {[s EXCEPT !.status = "trapped"]}
    ELSE {BatchApplied(c, s, batch)}

-----------------------------------------------------------------------------
(* Transactions *)

\* Fault: a change depends on its own actor's last change only.
NextChangeOwnDeps(c, s) ==
    LET n == SeqForActor(c, s.hist, s.actor)
    IN [actor |-> s.actor, seq |-> n + 1,
        deps  |-> {x \in By(c, s.hist, s.actor) : c[x].seq = n}]

\* Fault: the sequence number is counted from one too many.
NextChangeSkipsOne(c, s) ==
    LET n == SeqForActor(c, s.hist, s.actor)
    IN [actor |-> s.actor, seq |-> n + 2,
        deps  |-> s.heads \cup {x \in By(c, s.hist, s.actor) : c[x].seq = n}]

\* The change that closes the open transaction of s: it depends on the heads
\* and on the actor's own last change.
NextChange(c, s) ==
    LET n == SeqForActor(c, s.hist, s.actor)
    IN [actor |-> s.actor, seq |-> n + 1,
        deps  |-> s.heads \cup {x \in By(c, s.hist, s.actor) : c[x].seq = n}]

\* chg and the document after a commit of s.
CommitLog(c, s) == Append(c, NextChange(c, s))

Committed(c, s) ==
    LET h == Len(c) + 1
    IN [s EXCEPT !.hist = @ \cup {h},
                 !.heads = UpdateHeads(CommitLog(c, s), @, {h}),
                 !.pending = FALSE]

\* ensure_transaction_closed: most operations first commit what is pending.
CanClose(s) == s.pending => Len(chg) < MaxChanges

\* Fault: closing a transaction does not record the change.
ClosedLogUnrecorded(s) == chg

ClosedLog(s) == IF s.pending THEN CommitLog(chg, s) ELSE chg

Closed(s) == IF s.pending THEN Committed(chg, s) ELSE s

-----------------------------------------------------------------------------
(* Bytes *)

\* Fault: the queue is left out of the saved bytes.
SavedFileNoOrphans(s) == [whole |-> TRUE, changes |-> s.hist, orphans |-> {}]

SavedFile(s) == [whole |-> TRUE, changes |-> s.hist, orphans |-> s.queue]

Blank(a) == [status |-> "open", hist |-> {}, heads |-> {}, queue |-> {},
             pending |-> FALSE, actor |-> a, cursor |-> {}]

FileChanges(f) == f.changes \cup f.orphans

\* Load fails on a duplicate sequence number, and on missing dependencies
\* unless the bytes start with a document chunk.
Loaded(c, f, a) == BatchApplied(c, Blank(a), FileChanges(f))

CanLoad(c, f, a) ==
    /\ ~DuplicateSeq(c, Blank(a), FileChanges(f))
    /\ f.whole \/ Loaded(c, f, a).queue = {}

\* ActorId::random: an id that no change and no document has.
FreshActor(a) ==
    /\ \A x \in Made : chg[x].actor # a
    /\ \A d \in Doc : doc[d].status # "none" => doc[d].actor # a

-----------------------------------------------------------------------------

Init ==
    /\ chg = <<>>
    /\ \E a \in Actor : doc = [d \in Doc |-> [Blank(a) EXCEPT !.status = "none"]]
    /\ rest = [d \in Doc |-> <<>>]
    /\ snap = [d \in Doc |-> NoFile]
    /\ disk = {}

\* d exists, its instance is alive and nobody holds its lock.
Free(d) == doc[d].status = "open" /\ rest[d] = <<>>

New(d) ==
    /\ doc[d].status = "none"
    /\ \E a \in Actor : FreshActor(a) /\ doc' = [doc EXCEPT ![d] = Blank(a)]
    /\ UNCHANGED <<chg, rest, snap, disk>>

\* Any write through Map, List, Text, Counter or Path.
Edit(d) ==
    /\ Free(d)
    /\ ~doc[d].pending
    /\ doc' = [doc EXCEPT ![d].pending = TRUE]
    /\ UNCHANGED <<chg, rest, snap, disk>>

\* Commit with AllowEmpty falls back to an empty change; without it, a commit
\* with nothing pending returns an error and changes nothing.
Commit(d, allowEmpty) ==
    /\ Free(d)
    /\ doc[d].pending \/ allowEmpty
    /\ Len(chg) < MaxChanges
    /\ chg' = CommitLog(chg, doc[d])
    /\ doc' = [doc EXCEPT ![d] = Committed(chg, doc[d])]
    /\ UNCHANGED <<rest, snap, disk>>

\* Heads, Changes and Change read the history, after closing the transaction.
ReadHistory(d) ==
    /\ Free(d)
    /\ doc[d].pending
    /\ CanClose(doc[d])
    /\ chg' = ClosedLog(doc[d])
    /\ doc' = [doc EXCEPT ![d] = Closed(doc[d])]
    /\ UNCHANGED <<rest, snap, disk>>

\* One iteration of the loop in am_apply_changes over cs; an error ends it
\* and keeps what the earlier iterations did.
ApplyOne(d, cs) ==
    LET s == Closed(doc[d])
        c == ClosedLog(doc[d])
    IN /\ CanClose(doc[d])
       /\ chg' = c
       /\ \E t \in BatchOutcomes(c, s, {Head(cs)}) :
             doc' = [doc EXCEPT ![d] = t]
       /\ rest' = [rest EXCEPT ![d] =
             IF DuplicateSeq(c, s, {Head(cs)}) \/ doc'[d].status = "trapped"
             THEN <<>> ELSE Tail(cs)]
       /\ UNCHANGED <<snap, disk>>

\* Any change that was ever made may reach d, in any order, again and again.
Apply(d, cs) == Free(d) /\ cs # <<>> /\ ApplyOne(d, cs)

ApplyNext(d) ==
    /\ doc[d].status = "open"
    /\ rest[d] # <<>>
    /\ ApplyOne(d, rest[d])

\* The engine's save: the cursor moves to the heads.
Saved(s) == [Closed(s) EXCEPT !.cursor = Closed(s).heads]

Save(d) ==
    LET s == Saved(doc[d])
    IN /\ Free(d)
       /\ CanClose(doc[d])
       /\ Cardinality(disk \cup {SavedFile(s)}) <= MaxFiles
       /\ chg' = ClosedLog(doc[d])
       /\ doc' = [doc EXCEPT ![d] = s]
       /\ disk' = disk \cup {SavedFile(s)}
       /\ UNCHANGED <<rest, snap>>

\* A failing Load returns no document.
Load(d, f) ==
    /\ doc[d].status = "none"
    /\ \E a \in Actor :
          /\ FreshActor(a)
          /\ CanLoad(chg, f, a)
          /\ doc' = [doc EXCEPT ![d] = Loaded(chg, f, a)]
    /\ UNCHANGED <<chg, rest, snap, disk>>

\* Changes that are not ancestors of the cursor.  No bytes: the cursor stays.
SaveIncremental(d) ==
    LET s     == Closed(doc[d])
        c     == ClosedLog(doc[d])
        delta == s.hist \ Ancestors(c, s.hist, s.cursor)
        file  == [whole |-> FALSE, changes |-> delta, orphans |-> {}]
    IN /\ Free(d)
       /\ CanClose(doc[d])
       /\ delta # {} => Cardinality(disk \cup {file}) <= MaxFiles
       /\ chg' = c
       /\ doc' = [doc EXCEPT ![d] =
             IF delta = {} THEN s ELSE [s EXCEPT !.cursor = s.heads]]
       /\ disk' = IF delta = {} THEN disk ELSE disk \cup {file}
       /\ UNCHANGED <<rest, snap>>

\* A document with neither changes nor queue is replaced by the loaded one,
\* under its own actor; if the load fails it stays as it is.
LoadIncremental(d, f) ==
    LET s == Closed(doc[d])
        c == ClosedLog(doc[d])
    IN /\ Free(d)
       /\ CanClose(doc[d])
       /\ chg' = c
       /\ \E t \in BatchOutcomes(c, s, FileChanges(f)) :
             doc' = [doc EXCEPT ![d] =
                IF /\ s.hist = {} /\ s.queue = {}
                   /\ DuplicateSeq(c, s, FileChanges(f))
                THEN s ELSE t]
       /\ UNCHANGED <<rest, snap, disk>>

\* Fork saves d, loads the bytes in a new instance and forks there.  Without
\* asOf the copy keeps the queue, otherwise it holds the ancestors of asOf.
ForkOf(c, s, asOf, a) ==
    IF asOf = {} THEN Loaded(c, SavedFile(s), a)
    ELSE LET past == Ancestors(c, s.hist, asOf)
         IN Loaded(c, [whole |-> TRUE, changes |-> past, orphans |-> {}], a)

\* The save has moved d's cursor also when the fork then fails: the bytes do
\* not load, or asOf holds a hash that d does not have.
Fork(d, nd, asOf) ==
    LET s == Saved(doc[d])
        c == ClosedLog(doc[d])
    IN /\ Free(d)
       /\ doc[nd].status = "none"
       /\ CanClose(doc[d])
       /\ chg' = c
       /\ \E a \in Actor :
             /\ FreshActor(a)
             /\ LET t == Loaded(c, SavedFile(s), a)
                IN doc' = IF CanLoad(c, SavedFile(s), a) /\ asOf \subseteq t.hist
                          THEN [doc EXCEPT ![d] = s, ![nd] = ForkOf(c, t, asOf, a)]
                          ELSE [doc EXCEPT ![d] = s]
       /\ UNCHANGED <<rest, snap, disk>>

\* Merge(d, d2), first part: save d2 under d2's lock, and release it.
MergeSave(d, d2) ==
    /\ Free(d2)
    /\ doc[d].status = "open"
    /\ snap[d] = NoFile
    /\ CanClose(doc[d2])
    /\ chg' = ClosedLog(doc[d2])
    /\ doc' = [doc EXCEPT ![d2] = Saved(doc[d2])]
    /\ snap' = [snap EXCEPT ![d] = SavedFile(Saved(doc[d2]))]
    /\ UNCHANGED <<rest, disk>>

\* Fault: merge does not follow dependencies.
ChangesAddedOneLevel(c, s, f, a) ==
    {x \in Loaded(c, f, a).hist \ s.hist : c[x].deps \subseteq s.hist}

\* The changes that merge takes from the loaded bytes: what the graph of the
\* other document has and the graph of s has not.
ChangesAdded(c, s, f, a) == Loaded(c, f, a).hist \ s.hist

\* Second part, under d's lock.  Bytes that do not load are an error that
\* comes before d's transaction is closed.
MergeApply(d) ==
    LET a == doc[d].actor
        s == Closed(doc[d])
        c == ClosedLog(doc[d])
    IN /\ Free(d)
       /\ snap[d] # NoFile
       /\ snap' = [snap EXCEPT ![d] = NoFile]
       /\ \/ /\ ~CanLoad(chg, snap[d], a)
             /\ UNCHANGED <<chg, doc>>
          \/ /\ CanLoad(chg, snap[d], a)
             /\ CanClose(doc[d])
             /\ chg' = c
             /\ \E t \in BatchOutcomes(c, s, ChangesAdded(c, s, snap[d], a)) :
                   doc' = [doc EXCEPT ![d] = t]
       /\ UNCHANGED <<rest, disk>>

\* Fault: the actor is set before the transaction is closed.
SetActorIDBeforeClose(d, a) ==
    LET s == [doc[d] EXCEPT !.actor = a]
    IN /\ Free(d)
       /\ ActorReuse \/ FreshActor(a)
       /\ CanClose(s)
       /\ chg' = ClosedLog(s)
       /\ doc' = [doc EXCEPT ![d] = Closed(s)]
       /\ UNCHANGED <<rest, snap, disk>>

SetActorID(d, a) ==
    /\ Free(d)
    /\ ActorReuse \/ FreshActor(a)
    /\ CanClose(doc[d])
    /\ chg' = ClosedLog(doc[d])
    /\ doc' = [doc EXCEPT ![d] = [Closed(doc[d]) EXCEPT !.actor = a]]
    /\ UNCHANGED <<rest, snap, disk>>

Calls(d) ==
    \/ New(d)
    \/ Edit(d)
    \/ \E allowEmpty \in BOOLEAN : Commit(d, allowEmpty)
    \/ ReadHistory(d)
    \/ \E n \in 1 .. MaxApply : \E cs \in [1 .. n -> Made] : Apply(d, cs)
    \/ ApplyNext(d)
    \/ Save(d)
    \/ \E f \in disk : Load(d, f)
    \/ SaveIncremental(d)
    \/ \E f \in disk : LoadIncremental(d, f)
    \/ \E nd \in Doc, asOf \in SUBSET Made : Fork(d, nd, asOf)
    \/ \E d2 \in Doc : MergeSave(d, d2)
    \/ MergeApply(d)
    \/ \E a \in Actor : SetActorID(d, a)

Next == \E d \in Doc : Calls(d)

Spec == Init /\ [][Next]_vars

-----------------------------------------------------------------------------
(* Properties *)

TypeOK ==
    /\ chg \in Seq(Change)
    /\ doc \in [Doc -> DocState]
    /\ rest \in [Doc -> Seq(Made)]
    /\ snap \in [Doc -> File]
    /\ disk \subseteq File

Open == {d \in Doc : doc[d].status = "open"}

\* The history of a document contains the dependencies of all its changes,
\* in whatever order changes, files and merges reached it.
CausallyClosed == \A d \in Doc : Deps(chg, doc[d].hist) \subseteq doc[d].hist

\* The heads, which update_heads maintains change by change, are exactly the
\* changes that no other change of the history depends on.
HeadsAreMaximal ==
    \A d \in Doc : doc[d].heads = doc[d].hist \ Deps(chg, doc[d].hist)

\* A change is made after its dependencies, and is applied or queued but not
\* both.  With these two facts the four conjuncts above them are inductive.
DepsEarlier == \A x \in Made : chg[x].deps \subseteq 1 .. (x - 1)

QueueApart == \A d \in Doc : doc[d].hist \cap doc[d].queue = {}

HistoryInv ==
    TypeOK /\ CausallyClosed /\ HeadsAreMaximal /\ DepsEarlier /\ QueueApart

\* The changes of an actor in a history are numbered 1, 2, 3, ... without a
\* gap or a repetition, also when two documents used the same actor.
DenseSeqs ==
    \A d \in Doc, a \in Actor :
        {chg[x].seq : x \in By(chg, doc[d].hist, a)}
            = 1 .. SeqForActor(chg, doc[d].hist, a)

\* A change that a document has accepted, applied or queued, is never dropped,
\* not even by a call that fails halfway.
NothingLost ==
    [][\A d \in Open :
         doc[d].hist \cup doc[d].queue \subseteq doc'[d].hist \cup doc'[d].queue]_vars

\* An edit that is not committed yet is never discarded: the call that ends
\* its transaction makes it a change of the document, under the actor that
\* the document had when it was edited.
EditsBecomeChanges ==
    [][\A d \in Open :
         doc[d].pending /\ ~doc'[d].pending =>
            /\ Len(chg') = Len(chg) + 1
            /\ Len(chg') \in doc'[d].hist
            /\ chg'[Len(chg')].actor = doc[d].actor]_vars

\* A Merge whose batch has no duplicate sequence number brings d every change
\* that d2 had when it was saved, whatever d did or queued in between.
MergeTakesAll ==
    [][\A d \in Doc :
         /\ snap[d] # NoFile /\ snap'[d] = NoFile
         /\ CanLoad(chg, snap[d], doc[d].actor)
         /\ ~DuplicateSeq(chg', Closed(doc[d]), Loaded(chg', snap[d], doc[d].actor).hist)
         /\ doc'[d].status = "open"
         => snap[d].changes \subseteq doc'[d].hist]_vars

\* With one actor per document, a queued change always waits for a change the
\* document does not have.
OrphansOnly ==
    \A d \in Open : ReadyIn(chg, doc[d].hist, doc[d].queue) = {}

\* The bytes of Save load again, to the same history, heads and queue.
SaveLoads ==
    \A d \in Open :
        LET a == doc[d].actor
            t == Loaded(chg, SavedFile(doc[d]), a)
        IN /\ CanLoad(chg, SavedFile(doc[d]), a)
           /\ t.hist = doc[d].hist /\ t.heads = doc[d].heads
           /\ t.queue = doc[d].queue

\* The assertion of add_changes never fails, so that no instance is lost.
NoTrap == \A d \in Doc : doc[d].status # "trapped"

\* The changes that the next SaveIncremental leaves out, those behind the
\* cursor, are all in bytes that some call of Save or SaveIncremental returned.
IncrementsComplete ==
    \A d \in Open :
        Ancestors(chg, doc[d].hist, doc[d].cursor)
            \subseteq UNION {FileChanges(f) : f \in disk}

\* The documents implement causally complete replicas: a change comes after
\* all that its document contained, although its deps name only the heads and
\* the last change of its actor.
Abstract == INSTANCE CausalReplicas WITH
    made    <- Made,
    before  <- UNION {Ancestors(chg, Made, chg[y].deps) \X {y} : y \in Made},
    replica <- [d \in Doc |-> doc[d].hist]

CausalReplication == Abstract!Spec

=============================================================================
