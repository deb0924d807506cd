---------------------------- MODULE Sync_proofs ----------------------------
(***************************************************************************)
(* Two syncing documents, for any number of changes, messages on their way *)
(* and lost connections: the shared heads are changes of both documents,   *)
(* no change that a peer remembers as sent is lost, and peers that have    *)
(* nothing to send have the same changes.  All need that no process comes  *)
(* back with an older file, which may lack what was shared.                *)
(***************************************************************************)
EXTENDS Sync, DocHistory_seqs

\* No process is restarted; connections may be lost.
NoRestart == \A d \in Doc : ~Restart(d)

-----------------------------------------------------------------------------
(* The invariant *)

\* The shapes of messages and sync states, whatever they name.
AnyHave == [last : SUBSET Nat, bloom : SUBSET Nat]

AnyMessage == [heads : SUBSET Nat, need : SUBSET Nat, have : SUBSET AnyHave,
               chunks : BOOLEAN, changes : SUBSET Nat]

AnyState == [shared : SUBSET Nat, lastSent : SUBSET Nat, heard : BOOLEAN,
             theirHeads : SUBSET Nat, theirNeed : SUBSET Nat,
             theirHave : SUBSET AnyHave, sent : SUBSET Nat,
             inFlight : BOOLEAN, responded : BOOLEAN]

SyncTypes ==
    /\ sync \in [Doc -> AnyState]
    /\ chan \in [Doc -> Seq(AnyMessage)]
    /\ false \in SUBSET Nat

\* Every change is in the history of one of the two documents.
AllHeld == \A x \in Made : \E d \in Doc : x \in doc[d].hist

\* A message on its way to d: its sender has the heads that it names, and it
\* has bytes to load if it carries changes.
Honest(c, peer, m) ==
    /\ m.heads \subseteq peer.hist /\ m.changes \subseteq Names(c)
    /\ m.chunks \/ m.changes = {}

AllHonest ==
    \A d \in Doc : \A i \in 1 .. Len(chan[d]) : Honest(chg, doc[Peer(d)], chan[d][i])

\* The inductive invariant behind SharedIsShared.
SharedInv == GoodState /\ SyncTypes /\ AllHeld /\ AllHonest /\ SharedIsShared

-----------------------------------------------------------------------------
(* Two peers, and what they send *)

\* There are two documents.
LEMMA PeerFacts ==
    ASSUME NEW d \in Doc
    PROVE  /\ Peer(d) \in Doc /\ Peer(d) # d /\ Peer(Peer(d)) = d
           /\ \A e \in Doc : e = d \/ e = Peer(d)
<1>1. IsFiniteSet(Doc) /\ Cardinality(Doc) = 2
  BY SyncAssumption
<1>2. Cardinality(Doc \ {d}) = 1 /\ IsFiniteSet(Doc \ {d})
  BY <1>1, FS_RemoveElement
<1>3. PICK p : Doc \ {d} = {p}
  BY <1>2, FS_Singleton
<1>4. p \in Doc /\ p # d /\ \A e \in Doc : e = d \/ e = p
  BY <1>3
<1>5. Peer(d) = p
  BY <1>4 DEF Peer
<1>6. Peer(p) = d
  BY <1>4 DEF Peer
<1>. QED
  BY <1>4, <1>5, <1>6

\* A payload carries the changes that it counts as sent, which the document has.
LEMMA PayloadFacts ==
    ASSUME NEW c, NEW s \in DocStateOf(c), NEW st, NEW p, p = Payload(c, s, st),
           p.hashes \subseteq s.hist
    PROVE  /\ p.chunks \in BOOLEAN /\ p.changes \subseteq s.hist \cup s.queue
           /\ p.hashes \subseteq p.changes /\ (p.chunks \/ p.changes = {})
<1>1. CASE p = NoPayload
  BY <1>1 DEF NoPayload
<1>2. CASE p = WholeDoc(s)
  BY <1>2 DEF WholeDoc, FileChanges, SavedFile
<1>3. ASSUME NEW H, p = [chunks |-> H # {}, changes |-> H, hashes |-> H]
      PROVE  /\ p.chunks \in BOOLEAN /\ p.changes \subseteq s.hist \cup s.queue
             /\ p.hashes \subseteq p.changes /\ (p.chunks \/ p.changes = {})
  <2>1. p.chunks = (H # {}) /\ p.changes = H /\ p.hashes = H
    BY <1>3
  <2>2. p.chunks \in BOOLEAN /\ (p.chunks \/ p.changes = {})
    BY <2>1
  <2>. QED
    BY <2>1, <2>2
<1>. QED
  BY <1>1, <1>2, <1>3 DEF Payload

\* The messages of GenerateMessage have the form of one.
LEMMA GeneratedType ==
    ASSUME NEW c, GoodLog(c), NEW s, GoodDoc(c, s), NEW st \in AnyState,
           false \in SUBSET Nat, NEW p, p = Payload(c, s, st), p.hashes \subseteq s.hist
    PROVE  /\ Generated(c, s, st, p) \in AnyMessage
           /\ Generated(c, s, st, p).heads = s.heads
           /\ Generated(c, s, st, p).changes = p.changes
           /\ Generated(c, s, st, p).chunks = p.chunks
           /\ AfterGenerate(s, st, p) \in AnyState
           /\ AfterGenerate(s, st, p).shared = st.shared
           /\ AfterGenerate(s, st, p).sent = st.sent \cup p.hashes
<1>1. /\ s \in DocStateOf(c) /\ Names(c) \subseteq Nat
      /\ s.hist \subseteq Nat /\ s.heads \subseteq Nat /\ s.queue \subseteq Nat
  BY DEF GoodDoc, DocStateOf, GoodLog, Names
<1>2. p.chunks \in BOOLEAN /\ p.changes \subseteq Nat /\ p.hashes \subseteq Nat
  BY <1>1, PayloadFacts
<1>3. Deps(c, s.queue) \subseteq Nat
  <2>1. \A x \in s.queue : c[x] \in Change
    BY <1>1 DEF DocStateOf, GoodLog, Names
  <2>. QED
    BY <2>1, DepsMember DEF Change
<1>4. st.theirHeads \subseteq Nat /\ st.shared \subseteq Nat /\ st.sent \subseteq Nat
  BY DEF AnyState
<1> DEFINE need == GetMissingDeps(c, s, st.theirHeads)
           b    == MakeBloomFilter(c, s, st)
           have == IF need \subseteq st.theirHeads THEN {b} ELSE {}
<1>5. need \subseteq Nat
  BY <1>3, <1>4 DEF GetMissingDeps
<1>6. b \in AnyHave
  <2>1. GetHashes(c, s, st.shared) \subseteq Nat
    BY <1>1 DEF GetHashes
  <2>. QED
    BY <1>4, <2>1 DEF MakeBloomFilter, AnyHave
<1>7. have \in SUBSET AnyHave
  BY <1>6
<1>8. Generated(c, s, st, p) = [heads |-> s.heads, need |-> need, have |-> have,
                                chunks |-> p.chunks, changes |-> p.changes]
  BY DEF Generated
<1> HIDE DEF need, b, have
<1>9. /\ Generated(c, s, st, p) \in AnyMessage
      /\ Generated(c, s, st, p).heads = s.heads /\ Generated(c, s, st, p).changes = p.changes
      /\ Generated(c, s, st, p).chunks = p.chunks
  BY <1>1, <1>2, <1>5, <1>7, <1>8 DEF AnyMessage
<1>10. /\ AfterGenerate(s, st, p) \in AnyState
       /\ AfterGenerate(s, st, p).shared = st.shared
       /\ AfterGenerate(s, st, p).sent = st.sent \cup p.hashes
  BY <1>1, <1>2, <1>4 DEF AfterGenerate, AnyState
<1>. QED
  BY <1>9, <1>10

\* So has the message that asks for everything.
LEMMA ResetType ==
    ASSUME NEW c, NEW s, GoodDoc(c, s)
    PROVE  Reset(s) \in AnyMessage /\ Reset(s).heads = s.heads /\ Reset(s).changes = {}
<1>1. s.heads \subseteq Nat
  BY DEF GoodDoc, DocStateOf, Names
<1>2. [last |-> {}, bloom |-> {}] \in AnyHave
  BY DEF AnyHave
<1>3. {[last |-> {}, bloom |-> {}]} \in SUBSET AnyHave
  BY <1>2
<1>. QED
  BY <1>1, <1>3 DEF Reset, AnyMessage

-----------------------------------------------------------------------------
(* What a step does to the documents *)

\* The step loses nothing of any document: no change leaves a history, and
\* none that was accepted is dropped.
Grows ==
    /\ Extends(chg, chg')
    /\ \A e \in Doc : doc[e].hist \subseteq doc'[e].hist /\ Keeps(doc[e], doc'[e])

\* A step that leaves documents and log alone.
LEMMA SameGrows ==
    ASSUME GoodState, UNCHANGED vars
    PROVE  GoodState' /\ Grows
<1>1. GoodState'
  BY DEF vars, GoodState, Made, File
<1>. QED
  BY <1>1, ExtendsRefl DEF vars, GoodState, Grows, Keeps

\* A step that changes one document, which loses nothing.
LEMMA OneGrows ==
    ASSUME GoodState, NEW d \in Doc, NEW t, Extends(chg, chg'), GoodDoc(chg', t),
           doc' = [doc EXCEPT ![d] = t], doc[d].hist \subseteq t.hist, Keeps(doc[d], t),
           UNCHANGED <<rest, snap, disk>>
    PROVE  GoodState' /\ Grows
<1>1. rest' \in [Doc -> Seq(Made')] /\ snap' \in [Doc -> File'] /\ disk' \subseteq File'
  BY TypesGrow
<1>2. GoodState'
  BY <1>1, OneDocStep
<1>3. doc \in [Doc -> DocStateOf(chg)]
  BY DEF GoodState
<1>4. doc'[d] = t /\ \A e \in Doc : e # d => doc'[e] = doc[e]
  BY <1>3
<1>. QED
  BY <1>2, <1>4 DEF Grows, Keeps

\* Editing and committing.
LEMMA WriteDocs ==
    ASSUME GoodState, NEW d \in Doc, Write(d)
    PROVE  GoodState' /\ Grows /\ WorkStep(d)
<1>1. Edit(d) \/ Commit(d, FALSE)
  BY DEF Write
<1>2. GoodState' /\ StepKeeps /\ WorkStep(d)
  BY <1>1, EditStep, CommitStep, QuietSteps
<1>3. PICK s, t : Begins(d, chg', s) /\ Works(chg', s, t) /\ doc' = [doc EXCEPT ![d] = t]
  BY <1>2 DEF WorkStep
<1>4. Extends(chg, chg') /\ s \in DocStateOf(chg') /\ doc[d].hist \subseteq s.hist
  BY <1>3, BeginsGood DEF GoodDoc
<1>5. doc[d].hist \subseteq t.hist
  BY <1>3, <1>4, WorksGrow
<1>6. doc \in [Doc -> DocStateOf(chg)] /\ doc[d].status = "open"
  BY <1>2 DEF GoodState, WorkStep
<1>7. doc'[d] = t /\ \A e \in Doc : e # d => doc'[e] = doc[e]
  BY <1>3, <1>6
<1>8. Keeps(doc[d], doc'[d])
  BY <1>2, <1>6 DEF StepKeeps
<1>. QED
  BY <1>2, <1>4, <1>5, <1>7, <1>8 DEF Grows, Keeps

\* Closing the transaction, and no more.
LEMMA GenerateDocs ==
    ASSUME GoodState, NEW d \in Doc, GenerateMessage(d)
    PROVE  /\ GoodState' /\ Grows /\ WorkStep(d)
           /\ chg' = ClosedLog(doc[d]) /\ doc'[d] = Closed(doc[d])
<1>1. /\ chg' = ClosedLog(doc[d]) /\ doc' = [doc EXCEPT ![d] = Closed(doc[d])]
      /\ doc[d].status = "open" /\ UNCHANGED <<rest, snap, disk>>
  BY DEF GenerateMessage, Free
<1>2. /\ Extends(chg, chg') /\ GoodDoc(chg', Closed(doc[d])) /\ Keeps(doc[d], Closed(doc[d]))
      /\ Begins(d, chg', Closed(doc[d]))
  BY <1>1, ClosedGood, ClosedBegins
<1>3. doc[d].hist \subseteq Closed(doc[d]).hist
  BY <1>2, BeginsGood
<1>4. WorkStep(d)
  BY <1>1, <1>2 DEF WorkStep, Works, Idles
<1>5. doc'[d] = Closed(doc[d])
  BY <1>1 DEF GoodState
<1>. QED
  BY <1>1, <1>2, <1>3, <1>4, <1>5, OneGrows

\* Saving moves the cursor.
LEMMA KeepDocs ==
    ASSUME GoodState, NEW d \in Doc, KeepDoc(d)
    PROVE  GoodState' /\ Grows /\ WorkStep(d)
<1> DEFINE t == Saved(doc[d])
<1>1. /\ chg' = ClosedLog(doc[d]) /\ doc' = [doc EXCEPT ![d] = t]
      /\ doc[d].status = "open" /\ UNCHANGED <<rest, snap, disk>>
  BY DEF KeepDoc, Free
<1>2. /\ Extends(chg, chg') /\ GoodDoc(chg', t) /\ Keeps(doc[d], t)
      /\ Begins(d, chg', Closed(doc[d])) /\ Idles(Closed(doc[d]), t)
  BY <1>1, ClosedGood, SavedGood, ClosedBegins, SavedIdles
<1> HIDE DEF t
<1>3. doc[d].hist \subseteq t.hist
  BY <1>2, BeginsGood DEF Idles
<1>4. WorkStep(d)
  BY <1>1, <1>2 DEF WorkStep, Works
<1>. QED
  BY <1>1, <1>2, <1>3, <1>4, OneGrows

\* The first message on its way.
LEMMA HeadFacts ==
    ASSUME SyncTypes, AllHonest, NEW d \in Doc, chan[d] # <<>>
    PROVE  /\ Head(chan[d]) = chan[d][1] /\ 1 \in 1 .. Len(chan[d])
           /\ Head(chan[d]) \in AnyMessage /\ Honest(chg, doc[Peer(d)], Head(chan[d]))
           /\ Tail(chan[d]) \in Seq(AnyMessage) /\ Len(Tail(chan[d])) = Len(chan[d]) - 1
           /\ \A i \in 1 .. Len(Tail(chan[d])) :
                 i + 1 \in 1 .. Len(chan[d]) /\ Tail(chan[d])[i] = chan[d][i + 1]
<1>1. chan[d] \in Seq(AnyMessage)
  BY DEF SyncTypes
<1>2. /\ Head(chan[d]) = chan[d][1] /\ 1 \in 1 .. Len(chan[d])
      /\ Head(chan[d]) \in AnyMessage
  BY <1>1
<1>3. /\ Tail(chan[d]) \in Seq(AnyMessage) /\ Len(Tail(chan[d])) = Len(chan[d]) - 1
      /\ \A i \in 1 .. Len(Tail(chan[d])) :
            i + 1 \in 1 .. Len(chan[d]) /\ Tail(chan[d])[i] = chan[d][i + 1]
  BY <1>1
<1>. QED
  BY <1>2, <1>3 DEF AllHonest

\* A message is applied as a batch, if it has changes.
LEMMA ReceiveDocs ==
    ASSUME GoodState, SyncTypes, AllHonest, NEW d \in Doc, ReceiveMessage(d)
    PROVE  /\ GoodState' /\ Grows /\ WorkStep(d)
           /\ chg' = ClosedLog(doc[d])
           /\ doc'[d] \in Incremented(chg', Closed(doc[d]), Head(chan[d]))
<1> DEFINE s == Closed(doc[d])
           m == Head(chan[d])
<1>1. /\ chg' = ClosedLog(doc[d]) /\ doc[d].status = "open" /\ chan[d] # <<>>
      /\ UNCHANGED <<rest, snap, disk>>
  BY DEF ReceiveMessage, Free
<1>2. PICK t \in Incremented(chg', s, m) : doc' = [doc EXCEPT ![d] = t]
  BY <1>1 DEF ReceiveMessage
<1>3. /\ Extends(chg, chg') /\ GoodLog(chg') /\ GoodDoc(chg', s) /\ Keeps(doc[d], s)
      /\ Begins(d, chg', s)
  BY <1>1, ClosedGood, ClosedBegins
<1>4. m.changes \in SUBSET Names(chg')
  BY <1>1, <1>3, HeadFacts, ExtendsNames DEF Honest
<1> HIDE DEF s, m
<1>5. t = s \/ t \in BatchOutcomes(chg', s, m.changes)
  BY DEF Incremented
<1>6. Works(chg', s, t)
  BY <1>4, <1>5 DEF Works, Idles
<1>7. GoodDoc(chg', t)
  BY <1>3, <1>4, <1>5, BatchOutcomesGood
<1>8. Keeps(doc[d], t)
  <2>1. Keeps(s, t)
    BY <1>3, <1>5, BatchKeeps DEF GoodDoc, Keeps
  <2>. QED
    BY <1>3, <2>1 DEF Keeps
<1>9. doc[d].hist \subseteq t.hist
  BY <1>3, <1>6, BeginsGood, WorksGrow DEF GoodDoc
<1>10. WorkStep(d)
  BY <1>1, <1>2, <1>3, <1>6 DEF WorkStep
<1>11. doc'[d] = t
  BY <1>2 DEF GoodState
<1>. QED
  BY <1>1, <1>2, <1>3, <1>7, <1>8, <1>9, <1>10, <1>11, OneGrows DEF s, m

-----------------------------------------------------------------------------
(* The shared heads *)

\* A new change is in the history of the document that made it.
LEMMA HeldStays ==
    ASSUME GoodState, AllHeld, Grows, DocStep \/ chg' = chg
    PROVE  AllHeld'
<1> SUFFICES ASSUME NEW x \in Made' PROVE \E d \in Doc : x \in doc'[d].hist
  BY DEF AllHeld
<1>1. CASE x \in Made
  BY <1>1 DEF AllHeld, Grows
<1>2. CASE x \notin Made
  <2>1. chg' # chg
    BY <1>2 DEF Made
  <2>2. PICK d \in Doc : chg' = CommitLog(chg, doc[d]) /\ Len(chg') \in doc'[d].hist
    BY <2>1, LogStep
  <2>3. Len(chg') = Len(chg) + 1 /\ Len(chg) \in Nat
    BY <2>2, CommitExtends DEF GoodState, GoodLog
  <2>4. x = Len(chg')
    BY <1>2, <2>3 DEF Made
  <2>. QED
    BY <2>2, <2>4
<1>. QED
  BY <1>1, <1>2

\* Messages stay honest while the documents grow.
LEMMA HonestStays ==
    ASSUME Grows, NEW e \in Doc, NEW m, Honest(chg, doc[e], m)
    PROVE  Honest(chg', doc'[e], m)
BY ExtendsNames DEF Grows, Honest

\* A step that leaves the messages and the shared heads as they are.
LEMMA QuietShared ==
    ASSUME SharedInv, Grows, UNCHANGED chan,
           \A d \in Doc : sync'[d].shared \subseteq sync[d].shared
    PROVE  AllHonest' /\ SharedIsShared'
<1>1. AllHonest'
  BY HonestStays, PeerFacts DEF SharedInv, AllHonest
<1>2. SharedIsShared'
  BY DEF SharedInv, SharedIsShared, Grows
<1>. QED
  BY <1>1, <1>2

\* A message more is on its way to the peer of d.
LEMMA SendShared ==
    ASSUME SharedInv, Grows, NEW d \in Doc, NEW m \in AnyMessage,
           Honest(chg', doc'[d], m), chan' = [chan EXCEPT ![Peer(d)] = Append(@, m)],
           \A e \in Doc : sync'[e].shared \subseteq sync[e].shared
    PROVE  AllHonest' /\ SharedIsShared' /\ chan' \in [Doc -> Seq(AnyMessage)]
<1> DEFINE p == Peer(d)
<1>1. p \in Doc /\ Peer(p) = d
  BY PeerFacts
<1>2. chan \in [Doc -> Seq(AnyMessage)] /\ chan[p] \in Seq(AnyMessage)
  BY <1>1 DEF SharedInv, SyncTypes
<1>3. chan'[p] = Append(chan[p], m) /\ \A e \in Doc : e # p => chan'[e] = chan[e]
  BY <1>1, <1>2
<1>4. chan' \in [Doc -> Seq(AnyMessage)]
  BY <1>1, <1>2
<1>5. ASSUME NEW e \in Doc, NEW i \in 1 .. Len(chan'[e])
      PROVE  Honest(chg', doc'[Peer(e)], chan'[e][i])
  <2>1. Peer(e) \in Doc
    BY PeerFacts
  <2>2. CASE i \in 1 .. Len(chan[e]) /\ chan'[e][i] = chan[e][i]
    BY <2>1, <2>2, HonestStays DEF SharedInv, AllHonest
  <2>3. CASE e = p /\ chan'[e][i] = m
    BY <1>1, <2>3
  <2>4. CASE e = p
    <3>1. i = Len(chan[p]) + 1 \/ i \in 1 .. Len(chan[p])
      BY <1>2, <1>3, <2>4
    <3>2. i = Len(chan[p]) + 1 => chan'[p][i] = m
      BY <1>2, <1>3
    <3>3. i \in 1 .. Len(chan[p]) => chan'[p][i] = chan[p][i]
      BY <1>2, <1>3
    <3>. QED
      BY <2>2, <2>3, <2>4, <3>1, <3>2, <3>3
  <2>. QED
    BY <1>3, <2>2, <2>4
<1>6. SharedIsShared'
  BY DEF SharedInv, SharedIsShared, Grows
<1>. QED
  BY <1>4, <1>5, <1>6 DEF AllHonest

\* What a peer counts as shared after a message: heads that the message names,
\* and heads that came with it, which this document did not have before.
LEMMA ReceivedState ==
    ASSUME NEW c, NEW s, GoodDoc(c, s), NEW t, GoodDoc(c, t), s.hist \subseteq t.hist,
           NEW st \in AnyState, NEW m \in AnyMessage, NEW P,
           st.shared \subseteq s.hist \cap P, m.heads \subseteq P,
           t.hist \ s.hist \subseteq P
    PROVE  /\ AfterReceive(c, s, t, st, m) \in AnyState
           /\ AfterReceive(c, s, t, st, m).shared \subseteq t.hist \cap P
           /\ AfterReceive(c, s, t, st, m).sent \subseteq st.sent
<1> DEFINE known    == m.heads \cap t.hist
           advanced == IF m.chunks THEN AdvanceHeads(s.heads, t.heads, st.shared)
                       ELSE st.shared
           shared   == IF m.heads \subseteq t.hist THEN m.heads ELSE advanced \cup known
           lastSent == IF m.heads = {} THEN {}
                       ELSE IF ~m.chunks /\ m.heads = s.heads THEN m.heads ELSE st.lastSent
           sent     == IF m.heads = {} THEN {} ELSE st.sent \ Ancestors(c, t.hist, known)
<1>1. t.heads \ s.heads \subseteq P /\ t.heads \subseteq t.hist
  <2>1. Deps(c, s.hist) \subseteq Deps(c, t.hist)
    BY DepsMember
  <2>. QED
    BY <2>1 DEF GoodDoc
<1>2. advanced \subseteq t.hist \cap P
  BY <1>1 DEF AdvanceHeads
<1> HIDE DEF advanced
<1>3. shared \subseteq t.hist \cap P
  BY <1>2
<1>4. t.hist \subseteq Nat
  BY DEF GoodDoc, DocStateOf, Names
<1>5. /\ m.heads \subseteq Nat /\ m.need \subseteq Nat /\ m.have \subseteq AnyHave
      /\ st.sent \subseteq Nat /\ st.lastSent \subseteq Nat
  BY DEF AnyMessage, AnyState
<1>6. shared \subseteq Nat /\ lastSent \subseteq Nat /\ sent \subseteq Nat /\ sent \subseteq st.sent
  BY <1>3, <1>4, <1>5
<1>7. AfterReceive(c, s, t, st, m) =
         [st EXCEPT !.inFlight = FALSE, !.shared = shared, !.lastSent = lastSent,
                    !.sent = sent, !.heard = TRUE, !.theirHeads = m.heads,
                    !.theirNeed = m.need, !.theirHave = m.have]
  BY DEF AfterReceive, advanced
<1> HIDE DEF known, shared, lastSent, sent
<1>8. AfterReceive(c, s, t, st, m) =
         [shared |-> shared, lastSent |-> lastSent, heard |-> TRUE, theirHeads |-> m.heads,
          theirNeed |-> m.need, theirHave |-> m.have, sent |-> sent, inFlight |-> FALSE,
          responded |-> st.responded]
  BY <1>7 DEF AnyState
<1>9. st.responded \in BOOLEAN
  BY DEF AnyState
<1>10. AfterReceive(c, s, t, st, m) \in AnyState
  BY <1>5, <1>6, <1>8, <1>9 DEF AnyState
<1>11. /\ AfterReceive(c, s, t, st, m).shared = shared
       /\ AfterReceive(c, s, t, st, m).sent = sent
  BY <1>8
<1>. QED
  BY <1>3, <1>6, <1>10, <1>11

\* GenerateMessage sends the heads of its own document.
LEMMA GenerateShared ==
    ASSUME SharedInv, NEW d \in Doc, GenerateMessage(d)
    PROVE  SharedInv'
<1> DEFINE s  == Closed(doc[d])
           c  == ClosedLog(doc[d])
           st == sync[d]
           p  == Payload(c, s, st)
<1>1. GoodState /\ AllHeld /\ SyncTypes /\ st \in AnyState /\ Peer(d) \in Doc
  BY PeerFacts DEF SharedInv, SyncTypes
<1>2. GoodState' /\ Grows /\ DocStep /\ chg' = c /\ doc'[d] = s
  BY <1>1, GenerateDocs DEF DocStep
<1>3. GoodLog(chg') /\ GoodDoc(chg', s) /\ s \in DocStateOf(chg')
  BY <1>2 DEF GoodState, GoodDoc
<1>4. AllHeld'
  BY <1>1, <1>2, HeldStays
<1>5. false' = false
  BY DEF GenerateMessage
<1>6. \/ chan' = [chan EXCEPT ![Peer(d)] = Append(@, Reset(s))] /\ sync' = sync
      \/ /\ p.hashes \subseteq s.hist
         /\ chan' = [chan EXCEPT ![Peer(d)] = Append(@, Generated(c, s, st, p))]
         /\ sync' = [sync EXCEPT ![d] = AfterGenerate(s, st, p)]
      \/ chan' = chan /\ sync' = sync
  BY DEF GenerateMessage, NothingToSend
<1> HIDE DEF s, c, p
<1>7. s.heads \subseteq s.hist
  BY <1>3 DEF GoodDoc
<1>8. CASE chan' = [chan EXCEPT ![Peer(d)] = Append(@, Reset(s))] /\ sync' = sync
  <2>1. Reset(s) \in AnyMessage /\ Honest(chg', doc'[d], Reset(s))
    BY <1>2, <1>3, <1>7, ResetType DEF Honest
  <2>2. AllHonest' /\ SharedIsShared' /\ chan' \in [Doc -> Seq(AnyMessage)]
    BY <1>2, <1>8, <2>1, SendShared
  <2>. QED
    BY <1>1, <1>2, <1>4, <1>5, <1>8, <2>2 DEF SharedInv, SyncTypes
<1>9. CASE /\ p.hashes \subseteq s.hist
           /\ chan' = [chan EXCEPT ![Peer(d)] = Append(@, Generated(c, s, st, p))]
           /\ sync' = [sync EXCEPT ![d] = AfterGenerate(s, st, p)]
  <2> DEFINE m == Generated(c, s, st, p)
             u == AfterGenerate(s, st, p)
  <2>1. /\ m \in AnyMessage /\ m.heads = s.heads /\ m.changes = p.changes
        /\ m.chunks = p.chunks /\ u \in AnyState /\ u.shared = st.shared
    BY <1>1, <1>2, <1>3, <1>9, GeneratedType DEF SyncTypes, p
  <2>2. chan' = [chan EXCEPT ![Peer(d)] = Append(@, m)] /\ sync' = [sync EXCEPT ![d] = u]
    BY <1>9
  <2>3. p.changes \subseteq Names(chg') /\ (p.chunks \/ p.changes = {})
    BY <1>2, <1>3, <1>9, PayloadFacts DEF DocStateOf, p
  <2> HIDE DEF m, u
  <2>4. Honest(chg', doc'[d], m)
    BY <1>2, <1>7, <2>1, <2>3 DEF Honest
  <2>5. sync' \in [Doc -> AnyState] /\ \A e \in Doc : sync'[e].shared \subseteq sync[e].shared
    BY <1>1, <2>1, <2>2 DEF SyncTypes
  <2>6. AllHonest' /\ SharedIsShared' /\ chan' \in [Doc -> Seq(AnyMessage)]
    BY <1>2, <2>1, <2>2, <2>4, <2>5, SendShared
  <2>. QED
    BY <1>1, <1>2, <1>4, <1>5, <2>5, <2>6 DEF SharedInv, SyncTypes
<1>10. CASE chan' = chan /\ sync' = sync
  <2>1. AllHonest' /\ SharedIsShared'
    BY <1>2, <1>10, QuietShared
  <2>. QED
    BY <1>1, <1>2, <1>4, <1>5, <1>10, <2>1 DEF SharedInv, SyncTypes
<1>. QED
  BY <1>6, <1>8, <1>9, <1>10

\* What a message brings to d is in the history of its sender, where else.
LEMMA ReceivedIsHeld ==
    ASSUME SharedInv, NEW d \in Doc, NEW s, Begins(d, chg', s), NEW x \in Names(chg'),
           x \notin s.hist
    PROVE  x \in doc[Peer(d)].hist
<1>1. /\ doc[d].hist \subseteq s.hist
      /\ chg' = chg \/ (Len(chg') = Len(chg) + 1 /\ Len(chg') \in s.hist)
  BY BeginsGood DEF SharedInv
<1>2. Len(chg) \in Nat
  BY DEF SharedInv, GoodState, GoodLog
<1>3. x \in Made
  BY <1>1, <1>2 DEF Names, Made
<1>. QED
  BY <1>1, <1>3, PeerFacts DEF SharedInv, AllHeld

\* The sync state of d after ReceiveMessage.
LEMMA ReceiveState ==
    ASSUME SharedInv, NEW d \in Doc, ReceiveMessage(d)
    PROVE  \E u \in AnyState : /\ sync' = [sync EXCEPT ![d] = u]
                               /\ u.shared \subseteq doc'[d].hist \cap doc[Peer(d)].hist
                               /\ u.sent \subseteq sync[d].sent
<1> DEFINE s  == Closed(doc[d])
           c  == ClosedLog(doc[d])
           st == sync[d]
           m  == Head(chan[d])
           Q  == doc[Peer(d)].hist
<1>1. GoodState /\ SyncTypes /\ AllHonest /\ st \in AnyState /\ Peer(d) \in Doc
  BY PeerFacts DEF SharedInv, SyncTypes
<1>2. GoodState' /\ Grows /\ chg' = c
  BY <1>1, ReceiveDocs
<1>3. PICK t : /\ doc' = [doc EXCEPT ![d] = t]
               /\ sync' = [sync EXCEPT ![d] =
                     IF t.status = "trapped" \/ (m.chunks /\ DuplicateSeq(c, s, m.changes))
                     THEN [@ EXCEPT !.inFlight = FALSE]
                     ELSE AfterReceive(c, s, t, @, m)]
  BY DEF ReceiveMessage
<1>4. doc'[d] = t /\ GoodDoc(c, t)
  BY <1>1, <1>2, <1>3 DEF GoodState
<1>5. GoodDoc(c, s) /\ Begins(d, chg', s) /\ doc[d].hist \subseteq s.hist
  BY <1>1, <1>2, ClosedGood, ClosedBegins, BeginsGood
<1>6. s.hist \subseteq t.hist
  <2>1. t \in Incremented(c, s, m)
    BY <1>1, <1>2, <1>4, ReceiveDocs
  <2>2. chan[d] # <<>>
    BY DEF ReceiveMessage
  <2>3. m.changes \in SUBSET Names(c)
    BY <1>1, <1>2, <2>2, HeadFacts, ExtendsNames DEF Honest, Grows
  <2> HIDE DEF s, c, m
  <2>4. Works(c, s, t)
    BY <2>1, <2>3 DEF Incremented, Works, Idles
  <2>. QED
    BY <1>5, <2>4, WorksGrow DEF GoodDoc
<1>7. m \in AnyMessage /\ m.heads \subseteq Q
  BY <1>1, HeadFacts DEF ReceiveMessage, Honest
<1>8. st.shared \subseteq s.hist \cap Q
  BY <1>1, <1>5 DEF SharedInv, SharedIsShared
<1>9. t.hist \ s.hist \subseteq Q
  BY <1>2, <1>4, <1>5, ReceivedIsHeld DEF GoodDoc, DocStateOf
<1> DEFINE u == AfterReceive(c, s, t, st, m)
           v == [st EXCEPT !.inFlight = FALSE]
<1> HIDE DEF s, c, m, Q
<1>10. u \in AnyState /\ u.shared \subseteq t.hist \cap Q /\ u.sent \subseteq st.sent
  BY <1>1, <1>4, <1>5, <1>6, <1>7, <1>8, <1>9, ReceivedState
<1>11. v \in AnyState /\ v.shared = st.shared /\ v.sent = st.sent
  BY <1>1 DEF AnyState
<1>12. sync' = [sync EXCEPT ![d] = u] \/ sync' = [sync EXCEPT ![d] = v]
  BY <1>3
<1> HIDE DEF u, v
<1>. QED
  BY <1>4, <1>6, <1>8, <1>10, <1>11, <1>12 DEF Q

\* ReceiveMessage takes the first message.
LEMMA ReceiveShared ==
    ASSUME SharedInv, NEW d \in Doc, ReceiveMessage(d)
    PROVE  SharedInv'
<1>1. GoodState /\ AllHeld /\ SyncTypes /\ AllHonest /\ Peer(d) \in Doc
  BY PeerFacts DEF SharedInv
<1>2. GoodState' /\ Grows /\ DocStep
  BY <1>1, ReceiveDocs DEF DocStep
<1>3. AllHeld'
  BY <1>1, <1>2, HeldStays
<1>4. PICK u \in AnyState : /\ sync' = [sync EXCEPT ![d] = u]
                            /\ u.shared \subseteq doc'[d].hist \cap doc[Peer(d)].hist
  BY ReceiveState
<1>5. chan[d] # <<>> /\ chan' = [chan EXCEPT ![d] = Tail(@)] /\ false' = false
  BY DEF ReceiveMessage
<1>6. /\ chan'[d] = Tail(chan[d]) /\ \A e \in Doc : e # d => chan'[e] = chan[e]
      /\ sync'[d] = u /\ \A e \in Doc : e # d => sync'[e] = sync[e]
  BY <1>1, <1>4, <1>5 DEF SyncTypes
<1>7. SyncTypes'
  <2>1. Tail(chan[d]) \in Seq(AnyMessage)
    BY <1>1, <1>5, HeadFacts
  <2>. QED
    BY <1>1, <1>4, <1>5, <2>1 DEF SyncTypes
<1>8. AllHonest'
  <2> SUFFICES ASSUME NEW e \in Doc, NEW i \in 1 .. Len(chan'[e])
               PROVE  Honest(chg', doc'[Peer(e)], chan'[e][i])
    BY DEF AllHonest
  <2>1. \E j \in 1 .. Len(chan[e]) : chan'[e][i] = chan[e][j]
    BY <1>1, <1>5, <1>6, HeadFacts
  <2>2. Honest(chg, doc[Peer(e)], chan'[e][i]) /\ Peer(e) \in Doc
    BY <1>1, <2>1, PeerFacts DEF AllHonest
  <2>. QED
    BY <1>2, <2>2, HonestStays
<1>9. SharedIsShared'
  <2> SUFFICES ASSUME NEW e \in Doc, NEW f \in Doc PROVE sync'[e].shared \subseteq doc'[f].hist
    BY DEF SharedIsShared
  <2>1. CASE e = d
    BY <1>2, <1>4, <1>6, <2>1, PeerFacts DEF Grows
  <2>2. CASE e # d
    BY <1>2, <1>6, <2>2 DEF SharedInv, SharedIsShared, Grows
  <2>. QED
    BY <2>1, <2>2
<1>. QED
  BY <1>2, <1>3, <1>7, <1>8, <1>9 DEF SharedInv

\* The other steps: shared heads and messages stay, or go.
LEMMA OtherShared ==
    ASSUME SharedInv, NEW d \in Doc,
           Write(d) \/ KeepDoc(d) \/ KeepSync(d) \/ Reconnect \/ UNCHANGED syncVars
    PROVE  SharedInv'
<1>1. GoodState /\ AllHeld /\ SyncTypes
  BY DEF SharedInv
<1>2. GoodState' /\ Grows /\ (DocStep \/ chg' = chg)
  <2>1. CASE Write(d) \/ KeepDoc(d)
    BY <1>1, <2>1, WriteDocs, KeepDocs DEF DocStep
  <2>2. CASE UNCHANGED vars
    BY <1>1, <2>2, SameGrows DEF vars
  <2>. QED
    BY <2>1, <2>2 DEF KeepSync, Reconnect, syncVars
<1>3. AllHeld' /\ false' = false
  BY <1>1, <1>2, HeldStays DEF Write, KeepDoc, KeepSync, Reconnect, syncVars
<1>4. CASE sync' = sync /\ chan' = chan
  <2>1. AllHonest' /\ SharedIsShared'
    BY <1>2, <1>4, QuietShared
  <2>. QED
    BY <1>1, <1>2, <1>3, <1>4, <2>1 DEF SharedInv, SyncTypes
<1>5. CASE Reconnect
  <2>1. /\ sync' = [e \in Doc |-> LoadSyncState(sync[e].shared)] /\ chan' = [e \in Doc |-> <<>>]
    BY <1>5 DEF Reconnect
  <2>2. \A e \in Doc : /\ LoadSyncState(sync[e].shared) \in AnyState
                      /\ LoadSyncState(sync[e].shared).shared = sync[e].shared
    BY <1>1 DEF SyncTypes, AnyState, LoadSyncState
  <2>3. SyncTypes'
    <3>1. <<>> \in Seq(AnyMessage)
      OBVIOUS
    <3>. QED
      BY <1>1, <1>3, <2>1, <2>2, <3>1 DEF SyncTypes
  <2>4. AllHonest'
    BY <2>1 DEF AllHonest
  <2>5. SharedIsShared'
    BY <1>2, <2>1, <2>2 DEF SharedInv, SharedIsShared, Grows
  <2>. QED
    BY <1>2, <1>3, <2>3, <2>4, <2>5 DEF SharedInv
<1>. QED
  BY <1>4, <1>5 DEF Write, KeepDoc, KeepSync, syncVars

\* Without restarts, the steps are these.
LEMMA SyncSteps ==
    ASSUME [SyncNext]_syncVars, [NoRestart]_syncVars
    PROVE  \/ \E d \in Doc : GenerateMessage(d)
           \/ \E d \in Doc : ReceiveMessage(d)
           \/ \E d \in Doc : \/ Write(d) \/ KeepDoc(d) \/ KeepSync(d) \/ Reconnect
                             \/ UNCHANGED syncVars
<1>1. \E d : d \in Doc
  <2>1. Doc # {}
    BY SyncAssumption, FS_EmptySet
  <2>. QED
    BY <2>1
<1>2. CASE UNCHANGED syncVars
  BY <1>1, <1>2
<1>3. CASE SyncNext /\ NoRestart
  BY <1>1, <1>3 DEF SyncNext, NoRestart, Syncing
<1>. QED
  BY <1>2, <1>3

\* The peers start with documents that have no changes.
LEMMA SharedInit == SyncInit => SharedInv
<1> SUFFICES ASSUME SyncInit PROVE SharedInv
  OBVIOUS
<1>1. PICK act \in [Doc -> Actor] : doc = [d \in Doc |-> Blank(act[d])]
  BY DEF SyncInit
<1>2. /\ chg = <<>> /\ rest = [d \in Doc |-> <<>>] /\ snap = [d \in Doc |-> NoFile] /\ disk = {}
      /\ sync = [d \in Doc |-> NewSyncState] /\ chan = [d \in Doc |-> <<>>]
      /\ false \in SUBSET (1 .. MaxChanges)
  BY DEF SyncInit
<1>3. GoodLog(chg) /\ Names(chg) = {}
  BY <1>2 DEF GoodLog, Names
<1>4. \A d \in Doc : GoodDoc(chg, doc[d])
  BY <1>1, <1>3, BlankGood
<1>5. GoodState
  <2>1. doc \in [Doc -> DocStateOf(chg)]
    BY <1>1, <1>4 DEF GoodDoc
  <2>2. rest \in [Doc -> Seq(Made)]
    <3>1. <<>> \in Seq(Made)
      OBVIOUS
    <3>. QED
      BY <1>2, <3>1
  <2>3. snap \in [Doc -> File]
    BY <1>2 DEF NoFile, File
  <2>. QED
    BY <1>2, <1>3, <1>4, <2>1, <2>2, <2>3 DEF GoodState
<1>6. SyncTypes
  <2>1. NewSyncState \in AnyState
    BY DEF NewSyncState, LoadSyncState, AnyState
  <2>2. <<>> \in Seq(AnyMessage)
    OBVIOUS
  <2>3. false \in SUBSET Nat
    BY <1>2
  <2>. QED
    BY <1>2, <2>1, <2>2, <2>3 DEF SyncTypes
<1>7. AllHeld
  BY <1>3 DEF AllHeld, Made, Names
<1>8. AllHonest
  BY <1>2 DEF AllHonest
<1>9. SharedIsShared
  BY <1>2 DEF SharedIsShared, NewSyncState, LoadSyncState
<1>. QED
  BY <1>5, <1>6, <1>7, <1>8, <1>9 DEF SharedInv

\* Every step but a restart keeps the invariant.
LEMMA SharedNext ==
    ASSUME SharedInv, [SyncNext]_syncVars, [NoRestart]_syncVars
    PROVE  SharedInv'
BY SyncSteps, GenerateShared, ReceiveShared, OtherShared

\* As long as no process comes back with an older file, the heads that a sync
\* state counts as shared are changes of both documents: over lost connections,
\* with any number of messages on their way, and whether or not the documents
\* have the same actor.
THEOREM SharedHeads == SyncSpec /\ [][NoRestart]_syncVars => []SharedIsShared
<1>1. SharedInv => SharedIsShared
  BY DEF SharedInv
<1>2. SharedInv /\ [SyncNext]_syncVars /\ [NoRestart]_syncVars => SharedInv'
  BY SharedNext
<1>. QED
  BY <1>1, <1>2, SharedInit, PTL DEF SyncSpec

-----------------------------------------------------------------------------
(* The changes that count as sent *)

\* The changes of messages on their way to d.
OnTheWay(d) == UNION {chan[d][i].changes : i \in 1 .. Len(chan[d])}

\* The inductive invariant behind SentArrives.
SentInv == SharedInv /\ OneState /\ SentArrives

\* Documents with actors of their own stay so.
LEMMA SentOne ==
    ASSUME ~ActorReuse, OneState, GoodState', Grows, DocStep \/ (chg' = chg /\ doc' = doc)
    PROVE  OneState'
<1>1. CASE DocStep
  BY <1>1, OneStep DEF Grows
<1>2. CASE chg' = chg /\ doc' = doc
  BY <1>2 DEF OneState, SeqInv, OneInv, ActorsDiffer
<1>. QED
  BY <1>1, <1>2

\* A batch is applied or queued as a whole.
LEMMA BatchArrives ==
    ASSUME NEW c, NEW s \in DocStateOf(c), NEW batch
    PROVE  batch \subseteq BatchApplied(c, s, batch).hist \cup BatchApplied(c, s, batch).queue
BY DEF BatchApplied, DocStateOf

\* The changes of a message arrive: with one actor per document no batch has a
\* duplicate sequence number.
LEMMA MessageArrives ==
    ASSUME ~ActorReuse, SentInv, NEW d \in Doc, ReceiveMessage(d), OneState'
    PROVE  Head(chan[d]).changes \subseteq doc'[d].hist \cup doc'[d].queue
<1> DEFINE s == Closed(doc[d])
           m == Head(chan[d])
<1>1. GoodState /\ SyncTypes /\ AllHonest
  BY DEF SentInv, SharedInv
<1>2. GoodState' /\ Grows /\ chg' = ClosedLog(doc[d]) /\ doc'[d] \in Incremented(chg', s, m)
  BY <1>1, ReceiveDocs
<1>3. chan[d] # <<>>
  BY DEF ReceiveMessage
<1>4. m.changes \in SUBSET Names(chg') /\ (m.chunks \/ m.changes = {})
  BY <1>1, <1>2, <1>3, HeadFacts, ExtendsNames DEF Honest, Grows
<1>5. /\ GoodLog(chg') /\ Numbered(chg') /\ Distinct(chg', Names(chg'))
      /\ GoodDoc(chg', s)
  BY <1>1, <1>2, ClosedGood DEF OneState, SeqInv, OneInv, GoodState
<1> HIDE DEF s, m
<1>6. CASE m.changes = {}
  BY <1>6 DEF m
<1>7. CASE m.chunks
  <2>1. ~DuplicateSeq(chg', s, m.changes) /\ ~SeqAssertFails(chg', s, m.changes)
    BY <1>4, <1>5, NoDuplicates, NoAssertFailure
  <2>2. doc'[d] = BatchApplied(chg', s, m.changes)
    BY <1>2, <1>7, <2>1 DEF Incremented, BatchOutcomes
  <2>. QED
    BY <1>5, <2>2, BatchArrives DEF GoodDoc, m
<1>. QED
  BY <1>4, <1>6, <1>7

\* GenerateMessage counts as sent what it sends.
LEMMA GenerateSent ==
    ASSUME SentInv, NEW d \in Doc, GenerateMessage(d)
    PROVE  SentArrives'
<1> DEFINE s  == Closed(doc[d])
           c  == ClosedLog(doc[d])
           st == sync[d]
           p  == Payload(c, s, st)
           q  == Peer(d)
<1>1. GoodState /\ SyncTypes /\ st \in AnyState /\ q \in Doc
  BY PeerFacts DEF SentInv, SharedInv, SyncTypes
<1>2. GoodState' /\ Grows /\ chg' = c /\ doc'[d] = s
  BY <1>1, GenerateDocs
<1>3. GoodLog(c) /\ GoodDoc(c, s)
  BY <1>2 DEF GoodState
<1>4. \/ /\ \E m \in AnyMessage : chan' = [chan EXCEPT ![q] = Append(@, m)]
         /\ sync' = sync
      \/ /\ p.hashes \subseteq s.hist
         /\ chan' = [chan EXCEPT ![q] = Append(@, Generated(c, s, st, p))]
         /\ sync' = [sync EXCEPT ![d] = AfterGenerate(s, st, p)]
      \/ chan' = chan /\ sync' = sync
  BY <1>3, ResetType DEF GenerateMessage, NothingToSend
<1> HIDE DEF s, c, p
<1>5. ASSUME NEW m \in AnyMessage, chan' = [chan EXCEPT ![q] = Append(@, m)]
      PROVE  /\ \A e \in Doc : OnTheWay(e) \subseteq OnTheWay(e)'
             /\ m.changes \subseteq OnTheWay(q)'
  <2>1. chan[q] \in Seq(AnyMessage) /\ Len(chan[q]) \in Nat
    BY <1>1 DEF SyncTypes
  <2>2. chan'[q] = Append(chan[q], m) /\ \A e \in Doc : e # q => chan'[e] = chan[e]
    BY <1>1, <1>5 DEF SyncTypes
  <2>3. /\ Len(chan'[q]) = Len(chan[q]) + 1 /\ chan'[q][Len(chan[q]) + 1] = m
        /\ \A i \in 1 .. Len(chan[q]) : chan'[q][i] = chan[q][i] /\ i \in 1 .. Len(chan'[q])
        /\ Len(chan[q]) + 1 \in 1 .. Len(chan'[q])
    BY <2>1, <2>2
  <2>. QED
    BY <2>2, <2>3 DEF OnTheWay
<1>6. CASE /\ \E m \in AnyMessage : chan' = [chan EXCEPT ![q] = Append(@, m)]
           /\ sync' = sync
  BY <1>2, <1>5, <1>6, PeerFacts DEF SentInv, SentArrives, OnTheWay, Grows, Keeps
<1>7. CASE /\ p.hashes \subseteq s.hist
           /\ chan' = [chan EXCEPT ![q] = Append(@, Generated(c, s, st, p))]
           /\ sync' = [sync EXCEPT ![d] = AfterGenerate(s, st, p)]
  <2> DEFINE m == Generated(c, s, st, p)
             u == AfterGenerate(s, st, p)
  <2>1. /\ m \in AnyMessage /\ m.changes = p.changes
        /\ u \in AnyState /\ u.sent = st.sent \cup p.hashes
    BY <1>1, <1>3, <1>7, GeneratedType DEF SyncTypes, p
  <2>2. p.hashes \subseteq p.changes
    BY <1>3, <1>7, PayloadFacts DEF GoodDoc, p
  <2>3. chan' = [chan EXCEPT ![q] = Append(@, m)] /\ sync' = [sync EXCEPT ![d] = u]
    BY <1>7
  <2> HIDE DEF m, u
  <2>4. sync'[d] = u /\ \A e \in Doc : e # d => sync'[e] = sync[e]
    BY <1>1, <2>3 DEF SyncTypes
  <2>5. /\ \A e \in Doc : OnTheWay(e) \subseteq OnTheWay(e)'
        /\ m.changes \subseteq OnTheWay(q)'
    BY <1>5, <2>1, <2>3
  <2>. QED
    BY <1>2, <2>1, <2>2, <2>4, <2>5, PeerFacts
    DEF SentInv, SentArrives, OnTheWay, Grows, Keeps
<1>8. CASE chan' = chan /\ sync' = sync
  BY <1>2, <1>8, PeerFacts DEF SentInv, SentArrives, Grows, Keeps
<1>. QED
  BY <1>4, <1>6, <1>7, <1>8

\* ReceiveMessage takes a message off its way, and its changes have arrived.
LEMMA ReceiveSent ==
    ASSUME ~ActorReuse, SentInv, NEW d \in Doc, ReceiveMessage(d), OneState'
    PROVE  SentArrives'
<1> DEFINE q == Peer(d)
           m == Head(chan[d])
<1>1. /\ SharedInv /\ GoodState /\ SyncTypes /\ AllHonest
      /\ q \in Doc /\ q # d /\ Peer(q) = d /\ \A e \in Doc : e = d \/ e = q
  BY PeerFacts DEF SentInv, SharedInv
<1>2. Grows
  BY <1>1, ReceiveDocs
<1>3. PICK u \in AnyState : sync' = [sync EXCEPT ![d] = u] /\ u.sent \subseteq sync[d].sent
  BY <1>1, ReceiveState
<1>4. chan[d] # <<>> /\ chan' = [chan EXCEPT ![d] = Tail(@)]
  BY DEF ReceiveMessage
<1>5. /\ chan'[d] = Tail(chan[d]) /\ chan'[q] = chan[q]
      /\ sync'[d] = u /\ sync'[q] = sync[q]
  BY <1>1, <1>3, <1>4 DEF SyncTypes
<1>6. m.changes \subseteq doc'[d].hist \cup doc'[d].queue
  BY MessageArrives
<1>7. OnTheWay(d) \subseteq m.changes \cup OnTheWay(d)'
  <2> SUFFICES ASSUME NEW i \in 1 .. Len(chan[d]), NEW x \in chan[d][i].changes
               PROVE  x \in m.changes \cup OnTheWay(d)'
    BY DEF OnTheWay
  <2>1. chan[d] \in Seq(AnyMessage) /\ Len(chan[d]) \in Nat
    BY <1>1 DEF SyncTypes
  <2>2. CASE i = 1
    BY <1>1, <1>4, <2>2, HeadFacts
  <2>3. CASE i # 1
    <3>1. i - 1 \in 1 .. Len(Tail(chan[d])) /\ Tail(chan[d])[i - 1] = chan[d][i]
      BY <1>4, <2>1, <2>3
    <3>. QED
      BY <1>5, <3>1 DEF OnTheWay
  <2>. QED
    BY <2>2, <2>3
<1>8. sync'[q].sent \subseteq doc'[d].hist \cup doc'[d].queue \cup OnTheWay(d)'
  <2>1. sync[q].sent \subseteq doc[d].hist \cup doc[d].queue \cup OnTheWay(d)
    BY <1>1 DEF SentInv, SentArrives, OnTheWay
  <2>. QED
    BY <1>2, <1>5, <1>6, <1>7, <2>1 DEF Grows, Keeps
<1>9. sync'[d].sent \subseteq doc'[q].hist \cup doc'[q].queue \cup OnTheWay(q)'
  <2>1. sync[d].sent \subseteq doc[q].hist \cup doc[q].queue \cup OnTheWay(q)
    BY DEF SentInv, SentArrives, OnTheWay
  <2>2. OnTheWay(q)' = OnTheWay(q)
    BY <1>5 DEF OnTheWay
  <2>. QED
    BY <1>1, <1>2, <1>3, <1>5, <2>1, <2>2 DEF Grows, Keeps
<1>. QED
  BY <1>1, <1>8, <1>9 DEF SentArrives, OnTheWay

\* In the other steps nothing counts as sent that did not before.
LEMMA OtherSent ==
    ASSUME SentInv, Grows, NEW d \in Doc,
           Write(d) \/ KeepDoc(d) \/ KeepSync(d) \/ Reconnect \/ UNCHANGED syncVars
    PROVE  SentArrives'
<1>1. CASE sync' = sync /\ chan' = chan
  BY <1>1, PeerFacts DEF SentInv, SentArrives, Grows, Keeps
<1>2. CASE Reconnect
  <2>1. \A e \in Doc : sync'[e].sent = {}
    BY <1>2 DEF Reconnect, LoadSyncState
  <2>. QED
    BY <2>1 DEF SentArrives
<1>. QED
  BY <1>1, <1>2 DEF Write, KeepDoc, KeepSync, syncVars

\* What a step does to the documents, for all steps but a restart.
LEMMA SyncDocs ==
    ASSUME SharedInv, [SyncNext]_syncVars, [NoRestart]_syncVars
    PROVE  GoodState' /\ Grows /\ (DocStep \/ (chg' = chg /\ doc' = doc))
<1>1. GoodState /\ SyncTypes /\ AllHonest
  BY DEF SharedInv
<1>2. CASE \E d \in Doc : GenerateMessage(d) \/ ReceiveMessage(d) \/ Write(d) \/ KeepDoc(d)
  BY <1>1, <1>2, GenerateDocs, ReceiveDocs, WriteDocs, KeepDocs DEF DocStep
<1>3. CASE UNCHANGED vars
  BY <1>1, <1>3, SameGrows DEF vars
<1>. QED
  BY <1>2, <1>3, SyncSteps DEF KeepSync, Reconnect, syncVars

\* Nothing is sent at first, and the two documents have different actors.
LEMMA SentInit ==
    ASSUME ~ActorReuse, SyncInit
    PROVE  SentInv
<1>1. SharedInv /\ GoodState
  BY SharedInit DEF SharedInv
<1>2. PICK act \in [Doc -> Actor] : /\ \A d, e \in Doc : d # e => act[d] # act[e]
                                   /\ doc = [d \in Doc |-> Blank(act[d])]
  BY DEF SyncInit
<1>3. Names(chg) = {}
  BY DEF SyncInit, Names
<1>4. \A d \in Doc : /\ doc[d].hist = {} /\ doc[d].queue = {} /\ doc[d].status = "open"
                    /\ doc[d].actor = act[d]
  BY <1>2 DEF Blank
<1>5. SeqInv
  BY <1>3, <1>4 DEF SeqInv, Numbered, Distinct
<1>6. ActorsDiffer
  BY <1>2, <1>4 DEF ActorsDiffer
<1>7. \A d \in Doc : Owns(chg, doc[d]) /\ Settled(chg, doc[d])
  BY <1>3, <1>4 DEF Owns, By, Settled, ReadyIn
<1>8. OneState
  BY <1>1, <1>3, <1>5, <1>6, <1>7 DEF OneState, OneInv, Distinct
<1>9. SentArrives
  BY DEF SyncInit, SentArrives, NewSyncState, LoadSyncState
<1>. QED
  BY <1>1, <1>8, <1>9 DEF SentInv

\* Every step but a restart keeps the invariant.
LEMMA SentNext ==
    ASSUME ~ActorReuse, SentInv, [SyncNext]_syncVars, [NoRestart]_syncVars
    PROVE  SentInv'
<1>1. SharedInv' /\ GoodState' /\ Grows /\ (DocStep \/ (chg' = chg /\ doc' = doc))
  BY SharedNext, SyncDocs DEF SentInv
<1>2. OneState'
  BY <1>1, SentOne DEF SentInv
<1>3. SentArrives'
  BY <1>1, <1>2, SyncSteps, GenerateSent, ReceiveSent, OtherSent
<1>. QED
  BY <1>1, <1>2, <1>3 DEF SentInv

\* As long as no process comes back with an older file, and the documents have
\* actors of their own, a change that a peer will not send again has reached
\* the other document or is on its way to it, over lost connections too.
THEOREM SentChangesArrive ==
    ASSUME ~ActorReuse
    PROVE  SyncSpec /\ [][NoRestart]_syncVars => []SentArrives
<1>1. SentInv => SentArrives
  BY DEF SentInv
<1>2. SentInv /\ [SyncNext]_syncVars /\ [NoRestart]_syncVars => SentInv'
  BY SentNext
<1>3. SyncInit => SentInv
  BY SentInit
<1>. QED
  BY <1>1, <1>2, <1>3, PTL DEF SyncSpec

-----------------------------------------------------------------------------
(* Quiet peers *)

\* A message to a document with state s asks for changes that s has, and says
\* that the peers have synced up to changes that s has.
Asks(s, need, have) == need \subseteq s.hist /\ \A h \in have : h.last \subseteq s.hist

\* So do the messages on their way and the last one that each peer received.
AllAsked ==
    \A d \in Doc :
        /\ \A i \in 1 .. Len(chan[d]) : Asks(doc[d], chan[d][i].need, chan[d][i].have)
        /\ Asks(doc[d], sync[d].theirNeed, sync[d].theirHave)
        /\ sync[d].theirHeads \subseteq doc[Peer(d)].hist

\* The heads that the other peer sent last are changes of d, or d will hear of
\* them, or d has heard of them and of nothing since.
LastKnown(d) ==
    \/ sync[Peer(d)].lastSent \subseteq doc[d].hist
    \/ chan[d] # <<>> /\ sync[Peer(d)].lastSent = chan[d][Len(chan[d])].heads
    \/ chan[d] = <<>> /\ sync[Peer(d)].lastSent = sync[d].theirHeads

\* The peers do not both wait for an answer with no message on its way.
NotBothWait == (\A d \in Doc : sync[d].inFlight) => \E d \in Doc : chan[d] # <<>>

\* The inductive invariant behind QuietMeansEqual.
QuietInv == SentInv /\ AllAsked /\ (\A d \in Doc : LastKnown(d)) /\ NotBothWait

\* Two histories with each other's heads are the same: of the changes that one
\* has and the other lacks, the last one would be a head.
LEMMA HeadsDecide ==
    ASSUME NEW c, GoodLog(c), NEW s, GoodDoc(c, s), NEW t, GoodDoc(c, t),
           s.heads \subseteq t.hist
    PROVE  s.hist \subseteq t.hist
<1> DEFINE D == s.hist \ t.hist
<1> SUFFICES ASSUME D # {} PROVE FALSE
  OBVIOUS
<1>1. Len(c) \in Nat /\ D \in SUBSET (1 .. Len(c))
  BY DEF GoodLog, GoodDoc, DocStateOf, Names
<1>2. PICK x \in D : \A y \in D : y <= x
  BY <1>1, Largest
<1>3. x \in Deps(c, s.hist)
  BY DEF GoodDoc
<1>4. PICK y \in s.hist : x \in c[y].deps
  BY <1>3, DepsMember
<1>5. y \in Names(c) /\ y \in Nat
  BY DEF GoodDoc, DocStateOf, Names
<1>6. x \in 1 .. (y - 1)
  BY <1>4, <1>5 DEF GoodLog
<1>7. y \notin D
  BY <1>2, <1>5, <1>6
<1>8. x \in Deps(c, t.hist)
  BY <1>4, <1>7, DepsMember
<1>. QED
  BY <1>8 DEF GoodDoc

\* A peer that is asked for changes it has can answer.
LEMMA PayloadHeld ==
    ASSUME NEW c, NEW s, NEW st, st.theirNeed \subseteq s.hist
    PROVE  Payload(c, s, st).hashes \subseteq s.hist
<1>1. GetHashesToSend(c, s, st.theirHave, st.theirNeed) \subseteq s.hist
  BY DEF GetHashesToSend, GetHashes
<1>2. NoPayload.hashes = {} /\ WholeDoc(s).hashes = s.hist
  BY DEF NoPayload, WholeDoc
<1>. QED
  BY <1>1, <1>2 DEF Payload

\* Quiet peers have the same changes: one of them knows that the other has its
\* heads, and has those of the other.
LEMMA QuietIsInSync == QuietInv => QuietMeansEqual
<1> SUFFICES ASSUME QuietInv, Quiet PROVE InSync
  BY DEF QuietMeansEqual
<1>1. /\ GoodLog(chg) /\ (\A d \in Doc : GoodDoc(chg, doc[d])) /\ AllHeld
      /\ sync \in [Doc -> AnyState]
  BY DEF QuietInv, SentInv, SharedInv, GoodState, SyncTypes
<1>2. ASSUME NEW d \in Doc
      PROVE  /\ chan[d] = <<>> /\ sync[d].lastSent = doc[d].heads
             /\ sync[d].theirHeads = doc[d].heads \/ sync[d].inFlight
  <2>1. Payload(chg, doc[d], sync[d]).hashes \subseteq doc[d].hist
    BY PayloadHeld DEF QuietInv, AllAsked, Asks
  <2>. QED
    BY <2>1 DEF Quiet, NothingToSend
<1>3. PICK d \in Doc : sync[d].theirHeads = doc[d].heads
  BY <1>2 DEF QuietInv, NotBothWait
<1> DEFINE q == Peer(d)
<1>4. q \in Doc /\ \A e \in Doc : e = d \/ e = q
  BY PeerFacts
<1>5. doc[d].heads \subseteq doc[q].hist
  BY <1>3 DEF QuietInv, AllAsked
<1>6. doc[q].heads \subseteq doc[d].hist
  <2>1. doc[d].heads \subseteq doc[d].hist
    BY <1>1 DEF GoodDoc
  <2>2. LastKnown(d)
    BY DEF QuietInv
  <2>. QED
    BY <1>2, <1>3, <1>4, <2>1, <2>2 DEF LastKnown
<1>7. doc[d].hist = doc[q].hist
  <2> HIDE DEF q
  <2>1. GoodDoc(chg, doc[d]) /\ GoodDoc(chg, doc[q])
    BY <1>1, <1>4
  <2>2. doc[d].hist \subseteq doc[q].hist
    BY <1>1, <1>5, <2>1, HeadsDecide
  <2>3. doc[q].hist \subseteq doc[d].hist
    BY <1>1, <1>6, <2>1, HeadsDecide
  <2>. QED
    BY <2>2, <2>3
<1>8. \A e, f \in Doc : doc[e].hist = doc[f].hist
  BY <1>4, <1>7
<1>9. ASSUME NEW e \in Doc PROVE doc[e].queue = {}
  <2>1. doc[e].queue \subseteq Made /\ doc[e].hist \cap doc[e].queue = {}
    BY <1>1 DEF GoodDoc, DocStateOf, Names, Made
  <2>. QED
    BY <1>1, <1>8, <2>1 DEF AllHeld
<1>. QED
  BY <1>8, <1>9 DEF InSync

\* The parts of the invariant that grow with the documents.
LEMMA AsksStay ==
    ASSUME Grows, NEW d \in Doc, NEW need, NEW have, Asks(doc[d], need, have)
    PROVE  Asks(doc'[d], need, have)
BY DEF Asks, Grows

\* A step that leaves messages and sync states alone.
LEMMA QuietFrame ==
    ASSUME QuietInv, Grows, sync' = sync, chan' = chan
    PROVE  AllAsked' /\ (\A d \in Doc : LastKnown(d)') /\ NotBothWait'
<1>1. AllAsked'
  <2> SUFFICES ASSUME NEW d \in Doc
               PROVE  /\ \A i \in 1 .. Len(chan[d]) :
                            Asks(doc'[d], chan[d][i].need, chan[d][i].have)
                      /\ Asks(doc'[d], sync[d].theirNeed, sync[d].theirHave)
                      /\ sync[d].theirHeads \subseteq doc'[Peer(d)].hist
    BY DEF AllAsked
  <2>1. sync[d].theirHeads \subseteq doc'[Peer(d)].hist
    BY PeerFacts DEF QuietInv, AllAsked, Grows
  <2>. QED
    BY <2>1, AsksStay DEF QuietInv, AllAsked
<1>2. \A d \in Doc : LastKnown(d)'
  BY DEF QuietInv, LastKnown, Grows
<1>3. NotBothWait'
  BY DEF QuietInv, NotBothWait
<1>. QED
  BY <1>1, <1>2, <1>3

\* What a document asks for is in the other one: every change is in one of them.
LEMMA NeedHeld ==
    ASSUME QuietInv, NEW d \in Doc, NEW s, Begins(d, chg', s)
    PROVE  GetMissingDeps(chg', s, sync[d].theirHeads) \subseteq doc[Peer(d)].hist
<1>1. SharedInv /\ GoodState
  BY DEF QuietInv, SentInv, SharedInv
<1>2. GoodLog(chg') /\ GoodDoc(chg', s)
  BY <1>1, BeginsGood
<1>3. Deps(chg', s.queue) \subseteq Names(chg')
  <2> SUFFICES ASSUME NEW y \in s.queue, NEW x \in chg'[y].deps PROVE x \in Names(chg')
    BY DepsMember
  <2>1. y \in Names(chg') /\ Len(chg') \in Nat
    BY <1>2 DEF GoodDoc, DocStateOf, GoodLog
  <2>2. x \in 1 .. (y - 1)
    BY <1>2, <2>1 DEF GoodLog
  <2>. QED
    BY <2>1, <2>2 DEF Names
<1>4. Deps(chg', s.queue) \ s.hist \subseteq doc[Peer(d)].hist
  BY <1>1, <1>3, ReceivedIsHeld
<1>. QED
  BY <1>4 DEF GetMissingDeps, QuietInv, AllAsked

\* GenerateMessage asks for changes that the peer has, sends its heads, and
\* waits for an answer only after it has sent a message.  It never resets.
LEMMA GenerateQuiet ==
    ASSUME QuietInv, NEW d \in Doc, GenerateMessage(d)
    PROVE  AllAsked' /\ (\A e \in Doc : LastKnown(e)') /\ NotBothWait'
<1> DEFINE s  == Closed(doc[d])
           c  == ClosedLog(doc[d])
           st == sync[d]
           p  == Payload(c, s, st)
           q  == Peer(d)
           m  == Generated(c, s, st, p)
           u  == AfterGenerate(s, st, p)
<1>1. /\ SharedInv /\ GoodState /\ SyncTypes /\ st \in AnyState
      /\ q \in Doc /\ q # d /\ Peer(q) = d /\ \A e \in Doc : e = d \/ e = q
  BY PeerFacts DEF QuietInv, SentInv, SharedInv, SyncTypes
<1>2. GoodState' /\ Grows /\ chg' = c /\ doc'[d] = s /\ Begins(d, c, s)
  BY <1>1, GenerateDocs, ClosedBegins
<1>3. GoodLog(c) /\ GoodDoc(c, s)
  BY <1>2 DEF GoodState
<1>4. ~MustReset(s, st)
  BY <1>2 DEF MustReset, QuietInv, AllAsked, Asks, Grows
<1>5. \/ /\ p.hashes \subseteq s.hist /\ sync' = [sync EXCEPT ![d] = u]
         /\ chan' = [chan EXCEPT ![q] = Append(@, m)]
      \/ chan' = chan /\ sync' = sync
  BY <1>4 DEF GenerateMessage, NothingToSend
<1>6. CASE chan' = chan /\ sync' = sync
  BY <1>2, <1>6, QuietFrame
<1>7. CASE /\ p.hashes \subseteq s.hist /\ sync' = [sync EXCEPT ![d] = u]
           /\ chan' = [chan EXCEPT ![q] = Append(@, m)]
  <2>1. m \in AnyMessage /\ m.heads = s.heads /\ u \in AnyState
    <3> HIDE DEF s, c, p
    <3>. QED
      BY <1>1, <1>3, <1>7, GeneratedType DEF SyncTypes, p
  <2>2. /\ u.lastSent = s.heads /\ u.theirHeads = st.theirHeads
        /\ u.theirNeed = st.theirNeed /\ u.theirHave = st.theirHave
    BY <1>1 DEF AfterGenerate, AnyState
  <2>3. Asks(doc[q], m.need, m.have)
    <3>1. m.need \subseteq doc[q].hist
      BY <1>2, NeedHeld DEF Generated
    <3>2. \A h \in m.have : h.last = st.shared
      <4> HIDE DEF s, c, p, st
      <4>1. m.have \subseteq {MakeBloomFilter(c, s, st)}
        BY DEF Generated
      <4>2. MakeBloomFilter(c, s, st).last = st.shared
        BY DEF MakeBloomFilter
      <4>. QED
        BY <4>1, <4>2
    <3>. QED
      BY <1>1, <3>1, <3>2 DEF Asks, SharedInv, SharedIsShared
  <2> HIDE DEF m, u, s, c, p
  <2>4. chan[q] \in Seq(AnyMessage) /\ Len(chan[q]) \in Nat
    BY <1>1 DEF SyncTypes
  <2>5. /\ chan'[q] = Append(chan[q], m) /\ chan'[d] = chan[d]
        /\ sync'[d] = u /\ sync'[q] = sync[q]
    BY <1>1, <1>7 DEF SyncTypes
  <2>6. /\ chan'[q] # <<>> /\ chan'[q][Len(chan'[q])] = m
        /\ \A i \in 1 .. Len(chan'[q]) :
              chan'[q][i] = m \/ (i \in 1 .. Len(chan[q]) /\ chan'[q][i] = chan[q][i])
    BY <2>4, <2>5
  <2>7. /\ \A i \in 1 .. Len(chan'[q]) : Asks(doc'[q], chan'[q][i].need, chan'[q][i].have)
        /\ \A i \in 1 .. Len(chan'[d]) : Asks(doc'[d], chan'[d][i].need, chan'[d][i].have)
    BY <1>1, <1>2, <2>3, <2>5, <2>6, AsksStay DEF QuietInv, AllAsked
  <2>8. \A e \in Doc : /\ sync'[e].theirNeed = sync[e].theirNeed
                      /\ sync'[e].theirHave = sync[e].theirHave
                      /\ sync'[e].theirHeads = sync[e].theirHeads
    BY <1>1, <2>2, <2>5
  <2>9. ASSUME NEW e \in Doc
        PROVE  /\ Asks(doc'[e], sync'[e].theirNeed, sync'[e].theirHave)
               /\ sync'[e].theirHeads \subseteq doc'[Peer(e)].hist
    BY <1>2, <2>8, AsksStay, PeerFacts DEF QuietInv, AllAsked, Grows
  <2>10. AllAsked'
    BY <1>1, <2>7, <2>9 DEF AllAsked
  <2>11. LastKnown(q)'
    BY <1>1, <2>1, <2>2, <2>5, <2>6 DEF LastKnown
  <2>12. LastKnown(d)'
    BY <1>2, <2>5, <2>8 DEF QuietInv, LastKnown, Grows
  <2>13. NotBothWait'
    BY <1>1, <2>6 DEF NotBothWait
  <2>. QED
    BY <1>1, <2>10, <2>11, <2>12, <2>13
<1>. QED
  BY <1>5, <1>6, <1>7

\* With one actor per document every message is taken in.
LEMMA ReceiveAll ==
    ASSUME ~ActorReuse, QuietInv, NEW d \in Doc, ReceiveMessage(d), OneState'
    PROVE  \E u : /\ sync' = [sync EXCEPT ![d] = u]
                  /\ u.theirHeads = Head(chan[d]).heads /\ u.theirNeed = Head(chan[d]).need
                  /\ u.theirHave = Head(chan[d]).have /\ u.inFlight = FALSE
                  /\ \/ u.lastSent = {} \/ u.lastSent = Head(chan[d]).heads
                     \/ u.lastSent = sync[d].lastSent
<1> DEFINE s == Closed(doc[d])
           c == ClosedLog(doc[d])
           m == Head(chan[d])
<1>1. /\ GoodState /\ SyncTypes /\ AllHonest /\ sync[d] \in AnyState /\ chan[d] # <<>>
  BY DEF QuietInv, SentInv, SharedInv, SyncTypes, ReceiveMessage
<1>2. GoodState' /\ Grows /\ chg' = c
  BY <1>1, ReceiveDocs
<1>3. PICK t : /\ doc' = [doc EXCEPT ![d] = t]
               /\ sync' = [sync EXCEPT ![d] =
                     IF t.status = "trapped" \/ (m.chunks /\ DuplicateSeq(c, s, m.changes))
                     THEN [@ EXCEPT !.inFlight = FALSE]
                     ELSE AfterReceive(c, s, t, @, m)]
  BY DEF ReceiveMessage
<1>4. t.status # "trapped"
  <2>1. doc'[d] = t
    BY <1>1, <1>3 DEF GoodState
  <2>. QED
    BY <2>1 DEF OneState, OneInv, Settled
<1>5. ~DuplicateSeq(c, s, m.changes)
  <2>1. m.changes \in SUBSET Names(c)
    BY <1>1, <1>2, HeadFacts, ExtendsNames DEF Honest, Grows
  <2>2. GoodLog(c) /\ Numbered(c) /\ Distinct(c, Names(c)) /\ GoodDoc(c, s)
    BY <1>1, <1>2, ClosedGood DEF OneState, SeqInv, OneInv, GoodState
  <2>. QED
    BY <2>1, <2>2, NoDuplicates
<1> DEFINE u == AfterReceive(c, s, t, sync[d], m)
<1>6. sync' = [sync EXCEPT ![d] = u]
  BY <1>3, <1>4, <1>5
<1> HIDE DEF s, c, m
<1>7. /\ u.theirHeads = m.heads /\ u.theirNeed = m.need /\ u.theirHave = m.have
      /\ u.inFlight = FALSE
  BY <1>1 DEF AfterReceive, AnyState
<1>8. u.lastSent = {} \/ u.lastSent = m.heads \/ u.lastSent = sync[d].lastSent
  <2> DEFINE lastSent == IF m.heads = {} THEN {}
                         ELSE IF ~m.chunks /\ m.heads = s.heads THEN m.heads
                         ELSE sync[d].lastSent
  <2>1. u.lastSent = lastSent
    BY <1>1 DEF AfterReceive, AnyState
  <2>. QED
    BY <2>1
<1> HIDE DEF u
<1>. QED
  BY <1>6, <1>7, <1>8 DEF m

\* ReceiveMessage ends the wait of d, and d has heard of what came last.
LEMMA ReceiveQuiet ==
    ASSUME ~ActorReuse, QuietInv, NEW d \in Doc, ReceiveMessage(d), OneState'
    PROVE  AllAsked' /\ (\A e \in Doc : LastKnown(e)') /\ NotBothWait'
<1> DEFINE q == Peer(d)
           m == Head(chan[d])
<1>1. /\ GoodState /\ SyncTypes /\ AllHonest /\ AllAsked
      /\ q \in Doc /\ q # d /\ Peer(q) = d /\ \A e \in Doc : e = d \/ e = q
  BY PeerFacts DEF QuietInv, SentInv, SharedInv
<1>2. Grows
  BY <1>1, ReceiveDocs
<1>3. PICK u : /\ sync' = [sync EXCEPT ![d] = u]
               /\ u.theirHeads = m.heads /\ u.theirNeed = m.need
               /\ u.theirHave = m.have /\ u.inFlight = FALSE
               /\ u.lastSent = {} \/ u.lastSent = m.heads \/ u.lastSent = sync[d].lastSent
  BY ReceiveAll
<1>4. chan[d] # <<>> /\ chan' = [chan EXCEPT ![d] = Tail(@)]
  BY DEF ReceiveMessage
<1>5. /\ chan'[d] = Tail(chan[d]) /\ chan'[q] = chan[q]
      /\ sync'[d] = u /\ sync'[q] = sync[q]
  BY <1>1, <1>3, <1>4 DEF SyncTypes
<1>6. /\ m = chan[d][1] /\ 1 \in 1 .. Len(chan[d]) /\ m.heads \subseteq doc[q].hist
      /\ \A i \in 1 .. Len(chan'[d]) :
            i + 1 \in 1 .. Len(chan[d]) /\ chan'[d][i] = chan[d][i + 1]
  BY <1>1, <1>4, <1>5, HeadFacts DEF Honest
<1>7. Asks(doc[d], m.need, m.have)
  BY <1>1, <1>6 DEF AllAsked
<1>8. /\ chan'[d] \in Seq(AnyMessage) /\ Len(chan'[d]) = Len(chan[d]) - 1
       /\ Len(chan[d]) \in Nat
  BY <1>1, <1>4, <1>5, HeadFacts DEF SyncTypes
<1> HIDE DEF m
<1>9. AllAsked'
  <2>1. /\ \A i \in 1 .. Len(chan'[d]) : Asks(doc'[d], chan'[d][i].need, chan'[d][i].have)
        /\ \A i \in 1 .. Len(chan'[q]) : Asks(doc'[q], chan'[q][i].need, chan'[q][i].have)
    BY <1>1, <1>2, <1>5, <1>6, AsksStay DEF AllAsked
  <2>2. /\ Asks(doc'[d], sync'[d].theirNeed, sync'[d].theirHave)
        /\ Asks(doc'[q], sync'[q].theirNeed, sync'[q].theirHave)
    BY <1>1, <1>2, <1>3, <1>5, <1>7, AsksStay DEF AllAsked
  <2>3. /\ sync'[d].theirHeads \subseteq doc'[q].hist
        /\ sync'[q].theirHeads \subseteq doc'[d].hist
    BY <1>1, <1>2, <1>3, <1>5, <1>6 DEF AllAsked, Grows
  <2>. QED
    BY <1>1, <2>1, <2>2, <2>3 DEF AllAsked
<1>10. LastKnown(d)'
  <2>1. CASE sync[q].lastSent \subseteq doc[d].hist
    BY <1>2, <1>5, <2>1 DEF LastKnown, Grows
  <2>2. CASE sync[q].lastSent = chan[d][Len(chan[d])].heads
    <3>1. Len(chan'[d]) \in Nat
      BY <1>8
    <3>2. CASE Len(chan[d]) = 1
      <4>1. chan'[d] = <<>>
        BY <1>8, <3>2
      <4>. QED
        BY <1>3, <1>5, <1>6, <2>2, <3>2, <4>1 DEF LastKnown
    <3>3. CASE Len(chan[d]) # 1
      <4>1. chan'[d] # <<>> /\ chan'[d][Len(chan'[d])] = chan[d][Len(chan[d])]
        <5> DEFINE n == Len(chan'[d])
        <5>1. \A a, b \in Nat : b = a - 1 /\ a # 1 => b \in 1 .. b /\ b + 1 = a
          OBVIOUS
        <5>2. n \in 1 .. n /\ n + 1 = Len(chan[d])
          BY <1>8, <3>1, <3>3, <5>1
        <5>. QED
          BY <1>6, <5>2
      <4>. QED
        BY <1>5, <2>2, <4>1 DEF LastKnown
    <3>. QED
      BY <3>2, <3>3
  <2>. QED
    BY <1>4, <2>1, <2>2 DEF QuietInv, LastKnown
<1>11. LastKnown(q)'
  <2>1. LastKnown(q)
    BY <1>1 DEF QuietInv
  <2>2. CASE u.lastSent \subseteq doc[q].hist
    BY <1>1, <1>2, <1>5, <2>2 DEF LastKnown, Grows
  <2>3. CASE u.lastSent = sync[d].lastSent
    BY <1>1, <1>2, <1>5, <2>1, <2>3 DEF LastKnown, Grows
  <2>. QED
    BY <1>3, <1>6, <2>2, <2>3
<1>12. NotBothWait'
  BY <1>3, <1>5 DEF NotBothWait
<1>. QED
  BY <1>1, <1>9, <1>10, <1>11, <1>12

\* The other steps send nothing; a new connection forgets all but what is shared.
LEMMA OtherQuiet ==
    ASSUME QuietInv, Grows, NEW d \in Doc,
           Write(d) \/ KeepDoc(d) \/ KeepSync(d) \/ Reconnect \/ UNCHANGED syncVars
    PROVE  AllAsked' /\ (\A e \in Doc : LastKnown(e)') /\ NotBothWait'
<1>1. CASE sync' = sync /\ chan' = chan
  BY <1>1, QuietFrame
<1>2. CASE Reconnect
  <2>1. \A e \in Doc : /\ chan'[e] = <<>> /\ sync'[e].lastSent = {}
                      /\ sync'[e].theirHeads = {} /\ sync'[e].theirNeed = {}
                      /\ sync'[e].theirHave = {} /\ sync'[e].inFlight = FALSE
    BY <1>2 DEF Reconnect, LoadSyncState
  <2>2. AllAsked'
    BY <2>1 DEF AllAsked, Asks
  <2>3. (\A e \in Doc : LastKnown(e)') /\ NotBothWait'
    BY <2>1, PeerFacts DEF LastKnown, NotBothWait
  <2>. QED
    BY <2>2, <2>3
<1>. QED
  BY <1>1, <1>2 DEF Write, KeepDoc, KeepSync, syncVars

\* Every step but a restart keeps the invariant.
LEMMA QuietNext ==
    ASSUME ~ActorReuse, QuietInv, [SyncNext]_syncVars, [NoRestart]_syncVars
    PROVE  QuietInv'
<1>1. SentInv' /\ OneState' /\ Grows
  BY SentNext, SyncDocs DEF QuietInv, SentInv
<1>2. AllAsked' /\ (\A e \in Doc : LastKnown(e)') /\ NotBothWait'
  BY <1>1, SyncSteps, GenerateQuiet, ReceiveQuiet, OtherQuiet
<1>. QED
  BY <1>1, <1>2 DEF QuietInv

\* Nobody has sent anything at first.
LEMMA QuietInit ==
    ASSUME ~ActorReuse, SyncInit
    PROVE  QuietInv
<1>1. SentInv
  BY SentInit
<1>2. \A e \in Doc : /\ chan[e] = <<>> /\ sync[e].lastSent = {}
                    /\ sync[e].theirHeads = {} /\ sync[e].theirNeed = {}
                    /\ sync[e].theirHave = {} /\ sync[e].inFlight = FALSE
  BY DEF SyncInit, NewSyncState, LoadSyncState
<1>3. AllAsked
  BY <1>2 DEF AllAsked, Asks
<1>4. (\A e \in Doc : LastKnown(e)) /\ NotBothWait
  <2>1. Doc # {}
    BY SyncAssumption, FS_EmptySet
  <2>. QED
    BY <1>2, <2>1, PeerFacts DEF LastKnown, NotBothWait
<1>. QED
  BY <1>1, <1>3, <1>4 DEF QuietInv

\* As long as no process comes back with an older file, and the documents have
\* actors of their own, two peers that have nothing to send to each other have
\* the same changes, whatever false positives their filters had and however
\* often the connection was lost.
THEOREM QuietPeersAgree ==
    ASSUME ~ActorReuse
    PROVE  SyncSpec /\ [][NoRestart]_syncVars => []QuietMeansEqual
<1>1. QuietInv => QuietMeansEqual
  BY QuietIsInSync
<1>2. QuietInv /\ [SyncNext]_syncVars /\ [NoRestart]_syncVars => QuietInv'
  BY QuietNext
<1>3. SyncInit => QuietInv
  BY QuietInit
<1>. QED
  BY <1>1, <1>2, <1>3, PTL DEF SyncSpec

=============================================================================
