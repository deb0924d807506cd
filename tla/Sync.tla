-------------------------------- MODULE Sync --------------------------------
(***************************************************************************)
(* Two documents that sync: SyncState of sync_state.go, the am_sync_*      *)
(* exports behind it (wasi/src/sync.rs) and the protocol of the engine     *)
(* (wasi/vendor/automerge/src/sync.rs), over the change histories of       *)
(* DocHistory.  Each peer holds one SyncState.  A call holds the lock of   *)
(* its document, so that a call is one step.  Messages travel in order and *)
(* are lost only with the connection, after which both peers resume from   *)
(* saved states; a process may also stop and come back with an older file. *)
(*                                                                         *)
(* A Bloom filter is the set of the changes that it says it contains.  It  *)
(* is exact but for a few false positives, the worst case for the peers:   *)
(* every filter with an entry claims them, whatever they ask for.          *)
(*                                                                         *)
(* A definition whose comment starts with "Fault" is a wrong variant of    *)
(* the definition after it, put in its place to see a property notice.     *)
(***************************************************************************)
EXTENDS DocHistory

CONSTANTS
    MaxChan,    \* bound: messages on their way to one peer
    MaxBreaks,  \* bound: lost connections and restarts in a behaviour
    MaxFalse    \* bound: false positives of the Bloom filters

ASSUME SyncAssumption ==
    /\ IsFiniteSet(Doc) /\ Cardinality(Doc) = 2
    /\ MaxChan \in Nat \ {0} /\ MaxBreaks \in Nat /\ MaxFalse \in Nat

VARIABLES
    sync,    \* the sync state that each peer has for the other one
    chan,    \* chan[d]: the messages on their way to d
    kept,    \* what the process of d would find on its disk
    breaks,  \* lost connections and restarts so far
    false    \* false positives, which may be changes that are not made yet

syncVars == <<vars, sync, chan, kept, breaks, false>>

Peer(d) == CHOOSE p \in Doc : p # d

-----------------------------------------------------------------------------
(* States and messages *)

\* What a peer says it has: heads at the last sync, and a filter for the rest.
Have == [last : SUBSET Made, bloom : SUBSET (1 .. MaxChanges)]

\* chunks: the message has bytes to load; they encode changes.
Message == [heads : SUBSET Made, need : SUBSET Made, have : SUBSET Have,
            chunks : BOOLEAN, changes : SUBSET Made]

\* heard: their_heads, their_need and their_have come from a message.  Every
\* message lists the capability for V2, so heard also says that V2 is known.
SyncState == [shared : SUBSET Made, lastSent : SUBSET Made, heard : BOOLEAN,
              theirHeads : SUBSET Made, theirNeed : SUBSET Made,
              theirHave : SUBSET Have, sent : SUBSET Made,
              inFlight : BOOLEAN, responded : BOOLEAN]

\* State::decode of an encoded state: shared_heads is all that is kept.
LoadSyncState(shared) ==
    [shared |-> shared, lastSent |-> {}, heard |-> FALSE, theirHeads |-> {},
     theirNeed |-> {}, theirHave |-> {}, sent |-> {}, inFlight |-> FALSE,
     responded |-> FALSE]

NewSyncState == LoadSyncState({})

-----------------------------------------------------------------------------
(* Generating a message.  c is the log of changes, s the document and st   *)
(* the sync state.                                                         *)

\* Fault: only the peer's heads are asked for, not what the queue waits for.
GetMissingDepsOfHeads(c, s, heads) == (heads \ s.hist) \ s.queue

\* The changes that the queue or the peer's heads call for.
GetMissingDeps(c, s, heads) == ((Deps(c, s.queue) \cup heads) \ s.hist) \ s.queue

\* get_hashes: the history without the ancestors of heads.
GetHashes(c, s, heads) == s.hist \ Ancestors(c, s.hist, heads)

\* Fault: the changes that the peer asked for are left out.
GetHashesToSendUnasked(c, s, have, need) ==
    LET hashes == GetHashes(c, s, UNION {h.last : h \in have})
        direct == {x \in hashes : \A h \in have : x \notin h.bloom}
    IN {y \in hashes : Ancestors(c, s.hist, {y}) \cap direct # {}}

\* What the filters do not contain, with all that depends on it, and the
\* changes the peer asked for, which this document need not have.
GetHashesToSend(c, s, have, need) ==
    IF have = {} THEN need
    ELSE LET hashes == GetHashes(c, s, UNION {h.last : h \in have})
             direct == {x \in hashes : \A h \in have : x \notin h.bloom}
         IN need \cup
            {y \in hashes : Ancestors(c, s.hist, {y}) \cap direct # {}}

NoPayload == [chunks |-> FALSE, changes |-> {}, hashes |-> {}]

\* The bytes of save(), with the queue.
WholeDoc(s) ==
    [chunks |-> TRUE, changes |-> FileChanges(SavedFile(s)), hashes |-> s.hist]

\* The changes of a message: the whole document for a peer without changes,
\* or when more than a third of it would go out.
Payload(c, s, st) ==
    LET hashes == GetHashesToSend(c, s, st.theirHave, st.theirNeed) \ st.sent
    IN IF ~st.heard THEN NoPayload
       ELSE IF \/ st.theirHeads = {}
               \/ Cardinality(hashes) > Cardinality(s.hist) \div 3
       THEN WholeDoc(s)
       ELSE [chunks |-> hashes # {}, changes |-> hashes, hashes |-> hashes]

\* The filter for what this document has beyond the shared heads.
MakeBloomFilter(c, s, st) ==
    LET entries == GetHashes(c, s, st.shared)
    IN [last |-> st.shared,
        bloom |-> IF entries = {} THEN {} ELSE entries \cup false]

\* The peer has synced up to changes that this document does not have.
MustReset(s, st) == \E h \in st.theirHave : ~(h.last \subseteq s.hist)

\* Message::reset: it asks for everything.
Reset(s) == [heads |-> s.heads, need |-> {}, chunks |-> FALSE, changes |-> {},
             have |-> {[last |-> {}, bloom |-> {}]}]

\* Fault: no message, although the peer's heads are not ours.
NothingToSendUnequal(s, st, p) ==
    /\ st.lastSent = s.heads /\ st.responded
    /\ p.hashes = {} \/ st.inFlight

\* No message: the peer has our heads and wants nothing, or must answer first,
\* or asks for a change that this document does not have.
NothingToSend(s, st, p) ==
    \/ ~(p.hashes \subseteq s.hist)
    \/ /\ st.lastSent = s.heads /\ st.responded
       /\ \/ st.heard /\ st.theirHeads = s.heads /\ p.hashes = {}
          \/ st.inFlight

\* The message that goes out with payload p.
Generated(c, s, st, p) ==
    LET need == GetMissingDeps(c, s, st.theirHeads)
    IN [heads |-> s.heads, need |-> need,
        have  |-> IF need \subseteq st.theirHeads
                  THEN {MakeBloomFilter(c, s, st)} ELSE {},
        chunks |-> p.chunks, changes |-> p.changes]

\* Fault: the whole history counts as sent with every message.
AfterGenerateAllSent(s, st, p) ==
    [st EXCEPT !.responded = TRUE, !.lastSent = s.heads, !.inFlight = TRUE,
               !.sent = @ \cup s.hist]

AfterGenerate(s, st, p) ==
    [st EXCEPT !.responded = TRUE, !.lastSent = s.heads, !.inFlight = TRUE,
               !.sent = @ \cup p.hashes]

-----------------------------------------------------------------------------
(* Receiving a message *)

AdvanceHeads(old, new, shared) == (new \ old) \cup (shared \cap new)

\* Fault: the flag for a message in flight is not cleared.
AfterReceiveInFlight(c, s, t, st, m) ==
    LET known == m.heads \cap t.hist
    IN [st EXCEPT
          !.shared = IF m.heads \subseteq t.hist THEN m.heads ELSE @ \cup known,
          !.sent = @ \ Ancestors(c, t.hist, known), !.heard = TRUE,
          !.theirHeads = m.heads, !.theirNeed = m.need, !.theirHave = m.have]

\* Fault: the peer's heads count as shared, known here or not.
AfterReceiveTrusts(c, s, t, st, m) ==
    [st EXCEPT !.inFlight = FALSE, !.shared = m.heads, !.heard = TRUE,
               !.sent = @ \ Ancestors(c, t.hist, m.heads \cap t.hist),
               !.theirHeads = m.heads, !.theirNeed = m.need, !.theirHave = m.have]

\* The sync state after message m, which found the document as s and left it
\* as t.
AfterReceive(c, s, t, st, m) ==
    LET known    == m.heads \cap t.hist
        advanced == IF m.chunks THEN AdvanceHeads(s.heads, t.heads, st.shared)
                    ELSE st.shared
        all      == m.heads \subseteq t.hist
        lost     == m.heads = {}
    IN [st EXCEPT
          !.inFlight   = FALSE,
          !.shared     = IF all THEN m.heads ELSE advanced \cup known,
          !.lastSent   = IF lost THEN {}
                         ELSE IF ~m.chunks /\ m.heads = s.heads THEN m.heads ELSE @,
          !.sent       = IF lost THEN {}
                         ELSE @ \ Ancestors(c, t.hist, known),
          !.heard      = TRUE,
          !.theirHeads = m.heads,
          !.theirNeed  = m.need,
          !.theirHave  = m.have]

\* The document after the bytes of m, as LoadIncremental leaves it.
Incremented(c, s, m) ==
    IF ~m.chunks THEN {s}
    ELSE IF DuplicateSeq(c, s, m.changes) /\ s.hist = {} /\ s.queue = {} THEN {s}
    ELSE BatchOutcomes(c, s, m.changes)

-----------------------------------------------------------------------------

SyncInit ==
    /\ chg = <<>>
    /\ \E act \in [Doc -> Actor] :
          /\ ActorReuse \/ \A d, e \in Doc : d # e => act[d] # act[e]
          /\ doc = [d \in Doc |-> Blank(act[d])]
    /\ rest = [d \in Doc |-> <<>>]
    /\ snap = [d \in Doc |-> NoFile]
    /\ disk = {}
    /\ sync = [d \in Doc |-> NewSyncState]
    /\ chan = [d \in Doc |-> <<>>]
    /\ kept = [d \in Doc |-> [file |-> SavedFile(doc[d]), shared |-> {}]]
    /\ breaks = 0
    /\ false \in {F \in SUBSET (1 .. MaxChanges) : Cardinality(F) <= MaxFalse}

\* The calls of the document that make changes.  The bound leaves room for
\* every open transaction.
Write(d) ==
    /\ \/ /\ Len(chg) + Cardinality({e \in Doc : doc[e].pending}) < MaxChanges
          /\ Edit(d)
       \/ Commit(d, FALSE)
    /\ UNCHANGED <<sync, chan, kept, breaks, false>>

\* Every call closes the open transaction, also one that has no message.  A
\* reset leaves the sync state as it is.
GenerateMessage(d) ==
    LET s  == Closed(doc[d])
        c  == ClosedLog(doc[d])
        st == sync[d]
        p  == Payload(c, s, st)
        Send(m) == chan' = [chan EXCEPT ![Peer(d)] = Append(@, m)]
    IN /\ Free(d)
       /\ CanClose(doc[d])
       /\ Len(chan[Peer(d)]) < MaxChan
       /\ chg' = c
       /\ doc' = [doc EXCEPT ![d] = s]
       /\ \/ MustReset(s, st) /\ Send(Reset(s)) /\ UNCHANGED sync
          \/ /\ ~MustReset(s, st) /\ ~NothingToSend(s, st, p)
             /\ Send(Generated(c, s, st, p))
             /\ sync' = [sync EXCEPT ![d] = AfterGenerate(s, st, p)]
          \/ ~MustReset(s, st) /\ NothingToSend(s, st, p) /\ UNCHANGED <<sync, chan>>
       /\ UNCHANGED <<rest, snap, disk, kept, breaks, false>>

\* An error of the load comes after in_flight was cleared, and ends the call.
ReceiveMessage(d) ==
    LET s == Closed(doc[d])
        c == ClosedLog(doc[d])
        m == Head(chan[d])
    IN /\ Free(d)
       /\ CanClose(doc[d])
       /\ chan[d] # <<>>
       /\ chan' = [chan EXCEPT ![d] = Tail(@)]
       /\ chg' = c
       /\ \E t \in Incremented(c, s, m) :
             /\ doc' = [doc EXCEPT ![d] = t]
             /\ sync' = [sync EXCEPT ![d] =
                   IF t.status = "trapped" \/ (m.chunks /\ DuplicateSeq(c, s, m.changes))
                   THEN [@ EXCEPT !.inFlight = FALSE]
                   ELSE AfterReceive(c, s, t, @, m)]
       /\ UNCHANGED <<rest, snap, disk, kept, breaks, false>>

\* The program saves its document, or its sync state, in either order.  What
\* is saved after the last break of the bound would never be used.
KeepDoc(d) ==
    /\ breaks < MaxBreaks
    /\ Free(d)
    /\ CanClose(doc[d])
    /\ chg' = ClosedLog(doc[d])
    /\ doc' = [doc EXCEPT ![d] = Saved(doc[d])]
    /\ kept' = [kept EXCEPT ![d].file = SavedFile(Saved(doc[d]))]
    /\ UNCHANGED <<rest, snap, disk, sync, chan, breaks, false>>

KeepSync(d) ==
    /\ breaks < MaxBreaks
    /\ Free(d)
    /\ kept' = [kept EXCEPT ![d].shared = sync[d].shared]
    /\ UNCHANGED <<vars, sync, chan, breaks, false>>

\* A connection ends with the messages on their way; both peers resume from
\* their sync states.
Reconnect ==
    /\ breaks < MaxBreaks
    /\ breaks' = breaks + 1
    /\ sync' = [d \in Doc |-> LoadSyncState(sync[d].shared)]
    /\ chan' = [d \in Doc |-> <<>>]
    /\ UNCHANGED <<vars, kept, false>>

\* The process of d stops and starts again from what it saved.
Restart(d) ==
    /\ breaks < MaxBreaks
    /\ breaks' = breaks + 1
    /\ \E a \in Actor : FreshActor(a)
    /\ LET a == CHOOSE a \in Actor : FreshActor(a)
       IN /\ CanLoad(chg, kept[d].file, a)
          /\ doc' = [doc EXCEPT ![d] = Loaded(chg, kept[d].file, a)]
    /\ sync' = [[e \in Doc |-> LoadSyncState(sync[e].shared)] EXCEPT
                  ![d] = LoadSyncState(kept[d].shared)]
    /\ chan' = [e \in Doc |-> <<>>]
    /\ UNCHANGED <<chg, rest, snap, disk, kept, false>>

Syncing(d) == GenerateMessage(d) \/ ReceiveMessage(d)

SyncNext ==
    \/ \E d \in Doc : Write(d) \/ Syncing(d)
    \/ \E d \in Doc : KeepDoc(d) \/ KeepSync(d)
    \/ Reconnect
    \/ \E d \in Doc : Restart(d)

SyncSpec == SyncInit /\ [][SyncNext]_syncVars

\* The loop of a program: it receives what has arrived, and asks for the next
\* message after every message and every change.
Fairness ==
    \A d \in Doc :
        WF_syncVars(GenerateMessage(d)) /\ WF_syncVars(ReceiveMessage(d))

FairSync == SyncSpec /\ Fairness

-----------------------------------------------------------------------------
(* Properties *)

InSync == \A d, e \in Doc : doc[d].hist = doc[e].hist /\ doc[d].queue = {}

\* Neither peer has anything to send, and nothing is on its way.
Quiet ==
    \A d \in Doc :
        /\ chan[d] = <<>>
        /\ ~doc[d].pending
        /\ ~MustReset(doc[d], sync[d])
        /\ NothingToSend(doc[d], sync[d], Payload(chg, doc[d], sync[d]))

\* When GenerateMessage has nothing for either peer and no message is on its
\* way, the two documents have the same changes: the peers never wait for
\* each other with a change left to transfer.
QuietMeansEqual == Quiet => InSync

\* The shared heads of a sync state ("The hashes which we know both peers
\* have") are changes of both documents, also while messages are on their way.
SharedIsShared ==
    \A d, e \in Doc : sync[d].shared \subseteq doc[e].hist

\* A change that a peer remembers as sent, and will not send again, has
\* reached the other document or is on its way to it.
SentArrives ==
    \A d \in Doc :
        sync[d].sent \subseteq doc[Peer(d)].hist \cup doc[Peer(d)].queue
            \cup UNION {chan[Peer(d)][i].changes : i \in 1 .. Len(chan[Peer(d)])}

\* If changes stop being made and connections stop being lost, the documents
\* come to have the same changes, and stay so.
Converges == <>[]InSync

=============================================================================
