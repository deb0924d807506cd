# A TLA+ model of automerge-go

automerge-go lets Go programs use automerge documents.  The CRDT engine is
automerge-rs, vendored under `wasi/vendor/automerge`, compiled to WASM behind a
C interface (`wasi/src`) and run by wazero (`internal/wazero`).  This directory
holds TLA+ specifications of the parts that are hard to get right, the TLC
configurations that check them, and proofs for TLAPS.  Paths below are relative
to the repository.

## 1. The system

| Component | State | Operations | Interacts with |
|---|---|---|---|
| `Doc` (`doc.go`) | a mutex, a WASM instance, `closed` | New, Load, Save, SaveIncremental, LoadIncremental, Commit, Heads, Change, Changes, Apply, Fork, Merge, ActorID, SetActorID, Close | every method locks the mutex and makes one or more engine calls; Merge locks two documents one after the other |
| Engine calls (`internal/wazero/wazero.go`, `wasi/src/state.rs`) | `DOC`, `RETURN_BUF`, `LAST_ERROR`, the handle table, guest memory | allocate, call, copy the return buffer, ask for the last error, free | used by every method; nothing in the instance is safe for concurrent calls |
| Change graph (`wasi/vendor/automerge/src`) | changes with actor, sequence number and dependencies; heads; the queue of orphans; the open transaction; the save cursor | apply a batch, commit, save, load, fork, merge | called through `wasi/src/{document,changes,commit}.rs` |
| `Path` (`path.go`) | a slice of segments | Path, Get, Set, Delete, the ensure functions | reads and creates maps and lists |
| `Map`, `List`, `Counter`, `Text` | a handle, or a path that is resolved at the first write; a counter's key or index | read, write, insert, delete, increment, splice, marks, blocks, cursors | each engine call takes the mutex anew |
| `SyncState` (`sync_state.go`, `wasi/src/sync.rs`) | a peer's sync state inside the instance | GenerateMessage, ReceiveMessage, Save, Load | applies changes to the document |
| Codecs (`internal/backend`, `changes.go`, `wasi/src/value.rs`) | none | values, marks, changes to and from bytes | between Go and the engine |
| Go values (`normalize.go`, `value.go`, `kind.go`) | none | As, conversion by reflection | on top of the codecs |
| `cmd/automerge-debug` | none | prints files | - |

What is hard here: changes arrive in any order, again and again, through four
doors (Apply, LoadIncremental, Merge, sync); most calls silently close the open
transaction first; a call that fails in the middle leaves something behind; two
documents may use one actor id, by SetActorID; Merge holds the bytes of a
document that has moved on; all goroutines of a document share one return
buffer and one error message; a Rust panic leaves the instance unusable; many
methods of List, Text and Path check and act under separate acquisitions of the
mutex; paths share Go slices.  `PROJECT.json` lists these hazards at their
lines, with the properties that watch them.

What makes each component correct:

- history: causally closed, heads maximal, sequence numbers dense, nothing
  accepted is lost, no edit is lost, a merge is complete, saved bytes load;
- engine calls: a method gets its own result and its own error, is not cut
  short, and returns;
- paths: a path keeps pointing where it was made to point;
- maps, lists, texts: a concurrent writer loses nothing it was told is written;
- sync: peers that stop exchanging messages have the same heads, in spite of
  lost messages and restarts;
- codecs: what is encoded is decoded, wrong lengths are refused, and the loops
  end;
- Go values: a number is converted exactly or refused, and a value that is
  written comes back.

## 2. The modules

### DocHistory

The change history behind each document.  `chg` is the sequence of all changes
ever made, by any document; a change's position stands for its hash, so that
equal changes are one change, as equal hashes are in the engine.  `doc[d]` holds
the engine state of a document: `hist` (the change graph), `heads`, `queue`,
`pending` (an open transaction that has operations), `actor`, `cursor` (of
SaveIncremental) and `status`.  `rest[d]` is what is left of an Apply in
progress, `snap[d]` the bytes that a `Merge` into `d` has taken from the other
document, `disk` the bytes callers kept.

| Action | Code |
|---|---|
| `New`, `Load` | `New`, `Load` of doc.go; `load_with_options` |
| `Edit` | any write: it opens a transaction (`ensure_transaction_open`) |
| `Commit` | `Doc.Commit`, with AllowEmpty the fallback to `am_empty_change` |
| `ReadHistory` | Heads, Change, Changes: they close the transaction |
| `Apply`, `ApplyNext` | `am_apply_changes`: a loop of one-change batches; the mutex is held between the iterations, so `Free(d)` fails |
| `Save`, `SaveIncremental`, `LoadIncremental` | the methods and their `AutoCommit` counterparts |
| `Fork` | `Backend.Fork`: save, load in a new instance, fork there |
| `MergeSave`, `MergeApply` | the two halves of `Doc.Merge`, each under its own mutex; `snap[d]` allows one merge into a document at a time to be between them |
| `SetActorID` | closes the transaction, then sets the actor |

`BatchOutcomes` is `apply_changes_batch_log_patches`: the pool of queue and new
changes, the duplicate check with the queue put back on an error, Kahn's
algorithm (`ReadyIn` is its result: the largest part of the pool that is closed
together with the history), and the assertion of `add_changes`.  The order in
which a batch lists its changes decides which of them stay in the queue when one
is refused: `BatchRejected` is the set of what any order can leave.

Bytes are the set of changes they encode, with a mark for a leading document
chunk.  The operations in a change, its message and its time are left out.
`FreshActor` stands for a random actor id: one that nobody has.  With
`ActorReuse = TRUE`, SetActorID may also take one that is in use.  Corrupt bytes
are left out: Load refuses them and changes nothing.

### CausalReplicas

The abstract specification: each document is a growing set of changes that is
closed under causality, and a new change comes after all its document contained.
No queue, heads, numbers or bytes.  `DocHistory!CausalReplication` states that
DocHistory implements it; the causal order it maps to is the transitive closure
of the dependencies.

### WasmCalls

Goroutines that share documents.  `owner[d]` is the mutex, `inst[d]` the
instance: alive, trapped or closed, whose result is in the return buffer, and
whose message is the last error.  `thr[t]` is a goroutine's call: its program
counter, its shape (`Op`) and the document it works on.  Every Go method has one
of seven shapes, according to how it gets its result and its error.  A result
carries the goroutine whose running call made it and becomes `Stale` when that
call returns, so that bytes of an earlier call are told apart from one's own.

### PathSlices

The Go slices behind paths: backing arrays with a capacity, and paths that are
an array and a length.  `append` writes in place when there is room, and copies
otherwise.  `fresh` marks the paths whose append copied and that derive from such
paths only: a path whose array is its own, extended from one that is overwritten
already, copies the wrong segments.  A Get of a map or list at a path writes a
segment, too, through the path it makes for itself.

### SharedObjects

Goroutines that write to one document.  `objs` are the objects of the document
by identity: a map is a cell for every key, a list or a text a sequence of
cells.  An object that is deleted keeps its place: handles still reach it.
`th[t]` is what a goroutine is doing, `held[t]` the objects that its `List` and
`Text` variables have been attached to by a write (0 while they are a path),
`calls[t]` the calls that have returned.  One action is one engine call, which
is what the mutex makes atomic.

| Actions | Code |
|---|---|
| `GetKey`; `GetLen`, `GetAt` | `Map.Get`; `List.Get`, which locks for Len and again for the value.  `Arrived` decides what follows: in mode "read" as `Path.Get` does, in mode "ensure" as `Path.ensure` and the functions `ensureMap` ... `ensureCounter` do |
| `WriteKey` | the set function of ensure for a key; also `Map.Set` and `Map.Delete` after `createOnPath`, which do not read first |
| `WriteBeyond`, `DeleteAtEnd`, `WriteWhich`, then `AppendLen`, `SetLen` or `DropLen`, then `Place` or `Drop` | the set function for an index: it reads Len two or three times, and so does the List method it calls |
| `ClearLen`, `Fill` | the end of `Map.Set` or `List.put` for a `*Text`: `v.Set(v.val)` with the mutex free before and in between |
| `Size`, then `PutItem`, `SpliceText` or `RemoveItem` | the methods of List and Text: `Sized` checks the index against the length that was read.  A List that is a path walks twice, once for Len and once in put.  Insert, Delete and Splice of a Text read no length: their position and count are the caller's, a count below zero deletes nothing, a position below zero is past every end |
| `Inc` | `Counter.Inc` after ensureCounter; a counter in a list is known by an index |

A scalar stands for every kind of value that is put in one call; a `[]any` is
put as an empty list and appended to.  Paths are not empty and start with a key,
since a write through any other fails before it reaches the engine.  Overflow of
a counter is left out.  `FirstObjs` is the document the goroutines start with;
`MCSharedObjects` gives it, and the calls they may make.

The second half of the module is a reference definition of the calls.  `View` is
the document as paths show it; `Expected` and `Succeeds` say what a call does to
a view and when it works, without walks, handles or lengths that are read.

### Sync

Two documents that sync, on top of DocHistory: the module extends it, and its
steps use `Edit`, `Commit`, `Saved`, `Loaded` and `BatchOutcomes` of that module.
`sync[d]` is the engine's `sync::State` for the other peer, `chan[d]` the messages on their way to
`d`, `kept[d]` the last file and the last sync state that `d`'s program saved.

| Action | Code |
|---|---|
| `Write` | the document's own writes and commits |
| `GenerateMessage` | `SyncState.GenerateMessage`, `am_sync_gen_len`, `generate_sync_message`: the transaction is closed, then a reset (`MustReset`), no message (`NothingToSend`) or a message with the changes of `Payload` |
| `ReceiveMessage` | `SyncState.ReceiveMessage`, `receive_sync_message_inner`: `Incremented` loads the bytes, `AfterReceive` updates the sync state; an error of the load leaves only `in_flight` cleared |
| `KeepDoc`, `KeepSync` | `Doc.Save` and `SyncState.Save`, at any time and in either order |
| `Reconnect` | the connection is lost with its messages; both peers go on with LoadSyncState of what they had |
| `Restart` | a process stops and comes back with its last file and its last sync state, which need not belong together |

`Have` is a set of at most one filter, which is what the code sends.  A filter is
the set of changes it claims to contain: what was put in, and `false`, a set that
every filter with entries claims.  That is the worst case, since real false
positives differ from one filter to the next.  An empty filter contains nothing,
as in the code.  Every message lists the V2 capability, so that one flag
(`heard`) says both that a message came and that V2 is known.

Messages arrive in order and none is lost unless the connection is: that is what
the protocol asks for.  A lost message on a connection that goes on leaves
`in_flight` set, and the peers wait for each other.

### Wire

The loops on the Go side that take bytes apart.  A behaviour is one call:
`raw` is its input, `off` the offset it has reached, `out` what it has taken out.
Inputs for LoadChanges are all byte strings up to a length, and longer ones that
start like a chunk; inputs for the other loops are what an encoder wrote
(`packed`), cut at every byte.

Widths are constants: `Base` is 128 in the code (a byte of a uLEB128 has 7 bits of
payload), `Word` 2^64, `MaxLeb` 10, which holds more bits than the word, `Magic` and
the checksum 4 bytes each.  The run has small ones, the proofs are for all of them.
A length before an item and a number of the change info take one place each,
where the code has 4 or 8 bytes.  `ChunkEnd` wraps like
`uint64(off) + length`.  `LengthsFit` says that the chunks the loop comes to end below
the limit of the word: of every offset that has only whole chunks before it and a
header after it.  What the bytes inside a chunk look like does not matter.  Without
it the splitter can panic, on a slice that ends before it starts, or,
where the end wraps to just the offset, take an empty chunk again and again.

### Numbers and GoValues

`Numbers` has Go's conversions between numbers with scaled limits: `Half` is 2^63,
`Exact` 2^53, `Exact32` 2^24.  A number is an integer part and what else it is
(a half, an infinity, NaN), and floats are rounded to the nearest even.  What Go
leaves to the machine, the conversion of a float that is out of range, is
`IntegerOf`, for amd64 and arm64.  `UnmarshalNumber` converts, tests and sets as
`unmarshalNumber` does.

`GoValues` writes a Go value, reads it as a `Value` and converts it with `As`:
`Set` is normalize and the encoding, `Get` the decoding, `As` unmarshal to any
type.  Types and values are records; lists and maps are trees, since
SharedObjects has the calls that build them.  Left out are `*Map` and `*List`
(handles), maps with other keys than strings (refused both ways), Void and
Unknown, and strings that are not UTF-8 (the engine refuses them).
`AsTakesWhatFits` is what the comment on As promises of numbers and is false for
a stored uint64 0 (run `zero`); `AsAccepts` is what holds of all others.

`MCBoundary` puts Wire, GoValues and PathSlices, which share no state and are all
on the Go side, into one specification: a behaviour is a call of Wire, a value of
GoValues, or a program that derives paths.

### Faults

In each module a definition whose comment starts with "Fault" is a wrong variant
of the definition after it, the kind of slip a change of the code could make.
`PROJECT.json` ("mutants") says which property notices which.

## 3. The runs

| Run | Shows | Bounds |
|---|---|---|
| `delivery` | CausallyClosed, HeadsAreMaximal, DenseSeqs, NothingLost, MergeTakesAll | 2 documents, 2 actors that may be shared, 3 changes |
| `files` | TypeOK, EditsBecomeChanges | the same with 2 changes, one byte string, Apply of two changes |
| `distinct` | OrphansOnly, SaveLoads, NoTrap, CausalReplication | 2 documents, 3 actors, never shared, 3 changes |
| `increments` | IncrementsComplete fails: Fork and Merge move the cursor | 3 changes, one byte string |
| `shared` | InsideOwns, OwnResult, NotCutShort, CallsReturn, no deadlock | 2 documents, 2 goroutines, no bound on calls |
| `sole` | TypeOK, CallsDoWhatTheySay, FailuresAreDue | 1 goroutine, 27 different calls, 3 of them in every order, paths of up to 3 segments |
| `sharing` | KindsFit, AppendsKept, IncsAddUp, SetsStick, SlicesStick | 2 goroutines, 11 different calls, 2 each; what is added to is there, and 4 of the calls make one other place different things |
| `parents` | SetsStick fails | 2 goroutines, 1 call each |
| `sync` | QuietMeansEqual, SharedIsShared, SentArrives, Converges | 2 peers, 3 changes, 1 message on its way to each, any one change (or none) a false positive |
| `restarts` | QuietMeansEqual, Converges | 2 peers, 2 changes, 1 lost connection or restart at any point |
| `boundary` | SplitExact, ListsLoseOnlyTheirEnd, InfoWholeOrRefused, AsExact, AsAccepts, RoundTrip, AnyKeepsAll, WireReturns; TypeOK and FreshPathsStable of PathSlices | byte strings of up to 7 bytes (longer ones after the magic or an empty chunk), bytes with 1 bit of payload, words of 4 bits, hashes of 2 bytes, lists of 3 items; 32 types, numbers at every limit; 5 paths of at most 5 segments, 2 segments at a time |
| `zero` | AsTakesWhatFits fails: a uint64 0 is refused | those of `boundary` |

Why the bounds are enough: three changes are what it takes for a change to be
queued, for its dependency to arrive with another change in between, and for two
branches of one actor to meet; two documents suffice because any change that was
ever made can be applied to any document at any time, so that `Apply` plays the
part of every other peer.  Two goroutines and two documents give all crossings
of Merge; the calls are not bounded.  For paths, an array of capacity 4 with 3
segments in use, shared by two derived paths, is the smallest case of sharing;
with a fifth path of five segments, one of the two that share is extended into
an array of its own, and two different segments show that one was overwritten.
For objects, three calls make a list, attach to it and replace it; an index is
stale after one call of another goroutine, and a second call of each uses the
handle that the first attached.  A call ends, so the number of its steps needs
no bound.

For sync, three changes let both peers have one that the other lacks and a third
made while messages are on their way; one of the three withheld by a false
positive leaves its dependent in the queue, so that it is asked for by hash.
One message each way lets both peers speak at once; the safety properties were
also checked with two.  One restart with a file and a sync state of any two
earlier moments covers both the loss of changes and the loss of what was known
to be shared.  For bytes, two chunks of any length that fits and the start of a
third are needed to see the loop go wrong.  The numbers are all at distance at
most one from 0, 2^53, 2^63 and the ends of each type.

Deadlock is checked in `shared` and in the SharedObjects runs, where `Finished`
is the end of the program.  In the DocHistory runs it is
not: there a program may stop calling, and at the bounds it does.  Nor is it in
the Sync runs, where peers that are in sync have nothing to do (QuietMeansEqual
says that they stop for no other reason), nor in `boundary` and `zero`, where a
behaviour is one call or ends at the bound on paths.

Fairness (`WasmCalls!FairSpec`): a goroutine that holds a mutex goes on (weak
fairness of `Work`), because an engine call always returns; and a goroutine that
waits for a mutex gets it when it is released again and again (strong fairness
of `Lock`), because Go's `sync.Mutex` hands it to a waiter of more than 1 ms
directly.  Nothing makes a goroutine call a method.

Fairness of `Sync!FairSync`: each peer receives what has arrived and goes on
asking for the next message, as the loops in `automerge.go` and in
`ExampleSyncState` (`example_test.go`) do after every message and every change.
Nothing makes a program write, save or stop.  A peer that has no message to send
takes a step that changes nothing, so that weak fairness does not ask for one.
In `MCBoundary`, a call that has started goes on, since its loops wait for
nothing.

### What the violated runs show

- `increments`: changes can be in no bytes a program got from Save and
  SaveIncremental, if it has forked the document or merged it into another.
- `parents`: two goroutines that set values below a missing parent each make one,
  and one value is lost though both calls return nil.  The same happens to a
  counter that two goroutines increment for the first time.
- `zero`: As converts a stored uint64 0 to no numeric type, though it fits in all.

`PROJECT.json` ("findings") quotes the comment each one contradicts.

The models have more such behaviours, for which no run is kept:

- with `ActorReuse = TRUE`, NoTrap and SaveLoads fail: a change that waited in
  the queue is applied without another look at its number, so that the engine's
  assertion panics, or it is saved and Load refuses the bytes;
- the message of an error (`thr[t].msg`) can be that of an earlier call, since
  only `am_commit` clears it and some failures do not set it;
- a uint or a byte slice is a path segment without a panic (`Odd`);
- an Append at a path that has no text puts one and then clears it, with the mutex
  free in between (`map.go:222`): what another goroutine has appended by then is
  gone, though its Append returned nil, and AppendsKept fails.  In run `sharing` the
  text is there;
- two appends to one list can turn one's values around;
- GenerateMessage on a closed document says that there is nothing to send
  (`sync_state.go:70`), though "further calls will error" (`doc.go:65`);
- of two paths derived from one path with spare capacity, the second overwrites
  the last segment of the first, and so does a Get of a map or list at that path
  (`path.go:33`), though "Path extends the cursor" (`path.go:18`): FreshPathsStable
  fails without the condition on `fresh`;
- List.Delete on a list that is still a path fails whatever it contains, since it
  uses the handle 0 of the root (`list.go:154`);
- Text.Delete at a position outside the text does nothing and returns no error,
  and at a path that has no text it creates an empty one;
- GenerateMessage returns `valid == false` also while an answer is awaited, when
  the peers are not "currently in sync" (`sync_state.go:62`); only both peers
  together, with nothing on its way, can tell (QuietMeansEqual);
- a reset message changes nothing in the sync state of its sender, which
  generates it again until an answer comes;
- on arm64 the float 2^63 is converted to the int64 2^63 - 1 and found to be the
  same float: AsExact states the exception;
- As of Null is an error for every type but an interface or a pointer to one,
  though the comment promises the zero value (`normalize.go:133`);
- a nil pointer makes normalize panic, where other unsupported values are errors;
- an array of bytes is stored as bytes and cannot be read back as an array;
- As to `*Text`, `*Counter` or `time.Time` of a map succeeds with an empty one;
- As returns a half-filled array or struct with its error (`normalize.go:357`);
- a chunk length near 2^64 makes the splitter panic or loop (see Wire), though
  malformed input "returns an error" (`changes.go:74-75`).

Two cases are known from reading and are in no run: a message that is lost, repeated
or overtaken on a connection that goes on, which the comment on ReceiveMessage
(`sync_state.go:42-43`) leaves to the program to prevent; and a restart that loses the dependency of a change that
the other peer has queued, together with a false positive for it, after which the
peers may go on asking.  `Backend.ObjItems` decodes its list in a format the
engine does not write; nothing public calls it.

## 4. The proofs

Theorems hold for all sets of documents, actors, goroutines and segments, and all
bounds.  Each inductive invariant below was an invariant of a TLC run before it
was proved.  The assumptions on constants (`HistoryAssumption`, `SyncAssumption`,
`SliceAssumption`, `TagAssumption`, `ObjectsAssumption`, `GoroutinesAssumption`,
`WireAssumption`) say that bounds and widths are numbers, that strings and hashes are
made of bytes, that two documents sync, that a key is no index, that the document the
goroutines find is a well-formed one whose root is a map, that a call has a path that
starts with a key (the root is a map), and a value where it needs one, and that there
are finitely many goroutines; TLC evaluates them.

| Theorem | States | Invariant | Besides |
|---|---|---|---|
| `DocHistory_proofs` | | | |
| `TypeCorrect` | `Spec => []TypeOK` | HistoryInv | |
| `CausalClosure` | `Spec => []CausallyClosed` | HistoryInv | |
| `HeadsCorrect` | `Spec => []HeadsAreMaximal` | HistoryInv | |
| `NoChangeLost` | `Spec => NothingLost` | HistoryInv | |
| `DocHistory_steps` | | | |
| `EditsAreKept` | `Spec => EditsBecomeChanges` | HistoryInv | |
| `MergesAreComplete` | `Spec => MergeTakesAll` | HistoryInv, SnapClosed | |
| `CausalityRefined` | `Spec => CausalReplication` | HistoryInv, NoneEmpty | |
| `DocHistory_seqs` | | | |
| `SeqsAreDense` | `Spec => []DenseSeqs` | SeqInv | |
| `NothingTraps` | `Spec => []NoTrap` | OneState | `~ActorReuse` |
| `QueuesWait` | `Spec => []OrphansOnly` | OneState | `~ActorReuse` |
| `SavesLoad` | `Spec => []SaveLoads` | OneState | `~ActorReuse` |
| `Sync_proofs` | | | |
| `SharedHeads` | `[]SharedIsShared` | SharedInv | no restart |
| `SentChangesArrive` | `[]SentArrives` | SentInv | no restart, `~ActorReuse` |
| `QuietPeersAgree` | `[]QuietMeansEqual` | QuietInv | no restart, `~ActorReuse` |
| `WasmCalls_proofs` | | | |
| `CallersOwn` | `Spec => []InsideOwns` | CallsInv | |
| `ResultsAreOwn` | `Spec => []OwnResult` | CallsInv | |
| `CallsAreNotCutShort` | `Spec => []NotCutShort` | CallsInv | |
| `PathSlices_proofs` | | | |
| `PathsTyped` | `Spec => []TypeOK` | SliceInv | |
| `FreshPathsKeep` | `Spec => []FreshPathsStable` | SliceInv | |
| `SharedObjects_proofs` | | | |
| `ObjectsTyped` | `Spec => []TypeOK` | ObjectsInv | |
| `CallsFitKinds` | `Spec => []KindsFit` | ObjectsInv | |
| `AddedIsKept` | `[]KeptIn(o)`, of one object | KeptInv | nobody takes values out of `o` |
| `AddedIsKeptInAll` | `[]AppendsKept` | KeptInv | nobody takes values out of anything |
| `Wire_proofs` | | | |
| `ChunksExact` | `WireSpec => []SplitExact` | ChunkInv | |
| `ListsKept` | `WireSpec => []ListsLoseOnlyTheirEnd` | ListInv | |
| `InfosWhole` | `WireSpec => []InfoWholeOrRefused` | InfoInv | |

**Histories.**  Causal closure is not inductive without the type (a commit depends
on the heads, which must be in the history), the heads are not without closure (a
change that is applied must not be a dependency of one applied before), and both
need `QueueApart` (a change that leaves the queue is new to the history) and
`DepsEarlier` (a change never depends on one made later, hence not on itself).
The proof states the invariant as `GoodState`, whose parts take the log `c` of
changes as a parameter, because most actions first close a transaction and then
work with the longer log: `GoodDoc(c, s)` for one document, `Extends(c, c2)` for a
log that has grown, and one lemma per operator (`BatchAppliedGood`,
`BatchOutcomesGood`, `LoadedGood`, `CommitExtends` ...), then one per action.
`ReadyIn` is a union of closed sets, so that no induction over Kahn's algorithm is
needed.

**Steps.**  `DocHistory_steps` gives all calls one form, `DocStep`: a call works on
one open document, whose transaction it may close first (`Begins`, `Works`), or
creates one (`Created`), or does both.  `NextIsDocStep` shows it once for every
action, and the later modules reason about `DocStep` only.  A merge is complete
because the bytes between its two halves are causally closed (`SnapClosed`) and
stay so while the log grows: then all of them are ready.  The hypothesis of
MergeTakesAll is that the batch has no duplicate number, since the engine refuses
it otherwise.

**Sequence numbers.**  That the numbers of an actor are 1, 2, ... in every history
follows from `Numbered`, which speaks of all closed sets of changes and not only
of the histories there are, so that a batch, which adds a closed set, needs no
induction over an actor's changes; and from `Distinct`, which the duplicate check
keeps.  The other three theorems are about programs whose documents have actors
of their own (with a shared actor they are false, see section 3).  `OneInv` says
that a document has all changes made under its actor (`Owns`), from which no two
changes in the log have one number, so that no batch is ever refused; and that no
queued change is ready (`Settled`).

**Refinement.**  A change names its document's heads and its actor's last change
only.  That all the history is behind it, as `CausalReplicas` asks of a new
change, is proved from maximal heads with `Largest`: among the changes that are
not behind it, the last one made would be a head.  A call that commits, and then
applies changes, is one step of the abstract replicas.

**Sync.**  `SharedInv` adds to the types of messages and sync states that a message
names heads that its sender has (`AllHonest`), and that every change made is in
the history of a peer (`AllHeld`), so that a change a peer receives is one that
the other has.  `SentInv` needs that no message is refused, hence actors of their
own.  For QuietMeansEqual, `QuietInv` says what the peers know of each other: what
a peer is asked for, and the changes it is said to have synced up to, are its own
(`AllAsked`); the heads that the other peer sent last have arrived, are on their
way, or were the last it heard of (`LastKnown`); and the peers do not both wait
with no message on its way (`NotBothWait`).  When both have nothing to send, each
has sent its heads and knows the other's; `HeadsDecide` turns equal heads into
equal histories.  False positives cannot break this, since heads travel whatever
the filter says.  The theorems are about behaviours in which no process restarts
(`NoRestart`): one that comes back with an older file lacks changes that the other
peer rightly believed shared, so SharedIsShared and SentArrives are false until
the peers have reset.  Connections may be lost at any time.

**Calls.**  `CallsInv`: whoever is inside a method holds its mutex, so no two are
inside methods of one document, and the buffer and the state of the instance that
a call has seen stay as they are until it returns.  `InsideStep` says this once
for all engine calls.

**Paths.**  `SliceInv`: of the paths that point to one array, a fresh one is the
shortest, so that an append, which writes behind the path it extends, never writes
within it.

**Objects.**  KindsFit is not inductive: which object a goroutine goes to next is
read from a cell, so cells must tell the kind of an object that there is
(`GoodObjs`), also the one that a put has just made, whose number is the next
free one (`Fits`).  `KindsKept` says that every engine call keeps all objects and
their kinds; with it, one lemma (`DoingKept`) carries everything a goroutine
remembers (`Doing`) over the steps of all the others.  `Doing` has three parts:
the walk is at a segment of the path, in an object of that segment's kind
(`AtSegment`); what the method is attached to is a list or a text as it needs
(`AtObject`); and a walk that only reads belongs to Len (`Reading`).  `AtObject`
also says which steps a method can come to: List.Delete, which works on the handle
it has, never comes to ensure, nor from there to put, where it would have nothing
to write.  There is one lemma per operator on a goroutine's record (`SizedDoing`, `ReachedDoing`, `ArrivedDoing`,
`BeginDoing` ...), then one per group of actions.

**Values added.**  AppendsKept counts: a list or text has each value at least once for
every call that returned nil after adding it.  It holds as long as no value is taken
out (`Untaken`): no goroutine is at an engine call that overwrites or deletes, and
none is at the splice of Text.Set with a length above 0, be it the Set of a caller or
the one after a text was put, which deletes what others have typed in between
(section 3).  Neither which goroutines append, where, nor how many, matters, and what
is done to other objects does not either: `AddedIsKept` is about one object.  The
calls that have returned are not enough for an induction, since Append and Insert put
several values with the mutex free in between: `Due` has the calls that have returned
and those under way that have put the value already, and `Pending` says that what is
left to put is the end of what the caller gave, and nothing is put before the object
is known, so that a call that attaches to an object late owes nothing there.  Each
engine call keeps the number of places of every value (`Keeps`), by an injection of
the old places into the new ones, and a put or splice of a value adds one place that
the injection does not reach (`Gains`, `WidenedKeeps`).  A step then adds at most one
call to `Due` (`DueGo`), and only with such a put (`Settles`).  The steps that put
nothing of the caller's are all of one form, `Walks`.

**Bytes.**  The loops build on recursive functions, the concatenation of a sequence
of byte strings and the value of a uLEB128.  `Induction` takes a set for the
predicate and is proved from the least element of a set of numbers; with it, a
recursion has a solution (`Solution`) and just one (`SameSolution`), so that what
FlattenSeq and LebValue choose is what their recursion says.  After that, `Joins(s, g)`
(g holds the concatenations of the first items of s) is all that is used of
FlattenSeq: where the next item starts (`HoldsBlock`), and that more items take more
bytes (`JoinsGrow`).  `ListInv` says that the loop stands at the end of an item,
and ends where the next one is not there in full.  For chunks, `ChunkHere` says in
terms of the input where the chunk at an offset ends; a chunk is there for the
loop just when one is there for the specification (`ChunkIsHere`, `HereIsChunk`,
`HereIsRead`, `ReadIsHere`), and the offset it ends at is unique.  So `ChunkInv` can
say that the loop stands at an end of every possible cut of the input into
chunks, from which an input that has a cut is never refused.  It also says that the
bytes before the offset are one chunk after the other, which one more chunk keeps so
(`ChunksGrow`).  That the end as the code computes it, modulo the word, is the real
one (`HereIsEnd`) is where `LengthsFit` is needed, which speaks of such offsets only.  The theorems are about `WireSpec`, a call alone; the run puts
it beside GoValues.

Only model-checked: CallsReturn, Converges and WireReturns, which are liveness
under fairness; QuietMeansEqual over restarts (run `restarts`); of SharedObjects,
what calls do to the document (CallsDoWhatTheySay, FailuresAreDue, SetsStick,
SlicesStick and IncsAddUp follow a path with a fold, which would take an induction
over the path, and hold for jobs that do not meet on it);
GoValues, whose operators are recursive over types and so out of the prover's
reach.

## 5. The plan

Done: DocHistory with CausalReplicas, WasmCalls, PathSlices, SharedObjects, Sync
on top of DocHistory, Wire, Numbers and GoValues; the proofs above.  Next, in
this order:

1. Facts about `Numbers` for all limits that AsExact rests on.
2. IncsAddUp for a counter that stays where it is, counting as for AppendsKept.

Not modelled, and not planned: the operation set and columnar storage of the
engine (third-party code below the change graph), patches, diffs and isolation
(not used from Go), marks, spans and blocks beyond their calls (computed by the
engine), the hashing inside Bloom filters, the formats of documents, changes and
sync messages inside the engine, `cmd/automerge-debug` (input and output).
