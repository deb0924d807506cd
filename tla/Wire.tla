-------------------------------- MODULE Wire --------------------------------
(***************************************************************************)
(* The loops that take byte strings apart on the Go side:                  *)
(*   LoadChanges and SaveChanges (changes.go), with ParseRawChanges,       *)
(*   splitChangeChunks and readULEB128 (internal/wazero/wazero.go);        *)
(*   the length-prefixed lists, the lists of hashes and the change info    *)
(*   of internal/backend/backend.go, and ObjKeys.                          *)
(*                                                                         *)
(* One behaviour is one call.  The widths are constants, so that TLC can   *)
(* try every short byte string with small ones; a byte is a number below   *)
(* 2 * Base, and in a uLEB128 one from Base on says that another follows.  *)
(* A length prefix or a number of the change info is one place.            *)
(* Offsets count from 0 as in the code: raw[off + 1] is the byte at off.   *)
(*                                                                         *)
(* A definition whose comment starts with "Fault" is a wrong variant of    *)
(* the definition after it, put in its place to see a property notice.     *)
(***************************************************************************)
EXTENDS Integers, Sequences, FiniteSets, FiniteSetsExt, SequencesExt

CONSTANTS
    Base,       \* values of the payload of a byte of a uLEB128 (128)
    Word,       \* values of a uint64 (2^64)
    MaxLeb,     \* bytes of a uLEB128 (10), which can hold more than a word
    Magic,      \* the bytes that a chunk starts with (4)
    SumLen,     \* bytes of a checksum (4)
    HashLen,    \* bytes of a change hash (32)
    Strings,    \* actors, messages, keys and items of lists
    Hashes,     \* change hashes
    Nums,       \* times and sequence numbers
    MaxRaw,     \* bound: bytes given to LoadChanges
    MaxDeps,    \* bound: hashes in a list of them
    MaxItems    \* bound: items of a list; also cuts off an endless loop

Byte == 0 .. 2 * Base - 1

ASSUME WireAssumption ==
    /\ {Base, Word, MaxLeb, HashLen, MaxRaw} \subseteq Nat \ {0}
    /\ {SumLen, MaxDeps, MaxItems} \subseteq Nat
    /\ Magic \in Seq(Byte)
    /\ Strings \subseteq Seq(Byte) /\ Hashes \subseteq [1 .. HashLen -> Byte] /\ Nums \subseteq Byte

VARIABLES
    job,    \* the call: "none", "chunks", "list", "keys", "hashes" or "info"
    packed, \* what the bytes encode, where they come from an encoder
    raw,    \* the bytes
    off,    \* the offset that the loop has reached
    out,    \* what has been taken out
    pc      \* "loop", "split", "ok", "error" or "panic"

wireVars == <<job, packed, raw, off, out, pc>>

\* Magic, checksum and type.
HeaderLen == Len(Magic) + SumLen + 1

-----------------------------------------------------------------------------
(* Change chunks *)

\* The value of b as a uLEB128, in unbounded integers; v[i] is that of its last
\* i bytes.
LebValue(b) ==
    LET v[i \in 0 .. Len(b)] ==
            IF i = 0 THEN 0 ELSE (b[Len(b) + 1 - i] % Base) + Base * v[i - 1]
    IN v[Len(b)]

\* Bits beyond the word are shifted out; too long or cut short is an error.
ReadULEB128(b) ==
    LET stops == {i \in 1 .. Len(b) : b[i] < Base}
    IN IF stops = {} \/ Min(stops) > MaxLeb THEN [ok |-> FALSE, n |-> 0, value |-> 0]
       ELSE [ok |-> TRUE, n |-> Min(stops), value |-> LebValue(SubSeq(b, 1, Min(stops))) % Word]

GoodHeader(b, o) ==
    /\ o + HeaderLen <= Len(b)
    /\ SubSeq(b, o + 1, o + Len(Magic)) = Magic
    /\ b[o + HeaderLen] \in {1, 2}

\* Fault: the bytes of the length itself are not counted.
ChunkEndWithoutLength(o, leb) == (o + HeaderLen + leb.value) % Word

\* Fault: a chunk without content is not passed over.
ChunkEndOfEmpty(o, leb) ==
    IF leb.value = 0 THEN o ELSE (o + HeaderLen + leb.n + leb.value) % Word

\* The end of the chunk at offset o, as a uint64.
ChunkEnd(o, leb) == (o + HeaderLen + leb.n + leb.value) % Word

\* One turn of the loop.  Bytes that would end before they start are a panic.
SplitChangeChunks ==
    LET leb == ReadULEB128(SubSeq(raw, off + HeaderLen + 1, Len(raw)))
        end == ChunkEnd(off, leb)
        bad == ~GoodHeader(raw, off) \/ ~leb.ok \/ end > Len(raw)
    IN /\ job = "chunks" /\ pc = "loop" /\ off < Len(raw)
       /\ Len(out) < MaxItems
       /\ \/ bad /\ pc' = "error" /\ UNCHANGED <<off, out>>
          \/ ~bad /\ end < off /\ pc' = "panic" /\ UNCHANGED <<off, out>>
          \/ /\ ~bad /\ end >= off
             /\ out' = Append(out, SubSeq(raw, off + 1, end))
             /\ off' = end
             /\ UNCHANGED pc
       /\ UNCHANGED <<job, packed, raw>>

SplitDone ==
    /\ job = "chunks" /\ pc = "loop" /\ off >= Len(raw)
    /\ pc' = IF out = <<>> THEN "ok" ELSE "split"
    /\ UNCHANGED <<job, packed, raw, off, out>>

\* A new instance reads every chunk, and may refuse its content.
ParseRawChanges ==
    /\ job = "chunks" /\ pc = "split"
    /\ pc' \in {"ok", "error"}
    /\ UNCHANGED <<job, packed, raw, off, out>>

SaveChanges(cs) == FlattenSeq(cs)

-----------------------------------------------------------------------------
(* Lists and change info *)

EncodeLengthPrefixedList(items) ==
    FlattenSeq([i \in DOMAIN items |-> <<Len(items[i])>> \o items[i]])

EncodeChangeHashes(hashes) == FlattenSeq(hashes)

\* am_change_info_len
EncodeChangeInfo(ci) ==
    ci.hash \o <<ci.time, ci.seq>>
        \o <<Len(ci.actor)>> \o ci.actor
        \o <<Len(ci.message)>> \o ci.message
        \o <<Len(ci.deps)>> \o FlattenSeq(ci.deps)

\* Fault: a length that points beyond the bytes yields what is left.
TakeItemShort(b, o) ==
    IF o + 1 > Len(b) THEN [ok |-> FALSE]
    ELSE LET end == Min({o + 1 + b[o + 1], Len(b)})
         IN [ok |-> TRUE, item |-> SubSeq(b, o + 2, end), end |-> end]

\* The item at offset o, or none when a length or an item is cut short.
TakeItem(b, o) ==
    IF o + 1 > Len(b) \/ o + 1 + b[o + 1] > Len(b) THEN [ok |-> FALSE]
    ELSE LET end == o + 1 + b[o + 1]
         IN [ok |-> TRUE, item |-> SubSeq(b, o + 2, end), end |-> end]

ParseItems(j) ==
    LET t == TakeItem(raw, off)
    IN /\ job = j /\ pc = "loop"
       /\ IF t.ok THEN out' = Append(out, t.item) /\ off' = t.end /\ UNCHANGED pc
          ELSE pc' = "ok" /\ UNCHANGED <<off, out>>
       /\ UNCHANGED <<job, packed, raw>>

ParseLengthPrefixedList == ParseItems("list")

\* The same loop over the keys of a map.
ObjKeys == ParseItems("keys")

ParseChangeHashes ==
    /\ job = "hashes" /\ pc = "loop"
    /\ IF off + HashLen <= Len(raw)
       THEN /\ out' = Append(out, SubSeq(raw, off + 1, off + HashLen))
            /\ off' = off + HashLen
            /\ UNCHANGED pc
       ELSE pc' = "ok" /\ UNCHANGED <<off, out>>
    /\ UNCHANGED <<job, packed, raw>>

\* Fault: dependencies that are missing at the end are left out.
ChangeInfoFewDeps(b) ==
    LET fixed   == HashLen + 2
        actor   == TakeItem(b, fixed)
        message == TakeItem(b, actor.end)
        count   == b[message.end + 1]
        DepAt(i) == message.end + 1 + (i - 1) * HashLen
        whole   == {i \in 1 .. count : DepAt(i + 1) <= Len(b)}
    IN IF \/ Len(b) < fixed + 1 \/ ~actor.ok \/ ~message.ok
          \/ message.end + 1 > Len(b)
       THEN [ok |-> FALSE]
       ELSE [ok |-> TRUE,
             info |-> [hash |-> SubSeq(b, 1, HashLen), time |-> b[HashLen + 1],
                       seq |-> b[fixed], actor |-> actor.item,
                       message |-> message.item,
                       deps |-> [i \in 1 .. Cardinality(whole) |->
                                   SubSeq(b, DepAt(i) + 1, DepAt(i + 1))]]]

\* Fields are read one after the other; each may turn out to be cut short.
ChangeInfo(b) ==
    LET fixed   == HashLen + 2
        actor   == TakeItem(b, fixed)
        message == TakeItem(b, actor.end)
        count   == b[message.end + 1]
        DepAt(i) == message.end + 1 + (i - 1) * HashLen
    IN IF \/ Len(b) < fixed + 1 \/ ~actor.ok \/ ~message.ok
          \/ message.end + 1 > Len(b)
          \/ \E i \in 1 .. count : DepAt(i + 1) > Len(b)
       THEN [ok |-> FALSE]
       ELSE [ok |-> TRUE,
             info |-> [hash |-> SubSeq(b, 1, HashLen), time |-> b[HashLen + 1],
                       seq |-> b[fixed], actor |-> actor.item,
                       message |-> message.item,
                       deps |-> [i \in 1 .. count |->
                                   SubSeq(b, DepAt(i) + 1, DepAt(i + 1))]]]

ParseChangeInfo ==
    LET ci == ChangeInfo(raw)
    IN /\ job = "info" /\ pc = "loop"
       /\ IF ci.ok THEN pc' = "ok" /\ out' = <<ci.info>>
          ELSE pc' = "error" /\ UNCHANGED out
       /\ UNCHANGED <<job, packed, raw, off>>

-----------------------------------------------------------------------------

Header == Magic \o [i \in 1 .. SumLen |-> 0] \o <<1>>
EmptyChunk == Header \o <<0>>

\* Any short byte string, and longer ones that start like a chunk or hold an
\* empty chunk and the start of another one.
Buffers ==
    SeqOf(Byte, MaxRaw - 1)
        \cup {Magic \o b : b \in [1 .. MaxRaw - 1 -> Byte]}
        \cup {EmptyChunk \o Header \o b : b \in [1 .. MaxRaw - 3 -> Byte]}

Infos == [hash : Hashes, time : Nums, seq : Nums, actor : Strings,
          message : Strings, deps : SeqOf(Hashes, MaxDeps)]

Cut(b) == {SubSeq(b, 1, n) : n \in 0 .. Len(b)}

WireInit ==
    /\ off = 0 /\ out = <<>> /\ pc = "loop"
    /\ \/ job = "chunks" /\ packed = <<>> /\ raw \in Buffers
       \/ /\ job \in {"list", "keys"}
          /\ packed \in SeqOf(Strings, MaxItems)
          /\ raw \in Cut(EncodeLengthPrefixedList(packed))
       \/ /\ job = "hashes"
          /\ packed \in SeqOf(Hashes, MaxDeps)
          /\ raw \in Cut(EncodeChangeHashes(packed))
       \/ /\ job = "info"
          /\ \E ci \in Infos : packed = <<ci>> /\ raw \in Cut(EncodeChangeInfo(ci))

WireIdle == job = "none" /\ packed = <<>> /\ raw = <<>> /\ off = 0 /\ out = <<>> /\ pc = "ok"

WireNext ==
    \/ SplitChangeChunks \/ SplitDone \/ ParseRawChanges
    \/ ParseLengthPrefixedList \/ ObjKeys \/ ParseChangeHashes \/ ParseChangeInfo

WireSpec == (WireInit \/ WireIdle) /\ [][WireNext]_wireVars

-----------------------------------------------------------------------------
(* Properties *)

\* b is one chunk: a header, a length in uLEB128, and that many bytes.
IsChunk(b) ==
    /\ Len(b) > HeaderLen /\ IsPrefix(Magic, b) /\ b[HeaderLen] \in {1, 2}
    /\ \E n \in 1 .. Len(b) - HeaderLen :
          LET leb == SubSeq(b, HeaderLen + 1, HeaderLen + n)
          IN /\ n <= MaxLeb
             /\ \A i \in 1 .. n : (leb[i] >= Base) <=> (i < n)
             /\ LebValue(leb) = Len(b) - HeaderLen - n

\* raw can be cut into chunks.
IsChunks(b) ==
    \E ends \in SUBSET (1 .. Len(b)) :
        /\ b # <<>> => Len(b) \in ends
        /\ \A e \in ends :
              IsChunk(SubSeq(b, Max({x \in ends \cup {0} : x < e}) + 1, e))

\* The chunks that the loop comes to end within a word: after bytes that are
\* one chunk after the other, no header is followed by a length near the limit.
LengthsFit ==
    \A o \in 0 .. Len(raw) :
        LET p   == o + HeaderLen
            leb == ReadULEB128(SubSeq(raw, p + 1, Len(raw)))
        IN (GoodHeader(raw, o) /\ IsChunks(SubSeq(raw, 1, o)) /\ leb.ok) =>
               p + leb.n + LebValue(SubSeq(raw, p + 1, p + leb.n)) < Word

\* LoadChanges takes apart exactly the byte strings that are one chunk after
\* the other, into just these chunks, so that it undoes SaveChanges and any
\* other input is an error - as long as the end of no chunk that it comes to is
\* beyond 2^64.  What the bytes inside a chunk look like does not matter.
SplitExact ==
    (job = "chunks" /\ LengthsFit) =>
        /\ pc \in {"split", "ok"} =>
              /\ SaveChanges(out) = raw
              /\ \A i \in 1 .. Len(out) : IsChunk(out[i])
        /\ (pc = "error" /\ off < Len(raw)) => ~IsChunks(raw)
        /\ pc # "panic"

\* A list that is cut short loses its last items and nothing else: the items
\* (changes, keys, hashes) that are returned are the first ones, whole, and
\* none of the ones that are there in full is left out.
ListsLoseOnlyTheirEnd ==
    (job \in {"list", "keys", "hashes"} /\ pc = "ok") =>
        LET Enc(s) == IF job = "hashes" THEN EncodeChangeHashes(s)
                      ELSE EncodeLengthPrefixedList(s)
        IN /\ IsPrefix(out, packed)
           /\ \A n \in 0 .. Len(packed) :
                 Len(Enc(SubSeq(packed, 1, n))) <= Len(raw) => n <= Len(out)

\* The info of a change is read back as the engine wrote it, or refused when
\* any of its bytes is missing.
InfoWholeOrRefused ==
    (job = "info" /\ pc # "loop") =>
        IF raw = EncodeChangeInfo(packed[1]) THEN pc = "ok" /\ out = packed
        ELSE pc = "error"

\* Every call returns, the loop over the chunks also for lengths of zero.
WireReturns == (LengthsFit /\ pc = "loop") ~> pc \in {"ok", "error"}

=============================================================================
