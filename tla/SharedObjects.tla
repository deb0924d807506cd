----------------------------- MODULE SharedObjects -----------------------------
(***************************************************************************)
(* Goroutines that write to one *Doc through Path, Map, List, Text and     *)
(* Counter.  Every engine call runs under the mutex of the Doc (doc.lock), *)
(* so it is one step; a method makes several of them, the mutex is free in *)
(* between, and what the method has read may be stale when it writes.      *)
(* Path.ensure is the walk that finds or creates the parents of a value.   *)
(*                                                                         *)
(* An object keeps its place in objs for ever: a deleted one stays         *)
(* readable and writable through the handles that refer to it, and no      *)
(* handle is ever freed, so a handle is modelled by its object.  Scalars   *)
(* and the code points of a text are numbers; a Len whose value only       *)
(* appears in an error message is left out.                                *)
(*                                                                         *)
(* A definition whose comment starts with "Fault" is a wrong variant of    *)
(* the definition after it, put in its place to see a property notice.     *)
(***************************************************************************)
EXTENDS Integers, Sequences, FiniteSets, SequencesExt

CONSTANTS
    Goroutine,
    Key,         \* map keys; a path is a sequence of keys and list indexes
    EmptyKey,    \* the key "", which the engine's exports refuse
    FirstObjs,   \* the objects of the document the goroutines find
    Jobs,        \* the calls they may make: method, path, index, count, values
    Probes,      \* the paths that View looks at
    MaxCalls     \* bound: calls per goroutine

MapOps  == {"mapset", "mapdelete"}                \* Map.Set, Map.Delete
PathOps == {"set", "slice", "text", "delete"}     \* Path.Set of a scalar, a []any, a *Text; Path.Delete
ListOps == {"append", "insert", "overwrite", "remove"}  \* the methods of List
TextOps == {"type", "retype", "splice"}           \* Text.Append, Set; Insert, Delete and Splice
SeqOps  == ListOps \cup TextOps
Ops     == MapOps \cup PathOps \cup SeqOps \cup {"inc"} \* Counter.Inc(1)

Root == 1

Containers == {"map", "list", "text"}

\* A cell of an object among os: nothing, a scalar, a counter, or an object,
\* whose kind it tells.
Cells(os) ==
    {c \in [tag : {"void", "scalar", "counter"} \cup Containers, n : Nat] :
        c.tag \in Containers => c.n \in DOMAIN os /\ os[c.n].kind = c.tag}

\* A map has a cell for every key, a list or a text a sequence of them.
ObjectsOf(kind, os) ==
    [kind : {kind}, at : IF kind = "map" THEN [Key -> Cells(os)] ELSE Seq(Cells(os))]

GoodObjs(os) ==
    /\ Len(os) \in Nat /\ os = [o \in 1 .. Len(os) |-> os[o]]
    /\ os # <<>> /\ os[Root].kind = "map"
    /\ \A o \in DOMAIN os : os[o].kind \in Containers /\ os[o] \in ObjectsOf(os[o].kind, os)

ASSUME ObjectsAssumption ==
    /\ EmptyKey \in Key /\ (\A k \in Key : k \notin Int) /\ MaxCalls \in Nat
    /\ GoodObjs(FirstObjs)
    /\ \A j \in Jobs :
        /\ j.op \in Ops /\ j.at \in Int /\ j.del \in Int
        /\ j.path \in Seq(Key \cup Int) /\ j.path # <<>> /\ j.path[1] \in Key
        /\ j.vals \in Seq(Nat)
        /\ j.op \in {"set", "mapset", "append", "insert", "overwrite", "slice"} => j.vals # <<>>
        /\ j.op \in MapOps => Last(j.path) \in Key

ASSUME GoroutinesAssumption == IsFiniteSet(Goroutine)

VARIABLES
    objs,    \* the objects of the document; 1 is the root
    th,      \* what each goroutine is doing
    held,    \* the object each goroutine's List or Text is attached to, 0 for none
    calls    \* the calls each goroutine has made, in order

vars == <<objs, th, held, calls>>

Cell(tag, n) == [tag |-> tag, n |-> n]
Void == Cell("void", 0)
Scalar(v) == Cell("scalar", v)
Scalars(vs) == [i \in DOMAIN vs |-> Scalar(vs[i])]

NewObj(kind) ==
    [kind |-> kind, at |-> IF kind = "map" THEN [k \in Key |-> Void] ELSE <<>>]

HeldKeys == {<<IF j.op \in ListOps THEN "list" ELSE "text", j.path>> :
                j \in {k \in Jobs : k.op \in SeqOps}}

-----------------------------------------------------------------------------
(* The engine: one call each, made with the mutex held.                    *)

MapGet(o, k) == objs[o].at[k]

ListLen(o) == Len(objs[o].at)

ListGet(o, i) == IF i < ListLen(o) THEN objs[o].at[i + 1] ELSE Void

\* Fault: every object is made a map.
WithPutMap(c) == IF c.tag \in Containers THEN Append(objs, NewObj("map")) ELSE objs

\* The objects once a cell is put: an object put is made on the spot.
WithPut(c) == IF c.tag \in Containers THEN Append(objs, NewObj(c.tag)) ELSE objs

\* Fault: the length of the key is not looked at.
CanMapPutAny(k) == k = k

CanMapPut(k) == k # EmptyKey

MapPut(o, k, c) == [WithPut(c) EXCEPT ![o].at[k] = c]

CanListPut(o, i, insert) == IF insert THEN i <= ListLen(o) ELSE i < ListLen(o)

\* Fault: an insert takes the place of what is at the index.
ListPutOver(o, i, insert, c) ==
    [WithPut(c) EXCEPT ![o].at =
        IF i = Len(@) THEN Append(@, c) ELSE ReplaceAt(@, i + 1, c)]

ListPut(o, i, insert, c) ==
    [WithPut(c) EXCEPT ![o].at =
        IF insert THEN InsertAt(@, i + 1, c) ELSE ReplaceAt(@, i + 1, c)]

CanListDelete(o, i) == objs[o].kind = "list" /\ i < ListLen(o)

ListDelete(o, i) == [objs EXCEPT ![o].at = RemoveAt(@, i + 1)]

\* Nothing to insert is no position to look up.  A position below zero becomes
\* a large one.
CanSplice(o, pos, s) == s = <<>> \/ pos \in 0 .. ListLen(o)

\* Fault: nothing is deleted.
SpliceKeep(o, pos, del, s) ==
    IF pos \notin 0 .. ListLen(o) THEN objs
    ELSE [objs EXCEPT ![o].at = SubSeq(@, 1, pos) \o s \o SubSeq(@, pos + 1, Len(@))]

\* Characters that are not there are not deleted, without an error; a count
\* below zero is none.
Splice(o, pos, del, s) ==
    IF pos \notin 0 .. ListLen(o) THEN objs
    ELSE [objs EXCEPT ![o].at =
            SubSeq(@, 1, pos) \o s \o SubSeq(@, pos + 1 + (IF del < 0 THEN 0 ELSE del), Len(@))]

\* Only a counter can be incremented.
CanIncrement(o, i) == i \in DOMAIN objs[o].at /\ objs[o].at[i].tag = "counter"

Increment(o, i) == [objs EXCEPT ![o].at[i].n = @ + 1]

-----------------------------------------------------------------------------
(* What a goroutine does next: operators on its record.                    *)

\* pc: the next engine call.  mode: "read" for Path.Get under Len, "ensure"
\* for Path.ensure.  lvl, obj: the walk is at segment lvl, in object obj.
\* pos, insert: where the parent list is written.  idx: where the method
\* writes.  tgt: the object that the List or Text is attached to.  new, cut:
\* a Text just put, to be given its first value.  todo: values to append.
Idle == [pc |-> "idle", job |-> [op |-> "none", path |-> <<>>, at |-> 0, del |-> 0, vals |-> <<>>],
         mode |-> "ensure", lvl |-> 0, obj |-> 0, pos |-> 0, insert |-> FALSE,
         idx |-> 0, tgt |-> 0, new |-> 0, cut |-> 0, todo |-> <<>>, before |-> <<>>]

Seg(r) == r.job.path[r.lvl]
AtEnd(r) == r.lvl = Len(r.job.path)
Deleting(r) == AtEnd(r) /\ r.job.op \in {"delete", "mapdelete"}

\* What has to be at the segment: the parent of the next one, or what the
\* method works on.  Path.Set and Path.Delete take what there is.
Wanted(r) ==
    CASE ~AtEnd(r) -> IF r.job.path[r.lvl + 1] \in Key THEN "map" ELSE "list"
      [] AtEnd(r) /\ r.job.op \in ListOps -> "list"
      [] AtEnd(r) /\ r.job.op \in TextOps -> "text"
      [] AtEnd(r) /\ r.job.op = "inc" -> "counter"
      [] OTHER -> "any"

\* What the set function that ensure returned is called with.
ToWrite(r) ==
    IF Wanted(r) # "any"
    THEN Cell(Wanted(r), IF Wanted(r) = "counter" THEN 0 ELSE Len(objs) + 1)
    ELSE CASE r.job.op = "slice" -> Cell("list", Len(objs) + 1)
           [] r.job.op = "text" -> Cell("text", Len(objs) + 1)
           [] r.job.op \in {"set", "mapset"} -> Scalar(r.job.vals[1])
           [] OTHER -> Void

Fail(r) == [r EXCEPT !.pc = "error"]

\* Inside object o, at segment l.  Map.Set and Map.Delete do not read first.
Enter(r, l, o) ==
    [r EXCEPT !.lvl = l, !.obj = o,
              !.pc = IF r.job.op \in MapOps /\ l = Len(r.job.path) THEN "write" ELSE "get"]

\* Fault: the elements of a slice are not appended.
ReachedUnfilled(r, c) ==
    CASE ~AtEnd(r) -> Enter(r, r.lvl + 1, c.n)
      [] AtEnd(r) /\ r.job.op = "inc" -> [r EXCEPT !.pc = "inc"]
      [] AtEnd(r) /\ r.job.op \in SeqOps -> [r EXCEPT !.pc = "put", !.tgt = c.n]
      [] OTHER -> [r EXCEPT !.pc = "ok"]

\* c is at the segment and it is what was wanted.
Reached(r, c) ==
    CASE ~AtEnd(r) -> Enter(r, r.lvl + 1, c.n)
      [] AtEnd(r) /\ r.job.op = "inc" -> [r EXCEPT !.pc = "inc"]
      [] AtEnd(r) /\ r.job.op \in SeqOps -> [r EXCEPT !.pc = "put", !.tgt = c.n]
      [] AtEnd(r) /\ r.job.op = "slice" ->
            [r EXCEPT !.pc = "size", !.obj = c.n, !.tgt = c.n]
      [] OTHER -> [r EXCEPT !.pc = "ok"]

\* c has been put at the segment; a Text is empty until its Set.
Written(r, c) ==
    IF c.tag = "text" THEN [r EXCEPT !.pc = "clear", !.new = c.n] ELSE Reached(r, c)

\* The method knows the length: check the index, then write to the object,
\* which a List or Text that is still a path has to find or create first.
Sized(r, len) ==
    LET i == IF r.job.op \in {"insert", "overwrite", "remove"} THEN r.job.at ELSE len
        known == [r EXCEPT !.idx = i]
    IN  CASE i < 0 \/ i > len \/ (r.job.op \in {"overwrite", "remove"} /\ i = len) -> Fail(r)
          [] OTHER ->
               IF r.job.op = "remove" THEN [known EXCEPT !.pc = "remove"]
               ELSE IF r.tgt # 0 THEN [known EXCEPT !.pc = "put"]
               ELSE [Enter(known, 1, Root) EXCEPT !.mode = "ensure"]

\* Fault: ensure does not look whether there is something already.
ArrivedAfresh(r, v) ==
    IF r.mode = "ensure" THEN [r EXCEPT !.pc = "write"]
    ELSE IF v.tag # Wanted(r) THEN Sized(r, 0)
    ELSE IF AtEnd(r) THEN [r EXCEPT !.pc = "size", !.obj = v.n] ELSE Reached(r, v)

\* Fault: any object will do, of whatever kind.
ArrivedAnyKind(r, v) ==
    LET fits == v.tag \in Containers
    IN  CASE r.mode = "read" ->
               IF fits THEN IF AtEnd(r) THEN [r EXCEPT !.pc = "size", !.obj = v.n]
                                        ELSE Reached(r, v)
                       ELSE Sized(r, 0)
          [] r.mode = "ensure" ->
               IF fits /\ Wanted(r) # "any" THEN Reached(r, v)
               ELSE IF v = Void \/ Wanted(r) = "any" THEN [r EXCEPT !.pc = "write"]
               ELSE Fail(r)

\* v is at the segment.  Path.Get gives up where there is nothing to enter,
\* and Len is then 0; ensure creates what is missing.
Arrived(r, v) ==
    LET fits == v.tag = Wanted(r)
    IN  CASE r.mode = "read" ->
               IF fits THEN IF AtEnd(r) THEN [r EXCEPT !.pc = "size", !.obj = v.n]
                                        ELSE Reached(r, v)
                       ELSE Sized(r, 0)
          [] r.mode = "ensure" ->
               IF fits THEN Reached(r, v)
               ELSE IF v = Void \/ Wanted(r) = "any" THEN [r EXCEPT !.pc = "write"]
               ELSE Fail(r)

-----------------------------------------------------------------------------

\* The goroutine goes on as r says, or returns.
Go(t, r) ==
    /\ IF r.pc \in {"ok", "error"}
       THEN /\ th' = [th EXCEPT ![t] = Idle]
            /\ calls' = [calls EXCEPT ![t] = Append(@,
                  [job |-> r.job, res |-> r.pc, tgt |-> r.tgt, before |-> r.before])]
       ELSE /\ th' = [th EXCEPT ![t] = r]
            /\ UNCHANGED calls
    /\ held' = IF r.job.op \in SeqOps
               THEN [held EXCEPT ![t][<<IF r.job.op \in ListOps THEN "list" ELSE "text",
                                        r.job.path>>] = r.tgt]
               ELSE held

\* What a path leads to, by Path.Get with nobody else about.
Lookup(path) ==
    FoldLeft(LAMBDA c, s :
                CASE c.tag = "map" /\ s \in Key -> objs[c.n].at[s]
                  [] c.tag = "list" /\ s \notin Key ->
                        IF s \in 0 .. ListLen(c.n) - 1 THEN objs[c.n].at[s + 1] ELSE Void
                  [] OTHER -> Void,
             Cell("map", Root), path)

\* What there is to see of a cell, object identities aside.
Shown(c) ==
    [tag |-> c.tag,
     is |-> CASE c.tag \in {"scalar", "counter"} -> <<c.n>>
              [] c.tag = "text" -> [i \in DOMAIN objs[c.n].at |-> objs[c.n].at[i].n]
              [] OTHER -> <<>>]

View == [p \in Probes |-> Shown(Lookup(p))]

Init ==
    /\ objs = FirstObjs
    /\ th = [t \in Goroutine |-> Idle]
    /\ held = [t \in Goroutine |-> [k \in HeldKeys |-> 0]]
    /\ calls = [t \in Goroutine |-> <<>>]

\* A goroutine calls a method.  Its List or Text is attached, or it is a path.
\* Text.Insert, Delete and Splice do not ask for the length.
Begin(t, j) ==
    LET r == [Idle EXCEPT !.job = j, !.before = View, !.todo = j.vals]
        tgt == IF j.op \in SeqOps
               THEN held[t][<<IF j.op \in ListOps THEN "list" ELSE "text", j.path>>] ELSE 0
    IN  CASE tgt # 0 -> [r EXCEPT !.pc = IF j.op = "splice" THEN "put" ELSE "size",
                                  !.obj = tgt, !.tgt = tgt]
          [] tgt = 0 /\ j.op \in SeqOps \ {"splice"} -> [Enter(r, 1, Root) EXCEPT !.mode = "read"]
          [] OTHER -> Enter(r, 1, Root)

Call(t) ==
    /\ th[t].pc = "idle" /\ Len(calls[t]) < MaxCalls
    /\ \E j \in Jobs : Go(t, Begin(t, j))
    /\ UNCHANGED objs

\* Map.Get of a segment.
GetKey(t) == LET r == th[t] IN
    /\ r.pc = "get" /\ Seg(r) \in Key
    /\ Go(t, Arrived(r, MapGet(r.obj, Seg(r))))
    /\ UNCHANGED objs

\* List.Get of a segment: Len, and then the value.
GetLen(t) == LET r == th[t] IN
    /\ r.pc = "get" /\ Seg(r) \notin Key
    /\ Go(t, IF Seg(r) \in 0 .. ListLen(r.obj) - 1 THEN [r EXCEPT !.pc = "at"]
                                                   ELSE Arrived(r, Void))
    /\ UNCHANGED objs

GetAt(t) == LET r == th[t] IN
    /\ r.pc = "at"
    /\ Go(t, Arrived([r EXCEPT !.pos = Seg(r)], ListGet(r.obj, Seg(r))))
    /\ UNCHANGED objs

\* Len of the object that a List or Text is, now that it is known.
Size(t) == LET r == th[t] IN
    /\ r.pc = "size"
    /\ Go(t, Sized(r, ListLen(r.obj)))
    /\ UNCHANGED objs

\* The set function of ensure for a key: Map.Set or Map.Delete.
WriteKey(t) == LET r == th[t] IN
    /\ r.pc = "write" /\ Seg(r) \in Key
    /\ IF ~CanMapPut(Seg(r)) THEN Go(t, Fail(r)) /\ UNCHANGED objs
       ELSE /\ objs' = MapPut(r.obj, Seg(r), ToWrite(r))
            /\ Go(t, Written(r, ToWrite(r)))

\* The set function of ensure for an index: three looks at the length.
WriteBeyond(t) == LET r == th[t] IN
    /\ r.pc = "write" /\ Seg(r) \notin Key
    /\ Go(t, IF Seg(r) > ListLen(r.obj) THEN Fail(r)
             ELSE [r EXCEPT !.pc = IF Deleting(r) THEN "last" ELSE "which"])
    /\ UNCHANGED objs

DeleteAtEnd(t) == LET r == th[t] IN
    /\ r.pc = "last"
    /\ Go(t, IF Seg(r) = ListLen(r.obj) THEN Fail(r) ELSE [r EXCEPT !.pc = "droplen"])
    /\ UNCHANGED objs

WriteWhich(t) == LET r == th[t] IN
    /\ r.pc = "which"
    /\ Go(t, [r EXCEPT !.pc = IF Seg(r) = ListLen(r.obj) THEN "appendlen" ELSE "setlen"])
    /\ UNCHANGED objs

\* List.Append, List.Set and List.Delete on the parent look once more.
AppendLen(t) == LET r == th[t] IN
    /\ r.pc = "appendlen"
    /\ Go(t, [r EXCEPT !.pc = "place", !.insert = TRUE, !.pos = ListLen(r.obj)])
    /\ UNCHANGED objs

SetLen(t) == LET r == th[t] IN
    /\ r.pc = "setlen"
    /\ Go(t, IF Seg(r) \in 0 .. ListLen(r.obj) - 1
             THEN [r EXCEPT !.pc = "place", !.insert = FALSE, !.pos = Seg(r)] ELSE Fail(r))
    /\ UNCHANGED objs

DropLen(t) == LET r == th[t] IN
    /\ r.pc = "droplen"
    /\ Go(t, IF Seg(r) \in 0 .. ListLen(r.obj) - 1 THEN [r EXCEPT !.pc = "drop"] ELSE Fail(r))
    /\ UNCHANGED objs

Place(t) == LET r == th[t] IN
    /\ r.pc = "place"
    /\ IF ~CanListPut(r.obj, r.pos, r.insert) THEN Go(t, Fail(r)) /\ UNCHANGED objs
       ELSE /\ objs' = ListPut(r.obj, r.pos, r.insert, ToWrite(r))
            /\ Go(t, Written(r, ToWrite(r)))

Drop(t) == LET r == th[t] IN
    /\ r.pc = "drop"
    /\ IF ~CanListDelete(r.obj, Seg(r)) THEN Go(t, Fail(r)) /\ UNCHANGED objs
       ELSE objs' = ListDelete(r.obj, Seg(r)) /\ Go(t, [r EXCEPT !.pc = "ok"])

\* Text.Set on a Text just put, with its first value: Len, and then splice.
ClearLen(t) == LET r == th[t] IN
    /\ r.pc = "clear"
    /\ Go(t, [r EXCEPT !.pc = "fill", !.cut = ListLen(r.new)])
    /\ UNCHANGED objs

Fill(t) == LET r == th[t] IN
    /\ r.pc = "fill"
    /\ objs' = Splice(r.new, 0, r.cut,
                      IF r.job.op = "text" /\ AtEnd(r) THEN Scalars(r.job.vals) ELSE <<>>)
    /\ Go(t, Reached(r, Cell("text", r.new)))

\* List.put; Append goes on with the next value.
PutItem(t) == LET r == th[t] IN
    /\ r.pc = "put" /\ r.job.op \notin TextOps
    /\ IF ~CanListPut(r.tgt, r.idx, r.job.op # "overwrite") THEN Go(t, Fail(r)) /\ UNCHANGED objs
       ELSE /\ objs' = ListPut(r.tgt, r.idx, r.job.op # "overwrite", Scalar(Head(r.todo)))
            /\ Go(t, IF Len(r.todo) = 1 THEN [r EXCEPT !.pc = "ok"]
                     ELSE [r EXCEPT !.pc = IF r.job.op = "insert" THEN "put" ELSE "size",
                                    !.obj = r.tgt, !.idx = r.idx + 1, !.todo = Tail(@)])

\* Text.Append and Text.Set: splice with the length read before.  The others
\* take what the caller gives.
SpliceText(t) == LET r == th[t] IN
    /\ r.pc = "put" /\ r.job.op \in TextOps
    /\ LET pos == CASE r.job.op = "type"   -> r.idx
                    [] r.job.op = "retype" -> 0
                    [] r.job.op = "splice" -> r.job.at
           del == IF r.job.op = "splice" THEN r.job.del ELSE r.idx - pos
       IN  IF ~CanSplice(r.tgt, pos, r.job.vals) THEN Go(t, Fail(r)) /\ UNCHANGED objs
           ELSE /\ objs' = Splice(r.tgt, pos, del, Scalars(r.job.vals))
                /\ Go(t, [r EXCEPT !.pc = "ok"])

\* List.Delete does not look where a path leads: the handle is then that of
\* the root.
RemoveItem(t) == LET r == th[t]
                     o == IF r.tgt # 0 THEN r.tgt ELSE Root IN
    /\ r.pc = "remove"
    /\ IF ~CanListDelete(o, r.idx) THEN Go(t, Fail(r)) /\ UNCHANGED objs
       ELSE objs' = ListDelete(o, r.idx) /\ Go(t, [r EXCEPT !.pc = "ok"])

\* Map.inc or List.inc of what ensureCounter found or put.
Inc(t) == LET r == th[t]
              i == IF Seg(r) \in Key THEN Seg(r) ELSE r.pos + 1 IN
    /\ r.pc = "inc"
    /\ IF ~CanIncrement(r.obj, i) THEN Go(t, Fail(r)) /\ UNCHANGED objs
       ELSE objs' = Increment(r.obj, i) /\ Go(t, [r EXCEPT !.pc = "ok"])

\* All calls are made.
Finished ==
    /\ \A t \in Goroutine : th[t].pc = "idle" /\ Len(calls[t]) = MaxCalls
    /\ UNCHANGED vars

Step(t) ==
    \/ Call(t) \/ GetKey(t) \/ GetLen(t) \/ GetAt(t) \/ Size(t)
    \/ WriteKey(t) \/ WriteBeyond(t) \/ DeleteAtEnd(t) \/ WriteWhich(t)
    \/ AppendLen(t) \/ SetLen(t) \/ DropLen(t) \/ Place(t) \/ Drop(t)
    \/ ClearLen(t) \/ Fill(t) \/ PutItem(t) \/ SpliceText(t) \/ RemoveItem(t) \/ Inc(t)

Next == Finished \/ \E t \in Goroutine : Step(t)

Spec == Init /\ [][Next]_vars

-----------------------------------------------------------------------------

\* Every cell that is an object says of what kind the object is; a List or Text
\* is attached to an object that there is, or to none.
TypeOK ==
    /\ GoodObjs(objs)
    /\ \A t \in Goroutine : /\ held[t] \in [HeldKeys -> 0 .. Len(objs)]
                             /\ th[t].job \in Jobs \cup {Idle.job}
                             /\ Len(calls[t]) <= MaxCalls

\* An engine call is made on an object of the kind that it is for, whatever
\* the others have done since the object was looked up: List.Delete aside, no
\* call is refused because its object is of the wrong kind.
KindsFit ==
    \A t \in Goroutine : LET r == th[t] IN
        /\ r.pc \in {"get", "write"} =>
                objs[r.obj].kind = IF Seg(r) \in Key THEN "map" ELSE "list"
        /\ r.pc \in {"at", "last", "which", "appendlen", "setlen", "droplen", "place", "drop"} =>
                objs[r.obj].kind = "list"
        /\ r.pc = "size" => objs[r.obj].kind = IF r.job.op \in TextOps THEN "text" ELSE "list"
        /\ r.pc = "put" => objs[r.tgt].kind = IF r.job.op \in TextOps THEN "text" ELSE "list"
        /\ r.pc \in {"clear", "fill"} => objs[r.new].kind = "text"
        /\ \A k \in HeldKeys : held[t][k] # 0 => objs[held[t][k]].kind = k[1]

CallAt(c) == calls[c[1]][c[2]]

\* The calls of all goroutines that have returned nil.
Returned == {c \in Goroutine \X (1 .. MaxCalls) :
                c[2] <= Len(calls[c[1]]) /\ CallAt(c).res = "ok"}

\* A value that Append has added is in the list or text that it was added to,
\* once for every time it was added, where nobody deletes or overwrites, and so
\* is one of an Insert.  An index that went stale between Len and put may
\* misplace it, not lose it.
AppendsKept ==
    \A o \in DOMAIN objs : objs[o].kind # "map" =>
        \A v \in UNION {Range(j.vals) : j \in Jobs} :
            Cardinality({c \in Returned : /\ CallAt(c).job.op \in {"append", "type", "insert", "splice"}
                                          /\ CallAt(c).tgt = o /\ Contains(CallAt(c).job.vals, v)})
                <= Cardinality({i \in DOMAIN objs[o].at : objs[o].at[i] = Scalar(v)})

\* A counter shows as many as Inc has added, where nobody sets or deletes it.
IncsAddUp ==
    \A j \in Jobs : j.op = "inc" =>
        LET n == Cardinality({c \in Returned : CallAt(c).job = j})
        IN  n > 0 => Lookup(j.path) = Cell("counter", n)

\* What Path.Set or Map.Set has stored at a path is there, where nobody else
\* writes to that path, to a parent of it or below it.
SetsStick ==
    \A c \in Returned : LET j == CallAt(c).job IN
        (/\ j.op \in {"set", "mapset"}
         /\ \A k \in Jobs \ {j} : ~IsPrefix(k.path, j.path) /\ ~IsPrefix(j.path, k.path))
        => Lookup(j.path) = Scalar(j.vals[1])

\* Path.Set of a slice stores the slice, all of it and nothing else, where
\* nobody else writes there or is still at it: it is put empty and filled a
\* value at a time.
SlicesStick ==
    \A c \in Returned : LET j == CallAt(c).job IN
        (/\ j.op = "slice" /\ \A t \in Goroutine : th[t].job # j
         /\ \A k \in Jobs \ {j} : ~IsPrefix(k.path, j.path) /\ ~IsPrefix(j.path, k.path))
        => Lookup(j.path).tag = "list" /\ objs[Lookup(j.path).n].at = Scalars(j.vals)

-----------------------------------------------------------------------------
(* What a call does when nobody else is about, told from the document b    *)
(* that View shows before it.                                              *)

ShownVoid == Shown(Void)

\* The kind of container that segment i of path p is a place in.
KindFor(p, i) == IF p[i] \in Key THEN "map" ELSE "list"

\* The length of the list at path p.
LenAt(b, p) ==
    Cardinality({q \in DOMAIN b : /\ Len(q) = Len(p) + 1 /\ IsPrefix(p, q)
                                  /\ Last(q) \notin Key /\ b[q] # ShownVoid})

\* The parents of p are there or can be made; an index is at most the length.
Passable(b, p) ==
    \A i \in DOMAIN p :
        /\ p[i] # EmptyKey
        /\ i < Len(p) => b[SubSeq(p, 1, i)].tag \in {"void", KindFor(p, i + 1)}
        /\ p[i] \in Key \/ p[i] \in 0 .. LenAt(b, SubSeq(p, 1, i - 1))

Succeeds(j, b) ==
    /\ Passable(b, j.path)
    /\ j.op = "inc" => b[j.path].tag \in {"void", "counter"}
    /\ j.op \in ListOps => b[j.path].tag \in {"void", "list"}
    /\ j.op \in TextOps => b[j.path].tag \in {"void", "text"}
    /\ j.op = "insert" => j.at \in 0 .. LenAt(b, j.path)
    /\ j.op = "splice" => j.vals = <<>> \/ j.at \in 0 .. Len(b[j.path].is)
    /\ j.op \in {"overwrite", "remove"} => j.at \in 0 .. LenAt(b, j.path) - 1
    /\ j.op = "delete" /\ Last(j.path) \notin Key => b[j.path] # ShownVoid

\* b with s at p, nothing below it, and the parents of p.
PutAt(b, p, s) ==
    [q \in DOMAIN b |->
        CASE q = p -> s
          [] IsStrictPrefix(p, q) -> ShownVoid
          [] IsStrictPrefix(q, p) /\ b[q] = ShownVoid -> Shown(Cell(KindFor(p, Len(q) + 1), 0))
          [] OTHER -> b[q]]

\* b with n places more (or one less, n = -1) before place k of the list at p.
Shifted(b, p, k, n) ==
    [q \in DOMAIN b |->
        IF ~IsStrictPrefix(p, q) \/ q[Len(p) + 1] \in Key \/ q[Len(p) + 1] < k THEN b[q]
        ELSE LET from == [q EXCEPT ![Len(p) + 1] = @ - n]
             IN  IF from[Len(p) + 1] < k \/ from \notin DOMAIN b THEN ShownVoid ELSE b[from]]

\* b with vs at the places from k on of the list at p.
Filled(b, p, k, vs) ==
    [q \in DOMAIN b |->
        IF \E i \in DOMAIN vs : q = Append(p, k + i - 1)
        THEN Shown(Scalar(vs[Last(q) - k + 1])) ELSE b[q]]

\* s with the values of j before place at, and without the del places from
\* there on.
Spliced(s, j) ==
    LET Kept(i) == IF i - 1 \in j.at .. j.at + j.del - 1 THEN <<>> ELSE <<s[i]>>
        New(i)  == IF i - 1 = j.at THEN j.vals ELSE <<>>
    IN FlattenSeq([i \in 1 .. Len(s) |-> New(i) \o Kept(i)]) \o New(Len(s) + 1)

Expected(j, b) ==
    LET p    == j.path
        text == [tag |-> "text", is |-> j.vals]
        list == IF b[p] = ShownVoid THEN PutAt(b, p, Shown(Cell("list", 0))) ELSE b
    IN  CASE j.op \in {"set", "mapset"} -> PutAt(b, p, Shown(Scalar(j.vals[1])))
          [] j.op = "slice" -> Filled(PutAt(b, p, Shown(Cell("list", 0))), p, 0, j.vals)
          [] j.op \in {"text", "retype"} -> PutAt(b, p, text)
          [] j.op = "type" -> PutAt(b, p, [text EXCEPT !.is = b[p].is \o @])
          [] j.op = "splice" -> PutAt(b, p, [text EXCEPT !.is = Spliced(b[p].is, j)])
          [] j.op = "inc" -> PutAt(b, p, Shown(Cell("counter",
                                 IF b[p] = ShownVoid THEN 1 ELSE b[p].is[1] + 1)))
          [] j.op = "append" -> Filled(list, p, LenAt(b, p), j.vals)
          [] j.op = "insert" -> Filled(Shifted(list, p, j.at, Len(j.vals)), p, j.at, j.vals)
          [] j.op = "overwrite" -> PutAt(b, Append(p, j.at), Shown(Scalar(j.vals[1])))
          [] j.op = "remove" -> Shifted(b, p, j.at, -1)
          [] j.op \in {"delete", "mapdelete"} ->
                IF Last(p) \in Key THEN PutAt(b, p, ShownVoid)
                ELSE Shifted(b, SubSeq(p, 1, Len(p) - 1), Last(p), -1)

\* The calls of a goroutine that has the document to itself: the last one it
\* made, while it makes no other.
LastCalls == {calls[t][Len(calls[t])] :
                 t \in {u \in Goroutine : calls[u] # <<>> /\ th[u].pc = "idle"}}

\* A List or Text that is attached to an object its path does not lead to: the
\* object was deleted or replaced.
Orphaned(c) == c.job.op \in SeqOps /\ c.tgt # 0 /\ Lookup(c.job.path).n # c.tgt

\* A goroutine that has the document to itself: what returns nil has done to
\* the document what it says, to that place and to no other, and has made the
\* parents that were missing.  Writing to an orphan does nothing to it.
CallsDoWhatTheySay ==
    \A c \in LastCalls :
        c.res = "ok" => View = IF Orphaned(c) THEN c.before ELSE Expected(c.job, c.before)

\* A call fails exactly when its path or its index does not fit the document,
\* List.Delete aside, and a call that fails has left every value alone; it may
\* have made parents.
FailuresAreDue ==
    \A c \in LastCalls :
        /\ c.job.op # "remove" /\ ~Orphaned(c) => (c.res = "ok" <=> Succeeds(c.job, c.before))
        /\ c.res = "error" =>
             \A q \in Probes : View[q] # c.before[q] =>
                 /\ c.before[q] = ShownVoid /\ View[q].tag \in Containers
                 /\ IsPrefix(q, c.job.path)
=============================================================================
