------------------------- MODULE SharedObjects_proofs -------------------------
(***************************************************************************)
(* Objects keep their kind, and what a goroutine remembers between two     *)
(* engine calls names an object of the kind that the next call is for,     *)
(* whatever the other goroutines do in between.  What they add to a list   *)
(* or text stays there, as long as nobody takes anything out.              *)
(***************************************************************************)
EXTENDS SharedObjects, SequenceTheorems, FiniteSetTheorems, TLAPS

\* There is an object o among os, and it is of kind k.
Has(os, o, k) == o \in 1 .. Len(os) /\ os[o].kind = k

\* No object of os is gone or of another kind in os2.
KindsKept(os, os2) == \A o, k : Has(os, o, k) => Has(os2, o, k)

LEMMA FcnIsSeq ==
    ASSUME NEW S, NEW n \in Nat, NEW f \in [1 .. n -> S]
    PROVE  f \in Seq(S)
BY SeqDef

\* All objects, of whatever kind.
Objects(os) ==
    [kind : {"map"}, at : [Key -> Cells(os)]] \cup [kind : {"list", "text"}, at : Seq(Cells(os))]

\* GoodObjs as the type of a sequence.
LEMMA GoodIs ==
    ASSUME NEW os
    PROVE  GoodObjs(os) <=> os \in Seq(Objects(os)) /\ os # <<>> /\ os[Root].kind = "map"
<1>1. \A x : x.kind \in Containers /\ x \in ObjectsOf(x.kind, os) <=> x \in Objects(os)
  BY DEF Objects, ObjectsOf, Containers
<1>2. ASSUME GoodObjs(os) PROVE os \in Seq(Objects(os))
  <2> DEFINE S == Objects(os)
  <2>1. /\ Len(os) \in Nat /\ os = [o \in 1 .. Len(os) |-> os[o]]
        /\ \A o \in DOMAIN os : os[o] \in S
    BY <1>1, <1>2 DEF GoodObjs
  <2> HIDE DEF S
  <2>2. os \in [1 .. Len(os) -> S]
    BY <2>1
  <2>3. os \in Seq(S)
    BY <2>1, <2>2, FcnIsSeq
  <2>. QED
    BY <2>3 DEF S
<1>3. ASSUME os \in Seq(Objects(os)), os # <<>>, os[Root].kind = "map" PROVE GoodObjs(os)
  <2> DEFINE S == Objects(os)
  <2>1. os \in Seq(S)
    BY <1>3
  <2> HIDE DEF S
  <2>2. /\ Len(os) \in Nat /\ os = [o \in 1 .. Len(os) |-> os[o]]
        /\ \A o \in DOMAIN os : os[o] \in S
    BY <2>1
  <2>. QED
    BY <1>1, <1>3, <2>2 DEF GoodObjs, S
<1>. QED
  BY <1>2, <1>3 DEF GoodObjs

-----------------------------------------------------------------------------
(* The engine *)

\* What a cell can refer to stays.
LEMMA ObjectsGrow ==
    ASSUME NEW os, NEW os2, KindsKept(os, os2), DOMAIN os = 1 .. Len(os), DOMAIN os2 = 1 .. Len(os2)
    PROVE  Objects(os) \subseteq Objects(os2)
<1>1. Cells(os) \subseteq Cells(os2)
  BY DEF Cells, KindsKept, Has
<1>2. Seq(Cells(os)) \subseteq Seq(Cells(os2)) /\ [Key -> Cells(os)] \subseteq [Key -> Cells(os2)]
  BY <1>1
<1>. QED
  BY <1>2 DEF Objects

\* The parts of GoodObjs, one object at a time.
LEMMA GoodFacts ==
    ASSUME NEW os, GoodObjs(os)
    PROVE  /\ DOMAIN os = 1 .. Len(os) /\ Len(os) \in Nat /\ Has(os, Root, "map")
           /\ os \in Seq(Objects(os))
           /\ \A o \in 1 .. Len(os) :
                 /\ os[o] = [kind |-> os[o].kind, at |-> os[o].at]
                 /\ os[o].kind \in Containers
                 /\ os[o].kind = "map" => os[o].at \in [Key -> Cells(os)]
                 /\ os[o].kind # "map" => os[o].at \in Seq(Cells(os))
<1>1. os \in Seq(Objects(os)) /\ os # <<>> /\ os[Root].kind = "map"
  BY GoodIs
<1>2. DOMAIN os = 1 .. Len(os) /\ Len(os) \in Nat /\ 1 \in 1 .. Len(os)
  BY <1>1
<1>3. \A o \in 1 .. Len(os) : os[o] \in Objects(os)
  BY <1>1
<1>. QED
  BY <1>1, <1>2, <1>3 DEF Objects, Has, Root, Containers

\* The cells of one object change.
LEMMA ChangedGood ==
    ASSUME NEW os, GoodObjs(os), NEW o \in 1 .. Len(os), NEW at,
           IF os[o].kind = "map" THEN at \in [Key -> Cells(os)] ELSE at \in Seq(Cells(os)),
           NEW os2, os2 = [os EXCEPT ![o].at = at]
    PROVE  GoodObjs(os2) /\ KindsKept(os, os2)
<1>1. /\ DOMAIN os = 1 .. Len(os) /\ Len(os) \in Nat /\ os[Root].kind = "map" /\ 1 <= Len(os)
      /\ os[o] = [kind |-> os[o].kind, at |-> os[o].at] /\ os[o].kind \in Containers
      /\ os \in Seq(Objects(os)) /\ \A q \in 1 .. Len(os) : os[q] \in Objects(os)
  BY GoodFacts DEF Has, Root
<1>2. /\ os2[o] = [kind |-> os[o].kind, at |-> at]
      /\ \A q \in 1 .. Len(os) : q # o => os2[q] = os[q]
      /\ DOMAIN os2 = 1 .. Len(os) /\ os2 = [q \in 1 .. Len(os) |-> os2[q]]
  BY <1>1
<1>3. Len(os2) = Len(os)
  BY <1>1, <1>2
<1>4. \A q \in 1 .. Len(os) : os2[q].kind = os[q].kind
  BY <1>2, ZenonT(60)
<1>5. KindsKept(os, os2)
  BY <1>3, <1>4 DEF KindsKept, Has
<1>7. Objects(os) \subseteq Objects(os2)
  BY <1>1, <1>2, <1>3, <1>5, ObjectsGrow, SMTT(30)
<1>8. os2[o] \in Objects(os)
  BY <1>1, <1>2 DEF Objects, Containers
<1>9. \A q \in 1 .. Len(os) : os2[q] \in Objects(os2)
  BY <1>1, <1>2, <1>7, <1>8
<1>10. GoodObjs(os2)
  <2> DEFINE S == Objects(os2)
  <2>1. os2 \in Seq(S)
    <3>1. os2 = [q \in 1 .. Len(os) |-> os2[q]] /\ \A q \in 1 .. Len(os) : os2[q] \in S
      BY <1>2, <1>9
    <3> HIDE DEF S
    <3>2. os2 \in [1 .. Len(os) -> S]
      BY <3>1
    <3>. QED
      BY <1>1, <3>2, FcnIsSeq
  <2>. QED
    <3>1. os2 # <<>> /\ os2[Root].kind = "map"
      BY <1>1, <1>2, <1>3, <1>4 DEF Root
    <3>. QED
      BY <2>1, <3>1, GoodIs
<1>. QED
  BY <1>5, <1>10

\* The objects once a cell is put that is a new object, or none.
Fits(c) == c \in [tag : {"void", "scalar", "counter"} \cup Containers, n : Nat]
              /\ (c.tag \in Containers => c.n = Len(objs) + 1)

LEMMA WithPutGood ==
    ASSUME GoodObjs(objs), NEW c, Fits(c)
    PROVE  /\ GoodObjs(WithPut(c)) /\ KindsKept(objs, WithPut(c))
           /\ c \in Cells(WithPut(c))
           /\ c.tag \in Containers => Has(WithPut(c), c.n, c.tag)
           /\ \A o \in 1 .. Len(objs) : WithPut(c)[o] = objs[o]
<1> DEFINE os == WithPut(c)
           n  == Len(objs)
<1>1. /\ DOMAIN objs = 1 .. n /\ n \in Nat /\ objs[Root].kind = "map" /\ 1 <= n
      /\ objs \in Seq(Objects(objs)) /\ \A q \in 1 .. n : objs[q] \in Objects(objs)
  BY GoodFacts DEF Has, Root
<1>2. CASE c.tag \notin Containers
  <2>1. os = objs /\ c \in Cells(objs)
    BY <1>2 DEF WithPut, Fits, Cells
  <2>. QED
    BY <1>2, <2>1 DEF KindsKept
<1>3. CASE c.tag \in Containers
  <2> DEFINE x == NewObj(c.tag)
  <2>1. os = Append(objs, x) /\ c.n = n + 1
    BY <1>3 DEF WithPut, Fits
  <2>2. /\ Len(os) = n + 1 /\ DOMAIN os = 1 .. n + 1 /\ os[n + 1] = x
        /\ \A o \in 1 .. n : os[o] = objs[o]
    <3> HIDE DEF x, os
    <3>. QED
      BY <1>1, <2>1
  <2>3. x.kind = c.tag
    BY DEF NewObj
  <2>4. Has(os, c.n, c.tag) /\ KindsKept(objs, os)
    BY <1>1, <2>1, <2>2, <2>3 DEF Has, KindsKept
  <2>5. c \in Cells(os)
    BY <2>2, <2>4 DEF Cells, Has, Fits
  <2>6. Objects(objs) \subseteq Objects(os)
    BY <1>1, <2>2, <2>4, ObjectsGrow
  <2>7. x \in Objects(os)
    <3>1. Void \in Cells(os)
      BY DEF Void, Cell, Cells, Containers
    <3> HIDE DEF os
    <3>2. <<>> \in Seq(Cells(os)) /\ [k \in Key |-> Void] \in [Key -> Cells(os)]
      BY <3>1
    <3>. QED
      BY <1>3, <3>2 DEF Objects, NewObj, Containers
  <2>9. GoodObjs(os)
    <3> HIDE DEF os, x
    <3>1. objs \in Seq(Objects(os))
      BY <1>1, <2>6
    <3>2. os \in Seq(Objects(os))
      BY <2>1, <2>7, <3>1
    <3>3. os # <<>> /\ os[Root].kind = "map"
      BY <1>1, <2>2 DEF Root
    <3>. QED
      BY <3>2, <3>3, GoodIs
  <2>. QED
    BY <2>2, <2>4, <2>5, <2>9
<1>. QED
  BY <1>2, <1>3

\* Where an item is put into a sequence, replaced or taken out, the rest stays.
LEMMA SeqChanges ==
    ASSUME NEW S, NEW s \in Seq(S), NEW i \in Nat, NEW e \in S
    PROVE  /\ i <= Len(s) => InsertAt(s, i + 1, e) \in Seq(S)
           /\ i < Len(s) => ReplaceAt(s, i + 1, e) \in Seq(S)
           /\ i < Len(s) => RemoveAt(s, i + 1) \in Seq(S)
<1>1. ASSUME i <= Len(s) PROVE InsertAt(s, i + 1, e) \in Seq(S)
  <2>1. SubSeq(s, 1, i) \in Seq(S) /\ SubSeq(s, i + 1, Len(s)) \in Seq(S) /\ <<e>> \in Seq(S)
    BY <1>1
  <2>2. i + 1 - 1 = i
    OBVIOUS
  <2>. QED
    BY <2>1, <2>2 DEF InsertAt
<1>2. ASSUME i < Len(s) PROVE ReplaceAt(s, i + 1, e) \in Seq(S)
  BY <1>2 DEF ReplaceAt
<1>3. ASSUME i < Len(s) PROVE RemoveAt(s, i + 1) \in Seq(S)
  <2>1. SubSeq(s, 1, i) \in Seq(S) /\ SubSeq(s, i + 2, Len(s)) \in Seq(S)
    BY <1>3
  <2>2. i + 1 - 1 = i /\ i + 1 + 1 = i + 2
    OBVIOUS
  <2>. QED
    BY <2>1, <2>2 DEF RemoveAt
<1>. QED
  BY <1>1, <1>2, <1>3

LEMMA KeptTrans ==
    ASSUME NEW os, NEW os1, NEW os2, KindsKept(os, os1), KindsKept(os1, os2)
    PROVE  KindsKept(os, os2)
BY DEF KindsKept

LEMMA MapPutGood ==
    ASSUME GoodObjs(objs), NEW c, Fits(c), NEW o, Has(objs, o, "map"), NEW k \in Key
    PROVE  /\ GoodObjs(MapPut(o, k, c)) /\ KindsKept(objs, MapPut(o, k, c))
           /\ c.tag \in Containers => Has(MapPut(o, k, c), c.n, c.tag)
<1> DEFINE os == WithPut(c)
           at == [os[o].at EXCEPT ![k] = c]
<1>1. /\ GoodObjs(os) /\ KindsKept(objs, os) /\ c \in Cells(os)
      /\ c.tag \in Containers => Has(os, c.n, c.tag)
  BY WithPutGood
<1>2. MapPut(o, k, c) = [os EXCEPT ![o].at = at]
  BY DEF MapPut
<1> HIDE DEF os
<1>3. o \in 1 .. Len(os) /\ os[o].kind = "map"
  BY <1>1 DEF KindsKept, Has
<1>4. os[o].at \in [Key -> Cells(os)]
  BY <1>1, <1>3, GoodFacts
<1>5. at \in [Key -> Cells(os)]
  BY <1>1, <1>4
<1> HIDE DEF at
<1>6. GoodObjs(MapPut(o, k, c)) /\ KindsKept(os, MapPut(o, k, c))
  BY <1>1, <1>2, <1>3, <1>5, ChangedGood
<1>7. c.tag \in Containers => Has(MapPut(o, k, c), c.n, c.tag)
  BY <1>1, <1>6 DEF KindsKept
<1>. QED
  BY <1>1, <1>6, <1>7, KeptTrans

LEMMA ListPutGood ==
    ASSUME GoodObjs(objs), NEW c, Fits(c), NEW o, NEW kind, kind # "map", Has(objs, o, kind),
           NEW i \in Nat, NEW insert \in BOOLEAN, CanListPut(o, i, insert)
    PROVE  /\ GoodObjs(ListPut(o, i, insert, c)) /\ KindsKept(objs, ListPut(o, i, insert, c))
           /\ c.tag \in Containers => Has(ListPut(o, i, insert, c), c.n, c.tag)
<1> DEFINE os == WithPut(c)
           s  == os[o].at
           at == IF insert THEN InsertAt(s, i + 1, c) ELSE ReplaceAt(s, i + 1, c)
<1>1. /\ GoodObjs(os) /\ KindsKept(objs, os) /\ c \in Cells(os)
      /\ c.tag \in Containers => Has(os, c.n, c.tag)
      /\ os[o] = objs[o]
  BY WithPutGood DEF Has
<1>2. ListPut(o, i, insert, c) = [os EXCEPT ![o].at = at]
  BY DEF ListPut
<1>3. IF insert THEN i <= Len(s) ELSE i < Len(s)
  BY <1>1 DEF CanListPut, ListLen
<1> HIDE DEF os
<1>4. o \in 1 .. Len(os) /\ os[o].kind # "map"
  BY <1>1 DEF KindsKept, Has
<1>5. s \in Seq(Cells(os))
  BY <1>1, <1>4, GoodFacts
<1> HIDE DEF s
<1>6. at \in Seq(Cells(os))
  BY <1>1, <1>3, <1>5, SeqChanges
<1> HIDE DEF at
<1>7. /\ GoodObjs(ListPut(o, i, insert, c)) /\ KindsKept(os, ListPut(o, i, insert, c))
  BY <1>1, <1>2, <1>4, <1>6, ChangedGood
<1>8. c.tag \in Containers => Has(ListPut(o, i, insert, c), c.n, c.tag)
  BY <1>1, <1>7 DEF KindsKept
<1>. QED
  BY <1>1, <1>7, <1>8, KeptTrans

LEMMA ListDeleteGood ==
    ASSUME GoodObjs(objs), NEW o \in 1 .. Len(objs), NEW i \in Nat, CanListDelete(o, i)
    PROVE  GoodObjs(ListDelete(o, i)) /\ KindsKept(objs, ListDelete(o, i))
<1> DEFINE s  == objs[o].at
           at == RemoveAt(s, i + 1)
<1>1. objs[o].kind = "list" /\ i < Len(s)
  BY DEF CanListDelete, ListLen
<1>2. s \in Seq(Cells(objs))
  BY <1>1, GoodFacts
<1>3. ListDelete(o, i) = [objs EXCEPT ![o].at = at]
  BY DEF ListDelete
<1>4. Void \in Cells(objs)
  BY DEF Void, Cell, Cells, Containers
<1> HIDE DEF s
<1>5. at \in Seq(Cells(objs))
  BY <1>1, <1>2, <1>4, SeqChanges
<1> HIDE DEF at
<1>. QED
  BY <1>1, <1>3, <1>5, ChangedGood

LEMMA ScalarsGood ==
    ASSUME NEW vs \in Seq(Nat), NEW os
    PROVE  Scalars(vs) \in Seq(Cells(os))
<1>1. \A v \in Nat : Scalar(v) \in Cells(os)
  BY DEF Scalar, Cell, Cells, Containers
<1>2. /\ DOMAIN vs = 1 .. Len(vs) /\ Len(vs) \in Nat /\ \A i \in 1 .. Len(vs) : vs[i] \in Nat
  OBVIOUS
<1>3. Scalars(vs) \in [1 .. Len(vs) -> Cells(os)]
  BY <1>1, <1>2 DEF Scalars
<1>. QED
  BY <1>2, <1>3, FcnIsSeq

LEMMA SpliceGood ==
    ASSUME GoodObjs(objs), NEW o, Has(objs, o, "text"), NEW pos \in Int, NEW del \in Int,
           NEW vs \in Seq(Cells(objs))
    PROVE  GoodObjs(Splice(o, pos, del, vs)) /\ KindsKept(objs, Splice(o, pos, del, vs))
<1> DEFINE s    == objs[o].at
           from == pos + 1 + (IF del < 0 THEN 0 ELSE del)
           at   == SubSeq(s, 1, pos) \o vs \o SubSeq(s, from, Len(s))
<1>1. CASE pos \notin 0 .. ListLen(o)
  BY <1>1 DEF Splice, KindsKept
<1>2. CASE pos \in 0 .. ListLen(o)
  <2>1. Splice(o, pos, del, vs) = [objs EXCEPT ![o].at = at]
    BY <1>2 DEF Splice
  <2>2. o \in 1 .. Len(objs) /\ objs[o].kind # "map" /\ s \in Seq(Cells(objs))
    BY GoodFacts DEF Has
  <2>3. pos \in 0 .. Len(s) /\ from \in Int /\ from >= 1
    BY <1>2 DEF ListLen
  <2> HIDE DEF s, from
  <2>4. SubSeq(s, 1, pos) \in Seq(Cells(objs)) /\ SubSeq(s, from, Len(s)) \in Seq(Cells(objs))
    BY <2>2, <2>3
  <2>5. at \in Seq(Cells(objs))
    BY <2>4
  <2> HIDE DEF at
  <2>. QED
    BY <2>1, <2>2, <2>5, ChangedGood
<1>. QED
  BY <1>1, <1>2

LEMMA IncrementGood ==
    ASSUME GoodObjs(objs), NEW o \in 1 .. Len(objs), NEW i, CanIncrement(o, i)
    PROVE  GoodObjs(Increment(o, i)) /\ KindsKept(objs, Increment(o, i))
<1> DEFINE s  == objs[o].at
           c  == [s[i] EXCEPT !.n = @ + 1]
           at == [s EXCEPT ![i] = c]
<1>1. Increment(o, i) = [objs EXCEPT ![o].at = at]
  BY DEF Increment
<1>2. i \in DOMAIN s /\ s[i].tag = "counter"
  BY DEF CanIncrement
<1>3. IF objs[o].kind = "map" THEN s \in [Key -> Cells(objs)] ELSE s \in Seq(Cells(objs))
  BY GoodFacts
<1> HIDE DEF s
<1>4. s[i] \in Cells(objs)
  BY <1>2, <1>3
<1>5. c \in Cells(objs)
  BY <1>2, <1>4 DEF Cells, Containers
<1> HIDE DEF c
<1>6. IF objs[o].kind = "map" THEN at \in [Key -> Cells(objs)] ELSE at \in Seq(Cells(objs))
  BY <1>2, <1>3, <1>5
<1> HIDE DEF at
<1>. QED
  BY <1>1, <1>6, ChangedGood

-----------------------------------------------------------------------------
(* What a goroutine remembers *)

Walking == {"at", "last", "which", "appendlen", "setlen", "droplen", "place", "drop"}

PCs == {"idle", "get", "write", "size", "put", "remove", "clear", "fill", "inc", "ok", "error"}
          \cup Walking

Recs(was) ==
    [pc : PCs, job : Jobs \cup {Idle.job}, mode : {"read", "ensure"}, lvl : Nat, obj : Nat,
     pos : Nat, insert : BOOLEAN, idx : Nat, tgt : Nat, new : Nat, cut : Nat, todo : Seq(Nat),
     before : {was}]

\* The calls that put values into a list.
Adding == {"append", "insert", "overwrite", "slice"}

\* The kind of object that a method of List or Text works on; a slice is a list.
SeqKind(j) == IF j.op \in TextOps THEN "text" ELSE "list"

\* Where the walk is: at a segment of the path, in an object of its kind.
AtSegment(os, r) ==
    /\ r.pc \in {"get", "write", "inc"} \cup Walking => r.lvl \in 1 .. Len(r.job.path)
    /\ r.pc \in {"get", "write"} => Has(os, r.obj, IF Seg(r) \in Key THEN "map" ELSE "list")
    /\ r.pc \in Walking => Has(os, r.obj, "list") /\ Seg(r) \in Int
    /\ r.pc \in {"at", "drop"} => Seg(r) \in Nat
    /\ r.pc = "inc" => r.obj \in 1 .. Len(os)

\* What the method works on: the kind of the objects, and why the steps of one
\* method are never taken by another.  List.Delete does not come to ensure.
AtObject(os, r) ==
    /\ r.tgt # 0 => Has(os, r.tgt, SeqKind(r.job))
    /\ r.pc = "size" => /\ Has(os, r.obj, SeqKind(r.job))
                        /\ r.job.op \in (SeqOps \ {"splice"}) \cup {"slice"}
    /\ r.pc = "put" => r.tgt # 0 /\ r.job.op \in TextOps \cup Adding
    /\ r.pc \in {"clear", "fill"} => /\ Has(os, r.new, "text") /\ AtEnd(r)
                                     /\ r.job.op \in TextOps \cup {"text"}
    /\ r.job.op \in Adding => r.todo # <<>>
    /\ r.job.op = "remove" =>
          \/ r.pc \in {"size", "remove", "error", "ok"}
          \/ r.pc \in {"get", "at"} /\ r.mode = "read"

\* A walk that only reads is that of Len, for a List or Text that is a path.
Reading(r) ==
    r.mode = "read" => /\ r.job.op \in SeqOps \ {"splice"} /\ r.tgt = 0
                       /\ r.pc \in {"get", "at", "size", "remove", "ok", "error"}

Doing(os, r) ==
    /\ r \in Recs(r.before)
    /\ r.pc # "idle" => r.job \in Jobs
    /\ AtSegment(os, r) /\ AtObject(os, r) /\ Reading(r)

\* What a goroutine's variables are attached to.
Holds(os, h) ==
    /\ h \in [HeldKeys -> Nat]
    /\ \A k \in HeldKeys : h[k] # 0 => Has(os, h[k], k[1])

Counted(s, r) ==
    /\ s \in Seq(Range(s)) /\ Len(s) <= MaxCalls
    /\ r.pc # "idle" => Len(s) < MaxCalls

\* The inductive invariant.
ObjectsInv ==
    /\ GoodObjs(objs)
    /\ th = [t \in Goroutine |-> th[t]] /\ held = [t \in Goroutine |-> held[t]]
    /\ calls = [t \in Goroutine |-> calls[t]]
    /\ \A t \in Goroutine :
          Doing(objs, th[t]) /\ Holds(objs, held[t]) /\ Counted(calls[t], th[t])

-----------------------------------------------------------------------------
(* What the operators on a goroutine's record do *)

USE DEF MapOps, PathOps, ListOps, TextOps, SeqOps, Ops

LEMMA JobFacts ==
    ASSUME NEW j \in Jobs
    PROVE  /\ j.op \in Ops /\ j.at \in Int /\ j.del \in Int
           /\ j.path \in Seq(Key \cup Int) /\ Len(j.path) \in Nat /\ Len(j.path) >= 1
           /\ j.path[1] \in Key /\ \A i \in 1 .. Len(j.path) : j.path[i] \in Key \cup Int
           /\ j.vals \in Seq(Nat)
           /\ j.op \in {"set", "mapset"} \cup Adding => j.vals # <<>>
<1>1. /\ j.op \in Ops /\ j.at \in Int /\ j.del \in Int
      /\ j.path \in Seq(Key \cup Int) /\ j.path # <<>> /\ j.path[1] \in Key
      /\ j.vals \in Seq(Nat)
      /\ j.op \in {"set", "mapset", "append", "insert", "overwrite", "slice"} => j.vals # <<>>
  BY ObjectsAssumption
<1>2. Len(j.path) \in Nat /\ Len(j.path) >= 1 /\ \A i \in 1 .. Len(j.path) : j.path[i] \in Key \cup Int
  BY <1>1
<1>. QED
  BY <1>1, <1>2 DEF Adding

LEMMA KeysApart == \A k \in Key : k \notin Int
BY ObjectsAssumption

\* What does not change unless a step says so.
Same(u, r) ==
    /\ u.before = r.before /\ u.job = r.job /\ u.mode = r.mode /\ u.lvl = r.lvl
    /\ u.obj = r.obj /\ u.tgt = r.tgt /\ u.new = r.new /\ u.todo = r.todo /\ u.idx = r.idx

LEMMA PcOnly ==
    ASSUME NEW r, r \in Recs(r.before), NEW p \in PCs, NEW u, u = [r EXCEPT !.pc = p]
    PROVE  u \in Recs(u.before) /\ Same(u, r) /\ u.pc = p
BY DEF Recs, Same

\* What a goroutine remembers stays right while objects keep their kind.
LEMMA DoingKept ==
    ASSUME NEW os, NEW os2, KindsKept(os, os2), NEW r, Doing(os, r)
    PROVE  Doing(os2, r)
<1>1. \A o : o \in 1 .. Len(os) => o \in 1 .. Len(os2)
  BY DEF KindsKept, Has
<1>2. AtSegment(os2, r)
  BY <1>1 DEF Doing, AtSegment, KindsKept
<1>3. AtObject(os2, r)
  BY DEF Doing, AtObject, KindsKept
<1>. QED
  BY <1>2, <1>3 DEF Doing

LEMMA HoldsKept ==
    ASSUME NEW os, NEW os2, KindsKept(os, os2), NEW h, Holds(os, h)
    PROVE  Holds(os2, h)
BY DEF Holds, KindsKept

LEMMA IdleDoing == \A os : Doing(os, Idle)
<1>1. Idle \in Recs(Idle.before)
  BY DEF Recs, Idle, PCs, Walking
<1>2. /\ Idle.pc = "idle" /\ Idle.tgt = 0 /\ Idle.job.op = "none" /\ Idle.mode = "ensure"
  BY DEF Idle
<1>. QED
  BY <1>1, <1>2 DEF Doing, AtSegment, AtObject, Reading, Walking, Adding

\* An end of the call, with or without an error.
LEMMA EndDoing ==
    ASSUME NEW os, NEW r, Doing(os, r), r.job \in Jobs, NEW p \in {"ok", "error"},
           NEW u, u = [r EXCEPT !.pc = p]
    PROVE  Doing(os, u) /\ u.job \in Jobs /\ u.pc # "idle"
<1>1. u \in Recs(u.before) /\ Same(u, r) /\ u.pc = p
  BY PcOnly DEF Doing, PCs
<1>2. AtSegment(os, u)
  BY <1>1 DEF AtSegment, Walking
<1>3. AtObject(os, u)
  BY <1>1 DEF Doing, AtObject, Same
<1>4. Reading(u)
  BY <1>1 DEF Doing, Reading, Same
<1>. QED
  BY <1>1, <1>2, <1>3, <1>4 DEF Doing, Same

\* What a walk needs to start.
Ready(os, r) ==
    /\ r \in Recs(r.before) /\ r.job \in Jobs
    /\ r.tgt # 0 => Has(os, r.tgt, SeqKind(r.job))
    /\ r.job.op \in Adding => r.todo # <<>>
    /\ r.mode = "read" => r.job.op \in SeqOps \ {"splice"} /\ r.tgt = 0

LEMMA DoingReady ==
    ASSUME NEW os, NEW r, Doing(os, r), r.job \in Jobs
    PROVE  Ready(os, r)
BY DEF Doing, AtObject, Reading, Ready

\* The walk goes on at the next segment, in an object of the kind for it.
LEMMA EnterDoing ==
    ASSUME NEW os, NEW r, Ready(os, r), r.job.op = "remove" => r.mode = "read",
           NEW l \in 1 .. Len(r.job.path), NEW o \in Nat,
           Has(os, o, IF r.job.path[l] \in Key THEN "map" ELSE "list"),
           NEW u, u = Enter(r, l, o)
    PROVE  Doing(os, u) /\ u.job \in Jobs /\ u.pc # "idle"
<1> DEFINE p == IF r.job.op \in MapOps /\ l = Len(r.job.path) THEN "write" ELSE "get"
<1>1. /\ u \in Recs(u.before) /\ u.before = r.before /\ u.job = r.job /\ u.mode = r.mode
      /\ u.lvl = l /\ u.obj = o /\ u.tgt = r.tgt /\ u.todo = r.todo /\ u.pc = p
  <2>1. u = [r EXCEPT !.lvl = l, !.obj = o, !.pc = p]
    BY DEF Enter
  <2>2. p \in PCs /\ l \in Nat
    BY JobFacts DEF PCs, Ready
  <2> HIDE DEF p
  <2>. QED
    BY <2>1, <2>2, ZenonT(60) DEF Ready, Recs
<1>2. u.pc = p
  BY <1>1
<1>3. AtSegment(os, u)
  BY <1>1, <1>2 DEF AtSegment, Seg, Walking
<1>4. AtObject(os, u)
  BY <1>1, <1>2 DEF Ready, AtObject
<1>5. Reading(u)
  BY <1>1, <1>2 DEF Ready, Reading
<1>. QED
  BY <1>1, <1>2, <1>3, <1>4, <1>5 DEF Ready, Doing

\* The next engine call of a walk, on the list that it has reached.
LEMMA WalkDoing ==
    ASSUME NEW os, NEW r, Doing(os, r), r.job \in Jobs, r.pc \in {"get", "write"} \cup Walking,
           Seg(r) \notin Key, NEW p \in Walking, p \in {"at", "drop"} => Seg(r) \in Nat,
           p = "at" \/ r.mode = "ensure",
           NEW u, u \in Recs(u.before), Same(u, r), u.pc = p
    PROVE  Doing(os, u) /\ u.job \in Jobs /\ u.pc # "idle"
<1>1. r.lvl \in 1 .. Len(r.job.path) /\ Seg(r) \in Int /\ Seg(u) = Seg(r)
  BY JobFacts DEF Doing, AtSegment, Seg, Same
<1>2. Has(os, r.obj, "list")
  BY DEF Doing, AtSegment
<1>3. AtSegment(os, u)
  BY <1>1, <1>2 DEF AtSegment, Same, Walking
<1>4. AtObject(os, u)
  BY DEF Doing, AtObject, Same, Walking, Reading
<1>5. Reading(u)
  BY DEF Doing, Reading, Same, Walking
<1>. QED
  BY <1>3, <1>4, <1>5 DEF Doing, Same, Walking

\* A length is known: an error, or the write, or the walk that finds the object.
LEMMA SizedDoing ==
    ASSUME NEW os, GoodObjs(os), NEW r, Doing(os, r), r.job \in Jobs,
           r.job.op \in (SeqOps \ {"splice"}) \cup {"slice"}, NEW len \in Nat,
           NEW u, u = Sized(r, len)
    PROVE  Doing(os, u) /\ u.job \in Jobs /\ u.pc # "idle"
<1> DEFINE i   == IF r.job.op \in {"insert", "overwrite", "remove"} THEN r.job.at ELSE len
           bad == i < 0 \/ i > len \/ (r.job.op \in {"overwrite", "remove"} /\ i = len)
<1>1. r \in Recs(r.before) /\ i \in Int
  BY JobFacts DEF Doing
<1>2. CASE bad
  <2>1. u = [r EXCEPT !.pc = "error"]
    BY <1>2 DEF Sized, Fail
  <2>. QED
    BY <2>1, EndDoing
<1>3. ASSUME ~bad, r.job.op = "remove" \/ r.tgt # 0
      PROVE  Doing(os, u) /\ u.job \in Jobs /\ u.pc # "idle"
  <2> DEFINE p == IF r.job.op = "remove" THEN "remove" ELSE "put"
  <2>1. u = [r EXCEPT !.idx = i, !.pc = p]
    BY <1>1, <1>3 DEF Sized, Recs
  <2>2. i \in Nat /\ p \in PCs
    BY <1>1, <1>3 DEF PCs
  <2>3. \/ p = "remove" /\ r.job.op = "remove"
        \/ p = "put" /\ r.tgt # 0 /\ r.job.op # "remove"
    BY <1>3
  <2> HIDE DEF i, bad, p
  <2>4. /\ u \in Recs(u.before) /\ u.pc = p /\ u.job = r.job /\ u.mode = r.mode
        /\ u.tgt = r.tgt /\ u.todo = r.todo
    BY <1>1, <2>1, <2>2 DEF Recs
  <2>5. AtSegment(os, u)
    BY <2>3, <2>4 DEF AtSegment, Walking
  <2>6. AtObject(os, u)
    BY <2>3, <2>4 DEF Doing, AtObject, Adding
  <2>7. Reading(u)
    BY <2>3, <2>4 DEF Doing, Reading
  <2>. QED
    BY <2>3, <2>4, <2>5, <2>6, <2>7 DEF Doing
<1>4. ASSUME ~bad, r.job.op # "remove", r.tgt = 0
      PROVE  Doing(os, u) /\ u.job \in Jobs /\ u.pc # "idle"
  <2>1. u = [Enter([r EXCEPT !.idx = i], 1, Root) EXCEPT !.mode = "ensure"]
    BY <1>1, <1>4 DEF Sized, Recs
  <2>2. i \in Nat
    BY <1>1, <1>4
  <2> HIDE DEF i, bad
  <2> DEFINE v == [r EXCEPT !.idx = i, !.mode = "ensure"]
  <2>3. u = Enter(v, 1, Root)
    BY <1>1, <2>1 DEF Enter, Root, Recs
  <2>4. /\ v \in Recs(v.before) /\ v.job = r.job /\ v.mode = "ensure"
        /\ v.tgt = r.tgt /\ v.todo = r.todo
    BY <1>1, <2>2 DEF Recs
  <2> HIDE DEF v
  <2>5. Ready(os, v)
    BY <2>4, DoingReady DEF Ready
  <2>6. 1 \in 1 .. Len(v.job.path) /\ v.job.path[1] \in Key
    BY <2>4, JobFacts
  <2>7. Root \in Nat /\ Has(os, Root, "map")
    BY GoodFacts DEF Root
  <2>. QED
    BY <1>4, <2>3, <2>4, <2>5, <2>6, <2>7, EnterDoing
<1>. QED
  BY <1>2, <1>3, <1>4

\* What has to be at a segment.
LEMMA WantedFacts ==
    ASSUME NEW r, r.job \in Jobs, r.lvl \in 1 .. Len(r.job.path)
    PROVE  /\ ~AtEnd(r) => /\ Wanted(r) = IF r.job.path[r.lvl + 1] \in Key THEN "map" ELSE "list"
                           /\ r.lvl + 1 \in 1 .. Len(r.job.path)
           /\ AtEnd(r) => Wanted(r) = IF r.job.op \in ListOps THEN "list"
                                      ELSE IF r.job.op \in TextOps THEN "text"
                                      ELSE IF r.job.op = "inc" THEN "counter" ELSE "any"
<1>1. Len(r.job.path) \in Nat
  BY JobFacts
<1>2. CASE ~AtEnd(r)
  BY <1>1, <1>2 DEF Wanted, AtEnd
<1>3. CASE AtEnd(r)
  BY <1>3 DEF Wanted
<1>. QED
  BY <1>2, <1>3

\* What is put at a segment, an object that is new or none, is what is wanted.
LEMMA ToWriteFits ==
    ASSUME GoodObjs(objs), NEW r, r.job \in Jobs, r.lvl \in 1 .. Len(r.job.path),
           NEW c, c = ToWrite(r)
    PROVE  /\ Fits(c)
           /\ Wanted(r) # "any" => c.tag = Wanted(r)
           /\ AtEnd(r) /\ r.job.op = "slice" => c.tag = "list"
           /\ c.tag = "text" => AtEnd(r) /\ r.job.op \in TextOps \cup {"text"}
<1>1. Len(objs) + 1 \in Nat
  BY GoodFacts
<1>2. Wanted(r) \in {"map", "list", "text", "counter", "any"}
  BY WantedFacts
<1>3. CASE Wanted(r) # "any"
  <2>1. c = Cell(Wanted(r), IF Wanted(r) = "counter" THEN 0 ELSE Len(objs) + 1)
    BY <1>3 DEF ToWrite
  <2>2. c.tag = Wanted(r) /\ c.n = (IF Wanted(r) = "counter" THEN 0 ELSE Len(objs) + 1)
    BY <2>1 DEF Cell
  <2>3. Fits(c)
    BY <1>1, <1>2, <1>3, <2>1 DEF Fits, Cell, Containers
  <2>. QED
    BY <1>3, <2>2, <2>3, WantedFacts
<1>4. CASE Wanted(r) = "any"
  <2>1. AtEnd(r)
    BY <1>4, WantedFacts
  <2>2. CASE r.job.op = "slice"
    BY <1>1, <1>4, <2>2 DEF ToWrite, Fits, Cell, Containers
  <2>3. CASE r.job.op = "text"
    BY <1>1, <1>4, <2>1, <2>3 DEF ToWrite, Fits, Cell, Containers
  <2>4. CASE r.job.op \in {"set", "mapset"}
    <3>1. r.job.vals[1] \in Nat
      BY <2>4, JobFacts
    <3>. QED
      BY <1>4, <2>4, <3>1 DEF ToWrite, Fits, Scalar, Cell, Containers
  <2>5. CASE r.job.op \notin {"slice", "text", "set", "mapset"}
    BY <1>4, <2>5 DEF ToWrite, Fits, Void, Cell, Containers
  <2>. QED
    BY <2>2, <2>3, <2>4, <2>5
<1>. QED
  BY <1>3, <1>4

\* c is at the segment, and is what the walk or the method looks for.
LEMMA ReachedDoing ==
    ASSUME NEW os, NEW r, Doing(os, r), r.job \in Jobs,
           r.lvl \in 1 .. Len(r.job.path), r.obj \in 1 .. Len(os),
           r.job.op = "remove" => r.mode = "read", AtEnd(r) => r.mode = "ensure",
           NEW c, c.n \in Nat, c.tag \in Containers => Has(os, c.n, c.tag),
           ~AtEnd(r) => c.tag = Wanted(r),
           AtEnd(r) /\ r.job.op \in SeqOps \cup {"slice"} => c.tag = SeqKind(r.job),
           NEW u, u = Reached(r, c)
    PROVE  Doing(os, u) /\ u.job \in Jobs /\ u.pc # "idle"
<1>1. r \in Recs(r.before)
  BY DEF Doing
<1>2. CASE ~AtEnd(r)
  <2>1. u = Enter(r, r.lvl + 1, c.n)
    BY <1>2 DEF Reached
  <2>2. r.lvl + 1 \in 1 .. Len(r.job.path)
    BY <1>2, WantedFacts
  <2>3. Has(os, c.n, IF r.job.path[r.lvl + 1] \in Key THEN "map" ELSE "list")
    BY <1>2, WantedFacts DEF Containers
  <2>. QED
    BY <2>1, <2>2, <2>3, DoingReady, EnterDoing
<1>3. CASE AtEnd(r) /\ r.job.op = "inc"
  <2>1. u = [r EXCEPT !.pc = "inc"]
    BY <1>3 DEF Reached
  <2>2. u \in Recs(u.before) /\ Same(u, r) /\ u.pc = "inc"
    BY <1>1, <2>1, PcOnly, ZenonT(60) DEF PCs
  <2>. QED
    BY <1>3, <2>2 DEF Doing, AtSegment, AtObject, Reading, Same, Walking
<1>4. CASE AtEnd(r) /\ r.job.op \in SeqOps
  <2>1. u = [r EXCEPT !.pc = "put", !.tgt = c.n]
    BY <1>4 DEF Reached
  <2>2. /\ u \in Recs(u.before) /\ u.pc = "put" /\ u.tgt = c.n
        /\ u.job = r.job /\ u.mode = r.mode /\ u.todo = r.todo
    BY <1>1, <2>1 DEF Recs, PCs
  <2>3. Has(os, c.n, SeqKind(r.job)) /\ r.mode = "ensure" /\ c.n # 0
    BY <1>4 DEF SeqKind, Containers, Has
  <2>4. AtObject(os, u)
    BY <1>4, <2>2, <2>3 DEF Doing, AtObject, Adding
  <2>. QED
    BY <2>2, <2>3, <2>4 DEF Doing, AtSegment, Reading, Walking
<1>5. CASE AtEnd(r) /\ r.job.op = "slice"
  <2>1. u = [r EXCEPT !.pc = "size", !.obj = c.n, !.tgt = c.n]
    BY <1>5 DEF Reached
  <2>2. /\ u \in Recs(u.before) /\ u.pc = "size" /\ u.tgt = c.n /\ u.obj = c.n
        /\ u.job = r.job /\ u.mode = r.mode /\ u.todo = r.todo
    BY <1>1, <2>1 DEF Recs, PCs
  <2>3. Has(os, c.n, SeqKind(r.job)) /\ r.mode = "ensure"
    BY <1>5 DEF SeqKind, Containers
  <2>4. AtObject(os, u)
    BY <1>5, <2>2, <2>3 DEF Doing, AtObject
  <2>. QED
    BY <2>2, <2>3, <2>4 DEF Doing, AtSegment, Reading, Walking
<1>6. CASE AtEnd(r) /\ r.job.op \notin SeqOps \cup {"inc", "slice"}
  <2>1. u = [r EXCEPT !.pc = "ok"]
    BY <1>6 DEF Reached
  <2>. QED
    BY <2>1, EndDoing
<1>. QED
  BY <1>2, <1>3, <1>4, <1>5, <1>6

\* Where a walk is, it has an object and a segment.
LEMMA WalkFacts ==
    ASSUME NEW os, NEW r, Doing(os, r), r.job \in Jobs,
           r.pc \in {"get", "write", "inc"} \cup Walking
    PROVE  /\ r.lvl \in 1 .. Len(r.job.path) /\ r.obj \in 1 .. Len(os)
           /\ Seg(r) \in Key \cup Int
<1>1. r.lvl \in 1 .. Len(r.job.path)
  BY DEF Doing, AtSegment
<1>2. Seg(r) \in Key \cup Int
  BY <1>1, JobFacts DEF Seg
<1>3. r.obj \in 1 .. Len(os)
  BY DEF Doing, AtSegment, Has
<1>. QED
  BY <1>1, <1>2, <1>3

\* c has been put at the segment.
LEMMA WrittenDoing ==
    ASSUME NEW os, NEW r, Doing(os, r), r.job \in Jobs, r.pc \in {"write", "place"},
           NEW c, c.n \in Nat, c.tag \in Containers => Has(os, c.n, c.tag),
           Wanted(r) # "any" => c.tag = Wanted(r),
           AtEnd(r) /\ r.job.op = "slice" => c.tag = "list",
           c.tag = "text" => AtEnd(r) /\ r.job.op \in TextOps \cup {"text"},
           NEW u, u = Written(r, c)
    PROVE  Doing(os, u) /\ u.job \in Jobs /\ u.pc # "idle"
<1>1. /\ r \in Recs(r.before) /\ r.mode = "ensure" /\ r.job.op # "remove"
  BY DEF Doing, Reading, AtObject, Recs
<1>2. r.lvl \in 1 .. Len(r.job.path) /\ r.obj \in 1 .. Len(os)
  BY WalkFacts DEF Walking
<1>3. CASE c.tag = "text"
  <2>1. u = [r EXCEPT !.pc = "clear", !.new = c.n]
    BY <1>3 DEF Written
  <2>2. /\ u \in Recs(u.before) /\ u.pc = "clear" /\ u.new = c.n /\ u.job = r.job
        /\ u.mode = r.mode /\ u.tgt = r.tgt /\ u.todo = r.todo /\ u.lvl = r.lvl
    BY <1>1, <2>1 DEF Recs, PCs
  <2>3. Has(os, c.n, "text") /\ AtEnd(u) /\ u.job.op \in TextOps \cup {"text"}
    BY <1>3, <2>2 DEF Containers, AtEnd
  <2>4. AtObject(os, u)
    BY <1>1, <2>2, <2>3 DEF Doing, AtObject
  <2>. QED
    BY <1>1, <2>2, <2>4 DEF Doing, AtSegment, Reading, Walking
<1>4. CASE c.tag # "text"
  <2>1. u = Reached(r, c)
    BY <1>4 DEF Written
  <2>2. ~AtEnd(r) => c.tag = Wanted(r)
    BY <1>2, WantedFacts
  <2>3. AtEnd(r) /\ r.job.op \in SeqOps \cup {"slice"} => c.tag = SeqKind(r.job)
    BY <1>2, WantedFacts DEF SeqKind
  <2>. QED
    BY <1>1, <1>2, <2>1, <2>2, <2>3, ReachedDoing
<1>. QED
  BY <1>3, <1>4

\* v was found at the segment.
LEMMA ArrivedDoing ==
    ASSUME NEW os, GoodObjs(os), NEW r, Doing(os, r), r.job \in Jobs, r.pc \in {"get", "at"},
           NEW v \in Cells(os), NEW u, u = Arrived(r, v)
    PROVE  Doing(os, u) /\ u.job \in Jobs /\ u.pc # "idle"
<1>1. r \in Recs(r.before) /\ r.mode \in {"read", "ensure"}
  BY DEF Doing, Recs
<1>2. r.lvl \in 1 .. Len(r.job.path) /\ r.obj \in 1 .. Len(os) /\ Seg(r) \in Key \cup Int
  BY WalkFacts DEF Walking
<1>3. /\ v.n \in Nat /\ v.tag \in {"void", "scalar", "counter"} \cup Containers
      /\ v.tag \in Containers => Has(os, v.n, v.tag)
  BY GoodFacts DEF Cells, Has
<1>4. CASE r.mode = "read"
  <2>1. r.job.op \in SeqOps \ {"splice"} /\ r.tgt = 0
    BY <1>4 DEF Doing, Reading
  <2>2. CASE v.tag # Wanted(r)
    <3>1. u = Sized(r, 0)
      BY <1>4, <2>2 DEF Arrived
    <3>. QED
      BY <2>1, <3>1, SizedDoing
  <2>3. CASE v.tag = Wanted(r) /\ AtEnd(r)
    <3>1. u = [r EXCEPT !.pc = "size", !.obj = v.n]
      BY <1>4, <2>3 DEF Arrived
    <3>2. /\ u \in Recs(u.before) /\ u.pc = "size" /\ u.obj = v.n /\ u.job = r.job
          /\ u.mode = r.mode /\ u.tgt = r.tgt /\ u.todo = r.todo
      BY <1>1, <1>3, <3>1 DEF Recs, PCs
    <3>3. v.tag = SeqKind(r.job) /\ Has(os, v.n, SeqKind(r.job))
      BY <1>2, <1>3, <2>1, <2>3, WantedFacts DEF SeqKind, Containers
    <3>4. AtObject(os, u)
      BY <2>1, <3>2, <3>3 DEF Doing, AtObject
    <3>. QED
      BY <2>1, <3>2, <3>4 DEF Doing, AtSegment, Reading, Walking
  <2>4. CASE v.tag = Wanted(r) /\ ~AtEnd(r)
    <3>1. u = Reached(r, v)
      BY <1>4, <2>4 DEF Arrived
    <3>. QED
      BY <1>2, <1>3, <1>4, <2>4, <3>1, ReachedDoing
  <2>. QED
    BY <2>2, <2>3, <2>4
<1>5. CASE r.mode = "ensure"
  <2>1. r.job.op # "remove"
    BY <1>5 DEF Doing, AtObject
  <2>2. CASE v.tag = Wanted(r)
    <3>1. u = Reached(r, v)
      BY <1>5, <2>2 DEF Arrived
    <3>2. AtEnd(r) /\ r.job.op \in SeqOps \cup {"slice"} => v.tag = SeqKind(r.job)
      BY <1>2, <1>3, <2>2, WantedFacts DEF SeqKind, Containers
    <3>. QED
      BY <1>2, <1>3, <1>5, <2>1, <2>2, <3>1, <3>2, ReachedDoing
  <2>3. CASE v.tag # Wanted(r) /\ (v = Void \/ Wanted(r) = "any")
    <3>1. u = [r EXCEPT !.pc = "write"]
      BY <1>5, <2>3 DEF Arrived
    <3>2. u \in Recs(u.before) /\ Same(u, r) /\ u.pc = "write"
      BY <1>1, <3>1, PcOnly DEF PCs
    <3>3. Has(os, r.obj, IF Seg(r) \in Key THEN "map" ELSE "list")
      BY KeysApart DEF Doing, AtSegment, Walking
    <3>4. AtSegment(os, u)
      BY <1>2, <3>2, <3>3 DEF AtSegment, Seg, Same, Walking
    <3>5. AtObject(os, u)
      BY <2>1, <3>2 DEF Doing, AtObject, Same
    <3>. QED
      BY <1>5, <3>2, <3>4, <3>5 DEF Doing, Reading, Same
  <2>4. CASE v.tag # Wanted(r) /\ ~(v = Void \/ Wanted(r) = "any")
    <3>1. u = [r EXCEPT !.pc = "error"]
      BY <1>5, <2>4 DEF Arrived, Fail
    <3>. QED
      BY <3>1, EndDoing
  <2>. QED
    BY <2>2, <2>3, <2>4
<1>. QED
  BY <1>1, <1>4, <1>5

\* The start of a call.
LEMMA BeginDoing ==
    ASSUME ObjectsInv, NEW t \in Goroutine, NEW j \in Jobs, NEW u, u = Begin(t, j)
    PROVE  Doing(objs, u) /\ u.job \in Jobs /\ u.pc # "idle"
<1> DEFINE r   == [Idle EXCEPT !.job = j, !.before = View, !.todo = j.vals]
           key == <<IF j.op \in ListOps THEN "list" ELSE "text", j.path>>
           tgt == IF j.op \in SeqOps THEN held[t][key] ELSE 0
<1>1. /\ u = CASE tgt # 0 -> [r EXCEPT !.pc = IF j.op = "splice" THEN "put" ELSE "size",
                                       !.obj = tgt, !.tgt = tgt]
               [] tgt = 0 /\ j.op \in SeqOps \ {"splice"} ->
                     [Enter(r, 1, Root) EXCEPT !.mode = "read"]
               [] OTHER -> Enter(r, 1, Root)
  BY DEF Begin
<1>2. /\ r \in Recs(r.before) /\ r.pc = "idle" /\ r.job = j /\ r.todo = j.vals
      /\ r.mode = "ensure" /\ r.tgt = 0
  BY JobFacts DEF Idle, Recs, PCs
<1>3. GoodObjs(objs) /\ Has(objs, Root, "map")
  BY GoodFacts DEF ObjectsInv
<1>4. tgt # 0 => Has(objs, tgt, SeqKind(j)) /\ j.op \in SeqOps /\ tgt \in Nat
  <2>1. ASSUME j.op \in SeqOps PROVE key \in HeldKeys
    BY <2>1 DEF HeldKeys
  <2>2. Holds(objs, held[t])
    BY DEF ObjectsInv
  <2>3. ASSUME j.op \in SeqOps PROVE key[1] = SeqKind(j)
    BY <2>3 DEF SeqKind
  <2> HIDE DEF key
  <2>. QED
    BY <2>1, <2>2, <2>3 DEF Holds
<1>5. j.op \in Adding => j.vals # <<>>
  BY JobFacts
<1> HIDE DEF r, tgt
<1>6. CASE tgt # 0
  <2> DEFINE p == IF j.op = "splice" THEN "put" ELSE "size"
  <2>1. u = [r EXCEPT !.pc = p, !.obj = tgt, !.tgt = tgt]
    BY <1>1, <1>6
  <2>2. p \in PCs /\ (p = "put" => j.op = "splice") /\ (p = "size" => j.op # "splice")
    BY DEF PCs
  <2>3. p \in {"put", "size"}
    OBVIOUS
  <2> HIDE DEF p
  <2>4. /\ u \in Recs(u.before) /\ u.pc = p /\ u.obj = tgt /\ u.tgt = tgt /\ u.job = j
        /\ u.todo = j.vals /\ u.mode = "ensure"
    BY <1>2, <1>4, <1>6, <2>1, <2>2, ZenonT(60) DEF Recs
  <2>5. AtObject(objs, u)
    BY <1>4, <1>5, <1>6, <2>2, <2>3, <2>4 DEF AtObject
  <2>. QED
    BY <2>3, <2>4, <2>5 DEF Doing, AtSegment, Reading, Walking
<1>7. CASE tgt = 0
  <2> DEFINE mode == IF j.op \in SeqOps \ {"splice"} THEN "read" ELSE "ensure"
             v    == [r EXCEPT !.mode = mode]
  <2>1. u = Enter(v, 1, Root)
    <3>1. CASE j.op \in SeqOps \ {"splice"}
      BY <1>1, <1>2, <1>7, <3>1, ZenonT(60) DEF Enter, Recs
    <3>2. CASE j.op \notin SeqOps \ {"splice"}
      <4>1. u = Enter(r, 1, Root) /\ v = r
        BY <1>1, <1>2, <1>7, <3>2 DEF Recs
      <4>. QED
        BY <4>1
    <3>. QED
      BY <3>1, <3>2
  <2>2. /\ v \in Recs(v.before) /\ v.pc = "idle" /\ v.job = j /\ v.todo = j.vals
        /\ v.mode = mode /\ v.tgt = 0
    BY <1>2 DEF Recs
  <2>3. mode = "read" <=> j.op \in SeqOps \ {"splice"}
    OBVIOUS
  <2> HIDE DEF v, mode
  <2>4. 1 \in 1 .. Len(v.job.path) /\ v.job.path[1] \in Key /\ Root \in Nat
    BY <2>2, JobFacts DEF Root
  <2>5. Ready(objs, v)
    BY <1>5, <2>2, <2>3 DEF Ready
  <2>. QED
    BY <1>3, <2>1, <2>2, <2>3, <2>4, <2>5, EnterDoing
<1>. QED
  BY <1>6, <1>7

-----------------------------------------------------------------------------
(* The steps *)

LEMMA RangeIsEnough ==
    ASSUME NEW S, NEW s \in Seq(S)
    PROVE  s \in Seq(Range(s))
<1>1. DOMAIN s = 1 .. Len(s) /\ Len(s) \in Nat /\ s \in [1 .. Len(s) -> S]
  OBVIOUS
<1>2. s \in [1 .. Len(s) -> Range(s)]
  BY <1>1 DEF Range
<1>. QED
  BY <1>1, <1>2, FcnIsSeq

LEMMA CountedMore ==
    ASSUME NEW s, NEW r, Counted(s, r), Len(s) < MaxCalls, NEW e
    PROVE  Counted(Append(s, e), Idle)
<1> DEFINE S == Range(s) \cup {e}
<1>1. s \in Seq(Range(s))
  BY DEF Counted
<1> HIDE DEF S
<1>2. s \in Seq(S) /\ e \in S
  BY <1>1 DEF S
<1>3. Append(s, e) \in Seq(S) /\ Len(Append(s, e)) = Len(s) + 1 /\ Len(s) \in Nat
  BY <1>2
<1>4. Append(s, e) \in Seq(Range(Append(s, e)))
  BY <1>3, RangeIsEnough
<1>5. Idle.pc = "idle" /\ MaxCalls \in Nat
  BY ObjectsAssumption DEF Idle
<1>. QED
  BY <1>3, <1>4, <1>5 DEF Counted

\* A step of goroutine t that leaves it in u, and objects of their kinds, keeps
\* the invariant.
LEMMA GoInv ==
    ASSUME ObjectsInv, NEW t \in Goroutine, Len(calls[t]) < MaxCalls,
           GoodObjs(objs'), KindsKept(objs, objs'),
           NEW u, Go(t, u), Doing(objs', u), u.job \in Jobs, u.pc # "idle"
    PROVE  ObjectsInv'
<1> DEFINE j   == u.job
           key == <<IF j.op \in ListOps THEN "list" ELSE "text", j.path>>
           e   == [job |-> u.job, res |-> u.pc, tgt |-> u.tgt, before |-> u.before]
<1>1. /\ th = [s \in Goroutine |-> th[s]] /\ held = [s \in Goroutine |-> held[s]]
      /\ calls = [s \in Goroutine |-> calls[s]]
      /\ \A s \in Goroutine :
            Doing(objs, th[s]) /\ Holds(objs, held[s]) /\ Counted(calls[s], th[s])
  BY DEF ObjectsInv
<1>2. \A s \in Goroutine : Doing(objs', th[s]) /\ Holds(objs', held[s])
  BY <1>1, DoingKept, HoldsKept
<1>3. /\ th' = [s \in Goroutine |-> th'[s]] /\ \A s \in Goroutine : s # t => th'[s] = th[s]
      /\ calls' = [s \in Goroutine |-> calls'[s]]
      /\ \A s \in Goroutine : s # t => calls'[s] = calls[s]
  BY <1>1 DEF Go
<1>4. Doing(objs', th'[t]) /\ Counted(calls'[t], th'[t])
  <2>1. CASE u.pc \in {"ok", "error"}
    <3>1. th'[t] = Idle /\ calls'[t] = Append(calls[t], e)
      BY <1>1, <2>1 DEF Go
    <3> HIDE DEF e
    <3>. QED
      BY <1>1, <3>1, IdleDoing, CountedMore
  <2>2. CASE u.pc \notin {"ok", "error"}
    <3>1. th'[t] = u /\ calls'[t] = calls[t]
      BY <1>1, <2>2 DEF Go
    <3>. QED
      BY <1>1, <3>1 DEF Counted
  <2>. QED
    BY <2>1, <2>2
<1>5. /\ held' = [s \in Goroutine |-> held'[s]]
      /\ \A s \in Goroutine : Holds(objs', held'[s])
  <2>1. CASE u.job.op \in SeqOps
    <3>1. held' = [held EXCEPT ![t][key] = u.tgt]
      BY <2>1 DEF Go
    <3>2. key \in HeldKeys /\ key[1] = SeqKind(u.job)
      BY <2>1 DEF HeldKeys, SeqKind
    <3>3. u.tgt \in Nat /\ (u.tgt # 0 => Has(objs', u.tgt, SeqKind(u.job)))
      BY DEF Doing, Recs, AtObject
    <3> HIDE DEF key
    <3>4. /\ held' = [s \in Goroutine |-> held'[s]]
          /\ \A s \in Goroutine : s # t => held'[s] = held[s]
          /\ held'[t] = [held[t] EXCEPT ![key] = u.tgt]
      BY <1>1, <3>1
    <3>5. Holds(objs', held'[t])
      BY <1>2, <3>2, <3>3, <3>4 DEF Holds
    <3>. QED
      BY <1>2, <3>4, <3>5
  <2>2. CASE u.job.op \notin SeqOps
    <3>1. held' = held
      BY <2>2 DEF Go
    <3>. QED
      BY <1>1, <1>2, <3>1
  <2>. QED
    BY <2>1, <2>2
<1>6. \A s \in Goroutine : Doing(objs', th'[s]) /\ Counted(calls'[s], th'[s])
  BY <1>1, <1>2, <1>3, <1>4
<1>. QED
  BY <1>3, <1>5, <1>6 DEF ObjectsInv

\* An engine call that only reads.
LEMMA ReadInv ==
    ASSUME ObjectsInv, NEW t \in Goroutine, Len(calls[t]) < MaxCalls, UNCHANGED objs,
           NEW u, Go(t, u), Doing(objs, u), u.job \in Jobs, u.pc # "idle"
    PROVE  ObjectsInv'
<1>1. GoodObjs(objs') /\ KindsKept(objs, objs') /\ Doing(objs', u)
  BY DEF ObjectsInv, KindsKept
<1>. QED
  BY <1>1, GoInv

LEMMA BusyFacts ==
    ASSUME ObjectsInv, NEW t \in Goroutine, th[t].pc # "idle"
    PROVE  /\ GoodObjs(objs) /\ Doing(objs, th[t]) /\ th[t].job \in Jobs
           /\ Len(calls[t]) < MaxCalls /\ th[t] \in Recs(th[t].before)
BY DEF ObjectsInv, Doing, Counted

LEMMA LenFacts ==
    ASSUME GoodObjs(objs), NEW o, NEW k, k # "map", Has(objs, o, k)
    PROVE  ListLen(o) \in Nat /\ objs[o].at \in Seq(Cells(objs))
<1>1. objs[o].at \in Seq(Cells(objs))
  BY GoodFacts DEF Has
<1>. QED
  BY <1>1 DEF ListLen

LEMMA CallInv ==
    ASSUME ObjectsInv, NEW t \in Goroutine, Call(t)
    PROVE  ObjectsInv'
<1>1. Len(calls[t]) < MaxCalls /\ UNCHANGED objs
  BY DEF Call
<1>2. PICK j \in Jobs : Go(t, Begin(t, j))
  BY DEF Call
<1> DEFINE u == Begin(t, j)
<1>3. Doing(objs, u) /\ u.job \in Jobs /\ u.pc # "idle"
  BY BeginDoing
<1>4. Go(t, u)
  BY <1>2
<1> HIDE DEF u
<1>. QED
  BY <1>1, <1>3, <1>4, ReadInv

\* The reads of a walk.
LEMMA GetInv ==
    ASSUME ObjectsInv, NEW t \in Goroutine, GetKey(t) \/ GetLen(t) \/ GetAt(t)
    PROVE  ObjectsInv'
<1> DEFINE r == th[t]
<1>1. r.pc \in {"get", "at"} /\ UNCHANGED objs
  BY DEF GetKey, GetLen, GetAt
<1>2. /\ GoodObjs(objs) /\ Doing(objs, r) /\ r.job \in Jobs
      /\ Len(calls[t]) < MaxCalls /\ r \in Recs(r.before)
  BY <1>1, BusyFacts
<1>3. /\ r.lvl \in 1 .. Len(r.job.path) /\ r.obj \in 1 .. Len(objs) /\ Seg(r) \in Key \cup Int
  BY <1>1, <1>2, WalkFacts DEF Walking
<1>4. Void \in Cells(objs)
  BY DEF Void, Cell, Cells, Containers
<1>5. ASSUME NEW v \in Cells(objs), Go(t, Arrived(r, v)) PROVE ObjectsInv'
  <2> DEFINE u == Arrived(r, v)
  <2>1. Doing(objs, u) /\ u.job \in Jobs /\ u.pc # "idle"
    BY <1>1, <1>2, ArrivedDoing
  <2>2. Go(t, u)
    BY <1>5
  <2> HIDE DEF u
  <2>. QED
    BY <1>1, <1>2, <2>1, <2>2, ReadInv
<1>6. CASE GetKey(t)
  <2>1. r.pc = "get" /\ Seg(r) \in Key /\ Go(t, Arrived(r, MapGet(r.obj, Seg(r))))
    BY <1>6 DEF GetKey
  <2>2. objs[r.obj].kind = "map"
    BY <1>2, <2>1 DEF Doing, AtSegment, Has
  <2>3. MapGet(r.obj, Seg(r)) \in Cells(objs)
    <3>1. objs[r.obj].at \in [Key -> Cells(objs)]
      BY <1>2, <1>3, <2>2, GoodFacts
    <3>. QED
      BY <2>1, <3>1 DEF MapGet
  <2>. QED
    BY <1>5, <2>1, <2>3
<1>7. CASE GetLen(t)
  <2>1. /\ r.pc = "get" /\ Seg(r) \notin Key
        /\ Go(t, IF Seg(r) \in 0 .. ListLen(r.obj) - 1 THEN [r EXCEPT !.pc = "at"]
                                                       ELSE Arrived(r, Void))
    BY <1>7 DEF GetLen
  <2>2. CASE Seg(r) \in 0 .. ListLen(r.obj) - 1
    <3> DEFINE u == [r EXCEPT !.pc = "at"]
    <3>1. Go(t, u)
      BY <2>1, <2>2
    <3>2. u \in Recs(u.before) /\ Same(u, r) /\ u.pc = "at"
      BY <1>2, PcOnly DEF PCs, Walking
    <3>3. Seg(r) \in Nat
      <4>1. Has(objs, r.obj, "list")
        BY <1>2, <2>1 DEF Doing, AtSegment
      <4>2. ListLen(r.obj) \in Nat
        BY <1>2, <4>1, LenFacts
      <4>. QED
        BY <2>2, <4>2
    <3> HIDE DEF u
    <3>4. Doing(objs, u) /\ u.job \in Jobs /\ u.pc # "idle"
      BY <1>2, <2>1, <3>2, <3>3, WalkDoing DEF Walking
    <3>. QED
      BY <1>1, <1>2, <3>1, <3>4, ReadInv
  <2>3. CASE Seg(r) \notin 0 .. ListLen(r.obj) - 1
    <3>1. Go(t, Arrived(r, Void))
      BY <2>1, <2>3
    <3>. QED
      BY <1>4, <1>5, <3>1
  <2>. QED
    BY <2>2, <2>3
<1>8. CASE GetAt(t)
  <2> DEFINE q == [r EXCEPT !.pos = Seg(r)]
             v == ListGet(r.obj, Seg(r))
             u == Arrived(q, v)
  <2>1. r.pc = "at" /\ Go(t, u)
    BY <1>8 DEF GetAt
  <2>2. Has(objs, r.obj, "list") /\ Seg(r) \in Nat
    BY <1>2, <2>1 DEF Doing, AtSegment, Walking
  <2>3. /\ q \in Recs(q.before) /\ Same(q, r) /\ q.pc = "at"
    BY <1>2, <2>1, <2>2 DEF Recs, Same
  <2>4. v \in Cells(objs)
    <3>1. objs[r.obj].at \in Seq(Cells(objs)) /\ ListLen(r.obj) = Len(objs[r.obj].at)
      BY <1>2, <2>2, LenFacts DEF ListLen
    <3>. QED
      BY <1>4, <2>2, <3>1 DEF ListGet
  <2> HIDE DEF q, v
  <2>5. Doing(objs, q) /\ q.job \in Jobs
    BY <1>2, <2>1, <2>3 DEF Doing, AtSegment, AtObject, Reading, Same, Seg, Walking
  <2>6. Doing(objs, u) /\ u.job \in Jobs /\ u.pc # "idle"
    BY <1>2, <2>3, <2>4, <2>5, ArrivedDoing
  <2> HIDE DEF u
  <2>. QED
    BY <1>1, <1>2, <2>1, <2>6, ReadInv
<1>. QED
  BY <1>6, <1>7, <1>8

LEMMA SizeInv ==
    ASSUME ObjectsInv, NEW t \in Goroutine, Size(t)
    PROVE  ObjectsInv'
<1> DEFINE r == th[t]
           u == Sized(r, ListLen(r.obj))
<1>1. r.pc = "size" /\ UNCHANGED objs /\ Go(t, u)
  BY DEF Size
<1>2. GoodObjs(objs) /\ Doing(objs, r) /\ r.job \in Jobs /\ Len(calls[t]) < MaxCalls
  BY <1>1, BusyFacts
<1>3. /\ Has(objs, r.obj, SeqKind(r.job)) /\ SeqKind(r.job) # "map"
      /\ r.job.op \in (SeqOps \ {"splice"}) \cup {"slice"}
  BY <1>1, <1>2 DEF Doing, AtObject, SeqKind
<1>4. ListLen(r.obj) \in Nat
  BY <1>2, <1>3, LenFacts
<1>5. Doing(objs, u) /\ u.job \in Jobs /\ u.pc # "idle"
  BY <1>2, <1>3, <1>4, SizedDoing
<1> HIDE DEF u
<1>. QED
  BY <1>1, <1>2, <1>5, ReadInv

\* The looks at the length before a list is written at an index.
LEMMA LookInv ==
    ASSUME ObjectsInv, NEW t \in Goroutine,
           \/ WriteBeyond(t) \/ DeleteAtEnd(t) \/ WriteWhich(t)
           \/ AppendLen(t) \/ SetLen(t) \/ DropLen(t)
    PROVE  ObjectsInv'
<1> DEFINE r == th[t]
<1>1. /\ r.pc \in {"write", "last", "which", "appendlen", "setlen", "droplen"} /\ UNCHANGED objs
      /\ r.pc = "write" => Seg(r) \notin Key
  BY DEF WriteBeyond, DeleteAtEnd, WriteWhich, AppendLen, SetLen, DropLen
<1>2. /\ GoodObjs(objs) /\ Doing(objs, r) /\ r.job \in Jobs
      /\ Len(calls[t]) < MaxCalls /\ r \in Recs(r.before)
  BY <1>1, BusyFacts
<1>3. /\ r.mode = "ensure" /\ Has(objs, r.obj, "list") /\ Seg(r) \notin Key
  BY <1>1, <1>2, KeysApart DEF Doing, AtSegment, Reading, Recs, Walking
<1>4. ListLen(r.obj) \in Nat
  BY <1>2, <1>3, LenFacts
<1>5. ASSUME NEW u, Go(t, u), u = [r EXCEPT !.pc = "error"] PROVE ObjectsInv'
  BY <1>1, <1>2, <1>5, EndDoing, ReadInv
<1>6. ASSUME NEW p \in Walking, p \in {"at", "drop"} => Seg(r) \in Nat,
             NEW u, u \in Recs(u.before), Same(u, r), u.pc = p, Go(t, u)
      PROVE  ObjectsInv'
  <2>1. Doing(objs, u) /\ u.job \in Jobs /\ u.pc # "idle"
    BY <1>1, <1>2, <1>3, <1>6, WalkDoing DEF Walking
  <2>. QED
    BY <1>1, <1>2, <1>6, <2>1, ReadInv
<1>7. ASSUME NEW p \in Walking, p \in {"at", "drop"} => Seg(r) \in Nat,
             Go(t, [r EXCEPT !.pc = p])
      PROVE  ObjectsInv'
  <2> DEFINE u == [r EXCEPT !.pc = p]
  <2>1. u \in Recs(u.before) /\ Same(u, r) /\ u.pc = p
    BY <1>2, PcOnly DEF PCs
  <2>2. Go(t, u)
    BY <1>7
  <2> HIDE DEF u
  <2>. QED
    BY <1>6, <1>7, <2>1, <2>2
<1>8. CASE WriteBeyond(t)
  <2> DEFINE p == IF Deleting(r) THEN "last" ELSE "which"
  <2>1. Go(t, Fail(r)) \/ Go(t, [r EXCEPT !.pc = p])
    BY <1>8 DEF WriteBeyond
  <2>. QED
    BY <1>5, <1>7, <2>1 DEF Fail, Walking
<1>9. CASE DeleteAtEnd(t)
  <2>1. Go(t, Fail(r)) \/ Go(t, [r EXCEPT !.pc = "droplen"])
    BY <1>9 DEF DeleteAtEnd
  <2>. QED
    BY <1>5, <1>7, <2>1 DEF Fail, Walking
<1>10. CASE WriteWhich(t)
  <2> DEFINE p == IF Seg(r) = ListLen(r.obj) THEN "appendlen" ELSE "setlen"
  <2>1. Go(t, [r EXCEPT !.pc = p])
    BY <1>10 DEF WriteWhich
  <2>. QED
    BY <1>7, <2>1 DEF Walking
<1>11. ASSUME NEW b \in BOOLEAN, NEW n \in Nat,
              Go(t, [r EXCEPT !.pc = "place", !.insert = b, !.pos = n])
       PROVE  ObjectsInv'
  <2> DEFINE u == [r EXCEPT !.pc = "place", !.insert = b, !.pos = n]
  <2>1. u \in Recs(u.before) /\ Same(u, r) /\ u.pc = "place"
    BY <1>2, <1>11 DEF Recs, Same, PCs, Walking
  <2>2. Go(t, u)
    BY <1>11
  <2> HIDE DEF u
  <2>. QED
    BY <1>6, <2>1, <2>2 DEF Walking
<1>12. CASE AppendLen(t)
  <2>1. Go(t, [r EXCEPT !.pc = "place", !.insert = TRUE, !.pos = ListLen(r.obj)])
    BY <1>12 DEF AppendLen
  <2>. QED
    BY <1>4, <1>11, <2>1
<1>13. CASE SetLen(t)
  <2>1. CASE Seg(r) \in 0 .. ListLen(r.obj) - 1
    <3>1. Go(t, [r EXCEPT !.pc = "place", !.insert = FALSE, !.pos = Seg(r)])
      BY <1>13, <2>1 DEF SetLen
    <3>2. Seg(r) \in Nat
      BY <1>4, <2>1
    <3>. QED
      BY <1>11, <3>1, <3>2
  <2>2. CASE Seg(r) \notin 0 .. ListLen(r.obj) - 1
    <3>1. Go(t, Fail(r))
      BY <1>13, <2>2 DEF SetLen
    <3>. QED
      BY <1>5, <3>1 DEF Fail
  <2>. QED
    BY <2>1, <2>2
<1>14. CASE DropLen(t)
  <2>1. CASE Seg(r) \in 0 .. ListLen(r.obj) - 1
    <3>1. Go(t, [r EXCEPT !.pc = "drop"])
      BY <1>14, <2>1 DEF DropLen
    <3>2. Seg(r) \in Nat
      BY <1>4, <2>1
    <3>. QED
      BY <1>7, <3>1, <3>2 DEF Walking
  <2>2. CASE Seg(r) \notin 0 .. ListLen(r.obj) - 1
    <3>1. Go(t, Fail(r))
      BY <1>14, <2>2 DEF DropLen
    <3>. QED
      BY <1>5, <3>1 DEF Fail
  <2>. QED
    BY <2>1, <2>2
<1>. QED
  BY <1>8, <1>9, <1>10, <1>12, <1>13, <1>14

\* A call that ends with an engine call, which changed the objects to os.
LEMMA EndInv ==
    ASSUME ObjectsInv, NEW t \in Goroutine, th[t].pc # "idle",
           GoodObjs(objs'), KindsKept(objs, objs'),
           NEW p \in {"ok", "error"}, Go(t, [th[t] EXCEPT !.pc = p])
    PROVE  ObjectsInv'
<1> DEFINE u == [th[t] EXCEPT !.pc = p]
<1>1. /\ Doing(objs, th[t]) /\ th[t].job \in Jobs /\ Len(calls[t]) < MaxCalls
  BY BusyFacts
<1>2. Doing(objs, u) /\ u.job \in Jobs /\ u.pc # "idle"
  BY <1>1, EndDoing
<1>3. Go(t, u)
  OBVIOUS
<1> HIDE DEF u
<1>4. Doing(objs', u)
  BY <1>2, DoingKept
<1>. QED
  BY <1>1, <1>2, <1>3, <1>4, GoInv

\* A call that is refused.
LEMMA FailInv ==
    ASSUME ObjectsInv, NEW t \in Goroutine, th[t].pc # "idle", UNCHANGED objs, Go(t, Fail(th[t]))
    PROVE  ObjectsInv'
<1>1. GoodObjs(objs') /\ KindsKept(objs, objs')
  BY DEF ObjectsInv, KindsKept
<1>. QED
  BY <1>1, EndInv DEF Fail

\* The set function of ensure, for a key and for an index.
LEMMA WriteInv ==
    ASSUME ObjectsInv, NEW t \in Goroutine, WriteKey(t) \/ Place(t)
    PROVE  ObjectsInv'
<1> DEFINE r == th[t]
           c == ToWrite(r)
           u == Written(r, c)
<1>1. r.pc \in {"write", "place"}
  BY DEF WriteKey, Place
<1>2. /\ GoodObjs(objs) /\ Doing(objs, r) /\ r.job \in Jobs
      /\ Len(calls[t]) < MaxCalls /\ r \in Recs(r.before)
  BY <1>1, BusyFacts
<1>3. r.lvl \in 1 .. Len(r.job.path)
  BY <1>1, <1>2, WalkFacts DEF Walking
<1>4. /\ Fits(c)
      /\ Wanted(r) # "any" => c.tag = Wanted(r)
      /\ AtEnd(r) /\ r.job.op = "slice" => c.tag = "list"
      /\ c.tag = "text" => AtEnd(r) /\ r.job.op \in TextOps \cup {"text"}
  BY <1>2, <1>3, ToWriteFits
<1>5. ASSUME GoodObjs(objs'), KindsKept(objs, objs'), Go(t, u),
             c.tag \in Containers => Has(objs', c.n, c.tag)
      PROVE  ObjectsInv'
  <2>1. Doing(objs', r)
    BY <1>2, <1>5, DoingKept
  <2>2. c.n \in Nat
    BY <1>4 DEF Fits
  <2> HIDE DEF c
  <2>3. Doing(objs', u) /\ u.job \in Jobs /\ u.pc # "idle"
    BY <1>1, <1>2, <1>4, <1>5, <2>1, <2>2, WrittenDoing
  <2> HIDE DEF u
  <2>. QED
    BY <1>2, <1>5, <2>3, GoInv
<1>6. CASE WriteKey(t)
  <2>1. CASE ~CanMapPut(Seg(r))
    <3>1. Go(t, Fail(r)) /\ UNCHANGED objs
      BY <1>6, <2>1 DEF WriteKey
    <3>. QED
      BY <1>1, <3>1, FailInv
  <2>2. CASE CanMapPut(Seg(r))
    <3>1. /\ r.pc = "write" /\ Seg(r) \in Key /\ objs' = MapPut(r.obj, Seg(r), c) /\ Go(t, u)
      BY <1>6, <2>2 DEF WriteKey
    <3>2. Has(objs, r.obj, "map")
      BY <1>2, <3>1 DEF Doing, AtSegment
    <3> HIDE DEF c, u
    <3>3. /\ GoodObjs(objs') /\ KindsKept(objs, objs')
          /\ c.tag \in Containers => Has(objs', c.n, c.tag)
      BY <1>2, <1>4, <3>1, <3>2, MapPutGood
    <3>. QED
      BY <1>5, <3>1, <3>3
  <2>. QED
    BY <2>1, <2>2
<1>7. CASE Place(t)
  <2>1. CASE ~CanListPut(r.obj, r.pos, r.insert)
    <3>1. Go(t, Fail(r)) /\ UNCHANGED objs
      BY <1>7, <2>1 DEF Place
    <3>. QED
      BY <1>1, <3>1, FailInv
  <2>2. CASE CanListPut(r.obj, r.pos, r.insert)
    <3>1. /\ r.pc = "place" /\ objs' = ListPut(r.obj, r.pos, r.insert, c) /\ Go(t, u)
      BY <1>7, <2>2 DEF Place
    <3>2. Has(objs, r.obj, "list") /\ r.pos \in Nat
      BY <1>2, <3>1 DEF Doing, AtSegment, Walking, Recs
    <3>3. r.insert \in BOOLEAN
      BY <1>2 DEF Recs
    <3> HIDE DEF c, u
    <3>4. /\ GoodObjs(objs') /\ KindsKept(objs, objs')
          /\ c.tag \in Containers => Has(objs', c.n, c.tag)
      BY <1>2, <1>4, <2>2, <3>1, <3>2, <3>3, ListPutGood
    <3>. QED
      BY <1>5, <3>1, <3>4
  <2>. QED
    BY <2>1, <2>2
<1>. QED
  BY <1>6, <1>7

\* Deletions from a list, and increments.
LEMMA ChangeInv ==
    ASSUME ObjectsInv, NEW t \in Goroutine, Drop(t) \/ RemoveItem(t) \/ Inc(t)
    PROVE  ObjectsInv'
<1> DEFINE r == th[t]
<1>1. r.pc \in {"drop", "remove", "inc"}
  BY DEF Drop, RemoveItem, Inc
<1>2. /\ GoodObjs(objs) /\ Doing(objs, r) /\ r.job \in Jobs /\ r \in Recs(r.before)
  BY <1>1, BusyFacts
<1>3. CASE Go(t, Fail(r)) /\ UNCHANGED objs
  BY <1>1, <1>3, FailInv
<1>4. ASSUME NEW o \in 1 .. Len(objs), NEW i \in Nat, CanListDelete(o, i),
             objs' = ListDelete(o, i), Go(t, [r EXCEPT !.pc = "ok"])
      PROVE  ObjectsInv'
  <2>1. GoodObjs(objs') /\ KindsKept(objs, objs')
    BY <1>2, <1>4, ListDeleteGood
  <2>. QED
    BY <1>1, <1>4, <2>1, EndInv
<1>5. CASE Drop(t) /\ ~(Go(t, Fail(r)) /\ UNCHANGED objs)
  <2>1. /\ r.pc = "drop" /\ CanListDelete(r.obj, Seg(r)) /\ objs' = ListDelete(r.obj, Seg(r))
        /\ Go(t, [r EXCEPT !.pc = "ok"])
    BY <1>5 DEF Drop
  <2>2. r.obj \in 1 .. Len(objs) /\ Seg(r) \in Nat
    BY <1>2, <2>1 DEF Doing, AtSegment, Has, Walking
  <2>. QED
    BY <1>4, <2>1, <2>2
<1>6. CASE RemoveItem(t) /\ ~(Go(t, Fail(r)) /\ UNCHANGED objs)
  <2> DEFINE o == IF r.tgt # 0 THEN r.tgt ELSE Root
  <2>1. /\ CanListDelete(o, r.idx) /\ objs' = ListDelete(o, r.idx)
        /\ Go(t, [r EXCEPT !.pc = "ok"])
    BY <1>6 DEF RemoveItem
  <2>2. o \in 1 .. Len(objs) /\ r.idx \in Nat
    BY <1>2, GoodFacts DEF Doing, AtObject, Has, Recs
  <2> HIDE DEF o
  <2>. QED
    BY <1>4, <2>1, <2>2
<1>7. CASE Inc(t) /\ ~(Go(t, Fail(r)) /\ UNCHANGED objs)
  <2> DEFINE i == IF Seg(r) \in Key THEN Seg(r) ELSE r.pos + 1
  <2>1. /\ r.pc = "inc" /\ CanIncrement(r.obj, i) /\ objs' = Increment(r.obj, i)
        /\ Go(t, [r EXCEPT !.pc = "ok"])
    BY <1>7 DEF Inc
  <2>2. r.obj \in 1 .. Len(objs)
    BY <1>2, <2>1 DEF Doing, AtSegment
  <2> HIDE DEF i
  <2>3. GoodObjs(objs') /\ KindsKept(objs, objs')
    BY <1>2, <2>1, <2>2, IncrementGood
  <2>. QED
    BY <1>1, <2>1, <2>3, EndInv
<1>. QED
  BY <1>3, <1>5, <1>6, <1>7

\* The first value of a text that was put: its length, and a splice.
LEMMA FillInv ==
    ASSUME ObjectsInv, NEW t \in Goroutine, ClearLen(t) \/ Fill(t)
    PROVE  ObjectsInv'
<1> DEFINE r == th[t]
<1>1. r.pc \in {"clear", "fill"}
  BY DEF ClearLen, Fill
<1>2. /\ GoodObjs(objs) /\ Doing(objs, r) /\ r.job \in Jobs
      /\ Len(calls[t]) < MaxCalls /\ r \in Recs(r.before)
  BY <1>1, BusyFacts
<1>3. /\ Has(objs, r.new, "text") /\ AtEnd(r) /\ r.job.op \in TextOps \cup {"text"}
      /\ r.mode = "ensure" /\ r.new \in Nat /\ r.cut \in Nat /\ r.new # 0
  BY <1>1, <1>2, SMTT(30) DEF Doing, AtObject, Reading, Recs, Has
<1>4. CASE ClearLen(t)
  <2> DEFINE n == ListLen(r.new)
             u == [r EXCEPT !.pc = "fill", !.cut = n]
  <2>1. Go(t, u) /\ UNCHANGED objs
    BY <1>4 DEF ClearLen
  <2>2. n \in Nat
    BY <1>2, <1>3, LenFacts
  <2> HIDE DEF n
  <2>3. u \in Recs(u.before) /\ Same(u, r) /\ u.pc = "fill"
    BY <1>2, <2>2 DEF Recs, PCs, Same
  <2> HIDE DEF u
  <2>4. AtObject(objs, u)
    BY <1>2, <1>3, <2>3 DEF Doing, AtObject, Same, AtEnd
  <2>5. Doing(objs, u) /\ u.job \in Jobs /\ u.pc # "idle"
    BY <1>2, <1>3, <2>3, <2>4 DEF Doing, AtSegment, Reading, Walking, Same
  <2>. QED
    BY <1>2, <2>1, <2>5, ReadInv
<1>5. CASE Fill(t)
  <2> DEFINE vs == IF r.job.op = "text" /\ AtEnd(r) THEN Scalars(r.job.vals) ELSE <<>>
             c  == Cell("text", r.new)
             u  == Reached(r, c)
  <2>1. objs' = Splice(r.new, 0, r.cut, vs) /\ Go(t, u)
    BY <1>5 DEF Fill
  <2>2. vs \in Seq(Cells(objs))
    BY <1>2, JobFacts, ScalarsGood
  <2> HIDE DEF vs
  <2>3. GoodObjs(objs') /\ KindsKept(objs, objs')
    BY <1>2, <1>3, <2>1, <2>2, SpliceGood
  <2>4. Doing(objs', r) /\ Has(objs', r.new, "text")
    BY <1>2, <1>3, <2>3, DoingKept DEF KindsKept
  <2>5. Doing(objs', u) /\ u.job \in Jobs /\ u.pc # "idle"
    <3>1. CASE r.job.op = "text"
      <4>1. u = [r EXCEPT !.pc = "ok"]
        BY <1>3, <3>1 DEF Reached
      <4>. QED
        BY <1>2, <2>4, <4>1, EndDoing
    <3>2. CASE r.job.op \in TextOps
      <4>1. u = [r EXCEPT !.pc = "put", !.tgt = r.new]
        BY <1>3, <3>2 DEF Reached, Cell
      <4>2. /\ u \in Recs(u.before) /\ u.pc = "put" /\ u.tgt = r.new /\ u.job = r.job
            /\ u.mode = r.mode /\ u.todo = r.todo
        BY <1>2, <1>3, <4>1 DEF Recs, PCs
      <4> HIDE DEF u
      <4>3. AtObject(objs', u)
        BY <1>3, <2>4, <3>2, <4>2 DEF Doing, AtObject, SeqKind
      <4>. QED
        BY <1>2, <1>3, <4>2, <4>3 DEF Doing, AtSegment, Reading, Walking
    <3>. QED
      BY <1>3, <3>1, <3>2
  <2> HIDE DEF u
  <2>. QED
    BY <1>2, <2>1, <2>3, <2>5, GoInv
<1>. QED
  BY <1>4, <1>5

\* There is another value to append after the first of several.
LEMMA TailLeft ==
    ASSUME NEW s \in Seq(Nat), s # <<>>, Len(s) # 1
    PROVE  Tail(s) \in Seq(Nat) /\ Tail(s) # <<>>
<1>1. Len(s) \in Nat /\ Len(s) # 0
  OBVIOUS
<1>2. Tail(s) \in Seq(Nat) /\ Len(Tail(s)) = Len(s) - 1
  OBVIOUS
<1>3. Len(Tail(s)) # 0
  BY <1>1, <1>2
<1>. QED
  BY <1>2, <1>3, EmptySeq

\* What List and Text write to the object that they are attached to.
LEMMA PutInv ==
    ASSUME ObjectsInv, NEW t \in Goroutine, PutItem(t) \/ SpliceText(t)
    PROVE  ObjectsInv'
<1> DEFINE r == th[t]
<1>1. r.pc = "put"
  BY DEF PutItem, SpliceText
<1>2. /\ GoodObjs(objs) /\ Doing(objs, r) /\ r.job \in Jobs
      /\ Len(calls[t]) < MaxCalls /\ r \in Recs(r.before)
  BY <1>1, BusyFacts
<1>3. /\ Has(objs, r.tgt, SeqKind(r.job)) /\ r.job.op \in TextOps \cup Adding
      /\ r.job.op \in Adding => r.todo # <<>>
      /\ r.mode = "ensure" /\ r.idx \in Nat /\ r.todo \in Seq(Nat) /\ r.tgt \in Nat
  BY <1>1, <1>2 DEF Doing, AtObject, Reading, Recs
<1>4. CASE Go(t, Fail(r)) /\ UNCHANGED objs
  BY <1>1, <1>4, FailInv
<1>5. CASE SpliceText(t) /\ ~(Go(t, Fail(r)) /\ UNCHANGED objs)
  <2> DEFINE pos == CASE r.job.op = "type"   -> r.idx
                      [] r.job.op = "retype" -> 0
                      [] r.job.op = "splice" -> r.job.at
             del == IF r.job.op = "splice" THEN r.job.del ELSE r.idx - pos
             vs  == Scalars(r.job.vals)
  <2>1. /\ r.job.op \in TextOps /\ objs' = Splice(r.tgt, pos, del, vs)
        /\ Go(t, [r EXCEPT !.pc = "ok"])
    BY <1>5 DEF SpliceText
  <2>2. pos \in Int
    BY <1>2, <1>3, <2>1, JobFacts
  <2>3. del \in Int
    <3> HIDE DEF pos
    <3>. QED
      BY <1>2, <1>3, <2>2, JobFacts, SMTT(30)
  <2>4. vs \in Seq(Cells(objs)) /\ Has(objs, r.tgt, "text")
    BY <1>2, <1>3, <2>1, JobFacts, ScalarsGood DEF SeqKind
  <2> HIDE DEF pos, del, vs
  <2>5. GoodObjs(objs') /\ KindsKept(objs, objs')
    BY <1>2, <2>1, <2>2, <2>3, <2>4, SpliceGood
  <2>. QED
    BY <1>1, <2>1, <2>5, EndInv
<1>6. CASE PutItem(t) /\ ~(Go(t, Fail(r)) /\ UNCHANGED objs)
  <2> DEFINE insert == r.job.op # "overwrite"
             c == Scalar(Head(r.todo))
             p == IF r.job.op = "insert" THEN "put" ELSE "size"
             u == [r EXCEPT !.pc = p, !.obj = r.tgt, !.idx = r.idx + 1, !.todo = Tail(@)]
  <2>1. /\ r.job.op \notin TextOps /\ CanListPut(r.tgt, r.idx, insert)
        /\ objs' = ListPut(r.tgt, r.idx, insert, c)
        /\ Go(t, IF Len(r.todo) = 1 THEN [r EXCEPT !.pc = "ok"] ELSE u)
    BY <1>6 DEF PutItem
  <2>2. r.job.op \in Adding /\ Has(objs, r.tgt, "list") /\ insert \in BOOLEAN
    BY <1>3, <2>1 DEF SeqKind
  <2>3. Head(r.todo) \in Nat
    BY <1>3, <2>2
  <2>4. Fits(c)
    BY <2>3 DEF Fits, Scalar, Cell, Containers
  <2>5. p \in {"put", "size"} /\ (p = "put" => r.job.op = "insert")
    OBVIOUS
  <2> HIDE DEF c, insert, p
  <2>6. GoodObjs(objs') /\ KindsKept(objs, objs')
    BY <1>2, <1>3, <2>1, <2>2, <2>4, ListPutGood
  <2>7. CASE Len(r.todo) = 1
    BY <1>1, <2>1, <2>6, <2>7, EndInv
  <2>8. CASE Len(r.todo) # 1
    <3>1. Tail(r.todo) \in Seq(Nat) /\ Tail(r.todo) # <<>>
      BY <1>3, <2>2, <2>8, TailLeft
    <3>2. r.idx + 1 \in Nat /\ p \in PCs
      BY <1>3, <2>5 DEF PCs
    <3>3. /\ u \in Recs(u.before) /\ u.pc = p /\ u.obj = r.tgt /\ u.tgt = r.tgt
          /\ u.job = r.job /\ u.mode = r.mode /\ u.todo = Tail(r.todo)
      BY <1>2, <1>3, <3>1, <3>2 DEF Recs
    <3>4. Go(t, u)
      BY <2>1, <2>8
    <3> HIDE DEF u
    <3>5. Has(objs', r.tgt, SeqKind(r.job)) /\ r.tgt # 0
      BY <1>3, <2>6 DEF KindsKept, Has
    <3>6. AtObject(objs', u)
      BY <2>1, <2>2, <2>5, <3>1, <3>3, <3>5 DEF AtObject, Adding
    <3>7. Doing(objs', u) /\ u.job \in Jobs /\ u.pc # "idle"
      BY <1>2, <1>3, <2>5, <3>3, <3>6 DEF Doing, AtSegment, Reading, Walking
    <3>. QED
      BY <1>2, <2>6, <3>4, <3>7, GoInv
  <2>. QED
    BY <2>7, <2>8
<1>. QED
  BY <1>4, <1>5, <1>6

LEMMA ObjectsNext ==
    ASSUME ObjectsInv, [Next]_vars
    PROVE  ObjectsInv'
<1>1. CASE UNCHANGED vars
  BY <1>1 DEF vars, ObjectsInv
<1>2. ASSUME NEW t \in Goroutine, Step(t) PROVE ObjectsInv'
  BY <1>2, CallInv, GetInv, SizeInv, LookInv, WriteInv, ChangeInv, FillInv, PutInv DEF Step
<1>. QED
  BY <1>1, <1>2 DEF Next, Finished

LEMMA ObjectsInit == Init => ObjectsInv
<1> SUFFICES ASSUME Init PROVE ObjectsInv
  OBVIOUS
<1>1. GoodObjs(objs)
  BY ObjectsAssumption DEF Init
<1>2. ASSUME NEW t \in Goroutine
      PROVE  Doing(objs, th[t]) /\ Holds(objs, held[t]) /\ Counted(calls[t], th[t])
  <2>1. th[t] = Idle /\ held[t] = [k \in HeldKeys |-> 0] /\ calls[t] = <<>>
    BY DEF Init
  <2>2. Holds(objs, held[t])
    BY <2>1 DEF Holds
  <2>3. <<>> \in Seq(Range(<<>>)) /\ Len(<<>>) = 0
    OBVIOUS
  <2>4. Counted(calls[t], th[t])
    BY <2>1, <2>3, ObjectsAssumption DEF Counted, Idle
  <2>. QED
    BY <2>1, <2>2, <2>4, IdleDoing
<1>. QED
  BY <1>1, <1>2 DEF Init, ObjectsInv

\* Objects keep their kind, and what every goroutine remembers fits them, for
\* any number of goroutines, any calls and any document to start with.
THEOREM ObjectsInvariant == Spec => []ObjectsInv
  BY ObjectsInit, ObjectsNext, PTL DEF Spec

-----------------------------------------------------------------------------

\* Every cell that is an object tells the kind of an object that there is, and
\* every List or Text is attached to one, or to none, however the engine calls
\* of the goroutines interleave: no put, insert, delete or splice leaves a
\* dangling reference behind.
THEOREM ObjectsTyped == Spec => []TypeOK
<1>1. ASSUME ObjectsInv PROVE TypeOK
  <2>1. ASSUME NEW t \in Goroutine
        PROVE  /\ held[t] \in [HeldKeys -> 0 .. Len(objs)]
               /\ th[t].job \in Jobs \cup {Idle.job} /\ Len(calls[t]) <= MaxCalls
    <3>1. Doing(objs, th[t]) /\ Holds(objs, held[t]) /\ Counted(calls[t], th[t])
      BY <1>1 DEF ObjectsInv
    <3>2. Len(objs) \in Nat
      BY <1>1, GoodFacts DEF ObjectsInv
    <3>3. held[t] \in [HeldKeys -> 0 .. Len(objs)]
      BY <3>1, <3>2 DEF Holds, Has
    <3>4. th[t].job \in Jobs \cup {Idle.job}
      BY <3>1 DEF Doing, Recs
    <3>. QED
      BY <3>1, <3>3, <3>4 DEF Counted
  <2>. QED
    BY <1>1, <2>1 DEF ObjectsInv, TypeOK
<1>. QED
  BY <1>1, ObjectsInvariant, PTL

\* An object that a goroutine looked up before another one took the mutex is
\* still of the kind that its next engine call is for: what Path.ensure, List,
\* Text and Map remember between two calls is never refused for its kind.
THEOREM CallsFitKinds == Spec => []KindsFit
<1>1. ASSUME ObjectsInv PROVE KindsFit
  <2> SUFFICES ASSUME NEW t \in Goroutine
               PROVE  LET r == th[t] IN
        /\ r.pc \in {"get", "write"} =>
                objs[r.obj].kind = IF Seg(r) \in Key THEN "map" ELSE "list"
        /\ r.pc \in {"at", "last", "which", "appendlen", "setlen", "droplen", "place", "drop"} =>
                objs[r.obj].kind = "list"
        /\ r.pc = "size" => objs[r.obj].kind = IF r.job.op \in TextOps THEN "text" ELSE "list"
        /\ r.pc = "put" => objs[r.tgt].kind = IF r.job.op \in TextOps THEN "text" ELSE "list"
        /\ r.pc \in {"clear", "fill"} => objs[r.new].kind = "text"
        /\ \A k \in HeldKeys : held[t][k] # 0 => objs[held[t][k]].kind = k[1]
    BY DEF KindsFit
  <2> DEFINE r == th[t]
  <2>1. AtSegment(objs, r) /\ AtObject(objs, r) /\ Holds(objs, held[t])
    BY <1>1 DEF ObjectsInv, Doing
  <2> HIDE DEF r
  <2>2. /\ r.pc \in {"get", "write"} =>
                objs[r.obj].kind = IF Seg(r) \in Key THEN "map" ELSE "list"
        /\ r.pc \in Walking => objs[r.obj].kind = "list"
    BY <2>1 DEF AtSegment, Has
  <2>3. /\ r.pc = "size" => objs[r.obj].kind = SeqKind(r.job)
        /\ r.pc = "put" => objs[r.tgt].kind = SeqKind(r.job)
        /\ r.pc \in {"clear", "fill"} => objs[r.new].kind = "text"
    BY <2>1 DEF AtObject, Has
  <2>4. \A k \in HeldKeys : held[t][k] # 0 => objs[held[t][k]].kind = k[1]
    BY <2>1 DEF Holds, Has
  <2>. QED
    BY <2>2, <2>3, <2>4 DEF r, Walking, SeqKind
<1>. QED
  BY <1>1, ObjectsInvariant, PTL

-----------------------------------------------------------------------------
(* Values that were added to a list or a text *)

\* The calls that add all their values; a splice may also take some out.
Adds == {"append", "type", "insert", "splice"}

\* The next engine call of a goroutine takes a value out of o or writes over
\* one: an overwrite or a deletion, or the Set of a text that others have
\* written to since it was put.
Takes(r, o) ==
    \/ r.pc = "drop" /\ r.obj = o
    \/ r.pc = "place" /\ r.obj = o /\ ~r.insert
    \/ r.pc = "remove" /\ r.tgt = o
    \/ r.pc = "fill" /\ r.new = o /\ r.cut # 0
    \/ /\ r.pc = "put" /\ r.tgt = o
       /\ \/ r.job.op = "overwrite"
          \/ r.job.op = "retype" /\ r.idx # 0
          \/ r.job.op = "splice" /\ r.job.del > 0

\* Where value v is in a list or text.
Spots(s, v) == {i \in DOMAIN s : s[i] = Scalar(v)}

\* How many values a call has put; the others are to do.
Done(r) == Len(r.job.vals) - Len(r.todo)

\* A call that is under way has put v into o.
HasPut(r, o, v) ==
    r.job.op \in Adds /\ r.tgt = o /\ \E i \in 1 .. Done(r) : r.job.vals[i] = v

\* The calls, returned or under way, for which o must have a v.
Due(o, v) ==
    {c \in Goroutine \X (1 .. MaxCalls) :
        \/ /\ c \in Returned /\ CallAt(c).job.op \in Adds /\ CallAt(c).tgt = o
           /\ Contains(CallAt(c).job.vals, v)
        \/ c[2] = Len(calls[c[1]]) + 1 /\ HasPut(th[c[1]], o, v)}

\* Every call that put v into o has a v of its own there.
Paid(o) ==
    o \in 1 .. Len(objs) /\ objs[o].kind # "map" =>
        \A v : Cardinality(Due(o, v)) <= Cardinality(Spots(objs[o].at, v))

\* What is to do is the end of what the caller gave; nothing is done before
\* the object is known.
Pending(r) ==
    /\ r.todo \in Seq(Nat) /\ r.job.vals \in Seq(Nat)
    /\ Len(r.todo) <= Len(r.job.vals)
    /\ \A i \in 1 .. Len(r.todo) : r.todo[i] = r.job.vals[Done(r) + i]
    /\ r.pc \notin {"size", "put", "remove"} \/ r.tgt = 0 \/ r.job.op \in TextOps =>
          Len(r.todo) = Len(r.job.vals)
    /\ r.pc = "remove" => r.job.op = "remove"
    /\ r.pc \in {"last", "droplen", "drop", "inc"} => r.job.op \notin Adds
    /\ r.pc \notin {"ok", "error"}

TallyInv ==
    \A t \in Goroutine :
        /\ Pending(th[t])
        /\ \A i \in 1 .. Len(calls[t]) : calls[t][i].tgt \in 0 .. Len(objs)

LEMMA SpotsFinite ==
    ASSUME NEW S, NEW s \in Seq(S), NEW v
    PROVE  IsFiniteSet(Spots(s, v)) /\ Cardinality(Spots(s, v)) \in Nat
<1>1. DOMAIN s = 1 .. Len(s) /\ Len(s) \in Nat /\ 1 \in Int /\ Len(s) \in Int
  OBVIOUS
<1>2. IsFiniteSet(1 .. Len(s))
  BY <1>1, FS_Interval
<1>3. Spots(s, v) \in SUBSET (1 .. Len(s))
  BY <1>1 DEF Spots
<1>4. IsFiniteSet(Spots(s, v))
  BY <1>2, <1>3, FS_Subset
<1>. QED
  BY <1>4, FS_CardinalityType

\* w is u with d more cells after the first p.
Widened(u, w, p, d) ==
    /\ p \in 0 .. Len(u) /\ d \in Nat /\ Len(w) = Len(u) + d
    /\ \A i \in 1 .. p : w[i] = u[i]
    /\ \A i \in p + 1 .. Len(u) : w[i + d] = u[i]

LEMMA WidenedKeeps ==
    ASSUME NEW S, NEW u \in Seq(S), NEW w \in Seq(S), NEW p, NEW d, Widened(u, w, p, d), NEW v
    PROVE  /\ Cardinality(Spots(u, v)) <= Cardinality(Spots(w, v))
           /\ (\E i \in p + 1 .. p + d : w[i] = Scalar(v)) =>
                 Cardinality(Spots(u, v)) + 1 <= Cardinality(Spots(w, v))
<1> DEFINE A == Spots(u, v)
           B == Spots(w, v)
           f == [i \in A |-> IF i <= p THEN i ELSE i + d]
<1>1. /\ p \in Nat /\ p <= Len(u) /\ d \in Nat /\ Len(w) = Len(u) + d /\ Len(u) \in Nat
      /\ \A i \in 1 .. p : w[i] = u[i]
      /\ \A i \in p + 1 .. Len(u) : w[i + d] = u[i]
      /\ DOMAIN u = 1 .. Len(u) /\ DOMAIN w = 1 .. Len(w)
  BY DEF Widened
<1>2. IsFiniteSet(A) /\ Cardinality(A) \in Nat /\ IsFiniteSet(B) /\ Cardinality(B) \in Nat
  BY SpotsFinite
<1>3. ASSUME NEW i \in A PROVE f[i] \in B /\ f[i] \notin p + 1 .. p + d
  <2>1. i \in 1 .. Len(u) /\ u[i] = Scalar(v)
    BY <1>1 DEF Spots
  <2>2. CASE i <= p
    <3>1. f[i] = i /\ i \in 1 .. p /\ i \in 1 .. Len(w)
      BY <1>1, <2>1, <2>2
    <3>2. w[i] = Scalar(v)
      BY <1>1, <2>1, <3>1
    <3>3. i \notin p + 1 .. p + d
      BY <1>1, <2>1, <2>2
    <3>. QED
      BY <1>1, <3>1, <3>2, <3>3 DEF Spots
  <2>3. CASE ~(i <= p)
    <3>1. f[i] = i + d /\ i \in p + 1 .. Len(u) /\ i + d \in 1 .. Len(w)
      BY <1>1, <2>1, <2>3
    <3>2. w[i + d] = Scalar(v)
      BY <1>1, <2>1, <3>1
    <3>3. i + d \notin p + 1 .. p + d
      BY <1>1, <2>1, <2>3
    <3>. QED
      BY <1>1, <3>1, <3>2, <3>3 DEF Spots
  <2>. QED
    BY <2>2, <2>3
<1>4. ASSUME NEW i \in A, NEW j \in A, f[i] = f[j] PROVE i = j
  <2>1. i \in Nat /\ j \in Nat
    BY <1>1 DEF Spots
  <2>. QED
    BY <1>1, <1>4, <2>1
<1> HIDE DEF A, B
<1>5. ASSUME NEW T, \A i \in A : f[i] \in T PROVE f \in Injection(A, T)
  <2>1. f \in [A -> T]
    BY <1>5
  <2> HIDE DEF f
  <2>. QED
    BY <1>4, <2>1 DEF Injection, IsInjective
<1>6. Cardinality(A) <= Cardinality(B)
  <2>1. f \in Injection(A, B)
    BY <1>3, <1>5
  <2> HIDE DEF f
  <2>. QED
    BY <1>2, <2>1, FS_Injection
<1>7. ASSUME NEW i \in p + 1 .. p + d, w[i] = Scalar(v)
      PROVE  Cardinality(A) + 1 <= Cardinality(B)
  <2>1. i \in B
    BY <1>1, <1>7 DEF B, Spots
  <2>2. f \in Injection(A, B \ {i})
    <3>1. \A j \in A : f[j] \in B \ {i}
      BY <1>3
    <3> HIDE DEF f
    <3>. QED
      BY <1>5, <3>1
  <2> HIDE DEF f
  <2>3. IsFiniteSet(B \ {i}) /\ Cardinality(B \ {i}) = Cardinality(B) - 1
    BY <1>2, <2>1, FS_RemoveElement
  <2>4. Cardinality(A) <= Cardinality(B \ {i})
    BY <2>2, <2>3, FS_Injection
  <2>. QED
    BY <1>2, <2>3, <2>4
<1>. QED
  BY <1>6, <1>7 DEF A, B

\* w is x and then y.
Joined(w, x, y) ==
    /\ Len(w) = Len(x) + Len(y)
    /\ \A j \in 1 .. Len(x) : w[j] = x[j]
    /\ \A j \in 1 .. Len(y) : w[Len(x) + j] = y[j]

LEMMA ConcatCells ==
    ASSUME NEW S, NEW x \in Seq(S), NEW y \in Seq(S), NEW w, w = x \o y
    PROVE  w \in Seq(S) /\ Joined(w, x, y)
<1>1. /\ w \in Seq(S) /\ Len(w) = Len(x) + Len(y)
      /\ \A i \in 1 .. Len(x) + Len(y) : w[i] = IF i <= Len(x) THEN x[i] ELSE y[i - Len(x)]
  BY ConcatProperties
<1>2. Len(x) \in Nat /\ Len(y) \in Nat
  OBVIOUS
<1>3. ASSUME NEW j \in 1 .. Len(x) PROVE w[j] = x[j]
  <2>1. j \in 1 .. Len(x) + Len(y) /\ j <= Len(x)
    BY <1>2
  <2>. QED
    BY <1>1, <2>1
<1>4. ASSUME NEW j \in 1 .. Len(y) PROVE w[Len(x) + j] = y[j]
  <2>1. Len(x) + j \in 1 .. Len(x) + Len(y) /\ ~(Len(x) + j <= Len(x)) /\ (Len(x) + j) - Len(x) = j
    BY <1>2
  <2>. QED
    BY <1>1, <2>1
<1>. QED
  BY <1>1, <1>3, <1>4 DEF Joined

LEMMA CutFront ==
    ASSUME NEW S, NEW s \in Seq(S), NEW i \in 0 .. Len(s)
    PROVE  /\ SubSeq(s, 1, i) \in Seq(S) /\ Len(SubSeq(s, 1, i)) = i
           /\ \A j \in 1 .. i : SubSeq(s, 1, i)[j] = s[j]
OBVIOUS

LEMMA CutBack ==
    ASSUME NEW S, NEW s \in Seq(S), NEW i \in 0 .. Len(s)
    PROVE  /\ SubSeq(s, i + 1, Len(s)) \in Seq(S) /\ Len(SubSeq(s, i + 1, Len(s))) = Len(s) - i
           /\ \A j \in 1 .. Len(s) - i : SubSeq(s, i + 1, Len(s))[j] = s[i + j]
OBVIOUS

LEMMA LengthsAddUp == \A a, b, c \in Nat : (a + b) + (c - a) = c + b
OBVIOUS

\* w is s with vs after the first i cells.
WidenedBy(s, w, i, vs) ==
    Widened(s, w, i, Len(vs)) /\ \A k \in 1 .. Len(vs) : w[i + k] = vs[k]

LEMMA SeqLens ==
    ASSUME NEW S, NEW s \in Seq(S)
    PROVE  Len(s) \in Nat /\ \A i \in 0 .. Len(s) : i \in Nat
OBVIOUS

LEMMA SpliceWidens ==
    ASSUME NEW S, NEW s \in Seq(S), NEW i \in 0 .. Len(s), NEW vs \in Seq(S),
           NEW w, w = SubSeq(s, 1, i) \o vs \o SubSeq(s, i + 1, Len(s))
    PROVE  w \in Seq(S) /\ WidenedBy(s, w, i, vs)
<1> DEFINE x == SubSeq(s, 1, i)
           y == SubSeq(s, i + 1, Len(s))
           n == Len(vs)
           z == x \o vs
<1>1. w = z \o y
  BY Zenon
<1>2. x \in Seq(S) /\ Len(x) = i /\ \A j \in 1 .. i : x[j] = s[j]
  BY CutFront, Zenon
<1>3. y \in Seq(S) /\ Len(y) = Len(s) - i /\ \A j \in 1 .. Len(s) - i : y[j] = s[i + j]
  BY CutBack, Zenon
<1> HIDE DEF x, y
<1>4. z \in Seq(S) /\ Joined(z, x, vs)
  BY <1>2, ConcatCells, Zenon
<1> HIDE DEF z
<1>5. w \in Seq(S) /\ Joined(w, z, y)
  BY <1>1, <1>3, <1>4, ConcatCells, Zenon
<1>n. n \in Nat /\ i \in Nat /\ Len(s) \in Nat /\ Len(vs) = n
  BY SeqLens, Zenon DEF n
<1> HIDE DEF n
<1>6. Len(z) = i + n /\ Len(w) = Len(s) + n
  <2>1. Len(z) = Len(x) + Len(vs) /\ Len(w) = Len(z) + Len(y)
    BY <1>4, <1>5, Zenon DEF Joined
  <2>2. Len(z) = i + n /\ Len(w) = (i + n) + (Len(s) - i)
    BY <1>2, <1>3, <1>n, <2>1, Zenon
  <2>. QED
    BY <1>n, <2>2, LengthsAddUp, Zenon
<1>7. ASSUME NEW j \in 1 .. i PROVE w[j] = s[j]
  <2>1. j \in 1 .. i + n
    BY <1>n
  <2>2. w[j] = z[j]
    BY <1>5, <1>6, <2>1 DEF Joined
  <2>3. z[j] = x[j]
    BY <1>2, <1>4 DEF Joined
  <2>. QED
    BY <1>2, <2>2, <2>3
<1>8. ASSUME NEW k \in 1 .. n PROVE w[i + k] = vs[k]
  <2>1. i + k \in 1 .. i + n
    BY <1>n
  <2>2. w[i + k] = z[i + k]
    BY <1>5, <1>6, <2>1 DEF Joined
  <2>3. z[i + k] = vs[k]
    BY <1>2, <1>4, <1>n DEF Joined
  <2>. QED
    BY <2>2, <2>3
<1>9. ASSUME NEW j \in i + 1 .. Len(s) PROVE w[j + n] = s[j]
  <2>1. j - i \in 1 .. Len(s) - i /\ i + n + (j - i) = j + n /\ i + (j - i) = j
    BY <1>n
  <2>2. w[i + n + (j - i)] = y[j - i]
    BY <1>3, <1>5, <1>6, <2>1 DEF Joined
  <2>3. y[j - i] = s[i + (j - i)]
    BY <1>3, <2>1
  <2>. QED
    BY <2>1, <2>2, <2>3
<1>10. i \in 0 .. Len(s)
  OBVIOUS
<1>. QED
  BY <1>5, <1>6, <1>7, <1>8, <1>9, <1>10, <1>n DEF Widened, WidenedBy

LEMMA OneCell ==
    ASSUME NEW S, NEW e \in S
    PROVE  <<e>> \in Seq(S) /\ Len(<<e>>) = 1 /\ <<e>>[1] = e
OBVIOUS

LEMMA InsertWidens ==
    ASSUME NEW S, NEW s \in Seq(S), NEW i \in Nat, i <= Len(s), NEW e \in S,
           NEW w, w = InsertAt(s, i + 1, e)
    PROVE  w \in Seq(S) /\ Widened(s, w, i, 1) /\ w[i + 1] = e
<1> DEFINE k == i + 1
           vs == <<e>>
<1>0. vs \in Seq(S) /\ Len(vs) = 1 /\ vs[1] = e
  BY OneCell, Zenon
<1>1. k - 1 = i /\ i \in 0 .. Len(s)
  OBVIOUS
<1>2. w = SubSeq(s, 1, k - 1) \o vs \o SubSeq(s, k, Len(s))
  BY Zenon DEF InsertAt
<1> HIDE DEF vs, k
<1>4. w = SubSeq(s, 1, i) \o vs \o SubSeq(s, k, Len(s))
  BY <1>1, <1>2, Zenon
<1>5. w = SubSeq(s, 1, i) \o vs \o SubSeq(s, i + 1, Len(s))
  BY <1>4, Zenon DEF k
<1>6. w \in Seq(S) /\ WidenedBy(s, w, i, vs)
  BY <1>0, <1>1, <1>5, SpliceWidens, Zenon
<1>. QED
  BY <1>0, <1>6 DEF WidenedBy

\* No value of o is gone from os to os2.
Keeps(os, os2, o) ==
    \A v : Cardinality(Spots(os[o].at, v)) <= Cardinality(Spots(os2[o].at, v))

\* There is one v more.
Gains(os, os2, o, v) ==
    Cardinality(Spots(os[o].at, v)) + 1 <= Cardinality(Spots(os2[o].at, v))

LEMMA CardinalsFinite ==
    ASSUME NEW os, GoodObjs(os), NEW o \in 1 .. Len(os), os[o].kind # "map"
    PROVE  \A v : IsFiniteSet(Spots(os[o].at, v)) /\ Cardinality(Spots(os[o].at, v)) \in Nat
<1>1. os[o].at \in Seq(Cells(os))
  BY GoodFacts
<1>. QED
  BY <1>1, SpotsFinite, Zenon

LEMMA SameKeeps ==
    ASSUME NEW os, GoodObjs(os), NEW o \in 1 .. Len(os), os[o].kind # "map", NEW os2, os2[o] = os[o]
    PROVE  Keeps(os, os2, o)
<1>1. \A v : Cardinality(Spots(os[o].at, v)) \in Nat
  BY CardinalsFinite, Zenon
<1>. QED
  BY <1>1 DEF Keeps

\* Only one object changes.
LEMMA OneChanges ==
    ASSUME NEW os, GoodObjs(os), NEW q \in 1 .. Len(os), NEW at,
           NEW os2, os2 = [os EXCEPT ![q].at = at]
    PROVE  os2[q].at = at /\ \A o \in 1 .. Len(os) : o # q => os2[o] = os[o]
<1>1. DOMAIN os = 1 .. Len(os) /\ os[q] = [kind |-> os[q].kind, at |-> os[q].at]
  BY GoodFacts, Zenon
<1>2. os2[q] = [kind |-> os[q].kind, at |-> at]
  BY <1>1
<1>. QED
  BY <1>1, <1>2

LEMMA MapPutKeeps ==
    ASSUME GoodObjs(objs), NEW c, Fits(c), NEW q, Has(objs, q, "map"), NEW k \in Key,
           NEW o \in 1 .. Len(objs), objs[o].kind # "map"
    PROVE  Keeps(objs, MapPut(q, k, c), o)
<1> DEFINE os == WithPut(c)
           at == [os[q].at EXCEPT ![k] = c]
<1>1. /\ GoodObjs(os) /\ KindsKept(objs, os) /\ os[o] = objs[o]
  BY WithPutGood
<1>2. MapPut(q, k, c) = [os EXCEPT ![q].at = at]
  BY DEF MapPut
<1> HIDE DEF os, at
<1>3. q \in 1 .. Len(os) /\ o # q /\ o \in 1 .. Len(os)
  BY <1>1 DEF KindsKept, Has
<1>4. MapPut(q, k, c)[o] = os[o]
  BY <1>1, <1>2, <1>3, OneChanges
<1>. QED
  BY <1>1, <1>4, SameKeeps

LEMMA ListPutKeeps ==
    ASSUME GoodObjs(objs), NEW c, Fits(c), NEW q, NEW kind, kind # "map", Has(objs, q, kind),
           NEW i \in Nat, NEW insert \in BOOLEAN, CanListPut(q, i, insert),
           NEW o \in 1 .. Len(objs), objs[o].kind # "map", o = q => insert
    PROVE  /\ Keeps(objs, ListPut(q, i, insert, c), o)
           /\ \A v : o = q /\ c = Scalar(v) => Gains(objs, ListPut(q, i, insert, c), o, v)
<1> DEFINE os  == WithPut(c)
           s   == os[q].at
           at  == IF insert THEN InsertAt(s, i + 1, c) ELSE ReplaceAt(s, i + 1, c)
           os2 == ListPut(q, i, insert, c)
<1>1. /\ GoodObjs(os) /\ KindsKept(objs, os) /\ c \in Cells(os)
      /\ os[q] = objs[q] /\ os[o] = objs[o]
  BY WithPutGood DEF Has
<1>2. os2 = [os EXCEPT ![q].at = at]
  BY DEF ListPut
<1>3. IF insert THEN i <= Len(s) ELSE i < Len(s)
  BY <1>1 DEF CanListPut, ListLen
<1> HIDE DEF os, os2
<1>4. q \in 1 .. Len(os) /\ os[q].kind # "map" /\ o \in 1 .. Len(os)
  BY <1>1 DEF KindsKept, Has
<1>5. s \in Seq(Cells(os))
  BY <1>1, <1>4, GoodFacts
<1>6. s = objs[q].at
  BY <1>1
<1> HIDE DEF s
<1>7. os2[q].at = at /\ \A x \in 1 .. Len(os) : x # q => os2[x] = os[x]
  <2> HIDE DEF at
  <2>. QED
    BY <1>1, <1>2, <1>4, OneChanges
<1>8. CASE o # q
  <2>1. os2[o] = objs[o]
    BY <1>1, <1>4, <1>7, <1>8
  <2>. QED
    BY <1>8, <2>1, SameKeeps DEF os2
<1>9. CASE o = q
  <2>1. at = InsertAt(s, i + 1, c) /\ i <= Len(s)
    BY <1>3, <1>9
  <2> HIDE DEF at
  <2>2. at \in Seq(Cells(os)) /\ Widened(s, at, i, 1) /\ at[i + 1] = c
    BY <1>1, <1>5, <2>1, InsertWidens
  <2>3. i + 1 \in i + 1 .. i + 1
    OBVIOUS
  <2>4. ASSUME NEW v
        PROVE  /\ Cardinality(Spots(s, v)) <= Cardinality(Spots(at, v))
               /\ (\E x \in i + 1 .. i + 1 : at[x] = Scalar(v)) =>
                     Cardinality(Spots(s, v)) + 1 <= Cardinality(Spots(at, v))
    BY <1>5, <2>2, WidenedKeeps, Zenon
  <2>5. ASSUME NEW v, c = Scalar(v)
        PROVE  Cardinality(Spots(s, v)) + 1 <= Cardinality(Spots(at, v))
    BY <2>2, <2>3, <2>4, <2>5, Zenon
  <2>6. objs[o].at = s /\ os2[o].at = at
    BY <1>6, <1>7, <1>9
  <2>. QED
    BY <2>4, <2>5, <2>6, Zenon DEF Keeps, Gains, os2
<1>. QED
  BY <1>8, <1>9

LEMMA ListDeleteKeeps ==
    ASSUME GoodObjs(objs), NEW q \in 1 .. Len(objs), NEW i,
           NEW o \in 1 .. Len(objs), objs[o].kind # "map", o # q
    PROVE  Keeps(objs, ListDelete(q, i), o)
<1> DEFINE at == RemoveAt(objs[q].at, i + 1)
<1>1. ListDelete(q, i) = [objs EXCEPT ![q].at = at]
  BY DEF ListDelete
<1> HIDE DEF at
<1>2. ListDelete(q, i)[o] = objs[o]
  BY <1>1, OneChanges
<1>. QED
  BY <1>2, SameKeeps

LEMMA SpliceKeeps ==
    ASSUME GoodObjs(objs), NEW q, Has(objs, q, "text"), NEW pos \in Int, NEW del \in Int,
           NEW vs \in Seq(Cells(objs)),
           NEW o \in 1 .. Len(objs), objs[o].kind # "map", o = q => del <= 0
    PROVE  /\ Keeps(objs, Splice(q, pos, del, vs), o)
           /\ \A v : o = q /\ pos \in 0 .. ListLen(q) /\ Contains(vs, Scalar(v)) =>
                        Gains(objs, Splice(q, pos, del, vs), o, v)
<1> DEFINE s    == objs[q].at
           from == pos + 1 + (IF del < 0 THEN 0 ELSE del)
           at   == SubSeq(s, 1, pos) \o vs \o SubSeq(s, from, Len(s))
           os2  == Splice(q, pos, del, vs)
<1>1. CASE pos \notin 0 .. ListLen(q)
  <2>1. os2 = objs
    BY <1>1 DEF Splice
  <2>. QED
    BY <1>1, <2>1, SameKeeps
<1>2. CASE pos \in 0 .. ListLen(q)
  <2>1. os2 = [objs EXCEPT ![q].at = at]
    BY <1>2 DEF Splice
  <2>2. q \in 1 .. Len(objs) /\ s \in Seq(Cells(objs))
    BY GoodFacts DEF Has
  <2>3. pos \in 0 .. Len(s)
    BY <1>2 DEF ListLen
  <2> HIDE DEF os2
  <2>4. os2[q].at = at /\ \A x \in 1 .. Len(objs) : x # q => os2[x] = objs[x]
    <3> HIDE DEF at
    <3>. QED
      BY <2>1, <2>2, OneChanges
  <2>5. CASE o # q
    <3>1. os2[o] = objs[o]
      BY <2>4, <2>5
    <3>. QED
      BY <2>5, <3>1, SameKeeps DEF os2
  <2>6. CASE o = q
    <3>1. from = pos + 1
      BY <2>6
    <3>2. at = SubSeq(s, 1, pos) \o vs \o SubSeq(s, pos + 1, Len(s))
      BY <3>1, Zenon
    <3>3. objs[o].at = s /\ os2[o].at = at
      BY <2>4, <2>6, Zenon
    <3> HIDE DEF at, from, s
    <3>4. at \in Seq(Cells(objs)) /\ WidenedBy(s, at, pos, vs)
      BY <2>2, <2>3, <3>2, SpliceWidens, Zenon
    <3>5. Widened(s, at, pos, Len(vs)) /\ \A k \in 1 .. Len(vs) : at[pos + k] = vs[k]
      BY <3>4, Zenon DEF WidenedBy
    <3>6. ASSUME NEW v
          PROVE  /\ Cardinality(Spots(s, v)) <= Cardinality(Spots(at, v))
                 /\ (\E x \in pos + 1 .. pos + Len(vs) : at[x] = Scalar(v)) =>
                       Cardinality(Spots(s, v)) + 1 <= Cardinality(Spots(at, v))
      BY <2>2, <3>4, <3>5, WidenedKeeps, Zenon
    <3>7. ASSUME NEW v, Contains(vs, Scalar(v))
          PROVE  Cardinality(Spots(s, v)) + 1 <= Cardinality(Spots(at, v))
      <4>1. PICK k \in 1 .. Len(vs) : vs[k] = Scalar(v)
        BY <3>7, Zenon DEF Contains
      <4>2. pos + k \in pos + 1 .. pos + Len(vs)
        <5>1. Len(vs) \in Nat
          OBVIOUS
        <5>. QED
          BY <5>1
      <4>3. at[pos + k] = Scalar(v)
        BY <3>5, <4>1, Zenon
      <4>. QED
        BY <3>6, <4>2, <4>3, Zenon
    <3>. QED
      BY <3>3, <3>6, <3>7, Zenon DEF Keeps, Gains, os2
  <2>. QED
    BY <2>5, <2>6
<1>. QED
  BY <1>1, <1>2

LEMMA IncrementKeeps ==
    ASSUME GoodObjs(objs), NEW q \in 1 .. Len(objs), NEW i, CanIncrement(q, i),
           NEW o \in 1 .. Len(objs), objs[o].kind # "map"
    PROVE  Keeps(objs, Increment(q, i), o)
<1> DEFINE s   == objs[q].at
           c   == [s[i] EXCEPT !.n = @ + 1]
           at  == [s EXCEPT ![i] = c]
           os2 == Increment(q, i)
<1>1. os2 = [objs EXCEPT ![q].at = at]
  BY DEF Increment
<1>2. i \in DOMAIN s /\ s[i].tag = "counter"
  BY DEF CanIncrement
<1> HIDE DEF os2
<1>3. os2[q].at = at /\ \A x \in 1 .. Len(objs) : x # q => os2[x] = objs[x]
  <2> HIDE DEF at
  <2>. QED
    BY <1>1, OneChanges
<1>4. CASE o # q
  <2>1. os2[o] = objs[o]
    BY <1>3, <1>4
  <2>. QED
    BY <2>1, SameKeeps DEF os2
<1>5. CASE o = q
  <2>1. s \in Seq(Cells(objs))
    BY <1>5, GoodFacts
  <2>2. s[i] \in Cells(objs)
    BY <1>2, <2>1
  <2>3. c.tag = "counter"
    BY <1>2, <2>2 DEF Cells
  <2> HIDE DEF c, s
  <2>4. \A v : c # Scalar(v) /\ s[i] # Scalar(v)
    BY <1>2, <2>3 DEF Scalar, Cell
  <2>5. DOMAIN at = DOMAIN s /\ at[i] = c /\ \A j \in DOMAIN s : j # i => at[j] = s[j]
    BY <1>2, <2>1
  <2>6. \A v : Spots(at, v) = Spots(s, v)
    BY <1>2, <2>4, <2>5 DEF Spots
  <2>7. os2[o].at = at /\ objs[o].at = s
    BY <1>3, <1>5 DEF s
  <2>8. \A v : Cardinality(Spots(s, v)) \in Nat
    BY <2>1, SpotsFinite
  <2> HIDE DEF at
  <2>9. Keeps(objs, os2, o)
    BY <2>6, <2>7, <2>8 DEF Keeps
  <2>. QED
    BY <2>9 DEF os2
<1>. QED
  BY <1>4, <1>5

-----------------------------------------------------------------------------
(* What is due after a step *)

\* A call that is left in u is due a v in o.
Owes(u, o, v) ==
    /\ u.job.op \in Adds /\ u.tgt = o
    /\ \/ u.pc = "ok" /\ Contains(u.job.vals, v)
       \/ u.pc \notin {"ok", "error"} /\ \E i \in 1 .. Done(u) : u.job.vals[i] = v

\* The call that t is making.
Current(t) == <<t, Len(calls[t]) + 1>>

LEMMA AppendIs ==
    ASSUME NEW s, s \in Seq(Range(s)), NEW e
    PROVE  /\ Len(s) \in Nat /\ Len(Append(s, e)) = Len(s) + 1
           /\ Append(s, e)[Len(s) + 1] = e
           /\ \A i \in 1 .. Len(s) : Append(s, e)[i] = s[i]
<1> DEFINE S == Range(s) \cup {e}
<1>1. s \in Seq(S) /\ e \in S
  OBVIOUS
<1> HIDE DEF S
<1>. QED
  BY <1>1

LEMMA GoParts ==
    ASSUME ObjectsInv, NEW t \in Goroutine, NEW u, Go(t, u)
    PROVE  /\ \A s \in Goroutine : s # t => th'[s] = th[s] /\ calls'[s] = calls[s]
           /\ u.pc \in {"ok", "error"} =>
                 /\ th'[t] = Idle
                 /\ calls'[t] = Append(calls[t], [job |-> u.job, res |-> u.pc, tgt |-> u.tgt,
                                                   before |-> u.before])
           /\ u.pc \notin {"ok", "error"} => th'[t] = u /\ calls'[t] = calls[t]
           /\ calls[t] \in Seq(Range(calls[t]))
<1>1. /\ th = [s \in Goroutine |-> th[s]] /\ calls = [s \in Goroutine |-> calls[s]]
      /\ Counted(calls[t], th[t])
  BY DEF ObjectsInv
<1>. QED
  BY <1>1 DEF Go, Counted

\* The call at c has returned and is due a v in o.
Earned(c, o, v) ==
    /\ c[2] <= Len(calls[c[1]]) /\ CallAt(c).res = "ok"
    /\ CallAt(c).job.op \in Adds /\ CallAt(c).tgt = o /\ Contains(CallAt(c).job.vals, v)

LEMMA DueIs ==
    ASSUME NEW o, NEW v
    PROVE  Due(o, v) = {c \in Goroutine \X (1 .. MaxCalls) :
              Earned(c, o, v) \/ (c[2] = Len(calls[c[1]]) + 1 /\ HasPut(th[c[1]], o, v))}
BY DEF Due, Earned, Returned

LEMMA DueGo ==
    ASSUME ObjectsInv, NEW t \in Goroutine, NEW u, Go(t, u), NEW o, NEW v, NEW c, c \in Due(o, v)'
    PROVE  c \in Due(o, v) \/ (c = Current(t) /\ Owes(u, o, v))
<1> DEFINE e == [job |-> u.job, res |-> u.pc, tgt |-> u.tgt, before |-> u.before]
<1>1. /\ c \in Goroutine \X (1 .. MaxCalls)
      /\ Earned(c, o, v)' \/ (c[2] = Len(calls'[c[1]]) + 1 /\ HasPut(th'[c[1]], o, v))
  <2>1. Due(o, v)' = {x \in Goroutine \X (1 .. MaxCalls) :
              Earned(x, o, v)' \/ (x[2] = Len(calls'[x[1]]) + 1 /\ HasPut(th'[x[1]], o, v))}
    BY ZenonT(60) DEF Due, Earned, Returned, HasPut, Done, CallAt
  <2>. QED
    BY <2>1, ZenonT(60)
<1>2. PICK s \in Goroutine, i \in 1 .. MaxCalls : c = <<s, i>>
  BY <1>1
<1>3. c[1] = s /\ c[2] = i
  BY <1>2
<1>4. /\ \A x \in Goroutine : x # t => th'[x] = th[x] /\ calls'[x] = calls[x]
      /\ u.pc \in {"ok", "error"} => th'[t] = Idle /\ calls'[t] = Append(calls[t], e)
      /\ u.pc \notin {"ok", "error"} => th'[t] = u /\ calls'[t] = calls[t]
      /\ calls[t] \in Seq(Range(calls[t]))
  BY GoParts, Zenon
<1> HIDE DEF e
<1>5. SUFFICES ASSUME c \notin Due(o, v)
               PROVE  c = Current(t) /\ Owes(u, o, v)
  OBVIOUS
<1>6. ~Earned(c, o, v) /\ ~(i = Len(calls[s]) + 1 /\ HasPut(th[s], o, v))
  BY <1>1, <1>3, <1>5, DueIs, Zenon
<1>7. s = t
  <2>1. ASSUME s # t PROVE FALSE
    <3>1. calls'[s] = calls[s] /\ th'[s] = th[s]
      BY <1>4, <2>1, Zenon
    <3>2. ~Earned(c, o, v)'
      BY <1>3, <1>6, <3>1 DEF Earned, CallAt
    <3>. QED
      BY <1>1, <1>3, <1>6, <3>1, <3>2
  <2>. QED
    BY <2>1
<1>8. CASE u.pc \notin {"ok", "error"}
  <2>1. calls'[s] = calls[s] /\ th'[s] = u
    BY <1>4, <1>7, <1>8, Zenon
  <2>2. ~Earned(c, o, v)'
    BY <1>3, <1>6, <2>1 DEF Earned, CallAt
  <2>3. i = Len(calls[s]) + 1 /\ HasPut(u, o, v)
    BY <1>1, <1>3, <2>1, <2>2
  <2>. QED
    BY <1>2, <1>7, <1>8, <2>3 DEF Current, Owes, HasPut
<1>9. CASE u.pc \in {"ok", "error"}
  <2>1. calls'[s] = Append(calls[s], e) /\ th'[s] = Idle
    BY <1>4, <1>7, <1>9, Zenon
  <2>2. ~HasPut(Idle, o, v)
    BY DEF HasPut, Idle, Adds
  <2>3. Earned(c, o, v)'
    BY <1>1, <1>3, <2>1, <2>2
  <2>4. /\ i <= Len(calls'[s]) /\ calls'[s][i].res = "ok" /\ calls'[s][i].job.op \in Adds
        /\ calls'[s][i].tgt = o /\ Contains(calls'[s][i].job.vals, v)
    BY <1>3, <2>3 DEF Earned, CallAt
  <2>5. /\ Len(calls[s]) \in Nat /\ Len(calls'[s]) = Len(calls[s]) + 1
        /\ calls'[s][Len(calls[s]) + 1] = e
        /\ \A x \in 1 .. Len(calls[s]) : calls'[s][x] = calls[s][x]
    BY <1>4, <1>7, <2>1, AppendIs
  <2>6. i = Len(calls[s]) + 1
    <3>1. ASSUME i \in 1 .. Len(calls[s]) PROVE FALSE
      <4>1. calls'[s][i] = calls[s][i] /\ i <= Len(calls[s])
        BY <2>5, <3>1
      <4>. QED
        BY <1>3, <1>6, <2>4, <4>1 DEF Earned, CallAt
    <3>2. i \in Nat /\ i >= 1 /\ i <= Len(calls[s]) + 1
      BY <2>4, <2>5, ObjectsAssumption
    <3>. QED
      BY <2>5, <3>1, <3>2
  <2>7. calls'[s][i] = e
    BY <2>5, <2>6
  <2>8. e.job = u.job /\ e.res = u.pc /\ e.tgt = u.tgt
    BY DEF e
  <2>. QED
    BY <1>2, <1>7, <2>4, <2>6, <2>7, <2>8 DEF Current, Owes
<1>. QED
  BY <1>8, <1>9

LEMMA DuePut ==
    ASSUME NEW t \in Goroutine, Len(calls[t]) < MaxCalls, Len(calls[t]) \in Nat,
           NEW o, NEW v, HasPut(th[t], o, v)
    PROVE  Current(t) \in Due(o, v)
<1>1. Current(t) \in Goroutine \X (1 .. MaxCalls)
  BY ObjectsAssumption DEF Current
<1>2. Current(t)[1] = t /\ Current(t)[2] = Len(calls[t]) + 1
  BY DEF Current
<1>. QED
  BY <1>1, <1>2, DueIs, Zenon

LEMMA CallsFinite ==
    ASSUME NEW D, D \subseteq Goroutine \X (1 .. MaxCalls)
    PROVE  IsFiniteSet(D) /\ Cardinality(D) \in Nat
<1>1. IsFiniteSet(1 .. MaxCalls)
  BY ObjectsAssumption, FS_Interval
<1>2. IsFiniteSet(Goroutine \X (1 .. MaxCalls))
  BY <1>1, GoroutinesAssumption, FS_Product
<1>3. IsFiniteSet(D)
  BY <1>2, FS_Subset
<1>. QED
  BY <1>3, FS_CardinalityType

LEMMA OneMore ==
    ASSUME NEW D, IsFiniteSet(D), NEW x, NEW E, E \subseteq D \cup {x}
    PROVE  /\ Cardinality(E) \in Nat /\ Cardinality(D) \in Nat
           /\ Cardinality(E) <= Cardinality(D) + 1
           /\ E \subseteq D => Cardinality(E) <= Cardinality(D)
<1>1. /\ IsFiniteSet(D \cup {x})
      /\ Cardinality(D \cup {x}) = (IF x \in D THEN Cardinality(D) ELSE Cardinality(D) + 1)
  BY FS_AddElement
<1>2. IsFiniteSet(E) /\ Cardinality(E) <= Cardinality(D \cup {x})
  BY <1>1, FS_Subset
<1>3. E \subseteq D => Cardinality(E) <= Cardinality(D)
  BY FS_Subset
<1>4. Cardinality(E) \in Nat /\ Cardinality(D) \in Nat
  BY <1>2, FS_CardinalityType
<1>. QED
  BY <1>1, <1>2, <1>3, <1>4

\* What a step of t that leaves it in u does: nothing is lost from o, and what
\* the call has put is there.
Settles(t, u, o) ==
    /\ KindsKept(objs, objs')
    /\ u.pc \notin {"ok", "error"} => Pending(u)
    /\ u.pc \in {"ok", "error"} => u.tgt = th[t].tgt
    /\ o \in 1 .. Len(objs) /\ objs[o].kind # "map" => Keeps(objs, objs', o)
    /\ \A v : Owes(u, o, v) /\ ~HasPut(th[t], o, v) =>
                 o \in 1 .. Len(objs) /\ Gains(objs, objs', o, v)

\* The invariant, of one object.
KeptInv(o) == ObjectsInv /\ TallyInv /\ Paid(o)

LEMMA IdlePending == Pending(Idle)
<1>1. /\ Idle.todo = <<>> /\ Idle.job.vals = <<>> /\ Idle.pc = "idle"
      /\ Len(<<>>) = 0 /\ <<>> \in Seq(Nat)
  BY DEF Idle
<1>. QED
  BY <1>1 DEF Pending, Done

\* The object that a goroutine is attached to is one of those that there are.
LEMMA TargetThere ==
    ASSUME ObjectsInv, NEW t \in Goroutine
    PROVE  th[t].tgt \in 0 .. Len(objs) /\ Len(objs) \in Nat
<1>1. GoodObjs(objs) /\ Doing(objs, th[t])
  BY DEF ObjectsInv
<1>2. Len(objs) \in Nat
  BY <1>1, GoodFacts
<1>3. th[t].tgt # 0 => th[t].tgt \in 1 .. Len(objs)
  BY <1>1 DEF Doing, AtObject, Has
<1>. QED
  BY <1>2, <1>3

LEMMA LengthGrows ==
    ASSUME ObjectsInv, ObjectsInv', KindsKept(objs, objs')
    PROVE  Len(objs) \in Nat /\ Len(objs') \in Nat /\ Len(objs) <= Len(objs')
<1>1. Len(objs) \in Nat /\ Len(objs') \in Nat
  BY GoodFacts DEF ObjectsInv
<1>2. \A o : o \in 1 .. Len(objs) => o \in 1 .. Len(objs')
  BY DEF KindsKept, Has
<1>3. CASE Len(objs) = 0
  BY <1>1, <1>3
<1>4. CASE Len(objs) # 0
  <2>1. Len(objs) \in 1 .. Len(objs)
    BY <1>1, <1>4
  <2>. QED
    BY <1>1, <1>2, <2>1
<1>. QED
  BY <1>3, <1>4

LEMMA TallyGo ==
    ASSUME ObjectsInv, TallyInv, ObjectsInv', NEW t \in Goroutine, NEW u, Go(t, u), NEW o,
           Settles(t, u, o)
    PROVE  TallyInv'
<1> DEFINE e == [job |-> u.job, res |-> u.pc, tgt |-> u.tgt, before |-> u.before]
<1>1. /\ \A x \in Goroutine : x # t => th'[x] = th[x] /\ calls'[x] = calls[x]
      /\ u.pc \in {"ok", "error"} => th'[t] = Idle /\ calls'[t] = Append(calls[t], e)
      /\ u.pc \notin {"ok", "error"} => th'[t] = u /\ calls'[t] = calls[t]
      /\ calls[t] \in Seq(Range(calls[t]))
  BY GoParts, Zenon
<1>2. e.tgt = u.tgt
  OBVIOUS
<1> HIDE DEF e
<1>3. Len(objs) \in Nat /\ Len(objs') \in Nat /\ Len(objs) <= Len(objs')
  BY LengthGrows DEF Settles
<1>4. \A x : x \in 0 .. Len(objs) => x \in 0 .. Len(objs')
  BY <1>3
<1>5. /\ \A s \in Goroutine : Pending(th[s])
      /\ \A s \in Goroutine : \A i \in 1 .. Len(calls[s]) : calls[s][i].tgt \in 0 .. Len(objs')
  BY <1>4, Zenon DEF TallyInv
<1>6. ASSUME NEW s \in Goroutine
      PROVE  /\ Pending(th'[s])
             /\ \A i \in 1 .. Len(calls'[s]) : calls'[s][i].tgt \in 0 .. Len(objs')
  <2>1. CASE s # t
    BY <1>1, <1>5, <2>1, Zenon
  <2>2. CASE s = t /\ u.pc \notin {"ok", "error"}
    BY <1>1, <1>5, <2>2, Zenon DEF Settles
  <2>3. CASE s = t /\ u.pc \in {"ok", "error"}
    <3>1. th'[s] = Idle /\ calls'[s] = Append(calls[s], e)
      BY <1>1, <2>3, Zenon
    <3>2. u.tgt = th[t].tgt /\ th[t].tgt \in 0 .. Len(objs')
      BY <1>4, <2>3, TargetThere, Zenon DEF Settles
    <3>3. /\ Len(calls[s]) \in Nat /\ Len(calls'[s]) = Len(calls[s]) + 1
          /\ calls'[s][Len(calls[s]) + 1] = e
          /\ \A i \in 1 .. Len(calls[s]) : calls'[s][i] = calls[s][i]
      BY <1>1, <2>3, <3>1, AppendIs
    <3>4. ASSUME NEW i \in 1 .. Len(calls'[s]) PROVE calls'[s][i].tgt \in 0 .. Len(objs')
      <4>1. CASE i \in 1 .. Len(calls[s])
        BY <1>5, <3>3, <4>1, Zenon
      <4>2. CASE i \notin 1 .. Len(calls[s])
        <5>1. i = Len(calls[s]) + 1
          BY <3>3, <4>2
        <5>. QED
          BY <1>2, <3>2, <3>3, <5>1, Zenon
      <4>. QED
        BY <4>1, <4>2
    <3>. QED
      BY <3>1, <3>4, IdlePending, Zenon
  <2>. QED
    BY <2>1, <2>2, <2>3
<1>7. TallyInv' = \A s \in Goroutine :
                     /\ Pending(th'[s])
                     /\ \A i \in 1 .. Len(calls'[s]) : calls'[s][i].tgt \in 0 .. Len(objs')
  BY DEF TallyInv, Pending, Done
<1>. QED
  BY <1>6, <1>7, Zenon

\* No call is due anything in an object that is not there yet.
LEMMA NothingDue ==
    ASSUME ObjectsInv, TallyInv, NEW o, o \notin 0 .. Len(objs), NEW v
    PROVE  Due(o, v) = {} /\ \A t \in Goroutine : ~HasPut(th[t], o, v)
<1>1. \A t \in Goroutine : ~HasPut(th[t], o, v)
  BY TargetThere, Zenon DEF HasPut
<1>2. ASSUME NEW c, c \in Due(o, v) PROVE FALSE
  <2>1. PICK s \in Goroutine, i \in 1 .. MaxCalls : c = <<s, i>>
    BY <1>2 DEF Due
  <2>2. c[1] = s /\ c[2] = i
    BY <2>1
  <2>3. Earned(c, o, v)
    BY <1>1, <1>2, <2>2, DueIs, Zenon
  <2>4. i <= Len(calls[s]) /\ calls[s][i].tgt = o
    BY <2>2, <2>3 DEF Earned, CallAt
  <2>5. Len(calls[s]) \in Nat
    BY DEF ObjectsInv, Counted
  <2>6. i \in 1 .. Len(calls[s])
    BY <2>4, <2>5, ObjectsAssumption
  <2>. QED
    BY <2>4, <2>6, Zenon DEF TallyInv
<1>. QED
  BY <1>1, <1>2, Zenon

LEMMA PaidGo ==
    ASSUME NEW o, KeptInv(o), ObjectsInv', NEW t \in Goroutine, Len(calls[t]) < MaxCalls,
           NEW u, Go(t, u), Settles(t, u, o)
    PROVE  Paid(o)'
<1>1. /\ ObjectsInv /\ TallyInv /\ Paid(o) /\ GoodObjs(objs) /\ GoodObjs(objs')
      /\ Len(calls[t]) \in Nat
  BY DEF KeptInv, ObjectsInv, Counted
<1>2. SUFFICES ASSUME o \in 1 .. Len(objs'), objs'[o].kind # "map", NEW v
               PROVE  Cardinality(Due(o, v)') <= Cardinality(Spots(objs'[o].at, v))
  <2>1. Paid(o)' = (o \in 1 .. Len(objs') /\ objs'[o].kind # "map" =>
                       \A v : Cardinality(Due(o, v)') <= Cardinality(Spots(objs'[o].at, v)))
    BY DEF Paid
  <2>. QED
    BY <2>1, Zenon
<1> DEFINE D == Due(o, v)
           E == Due(o, v)'
           x == Current(t)
<1>3. Cardinality(Spots(objs'[o].at, v)) \in Nat
  BY <1>1, <1>2, CardinalsFinite, Zenon
<1>4. IsFiniteSet(D)
  BY CallsFinite DEF Due
<1>5. \A c \in E : c \in D \/ (c = x /\ Owes(u, o, v))
  BY <1>1, DueGo, Zenon
<1>6. E \subseteq D \cup {x}
  BY <1>5, Zenon
<1>7. HasPut(th[t], o, v) => x \in D
  BY <1>1, DuePut, Zenon
<1> HIDE DEF D, E, x
<1>8. /\ Cardinality(E) \in Nat /\ Cardinality(D) \in Nat
      /\ Cardinality(E) <= Cardinality(D) + 1
      /\ E \subseteq D => Cardinality(E) <= Cardinality(D)
  BY <1>4, <1>6, OneMore, Zenon
<1>9. CASE o \in 1 .. Len(objs)
  <2>1. objs[o].kind # "map"
    BY <1>2, <1>9 DEF Settles, KindsKept, Has
  <2>2. Cardinality(D) <= Cardinality(Spots(objs[o].at, v))
    BY <1>1, <1>9, <2>1, Zenon DEF Paid, D
  <2>3. Cardinality(Spots(objs[o].at, v)) \in Nat
    BY <1>1, <1>9, <2>1, CardinalsFinite, Zenon
  <2>4. Cardinality(Spots(objs[o].at, v)) <= Cardinality(Spots(objs'[o].at, v))
    BY <1>9, <2>1, Zenon DEF Settles, Keeps
  <2>5. CASE Owes(u, o, v) /\ ~HasPut(th[t], o, v)
    <3>1. Cardinality(Spots(objs[o].at, v)) + 1 <= Cardinality(Spots(objs'[o].at, v))
      BY <2>5, Zenon DEF Settles, Gains
    <3>2. Cardinality(E) <= Cardinality(Spots(objs'[o].at, v))
      BY <1>3, <1>8, <2>2, <2>3, <3>1
    <3>. QED
      BY <3>2 DEF E
  <2>6. CASE ~Owes(u, o, v) \/ HasPut(th[t], o, v)
    <3>1. E \subseteq D
      BY <1>5, <1>7, <2>6, Zenon
    <3>2. Cardinality(E) <= Cardinality(Spots(objs'[o].at, v))
      BY <1>3, <1>8, <2>2, <2>3, <2>4, <3>1
    <3>. QED
      BY <3>2 DEF E
  <2>. QED
    BY <2>5, <2>6
<1>10. CASE o \notin 1 .. Len(objs)
  <2>1. o \notin 0 .. Len(objs)
    <3>1. Len(objs) \in Nat /\ o # 0
      BY <1>1, <1>2, GoodFacts
    <3>. QED
      BY <1>10, <3>1
  <2>2. D = {} /\ ~HasPut(th[t], o, v)
    BY <1>1, <2>1, NothingDue, Zenon DEF D
  <2>3. ~Owes(u, o, v)
    BY <1>10, <2>2, Zenon DEF Settles
  <2>4. E \subseteq D
    BY <1>5, <2>3, Zenon
  <2>5. Cardinality(D) = 0
    BY <2>2, FS_EmptySet
  <2>6. Cardinality(E) <= Cardinality(Spots(objs'[o].at, v))
    BY <1>3, <1>8, <2>4, <2>5
  <2>. QED
    BY <2>6 DEF E
<1>. QED
  BY <1>9, <1>10

LEMMA SettledKept ==
    ASSUME NEW o, KeptInv(o), ObjectsInv', NEW t \in Goroutine, Len(calls[t]) < MaxCalls,
           NEW u, Go(t, u), Settles(t, u, o)
    PROVE  KeptInv(o)'
<1>1. TallyInv'
  BY TallyGo DEF KeptInv
<1>2. Paid(o)'
  BY PaidGo
<1>. QED
  BY <1>1, <1>2 DEF KeptInv

-----------------------------------------------------------------------------
(* The steps that put nothing of the caller's into a list or text *)

\* Nothing is done yet of what the caller gave.
Fresh(r) == Len(r.todo) = Len(r.job.vals)

\* u comes after r without a value of the caller's being put.
Walks(r, u) ==
    /\ u.job = r.job /\ u.todo = r.todo
    /\ u.pc \in {"last", "droplen", "drop", "inc", "ok"} => r.job.op \notin Adds
    /\ u.pc = "remove" => r.job.op = "remove"
    /\ u.pc \in {"ok", "error"} => u.tgt = r.tgt
    /\ Fresh(r) \/ (u.tgt = r.tgt /\ u.pc \in {"size", "put", "remove", "ok", "error"})

LEMMA WalkPending ==
    ASSUME NEW r, Pending(r), NEW u, Walks(r, u), u.pc \notin {"ok", "error"}
    PROVE  Pending(u)
<1>1. Done(u) = Done(r)
  BY DEF Walks, Done
<1>2. /\ u.job = r.job /\ u.todo = r.todo /\ (u.pc = "remove" => r.job.op = "remove")
      /\ (u.pc \in {"last", "droplen", "drop", "inc"} => r.job.op \notin Adds)
  BY DEF Walks
<1>3. u.pc \notin {"size", "put", "remove"} \/ u.tgt = 0 \/ u.job.op \in TextOps => Fresh(r)
  BY DEF Walks, Pending, Fresh
<1>. QED
  BY <1>1, <1>2, <1>3 DEF Pending, Fresh

LEMMA WalkOwes ==
    ASSUME NEW r, Pending(r), NEW u, Walks(r, u), NEW o, NEW v, Owes(u, o, v)
    PROVE  HasPut(r, o, v)
<1>1. Done(u) = Done(r) /\ u.job = r.job
  BY DEF Walks, Done
<1>2. r.job.op \in Adds /\ u.tgt = o /\ \E i \in 1 .. Done(r) : r.job.vals[i] = v
  BY <1>1 DEF Owes, Walks
<1>3. CASE Fresh(r)
  <2>1. Done(r) = 0
    BY <1>3 DEF Fresh, Done, Pending
  <2>. QED
    BY <1>2, <2>1
<1>4. CASE u.tgt = r.tgt
  BY <1>2, <1>4 DEF HasPut
<1>. QED
  BY <1>3, <1>4 DEF Walks

LEMMA WalkKept ==
    ASSUME NEW o, KeptInv(o), ObjectsInv', NEW t \in Goroutine, th[t].pc # "idle",
           NEW u, Go(t, u), Walks(th[t], u), KindsKept(objs, objs'),
           o \in 1 .. Len(objs) /\ objs[o].kind # "map" => Keeps(objs, objs', o)
    PROVE  KeptInv(o)'
<1>1. Pending(th[t]) /\ Len(calls[t]) < MaxCalls
  BY BusyFacts DEF KeptInv, TallyInv
<1>2. u.pc \notin {"ok", "error"} => Pending(u)
  BY <1>1, WalkPending
<1>3. u.pc \in {"ok", "error"} => u.tgt = th[t].tgt
  BY DEF Walks
<1>4. \A v : Owes(u, o, v) => HasPut(th[t], o, v)
  BY <1>1, WalkOwes, Zenon
<1>5. Settles(t, u, o)
  BY <1>2, <1>3, <1>4, Zenon DEF Settles
<1>. QED
  BY <1>1, <1>5, SettledKept

\* An engine call that only reads.
LEMMA ReadKept ==
    ASSUME NEW o, KeptInv(o), ObjectsInv', NEW t \in Goroutine, th[t].pc # "idle",
           NEW u, Go(t, u), Walks(th[t], u), UNCHANGED objs
    PROVE  KeptInv(o)'
<1>1. GoodObjs(objs)
  BY DEF KeptInv, ObjectsInv
<1>2. KindsKept(objs, objs')
  BY DEF KindsKept
<1>3. o \in 1 .. Len(objs) /\ objs[o].kind # "map" => Keeps(objs, objs', o)
  BY <1>1, SameKeeps
<1>. QED
  BY <1>2, <1>3, WalkKept

\* What a goroutine has done when it comes to a step.
LEMMA FreshFacts ==
    ASSUME NEW o, KeptInv(o), NEW t \in Goroutine, th[t].pc # "idle"
    PROVE  /\ ObjectsInv /\ GoodObjs(objs) /\ Doing(objs, th[t]) /\ th[t].job \in Jobs
           /\ th[t] \in Recs(th[t].before) /\ Pending(th[t])
           /\ th[t].pc \notin {"size", "put", "remove"} => Fresh(th[t])
           /\ th[t].tgt = 0 => Fresh(th[t])
<1>1. Pending(th[t])
  BY DEF KeptInv, TallyInv
<1>2. th[t].pc \notin {"size", "put", "remove"} => Fresh(th[t])
  BY <1>1 DEF Pending, Fresh
<1>3. th[t].tgt = 0 => Fresh(th[t])
  BY <1>1 DEF Pending, Fresh
<1>. QED
  BY <1>1, <1>2, <1>3, BusyFacts DEF KeptInv

LEMMA PcWalks ==
    ASSUME NEW r, r \in Recs(r.before), NEW p \in PCs, p # "remove",
           p \in {"last", "droplen", "drop", "inc", "ok"} => r.job.op \notin Adds,
           Fresh(r) \/ p \in {"ok", "error"},
           NEW u, u = [r EXCEPT !.pc = p]
    PROVE  Walks(r, u)
<1>1. Same(u, r) /\ u.pc = p
  BY PcOnly
<1>. QED
  BY <1>1 DEF Walks, Same

LEMMA FailWalks ==
    ASSUME NEW r, r \in Recs(r.before)
    PROVE  Walks(r, Fail(r))
<1> DEFINE u == Fail(r)
<1>1. u = [r EXCEPT !.pc = "error"]
  BY DEF Fail
<1> HIDE DEF u
<1>2. Walks(r, u)
  BY <1>1, PcWalks DEF PCs
<1>. QED
  BY <1>2 DEF u

LEMMA EnterWalks ==
    ASSUME NEW r, r \in Recs(r.before), Fresh(r), NEW l, NEW c, NEW u, u = Enter(r, l, c)
    PROVE  Walks(r, u)
<1> DEFINE p == IF r.job.op \in MapOps /\ l = Len(r.job.path) THEN "write" ELSE "get"
<1>1. u = [r EXCEPT !.lvl = l, !.obj = c, !.pc = p]
  BY DEF Enter
<1>2. p \in {"write", "get"}
  OBVIOUS
<1> HIDE DEF p
<1>3. u.job = r.job /\ u.todo = r.todo /\ u.pc = p /\ u.tgt = r.tgt
  BY <1>1 DEF Recs
<1>. QED
  BY <1>2, <1>3 DEF Walks

LEMMA SizedWalks ==
    ASSUME NEW r, r \in Recs(r.before), r.tgt = 0 => Fresh(r), NEW len, NEW u, u = Sized(r, len)
    PROVE  Walks(r, u)
<1> DEFINE i   == IF r.job.op \in {"insert", "overwrite", "remove"} THEN r.job.at ELSE len
           bad == i < 0 \/ i > len \/ (r.job.op \in {"overwrite", "remove"} /\ i = len)
           q   == [r EXCEPT !.idx = i]
<1>1. u = IF bad THEN Fail(r)
          ELSE IF r.job.op = "remove" THEN [q EXCEPT !.pc = "remove"]
          ELSE IF r.tgt # 0 THEN [q EXCEPT !.pc = "put"]
          ELSE [Enter(q, 1, Root) EXCEPT !.mode = "ensure"]
  BY DEF Sized
<1> HIDE DEF i, bad
<1>2. CASE bad
  BY <1>1, <1>2, FailWalks
<1>3. CASE ~bad /\ r.job.op = "remove"
  <2>1. u = [q EXCEPT !.pc = "remove"]
    BY <1>1, <1>3
  <2>2. u.job = r.job /\ u.todo = r.todo /\ u.pc = "remove" /\ u.tgt = r.tgt
    BY <2>1 DEF Recs
  <2>. QED
    BY <1>3, <2>2 DEF Walks
<1>4. CASE ~bad /\ r.job.op # "remove" /\ r.tgt # 0
  <2>1. u = [q EXCEPT !.pc = "put"]
    BY <1>1, <1>4
  <2>2. u.job = r.job /\ u.todo = r.todo /\ u.pc = "put" /\ u.tgt = r.tgt
    BY <2>1 DEF Recs
  <2>. QED
    BY <1>4, <2>2 DEF Walks
<1>5. CASE ~bad /\ r.job.op # "remove" /\ r.tgt = 0
  <2> DEFINE p == IF r.job.op \in MapOps /\ 1 = Len(r.job.path) THEN "write" ELSE "get"
  <2>1. u = [Enter(q, 1, Root) EXCEPT !.mode = "ensure"]
    BY <1>1, <1>5
  <2> DEFINE y == Enter(q, 1, Root)
  <2>2. /\ q.job = r.job /\ q.todo = r.todo /\ q.tgt = r.tgt
        /\ {"pc", "job", "todo", "tgt"} \subseteq DOMAIN q
    BY DEF Recs
  <2>3. y = [q EXCEPT !.lvl = 1, !.obj = Root, !.pc = p]
    BY <2>2 DEF Enter
  <2>4. p \in {"write", "get"}
    OBVIOUS
  <2> HIDE DEF p, q, y
  <2>5. /\ y.job = r.job /\ y.todo = r.todo /\ y.pc = p /\ y.tgt = r.tgt
        /\ {"pc", "job", "todo", "tgt"} \subseteq DOMAIN y
    BY <2>2, <2>3
  <2>6. u = [y EXCEPT !.mode = "ensure"]
    BY <2>1 DEF y
  <2>7. u.job = r.job /\ u.todo = r.todo /\ u.pc = p /\ u.tgt = r.tgt
    BY <2>5, <2>6
  <2>. QED
    BY <1>5, <2>4, <2>7 DEF Walks
<1>. QED
  BY <1>2, <1>3, <1>4, <1>5

LEMMA ReachedWalks ==
    ASSUME NEW r, r \in Recs(r.before), Fresh(r), NEW c, NEW u, u = Reached(r, c)
    PROVE  Walks(r, u)
<1>1. CASE ~AtEnd(r)
  <2>1. u = Enter(r, r.lvl + 1, c.n)
    BY <1>1 DEF Reached
  <2>. QED
    BY <2>1, EnterWalks
<1>2. CASE AtEnd(r) /\ r.job.op = "inc"
  <2>1. u = [r EXCEPT !.pc = "inc"]
    BY <1>2 DEF Reached
  <2>2. r.job.op \notin Adds
    BY <1>2 DEF Adds
  <2>. QED
    BY <2>1, <2>2, PcWalks DEF PCs
<1>3. CASE AtEnd(r) /\ r.job.op \in SeqOps
  <2>1. u = [r EXCEPT !.pc = "put", !.tgt = c.n]
    BY <1>3 DEF Reached
  <2>2. u.job = r.job /\ u.todo = r.todo /\ u.pc = "put"
    BY <2>1 DEF Recs
  <2>. QED
    BY <2>2 DEF Walks
<1>4. CASE AtEnd(r) /\ r.job.op = "slice"
  <2>1. u = [r EXCEPT !.pc = "size", !.obj = c.n, !.tgt = c.n]
    BY <1>4 DEF Reached
  <2>2. u.job = r.job /\ u.todo = r.todo /\ u.pc = "size"
    BY <2>1 DEF Recs
  <2>. QED
    BY <2>2 DEF Walks
<1>5. CASE AtEnd(r) /\ r.job.op \notin SeqOps \cup {"inc", "slice"}
  <2>1. u = [r EXCEPT !.pc = "ok"]
    BY <1>5 DEF Reached
  <2>2. r.job.op \notin Adds
    BY <1>5 DEF Adds
  <2>. QED
    BY <2>1, <2>2, PcWalks DEF PCs
<1>. QED
  BY <1>1, <1>2, <1>3, <1>4, <1>5

LEMMA WrittenWalks ==
    ASSUME NEW r, r \in Recs(r.before), Fresh(r), NEW c, NEW u, u = Written(r, c)
    PROVE  Walks(r, u)
<1>1. CASE c.tag = "text"
  <2>1. u = [r EXCEPT !.pc = "clear", !.new = c.n]
    BY <1>1 DEF Written
  <2>2. u.job = r.job /\ u.todo = r.todo /\ u.pc = "clear" /\ u.tgt = r.tgt
    BY <2>1 DEF Recs
  <2>. QED
    BY <2>2 DEF Walks
<1>2. CASE c.tag # "text"
  BY <1>2, ReachedWalks DEF Written
<1>. QED
  BY <1>1, <1>2

LEMMA ArrivedWalks ==
    ASSUME NEW r, r \in Recs(r.before), Fresh(r), NEW v, NEW u, u = Arrived(r, v)
    PROVE  Walks(r, u)
<1>1. r.mode \in {"read", "ensure"}
  BY DEF Recs
<1>2. \/ u = Sized(r, 0) \/ u = Reached(r, v) \/ u = Fail(r)
      \/ u = [r EXCEPT !.pc = "size", !.obj = v.n] \/ u = [r EXCEPT !.pc = "write"]
  BY <1>1 DEF Arrived
<1>3. CASE u = [r EXCEPT !.pc = "size", !.obj = v.n]
  <2>1. u.job = r.job /\ u.todo = r.todo /\ u.pc = "size" /\ u.tgt = r.tgt
    BY <1>3 DEF Recs
  <2>. QED
    BY <2>1 DEF Walks
<1>4. CASE u = [r EXCEPT !.pc = "write"]
  BY <1>4, PcWalks DEF PCs
<1>. QED
  BY <1>2, <1>3, <1>4, SizedWalks, ReachedWalks, FailWalks

-----------------------------------------------------------------------------
(* The steps *)

\* No engine call that is about to be made takes a value out of o.
Untaken(o) == \A t \in Goroutine : ~Takes(th[t], o)

LEMMA CallKept ==
    ASSUME NEW o, KeptInv(o), ObjectsInv', NEW t \in Goroutine, Call(t)
    PROVE  KeptInv(o)'
<1>1. Len(calls[t]) < MaxCalls /\ UNCHANGED objs
  BY DEF Call
<1>2. PICK j \in Jobs : Go(t, Begin(t, j))
  BY DEF Call
<1> DEFINE u == Begin(t, j)
           r == [Idle EXCEPT !.job = j, !.before = View, !.todo = j.vals]
           p == IF j.op \in MapOps /\ 1 = Len(j.path) THEN "write" ELSE "get"
           q == IF j.op = "splice" THEN "put" ELSE "size"
           x == [r EXCEPT !.lvl = 1, !.obj = Root, !.pc = p]
<1>3. /\ r.job = j /\ r.todo = j.vals
      /\ DOMAIN r = {"pc", "job", "mode", "lvl", "obj", "pos", "insert", "idx", "tgt", "new", "cut",
                     "todo", "before"}
  BY DEF Idle
<1>4. Enter(r, 1, Root) = x
  BY <1>3 DEF Enter
<1>5. \/ u = x \/ u = [x EXCEPT !.mode = "read"]
      \/ \E g : u = [r EXCEPT !.pc = q, !.obj = g, !.tgt = g]
  BY <1>4 DEF Begin
<1>6. p \in {"write", "get"} /\ q \in {"put", "size"}
  OBVIOUS
<1> HIDE DEF u, r, p, q
<1>7. u.job = j /\ u.todo = j.vals /\ u.pc \in {"write", "get", "put", "size"}
  BY <1>3, <1>5, <1>6
<1>8. j.vals \in Seq(Nat) /\ Len(j.vals) \in Nat
  BY JobFacts
<1>9. Done(u) = 0
  BY <1>7, <1>8 DEF Done
<1>10. Pending(u)
  BY <1>7, <1>8, <1>9 DEF Pending
<1>11. \A v : ~Owes(u, o, v)
  BY <1>7, <1>9 DEF Owes
<1>12. GoodObjs(objs)
  BY DEF KeptInv, ObjectsInv
<1>13. o \in 1 .. Len(objs) /\ objs[o].kind # "map" => Keeps(objs, objs', o)
  BY <1>1, <1>12, SameKeeps
<1>14. KindsKept(objs, objs')
  BY <1>1 DEF KindsKept
<1>15. Settles(t, u, o)
  BY <1>7, <1>10, <1>11, <1>13, <1>14 DEF Settles
<1>16. Go(t, u)
  BY <1>2 DEF u
<1>. QED
  BY <1>1, <1>15, <1>16, SettledKept

LEMMA GetKept ==
    ASSUME NEW o, KeptInv(o), ObjectsInv', NEW t \in Goroutine, GetKey(t) \/ GetLen(t) \/ GetAt(t)
    PROVE  KeptInv(o)'
<1> DEFINE r == th[t]
<1>1. r.pc \in {"get", "at"} /\ UNCHANGED objs
  BY DEF GetKey, GetLen, GetAt
<1>2. r \in Recs(r.before) /\ Fresh(r)
  BY <1>1, FreshFacts
<1>3. ASSUME NEW v, Go(t, Arrived(r, v)) PROVE KeptInv(o)'
  <2> DEFINE u == Arrived(r, v)
  <2>1. Walks(r, u)
    BY <1>2, ArrivedWalks
  <2>2. Go(t, u)
    BY <1>3
  <2> HIDE DEF u
  <2>. QED
    BY <1>1, <2>1, <2>2, ReadKept
<1>4. CASE GetKey(t)
  BY <1>3, <1>4 DEF GetKey
<1>5. CASE GetLen(t)
  <2>1. Go(t, [r EXCEPT !.pc = "at"]) \/ Go(t, Arrived(r, Void))
    BY <1>5 DEF GetLen
  <2>2. ASSUME Go(t, [r EXCEPT !.pc = "at"]) PROVE KeptInv(o)'
    <3> DEFINE u == [r EXCEPT !.pc = "at"]
    <3>1. Walks(r, u)
      BY <1>2, PcWalks DEF PCs, Walking
    <3>2. Go(t, u)
      BY <2>2
    <3> HIDE DEF u
    <3>. QED
      BY <1>1, <3>1, <3>2, ReadKept
  <2>. QED
    BY <1>3, <2>1, <2>2
<1>6. CASE GetAt(t)
  <2> DEFINE q == [r EXCEPT !.pos = Seg(r)]
             u == Arrived(q, ListGet(r.obj, Seg(r)))
  <2>1. Go(t, u) /\ r.pc = "at"
    BY <1>6 DEF GetAt
  <2>2. Seg(r) \in Nat
    BY <1>1, <2>1, FreshFacts DEF Doing, AtSegment
  <2>3. q \in Recs(q.before) /\ q.job = r.job /\ q.todo = r.todo /\ q.tgt = r.tgt
    BY <1>2, <2>2 DEF Recs
  <2> HIDE DEF q
  <2>4. Fresh(q)
    BY <1>2, <2>3 DEF Fresh
  <2>5. Walks(q, u)
    BY <2>3, <2>4, ArrivedWalks
  <2> HIDE DEF u
  <2>6. Walks(r, u)
    BY <2>3, <2>5 DEF Walks, Fresh
  <2>. QED
    BY <1>1, <2>1, <2>6, ReadKept
<1>. QED
  BY <1>4, <1>5, <1>6

LEMMA SizeKept ==
    ASSUME NEW o, KeptInv(o), ObjectsInv', NEW t \in Goroutine, Size(t)
    PROVE  KeptInv(o)'
<1> DEFINE r == th[t]
           u == Sized(r, ListLen(r.obj))
<1>1. r.pc = "size" /\ Go(t, u) /\ UNCHANGED objs
  BY DEF Size
<1>2. r \in Recs(r.before) /\ (r.tgt = 0 => Fresh(r))
  BY <1>1, FreshFacts
<1>3. Walks(r, u)
  BY <1>2, SizedWalks
<1> HIDE DEF u
<1>. QED
  BY <1>1, <1>3, ReadKept

LEMMA LookKept ==
    ASSUME NEW o, KeptInv(o), ObjectsInv', NEW t \in Goroutine,
           \/ WriteBeyond(t) \/ DeleteAtEnd(t) \/ WriteWhich(t)
           \/ AppendLen(t) \/ SetLen(t) \/ DropLen(t) \/ ClearLen(t)
    PROVE  KeptInv(o)'
<1> DEFINE r == th[t]
<1>1. /\ r.pc \in {"write", "last", "which", "appendlen", "setlen", "droplen", "clear"}
      /\ UNCHANGED objs
  BY DEF WriteBeyond, DeleteAtEnd, WriteWhich, AppendLen, SetLen, DropLen, ClearLen
<1>2. r \in Recs(r.before) /\ Fresh(r) /\ Pending(r)
  BY <1>1, FreshFacts
<1>3. ASSUME NEW p \in PCs \ {"remove"},
             p \in {"last", "droplen", "drop", "inc", "ok"} => r.job.op \notin Adds,
             Go(t, [r EXCEPT !.pc = p])
      PROVE  KeptInv(o)'
  <2> DEFINE u == [r EXCEPT !.pc = p]
  <2>1. Walks(r, u)
    BY <1>2, <1>3, PcWalks
  <2>2. Go(t, u)
    BY <1>3
  <2> HIDE DEF u
  <2>. QED
    BY <1>1, <2>1, <2>2, ReadKept
<1>4. ASSUME Go(t, Fail(r)) PROVE KeptInv(o)'
  BY <1>3, <1>4 DEF Fail, PCs
<1>5. ASSUME NEW b, NEW n, Go(t, [r EXCEPT !.pc = "place", !.insert = b, !.pos = n])
      PROVE  KeptInv(o)'
  <2> DEFINE u == [r EXCEPT !.pc = "place", !.insert = b, !.pos = n]
  <2>1. u.job = r.job /\ u.todo = r.todo /\ u.pc = "place" /\ u.tgt = r.tgt
    BY <1>2 DEF Recs
  <2>2. Go(t, u)
    BY <1>5
  <2> HIDE DEF u
  <2>3. Walks(r, u)
    BY <1>2, <2>1 DEF Walks
  <2>. QED
    BY <1>1, <2>2, <2>3, ReadKept
<1>6. CASE WriteBeyond(t)
  <2> DEFINE p == IF Deleting(r) THEN "last" ELSE "which"
  <2>1. Go(t, Fail(r)) \/ Go(t, [r EXCEPT !.pc = p])
    BY <1>6 DEF WriteBeyond
  <2>2. p \in PCs \ {"remove"}
    BY DEF PCs, Walking
  <2>3. p \in {"last", "droplen", "drop", "inc", "ok"} => r.job.op \notin Adds
    BY DEF Deleting, Adds
  <2> HIDE DEF p
  <2>. QED
    BY <1>3, <1>4, <2>1, <2>2, <2>3
<1>7. CASE DeleteAtEnd(t)
  <2>1. r.pc = "last" /\ (Go(t, Fail(r)) \/ Go(t, [r EXCEPT !.pc = "droplen"]))
    BY <1>7 DEF DeleteAtEnd
  <2>2. r.job.op \notin Adds
    BY <1>2, <2>1 DEF Pending
  <2>. QED
    BY <1>3, <1>4, <2>1, <2>2 DEF PCs, Walking
<1>8. CASE WriteWhich(t)
  <2>1. Go(t, [r EXCEPT !.pc = "appendlen"]) \/ Go(t, [r EXCEPT !.pc = "setlen"])
    BY <1>8 DEF WriteWhich
  <2>. QED
    BY <1>3, <2>1 DEF PCs, Walking
<1>9. CASE AppendLen(t)
  BY <1>5, <1>9 DEF AppendLen
<1>10. CASE SetLen(t)
  <2>1. \/ Go(t, Fail(r)) \/ Go(t, [r EXCEPT !.pc = "place", !.insert = FALSE, !.pos = Seg(r)])
    BY <1>10 DEF SetLen
  <2>. QED
    BY <1>4, <1>5, <2>1
<1>11. CASE DropLen(t)
  <2>1. r.pc = "droplen" /\ (Go(t, Fail(r)) \/ Go(t, [r EXCEPT !.pc = "drop"]))
    BY <1>11 DEF DropLen
  <2>2. r.job.op \notin Adds
    BY <1>2, <2>1 DEF Pending
  <2>. QED
    BY <1>3, <1>4, <2>1, <2>2 DEF PCs, Walking
<1>12. CASE ClearLen(t)
  <2> DEFINE u == [r EXCEPT !.pc = "fill", !.cut = ListLen(r.new)]
  <2>1. Go(t, u)
    BY <1>12 DEF ClearLen
  <2>2. u.job = r.job /\ u.todo = r.todo /\ u.pc = "fill" /\ u.tgt = r.tgt
    BY <1>2 DEF Recs
  <2> HIDE DEF u
  <2>3. Walks(r, u)
    BY <1>2, <2>2 DEF Walks
  <2>. QED
    BY <1>1, <2>1, <2>3, ReadKept
<1>. QED
  BY <1>6, <1>7, <1>8, <1>9, <1>10, <1>11, <1>12

LEMMA FailKept ==
    ASSUME NEW o, KeptInv(o), ObjectsInv', NEW t \in Goroutine, th[t].pc # "idle",
           Go(t, Fail(th[t])), UNCHANGED objs
    PROVE  KeptInv(o)'
<1> DEFINE u == Fail(th[t])
<1>1. Walks(th[t], u)
  BY FreshFacts, FailWalks
<1>2. Go(t, u)
  OBVIOUS
<1> HIDE DEF u
<1>. QED
  BY <1>1, <1>2, ReadKept

LEMMA WriteKept ==
    ASSUME NEW o, KeptInv(o), Untaken(o), ObjectsInv', NEW t \in Goroutine, WriteKey(t) \/ Place(t)
    PROVE  KeptInv(o)'
<1> DEFINE r == th[t]
           c == ToWrite(r)
           u == Written(r, c)
<1>1. r.pc \in {"write", "place"}
  BY DEF WriteKey, Place
<1>2. /\ GoodObjs(objs) /\ Doing(objs, r) /\ r.job \in Jobs /\ r \in Recs(r.before) /\ Fresh(r)
  BY <1>1, FreshFacts
<1>3. r.lvl \in 1 .. Len(r.job.path)
  BY <1>1, <1>2, WalkFacts DEF Walking
<1>4. Fits(c)
  BY <1>2, <1>3, ToWriteFits
<1>5. Walks(r, u)
  BY <1>2, WrittenWalks
<1> HIDE DEF c, u
<1>6. CASE WriteKey(t)
  <2>1. CASE ~CanMapPut(Seg(r))
    <3>1. Go(t, Fail(r)) /\ UNCHANGED objs
      BY <1>6, <2>1 DEF WriteKey
    <3>. QED
      BY <1>1, <3>1, FailKept
  <2>2. CASE CanMapPut(Seg(r))
    <3>1. /\ r.pc = "write" /\ Seg(r) \in Key /\ objs' = MapPut(r.obj, Seg(r), c) /\ Go(t, u)
      BY <1>6, <2>2 DEF WriteKey, c, u
    <3>2. Has(objs, r.obj, "map")
      BY <1>2, <3>1 DEF Doing, AtSegment
    <3>3. KindsKept(objs, objs')
      BY <1>2, <1>4, <3>1, <3>2, MapPutGood
    <3>4. o \in 1 .. Len(objs) /\ objs[o].kind # "map" => Keeps(objs, objs', o)
      BY <1>2, <1>4, <3>1, <3>2, MapPutKeeps
    <3>. QED
      BY <1>1, <1>5, <3>1, <3>3, <3>4, WalkKept
  <2>. QED
    BY <2>1, <2>2
<1>7. CASE Place(t)
  <2>1. CASE ~CanListPut(r.obj, r.pos, r.insert)
    <3>1. Go(t, Fail(r)) /\ UNCHANGED objs
      BY <1>7, <2>1 DEF Place
    <3>. QED
      BY <1>1, <3>1, FailKept
  <2>2. CASE CanListPut(r.obj, r.pos, r.insert)
    <3>1. /\ r.pc = "place" /\ objs' = ListPut(r.obj, r.pos, r.insert, c) /\ Go(t, u)
      BY <1>7, <2>2 DEF Place, c, u
    <3>2. Has(objs, r.obj, "list") /\ r.pos \in Nat
      BY <1>2, <3>1 DEF Doing, AtSegment, Walking, Recs
    <3>3. r.insert \in BOOLEAN
      BY <1>2 DEF Recs
    <3>4. o = r.obj => r.insert
      BY <3>1, Zenon DEF Untaken, Takes
    <3>5. KindsKept(objs, objs')
      BY <1>2, <1>4, <2>2, <3>1, <3>2, <3>3, ListPutGood
    <3>6. o \in 1 .. Len(objs) /\ objs[o].kind # "map" => Keeps(objs, objs', o)
      BY <1>2, <1>4, <2>2, <3>1, <3>2, <3>3, <3>4, ListPutKeeps
    <3>. QED
      BY <1>1, <1>5, <3>1, <3>5, <3>6, WalkKept
  <2>. QED
    BY <2>1, <2>2
<1>. QED
  BY <1>6, <1>7

LEMMA ChangeKept ==
    ASSUME NEW o, KeptInv(o), Untaken(o), ObjectsInv', NEW t \in Goroutine,
           Drop(t) \/ RemoveItem(t) \/ Inc(t)
    PROVE  KeptInv(o)'
<1> DEFINE r == th[t]
           u == [r EXCEPT !.pc = "ok"]
<1>1. r.pc \in {"drop", "remove", "inc"}
  BY DEF Drop, RemoveItem, Inc
<1>2. /\ GoodObjs(objs) /\ Doing(objs, r) /\ r \in Recs(r.before) /\ Pending(r)
  BY <1>1, FreshFacts
<1>3. r.job.op \notin Adds
  BY <1>1, <1>2 DEF Pending, Adds
<1>4. Walks(r, u)
  BY <1>2, <1>3, PcWalks DEF PCs
<1> HIDE DEF u
<1>5. CASE Go(t, Fail(r)) /\ UNCHANGED objs
  BY <1>1, <1>5, FailKept
<1>6. ASSUME NEW q \in 1 .. Len(objs), NEW i \in Nat, CanListDelete(q, i),
             objs' = ListDelete(q, i), Go(t, u), q # o
      PROVE  KeptInv(o)'
  <2>1. KindsKept(objs, objs')
    BY <1>2, <1>6, ListDeleteGood
  <2>2. o \in 1 .. Len(objs) /\ objs[o].kind # "map" => Keeps(objs, objs', o)
    BY <1>2, <1>6, ListDeleteKeeps
  <2>. QED
    BY <1>1, <1>4, <1>6, <2>1, <2>2, WalkKept
<1>7. CASE Drop(t) /\ ~(Go(t, Fail(r)) /\ UNCHANGED objs)
  <2>1. /\ r.pc = "drop" /\ CanListDelete(r.obj, Seg(r)) /\ objs' = ListDelete(r.obj, Seg(r))
        /\ Go(t, u)
    BY <1>7 DEF Drop, u
  <2>2. r.obj \in 1 .. Len(objs) /\ Seg(r) \in Nat
    BY <1>2, <2>1 DEF Doing, AtSegment, Has, Walking
  <2>3. r.obj # o
    BY <2>1, Zenon DEF Untaken, Takes
  <2>. QED
    BY <1>6, <2>1, <2>2, <2>3
<1>8. CASE RemoveItem(t) /\ ~(Go(t, Fail(r)) /\ UNCHANGED objs)
  <2> DEFINE q == IF r.tgt # 0 THEN r.tgt ELSE Root
  <2>1. r.pc = "remove" /\ CanListDelete(q, r.idx) /\ objs' = ListDelete(q, r.idx) /\ Go(t, u)
    BY <1>8 DEF RemoveItem, u
  <2>2. q \in 1 .. Len(objs) /\ r.idx \in Nat
    BY <1>2, GoodFacts DEF Doing, AtObject, Has, Recs
  <2>3. r.tgt # 0
    <3>1. ASSUME r.tgt = 0 PROVE FALSE
      <4>1. objs[Root].kind = "list"
        BY <2>1, <3>1 DEF CanListDelete
      <4>2. objs[Root].kind = "map"
        BY <1>2, GoodFacts DEF Has
      <4>. QED
        BY <4>1, <4>2
    <3>. QED
      BY <3>1
  <2>4. q # o
    BY <2>1, <2>3, Zenon DEF Untaken, Takes
  <2> HIDE DEF q
  <2>. QED
    BY <1>6, <2>1, <2>2, <2>4
<1>9. CASE Inc(t) /\ ~(Go(t, Fail(r)) /\ UNCHANGED objs)
  <2> DEFINE i == IF Seg(r) \in Key THEN Seg(r) ELSE r.pos + 1
  <2>1. /\ r.pc = "inc" /\ CanIncrement(r.obj, i) /\ objs' = Increment(r.obj, i) /\ Go(t, u)
    BY <1>9 DEF Inc, u
  <2>2. r.obj \in 1 .. Len(objs)
    BY <1>2, <2>1 DEF Doing, AtSegment
  <2> HIDE DEF i
  <2>3. KindsKept(objs, objs')
    BY <1>2, <2>1, <2>2, IncrementGood
  <2>4. o \in 1 .. Len(objs) /\ objs[o].kind # "map" => Keeps(objs, objs', o)
    BY <1>2, <2>1, <2>2, IncrementKeeps
  <2>. QED
    BY <1>1, <1>4, <2>1, <2>3, <2>4, WalkKept
<1>. QED
  BY <1>5, <1>7, <1>8, <1>9

LEMMA FillKept ==
    ASSUME NEW o, KeptInv(o), Untaken(o), ObjectsInv', NEW t \in Goroutine, Fill(t)
    PROVE  KeptInv(o)'
<1> DEFINE r  == th[t]
           vs == IF r.job.op = "text" /\ AtEnd(r) THEN Scalars(r.job.vals) ELSE <<>>
           u  == Reached(r, Cell("text", r.new))
<1>1. r.pc = "fill" /\ objs' = Splice(r.new, 0, r.cut, vs) /\ Go(t, u)
  BY DEF Fill
<1>2. /\ GoodObjs(objs) /\ Doing(objs, r) /\ r.job \in Jobs /\ r \in Recs(r.before) /\ Fresh(r)
  BY <1>1, FreshFacts
<1>3. Has(objs, r.new, "text") /\ r.cut \in Int /\ 0 \in Int
  BY <1>1, <1>2 DEF Doing, AtObject, Recs
<1>4. vs \in Seq(Cells(objs))
  BY <1>2, JobFacts, ScalarsGood
<1>5. Walks(r, u)
  BY <1>2, ReachedWalks
<1> HIDE DEF vs, u
<1>6. o = r.new => r.cut <= 0
  <2>1. o = r.new => r.cut = 0
    BY <1>1, Zenon DEF Untaken, Takes
  <2>. QED
    BY <2>1
<1>7. KindsKept(objs, objs')
  BY <1>1, <1>2, <1>3, <1>4, SpliceGood
<1>8. o \in 1 .. Len(objs) /\ objs[o].kind # "map" => Keeps(objs, objs', o)
  BY <1>1, <1>2, <1>3, <1>4, <1>6, SpliceKeeps
<1>. QED
  BY <1>1, <1>5, <1>7, <1>8, WalkKept

-----------------------------------------------------------------------------
(* The steps that put what the caller gave *)

LEMMA ScalarsContain ==
    ASSUME NEW vs \in Seq(Nat), NEW v, Contains(vs, v)
    PROVE  Contains(Scalars(vs), Scalar(v)) /\ vs # <<>>
<1>1. PICK i \in 1 .. Len(vs) : vs[i] = v
  BY DEF Contains
<1>2. Len(vs) \in Nat /\ DOMAIN vs = 1 .. Len(vs)
  OBVIOUS
<1>3. Scalars(vs) = [k \in 1 .. Len(vs) |-> Scalar(vs[k])]
  BY <1>2 DEF Scalars
<1>4. Scalars(vs)[i] = Scalar(v)
  BY <1>1, <1>3
<1>5. Scalars(vs) \in Seq(Cells(objs))
  BY ScalarsGood
<1>6. Len(Scalars(vs)) = Len(vs)
  BY <1>2, <1>3, <1>5
<1>7. vs # <<>>
  BY <1>1
<1>. QED
  BY <1>1, <1>4, <1>6, <1>7 DEF Contains

LEMMA SpliceKept ==
    ASSUME NEW o, KeptInv(o), Untaken(o), ObjectsInv', NEW t \in Goroutine, SpliceText(t)
    PROVE  KeptInv(o)'
<1> DEFINE r   == th[t]
           pos == CASE r.job.op = "type"   -> r.idx
                    [] r.job.op = "retype" -> 0
                    [] r.job.op = "splice" -> r.job.at
           del == IF r.job.op = "splice" THEN r.job.del ELSE r.idx - pos
           vs  == Scalars(r.job.vals)
           u   == [r EXCEPT !.pc = "ok"]
<1>1. r.pc = "put" /\ r.job.op \in TextOps
  BY DEF SpliceText
<1>2. /\ GoodObjs(objs) /\ Doing(objs, r) /\ r.job \in Jobs /\ r \in Recs(r.before) /\ Pending(r)
      /\ Len(calls[t]) < MaxCalls
  BY <1>1, FreshFacts, BusyFacts
<1>3. CASE ~CanSplice(r.tgt, pos, r.job.vals)
  <2>1. Go(t, Fail(r)) /\ UNCHANGED objs
    BY <1>3 DEF SpliceText
  <2>. QED
    BY <1>1, <2>1, FailKept
<1>4. CASE CanSplice(r.tgt, pos, r.job.vals)
  <2>1. objs' = Splice(r.tgt, pos, del, vs) /\ Go(t, u)
    BY <1>4 DEF SpliceText
  <2>2. /\ Has(objs, r.tgt, "text") /\ r.idx \in Nat
    BY <1>1, <1>2 DEF Doing, AtObject, SeqKind, Recs
  <2>3. /\ r.job.vals \in Seq(Nat) /\ r.job.at \in Int /\ r.job.del \in Int
    BY <1>2, JobFacts
  <2>4. pos \in Int
    BY <1>1, <2>2, <2>3
  <2>5. del \in Int /\ (o = r.tgt => del <= 0)
    <3>1. CASE r.job.op = "type"
      BY <2>2, <3>1
    <3>2. CASE r.job.op = "retype"
      <4>1. o = r.tgt => r.idx = 0
        BY <1>1, <3>2, Zenon DEF Untaken, Takes
      <4>. QED
        BY <2>2, <3>2, <4>1
    <3>3. CASE r.job.op = "splice"
      <4>1. o = r.tgt => ~(r.job.del > 0)
        BY <1>1, <3>3, Zenon DEF Untaken, Takes
      <4>. QED
        BY <2>3, <3>3, <4>1
    <3>. QED
      BY <1>1, <3>1, <3>2, <3>3
  <2>6. vs \in Seq(Cells(objs))
    BY <2>3, ScalarsGood
  <2>7. u.job = r.job /\ u.pc = "ok" /\ u.tgt = r.tgt
    BY <1>2 DEF Recs
  <2> HIDE DEF pos, del, u
  <2>8. \A v : Contains(r.job.vals, v) => Contains(vs, Scalar(v)) /\ r.job.vals # <<>>
    BY <2>3, ScalarsContain, Zenon
  <2> HIDE DEF vs
  <2>9. KindsKept(objs, objs')
    BY <1>2, <2>1, <2>2, <2>4, <2>5, <2>6, SpliceGood
  <2>10. ASSUME o \in 1 .. Len(objs), objs[o].kind # "map"
         PROVE  /\ Keeps(objs, objs', o)
                /\ \A v : o = r.tgt /\ pos \in 0 .. ListLen(r.tgt) /\ Contains(vs, Scalar(v)) =>
                             Gains(objs, objs', o, v)
    BY <1>2, <2>1, <2>2, <2>4, <2>5, <2>6, <2>10, SpliceKeeps
  <2>11. ASSUME NEW v, Owes(u, o, v) PROVE o \in 1 .. Len(objs) /\ Gains(objs, objs', o, v)
    <3>1. o = r.tgt /\ Contains(r.job.vals, v)
      BY <2>7, <2>11 DEF Owes
    <3>2. pos \in 0 .. ListLen(r.tgt) /\ Contains(vs, Scalar(v))
      BY <1>4, <2>8, <3>1, Zenon DEF CanSplice
    <3>3. o \in 1 .. Len(objs) /\ objs[o].kind # "map"
      BY <2>2, <3>1 DEF Has
    <3>. QED
      BY <2>10, <3>1, <3>2, <3>3, Zenon
  <2>12. Settles(t, u, o)
    BY <2>7, <2>9, <2>10, <2>11, Zenon DEF Settles
  <2>. QED
    BY <1>2, <2>1, <2>12, SettledKept, SMTT(30)
<1>. QED
  BY <1>3, <1>4

\* The next value to put, and what is to do after it.
LEMMA NextValue ==
    ASSUME NEW r, Pending(r), r.todo # <<>>
    PROVE  /\ Done(r) \in Nat /\ Len(r.todo) \in Nat /\ Len(r.todo) >= 1
           /\ Len(r.job.vals) = Done(r) + Len(r.todo)
           /\ r.job.vals[Done(r) + 1] = Head(r.todo) /\ Head(r.todo) \in Nat
           /\ Tail(r.todo) \in Seq(Nat) /\ Len(Tail(r.todo)) = Len(r.todo) - 1
           /\ \A i \in 1 .. Len(r.todo) - 1 : Tail(r.todo)[i] = r.job.vals[Done(r) + 1 + i]
<1> DEFINE s == r.todo
           n == Len(r.job.vals)
           d == Done(r)
<1>1. /\ s \in Seq(Nat) /\ n \in Nat /\ s # <<>> /\ Len(s) <= n
      /\ \A i \in 1 .. Len(s) : s[i] = r.job.vals[d + i]
  BY DEF Pending
<1>2. d = n - Len(s)
  BY DEF Done
<1> HIDE DEF s, n, d
<1>3. /\ Len(s) \in Nat /\ Len(s) >= 1 /\ Head(s) = s[1] /\ Head(s) \in Nat
      /\ Tail(s) \in Seq(Nat) /\ Len(Tail(s)) = Len(s) - 1
      /\ \A i \in 1 .. Len(s) - 1 : Tail(s)[i] = s[i + 1]
  BY <1>1
<1>4. d \in Nat /\ n = d + Len(s)
  BY <1>1, <1>2, <1>3
<1>5. r.job.vals[d + 1] = Head(s)
  BY <1>1, <1>3
<1>6. ASSUME NEW i \in 1 .. Len(s) - 1 PROVE Tail(s)[i] = r.job.vals[d + 1 + i]
  <2>1. i + 1 \in 1 .. Len(s) /\ d + (i + 1) = d + 1 + i
    BY <1>3, <1>4
  <2>2. s[i + 1] = r.job.vals[d + (i + 1)]
    BY <1>1, <2>1
  <2>. QED
    BY <1>3, <2>1, <2>2
<1>. QED
  BY <1>3, <1>4, <1>5, <1>6 DEF s, n, d

LEMMA PutKept ==
    ASSUME NEW o, KeptInv(o), Untaken(o), ObjectsInv', NEW t \in Goroutine, PutItem(t)
    PROVE  KeptInv(o)'
<1> DEFINE r == th[t]
           insert == r.job.op # "overwrite"
           c == Scalar(Head(r.todo))
           p == IF r.job.op = "insert" THEN "put" ELSE "size"
           u == IF Len(r.todo) = 1 THEN [r EXCEPT !.pc = "ok"]
                ELSE [r EXCEPT !.pc = p, !.obj = r.tgt, !.idx = r.idx + 1, !.todo = Tail(@)]
<1>1. r.pc = "put" /\ r.job.op \notin TextOps
  BY DEF PutItem
<1>2. /\ GoodObjs(objs) /\ Doing(objs, r) /\ r.job \in Jobs /\ r \in Recs(r.before) /\ Pending(r)
      /\ Len(calls[t]) < MaxCalls
  BY <1>1, FreshFacts, BusyFacts
<1>3. CASE ~CanListPut(r.tgt, r.idx, insert)
  <2>1. Go(t, Fail(r)) /\ UNCHANGED objs
    BY <1>3 DEF PutItem
  <2>. QED
    BY <1>1, <2>1, FailKept
<1>4. CASE CanListPut(r.tgt, r.idx, insert)
  <2>1. objs' = ListPut(r.tgt, r.idx, insert, c) /\ Go(t, u)
    BY <1>4 DEF PutItem
  <2>2. /\ Has(objs, r.tgt, "list") /\ r.tgt # 0 /\ r.todo # <<>> /\ r.idx \in Nat
    BY <1>1, <1>2 DEF Doing, AtObject, SeqKind, Recs
  <2>3. /\ Done(r) \in Nat /\ Len(r.todo) \in Nat /\ Len(r.todo) >= 1
        /\ Len(r.job.vals) = Done(r) + Len(r.todo)
        /\ r.job.vals[Done(r) + 1] = Head(r.todo) /\ Head(r.todo) \in Nat
        /\ Tail(r.todo) \in Seq(Nat) /\ Len(Tail(r.todo)) = Len(r.todo) - 1
        /\ \A i \in 1 .. Len(r.todo) - 1 : Tail(r.todo)[i] = r.job.vals[Done(r) + 1 + i]
    BY <1>2, <2>2, NextValue
  <2>4. Fits(c)
    BY <2>3 DEF Fits, Scalar, Cell, Containers
  <2>5. insert \in BOOLEAN /\ (o = r.tgt => insert)
    BY <1>1, Zenon DEF Untaken, Takes
  <2>6. u.job = r.job /\ u.tgt = r.tgt
    BY <1>2 DEF Recs
  <2>7. Len(r.todo) = 1 => u.pc = "ok"
    BY <1>2 DEF Recs
  <2>8. Len(r.todo) # 1 => u.pc \in {"put", "size"} /\ u.todo = Tail(r.todo)
    BY <1>2 DEF Recs
  <2> HIDE DEF insert, u
  <2>9. KindsKept(objs, objs')
    <3> HIDE DEF c
    <3>. QED
      BY <1>2, <1>4, <2>1, <2>2, <2>4, <2>5, ListPutGood
  <2>10. ASSUME o \in 1 .. Len(objs), objs[o].kind # "map"
         PROVE  /\ Keeps(objs, objs', o)
                /\ \A v : o = r.tgt /\ c = Scalar(v) => Gains(objs, objs', o, v)
    <3> HIDE DEF c
    <3>. QED
      BY <1>2, <1>4, <2>1, <2>2, <2>4, <2>5, <2>10, ListPutKeeps
  <2>11. Len(r.todo) # 1 => Done(u) = Done(r) + 1
    <3>1. Len(r.todo) # 1 => Done(u) = Len(r.job.vals) - Len(Tail(r.todo))
      BY <2>6, <2>8, Zenon DEF Done
    <3>2. Len(r.job.vals) - Len(Tail(r.todo)) = Done(r) + 1
      BY <2>3
    <3>. QED
      BY <3>1, <3>2
  <2>12. ASSUME u.pc \notin {"ok", "error"} PROVE Pending(u)
    <3>1. Len(r.todo) # 1
      BY <2>7, <2>12
    <3>2. /\ u.pc \in {"put", "size"} /\ u.todo = Tail(r.todo) /\ Done(u) = Done(r) + 1
      BY <2>8, <2>11, <3>1
    <3>3. u.job = r.job /\ u.tgt = r.tgt /\ r.job.vals \in Seq(Nat)
      BY <1>2, <2>6 DEF Pending
    <3>4. /\ u.todo \in Seq(Nat) /\ u.job.vals \in Seq(Nat) /\ Len(u.todo) <= Len(u.job.vals)
      BY <2>3, <3>2, <3>3
    <3>5. \A i \in 1 .. Len(u.todo) : u.todo[i] = u.job.vals[Done(u) + i]
      BY <2>3, <3>2, <3>3, Zenon
    <3>6. /\ u.pc \notin {"remove", "last", "droplen", "drop", "inc"}
          /\ ~(u.pc \notin {"size", "put", "remove"} \/ u.tgt = 0 \/ u.job.op \in TextOps)
      BY <1>1, <2>2, <3>2, <3>3
    <3>. QED
      BY <2>12, <3>4, <3>5, <3>6 DEF Pending
  <2>13. ASSUME NEW v, Owes(u, o, v), ~HasPut(r, o, v)
         PROVE  o \in 1 .. Len(objs) /\ Gains(objs, objs', o, v)
    <3>1. o = r.tgt /\ r.job.op \in Adds /\ ~\E i \in 1 .. Done(r) : r.job.vals[i] = v
      BY <2>6, <2>13 DEF Owes, HasPut
    <3>2. \E i \in 1 .. Done(r) + 1 : r.job.vals[i] = v
      <4>1. CASE Len(r.todo) = 1
        BY <2>3, <2>6, <2>7, <2>13, <4>1 DEF Owes, Contains
      <4>2. CASE Len(r.todo) # 1
        BY <2>6, <2>8, <2>11, <2>13, <4>2 DEF Owes
      <4>. QED
        BY <4>1, <4>2
    <3>3. PICK i \in 1 .. Done(r) + 1 : r.job.vals[i] = v
      BY <3>2
    <3>4. i = Done(r) + 1
      BY <2>3, <3>1, <3>3
    <3>5. Head(r.todo) = v
      BY <2>3, <3>3, <3>4
    <3>6. o \in 1 .. Len(objs) /\ objs[o].kind # "map"
      BY <2>2, <3>1 DEF Has
    <3>. QED
      BY <2>10, <3>1, <3>5, <3>6
  <2>14. u.pc \in {"ok", "error"} => u.tgt = r.tgt
    BY <2>6
  <2>15. Settles(t, u, o)
    BY <2>9, <2>10, <2>12, <2>13, <2>14, Zenon DEF Settles
  <2>. QED
    BY <1>2, <2>1, <2>15, SettledKept, SMTT(30)
<1>. QED
  BY <1>3, <1>4

LEMMA KeptNext ==
    ASSUME NEW o, KeptInv(o), Untaken(o), [Next]_vars
    PROVE  KeptInv(o)'
<1>1. ObjectsInv'
  BY ObjectsNext, SMTT(30) DEF KeptInv
<1>2. CASE UNCHANGED vars
  BY <1>1, <1>2, ZenonT(60) DEF vars, KeptInv, TallyInv, Pending, Done, Paid, Due, Returned, CallAt, HasPut
<1>3. ASSUME NEW t \in Goroutine, Step(t) PROVE KeptInv(o)'
  BY <1>1, <1>3, CallKept, GetKept, SizeKept, LookKept, WriteKept, ChangeKept, FillKept,
     SpliceKept, PutKept DEF Step
<1>. QED
  BY <1>2, <1>3 DEF Next, Finished

LEMMA KeptInit ==
    ASSUME NEW o, Init
    PROVE  KeptInv(o)
<1>1. ObjectsInv
  BY ObjectsInit
<1>2. \A t \in Goroutine : th[t] = Idle /\ calls[t] = <<>>
  BY DEF Init
<1>3. TallyInv
  BY <1>2, IdlePending DEF TallyInv
<1>4. ASSUME NEW v, NEW c, c \in Due(o, v) PROVE FALSE
  <2>1. PICK s \in Goroutine, i \in 1 .. MaxCalls : c = <<s, i>>
    BY <1>4 DEF Due
  <2>2. c[1] = s /\ c[2] = i /\ th[s] = Idle /\ calls[s] = <<>> /\ i >= 1
    BY <1>2, <2>1
  <2>3. ~HasPut(th[s], o, v)
    BY <2>2 DEF HasPut, Idle, Adds
  <2>4. Earned(c, o, v)
    BY <1>4, <2>2, <2>3, DueIs, Zenon
  <2>5. i <= Len(<<>>)
    BY <2>2, <2>4 DEF Earned
  <2>. QED
    BY <2>2, <2>5
<1>5. \A v : Due(o, v) = {}
  BY <1>4, Zenon
<1>6. Paid(o)
  <2>1. \A v : Cardinality(Due(o, v)) = 0
    BY <1>5, FS_EmptySet
  <2>2. GoodObjs(objs)
    BY <1>1 DEF ObjectsInv
  <2>3. o \in 1 .. Len(objs) /\ objs[o].kind # "map" =>
           \A v : Cardinality(Spots(objs[o].at, v)) \in Nat
    BY <2>2, CardinalsFinite, Zenon
  <2>. QED
    BY <2>1, <2>3 DEF Paid
<1>. QED
  BY <1>1, <1>3, <1>6 DEF KeptInv

\* What AppendsKept says of one object, for every value there is.
KeptIn(o) ==
    o \in DOMAIN objs /\ objs[o].kind # "map" =>
        \A v : Cardinality({c \in Returned : /\ CallAt(c).job.op \in Adds /\ CallAt(c).tgt = o
                                             /\ Contains(CallAt(c).job.vals, v)})
                  <= Cardinality(Spots(objs[o].at, v))

LEMMA PaidIsKept ==
    ASSUME NEW o, KeptInv(o)
    PROVE  KeptIn(o)
<1>1. GoodObjs(objs) /\ Paid(o)
  BY DEF KeptInv, ObjectsInv
<1>2. SUFFICES ASSUME o \in DOMAIN objs, objs[o].kind # "map", NEW v
               PROVE  Cardinality({c \in Returned :
                          /\ CallAt(c).job.op \in Adds
                          /\ CallAt(c).tgt = o /\ Contains(CallAt(c).job.vals, v)})
                         <= Cardinality(Spots(objs[o].at, v))
  BY Zenon DEF KeptIn
<1> DEFINE E == {c \in Returned : /\ CallAt(c).job.op \in Adds
                                  /\ CallAt(c).tgt = o /\ Contains(CallAt(c).job.vals, v)}
<1>3. o \in 1 .. Len(objs)
  BY <1>1, <1>2, GoodFacts
<1>4. Cardinality(Due(o, v)) <= Cardinality(Spots(objs[o].at, v))
  BY <1>1, <1>2, <1>3, Zenon DEF Paid
<1>5. E \subseteq Due(o, v)
  BY Zenon DEF Due, Returned
<1>6. IsFiniteSet(Due(o, v)) /\ Cardinality(Due(o, v)) \in Nat
  BY CallsFinite DEF Due
<1> HIDE DEF E
<1>7. Cardinality(E) <= Cardinality(Due(o, v)) /\ Cardinality(E) \in Nat
  BY <1>5, <1>6, FS_Subset, FS_CardinalityType
<1>8. Cardinality(Spots(objs[o].at, v)) \in Nat
  BY <1>1, <1>2, <1>3, CardinalsFinite, Zenon
<1>9. Cardinality(E) <= Cardinality(Spots(objs[o].at, v))
  BY <1>4, <1>6, <1>7, <1>8
<1>. QED
  BY <1>9 DEF E

\* A list or text that nobody overwrites or deletes from has, once for every
\* call that returned nil, each value that Append, Insert or a splice that
\* deletes nothing gave: a length that List.Append, Text.Append or Path.ensure
\* read before another goroutine wrote may misplace a value, and never loses one.
\* It holds of each object on its own, whatever is done to the others.
THEOREM AddedIsKept ==
    ASSUME NEW o
    PROVE  Spec /\ []Untaken(o) => []KeptIn(o)
<1>1. Init => KeptInv(o)
  BY KeptInit
<1>2. KeptInv(o) /\ Untaken(o) /\ [Next]_vars => KeptInv(o)'
  BY KeptNext
<1>3. KeptInv(o) => KeptIn(o)
  BY PaidIsKept
<1>. QED
  BY <1>1, <1>2, <1>3, PTL DEF Spec

\* AppendsKept, where no goroutine is about to take a value out of any object.
THEOREM AddedIsKeptInAll == Spec /\ [](\A o \in DOMAIN objs : Untaken(o)) => []AppendsKept
<1> DEFINE Quiet == \A o \in DOMAIN objs : Untaken(o)
           Inv   == ObjectsInv /\ TallyInv /\ \A o : Paid(o)
<1>1. Init => Inv
  BY KeptInit, Zenon DEF KeptInv
<1>2. ASSUME ObjectsInv, Quiet, NEW o, o # 0 PROVE Untaken(o)
  <2>1. CASE o \in DOMAIN objs
    BY <1>2, <2>1
  <2>2. CASE o \notin DOMAIN objs
    <3>1. ASSUME NEW t \in Goroutine PROVE ~Takes(th[t], o)
      <4>1. Doing(objs, th[t]) /\ DOMAIN objs = 1 .. Len(objs)
        BY <1>2, GoodFacts DEF ObjectsInv
      <4>2. /\ th[t].tgt # 0 => th[t].tgt \in DOMAIN objs
            /\ th[t].pc \in {"drop", "place"} => th[t].obj \in DOMAIN objs
            /\ th[t].pc = "fill" => th[t].new \in DOMAIN objs
        BY <4>1 DEF Doing, AtObject, AtSegment, Has, Walking
      <4>. QED
        BY <1>2, <2>2, <4>2 DEF Takes
    <3>. QED
      BY <3>1 DEF Untaken
  <2>. QED
    BY <2>1, <2>2
<1>3. Paid(0)
  BY DEF Paid
<1>4. Inv /\ Quiet /\ [Next]_vars => Inv'
  <2> SUFFICES ASSUME Inv, Quiet, [Next]_vars PROVE Inv'
    OBVIOUS
  <2>1. ASSUME NEW o PROVE ObjectsInv' /\ (o # 0 => TallyInv' /\ Paid(o)')
    <3>1. ObjectsInv'
      BY ObjectsNext
    <3>2. ASSUME o # 0 PROVE KeptInv(o)'
      BY <1>2, <3>2, KeptNext DEF KeptInv
    <3>. QED
      BY <3>1, <3>2 DEF KeptInv
  <2>2. Paid(0)'
    BY DEF Paid
  <2>3. TallyInv'
    BY <2>1
  <2>. QED
    BY <2>1, <2>2, <2>3
<1>5. Inv => AppendsKept
  <2> SUFFICES ASSUME Inv PROVE AppendsKept
    OBVIOUS
  <2>1. \A o : KeptIn(o)
    BY PaidIsKept, Zenon DEF KeptInv
  <2>. QED
    BY <2>1, Zenon DEF AppendsKept, KeptIn, Adds, Spots
<1> HIDE DEF Inv, Quiet
<1>6. Spec /\ []Quiet => []AppendsKept
  BY <1>1, <1>4, <1>5, PTL DEF Spec
<1>. QED
  BY <1>6 DEF Quiet
=============================================================================
