--------------------------- MODULE PathSlices_proofs ---------------------------
(***************************************************************************)
(* Proof that a path derived only from paths with arrays of their own      *)
(* keeps its segments, for paths of any number and length: no path that    *)
(* shares its array is shorter, and append writes behind the path it       *)
(* extends.                                                                *)
(***************************************************************************)
EXTENDS PathSlices, SequenceTheorems, TLAPS

PathRec == [arr : Nat, len : Nat, args : Seq(Good \cup Odd), fresh : BOOLEAN]

\* A path is within its array, and as long as its arguments.
Fits(as, p) ==
    /\ p.arr \in 1 .. Len(as) /\ p.len <= Len(as[p.arr])
    /\ p.len = Len(p.args)

\* The segments are those that were asked for, one by one.
Right(as, p) == \A i \in 1 .. p.len : as[p.arr][i] = Normalized(p.args[i])

\* The inductive invariant: its last part says that nothing is appended within
\* a path that has an array of its own.
SliceInv ==
    /\ arrays \in Seq(Seq(Segment))
    /\ paths \in Seq(PathRec)
    /\ \A i \in 1 .. Len(paths) : Fits(arrays, paths[i])
    /\ \A i \in 1 .. Len(paths) : paths[i].fresh => Right(arrays, paths[i])
    /\ \A i, j \in 1 .. Len(paths) :
          paths[i].fresh /\ paths[i].arr = paths[j].arr => paths[i].len <= paths[j].len

-----------------------------------------------------------------------------

\* A write behind the first n cells keeps them and the length of the array.
LEMMA WrittenKeeps ==
    ASSUME NEW a \in Seq(Segment), NEW n \in Nat, NEW segs \in Seq(Segment)
    PROVE  /\ Written(a, n, segs) \in Seq(Segment)
           /\ Len(Written(a, n, segs)) = Len(a)
           /\ \A i \in 1 .. Len(a) : i <= n => Written(a, n, segs)[i] = a[i]
           /\ \A i \in 1 .. Len(a) : n < i /\ i <= n + Len(segs)
                                       => Written(a, n, segs)[i] = segs[i - n]
<1> DEFINE w == Written(a, n, segs)
<1>0. Len(a) \in Nat /\ Len(segs) \in Nat
  OBVIOUS
<1>1. w = [i \in 1 .. Len(a) |-> IF i \in n + 1 .. n + Len(segs) THEN segs[i - n] ELSE a[i]]
  BY DEF Written
<1>2. ASSUME NEW i \in 1 .. Len(a)
      PROVE  (IF i \in n + 1 .. n + Len(segs) THEN segs[i - n] ELSE a[i]) \in Segment
  <2>1. CASE i \in n + 1 .. n + Len(segs)
    <3>1. i - n \in 1 .. Len(segs)
      BY <1>0, <2>1
    <3>. QED
      BY <2>1, <3>1
  <2>2. CASE i \notin n + 1 .. n + Len(segs)
    BY <2>2
  <2>. QED
    BY <2>1, <2>2
<1>3. w \in [1 .. Len(a) -> Segment]
  BY <1>1, <1>2
<1> HIDE DEF w
<1>4. w \in Seq(Segment) /\ Len(w) = Len(a)
  BY <1>0, <1>3
<1>5. \A i \in 1 .. Len(a) : i <= n => w[i] = a[i]
  BY <1>0, <1>1
<1>6. \A i \in 1 .. Len(a) : n < i /\ i <= n + Len(segs) => w[i] = segs[i - n]
  BY <1>0, <1>1
<1>. QED
  BY <1>4, <1>5, <1>6 DEF w

\* Arguments are normalized to segments.
LEMMA NormalizedSegs ==
    ASSUME NEW args \in Seq(Good \cup Odd)
    PROVE  LET segs == [i \in DOMAIN args |-> Normalized(args[i])]
           IN /\ segs \in Seq(Segment) /\ Len(segs) = Len(args)
              /\ \A i \in 1 .. Len(args) : segs[i] = Normalized(args[i])
<1>1. \A v : Normalized(v) \in Segment
  BY DEF Normalized, Segment
<1>2. DOMAIN args = 1 .. Len(args) /\ Len(args) \in Nat
  OBVIOUS
<1> DEFINE segs == [i \in DOMAIN args |-> Normalized(args[i])]
<1>3. segs \in [1 .. Len(args) -> Segment]
  BY <1>1, <1>2
<1>. QED
  BY <1>2, <1>3

\* append within the capacity: only cells behind the extended path are written.
LEMMA InPlaceKeeps ==
    ASSUME SliceInv, NEW k \in 1 .. Len(paths), NEW segs \in Seq(Segment),
           AppendInPlace(paths[k], segs)
    PROVE  /\ arrays' \in Seq(Seq(Segment))
           /\ \A i \in 1 .. Len(paths) : Fits(arrays', paths[i])
           /\ \A i \in 1 .. Len(paths) : paths[i].fresh => Right(arrays', paths[i])
           /\ Len(arrays') = Len(arrays) /\ Len(arrays'[paths[k].arr]) = Len(arrays[paths[k].arr])
<1> DEFINE p == paths[k]
           w == Written(arrays[p.arr], p.len, segs)
<1>1. p \in PathRec /\ p.arr \in 1 .. Len(arrays)
  BY DEF SliceInv, Fits
<1>2. p.len \in Nat /\ arrays \in Seq(Seq(Segment)) /\ arrays[p.arr] \in Seq(Segment)
  BY <1>1, SMTT(30) DEF PathRec, SliceInv
<1>3. arrays' = [arrays EXCEPT ![p.arr] = w]
  BY DEF AppendInPlace
<1>4. /\ w \in Seq(Segment) /\ Len(w) = Len(arrays[p.arr])
      /\ \A i \in 1 .. Len(arrays[p.arr]) : i <= p.len => w[i] = arrays[p.arr][i]
  BY <1>2, WrittenKeeps, SMTT(30)
<1> HIDE DEF w
<1>5. arrays' \in Seq(Seq(Segment)) /\ Len(arrays') = Len(arrays)
  BY <1>1, <1>2, <1>3, <1>4
<1>6. arrays'[p.arr] = w /\ \A x \in 1 .. Len(arrays) : x # p.arr => arrays'[x] = arrays[x]
  BY <1>1, <1>2, <1>3
<1>7. ASSUME NEW i \in 1 .. Len(paths)
      PROVE  Fits(arrays', paths[i]) /\ (paths[i].fresh => Right(arrays', paths[i]))
  <2> DEFINE q == paths[i]
  <2>1. q \in PathRec /\ Fits(arrays, q) /\ (q.fresh => Right(arrays, q))
    BY DEF SliceInv
  <2>2. Fits(arrays', q)
    BY <1>4, <1>5, <1>6, <2>1 DEF Fits
  <2>3. ASSUME q.fresh PROVE Right(arrays', q)
    <3>1. CASE q.arr # p.arr
      BY <1>6, <2>1, <2>3, <3>1 DEF Right, Fits
    <3>2. CASE q.arr = p.arr
      <4>1. q.len <= p.len
        BY <2>3, <3>2 DEF SliceInv
      <4>2. q.len \in Nat /\ q.len <= Len(arrays[p.arr]) /\ Len(arrays[p.arr]) \in Nat
        <5>1. \A a \in Seq(Segment) : Len(a) \in Nat
          OBVIOUS
        <5>. QED
          BY <1>2, <2>1, <3>2, <5>1 DEF PathRec, Fits
      <4>3. ASSUME NEW x \in 1 .. q.len PROVE w[x] = arrays[p.arr][x]
        <5>1. x \in 1 .. Len(arrays[p.arr]) /\ x <= p.len
          BY <1>2, <4>1, <4>2, SMTT(30)
        <5>. QED
          BY <1>4, <5>1
      <4>. QED
        BY <1>6, <2>1, <2>3, <3>2, <4>3 DEF Right
    <3>. QED
      BY <3>1, <3>2
  <2>. QED
    BY <2>2, <2>3
<1>. QED
  BY <1>4, <1>5, <1>6, <1>7

\* append beyond the capacity: a new array with the old segments and the new ones.
LEMMA CopyKeeps ==
    ASSUME SliceInv, NEW k \in 1 .. Len(paths), NEW segs \in Seq(Segment),
           AppendCopies(paths[k], segs)
    PROVE  LET n == Len(arrays) + 1
               p == paths[k]
           IN /\ arrays' \in Seq(Seq(Segment)) /\ Len(arrays') = n
              /\ \A i \in 1 .. Len(paths) : Fits(arrays', paths[i])
              /\ \A i \in 1 .. Len(paths) : paths[i].fresh => Right(arrays', paths[i])
              /\ p.len + Len(segs) <= Len(arrays'[n])
              /\ \A i \in 1 .. p.len : arrays'[n][i] = arrays[p.arr][i]
              /\ \A i \in p.len + 1 .. p.len + Len(segs) : arrays'[n][i] = segs[i - p.len]
<1> DEFINE p    == paths[k]
           n    == Len(arrays) + 1
           need == p.len + Len(segs)
           cap  == GrowCap(Len(arrays[p.arr]), need)
           room == [i \in 1 .. cap |-> IF i <= p.len THEN arrays[p.arr][i] ELSE Unset]
           w    == Written(room, p.len, segs)
<1>1. p \in PathRec /\ p.arr \in 1 .. Len(arrays) /\ p.len <= Len(arrays[p.arr])
  BY DEF SliceInv, Fits
<1>2. /\ p.len \in Nat /\ arrays \in Seq(Seq(Segment)) /\ arrays[p.arr] \in Seq(Segment)
      /\ Len(segs) \in Nat /\ Len(arrays[p.arr]) \in Nat /\ Len(arrays) \in Nat
  <2>1. p.len \in Nat /\ arrays \in Seq(Seq(Segment)) /\ arrays[p.arr] \in Seq(Segment)
    BY <1>1, SMTT(30) DEF PathRec, SliceInv
  <2>2. \A a \in Seq(Segment) : Len(a) \in Nat
    OBVIOUS
  <2>. QED
    BY <2>1, <2>2
<1>3. arrays' = Append(arrays, w)
  BY DEF AppendCopies
<1>4. cap \in Nat /\ need <= cap
  BY <1>2, SMTT(30) DEF GrowCap
<1> HIDE DEF cap
<1>5. room \in Seq(Segment) /\ Len(room) = cap
  <2>1. \A i \in 1 .. cap : (IF i <= p.len THEN arrays[p.arr][i] ELSE Unset) \in Segment
    BY <1>1, <1>2, <1>4, SMTT(30) DEF Unset, Segment
  <2>2. room \in [1 .. cap -> Segment]
    BY <2>1
  <2> HIDE DEF room
  <2>. QED
    BY <1>4, <2>2
<1>6. \A i \in 1 .. cap : i <= p.len => room[i] = arrays[p.arr][i]
  OBVIOUS
<1> HIDE DEF room
<1>7. /\ w \in Seq(Segment) /\ Len(w) = cap
      /\ \A i \in 1 .. cap : i <= p.len => w[i] = room[i]
      /\ \A i \in 1 .. cap : p.len < i /\ i <= p.len + Len(segs) => w[i] = segs[i - p.len]
  BY <1>2, <1>5, WrittenKeeps, ZenonT(60)
<1> HIDE DEF w
<1>8. /\ arrays' \in Seq(Seq(Segment)) /\ Len(arrays') = n /\ arrays'[n] = w
      /\ \A x \in 1 .. Len(arrays) : arrays'[x] = arrays[x]
  BY <1>2, <1>3, <1>7
<1>9. ASSUME NEW i \in 1 .. Len(paths)
      PROVE  Fits(arrays', paths[i]) /\ (paths[i].fresh => Right(arrays', paths[i]))
  <2>1. Fits(arrays, paths[i]) /\ (paths[i].fresh => Right(arrays, paths[i]))
    BY DEF SliceInv
  <2>2. paths[i].arr \in 1 .. Len(arrays) /\ arrays'[paths[i].arr] = arrays[paths[i].arr]
    BY <1>8, <2>1 DEF Fits
  <2>. QED
    BY <1>2, <1>8, <2>1, <2>2, SMTT(30) DEF Fits, Right
<1>10. ASSUME NEW i \in 1 .. p.len PROVE w[i] = arrays[p.arr][i]
  <2>1. i \in 1 .. cap /\ i <= p.len
    BY <1>2, <1>4
  <2>. QED
    BY <1>6, <1>7, <2>1
<1>11. \A i \in p.len + 1 .. p.len + Len(segs) : w[i] = segs[i - p.len]
  BY <1>2, <1>4, <1>7, SMTT(30)
<1>. QED
  BY <1>4, <1>7, <1>8, <1>9, <1>10, <1>11

\* A path more: it fits, is right if it is fresh, and comes after no fresh path
\* that is longer.
LEMMA AddPath ==
    ASSUME SliceInv, NEW q \in PathRec, paths' = Append(paths, q),
           arrays' \in Seq(Seq(Segment)),
           \A i \in 1 .. Len(paths) : Fits(arrays', paths[i]),
           \A i \in 1 .. Len(paths) : paths[i].fresh => Right(arrays', paths[i]),
           Fits(arrays', q), q.fresh => Right(arrays', q),
           \A i \in 1 .. Len(paths) :
              paths[i].arr = q.arr => /\ paths[i].fresh => paths[i].len <= q.len
                                      /\ ~q.fresh
    PROVE  SliceInv'
<1>1. paths \in Seq(PathRec) /\ Len(paths) \in Nat
  BY DEF SliceInv
<1>2. /\ paths' \in Seq(PathRec) /\ Len(paths') = Len(paths) + 1
      /\ paths'[Len(paths) + 1] = q
      /\ \A i \in 1 .. Len(paths) : paths'[i] = paths[i]
  BY <1>1
<1>3. \A i \in 1 .. Len(paths') : i \in 1 .. Len(paths) \/ i = Len(paths) + 1
  BY <1>1, <1>2
<1>4. \A i \in 1 .. Len(paths') : Fits(arrays', paths'[i])
  BY <1>2, <1>3
<1>5. \A i \in 1 .. Len(paths') : paths'[i].fresh => Right(arrays', paths'[i])
  BY <1>2, <1>3
<1>6. ASSUME NEW i \in 1 .. Len(paths'), NEW j \in 1 .. Len(paths'),
             paths'[i].fresh, paths'[i].arr = paths'[j].arr
      PROVE  paths'[i].len <= paths'[j].len
  <2>1. CASE i \in 1 .. Len(paths) /\ j \in 1 .. Len(paths)
    BY <1>2, <1>6, <2>1 DEF SliceInv
  <2>2. CASE i \in 1 .. Len(paths) /\ j = Len(paths) + 1
    BY <1>2, <1>6, <2>2
  <2>3. CASE i = Len(paths) + 1 /\ j \in 1 .. Len(paths)
    BY <1>2, <1>6, <2>3
  <2>4. CASE i = Len(paths) + 1 /\ j = Len(paths) + 1
    BY <1>2, <2>4 DEF PathRec
  <2>. QED
    BY <1>3, <2>1, <2>2, <2>3, <2>4
<1>. QED
  BY <1>2, <1>4, <1>5, <1>6 DEF SliceInv

\* p.Path(args...): within the capacity the new path shares an array, and is
\* not fresh; beyond it, the new path is right if p is.
LEMMA PathStep ==
    ASSUME SliceInv, NEW k \in 1 .. Len(paths), NEW args \in Seq(Good \cup Odd),
           Path(paths[k], args)
    PROVE  SliceInv'
<1> DEFINE p    == paths[k]
           segs == [i \in DOMAIN args |-> Normalized(args[i])]
<1>1. /\ segs \in Seq(Segment) /\ Len(segs) = Len(args) /\ Len(args) \in Nat
      /\ \A i \in 1 .. Len(args) : segs[i] = Normalized(args[i])
  BY NormalizedSegs
<1>2. p \in PathRec /\ Fits(arrays, p) /\ (p.fresh => Right(arrays, p))
  BY DEF SliceInv
<1>3. /\ p.len \in Nat /\ p.arr \in 1 .. Len(arrays) /\ p.args \in Seq(Good \cup Odd)
      /\ p.len = Len(p.args) /\ Len(arrays) \in Nat
  BY <1>2, SMTT(30) DEF PathRec, Fits, SliceInv
<1>4. /\ p.args \o args \in Seq(Good \cup Odd)
      /\ Len(p.args \o args) = p.len + Len(args)
      /\ \A i \in 1 .. p.len : (p.args \o args)[i] = p.args[i]
      /\ \A i \in p.len + 1 .. p.len + Len(args) : (p.args \o args)[i] = args[i - p.len]
  BY <1>1, <1>3
<1>5. \/ /\ AppendInPlace(p, segs)
         /\ paths' = Append(paths, Slice(p, args, p.arr, FALSE))
      \/ /\ AppendCopies(p, segs)
         /\ paths' = Append(paths, Slice(p, args, Len(arrays) + 1, TRUE))
  BY DEF Path
<1> HIDE DEF segs
<1>6. CASE AppendInPlace(p, segs) /\ paths' = Append(paths, Slice(p, args, p.arr, FALSE))
  <2> DEFINE q == Slice(p, args, p.arr, FALSE)
  <2>1. /\ q.arr = p.arr /\ q.len = p.len + Len(args) /\ q.args = p.args \o args
        /\ q.fresh = FALSE /\ q \in PathRec
    <3>1. q = [arr |-> p.arr, len |-> p.len + Len(args), args |-> p.args \o args,
               fresh |-> FALSE]
      BY DEF Slice
    <3>2. p.arr \in Nat /\ p.len + Len(args) \in Nat
      BY <1>1, <1>3
    <3> HIDE DEF p, q
    <3>3. /\ q.arr = p.arr /\ q.len = p.len + Len(args) /\ q.args = p.args \o args
          /\ q.fresh = FALSE
      BY <3>1
    <3>4. q \in PathRec
      BY <1>4, <3>1, <3>2 DEF PathRec
    <3>. QED
      BY <3>3, <3>4
  <2>2. paths' = Append(paths, q)
    BY <1>6
  <2> HIDE DEF q
  <2>3. /\ arrays' \in Seq(Seq(Segment))
        /\ \A i \in 1 .. Len(paths) : Fits(arrays', paths[i])
        /\ \A i \in 1 .. Len(paths) : paths[i].fresh => Right(arrays', paths[i])
        /\ Len(arrays') = Len(arrays) /\ Len(arrays'[p.arr]) = Len(arrays[p.arr])
    BY <1>1, <1>6, InPlaceKeeps
  <2>4. p.len + Len(segs) <= Len(arrays[p.arr])
    BY <1>6 DEF AppendInPlace
  <2>5. Fits(arrays', q)
    BY <1>1, <1>3, <1>4, <2>1, <2>3, <2>4 DEF Fits
  <2>6. ASSUME NEW i \in 1 .. Len(paths), paths[i].arr = q.arr, paths[i].fresh
        PROVE  paths[i].len <= q.len
    <3>1. paths[i].len <= p.len
      BY <2>1, <2>6 DEF SliceInv
    <3>2. paths[i] \in PathRec
      BY DEF SliceInv
    <3>3. paths[i].len \in Nat
      BY <3>2 DEF PathRec
    <3>. QED
      BY <1>1, <1>3, <2>1, <3>1, <3>3
  <2>. QED
    BY <2>1, <2>2, <2>3, <2>5, <2>6, AddPath
<1>7. CASE AppendCopies(p, segs) /\ paths' = Append(paths, Slice(p, args, Len(arrays) + 1, TRUE))
  <2> DEFINE n == Len(arrays) + 1
             q == Slice(p, args, n, TRUE)
  <2>1. /\ q.arr = n /\ q.len = p.len + Len(args) /\ q.args = p.args \o args
        /\ q.fresh = p.fresh /\ q \in PathRec
    <3>1. p.fresh \in BOOLEAN
      BY <1>2 DEF PathRec
    <3>. QED
      BY <1>1, <1>3, <1>4, <3>1 DEF Slice, PathRec
  <2>2. paths' = Append(paths, q)
    BY <1>7
  <2> HIDE DEF q
  <2>3. /\ arrays' \in Seq(Seq(Segment)) /\ Len(arrays') = n
        /\ \A i \in 1 .. Len(paths) : Fits(arrays', paths[i])
        /\ \A i \in 1 .. Len(paths) : paths[i].fresh => Right(arrays', paths[i])
        /\ p.len + Len(segs) <= Len(arrays'[n])
        /\ \A i \in 1 .. p.len : arrays'[n][i] = arrays[p.arr][i]
        /\ \A i \in p.len + 1 .. p.len + Len(segs) : arrays'[n][i] = segs[i - p.len]
    BY <1>1, <1>7, CopyKeeps
  <2>4. Fits(arrays', q)
    BY <1>1, <1>3, <1>4, <2>1, <2>3 DEF Fits
  <2>5. ASSUME q.fresh PROVE Right(arrays', q)
    <3>1. Right(arrays, p)
      BY <1>2, <2>1, <2>5
    <3>2. ASSUME NEW i \in 1 .. q.len PROVE arrays'[n][i] = Normalized(q.args[i])
      <4>1. CASE i \in 1 .. p.len
        BY <1>4, <2>1, <2>3, <3>1, <4>1 DEF Right
      <4>2. CASE i \in p.len + 1 .. p.len + Len(args)
        <5>1. i - p.len \in 1 .. Len(args)
          BY <1>1, <1>3, <4>2
        <5>2. arrays'[n][i] = segs[i - p.len]
          BY <1>1, <2>3, <4>2
        <5>3. q.args[i] = args[i - p.len]
          BY <1>4, <2>1, <4>2
        <5>. QED
          BY <1>1, <5>1, <5>2, <5>3
      <4>. QED
        BY <1>1, <1>3, <2>1, <4>1, <4>2
    <3>. QED
      BY <2>1, <3>2 DEF Right
  <2>6. \A i \in 1 .. Len(paths) : paths[i].arr # q.arr
    BY <1>3, <2>1 DEF SliceInv, Fits
  <2>. QED
    BY <2>1, <2>2, <2>3, <2>4, <2>5, <2>6, AddPath
<1>. QED
  BY <1>5, <1>6, <1>7

\* Get through a path writes into its array, behind it.
LEMMA GetThroughStep ==
    ASSUME SliceInv, NEW k \in 1 .. Len(paths), NEW key \in Good, GetThrough(k, key)
    PROVE  SliceInv'
<1>1. <<key>> \in Seq(Segment)
  BY DEF Segment
<1>2. AppendInPlace(paths[k], <<key>>) /\ paths' = paths
  BY DEF GetThrough
<1>3. /\ arrays' \in Seq(Seq(Segment))
      /\ \A i \in 1 .. Len(paths) : Fits(arrays', paths[i])
      /\ \A i \in 1 .. Len(paths) : paths[i].fresh => Right(arrays', paths[i])
  BY <1>1, <1>2, InPlaceKeeps
<1>. QED
  BY <1>2, <1>3 DEF SliceInv

-----------------------------------------------------------------------------

\* The first path is the root: it has no segments and the empty array.
LEMMA InitSlices == PathsInit => SliceInv
<1> SUFFICES ASSUME PathsInit PROVE SliceInv
  OBVIOUS
<1>1. arrays = <<(<<>>)>> /\ paths = <<Root>>
  BY DEF PathsInit
<1>2. Root \in PathRec
  BY DEF Root, PathRec
<1>3. /\ arrays \in Seq(Seq(Segment)) /\ Len(arrays) = 1 /\ arrays[1] = <<>>
      /\ paths \in Seq(PathRec) /\ Len(paths) = 1 /\ paths[1] = Root
  BY <1>1, <1>2
<1>4. Fits(arrays, Root) /\ Right(arrays, Root)
  BY <1>3 DEF Fits, Right, Root
<1>5. \A i \in 1 .. Len(paths) : paths[i] = Root
  BY <1>3
<1>6. Root.len <= Root.len
  BY DEF Root
<1>7. \A i, j \in 1 .. Len(paths) : paths[i].len <= paths[j].len
  BY <1>5, <1>6
<1>. QED
  BY <1>3, <1>4, <1>5, <1>7 DEF SliceInv

\* Every step keeps the invariant.
LEMMA NextSlices ==
    ASSUME SliceInv, [PathsNext]_pathsVars
    PROVE  SliceInv'
<1>1. CASE UNCHANGED pathsVars
  BY <1>1 DEF pathsVars, SliceInv
<1>2. ASSUME NEW i \in DOMAIN paths, NEW args \in Args, Extend(i, args) PROVE SliceInv'
  <2>1. i \in 1 .. Len(paths)
    BY DEF SliceInv
  <2>2. args \in Seq(Good \cup Odd)
    BY SliceAssumption DEF Args
  <2>. QED
    BY <1>2, <2>1, <2>2, PathStep DEF Extend
<1>3. ASSUME NEW i \in DOMAIN paths, NEW key \in Good, GetThrough(i, key) PROVE SliceInv'
  <2>1. i \in 1 .. Len(paths)
    BY DEF SliceInv
  <2>. QED
    BY <1>3, <2>1, GetThroughStep
<1>. QED
  BY <1>1, <1>2, <1>3 DEF PathsNext

\* Every path is as long as its arguments and within its array.
THEOREM PathsTyped == PathsSpec => []TypeOK
<1>1. SliceInv => TypeOK
  <2> SUFFICES ASSUME SliceInv PROVE TypeOK
    OBVIOUS
  <2>1. arrays \in Seq(Seq(Segment)) /\ DOMAIN paths = 1 .. Len(paths)
    BY DEF SliceInv
  <2>2. DOMAIN arrays = 1 .. Len(arrays)
    BY <2>1
  <2>3. ASSUME NEW i \in DOMAIN paths
        PROVE  /\ paths[i].arr \in DOMAIN arrays
               /\ paths[i].len \in 0 .. Len(arrays[paths[i].arr])
               /\ paths[i].len = Len(paths[i].args)
    <3>1. Fits(arrays, paths[i]) /\ paths[i] \in PathRec
      BY <2>1 DEF SliceInv
    <3>2. paths[i].arr \in DOMAIN arrays /\ paths[i].len \in Nat
      BY <2>2, <3>1 DEF Fits, PathRec
    <3>3. arrays[paths[i].arr] \in Seq(Segment)
      BY <2>1, <3>2
    <3>4. Len(arrays[paths[i].arr]) \in Nat
      BY <3>3
    <3>. QED
      BY <3>1, <3>2, <3>4 DEF Fits
  <2>. QED
    BY <2>1, <2>3 DEF TypeOK
<1>2. SliceInv /\ [PathsNext]_pathsVars => SliceInv'
  BY NextSlices
<1>. QED
  BY <1>1, <1>2, InitSlices, PTL DEF PathsSpec

\* A path derived only from paths with arrays of their own denotes what it was
\* made from, whatever is derived from it or read through it.
THEOREM FreshPathsKeep == PathsSpec => []FreshPathsStable
<1>1. SliceInv => FreshPathsStable
  <2> SUFFICES ASSUME SliceInv, NEW i \in DOMAIN paths, paths[i].fresh
               PROVE  Segments(paths[i]) = Asked(paths[i])
    BY DEF FreshPathsStable
  <2> DEFINE p == paths[i]
  <2>1. i \in 1 .. Len(paths)
    BY DEF SliceInv
  <2>2. p \in PathRec /\ Fits(arrays, p) /\ Right(arrays, p)
    BY <2>1 DEF SliceInv
  <2>3. /\ p.len \in Nat /\ arrays[p.arr] \in Seq(Segment) /\ p.len <= Len(arrays[p.arr])
        /\ p.len = Len(p.args)
    BY <2>2, SMTT(30) DEF PathRec, Fits, SliceInv
  <2> DEFINE a == arrays[p.arr]
             n == p.len
  <2>4. SubSeq(a, 1, n) = [x \in 1 .. n |-> a[x]]
    <3> HIDE DEF p
    <3>. QED
      BY <2>3
  <2>5. \A x \in 1 .. n : a[x] = Normalized(p.args[x])
    BY <2>2 DEF Right
  <2>. QED
    BY <2>3, <2>4, <2>5 DEF Segments, Asked
<1>2. SliceInv /\ [PathsNext]_pathsVars => SliceInv'
  BY NextSlices
<1>. QED
  BY <1>1, <1>2, InitSlices, PTL DEF PathsSpec
===============================================================================
