------------------------------ MODULE PathSlices ------------------------------
(***************************************************************************)
(* What a *Path of path.go denotes while other paths are derived from it.  *)
(* A path is a Go slice: a length and a backing array.  Path.Path extends  *)
(* it with append, which writes into the backing array when it has room    *)
(* and copies to a larger one when it has not, so paths can share arrays.  *)
(* Map.Get and List.Get of a map or list at a path derive one too.         *)
(*                                                                         *)
(* A definition whose comment starts with "Fault" is a wrong variant of    *)
(* the definition after it, put in its place to see a property notice.     *)
(***************************************************************************)
EXTENDS Naturals, Sequences

CONSTANTS
    Good,       \* arguments of Path that are strings or ints
    Odd,        \* other arguments that reflect can convert to a string: uint, []byte
    Garbled,    \* what reflect's String gives for an Odd one, "<uint Value>"
    MaxSegs,    \* bound: segments passed to one call
    MaxLen,     \* bound: segments of a path
    MaxPaths    \* bound: paths that the program keeps

ASSUME SliceAssumption ==
    /\ MaxSegs \in Nat /\ MaxLen \in Nat /\ MaxPaths \in Nat \ {0}
    /\ Garbled \notin Good \cup Odd

VARIABLES
    arrays,   \* the backing arrays; array 1, of capacity 0, is that of nil
    paths     \* the paths: array, length, what the caller asked for (args), and
              \* whether it and all it derives from got arrays of their own (fresh)

pathsVars == <<arrays, paths>>

Segment == Good \cup {Garbled}

\* A cell that no append has written.
Unset == Garbled

-----------------------------------------------------------------------------

Root == [arr |-> 1, len |-> 0, args |-> <<>>, fresh |-> TRUE]

PathsInit == arrays = <<(<<>>)>> /\ paths = <<Root>>

\* The segments that Get, Set and Delete traverse.
Segments(p) == SubSeq(arrays[p.arr], 1, p.len)

\* A string or int stays what it is; CanConvert lets anything through that Go
\* could convert to a string, and String does not do that conversion.
Normalized(v) == IF v \in Good THEN v ELSE Garbled

\* Capacity after a reallocation, for the few segments that a path has.
GrowCap(cap, need) == IF need > 2 * cap THEN need ELSE 2 * cap

Written(array, from, segs) ==
    [i \in 1 .. Len(array) |->
        IF i \in from + 1 .. from + Len(segs) THEN segs[i - from] ELSE array[i]]

\* The array and the slice that append(p.path, segs...) returns.
AppendInPlace(p, segs) ==
    /\ p.len + Len(segs) <= Len(arrays[p.arr])
    /\ arrays' = [arrays EXCEPT ![p.arr] = Written(@, p.len, segs)]

AppendCopies(p, segs) ==
    LET need == p.len + Len(segs)
        cap  == GrowCap(Len(arrays[p.arr]), need)
        room == [i \in 1 .. cap |-> IF i <= p.len THEN arrays[p.arr][i] ELSE Unset]
    IN /\ need > Len(arrays[p.arr])
       /\ arrays' = Append(arrays, Written(room, p.len, segs))

\* Fault: the new path starts again at the root.
SliceFromRoot(p, args, arr, own) ==
    [arr |-> arr, len |-> Len(args), args |-> p.args \o args, fresh |-> own /\ p.fresh]

Slice(p, args, arr, own) ==
    [arr |-> arr, len |-> p.len + Len(args), args |-> p.args \o args,
     fresh |-> own /\ p.fresh]

\* Fault: the last segment of the path is replaced.
PathOverLast(p, args) ==
    LET segs == [i \in DOMAIN args |-> Normalized(args[i])]
        n    == IF p.len = 0 THEN 0 ELSE p.len - 1
        q    == [p EXCEPT !.len = n, !.args = SubSeq(@, 1, n)]
    IN \/ /\ AppendInPlace(q, segs)
          /\ paths' = Append(paths, Slice(q, args, q.arr, FALSE))
       \/ /\ AppendCopies(q, segs)
          /\ paths' = Append(paths, Slice(q, args, Len(arrays) + 1, TRUE))

\* p.Path(args...).  An argument that reflect cannot convert, a float or a
\* struct, makes it panic: there is no path then, and nothing has changed.
Path(p, args) ==
    LET segs == [i \in DOMAIN args |-> Normalized(args[i])]
    IN \/ /\ AppendInPlace(p, segs)
          /\ paths' = Append(paths, Slice(p, args, p.arr, FALSE))
       \/ /\ AppendCopies(p, segs)
          /\ paths' = Append(paths, Slice(p, args, Len(arrays) + 1, TRUE))

Args == UNION {[1 .. n -> Good \cup Odd] : n \in 0 .. MaxSegs}

\* Doc.Path starts from the root, Path.Path from any path there is.
Extend(i, args) ==
    /\ Len(paths) < MaxPaths
    /\ paths[i].len + Len(args) <= MaxLen
    /\ Path(paths[i], args)

\* Get(key) of the map or list at a path reads through a path of its own, and
\* drops it.  A copied array would be garbage at once; a shared one is not.
GetThrough(i, key) == AppendInPlace(paths[i], <<key>>) /\ UNCHANGED paths

PathsNext ==
    \E i \in DOMAIN paths :
        \/ \E args \in Args : Extend(i, args)
        \/ \E key \in Good : GetThrough(i, key)

PathsSpec == PathsInit /\ [][PathsNext]_pathsVars

-----------------------------------------------------------------------------
(* Properties *)

\* A path has the segments of the path it extends and its own, in an array
\* that has room for them.
TypeOK ==
    /\ arrays \in Seq(Seq(Segment))
    /\ \A i \in DOMAIN paths :
          /\ paths[i].arr \in DOMAIN arrays
          /\ paths[i].len \in 0 .. Len(arrays[paths[i].arr])
          /\ paths[i].len = Len(paths[i].args)

\* The segments a path was made from.
Asked(p) == [i \in 1 .. Len(p.args) |-> Normalized(p.args[i])]

\* A path whose append copied, derived from such paths only - every path that
\* Doc.Path returns is one - keeps its segments whatever is derived from it or
\* read through it.
FreshPathsStable == \A i \in DOMAIN paths :
    paths[i].fresh /\ (paths[i].len > 0) => Segments(paths[i]) = Asked(paths[i])

=============================================================================
