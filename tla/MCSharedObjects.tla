---------------------------- MODULE MCSharedObjects ----------------------------
(* Documents and calls for the runs of SharedObjects.                       *)
EXTENDS SharedObjects

CONSTANTS a, b, c, d, none, g1, g2

MCKey == {a, b, c, d, none}

MCSymmetry == Permutations(Goroutine)

Job(op, path, at, vals) == [op |-> op, path |-> path, at |-> at, del |-> 0, vals |-> vals]
SpliceJob(path, at, del, vals) == [Job("splice", path, at, vals) EXCEPT !.del = del]

MapObj(f) == [kind |-> "map", at |-> [k \in Key |-> IF k \in DOMAIN f THEN f[k] ELSE Void]]
ListObj(s) == [kind |-> "list", at |-> s]
TextObj(s) == [kind |-> "text", at |-> s]

\* doc := New()
EmptyDoc == <<NewObj("map")>>

\* A list of one value at a; at b a map that has a counter and a text.
SharedDoc == <<
    MapObj([k \in {a, b} |-> IF k = a THEN Cell("list", 2) ELSE Cell("map", 3)]),
    ListObj(Scalars(<<8>>)),
    MapObj([k \in {a, b} |-> IF k = a THEN Cell("counter", 0) ELSE Cell("text", 4)]),
    TextObj(<<>>)>>

-----------------------------------------------------------------------------
(* One goroutine, every method.                                            *)

SoleProbes ==
    LET Segs == {a, b} \cup 0 .. 6 IN
    {<<x>> : x \in {a, b, none}} \cup ({a, b} \X Segs) \cup {<<a, none>>}
        \cup {<<a, x, y>> : x \in {0, 1, b}, y \in Segs}

SoleJobs == {
    Job("set", <<a>>, 0, <<1>>),
    Job("set", <<a, b>>, 0, <<2>>),
    Job("set", <<a, 1>>, 0, <<3>>),
    Job("set", <<a, -1>>, 0, <<3>>),
    Job("set", <<a, 0, b>>, 0, <<3>>),
    Job("slice", <<a>>, 0, <<4, 5>>),
    Job("text", <<b>>, 0, <<6, 7>>),
    Job("delete", <<a>>, 0, <<>>),
    Job("delete", <<a, 0>>, 0, <<>>),
    Job("mapset", <<a, none>>, 0, <<1>>),
    Job("mapset", <<a, b>>, 0, <<1>>),
    Job("mapdelete", <<a, b>>, 0, <<>>),
    Job("append", <<a>>, 0, <<1, 2>>),
    Job("append", <<a, 1>>, 0, <<4>>),
    Job("insert", <<a>>, 1, <<3, 4>>),
    Job("overwrite", <<a>>, 0, <<4>>),
    Job("remove", <<a>>, 0, <<>>),
    Job("type", <<b>>, 0, <<1>>),
    Job("retype", <<b>>, 0, <<2>>),
    SpliceJob(<<b>>, 1, 1, <<3, 4>>),
    SpliceJob(<<b>>, 2, 0, <<3>>),
    SpliceJob(<<b>>, 1, 5, <<>>),
    SpliceJob(<<b>>, 0, -1, <<3>>),
    SpliceJob(<<b>>, -1, 0, <<3>>),
    SpliceJob(<<a, 0>>, -1, 2, <<>>),
    Job("inc", <<a, 0>>, 0, <<>>),
    Job("inc", <<b>>, 0, <<>>) }

-----------------------------------------------------------------------------
(* Two goroutines that add to what is there, and make d different things.  *)

SharingJobs == {
    Job("append", <<a>>, 0, <<1, 2>>),
    Job("insert", <<a>>, 0, <<3>>),
    Job("slice", <<c>>, 0, <<4, 5>>),
    Job("set", <<b, c>>, 0, <<6>>),
    Job("set", <<d>>, 0, <<6>>),
    Job("retype", <<d>>, 0, <<6>>),
    Job("append", <<d>>, 0, <<6>>),
    Job("mapdelete", <<d, b>>, 0, <<>>),
    Job("inc", <<b, a>>, 0, <<>>),
    Job("type", <<b, b>>, 0, <<7>>),
    SpliceJob(<<b, b>>, 0, 0, <<9>>) }

-----------------------------------------------------------------------------
(* Calls that two goroutines cannot rely on.                               *)

\* Two values below a parent that is not there yet.
ParentJobs == {Job("set", <<a, b>>, 0, <<1>>), Job("set", <<a, c>>, 0, <<2>>)}
=============================================================================
