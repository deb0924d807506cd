----------------------------- MODULE MCBoundary -----------------------------
(* A call of Wire, a value of GoValues, or the paths of PathSlices: the     *)
(* three share no state.                                                    *)
EXTENDS Wire, GoValues, PathSlices

MCMagic == <<3>>
MCStrings == {<<>>, <<2>>, <<1, 0>>}
MCHashes == [1 .. HashLen -> {0, 1}]

Int8 == NumType("int", 2, FALSE)
IntT == NumType("int", Half, FALSE)
UintT == NumType("uint", Half, FALSE)
Numeric == {Int8, IntT, Int64, Uint8, UintT, Uint64, Float32, Float64}

SliceOf(T) == [k |-> "slice", of |-> T]
Array(T) == [k |-> "array", of |-> T, len |-> 2]
MapOf(T) == [k |-> "map", of |-> T]
Ptr(T) == [k |-> "ptr", of |-> T]
Field(name, omit, T) == [name |-> name, omit |-> omit, of |-> T]
Record(T, U) ==
    [k |-> "struct", fields |-> <<Field("a", FALSE, T), Field("b", TRUE, U), Field("c", FALSE, U)>>]

Types ==
    Numeric \cup {[k |-> n] : n \in {"any", "bool", "str", "time", "text", "counter", "chan"}}
        \cup {SliceOf(Int8), SliceOf(Uint8), SliceOf(AnyType), SliceOf(Ptr(Int64)), SliceOf(SliceOf(Int64)),
              Array(Int64), Array(Uint8), Array(Float64), MapOf(Int64), MapOf(AnyType),
              MapOf([k |-> "chan"]), Ptr(Int64), Ptr(Ptr(Uint64)),
              Record(Int64, Int8), Record([k |-> "str"], Int64),
              SliceOf(Record(Int64, Int8)), Array(Record(Int64, Int8))}

\* The integers of a type around 0, around 2^53 and at the ends of its range.
IntsOf(T) ==
    LET lo == IF T.class = "int" THEN -T.lim ELSE 0
        hi == IF T.class = "int" THEN T.lim - 1 ELSE 2 * T.lim - 1
    IN {i \in lo .. hi : i <= lo + 1 \/ i >= hi - 1 \/ i \in -1 .. 1
                         \/ i \in {Exact - 1, Exact, Exact + 1, -Exact - 1, Half - 1, Half, Half + 1}}

FloatsOf(T) ==
    LET exact == IF T = Float32 THEN Exact32 ELSE Exact
        top   == IF T = Float32 THEN Huge ELSE 4 * Half
    IN {Integer(i) : i \in {j \in -top .. top : RoundTo(j, exact) = j}}
        \cup {[n |-> i, rest |-> "frac"] : i \in {-1, 0, 1}}
        \cup {NaN, Inf(1), Inf(-1)}

Texts == {"", "x"}

RECURSIVE Some(_)
\* Values of a type; of a compound type, some that take every part through
\* the values that matter.
Some(T) ==
    CASE T.k = "num" -> {[num |-> x] : x \in IF T.class = "float" THEN FloatsOf(T)
                                            ELSE {Integer(i) : i \in IntsOf(T)}}
      [] T.k = "bool" -> {[bool |-> x] : x \in BOOLEAN}
      [] T.k = "str"  -> {[str |-> x] : x \in Texts}
      [] T.k = "text" -> {[text |-> x] : x \in Texts}
      [] T.k = "counter" -> {[counter |-> Integer(i)] : i \in {-Half, -1, 0, 1, Half - 1}}
      [] T.k = "time" -> [ms : {-Half, -1, 0, 1}, sub : {0, 1}]
      [] T.k = "any"  -> {Nil} \cup {AnyOf(U, [num |-> Integer(i)]) : U \in Numeric, i \in {0, 1}}
      [] T.k = "ptr"  -> {Nil} \cup {[ptr |-> x] : x \in Some(T.of)}
      [] T.k = "slice" -> {[list |-> <<>>]} \cup {[list |-> <<x>>] : x \in Some(T.of)}
                            \cup {[list |-> <<Zero(T.of), x>>] : x \in Some(T.of)}
      [] T.k = "array" -> {[list |-> <<Zero(T.of), x>>] : x \in Some(T.of)}
                            \cup {[list |-> <<x, Zero(T.of)>>] : x \in Some(T.of)}
      [] T.k = "map" -> {[map |-> [n \in N |-> x]] : N \in SUBSET {"a", "c"}, x \in Some(T.of)}
      [] T.k = "struct" -> {[struct |-> <<x, y, z>>] : x \in Some(T.fields[1].of),
                               y \in {Zero(T.fields[2].of)} \cup Some(T.fields[2].of),
                               z \in {Zero(T.fields[3].of)}}
      [] OTHER -> {Nil}

Init ==
    /\ PathsInit
    /\ \/ WireInit /\ ValuesIdle
       \/ WireIdle /\ ValuesInit
       \/ WireIdle /\ ValuesIdle

Call ==
    /\ \/ WireNext /\ UNCHANGED goVars
       \/ ValuesNext /\ UNCHANGED wireVars
    /\ UNCHANGED pathsVars

DerivePath ==
    /\ WireIdle /\ ValuesIdle
    /\ PathsNext
    /\ UNCHANGED <<wireVars, goVars>>

Next == Call \/ DerivePath

allVars == <<wireVars, goVars, pathsVars>>

\* A call that has started goes on: the loops wait for nothing.
Spec == Init /\ [][Next]_allVars /\ WF_allVars(Call)

=============================================================================
