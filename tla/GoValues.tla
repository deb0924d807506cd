------------------------------ MODULE GoValues ------------------------------
(***************************************************************************)
(* A Go value that is written to a document and read back: normalize,      *)
(* unmarshal and As of normalize.go, the tagged values of                  *)
(* internal/backend/backend.go, and Value of value.go.  One behaviour is   *)
(* one value: it is set, read as a Value, and converted with As.           *)
(*                                                                         *)
(* A Go type is a record with a field k, and a Go value a record whose     *)
(* field says what it is: [num |-> a number, see Numbers], [list |-> a     *)
(* sequence] for a slice or an array, [struct |-> the values of its        *)
(* fields], [map |-> a function], [ptr |-> a value] and so on; a value in  *)
(* an interface comes with its type.  A list or map of a document is a     *)
(* tree here: SharedObjects has the calls that build one.                  *)
(*                                                                         *)
(* A definition whose comment starts with "Fault" is a wrong variant of    *)
(* the definition after it, put in its place to see a property notice.     *)
(***************************************************************************)
EXTENDS Numbers, Sequences, FiniteSets, FiniteSetsExt

CONSTANTS
    GoTypes,      \* the types that are written, and read with As
    ValuesOf(_)   \* the values of a type that are written

VARIABLES
    arch,   \* the machine
    gtype,  \* the Go type and
    gval,   \* the Go value that is written
    stored, \* what crosses to the engine
    value,  \* the Value that is read
    target, \* the T of As[T]
    result, \* what As returns
    step    \* "new", "stored", "read", "done", "error" or "panic"

goVars == <<arch, gtype, gval, stored, value, target, result, step>>

Nil == [nil |-> TRUE]
AnyType == [k |-> "any"]
Uint8 == NumType("uint", 2, FALSE)

IsBytes(T) == T.k \in {"slice", "array"} /\ T.of = Uint8

\* The zero value of a type; pointers and interfaces are nil.
RECURSIVE Zero(_)
Zero(T) ==
    CASE T.k = "num"    -> [num |-> Integer(0)]
      [] T.k = "bool"   -> [bool |-> FALSE]
      [] T.k = "str"    -> [str |-> ""]
      [] T.k = "time"   -> [ms |-> 0, sub |-> 0]
      [] T.k = "slice"  -> [list |-> <<>>]
      [] T.k = "array"  -> [list |-> [i \in 1 .. T.len |-> Zero(T.of)]]
      [] T.k = "map"    -> [map |-> <<>>]
      [] T.k = "struct" -> [struct |-> [i \in DOMAIN T.fields |-> Zero(T.fields[i].of)]]
      [] OTHER -> Nil

\* The fields of a struct that take part, and the one with a name.
ParseTags(T) == {i \in DOMAIN T.fields : ~T.fields[i].omit}
FieldNamed(T, name) == CHOOSE i \in ParseTags(T) : T.fields[i].name = name

-----------------------------------------------------------------------------
(* Writing: a Go value becomes a tree of kinds *)

Kind(kind, x) == [kind |-> kind, x |-> x]
Normal(v) == [st |-> "ok", v |-> v]
Failed(st) == [st |-> st, v |-> Nil]

\* A part that fails ends the whole.
Gather(kind, parts) ==
    IF \A i \in DOMAIN parts : parts[i].st = "ok"
    THEN Normal(Kind(kind, [i \in DOMAIN parts |-> parts[i].v]))
    ELSE parts[CHOOSE i \in DOMAIN parts : parts[i].st # "ok"]

\* A nil pointer has no element to go on with.  Slices and arrays of bytes
\* become bytes; the fields of a struct go by their tags.
RECURSIVE Normalize(_, _)
Normalize(T, v) ==
    CASE T.k = "any" -> IF v = Nil THEN Normal(Kind("Null", 0)) ELSE Normalize(v.t, v.any)
      [] T.k = "num"  -> Normal(StoredAs(T, v.num))
      [] T.k = "bool" -> Normal(Kind("Bool", v.bool))
      [] T.k = "str"  -> Normal(Kind("Str", v.str))
      [] T.k = "time" -> Normal(Kind("Time", v))
      [] T.k = "text" -> Normal(Kind("Text", v.text))
      [] T.k = "counter" -> Normal(Kind("Counter", v.counter))
      [] T.k = "ptr"  -> IF v = Nil THEN Failed("panic") ELSE Normalize(T.of, v.ptr)
      [] IsBytes(T)   -> Normal(Kind("Bytes", [i \in DOMAIN v.list |-> v.list[i].num.n]))
      [] T.k \in {"slice", "array"} /\ ~IsBytes(T) ->
            Gather("List", [i \in DOMAIN v.list |-> Normalize(T.of, v.list[i])])
      [] T.k = "map"  -> Gather("Map", [n \in DOMAIN v.map |-> Normalize(T.of, v.map[n])])
      [] T.k = "struct" ->
            Gather("Map", [n \in {T.fields[i].name : i \in ParseTags(T)} |->
                LET i == FieldNamed(T, n) IN Normalize(T.fields[i].of, v.struct[i])])
      [] OTHER -> Failed("error")

NumberKinds == {"Int64", "Uint64", "Counter", "Float64"}

\* A number crosses as a word, a time as its milliseconds, without the rest.
RECURSIVE Encode(_)
Encode(n) ==
    CASE n.kind \in NumberKinds -> EncodeNumber(n)
      [] n.kind = "Time" -> Kind("Time", WordOf(n.x.ms))
      [] n.kind = "Bool" -> Kind("Bool", IF n.x THEN 1 ELSE 0)
      [] n.kind \in {"List", "Map"} -> Kind(n.kind, [i \in DOMAIN n.x |-> Encode(n.x[i])])
      [] OTHER -> n

RECURSIVE DecodeValue(_)
DecodeValue(e) ==
    CASE e.kind \in NumberKinds -> DecodeNumber(e)
      [] e.kind = "Time" -> Kind("Time", [ms |-> SignedOf(e.x), sub |-> 0])
      [] e.kind = "Bool" -> Kind("Bool", e.x # 0)
      [] e.kind \in {"List", "Map"} -> Kind(e.kind, [i \in DOMAIN e.x |-> DecodeValue(e.x[i])])
      [] OTHER -> e

-----------------------------------------------------------------------------
(* Reading *)

AnyOf(T, x) == [any |-> x, t |-> T]

\* Fault: every integer is an int64.
NumberTypeSigned(kind) == IF kind = "Float64" THEN Float64 ELSE Int64

\* The type of a number that is read as an interface.
NumberType(kind) ==
    CASE kind = "Float64" -> Float64
      [] kind = "Uint64"  -> Uint64
      [] OTHER -> Int64

BytesOf(v) == [list |-> [i \in DOMAIN v.x |-> [num |-> Integer(v.x[i])]]]

\* The Go value of a Value: []any, map[string]any, string for a text and
\* int64 for a counter.
RECURSIVE Interface(_)
Interface(v) ==
    CASE v.kind = "Null" -> Nil
      [] v.kind \in NumberKinds -> AnyOf(NumberType(v.kind), [num |-> v.x])
      [] v.kind = "Bool" -> AnyOf([k |-> "bool"], [bool |-> v.x])
      [] v.kind \in {"Str", "Text"} -> AnyOf([k |-> "str"], [str |-> v.x])
      [] v.kind = "Time" -> AnyOf([k |-> "time"], v.x)
      [] v.kind = "Bytes" -> AnyOf([k |-> "slice", of |-> Uint8], BytesOf(v))
      [] v.kind = "List" -> AnyOf([k |-> "slice", of |-> AnyType],
                                [list |-> [i \in DOMAIN v.x |-> Interface(v.x[i])]])
      [] v.kind = "Map" -> AnyOf([k |-> "map", of |-> AnyType],
                               [map |-> [n \in DOMAIN v.x |-> Interface(v.x[n])]])

Done(x) == [ok |-> TRUE, x |-> x]
Refuse(T) == [ok |-> FALSE, x |-> Zero(T)]

AllOk(parts) == \A i \in DOMAIN parts : parts[i].ok
Contents(parts) == [i \in DOMAIN parts |-> parts[i].x]

\* An array is filled in place, up to the first element that fails, which may
\* be half done; a longer list is cut, a shorter one leaves zero values.
UnmarshalArray(T, parts) ==
    LET size == Min({T.len, Len(parts)})
        bad  == {i \in 1 .. size : ~parts[i].ok}
        last == Min(bad \cup {size})
    IN [ok |-> bad = {},
        x |-> [list |-> [i \in 1 .. T.len |-> IF i <= last THEN parts[i].x ELSE Zero(T.of)]]]

\* A struct is assigned after every field: a field that fails ends the call
\* and leaves the ones before it.  parts holds a conversion for each field
\* that is in the map.
UnmarshalStruct(T, parts) ==
    LET bad == {i \in DOMAIN parts : ~parts[i].ok}
        set == {i \in DOMAIN parts : \A j \in bad : i < j}
    IN [ok |-> bad = {},
        x |-> [struct |-> [i \in DOMAIN T.fields |->
                 IF i \in set THEN parts[i].x ELSE Zero(T.fields[i].of)]]]

\* A conversion into type T.  A pointer, slice or map is set when all of it is
\* done.  To *Text, *Counter and time.Time a map is a struct without fields.
RECURSIVE Unmarshal(_, _, _)
Unmarshal(a, T, v) ==
    CASE T.k = "num" /\ v.kind \in NumberKinds ->
            LET u == UnmarshalNumber(a, T, v)
            IN IF u.ok THEN Done([num |-> u.x]) ELSE Refuse(T)
      [] T.k = "bool" /\ v.kind = "Bool" -> Done([bool |-> v.x])
      [] T.k = "str" /\ v.kind \in {"Str", "Text"} -> Done([str |-> v.x])
      [] T.k = "any" -> Done(Interface(v))
      [] T.k = "text" /\ v.kind = "Text" -> Done([text |-> v.x])
      [] T.k = "text" /\ v.kind = "Map" -> Done([text |-> ""])
      [] T.k = "counter" /\ v.kind = "Counter" -> Done([counter |-> v.x])
      [] T.k = "counter" /\ v.kind = "Map" -> Done([counter |-> Integer(0)])
      [] T.k = "ptr" -> LET u == Unmarshal(a, T.of, v)
                        IN IF u.ok THEN Done([ptr |-> u.x]) ELSE Refuse(T)
      [] T.k = "slice" /\ IsBytes(T) /\ v.kind = "Bytes" -> Done(BytesOf(v))
      [] T.k \in {"slice", "array"} /\ v.kind = "List" ->
            LET parts == [i \in DOMAIN v.x |-> Unmarshal(a, T.of, v.x[i])]
            IN IF T.k = "array" THEN UnmarshalArray(T, parts)
               ELSE IF AllOk(parts) THEN Done([list |-> Contents(parts)]) ELSE Refuse(T)
      [] T.k = "map" /\ v.kind = "Map" ->
            LET parts == [n \in DOMAIN v.x |-> Unmarshal(a, T.of, v.x[n])]
            IN IF AllOk(parts) THEN Done([map |-> Contents(parts)]) ELSE Refuse(T)
      [] T.k = "time" /\ v.kind = "Time" -> Done(v.x)
      [] T.k = "time" /\ v.kind = "Map" -> Done(Zero(T))
      [] T.k = "struct" /\ v.kind = "Map" ->
            UnmarshalStruct(T,
                [i \in {j \in ParseTags(T) : T.fields[j].name \in DOMAIN v.x} |->
                    Unmarshal(a, T.fields[i].of, v.x[T.fields[i].name])])
      [] OTHER -> Refuse(T)

-----------------------------------------------------------------------------

ValuesInit ==
    /\ arch \in Arch
    /\ gtype \in GoTypes
    /\ gval \in ValuesOf(gtype)
    /\ stored = Nil /\ value = Nil /\ target = Nil /\ result = Nil
    /\ step = "new"

ValuesIdle ==
    /\ arch = "amd64" /\ gtype = AnyType /\ gval = Nil
    /\ stored = Nil /\ value = Nil /\ target = Nil /\ result = Nil
    /\ step = "idle"

\* Set of a Map or a List.
Set ==
    LET n == Normalize(gtype, gval)
    IN /\ step = "new"
       /\ \/ n.st = "ok" /\ stored' = Encode(n.v) /\ step' = "stored"
          \/ n.st # "ok" /\ step' = n.st /\ UNCHANGED stored
       /\ UNCHANGED <<arch, gtype, gval, value, target, result>>

Get ==
    /\ step = "stored"
    /\ value' = DecodeValue(stored)
    /\ step' = "read"
    /\ UNCHANGED <<arch, gtype, gval, stored, target, result>>

As ==
    /\ step = "read"
    /\ target' \in GoTypes
    /\ result' = Unmarshal(arch, target', value)
    /\ step' = "done"
    /\ UNCHANGED <<arch, gtype, gval, stored, value>>

ValuesNext == Set \/ Get \/ As

-----------------------------------------------------------------------------
(* Properties *)

NumberAsked == step = "done" /\ target.k = "num" /\ value.kind \in NumberKinds

\* The float just above the range of an integer type, which arm64 converts to
\* the largest integer and finds to be the same float.
JustAbove(T, f) ==
    f = Integer(IF T.class = "int" THEN T.lim ELSE 2 * T.lim) /\ T.lim = Half

\* A number that As returns without an error is the number in the document,
\* up to the precision of a float type: no conversion wraps, changes the sign
\* or cuts off a fraction.  Only 2^63 (2^64 for uint64) stored as a float may
\* come back one too small.
AsExact ==
    (NumberAsked /\ result.ok) =>
        \/ result.x.num = IF target.class = "float" THEN Nearest(target, value.x) ELSE value.x
        \/ /\ arch = "arm64" /\ value.kind = "Float64" /\ target.class # "float"
           /\ JustAbove(target, value.x)
           /\ result.x.num.n = value.x.n - 1

\* "T could be any numeric type that v's value fits in": As converts a number
\* to every type that it fits in.
AsTakesWhatFits == (NumberAsked /\ Fits(target, value.x)) => result.ok

\* The same of every number but a uint64 zero: no conversion between signed,
\* unsigned and floating numbers refuses a value at a limit that it could keep.
AsAccepts ==
    (NumberAsked /\ Fits(target, value.x) /\ value # Kind("Uint64", Integer(0))) => result.ok

\* The values of T that a document can hold and give back.
RECURSIVE Lossless(_, _)
Lossless(T, v) ==
    CASE T.k = "num" /\ T.class = "float" -> v.num.rest # "nan"
      [] T.k = "num" /\ T.class # "float" ->
            IF T.wide THEN T.class = "int" \/ v.num.n # 0
            ELSE RoundTo(v.num.n, Exact) = v.num.n
      [] T.k = "time"  -> v.sub = 0
      [] T.k = "ptr"   -> v # Nil /\ Lossless(T.of, v.ptr)
      [] T.k \in {"slice", "array"} ->
            /\ \A i \in DOMAIN v.list : Lossless(T.of, v.list[i])
            /\ ~(T.k = "array" /\ IsBytes(T))
      [] T.k = "map"   -> \A n \in DOMAIN v.map : Lossless(T.of, v.map[n])
      [] T.k = "struct" ->
            \A i \in DOMAIN T.fields :
                IF i \in ParseTags(T) THEN Lossless(T.fields[i].of, v.struct[i])
                ELSE v.struct[i] = Zero(T.fields[i].of)
      [] T.k = "any"   -> v = Nil \/ v.t \in {Int64, Uint64, Float64}
      [] OTHER -> TRUE

\* A value that is written and read with the same type is the same again:
\* all but a NaN, the uint64 zero, integers beyond 2^53 of a type other than
\* int64 and uint64, fractions of milliseconds, byte arrays, and fields that
\* tags leave out.
RoundTrip ==
    (step = "done" /\ target = gtype /\ Lossless(gtype, gval)) =>
        result.ok /\ result.x = gval

\* A value that is read with As[any] and written back leaves the document as
\* it was, but for texts and counters, which become strings and integers.
AnyKeepsAll ==
    (step = "done" /\ target = AnyType /\ stored.kind \notin {"Text", "Counter"}) =>
        Encode(Normalize(AnyType, result.x).v) = stored

=============================================================================
