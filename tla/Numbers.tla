------------------------------ MODULE Numbers -------------------------------
(***************************************************************************)
(* Numbers on their way between Go and a document: what normalize stores,  *)
(* the words of internal/backend/backend.go and unmarshalNumber of         *)
(* normalize.go.                                                           *)
(*                                                                         *)
(* Half stands for 2^63 and Exact for 2^53, the largest integer up to      *)
(* which a float64 holds them all; Exact32 is 2^24, and Huge the largest   *)
(* float32.  A number is a record: n is its integer part, rounded down,    *)
(* and rest says what else it is: "none" for an integer, "frac" for        *)
(* n + 1/2, "inf" (n is the sign) or "nan".  Numbers go up to 4 * Half.     *)
(*                                                                         *)
(* A definition whose comment starts with "Fault" is a wrong variant of    *)
(* the definition after it, put in its place to see a property notice.     *)
(***************************************************************************)
EXTENDS Integers

CONSTANTS Half, Exact, Exact32, Huge

ASSUME NumbersAssumption ==
    /\ {Half, Exact, Exact32, Huge} \subseteq Nat \ {0}
    /\ Exact32 < Exact /\ Exact < Half /\ 2 * Half <= Huge
    /\ 4 * Half <= 8 * Exact /\ Huge <= 8 * Exact32  \* as far as Step goes

\* Go's conversion of a float beyond the range of an integer type depends on
\* the machine.
Arch == {"amd64", "arm64"}

Integer(n) == [n |-> n, rest |-> "none"]
NaN == [n |-> 0, rest |-> "nan"]
Inf(sign) == [n |-> sign, rest |-> "inf"]

\* The types of Go's numbers.  wide: int64 and uint64, which normalize keeps;
\* lim: the range is -lim .. lim - 1 or 0 .. 2 * lim - 1.
NumType(class, lim, wide) == [k |-> "num", class |-> class, lim |-> lim, wide |-> wide]
Int64  == NumType("int", Half, TRUE)
Uint64 == NumType("uint", Half, TRUE)
Float64 == NumType("float", Half, FALSE)
Float32 == NumType("float", Huge, FALSE)

InRange(T, i) ==
    CASE T.class = "int"   -> -T.lim <= i /\ i < T.lim
      [] T.class = "uint"  -> 0 <= i /\ i < 2 * T.lim
      [] T.class = "float" -> TRUE

-----------------------------------------------------------------------------
(* Rounding and words *)

Abs(i) == IF i < 0 THEN -i ELSE i

\* The distance of the floats around i when exact is the limit of precision.
Step(i, exact) ==
    LET Wide(s) == Abs(i) <= exact * s
    IN IF Wide(1) THEN 1 ELSE IF Wide(2) THEN 2 ELSE IF Wide(4) THEN 4 ELSE 8

\* The nearest float, the even one of two.
RoundTo(i, exact) ==
    LET s == Step(i, exact)
        q == Abs(i) \div s
        r == Abs(i) % s
        up == 2 * r > s \/ (2 * r = s /\ q % 2 = 1)
        m == s * (IF up THEN q + 1 ELSE q)
    IN IF i < 0 THEN -m ELSE m

\* float64(i)
Float64Of(i) == Integer(RoundTo(i, Exact))

\* uint64(i), and int64 of a word.
WordOf(i) == i % (2 * Half)
SignedOf(w) == IF w < Half THEN w ELSE w - 2 * Half

Truncated(f) == IF f.rest = "frac" /\ f.n < 0 THEN f.n + 1 ELSE f.n

\* T(f) for a 64-bit integer type T.  Beyond the range of T, arm64 takes the
\* nearest integer; amd64 its smallest int64, and for a uint64 other words.
IntegerOf(arch, T, f) ==
    LET finite == f.rest \in {"none", "frac"}
        i      == Truncated(f)
    IN CASE finite /\ InRange(T, i) -> i
         [] f.rest = "nan" /\ arch = "arm64" -> 0
         [] ~(finite /\ InRange(T, i)) /\ f.rest # "nan" /\ arch = "arm64" ->
               IF T.class = "int" THEN (IF f.n < 0 THEN -Half ELSE Half - 1)
               ELSE (IF f.n < 0 THEN 0 ELSE 2 * Half - 1)
         [] ~(finite /\ InRange(T, i)) /\ arch = "amd64" ->
               IF T.class = "int" THEN -Half
               ELSE IF finite /\ f.n < 0 THEN WordOf(i) ELSE 0

-----------------------------------------------------------------------------
(* Writing *)

\* Fault: every integer is stored as a float64.
StoredAsNarrow(T, x) ==
    IF T.class = "float" THEN [kind |-> "Float64", x |-> x]
    ELSE [kind |-> "Float64", x |-> Float64Of(x.n)]

\* What normalize makes of x, of type T: only int64 and uint64 stay integers.
StoredAs(T, x) ==
    CASE T.class = "float" -> [kind |-> "Float64", x |-> x]
      [] T.wide /\ T.class = "int"  -> [kind |-> "Int64", x |-> x]
      [] T.wide /\ T.class = "uint" -> [kind |-> "Uint64", x |-> x]
      [] OTHER -> [kind |-> "Float64", x |-> Float64Of(x.n)]

\* The payload of a value: 8 bytes of an integer, or the bits of a float.
EncodeNumber(v) ==
    IF v.kind = "Float64" THEN v ELSE [kind |-> v.kind, x |-> WordOf(v.x.n)]

DecodeNumber(e) ==
    CASE e.kind = "Float64" -> e
      [] e.kind = "Uint64" -> [kind |-> "Uint64", x |-> Integer(e.x)]
      [] e.kind \in {"Int64", "Counter"} -> [kind |-> e.kind, x |-> Integer(SignedOf(e.x))]

-----------------------------------------------------------------------------
(* Reading *)

\* The conversion to the widest type of T's class, int64, uint64 or float64.
Convert(arch, T, v) ==
    CASE T.class = "float" -> IF v.kind = "Float64" THEN v.x ELSE Float64Of(v.x.n)
      [] v.kind = "Float64" -> Integer(IntegerOf(arch, IF T.class = "int" THEN Int64 ELSE Uint64, v.x))
      [] T.class = "int"  -> Integer(SignedOf(WordOf(v.x.n)))
      [] T.class = "uint" -> Integer(WordOf(v.x.n))

\* OverflowInt, OverflowUint, OverflowFloat: infinities are no overflow.
Overflows(T, c) ==
    IF T.class # "float" THEN ~InRange(T, c.n)
    ELSE T = Float32 /\ c.rest \in {"none", "frac"} /\ Abs(c.n) > Huge

\* Fault: the signs are not compared.
KeepsAnySign(T, v, c) ==
    CASE v.kind = "Float64" -> IF T.class = "float" THEN c.rest # "nan"
                               ELSE Float64Of(c.n) = v.x
      [] v.kind \in {"Int64", "Counter"} -> TRUE
      [] v.kind = "Uint64" -> c.n > 0

\* Fault: what holds for a uint64 is asked of every integer.
KeepsPositive(T, v, c) ==
    IF v.kind = "Float64" THEN IF T.class = "float" THEN c.rest # "nan"
                               ELSE Float64Of(c.n) = v.x
    ELSE c.n > 0

\* The test on a converted number c: a float must come back from c, which NaN
\* never does; an integer must keep its sign, and a uint64 be positive.
Keeps(T, v, c) ==
    CASE v.kind = "Float64" -> IF T.class = "float" THEN c.rest # "nan"
                               ELSE Float64Of(c.n) = v.x
      [] v.kind \in {"Int64", "Counter"} -> (c.n > 0) = (v.x.n > 0)
      [] v.kind = "Uint64" -> c.n > 0

\* SetInt, SetUint, SetFloat: a float32 rounds.
SetTo(T, c) ==
    IF T # Float32 \/ c.rest \in {"nan", "inf"} THEN c
    ELSE [n |-> RoundTo(c.n, Exact32),
          rest |-> IF Abs(c.n) < Exact32 THEN c.rest ELSE "none"]

UnmarshalNumber(arch, T, v) ==
    LET c == Convert(arch, T, v)
    IN [ok |-> Keeps(T, v, c) /\ ~Overflows(T, c), x |-> SetTo(T, c)]

-----------------------------------------------------------------------------
(* What to expect of them *)

\* "any numeric type that v's value fits in": an integer in the range of an
\* integer type, or any number that a float type does not overflow on.
Fits(T, f) ==
    IF T.class = "float" THEN f.rest # "nan" /\ ~Overflows(T, f)
    ELSE f.rest = "none" /\ InRange(T, f.n)

\* The number that a float type holds for f.
Nearest(T, f) ==
    SetTo(T, IF f.rest = "none" THEN Integer(RoundTo(f.n, Exact)) ELSE f)

=============================================================================
