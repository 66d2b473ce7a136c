------------------------------- MODULE Values -------------------------------
(***************************************************************************)
(* SQL values and what the virtual machine does with them: the five        *)
(* storage classes (src/record/value.rs), their order (vdbe/compare.rs,    *)
(* record/collation.rs), column affinity (vdbe/affinity.rs), numeric       *)
(* coercion and checked arithmetic (vdbe/coerce.rs, vdbe/arithmetic.rs),   *)
(* CAST (vdbe/cast.rs) and truth (vdbe/control.rs).                        *)
(*                                                                         *)
(* A value is a pair of its class and its payload.  An INTEGER is an       *)
(* IntBits-bit two's complement number (64 in the code).  A REAL's payload *)
(* is twice its value, so that halves are exact; NaN, the infinities and   *)
(* rounding are left out.  A TEXT or BLOB is a sequence of bytes.  An      *)
(* encoded record, which the code keeps in a BLOB, has a class of its own. *)
(* Orderings are -1, 0 and 1 for Less, Equal and Greater.                  *)
(***************************************************************************)
EXTENDS Integers, Sequences, SequencesExt

CONSTANT IntBits

VNull == <<"null", 0>>
VInt(n) == <<"int", n>>
VReal(h) == <<"real", h>>
VText(s) == <<"text", s>>
VBlob(s) == <<"blob", s>>
RecordOf(vs) == <<"record", vs>>

IsNull(v) == v[1] = "null"
IsNumber(v) == v[1] \in {"int", "real"}

IntMin == -(2 ^ (IntBits - 1))
IntMax == 2 ^ (IntBits - 1) - 1
InRange(n) == n \in IntMin .. IntMax
Wrap(n) == ((n - IntMin) % (2 ^ IntBits)) + IntMin
Saturate(n) == IF n < IntMin THEN IntMin ELSE IF n > IntMax THEN IntMax ELSE n

Cmp(x, y) == IF x < y THEN -1 ELSE IF x > y THEN 1 ELSE 0

-----------------------------------------------------------------------------
(* The order of values. *)

\* The first position at which two byte strings differ decides; a proper
\* prefix comes first.
CmpBytes(a, b) ==
    LET n == IF Len(a) < Len(b) THEN Len(a) ELSE Len(b)
        differ == {i \in 1 .. n : a[i] # b[i]}
        first == CHOOSE i \in differ : \A j \in differ : i <= j
    IN  IF differ = {} THEN Cmp(Len(a), Len(b)) ELSE Cmp(a[first], b[first])

Space == 32
LowerByte(c) == IF c \in 65 .. 90 THEN c + 32 ELSE c
TrimEnd(s) ==
    LET kept == {i \in 1 .. Len(s) : s[i] # Space}
    IN  IF kept = {} THEN <<>> ELSE SubSeq(s, 1, CHOOSE i \in kept : \A j \in kept : j <= i)

\* What a collation makes of a text before bytes are compared.
Fold(s, coll) ==
    CASE coll = "NOCASE" -> [i \in 1 .. Len(s) |-> LowerByte(s[i])]
      [] coll = "RTRIM" -> TrimEnd(s)
      [] OTHER -> s

compare_text(a, b, coll) == CmpBytes(Fold(a, coll), Fold(b, coll))

value_rank(v) ==
    CASE v[1] = "null" -> 0
      [] v[1] \in {"int", "real"} -> 1
      [] v[1] = "text" -> 2
      [] OTHER -> 3

Halves(v) == IF v[1] = "int" THEN 2 * v[2] ELSE v[2]

compare(a, b, coll) ==
    IF value_rank(a) # value_rank(b) THEN Cmp(value_rank(a), value_rank(b))
    ELSE CASE IsNull(a) -> 0
           [] IsNumber(a) -> Cmp(Halves(a), Halves(b))
           [] a[1] = "text" -> compare_text(a[2], b[2], coll)
           [] OTHER -> CmpBytes(a[2], b[2])

\* The order of two keys up to the length of the shorter one.
compare_prefix(a, b, colls) ==
    LET n == IF Len(a) < Len(b) THEN Len(a) ELSE Len(b)
        differ == {i \in 1 .. n : compare(a[i], b[i], colls[i]) # 0}
        first == CHOOSE i \in differ : \A j \in differ : i <= j
    IN  IF differ = {} THEN 0 ELSE compare(a[first], b[first], colls[first])

Binary(n) == [i \in 1 .. n |-> "BINARY"]

\* The order of an index b-tree: always BINARY, and a key follows its own
\* prefixes.
compare_keys(a, b) ==
    LET c == compare_prefix(a, b, Binary(Len(a)))
    IN  IF c # 0 THEN c ELSE Cmp(Len(a), Len(b))

-----------------------------------------------------------------------------
(* Numbers in texts. *)

IsDigit(c) == c \in 48 .. 57
Dot == 46
Plus == 43
Minus == 45
TrimStart(s) == Reverse(TrimEnd(Reverse(s)))

\* Decimal digits of a non-negative number.
Digits[n \in Nat] == IF n < 10 THEN <<48 + n>> ELSE Digits[n \div 10] \o <<48 + (n % 10)>>
IntText(n) == IF n < 0 THEN <<Minus>> \o Digits[-n] ELSE Digits[n]
RealText(h) ==
    LET m == IF h < 0 THEN -h ELSE h
    IN  (IF h < 0 THEN <<Minus>> ELSE <<>>) \o Digits[m \div 2]
            \o <<Dot, IF m % 2 = 0 THEN 48 ELSE 53>>

DigitsValue(s) == FoldLeft(LAMBDA n, c : 10 * n + (c - 48), 0, s)
RunOfDigits(s, from) ==
    LET stop == {i \in from .. Len(s) : ~IsDigit(s[i])}
    IN  (IF stop = {} THEN Len(s) + 1 ELSE CHOOSE i \in stop : \A j \in stop : i <= j) - from

\* Leading number of a text: [end, value] of the longest numeric prefix, the
\* value an INTEGER unless a fraction follows or it does not fit; end = 0 when
\* there is none.  Exponents and fractions finer than a half are left out.
scan_number_prefix(t) ==
    LET s == TrimStart(t)
        sign == IF s # <<>> /\ s[1] \in {Plus, Minus} THEN 1 ELSE 0
        n == RunOfDigits(s, sign + 1)
        intEnd == sign + n
        frac == IF intEnd < Len(s) /\ s[intEnd + 1] = Dot THEN RunOfDigits(s, intEnd + 2) ELSE -1
        isFloat == frac > 0 \/ (frac = 0 /\ n > 0)
        whole == DigitsValue(SubSeq(s, sign + 1, intEnd))
        half == IF frac > 0 /\ s[intEnd + 2] = 53 THEN 1 ELSE 0
        signed(x) == IF sign = 1 /\ s[1] = Minus THEN -x ELSE x
    IN  IF n = 0 /\ ~isFloat THEN [end |-> 0, value |-> VInt(0)]
        ELSE [end |-> (Len(t) - Len(s)) + IF isFloat THEN intEnd + 1 + frac ELSE intEnd,
              value |-> IF isFloat \/ ~InRange(signed(whole)) THEN VReal(signed(2 * whole + half))
                        ELSE VInt(signed(whole))]

coerce_text_to_numeric(s) == scan_number_prefix(s).value

\* A text that is a number from end to end, spaces around it aside.
parse_well_formed_number(s) ==
    LET p == scan_number_prefix(TrimEnd(s))
    IN  IF p.end > 0 /\ p.end = Len(TrimEnd(s)) THEN {p.value} ELSE {}

-----------------------------------------------------------------------------
(* Affinity. *)

IsNumericAffinity(a) == a \in {"NUMERIC", "INTEGER", "REAL"}

\* none is an operand that has no affinity.
comparison_affinity(l, r) ==
    CASE l # "none" /\ r # "none" ->
            IF IsNumericAffinity(l) \/ IsNumericAffinity(r) THEN "NUMERIC" ELSE "BLOB"
      [] l # "none" -> l
      [] r # "none" -> r
      [] OTHER -> "BLOB"

as_text(v) ==
    CASE IsNull(v) -> <<>>
      [] v[1] = "int" -> IntText(v[2])
      [] v[1] = "real" -> RealText(v[2])
      [] OTHER -> v[2]

apply_affinity(v, aff) ==
    CASE aff = "BLOB" \/ v[1] = "record" -> v
      [] aff = "TEXT" -> IF IsNumber(v) THEN VText(as_text(v)) ELSE v
      [] OTHER ->
            LET parsed == IF v[1] = "text" THEN parse_well_formed_number(v[2]) ELSE {}
                n == IF parsed = {} THEN v ELSE CHOOSE p \in parsed : TRUE
            IN  IF aff = "REAL" /\ n[1] = "int" THEN VReal(2 * n[2]) ELSE n

-----------------------------------------------------------------------------
(* Arithmetic. *)

as_numeric(v) ==
    CASE IsNumber(v) -> v
      [] v[1] = "text" -> coerce_text_to_numeric(v[2])
      [] OTHER -> VInt(0)

TruncHalves(h) == IF h >= 0 THEN h \div 2 ELSE -((-h) \div 2)
cast_to_integer(v) ==
    LET n == as_numeric(v)
    IN  IF n[1] = "int" THEN n[2] ELSE Saturate(TruncHalves(n[2]))

\* Integer arithmetic that overflows is done again in reals.
arith(a, b, op(_, _), rop(_, _)) ==
    LET x == as_numeric(a)
        y == as_numeric(b)
    IN  IF x[1] = "int" /\ y[1] = "int"
        THEN IF InRange(op(x[2], y[2])) THEN VInt(op(x[2], y[2])) ELSE VReal(2 * op(x[2], y[2]))
        ELSE VReal(rop(Halves(x), Halves(y)))

checked_add(a, b) == arith(a, b, LAMBDA x, y : x + y, LAMBDA x, y : x + y)
checked_sub(a, b) == arith(a, b, LAMBDA x, y : x - y, LAMBDA x, y : x - y)
checked_mul(a, b) == arith(a, b, LAMBDA x, y : x * y, LAMBDA x, y : (x * y) \div 2)

\* Quotient rounded towards zero, of the sign the operands give it.
TruncDiv(x, y) ==
    LET ax == IF x < 0 THEN -x ELSE x
        ay == IF y < 0 THEN -y ELSE y
    IN  IF (x < 0) = (y < 0) THEN ax \div ay ELSE -(ax \div ay)

checked_div(a, b) ==
    LET x == as_numeric(a)
        y == as_numeric(b)
        q == TruncDiv(x[2], y[2])
    IN  CASE Halves(y) = 0 -> VNull
          [] x[1] = "int" /\ y[1] = "int" -> IF InRange(q) THEN VInt(q) ELSE VReal(2 * q)
          [] OTHER -> VReal(TruncDiv(2 * Halves(x), Halves(y)))

checked_rem(a, b) ==
    LET x == cast_to_integer(a)
        y == cast_to_integer(b)
        r == x - y * TruncDiv(x, y)
        isReal == as_numeric(a)[1] = "real" \/ as_numeric(b)[1] = "real"
    IN  IF y = 0 THEN VNull ELSE IF isReal THEN VReal(2 * r) ELSE VInt(r)

\* The i-th bit of the two's complement form of n.
Bit(n, i) == (((n + 2 ^ IntBits) % (2 ^ IntBits)) \div (2 ^ i)) % 2
FromBits(f) == Wrap(FoldLeft(LAMBDA n, i : n + f[i] * 2 ^ i, 0, [i \in 1 .. IntBits |-> i - 1]))
BitOp(a, b, op(_, _)) ==
    LET x == cast_to_integer(a)
        y == cast_to_integer(b)
    IN  VInt(FromBits([i \in 0 .. IntBits - 1 |-> op(Bit(x, i), Bit(y, i))]))
bit_and(a, b) == BitOp(a, b, LAMBDA x, y : x * y)
bit_or(a, b) == BitOp(a, b, LAMBDA x, y : IF x + y > 0 THEN 1 ELSE 0)
bit_not(a) == VInt(-cast_to_integer(a) - 1)

\* A negative count shifts the other way; a count of the width or more leaves
\* the sign alone.
shift(a, b, left) ==
    LET n == IF b < 0 THEN (IF b > -IntBits THEN -b ELSE IntBits) ELSE b
    IN  IF n >= IntBits THEN (IF a >= 0 THEN 0 ELSE -1)
        ELSE IF left = (b >= 0) THEN Wrap(a * 2 ^ n)
        ELSE a \div (2 ^ n)
shift_left(a, b) == VInt(shift(cast_to_integer(a), cast_to_integer(b), TRUE))
shift_right(a, b) == VInt(shift(cast_to_integer(a), cast_to_integer(b), FALSE))

concat(a, b) == VText(as_text(a) \o as_text(b))

\* NULL is neither; a blob is false whatever it holds.
is_falsy(v) ==
    CASE IsNumber(v) -> v[2] = 0
      [] v[1] = "text" -> coerce_text_to_numeric(v[2])[2] = 0
      [] IsNull(v) -> FALSE
      [] OTHER -> TRUE

-----------------------------------------------------------------------------
(* CAST. *)

NumberIn(v) == IF IsNumber(v) THEN v ELSE coerce_text_to_numeric(v[2])

cast_to(v, aff) ==
    LET n == NumberIn(v)
    IN  CASE IsNull(v) -> VNull
          [] aff = "TEXT" -> VText(as_text(v))
          [] aff = "BLOB" -> VBlob(as_text(v))
          [] aff = "INTEGER" -> IF n[1] = "int" THEN n ELSE VInt(Saturate(TruncHalves(n[2])))
          [] aff = "REAL" -> VReal(Halves(n))
          [] OTHER -> IF ~IsNumber(v) /\ n[1] = "real" /\ n[2] % 2 = 0 /\ InRange(n[2] \div 2)
                      THEN VInt(n[2] \div 2) ELSE n
=============================================================================
