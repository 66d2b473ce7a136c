---------------------------- MODULE SqlFunctions ----------------------------
(***************************************************************************)
(* The scalar SQL functions of src/vdbe/functions.rs.  A function takes a  *)
(* sequence of values and returns the set of its results: empty is the     *)
(* FunctionError of an unknown function, a wrong arity or an overflow.     *)
(* Characters are bytes; sqlite_version's text is abstracted to one byte.  *)
(* After them come the accumulators of the aggregate functions             *)
(* (src/vdbe/aggregate.rs): what AggStep and HashAggStep fold one row      *)
(* into, and AggFinal reads.                                               *)
(***************************************************************************)
EXTENDS Values

Bool(b) == VInt(IF b THEN 1 ELSE 0)
AnyNull(args) == \E i \in DOMAIN args : IsNull(args[i])
UpperByte(c) == IF c \in 97 .. 122 THEN c - 32 ELSE c
MapText(v, f(_)) == IF v[1] = "text" THEN VText([i \in DOMAIN v[2] |-> f(v[2][i])]) ELSE v

length(v) == IF IsNull(v) THEN VNull ELSE VInt(Len(as_text(v)))

value_int(v) == IF v[1] \in {"null", "blob"} THEN 0 ELSE cast_to_integer(v)
value_halves(v) == IF v[1] \in {"null", "blob"} THEN 0 ELSE Halves(as_numeric(v))

\* The window of substr, as the code computes it from its two numbers: how
\* many characters to skip and how many to take.
SubstrWindow(len, start, count) ==
    LET neg == count < 0
        n == IF neg THEN Saturate(-count) ELSE count
        fromEnd == Saturate(start + len)
        skip1 == CASE start < 0 -> IF fromEnd < 0 THEN 0 ELSE fromEnd
                   [] start > 0 -> start - 1
                   [] OTHER -> 0
        take1 == CASE start < 0 /\ fromEnd < 0 -> IF n + fromEnd < 0 THEN 0 ELSE n + fromEnd
                   [] start = 0 /\ n > 0 -> n - 1
                   [] OTHER -> n
        skip2 == IF neg THEN skip1 - take1 ELSE skip1
    IN  IF skip2 < 0 THEN <<0, take1 + skip2>> ELSE <<skip2, take1>>

substr(args) ==
    LET s == as_text(args[1])
        count == IF Len(args) = 3 THEN value_int(args[3]) ELSE IntMax \div 2
        w == SubstrWindow(Len(s), value_int(args[2]), count)
        cut == SubSeq(s, w[1] + 1, IF w[1] + w[2] < Len(s) THEN w[1] + w[2] ELSE Len(s))
    IN  IF AnyNull(args) THEN VNull ELSE <<IF args[1][1] = "blob" THEN "blob" ELSE "text", cut>>

Abs(x) == IF x < 0 THEN -x ELSE x
abs(v) ==
    CASE IsNull(v) -> {VNull}
      [] v[1] = "int" -> IF v[2] = IntMin THEN {} ELSE {VInt(Abs(v[2]))}
      [] OTHER -> {VReal(Abs(value_halves(v)))}

coalesce(args) ==
    LET some == {i \in DOMAIN args : ~IsNull(args[i])}
    IN  IF some = {} THEN VNull ELSE args[CHOOSE i \in some : \A j \in some : i <= j]

nullif(a, b) ==
    IF ~IsNull(a) /\ ~IsNull(b) /\ compare(a, b, "BINARY") = 0 THEN VNull ELSE a

typeof_fn(v) ==
    VText(CASE v[1] = "null" -> <<110, 117, 108, 108>>
            [] v[1] = "int" -> <<105, 110, 116, 101, 103, 101, 114>>
            [] v[1] = "real" -> <<114, 101, 97, 108>>
            [] v[1] = "text" -> <<116, 101, 120, 116>>
            [] OTHER -> <<98, 108, 111, 98>>)

HexByte(n) == IF n < 10 THEN 48 + n ELSE 55 + n
hex(v) == VText(FlattenSeq([i \in DOMAIN as_text(v) |->
                    <<HexByte(as_text(v)[i] \div 16), HexByte(as_text(v)[i] % 16)>>]))

hex_digit(c) ==
    CASE c \in 48 .. 57 -> {c - 48}
      [] c \in 97 .. 102 -> {c - 87}
      [] c \in 65 .. 70 -> {c - 55}
      [] OTHER -> {}
unhex(v) ==
    LET s == as_text(v)
        digit(i) == CHOOSE d \in hex_digit(s[i]) : TRUE
    IN  IF IsNull(v) \/ Len(s) % 2 # 0 \/ \E i \in DOMAIN s : hex_digit(s[i]) = {} THEN VNull
        ELSE VBlob([i \in 1 .. Len(s) \div 2 |-> 16 * digit(2 * i - 1) + digit(2 * i)])

Quote == 39
sql_quote_text(s) ==
    <<Quote>> \o FlattenSeq([i \in DOMAIN s |-> IF s[i] = Quote THEN <<Quote, Quote>> ELSE <<s[i]>>])
        \o <<Quote>>
quote(v) ==
    VText(CASE IsNull(v) -> <<78, 85, 76, 76>>
            [] IsNumber(v) -> as_text(v)
            [] v[1] = "text" -> sql_quote_text(v[2])
            [] OTHER -> <<88, Quote>> \o hex(v)[2] \o <<Quote>>)

\* min takes the first of equal values and max the last, as min_by and
\* max_by do.
scalar_min(args) ==
    LET best == {i \in DOMAIN args : \A j \in DOMAIN args : compare(args[i], args[j], "BINARY") <= 0}
    IN  IF AnyNull(args) THEN VNull ELSE args[CHOOSE i \in best : \A j \in best : i <= j]
scalar_max(args) ==
    LET best == {i \in DOMAIN args : \A j \in DOMAIN args : compare(args[i], args[j], "BINARY") >= 0}
    IN  IF AnyNull(args) THEN VNull ELSE args[CHOOSE i \in best : \A j \in best : i >= j]

\* Halves are exact from the first digit on, so only zero digits round.
round_fn(args) ==
    LET h == value_halves(args[1])
        digits == IF Len(args) = 2 THEN value_int(args[2]) ELSE 0
    IN  IF AnyNull(args) THEN VNull
        ELSE IF digits > 0 THEN VReal(h)
        ELSE VReal(2 * IF h >= 0 THEN (h + 1) \div 2 ELSE -((-h + 1) \div 2))

sign(v) == IF IsNull(v) THEN VNull ELSE VInt(Cmp(value_halves(v), 0))

\* 1-based position of the first occurrence, 0 when there is none.
instr(a, b) ==
    LET h == as_text(a)
        n == as_text(b)
        at == {i \in 1 .. Len(h) - Len(n) + 1 : SubSeq(h, i, i + Len(n) - 1) = n}
    IN  CASE IsNull(a) \/ IsNull(b) -> VNull
          [] at = {} -> VInt(0)
          [] OTHER -> VInt(CHOOSE i \in at : \A j \in at : i <= j)

TrimEndOf(s, set) ==
    LET kept == {i \in DOMAIN s : s[i] \notin set}
    IN  IF kept = {} THEN <<>> ELSE SubSeq(s, 1, CHOOSE i \in kept : \A j \in kept : j <= i)
TrimStartOf(s, set) == Reverse(TrimEndOf(Reverse(s), set))
trim_charset(args) ==
    IF Len(args) = 2 THEN LET t == as_text(args[2]) IN {t[i] : i \in DOMAIN t} ELSE {Space}
trim_fn(name, args) ==
    LET s == as_text(args[1])
        set == trim_charset(args)
    IN  CASE IsNull(args[1]) -> VNull
          [] name = "ltrim" -> VText(TrimStartOf(s, set))
          [] name = "rtrim" -> VText(TrimEndOf(s, set))
          [] OTHER -> VText(TrimStartOf(TrimEndOf(s, set), set))

\* Non-overlapping occurrences, left to right.
RECURSIVE ReplaceIn(_, _, _)
ReplaceIn(s, from, to) ==
    LET n == Len(from)
    IN  IF Len(s) < n THEN s
        ELSE IF SubSeq(s, 1, n) = from THEN to \o ReplaceIn(SubSeq(s, n + 1, Len(s)), from, to)
        ELSE <<s[1]>> \o ReplaceIn(Tail(s), from, to)
replace_fn(args) ==
    IF AnyNull(args) THEN VNull
    ELSE IF as_text(args[2]) = <<>> THEN VText(as_text(args[1]))
    ELSE VText(ReplaceIn(as_text(args[1]), as_text(args[2]), as_text(args[3])))

zeroblob(v) == VBlob([i \in 1 .. value_int(v) |-> 0])

iif(args) == IF IsNull(args[1]) \/ is_falsy(args[1]) THEN args[3] ELSE args[2]

-----------------------------------------------------------------------------
(* LIKE and GLOB. *)

Percent == 37
Underscore == 95
Star == 42
Question == 63
LBracket == 91
RBracket == 93
Caret == 94

ascii_eq(a, b) == LowerByte(a) = LowerByte(b)

\* esc is {} or the set of the escape character.  A run of % is one %.
RECURSIVE like_rec(_, _, _)
like_rec(t, p, esc) ==
    IF p = <<>> THEN t = <<>>
    ELSE IF p[1] \in esc /\ Len(p) > 1
    THEN t # <<>> /\ ascii_eq(t[1], p[2]) /\ like_rec(Tail(t), SubSeq(p, 3, Len(p)), esc)
    ELSE CASE p[1] = Percent ->
                LET rest == SubSeq(p, 1 + CHOOSE n \in 1 .. Len(p) :
                                        /\ \A i \in 1 .. n : p[i] = Percent
                                        /\ n < Len(p) => p[n + 1] # Percent, Len(p))
                IN  rest = <<>> \/ \E k \in 0 .. Len(t) : like_rec(SubSeq(t, k + 1, Len(t)), rest, esc)
           [] p[1] = Underscore -> t # <<>> /\ like_rec(Tail(t), Tail(p), esc)
           [] OTHER -> t # <<>> /\ ascii_eq(t[1], p[1]) /\ like_rec(Tail(t), Tail(p), esc)

like_fn(args) ==
    LET e == IF Len(args) = 3 THEN as_text(args[3]) ELSE <<>>
    IN  IF AnyNull(args) THEN VNull
        ELSE Bool(like_rec(as_text(args[2]), as_text(args[1]), IF e = <<>> THEN {} ELSE {e[1]}))

\* A class from position i of the pattern on: [next, set], next = 0 when it is
\* not terminated.  A ] first in the class stands for itself.
RECURSIVE GlobClassFrom(_, _, _, _)
GlobClassFrom(p, i, first, set) ==
    IF i > Len(p) THEN [next |-> 0, set |-> {}]
    ELSE IF p[i] = RBracket /\ ~first THEN [next |-> i + 1, set |-> set]
    ELSE IF i + 2 <= Len(p) /\ p[i + 1] = Minus /\ p[i + 2] # RBracket
    THEN GlobClassFrom(p, i + 3, FALSE, set \union (p[i] .. p[i + 2]))
    ELSE GlobClassFrom(p, i + 1, FALSE, set \union {p[i]})
glob_class(p) ==
    LET negate == Len(p) > 1 /\ p[2] = Caret
        c == GlobClassFrom(p, IF negate THEN 3 ELSE 2, TRUE, {})
    IN  [next |-> c.next, set |-> IF negate THEN (0 .. 255) \ c.set ELSE c.set]

RECURSIVE glob_rec(_, _)
glob_rec(t, p) ==
    IF p = <<>> THEN t = <<>>
    ELSE CASE p[1] = Star ->
                Len(p) = 1 \/ \E k \in 0 .. Len(t) : glob_rec(SubSeq(t, k + 1, Len(t)), Tail(p))
           [] p[1] = Question -> t # <<>> /\ glob_rec(Tail(t), Tail(p))
           [] p[1] = LBracket ->
                LET c == glob_class(p)
                IN  c.next # 0 /\ t # <<>> /\ t[1] \in c.set
                        /\ glob_rec(Tail(t), SubSeq(p, c.next, Len(p)))
           [] OTHER -> t # <<>> /\ t[1] = p[1] /\ glob_rec(Tail(t), Tail(p))
glob_fn(args) ==
    IF AnyNull(args) THEN VNull ELSE Bool(glob_rec(as_text(args[2]), as_text(args[1])))

-----------------------------------------------------------------------------

call(name, args) ==
    LET n == Len(args)
    IN  CASE name = "length" /\ n = 1 -> {length(args[1])}
          [] name = "upper" /\ n = 1 -> {MapText(args[1], UpperByte)}
          [] name = "lower" /\ n = 1 -> {MapText(args[1], LowerByte)}
          [] name = "substr" /\ n \in 2 .. 3 -> {substr(args)}
          [] name = "sqlite_version" /\ n = 0 -> {VText(<<51>>)}
          [] name = "abs" /\ n = 1 -> abs(args[1])
          [] (name = "coalesce" /\ n >= 2) \/ (name = "ifnull" /\ n = 2) -> {coalesce(args)}
          [] name = "nullif" /\ n = 2 -> {nullif(args[1], args[2])}
          [] name = "typeof" /\ n = 1 -> {typeof_fn(args[1])}
          [] name = "hex" /\ n = 1 -> {hex(args[1])}
          [] name = "unhex" /\ n = 1 -> {unhex(args[1])}
          [] name = "quote" /\ n = 1 -> {quote(args[1])}
          [] name = "min" /\ n >= 1 -> {scalar_min(args)}
          [] name = "max" /\ n >= 1 -> {scalar_max(args)}
          [] name = "round" /\ n \in 1 .. 2 -> {round_fn(args)}
          [] name = "sign" /\ n = 1 -> {sign(args[1])}
          [] name = "instr" /\ n = 2 -> {instr(args[1], args[2])}
          [] name \in {"trim", "ltrim", "rtrim"} /\ n \in 1 .. 2 -> {trim_fn(name, args)}
          [] name = "replace" /\ n = 3 -> {replace_fn(args)}
          [] name = "zeroblob" /\ n = 1 -> {zeroblob(args[1])}
          [] name = "iif" /\ n = 3 -> {iif(args)}
          [] name = "like" /\ n \in 2 .. 3 -> {like_fn(args)}
          [] name = "glob" /\ n = 2 -> {glob_fn(args)}
          [] OTHER -> {}

-----------------------------------------------------------------------------
(* Aggregates.  An accumulator that was never stepped is NoState.  Totals  *)
(* are kept in halves once a REAL was seen, as Values keeps REALs; an      *)
(* integer total has the 128 bits of the code, so it is exact, and must    *)
(* fit IntBits when it is read.                                            *)

NoState == [kind |-> "none"]

\* NULL is skipped; a text or blob is the number it starts with.
numeric_arg(args) == IF args = <<>> \/ IsNull(args[1]) THEN {} ELSE {NumberIn(args[1])}

initial(name) ==
    CASE name = "count" -> [kind |-> "count", n |-> 0]
      [] name \in {"sum", "avg"} ->
            [kind |-> name, int |-> 0, real |-> 0, saw_real |-> FALSE, n |-> 0]
      [] OTHER -> [kind |-> name, best |-> {}]

\* Sum and Avg: integers add to int until the first REAL moves it to real.
StepTotal(st, v) ==
    IF v[1] = "real"
    THEN [st EXCEPT !.n = @ + 1, !.saw_real = TRUE, !.int = 0,
                    !.real = @ + v[2] + (IF st.saw_real THEN 0 ELSE 2 * st.int)]
    ELSE IF st.saw_real THEN [st EXCEPT !.n = @ + 1, !.real = @ + 2 * v[2]]
    ELSE [st EXCEPT !.n = @ + 1, !.int = @ + v[2]]

\* A new extreme replaces the old one only when it is strictly better.
StepBest(st, v, coll) ==
    LET better(c) == IF st.kind = "min" THEN c < 0 ELSE c > 0
    IN  IF IsNull(v) \/ \E b \in st.best : ~better(compare(v, b, coll)) THEN st
        ELSE [st EXCEPT !.best = {v}]

AggregateStep(name, state, args, coll) ==
    LET st == IF state.kind = "none" THEN initial(name) ELSE state
    IN  CASE st.kind = "count" ->
                IF args # <<>> /\ IsNull(args[1]) THEN st ELSE [st EXCEPT !.n = @ + 1]
          [] st.kind \in {"sum", "avg"} ->
                IF numeric_arg(args) = {} THEN st
                ELSE StepTotal(st, CHOOSE v \in numeric_arg(args) : TRUE)
          [] OTHER -> StepBest(st, args[1], coll)

\* The value of an accumulator; {} is the error of an integer sum that
\* does not fit.
finalize(name, st) ==
    CASE st.kind = "none" -> {IF name = "count" THEN VInt(0) ELSE VNull}
      [] st.kind = "count" -> {VInt(st.n)}
      [] st.kind \in {"sum", "avg"} /\ st.n = 0 -> {VNull}
      [] st.kind = "sum" ->
            IF st.saw_real THEN {VReal(st.real + 2 * st.int)}
            ELSE IF InRange(st.int) THEN {VInt(st.int)} ELSE {}
      [] st.kind = "avg" -> {VReal(TruncDiv(st.real + 2 * st.int, st.n))}
      [] OTHER -> IF st.best = {} THEN {VNull} ELSE st.best
=============================================================================
