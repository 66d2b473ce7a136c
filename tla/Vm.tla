--------------------------------- MODULE Vm ---------------------------------
(***************************************************************************)
(* The virtual machine's state (Vm and Execution of src/vdbe/exec.rs) and  *)
(* the opcodes that touch registers and control only: vdbe/control.rs,     *)
(* result.rs, arithmetic.rs and the comparisons, casts, functions and      *)
(* aggregate opcodes of exec.rs.  An opcode is an operator from the        *)
(* machine before it to the machine after it; stop is "" while the program *)
(* runs, "done" after Halt 0 and the name of an error otherwise.           *)
(*                                                                         *)
(* The database is [table, index, master, cookie]: root page -> rows in    *)
(* rowid order, root page -> entries in key order, sqlite_master, and the  *)
(* schema cookie; the b-trees below it are the subject of TableBtree and   *)
(* IndexBtree.                                                             *)
(***************************************************************************)
EXTENDS SqlFunctions, FiniteSets

NewVm(db, params) ==
    [pc |-> 0, reg |-> <<>>, cur |-> <<>>, heap |-> <<>>, agg |-> <<>>, once |-> {},
     rows |-> <<>>, db |-> db, saved |-> db, params |-> params, autocommit |-> TRUE, stop |-> ""]

\* An instruction; every program is a sequence of them, numbered from 0.
Op(op, p1, p2, p3, p4, p5) == [op |-> op, p1 |-> p1, p2 |-> p2, p3 |-> p3, p4 |-> p4, p5 |-> p5]
I(op, p1, p2, p3) == Op(op, p1, p2, p3, <<>>, 0)
I4(op, p1, p2, p3, p4) == Op(op, p1, p2, p3, p4, 0)

Advance(vm) == [vm EXCEPT !.pc = @ + 1]
Jump(vm, target) == [vm EXCEPT !.pc = target]
JumpIf(vm, cond, target) == IF cond THEN Jump(vm, target) ELSE Advance(vm)
Raise(vm, error) == [vm EXCEPT !.stop = error]

\* Registers and accumulators that were never written read as NULL and unset.
register(vm, r) == IF r \in DOMAIN vm.reg THEN vm.reg[r] ELSE VNull
set_register(vm, r, v) == [vm EXCEPT !.reg = (r :> v) @@ @]
read_register_range(vm, start, n) == [i \in 1 .. n |-> register(vm, start + i - 1)]
Put(vm, r, v) == Advance(set_register(vm, r, v))

agg_context(vm, slot) == IF slot \in DOMAIN vm.agg THEN vm.agg[slot] ELSE NoState
set_agg_context(vm, slot, st) == [vm EXCEPT !.agg = (slot :> st) @@ @]

-----------------------------------------------------------------------------
(* Control. *)

init(vm, i) == JumpIf(vm, i.p2 # 0, i.p2)

once(vm, i) ==
    IF vm.pc \in vm.once THEN Jump(vm, i.p2) ELSE Advance([vm EXCEPT !.once = @ \union {vm.pc}])

return(vm, i) ==
    LET v == register(vm, i.p1)
    IN  IF v[1] = "int" THEN Jump(vm, IF v[2] < 0 THEN 0 ELSE v[2]) ELSE Raise(vm, "TypeMismatch")

\* A successful end in autocommit mode flushes the pager.
halt(vm, i) ==
    IF i.p1 # 0 THEN Raise(vm, "Halted")
    ELSE [vm EXCEPT !.stop = "done", !.saved = IF vm.autocommit THEN vm.db ELSE @]

transaction(vm, i) ==
    IF ~vm.autocommit THEN Raise(vm, "TransactionAlreadyActive")
    ELSE Advance([vm EXCEPT !.autocommit = FALSE])

auto_commit(vm, i) ==
    CASE vm.autocommit ->
            Raise(vm, IF i.p2 = 1 THEN "NoActiveTransactionToCommit" ELSE "NoActiveTransactionToRollback")
      [] i.p2 = 1 -> Advance([vm EXCEPT !.saved = vm.db, !.autocommit = TRUE])
      [] OTHER -> Advance([vm EXCEPT !.db = vm.saved, !.autocommit = TRUE])

is_null(vm, i) == JumpIf(vm, IsNull(register(vm, i.p1)), i.p2)
not_null(vm, i) == JumpIf(vm, ~IsNull(register(vm, i.p1)), i.p2)

if_not(vm, i) ==
    LET v == register(vm, i.p1)
    IN  JumpIf(vm, IF IsNull(v) THEN i.p3 # 0 ELSE is_falsy(v), i.p2)

try_to_integer(v) ==
    CASE v[1] = "int" -> {v[2]}
      [] v[1] = "real" /\ v[2] % 2 = 0 /\ InRange(v[2] \div 2) -> {v[2] \div 2}
      [] v[1] = "text" -> {n[2] : n \in {m \in parse_well_formed_number(v[2]) : m[1] = "int"}}
      [] OTHER -> {}
must_be_int(vm, i) ==
    LET n == try_to_integer(register(vm, i.p1))
    IN  CASE n # {} -> Put(vm, i.p1, VInt(CHOOSE m \in n : TRUE))
          [] i.p2 # 0 -> Jump(vm, i.p2)
          [] OTHER -> Raise(vm, "MustBeInt")

\* The counters of LIMIT and OFFSET must be integers.
WithCounter(vm, r, f(_)) ==
    LET v == register(vm, r)
    IN  IF v[1] = "int" THEN f(v[2]) ELSE Raise(vm, "TypeMismatch")
offset_limit(vm, i) ==
    WithCounter(vm, i.p1, LAMBDA limit :
        WithCounter(vm, i.p3, LAMBDA offset :
            Put(vm, i.p2, VInt(IF limit > 0 THEN Saturate(limit + IF offset > 0 THEN offset ELSE 0)
                               ELSE -1))))
if_pos(vm, i) ==
    WithCounter(vm, i.p1, LAMBDA v :
        IF v > 0 THEN Jump(set_register(vm, i.p1, VInt(Saturate(v - i.p3))), i.p2) ELSE Advance(vm))
if_not_zero(vm, i) ==
    WithCounter(vm, i.p1, LAMBDA v :
        IF v = 0 THEN Advance(vm)
        ELSE Jump(IF v > 0 THEN set_register(vm, i.p1, VInt(v - 1)) ELSE vm, i.p2))
decr_jump_zero(vm, i) ==
    WithCounter(vm, i.p1, LAMBDA v :
        JumpIf(set_register(vm, i.p1, VInt(Saturate(v - 1))), v - 1 = 0, i.p2))

-----------------------------------------------------------------------------
(* Registers and results. *)

null(vm, i) ==
    LET last == IF i.p3 > i.p2 THEN i.p3 ELSE i.p2
    IN  Advance([vm EXCEPT !.reg = [r \in i.p2 .. last |-> VNull] @@ @])

\* A parameter that was not bound is NULL.
variable(vm, i) ==
    Put(vm, i.p2, IF i.p1 \in DOMAIN vm.params THEN vm.params[i.p1] ELSE VNull)

copy(vm, i) == Put(vm, i.p2, register(vm, i.p1))

\* P4 holds the affinities of the leading columns.
make_record(vm, i) ==
    LET value(k) == LET v == register(vm, i.p1 + k - 1)
                    IN  IF k <= Len(i.p4) THEN apply_affinity(v, i.p4[k]) ELSE v
    IN  Put(vm, i.p3, RecordOf([k \in 1 .. i.p2 |-> value(k)]))

\* The values move out of their registers, which are NULL afterwards.
result_row(vm, i) ==
    Advance([vm EXCEPT !.rows = Append(@, read_register_range(vm, i.p1, i.p2)),
                       !.reg = [r \in i.p1 .. i.p1 + i.p2 - 1 |-> VNull] @@ @])

-----------------------------------------------------------------------------
(* Comparison, arithmetic, functions and aggregates. *)

\* NULL on either side falls through.
compare_jump(vm, i, holds(_)) ==
    LET a == register(vm, i.p1)
        b == register(vm, i.p3)
        aff == IF DOMAIN i.p4 = {} THEN "BLOB" ELSE i.p4.affinity
        coll == IF DOMAIN i.p4 = {} THEN "BINARY" ELSE i.p4.collation
    IN  JumpIf(vm, /\ ~IsNull(a)
                   /\ ~IsNull(b)
                   /\ holds(compare(apply_affinity(a, aff), apply_affinity(b, aff), coll)), i.p2)

\* P3 receives P2 op P1 for the operators whose order matters.
binary_op(vm, i) ==
    LET a == register(vm, i.p1)
        b == register(vm, i.p2)
        value == CASE IsNull(a) \/ IsNull(b) -> VNull
                   [] i.op = "Add" -> checked_add(a, b)
                   [] i.op = "Subtract" -> checked_sub(b, a)
                   [] i.op = "Multiply" -> checked_mul(a, b)
                   [] i.op = "Divide" -> checked_div(b, a)
                   [] i.op = "Remainder" -> checked_rem(b, a)
                   [] i.op = "BitAnd" -> bit_and(a, b)
                   [] i.op = "BitOr" -> bit_or(a, b)
                   [] i.op = "ShiftLeft" -> shift_left(b, a)
                   [] i.op = "ShiftRight" -> shift_right(b, a)
                   [] i.op = "Concat" -> concat(b, a)
    IN  Put(vm, i.p3, value)

unary_op(vm, i) ==
    LET v == register(vm, i.p1)
    IN  Put(vm, i.p2, IF IsNull(v) THEN VNull
                      ELSE IF i.op = "Not" THEN Bool(is_falsy(v)) ELSE bit_not(v))

real_affinity(vm, i) == Put(vm, i.p1, apply_affinity(register(vm, i.p1), "REAL"))
cast(vm, i) == Put(vm, i.p1, cast_to(register(vm, i.p1), i.p2))

\* P4 is the function's name and arity.
function(vm, i) ==
    LET result == call(i.p4.name, read_register_range(vm, i.p2, i.p4.arity))
    IN  IF result = {} THEN Raise(vm, "FunctionError") ELSE Put(vm, i.p3, CHOOSE v \in result : TRUE)

\* P5 starts the accumulator anew.
agg_step(vm, i) ==
    LET current == IF i.p5 = 0 THEN agg_context(vm, i.p1) ELSE NoState
        args == read_register_range(vm, i.p2, i.p4.arity)
    IN  Advance(set_agg_context(vm, i.p1, AggregateStep(i.p4.name, current, args, i.p4.collation)))

agg_final(vm, i) ==
    LET result == finalize(i.p4.name, agg_context(vm, i.p1))
    IN  IF result = {} THEN Raise(vm, "IntegerOverflow")
        ELSE Put(set_agg_context(vm, i.p1, NoState), i.p3, CHOOSE v \in result : TRUE)
=============================================================================
