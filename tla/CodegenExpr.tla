----------------------------- MODULE CodegenExpr -----------------------------
(***************************************************************************)
(* The code generator's core and its expressions: Emitter, RegAlloc and    *)
(* Scope of src/codegen.rs, codegen/expr/cond.rs and codegen/expr/value.rs.*)
(* The emitter and the register allocator are one record em that every     *)
(* compile_* operator takes and returns; out is the register that holds    *)
(* the value just compiled, err the error that stops the compilation.      *)
(* Jump targets are labels, patched into P2 by finish.                     *)
(*                                                                         *)
(* Expressions are records with a kind k.  Parentheses, transparent in all *)
(* of this code, are left out, and a name is a string equal to itself up   *)
(* to letter case.  Subqueries are compiled by the operators that the      *)
(* module's two parameters stand for.                                      *)
(***************************************************************************)
EXTENDS Vdbe

\* compile_exists, compile_in_subquery and compile_in_subquery_multi; the
\* scalar subqueries (codegen/subquery).
CONSTANT compile_subquery_cond(_, _, _, _), compile_subquery_value(_, _, _)

Lit(v) == [k |-> "lit", v |-> v]
Param(n) == [k |-> "param", n |-> n]
Col(t, c) == [k |-> "col", t |-> t, c |-> c]
Un(op, e) == [k |-> "un", op |-> op, e |-> e]
Bin(op, l, r) == [k |-> "bin", op |-> op, l |-> l, r |-> r]
Fn(name, args) == [k |-> "fn", name |-> name, args |-> args, distinct |-> FALSE]
FnDistinct(name, args) == [k |-> "fn", name |-> name, args |-> args, distinct |-> TRUE]
Like(e, p, esc, name, neg) == [k |-> "like", e |-> e, p |-> p, esc |-> esc, name |-> name, neg |-> neg]
CastTo(e, aff) == [k |-> "cast", e |-> e, aff |-> aff]
Case(operand, whens, else) == [k |-> "case", operand |-> operand, whens |-> whens, else |-> else]
Is(l, r, neg) == [k |-> "is", l |-> l, r |-> r, neg |-> neg]
IsNullE(e, neg) == [k |-> "isnull", e |-> e, neg |-> neg]
Between(e, lo, hi, neg) == [k |-> "between", e |-> e, lo |-> lo, hi |-> hi, neg |-> neg]
In(e, list, neg) == [k |-> "in", e |-> e, list |-> list, neg |-> neg]
Collate(e, coll) == [k |-> "collate", e |-> e, coll |-> coll]
Exists(q, neg) == [k |-> "exists", q |-> q, neg |-> neg]
InSub(es, q, neg) == [k |-> "insub", es |-> es, q |-> q, neg |-> neg]
Sub(q) == [k |-> "sub", q |-> q]

\* The expressions directly under e, those of subqueries left out.
Operands(e) ==
    CASE e.k \in {"un", "isnull", "cast", "collate"} -> <<e.e>>
      [] e.k \in {"bin", "is"} -> <<e.l, e.r>>
      [] e.k = "fn" -> e.args
      [] e.k = "between" -> <<e.e, e.lo, e.hi>>
      [] e.k = "in" -> <<e.e>> \o e.list
      [] e.k = "like" -> <<e.e, e.p>> \o e.esc
      [] e.k = "case" -> e.operand \o FlattenSeq(e.whens) \o e.else
      [] e.k = "insub" -> e.es
      [] OTHER -> <<>>

Comparisons == {"=", "<>", "<", "<=", ">", ">="}
Arithmetic == {"+", "-", "*", "/", "%"}
Bits == {"&", "|", "<<", ">>", "||"}

-----------------------------------------------------------------------------
(* Emitter and RegAlloc. *)

NewEmitter ==
    [code |-> <<>>, labels |-> <<>>, patches |-> <<>>, nlabel |-> 0, nreg |-> 0, nparam |-> 0,
     ncursor |-> 1000, ctes |-> <<>>, out |-> 0, err |-> ""]
Fail(em, error) == IF em.err = "" THEN [em EXCEPT !.err = error] ELSE em

here(em) == Len(em.code)
Emit(em, i) == [em EXCEPT !.code = Append(@, i)]
place(em, l) == [em EXCEPT !.labels = (l :> here(em)) @@ @]
new_label(em) == [em EXCEPT !.nlabel = @ + 1]
new_labels(em, n) == [em EXCEPT !.nlabel = @ + n]
EmitTo(em, i, l) == [Emit(em, i) EXCEPT !.patches = (here(em) :> l) @@ @]
JumpTo(em, l) == EmitTo(em, I("Goto", 0, 0, 0), l)

\* Code written as assembly: instructions, jumps J to a label and labels At.
J4(op, p1, l, p3, p4) == [jump |-> I4(op, p1, 0, p3, p4), label |-> l]
J(op, p1, l, p3) == J4(op, p1, l, p3, <<>>)
Goto(l) == J("Goto", 0, l, 0)
At(l) == [label |-> l]
Asm(em, items) ==
    LET instrs == SelectSeq(items, LAMBDA x : DOMAIN x # {"label"})
        jumps == {k \in DOMAIN instrs : "jump" \in DOMAIN instrs[k]}
        before(l) == Cardinality({k \in DOMAIN items : DOMAIN items[k] # {"label"} /\ \E j \in DOMAIN items :
                                                            k < j /\ items[j] = At(l)})
        placed == {items[k].label : k \in {j \in DOMAIN items : DOMAIN items[j] = {"label"}}}
    IN  [em EXCEPT !.code = @ \o [k \in DOMAIN instrs |-> IF k \in jumps THEN instrs[k].jump ELSE instrs[k]],
                   !.patches = [a \in {here(em) + k - 1 : k \in jumps} |-> instrs[a - here(em) + 1].label] @@ @,
                   !.labels = [l \in placed |-> here(em) + before(l)] @@ @]
\* The same sequence as a tuple: TLC evaluates each member once.
Listed(s) == s \o <<>>
\* The last of the emitters that an operator goes through, and a fold that
\* goes through one for every member of a sequence, by halves.
InOrder(ems) == ems[Len(ems)]
Through(step(_, _), em, seq) ==
    LET RECURSIVE part(_, _, _)
        part(m, a, b) == LET mid == (a + b) \div 2
                             left == part(m, a, mid)
                         IN  IF a = b THEN step(m, seq[a]) ELSE InOrder(<<left, part(left, mid + 1, b)>>)
    IN  IF seq = <<>> THEN em ELSE part(em, 1, Len(seq))
Const(n, r) == I4("Literal", 0, r, 0, VInt(n))

\* The program, with every patched jump resolved.
finish(em) ==
    [a \in DOMAIN em.code |->
        IF a - 1 \in DOMAIN em.patches THEN [em.code[a] EXCEPT !.p2 = em.labels[em.patches[a - 1]]]
        ELSE em.code[a]]

\* alloc: the register is em.nreg before and em.out after.
alloc(em) == [em EXCEPT !.nreg = @ + 1, !.out = em.nreg]
alloc_n(em, n) == [em EXCEPT !.nreg = @ + n]
alloc_cursor(em) == [em EXCEPT !.ncursor = @ + 1]
Integer(em, n, r) == Emit(em, Const(n, r))

-----------------------------------------------------------------------------
(* Conditions jump to targets: <<>> falls through, <<l>> jumps to l. *)

Fallthrough == <<>>
null_is_false(t, f) == [on_true |-> t, on_false |-> f, on_null |-> FALSE]
null_is_true(t, f) == [on_true |-> t, on_false |-> f, on_null |-> TRUE]
negate(t) == [on_true |-> t.on_false, on_false |-> t.on_true, on_null |-> ~t.on_null]

\* ensure_label: the label of a target, a new one when it falls through; a
\* new label is placed where the condition ends.
LabelOf(em, target) == IF target = Fallthrough THEN em.nlabel ELSE target[1]
ensure_label(em, target) == IF target = Fallthrough THEN new_label(em) ELSE em
PlaceNew(em, target, l) == IF target = Fallthrough THEN place(em, l) ELSE em

finish_bool(em, t, f, emit_false_jump(_, _)) ==
    LET l == LabelOf(em, f)
        em1 == emit_false_jump(ensure_label(em, f), l)
        em2 == IF t = Fallthrough THEN em1 ELSE JumpTo(em1, t[1])
    IN  PlaceNew(em2, f, l)

\* IfNot with P3 jumps on NULL too.
finish_truthy(em, r, t) ==
    LET l == LabelOf(em, t.on_true)
        em1 == EmitTo(ensure_label(em, t.on_true), I("IsNull", r, 0, 0), l)
        em2 == finish_bool(em1, <<l>>, t.on_false, LAMBDA e, f : EmitTo(e, I("IfNot", r, 0, 0), f))
    IN  IF t.on_null THEN PlaceNew(em2, t.on_true, l)
        ELSE finish_bool(em, t.on_true, t.on_false, LAMBDA e, f : EmitTo(e, I("IfNot", r, 0, 1), f))

CompareOp == [c \in Comparisons |->
    CASE c \in {"=", "<>"} -> "Eq" [] c = "<" -> "Lt" [] c = "<=" -> "Le" [] c = ">" -> "Gt" [] c = ">=" -> "Ge"]

\* <> is = with the targets, NULL's included, the other way round.
emit_compare_false_jump(em, op, lhs, rhs, p4, targets) ==
    LET t == IF op = "<>" THEN negate(targets) ELSE targets
        l == LabelOf(em, t.on_true)
        nulls == IF t.on_null THEN <<J("IsNull", lhs, l, 0), J("IsNull", rhs, l, 0)>> ELSE <<>>
        otherwise == IF t.on_false = Fallthrough THEN <<>> ELSE <<Goto(t.on_false[1])>>
        em1 == Asm(ensure_label(em, t.on_true), nulls \o <<J4(CompareOp[op], lhs, l, rhs, p4)>> \o otherwise)
    IN  PlaceNew(em1, t.on_true, l)

-----------------------------------------------------------------------------
(* Scopes.  A table binding is [alias, schema, cursor, forced_null, stats],*)
(* alias the name it is known by; outer is the enclosing scope or empty.   *)

column_index(schema, c) ==
    LET at == {k \in DOMAIN schema.columns : schema.columns[k] = c}
    IN  IF at = {} THEN -1 ELSE (CHOOSE k \in at : \A j \in at : k <= j) - 1

\* The binding that has the column: the first of that name, or the only one
\* with such a column; 0 when there is none or more than one.
resolve_own_binding_index(scope, t, c) ==
    LET named == {k \in DOMAIN scope.tables : scope.tables[k].alias = t}
        has == {k \in DOMAIN scope.tables : column_index(scope.tables[k].schema, c) >= 0}
        first == CHOOSE k \in named : \A j \in named : k <= j
    IN  CASE t # "" /\ named # {} -> IF first \in has THEN first ELSE 0
          [] t = "" /\ Cardinality(has) = 1 -> CHOOSE k \in has : TRUE
          [] OTHER -> 0

\* <<binding, column index>>, or <<>>; an inner scope shadows the outer ones.
RECURSIVE resolve(_, _, _)
resolve(scope, t, c) ==
    LET n == resolve_own_binding_index(scope, t, c)
    IN  CASE n # 0 -> <<scope.tables[n], column_index(scope.tables[n].schema, c)>>
          [] n = 0 /\ scope.outer # <<>> -> resolve(scope.outer[1], t, c)
          [] OTHER -> <<>>

\* Scope::single: one table, under its own name and without statistics.
single(schema, cursor) ==
    [tables |-> <<[alias |-> schema.name, schema |-> schema, cursor |-> cursor, forced_null |-> FALSE,
                   stats |-> NoStats]>>,
     outer |-> <<>>, hoisted |-> <<>>, memoized |-> <<>>, dedup_star |-> <<{}>>]

\* The entry for column idx; the schema of a derived table has none.
EntryOf(seq, idx, default) == IF idx + 1 \in DOMAIN seq THEN seq[idx + 1] ELSE default
expr_affinity(scope, e) ==
    LET at == resolve(scope, e.t, e.c)
    IN  CASE e.k = "col" -> IF at = <<>> THEN "none" ELSE EntryOf(at[1].schema.types, at[2], "none")
          [] e.k = "cast" -> e.aff
          [] OTHER -> "none"
collation_of(e) == IF e.k = "collate" THEN e.coll ELSE "none"
expr_collation(scope, e) ==
    LET at == resolve(scope, e.t, e.c)
    IN  CASE e.k = "collate" -> e.coll
          [] e.k = "col" /\ at # <<>> -> EntryOf(at[1].schema.collations, at[2], "none")
          [] OTHER -> "none"

\* What a comparison of l and r goes by: an explicit collation before a
\* column's, the left before the right.
ComparisonP4(scope, l, r) ==
    LET colls == SelectSeq(<<collation_of(l), collation_of(r), expr_collation(scope, l),
                             expr_collation(scope, r)>>, LAMBDA c : c # "none")
    IN  [collation |-> IF colls = <<>> THEN "BINARY" ELSE colls[1],
         affinity |-> comparison_affinity(expr_affinity(scope, l), expr_affinity(scope, r))]

-----------------------------------------------------------------------------
(* Conditions and values. *)

\* AND and OR evaluate the cheaper operand first.
RECURSIVE cost_class(_)
cost_class(e) ==
    LET Larger(a, b) == IF a > b THEN a ELSE b
    IN  CASE e.k \in {"lit", "param", "col"} -> 0
          [] e.k = "un" -> Larger(cost_class(e.e), 1)
          [] e.k = "bin" -> Larger(Larger(cost_class(e.l), cost_class(e.r)),
                                   IF e.op \in {"AND", "OR"} THEN 0 ELSE 1)
          [] e.k = "fn" -> 2
          [] e.k \in {"sub", "exists", "insub"} -> 3
          [] OTHER -> 1
CheaperFirst(l, r) == IF cost_class(r) < cost_class(l) THEN <<r, l>> ELSE <<l, r>>

is_aggregate_call(e) ==
    /\ e.k = "fn"
    /\ \/ e.name \in {"avg", "count", "group_concat", "string_agg", "sum", "total"}
       \/ e.name \in {"max", "min"} /\ Len(e.args) <= 1

emit_column_read(em, schema, cursor, idx, dest) ==
    IF schema.rowid_alias = idx THEN Emit(em, I("Rowid", cursor, dest, 0))
    ELSE LET em1 == Emit(em, I("Column", cursor, idx, dest))
         IN  IF EntryOf(schema.types, idx, "BLOB") = "REAL" THEN Emit(em1, I("RealAffinity", dest, 0, 0)) ELSE em1

\* The column into a register, NULL when the outer join gave it no row.
ColumnInto(em, scope, e, dest) ==
    LET at == resolve(scope, e.t, e.c)
    IN  CASE at = <<>> -> Fail(em, "UnknownColumn")
          [] at # <<>> /\ at[1].forced_null -> Emit(em, I("Null", 0, dest, 0))
          [] OTHER -> emit_column_read(em, at[1].schema, at[1].cursor, at[2], dest)

is_definite(e) == e.k \in {"is", "isnull", "exists"}

\* The operator and the operand order of a binary opcode.
BinaryOpcode == [o \in Arithmetic \union Bits |->
    CASE o = "+" -> "Add" [] o = "-" -> "Subtract" [] o = "*" -> "Multiply" [] o = "/" -> "Divide"
      [] o = "%" -> "Remainder" [] o = "&" -> "BitAnd" [] o = "|" -> "BitOr" [] o = "<<" -> "ShiftLeft"
      [] o = ">>" -> "ShiftRight" [] o = "||" -> "Concat"]
Swapped == {"-", "/", "%", "<<", ">>", "||"}

RECURSIVE compile_cond(_, _, _, _), compile_value(_, _, _), CompileArgs(_, _, _, _)
RECURSIVE CompileWhens(_, _, _, _, _, _)

\* The arguments in turn; regs collects their registers.
CompileArgs(em, scope, args, regs) ==
    IF args = <<>> THEN <<em, regs>>
    ELSE LET em1 == compile_value(em, scope, Head(args))
         IN  CompileArgs(em1, scope, Tail(args), Append(regs, em1.out))

\* Copies into consecutive registers, unless they already are.
Contiguous(regs) == \A k \in DOMAIN regs : regs[k] = regs[1] + k - 1
CopyAll(em, regs, dest) ==
    Through(LAMBDA e, k : Emit(e, I("Copy", regs[k], dest + k - 1, 0)), em, [k \in DOMAIN regs |-> k])
compile_call(em, scope, name, args) ==
    LET compiled == CompileArgs(em, scope, args, <<>>)
        em1 == compiled[1]
        regs == compiled[2]
        moved == CopyAll(alloc_n(em1, Len(regs)), regs, em1.nreg)
        em2 == IF regs = <<>> THEN alloc(em1) ELSE IF Contiguous(regs) THEN em1 ELSE moved
        first == IF regs = <<>> \/ ~Contiguous(regs) THEN em1.nreg ELSE regs[1]
        em3 == alloc(em2)
    IN  Emit(em3, I4("Function", 0, first, em3.out, [name |-> name, arity |-> Len(args)]))

\* Pattern, text and escape must land in consecutive registers.
compile_like(em, scope, e) ==
    LET compiled == CompileArgs(em, scope, <<e.p, e.e>> \o e.esc, <<>>)
        regs == compiled[2]
        em1 == alloc(compiled[1])
        arity == IF e.name = "glob" THEN 2 ELSE Len(regs)
        em2 == Emit(em1, I4("Function", 0, regs[1], em1.out, [name |-> e.name, arity |-> arity]))
        em3 == alloc(em2)
    IN  CASE ~Contiguous(regs) -> Fail(em2, "Unsupported")
          [] Contiguous(regs) /\ e.neg -> Emit(em3, I("Not", em2.out, em3.out, 0))
          [] OTHER -> em2

\* A 0, 1 or NULL in a register: the condition once for true or not, and when
\* it can be NULL once more for NULL or false.
compile_bool_to_value(em, scope, e) ==
    LET dest == em.nreg
        yes == em.nlabel
        end == em.nlabel + 1
        unknown == em.nlabel + 2
        no == em.nlabel + 3
        em1 == new_labels(alloc(em), IF is_definite(e) THEN 2 ELSE 4)
        em2 == compile_cond(em1, scope, e, null_is_false(<<yes>>, Fallthrough))
        em3 == compile_cond(em2, scope, e, null_is_true(<<unknown>>, <<no>>))
        em4 == IF is_definite(e) THEN Asm(em2, <<Const(0, dest), Goto(end)>>)
               ELSE InOrder(<<em1, em2, em3, Asm(em3,
                        <<At(no), Const(0, dest), Goto(end), At(unknown), I("Null", 0, dest, 0), Goto(end)>>)>>)
        em5 == Asm(em4, <<At(yes), Const(1, dest), At(end)>>)
    IN  [em5 EXCEPT !.out = dest]

\* A CASE branch straight into the result register.
emit_branch_into(em, scope, e, dest) ==
    CASE e.k = "lit" /\ IsNull(e.v) -> Emit(em, I("Null", 0, dest, 0))
      [] e.k = "lit" /\ ~IsNull(e.v) -> Emit(em, I4("Literal", 0, dest, 0, e.v))
      [] e.k = "col" -> ColumnInto(em, scope, e, dest)
      [] OTHER -> LET em1 == compile_value(em, scope, e) IN Emit(em1, I("Copy", em1.out, dest, 0))

CompileWhens(em, scope, operand, whens, dest, end) ==
    IF whens = <<>> THEN em
    ELSE LET w == Head(whens)
             skip == em.nlabel
             cond == IF operand = <<>> THEN w[1] ELSE Bin("=", operand[1], w[1])
             em1 == compile_cond(new_label(em), scope, cond, null_is_false(Fallthrough, <<skip>>))
             em2 == place(JumpTo(emit_branch_into(em1, scope, w[2], dest), end), skip)
         IN  CompileWhens(em2, scope, operand, Tail(whens), dest, end)
compile_case(em, scope, e) ==
    LET dest == em.nreg
        end == em.nlabel
        em1 == CompileWhens(new_label(alloc(em)), scope, e.operand, e.whens, dest, end)
        em2 == IF e.else = <<>> THEN Emit(em1, I("Null", 0, dest, 0))
               ELSE emit_branch_into(em1, scope, e.else[1], dest)
    IN  [place(em2, end) EXCEPT !.out = dest]

\* Minus is a subtraction from 0.
compile_unary(em, scope, e) ==
    LET em1 == compile_value(em, scope, e.e)
        em2 == alloc(em1)
        em3 == alloc(Integer(em2, 0, em2.out))
    IN  CASE e.op = "+" -> em1
          [] e.op = "-" -> Emit(em3, I("Subtract", em1.out, em2.out, em3.out))
          [] OTHER -> Emit(em2, I(IF e.op = "NOT" THEN "Not" ELSE "BitNot", em1.out, em2.out, 0))
compile_binary(em, scope, e) ==
    LET em1 == compile_value(em, scope, e.l)
        em2 == compile_value(em1, scope, e.r)
        em3 == alloc(em2)
        a == IF e.op \in Swapped THEN em2.out ELSE em1.out
        b == IF e.op \in Swapped THEN em1.out ELSE em2.out
    IN  Emit(em3, I(BinaryOpcode[e.op], a, b, em3.out))

compile_value(em, scope, e) ==
    LET em0 == alloc(em)
    IN  CASE e.k = "collate" -> compile_value(em, scope, e.e)
          [] e.k = "lit" -> IF IsNull(e.v) THEN em0 ELSE Emit(em0, I4("Literal", 0, em0.out, 0, e.v))
          [] e.k = "param" ->
                LET n == IF e.n = 0 THEN em.nparam + 1 ELSE e.n
                IN  Emit([em0 EXCEPT !.nparam = IF n > @ THEN n ELSE @], I("Variable", n, em0.out, 0))
          [] e.k = "col" -> ColumnInto(em0, scope, e, em0.out)
          [] is_aggregate_call(e) -> Fail(em0, "Unsupported")
          [] e.k = "fn" -> compile_call(em, scope, e.name, e.args)
          [] e.k = "like" -> compile_like(em, scope, e)
          [] e.k = "un" -> compile_unary(em, scope, e)
          [] e.k = "bin" /\ e.op \in Arithmetic \union Bits -> compile_binary(em, scope, e)
          [] e.k = "cast" -> LET em1 == compile_value(em, scope, e.e)
                             IN  Emit(em1, I("Cast", em1.out, e.aff, 0))
          [] e.k = "case" -> compile_case(em, scope, e)
          [] e.k = "sub" -> compile_subquery_value(em, scope, e)
          [] OTHER -> compile_bool_to_value(em, scope, e)

\* IN (list): found, NULL when an item was, or unmatched.
CompileInItem(em, scope, e, item, l, saw_null, found_label) ==
    LET m == compile_value(em, scope, item)
        item_null == m.nlabel
        skip == m.nlabel + 1
    IN  Asm(new_labels(m, 2), <<J("IsNull", m.out, item_null, 0),
                                J4("Eq", l, found_label, m.out, ComparisonP4(scope, e, item)), Goto(skip),
                                At(item_null), Const(1, saw_null), At(skip)>>)
compile_in(em, scope, e, t) ==
    LET m1 == compile_value(em, scope, e.e)
        saw_null == m1.nreg
        m2 == Integer(alloc(m1), 0, saw_null)
        yes == LabelOf(m2, t.on_true)
        m3 == ensure_label(m2, t.on_true)
        no == LabelOf(m3, t.on_false)
        null_label == IF t.on_null THEN yes ELSE no
        m4 == Asm(ensure_label(m3, t.on_false), <<J("IsNull", m1.out, null_label, 0)>>)
        item(m, x) == CompileInItem(m, scope, e.e, x, m1.out, saw_null, IF e.neg THEN no ELSE yes)
        m5 == Through(item, m4, e.list)
        m6 == Asm(m5, <<J("IfNot", saw_null, IF e.neg THEN yes ELSE no, 0), Goto(null_label)>>)
        empty == IF e.neg THEN t.on_true ELSE t.on_false
    IN  IF e.list = <<>> THEN IF empty = Fallthrough THEN em ELSE JumpTo(em, empty[1])
        ELSE PlaceNew(InOrder(<<m1, m2, m3, m4, m5, m6, PlaceNew(m6, t.on_false, no)>>), t.on_true, yes)

\* IS never is NULL: 1 when both are NULL, or neither is and they are equal.
compile_is(em, scope, e, t) ==
    LET em1 == compile_value(em, scope, e.l)
        em2 == compile_value(em1, scope, e.r)
        em3 == new_labels(alloc(em2), 4)
        both_null == em2.nlabel
        done == em2.nlabel + 1
        eq_true == em2.nlabel + 2
        r_null == em2.nlabel + 3
        em4 == Asm(em3, <<J("IsNull", em1.out, both_null, 0), J("Eq", em1.out, eq_true, em2.out), Const(0, em3.out),
                          Goto(done), At(eq_true), Const(1, em3.out), Goto(done), At(both_null),
                          J("IsNull", em2.out, r_null, 0), Const(0, em3.out), Goto(done), At(r_null),
                          Const(1, em3.out), At(done)>>)
        yes == IF e.neg THEN t.on_false ELSE t.on_true
        no == IF e.neg THEN t.on_true ELSE t.on_false
    IN  InOrder(<<em1, em2, em4, finish_bool(em4, yes, no, LAMBDA m, f :
                                    EmitTo(m, I("IfNot", em3.out, 0, 1), f))>>)

\* Two conditions of which the first decides with the given outcome.
CompileBoth(em, scope, first, second, t, decides) ==
    LET target == IF decides THEN t.on_true ELSE t.on_false
        l == LabelOf(em, target)
        operand == IF decides THEN [t EXCEPT !.on_true = <<l>>] ELSE [t EXCEPT !.on_false = <<l>>]
        through == IF decides THEN [operand EXCEPT !.on_false = Fallthrough]
                   ELSE [operand EXCEPT !.on_true = Fallthrough]
        em1 == compile_cond(ensure_label(em, target), scope, first, through)
    IN  PlaceNew(InOrder(<<em, em1, compile_cond(em1, scope, second, operand)>>), target, l)

compile_is_null(em, scope, e, t) ==
    LET em1 == compile_value(em, scope, e.e)
    IN  finish_bool(em1, t.on_true, t.on_false, LAMBDA m, f :
            EmitTo(m, I(IF e.neg THEN "IsNull" ELSE "NotNull", em1.out, 0, 0), f))

compile_between(em, scope, e, t) ==
    IF e.neg THEN CompileBoth(em, scope, Bin("<", e.e, e.lo), Bin(">", e.e, e.hi), t, TRUE)
    ELSE CompileBoth(em, scope, Bin(">=", e.e, e.lo), Bin("<=", e.e, e.hi), t, FALSE)

compile_cond(em, scope, e, t) ==
    CASE e.k = "un" /\ e.op = "NOT" -> compile_cond(em, scope, e.e, negate(t))
      [] e.k = "bin" /\ e.op \in {"AND", "OR"} ->
            LET o == CheaperFirst(e.l, e.r) IN CompileBoth(em, scope, o[1], o[2], t, e.op = "OR")
      [] e.k = "bin" /\ e.op \in Comparisons ->
            LET em1 == compile_value(em, scope, e.l)
                em2 == compile_value(em1, scope, e.r)
                p4 == ComparisonP4(scope, e.l, e.r)
            IN  InOrder(<<em, em1, em2, emit_compare_false_jump(em2, e.op, em1.out, em2.out, p4, t)>>)
      [] e.k = "is" -> compile_is(em, scope, e, t)
      [] e.k = "isnull" -> compile_is_null(em, scope, e, t)
      [] e.k = "between" -> compile_between(em, scope, e, t)
      [] e.k = "in" -> compile_in(em, scope, e, t)
      [] e.k \in {"exists", "insub"} -> compile_subquery_cond(em, scope, e, t)
      [] OTHER -> LET em1 == compile_value(em, scope, e) IN finish_truthy(em1, em1.out, t)
=============================================================================
