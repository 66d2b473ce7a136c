----------------------------- MODULE CodegenJoin -----------------------------
(***************************************************************************)
(* Joins (codegen/select/joins.rs, joins/level.rs, join_order.rs,          *)
(* join_access.rs, join_full.rs and aggregate/join.rs): the order of the   *)
(* tables, the level at which each constraint is checked, the nested loops *)
(* with their NULL-extended rows, and what becomes of a joined row.        *)
(*                                                                         *)
(* A join is [op, table, on, using, natural].  Tables keep two numbers:    *)
(* their place in FROM and their level, the place in the nesting.          *)
(***************************************************************************)
EXTENDS CodegenSubquery

\* materialize_from_subquery(em, select, cursor) of codegen/subquery.
CONSTANT materialize_from(_, _, _)

Join(op, table, on) == [op |-> op, table |-> table, on |-> on, using |-> <<>>, natural |-> FALSE]
table_refs(from) == <<from.first>> \o [k \in DOMAIN from.joins |-> from.joins[k].table]
table_binding_name(ref) == IF ref.alias # "" \/ ref.k = "select" THEN ref.alias ELSE ref.name

-----------------------------------------------------------------------------
(* Constraints: ON, USING and NATURAL. *)

\* The conjunction of left.c = right.c over the names that both sides have.
synthesize_equality_constraint(left, right, names) ==
    LET shared == SelectSeq(names, LAMBDA c : \E k \in DOMAIN left : column_index(left[k].schema, c) >= 0)
        holder(c) == left[SelectInSeq(left, LAMBDA b : column_index(b.schema, c) >= 0)]
        eqs == [k \in DOMAIN shared |-> Bin("=", Col(holder(shared[k]).alias, shared[k]), Col(right.alias, shared[k]))]
    IN  IF eqs = <<>> THEN <<>>
        ELSE <<Through(LAMBDA acc, e : Bin("AND", acc, e), eqs[1], Tail(eqs))>>
\* <<error, constraint, columns that a star shows once>>
resolve_join_constraint(join, left, right) ==
    LET common == SelectSeq(right.schema.columns, LAMBDA c : \E k \in DOMAIN left : column_index(left[k].schema, c) >= 0)
        unknown(c) == \/ column_index(right.schema, c) < 0
                      \/ \A k \in DOMAIN left : column_index(left[k].schema, c) < 0
        suppressed(names) == {names[k] : k \in DOMAIN names}
    IN  CASE join.on # <<>> -> <<"", join.on, {}>>
          [] join.on = <<>> /\ join.using # <<>> ->
                IF \E k \in DOMAIN join.using : unknown(join.using[k]) THEN <<"UnknownColumn", <<>>, {}>>
                ELSE <<"", synthesize_equality_constraint(left, right, join.using), suppressed(join.using)>>
          [] join.on = <<>> /\ join.using = <<>> /\ join.natural ->
                <<"", synthesize_equality_constraint(left, right, common), suppressed(common)>>
          [] OTHER -> <<"", <<>>, {}>>

-----------------------------------------------------------------------------
(* The order of the tables (planner statistics). *)

is_reorderable_inner_chain(from) == \A k \in DOMAIN from.joins : from.joins[k].op \in {"inner", "cross"}
is_seekable_equality(schema, on) ==
    LET o == top_level_equality_operands(on)
        side(e) == /\ e.k = "col"
                   /\ column_index(schema, e.c) >= 0
                   /\ \/ is_rowid_reference(schema, e)
                      \/ \E k \in DOMAIN schema.indexes :
                            /\ schema.indexes[k].unique
                            /\ Len(schema.indexes[k].columns) = 1
                            /\ schema.indexes[k].columns[1].name = e.c
    IN  o # <<>> /\ (side(o[1]) \/ side(o[2]))
\* A table that its constraint can seek comes last, as one of unknown size.
scan_costs(bindings, constraints) ==
    [k \in DOMAIN bindings |->
        IF k > 1 /\ constraints[k - 1] # <<>> /\ is_seekable_equality(bindings[k].schema, constraints[k - 1][1])
        THEN UNKNOWN ELSE estimate_scan_cost(bindings[k].stats)]
\* Cheapest first, the order of FROM among equals.
plan_join_order(costs) ==
    LET rank(k) == Cardinality({j \in DOMAIN costs : costs[j] < costs[k] \/ (costs[j] = costs[k] /\ j <= k)})
    IN  [p \in DOMAIN costs |-> CHOOSE k \in DOMAIN costs : rank(k) = p]
RECURSIVE referenced_binding_indices(_, _)
referenced_binding_indices(e, bindings) ==
    CASE e.k = "col" -> {k \in DOMAIN bindings : IF e.t # "" THEN bindings[k].alias = e.t
                                                  ELSE column_index(bindings[k].schema, e.c) >= 0}
      [] e.k \in {"sub", "exists", "insub"} -> DOMAIN bindings
      [] OTHER -> UNION {referenced_binding_indices(Operands(e)[k], bindings) : k \in DOMAIN Operands(e)}

\* A RIGHT JOIN puts its table outermost.
WorkingOrder(from, bindings, constraints) ==
    IF is_reorderable_inner_chain(from) THEN plan_join_order(scan_costs(bindings, constraints))
    ELSE Through(LAMBDA order, k : IF from.joins[k].op = "right" THEN <<k + 1>> \o order ELSE Append(order, k + 1),
                  <<1>>, [k \in DOMAIN from.joins |-> k])
Inverted(order) == [k \in DOMAIN order |-> SelectInSeq(order, LAMBDA x : x = k)]

\* What is checked at each level, and the levels that become NULL when no
\* row passes: those of a LEFT JOIN's table, or all tables before a RIGHT JOIN.
NoChecks == [checks |-> <<>>, null_span |-> <<>>]
LevelPlans(from, bindings, constraints, order, pos) ==
    LET right == SelectInSeq(from.joins, LAMBDA x : x.op = "right")
        latest(set) == CHOOSE p \in set : \A q \in set : q <= p
        level(k) == IF is_reorderable_inner_chain(from) /\ constraints[k] # <<>>
                    THEN latest({pos[i] : i \in {k + 1} \union referenced_binding_indices(constraints[k][1], bindings)})
                    ELSE pos[k + 1]
        check(k, sets) == [constraint |-> constraints[k], sets_matched |-> sets]
        left(k) == from.joins[k].op = "left"
        step(plans, k) ==
            IF k = right THEN plans
            ELSE [plans EXCEPT ![level(k)] =
                    [checks |-> Append(@.checks, check(k, IF left(k) THEN level(k) ELSE 0)),
                     null_span |-> IF left(k) THEN <<level(k), level(k)>> ELSE @.null_span]]
        normal == Through(step, Listed([p \in DOMAIN order |-> NoChecks]), [k \in DOMAIN from.joins |-> k])
        deep == pos[right]
        owner == pos[right + 1] + 1
        checked == [normal EXCEPT ![deep].checks = Append(@, check(right, owner))]
    IN  IF right = 0 THEN normal ELSE [checked EXCEPT ![owner].null_span = <<owner, deep>>]

-----------------------------------------------------------------------------
(* Rows of a join. *)

\* The columns of the result: <<table, column index>> or an expression.
JoinedColumns(select, scope) ==
    LET of(k, unique) ==
            LET b == scope.tables[k]
                shown == SelectSeq([j \in DOMAIN b.schema.columns |-> j],
                                   LAMBDA j : ~unique \/ b.schema.columns[j] \notin scope.dedup_star[k])
            IN  [j \in DOMAIN shown |-> [k |-> "column", table |-> k, idx |-> shown[j] - 1]]
        named(t) == SelectInSeq(scope.tables, LAMBDA b : b.alias = t)
        each(c) == CASE c.k = "star" -> FlattenSeq([k \in DOMAIN scope.tables |-> of(k, TRUE)])
                     [] c.k = "tablestar" -> IF named(c.t) = 0 THEN <<[k |-> "unknown"]>> ELSE of(named(c.t), FALSE)
                     [] OTHER -> <<c>>
    IN  FlattenSeq([k \in DOMAIN select.columns |-> each(select.columns[k])])

emit_join_column(em, binding, idx) ==
    LET m == alloc(em)
    IN  IF binding.forced_null THEN Emit(m, I("Null", 0, m.out, 0))
        ELSE emit_column_read(m, binding.schema, binding.cursor, idx, m.out)

\* <<emitter, first register, number of columns>>
RowRegisters(em, regs) ==
    CASE regs = <<>> -> <<alloc(em), em.nreg, 0>>
      [] regs # <<>> /\ Contiguous(regs) -> <<em, regs[1], Len(regs)>>
      [] OTHER -> <<Fail(em, "Unsupported"), 0, 0>>
JoinRow(em, select, scope) ==
    LET compiled(m, c) == CASE c.k = "column" -> emit_join_column(m, scope.tables[c.table], c.idx)
                            [] c.k = "unknown" -> Fail(m, "UnknownColumn")
                            [] OTHER -> compile_value(m, scope, c.e)
        step(acc, c) == LET m == compiled(acc[1], c) IN <<m, Append(acc[2], m.out)>>
        done == Through(step, <<em, <<>>>>, JoinedColumns(select, scope))
    IN  RowRegisters(done[1], done[2])
emit_join_row(em, select, scope, sink) ==
    LET row == JoinRow(em, select, scope) IN EmitSink(row[1], sink, row[2], row[3])
emit_join_distinct_guard(em, select, scope, cursor, skip) ==
    LET row == JoinRow(em, select, scope) IN emit_dedup_check(row[1], cursor, row[2], Binary(row[3]), skip)
emit_join_final_row(em, select, scope, leaf) ==
    LET skip == em.nlabel
        m1 == Filter(new_label(em), scope, select.where, skip)
        m2 == IF leaf.distinct = <<>> THEN m1
              ELSE emit_join_distinct_guard(m1, select, scope, leaf.distinct[1], skip)
        m3 == LimitGuards(m2, leaf.limit, skip, leaf.end)
    IN  place(emit_join_row(InOrder(<<em, m1, m2, m3>>), select, scope, leaf.sink), skip)

\* All columns of all tables, in the order of FROM, and where a column is in
\* that row.
joined_column_offset(scope, table) ==
    Through(LAMBDA n, k : n + Len(scope.tables[k].schema.columns), 0, [k \in 1 .. table - 1 |-> k])
TotalWidth(scope) == joined_column_offset(scope, Len(scope.tables) + 1)
emit_full_joined_row(em, scope) ==
    LET step(m, k) == Through(LAMBDA x, j : emit_join_column(x, scope.tables[k], j - 1), m,
                               [j \in DOMAIN scope.tables[k].schema.columns |-> j])
    IN  [Through(step, em, [k \in DOMAIN scope.tables |-> k]) EXCEPT !.out = em.nreg]
ColumnOffset(scope, e) ==
    LET k == resolve_own_binding_index(scope, e.t, e.c)
    IN  IF k = 0 THEN -1 ELSE joined_column_offset(scope, k) + column_index(scope.tables[k].schema, e.c)

\* An alias before a column; what is not a column is computed into the row.
RECURSIVE resolve_join_order_by_target(_, _, _)
resolve_join_order_by_target(e, select, scope) ==
    LET aliased == SelectInSeq(select.columns, LAMBDA c : c.k = "expr" /\ c.alias = e.c)
        offset == ColumnOffset(scope, e)
    IN  CASE e.k = "col" /\ e.t = "" /\ aliased # 0 ->
                resolve_join_order_by_target(select.columns[aliased].e, select, scope)
          [] e.k = "col" /\ (e.t # "" \/ aliased = 0) ->
                IF offset < 0 THEN OrderError("UnknownColumn") ELSE ByColumn(offset)
          [] OTHER -> ByExpr(e)
CollationOr(scope, e) == LET c == expr_collation(scope, e) IN IF c = "none" THEN "BINARY" ELSE c
OrderPlan(target, term, collation) ==
    [target |-> target, descending |-> term.desc, collation |-> collation,
     nulls_first |-> IF term.nulls = "" THEN ~term.desc ELSE term.nulls = "first"]
resolve_join_order_by(select, scope) ==
    LET plan(term) == OrderPlan(resolve_join_order_by_target(strip_collate(term.e), select, scope), term,
                                IF collation_of(term.e) # "none" THEN collation_of(term.e)
                                ELSE CollationOr(scope, strip_collate(term.e)))
    IN  [k \in DOMAIN select.order_by |-> plan(select.order_by[k])]
compile_join_order_by_sort_keys(em, scope, plans, first) ==
    LET step(acc, plan) ==
            IF plan.target.k = "column" THEN <<acc[1], Append(acc[2], SortKey(plan, plan.target.idx))>>
            ELSE LET m == compile_value(acc[1], scope, plan.target.e)
                 IN  <<m, Append(acc[2], SortKey(plan, m.out - first))>>
    IN  Through(step, <<em, <<>>>>, plans)

\* The row with its computed sort keys into the sorter that was opened at
\* address leaf.open; the keys' places become known here.
SortJoinedRow(em, select, scope, leaf) ==
    LET skip == em.nlabel
        m1 == emit_full_joined_row(Filter(new_label(em), scope, select.where, skip), scope)
        keyed == compile_join_order_by_sort_keys(m1, scope, leaf.plans, m1.out)
        m2 == RowRecord([keyed[1] EXCEPT !.code[leaf.open + 1].p4 = keyed[2]], m1.out)
    IN  InOrder(<<em, m1, keyed, m2, Asm(m2, <<I("SorterInsert", leaf.cursor, m2.out, 0), At(skip)>>)>>)
RowLeaf(end, limit, distinct, sink) ==
    [k |-> "row", end |-> end, limit |-> limit, distinct |-> distinct, sink |-> sink]
SortLeaf(plans, cursor, open) == [k |-> "sort", plans |-> plans, cursor |-> cursor, open |-> open]
EmitLeaf(em, select, scope, leaf) ==
    IF leaf.k = "row" THEN emit_join_final_row(em, select, scope, leaf) ELSE SortJoinedRow(em, select, scope, leaf)

-----------------------------------------------------------------------------
(* The nested loops.  j is the plan of a join: [select, bindings, order,   *)
(* pos, levels, dedup, leaf].                                              *)

MIN_ROWS_TO_AUTO_INDEX == 25
choose_auto_index_probe(binding, on, prior) ==
    IF binding.stats.rows = <<>> \/ (binding.stats.rows # <<>> /\ binding.stats.rows[1] < MIN_ROWS_TO_AUTO_INDEX)
    THEN <<>> ELSE ProbeSides(binding, on, prior)

join_scope(j, mask) ==
    [tables |-> [k \in DOMAIN j.bindings |-> [j.bindings[k] EXCEPT !.forced_null = @ \/ j.pos[k] \in mask]],
     outer |-> <<>>, hoisted |-> <<>>, memoized |-> <<>>, dedup_star |-> j.dedup]
SetMatched(em, check, matched) == IF check.sets_matched = 0 THEN em ELSE Integer(em, 1, matched[check.sets_matched])
LevelChecks(em, checks, scope, matched, skip) ==
    Through(LAMBDA m, c : SetMatched(Filter(m, scope, c.constraint, skip), c, matched), em, checks)

\* An index built the first time the level is entered: keys and rowids of
\* every row of the level's table.
BuildAutoIndex(em, binding, eph, key_column, collation) ==
    LET after == em.nlabel
        loop == em.nlabel + 1
        m1 == Asm(alloc_n(new_labels(em, 2), 2),
                  <<J("Once", 0, after, 0), Op("OpenEphemeral", eph, 0, 0, <<>>, 2), J("Rewind", binding.cursor, after, 0),
                    At(loop)>>)
        m2 == emit_column_read(m1, binding.schema, binding.cursor, key_column, em.nreg)
    IN  Asm(m2, <<I("Rowid", binding.cursor, em.nreg + 1, 0),
                  I4("AutoIndexInsert", eph, em.nreg, em.nreg + 1, <<collation>>), J("Next", binding.cursor, loop, 0),
                  At(after)>>)

RECURSIVE compile_join_level_traverse(_, _, _, _, _)
\* One level by a seek: at most one row.
LevelBySeek(em, j, mask, matched, level, access) ==
    LET scope == join_scope(j, mask)
        miss == em.nlabel
        m1 == compile_value(new_label(em), scope, access.operand)
        m2 == AccessRow(m1, access, j.bindings[j.order[level]].cursor, Len(j.order) + level - 1, m1.out, miss, TRUE)
        m3 == SetMatched(m2, j.levels[level].checks[1], matched)
    IN  place(InOrder(<<m1, m2, m3, compile_join_level_traverse(m3, j, mask, matched, level + 1)>>), miss)
LevelByAutoIndex(em, j, mask, matched, level, sides) ==
    LET binding == j.bindings[j.order[level]]
        scope == join_scope(j, mask)
        key_column == column_index(binding.schema, sides[1].c)
        collation == EntryOf(binding.schema.collations, key_column, "BINARY")
        eph == em.ncursor
        m1 == compile_value(BuildAutoIndex(alloc_cursor(em), binding, eph, key_column, collation), scope, sides[2])
        end == m1.nlabel
        loop == m1.nlabel + 1
        skip == m1.nlabel + 2
        m2 == Asm(alloc(new_labels(m1, 3)),
                  <<J4("AutoIndexSeek", eph, end, m1.out, <<collation>>), At(loop),
                    I("AutoIndexRowid", eph, m1.nreg, 0), J("SeekRowid", binding.cursor, skip, m1.nreg)>>)
        m3 == LevelChecks(m2, j.levels[level].checks, scope, matched, skip)
    IN  Asm(InOrder(<<m1, m2, m3, compile_join_level_traverse(m3, j, mask, matched, level + 1)>>),
            <<At(skip), J("AutoIndexNext", eph, loop, 0), At(end)>>)
LevelByScan(em, j, mask, matched, level) ==
    LET cursor == j.bindings[j.order[level]].cursor
        end == em.nlabel
        loop == em.nlabel + 1
        skip == em.nlabel + 2
        m1 == Asm(new_labels(em, 3), <<J("Rewind", cursor, end, 0), At(loop)>>)
        m2 == LevelChecks(m1, j.levels[level].checks, join_scope(j, mask), matched, skip)
    IN  Asm(InOrder(<<m1, m2, compile_join_level_traverse(m2, j, mask, matched, level + 1)>>),
            <<At(skip), J("Next", cursor, loop, 0), At(end)>>)
\* The rows of level and all deeper ones; then, if none passed, the row with
\* the span's tables NULL.
NullExtended(em, j, mask, matched, level, reg) ==
    LET span == j.levels[level].null_span
        after == em.nlabel + 1
        m1 == Asm(new_labels(em, 2), <<J("IfNot", reg, em.nlabel, 0), Goto(after), At(em.nlabel)>>)
        m2 == compile_join_level_traverse(m1, j, mask \union (span[1] .. span[2]), matched, span[2] + 1)
    IN  IF span = <<>> THEN em ELSE InOrder(<<em, m1, m2, place(m2, after)>>)
compile_join_level_traverse(em, j, mask, matched, level) ==
    LET plan == j.levels[level]
        binding == j.bindings[j.order[level]]
        prior == [p \in 1 .. level - 1 |-> j.bindings[j.order[p]]]
        one == Len(plan.checks) = 1 /\ plan.checks[1].constraint # <<>>
        access == IF one THEN choose_join_access(binding, plan.checks[1].constraint[1], prior) ELSE <<>>
        probe == IF one THEN choose_auto_index_probe(binding, plan.checks[1].constraint[1], prior) ELSE <<>>
        m0 == IF plan.null_span = <<>> THEN em ELSE Integer(alloc(em), 0, em.nreg)
        owners == [matched EXCEPT ![level] = em.nreg]
        m1 == CASE access # <<>> -> LevelBySeek(m0, j, mask, owners, level, access[1])
                [] access = <<>> /\ probe # <<>> -> LevelByAutoIndex(m0, j, mask, owners, level, probe)
                [] OTHER -> LevelByScan(m0, j, mask, owners, level)
    IN  IF level > Len(j.order) THEN EmitLeaf(em, j.select, join_scope(j, mask), j.leaf)
        ELSE InOrder(<<m0, m1, NullExtended(m1, j, mask, owners, level, em.nreg)>>)
compile_join_level(em, j) ==
    compile_join_level_traverse(em, j, {}, [p \in DOMAIN j.order |-> 0], 1)
=============================================================================
