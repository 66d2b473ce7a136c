----------------------------- MODULE CodegenAgg -----------------------------
(***************************************************************************)
(* Aggregates over one table (codegen/select/aggregate.rs and its accum):  *)
(* count and sum from an index alone, a whole table without a sort, groups *)
(* from the order of an index, and groups from a sorter.  A group's row is *)
(* one row of its columns with the aggregates' results appended.           *)
(***************************************************************************)
EXTENDS CodegenScan

-----------------------------------------------------------------------------
(* Aggregate calls.  A slot is [call, name, arg, slot, eph].               *)

RECURSIVE find_aggregates(_, _)
find_aggregates(e, acc) ==
    CASE is_aggregate_call(e) -> IF \E k \in DOMAIN acc : acc[k] = e THEN acc ELSE Append(acc, e)
      [] e.k \in {"collate", "un"} -> find_aggregates(e.e, acc)
      [] e.k = "bin" -> find_aggregates(e.r, find_aggregates(e.l, acc))
      [] OTHER -> acc
AggregateCalls(select) ==
    LET exprs == SelectSeq(select.columns, LAMBDA c : c.k = "expr")
    IN  Through(LAMBDA acc, e : find_aggregates(e, acc), <<>>, [k \in DOMAIN exprs |-> exprs[k].e] \o select.having)
select_has_aggregate(select) == AggregateCalls(select) # <<>>

\* The error of classify_aggregate, if any.
classify_aggregate(e) ==
    IF \/ Len(e.args) > 1
       \/ e.name \notin {"count", "sum", "avg", "min", "max"}
       \/ e.name # "count" /\ e.args = <<>>
    THEN "Unsupported" ELSE ""
FLUSH_CURSOR == 4
\* A DISTINCT aggregate remembers its arguments in a cursor of its own.
collect_aggregates(select) ==
    LET calls == AggregateCalls(select)
    IN  [k \in DOMAIN calls |->
            [call |-> calls[k], name |-> calls[k].name, arg |-> calls[k].args, slot |-> k - 1,
             eph |-> IF calls[k].distinct /\ calls[k].args # <<>> THEN <<FLUSH_CURSOR + k>> ELSE <<>>]]
Classified(em, select) ==
    LET calls == AggregateCalls(select)
        bad == SelectInSeq(calls, LAMBDA e : classify_aggregate(e) # "")
    IN  IF bad = 0 THEN em ELSE Fail(em, classify_aggregate(calls[bad]))

SyntheticName(k) == "__agg" \o ToString(k - 1)
RECURSIVE substitute_aggregates(_, _)
substitute_aggregates(e, slots) ==
    LET at == SelectInSeq(slots, LAMBDA s : s.call = e)
    IN  CASE at # 0 -> Col("", SyntheticName(at))
          [] at = 0 /\ e.k \in {"collate", "un"} -> [e EXCEPT !.e = substitute_aggregates(e.e, slots)]
          [] at = 0 /\ e.k = "bin" -> [e EXCEPT !.l = substitute_aggregates(e.l, slots),
                                               !.r = substitute_aggregates(e.r, slots)]
          [] OTHER -> e

\* One row into the slot; reset begins a new group, with no argument seen.
AggStepCode(em, scope, agg, reset, reopen) ==
    LET coll == IF agg.arg = <<>> THEN "none" ELSE expr_collation(scope, agg.arg[1])
        m1 == IF agg.arg = <<>> THEN [em EXCEPT !.out = 0] ELSE compile_value(em, scope, agg.arg[1])
        step == Op("AggStep", agg.slot, m1.out, 0,
                   [name |-> agg.name, arity |-> Len(agg.arg), collation |-> IF coll = "none" THEN "BINARY" ELSE coll],
                   IF reset THEN 1 ELSE 0)
        m2 == IF reopen THEN Emit(m1, I("OpenEphemeral", agg.eph[1], 0, 0)) ELSE m1
    IN  IF agg.eph = <<>> THEN Emit(m1, step)
        ELSE Asm(new_label(m2), <<J4("Found", agg.eph[1], m1.nlabel, m1.out, <<"BINARY">>),
                                  I4("IdxInsert", agg.eph[1], m1.out, 0, <<"BINARY">>), step, At(m1.nlabel)>>)
emit_agg_step_ForgetsSeen(em, scope, agg, reset) == AggStepCode(em, scope, agg, reset, TRUE)
emit_agg_step(em, scope, agg, reset) == AggStepCode(em, scope, agg, reset, reset)
AggSteps(em, scope, slots, reset) == Through(LAMBDA m, a : emit_agg_step(m, scope, a, reset), em, slots)

\* A column of a pseudo table: the rowid alias is a column like the others.
read_pseudo_column(em, schema, cursor, idx, dest) ==
    emit_column_read(em, [schema EXCEPT !.rowid_alias = -1], cursor, idx, dest)
read_row_columns_into(em, schema, cursor, dests) ==
    Through(LAMBDA m, k : read_pseudo_column(m, schema, cursor, k - 1, dests[k]), em, [k \in DOMAIN dests |-> k])

\* The group's row through HAVING, OFFSET and LIMIT to the sink.
flush_group(em, q, g) ==
    LET n == Len(g.snapshot) + Len(g.slots)
        names == [k \in DOMAIN g.slots |-> SyntheticName(k)]
        synthetic == [name |-> q.schema.name, root |-> 0, columns |-> q.schema.columns \o names,
                      types |-> q.schema.types \o [k \in DOMAIN names |-> "BLOB"], collations |-> <<>>,
                      rowid_alias |-> -1, without_rowid |-> q.schema.without_rowid, indexes |-> <<>>]
        dests == RegsFrom(em.nreg, n)
        record == em.nreg + n
        skip == em.nlabel
        m1 == Asm(alloc_n(new_label(em), n + 1),
                  [k \in DOMAIN g.snapshot |-> I("Copy", g.snapshot[k], dests[k], 0)]
                  \o [k \in DOMAIN g.slots |->
                        I4("AggFinal", g.slots[k].slot, 0, dests[Len(g.snapshot) + k], [name |-> g.slots[k].name])]
                  \o <<I("MakeRecord", em.nreg, n, record), I("OpenPseudo", FLUSH_CURSOR, record, 0)>>)
        having == [k \in DOMAIN q.select.having |-> substitute_aggregates(q.select.having[k], g.slots)]
        m2 == LimitGuards(Filter(m1, ScopeOf(synthetic, FLUSH_CURSOR), having, skip), g.limit, skip, q.end)
        columns == [k \in DOMAIN q.select.columns |->
                        LET c == q.select.columns[k]
                        IN  IF c.k = "expr" THEN [c EXCEPT !.e = substitute_aggregates(c.e, g.slots)] ELSE c]
        emitted(cols) ==
            LET m3 == compile_row_values(m2, synthetic, cols, FLUSH_CURSOR, TRUE)
            IN  place(InOrder(<<em, m1, m2, m3, EmitSink(m3, q.sink, m3.out, Len(cols))>>), skip)
    IN  emitted(result_columns([q.select EXCEPT !.columns = columns], synthetic))

-----------------------------------------------------------------------------
(* From an index alone. *)

OnlyResult(select) ==
    IF Len(select.columns) = 1 /\ select.columns[1].k = "expr" THEN select.columns[1].e ELSE Lit(VNull)
PlainAggregate(select) == select.having = <<>> /\ select.limit = <<>> /\ select.order_by = <<>>

\* count(*) without WHERE from the tree's cells, with WHERE col = value from
\* the entries of an index on col that have the value.
try_compile_index_only_count(em, q) ==
    LET e == OnlyResult(q.select)
        o == top_level_equality_operands(q.select.where[1])
        c == IF where_col(o[1]) # "" THEN where_col(o[1]) ELSE where_col(o[2])
        operand == IF where_col(o[1]) # "" THEN o[2] ELSE o[1]
        index == q.schema.indexes[find_leading_index(q.schema, c)]
        cursor == q.cursors.sort
        coll == LeadingCollation(index)
        count_reg == em.nreg
        m0 == Integer(alloc(em), 0, count_reg)
        m1 == compile_value(open_index_cursor(m0, index, cursor), ScopeOf(q.schema, q.cursors.table), operand)
        miss == m1.nlabel
        loop == m1.nlabel + 1
        recheck == m1.nlabel + 2
        m2 == Asm(alloc_n(new_labels(m1, 3), 2),
                  <<J4("SeekIndexEq", cursor, miss, m1.out, <<coll>>), At(loop), Const(1, m1.nreg),
                    I("Add", m1.nreg, count_reg, count_reg), J("IdxNext", cursor, recheck, 0), Goto(miss),
                    At(recheck), I("Column", cursor, 0, m1.nreg + 1),
                    J4("Eq", m1.nreg + 1, loop, m1.out, [collation |-> coll, affinity |-> "BLOB"]), At(miss)>>)
        whole == IF q.schema.root > 0 THEN Emit(m0, I("Count", q.schema.root, count_reg, 0)) ELSE Fail(m0, "Unsupported")
        seekable == o # <<>> /\ c # "" /\ is_supported_seek_operand(operand) /\ find_leading_index(q.schema, c) # 0
    IN  CASE ~PlainAggregate(q.select) \/ e # Fn("count", <<>>) -> <<>>
          [] PlainAggregate(q.select) /\ e = Fn("count", <<>>) /\ q.select.where = <<>> ->
                <<EmitSink(whole, q.sink, count_reg, 1)>>
          [] OTHER -> IF seekable THEN <<EmitSink(m2, q.sink, count_reg, 1)>> ELSE <<>>

\* sum(col) or avg(col) of every entry of an index on col.
try_compile_index_only_sum(em, q) ==
    LET e == OnlyResult(q.select)
        index == q.schema.indexes[find_leading_index(q.schema, e.args[1].c)]
        cursor == q.cursors.sort
        m0 == open_index_cursor(em, index, cursor)
        loop == em.nlabel
        done == em.nlabel + 1
        m1 == Asm(alloc_n(new_labels(m0, 2), 2),
                  <<J("IdxRewind", cursor, done, 0), At(loop), I("Column", cursor, 0, em.nreg),
                    I4("AggStep", 0, em.nreg, 0, [name |-> e.name, arity |-> 1, collation |-> LeadingCollation(index)]),
                    J("IdxNext", cursor, loop, 0), At(done), I4("AggFinal", 0, 0, em.nreg + 1, [name |-> e.name])>>)
    IN  CASE ~PlainAggregate(q.select) \/ q.select.where # <<>> \/ q.select.group_by # <<>> -> <<>>
          [] e.k = "fn" /\ PlainAggregate(q.select) /\ q.select.where = <<>> /\ q.select.group_by = <<>> ->
                IF /\ ~e.distinct
                   /\ e.name \in {"sum", "avg"}
                   /\ Len(e.args) = 1
                   /\ where_col(e.args[1]) # ""
                   /\ find_leading_index(q.schema, e.args[1].c) # 0
                THEN <<EmitSink(m1, q.sink, em.nreg + 1, 1)>> ELSE <<>>
          [] OTHER -> <<>>

-----------------------------------------------------------------------------
(* Accumulating rows. *)

\* The registers of a grouping: is there a group, a zero, the key of the
\* group, and the columns of one row of it, NULL before the first.
GroupRegs(em, q, limit, nkeys) ==
    LET snapshot == RegsFrom(em.nreg + 2 + nkeys, Len(q.schema.columns))
    IN  [em |-> Asm(alloc_n(em, 2 + nkeys + Len(snapshot)),
                    <<Const(0, em.nreg), Const(0, em.nreg + 1)>>
                    \o [k \in DOMAIN snapshot |-> I("Null", 0, snapshot[k], 0)]),
         g |-> [zero |-> em.nreg, have |-> em.nreg + 1, prev |-> RegsFrom(em.nreg + 2, nkeys),
                snapshot |-> snapshot, slots |-> collect_aggregates(q.select), limit |-> limit]]

\* The whole table is one group; no sort.
try_compile_direct_agg_scan(em, q) ==
    LET table == q.cursors.table
        hoisted == Hoisted(Classified(em, q.select), ScopeOf(q.schema, table), q.select.where)
        scope == hoisted[2]
        setup == compile_limit_setup(hoisted[1], scope, q.select)
        scan(regs) ==
            LET g == regs.g
                base == regs.em.nlabel
                tail == base
                loop == base + 1
                skip == base + 2
                boundary == base + 3
                not_boundary == base + 4
                m1 == Asm(new_labels(regs.em, 5), <<J("Rewind", table, tail, 0), At(loop)>>)
                m2 == Asm(Filter(m1, scope, q.select.where, skip),
                          <<J("Eq", g.have, boundary, g.zero), Goto(not_boundary), At(boundary), Const(1, g.have)>>)
                m3 == AggSteps(m2, scope, g.slots, TRUE)
                m4 == Through(LAMBDA m, k : emit_column_read(m, q.schema, table, k - 1, g.snapshot[k]), m3,
                               [k \in DOMAIN g.snapshot |-> k])
                m5 == AggSteps(Asm(m4, <<Goto(skip), At(not_boundary)>>), scope, g.slots, FALSE)
                m6 == Asm(m5, <<At(skip), J("Next", table, loop, 0), At(tail)>>)
            IN  IF \E k \in DOMAIN g.slots : g.slots[k].eph # <<>> THEN <<>>
                ELSE <<InOrder(<<regs.em, m1, m2, m3, m4, m5, m6, flush_group(m6, q, g)>>)>>
    IN  scan(GroupRegs(setup.em, q, setup.limit, 0))

\* A row whose key differs from the group's flushes the group and begins the
\* next; either way the row is accumulated.
GroupRow(em, q, g, scope, cur, p4s, snapshot(_)) ==
    LET boundary == em.nlabel
        not_boundary == em.nlabel + 1
        skip_flush == em.nlabel + 2
        after == em.nlabel + 3
        m1 == SameKeys(Asm(new_labels(em, 4), <<J("Eq", g.have, boundary, g.zero)>>), cur, g.prev, p4s, boundary)
        m2 == Asm(m1, <<Goto(not_boundary), At(boundary), J("Eq", g.have, skip_flush, g.zero)>>)
        row(m3) ==
            LET m4 == snapshot(AggSteps(m3, scope, g.slots, TRUE))
                m5 == AggSteps(Asm(m4, <<Goto(after), At(not_boundary)>>), scope, g.slots, FALSE)
            IN  InOrder(<<em, m1, m2, m3, m4, m5, place(m5, after)>>)
    IN  row(Asm(flush_group(m2, q, g), <<At(skip_flush)>> \o CopyKeys(cur, g.prev) \o <<Const(1, g.have)>>))
GroupKeyP4(scope, e) ==
    LET coll == expr_collation(scope, e)
    IN  [collation |-> IF coll = "none" THEN "BINARY" ELSE coll,
         affinity |-> comparison_affinity(expr_affinity(scope, e), "none")]

GroupTargets(select, schema) ==
    [k \in DOMAIN select.group_by |-> order_by_target_for_expr(select.group_by[k], schema)]
TargetError(targets) ==
    LET at == SelectInSeq(targets, LAMBDA t : t.k = "error") IN IF at = 0 THEN "" ELSE targets[at].error
\* The index whose order keeps groups together, if all keys are its columns.
group_by_index_ordering(select, schema) ==
    LET targets == GroupTargets(select, schema)
        plans == [k \in DOMAIN targets |->
                    [target |-> targets[k], descending |-> FALSE, nulls_first |-> TRUE,
                     collation |-> EntryOf(schema.collations, targets[k].idx, "BINARY")]]
    IN  IF \/ select.group_by = <<>>
           \/ select.where # <<>>
           \/ schema.without_rowid
           \/ \E k \in DOMAIN targets : targets[k].k # "column"
        THEN 0 ELSE find_ordering_index(schema, plans)

try_compile_index_ordered_group_by(em, q) ==
    LET at == group_by_index_ordering(q.select, q.schema)
        index == q.schema.indexes[at]
        targets == GroupTargets(q.select, q.schema)
        n == Len(targets)
        forward == ~index.columns[1].desc
        cursor == q.cursors.sort
        scope == ScopeOf(q.schema, q.cursors.table)
        setup == compile_limit_setup(open_index_cursor(em, index, cursor), scope, q.select)
        scan(regs) ==
            LET m0 == regs.em
                loop == m0.nlabel
                row_skip == m0.nlabel + 1
                cur == RegsFrom(m0.nreg + 1, n)
                m1 == Asm(alloc_n(new_labels(m0, 2), n + 1),
                          <<J(RewindOp(forward), cursor, q.end, 0), At(loop), I("IdxRowid", cursor, m0.nreg, 0),
                            J("SeekRowid", q.cursors.table, row_skip, m0.nreg)>>)
                m2 == Through(LAMBDA m, k : read_pseudo_column(m, q.schema, q.cursors.table, targets[k].idx, cur[k]), m1,
                               [k \in 1 .. n |-> k])
                grouped(m3) ==
                    LET m4 == read_row_columns_into(m3, q.schema, q.cursors.table, regs.g.snapshot)
                        m5 == Asm(m4, <<At(row_skip), J(NextOp(forward), cursor, loop, 0)>>)
                    IN  IF at = 0 THEN <<>> ELSE <<flush_group(InOrder(<<m0, m1, m2, m3, m4, m5>>), q, regs.g)>>
            IN  grouped(GroupRow(m2, q, regs.g, scope, cur, [k \in 1 .. n |-> GroupKeyP4(scope, q.select.group_by[k])],
                                   LAMBDA m : m))
    IN  scan(GroupRegs(Classified(setup.em, q.select), q, setup.limit, n))

-----------------------------------------------------------------------------
(* Groups from a sorter. *)

\* The columns the result needs; a star or a subquery needs all.
RECURSIVE walk_expr_for_column_refs(_)
walk_expr_for_column_refs(e) ==
    CASE e.k = "col" -> {e.c}
      [] e.k \in {"sub", "exists", "insub"} -> {"*"}
      [] OTHER -> UNION {walk_expr_for_column_refs(Operands(e)[k]) : k \in DOMAIN Operands(e)}
columns_needed_for_projection(select, schema) ==
    LET exprs == SelectSeq(select.columns, LAMBDA c : c.k = "expr")
        all == select.group_by \o [k \in DOMAIN exprs |-> exprs[k].e] \o select.having
        names == UNION {walk_expr_for_column_refs(all[k]) : k \in DOMAIN all}
        positions == {column_index(schema, c) : c \in names}
    IN  IF Len(exprs) < Len(select.columns) \/ -1 \in positions THEN 0 .. Len(schema.columns) - 1 ELSE positions
ordered_needed_columns(needed, schema) ==
    SelectSeq([k \in DOMAIN schema.columns |-> k - 1], LAMBDA n : n \in needed)
compact_index_map(order, idx) ==
    LET at == SelectInSeq(order, LAMBDA n : n = idx) IN IF at = 0 THEN 0 ELSE at - 1
compact_schema(schema, order) ==
    [name |-> schema.name, root |-> 0, columns |-> [k \in DOMAIN order |-> schema.columns[order[k] + 1]],
     types |-> [k \in DOMAIN order |-> EntryOf(schema.types, order[k], "BLOB")],
     collations |-> [k \in DOMAIN order |-> EntryOf(schema.collations, order[k], "BINARY")],
     rowid_alias |-> SelectInSeq(order, LAMBDA n : n = schema.rowid_alias) - 1,
     without_rowid |-> schema.without_rowid, indexes |-> <<>>]
compile_row_values_compact(em, schema, order, cursor) ==
    LET step(m, k) == emit_column_read(m, schema, cursor, order[k], em.nreg + k - 1)
    IN  IF order = <<>> THEN alloc(em)
        ELSE [Through(step, alloc_n(em, Len(order)), [k \in DOMAIN order |-> k]) EXCEPT !.out = em.nreg]

\* The first half: the rows that WHERE accepts into a sorter on the group
\* keys; only the columns the result needs are kept.
SortGroups(em, q, scope, order, targets) ==
    LET table == q.cursors.table
        sort_step == em.nlabel
        loop == em.nlabel + 1
        skip == em.nlabel + 2
        m1 == Asm(new_labels(em, 3),
                  <<I("SorterOpen", q.cursors.sort, 0, 0), J("Rewind", table, sort_step, 0), At(loop)>>)
        m2 == compile_row_values_compact(Filter(m1, scope, q.select.where, skip), q.schema, order, table)
        first == m2.out
        key(e, index) == SortKey([descending |-> FALSE, nulls_first |-> TRUE,
                                  collation |-> GroupKeyP4(scope, e).collation], index)
        step(acc, k) ==
            IF targets[k].k = "column"
            THEN <<acc[1], Append(acc[2], key(q.select.group_by[k], compact_index_map(order, targets[k].idx)))>>
            ELSE LET m == compile_value(acc[1], scope, targets[k].e)
                 IN  <<m, Append(acc[2], key(q.select.group_by[k], IF m.out > first THEN m.out - first ELSE 0))>>
        done == Through(step, <<m2, <<>>>>, [k \in DOMAIN targets |-> k])
        m3 == RowRecord([done[1] EXCEPT !.code[here(em) + 1].p4 = done[2]], first)
        m4 == Asm(m3, <<Op("SorterInsert", q.cursors.sort, m3.out, first, <<>>, 1), At(skip), J("Next", table, loop, 0),
                        At(sort_step)>>)
    IN  InOrder(<<em, m1, m2, done, m3, m4>>)

\* The keys of the sorted row: <<emitter, registers>>.
ReadGroupKeys(em, q, targets, order, pseudo, pseudo_scope) ==
    LET read(acc, k) ==
            LET m == IF targets[k].k = "column"
                     THEN read_pseudo_column(alloc(acc[1]), pseudo, q.cursors.pseudo,
                                             compact_index_map(order, targets[k].idx), acc[1].nreg)
                     ELSE compile_value(acc[1], pseudo_scope, q.select.group_by[k])
            IN  <<m, Append(acc[2], m.out)>>
    IN  Through(read, <<em, <<>>>>, [k \in DOMAIN targets |-> k])
\* Without GROUP BY there is a group even when there is no row.
LastGroup(em, q, g, implicit_group, empty, skip_tail) ==
    LET m1 == IF implicit_group THEN place(em, empty) ELSE Asm(em, <<J("Eq", g.have, skip_tail, g.zero)>>)
    IN  place(flush_group(m1, q, g), skip_tail)

compile_grouped_scan(em, q, implicit_group, outer) ==
    LET targets == GroupTargets(q.select, q.schema)
        hoisted == Hoisted(em, [ScopeOf(q.schema, q.cursors.table) EXCEPT !.outer = outer], q.select.where)
        scope == hoisted[2]
        order == ordered_needed_columns(columns_needed_for_projection(q.select, q.schema), q.schema)
        pseudo == compact_schema(q.schema, order)
        pseudo_scope == [ScopeOf(pseudo, q.cursors.pseudo) EXCEPT !.outer = outer]
        groups(m1) ==
            LET empty == IF implicit_group THEN m1.nlabel ELSE q.end
                setup == compile_limit_setup(Asm(new_label(m1), <<J("SorterSort", q.cursors.sort, empty, 0)>>), scope, q.select)
                scan(regs) ==
                    LET g == regs.g
                        m2 == regs.em
                        loop == m2.nlabel
                        skip_tail == m2.nlabel + 1
                        m3 == Asm(alloc(new_labels(m2, 2)), <<I("OpenPseudo", q.cursors.pseudo, m2.nreg, 0), At(loop),
                                                              I("SorterData", q.cursors.sort, m2.nreg, 0)>>)
                        keys == ReadGroupKeys(m3, q, targets, order, pseudo, pseudo_scope)
                        snapshot(m) ==
                            Through(LAMBDA x, k : read_pseudo_column(x, pseudo, q.cursors.pseudo, k - 1, g.snapshot[order[k] + 1]),
                                    m, [k \in DOMAIN order |-> k])
                        tail(m4) ==
                            LET m5 == Asm(m4, <<J("SorterNext", q.cursors.sort, loop, 0)>>)
                                m6 == LastGroup(m5, q, g, implicit_group, empty, skip_tail)
                            IN  IF TargetError(targets) # "" THEN Fail(em, TargetError(targets))
                                ELSE InOrder(<<m1, m2, m3, keys, m4, m5, m6>>)
                    IN  tail(GroupRow(keys[1], q, g, pseudo_scope, keys[2],
                                           [k \in DOMAIN targets |-> GroupKeyP4(scope, q.select.group_by[k])], snapshot))
            IN  scan(GroupRegs(Classified(setup.em, q.select), q, setup.limit, Len(targets)))
    IN  groups(SortGroups(hoisted[1], q, scope, order, targets))
=============================================================================
