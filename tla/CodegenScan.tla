---------------------------- MODULE CodegenScan -----------------------------
(***************************************************************************)
(* The scans of one table: direct and sorted                               *)
(* (codegen/select/limit_scan.rs), and in the order of an index that       *)
(* spares the sort or part of it (codegen/select/index_scan.rs).           *)
(***************************************************************************)
EXTENDS CodegenSeek

\* hoist_uncorrelated_where_subqueries and memoize_correlated_where_subqueries
\* of codegen/subquery: <<emitter, scope>>.
CONSTANT hoist_where(_, _, _), memoize_where(_, _, _)

Hoisted(em, scope, where) == IF where = <<>> THEN <<em, scope>> ELSE hoist_where(em, scope, where[1])
Prepared(em, q) ==
    LET hoisted == Hoisted(em, ScopeOf(q.schema, q.cursors.table), q.select.where)
    IN  IF q.select.where = <<>> THEN hoisted ELSE memoize_where(hoisted[1], hoisted[2], q.select.where[1])
OpenDistinct(em, q) ==
    IF q.select.distinct THEN Emit(em, I("OpenEphemeral", q.cursors.distinct, 0, 0)) ELSE em
\* Falls through for a row that WHERE accepts.
Filter(em, scope, where, skip) ==
    IF where = <<>> THEN em ELSE compile_cond(em, scope, where[1], null_is_false(Fallthrough, <<skip>>))
FirstTaken(tries) ==
    LET at == SelectInSeq(tries, LAMBDA t : t # <<>>) IN IF at = 0 THEN <<>> ELSE tries[at]
TakenOr(taken, otherwise) == IF taken # <<>> THEN taken[1] ELSE otherwise

\* The first seek that applies, else every row of the table.
SeekPath(em, q) ==
    FirstTaken(<<try_compile_rowid_seek(em, q), try_compile_covering_index_scan(em, q),
                 try_compile_between_seek(em, q), try_compile_like_prefix_seek(em, q),
                 try_compile_in_list_seek(em, q), try_compile_forward_comparison_seek(em, q),
                 try_compile_skip_scan_index(em, q)>>)
compile_direct_scan(em, q) ==
    LET table == q.cursors.table
        prepared == Prepared(OpenDistinct(em, q), q)
        scan(setup) ==
            LET loop == setup.em.nlabel
                row_skip == setup.em.nlabel + 1
                m1 == Asm(new_labels(setup.em, 2), <<J("Rewind", table, q.end, 0), At(loop)>>)
                m2 == Filter(m1, prepared[2], q.select.where, row_skip)
                m3 == emit_distinct_guard(m2, q.select, q.schema, table, FALSE, q.cursors.distinct, row_skip)
                m4 == GuardedRow(m3, q, setup.limit, row_skip, table, FALSE)
            IN  TakenOr(SeekPath(em, q), InOrder(<<m1, m2, m3, m4, Asm(m4, <<At(row_skip), J("Next", table, loop, 0)>>)>>))
    IN  scan(compile_limit_setup(prepared[1], prepared[2], q.select))

\* The row's columns and its sort expressions in consecutive registers:
\* <<emitter, first register, sort keys>>.  A key is a position in that row.
SortRow(em, q, scope, plans) ==
    LET m1 == compile_row_values(em, q.schema, AllColumns(q.schema), q.cursors.table, FALSE)
        first == m1.out
        step(acc, plan) ==
            IF plan.target.k = "column" THEN <<acc[1], Append(acc[2], SortKey(plan, plan.target.idx))>>
            ELSE LET m == compile_value(acc[1], scope, plan.target.e)
                 IN  <<m, Append(acc[2], SortKey(plan, IF m.out > first THEN m.out - first ELSE 0))>>
        done == Through(step, <<m1, <<>>>>, plans)
    IN  <<done[1], first, done[2]>>
RowRecord(em, first) == Emit(alloc(em), I("MakeRecord", first, em.nreg - first, em.nreg))

\* The sorter keeps LIMIT + OFFSET rows at most, unless DISTINCT removes rows
\* after the sort: <<emitter, bound register or <<>> >>.
SortBound(em, select, limit) ==
    LET m1 == IF Len(limit) = 2 THEN [em EXCEPT !.out = limit[2]] ELSE Integer(alloc(em), 0, em.nreg)
        m2 == Emit(alloc(m1), I("OffsetLimit", limit[1], m1.nreg, m1.out))
    IN  IF select.distinct \/ limit = <<>> THEN <<em, <<>>>> ELSE <<m2, <<m1.nreg>>>>

\* Every row of the sorter, read through the pseudo cursor.
DrainSorter(em, q, limit, empty) ==
    LET loop == em.nlabel
        row_skip == em.nlabel + 1
        m1 == Asm(alloc(new_labels(em, 2)),
                  <<J("SorterSort", q.cursors.sort, empty, 0), At(loop), I("SorterData", q.cursors.sort, em.nreg, 0),
                    I("OpenPseudo", q.cursors.pseudo, em.nreg, 0)>>)
        m2 == emit_distinct_guard(m1, q.select, q.schema, q.cursors.pseudo, TRUE, q.cursors.distinct, row_skip)
        m3 == GuardedRow(m2, q, limit, row_skip, q.cursors.pseudo, TRUE)
    IN  InOrder(<<em, m1, m2, m3, Asm(m3, <<At(row_skip), J("SorterNext", q.cursors.sort, loop, 0)>>)>>)

\* patch_p4 gives the sorter its keys once their registers are known.
compile_sorted_scan(em, q, plans) ==
    LET table == q.cursors.table
        prepared == Prepared(OpenDistinct(em, q), q)
        scan(setup) ==
            LET bound == SortBound(setup.em, q.select, setup.limit)
                open == here(bound[1])
                sort_step == bound[1].nlabel
                loop == bound[1].nlabel + 1
                skip == bound[1].nlabel + 2
                m1 == Asm(new_labels(bound[1], 3),
                          <<IF bound[2] = <<>> THEN I("SorterOpen", q.cursors.sort, 0, 0)
                            ELSE Op("SorterOpen", q.cursors.sort, bound[2][1], 0, <<>>, 1),
                            J("Rewind", table, sort_step, 0), At(loop)>>)
                filled(row) ==
                    LET m2 == RowRecord([row[1] EXCEPT !.code[open + 1].p4 = row[3]], row[2])
                        m3 == Asm(m2, <<I("SorterInsert", q.cursors.sort, m2.out, 0), At(skip), J("Next", table, loop, 0), At(sort_step)>>)
                    IN  InOrder(<<m1, row[1], m2, m3, DrainSorter(m3, q, setup.limit, q.end)>>)
            IN  filled(SortRow(Filter(m1, prepared[2], q.select.where, skip), q, prepared[2], plans))
    IN  scan(compile_limit_setup(prepared[1], prepared[2], q.select))

-----------------------------------------------------------------------------
(* Index order. *)

\* <<length, forward>>: how many ORDER BY terms the index yields in order,
\* walked one way, in binary collation and with NULLs where the walk has them.
index_ordering_prefix(schema, index, plans) ==
    LET fits(k) ==
            /\ k \in DOMAIN index.columns
            /\ plans[k].collation = "BINARY"
            /\ plans[k].nulls_first # plans[k].descending
            /\ plans[k].target.k = "column"
            /\ index.columns[k].name = schema.columns[plans[k].target.idx + 1]
        forward(k) == plans[k].descending = index.columns[k].desc
        prefix == {n \in 0 .. Len(plans) : \A k \in 1 .. n : fits(k) /\ forward(k) = forward(1)}
        len == CHOOSE n \in prefix : \A m \in prefix : m <= n
    IN  IF len = 0 THEN <<0, TRUE>> ELSE <<len, forward(1)>>
index_matches_ordering(schema, index, plans) == index_ordering_prefix(schema, index, plans)[1] = Len(plans)
\* The last of the indexes with the longest proper prefix.
find_partial_ordering_index(schema, plans) ==
    LET len(k) == index_ordering_prefix(schema, schema.indexes[k], plans)[1]
        partial == {k \in DOMAIN schema.indexes : len(k) \in 1 .. Len(plans) - 1}
    IN  IF partial = {} THEN 0
        ELSE CHOOSE k \in partial : \A j \in partial : len(j) < len(k) \/ (len(j) = len(k) /\ j <= k)
find_ordering_index(schema, plans) ==
    SelectInSeq(schema.indexes, LAMBDA x : index_matches_ordering(schema, x, plans))
RewindOp(forward) == IF forward THEN "IdxRewind" ELSE "IdxLast"
NextOp(forward) == IF forward THEN "IdxNext" ELSE "IdxPrev"
IndexOrderAllowed(q) == q.select.where = <<>> /\ ~q.select.distinct /\ ~q.schema.without_rowid

try_compile_index_ordered_scan(em, q, plans) ==
    LET at == find_ordering_index(q.schema, plans)
        index == q.schema.indexes[at]
        forward == index_ordering_prefix(q.schema, index, plans)[2]
        cursor == q.cursors.sort
        scan(setup) ==
            LET m0 == setup.em
                m1 == Asm(alloc(new_labels(m0, 2)),
                          <<J(RewindOp(forward), cursor, q.end, 0), At(m0.nlabel), I("IdxRowid", cursor, m0.nreg, 0),
                            J("SeekRowid", q.cursors.table, m0.nlabel + 1, m0.nreg)>>)
                m2 == GuardedRow(m1, q, setup.limit, m0.nlabel + 1, q.cursors.table, FALSE)
            IN  IF ~IndexOrderAllowed(q) \/ at = 0 THEN <<>>
                ELSE <<Asm(m2, <<At(m0.nlabel + 1), J(NextOp(forward), cursor, m0.nlabel, 0)>>)>>
    IN  scan(compile_limit_setup(open_index_cursor(em, index, cursor), ScopeOf(q.schema, q.cursors.table), q.select))

\* Falls through when the registers cur hold the values of prev, NULL like
\* NULL.
SameKeys(em, cur, prev, p4s, boundary) ==
    Through(LAMBDA m, k :
        Asm(new_labels(m, 2),
            <<J("IsNull", cur[k], m.nlabel, 0), J("IsNull", prev[k], boundary, 0),
              J4("Eq", cur[k], m.nlabel + 1, prev[k], p4s[k]), Goto(boundary), At(m.nlabel),
              J("NotNull", prev[k], boundary, 0), At(m.nlabel + 1)>>),
        em, [k \in DOMAIN p4s |-> k])
CopyKeys(cur, prev) == [k \in DOMAIN cur |-> I("Copy", cur[k], prev[k], 0)]
RegsFrom(first, n) == [k \in 1 .. n |-> first + k - 1]

drain_sorted_group(em, q, limit) ==
    place(DrainSorter(new_label(em), q, limit, em.nlabel), em.nlabel)

\* Rows come in the order of an index for a prefix of the terms; each group
\* with the same prefix is sorted by the rest and emitted when the next begins.
try_compile_partial_sorted_index_scan(em, q, plans) ==
    LET at == IF Len(plans) < 2 THEN 0 ELSE find_partial_ordering_index(q.schema, plans)
        index == q.schema.indexes[at]
        prefix == index_ordering_prefix(q.schema, index, plans)
        n == prefix[1]
        cursor == q.cursors.distinct
        scope == ScopeOf(q.schema, q.cursors.table)
        scan(setup) ==
            LET have == setup.em.nreg
                zero == have + 1
                prev == RegsFrom(have + 2, n)
                cur == RegsFrom(have + 2 + n, n)
                rowid_reg == have + 2 + 2 * n
                base == setup.em.nlabel
                loop == base
                row_skip == base + 1
                boundary == base + 2
                merge == base + 3
                skip_flush == base + 4
                skip_final == base + 5
                m1 == Asm(alloc_n(new_labels(setup.em, 6), 2 * n + 3),
                          <<Const(0, have), Const(0, zero), J(RewindOp(prefix[2]), cursor, q.end, 0), At(loop)>>
                          \o [k \in 1 .. n |-> I("Column", cursor, k - 1, cur[k])]
                          \o <<I("IdxRowid", cursor, rowid_reg, 0), J("SeekRowid", q.cursors.table, row_skip, rowid_reg)>>)
                grouped(row) ==
                    LET m2 == RowRecord(row[1], row[2])
                        m3 == SameKeys(Asm(m2, <<J("Eq", have, boundary, zero)>>), cur, prev,
                                       [k \in 1 .. n |-> [collation |-> index.columns[k].collation, affinity |-> "BLOB"]], boundary)
                        m4 == Asm(m3, <<Goto(merge), At(boundary), J("Eq", have, skip_flush, zero)>>)
                        m5 == Asm(drain_sorted_group(m4, q, setup.limit),
                                  <<At(skip_flush), I4("SorterOpen", q.cursors.sort, 0, 0, row[3])>>
                                  \o CopyKeys(cur, prev)
                                  \o <<Const(1, have), At(merge), I("SorterInsert", q.cursors.sort, m2.out, 0), At(row_skip),
                                       J(NextOp(prefix[2]), cursor, loop, 0), J("Eq", have, skip_final, zero)>>)
                    IN  IF ~IndexOrderAllowed(q) \/ at = 0 THEN <<>>
                        ELSE <<place(InOrder(<<m1, row[1], m2, m3, m4, m5, drain_sorted_group(m5, q, setup.limit)>>), skip_final)>>
            IN  grouped(SortRow(m1, q, scope, SubSeq(plans, n + 1, Len(plans))))
    IN  scan(compile_limit_setup(open_index_cursor(em, index, cursor), scope, q.select))
=============================================================================
