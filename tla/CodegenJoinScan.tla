--------------------------- MODULE CodegenJoinScan ---------------------------
(***************************************************************************)
(* A SELECT over a join (codegen/select/joins.rs, join_access.rs,          *)
(* join_full.rs, aggregate/join.rs): planning and opening the tables, then *)
(* the rows directly, sorted, or in groups; and the FULL JOIN of two       *)
(* tables.                                                                 *)
(***************************************************************************)
EXTENDS CodegenJoin

\* The result columns out of the full joined row in the cursor's record:
\* plain columns, and aggregates appended to it.
ReadOffsets(em, cursor, offsets) ==
    Asm(alloc_n(em, Len(offsets)), [k \in DOMAIN offsets |-> I("Column", cursor, offsets[k], em.nreg + k - 1)])
OffsetOf(scope, c, slots) ==
    LET at == SelectInSeq(slots, LAMBDA s : s.call = c.e)
    IN  CASE c.k = "column" -> joined_column_offset(scope, c.table) + c.idx
          [] c.k = "unknown" -> -1
          [] c.k = "expr" /\ at # 0 -> TotalWidth(scope) + at - 1
          [] OTHER -> IF c.e.k = "col" THEN ColumnOffset(scope, c.e) ELSE -2
\* <<emitter, first register, number of columns>>
ProjectJoined(em, select, scope, cursor, slots) ==
    LET cols == JoinedColumns(select, scope)
        offsets == [k \in DOMAIN cols |-> OffsetOf(scope, cols[k], slots)]
        bad == SelectInSeq(offsets, LAMBDA n : n < 0)
    IN  CASE bad # 0 -> <<Fail(em, IF offsets[bad] = -1 THEN "UnknownColumn" ELSE "Unsupported"), 0, 0>>
          [] bad = 0 /\ cols = <<>> -> <<alloc(em), em.nreg, 0>>
          [] OTHER -> <<ReadOffsets(em, cursor, offsets), em.nreg, Len(cols)>>
emit_joined_pseudo_projection(em, select, scope, cursor) == ProjectJoined(em, select, scope, cursor, <<>>)
project_grouped_result_columns(em, select, scope, cursor, slots) == ProjectJoined(em, select, scope, cursor, slots)

\* Every row of a sorter of joined rows to the sink; setup runs once there is
\* a row.
DrainJoined(em, q, scope, cursors, slots, limit) ==
    LET loop == em.nlabel
        skip == em.nlabel + 1
        m1 == Asm(alloc(new_labels(em, 2)), <<At(loop), I("SorterData", cursors.sort, em.nreg, 0),
                                              I("OpenPseudo", cursors.pseudo, em.nreg, 0)>>)
        row == ProjectJoined(LimitGuards(m1, limit, skip, q.end), q.select, scope, cursors.pseudo, slots)
    IN  Asm(EmitSink(row[1], q.sink, row[2], row[3]), <<At(skip), J("SorterNext", cursors.sort, loop, 0)>>)

compile_joined_sorted_scan(em, q, j, scope, cursors) ==
    LET plans == resolve_join_order_by(q.select, scope)
        filled(m1) ==
            LET setup == compile_limit_setup(Asm(m1, <<J("SorterSort", cursors.sort, q.end, 0)>>), scope, q.select)
            IN  IF OrderByError(plans) # "" THEN Fail(em, OrderByError(plans))
                ELSE InOrder(<<m1, setup.em, DrainJoined(setup.em, q, scope, cursors, <<>>, setup.limit)>>)
    IN  filled(compile_join_level(Emit(em, I("SorterOpen", cursors.sort, 0, 0)),
                                     [j EXCEPT !.leaf = SortLeaf(plans, cursors.sort, here(em))]))

-----------------------------------------------------------------------------
(* Groups of joined rows: keys and arguments are plain columns. *)

joined_bare_column_offset(scope, e) == LET c == strip_collate(e) IN IF c.k = "col" THEN ColumnOffset(scope, c) ELSE -2
\* The DISTINCT of an aggregate is not looked at here.
emit_joined_agg_step(em, scope, cursor, agg, reset) ==
    LET m1 == IF agg.arg = <<>> THEN [em EXCEPT !.out = 0]
              ELSE Emit(alloc(em), I("Column", cursor, joined_bare_column_offset(scope, agg.arg[1]), em.nreg))
    IN  Emit(m1, Op("AggStep", agg.slot, m1.out, 0,
                    [name |-> agg.name, arity |-> Len(agg.arg),
                     collation |-> IF agg.arg = <<>> THEN "BINARY" ELSE CollationOr(scope, agg.arg[1])],
                    IF reset THEN 1 ELSE 0))
JoinedAggSteps(em, scope, cursor, slots, reset) ==
    Through(LAMBDA m, a : emit_joined_agg_step(m, scope, cursor, a, reset), em, slots)

\* The error of a grouped join, if any: what is not a plain column or a whole
\* aggregate call is not supported.
validate_joined_group_projection(select, scope, slots) ==
    LET columns == SelectSeq(select.columns, LAMBDA c : c.k = "expr")
        plain(e) == e.k = "col" \/ \E k \in DOMAIN slots : slots[k].call = e
        places == [k \in DOMAIN select.group_by |-> joined_bare_column_offset(scope, select.group_by[k])]
                  \o [k \in DOMAIN slots |-> IF slots[k].arg = <<>> THEN 0
                                             ELSE joined_bare_column_offset(scope, slots[k].arg[1])]
        bad == SelectInSeq(places, LAMBDA n : n < 0)
    IN  CASE select.having # <<>> -> "Unsupported"
          [] select.having = <<>> /\ bad # 0 -> IF places[bad] = -1 THEN "UnknownColumn" ELSE "Unsupported"
          [] OTHER -> IF \A k \in DOMAIN columns : plain(columns[k].e) THEN "" ELSE "Unsupported"

\* ORDER BY over groups: an aggregate of the result, a position, an alias or
\* a column.
RECURSIVE resolve_group_order_target(_, _, _, _)
resolve_group_order_target(e0, select, scope, slots) ==
    LET e == strip_collate(e0)
        same(s) == /\ e.k = "fn"
                   /\ e.name = s.name
                   /\ e.distinct = (s.eph # <<>>)
                   /\ Len(e.args) = Len(s.arg)
                   /\ e.args = <<>> \/ joined_bare_column_offset(scope, e.args[1]) = joined_bare_column_offset(scope, s.arg[1])
        agg == SelectInSeq(slots, same)
        aliased == SelectInSeq(select.columns, LAMBDA c : c.k = "expr" /\ c.alias = e.c)
    IN  CASE agg # 0 -> TotalWidth(scope) + agg - 1
          [] agg = 0 /\ e.k = "lit" /\ e.v[1] = "int" ->
                IF e.v[2] \in DOMAIN select.columns /\ select.columns[e.v[2]].k = "expr"
                THEN resolve_group_order_target(select.columns[e.v[2]].e, select, scope, slots) ELSE -2
          [] e.k = "col" /\ e.t = "" /\ aliased # 0 ->
                resolve_group_order_target(select.columns[aliased].e, select, scope, slots)
          [] OTHER -> joined_bare_column_offset(scope, e)
GroupOrderKeys(select, scope, slots) ==
    [k \in DOMAIN select.order_by |->
        LET term == select.order_by[k]
        IN  SortKey(OrderPlan(<<>>, term, CollationOr(scope, term.e)),
                    resolve_group_order_target(term.e, select, scope, slots))]

\* The group's row, aggregates appended: to the sink, or to the sorter of
\* groups.
flush_joined_group(em, q, scope, g) ==
    LET n == Len(g.snapshot) + Len(g.slots)
        dests == RegsFrom(em.nreg, n)
        record == em.nreg + n
        skip == em.nlabel
        m1 == Asm(alloc_n(em, n + 1),
                  [k \in DOMAIN g.snapshot |-> I("Copy", g.snapshot[k], dests[k], 0)]
                  \o [k \in DOMAIN g.slots |->
                        I4("AggFinal", g.slots[k].slot, 0, dests[Len(g.snapshot) + k], [name |-> g.slots[k].name])]
                  \o <<I("MakeRecord", em.nreg, n, record)>>)
        m2 == LimitGuards(Emit(new_label(m1), I("OpenPseudo", g.flush, record, 0)), g.limit, skip, q.end)
        row == project_grouped_result_columns(m2, q.select, scope, g.flush, g.slots)
    IN  IF q.select.order_by # <<>> THEN Emit(m1, I("SorterInsert", g.flush + 1, record, 0))
        ELSE place(EmitSink(row[1], q.sink, row[2], row[3]), skip)

\* The joined rows sorted by the group keys, then one pass over them.
JoinedGroupLoop(em, q, scope, cursors, g, offsets, empty) ==
    LET select == q.select
        loop == em.nlabel
        boundary == em.nlabel + 1
        not_boundary == em.nlabel + 2
        skip_flush == em.nlabel + 3
        after == em.nlabel + 4
        cur == RegsFrom(em.nreg + 1, Len(offsets))
        m1 == Asm(alloc_n(new_labels(em, 5), 1 + Len(offsets)),
                  <<At(loop), I("SorterData", cursors.sort, em.nreg, 0), I("OpenPseudo", cursors.pseudo, em.nreg, 0)>>
                  \o [k \in DOMAIN offsets |-> I("Column", cursors.pseudo, offsets[k], cur[k])]
                  \o <<J("Eq", g.have, boundary, g.zero)>>)
        m2 == SameKeys(m1, cur, g.prev, [k \in DOMAIN offsets |-> GroupKeyP4(scope, select.group_by[k])], boundary)
        m3 == Asm(m2, <<Goto(not_boundary), At(boundary), J("Eq", g.have, skip_flush, g.zero)>>)
        rest(m4) ==
            LET m5 == Asm(JoinedAggSteps(m4, scope, cursors.pseudo, g.slots, TRUE), <<Goto(after), At(not_boundary)>>)
                m6 == Asm(JoinedAggSteps(m5, scope, cursors.pseudo, g.slots, FALSE),
                          <<At(after)>> \o [k \in DOMAIN g.snapshot |-> I("Column", cursors.pseudo, k - 1, g.snapshot[k])]
                          \o <<J("SorterNext", cursors.sort, loop, 0)>>)
                skip_tail == m6.nlabel
                m7 == IF select.group_by = <<>> THEN place(new_label(m6), empty)
                      ELSE Asm(new_label(m6), <<J("Eq", g.have, skip_tail, g.zero)>>)
            IN  place(InOrder(<<m1, m2, m3, m4, m5, m6, m7, flush_joined_group(m7, q, scope, g)>>), skip_tail)
    IN  rest(Asm(flush_joined_group(m3, q, scope, g),
                      <<At(skip_flush)>> \o CopyKeys(cur, g.prev) \o <<Const(1, g.have)>>))
compile_joined_grouped_scan(em, q, j, scope, cursors) ==
    LET select == q.select
        slots == collect_aggregates(select)
        offsets == [k \in DOMAIN select.group_by |-> joined_bare_column_offset(scope, select.group_by[k])]
        plans == [k \in DOMAIN offsets |->
                    [target |-> ByColumn(offsets[k]), descending |-> FALSE, nulls_first |-> TRUE,
                     collation |-> CollationOr(scope, select.group_by[k])]]
        keys == GroupOrderKeys(select, scope, slots)
        order_cursors == [sort |-> cursors.pseudo + 2, pseudo |-> cursors.pseudo + 3]
        m0 == IF keys = <<>> THEN em ELSE Emit(em, I4("SorterOpen", order_cursors.sort, 0, 0, keys))
        sorted(m1) ==
            LET empty == IF select.group_by = <<>> THEN m1.nlabel ELSE q.end
                groups(setup) ==
                    LET m2 == setup.em
                        first == m2.nreg + 2 + Len(offsets)
                        g == [zero |-> m2.nreg, have |-> m2.nreg + 1, prev |-> RegsFrom(m2.nreg + 2, Len(offsets)),
                              snapshot |-> RegsFrom(first, TotalWidth(scope)), slots |-> slots, limit |-> setup.limit,
                              flush |-> cursors.pseudo + 1]
                        m3 == Asm(alloc_n(m2, 2 + Len(offsets) + TotalWidth(scope)),
                                  <<Const(0, g.zero), Const(0, g.have)>> \o [k \in DOMAIN g.snapshot |-> I("Null", 0, g.snapshot[k], 0)])
                        ordered(m4) ==
                            LET m5 == InOrder(<<m3, m4, Asm(m4, <<J("SorterSort", order_cursors.sort, q.end, 0)>>)>>)
                                unclassified == Classified(em, select).err
                                error == IF unclassified # "" THEN unclassified ELSE validate_joined_group_projection(select, scope, slots)
                            IN  CASE error # "" -> Fail(em, error)
                                  [] error = "" /\ \E k \in DOMAIN keys : keys[k].index < 0 -> Fail(em, "Unsupported")
                                  [] OTHER -> IF keys = <<>> THEN m4
                                              ELSE DrainJoined(m5, q, scope, order_cursors, slots, setup.limit)
                    IN  ordered(InOrder(<<m0, m1, m2, m3, JoinedGroupLoop(m3, q, scope, cursors, g, offsets, empty)>>))
            IN  groups(compile_limit_setup(Asm(new_label(m1), <<J("SorterSort", cursors.sort, empty, 0)>>), scope, select))
    IN  sorted(compile_join_level(Emit(m0, I("SorterOpen", cursors.sort, 0, 0)),
                                     [j EXCEPT !.leaf = SortLeaf(plans, cursors.sort, here(m0))]))

-----------------------------------------------------------------------------
(* Planning a join. *)

JoinBindings(from, schemas, stats_by_table) ==
    LET refs == table_refs(from)
    IN  [k \in DOMAIN refs |->
            [alias |-> table_binding_name(refs[k]), schema |-> schemas[k], cursor |-> 0, forced_null |-> FALSE,
             stats |-> IF schemas[k].name \in DOMAIN stats_by_table THEN stats_by_table[schemas[k].name] ELSE NoStats]]
Resolved(from, bindings) ==
    [k \in DOMAIN from.joins |-> resolve_join_constraint(from.joins[k], SubSeq(bindings, 1, k), bindings[k + 1])]
\* The cursors are numbered by level.
OpenJoined(em, from, bindings, order, base) ==
    LET refs == table_refs(from)
        step(m, p) == IF refs[order[p]].k = "select" THEN materialize_from(m, refs[order[p]].select, base + p - 1)
                      ELSE OpenTable(m, bindings[order[p]].schema, base + p - 1)
    IN  Through(step, em, [p \in DOMAIN order |-> p])

\* The rows as they come, without groups or a sorter.
JoinedRows(setup, q, j, base) ==
    LET select == q.select
        n == base + Len(j.bindings)
        m1 == IF select.distinct THEN Emit(setup.em, I("OpenEphemeral", n, 0, 0)) ELSE setup.em
        leaf == RowLeaf(q.end, setup.limit, IF select.distinct THEN <<n>> ELSE <<>>, q.sink)
    IN  InOrder(<<m1, compile_join_level(m1, [j EXCEPT !.leaf = leaf])>>)
\* The loops over the opened tables.
JoinedScan(em, q, j, base, scope) ==
    LET select == q.select
        cursors == [sort |-> base + Len(j.bindings), pseudo |-> base + Len(j.bindings) + 1]
        grouped == select.group_by # <<>> \/ select_has_aggregate(select)
    IN  CASE grouped /\ select.distinct -> Fail(em, "Unsupported")
          [] grouped /\ ~select.distinct -> compile_joined_grouped_scan(em, q, j, scope, cursors)
          [] ~grouped /\ select.order_by # <<>> -> compile_joined_sorted_scan(em, q, j, scope, cursors)
          [] OTHER -> InOrder(<<em, JoinedRows(compile_limit_setup(em, scope, select), q, j, base)>>)
\* The tables in their working order.
PlannedJoin(em, q, unplaced, constraints, dedup, order, pos, base) ==
    LET from == q.select.from[1]
        bindings == Listed([k \in DOMAIN unplaced |-> [unplaced[k] EXCEPT !.cursor = base + pos[k] - 1]])
        plan(levels) == [select |-> q.select, bindings |-> bindings, order |-> order, pos |-> pos, levels |-> levels,
                         dedup |-> dedup, leaf |-> <<>>]
        scan(j) == JoinedScan(OpenJoined(em, from, bindings, order, base), q, j, base, join_scope(j, {}))
    IN  scan(plan(LevelPlans(from, bindings, constraints, order, pos)))
compile_select_joined_scan(em, q, schemas, base, stats_by_table) ==
    LET select == q.select
        from == select.from[1]
        refused == \/ select.order_by # <<>> /\ select.distinct
                   \/ \E k \in DOMAIN from.joins : from.joins[k].op = "full"
                   \/ Cardinality({k \in DOMAIN from.joins : from.joins[k].op = "right"}) > 1
        unplaced == Listed(JoinBindings(from, schemas, stats_by_table))
        resolved == Listed(Resolved(from, unplaced))
        bad == SelectInSeq(resolved, LAMBDA r : r[1] # "")
        constraints == [k \in DOMAIN resolved |-> resolved[k][2]]
        dedup == <<{}>> \o [k \in DOMAIN resolved |-> resolved[k][3]]
        planned(order) == PlannedJoin(em, q, unplaced, constraints, dedup, order, Listed(Inverted(order)), base)
    IN  CASE refused -> Fail(em, "Unsupported")
          [] ~refused /\ bad # 0 -> Fail(em, resolved[bad][1])
          [] OTHER -> planned(WorkingOrder(from, unplaced, constraints))

-----------------------------------------------------------------------------
(* FULL JOIN of two tables: the left join, remembering the matched rows of *)
(* the second table, then its other rows with the first table NULL.        *)

NullTable(scope, k) == [scope EXCEPT !.tables[k].forced_null = TRUE]
compile_full_join_two_table(em, q, schemas, stats_by_table) ==
    LET select == q.select
        from == select.from[1]
        sorted == select.order_by # <<>>
        tables == [k \in 1 .. 2 |-> [JoinBindings(from, schemas, stats_by_table)[k] EXCEPT !.cursor = k - 1]]
        resolved == resolve_join_constraint(from.joins[1], <<tables[1]>>, tables[2])
        scope == [tables |-> tables, outer |-> <<>>, hoisted |-> <<>>, memoized |-> <<>>,
                  dedup_star |-> <<{}, resolved[3]>>]
        plans == resolve_join_order_by(select, scope)
        m0 == OpenTable(OpenTable(em, schemas[1], 0), schemas[2], 1)
        scan(setup) ==
            LET m1 == Emit(setup.em, I("OpenEphemeral", 2, 0, 0))
                m2 == IF sorted THEN Emit(m1, I("SorterOpen", 3, 0, 0))
                      ELSE IF select.distinct THEN Emit(m1, I("OpenEphemeral", 3, 0, 0)) ELSE m1
                leaf == IF sorted THEN SortLeaf(plans, 3, here(m1))
                        ELSE RowLeaf(q.end, setup.limit, IF select.distinct THEN <<3>> ELSE <<>>, q.sink)
                l == m2.nlabel
                matched == m2.nreg
                m3 == Asm(alloc(new_labels(m2, 10)),
                          <<J("Rewind", 0, l, 0), At(l + 1), Const(0, matched), J("Rewind", 1, l + 2, 0), At(l + 3)>>)
                m4 == Filter(m3, scope, resolved[2], l + 4)
                outer_rows(m5) ==
                    LET m6 == Asm(m5, <<At(l + 4), J("Next", 1, l + 3, 0), At(l + 2), J("IfNot", matched, l + 5, 0), Goto(l + 6), At(l + 5)>>)
                        right_rows(m7) ==
                            LET m8 == Asm(alloc(m7), <<J("Rewind", 1, l + 7, 0), At(l + 8), I("Rowid", 1, m7.nreg, 0),
                                                       J4("Found", 2, l + 9, m7.nreg, <<"BINARY">>)>>)
                                m9 == Asm(EmitLeaf(m8, select, NullTable(scope, 1), leaf), <<At(l + 9), J("Next", 1, l + 8, 0), At(l + 7)>>)
                                last_row == InOrder(<<m0, m1, m2, m3, m4, m5, m6, m7, m8, m9>>)
                            IN  CASE resolved[1] # "" -> Fail(em, resolved[1])
                                  [] resolved[1] = "" /\ OrderByError(plans) # "" -> Fail(em, OrderByError(plans))
                                  [] OTHER -> IF sorted
                                              THEN DrainJoined(Asm(last_row, <<J("SorterSort", 3, q.end, 0)>>), q, scope,
                                                               [sort |-> 3, pseudo |-> 4], <<>>, setup.limit)
                                              ELSE last_row
                    IN  right_rows(Asm(EmitLeaf(m6, select, NullTable(scope, 2), leaf), <<At(l + 6), J("Next", 0, l + 1, 0), At(l)>>))
            IN  outer_rows(EmitLeaf(Asm(alloc(m4), <<Const(1, matched), I("Rowid", 1, m4.nreg, 0),
                                                    I4("IdxInsert", 2, m4.nreg, 0, <<"BINARY">>)>>), select, scope, leaf))
    IN  scan(compile_limit_setup(m0, scope, select))
=============================================================================
