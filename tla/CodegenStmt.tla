----------------------------- MODULE CodegenStmt -----------------------------
(***************************************************************************)
(* Every statement but SELECT: INSERT, UPDATE and DELETE (codegen/stmt)    *)
(* with the maintenance of indexes (codegen/index_maintenance.rs), CREATE  *)
(* and DROP (codegen/ddl), ANALYZE, transactions, and the dispatch on the  *)
(* kind of statement (codegen/dispatch.rs).                                *)
(*                                                                         *)
(* Cursor 0 is the table's.  A source of a column is <<>>, an expression,  *)
(* or [k |-> "reg", r] for a register of the SELECT that feeds an INSERT.  *)
(***************************************************************************)
EXTENDS CodegenRewrite

IsWritable(schema) == ~schema.without_rowid /\ ~schema.unresolved_autoindex

\* What the column definitions ask of a row.
ColumnPlan(def, is_alias) ==
    LET of_kind(k) == SelectSeq(def.constraints, LAMBDA c : c.k = k)
        defaults == of_kind("default")
    IN  [not_null |-> Has(def.constraints, "notnull") \/ (Has(def.constraints, "primarykey") /\ ~is_alias),
         default |-> IF defaults = <<>> THEN <<>> ELSE <<defaults[Len(defaults)].e>>,
         checks |-> [k \in DOMAIN of_kind("check") |-> of_kind("check")[k].e]]
column_plans(schema) ==
    [k \in DOMAIN schema.columns |-> ColumnPlan(schema.sql.columns[k], schema.rowid_alias = k - 1)]
Checks(schema) ==
    LET table_checks == SelectSeq(schema.sql.constraints, LAMBDA c : c.k = "check")
    IN  FlattenSeq([k \in DOMAIN schema.columns |-> column_plans(schema)[k].checks])
        \o [k \in DOMAIN table_checks |-> table_checks[k].e]
is_autoincrement(schema) ==
    /\ schema.rowid_alias >= 0
    /\ LET cs == schema.sql.columns[schema.rowid_alias + 1].constraints
       IN  \E k \in DOMAIN cs : cs[k].k = "primarykey" /\ cs[k].autoincrement

-----------------------------------------------------------------------------
(* Index maintenance. *)

OpenForWrite(em, schema) == Emit(em, I("OpenWrite", 0, schema.root, 0))
open_index_cursors(em, schema, first) ==
    Asm(em, [k \in DOMAIN schema.indexes |-> Op("OpenWrite", first + k - 1, schema.indexes[k].root, 0, <<>>, 1)])
HasKey(schema, index) ==
    \A k \in DOMAIN index.columns : ~index.columns[k].desc /\ column_index(schema, index.columns[k].name) >= 0
KeyColumn(schema, index, k) == column_index(schema, index.columns[k].name)
ForIndexes(em, schema, f(_, _)) ==
    Through(LAMBDA m, k : IF HasKey(schema, schema.indexes[k]) THEN f(m, k) ELSE Fail(m, "Unsupported"),
            em, [k \in DOMAIN schema.indexes |-> k])

\* The keys of the row that cursor 0 is on.
emit_index_key_ops(em, schema, first) ==
    LET each(m, n) ==
            LET index == schema.indexes[n]
                size == Len(index.columns)
                read(a, k) == emit_column_read(a, schema, 0, KeyColumn(schema, index, k), m.nreg + k - 1)
                m1 == Through(read, alloc_n(m, size + 1), [k \in 1 .. size |-> k])
            IN  Asm(m1, <<I("Rowid", 0, m.nreg + size, 0), I4("IdxDelete", first + n - 1, m.nreg, 0, size + 1)>>)
    IN  ForIndexes(em, schema, each)

\* The keys of the row in the registers regs, as they are before affinity.
emit_index_key_ops_from_regs(em, schema, regs, rowid_reg, first) ==
    LET each(m, n) ==
            LET index == schema.indexes[n]
                size == Len(index.columns)
                from(k) == IF KeyColumn(schema, index, k) = schema.rowid_alias THEN rowid_reg
                           ELSE regs[KeyColumn(schema, index, k) + 1]
                copies == [k \in 1 .. size |-> I("Copy", from(k), m.nreg + k - 1, 0)]
            IN  Asm(alloc_n(m, size + 1),
                    copies \o <<I("Copy", rowid_reg, m.nreg + size, 0),
                                I4("IdxInsert", first + n - 1, m.nreg, 0, Binary(size + 1))>>)
    IN  ForIndexes(em, schema, each)

\* A slip: the index entries of a replaced row stay.
DeleteCurrent_KeepsKeys(em, schema, first) == Emit(em, I("Delete", 0, 0, 0))

DeleteCurrent(em, schema, first) == Emit(emit_index_key_ops(em, schema, first), I("Delete", 0, 0, 0))

-----------------------------------------------------------------------------
(* Constraints.  A violation skips the row or ends the statement. *)

NotNullCode == 1299
PrimaryKeyCode == 1555
CheckCode == 275
UniqueCode == 2067

emit_constraint_violation(em, action, code, row_skip) ==
    IF action = "ignore" THEN JumpTo(em, row_skip) ELSE Emit(em, I("Halt", code, 0, 0))

\* Control comes here when the constraint holds and at label violation when
\* it does not.
Violated(em, violation, action, code, row_skip) ==
    place(emit_constraint_violation(Asm(em, <<Goto(violation + 1), At(violation)>>), action, code, row_skip),
          violation + 1)
NotNullCheck(em, reg, action, row_skip) ==
    Violated(EmitTo(new_labels(em, 2), I("IsNull", reg, 0, 0), em.nlabel), em.nlabel, action, NotNullCode, row_skip)

\* CHECK sees the row as an ordinary record; NULL passes.
CheckSchema(schema) == [schema EXCEPT !.rowid_alias = -1]
RowPseudo(em, regs) ==
    Asm(alloc(em), <<I("MakeRecord", regs[1], Len(regs), em.nreg), I("OpenPseudo", 1, em.nreg, 0)>>)
EmitChecks(em, schema, action, row_skip) ==
    LET check(m, e) ==
            Violated(compile_cond(new_labels(m, 2), single(CheckSchema(schema), 1), e,
                                  null_is_true(Fallthrough, <<m.nlabel>>)),
                     m.nlabel, action, CheckCode, row_skip)
    IN  Through(check, em, Checks(schema))

\* A row of the table with this rowid: skip, replace, or stop.
emit_pk_conflict(em, schema, action, row_skip) ==
    CASE action = "ignore" -> JumpTo(em, row_skip)
      [] action = "replace" -> DeleteCurrent(em, schema, 2)
      [] OTHER -> Emit(em, I("Halt", PrimaryKeyCode, 0, 0))
emit_unique_check(em, schema, n, action, row_skip) ==
    LET index == schema.indexes[n]
        size == Len(index.columns)
        conflict == em.nreg + size
        clear == em.nlabel
        read(m, k) == emit_column_read(m, CheckSchema(schema), 1, KeyColumn(schema, index, k), em.nreg + k - 1)
        m1 == Through(read, alloc_n(em, size + 1), [k \in 1 .. size |-> k])
        m2 == Asm(new_label(m1), <<J4("NoConflict", 1 + n, clear, em.nreg, size)>>)
        m3 == EmitTo(new_label(m2), I("SeekRowid", 0, 0, conflict), m2.nlabel)
        m4 == CASE action = "ignore" -> JumpTo(m2, row_skip)
                [] action = "replace" -> place(DeleteCurrent(m3, schema, 2), m2.nlabel)
                [] OTHER -> Emit(m2, I("Halt", UniqueCode, 0, 0))
    IN  IF ~HasKey(schema, index) THEN Fail(em, "Unsupported") ELSE place(m4, clear)

-----------------------------------------------------------------------------
(* INSERT: [table, columns, source, action]. *)

is_null_literal(source) == source.k = "lit" /\ IsNull(source.v)
\* The value is in register out afterwards.
compile_column_source(em, schema, source) ==
    IF source.k = "reg" THEN Emit(alloc(em), I("Copy", source.r, em.nreg, 0))
    ELSE compile_value(em, single(schema, 0), source)
NullInto(em) == Emit(alloc(em), I("Null", 0, em.nreg, 0))
emit_new_rowid(em, schema) ==
    Emit(alloc(em), IF is_autoincrement(schema) THEN Op("NewRowid", 0, em.nreg, 0, schema.name, 1)
                    ELSE Op("NewRowid", 0, em.nreg, 0, "", 0))

\* The rowid: given and not there yet, or new.
CompileRowid(em, schema, sources, action, row_skip) ==
    LET source == IF schema.rowid_alias >= 0 THEN sources[schema.rowid_alias + 1] ELSE <<>>
        m1 == compile_column_source(em, schema, source[1])
        m2 == emit_pk_conflict(EmitTo(new_label(m1), I("SeekRowid", 0, 0, m1.out), m1.nlabel), schema, action, row_skip)
    IN  IF source = <<>> \/ is_null_literal(source[1]) THEN emit_new_rowid(em, schema)
        ELSE [place(m2, m1.nlabel) EXCEPT !.out = m1.out]

\* A column that is not given, or NULL where REPLACE has a default for it,
\* gets its default; the rowid's own column is stored as NULL.
ChosenSource(plan, source, action) ==
    IF source = <<>> \/ (is_null_literal(source[1]) /\ action = "replace" /\ plan.default # <<>>) THEN plan.default
    ELSE source
compile_row(em, schema, sources, action) ==
    LET plans == column_plans(schema)
        row_skip == em.nlabel
        m1 == CompileRowid(new_label(em), schema, sources, action, row_skip)
        rowid_reg == m1.out
        store(acc, k) ==
            LET chosen == ChosenSource(plans[k], sources[k], action)
                m == IF schema.rowid_alias = k - 1 \/ chosen = <<>> THEN NullInto(acc[1])
                     ELSE compile_column_source(acc[1], schema, chosen[1])
                r == m.out
            IN  <<IF plans[k].not_null /\ schema.rowid_alias # k - 1 THEN NotNullCheck(m, r, action, row_skip) ELSE m,
                  Append(acc[2], r)>>
        stored == Through(store, <<m1, <<>>>>, [k \in DOMAIN plans |-> k])
        regs == stored[2]
        uniques == SelectSeq([k \in DOMAIN schema.indexes |-> k], LAMBDA k : schema.indexes[k].unique)
        m2 == IF Checks(schema) # <<>> \/ uniques # <<>> THEN RowPseudo(stored[1], regs) ELSE stored[1]
        m3 == EmitChecks(m2, schema, action, row_skip)
        m4 == Through(LAMBDA m, n : emit_unique_check(m, schema, n, action, row_skip), m3, uniques)
        m5 == Asm(alloc(m4), <<I4("MakeRecord", regs[1], Len(regs), m4.nreg, schema.types),
                               I("Insert", 0, rowid_reg, m4.nreg)>>)
        m6 == emit_index_key_ops_from_regs(m5, schema, regs, rowid_reg, 2)
    IN  place(InOrder(<<m1, stored[1], m2, m3, m4, m5, m6>>), row_skip)

\* The source of each column: the value at the last position that names it.
SourcesOf(schema, targets, n, source_at(_)) ==
    [c \in DOMAIN schema.columns |->
        LET at == {p \in DOMAIN targets : targets[p] = c - 1 /\ p <= n}
        IN  IF at = {} THEN <<>> ELSE <<source_at(CHOOSE p \in at : \A q \in at : q <= p)>>]
TargetColumns(ins, schema) ==
    IF ins.columns = <<>> THEN [k \in DOMAIN schema.columns |-> k - 1]
    ELSE [k \in DOMAIN ins.columns |-> column_index(schema, ins.columns[k])]
InsertSink(ins, schema) == [kind |-> "insert", ins |-> ins, schema |-> schema]
InsertRow(em, sink, first, n) ==
    LET targets == TargetColumns(sink.ins, sink.schema)
    IN  compile_row(em, sink.schema,
                    SourcesOf(sink.schema, targets, n, LAMBDA p : [k |-> "reg", r |-> first + p - 1]), sink.ins.action)

select_result_column_count_joined(select, schemas) ==
    Len(subquery_output_columns(select, table_refs(select.from[1]), schemas))
InsertError(ins, schema, select_schemas) ==
    LET targets == TargetColumns(ins, schema)
        width == Len(targets)
    IN  CASE ~IsWritable(schema) -> "Unsupported"
          [] IsWritable(schema) /\ \E k \in DOMAIN targets : targets[k] < 0 -> "UnknownColumn"
          [] OTHER ->
                CASE ins.source.k = "values" ->
                        IF \E k \in DOMAIN ins.source.rows : Len(ins.source.rows[k]) \notin {0, width}
                        THEN "RowShapeMismatch" ELSE ""
                  [] ins.source.k = "select" ->
                        CASE ins.source.select.compound # <<>> \/ select_schemas = <<>> -> "Unsupported"
                          [] OTHER -> IF select_result_column_count_joined(ins.source.select, select_schemas) # width
                                      THEN "RowShapeMismatch" ELSE ""
                  [] OTHER -> ""
compile_insert(ins, schema, select_schemas) ==
    LET targets == TargetColumns(ins, schema)
        m0 == open_index_cursors(OpenForWrite(Begin, schema), schema, 2)
        row(m, values) ==
            compile_row(m, schema, SourcesOf(schema, targets, Len(values), LAMBDA p : values[p]), ins.action)
        base == 2 + Len(schema.indexes)
        end == m0.nlabel
        q == Scan(ins.source.select, select_schemas[1],
                  [table |-> base, sort |-> base + 1, pseudo |-> base + 2, distinct |-> base + 3], end, NoStats,
                  InsertSink(ins, schema))
        m1 == CASE ins.source.k = "values" -> Through(row, m0, ins.source.rows)
                [] ins.source.k = "defaults" -> row(m0, <<>>)
                [] ins.source.k = "select" /\ Len(select_schemas) > 1 ->
                        place(compile_select_joined_scan(new_label(m0), q, select_schemas, base, <<>>), end)
                [] OTHER -> place(compile_select_scan(OpenTable(new_label(m0), select_schemas[1], base), q), end)
    IN  IF InsertError(ins, schema, select_schemas) # "" THEN Fail(Begin, InsertError(ins, schema, select_schemas))
        ELSE Emit(InOrder(<<m0, m1>>), I("Halt", 0, 0, 0))

-----------------------------------------------------------------------------
(* DELETE: [table, where]. *)

\* The operand of WHERE rowid = operand.
rowid_seek_operand(schema, where) ==
    LET sides == IF where = <<>> THEN <<>> ELSE top_level_equality_operands(where[1])
        operand == IF is_rowid_reference(schema, sides[1]) THEN sides[2] ELSE sides[1]
    IN  IF /\ sides # <<>>
           /\ is_rowid_reference(schema, sides[1]) \/ is_rowid_reference(schema, sides[2])
           /\ is_supported_seek_operand(operand)
        THEN <<operand>> ELSE <<>>
SeekOperand(em, scope, operand, end) ==
    LET m == compile_value(em, scope, operand) IN EmitTo(m, I("SeekRowid", 0, 0, m.out), end)

\* Every row of cursor 0 that satisfies where goes to each(em, row_skip).
ForMatching(em, scope, where, end, each(_, _)) ==
    LET loop == em.nlabel
        row_skip == em.nlabel + 1
        m1 == Asm(new_labels(em, 2), <<J("Rewind", 0, end, 0), At(loop)>>)
        m2 == Filter(m1, scope, where, row_skip)
    IN  Asm(each(m2, row_skip), <<At(row_skip), J("Next", 0, loop, 0)>>)

compile_delete_with_catalog(del, schema) ==
    LET m0 == open_index_cursors(OpenForWrite(Begin, schema), schema, 1)
        end == m0.nlabel
        scope == single(schema, 0)
        seek == rowid_seek_operand(schema, del.where)
        m1 == IF seek # <<>> THEN DeleteCurrent(SeekOperand(new_label(m0), scope, seek[1], end), schema, 1)
              ELSE ForMatching(new_label(m0), scope, del.where, end, LAMBDA m, row_skip : DeleteCurrent(m, schema, 1))
    IN  IF ~IsWritable(schema) THEN Fail(Begin, "Unsupported") ELSE End(m1, end)

-----------------------------------------------------------------------------
(* UPDATE: [table, set, where, action], set a sequence of [columns, value]. *)


\* The expression assigned to each column, if any; the last one counts.
Assigned(upd, schema) ==
    [c \in DOMAIN schema.columns |->
        LET at == SelectSeq(upd.set, LAMBDA s : \E k \in DOMAIN s.columns : column_index(schema, s.columns[k]) = c - 1)
        IN  IF at = <<>> THEN <<>> ELSE <<at[Len(at)].value>>]
emit_update_row_body(em, schema, scope, assigned, action, row_skip) ==
    LET plans == column_plans(schema)
        size == Len(schema.columns)
        alias == schema.rowid_alias + 1
        m1 == IF alias > 0 /\ assigned[alias] # <<>> THEN compile_value(em, scope, assigned[alias][1])
              ELSE Emit(alloc(em), I("Rowid", 0, em.nreg, 0))
        rowid_reg == m1.out
        value(acc, k) ==
            LET m == CASE k = alias -> NullInto(acc[1])
                       [] k # alias /\ assigned[k] # <<>> -> compile_value(acc[1], scope, assigned[k][1])
                       [] OTHER -> [emit_column_read(alloc(acc[1]), schema, 0, k - 1, acc[1].nreg) EXCEPT
                                        !.out = acc[1].nreg]
            IN  <<m, Append(acc[2], m.out)>>
        valued == Through(value, <<m1, <<>>>>, [k \in 1 .. size |-> k])
        first == valued[1].nreg
        regs == [k \in 1 .. size |-> first + k - 1]
        m2 == CopyAll(alloc_n(valued[1], size), valued[2], first)
        m3 == Through(LAMBDA m, k : IF plans[k].not_null THEN NotNullCheck(m, regs[k], action, row_skip) ELSE m,
                      m2, [k \in 1 .. size |-> k])
        m4 == IF Checks(schema) = <<>> THEN m3 ELSE EmitChecks(RowPseudo(m3, regs), schema, action, row_skip)
        record == m4.nreg
        m5 == DeleteCurrent(Emit(alloc(m4), I4("MakeRecord", first, size, record, schema.types)), schema, 2)
        m6 == Emit(m5, I("Insert", 0, rowid_reg, record))
    IN  InOrder(<<m1, valued[1], m2, m3, m4, m5, emit_index_key_ops_from_regs(m6, schema, regs, rowid_reg, 2)>>)

\* The index that a range condition would be answered from, 0 if none.
range_seek_index_position(where, schema) ==
    LET prefix == LikeRange(where)
        by(c, operands) == IF SeekableBy(schema, c, operands) THEN find_leading_index(schema, c) ELSE 0
    IN  CASE where.k = "between" /\ ~where.neg -> by(where_col(where.e), <<where.lo, where.hi>>)
          [] where.k = "like" -> IF prefix = <<>> THEN 0 ELSE by(prefix[1].col, prefix[1].bounds)
          [] where.k = "in" /\ ~where.neg -> IF where.list = <<>> THEN 0 ELSE by(where_col(where.e), where.list)
          [] OTHER -> LET f == as_forward_comparison(where)
                      IN  IF f = <<>> THEN 0 ELSE by(f[1].col, <<f[1].operand>>)
TouchesScannedIndex(upd, schema) ==
    LET n == IF upd.where = <<>> THEN 0 ELSE range_seek_index_position(upd.where[1], schema)
        index == schema.indexes[n]
    IN  n # 0 /\ \E k \in DOMAIN index.columns :
                    KeyColumn(schema, index, k) < 0 \/ Assigned(upd, schema)[KeyColumn(schema, index, k) + 1] # <<>>

\* The rows are changed one by one where they are found; but when the index
\* that finds them changes too, their rowids are collected first.
compile_update_with_catalog(upd, schema) ==
    LET scope == single(schema, 0)
        assigned == Assigned(upd, schema)
        unknown == \E j \in DOMAIN upd.set : \E k \in DOMAIN upd.set[j].columns :
                        column_index(schema, upd.set[j].columns[k]) < 0
        m0 == open_index_cursors(OpenForWrite(Begin, schema), schema, 2)
        end == m0.nlabel
        m1 == new_label(m0)
        body(m, row_skip) == emit_update_row_body(m, schema, scope, assigned, upd.action, row_skip)
        seek == rowid_seek_operand(schema, upd.where)
        range_cursor == 2 + Len(schema.indexes)
        eph == range_cursor + 1
        collect(m, row_skip) ==
            Asm(alloc_n(m, 3), <<I("IdxRowid", range_cursor, m.nreg, 0), I("Sequence", eph, m.nreg + 1, 0),
                                 I("MakeRecord", m.nreg, 1, m.nreg + 2), I("Insert", eph, m.nreg + 1, m.nreg + 2)>>)
        found_by_index(m, row_skip) ==
            body(Asm(alloc(m), <<I("IdxRowid", range_cursor, m.nreg, 0), J("SeekRowid", 0, row_skip, m.nreg)>>), row_skip)
        touches == TouchesScannedIndex(upd, schema)
        m2 == Emit(m1, Op("OpenEphemeral", eph, 0, 0, <<>>, 1))
        pass1 == IF upd.where = <<>> THEN <<>>
                 ELSE IF touches
                 THEN try_compile_range_row_seek(new_label(m2), upd.where[1], schema, scope, range_cursor, m2.nlabel, collect)
                 ELSE try_compile_range_row_seek(m1, upd.where[1], schema, scope, range_cursor, end, found_by_index)
        m3 == place(pass1[1], m2.nlabel)
        m4 == Asm(alloc(new_labels(m3, 2)),
                  <<J("Rewind", eph, end, 0), At(m3.nlabel), I("Column", eph, 0, m3.nreg),
                    J("SeekRowid", 0, m3.nlabel + 1, m3.nreg)>>)
        pass2 == Asm(body(m4, m3.nlabel + 1), <<At(m3.nlabel + 1), J("Next", eph, m3.nlabel, 0)>>)
        scanned == ForMatching(IF touches THEN place(new_label(m2), m2.nlabel) ELSE m1, scope, upd.where, end, body)
        done == CASE seek # <<>> -> body(SeekOperand(m1, scope, seek[1], end), end)
                  [] seek = <<>> /\ pass1 = <<>> -> scanned
                  [] OTHER -> IF touches THEN pass2 ELSE pass1[1]
    IN  CASE ~IsWritable(schema) -> Fail(Begin, "Unsupported")
          [] IsWritable(schema) /\ unknown -> Fail(Begin, "UnknownColumn")
          [] OTHER -> End(done, end)

-----------------------------------------------------------------------------
(* The other statements are one instruction each. *)

OneOp(i) == Asm(Begin, <<i, I("Halt", 0, 0, 0)>>)
compile_begin == OneOp(I("Transaction", 0, 0, 0))
compile_auto_commit(commit) == OneOp(I("AutoCommit", 0, commit, 0))
compile_create_table(create) == OneOp(I4("CreateTable", 0, 0, 0, [name |-> create.name, sql |-> create]))
compile_create_view(create) == OneOp(I4("CreateView", 0, 0, 0, [name |-> create.name, sql |-> create]))
\* [name, table, unique, columns], columns a sequence of [name, desc, collation].
compile_create_index(ci, schema) ==
    IF ~HasKey(schema, ci) THEN Fail(Begin, "Unsupported")
    ELSE OneOp(I4("CreateIndex", 0, 0, 0,
                  [name |-> ci.name, table |-> schema.name, root |-> schema.root,
                   sql |-> [unique |-> ci.unique, columns |-> ci.columns],
                   columns |-> [k \in DOMAIN ci.columns |-> KeyColumn(schema, ci, k)]]))
Targets1(schema) ==
    [name |-> schema.name, root |-> schema.root,
     indexes |-> [k \in DOMAIN schema.indexes |-> [name |-> schema.indexes[k].name, root |-> schema.indexes[k].root]]]
compile_drop_table(schema) == OneOp(I4("DropTable", 0, 0, 0, Targets1(schema)))
compile_drop_index(name, root) == OneOp(I4("DropIndex", 0, 0, 0, [name |-> name, root |-> root]))
compile_analyze(schemas) == OneOp(I4("Analyze", 0, 0, 0, [k \in DOMAIN schemas |-> Targets1(schemas[k])]))

-----------------------------------------------------------------------------
(* Dispatch, on the catalog that the caller has. *)

find_schema(schemas, name) == SelectInSeq(schemas, LAMBDA s : s.name = name)
AllIndexes(schemas) == FlattenSeq([k \in DOMAIN schemas |-> schemas[k].indexes])
find_index(schemas, name) == SelectInSeq(AllIndexes(schemas), LAMBDA x : x.name = name)
OnTable(schemas, name, f(_)) ==
    IF find_schema(schemas, name) = 0 THEN Fail(Begin, "NoSuchTable") ELSE f(schemas[find_schema(schemas, name)])

AnalyzeStatement(stmt, schemas) ==
    CASE stmt.target = "" -> compile_analyze(schemas)
      [] stmt.target # "" /\ find_schema(schemas, stmt.target) # 0 ->
            compile_analyze(<<schemas[find_schema(schemas, stmt.target)]>>)
      [] OTHER -> Fail(Begin, IF find_index(schemas, stmt.target) # 0 THEN "Unsupported" ELSE "NoSuchTable")
InsertStatement(stmt, schema, schemas, views) ==
    LET select == stmt.source.select
        expanded == expand_views(expand_with_clause(select, <<>>), views)
        refs == table_refs(expanded[2].from[1])
        at(k) == find_schema(schemas, refs[k].name)
    IN  CASE stmt.source.k # "select" -> compile_insert(stmt, schema, <<>>)
          [] stmt.source.k = "select" /\ expanded[1] # "" -> Fail(Begin, expanded[1])
          [] stmt.source.k = "select" /\ expanded[1] = "" /\ expanded[2].from = <<>> -> Fail(Begin, "NoFromClause")
          [] OTHER -> IF \E k \in DOMAIN refs : refs[k].k = "select" \/ at(k) = 0 THEN Fail(Begin, "Unsupported")
                      ELSE compile_insert([stmt EXCEPT !.source.select = expanded[2]], schema,
                                          [k \in DOMAIN refs |-> schemas[at(k)]])
compile_statement(stmt, schemas, views) ==
    CASE stmt.k = "begin" -> compile_begin
      [] stmt.k = "commit" -> compile_auto_commit(1)
      [] stmt.k = "rollback" -> compile_auto_commit(0)
      [] stmt.k = "analyze" -> AnalyzeStatement(stmt, schemas)
      [] stmt.k = "insert" ->
            OnTable(schemas, stmt.table, LAMBDA s : InsertStatement(stmt, s, schemas, views))
      [] stmt.k = "update" -> OnTable(schemas, stmt.table, LAMBDA s : compile_update_with_catalog(stmt, s))
      [] stmt.k = "delete" -> OnTable(schemas, stmt.table, LAMBDA s : compile_delete_with_catalog(stmt, s))
      [] stmt.k = "create table" -> compile_create_table(stmt.create)
      [] stmt.k = "create view" -> compile_create_view(stmt.create)
      [] stmt.k = "create index" -> OnTable(schemas, stmt.create.table, LAMBDA s : compile_create_index(stmt.create, s))
      [] stmt.k = "drop table" -> OnTable(schemas, stmt.name, compile_drop_table)
      [] stmt.k = "drop index" ->
            IF find_index(schemas, stmt.name) = 0 THEN Fail(Begin, "NoSuchIndex")
            ELSE compile_drop_index(stmt.name, AllIndexes(schemas)[find_index(schemas, stmt.name)].root)
=============================================================================
