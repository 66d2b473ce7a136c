---------------------------- MODULE CodegenSeek -----------------------------
(***************************************************************************)
(* The access paths of a SELECT that replace the scan of its table by      *)
(* seeks: by rowid, by a covering index and by skip scan                   *)
(* (codegen/select/limit_scan.rs), and by BETWEEN, LIKE prefix, IN list    *)
(* and comparison on an indexed column (codegen/select/range_scan.rs).  A  *)
(* try_compile_* operator returns <<em>> when it took the statement and    *)
(* <<>> when it leaves it to the next one.                                 *)
(***************************************************************************)
EXTENDS CodegenRow

-----------------------------------------------------------------------------
(* What a WHERE clause says about a column. *)

top_level_equality_operands(e) == IF e.k = "bin" /\ e.op = "=" THEN <<e.l, e.r>> ELSE <<>>
where_col(e) == IF e.k = "col" THEN e.c ELSE ""
RowidNames == {"rowid", "_rowid_", "oid"}
is_rowid_reference(schema, e) ==
    /\ e.k = "col"
    /\ \/ e.c \in RowidNames
       \/ schema.rowid_alias >= 0 /\ schema.columns[schema.rowid_alias + 1] = e.c
is_supported_seek_operand(e) == e.k = "param" \/ (e.k = "lit" /\ e.v[1] = "int")

RECURSIVE FlattenOp(_, _)
FlattenOp(e, op) == IF e.k = "bin" /\ e.op = op THEN FlattenOp(e.l, op) \o FlattenOp(e.r, op) ELSE <<e>>
flatten_and_conjuncts(e) == FlattenOp(e, "AND")
flatten_or_disjuncts(e) == FlattenOp(e, "OR")

\* The constant each column is equal to: from a conjunct of its own, or
\* through equalities between columns until no column is added.
DirectConstants(conjuncts) ==
    Through(LAMBDA d, c :
        LET o == top_level_equality_operands(c)
        IN  CASE o # <<>> /\ where_col(o[1]) # "" /\ is_supported_seek_operand(o[2]) ->
                    (where_col(o[1]) :> o[2]) @@ d
              [] o # <<>> /\ where_col(o[2]) # "" /\ is_supported_seek_operand(o[1]) ->
                    (where_col(o[2]) :> o[1]) @@ d
              [] OTHER -> d, <<>>, conjuncts)
Follow(d, a, b) == IF a \in DOMAIN d THEN (b :> d[a]) @@ d ELSE d
RECURSIVE Propagate(_, _)
Propagate(d, links) ==
    LET all == Through(LAMBDA m, l : Follow(Follow(m, l[1].c, l[2].c), l[2].c, l[1].c), d, links)
    IN  IF DOMAIN all = DOMAIN d THEN all ELSE Propagate(all, links)
propagate_constants(where) ==
    LET conjuncts == flatten_and_conjuncts(where)
        links == SelectSeq([k \in DOMAIN conjuncts |-> top_level_equality_operands(conjuncts[k])],
                           LAMBDA o : o # <<>> /\ where_col(o[1]) # "" /\ where_col(o[2]) # "")
    IN  Propagate(DirectConstants(conjuncts), links)

\* The operands of col = x OR col = y OR ..., or none.
or_chain_equality_operands(e, matches(_)) ==
    LET disjuncts == flatten_or_disjuncts(e)
        operand(d) ==
            LET o == top_level_equality_operands(d)
            IN  CASE o # <<>> /\ matches(o[1]) -> <<o[2]>>
                  [] o # <<>> /\ ~matches(o[1]) /\ matches(o[2]) -> <<o[1]>>
                  [] OTHER -> <<>>
        operands == [k \in DOMAIN disjuncts |-> operand(disjuncts[k])]
    IN  IF /\ Len(disjuncts) >= 2
           /\ \A k \in DOMAIN operands : operands[k] # <<>> /\ is_supported_seek_operand(operands[k][1])
        THEN FlattenSeq(operands) ELSE <<>>

\* f for the operands in turn; f is told whether the operand is the last.
EachOperand(em, operands, f(_, _, _)) ==
    Through(LAMBDA m, k : f(m, operands[k], k = Len(operands)), em, [k \in DOMAIN operands |-> k])

-----------------------------------------------------------------------------
(* By rowid. *)

resolve_rowid_constant(schema, constants) ==
    LET alias == IF schema.rowid_alias >= 0 THEN {schema.columns[schema.rowid_alias + 1]} ELSE {}
        at == SelectInSeq(<<"rowid", "_rowid_", "oid">> \o SetToSeq(alias), LAMBDA c : c \in DOMAIN constants)
    IN  IF at = 0 THEN <<>> ELSE <<constants[(<<"rowid", "_rowid_", "oid">> \o SetToSeq(alias))[at]]>>

RowidOperands(schema, where) ==
    LET o == top_level_equality_operands(where)
        direct == CASE o # <<>> /\ is_rowid_reference(schema, o[1]) -> <<o[2]>>
                    [] o # <<>> /\ ~is_rowid_reference(schema, o[1]) /\ is_rowid_reference(schema, o[2]) -> <<o[1]>>
                    [] OTHER -> <<>>
        constant == resolve_rowid_constant(schema, propagate_constants(where))
    IN  CASE direct # <<>> /\ is_supported_seek_operand(direct[1]) -> direct
          [] constant # <<>> -> constant
          [] OTHER -> or_chain_equality_operands(where, LAMBDA e : is_rowid_reference(schema, e))

try_compile_rowid_seek(em, q) ==
    LET scope == ScopeOf(q.schema, q.cursors.table)
        operands == RowidOperands(q.schema, q.select.where[1])
        setup == compile_limit_setup(em, scope, q.select)
        seek(m, operand, is_last) ==
            LET m1 == compile_value(m, scope, operand)
                row_skip == m1.nlabel
                not_found == IF is_last THEN q.end ELSE m1.nlabel + 1
                m2 == EmitTo(new_labels(m1, 2), I("SeekRowid", q.cursors.table, 0, m1.out), not_found)
                m3 == place(GuardedRow(m2, q, setup.limit, row_skip, q.cursors.table, FALSE), row_skip)
            IN  IF is_last THEN m3 ELSE place(m3, not_found)
    IN  IF q.select.distinct \/ q.select.where = <<>> \/ operands = <<>> THEN <<>>
        ELSE <<EachOperand(setup.em, operands, seek)>>

-----------------------------------------------------------------------------
(* By a covering index, and by skip scan. *)

\* The names of the result columns when all are plain columns.
bare_result_column_names(select, schema) ==
    LET names(c) == CASE c.k = "star" \/ (c.k = "tablestar" /\ c.t = schema.name) -> <<schema.columns>>
                      [] c.k = "expr" /\ c.e.k = "col" -> <<<<c.e.c>>>>
                      [] OTHER -> <<>>
        all == [k \in DOMAIN select.columns |-> names(select.columns[k])]
    IN  IF \E k \in DOMAIN all : all[k] = <<>> THEN <<>> ELSE <<FlattenSeq(FlattenSeq(all))>>

ColumnInIndex(index, c) == SelectInSeq(index.columns, LAMBDA x : x.name = c)
LeadingCollation(index) == index.columns[1].collation

\* [index, operands] of the index to read in place of the table, or <<>>.
find_covering_index(schema, select) ==
    LET where == select.where[1]
        constants == propagate_constants(where)
        leading(x) == x.columns[1].name
        chain(x) == or_chain_equality_operands(where, LAMBDA e : where_col(e) = leading(x))
        direct == SelectInSeq(schema.indexes, LAMBDA x : leading(x) \in DOMAIN constants)
        chained == SelectInSeq(schema.indexes, LAMBDA x : chain(x) # <<>>)
        index == schema.indexes[IF direct # 0 THEN direct ELSE chained]
        names == bare_result_column_names(select, schema)
        covers(c) == ColumnInIndex(index, c) # 0 \/ is_rowid_reference([schema EXCEPT !.name = ""], Col("", c))
    IN  CASE select.distinct \/ select.where = <<>> -> <<>>
          [] ~(select.distinct \/ select.where = <<>>) /\ direct = 0 /\ chained = 0 -> <<>>
          [] OTHER -> IF names = <<>> \/ \E k \in DOMAIN names[1] : ~covers(names[1][k]) THEN <<>>
                      ELSE <<[index |-> index,
                              operands |-> IF direct # 0 THEN <<constants[leading(index)]>> ELSE chain(index)]>>

open_index_cursor(em, index, cursor) == Emit(em, Op("OpenRead", cursor, index.root, 0, <<>>, 1))

try_compile_covering_index_scan(em, q) ==
    LET match == find_covering_index(q.schema, q.select)
        index == match[1].index
        cursor == q.cursors.sort
        names == bare_result_column_names(q.select, q.schema)[1]
        scope == ScopeOf(q.schema, q.cursors.table)
        scan(setup) ==
            LET coll == LeadingCollation(index)
                read(m, k) == IF ColumnInIndex(index, names[k]) # 0
                              THEN I("Column", cursor, ColumnInIndex(index, names[k]) - 1, m.nreg + k - 1)
                              ELSE I("IdxRowid", cursor, m.nreg + k - 1, 0)
                \* Entries equal to the operand are next to each other.
                seek(m, operand, is_last) ==
                    LET m1 == compile_value(m, scope, operand)
                        loop == m1.nlabel
                        row_skip == m1.nlabel + 1
                        recheck == m1.nlabel + 2
                        not_found == IF is_last THEN q.end ELSE m1.nlabel + 3
                        m2 == Asm(new_labels(m1, 4), <<J4("SeekIndexEq", cursor, not_found, m1.out, <<coll>>), At(loop)>>)
                        m3 == LimitGuards(m2, setup.limit, row_skip, q.end)
                        m4 == Asm(alloc_n(m3, Len(names)), [k \in DOMAIN names |-> read(m3, k)])
                        m5 == EmitSink(m4, q.sink, m3.nreg, Len(names))
                        m6 == Asm(alloc(m5), <<At(row_skip), J("IdxNext", cursor, recheck, 0), Goto(not_found), At(recheck),
                                    I("Column", cursor, 0, m5.nreg),
                                    J4("Eq", m5.nreg, loop, m1.out, [collation |-> coll, affinity |-> "BLOB"]),
                                    Goto(not_found)>>)
                    IN  IF is_last THEN m6 ELSE place(m6, not_found)
            IN  IF match = <<>> THEN <<>> ELSE <<EachOperand(setup.em, match[1].operands, seek)>>
    IN  scan(compile_limit_setup(open_index_cursor(em, index, cursor), scope, q.select))

SKIP_SCAN_MIN_AVG_EQ == 18
is_skip_scan_worthwhile(name, stats) ==
    name \in DOMAIN stats.avg /\ stats.avg[name] >= SKIP_SCAN_MIN_AVG_EQ

\* <<index, column position>>: a constant for a column that is not the first.
find_skip_scan_index(schema, select, stats) ==
    LET constants == propagate_constants(select.where[1])
        position(x) == SelectInSeq(x.columns, LAMBDA c : c.name \in DOMAIN constants)
        at == SelectInSeq(schema.indexes, LAMBDA x : position(x) > 1 /\ is_skip_scan_worthwhile(x.name, stats))
    IN  IF select.distinct \/ schema.without_rowid \/ select.where = <<>> THEN <<>>
        ELSE IF at = 0 THEN <<>> ELSE <<schema.indexes[at], position(schema.indexes[at])>>

try_compile_skip_scan_index(em, q) ==
    LET match == find_skip_scan_index(q.schema, q.select, q.stats)
        cursor == q.cursors.sort
        scope == ScopeOf(q.schema, q.cursors.table)
        operand == propagate_constants(q.select.where[1])[match[1].columns[match[2]].name]
        scan(setup) ==
            LET m1 == compile_value(setup.em, scope, operand)
                loop == m1.nlabel
                row_skip == m1.nlabel + 1
                matched == m1.nlabel + 2
                m2 == Asm(alloc_n(new_labels(m1, 3), 2),
                          <<J("IdxRewind", cursor, q.end, 0), At(loop), I("Column", cursor, match[2] - 1, m1.nreg),
                            J("Eq", m1.nreg, matched, m1.out), Goto(row_skip), At(matched),
                            I("IdxRowid", cursor, m1.nreg + 1, 0), J("SeekRowid", q.cursors.table, row_skip, m1.nreg + 1)>>)
                m3 == GuardedRow(m2, q, setup.limit, row_skip, q.cursors.table, FALSE)
            IN  IF match = <<>> THEN <<>> ELSE <<Asm(m3, <<At(row_skip), J("IdxNext", cursor, loop, 0)>>)>>
    IN  scan(compile_limit_setup(open_index_cursor(em, match[1], cursor), scope, q.select))

-----------------------------------------------------------------------------
(* By a range of an index. *)

is_supported_operand(e) == e.k = "param" \/ (e.k = "lit" /\ e.v[1] \in {"int", "real", "text"})
\* A seek compares storage classes as they are, so the operand must have the
\* class that the column's affinity stores.
operand_matches_column_affinity(e, aff) ==
    e.k = "param" \/ IF e.v[1] = "text" THEN aff = "TEXT" ELSE IsNumericAffinity(aff)
column_affinity(schema, c) ==
    IF column_index(schema, c) >= 0 THEN schema.types[column_index(schema, c) + 1] ELSE "BLOB"
find_leading_index(schema, c) == SelectInSeq(schema.indexes, LAMBDA x : x.columns[1].name = c)
SeekableBy(schema, c, operands) ==
    /\ c # ""
    /\ find_leading_index(schema, c) # 0
    /\ \A k \in DOMAIN operands : /\ is_supported_operand(operands[k])
                                  /\ operand_matches_column_affinity(operands[k], column_affinity(schema, c))

as_forward_comparison(e) ==
    CASE e.k = "bin" /\ e.op \in {">", ">="} /\ where_col(e.l) # "" ->
            <<[col |-> e.l.c, operand |-> e.r, inclusive |-> e.op = ">="]>>
      [] e.k = "bin" /\ e.op \in {"<", "<="} /\ where_col(e.r) # "" ->
            <<[col |-> e.r.c, operand |-> e.l, inclusive |-> e.op = "<="]>>
      [] OTHER -> <<>>

\* The largest character sorts after every text with the prefix.
MaxChar == 255
prefix_upper_bound(prefix) == Append(prefix, MaxChar)
like_literal_prefix(pattern, glob) ==
    LET any == IF glob THEN 42 ELSE 37
        one == IF glob THEN 63 ELSE 95
        prefix == SubSeq(pattern, 1, Len(pattern) - 1)
        used == {prefix[k] : k \in DOMAIN prefix}
    IN  IF \/ Len(pattern) < 2
           \/ pattern[Len(pattern)] # any
           \/ {any, one} \intersect used # {}
           \/ ~glob /\ 92 \in used
           \/ prefix[Len(prefix)] = MaxChar
        THEN <<>> ELSE <<prefix>>

\* The range a WHERE clause asks an index for: the column, the bounds (one or
\* two) and whether the lower one belongs to it; <<>> when it is no range.
BetweenRange(where) ==
    IF where.k = "between" /\ ~where.neg
    THEN <<[col |-> where_col(where.e), bounds |-> <<where.lo, where.hi>>, inclusive |-> TRUE]>> ELSE <<>>
LikeRange(where) ==
    LET prefix == IF where.k = "like" /\ ~where.neg /\ where.esc = <<>> /\ where.p.k = "lit" /\ where.p.v[1] = "text"
                  THEN like_literal_prefix(where.p.v[2], where.name = "glob") ELSE <<>>
    IN  IF prefix = <<>> THEN <<>>
        ELSE <<[col |-> where_col(where.e), inclusive |-> TRUE,
                bounds |-> <<Lit(VText(prefix[1])), Lit(VText(prefix_upper_bound(prefix[1])))>>]>>
ForwardRange(where) ==
    LET f == as_forward_comparison(where)
    IN  IF f = <<>> THEN <<>>
        ELSE <<[col |-> f[1].col, bounds |-> <<f[1].operand>>, inclusive |-> f[1].inclusive]>>

\* A row found in the index: its table row, limits, and the indexed column
\* read from the index when the result is plain columns.
emit_matched_row(em, q, cursor, indexed, limit, row_skip) ==
    LET cols == q.select.columns
        bare == \A k \in DOMAIN cols : cols[k].k = "expr" /\ cols[k].e.k = "col" /\ cols[k].e.t = ""
        m1 == Asm(alloc(em), <<I("IdxRowid", cursor, em.nreg, 0), J("SeekRowid", q.cursors.table, row_skip, em.nreg)>>)
        m2 == LimitGuards(m1, limit, row_skip, q.end)
        read(m, k) ==
            LET n == column_index(q.schema, cols[k].e.c)
                fromIndex == cols[k].e.c = indexed /\ q.schema.rowid_alias # n
                m3 == Emit(alloc(m), I("Column", cursor, 0, m.nreg))
            IN  CASE n < 0 -> Fail(m, "UnknownColumn")
                  [] n >= 0 /\ fromIndex ->
                        IF q.schema.types[n + 1] = "REAL" THEN Emit(m3, I("RealAffinity", m.nreg, 0, 0)) ELSE m3
                  [] OTHER -> emit_column_read(alloc(m), q.schema, q.cursors.table, n, m.nreg)
    IN  IF bare THEN EmitSink(Through(read, m2, [k \in DOMAIN cols |-> k]), q.sink, m2.nreg, Len(cols))
        ELSE emit_row_via_sink(m2, q, q.cursors.table, FALSE)

\* From the lower bound, past the entries equal to it unless it belongs to
\* the range, to the upper bound or the end of the index.  Each entry goes to
\* each(em, row_skip).
CompileRange(em, range, regs, coll, cursor, end, each(_, _)) ==
    LET skip_start == em.nlabel
        past_bound == em.nlabel + 1
        loop == em.nlabel + 2
        row_skip == em.nlabel + 3
        m1 == Asm(new_labels(em, 4), <<J4("SeekIndexGE", cursor, end, regs[1], <<coll>>)>>)
        m2 == IF range.inclusive THEN m1
              ELSE Asm(m1, <<At(skip_start), J4("IdxCompareGT", cursor, past_bound, regs[1], <<coll>>),
                             J("IdxNext", cursor, skip_start, 0), Goto(end), At(past_bound)>>)
        m3 == place(m2, loop)
        m4 == IF Len(regs) = 2 THEN Asm(m3, <<J4("IdxCompareGT", cursor, end, regs[2], <<coll>>)>>) ELSE m3
    IN  Asm(each(m4, row_skip), <<At(row_skip), J("IdxNext", cursor, loop, 0)>>)

TryRange(em, q, range, seekable) ==
    LET r == range[1]
        index == q.schema.indexes[find_leading_index(q.schema, r.col)]
        cursor == q.cursors.sort
        scope == ScopeOf(q.schema, q.cursors.table)
        setup == compile_limit_setup(open_index_cursor(em, index, cursor), scope, q.select)
        bounds == CompileArgs(setup.em, scope, r.bounds, <<>>)
        each(m, row_skip) == emit_matched_row(m, q, cursor, r.col, setup.limit, row_skip)
    IN  IF ~seekable THEN <<>>
        ELSE <<CompileRange(bounds[1], r, bounds[2], LeadingCollation(index), cursor, q.end, each)>>

Ranged(q, range) ==
    /\ ~q.select.distinct
    /\ q.select.where # <<>>
    /\ range # <<>>
    /\ SeekableBy(q.schema, range[1].col, range[1].bounds)
try_compile_between_seek(em, q) ==
    LET range == BetweenRange(q.select.where[1])
    IN  IF q.select.where = <<>> THEN <<>> ELSE TryRange(em, q, range, Ranged(q, range))
try_compile_like_prefix_seek(em, q) ==
    LET range == LikeRange(q.select.where[1])
    IN  IF q.select.where = <<>> THEN <<>> ELSE TryRange(em, q, range, Ranged(q, range))
try_compile_forward_comparison_seek(em, q) ==
    LET range == ForwardRange(q.select.where[1])
    IN  IF q.select.where = <<>> THEN <<>> ELSE TryRange(em, q, range, Ranged(q, range))

\* The same for UPDATE and DELETE, whose rows go to each(em, row_skip).
try_compile_range_row_seek(em, where, schema, scope, cursor, end, each(_, _)) ==
    LET range == IF where.k = "between" /\ ~where.neg THEN BetweenRange(where) ELSE ForwardRange(where)
        index == schema.indexes[find_leading_index(schema, range[1].col)]
        bounds == CompileArgs(open_index_cursor(em, index, cursor), scope, range[1].bounds, <<>>)
    IN  IF range = <<>> \/ ~SeekableBy(schema, range[1].col, range[1].bounds) THEN <<>>
        ELSE <<CompileRange(bounds[1], range[1], bounds[2], LeadingCollation(index), cursor, end, each)>>

\* One seek per value of an IN list; a literal is looked up once.
Once(list) ==
    Through(LAMBDA acc, x : IF x.k = "lit" /\ \E k \in DOMAIN acc : acc[k] = x THEN acc ELSE Append(acc, x), <<>>, list)
try_compile_in_list_seek(em, q) ==
    LET where == q.select.where[1]
        index == q.schema.indexes[find_leading_index(q.schema, where_col(where.e))]
        cursor == q.cursors.sort
        scope == ScopeOf(q.schema, q.cursors.table)
        setup == compile_limit_setup(open_index_cursor(em, index, cursor), scope, q.select)
        seek(m, operand, is_last) ==
            LET m1 == compile_value(m, scope, operand)
                m2 == Asm(new_labels(m1, 2), <<J4("SeekIndexEq", cursor, m1.nlabel, m1.out, <<LeadingCollation(index)>>)>>)
                m3 == emit_matched_row(m2, q, cursor, where_col(where.e), setup.limit, m1.nlabel + 1)
            IN  Asm(m3, <<At(m1.nlabel + 1), At(m1.nlabel)>>)
    IN  CASE q.select.distinct \/ q.select.where = <<>> -> <<>>
          [] ~(q.select.distinct \/ q.select.where = <<>>) /\ where.k = "in" ->
                IF where.neg \/ where.list = <<>> \/ ~SeekableBy(q.schema, where_col(where.e), where.list) THEN <<>>
                ELSE <<JumpTo(EachOperand(setup.em, Once(where.list), seek), q.end)>>
          [] OTHER -> <<>>
=============================================================================
