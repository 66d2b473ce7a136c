--------------------------- MODULE CodegenSubquery ---------------------------
(***************************************************************************)
(* Subqueries in expressions (src/codegen/subquery): scalar, EXISTS and IN *)
(* (scalar.rs), the ones a WHERE clause may evaluate once (correlation.rs) *)
(* and the ones whose result is cached by the outer column they depend on  *)
(* (memoize.rs); the seek they share with joins (join_access.rs,           *)
(* planner.rs).  The pointer that identifies a subquery is the select.     *)
(***************************************************************************)
EXTENDS CodegenAgg

\* Table name -> schema.
CONSTANT catalog

\* FROM: <<>>, or the first table and the joins with the others.
TableRef(name, alias) == [k |-> "name", name |-> name, alias |-> alias]
SelectRef(select, alias) == [k |-> "select", select |-> select, alias |-> alias]
From(table) == <<[first |-> table, joins |-> <<>>]>>

Supported(schema) == [err |-> "", schema |-> <<schema>>]
resolve_subquery_schema(select) ==
    LET first == select.from[1].first
    IN  CASE select.from = <<>> -> [err |-> "", schema |-> <<>>]
          [] select.from # <<>> /\ (select.from[1].joins # <<>> \/ first.k = "select") ->
                [err |-> "Unsupported", schema |-> <<>>]
          [] OTHER -> IF first.name \in DOMAIN catalog THEN Supported(catalog[first.name])
                      ELSE [err |-> "Unsupported", schema |-> <<>>]

-----------------------------------------------------------------------------
(* The seek that an equality allows: by rowid or by a unique index. *)

UNKNOWN == 1000000
Larger1(n) == IF n > 1 THEN n ELSE 1
estimate_scan_cost(stats) == IF stats.rows = <<>> THEN UNKNOWN ELSE stats.rows[1]
estimate_index_cost(name, stats) == IF name \in DOMAIN stats.avg THEN Larger1(stats.avg[name]) ELSE UNKNOWN

column_belongs_to_binding(binding, e) ==
    /\ e.k = "col"
    /\ e.t \in {"", binding.alias}
    /\ column_index(binding.schema, e.c) >= 0
expr_is_safe_join_probe(e, prior) ==
    \/ e.k \in {"lit", "param"}
    \/ \E k \in DOMAIN prior : column_belongs_to_binding(prior[k], e)
\* <<column of the table, the other operand>>, or <<>>.
ProbeSides(binding, on, prior) ==
    LET o == top_level_equality_operands(on)
        sides == IF column_belongs_to_binding(binding, o[1]) THEN <<o[1], o[2]>> ELSE <<o[2], o[1]>>
    IN  CASE o = <<>> -> <<>>
          [] OTHER -> IF column_belongs_to_binding(binding, sides[1]) /\ expr_is_safe_join_probe(sides[2], prior)
                      THEN sides ELSE <<>>
choose_join_access(binding, on, prior) ==
    LET sides == ProbeSides(binding, on, prior)
        at == SelectInSeq(binding.schema.indexes, LAMBDA x :
                  x.unique /\ Len(x.columns) = 1 /\ x.columns[1].name = sides[1].c)
        index == binding.schema.indexes[at]
    IN  CASE sides = <<>> -> <<>>
          [] sides # <<>> /\ is_rowid_reference(binding.schema, sides[1]) ->
                <<[k |-> "rowid", operand |-> sides[2]]>>
          [] OTHER -> IF \/ at = 0
                         \/ estimate_index_cost(index.name, binding.stats) > estimate_scan_cost(binding.stats)
                      THEN <<>> ELSE <<[k |-> "index", operand |-> sides[2], index |-> index]>>

\* The row of cursor that the access finds, by way of index_cursor; without
\* read, its index entry is enough.
AccessRow(em, access, cursor, index_cursor, value_reg, not_found, read) ==
    LET m1 == Asm(open_index_cursor(em, access.index, index_cursor),
                  <<J4("SeekIndexEq", index_cursor, not_found, value_reg, <<LeadingCollation(access.index)>>)>>)
    IN  CASE access.k = "rowid" -> Asm(em, <<J("SeekRowid", cursor, not_found, value_reg)>>)
          [] access.k = "index" /\ ~read -> m1
          [] OTHER -> Asm(alloc(m1), <<I("IdxRowid", index_cursor, m1.nreg, 0),
                                       J("SeekRowid", cursor, not_found, m1.nreg)>>)
EmitAccess(em, access, cursor, value_reg, not_found, read) ==
    AccessRow(IF access.k = "index" THEN alloc_cursor(em) ELSE em, access, cursor, em.ncursor, value_reg, not_found, read)
OpenTable(em, schema, cursor) ==
    IF schema.root > 0 THEN Emit(em, I("OpenRead", cursor, schema.root, 0)) ELSE Fail(em, "Unsupported")

-----------------------------------------------------------------------------
(* Scalar, EXISTS and IN. *)

single_result_expr(select) ==
    IF Len(select.columns) = 1 /\ select.columns[1].k = "expr" THEN <<select.columns[1].e>> ELSE <<>>
SubScope(schema, cursor, outer) == [single(schema, cursor) EXCEPT !.outer = <<outer>>]
EmptyScope(outer) == [tables |-> <<>>, outer |-> <<outer>>, hoisted |-> <<>>, memoized |-> <<>>, dedup_star |-> <<>>]
SeekAccess(scope, outer, where) ==
    IF where = <<>> THEN <<>> ELSE choose_join_access(scope.tables[1], where[1], outer.tables)

\* Every row of the subquery's table that WHERE accepts goes to each(em).
SubScan(em, scope, cursor, where, end, each(_)) ==
    LET loop == em.nlabel
        skip == em.nlabel + 1
        m1 == Asm(new_labels(em, 2), <<J("Rewind", cursor, end, 0), At(loop)>>)
    IN  Asm(each(Filter(m1, scope, where, skip)), <<At(skip), J("Next", cursor, loop, 0)>>)

AggregateSubquery(em, outer, select, schema, cursor, dest) ==
    LET m0 == [em EXCEPT !.ncursor = @ + 3]
        cursors == [table |-> cursor, sort |-> em.ncursor, pseudo |-> em.ncursor + 1, distinct |-> em.ncursor + 2]
        q == Scan(select, schema, cursors, m0.nlabel, NoStats, ScalarSink(dest))
    IN  TakenOr(FirstTaken(<<try_compile_index_only_count(m0, q), try_compile_index_only_sum(m0, q)>>),
                place(compile_grouped_scan(new_label(m0), q, TRUE, <<outer>>), m0.nlabel))

\* The first row's value, NULL without one.
compile_scalar_subquery(em, outer, select) ==
    LET dest == em.nreg
        resolved == resolve_subquery_schema(select)
        m0 == Emit(alloc(em), I("Null", 0, dest, 0))
        e == single_result_expr(select)
        bare == compile_value(m0, EmptyScope(outer), e[1])
        schema == resolved.schema[1]
        cursor == m0.ncursor
        m1 == OpenTable(alloc_cursor(m0), schema, cursor)
        scope == SubScope(schema, cursor, outer)
        end == m1.nlabel
        value(m) == LET v == compile_value(m, scope, e[1]) IN Asm(v, <<I("Copy", v.out, dest, 0), Goto(end)>>)
        access == SeekAccess(scope, outer, select.where)
        m2 == compile_value(new_label(m1), outer, access[1].operand)
        m3 == EmitAccess(Asm(m2, <<J("IsNull", m2.out, end, 0)>>), access[1], cursor, m2.out, end, TRUE)
        m4 == InOrder(<<m0, m1, new_label(m1)>>)
        done == CASE select.order_by # <<>> \/ select.limit # <<>> -> Fail(em, "Unsupported")
                  [] resolved.err # "" -> Fail(m0, resolved.err)
                  [] resolved.err = "" /\ resolved.schema = <<>> ->
                        IF select.where # <<>> \/ e = <<>> THEN Fail(m0, "Unsupported")
                        ELSE Emit(bare, I("Copy", bare.out, dest, 0))
                  [] resolved.schema # <<>> /\ select_has_aggregate(select) ->
                        AggregateSubquery(m1, outer, select, schema, cursor, dest)
                  [] OTHER -> IF e = <<>> THEN Fail(m1, "Unsupported")
                              ELSE IF access # <<>> THEN place(value(m3), end)
                              ELSE place(SubScan(m4, scope, cursor, select.where, end, value), end)
    IN  [done EXCEPT !.out = dest]

\* EXISTS never is NULL.
compile_exists(em, outer, e, t) ==
    LET resolved == resolve_subquery_schema(e.q)
        schema == resolved.schema[1]
        cursor == em.ncursor
        scope == SubScope(schema, cursor, outer)
        yes == IF e.neg THEN t.on_false ELSE t.on_true
        no == IF e.neg THEN t.on_true ELSE t.on_false
        l == LabelOf(em, yes)
        m0 == alloc_cursor(ensure_label(em, yes))
        not_found == m0.nlabel
        access == SeekAccess(scope, outer, e.q.where)
        m1 == compile_value(new_label(m0), outer, access[1].operand)
        m2 == OpenTable(Asm(m1, <<J("IsNull", m1.out, not_found, 0)>>), schema, cursor)
        seek == Asm(EmitAccess(m2, access[1], cursor, m1.out, not_found, FALSE), <<Goto(l)>>)
        scan == SubScan(OpenTable(new_label(m0), schema, cursor), scope, cursor, e.q.where, not_found,
                        LAMBDA m : Asm(m, <<Goto(l)>>))
        m3 == place(IF access # <<>> THEN seek ELSE scan, not_found)
    IN  IF resolved.err # "" \/ resolved.schema = <<>> THEN Fail(em, "Unsupported")
        ELSE PlaceNew(IF no = Fallthrough THEN m3 ELSE JumpTo(m3, no[1]), yes, l)

\* The values in consecutive registers, or an error.
compile_contiguous(em, scope, es) ==
    LET done == CompileArgs(em, scope, es, <<>>)
    IN  IF es = <<>> \/ ~Contiguous(done[2]) THEN Fail(done[1], "Unsupported")
        ELSE [done[1] EXCEPT !.out = done[2][1]]

\* Is the tuple in registers l .. l + n - 1 among the keys of the cursor?
EmitMembership(em, l, n, cursor, neg, t) ==
    LET yes == LabelOf(em, t.on_true)
        m1 == ensure_label(em, t.on_true)
        no == LabelOf(m1, t.on_false)
        unknown == IF t.on_null THEN yes ELSE no
        m2 == Asm(ensure_label(m1, t.on_false),
                  [k \in 1 .. n |-> J("IsNull", l + k - 1, unknown, 0)]
                  \o <<J4("Found", cursor, IF neg THEN no ELSE yes, l, Binary(n)), Goto(IF neg THEN yes ELSE no)>>)
    IN  PlaceNew(PlaceNew(m2, t.on_false, no), t.on_true, yes)

\* The subquery's rows as keys of an ephemeral index.
FillIndex(em, outer, select, exprs, schema, sub_cursor, eph) ==
    LET scope == SubScope(schema, sub_cursor, outer)
        m0 == OpenTable(Emit(em, I("OpenEphemeral", eph, 0, 0)), schema, sub_cursor)
        each(m) == LET v == compile_contiguous(m, scope, exprs)
                   IN  Emit(v, I4("IdxInsert", eph, v.out, 0, Binary(Len(exprs))))
    IN  place(SubScan(new_label(m0), scope, sub_cursor, select.where, m0.nlabel, each), m0.nlabel)

\* The keys once, before the scan: the cursor is em.ncursor + 1.
materialize_in_subquery_index(em, outer, select) ==
    LET e == single_result_expr(select)
    IN  IF e = <<>> THEN Fail(em, "Unsupported")
        ELSE FillIndex([em EXCEPT !.ncursor = @ + 2], outer, select, e, resolve_subquery_schema(select).schema[1],
                       em.ncursor, em.ncursor + 1)

compile_in_subquery_multi(em, outer, e, t) ==
    LET resolved == resolve_subquery_schema(e.q)
        columns == e.q.columns
        exprs == [k \in DOMAIN columns |-> columns[k].e]
        m1 == compile_contiguous(alloc_cursor(em), outer, e.es)
        eph == m1.ncursor
        m2 == FillIndex(alloc_cursor(m1), outer, e.q, exprs, resolved.schema[1], em.ncursor, eph)
    IN  IF \/ resolved.err # "" \/ resolved.schema = <<>>
           \/ Len(columns) # Len(e.es)
           \/ \E k \in DOMAIN columns : columns[k].k # "expr"
        THEN Fail(em, "Unsupported")
        ELSE EmitMembership(m2, m1.out, Len(e.es), eph, e.neg, t)
compile_in_subquery(em, outer, e, t) ==
    LET l == compile_value(em, outer, e.es[1])
    IN  IF Len(e.es) = 1 /\ e.q \in DOMAIN outer.hoisted
        THEN EmitMembership(l, l.out, 1, outer.hoisted[e.q].cursor, e.neg, t)
        ELSE compile_in_subquery_multi(em, outer, e, t)

-----------------------------------------------------------------------------
(* Correlation: which outer columns a subquery depends on. *)

Qualifiers(select, schema) == {schema.name, select.from[1].first.alias}
OwnColumn(e, select, schema) ==
    e.t \in {""} \union Qualifiers(select, schema) /\ column_index(schema, e.c) >= 0
\* The columns under e; "*" stands for a nested subquery, which counts as
\* correlated.
RECURSIVE ColumnsUnder(_)
ColumnsUnder(e) ==
    CASE e.k = "col" -> {e}
      [] e.k \in {"sub", "exists", "insub"} -> {Col("", "*")}
      [] OTHER -> UNION {ColumnsUnder(Operands(e)[k]) : k \in DOMAIN Operands(e)}
ForeignColumns(select, schema) ==
    LET exprs == SelectSeq(select.columns, LAMBDA c : c.k = "expr")
        all == select.where \o [k \in DOMAIN exprs |-> exprs[k].e]
    IN  {e \in UNION {ColumnsUnder(all[k]) : k \in DOMAIN all} : ~OwnColumn(e, select, schema)}
subquery_is_correlated(select, schema) == ForeignColumns(select, schema) # {}
subquery_hoistable(select) ==
    LET resolved == resolve_subquery_schema(select)
    IN  resolved.schema # <<>> /\ ~subquery_is_correlated(select, resolved.schema[1])

\* The operands of a comparison that are subqueries, left first.
ComparedSubqueries(e) ==
    IF e.k = "bin" /\ e.op \in Comparisons THEN SelectSeq(<<e.l, e.r>>, LAMBDA x : x.k = "sub") ELSE <<>>

\* Once before the scan: the keys of an IN, or the value of a comparison's
\* subquery.  Only conjuncts of the WHERE clause are looked at.
try_hoist_conjunct(em, scope, e) ==
    LET subs == SelectSeq(ComparedSubqueries(e), LAMBDA x : subquery_hoistable(x.q))
        hoisted(scalar) ==
            CASE e.k = "insub" ->
                    IF Len(e.es) = 1 /\ subquery_hoistable(e.q)
                    THEN <<materialize_in_subquery_index(em, scope, e.q), e.q :> [k |-> "in", cursor |-> em.ncursor + 1]>>
                    ELSE <<em, <<>>>>
              [] e.k # "insub" /\ subs # <<>> -> <<scalar, subs[1].q :> [k |-> "scalar", reg |-> scalar.out]>>
              [] OTHER -> <<em, <<>>>>
    IN  hoisted(compile_scalar_subquery(em, scope, subs[1].q))
hoist_uncorrelated_where_subqueries(em, scope, where) ==
    LET step(acc, e) == LET h == try_hoist_conjunct(acc[1], scope, e) IN <<h[1], h[2] @@ acc[2]>>
        done == Through(step, <<em, <<>>>>, flatten_and_conjuncts(where))
    IN  <<done[1], [scope EXCEPT !.hoisted = done[2]]>>

\* The one outer column that the subquery depends on, "" when it is none or
\* more than one.
single_correlated_outer_column(select, own, outer_schema) ==
    LET names == {e.c : e \in ForeignColumns(select, own)}
    IN  IF Cardinality(names) = 1 /\ \A c \in names : column_index(outer_schema, c) >= 0
        THEN CHOOSE c \in names : TRUE ELSE ""
subquery_memoizable(select, outer_schema) ==
    LET resolved == resolve_subquery_schema(select)
    IN  IF resolved.schema = <<>> THEN "" ELSE single_correlated_outer_column(select, resolved.schema[1], outer_schema)
try_memoize_conjunct(em, scope, e) ==
    LET subs == SelectSeq(ComparedSubqueries(e), LAMBDA x : subquery_memoizable(x.q, scope.tables[1].schema) # "")
    IN  IF subs = <<>> THEN <<em, <<>>>>
        ELSE <<Emit(alloc_cursor(em), I("OpenEphemeral", em.ncursor, 0, 0)),
               subs[1].q :> [cursor |-> em.ncursor,
                             probe_column |-> subquery_memoizable(subs[1].q, scope.tables[1].schema)]>>
memoize_correlated_where_subqueries(em, scope, where) ==
    LET step(acc, e) == LET m == try_memoize_conjunct(acc[1], scope, e) IN <<m[1], m[2] @@ acc[2]>>
        done == Through(step, <<em, <<>>>>, flatten_and_conjuncts(where))
    IN  <<done[1], [scope EXCEPT !.memoized = done[2]]>>

\* The value kept for this probe value, else computed and kept; a NULL probe
\* is computed every time.
MemoizedCode(em, outer, select, memo, keep(_, _, _)) ==
    LET binding == outer.tables[1]
        dest == em.nreg
        probe == em.nreg + 1
        end == em.nlabel
        null_probe == em.nlabel + 1
        miss == em.nlabel + 2
        hit == em.nlabel + 3
        m1 == Asm(alloc_n(new_labels(em, 4), 2),
                  <<I("Column", binding.cursor, column_index(binding.schema, memo.probe_column), probe),
                    J("IsNull", probe, null_probe, 0), J4("Found", memo.cursor, hit, probe, <<"BINARY">>), Goto(miss),
                    At(hit), I("Column", memo.cursor, 1, dest), Goto(end), At(miss)>>)
        missed(m2) ==
            LET m3 == keep(Emit(m2, I("Copy", m2.out, dest, 0)), probe, dest)
                m4 == compile_scalar_subquery(Asm(m3, <<Goto(end), At(null_probe)>>), outer, select)
            IN  [InOrder(<<m1, m2, m3, m4, Asm(m4, <<I("Copy", m4.out, dest, 0), At(end)>>)>>) EXCEPT !.out = dest]
    IN  missed(compile_scalar_subquery(m1, outer, select))
Keep(em, probe, dest) ==
    Asm(alloc_n(em, 2), <<I("Copy", probe, em.nreg, 0), I("Copy", dest, em.nreg + 1, 0)>>)
compile_memoized_scalar_subquery_KeepsProbe(em, outer, select, memo) ==
    LET keep(m, probe, dest) == Emit(Keep(m, probe, probe), Op("IdxInsert", memo.cursor, m.nreg, 0, <<"BINARY">>, 1))
    IN  MemoizedCode(em, outer, select, memo, keep)
compile_memoized_scalar_subquery(em, outer, select, memo) ==
    LET keep(m, probe, dest) == Emit(Keep(m, probe, dest), Op("IdxInsert", memo.cursor, m.nreg, 0, <<"BINARY">>, 1))
    IN  MemoizedCode(em, outer, select, memo, keep)

\* The subqueries of conditions and of values.
SubqueryCond(em, scope, e, t) ==
    IF e.k = "exists" THEN compile_exists(em, scope, e, t) ELSE compile_in_subquery(em, scope, e, t)
SubqueryValue(em, scope, e) ==
    CASE e.q \in DOMAIN scope.hoisted -> [em EXCEPT !.out = scope.hoisted[e.q].reg]
      [] e.q \notin DOMAIN scope.hoisted /\ e.q \in DOMAIN scope.memoized ->
            compile_memoized_scalar_subquery(em, scope, e.q, scope.memoized[e.q])
      [] OTHER -> compile_scalar_subquery(em, scope, e.q)
=============================================================================
