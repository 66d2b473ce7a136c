--------------------------- MODULE CodegenRewrite ---------------------------
(***************************************************************************)
(* What happens to a SELECT before it is compiled: views become subqueries *)
(* in FROM (codegen/subquery/views.rs), subqueries in FROM are merged into *)
(* the query around them (flatten.rs), WHERE conjuncts move into the       *)
(* subqueries that remain (pushdown.rs); and the whole pipeline            *)
(* (bin/sqlite-rs/query.rs).                                               *)
(***************************************************************************)
EXTENDS CodegenSelect

\* e with its direct operands replaced.
WithOperands(e, o) ==
    LET n == IF e.k = "case" THEN Len(e.operand) ELSE 0
    IN  CASE e.k \in {"un", "isnull", "cast", "collate"} -> [e EXCEPT !.e = o[1]]
          [] e.k \in {"bin", "is"} -> [e EXCEPT !.l = o[1], !.r = o[2]]
          [] e.k = "fn" -> [e EXCEPT !.args = o]
          [] e.k = "between" -> [e EXCEPT !.e = o[1], !.lo = o[2], !.hi = o[3]]
          [] e.k = "in" -> [e EXCEPT !.e = o[1], !.list = Tail(o)]
          [] e.k = "like" -> [e EXCEPT !.e = o[1], !.p = o[2], !.esc = SubSeq(o, 3, Len(o))]
          [] e.k = "case" -> [e EXCEPT !.operand = SubSeq(o, 1, n),
                                       !.whens = [k \in DOMAIN @ |-> <<o[n + 2 * k - 1], o[n + 2 * k]>>],
                                       !.else = SubSeq(o, n + 2 * Len(e.whens) + 1, Len(o))]
          [] e.k = "insub" -> [e EXCEPT !.es = o]
          [] OTHER -> e
and_exprs(where, e) == <<IF where = <<>> THEN e ELSE Bin("AND", where[1], e)>>
rebuild_conjunction(es) ==
    IF es = <<>> THEN <<>> ELSE <<Through(LAMBDA acc, e : Bin("AND", acc, e), es[1], Tail(es))>>

-----------------------------------------------------------------------------
(* Views.  A view is [name, columns, query, ctes]; circular definitions    *)
(* are an error, found by the names on the way.  Results: <<error, x>>.    *)

RECURSIVE expand_table_ref(_, _, _), ExpandFrom(_, _, _), expand_views_in_select(_, _, _)
expand_table_ref(ref, views, stack) ==
    LET at == SelectInSeq(views, LAMBDA v : v.name = ref.name)
        view == views[at]
        query == apply_column_aliases(expand_with_clause(view.query, view.ctes), view.columns)
        inner == expand_views_in_select(query, views, stack \union {view.name})
        nested == expand_views_in_select(ref.select, views, stack)
    IN  CASE ref.k = "select" -> <<nested[1], [ref EXCEPT !.select = nested[2]]>>
          [] ref.k = "name" /\ at = 0 -> <<"", ref>>
          [] ref.k = "name" /\ at # 0 /\ view.name \in stack -> <<"CircularView", ref>>
          [] OTHER -> <<inner[1], SelectRef(inner[2], IF ref.alias # "" THEN ref.alias ELSE view.name)>>
ExpandFrom(from, views, stack) ==
    LET first == expand_table_ref(from[1].first, views, stack)
        joins == [k \in DOMAIN from[1].joins |-> expand_table_ref(from[1].joins[k].table, views, stack)]
    IN  IF from = <<>> THEN <<"", from>>
        ELSE <<IF first[1] # "" THEN first[1] ELSE SchemaError(joins),
               <<[first |-> first[2],
                  joins |-> [k \in DOMAIN joins |-> [from[1].joins[k] EXCEPT !.table = joins[k][2]]]]>>>>
expand_views_in_select(select, views, stack) ==
    LET from == ExpandFrom(select.from, views, stack)
        arms == [k \in DOMAIN select.compound |-> ExpandFrom(select.compound[k].select.from, views, stack)]
    IN  <<IF from[1] # "" THEN from[1] ELSE SchemaError(arms),
          [select EXCEPT !.from = from[2],
                         !.compound = [k \in DOMAIN @ |-> [@[k] EXCEPT !.select.from = arms[k][2]]]]>>
expand_views(select, views) == expand_views_in_select(select, views, {})

-----------------------------------------------------------------------------
(* Which columns of a subquery are columns of its table: all of them, or   *)
(* pairs <<output name, column>>; <<>> when some are not.                  *)

Wildcard == [all |-> TRUE, cols |-> <<>>]
subquery_column_map(inner) ==
    LET c == inner.columns
        name(k) == IF c[k].alias # "" THEN c[k].alias ELSE c[k].e.c
    IN  CASE Len(c) = 1 /\ c[1].k = "star" -> <<Wildcard>>
          [] OTHER -> IF \E k \in DOMAIN c : IF c[k].k # "expr" THEN TRUE ELSE c[k].e.k # "col" THEN <<>>
                      ELSE <<[all |-> FALSE, cols |-> [k \in DOMAIN c |-> <<name(k), c[k].e>>]]>>
Underlying(map, c) == SelectInSeq(map.cols, LAMBDA m : m[1] = c)
OnlyFilters(inner) ==
    /\ ~inner.distinct /\ inner.having = <<>> /\ inner.group_by = <<>> /\ inner.limit = <<>>
    /\ inner.compound = <<>> /\ ~select_has_aggregate(inner)
subquery_pushdown_safe(inner) == OnlyFilters(inner) /\ inner.from # <<>> /\ inner.from[1].joins = <<>>
subquery_flatten_safe_Distinct(inner) ==
    subquery_pushdown_safe([inner EXCEPT !.distinct = FALSE]) /\ inner.from[1].first.k = "name"
subquery_flatten_safe(inner) == subquery_pushdown_safe(inner) /\ inner.from[1].first.k = "name"
\* With other tables beside it, only a qualified name is the subquery's.
MustQualify(select) == select.from = <<>> \/ select.from[1].joins # <<>>
IsOf(e, alias, qualified) == IF e.t # "" THEN e.t = alias ELSE ~qualified

-----------------------------------------------------------------------------
(* Flattening. *)

ExprsOf(select) ==
    LET exprs == SelectSeq(select.columns, LAMBDA c : c.k = "expr")
    IN  [k \in DOMAIN exprs |-> exprs[k].e] \o select.where \o select.group_by \o select.having
        \o [k \in DOMAIN select.order_by |-> select.order_by[k].e]
RECURSIVE expr_references_alias(_, _), select_references_alias(_, _)
expr_references_alias(e, alias) ==
    \/ e.k = "col" /\ e.t = alias
    \/ \E k \in DOMAIN Operands(e) : expr_references_alias(Operands(e)[k], alias)
    \/ e.k \in {"sub", "exists", "insub"} /\ select_references_alias(e.q, alias)
select_references_alias(select, alias) ==
    LET refs(f) == table_refs(f)
        inside(ref) == ref.k = "select" /\ select_references_alias(ref.select, alias)
    IN  \/ \E k \in DOMAIN select.columns : select.columns[k] = TableStar(alias)
        \/ \E k \in DOMAIN ExprsOf(select) : expr_references_alias(ExprsOf(select)[k], alias)
        \/ \E f \in {select.from[k] : k \in DOMAIN select.from} :
              \/ \E k \in DOMAIN refs(f) : inside(refs(f)[k])
              \/ \E k \in DOMAIN f.joins : \E j \in DOMAIN f.joins[k].on : expr_references_alias(f.joins[k].on[j], alias)

\* <<>> when a reference to the alias cannot be rewritten.
RECURSIVE rewrite_expr(_, _, _, _)
rewrite_expr(e, alias, map, qualified) ==
    LET ops == [k \in DOMAIN Operands(e) |-> rewrite_expr(Operands(e)[k], alias, map, qualified)]
        at == Underlying(map, e.c)
    IN  CASE e.k = "col" ->
                IF ~IsOf(e, alias, qualified) THEN <<e>>
                ELSE IF map.all THEN <<[e EXCEPT !.t = ""]>>
                ELSE IF at = 0 THEN <<>> ELSE <<Col(IF qualified THEN alias ELSE "", map.cols[at][2].c)>>
          [] OTHER -> IF \/ \E k \in DOMAIN ops : ops[k] = <<>>
                         \/ e.k \in {"sub", "exists", "insub"} /\ select_references_alias(e.q, alias)
                      THEN <<>> ELSE <<WithOperands(e, [k \in DOMAIN ops |-> ops[k][1]])>>
RewriteAll(es, alias, map, qualified) == [k \in DOMAIN es |-> rewrite_expr(es[k], alias, map, qualified)]
rewrite_alias_in_select(select, alias, map, qualified) ==
    LET all(es) == RewriteAll(es, alias, map, qualified)
        done(es) == [k \in DOMAIN es |-> all(es)[k][1]]
        joins == select.from[1].joins
        ons == FlattenSeq([k \in DOMAIN joins |-> joins[k].on])
        result(c) == IF c.k = "expr" THEN [c EXCEPT !.e = done(<<@>>)[1]] ELSE c
    IN  IF \/ \E k \in DOMAIN select.columns : select.columns[k] = TableStar(alias)
           \/ \E r \in {all(ExprsOf(select) \o ons)[k] : k \in DOMAIN (ExprsOf(select) \o ons)} : r = <<>>
        THEN <<>>
        ELSE <<[select EXCEPT
                   !.columns = [k \in DOMAIN @ |-> result(@[k])],
                   !.where = done(@), !.group_by = done(@), !.having = done(@),
                   !.order_by = [k \in DOMAIN @ |-> [@[k] EXCEPT !.e = done(<<@>>)[1]]],
                   !.from[1].joins = [k \in DOMAIN @ |-> [@[k] EXCEPT !.on = done(@)]]]>>
RECURSIVE qualify_with_outer_alias(_, _)
qualify_with_outer_alias(e, alias) ==
    CASE e.k = "col" -> [e EXCEPT !.t = alias]
      [] e.k \in {"sub", "exists", "insub"} -> e
      [] OTHER -> WithOperands(e, [k \in DOMAIN Operands(e) |-> qualify_with_outer_alias(Operands(e)[k], alias)])

\* The table at slot (0 the first, k that of join k): its subquery's table in
\* its place, its WHERE beside the outer one.
table_ref_at(from, slot) == IF slot = 0 THEN from.first ELSE from.joins[slot].table
WithTableRef(from, slot, ref) ==
    IF slot = 0 THEN [from EXCEPT !.first = ref] ELSE [from EXCEPT !.joins[slot].table = ref]
try_flatten_table_ref_at(select, slot) ==
    LET qualified == MustQualify(select)
        ref == table_ref_at(select.from[1], slot)
        inner == ref.select
        map == subquery_column_map(inner)
        rewritten == rewrite_alias_in_select(select, ref.alias, map[1], qualified)
        pred == qualify_with_outer_alias(inner.where[1], IF qualified THEN ref.alias ELSE "")
        where == IF inner.where = <<>> THEN rewritten[1].where ELSE and_exprs(rewritten[1].where, pred)
    IN  CASE ref.k # "select" -> <<>>
          [] ref.k = "select" /\ ~subquery_flatten_safe(inner) -> <<>>
          [] OTHER -> IF map = <<>> \/ ref.alias = "" \/ rewritten = <<>> THEN <<>>
                      ELSE <<[rewritten[1] EXCEPT
                                 !.where = where,
                                 !.from = <<WithTableRef(@[1], slot, TableRef(inner.from[1].first.name, ref.alias))>>]>>
try_flatten_one(select) ==
    LET joins == select.from[1].joins
        slots == <<0>> \o SelectSeq([k \in DOMAIN joins |-> k], LAMBDA k : joins[k].op \in {"inner", "cross"})
    IN  IF select.from = <<>> THEN <<>>
        ELSE FirstTaken([k \in DOMAIN slots |-> try_flatten_table_ref_at(select, slots[k])])

\* Every subquery of FROM rewritten by the pass that f stands for.
InSubqueries(select, f(_)) ==
    LET sub(ref) == IF ref.k = "select" THEN [ref EXCEPT !.select = f(@)] ELSE ref
    IN  [select EXCEPT !.from =
            [k \in DOMAIN @ |-> [first |-> sub(@[k].first),
                                 joins |-> [j \in DOMAIN @[k].joins |-> [@[k].joins[j] EXCEPT !.table = sub(@)]]]]]
RECURSIVE flatten_from_subqueries(_)
flatten_from_subqueries(select) ==
    LET one == try_flatten_one(select)
    IN  IF one # <<>> THEN flatten_from_subqueries(one[1]) ELSE InSubqueries(select, flatten_from_subqueries)

-----------------------------------------------------------------------------
(* Push-down. *)

RECURSIVE rewrite_for_pushdown(_, _, _, _)
rewrite_for_pushdown(e, alias, map, qualified) ==
    LET ops == [k \in DOMAIN Operands(e) |-> rewrite_for_pushdown(Operands(e)[k], alias, map, qualified)]
        at == Underlying(map, e.c)
    IN  CASE e.k = "col" ->
                IF ~IsOf(e, alias, qualified) THEN <<>>
                ELSE IF map.all THEN <<[e EXCEPT !.t = ""]>>
                ELSE IF at = 0 THEN <<>> ELSE <<map.cols[at][2]>>
          [] e.k \in {"sub", "exists", "insub"} -> <<>>
          [] OTHER -> IF \E k \in DOMAIN ops : ops[k] = <<>> THEN <<>>
                      ELSE <<WithOperands(e, [k \in DOMAIN ops |-> ops[k][1]])>>
try_push_into_table_ref(ref, conjunct, qualified) ==
    LET map == subquery_column_map(ref.select)
        candidate == rewrite_for_pushdown(conjunct, ref.alias, map[1], qualified)
    IN  CASE ref.k # "select" -> <<>>
          [] ref.k = "select" /\ ~subquery_pushdown_safe(ref.select) -> <<>>
          [] OTHER -> IF map = <<>> \/ ref.alias = "" \/ candidate = <<>> THEN <<>>
                      ELSE <<[ref EXCEPT !.select.where = and_exprs(@, candidate[1])]>>
push_conjunct_into_subqueries(select, conjunct, qualified) ==
    LET from == select.from[1]
        slot(k) == LET r == try_push_into_table_ref(table_ref_at(from, k), conjunct, qualified)
                   IN  IF r = <<>> THEN <<>> ELSE <<[select EXCEPT !.from = <<WithTableRef(from, k, r[1])>>]>>
    IN  IF select.from = <<>> THEN <<>> ELSE FirstTaken([k \in 1 .. Len(from.joins) + 1 |-> slot(k - 1)])
RECURSIVE push_down_where_predicates(_)
push_down_where_predicates(select) ==
    LET qualified == MustQualify(select)
        step(acc, e) == LET pushed == push_conjunct_into_subqueries(acc[1], e, qualified)
                        IN  IF pushed = <<>> THEN <<acc[1], Append(acc[2], e)>> ELSE <<pushed[1], acc[2]>>
        conjuncts == IF select.where = <<>> THEN <<>> ELSE flatten_and_conjuncts(select.where[1])
        done == Through(step, <<select, <<>>>>, conjuncts)
        kept == IF Len(done[2]) < Len(conjuncts) THEN rebuild_conjunction(done[2]) ELSE select.where
    IN  InSubqueries([done[1] EXCEPT !.where = kept], push_down_where_predicates)

-----------------------------------------------------------------------------
(* The pipeline.  <<error, rewritten select>>, then the program's emitter. *)

RewriteSelect(select, ctes, views) ==
    LET expanded == expand_views(expand_with_clause(select, ctes), views)
    IN  IF expanded[1] # "" THEN expanded
        ELSE <<"", push_down_where_predicates(flatten_from_subqueries(expanded[2]))>>
StatsOf(stats_by_table, name) == IF name \in DOMAIN stats_by_table THEN stats_by_table[name] ELSE NoStats
compile_select_program(statement, ctes, views, stats_by_table) ==
    LET rewritten == RewriteSelect(statement, ctes, views)
        select == rewritten[2]
        from == select.from[1]
        resolved == Schemas(from)
        schemas == [k \in DOMAIN resolved |-> resolved[k][2]]
        arms == [k \in DOMAIN select.compound |-> resolve_from_table_schema(select.compound[k].select.from[1].first)]
        first_of_arms == <<schemas[1]>> \o [k \in DOMAIN arms |-> arms[k][2]]
        no_from == \E k \in DOMAIN select.compound : select.compound[k].select.from = <<>>
    IN  CASE rewritten[1] # "" -> Fail(Begin, rewritten[1])
          [] rewritten[1] = "" /\ select.from = <<>> -> compile_select_no_from(select)
          [] rewritten[1] = "" /\ select.from # <<>> /\ resolved[1][1] # "" -> Fail(Begin, resolved[1][1])
          [] OTHER ->
                CASE select.compound # <<>> /\ no_from -> Fail(Begin, "NoFromClause")
                  [] select.compound # <<>> /\ ~no_from ->
                        IF SchemaError(arms) # "" THEN Fail(Begin, SchemaError(arms))
                        ELSE compile_select_compound(select, first_of_arms)
                  [] select.compound = <<>> /\ from.joins = <<>> ->
                        compile_select_with_catalog_and_stats(select, schemas[1], StatsOf(stats_by_table, schemas[1].name))
                  [] OTHER -> IF SchemaError(resolved) # "" THEN Fail(Begin, SchemaError(resolved))
                              ELSE compile_select_joined(select, schemas, stats_by_table)
=============================================================================
