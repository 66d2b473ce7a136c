---------------------------- MODULE CodegenSelect ----------------------------
(***************************************************************************)
(* SELECT statements (codegen/select/entry.rs), FROM subqueries and        *)
(* WITH (codegen/subquery/from_clause.rs and cte.rs).                      *)
(***************************************************************************)
EXTENDS CodegenJoinScan

-----------------------------------------------------------------------------
(* One table. *)

\* Which scan a SELECT needs.
GroupedSelect(em, q) ==
    TakenOr(try_compile_index_ordered_group_by(em, q), compile_grouped_scan(em, q, FALSE, <<>>))
AggregateSelect(em, q) ==
    TakenOr(FirstTaken(<<try_compile_index_only_count(em, q), try_compile_index_only_sum(em, q),
                         try_compile_direct_agg_scan(em, q)>>),
            compile_grouped_scan(em, q, TRUE, <<>>))
OrderedSelect(em, q, plans) ==
    TakenOr(FirstTaken(<<try_compile_index_ordered_scan(em, q, plans),
                         try_compile_partial_sorted_index_scan(em, q, plans)>>),
            compile_sorted_scan(em, q, plans))
compile_select_scan(em, q) ==
    LET select == q.select
        plans == resolve_order_by(select, q.schema)
        grouped == select.group_by # <<>>
        aggregate == grouped \/ select_has_aggregate(select)
    IN  CASE aggregate /\ (select.order_by # <<>> \/ select.distinct) -> Fail(em, "Unsupported")
          [] grouped /\ select.order_by = <<>> /\ ~select.distinct -> GroupedSelect(em, q)
          [] aggregate /\ ~grouped /\ select.order_by = <<>> /\ ~select.distinct -> AggregateSelect(em, q)
          [] ~aggregate /\ select.having # <<>> -> Fail(em, "Unsupported")
          [] OTHER -> CASE OrderByError(plans) # "" -> Fail(em, OrderByError(plans))
                        [] OrderByError(plans) = "" /\ plans = <<>> -> compile_direct_scan(em, q)
                        [] OTHER -> OrderedSelect(em, q, plans)

-----------------------------------------------------------------------------
(* FROM subqueries. *)

subquery_output_columns(select, refs, schemas) ==
    LET named(t) == SelectInSeq(refs, LAMBDA r : table_binding_name(r) = t)
        each(k) ==
            LET c == select.columns[k]
            IN  CASE c.k = "star" -> FlattenSeq([j \in DOMAIN schemas |-> schemas[j].columns])
                  [] c.k = "tablestar" -> IF named(c.t) = 0 THEN <<>> ELSE schemas[named(c.t)].columns
                  [] OTHER -> <<IF c.alias # "" THEN c.alias
                                ELSE IF c.e.k = "col" THEN c.e.c ELSE "column" \o ToString(k)>>
    IN  FlattenSeq([k \in DOMAIN select.columns |-> each(k)])
\* The table that a subquery in FROM is: no types, collations or indexes.
DerivedSchema(name, columns) ==
    [name |-> name, root |-> 0, columns |-> columns, types |-> [k \in DOMAIN columns |-> "BLOB"], collations |-> <<>>,
     rowid_alias |-> -1, without_rowid |-> FALSE, indexes |-> <<>>]
\* <<error, schema>>
RECURSIVE resolve_from_table_schema(_)
resolve_from_table_schema(ref) ==
    LET refs == table_refs(ref.select.from[1])
        inner == [k \in DOMAIN refs |-> resolve_from_table_schema(refs[k])]
        schemas == [k \in DOMAIN refs |-> inner[k][2]]
    IN  CASE ref.k = "name" ->
                IF ref.name \in DOMAIN catalog THEN <<"", catalog[ref.name]>> ELSE <<"Unsupported", <<>>>>
          [] ref.k = "select" /\ ref.select.from = <<>> -> <<"Unsupported", <<>>>>
          [] OTHER -> IF \E k \in DOMAIN inner : inner[k][1] # "" THEN <<"Unsupported", <<>>>>
                      ELSE <<"", DerivedSchema(ref.alias, subquery_output_columns(ref.select, refs, schemas))>>
Schemas(from) == [k \in DOMAIN table_refs(from) |-> resolve_from_table_schema(table_refs(from)[k])]
SchemaError(resolved) ==
    LET at == SelectInSeq(resolved, LAMBDA r : r[1] # "") IN IF at = 0 THEN "" ELSE resolved[at][1]

\* The subquery's rows as an ephemeral table; a subquery that occurs twice is
\* computed once and its table shared.
RECURSIVE materialize_from_subquery(_, _, _)
materialize_from_subquery(em, select, dest) ==
    LET from == select.from[1]
        resolved == Schemas(from)
        schemas == [k \in DOMAIN resolved |-> resolved[k][2]]
        m0 == new_label(Emit(em, Op("OpenEphemeral", dest, 0, 0, <<>>, 1)))
        end == em.nlabel
        base == em.ncursor
        q == Scan(select, schemas[1], [table |-> base, sort |-> base + 1, pseudo |-> base + 2, distinct |-> base + 3],
                  end, NoStats, TableSink(dest))
        m1 == [m0 EXCEPT !.ncursor = @ + 4]
        m2 == IF from.first.k = "select" THEN materialize_from_subquery(m1, from.first.select, base)
              ELSE OpenTable(m1, schemas[1], base)
        one == InOrder(<<m1, m2, compile_select_scan(m2, q)>>)
        joined == compile_select_joined_scan([m0 EXCEPT !.ncursor = @ + Len(schemas) + 2], q, schemas, base, <<>>)
        done == place(IF from.joins = <<>> THEN one ELSE joined, end)
    IN  CASE select \in DOMAIN em.ctes -> Emit(em, I("OpenDup", dest, em.ctes[select], 0))
          [] select \notin DOMAIN em.ctes /\ (select.compound # <<>> \/ select.from = <<>>) -> Fail(em, "Unsupported")
          [] OTHER -> IF SchemaError(resolved) # "" THEN Fail(em, SchemaError(resolved))
                      ELSE [done EXCEPT !.ctes = (select :> dest) @@ @]

\* WITH: a name that a CTE defines becomes a subquery in FROM; a CTE sees the
\* ones before it.  A CTE is [name, columns, query].
RECURSIVE substitute_cte_refs(_, _)
substitute_table_ref(ref, ctes) ==
    LET at == SelectInSeq(ctes, LAMBDA c : c.name = ref.name)
    IN  CASE ref.k = "select" -> [ref EXCEPT !.select = substitute_cte_refs(ref.select, ctes)]
          [] ref.k = "name" /\ at = 0 -> ref
          [] OTHER -> SelectRef(ctes[at].query, IF ref.alias # "" THEN ref.alias ELSE ctes[at].name)
InFrom(from, ctes) ==
    [k \in DOMAIN from |->
        [first |-> substitute_table_ref(from[k].first, ctes),
         joins |-> [n \in DOMAIN from[k].joins |->
                        [from[k].joins[n] EXCEPT !.table = substitute_table_ref(@, ctes)]]]]
substitute_cte_refs(select, ctes) ==
    [select EXCEPT !.from = InFrom(@, ctes),
                   !.compound = [k \in DOMAIN @ |-> [@[k] EXCEPT !.select.from = InFrom(@, ctes)]]]
apply_column_aliases(select, names) ==
    IF names = <<>> \/ Len(select.columns) # Len(names) \/ \E k \in DOMAIN select.columns : select.columns[k].k # "expr"
    THEN select
    ELSE [select EXCEPT !.columns = [k \in DOMAIN @ |-> [@[k] EXCEPT !.alias = names[k]]]]
expand_with_clause(select, ctes) ==
    LET step(seen, cte) ==
            Append(seen, [cte EXCEPT !.query = apply_column_aliases(substitute_cte_refs(@, seen), cte.columns)])
    IN  substitute_cte_refs(select, Through(step, <<>>, ctes))

-----------------------------------------------------------------------------
(* Statements.  The result is a finished emitter. *)

Begin == place(Asm(new_label(NewEmitter), <<J("Init", 0, 0, 0)>>), 0)
End(em, end) == Asm(em, <<At(end), I("Halt", 0, 0, 0)>>)

compile_select_no_from(select) ==
    LET no_table == DerivedSchema("", <<>>)
        m == compile_row_values(Begin, no_table, result_columns(select, no_table), -1, FALSE)
    IN  IF \/ \E k \in DOMAIN select.columns : select.columns[k].k # "expr"
           \/ select.where # <<>> \/ select.group_by # <<>> \/ select.having # <<>> \/ select.order_by # <<>>
           \/ select.limit # <<>> \/ select.distinct \/ select.compound # <<>>
        THEN Fail(Begin, "Unsupported")
        ELSE Asm(m, <<I("ResultRow", m.out, Len(select.columns), 0), I("Halt", 0, 0, 0)>>)
\* A table, or the table that its subquery is.
OpenFirst(em, ref, schema, cursor) ==
    IF ref.k = "select" THEN materialize_from_subquery(em, ref.select, cursor) ELSE OpenTable(em, schema, cursor)
compile_select_with_catalog_and_stats(select, schema, stats) ==
    LET scan(m0) ==
            LET end == m0.nlabel
                q == Scan(select, schema, for_standalone_select, end, stats, RowSink)
            IN  End(InOrder(<<m0, compile_select_scan(new_label(m0), q)>>), end)
    IN  scan(OpenFirst(Begin, select.from[1].first, schema, 0))
compile_select_joined(select, schemas, stats_by_table) ==
    LET from == select.from[1]
        end == Begin.nlabel
        q == Scan(select, <<>>, <<>>, end, <<>>, RowSink)
        full == from.joins[1].op = "full"
    IN  CASE select.compound # <<>> \/ (Len(from.joins) = 1 /\ full /\ select.order_by # <<>> /\ select.distinct) ->
                Fail(Begin, "Unsupported")
          [] select.compound = <<>> /\ Len(from.joins) = 1 /\ full ->
                End(compile_full_join_two_table(new_label(Begin), q, schemas, stats_by_table), end)
          [] OTHER -> End(compile_select_joined_scan(new_label(Begin), q, schemas, 0, stats_by_table), end)

\* Arms of UNION and UNION ALL: one UNION removes the duplicates of all arms.
\* An arm is [op, select]; ORDER BY and LIMIT are those of the whole.
CompoundSink(select, plans, base, limit, end) ==
    [kind |-> "compound", limit |-> limit, end |-> end,
     dedup |-> IF \E k \in DOMAIN select.compound : select.compound[k].op = "union" THEN <<base>> ELSE <<>>,
     sort |-> IF plans = <<>> THEN <<>> ELSE <<base + 1>>]
SortedCompound(em, n, base, limit, end) ==
    LET loop == em.nlabel
        skip == em.nlabel + 1
        m1 == Asm(alloc(new_labels(em, 2)),
                  <<J("SorterSort", base + 1, end, 0), At(loop), I("SorterData", base + 1, em.nreg, 0),
                    I("OpenPseudo", base + 2, em.nreg, 0)>>)
        m2 == LimitGuards(m1, limit, skip, end)
    IN  Asm(alloc_n(m2, n),
            [k \in 1 .. n |-> I("Column", base + 2, k - 1, m2.nreg + k - 1)]
            \o <<I("ResultRow", m2.nreg, n, 0), At(skip), J("SorterNext", base + 1, loop, 0)>>)
compile_select_compound(first, schemas) ==
    LET arms == <<[first EXCEPT !.order_by = <<>>, !.limit = <<>>]>>
                \o [k \in DOMAIN first.compound |-> [first.compound[k].select EXCEPT !.order_by = <<>>, !.limit = <<>>]]
        widths == [k \in DOMAIN arms |-> Len(result_columns(arms[k], schemas[k]))]
        output == DerivedSchema("", output_column_names(first, schemas[1]))
        plans == resolve_order_by(first, output)
        base == after_arms(Len(arms))
        dedup == CompoundSink(first, plans, base, <<>>, 0).dedup
        m0 == IF dedup = <<>> THEN Begin ELSE Emit(Begin, I("OpenEphemeral", base, 0, 0))
        arms_of(setup) ==
            LET end == setup.em.nlabel
                m1 == IF plans = <<>> THEN new_label(setup.em)
                      ELSE Emit(new_label(setup.em),
                                I4("SorterOpen", base + 1, 0, 0,
                                   [k \in DOMAIN plans |-> SortKey(plans[k], plans[k].target.idx)]))
                sink == CompoundSink(first, plans, base, setup.limit, end)
                arm(m, k) ==
                    LET q(opened) == Scan(arms[k], schemas[k], for_arm(k - 1), opened.nlabel, NoStats, sink)
                        rows(opened) ==
                            place(InOrder(<<opened, compile_select_scan(new_label(opened), q(opened))>>), opened.nlabel)
                    IN  rows(OpenFirst(m, arms[k].from[1].first, schemas[k], for_arm(k - 1).table))
                finished(m2) ==
                    LET m3 == InOrder(<<m0, m1, m2, SortedCompound(m2, widths[1], base, setup.limit, end)>>)
                        joined == \E k \in DOMAIN arms : arms[k].from # <<>> /\ arms[k].from[1].joins # <<>>
                    IN  CASE joined -> Fail(Begin, "Unsupported")
                          [] ~joined /\ OrderByError(plans) # "" -> Fail(Begin, OrderByError(plans))
                          [] ~joined /\ OrderByError(plans) = "" /\ \E k \in DOMAIN plans : plans[k].target.k = "expr" ->
                                Fail(Begin, "Unsupported")
                          [] OTHER -> IF \E k \in DOMAIN arms : widths[k] # widths[1] THEN Fail(Begin, "CompoundColumnMismatch")
                                      ELSE End(IF plans = <<>> THEN m2 ELSE m3, end)
            IN  finished(Through(arm, m1, [k \in DOMAIN arms |-> k]))
    IN  arms_of(compile_limit_setup(m0, single(output, base + 2), first))
=============================================================================
