--------------------------- MODULE SelectReference ---------------------------
(***************************************************************************)
(* What SQL says a statement means, independent of how it is compiled: a   *)
(* three-valued evaluator of expressions over an environment of rows, and  *)
(* the result of a SELECT: the joined rows, filtered, grouped, projected,  *)
(* without duplicates, sorted, cut.  No cursor, register, index or plan    *)
(* appears here; the programs that the code generator produces are checked *)
(* against it.  An environment is [binds, outer, db, params, defs]; a      *)
(* binding is [alias, schema, row], the row <<>> where an outer join has   *)
(* none; defs lists the views, then the common table expressions in scope: *)
(* [name, columns, query, view].                                           *)
(***************************************************************************)
EXTENDS CodegenSelect


Truth(v) == IF IsNull(v) THEN "null" ELSE IF is_falsy(v) THEN "false" ELSE "true"
FromTruth(t) == CASE t = "null" -> VNull [] t = "true" -> VInt(1) [] OTHER -> VInt(0)

\* Kleene's connectives.
RefNot(t) == CASE t = "true" -> "false" [] t = "false" -> "true" [] OTHER -> "null"
RefAnd(a, b) == IF "false" \in {a, b} THEN "false" ELSE IF "null" \in {a, b} THEN "null" ELSE "true"
RefOr(a, b) == RefNot(RefAnd(RefNot(a), RefNot(b)))

\* Innermost scope first; {} when the name means nothing there.
RECURSIVE RefColumn(_, _, _)
RefColumn(env, t, c) ==
    LET own == {b \in DOMAIN env.binds : /\ t \in {"", env.binds[b].alias}
                                         /\ column_index(env.binds[b].schema, c) >= 0}
    IN  IF own # {} THEN {[bind |-> env.binds[b], idx |-> column_index(env.binds[b].schema, c)] : b \in own}
        ELSE IF env.outer = <<>> THEN {} ELSE RefColumn(env.outer[1], t, c)
TheColumn(env, e) == CHOOSE at \in RefColumn(env, e.t, e.c) : TRUE

ValueOfColumn(at) ==
    LET schema == at.bind.schema
    IN  CASE at.bind.row = <<>> -> VNull
          [] at.bind.row # <<>> /\ schema.rowid_alias = at.idx -> VInt(at.bind.row[1])
          [] OTHER -> apply_affinity(ColumnOf(at.bind.row[2], at.idx),
                                     IF EntryOf(schema.types, at.idx, "BLOB") = "REAL" THEN "REAL" ELSE "BLOB")

RefAffinity(env, e) ==
    CASE e.k = "col" -> EntryOf(TheColumn(env, e).bind.schema.types, TheColumn(env, e).idx, "none")
      [] e.k = "cast" -> e.aff
      [] OTHER -> "none"
RefCollations(env, e) ==
    CASE e.k = "collate" -> <<e.coll>>
      [] e.k = "col" -> <<EntryOf(TheColumn(env, e).bind.schema.collations, TheColumn(env, e).idx, "BINARY")>>
      [] OTHER -> <<>>

\* Explicit before implicit, left before right, and BINARY failing all.
RefCollation(env, l, r) ==
    LET explicit == SelectSeq(<<l, r>>, LAMBDA e : e.k = "collate")
        all == RefCollations(env, l) \o RefCollations(env, r) \o <<"BINARY">>
    IN  IF explicit # <<>> THEN explicit[1].coll ELSE all[1]
Holds(op, c) ==
    CASE op = "=" -> c = 0 [] op = "<>" -> c # 0 [] op = "<" -> c < 0 [] op = "<=" -> c <= 0
      [] op = ">" -> c > 0 [] op = ">=" -> c >= 0

\* The rows of a subquery, a parameter because SELECT is defined above this.
CONSTANT RefSubquery(_, _)

RECURSIVE RefValue(_, _), RefTruth(_, _)

RefCompare(env, op, l, r) ==
    LET a == RefValue(env, l)
        b == RefValue(env, r)
        aff == comparison_affinity(RefAffinity(env, l), RefAffinity(env, r))
    IN  IF IsNull(a) \/ IsNull(b) THEN "null"
        ELSE IF Holds(op, compare(apply_affinity(a, aff), apply_affinity(b, aff), RefCollation(env, l, r)))
        THEN "true" ELSE "false"

\* Some item equal: true; else some comparison NULL: NULL; else false.
RefMember(outcomes) ==
    IF "true" \in outcomes THEN "true" ELSE IF "null" \in outcomes THEN "null" ELSE "false"

RefCase(env, e) ==
    LET holds(w) == IF e.operand = <<>> THEN RefTruth(env, w[1]) = "true"
                    ELSE RefCompare(env, "=", e.operand[1], w[1]) = "true"
        at == {k \in DOMAIN e.whens : holds(e.whens[k])}
    IN  IF at # {} THEN RefValue(env, e.whens[CHOOSE k \in at : \A j \in at : k <= j][2])
        ELSE IF e.else = <<>> THEN VNull ELSE RefValue(env, e.else[1])

RefBinary(op, a, b) ==
    CASE IsNull(a) \/ IsNull(b) -> VNull
      [] op = "+" -> checked_add(a, b)
      [] op = "-" -> checked_sub(a, b)
      [] op = "*" -> checked_mul(a, b)
      [] op = "/" -> checked_div(a, b)
      [] op = "%" -> checked_rem(a, b)
      [] op = "&" -> bit_and(a, b)
      [] op = "|" -> bit_or(a, b)
      [] op = "<<" -> shift_left(a, b)
      [] op = ">>" -> shift_right(a, b)
      [] op = "||" -> concat(a, b)

RefTruth(env, e) ==
    CASE e.k = "bin" /\ e.op = "AND" -> RefAnd(RefTruth(env, e.l), RefTruth(env, e.r))
      [] e.k = "bin" /\ e.op = "OR" -> RefOr(RefTruth(env, e.l), RefTruth(env, e.r))
      [] e.k = "bin" /\ e.op \in Comparisons -> RefCompare(env, e.op, e.l, e.r)
      [] e.k = "un" /\ e.op = "NOT" -> RefNot(RefTruth(env, e.e))
      [] e.k = "is" ->
            LET a == RefValue(env, e.l)
                b == RefValue(env, e.r)
                same == IF IsNull(a) \/ IsNull(b) THEN IsNull(a) /\ IsNull(b)
                        ELSE compare(a, b, "BINARY") = 0
            IN  IF same # e.neg THEN "true" ELSE "false"
      [] e.k = "isnull" -> IF IsNull(RefValue(env, e.e)) # e.neg THEN "true" ELSE "false"
      [] e.k = "between" ->
            LET inside == RefAnd(RefCompare(env, ">=", e.e, e.lo), RefCompare(env, "<=", e.e, e.hi))
            IN  IF e.neg THEN RefNot(inside) ELSE inside
      [] e.k = "in" ->
            LET member == RefMember({RefCompare(env, "=", e.e, e.list[k]) : k \in DOMAIN e.list})
            IN  IF e.neg THEN RefNot(member) ELSE member
      [] e.k = "exists" -> IF (RefSubquery(env, e.q) # <<>>) # e.neg THEN "true" ELSE "false"
      [] e.k = "insub" ->
            LET rows == RefSubquery(env, e.q)
                one(k, j) == LET a == RefValue(env, e.es[j])
                             IN  IF IsNull(a) \/ IsNull(rows[k][j]) THEN "null"
                                 ELSE IF compare(a, rows[k][j], "BINARY") = 0 THEN "true" ELSE "false"
                row(k) == FoldLeft(RefAnd, "true", [j \in DOMAIN e.es |-> one(k, j)])
                member == RefMember({row(k) : k \in DOMAIN rows})
            IN  IF e.neg THEN RefNot(member) ELSE member
      [] OTHER -> Truth(RefValue(env, e))

Conditions == {"is", "isnull", "between", "in", "exists", "insub"}
RefValue(env, e) ==
    CASE e.k = "collate" -> RefValue(env, e.e)
      [] e.k = "lit" -> e.v
      [] e.k = "param" -> IF e.n \in DOMAIN env.params THEN env.params[e.n] ELSE VNull
      [] e.k = "col" -> ValueOfColumn(TheColumn(env, e))
      [] e.k = "fn" -> CHOOSE v \in call(e.name, [k \in DOMAIN e.args |-> RefValue(env, e.args[k])]) : TRUE
      [] e.k = "like" ->
            LET args == <<e.p, e.e>> \o e.esc
                t == Truth(CHOOSE v \in call(e.name, [k \in DOMAIN args |-> RefValue(env, args[k])]) : TRUE)
            IN  FromTruth(IF e.neg THEN RefNot(t) ELSE t)
      [] e.k = "un" /\ e.op = "+" -> RefValue(env, e.e)
      [] e.k = "un" /\ e.op = "-" -> RefBinary("-", VInt(0), RefValue(env, e.e))
      [] e.k = "un" /\ e.op = "~" ->
            LET v == RefValue(env, e.e) IN IF IsNull(v) THEN VNull ELSE bit_not(v)
      [] e.k = "bin" /\ e.op \in Arithmetic \union Bits ->
            RefBinary(e.op, RefValue(env, e.l), RefValue(env, e.r))
      [] e.k = "cast" -> cast_to(RefValue(env, e.e), e.aff)
      [] e.k = "case" -> RefCase(env, e)
      [] e.k = "sub" -> LET rows == RefSubquery(env, e.q) IN IF rows = <<>> THEN VNull ELSE rows[1][1]
      [] OTHER -> FromTruth(RefTruth(env, e))

-----------------------------------------------------------------------------
(* SELECT. *)


Top(db, params, defs) == [binds |-> <<>>, outer |-> <<>>, db |-> db, params |-> params, defs |-> defs]
Under(env, binds) == [env EXCEPT !.binds = binds, !.outer = <<env>>]

\* The rows in the order they are found, each with its sort key.
RECURSIVE RefSelect(_, _)
RefRows(env, select) == LET all == RefSelect(env, select) IN [k \in DOMAIN all |-> all[k].row]

-----------------------------------------------------------------------------
(* FROM: each element is a sequence of bindings [alias, schema, row, once].*)

\* A name is a common table expression, which sees those before it, a view,
\* which sees the other views, or a table.
DefOf(env, ref) == IF ref.k = "select" THEN 0 ELSE SelectLastInSeq(env.defs, LAMBDA d : d.name = ref.name)
QueryOf(env, ref) == IF ref.k = "select" THEN ref.select ELSE env.defs[DefOf(env, ref)].query
EnvOf(env, ref) ==
    LET at == DefOf(env, ref)
    IN  CASE at = 0 -> env
          [] at # 0 /\ env.defs[at].view -> [env EXCEPT !.defs = SelectSeq(@, LAMBDA d : d.view /\ d.name # ref.name)]
          [] OTHER -> [env EXCEPT !.defs = SubSeq(@, 1, at - 1)]

RECURSIVE RefSchema(_, _)
RefSchema(env, ref) ==
    LET at == DefOf(env, ref)
        select == QueryOf(env, ref)
        refs == table_refs(select.from[1])
        schemas == [k \in DOMAIN refs |-> RefSchema(EnvOf(env, ref), refs[k])]
        renamed == IF at = 0 THEN <<>> ELSE env.defs[at].columns
    IN  IF ref.k = "name" /\ at = 0 THEN catalog[ref.name]
        ELSE DerivedSchema(table_binding_name(ref),
                           IF renamed # <<>> THEN renamed ELSE subquery_output_columns(select, refs, schemas))
RefTable(env, ref) ==
    LET rows == RefRows(EnvOf(env, ref), QueryOf(env, ref))
    IN  IF ref.k = "name" /\ DefOf(env, ref) = 0 THEN env.db.table[catalog[ref.name].root]
        ELSE [k \in DOMAIN rows |-> <<k, rows[k]>>]

\* A column that USING or NATURAL equates is shown once.
BindOf(env, ref, row) == [alias |-> table_binding_name(ref), schema |-> RefSchema(env, ref), row |-> row, once |-> {}]
SharedColumns(left, join, right) ==
    LET held(c) == \E k \in DOMAIN left : column_index(left[k].schema, c) >= 0
        names == IF join.natural THEN right.schema.columns ELSE join.using
    IN  SelectSeq(names, held)
OnHolds(env, left, join, right) ==
    LET here_env == Under(env, Append(left, right))
        equal(c) == LET l == left[SelectInSeq(left, LAMBDA b : column_index(b.schema, c) >= 0)].alias
                    IN  RefTruth(here_env, Bin("=", Col(l, c), Col(right.alias, c))) = "true"
        shared == SharedColumns(left, join, right)
    IN  /\ \A k \in DOMAIN join.on : RefTruth(here_env, join.on[k]) = "true"
        /\ \A k \in DOMAIN shared : equal(shared[k])
NullRow(binds) == [k \in DOMAIN binds |-> [binds[k] EXCEPT !.row = <<>>]]
\* template: a tuple of the left side, its rows immaterial.
RefJoin(env, template, lefts, join) ==
    LET table == RefTable(env, join.table)
        empty == BindOf(env, join.table, <<>>)
        names == SharedColumns(template, join, empty)
        right(j) == [empty EXCEPT !.row = table[j], !.once = {names[k] : k \in DOMAIN names}]
        none == [empty EXCEPT !.once = {names[k] : k \in DOMAIN names}]
        matches(i) == SelectSeq([j \in DOMAIN table |-> j], LAMBDA j : OnHolds(env, lefts[i], join, right(j)))
        from_left(i) == IF matches(i) = <<>> /\ join.op \in {"left", "full"} THEN <<Append(lefts[i], none)>>
                        ELSE [k \in DOMAIN matches(i) |-> Append(lefts[i], right(matches(i)[k]))]
        alone == SelectSeq([j \in DOMAIN table |-> j],
                           LAMBDA j : \A i \in DOMAIN lefts : ~OnHolds(env, lefts[i], join, right(j)))
        from_right == IF join.op \in {"right", "full"}
                      THEN [k \in DOMAIN alone |-> Append(NullRow(template), right(alone[k]))] ELSE <<>>
    IN  FlattenSeq([i \in DOMAIN lefts |-> from_left(i)]) \o from_right
RefFrom(env, from) ==
    LET first == BindOf(env, from.first, <<>>)
        table == RefTable(env, from.first)
        step(acc, join) == <<Append(acc[1], BindOf(env, join.table, <<>>)), RefJoin(env, acc[1], acc[2], join)>>
        start == <<<<first>>, [k \in DOMAIN table |-> <<[first EXCEPT !.row = table[k]]>>]>>
    IN  Through(step, start, from.joins)

-----------------------------------------------------------------------------
(* Groups. *)

Arguments(envs, e) == [k \in DOMAIN envs |-> [j \in DOMAIN e.args |-> RefValue(envs[k], e.args[j])]]
\* The first of each class of equal elements.
Distinct(seq, Same(_, _)) ==
    Through(LAMBDA acc, x : IF \E k \in DOMAIN acc : Same(acc[k], x) THEN acc ELSE Append(acc, x), <<>>, seq)
SameRow(a, b) == Len(a) = Len(b) /\ \A k \in DOMAIN a : compare(a[k], b[k], "BINARY") = 0
RefAggregate(envs, e) ==
    LET all == Arguments(envs, e)
        args == IF e.distinct THEN Distinct(all, SameRow) ELSE all
        coll == IF e.args = <<>> \/ envs = <<>> THEN <<>> ELSE RefCollations(envs[1], e.args[1])
        step(st, a) == AggregateStep(e.name, st, a, IF coll = <<>> THEN "BINARY" ELSE coll[1])
    IN  CHOOSE v \in finalize(e.name, Through(step, NoState, args)) : TRUE

\* Every aggregate of e replaced by its value over the group.
RECURSIVE Evaluated(_, _)
Evaluated(e, envs) ==
    CASE is_aggregate_call(e) -> Lit(RefAggregate(envs, e))
      [] ~is_aggregate_call(e) /\ e.k \in {"un", "collate", "cast", "isnull"} -> [e EXCEPT !.e = Evaluated(e.e, envs)]
      [] e.k \in {"bin", "is"} -> [e EXCEPT !.l = Evaluated(e.l, envs), !.r = Evaluated(e.r, envs)]
      [] OTHER -> e

\* Rows are grouped when the grouping values are equal, NULLs being equal.
GroupKey(env, select) == [k \in DOMAIN select.group_by |-> RefValue(env, select.group_by[k])]
GroupColls(env, select) ==
    [k \in DOMAIN select.group_by |-> (RefCollations(env, select.group_by[k]) \o <<"BINARY">>)[1]]
RefGroups(envs, select) ==
    LET same(a, b) == LET x == GroupKey(a, select)
                          y == GroupKey(b, select)
                      IN  \A k \in DOMAIN x : compare(x[k], y[k], GroupColls(a, select)[k]) = 0
        heads == Distinct(envs, same)
    IN  IF select.group_by = <<>> THEN <<envs>>
        ELSE [k \in DOMAIN heads |-> SelectSeq(envs, LAMBDA e : same(heads[k], e))]

-----------------------------------------------------------------------------
(* The result. *)

ShownColumns(bind, unique) ==
    LET shown == SelectSeq([j \in DOMAIN bind.schema.columns |-> j],
                           LAMBDA j : ~unique \/ bind.schema.columns[j] \notin bind.once)
    IN  [j \in DOMAIN shown |-> ValueOfColumn([bind |-> bind, idx |-> shown[j] - 1])]
Projected(env, columns, envs) ==
    LET of(b, unique) == ShownColumns(env.binds[b], unique)
        each(c) == CASE c.k = "star" -> FlattenSeq([b \in DOMAIN env.binds |-> of(b, TRUE)])
                     [] c.k = "tablestar" -> of(SelectInSeq(env.binds, LAMBDA b : b.alias = c.t), FALSE)
                     [] OTHER -> <<RefValue(env, Evaluated(c.e, envs))>>
    IN  FlattenSeq([k \in DOMAIN columns |-> each(columns[k])])

\* ORDER BY: the number or the alias of a result column, else an expression.
SortValue(env, select, envs, term, row) ==
    LET plain == IF term.e.k = "collate" THEN term.e.e ELSE term.e
        named == IF plain.k = "col" /\ plain.t = ""
                 THEN SelectInSeq(select.columns, LAMBDA c : c.k = "expr" /\ c.alias = plain.c) ELSE 0
        own == IF named # 0 THEN RefCollations(env, select.columns[named].e) ELSE RefCollations(env, plain)
        colls == (IF term.e.k = "collate" THEN <<term.e.coll>> ELSE own) \o <<"BINARY">>
    IN  [v |-> IF plain.k = "lit" THEN row[plain.v[2]] ELSE IF named # 0 THEN row[named]
               ELSE RefValue(env, Evaluated(plain, envs)),
         coll |-> colls[1], desc |-> term.desc,
         nulls_first |-> IF term.nulls = "" THEN ~term.desc ELSE term.nulls = "first"]
CompareTerm(a, b) ==
    LET c == compare(a.v, b.v, a.coll)
    IN  CASE IsNull(a.v) \/ IsNull(b.v) ->
                IF IsNull(a.v) /\ IsNull(b.v) THEN 0 ELSE IF IsNull(a.v) = a.nulls_first THEN -1 ELSE 1
          [] OTHER -> IF a.desc THEN -c ELSE c
CompareSortKeys(x, y) ==
    LET at == {k \in DOMAIN x : CompareTerm(x[k], y[k]) # 0}
    IN  IF at = {} THEN 0 ELSE LET k == CHOOSE k \in at : \A j \in at : k <= j IN CompareTerm(x[k], y[k])

\* An arm without its ORDER BY and LIMIT; keys by the whole select's terms.
RefArm(env, select, terms) ==
    LET joined == IF select.from = <<>> THEN <<<<>>, <<<<>>>>>> ELSE RefFrom(env, select.from[1])
        all == [k \in DOMAIN joined[2] |-> Under(env, joined[2][k])]
        kept == SelectSeq(all, LAMBDA e : \A k \in DOMAIN select.where : RefTruth(e, select.where[k]) = "true")
        grouped == select.group_by # <<>> \/ select_has_aggregate(select)
        groups == IF grouped THEN RefGroups(kept, select) ELSE [k \in DOMAIN kept |-> <<kept[k]>>]
        head(g) == IF g = <<>> THEN Under(env, NullRow(joined[1])) ELSE g[1]
        passes(g) == \A k \in DOMAIN select.having : RefTruth(head(g), Evaluated(select.having[k], g)) = "true"
        one(g) == LET row == Projected(head(g), select.columns, g)
                  IN  [row |-> row,
                       key |-> [t \in DOMAIN terms |-> SortValue(head(g), select, g, terms[t], row)]]
        passed == SelectSeq(groups, passes)
        rows == [k \in DOMAIN passed |-> one(passed[k])]
    IN  IF select.distinct THEN Distinct(rows, LAMBDA a, b : SameRow(a.row, b.row)) ELSE rows

\* UNION removes the duplicates of what came before it and its own.
RefUncut(env, select) ==
    LET step(acc, arm) ==
            LET both == acc \o RefArm(env, arm.select, select.order_by)
            IN  IF arm.op = "union" THEN Distinct(both, LAMBDA a, b : SameRow(a.row, b.row)) ELSE both
        all == Through(step, RefArm(env, select, select.order_by), select.compound)
    IN  SortSeq(all, LAMBDA a, b : CompareSortKeys(a.key, b.key) < 0)
LimitOf(env, select) ==
    LET n(k) == RefValue(Under(env, <<>>), select.limit[k])[2]
    IN  [limit |-> IF select.limit = <<>> THEN -1 ELSE n(1),
         offset |-> IF Len(select.limit) < 2 \/ n(2) < 0 THEN 0 ELSE n(2)]
\* The number of the rows all that LIMIT and OFFSET leave.
ResultLength(env, select, all) ==
    LET l == LimitOf(env, select)
        left == IF l.offset > Len(all) THEN 0 ELSE Len(all) - l.offset
    IN  IF l.limit < 0 \/ l.limit > left THEN left ELSE l.limit
RefSelect(env, select) ==
    LET cut(all) ==
            LET offset == LimitOf(env, select).offset
            IN  SubSeq(all, offset + 1, offset + ResultLength(env, select, all))
    IN  cut(RefUncut(env, select))

\* Are rows a result of the select?  ORDER BY fixes it only up to ties: a row
\* stands where some row of its tie class may.
RefAllows(env, select, rows) ==
    LET within(all) ==
            LET offset == LimitOf(env, select).offset
                class(p) == {j \in DOMAIN all : CompareSortKeys(all[j].key, all[p].key) = 0}
                uses(p, r) == {k \in DOMAIN rows : offset + k \in class(p) /\ rows[k] = r}
                holds(p, r) == {j \in class(p) : all[j].row = r}
            IN  /\ Len(rows) = ResultLength(env, select, all)
                /\ \A k \in DOMAIN rows :
                      Cardinality(uses(offset + k, rows[k])) <= Cardinality(holds(offset + k, rows[k]))
    IN  within(RefUncut(env, select))
=============================================================================
