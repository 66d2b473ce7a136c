-------------------------------- MODULE MCSql --------------------------------
(***************************************************************************)
(* SELECT statements, compiled by the code generator and run by the VDBE,  *)
(* against what SQL says they return.  One behaviour is one statement: it  *)
(* is prepared, then stepped row by row.  Expressions are compiled alone,  *)
(* as a value and as a condition, and run over every row of a table.       *)
(*                                                                         *)
(* Two tables: t(id INTEGER PRIMARY KEY, a, b) with an index on a and a    *)
(* unique one on (b, a), and u(k, a) with a unique index on k.             *)
(***************************************************************************)
EXTENDS SelectReference, CodegenRewrite

CONSTANTS Compiler(_),         \* Compiled, below
          Machine(_, _, _),    \* Execution, below
          Answers(_, _)        \* SqlAllows, below
VARIABLES query,    \* the statement, or the expression
          program,  \* <<>> until prepared; <<error>> when it does not compile
          vm        \* the machine that runs it
vars == <<query, program, vm>>

-----------------------------------------------------------------------------
(* The database. *)

Index(name, root, cols, unique) ==
    [name |-> name, root |-> root, unique |-> unique,
     columns |-> [k \in DOMAIN cols |-> [name |-> cols[k], desc |-> FALSE, collation |-> "BINARY"]]]
Schema(name, root, columns, types, alias, indexes) ==
    [name |-> name, root |-> root, columns |-> columns, types |-> types,
     collations |-> [k \in DOMAIN columns |-> "BINARY"], rowid_alias |-> alias, without_rowid |-> FALSE,
     indexes |-> indexes]
MCcatalog ==
    "t" :> Schema("t", 2, <<"id", "a", "b">>, <<"INTEGER", "INTEGER", "INTEGER">>, 0,
                  <<Index("t_a", 4, <<"a">>, FALSE), Index("t_ba", 5, <<"b", "a">>, TRUE)>>)
    @@ "u" :> Schema("u", 3, <<"k", "a">>, <<"INTEGER", "INTEGER">>, -1, <<Index("u_k", 6, <<"k">>, TRUE)>>)

N(n) == IF n < 0 THEN VNull ELSE VInt(n)
RowT(id, a, b) == <<id, <<VNull, N(a), N(b)>>>>
RowsT == <<RowT(1, 2, 5), RowT(2, 1, 7), RowT(4, 2, 6), RowT(5, -1, 8), RowT(6, 2, 9)>>
RowsU == <<<<1, <<N(1), N(2)>>>>, <<2, <<N(2), N(3)>>>>, <<3, <<N(6), N(-1)>>>>>>
EntriesOf(rows, cols) ==
    SortSeq([k \in DOMAIN rows |-> [j \in DOMAIN cols |-> rows[k][2][cols[j]]] \o <<VInt(rows[k][1])>>],
            LAMBDA x, y : compare_keys(x, y) < 0)
Db == [table |-> (2 :> RowsT @@ 3 :> RowsU),
       index |-> (4 :> EntriesOf(RowsT, <<2>>) @@ 5 :> EntriesOf(RowsT, <<3, 2>>) @@ 6 :> EntriesOf(RowsU, <<1>>)),
       master |-> <<>>, cookie |-> 0]

-----------------------------------------------------------------------------
(* Statements. *)

Select0 == [distinct |-> FALSE, columns |-> <<StarColumn>>, from |-> From(TableRef("t", "")), where |-> <<>>,
            group_by |-> <<>>, having |-> <<>>, order_by |-> <<>>, limit |-> <<>>, compound |-> <<>>]
C(c) == Col("", c)
X(t, c) == Col(t, c)
L(n) == Lit(N(n))
E(e) == ResultExpr(e, "")
Eq(a, b) == Bin("=", a, b)
Ref(t) == TableRef(t, "")
Asc(e) == OrderTerm(e, FALSE, "")
Desc(e) == OrderTerm(e, TRUE, "")
Count == Fn("count", <<>>)
Agg(f, c) == Fn(f, <<C(c)>>)

\* One table: every access path that WHERE, ORDER BY and LIMIT can select.
\* (DISTINCT a ORDER BY b has no one meaning and is left out.)
Singles ==
    {q \in {[Select0 EXCEPT !.columns = c, !.where = w, !.order_by = o, !.limit = l, !.distinct = d] :
        c \in {<<StarColumn>>, <<E(C("a"))>>, <<ResultExpr(C("b"), "x"), E(Bin("+", C("a"), C("b")))>>},
        w \in {<<>>, <<Eq(C("a"), L(2))>>, <<Eq(C("id"), L(2))>>, <<Bin(">", C("b"), L(5))>>,
               <<Between(C("b"), L(6), L(7), FALSE)>>, <<In(C("id"), <<L(1), L(9), L(4)>>, FALSE)>>,
               <<In(C("b"), <<L(8), L(5)>>, FALSE)>>, <<IsNullE(C("a"), FALSE)>>,
               <<Bin("OR", Eq(C("a"), L(1)), Bin("<", C("b"), L(6)))>>,
               <<Bin("AND", Bin("<=", C("a"), L(2)), Bin("<>", C("id"), L(1)))>>},
        o \in {<<>>, <<Asc(C("a"))>>, <<Desc(C("b"))>>, <<OrderTerm(C("a"), TRUE, "last"), Asc(C("b"))>>,
               <<Asc(L(1))>>},
        l \in {<<>>, <<L(2)>>, <<L(1), L(1)>>, <<L(0)>>},
        d \in BOOLEAN} :
     ~(q.distinct /\ q.columns = <<E(C("a"))>> /\ q.order_by = <<Desc(C("b"))>>)}
Compounds ==
    LET arm(c) == [Select0 EXCEPT !.columns = <<E(C(c))>>, !.from = From(Ref("u"))]
        arms(op) == {<<[op |-> op, select |-> arm("k")]>>,
                     <<[op |-> op, select |-> arm("k")], [op |-> op, select |-> arm("a")]>>}
    IN  {[Select0 EXCEPT !.columns = <<E(C(c))>>, !.compound = a, !.order_by = o, !.limit = l] :
            c \in {"a", "b"}, a \in arms("union") \union arms("union all"),
            o \in {<<>>, <<Desc(L(1))>>}, l \in {<<>>, <<L(2), L(1)>>}}

\* Aggregates over one table, without and with GROUP BY.
Aggregates1 ==
    {[Select0 EXCEPT !.columns = c, !.where = w, !.limit = l] :
        c \in {<<E(Count)>>, <<E(Agg("sum", "a"))>>, <<E(Agg("avg", "b"))>>,
               <<E(Agg("max", "b")), E(Agg("min", "a")), E(Agg("count", "a"))>>,
               <<E(Bin("+", Agg("max", "b"), Count))>>},
        w \in {<<>>, <<Eq(C("a"), L(2))>>, <<Bin(">", C("b"), L(5))>>, <<Bin("<", C("b"), L(0))>>},
        l \in {<<>>, <<L(1)>>, <<L(1), L(1)>>}}
    \union {[Select0 EXCEPT !.columns = <<E(FnDistinct("count", <<C("a")>>))>>, !.where = w] :
               w \in {<<>>, <<Bin(">", C("b"), L(5))>>, <<Bin("<", C("b"), L(0))>>}}
Groups ==
    {[Select0 EXCEPT !.columns = c, !.where = w, !.group_by = g, !.having = h, !.limit = l] :
        c \in {<<E(C("a")), E(Count)>>, <<E(Agg("sum", "b"))>>,
               <<E(C("a")), E(FnDistinct("count", <<Bin("%", C("b"), L(2))>>))>>},
        w \in {<<>>, <<Bin(">", C("b"), L(5))>>},
        g \in {<<C("a")>>, <<C("b")>>, <<Bin("%", C("b"), L(2))>>, <<C("a"), C("b")>>},
        h \in {<<>>, <<Bin(">", Count, L(1))>>},
        l \in {<<>>, <<L(1), L(1)>>}}
    \union {[Select0 EXCEPT !.columns = <<E(C("id")), E(Agg("sum", "a"))>>, !.group_by = <<C("id")>>]}

\* Subqueries in expressions: hoisted, memoized, by a seek, by a scan.
SubU(cols, where) == [Select0 EXCEPT !.columns = cols, !.from = From(Ref("u")), !.where = where]
Scalars == {SubU(<<E(X("u", "k"))>>, <<Eq(X("u", "a"), L(2))>>),
            SubU(<<E(X("u", "k"))>>, <<Eq(X("u", "a"), X("t", "a"))>>),
            SubU(<<E(X("u", "a"))>>, <<Eq(X("u", "k"), X("t", "a"))>>),
            SubU(<<E(Fn("max", <<C("k")>>))>>, <<>>),
            SubU(<<E(Count)>>, <<Bin("<", X("u", "k"), X("t", "b"))>>)}
SubConds ==
    LET some_k == SubU(<<E(X("u", "k"))>>, <<Bin(">", X("u", "k"), L(1))>>)
        all_k == SubU(<<E(X("u", "k"))>>, <<>>)
        same_a == SubU(<<E(X("u", "k"))>>, <<Eq(X("u", "a"), X("t", "a"))>>)
        pairs(w) == SubU(<<E(X("u", "k")), E(X("u", "a"))>>, w)
    IN  {Bin(o, C("b"), Bin("+", Sub(q), L(4))) : o \in {"=", ">"}, q \in Scalars}
        \union {Bin(o, Sub(q), r) : o \in {"<", "="}, q \in Scalars, r \in {C("b"), L(1)}}
        \union {Exists(SubU(<<StarColumn>>, w), n) : n \in BOOLEAN,
                  w \in {<<Eq(X("u", "k"), X("t", "a"))>>, <<Eq(X("u", "a"), X("t", "a"))>>,
                         <<Bin(">", X("u", "k"), L(5))>>, <<>>}}
        \union {InSub(<<C(c)>>, q, n) : n \in BOOLEAN, c \in {"a", "b"}, q \in {all_k, some_k}}
        \union {InSub(<<C("b")>>, same_a, n) : n \in BOOLEAN}
        \union {InSub(<<C("id"), C("a")>>, pairs(w), FALSE) : w \in {<<>>, <<Bin(">", X("u", "k"), L(1))>>}}
Subqueries ==
    {[Select0 EXCEPT !.where = <<e>>, !.order_by = o] : e \in SubConds, o \in {<<>>, <<Desc(C("b"))>>}}
    \union {[Select0 EXCEPT !.where = <<Bin("AND", e, Bin("<>", C("b"), L(7)))>>] : e \in SubConds}
    \union {[Select0 EXCEPT !.columns = <<E(C("b")), E(Sub(q))>>] : q \in Scalars}

\* Joins of two and of three tables.
Joined(first, joins) == <<[first |-> first, joins |-> joins]>>
OnK == Eq(X("t", "a"), X("u", "k"))
Join1 ==
    {<<Join(op, Ref("u"), <<on>>)>> :
        op \in {"inner", "left", "right", "full"},
        on \in {OnK, Eq(X("t", "a"), X("u", "a")), Bin("<", X("t", "a"), X("u", "k")), Eq(X("u", "k"), X("t", "id")),
                Bin("AND", Eq(X("t", "a"), X("u", "a")), Bin(">", X("t", "b"), L(5)))}}
    \union {<<Join("cross", Ref("u"), <<>>)>>}
    \union {<<[Join(op, Ref("u"), <<>>) EXCEPT !.using = <<"a">>]>> : op \in {"inner", "left", "full"}}
    \union {<<[Join("inner", Ref("u"), <<>>) EXCEPT !.natural = TRUE]>>}
Join2 ==
    LET third(op, on) == Join(op, TableRef("t", "x"), <<on>>)
    IN  {<<Join(op, Ref("u"), <<OnK>>), third(op2, on)>> :
            op \in {"inner", "left"}, op2 \in {"inner", "left"},
            on \in {Eq(X("x", "b"), X("u", "a")), Eq(X("x", "a"), X("t", "a"))}}
        \union {<<Join("inner", Ref("u"), <<OnK>>), third("inner", Eq(X("x", "id"), X("u", "a")))>>,
                <<Join("inner", Ref("u"), <<OnK>>), third("right", Eq(X("x", "a"), X("u", "k")))>>}
FromJoin(j) == [Select0 EXCEPT !.from = Joined(Ref("t"), j)]
PlainJoins(joins) == {FromJoin(j) : j \in joins}
FilteredJoins(joins) ==
    {[FromJoin(j) EXCEPT !.columns = <<E(X("t", "b")), E(X("u", "k"))>>, !.where = <<w>>] :
        j \in joins, w \in {Bin(">", X("t", "b"), L(5)), IsNullE(X("u", "k"), FALSE)}}
SortedJoins(joins) ==
    {[FromJoin(j) EXCEPT !.columns = <<E(X("t", "b")), E(X("u", "k"))>>, !.order_by = o, !.limit = l] :
        j \in joins,
        o \in {<<Desc(X("u", "k")), Asc(X("t", "b"))>>,
               <<OrderTerm(Bin("-", X("u", "k"), X("t", "b")), FALSE, "last")>>},
        l \in {<<>>, <<L(2), L(1)>>}}
DistinctJoins(joins) ==
    {[FromJoin(j) EXCEPT !.columns = <<E(X("u", "k"))>>, !.distinct = TRUE, !.limit = l] :
        j \in joins, l \in {<<>>, <<L(2)>>}}
GroupedJoins(joins) ==
    {[FromJoin(j) EXCEPT !.columns = <<E(X("u", "k")), E(Count), E(Fn("sum", <<X("t", "b")>>))>>,
                         !.group_by = g, !.order_by = o] :
        j \in {j \in joins : \A k \in DOMAIN j : j[k].op # "full"},
        g \in {<<X("u", "k")>>, <<X("u", "k"), X("t", "a")>>}, o \in {<<>>, <<Desc(Count), Asc(L(1))>>}}

\* Queries named s: as a subquery in FROM, as a CTE, as a view.
XY(x, y) == <<ResultExpr(x, "x"), ResultExpr(y, "y")>>
Inner ==
    {[Select0 EXCEPT !.columns = XY(C("a"), C("b")), !.where = w] : w \in {<<>>, <<Bin(">", C("b"), L(5))>>}}
    \union {[Select0 EXCEPT !.columns = XY(C("a"), C("a")), !.distinct = TRUE],
            [Select0 EXCEPT !.columns = XY(C("a"), Agg("max", "b")), !.group_by = <<C("a")>>],
            [Select0 EXCEPT !.columns = XY(C("a"), C("b")), !.order_by = <<Desc(C("b"))>>, !.limit = <<L(2)>>]}
    \union {[FromJoin(<<Join(op, Ref("u"), <<OnK>>)>>) EXCEPT !.columns = XY(X("t", "a"), X("u", "k"))] :
              op \in {"inner", "left"}}
OnX == Eq(X("s", "x"), X("u", "k"))
Around(ref) ==
    {[Select0 EXCEPT !.columns = c, !.from = From(ref), !.where = w, !.order_by = o] :
        c \in {<<E(C("y")), E(C("x"))>>, <<E(X("s", "x"))>>},
        w \in {<<>>, <<Bin(">", C("x"), L(1))>>,
               <<Bin("AND", Bin(">", X("s", "y"), L(5)), Bin("<", X("s", "x"), L(2)))>>},
        o \in {<<>>, <<Desc(C("y"))>>}}
    \union {[Select0 EXCEPT !.columns = <<E(X("s", "y")), E(X("u", "k"))>>, !.where = w,
                            !.from = Joined(ref, <<Join(op, Ref("u"), <<OnX>>)>>)] :
              op \in {"inner", "left"}, w \in {<<>>, <<Bin("<", X("s", "x"), L(2))>>, <<Eq(X("u", "k"), L(2))>>}}
OnRight(ref) ==
    {[Select0 EXCEPT !.columns = <<E(X("s", "y")), E(X("u", "k"))>>, !.where = w,
                     !.from = Joined(Ref("u"), <<Join(op, ref, <<OnX>>)>>)] :
        op \in {"inner", "left"}, w \in {<<>>, <<Eq(X("u", "k"), L(2))>>}}
Twice ==
    [Select0 EXCEPT !.columns = <<E(X("p", "y")), E(X("q", "x"))>>,
                    !.from = Joined(TableRef("s", "p"),
                                    <<Join("inner", TableRef("s", "q"), <<Eq(X("p", "x"), X("q", "x"))>>)>>)]

\* Statistics of sqlite_stat1, which may be stale: none, or larger and smaller
\* than the tables are.
Stat(rows, avg) == [rows |-> <<rows>>, avg |-> avg]
StatSets == {"t" :> Stat(30, "t_a" :> 20 @@ "t_ba" :> 1) @@ "u" :> Stat(3, "u_k" :> 1),
             "t" :> Stat(2, "t_a" :> 1) @@ "u" :> Stat(30, "u_k" :> 40),
             "t" :> Stat(40, "t_a" :> 20) @@ "u" :> Stat(50, "u_k" :> 60)}
Statement(family, select, stats) ==
    [family |-> family, select |-> select, ctes |-> <<>>, views |-> <<>>, stats |-> stats]
Statements(family, selects) == {Statement(family, q, <<>>) : q \in selects}
WithStats(family, selects) == {Statement(family, q, st) : q \in selects, st \in StatSets}
WithCte(selects, names) ==
    {[Statement("rewrite", q, <<>>) EXCEPT !.ctes = <<[name |-> "s", columns |-> n, query |-> i]>>] :
        q \in selects, i \in Inner, n \in names}
WithView(selects, names) ==
    {[Statement("rewrite", q, <<>>) EXCEPT !.views = <<[name |-> "s", columns |-> n, query |-> i, ctes |-> <<>>]>>] :
        q \in selects, i \in Inner, n \in names}

\* One of the statements.
AStatement ==
    \/ query \in Statements("single", Singles)
    \/ query \in WithStats("single", {q \in Singles : q.limit = <<>> /\ ~q.distinct})
    \/ query \in Statements("single", Compounds)
    \/ query \in Statements("aggregate", Aggregates1 \union Groups)
    \/ query \in Statements("subquery", Subqueries)
    \/ query \in Statements("join", PlainJoins(Join1 \union Join2))
    \/ query \in Statements("join", FilteredJoins(Join1 \union Join2))
    \/ query \in Statements("join", SortedJoins(Join1) \union DistinctJoins(Join1))
    \/ query \in Statements("join", GroupedJoins(Join1 \union Join2))
    \/ query \in WithStats("join", PlainJoins(Join1 \union Join2))
    \/ \E q \in Inner : query \in Statements("rewrite", Around(SelectRef(q, "s")) \union OnRight(SelectRef(q, "s")))
    \/ query \in WithCte(Around(Ref("s")), {<<>>}) \union WithView(Around(Ref("s")), {<<>>})
    \/ query \in WithCte({Twice}, {<<>>, <<"x", "y">>}) \union WithView({Twice}, {<<>>, <<"x", "y">>})

-----------------------------------------------------------------------------
(* Expressions over e(a INTEGER, b TEXT COLLATE NOCASE, c REAL). *)

SchemaE == [name |-> "e", root |-> 7, columns |-> <<"a", "b", "c">>, types |-> <<"INTEGER", "TEXT", "REAL">>,
            collations |-> <<"BINARY", "NOCASE", "BINARY">>, rowid_alias |-> -1, without_rowid |-> FALSE,
            indexes |-> <<>>]
ValuesA == <<VNull, VInt(0), VInt(1)>>
ValuesB == <<VNull, VText(<<49>>), VText(<<65>>)>>
ValuesC == <<VNull, VReal(1), VInt(1)>>
\* Rows in which every two columns take every pair of their values.
RowsE ==
    [n \in 1 .. 9 |->
        <<n, <<ValuesA[1 + (n % 3)], ValuesB[1 + ((n \div 3) % 3)], ValuesC[1 + ((n + (n \div 3)) % 3)]>>>>]
DbE == [table |-> (7 :> RowsE), index |-> <<>>, master |-> <<>>, cookie |-> 0]
Leaves == {C("a"), C("b"), X("e", "c"), Lit(VNull), Lit(VInt(1)), Lit(VText(<<97>>))}
Simple ==
    {Bin(op, l, r) : op \in {"=", "<>", "<=", "+", "||", "%"}, l \in Leaves, r \in Leaves}
    \union {Is(l, r, n) : l \in Leaves, r \in {Lit(VNull), C("b")}, n \in BOOLEAN}
    \union {Between(l, C("a"), Lit(VInt(1)), n) : l \in Leaves, n \in BOOLEAN}
    \union {In(l, list, n) : l \in Leaves, list \in {<<>>, <<C("a"), Lit(VNull)>>}, n \in BOOLEAN}
    \union {IsNullE(l, n) : l \in Leaves, n \in BOOLEAN}
    \union {Like(C("b"), l, <<>>, "like", n) : l \in Leaves, n \in BOOLEAN}
    \union {CastTo(l, "INTEGER") : l \in Leaves}
    \union {Case(<<l>>, <<<<C("a"), Lit(VInt(1))>>, <<Lit(VInt(1)), C("b")>>>>, <<>>) : l \in Leaves}
Connected ==
    LET operands == {e \in Simple : ~(e.k = "bin" /\ e.op \in {"||", "%"})}
    IN  {Bin(op, l, r) : op \in {"AND", "OR"}, l \in operands, r \in {C("a"), IsNullE(C("b"), FALSE)}}
        \union {Un("NOT", l) : l \in operands}
Targets == {t \in [on_true : {<<>>, <<0>>}, on_false : {<<>>, <<1>>}, on_null : BOOLEAN] :
              t.on_true # <<>> \/ t.on_false # <<>>}
\* An expression, as a value or as a condition with its targets.
AnExpression ==
    \/ \E e \in Simple \union Connected : query = [family |-> "value", e |-> e]
    \/ \E e \in Simple, t \in Targets : query = [family |-> "cond", e |-> e, targets |-> t]
    \/ \E e \in Connected, t \in {t \in Targets : (t.on_true = <<>>) = t.on_null} :
           query = [family |-> "cond", e |-> e, targets |-> t]

\* The expression for each row of e.  A condition reports 1 at its true
\* target, 0 at its false one and 9 where it falls through.
ExpressionCode(q) ==
    LET loop == 2
        following == 3
        end == 4
        start == Asm(new_labels(NewEmitter, 5), <<I("OpenRead", 0, 7, 0), J("Rewind", 0, end, 0), At(loop)>>)
        value == compile_value(start, single(SchemaE, 0), q.e)
        report(m, n) == Asm(Integer(m, n, 90), <<I("ResultRow", 90, 1, 0), Goto(following)>>)
        cond == compile_cond(start, single(SchemaE, 0), q.e, q.targets)
        body == IF q.family = "value" THEN Emit(value, I("ResultRow", value.out, 1, 0))
                ELSE report(place(report(place(report(cond, 9), 0), 1), 1), 0)
    IN  Asm(body, <<At(following), J("Next", 0, loop, 0), At(end), I("Halt", 0, 0, 0)>>)

\* There is no INSERT here.
NoInsert(em, sink, first, n) == Fail(em, "Unsupported")

-----------------------------------------------------------------------------
(* The machine. *)

IsStatement == query.family \notin {"value", "cond"}
Compiled(q) ==
    LET checked(em) ==
            IF em.err # "" THEN <<em.err>> ELSE finish(em)
    IN  checked(IF q.family \in {"value", "cond"} THEN ExpressionCode(q)
                  ELSE compile_select_program(q.select, q.ctes, q.views, q.stats))

\* A statement's rows are asked for one by one, an expression's all at once.
Execution(q, code, machine) ==
    LET step(m) == IF q.family \in {"value", "cond"} THEN run(code, m) ELSE next_row(code, m)
    IN  step(machine)
Init == /\ AStatement \/ AnExpression
        /\ program = <<>>
        /\ vm = NewVm(IF IsStatement THEN Db ELSE DbE, <<>>)
\* The actions of the query q.
Prepare(q) == /\ program = <<>>
              /\ program' = Compiler(q)
              /\ UNCHANGED <<query, vm>>
NextRow(q) == /\ Len(program) > 1 /\ vm.stop = ""
              /\ vm' = Machine(q, program, vm)
              /\ UNCHANGED <<query, program>>
Finished == vm.stop # "" /\ UNCHANGED vars
Spec == Init /\ [][Prepare(query) \/ NextRow(query) \/ Finished]_vars

-----------------------------------------------------------------------------
(* What SQL says. *)

DefsOf(q) ==
    LET def(d, is_view) == [name |-> d.name, columns |-> d.columns, query |-> d.query, view |-> is_view]
    IN  [k \in DOMAIN q.views |-> def(q.views[k], TRUE)] \o [k \in DOMAIN q.ctes |-> def(q.ctes[k], FALSE)]
EnvE(row) == [Top(DbE, <<>>, <<>>) EXCEPT !.binds = <<[alias |-> "e", schema |-> SchemaE, row |-> row]>>]
RefArrives(env, e, t) ==
    LET v == RefTruth(env, e)
    IN  IF v = "true" \/ (v = "null" /\ t.on_null) THEN IF t.on_true = <<>> THEN 9 ELSE 1
        ELSE IF t.on_false = <<>> THEN 9 ELSE 0
\* Whether the rows answer the query.
SqlAllows(q, rows) ==
    LET of(row) == IF q.family = "value" THEN RefValue(EnvE(row), q.e)
                   ELSE VInt(RefArrives(EnvE(row), q.e, q.targets))
    IN  IF q.family \in {"value", "cond"} THEN rows = [k \in DOMAIN RowsE |-> <<of(RowsE[k])>>]
        ELSE RefAllows(Top(Db, <<>>, DefsOf(q)), q.select, rows)

\* The statement compiles, its program runs without an error of the machine
\* (a cursor of the wrong kind, a row that is not there), and its rows are
\* an answer.
Agrees(family) ==
    query.family = family =>
        /\ Len(program) # 1
        /\ vm.stop \in {"", "done"}
        /\ vm.stop = "done" => Answers(query, vm.rows)


\* compile_select_scan: whichever access path is taken (rowid seek, covering
\* index, range, IN list, skip scan, index order, partial order, sorter with
\* a bound), and with stale statistics too, the rows are the query's.
AccessPathsAgree == Agrees("single")

\* aggregate.rs: counts and sums from an index alone, groups from an index's
\* order or from a sorter, give the rows of GROUP BY and HAVING.
AggregatesAgree == Agrees("aggregate")

\* codegen/subquery: evaluating a subquery once, or keeping its value by the
\* outer column, or seeking instead of scanning, never changes the result.
SubqueriesAgree == Agrees("subquery")


\* flatten.rs, pushdown.rs, cte.rs and views.rs: the rewritten statement
\* returns what the statement as written does.
RewritesAgree == Agrees("rewrite")
=============================================================================
