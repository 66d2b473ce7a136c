-------------------------- MODULE StatementReference --------------------------
(***************************************************************************)
(* What SQL says INSERT, UPDATE and DELETE do to a table, its rows seen as *)
(* a function from rowid to values.  A statement that fails keeps what it  *)
(* did before (ON CONFLICT FAIL): there is no rollback of one statement    *)
(* (codegen/stmt/insert.rs, "Known simplifications").                      *)
(***************************************************************************)
EXTENDS SelectReference, CodegenStmt

Content(rows) == [r \in {rows[k][1] : k \in DOMAIN rows} |-> rows[SelectInSeq(rows, LAMBDA x : x[1] = r)][2]]
Without(content, rowids) == [r \in DOMAIN content \ rowids |-> content[r]]
Largest(rowids) == IF rowids = {} THEN 0 ELSE CHOOSE r \in rowids : \A q \in rowids : q <= r

EnvRow(db, schema, r, row) ==
    [Top(db, <<>>, <<>>) EXCEPT !.binds = <<[alias |-> schema.name, schema |-> schema, row |-> <<r, row>>]>>]

-----------------------------------------------------------------------------
(* Constraints, from the text of CREATE TABLE and from unique indexes. *)

IsAlias(schema, c) == schema.rowid_alias = c - 1
NotNull(schema, c) == ~IsAlias(schema, c) /\ (\/ Has(schema.sql.columns[c].constraints, "notnull")
                                              \/ Has(schema.sql.columns[c].constraints, "primarykey"))
Breaks(db, schema, r, row) ==
    LET of(constraints) == {constraints[k].e : k \in {j \in DOMAIN constraints : constraints[j].k = "check"}}
        checks == of(schema.sql.constraints) \union UNION {of(schema.sql.columns[c].constraints) : c \in DOMAIN row}
    IN  \/ \E c \in DOMAIN row : NotNull(schema, c) /\ IsNull(row[c])
        \/ \E e \in checks : RefTruth(EnvRow(db, schema, r, row), e) = "false"
\* The rows that have the same key in some unique index; NULL equals nothing.
Rivals(schema, content, row) ==
    LET same(x, q) == \A k \in DOMAIN x.columns :
                          LET c == column_index(schema, x.columns[k].name) + 1
                          IN  ~IsNull(row[c]) /\ content[q][c] = row[c]
    IN  {q \in DOMAIN content : \E n \in DOMAIN schema.indexes :
            schema.indexes[n].unique /\ same(schema.indexes[n], q)}

-----------------------------------------------------------------------------
(* INSERT, row by row: [rows, largest, failed], largest the largest rowid  *)
(* that AUTOINCREMENT knows.                                               *)

Incoming(db, ins) ==
    CASE ins.source.k = "values" ->
            [k \in DOMAIN ins.source.rows |->
                [j \in DOMAIN ins.source.rows[k] |-> RefValue(Top(db, <<>>, <<>>), ins.source.rows[k][j])]]
      [] ins.source.k = "defaults" -> <<<<>>>>
      [] OTHER -> RefRows(Top(db, <<>>, <<>>), ins.source.select)

\* What the row has in column c; NULL is not a value REPLACE puts where NULL
\* may not be and a default is there.
ProposedValue(schema, ins, x, c) ==
    LET names == IF ins.columns = <<>> THEN schema.columns ELSE ins.columns
        at == SelectLastInSeq(names, LAMBDA n : n = schema.columns[c])
        defaults == SelectSeq(schema.sql.columns[c].constraints, LAMBDA d : d.k = "default")
        default == IF defaults = <<>> THEN VNull ELSE RefValue(Top(<<>>, <<>>, <<>>), defaults[1].e)
        v == IF at = 0 \/ x = <<>> THEN default ELSE x[at]
    IN  IF IsNull(v) /\ NotNull(schema, c) /\ ins.action = "replace" THEN default ELSE v
RefInsertRow(db, schema, ins, s, x) ==
    LET proposed == [c \in DOMAIN schema.columns |-> ProposedValue(schema, ins, x, c)]
        alias == schema.rowid_alias + 1
        fresh == alias = 0 \/ IsNull(proposed[alias])
        top == Largest(DOMAIN s.rows \union {s.largest})
        r == IF fresh THEN top + 1 ELSE proposed[alias][2]
        row == [c \in DOMAIN proposed |-> IF c = alias THEN VNull
                                          ELSE apply_affinity(proposed[c], schema.types[c])]
        taken == ({r} \intersect DOMAIN s.rows) \union Rivals(schema, s.rows, row)
        s1 == IF fresh THEN [s EXCEPT !.largest = r] ELSE s
        bad == Breaks(db, schema, r, row)
    IN  CASE s.failed -> s
          [] ~s.failed /\ ins.action = "ignore" /\ (bad \/ taken # {}) -> s1
          [] ~s.failed /\ ins.action # "ignore" /\ (bad \/ (ins.action = "abort" /\ taken # {})) ->
                [s1 EXCEPT !.failed = TRUE]
          [] OTHER -> [s1 EXCEPT !.rows = (r :> row) @@ Without(@, taken)]
RefInsert(db, schema, ins) ==
    LET autoincrement == schema.rowid_alias >= 0 /\ is_autoincrement(schema)
    IN  FoldLeft(LAMBDA s, x : RefInsertRow(db, schema, ins, IF autoincrement THEN s ELSE [s EXCEPT !.largest = 0], x),
                 [rows |-> Content(db.table[schema.root]), failed |-> FALSE,
                  largest |-> IF autoincrement THEN TrackedSequence(db, schema.name) ELSE 0],
                 Incoming(db, ins))

-----------------------------------------------------------------------------
(* UPDATE and DELETE, each on the rows that WHERE selects. *)

Matched(db, schema, where) ==
    LET content == Content(db.table[schema.root])
    IN  {r \in DOMAIN content :
            \A k \in DOMAIN where : RefTruth(EnvRow(db, schema, r, content[r]), where[k]) = "true"}

\* The row that r becomes: <<rowid, values>>.
Updated(db, schema, upd, r, row) ==
    LET assigns(s, c) == \E k \in DOMAIN s.columns : s.columns[k] = schema.columns[c]
        value(c) == LET at == SelectLastInSeq(upd.set, LAMBDA s : assigns(s, c))
                    IN  IF at = 0 THEN <<>> ELSE <<RefValue(EnvRow(db, schema, r, row), upd.set[at].value)>>
        alias == schema.rowid_alias + 1
    IN  <<IF alias > 0 /\ value(alias) # <<>> THEN value(alias)[1][2] ELSE r,
          [c \in DOMAIN row |-> IF c = alias \/ value(c) = <<>> THEN row[c]
                                ELSE apply_affinity(value(c)[1], schema.types[c])]>>

\* Is content what the update may leave?  Rows that break a constraint stay;
\* when that ended the statement, rows it did not come to stay too.
RefUpdateAllows(db, schema, upd, content, failed) ==
    LET old == Content(db.table[schema.root])
        matched == Matched(db, schema, upd.where)
        new(r) == Updated(db, schema, upd, r, old[r])
        bad == {r \in matched : Breaks(db, schema, new(r)[1], new(r)[2])}
        after(done) == LET moved == {new(r)[1] : r \in done}
                       IN  [q \in (DOMAIN old \ done) \union moved |->
                              IF q \in moved THEN new(CHOOSE r \in done : new(r)[1] = q)[2] ELSE old[q]]
    IN  /\ failed = (bad # {} /\ upd.action # "ignore")
        /\ IF failed THEN \E done \in SUBSET (matched \ bad) : content = after(done)
           ELSE content = after(matched \ bad)
RefDelete(db, schema, del) ==
    Without(Content(db.table[schema.root]), Matched(db, schema, del.where))
=============================================================================
