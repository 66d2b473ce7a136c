----------------------------- MODULE TableCursor ----------------------------
(***************************************************************************)
(* TableCursor of src/btree.rs, and the statements that walk a table with   *)
(* one while they change it (src/codegen/stmt/delete.rs, update.rs; the     *)
(* opcodes Rewind, Next, SeekRowid, Delete and Insert of vdbe/cursor.rs).   *)
(*                                                                          *)
(* A frame of the cursor's stack is a copy of a page taken when the page    *)
(* was pushed; the children it leads to are read when they are reached.     *)
(***************************************************************************)
EXTENDS TableBtree

CONSTANTS
  Statements,   \* which of {"delete", "update"} the run has
  RowOf,        \* the row a program inserts under each rowid
  MaxCalls      \* bound on the INSERTs and scans of a behaviour

NoRow == [rowid |-> "none"]

Fresh == [stack |-> << >>, current |-> NoRow, err |-> ""]

\* push_page: a copy of the page with the position before its first cell, or
\* after its last one for a walk downwards.
push_page(c, db, p, reverse) ==
  IF db.page[p].type \notin {"leaf", "interior"}
  THEN [c EXCEPT !.err = "UnexpectedPageType"]
  ELSE LET node == db.page[p]
           n == IF node.type = "leaf" THEN Len(node.cells) ELSE Len(node.entries)
       IN  [c EXCEPT !.stack = Append(@,
              [page |-> node, num_cells |-> n,
               next_cell |-> IF reverse THEN n ELSE 0,
               rightmost_done |-> node.type = "leaf"])]

\* The frame on top after one step of it.
Top(c) == Last(c.stack)

WithTop(c, f) == [c EXCEPT !.stack = Append(Front(@), f)]

Pop(c) == [c EXCEPT !.stack = Front(@)]

RightmostVisited(f) == [f EXCEPT !.rightmost_done = TRUE]

RECURSIVE advance(_, _)
advance(c, db) ==
  IF c.err # "" THEN c
  ELSE IF c.stack = << >> THEN [c EXCEPT !.current = NoRow]
  ELSE
  LET f == Top(c)
      stepped == WithTop(c, [f EXCEPT !.next_cell = @ + 1])
  IN  CASE f.page.type = "leaf" /\ f.next_cell < f.num_cells ->
             [stepped EXCEPT !.current = f.page.cells[f.next_cell + 1]]
        [] f.page.type = "interior" /\ f.next_cell < f.num_cells ->
             advance(push_page(stepped, db, f.page.entries[f.next_cell + 1][1], FALSE), db)
        [] f.next_cell >= f.num_cells /\ ~f.rightmost_done ->
             advance(push_page(WithTop(c, RightmostVisited(f)), db,
                               f.page.rightmost, FALSE), db)
        [] OTHER -> advance(Pop(c), db)

\* advance_rev: the rightmost child first, then the cells downwards.
RECURSIVE advance_rev(_, _)
advance_rev(c, db) ==
  IF c.err # "" THEN c
  ELSE IF c.stack = << >> THEN [c EXCEPT !.current = NoRow]
  ELSE
  LET f == Top(c)
      stepped == WithTop(c, [f EXCEPT !.next_cell = @ - 1])
  IN  CASE f.page.type = "leaf" /\ f.next_cell > 0 ->
             [stepped EXCEPT !.current = f.page.cells[f.next_cell]]
        [] ~f.rightmost_done ->
             advance_rev(push_page(WithTop(c, RightmostVisited(f)), db,
                                   f.page.rightmost, TRUE), db)
        [] f.page.type = "interior" /\ f.next_cell > 0 ->
             advance_rev(push_page(stepped, db, f.page.entries[f.next_cell][1], TRUE), db)
        [] OTHER -> advance_rev(Pop(c), db)

first(db, root) == advance(push_page(Fresh, db, root, FALSE), db)

last(db, root) == advance_rev(push_page(Fresh, db, root, TRUE), db)

\* The binary search of seek: the leftmost of the n keys that is >= target.
RECURSIVE Bisect(_, _, _, _)
Bisect(keys, target, lo, hi) ==
  IF lo >= hi THEN lo
  ELSE LET mid == lo + (hi - lo) \div 2
       IN  IF target <= keys[mid + 1] THEN Bisect(keys, target, lo, mid)
           ELSE Bisect(keys, target, mid + 1, hi)

RECURSIVE SeekFrom(_, _, _)
SeekFrom(db, p, target) ==
  LET node == db.page[p]
      keys == IF node.type = "leaf" THEN [i \in DOMAIN node.cells |-> node.cells[i].rowid]
              ELSE [i \in DOMAIN node.entries |-> node.entries[i][2]]
      i == Bisect(keys, target, 0, Len(keys)) + 1
  IN  IF node.type = "leaf"
      THEN IF i <= Len(keys) /\ keys[i] = target THEN node.cells[i] ELSE NoRow
      ELSE SeekFrom(db, IF i <= Len(keys) THEN node.entries[i][1] ELSE node.rightmost,
                    target)

\* seek: independent of the stack.
seek(c, db, root, target) == [c EXCEPT !.current = SeekFrom(db, root, target)]

RECURSIVE WalkUp(_, _, _)
WalkUp(c, db, seen) ==
  IF c.err # "" THEN <<c.err>>
  ELSE IF c.current = NoRow THEN seen
  ELSE WalkUp(advance(c, db), db,
              Append(seen, <<c.current.rowid, reassemble_payload(db, c.current)>>))

RECURSIVE WalkDown(_, _, _)
WalkDown(c, db, seen) ==
  IF c.err # "" THEN <<c.err>>
  ELSE IF c.current = NoRow THEN seen
  ELSE WalkDown(advance_rev(c, db), db,
                Append(seen, <<c.current.rowid, reassemble_payload(db, c.current)>>))

-----------------------------------------------------------------------------

VARIABLES
  tree,     \* "table" or "index", which of the two trees the file has
  db,       \* the file: freelist image and page contents
  root,     \* the tree's root page, 0 when the tree does not exist
  rows,     \* history: the table's rows, rowid -> row
  calls,    \* INSERTs and scans so far
  stmt      \* the running statement and its cursor

tableVars == <<tree, db, root, rows, calls, stmt>>

NoStmt == [kind |-> "none"]

TableInit ==
  LET empty == [fl |-> EmptyImage, page |-> [p \in Page |-> Leaf(<< >>)]]
      made == create_empty_table_root(empty)
  IN  /\ tree = "table" /\ db = made.db /\ root = made.root
      /\ rows = << >> /\ calls = 0 /\ stmt = NoStmt

Idle == stmt = NoStmt /\ root # 0

\* INSERT of a row whose rowid is free: Insert of vdbe/cursor.rs. The file may
\* not outgrow MaxPage pages.
InsertOne(k) ==
  /\ Idle /\ k \notin DOMAIN rows /\ calls < MaxCalls
  /\ \E res \in {insert_row(db, root, k, RowOf[k])} :
         /\ res.db.fl.page_count <= MaxPage
         /\ db' = res.db
         /\ rows' = IF res.err = "" THEN (k :> RowOf[k]) @@ rows ELSE rows
         /\ stmt' = IF res.err = "" THEN stmt ELSE [kind |-> res.err]
  /\ calls' = calls + 1
  /\ UNCHANGED root

\* DELETE ... WHERE rowid = k: SeekRowid, and Delete if it is there.
DeleteOne(k) ==
  /\ Idle
  /\ seek(Fresh, db, root, k).current # NoRow
  /\ \E res \in {delete_row(db, root, k)} :
         /\ db' = res.db
         /\ rows' = [j \in DOMAIN rows \ {k} |-> rows[j]]
         /\ stmt' = IF res.err = "" THEN stmt ELSE [kind |-> res.err]
  /\ UNCHANGED <<root, calls>>

\* DROP TABLE frees every page of the tree.
DropTable ==
  /\ Idle
  /\ db' = free_btree_pages(db, root) /\ root' = 0 /\ rows' = << >>
  /\ UNCHANGED <<calls, stmt>>

CreateTable ==
  /\ stmt = NoStmt /\ root = 0
  /\ LET made == create_empty_table_root(db)
     IN  db' = made.db /\ root' = made.root
  /\ UNCHANGED <<rows, calls, stmt>>

\* Rewind of a DELETE or UPDATE whose WHERE accepts the rows of accepts.
Begin(kind, accepts) ==
  /\ Idle /\ kind \in Statements /\ calls < MaxCalls
  /\ stmt' = [kind |-> kind, accepts |-> accepts, cursor |-> first(db, root),
              start |-> rows, done |-> << >>, collapsed |-> FALSE]
  /\ calls' = calls + 1
  /\ UNCHANGED <<db, root, rows>>

\* The pages of the tree that are in use; history for ScanRow.
TreeNodes(d) == {p \in d.fl.used \ {1} : d.page[p].type \in {"leaf", "interior"}}

\* One turn of the loop: WHERE, the row's Delete (and Insert), Next.
ScanRow ==
  /\ stmt.kind \in {"delete", "update"} /\ stmt.cursor.err = ""
  /\ stmt.cursor.current # NoRow
  /\ LET k == stmt.cursor.current.rowid
         r == reassemble_payload(db, stmt.cursor.current)
         hit == r \in stmt.accepts
     IN  \E del \in {IF hit THEN delete_row(db, root, k) ELSE OK(db)} :
         \E res \in {IF ~hit \/ stmt.kind = "delete" \/ del.err # "" THEN del
                     ELSE insert_row(del.db, root, k, r)} :
         /\ db' = res.db
         /\ rows' = IF ~hit \/ res.err # "" THEN rows
                    ELSE IF stmt.kind = "delete"
                    THEN [j \in DOMAIN rows \ {k} |-> rows[j]]
                    ELSE [rows EXCEPT ![k] = r]
         /\ stmt' = [stmt EXCEPT !.done = IF hit THEN Append(@, k) ELSE @,
                       !.collapsed = @ \/ ~(TreeNodes(db) \subseteq del.db.fl.used),
                       !.cursor = IF res.err # "" THEN [@ EXCEPT !.err = res.err]
                                  ELSE advance(@, res.db)]
  /\ UNCHANGED <<root, calls>>

\* Halt.
EndScan ==
  /\ stmt.kind \in {"delete", "update"} /\ stmt.cursor.err = ""
  /\ stmt.cursor.current = NoRow
  /\ stmt' = NoStmt
  /\ UNCHANGED <<db, root, rows, calls>>

TableNext ==
  /\ tree = "table" /\ UNCHANGED tree
  /\ \/ \E k \in Rowid : InsertOne(k)
     \/ \E k \in Rowid : DeleteOne(k)
     \/ DropTable \/ CreateTable
     \/ \E kind \in Statements, accepts \in SUBSET Row \ {{}} : Begin(kind, accepts)
     \/ ScanRow \/ EndScan

TableSpec == TableInit /\ [][TableNext]_tableVars

-----------------------------------------------------------------------------
(* Properties.                                                              *)

SortedRows ==
  LET ks == SetToSortSeq(DOMAIN rows, <)
  IN  [i \in DOMAIN ks |-> <<ks[i], rows[ks[i]]>>]

\* Whatever inserts and deletes came before, a scan forwards, a scan
\* backwards, a lookup of each rowid and the row count all agree with the
\* rows the table should have, payloads read back through their chains.
TreeHoldsRows ==
  tree = "table" /\ root # 0 =>
    LET up == WalkUp(first(db, root), db, << >>)
    IN  /\ up = SortedRows
        /\ WalkDown(last(db, root), db, << >>) = Reverse(up)
        /\ count_table_rows(db, root) = Cardinality(DOMAIN rows)
        /\ \A k \in Rowid :
             LET cell == SeekFrom(db, root, k)
             IN  IF k \in DOMAIN rows
                 THEN cell # NoRow /\ reassemble_payload(db, cell) = rows[k]
                 ELSE cell = NoRow

RECURSIVE ChainPages(_, _, _)
ChainPages(d, p, n) ==
  IF n = 0 THEN << >> ELSE <<p>> \o ChainPages(d, d.page[p].next, n - 1)

RECURSIVE TreePages(_, _)
TreePages(d, p) ==
  <<p>> \o IF d.page[p].type = "leaf"
           THEN FoldLeft(LAMBDA s, c : s \o ChainPages(d, c.ovfl, Chain[c.row]),
                         << >>, d.page[p].cells)
           ELSE FoldLeft(LAMBDA s, c : s \o TreePages(d, c), << >>, Children(d.page[p]))

\* Every page of the file is page 1, a page of the tree or of one row's
\* overflow chain, or on the freelist, and no page is two of these: splits,
\* collapses, splices and DROP neither leak a page nor free one in use.
TablePagesOwned ==
  tree = "table" =>
  LET owned == <<1>> \o IF root = 0 THEN << >> ELSE TreePages(db, root)
  IN  /\ Cardinality(ToSet(owned)) = Len(owned)
      /\ ToSet(owned) = db.fl.used
      /\ FreelistSound(db.fl)

\* The cells of every page of the tree fit its bytes; write_page_common would
\* otherwise write them over each other without an error.
TablePagesFit ==
  \A p \in db.fl.used \ {1} :
    CASE db.page[p].type = "leaf" -> LeafNeeds(p, db.page[p].cells) <= PageSize
      [] db.page[p].type = "interior" ->
           InteriorNeeds(p, db.page[p].entries) <= PageSize
      [] OTHER -> TRUE

\* A DELETE that has walked the whole table has treated each row its WHERE
\* accepts exactly once, although the pages under its cursor were freed or
\* moved into the root on the way; and it never stops with an error.  So has
\* an UPDATE, which puts each row back, unless it emptied a leaf: the insert
\* may then write over a page that its cursor has yet to visit.
ScanVisitsEachRowOnce ==
  stmt.kind = "delete" \/ (stmt.kind = "update" /\ ~stmt.collapsed) =>
    /\ stmt.cursor.err = ""
    /\ stmt.cursor.current = NoRow =>
         stmt.done = SetToSortSeq({k \in DOMAIN stmt.start :
                                     stmt.start[k] \in stmt.accepts}, <)

=============================================================================
