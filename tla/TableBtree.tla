----------------------------- MODULE TableBtree -----------------------------
(***************************************************************************)
(* The table b-tree (src/btree.rs, src/btree/table/insert.rs, delete.rs,    *)
(* src/btree/schema.rs) over the pages of Freelist.                         *)
(*                                                                          *)
(* A file is a freelist image and the content of every page.  A leaf has    *)
(* cells in rowid order, an interior page entries <<child, key>> and a      *)
(* rightmost child, an overflow page the next page of its chain and which   *)
(* part of which row it holds.  A page on the freelist keeps its content    *)
(* until it becomes a trunk or is written again.  LeafPage shows that a     *)
(* leaf's bytes hold its cells whenever they fit, so here a page is its     *)
(* cells and their lengths.                                                 *)
(***************************************************************************)
EXTENDS Freelist, Integers, SequencesExt

CONSTANTS
  Rowid,     \* rowids, integers
  KeyLen,    \* bytes of a rowid written as a varint
  Row,       \* payloads
  CellLen,   \* Row -> bytes of the leaf cell, overflow pointer included
  Chain      \* Row -> pages of the overflow chain

ASSUME TableBtreeAssumption ==
  /\ Rowid \subseteq Int /\ KeyLen \in 1 .. 9
  /\ CellLen \in [Row -> Nat \ {0}] /\ Chain \in [Row -> Nat]

Leaf(cells) == [type |-> "leaf", cells |-> cells]

Interior(entries, rightmost) ==
  [type |-> "interior", entries |-> entries, rightmost |-> rightmost]

Overflow(next, row, part) ==
  [type |-> "overflow", next |-> next, row |-> row, part |-> part]

TrunkBytes == [type |-> "trunk"]

OK(db) == [err |-> "", db |-> db]

Fail(what, db) == [err |-> what, db |-> db]

page1_header_start(p) == IF p = 1 THEN 100 ELSE 0

\* Bytes that a leaf or an interior page needs for its cells; an interior
\* cell is a child page number and a key.
LeafNeeds(p, cells) ==
  page1_header_start(p) + 8 + 2 * Len(cells)
    + FoldLeft(LAMBDA n, c : n + CellLen[c.row], 0, cells)

InteriorNeeds(p, entries) ==
  page1_header_start(p) + 12 + (2 + 4 + KeyLen) * Len(entries)

\* A slip: the pointer of the new cell is not counted.
leaf_has_room_NoPointer(p, cells) == LeafNeeds(p, cells) - 2 <= PageSize

leaf_has_room(p, cells) == LeafNeeds(p, cells) <= PageSize

write_page(db, p, content) == [db EXCEPT !.page[p] = content]

\* Pager::allocate_page: the new page keeps the bytes it had.
Alloc(db) == [db EXCEPT !.fl = allocate_page(@)]

\* A slip: the freed page is cleared.
Dealloc_Clears(db, p) ==
  [fl |-> deallocate_page(db.fl, p), page |-> [db.page EXCEPT ![p] = TrunkBytes]]

\* Pager::deallocate_page: the freed page is a freelist leaf and keeps its
\* bytes, or becomes the first trunk.
Dealloc(db, p) ==
  LET fl == deallocate_page(db.fl, p)
  IN  [fl |-> fl,
       page |-> IF fl.freelist_trunk_page = p
                THEN [db.page EXCEPT ![p] = TrunkBytes] ELSE db.page]

-----------------------------------------------------------------------------
(* Descent and overflow chains.                                             *)

\* The child that the first entry with rowid <= key leads to.
route(node, rowid) ==
  LET at == SelectSeq(node.entries, LAMBDA e : rowid <= e[2])
  IN  IF at = << >> THEN node.rightmost ELSE at[1][1]

RECURSIVE Descend(_, _, _, _)
Descend(db, p, rowid, ancestors) ==
  CASE db.page[p].type = "leaf" ->
         [err |-> "", ancestors |-> ancestors, leaf |-> p]
    [] db.page[p].type = "interior" ->
         Descend(db, route(db.page[p], rowid), rowid, Append(ancestors, p))
    [] OTHER -> [err |-> "UnexpectedPageType", ancestors |-> ancestors, leaf |-> p]

find_leaf_page(db, root, rowid) == Descend(db, root, rowid, << >>)

\* write_overflow_chain: all pages are allocated, then each is written with
\* the number of the next.
RECURSIVE AllocMany(_, _, _)
AllocMany(db, n, pages) ==
  IF n = 0 THEN [db |-> db, pages |-> pages]
  ELSE AllocMany(Alloc(db), n - 1, Append(pages, Allocated(db.fl)))

ChainWritten(a, row) ==
  LET next(i) == IF i = Len(a.pages) THEN 0 ELSE a.pages[i + 1]
      fill(d, i) == write_page(d, a.pages[i], Overflow(next(i), row, i))
  IN  [db |-> FoldLeft(fill, a.db, [i \in DOMAIN a.pages |-> i]),
       first |-> IF a.pages = << >> THEN 0 ELSE a.pages[1]]

write_overflow_chain(db, row) == ChainWritten(AllocMany(db, Chain[row], << >>), row)

\* free_overflow_chain: the next page is read before the page is freed, since
\* freeing may overwrite it.
RECURSIVE free_overflow_chain(_, _)
free_overflow_chain(db, p) ==
  IF p = 0 THEN db
  ELSE free_overflow_chain(Dealloc(db, p),
         IF db.page[p].type = "overflow" THEN db.page[p].next ELSE 0)

\* reassemble_payload: the local part is the cell's, the rest is read from
\* the chain; "torn" stands for bytes of something else.
RECURSIVE ReadChain(_, _, _, _)
ReadChain(db, row, p, part) ==
  IF part > Chain[row] THEN row
  ELSE IF p = 0 THEN "OverflowChainTruncated"
  ELSE IF db.page[p].type # "overflow" THEN "torn"
  ELSE IF db.page[p].row # row \/ db.page[p].part # part THEN "torn"
  ELSE ReadChain(db, row, db.page[p].next, part + 1)

reassemble_payload(db, cell) == ReadChain(db, cell.row, cell.ovfl, 1)

-----------------------------------------------------------------------------
(* Insertion (src/btree/table/insert.rs).                                   *)

\* root_split: the root's content moves to a new page, and the root becomes
\* an interior page over it and the new sibling.
root_split(db, root, new_right, divider) ==
  LET relocated == Allocated(db.fl)
      d == write_page(Alloc(db), relocated, db.page[root])
  IN  OK(write_page(d, root, Interior(<< <<relocated, divider>> >>, new_right)))

ChildIndex(entries, child) ==
  SelectInSeq(entries, LAMBDA e : e[1] = child)

\* The parent's entries after its child old has split off new.
Routed(node, old, new, divider) ==
  LET i == ChildIndex(node.entries, old)
  IN  IF i > 0
      THEN Interior([InsertAt(node.entries, i, <<old, divider>>)
                       EXCEPT ![i + 1][1] = new], node.rightmost)
      ELSE Interior(Append(node.entries, <<old, divider>>), new)

\* insert_into_parent: the median entry of a full interior page moves up, and
\* its child becomes the rightmost child of the left half.
RECURSIVE insert_into_parent(_, _, _, _, _, _)
insert_into_parent(db, root, ancestors, old, new, divider) ==
  IF ancestors = << >> THEN root_split(db, root, new, divider)
  ELSE
  LET parent == Last(ancestors)
      node == db.page[parent]
      routed == Routed(node, old, new, divider)
      e == routed.entries
      mid == Len(e) \div 2 + 1
      right == Allocated(db.fl)
      d == write_page(
             write_page(Alloc(db), parent, Interior(SubSeq(e, 1, mid - 1), e[mid][1])),
             right, Interior(SubSeq(e, mid + 1, Len(e)), routed.rightmost))
  IN  IF ChildIndex(node.entries, old) = 0 /\ node.rightmost # old
      THEN Fail("MissingChildRoute", db)
      ELSE IF InteriorNeeds(parent, e) <= PageSize
      THEN OK(write_page(db, parent, routed))
      ELSE insert_into_parent(d, root, Front(ancestors), parent, right, e[mid][2])

\* A slip: the divider is the first key of the right half.
divider_FirstRight(left, right) == right[1].rowid

divider(left, right) == Last(left).rowid

\* insert_into_leaf: a leaf without room is split into halves by number of
\* cells, the lower half staying on the page.
insert_into_leaf(db, root, path, cell) ==
  LET leaf == path.leaf
      old == db.page[leaf].cells
      pos == Cardinality({i \in DOMAIN old : old[i].rowid < cell.rowid}) + 1
      cells == InsertAt(old, pos, cell)
      left_n == (Len(cells) + 1) \div 2
      left == SubSeq(cells, 1, left_n)
      right == SubSeq(cells, left_n + 1, Len(cells))
      right_page == Allocated(db.fl)
      d == write_page(write_page(Alloc(db), leaf, Leaf(left)), right_page, Leaf(right))
  IN  IF \E i \in DOMAIN old : old[i].rowid = cell.rowid
      THEN Fail("DuplicateRowid", db)
      ELSE IF leaf_has_room(leaf, cells)
      THEN OK(write_page(db, leaf, Leaf(cells)))
      ELSE insert_into_parent(d, root, path.ancestors, leaf, right_page,
                              divider(left, right))

\* insert_row: the cell, with its overflow chain, is built before the tree is
\* looked at.
insert_row(db, root, rowid, row) ==
  LET placed(d, path, ovfl) ==
        IF path.err # "" THEN Fail(path.err, d)
        ELSE insert_into_leaf(d, root, path, [rowid |-> rowid, row |-> row, ovfl |-> ovfl])
      built(o) == placed(o.db, find_leaf_page(o.db, root, rowid), o.first)
  IN  built(write_overflow_chain(db, row))

-----------------------------------------------------------------------------
(* Deletion (src/btree/table/delete.rs).                                    *)

\* collapse_root: the content of the only child moves into the root.
collapse_root(db, root, only_child) ==
  IF db.page[only_child].type \notin {"leaf", "interior"}
  THEN Fail("UnexpectedPageType", db)
  ELSE OK(Dealloc(write_page(db, root, db.page[only_child]), only_child))

\* splice_child: new_child takes the place of old_child in its parent.
splice_child(db, ancestors, old_child, new_child) ==
  LET parent == Last(ancestors)
      node == db.page[parent]
      i == ChildIndex(node.entries, old_child)
  IN  IF i > 0
      THEN OK(write_page(db, parent, [node EXCEPT !.entries[i][1] = new_child]))
      ELSE IF node.rightmost = old_child
      THEN OK(write_page(db, parent, [node EXCEPT !.rightmost = new_child]))
      ELSE Fail("MissingChildRoute", db)

\* The parent's entries without the emptied child: when that was the
\* rightmost one, the child of the last entry takes its place.
Unrouted(node, emptied) ==
  LET i == ChildIndex(node.entries, emptied)
  IN  IF i > 0 THEN Interior(RemoveAt(node.entries, i), node.rightmost)
      ELSE Interior(Front(node.entries), Last(node.entries)[1])

\* collapse_into_ancestors: a parent left without entries gives its place to
\* its one remaining child.
collapse_into_ancestors(db, root, ancestors, emptied) ==
  LET parent == Last(ancestors)
      node == db.page[parent]
      left == Unrouted(node, emptied)
  IN  IF ChildIndex(node.entries, emptied) = 0 /\ node.rightmost # emptied
      THEN Fail("MissingChildRoute", db)
      ELSE IF ChildIndex(node.entries, emptied) = 0 /\ node.entries = << >>
      THEN Fail("Internal", db)
      ELSE IF left.entries # << >> THEN OK(write_page(db, parent, left))
      ELSE IF parent = root THEN collapse_root(db, root, left.rightmost)
      ELSE splice_child(Dealloc(db, parent), Front(ancestors), parent, left.rightmost)

\* delete_row.
delete_row(db, root, rowid) ==
  LET path == find_leaf_page(db, root, rowid)
      leaf == path.leaf
      cells == db.page[leaf].cells
      i == SelectInSeq(cells, LAMBDA c : c.rowid = rowid)
      emptied == Dealloc(write_page(db, leaf, Leaf(<< >>)), leaf)
  IN  IF path.err # "" THEN Fail(path.err, db)
      ELSE IF i = 0 THEN Fail("RowidNotFound", db)
      ELSE IF Len(cells) > 1 \/ path.ancestors = << >>
      THEN OK(free_overflow_chain(write_page(db, leaf, Leaf(RemoveAt(cells, i))),
                                  cells[i].ovfl))
      ELSE collapse_into_ancestors(free_overflow_chain(emptied, cells[i].ovfl),
                                   root, path.ancestors, leaf)

-----------------------------------------------------------------------------
(* Whole trees.                                                             *)

\* create_empty_table_root.
create_empty_table_root(db) ==
  [db |-> write_page(Alloc(db), Allocated(db.fl), Leaf(<< >>)),
   root |-> Allocated(db.fl)]

Children(node) == [i \in 1 .. Len(node.entries) |-> node.entries[i][1]]
                    \o <<node.rightmost>>

\* free_btree_pages: overflow chains and children first, then the page.
RECURSIVE free_btree_pages(_, _)
free_btree_pages(db, p) ==
  Dealloc(IF db.page[p].type = "leaf"
          THEN FoldLeft(LAMBDA d, c : free_overflow_chain(d, c.ovfl),
                        db, db.page[p].cells)
          ELSE FoldLeft(free_btree_pages, db, Children(db.page[p])), p)

\* count_table_rows.
RECURSIVE count_table_rows(_, _)
count_table_rows(db, p) ==
  IF db.page[p].type = "leaf" THEN Len(db.page[p].cells)
  ELSE FoldLeft(LAMBDA n, c : n + count_table_rows(db, c), 0, Children(db.page[p]))

=============================================================================
