----------------------------- MODULE IndexBtree -----------------------------
(***************************************************************************)
(* The index b-tree (src/btree/index.rs, index/insert.rs, index/delete.rs)  *)
(* over the pages of TableBtree, and the statements that maintain one.      *)
(*                                                                          *)
(* Unlike a table's, an interior page of an index holds entries of its own: *)
(* an interior entry is <<child, cell>>, and a cell is a key with the first *)
(* page of its overflow chain.  A deleted key that sits in an interior page *)
(* is replaced by its predecessor; a leaf that becomes empty stays in the   *)
(* tree.                                                                    *)
(***************************************************************************)
EXTENDS TableCursor

CONSTANTS
  Key,          \* index keys, integers in the order of compare_keys
  KeyCell,      \* Key -> bytes of the leaf cell
  KeyChain,     \* Key -> pages of the overflow chain
  KeyOf,        \* the key of the i-th row, for CREATE INDEX
  MaxIndexed    \* bound on IdxInserts and CREATE INDEXes of a behaviour

ASSUME IndexBtreeAssumption ==
  /\ Key \subseteq Int
  /\ KeyCell \in [Key -> Nat \ {0}] /\ KeyChain \in [Key -> Nat]

ILeaf(cells) == [type |-> "ileaf", cells |-> cells]

IInterior(entries, rightmost) ==
  [type |-> "iinterior", entries |-> entries, rightmost |-> rightmost]

ILeafNeeds(p, cells) ==
  page1_header_start(p) + 8
    + FoldLeft(LAMBDA n, c : n + 2 + KeyCell[c.key], 0, cells)

IInteriorNeeds(p, entries) ==
  page1_header_start(p) + 12
    + FoldLeft(LAMBDA n, e : n + 2 + 4 + KeyCell[e[2].key], 0, entries)

index_leaf_has_room(p, cells) == ILeafNeeds(p, cells) <= PageSize

\* encode_index_cell: the chain, if any, is written when the cell is built.
encode_index_cell(d, key) ==
  LET cell(o) == [db |-> o.db, cell |-> [key |-> key, ovfl |-> o.first]]
  IN  cell(ChainWritten(AllocMany(d, KeyChain[key], << >>), key))

\* descend_index_tree: a key equal to an interior page's own ends the
\* descent; otherwise the first entry with a greater key leads on.
RECURSIVE descend_index_tree(_, _, _, _)
descend_index_tree(d, p, key, ancestors) ==
  LET node == d.page[p]
  IN  CASE node.type = "ileaf" ->
             [match |-> FALSE, err |-> "", ancestors |-> ancestors, page |-> p]
        [] node.type = "iinterior" ->
             LET at == SelectSeq(node.entries, LAMBDA e : e[2].key = key)
                 above == SelectSeq(node.entries, LAMBDA e : key < e[2].key)
             IN  IF at # << >>
                 THEN [match |-> TRUE, err |-> "", page |-> p, child |-> at[1][1]]
                 ELSE descend_index_tree(d, IF above = << >> THEN node.rightmost
                                            ELSE above[1][1],
                                         key, Append(ancestors, p))
        [] OTHER -> [match |-> FALSE, err |-> "UnexpectedPageType", page |-> p]

index_root_split(d, root_page, new_right, promoted) ==
  LET relocated == Allocated(d.fl)
      moved == write_page(Alloc(d), relocated, d.page[root_page])
  IN  OK(write_page(moved, root_page,
                    IInterior(<< <<relocated, promoted>> >>, new_right)))

\* insert_into_index_parent: the median entry of a full interior page moves
\* up and its child becomes the left half's rightmost.
RECURSIVE insert_into_index_parent(_, _, _, _, _, _)
insert_into_index_parent(d, root_page, ancestors, old, new, promoted) ==
  IF ancestors = << >> THEN index_root_split(d, root_page, new, promoted)
  ELSE
  LET parent == Last(ancestors)
      node == d.page[parent]
      i == ChildIndex(node.entries, old)
      e == IF i > 0
           THEN [InsertAt(node.entries, i, <<old, promoted>>) EXCEPT ![i + 1][1] = new]
           ELSE Append(node.entries, <<old, promoted>>)
      rightmost == IF i > 0 THEN node.rightmost ELSE new
      mid == Len(e) \div 2 + 1
      right == Allocated(d.fl)
      split == write_page(
                 write_page(Alloc(d), parent,
                            IInterior(SubSeq(e, 1, mid - 1), e[mid][1])),
                 right, IInterior(SubSeq(e, mid + 1, Len(e)), rightmost))
  IN  IF i = 0 /\ node.rightmost # old THEN Fail("MissingChildRoute", d)
      ELSE IF IInteriorNeeds(parent, e) <= PageSize
      THEN OK(write_page(d, parent, IInterior(e, rightmost)))
      ELSE insert_into_index_parent(split, root_page, Front(ancestors),
                                    parent, right, e[mid][2])

\* insert_into_index_leaf: the median cell of a full leaf leaves it for the
\* parent.  The chain is written only once the key is known to be new.
insert_into_index_leaf(d, root_page, path, key) ==
  LET leaf == path.page
      old == d.page[leaf].cells
      pos == Cardinality({j \in DOMAIN old : old[j].key < key}) + 1
      split(x, cells, mid) ==
        write_page(write_page(Alloc(x), leaf, ILeaf(SubSeq(cells, 1, mid - 1))),
                   Allocated(x.fl), ILeaf(SubSeq(cells, mid + 1, Len(cells))))
      placed(x, cells, mid) ==
        IF index_leaf_has_room(leaf, cells) THEN OK(write_page(x, leaf, ILeaf(cells)))
        ELSE insert_into_index_parent(split(x, cells, mid), root_page, path.ancestors,
                                      leaf, Allocated(x.fl), cells[mid])
      built(enc) == placed(enc.db, InsertAt(old, pos, enc.cell), (Len(old) + 1) \div 2 + 1)
  IN  IF \E j \in DOMAIN old : old[j].key = key THEN Fail("DuplicateKey", d)
      ELSE built(encode_index_cell(d, key))

insert_entry(d, root_page, key) ==
  LET path == descend_index_tree(d, root_page, key, << >>)
  IN  IF path.err # "" THEN Fail(path.err, d)
      ELSE IF path.match THEN Fail("DuplicateKey", d)
      ELSE insert_into_index_leaf(d, root_page, path, key)

-----------------------------------------------------------------------------
(* Deletion.                                                                *)

delete_from_leaf(d, p, key) ==
  LET cells == d.page[p].cells
      i == SelectInSeq(cells, LAMBDA c : c.key = key)
  IN  IF i = 0 THEN Fail("KeyNotFound", d)
      ELSE OK(free_overflow_chain(write_page(d, p, ILeaf(RemoveAt(cells, i))),
                                  cells[i].ovfl))

\* extract_max_entry: the greatest cell of the subtree, taken out of it, or
\* none when it is drained, its descendants then freed.  A drained rightmost
\* child is freed, and the last entry is the greatest and its child the new
\* rightmost.
RECURSIVE extract_max_entry(_, _)
extract_max_entry(d, p) ==
  LET node == d.page[p]
      sub == extract_max_entry(d, node.rightmost)
      freed == Dealloc(sub.db, node.rightmost)
  IN  CASE node.type = "ileaf" /\ node.cells = << >> -> [db |-> d, max |-> << >>]
        [] node.type = "ileaf" /\ node.cells # << >> ->
             [db |-> write_page(d, p, ILeaf(Front(node.cells))),
              max |-> <<Last(node.cells)>>]
        [] node.type = "iinterior" ->
             IF sub.max # << >> THEN sub
             ELSE IF node.entries = << >> THEN [db |-> freed, max |-> << >>]
             ELSE [db |-> write_page(freed, p, IInterior(Front(node.entries),
                                                         Last(node.entries)[1])),
                   max |-> <<Last(node.entries)[2]>>]

\* remove_entry_by_child: the entry goes and its chain is freed.
remove_entry_by_child(d, p, child) ==
  LET node == d.page[p]
      i == ChildIndex(node.entries, child)
  IN  IF i = 0 THEN Fail("MissingChildRoute", d)
      ELSE OK(free_overflow_chain(
                write_page(d, p, IInterior(RemoveAt(node.entries, i), node.rightmost)),
                node.entries[i][2].ovfl))


drained(d, p, child) == remove_entry_by_child(Dealloc(d, child), p, child)

\* delete_via_predecessor_swap: the predecessor's cell takes the entry's
\* place; the chain of the replaced cell is not freed.
delete_via_predecessor_swap(d, p, child) ==
  LET x == extract_max_entry(d, child)
      i == ChildIndex(x.db.page[p].entries, child)
  IN  IF x.max = << >> THEN drained(x.db, p, child)
      ELSE IF i = 0 THEN Fail("Internal", d)
      ELSE OK([x.db EXCEPT !.page[p].entries[i][2] = x.max[1]])

delete_entry(d, root_page, key) ==
  LET path == descend_index_tree(d, root_page, key, << >>)
  IN  IF path.err # "" THEN Fail(path.err, d)
      ELSE IF path.match THEN delete_via_predecessor_swap(d, path.page, path.child)
      ELSE delete_from_leaf(d, path.page, key)

create_empty_index_root(d) ==
  [db |-> write_page(Alloc(d), Allocated(d.fl), ILeaf(<< >>)),
   root |-> Allocated(d.fl)]

\* populate_index_from_table: the rows' keys in rowid order.
populate_index_from_table(d, root_page, keys) ==
  FoldLeft(LAMBDA r, k : IF r.err # "" THEN r ELSE insert_entry(r.db, root_page, k),
           OK(d), keys)

-----------------------------------------------------------------------------
(* IndexCursor.                                                             *)

IEntry(node, i) == IF node.type = "ileaf" THEN node.cells[i] ELSE node.entries[i][2]

ISize(node) == IF node.type = "ileaf" THEN Len(node.cells) ELSE Len(node.entries)

IChild(node, i) == IF i = Len(node.entries) THEN node.rightmost ELSE node.entries[i + 1][1]

index_push_page(c, d, p) ==
  IF d.page[p].type \notin {"ileaf", "iinterior"}
  THEN [c EXCEPT !.err = "UnexpectedPageType"]
  ELSE [c EXCEPT !.stack = Append(@, [page |-> d.page[p], step |-> 0])]

\* The step counter of a frame pushed for a walk downwards.
push_page_desc(c, d, p) ==
  LET node == d.page[p]
      pushed == index_push_page(c, d, p)
  IN  IF pushed.err # "" THEN pushed
      ELSE WithTop(pushed, [page |-> node,
             step |-> IF node.type = "ileaf" THEN ISize(node) ELSE 2 * ISize(node) + 1])

\* advance: step s of an interior page visits child s / 2 when s is even and
\* yields entry (s - 1) / 2 when s is odd.
RECURSIVE index_advance(_, _)
index_advance(c, d) ==
  IF c.err # "" THEN c
  ELSE IF c.stack = << >> THEN [c EXCEPT !.current = NoRow]
  ELSE
  LET f == Top(c)
      n == ISize(f.page)
      stepped == WithTop(c, [f EXCEPT !.step = @ + 1])
      yield(i) == [stepped EXCEPT !.current = IEntry(f.page, i)]
  IN  IF f.page.type = "ileaf"
      THEN IF f.step < n THEN yield(f.step + 1) ELSE index_advance(Pop(c), d)
      ELSE IF f.step > 2 * n THEN index_advance(Pop(c), d)
      ELSE IF f.step % 2 = 0
      THEN index_advance(index_push_page(stepped, d, IChild(f.page, f.step \div 2)), d)
      ELSE yield((f.step - 1) \div 2 + 1)

RECURSIVE advance_desc(_, _)
advance_desc(c, d) ==
  IF c.err # "" THEN c
  ELSE IF c.stack = << >> THEN [c EXCEPT !.current = NoRow]
  ELSE
  LET f == Top(c)
      a == f.step - 1
      stepped == WithTop(c, [f EXCEPT !.step = a])
      yield(i) == [stepped EXCEPT !.current = IEntry(f.page, i)]
  IN  IF f.step = 0 THEN advance_desc(Pop(c), d)
      ELSE IF f.page.type = "ileaf" THEN yield(a + 1)
      ELSE IF a % 2 = 0
      THEN advance_desc(push_page_desc(stepped, d, IChild(f.page, a \div 2)), d)
      ELSE yield((a - 1) \div 2 + 1)

index_first(d, p) == index_advance(index_push_page(Fresh, d, p), d)

index_last(d, p) == advance_desc(push_page_desc(Fresh, d, p), d)

\* A slip: the entry that led to the child is passed over on the way back.
resume_step_Skips(node, i) == 2 * i + 2

\* The step a descent through child i leaves the frame at.
resume_step(node, i) == 2 * i + 1

RECURSIVE SeekDown(_, _, _)
SeekDown(c, d, target) ==
  LET f == Top(c)
      keys == [j \in 1 .. ISize(f.page) |-> IEntry(f.page, j).key]
      i == Bisect(keys, target, 0, Len(keys))
  IN  IF f.page.type = "ileaf" THEN WithTop(c, [f EXCEPT !.step = i])
      ELSE SeekDown(index_push_page(WithTop(c, [f EXCEPT !.step = resume_step(f.page, i)]),
                                    d, IChild(f.page, i)), d, target)

\* seek: the descent, then one advance.
index_seek(d, p, target) ==
  index_advance(SeekDown(index_push_page(Fresh, d, p), d, target), d)

-----------------------------------------------------------------------------
(* An index alone in its file; rows is its set of keys.                      *)

IndexInit ==
  LET empty == [fl |-> EmptyImage, page |-> [p \in Page |-> ILeaf(<< >>)]]
      made == create_empty_index_root(empty)
  IN  /\ tree = "index" /\ db = made.db /\ root = made.root
      /\ rows = {} /\ calls = 0 /\ stmt = NoStmt

\* IdxInsert of a row's key.
IdxInsert(k) ==
  /\ Idle /\ k \notin rows /\ calls < MaxIndexed
  /\ \E res \in {insert_entry(db, root, k)} :
         /\ res.db.fl.page_count <= MaxPage
         /\ db' = res.db
         /\ stmt' = IF res.err = "" THEN stmt ELSE [kind |-> res.err]
  /\ rows' = rows \union {k}
  /\ calls' = calls + 1
  /\ UNCHANGED root

\* IdxDelete of a row's key.
IdxDelete(k) ==
  /\ Idle /\ k \in rows
  /\ \E res \in {delete_entry(db, root, k)} :
         /\ db' = res.db
         /\ stmt' = IF res.err = "" THEN stmt ELSE [kind |-> res.err]
  /\ rows' = rows \ {k}
  /\ UNCHANGED <<root, calls>>

\* CREATE INDEX on a table of n rows.
CreateIndex(n) ==
  /\ stmt = NoStmt /\ root = 0 /\ calls < MaxIndexed
  /\ \E made \in {create_empty_index_root(db)} :
     \E res \in {populate_index_from_table(made.db, made.root, SubSeq(KeyOf, 1, n))} :
         /\ res.db.fl.page_count <= MaxPage
         /\ db' = res.db /\ root' = made.root
         /\ stmt' = IF res.err = "" THEN stmt ELSE [kind |-> res.err]
  /\ rows' = {KeyOf[i] : i \in 1 .. n}
  /\ calls' = calls + 1

\* DROP INDEX: free_btree_pages, with the chains of interior cells too.
RECURSIVE free_index_pages(_, _)
free_index_pages(d, p) ==
  LET node == d.page[p]
      chains == FoldLeft(LAMBDA x, i : free_overflow_chain(x, IEntry(node, i).ovfl),
                         d, [i \in 1 .. ISize(node) |-> i])
  IN  Dealloc(IF node.type = "ileaf" THEN chains
              ELSE FoldLeft(free_index_pages, chains, Children(node)), p)

DropIndex ==
  /\ Idle
  /\ db' = free_index_pages(db, root) /\ root' = 0 /\ rows' = {}
  /\ UNCHANGED <<calls, stmt>>

IndexNext ==
  /\ tree = "index" /\ UNCHANGED tree
  /\ \/ \E k \in Key : IdxInsert(k) \/ IdxDelete(k)
     \/ DropIndex
     \/ \E n \in DOMAIN KeyOf : CreateIndex(n)

IndexSpec == IndexInit /\ [][IndexNext]_tableVars

-----------------------------------------------------------------------------
(* Properties.                                                              *)

ReadKey(d, c) ==
  IF \A i \in 1 .. KeyChain[c.key] :
       LET p == ChainPages(d, c.ovfl, KeyChain[c.key])[i]
       IN  d.page[p] = Overflow(d.page[p].next, c.key, i)
  THEN c.key ELSE "torn"

RECURSIVE IWalkUp(_, _, _)
IWalkUp(c, d, seen) ==
  IF c.err # "" THEN <<c.err>>
  ELSE IF c.current = NoRow THEN seen
  ELSE IWalkUp(index_advance(c, d), d, Append(seen, ReadKey(d, c.current)))

RECURSIVE IWalkDown(_, _, _)
IWalkDown(c, d, seen) ==
  IF c.err # "" THEN <<c.err>>
  ELSE IF c.current = NoRow THEN seen
  ELSE IWalkDown(advance_desc(c, d), d, Append(seen, ReadKey(d, c.current)))

\* An index holds exactly the keys put in and not taken out: a walk upwards,
\* one downwards, and a walk from the position that seek finds for any key
\* all yield them in order, with the entries of interior pages and past
\* leaves left empty; a key that is there is refused a second time, wherever
\* in the tree it sits; and no maintenance step ends in an error.
IndexHoldsKeys ==
  tree = "index" =>
  /\ stmt = NoStmt
  /\ root # 0 =>
       /\ IWalkUp(index_first(db, root), db, << >>) = SetToSortSeq(rows, <)
       /\ IWalkDown(index_last(db, root), db, << >>) = SetToSortSeq(rows, >)
       /\ \A k \in Key :
            /\ IWalkUp(index_seek(db, root, k), db, << >>)
                 = SetToSortSeq({j \in rows : j >= k}, <)
            /\ k \in rows => insert_entry(db, root, k).err = "DuplicateKey"

RECURSIVE IndexPages(_, _)
IndexPages(d, p) ==
  LET node == d.page[p]
      chain(i) == ChainPages(d, IEntry(node, i).ovfl, KeyChain[IEntry(node, i).key])
      chains == FoldLeft(LAMBDA s, i : s \o chain(i), << >>, [i \in 1 .. ISize(node) |-> i])
  IN  <<p>> \o chains \o
      IF node.type = "ileaf" THEN << >>
      ELSE FoldLeft(LAMBDA s, c : s \o IndexPages(d, c), << >>, Children(node))

\* No page has two owners and no page of the index or of a key's chain is on
\* the freelist, after any splits, swaps and drained subtrees.  A page in use
\* that nothing owns is at most an overflow page: the chain of a key replaced
\* by its predecessor.
IndexPagesOwned ==
  tree = "index" =>
  LET owned == <<1>> \o IF root = 0 THEN << >> ELSE IndexPages(db, root)
  IN  /\ Cardinality(ToSet(owned)) = Len(owned)
      /\ ToSet(owned) \subseteq db.fl.used
      /\ \A p \in db.fl.used \ ToSet(owned) : db.page[p].type = "overflow"
      /\ FreelistSound(db.fl)

\* The entries of every page of the index fit its bytes.
IndexPagesFit ==
  \A p \in db.fl.used \ {1} :
    CASE db.page[p].type = "ileaf" -> ILeafNeeds(p, db.page[p].cells) <= PageSize
      [] db.page[p].type = "iinterior" ->
           IInteriorNeeds(p, db.page[p].entries) <= PageSize
      [] OTHER -> TRUE

PagesFit == TablePagesFit /\ IndexPagesFit
=============================================================================
