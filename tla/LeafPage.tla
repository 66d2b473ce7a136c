------------------------------ MODULE LeafPage ------------------------------
(***************************************************************************)
(* The bytes of one leaf page of a b-tree (src/btree.rs): a header, the     *)
(* array of cell pointers growing up, the cell content area growing down,   *)
(* and inside it the freeblocks and fragments that deleted cells leave.     *)
(*                                                                          *)
(* A byte of a cell is <<key, i>>, the i-th byte of the cell for key; Zero  *)
(* is a cleared byte and FreeHead one of the four bytes that begin a        *)
(* freeblock.  A cell written over another one is thus seen as such.        *)
(***************************************************************************)
EXTENDS Integers, Sequences, FiniteSets, SequencesExt

CONSTANTS
  LeafKey,      \* keys of the cells, integers
  LeafCellLen,  \* lengths a cell may have
  PageLen,      \* bytes of the page
  HeaderStart   \* page1_header_start: 100 on page 1 of a file, else 0

ASSUME LeafPageAssumption ==
  /\ LeafKey \subseteq Int
  /\ LeafCellLen \subseteq Nat \ {0}
  /\ HeaderStart \in Nat /\ PageLen \in Nat /\ PageLen >= HeaderStart + 8

Zero     == <<0, 0>>
FreeHead == <<0, 1>>

\* A slip: a block of three bytes is linked into the chain.
MIN_FREEBLOCK_SIZE_3 == 3

MIN_FREEBLOCK_SIZE == 4

VARIABLES
  leaf_page,    \* the page: pointers, content_start, freeblock chain, fragments, bytes
  leaf_cells    \* history: the cells that should be on it, key -> length

leafVars == <<leaf_page, leaf_cells>>

ptr_base == HeaderStart + 8

ptr_end(n) == ptr_base + 2 * n

Cell(k, n) == [i \in 1 .. n |-> <<k, i>>]

\* put: the bytes s written from offset off on.
put(bytes, off, s) ==
  [o \in DOMAIN bytes |->
     IF o \in off .. off + Len(s) - 1 THEN s[o - off + 1] ELSE bytes[o]]

\* Offsets of the cells that write_page_common lays out from the end of the
\* page, the last cell first, stopping at offset 0 (saturating_sub).
CellOffset(lens, i) ==
  LET below == FoldLeft(+, 0, SubSeq(lens, i, Len(lens)))
  IN  IF below > PageLen THEN 0 ELSE PageLen - below

\* write_page_common on a leaf: cells is a sequence of <<key, length>>.
write_leaf_page(cells) ==
  LET lens == [i \in 1 .. Len(cells) |-> cells[i][2]]
      off(i) == CellOffset(lens, i)
      wiped == [o \in 0 .. PageLen - 1 |-> Zero]
      F[i \in 0 .. Len(cells)] ==
        IF i = 0 THEN wiped
        ELSE put(F[i - 1], off(Len(cells) + 1 - i),
                 Cell(cells[Len(cells) + 1 - i][1], lens[Len(cells) + 1 - i]))
  IN  [pointers |-> [i \in 1 .. Len(cells) |-> off(i)],
       content_start |-> IF cells = << >> THEN PageLen ELSE off(1),
       blocks |-> << >>, fragmented |-> 0, bytes |-> F[Len(cells)]]

\* decode_cell_head and the cell's end, from the bytes at its pointer.
KeyAt(p, i) == p.bytes[p.pointers[i]][1]

\* The length is in the cell's own head, so it is read back through the key.
LenAt(p, i) == leaf_cells[KeyAt(p, i)]

\* collect_leaf_cells.
collect_leaf_cells(p) ==
  [i \in 1 .. Len(p.pointers) |-> <<KeyAt(p, i), LenAt(p, i)>>]

\* scan_leaf_cells: the position of key in pointer order.
insert_pos(p, k) == Cardinality({i \in DOMAIN p.pointers : KeyAt(p, i) < k}) + 1

\* The bytes that header, pointers and cells need with one cell more.
needed(p, n) ==
  ptr_end(Len(p.pointers) + 1) + n
    + FoldLeft(+, 0, [i \in DOMAIN p.pointers |-> LenAt(p, i)])

\* A slip: the pointer of the new cell is not counted.
gap_fits_NoPointer(p, n) ==
  /\ p.content_start >= ptr_end(Len(p.pointers))
  /\ p.content_start - ptr_end(Len(p.pointers)) >= n

gap_fits(p, n) ==
  /\ p.content_start >= ptr_end(Len(p.pointers))
  /\ p.content_start - ptr_end(Len(p.pointers)) >= n + 2

\* splice_insert_cell, when the gap has room.
splice_insert_cell(p, i, k, n) ==
  LET start == p.content_start - n
  IN  [p EXCEPT !.bytes = put(@, start, Cell(k, n)),
                !.pointers = InsertAt(@, i, start),
                !.content_start = start]

-----------------------------------------------------------------------------

\* write_freeblock_chain: every block gets its four-byte head.
write_freeblock_chain(bytes, blocks) ==
  [o \in DOMAIN bytes |->
     IF \E i \in DOMAIN blocks : o \in blocks[i][1] .. blocks[i][1] + 3
     THEN FreeHead ELSE bytes[o]]

\* add_freeblock: the freed range joins the block that ends where it starts
\* and the block that starts where it ends.
add_freeblock(blocks, start, size) ==
  LET prev == SelectSeq(blocks, LAMBDA b : b[1] + b[2] = start)
      next == SelectSeq(blocks, LAMBDA b : b[1] = start + size)
      new_start == IF prev = << >> THEN start ELSE prev[1][1]
      new_size == size + (IF prev = << >> THEN 0 ELSE prev[1][2])
                       + (IF next = << >> THEN 0 ELSE next[1][2])
      rest == SelectSeq(blocks, LAMBDA b : /\ b[1] + b[2] # start
                                           /\ b[1] # start + size)
  IN  SelectSeq(rest, LAMBDA b : b[1] < start) \o << <<new_start, new_size>> >>
        \o SelectSeq(rest, LAMBDA b : b[1] > start)

\* The loop of splice_delete_cell that moves content_start over the
\* freeblocks that border it: the blocks it absorbs and where it stops.
Absorbed(blocks, start) ==
  LET F[i \in 0 .. Len(blocks)] ==
        IF i = 0 THEN [stop |-> start, left |-> blocks]
        ELSE LET r == F[i - 1]
                 at == SelectSeq(r.left, LAMBDA b : b[1] = r.stop)
             IN  IF at = << >> THEN r
                 ELSE [stop |-> r.stop + at[1][2],
                       left |-> SelectSeq(r.left, LAMBDA b : b[1] # r.stop)]
  IN  F[Len(blocks)]

\* splice_delete_cell: the freed bytes go to the gap, to the fragment count
\* or to the freeblock chain.
splice_delete_cell(p, i) ==
  LET start == p.pointers[i]
      len == LenAt(p, i)
      q == [p EXCEPT !.pointers = RemoveAt(@, i),
                     !.bytes = put(@, start, [j \in 1 .. len |-> Zero])]
      grown == Absorbed(p.blocks, start + len)
      blocks == add_freeblock(p.blocks, start, len)
  IN  IF start = p.content_start
      THEN [q EXCEPT !.content_start = grown.stop, !.blocks = grown.left,
                     !.bytes = write_freeblock_chain(@, grown.left)]
      ELSE IF len < MIN_FREEBLOCK_SIZE
      THEN [q EXCEPT !.fragmented = IF @ + len > 255 THEN 255 ELSE @ + len]
      ELSE [q EXCEPT !.blocks = blocks,
                     !.bytes = write_freeblock_chain(@, blocks)]

-----------------------------------------------------------------------------

LeafInit == leaf_page = write_leaf_page(<< >>) /\ leaf_cells = << >>

\* insert_into_leaf when the cell fits the page: spliced into the gap, or the
\* page rebuilt with it.
InsertCell(k, n) ==
  /\ k \notin DOMAIN leaf_cells
  /\ needed(leaf_page, n) <= PageLen
  /\ leaf_cells' = (k :> n) @@ leaf_cells
  /\ leaf_page' = LET i == insert_pos(leaf_page, k)
             IN  IF gap_fits(leaf_page, n) THEN splice_insert_cell(leaf_page, i, k, n)
                 ELSE write_leaf_page(InsertAt(collect_leaf_cells(leaf_page), i, <<k, n>>))

\* delete_row on a leaf that keeps its page.
DeleteCell(k) ==
  /\ k \in DOMAIN leaf_cells
  /\ \E i \in DOMAIN leaf_page.pointers :
       KeyAt(leaf_page, i) = k /\ leaf_page' = splice_delete_cell(leaf_page, i)
  /\ leaf_cells' = [j \in DOMAIN leaf_cells \ {k} |-> leaf_cells[j]]

LeafNext ==
  \/ \E k \in LeafKey, n \in LeafCellLen : InsertCell(k, n)
  \/ \E k \in LeafKey : DeleteCell(k)

LeafSpec == LeafInit /\ [][LeafNext]_leafVars

-----------------------------------------------------------------------------
(* Properties.                                                              *)

CellBytes(p, i) == p.pointers[i] .. p.pointers[i] + LenAt(p, i) - 1

BlockBytes(p) ==
  UNION {p.blocks[i][1] .. p.blocks[i][1] + p.blocks[i][2] - 1 :
           i \in DOMAIN p.blocks}

\* The pointers lead, in key order, to exactly the cells that were inserted
\* and not deleted, each with every byte of its own: no splice, rebuild or
\* freeblock head has been written over a live cell.
CellsReadBack ==
  /\ {KeyAt(leaf_page, i) : i \in DOMAIN leaf_page.pointers} = DOMAIN leaf_cells
  /\ \A i \in DOMAIN leaf_page.pointers :
       /\ i > 1 => KeyAt(leaf_page, i - 1) < KeyAt(leaf_page, i)
       /\ SubSeq([o \in 1 .. PageLen |-> leaf_page.bytes[o - 1]],
                 leaf_page.pointers[i] + 1, leaf_page.pointers[i] + LenAt(leaf_page, i))
            = Cell(KeyAt(leaf_page, i), LenAt(leaf_page, i))

\* The freeblock chain is what the file format asks for: ascending, of blocks
\* of four bytes or more that never touch each other, and none at the start
\* of the content area, where it would be lost to the gap for good.
FreeblocksCoalesced ==
  /\ \A i \in DOMAIN leaf_page.blocks : leaf_page.blocks[i][2] >= MIN_FREEBLOCK_SIZE
  /\ \A i \in DOMAIN leaf_page.blocks : leaf_page.blocks[i][1] > leaf_page.content_start
  /\ \A i \in 2 .. Len(leaf_page.blocks) :
       leaf_page.blocks[i - 1][1] + leaf_page.blocks[i - 1][2] < leaf_page.blocks[i][1]

\* The bytes from content_start to the end of the page are the live cells,
\* the freeblocks and the counted fragments, without overlap, and the pointer
\* array ends before them.
SpaceAccounted ==
  LET cells == UNION {CellBytes(leaf_page, i) : i \in DOMAIN leaf_page.pointers}
      blocks == BlockBytes(leaf_page)
      size == FoldLeft(LAMBDA s, b : s + b[2], 0, leaf_page.blocks)
              + FoldLeft(+, 0, [i \in DOMAIN leaf_page.pointers |-> LenAt(leaf_page, i)])
  IN  /\ cells \union blocks \subseteq leaf_page.content_start .. PageLen - 1
      /\ Cardinality(cells \union blocks) = size
      /\ size + leaf_page.fragmented = PageLen - leaf_page.content_start
      /\ ptr_end(Len(leaf_page.pointers)) <= leaf_page.content_start
      /\ FreeblocksCoalesced

=============================================================================
