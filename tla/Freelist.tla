------------------------------ MODULE Freelist ------------------------------
(***************************************************************************)
(* The freelist: Pager::allocate_page and Pager::deallocate_page           *)
(* (src/pager.rs) on the trunk pages of src/pager/freelist.rs.             *)
(*                                                                         *)
(* An image of the database has the three header fields of page 1, the     *)
(* bytes of every page read as a trunk page, and the pages that the        *)
(* b-trees of that image point at.                                         *)
(***************************************************************************)
EXTENDS Naturals, Sequences, FiniteSets

CONSTANTS
  MaxPage,   \* bound on the size of the file, in pages
  PageSize   \* bytes of a page

ASSUME FreelistAssumption ==
  /\ MaxPage \in Nat \ {0}
  /\ PageSize \in Nat \ (0 .. 7)

Page == 1 .. MaxPage

\* Leaf numbers that fit a trunk page after its 8-byte header.
max_leaves_per_trunk == (PageSize - 8) \div 4

TrunkPage == [next_trunk : 0 .. MaxPage, leaves : Seq(Page)]

\* The bytes of a page that a b-tree has initialised.
InUse == [next_trunk |-> 0, leaves |-> << >>]

Image == [page_count : Page, freelist_trunk_page : 0 .. MaxPage,
          freelist_page_count : Nat, bytes : [Page -> TrunkPage],
          used : SUBSET Page]

\* A database of one page, page 1, which is the root of the schema table.
EmptyImage ==
  [page_count |-> 1, freelist_trunk_page |-> 0, freelist_page_count |-> 0,
   bytes |-> [p \in Page |-> InUse], used |-> {1}]

\* TrunkPage::parse: a leaf count beyond the page is cut to what fits.
parse(b) ==
  IF Len(b.leaves) <= (PageSize - 8) \div 4 THEN b
  ELSE [next_trunk |-> b.next_trunk,
        leaves |-> SubSeq(b.leaves, 1, (PageSize - 8) \div 4)]

Trunk(db) == parse(db.bytes[db.freelist_trunk_page])

HasFree(db) == db.freelist_trunk_page # 0

\* The page that allocate_page returns: a leaf of the first trunk, the trunk
\* itself when it has none left, or a page past the end.
Allocated(db) ==
  IF ~HasFree(db) THEN db.page_count + 1
  ELSE IF Trunk(db).leaves # << >>
       THEN Trunk(db).leaves[Len(Trunk(db).leaves)]
       ELSE db.freelist_trunk_page

\* A slip: the shortened list is not written back.
PopLeaf_NotWritten(b) == b

PopLeaf(b) == [next_trunk |-> b.next_trunk,
               leaves |-> SubSeq(b.leaves, 1, Len(b.leaves) - 1)]

saturating_sub(n) == IF n = 0 THEN 0 ELSE n - 1

\* The image after allocate_page and the caller's initialisation of the page.
allocate_page(db) ==
  LET p == Allocated(db)
      t == db.freelist_trunk_page
      b == [db.bytes EXCEPT ![p] = InUse]
  IN  IF ~HasFree(db)
      THEN [page_count |-> p,
            freelist_trunk_page |-> 0,
            freelist_page_count |-> db.freelist_page_count,
            bytes |-> b, used |-> db.used \union {p}]
      ELSE IF Trunk(db).leaves # << >>
      THEN [page_count |-> db.page_count,
            freelist_trunk_page |-> t,
            freelist_page_count |-> saturating_sub(db.freelist_page_count),
            bytes |-> [b EXCEPT ![t] = PopLeaf(Trunk(db))],
            used |-> db.used \union {p}]
      ELSE [page_count |-> db.page_count,
            freelist_trunk_page |-> Trunk(db).next_trunk,
            freelist_page_count |-> saturating_sub(db.freelist_page_count),
            bytes |-> b, used |-> db.used \union {p}]

\* The image after deallocate_page(p): p becomes a leaf of the first trunk if
\* that has room, and the new first trunk otherwise.
deallocate_page(db, p) ==
  LET t == db.freelist_trunk_page
      isLeaf == HasFree(db) /\ Len(Trunk(db).leaves) < max_leaves_per_trunk
  IN  [page_count |-> db.page_count,
       freelist_trunk_page |-> IF isLeaf THEN t ELSE p,
       freelist_page_count |-> db.freelist_page_count + 1,
       bytes |->
         IF isLeaf
         THEN [db.bytes EXCEPT ![t] =
                 [next_trunk |-> Trunk(db).next_trunk,
                  leaves |-> Append(Trunk(db).leaves, p)]]
         ELSE [db.bytes EXCEPT ![p] = [next_trunk |-> t, leaves |-> << >>]],
       used |-> db.used \ {p}]

-----------------------------------------------------------------------------
(* The pages on the freelist of db, given its trunks c[1] .. c[n], the last *)
(* in the chain first.                                                      *)

IsChain(db, n, c) ==
  /\ db.freelist_trunk_page = IF n = 0 THEN 0 ELSE c[n]
  /\ \A i \in 1 .. n :
       db.bytes[c[i]].next_trunk = IF i = 1 THEN 0 ELSE c[i - 1]

Elems(s) == {s[k] : k \in 1 .. Len(s)}

Distinct(s) == \A k, l \in 1 .. Len(s) : s[k] = s[l] => k = l

Leaves(db, t) == Elems(db.bytes[t].leaves)

FreePages(db, n, c) ==
  {c[i] : i \in 1 .. n} \union UNION {Leaves(db, c[i]) : i \in 1 .. n}

\* No page is on the freelist twice.
NoDuplicates(db, n, c) ==
  /\ \A i, j \in 1 .. n : c[i] = c[j] => i = j
  /\ \A i, j \in 1 .. n : c[i] \notin Leaves(db, c[j])
  /\ \A i, j \in 1 .. n : i # j => Leaves(db, c[i]) \cap Leaves(db, c[j]) = {}
  /\ \A i \in 1 .. n : Distinct(db.bytes[c[i]].leaves)

\* Every list of leaves fits its page.
Fits(db, n, c) ==
  \A i \in 1 .. n : Len(db.bytes[c[i]].leaves) <= (PageSize - 8) \div 4

\* The freelist has every page that no b-tree points at and none that one
\* does, and the header counts them.
IsFreelist(db, n, c) ==
  /\ IsChain(db, n, c) /\ NoDuplicates(db, n, c) /\ Fits(db, n, c)
  /\ 1 \in db.used /\ db.used \subseteq 1 .. db.page_count
  /\ FreePages(db, n, c) = (1 .. db.page_count) \ db.used
  /\ db.freelist_page_count = Cardinality(FreePages(db, n, c))

FreelistSound(db) ==
  \E n \in 0 .. db.page_count : \E c \in [1 .. n -> 2 .. db.page_count] :
    IsFreelist(db, n, c)

=============================================================================
