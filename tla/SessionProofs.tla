---------------------------- MODULE SessionProofs ----------------------------
(***************************************************************************)
(* allocate_page and deallocate_page keep the freelist sound, and a        *)
(* session keeps it so and its transactions atomic, for every page size,   *)
(* every size of the file and every length of statement.                   *)
(***************************************************************************)
EXTENDS Session, FiniteSetTheorems, SequenceTheorems, TLAPS

\* What FreelistSound says of the pages of the list and of their number.
LEMMA FreeIsFinite ==
  ASSUME NEW db \in Image, NEW n \in Nat, NEW c, IsFreelist(db, n, c)
  PROVE  /\ IsFiniteSet(FreePages(db, n, c))
         /\ Cardinality(FreePages(db, n, c)) \in Nat
<1>1. db.page_count \in Nat
  BY FreelistAssumption DEF Image, Page
<1>2. IsFiniteSet(1 .. db.page_count)
  BY <1>1, FS_Interval
<1>3. FreePages(db, n, c) \subseteq 1 .. db.page_count
  BY DEF IsFreelist
<1>4. IsFiniteSet(FreePages(db, n, c))
  BY <1>2, <1>3, FS_Subset, Zenon
<1> QED  BY <1>4, FS_CardinalityType

\* c[1] .. c[n] are different pages.
OneToOne(c, n) == \A i, j \in 1 .. n : c[i] = c[j] => i = j

\* A chain of distinct pages past page 1 is shorter than the file.
LEMMA ChainFits ==
  ASSUME NEW m \in Nat, NEW n \in Nat, NEW c \in [1 .. n -> 2 .. m],
         m >= 1, OneToOne(c, n)
  PROVE  n < m
<1> SUFFICES ASSUME n >= m  PROVE  FALSE
  OBVIOUS
<1> DEFINE S == 1 .. n
           T == 2 .. m
<1>1. IsFiniteSet(S) /\ Cardinality(S) = n
  BY FS_Interval
<1>2. IsFiniteSet(T) /\ Cardinality(T) = m - 1
  BY FS_Interval
<1>3. Cardinality(T) < Cardinality(S)
  BY <1>1, <1>2
<1>4. c \in [S -> T]
  OBVIOUS
<1>5. \A x, y \in S : c[x] = c[y] => x = y
  BY DEF OneToOne
<1> HIDE DEF S, T
<1>6. \E x, y \in S : x # y /\ c[x] = c[y]
  BY <1>1, <1>2, <1>3, <1>4, FS_PigeonHole, ZenonT(30)
<1> QED  BY <1>5, <1>6

\* parse changes nothing on a page that a trunk was written to.
LEMMA ParseTrunk ==
  ASSUME NEW db \in Image, NEW n \in Nat, NEW c \in [1 .. n -> 2 .. db.page_count],
         IsFreelist(db, n, c), HasFree(db)
  PROVE  /\ n > 0 /\ db.freelist_trunk_page = c[n]
         /\ c[n] \in 2 .. db.page_count /\ c[n] \in Page
         /\ Trunk(db) = db.bytes[c[n]]
         /\ db.bytes[c[n]] \in TrunkPage
<1>1. n > 0 /\ db.freelist_trunk_page = c[n]
  BY DEF IsFreelist, IsChain, HasFree
<1>2. c[n] \in 2 .. db.page_count /\ c[n] \in Page
  BY <1>1, FreelistAssumption DEF Image, Page
<1>3. Len(db.bytes[c[n]].leaves) <= (PageSize - 8) \div 4
  BY <1>1 DEF IsFreelist, Fits
<1>4. Trunk(db) = db.bytes[c[n]]
  BY <1>1, <1>3 DEF Trunk, parse
<1> QED  BY <1>1, <1>2, <1>4 DEF Image

\* The header's count of free pages follows a set that loses one page.
LEMMA CountDown ==
  ASSUME NEW S, IsFiniteSet(S), NEW x \in S
  PROVE  saturating_sub(Cardinality(S)) = Cardinality(S \ {x})
<1>1. IsFiniteSet(S \ {x}) /\ Cardinality(S \ {x}) = Cardinality(S) - 1
  BY FS_RemoveElement
<1>2. Cardinality(S) \in Nat /\ Cardinality(S \ {x}) \in Nat
  BY <1>1, FS_CardinalityType
<1> QED  BY <1>1, <1>2 DEF saturating_sub

\* Vec::pop on leaf numbers without repetitions.
LEMMA PopSeq ==
  ASSUME NEW L \in Seq(Page), L # << >>, Distinct(L),
         NEW M, M = SubSeq(L, 1, Len(L) - 1)
  PROVE  /\ M \in Seq(Page) /\ Len(M) = Len(L) - 1 /\ Len(L) \in Nat \ {0}
         /\ L[Len(L)] \in Page /\ L[Len(L)] \in Elems(L)
         /\ Elems(M) = Elems(L) \ {L[Len(L)]} /\ Distinct(M)
<1>1. /\ Len(L) \in Nat \ {0} /\ L[Len(L)] \in Page /\ Len(L) \in 1 .. Len(L)
      /\ \A k, l \in 1 .. Len(L) : L[k] = L[l] => k = l
  BY DEF Distinct
<1>2. /\ M \in Seq(Page) /\ Len(M) = Len(L) - 1
      /\ \A k \in 1 .. Len(L) - 1 : M[k] = L[k]
  <2> DEFINE m == Len(L) - 1
  <2>1. m \in Int /\ 1 \in Int /\ \A i \in 1 .. m : L[i] \in Page
    BY <1>1
  <2>2. M = SubSeq(L, 1, m)
    OBVIOUS
  <2>3. m >= 0 /\ m = Len(L) - 1
    BY <1>1
  <2> HIDE DEF m
  <2>4. /\ M \in Seq(Page) /\ Len(M) = (IF 1 <= m THEN m - 1 + 1 ELSE 0)
        /\ \A i \in 1 .. m - 1 + 1 : M[i] = L[1 + i - 1]
    BY <2>1, <2>2, SubSeqProperties
  <2>5. Len(M) = m /\ \A i \in 1 .. m : M[i] = L[i]
    BY <2>1, <2>3, <2>4
  <2> QED  BY <2>3, <2>4, <2>5
<1>3. \A k \in 1 .. Len(L) - 1 : k \in 1 .. Len(L) /\ L[k] # L[Len(L)]
  BY <1>1
<1>4. \A k \in 1 .. Len(L) : k = Len(L) \/ k \in 1 .. Len(L) - 1
  BY <1>1
<1>5. {M[k] : k \in 1 .. Len(L) - 1} = {L[k] : k \in 1 .. Len(L) - 1}
  BY <1>2
<1>6. {L[k] : k \in 1 .. Len(L) - 1} = {L[k] : k \in 1 .. Len(L)} \ {L[Len(L)]}
  BY <1>3, <1>4, Zenon
<1>7. \A k, l \in 1 .. Len(M) : M[k] = M[l] => k = l
  <2> SUFFICES ASSUME NEW k \in 1 .. Len(M), NEW l \in 1 .. Len(M), M[k] = M[l]
               PROVE  k = l
    OBVIOUS
  <2>1. k \in 1 .. Len(L) /\ l \in 1 .. Len(L) /\ L[k] = L[l]
    BY <1>1, <1>2
  <2> QED  BY <1>1, <2>1
<1>8. Elems(M) = Elems(L) \ {L[Len(L)]}
  BY <1>2, <1>5, <1>6, Zenon DEF Elems
<1>9. L[Len(L)] \in Elems(L) /\ Distinct(M)
  BY <1>1, <1>7 DEF Elems, Distinct
<1> QED  BY <1>1, <1>2, <1>8, <1>9

\* Vec::push of a page that is not listed.
LEMMA PushSeq ==
  ASSUME NEW L \in Seq(Page), NEW p \in Page, Distinct(L), p \notin Elems(L),
         NEW M, M = Append(L, p)
  PROVE  /\ M \in Seq(Page) /\ Len(M) = Len(L) + 1 /\ Len(L) \in Nat
         /\ Elems(M) = Elems(L) \union {p} /\ Distinct(M)
<1>1. /\ M \in Seq(Page) /\ Len(M) = Len(L) + 1 /\ Len(L) \in Nat
      /\ M[Len(L) + 1] = p /\ \A k \in 1 .. Len(L) : M[k] = L[k]
  OBVIOUS
<1>2. \A k \in 1 .. Len(M) : k = Len(L) + 1 \/ k \in 1 .. Len(L)
  BY <1>1
<1>3. /\ Len(L) + 1 \in 1 .. Len(M)
      /\ \A k \in 1 .. Len(L) : k \in 1 .. Len(M)
  BY <1>1
<1>4. {M[k] : k \in 1 .. Len(M)} = {L[k] : k \in 1 .. Len(L)} \union {p}
  BY <1>1, <1>2, <1>3
<1>5. \A k \in 1 .. Len(L) : L[k] # p
  BY DEF Elems
<1>6. \A k, l \in 1 .. Len(L) : L[k] = L[l] => k = l
  BY DEF Distinct
<1>7. \A k, l \in 1 .. Len(M) : M[k] = M[l] => k = l
  BY <1>1, <1>2, <1>5, <1>6
<1> QED  BY <1>1, <1>4, <1>7 DEF Elems, Distinct

\* In B the first trunk has another list of leaves than in A, without a page
\* that the freelist has elsewhere, and the other trunks are the same.
NewLeaves(A, B, n, c) ==
  /\ B.freelist_trunk_page = A.freelist_trunk_page
  /\ \A i \in 1 .. n : i # n => B.bytes[c[i]] = A.bytes[c[i]]
  /\ B.bytes[c[n]].next_trunk = A.bytes[c[n]].next_trunk
  /\ Len(B.bytes[c[n]].leaves) <= (PageSize - 8) \div 4
  /\ Distinct(B.bytes[c[n]].leaves)
  /\ (Leaves(B, c[n]) \ Leaves(A, c[n])) \cap FreePages(A, n, c) = {}

\* What that change does to the freelist.
Relisted(A, B, n, c) ==
  /\ IsChain(B, n, c) /\ NoDuplicates(B, n, c) /\ Fits(B, n, c)
  /\ FreePages(B, n, c)
       = (FreePages(A, n, c) \ Leaves(A, c[n])) \union Leaves(B, c[n])

\* The list of the first trunk may change as PopLeaf and Append change it.
LEMMA ReplaceLeaves ==
  ASSUME NEW A, NEW B, NEW n \in Nat \ {0}, NEW c, IsFreelist(A, n, c),
         NewLeaves(A, B, n, c)
  PROVE  Relisted(A, B, n, c)
<1> USE DEF NewLeaves
<1>1. IsChain(A, n, c) /\ NoDuplicates(A, n, c)
  BY DEF IsFreelist
<1>2. IsChain(B, n, c)
  BY <1>1, Zenon DEF IsChain
<1>3. \A i \in 1 .. n : i # n => Leaves(B, c[i]) = Leaves(A, c[i])
  <2> TAKE i \in 1 .. n
  <2> HAVE i # n
  <2>1. B.bytes[c[i]].leaves = A.bytes[c[i]].leaves
    OBVIOUS
  <2> QED  BY <2>1 DEF Leaves
<1>4. n \in 1 .. n
  OBVIOUS
<1>5. /\ \A i, j \in 1 .. n : c[i] \notin Leaves(A, c[j])
      /\ \A i, j \in 1 .. n : i # j => Leaves(A, c[i]) \cap Leaves(A, c[j]) = {}
      /\ \A i, j \in 1 .. n : c[i] = c[j] => i = j
  BY <1>1 DEF NoDuplicates
<1>6. \A i \in 1 .. n : c[i] \in FreePages(A, n, c)
                       /\ Leaves(A, c[i]) \subseteq FreePages(A, n, c)
  BY DEF FreePages
<1>7. \A i \in 1 .. n : c[i] \notin Leaves(B, c[n])
  BY <1>4, <1>5, <1>6
<1>8. \A i \in 1 .. n : i # n => Leaves(A, c[i]) \cap Leaves(B, c[n]) = {}
  BY <1>4, <1>5, <1>6, SMTT(30)
<1>9. NoDuplicates(B, n, c)
  <2>1. \A i, j \in 1 .. n : c[i] \notin Leaves(B, c[j])
    BY <1>3, <1>5, <1>7
  <2>2. \A i, j \in 1 .. n : i # j => Leaves(B, c[i]) \cap Leaves(B, c[j]) = {}
    BY <1>3, <1>5, <1>8
  <2>3. \A i \in 1 .. n : Distinct(B.bytes[c[i]].leaves)
    BY <1>1 DEF NoDuplicates
  <2> QED  BY <2>1, <2>2, <2>3, <1>5, Zenon DEF NoDuplicates
<1>10. Fits(B, n, c)
  BY DEF IsFreelist, Fits
<1>11. FreePages(B, n, c)
         = (FreePages(A, n, c) \ Leaves(A, c[n])) \union Leaves(B, c[n])
  <2>1. ASSUME NEW x \in FreePages(B, n, c)
        PROVE  x \in (FreePages(A, n, c) \ Leaves(A, c[n])) \union Leaves(B, c[n])
    <3>1. (\E i \in 1 .. n : x = c[i]) \/ (\E i \in 1 .. n : x \in Leaves(B, c[i]))
      BY <2>1 DEF FreePages
    <3>2. CASE \E i \in 1 .. n : x = c[i]
      BY <3>2, <1>4, <1>5, <1>6
    <3>3. ASSUME NEW i \in 1 .. n, x \in Leaves(B, c[i])
          PROVE  x \in (FreePages(A, n, c) \ Leaves(A, c[n])) \union Leaves(B, c[n])
      <4>1. CASE i = n
        BY <3>3, <4>1
      <4>2. CASE i # n
        <5>1. x \in Leaves(A, c[i])
          BY <3>3, <4>2, <1>3
        <5>2. x \in FreePages(A, n, c) /\ x \notin Leaves(A, c[n])
          BY <5>1, <4>2, <1>4, <1>5, <1>6
        <5> QED  BY <5>2
      <4> QED  BY <4>1, <4>2
    <3> QED  BY <3>1, <3>2, <3>3
  <2>2. ASSUME NEW x \in FreePages(A, n, c), x \notin Leaves(A, c[n])
        PROVE  x \in FreePages(B, n, c)
    <3>1. (\E i \in 1 .. n : x = c[i]) \/ (\E i \in 1 .. n : x \in Leaves(A, c[i]))
      BY <2>2 DEF FreePages
    <3>2. (\E i \in 1 .. n : x = c[i]) \/ (\E i \in 1 .. n : x \in Leaves(B, c[i]))
      BY <3>1, <2>2, <1>3
    <3> QED  BY <3>2 DEF FreePages
  <2>3. Leaves(B, c[n]) \subseteq FreePages(B, n, c)
    BY <1>4 DEF FreePages
  <2> QED  BY <2>1, <2>2, <2>3
<1> QED  BY <1>2, <1>9, <1>10, <1>11 DEF Relisted

\* The database that allocate_page extends has an empty freelist.
LEMMA ExtendKeeps ==
  ASSUME NEW A, NEW B, NEW c, IsFreelist(A, 0, c), A.page_count \in Nat,
         B.page_count = A.page_count + 1, B.freelist_trunk_page = 0,
         B.freelist_page_count = A.freelist_page_count,
         B.used = A.used \union {A.page_count + 1}
  PROVE  IsFreelist(B, 0, c)
<1>1. FreePages(A, 0, c) = {} /\ FreePages(B, 0, c) = {}
  BY DEF FreePages
<1>2. 1 .. A.page_count = A.used
  BY <1>1, Zenon DEF IsFreelist
<1>3. (1 .. B.page_count) \ B.used = {}
  BY <1>2
<1>4. B.used \subseteq 1 .. B.page_count /\ 1 \in B.used
  BY <1>2 DEF IsFreelist
<1>5. B.freelist_page_count = Cardinality({})
  BY <1>1 DEF IsFreelist
<1>6. IsChain(B, 0, c) /\ NoDuplicates(B, 0, c)
  BY DEF IsChain, NoDuplicates
<1>7. Fits(B, 0, c)
  BY DEF Fits
<1> QED  BY <1>1, <1>3, <1>4, <1>5, <1>6, <1>7 DEF IsFreelist

\* allocate_page with an empty freelist: the file grows by a page.
LEMMA ExtendSound ==
  ASSUME NEW db \in Image, FreelistSound(db), ~HasFree(db), Allocated(db) \in Page,
         NEW d, d = allocate_page(db)
  PROVE  d \in Image /\ FreelistSound(d)
<1> DEFINE p == db.page_count + 1
<1>1. PICK n, c : /\ n \in 0 .. db.page_count /\ c \in [1 .. n -> 2 .. db.page_count]
                  /\ IsFreelist(db, n, c)
  BY DEF FreelistSound
<1>2. db.page_count \in Nat /\ db.used \subseteq Page /\ db.freelist_page_count \in Nat
      /\ db.bytes \in [Page -> TrunkPage]
  BY FreelistAssumption DEF Image, Page
<1>3. n = 0
  BY <1>1, <1>2 DEF IsFreelist, IsChain, HasFree
<1>4. Allocated(db) = p
  BY DEF Allocated
<1>5. d = [page_count |-> p, freelist_trunk_page |-> 0,
           freelist_page_count |-> db.freelist_page_count,
           bytes |-> [db.bytes EXCEPT ![p] = InUse], used |-> db.used \union {p}]
  BY <1>4 DEF allocate_page
<1>6. /\ d.page_count = p /\ d.freelist_trunk_page = 0
      /\ d.freelist_page_count = db.freelist_page_count /\ d.used = db.used \union {p}
  BY <1>5
<1>7. InUse \in TrunkPage
  BY FreelistAssumption DEF InUse, TrunkPage
<1>8. p \in Page /\ 0 \in 0 .. MaxPage /\ [db.bytes EXCEPT ![p] = InUse] \in [Page -> TrunkPage]
  BY <1>2, <1>4, <1>7, FreelistAssumption
<1>9. d \in Image
  <2> HIDE DEF p
  <2> QED  BY <1>2, <1>5, <1>8 DEF Image
<1>10. IsFreelist(d, 0, c)
  BY <1>1, <1>2, <1>3, <1>6, ExtendKeeps
<1>11. c \in [1 .. 0 -> 2 .. d.page_count] /\ 0 \in 0 .. d.page_count
  BY <1>1, <1>2, <1>3, <1>6
<1> QED  BY <1>9, <1>10, <1>11, Zenon DEF FreelistSound

\* A sound image of known size, list and count.
LEMMA SoundImage ==
  ASSUME NEW db \in Image, FreelistSound(db)
  PROVE  \E n, c :
           /\ n \in Nat /\ c \in [1 .. n -> 2 .. db.page_count] /\ n <= db.page_count
           /\ IsFreelist(db, n, c)
           /\ db.page_count \in Page /\ db.page_count \in Nat
           /\ db.used \subseteq Page /\ db.freelist_page_count \in Nat
           /\ db.bytes \in [Page -> TrunkPage]
           /\ \A i \in 1 .. n : c[i] \in Page
           /\ InUse \in TrunkPage
<1>1. PICK n, c : /\ n \in 0 .. db.page_count /\ c \in [1 .. n -> 2 .. db.page_count]
                  /\ IsFreelist(db, n, c)
  BY DEF FreelistSound
<1>2. /\ db.page_count \in Page /\ db.page_count \in Nat /\ db.page_count <= MaxPage
      /\ db.used \subseteq Page /\ db.freelist_page_count \in Nat
      /\ db.bytes \in [Page -> TrunkPage]
  BY FreelistAssumption DEF Image, Page
<1>3. \A i \in 1 .. n : c[i] \in Page
  BY <1>1, <1>2, FreelistAssumption DEF Page
<1>4. InUse \in TrunkPage
  BY FreelistAssumption DEF InUse, TrunkPage
<1>5. n \in Nat /\ n <= db.page_count
  BY <1>1, <1>2
<1> QED  BY <1>1, <1>2, <1>3, <1>4, <1>5

\* allocate_page takes the last leaf of the first trunk.
LEMMA PopLeafSound ==
  ASSUME NEW db \in Image, FreelistSound(db), HasFree(db), Trunk(db).leaves # << >>,
         NEW d, d = allocate_page(db)
  PROVE  d \in Image /\ FreelistSound(d)
<1>1. PICK n, c :
        /\ n \in Nat /\ c \in [1 .. n -> 2 .. db.page_count] /\ n <= db.page_count
        /\ IsFreelist(db, n, c)
        /\ db.page_count \in Page /\ db.page_count \in Nat
        /\ db.used \subseteq Page /\ db.freelist_page_count \in Nat
        /\ db.bytes \in [Page -> TrunkPage]
        /\ \A i \in 1 .. n : c[i] \in Page
        /\ InUse \in TrunkPage
  BY SoundImage
<1>2. PICK t, L, M, p : /\ t = db.freelist_trunk_page /\ L = db.bytes[t].leaves
                        /\ M = SubSeq(L, 1, Len(L) - 1) /\ p = L[Len(L)]
  BY Zenon
<1>3. /\ n > 0 /\ t = c[n] /\ t \in Page /\ Trunk(db) = db.bytes[t]
      /\ db.bytes[t] \in TrunkPage
  BY <1>1, <1>2, ParseTrunk, SMTT(30)
<1>4. /\ L \in Seq(Page) /\ L # << >> /\ db.bytes[t].next_trunk \in 0 .. MaxPage
      /\ t \in 0 .. MaxPage
  BY <1>2, <1>3, Zenon DEF TrunkPage, Image
<1>9. n \in 1 .. n /\ n \in Nat \ {0}
  BY <1>1, <1>3
<1>5. Distinct(L)
  BY <1>1, <1>2, <1>3, <1>9 DEF IsFreelist, NoDuplicates
<1>6. /\ M \in Seq(Page) /\ Len(M) = Len(L) - 1 /\ Len(L) \in Nat \ {0}
      /\ p \in Page /\ p \in Elems(L)
      /\ Elems(M) = Elems(L) \ {p} /\ Distinct(M)
  BY <1>2, <1>4, <1>5, PopSeq, Zenon
<1>8. Leaves(db, t) = Elems(L) /\ p \in Leaves(db, t)
  BY <1>2, <1>6, Zenon DEF Leaves
<1>10. p \in FreePages(db, n, c) /\ Leaves(db, t) \subseteq FreePages(db, n, c)
  BY <1>3, <1>8, <1>9 DEF FreePages
<1>11. \A i \in 1 .. n : c[i] # p /\ (i # n => c[i] # t)
  BY <1>1, <1>3, <1>8, <1>9, SMTT(30) DEF IsFreelist, NoDuplicates
<1>12. d = [page_count |-> db.page_count, freelist_trunk_page |-> t,
            freelist_page_count |-> saturating_sub(db.freelist_page_count),
            bytes |-> [[db.bytes EXCEPT ![p] = InUse] EXCEPT ![t] =
                         [next_trunk |-> db.bytes[t].next_trunk, leaves |-> M]],
            used |-> db.used \union {p}]
  BY <1>2, <1>3, <1>4 DEF allocate_page, Allocated, PopLeaf
<1>13. /\ d.page_count = db.page_count /\ d.freelist_trunk_page = t
       /\ d.freelist_page_count = saturating_sub(db.freelist_page_count)
       /\ d.used = db.used \union {p}
       /\ d.bytes = [[db.bytes EXCEPT ![p] = InUse] EXCEPT ![t] =
                         [next_trunk |-> db.bytes[t].next_trunk, leaves |-> M]]
  BY <1>12
<1>14. [next_trunk |-> db.bytes[t].next_trunk, leaves |-> M] \in TrunkPage
  BY <1>4, <1>6 DEF TrunkPage
<1>15. d \in Image
  <2>1. d.bytes \in [Page -> TrunkPage]
    BY <1>1, <1>13, <1>14, ZenonT(30)
  <2>2. saturating_sub(db.freelist_page_count) \in Nat
    BY <1>1 DEF saturating_sub
  <2>3. db.used \union {p} \subseteq Page
    BY <1>1, <1>6
  <2> QED  BY <1>1, <1>4, <1>12, <1>13, <2>1, <2>2, <2>3, SMTT(30) DEF Image
<1>16. /\ d.bytes[t].next_trunk = db.bytes[t].next_trunk /\ d.bytes[t].leaves = M
       /\ \A i \in 1 .. n : i # n => d.bytes[c[i]] = db.bytes[c[i]]
  BY <1>1, <1>3, <1>11, <1>13
<1>17. Leaves(d, t) = Leaves(db, t) \ {p}
  BY <1>6, <1>8, <1>16 DEF Leaves
<1>18. Len(M) <= (PageSize - 8) \div 4
  <2>1. Len(L) <= (PageSize - 8) \div 4 /\ (PageSize - 8) \div 4 \in Int
    BY <1>1, <1>2, <1>3, <1>9, FreelistAssumption DEF IsFreelist, Fits
  <2> QED  BY <2>1, <1>6
<1>19. /\ IsChain(d, n, c) /\ NoDuplicates(d, n, c) /\ Fits(d, n, c)
       /\ FreePages(d, n, c)
            = (FreePages(db, n, c) \ Leaves(db, c[n])) \union Leaves(d, c[n])
  <2>2. (Leaves(d, c[n]) \ Leaves(db, c[n])) \cap FreePages(db, n, c) = {}
    BY <1>3, <1>17
  <2>3. /\ d.freelist_trunk_page = db.freelist_trunk_page
        /\ d.bytes[c[n]].next_trunk = db.bytes[c[n]].next_trunk
        /\ Len(d.bytes[c[n]].leaves) <= (PageSize - 8) \div 4
        /\ Distinct(d.bytes[c[n]].leaves)
    BY <1>2, <1>3, <1>6, <1>13, <1>16, <1>18, Zenon
  <2>4. IsFreelist(db, n, c) /\ n \in Nat \ {0}
    BY <1>1, <1>9
  <2>5. NewLeaves(db, d, n, c)
    BY <1>16, <2>2, <2>3 DEF NewLeaves
  <2>6. Relisted(db, d, n, c)
    BY <2>4, <2>5, ReplaceLeaves
  <2> QED  BY <2>6 DEF Relisted
<1>20. FreePages(d, n, c) = FreePages(db, n, c) \ {p}
  BY <1>3, <1>8, <1>10, <1>17, <1>19
<1>21. d.freelist_page_count = Cardinality(FreePages(d, n, c))
  <2>1. IsFiniteSet(FreePages(db, n, c))
    BY <1>1, FreeIsFinite
  <2>2. saturating_sub(Cardinality(FreePages(db, n, c)))
          = Cardinality(FreePages(db, n, c) \ {p})
    BY <2>1, <1>10, CountDown
  <2>3. db.freelist_page_count = Cardinality(FreePages(db, n, c))
    BY <1>1 DEF IsFreelist
  <2> QED  BY <2>2, <2>3, <1>13, <1>20
<1>22. IsFreelist(d, n, c)
  <2>1. 1 \in d.used /\ d.used \subseteq 1 .. d.page_count
    BY <1>1, <1>10, <1>13 DEF IsFreelist
  <2>2. FreePages(d, n, c) = (1 .. d.page_count) \ d.used
    BY <1>1, <1>13, <1>20 DEF IsFreelist
  <2> QED  BY <1>19, <1>21, <2>1, <2>2 DEF IsFreelist
<1>23. n \in 0 .. d.page_count /\ c \in [1 .. n -> 2 .. d.page_count]
  BY <1>1, <1>13
<1> QED  BY <1>15, <1>22, <1>23, Zenon DEF FreelistSound

\* The header's count of free pages follows a set that gains a page.
LEMMA CountUp ==
  ASSUME NEW S, IsFiniteSet(S), NEW x, x \notin S
  PROVE  Cardinality(S \union {x}) = Cardinality(S) + 1
BY FS_AddElement

\* deallocate_page adds the page to the leaves of the first trunk.
LEMMA PushLeafSound ==
  ASSUME NEW db \in Image, FreelistSound(db), HasFree(db),
         Len(Trunk(db).leaves) < max_leaves_per_trunk,
         NEW p \in db.used, p # 1, NEW d, d = deallocate_page(db, p)
  PROVE  d \in Image /\ FreelistSound(d)
<1>1. PICK n, c :
        /\ n \in Nat /\ c \in [1 .. n -> 2 .. db.page_count] /\ n <= db.page_count
        /\ IsFreelist(db, n, c)
        /\ db.page_count \in Page /\ db.page_count \in Nat
        /\ db.used \subseteq Page /\ db.freelist_page_count \in Nat
        /\ db.bytes \in [Page -> TrunkPage]
        /\ \A i \in 1 .. n : c[i] \in Page
        /\ InUse \in TrunkPage
  BY SoundImage, SMTT(30)
<1>2. PICK t, L, M : /\ t = db.freelist_trunk_page /\ L = db.bytes[t].leaves
                     /\ M = Append(L, p)
  BY Zenon
<1>3. /\ n > 0 /\ t = c[n] /\ t \in Page /\ Trunk(db) = db.bytes[t]
      /\ db.bytes[t] \in TrunkPage
  BY <1>1, <1>2, ParseTrunk, Zenon
<1>4. /\ L \in Seq(Page) /\ db.bytes[t].next_trunk \in 0 .. MaxPage
      /\ t \in 0 .. MaxPage /\ p \in Page
  BY <1>1, <1>2, <1>3, Zenon DEF TrunkPage, Image
<1>5. n \in 1 .. n /\ n \in Nat \ {0}
  BY <1>1, <1>3
<1>6. Distinct(L)
  BY <1>1, <1>2, <1>3, <1>5 DEF IsFreelist, NoDuplicates
<1>7. p \notin FreePages(db, n, c) /\ p \in 1 .. db.page_count
  BY <1>1 DEF IsFreelist
<1>8. Leaves(db, t) = Elems(L) /\ Leaves(db, t) \subseteq FreePages(db, n, c)
  BY <1>2, <1>3, <1>5 DEF Leaves, FreePages
<1>9. /\ M \in Seq(Page) /\ Len(M) = Len(L) + 1 /\ Len(L) \in Nat
      /\ Elems(M) = Elems(L) \union {p} /\ Distinct(M)
  BY <1>2, <1>4, <1>6, <1>7, <1>8, PushSeq, ZenonT(30)
<1>10. \A i \in 1 .. n : i # n => c[i] # t
  BY <1>1, <1>3, <1>5 DEF IsFreelist, NoDuplicates
<1>11. d = [page_count |-> db.page_count, freelist_trunk_page |-> t,
            freelist_page_count |-> db.freelist_page_count + 1,
            bytes |-> [db.bytes EXCEPT ![t] =
                         [next_trunk |-> db.bytes[t].next_trunk, leaves |-> M]],
            used |-> db.used \ {p}]
  BY <1>2, <1>3 DEF deallocate_page
<1>12. /\ d.page_count = db.page_count /\ d.freelist_trunk_page = t
       /\ d.freelist_page_count = db.freelist_page_count + 1
       /\ d.used = db.used \ {p}
       /\ d.bytes = [db.bytes EXCEPT ![t] =
                         [next_trunk |-> db.bytes[t].next_trunk, leaves |-> M]]
  BY <1>11
<1>13. [next_trunk |-> db.bytes[t].next_trunk, leaves |-> M] \in TrunkPage
  BY <1>4, <1>9 DEF TrunkPage
<1>14. d \in Image
  <2>1. d.bytes \in [Page -> TrunkPage]
    BY <1>1, <1>12, <1>13, ZenonT(30)
  <2>2. db.freelist_page_count + 1 \in Nat /\ db.used \ {p} \subseteq Page
    BY <1>1
  <2> QED  BY <1>1, <1>4, <1>11, <1>12, <2>1, <2>2 DEF Image
<1>15. /\ d.bytes[t].next_trunk = db.bytes[t].next_trunk /\ d.bytes[t].leaves = M
       /\ \A i \in 1 .. n : i # n => d.bytes[c[i]] = db.bytes[c[i]]
  BY <1>1, <1>3, <1>10, <1>12
<1>16. Leaves(d, t) = Leaves(db, t) \union {p}
  BY <1>8, <1>9, <1>15 DEF Leaves
<1>17. Len(M) <= (PageSize - 8) \div 4
  <2>1. Len(L) < (PageSize - 8) \div 4 /\ (PageSize - 8) \div 4 \in Int
    BY <1>2, <1>3, FreelistAssumption DEF max_leaves_per_trunk
  <2> QED  BY <2>1, <1>9
<1>18. /\ IsChain(d, n, c) /\ NoDuplicates(d, n, c) /\ Fits(d, n, c)
       /\ FreePages(d, n, c)
            = (FreePages(db, n, c) \ Leaves(db, c[n])) \union Leaves(d, c[n])
  <2>1. (Leaves(d, c[n]) \ Leaves(db, c[n])) \cap FreePages(db, n, c) = {}
    BY <1>3, <1>7, <1>16
  <2>2. /\ d.freelist_trunk_page = db.freelist_trunk_page
        /\ d.bytes[c[n]].next_trunk = db.bytes[c[n]].next_trunk
        /\ Len(d.bytes[c[n]].leaves) <= (PageSize - 8) \div 4
        /\ Distinct(d.bytes[c[n]].leaves)
    BY <1>2, <1>3, <1>9, <1>12, <1>15, <1>17, Zenon
  <2>3. NewLeaves(db, d, n, c)
    BY <1>15, <2>1, <2>2 DEF NewLeaves
  <2>4. IsFreelist(db, n, c) /\ n \in Nat \ {0}
    BY <1>1, <1>5
  <2>5. Relisted(db, d, n, c)
    BY <2>3, <2>4, ReplaceLeaves
  <2> QED  BY <2>5 DEF Relisted
<1>19. FreePages(d, n, c) = FreePages(db, n, c) \union {p}
  BY <1>3, <1>8, <1>16, <1>18
<1>20. d.freelist_page_count = Cardinality(FreePages(d, n, c))
  <2>1. IsFiniteSet(FreePages(db, n, c))
    BY <1>1, FreeIsFinite
  <2>2. Cardinality(FreePages(db, n, c) \union {p})
          = Cardinality(FreePages(db, n, c)) + 1
    BY <2>1, <1>7, CountUp
  <2>3. db.freelist_page_count = Cardinality(FreePages(db, n, c))
    BY <1>1 DEF IsFreelist
  <2> QED  BY <2>2, <2>3, <1>12, <1>19
<1>21. IsFreelist(d, n, c)
  <2>1. 1 \in d.used /\ d.used \subseteq 1 .. d.page_count
    BY <1>1, <1>12 DEF IsFreelist
  <2>2. FreePages(d, n, c) = (1 .. d.page_count) \ d.used
    BY <1>1, <1>7, <1>12, <1>19 DEF IsFreelist
  <2> QED  BY <1>18, <1>20, <2>1, <2>2, SMTT(30) DEF IsFreelist
<1>22. n \in 0 .. d.page_count /\ c \in [1 .. n -> 2 .. d.page_count]
  BY <1>1, <1>12
<1> QED  BY <1>14, <1>21, <1>22, Zenon DEF FreelistSound

\* The trunks c[1] .. c[n] are those of db, and list the pages S.
Lists(db, n, c, S) ==
  /\ IsChain(db, n, c) /\ NoDuplicates(db, n, c) /\ Fits(db, n, c)
  /\ FreePages(db, n, c) = S

\* B has the freelist of A without its first trunk, which lists no leaf.
LessTrunk(A, B, n, c) ==
  /\ A.bytes[c[n]].leaves = << >>
  /\ B.freelist_trunk_page = A.bytes[c[n]].next_trunk
  /\ \A i \in 1 .. n : i # n => B.bytes[c[i]] = A.bytes[c[i]]

\* allocate_page may take the first trunk itself.
LEMMA DropTrunk ==
  ASSUME NEW A, NEW B, NEW n \in Nat \ {0}, NEW c, IsFreelist(A, n, c),
         LessTrunk(A, B, n, c), NEW m \in Nat, m = n - 1,
         NEW e, e = [i \in 1 .. m |-> c[i]]
  PROVE  Lists(B, m, e, FreePages(A, n, c) \ {c[n]})
<1> USE DEF LessTrunk
<1>1. /\ IsChain(A, n, c) /\ NoDuplicates(A, n, c) /\ Fits(A, n, c)
  BY DEF IsFreelist
<1>2. \A i \in 1 .. m : i \in 1 .. n /\ i # n /\ e[i] = c[i]
  OBVIOUS
<1>3. \A i \in 1 .. n : i = n \/ i \in 1 .. m
  OBVIOUS
<1>4. \A i \in 1 .. m : B.bytes[e[i]] = A.bytes[c[i]]
  BY <1>2
<1>5. \A i \in 1 .. m : Leaves(B, e[i]) = Leaves(A, c[i])
  BY <1>4 DEF Leaves
<1>6. IsChain(B, m, e)
  <2>1. B.freelist_trunk_page = IF m = 0 THEN 0 ELSE e[m]
    BY <1>1, <1>2 DEF IsChain
  <2>2. \A i \in 1 .. m : B.bytes[e[i]].next_trunk = IF i = 1 THEN 0 ELSE e[i - 1]
    BY <1>1, <1>2, <1>4 DEF IsChain
  <2> QED  BY <2>1, <2>2 DEF IsChain
<1>7. /\ \A i, j \in 1 .. n : c[i] \notin Leaves(A, c[j])
      /\ \A i, j \in 1 .. n : i # j => Leaves(A, c[i]) \cap Leaves(A, c[j]) = {}
      /\ \A i, j \in 1 .. n : c[i] = c[j] => i = j
      /\ \A i \in 1 .. n : Distinct(A.bytes[c[i]].leaves)
  BY <1>1, Zenon DEF NoDuplicates
<1>8. NoDuplicates(B, m, e)
  <2>1. \A i, j \in 1 .. m : e[i] = e[j] => i = j
    BY <1>2, <1>7
  <2>2. ASSUME NEW i \in 1 .. m, NEW j \in 1 .. m
        PROVE  /\ e[i] \notin Leaves(B, e[j])
               /\ i # j => Leaves(B, e[i]) \cap Leaves(B, e[j]) = {}
    <3>1. Leaves(B, e[i]) = Leaves(A, c[i]) /\ Leaves(B, e[j]) = Leaves(A, c[j])
      BY <1>5
    <3>2. e[i] = c[i] /\ i \in 1 .. n /\ j \in 1 .. n
      BY <1>2
    <3> QED  BY <3>1, <3>2, <1>7, Zenon
  <2>3. \A i \in 1 .. m : Distinct(B.bytes[e[i]].leaves)
    BY <1>2, <1>4, <1>7
  <2> QED  BY <2>1, <2>2, <2>3, ZenonT(30) DEF NoDuplicates
<1>9. Fits(B, m, e)
  BY <1>1, <1>2, <1>4 DEF Fits
<1>10. n \in 1 .. n /\ Leaves(A, c[n]) = {}
  BY DEF Leaves, Elems
<1>11. FreePages(B, m, e) = FreePages(A, n, c) \ {c[n]}
  <2>1. ASSUME NEW x \in FreePages(B, m, e)  PROVE  x \in FreePages(A, n, c) \ {c[n]}
    <3>1. \E i \in 1 .. m : x = e[i] \/ x \in Leaves(B, e[i])
      BY <2>1 DEF FreePages
    <3>2. PICK i \in 1 .. m : x = c[i] \/ x \in Leaves(A, c[i])
      BY <3>1, <1>2, <1>5
    <3>3. x # c[n]
      BY <3>2, <1>2, <1>7, <1>10
    <3>4. x \in FreePages(A, n, c)
      BY <3>2, <1>2 DEF FreePages
    <3> QED  BY <3>3, <3>4
  <2>2. ASSUME NEW x \in FreePages(A, n, c), x # c[n]  PROVE  x \in FreePages(B, m, e)
    <3>1. PICK i \in 1 .. n : x = c[i] \/ x \in Leaves(A, c[i])
      BY <2>2 DEF FreePages
    <3>2. i \in 1 .. m
      BY <3>1, <2>2, <1>3, <1>10
    <3>3. x = e[i] \/ x \in Leaves(B, e[i])
      BY <3>1, <3>2, <1>2, <1>5
    <3> QED  BY <3>2, <3>3 DEF FreePages
  <2> QED  BY <2>1, <2>2
<1> QED  BY <1>6, <1>8, <1>9, <1>11 DEF Lists

\* B has the freelist of A behind a new first trunk, page p.
MoreTrunk(A, B, n, c, p) ==
  /\ B.freelist_trunk_page = p
  /\ B.bytes[p].next_trunk = A.freelist_trunk_page
  /\ B.bytes[p].leaves = << >>
  /\ \A i \in 1 .. n : B.bytes[c[i]] = A.bytes[c[i]]

\* deallocate_page may make the page the first trunk.
LEMMA AddTrunk ==
  ASSUME NEW A, NEW B, NEW n \in Nat, NEW c, IsFreelist(A, n, c),
         NEW p, p \notin FreePages(A, n, c), MoreTrunk(A, B, n, c, p),
         NEW m \in Nat, m = n + 1,
         NEW e, e = [i \in 1 .. m |-> IF i = m THEN p ELSE c[i]]
  PROVE  Lists(B, m, e, FreePages(A, n, c) \union {p})
<1> USE DEF MoreTrunk
<1>1. /\ IsChain(A, n, c) /\ NoDuplicates(A, n, c) /\ Fits(A, n, c)
  BY DEF IsFreelist
<1>2. \A i \in 1 .. n : i \in 1 .. m /\ i # m /\ e[i] = c[i]
  OBVIOUS
<1>3. e[m] = p /\ m \in 1 .. m /\ \A i \in 1 .. m : i = m \/ i \in 1 .. n
  OBVIOUS
<1>4. \A i \in 1 .. n : B.bytes[e[i]] = A.bytes[c[i]]
  BY <1>2
<1>5. \A i \in 1 .. n : Leaves(B, e[i]) = Leaves(A, c[i])
  BY <1>4, SMTT(30) DEF Leaves
<1>6. IsChain(B, m, e)
  <2>1. B.freelist_trunk_page = IF m = 0 THEN 0 ELSE e[m]
    BY <1>3
  <2>2. ASSUME NEW i \in 1 .. m
        PROVE  B.bytes[e[i]].next_trunk = IF i = 1 THEN 0 ELSE e[i - 1]
    <3>1. CASE i = m
      BY <3>1, <1>1, <1>2, <1>3 DEF IsChain
    <3>2. CASE i # m
      <4>1. i \in 1 .. n /\ B.bytes[e[i]] = A.bytes[c[i]]
        BY <3>2, <1>3, <1>4
      <4>2. A.bytes[c[i]].next_trunk = IF i = 1 THEN 0 ELSE c[i - 1]
        BY <4>1, <1>1 DEF IsChain
      <4>3. i # 1 => e[i - 1] = c[i - 1]
        BY <4>1, <1>2
      <4> QED  BY <4>1, <4>2, <4>3
    <3> QED  BY <3>1, <3>2
  <2> QED  BY <2>1, <2>2 DEF IsChain
<1>7. /\ \A i, j \in 1 .. n : c[i] \notin Leaves(A, c[j])
      /\ \A i, j \in 1 .. n : i # j => Leaves(A, c[i]) \cap Leaves(A, c[j]) = {}
      /\ \A i, j \in 1 .. n : c[i] = c[j] => i = j
      /\ \A i \in 1 .. n : Distinct(A.bytes[c[i]].leaves)
  BY <1>1, SMTT(30) DEF NoDuplicates
<1>8. Leaves(B, e[m]) = {} /\ Distinct(B.bytes[e[m]].leaves)
  BY <1>3 DEF Leaves, Elems, Distinct
<1>9. \A i \in 1 .. n : c[i] # p /\ p \notin Leaves(A, c[i])
  BY DEF FreePages
<1>10. NoDuplicates(B, m, e)
  <2>1. \A i, j \in 1 .. m : e[i] = e[j] => i = j
    BY <1>2, <1>3, <1>7, <1>9
  <2>2. ASSUME NEW i \in 1 .. m, NEW j \in 1 .. m
        PROVE  /\ e[i] \notin Leaves(B, e[j])
               /\ i # j => Leaves(B, e[i]) \cap Leaves(B, e[j]) = {}
    <3>1. CASE j = m
      BY <3>1, <1>8
    <3>2. CASE j # m /\ i = m
      BY <3>2, <1>3, <1>5, <1>8, <1>9, Zenon
    <3>3. CASE j # m /\ i # m
      <4>1. i \in 1 .. n /\ j \in 1 .. n
        BY <3>3, <1>3
      <4>2. Leaves(B, e[i]) = Leaves(A, c[i]) /\ Leaves(B, e[j]) = Leaves(A, c[j])
        BY <4>1, <1>5, Zenon
      <4>3. e[i] = c[i]
        BY <4>1, <1>2
      <4> QED  BY <4>1, <4>2, <4>3, <1>7, Zenon
    <3> QED  BY <3>1, <3>2, <3>3
  <2>3. \A i \in 1 .. m : Distinct(B.bytes[e[i]].leaves)
    BY <1>3, <1>4, <1>7, <1>8
  <2> QED  BY <2>1, <2>2, <2>3, ZenonT(30) DEF NoDuplicates
<1>11. Fits(B, m, e)
  <2>1. 0 <= (PageSize - 8) \div 4 /\ Len(B.bytes[e[m]].leaves) = 0
    BY <1>3, FreelistAssumption
  <2> QED  BY <2>1, <1>1, <1>3, <1>4 DEF Fits
<1>12. FreePages(B, m, e) = FreePages(A, n, c) \union {p}
  <2>1. ASSUME NEW x \in FreePages(B, m, e)  PROVE  x \in FreePages(A, n, c) \union {p}
    <3>1. PICK i \in 1 .. m : x = e[i] \/ x \in Leaves(B, e[i])
      BY <2>1 DEF FreePages
    <3>2. CASE i = m
      BY <3>1, <3>2, <1>3, <1>8
    <3>3. CASE i # m
      <4>1. i \in 1 .. n /\ (x = c[i] \/ x \in Leaves(A, c[i]))
        BY <3>1, <3>3, <1>2, <1>3, <1>5
      <4> QED  BY <4>1 DEF FreePages
    <3> QED  BY <3>2, <3>3
  <2>2. ASSUME NEW x \in FreePages(A, n, c)  PROVE  x \in FreePages(B, m, e)
    <3>1. PICK i \in 1 .. n : x = c[i] \/ x \in Leaves(A, c[i])
      BY <2>2 DEF FreePages
    <3>2. i \in 1 .. m /\ (x = e[i] \/ x \in Leaves(B, e[i]))
      BY <3>1, <1>2, <1>5
    <3> QED  BY <3>2 DEF FreePages
  <2>3. p \in FreePages(B, m, e)
    BY <1>3 DEF FreePages
  <2> QED  BY <2>1, <2>2, <2>3
<1> QED  BY <1>6, <1>10, <1>11, <1>12 DEF Lists

\* allocate_page takes the first trunk, which lists no leaf.
LEMMA PopTrunkSound ==
  ASSUME NEW db \in Image, FreelistSound(db), HasFree(db), Trunk(db).leaves = << >>,
         NEW d, d = allocate_page(db)
  PROVE  d \in Image /\ FreelistSound(d)
<1>1. PICK n, c :
        /\ n \in Nat /\ c \in [1 .. n -> 2 .. db.page_count] /\ n <= db.page_count
        /\ IsFreelist(db, n, c)
        /\ db.page_count \in Page /\ db.page_count \in Nat
        /\ db.used \subseteq Page /\ db.freelist_page_count \in Nat
        /\ db.bytes \in [Page -> TrunkPage]
        /\ \A i \in 1 .. n : c[i] \in Page
        /\ InUse \in TrunkPage
  BY SoundImage
<1>2. PICK t : t = db.freelist_trunk_page
  OBVIOUS
<1>3. /\ n > 0 /\ t = c[n] /\ t \in Page /\ Trunk(db) = db.bytes[t]
      /\ db.bytes[t] \in TrunkPage
  BY <1>1, <1>2, ParseTrunk
<1>4. n - 1 \in Nat
  BY <1>1, <1>3
<1> DEFINE m == n - 1
           e == [i \in 1 .. m |-> c[i]]
<1>5. n \in 1 .. n /\ n \in Nat \ {0} /\ IsFreelist(db, n, c)
  BY <1>1, <1>3
<1>6. t \in FreePages(db, n, c)
  BY <1>3, <1>5, SMTT(30) DEF FreePages
<1>7. d = [page_count |-> db.page_count,
           freelist_trunk_page |-> db.bytes[t].next_trunk,
           freelist_page_count |-> saturating_sub(db.freelist_page_count),
           bytes |-> [db.bytes EXCEPT ![t] = InUse],
           used |-> db.used \union {t}]
  BY <1>2, <1>3 DEF allocate_page, Allocated
<1>8. /\ d.page_count = db.page_count
      /\ d.freelist_trunk_page = db.bytes[t].next_trunk
      /\ d.freelist_page_count = saturating_sub(db.freelist_page_count)
      /\ d.bytes = [db.bytes EXCEPT ![t] = InUse] /\ d.used = db.used \union {t}
  BY <1>7
<1>9. d \in Image
  <2>1. d.bytes \in [Page -> TrunkPage]
    BY <1>1, <1>8, Zenon
  <2>2. saturating_sub(db.freelist_page_count) \in Nat
    BY <1>1 DEF saturating_sub
  <2>3. db.used \union {t} \subseteq Page /\ db.bytes[t].next_trunk \in 0 .. MaxPage
    BY <1>1, <1>3, SMTT(30) DEF TrunkPage
  <2> QED  BY <1>1, <1>7, <1>8, <2>1, <2>2, <2>3 DEF Image
<1>10. LessTrunk(db, d, n, c)
  <2>1. \A i \in 1 .. n : i # n => c[i] # t
    BY <1>3, <1>5 DEF IsFreelist, NoDuplicates
  <2>2. \A i \in 1 .. n : i # n => d.bytes[c[i]] = db.bytes[c[i]]
    BY <2>1, <1>1, <1>8
  <2>3. db.bytes[c[n]].leaves = << >> /\ d.freelist_trunk_page = db.bytes[c[n]].next_trunk
    BY <1>3, <1>8
  <2> QED  BY <2>2, <2>3 DEF LessTrunk
<1>11. Lists(d, m, e, FreePages(db, n, c) \ {t})
  <2>1. Lists(d, m, e, FreePages(db, n, c) \ {c[n]})
    <3>1. m \in Nat /\ m = n - 1 /\ e = [i \in 1 .. m |-> c[i]]
      BY <1>4
    <3> HIDE DEF m, e
    <3> QED  BY <3>1, <1>5, <1>10, DropTrunk
  <2> QED  BY <2>1, <1>3
<1>12. d.freelist_page_count = Cardinality(FreePages(d, m, e))
  <2>1. IsFiniteSet(FreePages(db, n, c))
    BY <1>1, FreeIsFinite
  <2>2. saturating_sub(Cardinality(FreePages(db, n, c)))
          = Cardinality(FreePages(db, n, c) \ {t})
    BY <2>1, <1>6, CountDown
  <2>3. db.freelist_page_count = Cardinality(FreePages(db, n, c))
    BY <1>1 DEF IsFreelist
  <2>4. FreePages(d, m, e) = FreePages(db, n, c) \ {t}
    BY <1>11 DEF Lists
  <2> QED  BY <2>2, <2>3, <2>4, <1>8, Zenon
<1>13. IsFreelist(d, m, e)
  <2>1. 1 \in d.used /\ d.used \subseteq 1 .. d.page_count
    BY <1>1, <1>6, <1>8, SMTT(30) DEF IsFreelist
  <2>2. FreePages(d, m, e) = (1 .. d.page_count) \ d.used
    BY <1>1, <1>8, <1>11 DEF IsFreelist, Lists
  <2> QED  BY <1>11, <1>12, <2>1, <2>2, SMTT(30) DEF IsFreelist, Lists
<1>14. m \in 0 .. d.page_count /\ e \in [1 .. m -> 2 .. d.page_count]
  BY <1>1, <1>3, <1>4, <1>8
<1> QED  BY <1>9, <1>13, <1>14, Zenon DEF FreelistSound

\* deallocate_page makes the page the first trunk.
LEMMA PushTrunkSound ==
  ASSUME NEW db \in Image, FreelistSound(db),
         ~(HasFree(db) /\ Len(Trunk(db).leaves) < max_leaves_per_trunk),
         NEW p \in db.used, p # 1, NEW d, d = deallocate_page(db, p)
  PROVE  d \in Image /\ FreelistSound(d)
<1>1. PICK n, c :
        /\ n \in Nat /\ c \in [1 .. n -> 2 .. db.page_count] /\ n <= db.page_count
        /\ IsFreelist(db, n, c)
        /\ db.page_count \in Page /\ db.page_count \in Nat
        /\ db.used \subseteq Page /\ db.freelist_page_count \in Nat
        /\ db.bytes \in [Page -> TrunkPage]
        /\ \A i \in 1 .. n : c[i] \in Page
        /\ InUse \in TrunkPage
  BY SoundImage
<1> DEFINE m == n + 1
           e == [i \in 1 .. m |-> IF i = m THEN p ELSE c[i]]
<1>2. m \in Nat
  BY <1>1
<1>3. /\ IsFreelist(db, n, c) /\ p \notin FreePages(db, n, c)
      /\ p \in 2 .. db.page_count /\ p \in Page
  BY <1>1 DEF IsFreelist
<1>4. PICK b : b = [next_trunk |-> db.freelist_trunk_page, leaves |-> << >>]
  BY Zenon
<1>5. d = [page_count |-> db.page_count, freelist_trunk_page |-> p,
           freelist_page_count |-> db.freelist_page_count + 1,
           bytes |-> [db.bytes EXCEPT ![p] = b], used |-> db.used \ {p}]
  BY <1>4, Zenon DEF deallocate_page
<1>6. /\ d.page_count = db.page_count /\ d.freelist_trunk_page = p
      /\ d.freelist_page_count = db.freelist_page_count + 1
      /\ d.bytes = [db.bytes EXCEPT ![p] = b] /\ d.used = db.used \ {p}
  BY <1>5
<1>7. d \in Image
  <2>1. b \in TrunkPage
    BY <1>4 DEF TrunkPage, Image
  <2>2. d.bytes \in [Page -> TrunkPage]
    BY <2>1, <1>1, <1>6
  <2>3. /\ db.freelist_page_count + 1 \in Nat /\ db.used \ {p} \subseteq Page
        /\ p \in 0 .. MaxPage
    BY <1>1, <1>3, FreelistAssumption DEF Page
  <2> QED  BY <1>1, <1>5, <1>6, <2>2, <2>3 DEF Image
<1>8. MoreTrunk(db, d, n, c, p)
  <2>1. \A i \in 1 .. n : c[i] # p
    BY <1>3 DEF FreePages
  <2>2. \A i \in 1 .. n : d.bytes[c[i]] = db.bytes[c[i]]
    BY <2>1, <1>1, <1>6
  <2>3. d.bytes[p] = b
    BY <1>1, <1>3, <1>6
  <2> QED  BY <2>2, <2>3, <1>4, <1>6 DEF MoreTrunk
<1>9. Lists(d, m, e, FreePages(db, n, c) \union {p})
  <2>1. m = n + 1 /\ e = [i \in 1 .. m |-> IF i = m THEN p ELSE c[i]]
    OBVIOUS
  <2> HIDE DEF m, e
  <2>2. n \in Nat
    BY <1>1
  <2> QED  BY <2>1, <2>2, <1>2, <1>3, <1>8, AddTrunk
<1>10. FreePages(d, m, e) = FreePages(db, n, c) \union {p}
  BY <1>9 DEF Lists
<1>11. d.freelist_page_count = Cardinality(FreePages(d, m, e))
  <2>1. IsFiniteSet(FreePages(db, n, c))
    BY <1>1, FreeIsFinite, SMTT(30)
  <2>2. Cardinality(FreePages(db, n, c) \union {p})
          = Cardinality(FreePages(db, n, c)) + 1
    BY <2>1, <1>3, CountUp
  <2>3. db.freelist_page_count = Cardinality(FreePages(db, n, c))
    BY <1>1, SMTT(30) DEF IsFreelist
  <2> QED  BY <2>2, <2>3, <1>6, <1>10, Zenon
<1>12. IsFreelist(d, m, e)
  <2>1. 1 \in d.used /\ d.used \subseteq 1 .. d.page_count
    BY <1>1, <1>6 DEF IsFreelist
  <2>2. FreePages(d, m, e) = (1 .. d.page_count) \ d.used
    BY <1>1, <1>3, <1>6, <1>10, ZenonT(30) DEF IsFreelist
  <2> QED  BY <1>9, <1>11, <2>1, <2>2, SMTT(30) DEF IsFreelist, Lists
<1>13. e \in [1 .. m -> 2 .. d.page_count]
  BY <1>1, <1>2, <1>3, <1>6
<1>14. m \in 0 .. d.page_count
  <2>1. \A i, j \in 1 .. m : e[i] = e[j] => i = j
    BY <1>9 DEF Lists, NoDuplicates
  <2> HIDE DEF m, e
  <2>2. d.page_count \in Nat /\ d.page_count >= 1
    BY <1>1, <1>3, <1>6
  <2>3. OneToOne(e, m)
    BY <2>1, Zenon DEF OneToOne
  <2>4. m < d.page_count
    BY <2>2, <2>3, <1>2, <1>13, ChainFits
  <2> QED  BY <2>2, <2>4, <1>2
<1> QED  BY <1>7, <1>12, <1>13, <1>14, Zenon DEF FreelistSound

\* allocate_page keeps the freelist sound, whichever of its three ways it
\* finds a page.
THEOREM AllocateKeepsFreelist ==
  ASSUME NEW db \in Image, FreelistSound(db), Allocated(db) \in Page
  PROVE  allocate_page(db) \in Image /\ FreelistSound(allocate_page(db))
BY ExtendSound, PopLeafSound, PopTrunkSound

\* deallocate_page keeps the freelist sound, for any page of a b-tree but
\* page 1.
THEOREM DeallocateKeepsFreelist ==
  ASSUME NEW db \in Image, FreelistSound(db), NEW p \in db.used, p # 1
  PROVE  deallocate_page(db, p) \in Image /\ FreelistSound(deallocate_page(db, p))
BY PushLeafSound, PushTrunkSound

-----------------------------------------------------------------------------
(* The session.                                                            *)

\* The invariants of Session together are inductive.
IInv ==
  /\ TypeOK /\ NoPageLost /\ OpenIsUncommitted /\ CleanIsCommitted
  /\ LockEndsWithTransaction

\* The part of TypeOK about the lock.
LocksTyped ==
  /\ level \in Shared .. Exclusive /\ tx_lock_level \in {Shared, Reserved, Exclusive}
  /\ contended \in BOOLEAN

\* After a step that ends a transaction.
LocksReleased ==
  /\ tx_lock_level' = Shared /\ level' \in Shared .. Exclusive
  /\ contended' \in BOOLEAN /\ (~contended' => level' = Shared)

\* After a climb that the other connections stopped.
LocksKept ==
  /\ tx_lock_level' = tx_lock_level /\ level' \in Shared .. Exclusive
  /\ tx_lock_level <= level' /\ contended' \in BOOLEAN /\ contended'

\* DropToShared ends every lock above SHARED.
LEMMA DropFacts ==
  level' = Shared /\ tx_lock_level' = Shared /\ contended' = FALSE => LocksReleased
<1>1. Shared \in Shared .. Exclusive
  BY DEF Shared, Exclusive
<1> QED  BY <1>1, Zenon DEF LocksReleased

\* A new database has an empty freelist.
LEMMA EmptyIsSound == EmptyImage \in Image /\ FreelistSound(EmptyImage)
<1> DEFINE e == [i \in 1 .. 0 |-> 2]
<1>1. InUse \in TrunkPage /\ 1 \in Page /\ 0 \in 0 .. MaxPage
  BY FreelistAssumption DEF InUse, TrunkPage, Page
<1>2. [p \in Page |-> InUse] \in [Page -> TrunkPage]
  BY <1>1
<1>3. EmptyImage \in Image
  BY <1>1, <1>2 DEF EmptyImage, Image
<1>4. FreePages(EmptyImage, 0, e) = {}
  BY DEF FreePages
<1>5. /\ EmptyImage.used = {1} /\ EmptyImage.page_count = 1
      /\ EmptyImage.freelist_page_count = 0 /\ EmptyImage.freelist_trunk_page = 0
  BY DEF EmptyImage
<1>6. (1 .. 1) \ {1} = {} /\ {1} \subseteq 1 .. 1
  OBVIOUS
<1>7. IsChain(EmptyImage, 0, e) /\ NoDuplicates(EmptyImage, 0, e) /\ Fits(EmptyImage, 0, e)
  BY <1>5 DEF IsChain, NoDuplicates, Fits
<1>8. Cardinality({}) = 0
  BY FS_EmptySet
<1>9. IsFreelist(EmptyImage, 0, e)
  BY <1>4, <1>5, <1>6, <1>7, <1>8 DEF IsFreelist
<1>10. 0 \in 0 .. EmptyImage.page_count /\ e \in [1 .. 0 -> 2 .. EmptyImage.page_count]
  BY <1>5
<1> HIDE DEF e
<1> QED  BY <1>3, <1>9, <1>10, Zenon DEF FreelistSound

\* A session starts on an empty database with nothing dirty.
LEMMA InitIInv == Init => IInv
<1> SUFFICES ASSUME Init  PROVE  IInv
  OBVIOUS
<1>1. EmptyImage \in Image /\ FreelistSound(EmptyImage)
  BY EmptyIsSound
<1>2. dirty \in BOOLEAN /\ autocommit \in BOOLEAN /\ contended \in BOOLEAN /\ autocommit
  BY Zenon DEF Init
<1>3. disk \in Image /\ mem \in Image /\ begun \in Image /\ NoPageLost
  BY <1>1, Zenon DEF Init, NoPageLost
<1>4. 0 \in 0 .. MaxOps /\ Shared \in Shared .. Exclusive
  BY SessionAssumption DEF Shared, Exclusive
<1>5. TypeOK
  BY <1>2, <1>3, <1>4 DEF Init, TypeOK
<1>6. LockEndsWithTransaction
  BY DEF Init, LockEndsWithTransaction, Shared
<1>7. OpenIsUncommitted /\ CleanIsCommitted
  BY <1>2, Zenon DEF Init, OpenIsUncommitted, CleanIsCommitted
<1> QED  BY <1>3, <1>5, <1>6, <1>7 DEF IInv

\* A row operation leaves the image in memory sound.
LEMMA RowOpStep == IInv /\ RowOp => IInv'
<1> SUFFICES ASSUME IInv, RowOp  PROVE  IInv'
  OBVIOUS
<1> USE DEF IInv
<1>1. mem \in Image /\ FreelistSound(mem)
  BY DEF TypeOK, NoPageLost
<1>2. mem' \in Image /\ FreelistSound(mem')
  <2>1. CASE Allocated(mem) \in Page /\ mem' = allocate_page(mem)
    BY <1>1, <2>1, AllocateKeepsFreelist
  <2>2. ASSUME NEW p \in mem.used \ {1}, mem' = deallocate_page(mem, p)
        PROVE  mem' \in Image /\ FreelistSound(mem')
    BY <1>1, <2>2, DeallocateKeepsFreelist
  <2>3. CASE UNCHANGED mem
    BY <1>1, <2>3
  <2> QED  BY <2>1, <2>2, <2>3 DEF RowOp
<1>3. /\ dirty' = TRUE /\ ops' \in 0 .. MaxOps
      /\ UNCHANGED <<disk, journal_mode, level, tx_lock_level, autocommit, pc,
                     begun, contended>>
  BY SessionAssumption DEF RowOp, TypeOK
<1> QED
  BY <1>2, <1>3 DEF TypeOK, NoPageLost, OpenIsUncommitted, CleanIsCommitted,
                    LockEndsWithTransaction

\* Pager::release_tx_lock ends the transaction's lock.
LEMMA ReleaseFacts ==
  ASSUME IInv, release_tx_lock
  PROVE  LocksReleased
<1>1. CASE tx_lock_level > Shared
  <2>1. level' = Shared /\ tx_lock_level' = Shared /\ contended' = FALSE
    BY <1>1 DEF release_tx_lock, DropToShared
  <2> QED  BY <2>1, DropFacts
<1>2. CASE ~(tx_lock_level > Shared)
  <2>1. level' = level /\ tx_lock_level' = tx_lock_level /\ contended' = contended
    BY <1>2 DEF release_tx_lock
  <2>2. tx_lock_level = Shared /\ level \in Shared .. Exclusive /\ contended \in BOOLEAN
        /\ (~contended => level = tx_lock_level)
    BY <1>2 DEF IInv, TypeOK, LockEndsWithTransaction, Shared, Reserved, Exclusive
  <2> QED  BY <2>1, <2>2, Zenon DEF LocksReleased
<1> QED  BY <1>1, <1>2

\* The outcomes of Pager::flush.
LEMMA FlushFacts ==
  ASSUME IInv, NEW ok \in BOOLEAN, flush(ok)
  PROVE  /\ mem' = mem
         /\ \/ ok /\ disk' = mem /\ ~dirty' /\ dirty' \in BOOLEAN
            \/ ~ok /\ disk' = disk /\ dirty' = dirty
         /\ LocksReleased \/ (~ok /\ LocksKept)
<1>1. CASE ok /\ FlushClean
  <2>1. LocksReleased /\ mem' = mem /\ disk' = disk /\ dirty' = dirty /\ ~dirty
    BY <1>1, ReleaseFacts DEF FlushClean, Keep
  <2>2. mem = disk /\ dirty \in BOOLEAN
    BY <2>1 DEF IInv, CleanIsCommitted, TypeOK
  <2> QED  BY <1>1, <2>1, <2>2, Zenon
<1>2. CASE FlushWal(ok)
  <2>1. LocksReleased /\ IF ok THEN Commit ELSE Keep
    BY <1>2, ReleaseFacts DEF FlushWal
  <2> QED  BY <2>1, Zenon DEF Commit, Keep
<1>3. CASE FlushLocked(ok)
  <2>1. LocksReleased /\ IF ok THEN Commit ELSE Keep
    BY <1>3, DropFacts DEF FlushLocked, DropToShared
  <2> QED  BY <2>1, Zenon DEF Commit, Keep
<1>4. CASE ~ok /\ FlushContended
  <2>1. /\ level' \in IF level < Exclusive THEN level .. Exclusive ELSE {Exclusive}
        /\ level' # Exclusive /\ contended' = (level' < Exclusive)
        /\ tx_lock_level' = tx_lock_level
        /\ mem' = mem /\ disk' = disk /\ dirty' = dirty
    BY <1>4 DEF FlushContended, ClimbTo, Climbed, Keep
  <2>2. level \in Shared .. Exclusive /\ tx_lock_level <= level
    BY DEF IInv, TypeOK, LockEndsWithTransaction
  <2>3. level' \in Shared .. Exclusive /\ level' < Exclusive /\ tx_lock_level <= level'
    BY <2>1, <2>2 DEF TypeOK, IInv, Shared, Reserved, Exclusive
  <2>4. contended' \in BOOLEAN /\ contended'
    BY <2>1, <2>3, Zenon
  <2>5. LocksKept
    BY <2>1, <2>3, <2>4 DEF LocksKept
  <2> QED  BY <1>4, <2>1, <2>5, Zenon
<1> QED  BY <1>1, <1>2, <1>3, <1>4 DEF flush

\* The part of the invariant that says nothing of the locks.
LEMMA DataStep ==
  ASSUME IInv, mem' \in Image, FreelistSound(mem'), disk' \in Image, FreelistSound(disk'),
         dirty' \in BOOLEAN, autocommit' \in BOOLEAN, begun' \in Image,
         ~dirty' => mem' = disk', ~autocommit' => disk' = begun',
         journal_mode' \in {"Legacy", "Wal"}, pc' \in {"idle", "write"},
         ops' \in 0 .. MaxOps, LocksTyped', LockEndsWithTransaction'
  PROVE  IInv'
BY DEF IInv, TypeOK, LocksTyped, NoPageLost, OpenIsUncommitted, CleanIsCommitted

\* What every state satisfies.
LEMMA StateFacts ==
  ASSUME IInv
  PROVE  /\ mem \in Image /\ FreelistSound(mem) /\ disk \in Image /\ FreelistSound(disk)
         /\ dirty \in BOOLEAN /\ autocommit \in BOOLEAN /\ begun \in Image
         /\ (~dirty => mem = disk) /\ (~autocommit => disk = begun)
         /\ journal_mode \in {"Legacy", "Wal"} /\ pc \in {"idle", "write"}
         /\ ops \in 0 .. MaxOps /\ LocksTyped /\ LockEndsWithTransaction
BY DEF IInv, TypeOK, LocksTyped, NoPageLost, OpenIsUncommitted, CleanIsCommitted

\* Once its lock is released, or while it stays open, a transaction's lock is
\* as LockEndsWithTransaction says.
LEMMA LocksStep ==
  ASSUME IInv, \/ LocksReleased /\ autocommit' \in BOOLEAN
               \/ LocksKept /\ ~autocommit' /\ autocommit' \in BOOLEAN
               \/ LocksKept /\ tx_lock_level = Shared /\ autocommit' \in BOOLEAN
  PROVE  LocksTyped' /\ LockEndsWithTransaction'
BY DEF IInv, TypeOK, LocksTyped, LocksReleased, LocksKept, LockEndsWithTransaction,
       Shared, Reserved, Exclusive

\* COMMIT, whatever its flush returns.
LEMMA CommitStep ==
  ASSUME IInv, NEW ok \in BOOLEAN, CommitStmt(ok)
  PROVE  IInv'
<1>1. flush(ok) /\ autocommit' = ok /\ UNCHANGED <<journal_mode, pc, ops, begun>>
      /\ ~autocommit
  BY DEF CommitStmt
<1>2. /\ mem' = mem
      /\ \/ ok /\ disk' = mem /\ ~dirty' /\ dirty' \in BOOLEAN
         \/ ~ok /\ disk' = disk /\ dirty' = dirty
      /\ LocksReleased \/ (~ok /\ LocksKept)
  BY <1>1, FlushFacts
<1>3. autocommit' \in BOOLEAN /\ (ok => autocommit') /\ (~ok => ~autocommit')
  BY <1>1, Zenon
<1>4. LocksTyped' /\ LockEndsWithTransaction'
  BY <1>2, <1>3, LocksStep
<1>5. CASE ok
  <2>1. disk' = mem /\ mem' = mem /\ ~dirty' /\ dirty' \in BOOLEAN
    BY <1>2, <1>5
  <2> QED  BY <2>1, <1>1, <1>3, <1>4, <1>5, StateFacts, DataStep
<1>6. CASE ~ok
  <2>1. disk' = disk /\ mem' = mem /\ dirty' = dirty
    BY <1>2, <1>6
  <2> QED  BY <2>1, <1>1, <1>3, <1>4, StateFacts, DataStep
<1> QED  BY <1>5, <1>6

\* The Halt that ends a write program, in and out of a transaction.
LEMMA HaltStep ==
  ASSUME IInv, NEW ok \in BOOLEAN, Halt(ok)
  PROVE  IInv'
<1>1. CASE autocommit
  <2>1. flush(ok) /\ pc' = "idle" /\ UNCHANGED <<journal_mode, autocommit, ops, begun>>
    BY <1>1 DEF Halt
  <2>2. /\ mem' = mem
        /\ \/ ok /\ disk' = mem /\ ~dirty' /\ dirty' \in BOOLEAN
           \/ ~ok /\ disk' = disk /\ dirty' = dirty
        /\ LocksReleased \/ (~ok /\ LocksKept)
    BY <2>1, FlushFacts
  <2>3. tx_lock_level = Shared /\ autocommit' = autocommit /\ autocommit \in BOOLEAN
    BY <1>1, <2>1 DEF IInv, LockEndsWithTransaction, TypeOK
  <2>4. LocksTyped' /\ LockEndsWithTransaction'
    BY <2>2, <2>3, LocksStep
  <2>5. CASE ok
    <3>1. disk' = mem /\ mem' = mem /\ ~dirty' /\ dirty' \in BOOLEAN
      BY <2>2, <2>5
    <3> QED  BY <3>1, <1>1, <2>1, <2>4, StateFacts, DataStep
  <2>6. CASE ~ok
    <3>1. disk' = disk /\ mem' = mem /\ dirty' = dirty
      BY <2>2, <2>6
    <3> QED  BY <3>1, <2>1, <2>4, StateFacts, DataStep
  <2> QED  BY <2>5, <2>6
<1>2. CASE ~autocommit
  BY <1>2 DEF Halt, IInv, TypeOK, NoPageLost, OpenIsUncommitted, CleanIsCommitted,
     LockEndsWithTransaction
<1> QED  BY <1>1, <1>2

\* BEGIN, in its three forms.
LEMMA BeginStep ==
  ASSUME IInv, BeginDeferred \/ \E target \in {Reserved, Exclusive} : BeginLocked(target)
  PROVE  IInv'
<1>1. CASE BeginDeferred
  BY <1>1 DEF BeginDeferred, IInv, TypeOK, NoPageLost, OpenIsUncommitted,
              CleanIsCommitted, LockEndsWithTransaction
<1>2. ASSUME NEW target \in {Reserved, Exclusive}, BeginLocked(target)  PROVE  IInv'
  <2>1. autocommit /\ tx_lock_level = Shared /\ level \in Shared .. Exclusive
    BY <1>2 DEF BeginLocked, IInv, LockEndsWithTransaction, TypeOK
  <2>2. /\ level' \in IF level < target THEN level .. target ELSE {target}
        /\ contended' = (level' < target)
        /\ UNCHANGED <<disk, mem, dirty, journal_mode, pc, ops>>
    BY <1>2 DEF BeginLocked, ClimbTo
  <2>3. level' \in Shared .. Exclusive /\ level' <= target /\ target \in Shared .. Exclusive
    BY <2>1, <2>2 DEF Shared, Reserved, Exclusive
  <2>4. contended' \in BOOLEAN
    <3>1. (level' < target) \in BOOLEAN
      BY <2>3 DEF Shared, Exclusive
    <3> QED  BY <2>2, <3>1, Zenon
  <2>5. CASE level' = target
    <3>1. tx_lock_level' = target /\ autocommit' = FALSE /\ begun' = disk
      BY <1>2, <2>5 DEF BeginLocked, Climbed
    <3>2. autocommit' \in BOOLEAN /\ ~autocommit'
      BY <3>1, Zenon
    <3>3. LocksTyped' /\ LockEndsWithTransaction'
      BY <3>1, <3>2, <2>3, <2>4, <2>5
      DEF LocksTyped, LockEndsWithTransaction, Shared, Reserved, Exclusive
    <3> QED  BY <3>1, <3>2, <3>3, <2>2, StateFacts, DataStep
  <2>6. CASE level' # target
    <3>1. tx_lock_level' = tx_lock_level /\ autocommit' = autocommit /\ begun' = begun
      BY <1>2, <2>6 DEF BeginLocked, Climbed
    <3>2. level' < target
      BY <2>3, <2>6 DEF Shared, Exclusive
    <3>3. contended'
      BY <2>2, <3>2, Zenon
    <3>4. LocksKept
      BY <3>1, <3>3, <2>1, <2>3, <2>4 DEF LocksKept, Shared, Exclusive
    <3>5. LocksTyped' /\ LockEndsWithTransaction'
      BY <3>1, <3>4, <2>1, StateFacts, LocksStep
    <3> QED  BY <3>1, <3>5, <2>2, StateFacts, DataStep
  <2> QED  BY <2>5, <2>6
<1> QED  BY <1>1, <1>2

\* The statements that commit nothing and take no lock.
LEMMA OtherStep ==
  ASSUME IInv, \/ RollbackStmt \/ StartWrite \/ StatementFails \/ Exit
               \/ \E mode \in {"Legacy", "Wal"} : SetJournalMode(mode)
  PROVE  IInv'
<1>1. ASSUME mem' = disk, dirty' = FALSE, disk' = disk, autocommit' = TRUE, LocksReleased,
             pc' \in {"idle", "write"}, UNCHANGED <<journal_mode, ops, begun>>
      PROVE  IInv'
  <2>1. dirty' \in BOOLEAN /\ autocommit' \in BOOLEAN /\ autocommit'
    BY <1>1, Zenon
  <2>2. LocksTyped' /\ LockEndsWithTransaction'
    BY <1>1, <2>1, LocksStep
  <2> QED  BY <1>1, <2>1, <2>2, StateFacts, DataStep
<1>2. CASE RollbackStmt
  <2>1. release_tx_lock /\ mem' = disk /\ dirty' = FALSE /\ disk' = disk
        /\ autocommit' = TRUE /\ UNCHANGED <<journal_mode, pc, ops, begun>>
    BY <1>2 DEF RollbackStmt, rollback
  <2> QED  BY <1>1, <2>1, ReleaseFacts, StateFacts
<1>3. CASE Exit
  BY <1>1, <1>3, DropFacts DEF Exit
<1> USE DEF IInv, TypeOK, NoPageLost, OpenIsUncommitted, CleanIsCommitted,
            LockEndsWithTransaction
<1>4. CASE StartWrite
  BY <1>4, SessionAssumption DEF StartWrite
<1>5. CASE StatementFails
  BY <1>5 DEF StatementFails
<1>6. CASE \E mode \in {"Legacy", "Wal"} : SetJournalMode(mode)
  BY <1>6 DEF SetJournalMode
<1> QED  BY <1>2, <1>3, <1>4, <1>5, <1>6

\* Every statement, and the end of the session, keeps the invariant.
LEMMA NextIInv == IInv /\ [Next]_vars => IInv'
<1> SUFFICES ASSUME IInv, [Next]_vars  PROVE  IInv'
  OBVIOUS
<1>1. CASE UNCHANGED vars
  BY <1>1 DEF vars, IInv, TypeOK, NoPageLost, OpenIsUncommitted, CleanIsCommitted,
              LockEndsWithTransaction
<1>2. CASE Next
  BY <1>2, RowOpStep, CommitStep, HaltStep, BeginStep, OtherStep DEF Next
<1> QED  BY <1>1, <1>2

\* No page is lost or listed twice by any session: every page of the
\* committed file and of the pager's pages is in a b-tree or on the freelist,
\* through failed statements, failed commits and rollbacks.
THEOREM SessionLosesNoPage == Spec => []NoPageLost
<1>1. IInv => NoPageLost
  BY DEF IInv
<1> QED  BY InitIInv, NextIInv, <1>1, PTL DEF Spec

\* A transaction is committed by its COMMIT or not at all, and a clean pager
\* shows the committed file.
THEOREM SessionIsAtomic == Spec => []TransactionsAtomic
<1>1. IInv => TransactionsAtomic
  BY DEF IInv, TransactionsAtomic
<1> QED  BY InitIInv, NextIInv, <1>1, PTL DEF Spec

\* A transaction's lock ends with it, however it ends: COMMIT, ROLLBACK, a
\* failed commit, or a program that halts in the middle.
THEOREM SessionReleasesLocks == Spec => []LockEndsWithTransaction
<1>1. IInv => LockEndsWithTransaction
  BY DEF IInv
<1> QED  BY InitIInv, NextIInv, <1>1, PTL DEF Spec

=============================================================================
