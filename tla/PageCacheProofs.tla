-------------------------- MODULE PageCacheProofs --------------------------
(***************************************************************************)
(* CacheCoherent and CacheBounded for every set of pages, every capacity   *)
(* and every heap limit.  The inductive invariant adds that two candidates *)
(* of the heap never have the same tick, which makes the victim unique.    *)
(***************************************************************************)
EXTENDS PageCache, FiniteSetTheorems, WellFoundedInduction, TLAPS

\* No tick was given to two candidates.
HeapUnique(h) == \A c, d \in h : c[1] = d[1] => c = d

\* Every cached page can be found by eviction.
Covers(h, e) == \A p \in DOMAIN e : <<e[p].tick, p>> \in h

\* The inductive invariant.
IInv ==
  /\ TypeOK /\ CacheCoherent /\ CacheBounded
  /\ IsFiniteSet(DOMAIN entries)
  /\ HeapUnique(eviction_heap)

-----------------------------------------------------------------------------
\* A non-empty set of ticks has a smallest one.
LEMMA NatMin ==
  ASSUME NEW T, T \subseteq Nat, T # {}
  PROVE  \E x \in T : \A y \in T : x <= y
<1> DEFINE R == {ss \in Nat \X Nat : ss[1] < ss[2]}
<1>0. IsWellFoundedOn(R, Nat)
  BY NatLessThanWellFounded DEF OpToRel
<1> HIDE DEF R
<1>1. PICK x \in T : \A y \in T : ~ (<<y, x>> \in R)
  BY <1>0, WFMin
<1>2. ASSUME NEW y \in T  PROVE  x <= y
  <2>1. x \in Nat /\ y \in Nat
    OBVIOUS
  <2>2. <<y, x>> \in Nat \X Nat
    BY <2>1
  <2>3. ~ (y < x)
    BY <2>2, <1>1, Zenon DEF R
  <2> QED  BY <2>1, <2>3
<1> QED  BY <1>2

\* The pops of evict_one stop at a current candidate with the smallest tick.
LEMMA OldestIsCurrent ==
  ASSUME NEW h, NEW e, h \subseteq Nat \X Page, Current(h, e) # {}
  PROVE  /\ Oldest(h, e) \in Current(h, e)
         /\ \A d \in Current(h, e) : Oldest(h, e)[1] <= d[1]
<1> DEFINE T == {c[1] : c \in Current(h, e)}
<1>1. T \subseteq Nat /\ T # {}
  BY DEF Current
<1>2. PICK x \in T : \A y \in T : x <= y
  BY <1>1, NatMin
<1>3. PICK c \in Current(h, e) : x = c[1]
  BY <1>2
<1>4. \A d \in Current(h, e) : c[1] <= d[1]
  BY <1>2, <1>3
<1> QED  BY <1>4 DEF Oldest

\* Making room in a covered cache of legal size leaves a covered cache with
\* room for one more page.
LEMMA EvictMakesRoom ==
  ASSUME NEW h, NEW e, h \subseteq Nat \X Page, HeapUnique(h), Covers(h, e),
         IsFiniteSet(DOMAIN e), Cardinality(DOMAIN e) <= Capacity,
         NEW h2, h2 = HeapAfterEvict(h, e),
         NEW e2, e2 = EntriesAfterEvict(h, e)
  PROVE  /\ h2 \subseteq h /\ Covers(h2, e2)
         /\ DOMAIN e2 \subseteq DOMAIN e
         /\ \A p \in DOMAIN e2 : e2[p] = e[p]
         /\ IsFiniteSet(DOMAIN e2)
         /\ Cardinality(DOMAIN e2) + 1 <= Capacity
<1> USE CacheAssumption
<1>c. Cardinality(DOMAIN e) \in Nat
  BY FS_CardinalityType
<1>1. CASE ~IsFull(e)
  BY <1>1, <1>c DEF HeapAfterEvict, EntriesAfterEvict, IsFull
<1>2. CASE IsFull(e)
  <2>1. PICK q \in DOMAIN e : TRUE
    BY <1>2, <1>c, FS_EmptySet DEF IsFull
  <2>2. <<e[q].tick, q>> \in Current(h, e)
    BY <2>1 DEF Covers, Current, IsCurrent
  <2> DEFINE o == Oldest(h, e)
  <2>3. o \in Current(h, e) /\ \A d \in Current(h, e) : o[1] <= d[1]
    BY <2>2, OldestIsCurrent
  <2>4. o \in h /\ o[1] \in Nat /\ o[2] \in DOMAIN e /\ e[o[2]].tick = o[1]
    BY <2>3 DEF Current, IsCurrent
  <2> HIDE DEF o
  <2>5. e2 = Drop(e, o[2]) /\ h2 = {c \in h : c[1] > o[1]}
    BY <1>2, <2>2 DEF HeapAfterEvict, EntriesAfterEvict, EvictedHeap,
                      EvictedEntries, o
  <2>6. DOMAIN e2 = DOMAIN e \ {o[2]} /\ \A p \in DOMAIN e2 : e2[p] = e[p]
    BY <2>5 DEF Drop
  <2>7. ASSUME NEW p \in DOMAIN e2  PROVE  <<e2[p].tick, p>> \in h2
    <3> DEFINE d == <<e[p].tick, p>>
    <3>1. p \in DOMAIN e /\ p # o[2] /\ e2[p] = e[p]
      BY <2>6
    <3>2. d \in h /\ d[1] \in Nat
      BY <3>1 DEF Covers
    <3>3. d \in Current(h, e)
      BY <3>1, <3>2 DEF Current, IsCurrent
    <3>4. o[1] <= d[1]
      BY <3>3, <2>3
    <3>5. d # o
      BY <3>1
    <3>6. d[1] # o[1]
      BY <3>2, <3>5, <2>4 DEF HeapUnique
    <3> HIDE DEF d
    <3>7. d[1] > o[1]
      BY <3>2, <3>4, <3>6, <2>4
    <3>8. d \in h2
      BY <3>2, <3>7, <2>5
    <3> QED  BY <3>1, <3>8 DEF d
  <2>8. /\ IsFiniteSet(DOMAIN e2)
        /\ Cardinality(DOMAIN e2) = Cardinality(DOMAIN e) - 1
    <3>1. DOMAIN e2 = DOMAIN e \ {o[2]} /\ o[2] \in DOMAIN e
      BY <2>4, <2>6
    <3>2. IsFiniteSet(DOMAIN e \ {o[2]}) /\ Cardinality(DOMAIN e \ {o[2]}) = Cardinality(DOMAIN e) - 1
      BY <3>1, FS_RemoveElement
    <3> QED  BY <3>1, <3>2
  <2> QED  BY <2>5, <2>6, <2>7, <2>8, <1>c DEF Covers
<1> QED  BY <1>1, <1>2

-----------------------------------------------------------------------------
\* A new pager has an empty cache.
LEMMA InitIInv == Init => IInv
<1> SUFFICES ASSUME Init  PROVE  IInv
  OBVIOUS
<1> USE CacheAssumption
<1>1. DOMAIN entries = {} /\ DOMAIN dirty = {} /\ DOMAIN wal_pages = {}
  BY DEF Init, Nothing
<1>2. IsFiniteSet(DOMAIN entries) /\ Cardinality(DOMAIN entries) <= Capacity
  BY <1>1, FS_EmptySet
<1>3. source \in [Page -> Content]
  BY DEF Init, Content
<1> QED  BY <1>1, <1>2, <1>3
         DEF Init, IInv, TypeOK, CacheCoherent, CacheBounded, HeapUnique

\* The read path changes the cache only.
LEMMA HitStep ==
  ASSUME IInv, NEW p \in Page, CacheHit(p)
  PROVE  IInv'
<1> USE CacheAssumption
<1>1. /\ TypeOK /\ CacheCoherent /\ Covers(eviction_heap, entries)
      /\ IsFiniteSet(DOMAIN entries) /\ Cardinality(DOMAIN entries) <= Capacity
      /\ HeapUnique(eviction_heap) /\ eviction_heap \subseteq (1 .. tick) \X Page
      /\ tick \in Nat
  BY DEF IInv, CacheBounded, Covers, TypeOK
<1>2. /\ DOMAIN entries' = DOMAIN entries
      /\ \A q \in DOMAIN entries : q # p => entries'[q] = entries[q]
      /\ entries'[p].bytes = entries[p].bytes /\ entries'[p].tick = tick + 1
      /\ entries'[p] \in [bytes : Content, tick : Nat]
  BY <1>1 DEF CacheHit, TypeOK
<1> DEFINE pushed == eviction_heap \union {<<tick + 1, p>>}
<1>3. /\ pushed \subseteq (1 .. tick + 1) \X Page
      /\ HeapUnique(pushed) /\ Covers(pushed, entries')
  BY <1>1, <1>2 DEF HeapUnique, Covers
<1> DEFINE h2 == compact_eviction_heap(entries')
<1>4. h2 \subseteq pushed /\ Covers(h2, entries')
  BY <1>3 DEF compact_eviction_heap, Covers
<1>5. eviction_heap' \in {pushed, h2}
  BY DEF CacheHit
<1> HIDE DEF pushed, h2
<1>6. /\ eviction_heap' \subseteq (1 .. tick') \X Page
      /\ HeapUnique(eviction_heap') /\ Covers(eviction_heap', entries')
  <2>1. tick' = tick + 1
    BY DEF CacheHit
  <2> QED  BY <2>1, <1>3, <1>4, <1>5 DEF HeapUnique
<1>7. TypeOK'
  BY <1>1, <1>2, <1>6 DEF TypeOK, CacheHit
<1>8. CacheCoherent'
  BY <1>1, <1>2 DEF CacheCoherent, CacheHit, Overlaid
<1> QED  BY <1>1, <1>2, <1>6, <1>7, <1>8 DEF IInv, CacheBounded, Covers

\* A miss evicts at most the oldest page and inserts the page of the file.
LEMMA MissStep ==
  ASSUME IInv, NEW p \in Page, CacheMiss(p)
  PROVE  IInv'
<1> USE CacheAssumption
<1> DEFINE h2 == HeapAfterEvict(eviction_heap, entries)
           e2 == EntriesAfterEvict(eviction_heap, entries)
<1>1. /\ TypeOK /\ CacheCoherent /\ Covers(eviction_heap, entries)
      /\ IsFiniteSet(DOMAIN entries) /\ Cardinality(DOMAIN entries) <= Capacity
      /\ HeapUnique(eviction_heap) /\ eviction_heap \subseteq (1 .. tick) \X Page
      /\ tick \in Nat
  BY DEF IInv, CacheBounded, Covers, TypeOK
<1>a. eviction_heap \subseteq Nat \X Page
  BY <1>1
<1>2. /\ h2 \subseteq eviction_heap /\ Covers(h2, e2)
      /\ DOMAIN e2 \subseteq DOMAIN entries
      /\ \A q \in DOMAIN e2 : e2[q] = entries[q]
      /\ IsFiniteSet(DOMAIN e2)
      /\ Cardinality(DOMAIN e2) + 1 <= Capacity
  BY <1>1, <1>a, EvictMakesRoom
<1>3. /\ p \notin DOMAIN e2 /\ ~Overlaid(p)
      /\ eviction_heap' = h2 \union {<<tick + 2, p>>}
      /\ tick' = tick + 2
      /\ entries' = Over([q \in {p} |-> [bytes |-> source[p],
                                           tick |-> tick + 2]], e2)
      /\ UNCHANGED <<source, dirty, wal_pages, journal_mode, writes>>
  BY <1>2 DEF CacheMiss
<1> HIDE DEF h2, e2
<1>4. /\ DOMAIN entries' = DOMAIN e2 \union {p}
      /\ \A q \in DOMAIN e2 : entries'[q] = entries[q]
      /\ entries'[p] = [bytes |-> source[p], tick |-> tick + 2]
  BY <1>2, <1>3 DEF Over
<1>5. /\ IsFiniteSet(DOMAIN entries')
      /\ Cardinality(DOMAIN entries') <= Capacity
  <2>1. /\ IsFiniteSet(DOMAIN e2 \union {p})
        /\ Cardinality(DOMAIN e2 \union {p}) = Cardinality(DOMAIN e2) + 1
    BY <1>2, <1>3, FS_AddElement
  <2> QED  BY <2>1, <1>2, <1>4
<1>6. /\ eviction_heap' \subseteq (1 .. tick') \X Page
      /\ HeapUnique(eviction_heap')
  BY <1>1, <1>2, <1>3 DEF HeapUnique
<1>7. Covers(eviction_heap', entries')
  BY <1>2, <1>3, <1>4 DEF Covers
<1>8. TypeOK'
  <2>1. /\ DOMAIN entries' \subseteq Page
        /\ \A q \in DOMAIN entries' : entries'[q] \in [bytes : Content, tick : Nat]
    BY <1>1, <1>2, <1>4 DEF TypeOK
  <2> QED  BY <2>1, <1>1, <1>3, <1>6 DEF TypeOK
<1>9. CacheCoherent'
  BY <1>1, <1>2, <1>3, <1>4 DEF CacheCoherent, Overlaid
<1> QED  BY <1>5, <1>6, <1>7, <1>8, <1>9 DEF IInv, CacheBounded, Covers

\* A miss whose read fails only evicts.
LEMMA ReadFailsStep ==
  ASSUME IInv, NEW p \in Page, ReadFails(p)
  PROVE  IInv'
<1> USE CacheAssumption
<1>1. /\ TypeOK /\ CacheCoherent /\ Covers(eviction_heap, entries)
      /\ IsFiniteSet(DOMAIN entries) /\ Cardinality(DOMAIN entries) <= Capacity
      /\ HeapUnique(eviction_heap) /\ eviction_heap \subseteq (1 .. tick) \X Page
      /\ tick \in Nat
  BY DEF IInv, CacheBounded, Covers, TypeOK
<1>2. eviction_heap \subseteq Nat \X Page
  BY <1>1
<1>3. /\ eviction_heap' = HeapAfterEvict(eviction_heap, entries)
      /\ entries' = EntriesAfterEvict(eviction_heap, entries)
      /\ tick' = tick + 1
      /\ UNCHANGED <<source, dirty, wal_pages, journal_mode, writes>>
  BY DEF ReadFails
<1>4. /\ eviction_heap' \subseteq eviction_heap /\ Covers(eviction_heap', entries')
      /\ DOMAIN entries' \subseteq DOMAIN entries
      /\ \A q \in DOMAIN entries' : entries'[q] = entries[q]
      /\ IsFiniteSet(DOMAIN entries')
      /\ Cardinality(DOMAIN entries') + 1 <= Capacity
  BY <1>1, <1>2, <1>3, EvictMakesRoom
<1>5. Cardinality(DOMAIN entries') <= Capacity
  BY <1>4, FS_CardinalityType
<1>6. TypeOK'
  BY <1>1, <1>3, <1>4 DEF TypeOK
<1> QED  BY <1>1, <1>3, <1>4, <1>5, <1>6
         DEF IInv, CacheBounded, CacheCoherent, Covers, HeapUnique, Overlaid

\* The write path forgets cached pages, and never makes one stale.
LEMMA DropKeepsBound ==
  ASSUME IInv, NEW p, entries' = Drop(entries, p), eviction_heap' = eviction_heap
  PROVE  /\ DOMAIN entries' = DOMAIN entries \ {p}
         /\ \A q \in DOMAIN entries' : entries'[q] = entries[q]
         /\ CacheBounded' /\ IsFiniteSet(DOMAIN entries')
<1>1. /\ DOMAIN entries' = DOMAIN entries \ {p}
      /\ \A q \in DOMAIN entries' : entries'[q] = entries[q]
  BY DEF Drop
<1>2. /\ IsFiniteSet(DOMAIN entries')
      /\ Cardinality(DOMAIN entries') <= Cardinality(DOMAIN entries)
  BY <1>1, FS_Subset DEF IInv
<1>3. Cardinality(DOMAIN entries') \in Nat /\ Cardinality(DOMAIN entries) \in Nat
  BY <1>2, FS_CardinalityType DEF IInv
<1>4. Cardinality(DOMAIN entries') <= Capacity
  BY <1>2, <1>3, CacheAssumption DEF IInv, CacheBounded
<1> QED  BY <1>1, <1>2, <1>4 DEF IInv, CacheBounded

\* get_page_mut drops the page it makes dirty from the cache.
LEMMA MutStep ==
  ASSUME IInv, NEW p \in Page, NEW v \in Val, get_page_mut(p, v)
  PROVE  IInv'
<1>1. /\ DOMAIN entries' = DOMAIN entries \ {p}
      /\ \A q \in DOMAIN entries' : entries'[q] = entries[q]
      /\ CacheBounded' /\ IsFiniteSet(DOMAIN entries')
  BY DropKeepsBound DEF get_page_mut
<1>2. Below(p) \in Content
  BY DEF IInv, TypeOK, Below
<1>3. <<v, Below(p)[2]>> \in Content
  BY <1>2 DEF Content
<1>4. /\ DOMAIN dirty' = DOMAIN dirty \union {p}
      /\ \A q \in DOMAIN dirty' : dirty'[q] \in Content
  BY <1>3 DEF get_page_mut, Over, IInv, TypeOK
<1>5. TypeOK'
  BY <1>1, <1>4 DEF IInv, TypeOK, get_page_mut
<1>6. CacheCoherent'
  BY <1>1, <1>4 DEF IInv, CacheCoherent, Overlaid, get_page_mut
<1> QED  BY <1>1, <1>5, <1>6 DEF IInv, get_page_mut

\* flush and rollback touch pages that are not cached.
LEMMA FlushStep ==
  ASSUME IInv,
         \/ FlushLegacy \/ FlushWal \/ rollback
         \/ \E done \in SUBSET DOMAIN dirty : FlushFails(done)
  PROVE  IInv'
<1>0. DOMAIN Nothing = {}
  BY DEF Nothing
<1>u. CacheBounded /\ IsFiniteSet(DOMAIN entries) /\ HeapUnique(eviction_heap)
  BY DEF IInv
<1>1. CASE FlushLegacy
  <2>1. /\ source' \in [Page -> Content]
        /\ \A q \in DOMAIN entries : source'[q] = source[q]
    BY <1>1 DEF FlushLegacy, Over, IInv, TypeOK, CacheCoherent, Overlaid
  <2>2. UNCHANGED <<wal_pages, journal_mode, entries, eviction_heap, tick>>
    BY <1>1 DEF FlushLegacy, cacheVars
  <2>3. TypeOK'
    BY <1>0, <1>1, <2>1, <2>2 DEF FlushLegacy, IInv, TypeOK
  <2>4. CacheCoherent'
    BY <1>0, <1>1, <2>1, <2>2 DEF FlushLegacy, IInv, CacheCoherent, Overlaid
  <2> QED  BY <1>u, <2>2, <2>3, <2>4 DEF IInv, CacheBounded
<1>2. CASE FlushWal
  <2>1. /\ DOMAIN wal_pages' = DOMAIN wal_pages \union DOMAIN dirty
        /\ \A q \in DOMAIN wal_pages' : wal_pages'[q] \in Content
    BY <1>2 DEF FlushWal, Over, IInv, TypeOK
  <2>2. UNCHANGED <<source, journal_mode, entries, eviction_heap, tick>>
    BY <1>2 DEF FlushWal, cacheVars
  <2>3. TypeOK'
    BY <1>0, <1>2, <2>1, <2>2 DEF FlushWal, IInv, TypeOK
  <2>4. CacheCoherent'
    BY <1>0, <1>2, <2>1, <2>2 DEF FlushWal, IInv, CacheCoherent, Overlaid
  <2> QED  BY <1>u, <2>2, <2>3, <2>4 DEF IInv, CacheBounded
<1>3. CASE rollback
  <2>1. UNCHANGED <<source, wal_pages, journal_mode, entries, eviction_heap,
                    tick, writes>>
    BY <1>3 DEF rollback, cacheVars
  <2>2. TypeOK' /\ CacheCoherent'
    BY <1>0, <1>3, <2>1 DEF rollback, IInv, TypeOK, CacheCoherent, Overlaid
  <2> QED  BY <1>u, <2>1, <2>2 DEF IInv, CacheBounded
<1>4. ASSUME NEW done \in SUBSET DOMAIN dirty, FlushFails(done)  PROVE  IInv'
  <2>1. /\ source' \in [Page -> Content]
        /\ \A q \in DOMAIN entries : source'[q] = source[q]
    BY <1>4 DEF FlushFails, Over, IInv, TypeOK, CacheCoherent, Overlaid
  <2>2. UNCHANGED <<dirty, wal_pages, journal_mode, entries, eviction_heap, tick>>
    BY <1>4 DEF FlushFails, cacheVars
  <2>3. TypeOK' /\ CacheCoherent'
    BY <1>4, <2>1, <2>2
    DEF FlushFails, IInv, TypeOK, CacheCoherent, Overlaid
  <2> QED  BY <1>u, <2>2, <2>3 DEF IInv, CacheBounded
<1> QED  BY <1>1, <1>2, <1>3, <1>4

\* The switch changes page 1 and the pages of the overlay, none of them cached.
LEMMA SwitchStep ==
  ASSUME IInv, NEW mode \in {"Legacy", "Wal"}, SetJournalMode(mode)
  PROVE  IInv'
<1> DEFINE folded == Over(wal_pages, source)
<1>0. DOMAIN Nothing = {} /\ 1 \in Page
  BY CacheAssumption DEF Nothing
<1>1. /\ DOMAIN entries' = DOMAIN entries \ {1}
      /\ \A q \in DOMAIN entries' : entries'[q] = entries[q]
      /\ CacheBounded' /\ IsFiniteSet(DOMAIN entries')
  BY DropKeepsBound DEF SetJournalMode
<1>2. /\ folded \in [Page -> Content]
      /\ \A q \in DOMAIN entries : folded[q] = source[q]
  BY DEF Over, IInv, TypeOK, CacheCoherent, Overlaid
<1>3. source' = [folded EXCEPT ![1] = <<folded[1][1], mode>>]
  BY DEF SetJournalMode
<1> HIDE DEF folded
<1>4. <<folded[1][1], mode>> \in Content
  BY <1>0, <1>2 DEF Content
<1>5. /\ source' \in [Page -> Content]
      /\ \A q \in DOMAIN entries' : source'[q] = source[q]
  BY <1>1, <1>2, <1>3, <1>4 DEF IInv, TypeOK
<1>6. TypeOK'
  BY <1>0, <1>1, <1>5 DEF SetJournalMode, IInv, TypeOK
<1>7. CacheCoherent'
  BY <1>0, <1>1, <1>5 DEF SetJournalMode, IInv, CacheCoherent, Overlaid
<1> QED  BY <1>1, <1>6, <1>7 DEF IInv, SetJournalMode

\* Every step of the pager keeps the invariant.
LEMMA NextIInv == IInv /\ [Next]_vars => IInv'
<1> SUFFICES ASSUME IInv, [Next]_vars  PROVE  IInv'
  OBVIOUS
<1>1. CASE UNCHANGED vars
  BY <1>1 DEF vars, IInv, TypeOK, CacheCoherent, CacheBounded, Overlaid
<1>2. CASE Next
  BY <1>2, HitStep, MissStep, ReadFailsStep, MutStep, FlushStep, SwitchStep
     DEF Next
<1> QED  BY <1>1, <1>2

\* The cache never holds a page that differs from the file or that a dirty
\* or WAL page shadows, and it never outgrows its capacity, for every set of
\* pages and every capacity: get_page_mut, flush and set_journal_mode drop
\* what they make stale, and evict_one always finds a victim.
THEOREM CacheIsCoherent == Spec => [](CacheCoherent /\ CacheBounded)
<1>1. IInv => CacheCoherent /\ CacheBounded
  BY DEF IInv
<1> QED  BY <1>1, InitIInv, NextIInv, PTL DEF Spec

=============================================================================
