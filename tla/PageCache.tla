----------------------------- MODULE PageCache -----------------------------
(***************************************************************************)
(* The page cache of src/pager.rs under one connection: the read path      *)
(* (dirty pages, then the WAL overlay, then the cache, then the file),     *)
(* get_page_mut, flush, rollback and the journal-mode switch.              *)
(*                                                                         *)
(* Recency is a tick stamped on every entry; the eviction heap holds       *)
(* <<tick, page>> candidates, of which a page touched again leaves stale   *)
(* ones behind.  The tick does not wrap (it is a u64), so no candidate is  *)
(* pushed twice and the heap is a set.                                     *)
(***************************************************************************)
EXTENDS Naturals, FiniteSets

CONSTANTS
  Page,        \* page numbers; 1 is the header page
  Val,         \* contents of a page
  Capacity,    \* DEFAULT_PAGE_CACHE_CAPACITY, 2000 in the code
  HeapFactor,  \* the heap is rebuilt above max(HeapFactor * Capacity,
  HeapFloor,   \*   HeapFloor) candidates: 4 and 16 in the code
  MaxTick,     \* bound on the tick
  MaxWrites    \* bound on the steps of the write path

ASSUME CacheAssumption ==
  /\ Page \subseteq Nat /\ 1 \in Page
  /\ Val \subseteq Nat /\ 0 \in Val
  /\ Capacity \in Nat \ {0}
  /\ HeapFactor \in Nat /\ HeapFloor \in Nat
  /\ MaxTick \in Nat /\ MaxWrites \in Nat

VARIABLES
  source,         \* the database file
  dirty,          \* Pager.dirty: pages written by the open transaction
  wal_pages,      \* Pager.wal_pages: pages committed to the WAL
  journal_mode,   \* Pager.journal_mode
  entries,        \* PageCache.entries: page -> [bytes, tick]
  eviction_heap,  \* PageCache.eviction_heap
  tick,           \* PageCache.tick
  writes          \* steps of the write path so far

cacheVars == <<entries, eviction_heap, tick>>
vars == <<source, dirty, wal_pages, journal_mode, entries, eviction_heap, tick,
          writes>>

Nothing == [p \in {} |-> 0]

\* Page 1 carries the journal mode in its version bytes.
Content == Val \X {"Legacy", "Wal"}

Over(f, g) == [p \in DOMAIN f \union DOMAIN g |->
                 IF p \in DOMAIN f THEN f[p] ELSE g[p]]
Drop(f, p) == [q \in DOMAIN f \ {p} |-> f[q]]

Init ==
  /\ source = [p \in Page |-> <<0, "Legacy">>]
  /\ dirty = Nothing /\ wal_pages = Nothing
  /\ journal_mode = "Legacy"
  /\ entries = Nothing /\ eviction_heap = {} /\ tick = 0
  /\ writes = 0

-----------------------------------------------------------------------------
(* The cache: entries e, heap h.                                           *)

\* A slip: a stale candidate is taken for a current one.
IsCurrent_Cached(e, c) == c[2] \in DOMAIN e

IsCurrent(e, c) == c[2] \in DOMAIN e /\ e[c[2]].tick = c[1]

Current(h, e) == {c \in h : IsCurrent(e, c)}

\* The candidate that the pops of evict_one stop at.
Oldest(h, e) == CHOOSE c \in Current(h, e) :
                  \A d \in Current(h, e) : c[1] <= d[1]

\* What evict_one leaves: candidates up to the victim are popped; with no
\* current candidate the heap is drained and nothing is evicted.
EvictedHeap(h, e) ==
  {c \in h : Current(h, e) # {} /\ c[1] > Oldest(h, e)[1]}
EvictedEntries(h, e) ==
  IF Current(h, e) = {} THEN e ELSE Drop(e, Oldest(h, e)[2])

IsFull(e) == Cardinality(DOMAIN e) >= Capacity

HeapAfterEvict(h, e)    == IF IsFull(e) THEN EvictedHeap(h, e) ELSE h
EntriesAfterEvict(h, e) == IF IsFull(e) THEN EvictedEntries(h, e) ELSE e

compact_eviction_heap(e) == {<<e[p].tick, p>> : p \in DOMAIN e}

HeapLimit == IF HeapFactor * Capacity > HeapFloor
             THEN HeapFactor * Capacity ELSE HeapFloor

-----------------------------------------------------------------------------
(* PageSource::read_page.                                                  *)

Overlaid(p) == p \in DOMAIN dirty \union DOMAIN wal_pages

\* A hit: touch the entry and push a fresh candidate.
CacheHit(p) ==
  /\ ~Overlaid(p) /\ p \in DOMAIN entries
  /\ tick < MaxTick
  /\ tick' = tick + 1
  /\ entries' = [entries EXCEPT ![p].tick = tick + 1]
  /\ LET pushed == eviction_heap \union {<<tick + 1, p>>}
     IN  eviction_heap' = IF Cardinality(pushed) > HeapLimit
                          THEN compact_eviction_heap(entries') ELSE pushed
  /\ UNCHANGED <<source, dirty, wal_pages, journal_mode, writes>>

\* A miss: evict when full, read the file, insert.  get and insert both
\* take a tick.
CacheMiss(p) ==
  /\ ~Overlaid(p) /\ p \notin DOMAIN entries
  /\ tick + 1 < MaxTick
  /\ tick' = tick + 2
  /\ entries' = Over([q \in {p} |-> [bytes |-> source[p], tick |-> tick + 2]],
                     EntriesAfterEvict(eviction_heap, entries))
  /\ eviction_heap' = HeapAfterEvict(eviction_heap, entries)
                        \union {<<tick + 2, p>>}
  /\ UNCHANGED <<source, dirty, wal_pages, journal_mode, writes>>

\* A miss whose read of the file fails has made room already.
ReadFails(p) ==
  /\ ~Overlaid(p) /\ p \notin DOMAIN entries
  /\ tick < MaxTick
  /\ tick' = tick + 1
  /\ entries' = EntriesAfterEvict(eviction_heap, entries)
  /\ eviction_heap' = HeapAfterEvict(eviction_heap, entries)
  /\ UNCHANGED <<source, dirty, wal_pages, journal_mode, writes>>

-----------------------------------------------------------------------------
(* The write path.                                                         *)

\* What the free function read_page finds below the dirty pages.
Below(p) == IF p \in DOMAIN wal_pages THEN wal_pages[p] ELSE source[p]

\* get_page_mut, and the bytes its caller stores in the buffer.
get_page_mut(p, v) ==
  /\ writes < MaxWrites /\ writes' = writes + 1
  /\ entries' = Drop(entries, p)
  /\ dirty' = Over([q \in {p} |-> <<v, Below(p)[2]>>], dirty)
  /\ UNCHANGED <<source, wal_pages, journal_mode, eviction_heap, tick>>

\* flush in Legacy mode writes the file, in Wal mode the log and the overlay.
FlushLegacy ==
  /\ journal_mode = "Legacy" /\ dirty # Nothing /\ writes < MaxWrites
  /\ source' = Over(dirty, source)
  /\ dirty' = Nothing /\ writes' = writes + 1
  /\ UNCHANGED <<wal_pages, journal_mode, cacheVars>>

\* An I/O error in flush_locked: some pages are written, all stay dirty.
FlushFails(done) ==
  /\ journal_mode = "Legacy" /\ done \subseteq DOMAIN dirty
  /\ writes < MaxWrites
  /\ source' = Over([p \in done |-> dirty[p]], source)
  /\ writes' = writes + 1
  /\ UNCHANGED <<dirty, wal_pages, journal_mode, cacheVars>>

FlushWal ==
  /\ journal_mode = "Wal" /\ dirty # Nothing /\ writes < MaxWrites
  /\ wal_pages' = Over(dirty, wal_pages)
  /\ dirty' = Nothing /\ writes' = writes + 1
  /\ UNCHANGED <<source, journal_mode, cacheVars>>

rollback ==
  /\ dirty' = Nothing
  /\ UNCHANGED <<source, wal_pages, journal_mode, cacheVars, writes>>

\* A slip: the patched page 1 is not dropped from the cache.
SetJournalMode_KeepsPage1(mode) ==
  /\ dirty = Nothing /\ mode # journal_mode /\ writes < MaxWrites
  /\ journal_mode' = mode
  /\ LET folded == Over(wal_pages, source)
     IN  source' = [folded EXCEPT ![1] = <<folded[1][1], mode>>]
  /\ wal_pages' = Nothing
  /\ writes' = writes + 1
  /\ UNCHANGED <<dirty, cacheVars>>

\* set_journal_mode: refused with pages dirty.  Leaving Wal checkpoints the
\* overlay into the file and clears it; then page 1 is patched in the file
\* and dropped from the cache.
SetJournalMode(mode) ==
  /\ dirty = Nothing /\ mode # journal_mode /\ writes < MaxWrites
  /\ journal_mode' = mode
  /\ LET folded == Over(wal_pages, source)
     IN  source' = [folded EXCEPT ![1] = <<folded[1][1], mode>>]
  /\ wal_pages' = Nothing
  /\ entries' = Drop(entries, 1)
  /\ writes' = writes + 1
  /\ UNCHANGED <<dirty, eviction_heap, tick>>

Next ==
  \/ \E p \in Page : CacheHit(p) \/ CacheMiss(p) \/ ReadFails(p)
  \/ \E p \in Page, v \in Val : get_page_mut(p, v)
  \/ \E done \in SUBSET DOMAIN dirty : FlushFails(done)
  \/ FlushLegacy \/ FlushWal \/ rollback
  \/ \E mode \in {"Legacy", "Wal"} : SetJournalMode(mode)

Spec == Init /\ [][Next]_vars

-----------------------------------------------------------------------------
TypeOK ==
  /\ source \in [Page -> Content]
  /\ DOMAIN dirty \subseteq Page /\ \A p \in DOMAIN dirty : dirty[p] \in Content
  /\ DOMAIN wal_pages \subseteq Page
  /\ \A p \in DOMAIN wal_pages : wal_pages[p] \in Content
  /\ journal_mode \in {"Legacy", "Wal"}
  /\ DOMAIN entries \subseteq Page
  /\ \A p \in DOMAIN entries : entries[p] \in [bytes : Content, tick : Nat]
  /\ eviction_heap \subseteq (1 .. tick) \X Page
  /\ tick \in Nat /\ writes \in Nat

\* Whatever was written, flushed, failed to flush, rolled back or switched,
\* a cached page is the page in the file, and it is not shadowed by a dirty
\* or a WAL page that would make it stale later (pager.rs, get_page_mut).
CacheCoherent ==
  \A p \in DOMAIN entries : ~Overlaid(p) /\ entries[p].bytes = source[p]

\* Every cached page has a current candidate in the heap, through stale
\* candidates and rebuilds of the heap; so eviction always finds a victim
\* and the cache stays within its capacity (evict_one).
CacheBounded ==
  /\ \A p \in DOMAIN entries : <<entries[p].tick, p>> \in eviction_heap
  /\ Cardinality(DOMAIN entries) <= Capacity

\* The list that the ticks stand for: the i-th page has i - 1 older ones.
Older(p) == {q \in DOMAIN entries : entries[q].tick < entries[p].tick}
Cached == INSTANCE LRU WITH
  order <- [i \in 1 .. Cardinality(DOMAIN entries) |->
              CHOOSE p \in DOMAIN entries : Cardinality(Older(p)) = i - 1]

\* The cache evicts the least recently used page and nothing else, although
\* the heap it pops from holds stale candidates (evict_one).
ImplementsLRU == Cached!Spec

=============================================================================
