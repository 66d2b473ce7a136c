------------------------------ MODULE WalPager ------------------------------
(***************************************************************************)
(* The write-ahead-log half of src/pager.rs with src/pager/wal.rs,         *)
(* src/pager/checkpoint.rs and src/vfs/shm.rs: connections that pin a      *)
(* reader mark and take their snapshot at open, commits that append frames *)
(* under WAL_WRITE_LOCK, and passive checkpoints that copy frames into the *)
(* database file behind the readers.                                       *)
(*                                                                         *)
(* One process per connection and per checkpointer.  A frame whose salts   *)
(* and checksum chain are right is a record of `wal'; everything after the *)
(* last such frame is not there.  Page contents are numbers, and page 1    *)
(* holds the page count.                                                   *)
(***************************************************************************)
EXTENDS Naturals, Sequences, FiniteSets

CONSTANTS
  Conn,         \* connections
  Writers,      \* the connections that write
  Ckpt,         \* processes that call checkpoint_passive
  Slots,        \* number of reader-mark slots (4 in the code)
  MaxPage,      \* bound on the size of the database
  Val,          \* contents of a page other than page 1
  MaxFrames,    \* bound on the length of the -wal file, in frames
  Synchronous,  \* PRAGMA synchronous: "Off", "Normal" or "Full"
  Faults,       \* a subset of {"kill", "ckpt", "torn", "power"}
  MaxKill,      \* bound on the number of killed processes
  Concurrent,   \* may a checkpoint and a commit overlap?
  InitFrames    \* frames in the -wal file at the start

ASSUME WalAssumption ==
  /\ Writers \subseteq Conn /\ Conn \intersect Ckpt = {} /\ "free" \notin Conn \union Ckpt
  /\ Slots \in Nat \ {0} /\ MaxPage \in Nat \ {0, 1}
  /\ Val \subseteq 0 .. 9
  /\ MaxFrames \in Nat
  /\ Synchronous \in {"Off", "Normal", "Full"}
  /\ Faults \subseteq {"kill", "ckpt", "torn", "power"}
  /\ MaxKill \in Nat /\ Concurrent \in BOOLEAN /\ InitFrames \in {0, 1}

Pages    == 1 .. MaxPage
Absent   == 98              \* the file ends before this page
Torn     == 99              \* a page of which a power loss left a mixture
Slot     == 1 .. Slots
NoSlot   == 0
Free     == "free"
Unused   == 1000            \* READ_MARK_UNUSED, above every frame count
NoWrites == [p \in {} |-> 0]

\* db_size is 0 but for the last frame of a transaction; tx tells the
\* transactions apart (it is not in the file).
Frame(p, v, size, t) == [page |-> p, data |-> v, db_size |-> size, tx |-> t]

VARIABLES
  main, mainDisk,    \* the database file: seen, and after a power loss
  wal,               \* the valid frames of the -wal file
  junk,              \* whole frames after them that are not valid
  synced,            \* how many frames an fsync has made durable
  mxFrame, nBackfill, mark,   \* the fields of -shm
  slotLock, writeLock, ckptLock,   \* holders of the locks of -shm
  pc,                \* where each process is
  slot,              \* WalReadLock.slot of each connection
  overlay, cache, dirty,      \* Pager.wal_pages, page_cache and dirty
  hint,              \* WalResumeHint: the file size it is valid for
  at, left,          \* WalWriter.offset, and the pages still to append
  kills,             \* processes killed so far
  seen, bound, todo, \* locals of checkpoint_passive
  snap               \* history: the image each connection must see

shm    == <<mxFrame, nBackfill, mark>>
locks  == <<slotLock, writeLock, ckptLock>>
log    == <<wal, junk, synced>>
file   == <<main, mainDisk>>
pager  == <<slot, overlay, cache, dirty, hint, at, left>>
ckpt   == <<seen, bound, todo, kills>>
vars   == <<file, log, shm, locks, pc, pager, ckpt, snap>>

-----------------------------------------------------------------------------
(* The log.                                                                *)

Smaller(m, n) == IF m <= n THEN m ELSE n
Greatest(S)   == CHOOSE x \in S : \A y \in S : y <= x
Least(S)      == {x \in S : \A y \in S : x <= y}

\* The frames up to and including the last commit frame.
CommittedLen(w) ==
  LET ends == {i \in 1 .. Len(w) : w[i].db_size > 0}
  IN  IF ends = {} THEN 0 ELSE Greatest(ends)

\* committed_pages: for every page its last committed frame.
FramesOf(w, p) == {i \in 1 .. CommittedLen(w) : w[i].page = p}
committed_pages(w) ==
  [p \in {w[i].page : i \in 1 .. CommittedLen(w)} |-> w[Greatest(FramesOf(w, p))].data]

Overlay(f, g) == [p \in DOMAIN f \union DOMAIN g |-> IF p \in DOMAIN g THEN g[p] ELSE f[p]]
With(f, p, v) == Overlay(f, [q \in {p} |-> v])
Without(f, p) == [q \in DOMAIN f \ {p} |-> f[q]]

\* The database that a reader opening now sees.
ImageOf(m, w) ==
  LET f == Overlay(m, committed_pages(w))
  IN  [p \in Pages |-> IF p <= f[1] THEN f[p] ELSE Absent]
Db == ImageOf(main, wal)

\* A database of two pages.
NewMain == [p \in Pages |-> IF p = 1 THEN 2 ELSE IF p = 2 THEN 0 ELSE Absent]

Init ==
  /\ main = NewMain
  /\ mainDisk = [p \in Pages |-> {main[p]}]
  /\ wal = [i \in 1 .. InitFrames |-> Frame(1, 2, 2, 0)]
  /\ junk = 0 /\ synced = InitFrames
  /\ mxFrame = InitFrames /\ nBackfill = 0
  /\ mark = [s \in Slot |-> Unused]
  /\ slotLock = [s \in Slot |-> Free]
  /\ writeLock = Free /\ ckptLock = Free
  /\ pc = [c \in Conn \union Ckpt |-> IF c \in Conn THEN "closed" ELSE "idle"]
  /\ slot = [c \in Conn |-> NoSlot]
  /\ overlay = [c \in Conn |-> NoWrites]
  /\ cache = [c \in Conn |-> NoWrites]
  /\ dirty = [c \in Conn |-> NoWrites]
  /\ hint = [c \in Conn |-> 0]
  /\ at = [c \in Conn |-> 0] /\ left = [c \in Conn |-> {}]
  /\ kills = 0
  /\ seen = [k \in Ckpt |-> << >>]
  /\ bound = [k \in Ckpt |-> 0]
  /\ todo = [k \in Ckpt |-> {}]
  /\ snap = [c \in Conn |-> NoWrites]

-----------------------------------------------------------------------------
(* Open and close: claim_wal_read_lock, then read_wal_pages.               *)

FreeSlots == {s \in Slot : slotLock[s] = Free}

\* The first slot that can be locked; one that a checkpoint is probing at
\* this moment cannot.  With none the open fails and nothing changes.
ClaimSlot(c) ==
  /\ pc[c] = "closed"
  /\ \E s \in FreeSlots :
       /\ s \in Least(FreeSlots) \/ \E k \in Ckpt : pc[k] = "probe"
       /\ slot' = [slot EXCEPT ![c] = s]
       /\ slotLock' = [slotLock EXCEPT ![s] = c]
  /\ pc' = [pc EXCEPT ![c] = "mark"]
  /\ UNCHANGED <<file, log, shm, writeLock, ckptLock, overlay, cache, dirty,
                 hint, at, left, ckpt, snap>>

\* The mark is the mxFrame of this moment, read under the lock.
PublishMark(c) ==
  /\ pc[c] = "mark"
  /\ mark' = [mark EXCEPT ![slot[c]] = mxFrame]
  /\ pc' = [pc EXCEPT ![c] = "read"]
  /\ UNCHANGED <<file, log, mxFrame, nBackfill, locks, pager, ckpt, snap>>

\* read_wal_pages: the whole file, whatever the mark says.
ReadWal(c) ==
  /\ pc[c] = "read"
  /\ overlay' = [overlay EXCEPT ![c] = committed_pages(wal)]
  /\ snap' = [snap EXCEPT ![c] = Db]
  /\ pc' = [pc EXCEPT ![c] = "ready"]
  /\ UNCHANGED <<file, log, shm, locks, slot, cache, dirty, hint, at, left, ckpt>>

\* Drop of the Pager: the locks go, the mark stays.
Gone(c) ==
  /\ slotLock' = [s \in Slot |-> IF slotLock[s] = c THEN Free ELSE slotLock[s]]
  /\ writeLock' = IF writeLock = c THEN Free ELSE writeLock
  /\ pc'      = [pc      EXCEPT ![c] = "closed"]
  /\ slot'    = [slot    EXCEPT ![c] = NoSlot]
  /\ overlay' = [overlay EXCEPT ![c] = NoWrites]
  /\ cache'   = [cache   EXCEPT ![c] = NoWrites]
  /\ dirty'   = [dirty   EXCEPT ![c] = NoWrites]
  /\ hint'    = [hint    EXCEPT ![c] = 0]
  /\ at'      = [at      EXCEPT ![c] = 0]
  /\ left'    = [left    EXCEPT ![c] = {}]
  /\ snap'    = [snap    EXCEPT ![c] = NoWrites]
  /\ UNCHANGED <<ckptLock, seen, bound, todo, file, log, shm>>

Close(c) == pc[c] = "ready" /\ Gone(c) /\ UNCHANGED kills

\* A process killed inside open or flush.  "torn" lets it happen inside the
\* one write_at of a commit, with some of its frames in the file.
Kill(c) ==
  /\ "kill" \in Faults /\ kills < MaxKill /\ kills' = kills + 1
  /\ pc[c] \notin {"closed", "ready"}
  /\ pc[c] # "append" \/ left[c] \in {{}, DOMAIN dirty[c]} \/ "torn" \in Faults
  /\ Gone(c)

-----------------------------------------------------------------------------
(* Reads and uncommitted writes.                                           *)

\* read_page: dirty, then the WAL overlay, then the cache, then the file.
ReadPage(c, p) ==
  Overlay(Overlay(Overlay(main, cache[c]), overlay[c]), dirty[c])[p]

FillCache(c, p) ==
  /\ pc[c] = "ready" /\ p <= ReadPage(c, 1)
  /\ p \notin DOMAIN dirty[c] \union DOMAIN overlay[c] \union DOMAIN cache[c]
  /\ cache' = [cache EXCEPT ![c] = With(@, p, main[p])]
  /\ UNCHANGED <<file, log, shm, locks, pc, slot, overlay, dirty, hint, at,
                 left, ckpt, snap>>

\* get_page_mut and the caller's write.
Mutate(c, p, v) ==
  /\ c \in Writers /\ pc[c] = "ready" /\ p \in 2 .. ReadPage(c, 1)
  /\ dirty' = [dirty EXCEPT ![c] = With(@, p, v)]
  /\ cache' = [cache EXCEPT ![c] = Without(@, p)]
  /\ UNCHANGED <<file, log, shm, locks, pc, slot, overlay, hint, at, left,
                 ckpt, snap>>

\* allocate_page with an empty freelist.
Allocate(c) ==
  /\ c \in Writers /\ pc[c] = "ready" /\ ReadPage(c, 1) < MaxPage
  /\ LET n == ReadPage(c, 1) + 1
     IN  dirty' = [dirty EXCEPT ![c] = With(With(@, n, 0), 1, n)]
  /\ cache' = [cache EXCEPT ![c] = Without(@, 1)]
  /\ UNCHANGED <<file, log, shm, locks, pc, slot, overlay, hint, at, left,
                 ckpt, snap>>

Rollback(c) ==
  /\ pc[c] = "ready" /\ dirty[c] # NoWrites
  /\ dirty' = [dirty EXCEPT ![c] = NoWrites]
  /\ UNCHANGED <<file, log, shm, locks, pc, slot, overlay, cache, hint, at,
                 left, ckpt, snap>>

-----------------------------------------------------------------------------
(* flush_wal_locked.                                                       *)

Quiet(procs) == Concurrent \/ \A q \in procs : pc[q] \in {"closed", "ready", "idle"}

\* WAL_WRITE_LOCK; contended, flush returns Locked and nothing changes.
ClaimWrite(c) ==
  /\ pc[c] = "ready" /\ dirty[c] # NoWrites /\ Quiet(Ckpt)
  /\ Len(wal) + Cardinality(DOMAIN dirty[c]) <= MaxFrames
  /\ writeLock = Free
  /\ writeLock' = c
  /\ pc' = [pc EXCEPT ![c] = "open"]
  /\ UNCHANGED <<file, log, shm, slotLock, ckptLock, pager, ckpt, snap>>

\* A slip: the hint is trusted whatever the size of the file.
ResumeAt_TrustsHint(c) == IF hint[c] > 0 THEN hint[c] ELSE Len(wal)

\* The hint if the file still has its size, else the end of the last valid
\* frame, committed or not.
ResumeAt(c) == IF hint[c] = Len(wal) + junk THEN hint[c] ELSE Len(wal)

\* WalWriter::open_existing.  append_frame then only moves the offset and
\* fills a buffer, which nothing but WalWriter::sync writes out.
OpenWal(c) ==
  /\ pc[c] = "open"
  /\ IF Synchronous = "Full"
     THEN /\ at' = [at EXCEPT ![c] = ResumeAt(c)]
          /\ pc' = [pc EXCEPT ![c] = "append"]
     ELSE /\ at' = [at EXCEPT ![c] = ResumeAt(c) + Cardinality(DOMAIN dirty[c])]
          /\ pc' = [pc EXCEPT ![c] = "publish"]
  /\ left' = [left EXCEPT ![c] = DOMAIN dirty[c]]
  /\ UNCHANGED <<file, log, shm, locks, slot, overlay, cache, dirty, hint, ckpt, snap>>

\* A slip: it is the first frame of a transaction that commits.
CommitSize_First(c, p) == IF left[c] = DOMAIN dirty[c] THEN ReadPage(c, 1) ELSE 0

\* Only the last frame commits, with the page count this connection sees.
CommitSize(c, p) == IF left[c] = {p} THEN ReadPage(c, 1) ELSE 0

\* Which transaction the next frame belongs to.
Tx(c) == LET last == IF wal = << >> THEN 0 ELSE wal[Len(wal)].tx
         IN  IF left[c] = DOMAIN dirty[c] THEN last + 1 ELSE last

\* The write_at of WalWriter::sync, which others see in progress: one frame
\* per dirty page, in page order.  What it overwrites it also unchains.
AppendFrame(c) ==
  /\ pc[c] = "append" /\ left[c] # {}
  /\ \E p \in Least(left[c]) :
       /\ wal' = Append(SubSeq(wal, 1, at[c]), Frame(p, dirty[c][p], CommitSize(c, p), Tx(c)))
       /\ left' = [left EXCEPT ![c] = @ \ {p}]
  /\ junk' = IF Len(wal) + junk > at[c] THEN Len(wal) + junk - (at[c] + 1) ELSE 0
  /\ at' = [at EXCEPT ![c] = @ + 1]
  /\ UNCHANGED <<file, synced, shm, locks, pc, slot, overlay, cache,
                 dirty, hint, ckpt, snap>>

\* A slip: mxFrame is published before the fsync.
SyncWal_Skipped(c) ==
  /\ pc[c] = "append" /\ left[c] = {}
  /\ pc' = [pc EXCEPT ![c] = "publish"]
  /\ UNCHANGED <<file, log, shm, locks, pager, ckpt, snap>>

\* The fsync of WalWriter::sync.
SyncWal(c) ==
  /\ pc[c] = "append" /\ left[c] = {}
  /\ synced' = Len(wal)
  /\ pc' = [pc EXCEPT ![c] = "publish"]
  /\ UNCHANGED <<file, wal, junk, shm, locks, pager, ckpt, snap>>

\* resume_hint() and publish_mx_frame(frame_count()), both from the offset.
PublishMx(c) ==
  /\ pc[c] = "publish"
  /\ hint' = [hint EXCEPT ![c] = at[c]]
  /\ mxFrame' = at[c]
  /\ pc' = [pc EXCEPT ![c] = "fold"]
  /\ UNCHANGED <<file, log, nBackfill, mark, locks, slot, overlay, cache, dirty, at, left,
                 ckpt, snap>>

\* The write lock goes, and the dirty pages become overlay pages.
FoldDirty(c) ==
  /\ pc[c] = "fold"
  /\ writeLock' = Free
  /\ overlay' = [overlay EXCEPT ![c] = Overlay(@, dirty[c])]
  /\ dirty' = [dirty EXCEPT ![c] = NoWrites]
  /\ snap' = [snap EXCEPT ![c] = Overlay(@, dirty[c])]
  /\ pc' = [pc EXCEPT ![c] = "ready"]
  /\ at' = [at EXCEPT ![c] = 0]
  /\ left' = [left EXCEPT ![c] = {}]
  /\ UNCHANGED <<file, log, shm, slotLock, ckptLock, slot, cache, hint, ckpt>>

-----------------------------------------------------------------------------
(* checkpoint_passive.                                                     *)

\* WAL_CKPT_LOCK, then the file as it is now.  An empty log is complete.
CkptRead(k) ==
  /\ pc[k] = "idle" /\ ckptLock = Free /\ Quiet(Conn)
  /\ Len(wal) + junk > 0
  /\ ckptLock' = k
  /\ seen' = [seen EXCEPT ![k] = wal]
  /\ bound' = [bound EXCEPT ![k] = Len(wal) + junk]
  /\ todo' = [todo EXCEPT ![k] = Slot]
  /\ pc' = [pc EXCEPT ![k] = "probe"]
  /\ UNCHANGED <<file, log, shm, slotLock, writeLock, pager, kills, snap>>

\* A slip: the marks of live readers do not bound the pass.
MarkOf_Ignored(s) == Unused

\* A slip: the mark that a closed connection left behind counts too.
MarkOf_Stale(s) == IF mark[s] > 0 THEN mark[s] ELSE Unused

\* active_reader_marks for one slot: the mark counts if the slot is locked,
\* unless it is 0.
MarkOf(s) == IF slotLock[s] # Free /\ mark[s] > 0 THEN mark[s] ELSE Unused

ProbeSlot(k) ==
  /\ pc[k] = "probe" /\ todo[k] # {}
  /\ \E s \in Least(todo[k]) :
       /\ bound' = [bound EXCEPT ![k] = Smaller(@, MarkOf(s))]
       /\ todo' = [todo EXCEPT ![k] = @ \ {s}]
  /\ UNCHANGED <<file, log, shm, locks, pc, pager, seen, kills, snap>>

Release(k) ==
  /\ ckptLock' = Free
  /\ pc' = [pc EXCEPT ![k] = "idle"]
  /\ seen' = [seen EXCEPT ![k] = << >>]
  /\ bound' = [bound EXCEPT ![k] = 0]
  /\ todo' = [todo EXCEPT ![k] = {}]
  /\ UNCHANGED <<slotLock, writeLock, pager, snap>>

\* The pages to copy: committed within the first safe_frame frames, and no
\* further than the commit's db_size or the file's own size.
Prefix(k) == SubSeq(seen[k], 1, Smaller(bound[k], Len(seen[k])))
MaxCkptPage(k) ==
  LET n == CommittedLen(Prefix(k))
  IN  Greatest({p \in Pages : main[p] # Absent}
                 \union {IF n = 0 THEN 0 ELSE Prefix(k)[n].db_size})

\* A pass that cannot move nBackfill forward is a no-op.
Decide(k) ==
  /\ pc[k] = "probe" /\ todo[k] = {}
  /\ \/ /\ bound[k] <= nBackfill
        /\ Release(k) /\ UNCHANGED kills
     \/ /\ bound[k] > nBackfill
        /\ todo' = [todo EXCEPT ![k] =
                      {p \in DOMAIN committed_pages(Prefix(k)) : p <= MaxCkptPage(k)}]
        /\ pc' = [pc EXCEPT ![k] = "backfill"]
        /\ UNCHANGED <<locks, pager, seen, bound, kills, snap>>
  /\ UNCHANGED <<file, log, shm>>

\* write_at of one page, in page order.
Backfill(k) ==
  /\ pc[k] = "backfill" /\ todo[k] # {}
  /\ \E p \in Least(todo[k]) :
       LET v == committed_pages(Prefix(k))[p]
       IN  /\ main' = [main EXCEPT ![p] = v]
           /\ mainDisk' = [mainDisk EXCEPT ![p] = IF @ = {v} THEN @ ELSE @ \union {v, Torn}]
           /\ todo' = [todo EXCEPT ![k] = @ \ {p}]
  /\ UNCHANGED <<log, shm, locks, pc, pager, seen, bound, kills, snap>>

\* A slip: nBackfill is published before the file is durable.
CkptSync_Skipped(k) ==
  /\ pc[k] = "backfill" /\ todo[k] = {}
  /\ pc' = [pc EXCEPT ![k] = "backfilled"]
  /\ UNCHANGED <<file, log, shm, locks, pager, ckpt, snap>>

CkptSync(k) ==
  /\ pc[k] = "backfill" /\ todo[k] = {}
  /\ mainDisk' = [p \in Pages |-> {main[p]}]
  /\ pc' = [pc EXCEPT ![k] = "backfilled"]
  /\ UNCHANGED <<main, log, shm, locks, pager, ckpt, snap>>

\* publish_wal_backfill(safe_frame); the lock goes with the guard.
PublishBackfill(k) ==
  /\ pc[k] = "backfilled"
  /\ nBackfill' = bound[k]
  /\ Release(k)
  /\ UNCHANGED <<file, log, mxFrame, mark, kills>>

KillCkpt(k) ==
  /\ "ckpt" \in Faults /\ kills < MaxKill /\ kills' = kills + 1
  /\ pc[k] # "idle"
  /\ Release(k)
  /\ UNCHANGED <<file, log, shm>>

-----------------------------------------------------------------------------
(* Power loss: frames after the last fsync may be lost, from any frame on  *)
(* or, without "torn", transaction by transaction; -shm is never synced.   *)

Kept == {n \in synced .. Len(wal) :
           "torn" \in Faults \/ n \in {synced, CommittedLen(SubSeq(wal, 1, n))}}
MainOutcomes ==
  LET loose == {p \in Pages : mainDisk[p] # {main[p]}}
  IN  {Overlay(main, f) : f \in {g \in [loose -> UNION {mainDisk[p] : p \in loose}] :
                                   \A p \in loose : g[p] \in mainDisk[p]}}

PowerLoss ==
  /\ "power" \in Faults
  /\ \E n \in Kept :
       /\ wal' = SubSeq(wal, 1, n) /\ synced' = n
       /\ junk' \in IF "torn" \in Faults THEN 0 .. Len(wal) + junk - n ELSE {junk}
  /\ main' \in MainOutcomes
  /\ mainDisk' = [p \in Pages |-> {main'[p]}]
  /\ mxFrame' \in {0, mxFrame} /\ nBackfill' \in {0, nBackfill}
  /\ slotLock' = [s \in Slot |-> Free] /\ writeLock' = Free /\ ckptLock' = Free
  /\ pc' = [c \in Conn \union Ckpt |-> IF c \in Conn THEN "closed" ELSE "idle"]
  /\ slot' = [c \in Conn |-> NoSlot]
  /\ overlay' = [c \in Conn |-> NoWrites] /\ cache' = [c \in Conn |-> NoWrites]
  /\ dirty' = [c \in Conn |-> NoWrites] /\ snap' = [c \in Conn |-> NoWrites]
  /\ hint' = [c \in Conn |-> 0] /\ at' = [c \in Conn |-> 0]
  /\ left' = [c \in Conn |-> {}]
  /\ seen' = [k \in Ckpt |-> << >>] /\ bound' = [k \in Ckpt |-> 0]
  /\ todo' = [k \in Ckpt |-> {}]
  /\ UNCHANGED <<mark, kills>>

Open(c)    == ClaimSlot(c) \/ PublishMark(c) \/ ReadWal(c)
Commit(c)  == \/ ClaimWrite(c) \/ OpenWal(c) \/ AppendFrame(c) \/ SyncWal(c)
              \/ PublishMx(c) \/ FoldDirty(c)
Edit(c)    == \/ Allocate(c) \/ Rollback(c)
              \/ \E p \in Pages : FillCache(c, p) \/ \E v \in Val : Mutate(c, p, v)
CkptStep(k) == \/ CkptRead(k) \/ ProbeSlot(k) \/ Decide(k) \/ Backfill(k)
               \/ CkptSync(k) \/ PublishBackfill(k)

Next ==
  \/ \E c \in Conn : Open(c) \/ Edit(c) \/ Commit(c) \/ Close(c) \/ Kill(c)
  \/ \E k \in Ckpt : CkptStep(k) \/ KillCkpt(k)
  \/ PowerLoss

Spec == Init /\ [][Next]_vars

\* Every call returns, every connection closes in the end, and checkpoints
\* are called again and again.
Fairness == /\ \A c \in Conn : WF_vars(PublishMark(c) \/ ReadWal(c) \/ Commit(c))
                               /\ SF_vars(Close(c))
            /\ \A k \in Ckpt : WF_vars(CkptStep(k))
FairSpec == Spec /\ Fairness

-----------------------------------------------------------------------------
(* Properties.                                                             *)

Open_ == {c \in Conn : pc[c] \notin {"closed", "mark", "read"}}

\* A connection reads the image that it saw at open and its own commits, and
\* nothing else, whatever others commit or copy into the database file: the
\* reader mark makes checkpoint_passive stop before the frames it must not see.
SnapshotStable ==
  \A c \in Open_ : \A p \in 1 .. snap[c][1] :
    Overlay(Overlay(main, cache[c]), overlay[c])[p] = snap[c][p]

\* What -shm calls wholly backfilled is in the database file, and durably:
\* switch_wal_to_journal deletes the -wal file when checkpoint_passive says so.
CompleteMeansBackfilled ==
  (nBackfill = Len(wal) + junk /\ nBackfill > 0) =>
    \A p \in 1 .. Db[1] : mainDisk[p] = {Db[p]}

\* Frames become committed only by the commit frame of their own transaction:
\* last_valid_frame_state may resume after a frame only if it is committed.
NoOrphanCommitted ==
  \A i \in 1 .. CommittedLen(wal) :
    \E j \in i .. Len(wal) : /\ wal[j].db_size > 0
                             /\ \A m \in i .. j : wal[m].tx = wal[i].tx

\* When flush has published mxFrame, every page it committed is what the log
\* holds for that page, and nothing of another transaction came with it.
CommitReachesWal ==
  /\ NoOrphanCommitted
  /\ \A c \in Conn : pc[c] = "fold" =>
    /\ mxFrame = CommittedLen(wal)
    /\ \A p \in DOMAIN dirty[c] : /\ p \in DOMAIN committed_pages(wal)
                                  /\ committed_pages(wal)[p] = dirty[c][p]

\* A flush appends: no committed frame of anyone is ever overwritten.
LogOnlyGrows ==
  [][LET n == CommittedLen(wal) IN Len(wal') >= n /\ SubSeq(wal', 1, n) = SubSeq(wal, 1, n)]_vars

\* The files implement AtomicStore: the commit frame is the commit, and a
\* power loss at any time, inside a checkpoint too, leaves a committed image.
Outcomes == {ImageOf(m, SubSeq(wal, 1, n)) : m \in MainOutcomes, n \in Kept}
Pending == [c \in Conn |-> IF pc[c] \in {"publish", "fold"} \/ (pc[c] = "append" /\ left[c] = {})
                           THEN NoWrites ELSE dirty[c]]
Store == INSTANCE AtomicStore WITH db <- Db, durable <- Outcomes, txn <- Pending
CommitsAreAtomic == Store!Spec

\* Once the writers have stopped, repeated passive checkpoints copy the whole
\* log, although readers come and go.  After a writer that died before it
\* published mxFrame they do so when the connections have closed: until then
\* each new reader marks a frame before the end of the log.
CheckpointCatchesUp ==
  <>[](mxFrame = Len(wal) \/ \A c \in Conn : pc[c] = "closed")
    => <>[](nBackfill = Len(wal) + junk)

=============================================================================
