---------------------------- MODULE JournalPager ----------------------------
(***************************************************************************)
(* The rollback-journal half of src/pager.rs: Pager::open with hot-journal *)
(* recovery, reads through the page cache, the dirty set, BEGIN            *)
(* IMMEDIATE/EXCLUSIVE, flush, rollback and drop, for several connections  *)
(* (processes) on one file.  Every file operation and every rung of the    *)
(* lock ladder is one step.                                                *)
(*                                                                         *)
(* A file has the contents that processes see and, for every page, the set *)
(* of contents a power loss may leave: a write adds to the set, an fsync   *)
(* makes it a singleton.  A page content is a number: page 1 holds the     *)
(* page count of the header, the other pages hold a value.                 *)
(***************************************************************************)
EXTENDS Naturals, Sequences, FiniteSets

CONSTANTS
  Conn,         \* connections, one per process
  MaxPage,      \* bound on the size of the file, in pages
  Val,          \* contents of a page other than page 1
  Synchronous,  \* PRAGMA synchronous: "Off", "Normal" or "Full"
  TornWrites,   \* can a power loss tear a page that was being written?
  Faults,       \* a subset of {"kill", "power", "io"}
  MaxFail       \* bound on killed processes and failing I/O calls

ASSUME JournalAssumption ==
  /\ MaxPage \in Nat \ {0, 1}
  /\ 0 \in Val /\ Val \subseteq 0 .. 9
  /\ Synchronous \in {"Off", "Normal", "Full"}
  /\ TornWrites \in BOOLEAN
  /\ Faults \subseteq {"kill", "power", "io"}
  /\ MaxFail \in Nat

Pages  == 1 .. MaxPage
Absent == 98                \* the file ends before this page
Torn   == 99                \* half old, half new
Content == Val \union (1 .. MaxPage) \union {Absent, Torn}

Unlocked  == 0
Shared    == 1
Reserved  == 2
Pending   == 3
Exclusive == 4

NoWrites  == [p \in {} |-> 0]

\* A rollback journal: initial_page_count, n_rec and the valid records, in
\* order.  A missing, empty or zeroed -journal file is NoJournal: not hot.
NoJournal == [init |-> 0, n_rec |-> 0, recs |-> << >>]
IsHot(j)  == j.init > 0

VARIABLES
  main, mainDisk,     \* the database file: seen, and after a power loss
  jrnl, jrnlDisk,     \* the -journal file: seen, and after a power loss
  level,              \* level held on the database file (LockLadder)
  pc,                 \* where each connection is
  goal,               \* why it climbs the ladder
  hot,                \* journal_is_hot, a local of Pager::open
  dirty, cache,       \* Pager.dirty, Pager.page_cache
  txLock,             \* Pager.tx_lock_level
  todo,               \* pages or records left in the loop it is in
  fails               \* processes killed and I/O calls failed so far

files == <<main, mainDisk, jrnl, jrnlDisk>>
vars  == <<main, mainDisk, jrnl, jrnlDisk, level, pc, goal, hot, dirty, cache,
           txLock, todo, fails>>

Init ==
  /\ main = [p \in Pages |-> IF p = 1 THEN 2 ELSE IF p = 2 THEN 0 ELSE Absent]
  /\ mainDisk = [p \in Pages |-> {main[p]}]
  /\ jrnl = NoJournal /\ jrnlDisk = {NoJournal}
  /\ level = [c \in Conn |-> Unlocked]
  /\ pc    = [c \in Conn |-> "closed"]
  /\ goal  = [c \in Conn |-> "none"]
  /\ hot   = [c \in Conn |-> FALSE]
  /\ dirty = [c \in Conn |-> NoWrites]
  /\ cache = [c \in Conn |-> NoWrites]
  /\ txLock = [c \in Conn |-> Shared]
  /\ todo  = [c \in Conn |-> {}]
  /\ fails = [kill |-> 0, io |-> 0]

-----------------------------------------------------------------------------
(* Files.                                                                  *)

\* The records that a replay applies: as many as the header announces, as
\* far as they are there.
Valid(j) == 1 .. (IF j.n_rec < Len(j.recs) THEN j.n_rec ELSE Len(j.recs))

\* The loops below go through their pages and records in ascending order.
Least(S) == {x \in S : \A y \in S : x <= y}

\* write_at on the database file: seen at once, durable after a sync; a page
\* rewritten with the bytes it has cannot tear.
WriteMain(p, v) ==
  /\ main' = [main EXCEPT ![p] = v]
  /\ mainDisk' = [mainDisk EXCEPT ![p] =
       @ \union {v} \union (IF TornWrites /\ @ # {v} THEN {Torn} ELSE {})]

SyncMain ==
  /\ mainDisk' = [p \in Pages |-> {main[p]}]
  /\ UNCHANGED main

\* What is left of a journal whose writes were under way: no header, or the
\* header and the records before the first one that fails its checksum.
Remains(j) ==
  {NoJournal} \union
  {[j EXCEPT !.recs = SubSeq(j.recs, 1, k)] : k \in 0 .. Len(j.recs)}

WriteJournal(j) ==
  /\ jrnl' = j
  /\ jrnlDisk' = jrnlDisk \union Remains(j)

DeleteJournalFile ==
  /\ jrnl' = NoJournal
  /\ jrnlDisk' = jrnlDisk \union {NoJournal}

-----------------------------------------------------------------------------
(* Locks: set_level, one rung at a time, with the guards of LockLadder.    *)

Others(c) == Conn \ {c}

RungFree(c) ==
  CASE level[c] = Shared   -> \A d \in Others(c) : level[d] < Reserved
    [] level[c] = Reserved -> TRUE
    [] level[c] = Pending  -> \A d \in Others(c) : level[d] = Unlocked

\* The level that each use of the ladder asks for.
TargetOf(g) == IF g = "immediate" THEN Reserved ELSE Exclusive

Climb(c) ==
  /\ pc[c] = "climb" /\ level[c] < TargetOf(goal[c])
  /\ RungFree(c)
  /\ level' = [level EXCEPT ![c] = @ + 1]
  /\ UNCHANGED <<files, pc, goal, hot, dirty, cache, txLock, todo, fails>>

\* Drop of the Pager: the lock goes, and with it everything in memory.
Gone(c) ==
  /\ level'  = [level  EXCEPT ![c] = Unlocked]
  /\ pc'     = [pc     EXCEPT ![c] = "closed"]
  /\ goal'   = [goal   EXCEPT ![c] = "none"]
  /\ hot'    = [hot    EXCEPT ![c] = FALSE]
  /\ dirty'  = [dirty  EXCEPT ![c] = NoWrites]
  /\ cache'  = [cache  EXCEPT ![c] = NoWrites]
  /\ txLock' = [txLock EXCEPT ![c] = Shared]
  /\ todo'   = [todo   EXCEPT ![c] = {}]

\* EAGAIN half way up.  Pager::open fails and drops the lock; flush and
\* begin_* return the error to a caller that keeps its Pager, and keep the
\* rung they had reached.
Contended(c) ==
  /\ pc[c] = "climb" /\ level[c] < TargetOf(goal[c])
  /\ ~ RungFree(c)
  /\ IF goal[c] = "recover"
     THEN Gone(c) /\ UNCHANGED <<files, fails>>
     ELSE /\ pc' = [pc EXCEPT ![c] = "ready"]
          /\ goal' = [goal EXCEPT ![c] = "none"]
          /\ UNCHANGED <<files, level, hot, dirty, cache, txLock, todo, fails>>

-----------------------------------------------------------------------------
(* Pager::open.                                                            *)

\* The journal's magic is read before any lock is taken.
CheckJournal(c) ==
  /\ pc[c] = "closed"
  /\ hot' = [hot EXCEPT ![c] = IsHot(jrnl)]
  /\ pc' = [pc EXCEPT ![c] = "open"]
  /\ UNCHANGED <<files, level, goal, dirty, cache, txLock, todo, fails>>

\* A slip: the Pager is built before the journal is dealt with.
LockShared_NoRecovery(c) ==
  /\ pc[c] = "open"
  /\ \A d \in Others(c) : level[d] # Exclusive
  /\ level' = [level EXCEPT ![c] = Shared]
  /\ pc' = [pc EXCEPT ![c] = "ready"]
  /\ UNCHANGED <<files, goal, hot, dirty, cache, txLock, todo, fails>>

\* lock_shared; without a hot journal that is all, and the Pager is built.
LockShared(c) ==
  /\ pc[c] = "open"
  /\ \A d \in Others(c) : level[d] # Exclusive
  /\ level' = [level EXCEPT ![c] = Shared]
  /\ pc' = [pc EXCEPT ![c] = IF hot[c] THEN "probe" ELSE "ready"]
  /\ UNCHANGED <<files, goal, hot, dirty, cache, txLock, todo, fails>>

LockSharedFails(c) ==
  /\ pc[c] = "open"
  /\ \E d \in Others(c) : level[d] >= Pending
  /\ Gone(c)
  /\ UNCHANGED <<files, fails>>

\* check_reserved: somebody else is writing or rolling back already.
CheckReserved(c) ==
  /\ pc[c] = "probe"
  /\ IF \E d \in Others(c) : level[d] >= Reserved
     THEN Gone(c) /\ UNCHANGED <<files, fails>>
     ELSE /\ pc' = [pc EXCEPT ![c] = "climb"]
          /\ goal' = [goal EXCEPT ![c] = "recover"]
          /\ UNCHANGED <<files, level, hot, dirty, cache, txLock, todo, fails>>

\* recover_hot_journal opens the journal: it may be gone by now.
OpenJournal(c) ==
  /\ pc[c] = "climb" /\ goal[c] = "recover" /\ level[c] = Exclusive
  /\ IF IsHot(jrnl)
     THEN /\ pc' = [pc EXCEPT ![c] = "replay"]
          /\ todo' = [todo EXCEPT ![c] = Valid(jrnl)]
          /\ UNCHANGED <<files, level, goal, hot, dirty, cache, txLock, fails>>
     ELSE Gone(c) /\ UNCHANGED <<files, fails>>

\* journal::recover writes one valid record back.
ReplayRecord(c) ==
  /\ pc[c] = "replay"
  /\ \E i \in Least(todo[c]) :
       /\ WriteMain(jrnl.recs[i].page, jrnl.recs[i].data)
       /\ todo' = [todo EXCEPT ![c] = @ \ {i}]
  /\ UNCHANGED <<jrnl, jrnlDisk, level, pc, goal, hot, dirty, cache, txLock, fails>>

\* truncate to initial_page_count; not durable before the sync either.
Truncate(c) ==
  /\ pc[c] = "replay" /\ todo[c] = {}
  /\ main' = [p \in Pages |-> IF p <= jrnl.init THEN main[p] ELSE Absent]
  /\ mainDisk' = [p \in Pages |-> mainDisk[p] \union {main'[p]}]
  /\ pc' = [pc EXCEPT ![c] = "rsync"]
  /\ UNCHANGED <<jrnl, jrnlDisk, level, goal, hot, dirty, cache, txLock, todo, fails>>

RecoverSync(c) ==
  /\ pc[c] = "rsync"
  /\ SyncMain
  /\ pc' = [pc EXCEPT ![c] = "rdelete"]
  /\ UNCHANGED <<jrnl, jrnlDisk, level, goal, hot, dirty, cache, txLock, todo, fails>>

RecoverDelete(c) ==
  /\ pc[c] = "rdelete"
  /\ DeleteJournalFile
  /\ pc' = [pc EXCEPT ![c] = "rdown"]
  /\ UNCHANGED <<main, mainDisk, level, goal, hot, dirty, cache, txLock, todo, fails>>

\* de_escalate_to_shared, and the Pager is built.
DeEscalate(c) ==
  /\ pc[c] = "rdown"
  /\ level' = [level EXCEPT ![c] = Shared]
  /\ pc' = [pc EXCEPT ![c] = "ready"]
  /\ goal' = [goal EXCEPT ![c] = "none"]
  /\ hot' = [hot EXCEPT ![c] = FALSE]
  /\ UNCHANGED <<files, dirty, cache, txLock, todo, fails>>

-----------------------------------------------------------------------------
(* Reads and uncommitted writes.                                           *)

With(f, p, v) == [q \in DOMAIN f \union {p} |-> IF q = p THEN v ELSE f[q]]
Without(f, p) == [q \in DOMAIN f \ {p} |-> f[q]]

\* read_page: dirty, then the cache, then the file.
ReadPage(c, p) ==
  IF p \in DOMAIN dirty[c] THEN dirty[c][p]
  ELSE IF p \in DOMAIN cache[c] THEN cache[c][p] ELSE main[p]

PageCount(c) == ReadPage(c, 1)

\* A read that misses dirty and the cache fills the cache.
FillCache(c, p) ==
  /\ pc[c] = "ready" /\ p <= PageCount(c)
  /\ p \notin DOMAIN dirty[c] \union DOMAIN cache[c]
  /\ cache' = [cache EXCEPT ![c] = With(@, p, main[p])]
  /\ UNCHANGED <<files, level, pc, goal, hot, dirty, txLock, todo, fails>>

\* A slip: get_page_mut leaves the cached copy in place.
Mutate_KeepsCached(c, p, v) ==
  /\ pc[c] = "ready" /\ p \in 2 .. PageCount(c)
  /\ dirty' = [dirty EXCEPT ![c] = With(@, p, v)]
  /\ UNCHANGED <<files, level, pc, goal, hot, cache, txLock, todo, fails>>

\* get_page_mut and the caller's write through the buffer it returns.
Mutate(c, p, v) ==
  /\ pc[c] = "ready" /\ p \in 2 .. PageCount(c)
  /\ dirty' = [dirty EXCEPT ![c] = With(@, p, v)]
  /\ cache' = [cache EXCEPT ![c] = Without(@, p)]
  /\ UNCHANGED <<files, level, pc, goal, hot, txLock, todo, fails>>

\* allocate_page with an empty freelist: the database grows by one page.
Allocate(c) ==
  /\ pc[c] = "ready" /\ PageCount(c) < MaxPage
  /\ LET n == PageCount(c) + 1
     IN  dirty' = [dirty EXCEPT ![c] = With(With(@, n, 0), 1, n)]
  /\ cache' = [cache EXCEPT ![c] = Without(@, 1)]
  /\ UNCHANGED <<files, level, pc, goal, hot, txLock, todo, fails>>

-----------------------------------------------------------------------------
(* Transactions.                                                           *)

\* begin_immediate / begin_exclusive start climbing, and record the level
\* once they have it.
Begin(c, g) ==
  /\ pc[c] = "ready" /\ txLock[c] = Shared
  /\ pc' = [pc EXCEPT ![c] = "climb"]
  /\ goal' = [goal EXCEPT ![c] = g]
  /\ UNCHANGED <<files, level, hot, dirty, cache, txLock, todo, fails>>

BeginDone(c) ==
  /\ pc[c] = "climb" /\ goal[c] \in {"immediate", "exclusive"}
  /\ level[c] >= TargetOf(goal[c])
  /\ level' = [level EXCEPT ![c] = TargetOf(goal[c])]
  /\ txLock' = [txLock EXCEPT ![c] = TargetOf(goal[c])]
  /\ pc' = [pc EXCEPT ![c] = "ready"]
  /\ goal' = [goal EXCEPT ![c] = "none"]
  /\ UNCHANGED <<files, hot, dirty, cache, todo, fails>>

\* release_tx_lock: back to Shared if begin_* recorded a level above it.
ReleaseTxLock(c) ==
  /\ level' = [level EXCEPT ![c] = IF txLock[c] > Shared THEN Shared ELSE @]
  /\ txLock' = [txLock EXCEPT ![c] = Shared]

\* flush with nothing dirty, and rollback.
Rollback(c) ==
  /\ pc[c] = "ready"
  /\ dirty' = [dirty EXCEPT ![c] = NoWrites]
  /\ ReleaseTxLock(c)
  /\ UNCHANGED <<files, pc, goal, hot, cache, todo, fails>>

Flush(c) ==
  /\ pc[c] = "ready" /\ dirty[c] # NoWrites
  /\ pc' = [pc EXCEPT ![c] = "climb"]
  /\ goal' = [goal EXCEPT ![c] = "flush"]
  /\ UNCHANGED <<files, level, hot, dirty, cache, txLock, todo, fails>>

\* A slip: only pages past the old end of the file are journaled.
ToJournal_NewOnly(c) == {p \in DOMAIN dirty[c] : p > main[1]}

\* The dirty pages that existed before the transaction.
ToJournal(c) == {p \in DOMAIN dirty[c] : p <= main[1]}

RecordCount(pages) == Cardinality(pages)

\* flush_locked: the header of the journal, with the number of records that
\* will follow and the page count that the file's own page 1 has.
JournalHeader(c) ==
  /\ pc[c] = "climb" /\ goal[c] = "flush" /\ level[c] = Exclusive
  /\ LET pages == ToJournal(c)
     IN  IF pages = {}
         THEN /\ pc' = [pc EXCEPT ![c] = "write"]
              /\ todo' = [todo EXCEPT ![c] = DOMAIN dirty[c]]
              /\ UNCHANGED <<jrnl, jrnlDisk>>
         ELSE /\ pc' = [pc EXCEPT ![c] = "journal"]
              /\ todo' = [todo EXCEPT ![c] = pages]
              /\ WriteJournal([init |-> main[1], n_rec |-> RecordCount(pages),
                               recs |-> << >>])
  /\ UNCHANGED <<main, mainDisk, level, goal, hot, dirty, cache, txLock, fails>>

\* write_record: the pre-image comes from the file.
JournalRecord(c) ==
  /\ pc[c] = "journal"
  /\ \E p \in Least(todo[c]) :
       /\ WriteJournal([jrnl EXCEPT !.recs =
                          Append(@, [page |-> p, data |-> main[p]])])
       /\ todo' = [todo EXCEPT ![c] = @ \ {p}]
  /\ UNCHANGED <<main, mainDisk, level, pc, goal, hot, dirty, cache, txLock, fails>>

JournalSync(c) ==
  /\ pc[c] = "journal" /\ todo[c] = {}
  /\ jrnlDisk' = IF Synchronous = "Off" THEN jrnlDisk ELSE {jrnl}
  /\ pc' = [pc EXCEPT ![c] = "write"]
  /\ todo' = [todo EXCEPT ![c] = DOMAIN dirty[c]]
  /\ UNCHANGED <<main, mainDisk, jrnl, level, goal, hot, dirty, cache, txLock, fails>>

\* write_page, in ascending page order.
WriteBack(c) ==
  /\ pc[c] = "write"
  /\ \E p \in Least(todo[c]) :
       /\ WriteMain(p, dirty[c][p])
       /\ todo' = [todo EXCEPT ![c] = @ \ {p}]
  /\ UNCHANGED <<jrnl, jrnlDisk, level, pc, goal, hot, dirty, cache, txLock, fails>>

\* A slip: no fsync of the database file before the journal goes.
MainSync_Skipped(c) ==
  /\ pc[c] = "write" /\ todo[c] = {}
  /\ pc' = [pc EXCEPT ![c] = "delete"]
  /\ UNCHANGED <<files, level, goal, hot, dirty, cache, txLock, todo, fails>>

MainSync(c) ==
  /\ pc[c] = "write" /\ todo[c] = {}
  /\ IF Synchronous = "Full" THEN SyncMain ELSE UNCHANGED <<main, mainDisk>>
  /\ pc' = [pc EXCEPT ![c] = "delete"]
  /\ UNCHANGED <<jrnl, jrnlDisk, level, goal, hot, dirty, cache, txLock, todo, fails>>

\* The commit point: the journal goes, and the dirty set with it.
DeleteJournal(c) ==
  /\ pc[c] = "delete"
  /\ DeleteJournalFile
  /\ dirty' = [dirty EXCEPT ![c] = NoWrites]
  /\ pc' = [pc EXCEPT ![c] = "down"]
  /\ UNCHANGED <<main, mainDisk, level, goal, hot, cache, txLock, todo, fails>>

\* An I/O call of flush_locked fails: flush returns the error, dirty stays.
IOError(c) ==
  /\ "io" \in Faults /\ fails.kill + fails.io < MaxFail
  /\ pc[c] \in {"journal", "write", "delete"}
  /\ fails' = [fails EXCEPT !.io = @ + 1]
  /\ pc' = [pc EXCEPT ![c] = "down"]
  /\ todo' = [todo EXCEPT ![c] = {}]
  /\ UNCHANGED <<files, level, goal, hot, dirty, cache, txLock>>

\* A slip: a failed flush_locked returns before the lock is released.
LockDown_OnSuccess(c) ==
  /\ pc[c] = "down"
  /\ level' = [level EXCEPT ![c] = IF dirty[c] = NoWrites THEN Shared ELSE @]
  /\ txLock' = [txLock EXCEPT ![c] = Shared]
  /\ pc' = [pc EXCEPT ![c] = "ready"]
  /\ goal' = [goal EXCEPT ![c] = "none"]
  /\ UNCHANGED <<files, hot, dirty, cache, todo, fails>>

\* set_level(Shared) at the end of flush, whatever its result.
LockDown(c) ==
  /\ pc[c] = "down"
  /\ level' = [level EXCEPT ![c] = Shared]
  /\ txLock' = [txLock EXCEPT ![c] = Shared]
  /\ pc' = [pc EXCEPT ![c] = "ready"]
  /\ goal' = [goal EXCEPT ![c] = "none"]
  /\ UNCHANGED <<files, hot, dirty, cache, todo, fails>>

\* The Pager is dropped between two calls.
Close(c) ==
  /\ pc[c] = "ready"
  /\ Gone(c)
  /\ UNCHANGED <<files, fails>>

\* The process is killed anywhere: the kernel drops its locks.
Kill(c) ==
  /\ "kill" \in Faults /\ fails.kill + fails.io < MaxFail
  /\ pc[c] \notin {"closed", "ready"}
  /\ Gone(c)
  /\ fails' = [fails EXCEPT !.kill = @ + 1]
  /\ UNCHANGED files

\* The machine stops: every process is gone, and of every unsynced write
\* some part may have reached the disk.
PowerLoss ==
  /\ "power" \in Faults
  /\ \E m \in [Pages -> UNION {mainDisk[p] : p \in Pages}] :
       /\ \A p \in Pages : m[p] \in mainDisk[p]
       /\ main' = m /\ mainDisk' = [p \in Pages |-> {m[p]}]
  /\ \E j \in jrnlDisk : jrnl' = j /\ jrnlDisk' = {j}
  /\ level'  = [c \in Conn |-> Unlocked]
  /\ pc'     = [c \in Conn |-> "closed"]
  /\ goal'   = [c \in Conn |-> "none"]
  /\ hot'    = [c \in Conn |-> FALSE]
  /\ dirty'  = [c \in Conn |-> NoWrites]
  /\ cache'  = [c \in Conn |-> NoWrites]
  /\ txLock' = [c \in Conn |-> Shared]
  /\ todo'   = [c \in Conn |-> {}]
  /\ UNCHANGED fails

Opening(c) ==
  \/ CheckJournal(c) \/ LockShared(c) \/ LockSharedFails(c) \/ CheckReserved(c)
  \/ OpenJournal(c) \/ ReplayRecord(c) \/ Truncate(c) \/ RecoverSync(c)
  \/ RecoverDelete(c) \/ DeEscalate(c)

Working(c) ==
  \/ \E p \in Pages : FillCache(c, p) \/ \E v \in Val : Mutate(c, p, v)
  \/ Allocate(c) \/ Rollback(c) \/ Close(c)

Committing(c) ==
  \/ Flush(c) \/ JournalHeader(c) \/ JournalRecord(c) \/ JournalSync(c)
  \/ WriteBack(c) \/ MainSync(c) \/ DeleteJournal(c) \/ IOError(c) \/ LockDown(c)

Locking(c) ==
  \/ \E g \in {"immediate", "exclusive"} : Begin(c, g)
  \/ BeginDone(c) \/ Climb(c) \/ Contended(c)

Next ==
  \/ PowerLoss
  \/ \E c \in Conn :
       Opening(c) \/ Working(c) \/ Committing(c) \/ Locking(c) \/ Kill(c)

Spec == Init /\ [][Next]_vars

-----------------------------------------------------------------------------
(* What a reader that opens the database finds.                            *)

Recovered(m, j) ==
  LET recs(p) == {i \in Valid(j) : j.recs[i].page = p}
      last(p) == CHOOSE i \in recs(p) : \A k \in recs(p) : k <= i
  IN  [p \in Pages |->
         IF ~ IsHot(j) THEN m[p]
         ELSE IF p > j.init THEN Absent
         ELSE IF recs(p) = {} THEN m[p] ELSE j.recs[last(p)].data]

\* The pages that the header's page count makes part of the database.
Image(f) == [p \in Pages |-> IF p <= f[1] THEN f[p] ELSE Absent]

Db == Image(Recovered(main, jrnl))

MainOutcomes ==
  {m \in [Pages -> UNION {mainDisk[p] : p \in Pages}] :
     \A p \in Pages : m[p] \in mainDisk[p]}
Outcomes == {Image(Recovered(m, j)) : m \in MainOutcomes, j \in jrnlDisk}

\* Every read of an opened Pager outside its own uncommitted writes returns
\* the committed database: no page of another connection's unfinished
\* commit, no page a crash left half done, no stale cached copy.
ReadsAreCommitted ==
  \A c \in Conn : pc[c] = "ready" =>
    \A p \in Pages \ DOMAIN dirty[c] :
      p <= Db[1] => ReadPage(c, p) = Db[p]

\* "Hot journal is never ignored": while a Pager is open and not committing
\* there is no hot journal beside the database.  A commit whose I/O failed
\* leaves its journal behind and the Pager goes on, which is a hazard of its
\* own: the property speaks of the time before the first such failure.
HotJournalNeverIgnored ==
  fails.io = 0 => \A c \in Conn : pc[c] = "ready" => ~ IsHot(jrnl)

\* Pager.lock is "escalated to Exclusive for the duration of each flush and
\* released back to Shared immediately after": a connection with no
\* transaction left holds no more than Shared.
IdleAtShared ==
  \A c \in Conn :
    pc[c] = "ready" /\ dirty[c] = NoWrites /\ txLock[c] = Shared
      => level[c] = Shared

\* Commits are atomic, isolated and survive crashes: the files implement
\* AtomicStore, whose database is what recovery would leave now, until a
\* connection goes on after a commit whose I/O failed.
Store == INSTANCE AtomicStore WITH db <- Db, durable <- Outcomes, txn <- dirty
CommitsAreAtomic ==
  Store!Init /\ [][fails'.io > 0 \/ Store!Next]_(Store!vars)

=============================================================================
