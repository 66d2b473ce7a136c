----------------------------- MODULE WalProofs -----------------------------
(***************************************************************************)
(* The write-ahead log for any number of connections, checkpoints, slots,  *)
(* pages and frames: what is committed stays, and a snapshot stands still. *)
(***************************************************************************)
EXTENDS WalPager, WellFoundedInduction, TLAPS

\* Page 1 holds a page count; only a torn page may count pages past MaxPage.
Counts == IF "power" \in Faults THEN Nat \ {0} ELSE Pages
IsValue(p, v) == v \in Nat /\ (p = 1 => v \in Counts)

\* Frames, and the pages of an overlay, a cache or a dirty set.
Frames == {f \in [page : Pages, data : Nat, db_size : Nat, tx : Nat] : IsValue(f.page, f.data)}
IsWrites(f) ==
  /\ DOMAIN f \subseteq Pages /\ f = [p \in DOMAIN f |-> f[p]]
  /\ \A p \in DOMAIN f : IsValue(p, f[p])
Writes == {f \in UNION {[D -> Nat] : D \in SUBSET Pages} : IsWrites(f)}

Flushing  == {"open", "append", "publish", "fold"}
ConnSteps == Flushing \union {"closed", "mark", "read", "ready"}
CkptSteps == {"idle", "probe", "backfill", "backfilled"}

FileType ==
  /\ main \in [Pages -> Nat] /\ main[1] \in Counts
  /\ mainDisk \in [Pages -> SUBSET Nat] /\ 0 \notin mainDisk[1]
LogType == wal \in Seq(Frames) /\ junk \in Nat /\ synced \in Nat
ShmType == mxFrame \in Nat /\ nBackfill \in Nat /\ mark \in [Slot -> Nat]
PcType ==
  /\ pc \in [Conn \union Ckpt -> ConnSteps \union CkptSteps]
  /\ (\A c \in Conn : pc[c] \in ConnSteps) /\ \A k \in Ckpt : pc[k] \in CkptSteps
PagerType ==
  /\ slot \in [Conn -> 0 .. Slots] /\ slotLock \in [Slot -> Conn \union {Free}]
  /\ overlay \in [Conn -> Writes] /\ cache \in [Conn -> Writes] /\ dirty \in [Conn -> Writes]
  /\ hint \in [Conn -> Nat] /\ at \in [Conn -> Nat] /\ left \in [Conn -> SUBSET Pages]
  /\ snap = [c \in Conn |-> snap[c]]
CkptType == seen \in [Ckpt -> Seq(Frames)] /\ bound \in [Ckpt -> Nat] /\ todo \in [Ckpt -> SUBSET Nat]
TypeOK == FileType /\ LogType /\ ShmType /\ PcType /\ PagerType /\ CkptType

LogPrefix(v, w) == Len(v) <= Len(w) /\ \A i \in 1 .. Len(v) : v[i] = w[i]

\* A flush holds WAL_WRITE_LOCK and writes at the end of the log.
LogInv ==
  /\ junk = 0
  /\ \A c \in Conn :
       /\ pc[c] \in Flushing => writeLock = c /\ DOMAIN dirty[c] # {}
       /\ pc[c] = "append" => at[c] = Len(wal) /\ left[c] \subseteq DOMAIN dirty[c]

\* A checkpoint works on a part of the log that stays.
CkptInv ==
  \A k \in Ckpt :
    /\ pc[k] # "idle" => ckptLock = k /\ LogPrefix(seen[k], wal) /\ bound[k] <= Len(seen[k])
    /\ pc[k] = "probe" => todo[k] \subseteq Slot
    /\ pc[k] = "backfill" => todo[k] \subseteq DOMAIN committed_pages(Prefix(k))

\* The log is never rewritten after a power loss that tore it.
NoTornLoss == "power" \notin Faults \/ "torn" \notin Faults

-----------------------------------------------------------------------------
(* The operators of the log.                                               *)

\* A non-empty set of frame numbers has a greatest one.
LEMMA GreatestFacts ==
  ASSUME NEW n \in Nat, NEW S, S \subseteq 1 .. n, S # {}
  PROVE  Greatest(S) \in S /\ \A y \in S : y <= Greatest(S)
<1> DEFINE R == {ss \in Nat \X Nat : ss[1] < ss[2]}
           T == {n - x : x \in S}
<1>1. IsWellFoundedOn(R, Nat)
  BY NatLessThanWellFounded DEF OpToRel
<1>2. T \subseteq Nat /\ T # {}
  <2>1. ASSUME NEW x \in S  PROVE  n - x \in Nat
    OBVIOUS
  <2> QED  BY <2>1, Zenon
<1> HIDE DEF R, T
<1>3. PICK t \in T : \A y \in T : ~ (<<y, t>> \in R)
  BY <1>1, <1>2, WFMin, Zenon
<1>4. PICK x \in S : t = n - x
  BY DEF T
<1>5. ASSUME NEW y \in S  PROVE  y <= x
  <2>1. n - y \in T /\ n - y \in Nat /\ n - x \in Nat /\ x \in Nat /\ y \in Nat
    BY <1>2, <1>4 DEF T
  <2>2. ~ (n - y < n - x)
    BY <1>3, <1>4, <2>1, Zenon DEF R
  <2> QED  BY <2>1, <2>2
<1>6. \E z \in S : \A y \in S : y <= z
  BY <1>5, Zenon
<1> QED  BY <1>6, Zenon DEF Greatest

\* CommittedLen is the number of the last commit frame.
LEMMA CommittedLenFacts ==
  ASSUME NEW w \in Seq(Frames)
  PROVE  /\ CommittedLen(w) \in Nat /\ CommittedLen(w) <= Len(w)
         /\ CommittedLen(w) > 0 => w[CommittedLen(w)].db_size > 0
         /\ \A i \in 1 .. Len(w) : w[i].db_size > 0 => i <= CommittedLen(w)
<1> DEFINE ends == {i \in 1 .. Len(w) : w[i].db_size > 0}
<1>1. Len(w) \in Nat /\ ends \subseteq 1 .. Len(w)
  OBVIOUS
<1>2. CommittedLen(w) = IF ends = {} THEN 0 ELSE Greatest(ends)
  BY DEF CommittedLen
<1>3. CASE ends = {}
  BY <1>1, <1>2, <1>3
<1>4. CASE ends # {}
  <2>1. Greatest(ends) \in ends /\ \A y \in ends : y <= Greatest(ends)
    BY <1>1, <1>4, GreatestFacts, Zenon
  <2> QED  BY <1>1, <1>2, <1>4, <2>1
<1> QED  BY <1>3, <1>4

\* There is no other.
LEMMA CommittedLenIs ==
  ASSUME NEW w \in Seq(Frames), NEW n \in Nat, n <= Len(w), n > 0 => w[n].db_size > 0,
         \A i \in 1 .. Len(w) : w[i].db_size > 0 => i <= n
  PROVE  CommittedLen(w) = n
<1>1. Len(w) \in Nat
  OBVIOUS
<1> QED  BY <1>1, CommittedLenFacts

\* committed_pages keeps, for every page, its last frame up to CommittedLen.
LEMMA CommittedPages ==
  ASSUME NEW w \in Seq(Frames)
  PROVE  /\ DOMAIN committed_pages(w) = {w[i].page : i \in 1 .. CommittedLen(w)}
         /\ \A i \in 1 .. CommittedLen(w) :
              (\A j \in i + 1 .. CommittedLen(w) : w[j].page # w[i].page)
                => committed_pages(w)[w[i].page] = w[i].data
         /\ \A p \in DOMAIN committed_pages(w) : \E i \in 1 .. CommittedLen(w) :
              /\ w[i].page = p /\ w[i].data = committed_pages(w)[p]
              /\ \A j \in i + 1 .. CommittedLen(w) : w[j].page # p
         /\ IsWrites(committed_pages(w))
<1> DEFINE n == CommittedLen(w)
           F(p) == FramesOf(w, p)
           f == committed_pages(w)
<1>1. n \in Nat /\ n <= Len(w) /\ Len(w) \in Nat
  BY CommittedLenFacts
<1>2. f = [p \in {w[i].page : i \in 1 .. n} |-> w[Greatest(F(p))].data]
  BY Zenon DEF committed_pages
<1>3. \A p : F(p) = {i \in 1 .. n : w[i].page = p}
  BY Zenon DEF FramesOf
<1>4. \A i \in 1 .. n : w[i] \in Frames
  BY <1>1
<1> HIDE DEF n, F, f
<1>5. ASSUME NEW p \in DOMAIN f
      PROVE  \E i \in 1 .. n : w[i].page = p /\ w[i].data = f[p] /\ \A j \in i + 1 .. n : w[j].page # p
  <2>1. F(p) \subseteq 1 .. n /\ F(p) # {}
    BY <1>2, <1>3, Zenon
  <2>2. Greatest(F(p)) \in F(p) /\ \A y \in F(p) : y <= Greatest(F(p))
    BY <1>1, <2>1, GreatestFacts
  <2>3. f[p] = w[Greatest(F(p))].data
    BY <1>2, Zenon
  <2>4. PICK g \in 1 .. n : g = Greatest(F(p))
    BY <2>1, <2>2, Zenon
  <2>5. ASSUME NEW j \in g + 1 .. n  PROVE  w[j].page # p
    <3>1. j \in 1 .. n /\ ~ (j <= g)
      BY <1>1, <2>4
    <3> QED  BY <1>3, <2>2, <2>4, <3>1, Zenon
  <2> QED  BY <1>3, <2>2, <2>3, <2>4, <2>5, Zenon
<1>6. ASSUME NEW i \in 1 .. n, \A j \in i + 1 .. n : w[j].page # w[i].page
      PROVE  f[w[i].page] = w[i].data
  <2>1. PICK k \in 1 .. n : /\ w[k].page = w[i].page /\ w[k].data = f[w[i].page]
                            /\ \A j \in k + 1 .. n : w[j].page # w[i].page
    BY <1>2, <1>5, Zenon
  <2>2. k = i
    BY <1>1, <1>6, <2>1
  <2> QED  BY <2>1, <2>2, Zenon
<1>7. IsWrites(f)
  <2>1. DOMAIN f \subseteq Pages
    BY <1>2, <1>4 DEF Frames
  <2>2. f = [p \in DOMAIN f |-> f[p]]
    BY <1>2, Zenon
  <2>3. ASSUME NEW p \in DOMAIN f  PROVE  IsValue(p, f[p])
    <3>1. PICK i \in 1 .. n : w[i].page = p /\ w[i].data = f[p]
      BY <1>5, Zenon
    <3>2. IsValue(w[i].page, w[i].data)
      BY <1>4, Zenon DEF Frames
    <3> QED  BY <3>1, <3>2, Zenon
  <2> QED  BY <2>1, <2>2, <2>3, Zenon DEF IsWrites
<1> QED  BY <1>2, <1>5, <1>6, <1>7, Zenon DEF n, f

\* The first frames of a log.
LEMMA SubSeqFacts ==
  ASSUME NEW w \in Seq(Frames), NEW n \in Nat, n <= Len(w)
  PROVE  /\ SubSeq(w, 1, n) \in Seq(Frames) /\ Len(SubSeq(w, 1, n)) = n
         /\ \A i \in 1 .. n : SubSeq(w, 1, n)[i] = w[i]
         /\ LogPrefix(SubSeq(w, 1, n), w)
<1>1. Len(w) \in Nat /\ 1 .. n \subseteq 1 .. Len(w)
  OBVIOUS
<1>2. Len(SubSeq(w, 1, n)) = n /\ \A i \in 1 .. n : SubSeq(w, 1, n)[i] = w[i]
  BY <1>1
<1>3. SubSeq(w, 1, n) \in Seq(Frames)
  BY <1>1
<1> QED  BY <1>2, <1>3 DEF LogPrefix

\* What a log has committed its continuations have, too.
LEMMA PrefixFacts ==
  ASSUME NEW v \in Seq(Frames), NEW w \in Seq(Frames), LogPrefix(v, w)
  PROVE  /\ CommittedLen(v) <= CommittedLen(w)
         /\ DOMAIN committed_pages(v) \subseteq DOMAIN committed_pages(w)
<1>1. /\ CommittedLen(v) \in Nat /\ CommittedLen(v) <= Len(v) /\ Len(v) \in Nat /\ Len(w) \in Nat
      /\ CommittedLen(v) > 0 => v[CommittedLen(v)].db_size > 0
      /\ CommittedLen(w) \in Nat
      /\ \A i \in 1 .. Len(w) : w[i].db_size > 0 => i <= CommittedLen(w)
  BY CommittedLenFacts
<1>2. Len(v) <= Len(w) /\ \A i \in 1 .. Len(v) : v[i] = w[i]
  BY DEF LogPrefix
<1>3. CommittedLen(v) <= CommittedLen(w)
  <2>1. CASE CommittedLen(v) = 0
    BY <1>1, <2>1
  <2>2. CASE CommittedLen(v) > 0
    <3>1. CommittedLen(v) \in 1 .. Len(v) /\ CommittedLen(v) \in 1 .. Len(w)
      BY <1>1, <1>2, <2>2
    <3> QED  BY <1>1, <1>2, <2>2, <3>1, Zenon
  <2> QED  BY <1>1, <2>1, <2>2
<1>4. \A i \in 1 .. CommittedLen(v) : i \in 1 .. CommittedLen(w) /\ i \in 1 .. Len(v)
  BY <1>1, <1>3
<1>5. {v[i].page : i \in 1 .. CommittedLen(v)} \subseteq {w[i].page : i \in 1 .. CommittedLen(w)}
  BY <1>2, <1>4, Zenon
<1>6. /\ DOMAIN committed_pages(v) = {v[i].page : i \in 1 .. CommittedLen(v)}
      /\ DOMAIN committed_pages(w) = {w[i].page : i \in 1 .. CommittedLen(w)}
  BY CommittedPages, Zenon
<1> QED  BY <1>3, <1>5, <1>6, Zenon

\* Appending a frame at the end of the log (at[c] = Len(wal)).
LEMMA AppendFacts ==
  ASSUME NEW w \in Seq(Frames), NEW f \in Frames, NEW v, v = Append(SubSeq(w, 1, Len(w)), f)
  PROVE  /\ v \in Seq(Frames) /\ Len(v) = Len(w) + 1 /\ v[Len(w) + 1] = f
         /\ \A i \in 1 .. Len(w) : v[i] = w[i]
         /\ LogPrefix(w, v)
         /\ CommittedLen(v) = IF f.db_size > 0 THEN Len(w) + 1 ELSE CommittedLen(w)
<1>1. Len(w) \in Nat /\ SubSeq(w, 1, Len(w)) = w
  OBVIOUS
<1>2. v = Append(w, f)
  BY <1>1, Zenon
<1>3. /\ v \in Seq(Frames) /\ Len(v) = Len(w) + 1 /\ v[Len(w) + 1] = f
      /\ \A i \in 1 .. Len(w) : v[i] = w[i]
  BY <1>2
<1>4. LogPrefix(w, v)
  BY <1>1, <1>3 DEF LogPrefix
<1>5. /\ CommittedLen(w) \in Nat /\ CommittedLen(w) <= Len(w)
      /\ CommittedLen(w) > 0 => w[CommittedLen(w)].db_size > 0
      /\ \A i \in 1 .. Len(w) : w[i].db_size > 0 => i <= CommittedLen(w)
  BY CommittedLenFacts
<1>6. ASSUME f.db_size > 0  PROVE  CommittedLen(v) = Len(w) + 1
  <2>1. Len(w) + 1 \in Nat /\ Len(w) + 1 <= Len(v) /\ v[Len(w) + 1].db_size > 0
    BY <1>1, <1>3, <1>6
  <2>2. \A i \in 1 .. Len(v) : i <= Len(w) + 1
    BY <1>1, <1>3
  <2> QED  BY <1>3, <2>1, <2>2, CommittedLenIs, Zenon
<1>7. ASSUME ~ (f.db_size > 0)  PROVE  CommittedLen(v) = CommittedLen(w)
  <2>1. \A i \in 1 .. Len(v) : v[i].db_size > 0 => i <= CommittedLen(w)
    <3>1. \A i \in 1 .. Len(v) : i \in 1 .. Len(w) \/ i = Len(w) + 1
      BY <1>1, <1>3
    <3> QED  BY <1>3, <1>5, <1>7, <3>1, Zenon
  <2>2. CommittedLen(w) > 0 => v[CommittedLen(w)].db_size > 0
    <3>1. CommittedLen(w) > 0 => CommittedLen(w) \in 1 .. Len(w)
      BY <1>1, <1>5
    <3> QED  BY <1>3, <1>5, <3>1, Zenon
  <2>3. CommittedLen(w) <= Len(v)
    BY <1>1, <1>3, <1>5
  <2> QED  BY <1>3, <1>5, <2>1, <2>2, <2>3, CommittedLenIs, Zenon
<1> QED  BY <1>3, <1>4, <1>6, <1>7, Zenon

-----------------------------------------------------------------------------
(* Who writes what.                                                        *)

\* The steps of one connection, and of one checkpoint.
ConnAct(c) == Open(c) \/ Edit(c) \/ Commit(c) \/ Close(c) \/ Kill(c)
CkptAct(k) == CkptStep(k) \/ KillCkpt(k)

LEMMA Steps == [Next]_vars => UNCHANGED vars \/ (\E c \in Conn : ConnAct(c)) \/ (\E k \in Ckpt : CkptAct(k)) \/ PowerLoss
BY Zenon DEF Next, ConnAct, CkptAct

\* A connection moves its own program counter and keeps out of the locals of
\* a checkpoint.
LEMMA ConnMoves ==
  ASSUME NEW c \in Conn, ConnAct(c)
  PROVE  /\ \E x \in ConnSteps : pc' = [pc EXCEPT ![c] = x] \/ pc' = pc
         /\ UNCHANGED <<main, mainDisk, nBackfill, ckptLock, seen, bound, todo>>
<1>1. \E x \in ConnSteps : pc' = [pc EXCEPT ![c] = x] \/ pc' = pc
  BY Zenon DEF ConnAct, ConnSteps, Flushing, Open, Edit, Commit, ClaimSlot, PublishMark, ReadWal, Close, Kill, Gone,
     FillCache, Mutate, Allocate, Rollback, ClaimWrite, OpenWal, AppendFrame, SyncWal, PublishMx, FoldDirty
<1>2. UNCHANGED <<main, mainDisk, nBackfill, ckptLock, seen, bound, todo>>
  BY Zenon DEF ConnAct, Open, Edit, Commit, ClaimSlot, PublishMark, ReadWal, Close, Kill, Gone,
     FillCache, Mutate, Allocate, Rollback, ClaimWrite, OpenWal, AppendFrame, SyncWal, PublishMx, FoldDirty,
     file, shm, locks, ckpt
<1> QED  BY <1>1, <1>2, Zenon

\* A checkpoint moves its own, and keeps out of the pagers and of the log.
LEMMA CkptMoves ==
  ASSUME NEW k \in Ckpt, CkptAct(k)
  PROVE  /\ \E x \in CkptSteps : pc' = [pc EXCEPT ![k] = x] \/ pc' = pc
         /\ UNCHANGED <<wal, junk, synced, mxFrame, mark, slotLock, writeLock,
                        slot, overlay, cache, dirty, hint, at, left, snap>>
<1>1. \E x \in CkptSteps : pc' = [pc EXCEPT ![k] = x] \/ pc' = pc
  BY Zenon DEF CkptAct, CkptSteps, CkptStep, CkptRead, ProbeSlot, Decide, Backfill, CkptSync, PublishBackfill,
     KillCkpt, Release
<1>2. UNCHANGED <<wal, junk, synced, mxFrame, mark, slotLock, writeLock,
                  slot, overlay, cache, dirty, hint, at, left, snap>>
  BY Zenon DEF CkptAct, CkptStep, CkptRead, ProbeSlot, Decide, Backfill, CkptSync, PublishBackfill,
     KillCkpt, Release, log, shm, locks, pager
<1> QED  BY <1>1, <1>2, Zenon

\* The database file changes in checkpoint_passive only.
LEMMA FileWriters ==
  [Next]_vars => UNCHANGED file \/ (\E k \in Ckpt : Backfill(k) \/ CkptSync(k)) \/ PowerLoss
<1>1. ASSUME NEW c \in Conn, ConnAct(c)  PROVE  UNCHANGED file
  BY <1>1, ConnMoves, Zenon DEF file
<1>2. ASSUME NEW k \in Ckpt, CkptAct(k)  PROVE  UNCHANGED file \/ Backfill(k) \/ CkptSync(k)
  BY <1>2, Zenon DEF CkptAct, CkptStep, CkptRead, ProbeSlot, Decide, PublishBackfill, KillCkpt
<1>3. UNCHANGED vars => UNCHANGED file
  BY Zenon DEF vars
<1> QED  BY <1>1, <1>2, <1>3, Steps, Zenon

\* The -wal file changes in WalWriter::sync only.
LEMMA LogWriters ==
  [Next]_vars => UNCHANGED log \/ (\E c \in Conn : AppendFrame(c) \/ SyncWal(c)) \/ PowerLoss
<1>1. ASSUME NEW c \in Conn, ConnAct(c)  PROVE  UNCHANGED log \/ AppendFrame(c) \/ SyncWal(c)
  BY <1>1, Zenon DEF ConnAct, Open, Edit, Commit, ClaimSlot, PublishMark, ReadWal, Close, Kill, Gone,
     FillCache, Mutate, Allocate, Rollback, ClaimWrite, OpenWal, PublishMx, FoldDirty
<1>2. ASSUME NEW k \in Ckpt, CkptAct(k)  PROVE  UNCHANGED log
  BY <1>2, CkptMoves, Zenon DEF log
<1>3. UNCHANGED vars => UNCHANGED log
  BY Zenon DEF vars
<1> QED  BY <1>1, <1>2, <1>3, Steps, Zenon

\* So do the fields of -shm, each in one place.
LEMMA ShmWriters ==
  [Next]_vars => \/ UNCHANGED shm \/ (\E c \in Conn : PublishMark(c) \/ PublishMx(c))
                 \/ (\E k \in Ckpt : PublishBackfill(k)) \/ PowerLoss
<1>1. ASSUME NEW c \in Conn, ConnAct(c)  PROVE  UNCHANGED shm \/ PublishMark(c) \/ PublishMx(c)
  BY <1>1, Zenon DEF ConnAct, Open, Edit, Commit, ClaimSlot, ReadWal, Close, Kill, Gone,
     FillCache, Mutate, Allocate, Rollback, ClaimWrite, OpenWal, AppendFrame, SyncWal, FoldDirty
<1>2. ASSUME NEW k \in Ckpt, CkptAct(k)  PROVE  UNCHANGED shm \/ PublishBackfill(k)
  BY <1>2, Zenon DEF CkptAct, CkptStep, CkptRead, ProbeSlot, Decide, Backfill, CkptSync, KillCkpt
<1>3. UNCHANGED vars => UNCHANGED shm
  BY Zenon DEF vars
<1> QED  BY <1>1, <1>2, <1>3, Steps, Zenon

-----------------------------------------------------------------------------
(* Types.                                                                  *)

\* The empty overlay, and what Overlay, With and Without make.
LEMMA WritesFacts ==
  /\ \A f : f \in Writes <=> IsWrites(f)
  /\ NoWrites \in Writes /\ DOMAIN NoWrites = {}
  /\ \A f \in Writes : DOMAIN f = {} => f = NoWrites
<1>1. ASSUME NEW f, IsWrites(f)  PROVE  f \in Writes
  <2>1. f \in [DOMAIN f -> Nat] /\ DOMAIN f \in SUBSET Pages
    BY <1>1, Zenon DEF IsWrites, IsValue
  <2> QED  BY <1>1, <2>1, Zenon DEF Writes
<1>2. \A f \in Writes : IsWrites(f)
  BY Zenon DEF Writes
<1>3. IsWrites(NoWrites) /\ DOMAIN NoWrites = {}
  BY Zenon DEF IsWrites, NoWrites
<1>4. ASSUME NEW f \in Writes, DOMAIN f = {}  PROVE  f = NoWrites
  <2>1. f = [p \in {} |-> f[p]]
    BY <1>2, <1>4, Zenon DEF IsWrites
  <2> QED  BY <2>1, Zenon DEF NoWrites
<1> QED  BY <1>1, <1>2, <1>3, <1>4, Zenon

LEMMA OverlayFacts ==
  ASSUME NEW f, NEW g
  PROVE  /\ DOMAIN Overlay(f, g) = DOMAIN f \union DOMAIN g
         /\ \A p \in DOMAIN g : Overlay(f, g)[p] = g[p]
         /\ \A p \in DOMAIN f \ DOMAIN g : Overlay(f, g)[p] = f[p]
         /\ f \in Writes /\ g \in Writes => Overlay(f, g) \in Writes
<1>1. /\ DOMAIN Overlay(f, g) = DOMAIN f \union DOMAIN g
      /\ \A p \in DOMAIN g : Overlay(f, g)[p] = g[p]
      /\ \A p \in DOMAIN f \ DOMAIN g : Overlay(f, g)[p] = f[p]
      /\ Overlay(f, g) = [p \in DOMAIN Overlay(f, g) |-> Overlay(f, g)[p]]
  BY Zenon DEF Overlay
<1>2. ASSUME IsWrites(f), IsWrites(g)  PROVE  IsWrites(Overlay(f, g))
  BY <1>1, <1>2, Zenon DEF IsWrites
<1> QED  BY <1>1, <1>2, WritesFacts, Zenon

LEMMA WithFacts ==
  ASSUME NEW f, NEW p, NEW v
  PROVE  /\ DOMAIN With(f, p, v) = DOMAIN f \union {p} /\ With(f, p, v)[p] = v
         /\ \A q \in DOMAIN f \ {p} : With(f, p, v)[q] = f[q]
         /\ f \in Writes /\ p \in Pages /\ IsValue(p, v) => With(f, p, v) \in Writes
<1> DEFINE g == [q \in {p} |-> v]
<1>1. DOMAIN g = {p} /\ g[p] = v /\ With(f, p, v) = Overlay(f, g)
  BY Zenon DEF With
<1>2. p \in Pages /\ IsValue(p, v) => g \in Writes
  <2>1. p \in Pages /\ IsValue(p, v) => IsWrites(g)
    BY Zenon DEF IsWrites
  <2> QED  BY <2>1, WritesFacts, Zenon
<1> HIDE DEF g
<1>3. /\ DOMAIN Overlay(f, g) = DOMAIN f \union DOMAIN g
      /\ \A q \in DOMAIN g : Overlay(f, g)[q] = g[q]
      /\ \A q \in DOMAIN f \ DOMAIN g : Overlay(f, g)[q] = f[q]
      /\ f \in Writes /\ g \in Writes => Overlay(f, g) \in Writes
  BY OverlayFacts, Zenon
<1> QED  BY <1>1, <1>2, <1>3

LEMMA WithoutFacts ==
  ASSUME NEW f, NEW p
  PROVE  /\ DOMAIN Without(f, p) = DOMAIN f \ {p}
         /\ \A q \in DOMAIN f \ {p} : Without(f, p)[q] = f[q]
         /\ f \in Writes => Without(f, p) \in Writes
<1>1. f \in Writes => IsWrites(Without(f, p))
  BY WritesFacts, Zenon DEF IsWrites, Without
<1> QED  BY <1>1, WritesFacts, Zenon DEF Without

\* What checkpoint_passive copies comes from the log it has read.
LEMMA PrefixOf ==
  ASSUME CkptType, NEW k \in Ckpt
  PROVE  /\ Prefix(k) \in Seq(Frames) /\ LogPrefix(Prefix(k), seen[k])
         /\ bound[k] <= Len(seen[k]) => Len(Prefix(k)) = bound[k]
         /\ Len(Prefix(k)) <= bound[k]
<1> DEFINE n == Smaller(bound[k], Len(seen[k]))
<1>1. seen[k] \in Seq(Frames) /\ bound[k] \in Nat
  BY Zenon DEF CkptType
<1>2. n \in Nat /\ n <= Len(seen[k]) /\ n <= bound[k] /\ (bound[k] <= Len(seen[k]) => n = bound[k])
  BY <1>1 DEF Smaller
<1> HIDE DEF n
<1>3. Prefix(k) = SubSeq(seen[k], 1, n)
  BY Zenon DEF Prefix, n
<1>4. SubSeq(seen[k], 1, n) \in Seq(Frames) /\ Len(SubSeq(seen[k], 1, n)) = n /\ LogPrefix(SubSeq(seen[k], 1, n), seen[k])
  BY <1>1, <1>2, SubSeqFacts
<1> QED  BY <1>2, <1>3, <1>4, Zenon

\* The copies.
LEMMA BackfillFacts ==
  ASSUME CkptType, CkptInv, NEW k \in Ckpt, Backfill(k)
  PROVE  \E p \in todo[k] :
           /\ p \in DOMAIN committed_pages(Prefix(k)) /\ p \in Pages
           /\ IsValue(p, committed_pages(Prefix(k))[p])
           /\ \A q \in todo[k] : p <= q
           /\ main' = [main EXCEPT ![p] = committed_pages(Prefix(k))[p]]
           /\ mainDisk' = [mainDisk EXCEPT ![p] = IF @ = {committed_pages(Prefix(k))[p]} THEN @
                             ELSE @ \union {committed_pages(Prefix(k))[p], Torn}]
           /\ todo' = [todo EXCEPT ![k] = @ \ {p}]
<1>1. IsWrites(committed_pages(Prefix(k)))
  BY PrefixOf, CommittedPages, Zenon
<1>2. todo[k] \subseteq DOMAIN committed_pages(Prefix(k))
  BY Zenon DEF Backfill, CkptInv
<1> QED  BY <1>1, <1>2, Zenon DEF Backfill, Least, IsWrites

LEMMA PageOne == 1 \in Pages /\ Pages \subseteq Nat /\ 0 \notin Counts /\ Counts \subseteq Nat /\ 2 \in Counts /\ Pages \subseteq Counts
BY WalAssumption DEF Pages, Counts

\* What a power loss leaves of the database file.
LEMMA OutcomeFacts ==
  ASSUME FileType, NEW m \in MainOutcomes
  PROVE  m \in [Pages -> Nat] /\ m[1] # 0 /\ \A p \in Pages : m[p] = main[p] \/ m[p] \in mainDisk[p]
<1> DEFINE loose == {p \in Pages : mainDisk[p] # {main[p]}}
<1>1. PICK f \in [loose -> UNION {mainDisk[p] : p \in loose}] :
        (\A p \in loose : f[p] \in mainDisk[p]) /\ m = Overlay(main, f)
  BY Zenon DEF MainOutcomes
<1>2. DOMAIN main = Pages /\ DOMAIN f = loose /\ loose \subseteq Pages
  BY Zenon DEF FileType
<1>3. m = [p \in Pages |-> IF p \in loose THEN f[p] ELSE main[p]]
  BY <1>1, <1>2 DEF Overlay
<1> HIDE DEF loose
<1>4. \A p \in Pages : m[p] = main[p] \/ m[p] \in mainDisk[p]
  BY <1>1, <1>3, Zenon
<1>5. main[1] # 0 /\ 0 \notin mainDisk[1]
  BY PageOne, Zenon DEF FileType
<1>6. \A p \in Pages : main[p] \in Nat /\ mainDisk[p] \subseteq Nat
  BY Zenon DEF FileType
<1> QED  BY <1>3, <1>4, <1>5, <1>6, PageOne, Zenon

LEMMA FileTypeStep == TypeOK /\ CkptInv /\ [Next]_vars => FileType'
<1> SUFFICES ASSUME TypeOK, CkptInv, [Next]_vars  PROVE  FileType'
  OBVIOUS
<1>1. FileType /\ CkptType
  BY Zenon DEF TypeOK
<1>2. CASE UNCHANGED file
  BY <1>1, <1>2, Zenon DEF FileType, file
<1>3. ASSUME NEW k \in Ckpt, Backfill(k)  PROVE  FileType'
  <2>1. PICK p \in Pages, v \in Nat :
          /\ IsValue(p, v) /\ main' = [main EXCEPT ![p] = v]
          /\ mainDisk' = [mainDisk EXCEPT ![p] = IF @ = {v} THEN @ ELSE @ \union {v, Torn}]
    BY <1>1, <1>3, BackfillFacts, Zenon DEF IsValue
  <2>2. main' \in [Pages -> Nat] /\ main'[1] \in Counts
    BY <1>1, <2>1, PageOne, Zenon DEF FileType, IsValue
  <2>3. Torn \in Nat /\ Torn # 0 /\ v \in Nat /\ (p = 1 => v # 0)
    BY <2>1, PageOne DEF Torn, IsValue
  <2>4. mainDisk' \in [Pages -> SUBSET Nat] /\ 0 \notin mainDisk'[1]
    BY <1>1, <2>1, <2>3, PageOne DEF FileType
  <2> QED  BY <2>2, <2>4, Zenon DEF FileType
<1>4. ASSUME NEW k \in Ckpt, CkptSync(k)  PROVE  FileType'
  BY <1>1, <1>4, PageOne DEF CkptSync, FileType
<1>5. CASE PowerLoss
  <2>1. main' \in [Pages -> Nat] /\ main'[1] # 0 /\ mainDisk' = [p \in Pages |-> {main'[p]}] /\ Counts = Nat \ {0}
    BY <1>1, <1>5, OutcomeFacts, Zenon DEF PowerLoss, Counts
  <2> QED  BY <2>1, PageOne DEF FileType
<1> QED  BY <1>2, <1>3, <1>4, <1>5, FileWriters, Zenon

\* Pages laid over a whole file.
LEMMA WholeOverlay ==
  ASSUME NEW f \in Writes, DOMAIN f = Pages, NEW g \in Writes
  PROVE  /\ Overlay(f, g) \in Writes /\ DOMAIN Overlay(f, g) = Pages
         /\ \A p \in DOMAIN g : Overlay(f, g)[p] = g[p]
         /\ \A p \in Pages \ DOMAIN g : Overlay(f, g)[p] = f[p]
<1>1. DOMAIN g \subseteq Pages
  BY WritesFacts, Zenon DEF IsWrites
<1>2. DOMAIN f \union DOMAIN g = Pages
  BY <1>1, Zenon
<1>3. /\ DOMAIN Overlay(f, g) = DOMAIN f \union DOMAIN g
      /\ \A p \in DOMAIN g : Overlay(f, g)[p] = g[p]
      /\ \A p \in DOMAIN f \ DOMAIN g : Overlay(f, g)[p] = f[p]
      /\ Overlay(f, g) \in Writes
  BY OverlayFacts, Zenon
<1> QED  BY <1>2, <1>3, Zenon
LEMMA MainWrites == FileType => main \in Writes /\ DOMAIN main = Pages
<1>1. FileType => IsWrites(main) /\ DOMAIN main = Pages
  BY Zenon DEF FileType, IsWrites, IsValue
<1> QED  BY <1>1, WritesFacts, Zenon

\* read_page finds every page.
LEMMA ReadPageFacts ==
  ASSUME FileType, PagerType, NEW c \in Conn
  PROVE  /\ ReadPage(c, 1) \in Counts
         /\ \A p \in Pages : ReadPage(c, p) \in Nat
         /\ \A p \in DOMAIN dirty[c] : ReadPage(c, p) = dirty[c][p]
         /\ \A p \in Pages \ DOMAIN dirty[c] : ReadPage(c, p) = Overlay(Overlay(main, cache[c]), overlay[c])[p]
<1>1. cache[c] \in Writes /\ overlay[c] \in Writes /\ dirty[c] \in Writes
  BY Zenon DEF PagerType
<1>2. main \in Writes /\ DOMAIN main = Pages
  BY MainWrites, Zenon
<1> DEFINE g == Overlay(main, cache[c])
           h == Overlay(g, overlay[c])
           f == Overlay(h, dirty[c])
<1>3. g \in Writes /\ DOMAIN g = Pages
  BY <1>1, <1>2, WholeOverlay, Zenon
<1> HIDE DEF g
<1>4. h \in Writes /\ DOMAIN h = Pages
  BY <1>1, <1>3, WholeOverlay, Zenon
<1> HIDE DEF h
<1>5. /\ f \in Writes /\ DOMAIN f = Pages
      /\ \A p \in DOMAIN dirty[c] : f[p] = dirty[c][p]
      /\ \A p \in Pages \ DOMAIN dirty[c] : f[p] = h[p]
  BY <1>1, <1>4, WholeOverlay, Zenon
<1> HIDE DEF f
<1>6. \A p : ReadPage(c, p) = f[p]
  BY Zenon DEF ReadPage, f, g, h
<1>7. \A p \in Pages : IsValue(p, f[p])
  BY <1>5, WritesFacts, Zenon DEF IsWrites
<1> QED  BY <1>5, <1>6, <1>7, PageOne, Zenon DEF IsValue, h, g

\* One frame of WalWriter::sync.
LEMMA AppendedFrame ==
  ASSUME FileType, LogType, PagerType, LogInv, NEW c \in Conn, AppendFrame(c)
  PROVE  \E p \in left[c] :
           /\ Frame(p, dirty[c][p], CommitSize(c, p), Tx(c)) \in Frames
           /\ wal' = Append(SubSeq(wal, 1, Len(wal)), Frame(p, dirty[c][p], CommitSize(c, p), Tx(c)))
           /\ left' = [left EXCEPT ![c] = @ \ {p}] /\ \A q \in left[c] : p <= q
           /\ at' = [at EXCEPT ![c] = Len(wal) + 1] /\ junk' = 0
<1>1. PICK p \in left[c] :
        /\ wal' = Append(SubSeq(wal, 1, at[c]), Frame(p, dirty[c][p], CommitSize(c, p), Tx(c)))
        /\ left' = [left EXCEPT ![c] = @ \ {p}] /\ \A q \in left[c] : p <= q
  BY Zenon DEF AppendFrame, Least
<1>2. at[c] = Len(wal) /\ left[c] \subseteq DOMAIN dirty[c] /\ junk = 0
  BY Zenon DEF AppendFrame, LogInv
<1>3. Len(wal) \in Nat /\ (wal # << >> => wal[Len(wal)] \in Frames)
  BY DEF LogType
<1>4. at' = [at EXCEPT ![c] = Len(wal) + 1] /\ junk' = 0
  <2>1. at' = [at EXCEPT ![c] = @ + 1]
    BY Zenon DEF AppendFrame
  <2>2. junk' = IF Len(wal) + junk > at[c] THEN Len(wal) + junk - (at[c] + 1) ELSE 0
    BY Zenon DEF AppendFrame
  <2> QED  BY <1>2, <1>3, <2>1, <2>2
<1>5. p \in Pages /\ IsValue(p, dirty[c][p])
  BY <1>1, <1>2, WritesFacts, Zenon DEF PagerType, IsWrites
<1>6. CommitSize(c, p) \in Nat
  BY ReadPageFacts, PageOne DEF CommitSize
<1>7. Tx(c) \in Nat
  <2>1. wal # << >> => wal[Len(wal)].tx \in Nat
    BY <1>3, Zenon DEF Frames
  <2> QED  BY <2>1 DEF Tx
<1>8. Frame(p, dirty[c][p], CommitSize(c, p), Tx(c)) \in Frames
  BY <1>5, <1>6, <1>7 DEF Frame, Frames, IsValue
<1> QED  BY <1>1, <1>2, <1>4, <1>8, Zenon

LEMMA LogTypeStep == TypeOK /\ LogInv /\ NoTornLoss /\ [Next]_vars => LogType' /\ junk' = 0
<1> SUFFICES ASSUME TypeOK, LogInv, NoTornLoss, [Next]_vars  PROVE  LogType' /\ junk' = 0
  OBVIOUS
<1>1. FileType /\ LogType /\ PagerType /\ junk = 0
  BY Zenon DEF TypeOK, LogInv
<1>2. CASE UNCHANGED log
  BY <1>1, <1>2, Zenon DEF LogType, log
<1>3. ASSUME NEW c \in Conn, AppendFrame(c)  PROVE  LogType' /\ junk' = 0
  <2>1. PICK f \in Frames : wal' = Append(SubSeq(wal, 1, Len(wal)), f) /\ junk' = 0
    BY <1>1, <1>3, AppendedFrame, Zenon
  <2>2. wal' \in Seq(Frames)
    BY <1>1, <2>1, AppendFacts DEF LogType
  <2>3. UNCHANGED synced
    BY <1>3, Zenon DEF AppendFrame
  <2> QED  BY <1>1, <2>1, <2>2, <2>3 DEF LogType
<1>4. ASSUME NEW c \in Conn, SyncWal(c)  PROVE  LogType' /\ junk' = 0
  BY <1>1, <1>4 DEF LogType, SyncWal
<1>5. CASE PowerLoss
  <2>1. PICK n \in Kept : wal' = SubSeq(wal, 1, n) /\ synced' = n
    BY <1>5, Zenon DEF PowerLoss
  <2>2. n \in Nat /\ n <= Len(wal)
    BY <1>1 DEF Kept, LogType
  <2>3. junk' = 0
    BY <1>1, <1>5 DEF PowerLoss, NoTornLoss
  <2>4. wal' \in Seq(Frames)
    BY <1>1, <2>1, <2>2, SubSeqFacts DEF LogType
  <2> QED  BY <2>1, <2>2, <2>3, <2>4 DEF LogType
<1> QED  BY <1>2, <1>3, <1>4, <1>5, LogWriters, Zenon

LEMMA ShmTypeStep == TypeOK /\ [Next]_vars => ShmType'
<1> SUFFICES ASSUME TypeOK, [Next]_vars  PROVE  ShmType'
  OBVIOUS
<1>1. ShmType /\ at \in [Conn -> Nat] /\ bound \in [Ckpt -> Nat]
  BY Zenon DEF TypeOK, PagerType, CkptType
<1>2. CASE UNCHANGED shm
  BY <1>1, <1>2, Zenon DEF ShmType, shm
<1>3. ASSUME NEW c \in Conn, PublishMark(c)  PROVE  ShmType'
  BY <1>1, <1>3, Zenon DEF ShmType, PublishMark
<1>4. ASSUME NEW c \in Conn, PublishMx(c)  PROVE  ShmType'
  BY <1>1, <1>4, Zenon DEF ShmType, PublishMx
<1>5. ASSUME NEW k \in Ckpt, PublishBackfill(k)  PROVE  ShmType'
  BY <1>1, <1>5, Zenon DEF ShmType, PublishBackfill
<1>6. CASE PowerLoss
  BY <1>1, <1>6 DEF ShmType, PowerLoss
<1> QED  BY <1>2, <1>3, <1>4, <1>5, <1>6, ShmWriters, Zenon

LEMMA Disjoint == \A c \in Conn : c # Free /\ \A k \in Ckpt : c # k /\ k # Free
BY WalAssumption, Zenon DEF Free

LEMMA PcTypeStep == PcType /\ [Next]_vars => PcType'
<1> SUFFICES ASSUME PcType, [Next]_vars  PROVE  PcType'
  OBVIOUS
<1>1. CASE UNCHANGED vars
  BY <1>1, Zenon DEF PcType, vars
<1>2. ASSUME NEW c \in Conn, ConnAct(c)  PROVE  PcType'
  BY <1>2, ConnMoves, Disjoint, Zenon DEF PcType
<1>3. ASSUME NEW k \in Ckpt, CkptAct(k)  PROVE  PcType'
  BY <1>3, CkptMoves, Disjoint, Zenon DEF PcType
<1>4. CASE PowerLoss
  <2>1. pc' = [c \in Conn \union Ckpt |-> IF c \in Conn THEN "closed" ELSE "idle"]
    BY <1>4, Zenon DEF PowerLoss
  <2>2. "closed" \in ConnSteps /\ "idle" \in CkptSteps
    BY Zenon DEF ConnSteps, CkptSteps
  <2> QED  BY <2>1, <2>2, Disjoint, Zenon DEF PcType
<1> QED  BY <1>1, <1>2, <1>3, <1>4, Steps, Zenon

\* The other connections keep their state.
LEMMA Bystanders ==
  ASSUME PagerType, PcType, NEW c \in Conn, ConnAct(c), NEW d \in Conn, d # c
  PROVE  /\ pc'[d] = pc[d] /\ slot'[d] = slot[d] /\ overlay'[d] = overlay[d] /\ cache'[d] = cache[d]
         /\ dirty'[d] = dirty[d] /\ hint'[d] = hint[d] /\ at'[d] = at[d] /\ left'[d] = left[d] /\ snap'[d] = snap[d]
<1>1. pc'[d] = pc[d]
  BY ConnMoves, Zenon DEF PcType
<1>2. slot'[d] = slot[d] /\ overlay'[d] = overlay[d] /\ cache'[d] = cache[d] /\ dirty'[d] = dirty[d]
  BY Zenon DEF PagerType, ConnAct, Open, Edit, Commit, ClaimSlot, PublishMark, ReadWal, Close, Kill, Gone,
     FillCache, Mutate, Allocate, Rollback, ClaimWrite, OpenWal, AppendFrame, SyncWal, PublishMx, FoldDirty, pager
<1>3. hint'[d] = hint[d] /\ at'[d] = at[d] /\ left'[d] = left[d] /\ snap'[d] = snap[d]
  BY Zenon DEF PagerType, ConnAct, Open, Edit, Commit, ClaimSlot, PublishMark, ReadWal, Close, Kill, Gone,
     FillCache, Mutate, Allocate, Rollback, ClaimWrite, OpenWal, AppendFrame, SyncWal, PublishMx, FoldDirty, pager
<1> QED  BY <1>1, <1>2, <1>3, Zenon

\* allocate_page and get_page_mut.
LEMMA AllocateFacts ==
  ASSUME FileType, PagerType, NEW c \in Conn, Allocate(c)
  PROVE  \E n \in Pages : /\ n = ReadPage(c, 1) + 1 /\ n # 1 /\ IsValue(1, n) /\ IsValue(n, 0)
                          /\ dirty' = [dirty EXCEPT ![c] = With(With(@, n, 0), 1, n)]
<1>1. ReadPage(c, 1) \in Counts /\ ReadPage(c, 1) < MaxPage
  BY ReadPageFacts, Zenon DEF Allocate
<1>2. dirty' = [dirty EXCEPT ![c] = With(With(@, ReadPage(c, 1) + 1, 0), 1, ReadPage(c, 1) + 1)]
  BY Zenon DEF Allocate
<1>3. MaxPage \in Nat
  BY WalAssumption
<1>4. ReadPage(c, 1) \in Nat /\ ReadPage(c, 1) # 0
  BY <1>1, PageOne, Zenon
<1>5. PICK n \in Pages : n = ReadPage(c, 1) + 1 /\ n # 1
  BY <1>1, <1>3, <1>4 DEF Pages
<1>6. IsValue(1, n) /\ IsValue(n, 0)
  BY <1>5, PageOne DEF IsValue
<1> QED  BY <1>2, <1>5, <1>6, Zenon

LEMMA MutateFacts ==
  ASSUME FileType, PagerType, NEW c \in Conn, NEW p, NEW v \in Val, Mutate(c, p, v), p \in Pages
  PROVE  p # 1 /\ IsValue(p, v)
<1>1. p # 1
  <2>1. ReadPage(c, 1) \in Nat /\ p \in 2 .. ReadPage(c, 1)
    BY ReadPageFacts, PageOne, Zenon DEF Mutate
  <2> QED  BY <2>1
<1>2. v \in Nat
  BY WalAssumption
<1> QED  BY <1>1, <1>2, Zenon DEF IsValue

\* The types of what one connection may change.
LEMMA PagerTypeConn ==
  ASSUME TypeOK, LogInv, Synchronous = "Full", NEW c \in Conn, ConnAct(c)
  PROVE  PagerType'
<1>1. FileType /\ LogType /\ ShmType /\ PagerType
  BY Zenon DEF TypeOK
<1>2. overlay[c] \in Writes /\ cache[c] \in Writes /\ dirty[c] \in Writes /\ at[c] \in Nat /\ left[c] \subseteq Pages
  BY <1>1, Zenon DEF PagerType
<1>3. NoWrites \in Writes /\ 0 \in Nat /\ NoSlot \in 0 .. Slots /\ Slot \subseteq 0 .. Slots /\ Slots \in Nat
  BY WritesFacts, WalAssumption DEF NoSlot, Slot
<1>4. ASSUME ClaimSlot(c)  PROVE  PagerType'
  <2>1. PICK s \in Slot : slot' = [slot EXCEPT ![c] = s] /\ slotLock' = [slotLock EXCEPT ![s] = c]
    BY <1>4, Zenon DEF ClaimSlot, FreeSlots
  <2>2. slot' \in [Conn -> 0 .. Slots] /\ slotLock' \in [Slot -> Conn \union {Free}]
    BY <1>1, <1>3, <2>1 DEF PagerType
  <2> QED  BY <1>1, <1>4, <2>2, Zenon DEF PagerType, ClaimSlot
<1>5. ASSUME PublishMark(c)  PROVE  PagerType'
  BY <1>1, <1>5, Zenon DEF PagerType, PublishMark, pager, locks
<1>6. ASSUME ReadWal(c)  PROVE  PagerType'
  <2>1. committed_pages(wal) \in Writes
    BY <1>1, CommittedPages, WritesFacts, Zenon DEF LogType
  <2> QED  BY <1>1, <1>6, <2>1, Zenon DEF PagerType, ReadWal, locks
<1>7. ASSUME Gone(c)  PROVE  PagerType'
  BY <1>1, <1>3, <1>7, Zenon DEF PagerType, Gone
<1>8. ASSUME NEW p \in Pages, FillCache(c, p)  PROVE  PagerType'
  <2>1. IsValue(p, main[p])
    BY <1>1, Zenon DEF FileType, IsValue
  <2>2. With(cache[c], p, main[p]) \in Writes
    BY <1>2, <2>1, WithFacts, Zenon
  <2> QED  BY <1>1, <1>8, <2>2, Zenon DEF PagerType, FillCache, locks
<1>9. ASSUME NEW p \in Pages, NEW v \in Val, Mutate(c, p, v)  PROVE  PagerType'
  <2>1. With(dirty[c], p, v) \in Writes /\ Without(cache[c], p) \in Writes
    BY <1>1, <1>2, <1>9, MutateFacts, WithFacts, WithoutFacts, Zenon
  <2> QED  BY <1>1, <1>9, <2>1, Zenon DEF PagerType, Mutate, locks
<1>10. ASSUME Allocate(c)  PROVE  PagerType'
  <2>1. PICK n \in Pages : IsValue(1, n) /\ IsValue(n, 0) /\ dirty' = [dirty EXCEPT ![c] = With(With(@, n, 0), 1, n)]
    BY <1>1, <1>10, AllocateFacts
  <2>2. With(dirty[c], n, 0) \in Writes
    BY <1>2, <2>1, WithFacts, Zenon
  <2>3. With(With(dirty[c], n, 0), 1, n) \in Writes /\ Without(cache[c], 1) \in Writes
    BY <1>2, <2>1, <2>2, PageOne, WithFacts, WithoutFacts, Zenon
  <2> QED  BY <1>1, <1>10, <2>1, <2>3, Zenon DEF PagerType, Allocate, locks
<1>11. ASSUME Rollback(c)  PROVE  PagerType'
  BY <1>1, <1>3, <1>11, Zenon DEF PagerType, Rollback, locks
<1>12. ASSUME ClaimWrite(c)  PROVE  PagerType'
  BY <1>1, <1>12, Zenon DEF PagerType, ClaimWrite, pager
<1>13. ASSUME OpenWal(c)  PROVE  PagerType'
  <2>1. ResumeAt(c) \in Nat /\ DOMAIN dirty[c] \subseteq Pages
    BY <1>1, <1>2, WritesFacts DEF ResumeAt, PagerType, LogType, IsWrites
  <2>2. at' = [at EXCEPT ![c] = ResumeAt(c)] /\ left' = [left EXCEPT ![c] = DOMAIN dirty[c]]
    BY <1>13, Zenon DEF OpenWal
  <2> QED  BY <1>1, <1>13, <2>1, <2>2, Zenon DEF PagerType, OpenWal, locks
<1>14. ASSUME AppendFrame(c)  PROVE  PagerType'
  <2>1. PICK p \in left[c] : left' = [left EXCEPT ![c] = @ \ {p}] /\ at' = [at EXCEPT ![c] = Len(wal) + 1]
    BY <1>1, <1>14, AppendedFrame, Zenon
  <2>2. Len(wal) + 1 \in Nat /\ left[c] \ {p} \subseteq Pages
    BY <1>1, <1>2 DEF LogType
  <2>3. left' \in [Conn -> SUBSET Pages] /\ at' \in [Conn -> Nat]
    BY <1>1, <2>1, <2>2, Zenon DEF PagerType
  <2>4. UNCHANGED <<slot, slotLock, overlay, cache, dirty, hint, snap>>
    BY <1>14, Zenon DEF AppendFrame, locks
  <2> QED  BY <1>1, <2>3, <2>4, Zenon DEF PagerType
<1>15. ASSUME SyncWal(c)  PROVE  PagerType'
  BY <1>1, <1>15, Zenon DEF PagerType, SyncWal, pager, locks
<1>16. ASSUME PublishMx(c)  PROVE  PagerType'
  BY <1>1, <1>2, <1>16, Zenon DEF PagerType, PublishMx, locks
<1>17. ASSUME FoldDirty(c)  PROVE  PagerType'
  <2>1. Overlay(overlay[c], dirty[c]) \in Writes
    BY <1>2, OverlayFacts, Zenon
  <2> QED  BY <1>1, <1>3, <1>17, <2>1, Zenon DEF PagerType, FoldDirty
<1> QED  BY <1>4, <1>5, <1>6, <1>7, <1>8, <1>9, <1>10, <1>11, <1>12, <1>13, <1>14, <1>15, <1>16, <1>17, Zenon
           DEF ConnAct, Open, Edit, Commit, Close, Kill

LEMMA PagerTypeStep == TypeOK /\ LogInv /\ Synchronous = "Full" /\ [Next]_vars => PagerType'
<1> SUFFICES ASSUME TypeOK, LogInv, Synchronous = "Full", [Next]_vars  PROVE  PagerType'
  OBVIOUS
<1>1. PagerType
  BY Zenon DEF TypeOK
<1>2. CASE UNCHANGED vars
  BY <1>1, <1>2, Zenon DEF PagerType, vars, pager, locks
<1>3. ASSUME NEW c \in Conn, ConnAct(c)  PROVE  PagerType'
  BY <1>3, PagerTypeConn, Zenon
<1>4. ASSUME NEW k \in Ckpt, CkptAct(k)  PROVE  PagerType'
  BY <1>1, <1>4, CkptMoves, Zenon DEF PagerType
<1>5. CASE PowerLoss
  <2>1. NoWrites \in Writes /\ 0 \in Nat /\ NoSlot \in 0 .. Slots
    BY WritesFacts, WalAssumption DEF NoSlot
  <2> QED  BY <1>5, <2>1, Zenon DEF PagerType, PowerLoss
<1> QED  BY <1>2, <1>3, <1>4, <1>5, Steps, Zenon

\* A probed slot bounds the pass from above.
LEMMA ProbeFacts ==
  ASSUME ShmType, CkptType, CkptInv, NEW k \in Ckpt, ProbeSlot(k)
  PROVE  \E s \in Slot : /\ s \in todo[k] /\ todo' = [todo EXCEPT ![k] = @ \ {s}]
                         /\ bound' = [bound EXCEPT ![k] = Smaller(@, MarkOf(s))]
                         /\ MarkOf(s) \in Nat /\ Smaller(bound[k], MarkOf(s)) \in Nat
                         /\ Smaller(bound[k], MarkOf(s)) <= bound[k]
                         /\ Smaller(bound[k], MarkOf(s)) <= MarkOf(s)
<1>1. PICK s \in todo[k] : todo' = [todo EXCEPT ![k] = @ \ {s}] /\ bound' = [bound EXCEPT ![k] = Smaller(@, MarkOf(s))]
  BY Zenon DEF ProbeSlot, Least
<1>2. s \in Slot
  BY Zenon DEF ProbeSlot, CkptInv
<1>3. MarkOf(s) \in Nat /\ bound[k] \in Nat
  BY <1>2 DEF MarkOf, ShmType, CkptType, Unused
<1>4. /\ Smaller(bound[k], MarkOf(s)) \in Nat /\ Smaller(bound[k], MarkOf(s)) <= bound[k]
      /\ Smaller(bound[k], MarkOf(s)) <= MarkOf(s)
  BY <1>3 DEF Smaller
<1> QED  BY <1>1, <1>2, <1>3, <1>4, Zenon

LEMMA CkptTypeStep == TypeOK /\ CkptInv /\ [Next]_vars => CkptType'
<1> SUFFICES ASSUME TypeOK, CkptInv, [Next]_vars  PROVE  CkptType'
  OBVIOUS
<1>1. CkptType /\ LogType /\ ShmType
  BY Zenon DEF TypeOK
<1>2. CASE UNCHANGED <<seen, bound, todo>>
  BY <1>1, <1>2, Zenon DEF CkptType
<1>3. ASSUME NEW k \in Ckpt, CkptAct(k)  PROVE  CkptType'
  <2>1. ASSUME CkptRead(k)  PROVE  CkptType'
    <3>1. wal \in Seq(Frames) /\ Len(wal) + junk \in Nat /\ Slot \subseteq Nat
      BY <1>1 DEF LogType, Slot
    <3> QED  BY <1>1, <2>1, <3>1, Zenon DEF CkptType, CkptRead
  <2>2. ASSUME ProbeSlot(k)  PROVE  CkptType'
    <3>1. PICK s \in Slot : /\ todo' = [todo EXCEPT ![k] = @ \ {s}]
                            /\ bound' = [bound EXCEPT ![k] = Smaller(@, MarkOf(s))]
                            /\ Smaller(bound[k], MarkOf(s)) \in Nat
      BY <1>1, <2>2, ProbeFacts, Zenon
    <3> QED  BY <1>1, <2>2, <3>1, Zenon DEF CkptType, ProbeSlot
  <2>3. ASSUME Release(k)  PROVE  CkptType'
    <3>1. << >> \in Seq(Frames) /\ 0 \in Nat /\ {} \in SUBSET Nat
      OBVIOUS
    <3> QED  BY <1>1, <2>3, <3>1, Zenon DEF CkptType, Release
  <2>4. ASSUME Decide(k), ~ Release(k)  PROVE  CkptType'
    <3>1. DOMAIN committed_pages(Prefix(k)) \subseteq Nat
      <4>1. DOMAIN committed_pages(Prefix(k)) \subseteq Pages
        BY <1>1, PrefixOf, CommittedPages, Zenon DEF IsWrites
      <4> QED  BY <4>1, PageOne, Zenon
    <3> QED  BY <1>1, <2>4, <3>1, Zenon DEF CkptType, Decide
  <2>5. ASSUME Backfill(k)  PROVE  CkptType'
    <3>1. PICK p : todo' = [todo EXCEPT ![k] = @ \ {p}]
      BY <2>5, Zenon DEF Backfill
    <3> QED  BY <1>1, <2>5, <3>1, Zenon DEF CkptType, Backfill
  <2>6. ASSUME CkptSync(k)  PROVE  CkptType'
    BY <1>1, <2>6, Zenon DEF CkptType, CkptSync, ckpt
  <2> QED  BY <1>3, <2>1, <2>2, <2>3, <2>4, <2>5, <2>6, Zenon DEF CkptAct, CkptStep, PublishBackfill, KillCkpt
<1>4. CASE PowerLoss
  <2>1. << >> \in Seq(Frames) /\ 0 \in Nat /\ {} \in SUBSET Nat
    OBVIOUS
  <2> QED  BY <1>4, <2>1, Zenon DEF CkptType, PowerLoss
<1> QED  BY <1>2, <1>3, <1>4, Steps, ConnMoves, Zenon DEF vars, ckpt

-----------------------------------------------------------------------------
(* What holds throughout, at PRAGMA synchronous = FULL.                    *)

Base == TypeOK /\ LogInv /\ CkptInv

\* The steps that end inside a flush.
LEMMA FlushSteps ==
  ASSUME PcType, NEW c \in Conn, ConnAct(c), pc'[c] \in Flushing
  PROVE  ClaimWrite(c) \/ OpenWal(c) \/ AppendFrame(c) \/ SyncWal(c) \/ PublishMx(c)
<1>1. "closed" \notin Flushing /\ "mark" \notin Flushing /\ "read" \notin Flushing /\ "ready" \notin Flushing
  BY Zenon DEF Flushing
<1>2. c \in DOMAIN pc
  BY Zenon DEF PcType
<1> QED  BY <1>1, <1>2, Zenon DEF ConnAct, Open, Edit, Commit, ClaimSlot, PublishMark, ReadWal, Close, Kill, Gone,
            FillCache, Mutate, Allocate, Rollback, FoldDirty

\* WAL_WRITE_LOCK: while one connection flushes, no other writes the log.
LEMMA Alone ==
  ASSUME LogInv, NEW c \in Conn, pc[c] \in Flushing, NEW d \in Conn, d # c, ConnAct(d)
  PROVE  UNCHANGED <<wal, junk, synced, mxFrame, writeLock>>
<1>1. writeLock = c /\ writeLock # Free /\ pc[d] \notin Flushing
  BY Disjoint, Zenon DEF LogInv
<1>2. "append" \in Flushing /\ "publish" \in Flushing /\ "fold" \in Flushing
  BY Zenon DEF Flushing
<1> QED  BY <1>1, <1>2, Zenon DEF ConnAct, Open, Edit, Commit, ClaimSlot, PublishMark, ReadWal, Close, Kill, Gone,
            FillCache, Mutate, Allocate, Rollback, ClaimWrite, OpenWal, AppendFrame, SyncWal, PublishMx, FoldDirty,
            log, shm, locks

LEMMA LogInvStep == Base /\ NoTornLoss /\ Synchronous = "Full" /\ [Next]_vars => LogInv'
<1> SUFFICES ASSUME Base, NoTornLoss, Synchronous = "Full", [Next]_vars  PROVE  LogInv'
  OBVIOUS
<1>1. TypeOK /\ LogInv /\ FileType /\ LogType /\ PcType /\ PagerType /\ junk = 0
  BY Zenon DEF Base, TypeOK, LogInv
<1>2. junk' = 0
  BY <1>1, LogTypeStep, Zenon
<1> DEFINE I(c) == /\ pc[c] \in Flushing => writeLock = c /\ DOMAIN dirty[c] # {}
                   /\ pc[c] = "append" => at[c] = Len(wal) /\ left[c] \subseteq DOMAIN dirty[c]
<1>3. "append" \in Flushing /\ "ready" \notin Flushing /\ "closed" \notin Flushing
  BY Zenon DEF Flushing
<1>4. ASSUME NEW c \in Conn, ConnAct(c)  PROVE  I(c)'
  <2> SUFFICES ASSUME pc'[c] \in Flushing  PROVE  I(c)'
    BY <1>3, Zenon
  <2>1. I(c) /\ dirty[c] \in Writes /\ c \in DOMAIN pc /\ c \in DOMAIN at /\ c \in DOMAIN left
    BY <1>1, Zenon DEF LogInv, PagerType, PcType
  <2>2. CASE ClaimWrite(c)
    BY <2>1, <2>2, <1>1, WritesFacts, Zenon DEF ClaimWrite, pager, PcType
  <2>3. CASE OpenWal(c)
    <3>1. ResumeAt(c) = Len(wal)
      BY <1>1 DEF ResumeAt, LogType
    <3>2. at' = [at EXCEPT ![c] = Len(wal)] /\ left' = [left EXCEPT ![c] = DOMAIN dirty[c]]
          /\ UNCHANGED <<wal, dirty, writeLock>> /\ pc[c] = "open"
      BY <2>3, <3>1, Zenon DEF OpenWal, log, locks
    <3>3. pc[c] \in Flushing
      BY <3>2, Zenon DEF Flushing
    <3> QED  BY <2>1, <3>2, <3>3, Zenon
  <2>4. CASE AppendFrame(c)
    <3>1. PICK f \in Frames, p \in left[c] :
            /\ wal' = Append(SubSeq(wal, 1, Len(wal)), f) /\ left' = [left EXCEPT ![c] = @ \ {p}]
            /\ at' = [at EXCEPT ![c] = Len(wal) + 1]
      BY <1>1, <2>4, AppendedFrame, Zenon
    <3>2. Len(wal') = Len(wal) + 1
      BY <1>1, <3>1, AppendFacts, Zenon DEF LogType
    <3>3. UNCHANGED <<dirty, writeLock>> /\ pc[c] = "append"
      BY <2>4, Zenon DEF AppendFrame, locks
    <3> QED  BY <1>3, <2>1, <3>1, <3>2, <3>3, Zenon
  <2>5. CASE SyncWal(c)
    BY <1>3, <2>1, <2>5, Zenon DEF SyncWal, pager, locks
  <2>6. CASE PublishMx(c)
    <3>1. pc[c] \in Flushing
      BY <2>6, Zenon DEF PublishMx, Flushing
    <3> QED  BY <2>1, <2>6, <3>1, Zenon DEF PublishMx, locks
  <2> QED  BY <1>1, <1>4, <2>2, <2>3, <2>4, <2>5, <2>6, FlushSteps, Zenon
<1>5. ASSUME NEW c \in Conn, NEW d \in Conn, ConnAct(d), c # d  PROVE  I(c)'
  <2>1. pc'[c] = pc[c] /\ dirty'[c] = dirty[c] /\ at'[c] = at[c] /\ left'[c] = left[c] /\ I(c)
    BY <1>1, <1>5, Bystanders, Zenon DEF LogInv
  <2>2. pc[c] \in Flushing => UNCHANGED <<wal, writeLock>>
    BY <1>1, <1>5, Alone, Zenon
  <2> QED  BY <1>3, <2>1, <2>2, Zenon
<1>6. ASSUME NEW c \in Conn, NEW k \in Ckpt, CkptAct(k)  PROVE  I(c)'
  <2>1. UNCHANGED <<wal, writeLock, dirty, at, left>> /\ pc'[c] = pc[c] /\ I(c)
    BY <1>1, <1>6, CkptMoves, Disjoint, Zenon DEF LogInv, PcType
  <2> QED  BY <2>1, Zenon
<1>7. ASSUME NEW c \in Conn, PowerLoss  PROVE  I(c)'
  BY <1>3, <1>7, Zenon DEF PowerLoss
<1>8. ASSUME NEW c \in Conn, UNCHANGED vars  PROVE  I(c)'
  BY <1>1, <1>8, Zenon DEF LogInv, vars, log, locks, pager
<1>9. \A c \in Conn : I(c)'
  BY <1>4, <1>5, <1>6, <1>7, <1>8, Steps, Zenon
<1> QED  BY <1>2, <1>9, Zenon DEF LogInv

\* The log only grows, except in a power loss.
LEMMA LogGrows ==
  ASSUME FileType, LogType, PagerType, LogInv, [Next]_vars, ~ PowerLoss
  PROVE  wal' \in Seq(Frames) /\ LogPrefix(wal, wal')
<1>1. ASSUME UNCHANGED wal  PROVE  wal' \in Seq(Frames) /\ LogPrefix(wal, wal')
  BY <1>1 DEF LogPrefix, LogType
<1>2. ASSUME NEW c \in Conn, AppendFrame(c)  PROVE  wal' \in Seq(Frames) /\ LogPrefix(wal, wal')
  BY <1>2, AppendedFrame, AppendFacts, Zenon DEF LogType
<1> QED  BY <1>1, <1>2, LogWriters, Zenon DEF log, SyncWal

LEMMA LogPrefixTransitive ==
  ASSUME NEW u \in Seq(Frames), NEW v \in Seq(Frames), NEW w \in Seq(Frames), LogPrefix(u, v), LogPrefix(v, w)
  PROVE  LogPrefix(u, w)
<1>1. Len(u) \in Nat /\ Len(v) \in Nat /\ Len(w) \in Nat
  OBVIOUS
<1> QED  BY <1>1 DEF LogPrefix

\* WAL_CKPT_LOCK: one pass at a time.
LEMMA OnePass ==
  ASSUME CkptInv, NEW k \in Ckpt, pc[k] # "idle", NEW j \in Ckpt, CkptAct(j)
  PROVE  j = k
<1>1. ckptLock = k
  BY Zenon DEF CkptInv
<1>2. pc[j] # "idle" \/ ckptLock = Free
  BY Zenon DEF CkptAct, CkptStep, CkptRead, ProbeSlot, Decide, Backfill, CkptSync, PublishBackfill, KillCkpt
<1>3. k # Free
  BY WalAssumption, Zenon DEF Free
<1> QED  BY <1>1, <1>2, <1>3, Zenon DEF CkptInv

LEMMA CkptInvStep == Base /\ [Next]_vars => CkptInv'
<1> SUFFICES ASSUME Base, [Next]_vars  PROVE  CkptInv'
  OBVIOUS
<1>1. TypeOK /\ LogInv /\ CkptInv /\ FileType /\ LogType /\ ShmType /\ PcType /\ PagerType /\ CkptType /\ junk = 0
  BY Zenon DEF Base, TypeOK, LogInv
<1> DEFINE L(k) == ckptLock = k /\ LogPrefix(seen[k], wal) /\ bound[k] <= Len(seen[k])
           I(k) == /\ pc[k] # "idle" => L(k)
                   /\ pc[k] = "probe" => todo[k] \subseteq Slot
                   /\ pc[k] = "backfill" => todo[k] \subseteq DOMAIN committed_pages(Prefix(k))
<1>2. \A k \in Ckpt : I(k) /\ k \in DOMAIN pc /\ k \in DOMAIN seen /\ k \in DOMAIN bound /\ k \in DOMAIN todo
  BY <1>1, Zenon DEF CkptInv, PcType, CkptType
<1>3. ASSUME NEW k \in Ckpt, NEW c \in Conn, ConnAct(c)  PROVE  I(k)'
  <2>1. UNCHANGED <<ckptLock, seen, bound, todo>> /\ pc'[k] = pc[k]
    BY <1>1, <1>3, ConnMoves, Disjoint, Zenon DEF PcType
  <2>2. LogPrefix(seen[k], wal) => LogPrefix(seen[k], wal')
    <3>1. LogPrefix(wal, wal') /\ wal' \in Seq(Frames)
      <4>1. UNCHANGED wal => wal' \in Seq(Frames) /\ LogPrefix(wal, wal')
        BY <1>1 DEF LogPrefix, LogType
      <4>2. ASSUME AppendFrame(c)  PROVE  wal' \in Seq(Frames) /\ LogPrefix(wal, wal')
        BY <1>1, <4>2, AppendedFrame, AppendFacts, Zenon DEF LogType
      <4> QED  BY <1>3, <4>1, <4>2, Zenon DEF ConnAct, Open, Edit, Commit, ClaimSlot, PublishMark, ReadWal, Close,
                 Kill, Gone, FillCache, Mutate, Allocate, Rollback, ClaimWrite, OpenWal, SyncWal, PublishMx,
                 FoldDirty, log
    <3>2. seen[k] \in Seq(Frames) /\ wal \in Seq(Frames)
      BY <1>1, Zenon DEF CkptType, LogType
    <3> QED  BY <3>1, <3>2, LogPrefixTransitive, Zenon
  <2>3. Prefix(k)' = Prefix(k)
    BY <2>1, Zenon DEF Prefix
  <2> QED  BY <1>2, <2>1, <2>2, <2>3, Zenon
<1>4. ASSUME NEW k \in Ckpt, NEW j \in Ckpt, CkptAct(j), j # k  PROVE  I(k)'
  <2>1. pc'[k] = pc[k]
    BY <1>1, <1>4, CkptMoves, Zenon DEF PcType
  <2>2. pc[k] = "idle"
    BY <1>1, <1>4, OnePass, Zenon
  <2> QED  BY <2>1, <2>2, Zenon
<1>5. ASSUME NEW k \in Ckpt, CkptAct(k)  PROVE  I(k)'
  <2>1. ASSUME CkptRead(k)  PROVE  I(k)'
    <3>1. /\ seen'[k] = wal /\ bound'[k] = Len(wal) + junk /\ todo'[k] = Slot /\ pc'[k] = "probe" /\ ckptLock' = k
          /\ wal' = wal
      BY <1>2, <2>1, Zenon DEF CkptRead, log
    <3>2. LogPrefix(wal, wal) /\ Len(wal) + junk <= Len(wal)
      BY <1>1 DEF LogPrefix, LogType
    <3> QED  BY <3>1, <3>2, Zenon
  <2>2. ASSUME ProbeSlot(k)  PROVE  I(k)'
    <3>1. PICK s \in Slot : /\ todo' = [todo EXCEPT ![k] = @ \ {s}]
                            /\ bound' = [bound EXCEPT ![k] = Smaller(@, MarkOf(s))]
                            /\ Smaller(bound[k], MarkOf(s)) \in Nat
                            /\ Smaller(bound[k], MarkOf(s)) <= bound[k]
      BY <1>1, <2>2, ProbeFacts, Zenon
    <3>2. UNCHANGED <<wal, ckptLock, pc, seen>> /\ pc[k] = "probe"
      BY <2>2, Zenon DEF ProbeSlot, log, locks
    <3>3. bound'[k] <= Len(seen[k])
      <4>1. bound[k] \in Nat /\ Len(seen[k]) \in Nat /\ bound[k] <= Len(seen[k])
        BY <1>1, <1>2, <3>2 DEF CkptType
      <4> QED  BY <1>2, <3>1, <4>1
    <3> QED  BY <1>2, <3>1, <3>2, <3>3, Zenon
  <2>3. ASSUME Release(k)  PROVE  I(k)'
    BY <1>2, <2>3, Zenon DEF Release
  <2>4. ASSUME Decide(k), ~ Release(k)  PROVE  I(k)'
    <3>1. /\ UNCHANGED <<wal, ckptLock, seen, bound>> /\ pc[k] = "probe" /\ pc'[k] = "backfill"
          /\ todo'[k] \subseteq DOMAIN committed_pages(Prefix(k))
      BY <1>2, <2>4, Zenon DEF Decide, log, locks
    <3>2. Prefix(k)' = Prefix(k)
      BY <3>1, Zenon DEF Prefix
    <3> QED  BY <1>2, <3>1, <3>2, Zenon
  <2>5. ASSUME Backfill(k)  PROVE  I(k)'
    <3>1. /\ UNCHANGED <<wal, ckptLock, seen, bound, pc>> /\ pc[k] = "backfill" /\ todo'[k] \subseteq todo[k]
      BY <1>2, <2>5, Zenon DEF Backfill, log, locks
    <3>2. Prefix(k)' = Prefix(k)
      BY <3>1, Zenon DEF Prefix
    <3> QED  BY <1>2, <3>1, <3>2, Zenon
  <2>6. ASSUME CkptSync(k)  PROVE  I(k)'
    BY <1>2, <2>6, Zenon DEF CkptSync, log, locks, ckpt
  <2> QED  BY <1>5, <2>1, <2>2, <2>3, <2>4, <2>5, <2>6, Zenon DEF CkptAct, CkptStep, PublishBackfill, KillCkpt
<1>6. ASSUME NEW k \in Ckpt, PowerLoss  PROVE  I(k)'
  BY <1>6, Disjoint, Zenon DEF PowerLoss
<1>7. ASSUME NEW k \in Ckpt, UNCHANGED vars  PROVE  I(k)'
  <2>1. UNCHANGED <<pc, ckptLock, seen, bound, todo, wal>>
    BY <1>7, Zenon DEF vars, log, locks, ckpt
  <2>2. Prefix(k)' = Prefix(k)
    BY <2>1, Zenon DEF Prefix
  <2> QED  BY <1>2, <2>1, <2>2, Zenon
<1>8. \A k \in Ckpt : I(k)'
  BY <1>3, <1>4, <1>5, <1>6, <1>7, Steps, Zenon
<1> QED  BY <1>8, Zenon DEF CkptInv

LEMMA BaseStep == Base /\ NoTornLoss /\ Synchronous = "Full" /\ [Next]_vars => Base'
BY FileTypeStep, LogTypeStep, ShmTypeStep, PcTypeStep, PagerTypeStep, CkptTypeStep, LogInvStep, CkptInvStep, Zenon
   DEF Base, TypeOK

\* A database of two pages, with or without a log.
LEMMA BaseInit == Init => Base
<1> SUFFICES ASSUME Init  PROVE  Base
  OBVIOUS
<1>1. FileType
  <2>1. main = NewMain /\ mainDisk = [p \in Pages |-> {main[p]}] /\ NewMain \in [Pages -> Nat] /\ NewMain[1] = 2
    BY PageOne DEF Init, NewMain, Absent
  <2> QED  BY <2>1, PageOne DEF FileType
<1>2. LogType
  <2>1. Frame(1, 2, 2, 0) \in Frames
    BY PageOne DEF Frame, Frames, IsValue
  <2> QED  BY <2>1, WalAssumption DEF LogType, Init
<1>3. ShmType
  BY WalAssumption DEF ShmType, Init, Unused
<1>4. PcType
  <2>1. "closed" \in ConnSteps /\ "idle" \in CkptSteps
    BY Zenon DEF ConnSteps, CkptSteps
  <2> QED  BY <2>1, Disjoint, Zenon DEF PcType, Init
<1>5. PagerType
  <2>1. NoWrites \in Writes /\ 0 \in Nat /\ NoSlot \in 0 .. Slots
    BY WritesFacts, WalAssumption DEF NoSlot
  <2> QED  BY <2>1, Zenon DEF PagerType, Init
<1>6. CkptType
  <2>1. << >> \in Seq(Frames) /\ 0 \in Nat /\ {} \in SUBSET Nat
    OBVIOUS
  <2> QED  BY <2>1, Zenon DEF CkptType, Init
<1>7. LogInv /\ CkptInv
  BY Disjoint, Zenon DEF LogInv, CkptInv, Init, Flushing
<1> QED  BY <1>1, <1>2, <1>3, <1>4, <1>5, <1>6, <1>7, Zenon DEF Base, TypeOK

\* Below synchronous = FULL nothing is ever appended.
NoAppend == wal \in Seq(Frames) /\ PcType /\ \A c \in Conn : pc[c] # "append"

LEMMA NoAppendStep ==
  NoAppend /\ Synchronous # "Full" /\ "power" \notin Faults /\ [Next]_vars => NoAppend' /\ UNCHANGED wal
<1> SUFFICES ASSUME NoAppend, Synchronous # "Full", "power" \notin Faults, [Next]_vars  PROVE  NoAppend' /\ UNCHANGED wal
  OBVIOUS
<1>1. UNCHANGED wal /\ PcType /\ PcType' /\ ~ PowerLoss
  BY LogWriters, PcTypeStep, Zenon DEF NoAppend, log, AppendFrame, SyncWal, PowerLoss
<1>2. ASSUME NEW c \in Conn, NEW d \in Conn, ConnAct(d)  PROVE  pc'[c] # "append"
  BY <1>1, <1>2, Zenon DEF NoAppend, PcType, ConnAct, Open, Edit, Commit, ClaimSlot, PublishMark, ReadWal, Close,
     Kill, Gone, FillCache, Mutate, Allocate, Rollback, ClaimWrite, OpenWal, AppendFrame, SyncWal, PublishMx, FoldDirty
<1>3. ASSUME NEW c \in Conn, NEW k \in Ckpt, CkptAct(k)  PROVE  pc'[c] # "append"
  BY <1>1, <1>3, CkptMoves, Disjoint, Zenon DEF NoAppend, PcType
<1>4. \A c \in Conn : pc'[c] # "append"
  BY <1>1, <1>2, <1>3, Steps, Zenon DEF NoAppend, vars
<1> QED  BY <1>1, <1>4, Zenon DEF NoAppend

\* A longer log has the same frames where the shorter one ends.
LEMMA SamePrefix ==
  ASSUME NEW v \in Seq(Frames), NEW w \in Seq(Frames), LogPrefix(v, w)
  PROVE  Len(w) >= CommittedLen(v) /\ SubSeq(w, 1, CommittedLen(v)) = SubSeq(v, 1, CommittedLen(v))
<1>1. PICK n \in Nat : n = CommittedLen(v) /\ n <= Len(v)
  BY CommittedLenFacts, Zenon
<1>2. Len(v) \in Nat /\ Len(w) \in Nat /\ Len(v) <= Len(w) /\ \A i \in 1 .. Len(v) : v[i] = w[i]
  BY DEF LogPrefix
<1>3. Len(w) >= n
  BY <1>1, <1>2
<1>4. SubSeq(w, 1, n) = SubSeq(v, 1, n)
  BY <1>1, <1>2, <1>3
<1> QED  BY <1>1, <1>3, <1>4, Zenon

\* LogOnlyGrows, for any number of connections and checkpoints killed at any
\* place: a flush, which starts at the offset of its resume hint or of
\* last_valid_frame_state, never overwrites a committed frame of anyone.
THEOREM WalGrows == "power" \notin Faults => (Spec => LogOnlyGrows)
<1> SUFFICES ASSUME "power" \notin Faults  PROVE  Spec => LogOnlyGrows
  OBVIOUS
<1> DEFINE G == LET n == CommittedLen(wal) IN Len(wal') >= n /\ SubSeq(wal', 1, n) = SubSeq(wal, 1, n)
<1>1. NoTornLoss /\ ~ PowerLoss
  BY Zenon DEF NoTornLoss, PowerLoss
<1>2. ASSUME wal \in Seq(Frames), wal' \in Seq(Frames), LogPrefix(wal, wal')  PROVE  G
  BY <1>2, SamePrefix, Zenon
<1>3. ASSUME Synchronous = "Full"  PROVE  Spec => LogOnlyGrows
  <2>1. Init => Base
    BY BaseInit
  <2>2. Base /\ [Next]_vars => Base' /\ G
    <3>1. ASSUME Base, [Next]_vars  PROVE  Base' /\ G
      <4>1. Base' /\ wal \in Seq(Frames) /\ FileType /\ LogType /\ PagerType /\ LogInv
        BY <1>1, <1>3, <3>1, BaseStep, Zenon DEF Base, TypeOK, LogType
      <4>2. wal' \in Seq(Frames) /\ LogPrefix(wal, wal')
        BY <1>1, <3>1, <4>1, LogGrows, Zenon
      <4> QED  BY <1>2, <4>1, <4>2, Zenon
    <3> QED  BY <3>1
  <2> QED  BY <2>1, <2>2, PTL DEF Spec, LogOnlyGrows
<1>4. ASSUME Synchronous # "Full"  PROVE  Spec => LogOnlyGrows
  <2>1. Init => NoAppend
    <3>1. ASSUME Init  PROVE  NoAppend
      <4>1. wal \in Seq(Frames) /\ PcType
        BY <3>1, BaseInit, Zenon DEF Base, TypeOK, LogType
      <4> QED  BY <3>1, <4>1, Zenon DEF NoAppend, Init
    <3> QED  BY <3>1
  <2>2. NoAppend /\ [Next]_vars => NoAppend' /\ G
    <3>1. ASSUME NoAppend, [Next]_vars  PROVE  NoAppend' /\ G
      <4>1. NoAppend' /\ wal' = wal /\ wal \in Seq(Frames)
        BY <1>4, <3>1, NoAppendStep, Zenon DEF NoAppend
      <4>2. LogPrefix(wal, wal)
        BY <4>1 DEF LogPrefix
      <4> QED  BY <1>2, <4>1, <4>2, Zenon
    <3> QED  BY <3>1
  <2> QED  BY <2>1, <2>2, PTL DEF Spec, LogOnlyGrows
<1> QED  BY <1>3, <1>4, Zenon

-----------------------------------------------------------------------------
(* A commit is complete once its last frame is in the file.                *)

Appended(c) == pc[c] \in {"publish", "fold"} \/ (pc[c] = "append" /\ left[c] = {})

DoneInv ==
  \A c \in Conn :
    /\ Appended(c) => Len(wal) > 0 /\ CommittedLen(wal) = Len(wal)
    /\ pc[c] \in {"publish", "fold"} => at[c] = Len(wal)

\* The last frame of a transaction has a size, the others have none.
LEMMA LastFrameCommits ==
  ASSUME FileType, LogType, PagerType, LogInv, NEW c \in Conn, AppendFrame(c)
  PROVE  /\ Len(wal') = Len(wal) + 1 /\ Len(wal) \in Nat
         /\ left'[c] = {} => CommittedLen(wal') = Len(wal')
         /\ left'[c] # {} => CommittedLen(wal') = CommittedLen(wal)
<1>1. PICK p \in left[c] :
        /\ Frame(p, dirty[c][p], CommitSize(c, p), Tx(c)) \in Frames
        /\ wal' = Append(SubSeq(wal, 1, Len(wal)), Frame(p, dirty[c][p], CommitSize(c, p), Tx(c)))
        /\ left' = [left EXCEPT ![c] = @ \ {p}]
  BY AppendedFrame, Zenon
<1>2. PICK f \in Frames : f = Frame(p, dirty[c][p], CommitSize(c, p), Tx(c)) /\ f.db_size = CommitSize(c, p)
  BY <1>1, Zenon DEF Frame
<1>3. /\ Len(wal') = Len(wal) + 1
      /\ CommittedLen(wal') = IF f.db_size > 0 THEN Len(wal) + 1 ELSE CommittedLen(wal)
  <2>1. wal \in Seq(Frames) /\ wal' = Append(SubSeq(wal, 1, Len(wal)), f)
    BY <1>1, <1>2, Zenon DEF LogType
  <2> QED  BY <2>1, AppendFacts, Zenon
<1>4. left'[c] = left[c] \ {p}
  BY <1>1, Zenon DEF PagerType
<1>5. left'[c] = {} <=> left[c] = {p}
  BY <1>4, Zenon
<1>6. ReadPage(c, 1) > 0
  BY ReadPageFacts, PageOne
<1>7. Len(wal) \in Nat
  BY DEF LogType
<1> QED  BY <1>2, <1>3, <1>5, <1>6, <1>7 DEF CommitSize

LEMMA DoneStep == Base /\ DoneInv /\ Synchronous = "Full" /\ [Next]_vars => DoneInv'
<1> SUFFICES ASSUME Base, DoneInv, Synchronous = "Full", [Next]_vars  PROVE  DoneInv'
  OBVIOUS
<1>1. FileType /\ LogType /\ PcType /\ PagerType /\ LogInv
  BY Zenon DEF Base, TypeOK
<1> DEFINE I(c) == /\ Appended(c) => Len(wal) > 0 /\ CommittedLen(wal) = Len(wal)
                   /\ pc[c] \in {"publish", "fold"} => at[c] = Len(wal)
<1>2. \A c \in Conn : I(c)
  BY Zenon DEF DoneInv
<1>3. ASSUME NEW c \in Conn, Appended(c) \/ pc[c] \in {"publish", "fold"}  PROVE  pc[c] \in Flushing
  BY <1>3, Zenon DEF Appended, Flushing
<1>4. ASSUME NEW c \in Conn, ConnAct(c)  PROVE  I(c)'
  <2>1. SUFFICES ASSUME pc'[c] \in Flushing  PROVE  I(c)'
    BY Zenon DEF Appended, Flushing
  <2>2. c \in DOMAIN pc /\ c \in DOMAIN left
    BY <1>1, Zenon DEF PcType, PagerType
  <2>3. CASE ClaimWrite(c)
    BY <2>2, <2>3, Zenon DEF Appended, ClaimWrite
  <2>4. CASE OpenWal(c)
    <3>1. pc'[c] = "append" /\ left'[c] = DOMAIN dirty[c] /\ pc[c] = "open" /\ pc[c] \in Flushing
      BY <2>2, <2>4, Zenon DEF OpenWal, Flushing
    <3>2. left'[c] # {}
      BY <1>1, <3>1, Zenon DEF LogInv
    <3> QED  BY <3>1, <3>2, Zenon DEF Appended
  <2>5. CASE AppendFrame(c)
    <3>1. pc'[c] = "append"
      BY <2>5, Zenon DEF AppendFrame
    <3>2. Len(wal') > 0 /\ (left'[c] = {} => CommittedLen(wal') = Len(wal'))
      BY <1>1, <2>5, LastFrameCommits
    <3> QED  BY <3>1, <3>2, Zenon DEF Appended
  <2>6. CASE SyncWal(c)
    <3>1. pc[c] = "append" /\ left[c] = {} /\ UNCHANGED <<wal, at>>
      BY <2>6, Zenon DEF SyncWal, pager
    <3>2. at[c] = Len(wal) /\ Appended(c)
      BY <1>1, <3>1, Zenon DEF LogInv, Appended
    <3> QED  BY <1>2, <3>1, <3>2, Zenon
  <2>7. CASE PublishMx(c)
    <3>1. pc[c] = "publish" /\ UNCHANGED <<wal, at>>
      BY <2>7, Zenon DEF PublishMx, log
    <3>2. Appended(c) /\ pc[c] \in {"publish", "fold"}
      BY <3>1, Zenon DEF Appended
    <3> QED  BY <1>2, <3>1, <3>2, Zenon
  <2> QED  BY <1>1, <1>4, <2>1, <2>3, <2>4, <2>5, <2>6, <2>7, FlushSteps, Zenon
<1>5. ASSUME NEW c \in Conn, NEW d \in Conn, ConnAct(d), c # d  PROVE  I(c)'
  <2>1. pc'[c] = pc[c] /\ at'[c] = at[c] /\ left'[c] = left[c]
    BY <1>1, <1>5, Bystanders, Zenon
  <2>2. pc[c] \in Flushing => UNCHANGED wal
    BY <1>1, <1>5, Alone, Zenon
  <2> QED  BY <1>2, <1>3, <2>1, <2>2, Zenon DEF Appended
<1>6. ASSUME NEW c \in Conn, NEW k \in Ckpt, CkptAct(k)  PROVE  I(c)'
  <2>1. UNCHANGED <<wal, at, left>> /\ pc'[c] = pc[c]
    BY <1>1, <1>6, CkptMoves, Disjoint, Zenon DEF PcType
  <2> QED  BY <1>2, <2>1, Zenon DEF Appended
<1>7. ASSUME NEW c \in Conn, PowerLoss  PROVE  I(c)'
  BY <1>7, Zenon DEF PowerLoss, Appended
<1>8. ASSUME NEW c \in Conn, UNCHANGED vars  PROVE  I(c)'
  BY <1>2, <1>8, Zenon DEF Appended, vars, log, pager
<1>9. \A c \in Conn : I(c)'
  BY <1>4, <1>5, <1>6, <1>7, <1>8, Steps, Zenon
<1> QED  BY <1>9, Zenon DEF DoneInv

-----------------------------------------------------------------------------
(* Readers and checkpoints, without power loss, over a log that has been   *)
(* written: a mark of 0 would not be seen by active_reader_marks.          *)

MxInv == 1 <= mxFrame /\ mxFrame <= CommittedLen(wal)

Live(c) == pc[c] \notin {"closed", "mark", "read"}

\* A connection holds its slot, and its snapshot has every page of the log up
\* to its mark.
SlotInv ==
  \A c \in Conn :
    /\ pc[c] # "closed" => slot[c] \in Slot /\ slotLock[slot[c]] = c
    /\ pc[c] = "read" \/ Live(c) => 1 <= mark[slot[c]] /\ mark[slot[c]] <= CommittedLen(wal)
    /\ Live(c) => \A i \in 1 .. mark[slot[c]] : wal[i].page \in DOMAIN overlay[c]
    /\ ~ Live(c) => DOMAIN overlay[c] = {} /\ DOMAIN cache[c] = {} /\ DOMAIN dirty[c] = {}

\* What a pass will copy no connection reads from the database file, once the
\* pass has probed its slot.
Covered(k, c) == DOMAIN committed_pages(Prefix(k)) \subseteq DOMAIN overlay[c]
CoverInv ==
  \A c \in Conn, k \in Ckpt : Live(c) =>
    /\ pc[k] = "probe" => slot[c] \in todo[k] \/ Covered(k, c)
    /\ pc[k] = "backfill" => Covered(k, c)

\* The snapshot, and how a transaction makes the file longer.
ImageInv ==
  \A c \in Conn : Live(c) =>
    /\ DOMAIN snap[c] = Pages /\ snap[c][1] \in Pages
    /\ \A p \in DOMAIN cache[c] \ DOMAIN overlay[c] : cache[c][p] = main[p]
    /\ \A p \in 1 .. snap[c][1] : Overlay(main, overlay[c])[p] = snap[c][p]
    /\ 1 \in DOMAIN dirty[c] =>
         /\ dirty[c][1] \in Pages /\ snap[c][1] <= dirty[c][1]
         /\ \A p \in snap[c][1] + 1 .. dirty[c][1] : p \in DOMAIN dirty[c]

LEMMA MxStep ==
  Base /\ DoneInv /\ MxInv /\ "power" \notin Faults /\ [Next]_vars => MxInv'
<1> SUFFICES ASSUME Base, DoneInv, MxInv, "power" \notin Faults, [Next]_vars  PROVE  MxInv'
  OBVIOUS
<1>1. FileType /\ LogType /\ ShmType /\ PagerType /\ LogInv /\ ~ PowerLoss
  BY Zenon DEF Base, TypeOK, PowerLoss
<1>2. CommittedLen(wal) <= CommittedLen(wal') /\ CommittedLen(wal) \in Nat /\ CommittedLen(wal') \in Nat
  BY <1>1, LogGrows, PrefixFacts, CommittedLenFacts DEF LogType
<1>3. CASE mxFrame' = mxFrame
  BY <1>1, <1>2, <1>3 DEF MxInv, ShmType
<1>4. ASSUME NEW c \in Conn, PublishMx(c)  PROVE  MxInv'
  <2>1. mxFrame' = at[c] /\ wal' = wal /\ pc[c] = "publish"
    BY <1>4, Zenon DEF PublishMx, log
  <2>2. at[c] = Len(wal) /\ Len(wal) > 0 /\ CommittedLen(wal) = Len(wal)
    BY <2>1, Zenon DEF DoneInv, Appended
  <2> QED  BY <1>2, <2>1, <2>2 DEF MxInv
<1> QED  BY <1>1, <1>3, <1>4, ShmWriters, Zenon DEF shm, PublishMark, PublishBackfill

\* The steps after which a connection has a snapshot.
LEMMA LiveSteps ==
  ASSUME PcType, PagerType, NEW c \in Conn, ConnAct(c), Live(c)'
  PROVE  \/ ReadWal(c)
         \/ /\ Live(c) /\ UNCHANGED <<slot, slotLock, mark>>
            /\ DOMAIN overlay[c] \subseteq DOMAIN overlay'[c]
<1>1. c \in DOMAIN pc /\ c \in DOMAIN overlay
  BY Zenon DEF PcType, PagerType
<1>2. ASSUME FoldDirty(c)  PROVE  DOMAIN overlay[c] \subseteq DOMAIN overlay'[c]
  <2>1. overlay'[c] = Overlay(overlay[c], dirty[c])
    BY <1>1, <1>2, Zenon DEF FoldDirty
  <2>2. DOMAIN Overlay(overlay[c], dirty[c]) = DOMAIN overlay[c] \union DOMAIN dirty[c]
    BY OverlayFacts, Zenon
  <2> QED  BY <2>1, <2>2, Zenon
<1>3. ~ (ClaimSlot(c) \/ PublishMark(c) \/ Gone(c))
  BY <1>1, Zenon DEF ClaimSlot, PublishMark, Gone, Live
<1>4. ASSUME Edit(c) \/ Commit(c)  PROVE  Live(c) /\ UNCHANGED <<slot, slotLock, mark>>
  BY <1>1, <1>4, Zenon DEF Edit, Commit, FillCache, Mutate, Allocate, Rollback, ClaimWrite, OpenWal, AppendFrame,
     SyncWal, PublishMx, FoldDirty, Live, pager, locks, shm
<1>5. ASSUME Edit(c) \/ Commit(c), ~ FoldDirty(c)  PROVE  overlay' = overlay
  BY <1>5, Zenon DEF Edit, Commit, FillCache, Mutate, Allocate, Rollback, ClaimWrite, OpenWal, AppendFrame,
     SyncWal, PublishMx, pager
<1> QED  BY <1>2, <1>3, <1>4, <1>5, Zenon DEF ConnAct, Open, Close, Kill

\* A slot is its holder's: others do not take it, nor write its mark.
LEMMA SlotKept ==
  ASSUME PcType, PagerType, ShmType, SlotInv, NEW c \in Conn, pc[c] # "closed", NEW d \in Conn, d # c, ConnAct(d)
  PROVE  slotLock'[slot[c]] = c /\ mark'[slot[c]] = mark[slot[c]]
<1>1. slot[c] \in Slot /\ slotLock[slot[c]] = c /\ c # Free
  BY Disjoint, Zenon DEF SlotInv
<1>2. ASSUME ClaimSlot(d)  PROVE  slotLock'[slot[c]] = c
  BY <1>1, <1>2, Zenon DEF ClaimSlot, FreeSlots, PagerType
<1>3. ASSUME Gone(d)  PROVE  slotLock'[slot[c]] = c
  BY <1>1, <1>3, Zenon DEF Gone
<1>4. ASSUME PublishMark(d)  PROVE  mark'[slot[c]] = mark[slot[c]]
  <2>1. slotLock[slot[d]] = d
    BY <1>4, Zenon DEF PublishMark, SlotInv
  <2> QED  BY <1>1, <1>4, <2>1, Zenon DEF PublishMark, ShmType
<1>5. ClaimSlot(d) \/ Gone(d) \/ UNCHANGED slotLock
  BY Zenon DEF ConnAct, Open, Edit, Commit, Close, Kill, PublishMark, ReadWal, FillCache, Mutate, Allocate, Rollback,
     ClaimWrite, OpenWal, AppendFrame, SyncWal, PublishMx, FoldDirty, locks
<1>6. PublishMark(d) \/ UNCHANGED mark
  BY Zenon DEF ConnAct, Open, Edit, Commit, Close, Kill, ClaimSlot, Gone, ReadWal, FillCache, Mutate, Allocate,
     Rollback, ClaimWrite, OpenWal, AppendFrame, SyncWal, PublishMx, FoldDirty, shm
<1> QED  BY <1>1, <1>2, <1>3, <1>4, <1>5, <1>6, Zenon

LEMMA SlotStep ==
  Base /\ DoneInv /\ MxInv /\ SlotInv /\ "power" \notin Faults /\ [Next]_vars => SlotInv'
<1> SUFFICES ASSUME Base, MxInv, SlotInv, "power" \notin Faults, [Next]_vars  PROVE  SlotInv'
  OBVIOUS
<1>1. FileType /\ LogType /\ ShmType /\ PcType /\ PagerType /\ LogInv /\ ~ PowerLoss
  BY Zenon DEF Base, TypeOK, PowerLoss
<1>2. /\ CommittedLen(wal) <= CommittedLen(wal') /\ CommittedLen(wal) \in Nat /\ CommittedLen(wal') \in Nat
      /\ CommittedLen(wal) <= Len(wal)
  BY <1>1, LogGrows, PrefixFacts, CommittedLenFacts DEF LogType
<1>3. \A i \in 1 .. Len(wal) : wal'[i] = wal[i]
  BY <1>1, LogGrows, Zenon DEF LogPrefix
<1>4. \A s \in Slot : mark[s] \in Nat
  BY <1>1, Zenon DEF ShmType
<1> DEFINE A(c) == slot[c] \in Slot /\ slotLock[slot[c]] = c
           B(c) == 1 <= mark[slot[c]] /\ mark[slot[c]] <= CommittedLen(wal)
           C(c) == \A i \in 1 .. mark[slot[c]] : wal[i].page \in DOMAIN overlay[c]
           D(c) == DOMAIN overlay[c] = {} /\ DOMAIN cache[c] = {} /\ DOMAIN dirty[c] = {}
           I(c) == /\ pc[c] # "closed" => A(c)
                   /\ pc[c] = "read" \/ Live(c) => B(c)
                   /\ Live(c) => C(c)
                   /\ ~ Live(c) => D(c)
<1>5. \A c \in Conn : I(c)
  BY Zenon DEF SlotInv
\* As long as the slot and its mark stay, the log and the overlay may grow.
<1>6. ASSUME NEW c \in Conn, A(c), B(c), slot'[c] = slot[c], mark'[slot[c]] = mark[slot[c]]
      PROVE  B(c)'
  BY <1>2, <1>4, <1>6
<1>7. ASSUME NEW c \in Conn, A(c), B(c), C(c), slot'[c] = slot[c], mark'[slot[c]] = mark[slot[c]],
             DOMAIN overlay[c] \subseteq DOMAIN overlay'[c]
      PROVE  C(c)'
  <2>1. \A i \in 1 .. mark[slot[c]] : i \in 1 .. Len(wal)
    BY <1>1, <1>2, <1>4, <1>7 DEF LogType
  <2> QED  BY <1>3, <1>7, <2>1, Zenon
<1> HIDE DEF B, C
<1>8. ASSUME NEW c \in Conn, ConnAct(c)  PROVE  I(c)'
  <2>1. c \in DOMAIN pc /\ c \in DOMAIN slot /\ c \in DOMAIN overlay /\ c \in DOMAIN cache /\ c \in DOMAIN dirty
    BY <1>1, Zenon DEF PcType, PagerType
  <2>2. ASSUME ClaimSlot(c)  PROVE  I(c)'
    <3>1. pc[c] = "closed" /\ pc'[c] = "mark" /\ UNCHANGED <<overlay, cache, dirty>>
      BY <2>1, <2>2, Zenon DEF ClaimSlot
    <3>2. A(c)'
      BY <1>1, <2>1, <2>2, Zenon DEF ClaimSlot, FreeSlots, PagerType
    <3> QED  BY <1>5, <3>1, <3>2, Zenon DEF Live
  <2>3. ASSUME PublishMark(c)  PROVE  I(c)'
    <3>1. /\ pc[c] = "mark" /\ pc'[c] = "read" /\ UNCHANGED <<slot, slotLock, overlay, cache, dirty, wal>>
          /\ mark' = [mark EXCEPT ![slot[c]] = mxFrame]
      BY <2>1, <2>3, Zenon DEF PublishMark, pager, locks, log
    <3>2. A(c) /\ mark'[slot[c]] = mxFrame
      BY <1>1, <1>5, <3>1, Zenon DEF ShmType
    <3>3. B(c)'
      BY <3>1, <3>2, Zenon DEF MxInv, B
    <3> QED  BY <1>5, <3>1, <3>2, <3>3, Zenon DEF Live
  <2>4. ASSUME ReadWal(c)  PROVE  I(c)'
    <3>1. /\ pc[c] = "read" /\ pc'[c] = "ready" /\ UNCHANGED <<slot, slotLock, mark, wal>>
          /\ overlay'[c] = committed_pages(wal)
      BY <2>1, <2>4, Zenon DEF ReadWal, locks, log, shm
    <3>2. A(c) /\ B(c)
      BY <1>5, <3>1, Zenon
    <3>3. B(c)'
      BY <1>6, <3>1, <3>2, Zenon
    <3>4. C(c)'
      <4>1. DOMAIN committed_pages(wal) = {wal[i].page : i \in 1 .. CommittedLen(wal)}
        BY <1>1, CommittedPages, Zenon DEF LogType
      <4>2. \A i \in 1 .. mark[slot[c]] : i \in 1 .. CommittedLen(wal)
        BY <1>2, <1>4, <3>2 DEF B
      <4> QED  BY <3>1, <4>1, <4>2, Zenon DEF C
    <3> QED  BY <3>1, <3>2, <3>3, <3>4, Zenon DEF Live
  <2>5. ASSUME Gone(c)  PROVE  I(c)'
    BY <2>1, <2>5, WritesFacts, Zenon DEF Gone, Live
  <2>6. ASSUME Live(c)', ~ ReadWal(c)  PROVE  I(c)'
    <3>1. Live(c) /\ UNCHANGED <<slot, slotLock, mark>> /\ DOMAIN overlay[c] \subseteq DOMAIN overlay'[c]
      BY <1>1, <1>8, <2>6, LiveSteps, Zenon
    <3>2. A(c) /\ B(c) /\ C(c)
      BY <1>5, <3>1, Zenon DEF Live
    <3> QED  BY <1>6, <1>7, <2>6, <3>1, <3>2, Zenon
  <2>7. ASSUME Edit(c) \/ Commit(c)  PROVE  Live(c)'
    BY <2>1, <2>7, Zenon DEF Edit, Commit, FillCache, Mutate, Allocate, Rollback, ClaimWrite, OpenWal, AppendFrame,
       SyncWal, PublishMx, FoldDirty, Live
  <2> QED  BY <1>8, <2>2, <2>3, <2>4, <2>5, <2>6, <2>7, Zenon DEF ConnAct, Open, Close, Kill
<1>9. ASSUME NEW c \in Conn, NEW d \in Conn, ConnAct(d), c # d  PROVE  I(c)'
  <2>1. /\ pc'[c] = pc[c] /\ slot'[c] = slot[c] /\ overlay'[c] = overlay[c] /\ cache'[c] = cache[c]
        /\ dirty'[c] = dirty[c]
    BY <1>1, <1>9, Bystanders, Zenon
  <2>2. pc[c] # "closed" => slotLock'[slot[c]] = c /\ mark'[slot[c]] = mark[slot[c]]
    BY <1>1, <1>9, SlotKept, Zenon
  <2>3. pc[c] # "closed" => (B(c) => B(c)') /\ (B(c) /\ C(c) => C(c)')
    BY <1>5, <1>6, <1>7, <2>1, <2>2, Zenon
  <2> QED  BY <1>5, <2>1, <2>2, <2>3, Zenon DEF Live
<1>10. ASSUME NEW c \in Conn, UNCHANGED <<wal, mark, slotLock, slot, overlay, cache, dirty>>, pc'[c] = pc[c]
       PROVE  I(c)'
  BY <1>5, <1>10, Zenon DEF Live, B, C
<1>11. ASSUME NEW c \in Conn, NEW k \in Ckpt, CkptAct(k)  PROVE  I(c)'
  <2>1. UNCHANGED <<wal, mark, slotLock, slot, overlay, cache, dirty>> /\ pc'[c] = pc[c]
    BY <1>1, <1>11, CkptMoves, Disjoint, Zenon DEF PcType
  <2> QED  BY <1>10, <2>1, Zenon
<1>12. ASSUME NEW c \in Conn, UNCHANGED vars  PROVE  I(c)'
  BY <1>10, <1>12, Zenon DEF vars, log, locks, pager, shm
<1>13. \A c \in Conn : I(c)'
  BY <1>1, <1>8, <1>9, <1>11, <1>12, Steps, Zenon
<1> QED  BY <1>13, Zenon DEF SlotInv, B, C

\* The prefix of a prefix.
LEMMA ShorterPrefix ==
  ASSUME NEW w \in Seq(Frames), NEW m \in Nat, NEW n \in Nat, m <= n, n <= Len(w)
  PROVE  LogPrefix(SubSeq(w, 1, m), SubSeq(w, 1, n))
<1>1. Len(w) \in Nat /\ m <= Len(w) /\ 1 .. m \subseteq 1 .. n
  OBVIOUS
<1>2. /\ Len(SubSeq(w, 1, m)) = m /\ \A i \in 1 .. m : SubSeq(w, 1, m)[i] = w[i]
      /\ Len(SubSeq(w, 1, n)) = n /\ \A i \in 1 .. n : SubSeq(w, 1, n)[i] = w[i]
  BY <1>1, SubSeqFacts
<1> QED  BY <1>1, <1>2 DEF LogPrefix

\* active_reader_marks: the pass stops at the mark of a live connection.
LEMMA ProbeCovers ==
  ASSUME Base, SlotInv, NEW k \in Ckpt, ProbeSlot(k), NEW c \in Conn, Live(c),
         slot[c] \in todo[k] \/ Covered(k, c)
  PROVE  slot[c] \in todo'[k] \/ DOMAIN committed_pages(Prefix(k)') \subseteq DOMAIN overlay[c]
<1>1. LogType /\ ShmType /\ CkptType /\ CkptInv
  BY Zenon DEF Base, TypeOK
<1>2. PICK s \in Slot : /\ s \in todo[k] /\ todo' = [todo EXCEPT ![k] = @ \ {s}]
                        /\ bound' = [bound EXCEPT ![k] = Smaller(@, MarkOf(s))]
                        /\ MarkOf(s) \in Nat /\ Smaller(bound[k], MarkOf(s)) \in Nat
                        /\ Smaller(bound[k], MarkOf(s)) <= bound[k]
                        /\ Smaller(bound[k], MarkOf(s)) <= MarkOf(s)
  BY <1>1, ProbeFacts, Zenon
<1>3. PICK n \in Nat : n = Smaller(bound[k], MarkOf(s)) /\ n <= bound[k] /\ n <= MarkOf(s) /\ bound'[k] = n
  BY <1>1, <1>2, Zenon DEF CkptType
<1>4. todo'[k] = todo[k] \ {s} /\ seen' = seen
  BY <1>1, <1>2, Zenon DEF CkptType, ProbeSlot
<1>5. /\ bound[k] \in Nat /\ bound[k] <= Len(seen[k]) /\ seen[k] \in Seq(Frames) /\ Len(seen[k]) \in Nat
      /\ LogPrefix(seen[k], wal)
  BY <1>1 DEF CkptType, CkptInv, ProbeSlot
<1>6. n <= Len(seen[k]) /\ Smaller(n, Len(seen[k])) = n /\ Smaller(bound[k], Len(seen[k])) = bound[k]
  BY <1>3, <1>5 DEF Smaller
<1>7. Prefix(k)' = SubSeq(seen[k], 1, n) /\ Prefix(k) = SubSeq(seen[k], 1, bound[k])
  BY <1>3, <1>4, <1>6, Zenon DEF Prefix
<1>8. /\ SubSeq(seen[k], 1, n) \in Seq(Frames) /\ SubSeq(seen[k], 1, bound[k]) \in Seq(Frames)
      /\ Len(SubSeq(seen[k], 1, n)) = n /\ \A i \in 1 .. n : SubSeq(seen[k], 1, n)[i] = seen[k][i]
  BY <1>3, <1>5, <1>6, SubSeqFacts, Zenon
<1>9. CASE s # slot[c] /\ slot[c] \in todo[k]
  BY <1>4, <1>9, Zenon
<1>10. CASE Covered(k, c)
  <2>1. LogPrefix(SubSeq(seen[k], 1, n), SubSeq(seen[k], 1, bound[k]))
    BY <1>3, <1>5, <1>6, ShorterPrefix, Zenon
  <2>2. DOMAIN committed_pages(SubSeq(seen[k], 1, n)) \subseteq DOMAIN committed_pages(SubSeq(seen[k], 1, bound[k]))
    BY <1>8, <2>1, PrefixFacts, Zenon
  <2> QED  BY <1>7, <1>10, <2>2, Zenon DEF Covered
<1>11. CASE s = slot[c]
  <2>1. /\ slotLock[s] = c /\ c # Free /\ 1 <= mark[s] /\ mark[s] \in Nat
        /\ \A i \in 1 .. mark[s] : wal[i].page \in DOMAIN overlay[c]
    BY <1>1, <1>11, Disjoint, Zenon DEF SlotInv, ShmType, Live
  <2>2. MarkOf(s) = mark[s]
    BY <2>1 DEF MarkOf
  <2>3. PICK m \in Nat : m = CommittedLen(SubSeq(seen[k], 1, n)) /\ m <= n
    BY <1>8, CommittedLenFacts, Zenon
  <2>4. ASSUME NEW i \in 1 .. m  PROVE  SubSeq(seen[k], 1, n)[i].page \in DOMAIN overlay[c]
    <3>1. i \in 1 .. n /\ i \in 1 .. mark[s] /\ i \in 1 .. Len(seen[k])
      BY <1>3, <1>5, <1>6, <2>1, <2>2, <2>3
    <3> QED  BY <1>5, <1>8, <2>1, <3>1, Zenon DEF LogPrefix
  <2>5. DOMAIN committed_pages(SubSeq(seen[k], 1, n)) = {SubSeq(seen[k], 1, n)[i].page : i \in 1 .. m}
    BY <1>8, <2>3, CommittedPages, Zenon
  <2>6. DOMAIN committed_pages(SubSeq(seen[k], 1, n)) \subseteq DOMAIN overlay[c]
    BY <2>4, <2>5, Zenon
  <2> QED  BY <1>7, <2>6, Zenon
<1> QED  BY <1>9, <1>10, <1>11, Zenon

LEMMA CoverStep ==
  Base /\ SlotInv /\ CoverInv /\ "power" \notin Faults /\ [Next]_vars => CoverInv'
<1> SUFFICES ASSUME Base, SlotInv, CoverInv, "power" \notin Faults, [Next]_vars  PROVE  CoverInv'
  OBVIOUS
<1>1. LogType /\ PcType /\ PagerType /\ CkptType /\ CkptInv /\ ~ PowerLoss
  BY Zenon DEF Base, TypeOK, PowerLoss
<1> DEFINE I(c, k) == Live(c) => /\ pc[k] = "probe" => slot[c] \in todo[k] \/ Covered(k, c)
                                 /\ pc[k] = "backfill" => Covered(k, c)
<1>2. \A c \in Conn, k \in Ckpt : I(c, k)
  BY Zenon DEF CoverInv
<1>3. ASSUME NEW c \in Conn, NEW k \in Ckpt, NEW d \in Conn, ConnAct(d)  PROVE  I(c, k)'
  <2>1. UNCHANGED <<seen, bound, todo>> /\ pc'[k] = pc[k]
    BY <1>1, <1>3, ConnMoves, Disjoint, Zenon DEF PcType
  <2>2. Prefix(k)' = Prefix(k)
    BY <2>1, Zenon DEF Prefix
  <2>3. CASE d # c
    <3>1. pc'[c] = pc[c] /\ slot'[c] = slot[c] /\ overlay'[c] = overlay[c]
      BY <1>1, <1>3, <2>3, Bystanders, Zenon
    <3> QED  BY <1>2, <2>1, <2>2, <3>1, Zenon DEF Live, Covered
  <2>4. ASSUME d = c, ReadWal(c)  PROVE  I(c, k)'
    <3>1. ASSUME pc[k] # "idle"  PROVE  Covered(k, c)'
      <4>1. LogPrefix(Prefix(k), wal)
        <5>1. Prefix(k) \in Seq(Frames) /\ LogPrefix(Prefix(k), seen[k])
          BY <1>1, PrefixOf, Zenon
        <5>2. LogPrefix(seen[k], wal) /\ seen[k] \in Seq(Frames) /\ wal \in Seq(Frames)
          BY <1>1, <3>1, Zenon DEF CkptInv, CkptType, LogType
        <5> QED  BY <5>1, <5>2, LogPrefixTransitive, Zenon
      <4>2. Prefix(k) \in Seq(Frames) /\ wal \in Seq(Frames)
        BY <1>1, PrefixOf, Zenon DEF LogType
      <4>3. DOMAIN committed_pages(Prefix(k)) \subseteq DOMAIN committed_pages(wal)
        BY <4>1, <4>2, PrefixFacts, Zenon
      <4>4. overlay'[c] = committed_pages(wal)
        BY <1>1, <2>4, Zenon DEF ReadWal, PagerType
      <4> QED  BY <2>2, <4>3, <4>4, Zenon DEF Covered
    <3> QED  BY <2>1, <3>1, Zenon
  <2>5. ASSUME d = c, Live(c)', ~ ReadWal(c)  PROVE  I(c, k)'
    <3>1. Live(c) /\ UNCHANGED slot /\ DOMAIN overlay[c] \subseteq DOMAIN overlay'[c]
      BY <1>1, <1>3, <2>5, LiveSteps, Zenon
    <3> QED  BY <1>2, <2>1, <2>2, <3>1, Zenon DEF Covered
  <2> QED  BY <2>3, <2>4, <2>5, Zenon
<1>4. ASSUME NEW c \in Conn, NEW k \in Ckpt, NEW j \in Ckpt, CkptAct(j)  PROVE  I(c, k)'
  <2>1. pc'[c] = pc[c] /\ UNCHANGED <<slot, overlay>> /\ (j # k => pc'[k] = pc[k])
    BY <1>1, <1>4, CkptMoves, Disjoint, Zenon DEF PcType
  <2>2. CASE j # k
    <3>1. pc[k] = "idle"
      BY <1>1, <1>4, <2>2, OnePass, Zenon
    <3> QED  BY <2>1, <2>2, <3>1, Zenon
  <2>3. k \in DOMAIN pc /\ k \in DOMAIN todo
    BY <1>1, Zenon DEF PcType, CkptType
  <2>4. ASSUME CkptRead(k)  PROVE  I(c, k)'
    <3>1. pc'[k] = "probe" /\ todo'[k] = Slot
      BY <2>3, <2>4, Zenon DEF CkptRead
    <3>2. Live(c) => slot[c] \in Slot
      BY Zenon DEF SlotInv, Live
    <3> QED  BY <2>1, <3>1, <3>2, Zenon DEF Live
  <2>5. ASSUME ProbeSlot(k)  PROVE  I(c, k)'
    <3>1. pc' = pc /\ pc[k] = "probe"
      BY <2>5, Zenon DEF ProbeSlot
    <3>2. Live(c) => slot[c] \in todo'[k] \/ DOMAIN committed_pages(Prefix(k)') \subseteq DOMAIN overlay[c]
      BY <1>2, <2>5, <3>1, ProbeCovers, Zenon
    <3> QED  BY <2>1, <3>1, <3>2, Zenon DEF Live, Covered
  <2>6. ASSUME Release(k)  PROVE  I(c, k)'
    BY <2>3, <2>6, Zenon DEF Release
  <2>7. ASSUME Decide(k), ~ Release(k)  PROVE  I(c, k)'
    <3>1. pc[k] = "probe" /\ todo[k] = {} /\ pc'[k] = "backfill" /\ UNCHANGED <<seen, bound>>
      BY <2>3, <2>7, Zenon DEF Decide
    <3>2. Prefix(k)' = Prefix(k)
      BY <3>1, Zenon DEF Prefix
    <3> QED  BY <1>2, <2>1, <3>1, <3>2, Zenon DEF Live, Covered
  <2>8. ASSUME Backfill(k)  PROVE  I(c, k)'
    <3>1. pc[k] = "backfill" /\ UNCHANGED <<seen, bound, pc>>
      BY <2>8, Zenon DEF Backfill
    <3>2. Prefix(k)' = Prefix(k)
      BY <3>1, Zenon DEF Prefix
    <3> QED  BY <1>2, <2>1, <3>1, <3>2, Zenon DEF Live, Covered
  <2>9. ASSUME CkptSync(k)  PROVE  I(c, k)'
    BY <2>3, <2>9, Zenon DEF CkptSync
  <2> QED  BY <1>4, <2>2, <2>4, <2>5, <2>6, <2>7, <2>8, <2>9, Zenon
             DEF CkptAct, CkptStep, PublishBackfill, KillCkpt
<1>5. ASSUME NEW c \in Conn, NEW k \in Ckpt, UNCHANGED vars  PROVE  I(c, k)'
  <2>1. UNCHANGED <<pc, slot, overlay, todo, seen, bound>>
    BY <1>5, Zenon DEF vars, pager, ckpt
  <2>2. Prefix(k)' = Prefix(k)
    BY <2>1, Zenon DEF Prefix
  <2> QED  BY <1>2, <2>1, <2>2, Zenon DEF Live, Covered
<1>6. \A c \in Conn, k \in Ckpt : I(c, k)'
  BY <1>1, <1>3, <1>4, <1>5, Steps, Zenon
<1> QED  BY <1>6, Zenon DEF CoverInv

\* What read_page finds, page by page.
LEMMA ImageFacts ==
  ASSUME FileType, PagerType, NEW c \in Conn
  PROVE  /\ \A p \in DOMAIN overlay[c] : /\ Overlay(main, overlay[c])[p] = overlay[c][p]
                                         /\ Overlay(Overlay(main, cache[c]), overlay[c])[p] = overlay[c][p]
         /\ \A p \in Pages \ DOMAIN overlay[c] :
              /\ Overlay(main, overlay[c])[p] = main[p]
              /\ p \in DOMAIN cache[c] => Overlay(Overlay(main, cache[c]), overlay[c])[p] = cache[c][p]
              /\ p \notin DOMAIN cache[c] => Overlay(Overlay(main, cache[c]), overlay[c])[p] = main[p]
<1>1. cache[c] \in Writes /\ overlay[c] \in Writes /\ main \in Writes /\ DOMAIN main = Pages
  BY MainWrites, Zenon DEF PagerType
<1> DEFINE g == Overlay(main, cache[c])
<1>2. /\ g \in Writes /\ DOMAIN g = Pages
      /\ \A p \in DOMAIN cache[c] : g[p] = cache[c][p]
      /\ \A p \in Pages \ DOMAIN cache[c] : g[p] = main[p]
  BY <1>1, WholeOverlay, Zenon
<1> HIDE DEF g
<1>3. /\ \A p \in DOMAIN overlay[c] : Overlay(g, overlay[c])[p] = overlay[c][p]
      /\ \A p \in Pages \ DOMAIN overlay[c] : Overlay(g, overlay[c])[p] = g[p]
  BY <1>1, <1>2, WholeOverlay, Zenon
<1>4. /\ \A p \in DOMAIN overlay[c] : Overlay(main, overlay[c])[p] = overlay[c][p]
      /\ \A p \in Pages \ DOMAIN overlay[c] : Overlay(main, overlay[c])[p] = main[p]
  BY <1>1, WholeOverlay, Zenon
<1> QED  BY <1>2, <1>3, <1>4, Zenon DEF g

LEMMA SnapshotRead ==
  ASSUME FileType, PagerType, ImageInv, NEW c \in Conn, Live(c)
  PROVE  /\ \A p \in 1 .. snap[c][1] : Overlay(Overlay(main, cache[c]), overlay[c])[p] = snap[c][p]
         /\ ReadPage(c, 1) = IF 1 \in DOMAIN dirty[c] THEN dirty[c][1] ELSE snap[c][1]
<1>1. /\ snap[c][1] \in Pages
      /\ \A p \in DOMAIN cache[c] \ DOMAIN overlay[c] : cache[c][p] = main[p]
      /\ \A p \in 1 .. snap[c][1] : Overlay(main, overlay[c])[p] = snap[c][p]
  BY Zenon DEF ImageInv
<1>2. 1 \in 1 .. snap[c][1] /\ \A p \in 1 .. snap[c][1] : p \in Pages
  BY <1>1, WalAssumption DEF Pages
<1>3. ASSUME NEW p \in 1 .. snap[c][1]  PROVE  Overlay(Overlay(main, cache[c]), overlay[c])[p] = snap[c][p]
  <2>1. p \in Pages /\ Overlay(main, overlay[c])[p] = snap[c][p]
    BY <1>1, <1>2, Zenon
  <2>2. CASE p \in DOMAIN overlay[c]
    BY <2>1, <2>2, ImageFacts, Zenon
  <2>3. CASE p \notin DOMAIN overlay[c] /\ p \in DOMAIN cache[c]
    BY <1>1, <2>1, <2>3, ImageFacts, Zenon
  <2>4. CASE p \notin DOMAIN overlay[c] /\ p \notin DOMAIN cache[c]
    BY <2>1, <2>4, ImageFacts, Zenon
  <2> QED  BY <2>2, <2>3, <2>4, Zenon
<1> QED  BY <1>2, <1>3, ReadPageFacts, Zenon

\* The image that a connection takes at open: read_wal_pages over the file.
LEMMA OpenImage ==
  ASSUME FileType, LogType, "power" \notin Faults
  PROVE  /\ DOMAIN Db = Pages /\ Db[1] \in Pages
         /\ \A p \in 1 .. Db[1] : Overlay(main, committed_pages(wal))[p] = Db[p]
<1>1. main \in Writes /\ DOMAIN main = Pages /\ committed_pages(wal) \in Writes
  BY MainWrites, CommittedPages, WritesFacts, Zenon DEF LogType
<1> DEFINE f == Overlay(main, committed_pages(wal))
<1>2. f \in Writes /\ DOMAIN f = Pages
  BY <1>1, WholeOverlay, Zenon
<1>3. Db = [p \in Pages |-> IF p <= f[1] THEN f[p] ELSE Absent]
  BY Zenon DEF Db, ImageOf
<1> HIDE DEF f
<1>4. f[1] \in Pages
  BY <1>2, PageOne, WritesFacts, Zenon DEF IsWrites, IsValue, Counts
<1>5. 1 <= f[1] /\ \A p \in 1 .. f[1] : p \in Pages /\ p <= f[1]
  BY <1>4, WalAssumption DEF Pages
<1>6. DOMAIN Db = Pages /\ Db[1] = f[1]
  BY <1>3, <1>5, PageOne, Zenon
<1> QED  BY <1>3, <1>4, <1>5, <1>6, Zenon DEF f

\* The parts of the invariant for one connection.
ImageHere(c) ==
  /\ DOMAIN snap[c] = Pages /\ snap[c][1] \in Pages
  /\ \A p \in DOMAIN cache[c] \ DOMAIN overlay[c] : cache[c][p] = main[p]
  /\ \A p \in 1 .. snap[c][1] : Overlay(main, overlay[c])[p] = snap[c][p]
Growing(c) ==
  1 \in DOMAIN dirty[c] =>
    /\ dirty[c][1] \in Pages /\ snap[c][1] <= dirty[c][1]
    /\ \A p \in snap[c][1] + 1 .. dirty[c][1] : p \in DOMAIN dirty[c]

LEMMA ImageParts == ImageInv <=> \A c \in Conn : Live(c) => ImageHere(c) /\ Growing(c)
BY Zenon DEF ImageInv, ImageHere, Growing

\* flush folds the dirty pages into the snapshot.
LEMMA FoldImage ==
  ASSUME FileType, PcType, PagerType, NEW c \in Conn, ImageHere(c), Growing(c), FoldDirty(c)
  PROVE  ImageHere(c)' /\ Growing(c)'
<1>1. /\ overlay'[c] = Overlay(overlay[c], dirty[c]) /\ snap'[c] = Overlay(snap[c], dirty[c])
      /\ dirty'[c] = NoWrites /\ UNCHANGED <<main, cache>>
  BY Zenon DEF FoldDirty, PagerType, file
<1>2. /\ DOMAIN snap[c] = Pages /\ snap[c][1] \in Pages
      /\ \A p \in DOMAIN cache[c] \ DOMAIN overlay[c] : cache[c][p] = main[p]
      /\ \A p \in 1 .. snap[c][1] : Overlay(main, overlay[c])[p] = snap[c][p]
  BY Zenon DEF ImageHere
<1>3. PICK o \in Writes, d \in Writes : o = overlay[c] /\ d = dirty[c] /\ DOMAIN d \subseteq Pages
  BY WritesFacts, Zenon DEF PagerType, IsWrites
<1> DEFINE q == Overlay(o, d)
           s == Overlay(snap[c], d)
<1>4. /\ DOMAIN q = DOMAIN o \union DOMAIN d /\ q \in Writes
      /\ \A p \in DOMAIN d : q[p] = d[p]
      /\ \A p \in DOMAIN o \ DOMAIN d : q[p] = o[p]
  BY OverlayFacts, Zenon
<1>5. /\ DOMAIN s = Pages
      /\ \A p \in DOMAIN d : s[p] = d[p]
      /\ \A p \in Pages \ DOMAIN d : s[p] = snap[c][p]
  <2>1. /\ DOMAIN s = DOMAIN snap[c] \union DOMAIN d
        /\ \A p \in DOMAIN d : s[p] = d[p]
        /\ \A p \in DOMAIN snap[c] \ DOMAIN d : s[p] = snap[c][p]
    BY OverlayFacts, Zenon
  <2> QED  BY <1>2, <1>3, <2>1
<1>6. /\ \A p \in DOMAIN q : Overlay(main, q)[p] = q[p]
      /\ \A p \in Pages \ DOMAIN q : Overlay(main, q)[p] = main[p]
      /\ \A p \in DOMAIN o : Overlay(main, o)[p] = o[p]
      /\ \A p \in Pages \ DOMAIN o : Overlay(main, o)[p] = main[p]
  <2> HIDE DEF q
  <2>1. q \in Writes /\ main \in Writes /\ DOMAIN main = Pages
    BY <1>4, MainWrites, Zenon
  <2>2. /\ \A p \in DOMAIN q : Overlay(main, q)[p] = q[p]
        /\ \A p \in Pages \ DOMAIN q : Overlay(main, q)[p] = main[p]
    BY <2>1, WholeOverlay, Zenon
  <2>3. /\ \A p \in DOMAIN o : Overlay(main, o)[p] = o[p]
        /\ \A p \in Pages \ DOMAIN o : Overlay(main, o)[p] = main[p]
    BY <2>1, WholeOverlay, Zenon
  <2> QED  BY <2>2, <2>3, Zenon
<1> HIDE DEF q, s
<1>7. s[1] \in Pages
  BY <1>2, <1>3, <1>5, PageOne, Zenon DEF Growing
<1>8. ASSUME NEW p \in 1 .. s[1]  PROVE  Overlay(main, q)[p] = s[p]
  <2>1. p \in Pages
    BY <1>7, WalAssumption DEF Pages
  <2>2. CASE p \in DOMAIN d
    BY <1>4, <1>5, <1>6, <2>2, Zenon
  <2>3. CASE p \notin DOMAIN d
    <3>1. p \in 1 .. snap[c][1]
      <4>1. CASE 1 \in DOMAIN d
        <5>1. s[1] = d[1] /\ d[1] \in Pages /\ \A x \in snap[c][1] + 1 .. d[1] : x \in DOMAIN d
          BY <1>3, <1>5, <4>1, Zenon DEF Growing
        <5>2. p \notin snap[c][1] + 1 .. d[1]
          BY <2>3, <5>1, Zenon
        <5> QED  BY <1>2, <5>1, <5>2, WalAssumption DEF Pages
      <4>2. CASE 1 \notin DOMAIN d
        BY <1>5, <4>2, PageOne, Zenon
      <4> QED  BY <4>1, <4>2, Zenon
    <3>2. Overlay(main, o)[p] = snap[c][p] /\ s[p] = snap[c][p]
      BY <1>2, <1>3, <1>5, <2>1, <2>3, <3>1, Zenon
    <3>3. CASE p \in DOMAIN o
      <4>1. p \in DOMAIN q /\ q[p] = o[p]
        BY <1>4, <2>3, <3>3, Zenon
      <4> QED  BY <1>6, <3>2, <3>3, <4>1, Zenon
    <3>4. CASE p \notin DOMAIN o
      <4>1. p \in Pages \ DOMAIN q /\ p \in Pages \ DOMAIN o
        BY <1>4, <2>1, <2>3, <3>4, Zenon
      <4> QED  BY <1>6, <3>2, <4>1, Zenon
    <3> QED  BY <3>3, <3>4, Zenon
  <2> QED  BY <2>2, <2>3, Zenon
<1>9. overlay'[c] = q /\ snap'[c] = s
  BY <1>1, <1>3, Zenon DEF q, s
<1>10. ImageHere(c)'
  BY <1>1, <1>2, <1>3, <1>4, <1>5, <1>7, <1>8, <1>9, Zenon DEF ImageHere
<1> QED  BY <1>1, <1>10, WritesFacts, Zenon DEF Growing

\* allocate_page makes the file one page longer.
LEMMA AllocateImage ==
  ASSUME FileType, PagerType, ImageInv, NEW c \in Conn, Live(c), Allocate(c)
  PROVE  Growing(c)'
<1>1. PICK n \in Pages : /\ n = ReadPage(c, 1) + 1 /\ n # 1 /\ IsValue(1, n) /\ IsValue(n, 0)
                         /\ dirty' = [dirty EXCEPT ![c] = With(With(@, n, 0), 1, n)]
  BY AllocateFacts, Zenon
<1>2. PICK d \in Writes : d = dirty[c] /\ dirty'[c] = With(With(d, n, 0), 1, n)
  BY <1>1, Zenon DEF PagerType
<1>3. With(d, n, 0) \in Writes /\ DOMAIN With(d, n, 0) = DOMAIN d \union {n}
  <2>1. IsValue(n, 0)
    BY <1>1, Zenon
  <2> QED  BY <2>1, WithFacts, Zenon
<1>4. DOMAIN dirty'[c] = DOMAIN d \union {n} \union {1} /\ dirty'[c][1] = n
  <2>1. PICK e \in Writes : e = With(d, n, 0)
    BY <1>3, Zenon
  <2>2. IsValue(1, n) /\ 1 \in Pages
    BY <1>1, PageOne, Zenon
  <2>3. DOMAIN With(e, 1, n) = DOMAIN e \union {1} /\ With(e, 1, n)[1] = n
    BY Zenon DEF With, Overlay
  <2> QED  BY <1>2, <1>3, <2>1, <2>3, Zenon
<1>5. snap' = snap
  BY Zenon DEF Allocate
<1>6. ReadPage(c, 1) = (IF 1 \in DOMAIN d THEN d[1] ELSE snap[c][1]) /\ snap[c][1] \in Pages /\ Growing(c)
  BY <1>2, SnapshotRead, ImageParts, Zenon DEF ImageHere
<1>7. /\ snap[c][1] <= n
      /\ \A p \in snap[c][1] + 1 .. n : p = n \/ (1 \in DOMAIN d /\ p \in snap[c][1] + 1 .. d[1])
  BY <1>1, <1>2, <1>6 DEF Growing, Pages
<1>8. ASSUME NEW p \in snap[c][1] + 1 .. n  PROVE  p \in DOMAIN dirty'[c]
  BY <1>2, <1>4, <1>6, <1>7, Zenon DEF Growing
<1> QED  BY <1>1, <1>4, <1>5, <1>7, <1>8, Zenon DEF Growing

LEMMA ImageStep ==
  Base /\ SlotInv /\ CoverInv /\ ImageInv /\ "power" \notin Faults /\ [Next]_vars => ImageInv'
<1> SUFFICES ASSUME Base, SlotInv, CoverInv, ImageInv, "power" \notin Faults, [Next]_vars  PROVE  ImageInv'
  OBVIOUS
<1>1. FileType /\ LogType /\ PcType /\ PagerType /\ CkptType /\ CkptInv /\ ~ PowerLoss
  BY Zenon DEF Base, TypeOK, PowerLoss
<1>2. \A c \in Conn : Live(c) => ImageHere(c) /\ Growing(c)
  BY ImageParts, Zenon
<1> DEFINE I(c) == Live(c) => ImageHere(c) /\ Growing(c)
\* Nothing that a connection reads has changed.
<1>3. ASSUME NEW c \in Conn, Live(c), main' = main, snap'[c] = snap[c], cache'[c] = cache[c], overlay'[c] = overlay[c]
      PROVE  ImageHere(c)' /\ (dirty'[c] = dirty[c] => Growing(c)')
  BY <1>2, <1>3, Zenon DEF ImageHere, Growing
<1>4. ASSUME NEW c \in Conn, ConnAct(c), Live(c)'  PROVE  ImageHere(c)' /\ Growing(c)'
  <2>1. /\ c \in DOMAIN pc /\ c \in DOMAIN snap /\ c \in DOMAIN overlay /\ c \in DOMAIN cache /\ c \in DOMAIN dirty
        /\ main' = main /\ cache[c] \in Writes /\ dirty[c] \in Writes
    BY <1>1, <1>4, ConnMoves, Zenon DEF PcType, PagerType
  <2>2. CASE ReadWal(c)
    <3>1. /\ pc[c] = "read" /\ overlay'[c] = committed_pages(wal) /\ snap'[c] = Db /\ UNCHANGED <<cache, dirty>>
      BY <2>1, <2>2, Zenon DEF ReadWal
    <3>2. DOMAIN cache[c] = {} /\ DOMAIN dirty[c] = {}
      BY <3>1, Zenon DEF SlotInv, Live
    <3>3. /\ DOMAIN Db = Pages /\ Db[1] \in Pages
          /\ \A p \in 1 .. Db[1] : Overlay(main, committed_pages(wal))[p] = Db[p]
      BY <1>1, OpenImage, Zenon
    <3> QED  BY <2>1, <3>1, <3>2, <3>3, Zenon DEF ImageHere, Growing
  <2>3. ASSUME NEW p \in Pages, FillCache(c, p)  PROVE  ImageHere(c)' /\ Growing(c)'
    <3>1. Live(c) /\ UNCHANGED <<snap, overlay, dirty>> /\ cache'[c] = With(cache[c], p, main[p])
      BY <2>1, <2>3, Zenon DEF FillCache, Live
    <3>2. IsValue(p, main[p])
      BY <1>1, Zenon DEF FileType, IsValue
    <3>3. /\ DOMAIN With(cache[c], p, main[p]) = DOMAIN cache[c] \union {p}
          /\ With(cache[c], p, main[p])[p] = main[p]
          /\ \A q \in DOMAIN cache[c] \ {p} : With(cache[c], p, main[p])[q] = cache[c][q]
      BY Zenon DEF With, Overlay
    <3>4. \A q \in DOMAIN cache'[c] \ DOMAIN overlay'[c] : cache'[c][q] = main'[q]
      BY <1>2, <2>1, <3>1, <3>3, Zenon DEF ImageHere
    <3> QED  BY <1>2, <2>1, <3>1, <3>4, Zenon DEF ImageHere, Growing
  <2>4. ASSUME Live(c), UNCHANGED <<snap, overlay>>, NEW p, cache'[c] = Without(cache[c], p)  PROVE  ImageHere(c)'
    <3>1. /\ DOMAIN Without(cache[c], p) = DOMAIN cache[c] \ {p}
          /\ \A q \in DOMAIN cache[c] \ {p} : Without(cache[c], p)[q] = cache[c][q]
      BY WithoutFacts, Zenon
    <3> QED  BY <1>2, <2>1, <2>4, <3>1, Zenon DEF ImageHere
  <2>5. ASSUME NEW p \in Pages, NEW v \in Val, Mutate(c, p, v)  PROVE  ImageHere(c)' /\ Growing(c)'
    <3>1. /\ Live(c) /\ UNCHANGED <<snap, overlay>> /\ cache'[c] = Without(cache[c], p)
          /\ dirty'[c] = With(dirty[c], p, v)
      BY <2>1, <2>5, Zenon DEF Mutate, Live
    <3>2. p # 1 /\ IsValue(p, v)
      BY <1>1, <2>5, MutateFacts, Zenon
    <3>3. /\ DOMAIN With(dirty[c], p, v) = DOMAIN dirty[c] \union {p}
          /\ \A q \in DOMAIN dirty[c] \ {p} : With(dirty[c], p, v)[q] = dirty[c][q]
      BY Zenon DEF With, Overlay
    <3>4. Growing(c)'
      BY <1>2, <3>1, <3>2, <3>3, Zenon DEF Growing
    <3> QED  BY <2>4, <3>1, <3>4, Zenon
  <2>6. CASE Allocate(c)
    <3>1. Live(c) /\ UNCHANGED <<snap, overlay>> /\ cache'[c] = Without(cache[c], 1)
      BY <2>1, <2>6, Zenon DEF Allocate, Live
    <3> QED  BY <1>1, <2>4, <2>6, <3>1, AllocateImage, Zenon
  <2>7. CASE Rollback(c)
    <3>1. Live(c) /\ UNCHANGED <<snap, overlay, cache>> /\ dirty'[c] = NoWrites
      BY <2>1, <2>7, Zenon DEF Rollback, Live
    <3> QED  BY <1>3, <2>1, <3>1, WritesFacts, Zenon DEF Growing
  <2>8. CASE FoldDirty(c)
    <3>1. Live(c)
      BY <2>8, Zenon DEF FoldDirty, Live
    <3> QED  BY <1>1, <1>2, <2>8, <3>1, FoldImage, Zenon
  <2>9. CASE ClaimWrite(c) \/ OpenWal(c) \/ AppendFrame(c) \/ SyncWal(c) \/ PublishMx(c)
    <3>1. Live(c) /\ UNCHANGED <<snap, overlay, cache, dirty>>
      BY <2>9, Zenon DEF ClaimWrite, OpenWal, AppendFrame, SyncWal, PublishMx, Live, pager
    <3> QED  BY <1>3, <2>1, <3>1, Zenon
  <2>10. ~ (ClaimSlot(c) \/ PublishMark(c) \/ Gone(c))
    BY <1>4, <2>1, Zenon DEF ClaimSlot, PublishMark, Gone, Live
  <2> QED  BY <1>4, <2>2, <2>3, <2>5, <2>6, <2>7, <2>8, <2>9, <2>10, Zenon DEF ConnAct, Open, Edit, Commit, Close, Kill
<1>5. ASSUME NEW c \in Conn, NEW d \in Conn, ConnAct(d), c # d  PROVE  I(c)'
  <2>1. /\ pc'[c] = pc[c] /\ overlay'[c] = overlay[c] /\ cache'[c] = cache[c] /\ dirty'[c] = dirty[c]
        /\ snap'[c] = snap[c] /\ main' = main
    BY <1>1, <1>5, Bystanders, ConnMoves, Zenon
  <2> QED  BY <1>3, <2>1, Zenon DEF Live
<1>6. ASSUME NEW c \in Conn, NEW k \in Ckpt, CkptAct(k)  PROVE  I(c)'
  <2>1. UNCHANGED <<overlay, cache, dirty, snap>> /\ pc'[c] = pc[c]
    BY <1>1, <1>6, CkptMoves, Disjoint, Zenon DEF PcType
  <2>2. CASE main' = main
    BY <1>3, <2>1, <2>2, Zenon DEF Live
  <2>3. ASSUME Backfill(k), Live(c)  PROVE  ImageHere(c)' /\ Growing(c)'
    <3>1. PICK p \in DOMAIN committed_pages(Prefix(k)) : p \in Pages /\ main' = [main EXCEPT ![p] = committed_pages(Prefix(k))[p]]
      BY <1>1, <2>3, BackfillFacts, Zenon
    <3>2. p \in DOMAIN overlay[c]
      BY <2>3, <3>1, Zenon DEF Backfill, CoverInv, Covered
    <3>3. \A q \in Pages : q # p => main'[q] = main[q]
      BY <1>1, <3>1, Zenon DEF FileType
    <3>4. FileType' /\ PagerType'
      <4>1. FileType'
        BY FileTypeStep, Zenon DEF Base
      <4> QED  BY <1>1, <1>6, <4>1, CkptMoves, Zenon DEF PagerType
    <3>5. overlay[c] \in Writes /\ main \in Writes /\ main' \in Writes /\ DOMAIN main = Pages /\ DOMAIN main' = Pages
      <4>1. main \in Writes /\ DOMAIN main = Pages
        BY <1>1, MainWrites, Zenon
      <4>2. (main \in Writes /\ DOMAIN main = Pages)'
        BY <3>4, MainWrites, PTL
      <4> QED  BY <1>1, <4>1, <4>2, Zenon DEF PagerType
    <3>6. \A q \in Pages : Overlay(main', overlay[c])[q] = Overlay(main, overlay[c])[q]
      <4>1. /\ \A q \in DOMAIN overlay[c] : Overlay(main, overlay[c])[q] = overlay[c][q]
            /\ \A q \in Pages \ DOMAIN overlay[c] : Overlay(main, overlay[c])[q] = main[q]
        BY <3>5, WholeOverlay, Zenon
      <4>2. /\ \A q \in DOMAIN overlay[c] : Overlay(main', overlay[c])[q] = overlay[c][q]
            /\ \A q \in Pages \ DOMAIN overlay[c] : Overlay(main', overlay[c])[q] = main'[q]
        BY <3>5, WholeOverlay, Zenon
      <4>3. ASSUME NEW q \in Pages  PROVE  Overlay(main', overlay[c])[q] = Overlay(main, overlay[c])[q]
        <5>1. CASE q \in DOMAIN overlay[c]
          <6>1. Overlay(main, overlay[c])[q] = overlay[c][q]
            BY <4>1, <5>1, Zenon
          <6>2. Overlay(main', overlay[c])[q] = overlay[c][q]
            BY <4>2, <5>1, Zenon
          <6> QED  BY <6>1, <6>2, Zenon
        <5>2. CASE q \notin DOMAIN overlay[c]
          <6>1. main'[q] = main[q] /\ q \in Pages \ DOMAIN overlay[c]
            BY <3>2, <3>3, <5>2, Zenon
          <6> QED  BY <4>1, <4>2, <6>1, Zenon
        <5> QED  BY <5>1, <5>2, Zenon
      <4> QED  BY <4>3
    <3>7. \A q \in 1 .. snap[c][1] : q \in Pages
      BY <1>2, <2>3, WalAssumption DEF ImageHere, Pages
    <3>8. DOMAIN cache[c] \subseteq Pages
      BY <1>1, WritesFacts, Zenon DEF PagerType, IsWrites
    <3>9. ImageHere(c)'
      BY <1>2, <2>1, <2>3, <3>2, <3>3, <3>6, <3>7, <3>8, Zenon DEF ImageHere
    <3> QED  BY <1>2, <2>1, <2>3, <3>9, Zenon DEF Growing
  <2> QED  BY <1>6, <2>1, <2>2, <2>3, Zenon DEF Live, CkptAct, CkptStep, CkptRead, ProbeSlot, Decide, CkptSync,
             PublishBackfill, KillCkpt, file
<1>7. ASSUME NEW c \in Conn, UNCHANGED vars  PROVE  I(c)'
  BY <1>3, <1>7, Zenon DEF vars, file, pager, Live
<1>8. \A c \in Conn : I(c)'
  BY <1>1, <1>4, <1>5, <1>6, <1>7, Steps, Zenon
<1>9. (ImageInv <=> \A c \in Conn : Live(c) => ImageHere(c) /\ Growing(c))'
  BY ImageParts, PTL
<1> QED  BY <1>8, <1>9, Zenon

\* SnapshotStable, for any number of connections, writers, checkpoints and
\* slots, and processes killed at any place: between the probe of its slot and
\* the copies of checkpoint_passive a connection may come, commit or go.
THEOREM SnapshotsStandStill ==
  "power" \notin Faults /\ Synchronous = "Full" /\ InitFrames = 1 => (Spec => []SnapshotStable)
<1> SUFFICES ASSUME "power" \notin Faults, Synchronous = "Full", InitFrames = 1  PROVE  Spec => []SnapshotStable
  OBVIOUS
<1> DEFINE J == Base /\ DoneInv /\ MxInv /\ SlotInv /\ CoverInv /\ ImageInv
<1>1. Init => J
  <2> SUFFICES ASSUME Init  PROVE  J
    OBVIOUS
  <2>1. Base
    BY BaseInit
  <2>2. \A c \in Conn : pc[c] = "closed" /\ overlay[c] = NoWrites /\ cache[c] = NoWrites /\ dirty[c] = NoWrites
    BY Zenon DEF Init
  <2>3. DoneInv /\ SlotInv /\ CoverInv /\ ImageInv
    BY <2>2, WritesFacts, Zenon DEF DoneInv, Appended, SlotInv, CoverInv, ImageInv, Live
  <2>4. MxInv
    <3>1. wal \in Seq(Frames)
      BY <2>1, Zenon DEF Base, TypeOK, LogType
    <3>2. Len(wal) = 1 /\ wal[1].db_size = 2 /\ mxFrame = 1
      BY DEF Init, Frame
    <3>3. CommittedLen(wal) = 1
      BY <3>1, <3>2, CommittedLenFacts
    <3> QED  BY <3>2, <3>3 DEF MxInv
  <2> QED  BY <2>1, <2>3, <2>4, Zenon
<1>2. J /\ [Next]_vars => J'
  BY BaseStep, DoneStep, MxStep, SlotStep, CoverStep, ImageStep, Zenon DEF NoTornLoss
<1>3. J => SnapshotStable
  BY SnapshotRead, Zenon DEF Base, TypeOK, SnapshotStable, Open_, Live
<1> QED  BY <1>1, <1>2, <1>3, PTL DEF Spec

=============================================================================
