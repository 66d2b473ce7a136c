---------------------------- MODULE JournalProofs ----------------------------
(***************************************************************************)
(* The inductive invariants of the rollback-journal pager, for any number  *)
(* of connections, pages and values: what the connections read, and the    *)
(* state of the files that makes commits atomic.  JournalTheorems states   *)
(* the results.                                                            *)
(***************************************************************************)
EXTENDS JournalPager, TLAPS

\* Types: journal records, page sets, journals, and the steps of a call.
Rec == [page : Pages, data : Nat]
IsPartial(f) ==
  /\ DOMAIN f \subseteq Pages /\ \A p \in DOMAIN f : f[p] \in Nat
  /\ f = [p \in DOMAIN f |-> f[p]]
Journal == [init : Nat, n_rec : Nat, recs : Seq(Rec)]

CommitSteps == {"journal", "write", "delete"}
RecoverySteps == {"replay", "rsync", "rdelete"}
AtExclusive == CommitSteps \union RecoverySteps \union {"rdown", "down"}
Steps == AtExclusive \union {"closed", "open", "probe", "climb", "ready"}

\* Sets of pages can be counted (write_header counts the records to come).  This
\* is a hypothesis here, and a lemma of JournalTheorems, to keep the library of
\* finite sets out of the context of the other proofs.
Counting ==
  \A S \in SUBSET Pages :
    Cardinality(S) \in Nat /\ \A p \in S : Cardinality(S \ {p}) = Cardinality(S) - 1

TypeOK ==
  /\ main \in [Pages -> Nat] /\ mainDisk \in [Pages -> SUBSET Nat]
  /\ jrnl \in Journal /\ jrnlDisk \in SUBSET Journal
  /\ level \in [Conn -> 0 .. 4]
  /\ pc \in [Conn -> Steps]
  /\ goal \in [Conn -> {"none", "recover", "immediate", "exclusive", "flush"}]
  /\ hot \in [Conn -> BOOLEAN]
  /\ DOMAIN dirty = Conn /\ \A c \in Conn : IsPartial(dirty[c])
  /\ DOMAIN cache = Conn /\ \A c \in Conn : IsPartial(cache[c])
  /\ txLock \in [Conn -> {Shared, Reserved, Exclusive}]
  /\ todo \in [Conn -> SUBSET Nat]
  /\ fails \in [kill : Nat, io : Nat]

\* The level that every step of a call holds, and that Exclusive is alone.
LockInv ==
  /\ \A c \in Conn : pc[c] \in {"closed", "open"} => level[c] = Unlocked
  /\ \A c \in Conn : pc[c] \in {"probe", "climb", "ready"} => level[c] >= Shared
  /\ \A c \in Conn : pc[c] \in AtExclusive => level[c] = Exclusive
  /\ \A c, d \in Conn : c # d /\ level[c] = Exclusive => level[d] = Unlocked
  /\ \A c \in Conn : pc[c] = "climb" => goal[c] # "none"

\* Has the Pager been built?
Opened(c) == pc[c] \in CommitSteps \union {"ready", "down"} \/ (pc[c] = "climb" /\ goal[c] # "recover")

\* Will the connection look for a journal before its Pager is built?
Aware(c) ==
  \/ pc[c] \in RecoverySteps \union {"closed", "probe"}
  \/ pc[c] = "open" /\ hot[c]
  \/ pc[c] = "climb" /\ goal[c] = "recover"

\* What the loops run over.
TodoInv ==
  \A c \in Conn :
    /\ pc[c] \in RecoverySteps => IsHot(jrnl)
    /\ pc[c] = "replay" => todo[c] \subseteq Valid(jrnl)
    /\ pc[c] \in {"journal", "write"} => todo[c] \subseteq DOMAIN dirty[c]

\* A hot journal is that of a commit under way, or every connection will see it.
HotInv ==
  fails.io = 0 /\ IsHot(jrnl) =>
    (\E d \in Conn : pc[d] \in CommitSteps) \/ (\A c \in Conn : Aware(c))

\* A cached page is the page in the file, and pages past its end are dirty.
CacheInv ==
  \A c \in Conn :
    /\ ~ Opened(c) => DOMAIN dirty[c] = {} /\ DOMAIN cache[c] = {}
    /\ DOMAIN dirty[c] \intersect DOMAIN cache[c] = {}
    /\ \A p \in DOMAIN cache[c] : cache[c][p] = main[p] /\ p <= main[1]
    /\ 1 \in DOMAIN dirty[c] =>
         /\ dirty[c][1] >= main[1]
         /\ \A p \in Pages : main[1] < p /\ p <= dirty[c][1] => p \in DOMAIN dirty[c]

\* Page 1 holds a page count.
PositiveSize(j) == \A i \in DOMAIN j.recs : j.recs[i].page = 1 => j.recs[i].data >= 1

PageOneInv ==
  /\ main[1] >= 1 /\ \A v \in mainDisk[1] : v >= 1
  /\ PositiveSize(jrnl) /\ \A j \in jrnlDisk : PositiveSize(j)

\* The inductive invariant.
ReadInv == TypeOK /\ LockInv /\ TodoInv /\ HotInv /\ CacheInv /\ PageOneInv

\* Pager::open looks at the journal before it takes a lock: a process killed in
\* the middle of a flush after another one has looked leaves a journal that the
\* other does not see.  The theorems leave that race out.
NoKillRace == "kill" \notin Faults \/ \A c, d \in Conn : c = d


-----------------------------------------------------------------------------
(* Helpers.                                                                *)

\* The empty dirty set or cache.
LEMMA PartialFacts ==
  /\ IsPartial(NoWrites) /\ DOMAIN NoWrites = {}
  /\ \A f : IsPartial(f) => (f = NoWrites <=> DOMAIN f = {})
<1>1. ASSUME NEW f, IsPartial(f), DOMAIN f = {}  PROVE  f = NoWrites
  <2>1. f = [p \in {} |-> f[p]]
    BY <1>1, Zenon DEF IsPartial
  <2> QED  BY <2>1, Zenon DEF NoWrites
<1> QED  BY <1>1, Zenon DEF IsPartial, NoWrites

\* Inserting a page into the dirty set or the cache.
LEMMA WithFacts ==
  ASSUME NEW f, IsPartial(f), NEW p \in Pages, NEW v \in Nat
  PROVE  /\ IsPartial(With(f, p, v)) /\ DOMAIN With(f, p, v) = DOMAIN f \union {p}
         /\ With(f, p, v)[p] = v /\ \A q \in DOMAIN f \ {p} : With(f, p, v)[q] = f[q]
BY Zenon DEF With, IsPartial

\* Dropping a page from the cache (get_page_mut).
LEMMA WithoutFacts ==
  ASSUME NEW f, IsPartial(f), NEW p \in Pages
  PROVE  /\ IsPartial(Without(f, p)) /\ DOMAIN Without(f, p) = DOMAIN f \ {p}
         /\ \A q \in DOMAIN f \ {p} : Without(f, p)[q] = f[q]
BY Zenon DEF Without, IsPartial

\* Drop of a Pager, and a killed process.
LEMMA GoneType ==
  ASSUME TypeOK, NEW c \in Conn, Gone(c), UNCHANGED files, fails' \in [kill : Nat, io : Nat]
  PROVE  TypeOK'
BY PartialFacts DEF TypeOK, Gone, files, Shared, Unlocked, Steps

\* write_page keeps the database file a file.
LEMMA MainType ==
  ASSUME TypeOK, NEW p \in Pages, NEW v \in Nat, WriteMain(p, v)
  PROVE  main' \in [Pages -> Nat] /\ mainDisk' \in [Pages -> SUBSET Nat]
BY DEF TypeOK, WriteMain, Torn

\* What a power loss leaves of a journal is a journal.
LEMMA RemainsType ==
  ASSUME NEW j \in Journal
  PROVE  Remains(j) \subseteq Journal /\ NoJournal \in Journal
<1>1. NoJournal \in Journal
  BY DEF NoJournal, Journal
<1>2. ASSUME NEW k \in 0 .. Len(j.recs)  PROVE  [j EXCEPT !.recs = SubSeq(j.recs, 1, k)] \in Journal
  <2>1. SubSeq(j.recs, 1, k) \in Seq(Rec)
    BY DEF Journal
  <2> QED  BY <2>1, Zenon DEF Journal
<1> QED  BY <1>1, <1>2, Zenon DEF Remains
\* A journal with other records.
LEMMA RecsExcept ==
  ASSUME NEW j \in Journal, NEW r \in Seq(Rec)
  PROVE  LET k == [j EXCEPT !.recs = r]
         IN  k \in Journal /\ k.recs = r /\ k.init = j.init /\ k.n_rec = j.n_rec
BY Zenon DEF Journal

\* write_record keeps the journal file a journal.
LEMMA JournalType ==
  ASSUME TypeOK, NEW j \in Journal, WriteJournal(j)
  PROVE  jrnl' \in Journal /\ jrnlDisk' \in SUBSET Journal
BY RemainsType, Zenon DEF TypeOK, WriteJournal

\* One turn of each loop, with the record or the page that it is about.
LEMMA ReplayFacts ==
  ASSUME TypeOK, TodoInv, NEW c \in Conn, ReplayRecord(c)
  PROVE  \E i \in todo[c] :
           /\ i \in Valid(jrnl) /\ i \in DOMAIN jrnl.recs
           /\ jrnl.recs[i].page \in Pages /\ jrnl.recs[i].data \in Nat
           /\ WriteMain(jrnl.recs[i].page, jrnl.recs[i].data)
           /\ todo' = [todo EXCEPT ![c] = @ \ {i}]
<1>1. PICK i \in todo[c] : /\ WriteMain(jrnl.recs[i].page, jrnl.recs[i].data)
                           /\ todo' = [todo EXCEPT ![c] = @ \ {i}]
  BY Zenon DEF ReplayRecord, Least
<1>2. i \in Valid(jrnl) /\ i \in DOMAIN jrnl.recs /\ jrnl.recs[i] \in Rec
  BY DEF ReplayRecord, TodoInv, Valid, Journal, TypeOK
<1> QED  BY <1>1, <1>2, Zenon DEF Rec

\* One turn of the loop of write_page calls.
LEMMA WriteBackFacts ==
  ASSUME TypeOK, TodoInv, NEW c \in Conn, WriteBack(c)
  PROVE  \E p \in todo[c] :
           /\ p \in DOMAIN dirty[c] /\ p \in Pages /\ dirty[c][p] \in Nat
           /\ WriteMain(p, dirty[c][p]) /\ todo' = [todo EXCEPT ![c] = @ \ {p}]
<1>1. PICK p \in todo[c] : WriteMain(p, dirty[c][p]) /\ todo' = [todo EXCEPT ![c] = @ \ {p}]
  BY Zenon DEF WriteBack, Least
<1>2. p \in DOMAIN dirty[c] /\ p \in Pages /\ dirty[c][p] \in Nat
  BY Zenon DEF WriteBack, TodoInv, TypeOK, IsPartial
<1> QED  BY <1>1, <1>2, Zenon

\* One turn of the loop of write_record calls.
LEMMA RecordFacts ==
  ASSUME TypeOK, TodoInv, NEW c \in Conn, JournalRecord(c)
  PROVE  \E p \in todo[c], j \in Journal :
           /\ p \in DOMAIN dirty[c] /\ p \in Pages
           /\ j.init = jrnl.init /\ j.n_rec = jrnl.n_rec
           /\ j.recs = Append(jrnl.recs, [page |-> p, data |-> main[p]])
           /\ WriteJournal(j) /\ todo' = [todo EXCEPT ![c] = @ \ {p}]
<1>1. PICK p \in todo[c] :
        /\ WriteJournal([jrnl EXCEPT !.recs = Append(jrnl.recs, [page |-> p, data |-> main[p]])])
        /\ todo' = [todo EXCEPT ![c] = @ \ {p}]
  BY Zenon DEF JournalRecord, Least
<1>2. p \in DOMAIN dirty[c] /\ p \in Pages /\ jrnl \in Journal
  BY Zenon DEF JournalRecord, TodoInv, TypeOK, IsPartial
<1> DEFINE r == Append(jrnl.recs, [page |-> p, data |-> main[p]])
<1>3. r \in Seq(Rec)
  BY <1>2 DEF Journal, Rec, TypeOK
<1> DEFINE j == [jrnl EXCEPT !.recs = r]
<1>4. j \in Journal /\ j.recs = r /\ j.init = jrnl.init /\ j.n_rec = jrnl.n_rec
  <2> HIDE DEF r
  <2> QED  BY <1>2, <1>3, RecsExcept, Zenon
<1> QED  BY <1>1, <1>2, <1>4, Zenon

\* The journal header that flush_locked writes, or its absence.
LEMMA HeaderFacts ==
  ASSUME Counting, TypeOK, NEW c \in Conn, JournalHeader(c)
  PROVE  LET pages == ToJournal(c)
             j == [init |-> main[1], n_rec |-> Cardinality(pages), recs |-> << >>]
         IN  /\ pages \in SUBSET Nat /\ DOMAIN dirty[c] \in SUBSET Nat /\ pages \subseteq DOMAIN dirty[c]
             /\ j \in Journal
             /\ \/ /\ pages = {} /\ pc' = [pc EXCEPT ![c] = "write"]
                   /\ todo' = [todo EXCEPT ![c] = DOMAIN dirty[c]] /\ UNCHANGED <<jrnl, jrnlDisk>>
                \/ /\ pages # {} /\ pc' = [pc EXCEPT ![c] = "journal"]
                   /\ todo' = [todo EXCEPT ![c] = pages] /\ WriteJournal(j)
<1>1. DOMAIN dirty[c] \subseteq Pages /\ ToJournal(c) \subseteq DOMAIN dirty[c]
  BY Zenon DEF ToJournal, TypeOK, IsPartial
<1>2. /\ DOMAIN dirty[c] \in SUBSET Nat /\ ToJournal(c) \in SUBSET Nat
      /\ Cardinality(ToJournal(c)) \in Nat
  BY <1>1 DEF Counting, Pages
<1>3. main[1] \in Nat /\ << >> \in Seq(Rec)
  BY JournalAssumption DEF Pages, TypeOK
<1>4. [init |-> main[1], n_rec |-> Cardinality(ToJournal(c)), recs |-> << >>] \in Journal
  BY <1>2, <1>3, Zenon DEF Journal
<1> QED  BY <1>1, <1>2, <1>4, Zenon DEF JournalHeader, RecordCount

-----------------------------------------------------------------------------
(* Types.                                                                  *)

\* The initial state is well typed.
LEMMA InitType == Init => TypeOK
<1>1. NoJournal \in Journal
  BY DEF NoJournal, Journal
<1> QED
  BY <1>1, PartialFacts, JournalAssumption
  DEF Init, TypeOK, Pages, Absent, Unlocked, Shared, Steps

\* The steps of Pager::open.
LEMMA OpeningType ==
  ASSUME TypeOK, TodoInv, NEW c \in Conn, Opening(c)
  PROVE  TypeOK'
<1> USE DEF TypeOK, files, Steps, AtExclusive, RecoverySteps
<1>1. CASE CheckJournal(c)
  BY <1>1 DEF CheckJournal, IsHot
<1>2. CASE LockShared(c)
  BY <1>2 DEF LockShared, Shared
<1>3. CASE LockSharedFails(c)
  BY <1>3, GoneType, Zenon DEF LockSharedFails
<1>4. CASE CheckReserved(c)
  BY <1>4, GoneType, Zenon DEF CheckReserved
<1>5. CASE OpenJournal(c)
  <2>1. Valid(jrnl) \in SUBSET Nat
    BY DEF Valid
  <2> QED  BY <1>5, <2>1, GoneType DEF OpenJournal
<1>6. CASE ReplayRecord(c)
  <2>1. PICK i \in todo[c] : /\ WriteMain(jrnl.recs[i].page, jrnl.recs[i].data)
                             /\ jrnl.recs[i].page \in Pages /\ jrnl.recs[i].data \in Nat
                             /\ todo' = [todo EXCEPT ![c] = @ \ {i}]
    BY <1>6, ReplayFacts, Zenon
  <2>2. main' \in [Pages -> Nat] /\ mainDisk' \in [Pages -> SUBSET Nat]
    BY <2>1, MainType, Zenon
  <2> QED  BY <1>6, <2>1, <2>2, Zenon DEF ReplayRecord
<1>7. CASE Truncate(c)
  BY <1>7 DEF Truncate, Absent
<1>8. CASE RecoverSync(c)
  BY <1>8 DEF RecoverSync, SyncMain
<1>9. CASE RecoverDelete(c)
  BY <1>9, RemainsType, Zenon DEF RecoverDelete, DeleteJournalFile
<1>10. CASE DeEscalate(c)
  BY <1>10 DEF DeEscalate, Shared
<1> QED
  BY <1>1, <1>2, <1>3, <1>4, <1>5, <1>6, <1>7, <1>8, <1>9, <1>10, Zenon DEF Opening

\* Reads, writes to the dirty set, rollback and drop.
LEMMA WorkingType ==
  ASSUME TypeOK, NEW c \in Conn, Working(c)
  PROVE  TypeOK'
<1> USE DEF TypeOK, files, Steps
<1>1. ASSUME NEW p \in Pages, FillCache(c, p)  PROVE  TypeOK'
  BY <1>1, WithFacts, Zenon DEF FillCache
<1>2. ASSUME NEW p \in Pages, NEW v \in Val, Mutate(c, p, v)  PROVE  TypeOK'
  <2>1. v \in Nat
    BY JournalAssumption
  <2> QED  BY <1>2, <2>1, WithFacts, WithoutFacts, Zenon DEF Mutate
<1>3. CASE Allocate(c)
  <2>1. PageCount(c) \in Nat /\ 1 \in Pages
    <3>1. 1 \in Pages
      BY JournalAssumption DEF Pages
    <3> QED  BY <3>1, Zenon DEF PageCount, ReadPage, IsPartial
  <2>2. PageCount(c) + 1 \in Pages /\ PageCount(c) + 1 \in Nat
    BY <1>3, <2>1, JournalAssumption DEF Allocate, Pages
  <2>3. IsPartial(With(With(dirty[c], PageCount(c) + 1, 0), 1, PageCount(c) + 1))
    BY <2>1, <2>2, WithFacts, Zenon
  <2> QED  BY <1>3, <2>1, <2>3, WithoutFacts, Zenon DEF Allocate
<1>4. CASE Rollback(c)
  BY <1>4, PartialFacts DEF Rollback, ReleaseTxLock, Shared
<1>5. CASE Close(c)
  BY <1>5, GoneType, Zenon DEF Close
<1> QED  BY <1>1, <1>2, <1>3, <1>4, <1>5, Zenon DEF Working

\* The steps of flush.
LEMMA CommittingType ==
  ASSUME Counting, TypeOK, TodoInv, NEW c \in Conn, Committing(c)
  PROVE  TypeOK'
<1> USE DEF TypeOK, files, Steps, AtExclusive, CommitSteps
<1>1. CASE Flush(c)
  BY <1>1, Zenon DEF Flush
<1>2. CASE JournalHeader(c)
  <2>1. jrnl' \in Journal /\ jrnlDisk' \in SUBSET Journal
    BY <1>2, HeaderFacts, JournalType, Zenon
  <2>2. \E S \in SUBSET Nat, s \in Steps : todo' = [todo EXCEPT ![c] = S] /\ pc' = [pc EXCEPT ![c] = s]
    BY <1>2, HeaderFacts, Zenon
  <2>3. todo' \in [Conn -> SUBSET Nat] /\ pc' \in [Conn -> Steps]
    BY <2>2
  <2> QED  BY <1>2, <2>1, <2>3, Zenon DEF JournalHeader
<1>3. CASE JournalRecord(c)
  <2>1. PICK p \in todo[c], j \in Journal : WriteJournal(j) /\ todo' = [todo EXCEPT ![c] = @ \ {p}]
    BY <1>3, RecordFacts, Zenon
  <2> QED  BY <1>3, <2>1, JournalType, Zenon DEF JournalRecord
<1>4. CASE JournalSync(c)
  BY <1>4 DEF JournalSync, IsPartial, Pages
<1>5. CASE WriteBack(c)
  <2>1. PICK p \in todo[c] : /\ p \in Pages /\ dirty[c][p] \in Nat /\ WriteMain(p, dirty[c][p])
                             /\ todo' = [todo EXCEPT ![c] = @ \ {p}]
    BY <1>5, WriteBackFacts, Zenon
  <2> QED  BY <1>5, <2>1, MainType, Zenon DEF WriteBack
<1>6. CASE MainSync(c)
  BY <1>6 DEF MainSync, SyncMain
<1>7. CASE DeleteJournal(c)
  BY <1>7, RemainsType, PartialFacts, Zenon DEF DeleteJournal, DeleteJournalFile
<1>8. CASE IOError(c)
  BY <1>8 DEF IOError
<1>9. CASE LockDown(c)
  BY <1>9 DEF LockDown, Shared
<1> QED
  BY <1>1, <1>2, <1>3, <1>4, <1>5, <1>6, <1>7, <1>8, <1>9, Zenon DEF Committing

\* The steps of begin_immediate, begin_exclusive and set_level.
LEMMA LockingType ==
  ASSUME TypeOK, NEW c \in Conn, Locking(c)
  PROVE  TypeOK'
<1> USE DEF TypeOK, files, Steps
<1>1. ASSUME NEW g \in {"immediate", "exclusive"}, Begin(c, g)  PROVE  TypeOK'
  BY <1>1, Zenon DEF Begin
<1>2. CASE BeginDone(c)
  BY <1>2 DEF BeginDone, TargetOf, Reserved, Exclusive, Shared
<1>3. CASE Climb(c)
  BY <1>3 DEF Climb, TargetOf, Reserved, Exclusive
<1>4. CASE Contended(c)
  BY <1>4, GoneType, Zenon DEF Contended
<1> QED  BY <1>1, <1>2, <1>3, <1>4, Zenon DEF Locking

\* Every step keeps the types.
LEMMA TypeStep == Counting /\ TypeOK /\ TodoInv /\ [Next]_vars => TypeOK'
<1> SUFFICES ASSUME Counting, TypeOK, TodoInv, [Next]_vars  PROVE  TypeOK'
  OBVIOUS
<1>1. CASE PowerLoss
  <2>1. PICK m \in [Pages -> UNION {mainDisk[p] : p \in Pages}] :
          /\ \A p \in Pages : m[p] \in mainDisk[p]
          /\ main' = m /\ mainDisk' = [p \in Pages |-> {m[p]}]
    BY <1>1, Zenon DEF PowerLoss
  <2>2. main' \in [Pages -> Nat] /\ mainDisk' \in [Pages -> SUBSET Nat]
    BY <2>1, Zenon DEF TypeOK
  <2>3. jrnl' \in Journal /\ jrnlDisk' \in SUBSET Journal
    BY <1>1, Zenon DEF PowerLoss, TypeOK
  <2> QED
    BY <1>1, <2>2, <2>3, PartialFacts DEF PowerLoss, TypeOK, Unlocked, Shared, Steps
<1>2. ASSUME NEW c \in Conn, Kill(c)  PROVE  TypeOK'
  BY <1>2, GoneType DEF Kill, TypeOK
<1>3. CASE UNCHANGED vars
  BY <1>3, Zenon DEF TypeOK, vars
<1> QED
  BY <1>1, <1>2, <1>3, OpeningType, WorkingType, CommittingType, LockingType, Zenon DEF Next

-----------------------------------------------------------------------------
(* Locks.                                                                  *)

\* The part of TypeOK that the locks depend on.
LockTypes ==
  /\ level \in [Conn -> 0 .. 4] /\ pc \in [Conn -> Steps]
  /\ goal \in [Conn -> {"none", "recover", "immediate", "exclusive", "flush"}]

\* Exclusive is held alone, and what each step of a connection holds.
LEMMA InitLock == Init => LockInv
BY DEF Init, LockInv, AtExclusive, CommitSteps, RecoverySteps, Unlocked, Exclusive

\* A connection that goes gives its lock back.
LEMMA GoneLock ==
  ASSUME LockTypes, LockInv, NEW c \in Conn, Gone(c)
  PROVE  LockInv'
BY DEF LockTypes, LockInv, Gone, AtExclusive, CommitSteps, RecoverySteps, Unlocked, Exclusive

\* Somebody else's Exclusive leaves nothing to a connection that is past
\* lock_shared.
LEMMA ExclusiveAlone ==
  ASSUME TypeOK, LockInv, NEW c \in Conn, level[c] = Exclusive, NEW d \in Conn, d # c
  PROVE  pc[d] \in {"closed", "open"}
BY DEF TypeOK, LockInv, Steps, AtExclusive, Exclusive, Unlocked, Shared

\* Pager::open keeps the lock discipline.
LEMMA OpeningLock ==
  ASSUME LockTypes, LockInv, NEW c \in Conn, Opening(c)
  PROVE  LockInv'
<1> USE DEF LockTypes, LockInv, AtExclusive, CommitSteps, RecoverySteps, Unlocked, Shared, Exclusive
<1>1. CASE CheckJournal(c)
  BY <1>1, Zenon DEF CheckJournal
<1>2. CASE LockShared(c)
  BY <1>2 DEF LockShared, Others
<1>3. CASE LockSharedFails(c)
  BY <1>3, GoneLock, Zenon DEF LockSharedFails
<1>4. CASE CheckReserved(c)
  BY <1>4, GoneLock DEF CheckReserved
<1>5. CASE OpenJournal(c)
  BY <1>5, GoneLock DEF OpenJournal
<1>6. CASE ReplayRecord(c)
  BY <1>6, Zenon DEF ReplayRecord
<1>7. CASE Truncate(c)
  BY <1>7, Zenon DEF Truncate
<1>8. CASE RecoverSync(c)
  BY <1>8, Zenon DEF RecoverSync
<1>9. CASE RecoverDelete(c)
  BY <1>9, Zenon DEF RecoverDelete
<1>10. CASE DeEscalate(c)
  BY <1>10 DEF DeEscalate
<1> QED
  BY <1>1, <1>2, <1>3, <1>4, <1>5, <1>6, <1>7, <1>8, <1>9, <1>10, Zenon DEF Opening

\* Between calls only rollback changes the lock.
LEMMA WorkingLock ==
  ASSUME LockTypes, LockInv, NEW c \in Conn, Working(c)
  PROVE  LockInv'
<1> USE DEF LockTypes, LockInv, AtExclusive, CommitSteps, RecoverySteps, Unlocked, Shared, Exclusive
<1>1. CASE UNCHANGED <<level, pc, goal>>
  BY <1>1, Zenon
<1>2. CASE Rollback(c)
  BY <1>2 DEF Rollback, ReleaseTxLock
<1>3. CASE Close(c)
  BY <1>3, GoneLock, Zenon DEF Close
<1> QED  BY <1>1, <1>2, <1>3, Zenon DEF Working, FillCache, Mutate, Allocate

\* flush works at Exclusive from the journal header to the end.
LEMMA CommittingLock ==
  ASSUME LockTypes, LockInv, NEW c \in Conn, Committing(c)
  PROVE  LockInv'
<1> USE DEF LockTypes, LockInv, AtExclusive, CommitSteps, RecoverySteps, Unlocked, Shared, Exclusive
<1>1. CASE Flush(c)
  BY <1>1, Zenon DEF Flush
<1>2. CASE JournalHeader(c)
  BY <1>2, Zenon DEF JournalHeader
<1>3. CASE UNCHANGED <<level, pc, goal>>
  BY <1>3, Zenon
<1>4. CASE JournalSync(c)
  BY <1>4, Zenon DEF JournalSync
<1>5. CASE MainSync(c)
  BY <1>5, Zenon DEF MainSync
<1>6. CASE DeleteJournal(c)
  BY <1>6, Zenon DEF DeleteJournal
<1>7. CASE IOError(c)
  BY <1>7, Zenon DEF IOError
<1>8. CASE LockDown(c)
  BY <1>8 DEF LockDown
<1> QED
  BY <1>1, <1>2, <1>3, <1>4, <1>5, <1>6, <1>7, <1>8, Zenon DEF Committing, JournalRecord, WriteBack

\* A rung is taken only when it is free.
LEMMA LockingLock ==
  ASSUME LockTypes, LockInv, NEW c \in Conn, Locking(c)
  PROVE  LockInv'
<1> USE DEF LockTypes, LockInv, AtExclusive, CommitSteps, RecoverySteps, Unlocked, Shared, Exclusive
<1>1. ASSUME NEW g \in {"immediate", "exclusive"}, Begin(c, g)  PROVE  LockInv'
  BY <1>1, Zenon DEF Begin
<1>2. CASE BeginDone(c)
  BY <1>2 DEF BeginDone, TargetOf, Reserved
<1>3. CASE Climb(c)
  <2>1. level[c] \in {Shared, Reserved, Pending}
    BY <1>3 DEF Climb, TargetOf, Reserved, Pending
  <2>2. level[c] = Pending => \A d \in Conn : d # c => level[d] = Unlocked
    <3>1. level[c] = Pending => (RungFree(c) <=> \A d \in Others(c) : level[d] = Unlocked)
      BY DEF RungFree, Pending, Reserved
    <3> QED  BY <1>3, <3>1, Zenon DEF Climb, Others
  <2>3. \A d \in Conn : d # c => level[d] # Exclusive
    BY <1>3 DEF Climb
  <2>4. level' = [level EXCEPT ![c] = level[c] + 1] /\ pc' = pc /\ goal' = goal /\ pc[c] = "climb"
    BY <1>3, Zenon DEF Climb
  <2> QED  BY <2>1, <2>2, <2>3, <2>4 DEF Reserved, Pending
<1>4. CASE Contended(c)
  BY <1>4, GoneLock DEF Contended
<1> QED  BY <1>1, <1>2, <1>3, <1>4, Zenon DEF Locking

\* Every step keeps the lock discipline.
LEMMA LockStep == TypeOK /\ LockInv /\ [Next]_vars => LockInv'
<1> SUFFICES ASSUME TypeOK, LockInv, [Next]_vars  PROVE  LockInv'
  OBVIOUS
<1>0. LockTypes
  BY Zenon DEF TypeOK, LockTypes
<1>1. CASE PowerLoss
  BY <1>1, Zenon DEF PowerLoss, LockInv, AtExclusive, CommitSteps, RecoverySteps, Unlocked, Exclusive
<1>2. ASSUME NEW c \in Conn, Kill(c)  PROVE  LockInv'
  BY <1>0, <1>2, GoneLock, Zenon DEF Kill
<1>3. CASE UNCHANGED vars
  BY <1>3, Zenon DEF LockInv, vars
<1> QED
  BY <1>0, <1>1, <1>2, <1>3, OpeningLock, WorkingLock, CommittingLock, LockingLock, Zenon DEF Next

-----------------------------------------------------------------------------
(* Loops.                                                                  *)

\* Nobody is in a loop at the start.
LEMMA InitTodo == Init => TodoInv
BY Zenon DEF Init, TodoInv, RecoverySteps

\* While c holds Exclusive nobody else is replaying or committing.
LEMMA OthersIdle ==
  ASSUME TypeOK, LockInv, NEW c \in Conn, level[c] = Exclusive, NEW d \in Conn, d # c
  PROVE  pc[d] \notin RecoverySteps \union CommitSteps
BY ExclusiveAlone, Zenon DEF RecoverySteps, CommitSteps

\* The loops run over records of the journal and over dirty pages.
LEMMA TodoStep == TypeOK /\ LockInv /\ TodoInv /\ [Next]_vars => TodoInv'
<1> SUFFICES ASSUME TypeOK, LockInv, TodoInv, [Next]_vars  PROVE  TodoInv'
  OBVIOUS
<1>0. pc \in [Conn -> Steps] /\ todo \in [Conn -> SUBSET Nat] /\ DOMAIN dirty = Conn
  BY Zenon DEF TypeOK
<1> USE DEF TodoInv, RecoverySteps, CommitSteps, AtExclusive
<1>1. CASE PowerLoss
  BY <1>1, Zenon DEF PowerLoss
<1>2. CASE UNCHANGED vars
  BY <1>2, Zenon DEF vars, IsHot, Valid
<1>3. ASSUME NEW c \in Conn, Gone(c), UNCHANGED files  PROVE  TodoInv'
  BY <1>0, <1>3, Zenon DEF Gone, files, IsHot, Valid
<1>4. ASSUME NEW c \in Conn, Opening(c)  PROVE  TodoInv'
  <2>1. CASE CheckJournal(c)
    BY <1>0, <2>1, Zenon DEF CheckJournal, files, IsHot, Valid
  <2>2. CASE LockShared(c)
    BY <1>0, <2>2, Zenon DEF LockShared, files, IsHot, Valid
  <2>3. CASE CheckReserved(c) \/ LockSharedFails(c)
    BY <1>0, <2>3, <1>3, Zenon DEF CheckReserved, LockSharedFails, files, IsHot, Valid
  <2>8. CASE OpenJournal(c)
    <3>1. CASE IsHot(jrnl)
      <4>1. UNCHANGED <<jrnl, dirty>> /\ Valid(jrnl)' = Valid(jrnl) /\ IsHot(jrnl)'
        BY <2>8, <3>1, Zenon DEF OpenJournal, files, Valid, IsHot
      <4>2. pc' = [pc EXCEPT ![c] = "replay"] /\ todo' = [todo EXCEPT ![c] = Valid(jrnl)]
        BY <2>8, <3>1, Zenon DEF OpenJournal
      <4> QED  BY <1>0, <4>1, <4>2, Zenon
    <3> QED  BY <2>8, <3>1, <1>3, Zenon DEF OpenJournal
  <2>4. CASE ReplayRecord(c)
    <3>1. /\ \E i \in todo[c] : todo' = [todo EXCEPT ![c] = todo[c] \ {i}]
          /\ UNCHANGED <<jrnl, pc, dirty>>
      BY <2>4, Zenon DEF ReplayRecord, Least
    <3> QED  BY <1>0, <3>1 DEF IsHot, Valid
  <2>5. CASE Truncate(c) \/ RecoverSync(c)
    BY <1>0, <2>5, Zenon DEF Truncate, RecoverSync, IsHot, Valid
  <2>6. CASE RecoverDelete(c)
    <3>1. level[c] = Exclusive
      BY <2>6, Zenon DEF RecoverDelete, LockInv
    <3> QED  BY <1>0, <2>6, <3>1, OthersIdle, Zenon DEF RecoverDelete
  <2>7. CASE DeEscalate(c)
    BY <1>0, <2>7, Zenon DEF DeEscalate, files, IsHot, Valid
  <2> HIDE DEF TodoInv
  <2> QED  BY <1>4, <2>1, <2>2, <2>3, <2>4, <2>5, <2>6, <2>7, <2>8, Zenon DEF Opening
<1>5. ASSUME NEW c \in Conn, Working(c)  PROVE  TodoInv'
  <2>2. ASSUME pc[c] = "ready", UNCHANGED <<jrnl, pc, todo>>, \A d \in Conn : d # c => dirty'[d] = dirty[d]
        PROVE  TodoInv'
    BY <2>2, Zenon DEF IsHot, Valid
  <2> HIDE DEF TodoInv
  <2>1. CASE Close(c)
    BY <2>1, <1>3, Zenon DEF Close
  <2> QED
    BY <1>0, <1>5, <2>1, <2>2, Zenon DEF Working, FillCache, Mutate, Allocate, Rollback, files
<1>6. ASSUME NEW c \in Conn, Committing(c)  PROVE  TodoInv'
  <2>1. CASE Flush(c) \/ IOError(c) \/ LockDown(c) \/ MainSync(c)
    BY <1>0, <2>1, Zenon DEF Flush, IOError, LockDown, MainSync, files, IsHot, Valid
  <2>2. CASE JournalHeader(c)
    <3>1. ToJournal(c) \subseteq DOMAIN dirty[c]
      BY Zenon DEF ToJournal
    <3> QED  BY <1>0, <2>2, <3>1, OthersIdle DEF JournalHeader
  <2>3. CASE JournalRecord(c)
    <3>1. level[c] = Exclusive
      BY <2>3, Zenon DEF JournalRecord, LockInv
    <3>2. /\ \E p \in todo[c] : todo' = [todo EXCEPT ![c] = todo[c] \ {p}]
          /\ UNCHANGED <<pc, dirty>> /\ pc[c] = "journal"
      BY <2>3, Zenon DEF JournalRecord, Least
    <3> QED  BY <1>0, <3>1, <3>2, OthersIdle
  <2>4. CASE JournalSync(c)
    BY <1>0, <2>4, Zenon DEF JournalSync, IsHot, Valid
  <2>5. CASE WriteBack(c)
    <3>1. /\ \E p \in todo[c] : todo' = [todo EXCEPT ![c] = todo[c] \ {p}]
          /\ UNCHANGED <<jrnl, pc, dirty>>
      BY <2>5, Zenon DEF WriteBack, Least
    <3> QED  BY <1>0, <3>1 DEF IsHot, Valid
  <2>6. CASE DeleteJournal(c)
    <3>1. level[c] = Exclusive
      BY <2>6, Zenon DEF DeleteJournal, LockInv
    <3> QED  BY <1>0, <2>6, <3>1, OthersIdle, Zenon DEF DeleteJournal
  <2> HIDE DEF TodoInv
  <2> QED  BY <1>6, <2>1, <2>2, <2>3, <2>4, <2>5, <2>6, Zenon DEF Committing
<1>7. ASSUME NEW c \in Conn, Locking(c)  PROVE  TodoInv'
  <2>1. CASE Contended(c) /\ ~ Gone(c)
    BY <1>0, <2>1, Zenon DEF Contended, files, IsHot, Valid
  <2>2. CASE BeginDone(c) \/ Climb(c)
    BY <1>0, <2>2, Zenon DEF BeginDone, Climb, files, IsHot, Valid
  <2>3. ASSUME NEW g \in {"immediate", "exclusive"}, Begin(c, g)  PROVE  TodoInv'
    BY <1>0, <2>3, Zenon DEF Begin, files, IsHot, Valid
  <2> HIDE DEF TodoInv
  <2>4. CASE Contended(c) /\ Gone(c)
    BY <2>4, <1>3, Zenon DEF Contended
  <2> QED  BY <1>7, <2>1, <2>2, <2>3, <2>4, Zenon DEF Locking
<1> HIDE DEF TodoInv
<1> QED
  BY <1>1, <1>2, <1>3, <1>4, <1>5, <1>6, <1>7, Zenon DEF Next, Kill

-----------------------------------------------------------------------------
(* Who knows of a hot journal.                                             *)

\* A hot journal outlives its writer only in front of connections that have
\* seen it, or will.
LEMMA HotStep == NoKillRace /\ TypeOK /\ LockInv /\ HotInv /\ [Next]_vars => HotInv'
<1> SUFFICES ASSUME NoKillRace, TypeOK, LockInv, HotInv, [Next]_vars, fails'.io = 0, IsHot(jrnl)'
             PROVE  (\E d \in Conn : pc'[d] \in CommitSteps) \/ (\A c \in Conn : Aware(c)')
  BY Zenon DEF HotInv
<1>0. LockTypes /\ hot \in [Conn -> BOOLEAN] /\ fails \in [kill : Nat, io : Nat]
  BY Zenon DEF TypeOK, LockTypes
<1> USE DEF RecoverySteps, CommitSteps, AtExclusive, Aware, LockTypes
<1>1. CASE PowerLoss
  BY <1>1, Zenon DEF PowerLoss
<1>2. CASE UNCHANGED vars
  BY <1>2, Zenon DEF HotInv, vars, IsHot
<1>3. ASSUME NEW c \in Conn, Gone(c), UNCHANGED <<files, fails>>, pc[c] \notin CommitSteps
      PROVE  (\E d \in Conn : pc'[d] \in CommitSteps) \/ (\A d \in Conn : Aware(d)')
  BY <1>0, <1>3 DEF HotInv, Gone, files, IsHot
<1>4. ASSUME NEW c \in Conn, Opening(c)
      PROVE  (\E d \in Conn : pc'[d] \in CommitSteps) \/ (\A d \in Conn : Aware(d)')
  <2>1. CASE CheckJournal(c)
    BY <1>0, <2>1, Zenon DEF CheckJournal, HotInv, files, IsHot
  <2>2. CASE LockShared(c)
    <3>1. \A d \in Conn : pc[d] \notin CommitSteps
      BY <2>2, Zenon DEF LockShared, Others, LockInv
    <3>2. \A d \in Conn : Aware(d)
      BY <2>2, <3>1, Zenon DEF LockShared, HotInv, files
    <3> QED  BY <1>0, <2>2, <3>2 DEF LockShared
  <2>3. CASE LockSharedFails(c) \/ CheckReserved(c) \/ OpenJournal(c)
    BY <1>0, <2>3, <1>3 DEF LockSharedFails, CheckReserved, OpenJournal, HotInv, files, IsHot
  <2>4. CASE ReplayRecord(c) \/ Truncate(c) \/ RecoverSync(c)
    BY <1>0, <2>4 DEF ReplayRecord, Truncate, RecoverSync, HotInv, IsHot
  <2>5. CASE RecoverDelete(c)
    BY <2>5 DEF RecoverDelete, DeleteJournalFile, IsHot, NoJournal
  <2>6. CASE DeEscalate(c)
    <3>1. level[c] = Exclusive /\ pc[c] = "rdown"
      BY <2>6, Zenon DEF DeEscalate, LockInv
    <3>2. ~ \E d \in Conn : pc[d] \in CommitSteps
      BY <3>1, OthersIdle, Zenon
    <3> QED  BY <2>6, <3>1, <3>2, Zenon DEF DeEscalate, HotInv, files, IsHot
  <2> QED  BY <1>4, <2>1, <2>2, <2>3, <2>4, <2>5, <2>6, Zenon DEF Opening
<1>5. ASSUME NEW c \in Conn, Working(c)
      PROVE  (\E d \in Conn : pc'[d] \in CommitSteps) \/ (\A d \in Conn : Aware(d)')
  <2>1. CASE UNCHANGED <<jrnl, pc, goal, hot, fails>>
    BY <2>1, Zenon DEF HotInv, IsHot
  <2> QED
    BY <1>5, <2>1, <1>3, Zenon DEF Working, FillCache, Mutate, Allocate, Rollback, Close, files
<1>6. ASSUME NEW c \in Conn, Committing(c)
      PROVE  (\E d \in Conn : pc'[d] \in CommitSteps) \/ (\A d \in Conn : Aware(d)')
  <2>1. CASE pc'[c] \in CommitSteps
    BY <2>1, Zenon
  <2>2. CASE Flush(c) \/ LockDown(c)
    BY <1>0, <2>2, Zenon DEF Flush, LockDown, HotInv, files, IsHot
  <2>3. CASE DeleteJournal(c)
    BY <2>3 DEF DeleteJournal, DeleteJournalFile, IsHot, NoJournal
  <2>4. CASE IOError(c)
    BY <1>0, <2>4 DEF IOError
  <2>5. CASE JournalHeader(c) \/ JournalRecord(c) \/ JournalSync(c) \/ WriteBack(c) \/ MainSync(c)
    BY <1>0, <2>1, <2>5, Zenon DEF JournalHeader, JournalRecord, JournalSync, WriteBack, MainSync
  <2> QED  BY <1>6, <2>2, <2>3, <2>4, <2>5, Zenon DEF Committing
<1>7. ASSUME NEW c \in Conn, Locking(c)
      PROVE  (\E d \in Conn : pc'[d] \in CommitSteps) \/ (\A d \in Conn : Aware(d)')
  <2>1. CASE Contended(c)
    BY <1>0, <2>1, <1>3, Zenon DEF Contended, HotInv, files, IsHot
  <2>2. CASE BeginDone(c) \/ Climb(c)
    BY <1>0, <2>2, Zenon DEF BeginDone, Climb, HotInv, files, IsHot
  <2>3. ASSUME NEW g \in {"immediate", "exclusive"}, Begin(c, g)
        PROVE  (\E d \in Conn : pc'[d] \in CommitSteps) \/ (\A d \in Conn : Aware(d)')
    BY <1>0, <2>3, Zenon DEF Begin, HotInv, files, IsHot
  <2> QED  BY <1>7, <2>1, <2>2, <2>3, Zenon DEF Locking
<1>8. ASSUME NEW c \in Conn, Kill(c)
      PROVE  \A d \in Conn : Aware(d)'
  BY <1>0, <1>8, Zenon DEF Kill, Gone, NoKillRace
<1> QED  BY <1>1, <1>2, <1>4, <1>5, <1>6, <1>7, <1>8, Zenon DEF Next

-----------------------------------------------------------------------------
(* The page cache.                                                         *)

\* Cached pages are the file's: only a connection at Exclusive writes it, and
\* it has dropped the pages it writes from its own cache.
LEMMA OthersEmpty ==
  ASSUME TypeOK, LockInv, CacheInv, NEW c \in Conn, level[c] = Exclusive, NEW d \in Conn, d # c
  PROVE  DOMAIN dirty[d] = {} /\ DOMAIN cache[d] = {}
BY ExclusiveAlone, Zenon DEF CacheInv, Opened, CommitSteps

\* The page count that a connection sees is never below that of the file.
LEMMA PageCountIs ==
  ASSUME TypeOK, CacheInv, NEW c \in Conn
  PROVE  /\ PageCount(c) = IF 1 \in DOMAIN dirty[c] THEN dirty[c][1] ELSE main[1]
         /\ PageCount(c) \in Nat /\ PageCount(c) >= main[1] /\ main[1] \in Nat /\ 1 \in Pages
BY JournalAssumption DEF CacheInv, PageCount, ReadPage, TypeOK, IsPartial, Pages

\* The cache never holds what somebody has since changed: the file changes only
\* at Exclusive, and then nobody else has a cache.
LEMMA CacheStep == TypeOK /\ LockInv /\ TodoInv /\ CacheInv /\ [Next]_vars => CacheInv'
<1> SUFFICES ASSUME TypeOK, LockInv, TodoInv, CacheInv, [Next]_vars  PROVE  CacheInv'
  OBVIOUS
<1>0. LockTypes /\ DOMAIN dirty = Conn /\ DOMAIN cache = Conn
  BY Zenon DEF TypeOK, LockTypes
<1>9. main \in [Pages -> Nat] /\ \A c \in Conn : IsPartial(dirty[c]) /\ IsPartial(cache[c])
  BY Zenon DEF TypeOK
<1> USE DEF CacheInv, Opened, CommitSteps, LockTypes
<1>1. CASE PowerLoss
  BY <1>1, PartialFacts, Zenon DEF PowerLoss
<1>2. CASE UNCHANGED vars
  BY <1>2, Zenon DEF vars
<1>3. ASSUME NEW c \in Conn, Gone(c), UNCHANGED files  PROVE  CacheInv'
  BY <1>0, <1>3, PartialFacts, Zenon DEF Gone, files
<1>4. ASSUME NEW c \in Conn, level[c] = Exclusive, ~ Opened(c), ~ Opened(c)', UNCHANGED <<dirty, cache>>,
             \A d \in Conn : d # c => UNCHANGED <<pc[d], goal[d]>>
      PROVE  CacheInv'
  BY <1>4, OthersEmpty, Zenon
<1>5. ASSUME NEW c \in Conn, Opening(c)  PROVE  CacheInv'
  <2>1. CASE CheckJournal(c) \/ LockShared(c) \/ DeEscalate(c)
    BY <1>0, <2>1 DEF CheckJournal, LockShared, DeEscalate, files
  <2>2. CASE LockSharedFails(c) \/ CheckReserved(c) \/ OpenJournal(c)
    BY <1>0, <2>2, <1>3 DEF LockSharedFails, CheckReserved, OpenJournal, files
  <2>3. CASE ReplayRecord(c) \/ Truncate(c) \/ RecoverSync(c) \/ RecoverDelete(c)
    <3>1. level[c] = Exclusive /\ ~ Opened(c) /\ ~ Opened(c)'
      BY <1>0, <2>3 DEF ReplayRecord, Truncate, RecoverSync, RecoverDelete, LockInv, AtExclusive, RecoverySteps
    <3> QED  BY <1>0, <2>3, <3>1, <1>4 DEF ReplayRecord, Truncate, RecoverSync, RecoverDelete
  <2> QED  BY <1>5, <2>1, <2>2, <2>3, Zenon DEF Opening
<1>6. ASSUME NEW c \in Conn, Working(c)  PROVE  CacheInv'
  <2>1. ASSUME NEW p \in Pages, FillCache(c, p)  PROVE  CacheInv'
    <3>1. /\ DOMAIN cache'[c] = DOMAIN cache[c] \union {p} /\ cache'[c][p] = main[p]
          /\ \A q \in DOMAIN cache[c] \ {p} : cache'[c][q] = cache[c][q]
      <4>1. cache'[c] = With(cache[c], p, main[p])
        BY <1>0, <2>1, Zenon DEF FillCache
      <4>2. IsPartial(cache[c]) /\ main[p] \in Nat
        BY Zenon DEF TypeOK
      <4> QED  BY <4>1, <4>2, WithFacts
    <3>2. p <= main[1] /\ p \notin DOMAIN dirty[c]
      BY <2>1, PageCountIs DEF FillCache, Pages
    <3>3. UNCHANGED <<main, pc, goal, dirty>> /\ pc[c] = "ready" /\ \A d \in Conn : d # c => cache'[d] = cache[d]
      BY <1>0, <2>1, Zenon DEF FillCache, files
    <3> QED  BY <3>1, <3>2, <3>3
  <2>2. ASSUME NEW p \in Pages, NEW v \in Val, Mutate(c, p, v)  PROVE  CacheInv'
    <3>1. v \in Nat
      BY JournalAssumption
    <3>2. /\ DOMAIN dirty'[c] = DOMAIN dirty[c] \union {p} /\ p # 1
          /\ \A q \in DOMAIN dirty[c] \ {p} : dirty'[c][q] = dirty[c][q]
      <4>1. dirty'[c] = With(dirty[c], p, v) /\ p # 1
        BY <1>0, <2>2 DEF Mutate
      <4>2. IsPartial(dirty[c])
        BY Zenon DEF TypeOK
      <4> QED  BY <3>1, <4>1, <4>2, WithFacts
    <3>3. /\ DOMAIN cache'[c] = DOMAIN cache[c] \ {p}
          /\ \A q \in DOMAIN cache[c] \ {p} : cache'[c][q] = cache[c][q]
      <4>1. cache'[c] = Without(cache[c], p)
        BY <1>0, <2>2, Zenon DEF Mutate
      <4>2. IsPartial(cache[c])
        BY Zenon DEF TypeOK
      <4> QED  BY <4>1, <4>2, WithoutFacts
    <3>4. /\ UNCHANGED <<main, pc, goal>> /\ pc[c] = "ready"
          /\ \A d \in Conn : d # c => cache'[d] = cache[d] /\ dirty'[d] = dirty[d]
      BY <1>0, <2>2, Zenon DEF Mutate, files
    <3> QED  BY <3>2, <3>3, <3>4
  <2>3. CASE Allocate(c)
    <3> DEFINE n == PageCount(c) + 1
    <3>1. n \in Pages /\ n \in Nat /\ 1 \in Pages /\ main[1] < n /\ main[1] \in Nat
      BY <2>3, PageCountIs, JournalAssumption DEF Allocate, Pages
    <3>2. /\ 1 \notin DOMAIN dirty[c] => n = main[1] + 1
          /\ 1 \in DOMAIN dirty[c] => n = dirty[c][1] + 1 /\ dirty[c][1] \in Nat
      BY PageCountIs, Zenon
    <3>3. /\ dirty'[c] = With(With(dirty[c], n, 0), 1, n) /\ cache'[c] = Without(cache[c], 1)
          /\ UNCHANGED <<main, pc, goal>> /\ pc[c] = "ready"
          /\ \A d \in Conn : d # c => cache'[d] = cache[d] /\ dirty'[d] = dirty[d]
      BY <1>0, <2>3, Zenon DEF Allocate, files
    <3>9. IsPartial(dirty[c]) /\ IsPartial(cache[c]) /\ 0 \in Nat
      BY Zenon DEF TypeOK
    <3> HIDE DEF n
    <3>4. /\ DOMAIN dirty'[c] = DOMAIN dirty[c] \union {1, n} /\ dirty'[c][1] = n
          /\ DOMAIN cache'[c] = DOMAIN cache[c] \ {1}
          /\ \A q \in DOMAIN cache[c] \ {1} : cache'[c][q] = cache[c][q]
      <4> DEFINE h == With(With(dirty[c], n, 0), 1, n)
      <4> DEFINE k == Without(cache[c], 1)
      <4>1. DOMAIN h = DOMAIN dirty[c] \union {1, n} /\ h[1] = n
        BY <3>1, Zenon DEF With
      <4>2. DOMAIN k = DOMAIN cache[c] \ {1} /\ \A q \in DOMAIN cache[c] \ {1} : k[q] = cache[c][q]
        BY Zenon DEF Without
      <4>3. dirty'[c] = h /\ cache'[c] = k
        BY <3>3, Zenon
      <4> HIDE DEF h, k
      <4> QED  BY <4>1, <4>2, <4>3, Zenon
    <3>7. n \notin DOMAIN cache[c]
      BY <3>1
    <3>8. \A p \in Pages : main[1] < p /\ p <= n => p \in DOMAIN dirty'[c]
      BY <3>1, <3>2, <3>4 DEF Pages
    <3> QED  BY <3>1, <3>3, <3>4, <3>7, <3>8
  <2>4. CASE Rollback(c)
    BY <1>0, <2>4, PartialFacts, Zenon DEF Rollback, files
  <2>5. CASE Close(c)
    BY <2>5, <1>3, Zenon DEF Close
  <2> QED  BY <1>6, <2>1, <2>2, <2>3, <2>4, <2>5, Zenon DEF Working
<1>7. ASSUME NEW c \in Conn, Committing(c)  PROVE  CacheInv'
  <2>1. CASE Flush(c) \/ JournalHeader(c) \/ JournalRecord(c) \/ JournalSync(c) \/ IOError(c) \/ LockDown(c)
    <3>1. Opened(c)' /\ UNCHANGED <<main, dirty, cache>> /\ \A d \in Conn : d # c => UNCHANGED <<pc[d], goal[d]>>
      BY <1>0, <2>1 DEF Flush, JournalHeader, JournalRecord, JournalSync, IOError, LockDown, files
    <3> QED  BY <3>1, Zenon
  <2>2. CASE WriteBack(c)
    <3>1. PICK p \in todo[c] : main' = [main EXCEPT ![p] = dirty[c][p]]
      BY <2>2, Zenon DEF WriteBack, WriteMain, Least
    <3>2. level[c] = Exclusive /\ p \in DOMAIN dirty[c] /\ p \in Pages /\ UNCHANGED <<pc, goal, dirty, cache>>
      BY <1>0, <1>9, <2>2, Zenon DEF WriteBack, LockInv, AtExclusive, TodoInv, IsPartial
    <3>10. /\ main \in [Pages -> Nat] /\ 1 \in Pages /\ dirty[c][p] \in Nat
           /\ 1 \in DOMAIN dirty[c] => dirty[c][1] >= main[1]
      <4>1. 1 \in Pages
        BY JournalAssumption DEF Pages
      <4> QED  BY <1>9, <3>2, <4>1, Zenon DEF IsPartial
    <3>11. \A q \in DOMAIN cache[c] : q \in Pages /\ q <= main[1] /\ q \notin DOMAIN dirty[c]
      BY <1>9, Zenon DEF IsPartial
    <3>3. 1 \in Pages /\ main[1] \in Nat /\ main'[1] \in Nat /\ main[1] <= main'[1]
      <4> HIDE DEF CacheInv
      <4> QED  BY <3>1, <3>2, <3>10
    <3>4. \A d \in Conn : d # c => DOMAIN dirty[d] = {} /\ DOMAIN cache[d] = {}
      BY <3>2, OthersEmpty, Zenon
    <3>5. \A q \in DOMAIN cache[c] : q \in Pages /\ q # p /\ main'[q] = main[q] /\ q <= main'[1]
      <4> HIDE DEF CacheInv
      <4> QED  BY <3>1, <3>2, <3>3, <3>10, <3>11 DEF Pages
    <3>6. 1 \in DOMAIN dirty[c] => main'[1] \in {main[1], dirty[c][1]} /\ dirty[c][1] \in Nat
      BY <1>9, <3>1, <3>2, <3>3, Zenon DEF IsPartial
    <3>7. \A q \in Pages : main'[1] < q => main[1] < q
      BY <3>3 DEF Pages
    <3> QED  BY <3>2, <3>3, <3>4, <3>5, <3>6, <3>7
  <2>3. CASE MainSync(c)
    BY <1>0, <2>3 DEF MainSync, SyncMain
  <2>4. CASE DeleteJournal(c)
    BY <1>0, <2>4, PartialFacts, Zenon DEF DeleteJournal
  <2> QED  BY <1>7, <2>1, <2>2, <2>3, <2>4, Zenon DEF Committing
<1>8. ASSUME NEW c \in Conn, Locking(c)  PROVE  CacheInv'
  <2>1. CASE Contended(c)
    BY <1>0, <2>1, <1>3 DEF Contended, files, LockInv
  <2>2. CASE BeginDone(c) \/ Climb(c)
    BY <1>0, <2>2 DEF BeginDone, Climb, files
  <2>3. ASSUME NEW g \in {"immediate", "exclusive"}, Begin(c, g)  PROVE  CacheInv'
    BY <1>0, <2>3, Zenon DEF Begin, files
  <2> QED  BY <1>8, <2>1, <2>2, <2>3, Zenon DEF Locking
<1> QED
  BY <1>1, <1>2, <1>3, <1>5, <1>6, <1>7, <1>8, Zenon DEF Next, Kill

-----------------------------------------------------------------------------
(* Page 1.                                                                 *)

\* A cut journal still has a positive page count.
LEMMA PositiveRemains ==
  ASSUME NEW j \in Journal, PositiveSize(j)
  PROVE  \A k \in Remains(j) : PositiveSize(k)
<1>1. PositiveSize(NoJournal)
  BY DEF PositiveSize, NoJournal
<1>2. ASSUME NEW n \in 0 .. Len(j.recs)  PROVE  PositiveSize([j EXCEPT !.recs = SubSeq(j.recs, 1, n)])
  <2> DEFINE r == SubSeq(j.recs, 1, n)
  <2>1. j.recs \in Seq(Rec)
    BY Zenon DEF Journal
  <2>2. r \in Seq(Rec) /\ DOMAIN r \subseteq DOMAIN j.recs /\ \A i \in DOMAIN r : r[i] = j.recs[i]
    BY <2>1
  <2>3. [j EXCEPT !.recs = r].recs = r
    BY <2>2, RecsExcept
  <2> QED  BY <2>2, <2>3, Zenon DEF PositiveSize
<1> QED  BY <1>1, <1>2, Zenon DEF Remains

\* write_record keeps the recorded page counts positive.
LEMMA PositiveJournal ==
  ASSUME PageOneInv, NEW j \in Journal, PositiveSize(j), WriteJournal(j)
  PROVE  PositiveSize(jrnl)' /\ \A k \in jrnlDisk' : PositiveSize(k)
BY PositiveRemains, Zenon DEF WriteJournal, PageOneInv, PositiveSize

\* write_page keeps the page count of the file positive.
LEMMA PositiveMain ==
  ASSUME TypeOK, PageOneInv, NEW p \in Pages, NEW v \in Nat, p = 1 => v >= 1, WriteMain(p, v)
  PROVE  main'[1] >= 1 /\ \A w \in mainDisk'[1] : w >= 1
BY JournalAssumption DEF WriteMain, PageOneInv, TypeOK, Torn, Pages

\* The page count in page 1 is positive in the file and in every pre-image.
LEMMA PageOneStep == Counting /\ TypeOK /\ TodoInv /\ CacheInv /\ PageOneInv /\ [Next]_vars => PageOneInv'
<1> SUFFICES ASSUME Counting, TypeOK, TodoInv, CacheInv, PageOneInv, [Next]_vars  PROVE  PageOneInv'
  OBVIOUS
<1>1. 1 \in Pages /\ main[1] \in Nat
  BY JournalAssumption DEF Pages, TypeOK
<1>2. CASE PowerLoss
  BY <1>1, <1>2 DEF PowerLoss, PageOneInv, PositiveSize
<1>3. CASE UNCHANGED files
  BY <1>3, Zenon DEF files, PageOneInv, PositiveSize
<1>4. ASSUME UNCHANGED <<jrnl, jrnlDisk>>, main'[1] >= 1 /\ \A w \in mainDisk'[1] : w >= 1
      PROVE  PageOneInv'
  BY <1>4, Zenon DEF PageOneInv, PositiveSize
<1>5. ASSUME NEW c \in Conn, Opening(c)  PROVE  PageOneInv'
  <2>1. CASE ReplayRecord(c)
    <3>1. PICK i \in DOMAIN jrnl.recs : /\ WriteMain(jrnl.recs[i].page, jrnl.recs[i].data)
                                       /\ jrnl.recs[i].page \in Pages /\ jrnl.recs[i].data \in Nat
      BY <2>1, ReplayFacts, Zenon
    <3>3. main'[1] >= 1 /\ \A w \in mainDisk'[1] : w >= 1
      BY <3>1, PositiveMain, Zenon DEF PageOneInv, PositiveSize
    <3> QED  BY <2>1, <3>3, <1>4, Zenon DEF ReplayRecord
  <2>2. CASE Truncate(c)
    <3>1. main'[1] >= 1 /\ \A w \in mainDisk'[1] : w >= 1
      BY <2>2, <1>1 DEF Truncate, PageOneInv, Absent
    <3> QED  BY <2>2, <3>1, <1>4, Zenon DEF Truncate
  <2>3. CASE RecoverSync(c)
    <3>1. main'[1] >= 1 /\ \A w \in mainDisk'[1] : w >= 1
      BY <2>3, <1>1, Zenon DEF RecoverSync, SyncMain, PageOneInv
    <3> QED  BY <2>3, <3>1, <1>4, Zenon DEF RecoverSync
  <2>4. CASE RecoverDelete(c)
    BY <2>4 DEF RecoverDelete, DeleteJournalFile, PageOneInv, PositiveSize, NoJournal
  <2> QED
    BY <1>3, <1>5, <2>1, <2>2, <2>3, <2>4, Zenon
    DEF Opening, CheckJournal, LockShared, LockSharedFails, CheckReserved, OpenJournal, DeEscalate
<1>6. ASSUME NEW c \in Conn, Committing(c)  PROVE  PageOneInv'
  <2>1. CASE JournalHeader(c)
    <3> DEFINE j == [init |-> main[1], n_rec |-> Cardinality(ToJournal(c)), recs |-> << >>]
    <3>1. j \in Journal /\ (UNCHANGED <<jrnl, jrnlDisk>> \/ WriteJournal(j))
      BY <2>1, HeaderFacts, Zenon
    <3>2. PositiveSize(j)
      BY DEF PositiveSize
    <3> QED  BY <2>1, <3>1, <3>2, PositiveJournal, Zenon DEF JournalHeader, PageOneInv, PositiveSize
  <2>2. CASE JournalRecord(c)
    <3>1. PICK p \in Pages, j \in Journal :
            j.recs = Append(jrnl.recs, [page |-> p, data |-> main[p]]) /\ WriteJournal(j)
      BY <2>2, RecordFacts, Zenon
    <3> DEFINE x == [page |-> p, data |-> main[p]]
    <3>2. jrnl.recs \in Seq(Rec) /\ x \in Rec /\ x.page = p /\ x.data = main[p]
      BY Zenon DEF TypeOK, Journal, Rec
    <3>3. \A i \in DOMAIN j.recs : j.recs[i] = x \/ (i \in DOMAIN jrnl.recs /\ j.recs[i] = jrnl.recs[i])
      BY <3>1, <3>2
    <3>4. PositiveSize(j)
      BY <3>2, <3>3 DEF PositiveSize, PageOneInv
    <3> QED  BY <2>2, <3>1, <3>4, PositiveJournal, Zenon DEF JournalRecord, PageOneInv, PositiveSize
  <2>3. CASE JournalSync(c)
    BY <2>3, Zenon DEF JournalSync, PageOneInv, PositiveSize
  <2>4. CASE WriteBack(c)
    <3>1. PICK p \in Pages : p \in DOMAIN dirty[c] /\ dirty[c][p] \in Nat /\ WriteMain(p, dirty[c][p])
      BY <2>4, WriteBackFacts, Zenon
    <3>3. p = 1 => dirty[c][p] >= 1
      BY <3>1, <1>1 DEF CacheInv, PageOneInv
    <3>4. main'[1] >= 1 /\ \A w \in mainDisk'[1] : w >= 1
      BY <3>1, <3>3, PositiveMain, Zenon
    <3> QED  BY <2>4, <3>4, <1>4, Zenon DEF WriteBack
  <2>5. CASE MainSync(c)
    <3>1. main'[1] >= 1 /\ \A w \in mainDisk'[1] : w >= 1
      BY <2>5, <1>1 DEF MainSync, SyncMain, PageOneInv
    <3> QED  BY <2>5, <3>1, <1>4, Zenon DEF MainSync
  <2>6. CASE DeleteJournal(c)
    BY <2>6 DEF DeleteJournal, DeleteJournalFile, PageOneInv, PositiveSize, NoJournal
  <2> QED
    BY <1>3, <1>6, <2>1, <2>2, <2>3, <2>4, <2>5, <2>6, Zenon DEF Committing, Flush, IOError, LockDown
<1>7. ASSUME NEW c \in Conn, Working(c) \/ Locking(c) \/ Kill(c)  PROVE  UNCHANGED files
  BY <1>7, Zenon DEF Working, FillCache, Mutate, Allocate, Rollback, Close, Locking, Begin, BeginDone, Climb, Contended, Kill
<1> QED
  BY <1>2, <1>3, <1>5, <1>6, <1>7, Zenon DEF Next, vars, files

-----------------------------------------------------------------------------
(* The readers.                                                            *)

\* The invariant of the readers holds at the start.
LEMMA InitReadInv == Init => ReadInv
<1> SUFFICES ASSUME Init  PROVE  ReadInv
  OBVIOUS
<1>1. HotInv
  BY DEF Init, HotInv, IsHot, NoJournal
<1>2. CacheInv
  BY PartialFacts, Zenon DEF Init, CacheInv
<1>3. PageOneInv
  BY JournalAssumption DEF Init, PageOneInv, PositiveSize, NoJournal, Pages
<1> QED  BY <1>1, <1>2, <1>3, InitType, InitLock, InitTodo, Zenon DEF ReadInv

\* It is inductive.
LEMMA ReadInvStep == Counting /\ NoKillRace /\ ReadInv /\ [Next]_vars => ReadInv'
BY TypeStep, LockStep, TodoStep, HotStep, CacheStep, PageOneStep, Zenon DEF ReadInv

\* The inductive invariant behind the theorems on readers: types, the lock
\* discipline, the loops of flush and recover_hot_journal, who knows of a hot
\* journal, and what a page cache may hold.
THEOREM ReadInvHolds == Counting /\ NoKillRace => (Spec => []ReadInv)
<1> SUFFICES ASSUME Counting, NoKillRace  PROVE  Spec => []ReadInv
  OBVIOUS
<1>1. Init => ReadInv
  BY InitReadInv, Zenon
<1>2. ReadInv /\ [Next]_vars => ReadInv'
  BY ReadInvStep, Zenon
<1> QED  BY <1>1, <1>2, PTL DEF Spec

\* A built pager that is not committing has no hot journal before it.
LEMMA NotHotWhenReady ==
  ASSUME ReadInv, fails.io = 0, NEW c \in Conn, pc[c] = "ready"
  PROVE  ~ IsHot(jrnl)
<1>1. level[c] # Unlocked
  BY DEF ReadInv, LockInv, TypeOK, Unlocked, Shared
<1>2. ~ \E d \in Conn : pc[d] \in CommitSteps
  BY <1>1, Zenon DEF ReadInv, LockInv, AtExclusive, CommitSteps
<1>3. ~ Aware(c)
  BY Zenon DEF Aware, RecoverySteps
<1> QED  BY <1>2, <1>3, Zenon DEF ReadInv, HotInv

\* Before a flush has failed the readers see the committed database.
LEMMA ReadInvReads ==
  ASSUME ReadInv, fails.io = 0
  PROVE  ReadsAreCommitted
<1> SUFFICES ASSUME NEW c \in Conn, pc[c] = "ready", NEW p \in Pages \ DOMAIN dirty[c], p <= Db[1]
             PROVE  ReadPage(c, p) = Db[p]
  BY Zenon DEF ReadsAreCommitted
<1>1. Recovered(main, jrnl) = [q \in Pages |-> main[q]]
  BY NotHotWhenReady, Zenon DEF Recovered
<1>2. 1 \in Pages /\ main[1] \in Nat /\ main[1] >= 1
  BY JournalAssumption DEF ReadInv, PageOneInv, TypeOK, Pages
<1>3. Db = [q \in Pages |-> IF q <= main[1] THEN main[q] ELSE Absent]
  BY <1>1, <1>2, Zenon DEF Db, Image
<1>4. Db[p] = main[p]
  BY <1>2, <1>3, Zenon
<1>5. ReadPage(c, p) = main[p]
  BY Zenon DEF ReadPage, ReadInv, CacheInv
<1> QED  BY <1>4, <1>5, Zenon

\* Only Kill and IOError are counted.
LEMMA OnlyFailuresCount ==
  ASSUME NEW c \in Conn, ~ IOError(c), Opening(c) \/ Working(c) \/ Committing(c) \/ Locking(c)
  PROVE  UNCHANGED fails
<1>1. CASE Opening(c) \/ Working(c) \/ Locking(c)
  BY <1>1, Zenon
  DEF Opening, CheckJournal, LockShared, LockSharedFails, CheckReserved, OpenJournal, ReplayRecord, Truncate,
      RecoverSync, RecoverDelete, DeEscalate, Working, FillCache, Mutate, Allocate, Rollback, Close,
      Locking, Begin, BeginDone, Climb, Contended
<1>2. CASE Committing(c)
  BY <1>2, Zenon DEF Committing, Flush, JournalHeader, JournalRecord, JournalSync, WriteBack, MainSync, DeleteJournal, LockDown
<1> QED  BY <1>1, <1>2, Zenon

\* Failed I/O calls are not forgotten.
LEMMA FailsGrow == TypeOK /\ [Next]_vars => fails'.io >= fails.io /\ (fails'.io = 0 => fails.io = 0)
<1> SUFFICES ASSUME TypeOK, [Next]_vars  PROVE  fails'.io >= fails.io /\ (fails'.io = 0 => fails.io = 0)
  OBVIOUS
<1>1. fails.io \in Nat /\ fails.kill \in Nat
  BY Zenon DEF TypeOK
<1>2. ASSUME NEW c \in Conn, Kill(c) \/ IOError(c)  PROVE  fails'.io \in {fails.io, fails.io + 1}
  BY <1>1, <1>2, Zenon DEF Kill, IOError, TypeOK
<1>3. CASE UNCHANGED fails
  BY <1>1, <1>3
<1>4. ASSUME NEW c \in Conn, ~ IOError(c), Opening(c) \/ Working(c) \/ Committing(c) \/ Locking(c)
      PROVE  UNCHANGED fails
  BY <1>4, OnlyFailuresCount, Zenon
<1> QED  BY <1>1, <1>2, <1>3, <1>4 DEF Next, PowerLoss, vars

\* Without I/O faults no call fails.
LEMMA StaysWithoutIo ==
  ASSUME "io" \notin Faults, TypeOK, fails.io = 0, [Next]_vars
  PROVE  fails'.io = 0
<1>1. CASE UNCHANGED fails
  BY <1>1, Zenon
<1>2. ASSUME NEW c \in Conn, Kill(c)  PROVE  fails'.io = 0
  BY <1>2, Zenon DEF Kill, TypeOK
<1>3. ASSUME NEW c \in Conn, ~ Kill(c), ~ IOError(c),
             Opening(c) \/ Working(c) \/ Committing(c) \/ Locking(c)
      PROVE  UNCHANGED fails
  BY <1>3, OnlyFailuresCount, Zenon
<1>4. ASSUME NEW c \in Conn, IOError(c)  PROVE  FALSE
  BY <1>4, Zenon DEF IOError
<1> QED  BY <1>1, <1>2, <1>3, <1>4, Zenon DEF Next, PowerLoss, vars


-----------------------------------------------------------------------------
(* The lock between calls.                                                 *)

\* A connection that is alone holds between calls the level it recorded.
Single == \A c, d \in Conn : c = d
IdleInv ==
  \A c \in Conn :
    /\ pc[c] = "ready" => level[c] = txLock[c]
    /\ ~ Opened(c) => txLock[c] = Shared

\* A connection that is alone finds every rung free.
LEMMA AloneClimbs ==
  ASSUME Single, TypeOK, LockInv, NEW c \in Conn
  PROVE  ~ Contended(c)
<1> SUFFICES ASSUME pc[c] = "climb", level[c] < TargetOf(goal[c])  PROVE  RungFree(c)
  BY Zenon DEF Contended
<1>1. Others(c) = {}
  BY Zenon DEF Single, Others
<1>2. level[c] \in {Shared, Reserved, Pending}
  BY DEF TypeOK, LockInv, TargetOf, Shared, Reserved, Pending, Exclusive
<1> QED  BY <1>1, <1>2, Zenon DEF RungFree, Shared, Reserved, Pending

\* A connection that is alone has between calls the level it recorded.
LEMMA IdleStep ==
  ASSUME Single, TypeOK, LockInv, IdleInv, [Next]_vars
  PROVE  IdleInv'
<1>0. LockTypes /\ txLock \in [Conn -> {Shared, Reserved, Exclusive}]
  BY Zenon DEF TypeOK, LockTypes
<1> USE DEF IdleInv, Opened, CommitSteps, LockTypes
<1>1. CASE UNCHANGED vars
  BY <1>1, Zenon DEF vars
<1>2. CASE PowerLoss
  BY <1>2, Zenon DEF PowerLoss
<1>3. ASSUME NEW c \in Conn, Opening(c) \/ Working(c) \/ Committing(c) \/ Locking(c) \/ Kill(c)  PROVE  IdleInv'
  <2>1. \A d \in Conn : d = c
    BY Zenon DEF Single
  <2>2. CASE Gone(c)
    BY <1>0, <2>1, <2>2, Zenon DEF Gone
  <2>3. CASE Opening(c) /\ ~ Gone(c)
    <3>1. ~ Opened(c) /\ txLock[c] = Shared /\ UNCHANGED txLock
      BY <2>3, Zenon
      DEF Opening, CheckJournal, LockShared, LockSharedFails, CheckReserved, OpenJournal, ReplayRecord, Truncate,
          RecoverSync, RecoverDelete, DeEscalate
    <3>2. pc'[c] = "ready" => level'[c] = Shared
      BY <2>3, Zenon
      DEF Opening, CheckJournal, LockShared, LockSharedFails, CheckReserved, OpenJournal, ReplayRecord, Truncate,
          RecoverSync, RecoverDelete, DeEscalate, TypeOK
    <3>3. txLock'[c] = Shared /\ (pc'[c] = "ready" => level'[c] = txLock'[c])
      BY <3>1, <3>2, Zenon
    <3> QED  BY <2>1, <3>3, Zenon
  <2>4. CASE Working(c) /\ ~ Gone(c)
    <3>1. CASE Rollback(c)
      <4>1. txLock[c] \in {Shared, Reserved, Exclusive} /\ level[c] = txLock[c] /\ pc[c] = "ready" /\ UNCHANGED pc
        BY <1>0, <3>1, Zenon DEF Rollback
      <4>2. txLock'[c] = Shared /\ level'[c] = IF txLock[c] > Shared THEN Shared ELSE level[c]
        BY <1>0, <3>1, Zenon DEF Rollback, ReleaseTxLock
      <4>3. level'[c] = txLock'[c] /\ pc'[c] = "ready"
        BY <4>1, <4>2 DEF Shared, Reserved, Exclusive
      <4> QED  BY <2>1, <4>3, Zenon
    <3>2. CASE ~ Rollback(c)
      BY <2>4, <3>2, Zenon DEF Working, FillCache, Mutate, Allocate, Close
    <3> QED  BY <3>1, <3>2, Zenon
  <2>5. CASE Committing(c)
    BY <2>1, <2>5
    DEF Committing, Flush, JournalHeader, JournalRecord, JournalSync, WriteBack, MainSync, DeleteJournal, IOError,
        LockDown, TypeOK
  <2>6. CASE BeginDone(c) \/ Climb(c)
    BY <1>0, <2>1, <2>6 DEF BeginDone, Climb
  <2>7. ASSUME NEW g \in {"immediate", "exclusive"}, Begin(c, g)  PROVE  IdleInv'
    BY <1>0, <2>1, <2>7, Zenon DEF Begin
  <2> HIDE DEF IdleInv
  <2>8. CASE Locking(c)
    BY <2>6, <2>7, <2>8, AloneClimbs, Zenon DEF Locking
  <2> QED  BY <1>3, <2>2, <2>3, <2>4, <2>5, <2>8, Zenon DEF Kill
<1> HIDE DEF IdleInv
<1> QED  BY <1>1, <1>2, <1>3, Zenon DEF Next

-----------------------------------------------------------------------------
(* The files are always Clean or Unfinished.  A clean file is synced and a *)
(* journal beside it, if any, would write what the file has.  In an        *)
(* unfinished one the journal is durable and holds the pre-image of every  *)
(* page that the file may have changed, so that what recovery makes of it  *)
(* does not depend on those pages.                                         *)

\* The pages that a replay of j restores.
RecordedIn(j) == {j.recs[i].page : i \in Valid(j)}

\* The file holds every pre-image of j.
Replayed(j) == \A i \in Valid(j) : main[j.recs[i].page] = j.recs[i].data

\* A journal as flush_locked writes it: the pre-images of distinct pages of a
\* file of init pages.
WellFormed(j) ==
  /\ j.init \in 1 .. MaxPage
  /\ \A i \in Valid(j) : j.recs[i].page <= j.init /\ (j.recs[i].page = 1 => j.recs[i].data = j.init)
  /\ \A i, k \in Valid(j) : j.recs[i].page = j.recs[k].page => i = k
  /\ 1 \notin RecordedIn(j) => main[1] = j.init

\* The file is synced.
Settled == \A p \in Pages : mainDisk[p] = {main[p]}

\* The file is the committed database, whatever becomes of the journal.
Clean ==
  /\ Settled
  /\ main[1] \in 1 .. MaxPage /\ \A p \in Pages : p > main[1] => main[p] = Absent
  /\ IsHot(jrnl) => jrnl.init = main[1] /\ Replayed(jrnl)
  /\ \A j \in jrnlDisk : IsHot(j) => WellFormed(j)

\* The file is restored by the journal, whatever became of its pages.
Unfinished ==
  /\ IsHot(jrnl) /\ jrnlDisk = {jrnl} /\ WellFormed(jrnl)
  /\ \A p \in Pages \ RecordedIn(jrnl) : p <= jrnl.init => mainDisk[p] = {main[p]}

\* What holds of the files at any time.
Sound == jrnl \in jrnlDisk /\ (\A p \in Pages : main[p] \in mainDisk[p]) /\ (Clean \/ Unfinished)

\* How far recover_hot_journal has come.
RestoreInv(c) ==
  /\ pc[c] = "replay" => \A i \in Valid(jrnl) \ todo[c] : main[jrnl.recs[i].page] = jrnl.recs[i].data
  /\ pc[c] \in {"rsync", "rdelete"} => Replayed(jrnl) /\ \A p \in Pages : p > jrnl.init => main[p] = Absent
  /\ pc[c] = "rdelete" => Settled

\* The dirty pages of a connection that found a file of size pages.
DirtyShape(c, size) ==
  /\ 1 \in DOMAIN dirty[c] => dirty[c][1] \in size .. MaxPage /\ \A p \in DOMAIN dirty[c] : p <= dirty[c][1]
  /\ 1 \notin DOMAIN dirty[c] => \A p \in DOMAIN dirty[c] : p <= size

\* How far flush_locked has come with the journal ...
JournalInv(c) ==
  /\ Clean /\ IsHot(jrnl)
  /\ jrnl.n_rec = Len(jrnl.recs) + Cardinality(todo[c])
  /\ ToJournal(c) = todo[c] \union RecordedIn(jrnl) /\ todo[c] \intersect RecordedIn(jrnl) = {}

\* ... and with the file.
WriteInv(c) ==
  /\ Unfinished /\ DirtyShape(c, jrnl.init)
  /\ RecordedIn(jrnl) = {p \in DOMAIN dirty[c] : p <= jrnl.init}
  /\ \A p \in DOMAIN dirty[c] \ todo[c] : main[p] = dirty[c][p]
  /\ \A p \in Pages \ DOMAIN dirty[c] : p > jrnl.init => main[p] = Absent

\* The connections that have a Pager.
CommitInv(c) ==
  /\ Opened(c) /\ pc[c] \notin {"write", "delete"} => DirtyShape(c, main[1])
  /\ pc[c] \in CommitSteps \/ (pc[c] = "climb" /\ goal[c] = "flush") => dirty[c] # NoWrites
  /\ pc[c] = "journal" => JournalInv(c)
  /\ pc[c] \in {"write", "delete"} => WriteInv(c)
  /\ pc[c] = "delete" => todo[c] = {} /\ Settled

\* The inductive invariant of the files.
FileInv == fails.io = 0 => Sound /\ \A c \in Conn : RestoreInv(c) /\ CommitInv(c)

-----------------------------------------------------------------------------
(* Steps that leave the files alone.                                       *)

\* Valid numbers the records that are there.
LEMMA ValidFacts ==
  ASSUME NEW j \in Journal
  PROVE  /\ Valid(j) \subseteq DOMAIN j.recs /\ Valid(j) \subseteq Nat \ {0}
         /\ \A i \in Valid(j) : j.recs[i].page \in Pages /\ j.recs[i].data \in Nat
         /\ RecordedIn(j) \subseteq Pages
         /\ j.n_rec >= Len(j.recs) => Valid(j) = DOMAIN j.recs
<1>1. j.recs \in Seq(Rec) /\ Len(j.recs) \in Nat /\ j.n_rec \in Nat /\ DOMAIN j.recs = 1 .. Len(j.recs)
  BY DEF Journal
<1>2. Valid(j) \subseteq DOMAIN j.recs /\ Valid(j) \subseteq Nat \ {0}
  BY <1>1 DEF Valid
<1>3. ASSUME NEW i \in Valid(j)  PROVE  j.recs[i].page \in Pages /\ j.recs[i].data \in Nat
  <2>1. j.recs[i] \in Rec
    BY <1>1, <1>2
  <2> QED  BY <2>1, Zenon DEF Rec
<1>4. j.n_rec >= Len(j.recs) => Valid(j) = DOMAIN j.recs
  BY <1>1 DEF Valid
<1> QED  BY <1>2, <1>3, <1>4, Zenon DEF RecordedIn

\* What is read of an unchanged journal.
LEMMA SameJournal ==
  ASSUME UNCHANGED jrnl
  PROVE  IsHot(jrnl)' = IsHot(jrnl) /\ Valid(jrnl)' = Valid(jrnl) /\ RecordedIn(jrnl)' = RecordedIn(jrnl)
BY Zenon DEF IsHot, Valid, RecordedIn

\* The state of the files does not change when no file does.
LEMMA FilesSame ==
  ASSUME UNCHANGED files
  PROVE  (Clean <=> Clean') /\ (Unfinished <=> Unfinished') /\ (Settled <=> Settled') /\ (Sound => Sound')
<1>1. UNCHANGED <<main, mainDisk, jrnl, jrnlDisk>>
  BY Zenon DEF files
<1>2. \A j : WellFormed(j)' <=> WellFormed(j)
  BY <1>1, Zenon DEF WellFormed
<1>3. Settled' <=> Settled
  BY <1>1, Zenon DEF Settled
<1>4. IsHot(jrnl)' = IsHot(jrnl) /\ Valid(jrnl)' = Valid(jrnl) /\ RecordedIn(jrnl)' = RecordedIn(jrnl)
  BY <1>1, SameJournal, Zenon
<1>5. Replayed(jrnl)' <=> Replayed(jrnl)
  BY <1>1, <1>4, Zenon DEF Replayed
<1>6. WellFormed(jrnl)' <=> WellFormed(jrnl)
  BY <1>1, <1>4, Zenon DEF WellFormed
<1>7. Clean' <=> Clean
  BY <1>1, <1>2, <1>3, <1>4, <1>5, Zenon DEF Clean
<1>8. Unfinished' <=> Unfinished
  BY <1>1, <1>4, <1>6, Zenon DEF Unfinished
<1> QED  BY <1>1, <1>3, <1>7, <1>8, Zenon DEF Sound

\* What is said of a connection that does not move.
LEMMA BystanderKept ==
  ASSUME UNCHANGED files, NEW d \in Conn, UNCHANGED <<pc[d], goal[d], dirty[d], todo[d]>>,
         RestoreInv(d), CommitInv(d)
  PROVE  RestoreInv(d)' /\ CommitInv(d)'
<1>1. UNCHANGED <<main, mainDisk, jrnl, jrnlDisk>>
  BY Zenon DEF files
<1>2. (Clean <=> Clean') /\ (Unfinished <=> Unfinished') /\ (Settled <=> Settled')
  BY FilesSame, Zenon
<1>3. RestoreInv(d)'
  BY <1>1, <1>2, Zenon DEF RestoreInv, Replayed, Valid
<1>4. DirtyShape(d, main[1]) => DirtyShape(d, main[1])'
  BY <1>1, Zenon DEF DirtyShape
<1>5. JournalInv(d) => JournalInv(d)'
  BY <1>1, <1>2 DEF JournalInv, ToJournal, RecordedIn, IsHot, Valid
<1>6. WriteInv(d) => WriteInv(d)'
  BY <1>1, <1>2 DEF WriteInv, DirtyShape, RecordedIn, Valid
<1>7. CommitInv(d)'
  BY <1>2, <1>4, <1>5, <1>6, Zenon DEF CommitInv, Opened
<1> QED  BY <1>3, <1>7, Zenon

\* A step of c that leaves the files alone disturbs only what is said of c.
LEMMA Frame ==
  ASSUME NEW c \in Conn, UNCHANGED files,
         \A d \in Conn : d # c => UNCHANGED <<pc[d], goal[d], dirty[d], todo[d]>>,
         Sound, \A d \in Conn : RestoreInv(d) /\ CommitInv(d), RestoreInv(c)', CommitInv(c)'
  PROVE  FileInv'
<1>1. ASSUME NEW d \in Conn, d # c  PROVE  RestoreInv(d)' /\ CommitInv(d)'
  BY <1>1, BystanderKept, Zenon
<1> QED  BY <1>1, FilesSame, Zenon DEF FileInv

\* A step of c at Exclusive: nobody else is past lock_shared.
LEMMA FrameAlone ==
  ASSUME TypeOK, LockInv, NEW c \in Conn, level[c] = Exclusive,
         \A d \in Conn : d # c => UNCHANGED pc[d],
         Sound', RestoreInv(c)', CommitInv(c)'
  PROVE  FileInv'
<1>1. ASSUME NEW d \in Conn, d # c  PROVE  RestoreInv(d)' /\ CommitInv(d)'
  <2>1. pc'[d] \in {"closed", "open"}
    BY <1>1, ExclusiveAlone, Zenon
  <2> QED  BY <2>1, Zenon DEF RestoreInv, CommitInv, Opened, CommitSteps
<1> QED  BY <1>1, Zenon DEF FileInv

\* What has to be shown of a connection between two calls, and of one that
\* has no Pager.
LEMMA NotOpened ==
  ASSUME NEW c \in Conn, pc'[c] \notin RecoverySteps, ~ Opened(c)'
  PROVE  RestoreInv(c)' /\ CommitInv(c)'
BY Zenon DEF RestoreInv, CommitInv, Opened, RecoverySteps, CommitSteps

\* What has to be shown of a connection between two calls.
LEMMA BetweenCalls ==
  ASSUME NEW c \in Conn, pc'[c] \in {"ready", "climb", "down"}, DirtyShape(c, main[1])',
         pc'[c] = "climb" /\ goal'[c] = "flush" => dirty'[c] # NoWrites
  PROVE  RestoreInv(c)' /\ CommitInv(c)'
BY Zenon DEF RestoreInv, CommitInv, CommitSteps

\* An empty dirty set has the shape of every dirty set.
LEMMA EmptyShape ==
  ASSUME NEW c \in Conn, DOMAIN dirty'[c] = {}
  PROVE  DirtyShape(c, main[1])'
BY Zenon DEF DirtyShape

\* The steps that leave the files alone.
LEMMA QuietStep ==
  ASSUME ReadInv, FileInv, fails.io = 0, NEW c \in Conn, UNCHANGED files,
         Opening(c) \/ Working(c) \/ Flush(c) \/ LockDown(c) \/ Locking(c) \/ Kill(c),
         ~ ReplayRecord(c), ~ Truncate(c), ~ RecoverSync(c), ~ RecoverDelete(c)
  PROVE  FileInv'
<1>1. TypeOK /\ LockInv /\ CacheInv /\ Sound /\ \A d \in Conn : RestoreInv(d) /\ CommitInv(d)
  BY Zenon DEF ReadInv, FileInv
<1>2. SUFFICES RestoreInv(c)' /\ CommitInv(c)'
  <2>1. \A d \in Conn : d # c => UNCHANGED <<pc[d], goal[d], dirty[d], todo[d]>>
    <3>1. LockTypes /\ todo \in [Conn -> SUBSET Nat] /\ DOMAIN dirty = Conn
      BY <1>1, Zenon DEF TypeOK, LockTypes
    <3>2. CASE Gone(c)
      BY <3>1, <3>2, Zenon DEF Gone, LockTypes
    <3>3. CASE Opening(c)
      BY <3>1, <3>2, <3>3, Zenon
      DEF Opening, CheckJournal, LockShared, LockSharedFails, CheckReserved, OpenJournal, DeEscalate, LockTypes
    <3>4. CASE Working(c)
      BY <3>1, <3>2, <3>4, Zenon DEF Working, FillCache, Mutate, Allocate, Rollback, Close, LockTypes
    <3>5. CASE Flush(c) \/ LockDown(c) \/ Locking(c)
      BY <3>1, <3>2, <3>5, Zenon DEF Flush, LockDown, Locking, Begin, BeginDone, Climb, Contended, LockTypes
    <3> QED  BY <3>2, <3>3, <3>4, <3>5, Zenon DEF Kill
  <2> QED  BY <1>1, <1>2, <2>1, Frame, Zenon
<1>3. CASE Gone(c)
  <2>1. pc'[c] \in {"closed", "open"}
    BY <1>1, <1>3, Zenon DEF Gone, TypeOK
  <2> QED  BY <2>1, NotOpened, Zenon DEF Opened, CommitSteps, RecoverySteps
<1>4. CASE CheckJournal(c) \/ CheckReserved(c)
  BY <1>1, <1>3, <1>4, NotOpened DEF CheckJournal, CheckReserved, TypeOK, Opened, CommitSteps, RecoverySteps
<1>5. UNCHANGED main /\ DirtyShape(c, main[1]) /\ UNCHANGED dirty[c] => DirtyShape(c, main[1])'
  BY Zenon DEF DirtyShape
<1>6. CASE LockShared(c) \/ DeEscalate(c)
  <2>1. DOMAIN dirty'[c] = {}
    BY <1>1, <1>6, Zenon DEF LockShared, DeEscalate, CacheInv, Opened, CommitSteps
  <2>2. DirtyShape(c, main[1])'
    BY <2>1, EmptyShape, Zenon
  <2>3. pc'[c] \in {"probe", "ready"}
    BY <1>1, <1>6, Zenon DEF LockShared, DeEscalate, TypeOK
  <2>4. CASE pc'[c] = "probe"
    BY <2>4, NotOpened, Zenon DEF Opened, CommitSteps, RecoverySteps
  <2> QED  BY <2>2, <2>3, <2>4, BetweenCalls, Zenon
<1>7. CASE OpenJournal(c)
  <2>1. CASE IsHot(jrnl)
    <3>1. pc'[c] = "replay" /\ todo'[c] = Valid(jrnl) /\ UNCHANGED jrnl
      BY <1>1, <1>7, <2>1, Zenon DEF OpenJournal, TypeOK, files
    <3>2. Valid(jrnl)' = Valid(jrnl)
      BY <3>1, Zenon DEF Valid
    <3> QED  BY <3>1, <3>2, Zenon DEF RestoreInv, CommitInv, Opened, CommitSteps
  <2> QED  BY <1>3, <1>7, <2>1, Zenon DEF OpenJournal
<1>8. CASE Working(c)
  <2>1. CASE Close(c)
    BY <1>3, <2>1, Zenon DEF Close
  <2>2. CASE ~ Close(c)
    <3>1. pc[c] = "ready" /\ pc'[c] = "ready" /\ UNCHANGED main
      BY <1>1, <1>8, <2>2, Zenon DEF Working, FillCache, Mutate, Allocate, Rollback, files
    <3>2. DirtyShape(c, main[1])
      BY <1>1, <3>1, Zenon DEF CommitInv, Opened
    <3>3. CASE \E p \in Pages : FillCache(c, p)
      BY <1>5, <3>1, <3>2, <3>3, BetweenCalls, Zenon DEF FillCache
    <3>4. ASSUME NEW p \in Pages, NEW v \in Val, Mutate(c, p, v)  PROVE  DirtyShape(c, main[1])'
      <4>1. dirty'[c] = With(dirty[c], p, v) /\ p # 1 /\ p <= PageCount(c)
        BY <1>1, <3>4 DEF Mutate, TypeOK
      <4>2. /\ DOMAIN dirty'[c] = DOMAIN dirty[c] \union {p}
            /\ 1 \in DOMAIN dirty[c] => dirty'[c][1] = dirty[c][1]
        BY <4>1, Zenon DEF With
      <4> QED  BY <1>1, <3>1, <3>2, <4>1, <4>2, PageCountIs, Zenon DEF DirtyShape
    <3>5. ASSUME Allocate(c)  PROVE  DirtyShape(c, main[1])'
      <4> DEFINE n == PageCount(c) + 1
      <4>1. dirty'[c] = With(With(dirty[c], n, 0), 1, n)
        BY <1>1, <3>5, Zenon DEF Allocate, TypeOK
      <4>2. n \in Nat /\ n <= MaxPage /\ main[1] < n /\ main[1] \in Nat
        <5>1. PageCount(c) \in Nat /\ PageCount(c) >= main[1] /\ main[1] \in Nat
          BY <1>1, PageCountIs, Zenon
        <5> QED  BY <3>5, <5>1, JournalAssumption DEF Allocate
      <4>3. \A q \in DOMAIN dirty[c] : q \in Nat /\ q <= n
        <5>1. /\ PageCount(c) = IF 1 \in DOMAIN dirty[c] THEN dirty[c][1] ELSE main[1]
              /\ PageCount(c) \in Nat /\ DOMAIN dirty[c] \subseteq Pages
          BY <1>1, PageCountIs, Zenon DEF TypeOK, IsPartial
        <5>2. \A q \in DOMAIN dirty[c] : q <= PageCount(c)
          BY <3>2, <5>1, Zenon DEF DirtyShape
        <5> QED  BY <5>1, <5>2 DEF Pages
      <4> HIDE DEF n
      <4>4. DOMAIN dirty'[c] = DOMAIN dirty[c] \union {1, n} /\ dirty'[c][1] = n
        BY <4>1, Zenon DEF With
      <4>5. \A q \in DOMAIN dirty'[c] : q <= n
        BY <4>2, <4>3, <4>4
      <4>6. n \in main[1] .. MaxPage
        BY <4>2, JournalAssumption
      <4> QED  BY <3>1, <4>4, <4>5, <4>6, Zenon DEF DirtyShape
    <3>6. ASSUME Rollback(c)  PROVE  DirtyShape(c, main[1])'
      <4>1. DOMAIN dirty'[c] = {}
        BY <1>1, <3>6, PartialFacts, Zenon DEF Rollback, TypeOK
      <4> QED  BY <4>1, EmptyShape, Zenon
    <3> QED  BY <1>8, <2>2, <3>1, <3>3, <3>4, <3>5, <3>6, BetweenCalls, Zenon DEF Working
  <2> QED  BY <2>1, <2>2, Zenon
<1>9. CASE Flush(c) \/ LockDown(c) \/ Locking(c)
  <2>1. CASE Gone(c)
    BY <1>3, <2>1, Zenon
  <2>2. CASE pc[c] = "climb" /\ goal[c] = "recover"
    BY <1>1, <1>9, <2>1, <2>2, NotOpened, Zenon
    DEF Flush, LockDown, Locking, Begin, BeginDone, Climb, Contended, Opened, CommitSteps, RecoverySteps
  <2>3. CASE ~ Gone(c) /\ ~ (pc[c] = "climb" /\ goal[c] = "recover")
    <3>1. /\ pc[c] \in {"ready", "climb", "down"} /\ pc'[c] \in {"ready", "climb"} /\ UNCHANGED <<main, dirty>>
          /\ Opened(c)
          /\ pc'[c] = "climb" /\ goal'[c] = "flush" => Flush(c) \/ (pc[c] = "climb" /\ goal[c] = "flush")
      <4>1. LockTypes
        BY <1>1, Zenon DEF TypeOK, LockTypes
      <4> QED
        BY <1>9, <2>3, <4>1, Zenon
        DEF Flush, LockDown, Locking, Begin, BeginDone, Climb, Contended, files, LockTypes, Opened, CommitSteps
    <3>2. DirtyShape(c, main[1])'
      BY <1>1, <1>5, <3>1, Zenon DEF CommitInv
    <3>3. pc'[c] = "climb" /\ goal'[c] = "flush" => dirty'[c] # NoWrites
      BY <1>1, <3>1, Zenon DEF CommitInv, Flush
    <3> QED  BY <3>1, <3>2, <3>3, BetweenCalls, Zenon
  <2> QED  BY <2>1, <2>2, <2>3, Zenon
<1> QED
  BY <1>3, <1>4, <1>6, <1>7, <1>8, <1>9, Zenon DEF Opening, LockSharedFails, Kill

-----------------------------------------------------------------------------
(* Recovery.                                                               *)

\* Writes that a replay of the journal would undo, or that the journal does
\* not need to undo.
OnlyRecorded ==
  /\ UNCHANGED <<jrnl, jrnlDisk>>
  /\ \A p \in Pages \ RecordedIn(jrnl) : p <= jrnl.init => main'[p] = main[p] /\ mainDisk'[p] = {main[p]}

\* Such writes leave a half-done commit half done.
LEMMA UnfinishedKept ==
  ASSUME Unfinished, OnlyRecorded
  PROVE  Unfinished'
<1>1. /\ IsHot(jrnl)' = IsHot(jrnl) /\ Valid(jrnl)' = Valid(jrnl) /\ RecordedIn(jrnl)' = RecordedIn(jrnl)
      /\ UNCHANGED <<jrnl, jrnlDisk>>
  BY SameJournal, Zenon DEF OnlyRecorded
<1>2. 1 \notin RecordedIn(jrnl) => main'[1] = main[1]
  BY JournalAssumption DEF OnlyRecorded, Unfinished, WellFormed, Pages
<1>3. WellFormed(jrnl)'
  BY <1>1, <1>2, Zenon DEF Unfinished, WellFormed
<1> QED  BY <1>1, <1>3, Zenon DEF Unfinished, OnlyRecorded

\* What a step of the recovery starts from.
LEMMA RestoringFacts ==
  ASSUME ReadInv, FileInv, fails.io = 0, NEW c \in Conn, pc[c] \in RecoverySteps
  PROVE  /\ TypeOK /\ LockInv /\ TodoInv /\ Sound /\ RestoreInv(c) /\ level[c] = Exclusive
         /\ IsHot(jrnl) /\ jrnl \in Journal /\ WellFormed(jrnl)
         /\ main \in [Pages -> Nat] /\ mainDisk \in [Pages -> SUBSET Nat]
BY Zenon DEF ReadInv, FileInv, TypeOK, LockInv, TodoInv, AtExclusive, Sound, Clean, Unfinished

\* Every write of recover_hot_journal is of this kind, or none at all.
LEMMA RestoreFiles ==
  ASSUME ReadInv, FileInv, fails.io = 0, NEW c \in Conn, ReplayRecord(c) \/ Truncate(c) \/ RecoverSync(c)
  PROVE  /\ (Clean /\ UNCHANGED files) \/ (Unfinished /\ OnlyRecorded)
         /\ \A p \in Pages : main'[p] \in mainDisk'[p]
<1>1. pc[c] \in RecoverySteps /\ UNCHANGED <<jrnl, jrnlDisk>>
  BY Zenon DEF ReplayRecord, Truncate, RecoverSync, RecoverySteps
<1>2. /\ TypeOK /\ TodoInv /\ Sound /\ RestoreInv(c) /\ IsHot(jrnl) /\ jrnl \in Journal /\ WellFormed(jrnl)
      /\ main \in [Pages -> Nat] /\ mainDisk \in [Pages -> SUBSET Nat]
  BY <1>1, RestoringFacts, Zenon
<1>3. CASE ReplayRecord(c)
  <2>1. PICK i \in Valid(jrnl) : /\ WriteMain(jrnl.recs[i].page, jrnl.recs[i].data)
                                 /\ jrnl.recs[i].page \in Pages /\ jrnl.recs[i].data \in Nat
    BY <1>2, <1>3, ReplayFacts, Zenon
  <2> DEFINE pg == jrnl.recs[i].page
             v == jrnl.recs[i].data
  <2>2. pg \in RecordedIn(jrnl) /\ pg \in Pages /\ WriteMain(pg, v)
    BY <2>1, Zenon DEF RecordedIn
  <2>3. Clean => main[pg] = v /\ mainDisk[pg] = {v}
    BY <1>2, <2>2, Zenon DEF Clean, Replayed, Settled
  <2> HIDE DEF pg, v
  <2>4. Clean => UNCHANGED <<main, mainDisk>>
    BY <1>2, <2>2, <2>3, Zenon DEF WriteMain
  <2>5. /\ main'[pg] = v /\ v \in mainDisk'[pg]
        /\ \A q \in Pages : q # pg => main'[q] = main[q] /\ mainDisk'[q] = mainDisk[q]
    BY <1>2, <2>2, Zenon DEF WriteMain
  <2>6. Unfinished => OnlyRecorded
    BY <1>1, <2>2, <2>5, Zenon DEF Unfinished, OnlyRecorded
  <2> QED  BY <1>1, <1>2, <2>4, <2>5, <2>6, Zenon DEF Sound, files
<1>4. CASE Truncate(c)
  <2>1. /\ main' = [p \in Pages |-> IF p <= jrnl.init THEN main[p] ELSE Absent]
        /\ mainDisk' = [p \in Pages |-> mainDisk[p] \union {main'[p]}]
    BY <1>4, Zenon DEF Truncate
  <2>2. Clean => \A p \in Pages : main'[p] = main[p] /\ mainDisk'[p] = mainDisk[p]
    <3> SUFFICES ASSUME Clean, NEW p \in Pages  PROVE  main'[p] = main[p] /\ mainDisk'[p] = mainDisk[p]
      OBVIOUS
    <3>1. main[1] \in Nat /\ p \in Nat /\ jrnl.init = main[1] /\ mainDisk[p] = {main[p]}
      BY <1>2 DEF Clean, Pages, Settled
    <3>2. main'[p] = main[p]
      BY <2>1, <3>1 DEF Clean
    <3> QED  BY <2>1, <3>1, <3>2, Zenon
  <2>3. Clean => UNCHANGED <<main, mainDisk>>
    BY <1>2, <2>1, <2>2, Zenon
  <2>4. Unfinished => OnlyRecorded
    BY <1>1, <2>1, Zenon DEF Unfinished, OnlyRecorded
  <2> QED  BY <1>1, <1>2, <2>1, <2>3, <2>4, Zenon DEF Sound, files
<1>5. CASE RecoverSync(c)
  <2>1. main' = main /\ mainDisk' = [p \in Pages |-> {main[p]}]
    BY <1>5, Zenon DEF RecoverSync, SyncMain
  <2>2. Clean => mainDisk' = mainDisk
    BY <1>2, <2>1, Zenon DEF Clean, Settled
  <2>3. Unfinished => OnlyRecorded
    BY <1>1, <2>1, Zenon DEF Unfinished, OnlyRecorded
  <2> QED  BY <1>1, <1>2, <2>1, <2>2, <2>3, Zenon DEF Sound, files
<1> QED  BY <1>3, <1>4, <1>5, Zenon

\* Recovery ends with the restored image in the file.
LEMMA RestoredSize ==
  ASSUME ReadInv, FileInv, fails.io = 0, NEW c \in Conn, pc[c] \in {"rsync", "rdelete"}
  PROVE  main[1] = jrnl.init
<1>1. WellFormed(jrnl) /\ Replayed(jrnl)
  BY RestoringFacts, Zenon DEF RestoreInv, RecoverySteps
<1>2. CASE 1 \in RecordedIn(jrnl)
  <2>1. PICK i \in Valid(jrnl) : jrnl.recs[i].page = 1
    BY <1>2, Zenon DEF RecordedIn
  <2> QED  BY <1>1, <2>1, Zenon DEF WellFormed, Replayed
<1> QED  BY <1>1, <1>2, Zenon DEF WellFormed

\* The steps of recover_hot_journal.
LEMMA RestoreStep ==
  ASSUME ReadInv, FileInv, fails.io = 0, NEW c \in Conn,
         ReplayRecord(c) \/ Truncate(c) \/ RecoverSync(c) \/ RecoverDelete(c)
  PROVE  FileInv'
<1>1. pc[c] \in RecoverySteps
  BY Zenon DEF ReplayRecord, Truncate, RecoverSync, RecoverDelete, RecoverySteps
<1>2. /\ TypeOK /\ LockInv /\ TodoInv /\ Sound /\ RestoreInv(c) /\ level[c] = Exclusive
      /\ IsHot(jrnl) /\ jrnl \in Journal /\ WellFormed(jrnl) /\ main \in [Pages -> Nat]
  BY <1>1, RestoringFacts, Zenon
<1>3. /\ pc'[c] \in RecoverySteps \union {"rdown"}
      /\ \A d \in Conn : d # c => UNCHANGED pc[d]
  BY <1>2, Zenon DEF ReplayRecord, Truncate, RecoverSync, RecoverDelete, RecoverySteps, TypeOK
<1>4. CommitInv(c)'
  BY <1>3, Zenon DEF CommitInv, Opened, CommitSteps, RecoverySteps
<1>5. SUFFICES Sound' /\ RestoreInv(c)'
  BY <1>2, <1>3, <1>4, <1>5, FrameAlone, Zenon
<1>6. CASE RecoverDelete(c)
  <2>1. jrnl' = NoJournal /\ jrnlDisk' = jrnlDisk \union {NoJournal} /\ UNCHANGED <<main, mainDisk>> /\ pc'[c] = "rdown"
    BY <1>2, <1>6, Zenon DEF RecoverDelete, DeleteJournalFile, TypeOK
  <2>2. ~ IsHot(NoJournal)
    BY DEF IsHot, NoJournal
  <2>3. main[1] = jrnl.init /\ Settled /\ \A p \in Pages : p > jrnl.init => main[p] = Absent
    BY <1>2, <1>6, RestoredSize, Zenon DEF RecoverDelete, RestoreInv
  <2>4. main[1] \in 1 .. MaxPage
    BY <1>2, <2>3, Zenon DEF WellFormed
  <2>5. \A j \in jrnlDisk : IsHot(j) => WellFormed(j)
    BY <1>2, Zenon DEF Sound, Clean, Unfinished
  <2>6. \A j \in jrnlDisk' : IsHot(j) => WellFormed(j)'
    BY <2>1, <2>2, <2>5, Zenon DEF WellFormed
  <2>7. Settled'
    BY <2>1, <2>3, Zenon DEF Settled
  <2>8. Clean'
    BY <2>1, <2>2, <2>3, <2>4, <2>6, <2>7, Zenon DEF Clean, IsHot
  <2>9. Sound'
    BY <1>2, <2>1, <2>8, Zenon DEF Sound
  <2> QED  BY <2>1, <2>9, Zenon DEF RestoreInv
<1>7. CASE ReplayRecord(c) \/ Truncate(c) \/ RecoverSync(c)
  <2>1. /\ (Clean /\ UNCHANGED files) \/ (Unfinished /\ OnlyRecorded)
        /\ \A p \in Pages : main'[p] \in mainDisk'[p]
    BY <1>7, RestoreFiles, Zenon
  <2>2. UNCHANGED <<jrnl, jrnlDisk>> /\ IsHot(jrnl)' = IsHot(jrnl) /\ Valid(jrnl)' = Valid(jrnl)
    BY <1>7, SameJournal, Zenon DEF ReplayRecord, Truncate, RecoverSync
  <2>3. (Clean /\ UNCHANGED files) => Clean'
    BY DEF Clean, files, Settled, IsHot, Replayed, WellFormed, RecordedIn, Valid
  <2>4. Sound'
    BY <1>2, <2>1, <2>2, <2>3, UnfinishedKept, Zenon DEF Sound
  <2>5. CASE ReplayRecord(c)
    <3>1. PICK i \in Valid(jrnl) : /\ WriteMain(jrnl.recs[i].page, jrnl.recs[i].data)
                                   /\ jrnl.recs[i].page \in Pages /\ jrnl.recs[i].data \in Nat
                                   /\ todo' = [todo EXCEPT ![c] = @ \ {i}]
      BY <1>2, <2>5, ReplayFacts, Zenon
    <3>2. pc[c] = "replay" /\ pc'[c] = "replay" /\ todo'[c] = todo[c] \ {i}
      BY <1>2, <2>5, <3>1, Zenon DEF ReplayRecord, TypeOK
    <3>3. ASSUME NEW k \in Valid(jrnl), k \notin todo'[c]  PROVE  main'[jrnl.recs[k].page] = jrnl.recs[k].data
      <4>1. jrnl.recs[k].page \in Pages
        BY <1>2, ValidFacts, Zenon
      <4>2. CASE k = i
        BY <1>2, <3>1, <4>2, Zenon DEF WriteMain
      <4>3. CASE k # i
        <5>1. jrnl.recs[k].page # jrnl.recs[i].page
          BY <1>2, <4>3, Zenon DEF WellFormed
        <5>2. main[jrnl.recs[k].page] = jrnl.recs[k].data
          BY <1>2, <3>2, <3>3, <4>3, Zenon DEF RestoreInv
        <5> QED  BY <1>2, <3>1, <4>1, <5>1, <5>2, Zenon DEF WriteMain
      <4> QED  BY <4>2, <4>3, Zenon
    <3>4. RestoreInv(c)'
      BY <2>2, <3>2, <3>3, Zenon DEF RestoreInv
    <3> QED  BY <2>4, <3>4, Zenon
  <2>6. CASE Truncate(c)
    <3>1. /\ pc[c] = "replay" /\ todo[c] = {} /\ pc'[c] = "rsync"
          /\ main' = [p \in Pages |-> IF p <= jrnl.init THEN main[p] ELSE Absent]
      BY <1>2, <2>6, Zenon DEF Truncate, TypeOK
    <3>2. ASSUME NEW k \in Valid(jrnl)  PROVE  main'[jrnl.recs[k].page] = jrnl.recs[k].data
      <4>1. jrnl.recs[k].page \in Pages /\ jrnl.recs[k].page <= jrnl.init
        BY <1>2, ValidFacts, Zenon DEF WellFormed
      <4>2. main[jrnl.recs[k].page] = jrnl.recs[k].data
        BY <1>2, <3>1, Zenon DEF RestoreInv
      <4> QED  BY <3>1, <4>1, <4>2, Zenon
    <3>3. jrnl.init \in Nat
      BY <1>2, Zenon DEF Journal
    <3>4. \A p \in Pages : p > jrnl.init => main'[p] = Absent
      BY <3>1, <3>3 DEF Pages
    <3>5. RestoreInv(c)'
      BY <2>2, <3>1, <3>2, <3>4, Zenon DEF RestoreInv, Replayed
    <3> QED  BY <2>4, <3>5, Zenon
  <2>7. CASE RecoverSync(c)
    <3>1. /\ pc[c] = "rsync" /\ pc'[c] = "rdelete"
          /\ main' = main /\ mainDisk' = [p \in Pages |-> {main[p]}]
      BY <1>2, <2>7, Zenon DEF RecoverSync, SyncMain, TypeOK
    <3>2. Settled'
      BY <3>1, Zenon DEF Settled
    <3>3. RestoreInv(c)'
      BY <1>2, <2>2, <3>1, <3>2, Zenon DEF RestoreInv, Replayed
    <3> QED  BY <2>4, <3>3, Zenon
  <2> QED  BY <1>7, <2>5, <2>6, <2>7, Zenon
<1> QED  BY <1>6, <1>7, Zenon

-----------------------------------------------------------------------------
(* Commits.                                                                *)

\* The file holds everything that a replay of j would write.
Fits(j) == j.init = main[1] /\ WellFormed(j) /\ Replayed(j)

\* A cut journal announces the same, and has a prefix of the records.
LEMMA RemainsFacts ==
  ASSUME NEW j \in Journal
  PROVE  /\ j \in Remains(j)
         /\ \A k \in Remains(j) :
              \/ k = NoJournal
              \/ /\ k \in Journal /\ k.init = j.init /\ Valid(k) \subseteq Valid(j)
                 /\ \A i \in Valid(k) : k.recs[i] = j.recs[i]
<1>1. j.recs \in Seq(Rec) /\ Len(j.recs) \in Nat
  BY DEF Journal
<1>2. j \in Remains(j)
  <2>1. SubSeq(j.recs, 1, Len(j.recs)) = j.recs
    BY <1>1
  <2>2. [j EXCEPT !.recs = j.recs] = j
    BY Zenon DEF Journal
  <2>3. [j EXCEPT !.recs = SubSeq(j.recs, 1, Len(j.recs))] = j
    BY <2>1, <2>2, Zenon
  <2>4. Len(j.recs) \in 0 .. Len(j.recs)
    BY <1>1
  <2> QED  BY <2>3, <2>4, Zenon DEF Remains
<1>3. ASSUME NEW n \in 0 .. Len(j.recs), NEW k, k = [j EXCEPT !.recs = SubSeq(j.recs, 1, n)]
      PROVE  /\ k \in Journal /\ k.init = j.init /\ Valid(k) \subseteq Valid(j)
             /\ \A i \in Valid(k) : k.recs[i] = j.recs[i]
  <2> DEFINE r == SubSeq(j.recs, 1, n)
  <2>1. r \in Seq(Rec) /\ Len(r) = n /\ \A i \in 1 .. n : r[i] = j.recs[i]
    BY <1>1
  <2>2. k = [j EXCEPT !.recs = r]
    BY <1>3, Zenon
  <2> HIDE DEF r
  <2>3. k \in Journal /\ k.recs = r /\ k.init = j.init /\ k.n_rec = j.n_rec
    BY <2>1, <2>2, RecsExcept, Zenon
  <2>4. j.n_rec \in Nat
    BY Zenon DEF Journal
  <2>5. Valid(k) \subseteq Valid(j) /\ Valid(k) \subseteq 1 .. n
    BY <1>1, <2>1, <2>3, <2>4 DEF Valid
  <2> QED  BY <2>1, <2>3, <2>5, Zenon
<1> QED  BY <1>2, <1>3 DEF Remains

\* A cut journal fits if the whole one does.
LEMMA FitsRemains ==
  ASSUME NEW j \in Journal, Fits(j)
  PROVE  \A k \in Remains(j) : k = NoJournal \/ (k \in Journal /\ Fits(k))
<1> SUFFICES ASSUME NEW k \in Remains(j), k # NoJournal  PROVE  k \in Journal /\ Fits(k)
  OBVIOUS
<1>1. /\ k \in Journal /\ k.init = j.init /\ Valid(k) \subseteq Valid(j)
      /\ \A i \in Valid(k) : k.recs[i] = j.recs[i]
  BY RemainsFacts, Zenon
<1>2. WellFormed(k)
  BY <1>1, Zenon DEF Fits, WellFormed
<1> QED  BY <1>1, <1>2, Zenon DEF Fits, Replayed

\* Writing a journal that fits a clean file changes nothing a recovery sees.
LEMMA WriteJournalClean ==
  ASSUME Sound, Clean, NEW j \in Journal, IsHot(j), Fits(j), WriteJournal(j), UNCHANGED <<main, mainDisk>>
  PROVE  Sound' /\ Clean' /\ IsHot(jrnl)'
<1>1. jrnl' = j /\ jrnlDisk' = jrnlDisk \union Remains(j) /\ j \in Remains(j)
  BY RemainsFacts, Zenon DEF WriteJournal
<1>2. \A k \in jrnlDisk' : IsHot(k) => WellFormed(k)
  BY <1>1, FitsRemains DEF Clean, Fits, IsHot, NoJournal
<1>3. \A k \in jrnlDisk' : IsHot(k) => WellFormed(k)'
  BY <1>2, Zenon DEF WellFormed
<1>4. Settled' /\ Replayed(jrnl)'
  BY <1>1, Zenon DEF Clean, Settled, Fits, Replayed
<1>5. Clean' /\ IsHot(jrnl)'
  BY <1>1, <1>3, <1>4, Zenon DEF Clean, Fits, IsHot
<1> QED  BY <1>1, <1>5, Zenon DEF Sound

\* flush at Exclusive finds no hot journal, and has a page to record.
LEMMA FlushingFacts ==
  ASSUME ReadInv, FileInv, fails.io = 0, NEW c \in Conn, JournalHeader(c)
  PROVE  Sound /\ Clean /\ ~ IsHot(jrnl) /\ DirtyShape(c, main[1]) /\ dirty[c] # NoWrites /\ ToJournal(c) # {}
<1>1. TypeOK /\ LockInv /\ HotInv /\ Sound /\ CommitInv(c) /\ IsPartial(dirty[c])
  BY Zenon DEF ReadInv, FileInv, TypeOK
<1>2. pc[c] = "climb" /\ goal[c] = "flush" /\ level[c] = Exclusive
  BY Zenon DEF JournalHeader
<1>3. ~ Aware(c) /\ ~ \E d \in Conn : pc[d] \in CommitSteps
  BY <1>1, <1>2, OthersIdle, Zenon DEF Aware, RecoverySteps, CommitSteps
<1>4. Clean /\ ~ IsHot(jrnl)
  BY <1>1, <1>3, Zenon DEF HotInv, Sound, Unfinished
<1>5. DirtyShape(c, main[1]) /\ dirty[c] # NoWrites
  BY <1>1, <1>2, Zenon DEF CommitInv, Opened
<1>6. PICK p \in DOMAIN dirty[c] : TRUE
  BY <1>1, <1>5, PartialFacts, Zenon
<1>7. 1 \in DOMAIN dirty[c] => 1 \in ToJournal(c)
  BY <1>4 DEF Clean, ToJournal
<1>8. 1 \notin DOMAIN dirty[c] => p \in ToJournal(c)
  BY <1>5, <1>6, Zenon DEF DirtyShape, ToJournal
<1> QED  BY <1>1, <1>4, <1>5, <1>7, <1>8, Zenon

\* The header alone fits the file.
LEMMA HeaderFits ==
  ASSUME Counting, ReadInv, FileInv, fails.io = 0, NEW c \in Conn, JournalHeader(c)
  PROVE  LET j == [init |-> main[1], n_rec |-> Cardinality(ToJournal(c)), recs |-> << >>]
         IN  /\ j \in Journal /\ Valid(j) = {} /\ IsHot(j) /\ Fits(j) /\ WriteJournal(j)
             /\ pc' = [pc EXCEPT ![c] = "journal"] /\ todo' = [todo EXCEPT ![c] = ToJournal(c)]
<1> DEFINE j == [init |-> main[1], n_rec |-> Cardinality(ToJournal(c)), recs |-> << >>]
<1>1. TypeOK
  BY Zenon DEF ReadInv
<1>2. j \in Journal /\ WriteJournal(j) /\ pc' = [pc EXCEPT ![c] = "journal"] /\ todo' = [todo EXCEPT ![c] = ToJournal(c)]
  BY <1>1, FlushingFacts, HeaderFacts, Zenon
<1>3. j.init = main[1] /\ j.recs = << >> /\ j.n_rec \in Nat
  BY <1>2, Zenon DEF Journal
<1> HIDE DEF j
<1>4. Valid(j) = {}
  BY <1>3 DEF Valid
<1>5. main[1] \in 1 .. MaxPage
  BY FlushingFacts, Zenon DEF Clean
<1>6. IsHot(j) /\ Fits(j)
  BY <1>3, <1>4, <1>5 DEF IsHot, Fits, WellFormed, Replayed
<1> QED  BY <1>2, <1>4, <1>6, Zenon DEF j

\* flush_locked writes the header.
LEMMA HeaderStep ==
  ASSUME Counting, ReadInv, FileInv, fails.io = 0, NEW c \in Conn, JournalHeader(c)
  PROVE  FileInv'
<1> DEFINE j == [init |-> main[1], n_rec |-> Cardinality(ToJournal(c)), recs |-> << >>]
<1>1. /\ j \in Journal /\ Valid(j) = {} /\ IsHot(j) /\ Fits(j) /\ WriteJournal(j)
      /\ pc' = [pc EXCEPT ![c] = "journal"] /\ todo' = [todo EXCEPT ![c] = ToJournal(c)]
  BY HeaderFits, Zenon
<1>2. j.n_rec = Len(j.recs) + Cardinality(ToJournal(c)) /\ RecordedIn(j) = {}
  <2>1. Cardinality(ToJournal(c)) \in Nat
    BY <1>1, Zenon DEF Journal
  <2> QED  BY <1>1, <2>1 DEF RecordedIn
<1> HIDE DEF j
<1>3. TypeOK /\ LockInv /\ level[c] = Exclusive /\ UNCHANGED <<main, mainDisk, dirty>>
  BY Zenon DEF ReadInv, JournalHeader
<1>4. pc'[c] = "journal" /\ todo'[c] = ToJournal(c) /\ \A d \in Conn : d # c => UNCHANGED pc[d]
  BY <1>1, <1>3, Zenon DEF TypeOK
<1>5. Sound' /\ Clean' /\ IsHot(jrnl)' /\ jrnl' = j
  BY <1>1, <1>3, FlushingFacts, WriteJournalClean, Zenon DEF WriteJournal
<1>6. ToJournal(c)' = ToJournal(c) /\ RecordedIn(jrnl)' = {}
  <2>1. ToJournal(c)' = ToJournal(c)
    BY <1>3, Zenon DEF ToJournal
  <2>2. RecordedIn(jrnl)' = RecordedIn(j)
    BY <1>5, Zenon DEF RecordedIn, Valid
  <2> QED  BY <1>2, <2>1, <2>2, Zenon
<1>7. JournalInv(c)'
  BY <1>2, <1>4, <1>5, <1>6, Zenon DEF JournalInv
<1>8. DirtyShape(c, main[1])' /\ dirty'[c] # NoWrites
  BY <1>3, FlushingFacts, Zenon DEF DirtyShape
<1>9. RestoreInv(c)' /\ CommitInv(c)'
  BY <1>4, <1>7, <1>8, Zenon DEF RestoreInv, CommitInv
<1> QED  BY <1>3, <1>4, <1>5, <1>9, FrameAlone, Zenon

\* What the writing half of a commit starts from.
LEMMA CommittingFacts ==
  ASSUME ReadInv, FileInv, fails.io = 0, NEW c \in Conn, pc[c] \in CommitSteps
  PROVE  /\ TypeOK /\ LockInv /\ TodoInv /\ Sound /\ CommitInv(c) /\ level[c] = Exclusive
         /\ jrnl \in Journal /\ dirty[c] # NoWrites /\ IsPartial(dirty[c])
         /\ main \in [Pages -> Nat] /\ mainDisk \in [Pages -> SUBSET Nat] /\ pc \in [Conn -> Steps]
         /\ todo \in [Conn -> SUBSET Nat]
BY Zenon DEF ReadInv, FileInv, TypeOK, LockInv, AtExclusive, CommitInv

\* The journal with the record that write_record appends.
LEMMA RecordFits ==
  ASSUME Counting, ReadInv, FileInv, fails.io = 0, NEW c \in Conn, pc[c] = "journal",
         NEW p \in todo[c], NEW j \in Journal, j.init = jrnl.init, j.n_rec = jrnl.n_rec,
         j.recs = Append(jrnl.recs, [page |-> p, data |-> main[p]])
  PROVE  /\ Fits(j) /\ IsHot(j) /\ RecordedIn(j) = RecordedIn(jrnl) \union {p}
         /\ j.n_rec = Len(j.recs) + Cardinality(todo[c] \ {p})
<1>1. /\ TodoInv /\ Sound /\ JournalInv(c) /\ jrnl \in Journal /\ IsPartial(dirty[c])
      /\ main \in [Pages -> Nat]
  BY CommittingFacts, Zenon DEF CommitInv, CommitSteps
<1>2. todo[c] \subseteq DOMAIN dirty[c] /\ p \in Pages /\ p <= main[1] /\ p \notin RecordedIn(jrnl)
  <2>1. todo[c] \subseteq DOMAIN dirty[c]
    BY <1>1, Zenon DEF TodoInv
  <2>2. p \in ToJournal(c)
    BY <1>1, Zenon DEF JournalInv
  <2> QED  BY <1>1, <2>1, <2>2, Zenon DEF JournalInv, ToJournal, IsPartial
<1>3. /\ Cardinality(todo[c]) \in Nat /\ Cardinality(todo[c] \ {p}) = Cardinality(todo[c]) - 1
      /\ Cardinality(todo[c] \ {p}) \in Nat
  <2>1. todo[c] \subseteq Pages
    BY <1>1, <1>2, Zenon DEF IsPartial
  <2>2. todo[c] \in SUBSET Pages /\ todo[c] \ {p} \in SUBSET Pages
    BY <2>1, Zenon
  <2> QED  BY <2>2, Zenon DEF Counting
<1>4. /\ jrnl.recs \in Seq(Rec) /\ Len(jrnl.recs) \in Nat /\ jrnl.n_rec \in Nat
      /\ jrnl.n_rec = Len(jrnl.recs) + Cardinality(todo[c])
  BY <1>1 DEF Journal, JournalInv
<1>5. [page |-> p, data |-> main[p]] \in Rec
  BY <1>1, <1>2, Zenon DEF Rec
<1>6. /\ Len(j.recs) = Len(jrnl.recs) + 1
      /\ \A i \in 1 .. Len(jrnl.recs) : j.recs[i] = jrnl.recs[i]
      /\ j.recs[Len(jrnl.recs) + 1] = [page |-> p, data |-> main[p]]
  BY <1>4, <1>5
<1>7. j.n_rec = Len(j.recs) + Cardinality(todo[c] \ {p})
  BY <1>3, <1>4, <1>6
<1> DEFINE m == Len(jrnl.recs)
<1>8. Valid(jrnl) = 1 .. m /\ Valid(j) = 1 .. (m + 1) /\ m \in Nat
  BY <1>3, <1>4, <1>6, <1>7 DEF Valid
<1>9. /\ \A i \in 1 .. m : j.recs[i] = jrnl.recs[i]
      /\ j.recs[m + 1].page = p /\ j.recs[m + 1].data = main[p]
  BY <1>6
<1> HIDE DEF m
<1>10. \A i \in Valid(j) : i \in Valid(jrnl) \/ i = m + 1
  BY <1>8
<1>11. RecordedIn(j) = RecordedIn(jrnl) \union {p}
  <2>1. \A i \in Valid(jrnl) : i \in Valid(j)
    BY <1>8
  <2>2. m + 1 \in Valid(j)
    BY <1>8
  <2>3. \A i \in Valid(j) : j.recs[i].page \in RecordedIn(jrnl) \union {p}
    BY <1>8, <1>9, <1>10, Zenon DEF RecordedIn
  <2>4. \A i \in Valid(jrnl) : jrnl.recs[i].page \in RecordedIn(j)
    BY <1>8, <1>9, <2>1, Zenon DEF RecordedIn
  <2>5. p \in RecordedIn(j)
    BY <1>9, <2>2, Zenon DEF RecordedIn
  <2> QED  BY <2>3, <2>4, <2>5, Zenon DEF RecordedIn
<1>12. Clean /\ IsHot(jrnl) /\ jrnl.init = main[1] /\ Replayed(jrnl) /\ WellFormed(jrnl)
  BY <1>1, Zenon DEF JournalInv, Clean, Sound
<1>13. \A i \in Valid(j) : j.recs[i].page <= j.init /\ (j.recs[i].page = 1 => j.recs[i].data = j.init)
  <2>1. \A i \in Valid(jrnl) : j.recs[i].page <= j.init /\ (j.recs[i].page = 1 => j.recs[i].data = j.init)
    <3>1. \A i \in Valid(jrnl) :
            jrnl.recs[i].page <= jrnl.init /\ (jrnl.recs[i].page = 1 => jrnl.recs[i].data = jrnl.init)
      BY <1>12, Zenon DEF WellFormed
    <3>2. \A i \in Valid(jrnl) : j.recs[i] = jrnl.recs[i]
      BY <1>8, <1>9, Zenon
    <3> QED  BY <3>1, <3>2, Zenon
  <2>2. p <= j.init /\ (p = 1 => main[p] = j.init)
    BY <1>2, <1>12, Zenon
  <2> QED  BY <1>9, <1>10, <2>1, <2>2, Zenon
<1>14. \A i, k \in Valid(j) : j.recs[i].page = j.recs[k].page => i = k
  <2>1. \A i \in Valid(jrnl) : j.recs[i].page # p
    BY <1>2, <1>8, <1>9, Zenon DEF RecordedIn
  <2>2. \A i, k \in Valid(jrnl) : jrnl.recs[i].page = jrnl.recs[k].page => i = k
    BY <1>12, Zenon DEF WellFormed
  <2>3. \A i \in Valid(jrnl) : j.recs[i] = jrnl.recs[i]
    BY <1>8, <1>9, Zenon
  <2> QED  BY <1>9, <1>10, <2>1, <2>2, <2>3, Zenon
<1>15. Replayed(j)
  BY <1>8, <1>9, <1>10, <1>12, Zenon DEF Replayed
<1>16. WellFormed(j)
  BY <1>12, <1>13, <1>14, Zenon DEF WellFormed
<1> QED  BY <1>7, <1>11, <1>12, <1>15, <1>16, Zenon DEF Fits, IsHot

\* flush_locked writes a record.
LEMMA RecordStep ==
  ASSUME Counting, ReadInv, FileInv, fails.io = 0, NEW c \in Conn, JournalRecord(c)
  PROVE  FileInv'
<1>1. pc[c] = "journal" /\ UNCHANGED <<main, mainDisk, pc, dirty>>
  BY Zenon DEF JournalRecord
<1>2. TypeOK /\ LockInv /\ TodoInv /\ Sound /\ CommitInv(c) /\ level[c] = Exclusive /\ todo \in [Conn -> SUBSET Nat]
  BY <1>1, CommittingFacts, Zenon DEF CommitSteps
<1>3. PICK p \in todo[c], j \in Journal :
        /\ j.init = jrnl.init /\ j.n_rec = jrnl.n_rec
        /\ j.recs = Append(jrnl.recs, [page |-> p, data |-> main[p]])
        /\ WriteJournal(j) /\ todo' = [todo EXCEPT ![c] = @ \ {p}]
  BY <1>2, RecordFacts, Zenon
<1>4. /\ Fits(j) /\ IsHot(j) /\ RecordedIn(j) = RecordedIn(jrnl) \union {p}
      /\ j.n_rec = Len(j.recs) + Cardinality(todo[c] \ {p})
  BY <1>1, <1>3, RecordFits, Zenon
<1>5. jrnl' = j /\ todo'[c] = todo[c] \ {p}
  BY <1>2, <1>3, Zenon DEF WriteJournal
<1>6. JournalInv(c)
  BY <1>1, <1>2, Zenon DEF CommitInv
<1>7. Sound' /\ Clean' /\ IsHot(jrnl)'
  BY <1>1, <1>2, <1>3, <1>4, <1>6, WriteJournalClean, Zenon DEF JournalInv
<1>8. ToJournal(c)' = ToJournal(c) /\ RecordedIn(jrnl)' = RecordedIn(jrnl) \union {p}
  <2>1. ToJournal(c)' = ToJournal(c)
    BY <1>1, Zenon DEF ToJournal
  <2>2. RecordedIn(jrnl)' = RecordedIn(j)
    BY <1>5, Zenon DEF RecordedIn, Valid
  <2> QED  BY <1>4, <2>1, <2>2, Zenon
<1>9. JournalInv(c)'
  <2>1. ToJournal(c) = todo[c] \union RecordedIn(jrnl) /\ todo[c] \intersect RecordedIn(jrnl) = {}
    BY <1>6, Zenon DEF JournalInv
  <2>2. /\ ToJournal(c)' = todo'[c] \union RecordedIn(jrnl)'
        /\ todo'[c] \intersect RecordedIn(jrnl)' = {}
    BY <1>3, <1>5, <1>8, <2>1
  <2>3. jrnl'.n_rec = Len(jrnl'.recs) + Cardinality(todo'[c])
    BY <1>4, <1>5, Zenon
  <2> QED  BY <1>7, <2>2, <2>3, Zenon DEF JournalInv
<1>10. DirtyShape(c, main[1])' /\ dirty'[c] # NoWrites
  BY <1>1, <1>2, Zenon DEF CommitInv, Opened, CommitSteps, DirtyShape
<1>11. RestoreInv(c)' /\ CommitInv(c)'
  BY <1>1, <1>9, <1>10, Zenon DEF RestoreInv, CommitInv
<1> QED  BY <1>1, <1>2, <1>7, <1>11, FrameAlone, Zenon

\* The fsync of the journal: from here on the file may change.
LEMMA JournalSyncStep ==
  ASSUME Synchronous = "Full", ReadInv, FileInv, fails.io = 0, NEW c \in Conn, JournalSync(c)
  PROVE  FileInv'
<1>1. pc[c] = "journal" /\ todo[c] = {} /\ UNCHANGED <<main, mainDisk, jrnl, dirty>> /\ jrnlDisk' = {jrnl}
  BY Zenon DEF JournalSync
<1>2. /\ TypeOK /\ LockInv /\ Sound /\ CommitInv(c) /\ level[c] = Exclusive /\ jrnl \in Journal
      /\ pc \in [Conn -> Steps] /\ todo \in [Conn -> SUBSET Nat] /\ dirty[c] # NoWrites
  BY <1>1, CommittingFacts, Zenon DEF CommitSteps
<1>3. pc'[c] = "write" /\ todo'[c] = DOMAIN dirty[c] /\ \A d \in Conn : d # c => UNCHANGED pc[d]
  BY <1>2, Zenon DEF JournalSync
<1>4. JournalInv(c) /\ DirtyShape(c, main[1])
  BY <1>1, <1>2, Zenon DEF CommitInv, Opened, CommitSteps
<1>5. Clean /\ IsHot(jrnl) /\ jrnl.init = main[1] /\ WellFormed(jrnl) /\ RecordedIn(jrnl) = ToJournal(c)
  BY <1>1, <1>2, <1>4, Zenon DEF JournalInv, Clean, Sound
<1>6. IsHot(jrnl)' = IsHot(jrnl) /\ Valid(jrnl)' = Valid(jrnl) /\ RecordedIn(jrnl)' = RecordedIn(jrnl)
  BY <1>1, SameJournal, Zenon
<1>7. WellFormed(jrnl)' /\ Settled'
  BY <1>1, <1>5, <1>6, Zenon DEF WellFormed, Clean, Settled
<1>8. Unfinished'
  BY <1>1, <1>5, <1>6, <1>7, Zenon DEF Unfinished, Settled
<1>9. Sound'
  BY <1>1, <1>2, <1>8, Zenon DEF Sound
<1>10. WriteInv(c)'
  <2>1. DirtyShape(c, jrnl.init)'
    BY <1>1, <1>4, <1>5, Zenon DEF DirtyShape
  <2>2. RecordedIn(jrnl)' = {p \in DOMAIN dirty'[c] : p <= jrnl'.init}
    BY <1>1, <1>5, <1>6, Zenon DEF ToJournal
  <2>3. \A p \in Pages : p > jrnl'.init => main'[p] = Absent
    BY <1>1, <1>5, Zenon DEF Clean
  <2> QED  BY <1>1, <1>3, <1>8, <2>1, <2>2, <2>3, Zenon DEF WriteInv
<1>11. RestoreInv(c)' /\ CommitInv(c)'
  BY <1>1, <1>2, <1>3, <1>10, Zenon DEF RestoreInv, CommitInv
<1> QED  BY <1>2, <1>3, <1>9, <1>11, FrameAlone, Zenon

\* The pages go into the file: a replay undoes every one of these writes.
LEMMA WriteFiles ==
  ASSUME Synchronous = "Full", ReadInv, FileInv, fails.io = 0, NEW c \in Conn, WriteBack(c) \/ MainSync(c)
  PROVE  /\ OnlyRecorded /\ \A p \in Pages : main'[p] \in mainDisk'[p]
         /\ \A p \in Pages : main'[p] = main[p] \/ (p \in todo[c] \ todo'[c] /\ main'[p] = dirty[c][p])
         /\ \A p \in todo[c] \ todo'[c] : main'[p] = dirty[c][p]
         /\ todo'[c] \subseteq todo[c]
<1>1. pc[c] = "write" /\ UNCHANGED <<jrnl, jrnlDisk, dirty>>
  BY Zenon DEF WriteBack, MainSync
<1>2. /\ TypeOK /\ TodoInv /\ Sound /\ CommitInv(c) /\ main \in [Pages -> Nat] /\ mainDisk \in [Pages -> SUBSET Nat]
      /\ todo \in [Conn -> SUBSET Nat] /\ jrnl \in Journal
  BY <1>1, CommittingFacts, Zenon DEF CommitSteps
<1>3. WriteInv(c) /\ Unfinished
  BY <1>1, <1>2, Zenon DEF CommitInv, WriteInv
<1>4. CASE WriteBack(c)
  <2>1. PICK p \in todo[c] :
          /\ p \in DOMAIN dirty[c] /\ p \in Pages /\ dirty[c][p] \in Nat
          /\ WriteMain(p, dirty[c][p]) /\ todo' = [todo EXCEPT ![c] = @ \ {p}]
    BY <1>2, <1>4, WriteBackFacts, Zenon
  <2>2. /\ main'[p] = dirty[c][p] /\ dirty[c][p] \in mainDisk'[p]
        /\ \A q \in Pages : q # p => main'[q] = main[q] /\ mainDisk'[q] = mainDisk[q]
    BY <1>2, <2>1, Zenon DEF WriteMain
  <2>3. todo'[c] = todo[c] \ {p}
    BY <1>2, <2>1, Zenon
  <2>4. p <= jrnl.init => p \in RecordedIn(jrnl)
    BY <1>3, <2>1, Zenon DEF WriteInv
  <2>5. OnlyRecorded
    BY <1>1, <1>3, <2>2, <2>4, Zenon DEF OnlyRecorded, Unfinished
  <2> QED  BY <1>2, <2>1, <2>2, <2>3, <2>5, Zenon DEF Sound
<1>5. CASE MainSync(c)
  <2>1. main' = main /\ mainDisk' = [p \in Pages |-> {main[p]}] /\ todo' = todo
    BY <1>5, Zenon DEF MainSync, SyncMain
  <2>2. OnlyRecorded
    BY <1>1, <2>1, Zenon DEF OnlyRecorded
  <2> QED  BY <2>1, <2>2, Zenon
<1> QED  BY <1>4, <1>5, Zenon

\* flush_locked writes the dirty pages and syncs the file.
LEMMA WriteStep ==
  ASSUME Synchronous = "Full", ReadInv, FileInv, fails.io = 0, NEW c \in Conn, WriteBack(c) \/ MainSync(c)
  PROVE  FileInv'
<1>1. pc[c] = "write" /\ UNCHANGED <<jrnl, jrnlDisk, dirty>>
  BY Zenon DEF WriteBack, MainSync
<1>2. /\ TypeOK /\ LockInv /\ TodoInv /\ Sound /\ CommitInv(c) /\ level[c] = Exclusive /\ dirty[c] # NoWrites
      /\ pc \in [Conn -> Steps] /\ todo \in [Conn -> SUBSET Nat]
  BY <1>1, CommittingFacts, Zenon DEF CommitSteps
<1>3. WriteInv(c) /\ Unfinished /\ todo[c] \subseteq DOMAIN dirty[c]
  BY <1>1, <1>2, Zenon DEF CommitInv, WriteInv, TodoInv
<1>4. /\ OnlyRecorded /\ \A p \in Pages : main'[p] \in mainDisk'[p]
      /\ \A p \in Pages : main'[p] = main[p] \/ (p \in todo[c] \ todo'[c] /\ main'[p] = dirty[c][p])
      /\ \A p \in todo[c] \ todo'[c] : main'[p] = dirty[c][p]
      /\ todo'[c] \subseteq todo[c]
  BY WriteFiles, Zenon
<1>5. Unfinished' /\ RecordedIn(jrnl)' = RecordedIn(jrnl)
  BY <1>1, <1>3, <1>4, UnfinishedKept, SameJournal, Zenon
<1>6. Sound'
  BY <1>1, <1>2, <1>4, <1>5, Zenon DEF Sound
<1>7. pc'[c] \in {"write", "delete"} /\ \A d \in Conn : d # c => UNCHANGED pc[d]
  BY <1>1, <1>2, Zenon DEF WriteBack, MainSync
<1>8. pc'[c] = "delete" => todo'[c] = {} /\ Settled'
  <2>1. ASSUME pc'[c] = "delete"  PROVE  todo'[c] = {} /\ main' = main /\ mainDisk' = [p \in Pages |-> {main[p]}]
    BY <1>1, <2>1, Zenon DEF WriteBack, MainSync, SyncMain
  <2> QED  BY <2>1, Zenon DEF Settled
<1>9. WriteInv(c)'
  <2>1. DirtyShape(c, jrnl.init)'
    BY <1>1, <1>3, Zenon DEF DirtyShape, WriteInv
  <2>2. \A p \in DOMAIN dirty[c] \ todo'[c] : main'[p] = dirty[c][p]
    <3> SUFFICES ASSUME NEW p \in DOMAIN dirty[c] \ todo'[c]  PROVE  main'[p] = dirty[c][p]
      OBVIOUS
    <3>1. p \in Pages
      BY <1>2, Zenon DEF TypeOK, IsPartial
    <3> QED  BY <1>3, <1>4, <3>1, Zenon DEF WriteInv
  <2>3. \A p \in Pages \ DOMAIN dirty[c] : p > jrnl.init => main'[p] = Absent
    BY <1>3, <1>4, Zenon DEF WriteInv
  <2> QED  BY <1>1, <1>3, <1>5, <2>1, <2>2, <2>3, Zenon DEF WriteInv
<1>10. RestoreInv(c)' /\ CommitInv(c)'
  BY <1>1, <1>2, <1>7, <1>8, <1>9, Zenon DEF RestoreInv, CommitInv
<1> QED  BY <1>2, <1>6, <1>7, <1>10, FrameAlone, Zenon

\* All pages written and synced: the file is the committed image.
LEMMA CommittedFile ==
  ASSUME ReadInv, FileInv, fails.io = 0, NEW c \in Conn, pc[c] = "delete"
  PROVE  /\ Unfinished /\ Settled /\ main[1] \in 1 .. MaxPage
         /\ \A p \in Pages : p > main[1] => main[p] = Absent
         /\ \A p \in DOMAIN dirty[c] : main[p] = dirty[c][p] /\ p <= main[1]
         /\ \A p \in Pages \ DOMAIN dirty[c] : p > jrnl.init => main[p] = Absent
         /\ RecordedIn(jrnl) \subseteq DOMAIN dirty[c]
<1>1. TypeOK /\ CommitInv(c) /\ IsPartial(dirty[c])
  BY CommittingFacts, Zenon DEF CommitSteps
<1>2. WriteInv(c) /\ todo[c] = {} /\ Settled
  BY <1>1, Zenon DEF CommitInv
<1>3. Unfinished /\ WellFormed(jrnl) /\ RecordedIn(jrnl) \subseteq DOMAIN dirty[c]
  BY <1>2, Zenon DEF WriteInv, Unfinished
<1>4. \A p \in DOMAIN dirty[c] : main[p] = dirty[c][p]
  BY <1>2, Zenon DEF WriteInv
<1>5. \A p \in Pages \ DOMAIN dirty[c] : p > jrnl.init => main[p] = Absent
  BY <1>2, Zenon DEF WriteInv
<1>6. jrnl.init \in 1 .. MaxPage /\ MaxPage \in Nat
  BY <1>3, JournalAssumption, Zenon DEF WellFormed
<1>7. DirtyShape(c, jrnl.init)
  BY <1>2, Zenon DEF WriteInv
<1>8. CASE 1 \in DOMAIN dirty[c]
  <2>1. main[1] \in jrnl.init .. MaxPage /\ \A p \in DOMAIN dirty[c] : p <= main[1]
    BY <1>4, <1>7, <1>8, Zenon DEF DirtyShape
  <2>2. ASSUME NEW p \in Pages, p > main[1]  PROVE  main[p] = Absent
    <3>1. p \in Nat /\ p \notin DOMAIN dirty[c] /\ p > jrnl.init
      BY <1>6, <2>1, <2>2 DEF Pages
    <3> QED  BY <1>5, <3>1, Zenon
  <2> QED  BY <1>2, <1>3, <1>4, <1>5, <1>6, <2>1, <2>2
<1>9. CASE 1 \notin DOMAIN dirty[c]
  <2>1. main[1] = jrnl.init /\ \A p \in DOMAIN dirty[c] : p <= main[1]
    BY <1>3, <1>7, <1>9, Zenon DEF DirtyShape, WellFormed
  <2>2. ASSUME NEW p \in Pages, p > main[1]  PROVE  main[p] = Absent
    <3>1. p \in Nat /\ p \notin DOMAIN dirty[c] /\ p > jrnl.init
      BY <1>6, <2>1, <2>2 DEF Pages
    <3> QED  BY <1>5, <3>1, Zenon
  <2> QED  BY <1>2, <1>3, <1>4, <1>5, <1>6, <2>1, <2>2, Zenon
<1> QED  BY <1>8, <1>9, Zenon

\* flush_locked deletes the journal.
LEMMA DeleteStep ==
  ASSUME ReadInv, FileInv, fails.io = 0, NEW c \in Conn, DeleteJournal(c)
  PROVE  FileInv'
<1>1. pc[c] = "delete" /\ UNCHANGED <<main, mainDisk>> /\ jrnl' = NoJournal /\ jrnlDisk' = jrnlDisk \union {NoJournal}
  BY Zenon DEF DeleteJournal, DeleteJournalFile
<1>2. TypeOK /\ LockInv /\ Sound /\ level[c] = Exclusive /\ pc \in [Conn -> Steps]
  BY <1>1, CommittingFacts, Zenon DEF CommitSteps
<1>3. /\ Unfinished /\ Settled /\ main[1] \in 1 .. MaxPage
      /\ \A p \in Pages : p > main[1] => main[p] = Absent
  BY <1>1, CommittedFile, Zenon
<1>4. ~ IsHot(NoJournal)
  BY DEF IsHot, NoJournal
<1>5. \A j \in jrnlDisk' : IsHot(j) => WellFormed(j)
  BY <1>1, <1>3, <1>4, Zenon DEF Unfinished
<1>6. \A j \in jrnlDisk' : IsHot(j) => WellFormed(j)'
  BY <1>1, <1>5, Zenon DEF WellFormed
<1>7. Settled' /\ ~ IsHot(jrnl)'
  BY <1>1, <1>3, <1>4, Zenon DEF Settled, IsHot
<1>8. Clean'
  BY <1>1, <1>3, <1>6, <1>7, Zenon DEF Clean
<1>9. Sound'
  BY <1>1, <1>2, <1>8, Zenon DEF Sound
<1>10. pc'[c] = "down" /\ (\A d \in Conn : d # c => UNCHANGED pc[d]) /\ DOMAIN dirty'[c] = {}
  BY <1>2, PartialFacts, Zenon DEF DeleteJournal, TypeOK
<1>11. RestoreInv(c)' /\ CommitInv(c)'
  BY <1>10, EmptyShape, BetweenCalls, Zenon
<1> QED  BY <1>2, <1>9, <1>10, <1>11, FrameAlone, Zenon

\* The machine stops.
LEMMA PowerLossStep ==
  ASSUME ReadInv, FileInv, fails.io = 0, PowerLoss
  PROVE  FileInv'
<1>1. TypeOK /\ Sound
  BY Zenon DEF ReadInv, FileInv
<1>2. PICK m \in [Pages -> UNION {mainDisk[p] : p \in Pages}] :
        (\A p \in Pages : m[p] \in mainDisk[p]) /\ main' = m /\ mainDisk' = [p \in Pages |-> {m[p]}]
  BY Zenon DEF PowerLoss
<1>3. PICK j \in jrnlDisk : jrnl' = j /\ jrnlDisk' = {j}
  BY Zenon DEF PowerLoss
<1>4. ASSUME NEW c \in Conn  PROVE  RestoreInv(c)' /\ CommitInv(c)'
  BY NotOpened, Zenon DEF PowerLoss, Opened, CommitSteps, RecoverySteps
<1>5. Settled' /\ jrnl' \in jrnlDisk' /\ \A p \in Pages : main'[p] \in mainDisk'[p]
  BY <1>2, <1>3, Zenon DEF Settled
<1>6. CASE Clean
  <2>1. \A p \in Pages : m[p] = main[p]
    BY <1>2, <1>6, Zenon DEF Clean, Settled
  <2>2. main' = main
    BY <1>1, <1>2, <2>1 DEF TypeOK
  <2>3. IsHot(j) => WellFormed(j)'
    BY <1>3, <1>6, <2>2, Zenon DEF Clean, WellFormed
  <2>4. CASE IsHot(j)
    <3>1. IsHot(jrnl)' /\ jrnlDisk' = {jrnl'} /\ WellFormed(jrnl)'
      BY <1>3, <2>3, <2>4, Zenon DEF IsHot, WellFormed, RecordedIn, Valid
    <3>2. Unfinished'
      BY <1>5, <3>1, Zenon DEF Unfinished, Settled
    <3> QED  BY <1>4, <1>5, <3>2, Zenon DEF FileInv, Sound
  <2>5. CASE ~ IsHot(j)
    <3>1. ~ IsHot(jrnl)' /\ \A k \in jrnlDisk' : ~ IsHot(k)
      BY <1>3, <2>5, Zenon DEF IsHot
    <3>2. Clean'
      BY <1>5, <1>6, <2>2, <3>1, Zenon DEF Clean, IsHot
    <3> QED  BY <1>4, <1>5, <3>2, Zenon DEF FileInv, Sound
  <2> QED  BY <2>4, <2>5, Zenon
<1>7. CASE Unfinished
  <2>1. UNCHANGED <<jrnl, jrnlDisk>>
    BY <1>3, <1>7, Zenon DEF Unfinished
  <2>2. OnlyRecorded
    BY <1>2, <1>7, <2>1, Zenon DEF OnlyRecorded, Unfinished
  <2>3. Unfinished'
    BY <1>7, <2>2, UnfinishedKept, Zenon
  <2> QED  BY <1>4, <1>5, <2>3, Zenon DEF FileInv, Sound
<1> QED  BY <1>1, <1>6, <1>7, Zenon DEF Sound

\* The new database is clean.
LEMMA InitFile == Init => FileInv
<1> SUFFICES ASSUME Init  PROVE  FileInv
  OBVIOUS
<1>1. jrnl = NoJournal /\ jrnlDisk = {NoJournal} /\ ~ IsHot(NoJournal)
  BY DEF Init, IsHot, NoJournal
<1>2. /\ 1 \in Pages /\ main = [p \in Pages |-> IF p = 1 THEN 2 ELSE IF p = 2 THEN 0 ELSE Absent]
      /\ mainDisk = [p \in Pages |-> {main[p]}]
  BY JournalAssumption DEF Init, Pages
<1>3. main[1] = 2 /\ Settled
  BY <1>2, Zenon DEF Settled
<1>4. \A p \in Pages : p > 2 => main[p] = Absent
  BY <1>2 DEF Pages
<1>5. Clean
  BY <1>1, <1>3, <1>4, JournalAssumption DEF Clean
<1>6. Sound
  BY <1>1, <1>3, <1>5, Zenon DEF Sound, Settled
<1>7. ASSUME NEW c \in Conn  PROVE  RestoreInv(c) /\ CommitInv(c)
  <2>1. pc[c] = "closed"
    BY Zenon DEF Init
  <2> QED  BY <2>1, Zenon DEF RestoreInv, CommitInv, Opened, CommitSteps
<1> QED  BY <1>6, <1>7, Zenon DEF FileInv

\* The actions that write to no file.
LEMMA QuietFiles ==
  ASSUME NEW c \in Conn, Opening(c) \/ Working(c) \/ Flush(c) \/ LockDown(c) \/ Locking(c) \/ Kill(c),
         ~ ReplayRecord(c), ~ Truncate(c), ~ RecoverSync(c), ~ RecoverDelete(c)
  PROVE  UNCHANGED files
BY Zenon DEF Opening, CheckJournal, LockShared, LockSharedFails, CheckReserved, OpenJournal, DeEscalate,
       Working, FillCache, Mutate, Allocate, Rollback, Close, Flush, LockDown,
       Locking, Begin, BeginDone, Climb, Contended, Kill

\* Every step keeps the invariant of the files.
LEMMA FileStep == Counting /\ Synchronous = "Full" /\ ReadInv /\ FileInv /\ [Next]_vars => FileInv'
<1> SUFFICES ASSUME Counting, Synchronous = "Full", ReadInv, FileInv, [Next]_vars, fails'.io = 0  PROVE  FileInv'
  BY Zenon DEF FileInv
<1>1. fails.io = 0 /\ TypeOK /\ fails.io \in Nat
  BY FailsGrow, Zenon DEF ReadInv, TypeOK
<1>2. CASE UNCHANGED vars
  <2>1. UNCHANGED files /\ \A d \in Conn : UNCHANGED <<pc[d], goal[d], dirty[d], todo[d]>>
    BY <1>2, Zenon DEF vars, files
  <2>2. Sound /\ \A d \in Conn : RestoreInv(d) /\ CommitInv(d)
    BY <1>1, Zenon DEF FileInv
  <2>3. ASSUME NEW d \in Conn  PROVE  RestoreInv(d)' /\ CommitInv(d)'
    BY <2>1, <2>2, BystanderKept, Zenon
  <2> QED  BY <2>1, <2>2, <2>3, FilesSame, Zenon DEF FileInv
<1>3. CASE PowerLoss
  BY <1>1, <1>3, PowerLossStep, Zenon
<1>4. ASSUME NEW c \in Conn, IOError(c)  PROVE  FALSE
  BY <1>1, <1>4 DEF IOError, TypeOK
<1>5. ASSUME NEW c \in Conn, Opening(c) \/ Working(c) \/ Committing(c) \/ Locking(c) \/ Kill(c)  PROVE  FileInv'
  <2>1. CASE ReplayRecord(c) \/ Truncate(c) \/ RecoverSync(c) \/ RecoverDelete(c)
    BY <1>1, <2>1, RestoreStep, Zenon
  <2>2. CASE JournalHeader(c)
    BY <1>1, <2>2, HeaderStep, Zenon
  <2>3. CASE JournalRecord(c)
    BY <1>1, <2>3, RecordStep, Zenon
  <2>4. CASE JournalSync(c)
    BY <1>1, <2>4, JournalSyncStep, Zenon
  <2>5. CASE WriteBack(c) \/ MainSync(c)
    BY <1>1, <2>5, WriteStep, Zenon
  <2>6. CASE DeleteJournal(c)
    BY <1>1, <2>6, DeleteStep, Zenon
  <2>7. CASE /\ Opening(c) \/ Working(c) \/ Flush(c) \/ LockDown(c) \/ Locking(c) \/ Kill(c)
             /\ ~ ReplayRecord(c) /\ ~ Truncate(c) /\ ~ RecoverSync(c) /\ ~ RecoverDelete(c)
    BY <1>1, <2>7, QuietFiles, QuietStep, Zenon
  <2> QED  BY <1>4, <1>5, <2>1, <2>2, <2>3, <2>4, <2>5, <2>6, <2>7, Zenon DEF Committing
<1> QED  BY <1>2, <1>3, <1>5, Zenon DEF Next

\* The inductive invariant of the files: until a flush has failed they are
\* clean, with no journal or one that would change nothing, or unfinished, with a
\* durable journal that holds the pre-image of every page that may differ.
THEOREM FileInvHolds == Counting /\ NoKillRace /\ Synchronous = "Full" => (Spec => [](ReadInv /\ FileInv))
<1> SUFFICES ASSUME Counting, NoKillRace, Synchronous = "Full"  PROVE  Spec => [](ReadInv /\ FileInv)
  OBVIOUS
<1>1. Init => FileInv
  BY InitFile, Zenon
<1>2. ReadInv /\ FileInv /\ [Next]_vars => FileInv'
  BY FileStep, Zenon
<1> QED  BY <1>1, <1>2, ReadInvHolds, PTL DEF Spec

=============================================================================
