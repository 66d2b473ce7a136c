--------------------------- MODULE JournalTheorems ---------------------------
(***************************************************************************)
(* The theorems on the rollback-journal pager, for any number of           *)
(* connections, pages and values.  That it implements AtomicStore is shown *)
(* step by step: only DeleteJournal changes the database that processes    *)
(* see, every other step of flush and every step of a recovery leaves both *)
(* that and what a power loss may leave, and a power loss chooses among it.*)
(***************************************************************************)
EXTENDS JournalProofs, FiniteSetTheorems

\* Sets of pages are finite.
LEMMA CountingHolds == Counting
<1>1. IsFiniteSet(Pages)
  BY JournalAssumption, FS_Interval DEF Pages
<1> SUFFICES ASSUME NEW S \in SUBSET Pages
             PROVE  Cardinality(S) \in Nat /\ \A p \in S : Cardinality(S \ {p}) = Cardinality(S) - 1
  BY DEF Counting
<1>2. IsFiniteSet(S)
  BY <1>1, FS_Subset
<1> QED  BY <1>2, FS_CardinalityType, FS_RemoveElement

-----------------------------------------------------------------------------
(* The refinement.                                                         *)

\* What Recovered makes of every page, for a well-formed journal.
LEMMA RecoveredFacts ==
  ASSUME NEW m, NEW j \in Journal, IsHot(j), WellFormed(j)
  PROVE  /\ \A p \in Pages : p > j.init => Recovered(m, j)[p] = Absent
         /\ \A p \in Pages \ RecordedIn(j) : p <= j.init => Recovered(m, j)[p] = m[p]
         /\ \A i \in Valid(j) : Recovered(m, j)[j.recs[i].page] = j.recs[i].data
<1> DEFINE recs(p) == {i \in Valid(j) : j.recs[i].page = p}
           last(p) == CHOOSE i \in recs(p) : \A k \in recs(p) : k <= i
<1>1. Recovered(m, j) = [p \in Pages |->
         IF p > j.init THEN Absent
         ELSE IF recs(p) = {} THEN m[p] ELSE j.recs[last(p)].data]
  BY DEF Recovered
<1>2. j.init \in Nat /\ \A p \in Pages : p \in Nat
  BY DEF Journal, Pages
<1>3. \A p \in Pages \ RecordedIn(j) : recs(p) = {}
  BY Zenon DEF RecordedIn
<1>4. ASSUME NEW i \in Valid(j)  PROVE  Recovered(m, j)[j.recs[i].page] = j.recs[i].data
  <2>1. j.recs[i].page \in Pages /\ i \in Nat
    BY ValidFacts, Zenon
  <2>2. recs(j.recs[i].page) = {i}
    BY Zenon DEF WellFormed
  <2>3. last(j.recs[i].page) = i
    BY <2>1, <2>2
  <2>4. j.recs[i].page <= j.init /\ ~ (j.recs[i].page > j.init)
    BY <1>2, <2>1 DEF WellFormed
  <2> HIDE DEF recs, last
  <2> QED  BY <1>1, <2>1, <2>2, <2>3, <2>4, Zenon
<1>5. \A p \in Pages : p > j.init => Recovered(m, j)[p] = Absent
  BY <1>1, Zenon
<1>6. \A p \in Pages \ RecordedIn(j) : p <= j.init => Recovered(m, j)[p] = m[p]
  <2> HIDE DEF recs, last
  <2> QED  BY <1>1, <1>2, <1>3
<1> QED  BY <1>4, <1>5, <1>6, Zenon

\* Files that differ only in pages the journal restores recover alike.
LEMMA RecoveredSame ==
  ASSUME NEW m, NEW n, NEW j \in Journal, \A p \in Pages \ RecordedIn(j) : p <= j.init => m[p] = n[p], IsHot(j)
  PROVE  Recovered(m, j) = Recovered(n, j)
<1> DEFINE recs(p) == {i \in Valid(j) : j.recs[i].page = p}
           last(p) == CHOOSE i \in recs(p) : \A k \in recs(p) : k <= i
<1>1. \A f : Recovered(f, j) = [p \in Pages |->
         IF p > j.init THEN Absent
         ELSE IF recs(p) = {} THEN f[p] ELSE j.recs[last(p)].data]
  BY DEF Recovered
<1>2. \A p \in Pages : recs(p) = {} => p \notin RecordedIn(j)
  BY Zenon DEF RecordedIn
<1>3. j.init \in Nat /\ \A p \in Pages : p \in Nat
  BY DEF Journal, Pages
<1> HIDE DEF recs, last
<1>4. ASSUME NEW p \in Pages
      PROVE  (IF p > j.init THEN Absent ELSE IF recs(p) = {} THEN m[p] ELSE j.recs[last(p)].data)
           = (IF p > j.init THEN Absent ELSE IF recs(p) = {} THEN n[p] ELSE j.recs[last(p)].data)
  BY <1>2, <1>3
<1> QED  BY <1>1, <1>4, Zenon

\* Without a journal, or with one whose pre-images the file holds, recovery
\* changes nothing.
LEMMA NothingToRecover ==
  ASSUME main \in [Pages -> Nat], NEW j \in Journal,
         ~ IsHot(j) \/ (Fits(j) /\ IsHot(j) /\ \A p \in Pages : p > j.init => main[p] = Absent)
  PROVE  Recovered(main, j) = main
<1>1. CASE ~ IsHot(j)
  BY <1>1, Zenon DEF Recovered
<1>2. CASE Fits(j) /\ IsHot(j) /\ \A p \in Pages : p > j.init => main[p] = Absent
  <2>1. ASSUME NEW p \in Pages  PROVE  Recovered(main, j)[p] = main[p]
    <3>1. p \in Nat /\ j.init \in Nat /\ WellFormed(j) /\ Replayed(j)
      BY <1>2 DEF Fits, Pages, Journal
    <3>2. CASE p \in RecordedIn(j)
      <4>1. PICK i \in Valid(j) : p = j.recs[i].page
        BY <3>2, Zenon DEF RecordedIn
      <4>2. Recovered(main, j)[p] = j.recs[i].data
        BY <1>2, <3>1, <4>1, RecoveredFacts
      <4> QED  BY <3>1, <4>1, <4>2, Zenon DEF Replayed
    <3>3. CASE p \notin RecordedIn(j) /\ p <= j.init
      BY <1>2, <3>1, <3>3, RecoveredFacts
    <3>4. CASE p > j.init
      <4>1. Recovered(main, j)[p] = Absent
        BY <1>2, <3>1, <3>4, RecoveredFacts, Zenon
      <4> QED  BY <1>2, <3>4, <4>1, Zenon
    <3> QED  BY <3>1, <3>2, <3>3, <3>4
  <2>2. Recovered(main, j) = [p \in Pages |-> Recovered(main, j)[p]]
    BY DEF Recovered
  <2> QED  BY <2>1, <2>2, Zenon
<1> QED  BY <1>1, <1>2, Zenon

\* What a power loss may leave of a file that is synced.
LEMMA SettledOutcome ==
  ASSUME main \in [Pages -> Nat], Settled
  PROVE  MainOutcomes = {main}
<1>1. main \in MainOutcomes
  <2>1. \A p \in Pages : main[p] \in UNION {mainDisk[q] : q \in Pages}
    BY Zenon DEF Settled
  <2>2. main \in [Pages -> UNION {mainDisk[q] : q \in Pages}]
    BY <2>1, Zenon
  <2> QED  BY <2>2, Zenon DEF MainOutcomes, Settled
<1>2. ASSUME NEW m \in MainOutcomes  PROVE  m = main
  <2>1. m \in [Pages -> UNION {mainDisk[q] : q \in Pages}] /\ \A p \in Pages : m[p] = main[p]
    BY Zenon DEF MainOutcomes, Settled
  <2> QED  BY <2>1
<1> QED  BY <1>1, <1>2, Zenon

\* With the file synced and left alone, what a power loss leaves depends on the
\* journal only.
LEMMA JournalDecides ==
  ASSUME MainOutcomes = {main}, UNCHANGED <<main, mainDisk>>
  PROVE  /\ MainOutcomes' = {main}
         /\ Outcomes = {Image(Recovered(main, k)) : k \in jrnlDisk}
         /\ Outcomes' = {Image(Recovered(main, k)) : k \in jrnlDisk'}
<1>1. MainOutcomes' = {main}
  BY Zenon DEF MainOutcomes
<1>2. Outcomes = {Image(Recovered(main, k)) : k \in jrnlDisk}
  BY DEF Outcomes
<1>3. Outcomes' = {Image(Recovered(m, k)) : m \in MainOutcomes', k \in jrnlDisk'}
  BY DEF Outcomes
<1> QED  BY <1>1, <1>2, <1>3

\* A power loss may leave what processes see.
LEMMA DbAmongOutcomes ==
  ASSUME TypeOK, Sound
  PROVE  Db \in Outcomes
<1>1. main \in MainOutcomes
  <2>1. \A p \in Pages : main[p] \in UNION {mainDisk[q] : q \in Pages}
    BY Zenon DEF Sound
  <2>2. main \in [Pages -> UNION {mainDisk[q] : q \in Pages}]
    BY <2>1, Zenon DEF TypeOK
  <2> QED  BY <2>2, Zenon DEF MainOutcomes, Sound
<1> QED  BY <1>1 DEF Db, Outcomes, Sound

\* Half way through a commit or a recovery every power loss leaves the old
\* image.
LEMMA UnfinishedOutcome == TypeOK /\ Sound /\ Unfinished => Outcomes = {Db}
<1> SUFFICES ASSUME TypeOK, Sound, Unfinished  PROVE  Outcomes = {Db}
  OBVIOUS
<1>1. ASSUME NEW m \in MainOutcomes  PROVE  Recovered(m, jrnl) = Recovered(main, jrnl)
  <2>1. \A p \in Pages \ RecordedIn(jrnl) : p <= jrnl.init => m[p] = main[p]
    BY Zenon DEF MainOutcomes, Unfinished
  <2> QED  BY <2>1, RecoveredSame DEF Unfinished, TypeOK
<1>2. \A x \in Outcomes : x = Db
  BY <1>1 DEF Outcomes, Db, Unfinished
<1> QED  BY <1>2, DbAmongOutcomes, Zenon

\* Writes that the journal undoes change neither the database nor what a power
\* loss leaves.
LEMMA UnfinishedImage ==
  ASSUME TypeOK, TypeOK', Sound, Sound', Unfinished, OnlyRecorded
  PROVE  UNCHANGED <<Db, Outcomes>>
<1>1. Unfinished' /\ UNCHANGED jrnl
  BY UnfinishedKept, Zenon DEF OnlyRecorded
<1>2. Recovered(main', jrnl) = Recovered(main, jrnl)
  <2>1. \A p \in Pages \ RecordedIn(jrnl) : p <= jrnl.init => main'[p] = main[p]
    BY Zenon DEF OnlyRecorded
  <2> QED  BY <2>1, RecoveredSame DEF Unfinished, TypeOK
<1>3. Db' = Image(Recovered(main', jrnl))
  BY <1>1 DEF Db, Image, Recovered, IsHot, Valid
<1>4. Db' = Db
  BY <1>2, <1>3, Zenon DEF Db
<1>5. Outcomes = {Db}
  BY UnfinishedOutcome, Zenon
<1>6. (TypeOK /\ Sound /\ Unfinished => Outcomes = {Db})'
  BY UnfinishedOutcome, PTL
<1> QED  BY <1>1, <1>4, <1>5, <1>6, Zenon

\* The images are those of the four files.
LEMMA SameFiles == UNCHANGED files => UNCHANGED <<Db, Outcomes>>
BY DEF files, Db, Outcomes, MainOutcomes, Recovered, Image, IsHot, Valid

\* The outcomes once a journal that changes nothing is among the candidates.
LEMMA WriteJournalImage ==
  ASSUME TypeOK, Sound, Clean, NEW j \in Journal, Fits(j), IsHot(j), WriteJournal(j), UNCHANGED <<main, mainDisk>>
  PROVE  UNCHANGED <<Db, Outcomes>>
<1>1. /\ main \in [Pages -> Nat] /\ jrnl \in Journal /\ MainOutcomes = {main}
      /\ \A p \in Pages : p > main[1] => main[p] = Absent
  BY SettledOutcome, Zenon DEF TypeOK, Clean
<1>2. \A k \in Remains(j) : k \in Journal /\ Recovered(main, k) = main
  <2> SUFFICES ASSUME NEW k \in Remains(j)  PROVE  k \in Journal /\ Recovered(main, k) = main
    OBVIOUS
  <2>1. k = NoJournal \/ (k \in Journal /\ Fits(k))
    BY FitsRemains, Zenon
  <2>2. NoJournal \in Journal /\ ~ IsHot(NoJournal)
    BY RemainsType DEF IsHot, NoJournal
  <2> QED  BY <1>1, <2>1, <2>2, NothingToRecover, Zenon DEF Fits
<1>3. Recovered(main, jrnl) = main
  <2>1. IsHot(jrnl) => Fits(jrnl)
    BY Zenon DEF Clean, Sound, Fits
  <2> QED  BY <1>1, <2>1, NothingToRecover, Zenon DEF Fits
<1>4. Db = Image(main)
  BY <1>3, Zenon DEF Db
<1>5. jrnl' = j /\ jrnlDisk' = jrnlDisk \union Remains(j) /\ j \in Remains(j)
  BY RemainsFacts, Zenon DEF WriteJournal
<1>6. Db' = Image(Recovered(main, j))
  BY <1>5 DEF Db, Image, Recovered, IsHot, Valid
<1>7. Db' = Db
  BY <1>2, <1>4, <1>5, <1>6, Zenon
<1>8. Outcomes = {Image(Recovered(main, k)) : k \in jrnlDisk}
  BY <1>1, JournalDecides, Zenon
<1>9. Outcomes' = {Image(Recovered(main, k)) : k \in jrnlDisk'}
  BY <1>1, JournalDecides, Zenon
<1>10. Db \in Outcomes
  BY DbAmongOutcomes, Zenon
<1>11. {Image(Recovered(main, k)) : k \in jrnlDisk'} = {Image(Recovered(main, k)) : k \in jrnlDisk} \union {Db}
  BY <1>2, <1>4, <1>5, Zenon
<1> QED  BY <1>7, <1>8, <1>9, <1>10, <1>11, Zenon

\* Deleting the journal of a synced file.
LEMMA DeleteImage ==
  ASSUME main \in [Pages -> Nat], Settled, DeleteJournalFile, UNCHANGED <<main, mainDisk>>
  PROVE  Db' = Image(main) /\ Outcomes' = Outcomes \union {Db'}
<1>1. MainOutcomes = {main}
  BY SettledOutcome, Zenon
<1>3. jrnl' = NoJournal /\ jrnlDisk' = jrnlDisk \union {NoJournal}
  BY Zenon DEF DeleteJournalFile
<1>4. Recovered(main, NoJournal) = main
  BY DEF Recovered, IsHot, NoJournal
<1>5. Db' = Image(Recovered(main, NoJournal))
  BY <1>3 DEF Db, Image, Recovered, IsHot, Valid
<1>6. Outcomes = {Image(Recovered(main, k)) : k \in jrnlDisk}
  BY <1>1, JournalDecides, Zenon
<1>7. Outcomes' = {Image(Recovered(main, k)) : k \in jrnlDisk'}
  BY <1>1, JournalDecides, Zenon
<1>8. Db' = Image(main)
  BY <1>4, <1>5, Zenon
<1> QED  BY <1>3, <1>4, <1>6, <1>7, <1>8, Zenon

\* A step of c that shows nothing is a Work step of the store.
LEMMA WorkStep ==
  ASSUME NEW c \in Conn, Db' = Db, Outcomes' \in {Outcomes, {Db}}, \A d \in Conn \ {c} : dirty'[d] = dirty[d]
  PROVE  Store!Next
BY Zenon DEF Store!Next, Store!Work

\* recover_hot_journal changes nothing that anybody sees.
LEMMA RecoveryWorks ==
  ASSUME ReadInv, ReadInv', FileInv, FileInv', fails.io = 0, fails'.io = 0, NEW c \in Conn,
         ReplayRecord(c) \/ Truncate(c) \/ RecoverSync(c) \/ RecoverDelete(c)
  PROVE  Store!Next
<1>1. UNCHANGED dirty /\ pc[c] \in RecoverySteps
  BY Zenon DEF ReplayRecord, Truncate, RecoverSync, RecoverDelete, RecoverySteps
<1>2. TypeOK /\ TypeOK' /\ Sound /\ Sound'
  BY Zenon DEF ReadInv, FileInv
<1>3. CASE ReplayRecord(c) \/ Truncate(c) \/ RecoverSync(c)
  <2>1. (Clean /\ UNCHANGED files) \/ (Unfinished /\ OnlyRecorded)
    BY <1>3, RestoreFiles, Zenon
  <2>2. UNCHANGED <<Db, Outcomes>>
    BY <1>2, <2>1, SameFiles, UnfinishedImage, Zenon
  <2> QED  BY <1>1, <2>2, WorkStep, Zenon
<1>4. CASE RecoverDelete(c)
  <2>1. pc[c] = "rdelete" /\ DeleteJournalFile /\ UNCHANGED <<main, mainDisk>>
    BY <1>4, Zenon DEF RecoverDelete
  <2>2. /\ RestoreInv(c) /\ IsHot(jrnl) /\ jrnl \in Journal /\ WellFormed(jrnl) /\ main \in [Pages -> Nat]
        /\ main[1] = jrnl.init
    BY <1>1, <2>1, RestoringFacts, RestoredSize, Zenon
  <2>3. Settled /\ Fits(jrnl) /\ \A p \in Pages : p > jrnl.init => main[p] = Absent
    BY <2>1, <2>2, Zenon DEF RestoreInv, Fits
  <2>4. Db = Image(main)
    BY <2>2, <2>3, NothingToRecover, Zenon DEF Db
  <2>5. Db' = Image(main) /\ Outcomes' = Outcomes \union {Db'}
    BY <2>1, <2>2, <2>3, DeleteImage, Zenon
  <2>6. Db' = Db /\ Outcomes' = Outcomes
    BY <1>2, <2>4, <2>5, DbAmongOutcomes, Zenon
  <2> QED  BY <1>1, <2>6, WorkStep, Zenon
<1> QED  BY <1>3, <1>4, Zenon

\* flush_locked up to the deletion of the journal changes nothing that anybody
\* sees.
LEMMA JournalingWorks ==
  ASSUME Counting, Synchronous = "Full", ReadInv, ReadInv', FileInv, FileInv', fails.io = 0, fails'.io = 0, NEW c \in Conn,
         JournalHeader(c) \/ JournalRecord(c) \/ JournalSync(c) \/ WriteBack(c) \/ MainSync(c)
  PROVE  Store!Next
<1>1. UNCHANGED dirty
  BY Zenon DEF JournalHeader, JournalRecord, JournalSync, WriteBack, MainSync
<1>2. TypeOK /\ TypeOK' /\ Sound /\ Sound' /\ CommitInv(c) /\ TodoInv
  BY Zenon DEF ReadInv, FileInv
<1>3. CASE JournalHeader(c)
  <2> DEFINE j == [init |-> main[1], n_rec |-> Cardinality(ToJournal(c)), recs |-> << >>]
  <2>1. j \in Journal /\ IsHot(j) /\ Fits(j) /\ WriteJournal(j)
    BY <1>3, HeaderFits, Zenon
  <2> HIDE DEF j
  <2>2. Clean /\ UNCHANGED <<main, mainDisk>>
    BY <1>3, FlushingFacts, Zenon DEF JournalHeader
  <2>3. UNCHANGED <<Db, Outcomes>>
    BY <1>2, <2>1, <2>2, WriteJournalImage, Zenon
  <2> QED  BY <1>1, <2>3, WorkStep, Zenon
<1>4. CASE JournalRecord(c)
  <2>1. pc[c] = "journal" /\ UNCHANGED <<main, mainDisk>>
    BY <1>4, Zenon DEF JournalRecord
  <2>2. PICK p \in todo[c], j \in Journal :
          /\ j.init = jrnl.init /\ j.n_rec = jrnl.n_rec
          /\ j.recs = Append(jrnl.recs, [page |-> p, data |-> main[p]])
          /\ WriteJournal(j)
    BY <1>2, <1>4, RecordFacts, Zenon
  <2>3. Fits(j) /\ IsHot(j)
    BY <2>1, <2>2, RecordFits, Zenon
  <2>4. Clean
    BY <1>2, <2>1, Zenon DEF CommitInv, JournalInv
  <2>5. UNCHANGED <<Db, Outcomes>>
    BY <1>2, <2>1, <2>2, <2>3, <2>4, WriteJournalImage
  <2> QED  BY <1>1, <2>5, WorkStep, Zenon
<1>5. CASE JournalSync(c)
  <2>1. pc[c] = "journal" /\ UNCHANGED <<main, mainDisk, jrnl>> /\ jrnlDisk' = {jrnl}
    BY <1>5, Zenon DEF JournalSync
  <2>2. MainOutcomes = {main}
    BY <1>2, <2>1, SettledOutcome DEF CommitInv, JournalInv, Clean, TypeOK
  <2>4. Db' = Db
    BY <2>1 DEF Db, Image, Recovered, IsHot, Valid
  <2>5. Outcomes' = {Image(Recovered(main, k)) : k \in jrnlDisk'}
    BY <2>1, <2>2, JournalDecides, Zenon
  <2>6. Outcomes' = {Db}
    BY <2>1, <2>5, Zenon DEF Db
  <2> QED  BY <1>1, <2>4, <2>6, WorkStep
<1>6. CASE WriteBack(c) \/ MainSync(c)
  <2>1. Unfinished
    BY <1>2, <1>6, Zenon DEF WriteBack, MainSync, CommitInv, WriteInv
  <2>2. OnlyRecorded
    BY <1>6, WriteFiles, Zenon
  <2>3. UNCHANGED <<Db, Outcomes>>
    BY <1>2, <2>1, <2>2, UnfinishedImage, Zenon
  <2> QED  BY <1>1, <2>3, WorkStep, Zenon
<1> QED  BY <1>3, <1>4, <1>5, <1>6, Zenon

\* The deletion of the journal is the commit.
LEMMA DeleteCommits ==
  ASSUME ReadInv, FileInv, fails.io = 0, NEW c \in Conn, DeleteJournal(c)
  PROVE  Store!Next
<1>1. pc[c] = "delete" /\ DeleteJournalFile /\ UNCHANGED <<main, mainDisk>> /\ dirty' = [dirty EXCEPT ![c] = NoWrites]
  BY Zenon DEF DeleteJournal
<1>2. TypeOK /\ Sound /\ jrnl \in Journal /\ dirty[c] # NoWrites /\ main \in [Pages -> Nat] /\ IsPartial(dirty[c])
  BY <1>1, CommittingFacts, Zenon DEF CommitSteps
<1>3. /\ Unfinished /\ Settled /\ main[1] \in 1 .. MaxPage
      /\ \A p \in Pages : p > main[1] => main[p] = Absent
      /\ \A p \in DOMAIN dirty[c] : main[p] = dirty[c][p] /\ p <= main[1]
      /\ \A p \in Pages \ DOMAIN dirty[c] : p > jrnl.init => main[p] = Absent
      /\ RecordedIn(jrnl) \subseteq DOMAIN dirty[c]
  BY <1>1, CommittedFile, Zenon
<1>4. Db' = Image(main) /\ Outcomes' = {Db, Db'}
  <2>1. Outcomes = {Db}
    BY <1>2, <1>3, UnfinishedOutcome, Zenon
  <2> QED  BY <1>1, <1>2, <1>3, <2>1, DeleteImage, Zenon
<1> DEFINE R == Recovered(main, jrnl)
<1>5. WellFormed(jrnl) /\ IsHot(jrnl) /\ 1 \in Pages /\ jrnl.init \in 1 .. MaxPage
  BY <1>3, JournalAssumption DEF Unfinished, WellFormed, Pages
<1>6. /\ \A p \in Pages : p > jrnl.init => R[p] = Absent
      /\ \A p \in Pages \ RecordedIn(jrnl) : p <= jrnl.init => R[p] = main[p]
      /\ \A i \in Valid(jrnl) : R[jrnl.recs[i].page] = jrnl.recs[i].data
  BY <1>2, <1>5, RecoveredFacts
<1>7. Db = [p \in Pages |-> IF p <= R[1] THEN R[p] ELSE Absent]
  BY Zenon DEF Db, Image
<1> HIDE DEF R
<1>8. R[1] = jrnl.init
  <2>1. CASE 1 \in RecordedIn(jrnl)
    <3>1. PICK i \in Valid(jrnl) : jrnl.recs[i].page = 1
      BY <2>1, Zenon DEF RecordedIn
    <3> QED  BY <1>5, <1>6, <3>1, Zenon DEF WellFormed
  <2>2. CASE 1 \notin RecordedIn(jrnl)
    BY <1>5, <1>6, <2>2 DEF WellFormed
  <2> QED  BY <2>1, <2>2, Zenon
<1>9. ASSUME NEW p \in Pages
      PROVE  (IF p <= main[1] THEN main[p] ELSE Absent) = (IF p \in DOMAIN dirty[c] THEN dirty[c][p] ELSE Db[p])
  <2>1. p \in Nat /\ main[1] \in Nat /\ jrnl.init \in Nat
    BY <1>3, <1>5 DEF Pages
  <2>2. (IF p <= main[1] THEN main[p] ELSE Absent) = main[p]
    BY <1>3, <2>1
  <2>3. CASE p \in DOMAIN dirty[c]
    BY <1>3, <2>2, <2>3, Zenon
  <2>4. CASE p \notin DOMAIN dirty[c] /\ p <= jrnl.init
    BY <1>3, <1>6, <1>7, <1>8, <2>2, <2>4, Zenon
  <2>5. CASE p \notin DOMAIN dirty[c] /\ p > jrnl.init
    BY <1>3, <1>7, <1>8, <2>1, <2>2, <2>5
  <2> QED  BY <2>1, <2>3, <2>4, <2>5
<1>10. Db' = Store!Overlay(Db, dirty[c])
  BY <1>4, <1>9, Zenon DEF Image, Store!Overlay
<1>11. dirty[c] # Store!NoWrites /\ dirty' = [dirty EXCEPT ![c] = Store!NoWrites]
  BY <1>1, <1>2, Zenon DEF NoWrites, Store!NoWrites
<1> QED  BY <1>4, <1>10, <1>11, Zenon DEF Store!Next, Store!Commit

\* A power loss leaves one of the outcomes.
LEMMA PowerLossLeaves ==
  ASSUME PowerLoss
  PROVE  Store!PowerLoss
<1>1. PICK m \in [Pages -> UNION {mainDisk[p] : p \in Pages}] :
        (\A p \in Pages : m[p] \in mainDisk[p]) /\ main' = m /\ mainDisk' = [p \in Pages |-> {m[p]}]
  BY Zenon DEF PowerLoss
<1>2. PICK j \in jrnlDisk : jrnl' = j /\ jrnlDisk' = {j}
  BY Zenon DEF PowerLoss
<1>3. Db' = Image(Recovered(m, j))
  BY <1>1, <1>2 DEF Db, Image, Recovered, IsHot, Valid
<1>4. Db' \in Outcomes
  BY <1>1, <1>3 DEF Outcomes, MainOutcomes
<1>5. MainOutcomes' = {m}
  <2>1. MainOutcomes' = {n \in [Pages -> UNION {{m[p]} : p \in Pages}] : \A p \in Pages : n[p] = m[p]}
    BY <1>1 DEF MainOutcomes
  <2>2. m \in [Pages -> UNION {{m[p]} : p \in Pages}]
    OBVIOUS
  <2> QED  BY <2>1, <2>2
<1>6. Outcomes' = {Image(Recovered(n, k)) : n \in MainOutcomes', k \in jrnlDisk'}
  BY DEF Outcomes, Image, Recovered
<1>7. Outcomes' = {Db'}
  BY <1>2, <1>3, <1>5, <1>6
<1>8. dirty' = [c \in Conn |-> Store!NoWrites]
  BY Zenon DEF PowerLoss, NoWrites, Store!NoWrites
<1> QED  BY <1>4, <1>7, <1>8, Zenon DEF Store!PowerLoss

\* The new database is an initial state of AtomicStore.
LEMMA StoreInit == Init => Store!Init
<1> SUFFICES ASSUME Init  PROVE  Store!Init
  OBVIOUS
<1>1. Sound /\ main \in [Pages -> Nat] /\ Settled
  <2>1. FileInv /\ fails.io = 0 /\ TypeOK
    BY InitFile, InitType, Zenon DEF Init
  <2>2. mainDisk = [p \in Pages |-> {main[p]}]
    BY Zenon DEF Init
  <2> QED  BY <2>1, <2>2, Zenon DEF FileInv, TypeOK, Settled
<1>2. MainOutcomes = {main}
  BY <1>1, SettledOutcome, Zenon
<1>3. Outcomes = {Db}
  BY <1>2 DEF Outcomes, Db, Init
<1> QED  BY <1>3, Zenon DEF Store!Init, Init, NoWrites, Store!NoWrites

\* Every step is a step of AtomicStore, or comes after a failed flush.
LEMMA StoreStep ==
  ASSUME Counting, Synchronous = "Full", ReadInv, ReadInv', FileInv, FileInv', [Next]_vars
  PROVE  [fails'.io > 0 \/ Store!Next]_(Store!vars)
<1>1. TypeOK /\ fails.io \in Nat /\ fails'.io \in Nat /\ DOMAIN dirty = Conn
  BY Zenon DEF ReadInv, TypeOK
<1>2. CASE fails'.io # 0
  BY <1>1, <1>2
<1>3. CASE UNCHANGED vars
  <2>1. UNCHANGED <<Db, Outcomes>> /\ UNCHANGED dirty
    BY <1>3, SameFiles, Zenon DEF vars, files
  <2> QED  BY <2>1, Zenon DEF Store!vars
<1>4. CASE PowerLoss
  BY <1>4, PowerLossLeaves, Zenon DEF Store!Next
<1>5. ASSUME fails'.io = 0, NEW c \in Conn,
             Opening(c) \/ Working(c) \/ Committing(c) \/ Locking(c) \/ Kill(c)
      PROVE  Store!Next
  <2>1. fails.io = 0
    BY <1>1, <1>5, FailsGrow, Zenon
  <2>2. CASE ReplayRecord(c) \/ Truncate(c) \/ RecoverSync(c) \/ RecoverDelete(c)
    BY <1>5, <2>1, <2>2, RecoveryWorks, Zenon
  <2>3. CASE JournalHeader(c) \/ JournalRecord(c) \/ JournalSync(c) \/ WriteBack(c) \/ MainSync(c)
    BY <1>5, <2>1, <2>3, JournalingWorks, Zenon
  <2>4. CASE DeleteJournal(c)
    BY <2>1, <2>4, DeleteCommits, Zenon
  <2>5. CASE IOError(c)
    BY <1>1, <1>5, <2>5 DEF IOError, TypeOK
  <2>6. CASE /\ Opening(c) \/ Working(c) \/ Flush(c) \/ LockDown(c) \/ Locking(c) \/ Kill(c)
             /\ ~ ReplayRecord(c) /\ ~ Truncate(c) /\ ~ RecoverSync(c) /\ ~ RecoverDelete(c)
    <3>1. UNCHANGED files
      BY <2>6, QuietFiles, Zenon
    <3>2. UNCHANGED <<Db, Outcomes>>
      BY <3>1, SameFiles, Zenon
    <3>3. \A d \in Conn \ {c} : dirty'[d] = dirty[d]
      BY <1>1, <2>6, Zenon
      DEF Opening, CheckJournal, LockShared, LockSharedFails, CheckReserved, OpenJournal, DeEscalate, Gone,
          Working, FillCache, Mutate, Allocate, Rollback, Close, Flush, LockDown,
          Locking, Begin, BeginDone, Climb, Contended, Kill
    <3> QED  BY <3>2, <3>3, WorkStep, Zenon
  <2> QED  BY <1>5, <2>2, <2>3, <2>4, <2>5, <2>6, Zenon DEF Committing
<1> QED  BY <1>1, <1>2, <1>3, <1>4, <1>5, Zenon DEF Next

-----------------------------------------------------------------------------
(* The theorems.                                                           *)

\* "Hot journal is never ignored": for any number of connections and pages and
\* any interleaving of Pager::open and flush, with power losses at any point, no
\* Pager is built beside a hot journal (before an I/O call of a flush has failed).
THEOREM JournalNeverIgnored == NoKillRace => (Spec => []HotJournalNeverIgnored)
<1> SUFFICES ASSUME NoKillRace  PROVE  Spec => []HotJournalNeverIgnored
  OBVIOUS
<1>1. ReadInv => HotJournalNeverIgnored
  BY NotHotWhenReady DEF HotJournalNeverIgnored
<1> QED  BY <1>1, CountingHolds, ReadInvHolds, PTL

\* read_page returns the committed page, through any interleaving of the
\* connections' opens, flushes, rollbacks and power losses: never a page of an
\* unfinished flush, nor a stale copy of the page cache.
THEOREM JournalReadsCommitted == NoKillRace /\ "io" \notin Faults => (Spec => []ReadsAreCommitted)
<1> SUFFICES ASSUME NoKillRace, "io" \notin Faults  PROVE  Spec => []ReadsAreCommitted
  OBVIOUS
<1> DEFINE NoIo == fails.io = 0
<1>1. Init => NoIo
  BY DEF Init
<1>2. TypeOK /\ NoIo /\ [Next]_vars => NoIo'
  BY StaysWithoutIo
<1>3. ReadInv => TypeOK
  BY DEF ReadInv
<1>4. ReadInv /\ NoIo => ReadsAreCommitted
  BY ReadInvReads
<1> QED  BY <1>1, <1>2, <1>3, <1>4, CountingHolds, ReadInvHolds, PTL DEF Spec

\* One connection that nobody contends with is back at Shared after every
\* flush, failed ones included, and after every rollback (set_level at the end
\* of flush, release_tx_lock).  With a second one it may keep a rung: see
\* Contended.
THEOREM JournalIdlesAtShared == Single => (Spec => []IdleAtShared)
<1> SUFFICES ASSUME Single  PROVE  Spec => []IdleAtShared
  OBVIOUS
<1>1. NoKillRace
  BY DEF Single, NoKillRace
<1>2. Init => IdleInv
  BY DEF Init, IdleInv
<1>3. ReadInv /\ IdleInv /\ [Next]_vars => IdleInv'
  BY IdleStep DEF ReadInv
<1>4. IdleInv => IdleAtShared
  BY DEF IdleInv, IdleAtShared
<1> QED  BY <1>1, <1>2, <1>3, <1>4, CountingHolds, ReadInvHolds, PTL DEF Spec

\* Commits in rollback-journal mode are atomic, isolated and survive power
\* losses, torn pages included, at every point of flush_locked and of
\* recover_hot_journal, a second loss during the recovery included: with
\* synchronous=FULL the files implement AtomicStore, for any number of
\* connections, pages and values.
THEOREM JournalIsAtomic == NoKillRace /\ Synchronous = "Full" => (Spec => CommitsAreAtomic)
<1> SUFFICES ASSUME NoKillRace, Synchronous = "Full"  PROVE  Spec => CommitsAreAtomic
  OBVIOUS
<1>1. Init => Store!Init
  BY StoreInit
<1>2. ReadInv /\ ReadInv' /\ FileInv /\ FileInv' /\ [Next]_vars => [fails'.io > 0 \/ Store!Next]_(Store!vars)
  BY StoreStep, CountingHolds
<1> QED  BY <1>1, <1>2, CountingHolds, FileInvHolds, PTL DEF Spec, CommitsAreAtomic

=============================================================================
