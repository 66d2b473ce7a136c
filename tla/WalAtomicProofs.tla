-------------------------- MODULE WalAtomicProofs ---------------------------
(***************************************************************************)
(* The write-ahead log with one writer, for any number of readers,         *)
(* checkpoints, slots, pages and frames: a log called complete is in the   *)
(* database file, and a commit is one step that a power loss keeps or      *)
(* undoes whole.                                                           *)
(***************************************************************************)
EXTENDS WalCommitProofs

-----------------------------------------------------------------------------
(* What a checkpoint calls backfilled.                                     *)

\* The committed frame after which no other has its page, and what of the
\* first n frames is durable in the database file.
Latest(w, i) == \A j \in i + 1 .. CommittedLen(w) : w[j].page # w[i].page
IsCopied(w, n, d) == \A i \in 1 .. CommittedLen(SubSeq(w, 1, n)) : Latest(w, i) => d[w[i].page] = {w[i].data}

\* A pass copies all that its part of the log commits, and moves nBackfill on.
CopyInv ==
  \A k \in Ckpt :
    /\ pc[k] = "backfill" =>
         \A p \in DOMAIN committed_pages(Prefix(k)) \ todo[k] : main[p] = committed_pages(Prefix(k))[p]
    /\ pc[k] = "backfilled" =>
         \A p \in DOMAIN committed_pages(Prefix(k)) : mainDisk[p] = {committed_pages(Prefix(k))[p]}
    /\ pc[k] \in {"backfill", "backfilled"} => nBackfill < bound[k]
TrueInv == \A p \in Pages : main[p] \in mainDisk[p]
LooseInv == \A p \in Pages \ DOMAIN committed_pages(wal) : mainDisk[p] = {main[p]}
BackfillInv ==
  nBackfill <= Len(wal) /\ IsCopied(wal, nBackfill, mainDisk) /\ TrueInv /\ LooseInv /\ CopyInv

\* What is the latest of the log is the latest of a part that has it.
LEMMA LatestOfPrefix ==
  ASSUME NEW v \in Seq(Frames), NEW w \in Seq(Frames), LogPrefix(v, w), NEW i \in 1 .. CommittedLen(v), Latest(w, i)
  PROVE  w[i].page \in DOMAIN committed_pages(v) /\ committed_pages(v)[w[i].page] = w[i].data
<1>1. PICK n \in Nat, m \in Nat : n = CommittedLen(v) /\ n <= Len(v) /\ m = CommittedLen(w) /\ n <= m
  BY CommittedLenFacts, PrefixFacts, Zenon
<1>2. \A j \in 1 .. n : w[j] = v[j]
  <2>1. \A j \in 1 .. Len(v) : w[j] = v[j]
    BY Zenon DEF LogPrefix
  <2>2. \A j \in 1 .. n : j \in 1 .. Len(v)
    BY <1>1
  <2> QED  BY <2>1, <2>2, Zenon
<1>3. i \in 1 .. n /\ \A j \in i + 1 .. n : j \in 1 .. n /\ j \in i + 1 .. m
  BY <1>1
<1>4. \A j \in i + 1 .. CommittedLen(v) : v[j].page # v[i].page
  BY <1>1, <1>2, <1>3, Zenon DEF Latest
<1>5. /\ DOMAIN committed_pages(v) = {v[j].page : j \in 1 .. CommittedLen(v)}
      /\ \A j \in 1 .. CommittedLen(v) :
           (\A h \in j + 1 .. CommittedLen(v) : v[h].page # v[j].page) => committed_pages(v)[v[j].page] = v[j].data
  BY CommittedPages
<1> QED  BY <1>2, <1>3, <1>4, <1>5, Zenon

LEMMA PassCopies ==
  ASSUME LogType, CkptType, CkptInv, NEW k \in Ckpt, pc[k] # "idle", NEW n \in Nat, n <= bound[k],
         NEW i \in 1 .. CommittedLen(SubSeq(wal, 1, n)), Latest(wal, i)
  PROVE  wal[i].page \in DOMAIN committed_pages(Prefix(k)) /\ committed_pages(Prefix(k))[wal[i].page] = wal[i].data
<1>1. Prefix(k) \in Seq(Frames) /\ LogPrefix(Prefix(k), wal) /\ Len(Prefix(k)) = bound[k] /\ wal \in Seq(Frames)
  BY PassInLog, Zenon DEF LogType
<1>2. bound[k] \in Nat /\ bound[k] <= Len(wal) /\ n <= Len(wal)
  BY <1>1 DEF LogPrefix, CkptType
<1>3. SubSeq(wal, 1, n) \in Seq(Frames) /\ Len(SubSeq(wal, 1, n)) = n /\ \A j \in 1 .. n : SubSeq(wal, 1, n)[j] = wal[j]
  BY <1>1, <1>2, SubSeqFacts, Zenon
<1>4. LogPrefix(SubSeq(wal, 1, n), Prefix(k))
  BY <1>1, <1>2, <1>3 DEF LogPrefix
<1>5. CommittedLen(SubSeq(wal, 1, n)) <= CommittedLen(Prefix(k))
  BY <1>1, <1>3, <1>4, PrefixFacts, Zenon
<1>6. i \in 1 .. CommittedLen(Prefix(k))
  <2>1. CommittedLen(SubSeq(wal, 1, n)) \in Nat /\ CommittedLen(Prefix(k)) \in Nat
    BY <1>1, <1>3, CommittedLenFacts, Zenon
  <2> QED  BY <1>5, <2>1
<1> QED  BY <1>1, <1>6, LatestOfPrefix, Zenon

\* The pages past MaxCkptPage are none.
LEMMA WholePass ==
  ASSUME LogType, CkptType, CkptInv, SizeInv, NEW k \in Ckpt, pc[k] # "idle", NEW p \in DOMAIN committed_pages(Prefix(k))
  PROVE  p <= MaxCkptPage(k)
<1>1. Prefix(k) \in Seq(Frames) /\ LogPrefix(Prefix(k), wal) /\ wal \in Seq(Frames)
  BY PassInLog, Zenon DEF LogType
<1>2. PICK n \in Nat : /\ n = CommittedLen(Prefix(k)) /\ n <= Len(Prefix(k))
                       /\ n > 0 => Prefix(k)[n].db_size > 0
  BY <1>1, CommittedLenFacts, Zenon
<1>3. PICK i \in 1 .. n : Prefix(k)[i].page = p
  <2>1. DOMAIN committed_pages(Prefix(k)) = {Prefix(k)[i].page : i \in 1 .. CommittedLen(Prefix(k))}
    BY <1>1, CommittedPages
  <2> QED  BY <1>2, <2>1, Zenon
<1> DEFINE s == Prefix(k)[n].db_size
           S == {q \in Pages : main[q] # Absent} \union {IF n = 0 THEN 0 ELSE Prefix(k)[n].db_size}
<1>4. n # 0 /\ n \in 1 .. Len(Prefix(k)) /\ n \in 1 .. Len(wal) /\ i \in 1 .. Len(Prefix(k))
  BY <1>1, <1>2, <1>3 DEF LogPrefix
<1>5. s \in Nat /\ s > 0
  <2>1. Prefix(k)[n] \in Frames /\ n > 0
    BY <1>1, <1>4
  <2> QED  BY <1>2, <2>1, Zenon DEF Frames
<1>6. p <= s /\ p \in Nat
  <2>1. wal[n] = Prefix(k)[n] /\ wal[i] = Prefix(k)[i]
    BY <1>1, <1>4, Zenon DEF LogPrefix
  <2>2. p <= s
    BY <1>3, <1>4, <1>5, <2>1, Zenon DEF SizeInv
  <2>3. Prefix(k)[i] \in Frames
    BY <1>1, <1>4
  <2> QED  BY <1>3, <2>2, <2>3, PageOne, Zenon DEF Frames
<1>7. S = {q \in Pages : main[q] # Absent} \union {s}
  BY <1>4, Zenon
<1> HIDE DEF s
<1>8. S \subseteq 1 .. MaxPage + s /\ MaxPage + s \in Nat /\ S # {} /\ s \in S
  BY <1>5, <1>7, WalAssumption DEF Pages
<1> HIDE DEF S
<1>9. Greatest(S) \in S /\ \A y \in S : y <= Greatest(S)
  BY <1>8, GreatestFacts, Zenon
<1>10. MaxCkptPage(k) = Greatest(S)
  BY <1>2, Zenon DEF MaxCkptPage, S
<1>11. s <= MaxCkptPage(k) /\ MaxCkptPage(k) \in 1 .. MaxPage + s
  BY <1>8, <1>9, <1>10, Zenon
<1>12. \A a, b, c \in Nat : a <= b /\ b <= c => a <= c
  OBVIOUS
<1>13. MaxCkptPage(k) \in Nat
  BY <1>11
<1> QED  BY <1>5, <1>6, <1>11, <1>12, <1>13, Zenon

\* Later commits supersede frames, they do not undo what has been copied.
LEMMA CopiedGrows ==
  ASSUME NEW v \in Seq(Frames), NEW w \in Seq(Frames), LogPrefix(v, w), NEW n \in Nat, n <= Len(v),
         NEW d, IsCopied(v, n, d)
  PROVE  IsCopied(w, n, d)
<1>1. Len(v) \in Nat /\ Len(w) \in Nat /\ Len(v) <= Len(w) /\ \A j \in 1 .. Len(v) : w[j] = v[j]
  BY DEF LogPrefix
<1>2. SubSeq(w, 1, n) = SubSeq(v, 1, n) /\ SubSeq(v, 1, n) \in Seq(Frames) /\ Len(SubSeq(v, 1, n)) = n
  <2>1. SubSeq(v, 1, n) \in Seq(Frames) /\ Len(SubSeq(v, 1, n)) = n
    BY SubSeqFacts, Zenon
  <2>2. SubSeq(w, 1, n) = SubSeq(v, 1, n)
    BY <1>1
  <2> QED  BY <2>1, <2>2, Zenon
<1>3. PICK m \in Nat, a \in Nat, b \in Nat :
        /\ m = CommittedLen(SubSeq(v, 1, n)) /\ m <= n /\ a = CommittedLen(v) /\ a <= Len(v) /\ b = CommittedLen(w) /\ a <= b
  BY <1>2, CommittedLenFacts, PrefixFacts, Zenon
<1>4. ASSUME NEW i \in 1 .. m, Latest(w, i)  PROVE  d[w[i].page] = {w[i].data}
  <2>1. i \in 1 .. Len(v) /\ \A j \in i + 1 .. a : j \in i + 1 .. b /\ j \in 1 .. Len(v)
    BY <1>1, <1>3
  <2>2. w[i] = v[i] /\ Latest(v, i)
    BY <1>1, <1>3, <1>4, <2>1, Zenon DEF Latest
  <2>3. d[v[i].page] = {v[i].data}
    BY <1>3, <1>4, <2>2, Zenon DEF IsCopied
  <2> QED  BY <2>2, <2>3, Zenon
<1> QED  BY <1>2, <1>3, <1>4, Zenon DEF IsCopied

\* One page copied.
LEMMA BackfillPage ==
  ASSUME FileType, LogType, CkptType, CkptInv, BackfillInv, nBackfill \in Nat, NEW k \in Ckpt, Backfill(k)
  PROVE  /\ IsCopied(wal, nBackfill, mainDisk') /\ TrueInv' /\ LooseInv'
         /\ \A p \in DOMAIN committed_pages(Prefix(k)) \ todo'[k] : main'[p] = committed_pages(Prefix(k))[p]
<1> DEFINE f == committed_pages(Prefix(k))
<1>1. PICK p \in todo[k] :
        /\ p \in DOMAIN f /\ p \in Pages
        /\ main' = [main EXCEPT ![p] = f[p]]
        /\ mainDisk' = [mainDisk EXCEPT ![p] = IF @ = {f[p]} THEN @ ELSE @ \union {f[p], Torn}]
        /\ todo' = [todo EXCEPT ![k] = @ \ {p}]
  BY BackfillFacts, Zenon
<1>2. pc[k] = "backfill" /\ wal' = wal
  BY Zenon DEF Backfill, log
<1>3. DOMAIN f \subseteq DOMAIN committed_pages(wal) /\ DOMAIN f \subseteq Pages
  <2>1. DOMAIN f \subseteq DOMAIN committed_pages(wal) /\ Prefix(k) \in Seq(Frames)
    BY <1>2, PassInLog, Zenon
  <2> QED  BY <2>1, CommittedPages, Zenon DEF IsWrites
<1> HIDE DEF f
<1>4. /\ DOMAIN main = Pages /\ DOMAIN mainDisk = Pages /\ main'[p] = f[p]
      /\ \A q \in Pages : q # p => main'[q] = main[q] /\ mainDisk'[q] = mainDisk[q]
      /\ mainDisk'[p] = IF mainDisk[p] = {f[p]} THEN mainDisk[p] ELSE mainDisk[p] \union {f[p], Torn}
  BY <1>1, Zenon DEF FileType
<1>5. IsCopied(wal, nBackfill, mainDisk')
  <2> SUFFICES ASSUME NEW i \in 1 .. CommittedLen(SubSeq(wal, 1, nBackfill)), Latest(wal, i)
               PROVE  mainDisk'[wal[i].page] = {wal[i].data}
    BY Zenon DEF IsCopied
  <2>1. mainDisk[wal[i].page] = {wal[i].data} /\ nBackfill < bound[k] /\ bound[k] \in Nat
    BY <1>2, Zenon DEF BackfillInv, IsCopied, CopyInv, CkptType
  <2>2. nBackfill <= bound[k]
    BY <2>1
  <2>3. wal[i].page \in DOMAIN f /\ f[wal[i].page] = wal[i].data
    BY <1>2, <2>2, PassCopies, Zenon DEF f
  <2>4. wal[i].page \in Pages
    BY <1>3, <2>3, Zenon
  <2> QED  BY <1>4, <2>1, <2>3, <2>4, Zenon
<1>6. TrueInv'
  <2>1. ASSUME NEW q \in Pages  PROVE  main'[q] \in mainDisk'[q]
    BY <1>4, Zenon DEF BackfillInv, TrueInv
  <2> QED  BY <2>1, Zenon DEF TrueInv
<1>7. LooseInv'
  <2>1. ASSUME NEW q \in Pages \ DOMAIN committed_pages(wal)  PROVE  mainDisk'[q] = {main'[q]}
    BY <1>1, <1>3, <1>4, Zenon DEF BackfillInv, LooseInv
  <2> QED  BY <1>2, <2>1, Zenon DEF LooseInv
<1>8. \A q \in DOMAIN f \ todo'[k] : main'[q] = f[q]
  <2>1. todo'[k] = todo[k] \ {p}
    BY <1>1, Zenon DEF CkptType
  <2>2. \A q \in DOMAIN f \ todo[k] : main[q] = f[q]
    BY <1>2, Zenon DEF BackfillInv, CopyInv, f
  <2> QED  BY <1>3, <1>4, <2>1, <2>2, Zenon
<1> QED  BY <1>5, <1>6, <1>7, <1>8, Zenon DEF f

LEMMA BackfillStep ==
  Base /\ SizeInv /\ BackfillInv /\ ~ PowerLoss /\ [Next]_vars => BackfillInv'
<1> SUFFICES ASSUME Base, SizeInv, BackfillInv, ~ PowerLoss, [Next]_vars  PROVE  BackfillInv'
  OBVIOUS
<1>1. /\ FileType /\ LogType /\ ShmType /\ PcType /\ PagerType /\ CkptType /\ LogInv /\ CkptInv
      /\ TrueInv /\ LooseInv /\ CopyInv /\ nBackfill <= Len(wal) /\ IsCopied(wal, nBackfill, mainDisk)
      /\ nBackfill \in Nat
  BY Zenon DEF Base, TypeOK, BackfillInv, ShmType
<1>2. wal \in Seq(Frames) /\ wal' \in Seq(Frames) /\ LogPrefix(wal, wal') /\ Len(wal) <= Len(wal')
  BY <1>1, LogGrows, Zenon DEF LogType, LogPrefix
\* Steps that leave the file and nBackfill alone.
<1>3. ASSUME UNCHANGED <<main, mainDisk, nBackfill>>
      PROVE  nBackfill' <= Len(wal') /\ IsCopied(wal', nBackfill', mainDisk') /\ TrueInv' /\ LooseInv'
  <2>1. nBackfill' <= Len(wal')
    BY <1>1, <1>2, <1>3
  <2>2. IsCopied(wal', nBackfill', mainDisk')
    BY <1>1, <1>2, <1>3, CopiedGrows, Zenon
  <2>3. DOMAIN committed_pages(wal) \subseteq DOMAIN committed_pages(wal')
    BY <1>2, PrefixFacts, Zenon
  <2> QED  BY <1>1, <1>3, <2>1, <2>2, <2>3, Zenon DEF TrueInv, LooseInv
<1>4. ASSUME UNCHANGED <<main, mainDisk, nBackfill, seen, bound, todo>>, \A k \in Ckpt : pc'[k] = pc[k]
      PROVE  BackfillInv'
  <2>1. \A k : Prefix(k)' = Prefix(k)
    BY <1>4, Zenon DEF Prefix
  <2>2. CopyInv'
    BY <1>1, <1>4, <2>1, Zenon DEF CopyInv
  <2> QED  BY <1>3, <1>4, <2>2, Zenon DEF BackfillInv
<1>5. ASSUME NEW c \in Conn, ConnAct(c)  PROVE  BackfillInv'
  <2>1. UNCHANGED <<main, mainDisk, nBackfill, seen, bound, todo>> /\ \A k \in Ckpt : pc'[k] = pc[k]
    BY <1>1, <1>5, ConnMoves, Disjoint, Zenon DEF PcType
  <2> QED  BY <1>4, <2>1, Zenon
<1>6. ASSUME NEW k \in Ckpt, CkptAct(k)  PROVE  BackfillInv'
  <2>1. \A j \in Ckpt : j # k => pc'[j] = "idle"
    <3>1. \A j \in Ckpt : j # k => pc[j] = "idle"
      BY <1>1, <1>6, OnePass, Zenon
    <3> QED  BY <1>1, <1>6, <3>1, CkptMoves, Zenon DEF PcType
  <2>2. k \in DOMAIN pc /\ k \in DOMAIN todo /\ k \in DOMAIN bound /\ wal' = wal
    BY <1>1, <1>6, CkptMoves, Zenon DEF PcType, CkptType
  <2>3. CASE UNCHANGED <<main, mainDisk, nBackfill>> /\ pc'[k] \in {"idle", "probe"}
    <3>1. CopyInv'
      BY <2>1, <2>3, Zenon DEF CopyInv
    <3> QED  BY <1>3, <2>3, <3>1, Zenon DEF BackfillInv
  <2>4. CASE Decide(k) /\ pc'[k] = "backfill"
    <3>1. /\ pc[k] = "probe" /\ nBackfill < bound[k] /\ UNCHANGED <<seen, bound, main, mainDisk, nBackfill>>
          /\ todo'[k] = {p \in DOMAIN committed_pages(Prefix(k)) : p <= MaxCkptPage(k)}
      <4>1. ~ Release(k)
        BY <2>2, <2>4, Zenon DEF Release
      <4>2. bound[k] > nBackfill
        BY <2>4, <4>1, Zenon DEF Decide
      <4> QED  BY <1>1, <2>2, <2>4, <4>1, <4>2, Zenon DEF Decide, file, shm, CkptType
    <3>2. \A p \in DOMAIN committed_pages(Prefix(k)) : p \in todo'[k]
      BY <1>1, <3>1, WholePass, Zenon
    <3>3. Prefix(k)' = Prefix(k)
      BY <3>1, Zenon DEF Prefix
    <3>4. CopyInv'
      BY <2>1, <2>4, <3>1, <3>2, <3>3, Zenon DEF CopyInv
    <3> QED  BY <1>3, <3>1, <3>4, Zenon DEF BackfillInv
  <2>5. CASE Backfill(k)
    <3>1. /\ IsCopied(wal, nBackfill, mainDisk') /\ TrueInv' /\ LooseInv'
          /\ \A p \in DOMAIN committed_pages(Prefix(k)) \ todo'[k] : main'[p] = committed_pages(Prefix(k))[p]
      BY <1>1, <2>5, BackfillPage, Zenon
    <3>2. UNCHANGED <<nBackfill, seen, bound>> /\ pc[k] = "backfill" /\ pc'[k] = "backfill"
      BY <2>5, Zenon DEF Backfill, shm
    <3>3. Prefix(k)' = Prefix(k)
      BY <3>2, Zenon DEF Prefix
    <3>4. CopyInv'
      BY <1>1, <2>1, <3>1, <3>2, <3>3, Zenon DEF CopyInv
    <3> QED  BY <1>1, <2>2, <3>1, <3>2, <3>4, Zenon DEF BackfillInv
  <2>6. CASE CkptSync(k)
    <3>1. /\ UNCHANGED <<nBackfill, seen, bound, main>> /\ pc[k] = "backfill" /\ pc'[k] = "backfilled" /\ todo[k] = {}
          /\ \A p \in Pages : mainDisk'[p] = {main[p]}
      BY <2>2, <2>6, Zenon DEF CkptSync, shm, ckpt
    <3>2. Prefix(k)' = Prefix(k)
      BY <3>1, Zenon DEF Prefix
    <3>3. IsCopied(wal, nBackfill, mainDisk')
      <4> SUFFICES ASSUME NEW i \in 1 .. CommittedLen(SubSeq(wal, 1, nBackfill)), Latest(wal, i)
                   PROVE  mainDisk'[wal[i].page] = {wal[i].data}
        BY Zenon DEF IsCopied
      <4>1. mainDisk[wal[i].page] = {wal[i].data}
        BY <1>1, Zenon DEF IsCopied
      <4>2. wal[i].page \in Pages
        <5>1. CommittedLen(SubSeq(wal, 1, nBackfill)) \in Nat /\ CommittedLen(SubSeq(wal, 1, nBackfill)) <= nBackfill
          BY <1>1, <1>2, SubSeqFacts, CommittedLenFacts, Zenon
        <5>2. i \in 1 .. Len(wal) /\ wal[i] \in Frames
          BY <1>1, <1>2, <5>1
        <5> QED  BY <5>2, Zenon DEF Frames
      <4>3. main[wal[i].page] = wal[i].data
        BY <1>1, <4>1, <4>2, Zenon DEF TrueInv
      <4> QED  BY <3>1, <4>2, <4>3, Zenon
    <3>4. DOMAIN committed_pages(Prefix(k)) \subseteq Pages
      BY <1>1, PrefixOf, CommittedPages, Zenon DEF IsWrites
    <3>5. CopyInv'
      <4>1. \A p \in DOMAIN committed_pages(Prefix(k)) : main[p] = committed_pages(Prefix(k))[p]
        BY <1>1, <3>1, Zenon DEF CopyInv
      <4>2. \A p \in DOMAIN committed_pages(Prefix(k)') : mainDisk'[p] = {committed_pages(Prefix(k)')[p]}
        BY <3>1, <3>2, <3>4, <4>1, Zenon
      <4>3. nBackfill' < bound'[k]
        BY <1>1, <3>1, Zenon DEF CopyInv
      <4> QED  BY <2>1, <3>1, <4>2, <4>3, Zenon DEF CopyInv
    <3>6. TrueInv' /\ LooseInv'
      BY <3>1, Zenon DEF TrueInv, LooseInv
    <3> QED  BY <1>1, <2>2, <3>1, <3>3, <3>5, <3>6, Zenon DEF BackfillInv
  <2>7. CASE PublishBackfill(k)
    <3>1. nBackfill' = bound[k] /\ UNCHANGED <<main, mainDisk>> /\ pc[k] = "backfilled" /\ pc'[k] = "idle"
      BY <2>2, <2>7, Zenon DEF PublishBackfill, Release, file
    <3>2. bound[k] \in Nat /\ bound[k] <= Len(wal)
      BY <1>1, <3>1 DEF CkptInv, CkptType, LogPrefix
    <3>3. bound[k] <= bound[k]
      BY <3>2
    <3>4. IsCopied(wal, bound[k], mainDisk)
      <4> SUFFICES ASSUME NEW i \in 1 .. CommittedLen(SubSeq(wal, 1, bound[k])), Latest(wal, i)
                   PROVE  mainDisk[wal[i].page] = {wal[i].data}
        BY Zenon DEF IsCopied
      <4>1. wal[i].page \in DOMAIN committed_pages(Prefix(k)) /\ committed_pages(Prefix(k))[wal[i].page] = wal[i].data
        BY <1>1, <3>1, <3>2, <3>3, PassCopies, Zenon
      <4> QED  BY <1>1, <3>1, <4>1, Zenon DEF CopyInv
    <3>5. CopyInv'
      BY <2>1, <3>1, Zenon DEF CopyInv
    <3> QED  BY <1>1, <2>2, <3>1, <3>2, <3>4, <3>5, Zenon DEF BackfillInv, TrueInv, LooseInv
  <2>8. CASE CkptRead(k) \/ ProbeSlot(k) \/ Decide(k) \/ KillCkpt(k)
    <3>1. UNCHANGED <<main, mainDisk, nBackfill>>
      BY <2>8, Zenon DEF CkptRead, ProbeSlot, Decide, KillCkpt, file, shm
    <3>2. CkptRead(k) \/ ProbeSlot(k) \/ KillCkpt(k) => pc'[k] \in {"idle", "probe"}
      BY <2>2, Zenon DEF CkptRead, ProbeSlot, KillCkpt, Release
    <3>3. Decide(k) => pc'[k] \in {"idle", "backfill"}
      BY <2>2, Zenon DEF Decide, Release
    <3> QED  BY <2>3, <2>4, <2>8, <3>1, <3>2, <3>3, Zenon
  <2> QED  BY <1>6, <2>5, <2>6, <2>7, <2>8, Zenon DEF CkptAct, CkptStep
<1>7. UNCHANGED vars => BackfillInv'
  BY <1>4, Zenon DEF vars, file, shm, ckpt
<1> QED  BY <1>5, <1>6, <1>7, Steps, Zenon

LEMMA BackfillInvInit == Init => SizeInv /\ BackfillInv
<1> SUFFICES ASSUME Init  PROVE  SizeInv /\ BackfillInv
  OBVIOUS
<1>1. /\ FileType /\ LogType /\ wal = [i \in 1 .. InitFrames |-> Frame(1, 2, 2, 0)] /\ InitFrames \in {0, 1} /\ nBackfill = 0
      /\ mainDisk = [p \in Pages |-> {main[p]}]
  BY BaseInit, WalAssumption, Zenon DEF Init, Base, TypeOK
<1>2. wal \in Seq(Frames) /\ Len(wal) = InitFrames /\ \A i \in 1 .. Len(wal) : wal[i].page = 1 /\ wal[i].db_size = 2
  <2>1. wal \in Seq(Frames) /\ Len(wal) = InitFrames
    BY <1>1 DEF LogType
  <2> QED  BY <1>1, <2>1, Zenon DEF Frame
<1>3. SizeInv
  <2>1. DbSize \in Nat /\ DbSize # 0
    BY <1>1, DbSizeFacts, PageOne, Zenon
  <2>2. CommittedLen(wal) \in Nat /\ CommittedLen(wal) <= Len(wal)
    BY <1>2, CommittedLenFacts
  <2>3. Len(wal) \in Nat
    BY <1>2
  <2>4. \A i \in 1 .. CommittedLen(wal) : wal[i].page <= DbSize
    BY <1>2, <2>1, <2>2, <2>3
  <2>5. \A j \in 1 .. Len(wal) : \A i \in 1 .. j : wal[i].page <= wal[j].db_size
    BY <1>2, <2>3
  <2> QED  BY <2>4, <2>5, Zenon DEF SizeInv
<1>4. IsCopied(wal, 0, mainDisk) /\ nBackfill <= Len(wal)
  <2>1. SubSeq(wal, 1, 0) \in Seq(Frames) /\ Len(SubSeq(wal, 1, 0)) = 0
    BY <1>2
  <2>2. CommittedLen(SubSeq(wal, 1, 0)) \in Nat /\ CommittedLen(SubSeq(wal, 1, 0)) <= 0
    BY <2>1, CommittedLenFacts
  <2>3. 1 .. CommittedLen(SubSeq(wal, 1, 0)) = {}
    BY <2>2
  <2>4. nBackfill <= Len(wal)
    BY <1>1, <1>2
  <2> QED  BY <2>3, <2>4, Zenon DEF IsCopied
<1>5. TrueInv /\ LooseInv
  BY <1>1, Zenon DEF TrueInv, LooseInv
<1>6. CopyInv
  <2>1. \A k \in Ckpt : pc[k] = "idle"
    BY Disjoint, Zenon DEF Init
  <2> QED  BY <2>1, Zenon DEF CopyInv
<1> QED  BY <1>1, <1>3, <1>4, <1>5, <1>6, Zenon DEF BackfillInv

\* CompleteMeansBackfilled, for one writer and any number of readers and
\* checkpoints, each of which may be killed: when nBackfill says that the whole
\* log has been copied, the file has every page of the database durably, and
\* switch_wal_to_journal may delete the log.
THEOREM CompleteIsBackfilled ==
  Synchronous = "Full" /\ OneWriter /\ Faults \intersect {"power", "torn"} = {} => (Spec => []CompleteMeansBackfilled)
<1> SUFFICES ASSUME Synchronous = "Full", OneWriter, "power" \notin Faults, "torn" \notin Faults
             PROVE  Spec => []CompleteMeansBackfilled
  BY Zenon
<1> DEFINE J == Base /\ CommitInv /\ WriterInv /\ SizeInv /\ BackfillInv
<1>1. Init => J
  BY CommitInvInit, WriterInvInit, BackfillInvInit, Zenon
<1>2. J /\ [Next]_vars => J'
  <2>1. ~ PowerLoss
    BY Zenon DEF PowerLoss
  <2> QED  BY <2>1, CommitInvStep, WriterInvStep, SizeStep, BackfillStep, Zenon DEF CommitInv
<1>3. J => CompleteMeansBackfilled
  <2> SUFFICES ASSUME J, nBackfill = Len(wal) + junk, NEW p \in 1 .. Db[1]  PROVE  mainDisk[p] = {Db[p]}
    BY Zenon DEF CompleteMeansBackfilled
  <2>1. /\ FileType /\ LogType /\ wal \in Seq(Frames) /\ junk = 0
        /\ LooseInv /\ IsCopied(wal, nBackfill, mainDisk)
    BY Zenon DEF Base, TypeOK, LogType, LogInv, BackfillInv
  <2>2. Len(wal) \in Nat /\ nBackfill = Len(wal) /\ SubSeq(wal, 1, nBackfill) = wal
    BY <2>1
  <2>3. /\ DOMAIN Db = Pages /\ Db[1] \in Pages
        /\ \A q \in 1 .. Db[1] : Overlay(main, committed_pages(wal))[q] = Db[q]
    BY <2>1, OpenImage, Zenon
  <2>4. p \in Pages
    BY <2>3, WalAssumption DEF Pages
  <2>5. /\ \A q \in DOMAIN committed_pages(wal) : Overlay(main, committed_pages(wal))[q] = committed_pages(wal)[q]
        /\ \A q \in Pages \ DOMAIN committed_pages(wal) : Overlay(main, committed_pages(wal))[q] = main[q]
    BY <2>1, DbSizeFacts, Zenon
  <2>6. CASE p \notin DOMAIN committed_pages(wal)
    BY <2>1, <2>3, <2>4, <2>5, <2>6, Zenon DEF LooseInv
  <2>7. CASE p \in DOMAIN committed_pages(wal)
    <3>1. PICK i \in 1 .. CommittedLen(wal) :
            /\ wal[i].page = p /\ wal[i].data = committed_pages(wal)[p]
            /\ \A j \in i + 1 .. CommittedLen(wal) : wal[j].page # p
      BY <2>1, <2>7, CommittedPages
    <3>2. mainDisk[wal[i].page] = {wal[i].data}
      BY <2>1, <2>2, <3>1, Zenon DEF IsCopied, Latest
    <3> QED  BY <2>3, <2>5, <2>7, <3>1, <3>2, Zenon
  <2> QED  BY <2>6, <2>7
<1> QED  BY <1>1, <1>2, <1>3, PTL DEF Spec

-----------------------------------------------------------------------------
(* Commits and power losses, with checkpoints between the commits.         *)

\* No checkpoint runs beside a flush.
ApartInv == (\E c \in Conn : pc[c] \in Flushing) => \A k \in Ckpt : pc[k] = "idle"

\* The flush whose commit frame is not yet durable.
Settling(c) == pc[c] = "append" /\ left[c] = {}

\* What is durable: the pages that a power loss may leave torn are in the
\* synced part of the log, which ends at the last commit or the one before it.
StableInv ==
  /\ TrueInv
  /\ \A p \in Pages : mainDisk[p] # {main[p]} => p \in DOMAIN committed_pages(SubSeq(wal, 1, synced))
  /\ synced = CommittedLen(wal) \/ \E c \in Conn : Settling(c)
  /\ \A i \in synced + 1 .. Len(wal) - 1 : wal[i].db_size = 0

\* No flush runs beside a step of a checkpoint.
LEMMA ApartFacts ==
  ASSUME ApartInv, Concurrent = FALSE, NEW k \in Ckpt, CkptAct(k), NEW c \in Conn
  PROVE  pc[c] \notin Flushing
<1>1. pc[k] # "idle" \/ Quiet(Conn)
  BY Zenon DEF CkptAct, CkptStep, CkptRead, ProbeSlot, Decide, Backfill, CkptSync, PublishBackfill, KillCkpt
<1>2. \A x \in {"closed", "ready", "idle"} : x \notin Flushing
  BY Zenon DEF Flushing
<1> QED  BY <1>1, <1>2, Zenon DEF ApartInv, Quiet

LEMMA ApartStep == Base /\ ApartInv /\ Concurrent = FALSE /\ [Next]_vars => ApartInv'
<1> SUFFICES ASSUME Base, ApartInv, Concurrent = FALSE, [Next]_vars  PROVE  ApartInv'
  OBVIOUS
<1>1. PcType
  BY Zenon DEF Base, TypeOK
<1>2. ASSUME \A c \in Conn : pc'[c] = pc[c], \A k \in Ckpt : pc'[k] = pc[k]  PROVE  ApartInv'
  BY <1>2, Zenon DEF ApartInv
<1>3. ASSUME NEW c \in Conn, ConnAct(c)  PROVE  ApartInv'
  <2>1. (\A k \in Ckpt : pc'[k] = pc[k]) /\ \A d \in Conn : d # c => pc'[d] = pc[d]
    BY <1>1, <1>3, ConnMoves, Disjoint, Zenon DEF PcType
  <2>2. CASE pc'[c] \notin Flushing \/ pc[c] \in Flushing
    BY <2>1, <2>2, Zenon DEF ApartInv
  <2>3. ASSUME pc'[c] \in Flushing, pc[c] \notin Flushing  PROVE  \A k \in Ckpt : pc[k] = "idle"
    <3>1. ClaimWrite(c)
      <4>1. {"open", "append", "publish"} \subseteq Flushing
        BY Zenon DEF Flushing
      <4> QED  BY <1>1, <1>3, <2>3, <4>1, FlushSteps, Zenon DEF OpenWal, AppendFrame, SyncWal, PublishMx
    <3>2. \A k \in Ckpt : pc[k] \in {"closed", "ready", "idle"}
      BY <3>1, Zenon DEF ClaimWrite, Quiet
    <3> QED  BY <1>1, <3>2, Zenon DEF PcType, CkptSteps
  <2> QED  BY <2>1, <2>2, <2>3, Zenon DEF ApartInv
<1>4. ASSUME NEW k \in Ckpt, CkptAct(k)  PROVE  ApartInv'
  <2>1. \A c \in Conn : pc'[c] = pc[c] /\ pc[c] \notin Flushing
    BY <1>1, <1>4, ApartFacts, CkptMoves, Disjoint, Zenon DEF PcType
  <2> QED  BY <2>1, Zenon DEF ApartInv
<1>5. PowerLoss => ApartInv'
  <2>1. PowerLoss => pc' = [c \in Conn \union Ckpt |-> IF c \in Conn THEN "closed" ELSE "idle"]
    BY Zenon DEF PowerLoss
  <2>2. PowerLoss => \A k \in Ckpt : pc'[k] = "idle"
    BY <2>1, Disjoint, Zenon
  <2> QED  BY <2>2, Zenon DEF ApartInv
<1>6. UNCHANGED vars => ApartInv'
  BY <1>2, Zenon DEF vars
<1> QED  BY <1>3, <1>4, <1>5, <1>6, Steps, Zenon

\* What a log has committed does not need the frames after it.
LEMMA CommittedPart ==
  ASSUME NEW w \in Seq(Frames), NEW n \in Nat, CommittedLen(w) <= n, n <= Len(w)
  PROVE  /\ SubSeq(w, 1, n) \in Seq(Frames) /\ CommittedLen(SubSeq(w, 1, n)) = CommittedLen(w)
         /\ committed_pages(SubSeq(w, 1, n)) = committed_pages(w)
<1>1. SubSeq(w, 1, n) \in Seq(Frames) /\ Len(SubSeq(w, 1, n)) = n /\ \A i \in 1 .. n : SubSeq(w, 1, n)[i] = w[i]
  BY SubSeqFacts, Zenon
<1>2. PICK m \in Nat : /\ m = CommittedLen(w) /\ m <= n /\ (m > 0 => w[m].db_size > 0)
                       /\ \A i \in 1 .. Len(w) : w[i].db_size > 0 => i <= m
  BY CommittedLenFacts, Zenon
<1>3. \A i \in 1 .. m : SubSeq(w, 1, n)[i] = w[i]
  BY <1>1, <1>2
<1>4. CommittedLen(SubSeq(w, 1, n)) = m
  <2>1. m > 0 => SubSeq(w, 1, n)[m].db_size > 0
    BY <1>2, <1>3
  <2>2. \A i \in 1 .. n : i \in 1 .. Len(w)
    OBVIOUS
  <2>3. \A i \in 1 .. n : SubSeq(w, 1, n)[i].db_size > 0 => i <= m
    BY <1>1, <1>2, <2>2, Zenon
  <2> QED  BY <1>1, <1>2, <2>1, <2>3, CommittedLenIs, Zenon
<1> QED  BY <1>1, <1>2, <1>3, <1>4, SameCommitted, Zenon

LEMMA SettledBefore ==
  ASSUME LogInv, StableInv, NEW c \in Conn, Writing(c)
  PROVE  synced = CommittedLen(wal)
<1>1. ASSUME NEW d \in Conn, Settling(d)  PROVE  FALSE
  BY <1>1, OneWrites, Zenon DEF Settling, Writing, Flushing
<1> QED  BY <1>1, Zenon DEF StableInv

\* The synced part after a frame.
LEMMA SyncedPart ==
  ASSUME FileType, LogType, PagerType, LogInv, SyncInv, NEW c \in Conn, AppendFrame(c)
  PROVE  SubSeq(wal', 1, synced) = SubSeq(wal, 1, synced)
<1>1. wal \in Seq(Frames) /\ wal' \in Seq(Frames) /\ Len(wal') = Len(wal) + 1 /\ \A i \in 1 .. Len(wal) : wal'[i] = wal[i]
  BY NextFrame, Zenon DEF LogType
<1>2. Len(wal) \in Nat /\ synced \in Nat /\ synced <= Len(wal)
  BY <1>1 DEF SyncInv
<1> QED  BY <1>1, <1>2

LEMMA StableStep ==
  /\ Base /\ CommitInv /\ ApartInv /\ StableInv
  /\ Concurrent = FALSE /\ Faults \intersect {"kill", "torn"} = {} /\ [Next]_vars
  => StableInv'
<1> SUFFICES ASSUME Base, CommitInv, ApartInv, StableInv,
                    Concurrent = FALSE, "kill" \notin Faults, "torn" \notin Faults, [Next]_vars
             PROVE  StableInv'
  BY Zenon
<1>1. /\ FileType /\ LogType /\ PcType /\ PagerType /\ CkptType /\ LogInv /\ CkptInv /\ DoneInv /\ SyncInv
      /\ wal \in Seq(Frames) /\ Len(wal) \in Nat /\ synced \in Nat /\ synced <= Len(wal)
  <2>1. /\ FileType /\ LogType /\ PcType /\ PagerType /\ CkptType /\ LogInv /\ CkptInv /\ DoneInv /\ SyncInv
        /\ wal \in Seq(Frames)
    BY Zenon DEF Base, TypeOK, CommitInv, LogType
  <2> QED  BY <2>1 DEF SyncInv
<1> DEFINE Loose(p) == mainDisk[p] # {main[p]}
           Safe(w, n) == DOMAIN committed_pages(SubSeq(w, 1, n))
<1>2. /\ TrueInv /\ (\A p \in Pages : Loose(p) => p \in Safe(wal, synced))
      /\ synced = CommittedLen(wal) \/ \E c \in Conn : Settling(c)
      /\ \A i \in synced + 1 .. Len(wal) - 1 : wal[i].db_size = 0
  BY Zenon DEF StableInv
<1>3. ASSUME NEW c \in Conn, ConnAct(c)  PROVE  StableInv'
  <2>1. main' = main /\ mainDisk' = mainDisk /\ TrueInv'
    BY <1>2, <1>3, ConnMoves, Zenon DEF TrueInv
  <2>2. CASE AppendFrame(c)
    <3>1. /\ wal' \in Seq(Frames) /\ Len(wal') = Len(wal) + 1 /\ (\A i \in 1 .. Len(wal) : wal'[i] = wal[i])
          /\ pc' = pc /\ pc[c] = "append" /\ Writing(c) /\ synced' = synced
      BY <1>1, <2>2, NextFrame, Zenon DEF AppendFrame, Writing
    <3>2. synced = CommittedLen(wal)
      BY <1>1, <3>1, SettledBefore, Zenon
    <3>3. synced' = CommittedLen(wal') \/ Settling(c)'
      BY <1>1, <2>2, <3>1, <3>2, LastFrameCommits, Zenon DEF Settling
    <3>4. Safe(wal', synced') = Safe(wal, synced)
      BY <1>1, <2>2, <3>1, SyncedPart, Zenon
    <3>5. ASSUME NEW i \in synced' + 1 .. Len(wal') - 1  PROVE  wal'[i].db_size = 0
      <4>1. i \in 1 .. Len(wal) /\ ~ (i <= CommittedLen(wal))
        BY <1>1, <3>1, <3>2
      <4>2. ~ (wal[i].db_size > 0)
        BY <1>1, <4>1, CommittedLenFacts, Zenon
      <4>3. wal[i] \in Frames
        BY <1>1, <4>1
      <4>4. wal[i].db_size \in Nat
        BY <4>3, Zenon DEF Frames
      <4> QED  BY <3>1, <4>1, <4>2, <4>4
    <3> QED  BY <1>2, <2>1, <3>3, <3>4, <3>5, Zenon DEF StableInv
  <2>3. CASE SyncWal(c)
    <3>1. pc[c] = "append" /\ left[c] = {} /\ synced' = Len(wal) /\ wal' = wal
      BY <2>3, Zenon DEF SyncWal
    <3>2. CommittedLen(wal) = Len(wal)
      BY <1>1, <3>1, Zenon DEF DoneInv, Appended
    <3>3. SubSeq(wal, 1, Len(wal)) = wal
      BY <1>1
    <3>4. Safe(wal, synced) \subseteq DOMAIN committed_pages(wal)
      <4>1. SubSeq(wal, 1, synced) \in Seq(Frames) /\ LogPrefix(SubSeq(wal, 1, synced), wal)
        BY <1>1, SubSeqFacts, Zenon
      <4> QED  BY <1>1, <4>1, PrefixFacts, Zenon
    <3>5. \A i \in synced' + 1 .. Len(wal') - 1 : FALSE
      BY <1>1, <3>1
    <3> QED  BY <1>2, <2>1, <3>1, <3>2, <3>3, <3>4, <3>5, Zenon DEF StableInv
  <2>4. CASE ~ AppendFrame(c) /\ ~ SyncWal(c)
    <3>1. UNCHANGED <<wal, synced>>
      BY <1>3, <2>4, Zenon DEF ConnAct, Open, Edit, Commit, ClaimSlot, PublishMark, ReadWal, Close, Kill, Gone,
         FillCache, Mutate, Allocate, Rollback, ClaimWrite, OpenWal, PublishMx, FoldDirty, log
    <3>2. ASSUME NEW d \in Conn, Settling(d)  PROVE  Settling(d)'
      <4>1. CASE d = c
        BY <1>3, <2>4, <3>2, <4>1, Zenon DEF Settling, ConnAct, Open, Edit, Commit, ClaimSlot, PublishMark, ReadWal,
           Close, Kill, FillCache, Mutate, Allocate, Rollback, ClaimWrite, OpenWal, PublishMx, FoldDirty
      <4>2. CASE d # c
        BY <1>1, <1>3, <3>2, <4>2, Bystanders, Zenon DEF Settling
      <4> QED  BY <4>1, <4>2
    <3> QED  BY <1>2, <2>1, <3>1, <3>2, Zenon DEF StableInv
  <2> QED  BY <2>2, <2>3, <2>4, Zenon
<1>4. ASSUME NEW k \in Ckpt, CkptAct(k)  PROVE  StableInv'
  <2>1. UNCHANGED <<wal, synced>>
    BY <1>4, CkptMoves, Zenon
  <2>2. synced = CommittedLen(wal)
    <3>1. ASSUME NEW c \in Conn, Settling(c)  PROVE  FALSE
      BY <1>4, <3>1, ApartFacts, Zenon DEF Settling, Flushing
    <3> QED  BY <1>2, <3>1, Zenon
  <2>3. ASSUME TrueInv', \A p \in Pages : Loose(p)' => p \in Safe(wal, synced)  PROVE  StableInv'
    BY <1>2, <2>1, <2>2, <2>3, Zenon DEF StableInv
  <2>4. CASE Backfill(k)
    <3> DEFINE f == committed_pages(Prefix(k))
    <3>1. PICK p \in Pages :
            /\ p \in DOMAIN f /\ main' = [main EXCEPT ![p] = f[p]]
            /\ mainDisk' = [mainDisk EXCEPT ![p] = IF @ = {f[p]} THEN @ ELSE @ \union {f[p], Torn}]
      BY <1>1, <2>4, BackfillFacts, Zenon
    <3>2. p \in DOMAIN committed_pages(wal)
      BY <1>1, <2>4, <3>1, PassInLog, Zenon DEF Backfill
    <3> HIDE DEF f
    <3>3. CommittedLen(wal) <= synced
      BY <1>1, <2>2
    <3>4. p \in Safe(wal, synced)
      BY <1>1, <3>2, <3>3, CommittedPart, Zenon
    <3>5. /\ main'[p] = f[p] /\ \A q \in Pages : q # p => main'[q] = main[q] /\ mainDisk'[q] = mainDisk[q]
          /\ mainDisk'[p] = IF mainDisk[p] = {f[p]} THEN mainDisk[p] ELSE mainDisk[p] \union {f[p], Torn}
      BY <1>1, <3>1, Zenon DEF FileType
    <3>6. ASSUME NEW q \in Pages  PROVE  main'[q] \in mainDisk'[q] /\ (Loose(q)' => q \in Safe(wal, synced))
      BY <1>2, <3>4, <3>5, Zenon DEF TrueInv
    <3> QED  BY <2>3, <3>6, Zenon DEF TrueInv
  <2>5. CASE CkptSync(k)
    BY <2>3, <2>5, Zenon DEF CkptSync, TrueInv
  <2>6. CASE UNCHANGED <<main, mainDisk>>
    BY <1>2, <2>3, <2>6, Zenon DEF TrueInv
  <2>7. Backfill(k) \/ CkptSync(k) \/ UNCHANGED <<main, mainDisk>>
    BY <1>4, Zenon DEF CkptAct, CkptStep, CkptRead, ProbeSlot, Decide, PublishBackfill, KillCkpt, file
  <2> QED  BY <2>4, <2>5, <2>6, <2>7, Zenon
<1>5. ASSUME PowerLoss  PROVE  StableInv'
  <2>1. wal' \in Seq(Frames) /\ synced' = Len(wal') /\ CommittedLen(wal') = Len(wal')
    BY <1>1, <1>5, PowerLog, Zenon
  <2>2. \A p \in Pages : mainDisk'[p] = {main'[p]}
    BY <1>5, Zenon DEF PowerLoss
  <2>3. \A i \in synced' + 1 .. Len(wal') - 1 : FALSE
    BY <2>1
  <2> QED  BY <2>1, <2>2, <2>3, Zenon DEF StableInv, TrueInv
<1>6. UNCHANGED vars => StableInv'
  BY <1>2, Zenon DEF vars, file, log, pager, StableInv, TrueInv, Settling
<1> QED  BY <1>3, <1>4, <1>5, <1>6, Steps, Zenon

\* What a power loss may do to the file nobody can see.
LEMMA SameImage ==
  ASSUME FileType, LogType, SyncInv, StableInv, NEW m \in MainOutcomes, NEW n \in Nat, synced <= n, n <= Len(wal)
  PROVE  ImageOf(m, SubSeq(wal, 1, n)) = ImageOf(main, SubSeq(wal, 1, n))
<1>1. m \in [Pages -> Nat] /\ \A p \in Pages : m[p] = main[p] \/ m[p] \in mainDisk[p]
  BY OutcomeFacts, Zenon
<1>2. wal \in Seq(Frames) /\ Len(wal) \in Nat /\ synced \in Nat /\ synced <= Len(wal)
  BY DEF LogType, SyncInv
<1> DEFINE v == SubSeq(wal, 1, synced)
           w == SubSeq(wal, 1, n)
<1>3. v \in Seq(Frames) /\ Len(v) = synced /\ \A i \in 1 .. synced : v[i] = wal[i]
  BY <1>2, SubSeqFacts, Zenon
<1>4. w \in Seq(Frames) /\ Len(w) = n /\ \A i \in 1 .. n : w[i] = wal[i]
  BY <1>2, SubSeqFacts, Zenon
<1> HIDE DEF v, w
<1>5. LogPrefix(v, w)
  BY <1>2, <1>3, <1>4 DEF LogPrefix
<1>6. DOMAIN committed_pages(v) \subseteq DOMAIN committed_pages(w)
  BY <1>3, <1>4, <1>5, PrefixFacts, Zenon
<1>7. DOMAIN m = DOMAIN main /\ \A p \in DOMAIN m \ DOMAIN committed_pages(w) : m[p] = main[p]
  BY <1>1, <1>6, Zenon DEF FileType, StableInv, v
<1>8. Overlay(m, committed_pages(w)) = Overlay(main, committed_pages(w))
  BY <1>7, OverlayAgree, Zenon
<1> QED  BY <1>8, Zenon DEF ImageOf, w

LEMMA OutcomesAre ==
  ASSUME FileType, LogType, SyncInv, StableInv
  PROVE  Outcomes = {ImageOf(main, SubSeq(wal, 1, n)) : n \in Kept}
<1>1. \A n \in Kept : n \in Nat /\ synced <= n /\ n <= Len(wal)
  BY DEF Kept, LogType, SyncInv
<1>2. \A m \in MainOutcomes, n \in Kept : ImageOf(m, SubSeq(wal, 1, n)) = ImageOf(main, SubSeq(wal, 1, n))
  BY <1>1, SameImage, Zenon
<1>3. \E m : m \in MainOutcomes
  <2> DEFINE loose == {p \in Pages : mainDisk[p] # {main[p]}}
             f == [p \in loose |-> main[p]]
  <2>1. \A p \in loose : main[p] \in mainDisk[p]
    BY Zenon DEF StableInv, TrueInv
  <2>2. f \in [loose -> UNION {mainDisk[p] : p \in loose}] /\ \A p \in loose : f[p] \in mainDisk[p]
    BY <2>1, Zenon
  <2> QED  BY <2>2, Zenon DEF MainOutcomes
<1>4. Outcomes \subseteq {ImageOf(main, SubSeq(wal, 1, n)) : n \in Kept}
  BY <1>2 DEF Outcomes
<1>5. \A n \in Kept : ImageOf(main, SubSeq(wal, 1, n)) \in Outcomes
  BY <1>2, <1>3 DEF Outcomes
<1> QED  BY <1>4, <1>5

\* After an fsync of the log a power loss leaves the committed image.
LEMMA SettledOutcomes ==
  /\ FileType /\ LogType /\ SyncInv /\ StableInv
  /\ "torn" \notin Faults /\ synced = CommittedLen(wal)
  => Outcomes = {Db}
<1> SUFFICES ASSUME FileType, LogType, SyncInv, StableInv, "torn" \notin Faults, synced = CommittedLen(wal)
             PROVE  Outcomes = {Db}
  OBVIOUS
<1>1. wal \in Seq(Frames) /\ Len(wal) \in Nat /\ synced \in Nat /\ synced <= Len(wal)
  BY DEF LogType, SyncInv
<1>2. ASSUME NEW n \in Kept  PROVE  n = synced
  <2>1. n \in Nat /\ synced <= n /\ n <= Len(wal) /\ n \in {synced, CommittedLen(SubSeq(wal, 1, n))}
    BY <1>1 DEF Kept
  <2>2. SubSeq(wal, 1, n) \in Seq(Frames) /\ LogPrefix(SubSeq(wal, 1, n), wal)
    BY <1>1, <2>1, SubSeqFacts, Zenon
  <2>3. CommittedLen(SubSeq(wal, 1, n)) <= CommittedLen(wal)
    BY <1>1, <2>2, PrefixFacts, Zenon
  <2> QED  BY <1>1, <2>1, <2>3
<1>3. synced \in Kept
  BY <1>1 DEF Kept
<1>4. CommittedLen(wal) <= synced
  BY <1>1
<1>5. committed_pages(SubSeq(wal, 1, synced)) = committed_pages(wal)
  BY <1>1, <1>4, CommittedPart, Zenon
<1>6. ImageOf(main, SubSeq(wal, 1, synced)) = Db
  BY <1>5, Zenon DEF ImageOf, Db
<1>7. Outcomes = {ImageOf(main, SubSeq(wal, 1, n)) : n \in Kept}
  BY OutcomesAre, Zenon
<1> QED  BY <1>2, <1>3, <1>6, <1>7, Zenon

\* Before it, the image before the commit, too.
LEMMA PendingOutcomes ==
  /\ FileType /\ LogType /\ SyncInv /\ StableInv
  /\ "torn" \notin Faults /\ CommittedLen(wal) = Len(wal)
  => Outcomes = {ImageOf(main, SubSeq(wal, 1, synced)), Db}
<1> SUFFICES ASSUME FileType, LogType, SyncInv, StableInv, "torn" \notin Faults, CommittedLen(wal) = Len(wal)
             PROVE  Outcomes = {ImageOf(main, SubSeq(wal, 1, synced)), Db}
  OBVIOUS
<1>1. wal \in Seq(Frames) /\ Len(wal) \in Nat /\ synced \in Nat /\ synced <= Len(wal) /\ SubSeq(wal, 1, Len(wal)) = wal
  BY DEF LogType, SyncInv
<1>2. ASSUME NEW n \in Kept  PROVE  n = synced \/ n = Len(wal)
  <2>1. n \in Nat /\ synced <= n /\ n <= Len(wal) /\ n \in {synced, CommittedLen(SubSeq(wal, 1, n))}
    BY <1>1 DEF Kept
  <2> SUFFICES ASSUME n # synced, n # Len(wal)  PROVE  FALSE
    OBVIOUS
  <2>2. SubSeq(wal, 1, n) \in Seq(Frames) /\ \A i \in 1 .. n : SubSeq(wal, 1, n)[i] = wal[i]
    BY <1>1, <2>1, SubSeqFacts, Zenon
  <2>3. n > 0 /\ n = CommittedLen(SubSeq(wal, 1, n)) /\ n \in 1 .. n /\ n \in synced + 1 .. Len(wal) - 1
    BY <1>1, <2>1
  <2>4. SubSeq(wal, 1, n)[n].db_size > 0
    BY <2>2, <2>3, CommittedLenFacts, Zenon
  <2>5. wal[n].db_size > 0 /\ wal[n].db_size = 0
    BY <2>2, <2>3, <2>4, Zenon DEF StableInv
  <2> QED  BY <2>5
<1>3. synced \in Kept /\ Len(wal) \in Kept
  <2>1. synced \in synced .. Len(wal) /\ Len(wal) \in synced .. Len(wal)
    BY <1>1
  <2>2. Len(wal) = CommittedLen(SubSeq(wal, 1, Len(wal)))
    BY <1>1, Zenon
  <2> QED  BY <2>1, <2>2, Zenon DEF Kept
<1>4. ImageOf(main, SubSeq(wal, 1, Len(wal))) = Db
  BY <1>1, Zenon DEF Db
<1>5. Outcomes = {ImageOf(main, SubSeq(wal, 1, n)) : n \in Kept}
  BY OutcomesAre, Zenon
<1> QED  BY <1>2, <1>3, <1>4, <1>5, Zenon

\* The commit frame makes the writes of its transaction the database.
LEMMA CommitImage ==
  ASSUME FileType, LogType, PagerType, LogInv, WriterInv, NEW c \in Conn, AppendFrame(c), TailOf(c), left'[c] = {}
  PROVE  Db' = Store!Overlay(Db, dirty[c])
<1>1. CachedInv /\ CurrentInv /\ BareInv /\ c \in Writers /\ Live(c) /\ ~ Appended(c)
  BY WriterFlushes, Zenon DEF WriterInv
<1>2. PICK s \in Nat, n \in Nat : s = DbSize' /\ s = Sized(dirty[c], n) /\ n = DbSize
  <2>1. DbSize \in Nat /\ (1 \in DOMAIN dirty[c] => dirty[c][1] \in Nat)
    BY DbSizeFacts, PageOne, WritesFacts, Zenon DEF PagerType, IsWrites, IsValue
  <2>2. DbSize' = Sized(dirty[c], DbSize)
    BY <1>1, LastSize, Zenon
  <2> QED  BY <2>1, <2>2, Zenon DEF Sized
<1>3. IsShape(dirty[c], n)
  BY <1>1, <1>2, Zenon DEF WriterInv, ShapeInv
<1>4. committed_pages(wal') = Overlay(committed_pages(wal), dirty[c]) /\ main' = main /\ DOMAIN main = Pages
  BY CommitPages, Zenon DEF AppendFrame, file, FileType
<1> DEFINE f == Overlay(main, committed_pages(wal))
           g == Overlay(main, Overlay(committed_pages(wal), dirty[c]))
<1>5. \A p \in Pages : g[p] = IF p \in DOMAIN dirty[c] THEN dirty[c][p] ELSE f[p]
  BY <1>4, Zenon DEF Overlay
<1>6. f[1] = n /\ g[1] = s
  BY <1>2, <1>4, Zenon DEF DbSize
<1>7. /\ Db = [p \in Pages |-> IF p <= f[1] THEN f[p] ELSE Absent]
      /\ Db' = [p \in Pages |-> IF p <= g[1] THEN g[p] ELSE Absent]
  BY <1>4, Zenon DEF Db, ImageOf
<1> HIDE DEF f, g
<1>8. ASSUME NEW p \in Pages  PROVE  Db'[p] = IF p \in DOMAIN dirty[c] THEN dirty[c][p] ELSE Db[p]
  <2>1. /\ Db[p] = IF p <= n THEN f[p] ELSE Absent
        /\ Db'[p] = IF p <= s THEN g[p] ELSE Absent
    BY <1>6, <1>7, Zenon
  <2>2. CASE p \in DOMAIN dirty[c]
    BY <1>2, <1>3, <1>5, <2>1, <2>2, Zenon DEF IsShape
  <2>3. CASE p \notin DOMAIN dirty[c]
    <3>1. p <= s <=> p <= n
      <4>1. p \in Nat
        BY PageOne
      <4> QED  BY <1>2, <1>3, <2>3, <4>1 DEF IsShape, Sized
    <3> QED  BY <1>5, <2>1, <2>3, <3>1, Zenon
  <2> QED  BY <2>2, <2>3, Zenon
<1>9. Db' = [p \in Pages |-> IF p \in DOMAIN dirty[c] THEN dirty[c][p] ELSE Db[p]]
  BY <1>7, <1>8
<1> QED  BY <1>9, Zenon DEF Store!Overlay

AtomicInv == Base /\ CommitInv /\ WriterInv /\ ApartInv /\ StableInv

\* What is seen and what is durable depend on the files only.
LEMMA SameStore ==
  UNCHANGED <<main, mainDisk, wal, synced>> => Db' = Db /\ Outcomes' = Outcomes
<1>1. UNCHANGED <<main, mainDisk, wal, synced>> => MainOutcomes' = MainOutcomes /\ Kept' = Kept
  BY DEF MainOutcomes, Kept
<1> QED  BY <1>1 DEF Db, Outcomes

\* A flush, and whatever else a connection does.
LEMMA StoreConn ==
  ASSUME AtomicInv, AtomicInv', "torn" \notin Faults, NEW c \in Conn, ConnAct(c)
  PROVE  Store!Work(c) \/ Store!Commit(c)
<1>1. /\ FileType /\ LogType /\ PcType /\ PagerType /\ CkptType /\ LogInv /\ CkptInv /\ TailInv /\ SyncInv
      /\ StableInv /\ WriterInv /\ BareInv
      /\ FileType' /\ LogType' /\ SyncInv' /\ StableInv' /\ DoneInv /\ DoneInv'
  BY Zenon DEF AtomicInv, Base, TypeOK, CommitInv, WriterInv
<1>2. \A d \in Conn \ {c} : Pending'[d] = Pending[d]
  BY <1>1, Bystanders, Zenon DEF Pending
<1>3. CASE AppendFrame(c)
  <2>1. /\ Writing(c) /\ TailOf(c) /\ ~ Appended(c) /\ pc' = pc /\ pc[c] = "append"
        /\ UNCHANGED <<main, mainDisk, synced, dirty>>
    BY <1>1, <1>3, WriterFlushes, Zenon DEF AppendFrame, TailInv, file
  <2>2. synced = CommittedLen(wal) /\ Outcomes = {Db}
    BY <1>1, <2>1, SettledBefore, SettledOutcomes, Zenon
  <2>3. CASE left'[c] # {}
    <3>1. CommittedLen(wal') = CommittedLen(wal) /\ committed_pages(wal') = committed_pages(wal)
      BY <1>1, <1>3, <2>1, <2>3, LastFrameCommits, CommitPages, Zenon
    <3>2. Db' = Db
      BY <2>1, <3>1, Zenon DEF Db, ImageOf
    <3>3. (/\ FileType /\ LogType /\ SyncInv /\ StableInv
           /\ "torn" \notin Faults /\ synced = CommittedLen(wal)
           => Outcomes = {Db})'
      BY SettledOutcomes, PTL
    <3>4. Outcomes' = {Db'}
      BY <1>1, <2>1, <2>2, <3>1, <3>3, Zenon
    <3> QED  BY <1>2, <2>2, <3>2, <3>4, Zenon DEF Store!Work
  <2>4. CASE left'[c] = {}
    <3>1. Db' = Store!Overlay(Db, dirty[c])
      BY <1>1, <1>3, <2>1, <2>4, CommitImage, Zenon
    <3>2. ImageOf(main, SubSeq(wal, 1, synced)) = Db
      <4>1. wal \in Seq(Frames) /\ synced \in Nat /\ synced <= Len(wal) /\ CommittedLen(wal) <= synced
        BY <1>1, <2>2 DEF LogType, SyncInv
      <4>2. committed_pages(SubSeq(wal, 1, synced)) = committed_pages(wal)
        BY <4>1, CommittedPart, Zenon
      <4> QED  BY <4>2, Zenon DEF ImageOf, Db
    <3>3. SubSeq(wal', 1, synced) = SubSeq(wal, 1, synced)
      BY <1>1, <1>3, SyncedPart, Zenon
    <3>4. CommittedLen(wal') = Len(wal')
      BY <1>1, <1>3, <2>4, LastFrameCommits, Zenon
    <3>5. (/\ FileType /\ LogType /\ SyncInv /\ StableInv
           /\ "torn" \notin Faults /\ CommittedLen(wal) = Len(wal)
           => Outcomes = {ImageOf(main, SubSeq(wal, 1, synced)), Db})'
      BY PendingOutcomes, PTL
    <3>6. Outcomes' = {ImageOf(main', SubSeq(wal', 1, synced')), Db'}
      BY <1>1, <3>4, <3>5, Zenon
    <3>7. Outcomes' = {Db, Db'}
      BY <2>1, <3>2, <3>3, <3>6, Zenon
    <3>8. Pending[c] = dirty[c] /\ DOMAIN dirty[c] # {}
      BY <1>1, <2>1, Zenon DEF Pending, Appended, LogInv, Flushing
    <3>9. Pending[c] # Store!NoWrites
      BY <3>8, WritesFacts, Zenon DEF NoWrites, Store!NoWrites
    <3>10. Pending' = [Pending EXCEPT ![c] = Store!NoWrites]
      <4>1. Pending'[c] = Store!NoWrites
        BY <2>1, <2>4, Zenon DEF Pending, NoWrites, Store!NoWrites
      <4>2. Pending' = [d \in Conn |-> Pending'[d]] /\ DOMAIN Pending = Conn
        BY Zenon DEF Pending
      <4> QED  BY <1>2, <4>1, <4>2
    <3> QED  BY <3>1, <3>7, <3>8, <3>9, <3>10, Zenon DEF Store!Commit
  <2> QED  BY <2>3, <2>4, Zenon
<1>4. CASE SyncWal(c)
  <2>1. UNCHANGED <<main, wal>> /\ synced' = Len(wal) /\ Settling(c)
    BY <1>4, Zenon DEF SyncWal, file, Settling
  <2>2. CommittedLen(wal) = Len(wal)
    BY <1>1, <2>1, Zenon DEF DoneInv, Appended, Settling
  <2>3. (/\ FileType /\ LogType /\ SyncInv /\ StableInv
         /\ "torn" \notin Faults /\ synced = CommittedLen(wal)
         => Outcomes = {Db})'
    BY SettledOutcomes, PTL
  <2>4. Outcomes' = {Db'}
    BY <1>1, <2>1, <2>2, <2>3, Zenon
  <2>5. Db' = Db
    BY <2>1, Zenon DEF Db
  <2> QED  BY <1>2, <2>4, <2>5, Zenon DEF Store!Work
<1>5. CASE ~ AppendFrame(c) /\ ~ SyncWal(c)
  <2>1. UNCHANGED <<main, mainDisk, wal, synced>>
    <3>1. UNCHANGED <<main, mainDisk>>
      BY ConnMoves, Zenon
    <3>2. UNCHANGED <<wal, synced>>
      BY <1>5, Zenon DEF ConnAct, Open, Edit, Commit, ClaimSlot, PublishMark, ReadWal, Close, Kill, Gone,
         FillCache, Mutate, Allocate, Rollback, ClaimWrite, OpenWal, PublishMx, FoldDirty, log
    <3> QED  BY <3>1, <3>2, Zenon
  <2>2. Db' = Db /\ Outcomes' = Outcomes
    BY <2>1, SameStore, Zenon
  <2> QED  BY <1>2, <2>2, Zenon DEF Store!Work
<1> QED  BY <1>3, <1>4, <1>5, Zenon

\* A checkpoint changes nothing that is seen or durable.
LEMMA StoreCkpt ==
  ASSUME AtomicInv, AtomicInv', Concurrent = FALSE, "torn" \notin Faults, [Next]_vars, ~ PowerLoss,
         NEW k \in Ckpt, CkptAct(k)
  PROVE  UNCHANGED Store!vars
<1>1. /\ FileType /\ LogType /\ PcType /\ CkptType /\ CkptInv /\ SyncInv /\ ApartInv /\ StableInv
      /\ FileType' /\ LogType' /\ SyncInv' /\ StableInv'
  BY Zenon DEF AtomicInv, Base, TypeOK, CommitInv
<1>2. UNCHANGED <<wal, synced, dirty, left>> /\ \A c \in Conn : pc'[c] = pc[c]
  BY <1>1, CkptMoves, Disjoint, Zenon DEF PcType
<1>3. synced = CommittedLen(wal)
  BY <1>1, ApartFacts, Zenon DEF StableInv, Settling, Flushing
<1>4. Overlay(main', committed_pages(wal')) = Overlay(main, committed_pages(wal))
  BY <1>1, <1>2, SameOverlay, Zenon
<1>5. Db' = Db
  BY <1>4, Zenon DEF Db, ImageOf
<1>6. (/\ FileType /\ LogType /\ SyncInv /\ StableInv
       /\ "torn" \notin Faults /\ synced = CommittedLen(wal)
       => Outcomes = {Db})'
  BY SettledOutcomes, PTL
<1>7. Outcomes = {Db} /\ Outcomes' = {Db'}
  BY <1>1, <1>2, <1>3, <1>6, SettledOutcomes, Zenon
<1>8. Pending' = Pending
  BY <1>2 DEF Pending
<1> QED  BY <1>5, <1>7, <1>8, Zenon DEF Store!vars

\* A power loss leaves an image that was durable, and no transaction.
LEMMA StorePower ==
  ASSUME AtomicInv, AtomicInv', "torn" \notin Faults, PowerLoss
  PROVE  Store!PowerLoss
<1>1. /\ LogType /\ SyncInv /\ FileType' /\ LogType' /\ SyncInv' /\ StableInv'
  BY Zenon DEF AtomicInv, Base, TypeOK, CommitInv
<1>2. PICK n \in Kept : main' \in MainOutcomes /\ wal' = SubSeq(wal, 1, n)
  BY Zenon DEF PowerLoss
<1>3. Db' \in Outcomes
  <2>1. Db' = ImageOf(main', SubSeq(wal, 1, n))
    BY <1>2, Zenon DEF Db
  <2> QED  BY <1>2, <2>1 DEF Outcomes
<1>4. (/\ FileType /\ LogType /\ SyncInv /\ StableInv
       /\ "torn" \notin Faults /\ synced = CommittedLen(wal)
       => Outcomes = {Db})'
  BY SettledOutcomes, PTL
<1>5. Outcomes' = {Db'}
  BY <1>1, <1>4, PowerLog, Zenon
<1>6. Pending' = [c \in Conn |-> Store!NoWrites]
  <2>1. \A c \in Conn : dirty'[c] = NoWrites
    BY Zenon DEF PowerLoss
  <2> QED  BY <2>1, Zenon DEF Pending, NoWrites, Store!NoWrites
<1> QED  BY <1>3, <1>5, <1>6, Zenon DEF Store!PowerLoss

LEMMA StoreInit == Init => AtomicInv /\ Store!Init
<1> SUFFICES ASSUME Init  PROVE  AtomicInv /\ Store!Init
  OBVIOUS
<1>1. /\ Base /\ CommitInv /\ WriterInv /\ FileType /\ LogType /\ SyncInv
      /\ mainDisk = [p \in Pages |-> {main[p]}] /\ synced = InitFrames /\ InitFrames \in {0, 1}
      /\ wal = [i \in 1 .. InitFrames |-> Frame(1, 2, 2, 0)]
  BY CommitInvInit, WriterInvInit, WalAssumption, Zenon DEF Init, Base, TypeOK, CommitInv
<1>2. \A k \in Ckpt : pc[k] = "idle"
  BY Disjoint, Zenon DEF Init
<1>3. wal \in Seq(Frames) /\ Len(wal) = synced /\ \A i \in 1 .. Len(wal) : wal[i].db_size = 2
  <2>1. wal \in Seq(Frames) /\ Len(wal) = synced
    BY <1>1 DEF LogType
  <2> QED  BY <1>1, <2>1, Zenon DEF Frame
<1>4. synced = CommittedLen(wal)
  <2>1. synced \in Nat /\ synced <= Len(wal) /\ (synced > 0 => wal[synced].db_size > 0)
    BY <1>1, <1>3
  <2>2. \A i \in 1 .. Len(wal) : wal[i].db_size > 0 => i <= synced
    BY <1>1, <1>3
  <2> QED  BY <1>3, <2>1, <2>2, CommittedLenIs
<1>5. \A i \in synced + 1 .. Len(wal) - 1 : wal[i].db_size = 0
  BY <1>1, <1>3
<1>6. StableInv
  BY <1>1, <1>4, <1>5 DEF StableInv, TrueInv
<1>7. Outcomes = {Db}
  <2>1. Kept = {synced}
    BY <1>1, <1>3 DEF Kept
  <2>2. Outcomes = {ImageOf(main, SubSeq(wal, 1, synced))}
    BY <1>1, <1>6, <2>1, OutcomesAre
  <2>3. SubSeq(wal, 1, synced) = wal
    BY <1>3
  <2> QED  BY <2>2, <2>3, Zenon DEF Db
<1>8. Pending = [c \in Conn |-> Store!NoWrites]
  <2>1. \A c \in Conn : dirty[c] = NoWrites
    BY Zenon DEF Init
  <2> QED  BY <2>1, Zenon DEF Pending, NoWrites, Store!NoWrites
<1> QED  BY <1>1, <1>2, <1>6, <1>7, <1>8, Zenon DEF AtomicInv, ApartInv, Store!Init

\* CommitsAreAtomic, for one writer, any number of readers and checkpoints
\* that do not run inside a flush, and power losses anywhere, inside a
\* checkpoint too: the commit frame is the commit, a checkpoint is invisible,
\* and a power loss leaves the image of the last commit or, until the sync of
\* the log returns, the one before it.
THEOREM WalIsAtomic ==
  /\ Synchronous = "Full" /\ OneWriter /\ Concurrent = FALSE /\ Faults \intersect {"kill", "torn"} = {}
  => (Spec => CommitsAreAtomic)
<1> SUFFICES ASSUME Synchronous = "Full", OneWriter, Concurrent = FALSE, Faults \intersect {"kill", "torn"} = {}
             PROVE  Spec => CommitsAreAtomic
  OBVIOUS
<1>1. "torn" \notin Faults
  BY Zenon
<1>2. AtomicInv /\ [Next]_vars => AtomicInv'
  BY <1>1, CommitInvStep, WriterInvStep, ApartStep, StableStep, Zenon DEF AtomicInv, CommitInv
<1>3. AtomicInv /\ AtomicInv' /\ [Next]_vars => [Store!Next]_(Store!vars)
  <2> SUFFICES ASSUME AtomicInv, AtomicInv', [Next]_vars  PROVE  Store!Next \/ UNCHANGED Store!vars
    BY Zenon
  <2>1. ASSUME NEW c \in Conn, ConnAct(c)  PROVE  Store!Next
    BY <1>1, <2>1, StoreConn, Zenon DEF Store!Next
  <2>2. PowerLoss => Store!Next
    BY <1>1, StorePower, Zenon DEF Store!Next
  <2>3. ASSUME ~ PowerLoss, NEW k \in Ckpt, CkptAct(k)  PROVE  UNCHANGED Store!vars
    BY <1>1, <2>3, StoreCkpt, Zenon
  <2>4. UNCHANGED vars => UNCHANGED Store!vars
    <3>1. UNCHANGED vars => UNCHANGED <<main, mainDisk, wal, synced>> /\ UNCHANGED <<pc, left, dirty>>
      BY Zenon DEF vars, file, log, pager
    <3>2. UNCHANGED <<pc, left, dirty>> => Pending' = Pending
      BY DEF Pending
    <3> QED  BY <3>1, <3>2, SameStore, Zenon DEF Store!vars
  <2> QED  BY <2>1, <2>2, <2>3, <2>4, Steps, Zenon
<1> QED  BY <1>2, <1>3, StoreInit, PTL DEF Spec, CommitsAreAtomic, Store!Spec

=============================================================================
