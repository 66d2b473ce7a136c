-------------------------- MODULE WalCommitProofs ---------------------------
(***************************************************************************)
(* The commits of the write-ahead log, for any number of connections,      *)
(* checkpoints, slots, pages and frames: a commit is found whole in the    *)
(* log, and what the writer reads and commits when there is only one.      *)
(***************************************************************************)
EXTENDS WalProofs

-----------------------------------------------------------------------------
(* Commits, with power losses that drop whole transactions and processes   *)
(* killed outside the one write of the frames.                             *)

\* The frames after the last commit are those that a flush has written of its
\* transaction.
Writing(c) == pc[c] = "append" /\ left[c] # {}
IsTail(w, writes, rest) ==
  /\ \A i \in CommittedLen(w) + 1 .. Len(w) :
       /\ w[i].page \in DOMAIN writes \ rest /\ w[i].data = writes[w[i].page]
       /\ w[i].tx = w[Len(w)].tx
  /\ \A p \in DOMAIN writes \ rest : \E i \in CommittedLen(w) + 1 .. Len(w) : w[i].page = p
TailOf(c) == IsTail(wal, dirty[c], left[c])
TailInv ==
  /\ \A c \in Conn : Writing(c) => TailOf(c)
  /\ CommittedLen(wal) = Len(wal) \/ \E c \in Conn : Writing(c)

\* What has been written is found, and the fsyncs are at the ends of commits.
IsFound(w, writes) == \A p \in DOMAIN writes : p \in DOMAIN committed_pages(w) /\ committed_pages(w)[p] = writes[p]
Found(c) == IsFound(wal, dirty[c])
FoundInv ==
  \A c \in Conn : /\ Appended(c) => Found(c)
                  /\ pc[c] = "fold" => mxFrame = CommittedLen(wal)
SyncInv == synced \in 0 .. Len(wal) /\ (synced > 0 => wal[synced].db_size > 0)

CommitInv == DoneInv /\ TailInv /\ FoundInv /\ SyncInv /\ NoOrphanCommitted

\* One connection writes at a time.
LEMMA OneWrites ==
  ASSUME LogInv, NEW c \in Conn, pc[c] \in Flushing, NEW d \in Conn, pc[d] \in Flushing
  PROVE  c = d
BY Zenon DEF LogInv

LEMMA WritingFlushes == \A c : Writing(c) => pc[c] \in Flushing
BY Zenon DEF Writing, Flushing

\* With nobody in the middle of a write, the whole log is committed.
LEMMA AtRest ==
  ASSUME LogInv, TailInv, NEW c \in Conn, pc[c] \in Flushing, ~ Writing(c)
  PROVE  CommittedLen(wal) = Len(wal)
BY OneWrites, WritingFlushes, Zenon DEF TailInv

\* The frame that a flush appends, and the log after it.
LEMMA NextFrame ==
  ASSUME FileType, LogType, PagerType, LogInv, NEW c \in Conn, AppendFrame(c)
  PROVE  \E p \in left[c] :
           /\ p \in DOMAIN dirty[c] /\ left'[c] = left[c] \ {p} /\ dirty' = dirty /\ pc' = pc
           /\ wal' \in Seq(Frames) /\ Len(wal') = Len(wal) + 1 /\ \A i \in 1 .. Len(wal) : wal'[i] = wal[i]
           /\ wal'[Len(wal) + 1].page = p /\ wal'[Len(wal) + 1].data = dirty[c][p]
           /\ wal'[Len(wal) + 1].tx = Tx(c) /\ wal'[Len(wal) + 1].db_size = CommitSize(c, p)
<1>1. PICK p \in left[c] :
        /\ Frame(p, dirty[c][p], CommitSize(c, p), Tx(c)) \in Frames
        /\ wal' = Append(SubSeq(wal, 1, Len(wal)), Frame(p, dirty[c][p], CommitSize(c, p), Tx(c)))
        /\ left' = [left EXCEPT ![c] = @ \ {p}]
  BY AppendedFrame, Zenon
<1>2. PICK f \in Frames : /\ f = Frame(p, dirty[c][p], CommitSize(c, p), Tx(c))
                          /\ f.page = p /\ f.data = dirty[c][p] /\ f.db_size = CommitSize(c, p) /\ f.tx = Tx(c)
  BY <1>1, Zenon DEF Frame
<1>3. /\ wal' \in Seq(Frames) /\ Len(wal') = Len(wal) + 1 /\ wal'[Len(wal) + 1] = f
      /\ \A i \in 1 .. Len(wal) : wal'[i] = wal[i]
  <2>1. wal \in Seq(Frames) /\ wal' = Append(SubSeq(wal, 1, Len(wal)), f)
    BY <1>1, <1>2, Zenon DEF LogType
  <2> QED  BY <2>1, AppendFacts, SMT
<1>4. left'[c] = left[c] \ {p} /\ dirty' = dirty /\ pc' = pc /\ p \in DOMAIN dirty[c]
  BY <1>1, Zenon DEF PagerType, AppendFrame, LogInv
<1> QED  BY <1>2, <1>3, <1>4, Zenon

\* The tail of the log after one more frame.
LEMMA TailGrows ==
  ASSUME FileType, LogType, PagerType, LogInv, NEW c \in Conn, AppendFrame(c), TailOf(c),
         NEW n \in Nat, n = CommittedLen(wal), n <= Len(wal)
  PROVE  /\ \A i \in n + 1 .. Len(wal') :
              /\ wal'[i].page \in DOMAIN dirty[c] \ left'[c] /\ wal'[i].data = dirty[c][wal'[i].page]
              /\ wal'[i].tx = wal'[Len(wal')].tx
         /\ \A p \in DOMAIN dirty[c] \ left'[c] : \E i \in n + 1 .. Len(wal') : wal'[i].page = p
<1>1. PICK p \in left[c] :
           /\ p \in DOMAIN dirty[c] /\ left'[c] = left[c] \ {p}
           /\ Len(wal') = Len(wal) + 1 /\ \A i \in 1 .. Len(wal) : wal'[i] = wal[i]
           /\ wal'[Len(wal) + 1].page = p /\ wal'[Len(wal) + 1].data = dirty[c][p]
           /\ wal'[Len(wal) + 1].tx = Tx(c)
  BY NextFrame, Zenon
<1>2. PICK m \in Nat : m = Len(wal) /\ n <= m /\ Len(wal') = m + 1
  BY <1>1 DEF LogType
<1>3. /\ \A i \in n + 1 .. m : /\ wal[i].page \in DOMAIN dirty[c] \ left[c] /\ wal[i].data = dirty[c][wal[i].page]
                               /\ wal[i].tx = wal[m].tx
      /\ \A q \in DOMAIN dirty[c] \ left[c] : \E i \in n + 1 .. m : wal[i].page = q
  BY <1>2, Zenon DEF TailOf, IsTail
<1>4. \A i \in n + 1 .. m + 1 : (i \in n + 1 .. m /\ i \in 1 .. m) \/ i = m + 1
  BY <1>2
<1>5. \A i \in n + 1 .. m : wal[m].tx = Tx(c)
  <2>1. ASSUME NEW i \in n + 1 .. m  PROVE  left[c] # DOMAIN dirty[c] /\ wal # << >>
    <3>1. wal[i].page \in DOMAIN dirty[c] \ left[c] /\ m # 0
      BY <1>2, <1>3
    <3> QED  BY <1>2, <3>1
  <2> QED  BY <1>2, <2>1 DEF Tx
<1>6. ASSUME NEW i \in n + 1 .. m + 1
      PROVE  /\ wal'[i].page \in DOMAIN dirty[c] \ left'[c] /\ wal'[i].data = dirty[c][wal'[i].page]
             /\ wal'[i].tx = wal'[m + 1].tx
  <2>1. CASE i = m + 1
    BY <1>1, <1>2, <2>1, Zenon
  <2>2. CASE i \in n + 1 .. m /\ i \in 1 .. m
    <3>1. wal'[i] = wal[i] /\ wal'[m + 1].tx = Tx(c)
      BY <1>1, <1>2, <2>2, Zenon
    <3>2. /\ wal[i].page \in DOMAIN dirty[c] \ left[c] /\ wal[i].data = dirty[c][wal[i].page]
          /\ wal[i].tx = Tx(c)
      BY <1>3, <1>5, <2>2, Zenon
    <3> QED  BY <1>1, <3>1, <3>2, Zenon
  <2> QED  BY <1>4, <2>1, <2>2, Zenon
<1>7. ASSUME NEW q \in DOMAIN dirty[c] \ left'[c]  PROVE  \E i \in n + 1 .. m + 1 : wal'[i].page = q
  <2>1. CASE q = p
    <3>1. m + 1 \in n + 1 .. m + 1
      BY <1>2
    <3> QED  BY <1>1, <1>2, <2>1, <3>1, Zenon
  <2>2. CASE q # p
    <3>1. PICK i \in n + 1 .. m : wal[i].page = q
      BY <1>1, <1>3, <2>2, Zenon
    <3>2. i \in n + 1 .. m + 1 /\ i \in 1 .. m
      BY <1>2
    <3> QED  BY <1>1, <1>2, <3>1, <3>2, Zenon
  <2> QED  BY <2>1, <2>2, Zenon
<1> QED  BY <1>2, <1>6, <1>7, Zenon

\* After its last frame the log holds every page of the transaction.
LEMMA LastFrameFound ==
  ASSUME FileType, LogType, PagerType, LogInv, NEW c \in Conn, AppendFrame(c), TailOf(c), left'[c] = {}
  PROVE  Found(c)'
<1>1. PICK n \in Nat : n = CommittedLen(wal) /\ n <= Len(wal)
  BY CommittedLenFacts, Zenon DEF LogType
<1>2. PICK m \in Nat : m = Len(wal') /\ n <= m /\ CommittedLen(wal') = m
  BY <1>1, LastFrameCommits
<1>3. wal' \in Seq(Frames) /\ dirty' = dirty
  BY NextFrame, Zenon
<1>4. /\ \A i \in n + 1 .. m : wal'[i].data = dirty[c][wal'[i].page]
      /\ \A p \in DOMAIN dirty[c] : \E i \in n + 1 .. m : wal'[i].page = p
  <2>1. n = CommittedLen(wal) /\ n <= Len(wal)
    BY <1>1, Zenon
  <2>2. /\ \A i \in n + 1 .. Len(wal') :
             /\ wal'[i].page \in DOMAIN dirty[c] \ left'[c] /\ wal'[i].data = dirty[c][wal'[i].page]
             /\ wal'[i].tx = wal'[Len(wal')].tx
        /\ \A p \in DOMAIN dirty[c] \ left'[c] : \E i \in n + 1 .. Len(wal') : wal'[i].page = p
    BY <2>1, TailGrows
  <2> QED  BY <1>2, <2>2, Zenon
<1>5. /\ DOMAIN committed_pages(wal') = {wal'[i].page : i \in 1 .. m}
      /\ \A p \in DOMAIN committed_pages(wal') : \E i \in 1 .. m :
           /\ wal'[i].page = p /\ wal'[i].data = committed_pages(wal')[p]
           /\ \A j \in i + 1 .. m : wal'[j].page # p
  <2>1. /\ DOMAIN committed_pages(wal') = {wal'[i].page : i \in 1 .. CommittedLen(wal')}
        /\ \A p \in DOMAIN committed_pages(wal') : \E i \in 1 .. CommittedLen(wal') :
             /\ wal'[i].page = p /\ wal'[i].data = committed_pages(wal')[p]
             /\ \A j \in i + 1 .. CommittedLen(wal') : wal'[j].page # p
    BY <1>3, CommittedPages
  <2> QED  BY <1>2, <2>1, Zenon
<1>6. ASSUME NEW p \in DOMAIN dirty[c]
      PROVE  p \in DOMAIN committed_pages(wal') /\ committed_pages(wal')[p] = dirty[c][p]
  <2>1. PICK i \in n + 1 .. m : wal'[i].page = p
    BY <1>4, Zenon
  <2>2. i \in 1 .. m
    BY <1>2
  <2>3. p \in DOMAIN committed_pages(wal')
    BY <1>5, <2>1, <2>2, Zenon
  <2>4. PICK h \in 1 .. m : /\ wal'[h].page = p /\ wal'[h].data = committed_pages(wal')[p]
                            /\ \A j \in h + 1 .. m : wal'[j].page # p
    BY <1>5, <2>3, Zenon
  <2>5. i \notin h + 1 .. m
    BY <2>1, <2>4, Zenon
  <2>6. h \in n + 1 .. m
    BY <2>5
  <2> QED  BY <1>4, <2>3, <2>4, <2>6, Zenon
<1> QED  BY <1>3, <1>6, Zenon DEF Found, IsFound

\* A log that a power loss has cut ends with a commit.
LEMMA PowerLog ==
  ASSUME LogType, SyncInv, PowerLoss, "torn" \notin Faults
  PROVE  /\ wal' \in Seq(Frames) /\ synced' = Len(wal') /\ CommittedLen(wal') = Len(wal') /\ LogPrefix(wal', wal)
         /\ Len(wal') > 0 => wal'[Len(wal')].db_size > 0
<1>1. PICK n \in Kept : wal' = SubSeq(wal, 1, n) /\ synced' = n
  BY Zenon DEF PowerLoss
<1>2. n \in Nat /\ n <= Len(wal) /\ n \in {synced, CommittedLen(SubSeq(wal, 1, n))} /\ wal \in Seq(Frames)
  BY DEF Kept, LogType, SyncInv
<1>3. /\ wal' \in Seq(Frames) /\ Len(wal') = n /\ \A i \in 1 .. n : wal'[i] = wal[i]
      /\ LogPrefix(wal', wal)
  BY <1>1, <1>2, SubSeqFacts, SMT
<1>4. n > 0 => wal'[n].db_size > 0
  <2>1. ASSUME n > 0, n = synced  PROVE  wal'[n].db_size > 0
    BY <1>2, <1>3, <2>1 DEF SyncInv
  <2>2. ASSUME n > 0, n = CommittedLen(wal')  PROVE  wal'[n].db_size > 0
    BY <1>3, <2>2, CommittedLenFacts
  <2> QED  BY <1>1, <1>2, <2>1, <2>2
<1>5. CommittedLen(wal') = n
  <2>1. \A i \in 1 .. Len(wal') : wal'[i].db_size > 0 => i <= n
    BY <1>2, <1>3
  <2> QED  BY <1>2, <1>3, <1>4, <2>1, CommittedLenIs
<1> QED  BY <1>1, <1>3, <1>4, <1>5, Zenon

LEMMA TailStep ==
  Base /\ CommitInv /\ Synchronous = "Full" /\ "torn" \notin Faults /\ [Next]_vars => TailInv'
<1> SUFFICES ASSUME Base, CommitInv, Synchronous = "Full", "torn" \notin Faults, [Next]_vars  PROVE  TailInv'
  OBVIOUS
<1>1. FileType /\ LogType /\ PcType /\ PagerType /\ LogInv /\ TailInv /\ DoneInv /\ SyncInv
  BY Zenon DEF Base, TypeOK, CommitInv
<1> DEFINE A(c) == Writing(c) => TailOf(c)
           B == CommittedLen(wal) = Len(wal) \/ \E c \in Conn : Writing(c)
<1>2. (\A c \in Conn : A(c)) /\ B
  BY <1>1, Zenon DEF TailInv
<1>3. CASE PowerLoss
  <2>1. CommittedLen(wal') = Len(wal')
    BY <1>1, <1>3, PowerLog, Zenon
  <2>2. \A c \in Conn : ~ Writing(c)'
    BY <1>3, Zenon DEF PowerLoss, Writing
  <2> QED  BY <2>1, <2>2, Zenon DEF TailInv
<1>4. ASSUME UNCHANGED <<wal, dirty, left>>, \A c \in Conn : pc'[c] = pc[c]  PROVE  TailInv'
  BY <1>4, <1>2, Zenon DEF TailInv, Writing, TailOf
<1>5. ASSUME NEW c \in Conn, ConnAct(c)  PROVE  TailInv'
  <2>1. \A d \in Conn \ {c} : pc'[d] = pc[d] /\ dirty'[d] = dirty[d] /\ left'[d] = left[d]
    BY <1>1, <1>5, Bystanders, Zenon
  <2>2. ASSUME NEW d \in Conn \ {c}  PROVE  A(d)'
    <3>1. Writing(d) => UNCHANGED wal
      BY <1>1, <1>5, Alone, WritingFlushes, Zenon
    <3> QED  BY <1>2, <2>1, <3>1, Zenon DEF Writing, TailOf
  <2>3. ASSUME A(c)', B'  PROVE  TailInv'
    BY <2>2, <2>3, Zenon DEF TailInv
  <2>4. c \in DOMAIN pc /\ c \in DOMAIN left
    BY <1>1, Zenon DEF PcType, PagerType
  <2>5. CASE AppendFrame(c)
    <3>1. Writing(c) /\ TailOf(c) /\ pc'[c] = "append"
      BY <1>2, <2>5, Zenon DEF Writing, AppendFrame
    <3>2. /\ left'[c] = {} => CommittedLen(wal') = Len(wal')
          /\ left'[c] # {} => CommittedLen(wal') = CommittedLen(wal)
      BY <1>1, <2>5, LastFrameCommits, Zenon
    <3>3. ASSUME left'[c] # {}  PROVE  TailOf(c)'
      <4>1. CommittedLen(wal) \in Nat /\ CommittedLen(wal) <= Len(wal)
        BY <1>1, CommittedLenFacts, Zenon DEF LogType
      <4>2. PICK n \in Nat : n = CommittedLen(wal) /\ n <= Len(wal)
        BY <4>1, Zenon
      <4>3. dirty' = dirty
        BY <2>5, Zenon DEF AppendFrame
      <4>4. CommittedLen(wal') = n
        BY <3>2, <3>3, <4>2, Zenon
      <4>5. /\ \A i \in n + 1 .. Len(wal') :
                 /\ wal'[i].page \in DOMAIN dirty[c] \ left'[c] /\ wal'[i].data = dirty[c][wal'[i].page]
                 /\ wal'[i].tx = wal'[Len(wal')].tx
            /\ \A p \in DOMAIN dirty[c] \ left'[c] : \E i \in n + 1 .. Len(wal') : wal'[i].page = p
        BY <1>1, <2>5, <3>1, <4>2, TailGrows
      <4>6. IsTail(wal', dirty[c], left'[c])
        BY <4>4, <4>5, Zenon DEF IsTail
      <4> QED  BY <4>3, <4>6, Zenon DEF TailOf
    <3> QED  BY <2>3, <3>1, <3>2, <3>3, Zenon DEF Writing
  <2>6. CASE ~ AppendFrame(c)
    <3>1. UNCHANGED wal
      BY <1>5, <2>6, Zenon DEF ConnAct, Open, Edit, Commit, ClaimSlot, PublishMark, ReadWal, Close, Kill, Gone,
         FillCache, Mutate, Allocate, Rollback, ClaimWrite, OpenWal, SyncWal, PublishMx, FoldDirty, log
    <3>2. CASE OpenWal(c)
      <4>1. pc[c] = "open" /\ dirty' = dirty /\ left'[c] = DOMAIN dirty[c]
        BY <2>4, <3>2, Zenon DEF OpenWal
      <4>2. CommittedLen(wal) = Len(wal)
        BY <1>1, <4>1, AtRest, Zenon DEF Writing, Flushing
      <4>3. \A i \in CommittedLen(wal) + 1 .. Len(wal) : FALSE
        BY <1>1, <4>2 DEF LogType
      <4> QED  BY <2>3, <3>1, <4>1, <4>2, <4>3, Zenon DEF TailOf, IsTail
    <3>3. CASE ~ OpenWal(c)
      <4>1. ~ Writing(c)'
        <5>1. pc'[c] = "append" => SyncWal(c) \/ ClaimWrite(c) \/ PublishMx(c)
          BY <1>1, <1>5, <2>6, <3>3, FlushSteps, Zenon DEF Flushing
        <5> QED  BY <2>4, <5>1, Zenon DEF SyncWal, ClaimWrite, PublishMx, Writing
      <4>2. ASSUME Writing(c)  PROVE  CommittedLen(wal) = Len(wal)
        <5>1. Kill(c)
          BY <1>5, <2>6, <4>2, Zenon DEF Writing, ConnAct, Open, Edit, Commit, ClaimSlot, PublishMark, ReadWal, Close,
             FillCache, Mutate, Allocate, Rollback, ClaimWrite, OpenWal, SyncWal, PublishMx, FoldDirty
        <5>2. left[c] = DOMAIN dirty[c]
          BY <4>2, <5>1, Zenon DEF Kill, Writing
        <5>3. \A i \in CommittedLen(wal) + 1 .. Len(wal) : FALSE
          BY <1>2, <4>2, <5>2, Zenon DEF TailOf, IsTail
        <5>4. CommittedLen(wal) \in Nat /\ CommittedLen(wal) <= Len(wal) /\ Len(wal) \in Nat
          BY <1>1, CommittedLenFacts DEF LogType
        <5> QED  BY <5>3, <5>4
      <4>3. ASSUME NEW d \in Conn \ {c}, Writing(d)  PROVE  Writing(d)'
        BY <2>1, <4>3, Zenon DEF Writing
      <4> QED  BY <1>2, <2>3, <3>1, <4>1, <4>2, <4>3, Zenon
    <3> QED  BY <3>2, <3>3, Zenon
  <2> QED  BY <2>5, <2>6, Zenon
<1>6. ASSUME NEW k \in Ckpt, CkptAct(k)  PROVE  TailInv'
  <2>1. UNCHANGED <<wal, dirty, left>> /\ \A c \in Conn : pc'[c] = pc[c]
    BY <1>1, <1>6, CkptMoves, Disjoint, Zenon DEF PcType
  <2> QED  BY <1>4, <2>1, Zenon
<1>7. ASSUME UNCHANGED vars  PROVE  TailInv'
  BY <1>4, <1>7, Zenon DEF vars, log, pager
<1> QED  BY <1>3, <1>5, <1>6, <1>7, Steps, Zenon

LEMMA FoundStep == Base /\ CommitInv /\ Synchronous = "Full" /\ [Next]_vars => FoundInv'
<1> SUFFICES ASSUME Base, CommitInv, Synchronous = "Full", [Next]_vars  PROVE  FoundInv'
  OBVIOUS
<1>1. FileType /\ LogType /\ PcType /\ PagerType /\ LogInv /\ TailInv /\ DoneInv /\ FoundInv
  BY Zenon DEF Base, TypeOK, CommitInv
<1> DEFINE I(c) == (Appended(c) => Found(c)) /\ (pc[c] = "fold" => mxFrame = CommittedLen(wal))
<1>2. \A c \in Conn : I(c)
  BY <1>1, Zenon DEF FoundInv
<1>3. \A c : (Appended(c) => pc[c] \in Flushing) /\ (pc[c] = "fold" => pc[c] \in Flushing)
  BY Zenon DEF Appended, Flushing
<1>4. ASSUME NEW c \in Conn, pc'[c] = pc[c], left'[c] = left[c], dirty'[c] = dirty[c],
             pc[c] \in Flushing => UNCHANGED <<wal, mxFrame>>
      PROVE  I(c)'
  BY <1>2, <1>3, <1>4, Zenon DEF Appended, Found
<1>5. ASSUME NEW c \in Conn, ConnAct(c)  PROVE  I(c)'
  <2>1. SUFFICES ASSUME pc'[c] \in Flushing  PROVE  I(c)'
    BY Zenon DEF Appended, Flushing
  <2>2. c \in DOMAIN pc /\ c \in DOMAIN left
    BY <1>1, Zenon DEF PcType, PagerType
  <2>3. CASE ClaimWrite(c)
    BY <2>2, <2>3, Zenon DEF Appended, ClaimWrite
  <2>4. CASE OpenWal(c)
    <3>1. pc'[c] = "append" /\ left'[c] = DOMAIN dirty[c] /\ pc[c] = "open" /\ pc[c] \in Flushing
      BY <2>2, <2>4, Zenon DEF OpenWal, Flushing
    <3>2. left'[c] # {}
      BY <1>1, <3>1, Zenon DEF LogInv
    <3> QED  BY <3>1, <3>2, Zenon DEF Appended
  <2>5. CASE AppendFrame(c)
    <3>1. pc'[c] = "append" /\ Writing(c)
      BY <2>5, Zenon DEF AppendFrame, Writing
    <3>2. left'[c] = {} => Found(c)'
      BY <1>1, <2>5, <3>1, LastFrameFound, Zenon DEF TailInv
    <3> QED  BY <3>1, <3>2, Zenon DEF Appended
  <2>6. CASE SyncWal(c)
    <3>1. Appended(c) /\ pc'[c] = "publish" /\ UNCHANGED <<wal, dirty>>
      BY <2>2, <2>6, Zenon DEF SyncWal, pager, Appended
    <3> QED  BY <1>2, <3>1, Zenon DEF Found
  <2>7. CASE PublishMx(c)
    <3>1. Appended(c) /\ pc[c] = "publish" /\ UNCHANGED <<wal, dirty>> /\ mxFrame' = at[c]
      BY <2>7, Zenon DEF PublishMx, Appended, log
    <3>2. at[c] = CommittedLen(wal)
      BY <1>1, <3>1, Zenon DEF DoneInv
    <3> QED  BY <1>2, <3>1, <3>2, Zenon DEF Found
  <2> QED  BY <1>1, <1>5, <2>1, <2>3, <2>4, <2>5, <2>6, <2>7, FlushSteps, Zenon
<1>6. ASSUME NEW c \in Conn, NEW d \in Conn, ConnAct(d), c # d  PROVE  I(c)'
  <2>1. pc'[c] = pc[c] /\ left'[c] = left[c] /\ dirty'[c] = dirty[c]
    BY <1>1, <1>6, Bystanders, Zenon
  <2>2. pc[c] \in Flushing => UNCHANGED <<wal, mxFrame>>
    BY <1>1, <1>6, Alone, Zenon
  <2> QED  BY <1>4, <2>1, <2>2, Zenon
<1>7. ASSUME NEW c \in Conn, NEW k \in Ckpt, CkptAct(k)  PROVE  I(c)'
  <2>1. UNCHANGED <<wal, mxFrame, dirty, left>> /\ pc'[c] = pc[c]
    BY <1>1, <1>7, CkptMoves, Disjoint, Zenon DEF PcType
  <2> QED  BY <1>4, <2>1, Zenon
<1>8. ASSUME NEW c \in Conn, PowerLoss  PROVE  I(c)'
  BY <1>8, Zenon DEF PowerLoss, Appended
<1>9. ASSUME NEW c \in Conn, UNCHANGED vars  PROVE  I(c)'
  BY <1>4, <1>9, Zenon DEF vars, log, pager, shm
<1>10. \A c \in Conn : I(c)'
  BY <1>5, <1>6, <1>7, <1>8, <1>9, Steps, Zenon
<1> QED  BY <1>10, Zenon DEF FoundInv

LEMMA SyncStep == Base /\ CommitInv /\ "torn" \notin Faults /\ [Next]_vars => SyncInv'
<1> SUFFICES ASSUME Base, CommitInv, "torn" \notin Faults, [Next]_vars  PROVE  SyncInv'
  OBVIOUS
<1>1. FileType /\ LogType /\ PagerType /\ LogInv /\ DoneInv /\ SyncInv
  BY Zenon DEF Base, TypeOK, CommitInv
<1>2. CASE UNCHANGED log
  BY <1>1, <1>2, Zenon DEF SyncInv, log
<1>3. ASSUME NEW c \in Conn, AppendFrame(c)  PROVE  SyncInv'
  <2>1. Len(wal') = Len(wal) + 1 /\ \A i \in 1 .. Len(wal) : wal'[i] = wal[i]
    BY <1>1, <1>3, NextFrame, Zenon
  <2>2. synced' = synced
    BY <1>3, Zenon DEF AppendFrame
  <2> QED  BY <1>1, <2>1, <2>2 DEF SyncInv, LogType
<1>4. ASSUME NEW c \in Conn, SyncWal(c)  PROVE  SyncInv'
  <2>1. wal' = wal /\ synced' = Len(wal) /\ Appended(c)
    BY <1>4, Zenon DEF SyncWal, Appended
  <2>2. Len(wal) > 0 /\ CommittedLen(wal) = Len(wal) /\ wal \in Seq(Frames)
    BY <1>1, <2>1, Zenon DEF DoneInv, LogType
  <2>3. wal[Len(wal)].db_size > 0
    BY <2>2, CommittedLenFacts
  <2> QED  BY <2>1, <2>2, <2>3 DEF SyncInv
<1>5. CASE PowerLoss
  <2>1. /\ wal' \in Seq(Frames) /\ synced' = Len(wal')
        /\ Len(wal') > 0 => wal'[Len(wal')].db_size > 0
    BY <1>1, <1>5, PowerLog, Zenon
  <2> QED  BY <2>1 DEF SyncInv
<1> QED  BY <1>2, <1>3, <1>4, <1>5, LogWriters, Zenon

LEMMA OrphanStep == Base /\ CommitInv /\ "torn" \notin Faults /\ [Next]_vars => NoOrphanCommitted'
<1> SUFFICES ASSUME Base, CommitInv, "torn" \notin Faults, [Next]_vars  PROVE  NoOrphanCommitted'
  OBVIOUS
<1>1. FileType /\ LogType /\ PagerType /\ LogInv /\ TailInv /\ SyncInv /\ NoOrphanCommitted
  BY Zenon DEF Base, TypeOK, CommitInv
<1>2. CASE wal' = wal
  BY <1>1, <1>2, Zenon DEF NoOrphanCommitted
<1>3. /\ \A i \in 1 .. CommittedLen(wal) : \E j \in i .. Len(wal) :
           wal[j].db_size > 0 /\ \A m \in i .. j : wal[m].tx = wal[i].tx
      /\ CommittedLen(wal) \in Nat /\ CommittedLen(wal) <= Len(wal) /\ Len(wal) \in Nat /\ wal \in Seq(Frames)
  BY <1>1, CommittedLenFacts DEF NoOrphanCommitted, LogType
<1>4. ASSUME NEW c \in Conn, AppendFrame(c)  PROVE  NoOrphanCommitted'
  <2>1. Len(wal') = Len(wal) + 1 /\ (\A i \in 1 .. Len(wal) : wal'[i] = wal[i]) /\ wal' \in Seq(Frames)
    BY <1>1, <1>4, NextFrame, Zenon
  <2>2. ASSUME NEW i \in 1 .. CommittedLen(wal)
        PROVE  \E j \in i .. Len(wal') : wal'[j].db_size > 0 /\ \A m \in i .. j : wal'[m].tx = wal'[i].tx
    <3>1. PICK j \in i .. Len(wal) : wal[j].db_size > 0 /\ \A m \in i .. j : wal[m].tx = wal[i].tx
      BY <1>3, Zenon
    <3>2. j \in i .. Len(wal') /\ j \in 1 .. Len(wal) /\ i \in 1 .. Len(wal) /\ \A m \in i .. j : m \in 1 .. Len(wal)
      BY <1>3, <2>1
    <3> QED  BY <2>1, <3>1, <3>2, Zenon
  <2>3. CASE CommittedLen(wal') = CommittedLen(wal)
    BY <2>2, <2>3, Zenon DEF NoOrphanCommitted
  <2>4. CASE CommittedLen(wal') = Len(wal')
    <3>1. TailOf(c)
      BY <1>1, <1>4, Zenon DEF TailInv, Writing, AppendFrame
    <3>2. PICK n \in Nat : n = CommittedLen(wal) /\ n <= Len(wal)
      BY <1>3, Zenon
    <3>3. \A i \in n + 1 .. Len(wal') : wal'[i].tx = wal'[Len(wal')].tx
      BY <1>1, <1>4, <3>1, <3>2, TailGrows, Zenon
    <3>4. wal'[Len(wal')].db_size > 0
      BY <1>3, <2>1, <2>4, CommittedLenFacts
    <3>5. ASSUME NEW i \in n + 1 .. Len(wal')
          PROVE  \E j \in i .. Len(wal') : wal'[j].db_size > 0 /\ \A m \in i .. j : wal'[m].tx = wal'[i].tx
      <4>1. Len(wal') \in i .. Len(wal') /\ \A m \in i .. Len(wal') : m \in n + 1 .. Len(wal')
        BY <1>3, <2>1, <3>2
      <4> QED  BY <3>3, <3>4, <4>1, Zenon
    <3>6. \A i \in 1 .. Len(wal') : i \in 1 .. n \/ i \in n + 1 .. Len(wal')
      BY <1>3, <2>1, <3>2
    <3> QED  BY <2>2, <2>4, <3>2, <3>5, <3>6, Zenon DEF NoOrphanCommitted
  <2> QED  BY <1>1, <1>4, <2>3, <2>4, LastFrameCommits, Zenon
<1>5. CASE PowerLoss
  <2>1. /\ wal' \in Seq(Frames) /\ CommittedLen(wal') = Len(wal') /\ LogPrefix(wal', wal)
        /\ Len(wal') > 0 => wal'[Len(wal')].db_size > 0
    BY <1>1, <1>5, PowerLog, Zenon
  <2>2. PICK n \in Nat : n = Len(wal') /\ n <= Len(wal) /\ \A i \in 1 .. n : wal'[i] = wal[i]
    BY <2>1 DEF LogPrefix
  <2>3. n <= CommittedLen(wal)
    BY <1>3, <2>1, <2>2, PrefixFacts, Zenon
  <2>4. ASSUME NEW i \in 1 .. n
        PROVE  \E j \in i .. n : wal'[j].db_size > 0 /\ \A m \in i .. j : wal'[m].tx = wal'[i].tx
    <3>1. i \in 1 .. CommittedLen(wal)
      BY <1>3, <2>3
    <3>2. PICK j \in i .. Len(wal) : wal[j].db_size > 0 /\ \A m \in i .. j : wal[m].tx = wal[i].tx
      BY <1>3, <3>1, Zenon
    <3>3. CASE j <= n
      <4>1. j \in i .. n /\ j \in 1 .. n /\ \A m \in i .. j : m \in 1 .. n
        BY <2>2, <3>3
      <4> QED  BY <2>2, <3>2, <4>1, Zenon
    <3>4. CASE ~ (j <= n)
      <4>1. n \in i .. n /\ n > 0 /\ \A m \in i .. n : m \in 1 .. n /\ m \in i .. j
        BY <2>2, <3>4
      <4> QED  BY <2>1, <2>2, <3>2, <4>1, Zenon
    <3> QED  BY <3>3, <3>4, Zenon
  <2> QED  BY <2>1, <2>2, <2>4, Zenon DEF NoOrphanCommitted
<1> QED  BY <1>2, <1>4, <1>5, LogWriters, Zenon DEF log, SyncWal

LEMMA CommitInvInit == Init => Base /\ CommitInv
<1> SUFFICES ASSUME Init  PROVE  Base /\ CommitInv
  OBVIOUS
<1>1. Base
  BY BaseInit
<1>2. \A c \in Conn : pc[c] = "closed"
  BY Zenon DEF Init
<1>3. DoneInv /\ FoundInv
  BY <1>2, Zenon DEF DoneInv, FoundInv, Appended
<1>4. /\ wal \in Seq(Frames) /\ Len(wal) = InitFrames /\ synced = InitFrames
      /\ \A i \in 1 .. InitFrames : wal[i].db_size = 2
  <2>1. wal = [i \in 1 .. InitFrames |-> Frame(1, 2, 2, 0)] /\ synced = InitFrames /\ InitFrames \in {0, 1}
    BY WalAssumption, Zenon DEF Init
  <2>2. Len(wal) = InitFrames
    BY <2>1
  <2> QED  BY <1>1, <2>1, <2>2, Zenon DEF Frame, Base, TypeOK, LogType
<1>5. InitFrames \in Nat /\ InitFrames <= 1 /\ \A i \in 1 .. InitFrames : i = 1
  BY WalAssumption
<1>6. CommittedLen(wal) = Len(wal)
  BY <1>4, <1>5, CommittedLenFacts
<1>7. TailInv /\ SyncInv
  BY <1>2, <1>4, <1>5, <1>6 DEF TailInv, SyncInv, Writing
<1>8. NoOrphanCommitted
  BY <1>4, <1>5, <1>6 DEF NoOrphanCommitted
<1> QED  BY <1>1, <1>3, <1>7, <1>8, Zenon DEF CommitInv

LEMMA CommitInvStep ==
  Base /\ CommitInv /\ Synchronous = "Full" /\ "torn" \notin Faults /\ [Next]_vars => Base' /\ CommitInv'
BY BaseStep, DoneStep, TailStep, FoundStep, SyncStep, OrphanStep, Zenon DEF NoTornLoss, CommitInv

\* CommitReachesWal, for any number of writers, and checkpoints and power
\* losses between their steps: when flush has published mxFrame, the log holds
\* what it committed, and committed nothing of another transaction with it.
THEOREM CommitsReachTheLog ==
  Synchronous = "Full" /\ "torn" \notin Faults => (Spec => []CommitReachesWal)
<1> SUFFICES ASSUME Synchronous = "Full", "torn" \notin Faults  PROVE  Spec => []CommitReachesWal
  OBVIOUS
<1> DEFINE J == Base /\ CommitInv
<1>1. Init => J
  BY CommitInvInit
<1>2. J /\ [Next]_vars => J'
  BY CommitInvStep, Zenon
<1>3. J => CommitReachesWal
  BY Zenon DEF CommitInv, CommitReachesWal, FoundInv, Found, IsFound, Appended
<1> QED  BY <1>1, <1>2, <1>3, PTL DEF Spec

-----------------------------------------------------------------------------
(* One writer, with readers, checkpoints and power losses that drop whole  *)
(* transactions.                                                           *)

OneWriter == \A c, d \in Writers : c = d

\* Only writers have dirty pages, and only connections that are open.
BareInv ==
  \A c \in Conn : /\ c \notin Writers => DOMAIN dirty[c] = {}
                  /\ ~ Live(c) => DOMAIN dirty[c] = {} /\ DOMAIN cache[c] = {}

\* The writer's overlay is what the log has committed.
Current(c) ==
  /\ Appended(c) => committed_pages(wal) = Overlay(overlay[c], dirty[c])
  /\ ~ Appended(c) => overlay[c] = committed_pages(wal)
CurrentInv == \A c \in Writers : Live(c) => Current(c)

\* A cached page that the log does not have is as in the file.
IsCached(f, g, m) == \A p \in DOMAIN f \ DOMAIN g : f[p] = m[p]
CachedInv == \A c \in Conn : IsCached(cache[c], committed_pages(wal), main)

\* A transaction on a database of n pages: the pages it adds are dirty, and no
\* page past them is.
Sized(d, n) == IF 1 \in DOMAIN d THEN d[1] ELSE n
IsShape(d, n) ==
  /\ \A p \in DOMAIN d : p <= Sized(d, n)
  /\ 1 \in DOMAIN d => n <= d[1] /\ \A p \in n + 1 .. d[1] : p \in DOMAIN d
DbSize == Overlay(main, committed_pages(wal))[1]
ShapeInv == \A c \in Writers : Live(c) /\ ~ Appended(c) => IsShape(dirty[c], DbSize)

WriterInv == BareInv /\ CurrentInv /\ CachedInv /\ ShapeInv

\* committed_pages is the function that has the last frame of every page.
LEMMA CommittedIs ==
  ASSUME NEW w \in Seq(Frames), NEW f, IsWrites(f), DOMAIN f = {w[i].page : i \in 1 .. CommittedLen(w)},
         \A i \in 1 .. CommittedLen(w) :
           (\A j \in i + 1 .. CommittedLen(w) : w[j].page # w[i].page) => f[w[i].page] = w[i].data
  PROVE  committed_pages(w) = f
<1>1. /\ IsWrites(committed_pages(w)) /\ DOMAIN committed_pages(w) = {w[i].page : i \in 1 .. CommittedLen(w)}
      /\ \A p \in DOMAIN committed_pages(w) : \E i \in 1 .. CommittedLen(w) :
           /\ w[i].page = p /\ w[i].data = committed_pages(w)[p]
           /\ \A j \in i + 1 .. CommittedLen(w) : w[j].page # p
  BY CommittedPages
<1>2. DOMAIN committed_pages(w) = DOMAIN f
  BY <1>1
<1>3. ASSUME NEW p \in DOMAIN committed_pages(w)  PROVE  f[p] = committed_pages(w)[p]
  <2>1. PICK i \in 1 .. CommittedLen(w) : /\ w[i].page = p /\ w[i].data = committed_pages(w)[p]
                                          /\ \A j \in i + 1 .. CommittedLen(w) : w[j].page # p
    BY <1>1, Zenon
  <2> QED  BY <2>1, Zenon
<1>4. /\ f = [p \in DOMAIN f |-> f[p]]
      /\ committed_pages(w) = [p \in DOMAIN committed_pages(w) |-> committed_pages(w)[p]]
  BY <1>1, Zenon DEF IsWrites
<1> QED  BY <1>2, <1>3, <1>4, SMT

\* Frames that are not committed do not count.
LEMMA SameCommitted ==
  ASSUME NEW v \in Seq(Frames), NEW w \in Seq(Frames), CommittedLen(w) = CommittedLen(v),
         \A i \in 1 .. CommittedLen(v) : w[i] = v[i]
  PROVE  committed_pages(w) = committed_pages(v)
<1>1. PICK f : /\ f = committed_pages(v) /\ IsWrites(f) /\ DOMAIN f = {v[i].page : i \in 1 .. CommittedLen(v)}
               /\ \A i \in 1 .. CommittedLen(v) :
                    (\A j \in i + 1 .. CommittedLen(v) : v[j].page # v[i].page) => f[v[i].page] = v[i].data
  <2>1. /\ IsWrites(committed_pages(v)) /\ DOMAIN committed_pages(v) = {v[i].page : i \in 1 .. CommittedLen(v)}
        /\ \A i \in 1 .. CommittedLen(v) : (\A j \in i + 1 .. CommittedLen(v) : v[j].page # v[i].page)
                                             => committed_pages(v)[v[i].page] = v[i].data
    BY CommittedPages
  <2> QED  BY <2>1, Zenon
<1>2. PICK n \in Nat : n = CommittedLen(v) /\ n = CommittedLen(w)
  BY CommittedLenFacts, Zenon
<1>3. \A i \in 1 .. n : \A j \in i + 1 .. n : j \in 1 .. n
  BY <1>2
<1>4. DOMAIN f = {w[i].page : i \in 1 .. CommittedLen(w)}
  BY <1>1, Zenon
<1>5. \A i \in 1 .. CommittedLen(w) :
        (\A j \in i + 1 .. CommittedLen(w) : w[j].page # w[i].page) => f[w[i].page] = w[i].data
  BY <1>1, <1>2, <1>3, Zenon
<1> QED  BY <1>1, <1>4, <1>5, CommittedIs, Zenon

\* What a frame does to committed_pages: nothing, but for the last one, which
\* adds the transaction.
LEMMA CommitPages ==
  ASSUME FileType, LogType, PagerType, LogInv, NEW c \in Conn, AppendFrame(c), TailOf(c)
  PROVE  /\ left'[c] # {} => committed_pages(wal') = committed_pages(wal)
         /\ left'[c] = {} => committed_pages(wal') = Overlay(committed_pages(wal), dirty[c])
<1>1. PICK n \in Nat : n = CommittedLen(wal) /\ n <= Len(wal) /\ wal \in Seq(Frames)
  BY CommittedLenFacts, Zenon DEF LogType
<1>2. PICK m \in Nat : m = Len(wal') /\ m = Len(wal) + 1 /\ n <= m /\ wal' \in Seq(Frames)
  <2>1. Len(wal') = Len(wal) + 1 /\ wal' \in Seq(Frames)
    BY NextFrame, Zenon
  <2> QED  BY <1>1, <2>1
<1>3. \A i \in 1 .. n : wal'[i] = wal[i]
  <2>1. \A i \in 1 .. Len(wal) : wal'[i] = wal[i]
    BY NextFrame, Zenon
  <2>2. \A i \in 1 .. n : i \in 1 .. Len(wal)
    BY <1>1
  <2> QED  BY <2>1, <2>2, Zenon
<1>4. ASSUME left'[c] # {}  PROVE  committed_pages(wal') = committed_pages(wal)
  <2>1. CommittedLen(wal') = CommittedLen(wal)
    BY <1>4, LastFrameCommits, Zenon
  <2> QED  BY <1>1, <1>2, <1>3, <2>1, SameCommitted, Zenon
<1>5. ASSUME left'[c] = {}  PROVE  committed_pages(wal') = Overlay(committed_pages(wal), dirty[c])
  <2>1. CommittedLen(wal') = m
    BY <1>2, <1>5, LastFrameCommits, Zenon
  <2>2. /\ \A i \in n + 1 .. m : wal'[i].page \in DOMAIN dirty[c] /\ wal'[i].data = dirty[c][wal'[i].page]
        /\ \A p \in DOMAIN dirty[c] : \E i \in n + 1 .. m : wal'[i].page = p
    <3>1. /\ \A i \in n + 1 .. Len(wal') :
               /\ wal'[i].page \in DOMAIN dirty[c] \ left'[c] /\ wal'[i].data = dirty[c][wal'[i].page]
               /\ wal'[i].tx = wal'[Len(wal')].tx
          /\ \A p \in DOMAIN dirty[c] \ left'[c] : \E i \in n + 1 .. Len(wal') : wal'[i].page = p
      BY <1>1, TailGrows, Zenon
    <3> QED  BY <1>2, <1>5, <3>1, Zenon
  <2>3. PICK g : /\ g = committed_pages(wal) /\ IsWrites(g) /\ DOMAIN g = {wal[i].page : i \in 1 .. n}
                 /\ \A i \in 1 .. n : (\A j \in i + 1 .. n : wal[j].page # wal[i].page) => g[wal[i].page] = wal[i].data
    <3>1. /\ IsWrites(committed_pages(wal))
          /\ DOMAIN committed_pages(wal) = {wal[i].page : i \in 1 .. CommittedLen(wal)}
          /\ \A i \in 1 .. CommittedLen(wal) : (\A j \in i + 1 .. CommittedLen(wal) : wal[j].page # wal[i].page)
                                                 => committed_pages(wal)[wal[i].page] = wal[i].data
      BY <1>1, CommittedPages
    <3> QED  BY <1>1, <3>1, Zenon
  <2>4. dirty[c] \in Writes /\ g \in Writes
    BY <2>3, WritesFacts, Zenon DEF PagerType
  <2>5. PICK f : /\ f = Overlay(g, dirty[c]) /\ f \in Writes /\ DOMAIN f = DOMAIN g \union DOMAIN dirty[c]
                 /\ \A p \in DOMAIN dirty[c] : f[p] = dirty[c][p]
                 /\ \A p \in DOMAIN g \ DOMAIN dirty[c] : f[p] = g[p]
    <3>1. PICK d : d = dirty[c] /\ d \in Writes
      BY <2>4, Zenon
    <3>2. /\ DOMAIN Overlay(g, d) = DOMAIN g \union DOMAIN d
          /\ \A p \in DOMAIN d : Overlay(g, d)[p] = d[p]
          /\ \A p \in DOMAIN g \ DOMAIN d : Overlay(g, d)[p] = g[p]
          /\ g \in Writes /\ d \in Writes => Overlay(g, d) \in Writes
      BY OverlayFacts, Zenon
    <3> QED  BY <2>4, <3>1, <3>2, Zenon
  <2>6. /\ \A i \in 1 .. m : i \in 1 .. n \/ i \in n + 1 .. m
        /\ \A i \in 1 .. n : i \in 1 .. m /\ \A j \in n + 1 .. m : j \in i + 1 .. m
        /\ \A i \in 1 .. n : \A j \in i + 1 .. n : j \in 1 .. n /\ j \in i + 1 .. m
        /\ \A i \in n + 1 .. m : i \in 1 .. m
    BY <1>1, <1>2
  <2>7. DOMAIN f = {wal'[i].page : i \in 1 .. m}
    <3>1. ASSUME NEW p \in DOMAIN f  PROVE  \E i \in 1 .. m : wal'[i].page = p
      <4>1. CASE p \in DOMAIN dirty[c]
        BY <2>2, <2>6, <4>1, Zenon
      <4>2. CASE p \in DOMAIN g
        <5>1. PICK i \in 1 .. n : wal[i].page = p
          BY <2>3, <4>2, Zenon
        <5> QED  BY <1>3, <2>6, <5>1, Zenon
      <4> QED  BY <2>5, <4>1, <4>2, Zenon
    <3>2. ASSUME NEW i \in 1 .. m  PROVE  wal'[i].page \in DOMAIN f
      BY <1>3, <2>2, <2>3, <2>5, <2>6, Zenon
    <3> QED  BY <3>1, <3>2, Zenon
  <2>8. ASSUME NEW i \in 1 .. m, \A j \in i + 1 .. m : wal'[j].page # wal'[i].page
        PROVE  f[wal'[i].page] = wal'[i].data
    <3>1. CASE i \in n + 1 .. m
      BY <2>2, <2>5, <3>1, Zenon
    <3>2. CASE i \in 1 .. n
      <4>1. wal'[i].page \notin DOMAIN dirty[c]
        BY <2>2, <2>6, <2>8, <3>2, Zenon
      <4>2. \A j \in i + 1 .. n : wal[j].page # wal[i].page
        BY <1>3, <2>6, <2>8, <3>2, Zenon
      <4>3. wal'[i] = wal[i] /\ wal[i].page \in DOMAIN g /\ g[wal[i].page] = wal[i].data
        BY <1>3, <2>3, <3>2, <4>2, Zenon
      <4> QED  BY <2>5, <4>1, <4>3, Zenon
    <3> QED  BY <2>6, <3>1, <3>2, Zenon
  <2>9. IsWrites(f)
    BY <2>5, WritesFacts, Zenon
  <2>10. committed_pages(wal') = f
    BY <1>2, <2>1, <2>7, <2>8, <2>9, CommittedIs, Zenon
  <2> QED  BY <2>3, <2>5, <2>10, Zenon
<1> QED  BY <1>4, <1>5, Zenon

\* The steps of a connection that is open after them.
LEMMA OwnSteps ==
  ASSUME Base, Synchronous = "Full", NEW c \in Conn, ConnAct(c), Live(c)'
  PROVE  \/ /\ ~ Live(c) /\ ~ Appended(c)' /\ overlay'[c] = committed_pages(wal)
            /\ wal' = wal /\ cache'[c] = cache[c] /\ dirty'[c] = dirty[c]
         \/ Live(c) /\ ~ Appended(c) /\ ~ Appended(c)' /\ wal' = wal /\ overlay'[c] = overlay[c] /\ Edit(c)
         \/ /\ Live(c) /\ (Appended(c)' <=> Appended(c)) /\ wal' = wal
            /\ overlay'[c] = overlay[c] /\ cache'[c] = cache[c] /\ dirty'[c] = dirty[c]
         \/ Live(c) /\ AppendFrame(c)
         \/ Live(c) /\ FoldDirty(c)
<1>1. /\ c \in DOMAIN pc /\ c \in DOMAIN overlay /\ c \in DOMAIN left
      /\ pc[c] = "open" => DOMAIN dirty[c] # {}
  BY Zenon DEF Base, TypeOK, PcType, PagerType, LogInv, Flushing
<1>2. CASE ReadWal(c)
  BY <1>1, <1>2, Zenon DEF ReadWal, Live, Appended, log
<1>3. CASE Edit(c)
  <2>1. pc[c] = "ready" /\ pc' = pc /\ wal' = wal /\ overlay' = overlay
    BY <1>3, Zenon DEF Edit, FillCache, Mutate, Allocate, Rollback, log
  <2> QED  BY <1>3, <2>1, Zenon DEF Live, Appended
<1>4. CASE ClaimWrite(c)
  BY <1>1, <1>4, Zenon DEF ClaimWrite, Live, Appended, log, pager
<1>5. CASE OpenWal(c)
  BY <1>1, <1>5, Zenon DEF OpenWal, Live, Appended, log
<1>6. CASE AppendFrame(c)
  BY <1>6, Zenon DEF AppendFrame, Live
<1>7. CASE SyncWal(c)
  BY <1>1, <1>7, Zenon DEF SyncWal, Live, Appended, pager
<1>8. CASE PublishMx(c)
  BY <1>1, <1>8, Zenon DEF PublishMx, Live, Appended, log
<1>9. CASE FoldDirty(c)
  BY <1>9, Zenon DEF FoldDirty, Live
<1>10. ~ (ClaimSlot(c) \/ PublishMark(c) \/ Gone(c))
  BY <1>1, Zenon DEF ClaimSlot, PublishMark, Gone, Live
<1> QED  BY <1>2, <1>3, <1>4, <1>5, <1>6, <1>7, <1>8, <1>9, <1>10, Zenon DEF ConnAct, Open, Commit, Close, Kill

LEMMA BareStep == Base /\ BareInv /\ Synchronous = "Full" /\ [Next]_vars => BareInv'
<1> SUFFICES ASSUME Base, BareInv, Synchronous = "Full", [Next]_vars  PROVE  BareInv'
  OBVIOUS
<1>1. PcType /\ PagerType
  BY Zenon DEF Base, TypeOK
<1> DEFINE B(c) == /\ c \notin Writers => DOMAIN dirty[c] = {}
                   /\ ~ Live(c) => DOMAIN dirty[c] = {} /\ DOMAIN cache[c] = {}
<1>2. \A c \in Conn : B(c)
  BY Zenon DEF BareInv
<1>3. ASSUME NEW c \in Conn, Live(c)' <=> Live(c), dirty'[c] = dirty[c], cache'[c] = cache[c]  PROVE  B(c)'
  BY <1>2, <1>3, Zenon
<1>4. ASSUME NEW c \in Conn, ConnAct(c)  PROVE  B(c)'
  <2>1. c \in DOMAIN pc /\ c \in DOMAIN dirty /\ c \in DOMAIN cache
    BY <1>1, Zenon DEF PcType, PagerType
  <2>2. CASE Gone(c)
    BY <2>1, <2>2, WritesFacts, Zenon DEF Gone
  <2>3. CASE ClaimSlot(c) \/ PublishMark(c)
    BY <1>3, <2>1, <2>3, Zenon DEF ClaimSlot, PublishMark, Live, pager
  <2>4. CASE Live(c)'
    <3>1. CASE ~ Live(c) /\ dirty'[c] = dirty[c] /\ cache'[c] = cache[c]
      BY <1>2, <2>4, <3>1, Zenon
    <3>2. CASE Edit(c)
      <4>1. c \notin Writers => dirty'[c] = dirty[c] \/ dirty'[c] = NoWrites
        BY <2>1, <3>2, Zenon DEF Edit, FillCache, Mutate, Allocate, Rollback
      <4> QED  BY <1>2, <2>4, <4>1, WritesFacts, Zenon
    <3>3. CASE Live(c) /\ dirty'[c] = dirty[c]
      BY <1>2, <2>4, <3>3, Zenon
    <3>4. CASE Live(c) /\ AppendFrame(c)
      BY <1>2, <2>4, <3>4, Zenon DEF AppendFrame
    <3>5. CASE FoldDirty(c)
      BY <2>1, <2>4, <3>5, WritesFacts, Zenon DEF FoldDirty
    <3> QED  BY <1>4, <2>4, <3>1, <3>2, <3>3, <3>4, <3>5, OwnSteps, Zenon
  <2>5. ASSUME ~ Live(c)', ~ Gone(c)  PROVE  ClaimSlot(c) \/ PublishMark(c)
    <3>1. pc'[c] \in {"closed", "mark", "read"}
      BY <2>5, Zenon DEF Live
    <3> QED  BY <1>4, <2>1, <2>5, <3>1, Zenon DEF ConnAct, Open, Edit, Commit, Close, Kill, ReadWal, FillCache, Mutate,
                Allocate, Rollback, ClaimWrite, OpenWal, AppendFrame, SyncWal, PublishMx, FoldDirty
  <2> QED  BY <2>2, <2>3, <2>4, <2>5, Zenon
<1>5. ASSUME NEW c \in Conn, NEW d \in Conn, ConnAct(d), c # d  PROVE  B(c)'
  <2>1. pc'[c] = pc[c] /\ cache'[c] = cache[c] /\ dirty'[c] = dirty[c]
    BY <1>1, <1>5, Bystanders, Zenon
  <2> QED  BY <1>3, <2>1, Zenon DEF Live
<1>6. ASSUME NEW c \in Conn, NEW k \in Ckpt, CkptAct(k)  PROVE  B(c)'
  <2>1. UNCHANGED <<dirty, cache>> /\ pc'[c] = pc[c]
    BY <1>1, <1>6, CkptMoves, Disjoint, Zenon DEF PcType
  <2> QED  BY <1>3, <2>1, Zenon DEF Live
<1>7. ASSUME NEW c \in Conn, PowerLoss  PROVE  B(c)'
  BY <1>7, WritesFacts, Zenon DEF PowerLoss
<1>8. ASSUME NEW c \in Conn, UNCHANGED vars  PROVE  B(c)'
  BY <1>3, <1>8, Zenon DEF vars, pager, Live
<1>9. \A c \in Conn : B(c)'
  BY <1>4, <1>5, <1>6, <1>7, <1>8, Steps, Zenon
<1> QED  BY <1>9, Zenon DEF BareInv

\* Nobody but the writer writes the log.
LEMMA OthersRead ==
  ASSUME LogInv, BareInv, OneWriter, NEW c \in Writers, NEW d \in Conn, ConnAct(d), d # c
  PROVE  wal' = wal /\ synced' = synced
<1>1. ~ (pc[d] = "append")
  BY Zenon DEF LogInv, BareInv, OneWriter, Flushing
<1> QED  BY <1>1, Zenon DEF ConnAct, Open, Edit, Commit, ClaimSlot, PublishMark, ReadWal, Close, Kill, Gone,
            FillCache, Mutate, Allocate, Rollback, ClaimWrite, OpenWal, AppendFrame, SyncWal, PublishMx, FoldDirty, log

LEMMA CurrentStep ==
  Base /\ TailInv /\ WriterInv /\ OneWriter /\ Synchronous = "Full" /\ [Next]_vars => CurrentInv'
<1> SUFFICES ASSUME Base, TailInv, WriterInv, OneWriter, Synchronous = "Full", [Next]_vars  PROVE  CurrentInv'
  OBVIOUS
<1>1. /\ FileType /\ LogType /\ PcType /\ PagerType /\ LogInv /\ BareInv /\ Writers \subseteq Conn
      /\ \A c \in Writers : Live(c) => Current(c)
  BY WalAssumption, Zenon DEF Base, TypeOK, WriterInv, CurrentInv
<1>2. ASSUME NEW c \in Writers, Live(c), Appended(c)' <=> Appended(c), wal' = wal, overlay'[c] = overlay[c],
             ~ Appended(c) \/ dirty'[c] = dirty[c]
      PROVE  Current(c)'
  BY <1>1, <1>2, Zenon DEF Current
<1>3. ASSUME NEW c \in Writers, ConnAct(c), Live(c)'  PROVE  Current(c)'
  <2>1. c \in Conn
    BY <1>1, Zenon
  <2>2. CASE ~ Live(c) /\ ~ Appended(c)' /\ overlay'[c] = committed_pages(wal) /\ wal' = wal
    BY <2>2, Zenon DEF Current
  <2>3. CASE Live(c) /\ (Appended(c)' <=> Appended(c)) /\ wal' = wal /\ overlay'[c] = overlay[c]
               /\ (~ Appended(c) \/ dirty'[c] = dirty[c])
    BY <1>2, <2>3, Zenon
  <2>4. CASE Live(c) /\ AppendFrame(c)
    <3>1. Writing(c) /\ TailOf(c) /\ ~ Appended(c) /\ pc'[c] = "append" /\ overlay'[c] = overlay[c] /\ dirty'[c] = dirty[c]
      BY <2>1, <2>4, Zenon DEF AppendFrame, Writing, TailInv, Appended
    <3>2. overlay[c] = committed_pages(wal)
      BY <1>1, <2>4, <3>1, Zenon DEF Current
    <3>3. /\ left'[c] # {} => committed_pages(wal') = committed_pages(wal)
          /\ left'[c] = {} => committed_pages(wal') = Overlay(committed_pages(wal), dirty[c])
      BY <1>1, <2>1, <2>4, <3>1, CommitPages, Zenon
    <3>4. Appended(c)' <=> left'[c] = {}
      BY <3>1, Zenon DEF Appended
    <3> QED  BY <3>1, <3>2, <3>3, <3>4, Zenon DEF Current
  <2>5. CASE Live(c) /\ FoldDirty(c)
    <3>1. /\ Appended(c) /\ pc'[c] = "ready" /\ wal' = wal /\ overlay'[c] = Overlay(overlay[c], dirty[c])
      BY <1>1, <2>1, <2>5, Zenon DEF FoldDirty, Appended, log, PcType, PagerType
    <3>2. ~ Appended(c)'
      BY <3>1, Zenon DEF Appended
    <3> QED  BY <1>1, <2>5, <3>1, <3>2, Zenon DEF Current
  <2> QED  BY <1>3, <2>1, <2>2, <2>3, <2>4, <2>5, OwnSteps, Zenon
<1>4. ASSUME NEW c \in Writers, NEW d \in Conn, ConnAct(d), d # c, Live(c)'  PROVE  Current(c)'
  <2>1. pc'[c] = pc[c] /\ overlay'[c] = overlay[c] /\ dirty'[c] = dirty[c] /\ left'[c] = left[c] /\ wal' = wal
    BY <1>1, <1>4, Bystanders, OthersRead, Zenon
  <2> QED  BY <1>2, <1>4, <2>1, Zenon DEF Live, Appended
<1>5. ASSUME NEW c \in Writers, NEW k \in Ckpt, CkptAct(k), Live(c)'  PROVE  Current(c)'
  <2>1. UNCHANGED <<dirty, overlay, left, wal>> /\ pc'[c] = pc[c]
    BY <1>1, <1>5, CkptMoves, Disjoint, Zenon DEF PcType
  <2> QED  BY <1>2, <1>5, <2>1, Zenon DEF Live, Appended
<1>6. ASSUME NEW c \in Writers, PowerLoss  PROVE  ~ Live(c)'
  BY <1>1, <1>6, Zenon DEF PowerLoss, Live
<1>7. ASSUME NEW c \in Writers, UNCHANGED vars, Live(c)'  PROVE  Current(c)'
  BY <1>2, <1>7, Zenon DEF vars, pager, log, Live, Appended
<1>8. \A c \in Writers : Live(c)' => Current(c)'
  BY <1>3, <1>4, <1>5, <1>6, <1>7, Steps, Zenon
<1> QED  BY <1>8, Zenon DEF CurrentInv

\* A pass copies the first frames of the log.
LEMMA PassInLog ==
  ASSUME LogType, CkptType, CkptInv, NEW k \in Ckpt, pc[k] # "idle"
  PROVE  /\ Prefix(k) \in Seq(Frames) /\ LogPrefix(Prefix(k), wal) /\ Len(Prefix(k)) = bound[k]
         /\ DOMAIN committed_pages(Prefix(k)) \subseteq DOMAIN committed_pages(wal)
<1>1. /\ Prefix(k) \in Seq(Frames) /\ LogPrefix(Prefix(k), seen[k]) /\ seen[k] \in Seq(Frames) /\ wal \in Seq(Frames)
      /\ bound[k] <= Len(seen[k]) => Len(Prefix(k)) = bound[k]
  BY PrefixOf, Zenon DEF CkptType, LogType
<1>2. LogPrefix(seen[k], wal) /\ bound[k] <= Len(seen[k])
  BY Zenon DEF CkptInv
<1>3. LogPrefix(Prefix(k), wal)
  BY <1>1, <1>2, LogPrefixTransitive, Zenon
<1> QED  BY <1>1, <1>2, <1>3, PrefixFacts, Zenon

LEMMA CachedStep == Base /\ CachedInv /\ [Next]_vars => CachedInv'
<1> SUFFICES ASSUME Base, CachedInv, [Next]_vars  PROVE  CachedInv'
  OBVIOUS
<1>1. FileType /\ LogType /\ PcType /\ PagerType /\ CkptType /\ LogInv /\ CkptInv
  BY Zenon DEF Base, TypeOK
<1>2. \A c \in Conn : IsCached(cache[c], committed_pages(wal), main)
  BY Zenon DEF CachedInv
<1>3. ASSUME ~ PowerLoss  PROVE  DOMAIN committed_pages(wal) \subseteq DOMAIN committed_pages(wal')
  BY <1>1, <1>3, LogGrows, PrefixFacts, Zenon DEF LogType
<1>4. ASSUME PowerLoss, NEW c \in Conn  PROVE  DOMAIN cache'[c] = {}
  BY <1>4, WritesFacts, Zenon DEF PowerLoss
<1>5. ASSUME ~ PowerLoss, main' = main, NEW c \in Conn, cache'[c] = cache[c]
      PROVE  IsCached(cache'[c], committed_pages(wal'), main')
  BY <1>2, <1>3, <1>5, Zenon DEF IsCached
<1>6. ASSUME ~ PowerLoss, NEW c \in Conn, ConnAct(c)
      PROVE  IsCached(cache'[c], committed_pages(wal'), main')
  <2>1. c \in DOMAIN cache /\ main' = main
    BY <1>1, <1>6, ConnMoves, Zenon DEF PagerType
  <2>2. ASSUME NEW p \in Pages, FillCache(c, p)  PROVE  IsCached(cache'[c], committed_pages(wal'), main')
    <3>1. cache'[c] = With(cache[c], p, main[p])
      BY <2>1, <2>2, Zenon DEF FillCache
    <3>2. /\ DOMAIN With(cache[c], p, main[p]) = DOMAIN cache[c] \union {p}
          /\ With(cache[c], p, main[p])[p] = main[p]
          /\ \A q \in DOMAIN cache[c] \ {p} : With(cache[c], p, main[p])[q] = cache[c][q]
      BY Zenon DEF With, Overlay
    <3> QED  BY <1>2, <1>3, <1>6, <2>1, <3>1, <3>2, Zenon DEF IsCached
  <2>3. ASSUME NEW p, cache'[c] = Without(cache[c], p)  PROVE  IsCached(cache'[c], committed_pages(wal'), main')
    <3>1. /\ DOMAIN Without(cache[c], p) = DOMAIN cache[c] \ {p}
          /\ \A q \in DOMAIN cache[c] \ {p} : Without(cache[c], p)[q] = cache[c][q]
      BY WithoutFacts, Zenon
    <3> QED  BY <1>2, <1>3, <1>6, <2>1, <2>3, <3>1, Zenon DEF IsCached
  <2>4. CASE Gone(c)
    <3>1. DOMAIN cache'[c] = {}
      BY <2>1, <2>4, WritesFacts, Zenon DEF Gone
    <3> QED  BY <3>1, Zenon DEF IsCached
  <2>5. \/ cache'[c] = cache[c] \/ (\E p : cache'[c] = Without(cache[c], p)) \/ Gone(c) \/ \E p \in Pages : FillCache(c, p)
    BY <1>6, <2>1, Zenon DEF ConnAct, Open, Edit, Commit, ClaimSlot, PublishMark, ReadWal, Close, Kill,
       Mutate, Allocate, Rollback, ClaimWrite, OpenWal, AppendFrame, SyncWal, PublishMx, FoldDirty, pager
  <2> QED  BY <1>5, <1>6, <2>1, <2>2, <2>3, <2>4, <2>5, Zenon
<1>7. ASSUME ~ PowerLoss, NEW c \in Conn, NEW d \in Conn, ConnAct(d), d # c
      PROVE  IsCached(cache'[c], committed_pages(wal'), main')
  BY <1>1, <1>5, <1>7, Bystanders, ConnMoves, Zenon
<1>8. ASSUME ~ PowerLoss, NEW c \in Conn, NEW k \in Ckpt, CkptAct(k)
      PROVE  IsCached(cache'[c], committed_pages(wal'), main')
  <2>1. cache' = cache /\ wal' = wal
    BY <1>8, CkptMoves, Zenon
  <2>2. CASE Backfill(k)
    <3>1. PICK p \in DOMAIN committed_pages(Prefix(k)) : main' = [main EXCEPT ![p] = committed_pages(Prefix(k))[p]]
      BY <1>1, <2>2, BackfillFacts, Zenon
    <3>2. p \in DOMAIN committed_pages(wal)
      BY <1>1, <2>2, <3>1, PassInLog, Zenon DEF Backfill
    <3>3. \A q \in Pages : q # p => main'[q] = main[q]
      BY <1>1, <3>1, Zenon DEF FileType
    <3>4. DOMAIN cache[c] \subseteq Pages
      BY <1>1, WritesFacts, Zenon DEF PagerType, IsWrites
    <3> QED  BY <1>2, <2>1, <3>2, <3>3, <3>4, Zenon DEF IsCached
  <2>3. main' = main \/ Backfill(k)
    BY <1>8, Zenon DEF CkptAct, CkptStep, CkptRead, ProbeSlot, Decide, CkptSync, PublishBackfill, KillCkpt, file
  <2> QED  BY <1>5, <1>8, <2>1, <2>2, <2>3, Zenon
<1>9. ASSUME NEW c \in Conn  PROVE  IsCached(cache'[c], committed_pages(wal'), main')
  <2>1. CASE PowerLoss
    BY <1>4, <2>1, Zenon DEF IsCached
  <2>2. CASE UNCHANGED vars /\ ~ PowerLoss
    BY <1>5, <2>2, Zenon DEF vars, pager, file
  <2> QED  BY <1>6, <1>7, <1>8, <2>1, <2>2, Steps, Zenon
<1> QED  BY <1>9, Zenon DEF CachedInv

LEMMA OverlayAgree ==
  ASSUME NEW f, NEW g, NEW h, DOMAIN f = DOMAIN g, \A p \in DOMAIN f \ DOMAIN h : f[p] = g[p]
  PROVE  Overlay(f, h) = Overlay(g, h)
<1>1. \A p \in DOMAIN f \union DOMAIN h :
        (IF p \in DOMAIN h THEN h[p] ELSE f[p]) = (IF p \in DOMAIN h THEN h[p] ELSE g[p])
  BY Zenon
<1> QED  BY <1>1 DEF Overlay

\* What a checkpoint copies the log has: no reader can tell.
LEMMA SameOverlay ==
  ASSUME FileType, LogType, CkptType, CkptInv, [Next]_vars, ~ PowerLoss, committed_pages(wal') = committed_pages(wal)
  PROVE  Overlay(main', committed_pages(wal')) = Overlay(main, committed_pages(wal))
<1>1. ASSUME NEW k \in Ckpt, Backfill(k)
      PROVE  Overlay(main', committed_pages(wal)) = Overlay(main, committed_pages(wal))
  <2>1. PICK p \in DOMAIN committed_pages(Prefix(k)) : main' = [main EXCEPT ![p] = committed_pages(Prefix(k))[p]]
    BY <1>1, BackfillFacts, Zenon
  <2>2. p \in DOMAIN committed_pages(wal)
    BY <1>1, <2>1, PassInLog, Zenon DEF Backfill
  <2>3. DOMAIN main' = DOMAIN main /\ \A q \in DOMAIN main : q # p => main'[q] = main[q]
    BY <2>1, Zenon
  <2>4. \A q \in DOMAIN main' \ DOMAIN committed_pages(wal) : main'[q] = main[q]
    BY <2>2, <2>3, Zenon
  <2> QED  BY <2>3, <2>4, OverlayAgree, Zenon
<1>2. main' = main \/ \E k \in Ckpt : Backfill(k)
  BY FileWriters, Zenon DEF file, CkptSync
<1> QED  BY <1>1, <1>2, Zenon

LEMMA SizeKept ==
  ASSUME FileType, LogType, CkptType, CkptInv, [Next]_vars, ~ PowerLoss, committed_pages(wal') = committed_pages(wal)
  PROVE  DbSize' = DbSize
<1>1. Overlay(main', committed_pages(wal')) = Overlay(main, committed_pages(wal))
  BY SameOverlay, Zenon
<1> QED  BY <1>1, Zenon DEF DbSize

\* The image of the database, and its size.
LEMMA DbSizeFacts ==
  ASSUME FileType, LogType
  PROVE  /\ committed_pages(wal) \in Writes
         /\ Overlay(main, committed_pages(wal)) \in Writes /\ DOMAIN Overlay(main, committed_pages(wal)) = Pages
         /\ \A p \in DOMAIN committed_pages(wal) : Overlay(main, committed_pages(wal))[p] = committed_pages(wal)[p]
         /\ \A p \in Pages \ DOMAIN committed_pages(wal) : Overlay(main, committed_pages(wal))[p] = main[p]
         /\ DbSize \in Counts
<1>1. committed_pages(wal) \in Writes
  BY CommittedPages, WritesFacts, Zenon DEF LogType
<1>2. main \in Writes /\ DOMAIN main = Pages
  BY MainWrites, Zenon
<1>3. /\ Overlay(main, committed_pages(wal)) \in Writes /\ DOMAIN Overlay(main, committed_pages(wal)) = Pages
      /\ \A p \in DOMAIN committed_pages(wal) : Overlay(main, committed_pages(wal))[p] = committed_pages(wal)[p]
      /\ \A p \in Pages \ DOMAIN committed_pages(wal) : Overlay(main, committed_pages(wal))[p] = main[p]
  BY <1>1, <1>2, WholeOverlay, Zenon
<1>4. DbSize \in Counts
  BY <1>3, PageOne, WritesFacts, Zenon DEF DbSize, IsWrites, IsValue
<1> QED  BY <1>1, <1>3, <1>4, Zenon

\* The size that a writer reads before it commits.
LEMMA WriterReads ==
  ASSUME FileType, LogType, PagerType, CachedInv, CurrentInv, NEW c \in Writers, Live(c), ~ Appended(c)
  PROVE  ReadPage(c, 1) = Sized(dirty[c], DbSize)
<1>1. c \in Conn /\ overlay[c] = committed_pages(wal) /\ cache[c] \in Writes /\ overlay[c] \in Writes
  BY WalAssumption, Zenon DEF CurrentInv, Current, PagerType
<1>2. /\ 1 \in DOMAIN dirty[c] => ReadPage(c, 1) = dirty[c][1]
      /\ 1 \notin DOMAIN dirty[c] => ReadPage(c, 1) = Overlay(Overlay(main, cache[c]), overlay[c])[1]
  BY <1>1, ReadPageFacts, PageOne, Zenon
<1>3. main \in Writes /\ DOMAIN main = Pages
  BY MainWrites, Zenon
<1> DEFINE m == Overlay(main, cache[c])
<1>4. /\ m \in Writes /\ DOMAIN m = Pages
      /\ \A p \in DOMAIN cache[c] : m[p] = cache[c][p]
      /\ \A p \in Pages \ DOMAIN cache[c] : m[p] = main[p]
  BY <1>1, <1>3, WholeOverlay, Zenon
<1>5. \A p \in Pages \ DOMAIN overlay[c] : m[p] = main[p]
  BY <1>1, <1>4, Zenon DEF CachedInv, IsCached
<1> HIDE DEF m
<1>6. Overlay(m, overlay[c]) = Overlay(main, overlay[c])
  <2>1. DOMAIN m = DOMAIN main /\ \A p \in DOMAIN m \ DOMAIN overlay[c] : m[p] = main[p]
    BY <1>3, <1>4, <1>5, Zenon
  <2> QED  BY <2>1, OverlayAgree, Zenon
<1> QED  BY <1>1, <1>2, <1>6, Zenon DEF Sized, DbSize, m

\* get_page_mut and allocate_page keep the shape.
LEMMA ShapeMutate ==
  ASSUME NEW d, NEW n, NEW p, NEW v, IsShape(d, n), p # 1, p <= Sized(d, n)
  PROVE  IsShape(With(d, p, v), n)
<1>1. /\ DOMAIN With(d, p, v) = DOMAIN d \union {p}
      /\ \A q \in DOMAIN d \ {p} : With(d, p, v)[q] = d[q]
  BY Zenon DEF With, Overlay
<1>2. /\ 1 \in DOMAIN With(d, p, v) <=> 1 \in DOMAIN d
      /\ 1 \in DOMAIN d => With(d, p, v)[1] = d[1]
  BY <1>1, Zenon
<1> QED  BY <1>1, <1>2, Zenon DEF IsShape, Sized

LEMMA ShapeAllocate ==
  ASSUME NEW d \in Writes, NEW n \in Nat, NEW m \in Nat, IsShape(d, n), m = Sized(d, n) + 1, m # 1
  PROVE  IsShape(With(With(d, m, 0), 1, m), n)
<1> DEFINE e == With(With(d, m, 0), 1, m)
<1>1. DOMAIN e = DOMAIN d \union {m, 1} /\ e[1] = m
  BY Zenon DEF With, Overlay
<1>2. DOMAIN d \subseteq Nat /\ (1 \in DOMAIN d => d[1] \in Nat)
  BY WritesFacts, PageOne, Zenon DEF IsWrites, IsValue
<1> HIDE DEF e
<1>3. PICK s \in Nat : s = Sized(d, n) /\ m = s + 1
  BY <1>2, Zenon DEF Sized
<1>4. Sized(e, n) = m
  BY <1>1, Zenon DEF Sized
<1>5. \A p \in DOMAIN e : p <= m
  BY <1>1, <1>2, <1>3 DEF IsShape
<1>6. n <= m /\ \A p \in n + 1 .. m : p \in DOMAIN e
  <2>1. n <= s /\ \A p \in n + 1 .. s : p \in DOMAIN d
    BY <1>2, <1>3 DEF IsShape, Sized
  <2> QED  BY <1>1, <1>3, <2>1
<1>7. IsShape(e, n)
  BY <1>1, <1>4, <1>5, <1>6, Zenon DEF IsShape
<1> QED  BY <1>7, Zenon DEF e

LEMMA ShapeStep ==
  Base /\ TailInv /\ WriterInv /\ OneWriter /\ Synchronous = "Full" /\ [Next]_vars => ShapeInv'
<1> SUFFICES ASSUME Base, TailInv, WriterInv, OneWriter, Synchronous = "Full", [Next]_vars  PROVE  ShapeInv'
  OBVIOUS
<1>1. /\ FileType /\ LogType /\ PcType /\ PagerType /\ CkptType /\ LogInv /\ CkptInv
      /\ BareInv /\ CachedInv /\ CurrentInv /\ Writers \subseteq Conn
  BY WalAssumption, Zenon DEF Base, TypeOK, WriterInv
<1>2. \A c \in Writers : Live(c) /\ ~ Appended(c) => IsShape(dirty[c], DbSize)
  BY Zenon DEF WriterInv, ShapeInv
<1>3. ASSUME NEW d, DOMAIN d = {}, NEW n  PROVE  IsShape(d, n)
  BY <1>3, Zenon DEF IsShape
<1>4. ASSUME ~ PowerLoss, committed_pages(wal') = committed_pages(wal)  PROVE  DbSize' = DbSize
  BY <1>1, <1>4, SizeKept, Zenon
<1>5. ASSUME ~ PowerLoss, NEW c \in Writers, Live(c), ~ Appended(c), dirty'[c] = dirty[c],
             committed_pages(wal') = committed_pages(wal)
      PROVE  IsShape(dirty'[c], DbSize')
  BY <1>2, <1>4, <1>5, Zenon
<1>6. ASSUME ~ PowerLoss, NEW c \in Writers, ConnAct(c), Live(c)', ~ Appended(c)'  PROVE  IsShape(dirty'[c], DbSize')
  <2>1. c \in Conn /\ c \in DOMAIN dirty /\ c \in DOMAIN pc /\ dirty[c] \in Writes
    BY <1>1, Zenon DEF PagerType, PcType
  <2>2. CASE ~ Live(c) /\ dirty'[c] = dirty[c]
    BY <1>1, <1>3, <2>1, <2>2, Zenon DEF BareInv
  <2>3. CASE Live(c) /\ ~ Appended(c) /\ wal' = wal /\ Edit(c)
    <3>1. IsShape(dirty[c], DbSize) /\ DbSize' = DbSize /\ ReadPage(c, 1) = Sized(dirty[c], DbSize)
      BY <1>1, <1>2, <1>4, <1>6, <2>3, WriterReads, Zenon
    <3>2. ASSUME NEW p \in Pages, NEW v \in Val, Mutate(c, p, v)  PROVE  IsShape(dirty'[c], DbSize')
      <4>1. p # 1 /\ dirty'[c] = With(dirty[c], p, v)
        BY <1>1, <2>1, <3>2, MutateFacts, Zenon DEF Mutate
      <4>2. p <= ReadPage(c, 1)
        <5>1. p \in 2 .. ReadPage(c, 1) /\ ReadPage(c, 1) \in Nat
          BY <1>1, <2>1, <3>2, ReadPageFacts, PageOne, Zenon DEF Mutate
        <5> QED  BY <5>1
      <4> QED  BY <3>1, <4>1, <4>2, ShapeMutate, Zenon
    <3>3. CASE Allocate(c)
      <4>1. PICK n \in Pages : n = ReadPage(c, 1) + 1 /\ n # 1 /\ dirty' = [dirty EXCEPT ![c] = With(With(@, n, 0), 1, n)]
        BY <1>1, <2>1, <3>3, AllocateFacts, Zenon
      <4>2. n \in Nat /\ DbSize \in Nat /\ dirty'[c] = With(With(dirty[c], n, 0), 1, n)
        BY <1>1, <2>1, <4>1, DbSizeFacts, PageOne, Zenon
      <4> QED  BY <2>1, <3>1, <4>1, <4>2, ShapeAllocate, Zenon
    <3>4. CASE Rollback(c)
      <4>1. DOMAIN dirty'[c] = {}
        BY <2>1, <3>4, WritesFacts, Zenon DEF Rollback
      <4> QED  BY <1>3, <4>1, Zenon
    <3>5. ASSUME NEW p \in Pages, FillCache(c, p)  PROVE  IsShape(dirty'[c], DbSize')
      BY <3>1, <3>5, Zenon DEF FillCache
    <3> QED  BY <2>3, <3>2, <3>3, <3>4, <3>5, Zenon DEF Edit
  <2>4. CASE Live(c) /\ (Appended(c)' <=> Appended(c)) /\ wal' = wal /\ dirty'[c] = dirty[c]
    BY <1>5, <1>6, <2>4, Zenon
  <2>5. CASE Live(c) /\ AppendFrame(c)
    <3>1. Writing(c) /\ TailOf(c) /\ ~ Appended(c) /\ pc'[c] = "append" /\ dirty'[c] = dirty[c]
      BY <2>1, <2>5, Zenon DEF AppendFrame, Writing, TailInv, Appended
    <3>2. left'[c] # {}
      BY <1>6, <3>1, Zenon DEF Appended
    <3>3. committed_pages(wal') = committed_pages(wal)
      BY <1>1, <2>1, <2>5, <3>1, <3>2, CommitPages, Zenon
    <3> QED  BY <1>5, <1>6, <2>5, <3>1, <3>3, Zenon
  <2>6. CASE FoldDirty(c)
    <3>1. DOMAIN dirty'[c] = {}
      BY <2>1, <2>6, WritesFacts, Zenon DEF FoldDirty
    <3> QED  BY <1>3, <3>1, Zenon
  <2> QED  BY <1>6, <2>1, <2>2, <2>3, <2>4, <2>5, <2>6, OwnSteps, Zenon
<1>7. ASSUME ~ PowerLoss, NEW c \in Writers, NEW d \in Conn, ConnAct(d), d # c, Live(c)', ~ Appended(c)'
      PROVE  IsShape(dirty'[c], DbSize')
  <2>1. pc'[c] = pc[c] /\ dirty'[c] = dirty[c] /\ left'[c] = left[c] /\ wal' = wal
    BY <1>1, <1>7, Bystanders, OthersRead, Zenon
  <2> QED  BY <1>5, <1>7, <2>1, Zenon DEF Live, Appended
<1>8. ASSUME ~ PowerLoss, NEW c \in Writers, NEW k \in Ckpt, CkptAct(k), Live(c)', ~ Appended(c)'
      PROVE  IsShape(dirty'[c], DbSize')
  <2>1. UNCHANGED <<dirty, left, wal>> /\ pc'[c] = pc[c]
    BY <1>1, <1>8, CkptMoves, Disjoint, Zenon DEF PcType
  <2> QED  BY <1>5, <1>8, <2>1, Zenon DEF Live, Appended
<1>9. ASSUME NEW c \in Writers, PowerLoss  PROVE  ~ Live(c)'
  BY <1>1, <1>9, Zenon DEF PowerLoss, Live
<1>10. ASSUME ~ PowerLoss, NEW c \in Writers, UNCHANGED vars, Live(c)', ~ Appended(c)'  PROVE  IsShape(dirty'[c], DbSize')
  BY <1>5, <1>10, Zenon DEF vars, pager, log, Live, Appended
<1>11. \A c \in Writers : Live(c)' /\ ~ Appended(c)' => IsShape(dirty'[c], DbSize')
  BY <1>6, <1>7, <1>8, <1>9, <1>10, Steps, Zenon
<1> QED  BY <1>11, Zenon DEF ShapeInv

LEMMA WriterInvStep ==
  Base /\ TailInv /\ WriterInv /\ OneWriter /\ Synchronous = "Full" /\ [Next]_vars => WriterInv'
BY BareStep, CurrentStep, CachedStep, ShapeStep, Zenon DEF WriterInv

LEMMA WriterInvInit == Init => WriterInv
<1> SUFFICES ASSUME Init  PROVE  WriterInv
  OBVIOUS
<1>1. \A c \in Conn : ~ Live(c) /\ DOMAIN dirty[c] = {} /\ DOMAIN cache[c] = {}
  BY WritesFacts, Zenon DEF Init, Live
<1> QED  BY <1>1, WalAssumption, Zenon DEF WriterInv, BareInv, CurrentInv, CachedInv, IsCached, ShapeInv

\* A flush that writes is the writer's.
LEMMA WriterFlushes ==
  ASSUME LogInv, BareInv, NEW c \in Conn, AppendFrame(c)
  PROVE  c \in Writers /\ Live(c) /\ ~ Appended(c) /\ Writing(c)
<1>1. pc[c] = "append" /\ left[c] # {}
  BY Zenon DEF AppendFrame
<1> QED  BY <1>1, Zenon DEF LogInv, BareInv, Flushing, Live, Appended, Writing

\* The last frame of a transaction has the size of the database it makes.
LEMMA LastSize ==
  ASSUME FileType, LogType, PagerType, LogInv, CachedInv, CurrentInv, BareInv,
         NEW c \in Conn, AppendFrame(c), TailOf(c), left'[c] = {}
  PROVE  wal'[Len(wal) + 1].db_size = Sized(dirty[c], DbSize) /\ DbSize' = Sized(dirty[c], DbSize)
<1>1. c \in Writers /\ Live(c) /\ ~ Appended(c)
  BY WriterFlushes, Zenon
<1>2. PICK p \in left[c] : left'[c] = left[c] \ {p} /\ wal'[Len(wal) + 1].db_size = CommitSize(c, p)
  BY NextFrame, Zenon
<1>3. left[c] = {p}
  BY <1>2, Zenon
<1>4. wal'[Len(wal) + 1].db_size = Sized(dirty[c], DbSize)
  BY <1>1, <1>2, <1>3, WriterReads, Zenon DEF CommitSize
<1>5. committed_pages(wal') = Overlay(committed_pages(wal), dirty[c]) /\ main' = main
  BY CommitPages, Zenon DEF AppendFrame, file
<1>6. DbSize' = Overlay(main, Overlay(committed_pages(wal), dirty[c]))[1]
  BY <1>5, Zenon DEF DbSize
<1>7. 1 \in DOMAIN main
  BY PageOne, Zenon DEF FileType
<1>8. DbSize' = Sized(dirty[c], DbSize)
  BY <1>6, <1>7, Zenon DEF Overlay, DbSize, Sized
<1> QED  BY <1>4, <1>8, Zenon

\* Every committed page is a page of the database, at each commit.
SizeInv ==
  /\ \A i \in 1 .. CommittedLen(wal) : wal[i].page <= DbSize
  /\ \A j \in 1 .. Len(wal) : wal[j].db_size > 0 => \A i \in 1 .. j : wal[i].page <= wal[j].db_size

LEMMA SizeStep == Base /\ TailInv /\ WriterInv /\ SizeInv /\ ~ PowerLoss /\ [Next]_vars => SizeInv'
<1> SUFFICES ASSUME Base, TailInv, WriterInv, SizeInv, ~ PowerLoss, [Next]_vars  PROVE  SizeInv'
  OBVIOUS
<1>1. /\ FileType /\ LogType /\ PcType /\ PagerType /\ CkptType /\ LogInv /\ CkptInv
      /\ BareInv /\ CachedInv /\ CurrentInv /\ ShapeInv
  BY Zenon DEF Base, TypeOK, WriterInv
<1>2. CASE wal' = wal
  <2>1. DbSize' = DbSize
    BY <1>1, <1>2, SizeKept, Zenon
  <2> QED  BY <1>2, <2>1, Zenon DEF SizeInv
<1>3. ASSUME NEW c \in Conn, AppendFrame(c)  PROVE  SizeInv'
  <2>1. c \in Writers /\ Live(c) /\ ~ Appended(c) /\ TailOf(c)
    BY <1>1, <1>3, WriterFlushes, Zenon DEF TailInv
  <2>2. PICK m \in Nat, n \in Nat : m = Len(wal) /\ n = CommittedLen(wal) /\ n <= m
    BY <1>1, CommittedLenFacts DEF LogType
  <2>3. PICK p \in left[c] :
          /\ left'[c] = left[c] \ {p} /\ Len(wal') = m + 1 /\ \A i \in 1 .. m : wal'[i] = wal[i]
          /\ wal'[m + 1].page = p /\ wal'[m + 1].db_size = CommitSize(c, p) /\ p \in DOMAIN dirty[c]
    BY <1>1, <1>3, <2>2, NextFrame, Zenon
  <2>4. /\ \A i \in 1 .. n : wal[i].page <= DbSize
        /\ \A j \in 1 .. m : wal[j].db_size > 0 => \A i \in 1 .. j : wal[i].page <= wal[j].db_size
    BY <2>2, Zenon DEF SizeInv
  <2>5. \A j \in 1 .. m : wal'[j].db_size > 0 => \A i \in 1 .. j : wal'[i].page <= wal'[j].db_size
    <3>1. \A j \in 1 .. m : \A i \in 1 .. j : i \in 1 .. m
      OBVIOUS
    <3> QED  BY <2>3, <2>4, <3>1, Zenon
  <2>6. CASE left'[c] # {}
    <3>1. committed_pages(wal') = committed_pages(wal) /\ CommittedLen(wal') = n
      BY <1>1, <1>3, <2>1, <2>2, <2>6, CommitPages, LastFrameCommits, Zenon
    <3>2. DbSize' = DbSize
      BY <1>1, <3>1, SizeKept, Zenon
    <3>3. left[c] # {p}
      BY <2>3, <2>6, Zenon
    <3>4. wal'[m + 1].db_size = 0
      BY <2>3, <3>3, Zenon DEF CommitSize
    <3>5. \A i \in 1 .. n : i \in 1 .. m
      BY <2>2
    <3>6. \A i \in 1 .. n : wal'[i].page <= DbSize
      BY <2>3, <2>4, <3>5, Zenon
    <3>7. \A j \in 1 .. m + 1 : wal'[j].db_size > 0 => j \in 1 .. m
      BY <3>4
    <3> QED  BY <2>3, <2>5, <3>1, <3>2, <3>6, <3>7, Zenon DEF SizeInv
  <2>7. CASE left'[c] = {}
    <3> DEFINE s == Sized(dirty[c], DbSize)
    <3>1. wal'[m + 1].db_size = s /\ DbSize' = s /\ CommittedLen(wal') = m + 1
      BY <1>1, <1>3, <2>1, <2>2, <2>3, <2>7, LastSize, LastFrameCommits, Zenon
    <3>2. s \in Nat /\ DbSize \in Nat /\ DbSize <= s /\ \A q \in DOMAIN dirty[c] : q <= s
      <4>1. DbSize \in Nat /\ (1 \in DOMAIN dirty[c] => dirty[c][1] \in Nat) /\ IsShape(dirty[c], DbSize)
        BY <1>1, <1>3, <2>1, DbSizeFacts, PageOne, WritesFacts, Zenon DEF PagerType, IsWrites, IsValue, ShapeInv
      <4>2. DbSize <= s
        BY <4>1 DEF IsShape, Sized
      <4> QED  BY <4>1, <4>2, Zenon DEF IsShape, Sized
    <3> HIDE DEF s
    <3>3. ASSUME NEW i \in 1 .. m + 1  PROVE  wal'[i].page <= s
      <4>1. CASE i = m + 1
        BY <2>3, <3>2, <4>1, Zenon
      <4>2. CASE i \in n + 1 .. m
        <5>1. i \in 1 .. m /\ i \in CommittedLen(wal) + 1 .. Len(wal)
          BY <2>2, <4>2
        <5>2. wal'[i] = wal[i] /\ wal[i].page \in DOMAIN dirty[c]
          BY <2>1, <2>3, <5>1, Zenon DEF TailOf, IsTail
        <5> QED  BY <3>2, <5>2, Zenon
      <4>3. CASE i \in 1 .. n
        <5>1. i \in 1 .. m
          BY <2>2, <4>3
        <5>2. wal'[i] = wal[i] /\ wal[i].page <= DbSize
          BY <2>3, <2>4, <4>3, <5>1, Zenon
        <5>3. wal[i].page \in Nat
          <6>1. wal[i] \in Frames
            BY <1>1, <2>2, <5>1 DEF LogType
          <6> QED  BY <6>1, PageOne, Zenon DEF Frames
        <5> QED  BY <3>2, <5>2, <5>3
      <4> QED  BY <2>2, <4>1, <4>2, <4>3
    <3>4. \A j \in 1 .. m + 1 : j = m + 1 \/ j \in 1 .. m
      BY <2>2
    <3> QED  BY <2>3, <2>5, <3>1, <3>3, <3>4, Zenon DEF SizeInv
  <2> QED  BY <2>6, <2>7, Zenon
<1> QED  BY <1>2, <1>3, LogWriters, Zenon DEF log, SyncWal

=============================================================================
