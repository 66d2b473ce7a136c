--------------------------- MODULE FileLockProofs ---------------------------
(* Proofs about FileLock, for any set of processes.                        *)
EXTENDS FileLock, TLAPS

\* What the ladder's levels stand for, range by range.
LEMMA LocksOfLevel ==
  ASSUME NEW l \in Levels
  PROVE  /\ LocksOf(l) \in [Ranges -> Kinds]
         /\ LocksOf(l)["SHARED"] = IF l = 4 THEN "wr"
                                   ELSE IF l >= 1 THEN "rd" ELSE "none"
         /\ LocksOf(l)["RESERVED"] = IF l >= 2 THEN "wr" ELSE "none"
         /\ LocksOf(l)["PENDING"] = IF l >= 3 THEN "wr" ELSE "none"
  BY DEF LocksOf, Ranges, Kinds, Levels, Unlocked, Shared, Reserved, Pending,
         Exclusive

\* Every step keeps the types.
LEMMA TypeStep == TypeOK /\ [Next]_vars => TypeOK'
<1> SUFFICES ASSUME TypeOK, [Next]_vars PROVE TypeOK'
  OBVIOUS
<1> USE DEF TypeOK, Ranges, Kinds, Levels, Unlocked, Shared, Reserved,
            Pending, Exclusive, fcntl_lock
<1>1. ASSUME NEW p \in Proc, NEW t \in Levels, SetLevel(p, t) PROVE TypeOK'
  BY <1>1 DEF SetLevel
<1>2. ASSUME NEW p \in Proc, Return(p) PROVE TypeOK'
  BY <1>2 DEF Return
<1>3. ASSUME NEW p \in Proc, ProbePending(p) PROVE TypeOK'
  BY <1>3 DEF ProbePending
<1>4. ASSUME NEW p \in Proc, UnlockProbe(p) PROVE TypeOK'
  BY <1>4 DEF UnlockProbe
<1>5. ASSUME NEW p \in Proc, TakeShared(p) PROVE TypeOK'
  BY <1>5 DEF TakeShared
<1>6. ASSUME NEW p \in Proc, StepUp(p) PROVE TypeOK'
  <2>1. UpRange(level[p]) \in Ranges
    BY <1>6 DEF StepUp, UpRange
  <2> QED BY <1>6, <2>1 DEF StepUp
<1>7. ASSUME NEW p \in Proc, StepDown(p) PROVE TypeOK'
  <2>1. held' \in [Proc -> [Ranges -> Kinds]]
    BY <1>7 DEF StepDown, UpRange, DownKind
  <2> QED BY <1>7, <2>1 DEF StepDown
<1>8. ASSUME NEW p \in Proc, Contended(p) PROVE TypeOK'
  BY <1>8 DEF Contended
<1>9. ASSUME NEW p \in Proc, Exit(p) PROVE TypeOK'
  BY <1>9 DEF Exit
<1>10. CASE UNCHANGED vars
  BY <1>10 DEF vars
<1> QED
  BY <1>1, <1>2, <1>3, <1>4, <1>5, <1>6, <1>7, <1>8, <1>9, <1>10 DEF Next, Step

\* Every step keeps what the kernel holds in line with the ladder.
LEMMA LockStep == TypeOK /\ LockInv /\ [Next]_vars => LockInv'
<1> SUFFICES ASSUME TypeOK, LockInv, [Next]_vars PROVE LockInv'
  OBVIOUS
<1> USE DEF TypeOK, Ranges, Kinds, Levels, Unlocked, Shared, Reserved,
            Pending, Exclusive
<1>0. TypeOK'
  BY TypeStep
<1>1. ASSUME NEW p \in Proc, NEW t \in Levels, SetLevel(p, t) PROVE LockInv'
  BY <1>1 DEF SetLevel, LockInv
<1>2. ASSUME NEW p \in Proc, Return(p) PROVE LockInv'
  BY <1>2 DEF Return, LockInv
<1>3. ASSUME NEW p \in Proc, ProbePending(p) PROVE LockInv'
  <2>1. LocksOf(0)["PENDING"] = "none"
    BY LocksOfLevel
  <2> QED BY <1>3, <2>1 DEF ProbePending, fcntl_lock, Grants, LockInv
<1>4. ASSUME NEW p \in Proc, UnlockProbe(p) PROVE LockInv'
  <2>1. LocksOf(0)["PENDING"] = "none"
    BY LocksOfLevel
  <2> QED BY <1>4, <2>1 DEF UnlockProbe, LockInv
<1>5. ASSUME NEW p \in Proc, TakeShared(p) PROVE LockInv'
  <2>1. \A r \in Ranges \ {"SHARED"} : LocksOf(1)[r] = LocksOf(0)[r]
    BY LocksOfLevel
  <2>2. LocksOf(1)["SHARED"] = "rd"
    BY LocksOfLevel
  <2> QED BY <1>5, <2>1, <2>2 DEF TakeShared, fcntl_lock, Grants, LockInv
<1>6. ASSUME NEW p \in Proc, StepUp(p) PROVE LockInv'
  <2> DEFINE l == level[p]
  <2>1. l \in 1 .. 3 /\ l + 1 \in Levels
    BY <1>6 DEF StepUp
  <2>2. UpRange(l) \in Ranges /\ LocksOf(l + 1)[UpRange(l)] = "wr"
    BY <2>1, LocksOfLevel DEF UpRange
  <2>3. \A r \in Ranges \ {UpRange(l)} : LocksOf(l + 1)[r] = LocksOf(l)[r]
    BY <2>1, LocksOfLevel DEF UpRange
  <2> QED BY <1>6, <2>1, <2>2, <2>3 DEF StepUp, fcntl_lock, Grants, LockInv
<1>7. ASSUME NEW p \in Proc, StepDown(p) PROVE LockInv'
  <2> DEFINE l == level[p]
             r0 == IF l = Shared THEN "SHARED" ELSE UpRange(l - 1)
  <2>1. l \in 1 .. 4 /\ l - 1 \in Levels
    BY <1>7 DEF StepDown
  <2>2. r0 \in Ranges /\ LocksOf(l - 1)[r0] = DownKind(l)
    BY <2>1, LocksOfLevel DEF UpRange, DownKind
  <2>3. \A r \in Ranges \ {r0} : LocksOf(l - 1)[r] = LocksOf(l)[r]
    BY <2>1, LocksOfLevel DEF UpRange
  <2>4. DownKind(l) # "wr" /\ (DownKind(l) = "none" \/ held[p][r0] = "wr")
    BY <1>7, <2>1, LocksOfLevel DEF StepDown, DownKind, UpRange, LockInv
  <2>5. held' = [held EXCEPT ![p][r0] = DownKind(l)]
    BY <1>7 DEF StepDown
  <2> HIDE DEF r0
  <2> QED BY <1>7, <2>1, <2>2, <2>3, <2>4, <2>5 DEF StepDown, LockInv
<1>8. ASSUME NEW p \in Proc, Contended(p) PROVE LockInv'
  BY <1>8 DEF Contended, LockInv
<1>9. ASSUME NEW p \in Proc, Exit(p) PROVE LockInv'
  <2>1. \A r \in Ranges : LocksOf(0)[r] = "none"
    BY LocksOfLevel
  <2> QED BY <1>9, <2>1 DEF Exit, LockInv
<1>10. CASE UNCHANGED vars
  BY <1>10 DEF vars, LockInv
<1> QED
  BY <1>1, <1>2, <1>3, <1>4, <1>5, <1>6, <1>7, <1>8, <1>9, <1>10 DEF Next, Step

\* The ladder starts with nothing held.
LEMMA LockInit == Init => TypeOK /\ LockInv
  BY LocksOfLevel
  DEF Init, TypeOK, LockInv, Ranges, Kinds, Levels, Unlocked, Shared, Reserved,
      Pending, Exclusive

\* The types and the inductive invariant hold for ever.
THEOREM LockInvariant == Spec => [](TypeOK /\ LockInv)
<1>1. TypeOK /\ LockInv /\ [Next]_vars => TypeOK' /\ LockInv'
  BY TypeStep, LockStep
<1> QED
  BY LockInit, <1>1, PTL DEF Spec

\* The recorded level is always the one the kernel holds.
LEMMA LockInvBacks == TypeOK /\ LockInv => LockStateBacked
<1> SUFFICES ASSUME TypeOK, LockInv, NEW p \in Proc, sub[p] \in {"idle", "loop"}
             PROVE  held[p] = LocksOf(level[p])
  BY DEF LockStateBacked
<1>1. /\ held[p] \in [Ranges -> Kinds]
      /\ LocksOf(level[p]) \in [Ranges -> Kinds]
  BY LocksOfLevel DEF TypeOK
<1>2. \A r \in Ranges : held[p][r] = LocksOf(level[p])[r]
  BY DEF LockInv
<1> QED BY <1>1, <1>2

\* For any number of processes and any interleaving of their fcntl calls, the
\* kernel holds exactly the locks of the level FileLockState records.
THEOREM LockAlwaysBacked == Spec => []LockStateBacked
  BY LockInvariant, LockInvBacks, PTL

\* One EXCLUSIVE holder leaves the other connections no lock at all.
LEMMA LockInvExcludes == TypeOK /\ LockInv => ExclusiveIsAlone
<1> SUFFICES ASSUME TypeOK, LockInv, NEW p \in Proc, NEW q \in Proc, p # q
             PROVE  /\ level[p] = Exclusive => level[q] = Unlocked
                    /\ level[p] >= Reserved => level[q] < Reserved
  BY DEF ExclusiveIsAlone
<1>1. level[p] \in Levels /\ level[q] \in Levels
  BY DEF TypeOK
<1>2. /\ held[p]["SHARED"] = LocksOf(level[p])["SHARED"]
      /\ held[q]["SHARED"] = LocksOf(level[q])["SHARED"]
      /\ held[p]["RESERVED"] = LocksOf(level[p])["RESERVED"]
      /\ held[q]["RESERVED"] = LocksOf(level[q])["RESERVED"]
  BY DEF LockInv, Ranges
<1>3. /\ held[p]["SHARED"] = "wr" => held[q]["SHARED"] = "none"
      /\ held[p]["RESERVED"] = "wr" => held[q]["RESERVED"] = "none"
  BY DEF LockInv, Ranges
<1> QED
  BY <1>1, <1>2, <1>3, LocksOfLevel
  DEF Levels, Unlocked, Shared, Reserved, Pending, Exclusive

\* Mutual exclusion of the ladder: an Exclusive holder is alone and at most
\* one process is past Shared.
THEOREM LadderExcludes == Spec => []ExclusiveIsAlone
  BY LockInvariant, LockInvExcludes, PTL

-----------------------------------------------------------------------------
\* Every fcntl step is a step of the abstract ladder or leaves it unchanged.
LEMMA LadderStep ==
  TypeOK /\ LockInv /\ TypeOK' /\ LockInv' /\ [Next]_vars
    => [Ladder!Next]_level
<1> SUFFICES ASSUME TypeOK, LockInv, TypeOK', LockInv', [Next]_vars
             PROVE  [Ladder!Next]_level
  OBVIOUS
<1> USE DEF Levels, Unlocked, Shared, Reserved, Pending, Exclusive,
            Ladder!Unlocked, Ladder!Shared, Ladder!Reserved, Ladder!Pending,
            Ladder!Exclusive
<1>0. \A p \in Proc : level[p] \in Levels /\ level'[p] \in Levels
  BY DEF TypeOK
<1>a. ExclusiveIsAlone'
  <2>1. (TypeOK /\ LockInv => ExclusiveIsAlone)'
    BY LockInvExcludes, PTL
  <2> QED BY <2>1
<1>1. ASSUME NEW p \in Proc, NEW t \in Levels, SetLevel(p, t)
      PROVE  UNCHANGED level
  BY <1>1 DEF SetLevel
<1>2. ASSUME NEW p \in Proc, Return(p) PROVE UNCHANGED level
  BY <1>2 DEF Return
<1>3. ASSUME NEW p \in Proc, ProbePending(p) PROVE UNCHANGED level
  BY <1>3 DEF ProbePending
<1>4. ASSUME NEW p \in Proc, UnlockProbe(p) PROVE UNCHANGED level
  BY <1>4 DEF UnlockProbe
<1>5. ASSUME NEW p \in Proc, TakeShared(p) PROVE Ladder!Next
  <2>1. level[p] = 0 /\ level' = [level EXCEPT ![p] = 1]
    BY <1>5 DEF TakeShared, LockInv
  <2>2. \A q \in Proc \ {p} : level[q] # 4
    BY <2>1, <1>0, <1>a DEF ExclusiveIsAlone, TypeOK
  <2>3. Ladder!AcquireShared(p)
    BY <2>1, <2>2 DEF Ladder!AcquireShared
  <2> QED BY <2>3 DEF Ladder!Next
<1>6. ASSUME NEW p \in Proc, StepUp(p) PROVE Ladder!Next
  <2>1. /\ level[p] \in 1 .. 3
        /\ level' = [level EXCEPT ![p] = level[p] + 1]
    BY <1>6 DEF StepUp
  <2>2. CASE level[p] = 1
    <3>1. \A q \in Proc \ {p} : level[q] < 2
      BY <2>1, <2>2, <1>0, <1>a DEF ExclusiveIsAlone, TypeOK
    <3>2. Ladder!AcquireReserved(p)
      BY <2>1, <2>2, <3>1 DEF Ladder!AcquireReserved
    <3> QED BY <3>2 DEF Ladder!Next
  <2>3. CASE level[p] = 2
    <3>1. Ladder!AcquirePending(p)
      BY <2>1, <2>3 DEF Ladder!AcquirePending
    <3> QED BY <3>1 DEF Ladder!Next
  <2>4. CASE level[p] = 3
    <3>1. \A q \in Proc \ {p} : level[q] = 0
      BY <2>1, <2>4, <1>0, <1>a DEF ExclusiveIsAlone, TypeOK
    <3>2. Ladder!AcquireExclusive(p)
      BY <2>1, <2>4, <3>1 DEF Ladder!AcquireExclusive
    <3> QED BY <3>2 DEF Ladder!Next
  <2> QED BY <2>1, <2>2, <2>3, <2>4
<1>7. ASSUME NEW p \in Proc, StepDown(p) PROVE Ladder!Next
  <2>1. Ladder!Release(p)
    BY <1>7, <1>0 DEF StepDown, Ladder!Release, TypeOK
  <2> QED BY <2>1 DEF Ladder!Next
<1>8. ASSUME NEW p \in Proc, Contended(p) PROVE UNCHANGED level
  BY <1>8 DEF Contended
<1>9. ASSUME NEW p \in Proc, Exit(p) PROVE Ladder!Next
  <2>1. Ladder!Exit(p)
    BY <1>9 DEF Exit, Ladder!Exit
  <2> QED BY <2>1 DEF Ladder!Next
<1>10. CASE UNCHANGED vars
  BY <1>10 DEF vars
<1> QED
  BY <1>1, <1>2, <1>3, <1>4, <1>5, <1>6, <1>7, <1>8, <1>9, <1>10 DEF Next, Step

\* FileLock implements LockLadder: every interleaving of the fcntl calls is,
\* level by level, a behaviour of the abstract ladder.
THEOREM LadderRefined == Spec => ImplementsLadder
<1>1. Init => Ladder!Init
  BY DEF Init, Ladder!Init, Unlocked, Ladder!Unlocked
<1> QED
  BY <1>1, LadderStep, LockInvariant, PTL
  DEF Spec, ImplementsLadder, Ladder!Spec

=============================================================================
