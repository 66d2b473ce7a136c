----------------------------- MODULE LockLadder -----------------------------
(***************************************************************************)
(* What SQLite's journal-mode lock ladder promises to the processes that   *)
(* open one database file: an abstract specification with one level per    *)
(* process and no byte ranges.  FileLock (the fcntl calls of               *)
(* src/vfs/lock.rs) is shown to implement it.                              *)
(***************************************************************************)
EXTENDS Naturals

CONSTANT Proc            \* processes that opened the database file

\* LockLevel, ordered as the derived PartialOrd of src/vfs/lock.rs orders it.
Unlocked  == 0
Shared    == 1
Reserved  == 2
Pending   == 3
Exclusive == 4
Levels    == Unlocked .. Exclusive

VARIABLE level           \* the level each process holds

Init == level = [p \in Proc |-> Unlocked]

\* Any number of readers, but none beside an exclusive holder.
AcquireShared(p) ==
  /\ level[p] = Unlocked
  /\ \A q \in Proc \ {p} : level[q] # Exclusive
  /\ level' = [level EXCEPT ![p] = Shared]

\* At most one process is past Shared.
AcquireReserved(p) ==
  /\ level[p] = Shared
  /\ \A q \in Proc \ {p} : level[q] < Reserved
  /\ level' = [level EXCEPT ![p] = Reserved]

AcquirePending(p) ==
  /\ level[p] = Reserved
  /\ level' = [level EXCEPT ![p] = Pending]

\* The writer has the file to itself.
AcquireExclusive(p) ==
  /\ level[p] = Pending
  /\ \A q \in Proc \ {p} : level[q] = Unlocked
  /\ level' = [level EXCEPT ![p] = Exclusive]

\* One rung down; a process that exits goes to Unlocked from any rung.
Release(p) ==
  /\ level[p] > Unlocked
  /\ level' = [level EXCEPT ![p] = level[p] - 1]

Exit(p) == level' = [level EXCEPT ![p] = Unlocked]

Next ==
  \E p \in Proc :
    \/ AcquireShared(p) \/ AcquireReserved(p) \/ AcquirePending(p)
    \/ AcquireExclusive(p) \/ Release(p) \/ Exit(p)

Spec == Init /\ [][Next]_level

=============================================================================
