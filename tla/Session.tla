------------------------------- MODULE Session -------------------------------
(***************************************************************************)
(* One SQL session on one Pager: the statements that the REPL runs one     *)
(* after another (src/bin/sqlite-rs/repl.rs), each a program of the VDBE   *)
(* (src/vdbe/exec.rs, control.rs, pragma.rs) whose autocommit flag is      *)
(* carried from statement to statement.                                    *)
(*                                                                         *)
(* The file and the pages the session sees are images of Freelist: a row   *)
(* operation of a write program allocates, frees or rewrites pages.  What  *)
(* flush does to the files is in JournalPager and WalPager; here it        *)
(* commits, or finds a lock taken, or fails before it has written to the   *)
(* database file or the WAL.  An I/O error past that point is theirs.      *)
(***************************************************************************)
EXTENDS Freelist

CONSTANT MaxOps   \* bound on the row operations of one statement

ASSUME SessionAssumption == MaxOps \in Nat

Shared    == 1
Reserved  == 2
Pending   == 3
Exclusive == 4

VARIABLES
  disk,           \* the committed image
  mem,            \* the image the session reads: disk under Pager.dirty
  dirty,          \* is Pager.dirty non-empty?
  journal_mode,   \* Pager.journal_mode
  level,          \* the lock held on the file
  tx_lock_level,  \* Pager.tx_lock_level
  autocommit,     \* ReplState.autocommit, Vm.autocommit
  pc,             \* "idle", or "write" inside the program of a write statement
  ops,            \* row operations of that statement so far
  begun,          \* history: the committed image when BEGIN ran
  contended       \* history: a climb of the lock ladder stopped half way

vars == <<disk, mem, dirty, journal_mode, level, tx_lock_level, autocommit, pc,
          ops, begun, contended>>

Init ==
  /\ disk = EmptyImage /\ mem = EmptyImage /\ dirty = FALSE
  /\ journal_mode \in {"Legacy", "Wal"}
  /\ level = Shared /\ tx_lock_level = Shared
  /\ autocommit = TRUE /\ pc = "idle" /\ ops = 0
  /\ begun = EmptyImage /\ contended = FALSE

-----------------------------------------------------------------------------
(* The parts of Pager that statements call.                                *)

\* FileLockState::set_level above Shared: down for free, up as far as the
\* other connections allow.
ClimbTo(target) ==
  /\ level' \in IF level < target THEN level .. target ELSE {target}
  /\ contended' = (level' < target)

Climbed(target) == level' = target

DropToShared == level' = Shared /\ tx_lock_level' = Shared /\ contended' = FALSE

release_tx_lock ==
  IF tx_lock_level > Shared THEN DropToShared
  ELSE UNCHANGED <<level, tx_lock_level, contended>>

Commit == disk' = mem /\ dirty' = FALSE /\ UNCHANGED mem

Keep == UNCHANGED <<disk, mem, dirty>>

\* A slip: a transaction that wrote nothing keeps its lock.
FlushClean_KeepsLock ==
  /\ ~dirty
  /\ UNCHANGED <<level, tx_lock_level, contended>>
  /\ Keep

\* Pager::flush; ok is its result.
FlushClean ==
  /\ ~dirty
  /\ release_tx_lock
  /\ Keep

FlushWal(ok) ==
  /\ dirty /\ journal_mode = "Wal"
  /\ IF ok THEN Commit ELSE Keep
  /\ release_tx_lock

FlushLocked(ok) ==
  /\ dirty /\ journal_mode = "Legacy"
  /\ IF ok THEN Commit ELSE Keep
  /\ DropToShared

FlushContended ==
  /\ dirty /\ journal_mode = "Legacy"
  /\ ClimbTo(Exclusive) /\ ~Climbed(Exclusive)
  /\ Keep /\ UNCHANGED tx_lock_level

flush(ok) ==
  \/ ok /\ FlushClean
  \/ FlushWal(ok) \/ FlushLocked(ok)
  \/ ~ok /\ FlushContended

rollback ==
  /\ mem' = disk /\ dirty' = FALSE /\ UNCHANGED disk
  /\ release_tx_lock

-----------------------------------------------------------------------------
(* Statements.                                                             *)

\* BEGIN: the Transaction opcode; nested, it is an error.
BeginDeferred ==
  /\ pc = "idle" /\ autocommit
  /\ autocommit' = FALSE /\ begun' = disk
  /\ UNCHANGED <<disk, mem, dirty, journal_mode, level, tx_lock_level, pc, ops,
                 contended>>

\* BEGIN IMMEDIATE and EXCLUSIVE; without the lock no transaction is opened.
BeginLocked(target) ==
  /\ pc = "idle" /\ autocommit
  /\ ClimbTo(target)
  /\ IF Climbed(target)
     THEN tx_lock_level' = target /\ autocommit' = FALSE /\ begun' = disk
     ELSE UNCHANGED <<tx_lock_level, autocommit, begun>>
  /\ UNCHANGED <<disk, mem, dirty, journal_mode, pc, ops>>

\* COMMIT and ROLLBACK: the AutoCommit opcode, an error without a transaction.
\* A failing flush leaves the transaction open.  The flush of the final Halt
\* finds nothing to write.
CommitStmt(ok) ==
  /\ pc = "idle" /\ ~autocommit
  /\ flush(ok)
  /\ autocommit' = ok
  /\ UNCHANGED <<journal_mode, pc, ops, begun>>

RollbackStmt ==
  /\ pc = "idle" /\ ~autocommit
  /\ rollback
  /\ autocommit' = TRUE
  /\ UNCHANGED <<journal_mode, pc, ops, begun>>

\* INSERT, UPDATE, DELETE, CREATE, DROP: row operations, then Halt.
StartWrite ==
  /\ pc = "idle"
  /\ pc' = "write" /\ ops' = 0
  /\ UNCHANGED <<disk, mem, dirty, journal_mode, level, tx_lock_level,
                 autocommit, begun, contended>>

RowOp ==
  /\ pc = "write" /\ ops < MaxOps
  /\ ops' = ops + 1
  /\ \/ Allocated(mem) \in Page /\ mem' = allocate_page(mem)
     \/ \E p \in mem.used \ {1} : mem' = deallocate_page(mem, p)
     \/ UNCHANGED mem
  /\ dirty' = TRUE
  /\ UNCHANGED <<disk, journal_mode, level, tx_lock_level, autocommit, pc, begun,
                 contended>>

\* A slip: Halt does not look at autocommit.
Halt_Flushes(ok) ==
  /\ pc = "write"
  /\ flush(ok)
  /\ pc' = "idle"
  /\ UNCHANGED <<journal_mode, autocommit, ops, begun>>

\* Halt of a program that succeeds: outside a transaction, the commit.
Halt(ok) ==
  /\ pc = "write"
  /\ IF autocommit THEN flush(ok)
     ELSE ok /\ UNCHANGED <<disk, mem, dirty, level, tx_lock_level, contended>>
  /\ pc' = "idle"
  /\ UNCHANGED <<journal_mode, autocommit, ops, begun>>

\* A program that fails (a constraint, an error of the b-tree) is abandoned:
\* what it wrote so far stays in Pager.dirty.
StatementFails ==
  /\ pc = "write"
  /\ pc' = "idle"
  /\ UNCHANGED <<disk, mem, dirty, journal_mode, level, tx_lock_level,
                 autocommit, ops, begun, contended>>

\* PRAGMA journal_mode: refused in a transaction, and by the pager while it
\* has pages to write or a lock to release.
SetJournalMode(mode) ==
  /\ pc = "idle" /\ autocommit
  /\ ~dirty /\ tx_lock_level = Shared
  /\ journal_mode' = mode
  /\ UNCHANGED <<disk, mem, dirty, level, tx_lock_level, autocommit, pc, ops,
                 begun, contended>>

\* The end of the session, also in the middle of a statement: Pager.dirty is
\* dropped with the Pager, and the next session starts with autocommit on.
Exit ==
  /\ pc' = "idle"
  /\ mem' = disk /\ dirty' = FALSE
  /\ level' = Shared /\ tx_lock_level' = Shared /\ contended' = FALSE
  /\ autocommit' = TRUE
  /\ UNCHANGED <<disk, journal_mode, ops, begun>>

Next ==
  \/ BeginDeferred
  \/ \E target \in {Reserved, Exclusive} : BeginLocked(target)
  \/ \E ok \in BOOLEAN : CommitStmt(ok) \/ Halt(ok)
  \/ RollbackStmt \/ StartWrite \/ RowOp \/ StatementFails \/ Exit
  \/ \E mode \in {"Legacy", "Wal"} : SetJournalMode(mode)

Spec == Init /\ [][Next]_vars

-----------------------------------------------------------------------------
\* The images stay within the file's bounds, and the pager holds at least
\* SHARED from its opening to the end of the session (Pager::open, flush).
TypeOK ==
  /\ disk \in Image /\ mem \in Image /\ begun \in Image
  /\ dirty \in BOOLEAN /\ autocommit \in BOOLEAN /\ contended \in BOOLEAN
  /\ journal_mode \in {"Legacy", "Wal"}
  /\ level \in Shared .. Exclusive
  /\ tx_lock_level \in {Shared, Reserved, Exclusive}
  /\ pc \in {"idle", "write"} /\ ops \in 0 .. MaxOps

\* Through failing statements, failing commits, ROLLBACK and a session that
\* ends anywhere, the freelist of the committed image and of the image in
\* memory lists every page no b-tree points at, exactly once (allocate_page,
\* deallocate_page).
NoPageLost == FreelistSound(disk) /\ FreelistSound(mem)

\* While a transaction is open nothing of it is committed: not by a statement
\* that halts, not by a COMMIT that finds a lock taken or fails before its
\* first write (Execution::next_row, auto_commit).
OpenIsUncommitted == ~autocommit => disk = begun

\* A pager with nothing dirty shows the committed image: a commit publishes
\* all of the transaction, a failed one keeps all of it, ROLLBACK drops all
\* of it (Pager::flush, Pager::rollback).
CleanIsCommitted == ~dirty => mem = disk

\* All or nothing: a transaction is committed by its COMMIT alone, and whole.
TransactionsAtomic == OpenIsUncommitted /\ CleanIsCommitted

\* A lock taken by BEGIN IMMEDIATE or EXCLUSIVE is held at least until COMMIT
\* is tried, and is released with the transaction, also one that wrote
\* nothing or whose commit failed; only a climb that other connections
\* stopped half way leaves a lock behind (Pager::release_tx_lock).
LockEndsWithTransaction ==
  /\ tx_lock_level <= level
  /\ autocommit => tx_lock_level = Shared
  /\ ~contended => level = tx_lock_level

==============================================================================
