------------------------------ MODULE FileLock ------------------------------
(***************************************************************************)
(* The lock ladder of src/vfs/lock.rs, one fcntl call at a time.           *)
(*                                                                         *)
(* `held' is the kernel's table of POSIX record locks: fcntl locks belong  *)
(* to a process, so a process never conflicts with itself.  `level',       *)
(* `target' and `sub' are one FileLockState per process, inside set_level. *)
(* Every F_SETLK call is one step, so the calls of different processes     *)
(* interleave; a contended call returns EAGAIN and set_level returns the   *)
(* error with `level' at the last rung reached.                            *)
(***************************************************************************)
EXTENDS Naturals

CONSTANT Proc            \* processes that opened the database file

Unlocked  == 0
Shared    == 1
Reserved  == 2
Pending   == 3
Exclusive == 4
Levels    == Unlocked .. Exclusive

\* The three byte ranges of the lock-byte page.
Ranges == {"PENDING", "RESERVED", "SHARED"}
Kinds  == {"none", "rd", "wr"}

VARIABLES
  held,    \* [Proc -> [Ranges -> Kinds]], the kernel's lock table
  level,   \* FileLockState.level
  target,  \* the argument of the set_level call in progress
  sub      \* "idle": no set_level in progress; "loop": at the head of its
           \* loop; "probed"/"clear": inside step_up from Unlocked, after the
           \* first/second of its three fcntl calls

vars == <<held, level, target, sub>>

Init ==
  /\ held   = [p \in Proc |-> [r \in Ranges |-> "none"]]
  /\ level  = [p \in Proc |-> Unlocked]
  /\ target = [p \in Proc |-> Unlocked]
  /\ sub    = [p \in Proc |-> "idle"]

\* fcntl(F_SETLK) succeeds unless another process holds a conflicting lock.
Grants(p, kind, r) ==
  \A q \in Proc \ {p} :
    IF kind = "wr" THEN held[q][r] = "none" ELSE held[q][r] # "wr"

fcntl_lock(p, kind, r) ==
  /\ Grants(p, kind, r)
  /\ held' = [held EXCEPT ![p][r] = kind]

-----------------------------------------------------------------------------
\* A caller (UnixLockGuard) asks for a level.
SetLevel(p, t) ==
  /\ sub[p] = "idle"
  /\ target' = [target EXCEPT ![p] = t]
  /\ sub' = [sub EXCEPT ![p] = "loop"]
  /\ UNCHANGED <<held, level>>

\* The loops of set_level end: Ok(()) to the caller.
Return(p) ==
  /\ sub[p] = "loop"
  /\ level[p] = target[p]
  /\ sub' = [sub EXCEPT ![p] = "idle"]
  /\ UNCHANGED <<held, level, target>>

\* A slip: a new reader does not look at PENDING_BYTE.
ProbePending_Skipped(p) ==
  /\ sub[p] = "loop" /\ level[p] = Unlocked /\ target[p] > Unlocked
  /\ sub' = [sub EXCEPT ![p] = "probed"]
  /\ UNCHANGED <<held, level, target>>

\* step_up from Unlocked: probe PENDING_BYTE with a read lock ...
ProbePending(p) ==
  /\ sub[p] = "loop" /\ level[p] = Unlocked /\ target[p] > Unlocked
  /\ fcntl_lock(p, "rd", "PENDING")
  /\ sub' = [sub EXCEPT ![p] = "probed"]
  /\ UNCHANGED <<level, target>>

\* ... release the probe ...
UnlockProbe(p) ==
  /\ sub[p] = "probed"
  /\ held' = [held EXCEPT ![p]["PENDING"] = "none"]
  /\ sub' = [sub EXCEPT ![p] = "clear"]
  /\ UNCHANGED <<level, target>>

\* ... and read-lock the SHARED range.
TakeShared(p) ==
  /\ sub[p] = "clear"
  /\ fcntl_lock(p, "rd", "SHARED")
  /\ level' = [level EXCEPT ![p] = Shared]
  /\ sub' = [sub EXCEPT ![p] = "loop"]
  /\ UNCHANGED target

\* A slip: the last rung locks PENDING_BYTE again, not the SHARED range.
UpRange_PendingTwice(l) == IF l = Shared THEN "RESERVED" ELSE "PENDING"

\* The other rungs of step_up are one write lock each.
UpRange(l) == CASE l = Shared   -> "RESERVED"
                [] l = Reserved -> "PENDING"
                [] l = Pending  -> "SHARED"

StepUp(p) ==
  /\ sub[p] = "loop"
  /\ level[p] \in Shared .. Pending /\ level[p] < target[p]
  /\ fcntl_lock(p, "wr", UpRange(level[p]))
  /\ level' = [level EXCEPT ![p] = level[p] + 1]
  /\ UNCHANGED <<target, sub>>

\* A slip: leaving Exclusive drops the SHARED range instead of downgrading it.
DownKind_DropsShared(l) == "none"

\* step_down: leaving Exclusive downgrades the SHARED range to a read lock
\* (always granted), the other rungs drop the lock that step_up took.
DownKind(l) == IF l = Exclusive THEN "rd" ELSE "none"

StepDown(p) ==
  /\ sub[p] = "loop"
  /\ level[p] > target[p]
  /\ LET r == IF level[p] = Shared THEN "SHARED" ELSE UpRange(level[p] - 1)
     IN  held' = [held EXCEPT ![p][r] = DownKind(level[p])]
  /\ level' = [level EXCEPT ![p] = level[p] - 1]
  /\ UNCHANGED <<target, sub>>

\* The fcntl call that p's set_level makes next on its way up, if any.
NextCall(p) ==
  CASE sub[p] = "clear" -> <<"rd", "SHARED">>
    [] sub[p] = "loop" /\ level[p] = Unlocked -> <<"rd", "PENDING">>
    [] sub[p] = "loop" /\ level[p] \in Shared .. Pending ->
         <<"wr", UpRange(level[p])>>

\* EAGAIN: set_level returns the error and leaves `level' where it is.
Contended(p) ==
  /\ \/ sub[p] = "clear"
     \/ sub[p] = "loop" /\ level[p] < target[p]
  /\ ~ Grants(p, NextCall(p)[1], NextCall(p)[2])
  /\ sub' = [sub EXCEPT ![p] = "idle"]
  /\ UNCHANGED <<held, level, target>>

\* The process exits or is killed: the kernel drops its locks.
Exit(p) ==
  /\ held'   = [held EXCEPT ![p] = [r \in Ranges |-> "none"]]
  /\ level'  = [level EXCEPT ![p] = Unlocked]
  /\ target' = [target EXCEPT ![p] = Unlocked]
  /\ sub'    = [sub EXCEPT ![p] = "idle"]

Step(p) ==
  \/ Return(p) \/ ProbePending(p) \/ UnlockProbe(p) \/ TakeShared(p)
  \/ StepUp(p) \/ StepDown(p) \/ Contended(p)

Next ==
  \E p \in Proc :
    \/ \E t \in Levels : SetLevel(p, t)
    \/ Step(p)
    \/ Exit(p)

Spec == Init /\ [][Next]_vars

\* The kernel runs every process that can run; a reader does not stay open
\* for ever, and a writer that was refused at PENDING tries again.
Fairness ==
  \A p \in Proc : /\ WF_vars(Step(p))
                  /\ SF_vars(level[p] = Shared /\ SetLevel(p, Unlocked))
                  /\ SF_vars(level[p] = Pending /\ SetLevel(p, Exclusive))

FairSpec == Spec /\ Fairness

-----------------------------------------------------------------------------
\* Types of the kernel table and of the FileLockState of every process.
TypeOK ==
  /\ held   \in [Proc -> [Ranges -> Kinds]]
  /\ level  \in [Proc -> Levels]
  /\ target \in [Proc -> Levels]
  /\ sub    \in [Proc -> {"idle", "loop", "probed", "clear"}]

\* The record locks that a level of the ladder stands for.
LocksOf(l) ==
  [r \in Ranges |->
     CASE r = "SHARED"   -> IF l = Exclusive THEN "wr"
                            ELSE IF l >= Shared THEN "rd" ELSE "none"
       [] r = "RESERVED" -> IF l >= Reserved THEN "wr" ELSE "none"
       [] r = "PENDING"  -> IF l >= Pending THEN "wr" ELSE "none"]

\* set_level promises that "the level actually held always matches a real
\* level in the ladder - never a half-acquired state": between the calls of
\* step_up and step_down, also after an EAGAIN half way up, the kernel holds
\* for the process exactly the locks its recorded level stands for.
LockStateBacked ==
  \A p \in Proc : sub[p] \in {"idle", "loop"} => held[p] = LocksOf(level[p])

\* "Exclusive access, blocks every other lock level": while a process has
\* recorded Exclusive no other one has recorded any level; and at most one
\* process is past Shared, whatever the interleaving of the fcntl calls.
ExclusiveIsAlone ==
  \A p, q \in Proc :
    p # q => /\ level[p] = Exclusive => level[q] = Unlocked
             /\ level[p] >= Reserved => level[q] < Reserved

\* The inductive strengthening: what the kernel holds at every point inside
\* step_up too, and that the kernel never grants two conflicting locks.
LockInv ==
  /\ \A p \in Proc :
       /\ sub[p] \in {"probed", "clear"} => level[p] = Unlocked
       /\ \A r \in Ranges :
            held[p][r] = IF sub[p] = "probed" /\ r = "PENDING"
                         THEN "rd" ELSE LocksOf(level[p])[r]
  /\ \A p, q \in Proc : \A r \in Ranges :
       p # q /\ held[p][r] = "wr" => held[q][r] = "none"

\* The fcntl ladder implements the abstract one, level for level.
Ladder == INSTANCE LockLadder
ImplementsLadder == Ladder!Spec

\* Taking PENDING "blocks any new SHARED lock attempt (existing readers may
\* finish and drop out)": a writer at Pending that keeps trying gets Exclusive,
\* although readers keep coming, unless it lets go itself.
WriterNotStarved ==
  \A p \in Proc : level[p] = Pending ~> level[p] # Pending

=============================================================================
