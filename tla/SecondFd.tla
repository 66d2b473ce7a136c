------------------------------ MODULE SecondFd ------------------------------
(***************************************************************************)
(* FileLock with the callers that open the database file a second time in  *)
(* the same process.  POSIX drops every record lock of a process on an     *)
(* inode when the process closes any descriptor of that inode.             *)
(*   - dump::open (src/dump.rs) opens the file to read its header, opens   *)
(*     the Pager (set_level(Shared) on the Pager's own descriptor), and    *)
(*     closes the first descriptor when it returns;                        *)
(*   - checkpoint_passive (src/pager/checkpoint.rs) opens the file for     *)
(*     writing and closes it when the pass ends, while the Pager that      *)
(*     called it keeps the file open and Shared.                           *)
(***************************************************************************)
EXTENDS FileLock

VARIABLE second          \* [Proc -> BOOLEAN], the second descriptor is open

fdVars == <<held, level, target, sub, second>>

FdInit == Init /\ second = [p \in Proc |-> FALSE]

\* dump::open: File::open for the header, then Pager::open locks Shared.
DumpOpen(p) ==
  /\ level[p] = Unlocked
  /\ ~ second[p]
  /\ SetLevel(p, Shared)
  /\ second' = [second EXCEPT ![p] = TRUE]

\* checkpoint_passive, called by a Pager at rest on Shared.
CheckpointOpen(p) ==
  /\ level[p] = Shared /\ sub[p] = "idle"
  /\ ~ second[p]
  /\ second' = [second EXCEPT ![p] = TRUE]
  /\ UNCHANGED vars

\* Either function returns and its `file' is dropped: close(2).
CloseSecond(p) ==
  /\ second[p] /\ sub[p] = "idle"
  /\ held' = [held EXCEPT ![p] = [r \in Ranges |-> "none"]]
  /\ second' = [second EXCEPT ![p] = FALSE]
  /\ UNCHANGED <<level, target, sub>>

\* The Pager's own calls, once the function that opened it has returned.
PagerCall(p) ==
  /\ ~ second[p] /\ level[p] >= Shared
  /\ \E t \in {Shared, Reserved, Exclusive, Unlocked} : SetLevel(p, t)
  /\ UNCHANGED second

FdNext ==
  \E p \in Proc :
    \/ DumpOpen(p) \/ CheckpointOpen(p) \/ CloseSecond(p) \/ PagerCall(p)
    \/ Step(p) /\ UNCHANGED second

FdSpec == FdInit /\ [][FdNext]_fdVars

=============================================================================
