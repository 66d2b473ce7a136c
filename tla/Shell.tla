-------------------------------- MODULE Shell --------------------------------
(***************************************************************************)
(* The two front ends that run statements on one Pager.  exec              *)
(* (bin/sqlite-rs/exec.rs) keeps the decoded catalog from one statement to *)
(* the next and ends at the first one that fails; the REPL                 *)
(* (bin/sqlite-rs/repl.rs) reads the catalog for every statement and goes  *)
(* on, with whatever the failed statement left in the Pager.               *)
(*                                                                         *)
(* A statement is one step: compiled on the catalog, run to its end.  What *)
(* a commit does to the files is in JournalPager and WalPager.             *)
(***************************************************************************)
EXTENDS CodegenStmt

CONSTANTS
    Outcome(_, _, _), \* execute_transaction_step, below
    Given(_, _),      \* the statements a front end may be given on a database
    Databases,        \* the files it may be started on
    Fronts,           \* a subset of {"exec", "repl"}
    MaxStatements     \* front end -> bound on the statements given

VARIABLES
    front,            \* the front end
    db,               \* the database as the Pager shows it, dirty pages included
    saved,            \* the database that is committed
    autocommit,       \* run_exec's flag, ReplState.autocommit
    cache,            \* run_exec's catalog: <<>> or <<[schemas, views]>>
    ran,              \* history: the statement just run, <<>> or one record
    given             \* statements given so far
vars == <<front, db, saved, autocommit, cache, ran, given>>

Init ==
    /\ front \in Fronts
    /\ db \in Databases /\ saved = db
    /\ autocommit = TRUE /\ cache = <<>> /\ ran = <<>> /\ given = 0

\* The machine at the end of the statement, or with the compiler's error.
execute_transaction_step(stmt, cat, start) ==
    LET executed(em) == IF em.err # "" THEN Raise(start, em.err) ELSE run(finish(em), start)
    IN  executed(compile_statement(stmt, cat.schemas, cat.views))
Started == [NewVm(db, <<>>) EXCEPT !.saved = saved, !.autocommit = autocommit]
Record(stmt, cat, vm) ==
    /\ ran' = <<[stmt |-> stmt, cat |-> cat, before |-> db, after |-> vm.db, error |-> vm.stop]>>
    /\ given' = given + 1
Ready == ran = <<>> /\ given < MaxStatements[front]

\* A process that ends loses what is not committed.
Ended(committed) == db' = committed /\ saved' = committed /\ autocommit' = TRUE /\ cache' = <<>>

\* A slip: DROP is forgotten.
is_schema_changing_NotDrop(stmt) ==
    stmt.k \in {"create table", "create view", "create index"}

is_schema_changing(stmt) ==
    stmt.k \in {"create table", "create view", "create index", "drop table", "drop index"}

NextCache(stmt, cat) == IF is_schema_changing(stmt) THEN <<>> ELSE <<cat>>

run_exec(stmt) ==
    /\ front = "exec" /\ Ready
    /\ \E cat \in {IF cache = <<>> THEN read_schema_and_views(db) ELSE cache[1]} :
       \E vm \in {Outcome(stmt, cat, Started)} :
        /\ Record(stmt, cat, vm)
        /\ IF vm.stop # "done" THEN Ended(vm.saved)
           ELSE /\ db' = vm.db /\ saved' = vm.saved /\ autocommit' = vm.autocommit
                /\ cache' = NextCache(stmt, cat)
    /\ UNCHANGED front

run_one_statement(stmt) ==
    /\ front = "repl" /\ Ready
    /\ \E cat \in {read_schema_and_views(db)} : \E vm \in {Outcome(stmt, cat, Started)} :
        /\ Record(stmt, cat, vm)
        /\ db' = vm.db /\ saved' = vm.saved
        /\ autocommit' = IF vm.stop = "done" THEN vm.autocommit ELSE autocommit
    /\ UNCHANGED <<front, cache>>

\* Ready for the next statement.
Forget == ran # <<>> /\ ran' = <<>> /\ UNCHANGED <<front, db, saved, autocommit, cache, given>>

\* The script or the input is at its end; another is started on the file.
Quit == ran = <<>> /\ Ended(saved) /\ UNCHANGED <<front, ran, given>>

Spec ==
    Init /\ [][\/ \E stmt \in Given(front, db) : run_exec(stmt)
               \/ \E stmt \in Given(front, db) : run_one_statement(stmt)
               \/ Forget
               \/ Quit]_vars
=============================================================================
