-------------------------------- MODULE Vdbe --------------------------------
(***************************************************************************)
(* Dispatch of one instruction (dispatch of src/vdbe/exec.rs) and the loop *)
(* that runs a program (Execution::next_row and run).                      *)
(***************************************************************************)
EXTENDS VmSorter, Catalog

\* One instruction.  The constant opcodes Integer, Int64, Real, String8 and
\* Blob are one Literal with the value in P4.
dispatch(vm, i) ==
    CASE i.op = "Init" -> init(vm, i)
      [] i.op = "Goto" -> Jump(vm, i.p2)
      [] i.op = "BeginSubrtn" -> Advance(vm)
      [] i.op = "Once" -> once(vm, i)
      [] i.op = "Return" -> return(vm, i)
      [] i.op = "Halt" -> halt(vm, i)
      [] i.op = "Transaction" -> transaction(vm, i)
      [] i.op = "AutoCommit" -> auto_commit(vm, i)
      [] i.op = "IsNull" -> is_null(vm, i)
      [] i.op = "NotNull" -> not_null(vm, i)
      [] i.op = "IfNot" -> if_not(vm, i)
      [] i.op = "MustBeInt" -> must_be_int(vm, i)
      [] i.op = "OffsetLimit" -> offset_limit(vm, i)
      [] i.op = "IfPos" -> if_pos(vm, i)
      [] i.op = "IfNotZero" -> if_not_zero(vm, i)
      [] i.op = "DecrJumpZero" -> decr_jump_zero(vm, i)
      [] i.op = "Literal" -> Put(vm, i.p2, i.p4)
      [] i.op = "Null" -> null(vm, i)
      [] i.op = "Variable" -> variable(vm, i)
      [] i.op = "Copy" -> copy(vm, i)
      [] i.op = "MakeRecord" -> make_record(vm, i)
      [] i.op = "ResultRow" -> result_row(vm, i)
      [] i.op = "Eq" -> compare_jump(vm, i, LAMBDA o : o = 0)
      [] i.op = "Lt" -> compare_jump(vm, i, LAMBDA o : o < 0)
      [] i.op = "Le" -> compare_jump(vm, i, LAMBDA o : o <= 0)
      [] i.op = "Gt" -> compare_jump(vm, i, LAMBDA o : o > 0)
      [] i.op = "Ge" -> compare_jump(vm, i, LAMBDA o : o >= 0)
      [] i.op \in {"Add", "Subtract", "Multiply", "Divide", "Remainder", "BitAnd", "BitOr",
                   "ShiftLeft", "ShiftRight", "Concat"} -> binary_op(vm, i)
      [] i.op \in {"Not", "BitNot"} -> unary_op(vm, i)
      [] i.op = "RealAffinity" -> real_affinity(vm, i)
      [] i.op = "Cast" -> cast(vm, i)
      [] i.op = "Function" -> function(vm, i)
      [] i.op = "AggStep" -> agg_step(vm, i)
      [] i.op = "AggFinal" -> agg_final(vm, i)
      [] i.op = "OpenRead" -> open_read(vm, i)
      [] i.op = "OpenWrite" -> open_write(vm, i)
      [] i.op = "OpenEphemeral" -> open_ephemeral(vm, i)
      [] i.op = "OpenDup" -> open_dup(vm, i)
      [] i.op = "OpenPseudo" -> open_pseudo(vm, i)
      [] i.op = "Rewind" -> rewind(vm, i)
      [] i.op = "Last" -> last(vm, i)
      [] i.op = "Next" -> next(vm, i)
      [] i.op = "Column" -> column(vm, i)
      [] i.op = "Rowid" -> rowid(vm, i)
      [] i.op = "Count" -> count(vm, i)
      [] i.op = "SeekRowid" -> seek_rowid(vm, i)
      [] i.op = "SeekIndexEq" -> seek_index_eq(vm, i)
      [] i.op = "SeekIndexGE" -> seek_index_ge(vm, i)
      [] i.op = "IdxCompareGT" -> idx_compare_gt(vm, i)
      [] i.op = "IdxRewind" -> idx_rewind(vm, i)
      [] i.op = "IdxLast" -> idx_last(vm, i)
      [] i.op = "IdxNext" -> idx_next(vm, i)
      [] i.op = "IdxPrev" -> idx_prev(vm, i)
      [] i.op = "IdxRowid" -> idx_rowid(vm, i)
      [] i.op = "NullRow" -> null_row(vm, i)
      [] i.op = "Sequence" -> sequence(vm, i)
      [] i.op = "Found" -> found(vm, i)
      [] i.op = "IdxInsert" -> idx_insert(vm, i)
      [] i.op = "IdxDelete" -> idx_delete(vm, i)
      [] i.op = "NoConflict" -> no_conflict(vm, i)
      [] i.op = "AutoIndexInsert" -> auto_index_insert(vm, i)
      [] i.op = "AutoIndexSeek" -> auto_index_seek(vm, i)
      [] i.op = "AutoIndexRowid" -> auto_index_rowid(vm, i)
      [] i.op = "AutoIndexNext" -> auto_index_next(vm, i)
      [] i.op = "Delete" -> delete(vm, i)
      [] i.op = "Insert" -> insert(vm, i)
      [] i.op = "NewRowid" -> new_rowid(vm, i)
      [] i.op = "CreateTable" -> create_table(vm, i)
      [] i.op = "CreateIndex" -> create_index(vm, i)
      [] i.op = "CreateView" -> create_view(vm, i)
      [] i.op = "DropTable" -> drop_table(vm, i)
      [] i.op = "DropIndex" -> drop_index(vm, i)
      [] i.op = "Analyze" -> analyze(vm, i)
      [] i.op = "SorterOpen" -> sorter_open(vm, i)
      [] i.op = "SorterInsert" -> sorter_insert(vm, i)
      [] i.op \in {"SorterSort", "Sort"} -> sorter_sort(vm, i)
      [] i.op = "SorterNext" -> sorter_next(vm, i)
      [] i.op = "SorterData" -> sorter_data(vm, i)
      [] i.op = "HashAggOpen" -> hash_agg_open(vm, i)
      [] i.op = "HashAggFind" -> hash_agg_find(vm, i)
      [] i.op = "HashAggStep" -> hash_agg_step(vm, i)
      [] i.op = "HashAggRewind" -> hash_agg_rewind(vm, i)
      [] i.op = "HashAggData" -> hash_agg_data(vm, i)
      [] i.op = "HashAggNext" -> hash_agg_next(vm, i)

\* One turn of the loop of next_row.
Turn(program, vm) ==
    IF vm.pc + 1 \in DOMAIN program THEN dispatch(vm, program[vm.pc + 1])
    ELSE Raise(vm, "ProgramCounterOutOfRange")

\* next_row: turns until the next row is there or the program stops, at most
\* MAX_STEPS == 2 ^ STEP_BITS of them.  Turns runs 2 ^ k, as two halves.
STEP_BITS == 12
RECURSIVE Turns(_, _, _, _)
Turns(program, vm, n, k) ==
    CASE vm.stop # "" \/ Len(vm.rows) > n -> vm
      [] vm.stop = "" /\ Len(vm.rows) <= n /\ k = 0 -> Turn(program, vm)
      [] OTHER -> Turns(program, Turns(program, vm, n, k - 1), n, k - 1)
next_row(program, vm) ==
    LET after == Turns(program, vm, Len(vm.rows), STEP_BITS)
    IN  IF after.stop = "" /\ Len(after.rows) = Len(vm.rows) THEN Raise(after, "StepLimitExceeded") ELSE after

\* run: every row.
RECURSIVE run(_, _)
run(program, vm) == IF vm.stop # "" THEN vm ELSE run(program, next_row(program, vm))
=============================================================================
