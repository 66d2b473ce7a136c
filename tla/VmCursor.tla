------------------------------ MODULE VmCursor ------------------------------
(***************************************************************************)
(* The cursor opcodes of src/vdbe/cursor.rs.  A table or index is small    *)
(* enough for one b-tree page here, so a cursor over it walks the copy of  *)
(* the page its stack holds (walk, from the position step on) whatever the *)
(* statement writes meanwhile; what happens across pages is in TableCursor.*)
(* A key of an ephemeral structure is the record of its values, so 1 and   *)
(* 1.0 are different keys.                                                 *)
(***************************************************************************)
EXTENDS Vm

CONSTANT MAX_EPHEMERAL_ROWS

NoRow == <<>>
Cursor(vm, i) == IF i.p1 \in DOMAIN vm.cur THEN vm.cur[i.p1] ELSE [kind |-> "closed"]
set_cursor(vm, slot, c) == [vm EXCEPT !.cur = (slot :> c) @@ @]
Mismatch(vm) == Raise(vm, "CursorTypeMismatch")
Malformed(vm) == Raise(vm, "MalformedInstruction")

\* What a cursor of the given kinds does; another kind is an error.
On(vm, i, kinds, f(_)) ==
    LET c == Cursor(vm, i) IN IF c.kind \in kinds THEN f(c) ELSE Mismatch(vm)

TableCur(root) ==
    [kind |-> "table", root |-> root, walk |-> <<>>, step |-> 0, current |-> NoRow,
     forced_null |-> FALSE]
IndexCur(root) == [kind |-> "index", root |-> root, walk |-> <<>>, step |-> 0, current |-> NoRow]

\* The next entry of a cursor's page copy upwards and downwards; past its end
\* the stack is empty.
StepUp(c) ==
    IF c.step < Len(c.walk) THEN [c EXCEPT !.step = @ + 1, !.current = c.walk[c.step + 1]]
    ELSE [c EXCEPT !.walk = <<>>, !.step = 0, !.current = NoRow]
StepDown(c) ==
    IF c.step > 0 THEN [c EXCEPT !.step = @ - 1, !.current = c.walk[c.step]]
    ELSE [c EXCEPT !.walk = <<>>, !.step = 0, !.current = NoRow]
Load(c, page, step) == [c EXCEPT !.walk = page, !.step = step]

\* A positioning opcode jumps when it finds nothing, a stepping one when it
\* finds something.
Positioned(vm, i, c) == JumpIf(set_cursor(vm, i.p1, c), c.current = NoRow, i.p2)
Stepped(vm, i, c) == JumpIf(set_cursor(vm, i.p1, c), c.current # NoRow, i.p2)

-----------------------------------------------------------------------------
(* Opening. *)

open_read(vm, i) ==
    Advance(set_cursor(vm, i.p1, IF i.p5 # 0 THEN IndexCur(i.p2) ELSE TableCur(i.p2)))
open_write(vm, i) ==
    Advance(set_cursor(vm, i.p1,
        IF i.p5 # 0 THEN [kind |-> "indexwrite", root |-> i.p2] ELSE TableCur(i.p2)))

\* Rows of an ephemeral table are on the heap, where OpenDup shares them.
EphTable(rows) == [kind |-> "ephtable", rows |-> rows, pos |-> 0, sequence |-> 1]
open_ephemeral(vm, i) ==
    CASE i.p5 = 2 -> Advance(set_cursor(vm, i.p1, [kind |-> "autoindex", entries |-> <<>>, current |-> <<>>]))
      [] i.p5 # 0 -> Advance(set_cursor([vm EXCEPT !.heap = Append(@, <<>>)], i.p1,
                                        EphTable(Len(vm.heap) + 1)))
      [] OTHER -> Advance(set_cursor(vm, i.p1,
                    [kind |-> "ephemeral", entries |-> <<>>, sequence |-> 0, last_key |-> {}]))
open_dup(vm, i) ==
    IF i.p2 \in DOMAIN vm.cur /\ vm.cur[i.p2].kind = "ephtable"
    THEN Advance(set_cursor(vm, i.p1, EphTable(vm.cur[i.p2].rows)))
    ELSE Mismatch(vm)
open_pseudo(vm, i) == Advance(set_cursor(vm, i.p1, [kind |-> "pseudo", register |-> i.p2]))

-----------------------------------------------------------------------------
(* Positioning. *)

\* An ephemeral table's position, 0 for none, as the outcome of a move.
EphMoved(vm, i, c, pos, jumps) ==
    LET found == pos \in 1 .. Len(vm.heap[c.rows])
    IN  JumpIf(set_cursor(vm, i.p1, [c EXCEPT !.pos = IF found THEN pos ELSE 0]), found = jumps, i.p2)

rewind(vm, i) ==
    On(vm, i, {"table", "ephtable"}, LAMBDA c :
        IF c.kind = "ephtable" THEN EphMoved(vm, i, c, 1, FALSE)
        ELSE Positioned(vm, i, StepUp(Load([c EXCEPT !.forced_null = FALSE], vm.db.table[c.root], 0))))
last(vm, i) ==
    On(vm, i, {"table", "ephtable"}, LAMBDA c :
        IF c.kind = "ephtable" THEN EphMoved(vm, i, c, Len(vm.heap[c.rows]), FALSE)
        ELSE Positioned(vm, i, StepDown(Load([c EXCEPT !.forced_null = FALSE], vm.db.table[c.root],
                                             Len(vm.db.table[c.root])))))
next(vm, i) ==
    On(vm, i, {"table", "ephtable"}, LAMBDA c :
        IF c.kind = "ephtable" THEN EphMoved(vm, i, c, c.pos + 1, TRUE) ELSE Stepped(vm, i, StepUp(c)))

\* A seek does not touch the walk.
RowAt(rows, rowid) ==
    LET at == {k \in DOMAIN rows : rows[k][1] = rowid}
    IN  IF at = {} THEN NoRow ELSE rows[CHOOSE k \in at : TRUE]
seek_rowid(vm, i) ==
    LET target == register(vm, i.p3)
    IN  IF target[1] # "int" THEN Malformed(vm)
        ELSE On(vm, i, {"table"}, LAMBDA c :
                Positioned(vm, i, [c EXCEPT !.forced_null = FALSE,
                                            !.current = RowAt(vm.db.table[c.root], target[2])]))

null_row(vm, i) ==
    On(vm, i, {"table"}, LAMBDA c :
        Advance(set_cursor(vm, i.p1, [c EXCEPT !.forced_null = TRUE, !.current = NoRow])))

\* An index seek: how many entries precede the probe.
Before(page, probe) == Cardinality({k \in DOMAIN page : compare_keys(page[k], probe) < 0})
SeekIndex(vm, c, probe) ==
    StepUp(Load(c, vm.db.index[c.root], Before(vm.db.index[c.root], probe)))

seek_index_eq(vm, i) ==
    LET probe == read_register_range(vm, i.p3, Len(i.p4))
    IN  On(vm, i, {"index"}, LAMBDA c :
            LET found == SeekIndex(vm, c, probe)
                matched == /\ Len(found.current) > Len(probe)
                           /\ compare_prefix(found.current, probe, i.p4) = 0
            IN  Positioned(vm, i, IF matched THEN found ELSE [found EXCEPT !.current = NoRow]))
seek_index_ge(vm, i) ==
    On(vm, i, {"index"}, LAMBDA c :
        Positioned(vm, i, SeekIndex(vm, c, read_register_range(vm, i.p3, Len(i.p4)))))
idx_compare_gt(vm, i) ==
    LET probe == read_register_range(vm, i.p3, Len(i.p4))
    IN  On(vm, i, {"index"}, LAMBDA c :
            JumpIf(vm, Len(c.current) > Len(probe) /\ compare_prefix(c.current, probe, i.p4) > 0, i.p2))
idx_rewind(vm, i) ==
    On(vm, i, {"index"}, LAMBDA c : Positioned(vm, i, StepUp(Load(c, vm.db.index[c.root], 0))))
idx_last(vm, i) ==
    On(vm, i, {"index"}, LAMBDA c :
        Positioned(vm, i, StepDown(Load(c, vm.db.index[c.root], Len(vm.db.index[c.root])))))
idx_next(vm, i) == On(vm, i, {"index"}, LAMBDA c : Stepped(vm, i, StepUp(c)))
idx_prev(vm, i) == On(vm, i, {"index"}, LAMBDA c : Stepped(vm, i, StepDown(c)))

\* The trailing column of an index entry.
idx_rowid(vm, i) ==
    On(vm, i, {"index"}, LAMBDA c :
        IF c.current = NoRow \/ c.current[Len(c.current)][1] # "int" THEN Malformed(vm)
        ELSE Put(vm, i.p2, c.current[Len(c.current)]))

-----------------------------------------------------------------------------
(* Reading. *)

\* Columns are numbered from 0; a record that is too short reads as NULL.
ColumnOf(vs, idx) == IF idx + 1 \in DOMAIN vs THEN vs[idx + 1] ELSE VNull
PutColumn(vm, i, present, vs) == IF present THEN Put(vm, i.p3, ColumnOf(vs, i.p2)) ELSE Malformed(vm)

column(vm, i) ==
    On(vm, i, {"pseudo", "ephtable", "ephemeral", "table", "index"}, LAMBDA c :
        CASE c.kind = "pseudo" ->
                LET r == register(vm, c.register) IN PutColumn(vm, i, r[1] = "record", r[2])
          [] c.kind = "ephtable" -> PutColumn(vm, i, c.pos # 0, vm.heap[c.rows][c.pos][2])
          [] c.kind = "ephemeral" ->
                LET key == CHOOSE k \in c.last_key : TRUE
                IN  PutColumn(vm, i, c.last_key # {} /\ key \in DOMAIN c.entries, c.entries[key])
          [] c.kind = "table" /\ c.forced_null -> Put(vm, i.p3, VNull)
          [] c.kind = "table" -> PutColumn(vm, i, c.current # NoRow, c.current[2])
          [] OTHER -> PutColumn(vm, i, c.current # NoRow, c.current))

rowid(vm, i) ==
    On(vm, i, {"table", "ephtable"}, LAMBDA c :
        CASE c.kind = "ephtable" ->
                IF c.pos = 0 THEN Malformed(vm) ELSE Put(vm, i.p2, VInt(vm.heap[c.rows][c.pos][1]))
          [] c.forced_null -> Put(vm, i.p2, VNull)
          [] c.current = NoRow -> Malformed(vm)
          [] OTHER -> Put(vm, i.p2, VInt(c.current[1])))

count(vm, i) == Put(vm, i.p2, VInt(Len(vm.db.table[i.p1])))

sequence(vm, i) ==
    On(vm, i, {"ephemeral", "ephtable"}, LAMBDA c :
        Put(set_cursor(vm, i.p1, [c EXCEPT !.sequence = @ + 1]), i.p2, VInt(c.sequence)))

-----------------------------------------------------------------------------
(* Ephemeral indexes and automatic indexes. *)

normalize_key_values(vs, colls) ==
    [k \in DOMAIN vs |-> IF vs[k][1] = "text" THEN VText(Fold(vs[k][2], colls[k])) ELSE vs[k]]
KeyAt(vm, start, colls) == normalize_key_values(read_register_range(vm, start, Len(colls)), colls)

found(vm, i) ==
    LET key == KeyAt(vm, i.p3, i.p4)
    IN  On(vm, i, {"ephemeral"}, LAMBDA c :
            JumpIf(set_cursor(vm, i.p1, [c EXCEPT !.last_key = {key}]), key \in DOMAIN c.entries, i.p2))

auto_index_insert(vm, i) ==
    LET key == KeyAt(vm, i.p2, i.p4)
        r == register(vm, i.p3)
    IN  IF r[1] # "int" THEN Malformed(vm)
        ELSE On(vm, i, {"autoindex"}, LAMBDA c :
                LET rowids == IF key \in DOMAIN c.entries THEN c.entries[key] ELSE <<>>
                IN  Advance(set_cursor(vm, i.p1,
                        [c EXCEPT !.entries = (key :> Append(rowids, r[2])) @@ @])))
auto_index_seek(vm, i) ==
    LET key == KeyAt(vm, i.p3, i.p4)
    IN  On(vm, i, {"autoindex"}, LAMBDA c :
            LET hit == key \in DOMAIN c.entries
            IN  JumpIf(set_cursor(vm, i.p1, [c EXCEPT !.current = IF hit THEN <<key, 1>> ELSE <<>>]),
                       ~hit, i.p2))
auto_index_rowid(vm, i) ==
    On(vm, i, {"autoindex"}, LAMBDA c :
        IF c.current = <<>> THEN Malformed(vm)
        ELSE Put(vm, i.p2, VInt(c.entries[c.current[1]][c.current[2]])))
auto_index_next(vm, i) ==
    On(vm, i, {"autoindex"}, LAMBDA c :
        LET more == c.current # <<>> /\ c.current[2] < Len(c.entries[c.current[1]])
        IN  JumpIf(set_cursor(vm, i.p1, [c EXCEPT !.current =
                        IF more THEN <<c.current[1], c.current[2] + 1>> ELSE <<>>]), more, i.p2))

-----------------------------------------------------------------------------
(* Writing. *)

\* x at its place in a sorted sequence of which n elements precede it.
Insertion(s, n, x) == SubSeq(s, 1, n) \o <<x>> \o SubSeq(s, n + 1, Len(s))
Removal(s, n) == SubSeq(s, 1, n - 1) \o SubSeq(s, n + 1, Len(s))

\* insert_entry and delete_entry of the b-tree, BINARY order.
InsertEntry(vm, root, key) ==
    [vm EXCEPT !.db.index[root] = Insertion(@, Before(@, key), key)]
EntryAt(page, key) == {k \in DOMAIN page : compare_keys(page[k], key) = 0}

idx_insert(vm, i) ==
    LET n == Len(i.p4)
        values == read_register_range(vm, i.p2, n + i.p5)
        key == normalize_key_values(SubSeq(values, 1, n), i.p4)
    IN  On(vm, i, {"indexwrite", "ephemeral"}, LAMBDA c :
            CASE c.kind = "indexwrite" ->
                    Advance(InsertEntry(vm, c.root, read_register_range(vm, i.p2, n)))
              [] key \notin DOMAIN c.entries /\ Cardinality(DOMAIN c.entries) >= MAX_EPHEMERAL_ROWS ->
                    Raise(vm, "EphemeralRowLimitExceeded")
              [] OTHER -> Advance(set_cursor(vm, i.p1,
                            [c EXCEPT !.entries = (key :> values) @@ @, !.last_key = {key}])))

idx_delete(vm, i) ==
    LET key == read_register_range(vm, i.p2, i.p4)
        without(c) == [k \in DOMAIN c.entries \ {key} |-> c.entries[k]]
    IN  On(vm, i, {"indexwrite", "ephemeral"}, LAMBDA c :
            CASE c.kind = "ephemeral" ->
                    Advance(set_cursor(vm, i.p1, [c EXCEPT !.entries = without(c), !.last_key = @ \ {key}]))
              [] EntryAt(vm.db.index[c.root], key) = {} -> Raise(vm, "KeyNotFound")
              [] OTHER -> Advance([vm EXCEPT !.db.index[c.root] =
                            Removal(@, CHOOSE k \in EntryAt(@, key) : TRUE)]))

\* The conflicting row's rowid goes to the register after the probe.
no_conflict(vm, i) ==
    LET probe == read_register_range(vm, i.p3, i.p4)
    IN  On(vm, i, {"indexwrite"}, LAMBDA c :
            LET page == vm.db.index[c.root]
                n == Before(page, probe) + 1
            IN  IF /\ n <= Len(page)
                   /\ Len(page[n]) >= Len(probe)
                   /\ compare_prefix(page[n], probe, Binary(Len(page[n]))) = 0
                THEN Put(vm, i.p3 + i.p4, page[n][Len(page[n])])
                ELSE Jump(vm, i.p2))

delete(vm, i) ==
    On(vm, i, {"table", "ephemeral"}, LAMBDA c :
        CASE c.kind = "ephemeral" ->
                Advance(set_cursor(vm, i.p1, [c EXCEPT !.last_key = {},
                            !.entries = [k \in DOMAIN @ \ c.last_key |-> @[k]]]))
          [] c.current = NoRow -> Malformed(vm)
          [] RowAt(vm.db.table[c.root], c.current[1]) = NoRow -> Raise(vm, "RowNotFound")
          [] OTHER -> Advance([set_cursor(vm, i.p1, [c EXCEPT !.current = NoRow])
                        EXCEPT !.db.table[c.root] = SelectSeq(@, LAMBDA r : r[1] # c.current[1])]))

insert(vm, i) ==
    LET r == register(vm, i.p2)
        payload == register(vm, i.p3)
        row == <<r[2], payload[2]>>
    IN  IF r[1] # "int" \/ payload[1] # "record" THEN Malformed(vm)
        ELSE On(vm, i, {"table", "ephtable"}, LAMBDA c :
            CASE c.kind = "ephtable" ->
                    IF Len(vm.heap[c.rows]) >= MAX_EPHEMERAL_ROWS THEN Raise(vm, "EphemeralRowLimitExceeded")
                    ELSE Advance([vm EXCEPT !.heap[c.rows] = Append(@, row)])
              [] RowAt(vm.db.table[c.root], r[2]) # NoRow -> Raise(vm, "DuplicateRowid")
              [] OTHER -> Advance([vm EXCEPT !.db.table[c.root] =
                            Insertion(@, Cardinality({k \in DOMAIN @ : @[k][1] < r[2]}), row)]))
=============================================================================
