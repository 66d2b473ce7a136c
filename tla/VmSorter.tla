------------------------------ MODULE VmSorter ------------------------------
(***************************************************************************)
(* The sorter (src/vdbe/sorter.rs), with the bounded max-heap that serves  *)
(* ORDER BY ... LIMIT, and the hash aggregator (src/vdbe/hash_agg.rs) that *)
(* serves GROUP BY.  A sorter row is <<record values, key values>>.        *)
(***************************************************************************)
EXTENDS VmCursor

\* sort_by is stable: each element goes after the ones that are not greater.
StableSort(s, cmp(_, _)) ==
    FoldLeft(LAMBDA acc, x : Insertion(acc, Cardinality({k \in DOMAIN acc : cmp(acc[k], x) <= 0}), x),
             <<>>, s)

\* The first nonzero of a sequence of comparisons.
Decide(cs) == LET at == {k \in DOMAIN cs : cs[k] # 0}
              IN  IF at = {} THEN 0 ELSE cs[CHOOSE k \in at : \A j \in at : k <= j]

\* A sort key is [index, descending, nulls_first, collation]; DESC does not
\* move the NULLs.
CompareColumn(a, b, key) ==
    CASE IsNull(a) /\ IsNull(b) -> 0
      [] IsNull(a) -> IF key.nulls_first THEN -1 ELSE 1
      [] IsNull(b) -> IF key.nulls_first THEN 1 ELSE -1
      [] OTHER -> compare(a, b, key.collation) * (IF key.descending THEN -1 ELSE 1)
compare_rows(a, b, keys) == Decide([k \in DOMAIN keys |-> CompareColumn(a[k], b[k], keys[k])])

Swap(buf, a, b) == [buf EXCEPT ![a] = buf[b], ![b] = buf[a]]
Greater(buf, a, b, keys) == compare_rows(buf[a][2], buf[b][2], keys) > 0

RECURSIVE heap_sift_up(_, _, _)
heap_sift_up(buf, n, keys) ==
    LET parent == n \div 2
    IN  IF n > 1 /\ Greater(buf, n, parent, keys) THEN heap_sift_up(Swap(buf, n, parent), parent, keys)
        ELSE buf

RECURSIVE heap_sift_down(_, _, _)
heap_sift_down(buf, n, keys) ==
    LET left == 2 * n
        right == 2 * n + 1
        larger == IF left <= Len(buf) /\ Greater(buf, left, n, keys) THEN left ELSE n
        largest == IF right <= Len(buf) /\ Greater(buf, right, larger, keys) THEN right ELSE larger
    IN  IF largest = n THEN buf ELSE heap_sift_down(Swap(buf, n, largest), largest, keys)

\* P5 asks for a bound, the integer in register P2; a negative one is none.
sorter_open(vm, i) ==
    LET n == register(vm, i.p2)
    IN  IF i.p5 # 0 /\ n[1] # "int" THEN Malformed(vm)
        ELSE Advance(set_cursor(vm, i.p1,
                [kind |-> "sorter", keys |-> i.p4, buffer |-> <<>>, sorted |-> FALSE, pos |-> 1,
                 bound |-> IF i.p5 = 0 \/ n[2] < 0 THEN {} ELSE {n[2]}]))

\* A row that is strictly better than the worst one kept takes its place.
Offer(c, row) ==
    CASE c.bound = {0} -> c.buffer
      [] c.bound # {} /\ \A n \in c.bound : Len(c.buffer) >= n ->
            IF compare_rows(row[2], c.buffer[1][2], c.keys) < 0
            THEN heap_sift_down([c.buffer EXCEPT ![1] = row], 1, c.keys) ELSE c.buffer
      [] c.bound # {} -> heap_sift_up(Append(c.buffer, row), Len(c.buffer) + 1, c.keys)
      [] OTHER -> Append(c.buffer, row)

sorter_insert(vm, i) ==
    LET r == register(vm, i.p2)
    IN  IF r[1] # "record" THEN Malformed(vm)
        ELSE On(vm, i, {"sorter"}, LAMBDA c :
                LET key(k) == IF i.p5 # 0 THEN register(vm, i.p3 + c.keys[k].index)
                              ELSE ColumnOf(r[2], c.keys[k].index)
                    row == <<r[2], [k \in DOMAIN c.keys |-> key(k)]>>
                IN  Advance(set_cursor(vm, i.p1, [c EXCEPT !.sorted = FALSE, !.buffer = Offer(c, row)])))

sorter_sort(vm, i) ==
    On(vm, i, {"sorter"}, LAMBDA c :
        LET sorted == StableSort(c.buffer, LAMBDA a, b : compare_rows(a[2], b[2], c.keys))
        IN  JumpIf(set_cursor(vm, i.p1, [c EXCEPT !.buffer = sorted, !.sorted = TRUE, !.pos = 1]),
                   sorted = <<>>, i.p2))
sorter_next(vm, i) ==
    On(vm, i, {"sorter"}, LAMBDA c :
        JumpIf(set_cursor(vm, i.p1, [c EXCEPT !.pos = @ + 1]), c.pos + 1 <= Len(c.buffer), i.p2))
sorter_data(vm, i) ==
    On(vm, i, {"sorter"}, LAMBDA c :
        IF ~c.sorted \/ c.pos > Len(c.buffer) THEN Malformed(vm)
        ELSE Put(vm, i.p2, RecordOf(c.buffer[c.pos][1])))

-----------------------------------------------------------------------------
(* Hash aggregation.  A group key column is [index, affinity, collation].  *)

\* What a group's hash key tells apart: text up to its collation, and a real
\* that is an integer is that integer.
KeyBytes(v, coll) ==
    CASE v[1] = "text" -> VText(Fold(v[2], coll))
      [] v[1] = "real" /\ v[2] % 2 = 0 /\ InRange(v[2] \div 2) -> VInt(v[2] \div 2)
      [] OTHER -> v

hash_agg_open(vm, i) ==
    Advance(set_cursor(vm, i.p1,
        [kind |-> "hashagg", keys |-> i.p4, groups |-> <<>>, current |-> 0, order |-> <<>>, pos |-> 1,
         frozen |-> FALSE]))

hash_agg_find(vm, i) ==
    LET r == register(vm, i.p2)
    IN  IF r[1] # "record" THEN Malformed(vm)
        ELSE On(vm, i, {"hashagg"}, LAMBDA c :
                LET values == [k \in DOMAIN c.keys |->
                                apply_affinity(register(vm, i.p3 + c.keys[k].index), c.keys[k].affinity)]
                    bytes(vs) == [k \in DOMAIN vs |-> KeyBytes(vs[k], c.keys[k].collation)]
                    at == {g \in DOMAIN c.groups : bytes(c.groups[g].key_values) = bytes(values)}
                    new == [row |-> r[2], key_values |-> values, accumulators |-> <<>>]
                IN  CASE c.frozen -> Malformed(vm)
                      [] at = {} -> Advance(set_cursor(vm, i.p1,
                            [c EXCEPT !.groups = Append(@, new), !.current = Len(c.groups) + 1]))
                      [] OTHER -> Advance(set_cursor(vm, i.p1,
                            [c EXCEPT !.current = CHOOSE g \in at : TRUE])))

hash_agg_step(vm, i) ==
    On(vm, [i EXCEPT !.p1 = i.p3], {"hashagg"}, LAMBDA c :
        LET acc == c.groups[c.current].accumulators
            current == IF i.p1 \in DOMAIN acc THEN acc[i.p1] ELSE NoState
            args == read_register_range(vm, i.p2, i.p4.arity)
            stepped == AggregateStep(i.p4.name, current, args, i.p4.collation)
        IN  IF c.current = 0 THEN Malformed(vm)
            ELSE Advance(set_cursor(vm, i.p3,
                    [c EXCEPT !.groups[c.current].accumulators = (i.p1 :> stepped) @@ @])))

hash_agg_rewind(vm, i) ==
    On(vm, i, {"hashagg"}, LAMBDA c :
        LET colls == [k \in DOMAIN c.keys |-> c.keys[k].collation]
            cmp(a, b) == compare_prefix(c.groups[a].key_values, c.groups[b].key_values, colls)
            order == StableSort([g \in DOMAIN c.groups |-> g], cmp)
        IN  JumpIf(set_cursor(vm, i.p1, [c EXCEPT !.frozen = TRUE, !.pos = 1, !.order = order]),
                   order = <<>>, i.p2))

\* The group's accumulators become the machine's; a slot below the highest
\* one used that has none is cleared.
hash_agg_data(vm, i) ==
    On(vm, i, {"hashagg"}, LAMBDA c :
        LET group == c.groups[c.order[c.pos]]
            slots == UNION {0 .. m : m \in DOMAIN group.accumulators}
            acc == [n \in slots |-> IF n \in DOMAIN group.accumulators THEN group.accumulators[n] ELSE NoState]
        IN  IF ~c.frozen \/ c.pos > Len(c.order) THEN Malformed(vm)
            ELSE Put([vm EXCEPT !.agg = acc @@ @], i.p2, RecordOf(group.row)))
hash_agg_next(vm, i) ==
    On(vm, i, {"hashagg"}, LAMBDA c :
        JumpIf(set_cursor(vm, i.p1, [c EXCEPT !.pos = @ + 1]), c.pos + 1 <= Len(c.order), i.p2))
=============================================================================
