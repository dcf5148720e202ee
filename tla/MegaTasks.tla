------------------------------ MODULE MegaTasks ------------------------------
(***************************************************************************)
(* The compile-time half of the Triton mega kernel: the task builders of   *)
(* tasks/, which cut an operator into tiles and describe what a tile       *)
(* depends on, and core/graph.py, which turns the descriptions into waits. *)
(*                                                                         *)
(* A buffer is a name; its elements are numbered row by row, so that a     *)
(* reshape is the identity.  A task has the descriptors of the builder     *)
(* (`ins', `outs') and, separately, the elements its kernel really loads   *)
(* and stores (`reads', `writes'), one entry per input or output buffer.   *)
(* Weights are left out: no task produces them.                            *)
(***************************************************************************)
EXTENDS Integers, Sequences, SequencesExt

cdiv(x, y) == (x + y - 1) \div y

Least(x, y) == IF x < y THEN x ELSE y

(* Rows r .. r+nr-1 and columns c .. c+nc-1 of a buffer of that shape,     *)
(* clamped to it.                                                          *)
Slice(rows, cols, r, nr, c, nc) ==
    {i * cols + j : i \in r .. Least(r + nr, rows) - 1, j \in c .. Least(c + nc, cols) - 1}

(* A descriptor: some of the elements, or no descriptor at all, which      *)
(* stands for a dependence on everything.  One with start indices and      *)
(* sizes of different length fits no comparison.                           *)
Part(cells) == [full |-> FALSE, cells |-> cells, fits |-> TRUE]
Misfit(cells) == [Part(cells) EXCEPT !.fits = FALSE]
Whole == [full |-> TRUE, cells |-> {}, fits |-> TRUE]
Nothing == Part({})

Task(tile, ins, outs, reads, writes) ==
    [tile |-> tile, ins |-> ins, outs |-> outs, reads |-> reads, writes |-> writes]

(* The rows or columns first .. first+block-1; what is beyond the last is  *)
(* sent to the first of all.                                               *)
Wrapped(first, block, size) == {IF i < size THEN i ELSE 0 : i \in first .. first + block - 1}

(* x (M x K) times a weight gives M x N.  Lanes beyond the last row load   *)
(* row 0; what is computed from it is not stored.                          *)
LinearTasks(M, N, K, BM, BN) ==
    [tile \in 0 .. cdiv(M, BM) * cdiv(N, BN) - 1 |->
        LET tm == tile \div cdiv(N, BN)
            tn == tile % cdiv(N, BN)
            x == Slice(M, K, tm * BM, BM, 0, K)
            y == Slice(M, N, tm * BM, BM, tn * BN, BN)
        IN Task(tile, <<Part(x)>>, <<Part(y)>>,
                <<{i * K + j : i \in Wrapped(tm * BM, BM, M), j \in 0 .. K - 1}>>, <<y>>)]

(* Lanes beyond the last row or column are sent to row or column 0, for    *)
(* the loads and for the stores.                                           *)
SiluMulUpTasks(M, N, BM, BN) ==
    [tile \in 0 .. cdiv(M, BM) * cdiv(N, BN) - 1 |->
        LET tm == tile \div cdiv(N, BN)
            tn == tile % cdiv(N, BN)
            bm == Least(BM, M - tm * BM)
            bn == Least(BN, N - tn * BN) + N
            rows == Wrapped(tm * BM, BM, M)
            cols == Wrapped(tn * BN, BN, N)
        IN Task(tile, <<Part(Slice(M, 2 * N, tm * BM, bm, tn * BN, bn))>>,
                <<Part(Slice(M, N, tm * BM, BM, tn * BN, BN))>>,
                <<{i * 2 * N + j : i \in rows, j \in cols \cup {j + N : j \in cols}}>>,
                <<{i * N + j : i \in rows, j \in cols}>>)]

AddTasks(n, B) ==
    [tile \in 0 .. cdiv(n, B) - 1 |->
        LET s == Slice(1, n, 0, 1, tile * B, B)
        IN Task(tile, <<Part(s), Part(s)>>, <<Part(s)>>, <<s, s>>, <<s>>)]

RMSNormTasks(M, N) ==
    [tile \in 0 .. M - 1 |->
        LET row == Slice(M, N, tile, 1, 0, N)
        IN Task(tile, <<Part(row)>>, <<Part(row)>>, <<row>>, <<row>>)]

(* A packed q|k|v row is split by heads, of one element each, into three   *)
(* buffers: a tile fills one of them and describes the other two as empty. *)
QKVSplitTasks(seq, BS, heads, kvHeads) ==
    LET total == heads + 2 * kvHeads
        group == heads \div kvHeads
    IN [tile \in 0 .. cdiv(seq, BS) * total - 1 |->
        LET type == tile % (group + 2)
            groupId == (tile % total) \div (group + 2)
            row == (tile \div total) * BS
            headOut == IF type < group THEN groupId * group + type ELSE groupId
            headIn == IF type < group THEN headOut
                      ELSE IF type = group THEN headOut + heads
                      ELSE headOut + heads + kvHeads
            x == Slice(seq, total, row, BS, headIn, 1)
            y == Slice(seq, IF type < group THEN heads ELSE kvHeads, row, BS, headOut, 1)
            filled == IF type < group THEN 1 ELSE IF type = group THEN 2 ELSE 3
        IN Task(tile, <<Part(x)>>, [o \in 1..3 |-> IF o = filled THEN Part(y) ELSE Nothing],
                <<x>>, [o \in 1..3 |-> IF o = filled THEN y ELSE {}])]

(* Heads of one element; a tile is a block of rows of one query head.  The *)
(* descriptors of k and v end with the tile's own rows; the kernel stops   *)
(* there only if the attention is causal.                                  *)
FlashAttnTasks(seq, BM, heads, kvHeads, causal) ==
    [tile \in 0 .. heads * cdiv(seq, BM) - 1 |->
        LET m == tile % cdiv(seq, BM)
            hq == tile \div cdiv(seq, BM)
            hkv == hq \div (heads \div kvHeads)
            q == Slice(seq, heads, m * BM, BM, hq, 1)
            kv == Slice(seq, kvHeads, 0, (m + 1) * BM, hkv, 1)
            seen == IF causal THEN kv ELSE Slice(seq, kvHeads, 0, seq, hkv, 1)
        IN Task(tile, <<Part(q), Part(kv), Part(kv)>>, <<Misfit(q)>>, <<q, seen, seen>>, <<q>>)]

(* The same on a packed q|k|v.  The descriptor has the tile's own rows, of *)
(* the heads from its query head to the one before its value head.         *)
QKVPackFlashAttnTasks(seq, BM, heads, kvHeads, causal) ==
    LET total == heads + 2 * kvHeads
    IN [tile \in 0 .. heads * cdiv(seq, BM) - 1 |->
        LET m == tile % cdiv(seq, BM)
            hq == tile \div cdiv(seq, BM)
            hkv == hq \div (heads \div kvHeads)
            seen == IF causal THEN (m + 1) * BM ELSE seq
            q == Slice(seq, total, m * BM, BM, hq, 1)
            k == Slice(seq, total, 0, seen, heads + hkv, 1)
            v == Slice(seq, total, 0, seen, heads + kvHeads + hkv, 1)
            o == Slice(seq, heads, m * BM, BM, hq, 1)
        IN Task(tile, <<Part(Slice(seq, total, m * BM, BM, hq, heads + kvHeads + hkv - hq))>>,
                <<Misfit(o)>>, <<q \cup k \cup v>>, <<o>>)]

(* The builders that give no descriptors: the KV-cache update, the split   *)
(* and combine of paged attention, the all-reduce.  Every tile may read    *)
(* all of the inputs; output o of size sizes[o] is dealt out to the tiles. *)
UndescribedTasks(n, inSizes, outSizes) ==
    [tile \in 0 .. n - 1 |->
        Task(tile, [i \in DOMAIN inSizes |-> Whole], [o \in DOMAIN outSizes |-> Whole],
             [i \in DOMAIN inSizes |-> 0 .. inSizes[i] - 1],
             [o \in DOMAIN outSizes |-> {c \in 0 .. outSizes[o] - 1 : c % n = tile}])]

(* The barrier has the buffers it waits for as inputs and as outputs, only *)
(* to be ordered; it touches none of them.                                 *)
BarrierTasks == [tile \in {0} |-> Task(0, <<Whole>>, <<Whole>>, <<{}>>, <<{}>>)]

PrefetchTasks == [tile \in {0} |-> Task(0, <<>>, <<>>, <<>>, <<>>)]

(* An operator of a model: its layer, its tiles in order, its buffers, and *)
(* whether it is a prefetch, which is no node of the graph and whose tasks *)
(* never release a tile.                                                   *)
Op(layer, tiles, in, out) ==
    [layer |-> layer, tiles |-> tiles, in |-> in, out |-> out, prefetch |-> FALSE]
PrefetchOp(layer) ==
    [layer |-> layer, tiles |-> PrefetchTasks, in |-> <<>>, out |-> <<>>, prefetch |-> TRUE]

------------------------------------------------------------------------------
get_task_id(ops, i) == Len(SelectSeq(SubSeq(ops, 1, i - 1), LAMBDA o : o.layer = ops[i].layer))

TaskDependency(layer, id, start, end) ==
    [layer |-> layer, id |-> id, start |-> start, end |-> end]

(* The last operator before i that has the buffer as an output.            *)
find_producer(ops, i, buffer) ==
    {p \in 1 .. i - 1 : /\ ~ops[p].prefetch
                        /\ buffer \in Range(ops[p].out)
                        /\ \A q \in p + 1 .. i - 1 : buffer \notin Range(ops[q].out)}

(* Mutant of has_data_dependency: a missing descriptor counts as empty.    *)
TilesMeet(consumer, producer, outIdx, inIdx) ==
    consumer.ins[inIdx].cells \cap producer.outs[outIdx].cells # {}

has_data_dependency(consumer, producer, outIdx, inIdx) ==
    \/ consumer.ins[inIdx].full
    \/ producer.outs[outIdx].full
    \/ consumer.ins[inIdx].cells \cap producer.outs[outIdx].cells # {}

(* The maximal runs of consecutive tile numbers, in order.                 *)
_list_to_intervals(nums) ==
    LET starts == SetToSortSeq({x \in nums : x - 1 \notin nums}, <)
        EndOf(x) == CHOOSE y \in {n + 1 : n \in nums} :
                        y > x /\ y \notin nums /\ \A z \in x .. y - 1 : z \in nums
    IN [i \in DOMAIN starts |-> <<starts[i], EndOf(starts[i])>>]

_deps_list_to_dependency(nums, layer, id) ==
    [i \in DOMAIN _list_to_intervals(nums) |->
        TaskDependency(layer, id, _list_to_intervals(nums)[i][1], _list_to_intervals(nums)[i][2])]

(* Which of the producer's outputs the buffer is: the last one set counts. *)
src_out_idx(ops, p, buffer) ==
    CHOOSE o \in DOMAIN ops[p].out :
        /\ ops[p].out[o] = buffer
        /\ \A o2 \in DOMAIN ops[p].out : ops[p].out[o2] = buffer => o2 <= o

(* No assertion of has_slice_intersection fails: all descriptors that are  *)
(* compared fit.                                                           *)
Compiles(ops) ==
    \A i \in DOMAIN ops : \A idx \in DOMAIN ops[i].in :
        \A p \in find_producer(ops, i, ops[i].in[idx]) :
            \A consumer \in Range(ops[i].tiles), producer \in Range(ops[p].tiles) :
                \/ consumer.ins[idx].full
                \/ producer.outs[src_out_idx(ops, p, ops[i].in[idx])].fits

(* The waits of one task: for each of its inputs, in order.                *)
GraphDependency(ops, i, task) ==
    LET ForInput(idx) ==
            LET producer == find_producer(ops, i, ops[i].in[idx]) IN
            IF producer = {} THEN <<>>
            ELSE LET p == CHOOSE p \in producer : TRUE
                     outIdx == src_out_idx(ops, p, ops[i].in[idx])
                 IN _deps_list_to_dependency(
                        {t \in DOMAIN ops[p].tiles : has_data_dependency(task, ops[p].tiles[t], outIdx, idx)},
                        ops[p].layer, get_task_id(ops, p))
    IN FlattenSeq([idx \in DOMAIN ops[i].in |-> ForInput(idx)])

(* Without the graph a task waits for all of the operator before it; a     *)
(* prefetch waits for nothing and nobody waits for it.                     *)
LastDependency(ops, i) ==
    LET before == {p \in 1 .. i - 1 : ~ops[p].prefetch}
        p == CHOOSE p \in before : \A q \in before : q <= p
    IN IF ops[i].prefetch \/ before = {} THEN <<TaskDependency(-1, -1, 0, 0)>>
       ELSE <<TaskDependency(ops[p].layer, get_task_id(ops, p), 0, Cardinality(DOMAIN ops[p].tiles))>>

(* The elements of buffers that are touched, and those of them that the    *)
(* descriptors do not name.                                                *)
Named(buffers, cells) == UNION {{<<buffers[b], c>> : c \in cells[b]} : b \in DOMAIN buffers}
Beyond(descs, cells) == [b \in DOMAIN cells |-> IF descs[b].full THEN {} ELSE cells[b] \ descs[b].cells]

(* What the scheduler and the kernel know of a task, what it touches, and  *)
(* what it touches without a word in the descriptors its waits are made of.*)
Compiled(ops, i, tile, dependency, ins) ==
    LET op == ops[i]
        task == op.tiles[tile]
    IN [layer |-> op.layer, id |-> get_task_id(ops, i), tile |-> tile,
        num_tiles |-> Cardinality(DOMAIN op.tiles),
        releases |-> ~op.prefetch,
        dependency |-> dependency,
        reads |-> Named(op.in, task.reads),
        writes |-> Named(op.out, task.writes),
        strays |-> Named(op.in, Beyond(ins, task.reads))
                       \cup Named(op.out, Beyond(task.outs, task.writes))]

(* All tasks in program order, with the waits of the graph ...             *)
to_tasks(ops) ==
    FlattenSeq([i \in DOMAIN ops |->
        IF ops[i].prefetch THEN <<>>
        ELSE [t \in 1 .. Cardinality(DOMAIN ops[i].tiles) |->
                 LET task == ops[i].tiles[t - 1]
                 IN Compiled(ops, i, t - 1, GraphDependency(ops, i, task), task.ins)]])

(* ... or of the operator before, which are for all of its inputs.         *)
megakernel_tasks(ops) ==
    FlattenSeq([i \in DOMAIN ops |->
        [t \in 1 .. Cardinality(DOMAIN ops[i].tiles) |->
            Compiled(ops, i, t - 1, LastDependency(ops, i), [b \in DOMAIN ops[i].in |-> Whole])]])
==============================================================================
