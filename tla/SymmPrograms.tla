----------------------------- MODULE SymmPrograms -----------------------------
(***************************************************************************)
(* The kernels that synchronise and move data over the symmetric memory of *)
(* the ranks of a node, as what their CTAs, their streams and their GEMM   *)
(* tiles do step by step; SymmKernels runs them.                           *)
(*                                                                         *)
(* A call of a kernel is a record                                          *)
(*   code     the instructions of its CTAs, in program order               *)
(*   entered, left   how many mesh barriers begin and end before each      *)
(*            instruction                                                  *)
(*   memcpy   what the host fills before the launch: "all" of this rank's  *)
(*            buffer, its "own" segment, or "none"                         *)
(*   script   per rank, what a stream does when the kernel has ended       *)
(*   tiles    per rank, the ranks each GEMM tile reads and waits for       *)
(*   bump     by how much the host raises the context's phase              *)
(***************************************************************************)
EXTENDS Integers, FiniteSets, SequencesExt

------------------------------------------------------------------------------
(* Instructions.  Unless said otherwise every CTA of the kernel runs one.  *)

(* pid 0 only.  Thread t stores the phase plus add in rank t's flag of     *)
(* this rank, then waits until this rank's flag of t equals it.            *)
once_block(half, add) ==
    [op |-> "exchange", half |-> half, add |-> add, self |-> TRUE]

(* The all-reduce's own exchange at its end leaves out the rank itself.    *)
signal_exchange == [op |-> "exchange", half |-> 2, add |-> 0, self |-> FALSE]

(* pid 0 only.  Thread t raises rank t's flag of this rank from 0 to 1,    *)
(* then lowers this rank's flag of t from 1 to 0.                          *)
atomic_cas_block == [op |-> "cas", half |-> 0, add |-> 0, self |-> TRUE]

(* pid 0 only: NVSHMEM's own barrier, over all ranks.                      *)
barrier_all_block == [op |-> "sync"]

barrier_on_this_grid == [op |-> "grid"]

(* Two exchanges, on two rows of flags, make a barrier.                    *)
non_atomic_block(add) == <<once_block(0, add), once_block(1, add)>>

barrier_all_intra_node_non_atomic(add) ==
    <<once_block(0, add), barrier_on_this_grid, once_block(1, add), barrier_on_this_grid>>

(* pid 0 only: the signals of these rows are set to 0.                     *)
ClearSignals(rows) == [op |-> "clear", rows |-> rows]

(* Every thread waits until its rank's signal in this row is 1.            *)
AwaitSignals(half, self) == [op |-> "await", half |-> half, self |-> self]

(* The steps that touch the data; what they read and write is in Reads and *)
(* Writes of SymmKernels.                                                  *)
Data(name) == [op |-> name]

------------------------------------------------------------------------------
(* How many of these instructions come before the i-th.                    *)
Before(code, marked) == [i \in 1 .. Len(code) + 1 |-> Cardinality({m \in marked : m < i})]

Call(n, code, barriers, bump) ==
    [code |-> code, memcpy |-> "none", bump |-> bump,
     entered |-> Before(code, {b[1] : b \in barriers}),
     left |-> Before(code, {b[2] : b \in barriers}),
     script |-> [r \in 0 .. n - 1 |-> <<>>], tiles |-> [r \in 0 .. n - 1 |-> <<>>]]

(* barrier_all_on_stream, with and without atomics over the link.          *)
BarrierOnStream(n, atomic) ==
    IF atomic THEN Call(n, <<atomic_cas_block>>, {<<1, 1>>}, 0)
              ELSE Call(n, non_atomic_block(0), {<<1, 2>>}, 1)

(* All-reduce by multimem loads: copy in, barrier, reduce, tell everybody. *)
(* The first barrier is pid 0's alone.                                     *)
OneShotMultimem(n, ctas, atomic) ==
    LET barrier == IF atomic THEN <<atomic_cas_block>> ELSE non_atomic_block(0)
        grid == IF ctas = 1 THEN <<>> ELSE <<barrier_on_this_grid>>
    IN  Call(n, <<Data("copy")>> \o barrier \o grid \o <<Data("ld_reduce")>> \o grid
                 \o <<signal_exchange>>,
             {<<2, 1 + Len(barrier)>>}, 1)

(* In place on the symmetric buffer: each rank reduces and stores a slice. *)
TwoShotMultimem(n) ==
    [Call(n, <<barrier_all_block, barrier_on_this_grid, Data("reduce_st"),
            barrier_on_this_grid, barrier_all_block>>, {}, 0)
        EXCEPT !.memcpy = "all",
               !.script = [r \in 0 .. n - 1 |-> <<[op |-> "out"]>>]]

(* All-gather of the whole inputs by push, then a local reduction.         *)
OneShotPush(n) ==
    Call(n, <<ClearSignals({0}), barrier_all_block, barrier_on_this_grid,
           Data("push"), AwaitSignals(0, TRUE), Data("ring_reduce")>>, {}, 0)

(* Scatter by push and a local reduction, then an all-gather by push.      *)
TwoShotPush(n) ==
    Call(n, <<ClearSignals({0, 1}), barrier_all_block, barrier_on_this_grid,
           Data("scatter"), AwaitSignals(0, TRUE), Data("reduce_slice"), barrier_on_this_grid,
           Data("push_slice"), AwaitSignals(1, FALSE), Data("copy_out")>>, {}, 0)

(* A process calls kernels one after the other; phases has the phase each  *)
(* is called with, passed counts the mesh barriers of the calls before.    *)
Program(n, num_ctas, everyone, calls) ==
    [ranks |-> n, ctas |-> num_ctas, everyone |-> everyone, calls |-> calls,
     phases |-> [k \in DOMAIN calls |-> 1 + SumFunction([i \in 1 .. k - 1 |-> calls[i].bump])],
     passed |-> [k \in DOMAIN calls |->
                    SumFunction([i \in 1 .. k - 1 |-> calls[i].left[Len(calls[i].code) + 1]])]]

------------------------------------------------------------------------------
(* allgather_gemm.py.  The prologue, then the copy engine's all-gather and *)
(* the GEMM next to each other.                                            *)
copy_and_barrier_all ==
    barrier_all_intra_node_non_atomic(0) \o <<Data("copy"), Data("set_ready")>>
        \o barrier_all_intra_node_non_atomic(1)

(* local_copy = False: the caller has written its own rows already.        *)
barrier_all_without_copy ==
    barrier_all_intra_node_non_atomic(0) \o <<Data("set_ready")>>
        \o barrier_all_intra_node_non_atomic(1)

WaitSegment(seg) == [op |-> "wait", seg |-> seg]
CopySegment(seg, src, dst) == [op |-> "copy", seg |-> seg, src |-> src, dst |-> dst]
SignalSegment(seg, dst) == [op |-> "signal", seg |-> seg, dst |-> dst]

(* allgather.py: what the all-gather's stream of each rank does, stage by  *)
(* stage.                                                                  *)
full_mesh_pull(n, rank) ==
    LET Stage(s) == LET src == (rank + s + 1) % n
                    IN  <<CopySegment(src, src, rank), SignalSegment(src, rank)>>
    IN  FlattenSeq([s \in 1 .. n - 1 |-> Stage(s - 1)])

(* A stage of a ring: wait for the segment unless it is the rank's own,    *)
(* hand it on, signal it.                                                  *)
PushStage(seg, rank, to_rank, waits) ==
    (IF waits THEN <<WaitSegment(seg)>> ELSE <<>>)
        \o <<CopySegment(seg, rank, to_rank), SignalSegment(seg, to_rank)>>

ring_push_1d(n, rank) ==
    LET Stage(s) == PushStage((rank + s) % n, rank, (rank - 1 + n) % n, s # 0)
    IN  FlattenSeq([s \in 1 .. n - 1 |-> Stage(s - 1)])

(* Two NUMA nodes.  The first rank of a node turns to its own node once it *)
(* has handed NUMA_WORLD_SIZE segments to the other.                       *)
ring_push_numa_2d(n, numa, rank) ==
    LET to_rank_numa == ((rank - 1 + numa) % numa) + (rank \div numa) * numa
        is_2d_stage(s) == s >= numa /\ rank % numa = 0
        Stage(s) ==
            IF is_2d_stage(s)
            THEN PushStage((rank + s + numa) % n, rank, to_rank_numa, TRUE)
            ELSE PushStage((rank + s) % n, rank, (rank - 1 + n) % n, s # 0)
    IN  FlattenSeq([s \in 1 .. n - 1 |-> Stage(s - 1)])

(* rank_beg to rank_end of a tile that ends before row end.                *)
RanksWaitedFor(offs_am, end, M_per_rank) ==
    offs_am \div M_per_rank .. (end - 1) \div M_per_rank

cdiv(a, b) == (a + b - 1) \div b

(* The i-th tile of rank's GEMM: the ranks whose rows it reads, and those  *)
(* it waits for.  Tiles start with the rank's own rows, and may cross into *)
(* the next rank's.                                                        *)
GemmTiles(n, M_per_rank, block, persistent, rank) ==
    LET M == n * M_per_rank
        num_pid_m == cdiv(M, block)
        own == IF persistent THEN rank * cdiv(M_per_rank, block)
                             ELSE cdiv(M_per_rank * rank, block)
        offs_am(i) == ((i - 1 + own) % num_pid_m) * block
        end(i) == IF offs_am(i) + block < M THEN offs_am(i) + block ELSE M
    IN  [i \in 1 .. num_pid_m |->
            [reads |-> {row \div M_per_rank : row \in offs_am(i) .. end(i) - 1},
             waits |-> RanksWaitedFor(offs_am(i), end(i), M_per_rank)]]

(* One call of ag_gemm; the phase is raised by the two barriers' worth.    *)
AgGemm(n, prologue, barriers, script, tiles) ==
    [Call(n, prologue, barriers, 2) EXCEPT !.script = script, !.tiles = tiles]
===============================================================================
