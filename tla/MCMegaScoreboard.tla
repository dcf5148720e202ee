--------------------------- MODULE MCMegaScoreboard ---------------------------
(* Instances of MegaScoreboard for TLC: small models, compiled by MegaTasks, *)
(* under every way the code can schedule them.                               *)
EXTENDS MegaScoreboard, MegaTasks

(* norm, fc1, gate and up, fc2, residual: two rows, a hidden size of two.    *)
MLP == <<Op(0, RMSNormTasks(2, 2), <<"x">>, <<"h">>),
         Op(0, LinearTasks(2, 4, 2, 2, 1), <<"h">>, <<"f">>),
         PrefetchOp(0),
         Op(0, SiluMulUpTasks(2, 2, 1, 1), <<"f">>, <<"a">>),
         Op(1, LinearTasks(2, 2, 2, 1, 2), <<"a">>, <<"y">>),
         Op(1, AddTasks(4, 3), <<"x", "y">>, <<"z">>)>>

(* qkv projection, head split, causal attention over two blocks of rows.     *)
Prefill == <<Op(0, LinearTasks(2, 3, 1, 1, 2), <<"x">>, <<"qkv">>),
             Op(0, QKVSplitTasks(2, 1, 1, 1), <<"qkv">>, <<"q", "k", "v">>),
             Op(0, FlashAttnTasks(2, 1, 1, 1, TRUE), <<"q", "k", "v">>, <<"o">>)>>

(* The same, not causal.                                                     *)
Encoder == <<Op(0, LinearTasks(2, 3, 1, 1, 3), <<"x">>, <<"qkv">>),
             Op(0, QKVSplitTasks(2, 1, 1, 1), <<"qkv">>, <<"q", "k", "v">>),
             Op(0, FlashAttnTasks(2, 1, 1, 1, FALSE), <<"q", "k", "v">>, <<"o">>)>>

(* qkv projection and causal attention on its packed result.                 *)
Packed == <<Op(0, LinearTasks(2, 3, 1, 1, 1), <<"x">>, <<"qkv">>),
            Op(0, QKVPackFlashAttnTasks(2, 1, 1, 1, TRUE), <<"qkv">>, <<"o">>)>>

(* Three rows in blocks of two: the second block of each operator is partial.*)
Ragged == <<Op(0, LinearTasks(3, 2, 1, 2, 2), <<"x">>, <<"f">>),
            Op(0, SiluMulUpTasks(3, 1, 2, 1), <<"f">>, <<"a">>),
            Op(1, LinearTasks(3, 1, 1, 2, 1), <<"a">>, <<"y">>)>>

(* KV-cache update, split and combine of paged attention, all-reduce.        *)
Decode == <<Op(0, UndescribedTasks(2, <<2>>, <<2, 2, 1>>), <<"qkv">>, <<"kc", "vc", "q">>),
            Op(0, UndescribedTasks(3, <<1, 2, 2>>, <<3, 3>>), <<"q", "kc", "vc">>, <<"part", "lse">>),
            Op(0, UndescribedTasks(1, <<3, 3>>, <<2>>), <<"part", "lse">>, <<"o">>),
            Op(0, BarrierTasks, <<"o">>, <<"o">>),
            Op(0, UndescribedTasks(2, <<2>>, <<2>>), <<"o">>, <<"r">>)>>

Compile(ops, dep_opt, strategy, runtime, prefetch) ==
    [tasks |-> IF dep_opt THEN to_tasks(ops) ELSE megakernel_tasks(ops),
     built |-> megakernel_tasks(ops),
     strategy |-> strategy, runtime |-> runtime, prefetch |-> prefetch]

(* Every model under every scheduling, with and without the graph's waits  *)
(* and with and without prefetching.                                       *)
Scheduled(ops, dep_opt, prefetch) ==
    {Compile(ops, dep_opt, "round_robin", FALSE, prefetch),
      Compile(ops, dep_opt, "zig_zag", FALSE, prefetch),
      Compile(ops, dep_opt, "round_robin", TRUE, prefetch)}

AllWays(ops) == UNION {Scheduled(ops, dep_opt, prefetch) :
                           dep_opt \in BOOLEAN, prefetch \in BOOLEAN}

Models == {MLP, Prefill, Encoder, Packed, Ragged, Decode}

MCPlans == UNION {AllWays(ops) : ops \in Models}

ASSUME ModelsCompile == \A ops \in Models : Compiles(ops)

(* The output descriptor of attention fits no comparison: after it, only an  *)
(* operator that needs all of its input compiles.                            *)
ASSUME AttentionMisfits ==
    \A attention \in {FlashAttnTasks(2, 1, 1, 1, TRUE), QKVPackFlashAttnTasks(2, 1, 1, 1, TRUE)} :
        LET Then(tiles) == <<Op(0, attention, <<"q", "k", "v">>, <<"o">>), Op(0, tiles, <<"o">>, <<"y">>)>>
        IN /\ ~Compiles(Then(LinearTasks(2, 1, 1, 1, 1)))
           /\ Compiles(Then(UndescribedTasks(1, <<2>>, <<2>>)))

(* Which builders' kernels go beyond their descriptors: the activation and   *)
(* the projection exactly if a block after the first is partial, attention   *)
(* exactly if it is not causal and has two blocks, packed attention always.  *)
GoesBeyond(tiles) ==
    \E t \in Range(tiles) : \E b \in DOMAIN t.reads \cup DOMAIN t.writes :
        \/ b \in DOMAIN t.reads /\ Beyond(t.ins, t.reads)[b] # {}
        \/ b \in DOMAIN t.writes /\ Beyond(t.outs, t.writes)[b] # {}

PartialAfterFirst(size, block) == size > block /\ size % block # 0

ASSUME BuildersBeyond ==
    /\ \A M, N \in 1 .. 4, BM, BN \in 1 .. 3 :
          /\ GoesBeyond(LinearTasks(M, N, 2, BM, BN)) <=> PartialAfterFirst(M, BM)
          /\ GoesBeyond(SiluMulUpTasks(M, N, BM, BN))
                 <=> PartialAfterFirst(M, BM) \/ PartialAfterFirst(N, BN)
          /\ ~GoesBeyond(AddTasks(M, BM)) /\ ~GoesBeyond(RMSNormTasks(M, N))
    /\ \A seq \in 1 .. 4, block \in 1 .. 3, causal \in BOOLEAN :
          \A heads \in {<<1, 1>>, <<2, 1>>, <<2, 2>>} :
              /\ GoesBeyond(FlashAttnTasks(seq, block, heads[1], heads[2], causal))
                     <=> ~causal /\ seq > block
              /\ GoesBeyond(QKVPackFlashAttnTasks(seq, block, heads[1], heads[2], causal))
              /\ ~GoesBeyond(QKVSplitTasks(seq, block, heads[1], heads[2]))

(* Where two tasks meet at what neither waits for, and so, by                *)
(* CompiledInOrder, are not ordered.  The waits of the program order cover   *)
(* all loads, but not the stores of a partial block.                         *)
ASSUME UnorderedModels ==
    \A ops \in Models, dep_opt \in BOOLEAN :
        StraysMeet(Compile(ops, dep_opt, "round_robin", FALSE, FALSE))
            <=> ops \in (IF dep_opt THEN {Encoder, Packed, Ragged} ELSE {Ragged})
===============================================================================
