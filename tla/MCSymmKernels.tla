---------------------------- MODULE MCSymmKernels -----------------------------
(* Instances of SymmKernels for TLC.                                         *)
EXTENDS SymmOrder, SymmPrograms

Twice(c) == <<c, c>>

(* ag_gemm as it is called: two CTAs copy, tiles of two rows cross ranks of  *)
(* three rows.                                                               *)
AgPrologue == copy_and_barrier_all
AgBarriers == {<<1, 4>>, <<7, 10>>}

PerRank(n, Of(_)) == [r \in 0 .. n - 1 |-> Of(r)]

AgPull(n) == LET AllGather(r) == full_mesh_pull(n, r)
                 Tiling(r) == GemmTiles(n, 3, 4, TRUE, r)
             IN  AgGemm(n, AgPrologue, AgBarriers, PerRank(n, AllGather), PerRank(n, Tiling))

AgWithoutCopy(n) ==
    LET AllGather(r) == full_mesh_pull(n, r)
        Tiling(r) == GemmTiles(n, 2, 4, FALSE, r)
    IN  [AgGemm(n, barrier_all_without_copy, {<<1, 4>>, <<6, 9>>},
                PerRank(n, AllGather), PerRank(n, Tiling))
            EXCEPT !.memcpy = "own"]

(* The same with NVSHMEM's barrier in place of the one made of flags, for    *)
(* the rings over three and four ranks.                                      *)
SyncPrologue == <<barrier_all_block, barrier_on_this_grid, Data("copy"), Data("set_ready"),
                  barrier_on_this_grid, barrier_all_block>>

AgRing(n) == LET AllGather(r) == ring_push_1d(n, r)
                 Tiling(r) == GemmTiles(n, 1, 2, TRUE, r)
             IN  AgGemm(n, SyncPrologue, {}, PerRank(n, AllGather), PerRank(n, Tiling))
AgNuma(n, numa) ==
    LET AllGather(r) == ring_push_numa_2d(n, numa, r)
        Tiling(r) == GemmTiles(n, 1, 4, FALSE, r)
    IN  AgGemm(n, SyncPrologue, {}, PerRank(n, AllGather), PerRank(n, Tiling))

MCPrograms ==
    {Program(2, 2, TRUE, Twice(AgPull(2))),
     Program(2, 1, TRUE, <<AgWithoutCopy(2)>>),
     Program(3, 1, FALSE, Twice(AgRing(3))),
     Program(4, 1, FALSE, <<AgNuma(4, 2)>>),
     Program(2, 1, FALSE, Twice(BarrierOnStream(2, TRUE))),
     Program(2, 1, FALSE, Twice(BarrierOnStream(2, FALSE))),
     Program(3, 1, FALSE, <<BarrierOnStream(3, TRUE)>>),
     Program(2, 1, FALSE, <<OneShotMultimem(2, 1, TRUE), TwoShotMultimem(2), OneShotMultimem(2, 1, TRUE)>>),
     Program(2, 1, FALSE, <<OneShotMultimem(2, 1, FALSE), TwoShotMultimem(2), OneShotMultimem(2, 1, FALSE)>>),
     Program(2, 2, FALSE, Twice(TwoShotMultimem(2))),
     Program(2, 2, FALSE, Twice(OneShotPush(2))),
     Program(2, 2, FALSE, Twice(TwoShotPush(2)))}

(* The kernels keep to the same discipline among more ranks and with more    *)
(* CTAs than are run.                                                        *)
WiderPrograms(n) ==
    {Program(n, 2, TRUE, Twice(AgPull(n))),
     Program(n, 2, TRUE, <<AgWithoutCopy(n)>>),
     Program(n, 3, FALSE, Twice(AgRing(n))),
     Program(n, 2, FALSE, Twice(BarrierOnStream(n, TRUE))),
     Program(n, 2, FALSE, Twice(BarrierOnStream(n, FALSE))),
     Program(n, 1, FALSE, <<OneShotMultimem(n, 1, TRUE), TwoShotMultimem(n), OneShotMultimem(n, 1, TRUE)>>),
     Program(n, 3, FALSE, <<OneShotMultimem(n, 3, FALSE), TwoShotMultimem(n), OneShotMultimem(n, 3, FALSE)>>),
     Program(n, 3, FALSE, Twice(OneShotPush(n))),
     Program(n, 3, FALSE, Twice(TwoShotPush(n)))}

ASSUME WiderAssumption ==
    /\ \A n \in 2 .. 4 : \A p \in WiderPrograms(n) : Disciplined(p)
    /\ Disciplined(Program(8, 2, FALSE, Twice(AgNuma(8, 4))))

(* As allreduce_one_shot_multimem_intra_node launches it for more than 16 KB.*)
MCOneShot == {Program(2, 2, FALSE, <<OneShotMultimem(2, 2, TRUE)>>)}

(* What the proofs ask of the all-reduces, also among more ranks and with    *)
(* more CTAs than are run: all are in order, but the one above.              *)
WiderReduces ==
    {Program(3, 1, FALSE, <<OneShotMultimem(3, 1, FALSE), TwoShotMultimem(3), OneShotMultimem(3, 1, FALSE)>>),
     Program(3, 2, FALSE, Twice(TwoShotMultimem(3))),
     Program(3, 2, FALSE, Twice(OneShotPush(3))),
     Program(3, 3, FALSE, <<TwoShotPush(3)>>),
     Program(2, 2, FALSE, <<TwoShotPush(2), OneShotPush(2), TwoShotPush(2)>>)}

ASSUME ReducesAssumption ==
    /\ \A p \in WiderReduces : Disciplined(p) /\ Fresh(p)
    /\ AllFresh <=> Programs # MCOneShot
===============================================================================
