---------------------------- MODULE MCMegaPipeline ----------------------------
(* Instances of MegaPipeline for TLC: queues of three instructions, in     *)
(* which a slot and every page are used again and the stages of every      *)
(* operation come round, with fewer blocks than there are stages as well.  *)
EXTENDS PipelineOrder

MCWarps == {<<"loader", 0>>, <<"storer", 0>>, <<"launcher", 0>>} \cup ({"consumer"} \X Consumers)

I(op, iters, after) == [op |-> op, iters |-> iters, after |-> after]
noop == I("noop", 0, None)

MCPrograms ==
    {<<I("rms_qkv", 1, None), attend(1, 1, 0, 0), I("matvec_add", 1, None)>>,
     <<I("upgate", 4, None), I("matvec_add", 1, 0), noop>>,
     <<I("matvec_add", 2, None), noop, I("upgate", 2, 0)>>,
     <<attend(16, 4, 3, None), I("matvec_add", 2, None), attend(1, 2, 1, None)>>}

(* What the proofs ask of the operations, of every operation: whatever its *)
(* block count and its producer, and for attention whatever the part, an   *)
(* instruction's code is ordered, but for attention                        *)
(* - with skip_attn_reduction;                                             *)
(* - whose part does not start at a stage's first block, since the         *)
(*   launcher counts stages from the start of the cache, the consumer from *)
(*   the start of the part;                                                *)
(* - whose part has the newest block and is not the last.                  *)
Matvec == {I(op, iters, after) : op \in {"rms_qkv", "matvec_add"}, iters \in 1 .. 8, after \in {None, 0}}
          \cup {I("upgate", 2 * k, after) : k \in 1 .. 4, after \in {None, 0}}

Attention == UNION {{attend(total, parts, part, after) : part \in 0 .. parts - 1} :
                       total \in 1 .. 8, parts \in 1 .. 4, after \in {None, 0}}

StartsAtStage(inst) == inst.iters = 0 \/ Stage(inst.start) = 0
NewestIsAwaited(inst) == inst.newest /\ gmem_wait(inst) => inst.last

AnyInstruction == Matvec \cup Attention \cup {noop}

AnyRuns == [inst \in AnyInstruction |-> [t \in Threads |-> Run(inst, t)]]
AnyCounts == [inst \in AnyInstruction |-> init_semaphores(inst)]
AnyRounds == [inst \in AnyInstruction |-> Rounds(AnyRuns[inst], AnyCounts[inst])]
AnyBefore == [inst \in AnyInstruction |-> Before(AnyRuns[inst], AnyRounds[inst])]

ASSUME OperationsOrdered ==
    \A inst \in AnyInstruction :
        Ordered(inst, AnyRuns[inst], AnyCounts[inst], AnyRounds[inst], AnyBefore[inst])
            <=> \/ inst.op # "attend"
                \/ ~skip_attn_reduction /\ StartsAtStage(inst) /\ NewestIsAwaited(inst)

(* All of them store all of their blocks before the counter has its mark,  *)
(* but for attention without skip_attn_reduction.                          *)
ASSUME OperationsStore ==
    \A inst \in AnyInstruction :
        OutputsStored(inst, AnyRuns[inst], AnyBefore[inst])
            <=> inst.op # "attend" \/ skip_attn_reduction

ASSUME AllOrdered <=> ~skip_attn_reduction
ASSUME BitsTell
===============================================================================
