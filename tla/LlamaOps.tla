------------------------------- MODULE LlamaOps -------------------------------
(***************************************************************************)
(* The operations of the low-latency Llama demo as what the threads of a   *)
(* CTA do for one instruction, step by step; MegaPipeline runs them.       *)
(*                                                                         *)
(* An instruction is [op, iters, after], op its operation, iters the       *)
(* blocks it loops over, after the instruction whose output it reads, or   *)
(* None; see attend for the fields that partial attention has besides.  A  *)
(* page of STAGE_PAGES pages is one page here, so that lid 0 is the        *)
(* activation page and lid 1 + s the weights of stage s.                   *)
(***************************************************************************)
EXTENDS Integers, SequencesExt

CONSTANTS NUM_CONSUMER_WARPS,
          skip_attn_reduction

None == -1
STAGES == 3        \* INPUT_, OUTPUT_PIPELINE_STAGES and NUM_STAGES
NUM_PAGES == 1 + STAGES
Lids == 0 .. NUM_PAGES - 1
Scratch == NUM_PAGES   \* the slot's own scratch memory, next to the pages

Consumers == 0 .. NUM_CONSUMER_WARPS - 1

Stage(i) == i % STAGES
Turn(i) == (i \div STAGES) % 2

------------------------------------------------------------------------------
(* A step of a thread: what it waits for, what it then does with memory,   *)
(* and whom it lets go on.  It is one action: a wait commutes with what    *)
(* other threads do before it, an arrival with what they do after it, and  *)
(* the properties say at every step that may be taken that its memory is   *)
(* not another thread's to change.                                         *)
(*   wait      semaphores of the instruction, each with a parity           *)
(*   take      lids whose page must be ready                               *)
(*   gmem      spins on the counter of the instruction before              *)
(*   sync      meets the other consumer warps                              *)
(*   flush     waits for the stores under way                              *)
(*   reads, writes   <<lid, region, value>>; input: made of the output of  *)
(*             the instruction before                                      *)
(*   load      <<lid, region, value, semaphore>>: asynchronous loads       *)
(*   put       <<lid, block>>: asynchronous stores to global memory        *)
(*   arrive    semaphores; finish: <<lid, count>>; add: to the counter     *)
Step0 == [wait |-> {}, take |-> {}, gmem |-> FALSE, sync |-> FALSE, flush |-> FALSE,
          reads |-> {}, writes |-> {}, input |-> FALSE, load |-> {}, put |-> {},
          arrive |-> {}, finish |-> {}, add |-> 0]

GroupSync == [Step0 EXCEPT !.sync = TRUE]

Loop(n, body) == FlattenSeq([k \in 1 .. n |-> body[k - 1]])
Least(a, b) == IF a < b THEN a ELSE b
If(condition, set) == IF condition THEN set ELSE {}

------------------------------------------------------------------------------
(* What the barrier counter reaches when an instruction is done.           *)
Blocks(inst) == CASE inst.op = "upgate" -> inst.iters \div 2
                  [] inst.op = "attend" -> 1
                  [] inst.op \in {"rms_qkv", "matvec_add"} -> inst.iters
                  [] inst.op = "noop" -> 0

Matvecs == {"rms_qkv", "upgate", "matvec_add"}
RmsMatvecs == {"rms_qkv", "upgate"}

(* The lids in the order in which they are released, for the next          *)
(* instruction's pages.                                                    *)
release_lid(inst) ==
    IF inst.op = "noop" THEN <<0, 1, 2, 3>>
    ELSE IF inst.op = "attend" THEN <<2, 3, 0, 1>>
    ELSE IF inst.iters = 1 THEN <<2, 3, 0, 1>>
    ELSE IF inst.iters = 2 THEN <<3, 0, 1, 2>>
    ELSE CASE inst.iters % STAGES = 1 -> <<0, 2, 3, 1>>
           [] inst.iters % STAGES = 2 -> <<0, 3, 1, 2>>
           [] inst.iters % STAGES = 0 -> <<0, 1, 2, 3>>

(* The dynamic semaphores of an instruction and the arrivals they expect.  *)
init_semaphores(inst) ==
    IF inst.op \in Matvecs
    THEN [sem \in {"weights_arrived", "weights_finished", "outputs_arrived", "outputs_finished"}
                      \X (0 .. STAGES - 1) |->
            IF sem[1] \in {"weights_finished", "outputs_arrived"} THEN NUM_CONSUMER_WARPS ELSE 1]
         @@ (IF inst.op \in RmsMatvecs THEN <<"rms_scale_arrived", 0>> :> 1 ELSE <<>>)
         @@ (IF inst.op = "rms_qkv" THEN <<"rope_arrived", 0>> :> 1 ELSE <<>>)
    ELSE IF inst.op = "attend"
    THEN [sem \in {"KV_arrived", "KV_finished"} \X (0 .. STAGES - 1) |-> 1]
         @@ [sem \in {"O_arrived", "L_arrived"} \X {0} |-> 1]
    ELSE <<>>
------------------------------------------------------------------------------
(* The matvec pipeline: lane 0 of the loader streams the weights through   *)
(* three stages, the consumers multiply, the storer reduces and stores.    *)
weights_arrived(i) == <<"weights_arrived", Stage(i)>>
weights_finished(i) == <<"weights_finished", Stage(i)>>
outputs_arrived(i) == <<"outputs_arrived", Stage(i)>>
outputs_finished(i) == <<"outputs_finished", Stage(i)>>
rms_scale_arrived == <<"rms_scale_arrived", 0>>
rope_arrived == <<"rope_arrived", 0>>
WeightPage(i) == 1 + Stage(i)

(* A page that the operation does not use goes to the next one at once, by *)
(* the lane of the loader that has its number.                             *)
PassOn(lid) == <<[Step0 EXCEPT !.take = {lid}, !.finish = {<<lid, NUM_CONSUMER_WARPS>>}]>>

matvec_loader(inst, lid) ==
    IF lid = 0
    THEN Loop(inst.iters, [i \in 0 .. inst.iters - 1 |->
             <<[Step0 EXCEPT !.wait = {<<weights_finished(i), 1 - Turn(i)>>},
                             !.take = If(i < STAGES, {WeightPage(i)}),
                             !.load = {<<WeightPage(i), <<"weights", 0>>, i, weights_arrived(i)>>}]>>])
    ELSE IF lid >= 1 + Least(inst.iters, STAGES) THEN PassOn(lid) ELSE <<>>

(* Each consumer warp multiplies its part of the weights and adds its      *)
(* arrival to the stage's; in the last round it gives the pages back.      *)
Output(i, w) == <<Scratch, <<"out", Stage(i), w>>, i>>

matvec_consumer(inst, w) ==
    Loop(inst.iters, [i \in 0 .. inst.iters - 1 |->
        <<[Step0 EXCEPT !.wait = {<<weights_arrived(i), Turn(i)>>, <<outputs_finished(i), 1 - Turn(i)>>},
                        !.reads = {<<WeightPage(i), <<"weights", 0>>, i>>},
                        !.writes = {Output(i, w)},
                        !.arrive = {outputs_arrived(i), weights_finished(i)},
                        !.finish = If(i >= inst.iters - STAGES, {<<WeightPage(i), 1>>})]>>])

(* The storer waits for the i-th outputs, stores them and frees them; the  *)
(* up and gate outputs go together, those that are added to the residual   *)
(* are free before they are visible.                                       *)
Outputs(i) == {Output(i, w) : w \in Consumers}
TakeOutputs(i) == [Step0 EXCEPT !.wait = {<<outputs_arrived(i), Turn(i)>>}]

store(inst, i) ==
    CASE inst.op = "rms_qkv" ->
           <<[TakeOutputs(i) EXCEPT !.wait = @ \cup {<<rope_arrived, 0>>},
                                    !.reads = Outputs(i) \cup {<<Scratch, <<"rope", 0>>, 0>>},
                                    !.put = {<<Scratch, i>>}],
             [Step0 EXCEPT !.flush = TRUE, !.add = 1, !.arrive = {outputs_finished(i)}]>>
      [] inst.op = "upgate" /\ i % 2 = 0 -> <<TakeOutputs(i)>>
      [] inst.op = "upgate" /\ i % 2 = 1 ->
           <<[TakeOutputs(i) EXCEPT !.reads = Outputs(i - 1) \cup Outputs(i),
                                    !.put = {<<Scratch, i \div 2>>}],
             [Step0 EXCEPT !.flush = TRUE, !.add = 1,
                           !.arrive = {outputs_finished(i), outputs_finished(i - 1)}]>>
      [] inst.op = "matvec_add" ->
           <<[TakeOutputs(i) EXCEPT !.reads = Outputs(i), !.put = {<<Scratch, i>>},
                                    !.arrive = {outputs_finished(i)}]>>

matvec_storer(inst) ==
    Loop(inst.iters, [i \in 0 .. inst.iters - 1 |-> store(inst, i)])
    \o (IF inst.op = "matvec_add" THEN <<[Step0 EXCEPT !.flush = TRUE, !.add = inst.iters]>> ELSE <<>>)

(* Lane 0 of the loader also loads the rope table, and the rms scale next  *)
(* to the activations.                                                     *)
rms_loader(inst, lid) ==
    (IF lid = 0 /\ inst.op = "rms_qkv"
     THEN <<[Step0 EXCEPT !.load = {<<Scratch, <<"rope", 0>>, 0, rope_arrived>>}]>> ELSE <<>>)
    \o (IF lid = 0
        THEN <<[Step0 EXCEPT !.take = {0}, !.load = {<<0, <<"scale", 0>>, 0, rms_scale_arrived>>}]>>
        ELSE <<>>)
    \o matvec_loader(inst, lid)

gmem_wait(inst) == inst.after # None

(* Warp 0 waits for the activation page and for the producers, then every  *)
(* warp copies its part; with a scale, it takes the norm of all of them.   *)
Activations(w) == <<0, <<"act", w>>, 0>>
Sum(w) == <<Scratch, <<"sum", w>>, 0>>

consumer(inst, w) ==
    (IF w = 0 THEN <<[Step0 EXCEPT !.take = {0}, !.gmem = gmem_wait(inst)]>> ELSE <<>>)
    \o (IF inst.op \in RmsMatvecs
        THEN <<GroupSync,
               [Step0 EXCEPT !.writes = {Activations(w)}, !.input = TRUE],
               [Step0 EXCEPT !.wait = {<<rms_scale_arrived, 0>>},
                             !.reads = {Activations(w)}, !.writes = {Sum(w)}],
               GroupSync,
               [Step0 EXCEPT !.reads = {Sum(v) : v \in Consumers} \cup {<<0, <<"scale", 0>>, 0>>},
                             !.finish = {<<0, 1>>}]>>
        ELSE <<GroupSync,
               [Step0 EXCEPT !.writes = {Activations(w)}, !.input = TRUE, !.finish = {<<0, 1>>}]>>)
    \o matvec_consumer(inst, w)

------------------------------------------------------------------------------
(* Attention over one part of the KV cache: the launcher streams the K and *)
(* V blocks through page 1, one consumer warp folds them into O and L on   *)
(* page 0, the storer stores those.  K and V go through the same steps and *)
(* are one here.                                                           *)
KV(stage) == <<"kv", stage>>
O == <<0, <<"O", 0>>, 0>>
L == <<0, <<"L", 0>>, 0>>
O_arrived == <<"O_arrived", 0>>
L_arrived == <<"L_arrived", 0>>

(* The part number partial_idx of a cache of so many blocks: its first     *)
(* block, whether it has the cache's newest one, which is an output of the *)
(* instruction it comes after, and whether it is the last part.  Where     *)
(* blocks do not divide, the last parts can be empty.                      *)
attend(total_attn_blocks, num_partials, partial_idx, after) ==
    LET blocks_per_partial == (total_attn_blocks + num_partials - 1) \div num_partials
        start == partial_idx * blocks_per_partial
        end == Least(start + blocks_per_partial, total_attn_blocks)
    IN  [op |-> "attend", iters |-> IF start < end THEN end - start ELSE 0,
         start |-> start, newest |-> start < end /\ end = total_attn_blocks,
         last |-> partial_idx = num_partials - 1, after |-> after]

(* Only the last part waits for the newest block, whoever loads it.        *)
attend_launcher(inst) ==
    <<[Step0 EXCEPT !.take = {1}, !.finish = If(inst.iters = 0, {<<1, NUM_CONSUMER_WARPS>>})]>>
    \o Loop(inst.iters, [i \in 0 .. inst.iters - 1 |->
           LET stage == Stage(inst.start + i)
               final == i = inst.iters - 1
           IN  <<[Step0 EXCEPT
                    !.wait = If(i >= STAGES, {<<<<"KV_finished", stage>>, Turn(i - STAGES)>>}),
                    !.gmem = final /\ inst.last /\ gmem_wait(inst),
                    !.input = final /\ inst.newest,
                    !.load = {<<1, KV(stage), inst.start + i, <<"KV_arrived", stage>>>>}]>>])

attend_consumer(inst, w) == IF w # 0 THEN <<>> ELSE
    <<[Step0 EXCEPT !.gmem = gmem_wait(inst), !.take = {0},
                    !.writes = {<<0, <<"q", 0>>, 0>>}, !.input = TRUE]>>
    \o Loop(inst.iters, [i \in 0 .. inst.iters - 1 |->
           <<[Step0 EXCEPT !.wait = {<<<<"KV_arrived", Stage(i)>>, Turn(i)>>},
                           !.reads = {<<1, KV(Stage(i)), inst.start + i>>},
                           !.arrive = {<<"KV_finished", Stage(i)>>}]>>])
    \o (IF inst.iters > 0
        THEN <<[Step0 EXCEPT !.finish = {<<1, NUM_CONSUMER_WARPS>>}]>> ELSE <<>>)
    \o <<[Step0 EXCEPT !.writes = {O}, !.arrive = {O_arrived}],
         [Step0 EXCEPT !.writes = {L}, !.arrive = {L_arrived}]>>

(* store_o_no_skip asks for laneid == 0 outside the scope of run's laneid: *)
(* it names the function, which is not 0, so O is not stored.              *)
attend_storer ==
    (IF skip_attn_reduction
     THEN <<[Step0 EXCEPT !.wait = {<<O_arrived, 0>>}, !.reads = {O}, !.put = {<<0, 0>>}]>>
     ELSE <<[Step0 EXCEPT !.wait = {<<L_arrived, 0>>}, !.reads = {L}]>>)
    \o <<[Step0 EXCEPT !.flush = TRUE, !.finish = {<<0, NUM_CONSUMER_WARPS>>}, !.add = 1]>>

------------------------------------------------------------------------------
(* The threads whose progress differs: each lane of the loader, one thread *)
(* for each other warp.                                                    *)
Threads == {<<"loader", lid>> : lid \in Lids} \cup {<<"storer", 0>>, <<"launcher", 0>>}
           \cup {<<"consumer", w>> : w \in Consumers}

LoaderRun(inst, lid) == CASE inst.op = "noop" -> PassOn(lid)
                          [] inst.op \in RmsMatvecs -> rms_loader(inst, lid)
                          [] inst.op = "matvec_add" -> matvec_loader(inst, lid)
                          [] inst.op = "attend" -> IF lid >= 2 THEN PassOn(lid) ELSE <<>>

StorerRun(inst) == IF inst.op \in Matvecs THEN matvec_storer(inst)
                   ELSE IF inst.op = "attend" THEN attend_storer ELSE <<>>

ConsumerRun(inst, w) == IF inst.op \in Matvecs THEN consumer(inst, w)
                        ELSE IF inst.op = "attend" THEN attend_consumer(inst, w) ELSE <<>>

(* dispatch_op: what a thread runs for an instruction.                     *)
Run(inst, t) == CASE t[1] = "loader" -> LoaderRun(inst, t[2])
                  [] t[1] = "storer" -> StorerRun(inst)
                  [] t[1] = "launcher" -> IF inst.op = "attend" THEN attend_launcher(inst) ELSE <<>>
                  [] t[1] = "consumer" -> ConsumerRun(inst, t[2])
===============================================================================
