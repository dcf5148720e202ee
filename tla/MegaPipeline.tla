---------------------------- MODULE MegaPipeline -----------------------------
(***************************************************************************)
(* One CTA of the Megakernels interpreter at work on its queue of          *)
(* instructions: the warps of InstructionRing run the operations of        *)
(* LlamaOps.  Two instructions are under way at once, and share the pages  *)
(* of the CTA's memory: the controller hands the pages of one to the next  *)
(* in the order in which it will let go of them, and a page changes hands  *)
(* when the parity of its semaphore says so.                               *)
(***************************************************************************)
EXTENDS InstructionRing, LlamaOps

CONSTANTS Programs,                           \* queues of num_iters instructions
          INSTRUCTION_PIPELINE_STAGES_BITS

PipelineAssumption ==
    /\ NUM_CONSUMER_WARPS \in Nat \ {0}
    /\ \A p \in Programs : DOMAIN p = 1 .. num_iters
    /\ Warps = {<<"loader", 0>>, <<"storer", 0>>, <<"launcher", 0>>} \cup ({"consumer"} \X Consumers)

ASSUME PipelineAssumption

VARIABLES prog,          \* the queue of this run
          at,            \* per thread: its next step in the instruction
          pid_order,     \* per slot: the page of each lid
          semaphores,    \* per slot: the dynamic semaphores
          page_finished, \* per page: one semaphore per bit of the index
          memory,        \* per page and per scratch: who wrote what there
          loads, puts,   \* asynchronous loads and stores under way
          out,           \* blocks visible in global memory
          Bar,           \* per instruction: its barrier counter
          waiting        \* consumer warps that wait in the group barrier

async == <<loads, puts>>
global == <<out, Bar>>
body_vars == <<prog, at, pid_order, semaphores, page_finished, memory, async, global, waiting>>
vars == <<ring_vars, body_vars>>

Pages == Lids
Bits == 0 .. INSTRUCTION_PIPELINE_STAGES_BITS - 1
Indices == 0 .. num_iters - 1

WarpOf(t) == IF t[1] = "loader" THEN <<"loader", 0>> ELSE t
Index(t) == instruction_index[WarpOf(t)]

(* What thread t finds in its slot, and runs.                              *)
Instructions == UNION {{p[k] : k \in DOMAIN p} : p \in Programs}
Runs == [inst \in Instructions |-> [t \in Threads |-> Run(inst, t)]]
Counts == [inst \in Instructions |-> init_semaphores(inst)]
Inst(n) == prog[n + 1]
Code(t) == Runs[Inst(slot[Ring(Index(t))])][t]

Running(t) == running[WarpOf(t)] /\ at[t] <= Len(Code(t))
Step(t) == Code(t)[at[t]]

(* A place in the CTA's memory: a page, or the scratch of a slot.          *)
Place(n, lid) == IF lid = Scratch THEN <<"scratch", Ring(n)>>
                 ELSE <<"page", pid_order[Ring(n)][lid + 1]>>
Places == ({"page"} \X Pages) \cup ({"scratch"} \X Slots)

(* Mutants of PageCount: a warp is forgotten, another one is counted.      *)
OneLess(i) == (NUM_CONSUMER_WARPS - 1) * 2 ^ i
OneMore(i) == (NUM_CONSUMER_WARPS + 1) * 2 ^ i

PageCount(i) == NUM_CONSUMER_WARPS * 2 ^ i

Init ==
    /\ RingInit
    /\ prog \in Programs
    /\ at = [t \in Threads |-> 1]
    /\ pid_order = [r \in Slots |-> <<>>]
    /\ semaphores = [r \in Slots |-> <<>>]
    /\ page_finished = [p \in Pages |->
                          [i \in Bits |-> Arrive(Fresh, PageCount(i), PageCount(i))]]
    /\ memory = [p \in Places |-> [by |-> None, has |-> {}]]
    /\ loads = {} /\ puts = {} /\ out = {}
    /\ Bar = [n \in Indices |-> 0]
    /\ waiting = {}

------------------------------------------------------------------------------
(* The controller around the ring.  A slot that is used again loses its    *)
(* semaphores to those of the new instruction.                             *)

(* The pages go to lids in the order in which the instruction before       *)
(* releases them.                                                          *)
PageOrder == IF fetch = 0 THEN [k \in 1 .. NUM_PAGES |-> k - 1]
             ELSE LET last == Ring(fetch - 1)
                  IN  [k \in 1 .. NUM_PAGES |->
                         pid_order[last][release_lid(Inst(slot[last]))[k] + 1]]

FillSlot ==
    /\ LoadInstruction
    /\ pid_order' = [pid_order EXCEPT ![Ring(fetch)] = PageOrder]
    /\ semaphores' = [semaphores EXCEPT ![Ring(fetch)] =
                        [sem \in DOMAIN Counts[Inst(fetch)] |-> Fresh]]
    /\ UNCHANGED <<prog, at, page_finished, memory, async, global, waiting>>

PublishSlot == Publish /\ UNCHANGED body_vars

DrainSlot ==
    /\ Drain
    /\ semaphores' = IF LastOf(drained) >= 0
                     THEN [semaphores EXCEPT ![Ring(LastOf(drained))] = <<>>]
                     ELSE semaphores
    /\ UNCHANGED <<prog, at, pid_order, page_finished, memory, async, global, waiting>>

------------------------------------------------------------------------------
(* A worker warp takes the next instruction, and gives it back when all    *)
(* its lanes have come to the end of it.                                   *)
Begin(w) == AwaitInstruction(w) /\ UNCHANGED body_vars

Lanes(w) == {t \in Threads : WarpOf(t) = w}

End(w) ==
    /\ running[w] /\ \A t \in Lanes(w) : at[t] > Len(Code(t))
    /\ NextInstruction(w)
    /\ at' = [t \in Threads |-> IF WarpOf(t) = w THEN 1 ELSE at[t]]
    /\ UNCHANGED <<prog, pid_order, semaphores, page_finished, memory, async, global, waiting>>

------------------------------------------------------------------------------
(* A page is ready when the parities of its semaphores are the bits of the *)
(* instruction's index.                                                    *)
Bit(n, i) == (n \div 2 ^ i) % 2
wait_page_ready(p, n) == \A i \in Bits : Passed(page_finished[p][i], Bit(n, i))

(* The semaphores of an instruction, the arrivals each expects.            *)
Sems(n) == semaphores[Ring(n)]

(* Mutant of Count: the first arrival ends a phase.                        *)
FirstArrival(n, sem) == 1

Count(n, sem) == Counts[Inst(n)][sem]
Arrived(n, sems) == [semaphores EXCEPT ![Ring(n)] =
    [sem \in DOMAIN @ |-> IF sem \in sems THEN Arrive(@[sem], 1, Count(n, sem)) ELSE @[sem]]]

After(n) == Inst(n).after

(* Mutants of Passes: without the wait for pages; one for a first block.   *)
Unready(t) ==
    /\ Running(t) /\ ~Step(t).sync
    /\ LET n == Index(t)
           s == Step(t)
       IN  /\ \A w \in s.wait : w[1] \in DOMAIN Sems(n) /\ Passed(Sems(n)[w[1]], w[2])
           /\ s.gmem => Bar[After(n)] >= Blocks(Inst(After(n)))
           /\ s.flush => puts = {}

FirstBlock(t) ==
    /\ Running(t) /\ ~Step(t).sync
    /\ LET n == Index(t)
           s == Step(t)
       IN  /\ \A w \in s.wait : w[1] \in DOMAIN Sems(n) /\ Passed(Sems(n)[w[1]], w[2])
           /\ \A lid \in s.take : wait_page_ready(Place(n, lid)[2], n)
           /\ s.gmem => Bar[After(n)] > 0
           /\ s.flush => puts = {}

(* What the waits of the next step of a thread ask for.                    *)
Passes(t) ==
    /\ Running(t) /\ ~Step(t).sync
    /\ LET n == Index(t)
           s == Step(t)
       IN  /\ \A w \in s.wait : w[1] \in DOMAIN Sems(n) /\ Passed(Sems(n)[w[1]], w[2])
           /\ \A lid \in s.take : wait_page_ready(Place(n, lid)[2], n)
           /\ s.gmem => Bar[After(n)] >= Blocks(Inst(After(n)))
           /\ s.flush => puts = {}

(* Memory: whatever an instruction writes to a place spoils what another   *)
(* one has there.  A load under way has spoilt its region already.         *)
Lid(x) == x[1]
Region(x) == x[2]
Contents(n, place) == IF memory[place].by = n THEN memory[place].has ELSE {}
Wrote(n, spoilt, written) == IF spoilt = {} THEN memory ELSE
    [place \in Places |->
       LET At(xs) == {x \in xs : Place(n, Lid(x)) = place}
       IN  IF At(spoilt) = {} THEN memory[place]
           ELSE [by |-> n,
                 has |-> {v \in Contents(n, place) : v[1] \notin {Region(x) : x \in At(spoilt)}}
                         \cup {<<Region(x), x[3]>> : x \in At(written)}]]

(* At most one page is let go in a step.                                   *)
Finished(n, finish) == IF finish = {} THEN page_finished ELSE
    LET f == CHOOSE f \in finish : TRUE
    IN  [page_finished EXCEPT ![Place(n, Lid(f))[2]] =
           [i \in Bits |-> Arrive(@[i], f[2], PageCount(i))]]

(* A thread takes its next step.                                           *)
Advance(t) ==
    /\ Passes(t)
    /\ LET n == Index(t)
           s == Step(t)
       IN  /\ memory' = Wrote(n, s.writes \cup s.load, s.writes)
           /\ loads' = loads \cup {<<n, x>> : x \in s.load}
           /\ puts' = puts \cup {<<n, x>> : x \in s.put}
           /\ semaphores' = Arrived(n, s.arrive)
           /\ page_finished' = Finished(n, s.finish)
           /\ Bar' = [Bar EXCEPT ![n] = @ + s.add]
    /\ at' = [at EXCEPT ![t] = @ + 1]
    /\ UNCHANGED <<ring_vars, prog, pid_order, out, waiting>>

(* A load of instruction n ends: its data is there, its semaphore knows.   *)
Land(n, load) ==
    /\ memory' = Wrote(n, {load}, {load})
    /\ semaphores' = Arrived(n, {load[4]})
    /\ loads' = loads \ {<<n, load>>}
    /\ UNCHANGED <<ring_vars, prog, at, pid_order, page_finished, puts, global, waiting>>

Reach(n, put) ==
    /\ puts' = puts \ {<<n, put>>}
    /\ out' = out \cup {<<n, put[2]>>}
    /\ UNCHANGED <<ring_vars, prog, at, pid_order, semaphores, page_finished, memory, loads, Bar, waiting>>

(* The consumer warps' barrier: the last one to come lets all go on.       *)
GroupWait(w) ==
    /\ Running(<<"consumer", w>>) /\ Step(<<"consumer", w>>).sync /\ w \notin waiting
    /\ IF waiting \cup {w} = Consumers
       THEN /\ waiting' = {}
            /\ at' = [t \in Threads |-> IF t[1] = "consumer" THEN at[t] + 1 ELSE at[t]]
       ELSE /\ waiting' = waiting \cup {w}
            /\ UNCHANGED at
    /\ UNCHANGED <<ring_vars, prog, pid_order, semaphores, page_finished, memory, async, global>>

------------------------------------------------------------------------------
Halted == drained = INSTRUCTION_PIPELINE_STAGES /\ \A w \in Warps : instruction_index[w] = num_iters

Work == \/ FillSlot \/ PublishSlot \/ DrainSlot
        \/ \E w \in Warps : Begin(w) \/ End(w)
        \/ \E t \in Threads : Advance(t)
        \/ \E w \in Consumers : GroupWait(w)
        \/ \E l \in loads : Land(l[1], l[2])
        \/ \E p \in puts : Reach(p[1], p[2])

Next == Work \/ (Halted /\ UNCHANGED vars)

(* The GPU runs a warp that can go on, or ends a copy; which one is its    *)
(* business.                                                               *)
Fairness == WF_vars(Work)

Spec == Init /\ [][Next]_vars /\ Fairness
------------------------------------------------------------------------------
TypeOK ==
    /\ fetch \in 0 .. num_iters
    /\ instruction_index \in [Warps -> 0 .. num_iters]
    /\ \A r \in Slots : slot[r] \in -1 .. num_iters - 1
    /\ \A r \in Slots : pid_order[r] # <<>> =>
         Len(pid_order[r]) = NUM_PAGES /\ ToSet(pid_order[r]) = Pages
    /\ \A p \in Pages : \A i \in Bits : page_finished[p][i].pending \in 0 .. PageCount(i) - 1
    /\ \A place \in Places : memory[place].by \in Indices \cup {None}
    /\ waiting \subseteq Consumers

(* A page changes hands in order: whoever may now read, write, load, store *)
(* from or let go of a page for instruction n finds that it was let go n   *)
(* times, and every copy under way to or from it still does                *)
(* (wait_page_ready, finish_page).                                         *)
LetGo(p) == page_finished[p][0].phase - 1
Holds(n, lid) == lid # Scratch => LetGo(Place(n, lid)[2]) = n
Touched(s) == {Lid(x) : x \in s.reads \cup s.writes \cup s.load \cup s.put \cup s.finish}
PagesInTurn ==
    /\ \A t \in Threads : Passes(t) => \A lid \in Touched(Step(t)) : Holds(Index(t), lid)
    /\ \A x \in loads \cup puts : Holds(x[1], Lid(x[2]))

(* What a thread reads is what its own instruction put there, the block of *)
(* this turn and not of the one before (the stages' semaphores).           *)
OwnData == \A t \in Threads : Passes(t) => \A x \in Step(t).reads :
    LET m == memory[Place(Index(t), Lid(x))]
    IN  m.by = Index(t) /\ <<Region(x), x[3]>> \in m.has

(* No semaphore is used outside its life: neither a warp nor a load that   *)
(* ends late meets one the controller has invalidated (main_loop).         *)
SemaphoresLive ==
    /\ \A t \in Threads : Running(t) =>
         {w[1] : w \in Step(t).wait} \cup Step(t).arrive \subseteq DOMAIN Sems(Index(t))
    /\ \A l \in loads : slot[Ring(l[1])] = l[1] /\ l[2][4] \in DOMAIN Sems(l[1])

(* The output of the instruction before is in global memory, all of it, by *)
(* the time a thread reads it (gmem_wait, store_async_wait, atomicAdd).    *)
FreshInputs == \A t \in Threads :
    Passes(t) /\ Step(t).input /\ After(Index(t)) # None =>
        \A b \in 0 .. Blocks(Inst(After(Index(t)))) - 1 : <<After(Index(t)), b>> \in out

(* Every warp comes to the end of the queue, with nothing left under way.  *)
Terminates == <>[](Halted /\ loads = {} /\ puts = {})
===============================================================================
