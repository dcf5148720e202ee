-------------------------- MODULE MegaPipeline_proof --------------------------
(***************************************************************************)
(* Proofs about the CTA at work.  What is proved of InstructionRing holds  *)
(* whatever its operations do: MegaPipeline takes no step the ring does    *)
(* not allow.  That pages, semaphores and data pass from warp to warp and  *)
(* from instruction to instruction in order holds for any operations whose *)
(* code is ordered as PipelineOrder says.                                  *)
(***************************************************************************)
EXTENDS PipelineOrder, InstructionRing_proof

LEMMA RingSteps == [Next]_vars => [RingNext]_ring_vars
<1> SUFFICES ASSUME [Next]_vars PROVE [RingNext]_ring_vars
  OBVIOUS
<1>1. CASE FillSlot
  BY <1>1 DEF FillSlot, RingNext
<1>2. CASE PublishSlot
  BY <1>2 DEF PublishSlot, RingNext
<1>3. CASE DrainSlot
  BY <1>3 DEF DrainSlot, RingNext
<1>4. ASSUME NEW w \in Warps, Begin(w) PROVE RingNext
  BY <1>4 DEF Begin, RingNext
<1>5. ASSUME NEW w \in Warps, End(w) PROVE RingNext
  BY <1>5 DEF End, RingNext
<1>6. ASSUME NEW t \in Threads, Advance(t) PROVE UNCHANGED ring_vars
  BY <1>6 DEF Advance
<1>7. ASSUME NEW w \in Consumers, GroupWait(w) PROVE UNCHANGED ring_vars
  BY <1>7 DEF GroupWait
<1>8. ASSUME NEW l \in loads, Land(l[1], l[2]) PROVE UNCHANGED ring_vars
  BY <1>8 DEF Land
<1>9. ASSUME NEW p \in puts, Reach(p[1], p[2]) PROVE UNCHANGED ring_vars
  BY <1>9 DEF Reach
<1>10. CASE UNCHANGED vars
  BY <1>10 DEF vars
<1> QED
  BY <1>1, <1>2, <1>3, <1>4, <1>5, <1>6, <1>7, <1>8, <1>9, <1>10 DEF Next, Work

LEMMA PipelineRing == Spec => RingSpec
<1>1. Init => RingInit
  BY DEF Init
<1> QED
  BY <1>1, RingSteps, PTL DEF Spec, RingSpec

(* No warp of the CTA runs an instruction out of a slot that holds another *)
(* one, and the slots come and go as the window says.                      *)
THEOREM PipelineTheorem == Spec => []SlotHeld /\ ImplementsWindow
<1>1. Window!Spec => ImplementsWindow
  BY DEF ImplementsWindow
<1> QED
  BY <1>1, PipelineRing, SlotHeldTheorem, RefinementTheorem, PTL

------------------------------------------------------------------------------
(* The code of the n-th instruction, its semaphores, and the order of its  *)
(* events.                                                                 *)
W == NUM_CONSUMER_WARPS
Ops(n) == Runs[Inst(n)]
Cnt(n) == Counts[Inst(n)]
Rds(n) == RoundsOf[Inst(n)]
Bef(n) == BeforeOf[Inst(n)]

(* What has been of the n-th instruction.                                  *)
Done(n, e) == Index(e[1]) > n \/ (Index(e[1]) = n /\ at[e[1]] > e[2])
Has(n, ev) ==
    IF IsStep(ev) THEN Done(n, ev[2])
    ELSE /\ Done(n, Starter(Ops(n), ev))
         /\ <<n, ev[2]>> \notin (IF IsLanding(ev) THEN loads ELSE puts)
Been(n) == {ev \in Events(Ops(n)) : Has(n, ev)}

(* Instructions that are in the slots, and those not every warp has ended. *)
InFlight(n) == n \in Indices /\ Loaded - S <= n /\ n < Loaded
Active(n) == InFlight(n) /\ DoneWith(n) # Warps

------------------------------------------------------------------------------
(* The inductive invariant.                                                *)
Threading ==
    /\ prog \in Programs
    /\ at \in [Threads -> Nat \ {0}]
    /\ \A t \in Threads : IF running[WarpOf(t)] THEN at[t] <= Len(Ops(Index(t))[t]) + 1 ELSE at[t] = 1
    /\ \A r \in Slots : slot[r] \in -1 .. num_iters - 1
    /\ drained \in Nat
    /\ waiting \subseteq Consumers
    /\ \A c \in waiting : \A t \in Threads : t = <<"consumer", c>> =>
          running[t] /\ <<t, at[t]>> \in Syncs(Ops(Index(t)))

(* Copies under way have been started.                                     *)
Copies ==
    /\ \A l \in loads : \E n \in Indices : \E e \in Steps(Ops(n)) : \E x \in At(Ops(n), e).load :
          l = <<n, x>> /\ Done(n, e)
    /\ \A l \in puts : \E n \in Indices : \E e \in Steps(Ops(n)) : \E x \in At(Ops(n), e).put :
          l = <<n, x>> /\ Done(n, e)

(* What has been, has been in order, and warps meet in a sync.             *)
InOrder == \A n \in Indices :
    /\ \A ev \in Been(n) : Bef(n)[ev] \subseteq Been(n)
    /\ \A e \in Syncs(Ops(n)) : \A f \in Mates(Ops(n), e) : Done(n, e) => Done(n, f)

(* A semaphore is in the round that its arrivals have come to.             *)
InPhase(rounds, count, sem, been) ==
    /\ sem \in [phase : Nat, pending : Nat]
    /\ \A r \in DOMAIN rounds : /\ r < sem.phase => rounds[r] \subseteq been
                                /\ r > sem.phase => rounds[r] \cap been = {}
    /\ IF sem.phase \in DOMAIN rounds
       THEN sem.pending < count /\ sem.pending = Cardinality(rounds[sem.phase] \cap been)
       ELSE sem.pending = 0

Phases ==
    /\ DOMAIN semaphores = Slots
    /\ \A n \in Indices : Active(n) =>
          /\ semaphores[Ring(n)] = [sem \in DOMAIN Cnt(n) |-> semaphores[Ring(n)][sem]]
          /\ \A sem \in DOMAIN Cnt(n) :
                InPhase(Rds(n)[sem], Cnt(n)[sem], semaphores[Ring(n)][sem], Been(n))

(* The pages of an instruction, in some order.                             *)
IsOrder(order) ==
    /\ order \in [1 .. NUM_PAGES -> Pages]
    /\ \A j \in 1 .. NUM_PAGES, k \in 1 .. NUM_PAGES : order[j] = order[k] => j = k
    /\ \A p \in Pages : \E k \in 1 .. NUM_PAGES : order[k] = p
Orders ==
    /\ DOMAIN pid_order = Slots
    /\ \A r \in Slots : pid_order[r] = <<>> \/ IsOrder(pid_order[r])
    /\ \A n \in Indices : InFlight(n) => IsOrder(pid_order[Ring(n)])
PageAt(n, lid) == pid_order[Ring(n)][lid + 1]

(* A page was let go n times, and c more warps are done with it.           *)
PageState(sems, n, c) ==
    sems = [i \in Bits |-> [phase |-> 1 + n \div 2 ^ i, pending |-> (n % 2 ^ i) * W + c]]

(* It belongs to the n-th instruction then; those before have all let go   *)
(* of it, those after have not seen it ready.                              *)
ShareDone(n, lid) == {y \in Shares(Ops(n), lid) : Done(n, y[1])}
Takes(n, lid) == {e \in Steps(Ops(n)) : lid \in At(Ops(n), e).take}
TurnOf(p, n, c) ==
    /\ n \in Nat /\ Loaded - S <= n /\ n <= Loaded /\ c \in 0 .. W - 1
    /\ n = Loaded => c = 0
    /\ \A m \in Indices : \A lid \in Lids : InFlight(m) /\ PageAt(m, lid) = p =>
          /\ m < n => ShareDone(m, lid) = Shares(Ops(m), lid)
          /\ m = n => c = Cardinality(ShareDone(m, lid))
          /\ n < m => \A e \in Takes(m, lid) : ~Done(m, e)
Turns ==
    /\ DOMAIN page_finished = Pages
    /\ \A p \in Pages : \E n \in Nat, c \in Nat : PageState(page_finished[p], n, c) /\ TurnOf(p, n, c)

(* What is to be read is there from when it was written.                   *)
Data ==
    /\ DOMAIN memory = Places
    /\ \A place \in Places : memory[place].by \in Indices \cup {None}
    /\ \A n \in Indices : \A e \in Steps(Ops(n)) : \A x \in At(Ops(n), e).reads :
          \A w \in Been(n) :
             InFlight(n) /\ Feeds(Ops(n), Bef(n), w, e, x) /\ ~Done(n, e) =>
                /\ memory[Place(n, x[1])].by = n
                /\ <<x[2], x[3]>> \in memory[Place(n, x[1])].has

(* Stores, counters and the waits for them.                                *)
AddDone(n) == {y \in Additions(Inst(n), Ops(n)) : Done(n, y[1])}
Stored ==
    /\ Bar \in [Indices -> Nat]
    /\ \A n \in Indices :
          /\ Bar[n] = Cardinality(AddDone(n))
          /\ \A x \in Puts(Ops(n)) : Reaching(x) \in Been(n) => <<n, x[2]>> \in out
          /\ \A e \in Steps(Ops(n)) : At(Ops(n), e).gmem /\ Done(n, e) =>
                \A b \in 0 .. Blocks(Inst(After(n))) - 1 : <<After(n), b>> \in out

PipeInv == Threading /\ Copies /\ InOrder /\ Phases /\ Orders /\ Turns /\ Data /\ Stored

------------------------------------------------------------------------------
(* Threads, steps and events.                                              *)
LEMMA ThreadFacts ==
    /\ \A t \in Threads : WarpOf(t) \in Warps
    /\ \A t \in Threads : t[1] = "consumer" => /\ t = <<"consumer", t[2]>> /\ t[2] \in Consumers
                                               /\ WarpOf(t) = t
    /\ \A w \in Consumers : /\ <<"consumer", w>> \in Threads /\ <<"consumer", w>>[1] = "consumer"
                            /\ WarpOf(<<"consumer", w>>) = <<"consumer", w>>
    /\ \A w \in Warps : \E t \in Threads : WarpOf(t) = w
BY PipelineAssumption DEF PipelineAssumption, Threads, WarpOf, Lids, NUM_PAGES, STAGES

LEMMA StepFacts ==
  ASSUME NEW code
  PROVE  /\ \A e \in Steps(code) : /\ e = <<e[1], e[2]>> /\ e[1] \in Threads
                                  /\ e[2] \in 1 .. Len(code[e[1]])
         /\ \A t \in Threads : \A k \in 1 .. Len(code[t]) : <<t, k>> \in Steps(code)
BY DEF Steps

LEMMA EventFacts ==
  ASSUME NEW code
  PROVE  /\ \A e \in Steps(code) : Taken(e) \in Events(code)
         /\ \A e : IsStep(Taken(e)) /\ Taken(e)[2] = e
         /\ \A x \in Loads(code) : Landing(x) \in Events(code)
         /\ \A x : ~IsStep(Landing(x)) /\ IsLanding(Landing(x)) /\ Landing(x)[2] = x
         /\ \A x \in Puts(code) : Reaching(x) \in Events(code)
         /\ \A x : ~IsStep(Reaching(x)) /\ ~IsLanding(Reaching(x)) /\ Reaching(x)[2] = x
         /\ \A ev \in Events(code) :
              \/ IsStep(ev) /\ ev[2] \in Steps(code) /\ ev = Taken(ev[2])
              \/ ~IsStep(ev) /\ IsLanding(ev) /\ ev[2] \in Loads(code) /\ ev = Landing(ev[2])
              \/ ~IsStep(ev) /\ ~IsLanding(ev) /\ ev[2] \in Puts(code) /\ ev = Reaching(ev[2])
<1>1. \A e : IsStep(Taken(e)) /\ Taken(e)[2] = e
  BY DEF Taken, IsStep
<1>2. \A x : ~IsStep(Landing(x)) /\ IsLanding(Landing(x)) /\ Landing(x)[2] = x
  BY DEF Landing, IsStep, IsLanding
<1>3. \A x : ~IsStep(Reaching(x)) /\ ~IsLanding(Reaching(x)) /\ Reaching(x)[2] = x
  BY DEF Reaching, IsStep, IsLanding
<1>4. /\ \A e \in Steps(code) : Taken(e) \in Events(code)
      /\ \A x \in Loads(code) : Landing(x) \in Events(code)
      /\ \A x \in Puts(code) : Reaching(x) \in Events(code)
  BY DEF Events
<1>5. ASSUME NEW ev \in Events(code)
      PROVE  \/ \E e \in Steps(code) : ev = Taken(e)
             \/ \E x \in Loads(code) : ev = Landing(x)
             \/ \E x \in Puts(code) : ev = Reaching(x)
  BY DEF Events
<1> QED
  BY <1>1, <1>2, <1>3, <1>4, <1>5

LEMMA StarterFacts ==
  ASSUME NEW code, NEW counts, WellFormed(code, counts), NEW ev \in Events(code), ~IsStep(ev)
  PROVE  /\ Starter(code, ev) \in Steps(code) /\ Starts(code, Starter(code, ev), ev)
         /\ \A e \in Steps(code) : Starts(code, e, ev) => e = Starter(code, ev)
<1>1. \E e \in Steps(code) : Starts(code, e, ev)
  <2>1. CASE IsLanding(ev)
    <3>1. ev[2] \in Loads(code)
      BY <2>1, EventFacts
    <3> QED
      BY <2>1, <3>1 DEF Loads, Starts
  <2>2. CASE ~IsLanding(ev)
    <3>1. ev[2] \in Puts(code)
      BY <2>2, EventFacts
    <3> QED
      BY <2>2, <3>1 DEF Puts, Starts
  <2> QED
    BY <2>1, <2>2
<1>2. Starter(code, ev) \in Steps(code) /\ Starts(code, Starter(code, ev), ev)
  BY <1>1 DEF Starter
<1> QED
  BY <1>2 DEF WellFormed

(* What is known of the code of the program that runs.                     *)
LEMMA OrderedAt ==
  ASSUME AllOrdered, prog \in Programs, NEW n \in Indices
  PROVE  /\ n \in Nat /\ n < num_iters /\ num_iters \in Nat
         /\ Inst(n) \in Instructions /\ Inst(n).after \in Indices \cup {None}
         /\ WellFormed(Ops(n), Cnt(n)) /\ SyncsMatch(Ops(n))
         /\ InRounds(Ops(n), Cnt(n), Rds(n), Bef(n)) /\ Known(Ops(n), Rds(n), Bef(n))
         /\ PagesInOrder(Ops(n), Bef(n)) /\ ReleasesAll(Inst(n))
         /\ ReadsAreFed(Ops(n), Bef(n)) /\ LoadsMet(Ops(n), Bef(n))
         /\ OutputsCounted(Inst(n), Ops(n)) /\ InputsAwaited(Inst(n), Ops(n), Bef(n))
<1>1. n \in Nat /\ n < num_iters /\ num_iters \in Nat
  BY RingAssumption DEF RingAssumption, Indices
<1>2. Inst(n) \in Instructions
  <2>1. n + 1 \in DOMAIN prog
    BY <1>1, PipelineAssumption DEF PipelineAssumption
  <2> QED
    BY <2>1 DEF Inst, Instructions
<1>3. Ordered(Inst(n), Ops(n), Cnt(n), Rds(n), Bef(n))
  BY <1>2 DEF AllOrdered, Ops, Cnt, Rds, Bef
<1>4. Inst(n).after \in Indices \cup {None}
  BY <1>3 DEF Ordered, InputsAwaited
<1> QED
  BY <1>1, <1>2, <1>3, <1>4 DEF Ordered

(* Where the threads are.                                                  *)
LEMMA ThreadAt ==
  ASSUME RingInv, Threading, NEW t \in Threads
  PROVE  /\ Index(t) \in Nat /\ at[t] \in Nat \ {0} /\ Loaded - S <= Index(t) /\ Index(t) <= fetch
         /\ fetch \in Nat /\ Loaded \in Nat /\ fetch <= Loaded /\ S \in Nat \ {0}
         /\ running[WarpOf(t)] \in BOOLEAN
         /\ ~running[WarpOf(t)] => at[t] = 1
         /\ running[WarpOf(t)] =>
              /\ Index(t) < fetch /\ Index(t) \in Indices /\ Active(Index(t))
              /\ slot[Ring(Index(t))] = Index(t)
              /\ Code(t) = Ops(Index(t))[t]
<1>1. WarpOf(t) \in Warps
  BY ThreadFacts
<1>2. /\ fetch \in 0 .. num_iters /\ num_iters \in Nat /\ S \in Nat \ {0}
      /\ instruction_index \in [Warps -> Nat] /\ running \in [Warps -> BOOLEAN]
      /\ step = "publish" => fetch < num_iters
  BY Sizes DEF RingInv, RingTypeOK
<1>3. Index(t) \in Nat /\ running[WarpOf(t)] \in BOOLEAN
  BY <1>1, <1>2 DEF Index
<1>4. Loaded \in Nat /\ fetch <= Loaded /\ fetch \in Nat
  BY <1>2 DEF Loaded
<1>5. /\ Loaded - S <= Index(t) /\ Index(t) <= fetch
      /\ running[WarpOf(t)] => Index(t) < fetch
  BY <1>1 DEF RingInv, InWindow, Index
<1>6. at[t] \in Nat \ {0} /\ (~running[WarpOf(t)] => at[t] = 1)
  BY DEF Threading
<1>7. ASSUME running[WarpOf(t)]
      PROVE  /\ Index(t) \in Indices /\ Active(Index(t)) /\ slot[Ring(Index(t))] = Index(t)
             /\ Code(t) = Ops(Index(t))[t]
  <2>1. Index(t) \in Indices
    BY <1>2, <1>3, <1>5, <1>7 DEF Indices
  <2>2. InFlight(Index(t))
    BY <1>2, <1>3, <1>4, <1>5, <1>7, <2>1 DEF InFlight
  <2>3. WarpOf(t) \notin DoneWith(Index(t))
    BY <1>3 DEF DoneWith, Index
  <2>4. Active(Index(t))
    BY <1>1, <2>2, <2>3 DEF Active
  <2>5. slot[Ring(Index(t))] = Index(t)
    BY <2>2, <1>3 DEF RingInv, SlotsHold, InFlight
  <2> QED
    BY <2>1, <2>4, <2>5 DEF Code, Ops
<1> QED
  BY <1>2, <1>3, <1>4, <1>5, <1>6, <1>7

(* The step a thread is at has not been, those before it have.             *)
LEMMA StepAt ==
  ASSUME RingInv, Threading, NEW t \in Threads, Running(t)
  PROVE  /\ running[WarpOf(t)] /\ Index(t) \in Indices /\ Index(t) \in Nat /\ at[t] \in Nat \ {0}
         /\ InFlight(Index(t)) /\ Active(Index(t))
         /\ <<t, at[t]>> \in Steps(Ops(Index(t)))
         /\ Step(t) = At(Ops(Index(t)), <<t, at[t]>>)
         /\ ~Done(Index(t), <<t, at[t]>>)
         /\ \A k \in Nat : Done(Index(t), <<t, k>>) <=> k < at[t]
         /\ at[t] > 1 => /\ <<t, at[t] - 1>> \in Steps(Ops(Index(t)))
                         /\ Done(Index(t), <<t, at[t] - 1>>)
<1>1. running[WarpOf(t)] /\ at[t] <= Len(Code(t))
  BY DEF Running
<1>2. /\ Index(t) \in Nat /\ Index(t) \in Indices /\ at[t] \in Nat \ {0} /\ Active(Index(t))
      /\ Code(t) = Ops(Index(t))[t]
  BY <1>1, ThreadAt
<1>3. at[t] <= Len(Ops(Index(t))[t]) + 1 /\ at[t] <= Len(Ops(Index(t))[t])
  BY <1>1, <1>2 DEF Threading
<1>4. <<t, at[t]>> \in Steps(Ops(Index(t)))
  BY <1>2, <1>3, <1>1 DEF Steps
<1>5. Step(t) = At(Ops(Index(t)), <<t, at[t]>>)
  BY <1>2 DEF Step, At
<1>6. \A k \in Nat : Done(Index(t), <<t, k>>) <=> k < at[t]
  BY <1>2 DEF Done
<1>7. ASSUME at[t] > 1
      PROVE  /\ <<t, at[t] - 1>> \in Steps(Ops(Index(t)))
             /\ Done(Index(t), <<t, at[t] - 1>>)
  <2>1. at[t] - 1 \in 1 .. Len(Ops(Index(t))[t])
    BY <1>2, <1>4, <1>7, StepFacts
  <2>2. at[t] - 1 \in Nat /\ at[t] - 1 < at[t]
    BY <1>2, <1>7
  <2> QED
    BY <2>1, <2>2, <1>6, StepFacts
<1> QED
  BY <1>1, <1>2, <1>4, <1>5, <1>6, <1>7 DEF Active

(* A step that has been of an instruction not every thread has come to.    *)
LEMMA DoneIsBeen ==
  ASSUME NEW n, NEW e \in Steps(Ops(n))
  PROVE  Taken(e) \in Been(n) <=> Done(n, e)
BY EventFacts DEF Been, Has

LEMMA NothingBeen ==
  ASSUME AllOrdered, prog \in Programs, NEW n \in Indices, \A e \in Steps(Ops(n)) : ~Done(n, e)
  PROVE  Been(n) = {}
<1>1. ASSUME NEW ev \in Been(n) PROVE FALSE
  <2>1. ev \in Events(Ops(n)) /\ Has(n, ev)
    BY DEF Been
  <2>2. CASE IsStep(ev)
    BY <2>1, <2>2, EventFacts DEF Has
  <2>3. CASE ~IsStep(ev)
    <3>1. Starter(Ops(n), ev) \in Steps(Ops(n))
      BY <2>1, <2>3, OrderedAt, StarterFacts
    <3> QED
      BY <2>1, <2>3, <3>1 DEF Has
  <2> QED
    BY <2>2, <2>3
<1> QED
  BY <1>1

LEMMA DoneBefore ==
  ASSUME RingInv, Threading, NEW n \in Indices, NEW e \in Steps(Ops(n)), Done(n, e)
  PROVE  n < Loaded
<1>1. n \in Nat /\ e[1] \in Threads
  BY StepFacts DEF Indices
<1>2. e[2] \in Nat /\ e[2] >= 1
  BY StepFacts
<1>3. CASE Index(e[1]) > n
  BY <1>1, <1>3, ThreadAt
<1>4. CASE Index(e[1]) = n /\ at[e[1]] > e[2]
  <2>1. running[WarpOf(e[1])]
    BY <1>1, <1>2, <1>4, ThreadAt
  <2> QED
    BY <1>1, <1>4, <2>1, ThreadAt
<1> QED
  BY <1>3, <1>4 DEF Done

LEMMA NotDoneActive ==
  ASSUME RingInv, Threading, NEW n \in Indices, NEW e \in Steps(Ops(n)), ~Done(n, e)
  PROVE  /\ Loaded - S <= n /\ DoneWith(n) # Warps
         /\ n < Loaded => InFlight(n) /\ Active(n)
<1>1. n \in Nat /\ e[1] \in Threads /\ WarpOf(e[1]) \in Warps
  BY StepFacts, ThreadFacts DEF Indices
<1>2. ~(Index(e[1]) > n)
  BY DEF Done
<1>3. Loaded - S <= n
  BY <1>1, <1>2, ThreadAt
<1>4. WarpOf(e[1]) \notin DoneWith(n)
  BY <1>2 DEF DoneWith, Index
<1> QED
  BY <1>1, <1>3, <1>4 DEF InFlight, Active

------------------------------------------------------------------------------
(* Semaphores and rounds.                                                  *)
LEMMA PhaseAtLeast ==
  ASSUME NEW rounds, NEW count \in Nat \ {0}, NEW sem, NEW been,
         InPhase(rounds, count, sem, been), NEW r \in Nat,
         \A q \in 0 .. r - 1 : q \in DOMAIN rounds /\ rounds[q] \subseteq been
                               /\ Cardinality(rounds[q]) = count
  PROVE  sem.phase \in Nat /\ sem.phase >= r
<1>1. sem.phase \in Nat
  BY DEF InPhase
<1>2. SUFFICES ASSUME sem.phase < r PROVE FALSE
  BY <1>1
<1>3. sem.phase \in 0 .. r - 1
  BY <1>1, <1>2
<1>4. rounds[sem.phase] \cap been = rounds[sem.phase]
  BY <1>3
<1>5. sem.pending = count /\ sem.pending < count
  BY <1>3, <1>4 DEF InPhase
<1> QED
  BY <1>5

(* A wait for a round whose predecessors are over passes when it is over   *)
(* as well.                                                                *)
LEMMA WaitTells ==
  ASSUME NEW rounds, NEW count \in Nat \ {0}, NEW sem, NEW been,
         InPhase(rounds, count, sem, been), NEW r \in DOMAIN rounds, r \in Nat,
         \A q \in 0 .. r - 1 : q \in DOMAIN rounds /\ rounds[q] \subseteq been
                               /\ Cardinality(rounds[q]) = count,
         NEW parity, r % 2 = parity, Passed(sem, parity)
  PROVE  rounds[r] \subseteq been
<1>1. sem.phase \in Nat /\ sem.phase >= r
  BY PhaseAtLeast
<1>2. sem.phase # r
  BY DEF Passed
<1>3. r < sem.phase
  BY <1>1, <1>2
<1> QED
  BY <1>3 DEF InPhase

LEMMA InPhaseIs ==
  ASSUME NEW rounds, NEW count, NEW been, NEW phase \in Nat, NEW pending \in Nat,
         \A r \in DOMAIN rounds : /\ r < phase => rounds[r] \subseteq been
                                  /\ r > phase => rounds[r] \cap been = {},
         IF phase \in DOMAIN rounds
         THEN pending < count /\ pending = Cardinality(rounds[phase] \cap been)
         ELSE pending = 0
  PROVE  InPhase(rounds, count, [phase |-> phase, pending |-> pending], been)
BY DEF InPhase

(* One more arrival of the round that is under way.                        *)
LEMMA ArrivalKept ==
  ASSUME NEW rounds, NEW count \in Nat \ {0}, NEW sem, NEW been, NEW ev,
         InPhase(rounds, count, sem, been), ev \notin been,
         NEW r \in DOMAIN rounds, ev \in rounds[r],
         \A s \in DOMAIN rounds :
            /\ s \in Nat /\ IsFiniteSet(rounds[s]) /\ Cardinality(rounds[s]) = count
            /\ \A q \in 0 .. s - 1 : q \in DOMAIN rounds /\ rounds[q] \cap rounds[s] = {},
         \A q \in 0 .. r - 1 : rounds[q] \subseteq been
  PROVE  InPhase(rounds, count, Arrive(sem, 1, count), been \cup {ev})
<1>1. sem \in [phase : Nat, pending : Nat] /\ sem.phase \in Nat /\ sem.pending \in Nat
  BY DEF InPhase
<1>2. r \in Nat /\ sem.phase >= r
  BY PhaseAtLeast
<1>3. sem.phase = r
  <2>1. ~(r < sem.phase)
    BY DEF InPhase
  <2> QED
    BY <1>1, <1>2, <2>1
<1>4. sem.pending < count /\ sem.pending = Cardinality(rounds[r] \cap been)
  BY <1>3 DEF InPhase
<1>5. rounds[r] \cap (been \cup {ev}) = (rounds[r] \cap been) \cup {ev}
  OBVIOUS
<1>6. IsFiniteSet(rounds[r]) /\ IsFiniteSet(rounds[r] \cap been)
  BY FS_Subset
<1>7. Cardinality(rounds[r] \cap (been \cup {ev})) = sem.pending + 1
  <2> DEFINE A == rounds[r] \cap been
  <2>1. IsFiniteSet(A) /\ ev \notin A /\ sem.pending = Cardinality(A)
    BY <1>4, <1>6
  <2>2. rounds[r] \cap (been \cup {ev}) = A \cup {ev}
    BY <1>5
  <2> HIDE DEF A
  <2>3. Cardinality(A \cup {ev}) = Cardinality(A) + 1
    BY <2>1, FS_AddElement
  <2> QED
    BY <2>1, <2>2, <2>3
<1>8. ASSUME NEW s \in DOMAIN rounds, s # r
      PROVE  s \in Nat /\ ev \notin rounds[s]
  <2>1. s \in Nat
    OBVIOUS
  <2>2. CASE s < r
    BY <2>1, <2>2, <1>2
  <2>3. CASE r < s
    BY <2>1, <2>3, <1>2
  <2> QED
    BY <1>8, <1>2, <2>1, <2>2, <2>3
<1>9. CASE sem.pending + 1 < count
  <2>1. Arrive(sem, 1, count) = [phase |-> r, pending |-> sem.pending + 1]
    BY <1>1, <1>3, <1>9 DEF Arrive
  <2>2. ASSUME NEW s \in DOMAIN rounds
        PROVE  /\ s < r => rounds[s] \subseteq been \cup {ev}
               /\ s > r => rounds[s] \cap (been \cup {ev}) = {}
    <3>1. s \in Nat
      OBVIOUS
    <3> QED
      BY <3>1, <1>2, <1>3, <1>8 DEF InPhase
  <2>3. InPhase(rounds, count, [phase |-> r, pending |-> sem.pending + 1], been \cup {ev})
    BY <1>1, <1>2, <1>7, <1>9, <2>2, InPhaseIs
  <2> QED
    BY <2>1, <2>3
<1>10. CASE sem.pending + 1 = count
  <2>1. Arrive(sem, 1, count) = [phase |-> r + 1, pending |-> 0]
    BY <1>1, <1>3, <1>10 DEF Arrive
  <2>2. rounds[r] \cap (been \cup {ev}) = rounds[r]
    <3>1. rounds[r] \cap (been \cup {ev}) \subseteq rounds[r]
      OBVIOUS
    <3> QED
      BY <3>1, <1>6, <1>7, <1>10, FS_Subset
  <2>3. ASSUME NEW s \in DOMAIN rounds, s > r
        PROVE  rounds[s] \cap (been \cup {ev}) = {}
    <3>1. s \in Nat /\ s # r
      BY <1>2, <2>3
    <3>2. ev \notin rounds[s]
      BY <3>1, <1>8
    <3> QED
      BY <3>2, <1>3, <2>3 DEF InPhase
  <2>4. ASSUME NEW s \in DOMAIN rounds, s < r + 1
        PROVE  rounds[s] \subseteq been \cup {ev}
    <3>1. s \in Nat
      OBVIOUS
    <3>2. CASE s < r
      BY <3>2, <1>3 DEF InPhase
    <3>3. CASE s = r
      BY <3>3, <2>2
    <3> QED
      BY <3>1, <3>2, <3>3, <2>4, <1>2
  <2>5. r + 1 \in DOMAIN rounds => Cardinality(rounds[r + 1] \cap (been \cup {ev})) = 0
    <3>1. Cardinality({}) = 0
      BY FS_EmptySet
    <3>2. r + 1 \in DOMAIN rounds => rounds[r + 1] \cap (been \cup {ev}) = {}
      BY <2>3, <1>2
    <3> QED
      BY <3>1, <3>2
  <2>6. \A s \in DOMAIN rounds : s > r + 1 => s > r
    BY <1>2
  <2>7. InPhase(rounds, count, [phase |-> r + 1, pending |-> 0], been \cup {ev})
    <3>1. r + 1 \in Nat /\ 0 \in Nat /\ 0 < count
      BY <1>2
    <3>2. \A s \in DOMAIN rounds : /\ s < r + 1 => rounds[s] \subseteq been \cup {ev}
                                   /\ s > r + 1 => rounds[s] \cap (been \cup {ev}) = {}
      BY <2>3, <2>4, <2>6
    <3>3. r + 1 \in DOMAIN rounds => 0 = Cardinality(rounds[r + 1] \cap (been \cup {ev}))
      BY <2>5
    <3> QED
      BY <3>1, <3>2, <3>3, InPhaseIs
  <2> QED
    BY <2>1, <2>7
<1> QED
  BY <1>1, <1>4, <1>9, <1>10

LEMMA NoArrival ==
  ASSUME NEW rounds, NEW count, NEW sem, NEW been, NEW new,
         InPhase(rounds, count, sem, been),
         \A r \in DOMAIN rounds : rounds[r] \cap new = {}
  PROVE  InPhase(rounds, count, sem, been \cup new)
<1>1. \A r \in DOMAIN rounds : rounds[r] \cap (been \cup new) = rounds[r] \cap been
  OBVIOUS
<1> QED
  BY <1>1 DEF InPhase

------------------------------------------------------------------------------
(* What a thread may take to have been when its waits pass.                *)
LEMMA WithBeen ==
  ASSUME InOrder, NEW n \in Indices, NEW events, events \subseteq Been(n)
  PROVE  With(Bef(n), events) \subseteq Been(n)
BY DEF With, InOrder

LEMMA OwnBeen ==
  ASSUME AllOrdered, RingInv, Threading, InOrder, NEW t \in Threads, Running(t)
  PROVE  Own(Bef(Index(t)), <<t, at[t]>>) \subseteq Been(Index(t))
<1> DEFINE n == Index(t)
           k == at[t]
<1>1. n \in Indices /\ k \in Nat \ {0}
  BY StepAt
<1>2. CASE k = 1
  BY <1>2 DEF Own
<1>3. CASE k # 1
  <2>0. k > 1
    BY <1>1, <1>3
  <2>1. <<t, k - 1>> \in Steps(Ops(n)) /\ Done(n, <<t, k - 1>>)
    BY <2>0, StepAt
  <2>2. Taken(<<t, k - 1>>) \in Been(n)
    BY <2>1, DoneIsBeen
  <2>3. Own(Bef(n), <<t, k>>) = With(Bef(n), {Taken(<<t, k - 1>>)})
    BY <1>3 DEF Own
  <2> QED
    BY <1>1, <2>2, <2>3, WithBeen
<1> QED
  BY <1>2, <1>3

LEMMA LearntBeen ==
  ASSUME AllOrdered, RingInv, Threading, InOrder, Phases, NEW t \in Threads, Running(t),
         NEW w \in Step(t).wait,
         Passed(Sems(Index(t))[w[1]], w[2]),
         NEW own, own \subseteq Been(Index(t))
  PROVE  Learnt(Rds(Index(t)), Bef(Index(t)), own, w) \subseteq Been(Index(t))
<1> DEFINE n == Index(t)
           sem == w[1]
           rounds == Rds(n)[sem]
           count == Cnt(n)[sem]
<1>1. n \in Indices /\ Active(n) /\ prog \in Programs
  BY StepAt DEF Threading
<1>2. WellFormed(Ops(n), Cnt(n)) /\ InRounds(Ops(n), Cnt(n), Rds(n), Bef(n))
  BY <1>1, OrderedAt
<1>3. sem \in DOMAIN Cnt(n)
  BY <1>2, StepAt DEF WellFormed
<1>4. InPhase(rounds, count, Sems(n)[sem], Been(n))
  BY <1>1, <1>3 DEF Phases, Sems
<1>5. /\ count \in Nat \ {0}
      /\ \A r \in DOMAIN rounds : r \in Nat /\ Cardinality(rounds[r]) = count
                                  /\ \A q \in 0 .. r - 1 : q \in DOMAIN rounds
  BY <1>2, <1>3 DEF InRounds
<1>6. ASSUME NEW r \in Told(Rds(n), own, w)
      PROVE  rounds[r] \subseteq Been(n)
  <2>1. r \in DOMAIN rounds /\ r % 2 = w[2] /\ \A q \in 0 .. r - 1 : rounds[q] \subseteq own
    BY DEF Told
  <2>2. Passed(Sems(n)[sem], w[2])
    OBVIOUS
  <2>3. r \in Nat
    BY <2>1, <1>5
  <2>4. \A q \in 0 .. r - 1 : q \in DOMAIN rounds /\ rounds[q] \subseteq Been(n)
                              /\ Cardinality(rounds[q]) = count
    BY <2>1, <1>5
  <2> HIDE DEF n, sem, rounds, count
  <2> QED
    BY <1>4, <1>5, <2>1, <2>2, <2>3, <2>4, WaitTells
<1>7. \A r \in Told(Rds(n), own, w) : With(Bef(n), rounds[r]) \subseteq Been(n)
  BY <1>1, <1>6, WithBeen
<1> QED
  BY <1>7 DEF Learnt

LEMMA MetBeen ==
  ASSUME AllOrdered, RingInv, Threading, InOrder, NEW t \in Threads, Running(t)
  PROVE  Met(Ops(Index(t)), Bef(Index(t)), <<t, at[t]>>) \subseteq Been(Index(t))
<1> DEFINE n == Index(t)
           k == at[t]
           last == <<t, k - 1>>
<1>1. n \in Indices /\ k \in Nat \ {0}
  BY StepAt
<1>2. CASE ~(k > 1 /\ Ops(n)[t][k - 1].sync)
  BY <1>2 DEF Met
<1>3. CASE k > 1 /\ Ops(n)[t][k - 1].sync
  <2>0. k > 1
    BY <1>3
  <2>1. last \in Steps(Ops(n)) /\ Done(n, last)
    BY <2>0, StepAt
  <2>2. last \in Syncs(Ops(n))
    BY <1>3, <2>1 DEF Syncs, At
  <2>3. \A f \in Mates(Ops(n), last) : f \in Steps(Ops(n)) /\ Done(n, f)
    BY <1>1, <2>1, <2>2 DEF InOrder, Mates, Syncs
  <2>4. {Taken(f) : f \in Mates(Ops(n), last)} \subseteq Been(n)
    BY <2>3, DoneIsBeen
  <2>5. Met(Ops(n), Bef(n), <<t, k>>) = With(Bef(n), {Taken(f) : f \in Mates(Ops(n), last)})
    BY <1>3 DEF Met
  <2> HIDE DEF n, last
  <2> QED
    BY <1>1, <2>4, <2>5, WithBeen DEF n
<1> QED
  BY <1>2, <1>3

LEMMA FlushedBeen ==
  ASSUME AllOrdered, RingInv, Threading, InOrder, NEW t \in Threads, Running(t),
         Step(t).flush => puts = {}
  PROVE  Flushed(Ops(Index(t)), Bef(Index(t)), <<t, at[t]>>) \subseteq Been(Index(t))
<1> DEFINE n == Index(t)
           e == <<t, at[t]>>
           own == Own(Bef(n), e)
<1>1. n \in Indices /\ prog \in Programs /\ Step(t) = At(Ops(n), e)
  BY StepAt DEF Threading
<1>2. CASE ~At(Ops(n), e).flush
  BY <1>2 DEF Flushed
<1>3. CASE At(Ops(n), e).flush
  <2>1. puts = {}
    BY <1>1, <1>3
  <2>2. own \subseteq Been(n)
    BY OwnBeen
  <2>3. ASSUME NEW x \in Puts(Ops(n)), NEW f \in Steps(Ops(n)), x \in At(Ops(n), f).put,
               Taken(f) \in own
        PROVE  Reaching(x) \in Been(n)
    <3>1. Done(n, f)
      BY <2>2, <2>3, DoneIsBeen
    <3>2. WellFormed(Ops(n), Cnt(n)) /\ Reaching(x) \in Events(Ops(n)) /\ ~IsStep(Reaching(x))
          /\ ~IsLanding(Reaching(x)) /\ Reaching(x)[2] = x
      BY <1>1, OrderedAt, EventFacts
    <3>3. Starts(Ops(n), f, Reaching(x))
      BY <2>3, <3>2 DEF Starts
    <3>4. f = Starter(Ops(n), Reaching(x))
      BY <3>2, <3>3, StarterFacts
    <3> QED
      BY <2>1, <3>1, <3>2, <3>4 DEF Been, Has
  <2> QED
    BY <1>3, <2>3 DEF Flushed
<1> QED
  BY <1>2, <1>3

(* All that is before a step has been when its waits pass.                 *)
LEMMA Knows ==
  ASSUME AllOrdered, RingInv, Threading, InOrder, Phases, NEW t \in Threads, Running(t),
         \A w \in Step(t).wait : Passed(Sems(Index(t))[w[1]], w[2]),
         Step(t).flush => puts = {}
  PROVE  Bef(Index(t))[Taken(<<t, at[t]>>)] \subseteq Been(Index(t))
<1> DEFINE n == Index(t)
           e == <<t, at[t]>>
           own == Own(Bef(n), e)
<1>1. n \in Indices /\ prog \in Programs /\ e \in Steps(Ops(n)) /\ Step(t) = At(Ops(n), e)
  BY StepAt DEF Threading
<1>2. own \subseteq Been(n)
  BY OwnBeen
<1>3. \A w \in At(Ops(n), e).wait : Learnt(Rds(n), Bef(n), own, w) \subseteq Been(n)
  BY <1>1, <1>2, LearntBeen
<1>4. Met(Ops(n), Bef(n), e) \subseteq Been(n) /\ Flushed(Ops(n), Bef(n), e) \subseteq Been(n)
  BY MetBeen, FlushedBeen
<1>5. Bef(n)[Taken(e)] \subseteq Gained(Ops(n), Rds(n), Bef(n), Taken(e))
  BY <1>1, OrderedAt, EventFacts DEF Known
<1> HIDE DEF n, e
<1>6. Gained(Ops(n), Rds(n), Bef(n), Taken(e)) \subseteq Been(n)
  BY <1>2, <1>3, <1>4, EventFacts DEF Gained
<1> QED
  BY <1>5, <1>6 DEF n, e

(* All that is before the end of a copy has been when it is under way.     *)
LEMMA CopyKnows ==
  ASSUME AllOrdered, RingInv, Threading, InOrder, NEW n \in Indices, NEW ev \in Events(Ops(n)),
         ~IsStep(ev), Done(n, Starter(Ops(n), ev))
  PROVE  Bef(n)[ev] \subseteq Been(n)
<1>1. /\ WellFormed(Ops(n), Cnt(n))
      /\ Bef(n)[ev] \subseteq Gained(Ops(n), Rds(n), Bef(n), ev)
  BY OrderedAt DEF Known, Threading
<1>2. Starter(Ops(n), ev) \in Steps(Ops(n))
  BY <1>1, StarterFacts
<1>3. {Taken(Starter(Ops(n), ev))} \subseteq Been(n)
  BY <1>2, DoneIsBeen
<1>4. Gained(Ops(n), Rds(n), Bef(n), ev) = With(Bef(n), {Taken(Starter(Ops(n), ev))})
  BY DEF Gained
<1> QED
  BY <1>1, <1>3, <1>4, WithBeen

------------------------------------------------------------------------------
(* The events of a step of the CTA: those in events, of instruction k,     *)
(* have been then, and nothing else has changed.                           *)
Moves(k, events) ==
    /\ prog' = prog
    /\ \A ev \in events : /\ k \in Indices /\ ev \in Events(Ops(k)) /\ ev \notin Been(k)
                          /\ Bef(k)[ev] \subseteq Been(k)
    /\ \A n \in Indices : Been(n)' = Been(n) \cup (IF n = k THEN events ELSE {})
    /\ \A n \in Indices : \A e \in Steps(Ops(n)) :
          Done(n, e)' <=> Done(n, e) \/ (n = k /\ Taken(e) \in events)

LEMMA CodeKept ==
  ASSUME prog' = prog
  PROVE  \A n : /\ Inst(n)' = Inst(n) /\ Ops(n)' = Ops(n) /\ Cnt(n)' = Cnt(n)
                /\ Rds(n)' = Rds(n) /\ Bef(n)' = Bef(n) /\ After(n)' = After(n)
BY DEF Inst, Ops, Cnt, Rds, Bef, After

(* The steps of a set are taken, and start their copies.                   *)
LEMMA StepsMove ==
  ASSUME AllOrdered, prog \in Programs, prog' = prog, NEW k, NEW E,
         \A e \in E : /\ k \in Indices /\ e \in Steps(Ops(k)) /\ ~Done(k, e)
                      /\ Bef(k)[Taken(e)] \subseteq Been(k),
         \A n \in Indices : \A e \in Steps(Ops(n)) :
            Done(n, e)' <=> Done(n, e) \/ (n = k /\ e \in E),
         loads' = loads \cup {<<k, x>> : x \in UNION {At(Ops(k), e).load : e \in E}},
         puts' = puts \cup {<<k, x>> : x \in UNION {At(Ops(k), e).put : e \in E}}
  PROVE  Moves(k, {Taken(e) : e \in E})
<1> DEFINE N == {Taken(e) : e \in E}
<1>1. \A n \in Indices : \A e \in Steps(Ops(n)) : e \in E <=> Taken(e) \in N
  BY EventFacts
<1>2. \A ev \in N : /\ k \in Indices /\ ev \in Events(Ops(k)) /\ ev \notin Been(k)
                    /\ Bef(k)[ev] \subseteq Been(k)
  BY EventFacts, DoneIsBeen
<1>3. \A n \in Indices : \A e \in Steps(Ops(n)) :
          Done(n, e)' <=> Done(n, e) \/ (n = k /\ Taken(e) \in N)
  BY <1>1
<1>4. ASSUME NEW n \in Indices, NEW ev \in Events(Ops(n))
      PROVE  Has(n, ev)' <=> Has(n, ev) \/ (n = k /\ ev \in N)
  <2>0. Ops(n)' = Ops(n)
    BY CodeKept
  <2> PICK st : st = Starter(Ops(n), ev)
    OBVIOUS
  <2>1. CASE IsStep(ev)
    <3>1. ev[2] \in Steps(Ops(n)) /\ ev = Taken(ev[2])
      BY <2>1, EventFacts
    <3> QED
      BY <2>0, <2>1, <3>1, <1>3 DEF Has
  <2>2. CASE ~IsStep(ev) /\ IsLanding(ev)
    <3>1. /\ st \in Steps(Ops(n)) /\ ev[2] \in At(Ops(n), st).load
          /\ \A e \in Steps(Ops(n)) : ev[2] \in At(Ops(n), e).load => e = st
      BY <2>2, OrderedAt, StarterFacts DEF Starts
    <3>2. ev \notin N
      BY <2>2, EventFacts
    <3>3. Has(n, ev) <=> Done(n, st) /\ <<n, ev[2]>> \notin loads
      BY <2>2 DEF Has
    <3>4. Has(n, ev)' <=> Done(n, st)' /\ <<n, ev[2]>> \notin loads'
      BY <2>0, <2>2 DEF Has, Done, Index
    <3> HIDE DEF N
    <3>5. n = k /\ st \in E => <<n, ev[2]>> \in loads' /\ ~Done(n, st)
      BY <3>1
    <3>6. ~(n = k /\ st \in E) => (<<n, ev[2]>> \in loads' <=> <<n, ev[2]>> \in loads)
      BY <3>1
    <3> QED
      BY <3>1, <3>2, <3>3, <3>4, <3>5, <3>6
  <2>3. CASE ~IsStep(ev) /\ ~IsLanding(ev)
    <3>1. /\ st \in Steps(Ops(n)) /\ ev[2] \in At(Ops(n), st).put
          /\ \A e \in Steps(Ops(n)) : ev[2] \in At(Ops(n), e).put => e = st
      BY <2>3, OrderedAt, StarterFacts DEF Starts
    <3>2. ev \notin N
      BY <2>3, EventFacts
    <3>3. Has(n, ev) <=> Done(n, st) /\ <<n, ev[2]>> \notin puts
      BY <2>3 DEF Has
    <3>4. Has(n, ev)' <=> Done(n, st)' /\ <<n, ev[2]>> \notin puts'
      BY <2>0, <2>3 DEF Has, Done, Index
    <3> HIDE DEF N
    <3>5. n = k /\ st \in E => <<n, ev[2]>> \in puts' /\ ~Done(n, st)
      BY <3>1
    <3>6. ~(n = k /\ st \in E) => (<<n, ev[2]>> \in puts' <=> <<n, ev[2]>> \in puts)
      BY <3>1
    <3> QED
      BY <3>1, <3>2, <3>3, <3>4, <3>5, <3>6
  <2> QED
    BY <2>1, <2>2, <2>3
<1>5. \A n \in Indices : Been(n)' = Been(n) \cup (IF n = k THEN N ELSE {})
  <2> TAKE n \in Indices
  <2>1. Been(n)' = {ev \in Events(Ops(n)) : Has(n, ev)'}
    BY CodeKept DEF Been
  <2>2. n = k => N \subseteq Events(Ops(n))
    BY <1>2
  <2> HIDE DEF N
  <2> QED
    BY <2>1, <2>2, <1>4 DEF Been
<1> QED
  BY <1>2, <1>3, <1>5 DEF Moves

(* A copy ends.                                                            *)
LEMMA CopyMoves ==
  ASSUME AllOrdered, RingInv, Threading, InOrder, prog' = prog,
         \A n \in Indices : \A e \in Steps(Ops(n)) : Done(n, e)' <=> Done(n, e),
         NEW k \in Indices, NEW x,
         \/ /\ x \in Loads(Ops(k)) /\ Done(k, Starter(Ops(k), Landing(x)))
            /\ <<k, x>> \in loads /\ loads' = loads \ {<<k, x>>} /\ puts' = puts
         \/ /\ x \in Puts(Ops(k)) /\ Done(k, Starter(Ops(k), Reaching(x)))
            /\ <<k, x>> \in puts /\ puts' = puts \ {<<k, x>>} /\ loads' = loads
  PROVE  Moves(k, {IF <<k, x>> \in loads /\ loads' # loads THEN Landing(x) ELSE Reaching(x)})
<1> DEFINE new == IF <<k, x>> \in loads /\ loads' # loads THEN Landing(x) ELSE Reaching(x)
           copies == IF IsLanding(new) THEN loads ELSE puts
<1>1. \/ /\ new = Landing(x) /\ new \in Events(Ops(k)) /\ Done(k, Starter(Ops(k), new))
         /\ <<k, x>> \in loads /\ loads' = loads \ {<<k, x>>} /\ puts' = puts
      \/ /\ new = Reaching(x) /\ new \in Events(Ops(k)) /\ Done(k, Starter(Ops(k), new))
         /\ <<k, x>> \in puts /\ puts' = puts \ {<<k, x>>} /\ loads' = loads
  BY EventFacts
<1> HIDE DEF new
<1>2. ~IsStep(new) /\ new[2] = x /\ (IsLanding(new) <=> new = Landing(x))
  BY <1>1, EventFacts
<1>3. new \in Events(Ops(k)) /\ new \notin Been(k) /\ Bef(k)[new] \subseteq Been(k)
  <2>1. new \notin Been(k)
    BY <1>1, <1>2, EventFacts DEF Been, Has
  <2> QED
    BY <1>1, <1>2, <2>1, CopyKnows
<1>4. ASSUME NEW n \in Indices, NEW ev \in Events(Ops(n))
      PROVE  Has(n, ev)' <=> Has(n, ev) \/ (n = k /\ ev = new)
  <2>0. Ops(n)' = Ops(n)
    BY CodeKept
  <2> PICK st : st = Starter(Ops(n), ev)
    OBVIOUS
  <2>1. CASE IsStep(ev)
    <3>1. ev[2] \in Steps(Ops(n)) /\ ev = Taken(ev[2])
      BY <2>1, EventFacts
    <3> QED
      BY <2>0, <2>1, <3>1, <1>2 DEF Has
  <2>2. CASE ~IsStep(ev) /\ IsLanding(ev)
    <3>1. st \in Steps(Ops(n)) /\ ev = Landing(ev[2])
      BY <2>2, OrderedAt, StarterFacts, EventFacts DEF Threading
    <3>2. Has(n, ev) <=> Done(n, st) /\ <<n, ev[2]>> \notin loads
      BY <2>2 DEF Has
    <3>3. Has(n, ev)' <=> Done(n, st)' /\ <<n, ev[2]>> \notin loads'
      BY <2>0, <2>2 DEF Has, Done, Index
    <3>4. Done(n, st)' <=> Done(n, st)
      BY <3>1
    <3>5. n = k /\ ev = new => Done(n, st)
      BY <1>1
    <3>6. n = k /\ ev = new <=> new = Landing(x) /\ <<n, ev[2]>> = <<k, x>>
      BY <2>2, <3>1, <1>2
    <3>7. <<n, ev[2]>> \in loads' <=> <<n, ev[2]>> \in loads /\ ~(n = k /\ ev = new)
      BY <1>1, <1>2, <3>6, EventFacts
    <3> QED
      BY <3>2, <3>3, <3>4, <3>5, <3>7
  <2>3. CASE ~IsStep(ev) /\ ~IsLanding(ev)
    <3>1. st \in Steps(Ops(n)) /\ ev = Reaching(ev[2])
      BY <2>3, OrderedAt, StarterFacts, EventFacts DEF Threading
    <3>2. Has(n, ev) <=> Done(n, st) /\ <<n, ev[2]>> \notin puts
      BY <2>3 DEF Has
    <3>3. Has(n, ev)' <=> Done(n, st)' /\ <<n, ev[2]>> \notin puts'
      BY <2>0, <2>3 DEF Has, Done, Index
    <3>4. Done(n, st)' <=> Done(n, st)
      BY <3>1
    <3>5. n = k /\ ev = new => Done(n, st)
      BY <1>1
    <3>6. n = k /\ ev = new <=> new = Reaching(x) /\ <<n, ev[2]>> = <<k, x>>
      BY <1>1, <2>3, <3>1, <1>2
    <3>7. <<n, ev[2]>> \in puts' <=> <<n, ev[2]>> \in puts /\ ~(n = k /\ ev = new)
      BY <1>1, <1>2, <3>6, EventFacts
    <3> QED
      BY <3>2, <3>3, <3>4, <3>5, <3>7
  <2> QED
    BY <2>1, <2>2, <2>3
<1>5. \A n \in Indices : Been(n)' = Been(n) \cup (IF n = k THEN {new} ELSE {})
  <2> TAKE n \in Indices
  <2>1. Been(n)' = {ev \in Events(Ops(n)) : Has(n, ev)'}
    BY CodeKept DEF Been
  <2> QED
    BY <2>1, <1>3, <1>4 DEF Been
<1>6. \A n \in Indices : \A e \in Steps(Ops(n)) :
          Done(n, e)' <=> Done(n, e) \/ (n = k /\ Taken(e) \in {new})
  BY <1>2, EventFacts
<1>7. Moves(k, {new})
  BY <1>3, <1>5, <1>6 DEF Moves
<1> QED
  BY <1>7 DEF new

------------------------------------------------------------------------------
(* What each action moves.                                                 *)
LEMMA StillMoves ==
  ASSUME AllOrdered, prog \in Programs, UNCHANGED <<prog, loads, puts>>,
         \A n \in Indices : \A e \in Steps(Ops(n)) : Done(n, e)' <=> Done(n, e)
  PROVE  Moves(0, {})
<1>1. Moves(0, {Taken(e) : e \in {}})
  BY StepsMove
<1> QED
  BY <1>1

LEMMA EndStill ==
  ASSUME RingInv, Threading, NEW w \in Warps, End(w),
         NEW n \in Indices, NEW e \in Steps(Ops(n))
  PROVE  Done(n, e)' <=> Done(n, e)
<1> DEFINE t == e[1]
           k == e[2]
<1>1. n \in Nat /\ t \in Threads /\ WarpOf(t) \in Warps /\ k \in Nat \ {0} /\ k <= Len(Ops(n)[t])
      /\ instruction_index \in [Warps -> Nat] /\ at \in [Threads -> Nat \ {0}]
  <2>1. t \in Threads /\ k \in 1 .. Len(Ops(n)[t])
    BY StepFacts
  <2> QED
    BY <2>1, ThreadFacts DEF Indices, RingInv, RingTypeOK, Threading
<1>2. Index(t) = instruction_index[WarpOf(t)] /\ Index(t)' = instruction_index'[WarpOf(t)]
  BY DEF Index
<1> HIDE DEF t, k
<1>3. CASE WarpOf(t) # w
  <2>1. instruction_index'[WarpOf(t)] = instruction_index[WarpOf(t)] /\ at'[t] = at[t]
    BY <1>1, <1>3 DEF End, NextInstruction
  <2> QED
    BY <1>2, <2>1 DEF Done, t, k
<1>4. CASE WarpOf(t) = w
  <2>1. instruction_index'[w] = instruction_index[w] + 1 /\ at'[t] = 1
    BY <1>1, <1>4 DEF End, NextInstruction
  <2>2. running[WarpOf(t)] /\ at[t] > Len(Code(t)) /\ Code(t) = Ops(Index(t))[t]
    BY <1>1, <1>4, ThreadAt DEF End, Lanes
  <2>3. n = Index(t) => at[t] > k
    BY <1>1, <2>2
  <2>4. Index(t) \in Nat /\ Index(t)' = Index(t) + 1
    BY <1>1, <1>2, <1>4, <2>1
  <2>5. Done(n, e) <=> Index(t) > n \/ (Index(t) = n /\ at[t] > k)
    BY DEF Done, t, k
  <2>6. Done(n, e)' <=> Index(t)' > n \/ (Index(t)' = n /\ at'[t] > k)
    BY DEF Done, t, k
  <2>7. ~(at'[t] > k)
    BY <1>1, <2>1
  <2> HIDE DEF Index
  <2> QED
    BY <1>1, <2>3, <2>4, <2>5, <2>6, <2>7
<1> QED
  BY <1>3, <1>4

LEMMA RingMoves ==
  ASSUME AllOrdered, RingInv, Threading,
         FillSlot \/ PublishSlot \/ DrainSlot \/ \E w \in Warps : Begin(w) \/ End(w)
  PROVE  Moves(0, {})
<1>1. UNCHANGED <<prog, loads, puts>>
  BY DEF FillSlot, PublishSlot, DrainSlot, Begin, End, body_vars, async
<1>2. ASSUME NEW n \in Indices, NEW e \in Steps(Ops(n)) PROVE Done(n, e)' <=> Done(n, e)
  <2>1. CASE \E w \in Warps : End(w)
    BY <2>1, EndStill
  <2>2. CASE FillSlot \/ PublishSlot \/ DrainSlot \/ \E w \in Warps : Begin(w)
    <3>1. UNCHANGED <<at, instruction_index>>
      BY <2>2 DEF FillSlot, PublishSlot, DrainSlot, Begin, body_vars,
                  LoadInstruction, Publish, Drain, AwaitInstruction
    <3> QED
      BY <3>1 DEF Done, Index
  <2> QED
    BY <2>1, <2>2
<1> QED
  BY <1>1, <1>2, StillMoves DEF Threading

LEMMA PassesKnows ==
  ASSUME AllOrdered, RingInv, Threading, InOrder, Phases, NEW t \in Threads, Passes(t)
  PROVE  /\ Running(t) /\ ~Step(t).sync
         /\ Bef(Index(t))[Taken(<<t, at[t]>>)] \subseteq Been(Index(t))
<1>1. /\ Running(t) /\ ~Step(t).sync
      /\ \A w \in Step(t).wait : Passed(Sems(Index(t))[w[1]], w[2])
      /\ Step(t).flush => puts = {}
  BY DEF Passes
<1> QED
  BY <1>1, Knows

LEMMA AdvanceMoves ==
  ASSUME AllOrdered, RingInv, Threading, InOrder, Phases, NEW t \in Threads, Advance(t)
  PROVE  Moves(Index(t), {Taken(<<t, at[t]>>)})
<1> DEFINE k == Index(t)
           e == <<t, at[t]>>
           s == Step(t)
<1>1. Passes(t) /\ Running(t) /\ Bef(k)[Taken(e)] \subseteq Been(k)
  BY PassesKnows DEF Advance
<1>2. k \in Indices /\ k \in Nat /\ e \in Steps(Ops(k)) /\ s = At(Ops(k), e) /\ ~Done(k, e)
  BY <1>1, StepAt
<1>3. /\ loads' = loads \cup {<<k, x>> : x \in s.load}
      /\ puts' = puts \cup {<<k, x>> : x \in s.put}
      /\ prog' = prog /\ prog \in Programs
      /\ UNCHANGED instruction_index
      /\ at' = [at EXCEPT ![t] = @ + 1] /\ at \in [Threads -> Nat \ {0}]
  BY DEF Advance, ring_vars, Threading
<1>4. ASSUME NEW n \in Indices, NEW f \in Steps(Ops(n))
      PROVE  Done(n, f)' <=> Done(n, f) \/ (n = k /\ f \in {e})
  <2>1. f[1] \in Threads /\ f[2] \in Nat /\ f = <<f[1], f[2]>> /\ n \in Nat
    BY StepFacts DEF Indices
  <2>2. Index(f[1])' = Index(f[1])
    BY <1>3 DEF Index
  <2>3. Done(n, f)' <=> Index(f[1]) > n \/ (Index(f[1]) = n /\ at'[f[1]] > f[2])
    BY <2>2 DEF Done
  <2>4. CASE f[1] # t
    BY <1>3, <2>1, <2>3, <2>4 DEF Done
  <2>5. CASE f[1] = t
    <3>1. at'[t] = at[t] + 1 /\ at[t] \in Nat
      BY <1>3
    <3>2. f = e <=> f[2] = at[t]
      BY <2>1, <2>5
    <3>3. at'[t] > f[2] <=> at[t] > f[2] \/ f[2] = at[t]
      BY <2>1, <3>1
    <3>4. Done(n, f) <=> k > n \/ (k = n /\ at[t] > f[2])
      BY <2>5 DEF Done
    <3> HIDE DEF e, k
    <3>5. Done(n, f)' <=> k > n \/ (k = n /\ at'[t] > f[2])
      BY <2>3, <2>5 DEF k
    <3> QED
      BY <3>2, <3>3, <3>4, <3>5
  <2> QED
    BY <2>4, <2>5
<1> DEFINE E == {e}
<1>5. /\ loads' = loads \cup {<<k, x>> : x \in UNION {At(Ops(k), f).load : f \in E}}
      /\ puts' = puts \cup {<<k, x>> : x \in UNION {At(Ops(k), f).put : f \in E}}
  BY <1>2, <1>3
<1>6. \A f \in E : /\ k \in Indices /\ f \in Steps(Ops(k)) /\ ~Done(k, f)
                   /\ Bef(k)[Taken(f)] \subseteq Been(k)
  BY <1>1, <1>2
<1>7. {Taken(f) : f \in E} = {Taken(e)}
  OBVIOUS
<1>8. \A n \in Indices : \A f \in Steps(Ops(n)) : Done(n, f)' <=> Done(n, f) \/ (n = k /\ f \in E)
  BY <1>4
<1>9. PICK kk, ee : kk = k /\ ee = e
  OBVIOUS
<1> HIDE DEF k, e, s, E
<1>10. PICK EE : EE = E
  OBVIOUS
<1>11. Moves(kk, {Taken(f) : f \in EE})
  BY <1>3, <1>5, <1>6, <1>8, <1>9, <1>10, StepsMove
<1>12. {Taken(f) : f \in EE} = {Taken(ee)}
  BY <1>7, <1>9, <1>10
<1>13. Moves(kk, {Taken(ee)})
  BY <1>11, <1>12
<1> QED
  BY <1>9, <1>13 DEF k, e

(* The consumer warps that wait in the barrier are all at the same sync.   *)
AllMeet == \A c \in Consumers : Running(<<"consumer", c>>) /\ Step(<<"consumer", c>>).sync

LEMMA SyncAt ==
  ASSUME RingInv, Threading, AllMeet, NEW c \in Consumers, NEW t, t = <<"consumer", c>>
  PROVE  /\ t \in Threads /\ Index(t) \in Indices /\ Index(t) \in Nat
         /\ at[t] \in Nat \ {0}
         /\ <<t, at[t]>> \in Syncs(Ops(Index(t))) /\ <<t, at[t]>> \in Steps(Ops(Index(t)))
         /\ ~Done(Index(t), <<t, at[t]>>)
         /\ \A k \in Nat : Done(Index(t), <<t, k>>) <=> k < at[t]
<1>1. t \in Threads /\ Running(t) /\ Step(t).sync
  BY ThreadFacts DEF AllMeet
<1> QED
  BY <1>1, StepAt DEF Syncs

LEMMA MateFacts ==
  ASSUME NEW code, NEW e \in Syncs(code), NEW f \in Mates(code, e)
  PROVE  /\ f \in Syncs(code) /\ f \in Steps(code) /\ e \in Mates(code, f)
         /\ Ordinal(code, f) = Ordinal(code, e)
         /\ f = <<f[1], f[2]>> /\ f[2] \in Nat
<1>1. f \in Syncs(code) /\ f \in Steps(code) /\ Ordinal(code, f) = Ordinal(code, e)
  BY DEF Mates, Syncs
<1> QED
  BY <1>1, StepFacts DEF Mates

LEMMA SyncIndex ==
  ASSUME AllOrdered, RingInv, Threading, InOrder, AllMeet,
         NEW c \in Consumers, NEW d \in Consumers, NEW t, NEW u,
         t = <<"consumer", c>>, u = <<"consumer", d>>
  PROVE  Index(t) >= Index(u)
<1> DEFINE n == Index(t)
           e == <<t, at[t]>>
<1>1. /\ n \in Indices /\ n \in Nat /\ Index(u) \in Nat /\ e \in Syncs(Ops(n)) /\ ~Done(n, e)
      /\ e \in Steps(Ops(n))
  BY SyncAt
<1> HIDE DEF n, e
<1>2. SUFFICES ASSUME n < Index(u) PROVE FALSE
  BY <1>1 DEF n
<1>3. PICK f \in Mates(Ops(n), e) : f[1] = u
  <2>1. prog \in Programs
    BY DEF Threading
  <2>2. SyncsMatch(Ops(n))
    BY <1>1, <2>1, OrderedAt
  <2> QED
    BY <1>1, <2>2 DEF SyncsMatch
<1>4. f \in Syncs(Ops(n)) /\ e \in Mates(Ops(n), f)
  BY <1>1, MateFacts
<1>5. Done(n, f)
  BY <1>2, <1>3 DEF Done
<1> QED
  BY <1>1, <1>4, <1>5 DEF InOrder

LEMMA SyncTogether ==
  ASSUME AllOrdered, RingInv, Threading, InOrder, AllMeet,
         NEW c \in Consumers, NEW d \in Consumers, NEW t, NEW u,
         t = <<"consumer", c>>, u = <<"consumer", d>>
  PROVE  /\ Index(u) = Index(t)
         /\ <<u, at[u]>> \in Mates(Ops(Index(t)), <<t, at[t]>>)
<1>1. Index(u) = Index(t)
  <2>1. Index(t) >= Index(u) /\ Index(u) >= Index(t)
    BY SyncIndex
  <2>2. Index(t) \in Nat /\ Index(u) \in Nat
    BY SyncAt
  <2> QED
    BY <2>1, <2>2
<1> DEFINE n == Index(t)
           e == <<t, at[t]>>
           g == <<u, at[u]>>
           Ord(f) == Ordinal(Ops(n), f)
<1>2. /\ n \in Indices /\ e \in Syncs(Ops(n)) /\ g \in Syncs(Ops(n))
      /\ ~Done(n, e) /\ ~Done(n, g) /\ at[t] \in Nat /\ at[u] \in Nat
      /\ \A k \in Nat : Done(n, <<t, k>>) <=> k < at[t]
      /\ \A k \in Nat : Done(n, <<u, k>>) <=> k < at[u]
  BY <1>1, SyncAt
<1>3. SyncsMatch(Ops(n))
  BY <1>2, OrderedAt DEF Threading
<1>4. PICK f \in Mates(Ops(n), e) : f[1] = u
  BY <1>2, <1>3 DEF SyncsMatch
<1>5. PICK h \in Mates(Ops(n), g) : h[1] = t
  BY <1>2, <1>3 DEF SyncsMatch
<1>6. /\ f \in Syncs(Ops(n)) /\ e \in Mates(Ops(n), f) /\ f = <<u, f[2]>> /\ f[2] \in Nat
      /\ Ord(f) = Ord(e)
      /\ h \in Syncs(Ops(n)) /\ g \in Mates(Ops(n), h) /\ h = <<t, h[2]>> /\ h[2] \in Nat
      /\ Ord(h) = Ord(g)
  BY <1>2, <1>4, <1>5, MateFacts
<1>7. ~(f[2] < at[u])
  <2>1. SUFFICES ASSUME Done(n, f) PROVE FALSE
    BY <1>2, <1>6
  <2> QED
    BY <2>1, <1>2, <1>6 DEF InOrder
<1>8. ~(h[2] < at[t])
  <2>1. SUFFICES ASSUME Done(n, h) PROVE FALSE
    BY <1>2, <1>6
  <2> QED
    BY <2>1, <1>2, <1>6 DEF InOrder
<1>9. /\ Ord(e) \in Nat /\ Ord(g) \in Nat
      /\ at[u] < f[2] => Ord(g) < Ord(f)
      /\ at[t] < h[2] => Ord(e) < Ord(h)
  <2>1. g[1] = u /\ g[2] = at[u] /\ e[1] = t /\ e[2] = at[t]
    OBVIOUS
  <2> HIDE DEF n, e, g
  <2> QED
    BY <2>1, <1>2, <1>3, <1>4, <1>5, <1>6 DEF SyncsMatch
<1>10. CASE f[2] = at[u]
  BY <1>1, <1>4, <1>6, <1>10
<1>11. CASE f[2] # at[u]
  <2>1. at[u] < f[2]
    BY <1>2, <1>6, <1>7, <1>11
  <2>2. Ord(g) < Ord(e)
    BY <2>1, <1>6, <1>9
  <2>3. h[2] # at[t]
    <3>1. SUFFICES ASSUME h[2] = at[t] PROVE FALSE
      OBVIOUS
    <3>2. h = e
      BY <3>1, <1>6
    <3> HIDE DEF Ord, e, g
    <3>3. Ord(h) = Ord(e)
      BY <3>2
    <3> QED
      BY <3>3, <2>2, <1>6, <1>9
  <2>4. at[t] < h[2]
    <3>1. at[t] \in Nat /\ h[2] \in Nat
      BY <1>2, <1>6
    <3> QED
      BY <3>1, <1>8, <2>3
  <2>5. Ord(e) < Ord(g)
    BY <2>4, <1>6, <1>9
  <2> HIDE DEF Ord, e, g
  <2> QED
    BY <2>2, <2>5, <1>9
<1> QED
  BY <1>10, <1>11

(* The steps at which the consumers meet.                                  *)
Meeting == {<<<<"consumer", c>>, at[<<"consumer", c>>]>> : c \in Consumers}

LEMMA GroupMeets ==
  ASSUME RingInv, Threading, NEW w \in Consumers, GroupWait(w), waiting \cup {w} = Consumers
  PROVE  AllMeet
<1> SUFFICES ASSUME NEW c \in Consumers, NEW t, t = <<"consumer", c>>
             PROVE  Running(t) /\ Step(t).sync
  BY DEF AllMeet
<1>1. CASE c = w
  BY <1>1 DEF GroupWait
<1>2. CASE c # w
  <2>1. t \in Threads /\ WarpOf(t) = t
    BY ThreadFacts
  <2>2. running[t] /\ <<t, at[t]>> \in Syncs(Ops(Index(t)))
    BY <1>2, <2>1 DEF Threading
  <2>3. Code(t) = Ops(Index(t))[t]
    BY <2>1, <2>2, ThreadAt
  <2>4. Running(t)
    BY <2>1, <2>2, <2>3, StepFacts DEF Running, Syncs
  <2> QED
    BY <2>1, <2>2, <2>4, StepAt DEF Syncs
<1> QED
  BY <1>1, <1>2

LEMMA GroupMoves ==
  ASSUME AllOrdered, RingInv, Threading, InOrder, Phases, NEW w \in Consumers, GroupWait(w),
         waiting \cup {w} = Consumers
  PROVE  /\ Moves(Index(<<"consumer", w>>), {Taken(e) : e \in Meeting})
         /\ \A e \in Meeting : e \in Syncs(Ops(Index(<<"consumer", w>>)))
         /\ \A e \in Meeting : Mates(Ops(Index(<<"consumer", w>>)), e) \subseteq Meeting
<1>0. AllMeet
  BY GroupMeets
<1>1. PICK u : u = <<"consumer", w>>
  OBVIOUS
<1>2. PICK k : k = Index(u)
  OBVIOUS
<1>3. PICK E : E = Meeting
  OBVIOUS
<1>4. ASSUME NEW c \in Consumers, NEW t, t = <<"consumer", c>>
      PROVE  /\ Index(t) = k /\ t \in Threads /\ k \in Indices /\ k \in Nat
             /\ <<t, at[t]>> \in Syncs(Ops(k)) /\ <<t, at[t]>> \in Steps(Ops(k))
             /\ <<t, at[t]>> \in E
             /\ ~Done(k, <<t, at[t]>>) /\ at[t] \in Nat
             /\ Bef(k)[Taken(<<t, at[t]>>)] \subseteq Been(k)
  <2>1. Index(t) = k
    <3>1. PICK d \in Consumers : u = <<"consumer", d>>
      BY <1>1
    <3>2. t = <<"consumer", c>>
      BY <1>4
    <3>3. Index(t) >= Index(u) /\ Index(u) >= Index(t)
      BY ONLY <1>0, <3>1, <3>2, SyncIndex, AllOrdered, RingInv, Threading, InOrder
    <3>4. Index(t) \in Nat /\ Index(u) \in Nat
      BY <1>0, <3>1, <3>2, SyncAt
    <3> QED
      BY <3>3, <3>4, <1>2
  <2>2. <<t, at[t]>> \in E
    BY <1>3, <1>4 DEF Meeting
  <2>3. Running(t) /\ Step(t).sync
    BY <1>0, <1>4 DEF AllMeet
  <2>4. /\ t \in Threads /\ k \in Indices /\ k \in Nat /\ <<t, at[t]>> \in Syncs(Ops(k))
        /\ <<t, at[t]>> \in Steps(Ops(k)) /\ ~Done(k, <<t, at[t]>>) /\ at[t] \in Nat
    BY <1>0, <1>4, <2>1, SyncAt
  <2>5. Step(t) = [Step0 EXCEPT !.sync = TRUE]
    <3>1. Step(t) = At(Ops(k), <<t, at[t]>>)
      BY <2>1, <2>3, <2>4, StepAt
    <3>2. WellFormed(Ops(k), Cnt(k))
      BY <2>4, OrderedAt DEF Threading
    <3> QED
      BY <2>3, <2>4, <3>1, <3>2 DEF WellFormed
  <2>6. Step(t).wait = {} /\ ~Step(t).flush
    BY <2>5 DEF Step0
  <2>7. Bef(k)[Taken(<<t, at[t]>>)] \subseteq Been(k)
    BY <2>1, <2>3, <2>4, <2>6, Knows
  <2> QED
    BY <2>1, <2>2, <2>4, <2>7
<1>5. ASSUME NEW e \in E
      PROVE  /\ e = <<e[1], at[e[1]]>> /\ e[1] = <<"consumer", e[1][2]>> /\ e[1][2] \in Consumers
             /\ e \in Steps(Ops(k)) /\ e \in Syncs(Ops(k)) /\ ~Done(k, e)
             /\ Bef(k)[Taken(e)] \subseteq Been(k)
  <2>1. PICK c \in Consumers : e = <<<<"consumer", c>>, at[<<"consumer", c>>]>>
    BY <1>3, <1>5 DEF Meeting
  <2> QED
    BY <2>1, <1>4
<1>6. k \in Indices
  BY <1>1, <1>4
<1>7. /\ UNCHANGED <<prog, loads, puts, instruction_index>> /\ prog \in Programs
      /\ at' = [t \in Threads |-> IF t[1] = "consumer" THEN at[t] + 1 ELSE at[t]]
      /\ at \in [Threads -> Nat \ {0}]
  BY DEF GroupWait, ring_vars, async, Threading
<1>8. ASSUME NEW n \in Indices, NEW f \in Steps(Ops(n))
      PROVE  Done(n, f)' <=> Done(n, f) \/ (n = k /\ f \in E)
  <2>1. f[1] \in Threads /\ f[2] \in Nat /\ f = <<f[1], f[2]>> /\ n \in Nat
    BY StepFacts DEF Indices
  <2>2. Done(n, f)' <=> Index(f[1]) > n \/ (Index(f[1]) = n /\ at'[f[1]] > f[2])
    BY <1>7 DEF Done, Index
  <2>3. Done(n, f) <=> Index(f[1]) > n \/ (Index(f[1]) = n /\ at[f[1]] > f[2])
    BY DEF Done
  <2>4. CASE f[1][1] # "consumer"
    <3>1. at'[f[1]] = at[f[1]]
      BY <1>7, <2>1, <2>4
    <3>2. f \notin E
      BY <2>4, <1>5
    <3> QED
      BY <2>2, <2>3, <3>1, <3>2
  <2>5. CASE f[1][1] = "consumer"
    <3>1. f[1] = <<"consumer", f[1][2]>> /\ f[1][2] \in Consumers
      BY <2>1, <2>5, ThreadFacts
    <3>2. Index(f[1]) = k /\ k \in Nat /\ <<f[1], at[f[1]]>> \in E
      BY <3>1, <1>4
    <3>3. at'[f[1]] = at[f[1]] + 1 /\ at[f[1]] \in Nat
      BY <1>7, <2>1, <2>5
    <3>4. f \in E <=> f[2] = at[f[1]]
      BY <2>1, <3>2, <1>5
    <3>5. at'[f[1]] > f[2] <=> at[f[1]] > f[2] \/ f[2] = at[f[1]]
      BY <2>1, <3>3
    <3> QED
      BY <2>2, <2>3, <3>2, <3>4, <3>5
  <2> QED
    BY <2>4, <2>5
<1>9. \A e \in E : At(Ops(k), e).load = {} /\ At(Ops(k), e).put = {}
  <2> TAKE e \in E
  <2>1. WellFormed(Ops(k), Cnt(k)) /\ e \in Steps(Ops(k)) /\ At(Ops(k), e).sync
    BY <1>5, <1>6, <1>7, OrderedAt DEF Syncs
  <2>2. At(Ops(k), e) = [Step0 EXCEPT !.sync = TRUE]
    BY <2>1 DEF WellFormed
  <2> QED
    BY <2>2 DEF Step0
<1>10. /\ loads' = loads \cup {<<k, x>> : x \in UNION {At(Ops(k), f).load : f \in E}}
       /\ puts' = puts \cup {<<k, x>> : x \in UNION {At(Ops(k), f).put : f \in E}}
  BY <1>7, <1>9
<1>11. Moves(k, {Taken(e) : e \in E})
  BY <1>5, <1>6, <1>7, <1>8, <1>10, StepsMove
<1>12. ASSUME NEW e \in E, NEW f \in Mates(Ops(k), e) PROVE f \in E
  <2>1. f \in Syncs(Ops(k)) /\ f \in Steps(Ops(k)) /\ Ordinal(Ops(k), f) = Ordinal(Ops(k), e)
        /\ f = <<f[1], f[2]>> /\ f[2] \in Nat
    BY <1>5, MateFacts
  <2>2. /\ WellFormed(Ops(k), Cnt(k)) /\ SyncsMatch(Ops(k))
    BY <1>6, <1>7, OrderedAt
  <2>3. f[1][1] = "consumer" /\ f[1] \in Threads
    BY <2>1, <2>2, StepFacts DEF WellFormed, Syncs
  <2>4. f[1] = <<"consumer", f[1][2]>> /\ f[1][2] \in Consumers
    BY <2>3, ThreadFacts
  <2>5. PICK g : g = <<f[1], at[f[1]]>>
    OBVIOUS
  <2>6. g \in E /\ g \in Syncs(Ops(k)) /\ g[1] = f[1] /\ g[2] \in Nat
    BY <2>4, <2>5, <1>4
  <2>7. Ordinal(Ops(k), g) = Ordinal(Ops(k), e)
    <3>1. /\ e[1] = <<"consumer", e[1][2]>> /\ e[1][2] \in Consumers /\ e = <<e[1], at[e[1]]>>
      BY <1>5
    <3>2. Index(e[1]) = k
      BY <3>1, <1>4
    <3>3. g \in Mates(Ops(k), e)
      BY <3>1, <3>2, <2>4, <2>5, <1>0, SyncTogether
    <3> QED
      BY <3>3, <1>5, MateFacts
  <2>8. Ordinal(Ops(k), f) \in Nat /\ Ordinal(Ops(k), g) \in Nat
        /\ (f[2] < g[2] => Ordinal(Ops(k), f) < Ordinal(Ops(k), g))
        /\ (g[2] < f[2] => Ordinal(Ops(k), g) < Ordinal(Ops(k), f))
    BY <2>1, <2>2, <2>6 DEF SyncsMatch
  <2>9. f[2] = g[2]
    BY <2>1, <2>6, <2>7, <2>8
  <2> QED
    BY <2>1, <2>5, <2>6, <2>9
<1> QED
  BY <1>1, <1>2, <1>3, <1>5, <1>11, <1>12

------------------------------------------------------------------------------
(* The threads and the copies under way.                                   *)
LEMMA CopiesNext ==
  ASSUME Copies, NEW k, NEW events, Moves(k, events), NEW E,
         \A e \in E : k \in Indices /\ e \in Steps(Ops(k)) /\ Taken(e) \in events,
         loads' \subseteq loads \cup {<<k, x>> : x \in UNION {At(Ops(k), e).load : e \in E}},
         puts' \subseteq puts \cup {<<k, x>> : x \in UNION {At(Ops(k), e).put : e \in E}}
  PROVE  Copies'
<1>1. \A n : Ops(n)' = Ops(n)
  BY CodeKept DEF Moves
<1>2. ASSUME NEW l \in loads'
      PROVE  \E n \in Indices : \E e \in Steps(Ops(n)) : \E x \in At(Ops(n), e).load :
                l = <<n, x>> /\ Done(n, e)'
  <2>1. CASE l \in loads
    BY <2>1 DEF Copies, Moves
  <2>2. CASE l \notin loads
    <3>0. PICK e \in E : \E x \in At(Ops(k), e).load : l = <<k, x>>
      BY <2>2
    <3>1. PICK x \in At(Ops(k), e).load : l = <<k, x>>
      BY <3>0
    <3>2. k \in Indices /\ e \in Steps(Ops(k)) /\ Done(k, e)'
      BY <3>1 DEF Moves
    <3> QED
      BY <3>1, <3>2
  <2> QED
    BY <2>1, <2>2
<1>3. ASSUME NEW l \in puts'
      PROVE  \E n \in Indices : \E e \in Steps(Ops(n)) : \E x \in At(Ops(n), e).put :
                l = <<n, x>> /\ Done(n, e)'
  <2>1. CASE l \in puts
    BY <2>1 DEF Copies, Moves
  <2>2. CASE l \notin puts
    <3>0. PICK e \in E : \E x \in At(Ops(k), e).put : l = <<k, x>>
      BY <2>2
    <3>1. PICK x \in At(Ops(k), e).put : l = <<k, x>>
      BY <3>0
    <3>2. k \in Indices /\ e \in Steps(Ops(k)) /\ Done(k, e)'
      BY <3>1 DEF Moves
    <3> QED
      BY <3>1, <3>2
  <2> QED
    BY <2>1, <2>2
<1> QED
  BY <1>1, <1>2, <1>3 DEF Copies

(* A copy under way: its start has been, its end has not.                  *)
LEMMA LoadFacts ==
  ASSUME AllOrdered, Threading, Copies, NEW l \in loads
  PROVE  /\ l = <<l[1], l[2]>> /\ l[1] \in Indices /\ l[2] \in Loads(Ops(l[1]))
         /\ Landing(l[2]) \in Events(Ops(l[1])) /\ Landing(l[2]) \notin Been(l[1])
         /\ Done(l[1], Starter(Ops(l[1]), Landing(l[2])))
<1>0. PICK n \in Indices : \E e \in Steps(Ops(n)) : \E x \in At(Ops(n), e).load :
                l = <<n, x>> /\ Done(n, e)
  BY DEF Copies
<1>1. PICK e \in Steps(Ops(n)) : \E x \in At(Ops(n), e).load : l = <<n, x>> /\ Done(n, e)
  BY <1>0
<1>2. PICK x \in At(Ops(n), e).load : l = <<n, x>> /\ Done(n, e)
  BY <1>1
<1>3. x \in Loads(Ops(n))
  BY <1>2 DEF Loads
<1>4. Landing(x) \in Events(Ops(n)) /\ ~IsStep(Landing(x)) /\ IsLanding(Landing(x))
      /\ Landing(x)[2] = x
  BY <1>3, EventFacts
<1>5. e = Starter(Ops(n), Landing(x))
  <2>1. Starts(Ops(n), e, Landing(x))
    BY <1>2, <1>4 DEF Starts
  <2> QED
    BY <1>4, <2>1, OrderedAt, StarterFacts DEF Threading
<1>6. Landing(x) \notin Been(n)
  BY <1>2, <1>4 DEF Been, Has
<1> QED
  BY <1>2, <1>3, <1>4, <1>5, <1>6

LEMMA PutFacts ==
  ASSUME AllOrdered, Threading, Copies, NEW l \in puts
  PROVE  /\ l = <<l[1], l[2]>> /\ l[1] \in Indices /\ l[2] \in Puts(Ops(l[1]))
         /\ Reaching(l[2]) \in Events(Ops(l[1])) /\ Reaching(l[2]) \notin Been(l[1])
         /\ Done(l[1], Starter(Ops(l[1]), Reaching(l[2])))
<1>0. PICK n \in Indices : \E e \in Steps(Ops(n)) : \E x \in At(Ops(n), e).put :
                l = <<n, x>> /\ Done(n, e)
  BY DEF Copies
<1>1. PICK e \in Steps(Ops(n)) : \E x \in At(Ops(n), e).put : l = <<n, x>> /\ Done(n, e)
  BY <1>0
<1>2. PICK x \in At(Ops(n), e).put : l = <<n, x>> /\ Done(n, e)
  BY <1>1
<1>3. x \in Puts(Ops(n))
  BY <1>2 DEF Puts
<1>4. Reaching(x) \in Events(Ops(n)) /\ ~IsStep(Reaching(x)) /\ ~IsLanding(Reaching(x))
      /\ Reaching(x)[2] = x
  BY <1>3, EventFacts
<1>5. e = Starter(Ops(n), Reaching(x))
  <2>1. Starts(Ops(n), e, Reaching(x))
    BY <1>2, <1>4 DEF Starts
  <2> QED
    BY <1>4, <2>1, OrderedAt, StarterFacts DEF Threading
<1>6. Reaching(x) \notin Been(n)
  BY <1>2, <1>4 DEF Been, Has
<1> QED
  BY <1>2, <1>3, <1>4, <1>5, <1>6

(* A copy ends: its landing, its reaching global memory.                   *)
LEMMA LandMoves ==
  ASSUME AllOrdered, RingInv, Threading, Copies, InOrder, NEW l \in loads, Land(l[1], l[2])
  PROVE  Moves(l[1], {Landing(l[2])})
<1>0. PICK k, x : k = l[1] /\ x = l[2]
  OBVIOUS
<1>1. /\ l = <<k, x>> /\ k \in Indices /\ x \in Loads(Ops(k))
      /\ Done(k, Starter(Ops(k), Landing(x)))
  BY <1>0, LoadFacts
<1>2. /\ prog' = prog /\ loads' = loads \ {<<k, x>>} /\ puts' = puts
      /\ UNCHANGED <<instruction_index, at>>
  BY <1>0 DEF Land, ring_vars
<1>3. \A n \in Indices : \A e \in Steps(Ops(n)) : Done(n, e)' <=> Done(n, e)
  BY <1>2 DEF Done, Index
<1>4. <<k, x>> \in loads /\ loads' # loads
  BY <1>1, <1>2
<1>5. Moves(k, {IF <<k, x>> \in loads /\ loads' # loads THEN Landing(x) ELSE Reaching(x)})
  BY <1>1, <1>2, <1>3, <1>4, CopyMoves
<1> QED
  BY <1>0, <1>4, <1>5

LEMMA ReachMoves ==
  ASSUME AllOrdered, RingInv, Threading, Copies, InOrder, NEW l \in puts, Reach(l[1], l[2])
  PROVE  Moves(l[1], {Reaching(l[2])})
<1>0. PICK k, x : k = l[1] /\ x = l[2]
  OBVIOUS
<1>1. /\ l = <<k, x>> /\ k \in Indices /\ x \in Puts(Ops(k))
      /\ Done(k, Starter(Ops(k), Reaching(x)))
  BY <1>0, PutFacts
<1>2. /\ prog' = prog /\ puts' = puts \ {<<k, x>>} /\ loads' = loads
      /\ UNCHANGED <<instruction_index, at>>
  BY <1>0 DEF Reach, ring_vars
<1>3. \A n \in Indices : \A e \in Steps(Ops(n)) : Done(n, e)' <=> Done(n, e)
  BY <1>2 DEF Done, Index
<1>4. <<k, x>> \in puts
  BY <1>1
<1>5. Moves(k, {IF <<k, x>> \in loads /\ loads' # loads THEN Landing(x) ELSE Reaching(x)})
  BY <1>1, <1>2, <1>3, <1>4, CopyMoves
<1>6. ~(<<k, x>> \in loads /\ loads' # loads)
  BY <1>2
<1> QED
  BY <1>0, <1>5, <1>6

(* What has been stays in order.                                           *)
LEMMA InOrderNext ==
  ASSUME InOrder, NEW k, NEW events, Moves(k, events),
         \A ev \in events : IsStep(ev) /\ ev[2] \in Syncs(Ops(k)) =>
            \A f \in Mates(Ops(k), ev[2]) : Taken(f) \in events
  PROVE  InOrder'
<1>1. \A n : Ops(n)' = Ops(n) /\ Bef(n)' = Bef(n)
  BY CodeKept DEF Moves
<1>2. ASSUME NEW n \in Indices, NEW ev \in Been(n)' PROVE Bef(n)[ev] \subseteq Been(n)'
  <2>1. Been(n)' = Been(n) \cup (IF n = k THEN events ELSE {})
    BY DEF Moves
  <2>2. CASE ev \in Been(n)
    BY <2>1, <2>2 DEF InOrder
  <2>3. CASE ev \notin Been(n)
    BY <2>1, <2>3 DEF Moves
  <2> QED
    BY <2>2, <2>3
<1>3. ASSUME NEW n \in Indices, NEW e \in Syncs(Ops(n)), NEW f \in Mates(Ops(n), e), Done(n, e)'
      PROVE  Done(n, f)'
  <2>1. e \in Steps(Ops(n)) /\ f \in Steps(Ops(n))
    BY DEF Syncs, Mates
  <2>2. CASE Done(n, e)
    BY <2>1, <2>2 DEF InOrder, Moves
  <2>3. CASE ~Done(n, e)
    <3>1. n = k /\ Taken(e) \in events
      BY <1>3, <2>1, <2>3 DEF Moves
    <3>2. IsStep(Taken(e)) /\ Taken(e)[2] = e
      BY EventFacts
    <3> QED
      BY <2>1, <3>1, <3>2 DEF Moves
  <2> QED
    BY <2>2, <2>3
<1> QED
  BY <1>1, <1>2, <1>3 DEF InOrder

------------------------------------------------------------------------------
(* The threads stay in their code.                                         *)
ThreadBound(t) ==
    IF running[WarpOf(t)] THEN at[t] <= Len(Ops(Index(t))[t]) + 1 ELSE at[t] = 1

WaitsAt(t) == running[t] /\ <<t, at[t]>> \in Syncs(Ops(Index(t)))

LEMMA ThreadingIs ==
  Threading <=> /\ prog \in Programs
                /\ at \in [Threads -> Nat \ {0}]
                /\ \A t \in Threads : ThreadBound(t)
                /\ \A r \in Slots : slot[r] \in -1 .. num_iters - 1
                /\ drained \in Nat
                /\ waiting \subseteq Consumers
                /\ \A c \in waiting : \A t \in Threads : t = <<"consumer", c>> => WaitsAt(t)
BY DEF Threading, ThreadBound, WaitsAt

LEMMA LengthFacts ==
  ASSUME AllOrdered, prog \in Programs
  PROVE  \A n \in Indices : \A t \in Threads : Len(Ops(n)[t]) \in Nat
BY OrderedAt DEF WellFormed

LEMMA BeginThreading ==
  ASSUME AllOrdered, RingInv, Threading, NEW w \in Warps, Begin(w)
  PROVE  Threading'
<1>1. /\ UNCHANGED <<prog, at, slot, drained, waiting, instruction_index>>
      /\ running' = [running EXCEPT ![w] = TRUE] /\ running \in [Warps -> BOOLEAN]
      /\ AwaitInstruction(w)
  BY DEF Begin, AwaitInstruction, body_vars, controller, RingInv, RingTypeOK
<1>2. \A n : Ops(n)' = Ops(n)
  BY <1>1, CodeKept
<1>3. ASSUME NEW t \in Threads PROVE ThreadBound(t)'
  <2>1. WarpOf(t) \in Warps /\ Index(t)' = Index(t) /\ ThreadBound(t)
    BY <1>1, ThreadFacts, ThreadingIs DEF Index
  <2>2. CASE WarpOf(t) # w \/ running[w]
    <3>1. running'[WarpOf(t)] = running[WarpOf(t)]
      BY <1>1, <2>1, <2>2
    <3> QED
      BY <1>1, <1>2, <2>1, <3>1 DEF ThreadBound
  <2>3. CASE WarpOf(t) = w /\ ~running[w]
    <3>1. Index(t) < fetch
      BY <1>1, <2>3, AwaitTells DEF Index
    <3>2. Index(t) \in Indices
      BY <3>1, ThreadAt, Sizes DEF Indices, RingInv, RingTypeOK
    <3>3. Len(Ops(Index(t))[t]) \in Nat
      BY <3>2, LengthFacts DEF Threading
    <3>4. at[t] = 1
      BY <2>3, ThreadAt
    <3> QED
      BY <1>1, <1>2, <2>1, <2>3, <3>3, <3>4 DEF ThreadBound
  <2> QED
    BY <2>2, <2>3
<1>4. ASSUME NEW c \in waiting, NEW t \in Threads, t = <<"consumer", c>> PROVE WaitsAt(t)'
  <2>1. WaitsAt(t) /\ Index(t)' = Index(t) /\ t \in Warps
    BY <1>1, <1>4, ThreadingIs, ThreadFacts DEF Index
  <2> QED
    BY <1>1, <1>2, <2>1 DEF WaitsAt
<1> QED
  BY <1>1, <1>3, <1>4 DEF Threading, ThreadBound, WaitsAt

LEMMA EndThreading ==
  ASSUME AllOrdered, RingInv, Threading, NEW w \in Warps, End(w)
  PROVE  Threading'
<1>1. /\ UNCHANGED <<prog, slot, drained, waiting>>
      /\ at' = [t \in Threads |-> IF WarpOf(t) = w THEN 1 ELSE at[t]]
      /\ running' = [running EXCEPT ![w] = FALSE] /\ running \in [Warps -> BOOLEAN]
      /\ instruction_index' = [instruction_index EXCEPT ![w] = @ + 1]
      /\ instruction_index \in [Warps -> Nat]
  BY DEF End, NextInstruction, controller, RingInv, RingTypeOK
<1>2. \A n : Ops(n)' = Ops(n)
  BY <1>1, CodeKept
<1>3. at' \in [Threads -> Nat \ {0}]
  BY <1>1 DEF Threading
<1>4. ASSUME NEW t \in Threads PROVE ThreadBound(t)'
  <2>1. WarpOf(t) \in Warps /\ ThreadBound(t)
    BY ThreadFacts, ThreadingIs
  <2>2. CASE WarpOf(t) # w
    <3>1. running'[WarpOf(t)] = running[WarpOf(t)] /\ at'[t] = at[t] /\ Index(t)' = Index(t)
      BY <1>1, <2>1, <2>2 DEF Index
    <3> QED
      BY <1>2, <2>1, <3>1 DEF ThreadBound
  <2>3. CASE WarpOf(t) = w
    BY <1>1, <2>3 DEF ThreadBound
  <2> QED
    BY <2>2, <2>3
<1>5. ASSUME NEW c \in waiting, NEW t \in Threads, t = <<"consumer", c>> PROVE WaitsAt(t)'
  <2>1. WaitsAt(t) /\ WarpOf(t) = t /\ t \in Warps
    BY <1>5, ThreadingIs, ThreadFacts
  <2>2. t # w
    <3>1. SUFFICES ASSUME t = w PROVE FALSE
      OBVIOUS
    <3>2. at[t] > Len(Code(t)) /\ Code(t) = Ops(Index(t))[t]
      BY <2>1, <3>1, ThreadAt DEF End, Lanes, WaitsAt
    <3>3. at[t] \in 1 .. Len(Ops(Index(t))[t])
      BY <2>1, StepFacts DEF WaitsAt, Syncs
    <3> QED
      BY <3>2, <3>3
  <2>3. running'[t] = running[t] /\ at'[t] = at[t] /\ Index(t)' = Index(t)
    BY <1>1, <2>1, <2>2 DEF Index
  <2> QED
    BY <1>2, <2>1, <2>3 DEF WaitsAt
<1> QED
  BY <1>1, <1>3, <1>4, <1>5 DEF Threading, ThreadBound, WaitsAt

LEMMA AdvanceThreading ==
  ASSUME AllOrdered, RingInv, Threading, NEW u \in Threads, Advance(u)
  PROVE  Threading'
<1>1. /\ UNCHANGED <<prog, slot, drained, waiting, running, instruction_index>>
      /\ at' = [at EXCEPT ![u] = @ + 1] /\ at \in [Threads -> Nat \ {0}]
  BY DEF Advance, ring_vars, controller, Threading
<1>2. \A n : Ops(n)' = Ops(n)
  BY <1>1, CodeKept
<1>3. at' \in [Threads -> Nat \ {0}]
  BY <1>1
<1>4. Running(u) /\ ~Step(u).sync
  BY DEF Advance, Passes
<1>5. ASSUME NEW t \in Threads PROVE ThreadBound(t)'
  <2>1. ThreadBound(t) /\ Index(t)' = Index(t)
    BY <1>1, ThreadingIs DEF Index
  <2>2. CASE t # u
    <3>1. at'[t] = at[t]
      BY <1>1, <2>2
    <3> QED
      BY <1>1, <1>2, <2>1, <3>1 DEF ThreadBound
  <2>3. CASE t = u
    <3>1. <<t, at[t]>> \in Steps(Ops(Index(t))) /\ running[WarpOf(t)]
      BY <1>4, <2>3, StepAt
    <3>2. at[t] \in 1 .. Len(Ops(Index(t))[t])
      BY <3>1, StepFacts
    <3>3. at'[t] = at[t] + 1
      BY <1>1, <2>3
    <3> QED
      BY <1>1, <1>2, <2>1, <3>1, <3>2, <3>3 DEF ThreadBound
  <2> QED
    BY <2>2, <2>3
<1>6. ASSUME NEW c \in waiting, NEW t \in Threads, t = <<"consumer", c>> PROVE WaitsAt(t)'
  <2>1. WaitsAt(t) /\ Index(t)' = Index(t) /\ t \in Threads
    BY <1>1, <1>6, ThreadingIs DEF Index
  <2>2. t # u
    BY <2>1, <1>4, StepAt DEF WaitsAt, Syncs
  <2>3. at'[t] = at[t]
    BY <1>1, <2>1, <2>2
  <2> QED
    BY <1>1, <1>2, <2>1, <2>3 DEF WaitsAt
<1> QED
  BY <1>1, <1>3, <1>5, <1>6 DEF Threading, ThreadBound, WaitsAt

LEMMA GroupThreading ==
  ASSUME AllOrdered, RingInv, Threading, NEW w \in Consumers, GroupWait(w)
  PROVE  Threading'
<1>1. /\ UNCHANGED <<prog, slot, drained, running, instruction_index>>
      /\ at \in [Threads -> Nat \ {0}] /\ waiting \subseteq Consumers
  BY DEF GroupWait, ring_vars, controller, Threading
<1>2. \A n : Ops(n)' = Ops(n)
  BY <1>1, CodeKept
<1>3. \A t \in Threads : Index(t)' = Index(t) /\ ThreadBound(t)
  BY <1>1, ThreadingIs DEF Index
<1>4. CASE waiting \cup {w} = Consumers
  <2>1. /\ waiting' = {}
        /\ at' = [t \in Threads |-> IF t[1] = "consumer" THEN at[t] + 1 ELSE at[t]]
    BY <1>4 DEF GroupWait
  <2>2. at' \in [Threads -> Nat \ {0}]
    BY <1>1, <2>1
  <2>3. AllMeet
    BY <1>4, GroupMeets
  <2>4. ASSUME NEW t \in Threads PROVE ThreadBound(t)'
    <3>1. CASE t[1] # "consumer"
      <4>1. at'[t] = at[t]
        BY <2>1, <3>1
      <4> QED
        BY <1>1, <1>2, <1>3, <4>1 DEF ThreadBound
    <3>2. CASE t[1] = "consumer"
      <4>1. Running(t)
        BY <2>3, <3>2, ThreadFacts DEF AllMeet
      <4>2. <<t, at[t]>> \in Steps(Ops(Index(t))) /\ running[WarpOf(t)]
        BY <4>1, StepAt
      <4>3. at[t] \in 1 .. Len(Ops(Index(t))[t])
        BY <4>2, StepFacts
      <4>4. at'[t] = at[t] + 1
        BY <2>1, <3>2
      <4> QED
        BY <1>1, <1>2, <1>3, <4>2, <4>3, <4>4 DEF ThreadBound
    <3> QED
      BY <3>1, <3>2
  <2> QED
    BY <1>1, <2>1, <2>2, <2>4 DEF Threading, ThreadBound, WaitsAt
<1>5. CASE waiting \cup {w} # Consumers
  <2>1. waiting' = waiting \cup {w} /\ at' = at
    BY <1>5 DEF GroupWait
  <2>2. ASSUME NEW t \in Threads PROVE ThreadBound(t)'
    BY <1>1, <1>2, <1>3, <2>1 DEF ThreadBound
  <2>3. ASSUME NEW c \in waiting', NEW t \in Threads, t = <<"consumer", c>> PROVE WaitsAt(t)'
    <3>1. WaitsAt(t)
      <4>1. CASE c = w
        <5>1. Running(t) /\ Step(t).sync /\ WarpOf(t) = t
          BY <2>3, <4>1, ThreadFacts DEF GroupWait
        <5> QED
          BY <5>1, StepAt DEF WaitsAt, Syncs
      <4>2. CASE c # w
        BY <2>1, <2>3, <4>2, ThreadingIs
      <4> QED
        BY <4>1, <4>2
    <3> QED
      BY <1>1, <1>2, <1>3, <2>1, <3>1 DEF WaitsAt
  <2> QED
    BY <1>1, <2>1, <2>2, <2>3 DEF Threading, ThreadBound, WaitsAt
<1> QED
  BY <1>4, <1>5

LEMMA OtherThreading ==
  ASSUME AllOrdered, RingInv, Threading,
         UNCHANGED <<prog, at, waiting, running, instruction_index>>,
         \A r \in Slots : slot'[r] \in -1 .. num_iters - 1, drained' \in Nat
  PROVE  Threading'
<1>1. \A n : Ops(n)' = Ops(n)
  BY CodeKept
<1>2. \A t : Index(t)' = Index(t)
  BY DEF Index
<1>3. ASSUME NEW t \in Threads PROVE ThreadBound(t)'
  BY <1>1, <1>2, ThreadingIs DEF ThreadBound
<1>4. ASSUME NEW c \in waiting, NEW t \in Threads, t = <<"consumer", c>> PROVE WaitsAt(t)'
  BY <1>1, <1>2, <1>4, ThreadingIs DEF WaitsAt
<1> QED
  BY <1>3, <1>4 DEF Threading, ThreadBound, WaitsAt

LEMMA ThreadingNext ==
  ASSUME AllOrdered, RingInv, Threading, Next
  PROVE  Threading'
<1>1. CASE FillSlot
  <2>1. UNCHANGED <<prog, at, waiting, running, instruction_index, drained>>
    BY <1>1 DEF FillSlot, LoadInstruction
  <2>2. slot' = [slot EXCEPT ![Ring(fetch)] = fetch] /\ fetch < num_iters /\ fetch \in 0 .. num_iters
        /\ num_iters \in Nat /\ slot \in [Slots -> Int]
    BY <1>1, Sizes DEF FillSlot, LoadInstruction, RingInv, RingTypeOK
  <2>3. \A r \in Slots : slot'[r] \in -1 .. num_iters - 1
    BY <2>2 DEF Threading
  <2> QED
    BY <2>1, <2>3, OtherThreading DEF Threading
<1>2. CASE PublishSlot
  <2>1. UNCHANGED <<prog, at, waiting, running, instruction_index, drained, slot>>
    BY <1>2 DEF PublishSlot, Publish, body_vars
  <2> QED
    BY <2>1, OtherThreading DEF Threading
<1>3. CASE DrainSlot
  <2>1. UNCHANGED <<prog, at, waiting, running, instruction_index, slot>> /\ drained' = drained + 1
    BY <1>3 DEF DrainSlot, Drain
  <2>2. drained' \in Nat
    BY <2>1 DEF Threading
  <2> QED
    BY <2>1, <2>2, OtherThreading DEF Threading
<1>4. ASSUME NEW l \in loads, Land(l[1], l[2]) PROVE Threading'
  <2>1. UNCHANGED <<prog, at, waiting, running, instruction_index, drained, slot>>
    BY <1>4 DEF Land, ring_vars, controller
  <2> QED
    BY <2>1, OtherThreading DEF Threading
<1>5. ASSUME NEW l \in puts, Reach(l[1], l[2]) PROVE Threading'
  <2>1. UNCHANGED <<prog, at, waiting, running, instruction_index, drained, slot>>
    BY <1>5 DEF Reach, ring_vars, controller
  <2> QED
    BY <2>1, OtherThreading DEF Threading
<1>6. CASE UNCHANGED vars
  <2>1. UNCHANGED <<prog, at, waiting, running, instruction_index, drained, slot>>
    BY <1>6 DEF vars, ring_vars, body_vars, controller
  <2> QED
    BY <2>1, OtherThreading DEF Threading
<1> QED
  BY <1>1, <1>2, <1>3, <1>4, <1>5, <1>6, BeginThreading, EndThreading, AdvanceThreading,
     GroupThreading DEF Next, Work

------------------------------------------------------------------------------
(* The semaphores stay in the rounds of their arrivals.                    *)
PhasesOf(n) ==
    /\ semaphores[Ring(n)] = [sem \in DOMAIN Cnt(n) |-> semaphores[Ring(n)][sem]]
    /\ \A sem \in DOMAIN Cnt(n) :
          InPhase(Rds(n)[sem], Cnt(n)[sem], semaphores[Ring(n)][sem], Been(n))

LEMMA PhasesIs ==
  Phases <=> DOMAIN semaphores = Slots /\ \A n \in Indices : Active(n) => PhasesOf(n)
BY DEF Phases, PhasesOf

LEMMA RingIsSlot == \A n \in Nat : Ring(n) \in Slots
BY NextTurn

LEMMA IndexFacts == \A n \in Indices : n \in Nat /\ n \in Int /\ Ring(n) \in Slots
BY NextTurn DEF Indices

LEMMA TwoInFlight ==
  ASSUME RingInv, NEW m, NEW n, InFlight(m), InFlight(n), m # n
  PROVE  Ring(m) # Ring(n)
<1>1. m \in Int /\ n \in Int /\ Loaded \in Int /\ S \in Int
  BY IndexFacts, Sizes DEF InFlight, Loaded, RingInv, RingTypeOK
<1>2. Loaded - S <= m /\ m < Loaded /\ Loaded - S <= n /\ n < Loaded
  BY DEF InFlight
<1>3. CASE m < n
  BY <1>1, <1>2, <1>3, Apart
<1>4. CASE n < m
  BY <1>1, <1>2, <1>4, Apart
<1> QED
  BY <1>1, <1>3, <1>4

LEMMA KeptPhases ==
  ASSUME AllOrdered, Threading, Phases, semaphores' = semaphores,
         \A n \in Indices : Active(n)' => Active(n),
         NEW k, NEW events, Moves(k, events),
         \A ev \in events : Arrives(Ops(k), ev) = {}
  PROVE  Phases'
<1>1. \A n : Cnt(n)' = Cnt(n) /\ Rds(n)' = Rds(n)
  BY CodeKept DEF Moves
<1>2. ASSUME NEW n \in Indices, Active(n) PROVE PhasesOf(n)'
  <2>1. PhasesOf(n)
    BY <1>2, PhasesIs
  <2>2. Been(n)' = Been(n) \cup (IF n = k THEN events ELSE {})
    BY DEF Moves
  <2>3. ASSUME NEW sem \in DOMAIN Cnt(n)
        PROVE  InPhase(Rds(n)[sem], Cnt(n)[sem], semaphores[Ring(n)][sem], Been(n)')
    <3>1. InPhase(Rds(n)[sem], Cnt(n)[sem], semaphores[Ring(n)][sem], Been(n))
      BY <2>1 DEF PhasesOf
    <3>2. InRounds(Ops(n), Cnt(n), Rds(n), Bef(n))
      BY OrderedAt DEF Threading
    <3>3. \A r \in DOMAIN Rds(n)[sem] :
             Rds(n)[sem][r] \cap (IF n = k THEN events ELSE {}) = {}
      <4>1. \A ev \in Events(Ops(n)) : Arrives(Ops(n), ev) = {} =>
              \A r \in DOMAIN Rds(n)[sem] : ev \notin Rds(n)[sem][r]
        BY <3>2 DEF InRounds
      <4>2. n = k => \A ev \in events : ev \in Events(Ops(n)) /\ Arrives(Ops(n), ev) = {}
        BY DEF Moves
      <4> QED
        BY <4>1, <4>2
    <3> QED
      BY <2>2, <3>1, <3>3, NoArrival
  <2> QED
    BY <1>1, <2>1, <2>3 DEF PhasesOf
<1> QED
  BY <1>2 DEF Phases, PhasesOf

LEMMA ArrivalPhases ==
  ASSUME AllOrdered, RingInv, Threading, Phases,
         \A n \in Indices : Active(n)' => Active(n),
         NEW k, NEW ev, Moves(k, {ev}), Active(k),
         semaphores' = Arrived(k, Arrives(Ops(k), ev))
  PROVE  Phases'
<1>0. k \in Indices /\ ev \in Events(Ops(k)) /\ ev \notin Been(k) /\ Bef(k)[ev] \subseteq Been(k)
  BY DEF Moves
<1>1. \A n : Cnt(n)' = Cnt(n) /\ Rds(n)' = Rds(n)
  BY CodeKept DEF Moves
<1>2. DOMAIN semaphores = Slots /\ Ring(k) \in Slots
  BY <1>0, IndexFacts DEF Phases
<1>3. DOMAIN semaphores' = Slots /\ \A r \in Slots : r # Ring(k) => semaphores'[r] = semaphores[r]
  BY <1>2 DEF Arrived
<1>4. ASSUME NEW n \in Indices, Active(n), n # k PROVE PhasesOf(n)'
  <2>1. PhasesOf(n) /\ Been(n)' = Been(n)
    BY <1>4, PhasesIs DEF Moves
  <2>2. Ring(n) # Ring(k) /\ Ring(n) \in Slots
    BY <1>4, TwoInFlight, IndexFacts DEF Active
  <2>3. semaphores'[Ring(n)] = semaphores[Ring(n)]
    BY <1>3, <2>2
  <2> QED
    BY <1>1, <2>1, <2>3 DEF PhasesOf
<1>5. PhasesOf(k)'
  <2> DEFINE sems == semaphores[Ring(k)]
             arrived == Arrives(Ops(k), ev)
  <2>1. PhasesOf(k) /\ Been(k)' = Been(k) \cup {ev}
    BY <1>0, PhasesIs DEF Moves
  <2>2. DOMAIN sems = DOMAIN Cnt(k)
    BY <2>1 DEF PhasesOf
  <2>3. semaphores'[Ring(k)] =
          [sem \in DOMAIN Cnt(k) |->
             IF sem \in arrived THEN Arrive(sems[sem], 1, Cnt(k)[sem]) ELSE sems[sem]]
    BY <1>2, <2>2 DEF Arrived, Count, Cnt
  <2>4. InRounds(Ops(k), Cnt(k), Rds(k), Bef(k))
    BY <1>0, OrderedAt DEF Threading
  <2>5. ASSUME NEW sem \in DOMAIN Cnt(k)
        PROVE  InPhase(Rds(k)[sem], Cnt(k)[sem], semaphores'[Ring(k)][sem], Been(k)')
    <3> DEFINE rounds == Rds(k)[sem]
    <3>1. InPhase(rounds, Cnt(k)[sem], sems[sem], Been(k))
      BY <2>1 DEF PhasesOf
    <3>2. CASE sem \in arrived
      <4>1. semaphores'[Ring(k)][sem] = Arrive(sems[sem], 1, Cnt(k)[sem])
        BY <2>3, <3>2
      <4>2. PICK r \in DOMAIN rounds : ev \in rounds[r]
        BY <1>0, <2>4, <3>2 DEF InRounds
      <4>3. /\ Cnt(k)[sem] \in Nat \ {0}
            /\ \A s \in DOMAIN rounds :
                  /\ s \in Nat /\ IsFiniteSet(rounds[s]) /\ Cardinality(rounds[s]) = Cnt(k)[sem]
                  /\ \A q \in 0 .. s - 1 : /\ q \in DOMAIN rounds /\ rounds[q] \cap rounds[s] = {}
                                           /\ \A f \in rounds[s] : rounds[q] \subseteq Bef(k)[f]
        BY <2>4 DEF InRounds
      <4>4. \A q \in 0 .. r - 1 : rounds[q] \subseteq Been(k)
        BY <1>0, <4>2, <4>3
      <4> HIDE DEF rounds, sems
      <4>5. InPhase(rounds, Cnt(k)[sem], Arrive(sems[sem], 1, Cnt(k)[sem]), Been(k) \cup {ev})
        BY <1>0, <3>1, <4>2, <4>3, <4>4, ArrivalKept
      <4> QED
        BY <2>1, <4>1, <4>5 DEF rounds
    <3>3. CASE sem \notin arrived
      <4>1. semaphores'[Ring(k)][sem] = sems[sem]
        BY <2>3, <3>3
      <4>2. \A r \in DOMAIN rounds : rounds[r] \cap {ev} = {}
        BY <1>0, <2>4, <3>3 DEF InRounds
      <4> HIDE DEF rounds, sems
      <4>3. InPhase(rounds, Cnt(k)[sem], sems[sem], Been(k) \cup {ev})
        BY <3>1, <4>2, NoArrival
      <4> QED
        BY <2>1, <4>1, <4>3 DEF rounds
    <3> QED
      BY <3>2, <3>3
  <2>6. semaphores'[Ring(k)] = [sem \in DOMAIN Cnt(k) |-> semaphores'[Ring(k)][sem]]
    BY <2>3
  <2> HIDE DEF sems, arrived
  <2> QED
    BY <1>1, <2>5, <2>6 DEF PhasesOf
<1> QED
  BY <1>3, <1>4, <1>5 DEF Phases, PhasesOf

(* Which instructions are in the slots.                                    *)
LEMMA FillFacts ==
  ASSUME AllOrdered, RingInv, Threading, FillSlot
  PROVE  /\ fetch \in Indices /\ fetch \in Nat /\ Loaded = fetch /\ Loaded' = fetch + 1
         /\ S \in Nat \ {0} /\ Ring(fetch) \in Slots
         /\ \A n \in Indices : /\ InFlight(n)' /\ n # fetch => InFlight(n) /\ Ring(n) # Ring(fetch)
                               /\ Active(n)' /\ n # fetch => Active(n)
         /\ \A e \in Steps(Ops(fetch)) : ~Done(fetch, e)
         /\ \A n \in Indices : n <= fetch - S => \A e \in Steps(Ops(n)) : Done(n, e)
<1>1. /\ fetch \in 0 .. num_iters /\ fetch < num_iters /\ num_iters \in Nat /\ S \in Nat \ {0}
      /\ step = "load" /\ step' = "publish" /\ fetch' = fetch
      /\ UNCHANGED instruction_index /\ instruction_index \in [Warps -> Nat]
      /\ LoadInstruction
  BY Sizes DEF FillSlot, LoadInstruction, RingInv, RingTypeOK
<1>2. fetch \in Indices /\ fetch \in Nat /\ Loaded = fetch /\ Loaded' = fetch + 1
  BY <1>1 DEF Indices, Loaded
<1>3. ASSUME NEW n \in Indices, n # fetch, InFlight(n)'
      PROVE  InFlight(n) /\ Ring(n) # Ring(fetch)
  <2>1. n \in Int /\ fetch + 1 - S <= n /\ n < fetch + 1
    <3>1. n \in Int
      BY IndexFacts
    <3>2. Loaded' - S <= n /\ n < Loaded'
      BY <1>3 DEF InFlight, S
    <3> QED
      BY <1>1, <1>2, <3>1, <3>2
  <2>2. n < fetch /\ fetch < n + S /\ fetch - S <= n
    BY <2>1, <1>1, <1>2, <1>3
  <2>3. Ring(n) # Ring(fetch)
    BY <2>1, <2>2, <1>2, Apart
  <2> QED
    BY <1>2, <2>2, <2>3 DEF InFlight
<1>4. ASSUME NEW n \in Indices, n # fetch, Active(n)' PROVE Active(n)
  BY <1>1, <1>3, <1>4 DEF Active, DoneWith
<1>5. ASSUME NEW e \in Steps(Ops(fetch)) PROVE ~Done(fetch, e)
  <2>1. SUFFICES ASSUME Done(fetch, e) PROVE FALSE
    OBVIOUS
  <2>2. fetch < Loaded
    BY <1>2, <2>1, DoneBefore
  <2> QED
    BY <1>2, <2>2
<1>6. ASSUME NEW n \in Indices, n <= fetch - S, NEW e \in Steps(Ops(n)) PROVE Done(n, e)
  <2>1. e[1] \in Threads /\ WarpOf(e[1]) \in Warps
    BY StepFacts, ThreadFacts
  <2>2. Index(e[1]) > fetch - S /\ Index(e[1]) \in Nat /\ n \in Nat
    BY <1>1, <2>1, SlotFree, IndexFacts DEF Index
  <2>3. Index(e[1]) > n
    BY <2>2, <1>6, <1>1, <1>2
  <2> QED
    BY <2>3 DEF Done
<1>7. S \in Nat \ {0} /\ Ring(fetch) \in Slots
  BY <1>1, <1>2, IndexFacts
<1> QED
  BY <1>2, <1>3, <1>4, <1>5, <1>6, <1>7

LEMMA OthersFacts ==
  ASSUME RingInv, Next, ~FillSlot
  PROVE  /\ Loaded' = Loaded
         /\ \A n \in Indices : (InFlight(n)' <=> InFlight(n)) /\ (Active(n)' => Active(n))
<1>1. Loaded' = Loaded /\ \A w \in Warps : instruction_index'[w] \in Nat
                                          /\ instruction_index'[w] >= instruction_index[w]
  <2>0. instruction_index \in [Warps -> Nat] /\ fetch \in 0 .. num_iters /\ num_iters \in Nat
    BY Sizes DEF RingInv, RingTypeOK
  <2>1. CASE PublishSlot
    <3>1. step = "publish" /\ step' = "load" /\ fetch' = fetch + 1 /\ UNCHANGED instruction_index
      BY <2>1 DEF PublishSlot, Publish
    <3> QED
      BY <2>0, <3>1 DEF Loaded
  <2>2. ASSUME NEW w \in Warps, End(w)
        PROVE  /\ UNCHANGED <<step, fetch>>
               /\ instruction_index' = [instruction_index EXCEPT ![w] = @ + 1]
    BY <2>2 DEF End, NextInstruction, controller
  <2>3. ASSUME UNCHANGED <<step, fetch, instruction_index>>
        PROVE  Loaded' = Loaded /\ \A w \in Warps : instruction_index'[w] \in Nat
                                          /\ instruction_index'[w] >= instruction_index[w]
    BY <2>0, <2>3 DEF Loaded
  <2>4. CASE DrainSlot
    BY <2>3, <2>4 DEF DrainSlot, Drain
  <2>5. ASSUME NEW w \in Warps, Begin(w) PROVE UNCHANGED <<step, fetch, instruction_index>>
    BY <2>5 DEF Begin, AwaitInstruction, controller
  <2>6. ASSUME NEW t \in Threads, Advance(t) PROVE UNCHANGED <<step, fetch, instruction_index>>
    BY <2>6 DEF Advance, ring_vars, controller
  <2>7. ASSUME NEW w \in Consumers, GroupWait(w) PROVE UNCHANGED <<step, fetch, instruction_index>>
    BY <2>7 DEF GroupWait, ring_vars, controller
  <2>8. ASSUME NEW l \in loads, Land(l[1], l[2]) PROVE UNCHANGED <<step, fetch, instruction_index>>
    BY <2>8 DEF Land, ring_vars, controller
  <2>9. ASSUME NEW l \in puts, Reach(l[1], l[2]) PROVE UNCHANGED <<step, fetch, instruction_index>>
    BY <2>9 DEF Reach, ring_vars, controller
  <2>10. CASE UNCHANGED vars
    BY <2>3, <2>10 DEF vars, ring_vars, controller
  <2>11. CASE \E w \in Warps : End(w)
    BY <2>0, <2>2, <2>11 DEF Loaded
  <2> QED
    BY <2>1, <2>3, <2>4, <2>5, <2>6, <2>7, <2>8, <2>9, <2>10, <2>11 DEF Next, Work
<1>2. ASSUME NEW n \in Indices PROVE InFlight(n)' <=> InFlight(n)
  BY <1>1 DEF InFlight
<1>3. ASSUME NEW n \in Indices, Active(n)' PROVE Active(n)
  <2>1. n \in Nat /\ instruction_index \in [Warps -> Nat]
    BY IndexFacts DEF RingInv, RingTypeOK
  <2>2. DoneWith(n) \subseteq DoneWith(n)' /\ DoneWith(n)' \subseteq Warps
    BY <1>1, <2>1 DEF DoneWith
  <2> QED
    BY <1>2, <1>3, <2>2 DEF Active
<1> QED
  BY <1>1, <1>2, <1>3

LEMMA FillPhases ==
  ASSUME AllOrdered, RingInv, Threading, Phases, Moves(0, {}), FillSlot
  PROVE  Phases'
<1>1. \A n : Cnt(n)' = Cnt(n) /\ Rds(n)' = Rds(n)
  BY CodeKept DEF Moves
<1>2. \A n \in Indices : Been(n)' = Been(n)
  BY DEF Moves
<1>3. DOMAIN semaphores = Slots /\ fetch \in Indices /\ Ring(fetch) \in Slots
  BY FillFacts DEF Phases
<1>4. semaphores' = [semaphores EXCEPT ![Ring(fetch)] = [sem \in DOMAIN Cnt(fetch) |-> Fresh]]
  BY DEF FillSlot, Cnt
<1>5. ASSUME NEW n \in Indices, Active(n)', n # fetch PROVE PhasesOf(n)'
  <2>1. Active(n) /\ Ring(n) # Ring(fetch)
    BY <1>5, FillFacts DEF Active
  <2>2. PhasesOf(n)
    BY <2>1, PhasesIs
  <2>3. semaphores'[Ring(n)] = semaphores[Ring(n)]
    BY <1>3, <1>4, <2>1, IndexFacts
  <2> QED
    BY <1>1, <1>2, <2>2, <2>3 DEF PhasesOf
<1>6. PICK k : k = fetch
  OBVIOUS
<1>7. PhasesOf(k)'
  <2>1. semaphores'[Ring(k)] = [sem \in DOMAIN Cnt(k) |-> Fresh]
    BY <1>3, <1>4, <1>6
  <2>2. Been(k) = {}
    BY <1>3, <1>6, FillFacts, NothingBeen DEF Threading
  <2>3. InRounds(Ops(k), Cnt(k), Rds(k), Bef(k))
    BY <1>3, <1>6, OrderedAt DEF Threading
  <2>4. ASSUME NEW sem \in DOMAIN Cnt(k)
        PROVE  InPhase(Rds(k)[sem], Cnt(k)[sem], Fresh, {})
    <3> DEFINE rounds == Rds(k)[sem]
    <3>1. \A r \in DOMAIN rounds : r \in Nat
      BY <2>3 DEF InRounds
    <3>2. Cnt(k)[sem] \in Nat \ {0}
      BY <2>3 DEF InRounds
    <3> HIDE DEF rounds
    <3>3. rounds[0] \cap {} = {} /\ Cardinality({}) = 0
      BY FS_EmptySet
    <3>4. InPhase(rounds, Cnt(k)[sem], [phase |-> 0, pending |-> 0], {})
      BY <3>1, <3>2, <3>3, InPhaseIs
    <3> QED
      BY <3>4 DEF Fresh, rounds
  <2> QED
    BY <1>1, <1>2, <1>3, <1>6, <2>1, <2>2, <2>4 DEF PhasesOf
<1>8. DOMAIN semaphores' = Slots
  BY <1>3, <1>4
<1> QED
  BY <1>5, <1>6, <1>7, <1>8 DEF Phases, PhasesOf

LEMMA DrainPhases ==
  ASSUME AllOrdered, RingInv, Threading, Phases, Moves(0, {}), DrainSlot,
         \A n \in Indices : Active(n)' => Active(n)
  PROVE  Phases'
<1>1. \A n : Cnt(n)' = Cnt(n) /\ Rds(n)' = Rds(n)
  BY CodeKept DEF Moves
<1>2. \A n \in Indices : Been(n)' = Been(n)
  BY DEF Moves
<1>3. DOMAIN semaphores = Slots
  BY DEF Phases
<1>4. DOMAIN semaphores' = Slots
  BY <1>3 DEF DrainSlot
<1>5. ASSUME NEW n \in Indices, Active(n)'
      PROVE  semaphores'[Ring(n)] = semaphores[Ring(n)]
  <2> DEFINE last == LastOf(drained)
  <2>1. CASE ~(last >= 0)
    BY <2>1 DEF DrainSlot
  <2>2. CASE last >= 0
    <3>1. /\ step = "load" /\ fetch = num_iters /\ drained < S
          /\ Passed(instruction_finished[Ring(last)], Parity(last))
          /\ semaphores' = [semaphores EXCEPT ![Ring(last)] = <<>>]
      BY <2>2 DEF DrainSlot, Drain, S
    <3>2. drained \in Nat /\ S \in Nat \ {0} /\ num_iters \in Nat
      BY Sizes DEF Threading
    <3>3. last = num_iters - S + drained
      BY DEF LastOf, S
    <3> HIDE DEF last
    <3>4. last \in Int /\ Loaded - S <= last /\ last < Loaded /\ last \in Indices
      BY <2>2, <3>1, <3>2, <3>3 DEF Loaded, Indices
    <3>5. instruction_finished[Ring(last)] =
             IF DoneWith(last) = Warps THEN [phase |-> (last \div S) + 1, pending |-> 0]
             ELSE [phase |-> last \div S, pending |-> Cardinality(DoneWith(last))]
      BY <3>4 DEF RingInv, FinishedPhases
    <3>6. last \div S \in Int
      BY <3>2, <3>4, Division
    <3>7. instruction_finished[Ring(last)].phase = (last \div S) + 1
      BY <3>1, <3>4, <3>5, ParityTells
    <3>8. DoneWith(last) = Warps
      BY <3>5, <3>6, <3>7
    <3>9. Active(n) /\ n # last
      BY <1>5, <3>8 DEF Active
    <3>10. Ring(n) # Ring(last)
      BY <3>4, <3>9, TwoInFlight DEF InFlight, Active
    <3> QED
      BY <1>3, <3>1, <3>10, IndexFacts
  <2> QED
    BY <2>1, <2>2
<1>6. ASSUME NEW n \in Indices, Active(n)' PROVE PhasesOf(n)'
  <2>1. PhasesOf(n)
    BY <1>6, PhasesIs
  <2> QED
    BY <1>1, <1>2, <1>5, <1>6, <2>1 DEF PhasesOf
<1> QED
  BY <1>4, <1>6 DEF Phases, PhasesOf

(* Steps that move no instruction on.                                      *)
Quiet == \/ PublishSlot \/ DrainSlot
         \/ \E w \in Warps : Begin(w) \/ End(w)
         \/ \E w \in Consumers : GroupWait(w) /\ waiting \cup {w} # Consumers
         \/ UNCHANGED vars

LEMMA QuietMoves ==
  ASSUME AllOrdered, RingInv, Threading, Quiet
  PROVE  /\ Moves(0, {})
         /\ UNCHANGED <<loads, puts, pid_order, page_finished, memory, out, Bar>>
         /\ ~DrainSlot => UNCHANGED semaphores
<1>1. CASE PublishSlot \/ DrainSlot \/ \E w \in Warps : Begin(w) \/ End(w)
  <2>1. Moves(0, {})
    BY <1>1, RingMoves
  <2> QED
    BY <1>1, <2>1 DEF PublishSlot, DrainSlot, Begin, End, body_vars, async, global
<1>2. CASE \E w \in Consumers : GroupWait(w) /\ waiting \cup {w} # Consumers
  <2>1. UNCHANGED <<prog, at, loads, puts, instruction_index>>
    BY <1>2 DEF GroupWait, async, ring_vars
  <2>2. \A n \in Indices : \A e \in Steps(Ops(n)) : Done(n, e)' <=> Done(n, e)
    BY <2>1 DEF Done, Index
  <2>3. Moves(0, {})
    BY <2>1, <2>2, StillMoves DEF Threading
  <2> QED
    BY <1>2, <2>3 DEF GroupWait, async, global
<1>3. CASE UNCHANGED vars
  <2>1. UNCHANGED <<prog, at, loads, puts, instruction_index>>
    BY <1>3 DEF vars, body_vars, async, ring_vars
  <2>2. \A n \in Indices : \A e \in Steps(Ops(n)) : Done(n, e)' <=> Done(n, e)
    BY <2>1 DEF Done, Index
  <2>3. Moves(0, {})
    BY <2>1, <2>2, StillMoves DEF Threading
  <2> QED
    BY <1>3, <2>3 DEF vars, body_vars, async, global
<1> QED
  BY <1>1, <1>2, <1>3 DEF Quiet

LEMMA NextCases ==
  ASSUME Next
  PROVE  \/ FillSlot \/ Quiet
         \/ \E t \in Threads : Advance(t)
         \/ \E w \in Consumers : GroupWait(w) /\ waiting \cup {w} = Consumers
         \/ \E l \in loads : Land(l[1], l[2])
         \/ \E l \in puts : Reach(l[1], l[2])
BY DEF Next, Work, Quiet

(* What the last warp to come to a sync leaves alone.                      *)
LEMMA GroupLeaves ==
  ASSUME AllOrdered, RingInv, Threading, InOrder, Phases,
         NEW w \in Consumers, GroupWait(w), waiting \cup {w} = Consumers
  PROVE  /\ UNCHANGED <<loads, puts, semaphores, pid_order, page_finished, memory, out, Bar>>
         /\ \E k \in Indices : \E E \in SUBSET Syncs(Ops(k)) :
               /\ Moves(k, {Taken(e) : e \in E})
               /\ \A e \in E : Mates(Ops(k), e) \subseteq E
               /\ \A e \in E : At(Ops(k), e) = [Step0 EXCEPT !.sync = TRUE]
<1>1. UNCHANGED <<loads, puts, semaphores, pid_order, page_finished, memory, out, Bar>>
  BY DEF GroupWait, async, global
<1>2. PICK k, E : k = Index(<<"consumer", w>>) /\ E = Meeting
  OBVIOUS
<1>3. /\ Moves(k, {Taken(e) : e \in E})
      /\ \A e \in E : e \in Syncs(Ops(k)) /\ Mates(Ops(k), e) \subseteq E
  BY <1>2, GroupMoves
<1>4. k \in Indices
  BY <1>2, GroupMeets, SyncAt
<1>5. WellFormed(Ops(k), Cnt(k))
  BY <1>4, OrderedAt DEF Threading
<1>6. \A e \in E : At(Ops(k), e) = [Step0 EXCEPT !.sync = TRUE]
  BY <1>3, <1>5 DEF WellFormed, Syncs
<1> QED
  BY <1>1, <1>3, <1>4, <1>6

LEMMA OrderNext ==
  ASSUME AllOrdered, RingInv, Threading, Copies, InOrder, Phases, Next
  PROVE  Copies' /\ InOrder'
<1>1. ASSUME Moves(0, {}), UNCHANGED <<loads, puts>> PROVE Copies' /\ InOrder'
  <2>1. Copies'
    <3> DEFINE E == {}
    <3>1. /\ \A e \in E : 0 \in Indices /\ e \in Steps(Ops(0)) /\ Taken(e) \in {}
          /\ loads' \subseteq loads \cup {<<0, x>> : x \in UNION {At(Ops(0), e).load : e \in E}}
          /\ puts' \subseteq puts \cup {<<0, x>> : x \in UNION {At(Ops(0), e).put : e \in E}}
      BY <1>1
    <3> HIDE DEF E
    <3> QED
      BY <1>1, <3>1, CopiesNext
  <2>2. InOrder'
    BY <1>1, InOrderNext
  <2> QED
    BY <2>1, <2>2
<1>2. CASE FillSlot
  <2>1. Moves(0, {})
    BY <1>2, RingMoves
  <2> QED
    BY <1>1, <1>2, <2>1 DEF FillSlot, async
<1>3. CASE Quiet
  BY <1>1, <1>3, QuietMoves
<1>4. ASSUME NEW t \in Threads, Advance(t) PROVE Copies' /\ InOrder'
  <2>1. PICK k, e : k = Index(t) /\ e = <<t, at[t]>>
    OBVIOUS
  <2>2. Moves(k, {Taken(e)}) /\ Running(t) /\ ~Step(t).sync
    BY <1>4, <2>1, AdvanceMoves, PassesKnows DEF Advance
  <2>3. k \in Indices /\ e \in Steps(Ops(k)) /\ Step(t) = At(Ops(k), e)
    BY <2>1, <2>2, StepAt
  <2> DEFINE E == {e}
  <2>4. /\ loads' \subseteq loads \cup {<<k, x>> : x \in UNION {At(Ops(k), f).load : f \in E}}
        /\ puts' \subseteq puts \cup {<<k, x>> : x \in UNION {At(Ops(k), f).put : f \in E}}
    BY <1>4, <2>1, <2>3 DEF Advance
  <2>5. \A f \in E : k \in Indices /\ f \in Steps(Ops(k)) /\ Taken(f) \in {Taken(e)}
    BY <2>3
  <2> HIDE DEF E
  <2>6. Copies'
    BY <2>2, <2>4, <2>5, CopiesNext
  <2>7. e \notin Syncs(Ops(k))
    BY <2>2, <2>3 DEF Syncs
  <2>8. InOrder'
    BY <2>2, <2>7, EventFacts, InOrderNext
  <2> QED
    BY <2>6, <2>8
<1>5. ASSUME NEW w \in Consumers, GroupWait(w), waiting \cup {w} = Consumers
      PROVE  Copies' /\ InOrder'
  <2>1. UNCHANGED <<loads, puts>>
    BY <1>5, GroupLeaves
  <2>2. PICK k \in Indices : \E E \in SUBSET Syncs(Ops(k)) :
               /\ Moves(k, {Taken(e) : e \in E})
               /\ \A e \in E : Mates(Ops(k), e) \subseteq E
    BY <1>5, GroupLeaves
  <2>3. PICK E \in SUBSET Syncs(Ops(k)) :
               /\ Moves(k, {Taken(e) : e \in E})
               /\ \A e \in E : Mates(Ops(k), e) \subseteq E
    BY <2>2
  <2>4. PICK N : N = {Taken(e) : e \in E}
    OBVIOUS
  <2>5. \A e \in E : k \in Indices /\ e \in Steps(Ops(k)) /\ Taken(e) \in N
    BY <2>4 DEF Syncs
  <2>6. Copies'
    BY <2>1, <2>3, <2>4, <2>5, CopiesNext
  <2>7. \A ev \in N : IsStep(ev) /\ ev[2] \in Syncs(Ops(k)) =>
            \A f \in Mates(Ops(k), ev[2]) : Taken(f) \in N
    BY <2>3, <2>4, EventFacts
  <2>8. InOrder'
    BY <2>3, <2>4, <2>7, InOrderNext
  <2> QED
    BY <2>6, <2>8
<1>6. ASSUME NEW k, NEW ev, Moves(k, {ev}), ~IsStep(ev), loads' \subseteq loads, puts' \subseteq puts
      PROVE  Copies' /\ InOrder'
  <2> DEFINE E == {}
  <2>1. /\ \A e \in E : k \in Indices /\ e \in Steps(Ops(k)) /\ Taken(e) \in {ev}
        /\ loads' \subseteq loads \cup {<<k, x>> : x \in UNION {At(Ops(k), e).load : e \in E}}
        /\ puts' \subseteq puts \cup {<<k, x>> : x \in UNION {At(Ops(k), e).put : e \in E}}
    BY <1>6
  <2> HIDE DEF E
  <2>2. Copies'
    BY <1>6, <2>1, CopiesNext
  <2>3. InOrder'
    BY <1>6, InOrderNext
  <2> QED
    BY <2>2, <2>3
<1>7. ASSUME NEW l \in loads, Land(l[1], l[2]) PROVE Copies' /\ InOrder'
  BY <1>6, <1>7, LandMoves, EventFacts DEF Land
<1>8. ASSUME NEW l \in puts, Reach(l[1], l[2]) PROVE Copies' /\ InOrder'
  BY <1>6, <1>8, ReachMoves, EventFacts DEF Reach
<1> QED
  BY <1>2, <1>3, <1>4, <1>5, <1>7, <1>8, NextCases

(* An instruction with a load or a store under way, or with a step or an   *)
(* event that has yet to be and comes before one.                          *)
LEMMA CopyActive ==
  ASSUME AllOrdered, RingInv, Threading, InOrder, NEW n \in Indices,
         NEW ev \in Events(Ops(n)), ev \notin Been(n), ~IsStep(ev),
         Done(n, Starter(Ops(n), ev)),
         NEW e \in Steps(Ops(n)), ev \in Bef(n)[Taken(e)]
  PROVE  InFlight(n) /\ Active(n) /\ ~Done(n, e)
<1>1. ~Done(n, e)
  <2>1. SUFFICES ASSUME Done(n, e) PROVE FALSE
    OBVIOUS
  <2>2. Taken(e) \in Been(n)
    BY <2>1, DoneIsBeen
  <2> QED
    BY <2>2 DEF InOrder
<1>2. n < Loaded
  <2>1. Starter(Ops(n), ev) \in Steps(Ops(n))
    BY OrderedAt, StarterFacts DEF Threading
  <2> QED
    BY <2>1, DoneBefore
<1> QED
  BY <1>1, <1>2, NotDoneActive

LEMMA LoadActive ==
  ASSUME AllOrdered, RingInv, Threading, Copies, InOrder, NEW l \in loads
  PROVE  InFlight(l[1]) /\ Active(l[1]) /\ slot[Ring(l[1])] = l[1]
<1>0. PICK n, x : n = l[1] /\ x = l[2]
  OBVIOUS
<1>1. /\ n \in Indices /\ x \in Loads(Ops(n)) /\ Landing(x) \in Events(Ops(n))
      /\ Landing(x) \notin Been(n) /\ Done(n, Starter(Ops(n), Landing(x)))
  BY <1>0, LoadFacts
<1>2. PICK e \in Steps(Ops(n)) : Landing(x) \in Bef(n)[Taken(e)]
  BY <1>1, OrderedAt DEF LoadsMet, Threading
<1>3. InFlight(n) /\ Active(n)
  BY <1>1, <1>2, CopyActive, EventFacts
<1>4. slot[Ring(n)] = n
  BY <1>3, IndexFacts DEF RingInv, SlotsHold, InFlight
<1> QED
  BY <1>0, <1>3, <1>4

LEMMA PhasesNext ==
  ASSUME AllOrdered, RingInv, Threading, Copies, InOrder, Phases, Next
  PROVE  Phases'
<1>1. CASE FillSlot
  BY <1>1, RingMoves, FillPhases
<1>2. CASE Quiet /\ ~FillSlot
  <2>1. Moves(0, {}) /\ \A n \in Indices : Active(n)' => Active(n)
    BY <1>2, QuietMoves, OthersFacts
  <2>2. CASE DrainSlot
    BY <2>1, <2>2, DrainPhases
  <2>3. CASE ~DrainSlot
    <3>1. UNCHANGED semaphores
      BY <1>2, <2>3, QuietMoves
    <3> QED
      BY <2>1, <3>1, KeptPhases
  <2> QED
    BY <2>2, <2>3
<1>3. ASSUME NEW t \in Threads, Advance(t) PROVE Phases'
  <2>1. PICK k, e : k = Index(t) /\ e = <<t, at[t]>>
    OBVIOUS
  <2>2. Moves(k, {Taken(e)}) /\ Running(t)
    BY <1>3, <2>1, AdvanceMoves, PassesKnows DEF Advance
  <2>3. k \in Indices /\ Active(k) /\ Step(t) = At(Ops(k), e)
    BY <2>1, <2>2, StepAt
  <2>4. Arrives(Ops(k), Taken(e)) = Step(t).arrive
    BY <2>3, EventFacts DEF Arrives
  <2>5. semaphores' = Arrived(k, Arrives(Ops(k), Taken(e)))
    BY <1>3, <2>1, <2>4 DEF Advance
  <2>6. ~FillSlot
    BY <1>3 DEF Advance, FillSlot, LoadInstruction, ring_vars, controller
  <2> QED
    BY <2>2, <2>3, <2>5, <2>6, OthersFacts, ArrivalPhases
<1>4. ASSUME NEW w \in Consumers, GroupWait(w), waiting \cup {w} = Consumers PROVE Phases'
  <2>1. UNCHANGED semaphores
    BY <1>4, GroupLeaves
  <2>2. PICK k \in Indices : \E E \in SUBSET Syncs(Ops(k)) :
               /\ Moves(k, {Taken(e) : e \in E})
               /\ \A e \in E : At(Ops(k), e) = [Step0 EXCEPT !.sync = TRUE]
    BY <1>4, GroupLeaves
  <2>3. PICK E \in SUBSET Syncs(Ops(k)) :
               /\ Moves(k, {Taken(e) : e \in E})
               /\ \A e \in E : At(Ops(k), e) = [Step0 EXCEPT !.sync = TRUE]
    BY <2>2
  <2>4. PICK N : N = {Taken(e) : e \in E}
    OBVIOUS
  <2>5. \A ev \in N : Arrives(Ops(k), ev) = {}
    BY <2>3, <2>4, EventFacts DEF Arrives, Step0
  <2>6. ~FillSlot
    BY <1>4 DEF GroupWait, FillSlot, LoadInstruction, ring_vars, controller
  <2> QED
    BY <2>1, <2>3, <2>4, <2>5, <2>6, OthersFacts, KeptPhases
<1>5. ASSUME NEW l \in loads, Land(l[1], l[2]) PROVE Phases'
  <2>1. PICK k, x : k = l[1] /\ x = l[2]
    OBVIOUS
  <2>2. Moves(k, {Landing(x)}) /\ Active(k)
    BY <1>5, <2>1, LandMoves, LoadActive
  <2>3. Arrives(Ops(k), Landing(x)) = {x[4]}
    BY EventFacts DEF Arrives
  <2>4. semaphores' = Arrived(k, Arrives(Ops(k), Landing(x)))
    BY <1>5, <2>1, <2>3 DEF Land
  <2>5. ~FillSlot
    BY <1>5 DEF Land, FillSlot, LoadInstruction, ring_vars, controller
  <2> QED
    BY <2>2, <2>4, <2>5, OthersFacts, ArrivalPhases
<1>6. ASSUME NEW l \in puts, Reach(l[1], l[2]) PROVE Phases'
  <2>1. PICK k, x : k = l[1] /\ x = l[2]
    OBVIOUS
  <2>2. Moves(k, {Reaching(x)}) /\ UNCHANGED semaphores
    BY <1>6, <2>1, ReachMoves DEF Reach
  <2>3. Arrives(Ops(k), Reaching(x)) = {}
    BY EventFacts DEF Arrives
  <2>4. ~FillSlot
    BY <1>6 DEF Reach, FillSlot, LoadInstruction, ring_vars, controller
  <2> QED
    BY <2>2, <2>3, <2>4, OthersFacts, KeptPhases
<1> QED
  BY <1>1, <1>2, <1>3, <1>4, <1>5, <1>6, NextCases

------------------------------------------------------------------------------
(* The pages of the instructions.                                          *)
LEMMA OrderComposed ==
  ASSUME NEW order, IsOrder(order), NEW inst, ReleasesAll(inst)
  PROVE  IsOrder([k \in 1 .. NUM_PAGES |-> order[release_lid(inst)[k] + 1]])
<1> DEFINE r == release_lid(inst)
           next == [k \in 1 .. NUM_PAGES |-> order[r[k] + 1]]
<1>1. /\ \A k \in 1 .. NUM_PAGES : r[k] \in Lids
      /\ \A j \in 1 .. NUM_PAGES, k \in 1 .. NUM_PAGES : r[j] = r[k] => j = k
      /\ \A lid \in Lids : \E k \in 1 .. NUM_PAGES : r[k] = lid
  BY DEF ReleasesAll
<1>2. NUM_PAGES \in Nat /\ Lids = 0 .. NUM_PAGES - 1
  BY DEF NUM_PAGES, STAGES, Lids
<1>3. /\ order \in [1 .. NUM_PAGES -> Pages]
      /\ \A j \in 1 .. NUM_PAGES, k \in 1 .. NUM_PAGES : order[j] = order[k] => j = k
      /\ \A p \in Pages : \E k \in 1 .. NUM_PAGES : order[k] = p
  BY DEF IsOrder
<1> HIDE DEF r
<1>4. \A k \in 1 .. NUM_PAGES : r[k] \in Int /\ r[k] + 1 \in 1 .. NUM_PAGES
  BY <1>1, <1>2
<1>5. next \in [1 .. NUM_PAGES -> Pages]
  BY <1>3, <1>4
<1>6. ASSUME NEW j \in 1 .. NUM_PAGES, NEW k \in 1 .. NUM_PAGES, next[j] = next[k]
      PROVE  j = k
  <2>1. r[j] + 1 = r[k] + 1
    BY <1>3, <1>4, <1>6
  <2>2. r[j] = r[k]
    BY <1>4, <2>1
  <2> QED
    BY <1>1, <2>2
<1>7. ASSUME NEW p \in Pages PROVE \E k \in 1 .. NUM_PAGES : next[k] = p
  <2>1. PICK m \in 1 .. NUM_PAGES : order[m] = p
    BY <1>3
  <2>2. m - 1 \in Lids /\ m - 1 + 1 = m
    BY <1>2
  <2>3. PICK k \in 1 .. NUM_PAGES : r[k] = m - 1
    BY <1>1, <2>2
  <2> QED
    BY <2>1, <2>2, <2>3
<1> QED
  BY <1>5, <1>6, <1>7 DEF IsOrder, r

LEMMA FirstOrder == IsOrder([k \in 1 .. NUM_PAGES |-> k - 1])
BY DEF IsOrder, NUM_PAGES, STAGES, Pages, Lids

LEMMA PageOrderIs ==
  ASSUME AllOrdered, RingInv, Threading, Orders, FillSlot
  PROVE  IsOrder(PageOrder)
<1>1. CASE fetch = 0
  BY <1>1, FirstOrder DEF PageOrder
<1>2. CASE fetch # 0
  <2> DEFINE n == fetch - 1
  <2>1. fetch \in Indices /\ fetch \in Nat /\ Loaded = fetch /\ S \in Nat \ {0} /\ num_iters \in Nat
    BY FillFacts, Sizes
  <2>2. n \in Indices /\ n \in Int /\ InFlight(n)
    BY <1>2, <2>1 DEF Indices, InFlight
  <2>3. slot[Ring(n)] = n
    BY <2>2, <2>1, <1>2 DEF RingInv, SlotsHold, InFlight
  <2>4. IsOrder(pid_order[Ring(n)])
    BY <2>2 DEF Orders
  <2>5. ReleasesAll(Inst(n))
    BY <2>2, OrderedAt DEF Threading
  <2>6. PageOrder = [k \in 1 .. NUM_PAGES |-> pid_order[Ring(n)][release_lid(Inst(n))[k] + 1]]
    BY <1>2, <2>3 DEF PageOrder
  <2> HIDE DEF n
  <2> QED
    BY <2>4, <2>5, <2>6, OrderComposed
<1> QED
  BY <1>1, <1>2

LEMMA OrdersNext ==
  ASSUME AllOrdered, RingInv, Threading, Copies, InOrder, Phases, Orders, Next
  PROVE  Orders'
<1>1. CASE FillSlot
  <2>1. PICK order : order = PageOrder
    OBVIOUS
  <2>2. IsOrder(order) /\ pid_order' = [pid_order EXCEPT ![Ring(fetch)] = order]
        /\ Ring(fetch) \in Slots /\ DOMAIN pid_order = Slots
    BY <1>1, <2>1, PageOrderIs, FillFacts DEF FillSlot, Orders
  <2>3. \A r \in Slots : pid_order'[r] = <<>> \/ IsOrder(pid_order'[r])
    BY <2>2 DEF Orders
  <2>4. ASSUME NEW n \in Indices, InFlight(n)' PROVE IsOrder(pid_order'[Ring(n)])
    <3>1. CASE n = fetch
      BY <2>2, <3>1
    <3>2. CASE n # fetch
      <4>1. InFlight(n) /\ Ring(n) # Ring(fetch)
        BY <1>1, <2>4, <3>2, FillFacts
      <4> QED
        BY <2>2, <4>1, IndexFacts DEF Orders
    <3> QED
      BY <3>1, <3>2
  <2> QED
    BY <2>2, <2>3, <2>4 DEF Orders
<1>2. CASE ~FillSlot
  <2>1. UNCHANGED pid_order
    BY <1>2 DEF Next, Work, PublishSlot, DrainSlot, Begin, End, Advance, GroupWait, Land, Reach,
                vars, body_vars
  <2> QED
    BY <1>2, <2>1, OthersFacts DEF Orders
<1> QED
  BY <1>1, <1>2

------------------------------------------------------------------------------
(* A page's semaphores count its turns in binary.                          *)
LEMMA Multiples ==
  ASSUME NEW q \in Nat, NEW P \in Nat, NEW w \in Nat, q < P
  PROVE  /\ q * w \in Nat /\ P * w \in Nat /\ (q + 1) * w = q * w + w /\ q * w + w <= P * w
         /\ w * P = P * w
<1>1. P - q - 1 \in Nat
  OBVIOUS
<1>2. (P - q - 1) * w \in Nat
  BY <1>1
<1>3. (P - q - 1) * w = P * w - q * w - w
  OBVIOUS
<1>4. q * w \in Nat /\ P * w \in Nat /\ (q + 1) * w = q * w + w /\ w * P = P * w
  OBVIOUS
<1> QED
  BY <1>2, <1>3, <1>4

LEMMA NextQuotient ==
  ASSUME NEW n \in Nat, NEW P \in Nat \ {0}
  PROVE  /\ n \div P \in Nat /\ n % P \in 0 .. P - 1
         /\ IF (n % P) + 1 < P THEN (n + 1) \div P = n \div P /\ (n + 1) % P = (n % P) + 1
                               ELSE (n + 1) \div P = n \div P + 1 /\ (n + 1) % P = 0
<1> DEFINE q == n \div P
           r == n % P
           u == (n + 1) \div P
           v == (n + 1) % P
<1>1. q \in Int /\ r \in 0 .. P - 1 /\ n = q * P + r
  BY Division
<1>2. u \in Int /\ v \in 0 .. P - 1 /\ n + 1 = u * P + v
  BY Division
<1>3. n \div P \in Nat
  BY SMT
<1> HIDE DEF q, r, u, v
<1>4. q * P \in Int /\ u * P \in Int /\ (q + 1) * P = q * P + P
  BY <1>1, <1>2
<1>5. CASE r + 1 < P
  <2>1. r + 1 \in 0 .. P - 1 /\ u * P + v = q * P + (r + 1)
    BY <1>1, <1>2, <1>4, <1>5
  <2>2. u = q /\ v = r + 1
    BY <1>1, <1>2, <2>1, OneQuotient
  <2> QED
    BY <1>1, <1>3, <1>5, <2>2 DEF q, r, u, v
<1>6. CASE ~(r + 1 < P)
  <2>1. 0 \in 0 .. P - 1 /\ u * P + v = (q + 1) * P + 0 /\ q + 1 \in Int
    BY <1>1, <1>2, <1>4, <1>6
  <2>2. u = q + 1 /\ v = 0
    BY <1>2, <2>1, OneQuotient
  <2> QED
    BY <1>1, <1>3, <1>6, <2>2 DEF q, r, u, v
<1> QED
  BY <1>5, <1>6

LEMMA BitArrives ==
  ASSUME NEW n \in Nat, NEW P \in Nat \ {0}, NEW w \in Nat \ {0}, NEW c \in 0 .. w - 1,
         NEW k \in 1 .. w, c + k <= w
  PROVE  /\ (n % P) * w + c \in 0 .. w * P - 1
         /\ Arrive([phase |-> 1 + n \div P, pending |-> (n % P) * w + c], k, w * P)
            = IF c + k < w THEN [phase |-> 1 + n \div P, pending |-> (n % P) * w + (c + k)]
              ELSE [phase |-> 1 + (n + 1) \div P, pending |-> ((n + 1) % P) * w + 0]
<1> DEFINE q == n \div P
           r == n % P
           u == (n + 1) \div P
           v == (n + 1) % P
<1>1. /\ q \in Nat /\ r \in 0 .. P - 1 /\ r \in Nat /\ r < P
      /\ IF r + 1 < P THEN u = q /\ v = r + 1 ELSE u = q + 1 /\ v = 0
  <2>1. q \in Nat /\ r \in 0 .. P - 1
    BY NextQuotient
  <2>2. IF r + 1 < P THEN u = q /\ v = r + 1 ELSE u = q + 1 /\ v = 0
    BY NextQuotient
  <2> HIDE DEF q, r, u, v
  <2>3. r \in Nat /\ r < P
    BY <2>1
  <2> QED
    BY <2>1, <2>2, <2>3
<1> HIDE DEF q, r, u, v
<1>2. /\ r * w \in Nat /\ P * w \in Nat /\ (r + 1) * w = r * w + w /\ r * w + w <= P * w
      /\ w * P = P * w
  BY <1>1, Multiples
<1> DEFINE sem == [phase |-> 1 + q, pending |-> r * w + c]
<1>3. r * w + c \in 0 .. w * P - 1
  BY <1>2
<1>4. Arrive(sem, k, w * P) = IF r * w + c + k < w * P
                              THEN [phase |-> 1 + q, pending |-> r * w + c + k]
                              ELSE [phase |-> 1 + q + 1, pending |-> r * w + c + k - w * P]
  BY DEF Arrive
<1>5. CASE c + k < w
  <2>1. r * w + c + k < w * P /\ r * w + c + k = r * w + (c + k)
    BY <1>2, <1>5
  <2>2. Arrive(sem, k, w * P) = [phase |-> 1 + q, pending |-> r * w + (c + k)]
    BY <1>4, <2>1
  <2> QED
    BY <1>3, <1>5, <2>2 DEF q, r
<1>6. CASE c + k = w
  <2>1. r * w + c + k = (r + 1) * w
    BY <1>2, <1>6
  <2>2. CASE r + 1 < P
    <3>1. /\ (r + 1) * w + w <= P * w /\ (r + 1) * w \in Nat
      <4>1. r + 1 \in Nat
        BY <1>1
      <4> QED
        BY <4>1, <2>2, Multiples
    <3>2. r * w + c + k < w * P /\ 1 + u = 1 + q /\ v * w + 0 = r * w + c + k
      BY <1>1, <1>2, <2>1, <2>2, <3>1
    <3>3. Arrive(sem, k, w * P) = [phase |-> 1 + u, pending |-> v * w + 0]
      BY <1>4, <3>2
    <3> QED
      BY <1>3, <1>6, <3>3 DEF q, r, u, v
  <2>3. CASE ~(r + 1 < P)
    <3>1. r + 1 = P /\ u = q + 1 /\ v = 0
      BY <1>1, <2>3
    <3>2. r * w + c + k = w * P /\ v * w + 0 = 0 /\ 1 + u = 1 + q + 1
      BY <1>1, <1>2, <2>1, <3>1
    <3>3. Arrive(sem, k, w * P) = [phase |-> 1 + u, pending |-> v * w + 0]
      BY <1>2, <1>4, <3>2
    <3> QED
      BY <1>3, <1>6, <3>3 DEF q, r, u, v
  <2> QED
    BY <2>2, <2>3
<1> QED
  BY <1>5, <1>6

LEMMA PageArrives ==
  ASSUME BitsTell, NEW sems, NEW n \in Nat, NEW c \in 0 .. W - 1, PageState(sems, n, c),
         NEW k \in 1 .. W, c + k <= W
  PROVE  LET next == [i \in Bits |-> Arrive(sems[i], k, PageCount(i))]
         IN  IF c + k < W THEN PageState(next, n, c + k) ELSE PageState(next, n + 1, 0)
<1> DEFINE next == [i \in Bits |-> Arrive(sems[i], k, PageCount(i))]
<1>1. W \in Nat \ {0}
  BY PipelineAssumption DEF PipelineAssumption, W
<1>2. ASSUME NEW i \in Bits
      PROVE  next[i] = IF c + k < W THEN [phase |-> 1 + n \div 2 ^ i, pending |-> (n % 2 ^ i) * W + (c + k)]
                       ELSE [phase |-> 1 + (n + 1) \div 2 ^ i, pending |-> ((n + 1) % 2 ^ i) * W + 0]
  <2>1. PICK P : P = 2 ^ i
    OBVIOUS
  <2>2. P \in Nat \ {0}
    BY <2>1 DEF BitsTell
  <2>3. sems[i] = [phase |-> 1 + n \div P, pending |-> (n % P) * W + c]
    BY <2>1 DEF PageState
  <2>4. PageCount(i) = W * P
    BY <2>1 DEF PageCount, W
  <2>5. next[i] = Arrive([phase |-> 1 + n \div P, pending |-> (n % P) * W + c], k, W * P)
    BY <2>3, <2>4
  <2>6. Arrive([phase |-> 1 + n \div P, pending |-> (n % P) * W + c], k, W * P)
            = IF c + k < W THEN [phase |-> 1 + n \div P, pending |-> (n % P) * W + (c + k)]
              ELSE [phase |-> 1 + (n + 1) \div P, pending |-> ((n + 1) % P) * W + 0]
    BY <1>1, <2>2, BitArrives, ZenonT(30)
  <2> HIDE DEF next
  <2> QED
    BY <2>1, <2>5, <2>6
<1>3. CASE c + k < W
  BY <1>2, <1>3 DEF PageState
<1>4. CASE ~(c + k < W)
  BY <1>2, <1>4 DEF PageState
<1> QED
  BY <1>3, <1>4

(* Whoever finds the bits of n in the parities finds turn n, if the page   *)
(* is less than S turns behind.                                            *)
LEMMA TakeTells ==
  ASSUME BitsTell, NEW m \in 0 .. num_iters, NEW n \in 0 .. num_iters, m <= n, n < m + S,
         NEW sems, NEW c, PageState(sems, m, c),
         \A i \in Bits : Passed(sems[i], Bit(n, i))
  PROVE  m = n
<1>1. ASSUME NEW i \in Bits PROVE Bit(m, i) = Bit(n, i)
  <2>1. PICK P : P = 2 ^ i
    OBVIOUS
  <2>2. P \in Nat \ {0}
    BY <2>1 DEF BitsTell
  <2>3. sems[i].phase = 1 + m \div P
    BY <2>1 DEF PageState
  <2>4. Bit(m, i) = (m \div P) % 2 /\ Bit(n, i) = (n \div P) % 2
    BY <2>1 DEF Bit
  <2>5. sems[i].phase % 2 # Bit(n, i)
    BY DEF Passed
  <2>6. PICK a \in Int, b \in Int : a = m \div P /\ b = n \div P
    <3>1. m \in Int /\ n \in Int
      BY Sizes
    <3>2. m \div P \in Int /\ n \div P \in Int
      BY <2>2, <3>1, Division
    <3> QED
      BY <3>2
  <2>7. (1 + a) % 2 # b % 2
    BY <2>3, <2>4, <2>5, <2>6
  <2>8. a % 2 = b % 2
    BY <2>7
  <2> QED
    BY <2>4, <2>6, <2>8
<1> QED
  BY <1>1 DEF BitsTell, S

------------------------------------------------------------------------------
(* Whoever touches a page does so in its turn.                             *)
LEMMA TurnOfFacts ==
  ASSUME NEW p, NEW m, NEW c, TurnOf(p, m, c),
         NEW n \in Indices, NEW lid \in Lids, InFlight(n), PageAt(n, lid) = p
  PROVE  /\ m \in Nat /\ Loaded - S <= m /\ m <= Loaded /\ c \in 0 .. W - 1
         /\ n < m => ShareDone(n, lid) = Shares(Ops(n), lid)
         /\ n = m => c = Cardinality(ShareDone(n, lid))
         /\ m < n => \A e \in Takes(n, lid) : ~Done(n, e)
BY DEF TurnOf

LEMMA TurnNotAfter ==
  ASSUME AllOrdered, RingInv, Threading, InOrder, NEW n \in Indices, InFlight(n),
         NEW ev \in Events(Ops(n)), ev \notin Been(n), NEW lid \in Touches(Ops(n), ev),
         NEW m, NEW c, TurnOf(PageAt(n, lid), m, c)
  PROVE  m <= n
<1>0. n \in Nat /\ lid \in Lids
  BY IndexFacts DEF Touches
<1>1. m \in Nat /\ (n < m => ShareDone(n, lid) = Shares(Ops(n), lid))
  BY <1>0, TurnOfFacts
<1>2. SUFFICES ASSUME n < m PROVE FALSE
  BY <1>0, <1>1
<1>3. PICK e \in Steps(Ops(n)) : /\ \E f \in At(Ops(n), e).finish : f[1] = lid
                                 /\ ev \in Bef(n)[Taken(e)] \cup {Taken(e)}
  BY OrderedAt DEF PagesInOrder, Threading
<1>4. PICK f \in At(Ops(n), e).finish : f[1] = lid
  BY <1>3
<1>5. f[2] \in 1 .. NUM_CONSUMER_WARPS /\ NUM_CONSUMER_WARPS \in Nat \ {0}
  <2>1. WellFormed(Ops(n), Cnt(n))
    BY OrderedAt DEF Threading
  <2> QED
    BY <2>1, PipelineAssumption DEF WellFormed, PipelineAssumption
<1>6. <<e, 1>> \in Shares(Ops(n), lid)
  <2>1. 1 \in 1 .. NUM_CONSUMER_WARPS /\ 1 <= f[2]
    BY <1>5
  <2>2. <<e, 1>> \in Steps(Ops(n)) \X (1 .. NUM_CONSUMER_WARPS)
    BY <2>1
  <2> QED
    BY <2>1, <2>2, <1>4 DEF Shares
<1>7. Done(n, e)
  BY <1>1, <1>2, <1>6 DEF ShareDone
<1>8. Taken(e) \in Been(n)
  BY <1>7, DoneIsBeen
<1> QED
  BY <1>3, <1>8 DEF InOrder

(* An event of the n-th instruction that may be next.                      *)
Now(n, ev) ==
    /\ n \in Indices /\ InFlight(n)
    /\ ev \in Events(Ops(n)) /\ ev \notin Been(n) /\ Bef(n)[ev] \subseteq Been(n)
    /\ IsStep(ev) => \A lid \in At(Ops(n), ev[2]).take : wait_page_ready(PageAt(n, lid), n)

LEMMA TurnNow ==
  ASSUME AllOrdered, BitsTell, RingInv, Threading, InOrder, NEW n, NEW ev, Now(n, ev),
         NEW lid \in Touches(Ops(n), ev),
         NEW m, NEW c, PageState(page_finished[PageAt(n, lid)], m, c),
         TurnOf(PageAt(n, lid), m, c)
  PROVE  m = n
<1>1. n \in Indices /\ InFlight(n) /\ ev \in Events(Ops(n)) /\ ev \notin Been(n)
      /\ Bef(n)[ev] \subseteq Been(n)
  BY DEF Now
<1>2. n \in Nat /\ lid \in Lids /\ n < Loaded /\ m \in Nat /\ Loaded - S <= m /\ m <= Loaded
      /\ (m < n => \A e \in Takes(n, lid) : ~Done(n, e))
  BY <1>1, IndexFacts, TurnOfFacts DEF Touches, InFlight
<1>3. m <= n
  BY <1>1, TurnNotAfter
<1>4. Loaded \in Nat /\ num_iters \in Nat /\ S \in Nat \ {0} /\ Loaded <= num_iters
  BY Sizes DEF RingInv, RingTypeOK, Loaded
<1>5. PICK e \in Steps(Ops(n)) : /\ lid \in At(Ops(n), e).take
                                 /\ Taken(e) \in Bef(n)[ev] \cup {ev}
  BY <1>1, OrderedAt DEF PagesInOrder, Threading
<1>6. CASE Taken(e) \in Bef(n)[ev]
  <2>1. Taken(e) \in Been(n)
    BY <1>1, <1>6
  <2>2. Done(n, e) /\ e \in Takes(n, lid)
    BY <1>5, <2>1, DoneIsBeen DEF Takes
  <2> QED
    BY <1>2, <1>3, <2>2
<1>7. CASE Taken(e) = ev
  <2>1. wait_page_ready(PageAt(n, lid), n)
    BY <1>5, <1>7, EventFacts DEF Now
  <2>2. \A i \in Bits : Passed(page_finished[PageAt(n, lid)][i], Bit(n, i))
    BY <2>1 DEF wait_page_ready
  <2>3. m \in 0 .. num_iters /\ n \in 0 .. num_iters /\ n < m + S
    BY <1>2, <1>3, <1>4
  <2> QED
    BY <1>3, <2>2, <2>3, TakeTells
<1> QED
  BY <1>5, <1>6, <1>7

LEMMA StepNow ==
  ASSUME AllOrdered, RingInv, Threading, InOrder, Phases, NEW t \in Threads, Passes(t),
         NEW n, NEW e, n = Index(t), e = <<t, at[t]>>
  PROVE  /\ Now(n, Taken(e)) /\ e \in Steps(Ops(n)) /\ Step(t) = At(Ops(n), e)
         /\ Taken(e) \in Events(Ops(n))
<1>1. Running(t) /\ Bef(n)[Taken(e)] \subseteq Been(n)
  BY PassesKnows
<1>2. n \in Indices /\ InFlight(n) /\ e \in Steps(Ops(n)) /\ Step(t) = At(Ops(n), e) /\ ~Done(n, e)
  BY <1>1, StepAt
<1>3. Taken(e) \in Events(Ops(n)) /\ IsStep(Taken(e)) /\ Taken(e)[2] = e /\ Taken(e) \notin Been(n)
  BY <1>2, EventFacts, DoneIsBeen
<1>4. ASSUME NEW lid \in Step(t).take PROVE wait_page_ready(PageAt(n, lid), n)
  <2>1. WellFormed(Ops(n), Cnt(n))
    BY <1>2, OrderedAt DEF Threading
  <2>2. lid \in Lids
    BY <1>2, <1>4, <2>1 DEF WellFormed
  <2>3. lid # Scratch
    BY <2>2 DEF Lids, Scratch, NUM_PAGES, STAGES
  <2>4. wait_page_ready(Place(n, lid)[2], n)
    BY <1>4 DEF Passes
  <2> QED
    BY <2>3, <2>4 DEF Place, PageAt
<1> QED
  BY <1>1, <1>2, <1>3, <1>4 DEF Now

LEMMA LoadNow ==
  ASSUME AllOrdered, RingInv, Threading, Copies, InOrder, NEW l \in loads,
         NEW n, NEW x, n = l[1], x = l[2]
  PROVE  /\ Now(n, Landing(x)) /\ x \in Loads(Ops(n))
<1>1. /\ n \in Indices /\ x \in Loads(Ops(n)) /\ Landing(x) \in Events(Ops(n))
      /\ Landing(x) \notin Been(n) /\ Done(n, Starter(Ops(n), Landing(x)))
  BY LoadFacts
<1>2. InFlight(n)
  BY LoadActive
<1>3. ~IsStep(Landing(x)) /\ Bef(n)[Landing(x)] \subseteq Been(n)
  BY <1>1, EventFacts, CopyKnows
<1> QED
  BY <1>1, <1>2, <1>3 DEF Now

(* A store from a page is met before the page is let go.                   *)
LEMMA PutNow ==
  ASSUME AllOrdered, RingInv, Threading, Copies, InOrder, NEW l \in puts,
         NEW n, NEW x, n = l[1], x = l[2], x[1] \in Lids
  PROVE  /\ Now(n, Reaching(x)) /\ x \in Puts(Ops(n))
<1>1. /\ n \in Indices /\ x \in Puts(Ops(n)) /\ Reaching(x) \in Events(Ops(n))
      /\ Reaching(x) \notin Been(n) /\ Done(n, Starter(Ops(n), Reaching(x)))
  BY PutFacts
<1>2. ~IsStep(Reaching(x)) /\ Reaching(x)[2] = x /\ Bef(n)[Reaching(x)] \subseteq Been(n)
  BY <1>1, EventFacts, CopyKnows
<1>3. x[1] \in Touches(Ops(n), Reaching(x))
  BY <1>2 DEF Touches
<1>4. PagesInOrder(Ops(n), Bef(n))
  BY <1>1, OrderedAt DEF Threading
<1>5. PICK e \in Steps(Ops(n)) : Reaching(x) \in Bef(n)[Taken(e)] \cup {Taken(e)}
  BY <1>1, <1>3, <1>4 DEF PagesInOrder
<1>6. Reaching(x) \in Bef(n)[Taken(e)]
  BY <1>2, <1>5, EventFacts
<1>7. InFlight(n)
  BY <1>1, <1>2, <1>6, CopyActive
<1> QED
  BY <1>1, <1>2, <1>7 DEF Now

LEMMA PageFacts ==
  ASSUME Orders, NEW n \in Indices, InFlight(n)
  PROVE  /\ \A lid \in Lids : PageAt(n, lid) \in Pages
         /\ \A a \in Lids, b \in Lids : PageAt(n, a) = PageAt(n, b) => a = b
         /\ \A p \in Pages : \E lid \in Lids : PageAt(n, lid) = p
<1> DEFINE order == pid_order[Ring(n)]
<1>1. IsOrder(order)
  BY DEF Orders
<1>2. NUM_PAGES \in Nat /\ Lids = 0 .. NUM_PAGES - 1
  BY DEF NUM_PAGES, STAGES, Lids
<1>3. \A lid \in Lids : lid \in Int /\ lid + 1 \in 1 .. NUM_PAGES
  BY <1>2
<1>4. \A lid \in Lids : PageAt(n, lid) = order[lid + 1]
  BY DEF PageAt
<1> HIDE DEF order
<1>5. \A lid \in Lids : PageAt(n, lid) \in Pages
  BY <1>1, <1>3, <1>4 DEF IsOrder
<1>6. ASSUME NEW a \in Lids, NEW b \in Lids, PageAt(n, a) = PageAt(n, b) PROVE a = b
  <2>1. a + 1 = b + 1
    BY <1>1, <1>3, <1>4, <1>6 DEF IsOrder
  <2> QED
    BY <1>3, <2>1
<1>7. ASSUME NEW p \in Pages PROVE \E lid \in Lids : PageAt(n, lid) = p
  <2>1. PICK k \in 1 .. NUM_PAGES : order[k] = p
    BY <1>1 DEF IsOrder
  <2>2. k - 1 \in Lids /\ k - 1 + 1 = k
    BY <1>2
  <2> QED
    BY <1>4, <2>1, <2>2
<1> QED
  BY <1>5, <1>6, <1>7

LEMMA ShareFacts ==
  ASSUME AllOrdered, Threading, NEW n \in Indices, NEW lid \in Lids
  PROVE  /\ IsFiniteSet(Shares(Ops(n), lid)) /\ Cardinality(Shares(Ops(n), lid)) = W
         /\ ShareDone(n, lid) \subseteq Shares(Ops(n), lid)
         /\ W \in Nat \ {0}
BY OrderedAt, PipelineAssumption DEF PagesInOrder, Threading, W, ShareDone, PipelineAssumption

(* What the events of a step do to a page's turn.                          *)
LEMMA TurnKept ==
  ASSUME Loaded' = Loaded, UNCHANGED pid_order,
         \A n \in Indices : InFlight(n)' <=> InFlight(n),
         NEW k, NEW events, Moves(k, events),
         NEW p, NEW m, NEW c, TurnOf(p, m, c),
         \A e \in Steps(Ops(k)) : \A lid \in Lids :
            Taken(e) \in events /\ InFlight(k) /\ PageAt(k, lid) = p =>
               /\ \A f \in At(Ops(k), e).finish : f[1] # lid
               /\ lid \in At(Ops(k), e).take => m = k
  PROVE  TurnOf(p, m, c)'
<1>1. \A n : Ops(n)' = Ops(n) /\ PageAt(n, c)' = PageAt(n, c)
  BY CodeKept DEF Moves, PageAt
<1>2. m \in Nat /\ Loaded' - S <= m /\ m <= Loaded' /\ c \in 0 .. W - 1 /\ (m = Loaded' => c = 0)
  BY DEF TurnOf
<1>3. ASSUME NEW n \in Indices, NEW lid \in Lids, InFlight(n)', PageAt(n, lid) = p
      PROVE  /\ m < n => \A e \in Takes(n, lid) : ~Done(n, e)'
             /\ {y \in Shares(Ops(n), lid) : Done(n, y[1])'} = ShareDone(n, lid)
             /\ n < m => ShareDone(n, lid) = Shares(Ops(n), lid)
             /\ n = m => c = Cardinality(ShareDone(n, lid))
  <2>1. InFlight(n)
    BY <1>3
  <2>2. /\ m < n => \A e \in Takes(n, lid) : ~Done(n, e)
        /\ n < m => ShareDone(n, lid) = Shares(Ops(n), lid)
        /\ n = m => c = Cardinality(ShareDone(n, lid))
    BY <1>3, <2>1 DEF TurnOf
  <2>3. \A e \in Steps(Ops(n)) : Done(n, e)' <=> Done(n, e) \/ (n = k /\ Taken(e) \in events)
    BY DEF Moves
  <2>4. ASSUME m < n, NEW e \in Takes(n, lid) PROVE ~Done(n, e)'
    <3>1. e \in Steps(Ops(n)) /\ lid \in At(Ops(n), e).take
      BY DEF Takes
    <3>2. m # n
      BY <2>4, <1>2, IndexFacts
    <3> QED
      BY <1>3, <2>1, <2>2, <2>3, <2>4, <3>1, <3>2
  <2>5. ASSUME NEW y \in Shares(Ops(n), lid) PROVE Done(n, y[1])' <=> Done(n, y[1])
    <3>1. y[1] \in Steps(Ops(n)) /\ \E f \in At(Ops(n), y[1]).finish : f[1] = lid
      BY DEF Shares
    <3> QED
      BY <1>3, <2>1, <2>3, <3>1
  <2> QED
    BY <2>2, <2>4, <2>5 DEF ShareDone
<1>4. \A n, lid : PageAt(n, lid)' = PageAt(n, lid)
  BY DEF PageAt
<1>5. \A n, lid : /\ Takes(n, lid)' = Takes(n, lid)
                  /\ ShareDone(n, lid)' = {y \in Shares(Ops(n), lid) : Done(n, y[1])'}
  BY <1>1 DEF Takes, ShareDone
<1>6. \A n \in Indices : \A lid \in Lids : InFlight(n)' /\ PageAt(n, lid)' = p =>
          /\ n < m => ShareDone(n, lid)' = Shares(Ops(n)', lid)
          /\ n = m => c = Cardinality(ShareDone(n, lid)')
          /\ m < n => \A e \in Takes(n, lid)' : ~Done(n, e)'
  BY <1>1, <1>3, <1>4, <1>5
<1> QED
  BY <1>2, <1>6 DEF TurnOf, S

LEMMA NoShareBeforeTake ==
  ASSUME AllOrdered, Threading, InOrder, NEW n \in Indices, NEW lid \in Lids,
         \A e \in Takes(n, lid) : ~Done(n, e)
  PROVE  ShareDone(n, lid) = {}
<1> SUFFICES ASSUME NEW y \in ShareDone(n, lid) PROVE FALSE
  OBVIOUS
<1>1. /\ y[1] \in Steps(Ops(n)) /\ Done(n, y[1])
      /\ \E f \in At(Ops(n), y[1]).finish : f[1] = lid
  BY DEF ShareDone, Shares
<1>2. Taken(y[1]) \in Been(n) /\ Taken(y[1]) \in Events(Ops(n))
  BY <1>1, DoneIsBeen, EventFacts
<1>3. lid \in Touches(Ops(n), Taken(y[1]))
  BY <1>1, EventFacts DEF Touches
<1>4. PICK e \in Steps(Ops(n)) : /\ lid \in At(Ops(n), e).take
                                 /\ Taken(e) \in Bef(n)[Taken(y[1])] \cup {Taken(y[1])}
  BY <1>2, <1>3, OrderedAt DEF PagesInOrder, Threading
<1>5. Taken(e) \in Been(n)
  BY <1>2, <1>4 DEF InOrder
<1>6. Done(n, e) /\ e \in Takes(n, lid)
  BY <1>4, <1>5, DoneIsBeen DEF Takes
<1> QED
  BY <1>6

LEMMA SharesOfStep ==
  ASSUME NEW e, NEW k \in Nat
  PROVE  IsFiniteSet({e} \X (1 .. k)) /\ Cardinality({e} \X (1 .. k)) = k
<1>1. IsFiniteSet({e}) /\ Cardinality({e}) = 1
  BY FS_Singleton
<1>2. IsFiniteSet(1 .. k) /\ Cardinality(1 .. k) = k
  BY FS_Interval
<1>3. Cardinality({e} \X (1 .. k)) = Cardinality({e}) * Cardinality(1 .. k)
  BY <1>1, <1>2, FS_Product
<1>4. IsFiniteSet({e} \X (1 .. k))
  BY <1>1, <1>2, FS_Product
<1> QED
  BY <1>1, <1>2, <1>3, <1>4

LEMMA TurnFinish ==
  ASSUME AllOrdered, RingInv, Threading, InOrder, Orders, Loaded' = Loaded, UNCHANGED pid_order,
         \A n \in Indices : InFlight(n)' <=> InFlight(n),
         NEW k \in Indices, InFlight(k), NEW e \in Steps(Ops(k)), Moves(k, {Taken(e)}),
         NEW f, At(Ops(k), e).finish = {f}, f[1] \in Lids, f[2] \in 1 .. W,
         NEW c, TurnOf(PageAt(k, f[1]), k, c),
         NEW p, p = PageAt(k, f[1])
  PROVE  /\ c + f[2] <= W
         /\ IF c + f[2] < W THEN TurnOf(p, k, c + f[2])' ELSE TurnOf(p, k + 1, 0)'
<1>0. PICK lid : lid = f[1]
  OBVIOUS
<1> DEFINE done == ShareDone(k, lid)
           now == {e} \X (1 .. f[2])
<1>1. /\ k \in Nat /\ k < Loaded /\ Loaded - S <= k /\ c \in 0 .. W - 1
      /\ c = Cardinality(done)
  BY <1>0, IndexFacts, TurnOfFacts DEF InFlight
<1>2. /\ IsFiniteSet(Shares(Ops(k), lid)) /\ Cardinality(Shares(Ops(k), lid)) = W
      /\ done \subseteq Shares(Ops(k), lid) /\ W \in Nat \ {0}
  BY <1>0, ShareFacts
<1>3. \A n \in Indices : \A g \in Steps(Ops(n)) : Done(n, g)' <=> Done(n, g) \/ (n = k /\ g = e)
  BY EventFacts DEF Moves
<1>4. ~Done(k, e)
  BY DoneIsBeen DEF Moves
<1>5. now \subseteq Shares(Ops(k), lid) /\ \A y \in Shares(Ops(k), lid) : y[1] = e <=> y \in now
  <2>1. \A j \in 1 .. W : <<e, j>> \in Shares(Ops(k), lid) <=> j \in 1 .. f[2]
    BY <1>0, <1>2 DEF Shares, W
  <2>2. \A y \in Shares(Ops(k), lid) : y = <<y[1], y[2]>> /\ y[2] \in 1 .. W
    BY DEF Shares, W
  <2>3. 1 .. f[2] \subseteq 1 .. W
    BY <1>2
  <2> QED
    BY <2>1, <2>2, <2>3
<1>6. {y \in Shares(Ops(k), lid) : Done(k, y[1])'} = done \cup now
  <2>1. \A y \in Shares(Ops(k), lid) : y[1] \in Steps(Ops(k))
    BY DEF Shares
  <2> QED
    BY <1>3, <1>5, <2>1 DEF ShareDone
<1>7. done \cap now = {}
  BY <1>4, <1>5 DEF ShareDone
<1>8. IsFiniteSet(done) /\ IsFiniteSet(now) /\ Cardinality(now) = f[2] /\ f[2] \in Nat
  <2>1. f[2] \in Nat
    BY <1>2
  <2> QED
    BY <1>2, <2>1, FS_Subset, SharesOfStep
<1>9. Cardinality(done \cup now) = c + f[2]
  <2> HIDE DEF done, now
  <2>1. Cardinality(done \cup now) = Cardinality(done) + Cardinality(now)
    <3>1. Cardinality(done \cup now) = Cardinality(done) + Cardinality(now) - Cardinality(done \cap now)
      BY <1>8, FS_Union
    <3>2. Cardinality(done \cap now) = 0
      BY <1>7, FS_EmptySet
    <3> QED
      BY <1>1, <1>8, <3>1, <3>2
  <2> QED
    BY <1>1, <1>8, <2>1
<1>10. c + f[2] <= W /\ (c + f[2] = W => done \cup now = Shares(Ops(k), lid))
  <2>1. done \cup now \subseteq Shares(Ops(k), lid)
    BY <1>2, <1>5
  <2> HIDE DEF done, now
  <2> QED
    BY <1>2, <1>9, <2>1, FS_Subset
<1>11. /\ \A n : Ops(n)' = Ops(n)
       /\ \A n, l : PageAt(n, l)' = PageAt(n, l)
  BY CodeKept DEF Moves, PageAt
<1>12. \A n, l : /\ Takes(n, l)' = Takes(n, l)
                 /\ ShareDone(n, l)' = {y \in Shares(Ops(n), l) : Done(n, y[1])'}
  BY <1>11 DEF Takes, ShareDone
<1>13. \A l \in Lids : PageAt(k, l) = p => l = lid
  BY <1>0, PageFacts
<1>14. ASSUME NEW n \in Indices, n # k, NEW l \in Lids, InFlight(n)', PageAt(n, l) = p
       PROVE  /\ ShareDone(n, l)' = ShareDone(n, l)
              /\ n < k => ShareDone(n, l) = Shares(Ops(n), l)
              /\ n > k => ShareDone(n, l) = {} /\ \A g \in Takes(n, l) : ~Done(n, g)'
  <2>1. InFlight(n) /\ n \in Nat
    BY <1>14, IndexFacts
  <2>2. /\ n < k => ShareDone(n, l) = Shares(Ops(n), l)
        /\ k < n => \A g \in Takes(n, l) : ~Done(n, g)
    BY <1>14, <2>1, TurnOfFacts
  <2>3. \A g \in Steps(Ops(n)) : Done(n, g)' <=> Done(n, g)
    BY <1>3, <1>14
  <2>4. ShareDone(n, l)' = ShareDone(n, l)
    <3>1. \A y \in Shares(Ops(n), l) : y[1] \in Steps(Ops(n))
      BY DEF Shares
    <3> QED
      BY <1>12, <2>3, <3>1 DEF ShareDone
  <2>5. n > k => ShareDone(n, l) = {}
    BY <1>1, <2>1, <2>2, NoShareBeforeTake
  <2>6. n > k => \A g \in Takes(n, l) : ~Done(n, g)'
    BY <1>1, <2>1, <2>2, <2>3 DEF Takes
  <2> QED
    BY <2>2, <2>4, <2>5, <2>6
<1>15. ShareDone(k, lid)' = done \cup now
  BY <1>6, <1>12
<1> HIDE DEF done, now
<1>16. CASE c + f[2] < W
  <2>1. c + f[2] \in 0 .. W - 1
    BY <1>1, <1>8, <1>2, <1>16
  <2>2. ASSUME NEW n \in Indices, NEW l \in Lids, InFlight(n)', PageAt(n, l)' = p
        PROVE  /\ n < k => ShareDone(n, l)' = Shares(Ops(n)', l)
               /\ n = k => c + f[2] = Cardinality(ShareDone(n, l)')
               /\ k < n => \A g \in Takes(n, l)' : ~Done(n, g)'
    <3>1. PageAt(n, l) = p /\ n \in Nat
      BY <1>11, <2>2, IndexFacts
    <3>2. CASE n = k
      <4>1. l = lid
        BY <1>13, <3>1, <3>2
      <4>2. ShareDone(n, l)' = done \cup now
        BY <1>15, <3>2, <4>1
      <4>3. ~(n < k) /\ ~(k < n)
        BY <1>1, <3>2
      <4> QED
        BY <1>9, <4>2, <4>3
    <3>3. CASE n # k
      BY <1>1, <1>11, <1>12, <1>14, <2>2, <3>1, <3>3
    <3> QED
      BY <3>2, <3>3
  <2>3. k \in Nat /\ Loaded' - S <= k /\ k <= Loaded' /\ (k = Loaded' => c + f[2] = 0)
    BY <1>1, Sizes DEF RingInv, RingTypeOK, Loaded
  <2>4. TurnOf(p, k, c + f[2])'
    BY <2>1, <2>2, <2>3 DEF TurnOf, S
  <2> QED
    BY <1>10, <1>16, <2>4
<1>17. CASE ~(c + f[2] < W)
  <2>1. c + f[2] = W /\ done \cup now = Shares(Ops(k), lid)
    BY <1>1, <1>2, <1>8, <1>10, <1>17
  <2>2. ASSUME NEW n \in Indices, NEW l \in Lids, InFlight(n)', PageAt(n, l)' = p
        PROVE  /\ n < k + 1 => ShareDone(n, l)' = Shares(Ops(n)', l)
               /\ n = k + 1 => 0 = Cardinality(ShareDone(n, l)')
               /\ k + 1 < n => \A g \in Takes(n, l)' : ~Done(n, g)'
    <3>1. PageAt(n, l) = p /\ n \in Nat
      BY <1>11, <2>2, IndexFacts
    <3>2. CASE n = k
      <4>1. l = lid
        BY <1>13, <3>1, <3>2
      <4>2. ShareDone(n, l)' = Shares(Ops(n)', l)
        BY <1>11, <1>15, <2>1, <3>2, <4>1
      <4>3. n # k + 1 /\ ~(k + 1 < n)
        BY <1>1, <3>2
      <4> QED
        BY <4>2, <4>3
    <3>3. CASE n # k
      <4>1. Cardinality({}) = 0
        BY FS_EmptySet
      <4>2. /\ n < k + 1 => n < k
            /\ n >= k + 1 => n > k
        BY <1>1, <3>1, <3>3
      <4>3. /\ ShareDone(n, l)' = ShareDone(n, l)
            /\ n < k => ShareDone(n, l) = Shares(Ops(n), l)
            /\ n > k => ShareDone(n, l) = {} /\ \A g \in Takes(n, l) : ~Done(n, g)'
        BY <1>14, <2>2, <3>1, <3>3
      <4>4. n < k + 1 => ShareDone(n, l)' = Shares(Ops(n)', l)
        BY <1>11, <4>2, <4>3
      <4>5. n = k + 1 => 0 = Cardinality(ShareDone(n, l)')
        BY <1>1, <3>1, <4>1, <4>2, <4>3
      <4>6. k + 1 < n => \A g \in Takes(n, l)' : ~Done(n, g)'
        BY <1>1, <1>12, <3>1, <4>2, <4>3
      <4> QED
        BY <4>4, <4>5, <4>6
    <3> QED
      BY <3>2, <3>3
  <2>3. /\ k + 1 \in Nat /\ Loaded' - S <= k + 1 /\ k + 1 <= Loaded' /\ 0 \in 0 .. W - 1
    BY <1>1, <1>2, Sizes DEF RingInv, RingTypeOK, Loaded
  <2>4. TurnOf(p, k + 1, 0)'
    BY <2>2, <2>3 DEF TurnOf, S
  <2> QED
    BY <1>10, <1>17, <2>4
<1> QED
  BY <1>16, <1>17

LEMMA FillTurns ==
  ASSUME AllOrdered, RingInv, Threading, InOrder, Orders, Turns, FillSlot
  PROVE  Turns'
<1>1. Moves(0, {}) /\ UNCHANGED page_finished
  BY RingMoves DEF FillSlot
<1>2. \A n : Ops(n)' = Ops(n)
  BY <1>1, CodeKept DEF Moves
<1>3. \A n \in Indices : \A e \in Steps(Ops(n)) : Done(n, e)' <=> Done(n, e)
  BY <1>1 DEF Moves
<1>4. /\ fetch \in Indices /\ fetch \in Nat /\ Loaded = fetch /\ Loaded' = fetch + 1
      /\ S \in Nat \ {0}
      /\ \A n \in Indices : InFlight(n)' /\ n # fetch => InFlight(n) /\ Ring(n) # Ring(fetch)
      /\ \A e \in Steps(Ops(fetch)) : ~Done(fetch, e)
      /\ \A n \in Indices : n <= fetch - S => \A e \in Steps(Ops(n)) : Done(n, e)
  BY FillFacts
<1>5. \A n \in Indices : \A lid : InFlight(n)' /\ n # fetch => PageAt(n, lid)' = PageAt(n, lid)
  BY <1>4, IndexFacts DEF FillSlot, PageAt, Orders
<1>6. \A n \in Indices : \A l : /\ Takes(n, l)' = Takes(n, l)
                                /\ ShareDone(n, l)' = {y \in Shares(Ops(n), l) : Done(n, y[1])'}
  BY <1>2 DEF Takes, ShareDone
<1>7. \A n \in Indices : \A l : ShareDone(n, l)' = ShareDone(n, l)
  <2>1. \A n : \A l : \A y \in Shares(Ops(n), l) : y[1] \in Steps(Ops(n))
    BY DEF Shares
  <2> QED
    BY <1>3, <1>6, <2>1 DEF ShareDone
<1>8. ASSUME NEW p \in Pages, NEW m, NEW c, TurnOf(p, m, c) PROVE TurnOf(p, m, c)'
  <2>1. m \in Nat /\ fetch - S <= m /\ m <= fetch /\ c \in 0 .. W - 1 /\ (m = fetch => c = 0)
    BY <1>4, <1>8 DEF TurnOf
  <2>2. m # fetch - S
    <3>1. SUFFICES ASSUME m = fetch - S PROVE FALSE
      OBVIOUS
    <3>2. m \in Indices /\ InFlight(m)
      <4>1. fetch < num_iters /\ num_iters \in Nat
        BY <1>4, Sizes DEF Indices
      <4>2. m \in Nat /\ m <= num_iters - 1 /\ Loaded - S <= m /\ m < Loaded
        BY <1>4, <2>1, <3>1, <4>1
      <4> QED
        BY <4>1, <4>2 DEF Indices, InFlight
    <3>3. PICK lid \in Lids : PageAt(m, lid) = p
      BY <3>2, PageFacts
    <3>4. c = Cardinality(ShareDone(m, lid))
      BY <1>8, <3>2, <3>3, TurnOfFacts
    <3>5. ShareDone(m, lid) = Shares(Ops(m), lid)
      BY <1>4, <2>1, <3>1, <3>2 DEF ShareDone, Shares
    <3>6. c = W /\ W \in Nat
      BY <3>2, <3>3, <3>4, <3>5, ShareFacts
    <3> QED
      BY <2>1, <3>6
  <2>3. Loaded' - S <= m /\ m <= Loaded' /\ m # Loaded'
    BY <1>4, <2>1, <2>2
  <2>4. ASSUME NEW n \in Indices, NEW l \in Lids, InFlight(n)', PageAt(n, l)' = p
        PROVE  /\ n < m => ShareDone(n, l)' = Shares(Ops(n)', l)
               /\ n = m => c = Cardinality(ShareDone(n, l)')
               /\ m < n => \A e \in Takes(n, l)' : ~Done(n, e)'
    <3>1. CASE n = fetch
      <4>1. ~(n < m)
        BY <1>4, <2>1, <3>1
      <4>2. \A e \in Steps(Ops(n)) : ~Done(n, e)
        BY <1>4, <3>1
      <4>3. ShareDone(n, l)' = {} /\ Cardinality({}) = 0
        BY <1>7, <4>2, FS_EmptySet DEF ShareDone, Shares
      <4>4. \A e \in Takes(n, l)' : ~Done(n, e)'
        BY <1>3, <1>6, <4>2 DEF Takes
      <4> QED
        BY <2>1, <3>1, <4>1, <4>3, <4>4
    <3>2. CASE n # fetch
      <4>1. InFlight(n) /\ PageAt(n, l) = p
        BY <1>4, <1>5, <2>4, <3>2
      <4>2. /\ n < m => ShareDone(n, l) = Shares(Ops(n), l)
            /\ n = m => c = Cardinality(ShareDone(n, l))
            /\ m < n => \A e \in Takes(n, l) : ~Done(n, e)
        BY <1>8, <4>1, TurnOfFacts
      <4>3. \A e \in Takes(n, l) : e \in Steps(Ops(n))
        BY DEF Takes
      <4> QED
        BY <1>2, <1>3, <1>6, <1>7, <4>2, <4>3
    <3> QED
      BY <3>1, <3>2
  <2> QED
    BY <2>1, <2>3, <2>4 DEF TurnOf, S
<1> QED
  BY <1>1, <1>8 DEF Turns

LEMMA AdvanceTurns ==
  ASSUME AllOrdered, BitsTell, RingInv, Threading, InOrder, Phases, Orders, Turns,
         NEW t \in Threads, Advance(t), Loaded' = Loaded,
         \A n \in Indices : InFlight(n)' <=> InFlight(n)
  PROVE  Turns'
<1>1. PICK k, e : k = Index(t) /\ e = <<t, at[t]>>
  OBVIOUS
<1>2. /\ Moves(k, {Taken(e)}) /\ Now(k, Taken(e)) /\ e \in Steps(Ops(k))
      /\ Step(t) = At(Ops(k), e)
  BY <1>1, AdvanceMoves, StepNow DEF Advance
<1>3. k \in Indices /\ InFlight(k)
  BY <1>2 DEF Now
<1>4. UNCHANGED pid_order /\ page_finished' = Finished(k, At(Ops(k), e).finish)
      /\ DOMAIN page_finished = Pages
  BY <1>1, <1>2 DEF Advance, Turns
<1>5. WellFormed(Ops(k), Cnt(k))
  BY <1>3, OrderedAt DEF Threading
<1>6. ASSUME NEW p, NEW m, NEW c, TurnOf(p, m, c), PageState(page_finished[p], m, c),
             \A f \in At(Ops(k), e).finish : PageAt(k, f[1]) # p
      PROVE  TurnOf(p, m, c)'
  <2>1. ASSUME NEW lid \in Lids, PageAt(k, lid) = p, lid \in At(Ops(k), e).take
        PROVE  m = k
    <3>1. lid \in Touches(Ops(k), Taken(e))
      BY <2>1, EventFacts DEF Touches
    <3> QED
      BY <1>2, <1>6, <2>1, <3>1, TurnNow
  <2>2. \A g \in Steps(Ops(k)) : Taken(g) \in {Taken(e)} => g = e
    BY EventFacts
  <2>3. \A g \in Steps(Ops(k)) : \A lid \in Lids :
            Taken(g) \in {Taken(e)} /\ InFlight(k) /\ PageAt(k, lid) = p =>
               /\ \A f \in At(Ops(k), g).finish : f[1] # lid
               /\ lid \in At(Ops(k), g).take => m = k
    BY <1>6, <2>1, <2>2
  <2> QED
    BY <1>2, <1>4, <1>6, <2>3, TurnKept
<1>7. CASE At(Ops(k), e).finish = {}
  <2>1. page_finished' = page_finished
    BY <1>4, <1>7 DEF Finished
  <2> QED
    BY <1>6, <1>7, <2>1 DEF Turns
<1>8. CASE At(Ops(k), e).finish # {}
  <2>1. PICK f \in At(Ops(k), e).finish : TRUE
    BY <1>8
  <2>2. /\ At(Ops(k), e).finish = {f} /\ f[1] \in Lids /\ f[2] \in 1 .. W
    BY <1>2, <1>5, <2>1 DEF WellFormed, W
  <2>3. f[1] # Scratch
    BY <2>2 DEF Lids, Scratch, NUM_PAGES, STAGES
  <2>4. PICK q : q = PageAt(k, f[1])
    OBVIOUS
  <2>5. q \in Pages
    BY <1>3, <2>2, <2>4, PageFacts
  <2>6. page_finished' = [page_finished EXCEPT ![q] =
            [i \in Bits |-> Arrive(@[i], f[2], PageCount(i))]]
    <3>1. (CHOOSE g \in {f} : TRUE) = f
      OBVIOUS
    <3>2. Place(k, Lid(f))[2] = q
      BY <2>3, <2>4 DEF Place, Lid, PageAt
    <3> QED
      BY <1>4, <2>2, <3>1, <3>2 DEF Finished
  <2>7. DOMAIN page_finished' = Pages
    BY <1>4, <2>6
  <2>8. ASSUME NEW p \in Pages
        PROVE  \E m \in Nat, c \in Nat : PageState(page_finished'[p], m, c) /\ TurnOf(p, m, c)'
    <3>1. PICK m \in Nat, c \in Nat : PageState(page_finished[p], m, c) /\ TurnOf(p, m, c)
      BY DEF Turns
    <3>2. CASE p # q
      <4>1. page_finished'[p] = page_finished[p]
        BY <1>4, <2>6, <3>2
      <4>2. TurnOf(p, m, c)'
        BY <1>6, <2>2, <2>4, <3>1, <3>2
      <4> QED
        BY <3>1, <4>1, <4>2
    <3>3. CASE p = q
      <4>1. m = k
        <5>1. f[1] \in Touches(Ops(k), Taken(e))
          BY <2>2, EventFacts DEF Touches
        <5> QED
          BY <1>2, <2>4, <3>1, <3>3, <5>1, TurnNow
      <4>2. c \in 0 .. W - 1 /\ k \in Nat
        BY <1>3, <3>1, IndexFacts DEF TurnOf
      <4>3. /\ c + f[2] <= W
            /\ IF c + f[2] < W THEN TurnOf(p, k, c + f[2])' ELSE TurnOf(p, k + 1, 0)'
        BY <1>2, <1>3, <1>4, <2>2, <2>4, <3>1, <3>3, <4>1, TurnFinish
      <4>4. PICK sems : sems = page_finished[p]
        OBVIOUS
      <4>5. page_finished'[p] = [i \in Bits |-> Arrive(sems[i], f[2], PageCount(i))]
        BY <1>4, <2>6, <3>3, <4>4
      <4>6. IF c + f[2] < W THEN PageState(page_finished'[p], k, c + f[2])
                            ELSE PageState(page_finished'[p], k + 1, 0)
        BY <2>2, <3>1, <4>1, <4>2, <4>3, <4>4, <4>5, PageArrives
      <4>7. c + f[2] \in Nat /\ k + 1 \in Nat
        BY <2>2, <4>2
      <4> QED
        BY <3>1, <4>2, <4>3, <4>6, <4>7
    <3> QED
      BY <3>2, <3>3
  <2> QED
    BY <2>7, <2>8 DEF Turns
<1> QED
  BY <1>7, <1>8


(* Pages pass from instruction to instruction in order.                    *)
LEMMA OtherTurns ==
  ASSUME AllOrdered, RingInv, Threading, InOrder, Orders, Turns, Loaded' = Loaded,
         \A n \in Indices : InFlight(n)' <=> InFlight(n),
         UNCHANGED <<pid_order, page_finished>>,
         NEW k, NEW events, Moves(k, events),
         \A e \in Steps(Ops(k)) : Taken(e) \in events =>
            At(Ops(k), e).finish = {} /\ At(Ops(k), e).take = {}
  PROVE  Turns'
<1>1. DOMAIN page_finished' = Pages
  BY DEF Turns
<1>2. ASSUME NEW p \in Pages
      PROVE  \E m \in Nat, c \in Nat : PageState(page_finished'[p], m, c) /\ TurnOf(p, m, c)'
  <2>1. PICK m \in Nat, c \in Nat : PageState(page_finished[p], m, c) /\ TurnOf(p, m, c)
    BY DEF Turns
  <2>2. \A e \in Steps(Ops(k)) : \A lid \in Lids :
            Taken(e) \in events /\ InFlight(k) /\ PageAt(k, lid) = p =>
               /\ \A f \in At(Ops(k), e).finish : f[1] # lid
               /\ lid \in At(Ops(k), e).take => m = k
    OBVIOUS
  <2>3. TurnOf(p, m, c)'
    BY <2>1, <2>2, TurnKept
  <2> QED
    BY <2>1, <2>3
<1> QED
  BY <1>1, <1>2 DEF Turns

LEMMA TurnsNext ==
  ASSUME AllOrdered, BitsTell, RingInv, Threading, Copies, InOrder, Phases, Orders, Turns, Next
  PROVE  Turns'
<1>1. CASE FillSlot
  BY <1>1, FillTurns
<1>2. CASE ~FillSlot
  <2>0. Loaded' = Loaded /\ \A n \in Indices : InFlight(n)' <=> InFlight(n)
    BY <1>2, OthersFacts
  <2>1. ASSUME Quiet PROVE Turns'
    <3>1. Moves(0, {}) /\ UNCHANGED <<pid_order, page_finished>>
      BY <2>1, QuietMoves
    <3>2. \A e \in Steps(Ops(0)) : Taken(e) \in {} =>
            At(Ops(0), e).finish = {} /\ At(Ops(0), e).take = {}
      OBVIOUS
    <3> QED
      BY <2>0, <3>1, <3>2, OtherTurns
  <2>2. ASSUME NEW t \in Threads, Advance(t) PROVE Turns'
    BY <2>0, <2>2, AdvanceTurns
  <2>3. ASSUME NEW w \in Consumers, GroupWait(w), waiting \cup {w} = Consumers PROVE Turns'
    <3>1. UNCHANGED <<pid_order, page_finished>>
      BY <2>3, GroupLeaves
    <3>2. PICK k \in Indices : \E E \in SUBSET Syncs(Ops(k)) :
               /\ Moves(k, {Taken(e) : e \in E})
               /\ \A e \in E : At(Ops(k), e) = [Step0 EXCEPT !.sync = TRUE]
      BY <2>3, GroupLeaves
    <3>3. PICK E \in SUBSET Syncs(Ops(k)) :
               /\ Moves(k, {Taken(e) : e \in E})
               /\ \A e \in E : At(Ops(k), e) = [Step0 EXCEPT !.sync = TRUE]
      BY <3>2
    <3>4. \A e \in E : At(Ops(k), e).finish = {} /\ At(Ops(k), e).take = {}
      BY <3>3 DEF Step0
    <3>5. \A e \in Steps(Ops(k)) : Taken(e) \in {Taken(g) : g \in E} =>
            At(Ops(k), e).finish = {} /\ At(Ops(k), e).take = {}
      BY <3>4, EventFacts
    <3>6. PICK N : N = {Taken(e) : e \in E}
      OBVIOUS
    <3> QED
      BY <2>0, <3>1, <3>3, <3>5, <3>6, OtherTurns
  <2>4. ASSUME NEW k, NEW ev, Moves(k, {ev}), ~IsStep(ev), UNCHANGED <<pid_order, page_finished>>
        PROVE  Turns'
    <3>1. \A e \in Steps(Ops(k)) : Taken(e) \notin {ev}
      BY <2>4, EventFacts
    <3> QED
      BY <2>0, <2>4, <3>1, OtherTurns
  <2>5. ASSUME NEW l \in loads, Land(l[1], l[2]) PROVE Turns'
    BY <2>4, <2>5, LandMoves, EventFacts DEF Land
  <2>6. ASSUME NEW l \in puts, Reach(l[1], l[2]) PROVE Turns'
    BY <2>4, <2>6, ReachMoves, EventFacts DEF Reach
  <2> QED
    BY <1>2, <2>1, <2>2, <2>3, <2>5, <2>6, NextCases
<1> QED
  BY <1>1, <1>2

------------------------------------------------------------------------------
(* Places, and what is written to them.                                    *)
AnyLids == Lids \cup {Scratch}

LEMMA PlaceFacts ==
  ASSUME Orders
  PROVE  /\ \A n \in Indices : InFlight(n) => \A a \in AnyLids : Place(n, a) \in Places
         /\ \A n \in Indices : InFlight(n) =>
              \A a \in AnyLids, b \in AnyLids : Place(n, a) = Place(n, b) => a = b
         /\ \A m \in Indices, n \in Indices : \A a \in AnyLids, b \in AnyLids :
              Place(m, a) = Place(n, b) =>
                 \/ a = Scratch /\ b = Scratch /\ Ring(m) = Ring(n)
                 \/ a \in Lids /\ b \in Lids /\ PageAt(m, a) = PageAt(n, b)
<1>1. \A n : Place(n, Scratch) = <<"scratch", Ring(n)>>
  BY DEF Place
<1>2. \A n : \A a \in Lids : Place(n, a) = <<"page", PageAt(n, a)>>
  <2>1. \A a \in Lids : a # Scratch
    BY DEF Lids, Scratch, NUM_PAGES, STAGES
  <2> QED
    BY <2>1 DEF Place, PageAt
<1>3. ASSUME NEW n \in Indices, InFlight(n), NEW a \in AnyLids
      PROVE  Place(n, a) \in Places
  <2>1. CASE a = Scratch
    <3>1. <<"scratch", Ring(n)>> \in Places
      BY <1>3, IndexFacts DEF Places
    <3> QED
      BY <1>1, <2>1, <3>1
  <2>2. CASE a \in Lids
    <3>1. PageAt(n, a) \in Pages
      BY <1>3, <2>2, PageFacts
    <3>2. <<"page", PageAt(n, a)>> \in Places
      BY <3>1 DEF Places
    <3> QED
      BY <1>2, <2>2, <3>2
  <2> QED
    BY <2>1, <2>2 DEF AnyLids
<1>4. ASSUME NEW m \in Indices, NEW n \in Indices, NEW a \in AnyLids, NEW b \in AnyLids,
             Place(m, a) = Place(n, b)
      PROVE  \/ a = Scratch /\ b = Scratch /\ Ring(m) = Ring(n)
             \/ a \in Lids /\ b \in Lids /\ PageAt(m, a) = PageAt(n, b)
  <2>1. CASE a = Scratch
    BY <1>1, <1>2, <1>4, <2>1 DEF AnyLids
  <2>2. CASE a \in Lids
    BY <1>1, <1>2, <1>4, <2>2 DEF AnyLids
  <2> QED
    BY <2>1, <2>2 DEF AnyLids
<1>5. ASSUME NEW n \in Indices, InFlight(n), NEW a \in AnyLids, NEW b \in AnyLids,
             Place(n, a) = Place(n, b)
      PROVE  a = b
  <2>1. CASE a = Scratch /\ b = Scratch
    BY <2>1
  <2>2. CASE a \in Lids /\ b \in Lids /\ PageAt(n, a) = PageAt(n, b)
    BY <1>5, <2>2, PageFacts
  <2> QED
    BY <1>4, <1>5, <2>1, <2>2
<1> QED
  BY <1>3, <1>4, <1>5

LEMMA WroteFacts ==
  ASSUME DOMAIN memory = Places, NEW k, NEW spoilt, NEW written, written \subseteq spoilt,
         memory' = Wrote(k, spoilt, written)
  PROVE  /\ DOMAIN memory' = Places
         /\ \A place \in Places :
              /\ memory'[place].by \in {memory[place].by, k}
              /\ (\A y \in spoilt : Place(k, y[1]) # place) => memory'[place] = memory[place]
              /\ \A y \in written : Place(k, y[1]) = place =>
                    memory'[place].by = k /\ <<y[2], y[3]>> \in memory'[place].has
              /\ \A v : /\ memory[place].by = k /\ v \in memory[place].has
                        /\ \A y \in spoilt : Place(k, y[1]) = place => y[2] # v[1]
                        => memory'[place].by = k /\ v \in memory'[place].has
<1>1. CASE spoilt = {}
  BY <1>1 DEF Wrote
<1>2. CASE spoilt # {}
  <2> DEFINE In(xs, place) == {x \in xs : Place(k, x[1]) = place}
  <2>1. memory' = [place \in Places |->
           IF In(spoilt, place) = {} THEN memory[place]
           ELSE [by |-> k,
                 has |-> {v \in Contents(k, place) : v[1] \notin {x[2] : x \in In(spoilt, place)}}
                         \cup {<<x[2], x[3]>> : x \in In(written, place)}]]
    BY <1>2 DEF Wrote, Lid, Region
  <2>2. ASSUME NEW place \in Places
        PROVE  /\ memory'[place].by \in {memory[place].by, k}
               /\ (\A y \in spoilt : Place(k, y[1]) # place) => memory'[place] = memory[place]
               /\ \A y \in written : Place(k, y[1]) = place =>
                     memory'[place].by = k /\ <<y[2], y[3]>> \in memory'[place].has
               /\ \A v : /\ memory[place].by = k /\ v \in memory[place].has
                         /\ \A y \in spoilt : Place(k, y[1]) = place => y[2] # v[1]
                         => memory'[place].by = k /\ v \in memory'[place].has
    <3>1. CASE In(spoilt, place) = {}
      <4>1. memory'[place] = memory[place]
        BY <2>1, <3>1
      <4>2. \A y \in written : Place(k, y[1]) # place
        BY <3>1
      <4> QED
        BY <4>1, <4>2
    <3>2. CASE In(spoilt, place) # {}
      <4>1. /\ memory'[place].by = k
            /\ memory'[place].has =
                 {v \in Contents(k, place) : v[1] \notin {x[2] : x \in In(spoilt, place)}}
                 \cup {<<x[2], x[3]>> : x \in In(written, place)}
        BY <2>1, <3>2
      <4>2. \E y \in spoilt : Place(k, y[1]) = place
        BY <3>2
      <4>3. memory[place].by = k => Contents(k, place) = memory[place].has
        BY DEF Contents
      <4> QED
        BY <4>1, <4>2, <4>3
    <3> QED
      BY <3>1, <3>2
  <2>3. DOMAIN memory' = Places
    BY <2>1
  <2> QED
    BY <2>2, <2>3
<1> QED
  BY <1>1, <1>2

(* What spoils or gives touches.                                           *)
LEMMA SpoilFacts ==
  ASSUME NEW code, NEW counts, WellFormed(code, counts), NEW ev \in Events(code)
  PROVE  /\ \A x \in Spoils(code, ev) : x[1] \in AnyLids
         /\ \A x \in Spoils(code, ev) : x[1] \in Lids => x[1] \in Touches(code, ev)
         /\ \A x \in Gives(code, ev) : <<x[1], x[2]>> \in Spoils(code, ev)
<1>1. CASE IsStep(ev)
  <2>1. ev[2] \in Steps(code)
    BY <1>1, EventFacts
  <2>2. /\ \A x \in At(code, ev[2]).writes : x[1] \in AnyLids
        /\ \A x \in At(code, ev[2]).load : x[1] \in AnyLids
    BY <2>1 DEF WellFormed, AnyLids
  <2>3. Spoils(code, ev) = {<<x[1], x[2]>> : x \in At(code, ev[2]).writes}
                           \cup {<<x[1], x[2]>> : x \in At(code, ev[2]).load}
    BY <1>1 DEF Spoils
  <2>4. Gives(code, ev) = At(code, ev[2]).writes
    BY <1>1 DEF Gives
  <2> QED
    BY <1>1, <2>2, <2>3, <2>4 DEF Touches
<1>2. CASE ~IsStep(ev) /\ IsLanding(ev)
  <2>1. ev[2] \in Loads(code)
    BY <1>2, EventFacts
  <2>2. ev[2][1] \in AnyLids
    BY <2>1 DEF WellFormed, Loads, AnyLids
  <2> QED
    BY <1>2, <2>2 DEF Spoils, Gives, Touches
<1>3. CASE ~IsStep(ev) /\ ~IsLanding(ev)
  BY <1>3 DEF Spoils, Gives
<1> QED
  BY <1>1, <1>2, <1>3

(* One region that is to be read stays as it was written.                  *)
LEMMA NoSpoil ==
  ASSUME AllOrdered, BitsTell, RingInv, Threading, InOrder, Orders, Turns,
         NEW k, NEW ev, Now(k, ev), Moves(k, {ev}),
         NEW n \in Indices, InFlight(n), NEW e \in Steps(Ops(n)), ~Done(n, e)',
         NEW x \in At(Ops(n), e).reads, NEW w \in Been(n), Feeds(Ops(n), Bef(n), w, e, x),
         NEW y \in Spoils(Ops(k), ev), Place(k, y[1]) = Place(n, x[1])
  PROVE  n = k /\ y[2] # x[2]
<1>1. /\ k \in Indices /\ InFlight(k) /\ ev \in Events(Ops(k)) /\ ev \notin Been(k)
      /\ Bef(k)[ev] \subseteq Been(k)
  BY DEF Now
<1>2. WellFormed(Ops(k), Cnt(k)) /\ WellFormed(Ops(n), Cnt(n)) /\ PagesInOrder(Ops(n), Bef(n))
  BY <1>1, OrderedAt DEF Threading
<1>3. y[1] \in AnyLids /\ (y[1] \in Lids => y[1] \in Touches(Ops(k), ev)) /\ y = <<y[1], y[2]>>
  <2>1. y = <<y[1], y[2]>>
    BY DEF Spoils
  <2> QED
    BY <1>1, <1>2, <2>1, SpoilFacts
<1>4. w \in Events(Ops(n)) /\ x \in Gives(Ops(n), w)
  BY DEF Been, Feeds
<1>5. x[1] \in AnyLids /\ (x[1] \in Lids => x[1] \in Touches(Ops(n), w))
  <2>1. <<x[1], x[2]>> \in Spoils(Ops(n), w) /\ <<x[1], x[2]>>[1] = x[1]
    BY <1>2, <1>4, SpoilFacts
  <2> QED
    BY <1>2, <1>4, <2>1, SpoilFacts
<1>6. ~Done(n, e) /\ Taken(e) \notin Been(n) /\ Taken(e) \in Events(Ops(n))
      /\ (n = k => Taken(e) # ev)
  <2>1. Done(n, e)' <=> Done(n, e) \/ (n = k /\ Taken(e) \in {ev})
    BY DEF Moves
  <2> QED
    BY <2>1, DoneIsBeen, EventFacts
<1>7. CASE n = k
  <2>1. SUFFICES ASSUME y[2] = x[2] PROVE FALSE
    BY <1>7
  <2>2. y[1] = x[1]
    BY <1>1, <1>3, <1>5, <1>7, PlaceFacts
  <2>3. <<x[1], x[2]>> \in Spoils(Ops(n), ev)
    BY <1>3, <1>7, <2>1, <2>2
  <2>4. ev \in Bef(n)[w] \cup {w} \/ Taken(e) \in Bef(n)[ev] \cup {ev}
    BY <1>1, <1>7, <2>3 DEF Feeds
  <2>5. Bef(n)[w] \subseteq Been(n)
    BY DEF InOrder
  <2> QED
    BY <1>1, <1>6, <1>7, <2>4, <2>5
<1>8. CASE n # k
  <2>1. SUFFICES ASSUME TRUE PROVE FALSE
    OBVIOUS
  <2>2. y[1] \in Lids /\ x[1] \in Lids /\ PageAt(k, y[1]) = PageAt(n, x[1])
    <3>1. Ring(k) # Ring(n)
      BY <1>1, <1>8, TwoInFlight
    <3> QED
      BY <1>1, <1>3, <1>5, <3>1, PlaceFacts
  <2>3. PICK p : p = PageAt(n, x[1])
    OBVIOUS
  <2>4. p \in Pages
    BY <2>2, <2>3, PageFacts
  <2>5. PICK m \in Nat, c \in Nat : PageState(page_finished[p], m, c) /\ TurnOf(p, m, c)
    BY <2>4 DEF Turns
  <2>6. m = k
    BY <1>3, <2>2, <2>3, <2>5, TurnNow
  <2>7. x[1] \in Touches(Ops(n), Taken(e))
    BY <2>2, EventFacts DEF Touches
  <2>8. m <= n
    BY <1>6, <2>3, <2>5, <2>7, TurnNotAfter
  <2>9. PICK g \in Steps(Ops(n)) : /\ x[1] \in At(Ops(n), g).take
                                   /\ Taken(g) \in Bef(n)[w] \cup {w}
    BY <1>2, <1>4, <1>5, <2>2 DEF PagesInOrder
  <2>10. Taken(g) \in Been(n)
    BY <2>9 DEF InOrder
  <2>11. Done(n, g) /\ g \in Takes(n, x[1])
    BY <2>9, <2>10, DoneIsBeen DEF Takes
  <2>12. ~(m < n)
    BY <2>2, <2>3, <2>5, <2>11, TurnOfFacts
  <2> QED
    BY <1>1, <1>8, <2>6, <2>8, <2>12, IndexFacts
<1> QED
  BY <1>7, <1>8

LEMMA DataWrite ==
  ASSUME AllOrdered, BitsTell, RingInv, Threading, InOrder, Orders, Turns, Data,
         NEW k, NEW ev, Now(k, ev), Moves(k, {ev}), UNCHANGED pid_order,
         \A n \in Indices : InFlight(n)' <=> InFlight(n),
         NEW spoilt, NEW written, written \subseteq spoilt,
         memory' = Wrote(k, spoilt, written),
         \A y \in spoilt : <<y[1], y[2]>> \in Spoils(Ops(k), ev),
         \A x \in Gives(Ops(k), ev) :
            \E y \in written : y[1] = x[1] /\ y[2] = x[2] /\ y[3] = x[3]
  PROVE  Data'
<1>0. DOMAIN memory = Places
  BY DEF Data
<1>1. \A n : Ops(n)' = Ops(n) /\ Bef(n)' = Bef(n)
  BY CodeKept DEF Moves
<1>2. \A n, a : Place(n, a)' = Place(n, a)
  BY DEF Place
<1>3. DOMAIN memory' = Places
  BY <1>0, WroteFacts
<1>4. ASSUME NEW place \in Places PROVE memory'[place].by \in Indices \cup {None}
  <2>1. memory'[place].by \in {memory[place].by, k}
    BY <1>0, WroteFacts
  <2>2. k \in Indices /\ memory[place].by \in Indices \cup {None}
    BY DEF Now, Data
  <2> QED
    BY <2>1, <2>2
<1>5. ASSUME NEW n \in Indices, NEW e \in Steps(Ops(n)), NEW x \in At(Ops(n), e).reads,
             NEW w \in Been(n)', InFlight(n), Feeds(Ops(n), Bef(n), w, e, x), ~Done(n, e)'
      PROVE  /\ memory'[Place(n, x[1])].by = n
             /\ <<x[2], x[3]>> \in memory'[Place(n, x[1])].has
  <2>1. Been(n)' = Been(n) \cup (IF n = k THEN {ev} ELSE {})
    BY DEF Moves
  <2>2. ~Done(n, e)
    BY <1>5 DEF Moves
  <2>3. PICK place : place = Place(n, x[1])
    OBVIOUS
  <2>4. place \in Places
    <3>1. WellFormed(Ops(n), Cnt(n))
      BY OrderedAt DEF Threading
    <3>2. x[1] \in AnyLids
      BY <3>1 DEF WellFormed, AnyLids
    <3> QED
      BY <1>5, <2>3, <3>2, PlaceFacts
  <2>5. CASE w \in Been(n)
    <3>1. memory[place].by = n /\ <<x[2], x[3]>> \in memory[place].has
      BY <1>5, <2>2, <2>3, <2>5 DEF Data
    <3>2. ASSUME NEW y \in spoilt, Place(k, y[1]) = place
          PROVE  n = k /\ y[2] # x[2]
      <4>1. <<y[1], y[2]>> \in Spoils(Ops(k), ev)
        OBVIOUS
      <4>2. PICK z \in Spoils(Ops(k), ev) : z = <<y[1], y[2]>>
        BY <4>1
      <4>3. z[1] = y[1] /\ z[2] = y[2]
        BY <4>2
      <4>4. Place(k, z[1]) = Place(n, x[1])
        BY <2>3, <3>2, <4>3
      <4>5. n = k /\ z[2] # x[2]
        BY <1>5, <2>5, <4>4, NoSpoil
      <4> QED
        BY <4>3, <4>5
    <3>3. CASE n = k
      <4>1. PICK v : v = <<x[2], x[3]>>
        OBVIOUS
      <4>2. v[1] = x[2]
        BY <4>1
      <4>3. memory'[place].by = k /\ v \in memory'[place].has
        BY <1>0, <2>4, <3>1, <3>2, <3>3, <4>1, <4>2, WroteFacts
      <4> QED
        BY <2>3, <3>3, <4>1, <4>3
    <3>4. CASE n # k
      <4>1. memory'[place] = memory[place]
        BY <1>0, <2>4, <3>2, <3>4, WroteFacts
      <4> QED
        BY <2>3, <3>1, <4>1
    <3> QED
      BY <3>3, <3>4
  <2>6. CASE w \notin Been(n)
    <3>1. n = k /\ w = ev
      BY <2>1, <2>6
    <3>2. x \in Gives(Ops(k), ev)
      BY <1>5, <3>1 DEF Feeds
    <3>3. PICK y \in written : y[1] = x[1] /\ y[2] = x[2] /\ y[3] = x[3]
      BY <3>2
    <3>4. memory'[place].by = k /\ <<y[2], y[3]>> \in memory'[place].has
      BY <1>0, <2>3, <2>4, <3>1, <3>3, WroteFacts
    <3> QED
      BY <2>3, <3>1, <3>3, <3>4
  <2> QED
    BY <2>5, <2>6
<1>6. \A n \in Indices : \A e \in Steps(Ops(n)) : \A x \in At(Ops(n), e).reads :
         \A w \in Been(n)' :
            InFlight(n)' /\ Feeds(Ops(n), Bef(n), w, e, x) /\ ~Done(n, e)' =>
               /\ memory'[Place(n, x[1])].by = n
               /\ <<x[2], x[3]>> \in memory'[Place(n, x[1])].has
  BY <1>5
<1> QED
  BY <1>1, <1>2, <1>3, <1>4, <1>6 DEF Data

LEMMA DataKept ==
  ASSUME Data, UNCHANGED <<memory, pid_order>>,
         \A n \in Indices : InFlight(n)' <=> InFlight(n),
         NEW k, NEW events, Moves(k, events), \A ev \in events : Gives(Ops(k), ev) = {}
  PROVE  Data'
<1>1. \A n : Ops(n)' = Ops(n) /\ Bef(n)' = Bef(n)
  BY CodeKept DEF Moves
<1>2. \A n, a : Place(n, a)' = Place(n, a)
  BY DEF Place
<1>3. DOMAIN memory' = Places /\ \A place \in Places : memory'[place].by \in Indices \cup {None}
  BY DEF Data
<1>4. ASSUME NEW n \in Indices, NEW e \in Steps(Ops(n)), NEW x \in At(Ops(n), e).reads,
             NEW w \in Been(n)', InFlight(n)', Feeds(Ops(n), Bef(n), w, e, x), ~Done(n, e)'
      PROVE  /\ memory'[Place(n, x[1])].by = n
             /\ <<x[2], x[3]>> \in memory'[Place(n, x[1])].has
  <2>1. w \in Been(n)
    BY <1>4 DEF Moves, Feeds
  <2>2. InFlight(n) /\ ~Done(n, e)
    BY <1>4 DEF Moves
  <2> QED
    BY <1>4, <2>1, <2>2 DEF Data
<1> QED
  BY <1>1, <1>2, <1>3, <1>4 DEF Data

LEMMA FillBeen ==
  ASSUME AllOrdered, RingInv, Threading, FillSlot
  PROVE  Been(fetch) = {}
<1>1. PICK k : k = fetch
  OBVIOUS
<1>2. k \in Indices /\ \A e \in Steps(Ops(k)) : ~Done(k, e)
  BY <1>1, FillFacts
<1>3. Been(k) = {}
  BY <1>2, NothingBeen DEF Threading
<1> QED
  BY <1>1, <1>3

LEMMA FillData ==
  ASSUME AllOrdered, RingInv, Threading, Orders, Data, FillSlot
  PROVE  Data'
<1>0. Moves(0, {}) /\ UNCHANGED memory
  BY RingMoves DEF FillSlot
<1>1. \A n : Ops(n)' = Ops(n) /\ Bef(n)' = Bef(n)
  BY <1>0, CodeKept DEF Moves
<1>2. DOMAIN memory' = Places /\ \A place \in Places : memory'[place].by \in Indices \cup {None}
  BY <1>0 DEF Data
<1>3. ASSUME NEW n \in Indices, InFlight(n)', NEW w \in Been(n)', NEW a
      PROVE  InFlight(n) /\ Place(n, a)' = Place(n, a) /\ w \in Been(n)
  <2>1. w \in Been(n)
    BY <1>0 DEF Moves
  <2>2. n # fetch
    BY <2>1, FillBeen
  <2>3. InFlight(n) /\ Ring(n) # Ring(fetch) /\ Ring(n) \in Slots
    BY <1>3, <2>2, FillFacts, IndexFacts
  <2>4. pid_order'[Ring(n)] = pid_order[Ring(n)]
    BY <2>3 DEF FillSlot, Orders
  <2> QED
    BY <2>1, <2>3, <2>4 DEF Place
<1>4. \A n \in Indices : \A e \in Steps(Ops(n)) : ~Done(n, e)' => ~Done(n, e)
  BY <1>0 DEF Moves
<1>5. \A n \in Indices : \A e \in Steps(Ops(n)) : \A x \in At(Ops(n), e).reads :
         \A w \in Been(n)' :
            InFlight(n)' /\ Feeds(Ops(n), Bef(n), w, e, x) /\ ~Done(n, e)' =>
               /\ memory'[Place(n, x[1])'].by = n
               /\ <<x[2], x[3]>> \in memory'[Place(n, x[1])'].has
  BY <1>0, <1>3, <1>4 DEF Data
<1> QED
  BY <1>1, <1>2, <1>5 DEF Data

LEMMA AdvanceData ==
  ASSUME AllOrdered, BitsTell, RingInv, Threading, InOrder, Phases, Orders, Turns, Data,
         \A n \in Indices : InFlight(n)' <=> InFlight(n),
         NEW t \in Threads, Advance(t)
  PROVE  Data'
<1>1. PICK k, e : k = Index(t) /\ e = <<t, at[t]>>
  OBVIOUS
<1>2. /\ Moves(k, {Taken(e)}) /\ Now(k, Taken(e)) /\ e \in Steps(Ops(k))
      /\ Step(t) = At(Ops(k), e)
  BY <1>1, AdvanceMoves, StepNow DEF Advance
<1>3. PICK s : s = At(Ops(k), e)
  OBVIOUS
<1>4. /\ UNCHANGED pid_order
      /\ memory' = Wrote(k, s.writes \cup s.load, s.writes)
  BY <1>1, <1>2, <1>3 DEF Advance
<1>5. /\ Spoils(Ops(k), Taken(e)) = {<<x[1], x[2]>> : x \in s.writes}
                                    \cup {<<x[1], x[2]>> : x \in s.load}
      /\ Gives(Ops(k), Taken(e)) = s.writes
  BY <1>3, EventFacts DEF Spoils, Gives
<1>6. PICK spoilt, written : spoilt = s.writes \cup s.load /\ written = s.writes
  OBVIOUS
<1>7. /\ written \subseteq spoilt
      /\ memory' = Wrote(k, spoilt, written)
      /\ \A y \in spoilt : <<y[1], y[2]>> \in Spoils(Ops(k), Taken(e))
      /\ \A x \in Gives(Ops(k), Taken(e)) :
            \E y \in written : y[1] = x[1] /\ y[2] = x[2] /\ y[3] = x[3]
  BY <1>4, <1>5, <1>6
<1> QED
  BY <1>2, <1>4, <1>7, DataWrite

LEMMA LandData ==
  ASSUME AllOrdered, BitsTell, RingInv, Threading, Copies, InOrder, Orders, Turns, Data,
         \A n \in Indices : InFlight(n)' <=> InFlight(n),
         NEW l \in loads, Land(l[1], l[2])
  PROVE  Data'
<1>1. PICK k, x, ev : k = l[1] /\ x = l[2] /\ ev = Landing(x)
  OBVIOUS
<1>2. Moves(k, {ev}) /\ Now(k, ev)
  BY <1>1, LandMoves, LoadNow
<1>3. UNCHANGED pid_order /\ memory' = Wrote(k, {x}, {x})
  BY <1>1 DEF Land
<1>4. /\ Spoils(Ops(k), ev) = {<<x[1], x[2]>>}
      /\ Gives(Ops(k), ev) = {<<x[1], x[2], x[3]>>}
  BY <1>1, EventFacts DEF Spoils, Gives
<1>5. PICK spoilt : spoilt = {x}
  OBVIOUS
<1>6. /\ spoilt \subseteq spoilt
      /\ memory' = Wrote(k, spoilt, spoilt)
      /\ \A y \in spoilt : <<y[1], y[2]>> \in Spoils(Ops(k), ev)
      /\ \A z \in Gives(Ops(k), ev) :
            \E y \in spoilt : y[1] = z[1] /\ y[2] = z[2] /\ y[3] = z[3]
  BY <1>3, <1>4, <1>5
<1> QED
  BY <1>2, <1>3, <1>6, DataWrite

LEMMA DataNext ==
  ASSUME AllOrdered, BitsTell, RingInv, Threading, Copies, InOrder, Phases, Orders, Turns, Data,
         Next
  PROVE  Data'
<1>1. CASE FillSlot
  BY <1>1, FillData
<1>2. CASE ~FillSlot
  <2>0. \A n \in Indices : InFlight(n)' <=> InFlight(n)
    BY <1>2, OthersFacts
  <2>1. ASSUME Quiet PROVE Data'
    <3>1. Moves(0, {}) /\ UNCHANGED <<memory, pid_order>>
      BY <2>1, QuietMoves
    <3>2. \A ev \in {} : Gives(Ops(0), ev) = {}
      OBVIOUS
    <3> QED
      BY <2>0, <3>1, <3>2, DataKept
  <2>2. ASSUME NEW t \in Threads, Advance(t) PROVE Data'
    BY <2>0, <2>2, AdvanceData
  <2>3. ASSUME NEW w \in Consumers, GroupWait(w), waiting \cup {w} = Consumers PROVE Data'
    <3>1. UNCHANGED <<memory, pid_order>>
      BY <2>3, GroupLeaves
    <3>2. PICK k \in Indices : \E E \in SUBSET Syncs(Ops(k)) :
               /\ Moves(k, {Taken(e) : e \in E})
               /\ \A e \in E : At(Ops(k), e) = [Step0 EXCEPT !.sync = TRUE]
      BY <2>3, GroupLeaves
    <3>3. PICK E \in SUBSET Syncs(Ops(k)) :
               /\ Moves(k, {Taken(e) : e \in E})
               /\ \A e \in E : At(Ops(k), e) = [Step0 EXCEPT !.sync = TRUE]
      BY <3>2
    <3>4. PICK N : N = {Taken(e) : e \in E}
      OBVIOUS
    <3>5. \A ev \in N : Gives(Ops(k), ev) = {}
      BY <3>3, <3>4, EventFacts DEF Gives, Step0
    <3> QED
      BY <2>0, <3>1, <3>3, <3>4, <3>5, DataKept
  <2>4. ASSUME NEW l \in loads, Land(l[1], l[2]) PROVE Data'
    BY <2>0, <2>4, LandData
  <2>5. ASSUME NEW l \in puts, Reach(l[1], l[2]) PROVE Data'
    <3>1. PICK k, x : k = l[1] /\ x = l[2]
      OBVIOUS
    <3>2. Moves(k, {Reaching(x)}) /\ UNCHANGED <<memory, pid_order>>
      BY <2>5, <3>1, ReachMoves DEF Reach
    <3>3. \A ev \in {Reaching(x)} : Gives(Ops(k), ev) = {}
      BY EventFacts DEF Gives
    <3> QED
      BY <2>0, <3>2, <3>3, DataKept
  <2> QED
    BY <1>2, <2>1, <2>2, <2>3, <2>4, <2>5, NextCases
<1> QED
  BY <1>1, <1>2

------------------------------------------------------------------------------
(* A counter tells how much of its instruction's output is stored.         *)
LEMMA AddFacts ==
  ASSUME AllOrdered, Threading, NEW n \in Indices
  PROVE  /\ Blocks(Inst(n)) \in Nat
         /\ IsFiniteSet(Additions(Inst(n), Ops(n)))
         /\ Cardinality(Additions(Inst(n), Ops(n))) = Blocks(Inst(n))
         /\ AddDone(n) \subseteq Additions(Inst(n), Ops(n))
         /\ \A e \in Steps(Ops(n)) : At(Ops(n), e).add \in Nat /\ At(Ops(n), e).add <= Blocks(Inst(n))
<1>1. OutputsCounted(Inst(n), Ops(n)) /\ WellFormed(Ops(n), Cnt(n))
  BY OrderedAt DEF Threading
<1> QED
  BY <1>1 DEF OutputsCounted, WellFormed, AddDone

LEMMA ReadIsStored ==
  ASSUME AllOrdered, prog \in Programs, NEW m \in Indices, NEW n \in Indices, n = After(m)
  PROVE  OutputsStored(Inst(n), Ops(n), Bef(n))
<1>1. n \in Nat /\ Inst(n) \in Instructions
  BY OrderedAt
<1>2. m + 1 \in DOMAIN prog
  BY RingAssumption, PipelineAssumption DEF RingAssumption, PipelineAssumption, Indices
<1>3. prog[m + 1].after # None /\ Inst(n) = prog[prog[m + 1].after + 1]
  BY <1>1 DEF After, Inst, None
<1>4. Inst(n) \in Read
  BY <1>1, <1>2, <1>3 DEF Read
<1> QED
  BY <1>4 DEF AllOrdered, Ops, Bef

LEMMA AllStored ==
  ASSUME AllOrdered, Threading, InOrder, Stored, NEW m \in Indices, NEW n \in Indices,
         n = After(m), Bar[n] >= Blocks(Inst(n)), NEW b \in 0 .. Blocks(Inst(n)) - 1
  PROVE  <<n, b>> \in out
<1>1. AddDone(n) = Additions(Inst(n), Ops(n))
  <2>1. Cardinality(AddDone(n)) >= Cardinality(Additions(Inst(n), Ops(n)))
    BY AddFacts DEF Stored
  <2>2. /\ IsFiniteSet(AddDone(n)) /\ Cardinality(AddDone(n)) \in Nat
        /\ Cardinality(Additions(Inst(n), Ops(n))) \in Nat
        /\ Cardinality(AddDone(n)) <= Cardinality(Additions(Inst(n), Ops(n)))
        /\ Cardinality(AddDone(n)) = Cardinality(Additions(Inst(n), Ops(n))) =>
              AddDone(n) = Additions(Inst(n), Ops(n))
    BY AddFacts, FS_Subset, FS_CardinalityType
  <2> QED
    BY <2>1, <2>2
<1>2. OutputsStored(Inst(n), Ops(n), Bef(n))
  BY ReadIsStored DEF Threading
<1>3. PICK e \in Steps(Ops(n)), x \in Puts(Ops(n)) :
          At(Ops(n), e).add > 0 /\ x[2] = b /\ Reaching(x) \in Bef(n)[Taken(e)]
  BY <1>2 DEF OutputsStored
<1>4. <<e, 1>> \in Additions(Inst(n), Ops(n))
  <2>1. At(Ops(n), e).add \in Nat /\ At(Ops(n), e).add <= Blocks(Inst(n)) /\ Blocks(Inst(n)) \in Nat
    BY AddFacts
  <2>2. 1 <= At(Ops(n), e).add /\ 1 \in 1 .. Blocks(Inst(n))
    BY <1>3, <2>1
  <2> QED
    BY <2>2 DEF Additions
<1>5. Done(n, e)
  BY <1>1, <1>4 DEF AddDone
<1>6. Reaching(x) \in Been(n)
  <2>1. Taken(e) \in Been(n)
    BY <1>5, DoneIsBeen
  <2> QED
    BY <1>3, <2>1 DEF InOrder
<1>7. <<n, x[2]>> \in out
  BY <1>6 DEF Stored
<1> QED
  BY <1>3, <1>7

LEMMA StoredKept ==
  ASSUME AllOrdered, Threading, Stored, UNCHANGED Bar, out \subseteq out',
         NEW k, NEW events, Moves(k, events),
         \A e \in Steps(Ops(k)) : Taken(e) \in events => At(Ops(k), e).add = 0 /\ ~At(Ops(k), e).gmem,
         \A x \in Puts(Ops(k)) : Reaching(x) \in events => <<k, x[2]>> \in out'
  PROVE  Stored'
<1>1. \A n : Ops(n)' = Ops(n) /\ Inst(n)' = Inst(n) /\ After(n)' = After(n)
  BY CodeKept DEF Moves
<1>2. ASSUME NEW n \in Indices
      PROVE  {y \in Additions(Inst(n), Ops(n)) : Done(n, y[1])'} = AddDone(n)
  <2>1. ASSUME NEW y \in Additions(Inst(n), Ops(n)) PROVE Done(n, y[1])' <=> Done(n, y[1])
    <3>1. /\ y[1] \in Steps(Ops(n)) /\ y[2] \in 1 .. Blocks(Inst(n)) /\ y[2] <= At(Ops(n), y[1]).add
          /\ Blocks(Inst(n)) \in Nat
      BY AddFacts DEF Additions
    <3>2. At(Ops(n), y[1]).add # 0
      BY <3>1
    <3> QED
      BY <3>1, <3>2 DEF Moves
  <2> QED
    BY <2>1 DEF AddDone
<1>3. \A n : AddDone(n)' = {y \in Additions(Inst(n), Ops(n)) : Done(n, y[1])'}
  BY <1>1 DEF AddDone
<1>4. ASSUME NEW n \in Indices
      PROVE  Bar'[n] = Cardinality(AddDone(n)')
  BY <1>2, <1>3 DEF Stored
<1>5. ASSUME NEW n \in Indices, NEW x \in Puts(Ops(n)), Reaching(x) \in Been(n)'
      PROVE  <<n, x[2]>> \in out'
  BY <1>5 DEF Moves, Stored
<1>6. ASSUME NEW n \in Indices, NEW e \in Steps(Ops(n)), At(Ops(n), e).gmem, Done(n, e)',
             NEW b \in 0 .. Blocks(Inst(After(n))) - 1
      PROVE  <<After(n), b>> \in out'
  <2>1. Done(n, e)
    BY <1>6 DEF Moves
  <2> QED
    BY <1>6, <2>1 DEF Stored
<1>7. \A n \in Indices : Blocks(Inst(After(n)))' = Blocks(Inst(After(n)))
  BY <1>1
<1> QED
  BY <1>1, <1>4, <1>5, <1>6, <1>7 DEF Stored

LEMMA AdvanceStored ==
  ASSUME AllOrdered, RingInv, Threading, InOrder, Phases, Stored, NEW t \in Threads, Advance(t)
  PROVE  Stored'
<1>1. PICK k, e : k = Index(t) /\ e = <<t, at[t]>>
  OBVIOUS
<1>2. /\ Moves(k, {Taken(e)}) /\ Now(k, Taken(e)) /\ e \in Steps(Ops(k))
      /\ Step(t) = At(Ops(k), e)
  BY <1>1, AdvanceMoves, StepNow DEF Advance
<1>3. k \in Indices /\ ~Done(k, e)
  BY <1>2, DoneIsBeen DEF Now
<1>4. PICK add : add = At(Ops(k), e).add
  OBVIOUS
<1>5. add \in Nat /\ add <= Blocks(Inst(k)) /\ Blocks(Inst(k)) \in Nat
  BY <1>2, <1>3, <1>4, AddFacts
<1>6. /\ UNCHANGED out
      /\ Bar' = [Bar EXCEPT ![k] = @ + add]
      /\ At(Ops(k), e).gmem => Bar[After(k)] >= Blocks(Inst(After(k)))
  BY <1>1, <1>2, <1>4 DEF Advance, Passes
<1>7. \A n : Ops(n)' = Ops(n) /\ Inst(n)' = Inst(n) /\ After(n)' = After(n)
  BY <1>2, CodeKept DEF Moves
<1>8. \A n \in Indices : \A g \in Steps(Ops(n)) : Done(n, g)' <=> Done(n, g) \/ (n = k /\ g = e)
  BY <1>2, EventFacts DEF Moves
<1>9. \A n : AddDone(n)' = {y \in Additions(Inst(n), Ops(n)) : Done(n, y[1])'}
  BY <1>7 DEF AddDone
<1>10. \A n : \A y \in Additions(Inst(n), Ops(n)) : y[1] \in Steps(Ops(n))
  BY DEF Additions
<1>11. ASSUME NEW n \in Indices, n # k PROVE AddDone(n)' = AddDone(n)
  BY <1>8, <1>9, <1>10, <1>11 DEF AddDone
<1>12. AddDone(k)' = AddDone(k) \cup ({e} \X (1 .. add))
  <2>1. \A j \in 1 .. Blocks(Inst(k)) : <<e, j>> \in Additions(Inst(k), Ops(k)) <=> j \in 1 .. add
    BY <1>2, <1>4, <1>5 DEF Additions
  <2>2. \A y \in Additions(Inst(k), Ops(k)) : y = <<y[1], y[2]>> /\ y[2] \in 1 .. Blocks(Inst(k))
    BY DEF Additions
  <2>3. 1 .. add \subseteq 1 .. Blocks(Inst(k))
    BY <1>5
  <2>4. \A y \in Additions(Inst(k), Ops(k)) : y[1] = e <=> y \in {e} \X (1 .. add)
    BY <2>1, <2>2
  <2>5. {e} \X (1 .. add) \subseteq Additions(Inst(k), Ops(k))
    BY <2>1, <2>3
  <2> QED
    BY <1>3, <1>8, <1>9, <1>10, <2>4, <2>5 DEF AddDone
<1>13. Cardinality(AddDone(k)') = Cardinality(AddDone(k)) + add
  <2>1. IsFiniteSet(AddDone(k)) /\ Cardinality(AddDone(k)) \in Nat
    BY <1>3, AddFacts, FS_Subset, FS_CardinalityType
  <2>2. IsFiniteSet({e} \X (1 .. add)) /\ Cardinality({e} \X (1 .. add)) = add
    BY <1>5, SharesOfStep
  <2>3. AddDone(k) \cap ({e} \X (1 .. add)) = {}
    BY <1>3 DEF AddDone
  <2>4. PICK A, B : A = AddDone(k) /\ B = {e} \X (1 .. add)
    OBVIOUS
  <2>5. Cardinality(A \cup B) = Cardinality(A) + Cardinality(B) - Cardinality(A \cap B)
    BY <2>1, <2>2, <2>4, FS_Union
  <2>6. Cardinality(A \cap B) = 0
    BY <2>3, <2>4, FS_EmptySet
  <2> QED
    BY <1>5, <1>12, <2>1, <2>2, <2>4, <2>5, <2>6
<1>14. Bar \in [Indices -> Nat] /\ \A n \in Indices : Bar[n] = Cardinality(AddDone(n))
  BY DEF Stored
<1>15. Bar' \in [Indices -> Nat] /\ \A n \in Indices : Bar'[n] = Cardinality(AddDone(n)')
  <2>1. Bar[k] + add \in Nat
    BY <1>3, <1>5, <1>14
  <2>2. Bar' \in [Indices -> Nat]
    BY <1>6, <1>14, <2>1
  <2>3. Bar'[k] = Cardinality(AddDone(k)')
    BY <1>3, <1>6, <1>13, <1>14
  <2>4. \A n \in Indices : n # k => Bar'[n] = Cardinality(AddDone(n)')
    BY <1>6, <1>11, <1>14
  <2> QED
    BY <2>2, <2>3, <2>4
<1>16. ASSUME NEW n \in Indices, NEW x \in Puts(Ops(n)), Reaching(x) \in Been(n)'
       PROVE  <<n, x[2]>> \in out'
  <2>1. Reaching(x) \in Been(n)
    BY <1>2, <1>16, EventFacts DEF Moves
  <2> QED
    BY <1>6, <2>1 DEF Stored
<1>17. ASSUME NEW n \in Indices, NEW g \in Steps(Ops(n)), At(Ops(n), g).gmem, Done(n, g)',
              NEW b \in 0 .. Blocks(Inst(After(n))) - 1
       PROVE  <<After(n), b>> \in out
  <2>1. CASE Done(n, g)
    BY <1>17, <2>1 DEF Stored
  <2>2. CASE ~Done(n, g)
    <3>1. n = k /\ g = e
      BY <1>8, <1>17, <2>2
    <3>2. Bar[After(n)] >= Blocks(Inst(After(n)))
      BY <1>6, <1>17, <3>1
    <3>3. InputsAwaited(Inst(n), Ops(n), Bef(n))
      BY OrderedAt DEF Threading
    <3>4. After(n) \in Indices
      BY <1>17, <3>3 DEF InputsAwaited, After
    <3> QED
      BY <3>2, <3>4, AllStored
  <2> QED
    BY <2>1, <2>2
<1> QED
  BY <1>6, <1>7, <1>15, <1>16, <1>17 DEF Stored

LEMMA StoredNext ==
  ASSUME AllOrdered, RingInv, Threading, Copies, InOrder, Phases, Stored, Next
  PROVE  Stored'
<1>1. ASSUME Moves(0, {}), UNCHANGED <<out, Bar>> PROVE Stored'
  <2>1. /\ \A e \in Steps(Ops(0)) : Taken(e) \in {} => At(Ops(0), e).add = 0 /\ ~At(Ops(0), e).gmem
        /\ \A x \in Puts(Ops(0)) : Reaching(x) \in {} => <<0, x[2]>> \in out'
        /\ out \subseteq out'
    BY <1>1
  <2> QED
    BY <1>1, <2>1, StoredKept
<1>2. CASE FillSlot
  BY <1>1, <1>2, RingMoves DEF FillSlot, global
<1>3. CASE Quiet
  BY <1>1, <1>3, QuietMoves
<1>4. ASSUME NEW t \in Threads, Advance(t) PROVE Stored'
  BY <1>4, AdvanceStored
<1>5. ASSUME NEW w \in Consumers, GroupWait(w), waiting \cup {w} = Consumers PROVE Stored'
  <2>1. UNCHANGED <<out, Bar>>
    BY <1>5, GroupLeaves
  <2>2. PICK k \in Indices : \E E \in SUBSET Syncs(Ops(k)) :
             /\ Moves(k, {Taken(e) : e \in E})
             /\ \A e \in E : At(Ops(k), e) = [Step0 EXCEPT !.sync = TRUE]
    BY <1>5, GroupLeaves
  <2>3. PICK E \in SUBSET Syncs(Ops(k)) :
             /\ Moves(k, {Taken(e) : e \in E})
             /\ \A e \in E : At(Ops(k), e) = [Step0 EXCEPT !.sync = TRUE]
    BY <2>2
  <2>4. PICK N : N = {Taken(e) : e \in E}
    OBVIOUS
  <2>5. \A e \in E : At(Ops(k), e).add = 0 /\ ~At(Ops(k), e).gmem
    BY <2>3 DEF Step0
  <2>6. \A e \in Steps(Ops(k)) : Taken(e) \in N => At(Ops(k), e).add = 0 /\ ~At(Ops(k), e).gmem
    BY <2>4, <2>5, EventFacts
  <2>7. \A x \in Puts(Ops(k)) : Reaching(x) \notin N
    BY <2>4, EventFacts
  <2> QED
    BY <2>1, <2>3, <2>4, <2>6, <2>7, StoredKept
<1>6. ASSUME NEW l \in loads, Land(l[1], l[2]) PROVE Stored'
  <2>1. PICK k, x : k = l[1] /\ x = l[2]
    OBVIOUS
  <2>2. Moves(k, {Landing(x)}) /\ UNCHANGED <<out, Bar>>
    BY <1>6, <2>1, LandMoves DEF Land, global
  <2>3. /\ \A e \in Steps(Ops(k)) : Taken(e) \notin {Landing(x)}
        /\ \A z \in Puts(Ops(k)) : Reaching(z) \notin {Landing(x)}
    BY EventFacts
  <2> QED
    BY <2>2, <2>3, StoredKept
<1>7. ASSUME NEW l \in puts, Reach(l[1], l[2]) PROVE Stored'
  <2>1. PICK k, x : k = l[1] /\ x = l[2]
    OBVIOUS
  <2>2. Moves(k, {Reaching(x)}) /\ UNCHANGED Bar /\ out' = out \cup {<<k, x[2]>>}
    BY <1>7, <2>1, ReachMoves DEF Reach
  <2>3. /\ \A e \in Steps(Ops(k)) : Taken(e) \notin {Reaching(x)}
        /\ \A z \in Puts(Ops(k)) : Reaching(z) \in {Reaching(x)} => <<k, z[2]>> \in out'
    BY <2>2, EventFacts
  <2> QED
    BY <2>2, <2>3, StoredKept
<1> QED
  BY <1>2, <1>3, <1>4, <1>5, <1>6, <1>7, NextCases

------------------------------------------------------------------------------
(* The invariant holds at first, and stays.                                *)
LEMMA InitNothing ==
  ASSUME AllOrdered, Init, NEW n \in Indices
  PROVE  /\ \A e \in Steps(Ops(n)) : ~Done(n, e)
         /\ Been(n) = {} /\ ~InFlight(n) /\ Loaded = 0
<1>1. Loaded = 0 /\ ~InFlight(n)
  <2>1. Loaded = 0
    BY DEF Init, RingInit, Loaded
  <2> QED
    BY <2>1, IndexFacts DEF InFlight
<1>2. ASSUME NEW e \in Steps(Ops(n)) PROVE ~Done(n, e)
  <2>1. e[1] \in Threads /\ WarpOf(e[1]) \in Warps /\ e[2] \in Nat /\ e[2] >= 1 /\ n \in Nat
    BY StepFacts, ThreadFacts, IndexFacts
  <2>2. Index(e[1]) = 0 /\ at[e[1]] = 1
    BY <2>1 DEF Init, RingInit, Index
  <2> QED
    BY <2>1, <2>2 DEF Done
<1>3. Been(n) = {}
  BY <1>2, NothingBeen DEF Init
<1> QED
  BY <1>1, <1>2, <1>3

LEMMA InitTurns ==
  ASSUME AllOrdered, BitsTell, Init
  PROVE  Turns
<1>1. DOMAIN page_finished = Pages
  BY DEF Init
<1>2. W \in Nat \ {0} /\ S \in Nat \ {0} /\ Loaded = 0
  BY PipelineAssumption, Sizes DEF PipelineAssumption, W, Init, RingInit, Loaded
<1>3. ASSUME NEW p \in Pages PROVE PageState(page_finished[p], 0, 0)
  <2>1. ASSUME NEW i \in Bits
        PROVE  Arrive(Fresh, PageCount(i), PageCount(i))
               = [phase |-> 1 + 0 \div 2 ^ i, pending |-> (0 % 2 ^ i) * W + 0]
    <3>1. PICK P : P = 2 ^ i
      OBVIOUS
    <3>2. P \in Nat \ {0}
      BY <3>1 DEF BitsTell
    <3>3. 0 \div P = 0 /\ 0 % P = 0
      BY <3>2, SMT
    <3>4. PageCount(i) = W * P
      BY <3>1 DEF PageCount, W
    <3>5. W * P \in Nat
      BY <1>2, <3>2
    <3>6. PICK count : count = W * P
      OBVIOUS
    <3>7. Arrive(Fresh, count, count) = [phase |-> 1, pending |-> 0]
      <4>1. count \in Nat /\ ~(0 + count < count) /\ 0 + count - count = 0
        BY <3>5, <3>6
      <4> QED
        BY <4>1 DEF Arrive, Fresh
    <3>8. 1 + 0 \div P = 1 /\ (0 % P) * W + 0 = 0
      BY <1>2, <3>3
    <3> QED
      BY <3>1, <3>4, <3>6, <3>7, <3>8
  <2>2. page_finished[p] = [i \in Bits |-> Arrive(Fresh, PageCount(i), PageCount(i))]
    BY DEF Init
  <2> QED
    BY <2>1, <2>2 DEF PageState
<1>4. ASSUME NEW p \in Pages PROVE TurnOf(p, 0, 0)
  <2>1. 0 \in Nat /\ Loaded - S <= 0 /\ 0 <= Loaded /\ 0 \in 0 .. W - 1
    BY <1>2
  <2> QED
    BY <2>1, InitNothing DEF TurnOf
<1> QED
  BY <1>1, <1>3, <1>4 DEF Turns

LEMMA InitPipeInv ==
  ASSUME AllOrdered, BitsTell, Init
  PROVE  PipeInv
<1>1. Threading
  <2>1. /\ prog \in Programs /\ waiting = {} /\ drained = 0
        /\ at = [t \in Threads |-> 1]
    BY DEF Init, RingInit
  <2>2. \A t \in Threads : ~running[WarpOf(t)]
    BY ThreadFacts DEF Init, RingInit
  <2>3. \A r \in Slots : slot[r] \in -1 .. num_iters - 1
    BY Sizes DEF Init, RingInit
  <2> QED
    BY <2>1, <2>2, <2>3 DEF Threading
<1>2. Copies
  BY DEF Init, Copies
<1>3. InOrder
  BY InitNothing DEF InOrder, Syncs
<1>4. Phases
  BY InitNothing DEF Init, Phases, Active
<1>5. Orders
  BY InitNothing DEF Init, Orders
<1>6. Turns
  BY InitTurns
<1>7. Data
  <2>1. DOMAIN memory = Places /\ \A place \in Places : memory[place].by \in Indices \cup {None}
    BY DEF Init
  <2> QED
    BY <2>1, InitNothing DEF Data
<1>8. Stored
  <2>1. Bar \in [Indices -> Nat] /\ \A n \in Indices : Bar[n] = 0
    BY DEF Init
  <2>2. ASSUME NEW n \in Indices PROVE AddDone(n) = {} /\ Cardinality({}) = 0
    BY InitNothing, FS_EmptySet DEF AddDone, Additions
  <2> QED
    BY <2>1, <2>2, InitNothing DEF Stored
<1> QED
  BY <1>1, <1>2, <1>3, <1>4, <1>5, <1>6, <1>7, <1>8 DEF PipeInv

LEMMA StillPipeInv ==
  ASSUME PipeInv, UNCHANGED vars
  PROVE  PipeInv'
<1>1. UNCHANGED <<prog, at, pid_order, semaphores, page_finished, memory, loads, puts, out, Bar,
                  waiting, slot, step, fetch, drained, instruction_index, running>>
  BY DEF vars, body_vars, async, global, ring_vars, controller
<1>2. /\ \A n : Inst(n)' = Inst(n) /\ Ops(n)' = Ops(n) /\ Cnt(n)' = Cnt(n) /\ Rds(n)' = Rds(n)
                /\ Bef(n)' = Bef(n) /\ After(n)' = After(n)
      /\ \A t : Index(t)' = Index(t)
      /\ Loaded' = Loaded /\ \A n : DoneWith(n)' = DoneWith(n)
  BY <1>1, CodeKept DEF Index, Loaded, DoneWith
<1>3. /\ \A n, e : Done(n, e)' = Done(n, e)
      /\ \A n : InFlight(n)' = InFlight(n)
      /\ \A n, a : Place(n, a)' = Place(n, a) /\ PageAt(n, a)' = PageAt(n, a)
  BY <1>1, <1>2 DEF Done, InFlight, Place, PageAt, S
<1>4. \A n, ev : Has(n, ev)' = Has(n, ev)
  BY <1>1, <1>2, <1>3 DEF Has
<1>5. /\ \A n : Been(n)' = Been(n) /\ Active(n)' = Active(n) /\ AddDone(n)' = AddDone(n)
      /\ \A n, l : ShareDone(n, l)' = ShareDone(n, l) /\ Takes(n, l)' = Takes(n, l)
  BY <1>2, <1>3, <1>4 DEF Been, Active, AddDone, ShareDone, Takes
<1>6. Threading'
  BY <1>1, <1>2 DEF PipeInv, Threading
<1>7. Copies' /\ InOrder'
  BY <1>1, <1>2, <1>3, <1>5 DEF PipeInv, Copies, InOrder
<1>8. Phases' /\ Orders'
  BY <1>1, <1>2, <1>3, <1>5 DEF PipeInv, Phases, Orders
<1>9. Turns'
  <2>1. \A p, m, c : TurnOf(p, m, c)' = TurnOf(p, m, c)
    BY <1>1, <1>2, <1>3, <1>5 DEF TurnOf, S
  <2> QED
    BY <1>1, <2>1 DEF PipeInv, Turns
<1>10. Data'
  BY <1>1, <1>2, <1>3, <1>5 DEF PipeInv, Data
<1>11. Stored'
  BY <1>1, <1>2, <1>3, <1>5 DEF PipeInv, Stored
<1> QED
  BY <1>6, <1>7, <1>8, <1>9, <1>10, <1>11 DEF PipeInv

LEMMA PipeInvNext ==
  ASSUME AllOrdered, BitsTell, RingInv, PipeInv, [Next]_vars
  PROVE  PipeInv'
<1>1. CASE UNCHANGED vars
  BY <1>1, StillPipeInv
<1>2. CASE Next
  <2>1. Threading /\ Copies /\ InOrder /\ Phases /\ Orders /\ Turns /\ Data /\ Stored
    BY DEF PipeInv
  <2>2. Threading'
    BY <1>2, <2>1, ThreadingNext
  <2>3. Copies' /\ InOrder'
    BY <1>2, <2>1, OrderNext
  <2>4. Phases' /\ Orders'
    BY <1>2, <2>1, PhasesNext, OrdersNext
  <2>5. Turns'
    BY <1>2, <2>1, TurnsNext
  <2>6. Data' /\ Stored'
    BY <1>2, <2>1, DataNext, StoredNext
  <2> QED
    BY <2>2, <2>3, <2>4, <2>5, <2>6 DEF PipeInv
<1> QED
  BY <1>1, <1>2

(* The pipeline's invariant, for any queue of operations whose code is     *)
(* ordered and enough bits of the index.                                   *)
LEMMA PipeInvTheorem ==
  ASSUME AllOrdered, BitsTell
  PROVE  Spec => [](RingInv /\ PipeInv)
<1>1. Init => RingInv /\ PipeInv
  BY InitInv, InitPipeInv DEF Init
<1>2. RingInv /\ PipeInv /\ [Next]_vars => (RingInv /\ PipeInv)'
  BY RingSteps, StepInv, PipeInvNext
<1> QED
  BY <1>1, <1>2, PTL DEF Spec

------------------------------------------------------------------------------
(* An order of pages is a sequence of all of them.                         *)
LEMMA OrderIsPages ==
  ASSUME NEW order, IsOrder(order)
  PROVE  Len(order) = NUM_PAGES /\ ToSet(order) = Pages
<1>1. order \in [1 .. NUM_PAGES -> Pages] /\ NUM_PAGES \in Nat
  BY DEF IsOrder, NUM_PAGES, STAGES
<1>2. order \in Seq(Pages) /\ Len(order) = NUM_PAGES
  BY <1>1
<1>3. ToSet(order) = Pages
  BY <1>1 DEF IsOrder, ToSet
<1> QED
  BY <1>2, <1>3

(* The CTA's memory is of the type it should be: in particular the pages   *)
(* of a slot are all pages, and no page is let go too often.               *)
THEOREM PipelineTypeOK ==
  ASSUME AllOrdered, BitsTell
  PROVE  Spec => []TypeOK
<1>1. ASSUME RingInv, PipeInv PROVE TypeOK
  <2>1. Threading /\ Orders /\ Turns /\ Data
    BY <1>1 DEF PipeInv
  <2>2. fetch \in 0 .. num_iters /\ instruction_index \in [Warps -> 0 .. num_iters]
    <3>1. fetch \in 0 .. num_iters /\ num_iters \in Nat /\ instruction_index \in [Warps -> Nat]
      BY <1>1, Sizes DEF RingInv, RingTypeOK
    <3>2. \A w \in Warps : instruction_index[w] <= fetch
      BY <1>1 DEF RingInv, InWindow
    <3> QED
      BY <3>1, <3>2
  <2>3. \A r \in Slots : pid_order[r] # <<>> =>
          Len(pid_order[r]) = NUM_PAGES /\ ToSet(pid_order[r]) = Pages
    BY <2>1, OrderIsPages DEF Orders
  <2>4. ASSUME NEW p \in Pages, NEW i \in Bits
        PROVE  page_finished[p][i].pending \in 0 .. PageCount(i) - 1
    <3>1. PICK n \in Nat, c \in Nat : PageState(page_finished[p], n, c) /\ c \in 0 .. W - 1
      BY <2>1 DEF Turns, TurnOf
    <3>2. PICK P : P = 2 ^ i
      OBVIOUS
    <3>3. P \in Nat \ {0} /\ W \in Nat \ {0} /\ PageCount(i) = W * P
      BY <3>2, PipelineAssumption DEF BitsTell, PipelineAssumption, W, PageCount
    <3>4. page_finished[p][i].pending = (n % P) * W + c
      BY <3>1, <3>2 DEF PageState
    <3>5. 1 \in 1 .. W /\ c + 1 <= W
      BY <3>1, <3>3
    <3> QED
      BY <3>1, <3>3, <3>4, <3>5, BitArrives
  <2> QED
    BY <2>1, <2>2, <2>3, <2>4 DEF TypeOK, Threading, Data
<1> QED
  BY <1>1, PipeInvTheorem, PTL

(* Whoever touches a page for an instruction finds its turn.               *)
LEMMA TurnHolds ==
  ASSUME AllOrdered, BitsTell, RingInv, PipeInv, NEW n, NEW ev, Now(n, ev), NEW lid \in AnyLids,
         lid \in Lids => lid \in Touches(Ops(n), ev)
  PROVE  Holds(n, lid)
<1>1. SUFFICES ASSUME lid # Scratch PROVE LetGo(Place(n, lid)[2]) = n
  BY DEF Holds
<1>2. lid \in Lids /\ lid \in Touches(Ops(n), ev) /\ n \in Indices /\ InFlight(n)
  BY <1>1 DEF AnyLids, Now
<1>3. PICK p : p = PageAt(n, lid)
  OBVIOUS
<1>4. Place(n, lid)[2] = p
  BY <1>1, <1>3 DEF Place, PageAt
<1>5. Threading /\ InOrder /\ Orders /\ Turns
  BY DEF PipeInv
<1>6. p \in Pages
  BY <1>2, <1>3, <1>5, PageFacts
<1>7. PICK m \in Nat, c \in Nat : PageState(page_finished[p], m, c) /\ TurnOf(p, m, c)
  BY <1>5, <1>6 DEF Turns
<1>8. m = n
  BY <1>2, <1>3, <1>5, <1>7, TurnNow
<1>9. 0 \in Bits /\ 2 ^ 0 = 1
  BY DEF BitsTell, Bits
<1>10. page_finished[p][0].phase = 1 + m \div 1
  BY <1>7, <1>9 DEF PageState
<1>11. m \div 1 = m
  BY <1>7, SMT
<1> QED
  BY <1>4, <1>7, <1>8, <1>10, <1>11 DEF LetGo

(* Pages change hands in order, whatever the warps of two instructions and *)
(* their copies do at once (wait_page_ready, finish_page): whoever touches *)
(* a page does so between its instruction's wait and its last finish.      *)
THEOREM PagesInTurnTheorem ==
  ASSUME AllOrdered, BitsTell
  PROVE  Spec => []PagesInTurn
<1>1. ASSUME RingInv, PipeInv PROVE PagesInTurn
  <2>0. Threading /\ Copies /\ InOrder /\ Phases
    BY <1>1 DEF PipeInv
  <2>1. ASSUME NEW t \in Threads, Passes(t), NEW lid \in Touched(Step(t))
        PROVE  Holds(Index(t), lid)
    <3>1. PICK n, e : n = Index(t) /\ e = <<t, at[t]>>
      OBVIOUS
    <3>2. Now(n, Taken(e)) /\ e \in Steps(Ops(n)) /\ Step(t) = At(Ops(n), e)
      BY <1>1, <2>0, <2>1, <3>1, StepNow
    <3>3. WellFormed(Ops(n), Cnt(n))
      BY <2>0, <3>2, OrderedAt DEF Threading, Now
    <3>4. PICK s : s = At(Ops(n), e)
      OBVIOUS
    <3>5. lid \in {x[1] : x \in s.reads \cup s.writes \cup s.load \cup s.put \cup s.finish}
      BY <2>1, <3>2, <3>4 DEF Touched, Lid
    <3>6. lid \in AnyLids
      BY <3>2, <3>3, <3>4, <3>5 DEF WellFormed, AnyLids
    <3>7. lid \in Lids => lid \in Touches(Ops(n), Taken(e))
      BY <3>4, <3>5, EventFacts DEF Touches
    <3> QED
      BY <1>1, <3>1, <3>2, <3>6, <3>7, TurnHolds
  <2>2. ASSUME NEW l \in loads PROVE Holds(l[1], Lid(l[2]))
    <3>1. PICK n, x : n = l[1] /\ x = l[2]
      OBVIOUS
    <3>2. Now(n, Landing(x)) /\ x \in Loads(Ops(n))
      BY <1>1, <2>0, <3>1, LoadNow
    <3>3. x[1] \in AnyLids
      BY <2>0, <3>2, OrderedAt DEF Threading, Now, WellFormed, Loads, AnyLids
    <3>4. x[1] \in Lids => x[1] \in Touches(Ops(n), Landing(x))
      BY EventFacts DEF Touches
    <3> QED
      BY <1>1, <3>1, <3>2, <3>3, <3>4, TurnHolds DEF Lid
  <2>3. ASSUME NEW l \in puts PROVE Holds(l[1], Lid(l[2]))
    <3>1. PICK n, x : n = l[1] /\ x = l[2]
      OBVIOUS
    <3>2. n \in Indices /\ x \in Puts(Ops(n))
      BY <1>1, <2>0, <3>1, PutFacts
    <3>3. x[1] \in AnyLids
      BY <2>0, <3>2, OrderedAt DEF Threading, WellFormed, Puts, AnyLids
    <3>4. CASE x[1] \in Lids
      <4>1. Now(n, Reaching(x))
        BY <1>1, <2>0, <3>1, <3>4, PutNow
      <4>2. x[1] \in Touches(Ops(n), Reaching(x))
        BY <3>4, EventFacts DEF Touches
      <4> QED
        BY <1>1, <3>1, <3>3, <4>1, <4>2, TurnHolds DEF Lid
    <3>5. CASE x[1] \notin Lids
      BY <3>1, <3>3, <3>5 DEF AnyLids, Holds, Lid
    <3> QED
      BY <3>4, <3>5
  <2> QED
    BY <2>1, <2>2, <2>3 DEF PagesInTurn
<1> QED
  BY <1>1, PipeInvTheorem, PTL

(* What a thread reads is what its own instruction wrote, or loaded, there *)
(* for this turn (the stages' semaphores, the consumers' barrier).         *)
THEOREM OwnDataTheorem ==
  ASSUME AllOrdered, BitsTell
  PROVE  Spec => []OwnData
<1>1. ASSUME RingInv, PipeInv PROVE OwnData
  <2>0. Threading /\ InOrder /\ Phases /\ Data
    BY <1>1 DEF PipeInv
  <2>1. ASSUME NEW t \in Threads, Passes(t), NEW x \in Step(t).reads
        PROVE  /\ memory[Place(Index(t), Lid(x))].by = Index(t)
               /\ <<Region(x), x[3]>> \in memory[Place(Index(t), Lid(x))].has
    <3>1. PICK n, e : n = Index(t) /\ e = <<t, at[t]>>
      OBVIOUS
    <3>2. Now(n, Taken(e)) /\ e \in Steps(Ops(n)) /\ Step(t) = At(Ops(n), e)
      BY <1>1, <2>0, <2>1, <3>1, StepNow
    <3>3. n \in Indices /\ InFlight(n) /\ ~Done(n, e) /\ Bef(n)[Taken(e)] \subseteq Been(n)
      BY <3>2, DoneIsBeen DEF Now
    <3>4. ReadsAreFed(Ops(n), Bef(n))
      BY <2>0, <3>3, OrderedAt DEF Threading
    <3>5. x \in At(Ops(n), e).reads
      BY <2>1, <3>2
    <3>6. PICK w \in Events(Ops(n)) : Feeds(Ops(n), Bef(n), w, e, x)
      BY <3>2, <3>4, <3>5 DEF ReadsAreFed
    <3>7. w \in Been(n)
      BY <3>3, <3>6 DEF Feeds
    <3> QED
      BY <2>0, <3>1, <3>2, <3>3, <3>5, <3>6, <3>7 DEF Data, Lid, Region
  <2> QED
    BY <2>1 DEF OwnData
<1> QED
  BY <1>1, PipeInvTheorem, PTL

(* Neither a warp nor a load that ends late meets a semaphore that the     *)
(* controller has invalidated (main_loop), or another instruction's.       *)
THEOREM SemaphoresLiveTheorem ==
  ASSUME AllOrdered, BitsTell
  PROVE  Spec => []SemaphoresLive
<1>1. ASSUME RingInv, PipeInv PROVE SemaphoresLive
  <2>0. Threading /\ Copies /\ InOrder /\ Phases
    BY <1>1 DEF PipeInv
  <2>1. \A n \in Indices : Active(n) => DOMAIN Sems(n) = DOMAIN Cnt(n)
    BY <2>0 DEF Phases, Sems
  <2>2. ASSUME NEW t \in Threads, Running(t)
        PROVE  {w[1] : w \in Step(t).wait} \cup Step(t).arrive \subseteq DOMAIN Sems(Index(t))
    <3>1. PICK n, e : n = Index(t) /\ e = <<t, at[t]>>
      OBVIOUS
    <3>2. n \in Indices /\ Active(n) /\ e \in Steps(Ops(n)) /\ Step(t) = At(Ops(n), e)
      BY <1>1, <2>0, <2>2, <3>1, StepAt
    <3>3. WellFormed(Ops(n), Cnt(n))
      BY <2>0, <3>2, OrderedAt DEF Threading
    <3>4. {w[1] : w \in At(Ops(n), e).wait} \cup At(Ops(n), e).arrive \subseteq DOMAIN Cnt(n)
      BY <3>2, <3>3 DEF WellFormed
    <3> QED
      BY <2>1, <3>1, <3>2, <3>4
  <2>3. ASSUME NEW l \in loads PROVE slot[Ring(l[1])] = l[1] /\ l[2][4] \in DOMAIN Sems(l[1])
    <3>1. PICK n, x : n = l[1] /\ x = l[2]
      OBVIOUS
    <3>2. n \in Indices /\ x \in Loads(Ops(n)) /\ Active(n) /\ slot[Ring(n)] = n
      BY <1>1, <2>0, <3>1, LoadNow, LoadActive DEF Now
    <3>3. WellFormed(Ops(n), Cnt(n))
      BY <2>0, <3>2, OrderedAt DEF Threading
    <3>4. x[4] \in DOMAIN Cnt(n)
      BY <3>2, <3>3 DEF WellFormed, Loads
    <3> QED
      BY <2>1, <3>1, <3>2, <3>4
  <2> QED
    BY <2>2, <2>3 DEF SemaphoresLive
<1> QED
  BY <1>1, PipeInvTheorem, PTL

(* A thread that reads the output of another instruction finds all of it   *)
(* in global memory (gmem_wait, store_async_wait, atomicAdd).              *)
THEOREM FreshInputsTheorem ==
  ASSUME AllOrdered, BitsTell
  PROVE  Spec => []FreshInputs
<1>1. ASSUME RingInv, PipeInv PROVE FreshInputs
  <2>0. Threading /\ InOrder /\ Phases /\ Stored
    BY <1>1 DEF PipeInv
  <2>1. ASSUME NEW t \in Threads, Passes(t), Step(t).input, After(Index(t)) # None,
               NEW b \in 0 .. Blocks(Inst(After(Index(t)))) - 1
        PROVE  <<After(Index(t)), b>> \in out
    <3>1. PICK n, e : n = Index(t) /\ e = <<t, at[t]>>
      OBVIOUS
    <3>2. Now(n, Taken(e)) /\ e \in Steps(Ops(n)) /\ Step(t) = At(Ops(n), e)
      BY <1>1, <2>0, <2>1, <3>1, StepNow
    <3>3. n \in Indices /\ Bef(n)[Taken(e)] \subseteq Been(n)
      BY <3>2 DEF Now
    <3>4. InputsAwaited(Inst(n), Ops(n), Bef(n))
      BY <2>0, <3>3, OrderedAt DEF Threading
    <3>5. After(n) # None /\ After(n) \in Indices /\ b \in 0 .. Blocks(Inst(After(n))) - 1
      BY <2>1, <3>1, <3>4 DEF InputsAwaited, After
    <3>6. PICK g \in Steps(Ops(n)) : /\ At(Ops(n), g).gmem
                                     /\ Taken(g) \in Bef(n)[Taken(e)] \cup {Taken(e)}
      BY <2>1, <3>2, <3>4, <3>5 DEF InputsAwaited, After
    <3>7. CASE Taken(g) \in Bef(n)[Taken(e)]
      <4>1. Done(n, g)
        BY <3>3, <3>7, DoneIsBeen
      <4> QED
        BY <2>0, <3>1, <3>3, <3>5, <3>6, <4>1 DEF Stored
    <3>8. CASE Taken(g) = Taken(e)
      <4>1. Step(t).gmem
        BY <3>2, <3>6, <3>8, EventFacts
      <4>2. Bar[After(n)] >= Blocks(Inst(After(n)))
        BY <2>1, <3>1, <4>1 DEF Passes
      <4> QED
        BY <2>0, <3>1, <3>3, <3>5, <4>2, AllStored
    <3> QED
      BY <3>6, <3>7, <3>8
  <2> QED
    BY <2>1 DEF FreshInputs
<1> QED
  BY <1>1, PipeInvTheorem, PTL
===============================================================================
