------------------------- MODULE MegaScoreboard_proof -------------------------
(***************************************************************************)
(* Proofs about MegaScoreboard, for every number of SMs and all plans: the *)
(* types, that task_dependency_opt drops no wait that is still needed, that*)
(* every task is drawn and run once, and, for plans whose waits order the  *)
(* tasks that conflict, that no two tasks race and that a launch executes  *)
(* the data-flow graph.                                                    *)
(***************************************************************************)
EXTENDS MegaScoreboard, TLAPS, WellFoundedInduction

(* Places of a queue are numbered up to the number of tasks: with Waits,   *)
(* every place has its entry in task_deps.                                 *)
LEMMA PlaceBound ==
  ASSUME NEW p \in Plans, NEW q \in 0 .. num_sms(p) - 1, NEW k \in Int, InQueue(p, q, k)
  PROVE  k \in 0 .. Len(p.tasks) - 1
<1> DEFINE n == num_sms(p)
           r == IF p.strategy = "round_robin" \/ k % 2 = 0 THEN q ELSE n - 1 - q
<1>1. n \in Nat \ {0}
  BY SizeAssumption, PlansAssumption DEF num_sms
<1>2. r \in Nat
  BY <1>1
<1>3. k \in Nat /\ 1 + k * n + r \in 1 .. Len(p.tasks)
  BY PlansAssumption DEF InQueue, TaskAt, TasksOf
<1>4. k * n >= k
  <2> HIDE DEF n
  <2>1. n - 1 \in Nat
    BY <1>1
  <2>2. k * (n - 1) >= 0
    BY <1>3, <2>1
  <2> QED
    BY <1>1, <1>3, <2>2
<1> HIDE DEF r, n
<1>5. k * n \in Int /\ Len(p.tasks) \in Nat
  BY <1>1, <1>3, PlansAssumption
<1> QED
  BY <1>2, <1>3, <1>4, <1>5

(* What an SM has to wait for, at a place of its queue.                    *)
LEMMA PlaceWaits ==
  ASSUME NEW p \in Plans, NEW q \in 0 .. num_sms(p) - 1, NEW k \in Int, InQueue(p, q, k)
  PROVE  Waits(p)[q][k] = UNION {WaitEntries(p, dep) : dep \in Kept(p, q, k)}
<1>1. k \in {i \in 0 .. Len(p.tasks) - 1 : InQueue(p, q, i)}
  BY PlaceBound
<1> QED
  BY <1>1 DEF Waits

(* A range that covers another one waits for all its tiles.                *)
LEMMA CoverWaits ==
  ASSUME NEW p \in Plans,
         NEW e \in [layer : Int, id : Int, start : Int, end : Int],
         NEW d \in [layer : Int, id : Int, start : Int, end : Int],
         Covers(e, d)
  PROVE  WaitEntries(p, d) \subseteq WaitEntries(p, e)
<1>1. \A tile \in d.start .. d.end - 1 : tile \in e.start .. e.end - 1
  BY DEF Covers
<1> QED
  BY <1>1 DEF Covers, WaitEntries

LEMMA ElementType ==
  ASSUME NEW S, NEW d \in Seq(S), NEW i \in DOMAIN d
  PROVE  d[i] \in S /\ DOMAIN d \subseteq Nat
OBVIOUS

LEMMA DependencyType ==
  ASSUME NEW p \in Plans, NEW q, NEW k, InQueue(p, q, k)
  PROVE  /\ Dependency(p, q, k) \in Seq([layer : Int, id : Int, start : Int, end : Int])
         /\ DOMAIN Dependency(p, q, k) \subseteq Nat
<1>1. Dependency(p, q, k) \in Seq([layer : Int, id : Int, start : Int, end : Int])
  BY PlansAssumption DEF InQueue, TasksOf, Dependency
<1> QED
  BY <1>1

(* The heart of the argument.  Signals that satisfy the waits of all       *)
(* earlier places and the kept waits of this place satisfy the dropped     *)
(* ones as well: the first that was not satisfied would be covered by an   *)
(* earlier one, at an earlier place or at this one.                        *)
Satisfied(p, q, k, set) ==
    \A j \in DOMAIN Dependency(p, q, k) : WaitEntries(p, Dependency(p, q, k)[j]) \subseteq set

LEMMA NothingNeededIsDropped ==
  ASSUME NEW p \in Plans, NEW q \in 0 .. num_sms(p) - 1, NEW k \in Int, InQueue(p, q, k),
         NEW set,
         \A k2 \in 0 .. k - 1 : InQueue(p, q, k2) /\ Satisfied(p, q, k2, set),
         Waits(p)[q][k] \subseteq set
  PROVE  Satisfied(p, q, k, set)
<1> DEFINE D == Dependency(p, q, k)
           Bad == {j \in DOMAIN D : ~(WaitEntries(p, D[j]) \subseteq set)}
<1> SUFFICES ASSUME Bad # {} PROVE FALSE
  BY DEF Satisfied
<1>1. D \in Seq([layer : Int, id : Int, start : Int, end : Int]) /\ DOMAIN D \subseteq Nat
  BY DependencyType
<1>2. PICK j \in Bad : \A i \in Bad : ~(i < j)
  <2>1. Bad \subseteq Nat
    BY <1>1
  <2>2. \E x \in Bad : \A y \in Bad : ~(<<y, x>> \in OpToRel(<, Nat))
    BY <2>1, NatLessThanWellFounded, WFMin
  <2> QED
    BY <2>1, <2>2 DEF OpToRel
<1>3. D[j] \notin Kept(p, q, k)
  BY PlaceWaits
<1>4. CoveredByPreTask(p, q, k, j)
  BY <1>3 DEF Kept
<1>5. PICK k2 \in 0 .. k : \E j2 \in DOMAIN Dependency(p, q, k2) :
          (k2 < k \/ j2 < j) /\ Covers(Dependency(p, q, k2)[j2], D[j])
  BY <1>4 DEF CoveredByPreTask
<1>6. PICK j2 \in DOMAIN Dependency(p, q, k2) :
          (k2 < k \/ j2 < j) /\ Covers(Dependency(p, q, k2)[j2], D[j])
  BY <1>5
<1>7. k \in Int /\ k2 \in Int /\ (k2 \in 0 .. k - 1 \/ k2 = k)
  OBVIOUS
<1>8. InQueue(p, q, k2)
  BY <1>7
<1>9. WaitEntries(p, D[j]) \subseteq WaitEntries(p, Dependency(p, q, k2)[j2])
  <2>1. /\ Dependency(p, q, k2)[j2] \in [layer : Int, id : Int, start : Int, end : Int]
        /\ D[j] \in [layer : Int, id : Int, start : Int, end : Int]
    <3>1. Dependency(p, q, k2) \in Seq([layer : Int, id : Int, start : Int, end : Int])
      BY <1>8, DependencyType
    <3>2. D[j] \in [layer : Int, id : Int, start : Int, end : Int]
      BY <1>1, <1>2, ElementType
    <3> QED
      BY <1>6, <3>1, <3>2, ElementType
  <2> QED
    BY <2>1, <1>6, CoverWaits
<1>10. CASE k2 \in 0 .. k - 1
  <2>1. WaitEntries(p, Dependency(p, q, k2)[j2]) \subseteq set
    BY <1>10 DEF Satisfied
  <2> QED
    BY <2>1, <1>9
<1>11. CASE k2 = k
  <2>1. j2 < j /\ j2 \in DOMAIN D
    BY <1>6, <1>7, <1>11
  <2>2. j2 \notin Bad
    BY <2>1, <1>2
  <2>3. WaitEntries(p, D[j2]) \subseteq set
    BY <2>1, <2>2
  <2> QED
    BY <2>3, <1>9, <1>11
<1> QED
  BY <1>7, <1>10, <1>11

------------------------------------------------------------------------------
(* The plan and what the host made of it never change.                     *)
ModelOK == /\ plan \in Plans
           /\ task_deps = Waits(plan)
           /\ task_scoreboard_start = Signals(plan)

LEMMA InitType == Init => TypeOK /\ ModelOK
<1> SUFFICES ASSUME Init PROVE TypeOK /\ ModelOK
  OBVIOUS
<1>1. ModelOK
  BY DEF Init, ModelOK
<1>2. /\ launch \in 0 .. MaxLaunches /\ running = FALSE /\ board = {} /\ ran = {}
      /\ work_queue_start \in Nat
      /\ cur_task_idx \in [SMs -> Int] /\ nxt_task_idx \in [SMs -> Int]
  BY SizeAssumption DEF Init
<1>3. pc \in [SMs -> {"exit"}]
  BY DEF Init
<1> QED
  BY <1>1, <1>2, <1>3 DEF TypeOK

LEMMA QueueType == ASSUME plan \in Plans, NEW s \in SMs PROVE Queue(s) \in 0 .. num_sms(plan) - 1
BY SizeAssumption, PlansAssumption DEF Queue, num_sms, SMs

LEMMA StepType == TypeOK /\ ModelOK /\ [Next]_vars => (TypeOK /\ ModelOK)'
<1> SUFFICES ASSUME TypeOK, ModelOK, [Next]_vars PROVE TypeOK' /\ ModelOK'
  OBVIOUS
<1> USE SizeAssumption
<1>1. ModelOK'
  BY DEF Next, Launch, ZeroScoreboard, Rest, Step, Claim, Prefetch, WaitDeps, ReleaseTile,
         ModelOK, model, vars
<1>2. CASE Launch
  BY <1>1, <1>2 DEF Launch, TypeOK, model, InQueue, Queue, TaskAt, TasksOf, Tasks, num_sms
<1>3. CASE ZeroScoreboard
  BY <1>1, <1>3 DEF ZeroScoreboard, TypeOK, model, smvars, Tasks, Queue
<1>4. CASE Rest \/ UNCHANGED vars
  BY <1>1, <1>4 DEF Rest, TypeOK, vars, model, smvars, Tasks, Queue
<1>5. ASSUME NEW s \in SMs, Step(s) PROVE TypeOK'
  <2>1. NextIndex(s) \in Int /\ (Draw => work_queue_start' \in Nat)
    BY DEF NextIndex, Draw, TypeOK
  <2>2. CASE Claim(s)
    <3>1. /\ pc' = [pc EXCEPT ![s] = pc'[s]]
          /\ pc'[s] \in {"exit", "prefetch", "wait"}
          /\ pc'[s] # "exit" => InQueue(plan, Queue(s), cur_task_idx'[s])
          /\ cur_task_idx' = [cur_task_idx EXCEPT ![s] = NextIndex(s)]
      BY <2>2 DEF Claim, GoOn, TypeOK
    <3>2. UNCHANGED <<plan, task_scoreboard_start, launch, running, board, nxt_task_idx, ran>>
      BY <2>2 DEF Claim, model
    <3>3. running
      BY <2>2 DEF Claim, TypeOK
    <3> QED
      BY <2>1, <2>2, <3>1, <3>2, <3>3 DEF Claim, TypeOK, Tasks, Queue
  <2>3. CASE Prefetch(s)
    BY <2>1, <2>3 DEF Prefetch, TypeOK, model, Tasks, Queue
  <2>4. CASE WaitDeps(s)
    <3>1. Current(s) \in Tasks
      BY <2>4 DEF WaitDeps, TypeOK, Current, InQueue, Tasks
    <3> QED
      BY <2>4, <3>1 DEF WaitDeps, TypeOK, model, Tasks, Queue
  <2>5. CASE ReleaseTile(s)
    <3>1. Current(s) \in Tasks
      BY <2>5 DEF ReleaseTile, TypeOK, Current, InQueue, Tasks
    <3>2. board' \subseteq {task_scoreboard_start[t] : t \in Tasks}
      BY <2>5, <3>1 DEF ReleaseTile, TypeOK
    <3>3. /\ pc' = [pc EXCEPT ![s] = pc'[s]]
          /\ pc'[s] \in {"claim", "exit", "prefetch", "wait"}
          /\ pc'[s] \in {"prefetch", "wait"} => InQueue(plan, Queue(s), cur_task_idx'[s])
          /\ cur_task_idx' = [cur_task_idx EXCEPT ![s] = cur_task_idx'[s]]
          /\ cur_task_idx'[s] \in Int
      BY <2>5 DEF ReleaseTile, GoOn, TypeOK
    <3>4. UNCHANGED <<plan, task_scoreboard_start, launch, running, work_queue_start,
                      nxt_task_idx, ran>>
      BY <2>5 DEF ReleaseTile, model
    <3>5. running
      BY <2>5 DEF ReleaseTile, TypeOK
    <3> QED
      BY <3>2, <3>3, <3>4, <3>5 DEF TypeOK, Tasks, Queue
  <2> QED
    BY <1>5, <2>2, <2>3, <2>4, <2>5 DEF Step
<1> QED
  BY <1>1, <1>2, <1>3, <1>4, <1>5 DEF Next

(* Types: in particular, an SM that works on a task has found it in its    *)
(* queue, and only signals of tasks of the plan are ever set.              *)
THEOREM TypeCorrect == Spec => []TypeOK
<1> QED
  BY InitType, StepType, PTL DEF Spec

------------------------------------------------------------------------------
(* How many places of its queue an SM has waited at.                       *)
WaitsDone(s) == IF pc[s] \in {"claim", "run"} THEN cur_task_idx[s] + 1 ELSE cur_task_idx[s]

(* Without the runtime scheduler an SM goes through its queue place by     *)
(* place, so the signals of all earlier waits are still there.             *)
PastSatisfied ==
    ~plan.runtime => \A s \in SMs : pc[s] # "exit" =>
        \A k \in 0 .. WaitsDone(s) - 1 : InQueue(plan, s, k) /\ Satisfied(plan, s, k, board)

NextIsAhead ==
    ~plan.runtime /\ plan.prefetch => \A s \in SMs :
        pc[s] \in {"wait", "run"} => nxt_task_idx[s] = cur_task_idx[s] + 1

DepsInv == PastSatisfied /\ NextIsAhead /\ DepsHeld

Typed == TypeOK /\ ModelOK

LEMMA InitDeps == Init => DepsInv
BY DEF Init, DepsInv, PastSatisfied, NextIsAhead, DepsHeld

LEMMA LaunchDeps == Typed /\ DepsInv /\ Launch => DepsInv'
<1> SUFFICES ASSUME Typed, Launch PROVE DepsInv'
  OBVIOUS
<1>1. \A s \in SMs : pc'[s] = "claim" /\ cur_task_idx'[s] = -1
  BY DEF Launch
<1>2. \A s \in SMs : WaitsDone(s)' = 0
  BY <1>1 DEF WaitsDone
<1> QED
  BY <1>1, <1>2 DEF DepsInv, PastSatisfied, NextIsAhead, DepsHeld

LEMMA ZeroDeps == Typed /\ DepsInv /\ ZeroScoreboard => DepsInv'
BY DEF ZeroScoreboard, smvars, DepsInv, PastSatisfied, NextIsAhead, DepsHeld

LEMMA StutterDeps == Typed /\ DepsInv /\ (Rest \/ UNCHANGED vars) => DepsInv'
<1> SUFFICES ASSUME DepsInv, UNCHANGED vars PROVE DepsInv'
  BY DEF Rest
<1>1. /\ plan' = plan /\ pc' = pc /\ cur_task_idx' = cur_task_idx
      /\ nxt_task_idx' = nxt_task_idx /\ board' = board
  BY DEF vars, model, smvars
<1> QED
  BY <1>1 DEF DepsInv, PastSatisfied, NextIsAhead, DepsHeld, WaitsDone, Satisfied, Queue

(* A step of an SM that adds no place to those it has waited at.           *)
LEMMA NoNewPlace ==
  ASSUME Typed, DepsInv, NEW s \in SMs,
         UNCHANGED <<plan>>, board \subseteq board',
         pc' = [pc EXCEPT ![s] = pc'[s]], pc[s] # "exit", pc'[s] # "run",
         cur_task_idx' = [cur_task_idx EXCEPT ![s] = cur_task_idx'[s]],
         ~plan.runtime /\ pc'[s] # "exit" => WaitsDone(s)' = WaitsDone(s)
  PROVE  PastSatisfied' /\ DepsHeld'
<1>1. \A s1 \in SMs \ {s} : pc'[s1] = pc[s1] /\ cur_task_idx'[s1] = cur_task_idx[s1]
                             /\ WaitsDone(s1)' = WaitsDone(s1)
  BY DEF Typed, TypeOK, WaitsDone
<1>2. ASSUME NEW q, NEW k, Satisfied(plan, q, k, board) PROVE Satisfied(plan, q, k, board')
  BY <1>2 DEF Satisfied
<1>3. PastSatisfied'
  <2> SUFFICES ASSUME ~plan.runtime, NEW s1 \in SMs, pc'[s1] # "exit",
                      NEW k \in 0 .. WaitsDone(s1)' - 1
               PROVE  InQueue(plan, s1, k) /\ Satisfied(plan, s1, k, board')
    BY DEF PastSatisfied, Satisfied, InQueue, TaskAt, TasksOf, num_sms, Dependency
  <2>1. pc[s1] # "exit" /\ WaitsDone(s1)' = WaitsDone(s1)
    BY <1>1
  <2>2. InQueue(plan, s1, k) /\ Satisfied(plan, s1, k, board)
    BY <2>1 DEF DepsInv, PastSatisfied
  <2> QED
    BY <2>2, <1>2
<1>4. DepsHeld'
  <2> SUFFICES ASSUME NEW s1 \in SMs, pc'[s1] = "run"
               PROVE  Satisfied(plan, Queue(s1), cur_task_idx'[s1], board')
    BY DEF DepsHeld, Satisfied, Queue
  <2>1. s1 # s
    OBVIOUS
  <2>2. Satisfied(plan, Queue(s1), cur_task_idx[s1], board)
    BY <1>1, <2>1 DEF DepsInv, DepsHeld, Satisfied
  <2> QED
    BY <1>1, <1>2, <2>1, <2>2
<1> QED
  BY <1>3, <1>4

LEMMA ClaimDeps == ASSUME Typed, DepsInv, NEW s \in SMs, Claim(s) PROVE DepsInv'
<1>1. /\ pc[s] = "claim" /\ plan' = plan /\ board' = board /\ nxt_task_idx' = nxt_task_idx
      /\ pc' = [pc EXCEPT ![s] = pc'[s]]
      /\ pc'[s] \in {"exit", "prefetch", "wait"} /\ (plan.prefetch => pc'[s] # "wait")
      /\ cur_task_idx' = [cur_task_idx EXCEPT ![s] = NextIndex(s)]
  BY DEF Claim, GoOn, model, Typed, TypeOK
<1>2. ~plan.runtime => NextIndex(s) = cur_task_idx[s] + 1
  BY DEF NextIndex
<1>3. /\ cur_task_idx' = [cur_task_idx EXCEPT ![s] = cur_task_idx'[s]]
      /\ cur_task_idx'[s] = NextIndex(s)
  BY <1>1 DEF Typed, TypeOK
<1>4. ~plan.runtime => WaitsDone(s)' = WaitsDone(s)
  BY <1>1, <1>2, <1>3 DEF WaitsDone
<1>5. PastSatisfied' /\ DepsHeld'
  BY <1>1, <1>3, <1>4, NoNewPlace
<1>6. NextIsAhead'
  BY <1>1, <1>3 DEF NextIsAhead, DepsInv, Typed, TypeOK
<1> QED
  BY <1>5, <1>6 DEF DepsInv

LEMMA PrefetchDeps == ASSUME Typed, DepsInv, NEW s \in SMs, Prefetch(s) PROVE DepsInv'
<1>1. /\ pc[s] = "prefetch" /\ plan' = plan /\ board' = board
      /\ pc' = [pc EXCEPT ![s] = "wait"] /\ pc'[s] = "wait"
      /\ cur_task_idx' = cur_task_idx
      /\ nxt_task_idx' = [nxt_task_idx EXCEPT ![s] = NextIndex(s)]
  BY DEF Prefetch, model, Typed, TypeOK
<1>2. ~plan.runtime => NextIndex(s) = cur_task_idx[s] + 1
  BY DEF NextIndex
<1>3. WaitsDone(s)' = WaitsDone(s) /\ cur_task_idx' = [cur_task_idx EXCEPT ![s] = cur_task_idx'[s]]
  BY <1>1 DEF WaitsDone, Typed, TypeOK
<1>4. PastSatisfied' /\ DepsHeld'
  BY <1>1, <1>3, NoNewPlace
<1>5. NextIsAhead'
  BY <1>1, <1>2 DEF NextIsAhead, DepsInv, Typed, TypeOK
<1> QED
  BY <1>4, <1>5 DEF DepsInv

LEMMA ReleaseDeps == ASSUME Typed, DepsInv, NEW s \in SMs, ReleaseTile(s) PROVE DepsInv'
<1>1. /\ pc[s] = "run" /\ plan' = plan /\ board \subseteq board' /\ nxt_task_idx' = nxt_task_idx
      /\ pc' = [pc EXCEPT ![s] = pc'[s]]
      /\ pc'[s] \in {"exit", "prefetch", "wait", "claim"}
      /\ plan.prefetch => pc'[s] \in {"exit", "prefetch"}
      /\ ~plan.prefetch => pc'[s] = "claim"
      /\ cur_task_idx' = [cur_task_idx EXCEPT ![s] = cur_task_idx'[s]]
      /\ cur_task_idx'[s] = IF plan.prefetch THEN nxt_task_idx[s] ELSE cur_task_idx[s]
  BY DEF ReleaseTile, GoOn, model, Typed, TypeOK
<1>2. ~plan.runtime /\ plan.prefetch => cur_task_idx'[s] = cur_task_idx[s] + 1
  BY <1>1 DEF DepsInv, NextIsAhead
<1>3. ~plan.runtime /\ pc'[s] # "exit" => WaitsDone(s)' = WaitsDone(s)
  BY <1>1, <1>2, PlansAssumption DEF WaitsDone, Typed, ModelOK
<1>4. PastSatisfied' /\ DepsHeld'
  BY <1>1, <1>3, NoNewPlace
<1>5. NextIsAhead'
  BY <1>1 DEF NextIsAhead, DepsInv, Typed, TypeOK
<1> QED
  BY <1>4, <1>5 DEF DepsInv

(* The one step that adds a place: for it, what was dropped must have been *)
(* covered.                                                                *)
LEMMA WaitDepsDeps == ASSUME Typed, DepsInv, NEW s \in SMs, WaitDeps(s) PROVE DepsInv'
<1> DEFINE c == cur_task_idx[s]
<1>1. /\ pc[s] = "wait" /\ plan' = plan /\ board' = board /\ nxt_task_idx' = nxt_task_idx
      /\ pc' = [pc EXCEPT ![s] = "run"] /\ pc'[s] = "run" /\ cur_task_idx' = cur_task_idx
      /\ task_deps[Queue(s)][c] \subseteq board
  BY DEF WaitDeps, model, Typed, TypeOK
<1>2. /\ plan \in Plans /\ Queue(s) \in 0 .. num_sms(plan) - 1 /\ c \in Int
      /\ InQueue(plan, Queue(s), c)
  BY <1>1, QueueType DEF Typed, TypeOK, ModelOK
<1>3. Waits(plan)[Queue(s)][c] \subseteq board
  BY <1>1 DEF Typed, ModelOK
<1>4. Satisfied(plan, Queue(s), c, board)
  <2>1. CASE plan.runtime
    <3>1. Kept(plan, Queue(s), c) = {Dependency(plan, Queue(s), c)[j] : j \in DOMAIN Dependency(plan, Queue(s), c)}
      BY <2>1 DEF Kept, enable_dependency_opt
    <3> QED
      BY <1>2, <1>3, <3>1, PlaceWaits DEF Satisfied
  <2>2. CASE ~plan.runtime
    <3>1. Queue(s) = s /\ WaitsDone(s) = c
      BY <1>1, <2>2 DEF Queue, WaitsDone
    <3>2. \A k2 \in 0 .. c - 1 : InQueue(plan, Queue(s), k2) /\ Satisfied(plan, Queue(s), k2, board)
      BY <1>1, <2>2, <3>1 DEF DepsInv, PastSatisfied
    <3> QED
      BY <1>2, <1>3, <3>2, NothingNeededIsDropped
  <2> QED
    BY <2>1, <2>2
<1>5. PastSatisfied'
  <2> SUFFICES ASSUME ~plan.runtime, NEW s1 \in SMs, pc'[s1] # "exit",
                      NEW k \in 0 .. WaitsDone(s1)' - 1
               PROVE  InQueue(plan, s1, k) /\ Satisfied(plan, s1, k, board)
    BY <1>1 DEF PastSatisfied
  <2>1. CASE s1 = s
    <3>1. WaitsDone(s)' = c + 1 /\ WaitsDone(s) = c /\ Queue(s) = s
      BY <1>1 DEF WaitsDone, Queue
    <3>2. k \in 0 .. c - 1 \/ k = c
      BY <1>2, <2>1, <3>1
    <3> QED
      BY <1>1, <1>2, <1>4, <2>1, <3>1, <3>2 DEF DepsInv, PastSatisfied
  <2>2. CASE s1 # s
    <3>1. pc[s1] = pc'[s1] /\ WaitsDone(s1)' = WaitsDone(s1)
      BY <1>1, <2>2 DEF WaitsDone, Typed, TypeOK
    <3> QED
      BY <3>1 DEF DepsInv, PastSatisfied
  <2> QED
    BY <2>1, <2>2
<1>6. DepsHeld'
  <2> SUFFICES ASSUME NEW s1 \in SMs, pc'[s1] = "run"
               PROVE  Satisfied(plan, Queue(s1), cur_task_idx[s1], board)
    BY <1>1 DEF DepsHeld, Satisfied, Queue
  <2>1. s1 # s => pc[s1] = "run"
    BY <1>1 DEF Typed, TypeOK
  <2> QED
    BY <1>4, <2>1 DEF DepsInv, DepsHeld, Satisfied
<1>7. NextIsAhead'
  BY <1>1 DEF NextIsAhead, DepsInv, Typed, TypeOK
<1> QED
  BY <1>5, <1>6, <1>7 DEF DepsInv

(* Whatever the model, the number of SMs, the strategy and the scheduling, *)
(* a task runs only when every wait that the graph gave it is over: the    *)
(* waits task_dependency_opt has dropped are implied by those it has kept. *)
THEOREM DroppedWaitsHeld == Spec => []DepsHeld
<1>1. Init => Typed /\ DepsInv
  BY InitType, InitDeps DEF Typed
<1>2. Typed /\ DepsInv /\ [Next]_vars => (Typed /\ DepsInv)'
  BY StepType, LaunchDeps, ZeroDeps, StutterDeps, ClaimDeps, PrefetchDeps, WaitDepsDeps,
     ReleaseDeps DEF Next, Step, Typed
<1>3. DepsInv => DepsHeld
  BY DEF DepsInv
<1> QED
  BY <1>1, <1>2, <1>3, PTL DEF Spec

------------------------------------------------------------------------------
(* The position in its round of the k-th task of a queue.                  *)
InRound(p, q, k) == IF p.strategy = "round_robin" \/ k % 2 = 0 THEN q ELSE num_sms(p) - 1 - q

LEMMA SameRound ==
  ASSUME NEW n \in Nat \ {0}, NEW k1 \in Nat, NEW k2 \in Nat,
         NEW r1 \in 0 .. n - 1, NEW r2 \in 0 .. n - 1, k1 * n + r1 = k2 * n + r2
  PROVE  k1 = k2 /\ r1 = r2
<1>1. ASSUME NEW a \in Nat, NEW b \in Nat, a < b PROVE b * n >= a * n + n
  <2>1. b - a - 1 \in Nat
    BY <1>1
  <2>2. (b - a - 1) * n >= 0
    BY <2>1
  <2>3. (b - a - 1) * n = b * n - a * n - n
    BY <2>1
  <2> QED
    BY <2>2, <2>3
<1>2. ~(k1 < k2) /\ ~(k2 < k1)
  <2>1. k1 * n \in Int /\ k2 * n \in Int
    OBVIOUS
  <2>2. CASE k1 < k2
    BY <2>1, <2>2, <1>1
  <2>3. CASE k2 < k1
    BY <2>1, <2>3, <1>1
  <2> QED
    BY <2>2, <2>3
<1>3. k1 = k2
  BY <1>2
<1> QED
  BY <1>3

(* The tasks are dealt out: every task of a plan has one place, in one     *)
(* queue, whatever the strategy and the number of SMs.                     *)
THEOREM DealtOnce ==
  ASSUME NEW p \in Plans, NEW t \in TasksOf(p)
  PROVE  /\ \E q \in 0 .. num_sms(p) - 1, k \in Nat : InQueue(p, q, k) /\ TaskAt(p, q, k) = t
         /\ \A q1, q2 \in 0 .. num_sms(p) - 1, k1, k2 \in Nat :
                TaskAt(p, q1, k1) = t /\ TaskAt(p, q2, k2) = t => q1 = q2 /\ k1 = k2
<1> DEFINE n == num_sms(p)
<1>1. n \in Nat \ {0} /\ t \in Nat \ {0}
  BY SizeAssumption, PlansAssumption DEF num_sms, TasksOf
<1>2. \A q \in 0 .. n - 1, k \in Nat :
          InRound(p, q, k) \in 0 .. n - 1 /\ TaskAt(p, q, k) = 1 + k * n + InRound(p, q, k)
  BY <1>1 DEF InRound, TaskAt
<1>3. \E q \in 0 .. n - 1, k \in Nat : InQueue(p, q, k) /\ TaskAt(p, q, k) = t
  <2> DEFINE k == (t - 1) \div n
             r == (t - 1) % n
             q == IF p.strategy = "round_robin" \/ k % 2 = 0 THEN r ELSE n - 1 - r
  <2> HIDE DEF n
  <2>1. k \in Nat /\ r \in 0 .. n - 1 /\ t - 1 = k * n + r
    <3>1. t - 1 \in Nat
      BY <1>1
    <3> QED
      BY <1>1, <3>1
  <2> HIDE DEF k, r
  <2>2. q \in 0 .. n - 1
    BY <2>1, <1>1
  <2>3. InRound(p, q, k) = r
    BY <2>1, <1>1 DEF InRound, n
  <2>4. TaskAt(p, q, k) = t
    <3>1. TaskAt(p, q, k) = 1 + k * n + r
      BY <1>2, <2>1, <2>2, <2>3
    <3>2. k * n \in Int
      BY <1>1, <2>1
    <3> QED
      BY <1>1, <2>1, <3>1, <3>2
  <2> QED
    BY <2>1, <2>2, <2>4 DEF InQueue
<1>4. ASSUME NEW q1 \in 0 .. n - 1, NEW q2 \in 0 .. n - 1, NEW k1 \in Nat, NEW k2 \in Nat,
             TaskAt(p, q1, k1) = t, TaskAt(p, q2, k2) = t
      PROVE  q1 = q2 /\ k1 = k2
  <2> HIDE DEF n
  <2>1. k1 = k2 /\ InRound(p, q1, k1) = InRound(p, q2, k2)
    <3> DEFINE r1 == InRound(p, q1, k1)
               r2 == InRound(p, q2, k2)
    <3>1. r1 \in 0 .. n - 1 /\ r2 \in 0 .. n - 1
      BY <1>2
    <3>2. 1 + k1 * n + r1 = 1 + k2 * n + r2
      BY <1>2, <1>4
    <3>3. k1 * n \in Int /\ k2 * n \in Int /\ r1 \in Int /\ r2 \in Int
      BY <1>1, <3>1
    <3> HIDE DEF r1, r2
    <3>4. k1 * n + r1 = k2 * n + r2
      BY <1>1, <3>2, <3>3
    <3>5. k1 = k2 /\ r1 = r2
      BY <1>1, <3>1, <3>4, SameRound
    <3> QED
      BY <3>5 DEF r1, r2
  <2> QED
    BY <2>1, <1>1 DEF InRound, n
<1> QED
  BY <1>3, <1>4

------------------------------------------------------------------------------
(* The index of the next place of its queue that nobody has drawn.         *)
Drawn(s) ==
    IF plan.runtime THEN work_queue_start
    ELSE IF plan.prefetch /\ pc[s] \in {"wait", "run"} THEN nxt_task_idx[s] + 1
    ELSE cur_task_idx[s] + 1

(* The places an SM has drawn and not run yet.                             *)
Held(s) ==
    {k \in Int : \/ pc[s] \in {"prefetch", "wait"} /\ k = cur_task_idx[s]
                 \/ plan.prefetch /\ pc[s] \in {"wait", "run"} /\ k = nxt_task_idx[s]}

(* What an SM holds has been drawn from its queue.                         *)
HeldDrawn == \A s \in SMs : Drawn(s) \in Nat /\ Held(s) \subseteq 0 .. Drawn(s) - 1

(* No place is held by two SMs, ...                                        *)
NobodyShares ==
    \A s1, s2 \in SMs : s1 # s2 /\ Queue(s1) = Queue(s2) => Held(s1) \cap Held(s2) = {}

(* ... and a task is not prefetched twice by the same SM.                  *)
TwoPlaces ==
    \A s \in SMs : plan.prefetch /\ pc[s] = "wait" => cur_task_idx[s] # nxt_task_idx[s]

(* The task of a place that is held has not begun.                         *)
HeldNotRun ==
    \A s \in SMs : \A k \in Held(s) :
        InQueue(plan, Queue(s), k) => TaskAt(plan, Queue(s), k) \notin ran

(* The task of a place that was drawn has begun or is held by somebody.    *)
DrawnNotLost ==
    \A s \in SMs : \A k \in 0 .. Drawn(s) - 1 : InQueue(plan, Queue(s), k) =>
        \/ TaskAt(plan, Queue(s), k) \in ran
        \/ \E s2 \in SMs : Queue(s2) = Queue(s) /\ k \in Held(s2)

(* Only tasks whose place was drawn have begun.                            *)
RunDrawn ==
    \A s \in SMs : \A k \in Nat :
        InQueue(plan, Queue(s), k) /\ TaskAt(plan, Queue(s), k) \in ran => k < Drawn(s)

(* The tasks that are being run have begun, each on one SM.                *)
RunApart ==
    /\ \A s \in SMs : pc[s] = "run" => Current(s) \in ran
    /\ \A s1, s2 \in SMs : s1 # s2 /\ pc[s1] = "run" /\ pc[s2] = "run" => Current(s1) # Current(s2)

(* An SM gives up at a place that its queue does not have, works only      *)
(* during a launch, and prefetches only if that was asked for.             *)
Exhausted ==
    /\ \A s \in SMs : pc[s] = "exit" /\ launch > 0 =>
           cur_task_idx[s] \in 0 .. Drawn(s) - 1 /\ ~InQueue(plan, Queue(s), cur_task_idx[s])
    /\ \A s \in SMs : pc[s] # "exit" => launch > 0
    /\ \A s \in SMs : pc[s] = "prefetch" => plan.prefetch

Places == HeldDrawn /\ HeldNotRun /\ DrawnNotLost /\ RunDrawn

(* Together: every place is drawn once, and its task begins once.          *)
DealInv == Places /\ NobodyShares /\ TwoPlaces /\ RunApart /\ Exhausted

(* Signals are those of tasks that are done.                               *)
SignalsOfDone ==
    \A x \in board : \E u \in ran \ Busy : plan.tasks[u].releases /\ task_scoreboard_start[u] = x

(* A task that has begun waited for tasks that are done.                   *)
WaitsOver == \A e \in Awaited(plan) : e[2] \in ran => e[1] \in ran \ Busy

OrderInv == SignalsOfDone /\ WaitsOver

LEMMA SameQueue ==
  ASSUME NEW s1 \in SMs, NEW s2 \in SMs, Queue(s1) = Queue(s2)
  PROVE  Drawn(s1) = Drawn(s2) /\ (s1 # s2 => plan.runtime)
BY DEF Queue, Drawn

(* A place is in one queue, and places before it are there as well.        *)
LEMMA OnePlace ==
  ASSUME plan \in Plans, NEW s1 \in SMs, NEW s2 \in SMs, NEW k1 \in Nat, NEW k2 \in Nat,
         InQueue(plan, Queue(s1), k1), TaskAt(plan, Queue(s1), k1) = TaskAt(plan, Queue(s2), k2)
  PROVE  Queue(s1) = Queue(s2) /\ k1 = k2
<1>1. Queue(s1) \in 0 .. num_sms(plan) - 1 /\ Queue(s2) \in 0 .. num_sms(plan) - 1
  BY QueueType
<1>2. TaskAt(plan, Queue(s1), k1) \in TasksOf(plan)
  BY DEF InQueue
<1> QED
  BY <1>1, <1>2, DealtOnce

LEMMA NoGaps ==
  ASSUME NEW p \in Plans, NEW q \in 0 .. num_sms(p) - 1, NEW k \in Nat, NEW k2 \in 0 .. k,
         InQueue(p, q, k)
  PROVE  InQueue(p, q, k2)
<1> DEFINE n == num_sms(p)
           r == InRound(p, q, k)
           r2 == InRound(p, q, k2)
           N == Len(p.tasks)
<1>1. n \in Nat \ {0} /\ N \in Nat /\ TasksOf(p) = 1 .. N
  BY SizeAssumption, PlansAssumption DEF num_sms, TasksOf
<1>2. r \in 0 .. n - 1 /\ r2 \in 0 .. n - 1
  BY <1>1 DEF InRound
<1>3. TaskAt(p, q, k) = 1 + k * n + r /\ TaskAt(p, q, k2) = 1 + k2 * n + r2
  BY DEF TaskAt, InRound
<1>4. 1 + k * n + r <= N
  BY <1>1, <1>3 DEF InQueue
<1> HIDE DEF n, r, r2, N
<1>5. CASE k2 = k
  BY <1>5
<1>6. CASE k2 < k
  <2>1. k - k2 - 1 \in Nat
    BY <1>6
  <2>2. (k - k2 - 1) * n >= 0
    BY <2>1, <1>1
  <2>3. (k - k2 - 1) * n = k * n - k2 * n - n
    BY <2>1, <1>1
  <2>4. k * n \in Int /\ k2 * n \in Nat
    BY <1>1
  <2>5. 1 + k2 * n + r2 \in 1 .. N
    BY <1>1, <1>2, <1>4, <2>2, <2>3, <2>4
  <2> QED
    BY <2>5, <1>1, <1>3 DEF InQueue
<1> QED
  BY <1>5, <1>6

------------------------------------------------------------------------------
(* An SM draws the next place of its queue, and keeps it if the queue has  *)
(* that place.                                                             *)
LEMMA DrawOne ==
  ASSUME Typed, Places, NobodyShares, NEW s \in SMs,
         plan' = plan, ran' = ran,
         \A s2 \in SMs : Drawn(s2)' = IF Queue(s2) = Queue(s) THEN Drawn(s2) + 1 ELSE Drawn(s2),
         \A s2 \in SMs \ {s} : Held(s2)' = Held(s2),
         \/ Held(s)' = Held(s) \cup {Drawn(s)}
         \/ Held(s)' = Held(s) /\ ~InQueue(plan, Queue(s), Drawn(s))
  PROVE  Places' /\ NobodyShares'
<1> DEFINE d == Drawn(s)
<1>1. \A s2 \in SMs : /\ Drawn(s2) \in Nat /\ Held(s2) \subseteq 0 .. Drawn(s2) - 1
                      /\ Drawn(s2)' \in Nat /\ Drawn(s2)' >= Drawn(s2)
                      /\ Held(s2) \subseteq Held(s2)'
                      /\ Queue(s2) = Queue(s) => Drawn(s2) = d /\ Drawn(s2)' = d + 1
                      /\ Queue(s2) # Queue(s) => Drawn(s2)' = Drawn(s2)
  BY SameQueue DEF Places, HeldDrawn
<1>2. \A s2 \in SMs : Queue(s2)' = Queue(s2)
  BY DEF Queue
<1>3. HeldDrawn'
  <2> SUFFICES ASSUME NEW s2 \in SMs PROVE Drawn(s2)' \in Nat /\ Held(s2)' \subseteq 0 .. Drawn(s2)' - 1
    BY DEF HeldDrawn
  <2>1. CASE s2 = s
    BY <2>1, <1>1
  <2>2. CASE s2 # s
    BY <2>2, <1>1
  <2> QED
    BY <2>1, <2>2
<1>4. NobodyShares'
  <2> SUFFICES ASSUME NEW s1 \in SMs, NEW s2 \in SMs, s1 # s2, Queue(s1) = Queue(s2),
                      NEW k, k \in Held(s1)', k \in Held(s2)'
               PROVE  FALSE
    BY <1>2 DEF NobodyShares
  <2>1. (d \notin Held(s1) /\ d \notin Held(s2)) \/ Queue(s1) # Queue(s)
    BY <1>1
  <2>2. CASE s1 = s
    BY <2>1, <2>2, <1>1 DEF NobodyShares
  <2>3. CASE s2 = s
    BY <2>1, <2>3, <1>1 DEF NobodyShares
  <2>4. CASE s1 # s /\ s2 # s
    BY <2>4 DEF NobodyShares
  <2> QED
    BY <2>2, <2>3, <2>4
<1>5. HeldNotRun'
  <2> SUFFICES ASSUME NEW s2 \in SMs, NEW k \in Held(s2)', InQueue(plan, Queue(s2), k)
               PROVE  TaskAt(plan, Queue(s2), k) \notin ran
    BY <1>2 DEF HeldNotRun
  <2>1. CASE k \in Held(s2)
    BY <2>1 DEF Places, HeldNotRun
  <2>2. CASE k \notin Held(s2)
    <3>1. s2 = s /\ k = d /\ d \in Nat
      BY <2>2, <1>1
    <3> QED
      BY <3>1 DEF Places, RunDrawn
  <2> QED
    BY <2>1, <2>2
<1>6. DrawnNotLost'
  <2> SUFFICES ASSUME NEW s2 \in SMs, NEW k \in 0 .. Drawn(s2)' - 1, InQueue(plan, Queue(s2), k)
               PROVE  \/ TaskAt(plan, Queue(s2), k) \in ran
                      \/ \E s3 \in SMs : Queue(s3) = Queue(s2) /\ k \in Held(s3)'
    BY <1>2 DEF DrawnNotLost
  <2>1. CASE k \in 0 .. Drawn(s2) - 1
    BY <2>1, <1>1 DEF Places, DrawnNotLost
  <2>2. CASE k \notin 0 .. Drawn(s2) - 1
    <3>1. Queue(s2) = Queue(s) /\ k = d
      BY <2>2, <1>1
    <3> QED
      BY <3>1
  <2> QED
    BY <2>1, <2>2
<1>7. RunDrawn'
  <2> SUFFICES ASSUME NEW s2 \in SMs, NEW k \in Nat, InQueue(plan, Queue(s2), k),
                      TaskAt(plan, Queue(s2), k) \in ran
               PROVE  k < Drawn(s2)'
    BY <1>2 DEF RunDrawn
  <2>1. k < Drawn(s2)
    BY DEF Places, RunDrawn
  <2> QED
    BY <2>1, <1>1
<1> QED
  BY <1>3, <1>4, <1>5, <1>6, <1>7 DEF Places

(* An SM gives up a place that its queue does not have, or nothing.        *)
LEMMA DropNone ==
  ASSUME Typed, Places, NobodyShares, NEW s \in SMs,
         plan' = plan, ran' = ran,
         \A s2 \in SMs : Drawn(s2)' = Drawn(s2),
         \A s2 \in SMs \ {s} : Held(s2)' = Held(s2),
         Held(s)' \subseteq Held(s),
         \A k \in Held(s) \ Held(s)' : ~InQueue(plan, Queue(s), k)
  PROVE  Places' /\ NobodyShares'
<1>1. \A s2 \in SMs : Queue(s2)' = Queue(s2) /\ Held(s2)' \subseteq Held(s2)
  BY DEF Queue
<1>2. NobodyShares' /\ HeldDrawn' /\ HeldNotRun' /\ RunDrawn'
  <2>1. NobodyShares'
    BY <1>1 DEF NobodyShares
  <2>2. HeldDrawn'
    BY <1>1 DEF Places, HeldDrawn
  <2>3. HeldNotRun'
    BY <1>1 DEF Places, HeldNotRun
  <2>4. RunDrawn'
    BY <1>1 DEF Places, RunDrawn
  <2> QED
    BY <2>1, <2>2, <2>3, <2>4
<1>3. DrawnNotLost'
  <2> SUFFICES ASSUME NEW s2 \in SMs, NEW k \in 0 .. Drawn(s2) - 1, InQueue(plan, Queue(s2), k),
                      TaskAt(plan, Queue(s2), k) \notin ran
               PROVE  \E s3 \in SMs : Queue(s3) = Queue(s2) /\ k \in Held(s3)'
    BY <1>1 DEF DrawnNotLost
  <2>1. PICK s3 \in SMs : Queue(s3) = Queue(s2) /\ k \in Held(s3)
    BY DEF Places, DrawnNotLost
  <2> QED
    BY <2>1
<1> QED
  BY <1>2, <1>3 DEF Places

(* An SM runs the task of a place it holds.                                *)
LEMMA RunHeld ==
  ASSUME Typed, Places, NobodyShares, NEW s \in SMs, NEW c \in Held(s),
         InQueue(plan, Queue(s), c),
         plan' = plan, ran' = ran \cup {TaskAt(plan, Queue(s), c)},
         \A s2 \in SMs : Drawn(s2)' = Drawn(s2),
         \A s2 \in SMs \ {s} : Held(s2)' = Held(s2),
         Held(s)' = Held(s) \ {c}
  PROVE  Places' /\ NobodyShares'
<1>1. \A s2 \in SMs : Queue(s2)' = Queue(s2) /\ Held(s2)' \subseteq Held(s2)
  BY DEF Queue
<1>2. plan \in Plans /\ c \in Nat /\ c < Drawn(s) /\ \A s2 \in SMs : Held(s2) \subseteq Nat
  <2>1. \A s2 \in SMs : Drawn(s2) \in Nat /\ Held(s2) \subseteq 0 .. Drawn(s2) - 1
    BY DEF Places, HeldDrawn
  <2> QED
    BY <2>1 DEF Typed, ModelOK
<1>3. NobodyShares' /\ HeldDrawn'
  <2>1. NobodyShares'
    BY <1>1 DEF NobodyShares
  <2>2. HeldDrawn'
    BY <1>1 DEF Places, HeldDrawn
  <2> QED
    BY <2>1, <2>2
<1>4. HeldNotRun'
  <2> SUFFICES ASSUME NEW s2 \in SMs, NEW k \in Held(s2)', InQueue(plan, Queue(s2), k),
                      TaskAt(plan, Queue(s2), k) \in ran'
               PROVE  FALSE
    BY <1>1 DEF HeldNotRun
  <2>1. k \in Held(s2) /\ k \in Nat
    BY <1>1, <1>2
  <2>2. TaskAt(plan, Queue(s2), k) \notin ran
    BY <2>1 DEF Places, HeldNotRun
  <2>3. Queue(s2) = Queue(s) /\ k = c
    BY <2>1, <2>2, <1>2, OnePlace
  <2> QED
    BY <2>1, <2>3 DEF NobodyShares
<1>5. DrawnNotLost'
  <2> SUFFICES ASSUME NEW s2 \in SMs, NEW k \in 0 .. Drawn(s2) - 1, InQueue(plan, Queue(s2), k),
                      TaskAt(plan, Queue(s2), k) \notin ran'
               PROVE  \E s3 \in SMs : Queue(s3) = Queue(s2) /\ k \in Held(s3)'
    BY <1>1 DEF DrawnNotLost
  <2>1. PICK s3 \in SMs : Queue(s3) = Queue(s2) /\ k \in Held(s3)
    BY DEF Places, DrawnNotLost
  <2>2. ~(s3 = s /\ k = c)
    BY <2>1
  <2> QED
    BY <2>1, <2>2
<1>6. RunDrawn'
  <2> SUFFICES ASSUME NEW s2 \in SMs, NEW k \in Nat, InQueue(plan, Queue(s2), k),
                      TaskAt(plan, Queue(s2), k) \in ran'
               PROVE  k < Drawn(s2)
    BY <1>1 DEF RunDrawn
  <2>1. CASE TaskAt(plan, Queue(s2), k) \in ran
    BY <2>1 DEF Places, RunDrawn
  <2>2. CASE TaskAt(plan, Queue(s2), k) = TaskAt(plan, Queue(s), c)
    <3>1. Queue(s2) = Queue(s) /\ k = c
      BY <2>2, <1>2, OnePlace
    <3> QED
      BY <3>1, <1>2, SameQueue
  <2> QED
    BY <2>1, <2>2
<1> QED
  BY <1>3, <1>4, <1>5, <1>6 DEF Places

------------------------------------------------------------------------------
LEMMA InitDeal == Init => DealInv
<1> SUFFICES ASSUME Init PROVE DealInv
  OBVIOUS
<1>1. \A s \in SMs : pc[s] = "exit" /\ cur_task_idx[s] = -1 /\ launch = 0 /\ ran = {}
                     /\ work_queue_start = 0
  BY DEF Init
<1>2. \A s \in SMs : Drawn(s) = 0 /\ Held(s) = {}
  BY <1>1 DEF Drawn, Held
<1>3. Places /\ NobodyShares
  BY <1>1, <1>2 DEF Places, NobodyShares, HeldDrawn, HeldNotRun, DrawnNotLost, RunDrawn
<1> QED
  BY <1>1, <1>3 DEF DealInv, TwoPlaces, RunApart, Exhausted

LEMMA LaunchDeal == ASSUME Typed, DealInv, Launch PROVE DealInv'
<1>1. /\ \A s \in SMs : pc'[s] = "claim" /\ cur_task_idx'[s] = -1
      /\ plan' = plan /\ launch' = launch + 1 /\ launch \in Nat /\ ran' = {} /\ work_queue_start' = 0
  BY SizeAssumption DEF Launch, model, Typed, TypeOK
<1>2. \A s \in SMs : Drawn(s)' = 0 /\ Held(s)' = {}
  BY <1>1 DEF Drawn, Held
<1>3. Places' /\ NobodyShares'
  BY <1>1, <1>2 DEF Places, NobodyShares, HeldDrawn, HeldNotRun, DrawnNotLost, RunDrawn
<1> QED
  BY <1>1, <1>3 DEF DealInv, TwoPlaces, RunApart, Exhausted

LEMMA SameDeal ==
  ASSUME DealInv, UNCHANGED <<plan, launch, work_queue_start, smvars, ran>>
  PROVE  DealInv'
<1>1. /\ plan' = plan /\ launch' = launch /\ work_queue_start' = work_queue_start /\ pc' = pc
      /\ cur_task_idx' = cur_task_idx /\ nxt_task_idx' = nxt_task_idx /\ ran' = ran
  BY DEF smvars
<1>2. \A s \in SMs : Drawn(s)' = Drawn(s) /\ Held(s)' = Held(s) /\ Queue(s)' = Queue(s)
                     /\ Current(s)' = Current(s)
  BY <1>1 DEF Drawn, Held, Queue, Current
<1>3. Places' /\ NobodyShares'
  BY <1>1, <1>2 DEF DealInv, Places, NobodyShares, HeldDrawn, HeldNotRun, DrawnNotLost, RunDrawn
<1> QED
  BY <1>1, <1>2, <1>3 DEF DealInv, TwoPlaces, RunApart, Exhausted

(* What a step of one SM leaves as it is.                                  *)
LEMMA OthersKeep ==
  ASSUME NEW s \in SMs, NEW s2 \in SMs \ {s},
         plan' = plan, pc'[s2] = pc[s2], cur_task_idx'[s2] = cur_task_idx[s2],
         nxt_task_idx'[s2] = nxt_task_idx[s2]
  PROVE  /\ Held(s2)' = Held(s2) /\ Queue(s2)' = Queue(s2) /\ Current(s2)' = Current(s2)
         /\ Drawn(s2)' = IF plan.runtime THEN work_queue_start' ELSE Drawn(s2)
BY DEF Held, Queue, Current, Drawn

LEMMA ClaimDeal == ASSUME Typed, DealInv, NEW s \in SMs, Claim(s) PROVE DealInv'
<1> DEFINE d == Drawn(s)
<1>1. /\ pc[s] = "claim" /\ plan' = plan /\ ran' = ran /\ launch' = launch
      /\ nxt_task_idx' = nxt_task_idx
      /\ pc' = [pc EXCEPT ![s] = pc'[s]]
      /\ pc'[s] = IF ~InQueue(plan, Queue(s), NextIndex(s)) THEN "exit"
                  ELSE IF plan.prefetch THEN "prefetch" ELSE "wait"
      /\ cur_task_idx' = [cur_task_idx EXCEPT ![s] = NextIndex(s)]
      /\ cur_task_idx'[s] = NextIndex(s)
  BY DEF Claim, GoOn, model, Typed, TypeOK
<1>2. d \in Nat /\ NextIndex(s) = d /\ Held(s) = {}
  BY <1>1 DEF NextIndex, Drawn, Held, DealInv, Places, HeldDrawn
<1>3. work_queue_start' = IF plan.runtime THEN work_queue_start + 1 ELSE work_queue_start
  BY DEF Claim, Draw, Typed, TypeOK
<1>4. \A s2 \in SMs \ {s} : pc'[s2] = pc[s2] /\ cur_task_idx'[s2] = cur_task_idx[s2]
  BY <1>1 DEF Typed, TypeOK
<1>5. Drawn(s)' = d + 1
  BY <1>1, <1>2, <1>3 DEF Drawn
<1>6. \A s2 \in SMs : Drawn(s2)' = IF Queue(s2) = Queue(s) THEN Drawn(s2) + 1 ELSE Drawn(s2)
  <2> SUFFICES ASSUME NEW s2 \in SMs \ {s}
               PROVE  Drawn(s2)' = IF Queue(s2) = Queue(s) THEN Drawn(s2) + 1 ELSE Drawn(s2)
    BY <1>5
  <2>1. Drawn(s2)' = IF plan.runtime THEN work_queue_start' ELSE Drawn(s2)
    BY <1>1, <1>4, OthersKeep
  <2> QED
    BY <2>1, <1>3 DEF Queue, Drawn
<1>7. \A s2 \in SMs \ {s} : Held(s2)' = Held(s2) /\ Queue(s2)' = Queue(s2)
                            /\ Current(s2)' = Current(s2)
  BY <1>1, <1>4, OthersKeep
<1>8. \/ Held(s)' = Held(s) \cup {d}
      \/ Held(s)' = Held(s) /\ ~InQueue(plan, Queue(s), d)
  <2>1. CASE InQueue(plan, Queue(s), d)
    <3>1. pc'[s] = (IF plan.prefetch THEN "prefetch" ELSE "wait") /\ cur_task_idx'[s] = d
      BY <1>1, <1>2, <2>1
    <3>2. Held(s)' = {d}
      BY <1>1, <1>2, <3>1 DEF Held
    <3> QED
      BY <1>2, <3>2
  <2>2. CASE ~InQueue(plan, Queue(s), d)
    <3>1. pc'[s] = "exit"
      BY <1>1, <1>2, <2>2
    <3> QED
      BY <1>2, <2>2, <3>1 DEF Held
  <2> QED
    BY <2>1, <2>2
<1>9. Places' /\ NobodyShares'
  BY <1>1, <1>6, <1>7, <1>8, DrawOne DEF DealInv
<1>10. TwoPlaces' /\ RunApart'
  BY <1>1, <1>4, <1>7 DEF DealInv, TwoPlaces, RunApart
<1>11. Exhausted'
  <2>1. \A s2 \in SMs : pc'[s2] # "exit" => launch > 0
    BY <1>1, <1>4 DEF DealInv, Exhausted
  <2>2. \A s2 \in SMs : pc'[s2] = "prefetch" => plan.prefetch
    BY <1>1, <1>4 DEF DealInv, Exhausted
  <2>3. ASSUME NEW s2 \in SMs, pc'[s2] = "exit", launch > 0
        PROVE  cur_task_idx'[s2] \in 0 .. Drawn(s2)' - 1 /\ ~InQueue(plan, Queue(s2), cur_task_idx'[s2])
    <3>1. CASE s2 = s
      BY <1>1, <1>2, <1>5, <2>3, <3>1
    <3>2. CASE s2 # s
      <4>1. Drawn(s2) \in Nat /\ Drawn(s2)' >= Drawn(s2) /\ Drawn(s2)' \in Nat
        BY <1>6 DEF DealInv, Places, HeldDrawn
      <4>2. cur_task_idx[s2] \in 0 .. Drawn(s2) - 1 /\ ~InQueue(plan, Queue(s2), cur_task_idx[s2])
        BY <1>4, <2>3, <3>2 DEF DealInv, Exhausted
      <4> QED
        BY <1>4, <3>2, <4>1, <4>2
    <3> QED
      BY <3>1, <3>2
  <2>4. \A s2 \in SMs : Queue(s2)' = Queue(s2)
    BY <1>1 DEF Queue
  <2> QED
    BY <1>1, <2>1, <2>2, <2>3, <2>4 DEF Exhausted
<1> QED
  BY <1>9, <1>10, <1>11 DEF DealInv

LEMMA PrefetchDeal == ASSUME Typed, DealInv, NEW s \in SMs, Prefetch(s) PROVE DealInv'
<1> DEFINE d == Drawn(s)
           c == cur_task_idx[s]
<1>1. /\ pc[s] = "prefetch" /\ plan.prefetch /\ plan' = plan /\ ran' = ran /\ launch' = launch
      /\ cur_task_idx' = cur_task_idx
      /\ pc' = [pc EXCEPT ![s] = "wait"] /\ pc'[s] = "wait"
      /\ nxt_task_idx' = [nxt_task_idx EXCEPT ![s] = NextIndex(s)]
      /\ nxt_task_idx'[s] = NextIndex(s)
  BY DEF Prefetch, model, Typed, TypeOK, DealInv, Exhausted
<1>2. NextIndex(s) = d /\ d \in Int /\ c \in Int
  BY <1>1 DEF NextIndex, Drawn, Typed, TypeOK
<1>3. Held(s) = {c}
  BY <1>1, <1>2 DEF Held
<1>4. c \in 0 .. d - 1
  BY <1>3 DEF DealInv, Places, HeldDrawn
<1>5. work_queue_start' = IF plan.runtime THEN work_queue_start + 1 ELSE work_queue_start
  BY DEF Prefetch, Draw, Typed, TypeOK
<1>6. \A s2 \in SMs \ {s} : pc'[s2] = pc[s2] /\ nxt_task_idx'[s2] = nxt_task_idx[s2]
  BY <1>1 DEF Typed, TypeOK
<1>7. Drawn(s)' = d + 1
  BY <1>1, <1>2, <1>5 DEF Drawn
<1>8. \A s2 \in SMs : Drawn(s2)' = IF Queue(s2) = Queue(s) THEN Drawn(s2) + 1 ELSE Drawn(s2)
  <2> SUFFICES ASSUME NEW s2 \in SMs \ {s}
               PROVE  Drawn(s2)' = IF Queue(s2) = Queue(s) THEN Drawn(s2) + 1 ELSE Drawn(s2)
    BY <1>7
  <2>1. Drawn(s2)' = IF plan.runtime THEN work_queue_start' ELSE Drawn(s2)
    BY <1>1, <1>6, OthersKeep
  <2> QED
    BY <2>1, <1>5 DEF Queue, Drawn
<1>9. \A s2 \in SMs \ {s} : Held(s2)' = Held(s2) /\ Current(s2)' = Current(s2)
  BY <1>1, <1>6, OthersKeep
<1>10. Held(s)' = Held(s) \cup {d}
  <2>1. Held(s)' = {c, d}
    BY <1>1, <1>2 DEF Held
  <2> QED
    BY <1>3, <2>1
<1>11. Places' /\ NobodyShares'
  BY <1>1, <1>8, <1>9, <1>10, DrawOne DEF DealInv
<1>12. TwoPlaces' /\ RunApart'
  <2>1. c # d
    BY <1>4, <1>2
  <2>2. TwoPlaces'
    BY <1>1, <1>2, <1>6, <2>1 DEF DealInv, TwoPlaces
  <2>3. \A s2 \in SMs : pc'[s2] = "run" => s2 # s /\ pc[s2] = "run"
    BY <1>1, <1>6
  <2>4. RunApart'
    BY <1>1, <1>9, <2>3 DEF DealInv, RunApart
  <2> QED
    BY <2>2, <2>4
<1>13. Exhausted'
  <2>1. \A s2 \in SMs : pc'[s2] # "exit" => launch > 0
    BY <1>1, <1>6 DEF DealInv, Exhausted
  <2>2. \A s2 \in SMs : pc'[s2] = "prefetch" => plan.prefetch
    BY <1>1
  <2>3. ASSUME NEW s2 \in SMs, pc'[s2] = "exit", launch > 0
        PROVE  cur_task_idx[s2] \in 0 .. Drawn(s2)' - 1 /\ ~InQueue(plan, Queue(s2), cur_task_idx[s2])
    <3>1. pc[s2] = "exit"
      BY <1>1, <1>6, <2>3
    <3>2. Drawn(s2) \in Nat /\ Drawn(s2)' >= Drawn(s2) /\ Drawn(s2)' \in Nat
      BY <1>8 DEF DealInv, Places, HeldDrawn
    <3>3. cur_task_idx[s2] \in 0 .. Drawn(s2) - 1 /\ ~InQueue(plan, Queue(s2), cur_task_idx[s2])
      BY <2>3, <3>1 DEF DealInv, Exhausted
    <3> QED
      BY <3>2, <3>3
  <2>4. \A s2 \in SMs : Queue(s2)' = Queue(s2)
    BY <1>1 DEF Queue
  <2> QED
    BY <1>1, <2>1, <2>2, <2>3, <2>4 DEF Exhausted
<1> QED
  BY <1>11, <1>12, <1>13 DEF DealInv

LEMMA WaitDepsDeal ==
  ASSUME Typed, DealInv, NEW s \in SMs, WaitDeps(s)
  PROVE  DealInv' /\ Current(s) \notin ran /\ Current(s) \in Tasks
<1> DEFINE c == cur_task_idx[s]
<1>1. /\ pc[s] = "wait" /\ plan' = plan /\ launch' = launch /\ work_queue_start' = work_queue_start
      /\ cur_task_idx' = cur_task_idx /\ nxt_task_idx' = nxt_task_idx
      /\ pc' = [pc EXCEPT ![s] = "run"] /\ pc'[s] = "run"
      /\ ran' = ran \cup {TaskAt(plan, Queue(s), c)}
      /\ InQueue(plan, Queue(s), c) /\ c \in Int /\ nxt_task_idx[s] \in Int
  BY DEF WaitDeps, Current, model, Typed, TypeOK
<1>2. \A s2 \in SMs \ {s} : pc'[s2] = pc[s2]
  BY <1>1 DEF Typed, TypeOK
<1>3. \A s2 \in SMs : Drawn(s2)' = Drawn(s2)
  BY <1>1, <1>2 DEF Drawn
<1>4. \A s2 \in SMs : Queue(s2)' = Queue(s2) /\ Current(s2)' = Current(s2)
  BY <1>1 DEF Queue, Current
<1>5. \A s2 \in SMs \ {s} : Held(s2)' = Held(s2)
  BY <1>1, <1>2, OthersKeep
<1>6. c \in Held(s) /\ Held(s)' = Held(s) \ {c}
  <2>1. CASE plan.prefetch
    <3>1. Held(s) = {c, nxt_task_idx[s]} /\ Held(s)' = {nxt_task_idx[s]}
      BY <1>1, <2>1 DEF Held
    <3>2. c # nxt_task_idx[s]
      BY <1>1, <2>1 DEF DealInv, TwoPlaces
    <3> QED
      BY <3>1, <3>2
  <2>2. CASE ~plan.prefetch
    BY <1>1, <2>2 DEF Held
  <2> QED
    BY <2>1, <2>2
<1>7. Places' /\ NobodyShares'
  BY <1>1, <1>3, <1>5, <1>6, RunHeld DEF DealInv
<1>8. Current(s) \notin ran /\ Current(s) \in Tasks
  BY <1>1, <1>6 DEF Current, DealInv, Places, HeldNotRun, InQueue, Tasks
<1>9. TwoPlaces'
  BY <1>1, <1>2 DEF DealInv, TwoPlaces
<1>10. RunApart'
  <2>1. Current(s) \in ran'
    BY <1>1 DEF Current
  <2>2. \A s2 \in SMs \ {s} : pc'[s2] = "run" => Current(s2) \in ran
    BY <1>2 DEF DealInv, RunApart
  <2>3. \A s2 \in SMs \ {s} : pc'[s2] = "run" => Current(s2) # Current(s)
    BY <2>2, <1>8
  <2>4. \A s2 \in SMs : pc'[s2] = "run" => Current(s2)' \in ran'
    BY <2>1, <2>2, <1>1, <1>4
  <2>5. \A s1, s2 \in SMs : s1 # s2 /\ pc'[s1] = "run" /\ pc'[s2] = "run" => Current(s1)' # Current(s2)'
    BY <2>3, <1>2, <1>4 DEF DealInv, RunApart
  <2> QED
    BY <2>4, <2>5 DEF RunApart
<1>11. Exhausted'
  BY <1>1, <1>2, <1>3, <1>4 DEF DealInv, Exhausted
<1> QED
  BY <1>7, <1>8, <1>9, <1>10, <1>11 DEF DealInv

LEMMA ReleaseDeal == ASSUME Typed, DealInv, NEW s \in SMs, ReleaseTile(s) PROVE DealInv'
<1> DEFINE n == nxt_task_idx[s]
<1>1. /\ pc[s] = "run" /\ plan' = plan /\ launch' = launch /\ work_queue_start' = work_queue_start
      /\ nxt_task_idx' = nxt_task_idx /\ ran' = ran
      /\ pc' = [pc EXCEPT ![s] = pc'[s]]
      /\ cur_task_idx' = [cur_task_idx EXCEPT ![s] = cur_task_idx'[s]]
      /\ n \in Int
  BY DEF ReleaseTile, GoOn, model, Typed, TypeOK
<1>2. plan.prefetch => /\ cur_task_idx'[s] = n
                       /\ pc'[s] = IF ~InQueue(plan, Queue(s), n) THEN "exit" ELSE "prefetch"
  BY DEF ReleaseTile, GoOn, Typed, TypeOK
<1>3. ~plan.prefetch => pc'[s] = "claim" /\ cur_task_idx'[s] = cur_task_idx[s]
  BY DEF ReleaseTile, Typed, TypeOK
<1>4. \A s2 \in SMs \ {s} : pc'[s2] = pc[s2] /\ cur_task_idx'[s2] = cur_task_idx[s2]
  BY <1>1 DEF Typed, TypeOK
<1>5. Drawn(s)' = Drawn(s)
  BY <1>1, <1>2, <1>3 DEF Drawn
<1>6. \A s2 \in SMs \ {s} : /\ Held(s2)' = Held(s2) /\ Current(s2)' = Current(s2)
                            /\ Drawn(s2)' = Drawn(s2)
  BY <1>1, <1>4, OthersKeep DEF Drawn
<1>7. \A s2 \in SMs : Queue(s2)' = Queue(s2)
  BY <1>1 DEF Queue
<1>8. Held(s)' \subseteq Held(s) /\ \A k \in Held(s) \ Held(s)' : ~InQueue(plan, Queue(s), k)
  <2>1. CASE plan.prefetch
    <3>1. Held(s) = {n}
      BY <1>1, <2>1 DEF Held
    <3>2. CASE InQueue(plan, Queue(s), n)
      <4>1. Held(s)' = {n}
        BY <1>1, <1>2, <2>1, <3>2 DEF Held
      <4> QED
        BY <3>1, <4>1
    <3>3. CASE ~InQueue(plan, Queue(s), n)
      <4>1. Held(s)' = {}
        BY <1>1, <1>2, <2>1, <3>3 DEF Held
      <4> QED
        BY <3>1, <3>3, <4>1
    <3> QED
      BY <3>2, <3>3
  <2>2. CASE ~plan.prefetch
    BY <1>1, <1>3, <2>2 DEF Held
  <2> QED
    BY <2>1, <2>2
<1>9. Places' /\ NobodyShares'
  BY <1>1, <1>5, <1>6, <1>8, DropNone DEF DealInv
<1>10. TwoPlaces' /\ RunApart'
  <2>1. pc'[s] \notin {"wait", "run"}
    BY <1>2, <1>3
  <2>2. TwoPlaces'
    BY <1>1, <1>4, <2>1 DEF DealInv, TwoPlaces
  <2>3. RunApart'
    BY <1>1, <1>4, <1>6, <2>1 DEF DealInv, RunApart
  <2> QED
    BY <2>2, <2>3
<1>11. Exhausted'
  <2>1. \A s2 \in SMs : pc'[s2] # "exit" => launch > 0
    BY <1>1, <1>4 DEF DealInv, Exhausted
  <2>2. \A s2 \in SMs : pc'[s2] = "prefetch" => plan.prefetch
    BY <1>1, <1>2, <1>3, <1>4 DEF DealInv, Exhausted
  <2>3. ASSUME NEW s2 \in SMs, pc'[s2] = "exit", launch > 0
        PROVE  cur_task_idx'[s2] \in 0 .. Drawn(s2)' - 1 /\ ~InQueue(plan, Queue(s2), cur_task_idx'[s2])
    <3>1. CASE s2 = s
      <4>1. plan.prefetch /\ ~InQueue(plan, Queue(s), n) /\ cur_task_idx'[s] = n
        BY <1>2, <1>3, <2>3, <3>1
      <4>2. n \in Held(s)
        BY <1>1, <4>1 DEF Held
      <4>3. n \in 0 .. Drawn(s) - 1
        BY <4>2 DEF DealInv, Places, HeldDrawn
      <4> QED
        BY <3>1, <4>1, <4>3, <1>5
    <3>2. CASE s2 # s
      BY <1>4, <1>6, <2>3, <3>2 DEF DealInv, Exhausted
    <3> QED
      BY <3>1, <3>2
  <2> QED
    BY <1>1, <1>7, <2>1, <2>2, <2>3 DEF Exhausted
<1> QED
  BY <1>9, <1>10, <1>11 DEF DealInv

LEMMA StepDeal == Typed /\ DealInv /\ [Next]_vars => DealInv'
<1> SUFFICES ASSUME Typed, DealInv, [Next]_vars PROVE DealInv'
  OBVIOUS
<1>1. CASE Launch
  BY <1>1, LaunchDeal
<1>2. CASE ZeroScoreboard
  BY <1>2, SameDeal DEF ZeroScoreboard, model
<1>3. CASE Rest \/ UNCHANGED vars
  BY <1>3, SameDeal DEF Rest, vars, model
<1>4. ASSUME NEW s \in SMs, Step(s) PROVE DealInv'
  BY <1>4, ClaimDeal, PrefetchDeal, WaitDepsDeal, ReleaseDeal DEF Step
<1> QED
  BY <1>1, <1>2, <1>3, <1>4 DEF Next

------------------------------------------------------------------------------
(* In an orderly plan, a task whose waits are over comes after all earlier *)
(* tasks it conflicts with: were one of them open, the tasks done in       *)
(* between would wait for nothing but each other and those before.         *)
LEMMA ConflictDone ==
  ASSUME NEW p \in Plans, InOrder(p), NEW done, Closed(done, Awaited(p)),
         NEW e \in Conflicts(p), \A w \in Awaited(p) : w[2] = e[2] => w[1] \in done
  PROVE  e[1] \in done
<1> DEFINE u == e[1]
           t == e[2]
           before == 1 .. u - 1
           between == done \cap (u + 1 .. t - 1)
           set == before \cup between \cup {t}
<1>1. u \in Int /\ t \in Int /\ u < t /\ u >= 1
  BY PlansAssumption DEF Conflicts, TasksOf
<1>2. ~Closed(set, Awaited(p))
  <2>1. between \in SUBSET (u + 1 .. t - 1)
    OBVIOUS
  <2>2. \A e2 \in Conflicts(p) : \A b \in SUBSET (e2[1] + 1 .. e2[2] - 1) :
            ~Closed(1 .. e2[1] - 1 \cup b \cup {e2[2]}, Awaited(p))
    BY DEF InOrder, Ordered
  <2> QED
    BY <2>1, <2>2
<1>3. PICK w \in Awaited(p) : w[2] \in set /\ w[1] \notin set
  BY <1>2 DEF Closed
<1>4. w[1] \in Int /\ w[2] \in Int /\ w[1] >= 1 /\ w[1] < w[2]
  <2>1. w[1] \in TasksOf(p) /\ w[2] \in TasksOf(p)
    BY DEF Awaited
  <2>2. w[1] < w[2]
    BY DEF InOrder
  <2> QED
    BY <2>1, <2>2, PlansAssumption DEF TasksOf
<1>5. w[2] \notin before
  BY <1>1, <1>3, <1>4
<1>6. w[1] \in done /\ w[1] < t
  <2>1. CASE w[2] = t
    BY <2>1, <1>4
  <2>2. CASE w[2] \in between
    BY <2>2, <1>1, <1>4 DEF Closed
  <2> QED
    BY <2>1, <2>2, <1>3, <1>5
<1>7. w[1] = u
  <2>1. w[1] \notin before /\ w[1] \notin between
    BY <1>3
  <2> QED
    BY <2>1, <1>1, <1>4, <1>6
<1> QED
  BY <1>6, <1>7

------------------------------------------------------------------------------
(* Which tasks are being run, after each kind of step.                     *)
LEMMA BusyRan == Typed /\ DealInv => Busy \subseteq ran /\ ran \subseteq Tasks
BY DEF Busy, DealInv, RunApart, Typed, TypeOK

LEMMA SameBusy ==
  ASSUME UNCHANGED <<plan, cur_task_idx>>, \A s \in SMs : pc'[s] = "run" <=> pc[s] = "run"
  PROVE  Busy' = Busy
<1>1. \A s \in SMs : Current(s)' = Current(s)
  BY DEF Current, Queue
<1>2. {sm \in SMs : pc'[sm] = "run"} = {sm \in SMs : pc[sm] = "run"}
  OBVIOUS
<1> QED
  BY <1>1, <1>2 DEF Busy

LEMMA ClaimBusy == ASSUME Typed, NEW s \in SMs, Claim(s) PROVE Busy' = Busy
<1>1. /\ pc[s] = "claim" /\ plan' = plan
      /\ pc' = [pc EXCEPT ![s] = pc'[s]] /\ pc'[s] \in {"exit", "prefetch", "wait"}
      /\ cur_task_idx' = [cur_task_idx EXCEPT ![s] = NextIndex(s)]
  BY DEF Claim, GoOn, model, Typed, TypeOK
<1>2. \A s2 \in SMs : pc'[s2] = "run" <=> pc[s2] = "run"
  BY <1>1 DEF Typed, TypeOK
<1>3. \A s2 \in SMs : pc[s2] = "run" => Current(s2)' = Current(s2)
  BY <1>1 DEF Current, Queue, Typed, TypeOK
<1> QED
  BY <1>2, <1>3 DEF Busy

LEMMA PrefetchBusy == ASSUME Typed, NEW s \in SMs, Prefetch(s) PROVE Busy' = Busy
<1>1. \A s2 \in SMs : pc'[s2] = "run" <=> pc[s2] = "run"
  BY DEF Prefetch, Typed, TypeOK
<1> QED
  BY <1>1, SameBusy DEF Prefetch, model

LEMMA WaitDepsBusy == ASSUME Typed, NEW s \in SMs, WaitDeps(s) PROVE Busy' = Busy \cup {Current(s)}
<1>1. /\ plan' = plan /\ cur_task_idx' = cur_task_idx
      /\ \A s2 \in SMs : pc'[s2] = "run" <=> pc[s2] = "run" \/ s2 = s
  BY DEF WaitDeps, model, Typed, TypeOK
<1>2. \A s2 \in SMs : Current(s2)' = Current(s2)
  BY <1>1 DEF Current, Queue
<1> QED
  BY <1>1, <1>2 DEF Busy

LEMMA ReleaseBusy ==
  ASSUME Typed, DealInv, NEW s \in SMs, ReleaseTile(s)
  PROVE  Busy' = Busy \ {Current(s)} /\ Current(s) \in Busy
<1>1. /\ pc[s] = "run" /\ plan' = plan
      /\ pc' = [pc EXCEPT ![s] = pc'[s]] /\ pc'[s] \in {"exit", "prefetch", "claim"}
      /\ cur_task_idx' = [cur_task_idx EXCEPT ![s] = cur_task_idx'[s]]
  <2>1. CASE plan.prefetch
    BY <2>1 DEF ReleaseTile, GoOn, model, Typed, TypeOK
  <2>2. CASE ~plan.prefetch
    BY <2>2 DEF ReleaseTile, model, Typed, TypeOK
  <2> QED
    BY <2>1, <2>2
<1>2. \A s2 \in SMs : pc'[s2] = "run" <=> pc[s2] = "run" /\ s2 # s
  BY <1>1 DEF Typed, TypeOK
<1>3. \A s2 \in SMs \ {s} : Current(s2)' = Current(s2)
  BY <1>1 DEF Current, Queue, Typed, TypeOK
<1>4. \A s2 \in SMs \ {s} : pc[s2] = "run" => Current(s2) # Current(s)
  BY <1>1 DEF DealInv, RunApart
<1> QED
  BY <1>1, <1>2, <1>3, <1>4 DEF Busy

------------------------------------------------------------------------------
LEMMA InitOrder == Init => OrderInv
BY DEF Init, OrderInv, SignalsOfDone, WaitsOver

LEMMA LaunchOrder == ASSUME Typed, OrderInv, Launch PROVE OrderInv'
<1>1. board' = {} /\ ran' = {}
  BY DEF Launch, Typed, TypeOK
<1> QED
  BY <1>1 DEF OrderInv, SignalsOfDone, WaitsOver

(* Steps that begin and end no task.                                       *)
LEMMA IdleOrder ==
  ASSUME OrderInv, UNCHANGED <<plan, task_scoreboard_start, ran>>, Busy' = Busy,
         board' \subseteq board
  PROVE  OrderInv'
BY DEF OrderInv, SignalsOfDone, WaitsOver

(* A task begins: the tasks it waited for have signalled, and nobody else  *)
(* signals for them.                                                       *)
LEMMA WaitDepsOrder ==
  ASSUME Typed, DepsInv, DealInv, OrderInv, InOrder(plan), NEW s \in SMs, WaitDeps(s)
  PROVE  OrderInv'
<1> DEFINE t == Current(s)
           done == ran \ Busy
<1>1. /\ plan' = plan /\ task_scoreboard_start' = task_scoreboard_start /\ board' = board
      /\ ran' = ran \cup {t} /\ Busy' = Busy \cup {t} /\ t \notin ran
  BY WaitDepsBusy, WaitDepsDeal DEF WaitDeps, model
<1>2. ran' \ Busy' = done
  BY <1>1
<1>3. \A j \in DOMAIN plan.tasks[t].dependency :
          WaitEntries(plan, plan.tasks[t].dependency[j]) \subseteq board
  <2>1. DepsHeld'
    BY WaitDepsDeps DEF DepsInv
  <2>2. pc'[s] = "run" /\ cur_task_idx' = cur_task_idx
    BY DEF WaitDeps, Typed, TypeOK
  <2>3. Queue(s)' = Queue(s)
    BY <1>1 DEF Queue
  <2> QED
    BY <1>1, <2>1, <2>2, <2>3 DEF DepsHeld, Dependency, Current
<1>4. ASSUME NEW e \in Awaited(plan), e[2] = t PROVE e[1] \in done
  <2>1. e[1] \in TasksOf(plan) /\ Signals(plan)[e[1]] \in board
    BY <1>3, <1>4 DEF Awaited
  <2>2. PICK u \in done : plan.tasks[u].releases /\ Signals(plan)[u] = Signals(plan)[e[1]]
    BY <2>1 DEF OrderInv, SignalsOfDone, Typed, ModelOK
  <2>3. u \in TasksOf(plan)
    BY DEF Typed, TypeOK, Tasks
  <2>4. e[1] = u
    BY <2>1, <2>2, <2>3 DEF InOrder
  <2> QED
    BY <2>4
<1>5. SignalsOfDone'
  BY <1>1, <1>2 DEF OrderInv, SignalsOfDone
<1>6. WaitsOver'
  BY <1>1, <1>2, <1>4 DEF OrderInv, WaitsOver
<1> QED
  BY <1>5, <1>6 DEF OrderInv

LEMMA ReleaseOrder ==
  ASSUME Typed, DealInv, OrderInv, NEW s \in SMs, ReleaseTile(s)
  PROVE  OrderInv'
<1> DEFINE t == Current(s)
<1>1. /\ plan' = plan /\ task_scoreboard_start' = task_scoreboard_start /\ ran' = ran
      /\ board' \subseteq board \cup {task_scoreboard_start[t]}
      /\ plan.tasks[t].releases \/ board' = board
      /\ Busy' = Busy \ {t} /\ t \in Busy
  BY ReleaseBusy DEF ReleaseTile, model
<1>2. ran \ Busy \subseteq ran' \ Busy' /\ t \in ran' \ Busy'
  BY <1>1, BusyRan
<1>3. SignalsOfDone'
  <2> SUFFICES ASSUME NEW x \in board'
               PROVE  \E u \in ran' \ Busy' : plan.tasks[u].releases /\ task_scoreboard_start[u] = x
    BY <1>1 DEF SignalsOfDone
  <2>1. CASE x \in board
    BY <2>1, <1>2 DEF OrderInv, SignalsOfDone
  <2>2. CASE x \notin board
    BY <2>2, <1>1, <1>2
  <2> QED
    BY <2>1, <2>2
<1>4. WaitsOver'
  BY <1>1, <1>2 DEF OrderInv, WaitsOver
<1> QED
  BY <1>3, <1>4 DEF OrderInv

(* The inductive invariant behind the two theorems below.                  *)
RaceInv == Typed /\ DepsInv /\ DealInv /\ OrderInv

(* The compiler hands over orderly plans only (CompiledInOrder).           *)
AllInOrder == \A p \in Plans : InOrder(p)

LEMMA StepOrder == AllInOrder /\ RaceInv /\ [Next]_vars => OrderInv'
<1> SUFFICES ASSUME AllInOrder, RaceInv, [Next]_vars PROVE OrderInv'
  OBVIOUS
<1> USE DEF RaceInv
<1>1. InOrder(plan)
  BY DEF AllInOrder, Typed, ModelOK
<1>2. CASE Launch
  BY <1>2, LaunchOrder
<1>3. CASE ZeroScoreboard
  <2>1. Busy' = Busy
    BY <1>3, SameBusy DEF ZeroScoreboard, model, smvars
  <2> QED
    BY <1>3, <2>1, IdleOrder DEF ZeroScoreboard, model
<1>4. CASE Rest \/ UNCHANGED vars
  <2>1. Busy' = Busy
    BY <1>4, SameBusy DEF Rest, vars, model, smvars
  <2> QED
    BY <1>4, <2>1, IdleOrder DEF Rest, vars, model
<1>5. ASSUME NEW s \in SMs, Step(s) PROVE OrderInv'
  <2>1. CASE Claim(s)
    BY <2>1, ClaimBusy, IdleOrder DEF Claim, model
  <2>2. CASE Prefetch(s)
    BY <2>2, PrefetchBusy, IdleOrder DEF Prefetch, model
  <2>3. CASE WaitDeps(s)
    BY <2>3, <1>1, WaitDepsOrder
  <2>4. CASE ReleaseTile(s)
    BY <2>4, ReleaseOrder
  <2> QED
    BY <1>5, <2>1, <2>2, <2>3, <2>4 DEF Step
<1> QED
  BY <1>2, <1>3, <1>4, <1>5 DEF Next

LEMMA RaceInvInit == Init => RaceInv
BY InitType, InitDeps, InitDeal, InitOrder DEF RaceInv, Typed

LEMMA RaceInvStep == AllInOrder /\ RaceInv /\ [Next]_vars => RaceInv'
<1> SUFFICES ASSUME AllInOrder, RaceInv, [Next]_vars PROVE RaceInv'
  OBVIOUS
<1>1. Typed'
  BY StepType DEF RaceInv, Typed
<1>2. DepsInv'
  BY LaunchDeps, ZeroDeps, StutterDeps, ClaimDeps, PrefetchDeps, WaitDepsDeps, ReleaseDeps
     DEF RaceInv, Next, Step
<1>3. DealInv' /\ OrderInv'
  BY StepDeal, StepOrder DEF RaceInv
<1> QED
  BY <1>1, <1>2, <1>3 DEF RaceInv

LEMMA RaceInvNoRace == AllInOrder /\ RaceInv => NoRace
<1> SUFFICES ASSUME AllInOrder, RaceInv, NEW s1 \in SMs, NEW s2 \in SMs, s1 # s2,
                    pc[s1] = "run", pc[s2] = "run",
                    ~(Meet(plan, Current(s1), Current(s2))
                         \subseteq Strays(plan, Current(s1), Current(s2)))
             PROVE  FALSE
  BY DEF NoRace
<1> DEFINE t1 == Current(s1)
           t2 == Current(s2)
<1>1. t1 # t2 /\ t1 \in ran /\ t2 \in ran /\ t1 \in Busy /\ t2 \in Busy
  BY DEF RaceInv, DealInv, RunApart, Busy
<1>2. t1 \in TasksOf(plan) /\ t2 \in TasksOf(plan) /\ plan \in Plans
  BY <1>1 DEF RaceInv, Typed, ModelOK, TypeOK, Tasks
<1>3. t1 \in Int /\ t2 \in Int
  BY <1>2, PlansAssumption DEF TasksOf
<1>4. Closed(ran \ Busy, Awaited(plan)) /\ InOrder(plan)
  BY <1>2 DEF RaceInv, OrderInv, WaitsOver, Closed, AllInOrder
<1>5. ASSUME NEW u \in {t1, t2}, NEW t \in {t1, t2}, <<u, t>> \in Conflicts(plan) PROVE FALSE
  <2>1. \A w \in Awaited(plan) : w[2] = t => w[1] \in ran \ Busy
    BY <1>1 DEF RaceInv, OrderInv, WaitsOver
  <2>2. u \in ran \ Busy
    BY <1>2, <1>4, <1>5, <2>1, ConflictDone
  <2> QED
    BY <2>2, <1>1
<1>6. <<t1, t2>> \in Conflicts(plan) \/ <<t2, t1>> \in Conflicts(plan)
  <2>1. t1 < t2 \/ t2 < t1
    BY <1>1, <1>3
  <2>2. ~(Meet(plan, t1, t2) \subseteq Strays(plan, t1, t2))
    OBVIOUS
  <2> HIDE DEF t1, t2
  <2>3. CASE t1 < t2
    BY <2>2, <2>3, <1>2 DEF Conflicts
  <2>4. CASE t2 < t1
    <3>1. ~(Meet(plan, t2, t1) \subseteq Strays(plan, t2, t1))
      BY <2>2 DEF Meet, Strays
    <3> QED
      BY <3>1, <2>4, <1>2 DEF Conflicts
  <2> QED
    BY <2>1, <2>3, <2>4
<1> QED
  BY <1>5, <1>6

(* Whatever the model, the number of SMs, the strategy and the scheduling: *)
(* if the plans are orderly, as CompiledInOrder says of the compiler's, no *)
(* two SMs ever work at the same time on tasks that touch an element in    *)
(* common that one of them stores to, but where one of them strays.        *)
THEOREM OrderlyPlansNeverRace == AllInOrder => (Spec => []NoRace)
<1> SUFFICES ASSUME AllInOrder PROVE Spec => []NoRace
  OBVIOUS
<1>1. RaceInv /\ [Next]_vars => RaceInv'
  BY RaceInvStep
<1>2. RaceInv => NoRace
  BY RaceInvNoRace
<1> QED
  BY RaceInvInit, <1>1, <1>2, PTL DEF Spec

------------------------------------------------------------------------------
(* The steps of the data-flow graph that a step of the kernel stands for.  *)
LEMMA DataflowInit == Init => Dataflow!Init
<1> SUFFICES ASSUME Init PROVE Dataflow!Init
  OBVIOUS
<1>1. \A s \in SMs : pc[s] = "exit"
  BY DEF Init
<1>2. launch = 0 /\ Busy = {} /\ ran \ Busy = {}
  BY <1>1 DEF Init, Busy
<1> QED
  BY <1>2 DEF Dataflow!Init

LEMMA SameNeeds == ASSUME plan' = plan PROVE Needs' = Needs
BY DEF Needs, Tasks

LEMMA IdleStep ==
  ASSUME UNCHANGED <<plan, launch, ran>>, Busy' = Busy
  PROVE  UNCHANGED Dataflow!vars
BY SameNeeds DEF Dataflow!vars

(* All queues are worked off when all SMs have given up.                   *)
LEMMA AllRan ==
  ASSUME Typed, DealInv, launch > 0, \A s \in SMs : pc[s] = "exit"
  PROVE  ran = Tasks /\ Busy = {}
<1> SUFFICES ASSUME NEW t \in Tasks PROVE t \in ran
  BY DEF Busy, Typed, TypeOK
<1>1. plan \in Plans
  BY DEF Typed, ModelOK
<1>2. PICK q \in 0 .. num_sms(plan) - 1, k \in Nat : InQueue(plan, q, k) /\ TaskAt(plan, q, k) = t
  BY <1>1, DealtOnce DEF Tasks
<1>3. PICK s \in SMs : Queue(s) = q
  BY <1>1, <1>2, SizeAssumption, PlansAssumption DEF SMs, Queue, num_sms
<1>4. /\ Drawn(s) \in Nat /\ cur_task_idx[s] \in 0 .. Drawn(s) - 1
      /\ ~InQueue(plan, q, cur_task_idx[s])
  BY <1>3 DEF DealInv, Exhausted, Places, HeldDrawn
<1>5. k < cur_task_idx[s]
  <2>1. CASE cur_task_idx[s] <= k
    <3>1. cur_task_idx[s] \in 0 .. k
      BY <2>1, <1>4
    <3> QED
      BY <3>1, <1>1, <1>2, <1>4, NoGaps
  <2> QED
    BY <2>1, <1>4
<1>6. k \in 0 .. Drawn(s) - 1
  BY <1>4, <1>5
<1>7. \A s2 \in SMs : Held(s2) = {}
  BY DEF Held
<1> QED
  BY <1>2, <1>3, <1>6, <1>7 DEF DealInv, Places, DrawnNotLost

LEMMA LaunchStep == ASSUME RaceInv, Launch PROVE Dataflow!Launch
<1>1. launch \in Nat /\ \A s \in SMs : pc[s] = "exit"
  BY SizeAssumption DEF Launch, RaceInv, Typed, TypeOK
<1>2. Busy = {} /\ (launch = 0 \/ ran \ Busy = Tasks)
  <2>1. CASE launch = 0
    BY <1>1, <2>1 DEF Busy
  <2>2. CASE launch > 0
    BY <1>1, <2>2, AllRan DEF RaceInv
  <2> QED
    BY <1>1, <2>1, <2>2
<1>3. \A s \in SMs : pc'[s] = "claim"
  BY DEF Launch
<1>4. Busy' = {} /\ ran' = {}
  BY <1>3 DEF Launch, Busy
<1>5. DOMAIN Needs = Tasks /\ Needs' = Needs
  BY SameNeeds DEF Launch, model, Needs
<1> QED
  BY <1>2, <1>4, <1>5 DEF Launch, Dataflow!Launch, Dataflow!Tasks

LEMMA StartStep ==
  ASSUME AllInOrder, RaceInv, NEW s \in SMs, WaitDeps(s)
  PROVE  Current(s) \in Tasks /\ Dataflow!Start(Current(s))
<1> DEFINE t == Current(s)
           done == ran \ Busy
<1>1. /\ plan' = plan /\ launch' = launch /\ ran' = ran \cup {t} /\ Busy' = Busy \cup {t}
      /\ t \notin ran /\ t \in Tasks
  BY WaitDepsBusy, WaitDepsDeal DEF WaitDeps, model, RaceInv
<1>2. Busy \subseteq ran
  BY BusyRan DEF RaceInv
<1>3. launch > 0
  BY DEF WaitDeps, RaceInv, DealInv, Exhausted
<1>4. ran' \ Busy' = done
  BY <1>1
<1>5. plan \in Plans /\ InOrder(plan)
  BY DEF RaceInv, Typed, ModelOK, AllInOrder
<1>6. Needs[t] \subseteq done
  <2> SUFFICES ASSUME NEW u \in Needs[t] PROVE u \in done
    OBVIOUS
  <2>1. /\ u \in 1 .. t - 1
        /\ ~(plan.tasks[u].writes \cap plan.tasks[t].reads \subseteq Strays(plan, u, t))
    BY <1>1 DEF Needs
  <2>2. t \in 1 .. Len(plan.tasks) /\ Len(plan.tasks) \in Nat /\ TasksOf(plan) = 1 .. Len(plan.tasks)
    BY <1>1, <1>5, PlansAssumption DEF Tasks, TasksOf
  <2>3. u \in TasksOf(plan) /\ t \in TasksOf(plan) /\ u < t
    BY <2>1, <2>2
  <2> HIDE DEF t
  <2>4. <<u, t>> \in Conflicts(plan)
    BY <2>1, <2>3 DEF Conflicts, Meet
  <2>5. Closed(done, Awaited(plan))
    BY DEF RaceInv, OrderInv, WaitsOver, Closed
  <2>6. \A w \in Awaited(plan) : w[2] = t => w[1] \in done
    <3>1. OrderInv'
      BY <1>5, WaitDepsOrder DEF RaceInv
    <3> QED
      BY <3>1, <1>1, <1>4 DEF OrderInv, WaitsOver
  <2> QED
    BY <1>5, <2>4, <2>5, <2>6, ConflictDone
<1>7. Needs' = Needs
  BY <1>1, SameNeeds
<1> QED
  BY <1>1, <1>2, <1>3, <1>4, <1>6, <1>7 DEF Dataflow!Start

LEMMA FinishStep ==
  ASSUME RaceInv, NEW s \in SMs, ReleaseTile(s)
  PROVE  Current(s) \in Tasks /\ Dataflow!Finish(Current(s))
<1> DEFINE t == Current(s)
<1>1. /\ plan' = plan /\ launch' = launch /\ ran' = ran /\ Busy' = Busy \ {t} /\ t \in Busy
  BY ReleaseBusy DEF ReleaseTile, model, RaceInv
<1>2. t \in ran /\ t \in Tasks
  BY <1>1, BusyRan DEF RaceInv
<1>3. ran' \ Busy' = (ran \ Busy) \cup {t}
  BY <1>1, <1>2
<1>4. Needs' = Needs
  BY <1>1, SameNeeds
<1> QED
  BY <1>1, <1>2, <1>3, <1>4 DEF Dataflow!Finish

LEMMA DataflowStep == AllInOrder /\ RaceInv /\ [Next]_vars => [Dataflow!Next]_(Dataflow!vars)
<1> SUFFICES ASSUME AllInOrder, RaceInv, [Next]_vars PROVE Dataflow!Next \/ UNCHANGED Dataflow!vars
  OBVIOUS
<1>1. CASE Launch
  BY <1>1, LaunchStep DEF Dataflow!Next
<1>2. CASE ZeroScoreboard
  BY <1>2, SameBusy, IdleStep DEF ZeroScoreboard, model, smvars
<1>3. CASE Rest \/ UNCHANGED vars
  BY <1>3, SameBusy, IdleStep DEF Rest, vars, model, smvars
<1>4. ASSUME NEW s \in SMs, Step(s) PROVE Dataflow!Next \/ UNCHANGED Dataflow!vars
  <2>1. CASE Claim(s)
    BY <2>1, ClaimBusy, IdleStep DEF Claim, model, RaceInv
  <2>2. CASE Prefetch(s)
    BY <2>2, PrefetchBusy, IdleStep DEF Prefetch, model, RaceInv
  <2>3. CASE WaitDeps(s)
    BY <2>3, StartStep DEF Dataflow!Next, Dataflow!Tasks, Needs
  <2>4. CASE ReleaseTile(s)
    BY <2>4, FinishStep DEF Dataflow!Next, Dataflow!Tasks, Needs
  <2> QED
    BY <1>4, <2>1, <2>2, <2>3, <2>4 DEF Step
<1> QED
  BY <1>1, <1>2, <1>3, <1>4 DEF Next

(* The safety part of ImplementsDataflow: with orderly plans every launch  *)
(* of the mega kernel executes the data-flow graph.  Each task runs once,  *)
(* after the tasks that store what its builder says it loads, and a launch *)
(* is over only when all of them have run.                                 *)
THEOREM OrderlyPlansExecuteTheGraph ==
  AllInOrder => (Spec => Dataflow!Init /\ [][Dataflow!Next]_(Dataflow!vars))
<1> SUFFICES ASSUME AllInOrder PROVE Spec => Dataflow!Init /\ [][Dataflow!Next]_(Dataflow!vars)
  OBVIOUS
<1>1. RaceInv /\ [Next]_vars => RaceInv'
  BY RaceInvStep
<1>2. RaceInv /\ [Next]_vars => [Dataflow!Next]_(Dataflow!vars)
  BY DataflowStep
<1> QED
  BY RaceInvInit, DataflowInit, <1>1, <1>2, PTL DEF Spec
==============================================================================
