------------------------ MODULE PersistentKernel_proof ------------------------
(* For every number of workers and schedulers, every task graph and every    *)
(* ring length: type correctness and the single-writer discipline of the     *)
(* worker queues; and, with queues as long as they need to be, the inductive *)
(* invariant that the queue, event and iteration properties follow from, and *)
(* that every step of the kernel is a step of the task graph's execution.    *)
EXTENDS PersistentKernel, WorkPartition_proof,
        FiniteSetTheorems, SequenceTheorems, WellFoundedInduction

(* A ring index is a slot of the ring.                                       *)
LEMMA RingIndex ==
  ASSUME NEW i \in Nat, NEW len \in Nat \ {0}
  PROVE  i % len \in 0..len - 1
<1>1. i % len \in Nat /\ i % len < len
  BY DivMod
<1> QED
  BY <1>1

LEMMA MyWorkersAreWorkers ==
  ASSUME NEW s \in Schedulers
  PROVE  /\ my_workers(s) \subseteq Workers
         /\ my_first_worker(s) \in Nat
         /\ my_last_worker(s) \in Nat
<1>1. NumSchedulers \in Nat /\ NumSchedulers > 0 /\ NumWorkers \in Nat /\ s \in 0..NumSchedulers - 1
  BY SizeAssumption DEF Schedulers
<1>2. /\ FirstId(NumWorkers, NumSchedulers, s) \in Nat
      /\ LastId(NumWorkers, NumSchedulers, s) = FirstId(NumWorkers, NumSchedulers, s + 1)
      /\ FirstId(NumWorkers, NumSchedulers, NumSchedulers) = NumWorkers
  BY <1>1, PartsAbut
<1>3. s + 1 \in Nat /\ s + 1 <= NumSchedulers
  BY <1>1
<1>4. /\ FirstId(NumWorkers, NumSchedulers, s + 1) \in Nat
      /\ FirstId(NumWorkers, NumSchedulers, s + 1)
           <= FirstId(NumWorkers, NumSchedulers, NumSchedulers)
  BY <1>1, <1>3, BoundaryMono, BoundaryNat
<1> QED
  BY <1>1, <1>2, <1>4 DEF my_workers, my_first_worker, my_last_worker, OwnIds, Workers

(* get_rand_sched_id names a scheduler, and one that has workers.            *)
LEMMA RandIsServing ==
  ASSUME NEW w \in Workers
  PROVE  /\ get_rand_sched_id(w, NumWorkers, NumSchedulers) \in Schedulers
         /\ my_workers(get_rand_sched_id(w, NumWorkers, NumSchedulers)) # {}
<1>1. /\ NumSchedulers \in Nat /\ NumSchedulers > 0 /\ NumWorkers \in Nat
      /\ w \in Nat /\ w \in 0..NumWorkers - 1
  BY SizeAssumption DEF Workers
<1>2. PICK s \in 0..NumSchedulers - 1 : w \in OwnIds(NumWorkers, NumSchedulers, s)
  BY <1>1, PartsCover
<1>3. get_rand_sched_id(w, NumWorkers, NumSchedulers) \in 0..s
  BY <1>1, <1>2, RandNotAfterOwner
<1>4. OwnIds(NumWorkers, NumSchedulers, get_rand_sched_id(w, NumWorkers, NumSchedulers)) # {}
  BY <1>1, <1>2, RandHasWorkers
<1> QED
  BY <1>1, <1>2, <1>3, <1>4 DEF Schedulers, my_workers

LEMMA EventQueueExists ==
  ASSUME NEW w \in Workers
  PROVE  EventQueue(w) \in SchedQueues
<1>1. BcastQueue \in SchedQueues /\ Schedulers \subseteq SchedQueues
  BY SizeAssumption DEF BcastQueue, SchedQueues, Schedulers
<1> QED
  BY <1>1, RandIsServing DEF EventQueue

LEMMA QueueOfExists ==
  ASSUME NEW s \in Schedulers, NEW i \in 0..1
  PROVE  QueueOf(s, i) \in SchedQueues
BY SizeAssumption DEF QueueOf, BcastQueue, SchedQueues, Schedulers

LEMMA InitType == Init => TypeOK
<1> SUFFICES ASSUME Init PROVE TypeOK
  OBVIOUS
<1> USE DEF Init
<1>1. SharedTypeOK
  BY DEF SharedTypeOK, Rings
<1>2. WorkersTypeOK
  BY DEF WorkersTypeOK
<1>3. SchedsTypeOK
  BY MyWorkersAreWorkers DEF SchedsTypeOK
<1>4. HistoryTypeOK
  BY SizeAssumption DEF HistoryTypeOK
<1> QED
  BY <1>1, <1>2, <1>3, <1>4 DEF TypeOK

LEMMA LaunchType == TypeOK /\ Launch => TypeOK'
<1> SUFFICES ASSUME TypeOK, Launch PROVE TypeOK'
  OBVIOUS
<1>1. SharedTypeOK'
  <2>1. 0 \in SchedQueues /\ 0 \in 0..per_sched_queue_len - 1 /\ EndEvent \in Events
    BY SizeAssumption DEF SchedQueues, EndEvent, Events
  <2> QED
    BY <2>1 DEF TypeOK, SharedTypeOK, Launch, prepare_kernel, Rings
<1>2. WorkersTypeOK'
  BY DEF TypeOK, WorkersTypeOK, Launch, Current
<1>3. SchedsTypeOK'
  BY MyWorkersAreWorkers DEF TypeOK, SchedsTypeOK, Launch
<1>4. HistoryTypeOK'
  BY SizeAssumption DEF TypeOK, HistoryTypeOK, Launch
<1> QED
  BY <1>1, <1>2, <1>3, <1>4 DEF TypeOK
-----------------------------------------------------------------------------
(* The worker's steps.                                                     *)

(* What dropping the first of a worker's loaded tasks leaves.              *)
LEMMA AfterTaskType ==
  ASSUME TypeOK, NEW w \in Workers, task_ids[w] # <<>>
  PROVE  /\ Tail(task_ids[w]) \in Seq(TaskIds \cup {Unwritten})
         /\ AfterTask(w) \in {"poll", "wait"}
         /\ AfterTask(w) = "wait" => Tail(task_ids[w]) # <<>>
<1> DEFINE T == TaskIds \cup {Unwritten}
           q == task_ids[w]
<1>1. q \in Seq(T) /\ q # <<>>
  BY DEF TypeOK, WorkersTypeOK
<1>2. AfterTask(w) = IF Len(q) = 1 THEN "poll" ELSE "wait"
  BY DEF AfterTask
<1> HIDE DEF T, q
<1>3. Tail(q) \in Seq(T) /\ Len(q) \in Nat /\ Len(q) # 0 /\ Len(Tail(q)) = Len(q) - 1
  BY <1>1
<1>4. Len(q) # 1 => Tail(q) # <<>>
  <2> SUFFICES ASSUME Len(q) # 1 PROVE Len(Tail(q)) # 0
    OBVIOUS
  <2> QED
    BY <1>3
<1> QED
  BY <1>2, <1>3, <1>4 DEF T, q

LEMMA WorkerPollType ==
  ASSUME TypeOK, NEW w \in Workers, WorkerPoll(w)
  PROVE  TypeOK'
<1> USE DEF WorkerPoll, queues, slocals, history
<1>1. SharedTypeOK'
  BY DEF TypeOK, SharedTypeOK
<1>2. WorkersTypeOK'
  BY DEF TypeOK, WorkersTypeOK, SharedTypeOK, Current
<1>3. SchedsTypeOK'
  BY DEF TypeOK, SchedsTypeOK
<1>4. HistoryTypeOK'
  BY DEF TypeOK, HistoryTypeOK
<1> QED
  BY <1>1, <1>2, <1>3, <1>4 DEF TypeOK

LEMMA WorkerLoadType ==
  ASSUME TypeOK, NEW w \in Workers, WorkerLoad(w)
  PROVE  TypeOK'
<1> USE DEF queues, slocals, history
<1>1. SharedTypeOK'
  BY DEF TypeOK, SharedTypeOK, WorkerLoad
<1>2. WorkersTypeOK'
  <2> DEFINE T == TaskIds \cup {Unwritten}
             published == last_task_pos[w] - next_task_pos[w]
             n == IF published < TaskDescsBuffer THEN published ELSE TaskDescsBuffer
             loaded == [i \in 1..n |->
               worker_queues[w][(next_task_pos[w] + i - 1) % per_worker_queue_len]]
  <2>1. /\ next_task_pos[w] \in Nat /\ last_task_pos[w] \in Nat
        /\ next_task_pos[w] < last_task_pos[w]
        /\ worker_queues[w] \in [0..per_worker_queue_len - 1 -> T]
    BY DEF TypeOK, WorkersTypeOK, SharedTypeOK, Rings, WorkerLoad
  <2>2. n \in Nat \ {0}
    BY <2>1, SizeAssumption
  <2>3. \A i \in 1..n : worker_queues[w][(next_task_pos[w] + i - 1) % per_worker_queue_len] \in T
    <3> TAKE i \in 1..n
    <3>1. next_task_pos[w] + i - 1 \in Nat
      BY <2>1, <2>2
    <3>2. (next_task_pos[w] + i - 1) % per_worker_queue_len \in 0..per_worker_queue_len - 1
      BY <3>1, RingIndex, SizeAssumption
    <3> QED
      BY <2>1, <3>2
  <2>4. loaded \in Seq(T) /\ loaded # <<>>
    <3> HIDE DEF n, T
    <3>1. loaded \in [1..n -> T]
      BY <2>3
    <3>2. loaded \in Seq(T)
      BY <2>2, <3>1
    <3>3. Len(loaded) = n
      BY <2>2, <3>1
    <3> QED
      BY <2>2, <3>2, <3>3
  <2>5. /\ task_ids' = [task_ids EXCEPT ![w] = loaded]
        /\ next_task_pos' = [next_task_pos EXCEPT ![w] = @ + n]
        /\ wpc' = [wpc EXCEPT ![w] = "wait"]
        /\ UNCHANGED <<last_task_pos, wslot>>
    BY DEF WorkerLoad
  <2> HIDE DEF n, loaded
  <2> QED
    BY <2>2, <2>4, <2>5 DEF TypeOK, WorkersTypeOK, Current
<1>3. SchedsTypeOK'
  BY DEF TypeOK, SchedsTypeOK, WorkerLoad
<1>4. HistoryTypeOK'
  BY DEF TypeOK, HistoryTypeOK, WorkerLoad
<1> QED
  BY <1>1, <1>2, <1>3, <1>4 DEF TypeOK

LEMMA WorkerStartType ==
  ASSUME TypeOK, NEW w \in Workers, WorkerStart(w) \/ WorkerTerminate(w)
  PROVE  TypeOK'
<1> USE DEF WorkerStart, WorkerTerminate, queues, slocals, history
<1>1. SharedTypeOK'
  BY DEF TypeOK, SharedTypeOK
<1>2. WorkersTypeOK'
  BY DEF TypeOK, WorkersTypeOK, Current
<1>3. SchedsTypeOK'
  BY DEF TypeOK, SchedsTypeOK
<1>4. HistoryTypeOK'
  BY DEF TypeOK, HistoryTypeOK
<1> QED
  BY <1>1, <1>2, <1>3, <1>4 DEF TypeOK

(* A running task triggers one of the graph's events.                      *)
LEMMA TriggerIsEvent ==
  ASSUME TypeOK, NEW w \in Workers,
         wpc[w] \in {"run", "reserve", "store", "publish"}
  PROVE  /\ Current(w).pos \in GraphTasks
         /\ trigger_event[Current(w).pos] \in Events
         /\ task_ids[w] # <<>>
<1>1. Current(w).pos \in GraphTasks /\ task_ids[w] # <<>>
  BY DEF TypeOK, WorkersTypeOK
<1>2. trigger_event[Current(w).pos] \in 1..EndEvent
  BY <1>1, GraphAssumption
<1> QED
  BY <1>1, <1>2, SizeAssumption DEF Events, EndEvent

LEMMA WorkerTriggerType ==
  ASSUME TypeOK, NEW w \in Workers, WorkerTrigger(w)
  PROVE  TypeOK'
<1> USE DEF queues, slocals
<1> DEFINE e == trigger_event[Current(w).pos]
<1>1. /\ Current(w).pos \in GraphTasks /\ e \in Events /\ task_ids[w] # <<>>
  BY TriggerIsEvent DEF WorkerTrigger
<1>2. /\ wpc[w] = "run"
      /\ all_event_counters' = [all_event_counters EXCEPT ![e] = @ + 1]
      /\ finished' = [finished EXCEPT ![Current(w).pos] = @ + 1]
      /\ \/ /\ wpc' = [wpc EXCEPT ![w] = "reserve"]
            /\ task_ids' = task_ids
         \/ /\ wpc' = [wpc EXCEPT ![w] = AfterTask(w)]
            /\ task_ids' = [task_ids EXCEPT ![w] = Tail(@)]
      /\ UNCHANGED <<queues, next_task_pos, last_task_pos, wslot, slocals,
                     launches, batches, mode>>
  BY DEF WorkerTrigger
<1> HIDE DEF e
<1>3. SharedTypeOK'
  BY <1>1, <1>2 DEF TypeOK, SharedTypeOK
<1>4. WorkersTypeOK'
  <2>1. CASE wpc' = [wpc EXCEPT ![w] = "reserve"] /\ task_ids' = task_ids
    BY <1>1, <1>2, <2>1 DEF TypeOK, WorkersTypeOK, Current
  <2>2. CASE wpc' = [wpc EXCEPT ![w] = AfterTask(w)] /\ task_ids' = [task_ids EXCEPT ![w] = Tail(@)]
    BY <1>1, <1>2, <2>2, AfterTaskType DEF TypeOK, WorkersTypeOK, Current
  <2> QED
    BY <1>2, <2>1, <2>2
<1>5. SchedsTypeOK'
  BY <1>2 DEF TypeOK, SchedsTypeOK
<1>6. HistoryTypeOK'
  BY <1>1, <1>2 DEF TypeOK, HistoryTypeOK
<1> QED
  BY <1>3, <1>4, <1>5, <1>6 DEF TypeOK

LEMMA WorkerReserveType ==
  ASSUME TypeOK, NEW w \in Workers, WorkerReserve(w)
  PROVE  TypeOK'
<1> USE DEF WorkerReserve, slocals, history
<1>1. EventQueue(w) \in SchedQueues
  BY EventQueueExists
<1>2. SharedTypeOK'
  BY <1>1 DEF TypeOK, SharedTypeOK
<1>3. WorkersTypeOK'
  BY <1>1 DEF TypeOK, WorkersTypeOK, SharedTypeOK, Current
<1>4. SchedsTypeOK'
  BY DEF TypeOK, SchedsTypeOK
<1>5. HistoryTypeOK'
  BY DEF TypeOK, HistoryTypeOK
<1> QED
  BY <1>2, <1>3, <1>4, <1>5 DEF TypeOK

LEMMA WorkerStoreType ==
  ASSUME TypeOK, NEW w \in Workers, WorkerStore(w)
  PROVE  TypeOK'
<1> USE DEF WorkerStore, slocals, history
<1>1. EventQueue(w) \in SchedQueues
  BY EventQueueExists
<1>2. wslot[w] % per_sched_queue_len \in 0..per_sched_queue_len - 1
  BY RingIndex, SizeAssumption DEF TypeOK, WorkersTypeOK
<1>3. trigger_event[Current(w).pos] \in Events
  BY TriggerIsEvent
<1>4. SharedTypeOK'
  BY <1>1, <1>2, <1>3 DEF TypeOK, SharedTypeOK, Rings
<1>5. WorkersTypeOK'
  BY DEF TypeOK, WorkersTypeOK, Current
<1>6. SchedsTypeOK'
  BY DEF TypeOK, SchedsTypeOK
<1>7. HistoryTypeOK'
  BY DEF TypeOK, HistoryTypeOK
<1> QED
  BY <1>4, <1>5, <1>6, <1>7 DEF TypeOK

LEMMA WorkerPublishType ==
  ASSUME TypeOK, NEW w \in Workers, WorkerPublish(w)
  PROVE  TypeOK'
<1> USE DEF WorkerPublish, slocals, history
<1>1. EventQueue(w) \in SchedQueues
  BY EventQueueExists
<1>2. task_ids[w] # <<>>
  BY TriggerIsEvent
<1>3. SharedTypeOK'
  BY <1>1 DEF TypeOK, SharedTypeOK, WorkersTypeOK
<1>4. WorkersTypeOK'
  BY <1>2, AfterTaskType DEF TypeOK, WorkersTypeOK, Current
<1>5. SchedsTypeOK'
  BY DEF TypeOK, SchedsTypeOK
<1>6. HistoryTypeOK'
  BY DEF TypeOK, HistoryTypeOK
<1> QED
  BY <1>3, <1>4, <1>5, <1>6 DEF TypeOK

LEMMA WorkerStepType ==
  ASSUME TypeOK, NEW w \in Workers, WorkerStep(w)
  PROVE  TypeOK'
BY WorkerPollType, WorkerLoadType, WorkerStartType, WorkerTriggerType,
   WorkerReserveType, WorkerStoreType, WorkerPublishType DEF WorkerStep
-----------------------------------------------------------------------------
(* The scheduler's steps.                                                  *)

LEMMA SchedPollType ==
  ASSUME TypeOK, NEW s \in Schedulers, SchedPoll(s)
  PROVE  TypeOK'
<1> DEFINE i == queue_idx[s]
           q == QueueOf(s, i)
           last == IF cur_event_pos[s][i] = last_event_pos[s][i]
                   THEN last_ready_event_id[q] ELSE last_event_pos[s][i]
<1> USE DEF queues, wlocals, history
<1>1. i \in 0..1 /\ q \in SchedQueues
  BY QueueOfExists DEF TypeOK, SchedsTypeOK
<1>2. last \in Nat
  BY <1>1 DEF TypeOK, SchedsTypeOK, SharedTypeOK
<1>3. /\ spc[s] = "poll"
      /\ last_event_pos' = [last_event_pos EXCEPT ![s][i] = last]
      /\ \/ /\ spc' = [spc EXCEPT ![s] = "read"]
            /\ UNCHANGED queue_idx
         \/ /\ queue_idx' = [queue_idx EXCEPT ![s] = 1 - i]
            /\ UNCHANGED spc
      /\ UNCHANGED <<queues, all_event_counters, wlocals, cur_event_pos,
                     iteration_num, next_worker, next_free_task_pos, todo,
                     sslot, launches, history>>
  BY DEF SchedPoll
<1> HIDE DEF i, last
<1>4. SharedTypeOK'
  BY <1>3 DEF TypeOK, SharedTypeOK
<1>5. WorkersTypeOK'
  BY <1>3 DEF TypeOK, WorkersTypeOK, Current
<1>6. SchedsTypeOK'
  <2>1. last_event_pos' \in [Schedulers -> [0..1 -> Nat]]
    BY <1>1, <1>2, <1>3 DEF TypeOK, SchedsTypeOK
  <2>2. CASE spc' = [spc EXCEPT ![s] = "read"] /\ UNCHANGED queue_idx
    BY <1>3, <2>1, <2>2 DEF TypeOK, SchedsTypeOK
  <2>3. CASE queue_idx' = [queue_idx EXCEPT ![s] = 1 - i] /\ UNCHANGED spc
    <3>1. 1 - i \in 0..1
      BY <1>1
    <3> QED
      BY <1>3, <2>1, <2>3, <3>1 DEF TypeOK, SchedsTypeOK
  <2> QED
    BY <1>3, <2>2, <2>3
<1>7. HistoryTypeOK'
  BY <1>3 DEF TypeOK, HistoryTypeOK
<1> QED
  BY <1>4, <1>5, <1>6, <1>7 DEF TypeOK

LEMMA ReadTerminationType ==
  ASSUME TypeOK, NEW s \in Schedulers, ReadTermination(s)
  PROVE  TypeOK'
<1> USE DEF ReadTermination, queues, wlocals, history
<1>1. SharedTypeOK'
  BY DEF TypeOK, SharedTypeOK
<1>2. WorkersTypeOK'
  BY DEF TypeOK, WorkersTypeOK, Current
<1>3. SchedsTypeOK'
  <2> DEFINE own == my_workers(s)
  <2>1. own \subseteq Workers /\ Workers \subseteq Nat
    BY MyWorkersAreWorkers DEF Workers
  <2>2. /\ todo' = [todo EXCEPT ![s] = own]
        /\ \/ spc' = [spc EXCEPT ![s] = "exited"]
           \/ spc' = [spc EXCEPT ![s] = "stop"]
        /\ UNCHANGED <<queue_idx, cur_event_pos, last_event_pos, iteration_num,
                       next_worker, next_free_task_pos, sslot>>
    OBVIOUS
  <2> HIDE DEF own
  <2>3. /\ spc[s] = "read"
        /\ todo' \in [Schedulers -> SUBSET Nat]
    BY <2>1, <2>2 DEF TypeOK, SchedsTypeOK
  <2>4. CASE spc' = [spc EXCEPT ![s] = "exited"]
    BY <2>2, <2>3, <2>4 DEF TypeOK, SchedsTypeOK
  <2>5. CASE spc' = [spc EXCEPT ![s] = "stop"]
    BY <2>1, <2>2, <2>3, <2>5 DEF TypeOK, SchedsTypeOK
  <2> QED
    BY <2>2, <2>4, <2>5
<1>4. HistoryTypeOK'
  BY DEF TypeOK, HistoryTypeOK
<1> QED
  BY <1>1, <1>2, <1>3, <1>4 DEF TypeOK

(* Begin starts on ids that are in range for where it goes, or goes on to  *)
(* the next event.                                                         *)
LEMMA BeginType ==
  ASSUME TypeOK, NEW s \in Schedulers, NEW ids, NEW pc, Begin(s, pc, ids),
         \/ pc = "launch" /\ ids \subseteq GraphTasks
         \/ pc = "halt" /\ ids \subseteq Schedulers,
         queue_idx' = queue_idx, last_event_pos' = last_event_pos,
         iteration_num' \in [Schedulers -> Nat],
         next_worker' \in [Schedulers -> Nat],
         next_free_task_pos' \in [Workers -> Nat],
         sslot' = sslot
  PROVE  SchedsTypeOK'
<1>1. GraphTasks \subseteq Nat /\ Schedulers \subseteq Nat
  BY DEF GraphTasks, Schedulers
<1>2. queue_idx[s] \in 0..1
  BY DEF TypeOK, SchedsTypeOK
<1>3. CASE ids # {}
  <2>1. /\ todo' = [todo EXCEPT ![s] = ids]
        /\ spc' = [spc EXCEPT ![s] = pc]
        /\ UNCHANGED cur_event_pos
    BY <1>3 DEF Begin
  <2> QED
    BY <1>1, <2>1 DEF TypeOK, SchedsTypeOK
<1>4. CASE ids = {}
  <2>1. /\ todo' = [todo EXCEPT ![s] = ids]
        /\ spc' = [spc EXCEPT ![s] = "poll"]
        /\ cur_event_pos' = [cur_event_pos EXCEPT ![s][queue_idx[s]] = @ + 1]
    BY <1>4 DEF Begin, NextEvent
  <2>2. cur_event_pos' \in [Schedulers -> [0..1 -> Nat]]
    BY <1>2, <2>1 DEF TypeOK, SchedsTypeOK
  <2>3. todo' \in [Schedulers -> SUBSET Nat]
    BY <1>1, <1>4, <2>1 DEF TypeOK, SchedsTypeOK
  <2> QED
    BY <1>4, <2>1, <2>2, <2>3 DEF TypeOK, SchedsTypeOK
<1> QED
  BY <1>3, <1>4

LEMMA ReadEndOfTaskGraphType ==
  ASSUME TypeOK, NEW s \in Schedulers, ReadEndOfTaskGraph(s)
  PROVE  TypeOK'
<1> USE DEF ReadEndOfTaskGraph, queues, wlocals
<1>1. SharedTypeOK'
  BY DEF TypeOK, SharedTypeOK
<1>2. WorkersTypeOK'
  BY DEF TypeOK, WorkersTypeOK, Current
<1>3. SchedsTypeOK'
  <2>1. Begin(s, "launch", {1}) \/ Begin(s, "halt", Schedulers)
    OBVIOUS
  <2>2. {1} \subseteq GraphTasks
    BY SizeAssumption DEF GraphTasks
  <2>3. /\ queue_idx' = queue_idx /\ last_event_pos' = last_event_pos
        /\ iteration_num' \in [Schedulers -> Nat]
        /\ next_worker' \in [Schedulers -> Nat]
        /\ next_free_task_pos' \in [Workers -> Nat]
        /\ sslot' = sslot
    BY DEF TypeOK, SchedsTypeOK
  <2> QED
    BY <2>1, <2>2, <2>3, BeginType
<1>4. HistoryTypeOK'
  BY SizeAssumption DEF TypeOK, HistoryTypeOK
<1> QED
  BY <1>1, <1>2, <1>3, <1>4 DEF TypeOK

LEMMA ReadLaunchDependentType ==
  ASSUME TypeOK, NEW s \in Schedulers, ReadLaunchDependent(s)
  PROVE  TypeOK'
<1> USE DEF ReadLaunchDependent, queues, wlocals, history
<1>1. SharedTypeOK'
  BY DEF TypeOK, SharedTypeOK
<1>2. WorkersTypeOK'
  BY DEF TypeOK, WorkersTypeOK, Current
<1>3. SchedsTypeOK'
  <2>1. MyPositions(s) \subseteq GraphTasks
    BY SizeAssumption DEF MyPositions, GraphTasks
  <2>2. /\ queue_idx' = queue_idx /\ last_event_pos' = last_event_pos
        /\ iteration_num' \in [Schedulers -> Nat]
        /\ next_worker' \in [Schedulers -> Nat]
        /\ next_free_task_pos' \in [Workers -> Nat]
        /\ sslot' = sslot
    BY DEF TypeOK, SchedsTypeOK
  <2> QED
    BY <2>1, <2>2, BeginType
<1>4. HistoryTypeOK'
  BY DEF TypeOK, HistoryTypeOK
<1> QED
  BY <1>1, <1>2, <1>3, <1>4 DEF TypeOK

(* Storing a task keeps the ring typed; publishing keeps the cursors typed.*)
LEMMA WriteTaskType ==
  ASSUME TypeOK, NEW w, NEW task \in TaskIds, WriteTask(w, task)
  PROVE  worker_queues' \in Rings(Workers, per_worker_queue_len, TaskIds \cup {Unwritten})
<1>1. CASE w \in Workers
  <2>1. next_free_task_pos[w] % per_worker_queue_len \in 0..per_worker_queue_len - 1
    BY <1>1, RingIndex, SizeAssumption DEF TypeOK, SchedsTypeOK
  <2> QED
    BY <1>1, <2>1 DEF TypeOK, SharedTypeOK, Rings, WriteTask
<1>2. CASE w \notin Workers
  BY <1>2 DEF TypeOK, SharedTypeOK, Rings, WriteTask
<1> QED
  BY <1>1, <1>2

LEMMA PublishTaskType ==
  ASSUME TypeOK, NEW w, PublishTask(w)
  PROVE  /\ next_free_task_pos' \in [Workers -> Nat]
         /\ last_ready_task_id' \in [Workers -> Nat]
<1>1. ASSUME NEW f \in [Workers -> Nat]
      PROVE  [f EXCEPT ![w] = f[w] + 1] \in [Workers -> Nat]
  <2>1. CASE w \in Workers
    BY <2>1
  <2>2. CASE w \notin Workers
    <3> DEFINE g == [f EXCEPT ![w] = f[w] + 1]
    <3>1. DOMAIN g = Workers /\ \A x \in Workers : g[x] = f[x]
      BY <2>2
    <3>2. g = f
      BY <3>1
    <3> QED
      BY <3>2
  <2> QED
    BY <2>1, <2>2
<1>2. /\ next_free_task_pos \in [Workers -> Nat]
      /\ last_ready_task_id \in [Workers -> Nat]
  BY DEF TypeOK, SharedTypeOK, SchedsTypeOK
<1>3. /\ next_free_task_pos' = [next_free_task_pos EXCEPT ![w] = next_free_task_pos[w] + 1]
      /\ last_ready_task_id' = [last_ready_task_id EXCEPT ![w] = last_ready_task_id[w] + 1]
  BY DEF PublishTask
<1>4. next_free_task_pos' \in [Workers -> Nat]
  BY <1>1, <1>2, <1>3
<1>5. last_ready_task_id' \in [Workers -> Nat]
  BY <1>1, <1>2, <1>3
<1> QED
  BY <1>4, <1>5

LEMMA LaunchStoreType ==
  ASSUME TypeOK, NEW s \in Schedulers, LaunchStore(s)
  PROVE  TypeOK'
<1> USE DEF wlocals, history
<1>1. PICK p \in todo[s] : WriteTask(next_worker[s], compute_task_id(s, p))
  BY DEF LaunchStore
<1>2. /\ spc[s] = "launch"
      /\ spc' = [spc EXCEPT ![s] = "launched"]
      /\ UNCHANGED <<last_ready_task_id, sched_queues, last_ready_event_id,
                     next_free_event_id, all_event_counters, wlocals, queue_idx,
                     cur_event_pos, last_event_pos, iteration_num, next_worker,
                     next_free_task_pos, todo, sslot, launches, history>>
  BY DEF LaunchStore
<1>3. p \in GraphTasks /\ iteration_num[s] \in Nat
  BY <1>2 DEF TypeOK, SchedsTypeOK
<1>4. compute_task_id(s, p) \in TaskIds
  BY <1>3 DEF compute_task_id, TaskIds, GraphTasks
<1>5. SharedTypeOK'
  BY <1>1, <1>2, <1>4, WriteTaskType DEF TypeOK, SharedTypeOK
<1>6. WorkersTypeOK'
  BY <1>2 DEF TypeOK, WorkersTypeOK, Current
<1>7. SchedsTypeOK'
  BY <1>2 DEF TypeOK, SchedsTypeOK
<1>8. HistoryTypeOK'
  BY <1>2 DEF TypeOK, HistoryTypeOK
<1> QED
  BY <1>5, <1>6, <1>7, <1>8 DEF TypeOK

LEMMA LaunchPublishType ==
  ASSUME TypeOK, NEW s \in Schedulers, LaunchPublish(s)
  PROVE  TypeOK'
<1> USE DEF LaunchPublish, wlocals, history
<1>1. /\ next_free_task_pos' \in [Workers -> Nat]
      /\ last_ready_task_id' \in [Workers -> Nat]
  BY PublishTaskType
<1>2. SharedTypeOK'
  BY <1>1 DEF TypeOK, SharedTypeOK
<1>3. WorkersTypeOK'
  BY DEF TypeOK, WorkersTypeOK, Current
<1>4. SchedsTypeOK'
  <2>1. PICK p \in todo[s] : Begin(s, "launch", todo[s] \ {p})
    OBVIOUS
  <2>2. todo[s] \ {p} \subseteq GraphTasks
    BY DEF TypeOK, SchedsTypeOK
  <2>3. next_worker' \in [Schedulers -> Nat]
    BY MyWorkersAreWorkers DEF TypeOK, SchedsTypeOK
  <2>4. /\ queue_idx' = queue_idx /\ last_event_pos' = last_event_pos
        /\ iteration_num' \in [Schedulers -> Nat]
        /\ sslot' = sslot
    BY DEF TypeOK, SchedsTypeOK
  <2> QED
    BY <1>1, <2>1, <2>2, <2>3, <2>4, BeginType
<1>5. HistoryTypeOK'
  BY DEF TypeOK, HistoryTypeOK
<1> QED
  BY <1>2, <1>3, <1>4, <1>5 DEF TypeOK

LEMMA StopStoreType ==
  ASSUME TypeOK, NEW s \in Schedulers, StopStore(s)
  PROVE  TypeOK'
<1> USE DEF StopStore, wlocals, history
<1>1. TerminateTask \in TaskIds
  BY SizeAssumption DEF TerminateTask, TaskIds
<1>2. SharedTypeOK'
  BY <1>1, WriteTaskType DEF TypeOK, SharedTypeOK
<1>3. WorkersTypeOK'
  BY DEF TypeOK, WorkersTypeOK, Current
<1>4. SchedsTypeOK'
  BY DEF TypeOK, SchedsTypeOK
<1>5. HistoryTypeOK'
  BY DEF TypeOK, HistoryTypeOK
<1> QED
  BY <1>2, <1>3, <1>4, <1>5 DEF TypeOK

(* While the schedulers are being told, the ids are queues.                *)
LEMMA HaltedIsQueue ==
  ASSUME TypeOK, NEW s \in Schedulers, NEW q \in todo[s],
         spc[s] \in {"halt", "haltStore", "haltPublish"}
  PROVE  q \in SchedQueues
<1>1. q \in Schedulers
  BY DEF TypeOK, SchedsTypeOK
<1> QED
  BY <1>1, SizeAssumption DEF Schedulers, SchedQueues

LEMMA StopPublishType ==
  ASSUME TypeOK, NEW s \in Schedulers, StopPublish(s)
  PROVE  TypeOK'
<1> USE DEF StopPublish, wlocals, history
<1>1. PICK w \in todo[s] :
        /\ PublishTask(w)
        /\ todo' = [todo EXCEPT ![s] = @ \ {w}]
        /\ spc' = [spc EXCEPT ![s] = IF todo[s] = {w} THEN "exited" ELSE "stop"]
  OBVIOUS
<1>2. /\ next_free_task_pos' \in [Workers -> Nat]
      /\ last_ready_task_id' \in [Workers -> Nat]
  BY <1>1, PublishTaskType
<1>3. SharedTypeOK'
  BY <1>2 DEF TypeOK, SharedTypeOK
<1>4. WorkersTypeOK'
  BY DEF TypeOK, WorkersTypeOK, Current
<1>5. SchedsTypeOK'
  BY <1>1, <1>2 DEF TypeOK, SchedsTypeOK
<1>6. HistoryTypeOK'
  BY DEF TypeOK, HistoryTypeOK
<1> QED
  BY <1>3, <1>4, <1>5, <1>6 DEF TypeOK

LEMMA HaltReserveType ==
  ASSUME TypeOK, NEW s \in Schedulers, HaltReserve(s)
  PROVE  TypeOK'
<1> USE DEF HaltReserve, wlocals, history
<1>1. PICK q \in todo[s] :
        /\ sslot' = [sslot EXCEPT ![s] = next_free_event_id[q]]
        /\ next_free_event_id' = [next_free_event_id EXCEPT ![q] = @ + 1]
  OBVIOUS
<1>2. q \in SchedQueues
  BY HaltedIsQueue
<1>3. SharedTypeOK'
  BY <1>1, <1>2 DEF TypeOK, SharedTypeOK
<1>4. WorkersTypeOK'
  BY DEF TypeOK, WorkersTypeOK, Current
<1>5. SchedsTypeOK'
  BY <1>1, <1>2 DEF TypeOK, SchedsTypeOK, SharedTypeOK
<1>6. HistoryTypeOK'
  BY DEF TypeOK, HistoryTypeOK
<1> QED
  BY <1>3, <1>4, <1>5, <1>6 DEF TypeOK

LEMMA HaltStoreType ==
  ASSUME TypeOK, NEW s \in Schedulers, HaltStore(s)
  PROVE  TypeOK'
<1> USE DEF HaltStore, wlocals, history
<1>1. PICK q \in todo[s] :
        sched_queues' = [sched_queues EXCEPT ![q][sslot[s] % per_sched_queue_len] = 0]
  OBVIOUS
<1>2. /\ q \in SchedQueues /\ 0 \in Events
      /\ sslot[s] % per_sched_queue_len \in 0..per_sched_queue_len - 1
  <2>1. q \in SchedQueues
    BY HaltedIsQueue
  <2>2. sslot[s] \in Nat
    BY DEF TypeOK, SchedsTypeOK
  <2>3. 0 \in Events
    BY SizeAssumption DEF Events
  <2> QED
    BY <2>1, <2>2, <2>3, RingIndex, SizeAssumption
<1>3. SharedTypeOK'
  BY <1>1, <1>2 DEF TypeOK, SharedTypeOK, Rings
<1>4. WorkersTypeOK'
  BY DEF TypeOK, WorkersTypeOK, Current
<1>5. SchedsTypeOK'
  BY DEF TypeOK, SchedsTypeOK
<1>6. HistoryTypeOK'
  BY DEF TypeOK, HistoryTypeOK
<1> QED
  BY <1>3, <1>4, <1>5, <1>6 DEF TypeOK

LEMMA HaltPublishType ==
  ASSUME TypeOK, NEW s \in Schedulers, HaltPublish(s)
  PROVE  TypeOK'
<1> USE DEF HaltPublish, wlocals, history
<1>1. PICK q \in todo[s] :
        /\ last_ready_event_id' = [last_ready_event_id EXCEPT ![q] = sslot[s] + 1]
        /\ Begin(s, "halt", todo[s] \ {q})
  OBVIOUS
<1>2. todo[s] \ {q} \subseteq Schedulers /\ sslot[s] + 1 \in Nat
  BY DEF TypeOK, SchedsTypeOK
<1>3. SharedTypeOK'
  BY <1>1, <1>2 DEF TypeOK, SharedTypeOK
<1>4. WorkersTypeOK'
  BY DEF TypeOK, WorkersTypeOK, Current
<1>5. SchedsTypeOK'
  <2>1. /\ queue_idx' = queue_idx /\ last_event_pos' = last_event_pos
        /\ iteration_num' \in [Schedulers -> Nat]
        /\ next_worker' \in [Schedulers -> Nat]
        /\ next_free_task_pos' \in [Workers -> Nat]
        /\ sslot' = sslot
    BY DEF TypeOK, SchedsTypeOK
  <2> QED
    BY <1>1, <1>2, <2>1, BeginType
<1>6. HistoryTypeOK'
  BY DEF TypeOK, HistoryTypeOK
<1> QED
  BY <1>3, <1>4, <1>5, <1>6 DEF TypeOK

LEMMA SchedStepType ==
  ASSUME TypeOK, NEW s \in Schedulers, SchedStep(s)
  PROVE  TypeOK'
BY SchedPollType, ReadTerminationType, ReadEndOfTaskGraphType,
   ReadLaunchDependentType, LaunchStoreType, LaunchPublishType, StopStoreType,
   StopPublishType, HaltReserveType, HaltStoreType, HaltPublishType DEF SchedStep

LEMMA StutterType == TypeOK /\ UNCHANGED vars => TypeOK'
BY DEF TypeOK, SharedTypeOK, WorkersTypeOK, SchedsTypeOK, HistoryTypeOK, Current,
       vars, queues, wlocals, slocals, history

LEMMA StepType == TypeOK /\ [Next]_vars => TypeOK'
BY LaunchType, WorkerStepType, SchedStepType, StutterType DEF Next, Idle

(* No store of a worker, a scheduler or the host takes a queue, a cursor   *)
(* or a counter out of its range, whatever the sizes and the graph: tasks  *)
(* stay positions of the graph, events stay events of the graph, and every *)
(* event is sent to a queue that exists.                                   *)
THEOREM TypeCorrect == Spec => []TypeOK
<1>1. Init => TypeOK
  BY InitType
<1>2. TypeOK /\ [Next]_vars => TypeOK'
  BY StepType
<1> QED
  BY <1>1, <1>2, PTL DEF Spec
-----------------------------------------------------------------------------
(* Who writes which worker queue.                                          *)

(* Holds of a scheduler that has no workers because nobody ever sends it   *)
(* the end event: the host seeds scheduler 0 and the workers send it to    *)
(* get_rand_sched_id of themselves, and both have workers.                 *)
NextWorkerOwn ==
  \A s \in Schedulers : my_workers(s) # {} => next_worker[s] \in my_workers(s)
LaunchersServe ==
  \A s \in Schedulers :
    /\ spc[s] \in {"launch", "launched"} => my_workers(s) # {}
    /\ spc[s] \in {"stop", "stopped"} => todo[s] \subseteq my_workers(s)
EndEventsServed ==
  \A q \in SchedQueues, i \in 0..per_sched_queue_len - 1 :
    sched_queues[q][i] = EndEvent => q \in Schedulers /\ my_workers(q) # {}
OwnInv == NextWorkerOwn /\ LaunchersServe /\ EndEventsServed

LEMMA OwnWorkersInterval ==
  ASSUME NEW s \in Schedulers, my_workers(s) # {}
  PROVE  /\ my_first_worker(s) \in my_workers(s)
         /\ \A w \in my_workers(s) : w # my_last_worker(s) - 1 => w + 1 \in my_workers(s)
<1>1. /\ my_first_worker(s) \in Nat /\ my_last_worker(s) \in Nat
      /\ my_workers(s) = my_first_worker(s) .. my_last_worker(s) - 1
  BY MyWorkersAreWorkers DEF my_workers, my_first_worker, my_last_worker, OwnIds
<1> QED
  BY <1>1

(* Scheduler 0 has workers.                                                *)
LEMMA FirstServes == 0 \in Schedulers /\ my_workers(0) # {}
<1> DEFINE c == (NumWorkers + NumSchedulers - 1) \div NumSchedulers
<1>1. /\ NumSchedulers \in Nat /\ NumSchedulers > 0 /\ NumWorkers \in Nat /\ NumWorkers > 0
      /\ NumWorkers + NumSchedulers - 1 \in Nat
  BY SizeAssumption
<1>2. c \in Nat
  BY <1>1, DivMod
<1>3. 0 \in Workers
  BY <1>1 DEF Workers
<1>4. get_rand_sched_id(0, NumWorkers, NumSchedulers) = 0
  <2>1. NumWorkers \div NumSchedulers \in Nat /\ NumWorkers % NumSchedulers \in Nat
        /\ NumWorkers = (NumWorkers \div NumSchedulers) * NumSchedulers
                         + (NumWorkers % NumSchedulers)
    BY <1>1, DivMod
  <2>2. c = (NumWorkers \div NumSchedulers)
             + (IF NumWorkers % NumSchedulers = 0 THEN 0 ELSE 1)
    BY <1>1, CeilShare
  <2>3. CASE NumWorkers % NumSchedulers # 0
    <3>1. c > 0
      BY <2>1, <2>2, <2>3
    <3> HIDE DEF c
    <3>2. 0 \div c = 0
      BY <1>2, <3>1
    <3> QED
      BY <3>2 DEF get_rand_sched_id, c
  <2>4. CASE NumWorkers % NumSchedulers = 0
    <3>1. (NumWorkers \div NumSchedulers) # 0
      BY <1>1, <2>1, <2>4
    <3>2. c > 0
      BY <2>1, <2>2, <2>4, <3>1
    <3> HIDE DEF c
    <3>3. 0 \div c = 0
      BY <1>2, <3>2
    <3> QED
      BY <3>3 DEF get_rand_sched_id, c
  <2> QED
    BY <2>3, <2>4
<1> QED
  BY <1>3, <1>4, RandIsServing

LEMMA InitOwn == Init => OwnInv
<1> SUFFICES ASSUME Init PROVE OwnInv
  OBVIOUS
<1>1. NextWorkerOwn
  BY OwnWorkersInterval DEF Init, NextWorkerOwn
<1>2. LaunchersServe
  BY DEF Init, LaunchersServe
<1>3. EndEventsServed
  BY SizeAssumption DEF Init, EndEventsServed, Undefined, EndEvent
<1> QED
  BY <1>1, <1>2, <1>3 DEF OwnInv

LEMMA LaunchOwn == TypeOK /\ OwnInv /\ Launch => OwnInv'
<1> SUFFICES ASSUME TypeOK, OwnInv, Launch PROVE OwnInv'
  OBVIOUS
<1>1. NextWorkerOwn'
  <2> SUFFICES ASSUME NEW s \in Schedulers, my_workers(s) # {}
               PROVE  next_worker'[s] \in my_workers(s)
    BY DEF NextWorkerOwn, my_workers
  <2> QED
    BY OwnWorkersInterval DEF Launch
<1>2. LaunchersServe'
  BY DEF Launch, LaunchersServe
<1>3. EndEventsServed'
  BY FirstServes DEF OwnInv, EndEventsServed, Launch, prepare_kernel, TypeOK,
                     SharedTypeOK, Rings
<1> QED
  BY <1>1, <1>2, <1>3 DEF OwnInv

(* A worker sends the end event only to a scheduler with workers, and      *)
(* nothing but event 1 to the broadcast queue.                             *)
LEMMA WorkerOwn ==
  ASSUME TypeOK, OwnInv, NEW w \in Workers, WorkerStep(w)
  PROVE  OwnInv'
<1> USE DEF queues, slocals, history
<1>1. UNCHANGED <<spc, next_worker, todo>>
  BY DEF WorkerStep, WorkerPoll, WorkerLoad, WorkerStart, WorkerTerminate,
         WorkerTrigger, WorkerReserve, WorkerStore, WorkerPublish
<1>2. NextWorkerOwn' /\ LaunchersServe'
  BY <1>1 DEF OwnInv, NextWorkerOwn, LaunchersServe, my_workers
<1>3. EndEventsServed'
  <2>1. CASE WorkerStore(w)
    <3> DEFINE e == trigger_event[Current(w).pos]
    <3>1. /\ EventQueue(w) \in SchedQueues
          /\ wslot[w] % per_sched_queue_len \in 0..per_sched_queue_len - 1
      BY EventQueueExists, RingIndex, SizeAssumption DEF TypeOK, WorkersTypeOK
    <3>2. e = EndEvent => EventQueue(w) \in Schedulers /\ my_workers(EventQueue(w)) # {}
      <4>1. e = EndEvent => EventType(e) # "EVENT_LAUNCH_DEPENDENT_TASKS"
        BY SizeAssumption DEF EventType, EndEvent
      <4> QED
        BY <4>1, RandIsServing DEF EventQueue
    <3>3. sched_queues' = [sched_queues EXCEPT
                             ![EventQueue(w)][wslot[w] % per_sched_queue_len] = e]
      BY <2>1 DEF WorkerStore
    <3> HIDE DEF e
    <3> QED
      BY <3>1, <3>2, <3>3 DEF OwnInv, EndEventsServed, TypeOK, SharedTypeOK, Rings
  <2>2. CASE ~WorkerStore(w)
    <3>1. UNCHANGED sched_queues
      BY <2>2 DEF WorkerStep, WorkerPoll, WorkerLoad, WorkerStart, WorkerTerminate,
                  WorkerTrigger, WorkerReserve, WorkerPublish
    <3> QED
      BY <3>1 DEF OwnInv, EndEventsServed
  <2> QED
    BY <2>1, <2>2
<1> QED
  BY <1>2, <1>3 DEF OwnInv

(* What Begin may turn a scheduler into.                                   *)
LEMMA BeginOwn ==
  ASSUME TypeOK, LaunchersServe, NEW s \in Schedulers, NEW ids, NEW pc,
         Begin(s, pc, ids),
         \/ pc = "halt"
         \/ pc = "launch" /\ (ids # {} => my_workers(s) # {})
  PROVE  LaunchersServe'
<1>1. spc \in [Schedulers -> {"exited", "poll", "read", "launch", "launched", "stop",
                             "stopped", "halt", "haltStore", "haltPublish"}]
      /\ todo \in [Schedulers -> SUBSET Nat]
  BY DEF TypeOK, SchedsTypeOK
<1>2. /\ todo' = [todo EXCEPT ![s] = ids]
      /\ \/ ids # {} /\ spc' = [spc EXCEPT ![s] = pc]
         \/ spc' = [spc EXCEPT ![s] = "poll"]
  BY DEF Begin, NextEvent
<1> QED
  BY <1>1, <1>2 DEF LaunchersServe, my_workers

LEMMA ReadEndOwn ==
  ASSUME TypeOK, OwnInv, NEW s \in Schedulers, ReadEndOfTaskGraph(s)
  PROVE  OwnInv'
<1> USE DEF queues, slocals
<1>1. my_workers(s) # {}
  <2> DEFINE q == QueueOf(s, queue_idx[s])
             i == cur_event_pos[s][queue_idx[s]] % per_sched_queue_len
  <2>1. queue_idx[s] \in 0..1 /\ cur_event_pos[s][queue_idx[s]] \in Nat
    BY DEF TypeOK, SchedsTypeOK
  <2>2. q \in SchedQueues /\ i \in 0..per_sched_queue_len - 1
    BY <2>1, QueueOfExists, RingIndex, SizeAssumption
  <2>3. sched_queues[q][i] = EndEvent
    BY SizeAssumption DEF ReadEndOfTaskGraph, EventRead, EventType, EndEvent
  <2>4. q \in Schedulers /\ my_workers(q) # {}
    BY <2>2, <2>3 DEF OwnInv, EndEventsServed
  <2>5. q = s
    BY <2>4, SizeAssumption DEF QueueOf, BcastQueue, Schedulers
  <2> QED
    BY <2>4, <2>5
<1>2. Begin(s, "launch", {1}) \/ Begin(s, "halt", Schedulers)
  BY DEF ReadEndOfTaskGraph
<1>3. LaunchersServe'
  BY <1>1, <1>2, BeginOwn DEF OwnInv
<1>4. UNCHANGED <<next_worker, sched_queues>>
  BY DEF ReadEndOfTaskGraph
<1>5. NextWorkerOwn' /\ EndEventsServed'
  BY <1>4 DEF OwnInv, NextWorkerOwn, EndEventsServed, my_workers
<1> QED
  BY <1>3, <1>5 DEF OwnInv

LEMMA ReadLaunchOwn ==
  ASSUME TypeOK, OwnInv, NEW s \in Schedulers, ReadLaunchDependent(s)
  PROVE  OwnInv'
<1>1. MyPositions(s) # {} => my_workers(s) # {}
  BY DEF MyPositions
<1>2. Begin(s, "launch", MyPositions(s))
  BY DEF ReadLaunchDependent
<1>3. LaunchersServe'
  BY <1>1, <1>2, BeginOwn DEF OwnInv
<1>4. UNCHANGED <<next_worker, sched_queues>>
  BY DEF ReadLaunchDependent, queues
<1>5. NextWorkerOwn' /\ EndEventsServed'
  BY <1>4 DEF OwnInv, NextWorkerOwn, EndEventsServed, my_workers
<1> QED
  BY <1>3, <1>5 DEF OwnInv

LEMMA LaunchPublishOwn ==
  ASSUME TypeOK, OwnInv, NEW s \in Schedulers, LaunchPublish(s)
  PROVE  OwnInv'
<1>1. spc[s] = "launched" /\ my_workers(s) # {}
  BY DEF LaunchPublish, OwnInv, LaunchersServe
<1>2. PICK p \in todo[s] : Begin(s, "launch", todo[s] \ {p})
  BY DEF LaunchPublish
<1>3. LaunchersServe'
  BY <1>1, <1>2, BeginOwn DEF OwnInv
<1>4. NextWorkerOwn'
  <2>1. next_worker[s] \in my_workers(s) /\ next_worker \in [Schedulers -> Nat]
    BY <1>1 DEF OwnInv, NextWorkerOwn, TypeOK, SchedsTypeOK
  <2>2. next_worker' = [next_worker EXCEPT ![s] =
          IF @ = my_last_worker(s) - 1 THEN my_first_worker(s) ELSE @ + 1]
    BY DEF LaunchPublish
  <2>3. next_worker'[s] \in my_workers(s)
    BY <1>1, <2>1, <2>2, OwnWorkersInterval
  <2>4. \A r \in Schedulers : r # s => next_worker'[r] = next_worker[r]
    BY <2>1, <2>2
  <2> QED
    BY <2>3, <2>4 DEF OwnInv, NextWorkerOwn, my_workers
<1>5. EndEventsServed'
  BY DEF LaunchPublish, OwnInv, EndEventsServed, my_workers
<1> QED
  BY <1>3, <1>4, <1>5 DEF OwnInv

(* The steps that store and publish terminate tasks, and those that tell   *)
(* the schedulers to terminate.                                            *)
LEMMA ShutdownOwn ==
  ASSUME TypeOK, OwnInv, NEW s \in Schedulers,
         \/ ReadTermination(s) \/ StopStore(s) \/ StopPublish(s)
         \/ HaltReserve(s) \/ HaltStore(s) \/ HaltPublish(s)
  PROVE  OwnInv'
<1> USE DEF queues
<1>0. spc \in [Schedulers -> {"exited", "poll", "read", "launch", "launched", "stop",
                             "stopped", "halt", "haltStore", "haltPublish"}]
      /\ todo \in [Schedulers -> SUBSET Nat]
  BY DEF TypeOK, SchedsTypeOK
<1>1. UNCHANGED next_worker
  BY DEF ReadTermination, StopStore, StopPublish, HaltReserve, HaltStore, HaltPublish
<1>2. NextWorkerOwn'
  BY <1>1 DEF OwnInv, NextWorkerOwn, my_workers
<1>3. LaunchersServe'
  <2> USE <1>0 DEF OwnInv, LaunchersServe, my_workers
  <2>1. CASE ReadTermination(s)
    BY <2>1 DEF ReadTermination
  <2>2. CASE StopStore(s)
    BY <2>2 DEF StopStore
  <2>3. CASE StopPublish(s)
    BY <2>3 DEF StopPublish
  <2>4. CASE HaltReserve(s)
    BY <2>4 DEF HaltReserve
  <2>5. CASE HaltStore(s)
    BY <2>5 DEF HaltStore
  <2>6. CASE HaltPublish(s)
    BY <2>6, BeginOwn DEF HaltPublish
  <2> QED
    BY <2>1, <2>2, <2>3, <2>4, <2>5, <2>6
<1>4. EndEventsServed'
  <2>1. CASE HaltStore(s)
    <3>1. PICK q \in todo[s] :
            sched_queues' = [sched_queues EXCEPT ![q][sslot[s] % per_sched_queue_len] = 0]
      BY <2>1 DEF HaltStore
    <3>2. 0 # EndEvent
      BY SizeAssumption DEF EndEvent
    <3>3. /\ q \in SchedQueues
          /\ sslot[s] % per_sched_queue_len \in 0..per_sched_queue_len - 1
      BY <2>1, HaltedIsQueue, RingIndex, SizeAssumption DEF HaltStore, TypeOK, SchedsTypeOK
    <3> QED
      BY <3>1, <3>2, <3>3 DEF OwnInv, EndEventsServed, TypeOK, SharedTypeOK, Rings
  <2>2. CASE ~HaltStore(s)
    BY <2>2 DEF ReadTermination, StopStore, StopPublish, HaltReserve, HaltPublish,
                OwnInv, EndEventsServed
  <2> QED
    BY <2>1, <2>2
<1> QED
  BY <1>2, <1>3, <1>4 DEF OwnInv

LEMMA SchedOwn ==
  ASSUME TypeOK, OwnInv, NEW s \in Schedulers, SchedStep(s)
  PROVE  OwnInv'
<1>1. CASE SchedPoll(s)
  <2>1. /\ spc' \in {spc, [spc EXCEPT ![s] = "read"]}
        /\ UNCHANGED <<next_worker, todo, sched_queues>>
    BY <1>1 DEF SchedPoll, queues
  <2>2. spc \in [Schedulers -> {"exited", "poll", "read", "launch", "launched", "stop",
                               "stopped", "halt", "haltStore", "haltPublish"}]
    BY DEF TypeOK, SchedsTypeOK
  <2> QED
    BY <2>1, <2>2 DEF OwnInv, NextWorkerOwn, LaunchersServe, EndEventsServed, my_workers
<1>2. CASE LaunchStore(s)
  <2>1. /\ spc[s] = "launch" /\ spc' = [spc EXCEPT ![s] = "launched"]
        /\ UNCHANGED <<next_worker, todo, sched_queues>>
    BY <1>2 DEF LaunchStore
  <2>2. spc \in [Schedulers -> {"exited", "poll", "read", "launch", "launched", "stop",
                               "stopped", "halt", "haltStore", "haltPublish"}]
    BY DEF TypeOK, SchedsTypeOK
  <2> QED
    BY <2>1, <2>2 DEF OwnInv, NextWorkerOwn, LaunchersServe, EndEventsServed, my_workers
<1> QED
  BY <1>1, <1>2, ReadEndOwn, ReadLaunchOwn, LaunchPublishOwn, ShutdownOwn DEF SchedStep

LEMMA StutterOwn == OwnInv /\ UNCHANGED vars => OwnInv'
BY DEF OwnInv, NextWorkerOwn, LaunchersServe, EndEventsServed, my_workers,
       vars, queues, slocals

(* Whatever the numbers of workers and schedulers, even with more          *)
(* schedulers than workers: a worker's ring is written by its owner alone, *)
(* so that plain stores and a private cursor are enough to fill it.        *)
THEOREM OwnQueues == Spec => []OwnQueuesOnly
<1>1. Init => TypeOK /\ OwnInv
  BY InitType, InitOwn
<1>2. TypeOK /\ OwnInv /\ [Next]_vars => (TypeOK /\ OwnInv)'
  BY StepType, LaunchOwn, WorkerOwn, SchedOwn, StutterOwn DEF Next, Idle
<1>3. OwnInv => OwnQueuesOnly
  BY DEF OwnInv, NextWorkerOwn, LaunchersServe, OwnQueuesOnly
<1> QED
  BY <1>1, <1>2, <1>3, PTL DEF Spec
-----------------------------------------------------------------------------
(* The sizes the theorems below ask for: the rings hold a worker's share   *)
(* of the tasks, and what is ever sent to a scheduler at once.             *)
Dimensioned ==
  /\ NumTasks - 2 <= (per_worker_queue_len - 1) * NumWorkers
  /\ per_sched_queue_len > 2

Spreads(s) == spc[s] \in {"launch", "launched"} /\ queue_idx[s] = 1
Opens(s)   == spc[s] \in {"launch", "launched"} /\ queue_idx[s] = 0
Stops(s)   == spc[s] \in {"stop", "stopped", "exited"}
Halts(s)   == spc[s] \in {"halt", "haltStore", "haltPublish"}
Posts(w)   == wpc[w] \in {"reserve", "store", "publish"}
PostsAt(w, q) == wpc[w] \in {"store", "publish"} /\ EventQueue(w) = q
HaltsAt(s, q) == spc[s] \in {"haltStore", "haltPublish"} /\ q \in todo[s] /\ Least(q, todo[s])
AllDone == \A t \in GraphTasks : finished[t] = batches

(* The tasks a worker still has, by their place in what it was ever sent.  *)
Oldest(w) == next_task_pos[w] - Len(task_ids[w])
Queued(w) == Oldest(w)..last_ready_task_id[w] - 1
TaskAt(w, k) == worker_queues[w][k % per_worker_queue_len]
Posted(w) == trigger_event[Current(w).pos]

(* The events of its own queue a scheduler is not done with.               *)
Unread(s) == cur_event_pos[s][0]..last_ready_event_id[s] - 1
EventAt(q, k) == sched_queues[q][k % per_sched_queue_len]

(* Cursors follow each other round the rings.                              *)
WorkerCursors == \A w \in Workers :
  /\ next_free_task_pos[w] = last_ready_task_id[w]
  /\ 0 <= Oldest(w) /\ next_task_pos[w] <= last_task_pos[w]
  /\ last_task_pos[w] <= last_ready_task_id[w]
  /\ wpc[w] \in {"poll", "load"} => task_ids[w] = <<>>
  /\ \A j \in 1..Len(task_ids[w]) : task_ids[w][j] = TaskAt(w, Oldest(w) + j - 1)

SchedCursors == \A s \in Schedulers :
  /\ \A i \in 0..1 : /\ cur_event_pos[s][i] <= last_event_pos[s][i]
                     /\ last_event_pos[s][i] <= last_ready_event_id[QueueOf(s, i)]
  /\ spc[s] \notin {"poll", "exited"} =>
       cur_event_pos[s][queue_idx[s]] < last_event_pos[s][queue_idx[s]]
  /\ iteration_num[s] = cur_event_pos[s][1] + (IF Spreads(s) THEN 1 ELSE 0)
  /\ spc[s] \in {"stop", "stopped"} \/ Halts(s) => queue_idx[s] = 0 /\ todo[s] # {}

(* At most one event is on its way into the queues.                        *)
Posting ==
  /\ \A w, v \in Workers : Posts(w) /\ Posts(v) => w = v
  /\ \A s, r \in Schedulers : Halts(s) /\ Halts(r) => s = r
  /\ \A q \in SchedQueues : next_free_event_id[q] = last_ready_event_id[q] +
       (IF (\E w \in Workers : PostsAt(w, q)) \/ (\E s \in Schedulers : HaltsAt(s, q))
        THEN 1 ELSE 0)
  /\ \A w \in Workers : wpc[w] \in {"store", "publish"} =>
       wslot[w] = last_ready_event_id[EventQueue(w)]
  /\ \A w \in Workers : wpc[w] = "publish" =>
       EventAt(EventQueue(w), wslot[w]) = Posted(w)
  /\ \A s \in Schedulers, q \in SchedQueues : HaltsAt(s, q) =>
       /\ sslot[s] = last_ready_event_id[q]
       /\ spc[s] = "haltPublish" => EventAt(q, sslot[s]) = 0

(* The broadcast queue holds one launch event for every iteration whose    *)
(* begin task is done.                                                     *)
Broadcasts ==
  /\ \A k \in 0..last_ready_event_id[BcastQueue] - 1 : EventAt(BcastQueue, k) = 1
  /\ last_ready_event_id[BcastQueue] =
       IF finished[1] = batches /\ ~\E w \in Workers : Posts(w) /\ Posted(w) = 1
       THEN batches ELSE batches - 1
  /\ \A s \in Schedulers : MyPositions(s) # {} =>
       /\ iteration_num[s] \in {batches - 1, batches}
       /\ iteration_num[s] = batches - 1 =>
            \A t \in MyPositions(s) : finished[t] = batches - 1

(* Who has finished: an event counts its finished producers, and no task   *)
(* has started before its producers.                                       *)
Progress ==
  /\ \A t \in GraphTasks : finished[t] \in {batches - 1, batches}
  /\ \A e \in 1..EndEvent : all_event_counters[e] = (batches - 1) * num_triggers(e)
       + Cardinality({t \in GraphTasks : trigger_event[t] = e /\ finished[t] = batches})
  /\ \A t \in GraphTasks : finished[t] = batches \/ Running(t) =>
       \A u \in Producers[t] : finished[u] = batches

(* While batches are served one thing at a time moves the iterations on:   *)
(* an end event, the begin task, or the event that one of them posts.      *)
Serving == mode = "serving" =>
  /\ \A w \in Workers : wpc[w] # "exited"
  /\ \A s \in Schedulers :
       /\ ~Stops(s) /\ ~Halts(s)
       /\ Unread(s) # {} => /\ Unread(s) = {cur_event_pos[s][0]}
                            /\ EventAt(s, cur_event_pos[s][0]) = EndEvent
                            /\ \A r \in Schedulers : Unread(r) # {} => r = s
                            /\ \A w \in Workers : ~Posts(w)
                            /\ Opens(s) \/ AllDone
       /\ Opens(s) => /\ todo[s] = {1} /\ iteration_num[s] = batches - 1
                      /\ \A t \in GraphTasks : finished[t] = batches - 1
                      /\ \A w \in Workers : Queued(w) = {}
  /\ \A w \in Workers : Posts(w) =>
       /\ Queued(w) = {Oldest(w)} /\ \A v \in Workers \ {w} : Queued(v) = {}
       /\ \/ Posted(w) = 1 /\ Current(w).pos = 1
             /\ \A t \in GraphTasks : t # 1 => finished[t] = batches - 1
          \/ Posted(w) = EndEvent /\ AllDone
  /\ \A w \in Workers : \A k \in Queued(w) : TaskAt(w, k).pos = 1 =>
       /\ Queued(w) = {k} /\ \A v \in Workers \ {w} : Queued(v) = {}
       /\ \A s \in Schedulers : Unread(s) = {}
       /\ \A t \in GraphTasks : t # 1 => finished[t] = batches - 1

(* What a worker still has are tasks of this iteration that are not done,  *)
(* each in one place, a row of the task list or more apart, launched by    *)
(* the worker's own scheduler.                                             *)
Tasks == mode = "serving" =>
  /\ \A w \in Workers : \A k \in Queued(w) :
       /\ TaskAt(w, k) = [iter |-> batches, pos |-> TaskAt(w, k).pos]
       /\ TaskAt(w, k).pos \in GraphTasks
       /\ finished[TaskAt(w, k).pos] =
            IF Posts(w) /\ k = Oldest(w) THEN batches ELSE batches - 1
  /\ \A w \in Workers : \A k, l \in Queued(w) : k <= l =>
       TaskAt(w, l).pos - TaskAt(w, k).pos >= (l - k) * NumWorkers
  /\ \A w, v \in Workers : \A k \in Queued(w), l \in Queued(v) :
       TaskAt(w, k).pos = TaskAt(v, l).pos => w = v
  /\ \A s \in Schedulers : \A w \in my_workers(s) : \A k \in Queued(w) :
       TaskAt(w, k).pos # 1 =>
         TaskAt(w, k).pos \in MyPositions(s) /\ iteration_num[s] = batches

(* What a scheduler has still to launch comes after all it has launched,   *)
(* and the columns of the task list are dealt to its workers in turn.      *)
Column(t) == (t - 2) % NumWorkers
Share(s) == my_last_worker(s) - my_first_worker(s)
Dealing == mode = "serving" => \A s \in Schedulers :
  /\ Spreads(s) =>
       /\ iteration_num[s] = batches
       /\ todo[s] # {} /\ todo[s] \subseteq MyPositions(s)
       /\ \A t \in todo[s] : finished[t] = batches - 1
       /\ \A p \in todo[s], t \in MyPositions(s) : p <= t => t \in todo[s]
       /\ \A w \in my_workers(s) : \A k \in Queued(w), p \in todo[s] :
            /\ TaskAt(w, k).pos < p
            /\ Least(p, todo[s]) =>
                 (w - Column(TaskAt(w, k).pos)) - (next_worker[s] - Column(p))
                   \in {-Share(s), 0, Share(s)}

(* What a scheduler has stored and not published yet.                      *)
Stored == \A s \in Schedulers :
  /\ spc[s] = "launched" => \A p \in todo[s] : Least(p, todo[s]) =>
       TaskAt(next_worker[s], last_ready_task_id[next_worker[s]]) = compute_task_id(s, p)
  /\ spc[s] = "stopped" => \A w \in todo[s] : Least(w, todo[s]) =>
       TaskAt(w, last_ready_task_id[w]) = TerminateTask

(* After the last batch the schedulers, and then their workers, are told   *)
(* to terminate, each once.                                                *)
Draining == mode = "drained" =>
  /\ AllDone
  /\ \A w \in Workers :
       /\ ~Posts(w)
       /\ Queued(w) # {} => /\ Queued(w) = {Oldest(w)}
                            /\ TaskAt(w, Oldest(w)) = TerminateTask
       /\ wpc[w] = "exited" => Queued(w) # {}
  /\ \A s \in Schedulers :
       /\ spc[s] \notin {"launch", "launched"}
       /\ Stops(s) => Unread(s) # {}
       /\ IF Halts(s)
          THEN /\ cur_event_pos[s][0] \in Unread(s)
               /\ EventAt(s, cur_event_pos[s][0]) = EndEvent
               /\ todo[s] \subseteq Schedulers
               /\ \A r \in todo[s] : Unread(r) \subseteq (IF r = s THEN {cur_event_pos[s][0]} ELSE {})
               /\ Unread(s) \subseteq cur_event_pos[s][0]..cur_event_pos[s][0] + 1
               /\ cur_event_pos[s][0] + 1 \in Unread(s) => EventAt(s, cur_event_pos[s][0] + 1) = 0
          ELSE /\ Unread(s) \subseteq {cur_event_pos[s][0]}
               /\ Unread(s) # {} => EventAt(s, cur_event_pos[s][0]) = 0
       /\ \A w \in my_workers(s) : Queued(w) # {} =>
            Stops(s) /\ w \notin todo[s]

Idling == mode = "ready" =>
  /\ AllExited /\ AllDone
  /\ \A w \in Workers : Queued(w) = {}

MainInv == /\ Dimensioned /\ TypeOK /\ OwnInv /\ WorkerCursors /\ SchedCursors /\ Posting
           /\ Broadcasts /\ Progress /\ Serving /\ Tasks /\ Dealing /\ Stored /\ Draining
           /\ Idling

(* The end event is only ever sent to a scheduler that takes part in the   *)
(* iterations: one that has tasks to launch, not only workers.             *)
EndsDealt == \A s \in Schedulers : \A i \in 0..per_sched_queue_len - 1 :
  sched_queues[s][i] = EndEvent => MyPositions(s) # {}

IInv == MainInv /\ EndsDealt

-----------------------------------------------------------------------------
(* Arithmetic of rings, columns and blocks.                                *)
LEMMA Sizes ==
  /\ NumWorkers \in Nat \ {0} /\ NumSchedulers \in Nat \ {0}
  /\ NumTasks \in Nat /\ NumTasks > 2 /\ NumEvents \in Nat /\ NumEvents > 2
  /\ per_worker_queue_len \in Nat \ {0} /\ per_sched_queue_len \in Nat \ {0}
  /\ TaskDescsBuffer \in Nat \ {0} /\ MaxIterations \in Nat /\ MaxLaunches \in Nat
  /\ EndEvent \in Nat /\ EndEvent > 1 /\ EndEvent \in Events
  /\ GraphTasks \subseteq Nat /\ 1 \in GraphTasks /\ 0 \notin GraphTasks
BY SizeAssumption DEF EndEvent, GraphTasks, Events

LEMMA LeastNatural ==
  ASSUME NEW S \in SUBSET Nat, S # {}
  PROVE  \E x \in S : \A y \in S : x <= y
<1> DEFINE Rel == OpToRel(<, Nat)
<1>1. IsWellFoundedOn(Rel, Nat)
  BY NatLessThanWellFounded
<1>2. \A y \in S, x \in S : <<y, x>> \in Rel <=> y < x
  BY DEF OpToRel
<1> HIDE DEF Rel
<1>3. PICK x \in S : \A y \in S : ~(<<y, x>> \in Rel)
  BY <1>1, WFMin
<1>4. \A y \in S : ~(y < x)
  BY <1>2, <1>3
<1> QED
  BY <1>4

(* Two entries of a ring less than a round apart are in different slots.   *)
LEMMA RingApart ==
  ASSUME NEW n \in Nat \ {0}, NEW k \in Nat, NEW l \in Nat, k < l, l < k + n
  PROVE  k % n # l % n
<1> SUFFICES ASSUME k % n = l % n PROVE FALSE
  OBVIOUS
<1> DEFINE q == k \div n
           r == l \div n
           m == k % n
<1>1. q \in Nat /\ r \in Nat /\ m \in Nat /\ k = q * n + m /\ l = r * n + m
  BY DivMod
<1> HIDE DEF q, r, m
<1>2. q < r
  <2> SUFFICES ASSUME r <= q PROVE FALSE
    BY <1>1
  <2>1. r * n <= q * n
    BY <1>1, MulMono
  <2> QED
    BY <1>1, <2>1
<1>3. (q + 1) * n <= r * n
  BY <1>1, <1>2, MulMono
<1>4. (q + 1) * n = q * n + n
  BY <1>1
<1> QED
  BY <1>1, <1>3, <1>4

LEMMA BlocksApart ==
  ASSUME NEW s \in Schedulers, NEW r \in Schedulers, NEW w \in my_workers(s), w \in my_workers(r)
  PROVE  s = r
BY Sizes, PartsDisjoint DEF Schedulers, my_workers

LEMMA EachOwned ==
  ASSUME NEW w \in Workers
  PROVE  \E s \in Schedulers : w \in my_workers(s)
BY Sizes, PartsCover DEF Schedulers, Workers, my_workers

LEMMA PositionsApart ==
  ASSUME NEW s \in Schedulers, NEW r \in Schedulers, NEW t \in MyPositions(s), t \in MyPositions(r)
  PROVE  s = r
BY BlocksApart DEF MyPositions

LEMMA PositionsOfGraph ==
  ASSUME NEW s \in Schedulers
  PROVE  MyPositions(s) \subseteq GraphTasks /\ 1 \notin MyPositions(s)
BY Sizes DEF MyPositions, GraphTasks

LEMMA QueueOfOwn ==
  ASSUME NEW s \in Schedulers
  PROVE  /\ QueueOf(s, 0) = s /\ QueueOf(s, 1) = BcastQueue /\ s # BcastQueue
         /\ s \in SchedQueues /\ BcastQueue \in SchedQueues
BY Sizes DEF QueueOf, BcastQueue, SchedQueues, Schedulers

LEMMA KindOfEvent ==
  ASSUME NEW e \in Events
  PROVE  /\ EventType(e) = "EVENT_LAUNCH_DEPENDENT_TASKS" <=> e = 1
         /\ EventType(e) = "EVENT_END_OF_TASK_GRAPH" <=> e = EndEvent
         /\ EventType(e) # "EVENT_EMPTY" <=> e \in {0, 1, EndEvent}
BY Sizes DEF EventType, Events

-----------------------------------------------------------------------------
(* What the invariant says of a state.                                     *)
LEMMA WorkerTypes ==
  ASSUME IInv, NEW w \in Workers
  PROVE  /\ next_task_pos[w] \in Nat /\ last_task_pos[w] \in Nat
         /\ last_ready_task_id[w] \in Nat /\ next_free_task_pos[w] = last_ready_task_id[w]
         /\ task_ids[w] \in Seq(TaskIds \cup {Unwritten})
         /\ Len(task_ids[w]) \in Nat
         /\ Oldest(w) \in Nat /\ Oldest(w) = next_task_pos[w] - Len(task_ids[w])
         /\ next_task_pos[w] <= last_task_pos[w] /\ last_task_pos[w] <= last_ready_task_id[w]
         /\ Queued(w) \subseteq Nat
         /\ \A k : k \in Queued(w) <=> /\ k \in Nat
                                       /\ Oldest(w) <= k /\ k < last_ready_task_id[w]
<1>1. /\ next_task_pos[w] \in Nat /\ last_task_pos[w] \in Nat
      /\ last_ready_task_id[w] \in Nat
      /\ task_ids[w] \in Seq(TaskIds \cup {Unwritten})
  BY DEF IInv, MainInv, TypeOK, SharedTypeOK, WorkersTypeOK
<1>2. Len(task_ids[w]) \in Nat
  BY <1>1
<1>3. /\ next_free_task_pos[w] = last_ready_task_id[w] /\ 0 <= Oldest(w)
      /\ next_task_pos[w] <= last_task_pos[w] /\ last_task_pos[w] <= last_ready_task_id[w]
  BY DEF IInv, MainInv, WorkerCursors
<1>4. Oldest(w) \in Nat /\ Oldest(w) = next_task_pos[w] - Len(task_ids[w])
  BY <1>1, <1>2, <1>3 DEF Oldest
<1> QED
  BY <1>1, <1>2, <1>3, <1>4 DEF Queued

LEMMA SchedTypes ==
  ASSUME IInv, NEW s \in Schedulers
  PROVE  /\ \A i \in 0..1 : /\ cur_event_pos[s][i] \in Nat /\ last_event_pos[s][i] \in Nat
                            /\ cur_event_pos[s][i] <= last_event_pos[s][i]
         /\ last_event_pos[s][0] <= last_ready_event_id[s]
         /\ last_event_pos[s][1] <= last_ready_event_id[BcastQueue]
         /\ queue_idx[s] \in 0..1 /\ iteration_num[s] \in Nat
         /\ last_ready_event_id[s] \in Nat /\ last_ready_event_id[BcastQueue] \in Nat
         /\ Unread(s) \subseteq Nat
         /\ \A k : k \in Unread(s) <=> /\ k \in Nat
                                       /\ cur_event_pos[s][0] <= k
                                       /\ k < last_ready_event_id[s]
<1>1. /\ cur_event_pos[s] \in [0..1 -> Nat] /\ last_event_pos[s] \in [0..1 -> Nat]
      /\ queue_idx[s] \in 0..1 /\ iteration_num[s] \in Nat
      /\ last_ready_event_id[s] \in Nat /\ last_ready_event_id[BcastQueue] \in Nat
  BY QueueOfOwn DEF IInv, MainInv, TypeOK, SchedsTypeOK, SharedTypeOK
<1>2. \A i \in 0..1 : /\ cur_event_pos[s][i] \in Nat /\ last_event_pos[s][i] \in Nat
  BY <1>1
<1>3. /\ \A i \in 0..1 : cur_event_pos[s][i] <= last_event_pos[s][i]
      /\ last_event_pos[s][0] <= last_ready_event_id[s]
      /\ last_event_pos[s][1] <= last_ready_event_id[BcastQueue]
  BY QueueOfOwn DEF IInv, MainInv, SchedCursors
<1> QED
  BY <1>1, <1>2, <1>3 DEF Unread

(* The first of the tasks a worker has loaded is its oldest.               *)
LEMMA CurrentTask ==
  ASSUME IInv, NEW w \in Workers, task_ids[w] # <<>>
  PROVE  /\ Oldest(w) \in Queued(w) /\ Current(w) = TaskAt(w, Oldest(w))
         /\ Oldest(w) < next_task_pos[w]
<1>1. Len(task_ids[w]) # 0
  BY WorkerTypes
<1>2. Len(task_ids[w]) >= 1
  BY <1>1, WorkerTypes
<1>3. task_ids[w][1] = TaskAt(w, Oldest(w) + 1 - 1)
  BY <1>2, WorkerTypes DEF IInv, MainInv, WorkerCursors
<1>4. Current(w) = task_ids[w][1]
  BY WorkerTypes DEF Current
<1>5. Oldest(w) + 1 - 1 = Oldest(w)
  BY WorkerTypes
<1> QED
  BY <1>2, <1>3, <1>4, <1>5, WorkerTypes

LEMMA Modes ==
  ASSUME IInv
  PROVE  mode \in {"ready", "serving", "drained"} /\ batches \in Nat
BY Sizes DEF IInv, MainInv, TypeOK, HistoryTypeOK

(* Tasks run, and are launched, only while batches are served; schedulers  *)
(* stop and halt only afterwards.                                          *)
LEMMA RunsServing ==
  ASSUME IInv, NEW w \in Workers, wpc[w] = "run" \/ Posts(w)
  PROVE  mode = "serving" /\ task_ids[w] # <<>> /\ Current(w).pos \in GraphTasks
<1>1. wpc[w] \in {"run", "reserve", "store", "publish"}
  BY DEF Posts
<1>2. task_ids[w] # <<>> /\ Current(w).pos \in GraphTasks
  BY <1>1 DEF IInv, MainInv, TypeOK, WorkersTypeOK
<1>3. mode # "ready"
  BY <1>1 DEF IInv, MainInv, Idling, AllExited
<1>4. mode # "drained"
  <2> SUFFICES ASSUME mode = "drained" PROVE FALSE
    OBVIOUS
  <2>1. Oldest(w) \in Queued(w) /\ Current(w) = TaskAt(w, Oldest(w))
    BY <1>2, CurrentTask
  <2>2. TaskAt(w, Oldest(w)) = TerminateTask
    BY <2>1 DEF IInv, MainInv, Draining
  <2>3. Current(w).pos = 0
    BY <2>1, <2>2 DEF TerminateTask
  <2> QED
    BY <1>2, <2>3, Sizes
<1> QED
  BY <1>2, <1>3, <1>4, Modes

LEMMA LaunchesServing ==
  ASSUME IInv, NEW s \in Schedulers, spc[s] \in {"launch", "launched"}
  PROVE  mode = "serving" /\ (Opens(s) \/ Spreads(s))
<1>1. mode # "ready"
  BY DEF IInv, MainInv, Idling, AllExited
<1>2. mode # "drained"
  BY DEF IInv, MainInv, Draining
<1>3. queue_idx[s] \in 0..1
  BY SchedTypes
<1> QED
  BY <1>1, <1>2, <1>3, Modes DEF Opens, Spreads

LEMMA StopsDrained ==
  ASSUME IInv, NEW s \in Schedulers, spc[s] \in {"stop", "stopped"} \/ Halts(s)
  PROVE  mode = "drained"
<1>1. mode # "ready"
  BY DEF IInv, MainInv, Idling, AllExited, Halts
<1>2. mode # "serving"
  BY DEF IInv, MainInv, Serving, Stops
<1> QED
  BY <1>1, <1>2, Modes

LEMMA ActiveNotReady ==
  ASSUME IInv
  PROVE  /\ \A w \in Workers : wpc[w] # "exited" => mode # "ready"
         /\ \A s \in Schedulers : spc[s] # "exited" => mode # "ready"
BY DEF IInv, MainInv, Idling, AllExited

(* The event a scheduler reads: a launch event of the broadcast queue, or  *)
(* the first unread event of its own.                                      *)
LEMMA ReadsEvent ==
  ASSUME IInv, NEW s \in Schedulers, spc[s] = "read"
  PROVE  \/ /\ queue_idx[s] = 1 /\ EventRead(s) = 1
            /\ cur_event_pos[s][1] < last_ready_event_id[BcastQueue]
         \/ /\ queue_idx[s] = 0 /\ cur_event_pos[s][0] \in Unread(s)
            /\ EventRead(s) = EventAt(s, cur_event_pos[s][0])
<1>1. queue_idx[s] \in {0, 1} /\ cur_event_pos[s][queue_idx[s]] < last_event_pos[s][queue_idx[s]]
  BY SchedTypes DEF IInv, MainInv, SchedCursors
<1>2. EventRead(s) = EventAt(QueueOf(s, queue_idx[s]), cur_event_pos[s][queue_idx[s]])
  BY DEF EventRead, EventAt
<1>3. CASE queue_idx[s] = 1
  <2>1. cur_event_pos[s][1] \in 0..last_ready_event_id[BcastQueue] - 1
    BY <1>1, <1>3, SchedTypes
  <2>2. EventAt(BcastQueue, cur_event_pos[s][1]) = 1
    BY <2>1 DEF IInv, MainInv, Broadcasts
  <2>3. EventRead(s) = 1
    BY <1>2, <1>3, <2>2, QueueOfOwn
  <2>4. cur_event_pos[s][1] < last_ready_event_id[BcastQueue]
    BY <2>1, SchedTypes
  <2> QED
    BY <1>3, <2>3, <2>4
<1>4. CASE queue_idx[s] = 0
  <2>1. cur_event_pos[s][0] \in Unread(s)
    BY <1>1, <1>4, SchedTypes
  <2> QED
    BY <1>2, <1>4, <2>1, QueueOfOwn
<1>5. queue_idx[s] = 0 \/ queue_idx[s] = 1
  BY <1>1
<1> QED
  BY <1>3, <1>4, <1>5, Zenon

(* A worker's backlog never fills its ring.                                *)
LEMMA QueueFits ==
  ASSUME IInv, NEW w \in Workers
  PROVE  last_ready_task_id[w] - Oldest(w) < per_worker_queue_len
<1> USE Sizes
<1> DEFINE L == per_worker_queue_len
           a == Oldest(w)
           z == last_ready_task_id[w] - 1
<1>1. L \in Nat /\ L >= 2
  <2>1. NumTasks - 2 <= (L - 1) * NumWorkers
    BY DEF IInv, MainInv, Dimensioned
  <2>2. CASE L = 1
    BY <2>1, <2>2
  <2> QED
    BY <2>2
<1>2. CASE Queued(w) = {} \/ Queued(w) = {a}
  BY <1>1, <1>2, WorkerTypes DEF Queued
<1>3. CASE Queued(w) # {} /\ Queued(w) # {a}
  <2>1. a \in Queued(w) /\ z \in Queued(w) /\ a < z
    BY <1>3, WorkerTypes DEF Queued
  <2>2. mode = "serving"
    BY <1>3, Modes DEF IInv, MainInv, Idling, Draining
  <2>3. /\ TaskAt(w, a).pos \in 1..NumTasks - 1 /\ TaskAt(w, z).pos \in 1..NumTasks - 1
    BY <2>1, <2>2 DEF IInv, MainInv, Tasks, GraphTasks
  <2>4. TaskAt(w, a).pos # 1
    <3> SUFFICES ASSUME TaskAt(w, a).pos = 1 PROVE FALSE
      OBVIOUS
    <3>1. Queued(w) = {a}
      BY <2>1, <2>2 DEF IInv, MainInv, Serving
    <3> QED
      BY <3>1, <1>3
  <2>5. TaskAt(w, z).pos - TaskAt(w, a).pos >= (z - a) * NumWorkers
    <3> HIDE DEF a, z
    <3>1. \A k, l \in Queued(w) : k <= l =>
            TaskAt(w, l).pos - TaskAt(w, k).pos >= (l - k) * NumWorkers
      BY <2>2 DEF IInv, MainInv, Tasks
    <3>2. a <= z
      BY <2>1, WorkerTypes
    <3> QED
      BY <2>1, <3>1, <3>2
  <2>6. a \in Nat /\ z \in Nat
    BY <2>1, WorkerTypes
  <2>7. NumTasks - 2 <= (L - 1) * NumWorkers
    BY DEF IInv, MainInv, Dimensioned
  <2> HIDE DEF a, z
  <2>8. SUFFICES ASSUME z - a >= L - 1 PROVE FALSE
    <3>1. last_ready_task_id[w] - Oldest(w) = z - a + 1 /\ z - a + 1 < L <=> z - a < L - 1
      BY <1>1, <2>6, WorkerTypes DEF a, z
    <3> QED
      BY <3>1, <1>1, <2>6
  <2>9. (L - 1) * NumWorkers <= (z - a) * NumWorkers
    <3>1. z - a \in Nat /\ L - 1 \in Nat
      BY <1>1, <2>1, <2>6
    <3> QED
      BY <3>1, <2>8, MulMono
  <2> HIDE DEF L
  <2>10. TaskAt(w, z).pos - TaskAt(w, a).pos <= NumTasks - 3
    BY <2>3, <2>4
  <2>11. TaskAt(w, z).pos - TaskAt(w, a).pos \in Int
    BY <2>3
  <2>12. (L - 1) * NumWorkers \in Int /\ (z - a) * NumWorkers \in Int
    BY <1>1, <2>6
  <2> QED
    BY <2>5, <2>7, <2>9, <2>10, <2>11, <2>12
<1> QED
  BY <1>2, <1>3
-----------------------------------------------------------------------------
(* What most steps leave as it is: who posts what, what every scheduler is *)
(* about, and what the workers still have.                                 *)
PostersKept == \A w \in Workers :
  /\ Posts(w)' <=> Posts(w)
  /\ Posts(w) => Current(w)' = Current(w) /\ Oldest(w)' = Oldest(w)
SlotsKept == \A w \in Workers : Posts(w) => wpc'[w] = wpc[w] /\ wslot'[w] = wslot[w]
RolesKept == \A s \in Schedulers :
  /\ Opens(s)' <=> Opens(s)
  /\ Spreads(s)' <=> Spreads(s)
  /\ Stops(s)' <=> Stops(s)
  /\ Halts(s)' <=> Halts(s)
  /\ todo'[s] = todo[s]
HaltersKept == \A s \in Schedulers :
  /\ Halts(s)' <=> Halts(s)
  /\ Halts(s) => spc'[s] = spc[s] /\ todo'[s] = todo[s] /\ sslot'[s] = sslot[s]
QueuesKept == \A w \in Workers :
  /\ Queued(w)' = Queued(w) /\ Oldest(w)' = Oldest(w)
  /\ \A k \in Queued(w) : TaskAt(w, k)' = TaskAt(w, k)
ReadersKept == \A s \in Schedulers : /\ cur_event_pos'[s][0] = cur_event_pos[s][0]
                                     /\ Unread(s)' = Unread(s)
DutiesKept == \A s \in Schedulers :
  /\ Opens(s)' <=> Opens(s)
  /\ Stops(s)' <=> Stops(s)
  /\ Halts(s)' <=> Halts(s)
  /\ Opens(s) \/ Stops(s) \/ Halts(s) => /\ todo'[s] = todo[s]
                                         /\ iteration_num'[s] = iteration_num[s]

LEMMA SamePosts ==
  ASSUME PostersKept, NEW w \in Workers, Posts(w)
  PROVE  /\ Posts(w)' /\ Current(w)' = Current(w)
         /\ Posted(w)' = Posted(w)
         /\ EventQueue(w)' = EventQueue(w) /\ Oldest(w)' = Oldest(w)
<1>1. /\ Posts(w)' /\ Current(w)' = Current(w) /\ Oldest(w)' = Oldest(w)
  BY DEF PostersKept
<1>2. Posted(w)' = Posted(w)
  BY <1>1 DEF Posted
<1>3. EventQueue(w)' = EventQueue(w)
  BY <1>1 DEF EventQueue
<1> QED
  BY <1>1, <1>2, <1>3

LEMMA PostingKept ==
  ASSUME IInv, PostersKept, SlotsKept, HaltersKept,
         UNCHANGED <<sched_queues, last_ready_event_id, next_free_event_id>>
  PROVE  Posting'
<1>1. /\ \A w, v \in Workers : Posts(w) /\ Posts(v) => w = v
      /\ \A s, r \in Schedulers : Halts(s) /\ Halts(r) => s = r
      /\ \A q \in SchedQueues : next_free_event_id[q] = last_ready_event_id[q] +
           (IF (\E w \in Workers : PostsAt(w, q)) \/ (\E s \in Schedulers : HaltsAt(s, q))
            THEN 1 ELSE 0)
      /\ \A w \in Workers : wpc[w] \in {"store", "publish"} =>
           wslot[w] = last_ready_event_id[EventQueue(w)]
      /\ \A w \in Workers : wpc[w] = "publish" =>
           EventAt(EventQueue(w), wslot[w]) = Posted(w)
      /\ \A s \in Schedulers, q \in SchedQueues : HaltsAt(s, q) =>
           /\ sslot[s] = last_ready_event_id[q]
           /\ spc[s] = "haltPublish" => EventAt(q, sslot[s]) = 0
  BY DEF IInv, MainInv, Posting
<1>0. \A w \in Workers : Posts(w) => wpc'[w] = wpc[w] /\ wslot'[w] = wslot[w]
  BY DEF SlotsKept
<1>2. \A w \in Workers : (wpc'[w] \in {"store", "publish"} => Posts(w)')
                         /\ (wpc[w] \in {"store", "publish"} => Posts(w))
  BY DEF Posts
<1>3. \A w \in Workers : (Posts(w)' <=> Posts(w))
  BY DEF PostersKept
<1>4. \A w \in Workers, q \in SchedQueues : PostsAt(w, q)' <=> PostsAt(w, q)
  BY <1>0, <1>2, <1>3, SamePosts DEF PostsAt
<1>5. \A s \in Schedulers :
        /\ Halts(s)' <=> Halts(s)
        /\ Halts(s) => spc'[s] = spc[s] /\ todo'[s] = todo[s] /\ sslot'[s] = sslot[s]
  BY DEF HaltersKept
<1>6. \A s \in Schedulers : (spc'[s] \in {"haltStore", "haltPublish"} => Halts(s)')
                            /\ (spc[s] \in {"haltStore", "haltPublish"} => Halts(s))
  BY DEF Halts
<1>7. \A s \in Schedulers, q \in SchedQueues :
        /\ HaltsAt(s, q)' <=> HaltsAt(s, q)
        /\ HaltsAt(s, q) => sslot'[s] = sslot[s] /\ spc'[s] = spc[s]
  BY <1>5, <1>6 DEF HaltsAt, Least
<1>8. \A q, k : EventAt(q, k)' = EventAt(q, k)
  BY DEF EventAt
<1>9. \A w, v \in Workers : Posts(w)' /\ Posts(v)' => w = v
  BY <1>1, <1>3
<1>10. \A s, r \in Schedulers : Halts(s)' /\ Halts(r)' => s = r
  BY <1>1, <1>5
<1>11. \A q \in SchedQueues : next_free_event_id'[q] = last_ready_event_id'[q] +
         (IF (\E w \in Workers : PostsAt(w, q)') \/ (\E s \in Schedulers : HaltsAt(s, q)')
          THEN 1 ELSE 0)
  BY <1>1, <1>4, <1>7
<1>12. ASSUME NEW w \in Workers, wpc'[w] \in {"store", "publish"}
       PROVE  wslot'[w] = last_ready_event_id'[EventQueue(w)']
  BY <1>0, <1>1, <1>2, <1>3, <1>12, SamePosts
<1>13. ASSUME NEW w \in Workers, wpc'[w] = "publish"
       PROVE  EventAt(EventQueue(w), wslot[w])' = Posted(w)'
  <2>1. Posts(w) /\ wpc[w] = "publish"
    BY <1>0, <1>2, <1>3, <1>13, SamePosts
  <2>2. EventAt(EventQueue(w), wslot[w])' = EventAt(EventQueue(w), wslot[w])
    BY <1>0, <2>1, SamePosts DEF EventAt
  <2> QED
    BY <1>1, <2>1, <2>2, SamePosts
<1>14. ASSUME NEW s \in Schedulers, NEW q \in SchedQueues, HaltsAt(s, q)'
       PROVE  /\ sslot'[s] = last_ready_event_id'[q]
              /\ spc'[s] = "haltPublish" => EventAt(q, sslot[s])' = 0
  <2>1. HaltsAt(s, q) /\ sslot'[s] = sslot[s] /\ spc'[s] = spc[s]
    BY <1>7, <1>14
  <2>2. EventAt(q, sslot[s])' = EventAt(q, sslot[s])
    BY <2>1 DEF EventAt
  <2> QED
    BY <1>1, <2>1, <2>2
<1> QED
  BY <1>9, <1>10, <1>11, <1>12, <1>13, <1>14 DEF Posting

LEMMA BroadcastsKept ==
  ASSUME IInv, PostersKept,
         UNCHANGED <<finished, batches, iteration_num>>,
         last_ready_event_id'[BcastQueue] = last_ready_event_id[BcastQueue],
         \A k \in 0..last_ready_event_id[BcastQueue] - 1 :
           EventAt(BcastQueue, k)' = EventAt(BcastQueue, k)
  PROVE  Broadcasts'
<1>1. \A k \in 0..last_ready_event_id'[BcastQueue] - 1 : EventAt(BcastQueue, k)' = 1
  BY DEF IInv, MainInv, Broadcasts
<1>2. \A w \in Workers : Posts(w)' /\ Posted(w)' = 1 <=> Posts(w) /\ Posted(w) = 1
  BY SamePosts DEF PostersKept
<1>3. \A s : MyPositions(s)' = MyPositions(s)
  BY DEF MyPositions, my_workers
<1> QED
  BY <1>1, <1>2, <1>3 DEF IInv, MainInv, Broadcasts

LEMMA ProgressKept ==
  ASSUME IInv, UNCHANGED <<finished, batches, all_event_counters>>,
         \A w \in Workers : wpc'[w] = "run" => wpc[w] = "run" /\ Current(w)' = Current(w)
  PROVE  Progress'
<1>1. \A t : Running(t)' => Running(t)
  BY DEF Running
<1> QED
  BY <1>1 DEF IInv, MainInv, Progress, num_triggers, Producers

LEMMA ServingStep ==
  ASSUME IInv, PostersKept, DutiesKept, QueuesKept, ReadersKept,
         UNCHANGED <<mode, finished, batches>>,
         \A s \in Schedulers : \A k \in Unread(s) : EventAt(s, k)' = EventAt(s, k),
         \A w \in Workers : wpc'[w] = "exited" => wpc[w] = "exited" \/ mode # "serving"
  PROVE  Serving'
<1> SUFFICES ASSUME mode = "serving" PROVE Serving'
  BY DEF Serving
<1>1. \A w \in Workers : /\ wpc'[w] # "exited" /\ (Posts(w)' <=> Posts(w))
                         /\ Queued(w)' = Queued(w) /\ Oldest(w)' = Oldest(w)
                         /\ \A k \in Queued(w) : TaskAt(w, k)' = TaskAt(w, k)
  BY DEF IInv, MainInv, Serving, PostersKept, QueuesKept
<1>2. \A s \in Schedulers : /\ (Opens(s)' <=> Opens(s)) /\ (Stops(s)' <=> Stops(s))
                            /\ (Halts(s)' <=> Halts(s))
                            /\ Opens(s) => /\ todo'[s] = todo[s]
                                           /\ iteration_num'[s] = iteration_num[s]
                            /\ cur_event_pos'[s][0] = cur_event_pos[s][0]
                            /\ Unread(s)' = Unread(s)
  BY DEF DutiesKept, ReadersKept
<1>3. \A s \in Schedulers : \A k \in Unread(s) : EventAt(s, k)' = EventAt(s, k)
  OBVIOUS
<1>4. AllDone' <=> AllDone
  BY DEF AllDone
<1>5. ASSUME NEW s \in Schedulers
      PROVE  /\ ~Stops(s)' /\ ~Halts(s)'
             /\ Unread(s)' # {} => /\ Unread(s)' = {cur_event_pos'[s][0]}
                                   /\ EventAt(s, cur_event_pos[s][0])' = EndEvent
                                   /\ \A r \in Schedulers : Unread(r)' # {} => r = s
                                   /\ \A w \in Workers : ~Posts(w)'
                                   /\ Opens(s)' \/ AllDone'
             /\ Opens(s)' => /\ todo'[s] = {1} /\ iteration_num'[s] = batches' - 1
                             /\ \A t \in GraphTasks : finished'[t] = batches' - 1
                             /\ \A w \in Workers : Queued(w)' = {}
  <2>1. ASSUME Unread(s) = {cur_event_pos[s][0]}
        PROVE  EventAt(s, cur_event_pos[s][0])' = EventAt(s, cur_event_pos[s][0])
    <3>1. \A k : k = cur_event_pos[s][0] => EventAt(s, k)' = EventAt(s, k)
      BY <1>3, <2>1
    <3>2. EventAt(s, cur_event_pos[s][0])' =
            sched_queues'[s][cur_event_pos[s][0] % per_sched_queue_len]
      BY <1>2 DEF EventAt
    <3> QED
      BY <3>1, <3>2 DEF EventAt
  <2>2. /\ ~Stops(s) /\ ~Halts(s)
        /\ Unread(s) # {} => /\ Unread(s) = {cur_event_pos[s][0]}
                             /\ EventAt(s, cur_event_pos[s][0]) = EndEvent
                             /\ \A r \in Schedulers : Unread(r) # {} => r = s
                             /\ \A w \in Workers : ~Posts(w)
                             /\ Opens(s) \/ AllDone
        /\ Opens(s) => /\ todo[s] = {1} /\ iteration_num[s] = batches - 1
                       /\ \A t \in GraphTasks : finished[t] = batches - 1
                       /\ \A w \in Workers : Queued(w) = {}
    BY DEF IInv, MainInv, Serving
  <2> QED
    BY <1>1, <1>2, <1>4, <2>1, <2>2
<1>6. ASSUME NEW w \in Workers, Posts(w)'
      PROVE  /\ Queued(w)' = {Oldest(w)'} /\ \A v \in Workers \ {w} : Queued(v)' = {}
             /\ \/ Posted(w)' = 1 /\ Current(w)'.pos = 1
                   /\ \A t \in GraphTasks : t # 1 => finished'[t] = batches' - 1
                \/ Posted(w)' = EndEvent /\ AllDone'
  <2>1. Posts(w) /\ Posted(w)' = Posted(w) /\ Current(w)' = Current(w)
    BY <1>1, <1>6, SamePosts
  <2> QED
    BY <1>1, <1>4, <2>1 DEF IInv, MainInv, Serving
<1>7. ASSUME NEW w \in Workers, NEW k \in Queued(w)', TaskAt(w, k)'.pos = 1
      PROVE  /\ Queued(w)' = {k} /\ \A v \in Workers \ {w} : Queued(v)' = {}
             /\ \A s \in Schedulers : Unread(s)' = {}
             /\ \A t \in GraphTasks : t # 1 => finished'[t] = batches' - 1
  BY <1>1, <1>2, <1>7 DEF IInv, MainInv, Serving
<1> QED
  BY <1>1, <1>5, <1>6, <1>7 DEF Serving

LEMMA DutiesOfRoles ==
  ASSUME RolesKept, UNCHANGED iteration_num
  PROVE  DutiesKept
BY DEF RolesKept, DutiesKept

LEMMA ServingKept ==
  ASSUME IInv, PostersKept, RolesKept, QueuesKept, ReadersKept,
         UNCHANGED <<mode, finished, batches, iteration_num>>,
         \A s \in Schedulers : \A k \in Unread(s) : EventAt(s, k)' = EventAt(s, k),
         \A w \in Workers : wpc'[w] = "exited" => wpc[w] = "exited" \/ mode # "serving"
  PROVE  Serving'
BY DutiesOfRoles, ServingStep

LEMMA TasksStep ==
  ASSUME IInv, PostersKept, QueuesKept,
         UNCHANGED <<mode, finished, batches>>,
         \A s \in Schedulers : \A w \in my_workers(s) :
           MyPositions(s) # {} /\ Queued(w) # {} => iteration_num'[s] = iteration_num[s]
  PROVE  Tasks'
<1> SUFFICES ASSUME mode = "serving" PROVE Tasks'
  BY DEF Tasks
<1>1. \A w \in Workers : /\ Queued(w)' = Queued(w) /\ Oldest(w)' = Oldest(w)
                         /\ \A k \in Queued(w) : TaskAt(w, k)' = TaskAt(w, k)
                         /\ (Posts(w)' <=> Posts(w))
  BY DEF QueuesKept, PostersKept
<1>2. \A s : MyPositions(s)' = MyPositions(s) /\ my_workers(s)' = my_workers(s)
  BY DEF MyPositions, my_workers
<1>3. \A s \in Schedulers : my_workers(s) \subseteq Workers
  BY MyWorkersAreWorkers
<1>4. \A w \in Workers : \A k \in Queued(w)' :
        /\ TaskAt(w, k)' = [iter |-> batches', pos |-> TaskAt(w, k)'.pos]
        /\ TaskAt(w, k)'.pos \in GraphTasks
        /\ finished'[TaskAt(w, k)'.pos] =
             IF Posts(w)' /\ k = Oldest(w)' THEN batches' ELSE batches' - 1
  BY <1>1 DEF IInv, MainInv, Tasks
<1>5. \A w \in Workers : \A k, l \in Queued(w)' : k <= l =>
        TaskAt(w, l)'.pos - TaskAt(w, k)'.pos >= (l - k) * NumWorkers
  BY <1>1 DEF IInv, MainInv, Tasks
<1>6. \A w, v \in Workers : \A k \in Queued(w)', l \in Queued(v)' :
        TaskAt(w, k)'.pos = TaskAt(v, l)'.pos => w = v
  BY <1>1 DEF IInv, MainInv, Tasks
<1>7. \A s \in Schedulers : \A w \in my_workers(s) : \A k \in Queued(w)' :
        TaskAt(w, k)'.pos # 1 =>
          TaskAt(w, k)'.pos \in MyPositions(s) /\ iteration_num'[s] = batches'
  BY <1>1, <1>3 DEF IInv, MainInv, Tasks
<1> QED
  BY <1>2, <1>4, <1>5, <1>6, <1>7 DEF Tasks

LEMMA TasksKept ==
  ASSUME IInv, PostersKept, QueuesKept,
         UNCHANGED <<mode, finished, batches, iteration_num>>
  PROVE  Tasks'
BY TasksStep

(* ... of which a worker may have fewer.                                   *)
LEMMA DealingStep ==
  ASSUME IInv, mode = "serving", UNCHANGED batches,
         NEW s \in Schedulers, Spreads(s), todo'[s] = todo[s], next_worker'[s] = next_worker[s],
         iteration_num'[s] = iteration_num[s],
         \A w \in my_workers(s) : /\ Queued(w)' \subseteq Queued(w)
                                  /\ \A k \in Queued(w)' : TaskAt(w, k)' = TaskAt(w, k),
         \A t \in todo[s] : finished[t] = batches - 1 => finished'[t] = finished[t]
  PROVE  /\ iteration_num'[s] = batches'
         /\ todo'[s] # {} /\ todo'[s] \subseteq MyPositions(s)
         /\ \A t \in todo'[s] : finished'[t] = batches' - 1
         /\ \A p \in todo'[s], t \in MyPositions(s) : p <= t => t \in todo'[s]
         /\ \A w \in my_workers(s) : \A k \in Queued(w)', p \in todo'[s] :
              /\ TaskAt(w, k)'.pos < p
              /\ Least(p, todo'[s]) =>
                   (w - Column(TaskAt(w, k)'.pos)) - (next_worker'[s] - Column(p))
                     \in {-Share(s), 0, Share(s)}
<1>1. Spreads(s) /\ todo'[s] = todo[s]
  OBVIOUS
<1>2. /\ iteration_num[s] = batches
      /\ todo[s] # {} /\ todo[s] \subseteq MyPositions(s)
      /\ \A t \in todo[s] : finished[t] = batches - 1
      /\ \A p \in todo[s], t \in MyPositions(s) : p <= t => t \in todo[s]
      /\ \A w \in my_workers(s) : \A k \in Queued(w), p \in todo[s] :
           /\ TaskAt(w, k).pos < p
           /\ Least(p, todo[s]) =>
                (w - Column(TaskAt(w, k).pos)) - (next_worker[s] - Column(p))
                  \in {-Share(s), 0, Share(s)}
  BY <1>1 DEF IInv, MainInv, Dealing
<1>3. my_workers(s) \subseteq Workers
  BY MyWorkersAreWorkers
<1>4. \A w \in my_workers(s) : \A k \in Queued(w)', p \in todo'[s] :
        /\ TaskAt(w, k)'.pos < p
        /\ Least(p, todo'[s]) =>
             (w - Column(TaskAt(w, k)'.pos)) - (next_worker'[s] - Column(p))
               \in {-Share(s), 0, Share(s)}
  <2> SUFFICES ASSUME NEW w \in my_workers(s), NEW k \in Queued(w)', NEW p \in todo[s]
               PROVE  /\ TaskAt(w, k)'.pos < p
                      /\ Least(p, todo[s]) =>
                           (w - Column(TaskAt(w, k)'.pos)) - (next_worker[s] - Column(p))
                             \in {-Share(s), 0, Share(s)}
    BY <1>1
  <2>1. k \in Queued(w) /\ TaskAt(w, k)' = TaskAt(w, k)
    BY <1>3
  <2> QED
    BY <1>2, <2>1
<1> QED
  BY <1>1, <1>2, <1>4

LEMMA DealingKept ==
  ASSUME IInv, RolesKept, UNCHANGED <<mode, batches, next_worker, iteration_num>>,
         \A w \in Workers : /\ Queued(w)' \subseteq Queued(w)
                            /\ \A k \in Queued(w)' : TaskAt(w, k)' = TaskAt(w, k),
         \A s \in Schedulers : Spreads(s) =>
           \A t \in todo[s] : finished[t] = batches - 1 => finished'[t] = finished[t]
  PROVE  Dealing'
<1> SUFFICES ASSUME mode = "serving", NEW s \in Schedulers, Spreads(s)'
             PROVE  /\ iteration_num'[s] = batches'
                    /\ todo'[s] # {} /\ todo'[s] \subseteq MyPositions(s)
                    /\ \A t \in todo'[s] : finished'[t] = batches' - 1
                    /\ \A p \in todo'[s], t \in MyPositions(s) : p <= t => t \in todo'[s]
                    /\ \A w \in my_workers(s) : \A k \in Queued(w)', p \in todo'[s] :
                         /\ TaskAt(w, k)'.pos < p
                         /\ Least(p, todo'[s]) =>
                              (w - Column(TaskAt(w, k)'.pos)) - (next_worker'[s] - Column(p))
                                \in {-Share(s), 0, Share(s)}
  BY DEF Dealing, MyPositions, my_workers, Column, Share, my_last_worker, my_first_worker, Least
<1>1. Spreads(s) /\ todo'[s] = todo[s] /\ next_worker'[s] = next_worker[s]
  BY DEF RolesKept
<1>2. \A w \in my_workers(s) : /\ Queued(w)' \subseteq Queued(w)
                               /\ \A k \in Queued(w)' : TaskAt(w, k)' = TaskAt(w, k)
  BY MyWorkersAreWorkers
<1> QED
  BY <1>1, <1>2, DealingStep

LEMMA DrainingStep ==
  ASSUME IInv, PostersKept, DutiesKept, QueuesKept, ReadersKept,
         UNCHANGED <<mode, finished, batches, sched_queues>>,
         \A w \in Workers : wpc'[w] = "exited" => wpc[w] = "exited" \/ Queued(w) # {},
         \A s \in Schedulers : spc'[s] \in {"launch", "launched"} =>
                                 spc[s] \in {"launch", "launched"}
  PROVE  Draining'
<1> SUFFICES ASSUME mode = "drained" PROVE Draining'
  BY DEF Draining
<1>1. \A w \in Workers : /\ Queued(w)' = Queued(w) /\ Oldest(w)' = Oldest(w)
                         /\ \A k \in Queued(w) : TaskAt(w, k)' = TaskAt(w, k)
                         /\ (Posts(w)' <=> Posts(w))
  BY DEF QueuesKept, PostersKept
<1>2. \A s \in Schedulers : /\ (Stops(s)' <=> Stops(s)) /\ (Halts(s)' <=> Halts(s))
                            /\ Stops(s) \/ Halts(s) => todo'[s] = todo[s]
                            /\ cur_event_pos'[s][0] = cur_event_pos[s][0]
                            /\ Unread(s)' = Unread(s)
  BY DEF DutiesKept, ReadersKept
<1>3. AllDone'
  BY DEF IInv, MainInv, Draining, AllDone
<1>4. ASSUME NEW w \in Workers
      PROVE  /\ ~Posts(w)'
             /\ Queued(w)' # {} => /\ Queued(w)' = {Oldest(w)'}
                                   /\ TaskAt(w, Oldest(w))' = TerminateTask
             /\ wpc'[w] = "exited" => Queued(w)' # {}
  <2>1. TaskAt(w, Oldest(w))' = TaskAt(w, Oldest(w))' /\ Oldest(w)' = Oldest(w)
    BY <1>1
  <2>2. Queued(w) # {} => Oldest(w) \in Queued(w) /\ Queued(w) = {Oldest(w)}
                          /\ TaskAt(w, Oldest(w)) = TerminateTask
    BY DEF IInv, MainInv, Draining
  <2>3. Queued(w) # {} => TaskAt(w, Oldest(w))' = TerminateTask
    <3>1. ASSUME NEW k, k = Oldest(w), Queued(w) # {} PROVE TaskAt(w, k)' = TerminateTask
      BY <1>1, <2>2, <3>1
    <3> QED
      BY <1>1, <3>1 DEF TaskAt
  <2> QED
    BY <1>1, <2>2, <2>3 DEF IInv, MainInv, Draining
<1>5. ASSUME NEW s \in Schedulers
      PROVE  /\ spc'[s] \notin {"launch", "launched"}
             /\ Stops(s)' => Unread(s)' # {}
             /\ \A w \in my_workers(s) : Queued(w)' # {} => Stops(s)' /\ w \notin todo'[s]
  <2>1. my_workers(s) \subseteq Workers
    BY MyWorkersAreWorkers
  <2> QED
    BY <1>1, <1>2, <2>1 DEF IInv, MainInv, Draining
<1>6. ASSUME NEW s \in Schedulers, NEW i \in Int
      PROVE  EventAt(s, cur_event_pos[s][0] + i)' = EventAt(s, cur_event_pos[s][0] + i)
             /\ EventAt(s, cur_event_pos[s][0])' = EventAt(s, cur_event_pos[s][0])
  BY <1>2 DEF EventAt
<1>7. ASSUME NEW s \in Schedulers, Halts(s)
      PROVE  /\ cur_event_pos'[s][0] \in Unread(s)'
             /\ EventAt(s, cur_event_pos[s][0])' = EndEvent
             /\ todo'[s] \subseteq Schedulers
             /\ \A r \in todo'[s] :
                  Unread(r)' \subseteq (IF r = s THEN {cur_event_pos'[s][0]} ELSE {})
             /\ Unread(s)' \subseteq cur_event_pos'[s][0]..cur_event_pos'[s][0] + 1
             /\ cur_event_pos'[s][0] + 1 \in Unread(s)' =>
                  EventAt(s, cur_event_pos[s][0] + 1)' = 0
  <2>1. /\ cur_event_pos[s][0] \in Unread(s)
        /\ EventAt(s, cur_event_pos[s][0]) = EndEvent
        /\ todo[s] \subseteq Schedulers
        /\ \A r \in todo[s] :
             Unread(r) \subseteq (IF r = s THEN {cur_event_pos[s][0]} ELSE {})
        /\ Unread(s) \subseteq cur_event_pos[s][0]..cur_event_pos[s][0] + 1
        /\ cur_event_pos[s][0] + 1 \in Unread(s) => EventAt(s, cur_event_pos[s][0] + 1) = 0
    BY <1>7 DEF IInv, MainInv, Draining
  <2>2. /\ EventAt(s, cur_event_pos[s][0])' = EventAt(s, cur_event_pos[s][0])
        /\ EventAt(s, cur_event_pos[s][0] + 1)' = EventAt(s, cur_event_pos[s][0] + 1)
    BY <1>6
  <2>3. /\ todo'[s] = todo[s] /\ cur_event_pos'[s][0] = cur_event_pos[s][0]
        /\ \A r \in Schedulers : Unread(r)' = Unread(r)
    BY <1>2, <1>7
  <2>4. \A r \in todo'[s] :
          Unread(r)' \subseteq (IF r = s THEN {cur_event_pos'[s][0]} ELSE {})
    BY <2>1, <2>3
  <2> QED
    BY <2>1, <2>2, <2>3, <2>4
<1>8. ASSUME NEW s \in Schedulers, ~Halts(s)
      PROVE  /\ Unread(s)' \subseteq {cur_event_pos'[s][0]}
             /\ Unread(s)' # {} => EventAt(s, cur_event_pos[s][0])' = 0
  <2>1. /\ Unread(s) \subseteq {cur_event_pos[s][0]}
        /\ Unread(s) # {} => EventAt(s, cur_event_pos[s][0]) = 0
    BY <1>8 DEF IInv, MainInv, Draining
  <2> QED
    BY <1>2, <1>6, <2>1
<1>9. \A s : my_workers(s)' = my_workers(s)
  BY DEF my_workers
<1> QED
  BY <1>2, <1>3, <1>4, <1>5, <1>7, <1>8, <1>9 DEF Draining

LEMMA DrainingKept ==
  ASSUME IInv, PostersKept, RolesKept, QueuesKept, ReadersKept,
         UNCHANGED <<mode, finished, batches, sched_queues, iteration_num>>,
         \A w \in Workers : wpc'[w] = "exited" => wpc[w] = "exited" \/ Queued(w) # {},
         \A s \in Schedulers : spc'[s] \in {"launch", "launched"} =>
                                 spc[s] \in {"launch", "launched"}
  PROVE  Draining'
BY DutiesOfRoles, DrainingStep

-----------------------------------------------------------------------------
(* The worker's steps.                                                     *)

LEMMA DimensionedKept == Dimensioned => Dimensioned'
BY DEF Dimensioned, my_workers, MyPositions

(* A worker's step leaves the schedulers' variables alone.                 *)
LEMMA SchedulersKept ==
  ASSUME IInv, UNCHANGED <<slocals, last_ready_event_id>>
  PROVE  SchedCursors' /\ RolesKept /\ HaltersKept /\ ReadersKept
<1> USE DEF slocals
<1>1. \A s \in Schedulers : /\ (Spreads(s)' <=> Spreads(s)) /\ (Halts(s)' <=> Halts(s))
                            /\ (Opens(s)' <=> Opens(s)) /\ (Stops(s)' <=> Stops(s))
                            /\ Unread(s)' = Unread(s)
  BY DEF Spreads, Halts, Opens, Stops, Unread
<1>2. SchedCursors'
  <2> SUFFICES ASSUME NEW s \in Schedulers
               PROVE  /\ \A i \in 0..1 : /\ cur_event_pos[s][i] <= last_event_pos[s][i]
                                         /\ last_event_pos[s][i] <= last_ready_event_id[QueueOf(s, i)]
                      /\ spc[s] \notin {"poll", "exited"} =>
                           cur_event_pos[s][queue_idx[s]] < last_event_pos[s][queue_idx[s]]
                      /\ iteration_num[s] = cur_event_pos[s][1] + (IF Spreads(s) THEN 1 ELSE 0)
                      /\ spc[s] \in {"stop", "stopped"} \/ Halts(s) => queue_idx[s] = 0 /\ todo[s] # {}
    BY <1>1 DEF SchedCursors, QueueOf
  <2> QED
    BY DEF IInv, MainInv, SchedCursors
<1> QED
  BY <1>1, <1>2 DEF RolesKept, HaltersKept, ReadersKept

LEMMA StoredKept ==
  ASSUME IInv, UNCHANGED <<slocals, worker_queues, last_ready_task_id>>
  PROVE  Stored'
BY DEF IInv, MainInv, Stored, slocals, TaskAt, Least, compute_task_id

(* The steps of a worker that only look.                                   *)
LEMMA LookingInv ==
  ASSUME IInv, TypeOK', OwnInv', WorkerCursors', PostersKept, SlotsKept, QueuesKept,
         UNCHANGED <<queues, all_event_counters, slocals, launches, history>>,
         \A v \in Workers : wpc'[v] = "run" => wpc[v] = "run" /\ Current(v)' = Current(v),
         \A v \in Workers : wpc'[v] = "exited" =>
           wpc[v] = "exited" \/ (mode # "serving" /\ Queued(v) # {}),
         mode # "ready"
  PROVE  MainInv'
<1> USE DEF queues, slocals, history
<1>0. \A q, k : EventAt(q, k)' = EventAt(q, k)
  BY DEF EventAt
<1>1. SchedCursors' /\ RolesKept /\ HaltersKept /\ ReadersKept
  BY SchedulersKept
<1>2. Posting'
  BY <1>1, PostingKept
<1>3. Broadcasts'
  BY <1>0, BroadcastsKept
<1>4. Progress'
  BY ProgressKept
<1>5. Serving'
  BY <1>0, <1>1, ServingKept
<1>6. Tasks'
  BY TasksKept
<1>7. Dealing'
  BY <1>1, DealingKept DEF QueuesKept
<1>8. Stored'
  BY StoredKept
<1>9. Draining'
  BY <1>1, DrainingKept
<1>10. Idling'
  BY DEF Idling
<1> QED
  BY <1>1, <1>2, <1>3, <1>4, <1>5, <1>6, <1>7, <1>8, <1>9, <1>10, DimensionedKept DEF IInv, MainInv

LEMMA WorkerPollInv ==
  ASSUME IInv, NEW w \in Workers, WorkerPoll(w)
  PROVE  MainInv'
<1> USE DEF queues, slocals, history
<1>1. /\ wpc[w] = "poll" /\ wpc' = [wpc EXCEPT ![w] = "load"]
      /\ last_task_pos' = [last_task_pos EXCEPT ![w] =
            IF next_task_pos[w] = @ THEN last_ready_task_id[w] ELSE @]
      /\ UNCHANGED <<queues, all_event_counters, next_task_pos, task_ids, wslot,
                     slocals, launches, history>>
  BY DEF WorkerPoll
<1>2. /\ wpc \in [Workers -> {"exited", "poll", "load", "wait", "run",
                             "reserve", "store", "publish"}]
      /\ last_task_pos \in [Workers -> Nat]
  BY DEF IInv, MainInv, TypeOK, WorkersTypeOK
<1>3. TypeOK' /\ OwnInv'
  BY WorkerPollType, WorkerOwn DEF IInv, MainInv, WorkerStep
<1>4. \A v \in Workers : /\ \/ wpc'[v] = wpc[v]
                            \/ v = w /\ wpc[v] = "poll" /\ wpc'[v] = "load"
                         /\ Oldest(v)' = Oldest(v) /\ Queued(v)' = Queued(v)
                         /\ Current(v)' = Current(v)
                         /\ \A k : TaskAt(v, k)' = TaskAt(v, k)
  BY <1>1, <1>2 DEF Oldest, Queued, TaskAt, Current
<1>5. PostersKept /\ SlotsKept /\ QueuesKept
  BY <1>1, <1>4 DEF PostersKept, SlotsKept, QueuesKept, Posts
<1>6. WorkerCursors'
  <2> SUFFICES ASSUME NEW v \in Workers
               PROVE  /\ next_free_task_pos'[v] = last_ready_task_id'[v]
                      /\ 0 <= Oldest(v)' /\ next_task_pos'[v] <= last_task_pos'[v]
                      /\ last_task_pos'[v] <= last_ready_task_id'[v]
                      /\ wpc'[v] \in {"poll", "load"} => task_ids'[v] = <<>>
                      /\ \A j \in 1..Len(task_ids'[v]) :
                           task_ids'[v][j] = TaskAt(v, Oldest(v) + j - 1)'
    BY DEF WorkerCursors
  <2>1. \A j \in 1..Len(task_ids'[v]) : task_ids'[v][j] = TaskAt(v, Oldest(v) + j - 1)'
    <3>1. \A j : TaskAt(v, Oldest(v) + j - 1)' = TaskAt(v, Oldest(v) + j - 1)
      BY <1>1, <1>4 DEF TaskAt
    <3> QED
      BY <1>1, <3>1 DEF IInv, MainInv, WorkerCursors
  <2>2. wpc'[v] \in {"poll", "load"} => task_ids'[v] = <<>>
    BY <1>1, <1>4 DEF IInv, MainInv, WorkerCursors
  <2>3. /\ next_task_pos'[v] <= last_task_pos'[v]
        /\ last_task_pos'[v] <= last_ready_task_id'[v]
    BY <1>1, <1>2, WorkerTypes
  <2> QED
    BY <1>1, <1>4, <2>1, <2>2, <2>3, WorkerTypes
<1>7. mode # "ready"
  BY <1>1, ActiveNotReady
<1>8. /\ \A v \in Workers : wpc'[v] = "run" => wpc[v] = "run" /\ Current(v)' = Current(v)
      /\ \A v \in Workers : wpc'[v] = "exited" =>
           wpc[v] = "exited" \/ (mode # "serving" /\ Queued(v) # {})
  BY <1>4
<1> QED
  BY <1>1, <1>3, <1>5, <1>6, <1>7, <1>8, LookingInv

LEMMA WorkerLoadInv ==
  ASSUME IInv, NEW w \in Workers, WorkerLoad(w)
  PROVE  MainInv'
<1> USE DEF queues, slocals, history
<1> DEFINE published == last_task_pos[w] - next_task_pos[w]
           n == IF published < TaskDescsBuffer THEN published ELSE TaskDescsBuffer
           loaded == [i \in 1..n |->
             worker_queues[w][(next_task_pos[w] + i - 1) % per_worker_queue_len]]
<1>1. /\ wpc[w] = "load" /\ wpc' = [wpc EXCEPT ![w] = "wait"]
      /\ task_ids' = [task_ids EXCEPT ![w] = loaded]
      /\ next_task_pos' = [next_task_pos EXCEPT ![w] = @ + n]
      /\ UNCHANGED <<queues, all_event_counters, last_task_pos, wslot,
                     slocals, launches, history>>
  BY DEF WorkerLoad
<1>2. /\ wpc \in [Workers -> {"exited", "poll", "load", "wait", "run",
                             "reserve", "store", "publish"}]
      /\ next_task_pos \in [Workers -> Nat]
      /\ task_ids \in [Workers -> Seq(TaskIds \cup {Unwritten})]
      /\ next_task_pos[w] < last_task_pos[w]
      /\ task_ids[w] = <<>>
  BY <1>1 DEF IInv, MainInv, TypeOK, WorkersTypeOK, WorkerCursors
<1>3. TypeOK' /\ OwnInv'
  BY WorkerLoadType, WorkerOwn DEF IInv, MainInv, WorkerStep
<1>4. n \in Nat /\ 1 <= n /\ next_task_pos[w] + n <= last_task_pos[w]
  BY <1>2, WorkerTypes, Sizes
<1>5. Len(loaded) = n /\ \A j \in 1..n : loaded[j] = TaskAt(w, next_task_pos[w] + j - 1)
  <2>1. \A j \in 1..n : loaded[j] = TaskAt(w, next_task_pos[w] + j - 1)
    BY DEF TaskAt
  <2> HIDE DEF n
  <2>2. DOMAIN loaded = 1..n
    OBVIOUS
  <2>3. Len(loaded) = n
    BY <1>3, <1>4, <1>1, <1>2, <2>2 DEF TypeOK, WorkersTypeOK
  <2> QED
    BY <2>1, <2>3
<1> HIDE DEF n, loaded
<1>6. \A v \in Workers : v # w => /\ task_ids'[v] = task_ids[v]
                                  /\ next_task_pos'[v] = next_task_pos[v]
                                  /\ wpc'[v] = wpc[v]
  BY <1>1, <1>2
<1>7. /\ task_ids'[w] = loaded /\ next_task_pos'[w] = next_task_pos[w] + n
      /\ wpc'[w] = "wait" /\ Len(task_ids[w]) = 0
  BY <1>1, <1>2
<1>8. Oldest(w) = next_task_pos[w] /\ Oldest(w)' = Oldest(w)
  BY <1>2, <1>4, <1>5, <1>7 DEF Oldest
<1>9. \A v \in Workers : /\ Oldest(v)' = Oldest(v) /\ Queued(v)' = Queued(v)
                         /\ v # w => Current(v)' = Current(v)
                         /\ \A k : TaskAt(v, k)' = TaskAt(v, k)
  <2>1. \A v \in Workers : v # w => Oldest(v)' = Oldest(v) /\ Current(v)' = Current(v)
    BY <1>6 DEF Oldest, Current
  <2> QED
    BY <1>1, <1>8, <2>1 DEF TaskAt, Queued
<1>10. PostersKept /\ SlotsKept /\ QueuesKept
  BY <1>1, <1>6, <1>7, <1>9 DEF PostersKept, SlotsKept, QueuesKept, Posts
<1>11. WorkerCursors'
  <2> SUFFICES ASSUME NEW v \in Workers
               PROVE  /\ next_free_task_pos'[v] = last_ready_task_id'[v]
                      /\ 0 <= Oldest(v)' /\ next_task_pos'[v] <= last_task_pos'[v]
                      /\ last_task_pos'[v] <= last_ready_task_id'[v]
                      /\ wpc'[v] \in {"poll", "load"} => task_ids'[v] = <<>>
                      /\ \A j \in 1..Len(task_ids'[v]) :
                           task_ids'[v][j] = TaskAt(v, Oldest(v) + j - 1)'
    BY DEF WorkerCursors
  <2>1. \A j : TaskAt(v, Oldest(v) + j - 1)' = TaskAt(v, Oldest(v) + j - 1)
    BY <1>1, <1>9 DEF TaskAt
  <2>2. CASE v = w
    <3>1. \A j \in 1..Len(task_ids'[v]) : task_ids'[v][j] = TaskAt(v, Oldest(v) + j - 1)'
      BY <1>5, <1>7, <1>8, <2>1, <2>2
    <3>2. next_task_pos'[v] <= last_task_pos'[v] /\ last_task_pos'[v] <= last_ready_task_id'[v]
      BY <1>1, <1>4, <1>7, <2>2, WorkerTypes
    <3>3. next_free_task_pos'[v] = last_ready_task_id'[v] /\ 0 <= Oldest(v)'
      BY <1>1, <1>9, WorkerTypes
    <3> QED
      BY <1>7, <2>2, <3>1, <3>2, <3>3
  <2>3. CASE v # w
    BY <1>1, <1>6, <1>9, <2>1, <2>3, WorkerTypes DEF IInv, MainInv, WorkerCursors
  <2> QED
    BY <2>2, <2>3
<1>12. mode # "ready"
  BY <1>1, ActiveNotReady
<1>13. /\ \A v \in Workers : wpc'[v] = "run" => wpc[v] = "run" /\ Current(v)' = Current(v)
       /\ \A v \in Workers : wpc'[v] = "exited" =>
            wpc[v] = "exited" \/ (mode # "serving" /\ Queued(v) # {})
  BY <1>6, <1>7, <1>9
<1> QED
  BY <1>1, <1>3, <1>10, <1>11, <1>12, <1>13, LookingInv

LEMMA WorkerTerminateInv ==
  ASSUME IInv, NEW w \in Workers, WorkerTerminate(w)
  PROVE  MainInv'
<1> USE DEF queues, slocals, history
<1>1. /\ wpc[w] = "wait" /\ wpc' = [wpc EXCEPT ![w] = "exited"] /\ Current(w).pos = 0
      /\ UNCHANGED <<queues, all_event_counters, next_task_pos, last_task_pos,
                     task_ids, wslot, slocals, launches, history>>
  BY DEF WorkerTerminate
<1>2. /\ wpc \in [Workers -> {"exited", "poll", "load", "wait", "run",
                             "reserve", "store", "publish"}]
      /\ task_ids[w] # <<>>
  BY <1>1 DEF IInv, MainInv, TypeOK, WorkersTypeOK
<1>3. TypeOK' /\ OwnInv'
  BY WorkerStartType, WorkerOwn DEF IInv, MainInv, WorkerStep
<1>4. \A v \in Workers : /\ \/ wpc'[v] = wpc[v]
                            \/ v = w /\ wpc[v] = "wait" /\ wpc'[v] = "exited"
                         /\ Oldest(v)' = Oldest(v) /\ Queued(v)' = Queued(v)
                         /\ Current(v)' = Current(v)
                         /\ \A k : TaskAt(v, k)' = TaskAt(v, k)
  BY <1>1, <1>2 DEF Oldest, Queued, TaskAt, Current
<1>5. PostersKept /\ SlotsKept /\ QueuesKept
  BY <1>1, <1>4 DEF PostersKept, SlotsKept, QueuesKept, Posts
<1>6. WorkerCursors'
  <2>1. \A v \in Workers : \A j : TaskAt(v, Oldest(v) + j - 1)' = TaskAt(v, Oldest(v) + j - 1)
    BY <1>1, <1>4 DEF TaskAt
  <2> QED
    BY <1>1, <1>4, <2>1 DEF IInv, MainInv, WorkerCursors
<1>7. mode # "ready"
  BY <1>1, ActiveNotReady
<1>8. Oldest(w) \in Queued(w) /\ Current(w) = TaskAt(w, Oldest(w))
  BY <1>2, CurrentTask
<1>9. mode # "serving"
  BY <1>1, <1>8, Sizes DEF IInv, MainInv, Tasks
<1>10. /\ \A v \in Workers : wpc'[v] = "run" => wpc[v] = "run" /\ Current(v)' = Current(v)
       /\ \A v \in Workers : wpc'[v] = "exited" =>
            wpc[v] = "exited" \/ (mode # "serving" /\ Queued(v) # {})
  BY <1>4, <1>8, <1>9
<1> QED
  BY <1>1, <1>3, <1>5, <1>6, <1>7, <1>10, LookingInv

(* A task of the graph that a worker has at the head of its list.          *)
LEMMA CurrentOfGraph ==
  ASSUME IInv, NEW w \in Workers, task_ids[w] # <<>>, mode = "serving"
  PROVE  /\ Current(w) = [iter |-> batches, pos |-> Current(w).pos]
         /\ Current(w).iter = batches /\ Current(w).pos \in GraphTasks
         /\ finished[Current(w).pos] = IF Posts(w) THEN batches ELSE batches - 1
         /\ batches \in Nat
<1>1. Oldest(w) \in Queued(w) /\ Current(w) = TaskAt(w, Oldest(w))
  BY CurrentTask
<1>2. /\ TaskAt(w, Oldest(w)) = [iter |-> batches, pos |-> TaskAt(w, Oldest(w)).pos]
      /\ TaskAt(w, Oldest(w)).pos \in GraphTasks
      /\ finished[TaskAt(w, Oldest(w)).pos] =
            IF Posts(w) /\ Oldest(w) = Oldest(w) THEN batches ELSE batches - 1
  BY <1>1 DEF IInv, MainInv, Tasks
<1>3. [iter |-> batches, pos |-> TaskAt(w, Oldest(w)).pos].iter = batches
  OBVIOUS
<1>4. TaskAt(w, Oldest(w)).iter = batches
  BY <1>2, <1>3
<1> QED
  BY <1>1, <1>2, <1>4, Modes

(* Once a scheduler has launched a task the begin task is done.            *)
LEMMA BeginDone ==
  ASSUME IInv, NEW s \in Schedulers, MyPositions(s) # {}, iteration_num[s] = batches
  PROVE  /\ finished[1] = batches /\ last_ready_event_id[BcastQueue] = batches
         /\ \A w \in Workers : Posts(w) => Posted(w) # 1
<1>1. /\ iteration_num[s] = cur_event_pos[s][1] + (IF Spreads(s) THEN 1 ELSE 0)
      /\ Spreads(s) => cur_event_pos[s][1] < last_event_pos[s][1]
  BY DEF IInv, MainInv, SchedCursors, Spreads
<1>2. iteration_num[s] <= last_ready_event_id[BcastQueue]
  BY <1>1, SchedTypes
<1>3. last_ready_event_id[BcastQueue] =
       IF finished[1] = batches /\ ~\E w \in Workers : Posts(w) /\ Posted(w) = 1
       THEN batches ELSE batches - 1
  BY DEF IInv, MainInv, Broadcasts
<1>4. batches \in Nat
  BY Modes
<1> QED
  BY <1>2, <1>3, <1>4

(* The begin task has been done before any other is queued.                *)
LEMMA QueuedAfterBegin ==
  ASSUME IInv, NEW w \in Workers, NEW k \in Queued(w), mode = "serving", TaskAt(w, k).pos # 1
  PROVE  finished[1] = batches
<1>1. PICK s \in Schedulers : w \in my_workers(s)
  BY EachOwned
<1>2. TaskAt(w, k).pos \in MyPositions(s) /\ iteration_num[s] = batches
  BY <1>1 DEF IInv, MainInv, Tasks
<1> QED
  BY <1>2, BeginDone

LEMMA ProducersFinite ==
  ASSUME NEW e \in 1..EndEvent, NEW S \in SUBSET {t \in GraphTasks : trigger_event[t] = e}
  PROVE  /\ IsFiniteSet(S) /\ Cardinality(S) \in Nat /\ num_triggers(e) \in Nat
         /\ Cardinality(S) <= num_triggers(e)
         /\ Cardinality(S) = num_triggers(e) => S = {t \in GraphTasks : trigger_event[t] = e}
<1> DEFINE P == {t \in GraphTasks : trigger_event[t] = e}
<1>1. IsFiniteSet(P)
  <2>1. IsFiniteSet(1..NumTasks - 1)
    BY Sizes, FS_Interval
  <2>2. P \subseteq 1..NumTasks - 1
    BY DEF GraphTasks
  <2> QED
    BY <2>1, <2>2, FS_Subset
<1>2. /\ IsFiniteSet(S) /\ Cardinality(S) \in Nat /\ Cardinality(P) \in Nat
      /\ Cardinality(S) <= Cardinality(P)
      /\ Cardinality(S) = Cardinality(P) => S = P
  BY <1>1, FS_Subset, FS_CardinalityType
<1> QED
  BY <1>2 DEF num_triggers

(* A task whose wait is over has all its producers behind it.              *)
LEMMA ReadyMeansDone ==
  ASSUME IInv, NEW w \in Workers, task_ids[w] # <<>>, mode = "serving", Ready(Current(w))
  PROVE  \A u \in Producers[Current(w).pos] : finished[u] = batches
<1> DEFINE t == Current(w).pos
           e == dependent_event[t]
<1>1. t \in GraphTasks /\ Current(w).iter = batches /\ batches \in Nat
  BY CurrentOfGraph
<1>2. Producers[t] = IF t = 1 THEN {}
                     ELSE IF e = 0 THEN {1}
                     ELSE {u \in GraphTasks : trigger_event[u] = e}
  BY <1>1 DEF Producers
<1>3. CASE t = 1
  BY <1>2, <1>3
<1>4. CASE t # 1 /\ e = 0
  <2>1. Oldest(w) \in Queued(w) /\ Current(w) = TaskAt(w, Oldest(w))
    BY CurrentTask
  <2>2. finished[1] = batches
    BY <1>4, <2>1, QueuedAfterBegin
  <2> QED
    BY <1>2, <1>4, <2>2
<1>5. CASE t # 1 /\ e # 0
  <2> DEFINE S == {u \in GraphTasks : trigger_event[u] = e /\ finished[u] = batches}
  <2>1. e \in 1..EndEvent
    <3>1. dependent_event \in [GraphTasks -> 0..EndEvent - 1]
      BY GraphAssumption
    <3>2. e \in 0..EndEvent - 1
      BY <1>1, <3>1
    <3> QED
      BY <1>5, <3>2, Sizes
  <2>2. all_event_counters[e] >= num_triggers(e) * Current(w).iter
    BY <1>1, <1>5 DEF Ready
  <2>3. all_event_counters[e] = (batches - 1) * num_triggers(e) + Cardinality(S)
    BY <2>1 DEF IInv, MainInv, Progress
  <2>4. /\ Cardinality(S) \in Nat /\ num_triggers(e) \in Nat
        /\ Cardinality(S) <= num_triggers(e)
        /\ Cardinality(S) = num_triggers(e) => S = {u \in GraphTasks : trigger_event[u] = e}
    BY <2>1, ProducersFinite
  <2>5. Cardinality(S) >= num_triggers(e)
    <3> DEFINE n == num_triggers(e)
               c == Cardinality(S)
    <3>1. n \in Nat /\ c \in Nat /\ (batches - 1) * n + c >= n * batches
      BY <1>1, <2>2, <2>3, <2>4
    <3> HIDE DEF n, c
    <3>2. n * batches = (batches - 1) * n + n
      BY <3>1, <1>1
    <3>3. (batches - 1) * n \in Int
      BY <3>1, <1>1
    <3>4. c >= n
      BY <3>1, <3>2, <3>3
    <3> QED
      BY <3>4 DEF n, c
  <2>6. S = {u \in GraphTasks : trigger_event[u] = e}
    BY <2>4, <2>5
  <2> QED
    BY <1>2, <1>5, <2>6
<1> QED
  BY <1>3, <1>4, <1>5

LEMMA WorkerStartInv ==
  ASSUME IInv, NEW w \in Workers, WorkerStart(w)
  PROVE  MainInv'
<1> USE DEF queues, slocals, history
<1>1. /\ wpc[w] = "wait" /\ wpc' = [wpc EXCEPT ![w] = "run"]
      /\ Current(w).pos \in GraphTasks /\ Ready(Current(w))
      /\ UNCHANGED <<queues, all_event_counters, next_task_pos, last_task_pos,
                     task_ids, wslot, slocals, launches, history>>
  BY DEF WorkerStart
<1>2. /\ wpc \in [Workers -> {"exited", "poll", "load", "wait", "run",
                             "reserve", "store", "publish"}]
      /\ task_ids[w] # <<>>
  BY <1>1 DEF IInv, MainInv, TypeOK, WorkersTypeOK
<1>3. TypeOK' /\ OwnInv'
  BY WorkerStartType, WorkerOwn DEF IInv, MainInv, WorkerStep
<1>4. \A v \in Workers : /\ \/ wpc'[v] = wpc[v]
                            \/ v = w /\ wpc[v] = "wait" /\ wpc'[v] = "run"
                         /\ Oldest(v)' = Oldest(v) /\ Queued(v)' = Queued(v)
                         /\ Current(v)' = Current(v)
                         /\ \A k : TaskAt(v, k)' = TaskAt(v, k)
  BY <1>1, <1>2 DEF Oldest, Queued, TaskAt, Current
<1>5. PostersKept /\ SlotsKept /\ QueuesKept
  BY <1>1, <1>4 DEF PostersKept, SlotsKept, QueuesKept, Posts
<1>6. WorkerCursors'
  <2>1. \A v \in Workers : \A j : TaskAt(v, Oldest(v) + j - 1)' = TaskAt(v, Oldest(v) + j - 1)
    BY <1>1, <1>4 DEF TaskAt
  <2> QED
    BY <1>1, <1>4, <2>1 DEF IInv, MainInv, WorkerCursors
<1>7. mode = "serving"
  <2>1. Oldest(w) \in Queued(w) /\ Current(w) = TaskAt(w, Oldest(w))
    BY <1>2, CurrentTask
  <2>2. mode # "drained"
    BY <1>1, <2>1, Sizes DEF IInv, MainInv, Draining, TerminateTask
  <2>3. mode # "ready"
    BY <1>1, ActiveNotReady
  <2> QED
    BY <2>2, <2>3, Modes
<1>8. Progress'
  <2>1. \A t : Running(t)' => Running(t) \/ t = Current(w).pos
    BY <1>4 DEF Running
  <2>2. \A u \in Producers[Current(w).pos] : finished[u] = batches
    BY <1>1, <1>2, <1>7, ReadyMeansDone
  <2>3. \A t \in GraphTasks : finished'[t] = batches' \/ Running(t)' =>
          \A u \in Producers[t] : finished'[u] = batches'
    BY <1>1, <2>1, <2>2 DEF IInv, MainInv, Progress
  <2>4. /\ \A t \in GraphTasks : finished'[t] \in {batches' - 1, batches'}
        /\ \A e \in 1..EndEvent : all_event_counters'[e] = (batches' - 1) * num_triggers(e)
             + Cardinality({t \in GraphTasks : trigger_event[t] = e /\ finished'[t] = batches'})
    BY <1>1 DEF IInv, MainInv, Progress
  <2> QED
    BY <2>3, <2>4 DEF Progress, Producers, num_triggers
<1>9. SchedCursors' /\ RolesKept /\ HaltersKept /\ ReadersKept
  BY <1>1, SchedulersKept
<1>10. Posting'
  BY <1>1, <1>5, <1>9, PostingKept
<1>17. \A q, k : EventAt(q, k)' = EventAt(q, k)
  BY <1>1 DEF EventAt
<1>11. Broadcasts'
  BY <1>1, <1>5, <1>17, BroadcastsKept
<1>12. Serving'
  <2>1. \A v \in Workers : wpc'[v] = "exited" => wpc[v] = "exited" \/ mode # "serving"
    BY <1>4
  <2> QED
    BY <1>1, <1>5, <1>9, <1>17, <2>1, ServingKept
<1>13. Tasks'
  BY <1>1, <1>5, TasksKept
<1>14. Dealing'
  BY <1>1, <1>5, <1>9, DealingKept DEF QueuesKept
<1>15. Stored'
  BY <1>1, StoredKept
<1>16. Draining' /\ Idling'
  BY <1>1, <1>7 DEF Draining, Idling
<1> QED
  BY <1>3, <1>6, <1>8, <1>9, <1>10, <1>11, <1>12, <1>13, <1>14, <1>15, <1>16,
     DimensionedKept DEF IInv, MainInv
-----------------------------------------------------------------------------
(* While a task runs nothing is under way but tasks, and the task is in no *)
(* other place.                                                            *)
LEMMA RunningAlone ==
  ASSUME IInv, NEW w \in Workers, wpc[w] = "run"
  PROVE  /\ mode = "serving" /\ batches \in Nat /\ task_ids[w] # <<>>
         /\ Current(w).pos \in GraphTasks /\ Current(w).iter = batches
         /\ finished[Current(w).pos] = batches - 1
         /\ Oldest(w) \in Queued(w) /\ Current(w) = TaskAt(w, Oldest(w))
         /\ \A v \in Workers : ~Posts(v)
         /\ \A s \in Schedulers : Unread(s) = {} /\ ~Opens(s)
<1>1. mode = "serving" /\ task_ids[w] # <<>> /\ Current(w).pos \in GraphTasks
  BY RunsServing
<1>2. /\ Current(w).iter = batches /\ batches \in Nat
      /\ finished[Current(w).pos] = batches - 1
  BY <1>1, CurrentOfGraph DEF Posts
<1>3. Oldest(w) \in Queued(w) /\ Current(w) = TaskAt(w, Oldest(w))
  BY <1>1, CurrentTask
<1>4. ASSUME NEW v \in Workers, Posts(v) PROVE FALSE
  <2>1. \A u \in Workers \ {v} : Queued(u) = {}
    BY <1>1, <1>4 DEF IInv, MainInv, Serving
  <2>2. v # w
    BY <1>4 DEF Posts
  <2> QED
    BY <1>3, <2>1, <2>2
<1>5. ASSUME NEW s \in Schedulers, Opens(s) PROVE FALSE
  BY <1>1, <1>3, <1>5 DEF IInv, MainInv, Serving
<1>6. ASSUME NEW s \in Schedulers, Unread(s) # {} PROVE FALSE
  <2>1. AllDone
    BY <1>1, <1>5, <1>6 DEF IInv, MainInv, Serving
  <2> QED
    BY <1>1, <1>2, <2>1 DEF AllDone
<1> QED
  BY <1>1, <1>2, <1>3, <1>4, <1>5, <1>6

LEMMA RunningOnce ==
  ASSUME IInv, NEW w \in Workers, wpc[w] = "run"
  PROVE  /\ \A v \in Workers : \A k \in Queued(v) :
              TaskAt(v, k).pos = Current(w).pos => v = w /\ k = Oldest(w)
         /\ \A s \in Schedulers : Spreads(s) => Current(w).pos \notin todo[s]
         /\ \A s \in Schedulers : Current(w).pos \in MyPositions(s) =>
              iteration_num[s] = batches
<1>1. /\ mode = "serving" /\ batches \in Nat
      /\ Current(w).pos \in GraphTasks
      /\ Oldest(w) \in Queued(w) /\ Current(w) = TaskAt(w, Oldest(w))
  BY RunningAlone
<1>2. ASSUME NEW v \in Workers, NEW k \in Queued(v), TaskAt(v, k).pos = Current(w).pos
      PROVE  v = w /\ k = Oldest(w)
  <2>1. v = w
    BY <1>1, <1>2 DEF IInv, MainInv, Tasks
  <2>2. k \in Nat /\ Oldest(w) \in Nat /\ Oldest(w) <= k /\ k \in Queued(w)
    BY <2>1, WorkerTypes
  <2>3. TaskAt(w, k).pos - TaskAt(w, Oldest(w)).pos >= (k - Oldest(w)) * NumWorkers
    BY <1>1, <2>2 DEF IInv, MainInv, Tasks
  <2>4. TaskAt(w, k).pos - TaskAt(w, Oldest(w)).pos = 0
    <3>1. TaskAt(w, Oldest(w)).pos = Current(w).pos
      BY <1>1
    <3>2. TaskAt(w, k).pos = Current(w).pos
      BY <1>2, <2>1
    <3>3. Current(w).pos \in Nat
      BY <1>1, Sizes
    <3> QED
      BY <3>1, <3>2, <3>3
  <2>5. k = Oldest(w)
    <3> DEFINE d == k - Oldest(w)
    <3>1. d \in Nat /\ 0 >= d * NumWorkers
      BY <2>2, <2>3, <2>4
    <3> HIDE DEF d
    <3>2. SUFFICES ASSUME d # 0 PROVE FALSE
      BY <2>2 DEF d
    <3>3. 1 * NumWorkers <= d * NumWorkers
      BY <3>1, <3>2, Sizes, MulMono
    <3> QED
      BY <3>1, <3>3, Sizes
  <2> QED
    BY <2>1, <2>5
<1>3. ASSUME NEW s \in Schedulers, Current(w).pos \in MyPositions(s)
      PROVE  iteration_num[s] = batches /\ w \in my_workers(s)
  <2>1. PICK r \in Schedulers : w \in my_workers(r)
    BY EachOwned
  <2>2. Current(w).pos # 1
    BY <1>3, PositionsOfGraph
  <2>3. Current(w).pos \in MyPositions(r) /\ iteration_num[r] = batches
    BY <1>1, <2>1, <2>2 DEF IInv, MainInv, Tasks
  <2> QED
    BY <1>3, <2>1, <2>3, PositionsApart
<1>4. ASSUME NEW s \in Schedulers, Spreads(s), Current(w).pos \in todo[s] PROVE FALSE
  <2>1. Current(w).pos \in MyPositions(s)
    BY <1>1, <1>4 DEF IInv, MainInv, Dealing
  <2>2. w \in my_workers(s)
    BY <1>3, <2>1
  <2>3. TaskAt(w, Oldest(w)).pos < Current(w).pos
    BY <1>1, <1>4, <2>2 DEF IInv, MainInv, Dealing
  <2>4. TaskAt(w, Oldest(w)).pos = Current(w).pos
    BY <1>1
  <2>5. Current(w).pos \in Nat
    BY <1>1, Sizes
  <2> QED
    BY <2>3, <2>4, <2>5
<1> QED
  BY <1>2, <1>3, <1>4

(* Completing an event takes the last of its producers.                    *)
LEMMA CompletesMeans ==
  ASSUME IInv, NEW w \in Workers, wpc[w] = "run"
  PROVE  LET t == Current(w).pos
             e == trigger_event[t]
             S == {u \in GraphTasks : trigger_event[u] = e /\ finished[u] = batches}
         IN /\ e \in 1..EndEvent
            /\ Cardinality(S \cup {t}) = Cardinality(S) + 1
            /\ all_event_counters[e] + 1 = num_triggers(e) * Current(w).iter
                 <=> S \cup {t} = {u \in GraphTasks : trigger_event[u] = e}
<1> DEFINE t == Current(w).pos
           e == trigger_event[t]
           S == {u \in GraphTasks : trigger_event[u] = e /\ finished[u] = batches}
           P == {u \in GraphTasks : trigger_event[u] = e}
           n == num_triggers(e)
           c == Cardinality(S)
<1>1. /\ batches \in Nat /\ t \in GraphTasks /\ Current(w).iter = batches
      /\ finished[t] = batches - 1
  BY RunningAlone
<1>2. e \in 1..EndEvent
  BY <1>1, GraphAssumption
<1>3. t \notin S /\ S \subseteq P /\ S \cup {t} \subseteq P
  BY <1>1
<1>4. IsFiniteSet(S) /\ c \in Nat
  BY <1>2, <1>3, ProducersFinite
<1>5. Cardinality(S \cup {t}) = c + 1
  BY <1>3, <1>4, FS_AddElement
<1>6. all_event_counters[e] = (batches - 1) * n + c
  BY <1>2 DEF IInv, MainInv, Progress
<1>7. /\ n \in Nat
      /\ Cardinality(S \cup {t}) = n => S \cup {t} = P
  BY <1>2, <1>3, ProducersFinite
<1>8. S \cup {t} = P => Cardinality(S \cup {t}) = n
  BY DEF num_triggers
<1>9. all_event_counters[e] + 1 = n * batches <=> c + 1 = n
  <2> HIDE DEF n, c, e
  <2> DEFINE m == (batches - 1) * n
  <2>1. n * batches = m + n /\ m \in Int
    <3>1. n \in Nat /\ batches \in Nat
      BY <1>1, <1>7
    <3> QED
      BY <3>1
  <2>2. all_event_counters[e] = m + c
    BY <1>6
  <2> HIDE DEF m
  <2> QED
    BY <1>4, <1>7, <2>1, <2>2
<1> QED
  BY <1>1, <1>2, <1>5, <1>7, <1>8, <1>9

(* When the end event is complete every task is done: the last one that is *)
(* not would leave a later one, its consumer, undone.                      *)
LEMMA EndMeansAllDone ==
  ASSUME IInv, NEW w \in Workers, wpc[w] = "run",
         trigger_event[Current(w).pos] = EndEvent,
         all_event_counters[EndEvent] + 1 = num_triggers(EndEvent) * Current(w).iter
  PROVE  \A u \in GraphTasks : u # Current(w).pos => finished[u] = batches
<1> DEFINE t == Current(w).pos
           U == {u \in GraphTasks : u # t /\ finished[u] # batches}
           Heights == {NumTasks - u : u \in U}
<1>1. /\ mode = "serving" /\ batches \in Nat /\ t \in GraphTasks
      /\ Oldest(w) \in Queued(w) /\ Current(w) = TaskAt(w, Oldest(w))
      /\ finished[t] = batches - 1
  BY RunningAlone
<1>2. SUFFICES ASSUME U # {} PROVE FALSE
  OBVIOUS
<1>3. Heights \subseteq Nat /\ Heights # {}
  BY <1>2, Sizes DEF GraphTasks
<1>4. PICK h \in Heights : \A i \in Heights : h <= i
  <2> HIDE DEF Heights
  <2> QED
    BY <1>3, LeastNatural
<1>5. PICK m \in U : h = NumTasks - m
  BY <1>4
<1>6. \A u \in U : u <= m
  <2> TAKE u \in U
  <2>1. NumTasks - u \in Heights
    OBVIOUS
  <2>2. NumTasks - m <= NumTasks - u
    BY <1>4, <1>5, <2>1
  <2> QED
    BY <2>2, Sizes DEF GraphTasks
<1>7. m \in GraphTasks /\ m # t /\ finished[m] # batches
  OBVIOUS
<1>8. t # 1
  <2>1. EndEvent # 1
    BY Sizes
  <2> QED
    BY <1>1, <2>1, GraphAssumption
<1>9. m # 1
  <2>1. TaskAt(w, Oldest(w)).pos # 1
    BY <1>1, <1>8
  <2>2. finished[1] = batches
    BY <1>1, <2>1, QueuedAfterBegin
  <2> QED
    BY <1>7, <2>2
<1> DEFINE e == trigger_event[m]
<1>10. e \in 1..EndEvent
  BY <1>7, GraphAssumption
<1>11. e # 1
  BY <1>7, <1>9, GraphAssumption
<1>12. e # EndEvent
  <2> SUFFICES ASSUME e = EndEvent PROVE FALSE
    OBVIOUS
  <2> DEFINE S == {u \in GraphTasks : trigger_event[u] = EndEvent /\ finished[u] = batches}
  <2>1. S \cup {t} = {u \in GraphTasks : trigger_event[u] = EndEvent}
    BY CompletesMeans
  <2>2. m \in S \cup {t}
    BY <1>7, <2>1
  <2> QED
    BY <1>7, <2>2
<1>13. PICK u \in GraphTasks : dependent_event[u] = e
  <2>1. e \in 2..EndEvent - 1
    BY <1>10, <1>11, <1>12, Sizes
  <2>2. \A f \in 2..EndEvent - 1 : \E v \in GraphTasks : dependent_event[v] = f
    BY GraphAssumption
  <2> QED
    BY <2>1, <2>2
<1>14. m < u
  <2>1. e # 0
    BY <1>10, Sizes
  <2> QED
    BY <1>7, <1>13, <2>1, GraphAssumption
<1>15. m \in Producers[u]
  <2>1. u # 1
    BY <1>10, <1>13, GraphAssumption, Sizes
  <2>2. Producers[u] = {v \in GraphTasks : trigger_event[v] = dependent_event[u]}
    BY <1>10, <1>13, <2>1, Sizes DEF Producers
  <2> QED
    BY <1>7, <1>13, <2>2
<1>16. u \notin U
  <2> SUFFICES ASSUME u \in U PROVE FALSE
    OBVIOUS
  <2>1. u <= m
    BY <1>6
  <2> QED
    BY <1>7, <1>14, <2>1, Sizes
<1>17. finished[u] = batches \/ Running(u)
  BY <1>16 DEF Running
<1>18. finished[m] = batches
  BY <1>15, <1>17 DEF IInv, MainInv, Progress
<1> QED
  BY <1>7, <1>18

(* A worker that is done with its task drops it from its list.             *)
LEMMA Pops ==
  ASSUME IInv, NEW w \in Workers, task_ids[w] # <<>>,
         wpc' = [wpc EXCEPT ![w] = AfterTask(w)],
         task_ids' = [task_ids EXCEPT ![w] = Tail(@)],
         UNCHANGED <<worker_queues, last_ready_task_id, next_task_pos, last_task_pos,
                     next_free_task_pos>>
  PROVE  /\ WorkerCursors'
         /\ wpc'[w] \in {"poll", "wait"}
         /\ \A v \in Workers : v # w => /\ wpc'[v] = wpc[v] /\ Current(v)' = Current(v)
                                        /\ Oldest(v)' = Oldest(v) /\ Queued(v)' = Queued(v)
         /\ Oldest(w)' = Oldest(w) + 1
         /\ Queued(w)' = Queued(w) \ {Oldest(w)}
         /\ \A v \in Workers : \A k : TaskAt(v, k)' = TaskAt(v, k)
<1> DEFINE T == TaskIds \cup {Unwritten}
           q == task_ids[w]
<1>1. /\ task_ids \in [Workers -> Seq(T)]
      /\ wpc \in [Workers -> {"exited", "poll", "load", "wait", "run",
                             "reserve", "store", "publish"}]
  BY DEF IInv, MainInv, TypeOK, WorkersTypeOK
<1>2. q \in Seq(T) /\ q # <<>>
  BY <1>1
<1> HIDE DEF T, q
<1>3. /\ Tail(q) \in Seq(T) /\ Len(q) \in Nat /\ Len(q) # 0 /\ Len(Tail(q)) = Len(q) - 1
      /\ \A j \in 1..Len(q) - 1 : Tail(q)[j] = q[j + 1]
  BY <1>2
<1>4. \A v \in Workers : v # w => task_ids'[v] = task_ids[v] /\ wpc'[v] = wpc[v]
  BY <1>1
<1>5. task_ids'[w] = Tail(q) /\ wpc'[w] = AfterTask(w)
  BY <1>1 DEF q
<1>6. wpc'[w] = IF Len(q) = 1 THEN "poll" ELSE "wait"
  BY <1>5 DEF AfterTask, q
<1>7. \A v \in Workers : v # w => /\ Current(v)' = Current(v) /\ Oldest(v)' = Oldest(v)
                                  /\ Queued(v)' = Queued(v)
  BY <1>4 DEF Current, Oldest, Queued
<1>8. Oldest(w)' = Oldest(w) + 1
  <2>1. Oldest(w) = next_task_pos[w] - Len(q)
    BY DEF Oldest, q
  <2>2. Oldest(w)' = next_task_pos[w] - Len(Tail(q))
    BY <1>5 DEF Oldest
  <2>3. next_task_pos[w] \in Nat
    BY WorkerTypes
  <2> QED
    BY <1>3, <2>1, <2>2, <2>3
<1>9. Queued(w)' = Queued(w) \ {Oldest(w)}
  <2>1. Oldest(w) \in Nat /\ last_ready_task_id[w] \in Nat
    BY WorkerTypes
  <2>2. Queued(w)' = Oldest(w) + 1..last_ready_task_id[w] - 1
    BY <1>8 DEF Queued
  <2>3. Queued(w) = Oldest(w)..last_ready_task_id[w] - 1
    BY DEF Queued
  <2> QED
    BY <2>1, <2>2, <2>3
<1>10. \A v \in Workers : \A k : TaskAt(v, k)' = TaskAt(v, k)
  BY DEF TaskAt
<1>11. WorkerCursors'
  <2> SUFFICES ASSUME NEW v \in Workers
               PROVE  /\ next_free_task_pos'[v] = last_ready_task_id'[v]
                      /\ 0 <= Oldest(v)' /\ next_task_pos'[v] <= last_task_pos'[v]
                      /\ last_task_pos'[v] <= last_ready_task_id'[v]
                      /\ wpc'[v] \in {"poll", "load"} => task_ids'[v] = <<>>
                      /\ \A j \in 1..Len(task_ids'[v]) :
                           task_ids'[v][j] = TaskAt(v, Oldest(v) + j - 1)'
    BY DEF WorkerCursors
  <2>1. /\ next_free_task_pos'[v] = last_ready_task_id'[v]
        /\ next_task_pos'[v] <= last_task_pos'[v]
        /\ last_task_pos'[v] <= last_ready_task_id'[v]
    BY DEF IInv, MainInv, WorkerCursors
  <2>2. CASE v = w
    <3>1. 0 <= Oldest(w)' /\ Oldest(w) \in Nat
      BY <1>8, WorkerTypes
    <3>2. wpc'[w] \in {"poll", "load"} => task_ids'[w] = <<>>
      <4> SUFFICES ASSUME Len(q) = 1 PROVE Tail(q) = <<>>
        BY <1>5, <1>6
      <4>1. Len(Tail(q)) = 0
        BY <1>3
      <4> QED
        BY <1>3, <4>1, EmptySeq, Zenon
    <3>3. ASSUME NEW j \in 1..Len(task_ids'[w])
          PROVE  task_ids'[w][j] = TaskAt(w, Oldest(w) + j - 1)'
      <4>1. j \in 1..Len(q) - 1 /\ j \in Nat /\ j + 1 \in 1..Len(q)
        BY <1>3, <1>5
      <4>2. task_ids'[w][j] = q[j + 1]
        BY <1>3, <1>5, <4>1
      <4>3. q[j + 1] = TaskAt(w, Oldest(w) + (j + 1) - 1)
        BY <4>1 DEF IInv, MainInv, WorkerCursors, q
      <4>4. Oldest(w)' + j - 1 = Oldest(w) + (j + 1) - 1
        BY <1>8, <3>1, <4>1
      <4>5. TaskAt(w, Oldest(w) + j - 1)' = TaskAt(w, Oldest(w) + (j + 1) - 1)
        BY <4>4 DEF TaskAt
      <4> QED
        BY <4>2, <4>3, <4>5
    <3> QED
      BY <2>1, <2>2, <3>1, <3>2, <3>3
  <2>3. CASE v # w
    <3>1. \A j : TaskAt(v, Oldest(v) + j - 1)' = TaskAt(v, Oldest(v) + j - 1)
      BY <1>7, <2>3 DEF TaskAt
    <3>2. /\ 0 <= Oldest(v)
          /\ wpc[v] \in {"poll", "load"} => task_ids[v] = <<>>
          /\ \A j \in 1..Len(task_ids[v]) : task_ids[v][j] = TaskAt(v, Oldest(v) + j - 1)
      BY DEF IInv, MainInv, WorkerCursors
    <3>3. task_ids'[v] = task_ids[v] /\ wpc'[v] = wpc[v] /\ Oldest(v)' = Oldest(v)
      BY <1>4, <1>7, <2>3
    <3> QED
      BY <2>1, <3>1, <3>2, <3>3
  <2> QED
    BY <2>2, <2>3
<1> QED
  BY <1>4, <1>6, <1>7, <1>8, <1>9, <1>10, <1>11

(* The begin task completes its event by itself.                           *)
LEMMA BeginCompletes ==
  ASSUME IInv, NEW w \in Workers, wpc[w] = "run", Current(w).pos = 1
  PROVE  /\ trigger_event[Current(w).pos] = 1
         /\ all_event_counters[1] + 1 = num_triggers(1) * Current(w).iter
<1>1. trigger_event[1] = 1 /\ \A u \in GraphTasks : trigger_event[u] = 1 => u = 1
  BY Sizes, GraphAssumption
<1> DEFINE S == {u \in GraphTasks : trigger_event[u] = 1 /\ finished[u] = batches}
<1>2. S \cup {1} = {u \in GraphTasks : trigger_event[u] = 1}
  BY <1>1, Sizes
<1> QED
  BY <1>1, <1>2, CompletesMeans

(* A task is done: what it does to the counts.                             *)
LEMMA TriggerProgress ==
  ASSUME IInv, NEW w \in Workers, wpc[w] = "run",
         all_event_counters' =
           [all_event_counters EXCEPT ![trigger_event[Current(w).pos]] = @ + 1],
         finished' = [finished EXCEPT ![Current(w).pos] = @ + 1],
         batches' = batches,
         \A v \in Workers : v # w => wpc'[v] = wpc[v] /\ Current(v)' = Current(v),
         wpc'[w] # "run"
  PROVE  /\ Progress'
         /\ finished'[Current(w).pos] = batches
         /\ \A u \in GraphTasks : u # Current(w).pos => finished'[u] = finished[u]
<1> DEFINE t == Current(w).pos
           e == trigger_event[t]
           S(f) == {u \in GraphTasks : trigger_event[u] = f /\ finished[u] = batches}
           S1(f) == {u \in GraphTasks : trigger_event[u] = f /\ finished'[u] = batches}
<1>1. /\ batches \in Nat /\ t \in GraphTasks /\ finished[t] = batches - 1
  BY RunningAlone
<1>2. /\ finished \in [GraphTasks -> Nat] /\ all_event_counters \in [Events -> Nat]
  BY DEF IInv, MainInv, TypeOK, HistoryTypeOK, SharedTypeOK
<1>3. finished'[t] = batches /\ \A u \in GraphTasks : u # t => finished'[u] = finished[u]
  BY <1>1, <1>2
<1>4. e \in 1..EndEvent /\ e \in Events /\ 1..EndEvent \subseteq Events
  <2>1. e \in 1..EndEvent
    BY <1>1, GraphAssumption
  <2>2. 1..EndEvent \subseteq Events
    BY Sizes DEF Events, EndEvent
  <2> QED
    BY <2>1, <2>2
<1>5. \A f \in 1..EndEvent : all_event_counters[f] \in Nat /\
         all_event_counters[f] = (batches - 1) * num_triggers(f) + Cardinality(S(f))
  BY <1>2, <1>4 DEF IInv, MainInv, Progress
<1>6. /\ all_event_counters'[e] = all_event_counters[e] + 1
      /\ \A f \in 1..EndEvent : f # e => all_event_counters'[f] = all_event_counters[f]
  BY <1>2, <1>4
<1>7. S1(e) = S(e) \cup {t} /\ \A f : f # e => S1(f) = S(f)
  BY <1>1, <1>3
<1>8. Cardinality(S(e) \cup {t}) = Cardinality(S(e)) + 1
  BY CompletesMeans
<1>9. \A f \in 1..EndEvent :
         all_event_counters'[f] = (batches' - 1) * num_triggers(f) + Cardinality(S1(f))
  <2> TAKE f \in 1..EndEvent
  <2>1. CASE f = e
    <3> DEFINE m == (batches - 1) * num_triggers(f)
               c == Cardinality(S(f))
    <3>1. num_triggers(f) \in Nat /\ c \in Nat
      BY ProducersFinite
    <3>2. m \in Int
      <4> DEFINE n == num_triggers(f)
      <4>1. n \in Nat
        BY <3>1
      <4> HIDE DEF n
      <4>2. (batches - 1) * n \in Int
        BY <4>1, <1>1
      <4> QED
        BY <4>2 DEF n
    <3>3. all_event_counters'[f] = m + c + 1
      BY <1>5, <1>6, <2>1
    <3>4. Cardinality(S1(f)) = c + 1
      BY <1>7, <1>8, <2>1
    <3> HIDE DEF m, c
    <3>5. all_event_counters'[f] = m + Cardinality(S1(f))
      BY <3>1, <3>2, <3>3, <3>4
    <3> QED
      BY <3>5 DEF m
  <2>2. CASE f # e
    BY <1>5, <1>6, <1>7, <2>2
  <2> QED
    BY <2>1, <2>2
<1>10. \A u \in GraphTasks : finished'[u] \in {batches' - 1, batches'}
  BY <1>3 DEF IInv, MainInv, Progress
<1>11. \A u \in GraphTasks : finished'[u] = batches' \/ Running(u)' =>
         \A v \in Producers[u] : finished'[v] = batches'
  <2> SUFFICES ASSUME NEW u \in GraphTasks, finished'[u] = batches \/ Running(u)',
                      NEW v \in Producers[u]
               PROVE  finished'[v] = batches
    OBVIOUS
  <2>1. v \in GraphTasks
    BY Sizes DEF Producers
  <2>2. finished[u] = batches \/ Running(u)
    <3>1. Running(t)
      BY DEF Running
    <3>2. Running(u)' => Running(u)
      BY DEF Running
    <3> QED
      BY <1>3, <3>1, <3>2
  <2>3. finished[v] = batches
    BY <2>2 DEF IInv, MainInv, Progress
  <2> QED
    BY <1>3, <2>1, <2>3
<1>12. Progress'
  BY <1>9, <1>10, <1>11 DEF Progress, Producers, num_triggers
<1> QED
  BY <1>3, <1>12

(* What every step that ends a task does to the other parts.               *)
LEMMA TriggerDealing ==
  ASSUME IInv, NEW w \in Workers, wpc[w] = "run",
         \A u \in GraphTasks : u # Current(w).pos => finished'[u] = finished[u],
         UNCHANGED <<mode, batches, slocals, last_ready_event_id>>,
         \A v \in Workers : /\ Queued(v)' \subseteq Queued(v)
                            /\ \A k \in Queued(v)' : TaskAt(v, k)' = TaskAt(v, k)
  PROVE  Dealing'
<1>1. RolesKept
  BY SchedulersKept
<1>2. \A s \in Schedulers : Spreads(s) =>
           \A t \in todo[s] : finished[t] = batches - 1 => finished'[t] = finished[t]
  <2> SUFFICES ASSUME NEW s \in Schedulers, Spreads(s), NEW t \in todo[s]
               PROVE  finished'[t] = finished[t]
    OBVIOUS
  <2>1. t \in MyPositions(s)
    BY RunningAlone DEF IInv, MainInv, Dealing
  <2> QED
    BY <2>1, PositionsOfGraph, RunningOnce
<1> QED
  BY <1>1, <1>2, DealingKept DEF slocals

LEMMA TriggerBroadcasts ==
  ASSUME IInv, NEW w \in Workers, wpc[w] = "run",
         \A u \in GraphTasks : u # Current(w).pos => finished'[u] = finished[u],
         UNCHANGED <<batches, slocals, sched_queues, last_ready_event_id>>,
         finished'[1] = batches /\ ~(\E v \in Workers : Posts(v)' /\ Posted(v)' = 1) <=>
           finished[1] = batches
  PROVE  Broadcasts'
<1> USE DEF slocals
<1>1. \A q, k : EventAt(q, k)' = EventAt(q, k)
  BY DEF EventAt
<1>2. \A v \in Workers : ~Posts(v)
  BY RunningAlone
<1>3. last_ready_event_id'[BcastQueue] =
        IF finished'[1] = batches' /\ ~\E v \in Workers : Posts(v)' /\ Posted(v)' = 1
        THEN batches' ELSE batches' - 1
  BY <1>2 DEF IInv, MainInv, Broadcasts
<1>4. ASSUME NEW s \in Schedulers, MyPositions(s) # {}
      PROVE  /\ iteration_num'[s] \in {batches' - 1, batches'}
             /\ iteration_num'[s] = batches' - 1 =>
                  \A u \in MyPositions(s) : finished'[u] = batches' - 1
  <2>1. iteration_num[s] = batches - 1 => Current(w).pos \notin MyPositions(s)
    BY RunningOnce, RunningAlone
  <2> QED
    BY <1>4, <2>1, PositionsOfGraph DEF IInv, MainInv, Broadcasts
<1>5. \A s : MyPositions(s)' = MyPositions(s)
  BY DEF MyPositions, my_workers
<1>6. \A k \in 0..last_ready_event_id'[BcastQueue] - 1 : EventAt(BcastQueue, k)' = 1
  BY <1>1 DEF IInv, MainInv, Broadcasts
<1> QED
  BY <1>3, <1>4, <1>5, <1>6 DEF Broadcasts

(* The task completes event 1 or the end event, and the worker goes on to  *)
(* post it.                                                                *)
LEMMA TriggerPostsInv ==
  ASSUME IInv, NEW w \in Workers, WorkerTrigger(w), wpc' = [wpc EXCEPT ![w] = "reserve"],
         task_ids' = task_ids,
         all_event_counters[trigger_event[Current(w).pos]] + 1 =
           num_triggers(trigger_event[Current(w).pos]) * Current(w).iter,
         trigger_event[Current(w).pos] \in {1, EndEvent}
  PROVE  MainInv'
<1> DEFINE t == Current(w).pos
           e == trigger_event[t]
<1>1. /\ wpc[w] = "run"
      /\ all_event_counters' = [all_event_counters EXCEPT ![e] = @ + 1]
      /\ finished' = [finished EXCEPT ![t] = @ + 1]
      /\ UNCHANGED <<queues, next_task_pos, last_task_pos, wslot, slocals,
                     launches, batches, mode>>
  BY DEF WorkerTrigger
<1>2. /\ UNCHANGED <<worker_queues, last_ready_task_id, sched_queues,
                     last_ready_event_id, next_free_event_id, next_free_task_pos,
                     spc, queue_idx, cur_event_pos, last_event_pos, iteration_num,
                     next_worker, todo, sslot>>
  BY <1>1 DEF queues, slocals
<1>3. wpc \in [Workers -> {"exited", "poll", "load", "wait", "run",
                             "reserve", "store", "publish"}]
  BY DEF IInv, MainInv, TypeOK, WorkersTypeOK
<1>4. TypeOK' /\ OwnInv'
  BY WorkerTriggerType, WorkerOwn DEF IInv, MainInv, WorkerStep
<1>5. /\ \A v \in Workers : v # w => wpc'[v] = wpc[v]
      /\ wpc'[w] = "reserve"
      /\ \A v \in Workers : /\ Oldest(v)' = Oldest(v) /\ Queued(v)' = Queued(v)
                            /\ Current(v)' = Current(v) /\ Posted(v)' = Posted(v)
                            /\ \A k : TaskAt(v, k)' = TaskAt(v, k)
  BY <1>1, <1>2, <1>3 DEF Oldest, Queued, TaskAt, Current, Posted
<1>6. /\ mode = "serving" /\ batches \in Nat /\ task_ids[w] # <<>>
      /\ t \in GraphTasks /\ Current(w).iter = batches
      /\ finished[t] = batches - 1
      /\ Oldest(w) \in Queued(w) /\ Current(w) = TaskAt(w, Oldest(w))
      /\ \A v \in Workers : ~Posts(v)
      /\ \A s \in Schedulers : Unread(s) = {} /\ ~Opens(s)
  BY <1>1, RunningAlone
<1>7. /\ \A v \in Workers : \A k \in Queued(v) :
           TaskAt(v, k).pos = t => v = w /\ k = Oldest(w)
  BY <1>1, RunningOnce
<1>8. /\ Progress' /\ finished'[t] = batches
      /\ \A u \in GraphTasks : u # t => finished'[u] = finished[u]
  <2>1. /\ \A v \in Workers : v # w => wpc'[v] = wpc[v] /\ Current(v)' = Current(v)
        /\ wpc'[w] # "run" /\ batches' = batches
    BY <1>1, <1>5
  <2> QED
    BY <1>1, <2>1, TriggerProgress
<1>9. \A v \in Workers : Posts(v)' <=> v = w
  BY <1>5, <1>6 DEF Posts
<1>10. t = 1 <=> e = 1
  BY <1>6, GraphAssumption
<1>11. /\ e = EndEvent => \A u \in GraphTasks : finished'[u] = batches
       /\ e = 1 => \A u \in GraphTasks : u # 1 => finished'[u] = batches - 1
       /\ e = 1 => Queued(w) = {Oldest(w)} /\ \A v \in Workers \ {w} : Queued(v) = {}
  <2>1. e = EndEvent => \A u \in GraphTasks : finished'[u] = batches
    BY <1>1, <1>8, EndMeansAllDone
  <2>2. ASSUME e = 1
        PROVE  /\ \A u \in GraphTasks : u # 1 => finished'[u] = batches - 1
               /\ Queued(w) = {Oldest(w)} /\ \A v \in Workers \ {w} : Queued(v) = {}
    <3>1. TaskAt(w, Oldest(w)).pos = 1
      BY <1>6, <1>10, <2>2
    <3>2. /\ Queued(w) = {Oldest(w)} /\ \A v \in Workers \ {w} : Queued(v) = {}
          /\ \A u \in GraphTasks : u # 1 => finished[u] = batches - 1
      BY <1>6, <3>1 DEF IInv, MainInv, Serving
    <3> QED
      BY <1>8, <1>10, <2>2, <3>2
  <2> QED
    BY <2>1, <2>2
<1>12. e = EndEvent => Queued(w) = {Oldest(w)} /\ \A v \in Workers \ {w} : Queued(v) = {}
  <2> SUFFICES ASSUME e = EndEvent, NEW v \in Workers, NEW k \in Queued(v)
               PROVE  v = w /\ k = Oldest(w)
    BY <1>6
  <2>1. TaskAt(v, k).pos \in GraphTasks /\ finished[TaskAt(v, k).pos] = batches - 1
    BY <1>6 DEF IInv, MainInv, Tasks
  <2>2. TaskAt(v, k).pos = t
    BY <1>6, <1>8, <1>11, <2>1
  <2> QED
    BY <1>7, <2>2
<1>13. WorkerCursors'
  <2>1. \A v \in Workers : \A j : TaskAt(v, Oldest(v) + j - 1)' = TaskAt(v, Oldest(v) + j - 1)
    BY <1>2, <1>5 DEF TaskAt
  <2>2. UNCHANGED <<next_task_pos, last_task_pos, last_ready_task_id, next_free_task_pos>>
    BY <1>1, <1>2
  <2>3. \A v \in Workers : wpc'[v] \in {"poll", "load"} => wpc[v] \in {"poll", "load"}
    BY <1>5
  <2> QED
    BY <1>5, <2>1, <2>2, <2>3 DEF IInv, MainInv, WorkerCursors
<1>14. SchedCursors' /\ RolesKept /\ HaltersKept /\ ReadersKept
  BY <1>1, <1>2, SchedulersKept
<1>15. Posting'
  <2>1. /\ \A v \in Workers, q \in SchedQueues : ~PostsAt(v, q) /\ ~PostsAt(v, q)'
        /\ \A v \in Workers : wpc'[v] \notin {"store", "publish"}
    BY <1>5, <1>6 DEF PostsAt, Posts
  <2>2. /\ \A s \in Schedulers : (Halts(s)' <=> Halts(s)) /\ spc'[s] = spc[s] /\ sslot'[s] = sslot[s]
        /\ \A s \in Schedulers, q \in SchedQueues : HaltsAt(s, q)' <=> HaltsAt(s, q)
        /\ \A q, k : EventAt(q, k)' = EventAt(q, k)
    BY <1>2 DEF Halts, HaltsAt, EventAt, Least
  <2>3. \A s \in Schedulers, q \in SchedQueues : HaltsAt(s, q)' =>
           /\ sslot'[s] = last_ready_event_id'[q]
           /\ spc'[s] = "haltPublish" => EventAt(q, sslot[s])' = 0
    BY <1>2, <2>2 DEF IInv, MainInv, Posting, EventAt
  <2>4. \A q \in SchedQueues : next_free_event_id'[q] = last_ready_event_id'[q] +
         (IF (\E v \in Workers : PostsAt(v, q)') \/ (\E s \in Schedulers : HaltsAt(s, q)')
          THEN 1 ELSE 0)
    BY <1>2, <2>1, <2>2 DEF IInv, MainInv, Posting
  <2>5. \A s, r \in Schedulers : Halts(s)' /\ Halts(r)' => s = r
    BY <2>2 DEF IInv, MainInv, Posting
  <2> QED
    BY <1>9, <2>1, <2>3, <2>4, <2>5 DEF Posting
<1>16. Broadcasts'
  <2>1. finished'[1] = batches /\ ~(\E v \in Workers : Posts(v)' /\ Posted(v)' = 1) <=>
           finished[1] = batches
    <3>1. Posted(w)' = e
      BY <1>5 DEF Posted
    <3>2. CASE e = 1
      <4>1. Posts(w)' /\ Posted(w)' = 1
        BY <1>9, <3>1, <3>2
      <4>2. finished[1] # batches
        BY <1>6, <1>10, <3>2
      <4> QED
        BY <4>1, <4>2
    <3>3. CASE e # 1
      <4>1. finished'[1] = finished[1]
        BY <1>8, <1>10, <3>3, Sizes
      <4>2. ~(\E v \in Workers : Posts(v)' /\ Posted(v)' = 1)
        BY <1>9, <3>1, <3>3
      <4> QED
        BY <4>1, <4>2
    <3> QED
      BY <3>2, <3>3
  <2> QED
    BY <1>1, <1>2, <1>8, <2>1, TriggerBroadcasts DEF slocals
<1>17. Serving'
  <2> SUFFICES /\ \A v \in Workers : wpc'[v] # "exited"
               /\ \A s \in Schedulers : /\ ~Stops(s)' /\ ~Halts(s)'
                                        /\ Unread(s)' = {} /\ ~Opens(s)'
               /\ \A v \in Workers : Posts(v)' =>
                    /\ Queued(v)' = {Oldest(v)'} /\ \A u \in Workers \ {v} : Queued(u)' = {}
                    /\ \/ Posted(v)' = 1 /\ Current(v)'.pos = 1
                          /\ \A u \in GraphTasks : u # 1 => finished'[u] = batches' - 1
                       \/ Posted(v)' = EndEvent /\ AllDone'
               /\ \A v \in Workers : \A k \in Queued(v)' : TaskAt(v, k)'.pos = 1 =>
                    /\ Queued(v)' = {k} /\ \A u \in Workers \ {v} : Queued(u)' = {}
                    /\ \A u \in GraphTasks : u # 1 => finished'[u] = batches' - 1
    BY DEF Serving
  <2>1. \A v \in Workers : wpc'[v] # "exited"
    BY <1>5, <1>6 DEF IInv, MainInv, Serving
  <2>2. \A s \in Schedulers : ~Stops(s)' /\ ~Halts(s)' /\ Unread(s)' = {} /\ ~Opens(s)'
    BY <1>6, <1>14 DEF IInv, MainInv, Serving, RolesKept, ReadersKept
  <2>3. ASSUME NEW v \in Workers, Posts(v)'
        PROVE  /\ Queued(v)' = {Oldest(v)'} /\ \A u \in Workers \ {v} : Queued(u)' = {}
               /\ \/ Posted(v)' = 1 /\ Current(v)'.pos = 1
                     /\ \A u \in GraphTasks : u # 1 => finished'[u] = batches' - 1
                  \/ Posted(v)' = EndEvent /\ AllDone'
    <3>1. v = w
      BY <1>9, <2>3
    <3>2. Queued(v)' = {Oldest(v)'} /\ \A u \in Workers \ {v} : Queued(u)' = {}
      BY <1>5, <1>11, <1>12, <3>1
    <3>3. CASE e = 1
      <4>1. Posted(v)' = 1 /\ Current(v)'.pos = 1
        BY <1>5, <1>10, <3>1, <3>3 DEF Posted
      <4>2. \A u \in GraphTasks : u # 1 => finished'[u] = batches' - 1
        BY <1>1, <1>11, <3>3
      <4> QED
        BY <3>2, <4>1, <4>2
    <3>4. CASE e = EndEvent
      <4>1. Posted(v)' = EndEvent
        BY <1>5, <3>1, <3>4 DEF Posted
      <4>2. AllDone'
        BY <1>1, <1>11, <3>4 DEF AllDone
      <4> QED
        BY <3>2, <4>1, <4>2
    <3> QED
      BY <3>3, <3>4
  <2>4. ASSUME NEW v \in Workers, NEW k \in Queued(v)', TaskAt(v, k)'.pos = 1
        PROVE  /\ Queued(v)' = {k} /\ \A u \in Workers \ {v} : Queued(u)' = {}
               /\ \A u \in GraphTasks : u # 1 => finished'[u] = batches' - 1
    <3>1. Queued(v) = {k} /\ \A u \in Workers \ {v} : Queued(u) = {}
      BY <1>5, <1>6, <2>4 DEF IInv, MainInv, Serving
    <3>2. v = w /\ k = Oldest(w)
      BY <1>6, <3>1
    <3>3. t = 1
      BY <1>5, <1>6, <2>4, <3>2
    <3>4. \A u \in GraphTasks : u # 1 => finished'[u] = batches' - 1
      BY <1>1, <1>10, <1>11, <3>3
    <3>5. Queued(v)' = {k} /\ \A u \in Workers \ {v} : Queued(u)' = {}
      BY <1>5, <3>1
    <3> QED
      BY <3>4, <3>5
  <2> QED
    BY <2>1, <2>2, <2>3, <2>4
<1>18. Tasks'
  <2>1. \A v \in Workers : \A k \in Queued(v)' :
          /\ TaskAt(v, k)' = [iter |-> batches', pos |-> TaskAt(v, k)'.pos]
          /\ TaskAt(v, k)'.pos \in GraphTasks
          /\ finished'[TaskAt(v, k)'.pos] =
               IF Posts(v)' /\ k = Oldest(v)' THEN batches' ELSE batches' - 1
    <3> SUFFICES ASSUME NEW v \in Workers, NEW k \in Queued(v)
                 PROVE  /\ TaskAt(v, k) = [iter |-> batches, pos |-> TaskAt(v, k).pos]
                        /\ TaskAt(v, k).pos \in GraphTasks
                        /\ finished'[TaskAt(v, k).pos] =
                             IF v = w /\ k = Oldest(w) THEN batches ELSE batches - 1
      BY <1>1, <1>5, <1>9
    <3>1. /\ TaskAt(v, k) = [iter |-> batches, pos |-> TaskAt(v, k).pos]
          /\ TaskAt(v, k).pos \in GraphTasks
          /\ finished[TaskAt(v, k).pos] = batches - 1
      BY <1>6 DEF IInv, MainInv, Tasks
    <3>2. v = w /\ k = Oldest(w) => TaskAt(v, k).pos = t
      BY <1>6
    <3> QED
      BY <1>7, <1>8, <3>1, <3>2
  <2>2. \A v \in Workers : \A k, l \in Queued(v)' : k <= l =>
          TaskAt(v, l)'.pos - TaskAt(v, k)'.pos >= (l - k) * NumWorkers
    BY <1>5, <1>6 DEF IInv, MainInv, Tasks
  <2>3. \A v, u \in Workers : \A k \in Queued(v)', l \in Queued(u)' :
          TaskAt(v, k)'.pos = TaskAt(u, l)'.pos => v = u
    BY <1>5, <1>6 DEF IInv, MainInv, Tasks
  <2>4. \A s \in Schedulers : \A v \in my_workers(s) : \A k \in Queued(v)' :
          TaskAt(v, k)'.pos # 1 =>
            TaskAt(v, k)'.pos \in MyPositions(s) /\ iteration_num'[s] = batches'
    BY <1>1, <1>2, <1>5, <1>6, MyWorkersAreWorkers DEF IInv, MainInv, Tasks
  <2>5. \A s : MyPositions(s)' = MyPositions(s) /\ my_workers(s)' = my_workers(s)
    BY DEF MyPositions, my_workers
  <2> QED
    BY <2>1, <2>2, <2>3, <2>4, <2>5 DEF Tasks
<1>19. Dealing'
  BY <1>1, <1>2, <1>5, <1>8, TriggerDealing
<1>20. Stored'
  BY <1>1, <1>2, StoredKept
<1>21. Draining' /\ Idling'
  BY <1>1, <1>6 DEF Draining, Idling
<1> QED
  BY <1>4, <1>8, <1>13, <1>14, <1>15, <1>16, <1>17, <1>18, <1>19, <1>20, <1>21,
     DimensionedKept DEF IInv, MainInv

(* The task triggers its event without completing it, or completes an      *)
(* event that nobody is told of.                                           *)
LEMMA TriggerPopsInv ==
  ASSUME IInv, NEW w \in Workers, WorkerTrigger(w), wpc' = [wpc EXCEPT ![w] = AfterTask(w)],
         task_ids' = [task_ids EXCEPT ![w] = Tail(@)], Current(w).pos # 1
  PROVE  MainInv'
<1> DEFINE t == Current(w).pos
           e == trigger_event[t]
<1>1. /\ wpc[w] = "run"
      /\ all_event_counters' = [all_event_counters EXCEPT ![e] = @ + 1]
      /\ finished' = [finished EXCEPT ![t] = @ + 1]
      /\ UNCHANGED <<queues, next_task_pos, last_task_pos, wslot, slocals,
                     launches, batches, mode>>
  BY DEF WorkerTrigger
<1>2. /\ UNCHANGED <<worker_queues, last_ready_task_id, sched_queues,
                     last_ready_event_id, next_free_event_id, next_free_task_pos,
                     spc, queue_idx, cur_event_pos, last_event_pos, iteration_num,
                     next_worker, todo, sslot>>
  BY <1>1 DEF queues, slocals
<1>3. /\ mode = "serving" /\ batches \in Nat /\ task_ids[w] # <<>>
      /\ t \in GraphTasks /\ Current(w).iter = batches
      /\ finished[t] = batches - 1
      /\ Oldest(w) \in Queued(w) /\ Current(w) = TaskAt(w, Oldest(w))
      /\ \A v \in Workers : ~Posts(v)
      /\ \A s \in Schedulers : Unread(s) = {} /\ ~Opens(s)
  BY <1>1, RunningAlone
<1>4. TypeOK' /\ OwnInv'
  BY WorkerTriggerType, WorkerOwn DEF IInv, MainInv, WorkerStep
<1>5. /\ WorkerCursors'
      /\ wpc'[w] \in {"poll", "wait"}
      /\ \A v \in Workers : v # w => /\ wpc'[v] = wpc[v] /\ Current(v)' = Current(v)
                                     /\ Oldest(v)' = Oldest(v) /\ Queued(v)' = Queued(v)
      /\ Oldest(w)' = Oldest(w) + 1
      /\ Queued(w)' = Queued(w) \ {Oldest(w)}
      /\ \A v \in Workers : \A k : TaskAt(v, k)' = TaskAt(v, k)
  BY <1>1, <1>2, <1>3, Pops
<1>6. \A v \in Workers : \A k \in Queued(v) :
        TaskAt(v, k).pos = t => v = w /\ k = Oldest(w)
  BY <1>1, RunningOnce
<1>7. /\ Progress' /\ finished'[t] = batches
      /\ \A u \in GraphTasks : u # t => finished'[u] = finished[u]
  <2>1. /\ \A v \in Workers : v # w => wpc'[v] = wpc[v] /\ Current(v)' = Current(v)
        /\ wpc'[w] # "run" /\ batches' = batches
    BY <1>1, <1>5
  <2> QED
    BY <1>1, <2>1, TriggerProgress
<1>8. \A v \in Workers : ~Posts(v)' /\ wpc'[v] \notin {"store", "publish"}
  BY <1>3, <1>5 DEF Posts
<1>9. \A v \in Workers : /\ Queued(v)' \subseteq Queued(v)
                         /\ \A k \in Queued(v)' : TaskAt(v, k)' = TaskAt(v, k)
  BY <1>5
<1>10. SchedCursors' /\ RolesKept /\ HaltersKept /\ ReadersKept
  BY <1>1, <1>2, SchedulersKept
<1>11. Posting'
  <2>1. \A v \in Workers, q \in SchedQueues : ~PostsAt(v, q) /\ ~PostsAt(v, q)'
    BY <1>3, <1>8 DEF PostsAt, Posts
  <2>2. /\ \A s \in Schedulers : (Halts(s)' <=> Halts(s)) /\ spc'[s] = spc[s] /\ sslot'[s] = sslot[s]
        /\ \A s \in Schedulers, q \in SchedQueues : HaltsAt(s, q)' <=> HaltsAt(s, q)
        /\ \A q, k : EventAt(q, k)' = EventAt(q, k)
    BY <1>2 DEF Halts, HaltsAt, EventAt, Least
  <2>3. \A s \in Schedulers, q \in SchedQueues : HaltsAt(s, q)' =>
           /\ sslot'[s] = last_ready_event_id'[q]
           /\ spc'[s] = "haltPublish" => EventAt(q, sslot[s])' = 0
    BY <1>2, <2>2 DEF IInv, MainInv, Posting, EventAt
  <2>4. \A q \in SchedQueues : next_free_event_id'[q] = last_ready_event_id'[q] +
         (IF (\E v \in Workers : PostsAt(v, q)') \/ (\E s \in Schedulers : HaltsAt(s, q)')
          THEN 1 ELSE 0)
    BY <1>2, <2>1, <2>2 DEF IInv, MainInv, Posting
  <2>5. \A s, r \in Schedulers : Halts(s)' /\ Halts(r)' => s = r
    BY <2>2 DEF IInv, MainInv, Posting
  <2> QED
    BY <1>8, <2>3, <2>4, <2>5 DEF Posting
<1>12. Broadcasts'
  <2>1. finished'[1] = finished[1]
    BY <1>7, Sizes
  <2>2. finished'[1] = batches /\ ~(\E v \in Workers : Posts(v)' /\ Posted(v)' = 1) <=>
           finished[1] = batches
    BY <1>8, <2>1
  <2> QED
    BY <1>1, <1>2, <1>7, <2>2, TriggerBroadcasts DEF slocals
<1>13. Serving'
  <2>1. \A v \in Workers : wpc'[v] # "exited"
    BY <1>3, <1>5 DEF IInv, MainInv, Serving
  <2>2. \A s \in Schedulers : ~Stops(s)' /\ ~Halts(s)' /\ Unread(s)' = {} /\ ~Opens(s)'
    BY <1>3, <1>10 DEF IInv, MainInv, Serving, RolesKept, ReadersKept
  <2>3. ASSUME NEW v \in Workers, NEW k \in Queued(v)', TaskAt(v, k)'.pos = 1
        PROVE  FALSE
    <3>1. k \in Queued(v) /\ TaskAt(v, k).pos = 1
      BY <1>5, <1>9, <2>3
    <3>2. \A u \in Workers \ {v} : Queued(u) = {}
      BY <1>3, <3>1 DEF IInv, MainInv, Serving
    <3>3. Queued(v) = {k}
      BY <1>3, <3>1 DEF IInv, MainInv, Serving
    <3>4. v = w /\ k = Oldest(w)
      BY <1>3, <3>2, <3>3
    <3> QED
      BY <1>3, <3>1, <3>4
  <2> QED
    BY <1>8, <2>1, <2>2, <2>3 DEF Serving
<1>14. Tasks'
  <2>1. \A v \in Workers : \A k \in Queued(v)' :
          /\ TaskAt(v, k)' = [iter |-> batches', pos |-> TaskAt(v, k)'.pos]
          /\ TaskAt(v, k)'.pos \in GraphTasks
          /\ finished'[TaskAt(v, k)'.pos] =
               IF Posts(v)' /\ k = Oldest(v)' THEN batches' ELSE batches' - 1
    <3> SUFFICES ASSUME NEW v \in Workers, NEW k \in Queued(v)'
                 PROVE  /\ TaskAt(v, k) = [iter |-> batches, pos |-> TaskAt(v, k).pos]
                        /\ TaskAt(v, k).pos \in GraphTasks
                        /\ finished'[TaskAt(v, k).pos] = batches - 1
      BY <1>1, <1>5, <1>8
    <3>1. k \in Queued(v) /\ ~(v = w /\ k = Oldest(w))
      BY <1>5, <1>9
    <3>2. /\ TaskAt(v, k) = [iter |-> batches, pos |-> TaskAt(v, k).pos]
          /\ TaskAt(v, k).pos \in GraphTasks
          /\ finished[TaskAt(v, k).pos] = batches - 1
      BY <1>3, <3>1 DEF IInv, MainInv, Tasks
    <3> QED
      BY <1>6, <1>7, <3>1, <3>2
  <2>2. \A v \in Workers : \A k, l \in Queued(v)' : k <= l =>
          TaskAt(v, l)'.pos - TaskAt(v, k)'.pos >= (l - k) * NumWorkers
    BY <1>3, <1>9 DEF IInv, MainInv, Tasks
  <2>3. \A v, u \in Workers : \A k \in Queued(v)', l \in Queued(u)' :
          TaskAt(v, k)'.pos = TaskAt(u, l)'.pos => v = u
    BY <1>3, <1>9 DEF IInv, MainInv, Tasks
  <2>4. \A s \in Schedulers : \A v \in my_workers(s) : \A k \in Queued(v)' :
          TaskAt(v, k)'.pos # 1 =>
            TaskAt(v, k)'.pos \in MyPositions(s) /\ iteration_num'[s] = batches'
    BY <1>1, <1>2, <1>3, <1>9, MyWorkersAreWorkers DEF IInv, MainInv, Tasks
  <2>5. \A s : MyPositions(s)' = MyPositions(s) /\ my_workers(s)' = my_workers(s)
    BY DEF MyPositions, my_workers
  <2> QED
    BY <2>1, <2>2, <2>3, <2>4, <2>5 DEF Tasks
<1>15. Dealing'
  BY <1>1, <1>2, <1>7, <1>9, TriggerDealing
<1>16. Stored'
  BY <1>1, <1>2, StoredKept
<1>17. Draining' /\ Idling'
  BY <1>1, <1>3 DEF Draining, Idling
<1> QED
  BY <1>4, <1>5, <1>7, <1>10, <1>11, <1>12, <1>13, <1>14, <1>15, <1>16, <1>17,
     DimensionedKept DEF IInv, MainInv

LEMMA WorkerTriggerInv ==
  ASSUME IInv, NEW w \in Workers, WorkerTrigger(w)
  PROVE  MainInv'
<1> DEFINE e == trigger_event[Current(w).pos]
           completes == all_event_counters[e] + 1 = num_triggers(e) * Current(w).iter
<1>1. wpc[w] = "run"
  BY DEF WorkerTrigger
<1>2. Current(w).pos \in GraphTasks /\ e \in 1..EndEvent /\ e \in Events
  <2>1. Current(w).pos \in GraphTasks
    BY <1>1, RunningAlone
  <2>2. e \in 1..EndEvent
    BY <2>1, GraphAssumption
  <2>3. 1..EndEvent \subseteq Events
    BY Sizes DEF Events, EndEvent
  <2> QED
    BY <2>1, <2>2, <2>3
<1>3. CASE completes /\ EventType(e) # "EVENT_EMPTY"
  <2>1. wpc' = [wpc EXCEPT ![w] = "reserve"] /\ task_ids' = task_ids
    BY <1>3 DEF WorkerTrigger
  <2>2. e \in {1, EndEvent}
    BY <1>2, <1>3, KindOfEvent, Sizes
  <2> QED
    BY <1>3, <2>1, <2>2, TriggerPostsInv
<1>4. CASE ~(completes /\ EventType(e) # "EVENT_EMPTY")
  <2>1. /\ wpc' = [wpc EXCEPT ![w] = AfterTask(w)]
        /\ task_ids' = [task_ids EXCEPT ![w] = Tail(@)]
    BY <1>4 DEF WorkerTrigger
  <2>2. Current(w).pos # 1
    <3> SUFFICES ASSUME Current(w).pos = 1 PROVE FALSE
      OBVIOUS
    <3>1. e = 1 /\ completes
      BY <1>1, BeginCompletes
    <3> QED
      BY <1>2, <1>4, <3>1, KindOfEvent
  <2> QED
    BY <2>1, <2>2, TriggerPopsInv
<1> QED
  BY <1>3, <1>4
-----------------------------------------------------------------------------
(* A worker that posts an event is the only one with anything to do.       *)
LEMMA PostingAlone ==
  ASSUME IInv, NEW w \in Workers, Posts(w)
  PROVE  /\ mode = "serving" /\ batches \in Nat /\ task_ids[w] # <<>>
         /\ Current(w) = TaskAt(w, Oldest(w)) /\ Current(w).pos \in GraphTasks
         /\ finished[Current(w).pos] = batches
         /\ Queued(w) = {Oldest(w)} /\ \A v \in Workers \ {w} : Queued(v) = {}
         /\ \A v \in Workers : Posts(v) => v = w
         /\ \A s \in Schedulers : Unread(s) = {} /\ ~Opens(s) /\ ~Halts(s) /\ ~Stops(s)
         /\ \/ Posted(w) = 1 /\ Current(w).pos = 1 /\ EventQueue(w) = BcastQueue
               /\ \A t \in GraphTasks : t # 1 => finished[t] = batches - 1
            \/ /\ Posted(w) = EndEvent /\ AllDone
               /\ EventQueue(w) \in Schedulers /\ my_workers(EventQueue(w)) # {}
<1>1. mode = "serving" /\ task_ids[w] # <<>> /\ Current(w).pos \in GraphTasks
  BY RunsServing
<1>2. /\ batches \in Nat /\ finished[Current(w).pos] = batches
      /\ Oldest(w) \in Queued(w) /\ Current(w) = TaskAt(w, Oldest(w))
  BY <1>1, CurrentOfGraph, CurrentTask
<1>3. /\ Queued(w) = {Oldest(w)} /\ \A v \in Workers \ {w} : Queued(v) = {}
      /\ \/ Posted(w) = 1 /\ Current(w).pos = 1
            /\ \A t \in GraphTasks : t # 1 => finished[t] = batches - 1
         \/ Posted(w) = EndEvent /\ AllDone
  BY <1>1 DEF IInv, MainInv, Serving
<1>4. \A v \in Workers : Posts(v) => v = w
  BY DEF IInv, MainInv, Posting
<1>5. \A s \in Schedulers : Unread(s) = {} /\ ~Opens(s) /\ ~Halts(s) /\ ~Stops(s)
  BY <1>1, <1>2 DEF IInv, MainInv, Serving
<1>6. Posted(w) \in Events /\ 1 # EndEvent
  <2>1. trigger_event[Current(w).pos] \in 1..EndEvent
    BY <1>1, GraphAssumption
  <2> QED
    BY <2>1, Sizes DEF Posted, Events, EndEvent
<1>7. EventQueue(w) = IF Posted(w) = 1 THEN BcastQueue
                      ELSE get_rand_sched_id(w, NumWorkers, NumSchedulers)
  <2>1. EventType(Posted(w)) = "EVENT_LAUNCH_DEPENDENT_TASKS" <=> Posted(w) = 1
    BY <1>6, KindOfEvent
  <2> QED
    BY <2>1 DEF EventQueue, Posted
<1>8. CASE Posted(w) = 1
  BY <1>1, <1>2, <1>3, <1>4, <1>5, <1>6, <1>7, <1>8
<1>9. CASE Posted(w) # 1
  <2>1. Posted(w) = EndEvent /\ AllDone
    BY <1>3, <1>9
  <2>2. EventQueue(w) \in Schedulers /\ my_workers(EventQueue(w)) # {}
    BY <1>7, <1>9, RandIsServing
  <2> QED
    BY <1>1, <1>2, <1>3, <1>4, <1>5, <2>1, <2>2
<1> QED
  BY <1>8, <1>9

(* What reserving a slot, and storing into it, leave as it is.             *)
LEMMA PostsOnInv ==
  ASSUME IInv, NEW w \in Workers, Posts(w), TypeOK', OwnInv', Posting',
         wpc' \in {[wpc EXCEPT ![w] = "store"], [wpc EXCEPT ![w] = "publish"]},
         UNCHANGED <<worker_queues, last_ready_task_id, last_ready_event_id,
                     all_event_counters, next_task_pos, last_task_pos, task_ids,
                     slocals, launches, history>>,
         \A k \in 0..last_ready_event_id[BcastQueue] - 1 :
           EventAt(BcastQueue, k)' = EventAt(BcastQueue, k)
  PROVE  MainInv'
<1> USE DEF slocals, history
<1>1. /\ \A v \in Workers : v # w => wpc'[v] = wpc[v]
      /\ wpc'[w] \in {"store", "publish"}
      /\ \A v \in Workers : /\ Oldest(v)' = Oldest(v) /\ Queued(v)' = Queued(v)
                            /\ Current(v)' = Current(v)
                            /\ \A k : TaskAt(v, k)' = TaskAt(v, k)
  <2>1. wpc \in [Workers -> {"exited", "poll", "load", "wait", "run",
                             "reserve", "store", "publish"}]
    BY DEF IInv, MainInv, TypeOK, WorkersTypeOK
  <2> QED
    BY <2>1 DEF Oldest, Queued, TaskAt, Current
<1>2. PostersKept /\ QueuesKept
  BY <1>1 DEF PostersKept, QueuesKept, Posts
<1>3. /\ mode = "serving" /\ \A s \in Schedulers : Unread(s) = {}
  BY PostingAlone
<1>4. WorkerCursors'
  <2>1. \A v \in Workers : \A j : TaskAt(v, Oldest(v) + j - 1)' = TaskAt(v, Oldest(v) + j - 1)
    BY <1>1 DEF TaskAt
  <2>2. \A v \in Workers : wpc'[v] \in {"poll", "load"} => wpc[v] \in {"poll", "load"}
    BY <1>1
  <2> QED
    BY <1>1, <2>1, <2>2 DEF IInv, MainInv, WorkerCursors
<1>5. SchedCursors' /\ RolesKept /\ HaltersKept /\ ReadersKept
  BY SchedulersKept
<1>6. Broadcasts'
  BY <1>2, BroadcastsKept
<1>7. Progress'
  <2>1. \A v \in Workers : wpc'[v] = "run" => wpc[v] = "run" /\ Current(v)' = Current(v)
    BY <1>1
  <2> QED
    BY <2>1, ProgressKept
<1>8. Serving'
  <2>1. \A v \in Workers : wpc'[v] = "exited" => wpc[v] = "exited" \/ mode # "serving"
    BY <1>1
  <2>2. \A s \in Schedulers : \A k \in Unread(s) : EventAt(s, k)' = EventAt(s, k)
    BY <1>3
  <2> QED
    BY <1>2, <1>5, <2>1, <2>2, ServingKept
<1>9. Tasks'
  BY <1>2, TasksKept
<1>10. Dealing'
  BY <1>2, <1>5, DealingKept DEF QueuesKept
<1>11. Stored'
  BY StoredKept
<1>12. Draining' /\ Idling'
  BY <1>3 DEF Draining, Idling
<1> QED
  BY <1>4, <1>5, <1>6, <1>7, <1>8, <1>9, <1>10, <1>11, <1>12, DimensionedKept DEF IInv, MainInv

LEMMA WorkerReserveInv ==
  ASSUME IInv, NEW w \in Workers, WorkerReserve(w)
  PROVE  MainInv'
<1> USE DEF slocals, history
<1>1. /\ wpc[w] = "reserve" /\ wpc' = [wpc EXCEPT ![w] = "store"]
      /\ wslot' = [wslot EXCEPT ![w] = next_free_event_id[EventQueue(w)]]
      /\ next_free_event_id' = [next_free_event_id EXCEPT ![EventQueue(w)] = @ + 1]
      /\ UNCHANGED <<worker_queues, last_ready_task_id, sched_queues,
                     last_ready_event_id, all_event_counters, next_task_pos,
                     last_task_pos, task_ids, slocals, launches, history>>
  BY DEF WorkerReserve
<1>2. TypeOK' /\ OwnInv'
  BY WorkerReserveType, WorkerOwn DEF IInv, MainInv, WorkerStep
<1>3. Posts(w)
  BY <1>1 DEF Posts
<1>4. /\ \A v \in Workers : Posts(v) => v = w
      /\ \A s \in Schedulers : ~Halts(s)
  BY <1>3, PostingAlone
<1>5. /\ wpc \in [Workers -> {"exited", "poll", "load", "wait", "run",
                             "reserve", "store", "publish"}]
      /\ wslot \in [Workers -> Nat] /\ next_free_event_id \in [SchedQueues -> Nat]
      /\ last_ready_event_id \in [SchedQueues -> Nat]
      /\ EventQueue(w) \in SchedQueues
  BY EventQueueExists DEF IInv, MainInv, TypeOK, WorkersTypeOK, SharedTypeOK
<1>6. \A v \in Workers : EventQueue(v)' = EventQueue(v)
  BY <1>1 DEF EventQueue, Current
<1>7. /\ wpc'[w] = "store" /\ \A v \in Workers : v # w => wpc'[v] = wpc[v]
      /\ wslot'[w] = next_free_event_id[EventQueue(w)]
  BY <1>1, <1>5
<1>8. /\ \A v \in Workers, q \in SchedQueues : ~PostsAt(v, q)
      /\ \A v \in Workers, q \in SchedQueues : PostsAt(v, q)' <=> v = w /\ q = EventQueue(w)
      /\ \A v \in Workers : (Posts(v)' => v = w) /\ wpc'[v] # "publish"
  BY <1>1, <1>4, <1>6, <1>7 DEF Posts, PostsAt
<1>9. /\ \A s \in Schedulers, q \in SchedQueues : ~HaltsAt(s, q) /\ ~HaltsAt(s, q)'
      /\ \A s \in Schedulers : ~Halts(s)'
  BY <1>1, <1>4 DEF Halts, HaltsAt
<1>10. \A q \in SchedQueues : next_free_event_id[q] = last_ready_event_id[q]
  BY <1>5, <1>8, <1>9 DEF IInv, MainInv, Posting
<1>11. Posting'
  <2>1. \A q \in SchedQueues : next_free_event_id'[q] = last_ready_event_id'[q] +
         (IF (\E v \in Workers : PostsAt(v, q)') \/ (\E s \in Schedulers : HaltsAt(s, q)')
          THEN 1 ELSE 0)
    <3> TAKE q \in SchedQueues
    <3>1. CASE q = EventQueue(w)
      BY <1>1, <1>5, <1>8, <1>10, <3>1
    <3>2. CASE q # EventQueue(w)
      BY <1>1, <1>5, <1>8, <1>9, <1>10, <3>2
    <3> QED
      BY <3>1, <3>2
  <2>2. \A v \in Workers : wpc'[v] \in {"store", "publish"} =>
           wslot'[v] = last_ready_event_id'[EventQueue(v)']
    <3> SUFFICES ASSUME NEW v \in Workers, wpc'[v] \in {"store", "publish"}
                 PROVE  wslot'[v] = last_ready_event_id'[EventQueue(v)']
      OBVIOUS
    <3>1. v = w
      BY <1>8 DEF Posts
    <3> QED
      BY <1>1, <1>5, <1>6, <1>7, <1>10, <3>1
  <2> QED
    BY <1>8, <1>9, <2>1, <2>2 DEF Posting
<1>12. \A k \in 0..last_ready_event_id[BcastQueue] - 1 :
         EventAt(BcastQueue, k)' = EventAt(BcastQueue, k)
  BY <1>1 DEF EventAt
<1> QED
  BY <1>1, <1>2, <1>3, <1>11, <1>12, PostsOnInv

LEMMA WorkerStoreInv ==
  ASSUME IInv, NEW w \in Workers, WorkerStore(w)
  PROVE  MainInv'
<1> USE DEF slocals, history
<1>1. /\ wpc[w] = "store" /\ wpc' = [wpc EXCEPT ![w] = "publish"]
      /\ sched_queues' = [sched_queues EXCEPT
           ![EventQueue(w)][wslot[w] % per_sched_queue_len] = Posted(w)]
      /\ UNCHANGED <<worker_queues, last_ready_task_id, last_ready_event_id,
                     next_free_event_id, all_event_counters, next_task_pos,
                     last_task_pos, task_ids, wslot, slocals, launches, history>>
  BY DEF WorkerStore, Posted
<1>2. TypeOK' /\ OwnInv'
  BY WorkerStoreType, WorkerOwn DEF IInv, MainInv, WorkerStep
<1>3. Posts(w)
  BY <1>1 DEF Posts
<1>4. /\ \A v \in Workers : Posts(v) => v = w
      /\ \A s \in Schedulers : ~Halts(s)
      /\ EventQueue(w) = BcastQueue => Posted(w) = 1
  BY <1>3, PostingAlone, QueueOfOwn
<1>5. /\ wpc \in [Workers -> {"exited", "poll", "load", "wait", "run",
                             "reserve", "store", "publish"}]
      /\ wslot[w] \in Nat
      /\ sched_queues \in [SchedQueues -> [0..per_sched_queue_len - 1 -> Events \cup {Undefined}]]
      /\ EventQueue(w) \in SchedQueues
  BY EventQueueExists DEF IInv, MainInv, TypeOK, WorkersTypeOK, SharedTypeOK, Rings
<1>6. \A v \in Workers : EventQueue(v)' = EventQueue(v) /\ Posted(v)' = Posted(v)
  BY <1>1 DEF EventQueue, Current, Posted
<1>7. wpc'[w] = "publish" /\ \A v \in Workers : v # w => wpc'[v] = wpc[v]
  BY <1>1, <1>5
<1>8. wslot[w] % per_sched_queue_len \in 0..per_sched_queue_len - 1
  BY <1>5, RingIndex, Sizes
<1>9. /\ EventAt(EventQueue(w), wslot[w])' = Posted(w)
      /\ \A k : EventAt(BcastQueue, k)' = EventAt(BcastQueue, k)
                \/ (EventQueue(w) = BcastQueue /\ EventAt(BcastQueue, k)' = Posted(w))
  <2>1. EventAt(EventQueue(w), wslot[w])' =
          sched_queues'[EventQueue(w)][wslot[w] % per_sched_queue_len]
    BY <1>1, <1>6 DEF EventAt
  <2>2. EventAt(EventQueue(w), wslot[w])' = Posted(w)
    BY <1>1, <1>5, <1>8, <2>1
  <2>3. ASSUME NEW k
        PROVE  EventAt(BcastQueue, k)' = EventAt(BcastQueue, k)
               \/ (EventQueue(w) = BcastQueue /\ EventAt(BcastQueue, k)' = Posted(w))
    <3>1. CASE EventQueue(w) = BcastQueue /\ k % per_sched_queue_len = wslot[w] % per_sched_queue_len
      BY <1>1, <1>5, <1>8, <3>1 DEF EventAt
    <3>2. CASE EventQueue(w) = BcastQueue /\ k % per_sched_queue_len # wslot[w] % per_sched_queue_len
      BY <1>1, <1>5, <1>8, <3>2 DEF EventAt
    <3>3. CASE EventQueue(w) # BcastQueue
      BY <1>1, <1>5, <3>3, QueueOfOwn, FirstServes DEF EventAt
    <3> QED
      BY <3>1, <3>2, <3>3
  <2> QED
    BY <2>2, <2>3
<1>10. \A k \in 0..last_ready_event_id[BcastQueue] - 1 :
         EventAt(BcastQueue, k)' = EventAt(BcastQueue, k)
  <2>1. \A k \in 0..last_ready_event_id[BcastQueue] - 1 : EventAt(BcastQueue, k) = 1
    BY DEF IInv, MainInv, Broadcasts
  <2> QED
    BY <1>4, <1>9, <2>1
<1>11. Posting'
  <2>1. /\ \A v \in Workers, q \in SchedQueues : PostsAt(v, q)' <=> PostsAt(v, q)
        /\ \A v \in Workers : Posts(v)' => v = w
        /\ \A v \in Workers : wpc'[v] \in {"store", "publish"} => v = w
    BY <1>1, <1>4, <1>6, <1>7 DEF Posts, PostsAt
  <2>2. /\ \A s \in Schedulers, q \in SchedQueues : ~HaltsAt(s, q) /\ ~HaltsAt(s, q)'
        /\ \A s \in Schedulers : ~Halts(s)'
    BY <1>1, <1>4 DEF Halts, HaltsAt
  <2>3. \A q \in SchedQueues : next_free_event_id'[q] = last_ready_event_id'[q] +
         (IF (\E v \in Workers : PostsAt(v, q)') \/ (\E s \in Schedulers : HaltsAt(s, q)')
          THEN 1 ELSE 0)
    BY <1>1, <2>1, <2>2 DEF IInv, MainInv, Posting
  <2>4. wslot'[w] = last_ready_event_id'[EventQueue(w)']
    BY <1>1, <1>6 DEF IInv, MainInv, Posting
  <2>5. EventAt(EventQueue(w), wslot[w])' = Posted(w)'
    BY <1>6, <1>9
  <2> QED
    BY <2>1, <2>2, <2>3, <2>4, <2>5 DEF Posting
<1> QED
  BY <1>1, <1>2, <1>3, <1>10, <1>11, PostsOnInv

(* The steps that end with every worker idle leave little to keep.         *)
LEMMA NothingQueued ==
  ASSUME \A v \in Workers : Queued(v)' = {}, UNCHANGED mode
  PROVE  Tasks'
<1>1. \A s \in Schedulers : my_workers(s)' \subseteq Workers
  BY MyWorkersAreWorkers DEF my_workers
<1> QED
  BY <1>1 DEF Tasks

LEMMA WorkerPublishInv ==
  ASSUME IInv, NEW w \in Workers, WorkerPublish(w)
  PROVE  MainInv'
<1> USE DEF slocals, history
<1> DEFINE q == EventQueue(w)
<1>1. /\ wpc[w] = "publish" /\ wpc' = [wpc EXCEPT ![w] = AfterTask(w)]
      /\ last_ready_event_id[q] = wslot[w]
      /\ last_ready_event_id' = [last_ready_event_id EXCEPT ![q] = wslot[w] + 1]
      /\ task_ids' = [task_ids EXCEPT ![w] = Tail(@)]
      /\ UNCHANGED <<worker_queues, last_ready_task_id, sched_queues,
                     next_free_event_id, all_event_counters, next_task_pos,
                     last_task_pos, wslot, slocals, launches, history>>
  BY DEF WorkerPublish
<1>2. TypeOK' /\ OwnInv'
  BY WorkerPublishType, WorkerOwn DEF IInv, MainInv, WorkerStep
<1>3. Posts(w)
  BY <1>1 DEF Posts
<1>4. /\ mode = "serving" /\ batches \in Nat /\ task_ids[w] # <<>>
      /\ Current(w).pos \in GraphTasks /\ finished[Current(w).pos] = batches
      /\ Queued(w) = {Oldest(w)} /\ \A v \in Workers \ {w} : Queued(v) = {}
      /\ \A v \in Workers : Posts(v) => v = w
      /\ \A s \in Schedulers : Unread(s) = {} /\ ~Opens(s) /\ ~Halts(s) /\ ~Stops(s)
      /\ \/ Posted(w) = 1 /\ Current(w).pos = 1 /\ q = BcastQueue
            /\ \A t \in GraphTasks : t # 1 => finished[t] = batches - 1
         \/ /\ Posted(w) = EndEvent /\ AllDone
            /\ q \in Schedulers /\ my_workers(q) # {}
  BY <1>3, PostingAlone
<1>5. /\ wpc \in [Workers -> {"exited", "poll", "load", "wait", "run",
                             "reserve", "store", "publish"}]
      /\ wslot[w] \in Nat
      /\ next_free_event_id \in [SchedQueues -> Nat]
      /\ last_ready_event_id \in [SchedQueues -> Nat]
      /\ q \in SchedQueues
  BY EventQueueExists DEF IInv, MainInv, TypeOK, WorkersTypeOK, SharedTypeOK
<1>6. /\ WorkerCursors'
      /\ wpc'[w] \in {"poll", "wait"}
      /\ \A v \in Workers : v # w => wpc'[v] = wpc[v] /\ Current(v)' = Current(v)
                                     /\ Queued(v)' = Queued(v)
      /\ Queued(w)' = Queued(w) \ {Oldest(w)}
      /\ \A v \in Workers : \A k : TaskAt(v, k)' = TaskAt(v, k)
  BY <1>1, <1>4, Pops
<1>7. \A v \in Workers : Queued(v)' = {} /\ ~Posts(v)' /\ wpc'[v] \notin {"store", "publish"}
  BY <1>4, <1>6 DEF Posts
<1>8. /\ \A s \in Schedulers : /\ (Spreads(s)' <=> Spreads(s)) /\ (Halts(s)' <=> Halts(s))
                               /\ (Opens(s)' <=> Opens(s)) /\ (Stops(s)' <=> Stops(s))
      /\ \A s \in Schedulers, r \in SchedQueues : ~HaltsAt(s, r) /\ ~HaltsAt(s, r)'
  BY <1>1, <1>4 DEF Spreads, Halts, Opens, Stops, HaltsAt
<1>9. \A s \in Schedulers, k \in Nat : EventAt(s, k)' = EventAt(s, k)
  BY <1>1 DEF EventAt
<1>10. /\ last_ready_event_id'[q] = last_ready_event_id[q] + 1
       /\ \A r \in SchedQueues : r # q => last_ready_event_id'[r] = last_ready_event_id[r]
       /\ EventAt(q, last_ready_event_id[q]) = Posted(w)
  BY <1>1, <1>5 DEF IInv, MainInv, Posting
<1>11. SchedCursors'
  <2>1. \A r \in SchedQueues : /\ last_ready_event_id[r] \in Nat /\ last_ready_event_id'[r] \in Nat
                               /\ last_ready_event_id[r] <= last_ready_event_id'[r]
    BY <1>5, <1>10
  <2>2. \A s \in Schedulers : \A i \in 0..1 :
          /\ cur_event_pos'[s][i] <= last_event_pos'[s][i]
          /\ last_event_pos'[s][i] <= last_ready_event_id'[QueueOf(s, i)]
    <3> SUFFICES ASSUME NEW s \in Schedulers, NEW i \in 0..1
                 PROVE  /\ cur_event_pos[s][i] <= last_event_pos[s][i]
                        /\ last_event_pos[s][i] <= last_ready_event_id'[QueueOf(s, i)]
      BY <1>1
    <3>1. /\ cur_event_pos[s][i] <= last_event_pos[s][i] /\ last_event_pos[s][i] \in Nat
          /\ last_event_pos[s][i] <= last_ready_event_id[QueueOf(s, i)]
      BY SchedTypes DEF IInv, MainInv, SchedCursors
    <3>2. QueueOf(s, i) \in SchedQueues
      BY QueueOfExists
    <3> QED
      BY <2>1, <3>1, <3>2
  <2>3. \A s : \A i : QueueOf(s, i)' = QueueOf(s, i)
    BY DEF QueueOf
  <2> QED
    BY <1>1, <1>8, <2>2, <2>3 DEF IInv, MainInv, SchedCursors
<1>12. Posting'
  <2>1. \A r \in SchedQueues : next_free_event_id[r] = last_ready_event_id[r] +
          (IF r = q THEN 1 ELSE 0)
    <3>1. \A v \in Workers, r \in SchedQueues : PostsAt(v, r) <=> v = w /\ r = q
      BY <1>1, <1>4 DEF PostsAt, Posts
    <3> QED
      BY <1>8, <3>1 DEF IInv, MainInv, Posting
  <2>2. \A v \in Workers, r \in SchedQueues : ~PostsAt(v, r)'
    BY <1>7 DEF PostsAt
  <2>3. \A r \in SchedQueues : next_free_event_id'[r] = last_ready_event_id'[r]
    BY <1>1, <1>5, <1>10, <2>1
  <2>4. \A r \in SchedQueues : next_free_event_id'[r] = last_ready_event_id'[r] +
         (IF (\E v \in Workers : PostsAt(v, r)') \/ (\E s \in Schedulers : HaltsAt(s, r)')
          THEN 1 ELSE 0)
    BY <1>5, <1>8, <1>10, <2>2, <2>3
  <2>5. \A s \in Schedulers : ~Halts(s)'
    BY <1>4, <1>8
  <2> QED
    BY <1>7, <1>8, <2>4, <2>5 DEF Posting
<1>13. Broadcasts'
  <2>1. /\ \A k \in 0..last_ready_event_id[BcastQueue] - 1 : EventAt(BcastQueue, k) = 1
        /\ last_ready_event_id[BcastQueue] =
             IF finished[1] = batches /\ ~\E v \in Workers : Posts(v) /\ Posted(v) = 1
             THEN batches ELSE batches - 1
        /\ \A s \in Schedulers : MyPositions(s) # {} =>
             /\ iteration_num[s] \in {batches - 1, batches}
             /\ iteration_num[s] = batches - 1 =>
                  \A t \in MyPositions(s) : finished[t] = batches - 1
    BY DEF IInv, MainInv, Broadcasts
  <2>2. \A k : EventAt(BcastQueue, k)' = EventAt(BcastQueue, k)
    BY <1>1 DEF EventAt
  <2>3. finished[1] = batches
    BY <1>4, Sizes DEF AllDone
  <2>4. CASE Posted(w) = 1
    <3>1. q = BcastQueue
      BY <1>4, <2>4, Sizes
    <3>2. last_ready_event_id[BcastQueue] = batches - 1
      BY <1>3, <2>1, <2>4
    <3>3. last_ready_event_id'[BcastQueue] = batches
      BY <1>4, <1>10, <3>1, <3>2
    <3>4. \A k \in 0..last_ready_event_id'[BcastQueue] - 1 : EventAt(BcastQueue, k)' = 1
      <4> TAKE k \in 0..last_ready_event_id'[BcastQueue] - 1
      <4>1. k \in 0..last_ready_event_id[BcastQueue] - 1 \/ k = last_ready_event_id[BcastQueue]
        BY <1>4, <3>2, <3>3
      <4>2. EventAt(BcastQueue, last_ready_event_id[BcastQueue]) = 1
        BY <1>10, <2>4, <3>1
      <4> QED
        BY <2>1, <2>2, <4>1, <4>2
    <3> QED
      BY <1>1, <1>7, <2>1, <2>3, <3>3, <3>4 DEF Broadcasts, MyPositions, my_workers
  <2>5. CASE Posted(w) # 1
    <3>1. q # BcastQueue
      BY <1>4, <2>5, QueueOfOwn
    <3>2. last_ready_event_id'[BcastQueue] = last_ready_event_id[BcastQueue]
      BY <1>10, <3>1, QueueOfOwn, FirstServes
    <3>3. last_ready_event_id[BcastQueue] = batches
      BY <1>4, <2>1, <2>3, <2>5
    <3> QED
      BY <1>1, <1>7, <2>1, <2>2, <2>3, <3>2, <3>3 DEF Broadcasts, MyPositions, my_workers
  <2> QED
    BY <2>4, <2>5
<1>14. Progress'
  <2>1. \A v \in Workers : wpc'[v] = "run" => wpc[v] = "run" /\ Current(v)' = Current(v)
    BY <1>6
  <2> QED
    BY <1>1, <2>1, ProgressKept
<1>15. \A s \in Schedulers : /\ s # q => Unread(s)' = {}
                             /\ s = q => /\ Unread(s)' = {cur_event_pos'[s][0]}
                                         /\ EventAt(s, cur_event_pos[s][0])' = Posted(w)
  <2> TAKE s \in Schedulers
  <2>1. /\ cur_event_pos[s][0] \in Nat /\ last_ready_event_id[s] \in Nat
        /\ cur_event_pos[s][0] <= last_ready_event_id[s] /\ s \in SchedQueues
    BY SchedTypes, QueueOfOwn
  <2>2. cur_event_pos[s][0] = last_ready_event_id[s]
    BY <1>4, <2>1 DEF Unread
  <2>3. Unread(s)' = cur_event_pos[s][0]..last_ready_event_id'[s] - 1
    BY <1>1 DEF Unread
  <2>4. EventAt(s, cur_event_pos[s][0])' = EventAt(s, cur_event_pos[s][0])
    BY <1>1 DEF EventAt
  <2> QED
    BY <1>1, <1>10, <2>1, <2>2, <2>3, <2>4
<1>16. Serving'
  <2>1. \A v \in Workers : wpc'[v] # "exited"
    BY <1>4, <1>6 DEF IInv, MainInv, Serving
  <2>2. ASSUME NEW s \in Schedulers
        PROVE  /\ ~Stops(s)' /\ ~Halts(s)' /\ ~Opens(s)'
               /\ Unread(s)' # {} => /\ Unread(s)' = {cur_event_pos'[s][0]}
                                     /\ EventAt(s, cur_event_pos[s][0])' = EndEvent
                                     /\ \A r \in Schedulers : Unread(r)' # {} => r = s
                                     /\ AllDone'
    <3>1. s = q => Posted(w) = EndEvent /\ AllDone
      BY <1>4, QueueOfOwn
    <3>2. AllDone => AllDone'
      BY <1>1 DEF AllDone
    <3> QED
      BY <1>4, <1>8, <1>15, <3>1, <3>2
  <2> QED
    BY <1>7, <2>1, <2>2 DEF Serving
<1>17. Tasks'
  BY <1>1, <1>7, NothingQueued
<1>18. Dealing'
  <2>1. RolesKept
    BY <1>1, <1>8 DEF RolesKept
  <2> QED
    BY <1>1, <1>7, <2>1, DealingKept
<1>19. Stored'
  BY <1>1, StoredKept
<1>20. Draining' /\ Idling'
  BY <1>1, <1>4 DEF Draining, Idling
<1> QED
  BY <1>2, <1>6, <1>11, <1>12, <1>13, <1>14, <1>16, <1>17, <1>18, <1>19, <1>20,
     DimensionedKept DEF IInv, MainInv

LEMMA WorkerInv ==
  ASSUME IInv, NEW w \in Workers, WorkerStep(w)
  PROVE  MainInv'
BY WorkerPollInv, WorkerLoadInv, WorkerStartInv, WorkerTerminateInv, WorkerTriggerInv,
   WorkerReserveInv, WorkerStoreInv, WorkerPublishInv DEF WorkerStep

-----------------------------------------------------------------------------
(* The scheduler's steps.                                                  *)

(* What a scheduler's step that stores no task leaves as it is.            *)
LEMMA WorkersKept ==
  ASSUME IInv, UNCHANGED <<worker_queues, last_ready_task_id, next_free_task_pos, wlocals>>
  PROVE  /\ WorkerCursors' /\ PostersKept /\ SlotsKept /\ QueuesKept
         /\ \A w \in Workers : /\ wpc'[w] = wpc[w] /\ Current(w)' = Current(w)
                               /\ Queued(w)' = Queued(w) /\ Oldest(w)' = Oldest(w)
                               /\ (Posts(w)' <=> Posts(w)) /\ Posted(w)' = Posted(w)
                               /\ \A k : TaskAt(w, k)' = TaskAt(w, k)
<1> USE DEF wlocals
<1>1. \A w \in Workers : /\ wpc'[w] = wpc[w] /\ Current(w)' = Current(w)
                         /\ Queued(w)' = Queued(w) /\ Oldest(w)' = Oldest(w)
                         /\ (Posts(w)' <=> Posts(w)) /\ Posted(w)' = Posted(w)
                         /\ \A k : TaskAt(w, k)' = TaskAt(w, k)
  BY DEF Current, Queued, Oldest, Posts, Posted, TaskAt
<1>2. PostersKept /\ SlotsKept /\ QueuesKept
  BY <1>1 DEF PostersKept, SlotsKept, QueuesKept
<1>3. WorkerCursors'
  <2>1. \A v \in Workers : \A j : TaskAt(v, Oldest(v) + j - 1)' = TaskAt(v, Oldest(v) + j - 1)
    BY <1>1 DEF TaskAt
  <2> QED
    BY <1>1, <2>1 DEF IInv, MainInv, WorkerCursors
<1> QED
  BY <1>1, <1>2, <1>3

LEMMA SchedPollInv ==
  ASSUME IInv, NEW s \in Schedulers, SchedPoll(s)
  PROVE  MainInv'
<1> DEFINE i == queue_idx[s]
           q == QueueOf(s, i)
           last == IF cur_event_pos[s][i] = last_event_pos[s][i]
                   THEN last_ready_event_id[q] ELSE last_event_pos[s][i]
<1> USE DEF queues, history
<1>1. /\ spc[s] = "poll"
      /\ last_event_pos' = [last_event_pos EXCEPT ![s][i] = last]
      /\ \/ /\ spc' = [spc EXCEPT ![s] = "read"] /\ cur_event_pos[s][i] < last
            /\ UNCHANGED queue_idx
         \/ /\ queue_idx' = [queue_idx EXCEPT ![s] = 1 - i]
            /\ UNCHANGED spc
      /\ UNCHANGED <<queues, all_event_counters, wlocals, cur_event_pos,
                     iteration_num, next_worker, next_free_task_pos, todo,
                     sslot, launches, history>>
  BY DEF SchedPoll
<1>2. TypeOK' /\ OwnInv'
  BY SchedPollType, SchedOwn DEF IInv, MainInv, SchedStep
<1>3. /\ WorkerCursors' /\ PostersKept /\ SlotsKept /\ QueuesKept
      /\ \A w \in Workers : /\ wpc'[w] = wpc[w] /\ Current(w)' = Current(w)
                            /\ \A k : TaskAt(w, k)' = TaskAt(w, k)
  BY <1>1, WorkersKept
<1>4. /\ spc \in [Schedulers -> {"exited", "poll", "read", "launch", "launched",
                             "stop", "stopped", "halt", "haltStore", "haltPublish"}]
      /\ queue_idx \in [Schedulers -> 0..1]
      /\ cur_event_pos \in [Schedulers -> [0..1 -> Nat]]
      /\ last_event_pos \in [Schedulers -> [0..1 -> Nat]]
      /\ last_ready_event_id \in [SchedQueues -> Nat]
      /\ i \in 0..1 /\ q \in SchedQueues
  BY QueueOfExists DEF IInv, MainInv, TypeOK, SchedsTypeOK, SharedTypeOK
<1>5. /\ \A r \in Schedulers : r # s => spc'[r] = spc[r] /\ queue_idx'[r] = queue_idx[r]
      /\ \/ spc'[s] = "read" /\ queue_idx'[s] = i /\ cur_event_pos[s][i] < last
         \/ spc'[s] = "poll" /\ queue_idx'[s] = 1 - i
  BY <1>1, <1>4
<1>6. /\ RolesKept /\ HaltersKept /\ ReadersKept
      /\ \A r \in Schedulers : spc'[r] \in {"launch", "launched"} =>
                                 spc[r] \in {"launch", "launched"}
      /\ \A r \in Schedulers : spc'[r] = "stopped" \/ spc'[r] = "launched" => spc'[r] = spc[r]
  <2>1. \A r \in Schedulers : r # s =>
          /\ (Opens(r)' <=> Opens(r)) /\ (Spreads(r)' <=> Spreads(r))
          /\ (Stops(r)' <=> Stops(r)) /\ (Halts(r)' <=> Halts(r))
    BY <1>5 DEF Opens, Spreads, Stops, Halts
  <2>2. /\ ~Opens(s) /\ ~Spreads(s) /\ ~Stops(s) /\ ~Halts(s)
        /\ ~Opens(s)' /\ ~Spreads(s)' /\ ~Stops(s)' /\ ~Halts(s)'
    BY <1>1, <1>5 DEF Opens, Spreads, Stops, Halts
  <2>3. RolesKept /\ HaltersKept
    BY <1>1, <1>5, <2>1, <2>2 DEF RolesKept, HaltersKept
  <2>4. ReadersKept
    BY <1>1 DEF ReadersKept, Unread
  <2> QED
    BY <1>1, <1>5, <2>2, <2>3, <2>4
<1>7. SchedCursors'
  <2>1. last \in Nat /\ cur_event_pos[s][i] <= last /\ last <= last_ready_event_id[q]
    BY <1>4, SchedTypes DEF IInv, MainInv, SchedCursors
  <2> HIDE DEF last
  <2>2. /\ last_event_pos'[s][i] = last
        /\ \A r \in Schedulers, j \in 0..1 :
             (r # s \/ j # i) => last_event_pos'[r][j] = last_event_pos[r][j]
    BY <1>1, <1>4
  <2>3. \A r \in Schedulers : \A j \in 0..1 :
          /\ cur_event_pos'[r][j] <= last_event_pos'[r][j]
          /\ last_event_pos'[r][j] <= last_ready_event_id'[QueueOf(r, j)]
    <3> SUFFICES ASSUME NEW r \in Schedulers, NEW j \in 0..1
                 PROVE  /\ cur_event_pos[r][j] <= last_event_pos'[r][j]
                        /\ last_event_pos'[r][j] <= last_ready_event_id[QueueOf(r, j)]
      BY <1>1
    <3>1. CASE r = s /\ j = i
      BY <2>1, <2>2, <3>1
    <3>2. CASE r # s \/ j # i
      BY <2>2, <3>2 DEF IInv, MainInv, SchedCursors
    <3> QED
      BY <3>1, <3>2
  <2>4. \A r \in Schedulers : spc'[r] \notin {"poll", "exited"} =>
          cur_event_pos'[r][queue_idx'[r]] < last_event_pos'[r][queue_idx'[r]]
    <3> SUFFICES ASSUME NEW r \in Schedulers, spc'[r] \notin {"poll", "exited"}
                 PROVE  cur_event_pos[r][queue_idx'[r]] < last_event_pos'[r][queue_idx'[r]]
      BY <1>1
    <3>1. CASE r = s
      BY <1>5, <2>2, <3>1
    <3>2. CASE r # s
      BY <1>4, <1>5, <2>2, <3>2 DEF IInv, MainInv, SchedCursors
    <3> QED
      BY <3>1, <3>2
  <2>5. \A r \in Schedulers :
          /\ iteration_num'[r] = cur_event_pos'[r][1] + (IF Spreads(r)' THEN 1 ELSE 0)
          /\ spc'[r] \in {"stop", "stopped"} \/ Halts(r)' => queue_idx'[r] = 0 /\ todo'[r] # {}
    <3> TAKE r \in Schedulers
    <3>1. (Spreads(r)' <=> Spreads(r)) /\ (Halts(r)' <=> Halts(r)) /\ todo'[r] = todo[r]
      BY <1>6 DEF RolesKept
    <3>2. r = s => ~Halts(r) /\ spc'[r] \notin {"stop", "stopped"}
      BY <1>1, <1>5 DEF Halts
    <3> QED
      BY <1>1, <1>5, <3>1, <3>2 DEF IInv, MainInv, SchedCursors
  <2>6. \A r, j : QueueOf(r, j)' = QueueOf(r, j)
    BY DEF QueueOf
  <2> QED
    BY <2>3, <2>4, <2>5, <2>6 DEF SchedCursors
<1>8. \A r, k : EventAt(r, k)' = EventAt(r, k)
  BY <1>1 DEF EventAt
<1>9. Posting'
  BY <1>1, <1>3, <1>6, PostingKept
<1>10. Broadcasts'
  BY <1>1, <1>3, <1>8, BroadcastsKept
<1>11. Progress'
  BY <1>1, <1>3, ProgressKept
<1>12. Serving'
  BY <1>1, <1>3, <1>6, <1>8, ServingKept
<1>13. Tasks'
  BY <1>1, <1>3, TasksKept
<1>14. Dealing'
  BY <1>1, <1>3, <1>6, DealingKept DEF QueuesKept
<1>15. Stored'
  <2>1. \A r \in Schedulers : /\ todo'[r] = todo[r]
                              /\ spc'[r] = "launched" => spc[r] = "launched"
                              /\ spc'[r] = "stopped" => spc[r] = "stopped"
    BY <1>1, <1>6
  <2> QED
    BY <1>1, <2>1 DEF IInv, MainInv, Stored, TaskAt, Least, compute_task_id
<1>16. Draining'
  BY <1>1, <1>3, <1>6, DrainingKept
<1>17. Idling'
  BY <1>1, ActiveNotReady DEF Idling
<1> QED
  BY <1>2, <1>3, <1>7, <1>9, <1>10, <1>11, <1>12, <1>13, <1>14, <1>15, <1>16, <1>17,
     DimensionedKept DEF IInv, MainInv
-----------------------------------------------------------------------------
(* A step of one scheduler leaves the others alone.                        *)
OthersKept(s) == \A r \in Schedulers : r # s =>
  /\ spc'[r] = spc[r] /\ queue_idx'[r] = queue_idx[r] /\ todo'[r] = todo[r]
  /\ cur_event_pos'[r] = cur_event_pos[r] /\ last_event_pos'[r] = last_event_pos[r]
  /\ iteration_num'[r] = iteration_num[r] /\ sslot'[r] = sslot[r]

LEMMA SchedVarTypes ==
  ASSUME IInv
  PROVE  /\ spc \in [Schedulers -> {"exited", "poll", "read", "launch", "launched", "stop",
                                    "stopped", "halt", "haltStore", "haltPublish"}]
         /\ queue_idx \in [Schedulers -> 0..1]
         /\ cur_event_pos \in [Schedulers -> [0..1 -> Nat]]
         /\ last_event_pos \in [Schedulers -> [0..1 -> Nat]]
         /\ iteration_num \in [Schedulers -> Nat]
         /\ next_worker \in [Schedulers -> Nat]
         /\ todo \in [Schedulers -> SUBSET Nat]
         /\ sslot \in [Schedulers -> Nat]
BY DEF IInv, MainInv, TypeOK, SchedsTypeOK

LEMMA OthersRoles ==
  ASSUME NEW s \in Schedulers, OthersKept(s)
  PROVE  \A r \in Schedulers : r # s =>
           /\ (Opens(r)' <=> Opens(r)) /\ (Spreads(r)' <=> Spreads(r))
           /\ (Stops(r)' <=> Stops(r)) /\ (Halts(r)' <=> Halts(r))
           /\ \A q : (HaltsAt(r, q)' <=> HaltsAt(r, q))
BY DEF OthersKept, Opens, Spreads, Stops, Halts, HaltsAt, Least

LEMMA SchedCursorsStep ==
  ASSUME IInv, NEW s \in Schedulers, OthersKept(s),
         UNCHANGED <<queue_idx, last_event_pos>>,
         \A q \in SchedQueues : /\ last_ready_event_id'[q] \in Nat
                                /\ last_ready_event_id[q] <= last_ready_event_id'[q],
         \A i \in 0..1 : cur_event_pos'[s][i] <= last_event_pos[s][i],
         spc'[s] \notin {"poll", "exited"} =>
           cur_event_pos'[s] = cur_event_pos[s] /\ spc[s] \notin {"poll", "exited"},
         iteration_num'[s] = cur_event_pos'[s][1] + (IF Spreads(s)' THEN 1 ELSE 0),
         spc'[s] \in {"stop", "stopped"} \/ Halts(s)' => queue_idx[s] = 0 /\ todo'[s] # {}
  PROVE  SchedCursors'
<1>1. \A r \in Schedulers : \A i \in 0..1 :
        /\ cur_event_pos'[r][i] <= last_event_pos'[r][i]
        /\ last_event_pos'[r][i] <= last_ready_event_id'[QueueOf(r, i)]
  <2> SUFFICES ASSUME NEW r \in Schedulers, NEW i \in 0..1
               PROVE  /\ cur_event_pos'[r][i] <= last_event_pos[r][i]
                      /\ last_event_pos[r][i] <= last_ready_event_id'[QueueOf(r, i)]
    OBVIOUS
  <2>1. /\ cur_event_pos[r][i] <= last_event_pos[r][i] /\ last_event_pos[r][i] \in Nat
        /\ last_event_pos[r][i] <= last_ready_event_id[QueueOf(r, i)]
        /\ QueueOf(r, i) \in SchedQueues /\ last_ready_event_id[QueueOf(r, i)] \in Nat
    BY SchedTypes, QueueOfExists DEF IInv, MainInv, SchedCursors, TypeOK, SharedTypeOK
  <2>2. cur_event_pos'[r][i] <= last_event_pos[r][i]
    BY <2>1 DEF OthersKept
  <2> QED
    BY <2>1, <2>2
<1>2. ASSUME NEW r \in Schedulers, r # s
      PROVE  /\ spc'[r] \notin {"poll", "exited"} =>
                  cur_event_pos'[r][queue_idx'[r]] < last_event_pos'[r][queue_idx'[r]]
             /\ iteration_num'[r] = cur_event_pos'[r][1] + (IF Spreads(r)' THEN 1 ELSE 0)
             /\ spc'[r] \in {"stop", "stopped"} \/ Halts(r)' => queue_idx'[r] = 0 /\ todo'[r] # {}
  <2>1. /\ spc[r] \notin {"poll", "exited"} =>
              cur_event_pos[r][queue_idx[r]] < last_event_pos[r][queue_idx[r]]
        /\ iteration_num[r] = cur_event_pos[r][1] + (IF Spreads(r) THEN 1 ELSE 0)
        /\ spc[r] \in {"stop", "stopped"} \/ Halts(r) => queue_idx[r] = 0 /\ todo[r] # {}
    BY DEF IInv, MainInv, SchedCursors
  <2>2. (Spreads(r)' <=> Spreads(r)) /\ (Halts(r)' <=> Halts(r))
    BY <1>2, OthersRoles
  <2> QED
    BY <1>2, <2>1, <2>2 DEF OthersKept
<1>3. spc'[s] \notin {"poll", "exited"} =>
        cur_event_pos'[s][queue_idx'[s]] < last_event_pos'[s][queue_idx'[s]]
  BY DEF IInv, MainInv, SchedCursors
<1>4. \A r, i : QueueOf(r, i)' = QueueOf(r, i)
  BY DEF QueueOf
<1> QED
  BY <1>1, <1>2, <1>3, <1>4 DEF SchedCursors

LEMMA ReadTerminationInv ==
  ASSUME IInv, NEW s \in Schedulers, ReadTermination(s)
  PROVE  MainInv'
<1> USE DEF queues, history
<1> DEFINE own == my_workers(s)
<1>1. /\ spc[s] = "read" /\ EventRead(s) = 0
      /\ todo' = [todo EXCEPT ![s] = own]
      /\ spc' = [spc EXCEPT ![s] = IF own = {} THEN "exited" ELSE "stop"]
      /\ UNCHANGED <<queues, all_event_counters, wlocals, queue_idx, cur_event_pos,
                     last_event_pos, iteration_num, next_worker,
                     next_free_task_pos, sslot, launches, history>>
  BY DEF ReadTermination
<1>2. TypeOK' /\ OwnInv'
  BY ReadTerminationType, SchedOwn DEF IInv, MainInv, SchedStep
<1>3. /\ spc'[s] \in {"stop", "exited"} /\ todo'[s] = own
      /\ spc'[s] = "stop" => own # {}
      /\ OthersKept(s)
  BY <1>1, SchedVarTypes DEF OthersKept
<1>4. /\ queue_idx[s] = 0 /\ cur_event_pos[s][0] \in Unread(s)
      /\ EventAt(s, cur_event_pos[s][0]) = 0
  BY <1>1, ReadsEvent
<1>5. mode = "drained"
  <2>1. mode # "ready"
    BY <1>1, ActiveNotReady
  <2>2. mode # "serving"
    <3> SUFFICES ASSUME mode = "serving" PROVE FALSE
      OBVIOUS
    <3>1. EventAt(s, cur_event_pos[s][0]) = EndEvent
      BY <1>4 DEF IInv, MainInv, Serving
    <3> QED
      BY <1>4, <3>1, Sizes
  <2> QED
    BY <2>1, <2>2, Modes
<1>6. /\ WorkerCursors' /\ PostersKept /\ SlotsKept /\ QueuesKept
      /\ \A w \in Workers : /\ wpc'[w] = wpc[w] /\ Current(w)' = Current(w)
                            /\ Queued(w)' = Queued(w) /\ Oldest(w)' = Oldest(w)
                            /\ (Posts(w)' <=> Posts(w))
                            /\ \A k : TaskAt(w, k)' = TaskAt(w, k)
  BY <1>1, WorkersKept
<1>7. /\ \A r \in Schedulers : r # s =>
           (Stops(r)' <=> Stops(r)) /\ (Halts(r)' <=> Halts(r))
      /\ ~Halts(s) /\ ~Halts(s)' /\ ~Spreads(s)' /\ ~Stops(s) /\ Stops(s)'
  BY <1>1, <1>3, OthersRoles DEF Halts, Spreads, Stops
<1>8. HaltersKept
  BY <1>3, <1>7 DEF HaltersKept, OthersKept
<1>9. \A r, k : EventAt(r, k)' = EventAt(r, k)
  BY <1>1 DEF EventAt
<1>10. \A r \in Schedulers : Unread(r)' = Unread(r)
  BY <1>1 DEF Unread
<1>11. SchedCursors'
  <2>1. \A q \in SchedQueues : /\ last_ready_event_id'[q] \in Nat
                               /\ last_ready_event_id[q] <= last_ready_event_id'[q]
    BY <1>1 DEF IInv, MainInv, TypeOK, SharedTypeOK
  <2>2. \A i \in 0..1 : cur_event_pos'[s][i] <= last_event_pos[s][i]
    BY <1>1, SchedTypes
  <2>3. spc'[s] \notin {"poll", "exited"} =>
           cur_event_pos'[s] = cur_event_pos[s] /\ spc[s] \notin {"poll", "exited"}
    BY <1>1
  <2>4. iteration_num'[s] = cur_event_pos'[s][1] + (IF Spreads(s)' THEN 1 ELSE 0)
    <3>1. ~Spreads(s)
      BY <1>1 DEF Spreads
    <3> QED
      BY <1>1, <1>7, <3>1 DEF IInv, MainInv, SchedCursors
  <2>5. spc'[s] \in {"stop", "stopped"} \/ Halts(s)' => queue_idx[s] = 0 /\ todo'[s] # {}
    BY <1>3, <1>4, <1>7
  <2>6. UNCHANGED <<queue_idx, last_event_pos>>
    BY <1>1
  <2> QED
    BY <1>3, <2>1, <2>2, <2>3, <2>4, <2>5, <2>6, SchedCursorsStep
<1>12. Posting'
  BY <1>1, <1>6, <1>8, PostingKept
<1>13. Broadcasts'
  BY <1>1, <1>6, <1>9, BroadcastsKept
<1>14. Progress'
  BY <1>1, <1>6, ProgressKept
<1>15. Serving' /\ Tasks' /\ Dealing' /\ Idling'
  BY <1>1, <1>5 DEF Serving, Tasks, Dealing, Idling
<1>16. Stored'
  <2>1. \A r \in Schedulers :
          /\ spc'[r] = "launched" => spc[r] = "launched" /\ todo'[r] = todo[r]
          /\ spc'[r] = "stopped" => spc[r] = "stopped" /\ todo'[r] = todo[r]
    BY <1>3 DEF OthersKept
  <2> QED
    BY <1>1, <2>1 DEF IInv, MainInv, Stored, TaskAt, Least, compute_task_id
<1>17. Draining'
  <2>1. AllDone'
    BY <1>1, <1>5 DEF IInv, MainInv, Draining, AllDone
  <2>2. \A w \in Workers :
          /\ ~Posts(w)'
          /\ Queued(w)' # {} => /\ Queued(w)' = {Oldest(w)'}
                                /\ TaskAt(w, Oldest(w))' = TerminateTask
          /\ wpc'[w] = "exited" => Queued(w)' # {}
    <3> TAKE w \in Workers
    <3>1. TaskAt(w, Oldest(w))' = TaskAt(w, Oldest(w))
      BY <1>1, <1>6 DEF TaskAt
    <3> QED
      BY <1>5, <1>6, <3>1 DEF IInv, MainInv, Draining
  <2>3. \A w \in own : Queued(w) = {}
    BY <1>5, <1>7 DEF IInv, MainInv, Draining
  <2>4. Unread(s)' \subseteq {cur_event_pos'[s][0]} /\ EventAt(s, cur_event_pos[s][0])' = 0
    <3>1. EventAt(s, cur_event_pos[s][0])' = EventAt(s, cur_event_pos[s][0])
      BY <1>1 DEF EventAt
    <3> QED
      BY <1>1, <1>4, <1>5, <1>7, <1>10, <3>1 DEF IInv, MainInv, Draining
  <2>5. ASSUME NEW r \in Schedulers, r # s
        PROVE  /\ spc'[r] = spc[r] /\ todo'[r] = todo[r] /\ cur_event_pos'[r] = cur_event_pos[r]
               /\ Unread(r)' = Unread(r) /\ (Stops(r)' <=> Stops(r)) /\ (Halts(r)' <=> Halts(r))
               /\ EventAt(r, cur_event_pos[r][0])' = EventAt(r, cur_event_pos[r][0])
               /\ EventAt(r, cur_event_pos[r][0] + 1)' = EventAt(r, cur_event_pos[r][0] + 1)
    BY <1>1, <1>3, <1>7, <1>10, <2>5 DEF OthersKept, EventAt
  <2>6. \A r \in Schedulers : \A w \in my_workers(r) : Queued(w)' # {} => Stops(r)' /\ w \notin todo'[r]
    <3> TAKE r \in Schedulers
    <3>1. CASE r = s
      BY <1>6, <2>3, <3>1, MyWorkersAreWorkers
    <3>2. CASE r # s
      BY <1>5, <1>6, <2>5, <3>2, MyWorkersAreWorkers DEF IInv, MainInv, Draining
    <3> QED
      BY <3>1, <3>2
  <2>7. \A r \in Schedulers : /\ spc'[r] \notin {"launch", "launched"}
                              /\ Stops(r)' => Unread(r)' # {}
    BY <1>3, <1>4, <1>5, <1>10, <2>5 DEF IInv, MainInv, Draining
  <2>8. \A r \in Schedulers :
          IF Halts(r)'
          THEN /\ cur_event_pos'[r][0] \in Unread(r)'
               /\ EventAt(r, cur_event_pos[r][0])' = EndEvent
               /\ todo'[r] \subseteq Schedulers
               /\ \A x \in todo'[r] :
                    Unread(x)' \subseteq (IF x = r THEN {cur_event_pos'[r][0]} ELSE {})
               /\ Unread(r)' \subseteq cur_event_pos'[r][0]..cur_event_pos'[r][0] + 1
               /\ cur_event_pos'[r][0] + 1 \in Unread(r)' => EventAt(r, cur_event_pos[r][0] + 1)' = 0
          ELSE /\ Unread(r)' \subseteq {cur_event_pos'[r][0]}
               /\ Unread(r)' # {} => EventAt(r, cur_event_pos[r][0])' = 0
    <3> TAKE r \in Schedulers
    <3>1. CASE r = s
      BY <1>7, <2>4, <3>1
    <3>2. CASE r # s
      <4>1. IF Halts(r)
            THEN /\ cur_event_pos[r][0] \in Unread(r)
                 /\ EventAt(r, cur_event_pos[r][0]) = EndEvent
                 /\ todo[r] \subseteq Schedulers
                 /\ \A x \in todo[r] :
                      Unread(x) \subseteq (IF x = r THEN {cur_event_pos[r][0]} ELSE {})
                 /\ Unread(r) \subseteq cur_event_pos[r][0]..cur_event_pos[r][0] + 1
                 /\ cur_event_pos[r][0] + 1 \in Unread(r) => EventAt(r, cur_event_pos[r][0] + 1) = 0
            ELSE /\ Unread(r) \subseteq {cur_event_pos[r][0]}
                 /\ Unread(r) # {} => EventAt(r, cur_event_pos[r][0]) = 0
        BY <1>5 DEF IInv, MainInv, Draining
      <4> QED
        BY <1>10, <2>5, <3>2, <4>1
    <3> QED
      BY <3>1, <3>2
  <2>9. \A r : my_workers(r)' = my_workers(r)
    BY DEF my_workers
  <2> QED
    BY <2>1, <2>2, <2>6, <2>7, <2>8, <2>9 DEF Draining
<1> QED
  BY <1>2, <1>6, <1>11, <1>12, <1>13, <1>14, <1>15, <1>16, <1>17, DimensionedKept DEF IInv, MainInv

-----------------------------------------------------------------------------
(* What Begin does, with ids to work off and without.                      *)
LEMMA BeginCases ==
  ASSUME IInv, NEW s \in Schedulers, NEW pc \in {"launch", "halt"},
         NEW ids \in SUBSET Nat, Begin(s, pc, ids)
  PROVE  /\ \A r \in Schedulers : r # s =>
              /\ spc'[r] = spc[r] /\ todo'[r] = todo[r]
              /\ cur_event_pos'[r] = cur_event_pos[r]
         /\ todo'[s] = ids
         /\ ids # {} => spc'[s] = pc /\ UNCHANGED cur_event_pos
         /\ ids = {} => /\ spc'[s] = "poll"
                        /\ \A i \in 0..1 : cur_event_pos'[s][i] =
                             IF i = queue_idx[s] THEN cur_event_pos[s][i] + 1
                             ELSE cur_event_pos[s][i]
<1>1. /\ spc \in [Schedulers -> {"exited", "poll", "read", "launch", "launched", "stop",
                                 "stopped", "halt", "haltStore", "haltPublish"}]
      /\ cur_event_pos \in [Schedulers -> [0..1 -> Nat]]
      /\ todo \in [Schedulers -> SUBSET Nat]
      /\ queue_idx[s] \in 0..1
  BY SchedVarTypes
<1>2. todo' = [todo EXCEPT ![s] = ids]
  BY DEF Begin
<1>3. CASE ids # {}
  <2>1. spc' = [spc EXCEPT ![s] = pc] /\ UNCHANGED cur_event_pos
    BY <1>3 DEF Begin
  <2> QED
    BY <1>1, <1>2, <1>3, <2>1
<1>4. CASE ids = {}
  <2>1. /\ spc' = [spc EXCEPT ![s] = "poll"]
        /\ cur_event_pos' = [cur_event_pos EXCEPT ![s][queue_idx[s]] = @ + 1]
    BY <1>4 DEF Begin, NextEvent
  <2> QED
    BY <1>1, <1>2, <1>4, <2>1
<1> QED
  BY <1>3, <1>4

(* A scheduler that reads the end event is alone: everything is done and   *)
(* its count of broadcasts is the number of the iteration.                 *)
LEMMA EndAlone ==
  ASSUME IInv, NEW s \in Schedulers, spc[s] = "read", EventRead(s) = EndEvent
  PROVE  /\ mode = "serving" /\ AllDone /\ batches \in Nat
         /\ queue_idx[s] = 0 /\ Unread(s) = {cur_event_pos[s][0]}
         /\ EventAt(s, cur_event_pos[s][0]) = EndEvent
         /\ \A r \in Schedulers : r # s => Unread(r) = {}
         /\ \A r \in Schedulers : ~Opens(r) /\ ~Spreads(r) /\ ~Stops(r) /\ ~Halts(r)
         /\ \A w \in Workers : /\ wpc[w] = "poll" /\ ~Posts(w) /\ Queued(w) = {}
         /\ \A r \in Schedulers : MyPositions(r) # {} => iteration_num[r] = batches
         /\ iteration_num[s] = batches
<1>1. /\ queue_idx[s] = 0 /\ cur_event_pos[s][0] \in Unread(s)
      /\ EventAt(s, cur_event_pos[s][0]) = EndEvent
  BY ReadsEvent, Sizes
<1>2. mode = "serving" /\ batches \in Nat
  <2>1. mode # "ready"
    BY ActiveNotReady
  <2>2. mode # "drained"
    <3>1. ~Halts(s)
      BY DEF Halts
    <3> QED
      BY <1>1, <3>1, Sizes DEF IInv, MainInv, Draining
  <2> QED
    BY <2>1, <2>2, Modes
<1>3. /\ Unread(s) = {cur_event_pos[s][0]}
      /\ \A r \in Schedulers : Unread(r) # {} => r = s
      /\ \A w \in Workers : ~Posts(w)
      /\ AllDone
      /\ \A r \in Schedulers : ~Stops(r) /\ ~Halts(r)
  <2>1. ~Opens(s)
    BY DEF Opens
  <2> QED
    BY <1>1, <1>2, <2>1 DEF IInv, MainInv, Serving
<1>4. \A t \in GraphTasks : finished[t] = batches /\ finished[t] # batches - 1
  BY <1>2, <1>3 DEF AllDone
<1>5. \A r \in Schedulers : ~Opens(r) /\ ~Spreads(r)
  <2> TAKE r \in Schedulers
  <2>1. ~Opens(r)
    BY <1>2, <1>4, Sizes DEF IInv, MainInv, Serving
  <2>2. ~Spreads(r)
    <3> SUFFICES ASSUME Spreads(r) PROVE FALSE
      OBVIOUS
    <3>1. /\ todo[r] # {} /\ todo[r] \subseteq MyPositions(r)
          /\ \A t \in todo[r] : finished[t] = batches - 1
      BY <1>2 DEF IInv, MainInv, Dealing
    <3> QED
      BY <1>4, <3>1, PositionsOfGraph
  <2> QED
    BY <2>1, <2>2
<1>6. \A w \in Workers : Queued(w) = {}
  <2> SUFFICES ASSUME NEW w \in Workers, NEW k \in Queued(w) PROVE FALSE
    OBVIOUS
  <2>1. /\ TaskAt(w, k).pos \in GraphTasks
        /\ finished[TaskAt(w, k).pos] =
             IF Posts(w) /\ k = Oldest(w) THEN batches ELSE batches - 1
    BY <1>2 DEF IInv, MainInv, Tasks
  <2> QED
    BY <1>3, <1>4, <2>1
<1>7. \A w \in Workers : wpc[w] = "poll"
  <2> TAKE w \in Workers
  <2>1. wpc[w] \in {"exited", "poll", "load", "wait", "run", "reserve", "store", "publish"}
    BY DEF IInv, MainInv, TypeOK, WorkersTypeOK
  <2>2. task_ids[w] = <<>>
    BY <1>6, CurrentTask
  <2>3. wpc[w] \notin {"wait", "run", "reserve", "store", "publish"}
    BY <2>2 DEF IInv, MainInv, TypeOK, WorkersTypeOK
  <2>4. wpc[w] # "load"
    <3> SUFFICES ASSUME wpc[w] = "load" PROVE FALSE
      OBVIOUS
    <3>1. next_task_pos[w] < last_task_pos[w]
      BY DEF IInv, MainInv, TypeOK, WorkersTypeOK
    <3>2. Oldest(w) < last_ready_task_id[w]
      BY <3>1, WorkerTypes
    <3> QED
      BY <1>6, <3>2, WorkerTypes
  <2>5. wpc[w] # "exited"
    BY <1>2 DEF IInv, MainInv, Serving
  <2> QED
    BY <2>1, <2>3, <2>4, <2>5
<1>8. \A r \in Schedulers : MyPositions(r) # {} => iteration_num[r] = batches
  <2> SUFFICES ASSUME NEW r \in Schedulers, NEW t \in MyPositions(r)
               PROVE  iteration_num[r] = batches
    OBVIOUS
  <2>1. /\ iteration_num[r] \in {batches - 1, batches}
        /\ iteration_num[r] = batches - 1 => finished[t] = batches - 1
    BY DEF IInv, MainInv, Broadcasts
  <2> QED
    BY <1>4, <2>1, PositionsOfGraph
<1>9. iteration_num[s] = batches
  <2>1. MyPositions(s) # {}
    <3>1. EventRead(s) = sched_queues[s][cur_event_pos[s][0] % per_sched_queue_len]
      BY <1>1, QueueOfOwn DEF EventRead
    <3>2. cur_event_pos[s][0] \in Nat
      BY SchedTypes
    <3>3. cur_event_pos[s][0] % per_sched_queue_len \in 0..per_sched_queue_len - 1
      BY <3>2, RingIndex, Sizes
    <3> QED
      BY <3>1, <3>3, QueueOfOwn DEF IInv, EndsDealt
  <2> QED
    BY <1>8, <2>1
<1> QED
  BY <1>1, <1>2, <1>3, <1>5, <1>6, <1>7, <1>8, <1>9

LEMMA ReadsKind ==
  ASSUME NEW e
  PROVE  /\ EventType(e) = "EVENT_END_OF_TASK_GRAPH" => e = EndEvent
         /\ EventType(e) = "EVENT_LAUNCH_DEPENDENT_TASKS" => e = 1
BY DEF EventType

(* prepare_next_batch has another batch.                                   *)
LEMMA NextBatchInv ==
  ASSUME IInv, NEW s \in Schedulers, spc[s] = "read", EventRead(s) = EndEvent,
         TypeOK', OwnInv', batches' = batches + 1, Begin(s, "launch", {1}),
         UNCHANGED <<queues, all_event_counters, wlocals, queue_idx,
                     last_event_pos, iteration_num, next_worker,
                     next_free_task_pos, sslot, launches, mode, finished>>
  PROVE  MainInv'
<1> USE DEF queues
<1>1. /\ mode = "serving" /\ AllDone /\ batches \in Nat
      /\ queue_idx[s] = 0 /\ Unread(s) = {cur_event_pos[s][0]}
      /\ EventAt(s, cur_event_pos[s][0]) = EndEvent
      /\ \A r \in Schedulers : r # s => Unread(r) = {}
      /\ \A r \in Schedulers : ~Opens(r) /\ ~Spreads(r) /\ ~Stops(r) /\ ~Halts(r)
      /\ \A w \in Workers : /\ wpc[w] = "poll" /\ ~Posts(w) /\ Queued(w) = {}
      /\ \A r \in Schedulers : MyPositions(r) # {} => iteration_num[r] = batches
      /\ iteration_num[s] = batches
  BY EndAlone
<1>2. /\ \A r \in Schedulers : r # s => spc'[r] = spc[r] /\ todo'[r] = todo[r]
      /\ todo'[s] = {1} /\ spc'[s] = "launch" /\ UNCHANGED cur_event_pos
  <2>1. {1} \in SUBSET Nat /\ {1} # {}
    OBVIOUS
  <2> QED
    BY <2>1, BeginCases, Zenon
<1>3. OthersKept(s)
  BY <1>2 DEF OthersKept
<1>4. /\ \A r \in Schedulers : r # s => ~Opens(r)'
      /\ Opens(s)'
      /\ \A r \in Schedulers : ~Spreads(r)' /\ ~Stops(r)' /\ ~Halts(r)'
      /\ \A r \in Schedulers : spc'[r] \notin {"launched", "stopped"}
  <2>1. /\ Opens(s)' /\ ~Spreads(s)' /\ ~Stops(s)' /\ ~Halts(s)'
        /\ spc'[s] \notin {"launched", "stopped"}
    BY <1>1, <1>2 DEF Opens, Spreads, Stops, Halts
  <2>2. \A r \in Schedulers : r # s =>
          ~Opens(r)' /\ ~Spreads(r)' /\ ~Stops(r)' /\ ~Halts(r)'
    BY <1>1, <1>3, OthersRoles
  <2>3. \A r \in Schedulers : r # s => spc'[r] \notin {"launched", "stopped"}
    <3>1. \A r \in Schedulers : spc[r] # "launched"
      BY <1>1, LaunchesServing
    <3> QED
      BY <1>1, <1>2, <3>1 DEF Stops
  <2> QED
    BY <2>1, <2>2, <2>3
<1>5. /\ WorkerCursors' /\ PostersKept /\ SlotsKept /\ QueuesKept
      /\ \A w \in Workers : /\ wpc'[w] = wpc[w] /\ Current(w)' = Current(w)
                            /\ Queued(w)' = Queued(w) /\ Oldest(w)' = Oldest(w)
                            /\ (Posts(w)' <=> Posts(w)) /\ Posted(w)' = Posted(w)
                            /\ \A k : TaskAt(w, k)' = TaskAt(w, k)
  BY WorkersKept
<1>6. /\ \A r, k : EventAt(r, k)' = EventAt(r, k)
      /\ \A r \in Schedulers : Unread(r)' = Unread(r)
  BY <1>2 DEF EventAt, Unread
<1>7. /\ \A t \in GraphTasks : finished'[t] = batches' - 1 /\ finished'[t] # batches'
      /\ batches' \in Nat /\ batches' - 1 = batches
  BY <1>1 DEF AllDone
<1>8. HaltersKept
  BY <1>1, <1>4 DEF HaltersKept
<1>9. SchedCursors'
  <2>1. \A q \in SchedQueues : /\ last_ready_event_id'[q] \in Nat
                               /\ last_ready_event_id[q] <= last_ready_event_id'[q]
    BY DEF IInv, MainInv, TypeOK, SharedTypeOK
  <2>2. \A i \in 0..1 : cur_event_pos'[s][i] <= last_event_pos[s][i]
    BY <1>2, SchedTypes
  <2>3. spc'[s] \notin {"poll", "exited"} =>
           cur_event_pos'[s] = cur_event_pos[s] /\ spc[s] \notin {"poll", "exited"}
    BY <1>2
  <2>4. iteration_num'[s] = cur_event_pos'[s][1] + (IF Spreads(s)' THEN 1 ELSE 0)
    BY <1>1, <1>2, <1>4 DEF IInv, MainInv, SchedCursors
  <2>5. spc'[s] \in {"stop", "stopped"} \/ Halts(s)' => queue_idx[s] = 0 /\ todo'[s] # {}
    BY <1>2, <1>4
  <2> QED
    BY <1>3, <2>1, <2>2, <2>3, <2>4, <2>5, SchedCursorsStep
<1>10. Posting'
  BY <1>5, <1>8, PostingKept
<1>11. Broadcasts'
  <2>1. last_ready_event_id[BcastQueue] = batches
    BY <1>1, Sizes DEF IInv, MainInv, Broadcasts, AllDone
  <2>2. \A k \in 0..last_ready_event_id'[BcastQueue] - 1 : EventAt(BcastQueue, k)' = 1
    BY <1>6 DEF IInv, MainInv, Broadcasts
  <2>3. finished'[1] # batches' /\ last_ready_event_id'[BcastQueue] = batches' - 1
    BY <1>7, <2>1, Sizes
  <2>4. \A r \in Schedulers : MyPositions(r)' # {} =>
             /\ iteration_num'[r] \in {batches' - 1, batches'}
             /\ iteration_num'[r] = batches' - 1 =>
                  \A t \in MyPositions(r)' : finished'[t] = batches' - 1
    <3>1. \A r : MyPositions(r)' = MyPositions(r)
      BY DEF MyPositions, my_workers
    <3> QED
      BY <1>1, <1>7, <3>1, PositionsOfGraph
  <2> QED
    BY <2>2, <2>3, <2>4 DEF Broadcasts
<1>12. Progress'
  <2>1. \A t : ~Running(t)'
    BY <1>1, <1>5 DEF Running
  <2>2. \A e \in 1..EndEvent : all_event_counters'[e] = (batches' - 1) * num_triggers(e)
          + Cardinality({t \in GraphTasks : trigger_event[t] = e /\ finished'[t] = batches'})
    <3> TAKE e \in 1..EndEvent
    <3>1. all_event_counters[e] = (batches - 1) * num_triggers(e)
            + Cardinality({t \in GraphTasks : trigger_event[t] = e /\ finished[t] = batches})
      BY DEF IInv, MainInv, Progress
    <3>2. {t \in GraphTasks : trigger_event[t] = e /\ finished[t] = batches}
            = {t \in GraphTasks : trigger_event[t] = e}
      BY <1>1 DEF AllDone
    <3>3. {t \in GraphTasks : trigger_event[t] = e /\ finished'[t] = batches'} = {}
      BY <1>7
    <3>4. all_event_counters[e] = (batches - 1) * num_triggers(e) + num_triggers(e)
      BY <3>1, <3>2 DEF num_triggers
    <3>5. num_triggers(e) \in Nat
      BY ProducersFinite, FS_CardinalityType DEF num_triggers
    <3>6. all_event_counters[e] = batches * num_triggers(e)
      BY <1>1, <3>4, <3>5
    <3>7. batches * num_triggers(e) + 0 = batches * num_triggers(e)
      BY <1>1, <3>5
    <3> QED
      BY <1>7, <3>3, <3>6, <3>7, FS_EmptySet
  <2> QED
    BY <1>7, <2>1, <2>2 DEF Progress, num_triggers
<1>13. Serving'
  <2>1. ASSUME NEW r \in Schedulers
        PROVE  /\ ~Stops(r)' /\ ~Halts(r)'
               /\ Unread(r)' # {} => /\ Unread(r)' = {cur_event_pos'[r][0]}
                                     /\ EventAt(r, cur_event_pos[r][0])' = EndEvent
                                     /\ \A x \in Schedulers : Unread(x)' # {} => x = r
                                     /\ \A w \in Workers : ~Posts(w)'
                                     /\ Opens(r)' \/ AllDone'
               /\ Opens(r)' => /\ todo'[r] = {1} /\ iteration_num'[r] = batches' - 1
                               /\ \A t \in GraphTasks : finished'[t] = batches' - 1
                               /\ \A w \in Workers : Queued(w)' = {}
    <3>1. EventAt(s, cur_event_pos[s][0])' = EndEvent
      BY <1>1, <1>2 DEF EventAt
    <3>2. CASE r = s
      BY <1>1, <1>2, <1>4, <1>5, <1>6, <1>7, <3>1, <3>2
    <3>3. CASE r # s
      BY <1>1, <1>4, <1>6, <3>3
    <3> QED
      BY <3>2, <3>3
  <2>2. \A w \in Workers : wpc'[w] # "exited" /\ ~Posts(w)' /\ Queued(w)' = {}
    BY <1>1, <1>5
  <2> QED
    BY <2>1, <2>2 DEF Serving
<1>14. Tasks'
  BY <1>1, <1>5, NothingQueued
<1>15. Dealing' /\ Stored' /\ Draining' /\ Idling'
  BY <1>1, <1>4 DEF Dealing, Stored, Draining, Idling
<1> QED
  BY <1>5, <1>9, <1>10, <1>11, <1>12, <1>13, <1>14, <1>15, DimensionedKept DEF IInv, MainInv

(* prepare_next_batch has none.                                            *)
LEMMA NoBatchInv ==
  ASSUME IInv, NEW s \in Schedulers, spc[s] = "read", EventRead(s) = EndEvent,
         TypeOK', OwnInv', mode' = "drained", Begin(s, "halt", Schedulers),
         UNCHANGED <<queues, all_event_counters, wlocals, queue_idx,
                     last_event_pos, iteration_num, next_worker,
                     next_free_task_pos, sslot, launches, batches, finished>>
  PROVE  MainInv'
<1> USE DEF queues
<1>1. /\ mode = "serving" /\ AllDone /\ batches \in Nat
      /\ queue_idx[s] = 0 /\ Unread(s) = {cur_event_pos[s][0]}
      /\ EventAt(s, cur_event_pos[s][0]) = EndEvent
      /\ \A r \in Schedulers : r # s => Unread(r) = {}
      /\ \A r \in Schedulers : ~Opens(r) /\ ~Spreads(r) /\ ~Stops(r) /\ ~Halts(r)
      /\ \A w \in Workers : /\ wpc[w] = "poll" /\ ~Posts(w) /\ Queued(w) = {}
  BY EndAlone
<1>2. /\ \A r \in Schedulers : r # s => spc'[r] = spc[r] /\ todo'[r] = todo[r]
      /\ todo'[s] = Schedulers /\ spc'[s] = "halt" /\ UNCHANGED cur_event_pos
      /\ Schedulers # {}
  <2>1. Schedulers \in SUBSET Nat /\ Schedulers # {}
    BY FirstServes, Sizes DEF Schedulers
  <2> QED
    BY <2>1, BeginCases, Zenon
<1>3. OthersKept(s)
  BY <1>2 DEF OthersKept
<1>4. /\ Halts(s)' /\ ~Stops(s)' /\ ~Spreads(s)'
      /\ \A r \in Schedulers : r # s => ~Halts(r)' /\ ~Stops(r)'
      /\ \A r \in Schedulers : spc'[r] \notin {"launch", "launched", "stopped", "haltStore", "haltPublish"}
  <2>1. /\ Halts(s)' /\ ~Stops(s)' /\ ~Spreads(s)'
        /\ spc'[s] \notin {"launch", "launched", "stopped", "haltStore", "haltPublish"}
    BY <1>2 DEF Spreads, Stops, Halts
  <2>2. \A r \in Schedulers : r # s => ~Halts(r)' /\ ~Stops(r)'
    BY <1>1, <1>3, OthersRoles
  <2>3. \A r \in Schedulers : r # s =>
           spc'[r] \notin {"launch", "launched", "stopped", "haltStore", "haltPublish"}
    <3>1. \A r \in Schedulers : spc[r] \notin {"launch", "launched"}
      BY <1>1, LaunchesServing
    <3> QED
      BY <1>1, <1>2, <3>1 DEF Stops, Halts
  <2> QED
    BY <2>1, <2>2, <2>3
<1>5. /\ WorkerCursors' /\ PostersKept /\ SlotsKept /\ QueuesKept
      /\ \A w \in Workers : /\ wpc'[w] = wpc[w] /\ Current(w)' = Current(w)
                            /\ Queued(w)' = Queued(w) /\ Oldest(w)' = Oldest(w)
                            /\ (Posts(w)' <=> Posts(w)) /\ Posted(w)' = Posted(w)
                            /\ \A k : TaskAt(w, k)' = TaskAt(w, k)
  BY WorkersKept
<1>6. /\ \A r, k : EventAt(r, k)' = EventAt(r, k)
      /\ \A r \in Schedulers : Unread(r)' = Unread(r)
  BY <1>2 DEF EventAt, Unread
<1>7. SchedCursors'
  <2>1. \A q \in SchedQueues : /\ last_ready_event_id'[q] \in Nat
                               /\ last_ready_event_id[q] <= last_ready_event_id'[q]
    BY DEF IInv, MainInv, TypeOK, SharedTypeOK
  <2>2. \A i \in 0..1 : cur_event_pos'[s][i] <= last_event_pos[s][i]
    BY <1>2, SchedTypes
  <2>3. spc'[s] \notin {"poll", "exited"} =>
           cur_event_pos'[s] = cur_event_pos[s] /\ spc[s] \notin {"poll", "exited"}
    BY <1>2
  <2>4. iteration_num'[s] = cur_event_pos'[s][1] + (IF Spreads(s)' THEN 1 ELSE 0)
    BY <1>1, <1>2, <1>4 DEF IInv, MainInv, SchedCursors
  <2>5. spc'[s] \in {"stop", "stopped"} \/ Halts(s)' => queue_idx[s] = 0 /\ todo'[s] # {}
    BY <1>1, <1>2
  <2> QED
    BY <1>3, <2>1, <2>2, <2>3, <2>4, <2>5, SchedCursorsStep
<1>8. Posting'
  <2>1. /\ \A w \in Workers : ~Posts(w)' /\ wpc'[w] \notin {"store", "publish"}
        /\ \A w \in Workers, q \in SchedQueues : ~PostsAt(w, q) /\ ~PostsAt(w, q)'
    BY <1>1, <1>5 DEF Posts, PostsAt
  <2>2. \A r \in Schedulers, q \in SchedQueues : ~HaltsAt(r, q) /\ ~HaltsAt(r, q)'
    BY <1>1, <1>4 DEF Halts, HaltsAt
  <2>3. \A q \in SchedQueues : next_free_event_id'[q] = last_ready_event_id'[q] +
         (IF (\E w \in Workers : PostsAt(w, q)') \/ (\E r \in Schedulers : HaltsAt(r, q)')
          THEN 1 ELSE 0)
    BY <2>1, <2>2 DEF IInv, MainInv, Posting
  <2> QED
    BY <1>4, <2>1, <2>2, <2>3 DEF Posting
<1>9. Broadcasts'
  BY <1>5, <1>6, BroadcastsKept
<1>10. Progress'
  BY <1>5, ProgressKept
<1>11. Serving' /\ Tasks' /\ Dealing' /\ Stored' /\ Idling'
  BY <1>4 DEF Serving, Tasks, Dealing, Stored, Idling
<1>12. Draining'
  <2>1. AllDone'
    BY <1>1 DEF AllDone
  <2>2. \A w \in Workers : ~Posts(w)' /\ Queued(w)' = {} /\ wpc'[w] # "exited"
    BY <1>1, <1>5
  <2>3. /\ EventAt(s, cur_event_pos[s][0])' = EndEvent
        /\ cur_event_pos[s][0] \in Nat
    <3>1. EventAt(s, cur_event_pos[s][0])' = EndEvent
      BY <1>1, <1>2 DEF EventAt
    <3> QED
      BY <3>1, SchedTypes
  <2>4. cur_event_pos'[s][0] + 1 \notin Unread(s)'
    BY <1>1, <1>2, <1>6, <2>3
  <2>5. \A r \in Schedulers : r # s => Unread(r)' = {}
    BY <1>1, <1>6
  <2>6. Unread(s)' = {cur_event_pos'[s][0]}
    BY <1>1, <1>2, <1>6
  <2>7. Unread(s)' \subseteq cur_event_pos'[s][0]..cur_event_pos'[s][0] + 1
    BY <1>2, <2>3, <2>6
  <2>8. \A r \in Schedulers :
          IF Halts(r)'
          THEN /\ cur_event_pos'[r][0] \in Unread(r)'
               /\ EventAt(r, cur_event_pos[r][0])' = EndEvent
               /\ todo'[r] \subseteq Schedulers
               /\ \A x \in todo'[r] :
                    Unread(x)' \subseteq (IF x = r THEN {cur_event_pos'[r][0]} ELSE {})
               /\ Unread(r)' \subseteq cur_event_pos'[r][0]..cur_event_pos'[r][0] + 1
               /\ cur_event_pos'[r][0] + 1 \in Unread(r)' => EventAt(r, cur_event_pos[r][0] + 1)' = 0
          ELSE /\ Unread(r)' \subseteq {cur_event_pos'[r][0]}
               /\ Unread(r)' # {} => EventAt(r, cur_event_pos[r][0])' = 0
    <3> TAKE r \in Schedulers
    <3>1. CASE r = s
      BY <1>2, <1>4, <2>3, <2>4, <2>5, <2>6, <2>7, <3>1
    <3>2. CASE r # s
      BY <1>4, <2>5, <3>2
    <3> QED
      BY <3>1, <3>2
  <2>9. \A r : my_workers(r)' = my_workers(r)
    BY DEF my_workers
  <2>10. \A r \in Schedulers : \A w \in my_workers(r) : Queued(w)' = {}
    BY <2>2, MyWorkersAreWorkers
  <2>11. \A r \in Schedulers : ~Stops(r)'
    BY <1>4
  <2> QED
    BY <1>4, <2>1, <2>2, <2>8, <2>9, <2>10, <2>11 DEF Draining
<1> QED
  BY <1>5, <1>7, <1>8, <1>9, <1>10, <1>11, <1>12, DimensionedKept DEF IInv, MainInv

LEMMA ReadEndInv ==
  ASSUME IInv, NEW s \in Schedulers, ReadEndOfTaskGraph(s)
  PROVE  MainInv'
<1>1. TypeOK' /\ OwnInv'
  BY ReadEndOfTaskGraphType, SchedOwn DEF IInv, MainInv, SchedStep
<1>2. spc[s] = "read" /\ EventRead(s) = EndEvent
  BY ReadsKind DEF ReadEndOfTaskGraph
<1>3. CASE batches' = batches + 1 /\ Begin(s, "launch", {1}) /\ UNCHANGED mode
  BY <1>1, <1>2, <1>3, NextBatchInv DEF ReadEndOfTaskGraph
<1>4. CASE mode' = "drained" /\ Begin(s, "halt", Schedulers) /\ UNCHANGED batches
  BY <1>1, <1>2, <1>4, NoBatchInv DEF ReadEndOfTaskGraph
<1> QED
  BY <1>3, <1>4 DEF ReadEndOfTaskGraph

-----------------------------------------------------------------------------
(* A scheduler that reads a launch event has none of its tasks queued.     *)
LEMMA LaunchFresh ==
  ASSUME IInv, NEW s \in Schedulers, spc[s] = "read", EventRead(s) = 1
  PROVE  /\ mode # "ready" /\ queue_idx[s] = 1
         /\ iteration_num[s] = cur_event_pos[s][1]
         /\ cur_event_pos[s][1] < last_event_pos[s][1]
         /\ MyPositions(s) # {} =>
              /\ mode = "serving" /\ batches \in Nat
              /\ iteration_num[s] = batches - 1
              /\ \A t \in MyPositions(s) : finished[t] = batches - 1
              /\ \A w \in my_workers(s) : Queued(w) = {}
<1>1. mode # "ready"
  BY ActiveNotReady
<1>2. ~Halts(s) /\ ~Opens(s) /\ ~Spreads(s) /\ ~Stops(s)
  BY DEF Halts, Opens, Spreads, Stops
<1>3. queue_idx[s] = 1 /\ cur_event_pos[s][1] < last_ready_event_id[BcastQueue]
  <2> SUFFICES ASSUME queue_idx[s] = 0, cur_event_pos[s][0] \in Unread(s),
                      EventAt(s, cur_event_pos[s][0]) = 1
               PROVE  FALSE
    BY ReadsEvent
  <2>1. mode = "serving"
    BY <1>1, <1>2, Modes DEF IInv, MainInv, Draining
  <2>2. EventAt(s, cur_event_pos[s][0]) = EndEvent
    BY <2>1 DEF IInv, MainInv, Serving
  <2> QED
    BY <2>2, Sizes
<1>4. /\ iteration_num[s] = cur_event_pos[s][1] /\ cur_event_pos[s][1] < last_event_pos[s][1]
  BY <1>2, <1>3, SchedTypes DEF IInv, MainInv, SchedCursors
<1>5. ASSUME MyPositions(s) # {}
      PROVE  /\ mode = "serving" /\ batches \in Nat
             /\ iteration_num[s] = batches - 1
             /\ \A t \in MyPositions(s) : finished[t] = batches - 1
             /\ \A w \in my_workers(s) : Queued(w) = {}
  <2>1. batches \in Nat /\ iteration_num[s] \in Nat /\ last_ready_event_id[BcastQueue] \in Nat
    BY Modes, SchedTypes
  <2>2. iteration_num[s] < last_ready_event_id[BcastQueue]
    BY <1>3, <1>4
  <2>3. /\ iteration_num[s] \in {batches - 1, batches}
        /\ last_ready_event_id[BcastQueue] =
             IF finished[1] = batches /\ ~\E w \in Workers : Posts(w) /\ Posted(w) = 1
             THEN batches ELSE batches - 1
    BY <1>5 DEF IInv, MainInv, Broadcasts
  <2>4. /\ iteration_num[s] = batches - 1 /\ finished[1] = batches
        /\ ~\E w \in Workers : Posts(w) /\ Posted(w) = 1
    BY <2>1, <2>2, <2>3
  <2>5. \A t \in MyPositions(s) : finished[t] = batches - 1
    BY <1>5, <2>4 DEF IInv, MainInv, Broadcasts
  <2>6. mode = "serving"
    <3> SUFFICES ASSUME mode = "drained" PROVE FALSE
      BY <1>1, Modes
    <3>1. PICK t \in MyPositions(s) : finished[t] = batches - 1
      BY <1>5, <2>5
    <3>2. finished[t] = batches
      BY PositionsOfGraph DEF IInv, MainInv, Draining, AllDone
    <3> QED
      BY <2>1, <3>1, <3>2
  <2>7. \A w \in my_workers(s) : Queued(w) = {}
    <3> SUFFICES ASSUME NEW w \in my_workers(s), NEW k \in Queued(w) PROVE FALSE
      OBVIOUS
    <3>1. w \in Workers
      BY MyWorkersAreWorkers
    <3>2. TaskAt(w, k).pos = 1
      BY <2>1, <2>4, <2>6 DEF IInv, MainInv, Tasks
    <3>3. finished[1] = IF Posts(w) /\ k = Oldest(w) THEN batches ELSE batches - 1
      BY <2>6, <3>1, <3>2 DEF IInv, MainInv, Tasks
    <3>4. Posts(w) /\ k = Oldest(w)
      BY <2>1, <2>4, <3>3
    <3>5. task_ids[w] # <<>>
      BY <3>1, <3>4, RunsServing
    <3>6. Current(w).pos = 1
      BY <3>1, <3>2, <3>4, <3>5, CurrentTask
    <3>7. Posted(w) = 1
      BY <3>6, Sizes, GraphAssumption DEF Posted
    <3> QED
      BY <2>4, <3>1, <3>4, <3>7
  <2> QED
    BY <2>1, <2>4, <2>5, <2>6, <2>7
<1> QED
  BY <1>1, <1>3, <1>4, <1>5

LEMMA ReadLaunchInv ==
  ASSUME IInv, NEW s \in Schedulers, ReadLaunchDependent(s)
  PROVE  MainInv'
<1> USE DEF queues, history
<1>1. /\ spc[s] = "read" /\ EventRead(s) = 1
      /\ iteration_num' = [iteration_num EXCEPT ![s] = @ + 1]
      /\ Begin(s, "launch", MyPositions(s))
      /\ UNCHANGED <<queues, all_event_counters, wlocals, queue_idx,
                     last_event_pos, next_worker, next_free_task_pos, sslot,
                     launches, history>>
  BY ReadsKind DEF ReadLaunchDependent
<1>2. TypeOK' /\ OwnInv'
  BY ReadLaunchDependentType, SchedOwn DEF IInv, MainInv, SchedStep
<1>3. /\ mode # "ready" /\ queue_idx[s] = 1
      /\ iteration_num[s] = cur_event_pos[s][1]
      /\ cur_event_pos[s][1] < last_event_pos[s][1]
      /\ MyPositions(s) # {} =>
              /\ mode = "serving" /\ batches \in Nat
              /\ iteration_num[s] = batches - 1
              /\ \A t \in MyPositions(s) : finished[t] = batches - 1
              /\ \A w \in my_workers(s) : Queued(w) = {}
  BY <1>1, LaunchFresh
<1>4. /\ iteration_num'[s] = iteration_num[s] + 1
      /\ \A r \in Schedulers : r # s => iteration_num'[r] = iteration_num[r]
  BY <1>1, SchedVarTypes
<1>5. /\ \A r \in Schedulers : r # s => /\ spc'[r] = spc[r] /\ todo'[r] = todo[r]
                                        /\ cur_event_pos'[r] = cur_event_pos[r]
      /\ todo'[s] = MyPositions(s)
      /\ MyPositions(s) # {} => spc'[s] = "launch" /\ UNCHANGED cur_event_pos
      /\ MyPositions(s) = {} => /\ spc'[s] = "poll"
                                /\ cur_event_pos'[s][1] = cur_event_pos[s][1] + 1
                                /\ cur_event_pos'[s][0] = cur_event_pos[s][0]
  <2>1. MyPositions(s) \in SUBSET Nat
    BY PositionsOfGraph, Sizes
  <2> HIDE DEF queues, history
  <2>2. /\ \A r \in Schedulers : r # s => /\ spc'[r] = spc[r] /\ todo'[r] = todo[r]
                                          /\ cur_event_pos'[r] = cur_event_pos[r]
        /\ todo'[s] = MyPositions(s)
        /\ MyPositions(s) # {} => spc'[s] = "launch" /\ UNCHANGED cur_event_pos
        /\ MyPositions(s) = {} =>
             /\ spc'[s] = "poll"
             /\ \A i \in 0..1 : cur_event_pos'[s][i] =
                  IF i = queue_idx[s] THEN cur_event_pos[s][i] + 1
                  ELSE cur_event_pos[s][i]
    BY <1>1, <2>1, BeginCases, Zenon
  <2>3. ASSUME MyPositions(s) = {}
        PROVE  /\ cur_event_pos'[s][1] = cur_event_pos[s][1] + 1
               /\ cur_event_pos'[s][0] = cur_event_pos[s][0]
    <3>1. \A i \in 0..1 : cur_event_pos'[s][i] =
             IF i = queue_idx[s] THEN cur_event_pos[s][i] + 1 ELSE cur_event_pos[s][i]
      BY <2>2, <2>3
    <3>2. 0 \in 0..1 /\ 1 \in 0..1 /\ 0 # 1
      OBVIOUS
    <3> QED
      BY <1>3, <3>1, <3>2
  <2> QED
    BY <2>2, <2>3, Zenon
<1>6. OthersKept(s)
  BY <1>1, <1>4, <1>5 DEF OthersKept
<1>7. /\ ~Opens(s) /\ ~Spreads(s) /\ ~Stops(s) /\ ~Halts(s)
      /\ ~Opens(s)' /\ ~Stops(s)' /\ ~Halts(s)'
      /\ Spreads(s)' <=> MyPositions(s) # {}
      /\ spc'[s] \notin {"launched", "stopped", "stop"}
  <2>1. spc'[s] = IF MyPositions(s) # {} THEN "launch" ELSE "poll"
    BY <1>5
  <2> QED
    BY <1>1, <1>3, <2>1 DEF Opens, Spreads, Stops, Halts
<1>8. /\ WorkerCursors' /\ PostersKept /\ SlotsKept /\ QueuesKept
      /\ \A w \in Workers : /\ wpc'[w] = wpc[w] /\ Current(w)' = Current(w)
                            /\ Queued(w)' = Queued(w) /\ Oldest(w)' = Oldest(w)
                            /\ (Posts(w)' <=> Posts(w)) /\ Posted(w)' = Posted(w)
                            /\ \A k : TaskAt(w, k)' = TaskAt(w, k)
  BY <1>1, WorkersKept
<1>9. /\ \A r, k : EventAt(r, k)' = EventAt(r, k)
      /\ \A r \in Schedulers : /\ cur_event_pos'[r][0] = cur_event_pos[r][0]
                               /\ Unread(r)' = Unread(r)
  <2>1. \A r, k : EventAt(r, k)' = EventAt(r, k)
    BY <1>1 DEF EventAt
  <2>2. cur_event_pos'[s][0] = cur_event_pos[s][0]
    BY <1>5
  <2>3. \A r \in Schedulers : cur_event_pos'[r][0] = cur_event_pos[r][0]
    BY <1>5, <2>2
  <2> QED
    BY <1>1, <2>1, <2>3 DEF Unread
<1>10. HaltersKept /\ ReadersKept
  BY <1>6, <1>7, <1>9, OthersRoles DEF HaltersKept, ReadersKept, OthersKept
<1>11. DutiesKept
  BY <1>6, <1>7, OthersRoles DEF DutiesKept, OthersKept
<1>12. SchedCursors'
  <2>1. \A q \in SchedQueues : /\ last_ready_event_id'[q] \in Nat
                               /\ last_ready_event_id[q] <= last_ready_event_id'[q]
    BY <1>1 DEF IInv, MainInv, TypeOK, SharedTypeOK
  <2>2. \A i \in 0..1 : cur_event_pos'[s][i] <= last_event_pos[s][i]
    <3>1. CASE MyPositions(s) # {}
      BY <1>5, <3>1, SchedTypes
    <3>2. CASE MyPositions(s) = {}
      BY <1>3, <1>5, <3>2, SchedTypes
    <3> QED
      BY <3>1, <3>2
  <2>3. spc'[s] \notin {"poll", "exited"} =>
           cur_event_pos'[s] = cur_event_pos[s] /\ spc[s] \notin {"poll", "exited"}
    BY <1>1, <1>5
  <2>4. iteration_num'[s] = cur_event_pos'[s][1] + (IF Spreads(s)' THEN 1 ELSE 0)
    <3>1. CASE MyPositions(s) # {}
      BY <1>3, <1>4, <1>5, <1>7, <3>1
    <3>2. CASE MyPositions(s) = {}
      BY <1>3, <1>4, <1>5, <1>7, <3>2, SchedTypes
    <3> QED
      BY <3>1, <3>2
  <2>5. spc'[s] \in {"stop", "stopped"} \/ Halts(s)' => queue_idx[s] = 0 /\ todo'[s] # {}
    BY <1>7
  <2>6. UNCHANGED <<queue_idx, last_event_pos>>
    BY <1>1
  <2> QED
    BY <1>6, <2>1, <2>2, <2>3, <2>4, <2>5, <2>6, SchedCursorsStep
<1>13. Posting'
  BY <1>1, <1>8, <1>10, PostingKept
<1>14. Broadcasts'
  <2>1. /\ \A k \in 0..last_ready_event_id'[BcastQueue] - 1 : EventAt(BcastQueue, k)' = 1
        /\ last_ready_event_id'[BcastQueue] =
             IF finished'[1] = batches' /\ ~\E w \in Workers : Posts(w)' /\ Posted(w)' = 1
             THEN batches' ELSE batches' - 1
    BY <1>1, <1>8, <1>9 DEF IInv, MainInv, Broadcasts
  <2>2. \A r \in Schedulers : MyPositions(r) # {} =>
             /\ iteration_num'[r] \in {batches' - 1, batches'}
             /\ iteration_num'[r] = batches' - 1 =>
                  \A t \in MyPositions(r) : finished'[t] = batches' - 1
    <3> TAKE r \in Schedulers
    <3>1. CASE r = s
      <4>1. MyPositions(s) # {} => iteration_num'[s] = batches /\ batches # batches - 1
        BY <1>3, <1>4
      <4> QED
        BY <1>1, <3>1, <4>1
    <3>2. CASE r # s
      BY <1>1, <1>4, <3>2 DEF IInv, MainInv, Broadcasts
    <3> QED
      BY <3>1, <3>2
  <2>3. \A r : MyPositions(r)' = MyPositions(r)
    BY DEF MyPositions, my_workers
  <2> QED
    BY <2>1, <2>2, <2>3 DEF Broadcasts
<1>15. Progress'
  BY <1>1, <1>8, ProgressKept
<1>16. Serving'
  <2>1. UNCHANGED <<mode, finished, batches>>
    BY <1>1
  <2> QED
    BY <1>8, <1>9, <1>10, <1>11, <2>1, ServingStep
<1>17. Tasks'
  <2>1. \A r \in Schedulers : \A w \in my_workers(r) :
           MyPositions(r) # {} /\ Queued(w) # {} => iteration_num'[r] = iteration_num[r]
    BY <1>3, <1>4
  <2> QED
    BY <1>1, <1>8, <2>1, TasksStep
<1>18. Dealing'
  <2> SUFFICES ASSUME mode = "serving", NEW r \in Schedulers, Spreads(r)'
             PROVE  /\ iteration_num'[r] = batches'
                    /\ todo'[r] # {} /\ todo'[r] \subseteq MyPositions(r)
                    /\ \A t \in todo'[r] : finished'[t] = batches' - 1
                    /\ \A p \in todo'[r], t \in MyPositions(r) : p <= t => t \in todo'[r]
                    /\ \A w \in my_workers(r) : \A k \in Queued(w)', p \in todo'[r] :
                         /\ TaskAt(w, k)'.pos < p
                         /\ Least(p, todo'[r]) =>
                              (w - Column(TaskAt(w, k)'.pos)) - (next_worker'[r] - Column(p))
                                \in {-Share(r), 0, Share(r)}
    BY <1>1 DEF Dealing, MyPositions, my_workers, Column, Share, my_last_worker, my_first_worker, Least
  <2>1. CASE r = s
    <3>1. MyPositions(s) # {}
      BY <1>7, <2>1
    <3>2. \A w \in my_workers(s) : Queued(w)' = {}
      BY <1>3, <1>8, <3>1, MyWorkersAreWorkers
    <3>3. iteration_num'[s] = batches'
      BY <1>1, <1>3, <1>4, <3>1
    <3> QED
      BY <1>1, <1>3, <1>5, <2>1, <3>1, <3>2, <3>3
  <2>2. CASE r # s
    <3>1. Spreads(r)
      BY <1>6, <2>2, OthersRoles
    <3>2. /\ todo'[r] = todo[r] /\ next_worker'[r] = next_worker[r]
          /\ iteration_num'[r] = iteration_num[r]
          /\ my_workers(r) \subseteq Workers
      BY <1>1, <1>4, <1>5, <2>2, MyWorkersAreWorkers
    <3>3. UNCHANGED <<batches, finished>>
      BY <1>1
    <3> QED
      BY <1>8, <3>1, <3>2, <3>3, DealingStep
  <2> QED
    BY <2>1, <2>2
<1>19. Stored'
  <2>1. \A r \in Schedulers :
          /\ spc'[r] = "launched" => /\ spc[r] = "launched" /\ todo'[r] = todo[r]
                                     /\ iteration_num'[r] = iteration_num[r]
          /\ spc'[r] = "stopped" => spc[r] = "stopped" /\ todo'[r] = todo[r]
    BY <1>6, <1>7 DEF OthersKept
  <2>2. \A r \in Schedulers : spc'[r] = "launched" => \A p : compute_task_id(r, p)' = compute_task_id(r, p)
    BY <2>1 DEF compute_task_id
  <2> QED
    BY <1>1, <2>1, <2>2 DEF IInv, MainInv, Stored, TaskAt, Least
<1>20. Draining'
  <2>1. MyPositions(s) # {} => mode # "drained"
    BY <1>3
  <2>2. CASE mode # "drained"
    BY <1>1, <2>2 DEF Draining
  <2>3. CASE mode = "drained"
    <3>1. \A r \in Schedulers : spc'[r] \in {"launch", "launched"} =>
                                 spc[r] \in {"launch", "launched"}
      BY <1>5, <2>1, <2>3
    <3>2. UNCHANGED <<mode, finished, batches, sched_queues>>
      BY <1>1
    <3> QED
      BY <1>8, <1>10, <1>11, <3>1, <3>2, DrainingStep
  <2> QED
    BY <2>2, <2>3
<1>21. Idling'
  BY <1>1, <1>3 DEF Idling
<1> QED
  BY <1>2, <1>8, <1>12, <1>13, <1>14, <1>15, <1>16, <1>17, <1>18, <1>19, <1>20, <1>21,
     DimensionedKept DEF IInv, MainInv

-----------------------------------------------------------------------------
(* Storing a task in the free slot of a worker's ring.                     *)
LEMMA StoresTask ==
  ASSUME IInv, NEW v \in Workers, NEW task,
         worker_queues' = [worker_queues EXCEPT
           ![v][next_free_task_pos[v] % per_worker_queue_len] = task],
         UNCHANGED <<last_ready_task_id, next_free_task_pos, wlocals>>
  PROVE  /\ WorkerCursors' /\ PostersKept /\ SlotsKept /\ QueuesKept
         /\ \A w \in Workers : /\ wpc'[w] = wpc[w] /\ Current(w)' = Current(w)
                               /\ Queued(w)' = Queued(w) /\ Oldest(w)' = Oldest(w)
                               /\ (Posts(w)' <=> Posts(w)) /\ Posted(w)' = Posted(w)
                               /\ \A k \in Queued(w) : TaskAt(w, k)' = TaskAt(w, k)
         /\ TaskAt(v, last_ready_task_id[v])' = task
         /\ \A w \in Workers : w # v => \A k : TaskAt(w, k)' = TaskAt(w, k)
<1> USE DEF wlocals
<1> DEFINE L == per_worker_queue_len
           z == last_ready_task_id[v]
<1>1. /\ worker_queues \in [Workers -> [0..L - 1 -> TaskIds \cup {Unwritten}]]
      /\ z \in Nat /\ next_free_task_pos[v] = z /\ L \in Nat \ {0}
      /\ z % L \in 0..L - 1
  <2>1. z \in Nat /\ next_free_task_pos[v] = z /\ L \in Nat \ {0}
    BY WorkerTypes, Sizes
  <2> QED
    BY <2>1, RingIndex DEF IInv, MainInv, TypeOK, SharedTypeOK, Rings
<1> HIDE DEF z
<1>2. \A w \in Workers : w # v => \A k : TaskAt(w, k)' = TaskAt(w, k)
  BY <1>1 DEF TaskAt
<1>3. TaskAt(v, z)' = task
  BY <1>1 DEF TaskAt, z
<1>4. \A k \in Queued(v) : TaskAt(v, k)' = TaskAt(v, k)
  <2> SUFFICES ASSUME NEW k \in Queued(v) PROVE TaskAt(v, k)' = TaskAt(v, k)
    OBVIOUS
  <2>1. k \in Nat /\ k < z /\ z < k + L
    BY <1>1, WorkerTypes, QueueFits DEF z
  <2>2. k % L # z % L
    BY <1>1, <2>1, RingApart
  <2> QED
    BY <1>1, <2>2 DEF TaskAt
<1>5. \A w \in Workers : /\ wpc'[w] = wpc[w] /\ Current(w)' = Current(w)
                         /\ Queued(w)' = Queued(w) /\ Oldest(w)' = Oldest(w)
                         /\ (Posts(w)' <=> Posts(w)) /\ Posted(w)' = Posted(w)
  BY DEF Current, Queued, Oldest, Posts, Posted
<1>6. \A w \in Workers : \A k \in Queued(w) : TaskAt(w, k)' = TaskAt(w, k)
  BY <1>2, <1>4
<1>7. PostersKept /\ SlotsKept /\ QueuesKept
  BY <1>5, <1>6 DEF PostersKept, SlotsKept, QueuesKept
<1>8. WorkerCursors'
  <2>1. ASSUME NEW w \in Workers, NEW j \in 1..Len(task_ids[w])
        PROVE  task_ids[w][j] = TaskAt(w, Oldest(w) + j - 1)'
    <3>1. Oldest(w) + j - 1 \in Queued(w)
      <4>1. /\ Oldest(w) \in Nat /\ Len(task_ids[w]) \in Nat /\ next_task_pos[w] \in Nat
            /\ Oldest(w) = next_task_pos[w] - Len(task_ids[w])
            /\ last_ready_task_id[w] \in Nat /\ next_task_pos[w] <= last_ready_task_id[w]
        BY WorkerTypes
      <4>2. /\ Oldest(w) + j - 1 \in Nat /\ Oldest(w) <= Oldest(w) + j - 1
            /\ Oldest(w) + j - 1 < last_ready_task_id[w]
        BY <4>1
      <4> QED
        BY <4>2, WorkerTypes
    <3>2. TaskAt(w, Oldest(w) + j - 1)' = worker_queues'[w][(Oldest(w) + j - 1) % L]
      BY <1>5 DEF TaskAt
    <3>3. TaskAt(w, Oldest(w) + j - 1) = worker_queues[w][(Oldest(w) + j - 1) % L]
      BY DEF TaskAt
    <3>4. \A k \in Queued(w) : worker_queues'[w][k % L] = worker_queues[w][k % L]
      BY <1>6 DEF TaskAt
    <3>5. task_ids[w][j] = TaskAt(w, Oldest(w) + j - 1)
      BY DEF IInv, MainInv, WorkerCursors
    <3> QED
      BY <3>1, <3>2, <3>3, <3>4, <3>5
  <2> QED
    BY <1>5, <2>1 DEF IInv, MainInv, WorkerCursors
<1> QED
  BY <1>2, <1>3, <1>5, <1>6, <1>7, <1>8 DEF z

(* A step of a scheduler that only moves on within what it is about.       *)
LEMMA SameCursors ==
  ASSUME IInv, NEW s \in Schedulers, NEW pc \in {"launch", "launched", "stop", "stopped",
                                                 "halt", "haltStore", "haltPublish"},
         spc' = [spc EXCEPT ![s] = pc], todo'[s] # {},
         \/ spc[s] \in {"launch", "launched"} /\ pc \in {"launch", "launched"}
         \/ spc[s] \in {"stop", "stopped"} /\ pc \in {"stop", "stopped"}
         \/ Halts(s) /\ pc \in {"halt", "haltStore", "haltPublish"},
         \A r \in Schedulers : r # s => todo'[r] = todo[r] /\ sslot'[r] = sslot[r],
         \A q \in SchedQueues : /\ last_ready_event_id'[q] \in Nat
                                /\ last_ready_event_id[q] <= last_ready_event_id'[q],
         UNCHANGED <<queue_idx, cur_event_pos, last_event_pos, iteration_num>>
  PROVE  /\ SchedCursors' /\ OthersKept(s)
         /\ \A r \in Schedulers : /\ (Opens(r)' <=> Opens(r)) /\ (Spreads(r)' <=> Spreads(r))
                                  /\ (Stops(r)' <=> Stops(r)) /\ (Halts(r)' <=> Halts(r))
<1>1. spc'[s] = pc /\ \A r \in Schedulers : r # s => spc'[r] = spc[r]
  BY SchedVarTypes
<1>2. OthersKept(s)
  BY <1>1 DEF OthersKept
<1>3. /\ (Opens(s)' <=> Opens(s)) /\ (Spreads(s)' <=> Spreads(s))
      /\ (Stops(s)' <=> Stops(s)) /\ (Halts(s)' <=> Halts(s))
  BY <1>1 DEF Opens, Spreads, Stops, Halts
<1>4. SchedCursors'
  <2>1. \A i \in 0..1 : cur_event_pos'[s][i] <= last_event_pos[s][i]
    BY SchedTypes
  <2>2. spc'[s] \notin {"poll", "exited"} =>
           cur_event_pos'[s] = cur_event_pos[s] /\ spc[s] \notin {"poll", "exited"}
    BY DEF Halts
  <2>3. iteration_num'[s] = cur_event_pos'[s][1] + (IF Spreads(s)' THEN 1 ELSE 0)
    BY <1>3 DEF IInv, MainInv, SchedCursors
  <2>4. spc'[s] \in {"stop", "stopped"} \/ Halts(s)' => queue_idx[s] = 0 /\ todo'[s] # {}
    <3>1. spc'[s] \in {"stop", "stopped"} => spc[s] \in {"stop", "stopped"}
      BY <1>1
    <3> QED
      BY <1>3, <3>1 DEF IInv, MainInv, SchedCursors
  <2> QED
    BY <1>2, <2>1, <2>2, <2>3, <2>4, SchedCursorsStep
<1> QED
  BY <1>2, <1>3, <1>4, OthersRoles

(* Stores by a scheduler change nothing but what is stored.                *)
LEMMA StoresInv ==
  ASSUME IInv, NEW s \in Schedulers, TypeOK', OwnInv', WorkerCursors', SchedCursors',
         PostersKept, SlotsKept, QueuesKept, OthersKept(s), Stored', mode # "ready",
         \A w \in Workers : /\ wpc'[w] = wpc[w] /\ Current(w)' = Current(w),
         \A r \in Schedulers : /\ (Opens(r)' <=> Opens(r)) /\ (Spreads(r)' <=> Spreads(r))
                               /\ (Stops(r)' <=> Stops(r)) /\ (Halts(r)' <=> Halts(r)),
         ~Halts(s),
         spc'[s] \in {"launch", "launched"} => spc[s] \in {"launch", "launched"},
         UNCHANGED <<sched_queues, last_ready_event_id, next_free_event_id,
                     all_event_counters, cur_event_pos, iteration_num, next_worker, todo,
                     launches, batches, mode, finished>>
  PROVE  MainInv'
<1>1. RolesKept /\ HaltersKept /\ ReadersKept
  BY DEF RolesKept, HaltersKept, ReadersKept, OthersKept, Unread
<1>2. \A r, k : EventAt(r, k)' = EventAt(r, k)
  BY DEF EventAt
<1>3. Posting'
  BY <1>1, PostingKept
<1>4. Broadcasts'
  BY <1>2, BroadcastsKept
<1>5. Progress'
  BY ProgressKept
<1>6. Serving'
  BY <1>1, <1>2, ServingKept
<1>7. Tasks'
  BY TasksKept
<1>8. Dealing'
  BY <1>1, DealingKept DEF QueuesKept
<1>9. Draining'
  <2>1. \A r \in Schedulers : spc'[r] \in {"launch", "launched"} => spc[r] \in {"launch", "launched"}
    BY DEF OthersKept
  <2> QED
    BY <1>1, <2>1, DrainingKept
<1>10. Idling'
  BY DEF Idling
<1> QED
  BY <1>3, <1>4, <1>5, <1>6, <1>7, <1>8, <1>9, <1>10, DimensionedKept DEF IInv, MainInv

LEMMA LeastUnique ==
  ASSUME NEW S \in SUBSET Nat, NEW p \in Nat, NEW q \in Nat, Least(p, S), Least(q, S)
  PROVE  p = q
BY DEF Least

LEMMA LaunchStoreInv ==
  ASSUME IInv, NEW s \in Schedulers, LaunchStore(s)
  PROVE  MainInv'
<1> USE DEF history
<1>0. PICK v : v = next_worker[s]
  OBVIOUS
<1>1. PICK p \in todo[s] : Least(p, todo[s]) /\ WriteTask(v, compute_task_id(s, p))
  BY <1>0 DEF LaunchStore
<1>2. /\ spc[s] = "launch" /\ spc' = [spc EXCEPT ![s] = "launched"]
      /\ worker_queues' = [worker_queues EXCEPT
           ![v][next_free_task_pos[v] % per_worker_queue_len] = compute_task_id(s, p)]
      /\ UNCHANGED <<last_ready_task_id, sched_queues, last_ready_event_id,
                 next_free_event_id, all_event_counters, wlocals, queue_idx,
                 cur_event_pos, last_event_pos, iteration_num, next_worker,
                 next_free_task_pos, todo, sslot, launches, history>>
  BY <1>1 DEF LaunchStore, WriteTask
<1>3. TypeOK' /\ OwnInv'
  BY LaunchStoreType, SchedOwn DEF IInv, MainInv, SchedStep
<1>4. mode = "serving"
  BY <1>2, LaunchesServing
<1>5. \A r \in Schedulers : spc[r] \in {"launch", "launched"} =>
         next_worker[r] \in my_workers(r) /\ next_worker[r] \in Workers
  BY MyWorkersAreWorkers DEF IInv, MainInv, OwnInv, LaunchersServe, NextWorkerOwn
<1>6. v \in Workers /\ v \in my_workers(s) /\ p \in Nat /\ todo[s] \in SUBSET Nat
  BY <1>0, <1>2, <1>5, SchedVarTypes
<1>7. /\ WorkerCursors' /\ PostersKept /\ SlotsKept /\ QueuesKept
      /\ \A w \in Workers : /\ wpc'[w] = wpc[w] /\ Current(w)' = Current(w)
      /\ TaskAt(v, last_ready_task_id[v])' = compute_task_id(s, p)
      /\ \A w \in Workers : w # v => \A k : TaskAt(w, k)' = TaskAt(w, k)
  <2> HIDE DEF history
  <2> QED
    BY <1>2, <1>6, StoresTask
<1>8. /\ SchedCursors' /\ OthersKept(s)
      /\ \A r \in Schedulers : /\ (Opens(r)' <=> Opens(r)) /\ (Spreads(r)' <=> Spreads(r))
                               /\ (Stops(r)' <=> Stops(r)) /\ (Halts(r)' <=> Halts(r))
  <2>1. \A q \in SchedQueues : /\ last_ready_event_id'[q] \in Nat
                               /\ last_ready_event_id[q] <= last_ready_event_id'[q]
    BY <1>2 DEF IInv, MainInv, TypeOK, SharedTypeOK
  <2>2. /\ todo'[s] # {}
        /\ \A r \in Schedulers : r # s => todo'[r] = todo[r] /\ sslot'[r] = sslot[r]
        /\ UNCHANGED <<queue_idx, cur_event_pos, last_event_pos, iteration_num>>
    BY <1>1, <1>2
  <2> HIDE DEF history
  <2> QED
    BY <1>2, <2>1, <2>2, SameCursors
<1>9. Stored'
  <2>1. ASSUME NEW r \in Schedulers, spc'[r] = "launched",
               NEW x \in todo'[r], Least(x, todo'[r])
        PROVE  TaskAt(next_worker[r], last_ready_task_id[next_worker[r]])' = compute_task_id(r, x)'
    <3>1. compute_task_id(r, x)' = compute_task_id(r, x) /\ x \in todo[r] /\ Least(x, todo[r])
      BY <1>2, <2>1 DEF compute_task_id, Least
    <3>2. CASE r = s
      <4>1. x = p
        BY <1>1, <1>6, <3>1, <3>2, LeastUnique
      <4>2. TaskAt(next_worker[s], last_ready_task_id[next_worker[s]])' = compute_task_id(s, p)
        BY <1>0, <1>2, <1>7 DEF TaskAt
      <4> QED
        BY <3>1, <3>2, <4>1, <4>2
    <3>3. CASE r # s
      <4>1. spc[r] = "launched"
        BY <1>8, <2>1, <3>3 DEF OthersKept
      <4>2. next_worker[r] \in Workers /\ next_worker[r] # v
        BY <1>5, <1>6, <3>3, <4>1, BlocksApart
      <4>3. TaskAt(next_worker[r], last_ready_task_id[next_worker[r]]) = compute_task_id(r, x)
        BY <3>1, <4>1 DEF IInv, MainInv, Stored
      <4>4. \A k : worker_queues'[next_worker[r]][k % per_worker_queue_len]
                     = worker_queues[next_worker[r]][k % per_worker_queue_len]
        BY <1>7, <4>2 DEF TaskAt
      <4> QED
        BY <1>2, <3>1, <4>3, <4>4 DEF TaskAt
    <3> QED
      BY <3>2, <3>3
  <2>2. \A r \in Schedulers : spc'[r] # "stopped"
    <3>1. \A r \in Schedulers : spc[r] # "stopped"
      BY <1>4, StopsDrained
    <3> QED
      BY <1>2, <1>8, <3>1, SchedVarTypes DEF OthersKept
  <2> QED
    BY <2>1, <2>2 DEF Stored
<1>10. /\ ~Halts(s) /\ mode # "ready"
       /\ spc'[s] \in {"launch", "launched"} => spc[s] \in {"launch", "launched"}
  BY <1>2, <1>4 DEF Halts
<1> QED
  BY <1>2, <1>3, <1>7, <1>8, <1>9, <1>10, StoresInv

LEMMA StopStoreInv ==
  ASSUME IInv, NEW s \in Schedulers, StopStore(s)
  PROVE  MainInv'
<1> USE DEF history
<1>1. PICK v \in todo[s] : Least(v, todo[s]) /\ WriteTask(v, TerminateTask)
  BY DEF StopStore
<1>2. /\ spc[s] = "stop" /\ spc' = [spc EXCEPT ![s] = "stopped"]
      /\ worker_queues' = [worker_queues EXCEPT
           ![v][next_free_task_pos[v] % per_worker_queue_len] = TerminateTask]
      /\ UNCHANGED <<last_ready_task_id, sched_queues, last_ready_event_id,
                 next_free_event_id, all_event_counters, wlocals, queue_idx,
                 cur_event_pos, last_event_pos, iteration_num, next_worker,
                 next_free_task_pos, todo, sslot, launches, history>>
  BY <1>1 DEF StopStore, WriteTask
<1>3. TypeOK' /\ OwnInv'
  BY StopStoreType, SchedOwn DEF IInv, MainInv, SchedStep
<1>4. mode = "drained"
  BY <1>2, StopsDrained
<1>5. \A r \in Schedulers : spc[r] \in {"stop", "stopped"} => todo[r] \subseteq my_workers(r)
  BY DEF IInv, MainInv, OwnInv, LaunchersServe
<1>6. v \in Workers /\ v \in my_workers(s) /\ v \in Nat /\ todo[s] \in SUBSET Nat
  BY <1>2, <1>5, SchedVarTypes, MyWorkersAreWorkers
<1>7. /\ WorkerCursors' /\ PostersKept /\ SlotsKept /\ QueuesKept
      /\ \A w \in Workers : /\ wpc'[w] = wpc[w] /\ Current(w)' = Current(w)
      /\ TaskAt(v, last_ready_task_id[v])' = TerminateTask
      /\ \A w \in Workers : w # v => \A k : TaskAt(w, k)' = TaskAt(w, k)
  <2> HIDE DEF history
  <2> QED
    BY <1>2, <1>6, StoresTask
<1>8. /\ SchedCursors' /\ OthersKept(s)
      /\ \A r \in Schedulers : /\ (Opens(r)' <=> Opens(r)) /\ (Spreads(r)' <=> Spreads(r))
                               /\ (Stops(r)' <=> Stops(r)) /\ (Halts(r)' <=> Halts(r))
  <2>1. \A q \in SchedQueues : /\ last_ready_event_id'[q] \in Nat
                               /\ last_ready_event_id[q] <= last_ready_event_id'[q]
    BY <1>2 DEF IInv, MainInv, TypeOK, SharedTypeOK
  <2>2. /\ todo'[s] # {}
        /\ \A r \in Schedulers : r # s => todo'[r] = todo[r] /\ sslot'[r] = sslot[r]
        /\ UNCHANGED <<queue_idx, cur_event_pos, last_event_pos, iteration_num>>
    BY <1>1, <1>2
  <2> HIDE DEF history
  <2> QED
    BY <1>2, <2>1, <2>2, SameCursors
<1>9. Stored'
  <2>1. ASSUME NEW r \in Schedulers, spc'[r] = "stopped",
               NEW x \in todo'[r], Least(x, todo'[r])
        PROVE  TaskAt(x, last_ready_task_id[x])' = TerminateTask
    <3>1. x \in todo[r] /\ Least(x, todo[r])
      BY <1>2, <2>1 DEF Least
    <3>2. CASE r = s
      <4>1. x = v
        BY <1>1, <1>6, <3>1, <3>2, LeastUnique
      <4> QED
        BY <1>2, <1>7, <4>1 DEF TaskAt
    <3>3. CASE r # s
      <4>1. spc[r] = "stopped"
        BY <1>8, <2>1, <3>3 DEF OthersKept
      <4>2. x \in Workers /\ x # v
        BY <1>5, <1>6, <3>1, <3>3, <4>1, BlocksApart, MyWorkersAreWorkers
      <4>3. TaskAt(x, last_ready_task_id[x]) = TerminateTask
        BY <3>1, <4>1 DEF IInv, MainInv, Stored
      <4>4. \A k : worker_queues'[x][k % per_worker_queue_len]
                     = worker_queues[x][k % per_worker_queue_len]
        BY <1>7, <4>2 DEF TaskAt
      <4> QED
        BY <1>2, <4>3, <4>4 DEF TaskAt
    <3> QED
      BY <3>2, <3>3
  <2>2. \A r \in Schedulers : spc'[r] # "launched"
    <3>1. \A r \in Schedulers : spc[r] # "launched"
      BY <1>4, LaunchesServing
    <3> QED
      BY <1>2, <1>8, <3>1, SchedVarTypes DEF OthersKept
  <2> QED
    BY <2>1, <2>2 DEF Stored
<1>10. /\ ~Halts(s) /\ mode # "ready"
       /\ spc'[s] \in {"launch", "launched"} => spc[s] \in {"launch", "launched"}
  <2>1. spc'[s] = "stopped"
    BY <1>2, SchedVarTypes
  <2> QED
    BY <1>2, <1>4, <2>1 DEF Halts
<1> QED
  BY <1>2, <1>3, <1>7, <1>8, <1>9, <1>10, StoresInv

-----------------------------------------------------------------------------
(* Publishing the task stored in the free slot.                            *)
LEMMA PublishesTask ==
  ASSUME IInv, NEW v \in Workers, PublishTask(v), UNCHANGED <<worker_queues, wlocals>>
  PROVE  /\ WorkerCursors' /\ PostersKept /\ SlotsKept
         /\ \A w \in Workers : /\ wpc'[w] = wpc[w] /\ Current(w)' = Current(w)
                               /\ Oldest(w)' = Oldest(w)
                               /\ (Posts(w)' <=> Posts(w)) /\ Posted(w)' = Posted(w)
                               /\ \A k : TaskAt(w, k)' = TaskAt(w, k)
                               /\ w # v => Queued(w)' = Queued(w)
                               /\ w # v => last_ready_task_id'[w] = last_ready_task_id[w]
         /\ Queued(v)' = Queued(v) \cup {last_ready_task_id[v]}
         /\ last_ready_task_id[v] \notin Queued(v)
         /\ last_ready_task_id[v] \in Nat
<1> USE DEF wlocals
<1> DEFINE z == last_ready_task_id[v]
<1>1. /\ last_ready_task_id \in [Workers -> Nat] /\ next_free_task_pos \in [Workers -> Nat]
      /\ next_free_task_pos' = [next_free_task_pos EXCEPT ![v] = @ + 1]
      /\ last_ready_task_id' = [last_ready_task_id EXCEPT ![v] = @ + 1]
  BY DEF IInv, MainInv, TypeOK, SharedTypeOK, SchedsTypeOK, PublishTask
<1>2. /\ last_ready_task_id'[v] = z + 1 /\ next_free_task_pos'[v] = z + 1
      /\ \A w \in Workers : w # v => /\ last_ready_task_id'[w] = last_ready_task_id[w]
                                     /\ next_free_task_pos'[w] = next_free_task_pos[w]
  BY <1>1, WorkerTypes
<1>3. \A w \in Workers : /\ wpc'[w] = wpc[w] /\ Current(w)' = Current(w)
                         /\ Oldest(w)' = Oldest(w)
                         /\ (Posts(w)' <=> Posts(w)) /\ Posted(w)' = Posted(w)
                         /\ \A k : TaskAt(w, k)' = TaskAt(w, k)
                         /\ w # v => Queued(w)' = Queued(w)
  BY <1>2 DEF Current, Oldest, Posts, Posted, TaskAt, Queued
<1>4. Queued(v)' = Queued(v) \cup {z} /\ z \notin Queued(v) /\ z \in Nat
  <2>1. Oldest(v) \in Nat /\ z \in Nat /\ Oldest(v) <= z
    BY WorkerTypes
  <2> HIDE DEF z
  <2>2. Queued(v)' = Oldest(v)..(z + 1) - 1
    BY <1>2, <1>3 DEF Queued
  <2>3. Queued(v) = Oldest(v)..z - 1
    BY DEF Queued, z
  <2> QED
    BY <2>1, <2>2, <2>3
<1>5. PostersKept /\ SlotsKept
  BY <1>3 DEF PostersKept, SlotsKept
<1>6. WorkerCursors'
  <2>1. \A w \in Workers : \A j : TaskAt(w, Oldest(w) + j - 1)' = TaskAt(w, Oldest(w) + j - 1)
    BY <1>3 DEF TaskAt
  <2>2. \A w \in Workers : /\ next_free_task_pos'[w] = last_ready_task_id'[w]
                           /\ last_task_pos[w] <= last_ready_task_id'[w]
    <3> TAKE w \in Workers
    <3>1. CASE w = v
      BY <1>2, <3>1, WorkerTypes
    <3>2. CASE w # v
      BY <1>2, <3>2, WorkerTypes
    <3> QED
      BY <3>1, <3>2
  <2> QED
    BY <1>3, <2>1, <2>2 DEF IInv, MainInv, WorkerCursors
<1> QED
  BY <1>2, <1>3, <1>4, <1>5, <1>6

(* Once all the begin task's event is broadcast it is nowhere queued.      *)
LEMMA NoBeginQueued ==
  ASSUME IInv, mode = "serving", last_ready_event_id[BcastQueue] = batches,
         NEW w \in Workers, NEW k \in Queued(w)
  PROVE  TaskAt(w, k).pos # 1
<1> SUFFICES ASSUME TaskAt(w, k).pos = 1 PROVE FALSE
  OBVIOUS
<1>1. batches \in Nat
  BY Modes
<1>2. finished[1] = batches /\ ~\E v \in Workers : Posts(v) /\ Posted(v) = 1
  BY <1>1 DEF IInv, MainInv, Broadcasts
<1>3. finished[1] = IF Posts(w) /\ k = Oldest(w) THEN batches ELSE batches - 1
  BY DEF IInv, MainInv, Tasks
<1>4. Posts(w) /\ k = Oldest(w)
  BY <1>1, <1>2, <1>3
<1>5. task_ids[w] # <<>>
  BY <1>4, RunsServing
<1>6. Current(w).pos = 1
  BY <1>4, <1>5, CurrentTask
<1>7. Posted(w) = 1
  BY <1>6, Sizes, GraphAssumption DEF Posted
<1> QED
  BY <1>2, <1>4, <1>7

(* What the other schedulers have stored stays where it is.                *)
LEMMA PublishStored ==
  ASSUME IInv, NEW s \in Schedulers, NEW v \in my_workers(s),
         \A w \in Workers : w # v => last_ready_task_id'[w] = last_ready_task_id[w],
         spc'[s] # "launched", \A r \in Schedulers : spc'[r] # "stopped",
         \A r \in Schedulers : r # s =>
           spc'[r] = spc[r] /\ todo'[r] = todo[r] /\ next_worker'[r] = next_worker[r],
         UNCHANGED <<worker_queues, iteration_num>>
  PROVE  Stored'
<1>1. ASSUME NEW r \in Schedulers, spc'[r] = "launched",
             NEW x \in todo'[r], Least(x, todo'[r])
      PROVE  TaskAt(next_worker[r], last_ready_task_id[next_worker[r]])' = compute_task_id(r, x)'
  <2>1. r # s /\ spc[r] = "launched" /\ next_worker'[r] = next_worker[r] /\ todo'[r] = todo[r]
    BY <1>1
  <2>2. compute_task_id(r, x)' = compute_task_id(r, x) /\ x \in todo[r] /\ Least(x, todo[r])
    BY <1>1, <2>1 DEF compute_task_id, Least
  <2>3. next_worker[r] \in Workers /\ next_worker[r] # v
    BY <2>1, BlocksApart, MyWorkersAreWorkers DEF IInv, MainInv, OwnInv, LaunchersServe, NextWorkerOwn
  <2>4. TaskAt(next_worker[r], last_ready_task_id[next_worker[r]]) = compute_task_id(r, x)
    BY <2>1, <2>2 DEF IInv, MainInv, Stored
  <2>5. last_ready_task_id'[next_worker[r]] = last_ready_task_id[next_worker[r]]
    BY <2>3
  <2> QED
    BY <2>1, <2>2, <2>4, <2>5 DEF TaskAt
<1> QED
  BY <1>1 DEF Stored

(* The begin task is published.                                            *)
LEMMA OpenPublishInv ==
  ASSUME IInv, NEW s \in Schedulers, LaunchPublish(s), Opens(s)
  PROVE  MainInv'
<1> USE DEF history
<1>0. PICK v : v = next_worker[s]
  OBVIOUS
<1>1. /\ spc[s] = "launched" /\ PublishTask(v)
      /\ \A r \in Schedulers : r # s => next_worker'[r] = next_worker[r]
      /\ \E p \in todo[s] : Least(p, todo[s]) /\ Begin(s, "launch", todo[s] \ {p})
      /\ UNCHANGED <<worker_queues, sched_queues, last_ready_event_id,
                 next_free_event_id, all_event_counters, wlocals, queue_idx,
                 last_event_pos, iteration_num, sslot, launches, history>>
  BY <1>0, SchedVarTypes DEF LaunchPublish
<1>2. TypeOK' /\ OwnInv'
  BY LaunchPublishType, SchedOwn DEF IInv, MainInv, SchedStep
<1>3. /\ mode = "serving" /\ batches \in Nat /\ queue_idx[s] = 0
      /\ todo[s] = {1} /\ iteration_num[s] = batches - 1
      /\ \A t \in GraphTasks : finished[t] = batches - 1
      /\ \A w \in Workers : Queued(w) = {}
  <2>1. mode = "serving" /\ batches \in Nat
    BY <1>1, LaunchesServing, Modes
  <2> QED
    BY <2>1 DEF IInv, MainInv, Serving, Opens
<1>4. v \in my_workers(s) /\ v \in Workers
  BY <1>0, <1>1, MyWorkersAreWorkers DEF IInv, MainInv, OwnInv, LaunchersServe, NextWorkerOwn
<1>5. \A r \in Schedulers : Opens(r) =>
        /\ cur_event_pos[r][0] \in Unread(r) /\ Unread(r) = {cur_event_pos[r][0]}
        /\ \A x \in Schedulers : Unread(x) # {} => x = r
        /\ \A w \in Workers : ~Posts(w)
  <2> SUFFICES ASSUME NEW r \in Schedulers, Opens(r)
               PROVE  /\ cur_event_pos[r][0] \in Unread(r) /\ Unread(r) = {cur_event_pos[r][0]}
                      /\ \A x \in Schedulers : Unread(x) # {} => x = r
                      /\ \A w \in Workers : ~Posts(w)
    OBVIOUS
  <2>1. cur_event_pos[r][0] < last_event_pos[r][0]
    BY DEF IInv, MainInv, SchedCursors, Opens
  <2>2. cur_event_pos[r][0] \in Unread(r)
    BY <2>1, SchedTypes
  <2> QED
    BY <1>3, <2>2 DEF IInv, MainInv, Serving
<1>6. /\ Unread(s) = {cur_event_pos[s][0]} /\ \A w \in Workers : ~Posts(w)
      /\ \A r \in Schedulers : r # s => Unread(r) = {} /\ ~Opens(r)
  BY <1>5
<1>7. /\ \A r \in Schedulers : r # s => /\ spc'[r] = spc[r] /\ todo'[r] = todo[r]
                                        /\ cur_event_pos'[r] = cur_event_pos[r]
      /\ spc'[s] = "poll"
      /\ cur_event_pos'[s][0] = cur_event_pos[s][0] + 1
      /\ cur_event_pos'[s][1] = cur_event_pos[s][1]
  <2>1. Begin(s, "launch", {})
    <3>1. PICK p \in todo[s] : Begin(s, "launch", todo[s] \ {p})
      BY <1>1
    <3>2. todo[s] \ {p} = {}
      BY <1>3, <3>1
    <3> QED
      BY <3>1, <3>2
  <2> HIDE DEF history
  <2>2. {} \in SUBSET Nat
    OBVIOUS
  <2>3. /\ \A r \in Schedulers : r # s => /\ spc'[r] = spc[r] /\ todo'[r] = todo[r]
                                          /\ cur_event_pos'[r] = cur_event_pos[r]
        /\ spc'[s] = "poll"
        /\ \A i \in 0..1 : cur_event_pos'[s][i] =
             IF i = queue_idx[s] THEN cur_event_pos[s][i] + 1 ELSE cur_event_pos[s][i]
    BY <2>1, <2>2, BeginCases, Zenon
  <2>4. 0 \in 0..1 /\ 1 \in 0..1 /\ 0 # 1
    OBVIOUS
  <2> QED
    BY <1>3, <2>3, <2>4
<1>8. OthersKept(s)
  BY <1>1, <1>7 DEF OthersKept
<1>9. /\ \A r \in Schedulers : ~Opens(r)' /\ ~Stops(r)' /\ ~Halts(r)'
      /\ \A r \in Schedulers : ~Halts(r) /\ ~Stops(r)
      /\ ~Spreads(s)' /\ ~Spreads(s)
      /\ \A r \in Schedulers : r # s => (Spreads(r)' <=> Spreads(r))
  <2>1. \A r \in Schedulers : ~Halts(r) /\ ~Stops(r)
    BY <1>3 DEF IInv, MainInv, Serving
  <2>2. /\ ~Opens(s)' /\ ~Stops(s)' /\ ~Halts(s)' /\ ~Spreads(s)' /\ ~Spreads(s)
    BY <1>3, <1>7 DEF Opens, Stops, Halts, Spreads
  <2> QED
    BY <1>6, <1>8, <2>1, <2>2, OthersRoles
<1>10. /\ WorkerCursors' /\ PostersKept /\ SlotsKept
       /\ \A w \in Workers : /\ wpc'[w] = wpc[w] /\ Current(w)' = Current(w)
                             /\ Oldest(w)' = Oldest(w)
                             /\ (Posts(w)' <=> Posts(w)) /\ Posted(w)' = Posted(w)
                             /\ \A k : TaskAt(w, k)' = TaskAt(w, k)
                             /\ w # v => Queued(w)' = Queued(w)
                             /\ w # v => last_ready_task_id'[w] = last_ready_task_id[w]
       /\ Queued(v)' = Queued(v) \cup {last_ready_task_id[v]}
       /\ last_ready_task_id[v] \in Nat
  BY <1>1, <1>4, PublishesTask
<1>11. PICK z : z = last_ready_task_id[v]
  OBVIOUS
<1>12. /\ Queued(v)' = {z} /\ z \in Nat
       /\ \A w \in Workers : w # v => Queued(w)' = {}
       /\ TaskAt(v, z)' = [iter |-> batches, pos |-> 1]
       /\ TaskAt(v, z)'.iter = batches /\ TaskAt(v, z)'.pos = 1
  <2>1. Least(1, todo[s])
    BY <1>3 DEF Least
  <2>2. TaskAt(v, z) = compute_task_id(s, 1)
    BY <1>0, <1>1, <1>3, <1>11, <2>1 DEF IInv, MainInv, Stored
  <2>3. compute_task_id(s, 1) = [iter |-> batches, pos |-> 1]
    BY <1>3 DEF compute_task_id
  <2>4. TaskAt(v, z)' = [iter |-> batches, pos |-> 1]
    BY <1>4, <1>10, <2>2, <2>3
  <2> QED
    BY <1>3, <1>4, <1>10, <1>11, <2>4
<1>13. \A r \in Schedulers : Unread(r)' = {}
  <2>1. Unread(s)' = {}
    <3>1. /\ cur_event_pos[s][0] \in Nat /\ last_ready_event_id[s] \in Nat
      BY SchedTypes
    <3>2. cur_event_pos[s][0]..last_ready_event_id[s] - 1 = {cur_event_pos[s][0]}
      BY <1>6 DEF Unread
    <3>3. cur_event_pos[s][0] + 1 > last_ready_event_id[s] - 1
      BY <3>1, <3>2
    <3>4. Unread(s)' = cur_event_pos[s][0] + 1..last_ready_event_id[s] - 1
      BY <1>1, <1>7 DEF Unread
    <3> QED
      BY <3>1, <3>3, <3>4
  <2>2. \A r \in Schedulers : r # s => Unread(r)' = Unread(r)
    BY <1>1, <1>7 DEF Unread
  <2> QED
    BY <1>6, <2>1, <2>2
<1>14. SchedCursors'
  <2>1. \A q \in SchedQueues : /\ last_ready_event_id'[q] \in Nat
                               /\ last_ready_event_id[q] <= last_ready_event_id'[q]
    BY <1>1 DEF IInv, MainInv, TypeOK, SharedTypeOK
  <2>2. \A i \in 0..1 : cur_event_pos'[s][i] <= last_event_pos[s][i]
    <3>1. cur_event_pos[s][0] < last_event_pos[s][0]
      BY <1>1, <1>3 DEF IInv, MainInv, SchedCursors
    <3>2. \A i \in 0..1 : i = 0 \/ i = 1
      OBVIOUS
    <3>3. cur_event_pos'[s][0] <= last_event_pos[s][0]
      BY <1>7, <3>1, SchedTypes
    <3>4. cur_event_pos'[s][1] <= last_event_pos[s][1]
      BY <1>7, SchedTypes
    <3> QED
      BY <3>2, <3>3, <3>4
  <2>3. spc'[s] \notin {"poll", "exited"} =>
           cur_event_pos'[s] = cur_event_pos[s] /\ spc[s] \notin {"poll", "exited"}
    BY <1>7
  <2>4. iteration_num'[s] = cur_event_pos'[s][1] + (IF Spreads(s)' THEN 1 ELSE 0)
    BY <1>1, <1>7, <1>9 DEF IInv, MainInv, SchedCursors
  <2>5. spc'[s] \in {"stop", "stopped"} \/ Halts(s)' => queue_idx[s] = 0 /\ todo'[s] # {}
    BY <1>7, <1>9
  <2>6. UNCHANGED <<queue_idx, last_event_pos>>
    BY <1>1
  <2> QED
    BY <1>8, <2>1, <2>2, <2>3, <2>4, <2>5, <2>6, SchedCursorsStep
<1>15. Posting'
  <2>1. HaltersKept
    BY <1>9 DEF HaltersKept
  <2> QED
    BY <1>1, <1>10, <2>1, PostingKept
<1>16. Broadcasts'
  <2>1. \A k : EventAt(BcastQueue, k)' = EventAt(BcastQueue, k)
    BY <1>1 DEF EventAt
  <2> QED
    BY <1>1, <1>10, <2>1, BroadcastsKept
<1>17. Progress'
  BY <1>1, <1>10, ProgressKept
<1>18. Serving'
  <2>1. \A w \in Workers : wpc'[w] # "exited" /\ ~Posts(w)'
    BY <1>3, <1>6, <1>10 DEF IInv, MainInv, Serving
  <2>2. ASSUME NEW w \in Workers, NEW k \in Queued(w)', TaskAt(w, k)'.pos = 1
        PROVE  /\ Queued(w)' = {k} /\ \A x \in Workers \ {w} : Queued(x)' = {}
               /\ \A r \in Schedulers : Unread(r)' = {}
               /\ \A t \in GraphTasks : t # 1 => finished'[t] = batches' - 1
    <3>1. w = v /\ k = z
      BY <1>4, <1>12, <2>2
    <3> QED
      BY <1>1, <1>3, <1>12, <1>13, <3>1
  <2> QED
    BY <1>9, <1>13, <2>1, <2>2 DEF Serving
<1>19. Tasks'
  <2>1. ASSUME NEW w \in Workers, NEW k \in Queued(w)'
        PROVE  w = v /\ k = z
    BY <1>4, <1>12, <2>1
  <2>2. ASSUME NEW w \in Workers, NEW k \in Queued(w)'
        PROVE  /\ TaskAt(w, k)' = [iter |-> batches', pos |-> TaskAt(w, k)'.pos]
               /\ TaskAt(w, k)'.pos \in GraphTasks
               /\ finished'[TaskAt(w, k)'.pos] =
                    IF Posts(w)' /\ k = Oldest(w)' THEN batches' ELSE batches' - 1
    <3>1. w = v /\ k = z
      BY <2>1, <2>2
    <3>2. ~Posts(v)'
      BY <1>4, <1>6, <1>10
    <3> QED
      BY <1>1, <1>3, <1>12, <3>1, <3>2, Sizes
  <2>3. ASSUME NEW w \in Workers, NEW k \in Queued(w)', NEW l \in Queued(w)'
        PROVE  TaskAt(w, l)'.pos - TaskAt(w, k)'.pos >= (l - k) * NumWorkers
    <3>1. w = v /\ k = z /\ l = z
      BY <2>1, <2>3
    <3>2. (z - z) * NumWorkers = 0 /\ 1 - 1 = 0
      BY <1>12, Sizes
    <3> QED
      BY <1>12, <3>1, <3>2
  <2>4. ASSUME NEW w \in Workers, NEW k \in Queued(w)' PROVE TaskAt(w, k)'.pos = 1
    BY <1>12, <2>1, <2>4
  <2>5. \A r \in Schedulers : my_workers(r)' \subseteq Workers
    BY MyWorkersAreWorkers DEF my_workers
  <2> QED
    BY <2>1, <2>2, <2>3, <2>4, <2>5 DEF Tasks
<1>20. Dealing'
  <2> SUFFICES ASSUME mode = "serving", NEW r \in Schedulers, Spreads(r)'
             PROVE  /\ iteration_num'[r] = batches'
                    /\ todo'[r] # {} /\ todo'[r] \subseteq MyPositions(r)
                    /\ \A t \in todo'[r] : finished'[t] = batches' - 1
                    /\ \A p \in todo'[r], t \in MyPositions(r) : p <= t => t \in todo'[r]
                    /\ \A w \in my_workers(r) : \A k \in Queued(w)', p \in todo'[r] :
                         /\ TaskAt(w, k)'.pos < p
                         /\ Least(p, todo'[r]) =>
                              (w - Column(TaskAt(w, k)'.pos)) - (next_worker'[r] - Column(p))
                                \in {-Share(r), 0, Share(r)}
    BY <1>1 DEF Dealing, MyPositions, my_workers, Column, Share, my_last_worker, my_first_worker, Least
  <2>1. r # s /\ Spreads(r)
    BY <1>9
  <2>2. /\ todo'[r] = todo[r] /\ next_worker'[r] = next_worker[r]
        /\ iteration_num'[r] = iteration_num[r]
    BY <1>1, <1>7, <2>1
  <2>3. \A w \in my_workers(r) : /\ Queued(w)' \subseteq Queued(w)
                                 /\ \A k \in Queued(w)' : TaskAt(w, k)' = TaskAt(w, k)
    BY <1>4, <1>10, <2>1, BlocksApart, MyWorkersAreWorkers
  <2>4. UNCHANGED <<batches, finished>>
    BY <1>1
  <2> QED
    BY <2>1, <2>2, <2>3, <2>4, DealingStep
<1>21. Stored'
  <2>1. spc'[s] # "launched" /\ \A r \in Schedulers : spc'[r] # "stopped"
    BY <1>7, <1>9 DEF Stops
  <2> QED
    BY <1>0, <1>1, <1>4, <1>7, <1>10, <2>1, PublishStored
<1>22. Draining' /\ Idling'
  BY <1>1, <1>3 DEF Draining, Idling
<1> QED
  BY <1>2, <1>10, <1>14, <1>15, <1>16, <1>17, <1>18, <1>19, <1>20, <1>21, <1>22,
     DimensionedKept DEF IInv, MainInv

-----------------------------------------------------------------------------
LEMMA ModOf ==
  ASSUME NEW n \in Nat \ {0}, NEW q \in Nat, NEW c \in 0..n - 1
  PROVE  (q * n + c) % n = c
<1> DEFINE x == q * n + c
           r == x \div n
           d == x % n
<1>1. x \in Nat /\ q * n \in Nat
  OBVIOUS
<1>2. r \in Nat /\ d \in Nat /\ d < n /\ x = r * n + d
  BY <1>1, DivMod
<1>3. x = q * n + c
  OBVIOUS
<1> HIDE DEF x, r, d
<1>4. r = q
  <2>1. ASSUME NEW a \in Nat, NEW b \in Nat, a < b
        PROVE  a * n + n <= b * n /\ a * n \in Nat /\ b * n \in Nat
    <3>1. (a + 1) * n <= b * n
      BY <2>1, MulMono
    <3>2. (a + 1) * n = a * n + n
      OBVIOUS
    <3> QED
      BY <3>1, <3>2
  <2>2. ~(r < q)
    <3> SUFFICES ASSUME r < q PROVE FALSE
      OBVIOUS
    <3>1. r * n + n <= q * n /\ r * n \in Nat /\ q * n \in Nat
      BY <1>2, <2>1
    <3> QED
      BY <1>2, <1>3, <3>1
  <2>3. ~(q < r)
    <3> SUFFICES ASSUME q < r PROVE FALSE
      OBVIOUS
    <3>1. q * n + n <= r * n /\ r * n \in Nat /\ q * n \in Nat
      BY <1>2, <2>1
    <3> QED
      BY <1>2, <1>3, <3>1
  <2> QED
    BY <1>2, <2>2, <2>3
<1>5. d = c
  BY <1>1, <1>2, <1>3, <1>4
<1> QED
  BY <1>5 DEF d, x

(* The block of workers of a scheduler, as an interval.                    *)
LEMMA Block ==
  ASSUME NEW s \in Schedulers
  PROVE  /\ my_first_worker(s) \in Nat /\ my_last_worker(s) \in Nat
         /\ my_workers(s) = my_first_worker(s)..my_last_worker(s) - 1
         /\ my_workers(s) # {} => my_last_worker(s) <= NumWorkers
<1>1. /\ my_first_worker(s) \in Nat /\ my_last_worker(s) \in Nat
      /\ my_workers(s) \subseteq Workers
  BY MyWorkersAreWorkers
<1>2. my_workers(s) = my_first_worker(s)..my_last_worker(s) - 1
  BY DEF my_workers, my_first_worker, my_last_worker, OwnIds
<1>3. my_workers(s) # {} => my_last_worker(s) - 1 \in Workers
  BY <1>1, <1>2
<1> QED
  BY <1>1, <1>2, <1>3, Sizes DEF Workers

(* The column of the next position a scheduler launches.                   *)
LEMMA NextColumn ==
  ASSUME NEW s \in Schedulers, NEW p \in MyPositions(s), NEW x \in MyPositions(s), p < x,
         \A y \in MyPositions(s) : p < y => x <= y
  PROVE  Column(x) = IF Column(p) = my_last_worker(s) - 1 THEN my_first_worker(s)
                     ELSE Column(p) + 1
<1> DEFINE n == NumWorkers
           f == my_first_worker(s)
           l == my_last_worker(s)
           q == (p - 2) \div n
           r == (x - 2) \div n
           c == Column(p)
           d == Column(x)
<1>1. /\ p \in Nat /\ x \in Nat /\ p >= 2 /\ x >= 2 /\ x <= NumTasks - 1
      /\ c \in my_workers(s) /\ d \in my_workers(s) /\ NumTasks \in Nat
  BY Sizes DEF MyPositions, Column
<1>2. /\ f \in Nat /\ l \in Nat /\ l <= n /\ n \in Nat \ {0}
      /\ c \in Nat /\ d \in Nat /\ f <= c /\ c <= l - 1 /\ f <= d /\ d <= l - 1
  BY <1>1, Block, Sizes
<1>3. q \in Nat /\ r \in Nat /\ p - 2 = q * n + c /\ x - 2 = r * n + d
  <2>1. p - 2 \in Nat /\ x - 2 \in Nat
    BY <1>1
  <2>2. \A m \in Nat : /\ m \div n \in Nat
                       /\ m = (m \div n) * n + (m % n)
    BY <1>2, DivMod
  <2>3. q \in Nat /\ r \in Nat
    BY <2>1, <2>2
  <2>4. p - 2 = q * n + c
    BY <2>1, <2>2, Zenon DEF Column
  <2>5. x - 2 = r * n + d
    BY <2>1, <2>2, Zenon DEF Column
  <2> QED
    BY <2>3, <2>4, <2>5
<1>4. \A y \in Nat : y >= 2 /\ y <= NumTasks - 1 /\ (y - 2) % n \in f..l - 1 => y \in MyPositions(s)
  BY <1>1, Block DEF MyPositions
<1>5. \A y : Column(y) = (y - 2) % n
  BY DEF Column
<1> HIDE DEF n, f, l, q, r, c, d
<1>6. q * n \in Nat /\ r * n \in Nat
  BY <1>2, <1>3
<1>7. CASE c # l - 1
  <2> DEFINE y == p + 1
  <2>1. y - 2 = q * n + (c + 1) /\ c + 1 \in 0..n - 1 /\ c + 1 \in f..l - 1 /\ y \in Nat
    BY <1>1, <1>2, <1>3, <1>6, <1>7
  <2>2. (y - 2) % n = c + 1
    BY <1>2, <1>3, <2>1, ModOf
  <2>3. y \in MyPositions(s) /\ p < y
    BY <1>1, <1>4, <2>1, <2>2
  <2>4. x = y
    BY <1>1, <2>3
  <2>5. d = c + 1
    BY <1>5, <2>2, <2>4 DEF d
  <2> QED
    BY <1>7, <2>5 DEF c, d, l
<1>8. CASE c = l - 1
  <2> DEFINE y == p + (n - (l - 1)) + f
  <2>1. r >= q + 1
    <3> SUFFICES ASSUME r <= q PROVE FALSE
      BY <1>3
    <3>1. r * n <= q * n
      BY <1>2, <1>3, MulMono
    <3> QED
      BY <1>1, <1>2, <1>3, <1>6, <1>8, <3>1
  <2>2. (q + 1) * n <= r * n /\ (q + 1) * n = q * n + n
    BY <1>2, <1>3, <2>1, MulMono
  <2>3. y - 2 = (q + 1) * n + f /\ y \in Nat /\ y > p /\ y <= x
    BY <1>1, <1>2, <1>3, <1>6, <1>8, <2>2
  <2>4. f \in 0..n - 1 /\ f \in f..l - 1 /\ q + 1 \in Nat
    BY <1>2, <1>3
  <2>5. (y - 2) % n = f
    BY <1>2, <2>3, <2>4, ModOf
  <2>6. y \in MyPositions(s)
    BY <1>1, <1>4, <2>3, <2>4, <2>5
  <2>7. x = y
    BY <1>1, <2>3, <2>6
  <2>8. d = f
    BY <1>5, <2>5, <2>7 DEF d
  <2> QED
    BY <1>8, <2>8 DEF c, d, l, f
<1> QED
  BY <1>7, <1>8

-----------------------------------------------------------------------------
(* While a scheduler spreads the tasks of an iteration nothing else moves  *)
(* the iterations on.                                                      *)
LEMMA SpreadsAlone ==
  ASSUME IInv, NEW s \in Schedulers, Spreads(s)
  PROVE  /\ mode = "serving" /\ batches \in Nat /\ queue_idx[s] = 1
         /\ iteration_num[s] = batches /\ cur_event_pos[s][1] + 1 = batches
         /\ last_ready_event_id[BcastQueue] = batches
         /\ cur_event_pos[s][1] < last_event_pos[s][1]
         /\ todo[s] # {} /\ todo[s] \subseteq MyPositions(s)
         /\ \A t \in todo[s] : finished[t] = batches - 1
         /\ \A x \in todo[s], t \in MyPositions(s) : x <= t => t \in todo[s]
         /\ \A r \in Schedulers : ~Opens(r) /\ ~Halts(r) /\ ~Stops(r) /\ Unread(r) = {}
         /\ \A w \in Workers : ~Posts(w) /\ \A k \in Queued(w) : TaskAt(w, k).pos # 1
<1>1. /\ mode = "serving" /\ batches \in Nat /\ queue_idx[s] = 1
      /\ spc[s] \in {"launch", "launched"}
  BY LaunchesServing, Modes DEF Spreads
<1>2. /\ iteration_num[s] = batches /\ todo[s] # {} /\ todo[s] \subseteq MyPositions(s)
      /\ \A t \in todo[s] : finished[t] = batches - 1
      /\ \A x \in todo[s], t \in MyPositions(s) : x <= t => t \in todo[s]
  BY <1>1 DEF IInv, MainInv, Dealing
<1>3. cur_event_pos[s][1] + 1 = batches /\ cur_event_pos[s][1] < last_event_pos[s][1]
  BY <1>1, <1>2 DEF IInv, MainInv, SchedCursors
<1>4. last_ready_event_id[BcastQueue] = batches
  <2>1. last_ready_event_id[BcastQueue] \in {batches - 1, batches}
    BY <1>1 DEF IInv, MainInv, Broadcasts
  <2>2. cur_event_pos[s][1] < last_ready_event_id[BcastQueue] /\ cur_event_pos[s][1] \in Nat
    BY <1>3, SchedTypes
  <2> QED
    BY <1>1, <1>3, <2>1, <2>2
<1>5. finished[1] = batches /\ ~\E w \in Workers : Posts(w) /\ Posted(w) = 1
  BY <1>1, <1>4 DEF IInv, MainInv, Broadcasts
<1>6. PICK t \in GraphTasks : finished[t] = batches - 1
  BY <1>2, PositionsOfGraph
<1>7. ~AllDone
  BY <1>1, <1>6 DEF AllDone
<1>8. \A r \in Schedulers : ~Opens(r) /\ ~Halts(r) /\ ~Stops(r)
  BY <1>1, <1>5, Sizes DEF IInv, MainInv, Serving
<1>9. \A r \in Schedulers : Unread(r) = {}
  BY <1>1, <1>7, <1>8 DEF IInv, MainInv, Serving
<1>10. \A w \in Workers : ~Posts(w)
  BY <1>1, <1>5, <1>7 DEF IInv, MainInv, Serving
<1>11. \A w \in Workers : \A k \in Queued(w) : TaskAt(w, k).pos # 1
  BY <1>1, <1>4, NoBeginQueued
<1> QED
  BY <1>1, <1>2, <1>3, <1>4, <1>8, <1>9, <1>10, <1>11

(* Dealing goes on round the block of workers: the column of the next      *)
(* position and the next worker advance together.                          *)
LEMMA Rotation ==
  ASSUME NEW f \in Int, NEW l \in Int, f < l,
         NEW v \in f..l - 1, NEW c \in f..l - 1,
         NEW u \in Int, u = IF v = l - 1 THEN f ELSE v + 1,
         NEW d \in Int, d = IF c = l - 1 THEN f ELSE c + 1
  PROVE  /\ (v - c) - (u - d) \in {-(l - f), 0, l - f}
         /\ \A w \in f..l - 1, e \in f..l - 1 :
              (w - e) - (v - c) \in {-(l - f), 0, l - f}
                => (w - e) - (u - d) \in {-(l - f), 0, l - f}
<1>1. u \in f..l - 1 /\ d \in f..l - 1
  OBVIOUS
<1>2. (v - c) - (u - d) \in {-(l - f), 0, l - f}
  OBVIOUS
<1>3. ASSUME NEW w \in f..l - 1, NEW e \in f..l - 1,
             (w - e) - (v - c) \in {-(l - f), 0, l - f}
      PROVE  (w - e) - (u - d) \in {-(l - f), 0, l - f}
  BY <1>1, <1>2, <1>3
<1> QED
  BY <1>2, <1>3

(* A position further down the column of an earlier one is a row or more   *)
(* behind it.                                                              *)
LEMMA SameColumn ==
  ASSUME NEW a \in Nat, NEW b \in Nat, a >= 2, a < b, Column(a) = Column(b)
  PROVE  b - a >= NumWorkers
<1> DEFINE n == NumWorkers
           q == (a - 2) \div n
           r == (b - 2) \div n
           c == Column(a)
<1>1. n \in Nat \ {0} /\ a - 2 \in Nat /\ b - 2 \in Nat
  BY Sizes
<1>2. \A m \in Nat : m \div n \in Nat /\ m % n \in Nat /\ m = (m \div n) * n + (m % n)
  BY <1>1, DivMod
<1>3. q \in Nat /\ r \in Nat
  BY <1>1, <1>2
<1>4. a - 2 = q * n + c
  BY <1>1, <1>2, Zenon DEF Column
<1>5. b - 2 = r * n + c
  BY <1>1, <1>2, Zenon DEF Column
<1>6. c \in Nat
  BY <1>1, <1>2, Zenon DEF Column
<1> HIDE DEF q, r, c, n
<1>7. q * n \in Nat /\ r * n \in Nat
  BY <1>1, <1>3
<1>8. q + 1 <= r
  <2> SUFFICES ASSUME r <= q PROVE FALSE
    BY <1>3
  <2>1. r * n <= q * n
    BY <1>1, <1>3, MulMono
  <2> QED
    BY <1>4, <1>5, <1>6, <1>7, <2>1
<1>9. (q + 1) * n <= r * n /\ (q + 1) * n = q * n + n
  BY <1>1, <1>3, <1>8, MulMono
<1> QED
  BY <1>1, <1>4, <1>5, <1>6, <1>7, <1>9 DEF n

-----------------------------------------------------------------------------
(* The task a spreading scheduler has stored is as many rows behind those  *)
(* queued before it as there are places between them.                      *)
LEMMA RowsBehind ==
  ASSUME IInv, NEW s \in Schedulers, Spreads(s), NEW p \in todo[s], Least(p, todo[s]),
         NEW v \in my_workers(s), v = next_worker[s], NEW k \in Queued(v)
  PROVE  /\ TaskAt(v, k).pos < p
         /\ p - TaskAt(v, k).pos >= (last_ready_task_id[v] - k) * NumWorkers
<1> DEFINE z == last_ready_task_id[v]
           y == z - 1
           a == TaskAt(v, k).pos
           b == TaskAt(v, y).pos
<1>1. mode = "serving" /\ v \in Workers /\ p \in MyPositions(s) /\ p \in Nat
  BY SpreadsAlone, MyWorkersAreWorkers, PositionsOfGraph, Sizes
<1>2. k \in Nat /\ z \in Nat /\ k <= y /\ y \in Queued(v) /\ y \in Nat
  BY <1>1, WorkerTypes
<1>3. a \in MyPositions(s) /\ b \in MyPositions(s) /\ a \in Nat /\ b \in Nat /\ a >= 2 /\ b >= 2
  <2>1. TaskAt(v, k).pos # 1 /\ TaskAt(v, y).pos # 1
    BY <1>1, <1>2, SpreadsAlone
  <2>2. a \in MyPositions(s) /\ b \in MyPositions(s)
    BY <1>1, <1>2, <2>1 DEF IInv, MainInv, Tasks
  <2> QED
    BY <2>2, Sizes DEF MyPositions
<1>4. b - a >= (y - k) * NumWorkers
  <2>1. \A i, j \in Queued(v) : i <= j =>
          TaskAt(v, j).pos - TaskAt(v, i).pos >= (j - i) * NumWorkers
    BY <1>1 DEF IInv, MainInv, Tasks
  <2> HIDE DEF y
  <2> QED
    BY <1>2, <2>1
<1>5. /\ a < p /\ b < p
      /\ (v - Column(b)) - (v - Column(p)) \in {-Share(s), 0, Share(s)}
  <2>1. \A i \in Queued(v) :
            /\ TaskAt(v, i).pos < p
            /\ (v - Column(TaskAt(v, i).pos)) - (v - Column(p)) \in {-Share(s), 0, Share(s)}
    BY <1>1 DEF IInv, MainInv, Dealing
  <2> HIDE DEF y
  <2> QED
    BY <1>2, <2>1
<1> HIDE DEF a, b
<1>6. Column(b) = Column(p)
  <2>1. Column(b) \in my_workers(s) /\ Column(p) \in my_workers(s)
    BY <1>1, <1>3 DEF MyPositions, Column
  <2>2. /\ my_first_worker(s) \in Nat /\ my_last_worker(s) \in Nat
        /\ my_workers(s) = my_first_worker(s)..my_last_worker(s) - 1
    BY Block
  <2>3. v \in Nat
    BY <2>2
  <2> QED
    BY <1>5, <2>1, <2>2, <2>3 DEF Share
<1>7. p - b >= NumWorkers
  BY <1>1, <1>3, <1>5, <1>6, SameColumn
<1>8. (y - k) * NumWorkers + NumWorkers = (z - k) * NumWorkers
  <2>1. y - k \in Nat /\ z - k = (y - k) + 1 /\ NumWorkers \in Nat
    BY <1>2, Sizes
  <2>2. \A m \in Nat : m * NumWorkers + NumWorkers = (m + 1) * NumWorkers
    BY <2>1
  <2> QED
    BY <2>1, <2>2
<1>9. (y - k) * NumWorkers \in Int /\ NumWorkers \in Nat
  BY <1>2, Sizes
<1> HIDE DEF y
<1>10. p - a >= (z - k) * NumWorkers
  BY <1>1, <1>3, <1>4, <1>7, <1>8, <1>9
<1> QED
  BY <1>5, <1>10 DEF a

(* A task is published during an iteration.                                *)
LEMMA SpreadPublishInv ==
  ASSUME IInv, NEW s \in Schedulers, LaunchPublish(s), Spreads(s)
  PROVE  MainInv'
<1> USE DEF history
<1>0. PICK v : v = next_worker[s]
  OBVIOUS
<1>1. /\ spc[s] = "launched" /\ PublishTask(v)
      /\ next_worker'[s] = IF v = my_last_worker(s) - 1 THEN my_first_worker(s) ELSE v + 1
      /\ \A r \in Schedulers : r # s => next_worker'[r] = next_worker[r]
      /\ UNCHANGED <<worker_queues, sched_queues, last_ready_event_id,
                 next_free_event_id, all_event_counters, wlocals, queue_idx,
                 last_event_pos, iteration_num, sslot, launches, history>>
  BY <1>0, SchedVarTypes DEF LaunchPublish
<1>2. TypeOK' /\ OwnInv'
  BY LaunchPublishType, SchedOwn DEF IInv, MainInv, SchedStep
<1>3. /\ mode = "serving" /\ batches \in Nat /\ queue_idx[s] = 1
      /\ iteration_num[s] = batches /\ cur_event_pos[s][1] + 1 = batches
      /\ cur_event_pos[s][1] < last_event_pos[s][1]
      /\ todo[s] \subseteq MyPositions(s)
      /\ \A t \in todo[s] : finished[t] = batches - 1
      /\ \A x \in todo[s], t \in MyPositions(s) : x <= t => t \in todo[s]
      /\ \A r \in Schedulers : ~Opens(r) /\ ~Halts(r) /\ ~Stops(r) /\ Unread(r) = {}
      /\ \A w \in Workers : ~Posts(w) /\ \A k \in Queued(w) : TaskAt(w, k).pos # 1
  BY SpreadsAlone
<1>4. v \in my_workers(s) /\ v \in Workers
  BY <1>0, <1>1, MyWorkersAreWorkers DEF IInv, MainInv, OwnInv, LaunchersServe, NextWorkerOwn
<1>5. PICK p \in todo[s] : Least(p, todo[s]) /\ Begin(s, "launch", todo[s] \ {p})
  BY DEF LaunchPublish
<1>6. p \in MyPositions(s) /\ p \in GraphTasks /\ p # 1 /\ p \in Nat
  BY <1>3, PositionsOfGraph, Sizes
<1>7. /\ \A r \in Schedulers : r # s => /\ spc'[r] = spc[r] /\ todo'[r] = todo[r]
                                        /\ cur_event_pos'[r] = cur_event_pos[r]
      /\ todo'[s] = todo[s] \ {p}
      /\ cur_event_pos'[s][0] = cur_event_pos[s][0]
      /\ \/ spc'[s] = "launch" /\ UNCHANGED cur_event_pos /\ todo'[s] # {}
         \/ /\ spc'[s] = "poll" /\ todo'[s] = {}
            /\ cur_event_pos'[s][1] = cur_event_pos[s][1] + 1
  <2> DEFINE ids == todo[s] \ {p}
  <2>1. ids \in SUBSET Nat /\ Begin(s, "launch", ids)
    BY <1>5, SchedVarTypes
  <2> HIDE DEF ids, history
  <2>2. /\ \A r \in Schedulers : r # s => /\ spc'[r] = spc[r] /\ todo'[r] = todo[r]
                                          /\ cur_event_pos'[r] = cur_event_pos[r]
        /\ todo'[s] = ids
        /\ ids # {} => spc'[s] = "launch" /\ UNCHANGED cur_event_pos
        /\ ids = {} => /\ spc'[s] = "poll"
                       /\ \A i \in 0..1 : cur_event_pos'[s][i] =
                            IF i = queue_idx[s] THEN cur_event_pos[s][i] + 1
                            ELSE cur_event_pos[s][i]
    BY <2>1, BeginCases, Zenon
  <2>3. 0 \in 0..1 /\ 1 \in 0..1 /\ 0 # 1
    OBVIOUS
  <2>4. ids = {} => /\ cur_event_pos'[s][1] = cur_event_pos[s][1] + 1
                    /\ cur_event_pos'[s][0] = cur_event_pos[s][0]
    BY <1>3, <2>2, <2>3
  <2>5. todo'[s] = todo[s] \ {p}
    BY <2>2 DEF ids
  <2> QED
    BY <2>2, <2>4, <2>5
<1>8. OthersKept(s)
  BY <1>1, <1>7 DEF OthersKept
<1>9. /\ \A r \in Schedulers : ~Opens(r)' /\ ~Stops(r)' /\ ~Halts(r)'
      /\ \A r \in Schedulers : r # s => (Spreads(r)' <=> Spreads(r))
      /\ Spreads(s)' <=> spc'[s] = "launch"
  <2>1. /\ ~Opens(s)' /\ ~Stops(s)' /\ ~Halts(s)'
        /\ Spreads(s)' <=> spc'[s] = "launch"
    BY <1>1, <1>3, <1>7 DEF Opens, Stops, Halts, Spreads
  <2> QED
    BY <1>3, <1>8, <2>1, OthersRoles
<1>10. PICK z : z = last_ready_task_id[v]
  OBVIOUS
<1>11. /\ WorkerCursors' /\ PostersKept /\ SlotsKept
       /\ \A w \in Workers : /\ wpc'[w] = wpc[w] /\ Current(w)' = Current(w)
                             /\ Oldest(w)' = Oldest(w)
                             /\ (Posts(w)' <=> Posts(w)) /\ Posted(w)' = Posted(w)
                             /\ \A k : TaskAt(w, k)' = TaskAt(w, k)
                             /\ w # v => Queued(w)' = Queued(w)
                             /\ w # v => last_ready_task_id'[w] = last_ready_task_id[w]
       /\ Queued(v)' = Queued(v) \cup {z} /\ z \notin Queued(v)
       /\ z \in Nat
  BY <1>1, <1>4, <1>10, PublishesTask
<1>12. /\ TaskAt(v, z) = [iter |-> batches, pos |-> p]
       /\ TaskAt(v, z).iter = batches /\ TaskAt(v, z).pos = p
  <2>1. TaskAt(v, z) = compute_task_id(s, p)
    BY <1>0, <1>1, <1>5, <1>10 DEF IInv, MainInv, Stored
  <2>2. compute_task_id(s, p) = [iter |-> batches, pos |-> p]
    BY <1>3, <1>6 DEF compute_task_id
  <2>3. TaskAt(v, z) = [iter |-> batches, pos |-> p]
    BY <2>1, <2>2
  <2> QED
    BY <2>3
<1>13. \A w \in Workers : \A k : k \in Queued(w)' => k \in Queued(w) \/ (w = v /\ k = z)
  BY <1>11
<1>14. \A r \in Schedulers : Unread(r)' = {} /\ cur_event_pos'[r][0] = cur_event_pos[r][0]
  <2>1. \A r \in Schedulers : cur_event_pos'[r][0] = cur_event_pos[r][0]
    BY <1>7
  <2> QED
    BY <1>1, <1>3, <2>1 DEF Unread
<1>15. SchedCursors'
  <2>1. \A q \in SchedQueues : /\ last_ready_event_id'[q] \in Nat
                               /\ last_ready_event_id[q] <= last_ready_event_id'[q]
    BY <1>1 DEF IInv, MainInv, TypeOK, SharedTypeOK
  <2>2. \A i \in 0..1 : cur_event_pos'[s][i] <= last_event_pos[s][i]
    <3>1. \A i \in 0..1 : i = 0 \/ i = 1
      OBVIOUS
    <3>2. cur_event_pos'[s][0] <= last_event_pos[s][0]
      BY <1>7, SchedTypes
    <3>3. cur_event_pos'[s][1] <= last_event_pos[s][1]
      BY <1>3, <1>7, SchedTypes
    <3> QED
      BY <3>1, <3>2, <3>3
  <2>3. spc'[s] \notin {"poll", "exited"} =>
           cur_event_pos'[s] = cur_event_pos[s] /\ spc[s] \notin {"poll", "exited"}
    BY <1>1, <1>7
  <2>4. iteration_num'[s] = cur_event_pos'[s][1] + (IF Spreads(s)' THEN 1 ELSE 0)
    <3>1. iteration_num'[s] = cur_event_pos[s][1] + 1 /\ cur_event_pos[s][1] \in Nat
      BY <1>1, <1>3, SchedTypes
    <3>2. CASE spc'[s] = "launch"
      BY <1>7, <1>9, <3>1, <3>2
    <3>3. CASE spc'[s] = "poll"
      BY <1>7, <1>9, <3>1, <3>3
    <3> QED
      BY <1>7, <3>2, <3>3
  <2>5. spc'[s] \in {"stop", "stopped"} \/ Halts(s)' => queue_idx[s] = 0 /\ todo'[s] # {}
    BY <1>7, <1>9
  <2>6. UNCHANGED <<queue_idx, last_event_pos>>
    BY <1>1
  <2> QED
    BY <1>8, <2>1, <2>2, <2>3, <2>4, <2>5, <2>6, SchedCursorsStep
<1>16. Posting'
  <2>1. HaltersKept
    BY <1>3, <1>9 DEF HaltersKept
  <2> QED
    BY <1>1, <1>11, <2>1, PostingKept
<1>17. Broadcasts'
  <2>1. \A k : EventAt(BcastQueue, k)' = EventAt(BcastQueue, k)
    BY <1>1 DEF EventAt
  <2> QED
    BY <1>1, <1>11, <2>1, BroadcastsKept
<1>18. Progress'
  BY <1>1, <1>11, ProgressKept
<1>19. Serving'
  <2>1. \A w \in Workers : wpc'[w] # "exited" /\ ~Posts(w)'
    BY <1>3, <1>11 DEF IInv, MainInv, Serving
  <2>2. \A w \in Workers : \A k \in Queued(w)' : TaskAt(w, k)'.pos # 1
    BY <1>3, <1>6, <1>11, <1>12, <1>13
  <2> QED
    BY <1>9, <1>14, <2>1, <2>2 DEF Serving
<1>20. Tasks'
  <2>1. ASSUME NEW w \in Workers, NEW k \in Queued(w)'
        PROVE  /\ TaskAt(w, k)' = [iter |-> batches', pos |-> TaskAt(w, k)'.pos]
               /\ TaskAt(w, k)'.pos \in GraphTasks
               /\ finished'[TaskAt(w, k)'.pos] =
                    IF Posts(w)' /\ k = Oldest(w)' THEN batches' ELSE batches' - 1
    <3>1. ~Posts(w)' /\ ~Posts(w) /\ UNCHANGED <<batches, finished>>
      BY <1>1, <1>3, <1>11
    <3>2. CASE k \in Queued(w)
      BY <1>3, <1>11, <3>1, <3>2 DEF IInv, MainInv, Tasks
    <3>3. CASE w = v /\ k = z
      <4>1. TaskAt(v, z)' = TaskAt(v, z)
        BY <1>4, <1>11
      <4> QED
        BY <1>3, <1>6, <1>12, <3>1, <3>3, <4>1
    <3> QED
      BY <1>13, <3>2, <3>3
  <2>2. ASSUME NEW w \in Workers, NEW k \in Queued(w)', NEW l \in Queued(w)', k <= l
        PROVE  TaskAt(w, l)'.pos - TaskAt(w, k)'.pos >= (l - k) * NumWorkers
    <3>1. TaskAt(w, l)' = TaskAt(w, l) /\ TaskAt(w, k)' = TaskAt(w, k)
      BY <1>11
    <3>2. CASE k \in Queued(w) /\ l \in Queued(w)
      BY <1>3, <2>2, <3>1, <3>2 DEF IInv, MainInv, Tasks
    <3>3. CASE w = v /\ k = z /\ l = z
      <4>1. (z - z) * NumWorkers = 0 /\ p - p = 0
        BY <1>6, <1>11, Sizes
      <4> QED
        BY <1>12, <3>1, <3>3, <4>1
    <3>4. CASE w = v /\ k \in Queued(v) /\ l = z
      <4>1. p - TaskAt(v, k).pos >= (z - k) * NumWorkers
        BY <1>0, <1>4, <1>5, <1>10, <3>4, RowsBehind
      <4> QED
        BY <1>12, <3>1, <3>4, <4>1
    <3>5. ~(w = v /\ k = z /\ l \in Queued(v))
      BY <1>4, <1>10, <1>11, <2>2, WorkerTypes
    <3> QED
      BY <1>13, <3>2, <3>3, <3>4, <3>5
  <2>3. ASSUME NEW w \in Workers, w # v, NEW l \in Queued(w), TaskAt(w, l).pos = p
        PROVE  FALSE
    <3>1. PICK r \in Schedulers : w \in my_workers(r)
      BY EachOwned
    <3>2. TaskAt(w, l).pos \in MyPositions(r)
      BY <1>3, <3>1 DEF IInv, MainInv, Tasks
    <3>3. r = s
      BY <1>6, <2>3, <3>2, PositionsApart
    <3>4. TaskAt(w, l).pos < p
      BY <1>3, <1>5, <3>1, <3>3 DEF IInv, MainInv, Dealing
    <3> QED
      BY <1>6, <2>3, <3>4
  <2>4. ASSUME NEW w \in Workers, NEW u \in Workers, NEW k \in Queued(w)', NEW l \in Queued(u)',
               TaskAt(w, k)'.pos = TaskAt(u, l)'.pos
        PROVE  w = u
    <3>1. TaskAt(u, l)' = TaskAt(u, l) /\ TaskAt(w, k)' = TaskAt(w, k)
      BY <1>11
    <3>2. CASE k \in Queued(w) /\ l \in Queued(u)
      BY <1>3, <2>4, <3>1, <3>2 DEF IInv, MainInv, Tasks
    <3>3. CASE w = v /\ k = z /\ l \in Queued(u)
      BY <1>12, <2>3, <2>4, <3>1, <3>3
    <3>4. CASE u = v /\ l = z /\ k \in Queued(w)
      BY <1>12, <2>3, <2>4, <3>1, <3>4
    <3> QED
      BY <1>13, <3>2, <3>3, <3>4
  <2>5. ASSUME NEW r \in Schedulers, NEW w \in my_workers(r), NEW k \in Queued(w)'
        PROVE  TaskAt(w, k)'.pos \in MyPositions(r) /\ iteration_num'[r] = batches'
    <3>1. w \in Workers
      BY MyWorkersAreWorkers
    <3>2. TaskAt(w, k)' = TaskAt(w, k) /\ UNCHANGED <<batches, iteration_num>>
      BY <1>1, <1>11, <3>1
    <3>3. CASE k \in Queued(w)
      BY <1>3, <3>1, <3>2, <3>3 DEF IInv, MainInv, Tasks
    <3>4. CASE w = v /\ k = z
      <4>1. r = s
        BY <1>4, <3>4, BlocksApart
      <4> QED
        BY <1>3, <1>6, <1>12, <3>2, <3>4, <4>1
    <3> QED
      BY <1>13, <3>1, <3>3, <3>4
  <2>6. \A r : my_workers(r)' = my_workers(r) /\ MyPositions(r)' = MyPositions(r)
    BY DEF my_workers, MyPositions
  <2> QED
    BY <2>1, <2>2, <2>4, <2>5, <2>6 DEF Tasks
<1>21. Dealing'
  <2> SUFFICES ASSUME mode = "serving", NEW r \in Schedulers, Spreads(r)'
             PROVE  /\ iteration_num'[r] = batches'
                    /\ todo'[r] # {} /\ todo'[r] \subseteq MyPositions(r)
                    /\ \A t \in todo'[r] : finished'[t] = batches' - 1
                    /\ \A x \in todo'[r], t \in MyPositions(r) : x <= t => t \in todo'[r]
                    /\ \A w \in my_workers(r) : \A k \in Queued(w)', x \in todo'[r] :
                         /\ TaskAt(w, k)'.pos < x
                         /\ Least(x, todo'[r]) =>
                              (w - Column(TaskAt(w, k)'.pos)) - (next_worker'[r] - Column(x))
                                \in {-Share(r), 0, Share(r)}
    BY <1>1 DEF Dealing, MyPositions, my_workers, Column, Share, my_last_worker, my_first_worker, Least
  <2>1. CASE r # s
    <3>1. Spreads(r)
      BY <1>9, <2>1
    <3>2. /\ todo'[r] = todo[r] /\ next_worker'[r] = next_worker[r]
          /\ iteration_num'[r] = iteration_num[r]
      BY <1>1, <1>7, <2>1
    <3>3. \A w \in my_workers(r) : /\ Queued(w)' \subseteq Queued(w)
                                   /\ \A k \in Queued(w)' : TaskAt(w, k)' = TaskAt(w, k)
      BY <1>4, <1>11, <2>1, BlocksApart, MyWorkersAreWorkers
    <3>4. UNCHANGED <<batches, finished>>
      BY <1>1
    <3> QED
      BY <3>1, <3>2, <3>3, <3>4, DealingStep
  <2>2. CASE r = s
    <3>1. spc'[s] = "launch" /\ todo'[s] # {}
      BY <1>7, <1>9, <2>2
    <3>2. /\ todo'[s] \subseteq MyPositions(s) /\ todo'[s] \subseteq todo[s]
          /\ \A t \in todo'[s] : finished'[t] = batches' - 1
          /\ \A t \in todo'[s] : p < t /\ t \in Nat
      <4>1. todo'[s] = todo[s] \ {p} /\ todo[s] \subseteq MyPositions(s)
        BY <1>3, <1>7
      <4>2. \A t \in todo'[s] : finished'[t] = batches' - 1
        BY <1>1, <1>3, <4>1
      <4>3. ASSUME NEW t \in todo'[s] PROVE p < t /\ t \in Nat
        <5>1. t \in todo[s] /\ t # p /\ t \in Nat
          BY <4>1, SchedVarTypes
        <5>2. p <= t
          BY <1>5, <5>1 DEF Least
        <5> QED
          BY <1>6, <5>1, <5>2
      <4> QED
        BY <4>1, <4>2, <4>3
    <3>3. \A t \in MyPositions(s) : p < t => t \in todo'[s]
      <4> SUFFICES ASSUME NEW t \in MyPositions(s), p < t PROVE t \in todo'[s]
        OBVIOUS
      <4>1. t \in Nat
        BY PositionsOfGraph, Sizes
      <4>2. p <= t /\ p # t
        BY <1>6, <4>1
      <4>3. t \in todo[s]
        BY <1>3, <1>5, <4>2
      <4> QED
        BY <1>7, <4>2, <4>3
    <3>4. \A x \in todo'[s], t \in MyPositions(s) : x <= t => t \in todo'[s]
      <4> SUFFICES ASSUME NEW x \in todo'[s], NEW t \in MyPositions(s), x <= t
                   PROVE  t \in todo'[s]
        OBVIOUS
      <4>1. t \in Nat /\ x \in Nat /\ p < x
        BY <3>2, PositionsOfGraph, Sizes
      <4> QED
        BY <1>6, <3>3, <4>1
    <3>5. ASSUME NEW w \in my_workers(s), NEW k \in Queued(w)', NEW x \in todo'[s]
          PROVE  /\ TaskAt(w, k)'.pos < x
                 /\ Least(x, todo'[s]) =>
                      (w - Column(TaskAt(w, k)'.pos)) - (next_worker'[s] - Column(x))
                        \in {-Share(s), 0, Share(s)}
      <4> DEFINE e == TaskAt(w, k)'.pos
      <4>1. w \in Workers /\ TaskAt(w, k)' = TaskAt(w, k)
        BY <1>11, MyWorkersAreWorkers
      <4>2. e < x
        <5>1. CASE k \in Queued(w)
          BY <1>3, <3>2, <4>1, <5>1 DEF IInv, MainInv, Dealing
        <5>2. CASE w = v /\ k = z
          BY <1>12, <3>2, <4>1, <5>2
        <5> QED
          BY <1>13, <4>1, <5>1, <5>2
      <4>3. e \in MyPositions(s)
        <5>1. CASE k \in Queued(w)
          BY <1>3, <4>1, <5>1 DEF IInv, MainInv, Tasks
        <5>2. CASE w = v /\ k = z
          BY <1>6, <1>12, <4>1, <5>2
        <5> QED
          BY <1>13, <4>1, <5>1, <5>2
      <4>4. \/ (w - Column(e)) - (v - Column(p)) \in {-Share(s), 0, Share(s)}
            \/ w = v /\ Column(e) = Column(p)
        <5>1. CASE k \in Queued(w)
          BY <1>0, <1>3, <1>5, <4>1, <5>1 DEF IInv, MainInv, Dealing
        <5>2. CASE w = v /\ k = z
          BY <1>12, <4>1, <5>2
        <5> QED
          BY <1>13, <4>1, <5>1, <5>2
      <4> HIDE DEF e
      <4>5. ASSUME Least(x, todo'[s])
            PROVE  (w - Column(e)) - (next_worker'[s] - Column(x)) \in {-Share(s), 0, Share(s)}
        <5> DEFINE f == my_first_worker(s)
                   l == my_last_worker(s)
                   u == next_worker'[s]
                   c == Column(p)
                   d == Column(x)
                   g == Column(e)
        <5>1. f \in Nat /\ l \in Nat /\ my_workers(s) = f..l - 1
          BY Block
        <5>2. d = IF c = l - 1 THEN f ELSE c + 1
          <6>1. \A y \in MyPositions(s) : p < y => x <= y
            BY <3>3, <4>5 DEF Least
          <6>2. x \in MyPositions(s) /\ p < x
            BY <3>2
          <6> QED
            BY <1>6, <6>1, <6>2, NextColumn
        <5>3. u = IF v = l - 1 THEN f ELSE v + 1
          BY <1>1
        <5>4. c \in f..l - 1 /\ g \in f..l - 1 /\ v \in f..l - 1 /\ w \in f..l - 1
          BY <1>4, <1>6, <4>3, <5>1 DEF MyPositions, Column
        <5> HIDE DEF f, l, u, c, d, g
        <5>5. f < l /\ u \in Int /\ d \in Int
          BY <5>1, <5>2, <5>3, <5>4
        <5>6. /\ (v - c) - (u - d) \in {-(l - f), 0, l - f}
              /\ (w - g) - (v - c) \in {-(l - f), 0, l - f}
                   => (w - g) - (u - d) \in {-(l - f), 0, l - f}
          BY <5>1, <5>2, <5>3, <5>4, <5>5, Rotation
        <5>7. Share(s) = l - f
          BY DEF Share, l, f
        <5>8. \/ (w - g) - (v - c) \in {-(l - f), 0, l - f}
              \/ w = v /\ g = c
          BY <4>4, <5>7 DEF c, g
        <5>9. (w - g) - (u - d) \in {-(l - f), 0, l - f}
          BY <5>6, <5>8
        <5> QED
          BY <5>7, <5>9 DEF g, u, d
      <4> QED
        BY <4>2, <4>5 DEF e
    <3> QED
      BY <1>1, <1>3, <2>2, <3>1, <3>2, <3>4, <3>5
  <2> QED
    BY <2>1, <2>2
<1>22. Stored'
  <2>1. spc'[s] # "launched" /\ \A r \in Schedulers : spc'[r] # "stopped"
    BY <1>7, <1>9 DEF Stops
  <2> QED
    BY <1>0, <1>1, <1>4, <1>7, <1>11, <2>1, PublishStored
<1>23. Draining' /\ Idling'
  BY <1>1, <1>3 DEF Draining, Idling
<1> QED
  BY <1>2, <1>11, <1>15, <1>16, <1>17, <1>18, <1>19, <1>20, <1>21, <1>22, <1>23,
     DimensionedKept DEF IInv, MainInv

LEMMA LaunchPublishInv ==
  ASSUME IInv, NEW s \in Schedulers, LaunchPublish(s)
  PROVE  MainInv'
<1>1. Opens(s) \/ Spreads(s)
  BY LaunchesServing DEF LaunchPublish
<1> QED
  BY <1>1, OpenPublishInv, SpreadPublishInv

-----------------------------------------------------------------------------
(* What the schedulers that terminate the others have still to do, after a *)
(* step that leaves the event queues' unread part alone.                   *)
LEMMA HaltingKept ==
  ASSUME IInv, mode = "drained",
         \A r \in Schedulers : /\ (Halts(r)' <=> Halts(r))
                               /\ Halts(r) => todo'[r] = todo[r]
                               /\ cur_event_pos'[r][0] = cur_event_pos[r][0]
                               /\ Unread(r)' = Unread(r),
         \A r \in Schedulers : \A k \in Unread(r) : EventAt(r, k)' = EventAt(r, k)
  PROVE  \A r \in Schedulers :
           IF Halts(r)'
           THEN /\ cur_event_pos'[r][0] \in Unread(r)'
                /\ EventAt(r, cur_event_pos[r][0])' = EndEvent
                /\ todo'[r] \subseteq Schedulers
                /\ \A x \in todo'[r] :
                     Unread(x)' \subseteq (IF x = r THEN {cur_event_pos'[r][0]} ELSE {})
                /\ Unread(r)' \subseteq cur_event_pos'[r][0]..cur_event_pos'[r][0] + 1
                /\ cur_event_pos'[r][0] + 1 \in Unread(r)' => EventAt(r, cur_event_pos[r][0] + 1)' = 0
           ELSE /\ Unread(r)' \subseteq {cur_event_pos'[r][0]}
                /\ Unread(r)' # {} => EventAt(r, cur_event_pos[r][0])' = 0
<1> SUFFICES ASSUME NEW r \in Schedulers
             PROVE  IF Halts(r)'
           THEN /\ cur_event_pos'[r][0] \in Unread(r)'
                /\ EventAt(r, cur_event_pos[r][0])' = EndEvent
                /\ todo'[r] \subseteq Schedulers
                /\ \A x \in todo'[r] :
                     Unread(x)' \subseteq (IF x = r THEN {cur_event_pos'[r][0]} ELSE {})
                /\ Unread(r)' \subseteq cur_event_pos'[r][0]..cur_event_pos'[r][0] + 1
                /\ cur_event_pos'[r][0] + 1 \in Unread(r)' => EventAt(r, cur_event_pos[r][0] + 1)' = 0
           ELSE /\ Unread(r)' \subseteq {cur_event_pos'[r][0]}
                /\ Unread(r)' # {} => EventAt(r, cur_event_pos[r][0])' = 0
  OBVIOUS
<1>1. IF Halts(r)
      THEN /\ cur_event_pos[r][0] \in Unread(r)
           /\ EventAt(r, cur_event_pos[r][0]) = EndEvent
           /\ todo[r] \subseteq Schedulers
           /\ \A x \in todo[r] :
                Unread(x) \subseteq (IF x = r THEN {cur_event_pos[r][0]} ELSE {})
           /\ Unread(r) \subseteq cur_event_pos[r][0]..cur_event_pos[r][0] + 1
           /\ cur_event_pos[r][0] + 1 \in Unread(r) => EventAt(r, cur_event_pos[r][0] + 1) = 0
      ELSE /\ Unread(r) \subseteq {cur_event_pos[r][0]}
           /\ Unread(r) # {} => EventAt(r, cur_event_pos[r][0]) = 0
  BY DEF IInv, MainInv, Draining
<1>2. /\ (Halts(r)' <=> Halts(r)) /\ Halts(r) => todo'[r] = todo[r]
      /\ cur_event_pos'[r][0] = cur_event_pos[r][0] /\ Unread(r)' = Unread(r)
      /\ \A k \in Unread(r) : sched_queues'[r][k % per_sched_queue_len] = EventAt(r, k)
  BY DEF EventAt
<1>3. /\ EventAt(r, cur_event_pos[r][0])' =
           sched_queues'[r][cur_event_pos[r][0] % per_sched_queue_len]
      /\ EventAt(r, cur_event_pos[r][0] + 1)' =
           sched_queues'[r][(cur_event_pos[r][0] + 1) % per_sched_queue_len]
  BY <1>2 DEF EventAt
<1>4. CASE Halts(r)
  <2>1. cur_event_pos[r][0] \in Unread(r) => EventAt(r, cur_event_pos[r][0])' =
           EventAt(r, cur_event_pos[r][0])
    BY <1>2, <1>3
  <2>2. cur_event_pos[r][0] + 1 \in Unread(r) => EventAt(r, cur_event_pos[r][0] + 1)' =
           EventAt(r, cur_event_pos[r][0] + 1)
    BY <1>2, <1>3
  <2>3. \A x \in todo'[r] :
          Unread(x)' \subseteq (IF x = r THEN {cur_event_pos'[r][0]} ELSE {})
    BY <1>1, <1>2, <1>4
  <2> QED
    BY <1>1, <1>2, <1>4, <2>1, <2>2, <2>3
<1>5. CASE ~Halts(r)
  <2>1. Unread(r) # {} => EventAt(r, cur_event_pos[r][0])' = 0
    BY <1>1, <1>2, <1>3, <1>5
  <2> QED
    BY <1>1, <1>2, <1>5, <2>1
<1> QED
  BY <1>4, <1>5

(* A terminate task is published.                                          *)
LEMMA StopPublishInv ==
  ASSUME IInv, NEW s \in Schedulers, StopPublish(s)
  PROVE  MainInv'
<1> USE DEF history
<1>1. PICK v \in todo[s] : /\ Least(v, todo[s]) /\ PublishTask(v)
                           /\ todo' = [todo EXCEPT ![s] = @ \ {v}]
                           /\ spc' = [spc EXCEPT ![s] = IF todo[s] = {v} THEN "exited" ELSE "stop"]
  BY DEF StopPublish
<1>2. /\ spc[s] = "stopped"
      /\ UNCHANGED <<worker_queues, sched_queues, last_ready_event_id,
                 next_free_event_id, all_event_counters, wlocals, queue_idx,
                 cur_event_pos, last_event_pos, iteration_num, next_worker,
                 sslot, launches, history>>
  BY DEF StopPublish
<1>3. TypeOK' /\ OwnInv'
  BY StopPublishType, SchedOwn DEF IInv, MainInv, SchedStep
<1>4. mode = "drained" /\ mode' = "drained"
  BY <1>2, StopsDrained
<1>5. \A r \in Schedulers : spc[r] \in {"stop", "stopped"} => todo[r] \subseteq my_workers(r)
  BY DEF IInv, MainInv, OwnInv, LaunchersServe
<1>6. v \in Workers /\ v \in my_workers(s)
  BY <1>1, <1>2, <1>5, MyWorkersAreWorkers
<1>7. /\ spc'[s] = IF todo[s] = {v} THEN "exited" ELSE "stop"
      /\ todo'[s] = todo[s] \ {v} /\ v \notin todo'[s]
      /\ \A r \in Schedulers : r # s => spc'[r] = spc[r] /\ todo'[r] = todo[r]
  BY <1>1, SchedVarTypes
<1>8. OthersKept(s)
  BY <1>2, <1>7 DEF OthersKept
<1>9. /\ \A r \in Schedulers : (Stops(r)' <=> Stops(r)) /\ (Halts(r)' <=> Halts(r))
      /\ Stops(s) /\ ~Halts(s) /\ ~Spreads(s) /\ ~Spreads(s)'
  <2>1. Stops(s) /\ Stops(s)' /\ ~Halts(s) /\ ~Halts(s)' /\ ~Spreads(s) /\ ~Spreads(s)'
    BY <1>2, <1>7 DEF Stops, Halts, Spreads
  <2> QED
    BY <1>8, <2>1, OthersRoles
<1>10. PICK z : z = last_ready_task_id[v]
  OBVIOUS
<1>11. /\ WorkerCursors' /\ PostersKept /\ SlotsKept
       /\ \A w \in Workers : /\ wpc'[w] = wpc[w] /\ Current(w)' = Current(w)
                             /\ Oldest(w)' = Oldest(w)
                             /\ (Posts(w)' <=> Posts(w)) /\ Posted(w)' = Posted(w)
                             /\ \A k : TaskAt(w, k)' = TaskAt(w, k)
                             /\ w # v => Queued(w)' = Queued(w)
                             /\ w # v => last_ready_task_id'[w] = last_ready_task_id[w]
       /\ Queued(v)' = Queued(v) \cup {z}
       /\ z \in Nat
  BY <1>1, <1>2, <1>6, <1>10, PublishesTask
<1>12. /\ Queued(v) = {} /\ z = Oldest(v) /\ TaskAt(v, z) = TerminateTask
  <2>1. Queued(v) = {}
    BY <1>1, <1>4, <1>6 DEF IInv, MainInv, Draining
  <2>2. z = Oldest(v)
    BY <1>6, <1>10, <2>1, WorkerTypes
  <2>3. TaskAt(v, z) = TerminateTask
    BY <1>1, <1>2, <1>10 DEF IInv, MainInv, Stored
  <2> QED
    BY <2>1, <2>2, <2>3
<1>13. SchedCursors'
  <2>1. \A q \in SchedQueues : /\ last_ready_event_id'[q] \in Nat
                               /\ last_ready_event_id[q] <= last_ready_event_id'[q]
    BY <1>2 DEF IInv, MainInv, TypeOK, SharedTypeOK
  <2>2. \A i \in 0..1 : cur_event_pos'[s][i] <= last_event_pos[s][i]
    BY <1>2, SchedTypes
  <2>3. spc'[s] \notin {"poll", "exited"} =>
           cur_event_pos'[s] = cur_event_pos[s] /\ spc[s] \notin {"poll", "exited"}
    BY <1>2
  <2>4. iteration_num'[s] = cur_event_pos'[s][1] + (IF Spreads(s)' THEN 1 ELSE 0)
    BY <1>2, <1>9 DEF IInv, MainInv, SchedCursors
  <2>5. spc'[s] \in {"stop", "stopped"} \/ Halts(s)' => queue_idx[s] = 0 /\ todo'[s] # {}
    <3>1. queue_idx[s] = 0
      BY <1>2 DEF IInv, MainInv, SchedCursors
    <3>2. spc'[s] = "stop" => todo'[s] # {}
      BY <1>1, <1>7
    <3> QED
      BY <1>7, <1>9, <3>1, <3>2
  <2>6. UNCHANGED <<queue_idx, last_event_pos>>
    BY <1>2
  <2> QED
    BY <1>8, <2>1, <2>2, <2>3, <2>4, <2>5, <2>6, SchedCursorsStep
<1>14. Posting'
  <2>1. HaltersKept
    BY <1>8, <1>9 DEF HaltersKept, OthersKept
  <2> QED
    BY <1>2, <1>11, <2>1, PostingKept
<1>15. Broadcasts'
  <2>1. \A k : EventAt(BcastQueue, k)' = EventAt(BcastQueue, k)
    BY <1>2 DEF EventAt
  <2> QED
    BY <1>2, <1>11, <2>1, BroadcastsKept
<1>16. Progress'
  BY <1>2, <1>11, ProgressKept
<1>17. Serving' /\ Tasks' /\ Dealing' /\ Idling'
  BY <1>4 DEF Serving, Tasks, Dealing, Idling
<1>18. Stored'
  <2>1. ASSUME NEW r \in Schedulers, spc'[r] = "stopped",
               NEW x \in todo'[r], Least(x, todo'[r])
        PROVE  TaskAt(x, last_ready_task_id[x])' = TerminateTask
    <3>1. r # s /\ spc[r] = "stopped" /\ todo'[r] = todo[r]
      BY <1>7, <2>1
    <3>2. x \in todo[r] /\ Least(x, todo[r])
      BY <2>1, <3>1 DEF Least
    <3>3. x \in Workers /\ x # v
      BY <1>5, <1>6, <3>1, <3>2, BlocksApart, MyWorkersAreWorkers
    <3>4. TaskAt(x, last_ready_task_id[x]) = TerminateTask
      BY <3>1, <3>2 DEF IInv, MainInv, Stored
    <3> QED
      BY <1>2, <1>11, <3>3, <3>4 DEF TaskAt
  <2>2. \A r \in Schedulers : spc'[r] # "launched"
    BY <1>4, <1>7 DEF IInv, MainInv, Draining
  <2> QED
    BY <2>1, <2>2 DEF Stored
<1>19. Draining'
  <2>1. AllDone'
    BY <1>2, <1>4 DEF IInv, MainInv, Draining, AllDone
  <2>2. ASSUME NEW w \in Workers
        PROVE  /\ ~Posts(w)'
               /\ Queued(w)' # {} => /\ Queued(w)' = {Oldest(w)'}
                                     /\ TaskAt(w, Oldest(w))' = TerminateTask
               /\ wpc'[w] = "exited" => Queued(w)' # {}
    <3>1. TaskAt(w, Oldest(w))' = TaskAt(w, Oldest(w)) /\ Oldest(w)' = Oldest(w)
      BY <1>2, <1>11 DEF TaskAt
    <3>2. CASE w = v
      BY <1>4, <1>11, <1>12, <3>1, <3>2 DEF IInv, MainInv, Draining
    <3>3. CASE w # v
      BY <1>4, <1>11, <3>1, <3>3 DEF IInv, MainInv, Draining
    <3> QED
      BY <3>2, <3>3
  <2>3. \A r \in Schedulers : /\ Unread(r)' = Unread(r) /\ cur_event_pos'[r][0] = cur_event_pos[r][0]
                              /\ \A k : EventAt(r, k)' = EventAt(r, k)
    BY <1>2 DEF Unread, EventAt
  <2>4. ASSUME NEW r \in Schedulers
        PROVE  /\ spc'[r] \notin {"launch", "launched"}
               /\ Stops(r)' => Unread(r)' # {}
               /\ \A w \in my_workers(r) : Queued(w)' # {} => Stops(r)' /\ w \notin todo'[r]
    <3>1. spc'[r] \notin {"launch", "launched"}
      BY <1>4, <1>7 DEF IInv, MainInv, Draining
    <3>2. Stops(r)' => Unread(r)' # {}
      BY <1>4, <1>9, <2>3 DEF IInv, MainInv, Draining
    <3>3. ASSUME NEW w \in my_workers(r), Queued(w)' # {} PROVE Stops(r)' /\ w \notin todo'[r]
      <4>1. w \in Workers
        BY MyWorkersAreWorkers
      <4>2. CASE w = v
        <5>1. r = s
          BY <1>6, <4>2, BlocksApart
        <5> QED
          BY <1>7, <1>9, <4>2, <5>1
      <4>3. CASE w # v
        <5>1. Stops(r) /\ w \notin todo[r]
          BY <1>4, <1>11, <3>3, <4>1, <4>3 DEF IInv, MainInv, Draining
        <5>2. todo'[r] \subseteq todo[r]
          BY <1>7
        <5> QED
          BY <1>9, <5>1, <5>2
      <4> QED
        BY <4>2, <4>3
    <3> QED
      BY <3>1, <3>2, <3>3
  <2>5. \A r \in Schedulers :
           IF Halts(r)'
           THEN /\ cur_event_pos'[r][0] \in Unread(r)'
                /\ EventAt(r, cur_event_pos[r][0])' = EndEvent
                /\ todo'[r] \subseteq Schedulers
                /\ \A x \in todo'[r] :
                     Unread(x)' \subseteq (IF x = r THEN {cur_event_pos'[r][0]} ELSE {})
                /\ Unread(r)' \subseteq cur_event_pos'[r][0]..cur_event_pos'[r][0] + 1
                /\ cur_event_pos'[r][0] + 1 \in Unread(r)' => EventAt(r, cur_event_pos[r][0] + 1)' = 0
           ELSE /\ Unread(r)' \subseteq {cur_event_pos'[r][0]}
                /\ Unread(r)' # {} => EventAt(r, cur_event_pos[r][0])' = 0
    <3>1. \A r \in Schedulers : Halts(r) => todo'[r] = todo[r]
      BY <1>7, <1>9
    <3> QED
      BY <1>4, <1>9, <2>3, <3>1, HaltingKept
  <2>6. \A r : my_workers(r)' = my_workers(r)
    BY DEF my_workers
  <2> QED
    BY <2>1, <2>2, <2>4, <2>5, <2>6 DEF Draining
<1> QED
  BY <1>3, <1>11, <1>13, <1>14, <1>15, <1>16, <1>17, <1>18, <1>19, DimensionedKept DEF IInv, MainInv

-----------------------------------------------------------------------------
(* The scheduler that terminates the others is the only one to post.       *)
LEMMA HaltsAlone ==
  ASSUME IInv, NEW s \in Schedulers, Halts(s), NEW q \in todo[s], Least(q, todo[s])
  PROVE  /\ mode = "drained" /\ queue_idx[s] = 0
         /\ todo[s] \subseteq Schedulers /\ q \in Nat
         /\ q \in Schedulers /\ q \in SchedQueues /\ q # BcastQueue
         /\ \A w \in Workers : ~Posts(w)
         /\ \A r \in Schedulers : Halts(r) => r = s
         /\ \A x : HaltsAt(s, x) <=> spc[s] \in {"haltStore", "haltPublish"} /\ x = q
         /\ \A x \in SchedQueues : next_free_event_id[x] = last_ready_event_id[x] +
              (IF spc[s] \in {"haltStore", "haltPublish"} /\ x = q THEN 1 ELSE 0)
         /\ cur_event_pos[s][0] \in Unread(s) /\ cur_event_pos[s][0] < last_event_pos[s][0]
         /\ EventAt(s, cur_event_pos[s][0]) = EndEvent
         /\ \A r \in todo[s] : Unread(r) \subseteq (IF r = s THEN {cur_event_pos[s][0]} ELSE {})
         /\ Unread(s) \subseteq cur_event_pos[s][0]..cur_event_pos[s][0] + 1
         /\ cur_event_pos[s][0] + 1 \in Unread(s) => EventAt(s, cur_event_pos[s][0] + 1) = 0
<1>1. mode = "drained"
  BY StopsDrained
<1>2. /\ cur_event_pos[s][0] \in Unread(s)
      /\ EventAt(s, cur_event_pos[s][0]) = EndEvent
      /\ todo[s] \subseteq Schedulers
      /\ \A r \in todo[s] : Unread(r) \subseteq (IF r = s THEN {cur_event_pos[s][0]} ELSE {})
      /\ Unread(s) \subseteq cur_event_pos[s][0]..cur_event_pos[s][0] + 1
      /\ cur_event_pos[s][0] + 1 \in Unread(s) => EventAt(s, cur_event_pos[s][0] + 1) = 0
      /\ \A w \in Workers : ~Posts(w)
  BY <1>1 DEF IInv, MainInv, Draining
<1>3. q \in Schedulers /\ q \in SchedQueues /\ q # BcastQueue /\ q \in Nat
  BY <1>2, QueueOfOwn, SchedVarTypes
<1>4. queue_idx[s] = 0 /\ cur_event_pos[s][0] < last_event_pos[s][0]
  BY DEF IInv, MainInv, SchedCursors, Halts
<1>5. \A r \in Schedulers : Halts(r) => r = s
  BY DEF IInv, MainInv, Posting
<1>6. \A x : HaltsAt(s, x) <=> spc[s] \in {"haltStore", "haltPublish"} /\ x = q
  BY <1>3, SchedVarTypes, LeastUnique DEF HaltsAt
<1>7. \A r \in Schedulers, x \in SchedQueues : HaltsAt(r, x) => r = s
  BY <1>5 DEF HaltsAt, Halts
<1>8. \A w \in Workers, x \in SchedQueues : ~PostsAt(w, x)
  BY <1>2 DEF PostsAt, Posts
<1>9. ASSUME NEW x \in SchedQueues
      PROVE  next_free_event_id[x] = last_ready_event_id[x] +
               (IF spc[s] \in {"haltStore", "haltPublish"} /\ x = q THEN 1 ELSE 0)
  <2>1. next_free_event_id[x] = last_ready_event_id[x] +
          (IF (\E w \in Workers : PostsAt(w, x)) \/ (\E r \in Schedulers : HaltsAt(r, x))
           THEN 1 ELSE 0)
    BY DEF IInv, MainInv, Posting
  <2>2. (\E w \in Workers : PostsAt(w, x)) \/ (\E r \in Schedulers : HaltsAt(r, x))
          <=> spc[s] \in {"haltStore", "haltPublish"} /\ x = q
    BY <1>6, <1>7, <1>8
  <2> QED
    BY <2>1, <2>2
<1> QED
  BY <1>1, <1>2, <1>3, <1>4, <1>5, <1>6, <1>9

LEMMA HaltPosting ==
  ASSUME NEW s \in Schedulers,
         \A w \in Workers : ~Posts(w)',
         \A r \in Schedulers : Halts(r)' => r = s,
         \A x \in SchedQueues : next_free_event_id'[x] = last_ready_event_id'[x] +
           (IF HaltsAt(s, x)' THEN 1 ELSE 0),
         \A x \in SchedQueues : HaltsAt(s, x)' =>
           /\ sslot'[s] = last_ready_event_id'[x]
           /\ spc'[s] = "haltPublish" => EventAt(x, sslot[s])' = 0
  PROVE  Posting'
<1>1. \A w \in Workers : wpc'[w] \notin {"store", "publish"} /\ \A x : ~PostsAt(w, x)'
  BY DEF Posts, PostsAt
<1>2. \A r \in Schedulers : \A x : HaltsAt(r, x)' => r = s
  BY DEF HaltsAt, Halts
<1>3. \A x \in SchedQueues : next_free_event_id'[x] = last_ready_event_id'[x] +
        (IF (\E w \in Workers : PostsAt(w, x)') \/ (\E r \in Schedulers : HaltsAt(r, x)')
         THEN 1 ELSE 0)
  <2> TAKE x \in SchedQueues
  <2>1. (\E w \in Workers : PostsAt(w, x)') \/ (\E r \in Schedulers : HaltsAt(r, x)')
          <=> HaltsAt(s, x)'
    BY <1>1, <1>2
  <2> QED
    BY <2>1
<1>4. ASSUME NEW r \in Schedulers, NEW x \in SchedQueues, HaltsAt(r, x)'
      PROVE  /\ sslot'[r] = last_ready_event_id'[x]
             /\ spc'[r] = "haltPublish" => EventAt(x, sslot[r])' = 0
  BY <1>2, <1>4
<1> QED
  BY <1>1, <1>3, <1>4 DEF Posting

(* What is left to show of a step of the termination of the schedulers.    *)
LEMMA HaltInv ==
  ASSUME IInv, NEW s \in Schedulers, mode = "drained", TypeOK', OwnInv',
         SchedCursors', Posting', OthersKept(s), Halts(s), ~Stops(s)',
         spc'[s] \notin {"launch", "launched", "stopped"},
         UNCHANGED <<worker_queues, last_ready_task_id, all_event_counters, wlocals,
                     iteration_num, next_worker, next_free_task_pos, launches, history>>,
         last_ready_event_id'[BcastQueue] = last_ready_event_id[BcastQueue],
         \A k : EventAt(BcastQueue, k)' = EventAt(BcastQueue, k),
         \A r \in Schedulers : r # s /\ Unread(r) # {} => Unread(r)' # {},
         \A r \in Schedulers :
           IF Halts(r)'
           THEN /\ cur_event_pos'[r][0] \in Unread(r)'
                /\ EventAt(r, cur_event_pos[r][0])' = EndEvent
                /\ todo'[r] \subseteq Schedulers
                /\ \A x \in todo'[r] :
                     Unread(x)' \subseteq (IF x = r THEN {cur_event_pos'[r][0]} ELSE {})
                /\ Unread(r)' \subseteq cur_event_pos'[r][0]..cur_event_pos'[r][0] + 1
                /\ cur_event_pos'[r][0] + 1 \in Unread(r)' => EventAt(r, cur_event_pos[r][0] + 1)' = 0
           ELSE /\ Unread(r)' \subseteq {cur_event_pos'[r][0]}
                /\ Unread(r)' # {} => EventAt(r, cur_event_pos[r][0])' = 0
  PROVE  MainInv'
<1> USE DEF history
<1>1. /\ WorkerCursors' /\ PostersKept /\ QueuesKept
      /\ \A w \in Workers : /\ wpc'[w] = wpc[w] /\ Current(w)' = Current(w)
                            /\ Queued(w)' = Queued(w) /\ Oldest(w)' = Oldest(w)
                            /\ (Posts(w)' <=> Posts(w))
                            /\ \A k : TaskAt(w, k)' = TaskAt(w, k)
  <2> HIDE DEF history
  <2> QED
    BY WorkersKept
<1>2. Broadcasts'
  BY <1>1, BroadcastsKept
<1>3. Progress'
  BY <1>1, ProgressKept
<1>4. Serving' /\ Tasks' /\ Dealing' /\ Idling'
  BY DEF Serving, Tasks, Dealing, Idling
<1>5. \A r \in Schedulers : r # s => (Stops(r)' <=> Stops(r)) /\ todo'[r] = todo[r] /\ spc'[r] = spc[r]
  BY OthersRoles DEF OthersKept
<1>6. Stored'
  <2>1. \A r \in Schedulers :
          /\ spc'[r] = "launched" => spc[r] = "launched" /\ todo'[r] = todo[r]
          /\ spc'[r] = "stopped" => spc[r] = "stopped" /\ todo'[r] = todo[r]
    BY <1>5
  <2> QED
    BY <2>1 DEF IInv, MainInv, Stored, TaskAt, Least, compute_task_id
<1>7. Draining'
  <2>1. AllDone'
    BY DEF IInv, MainInv, Draining, AllDone
  <2>2. \A w \in Workers :
          /\ ~Posts(w)'
          /\ Queued(w)' # {} => /\ Queued(w)' = {Oldest(w)'}
                                /\ TaskAt(w, Oldest(w))' = TerminateTask
          /\ wpc'[w] = "exited" => Queued(w)' # {}
    <3> TAKE w \in Workers
    <3>1. TaskAt(w, Oldest(w))' = TaskAt(w, Oldest(w))
      BY <1>1 DEF TaskAt
    <3> QED
      BY <1>1, <3>1 DEF IInv, MainInv, Draining
  <2>3. ~Stops(s)
    BY DEF Stops, Halts
  <2>4. \A r \in Schedulers : /\ spc'[r] \notin {"launch", "launched"}
                              /\ Stops(r)' => Unread(r)' # {}
    BY <1>5 DEF IInv, MainInv, Draining
  <2>5. \A r \in Schedulers : \A w \in my_workers(r) :
          Queued(w)' # {} => Stops(r)' /\ w \notin todo'[r]
    <3> TAKE r \in Schedulers
    <3>1. CASE r = s
      BY <1>1, <2>3, <3>1, MyWorkersAreWorkers DEF IInv, MainInv, Draining
    <3>2. CASE r # s
      BY <1>1, <1>5, <3>2, MyWorkersAreWorkers DEF IInv, MainInv, Draining
    <3> QED
      BY <3>1, <3>2
  <2>6. \A r : my_workers(r)' = my_workers(r)
    BY DEF my_workers
  <2> QED
    BY <2>1, <2>2, <2>4, <2>5, <2>6 DEF Draining
<1> QED
  BY <1>1, <1>2, <1>3, <1>4, <1>6, <1>7, DimensionedKept DEF IInv, MainInv

LEMMA HaltReserveInv ==
  ASSUME IInv, NEW s \in Schedulers, HaltReserve(s)
  PROVE  MainInv'
<1> USE DEF history
<1>1. PICK q \in todo[s] : /\ Least(q, todo[s])
                           /\ sslot' = [sslot EXCEPT ![s] = next_free_event_id[q]]
                           /\ next_free_event_id' = [next_free_event_id EXCEPT ![q] = @ + 1]
  BY DEF HaltReserve
<1>2. /\ spc[s] = "halt" /\ spc' = [spc EXCEPT ![s] = "haltStore"]
      /\ UNCHANGED <<worker_queues, last_ready_task_id, sched_queues,
                 last_ready_event_id, all_event_counters, wlocals, queue_idx,
                 cur_event_pos, last_event_pos, iteration_num, next_worker,
                 next_free_task_pos, todo, launches, history>>
  BY DEF HaltReserve
<1>3. TypeOK' /\ OwnInv'
  BY HaltReserveType, SchedOwn DEF IInv, MainInv, SchedStep
<1>4. Halts(s) /\ spc[s] \notin {"haltStore", "haltPublish"}
  BY <1>2 DEF Halts
<1>5. /\ mode = "drained" /\ q \in Schedulers /\ q \in SchedQueues /\ q # BcastQueue
      /\ \A w \in Workers : ~Posts(w)
      /\ \A r \in Schedulers : Halts(r) => r = s
      /\ \A x \in SchedQueues : next_free_event_id[x] = last_ready_event_id[x]
  <2>1. /\ mode = "drained" /\ q \in Schedulers /\ q \in SchedQueues /\ q # BcastQueue
        /\ \A w \in Workers : ~Posts(w)
        /\ \A r \in Schedulers : Halts(r) => r = s
        /\ \A x \in SchedQueues : next_free_event_id[x] = last_ready_event_id[x] +
             (IF spc[s] \in {"haltStore", "haltPublish"} /\ x = q THEN 1 ELSE 0)
    BY <1>1, <1>4, HaltsAlone
  <2>2. \A x \in SchedQueues : last_ready_event_id[x] \in Nat
    BY DEF IInv, MainInv, TypeOK, SharedTypeOK
  <2> QED
    BY <1>4, <2>1, <2>2
<1>6. /\ SchedCursors' /\ OthersKept(s)
      /\ \A r \in Schedulers : /\ (Stops(r)' <=> Stops(r)) /\ (Halts(r)' <=> Halts(r))
  <2>1. \A x \in SchedQueues : /\ last_ready_event_id'[x] \in Nat
                               /\ last_ready_event_id[x] <= last_ready_event_id'[x]
    BY <1>2 DEF IInv, MainInv, TypeOK, SharedTypeOK
  <2>2. /\ todo'[s] # {}
        /\ \A r \in Schedulers : r # s => todo'[r] = todo[r] /\ sslot'[r] = sslot[r]
        /\ UNCHANGED <<queue_idx, cur_event_pos, last_event_pos, iteration_num>>
    BY <1>1, <1>2, SchedVarTypes
  <2>3. spc' = [spc EXCEPT ![s] = "haltStore"]
    BY <1>2
  <2> QED
    BY <1>4, <2>1, <2>2, <2>3, SameCursors
<1>7. /\ next_free_event_id \in [SchedQueues -> Nat] /\ sslot \in [Schedulers -> Nat]
      /\ spc'[s] = "haltStore"
  BY <1>2, SchedVarTypes DEF IInv, MainInv, TypeOK, SharedTypeOK
<1>8. Posting'
  <2>1. \A w \in Workers : ~Posts(w)'
    BY <1>2, <1>5 DEF Posts, wlocals
  <2>2. \A r \in Schedulers : Halts(r)' => r = s
    BY <1>5, <1>6
  <2>3. \A x : HaltsAt(s, x)' <=> x = q
    <3>1. q \in Nat /\ todo[s] \in SUBSET Nat
      BY SchedVarTypes
    <3>2. \A x : HaltsAt(s, x)' <=> x \in todo[s] /\ Least(x, todo[s])
      BY <1>2, <1>7 DEF HaltsAt, Least
    <3> QED
      BY <1>1, <3>1, <3>2, LeastUnique
  <2>4. \A x \in SchedQueues : next_free_event_id'[x] = last_ready_event_id'[x] +
          (IF HaltsAt(s, x)' THEN 1 ELSE 0)
    <3> TAKE x \in SchedQueues
    <3>1. CASE x = q
      BY <1>1, <1>2, <1>5, <1>7, <2>3, <3>1
    <3>2. CASE x # q
      BY <1>1, <1>2, <1>5, <1>7, <2>3, <3>2
    <3> QED
      BY <3>1, <3>2
  <2>5. \A x \in SchedQueues : HaltsAt(s, x)' =>
           /\ sslot'[s] = last_ready_event_id'[x]
           /\ spc'[s] = "haltPublish" => EventAt(x, sslot[s])' = 0
    BY <1>1, <1>2, <1>5, <1>7, <2>3
  <2> QED
    BY <2>1, <2>2, <2>4, <2>5, HaltPosting
<1>9. \A r \in SchedQueues : Unread(r)' = Unread(r) /\ \A k : EventAt(r, k)' = EventAt(r, k)
  BY <1>2 DEF Unread, EventAt
<1>10. /\ \A r \in Schedulers : Unread(r)' = Unread(r) /\ \A k : EventAt(r, k)' = EventAt(r, k)
       /\ \A k : EventAt(BcastQueue, k)' = EventAt(BcastQueue, k)
  BY <1>9, QueueOfOwn
<1>11. \A r \in Schedulers :
           IF Halts(r)'
           THEN /\ cur_event_pos'[r][0] \in Unread(r)'
                /\ EventAt(r, cur_event_pos[r][0])' = EndEvent
                /\ todo'[r] \subseteq Schedulers
                /\ \A x \in todo'[r] :
                     Unread(x)' \subseteq (IF x = r THEN {cur_event_pos'[r][0]} ELSE {})
                /\ Unread(r)' \subseteq cur_event_pos'[r][0]..cur_event_pos'[r][0] + 1
                /\ cur_event_pos'[r][0] + 1 \in Unread(r)' => EventAt(r, cur_event_pos[r][0] + 1)' = 0
           ELSE /\ Unread(r)' \subseteq {cur_event_pos'[r][0]}
                /\ Unread(r)' # {} => EventAt(r, cur_event_pos[r][0])' = 0
  BY <1>2, <1>5, <1>6, <1>10, HaltingKept
<1>12. ~Stops(s)' /\ spc'[s] \notin {"launch", "launched", "stopped"}
  BY <1>7 DEF Stops
<1>13. last_ready_event_id'[BcastQueue] = last_ready_event_id[BcastQueue]
  BY <1>2
<1> HIDE DEF history
<1> QED
  BY <1>2, <1>3, <1>4, <1>5, <1>6, <1>8, <1>10, <1>11, <1>12, <1>13, HaltInv

LEMMA HaltStoreInv ==
  ASSUME IInv, NEW s \in Schedulers, HaltStore(s)
  PROVE  MainInv'
<1> USE DEF history
<1> DEFINE L == per_sched_queue_len
<1>1. PICK q \in todo[s] : /\ Least(q, todo[s])
                           /\ sched_queues' = [sched_queues EXCEPT ![q][sslot[s] % L] = 0]
  BY DEF HaltStore
<1>2. /\ spc[s] = "haltStore" /\ spc' = [spc EXCEPT ![s] = "haltPublish"]
      /\ UNCHANGED <<worker_queues, last_ready_task_id, last_ready_event_id,
                 next_free_event_id, all_event_counters, wlocals, queue_idx,
                 cur_event_pos, last_event_pos, iteration_num, next_worker,
                 next_free_task_pos, todo, sslot, launches, history>>
  BY DEF HaltStore
<1>3. TypeOK' /\ OwnInv'
  BY HaltStoreType, SchedOwn DEF IInv, MainInv, SchedStep
<1>4. Halts(s) /\ spc[s] \in {"haltStore", "haltPublish"}
  BY <1>2 DEF Halts
<1>5. /\ mode = "drained" /\ q \in Schedulers /\ q \in SchedQueues /\ q # BcastQueue
      /\ \A w \in Workers : ~Posts(w)
      /\ \A r \in Schedulers : Halts(r) => r = s
      /\ \A x : HaltsAt(s, x) <=> x = q
      /\ \A x \in SchedQueues : next_free_event_id[x] = last_ready_event_id[x] +
           (IF x = q THEN 1 ELSE 0)
      /\ Unread(q) \subseteq (IF q = s THEN {cur_event_pos[s][0]} ELSE {})
  BY <1>1, <1>4, HaltsAlone
<1>6. sslot[s] = last_ready_event_id[q]
  BY <1>5 DEF IInv, MainInv, Posting
<1>7. /\ SchedCursors' /\ OthersKept(s)
      /\ \A r \in Schedulers : /\ (Stops(r)' <=> Stops(r)) /\ (Halts(r)' <=> Halts(r))
  <2>1. \A x \in SchedQueues : /\ last_ready_event_id'[x] \in Nat
                               /\ last_ready_event_id[x] <= last_ready_event_id'[x]
    BY <1>2 DEF IInv, MainInv, TypeOK, SharedTypeOK
  <2>2. /\ todo'[s] # {}
        /\ \A r \in Schedulers : r # s => todo'[r] = todo[r] /\ sslot'[r] = sslot[r]
        /\ UNCHANGED <<queue_idx, cur_event_pos, last_event_pos, iteration_num>>
    BY <1>1, <1>2, SchedVarTypes
  <2>3. spc' = [spc EXCEPT ![s] = "haltPublish"]
    BY <1>2
  <2> QED
    BY <1>4, <2>1, <2>2, <2>3, SameCursors
<1>8. /\ sched_queues \in [SchedQueues -> [0..L - 1 -> Events \cup {Undefined}]]
      /\ last_ready_event_id[q] \in Nat /\ L \in Nat \ {0} /\ L > 2
      /\ spc'[s] = "haltPublish" /\ last_ready_event_id[q] % L \in 0..L - 1
  <2>1. last_ready_event_id[q] \in Nat /\ L \in Nat \ {0}
    BY <1>5, SchedTypes, Sizes
  <2> QED
    BY <1>2, <2>1, SchedVarTypes, RingIndex
       DEF IInv, MainInv, TypeOK, SharedTypeOK, Rings, Dimensioned
<1>9. /\ \A x \in SchedQueues : x # q => \A k : EventAt(x, k)' = EventAt(x, k)
      /\ EventAt(q, last_ready_event_id[q])' = 0
      /\ \A k : k % L # last_ready_event_id[q] % L => EventAt(q, k)' = EventAt(q, k)
  BY <1>1, <1>2, <1>5, <1>6, <1>8 DEF EventAt
<1>10. \A k \in Unread(q) : EventAt(q, k)' = EventAt(q, k)
  <2> SUFFICES ASSUME NEW k \in Unread(q) PROVE EventAt(q, k)' = EventAt(q, k)
    OBVIOUS
  <2>1. k = cur_event_pos[q][0] /\ Unread(q) = {k}
    BY <1>5
  <2>2. k \in Nat /\ k < last_ready_event_id[q]
    BY <1>5, SchedTypes
  <2>3. last_ready_event_id[q] < k + L
    <3>1. last_ready_event_id[q] - 1 \in Unread(q)
      <4>1. \A j : j \in Unread(q) <=> j \in Nat /\ k <= j /\ j < last_ready_event_id[q]
        BY <1>5, <2>1, SchedTypes
      <4> QED
        BY <1>8, <2>2, <4>1
    <3> QED
      BY <1>8, <2>1, <2>2, <3>1
  <2>4. k % L # last_ready_event_id[q] % L
    BY <1>8, <2>2, <2>3, RingApart
  <2> QED
    BY <1>9, <2>4
<1>11. Posting'
  <2>1. \A w \in Workers : ~Posts(w)'
    BY <1>2, <1>5 DEF Posts, wlocals
  <2>2. \A r \in Schedulers : Halts(r)' => r = s
    BY <1>5, <1>7
  <2>3. \A x : HaltsAt(s, x)' <=> x = q
    <3>1. \A x : HaltsAt(s, x)' <=> HaltsAt(s, x)
      BY <1>2, <1>8 DEF HaltsAt, Least
    <3> QED
      BY <1>5, <3>1
  <2>4. \A x \in SchedQueues : next_free_event_id'[x] = last_ready_event_id'[x] +
          (IF HaltsAt(s, x)' THEN 1 ELSE 0)
    BY <1>2, <1>5, <2>3
  <2>5. \A x \in SchedQueues : HaltsAt(s, x)' =>
           /\ sslot'[s] = last_ready_event_id'[x]
           /\ spc'[s] = "haltPublish" => EventAt(x, sslot[s])' = 0
    <3>1. EventAt(q, sslot[s])' = 0
      BY <1>2, <1>6, <1>9 DEF EventAt
    <3> QED
      BY <1>2, <1>6, <2>3, <3>1
  <2> QED
    BY <2>1, <2>2, <2>4, <2>5, HaltPosting
<1>12. /\ \A r \in Schedulers : Unread(r)' = Unread(r)
       /\ \A k : EventAt(BcastQueue, k)' = EventAt(BcastQueue, k)
       /\ \A r \in Schedulers : \A k \in Unread(r) : EventAt(r, k)' = EventAt(r, k)
  <2>1. \A r \in Schedulers : Unread(r)' = Unread(r)
    BY <1>2 DEF Unread
  <2> QED
    BY <1>5, <1>9, <1>10, <2>1, QueueOfOwn
<1>13. \A r \in Schedulers :
           IF Halts(r)'
           THEN /\ cur_event_pos'[r][0] \in Unread(r)'
                /\ EventAt(r, cur_event_pos[r][0])' = EndEvent
                /\ todo'[r] \subseteq Schedulers
                /\ \A x \in todo'[r] :
                     Unread(x)' \subseteq (IF x = r THEN {cur_event_pos'[r][0]} ELSE {})
                /\ Unread(r)' \subseteq cur_event_pos'[r][0]..cur_event_pos'[r][0] + 1
                /\ cur_event_pos'[r][0] + 1 \in Unread(r)' => EventAt(r, cur_event_pos[r][0] + 1)' = 0
           ELSE /\ Unread(r)' \subseteq {cur_event_pos'[r][0]}
                /\ Unread(r)' # {} => EventAt(r, cur_event_pos[r][0])' = 0
  BY <1>2, <1>5, <1>7, <1>12, HaltingKept
<1>14. ~Stops(s)' /\ spc'[s] \notin {"launch", "launched", "stopped"}
  BY <1>8 DEF Stops
<1>15. last_ready_event_id'[BcastQueue] = last_ready_event_id[BcastQueue]
  BY <1>2
<1> HIDE DEF history
<1> QED
  BY <1>2, <1>3, <1>4, <1>5, <1>7, <1>11, <1>12, <1>13, <1>14, <1>15, HaltInv

LEMMA HaltPublishInv ==
  ASSUME IInv, NEW s \in Schedulers, HaltPublish(s)
  PROVE  MainInv'
<1> USE DEF history
<1>1. PICK q \in todo[s] : /\ Least(q, todo[s]) /\ last_ready_event_id[q] = sslot[s]
                           /\ last_ready_event_id' = [last_ready_event_id EXCEPT ![q] = sslot[s] + 1]
                           /\ Begin(s, "halt", todo[s] \ {q})
  BY DEF HaltPublish
<1>2. /\ spc[s] = "haltPublish"
      /\ UNCHANGED <<worker_queues, last_ready_task_id, sched_queues,
                 next_free_event_id, all_event_counters, wlocals, queue_idx,
                 last_event_pos, iteration_num, next_worker,
                 next_free_task_pos, sslot, launches, history>>
  BY DEF HaltPublish
<1>3. TypeOK' /\ OwnInv'
  BY HaltPublishType, SchedOwn DEF IInv, MainInv, SchedStep
<1>4. Halts(s) /\ spc[s] \in {"haltStore", "haltPublish"}
  BY <1>2 DEF Halts
<1>5. /\ mode = "drained" /\ queue_idx[s] = 0
      /\ todo[s] \subseteq Schedulers
      /\ q \in Schedulers /\ q \in SchedQueues /\ q # BcastQueue
      /\ \A w \in Workers : ~Posts(w)
      /\ \A r \in Schedulers : Halts(r) => r = s
      /\ \A x : HaltsAt(s, x) <=> x = q
      /\ \A x \in SchedQueues : next_free_event_id[x] = last_ready_event_id[x] +
           (IF x = q THEN 1 ELSE 0)
      /\ cur_event_pos[s][0] \in Unread(s) /\ cur_event_pos[s][0] < last_event_pos[s][0]
      /\ EventAt(s, cur_event_pos[s][0]) = EndEvent
      /\ \A r \in todo[s] : Unread(r) \subseteq (IF r = s THEN {cur_event_pos[s][0]} ELSE {})
      /\ Unread(s) \subseteq cur_event_pos[s][0]..cur_event_pos[s][0] + 1
      /\ cur_event_pos[s][0] + 1 \in Unread(s) => EventAt(s, cur_event_pos[s][0] + 1) = 0
  BY <1>1, <1>4, HaltsAlone
<1>6. EventAt(q, last_ready_event_id[q]) = 0
  BY <1>1, <1>2, <1>5 DEF IInv, MainInv, Posting
<1>7. /\ \A r \in Schedulers : r # s => /\ spc'[r] = spc[r] /\ todo'[r] = todo[r]
                                        /\ cur_event_pos'[r] = cur_event_pos[r]
      /\ todo'[s] = todo[s] \ {q}
      /\ cur_event_pos'[s][1] = cur_event_pos[s][1]
      /\ \/ spc'[s] = "halt" /\ UNCHANGED cur_event_pos /\ todo'[s] # {}
         \/ /\ spc'[s] = "poll" /\ todo'[s] = {}
            /\ cur_event_pos'[s][0] = cur_event_pos[s][0] + 1
  <2> DEFINE ids == todo[s] \ {q}
  <2>1. ids \in SUBSET Nat /\ Begin(s, "halt", ids)
    BY <1>1, SchedVarTypes
  <2> HIDE DEF ids, history
  <2>2. /\ \A r \in Schedulers : r # s => /\ spc'[r] = spc[r] /\ todo'[r] = todo[r]
                                          /\ cur_event_pos'[r] = cur_event_pos[r]
        /\ todo'[s] = ids
        /\ ids # {} => spc'[s] = "halt" /\ UNCHANGED cur_event_pos
        /\ ids = {} => /\ spc'[s] = "poll"
                       /\ \A i \in 0..1 : cur_event_pos'[s][i] =
                            IF i = queue_idx[s] THEN cur_event_pos[s][i] + 1
                            ELSE cur_event_pos[s][i]
    BY <2>1, BeginCases, Zenon
  <2>3. 0 \in 0..1 /\ 1 \in 0..1 /\ 0 # 1
    OBVIOUS
  <2>4. ids = {} => /\ cur_event_pos'[s][0] = cur_event_pos[s][0] + 1
                    /\ cur_event_pos'[s][1] = cur_event_pos[s][1]
    BY <1>5, <2>2, <2>3
  <2>5. todo'[s] = todo[s] \ {q}
    BY <2>2 DEF ids
  <2> QED
    BY <2>2, <2>4, <2>5
<1>8. OthersKept(s)
  BY <1>2, <1>7 DEF OthersKept
<1>9. /\ \A r \in Schedulers : Halts(r)' => r = s
      /\ Halts(s)' <=> spc'[s] = "halt"
      /\ ~Stops(s)' /\ ~Spreads(s) /\ ~Spreads(s)'
      /\ spc'[s] \notin {"launch", "launched", "stopped", "stop"}
  <2>1. /\ Halts(s)' <=> spc'[s] = "halt"
        /\ ~Stops(s)' /\ ~Spreads(s) /\ ~Spreads(s)'
        /\ spc'[s] \notin {"launch", "launched", "stopped", "stop"}
    BY <1>2, <1>7 DEF Halts, Stops, Spreads
  <2> QED
    BY <1>5, <1>8, <2>1, OthersRoles
<1>10. /\ \A x \in SchedQueues : last_ready_event_id[x] \in Nat
       /\ last_ready_event_id'[q] = last_ready_event_id[q] + 1
       /\ \A x \in SchedQueues : x # q => last_ready_event_id'[x] = last_ready_event_id[x]
  BY <1>1, <1>5 DEF IInv, MainInv, TypeOK, SharedTypeOK
<1>11. SchedCursors'
  <2>1. \A x \in SchedQueues : /\ last_ready_event_id'[x] \in Nat
                               /\ last_ready_event_id[x] <= last_ready_event_id'[x]
    BY <1>10
  <2>2. \A i \in 0..1 : cur_event_pos'[s][i] <= last_event_pos[s][i]
    <3>1. \A i \in 0..1 : i = 0 \/ i = 1
      OBVIOUS
    <3>2. cur_event_pos'[s][0] <= last_event_pos[s][0]
      BY <1>5, <1>7, SchedTypes
    <3>3. cur_event_pos'[s][1] <= last_event_pos[s][1]
      BY <1>7, SchedTypes
    <3> QED
      BY <3>1, <3>2, <3>3
  <2>3. spc'[s] \notin {"poll", "exited"} =>
           cur_event_pos'[s] = cur_event_pos[s] /\ spc[s] \notin {"poll", "exited"}
    BY <1>2, <1>7
  <2>4. iteration_num'[s] = cur_event_pos'[s][1] + (IF Spreads(s)' THEN 1 ELSE 0)
    BY <1>2, <1>7, <1>9 DEF IInv, MainInv, SchedCursors
  <2>5. spc'[s] \in {"stop", "stopped"} \/ Halts(s)' => queue_idx[s] = 0 /\ todo'[s] # {}
    BY <1>5, <1>7, <1>9
  <2>6. UNCHANGED <<queue_idx, last_event_pos>>
    BY <1>2
  <2> QED
    BY <1>8, <2>1, <2>2, <2>3, <2>4, <2>5, <2>6, SchedCursorsStep
<1>12. Posting'
  <2>1. \A w \in Workers : ~Posts(w)'
    BY <1>2, <1>5 DEF Posts, wlocals
  <2>2. \A x : ~HaltsAt(s, x)'
    BY <1>7 DEF HaltsAt
  <2>3. \A x \in SchedQueues : next_free_event_id'[x] = last_ready_event_id'[x] +
          (IF HaltsAt(s, x)' THEN 1 ELSE 0)
    BY <1>2, <1>5, <1>10, <2>2
  <2> QED
    BY <1>9, <2>1, <2>2, <2>3, HaltPosting
<1>13. \A x, k : EventAt(x, k)' = EventAt(x, k)
  BY <1>2 DEF EventAt
<1>14. \A r \in Schedulers : r # s =>
         Unread(r)' = IF r = q THEN {cur_event_pos[q][0]} ELSE Unread(r)
  <2> SUFFICES ASSUME NEW r \in Schedulers, r # s
               PROVE  Unread(r)' = IF r = q THEN {cur_event_pos[q][0]} ELSE Unread(r)
    OBVIOUS
  <2>1. Unread(r)' = cur_event_pos[r][0]..last_ready_event_id'[r] - 1
    BY <1>7 DEF Unread
  <2>2. CASE r # q
    BY <1>10, <2>1, <2>2, QueueOfOwn DEF Unread
  <2>3. CASE r = q
    <3>1. Unread(q) = {} /\ cur_event_pos[q][0] \in Nat /\ last_ready_event_id[q] \in Nat
      BY <1>5, <2>3, SchedTypes
    <3>2. cur_event_pos[q][0] = last_ready_event_id[q]
      <4>1. cur_event_pos[q][0] <= last_ready_event_id[q]
        BY <1>5, SchedTypes
      <4>2. ~(cur_event_pos[q][0] < last_ready_event_id[q])
        BY <1>5, <3>1, SchedTypes
      <4> QED
        BY <3>1, <4>1, <4>2
    <3>3. cur_event_pos[q][0]..(last_ready_event_id[q] + 1) - 1 = {cur_event_pos[q][0]}
      BY <3>1, <3>2
    <3> QED
      BY <1>10, <2>1, <2>3, <3>3
  <2> QED
    BY <2>2, <2>3
<1>15. q # s => EventAt(q, cur_event_pos[q][0]) = 0
  <2>1. ASSUME q # s PROVE cur_event_pos[q][0] = last_ready_event_id[q]
    <3>1. Unread(q) = {}
      BY <1>5, <2>1
    <3>2. cur_event_pos[q][0] <= last_ready_event_id[q]
      BY <1>5, SchedTypes
    <3>3. ~(cur_event_pos[q][0] < last_ready_event_id[q])
      BY <1>5, <3>1, SchedTypes
    <3>4. cur_event_pos[q][0] \in Nat /\ last_ready_event_id[q] \in Nat
      BY <1>5, SchedTypes
    <3> QED
      BY <3>2, <3>3, <3>4
  <2> QED
    BY <1>6, <2>1
<1>16. PICK c \in Nat : c = cur_event_pos[s][0]
  BY SchedTypes
<1>17. PICK n \in Nat : n = last_ready_event_id[s]
  BY SchedTypes
<1>18. /\ c < n /\ n <= c + 2
       /\ q = s => n = c + 1
       /\ n = c + 2 => EventAt(s, c + 1) = 0
       /\ \A k : k \in Unread(s) <=> k \in Nat /\ c <= k /\ k < n
  <2>1. \A k : k \in Unread(s) <=> k \in Nat /\ c <= k /\ k < n
    BY <1>16, <1>17, SchedTypes
  <2>2. c < n
    BY <1>5, <1>16, <2>1
  <2>3. n - 1 \in Unread(s)
    BY <2>1, <2>2
  <2>4. n - 1 \in c..c + 1
    BY <1>5, <1>16, <2>3
  <2>5. q = s => n - 1 = c
    BY <1>5, <1>16, <2>3
  <2>6. n = c + 2 => EventAt(s, c + 1) = 0
    BY <1>5, <1>16, <2>3
  <2> QED
    BY <2>1, <2>2, <2>4, <2>5, <2>6
<1>19. PICK m \in Nat : m = last_ready_event_id'[s]
  BY <1>10, QueueOfOwn
<1>20. /\ m \in {c + 1, c + 2}
       /\ m = c + 2 => EventAt(s, c + 1) = 0
  <2>1. CASE q = s
    BY <1>6, <1>10, <1>17, <1>18, <1>19, <2>1
  <2>2. CASE q # s
    BY <1>10, <1>17, <1>18, <1>19, <2>2, QueueOfOwn
  <2> QED
    BY <2>1, <2>2
<1>21. /\ cur_event_pos'[s][0] = c => \A k : k \in Unread(s)' <=> k \in Nat /\ c <= k /\ k < m
       /\ cur_event_pos'[s][0] = c + 1 => \A k : k \in Unread(s)' <=> k \in Nat /\ c + 1 <= k /\ k < m
  BY <1>19 DEF Unread
<1>22. ASSUME NEW r \in Schedulers
       PROVE IF Halts(r)'
           THEN /\ cur_event_pos'[r][0] \in Unread(r)'
                /\ EventAt(r, cur_event_pos[r][0])' = EndEvent
                /\ todo'[r] \subseteq Schedulers
                /\ \A x \in todo'[r] :
                     Unread(x)' \subseteq (IF x = r THEN {cur_event_pos'[r][0]} ELSE {})
                /\ Unread(r)' \subseteq cur_event_pos'[r][0]..cur_event_pos'[r][0] + 1
                /\ cur_event_pos'[r][0] + 1 \in Unread(r)' => EventAt(r, cur_event_pos[r][0] + 1)' = 0
           ELSE /\ Unread(r)' \subseteq {cur_event_pos'[r][0]}
                /\ Unread(r)' # {} => EventAt(r, cur_event_pos[r][0])' = 0
  <2>1. CASE r # s
    <3>1. ~Halts(r) /\ ~Halts(r)' /\ cur_event_pos'[r][0] = cur_event_pos[r][0]
      BY <1>5, <1>7, <1>9, <2>1
    <3>2. /\ Unread(r) \subseteq {cur_event_pos[r][0]}
          /\ Unread(r) # {} => EventAt(r, cur_event_pos[r][0]) = 0
      BY <1>5, <3>1 DEF IInv, MainInv, Draining
    <3>3. EventAt(r, cur_event_pos[r][0])' = EventAt(r, cur_event_pos[r][0])
      BY <1>2, <3>1 DEF EventAt
    <3>4. CASE r = q
      BY <1>14, <1>15, <2>1, <3>1, <3>3, <3>4
    <3>5. CASE r # q
      BY <1>14, <2>1, <3>1, <3>2, <3>3, <3>5
    <3> QED
      BY <3>4, <3>5
  <2>2. CASE r = s /\ spc'[s] = "halt"
    <3>1. cur_event_pos'[s][0] = c /\ Halts(s)'
      BY <1>7, <1>9, <1>16, <2>2
    <3>2. \A k : k \in Unread(s)' <=> k \in Nat /\ c <= k /\ k < m
      BY <1>21, <3>1
    <3>3. c \in Unread(s)' /\ Unread(s)' \subseteq c..c + 1 /\ (c + 1 \in Unread(s)' => m = c + 2)
      BY <1>20, <3>2
    <3>4. /\ EventAt(s, cur_event_pos[s][0])' = EventAt(s, c)
          /\ EventAt(s, cur_event_pos[s][0] + 1)' = EventAt(s, c + 1)
      BY <1>2, <3>1 DEF EventAt
    <3>5. ASSUME NEW x \in todo'[s]
          PROVE  Unread(x)' \subseteq (IF x = s THEN {c} ELSE {})
      <4>1. x \in todo[s] /\ x # q /\ x \in Schedulers
        BY <1>5, <1>7
      <4>2. Unread(x) \subseteq (IF x = s THEN {c} ELSE {})
        BY <1>5, <1>16, <4>1
      <4>3. CASE x = s
        <5>1. m = n
          BY <1>10, <1>17, <1>19, <4>1, <4>3, QueueOfOwn
        <5>2. \A k : k \in Unread(s)' <=> k \in Unread(s)
          BY <1>18, <3>2, <5>1
        <5> QED
          BY <4>2, <4>3, <5>2
      <4>4. CASE x # s
        BY <1>14, <4>1, <4>2, <4>4
      <4> QED
        BY <4>3, <4>4
    <3>6. todo'[s] \subseteq Schedulers
      BY <1>5, <1>7
    <3> QED
      BY <1>5, <1>16, <1>20, <2>2, <3>1, <3>3, <3>4, <3>5, <3>6
  <2>3. CASE r = s /\ spc'[s] = "poll"
    <3>1. cur_event_pos'[s][0] = c + 1 /\ ~Halts(s)'
      BY <1>7, <1>9, <1>16, <2>3
    <3>2. \A k : k \in Unread(s)' <=> k \in Nat /\ c + 1 <= k /\ k < m
      BY <1>21, <3>1
    <3>3. Unread(s)' \subseteq {c + 1} /\ (Unread(s)' # {} => m = c + 2)
      BY <1>20, <3>2
    <3>4. EventAt(s, cur_event_pos[s][0])' = EventAt(s, c + 1)
      BY <1>2, <3>1 DEF EventAt
    <3> QED
      BY <1>20, <2>3, <3>1, <3>3, <3>4
  <2> QED
    BY <1>7, <2>1, <2>2, <2>3
<1>23. \A r \in Schedulers : r # s /\ Unread(r) # {} => Unread(r)' # {}
  BY <1>14
<1>24. last_ready_event_id'[BcastQueue] = last_ready_event_id[BcastQueue]
  BY <1>5, <1>10, QueueOfOwn
<1>25. \A k : EventAt(BcastQueue, k)' = EventAt(BcastQueue, k)
  BY <1>13
<1> HIDE DEF history
<1> QED
  BY <1>2, <1>3, <1>4, <1>5, <1>8, <1>9, <1>11, <1>12, <1>22, <1>23, <1>24, <1>25, HaltInv

LEMMA SchedInv ==
  ASSUME IInv, NEW s \in Schedulers, SchedStep(s)
  PROVE  MainInv'
BY SchedPollInv, ReadTerminationInv, ReadEndInv, ReadLaunchInv, LaunchStoreInv, LaunchPublishInv,
   StopStoreInv, StopPublishInv, HaltReserveInv, HaltStoreInv, HaltPublishInv DEF SchedStep

-----------------------------------------------------------------------------
(* The invariant holds initially, and every step keeps it.                 *)
LEMMA NoTriggersYet ==
  /\ \A e : num_triggers(e) \in Nat /\ (0 - 1) * num_triggers(e) + num_triggers(e) = 0
  /\ \A t \in GraphTasks : Producers[t] \subseteq GraphTasks
<1>1. IsFiniteSet(GraphTasks)
  BY Sizes, FS_Interval DEF GraphTasks
<1>2. ASSUME NEW e
      PROVE  num_triggers(e) \in Nat
  <2>1. IsFiniteSet({t \in GraphTasks : trigger_event[t] = e})
    BY <1>1, FS_Subset
  <2> QED
    BY <2>1, FS_CardinalityType DEF num_triggers
<1>3. \A n \in Nat : (0 - 1) * n + n = 0
  OBVIOUS
<1>4. \A e : (0 - 1) * num_triggers(e) + num_triggers(e) = 0
  BY <1>2, <1>3
<1>5. \A t \in GraphTasks : Producers[t] \subseteq GraphTasks
  BY Sizes DEF Producers
<1> QED
  BY <1>2, <1>4, <1>5

LEMMA InitInv == Dimensioned /\ Init => IInv
<1> SUFFICES ASSUME Dimensioned, Init PROVE IInv
  OBVIOUS
<1>1. TypeOK /\ OwnInv
  BY InitType, InitOwn
<1>2. /\ \A w \in Workers : /\ wpc[w] = "exited" /\ task_ids[w] = <<>>
                            /\ last_ready_task_id[w] = 0 /\ next_free_task_pos[w] = 0
                            /\ next_task_pos[w] = 0 /\ last_task_pos[w] = 0
      /\ \A s \in Schedulers : /\ spc[s] = "exited" /\ iteration_num[s] = 0
                               /\ \A i \in 0..1 : cur_event_pos[s][i] = 0 /\ last_event_pos[s][i] = 0
      /\ \A q \in SchedQueues : last_ready_event_id[q] = 0 /\ next_free_event_id[q] = 0
      /\ \A e \in Events : all_event_counters[e] = 0
      /\ \A t \in GraphTasks : finished[t] = 0
      /\ batches = 0 /\ mode = "ready"
  BY DEF Init
<1>3. \A w \in Workers : Oldest(w) = 0 /\ Queued(w) = {} /\ Len(task_ids[w]) = 0
  BY <1>2 DEF Oldest, Queued
<1>4. /\ \A s \in Schedulers : ~Opens(s) /\ ~Spreads(s) /\ ~Halts(s) /\ \A q : ~HaltsAt(s, q)
      /\ \A w \in Workers : ~Posts(w) /\ \A q : ~PostsAt(w, q)
      /\ AllDone /\ AllExited
  BY <1>2 DEF Opens, Spreads, Halts, HaltsAt, Posts, PostsAt, AllDone, AllExited
<1>5. WorkerCursors
  BY <1>2, <1>3 DEF WorkerCursors
<1>6. SchedCursors
  <2>1. \A s \in Schedulers : \A i \in 0..1 : last_ready_event_id[QueueOf(s, i)] = 0
    BY <1>2, QueueOfExists
  <2>2. 1 \in 0..1
    OBVIOUS
  <2> QED
    BY <1>2, <1>4, <2>1, <2>2 DEF SchedCursors
<1>7. Posting
  BY <1>2, <1>4 DEF Posting
<1>8. Broadcasts
  <2>1. last_ready_event_id[BcastQueue] = 0 /\ finished[1] = 0
    BY <1>2, Sizes DEF BcastQueue, SchedQueues
  <2> QED
    BY <1>2, <1>4, <2>1 DEF Broadcasts
<1>9. Progress
  <2>1. ASSUME NEW e \in 1..EndEvent
        PROVE  all_event_counters[e] = (batches - 1) * num_triggers(e)
                 + Cardinality({t \in GraphTasks : trigger_event[t] = e /\ finished[t] = batches})
    <3>1. {t \in GraphTasks : trigger_event[t] = e /\ finished[t] = batches}
            = {t \in GraphTasks : trigger_event[t] = e}
      BY <1>2
    <3>2. e \in Events
      BY Sizes DEF EndEvent, Events
    <3>3. (0 - 1) * num_triggers(e) + Cardinality({t \in GraphTasks : trigger_event[t] = e}) = 0
      BY NoTriggersYet DEF num_triggers
    <3> QED
      BY <1>2, <3>1, <3>2, <3>3
  <2> QED
    BY <1>2, <2>1, NoTriggersYet DEF Progress
<1>10. Serving /\ Tasks /\ Dealing /\ Draining
  BY <1>2 DEF Serving, Tasks, Dealing, Draining
<1>11. Stored
  BY <1>2 DEF Stored
<1>12. Idling
  BY <1>3, <1>4 DEF Idling
<1>13. EndsDealt
  <2>1. \A s \in Schedulers : \A i \in 0..per_sched_queue_len - 1 : sched_queues[s][i] = Undefined
    BY QueueOfOwn DEF Init
  <2> QED
    BY <2>1, Sizes DEF EndsDealt, Undefined
<1> QED
  BY <1>1, <1>5, <1>6, <1>7, <1>8, <1>9, <1>10, <1>11, <1>12, <1>13 DEF IInv, MainInv

(* A launch starts over with the end event in scheduler 0's queue.         *)
LEMMA LaunchInv ==
  ASSUME IInv, Launch
  PROVE  MainInv'
<1>1. TypeOK' /\ OwnInv'
  BY LaunchType, LaunchOwn DEF IInv, MainInv
<1>2. /\ \A w \in Workers : /\ wpc'[w] = "poll" /\ task_ids'[w] = <<>>
                            /\ last_ready_task_id'[w] = 0 /\ next_free_task_pos'[w] = 0
                            /\ next_task_pos'[w] = 0 /\ last_task_pos'[w] = 0
      /\ \A s \in Schedulers : /\ spc'[s] = "poll" /\ iteration_num'[s] = 0
                               /\ \A i \in 0..1 : cur_event_pos'[s][i] = 0 /\ last_event_pos'[s][i] = 0
      /\ \A q \in SchedQueues : /\ last_ready_event_id'[q] = IF q = 0 THEN 1 ELSE 0
                                /\ next_free_event_id'[q] = IF q = 0 THEN 1 ELSE 0
      /\ \A e \in Events : all_event_counters'[e] = 0
      /\ \A t \in GraphTasks : finished'[t] = 0
      /\ batches' = 0 /\ mode' = "serving"
      /\ sched_queues' = [sched_queues EXCEPT ![0][0] = EndEvent]
  BY DEF Launch, prepare_kernel
<1>3. \A w \in Workers : Oldest(w)' = 0 /\ Queued(w)' = {} /\ Len(task_ids'[w]) = 0
  BY <1>2 DEF Oldest, Queued
<1>4. /\ \A s \in Schedulers : ~Opens(s)' /\ ~Spreads(s)' /\ ~Halts(s)' /\ ~Stops(s)'
                               /\ \A q : ~HaltsAt(s, q)'
      /\ \A w \in Workers : ~Posts(w)' /\ \A q : ~PostsAt(w, q)'
      /\ AllDone'
  BY <1>2 DEF Opens, Spreads, Halts, HaltsAt, Stops, Posts, PostsAt, AllDone
<1>5. WorkerCursors'
  BY <1>2, <1>3 DEF WorkerCursors
<1>6. SchedCursors'
  <2>1. \A s \in Schedulers : \A i \in 0..1 : 0 <= last_ready_event_id'[QueueOf(s, i)]
    BY <1>2, QueueOfExists
  <2>2. 1 \in 0..1
    OBVIOUS
  <2>3. \A s, i : QueueOf(s, i)' = QueueOf(s, i)
    BY DEF QueueOf
  <2> QED
    BY <1>2, <1>4, <2>1, <2>2, <2>3 DEF SchedCursors
<1>7. Posting'
  <2>1. \A w \in Workers : wpc'[w] \notin {"store", "publish"}
    BY <1>2
  <2> QED
    BY <1>2, <1>4, <2>1 DEF Posting
<1>8. Broadcasts'
  <2>1. last_ready_event_id'[BcastQueue] = 0 /\ finished'[1] = 0
    BY <1>2, Sizes DEF BcastQueue, SchedQueues
  <2> QED
    BY <1>2, <1>4, <2>1 DEF Broadcasts
<1>9. Progress'
  <2>1. ASSUME NEW e \in 1..EndEvent
        PROVE  all_event_counters'[e] = (batches' - 1) * num_triggers(e)
                 + Cardinality({t \in GraphTasks : trigger_event[t] = e /\ finished'[t] = batches'})
    <3>1. {t \in GraphTasks : trigger_event[t] = e /\ finished'[t] = batches'}
            = {t \in GraphTasks : trigger_event[t] = e}
      BY <1>2
    <3>2. e \in Events
      BY Sizes DEF EndEvent, Events
    <3>3. (0 - 1) * num_triggers(e) + Cardinality({t \in GraphTasks : trigger_event[t] = e}) = 0
      BY NoTriggersYet DEF num_triggers
    <3> QED
      BY <1>2, <3>1, <3>2, <3>3
  <2>2. \A t \in GraphTasks : \A u \in Producers[t] : finished'[u] = batches'
    BY <1>2, NoTriggersYet
  <2>3. \A e : num_triggers(e)' = num_triggers(e)
    BY DEF num_triggers
  <2>4. \A t \in GraphTasks : finished'[t] \in {batches' - 1, batches'}
    BY <1>2
  <2> QED
    BY <2>1, <2>2, <2>3, <2>4 DEF Progress, Producers
<1>10. \A s \in Schedulers : Unread(s)' = IF s = 0 THEN {0} ELSE {}
  <2>1. \A s \in Schedulers : cur_event_pos'[s][0] = 0 /\ s \in SchedQueues
    BY <1>2, QueueOfOwn
  <2>2. ASSUME NEW s \in Schedulers PROVE Unread(s)' = IF s = 0 THEN {0} ELSE {}
    <3>1. Unread(s)' = 0..last_ready_event_id'[s] - 1
      BY <2>1 DEF Unread
    <3>2. last_ready_event_id'[s] = IF s = 0 THEN 1 ELSE 0
      BY <1>2, <2>1
    <3>3. 0..1 - 1 = {0} /\ 0..0 - 1 = {}
      OBVIOUS
    <3> QED
      BY <3>1, <3>2, <3>3
  <2> QED
    BY <2>2
<1>11. 0 \in Schedulers /\ EventAt(0, 0)' = EndEvent
  <2>1. 0 \in Schedulers /\ 0 \in SchedQueues
    BY FirstServes, QueueOfOwn
  <2>2. per_sched_queue_len \in Nat /\ per_sched_queue_len > 0
    BY Sizes
  <2>3. 0 % per_sched_queue_len = 0
    BY <2>2
  <2>4. sched_queues \in [SchedQueues -> [0..per_sched_queue_len - 1 -> Events \cup {Undefined}]]
    BY DEF IInv, MainInv, TypeOK, SharedTypeOK, Rings
  <2>5. sched_queues'[0][0] = EndEvent
    BY <1>2, <2>1, <2>2, <2>4
  <2> QED
    BY <2>1, <2>3, <2>5 DEF EventAt
<1>12. Serving'
  <2>1. ASSUME NEW s \in Schedulers, Unread(s)' # {}
        PROVE  /\ Unread(s)' = {cur_event_pos'[s][0]}
               /\ EventAt(s, cur_event_pos[s][0])' = EndEvent
               /\ \A r \in Schedulers : Unread(r)' # {} => r = s
    <3>1. s = 0 /\ cur_event_pos'[s][0] = 0
      BY <1>2, <1>10, <2>1
    <3>2. EventAt(s, cur_event_pos[s][0])' = sched_queues'[0][0 % per_sched_queue_len]
      BY <3>1 DEF EventAt
    <3>3. EventAt(0, 0)' = sched_queues'[0][0 % per_sched_queue_len]
      BY DEF EventAt
    <3> QED
      BY <1>10, <1>11, <3>1, <3>2, <3>3
  <2> QED
    BY <1>2, <1>3, <1>4, <2>1 DEF Serving
<1>13. Tasks'
  <2>1. \A s \in Schedulers : my_workers(s)' \subseteq Workers
    BY MyWorkersAreWorkers DEF my_workers
  <2> QED
    BY <1>3, <2>1 DEF Tasks
<1>14. Dealing' /\ Draining' /\ Idling'
  BY <1>2, <1>4 DEF Dealing, Draining, Idling
<1>15. Stored'
  BY <1>2 DEF Stored
<1> QED
  BY <1>1, <1>5, <1>6, <1>7, <1>8, <1>9, <1>12, <1>13, <1>14, <1>15, DimensionedKept DEF IInv, MainInv

LEMMA StutterInv ==
  ASSUME IInv, UNCHANGED vars
  PROVE  MainInv'
<1> USE DEF vars, queues, wlocals, slocals, history
<1>1. TypeOK' /\ OwnInv'
  BY StutterType, StutterOwn DEF IInv, MainInv
<1>2. /\ \A w, k : /\ Oldest(w)' = Oldest(w) /\ Queued(w)' = Queued(w)
                   /\ TaskAt(w, k)' = TaskAt(w, k)
      /\ \A w : /\ Current(w)' = Current(w) /\ (Posts(w)' <=> Posts(w)) /\ Posted(w)' = Posted(w)
                /\ \A k : (PostsAt(w, k)' <=> PostsAt(w, k))
                /\ EventQueue(w)' = EventQueue(w)
      /\ \A s : /\ (Opens(s)' <=> Opens(s)) /\ (Spreads(s)' <=> Spreads(s))
                /\ (Stops(s)' <=> Stops(s)) /\ (Halts(s)' <=> Halts(s))
                /\ \A q : (HaltsAt(s, q)' <=> HaltsAt(s, q))
                /\ Unread(s)' = Unread(s)
      /\ \A q, k : EventAt(q, k)' = EventAt(q, k)
      /\ (AllDone' <=> AllDone) /\ (AllExited' <=> AllExited)
  BY DEF Oldest, Queued, TaskAt, Current, Posts, Posted, PostsAt, EventQueue, Opens, Spreads,
         Stops, Halts, HaltsAt, Least, Unread, EventAt, AllDone, AllExited
<1>3. PostersKept /\ SlotsKept /\ HaltersKept /\ RolesKept /\ QueuesKept /\ ReadersKept
  BY <1>2 DEF PostersKept, SlotsKept, HaltersKept, RolesKept, QueuesKept, ReadersKept
<1>4. WorkerCursors'
  <2>1. \A w \in Workers : \A j : TaskAt(w, Oldest(w) + j - 1)' = TaskAt(w, Oldest(w) + j - 1)
    BY <1>2 DEF TaskAt
  <2> QED
    BY <1>2, <2>1 DEF IInv, MainInv, WorkerCursors
<1>5. SchedCursors'
  <2>1. \A s, i : QueueOf(s, i)' = QueueOf(s, i)
    BY DEF QueueOf
  <2> QED
    BY <1>2, <2>1 DEF IInv, MainInv, SchedCursors
<1>6. Posting'
  BY <1>3, PostingKept
<1>7. Broadcasts'
  BY <1>2, <1>3, BroadcastsKept
<1>8. Progress'
  BY <1>2, ProgressKept
<1>9. Serving'
  BY <1>2, <1>3, ServingKept
<1>10. Tasks'
  BY <1>3, TasksKept
<1>11. Dealing'
  BY <1>2, <1>3, DealingKept
<1>12. Stored'
  BY DEF IInv, MainInv, Stored, TaskAt, Least, compute_task_id
<1>13. Draining'
  BY <1>3, DrainingKept
<1>14. Idling'
  BY <1>2 DEF IInv, MainInv, Idling
<1> QED
  BY <1>1, <1>4, <1>5, <1>6, <1>7, <1>8, <1>9, <1>10, <1>11, <1>12, <1>13, <1>14,
     DimensionedKept DEF IInv, MainInv

(* Schedulers with tasks come before those without.                        *)
LEMMA EarlierDealt ==
  ASSUME NEW s \in Schedulers, NEW r \in Schedulers, s <= r,
         my_workers(s) # {}, MyPositions(r) # {}
  PROVE  MyPositions(s) # {}
<1> DEFINE f == my_first_worker(s)
<1>1. /\ NumSchedulers \in Nat /\ NumSchedulers > 0 /\ NumWorkers \in Nat /\ NumTasks \in Nat
      /\ s \in Nat /\ r \in Nat
  BY Sizes DEF Schedulers
<1>2. f \in my_workers(s) /\ f \in Workers /\ f \in Nat
  BY OwnWorkersInterval, MyWorkersAreWorkers
<1>3. f <= my_first_worker(r) /\ my_first_worker(r) \in Nat
  BY <1>1, BoundaryMono, MyWorkersAreWorkers DEF my_first_worker
<1>4. PICK p \in 2..NumTasks - 1 : (p - 2) % NumWorkers \in my_workers(r)
  BY DEF MyPositions
<1>5. my_first_worker(r) <= (p - 2) % NumWorkers
  BY <1>4 DEF my_workers, my_first_worker, OwnIds
<1> HIDE DEF f
<1>6. p - 2 \in Nat /\ NumWorkers \in Nat \ {0}
  BY <1>4, Sizes
<1>7. (p - 2) % NumWorkers \in Nat /\ (p - 2) % NumWorkers <= p - 2
  BY <1>6
<1>8. f <= p - 2
  BY <1>2, <1>3, <1>5, <1>6, <1>7
<1>9. f + 2 \in 2..NumTasks - 1
  BY <1>1, <1>2, <1>4, <1>8
<1>10. f < NumWorkers
  BY <1>2, Sizes DEF Workers
<1>11. (f + 2 - 2) % NumWorkers = f
  BY <1>2, <1>6, <1>10
<1>12. f + 2 \in MyPositions(s)
  BY <1>2, <1>9, <1>11 DEF MyPositions
<1> QED
  BY <1>12

LEMMA FirstDealt == 0 \in Schedulers /\ MyPositions(0) # {}
<1>1. /\ 0 \in Schedulers /\ my_workers(0) # {}
      /\ my_first_worker(0) \in my_workers(0)
  BY FirstServes, OwnWorkersInterval
<1>2. my_first_worker(0) = 0
  BY Sizes, PartsAbut DEF my_first_worker
<1>3. (2 - 2) % NumWorkers = 0 /\ 2 \in 2..NumTasks - 1
  BY Sizes
<1>4. 2 \in MyPositions(0)
  BY <1>1, <1>2, <1>3 DEF MyPositions
<1> QED
  BY <1>1, <1>4

(* A worker that posts the end event has executed a task its scheduler     *)
(* dealt it, and get_rand_sched_id picks no later scheduler than that.     *)
LEMMA EndSentToDealt ==
  ASSUME IInv, NEW w \in Workers, Posts(w), Posted(w) = EndEvent
  PROVE  EventQueue(w) \in Schedulers /\ MyPositions(EventQueue(w)) # {}
<1>1. mode = "serving" /\ task_ids[w] # <<>> /\ Current(w).pos \in GraphTasks
  BY RunsServing
<1>2. Current(w).pos # 1
  BY <1>1, GraphAssumption, Sizes DEF Posted
<1>3. Oldest(w) \in Queued(w) /\ Current(w) = TaskAt(w, Oldest(w))
  BY <1>1, CurrentTask
<1>4. PICK r \in Schedulers : w \in my_workers(r)
  BY EachOwned
<1>5. MyPositions(r) # {}
  BY <1>1, <1>2, <1>3, <1>4 DEF IInv, MainInv, Tasks
<1>6. PICK s : s = get_rand_sched_id(w, NumWorkers, NumSchedulers)
  OBVIOUS
<1>7. EventQueue(w) = s
  <2>1. ~(EventType(Posted(w)) = "EVENT_LAUNCH_DEPENDENT_TASKS")
    BY Sizes, KindOfEvent
  <2> QED
    BY <1>6, <2>1 DEF EventQueue, Posted
<1>8. s \in Schedulers /\ my_workers(s) # {}
  BY <1>6, RandIsServing
<1>9. s <= r
  <2>1. /\ NumSchedulers \in Nat /\ NumSchedulers > 0 /\ NumWorkers \in Nat
        /\ w \in Nat /\ r \in 0..NumSchedulers - 1
        /\ w \in OwnIds(NumWorkers, NumSchedulers, r)
    BY <1>4, Sizes DEF Workers, Schedulers, my_workers
  <2>2. s \in 0..r
    BY <1>6, <2>1, RandNotAfterOwner
  <2> QED
    BY <2>2
<1> QED
  BY <1>5, <1>7, <1>8, <1>9, EarlierDealt

LEMMA EndsDealtInv ==
  ASSUME IInv, [Next]_vars
  PROVE  EndsDealt'
<1> USE DEF vars, queues, wlocals, slocals, history
<1>1. sched_queues \in [SchedQueues -> [0..per_sched_queue_len - 1 -> Events \cup {Undefined}]]
  BY DEF IInv, MainInv, TypeOK, SharedTypeOK, Rings
<1>2. \A s \in Schedulers : \A i \in 0..per_sched_queue_len - 1 :
         sched_queues[s][i] = EndEvent => MyPositions(s) # {}
  BY DEF IInv, EndsDealt
<1>3. SUFFICES ASSUME NEW s \in Schedulers, NEW i \in 0..per_sched_queue_len - 1,
                      sched_queues'[s][i] = EndEvent
               PROVE  MyPositions(s) # {}
  BY DEF EndsDealt, MyPositions, my_workers
<1>4. s \in SchedQueues
  BY QueueOfOwn
<1>5. CASE UNCHANGED sched_queues
  BY <1>2, <1>3, <1>5
<1>6. ASSUME NEW q, NEW k, NEW e, sched_queues' = [sched_queues EXCEPT ![q][k] = e],
             e = EndEvent /\ q \in Schedulers => MyPositions(q) # {}
      PROVE  MyPositions(s) # {}
  <2>1. CASE s = q /\ i = k
    <3>1. sched_queues'[s][i] = e
      BY <1>1, <1>4, <1>6, <2>1
    <3> QED
      BY <1>3, <1>6, <2>1, <3>1
  <2>2. CASE ~(s = q /\ i = k)
    <3>1. sched_queues'[s][i] = sched_queues[s][i]
      BY <1>1, <1>4, <1>6, <2>2
    <3> QED
      BY <1>2, <1>3, <3>1
  <2> QED
    BY <2>1, <2>2
<1>7. CASE Launch
  <2>1. sched_queues' = [sched_queues EXCEPT ![0][0] = EndEvent]
    BY <1>7 DEF Launch, prepare_kernel
  <2> QED
    BY <1>6, <2>1, FirstDealt
<1>8. CASE \E w \in Workers : WorkerStep(w)
  <2>1. PICK w \in Workers : WorkerStep(w)
    BY <1>8
  <2>2. CASE WorkerStore(w)
    <3>1. /\ wpc[w] = "store"
          /\ sched_queues' = [sched_queues EXCEPT
               ![EventQueue(w)][wslot[w] % per_sched_queue_len] = Posted(w)]
      BY <2>2 DEF WorkerStore, Posted
    <3>2. Posts(w)
      BY <3>1 DEF Posts
    <3> QED
      BY <1>6, <3>1, <3>2, EndSentToDealt
  <2>3. CASE ~WorkerStore(w)
    <3>1. UNCHANGED sched_queues
      BY <2>1, <2>3 DEF WorkerStep, WorkerPoll, WorkerLoad, WorkerStart, WorkerTerminate,
                        WorkerTrigger, WorkerReserve, WorkerPublish
    <3> QED
      BY <1>5, <3>1
  <2> QED
    BY <2>2, <2>3
<1>9. CASE \E r \in Schedulers : SchedStep(r)
  <2>1. PICK r \in Schedulers : SchedStep(r)
    BY <1>9
  <2>2. CASE HaltStore(r)
    <3>1. PICK q \in todo[r] :
            sched_queues' = [sched_queues EXCEPT ![q][sslot[r] % per_sched_queue_len] = 0]
      BY <2>2 DEF HaltStore
    <3>2. 0 # EndEvent
      BY Sizes
    <3> QED
      BY <1>6, <3>1, <3>2
  <2>3. CASE ~HaltStore(r)
    <3>1. UNCHANGED sched_queues
      BY <2>1, <2>3 DEF SchedStep, SchedPoll, ReadTermination, ReadEndOfTaskGraph,
                        ReadLaunchDependent, LaunchStore, LaunchPublish, StopStore, StopPublish,
                        HaltReserve, HaltPublish
    <3> QED
      BY <1>5, <3>1
  <2> QED
    BY <2>2, <2>3
<1>10. CASE Idle \/ UNCHANGED vars
  BY <1>5, <1>10 DEF Idle
<1> QED
  BY <1>7, <1>8, <1>9, <1>10 DEF Next

LEMMA NextInv == IInv /\ [Next]_vars => IInv'
<1> SUFFICES ASSUME IInv, [Next]_vars PROVE IInv'
  OBVIOUS
<1>1. MainInv'
  <2>1. CASE Launch
    BY <2>1, LaunchInv
  <2>2. CASE \E w \in Workers : WorkerStep(w)
    BY <2>2, WorkerInv
  <2>3. CASE \E s \in Schedulers : SchedStep(s)
    BY <2>3, SchedInv
  <2>4. CASE Idle \/ UNCHANGED vars
    BY <2>4, StutterInv DEF Idle
  <2> QED
    BY <2>1, <2>2, <2>3, <2>4 DEF Next
<1> QED
  BY <1>1, EndsDealtInv DEF IInv

(* The inductive invariant: whatever the interleaving of workers and       *)
(* schedulers, cursors and queues, events and iterations stay in step.     *)
THEOREM Invariant == Dimensioned => (Spec => []IInv)
<1> SUFFICES ASSUME Dimensioned PROVE Spec => []IInv
  OBVIOUS
<1>1. Init => IInv
  BY InitInv
<1>2. IInv /\ [Next]_vars => IInv'
  BY NextInv
<1> QED
  BY <1>1, <1>2, PTL DEF Spec

-----------------------------------------------------------------------------
(* What the invariant says of the properties the runs check.               *)
LEMMA PendingPlaces ==
  ASSUME IInv, NEW w \in Workers
  PROVE  /\ PendingTasks(w) \in Seq(TaskIds \cup {Unwritten})
         /\ Len(PendingTasks(w)) = last_ready_task_id[w] - Oldest(w)
         /\ \A i \in 1..Len(PendingTasks(w)) :
              /\ PendingTasks(w)[i] = TaskAt(w, Oldest(w) + i - 1)
              /\ Oldest(w) + i - 1 \in Queued(w)
<1> DEFINE T == TaskIds \cup {Unwritten}
<1>1. PICK s : s = task_ids[w]
  OBVIOUS
<1>2. PICK a \in Nat : a = next_task_pos[w]
  BY WorkerTypes
<1>3. PICK o \in Nat : o = Oldest(w)
  BY WorkerTypes
<1>4. PICK n \in Nat : n = last_ready_task_id[w] - a
  BY <1>2, WorkerTypes
<1>5. PICK t : t = [i \in 1..n |-> worker_queues[w][(a + i - 1) % per_worker_queue_len]]
  OBVIOUS
<1>6. s \in Seq(T) /\ Len(s) \in Nat /\ a = o + Len(s) /\ last_ready_task_id[w] = a + n
  BY <1>1, <1>2, <1>3, <1>4, WorkerTypes
<1> HIDE DEF T
<1>7. \A i \in 1..n : t[i] = TaskAt(w, a + i - 1) /\ t[i] \in T
  <2> SUFFICES ASSUME NEW i \in 1..n
               PROVE  t[i] = TaskAt(w, a + i - 1) /\ t[i] \in T
    OBVIOUS
  <2>1. t[i] = worker_queues[w][(a + i - 1) % per_worker_queue_len]
    BY <1>5
  <2>2. a + i - 1 \in Nat
    OBVIOUS
  <2>3. (a + i - 1) % per_worker_queue_len \in 0..per_worker_queue_len - 1
    BY <2>2, RingIndex, Sizes
  <2>4. worker_queues[w] \in [0..per_worker_queue_len - 1 -> T]
    BY DEF IInv, MainInv, TypeOK, SharedTypeOK, Rings, T
  <2>5. worker_queues[w][(a + i - 1) % per_worker_queue_len] \in T
    BY <2>3, <2>4
  <2> QED
    BY <2>1, <2>5 DEF TaskAt
<1>8. t \in Seq(T) /\ Len(t) = n
  <2>1. t \in [1..n -> T]
    BY <1>5, <1>7
  <2> QED
    BY <2>1
<1>9. \A i \in 1..Len(s) : s[i] = TaskAt(w, o + i - 1)
  BY <1>1, <1>3 DEF IInv, MainInv, WorkerCursors
<1>10. PendingTasks(w) = s \o t
  BY <1>1, <1>2, <1>4, <1>5 DEF PendingTasks
<1>11. /\ s \o t \in Seq(T) /\ Len(s \o t) = Len(s) + Len(t)
       /\ \A i \in 1..Len(s) + Len(t) : (s \o t)[i] = IF i <= Len(s) THEN s[i] ELSE t[i - Len(s)]
  BY <1>6, <1>8, ConcatProperties, Zenon
<1>12. ASSUME NEW i \in 1..Len(s) + n
       PROVE  (s \o t)[i] = TaskAt(w, o + i - 1) /\ o + i - 1 \in Queued(w)
  <2>1. (s \o t)[i] = IF i <= Len(s) THEN s[i] ELSE t[i - Len(s)]
    BY <1>8, <1>11
  <2>2. ASSUME i <= Len(s) PROVE (s \o t)[i] = TaskAt(w, o + i - 1)
    <3>1. i \in 1..Len(s) /\ (s \o t)[i] = s[i]
      BY <1>6, <2>1, <2>2
    <3>2. s[i] = TaskAt(w, o + i - 1)
      BY <1>9, <3>1
    <3> QED
      BY <3>1, <3>2
  <2>3. ASSUME ~(i <= Len(s)) PROVE (s \o t)[i] = TaskAt(w, o + i - 1)
    <3>1. (s \o t)[i] = t[i - Len(s)]
      BY <2>1, <2>3
    <3>2. PICK l \in Nat : l = Len(s)
      BY <1>6
    <3>3. i - l \in 1..n /\ a + (i - l) - 1 = o + i - 1
      BY <1>6, <2>3, <3>2
    <3>4. t[i - l] = TaskAt(w, a + (i - l) - 1)
      BY <1>7, <3>3
    <3> QED
      BY <3>1, <3>2, <3>3, <3>4
  <2>4. o + i - 1 \in Nat /\ o <= o + i - 1 /\ o + i - 1 < last_ready_task_id[w]
    BY <1>6
  <2>5. o + i - 1 \in Queued(w)
    BY <1>3, <2>4, WorkerTypes
  <2>6. (s \o t)[i] = TaskAt(w, o + i - 1)
    BY <2>2, <2>3
  <2> QED
    BY <2>5, <2>6
<1>13. Len(s \o t) = last_ready_task_id[w] - o
  BY <1>6, <1>8, <1>11
<1>14. Len(s \o t) = Len(s) + n
  BY <1>8, <1>11
<1> QED
  BY <1>3, <1>10, <1>11, <1>12, <1>13, <1>14 DEF T

LEMMA NothingPending ==
  ASSUME IInv, NEW w \in Workers, Queued(w) = {}
  PROVE  PendingTasks(w) = <<>>
<1>1. Len(PendingTasks(w)) = 0
  BY PendingPlaces, WorkerTypes
<1> QED
  BY <1>1, PendingPlaces, EmptySeq, Zenon

LEMMA InvAgreement == IInv => IterationAgreement
BY EndAlone DEF IterationAgreement, ReadsEnd

LEMMA InvAlone == IInv => PrepareAlone
<1> SUFFICES ASSUME IInv, NEW s \in Schedulers, spc[s] = "read", EventRead(s) = EndEvent
             PROVE  /\ \A w \in Workers : wpc[w] = "poll" /\ PendingTasks(w) = <<>>
                    /\ \A r \in Schedulers \ {s} :
                         spc[r] \notin {"launch", "launched", "stop", "stopped"} /\ ~ReadsEnd(r)
                    /\ \A t \in GraphTasks : finished[t] = batches
  BY DEF PrepareAlone, ReadsEnd
<1>1. /\ AllDone
      /\ \A r \in Schedulers : r # s => Unread(r) = {}
      /\ \A r \in Schedulers : ~Opens(r) /\ ~Spreads(r) /\ ~Stops(r)
      /\ \A w \in Workers : wpc[w] = "poll" /\ Queued(w) = {}
  BY EndAlone
<1>2. ASSUME NEW r \in Schedulers, r # s
      PROVE  spc[r] \notin {"launch", "launched", "stop", "stopped"} /\ ~ReadsEnd(r)
  <2>1. queue_idx[r] \in 0..1
    BY SchedTypes
  <2>2. spc[r] \notin {"launch", "launched", "stop", "stopped"}
    BY <1>1, <2>1 DEF Opens, Spreads, Stops
  <2>3. ~ReadsEnd(r)
    BY <1>1, <1>2, ReadsEvent, Sizes DEF ReadsEnd
  <2> QED
    BY <2>2, <2>3
<1> QED
  BY <1>1, <1>2, NothingPending DEF AllDone

LEMMA InvOrdered == IInv => WorkerQueueOrdered
<1> SUFFICES ASSUME IInv, NEW w \in Workers, wpc[w] # "exited"
             PROVE  LET pending == PendingTasks(w)
                    IN \/ pending = <<TerminateTask>> /\ mode = "drained"
                       \/ /\ \A i \in 1..Len(pending) : /\ pending[i].pos \in GraphTasks
                                                        /\ pending[i].iter = batches
                          /\ \A i, j \in 1..Len(pending) : i < j => pending[i].pos < pending[j].pos
  BY DEF WorkerQueueOrdered
<1> DEFINE pending == PendingTasks(w)
           o == Oldest(w)
<1>1. /\ Len(pending) = last_ready_task_id[w] - o /\ Len(pending) \in Nat
      /\ pending \in Seq(TaskIds \cup {Unwritten})
      /\ o \in Nat
      /\ \A i \in 1..Len(pending) : pending[i] = TaskAt(w, o + i - 1) /\ o + i - 1 \in Queued(w)
  BY PendingPlaces, WorkerTypes
<1> HIDE DEF pending, o
<1>2. mode \in {"serving", "drained"}
  BY ActiveNotReady, Modes
<1>3. CASE mode = "serving"
  <2>1. ASSUME NEW i \in 1..Len(pending)
        PROVE  pending[i].pos \in GraphTasks /\ pending[i].iter = batches
    <3>1. PICK k \in Queued(w) : pending[i] = TaskAt(w, k)
      BY <1>1
    <3>2. /\ TaskAt(w, k) = [iter |-> batches, pos |-> TaskAt(w, k).pos]
          /\ TaskAt(w, k).pos \in GraphTasks
      BY <1>3 DEF IInv, MainInv, Tasks
    <3>3. \A x, y, z : x = [iter |-> y, pos |-> z] => x.iter = y
      OBVIOUS
    <3>4. TaskAt(w, k).iter = batches
      BY <3>2, <3>3
    <3> QED
      BY <3>1, <3>2, <3>4
  <2>2. ASSUME NEW i \in 1..Len(pending), NEW j \in 1..Len(pending), i < j
        PROVE  pending[i].pos < pending[j].pos
    <3>1. PICK k \in Queued(w) : k = o + i - 1 /\ pending[i] = TaskAt(w, k)
      BY <1>1
    <3>2. PICK l \in Queued(w) : l = o + j - 1 /\ pending[j] = TaskAt(w, l)
      BY <1>1
    <3>3. k \in Nat /\ l \in Nat /\ k < l
      BY <1>1, <2>2, <3>1, <3>2
    <3>4. TaskAt(w, l).pos - TaskAt(w, k).pos >= (l - k) * NumWorkers
      BY <1>3, <3>3 DEF IInv, MainInv, Tasks
    <3>5. (l - k) * NumWorkers >= 1 * NumWorkers /\ (l - k) * NumWorkers \in Nat
      <4>1. l - k \in Nat /\ 1 <= l - k /\ NumWorkers \in Nat
        BY <3>3, Sizes
      <4> QED
        BY <4>1, MulMono
    <3>6. 1 * NumWorkers > 0 /\ NumWorkers \in Nat
      BY Sizes
    <3>7. TaskAt(w, l).pos \in Nat /\ TaskAt(w, k).pos \in Nat
      BY <1>3, Sizes DEF IInv, MainInv, Tasks
    <3> QED
      BY <3>1, <3>2, <3>4, <3>5, <3>6, <3>7
  <2> QED
    BY <2>1, <2>2 DEF pending
<1>4. CASE mode = "drained"
  <2>1. CASE Queued(w) = {}
    <3>1. pending = <<>>
      BY <2>1, NothingPending DEF pending
    <3>2. 1..Len(pending) = {}
      BY <3>1
    <3> QED
      BY <3>2 DEF pending
  <2>2. CASE Queued(w) # {}
    <3>1. Queued(w) = {o} /\ TaskAt(w, o) = TerminateTask
      BY <1>4, <2>2 DEF IInv, MainInv, Draining, o
    <3>2. Len(pending) = 1
      <4>1. \A k : k \in Queued(w) <=> k \in Nat /\ o <= k /\ k < last_ready_task_id[w]
        BY WorkerTypes DEF o
      <4>2. o < last_ready_task_id[w] /\ ~(o + 1 < last_ready_task_id[w])
        BY <1>1, <3>1, <4>1
      <4>3. last_ready_task_id[w] \in Nat
        BY WorkerTypes
      <4> QED
        BY <1>1, <4>2, <4>3
    <3>3. pending[1] = TerminateTask
      BY <1>1, <3>1, <3>2
    <3>4. pending = <<TerminateTask>>
      BY <1>1, <3>2, <3>3
    <3> QED
      BY <1>4, <3>4 DEF pending
  <2> QED
    BY <2>1, <2>2
<1> QED
  BY <1>2, <1>3, <1>4

LEMMA UnreadEvents ==
  ASSUME IInv, NEW s \in Schedulers, spc[s] # "exited"
  PROVE  LET c == cur_event_pos[s][0]
             n == last_ready_event_id[s]
         IN \/ n = c
            \/ n = c + 1 /\ EventAt(s, c) \in {0, EndEvent}
            \/ n = c + 2 /\ EventAt(s, c) = EndEvent /\ EventAt(s, c + 1) = 0
<1> DEFINE c == cur_event_pos[s][0]
           n == last_ready_event_id[s]
<1>1. /\ c \in Nat /\ n \in Nat /\ c <= n
      /\ \A k : k \in Unread(s) <=> k \in Nat /\ c <= k /\ k < n
  BY SchedTypes
<1>2. mode \in {"serving", "drained"}
  BY ActiveNotReady, Modes
<1>3. CASE Unread(s) = {}
  <2>1. n = c
    BY <1>1, <1>3
  <2> QED
    BY <2>1
<1>4. CASE Unread(s) = {c}
  <2>1. n = c + 1
    <3>1. c < n /\ ~(c + 1 < n)
      BY <1>1, <1>4
    <3> QED
      BY <1>1, <3>1
  <2>2. EventAt(s, c) \in {0, EndEvent}
    BY <1>2, <1>4 DEF IInv, MainInv, Serving, Draining
  <2> QED
    BY <2>1, <2>2
<1>5. CASE Unread(s) # {} /\ Unread(s) # {c}
  <2>1. mode = "drained"
    BY <1>2, <1>5 DEF IInv, MainInv, Serving
  <2>2. Halts(s)
    BY <1>5, <2>1 DEF IInv, MainInv, Draining
  <2>3. /\ c \in Unread(s) /\ EventAt(s, c) = EndEvent
        /\ Unread(s) \subseteq c..c + 1
        /\ c + 1 \in Unread(s) => EventAt(s, c + 1) = 0
    BY <2>1, <2>2 DEF IInv, MainInv, Draining
  <2>4. c + 1 \in Unread(s)
    BY <1>1, <1>5, <2>3
  <2>5. n = c + 2
    <3>1. c + 1 < n /\ ~(c + 2 < n)
      BY <1>1, <2>3, <2>4
    <3> QED
      BY <1>1, <3>1
  <2> QED
    BY <2>3, <2>4, <2>5
<1> QED
  BY <1>3, <1>4, <1>5

LEMMA InvEvents == IInv => EventQueuesWellFormed
<1> SUFFICES ASSUME IInv, NEW s \in Schedulers, spc[s] # "exited"
             PROVE  /\ \A k \in DOMAIN PendingEvents(s, 1) : PendingEvents(s, 1)[k] = 1
                    /\ PendingEvents(s, 0) \in {<<>>, <<0>>, <<EndEvent>>, <<EndEvent, 0>>}
  BY DEF EventQueuesWellFormed
<1>1. ASSUME NEW i \in 0..1
      PROVE  PendingEvents(s, i) =
               [k \in 1..last_ready_event_id[QueueOf(s, i)] - cur_event_pos[s][i] |->
                  EventAt(QueueOf(s, i), cur_event_pos[s][i] + k - 1)]
  BY DEF PendingEvents, EventAt
<1>2. ASSUME NEW k \in DOMAIN PendingEvents(s, 1)
      PROVE  PendingEvents(s, 1)[k] = 1
  <2>1. 1 \in 0..1 /\ QueueOf(s, 1) = BcastQueue
    BY QueueOfOwn
  <2>2. PICK c \in Nat : c = cur_event_pos[s][1]
    BY <2>1, SchedTypes
  <2>3. PICK n \in Nat : n = last_ready_event_id[BcastQueue]
    BY SchedTypes
  <2>4. PendingEvents(s, 1) = [j \in 1..n - c |-> EventAt(BcastQueue, c + j - 1)]
    BY <1>1, <2>1, <2>2, <2>3
  <2>5. k \in 1..n - c /\ PendingEvents(s, 1)[k] = EventAt(BcastQueue, c + k - 1)
    BY <1>2, <2>4
  <2>6. c + k - 1 \in 0..n - 1
    BY <2>5
  <2> QED
    BY <2>3, <2>5, <2>6 DEF IInv, MainInv, Broadcasts
<1>3. PendingEvents(s, 0) \in {<<>>, <<0>>, <<EndEvent>>, <<EndEvent, 0>>}
  <2>1. PICK c \in Nat : c = cur_event_pos[s][0]
    BY SchedTypes
  <2>2. PICK n \in Nat : n = last_ready_event_id[s]
    BY SchedTypes
  <2>3. PendingEvents(s, 0) = [k \in 1..n - c |-> EventAt(s, c + k - 1)]
    BY <1>1, <2>1, <2>2, QueueOfOwn
  <2>4. \/ n = c
        \/ n = c + 1 /\ EventAt(s, c) \in {0, EndEvent}
        \/ n = c + 2 /\ EventAt(s, c) = EndEvent /\ EventAt(s, c + 1) = 0
    BY <2>1, <2>2, UnreadEvents
  <2>5. CASE n = c
    BY <2>3, <2>5
  <2>6. CASE n = c + 1 /\ EventAt(s, c) \in {0, EndEvent}
    <3>1. n - c = 1 /\ c + 1 - 1 = c
      BY <2>6
    <3>2. PendingEvents(s, 0) = [k \in 1..1 |-> EventAt(s, c + k - 1)]
      BY <2>3, <3>1
    <3>3. PendingEvents(s, 0) = <<EventAt(s, c)>>
      BY <3>1, <3>2
    <3> QED
      BY <2>6, <3>3
  <2>7. CASE n = c + 2 /\ EventAt(s, c) = EndEvent /\ EventAt(s, c + 1) = 0
    <3>1. n - c = 2 /\ c + 1 - 1 = c /\ c + 2 - 1 = c + 1
      BY <2>7
    <3>2. PendingEvents(s, 0) = [k \in 1..2 |-> EventAt(s, c + k - 1)]
      BY <2>3, <3>1
    <3>3. PendingEvents(s, 0) = <<EventAt(s, c), EventAt(s, c + 1)>>
      BY <3>1, <3>2
    <3> QED
      BY <2>7, <3>3
  <2> QED
    BY <2>4, <2>5, <2>6, <2>7
<1> QED
  BY <1>2, <1>3

LEMMA InvFits ==
  ASSUME IInv, \A s \in Schedulers : MyPositions(s) # {}
  PROVE  QueuesNeverOverrun
<1>1. ASSUME NEW w \in Workers
      PROVE  next_task_pos[w] + per_worker_queue_len > last_ready_task_id[w]
  <2>1. last_ready_task_id[w] - Oldest(w) < per_worker_queue_len
    BY QueueFits
  <2> QED
    BY <2>1, WorkerTypes, Sizes
<1>2. ASSUME NEW s \in Schedulers, NEW i \in 0..1, spc[s] # "exited"
      PROVE  cur_event_pos[s][i] + per_sched_queue_len > last_ready_event_id[QueueOf(s, i)]
  <2>1. per_sched_queue_len \in Nat /\ per_sched_queue_len > 2
    BY Sizes DEF IInv, MainInv, Dimensioned
  <2>2. CASE i = 0
    <3>1. PICK c \in Nat : c = cur_event_pos[s][0]
      BY SchedTypes
    <3>2. PICK n \in Nat : n = last_ready_event_id[s]
      BY SchedTypes
    <3>3. n = c \/ n = c + 1 \/ n = c + 2
      BY <1>2, <3>1, <3>2, UnreadEvents
    <3> QED
      BY <2>1, <2>2, <3>1, <3>2, <3>3, QueueOfOwn
  <2>3. CASE i = 1
    <3>1. batches \in Nat /\ mode \in {"serving", "drained"}
      BY <1>2, Modes, ActiveNotReady
    <3>2. last_ready_event_id[BcastQueue] \in {batches - 1, batches}
      BY DEF IInv, MainInv, Broadcasts
    <3>3. iteration_num[s] \in {batches - 1, batches}
      BY DEF IInv, MainInv, Broadcasts
    <3>4. iteration_num[s] = cur_event_pos[s][1] + (IF Spreads(s) THEN 1 ELSE 0)
      BY DEF IInv, MainInv, SchedCursors
    <3>5. Spreads(s) => iteration_num[s] = batches
      BY SpreadsAlone
    <3>6. cur_event_pos[s][1] \in Nat
      BY SchedTypes
    <3>7. cur_event_pos[s][1] >= batches - 1
      BY <3>1, <3>3, <3>4, <3>5, <3>6
    <3> QED
      BY <2>1, <2>3, <3>1, <3>2, <3>6, <3>7, QueueOfOwn
  <2> QED
    BY <2>2, <2>3
<1> QED
  BY <1>1, <1>2 DEF QueuesNeverOverrun
-----------------------------------------------------------------------------
(* The scheduler that handles the end of the task graph numbers the next   *)
(* iteration correctly, although its count of iterations is private and    *)
(* advanced by another queue than the one the end event came through.      *)
THEOREM Agreement == Dimensioned => (Spec => []IterationAgreement)
<1>1. Dimensioned => (Spec => []IInv)
  BY Invariant
<1>2. IInv => IterationAgreement
  BY InvAgreement
<1> QED
  BY <1>1, <1>2, PTL

(* prepare_next_batch is only ever called while nothing runs, nothing is   *)
(* queued, no other scheduler launches, stops or calls it, and every task  *)
(* of the iteration is done.                                               *)
THEOREM PreparesAlone == Dimensioned => (Spec => []PrepareAlone)
<1>1. Dimensioned => (Spec => []IInv)
  BY Invariant
<1>2. IInv => PrepareAlone
  BY InvAlone
<1> QED
  BY <1>1, <1>2, PTL

(* A worker's backlog is in the order of the task list and of the current  *)
(* iteration, and the terminate task is alone: a worker that waits for the *)
(* event its first task depends on never waits for a task behind it.       *)
THEOREM QueuesOrdered == Dimensioned => (Spec => []WorkerQueueOrdered)
<1>1. Dimensioned => (Spec => []IInv)
  BY Invariant
<1>2. IInv => WorkerQueueOrdered
  BY InvOrdered
<1> QED
  BY <1>1, <1>2, PTL

(* A scheduler reads nothing but launch events in the broadcast queue, and *)
(* in its own queue at most an end event with one termination behind it:   *)
(* no slot is read before the event of its position was stored.            *)
THEOREM EventsWellFormed == Dimensioned => (Spec => []EventQueuesWellFormed)
<1>1. Dimensioned => (Spec => []IInv)
  BY Invariant
<1>2. IInv => EventQueuesWellFormed
  BY InvEvents
<1> QED
  BY <1>1, <1>2, PTL

(* No ring is overrun, provided that every scheduler has tasks to launch:  *)
(* one that has none, or no workers, is waited for by no iteration, and    *)
(* nothing bounds how far it lags behind the broadcast queue.              *)
THEOREM NeverOverrun ==
  Dimensioned /\ (\A s \in Schedulers : MyPositions(s) # {}) => (Spec => []QueuesNeverOverrun)
<1> SUFFICES ASSUME Dimensioned, \A s \in Schedulers : MyPositions(s) # {}
             PROVE  Spec => []QueuesNeverOverrun
  OBVIOUS
<1>1. Spec => []IInv
  BY Invariant
<1>2. IInv => QueuesNeverOverrun
  BY InvFits
<1> QED
  BY <1>1, <1>2, PTL

-----------------------------------------------------------------------------
(* Step by step, the kernel is the task graph's abstract execution: only a *)
(* launch, the handling of an end event, the start of a task and its       *)
(* completion are steps of it.                                             *)
Status(t) == IF finished[t] = batches THEN "finished"
             ELSE IF Running(t) THEN "running" ELSE "waiting"
StatusOf == [t \in GraphTasks |-> Status(t)]

LEMMA AbstractVars ==
  /\ Abstract!vars = <<batches, StatusOf, mode>>
  /\ Abstract!vars' = <<batches', StatusOf', mode'>>
BY DEF Abstract!vars, StatusOf, Status

LEMMA AbstractActions ==
  /\ Abstract!AllFinished <=> \A t \in GraphTasks : StatusOf[t] = "finished"
  /\ Abstract!Launch <=> /\ mode # "serving" /\ mode' = "serving" /\ batches' = 0
                         /\ StatusOf' = StatusOf
  /\ Abstract!BeginIteration <=>
       /\ mode = "serving" /\ Abstract!AllFinished /\ batches < MaxIterations
       /\ batches' = batches + 1
       /\ StatusOf' = [t \in GraphTasks |-> "waiting"] /\ mode' = mode
  /\ Abstract!Drain <=> /\ mode = "serving" /\ Abstract!AllFinished /\ mode' = "drained"
                        /\ batches' = batches /\ StatusOf' = StatusOf
  /\ \A t \in GraphTasks :
       /\ Abstract!Start(t) <=> /\ StatusOf[t] = "waiting"
                                /\ \A p \in Producers[t] : StatusOf[p] = "finished"
                                /\ StatusOf' = [StatusOf EXCEPT ![t] = "running"]
                                /\ batches' = batches /\ mode' = mode
       /\ Abstract!Finish(t) <=> /\ StatusOf[t] = "running"
                                 /\ StatusOf' = [StatusOf EXCEPT ![t] = "finished"]
                                 /\ batches' = batches /\ mode' = mode
<1>1. /\ Abstract!AllFinished <=> \A t \in GraphTasks : StatusOf[t] = "finished"
      /\ Abstract!Launch <=> /\ mode # "serving" /\ mode' = "serving" /\ batches' = 0
                             /\ StatusOf' = StatusOf
  BY DEF Abstract!AllFinished, Abstract!Launch, StatusOf, Status
<1>2. Abstract!BeginIteration <=>
       /\ mode = "serving" /\ Abstract!AllFinished /\ batches < MaxIterations
       /\ batches' = batches + 1
       /\ StatusOf' = [t \in GraphTasks |-> "waiting"] /\ mode' = mode
  BY DEF Abstract!BeginIteration, StatusOf, Status
<1>3. Abstract!Drain <=> /\ mode = "serving" /\ Abstract!AllFinished /\ mode' = "drained"
                         /\ batches' = batches /\ StatusOf' = StatusOf
  BY DEF Abstract!Drain, StatusOf, Status
<1>4. ASSUME NEW t \in GraphTasks
      PROVE  Abstract!Start(t) <=> /\ StatusOf[t] = "waiting"
                                   /\ \A p \in Producers[t] : StatusOf[p] = "finished"
                                   /\ StatusOf' = [StatusOf EXCEPT ![t] = "running"]
                                   /\ batches' = batches /\ mode' = mode
  BY DEF Abstract!Start, StatusOf, Status
<1>5. ASSUME NEW t \in GraphTasks
      PROVE  Abstract!Finish(t) <=> /\ StatusOf[t] = "running"
                                    /\ StatusOf' = [StatusOf EXCEPT ![t] = "finished"]
                                    /\ batches' = batches /\ mode' = mode
  BY DEF Abstract!Finish, StatusOf, Status
<1> QED
  BY <1>1, <1>2, <1>3, <1>4, <1>5

LEMMA StatusValues ==
  /\ \A t \in GraphTasks : StatusOf[t] = Status(t)
  /\ StatusOf' = [t \in GraphTasks |-> Status(t)']
BY DEF StatusOf

(* A step that starts and finishes nothing and prepares no batch.          *)
LEMMA NothingStarts ==
  ASSUME UNCHANGED history, \A t \in GraphTasks : Running(t)' <=> Running(t)
  PROVE  UNCHANGED Abstract!vars
<1>1. \A t \in GraphTasks : Status(t)' = Status(t)
  BY DEF Status, history
<1>2. StatusOf' = StatusOf
  BY <1>1 DEF StatusOf
<1> QED
  BY <1>2, AbstractVars DEF history

LEMMA WorkersStay ==
  ASSUME UNCHANGED <<wpc, task_ids>>
  PROVE  \A t \in GraphTasks : Running(t)' <=> Running(t)
BY DEF Running, Current

LEMMA IdleWorkerSteps ==
  ASSUME IInv, NEW w \in Workers, WorkerStep(w), ~WorkerStart(w), ~WorkerTrigger(w)
  PROVE  UNCHANGED Abstract!vars
<1>1. /\ wpc \in [Workers -> {"exited", "poll", "load", "wait", "run",
                             "reserve", "store", "publish"}]
      /\ task_ids \in [Workers -> Seq(TaskIds \cup {Unwritten})]
  BY DEF IInv, MainInv, TypeOK, WorkersTypeOK
<1>2. /\ UNCHANGED history
      /\ wpc[w] # "run"
      /\ \E pc : pc # "run" /\ wpc' = [wpc EXCEPT ![w] = pc]
      /\ task_ids' = task_ids \/ \E q : task_ids' = [task_ids EXCEPT ![w] = q]
  <2>1. AfterTask(w) # "run"
    BY DEF AfterTask
  <2>2. CASE WorkerPoll(w)
    BY <2>2 DEF WorkerPoll
  <2>3. CASE WorkerLoad(w)
    BY <2>3 DEF WorkerLoad
  <2>4. CASE WorkerTerminate(w)
    BY <2>4 DEF WorkerTerminate
  <2>5. CASE WorkerReserve(w)
    BY <2>5 DEF WorkerReserve
  <2>6. CASE WorkerStore(w)
    BY <2>6 DEF WorkerStore
  <2>7. CASE WorkerPublish(w)
    BY <2>1, <2>7 DEF WorkerPublish
  <2> QED
    BY <2>2, <2>3, <2>4, <2>5, <2>6, <2>7 DEF WorkerStep
<1>3. \A v \in Workers : /\ v # w => wpc'[v] = wpc[v] /\ task_ids'[v] = task_ids[v]
                         /\ wpc'[w] # "run"
  BY <1>1, <1>2
<1>4. \A t \in GraphTasks : Running(t)' <=> Running(t)
  BY <1>2, <1>3 DEF Running, Current
<1> QED
  BY <1>2, <1>4, NothingStarts

LEMMA StartRefines ==
  ASSUME IInv, NEW w \in Workers, WorkerStart(w)
  PROVE  \E t \in GraphTasks : Abstract!Start(t)
<1>1. /\ wpc[w] = "wait" /\ wpc' = [wpc EXCEPT ![w] = "run"]
      /\ Current(w).pos \in GraphTasks /\ Ready(Current(w))
      /\ UNCHANGED <<task_ids, batches, mode, finished>>
  BY DEF WorkerStart, history
<1>2. /\ wpc \in [Workers -> {"exited", "poll", "load", "wait", "run",
                             "reserve", "store", "publish"}]
      /\ task_ids[w] # <<>>
  BY <1>1 DEF IInv, MainInv, TypeOK, WorkersTypeOK
<1>3. Oldest(w) \in Queued(w) /\ Current(w) = TaskAt(w, Oldest(w))
  BY <1>2, CurrentTask
<1>4. mode = "serving"
  <2>1. mode # "drained"
    BY <1>1, <1>3, Sizes DEF IInv, MainInv, Draining, TerminateTask
  <2>2. mode # "ready"
    BY <1>1, ActiveNotReady
  <2> QED
    BY <2>1, <2>2, Modes
<1>5. PICK t \in GraphTasks : t = Current(w).pos
  BY <1>1
<1>6. finished[t] = batches - 1 /\ batches \in Nat
  <2>1. ~Posts(w)
    BY <1>1 DEF Posts
  <2> QED
    BY <1>2, <1>4, <1>5, <2>1, CurrentOfGraph
<1>7. ~Running(t)
  <2> SUFFICES ASSUME NEW v \in Workers, wpc[v] = "run", Current(v).pos = t PROVE FALSE
    BY DEF Running
  <2>1. w = v
    BY <1>3, <1>5, RunningOnce
  <2> QED
    BY <1>1, <2>1
<1>8. \A p \in Producers[t] : p \in GraphTasks /\ finished[p] = batches
  <2>1. \A p \in Producers[t] : finished[p] = batches
    BY <1>1, <1>2, <1>4, <1>5, ReadyMeansDone
  <2>2. Producers[t] \subseteq GraphTasks
    BY Sizes DEF Producers
  <2> QED
    BY <2>1, <2>2
<1>9. \A u \in GraphTasks : Running(u)' <=> Running(u) \/ u = t
  <2>1. \A v \in Workers : /\ wpc'[v] = "run" <=> wpc[v] = "run" \/ v = w
                           /\ Current(v)' = Current(v)
    BY <1>1, <1>2 DEF Current
  <2> QED
    BY <1>5, <2>1 DEF Running
<1>10. \A u \in GraphTasks : Status(u)' = IF u = t THEN "running" ELSE Status(u)
  BY <1>1, <1>6, <1>9 DEF Status
<1>11. StatusOf' = [StatusOf EXCEPT ![t] = "running"]
  BY <1>10 DEF StatusOf
<1>12. StatusOf[t] = "waiting"
  BY <1>6, <1>7, StatusValues DEF Status
<1>13. \A p \in Producers[t] : StatusOf[p] = "finished"
  BY <1>8, StatusValues DEF Status
<1>14. Abstract!Start(t)
  BY <1>1, <1>11, <1>12, <1>13, AbstractActions
<1> QED
  BY <1>14

LEMMA TriggerRefines ==
  ASSUME IInv, NEW w \in Workers, WorkerTrigger(w)
  PROVE  \E t \in GraphTasks : Abstract!Finish(t)
<1>1. /\ wpc[w] = "run"
      /\ finished' = [finished EXCEPT ![Current(w).pos] = @ + 1]
      /\ UNCHANGED <<batches, mode>>
  BY DEF WorkerTrigger
<1>2. /\ wpc \in [Workers -> {"exited", "poll", "load", "wait", "run",
                             "reserve", "store", "publish"}]
      /\ task_ids \in [Workers -> Seq(TaskIds \cup {Unwritten})]
      /\ finished \in [GraphTasks -> Nat]
  BY DEF IInv, MainInv, TypeOK, WorkersTypeOK, HistoryTypeOK
<1>3. PICK t \in GraphTasks : t = Current(w).pos
  BY <1>1, RunningAlone
<1>4. batches \in Nat /\ finished[t] = batches - 1
  BY <1>1, <1>3, RunningAlone
<1>5. \A u \in GraphTasks : finished'[u] = IF u = t THEN batches ELSE finished[u]
  BY <1>1, <1>2, <1>3, <1>4
<1>6. /\ \E pc : pc # "run" /\ wpc' = [wpc EXCEPT ![w] = pc]
      /\ task_ids' = task_ids \/ \E q : task_ids' = [task_ids EXCEPT ![w] = q]
  <2>1. AfterTask(w) # "run"
    BY DEF AfterTask
  <2> QED
    BY <2>1 DEF WorkerTrigger
<1>7. /\ \A v \in Workers : v # w => wpc'[v] = wpc[v] /\ task_ids'[v] = task_ids[v]
      /\ wpc'[w] # "run"
  BY <1>2, <1>6
<1>8. \A u \in GraphTasks : u # t => (Running(u)' <=> Running(u))
  BY <1>3, <1>7 DEF Running, Current
<1>9. \A u \in GraphTasks : Status(u)' = IF u = t THEN "finished" ELSE Status(u)
  BY <1>1, <1>5, <1>8 DEF Status
<1>10. StatusOf' = [StatusOf EXCEPT ![t] = "finished"]
  BY <1>9 DEF StatusOf
<1>11. StatusOf[t] = "running"
  BY <1>1, <1>3, <1>4, StatusValues DEF Status, Running
<1>12. Abstract!Finish(t)
  BY <1>1, <1>10, <1>11, AbstractActions
<1> QED
  BY <1>12

LEMMA EndRefines ==
  ASSUME IInv, NEW s \in Schedulers, ReadEndOfTaskGraph(s)
  PROVE  Abstract!BeginIteration \/ Abstract!Drain
<1>1. spc[s] = "read" /\ EventRead(s) = EndEvent
  BY ReadsKind DEF ReadEndOfTaskGraph
<1>2. mode = "serving" /\ AllDone /\ batches \in Nat /\ \A w \in Workers : wpc[w] = "poll"
  BY <1>1, EndAlone
<1>3. UNCHANGED <<wpc, task_ids, finished>>
  BY DEF ReadEndOfTaskGraph, wlocals
<1>4. Abstract!AllFinished
  <2>1. \A t \in GraphTasks : StatusOf[t] = "finished"
    BY <1>2, StatusValues DEF Status, AllDone
  <2> QED
    BY <2>1, AbstractActions
<1>5. \A t \in GraphTasks : ~Running(t)' /\ ~Running(t) /\ finished'[t] = batches
  BY <1>2, <1>3 DEF Running, AllDone
<1>6. CASE batches < MaxIterations /\ batches' = batches + 1 /\ mode' = mode
  <2>1. \A t \in GraphTasks : Status(t)' = "waiting"
    BY <1>2, <1>5, <1>6 DEF Status
  <2>2. StatusOf' = [t \in GraphTasks |-> "waiting"]
    BY <2>1 DEF StatusOf
  <2>3. Abstract!BeginIteration
    BY <1>2, <1>4, <1>6, <2>2, AbstractActions
  <2> QED
    BY <2>3
<1>7. CASE mode' = "drained" /\ batches' = batches
  <2>1. \A t \in GraphTasks : Status(t)' = Status(t)
    BY <1>3, <1>5, <1>7 DEF Status
  <2>2. StatusOf' = StatusOf
    BY <2>1 DEF StatusOf
  <2>3. Abstract!Drain
    BY <1>2, <1>4, <1>7, <2>2, AbstractActions
  <2> QED
    BY <2>3
<1> QED
  BY <1>6, <1>7 DEF ReadEndOfTaskGraph

LEMMA OtherSchedSteps ==
  ASSUME NEW s \in Schedulers, SchedStep(s), ~ReadEndOfTaskGraph(s)
  PROVE  UNCHANGED Abstract!vars
<1>1. UNCHANGED <<wlocals, history>>
  <2>1. CASE SchedPoll(s)
    BY <2>1 DEF SchedPoll
  <2>2. CASE ReadTermination(s)
    BY <2>2 DEF ReadTermination
  <2>3. CASE ReadLaunchDependent(s)
    BY <2>3 DEF ReadLaunchDependent
  <2>4. CASE LaunchStore(s)
    BY <2>4 DEF LaunchStore
  <2>5. CASE LaunchPublish(s)
    BY <2>5 DEF LaunchPublish
  <2>6. CASE StopStore(s)
    BY <2>6 DEF StopStore
  <2>7. CASE StopPublish(s)
    BY <2>7 DEF StopPublish
  <2>8. CASE HaltReserve(s)
    BY <2>8 DEF HaltReserve
  <2>9. CASE HaltStore(s)
    BY <2>9 DEF HaltStore
  <2>10. CASE HaltPublish(s)
    BY <2>10 DEF HaltPublish
  <2> QED
    BY <2>1, <2>2, <2>3, <2>4, <2>5, <2>6, <2>7, <2>8, <2>9, <2>10 DEF SchedStep
<1>2. UNCHANGED <<wpc, task_ids>>
  BY <1>1 DEF wlocals
<1> QED
  BY <1>1, <1>2, WorkersStay, NothingStarts

LEMMA LaunchRefines ==
  ASSUME IInv, Launch
  PROVE  Abstract!Launch
<1>1. /\ AllExited /\ batches' = 0 /\ mode' = "serving"
      /\ finished' = [t \in GraphTasks |-> 0]
  BY DEF Launch
<1>2. mode # "serving"
  <2>1. 0 \in Workers
    BY Sizes DEF Workers
  <2> QED
    BY <1>1, <2>1 DEF IInv, MainInv, Serving, AllExited
<1>3. AllDone
  BY <1>2, Modes DEF IInv, MainInv, Idling, Draining
<1>4. \A t \in GraphTasks : Status(t)' = Status(t)
  BY <1>1, <1>3 DEF Status, AllDone
<1>5. StatusOf' = StatusOf
  BY <1>4 DEF StatusOf
<1> QED
  BY <1>1, <1>2, <1>5, AbstractActions

(* The kernel executes its graph as TaskGraph promises: a task starts once *)
(* per iteration and only after the producers whose triggers it waits for, *)
(* and prepare_next_batch opens the next iteration, or ends the launch,    *)
(* only when every task is finished.  (The promise's liveness is TLC's.)   *)
THEOREM ExecutesTaskGraph ==
  Dimensioned => (Spec => Abstract!Init /\ [][Abstract!Next]_(Abstract!vars))
<1> SUFFICES ASSUME Dimensioned
             PROVE  Spec => Abstract!Init /\ [][Abstract!Next]_(Abstract!vars)
  OBVIOUS
<1>1. Init => Abstract!Init
  BY DEF Init, Abstract!Init
<1>2. IInv /\ [Next]_vars => [Abstract!Next]_(Abstract!vars)
  <2> SUFFICES ASSUME IInv, [Next]_vars PROVE Abstract!Next \/ UNCHANGED Abstract!vars
    OBVIOUS
  <2>1. CASE Launch
    BY <2>1, LaunchRefines DEF Abstract!Next
  <2>2. CASE \E w \in Workers : WorkerStep(w)
    <3>1. PICK w \in Workers : WorkerStep(w)
      BY <2>2
    <3>2. CASE WorkerStart(w)
      BY <3>2, StartRefines DEF Abstract!Next
    <3>3. CASE WorkerTrigger(w)
      BY <3>3, TriggerRefines DEF Abstract!Next
    <3> QED
      BY <3>1, <3>2, <3>3, IdleWorkerSteps
  <2>3. CASE \E s \in Schedulers : SchedStep(s)
    <3>1. PICK s \in Schedulers : SchedStep(s)
      BY <2>3
    <3>2. CASE ReadEndOfTaskGraph(s)
      BY <3>2, EndRefines DEF Abstract!Next
    <3> QED
      BY <3>1, <3>2, OtherSchedSteps
  <2>4. CASE Idle \/ UNCHANGED vars
    <3>1. UNCHANGED history /\ UNCHANGED <<wpc, task_ids>>
      BY <2>4 DEF Idle, vars, wlocals, history
    <3> QED
      BY <3>1, WorkersStay, NothingStarts
  <2> QED
    BY <2>1, <2>2, <2>3, <2>4 DEF Next
<1>3. Spec => []IInv
  BY Invariant
<1> QED
  BY <1>1, <1>2, <1>3, PTL DEF Spec
==============================================================================
