--------------------------- MODULE PersistentKernel ---------------------------
(***************************************************************************)
(* The MPK persistent kernel on one GPU: worker CTAs execute the tasks of  *)
(* a compiled task graph, scheduler warps react to its events.  All they   *)
(* share are event counters and single-word-published queues: one task     *)
(* queue per worker (written by the scheduler that owns the worker), one   *)
(* event queue per scheduler and one broadcast event queue that every      *)
(* scheduler reads with a cursor of its own.                               *)
(*                                                                         *)
(* The task graph is in the form the builder emits: event 0 terminates,    *)
(* event 1 prelaunches every task but 0 and 1, the last event ends the     *)
(* graph and all the others are EVENT_EMPTY, waited for by tasks directly. *)
(***************************************************************************)
EXTENDS Integers, Sequences, FiniteSets, WorkPartition

CONSTANTS NumWorkers, NumSchedulers,
          NumTasks,          \* all_tasks has positions 0 .. NumTasks-1
          NumEvents,         \* all_events has positions 0 .. NumEvents-1
          trigger_event,     \* per task: the event its completion triggers
          dependent_event,   \* per task: the event it waits for, or 0
          per_worker_queue_len, per_sched_queue_len,
          TaskDescsBuffer,   \* TASK_DESCS_BUFFER_LENGTH
          MaxIterations,     \* bound: batches in the first launch, one less in each later one
          MaxLaunches        \* bound: calls of launch_persistent_kernel

Workers    == 0..NumWorkers - 1
Schedulers == 0..NumSchedulers - 1
BcastQueue == NumSchedulers
SchedQueues == 0..NumSchedulers
Events     == 0..NumEvents - 1
GraphTasks == 1..NumTasks - 1       \* everything but the terminate task
EndEvent   == NumEvents - 1

ASSUME SizeAssumption ==
  /\ NumWorkers \in Nat \ {0}      /\ NumSchedulers \in Nat \ {0}
  /\ NumTasks \in Nat              /\ NumTasks > 2
  /\ NumEvents \in Nat             /\ NumEvents > 2
  /\ per_worker_queue_len \in Nat \ {0}
  /\ per_sched_queue_len \in Nat \ {0}
  /\ TaskDescsBuffer \in Nat \ {0}
  /\ MaxIterations \in Nat         /\ MaxLaunches \in Nat

(* What the builder guarantees of a graph: the begin task alone triggers   *)
(* event 1, every other event has producers, an event that is waited for   *)
(* is triggered by lower positions only, and only the end event has no     *)
(* consumer.                                                               *)
ASSUME GraphAssumption ==
  /\ trigger_event \in [GraphTasks -> 1..EndEvent]
  /\ dependent_event \in [GraphTasks -> 0..EndEvent - 1]
  /\ \A t \in GraphTasks : trigger_event[t] = 1 <=> t = 1
  /\ \A e \in 1..EndEvent : \E t \in GraphTasks : trigger_event[t] = e
  /\ dependent_event[1] = 0
  /\ \A t \in GraphTasks : dependent_event[t] # 1
  /\ \A t, u \in GraphTasks :
        dependent_event[t] # 0 /\ trigger_event[u] = dependent_event[t] => u < t
  /\ \A e \in 2..EndEvent - 1 : \E t \in GraphTasks : dependent_event[t] = e

EventType(e) == CASE e = 0        -> "EVENT_TERMINATION"
                  [] e = 1        -> "EVENT_LAUNCH_DEPENDENT_TASKS"
                  [] e = EndEvent -> "EVENT_END_OF_TASK_GRAPH"
                  [] OTHER        -> "EVENT_EMPTY"

(* Mutant of num_triggers: only one leaf task counts for the end event.    *)
LastLeafOnly(e) ==
  IF e = EndEvent THEN 1 ELSE Cardinality({t \in GraphTasks : trigger_event[t] = e})

(* event_desc.num_triggers: the builder counts the producers it connects.  *)
num_triggers(e) == Cardinality({t \in GraphTasks : trigger_event[t] = e})

(* compute_task_id packs the pair into one word; position 0 is terminate.  *)
TaskIds == [iter : Nat, pos : 0..NumTasks - 1]
TerminateTask == [iter |-> 0, pos |-> 0]
Unwritten == [iter |-> 0, pos |-> -1]      \* gpu_malloc'ed, never stored to
Undefined == -1                            \* the same for an event slot

VARIABLES
  worker_queues,         \* per worker: its ring of task ids
  last_ready_task_id,    \* per worker: tasks published to it
  sched_queues,          \* per scheduler and broadcast: its ring of events
  last_ready_event_id,   \* per event queue: events published
  next_free_event_id,    \* per event queue: slots reserved
  all_event_counters,    \* per event: how often it was triggered
  wpc, next_task_pos, last_task_pos, task_ids, wslot,      \* worker locals
  spc, queue_idx, cur_event_pos, last_event_pos, iteration_num,
  next_worker, next_free_task_pos, todo, sslot,            \* scheduler locals
  launches,              \* calls of launch_persistent_kernel
  batches,               \* history: batches prepared in this launch
  mode,                  \* history: "drained" once there was no next batch
  finished               \* history: per task, completions in this launch

queues  == <<worker_queues, last_ready_task_id, sched_queues,
             last_ready_event_id, next_free_event_id>>
wlocals == <<wpc, next_task_pos, last_task_pos, task_ids, wslot>>
slocals == <<spc, queue_idx, cur_event_pos, last_event_pos, iteration_num,
             next_worker, next_free_task_pos, todo, sslot>>
history == <<batches, mode, finished>>
vars == <<queues, all_event_counters, wlocals, slocals, launches, history>>
-----------------------------------------------------------------------------
(* The worker block of a scheduler, and the queues it reads.               *)
my_workers(s) == OwnIds(NumWorkers, NumSchedulers, s)
my_first_worker(s) == FirstId(NumWorkers, NumSchedulers, s)

(* Mutant of my_last_worker: the end of the block is taken as inclusive.   *)
LastIncluded(s) == LastId(NumWorkers, NumSchedulers, s) + 1

my_last_worker(s) == LastId(NumWorkers, NumSchedulers, s)
QueueOf(s, i) == IF i = 0 THEN s ELSE BcastQueue

(* Mutants of MyPositions: last_task_id is taken as inclusive, and the     *)
(* range is not split among the schedulers.                                *)
InclusiveRange(s) ==
  {p \in 2..NumTasks : (p - 2) % NumWorkers \in my_workers(s)}
UnsplitRange(s) == IF s \in Schedulers THEN 2..NumTasks - 1 ELSE {}

(* The positions EVENT_LAUNCH_DEPENDENT_TASKS makes s launch: column j of  *)
(* every row of NumWorkers positions, for its own workers j.               *)
MyPositions(s) ==
  {p \in 2..NumTasks - 1 : (p - 2) % NumWorkers \in my_workers(s)}

(* Mutant of Least: ids are worked off downwards.                          *)
Greatest(p, S) == p \in S /\ \A q \in S : p >= q

(* The next id of a loop that runs over S upwards.                         *)
Least(p, S) == p \in S /\ \A q \in S : p <= q

Init ==
  /\ worker_queues = [w \in Workers |-> [i \in 0..per_worker_queue_len - 1 |-> Unwritten]]
  /\ last_ready_task_id = [w \in Workers |-> 0]
  /\ sched_queues = [q \in SchedQueues |-> [i \in 0..per_sched_queue_len - 1 |-> Undefined]]
  /\ last_ready_event_id = [q \in SchedQueues |-> 0]
  /\ next_free_event_id = [q \in SchedQueues |-> 0]
  /\ all_event_counters = [e \in Events |-> 0]
  /\ wpc = [w \in Workers |-> "exited"]
  /\ next_task_pos = [w \in Workers |-> 0]
  /\ last_task_pos = [w \in Workers |-> 0]
  /\ task_ids = [w \in Workers |-> <<>>]
  /\ wslot = [w \in Workers |-> 0]
  /\ spc = [s \in Schedulers |-> "exited"]
  /\ queue_idx = [s \in Schedulers |-> 0]
  /\ cur_event_pos = [s \in Schedulers |-> [i \in 0..1 |-> 0]]
  /\ last_event_pos = [s \in Schedulers |-> [i \in 0..1 |-> 0]]
  /\ iteration_num = [s \in Schedulers |-> 0]
  /\ next_worker = [s \in Schedulers |-> my_first_worker(s)]
  /\ next_free_task_pos = [w \in Workers |-> 0]
  /\ todo = [s \in Schedulers |-> {}]
  /\ sslot = [s \in Schedulers |-> 0]
  /\ launches = 0
  /\ batches = 0
  /\ mode = "ready"
  /\ finished = [t \in GraphTasks |-> 0]

AllExited == /\ \A w \in Workers : wpc[w] = "exited"
             /\ \A s \in Schedulers : spc[s] = "exited"

(* Reset the cursors and counters and seed scheduler 0 with the end event. *)
prepare_kernel ==
  /\ last_ready_task_id' = [w \in Workers |-> 0]
  /\ next_free_event_id' = [q \in SchedQueues |-> IF q = 0 THEN 1 ELSE 0]
  /\ last_ready_event_id' = [q \in SchedQueues |-> IF q = 0 THEN 1 ELSE 0]
  /\ sched_queues' = [sched_queues EXCEPT ![0][0] = EndEvent]
  /\ all_event_counters' = [e \in Events |-> 0]

(* launch_persistent_kernel: prepare, then start both kernels.  The stream *)
(* of MODE_OFFLINE waits for the kernels of the previous launch first.     *)
Launch ==
  /\ AllExited
  /\ launches < MaxLaunches
  /\ launches' = launches + 1
  /\ prepare_kernel
  /\ wpc' = [w \in Workers |-> "poll"]
  /\ next_task_pos' = [w \in Workers |-> 0]
  /\ last_task_pos' = [w \in Workers |-> 0]
  /\ task_ids' = [w \in Workers |-> <<>>]
  /\ spc' = [s \in Schedulers |-> "poll"]
  /\ queue_idx' = [s \in Schedulers |-> 0]
  /\ cur_event_pos' = [s \in Schedulers |-> [i \in 0..1 |-> 0]]
  /\ last_event_pos' = [s \in Schedulers |-> [i \in 0..1 |-> 0]]
  /\ iteration_num' = [s \in Schedulers |-> 0]
  /\ next_worker' = [s \in Schedulers |-> my_first_worker(s)]
  /\ next_free_task_pos' = [w \in Workers |-> 0]
  /\ todo' = [s \in Schedulers |-> {}]
  /\ batches' = 0
  /\ mode' = "serving"
  /\ finished' = [t \in GraphTasks |-> 0]
  /\ UNCHANGED <<worker_queues, wslot, sslot>>
-----------------------------------------------------------------------------
(* Worker: poll the queue until something is published; the polls that     *)
(* find nothing change nothing.                                            *)
WorkerPoll(w) ==
  /\ wpc[w] = "poll"
  /\ last_task_pos' = [last_task_pos EXCEPT ![w] =
        IF next_task_pos[w] = @ THEN last_ready_task_id[w] ELSE @]
  /\ next_task_pos[w] < last_task_pos'[w]
  /\ wpc' = [wpc EXCEPT ![w] = "load"]
  /\ UNCHANGED <<queues, all_event_counters, next_task_pos, task_ids, wslot,
                 slocals, launches, history>>

(* Worker: copy up to a buffer of task ids out of the ring.                *)
WorkerLoad(w) ==
  LET published == last_task_pos[w] - next_task_pos[w]
      num_loaded_tasks == IF published < TaskDescsBuffer THEN published
                                                         ELSE TaskDescsBuffer
  IN /\ wpc[w] = "load"
     /\ task_ids' = [task_ids EXCEPT ![w] =
          [i \in 1..num_loaded_tasks |->
             worker_queues[w][(next_task_pos[w] + i - 1) % per_worker_queue_len]]]
     /\ next_task_pos' = [next_task_pos EXCEPT ![w] = @ + num_loaded_tasks]
     /\ wpc' = [wpc EXCEPT ![w] = "wait"]
     /\ UNCHANGED <<queues, all_event_counters, last_task_pos, wslot,
                    slocals, launches, history>>

Current(w) == Head(task_ids[w])

(* Mutant of Ready: the count is compared with one iteration's triggers.   *)
ReadySinceLaunch(task) ==
  \/ task.pos \notin GraphTasks
  \/ dependent_event[task.pos] = 0
  \/ all_event_counters[dependent_event[task.pos]]
       >= num_triggers(dependent_event[task.pos])

(* The current task's dependent event was triggered in this iteration as   *)
(* often as it has producers.                                              *)
Ready(task) ==
  \/ task.pos \notin GraphTasks
  \/ dependent_event[task.pos] = 0
  \/ all_event_counters[dependent_event[task.pos]]
       >= num_triggers(dependent_event[task.pos]) * task.iter

(* Worker: the wait for the dependent event is over and the task begins.   *)
WorkerStart(w) ==
  /\ wpc[w] = "wait"
  /\ Current(w).pos \in GraphTasks
  /\ Ready(Current(w))
  /\ wpc' = [wpc EXCEPT ![w] = "run"]
  /\ UNCHANGED <<queues, all_event_counters, next_task_pos, last_task_pos,
                 task_ids, wslot, slocals, launches, history>>

WorkerTerminate(w) ==
  /\ wpc[w] = "wait"
  /\ Current(w).pos = 0
  /\ wpc' = [wpc EXCEPT ![w] = "exited"]
  /\ UNCHANGED <<queues, all_event_counters, next_task_pos, last_task_pos,
                 task_ids, wslot, slocals, launches, history>>

AfterTask(w) == IF Len(task_ids[w]) = 1 THEN "poll" ELSE "wait"

(* Worker: the task is done and counts towards its trigger event.  The one *)
(* that completes the event goes on to enqueue it, unless it is empty.     *)
WorkerTrigger(w) ==
  LET e == trigger_event[Current(w).pos]
      completes == all_event_counters[e] + 1 = num_triggers(e) * Current(w).iter
  IN /\ wpc[w] = "run"
     /\ all_event_counters' = [all_event_counters EXCEPT ![e] = @ + 1]
     /\ finished' = [finished EXCEPT ![Current(w).pos] = @ + 1]
     /\ IF completes /\ EventType(e) # "EVENT_EMPTY"
        THEN /\ wpc' = [wpc EXCEPT ![w] = "reserve"]
             /\ UNCHANGED task_ids
        ELSE /\ wpc' = [wpc EXCEPT ![w] = AfterTask(w)]
             /\ task_ids' = [task_ids EXCEPT ![w] = Tail(@)]
     /\ UNCHANGED <<queues, next_task_pos, last_task_pos, wslot, slocals,
                    launches, batches, mode>>

(* Mutant of EventQueue: every event is broadcast.                         *)
Broadcast(w) == BcastQueue

(* The queue the completed event of w goes to.                             *)
EventQueue(w) ==
  IF EventType(trigger_event[Current(w).pos]) = "EVENT_LAUNCH_DEPENDENT_TASKS"
  THEN BcastQueue
  ELSE get_rand_sched_id(w, NumWorkers, NumSchedulers)

(* Mutant of WorkerReserve: the slot is published when it is reserved.     *)
ReservePublished(w) ==
  /\ wpc[w] = "reserve"
  /\ wslot' = [wslot EXCEPT ![w] = next_free_event_id[EventQueue(w)]]
  /\ next_free_event_id' = [next_free_event_id EXCEPT ![EventQueue(w)] = @ + 1]
  /\ last_ready_event_id' = [last_ready_event_id EXCEPT ![EventQueue(w)] = @ + 1]
  /\ wpc' = [wpc EXCEPT ![w] = "store"]
  /\ UNCHANGED <<worker_queues, last_ready_task_id, sched_queues,
                 all_event_counters, next_task_pos,
                 last_task_pos, task_ids, slocals, launches, history>>

(* Worker: reserve a slot of the event queue, store the event in it, and   *)
(* publish it once all earlier slots are published (the CAS loop).         *)
WorkerReserve(w) ==
  /\ wpc[w] = "reserve"
  /\ wslot' = [wslot EXCEPT ![w] = next_free_event_id[EventQueue(w)]]
  /\ next_free_event_id' = [next_free_event_id EXCEPT ![EventQueue(w)] = @ + 1]
  /\ wpc' = [wpc EXCEPT ![w] = "store"]
  /\ UNCHANGED <<worker_queues, last_ready_task_id, sched_queues,
                 last_ready_event_id, all_event_counters, next_task_pos,
                 last_task_pos, task_ids, slocals, launches, history>>

WorkerStore(w) ==
  /\ wpc[w] = "store"
  /\ sched_queues' = [sched_queues EXCEPT
       ![EventQueue(w)][wslot[w] % per_sched_queue_len] =
          trigger_event[Current(w).pos]]
  /\ wpc' = [wpc EXCEPT ![w] = "publish"]
  /\ UNCHANGED <<worker_queues, last_ready_task_id, last_ready_event_id,
                 next_free_event_id, all_event_counters, next_task_pos,
                 last_task_pos, task_ids, wslot, slocals, launches, history>>

WorkerPublish(w) ==
  /\ wpc[w] = "publish"
  /\ last_ready_event_id[EventQueue(w)] = wslot[w]
  /\ last_ready_event_id' = [last_ready_event_id EXCEPT ![EventQueue(w)] = wslot[w] + 1]
  /\ wpc' = [wpc EXCEPT ![w] = AfterTask(w)]
  /\ task_ids' = [task_ids EXCEPT ![w] = Tail(@)]
  /\ UNCHANGED <<worker_queues, last_ready_task_id, sched_queues,
                 next_free_event_id, all_event_counters, next_task_pos,
                 last_task_pos, wslot, slocals, launches, history>>
-----------------------------------------------------------------------------
(* Scheduler: poll its own and the broadcast queue in turn; a queue with   *)
(* entries already seen is worked off before the next poll.                *)
SchedPoll(s) ==
  LET i == queue_idx[s]
      q == QueueOf(s, i)
      last == IF cur_event_pos[s][i] = last_event_pos[s][i]
              THEN last_ready_event_id[q] ELSE last_event_pos[s][i]
  IN /\ spc[s] = "poll"
     /\ last_event_pos' = [last_event_pos EXCEPT ![s][i] = last]
     /\ IF cur_event_pos[s][i] < last
        THEN /\ spc' = [spc EXCEPT ![s] = "read"]
             /\ UNCHANGED queue_idx
        ELSE /\ queue_idx' = [queue_idx EXCEPT ![s] = 1 - i]
             /\ UNCHANGED spc
     /\ UNCHANGED <<queues, all_event_counters, wlocals, cur_event_pos,
                    iteration_num, next_worker, next_free_task_pos, todo,
                    sslot, launches, history>>

EventRead(s) ==
  sched_queues[QueueOf(s, queue_idx[s])]
              [cur_event_pos[s][queue_idx[s]] % per_sched_queue_len]

(* Done with the event: advance the cursor and poll again.                 *)
NextEvent(s) ==
  /\ cur_event_pos' = [cur_event_pos EXCEPT ![s][queue_idx[s]] = @ + 1]
  /\ spc' = [spc EXCEPT ![s] = "poll"]

(* Start on a set of ids to work off in increasing order, or skip it.      *)
Begin(s, pc, ids) ==
  /\ todo' = [todo EXCEPT ![s] = ids]
  /\ IF ids # {} THEN /\ spc' = [spc EXCEPT ![s] = pc]
                      /\ UNCHANGED cur_event_pos
                 ELSE NextEvent(s)

(* Mutant of ReadTermination: the last own worker is forgotten.            *)
ForgetLastWorker(s) ==
  /\ spc[s] = "read"
  /\ EventRead(s) = 0
  /\ todo' = [todo EXCEPT ![s] = my_workers(s) \ {my_last_worker(s) - 1}]
  /\ spc' = [spc EXCEPT ![s] = IF todo'[s] = {} THEN "exited" ELSE "stop"]
  /\ UNCHANGED <<queues, all_event_counters, wlocals, queue_idx, cur_event_pos,
                 last_event_pos, iteration_num, next_worker,
                 next_free_task_pos, sslot, launches, history>>

(* Scheduler: EVENT_TERMINATION, its own workers are told to terminate.    *)
ReadTermination(s) ==
  /\ spc[s] = "read"
  /\ EventRead(s) = 0
  /\ todo' = [todo EXCEPT ![s] = my_workers(s)]
  /\ spc' = [spc EXCEPT ![s] = IF my_workers(s) = {} THEN "exited" ELSE "stop"]
  /\ UNCHANGED <<queues, all_event_counters, wlocals, queue_idx, cur_event_pos,
                 last_event_pos, iteration_num, next_worker,
                 next_free_task_pos, sslot, launches, history>>

(* Scheduler: EVENT_END_OF_TASK_GRAPH.  prepare_next_batch decides whether *)
(* there is another batch; if so its begin task is launched, otherwise all *)
(* schedulers are told to terminate.                                       *)
ReadEndOfTaskGraph(s) ==
  /\ spc[s] = "read"
  /\ EventType(EventRead(s)) = "EVENT_END_OF_TASK_GRAPH"
  /\ \/ /\ batches < MaxIterations /\ batches + launches <= MaxIterations
        /\ batches' = batches + 1
        /\ Begin(s, "launch", {1})
        /\ UNCHANGED mode
     \/ /\ mode' = "drained"
        /\ Begin(s, "halt", Schedulers)
        /\ UNCHANGED batches
  /\ UNCHANGED <<queues, all_event_counters, wlocals, queue_idx,
                 last_event_pos, iteration_num, next_worker,
                 next_free_task_pos, sslot, launches, finished>>

(* Scheduler: EVENT_LAUNCH_DEPENDENT_TASKS, a new iteration.               *)
ReadLaunchDependent(s) ==
  /\ spc[s] = "read"
  /\ EventType(EventRead(s)) = "EVENT_LAUNCH_DEPENDENT_TASKS"
  /\ iteration_num' = [iteration_num EXCEPT ![s] = @ + 1]
  /\ Begin(s, "launch", MyPositions(s))
  /\ UNCHANGED <<queues, all_event_counters, wlocals, queue_idx,
                 last_event_pos, next_worker, next_free_task_pos, sslot,
                 launches, history>>

(* The begin task opens the iteration after the scheduler's current one.   *)
compute_task_id(s, p) ==
  [iter |-> IF p = 1 THEN iteration_num[s] + 1 ELSE iteration_num[s], pos |-> p]

WriteTask(w, task) ==
  worker_queues' = [worker_queues EXCEPT
    ![w][next_free_task_pos[w] % per_worker_queue_len] = task]

(* Count a stored task as ready: only this scheduler writes w's queue.     *)
PublishTask(w) ==
  /\ next_free_task_pos' = [next_free_task_pos EXCEPT ![w] = @ + 1]
  /\ last_ready_task_id' = [last_ready_task_id EXCEPT ![w] = @ + 1]

(* Scheduler: store the next position into the queue of the next worker... *)
LaunchStore(s) ==
  /\ spc[s] = "launch"
  /\ \E p \in todo[s] : /\ Least(p, todo[s])
                        /\ WriteTask(next_worker[s], compute_task_id(s, p))
  /\ spc' = [spc EXCEPT ![s] = "launched"]
  /\ UNCHANGED <<last_ready_task_id, sched_queues, last_ready_event_id,
                 next_free_event_id, all_event_counters, wlocals, queue_idx,
                 cur_event_pos, last_event_pos, iteration_num, next_worker,
                 next_free_task_pos, todo, sslot, launches, history>>

(* ... publish it, and go round the workers.                               *)
LaunchPublish(s) ==
  /\ spc[s] = "launched"
  /\ PublishTask(next_worker[s])
  /\ next_worker' = [next_worker EXCEPT ![s] =
       IF @ = my_last_worker(s) - 1 THEN my_first_worker(s) ELSE @ + 1]
  /\ \E p \in todo[s] : Least(p, todo[s]) /\ Begin(s, "launch", todo[s] \ {p})
  /\ UNCHANGED <<worker_queues, sched_queues, last_ready_event_id,
                 next_free_event_id, all_event_counters, wlocals, queue_idx,
                 last_event_pos, iteration_num, sslot, launches, history>>

(* Scheduler: store and publish the terminate task to each of its workers, *)
(* then return.                                                            *)
StopStore(s) ==
  /\ spc[s] = "stop"
  /\ \E w \in todo[s] : Least(w, todo[s]) /\ WriteTask(w, TerminateTask)
  /\ spc' = [spc EXCEPT ![s] = "stopped"]
  /\ UNCHANGED <<last_ready_task_id, sched_queues, last_ready_event_id,
                 next_free_event_id, all_event_counters, wlocals, queue_idx,
                 cur_event_pos, last_event_pos, iteration_num, next_worker,
                 next_free_task_pos, todo, sslot, launches, history>>

StopPublish(s) ==
  /\ spc[s] = "stopped"
  /\ \E w \in todo[s] :
       /\ Least(w, todo[s])
       /\ PublishTask(w)
       /\ todo' = [todo EXCEPT ![s] = @ \ {w}]
       /\ spc' = [spc EXCEPT ![s] = IF todo[s] = {w} THEN "exited" ELSE "stop"]
  /\ UNCHANGED <<worker_queues, sched_queues, last_ready_event_id,
                 next_free_event_id, all_event_counters, wlocals, queue_idx,
                 cur_event_pos, last_event_pos, iteration_num, next_worker,
                 sslot, launches, history>>

(* terminate_schedulers: enqueue event 0 to every scheduler in turn with   *)
(* the protocol the workers use.                                           *)
HaltReserve(s) ==
  /\ spc[s] = "halt"
  /\ \E q \in todo[s] :
       /\ Least(q, todo[s])
       /\ sslot' = [sslot EXCEPT ![s] = next_free_event_id[q]]
       /\ next_free_event_id' = [next_free_event_id EXCEPT ![q] = @ + 1]
  /\ spc' = [spc EXCEPT ![s] = "haltStore"]
  /\ UNCHANGED <<worker_queues, last_ready_task_id, sched_queues,
                 last_ready_event_id, all_event_counters, wlocals, queue_idx,
                 cur_event_pos, last_event_pos, iteration_num, next_worker,
                 next_free_task_pos, todo, launches, history>>

HaltStore(s) ==
  /\ spc[s] = "haltStore"
  /\ \E q \in todo[s] :
       /\ Least(q, todo[s])
       /\ sched_queues' = [sched_queues EXCEPT
                             ![q][sslot[s] % per_sched_queue_len] = 0]
  /\ spc' = [spc EXCEPT ![s] = "haltPublish"]
  /\ UNCHANGED <<worker_queues, last_ready_task_id, last_ready_event_id,
                 next_free_event_id, all_event_counters, wlocals, queue_idx,
                 cur_event_pos, last_event_pos, iteration_num, next_worker,
                 next_free_task_pos, todo, sslot, launches, history>>

HaltPublish(s) ==
  /\ spc[s] = "haltPublish"
  /\ \E q \in todo[s] :
       /\ Least(q, todo[s])
       /\ last_ready_event_id[q] = sslot[s]
       /\ last_ready_event_id' = [last_ready_event_id EXCEPT ![q] = sslot[s] + 1]
       /\ Begin(s, "halt", todo[s] \ {q})
  /\ UNCHANGED <<worker_queues, last_ready_task_id, sched_queues,
                 next_free_event_id, all_event_counters, wlocals, queue_idx,
                 last_event_pos, iteration_num, next_worker,
                 next_free_task_pos, sslot, launches, history>>
-----------------------------------------------------------------------------
WorkerStep(w) == \/ WorkerPoll(w) \/ WorkerLoad(w) \/ WorkerStart(w)
                 \/ WorkerTerminate(w) \/ WorkerTrigger(w)
                 \/ WorkerReserve(w) \/ WorkerStore(w) \/ WorkerPublish(w)

SchedStep(s) == \/ SchedPoll(s) \/ ReadTermination(s)
                \/ ReadEndOfTaskGraph(s) \/ ReadLaunchDependent(s)
                \/ LaunchStore(s) \/ LaunchPublish(s)
                \/ StopStore(s) \/ StopPublish(s)
                \/ HaltReserve(s) \/ HaltStore(s) \/ HaltPublish(s)

(* Not a step of the code: both kernels have returned.                     *)
Idle == AllExited /\ UNCHANGED vars

Next == \/ Launch
        \/ \E w \in Workers : WorkerStep(w)
        \/ \E s \in Schedulers : SchedStep(s)
        \/ Idle

(* All CTAs of both kernels are resident at once (one per SM), so each of  *)
(* them keeps running.  The host may or may not launch.                    *)
Fairness == /\ \A w \in Workers : WF_vars(WorkerStep(w))
            /\ \A s \in Schedulers : WF_vars(SchedStep(s))

Spec == Init /\ [][Next]_vars /\ Fairness
-----------------------------------------------------------------------------
Rings(qs, len, slots) == [qs -> [0..len - 1 -> slots]]

SharedTypeOK ==
  /\ worker_queues \in Rings(Workers, per_worker_queue_len, TaskIds \cup {Unwritten})
  /\ last_ready_task_id \in [Workers -> Nat]
  /\ sched_queues \in Rings(SchedQueues, per_sched_queue_len, Events \cup {Undefined})
  /\ last_ready_event_id \in [SchedQueues -> Nat]
  /\ next_free_event_id \in [SchedQueues -> Nat]
  /\ all_event_counters \in [Events -> Nat]

WorkersTypeOK ==
  /\ wpc \in [Workers -> {"exited", "poll", "load", "wait", "run",
                          "reserve", "store", "publish"}]
  /\ next_task_pos \in [Workers -> Nat]
  /\ last_task_pos \in [Workers -> Nat]
  /\ task_ids \in [Workers -> Seq(TaskIds \cup {Unwritten})]
  /\ wslot \in [Workers -> Nat]
  /\ \A w \in Workers :
       /\ wpc[w] = "load" => next_task_pos[w] < last_task_pos[w]
       /\ wpc[w] \in {"wait", "run", "reserve", "store", "publish"}
            => task_ids[w] # <<>>
       /\ wpc[w] \in {"run", "reserve", "store", "publish"}
            => Current(w).pos \in GraphTasks

SchedsTypeOK ==
  /\ spc \in [Schedulers -> {"exited", "poll", "read", "launch", "launched",
                             "stop", "stopped", "halt", "haltStore", "haltPublish"}]
  /\ queue_idx \in [Schedulers -> 0..1]
  /\ cur_event_pos \in [Schedulers -> [0..1 -> Nat]]
  /\ last_event_pos \in [Schedulers -> [0..1 -> Nat]]
  /\ iteration_num \in [Schedulers -> Nat]
  /\ next_worker \in [Schedulers -> Nat]
  /\ next_free_task_pos \in [Workers -> Nat]
  /\ todo \in [Schedulers -> SUBSET Nat]
  /\ sslot \in [Schedulers -> Nat]
  /\ \A s \in Schedulers :
       /\ spc[s] \in {"launch", "launched"} => todo[s] \subseteq GraphTasks
       /\ spc[s] \in {"stop", "stopped"} => todo[s] \subseteq Workers
       /\ spc[s] \in {"halt", "haltStore", "haltPublish"} => todo[s] \subseteq Schedulers

HistoryTypeOK ==
  /\ launches \in 0..MaxLaunches
  /\ batches \in 0..MaxIterations
  /\ mode \in {"ready", "serving", "drained"}
  /\ finished \in [GraphTasks -> Nat]

(* Every variable stays in its range: in particular no task leaves the     *)
(* graph's positions, no event the graph's events, and no event is sent to *)
(* a queue that does not exist.                                            *)
TypeOK == SharedTypeOK /\ WorkersTypeOK /\ SchedsTypeOK /\ HistoryTypeOK

(* A worker's ring is only ever written by the scheduler that owns the     *)
(* worker, which is why its cursor can be private and its publication a    *)
(* plain increment.  A scheduler without workers never gets to launch: the *)
(* end event is never sent to one.                                         *)
OwnQueuesOnly ==
  \A s \in Schedulers :
    /\ spc[s] \in {"launch", "launched"} => next_worker[s] \in my_workers(s)
    /\ spc[s] \in {"stop", "stopped"} => todo[s] \subseteq my_workers(s)

(* No ring is overrun: a slot is not reused before its reader has passed   *)
(* it, which is what the two queue asserts of the kernel check at a read.  *)
QueuesNeverOverrun ==
  /\ \A w \in Workers :
       next_task_pos[w] + per_worker_queue_len > last_ready_task_id[w]
  /\ \A s \in Schedulers, i \in 0..1 :
       spc[s] # "exited" => cur_event_pos[s][i] + per_sched_queue_len
                              > last_ready_event_id[QueueOf(s, i)]

(* What is published to worker w and not yet executed, oldest first.       *)
PendingTasks(w) ==
  task_ids[w] \o
  [i \in 1..(last_ready_task_id[w] - next_task_pos[w]) |->
     worker_queues[w][(next_task_pos[w] + i - 1) % per_worker_queue_len]]

(* A worker's backlog is the current iteration's, in increasing position   *)
(* and with no task twice; the terminate task is alone.  A worker executes *)
(* its backlog in order and waits in place, so an inversion deadlocks it.  *)
WorkerQueueOrdered ==
  \A w \in Workers : wpc[w] # "exited" =>
    LET pending == PendingTasks(w)
    IN \/ pending = <<TerminateTask>> /\ mode = "drained"
       \/ /\ \A i \in 1..Len(pending) : /\ pending[i].pos \in GraphTasks
                                        /\ pending[i].iter = batches
          /\ \A i, j \in 1..Len(pending) : i < j => pending[i].pos < pending[j].pos

ReadsEnd(s) == spc[s] = "read" /\ EventRead(s) = EndEvent

(* prepare_next_batch moves the requests, pages and tokens the tasks work  *)
(* on: when a scheduler is about to call it nothing runs, nothing is       *)
(* queued, and no scheduler still has tasks of the old iteration to launch.*)
PrepareAlone ==
  \A s \in Schedulers : ReadsEnd(s) =>
    /\ \A w \in Workers : wpc[w] = "poll" /\ PendingTasks(w) = <<>>
    /\ \A r \in Schedulers \ {s} :
         spc[r] \notin {"launch", "launched", "stop", "stopped"} /\ ~ReadsEnd(r)
    /\ \A t \in GraphTasks : finished[t] = batches

(* The scheduler that gets the end event numbers the next iteration from a *)
(* private count of broadcasts.  It is not always the one that owns the    *)
(* worker that sent the event, yet its count is never behind.              *)
IterationAgreement ==
  \A s \in Schedulers : ReadsEnd(s) => iteration_num[s] = batches

(* Events published to queue i of scheduler s and not yet handled.         *)
PendingEvents(s, i) ==
  [k \in 1..(last_ready_event_id[QueueOf(s, i)] - cur_event_pos[s][i]) |->
     sched_queues[QueueOf(s, i)][(cur_event_pos[s][i] + k - 1) % per_sched_queue_len]]

(* A reader only ever finds what was published for its position: launch    *)
(* events in the broadcast queue, and one end or one termination event in  *)
(* the queue of a scheduler.                                               *)
EventQueuesWellFormed ==
  \A s \in Schedulers : spc[s] # "exited" =>
    /\ \A k \in DOMAIN PendingEvents(s, 1) : PendingEvents(s, 1)[k] = 1
    /\ PendingEvents(s, 0) \in {<<>>, <<0>>, <<EndEvent>>, <<EndEvent, 0>>}

(* The tasks that trigger what a task waits for; for the tasks that wait   *)
(* for nothing, the begin task, whose event launches them.                 *)
Producers == [t \in GraphTasks |->
  IF t = 1 THEN {}
  ELSE IF dependent_event[t] = 0 THEN {1}
  ELSE {u \in GraphTasks : trigger_event[u] = dependent_event[t]}]

Running(t) == \E w \in Workers : wpc[w] = "run" /\ Current(w).pos = t

Abstract == INSTANCE TaskGraph WITH
  Tasks <- GraphTasks,
  iteration <- batches,
  status <- [t \in GraphTasks |-> IF finished[t] = batches THEN "finished"
                                  ELSE IF Running(t) THEN "running" ELSE "waiting"]

(* The kernel executes the graph as TaskGraph promises: every task once    *)
(* per iteration, after its producers, with no iteration overlapping the   *)
(* next, and no iteration left unfinished.                                 *)
ImplementsTaskGraph == Abstract!Spec

(* Once prepare_next_batch has returned false every worker and every       *)
(* scheduler returns.                                                      *)
DrainedKernelExits == mode = "drained" ~> AllExited
==============================================================================
