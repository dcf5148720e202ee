---------------------------- MODULE MegaScoreboard ----------------------------
(***************************************************************************)
(* The Triton mega kernel on one GPU: the tasks of a compiled model are    *)
(* dealt to the work queues of the SMs (or to one queue all SMs draw       *)
(* from), each SM works its queue off in order, waits in place until the   *)
(* tiles a task depends on are signalled in the scoreboard, and signals    *)
(* its own tile.  The host zeroes the scoreboard after each launch.        *)
(*                                                                         *)
(* A plan is a compiled model and how it is to be scheduled:               *)
(*   tasks     the tasks in program order, with their waits (MegaTasks)    *)
(*   built     the tasks the builder counted, prefetches included          *)
(*   strategy  "round_robin" or "zig_zag"                                  *)
(*   runtime   enable_runtime_scheduler: one queue for all SMs             *)
(*   prefetch  enalbe_task_prefetch: a task is fetched one ahead           *)
(***************************************************************************)
EXTENDS Integers, Sequences, FiniteSetsExt

CONSTANTS NumSMs, MaxLaunches,
          Plans                \* a set of plans

ASSUME SizeAssumption == /\ NumSMs \in Nat \ {0}
                         /\ MaxLaunches \in Nat

(* What MegaTasks makes of a model; only what the proofs need of it.       *)
ASSUME PlansAssumption ==
    \A p \in Plans :
        /\ \A t \in DOMAIN p.tasks :
               p.tasks[t].dependency \in Seq([layer : Int, id : Int, start : Int, end : Int])
        /\ DOMAIN p.tasks = 1 .. Len(p.tasks) /\ Len(p.tasks) \in Nat
        /\ p.strategy \in {"round_robin", "zig_zag"}
        /\ p.runtime \in BOOLEAN
        /\ p.prefetch \in BOOLEAN

VARIABLES plan,        \* the plan of this process
          task_deps, task_scoreboard_start,   \* its tensors, see Waits and Signals
          launch,      \* launches so far
          running,     \* the kernel is on the GPU
          board,       \* offsets of the scoreboard that hold TILE_READY_SIGNAL
          work_queue_start,
          pc, cur_task_idx, nxt_task_idx,   \* per SM
          ran          \* history: tasks whose wait is over, in this launch

smvars == <<pc, cur_task_idx, nxt_task_idx>>
model == <<plan, task_deps, task_scoreboard_start>>
vars == <<model, launch, running, board, work_queue_start, smvars, ran>>

SMs == 0 .. NumSMs - 1
TasksOf(p) == DOMAIN p.tasks
Tasks == TasksOf(plan)

------------------------------------------------------------------------------
(* core/scheduler.py.  The k-th task of a queue: tasks are dealt in rounds *)
(* of num_sms, in the zig-zag every second round backwards.                *)
num_sms(p) == IF p.runtime THEN 1 ELSE NumSMs

TaskAt(p, queue, k) ==
    1 + k * num_sms(p) + (IF p.strategy = "round_robin" \/ k % 2 = 0
                          THEN queue ELSE num_sms(p) - 1 - queue)

(* Only the last round can be short, so queues have no gaps.               *)
InQueue(p, queue, k) == k >= 0 /\ TaskAt(p, queue, k) \in TasksOf(p)

Dependency(p, queue, k) == p.tasks[TaskAt(p, queue, k)].dependency

(* Mutant of Covers: one wait for an operator replaces all others for it.  *)
CoversAny(e, d) == e.layer = d.layer /\ e.id = d.id

Covers(e, d) == /\ e.layer = d.layer /\ e.id = d.id
                /\ e.start <= d.start /\ e.end >= d.end

(* task_dependency_opt: a wait is dropped when one that comes before it in *)
(* the queue, dropped or not, was for a larger range of the same tiles.    *)
CoveredByPreTask(p, queue, k, j) ==
    \E k2 \in 0 .. k : \E j2 \in DOMAIN Dependency(p, queue, k2) :
        /\ k2 < k \/ j2 < j
        /\ Covers(Dependency(p, queue, k2)[j2], Dependency(p, queue, k)[j])

(* Mutant of enable_dependency_opt: also for the queue all SMs draw from.  *)
OptAlways(p) == TRUE

enable_dependency_opt(p) == ~p.runtime

Kept(p, queue, k) ==
    {Dependency(p, queue, k)[j] : j \in {i \in DOMAIN Dependency(p, queue, k) :
        ~(enable_dependency_opt(p) /\ CoveredByPreTask(p, queue, k, i))}}

(* The offsets a wait covers are computed with the strides of a scoreboard *)
(* that is allocated for the compiled tasks; the kernel runs with another  *)
(* one, allocated for all tasks the builder has seen.                      *)
Shape(tasks, least) ==
    [ids |-> 1 + Max({least} \cup {tasks[t].id : t \in DOMAIN tasks}),
     tiles |-> Max({1} \cup {tasks[t].num_tiles : t \in DOMAIN tasks})]

Entry(shape, layer, id, tile) == (layer * shape.ids + id) * shape.tiles + tile

WaitEntries(p, dep) ==
    LET shape == Shape(p.tasks, 1)
    IN {Entry(shape, dep.layer, dep.id, tile) : tile \in dep.start .. dep.end - 1}

(* The tensors that are handed to the kernel: per queue and position the   *)
(* signals to wait for, per task its own signal.                           *)
Waits(p) ==
    [queue \in 0 .. num_sms(p) - 1 |->
        [k \in {i \in 0 .. Len(p.tasks) - 1 : InQueue(p, queue, i)} |->
            UNION {WaitEntries(p, dep) : dep \in Kept(p, queue, k)}]]

Signals(p) ==
    LET shape == Shape(p.built, 0)
        tasks == p.tasks
    IN [t \in TasksOf(p) |-> Entry(shape, tasks[t].layer, tasks[t].id, tasks[t].tile)]

------------------------------------------------------------------------------
Init == /\ plan \in Plans
        /\ task_deps = Waits(plan)
        /\ task_scoreboard_start = Signals(plan)
        /\ launch = 0
        /\ running = FALSE
        /\ board = {}
        /\ work_queue_start = 0
        /\ pc = [s \in SMs |-> "exit"]
        /\ cur_task_idx = [s \in SMs |-> -1]
        /\ nxt_task_idx = [s \in SMs |-> -1]
        /\ ran = {}

Queue(s) == IF plan.runtime THEN 0 ELSE s
Current(s) == TaskAt(plan, Queue(s), cur_task_idx[s])

(* run: the grid has one CTA per SM.                                       *)
Launch == /\ ~running
          /\ launch < MaxLaunches
          /\ launch' = launch + 1
          /\ running' = TRUE
          /\ work_queue_start' = 0
          /\ pc' = [s \in SMs |-> "claim"]
          /\ cur_task_idx' = [s \in SMs |-> -1]
          /\ nxt_task_idx' = [s \in SMs |-> -1]
          /\ ran' = {}
          /\ UNCHANGED <<model, board>>

(* scoreboard.zero_(), after the kernel in the same stream.                *)
ZeroScoreboard == /\ running
                  /\ \A s \in SMs : pc[s] = "exit"
                  /\ running' = FALSE
                  /\ board' = {}
                  /\ UNCHANGED <<model, launch, work_queue_start, smvars, ran>>

(* The index of the next task: drawn from the common queue, or the next    *)
(* of the SM's own.                                                        *)
NextIndex(s) == IF plan.runtime THEN work_queue_start ELSE cur_task_idx[s] + 1

Draw == work_queue_start' = work_queue_start + (IF plan.runtime THEN 1 ELSE 0)

(* Mutant of GoOn: the loop goes on while cur_task_idx <= num_tasks.       *)
GoOnLate(s, idx) ==
    pc' = [pc EXCEPT ![s] = IF ~(InQueue(plan, Queue(s), idx) \/ InQueue(plan, Queue(s), idx - 1))
                            THEN "exit" ELSE IF plan.prefetch THEN "prefetch" ELSE "wait"]

GoOn(s, idx) ==
    pc' = [pc EXCEPT ![s] = IF ~InQueue(plan, Queue(s), idx) THEN "exit"
                            ELSE IF plan.prefetch THEN "prefetch" ELSE "wait"]

Claim(s) == /\ pc[s] = "claim"
            /\ cur_task_idx' = [cur_task_idx EXCEPT ![s] = NextIndex(s)]
            /\ Draw
            /\ GoOn(s, NextIndex(s))
            /\ UNCHANGED <<model, launch, running, board, nxt_task_idx, ran>>

(* With prefetching the next task is claimed before the current one has    *)
(* waited.                                                                 *)
Prefetch(s) == /\ pc[s] = "prefetch"
               /\ nxt_task_idx' = [nxt_task_idx EXCEPT ![s] = NextIndex(s)]
               /\ Draw
               /\ pc' = [pc EXCEPT ![s] = "wait"]
               /\ UNCHANGED <<model, launch, running, board, cur_task_idx, ran>>

(* wait_deps: signals are only ever set during a launch, so it does not    *)
(* matter in which order the warps see them.                               *)
WaitDeps(s) == /\ pc[s] = "wait"
               /\ task_deps[Queue(s)][cur_task_idx[s]] \subseteq board
               /\ pc' = [pc EXCEPT ![s] = "run"]
               /\ ran' = ran \cup {Current(s)}
               /\ UNCHANGED <<model, launch, running, board, work_queue_start,
                              cur_task_idx, nxt_task_idx>>

(* The task's code ends with release_tile, unless it is a prefetch.  Then  *)
(* the prefetched task becomes the current one, or the next is claimed.    *)
ReleaseTile(s) ==
    /\ pc[s] = "run"
    /\ board' = IF plan.tasks[Current(s)].releases
                THEN board \cup {task_scoreboard_start[Current(s)]} ELSE board
    /\ IF plan.prefetch
       THEN /\ cur_task_idx' = [cur_task_idx EXCEPT ![s] = nxt_task_idx[s]]
            /\ GoOn(s, nxt_task_idx[s])
       ELSE /\ pc' = [pc EXCEPT ![s] = "claim"]
            /\ UNCHANGED cur_task_idx
    /\ UNCHANGED <<model, launch, running, work_queue_start, nxt_task_idx, ran>>

Step(s) == Claim(s) \/ Prefetch(s) \/ WaitDeps(s) \/ ReleaseTile(s)

(* The host need not launch again.                                         *)
Rest == /\ ~running
        /\ launch = MaxLaunches
        /\ UNCHANGED vars

Next == Launch \/ ZeroScoreboard \/ Rest \/ \E s \in SMs : Step(s)

(* All CTAs are resident and keep polling.                                 *)
Spec == Init /\ [][Next]_vars /\ \A s \in SMs : WF_vars(Step(s))

------------------------------------------------------------------------------
TypeOK == /\ launch \in 0 .. MaxLaunches
          /\ running \in BOOLEAN
          /\ board \subseteq {task_scoreboard_start[t] : t \in Tasks}
          /\ work_queue_start \in Nat
          /\ pc \in [SMs -> {"claim", "prefetch", "wait", "run", "exit"}]
          /\ cur_task_idx \in [SMs -> Int]
          /\ nxt_task_idx \in [SMs -> Int]
          /\ ran \subseteq Tasks
          /\ \A s \in SMs : pc[s] \in {"prefetch", "wait", "run"}
                                => InQueue(plan, Queue(s), cur_task_idx[s])
          /\ ~running => board = {} /\ \A s \in SMs : pc[s] = "exit"

(* Every wait that the graph gave a task is over when the task runs, also  *)
(* those task_dependency_opt has dropped.                                  *)
DepsHeld ==
    \A s \in SMs : pc[s] = "run" =>
        \A j \in DOMAIN Dependency(plan, Queue(s), cur_task_idx[s]) :
            WaitEntries(plan, Dependency(plan, Queue(s), cur_task_idx[s])[j]) \subseteq board

(* What the graph's waits, kept or not, make of a plan: which task waits   *)
(* for the signal of which.                                                *)
Awaited(p) ==
    LET signal == Signals(p)
        dependency(t) == p.tasks[t].dependency
    IN {e \in TasksOf(p) \X TasksOf(p) : \E j \in DOMAIN dependency(e[2]) :
            signal[e[1]] \in WaitEntries(p, dependency(e[2])[j])}

(* The elements that two tasks touch and one of them stores to, and those  *)
(* that one of them touches although none of its descriptors says so.      *)
Meet(p, u, v) ==
    LET a == p.tasks[u]
        b == p.tasks[v]
    IN (a.writes \cap (b.reads \cup b.writes)) \cup (a.reads \cap b.writes)

Strays(p, u, v) == p.tasks[u].strays \cup p.tasks[v].strays

Meetings(p) == {e \in TasksOf(p) \X TasksOf(p) : e[1] < e[2] /\ Meet(p, e[1], e[2]) # {}}

(* The tasks, in program order, that meet by what the builders know.       *)
Conflicts(p) ==
    {e \in TasksOf(p) \X TasksOf(p) :
        e[1] < e[2] /\ ~(Meet(p, e[1], e[2]) \subseteq Strays(p, e[1], e[2]))}

(* Two tasks are ordered by a wait or a chain of waits: were all tasks     *)
(* before the first of them and some in between done, the second or one of *)
(* those in between would still have had to wait for the first.            *)
Closed(set, edges) == \A e \in edges : e[2] \in set => e[1] \in set

Ordered(e, awaited) ==
    \A between \in SUBSET (e[1] + 1 .. e[2] - 1) :
        ~Closed(1 .. e[1] - 1 \cup between \cup {e[2]}, awaited)

(* A signal tells which task has set it, waits go back in program order,   *)
(* and conflicting tasks are ordered.                                      *)
InOrder(p) ==
    LET signal == Signals(p)
        awaited == Awaited(p)
    IN /\ \A u, v \in TasksOf(p) : p.tasks[v].releases /\ signal[u] = signal[v] => u = v
       /\ \A e \in awaited : e[1] < e[2]
       /\ \A e \in Conflicts(p) : Ordered(e, awaited)

StraysMeet(p) == \E e \in Meetings(p) : Meet(p, e[1], e[2]) \cap Strays(p, e[1], e[2]) # {}

AllMeetingsOrdered(p) ==
    LET awaited == Awaited(p)
    IN \A e \in Meetings(p) : Ordered(e, awaited)

(* The compiler hands over such plans.  All tasks that touch an element    *)
(* one of them stores to are ordered exactly if no builder's kernel goes   *)
(* beyond its descriptors to where another task is.                        *)
CompiledInOrder ==
    launch = 0 => InOrder(plan) /\ (AllMeetingsOrdered(plan) <=> ~StraysMeet(plan))

(* Tasks that run at the same time on two SMs touch no element in common   *)
(* that one of them stores to, but where one of them strays.               *)
NoRace ==
    \A s1, s2 \in SMs : s1 # s2 /\ pc[s1] = "run" /\ pc[s2] = "run" =>
        Meet(plan, Current(s1), Current(s2)) \subseteq Strays(plan, Current(s1), Current(s2))

(* The mega kernel implements the execution of its data-flow graph: each   *)
(* task once per launch, after the tasks that store what its builder says  *)
(* it loads, and every launched kernel ends.                               *)
Needs == [t \in Tasks |->
    {u \in 1 .. t - 1 :
        ~(plan.tasks[u].writes \cap plan.tasks[t].reads \subseteq Strays(plan, u, t))}]

Busy == {Current(s) : s \in {sm \in SMs : pc[sm] = "run"}}

Dataflow == INSTANCE MegaDataflow WITH
    needs <- Needs,
    running <- Busy,
    done <- ran \ Busy

ImplementsDataflow == Dataflow!Spec
==============================================================================
