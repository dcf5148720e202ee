# A TLA+ model of mega-infra

The repository collects systems that turn a whole model's forward pass into one
long-running GPU kernel: **Mirage MPK** (`src/mirage`), **Megakernels**
(`src/Megakernels`), **Triton-distributed** (`src/Triton-distributed`) and a
PyTorch model (`src/deepseekv4`).  What they share, and what is hard in them, is
coordination without an operating system: thread blocks that poll counters and
rings in device memory, Python threads that talk to a running kernel through
pinned memory, barriers made of single words.  This directory models that
coordination in TLA+, checks it with TLC and proves part of it with TLAPS.

- [1. Inventory](#1-inventory)
- [2. Modules](#2-modules)
- [3. Runs and bounds](#3-runs-and-bounds)
- [4. Fairness](#4-fairness)
- [5. Proofs](#5-proofs)
- [6. Disagreements found](#6-disagreements-found)
- [7. What is left out, and why](#7-what-is-left-out-and-why)
- [8. Plan](#8-plan)

`PK` below is `src/mirage/include/mirage/persistent_kernel/persistent_kernel.cuh`.

## 1. Inventory

### Mirage MPK

| Component | State | Operations | What is hard |
|---|---|---|---|
| Worker/scheduler engine (`PK`, `runtime_header.h`) | a ring of task ids per worker, a ring of events per scheduler and a broadcast ring, event counters; cursors in registers of each CTA or warp | `prepare_kernel`, `launch_persistent_kernel`, `execute_worker`, `execute_scheduler`, `terminate_schedulers` | all interleavings of workers and schedulers; counters that survive an iteration; rings written without a check for room; in-place waits |
| Offline batching (`prepare_next_batch`, `PK` 222-418) | slots, page tables, ring of free pages, token rows, per-request step | finalize, snapshot, compact, admit, close | arrays rewritten in place; budget and page boundaries; long sequences of batches |
| Attention's page-table reads (`tasks/*/multitoken_paged_attention*`) | KV cache pages | load indices, store new K/V, read old K/V | a wrong address is another request's data |
| Pinned request/completion rings (`online_pinned_runtime.py`, pinned `prepare_next_batch`, `llm_engine.py`) | two rings with ready flags, overflow deque, three locks, row directory, free rows | `submit`, `flush_waiting`, `drain_completions`, `wait_for_request`, `release_request`, `reset`, GPU finalize and admit | threads against each other and against a GPU that takes no lock; cursors given back; rows reused |
| Streaming monitor (`_StreamingMonitor`, `llm_engine.py`) | watched rows, seen tokens | row discovery, polling, time-out | polls data the GPU may reuse meanwhile |
| Online modes (`MODE_ONLINE`, `MODE_ONLINE_NOTOKEN`) | as the offline batching, fed by the host | `prepare_next_batch` | host and GPU share arrays |
| Task graph builder (`runtime.cc`) | tasks, events, dependency maps | register tasks, connect events, rewrite event types | the engine relies on the exact form of its output |
| Python layer, builders, model registry, serving front end | configuration, tensors, HTTP | construct the graph, compile, serve | sequential |
| Task kernels | tiles in shared memory | matmul, norm, attention, sampling | arithmetic |
| Superoptimizer, transpilers, graphs | tensor programs | enumerate, verify by fingerprints, generate code | search over data |

How they interact: the builder writes the graph the engine runs.  A worker that
finishes a task bumps an event counter; the one that completes an event puts it
into a scheduler's ring; the scheduler that reads the graph's end event calls
`prepare_next_batch` (offline, or pinned) while everything else stands still, and
puts the next iteration's first task into a worker's ring.  In pinned mode
`prepare_next_batch` takes requests from a ring that Python threads fill and
reports completions in a ring that they drain.

What makes each correct: the engine runs every task exactly once per iteration,
after its producers, prepares batches only between iterations, never overruns a
ring, and ends when there is no batch.  The batching gives every page to at
most one request, keeps each request's cached tokens under the page table that
attention reads, feeds only tokens that exist, and serves each request once.
The rings deliver each request and each completion once, under the right id,
leave no hole in front of the GPU, and hand a caller its own tokens.

### Megakernels

| Component | State | Operations | What is hard |
|---|---|---|---|
| Instruction pipeline (`src/Megakernels/include/`, the operations of `demos/low-latency-llama/`) | a ring of instruction slots with two semaphores each, the order of the pages per slot, semaphores per page, semaphores per instruction, barrier counters | controller: fetch, permute pages, make and invalidate semaphores, drain; loader, launcher, consumers, storer of each operation | warps several instructions apart; waits that see one parity bit; pages handed on out of order and before asynchronous copies end; everyone waiting on everyone |
| Schedulers and Python VM (`megakernels/`) | a DAG of instructions | assign to SMs, interpret | static assignment against in-place waits on barriers |
| Generators, tools, other demos | | | sequential |

Correct: a page is used by one instruction at a time and in order; what a warp
reads is what its own instruction put there, in this turn of a stage; no semaphore
is met after its life; an instruction reads only finished outputs; every warp comes
to the end of the queue.

### Triton-distributed

`TD` below is `src/Triton-distributed/python/triton_dist/`.

| Component | State | Operations | What is hard |
|---|---|---|---|
| Mega kernel (`TD` `mega_triton_kernel/`) | a queue of encoded tasks per SM or one for all, a scoreboard of tile counters | build tasks per operator, find dependencies, deal, drop waits; `wait_deps`, task, `release_tile` | tasks cut their tensors differently; in-place waits; waits left out at compile time; a scoreboard that survives until the host clears it |
| Barriers and signals (`TD` `kernels/nvidia/common_ops.py`) | a word per grid, rows of flags in every rank's symmetric memory, a target value on the host | grid barrier, CAS barrier, two-exchange barrier, stream waits and writes | ranks a call ahead of others; flags compared for equality and never reset; a word that is never reset |
| Intra-node communication (`allreduce.py`, `allgather.py`, `allgather_gemm.py`) | symmetric buffers, signals, ready flags | one- and two-shot all-reduce by push or multimem, all-gather by a copy engine next to a GEMM | data of the last call in every buffer; a copy engine, a GEMM and the next call side by side; who must have met whom before what is read |
| Other communication kernels | as above | reduce-scatter, all-to-all, expert and sequence parallel, several nodes | the same, over more ranks |
| Compiler extension, little_kernel, shmem bindings, layers, models, tools | | code generation and bindings | |

Correct: no order of a queue deadlocks; a dropped wait is implied by a kept one;
no task reads a tile before it is stored; no rank leaves a barrier before all have
entered; what is copied, reduced or multiplied is of this call; all calls end.

`PROJECT.json` lists every component with its status and every hazard with the
line where it bites.

## 2. Modules

| Module | Models | Role |
|---|---|---|
| `TaskGraph` | what the engine promises | abstract specification |
| `WorkPartition` | `get_first_last_ids`, `get_rand_sched_id` (`PK` 705-734) | pure functions, used by the engine |
| `PersistentKernel` | the worker/scheduler engine on one GPU | detailed; implements `TaskGraph` |
| `MCPersistentKernel` | a small task graph | instance for TLC |
| `WorkPartition_proof`, `PersistentKernel_proof` | | proofs |
| `RequestService` | what batching promises a set of requests | abstract specification |
| `OfflineBatch` | `prepare_next_batch` of `MODE_OFFLINE` and attention's use of the page tables | detailed; implements `RequestService` |
| `OfflineBatch_proof` | | proofs |
| `PinnedRing` | `MODE_ONLINE_PINNED`: Python threads, drain thread, GPU side | detailed |
| `MCPinnedRing` | symmetry of callers | instance for TLC |
| `PinnedRing_proof` | | proofs |
| `MegaDataflow` | what the mega kernel promises a graph of tasks | abstract specification |
| `MegaTasks` | the task builders and the dependencies the graph finds | pure functions, used by the mega kernel |
| `MegaScoreboard` | scheduling, dropping of waits, the loop of an SM, launches | detailed; implements `MegaDataflow` |
| `MCMegaScoreboard` | six small models; what each builder's kernel touches beyond its descriptors | instance for TLC |
| `MegaScoreboard_proof` | | proofs |
| `InstructionWindow` | what the instruction ring promises the warps of a CTA | abstract specification |
| `InstructionRing` | the ring of slots, its semaphores and parities | detailed; implements `InstructionWindow` |
| `LlamaOps` | what each thread does for each operation | pure functions, used by `MegaPipeline` |
| `MegaPipeline` | pages, memory, semaphores and copies of a CTA at work on its queue | extends `InstructionRing` |
| `PipelineOrder` | the order of an operation's events, and what the pipeline asks of it | hypotheses of the proofs, extends `MegaPipeline` |
| `MCMegaPipeline` | four queues of instructions; the order of every operation | instance for TLC |
| `InstructionRing_proof`, `MegaPipeline_proof` | | proofs |
| `RankBarrier` | what a barrier over ranks promises | abstract specification |
| `SymmPrograms` | barriers, collectives and all-gather streams as instructions | pure functions, used by `SymmKernels` |
| `SymmKernels` | ranks, CTAs, streams and a GEMM that run them | detailed; its barriers implement `RankBarrier` |
| `SymmOrder` | the order that barriers and signals give the events of an all-reduce, and what it asks of a program | hypotheses of the proofs, extends `SymmKernels` |
| `MCSymmKernels` | programs of calls; the order of every all-reduce | instance for TLC |
| `SymmKernels_proof` | | proofs |

### PersistentKernel

One action per access to shared memory that another CTA can see, so that all
interleavings the hardware can produce between these accesses are explored.

- *Worker* (`execute_worker`): `WorkerPoll` (the poll of `last_ready_task_id`),
  `WorkerLoad` (copy task ids to shared memory), `WorkerStart` (the wait for the
  dependent event), `WorkerTerminate`, `WorkerTrigger` (the atomic add, which also
  decides who completes the event), `WorkerReserve`/`WorkerStore`/`WorkerPublish`
  (the three steps of enqueueing an event: fetch-and-add, store, CAS loop).
- *Scheduler* (`execute_scheduler`): `SchedPoll`, one `Read...` action per event
  type, `LaunchStore`/`LaunchPublish` (a task id into a worker's ring),
  `StopStore`/`StopPublish` (the terminate task), and
  `HaltReserve`/`HaltStore`/`HaltPublish` (`terminate_schedulers`).
- *Host*: `Launch` = `prepare_kernel` and both kernels, only after the previous
  ones returned, because the stream of `MODE_OFFLINE` waits for them.
- Every poll that finds nothing is a stutter and therefore not an action.
- The variables have the names of the source.  `batches`, `mode` and `finished`
  are history: they are written, never read by a guard (`batches` stands for
  whether `prepare_next_batch` finds a batch, up to `MaxIterations`).
- `GraphAssumption` states the form of the builder's output (`runtime.cc`): event
  0 terminates, event 1 is triggered by the begin task alone and prelaunches the
  rest, events that are waited for are triggered by lower positions, only the last
  event has no consumer.

`SchedPoll` reads a queue's published count only when the entries seen so far are
worked off, as in the code: a scheduler works with stale counts.

### OfflineBatch

The loop bodies of `prepare_next_batch` are actions because the loops update
their arrays in place and the order of the updates is the point:
`FinalizeEmpty/Running/Done` per slot, `Snapshot`, `CompactEmpty/Compact` per
slot, `Admit`, `Close`.  `RunBatch` is the graph's effect on the KV cache: each
token of the batch is stored under the page table attention is given.  Nothing
else changes these arrays in between: this is `PrepareAlone` of
`PersistentKernel`, and so the two modules compose.  A cache cell holds
`<<request, position>>`; values of tokens do not matter.  Any output token may be
the EOS.  `IndexLoad` chooses how a page table is loaded: `"base"` from the slot's
first page (Hopper, Blackwell), `"bulk"` as the Ampere kernels do.

### PinnedRing

Threads are the callers, with one request at a time each, and the drain thread;
they share the drain and flush code.  The GPU side finalizes, admits and runs.  Every access to
the ring that the GPU can see is an action; a lock is a variable only where a
thread blocks on another while it holds it (`ring_lock` and `waiting_lock` in
`submit` and `flush_waiting`, `submit_lock` around a submit), otherwise its
critical section is one action.  `Reset` is the reset at startup, `Shutdown` is
`LLMEngine.close`, which the server calls after its last call has returned.  Prompt and output are abstracted to the request they belong
to, which is what `ReadsOwnTokens` and `RowDirectory` tell apart.

### MegaTasks and MegaScoreboard

`MegaTasks` computes, per operator, the tasks its builder makes (`LinearTasks`,
`RMSNormTasks`, `FlashAttnTasks` and so on): which tile of which tensor each
stores and which part of its inputs it declares to need (`ins`, `outs`).  `find_producer`,
`has_data_dependency` and `to_tasks` turn a list of operators into tasks with
dependencies, `LastDependency` is the other mode, in which an operator waits for
the one before.  What a task really loads and stores are fields of their own (`reads`,
`writes`), and some kernels go beyond what their builders declare: lanes of a partial
block (`Wrapped`) are sent to row or column 0, by the activation also for its stores;
attention that is not causal reads the keys of all rows, its descriptors end with the
tile's own; attention on packed q, k and v declares its own rows only.  `Beyond` finds
such elements and `Compiled` hands them on as the task's `strays`.  `Misfit` is an output
descriptor whose start indices and sizes differ in number, which `Compiles` rejects where
it would be compared.

`MegaScoreboard` is `compile` (`TaskAt`, `Kept`, `Waits`, `Signals`) and the
generated kernel: one action per visible step of an SM (`Draw` or the next index
of its queue, `Claim`, `Prefetch`, `WaitDeps` per dependency, `ReleaseTile`) and
of the host (`Launch`, `ZeroScoreboard`).  Loads and stores of a task are its time
between the last wait and the release.

Two tasks `Meet` at an element both touch and one stores to, and they are `Ordered` if a
wait or a chain of waits leads from one to the other.  `InOrder` says when the waits of a
plan are enough whatever the schedule: all tasks that meet outside their strays are
ordered (`Conflicts`).  `CompiledInOrder` says this of what the compiler made, and, that
the strays hide nothing else, that *all* tasks that meet are ordered exactly if no two of
them meet at a stray.  `InOrder` is the hypothesis of the proofs about races, and
`NoRace` and `Needs` except the strays and nothing else.  So the runs state the property
of the plans in which it holds, and an assumption names the models with plans in which
it does not (`UnorderedModels`): with the graph's waits, non-causal and packed attention and partial
activation blocks; with the waits of the program order only the last, because there every
load waits for everything, but two stores of one operator never wait for each other.

### InstructionRing, LlamaOps and MegaPipeline

`InstructionRing` is the part of the controller (`controller.cuh`) and of the worker
macro (`util.cuh`) that the warps meet in: `LoadInstruction`, `Publish`, `Drain` and
`AwaitInstruction`, `NextInstruction`.  A semaphore is an mbarrier: it counts
arrivals and phases, a wait names a parity and sees nothing else.

`LlamaOps` gives, for an instruction and a thread (lane of the loader, launcher,
storer, consumer warp), the steps the thread takes: for partial attention, for the
three matrix-vector operations built on `matvec_pipeline.cuh`, and for the no-op.  A
step waits, then uses memory, then arrives; it is one action, because a wait
commutes with what others do before it, an arrival with what they do after it, and
the properties ask of every step *that may be taken* whether its memory is its own
at that moment.  The pages of one weight stage are one page, and K and V, which go
through the same steps on semaphores of their own, are one.

`MegaPipeline` runs them.  `FillSlot`, `PublishSlot` and `DrainSlot` are the
controller with its page order (`PageOrder`: the pages of the next instruction in
the order in which this one will release them) and the making and invalidating of
semaphores; `Begin` and `End` take and return an instruction; `Advance` is a step
of a thread; `GroupWait` the consumers' barrier; `Land` and `Reach` end an
asynchronous load or store at any later time.  Memory remembers which
instruction wrote which block where; that is what `OwnData` and `FreshInputs` need.

`PipelineOrder` says when an operation is fit for the pipeline, by the operation's own
code alone.  The events of an instruction are its steps (`Taken`), the arrivals of its
loads (`Landing`) and its stores' (`Reaching`).  `B` gives for each the events that must
have been before it: those before the thread's last step, a whole round of arrivals at a
semaphore that a wait asks for (if the thread knows the round before to be over: only
then does a parity tell which round it is), all that met in a sync of the consumers, a
thread's stores after its flush.  `Before` computes it, and `Ordered` asks of it:
`InRounds` (arrivals make full rounds, one after another), `PagesInOrder` (what touches a
page comes after the wait for it and before a letting-go, and as many shares are let go
as there are consumer warps), `ReadsAreFed` (what a step reads was written before, and
other writes to the same region come before that or after the read), `LoadsMet`,
`OutputsCounted` (the additions to the counter make its mark), `InputsAwaited`, and
that steps are well formed, syncs match and the released pages are all pages.
`AllOrdered` says it of every instruction of `Programs`, and of those whose output
another one reads also `OutputsStored`: each block is in memory before some addition to
the counter.

`attend` gives the parts of a KV cache as `attention_partial.cu` cuts it: their first
block, which may be in the middle of a round of stages, whether they have the newest
block, and which is the last.  TLC evaluates `Ordered` as an
assumption of the instance (`OperationsOrdered`), for all operations
with up to eight blocks (stages are three, so every stage is used again), attention over
all parts of such a cache cut in up to four, and two
consumer warps.  It holds of all but three kinds of attention, exactly: with
`skip_attn_reduction`, whose `PagesInOrder` fails, which is what `pipeline_skip` shows of
the pipeline; of a part that does not start at a stage's first block; and of a part that
has the newest block, which another instruction makes, and is not the last.
`OperationsStore` is the same of `OutputsStored`: without `skip_attn_reduction` attention
raises its counter and has stored no O.

### SymmPrograms and SymmKernels

A kernel is a sequence of instructions (`SymmPrograms`): `once_block`,
`atomic_cas_block`, `barrier_on_this_grid`, the data steps, waits for signals; each
all-reduce and each prologue of `ag_gemm` is one such sequence, in the order of its
source.  `SymmKernels` runs the same calls on every rank: `Launch` is the host,
`Store`, `See`, `SyncThreads` the threads of a rank's pid 0 in an exchange, one
per peer, `Arrive` and `Depart` the grid barrier's two accesses to its word,
`MoveData`, `Await`, `SetReady` the CTAs, `WaitReady`, `CopyPart`, `SetSignal`
the stream of the all-gather, `BeginTile`, `EndTile` the GEMM next to it,
`Deliver` a put of NVSHMEM, which arrives at any time and in any order.  Data is
abstracted to which call's input or result it is: that is all the properties need
to tell stale from fresh.  A segment has a part per CTA, so a copy, a launch and a
reduction are seen half done.  `barrier_all_block`, `Deliver` and the barriers'
`ComeToSync`/`GoFromSync` are NVSHMEM's and modelled as what the code relies on.

`ProgramsAssumption` says what the repository's kernels keep to (`Disciplined`), so that
the proofs are about any program that does, for any number of ranks and CTAs:
`RowsApart` (a row of flags has one use), `PhasesRise` (the values exchanged on a row
rise, and pid 0 meets the other ranks some other way in between, which is why the code
has two rows), `BarriersMarked` (where a mesh barrier begins and ends) and, for the
all-gather, `Gathers`: a call copies its segment and resets its flags between two
meetings with the other ranks (`Fenced`), a stream hands on only what it waited for, and
one signal announces a segment to a rank (`StagesInOrder`), and a tile waits for all ranks
it covers (`TilesWaitForAll`).  These are facts about the order of instructions in
the source, and TLC evaluates them: of every program of the runs, and in
`MCSymmKernels!WiderAssumption` of the programs for 2 to 4 ranks, and of the NUMA ring
for 8 ranks on two nodes.

`SymmOrder` says what the proofs ask of the all-reduces.  The events of a program are: a
CTA passes an instruction, a rank launches a call, a put arrives.  `OrderOf(p)`
collects for each event what must have been before it: what the CTA itself has done; in a
meeting of the pid 0s and in a grid barrier what the others have done until they came
there; at a launch the end of the call before, at an arrival the put; and at a wait
for signals the put that set it, where only one can have set it since it was
last cleared (`Told`).  A program is `Fresh` if it takes nothing from the buffers that a
reduction has to find there (the all-gathers, whose readers are `Gathers`'
subject) or if every read comes after the write that is to feed it, and whatever
else is written to the same cell comes before that write or not before the read
(`ReadsAreFed`).  That is a fact about the code of the kernels: ranks and CTAs that run
ahead do not occur in it.  `AllFresh` says it of every program, and TLC evaluates it in
`MCSymmKernels!ReducesAssumption` for the programs of the runs and for more ranks, CTAs
and mixtures of calls.  The one program that is not `Fresh` is the one-shot
multimem all-reduce with two CTAs, which is what `oneshot` shows of its behaviours.

## 3. Runs and bounds

Run in this directory: `tlc -workers 2 -config <cfg> <module>`.

| Run | Question | Bounds, and why they are enough |
|---|---|---|
| `kernel` | Does the queue protocol deliver every task once per iteration, in order, prepare alone, keep the rings apart and within bounds, and drain, although `get_rand_sched_id` and `get_first_last_ids` disagree? `TypeOK`, `OwnQueuesOnly`, `QueuesNeverOverrun`, `WorkerQueueOrdered`, `PrepareAlone`, `EventQueuesWellFormed`, `IterationAgreement`, `ImplementsTaskGraph`, `DrainedKernelExits` | 4 workers and 3 schedulers is the smallest disagreement (worker 3). A fork and a join with two leaves, either of which may send the end event. 2 iterations and 2 launches: the second iteration meets counters that are not reset, the second launch those that are. Rings of 3 slots wrap, task ids are copied 2 at a time |
| `batch_base` | Paging, compaction, admission, chunked prefill: `TypeOK`, `PagesConserved`, `CacheIntact`, `InputsProduced`, `EveryRequestAdvances`, `ServesRequests` | 4 requests of every prompt length up to 5, 3 slots, 3 tokens per batch, pages of 2 tokens, and exactly the 9 pages that are needed, so the ring of free pages wraps and pages are reused; slots empty in every pattern; sequences end by EOS at any token or by length |
| `ring_two` | All interleavings of two callers, drain thread and GPU: `TypeOK`, `CompletionsExact`, `RowDirectory` | 3 requests (`NumRequests`) and rings of 2 slots, so both rings wrap and the request ring gets full; 2 rows, up to 2 batches per request, so requests finish together, apart and out of order; callers are symmetric |
| `mega_models` | Do tasks wait for all they load, whatever is dropped, and does every launch end? `TypeOK`, `DepsHeld`, `CompiledInOrder`, `NoRace`, `ImplementsDataflow` | 2 SMs and 2 launches (`MaxLaunches`): the second one meets a scoreboard that was used. Six models: a feed-forward layer with a prefetch and one whose last blocks are partial, attention that is causal, that is not, and on packed q, k and v, decode attention with an all-reduce; tensors of few tiles that the operators cut differently; an assumption says of shapes up to 4 x 4 in blocks up to 3 which builders' kernels go beyond their descriptors (`BuildersBeyond`); waits of the graph or of the program order; round-robin, zig-zag or drawn; with and without task prefetching |
| `collectives` | Do barriers and collectives keep calls of ranks that run ahead of each other apart, and end? `TypeOK`, `ReducesFresh`, `TilesFresh`, `CopiesFresh`, `ReadyIsLeftAlone`, `FlagsNotAhead`, `GridMeets`, `CallsEnd`, `ImplementsBarrier` | 12 programs over 2 to 4 ranks, mostly of two calls (two calls are enough for one rank to be a call ahead, which is as far as a barrier lets it), 2 CTAs where CTAs matter; rings over 3 ranks and the NUMA ring over 4, where it first turns, use NVSHMEM's barrier in the prologue, so that the ring and not the barrier fills the state space; a grid word of 3 bits (`WordBits`) wraps in each program; tiles of 4 rows over ranks of 3 cross ranks and end inside one |
| `pipeline` | Do pages, stages, slots and semaphores pass from instruction to instruction in order, and does the queue end? `TypeOK`, `PagesInTurn`, `OwnData`, `SemaphoresLive`, `FreshInputs`, `SlotHeld`, `ImplementsWindow`, `Terminates` | 2 slots and 1 bit, as the repository has; 2 consumer warps, so that they can be apart; 4 queues of 3 instructions (`num_iters`), in which the first slot is used again and every operation occurs, with fewer blocks than the three stages, more, and none; attention over a whole cache, over a part from its middle (block 12 of 16) and over an empty part; instructions that read the output of one before (of `rms_qkv`, `upgate` and `matvec_add`, with one block and with several) and some that read nothing.  The orders of the operations' code are evaluated with up to 8 blocks |
| `batch_bulk`, `ring_hole`, `ring_locks`, `ring_reuse`, `oneshot`, `pipeline_skip` | the disagreements of section 6 | smallest instances that show them |

Named bounds: `MaxIterations` and `MaxLaunches` (engine), `TotalRequests`
(batching), `MaxSteps`, `NumRequests` and `Clients` (rings), `MaxLaunches` (mega
kernel).  In `kernel` the iterations are shared between launches: up to two in the
first launch, up to one in the second.  More schedulers than workers is not an
instance any more: that a ring is still written by its owner only is the theorem
`OwnQueues`.  Deadlock is checked in all engine, batch and pipeline runs; there
`Idle`, `Relaunch` and `Halted` are the only rests.  It is not checked in the
ring runs, where after a shutdown everything really stops, nor in `collectives`, where
it stops after the last call; that nobody stops before is `CallsEnd`.

The ring runs do not cover completion-ring overrun or more writers than slots:
`Capacity` is at least the number of requests in flight there (see hazards).

## 4. Fairness

- `PersistentKernel`: weak fairness of each worker and of each scheduler.  Both
  kernels are launched with one CTA per SM at most, so all of them are resident and
  each keeps executing its loop.  No fairness for the host: it may never launch.
  No strong fairness: the CAS loop of a publish becomes enabled once and stays so.
- `OfflineBatch`: weak fairness of the whole of `prepare_next_batch` and of
  `RunBatch`; that the graph ends is `ImplementsTaskGraph`.
- `MegaScoreboard`: weak fairness of each SM: one CTA per SM, all resident.  None for
  the host, which may never launch.
- `SymmKernels`: weak fairness of the next-state relation as a whole.  Waiting is a
  guard, not a loop, so a program of finitely many calls has no infinite behaviour
  and it is enough that whoever can go on is not held up for ever: kernels with a
  grid barrier are launched cooperatively, so that all CTAs are resident; the
  streams are separate ones; NVSHMEM delivers.
- `MegaPipeline`: weak fairness of `Work` as a whole, for the same reason: the queue is
  finite, all warps of a CTA are resident, and copies end.
- `TaskGraph` as an abstract specification promises no more than that some task that
  can go on does (weak fairness of one disjunction), and nothing of launches.
- `PinnedRing`: none, only safety is checked.  Its progress depends on polling
  with time-outs and, by section 6, does not hold.

## 5. Proofs

`tlapm <module>` checks them.

**`PersistentKernel_proof!TypeCorrect`: `Spec => []TypeOK`**, for any numbers of
workers and schedulers, ring lengths and graphs that satisfy `SizeAssumption` and
`GraphAssumption`.  `TypeOK` is inductive.  It says more than types: a program
counter implies what the locals hold (a worker past its poll has a task, a running
task is a graph position and not the terminate task, what a scheduler still has to
launch are graph tasks), and an event is only sent to a queue that exists, which
needs the arithmetic of `get_rand_sched_id`.  One lemma per action, combined per
actor.

**`PersistentKernel_proof!OwnQueues`: `Spec => []OwnQueuesOnly`**: a worker's ring
is written by the scheduler that owns it and by no other.  This is not inductive:
a scheduler that reads the end event writes to its `next_worker`, which is its own
only if it has any.  `OwnInv` adds what the argument rests on: `NextWorkerOwn` (a
scheduler with workers never moves `next_worker` out of its block),
`LaunchersServe` (one that is launching has workers) and `EndEventsServed` (the end
event lies only in rings of schedulers with workers).  The last is preserved
because `get_rand_sched_id` never picks a scheduler without workers, although it
disagrees with `get_first_last_ids` about who owns a worker:

- `PartsDisjoint`, `PartsCover`: the blocks of `get_first_last_ids` partition the
  workers;
- `RandNotAfterOwner`: `get_rand_sched_id` picks a scheduler that exists and comes
  no later than the owner;
- `RandHasWorkers`: hence one with workers.

Assumptions of these two are only `SizeAssumption` and `GraphAssumption`; TLC
evaluates both in every run of the module.

**`PersistentKernel_proof!Invariant`: `Dimensioned => (Spec => []IInv)`**, and what
follows from it, each for any numbers of workers, schedulers, tasks and events and any
graph that satisfies `GraphAssumption`:

- `Agreement` (`IterationAgreement`), `PreparesAlone` (`PrepareAlone`), `QueuesOrdered`
  (`WorkerQueueOrdered`), `EventsWellFormed` (`EventQueuesWellFormed`);
- `NeverOverrun` (`QueuesNeverOverrun`), if every scheduler has tasks to launch;
- `ExecutesTaskGraph`: `Dimensioned => (Spec => Abstract!Init /\
  [][Abstract!Next]_(Abstract!vars))`, the safety part of `ImplementsTaskGraph`.

`Dimensioned` is about the queue lengths: a worker's ring has room for its share of the
tasks (`NumTasks - 2 <= (per_worker_queue_len - 1) * NumWorkers`) and an event ring for
three events.  The code fixes 8192 and 4096 entries (`persistent_kernel.cuh` 1612-1613)
and nothing checks them against the graph but the asserts of the readers (875, 1203),
which come after the writes; the theorem says how large a graph they are good for.  The
further hypothesis of `NeverOverrun` cannot be dropped: a scheduler without tasks is
waited for by no iteration, and the broadcast queue may run away from it.  The other
theorems hold with such schedulers, too, because the end event is never sent to one
(`EndsDealt`, again by `RandNotAfterOwner`).

None of the properties is inductive.  Whether a batch is prepared alone depends on there
being one end event at most, this on the number of completions counted for it, this on
every task running once in an iteration, this on what the schedulers have put into the
queues, and this on when they read the launch event; the parts of `IInv` follow that
circle:

- `WorkerCursors`, `SchedCursors`: the order of the cursors of each ring; what a worker
  has copied is what its ring still holds; a scheduler's iteration is the number of
  launch events it has read;
- `Posting`: one event at most is between its reservation and its publication;
- `Broadcasts`: the broadcast queue holds one launch event for each iteration whose begin
  task is done, and every scheduler with tasks is at most one behind;
- `Progress`: the count of an event is one full round of its producers for each earlier
  iteration and those that are done in this one; what runs or is done has its
  producers behind it;
- `Serving`: the end event, the begin task and a worker that posts exclude each other and
  everything else;
- `Tasks`: what is queued is of this iteration, not done, in one place only and, in one
  queue, a row of the task list apart (`NumWorkers` positions, hence that few tasks);
- `Dealing`: what a scheduler has still to launch lies behind all that it has launched,
  and its next worker is the one in the column of its next task (the rotation of
  `next_worker` against `(p - 2) % NumWorkers`);
- `Stored`: the slot about to be published holds what was stored there;
- `Draining`, `Idling`: the shutdown, and what a launch finds.

`NextInv` has one lemma per action.  TLC had checked `IInv` on instances of up to four
workers and three schedulers, among them one where a scheduler has workers and no tasks
and one with more schedulers than workers.

**`MegaScoreboard_proof`**, for any number of SMs and any plans that satisfy the
module's assumptions:

- `TypeCorrect`: `Spec => []TypeOK`; an SM works only on tasks of its own queue.
- `DroppedWaitsHeld`: `Spec => []DepsHeld`: when a task runs, every wait the graph
  gave it is over, the dropped ones too.  The invariant behind it: an SM that has
  passed index i of its queue has seen all that the kept waits up to i ask for, and
  the scoreboard only grows within a launch; a dropped wait is covered by a kept
  one of an earlier task of the same queue (`CoveredByPreTask`), and covering
  means a larger range of the same counters.
- `DealtOnce`: round-robin and zig-zag deal every task to one place of one queue.
- `OrderlyPlansNeverRace`: `AllInOrder => (Spec => []NoRace)`, and
  `OrderlyPlansExecuteTheGraph`: `AllInOrder => (Spec => Dataflow!Init /\
  [][Dataflow!Next]_(Dataflow!vars))`, the safety part of `ImplementsDataflow`.  The
  hypothesis is about the compiler alone, and TLC checks it of every compiled plan
  (`CompiledInOrder`): a signal belongs to one task, waits go back in program order,
  and a chain of waits leads from a task to every earlier one it conflicts with.  Both
  conclusions except, as the hypothesis does, the elements that a kernel touches though its
  builder does not say so (section 6): there the plans are not in order and tasks do
  race, whatever the scheduler does.  What
  is proved is that the scheduler and the kernel keep that order, whatever the number
  of SMs, the strategy, the dropping of waits, a common queue and prefetching.  The
  invariant is `RaceInv`.  Its part `DealInv` follows the places of the queues: what was
  drawn is held by one SM or has begun (`DrawnNotLost`, `NobodyShares`, `HeldNotRun`),
  nothing else has (`RunDrawn`), and an SM gives up only behind the end (`Exhausted`);
  so every task begins once, and when all SMs have given up every task has run
  (`AllRan`).  `OrderInv` says that a signal on the board comes from a task that is done
  (`SignalsOfDone`) and that what has begun waited for tasks that are (`WaitsOver`);
  `ConflictDone` then carries the order of the waits over to the conflicts.

**`OfflineBatch_proof`**, for any numbers of requests, slots, tokens per batch, pages and
page sizes with enough pages for the longest sequences (`SizeAssumption`):

- `Types`, `EveryPageHeldOnce`, `BatchesOfProducedTokens`, `NobodyStarves`: `TypeOK`,
  `PagesConserved`, `InputsProduced` and `EveryRequestAdvances` are invariants.  They
  hold when a batch runs; in between, `prepare_next_batch` rewrites its arrays in place
  and nothing of the kind is true.  The inductive invariant `IInv` says what each point
  of the loops has left behind: `Layout` (the page and token tables only grow
  from slot to slot, by no more pages than a longest request needs), `OldSlots` (a slot
  not passed yet still has last batch's entries, its pages in the snapshot),
  `PackedSlots` (the same of the slots packed so far), `Occupancy` (a request is in one
  slot, and is one that was taken up and not served), `Inputs`, `PagesApart` (no page
  occurs twice among tables, snapshot and free ring) and `PageCount`.  That no page is
  lost then follows by counting.  Nobody starves because each slot got at least one
  token and only a batch whose budget is used up ends within a prompt, both of which
  `OldSlots` and `PackedSlots` keep.
- `CacheStaysIntact`: `IndexLoad = "base" => (Spec => []CacheIntact)`.  The hypothesis
  excludes the loads of the Ampere kernels, for which the property is false
  (`batch_bulk`).
- `RefinesService`: the safety part of `ServesRequests`, with the `next`, `active`,
  `served` and `drained` of the abstract specification read off.

**`PinnedRing_proof`**, for any callers, requests, rows and ring slots:

- `Types`: `Spec => []TypeOK`; `RowsListed`: `Spec => []RowDirectory`.  The invariant
  says that whatever travels through deque, ring and batch was submitted (`Travelling`),
  that no two callers share a request (`OwnRequest`), how far the
  GPU's walk over the batch has come (`Walk`) and that no two entries of the batch have
  a row in common (`RowsApart`).  They hold although `flush_waiting` leaves holes in the
  ring (`ring_hole`): a hole stops the GPU, it does not mislead it.
- `CompletionsDrainedOnce`: `Spec /\ []NeverLapped => []CompletionsExact`.  The GPU writes
  a completion without looking whether its slot was drained; `NeverLapped` says that
  when it writes, the drain thread is less than a ring behind.  The code relies on
  rings longer than the number of requests in flight; the theorem shows that this,
  and nothing else about the schedule, is what it relies on.

**`InstructionRing_proof`**, for any numbers of slots, worker warps and instructions
(`RingAssumption`):

- `SlotHeldTheorem`: `RingSpec => []SlotHeld`: a warp that runs an instruction has it in
  its slot.  The invariant `RingInv` says how many phases each semaphore has left
  behind: the arrival of slot r as many as instructions were published in it, the
  end as many as were run there by every warp, its pending count the warps that
  have run the current one.  From it `ParityTells`: a warp that looks at a parity
  can be behind by one phase at most, so that the bit is as good as the number;
  `SlotFree` and `AwaitTells` are that for the controller and for the warps.
- `RefinementTheorem`: `RingSpec => Window!Spec`: initial states and every step map,
  with the published, index and running of the abstract specification read off.

**`MegaPipeline_proof`**, for any numbers of slots, worker warps and instructions, any
bits of the index per page, and any queues of instructions (`PipelineAssumption`):

- `PipelineTheorem`: `Spec => []SlotHeld /\ ImplementsWindow`: every step of the
  pipeline is a step of the ring or leaves it alone (`RingSteps`), so both facts hold
  whatever the operations do.
- `PipelineTypeOK`, `PagesInTurnTheorem`, `OwnDataTheorem`, `SemaphoresLiveTheorem`,
  `FreshInputsTheorem`: if `AllOrdered` and `BitsTell` then `TypeOK`, `PagesInTurn`,
  `OwnData`, `SemaphoresLive` and `FreshInputs` are invariants.  The first hypothesis
  is about each operation taken alone, and TLC evaluates it (see `PipelineOrder` in
  section 2).  The second is about numbers: two instructions that can be under way
  together differ in one of the bits that `wait_page_ready` looks at; TLC evaluates it
  too.  What is proved is that operations that are right alone stay right
  in the pipeline: with two instructions under way that take pages from each other,
  slots, semaphores and scratch used again, and loads and stores that end at any time.

  The invariant is `PipeInv`, on top of `RingInv`.  `Been(n)` are the events of
  instruction n so far, and `InOrder` says that they are closed under `B`; all else is
  read off that.  `Phases` says that a semaphore's phase is the round its arrivals have
  come to and its pending count what is there of that round: so a parity tells the
  round, and a wait yields what `B` promised (`InOrder` of the next state).
  `Turns` is about a page: its semaphores hold n full lettings-go and c warps' shares of
  another (`PageState`, a count with several bits that carry on their own), and
  instruction n has its turn (`TurnOf`): those before it have let go, those after have
  not seen the page ready, which `BitsTell` gives; `Orders` says that the pages of a
  slot are always all pages, so every page has one lid in every instruction.  Whoever
  touches a page has seen it ready and has not let it go yet, so it finds its turn.
  `Data` says that a region holds what its next reader will read from
  the moment it is written, `Copies` that what is under way was started, `Stored`
  that a counter is the number of additions done, so a full one means all of them
  and hence all stores (`OutputsStored`).

**`SymmKernels_proof`**, for any numbers of ranks and CTAs, any width of the grid
barrier's word and any programs that satisfy `ProgramsAssumption`:

- `TypeCorrect`, `FlagsNeverAhead`, `GridsMeet`: `TypeOK`, `FlagsNotAhead` and
  `GridMeets` are invariants.
- `BarriersAreBarriers`: `Spec => Barrier!Init /\ [][Barrier!Next]_(Barrier!vars)`, the
  safety part of `ImplementsBarrier`: no rank, and where all CTAs take part no CTA of
  any rank, leaves a barrier before all have entered it.

  Their invariant is `IInv`.  Its part `Grid` is about one rank: a word that only grows
  by additions and wraps shows in its top bit whose round it is; `WordCounts` says that
  below that bit it counts the CTAs of the round that have arrived, pid 0's large addition
  being the one that turns the bit, and `GridTogether` that the CTAs are at most one grid
  barrier apart.  `Meet` relates pairs of ranks: a flag written in an exchange holds the
  phase of the last exchange its writer has begun on that row (`FlagStored`), a
  flag of a compare-and-swap is up exactly between the writer's raising and the reader's
  lowering it (`FlagRaised`), NVSHMEM's count is the number of such barriers come to
  (`SyncsCounted`), and a thread that has seen its peer knows that the peer has begun this
  exchange (`SeenStarted`).  `NobodyAhead` follows, and is what all else needs:
  a rank is past a meeting only if every other rank has come to it.  So a peer is
  at most one meeting ahead, `PhasesRise` puts another one between two uses of a
  row, and the flag a thread waits on cannot have been written over.
- `CopiesOfTheCall`, `ReadySegmentsStay`, `TilesOfTheCall`: `CopiesFresh`,
  `ReadyIsLeftAlone` and `TilesFresh` are invariants: what the copy engine hands on and
  the GEMM loads is of this call, and no rank, even one that is a call ahead, writes a
  segment that somebody has called ready.

  They rest on `GInv` (`SegmentsInvariant`).  From `NobodyAhead` and the grid barrier
  come two fences: when a CTA writes its own segment or resets its flags, every
  stream and GEMM of the previous call has ended, on all ranks (`EndedSoAll`); when a
  kernel has ended, every rank has its own segment of this call (`ReachedSoAll`).  `After`
  says that streams and tiles work only then and that what they waited for stays
  ready; `OwnFresh` how long a rank's own segment is of a call; `ReadyFresh` that a
  segment called ready was signalled in some call, the flags have not been reset since,
  and all its parts are of that call; `CopiedSoFar` the same of a copy under way.
  `ReadyIsOfTheCall` and `OneSignal` then exclude that this was another call or another
  sender.
- `ReducesOfTheCall`: if `AllFresh` then `ReducesFresh` is an invariant: what a reduction
  loads is what was written for it in this call, in all four all-reduces and in any
  mixture of them.  The hypothesis is about each program's order of events
  (`SymmOrder` in section 2).  What is proved is that barriers, signals and puts keep that
  order, with ranks a call ahead of each other, flags cleared and set again, and puts that
  arrive at any time.

  The invariant is `RInv`, on top of `IInv`.  `Been` are the events so far, read off the
  program counters, the launches and the puts that have arrived; `InOrder` says that
  they are closed under `OrderOf` (`OrderKept`).  Each action adds no event, or one
  (`Happens`), and what must be before that one has been: in a meeting by `NobodyAhead`,
  in a grid barrier by `GridMeets`, at a wait by `SignalsTell`: a signal that is up was
  set by a put that has arrived and has not been cleared since.  `PutsSent` says that
  what is on the way was sent.  `CellsFed` then says of a cell
  that is still to be read, and has been written for it, that it holds what was written.

Only model-checked: that the compiler's plans are orderly (`CompiledInOrder`: what the
task builders compute from shapes), that the Llama operations are
(`AllOrdered`) and that the all-reduces are (`AllFresh`): what loops over blocks,
ranks or CTAs amount to for every number of them is induction over data; all liveness, also that of `ImplementsTaskGraph`, `ServesRequests`,
`ImplementsDataflow` and `ImplementsBarrier`, and `CallsEnd`, `Terminates` and
`DrainedKernelExits`, since the prover handles neither `ENABLED` nor fairness here.  What
recursive definitions compute for every input would be out of its reach too: the two
that the hypotheses use, `Before` of `PipelineOrder` and `OrderOf` of `SymmOrder`, occur in
the proofs through `Ordered` and `ReducesInOrder` alone, which ask of them that they claim
no more than is known (`Known`).

## 6. Disagreements found

Each is a run that TLC ends with a counterexample, and an entry of `findings`
that quotes the statement it contradicts.

- `batch_bulk`: the Ampere attention kernels load groups of four page indices from
  the start of the array of all requests, not from the request's first page.
- `ring_hole`: `flush_waiting` claims a ring position before it knows that a request
  waits and gives it back later; a position claimed in between leaves a hole in
  front of the GPU.
- `ring_locks`: `submit` and `flush_waiting` take two locks in opposite orders.
- `ring_reuse`: the GPU reuses the row of a completed request before the CPU has
  read its tokens.
- `oneshot`: in the one-shot multimem all-reduce only pid 0 meets the other ranks,
  after its own part of the copy; another CTA of a rank may still be copying what
  a peer already reduces.
- `pipeline_skip`: with `skip_attn_reduction`, which the demo sets, the storer of partial
  attention waits for O but not for L before it lets the page go that L is still
  to be stored on; the next instruction may load into it meanwhile.

Read off the code and not shown by a run, because the models above do not have what
they need: signals of one all-reduce method are read as another's barrier
(`protocol_sequence` among the hazards); `BarrierAllContext` allocates half the
flags of its non-atomic barrier; a caller that writes its own rows
(`local_copy=False`) may overtake peers that still pull the last call's; the
scoreboard's strides are computed once from all tasks and once per queue
(`scheduler.py` 66-78 against `model_builder.py` 526), which must agree; with more than one bit per page
(`INSTRUCTION_PIPELINE_STAGES_BITS`), `wait_page_ready` looks at bits of different
moments.

Where the code's own parts do not fit each other and no doc or test says what is meant, the
runs say exactly where that is instead of ending with a counterexample.

In the mega kernel (`mega_models`; `BuildersBeyond`, `UnorderedModels`, `AttentionMisfits`
of `MCMegaScoreboard`):

- The activation sends the lanes of a partial block to row or column 0, for the loads and
  for the stores (`kernels/activation.py` 43-60).  A task with such a block loads row 0
  without a wait for it and stores there what it computed, at the same time as the task
  whose row it is.  With 17 rows in blocks of 16, say, this is the second block.  `Linear`
  sends lanes to row 0 for its loads only (`kernels/linear.py` 46) and masks the stores:
  the load is not waited for, either, but nothing is made of it.
- Attention that is not causal reads the keys and values of all rows, while the
  descriptors end with the tile's own (`tasks/flash_attn.py` 192-198).
- `qkv_pack_flash_attn` declares the rows of its own tile (143-146), while the kernel
  reads keys and values from row 0 on; and its heads end one before its value head.
- The output descriptors of both have four start indices and two sizes (148-149,
  200-201), which the assertion of `core/utils.py` 65 refuses as soon as an operator that
  does not need its whole input comes after.  The models here end with attention, as the
  tests do, where nothing compares the descriptor.

In the Llama operations (`pipeline`; `OperationsOrdered`, `OperationsStore` of
`MCMegaPipeline`):

- The launcher of partial attention takes a block's stage from its number in the whole
  cache, the consumer from its number in the part (`attention_partial.cu` 359, 464): they
  agree only where a part starts at a multiple of three.
- It waits for the newest block only in the last part (368-369).  Where the blocks do not
  divide, the last parts may be empty, and the newest block is in one before.
- `store_o_no_skip` asks for `laneid == 0` where no variable of that name is in scope
  (587): it names the function, so that without `skip_attn_reduction` no lane waits for O
  or stores it, and the counter is raised all the same.

The scheduler of the demo makes one part and sets `skip_attn_reduction`, and so meets none of the
three.

## 7. What is left out, and why

- *Engine*: the branches for `EVENT_LAUNCH_TASKS` and massive launches (the
  builder rewrites these event types, `runtime.cc` 943-960, so they are not
  reached); several GPUs (remote queues through NVSHMEM); speculative decoding;
  profiling.  The lag of a scheduler without tasks behind the broadcast ring is
  unbounded in the code; the run has none (see `NeverOverrun` in section 5).
  Memory is sequentially consistent in the model: the code publishes with
  release/acquire or fences at each of the modelled steps.
- *Batching*: the arithmetic of attention and sampling; enough pages is an
  assumption (`SizeAssumption`), the code does not look.
- *Rings*: the token budget of a batch (a batch may close at any time once it has
  a request); admission is one step, since nobody looks at half an admission; the
  copy of the prompt and the fields of a slot are one step, since only the ready
  flag makes them visible; token rows are one value.  A caller that timed out does not come back, and a
  request id is drawn once (the code draws it outside the lock, see hazards).
- *Mega kernel*: the arithmetic of tasks; the flags of its barrier task (the barrier
  is `SymmKernels`' subject); profiling.
- *Megakernels*: one SM: the counters that instructions of other SMs raise are not
  there, nor is the assignment to SMs; `attention_reduction` and `rms_lm_head`; the
  Blackwell branches (tensor memory), clusters, timing records, the arithmetic.  The
  wait for a page's several bits is one look at all of them (the run has one bit).
- *Symmetric memory*: memory is sequentially consistent (the code uses release and
  acquire at system scope at each modelled access); the double-tree all-reduce, TMA and
  multimem-store variants, reduce-scatter, several nodes, expert and
  sequence parallel kernels, AMD and MetaX ports.
- *Not modelled*: arithmetic kernels, code generators, the superoptimizer (a
  search over data), bindings, demos.

## 8. Plan

Done:

1. `TaskGraph`, `WorkPartition`, `PersistentKernel`: the engine and its abstract
   specification; proofs of all its invariants and of the safety part of the refinement.
2. `RequestService`, `OfflineBatch`: the batching; proofs of all its invariants and of the
   safety part of the refinement.
3. `PinnedRing`: the rings; proofs of its three invariants.
4. `MegaDataflow`, `MegaTasks`, `MegaScoreboard`: the Triton mega kernel; proofs of all its
   invariants and of the safety part of the refinement, from the compiler's order.
5. `RankBarrier`, `SymmPrograms`, `SymmKernels`, `SymmOrder`: barriers and collectives; proofs
   of all invariants, of the all-reduces from the order of each, and of the safety part
   of the refinement.
6. `InstructionWindow`, `InstructionRing`, `LlamaOps`, `MegaPipeline`, `PipelineOrder`: the
   Megakernels pipeline of one SM; proofs of all its invariants and of the
   refinement, from the order of each operation.
7. The disagreements of section 6.

Next, in order of importance:

8. `MegaPipeline` on several SMs: barrier counters across them, the assignment of
   `scheduler.py`, and that no assignment deadlocks; `attention_reduction`.
9. `StreamMonitor` on top of `PinnedRing`: request ids drawn outside the lock, row
   discovery against completion, stale step counts.
10. More programs for `SymmKernels`: reduce-scatter, all-to-all.
11. The builder: that the graph it emits satisfies `GraphAssumption`.
