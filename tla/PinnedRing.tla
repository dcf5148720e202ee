------------------------------ MODULE PinnedRing ------------------------------
(***************************************************************************)
(* MODE_ONLINE_PINNED: Python threads and the GPU exchange requests and    *)
(* completions through two rings in pinned memory, each slot with a ready  *)
(* flag (OnlinePinnedRuntime and the pinned prepare_next_batch).  A ring   *)
(* that is full overflows into a deque on the CPU side.                    *)
(*                                                                         *)
(* Threads are the callers of LLMEngine.submit, each with one request at a *)
(* time, and the persistent drain thread; all of them drain completions    *)
(* and flush the deque.  A request's prompt and output are abstracted to   *)
(* the request they belong to.  A lock whose holder does nothing another   *)
(* thread or the GPU could disturb is taken and released in one action.    *)
(***************************************************************************)
EXTENDS Integers, Sequences, FiniteSets, SequencesExt

CONSTANTS Clients,        \* callers
          NumRequests,    \* bound: requests submitted
          Drainer,        \* the drain thread
          None,           \* no thread, or no request
          Capacity,       \* MPK_PINNED_RING_CAPACITY
          NumRows,        \* MPK_MAX_NUM_BATCHED_REQUESTS
          MaxSteps        \* bound: batches until max_seq_length is reached

Threads == Clients \cup {Drainer}
Requests == 0..NumRequests - 1
Slots == 0..Capacity - 1
Rows == 0..NumRows - 1
NoRow == -1
NoEntry == <<None, NoRow>>

ASSUME SizeAssumption ==
  /\ Drainer \notin Clients /\ None \notin Threads \cup Requests
  /\ NumRequests \in Nat
  /\ Capacity \in Nat \ {0} /\ NumRows \in Nat \ {0} /\ MaxSteps \in Nat \ {0}

VARIABLES
  req_ready, req_request_id, inbox_tokens,      \* request ring, per slot
  comp_ready, comp_entry,                       \* completion ring: <<rid, row>>
  cpu_req_tail, cpu_comp_head,                  \* CPU cursors
  submit_lock, ring_lock, waiting_lock,         \* the thread that holds it
  waiting,                                      \* deque of the overflow
  completions,                                  \* per request: its row
  next_rid,                                     \* the next request id
  pc, pos, item,    \* per thread: position claimed, request moved there
  rid, result,                \* per client: its request, the tokens it read
  shutdown,                                     \* pinned_shutdown, _drain_stop
  gpu_req_head, gpu_comp_tail, free_rows, batch, tokens, rid_at_row, gpc, gslot,
  reported                                      \* history: completions in order

requests == <<req_ready, req_request_id, inbox_tokens>>
locks == <<submit_lock, ring_lock, waiting_lock>>
callers == <<next_rid, rid, result>>
threads == <<pc, pos, item, callers>>
cpu == <<cpu_req_tail, cpu_comp_head, locks, waiting, completions, threads, shutdown>>
gpu == <<gpu_req_head, gpu_comp_tail, free_rows, batch, tokens, rid_at_row,
         gpc, gslot, reported>>
vars == <<requests, comp_ready, comp_entry, cpu, gpu>>

(* The runtime is constructed and its drain thread runs; the kernel is not *)
(* launched yet.                                                           *)
Init ==
  /\ req_ready = [s \in Slots |-> FALSE]
  /\ req_request_id = [s \in Slots |-> None]
  /\ inbox_tokens = [s \in Slots |-> None]
  /\ comp_ready = [s \in Slots |-> FALSE]
  /\ comp_entry = [s \in Slots |-> NoEntry]
  /\ cpu_req_tail = 0 /\ cpu_comp_head = 0
  /\ submit_lock = None /\ ring_lock = None /\ waiting_lock = None
  /\ waiting = <<>>
  /\ completions = [r \in Requests |-> NoRow]
  /\ next_rid = 0
  /\ rid = [c \in Clients |-> None]
  /\ pc = [t \in Threads |-> IF t = Drainer THEN "drain" ELSE "idle"]
  /\ pos = [t \in Threads |-> 0]
  /\ item = [t \in Threads |-> None]
  /\ result = [c \in Clients |-> None]
  /\ shutdown = FALSE
  /\ gpu_req_head = 0 /\ gpu_comp_tail = 0
  /\ free_rows = [i \in 1..NumRows |-> i - 1]
  /\ batch = <<>>
  /\ tokens = [r \in Rows |-> None]
  /\ rid_at_row = [r \in Rows |-> None]
  /\ gpc = "off" /\ gslot = 1
  /\ reported = <<>>

(* _ensure_kernel_running: reset the runtime and launch the kernel.  The   *)
(* cursor is reset without a lock.                                         *)
Reset ==
  /\ gpc = "off"
  /\ cpu_req_tail' = 0
  /\ gpc' = "finalize"
  /\ UNCHANGED <<requests, comp_ready, comp_entry, cpu_comp_head, locks, waiting,
                 completions, threads, shutdown, gpu_req_head, gpu_comp_tail,
                 free_rows, batch, tokens, rid_at_row, gslot, reported>>
-----------------------------------------------------------------------------
Slot(p) == p % Capacity
Goto(t, label) == pc' = [pc EXCEPT ![t] = label]

(* submit: one caller at a time, and only of an engine that is constructed *)
(* and not closed.                                                         *)
Submit(c) ==
  /\ pc[c] = "idle" /\ gpc # "off" /\ ~shutdown
  /\ submit_lock = None
  /\ next_rid < NumRequests
  /\ submit_lock' = c
  /\ rid' = [rid EXCEPT ![c] = next_rid]
  /\ next_rid' = next_rid + 1
  /\ item' = [item EXCEPT ![c] = next_rid]
  /\ Goto(c, "claim")
  /\ UNCHANGED <<requests, comp_ready, comp_entry, cpu_req_tail, cpu_comp_head,
                 ring_lock, waiting_lock, waiting, completions, pos, result,
                 shutdown, gpu>>

(* Claim the next position of the request ring.                            *)
Claim(t, next) ==
  /\ ring_lock = None
  /\ ~req_ready[Slot(cpu_req_tail)]
  /\ pos' = [pos EXCEPT ![t] = cpu_req_tail]
  /\ cpu_req_tail' = cpu_req_tail + 1
  /\ Goto(t, next)
  /\ UNCHANGED <<requests, comp_ready, comp_entry, cpu_comp_head, locks, waiting,
                 completions, item, callers, shutdown, gpu>>

SubmitClaim(c) == pc[c] = "claim" /\ Claim(c, "copy")

(* The ring is full: the ring lock is kept while waiting for the deque's.  *)
SubmitFull(c) ==
  /\ pc[c] = "claim"
  /\ ring_lock = None
  /\ req_ready[Slot(cpu_req_tail)]
  /\ ring_lock' = c
  /\ Goto(c, "enqueue")
  /\ UNCHANGED <<requests, comp_ready, comp_entry, cpu_req_tail, cpu_comp_head,
                 submit_lock, waiting_lock, waiting, completions, pos, item,
                 callers, shutdown, gpu>>

SubmitEnqueue(c) ==
  /\ pc[c] = "enqueue"
  /\ waiting_lock = None
  /\ waiting' = Append(waiting, item[c])
  /\ ring_lock' = None /\ submit_lock' = None
  /\ item' = [item EXCEPT ![c] = None]
  /\ Goto(c, "drain")
  /\ UNCHANGED <<requests, comp_ready, comp_entry, cpu_req_tail, cpu_comp_head,
                 waiting_lock, completions, pos, callers, shutdown, gpu>>

(* The prompt and the fields of the slot, then its ready flag.             *)
FillSlot(t) ==
  /\ pc[t] = "copy"
  /\ inbox_tokens' = [inbox_tokens EXCEPT ![Slot(pos[t])] = item[t]]
  /\ req_request_id' = [req_request_id EXCEPT ![Slot(pos[t])] = item[t]]
  /\ Goto(t, "publish")
  /\ UNCHANGED <<req_ready, comp_ready, comp_entry, cpu_req_tail, cpu_comp_head,
                 locks, waiting, completions, pos, item, callers, shutdown, gpu>>

Publish(t) ==
  /\ pc[t] = "publish"
  /\ req_ready' = [req_ready EXCEPT ![Slot(pos[t])] = TRUE]
  /\ item' = [item EXCEPT ![t] = None]
  /\ pos' = [pos EXCEPT ![t] = 0]
  /\ IF submit_lock = t THEN submit_lock' = None /\ Goto(t, "drain")
                        ELSE UNCHANGED submit_lock /\ Goto(t, "flush")
  /\ UNCHANGED <<req_request_id, inbox_tokens, comp_ready, comp_entry,
                 cpu_req_tail, cpu_comp_head, ring_lock, waiting_lock, waiting,
                 completions, callers, shutdown, gpu>>
-----------------------------------------------------------------------------
(* drain_completions: take one completion off its ring, all under _lock.   *)
DrainOne(t) ==
  LET slot == Slot(cpu_comp_head)
  IN /\ pc[t] = "drain"
     /\ comp_ready[slot]
     /\ completions' = [completions EXCEPT ![comp_entry[slot][1]] = comp_entry[slot][2]]
     /\ comp_ready' = [comp_ready EXCEPT ![slot] = FALSE]
     /\ cpu_comp_head' = cpu_comp_head + 1
     /\ UNCHANGED <<requests, comp_entry, cpu_req_tail, locks, waiting, threads,
                    shutdown, gpu>>

DrainEnd(t) ==
  /\ pc[t] = "drain"
  /\ ~comp_ready[Slot(cpu_comp_head)]
  /\ Goto(t, "flush")
  /\ UNCHANGED <<requests, comp_ready, comp_entry, cpu_req_tail, cpu_comp_head,
                 locks, waiting, completions, pos, item, callers, shutdown, gpu>>

(* The drain thread starts its next round unless it is told to stop.       *)
AfterFlush(t) ==
  IF t # Drainer THEN "check" ELSE IF shutdown THEN "stopped" ELSE "drain"

(* flush_waiting: claim a position first, then look for a waiting request. *)
FlushClaim(t) == pc[t] = "flush" /\ Claim(t, "pop")

FlushFull(t) ==
  /\ pc[t] = "flush"
  /\ ring_lock = None
  /\ req_ready[Slot(cpu_req_tail)]
  /\ Goto(t, AfterFlush(t))
  /\ UNCHANGED <<requests, comp_ready, comp_entry, cpu_req_tail, cpu_comp_head,
                 locks, waiting, completions, pos, item, callers, shutdown, gpu>>

FlushPop(t) ==
  /\ pc[t] = "pop"
  /\ waiting_lock = None
  /\ waiting # <<>>
  /\ item' = [item EXCEPT ![t] = Head(waiting)]
  /\ waiting' = Tail(waiting)
  /\ Goto(t, "copy")
  /\ UNCHANGED <<requests, comp_ready, comp_entry, cpu_req_tail, cpu_comp_head,
                 locks, completions, pos, callers, shutdown, gpu>>

(* Nothing waits: the deque's lock is kept while waiting for the ring's.   *)
FlushNone(t) ==
  /\ pc[t] = "pop"
  /\ waiting_lock = None
  /\ waiting = <<>>
  /\ waiting_lock' = t
  /\ Goto(t, "rollback")
  /\ UNCHANGED <<requests, comp_ready, comp_entry, cpu_req_tail, cpu_comp_head,
                 submit_lock, ring_lock, waiting, completions, pos, item, callers,
                 shutdown, gpu>>

(* "Put the reserved slot back", whatever was claimed since.               *)
FlushRollback(t) ==
  /\ pc[t] = "rollback"
  /\ ring_lock = None
  /\ cpu_req_tail' = cpu_req_tail - 1
  /\ waiting_lock' = None
  /\ pos' = [pos EXCEPT ![t] = 0]
  /\ Goto(t, AfterFlush(t))
  /\ UNCHANGED <<requests, comp_ready, comp_entry, cpu_comp_head, submit_lock,
                 ring_lock, waiting, completions, item, callers, shutdown, gpu>>
-----------------------------------------------------------------------------
(* wait_for_request: after every round look for one's own completion.      *)
Check(c) ==
  /\ pc[c] = "check"
  /\ Goto(c, IF completions[rid[c]] # NoRow THEN "read" ELSE "drain")
  /\ UNCHANGED <<requests, comp_ready, comp_entry, cpu_req_tail, cpu_comp_head,
                 locks, waiting, completions, pos, item, callers, shutdown, gpu>>

TimeOut(c) ==
  /\ pc[c] = "check"
  /\ completions[rid[c]] = NoRow
  /\ Goto(c, "done")
  /\ UNCHANGED <<requests, comp_ready, comp_entry, cpu_req_tail, cpu_comp_head,
                 locks, waiting, completions, pos, item, callers, shutdown, gpu>>

(* read_tokens_at_row, then release_request; the caller is free for more.  *)
ReadTokens(c) ==
  /\ pc[c] = "read"
  /\ result' = [result EXCEPT ![c] = tokens[completions[rid[c]]]]
  /\ Goto(c, "release")
  /\ UNCHANGED <<requests, comp_ready, comp_entry, cpu_req_tail, cpu_comp_head,
                 locks, waiting, completions, pos, item, next_rid, rid, shutdown,
                 gpu>>

Release(c) ==
  /\ pc[c] = "release"
  /\ completions' = [completions EXCEPT ![rid[c]] = NoRow]
  /\ rid' = [rid EXCEPT ![c] = None]
  /\ result' = [result EXCEPT ![c] = None]
  /\ Goto(c, "idle")
  /\ UNCHANGED <<requests, comp_ready, comp_entry, cpu_req_tail, cpu_comp_head,
                 locks, waiting, pos, item, next_rid, shutdown, gpu>>

(* LLMEngine.close, once the server takes no more requests and its calls   *)
(* have returned (lifespan); a request that timed out may still be running.*)
Shutdown ==
  /\ gpc # "off" /\ ~shutdown
  /\ \A c \in Clients : pc[c] \in {"idle", "done"}
  /\ shutdown' = TRUE
  /\ UNCHANGED <<requests, comp_ready, comp_entry, cpu_req_tail, cpu_comp_head,
                 locks, waiting, completions, threads, gpu>>
-----------------------------------------------------------------------------
(* Mutant of GpuKeep: the length of a sequence is not limited.             *)
KeepForever ==
  /\ gpc = "finalize" /\ gslot <= Len(batch)
  /\ gslot' = gslot + 1
  /\ UNCHANGED <<requests, comp_ready, comp_entry, cpu, gpu_req_head,
                 gpu_comp_tail, free_rows, batch, tokens, rid_at_row, gpc, reported>>

(* Step 1 of prepare_next_batch, for a request that is not done.           *)
GpuKeep ==
  /\ gpc = "finalize" /\ gslot <= Len(batch)
  /\ batch[gslot].steps < MaxSteps
  /\ gslot' = gslot + 1
  /\ UNCHANGED <<requests, comp_ready, comp_entry, cpu, gpu_req_head,
                 gpu_comp_tail, free_rows, batch, tokens, rid_at_row, gpc, reported>>

(* Mutant of GpuReport: the flag is raised along with the fields.          *)
ReportReady ==
  LET done == batch[gslot]
      slot == Slot(gpu_comp_tail)
  IN /\ gpc = "finalize" /\ gslot <= Len(batch)
     /\ comp_entry' = [comp_entry EXCEPT ![slot] = <<done.rid, done.row>>]
     /\ comp_ready' = [comp_ready EXCEPT ![slot] = TRUE]
     /\ gpc' = "complete"
     /\ UNCHANGED <<requests, cpu, gpu_req_head, gpu_comp_tail,
                    free_rows, batch, tokens, rid_at_row, gslot, reported>>

(* The request in gslot is done (its length, or EOS): write a completion.  *)
GpuReport ==
  LET done == batch[gslot]
  IN /\ gpc = "finalize" /\ gslot <= Len(batch)
     /\ comp_entry' = [comp_entry EXCEPT ![Slot(gpu_comp_tail)] = <<done.rid, done.row>>]
     /\ gpc' = "complete"
     /\ UNCHANGED <<requests, comp_ready, cpu, gpu_req_head, gpu_comp_tail,
                    free_rows, batch, tokens, rid_at_row, gslot, reported>>

(* Mutant of GpuComplete: the row is not taken out of the directory.       *)
CompleteListed ==
  LET done == batch[gslot]
  IN /\ gpc = "complete"
     /\ comp_ready' = [comp_ready EXCEPT ![Slot(gpu_comp_tail)] = TRUE]
     /\ gpu_comp_tail' = gpu_comp_tail + 1
     /\ free_rows' = Append(free_rows, done.row)
     /\ batch' = RemoveAt(batch, gslot)
     /\ reported' = Append(reported, <<done.rid, done.row>>)
     /\ gpc' = "finalize"
     /\ UNCHANGED <<requests, comp_entry, cpu, gpu_req_head, tokens, rid_at_row, gslot>>

(* Publish the completion and give the row back at once.                   *)
GpuComplete ==
  LET done == batch[gslot]
  IN /\ gpc = "complete"
     /\ comp_ready' = [comp_ready EXCEPT ![Slot(gpu_comp_tail)] = TRUE]
     /\ gpu_comp_tail' = gpu_comp_tail + 1
     /\ free_rows' = Append(free_rows, done.row)
     /\ rid_at_row' = [rid_at_row EXCEPT ![done.row] = None]
     /\ batch' = RemoveAt(batch, gslot)
     /\ reported' = Append(reported, <<done.rid, done.row>>)
     /\ gpc' = "finalize"
     /\ UNCHANGED <<requests, comp_entry, cpu, gpu_req_head, tokens, gslot>>

GpuFinalized ==
  /\ gpc = "finalize" /\ gslot > Len(batch)
  /\ gpc' = "admit"
  /\ UNCHANGED <<requests, comp_ready, comp_entry, cpu, gpu_req_head,
                 gpu_comp_tail, free_rows, batch, tokens, rid_at_row, gslot, reported>>

(* Step 4: take the next request off the ring, into the row freed last.    *)
GpuAdmit ==
  LET slot == Slot(gpu_req_head)
      row == Last(free_rows)
  IN /\ gpc = "admit"
     /\ free_rows # <<>>
     /\ req_ready[slot]
     /\ free_rows' = Front(free_rows)
     /\ tokens' = [tokens EXCEPT ![row] = inbox_tokens[slot]]
     /\ rid_at_row' = [rid_at_row EXCEPT ![row] = req_request_id[slot]]
     /\ batch' = Append(batch, [rid |-> req_request_id[slot], row |-> row, steps |-> 0])
     /\ req_ready' = [req_ready EXCEPT ![slot] = FALSE]
     /\ gpu_req_head' = gpu_req_head + 1
     /\ UNCHANGED <<req_request_id, inbox_tokens, comp_ready, comp_entry, cpu,
                    gpu_comp_tail, gpc, gslot, reported>>

(* No more is admitted: no free row, an empty ring, or, as soon as there   *)
(* is a request at all, no tokens left.  The task graph runs on the batch. *)
GpuRun ==
  /\ gpc = "admit"
  /\ batch # <<>>
  /\ batch' = [i \in 1..Len(batch) |-> [batch[i] EXCEPT !.steps = @ + 1]]
  /\ gpc' = "finalize"
  /\ gslot' = 1
  /\ UNCHANGED <<requests, comp_ready, comp_entry, cpu, gpu_req_head,
                 gpu_comp_tail, free_rows, tokens, rid_at_row, reported>>

(* An idle GPU looks for a shutdown and tries again.                       *)
GpuIdle ==
  /\ gpc = "admit"
  /\ batch = <<>> /\ ~req_ready[Slot(gpu_req_head)]
  /\ gpc' = IF shutdown THEN "exited" ELSE "finalize"
  /\ gslot' = 1
  /\ UNCHANGED <<requests, comp_ready, comp_entry, cpu, gpu_req_head, gpu_comp_tail,
                 free_rows, batch, tokens, rid_at_row, reported>>

Gpu == GpuKeep \/ GpuReport \/ GpuComplete \/ GpuFinalized \/ GpuAdmit
         \/ GpuRun \/ GpuIdle

flush_waiting(t) == FlushClaim(t) \/ FlushFull(t) \/ FlushPop(t) \/ FlushNone(t)
                      \/ FlushRollback(t)

write_slot(t) == FillSlot(t) \/ Publish(t)

drain_completions(t) == DrainOne(t) \/ DrainEnd(t) \/ flush_waiting(t) \/ write_slot(t)

submit(c) == Submit(c) \/ SubmitClaim(c) \/ SubmitFull(c) \/ SubmitEnqueue(c)

wait_for_request(c) == Check(c) \/ TimeOut(c) \/ ReadTokens(c) \/ Release(c)

Next == \/ Reset \/ Shutdown
        \/ \E c \in Clients : submit(c) \/ wait_for_request(c)
        \/ \E t \in Threads : drain_completions(t)
        \/ Gpu

Spec == Init /\ [][Next]_vars
-----------------------------------------------------------------------------
Rids == Requests \cup {None}

(* Every variable stays in its range, and no thread fills a slot without a *)
(* request.  The request cursor may be negative: a claim made before Reset *)
(* is put back after it.                                                   *)
TypeOK ==
  /\ req_ready \in [Slots -> BOOLEAN] /\ req_request_id \in [Slots -> Rids]
  /\ inbox_tokens \in [Slots -> Rids]
  /\ comp_ready \in [Slots -> BOOLEAN]
  /\ comp_entry \in [Slots -> {NoEntry} \cup (Requests \X Rows)]
  /\ cpu_req_tail \in Int /\ cpu_comp_head \in Nat
  /\ submit_lock \in Clients \cup {None} /\ ring_lock \in Clients \cup {None}
  /\ waiting_lock \in Threads \cup {None}
  /\ waiting \in Seq(Requests)
  /\ completions \in [Requests -> Rows \cup {NoRow}]
  /\ next_rid \in 0..NumRequests /\ rid \in [Clients -> Rids]
  /\ pc \in [Threads -> {"idle", "claim", "enqueue", "copy", "publish",
                         "drain", "flush", "pop", "rollback", "check", "read",
                         "release", "done", "stopped"}]
  /\ pos \in [Threads -> Int] /\ item \in [Threads -> Rids]
  /\ result \in [Clients -> Rids]
  /\ shutdown \in BOOLEAN
  /\ gpu_req_head \in Nat /\ gpu_comp_tail \in Nat
  /\ free_rows \in Seq(Rows) /\ tokens \in [Rows -> Rids]
  /\ batch \in Seq([rid : Requests, row : Rows, steps : 0..MaxSteps])
  /\ rid_at_row \in [Rows -> Rids]
  /\ gpc \in {"off", "finalize", "complete", "admit", "exited"}
  /\ gslot \in Nat \ {0}
  /\ \A t \in Threads : pc[t] \in {"copy", "publish"} => item[t] # None

(* The completions between the cursors are exactly those reported and not  *)
(* yet drained, in order, whoever drains them; what was drained is in the  *)
(* bookkeeping, with its row, until its caller has released it.            *)
CompletionsExact ==
  /\ gpu_comp_tail = Len(reported)
  /\ cpu_comp_head \in 0..gpu_comp_tail
  /\ \A s \in Slots :
       comp_ready[s] <=> \E k \in cpu_comp_head..gpu_comp_tail - 1 : Slot(k) = s
  /\ \A k \in cpu_comp_head..gpu_comp_tail - 1 : comp_entry[Slot(k)] = reported[k + 1]
  /\ \A r \in Requests :
       IF \E k \in 1..cpu_comp_head : reported[k][1] = r
       THEN \/ \E k \in 1..cpu_comp_head : reported[k] = <<r, completions[r]>>
            \/ completions[r] = NoRow /\ \A c \in Clients : rid[c] # r
       ELSE completions[r] = NoRow

(* The directory by which a caller finds the row of a request names every  *)
(* row of the batch and no other; the other rows are free, each once.      *)
RowDirectory ==
  /\ \A r \in Rows : rid_at_row[r] # None
       <=> \E i \in 1..Len(batch) : batch[i].row = r /\ batch[i].rid = rid_at_row[r]
  /\ ToSet(free_rows) = {r \in Rows : rid_at_row[r] = None}
  /\ Len(free_rows) + Len(batch) = NumRows

(* Every position the GPU has yet to take is filled, or a thread is about  *)
(* to fill it or to give it back.  The GPU stops at a position nobody will *)
(* fill.                                                                   *)
RingUnbroken ==
  \A p \in gpu_req_head..cpu_req_tail - 1 :
    \/ req_ready[Slot(p)]
    \/ \E t \in Threads : pos[t] = p /\ pc[t] \in {"copy", "publish", "pop",
                                                   "rollback"}

(* No two threads wait for each other's lock.                              *)
NoLockCycle ==
  ~\E t, u \in Threads : pc[t] = "enqueue" /\ ring_lock = t /\ waiting_lock = u
                           /\ pc[u] = "rollback"

(* What a caller reads at the row of its completion are its own tokens.    *)
ReadsOwnTokens == \A c \in Clients : result[c] \in {None, rid[c]}
===============================================================================
