----------------------------- MODULE OfflineBatch -----------------------------
(***************************************************************************)
(* prepare_next_batch of MODE_OFFLINE, between two runs of the task graph: *)
(* it finishes the requests of the last batch, packs the others into the   *)
(* low slots, takes up new requests and gives all of them KV-cache pages   *)
(* from a ring of free pages.  One action per loop body, in the order of   *)
(* the code, because the loops update their arrays in place.  Nothing else *)
(* touches these arrays meanwhile (PrepareAlone of PersistentKernel).      *)
(*                                                                         *)
(* RunBatch is what the attention and sampling tasks do with the batch: it *)
(* reads and writes the KV cache through the page table it is handed.      *)
(***************************************************************************)
EXTENDS Integers, Sequences, FiniteSets

CONSTANTS TotalRequests, MAX_NUM_BATCHED_REQUESTS, MAX_NUM_BATCHED_TOKENS,
          MAX_SEQ_LENGTH, PAGE_SIZE, MAX_NUM_PAGES,
          IndexLoad   \* how attention loads a page table: "base" or "bulk"

Requests == 0..TotalRequests - 1
Slots == 0..MAX_NUM_BATCHED_REQUESTS - 1
Positions == 0..MAX_SEQ_LENGTH - 1
Pages == 0..MAX_NUM_PAGES - 1
None == -1                          \* a slot without request
Nothing == <<None, 0>>              \* a cell nothing was stored in

PagesFor(n) == (n + PAGE_SIZE - 1) \div PAGE_SIZE

(* There are pages for full batches of full-length sequences: the code     *)
(* takes pages from the ring without asking whether it is empty.           *)
ASSUME SizeAssumption ==
  /\ TotalRequests \in Nat /\ MAX_NUM_BATCHED_REQUESTS \in Nat \ {0}
  /\ MAX_NUM_BATCHED_TOKENS \in Nat \ {0}
  /\ MAX_SEQ_LENGTH \in Nat \ {0} /\ PAGE_SIZE \in Nat \ {0}
  /\ MAX_NUM_PAGES \in Nat
  /\ MAX_NUM_PAGES >= MAX_NUM_BATCHED_REQUESTS * PagesFor(MAX_SEQ_LENGTH)
  /\ IndexLoad \in {"base", "bulk"}

VARIABLES
  prompt_length,           \* per request, from the host
  step,                    \* per request: tokens whose KV is computed
  written,                 \* per request: positions of its row of tokens set
  next_request_id,
  request_ids,             \* per slot
  qo_indptr, kv_indptr,    \* first token and first page of a slot; ends at [R]
  kv_indices, snapshot,    \* page tables of the slots, one after the other
  last_page_len,           \* per slot
  input_tokens,            \* <<request, position>> of each token of the batch
  page_queue, page_queue_head, page_queue_tail,      \* ring of free pages
  kv_cache,                \* per page and offset: the token held there
  pc, slot, num_reqs, num_tokens, num_pages,
  served                   \* history: requests that are done

queue == <<page_queue, page_queue_head, page_queue_tail>>
tables == <<qo_indptr, kv_indptr, kv_indices, last_page_len, input_tokens>>
counts == <<num_reqs, num_tokens, num_pages>>
vars == <<prompt_length, step, written, next_request_id, request_ids, tables,
          snapshot, queue, kv_cache, pc, slot, counts, served>>

(* init_kernel; the host has filled in the prompts.                        *)
Init ==
  /\ prompt_length \in [Requests -> 1..MAX_SEQ_LENGTH]
  /\ written = [r \in Requests |-> 0..prompt_length[r] - 1]
  /\ step = [r \in Requests |-> 0]
  /\ next_request_id = 0
  /\ request_ids = [i \in Slots |-> None]
  /\ qo_indptr = [i \in 0..MAX_NUM_BATCHED_REQUESTS |-> 0]
  /\ kv_indptr = [i \in 0..MAX_NUM_BATCHED_REQUESTS |-> 0]
  /\ kv_indices = [p \in Pages |-> 0]
  /\ snapshot = [p \in Pages |-> 0]
  /\ last_page_len = [i \in Slots |-> 0]
  /\ input_tokens = [j \in 0..MAX_NUM_BATCHED_TOKENS - 1 |-> Nothing]
  /\ page_queue = [p \in Pages |-> p]
  /\ page_queue_head = 0
  /\ page_queue_tail = MAX_NUM_PAGES
  /\ kv_cache = [p \in Pages |-> [o \in 0..PAGE_SIZE - 1 |-> Nothing]]
  /\ pc = "end"
  /\ slot = 0
  /\ num_reqs = 0 /\ num_tokens = 0 /\ num_pages = 0
  /\ served = {}
-----------------------------------------------------------------------------
(* The end event is handled: prepare_next_batch is called.                 *)
Call == /\ pc = "end"
        /\ pc' = "finalize"
        /\ slot' = 0
        /\ UNCHANGED <<prompt_length, step, written, next_request_id, request_ids,
                       tables, snapshot, queue, kv_cache, counts, served>>

BatchTokens(i) == qo_indptr[i + 1] - qo_indptr[i]
BatchPages(i) == kv_indptr[i + 1] - kv_indptr[i]

(* Mutant of OutputPositions: the prompt's successor is not stored.        *)
OutputsAfterFirst(r, n) ==
  {p \in step[r] + 1..step[r] + n : p > prompt_length[r] /\ p < MAX_SEQ_LENGTH}

(* Where the outputs of a batch of n tokens of r are stored.               *)
OutputPositions(r, n) ==
  {p \in step[r] + 1..step[r] + n : p >= prompt_length[r] /\ p < MAX_SEQ_LENGTH}

(* Step 1, for an occupied slot: count its tokens as done, store what they *)
(* produced, and see whether that ends the request.                        *)
Advance(r, n) ==
  /\ step' = [step EXCEPT ![r] = @ + n]
  /\ written' = [written EXCEPT ![r] = @ \cup OutputPositions(r, n)]

Full(r, n) == step[r] + n + 1 >= MAX_SEQ_LENGTH

(* Only a token produced just now can turn out to be the EOS token.        *)
MayBeEos(r, n) == n > 0 /\ step[r] + n >= prompt_length[r]

FinalizeEmpty ==
  /\ pc = "finalize" /\ slot \in Slots
  /\ request_ids[slot] = None
  /\ slot' = slot + 1
  /\ UNCHANGED <<prompt_length, step, written, next_request_id, request_ids,
                 tables, snapshot, queue, kv_cache, pc, counts, served>>

FinalizeRunning ==
  LET r == request_ids[slot]
  IN /\ pc = "finalize" /\ slot \in Slots
     /\ r # None
     /\ ~Full(r, BatchTokens(slot))
     /\ Advance(r, BatchTokens(slot))
     /\ slot' = slot + 1
     /\ UNCHANGED <<prompt_length, next_request_id, request_ids, tables,
                    snapshot, queue, kv_cache, pc, counts, served>>

(* Mutant of FreePages: the last, partly filled page is kept back.         *)
FreeFullPages(i) ==
  /\ page_queue_tail' = page_queue_tail + BatchPages(i) - 1
  /\ page_queue' = [p \in Pages |->
       IF \E j \in 0..BatchPages(i) - 2 : p = (page_queue_tail + j) % MAX_NUM_PAGES
       THEN kv_indices[kv_indptr[i] + (CHOOSE j \in 0..BatchPages(i) - 2 :
                                  p = (page_queue_tail + j) % MAX_NUM_PAGES)]
       ELSE page_queue[p]]
  /\ UNCHANGED page_queue_head

(* Put the pages of slot i at the tail of the ring.                        *)
FreePages(i) ==
  /\ page_queue_tail' = page_queue_tail + BatchPages(i)
  /\ page_queue' = [p \in Pages |->
       IF \E j \in 0..BatchPages(i) - 1 : p = (page_queue_tail + j) % MAX_NUM_PAGES
       THEN kv_indices[kv_indptr[i] + (CHOOSE j \in 0..BatchPages(i) - 1 :
                                  p = (page_queue_tail + j) % MAX_NUM_PAGES)]
       ELSE page_queue[p]]
  /\ UNCHANGED page_queue_head

FinalizeDone ==
  LET r == request_ids[slot]
  IN /\ pc = "finalize" /\ slot \in Slots
     /\ r # None
     /\ Full(r, BatchTokens(slot)) \/ MayBeEos(r, BatchTokens(slot))
     /\ Advance(r, BatchTokens(slot))
     /\ request_ids' = [request_ids EXCEPT ![slot] = None]
     /\ FreePages(slot)
     /\ served' = served \cup {r}
     /\ slot' = slot + 1
     /\ UNCHANGED <<prompt_length, next_request_id, tables, snapshot, kv_cache,
                    pc, counts>>

(* Step 2: keep a copy of the page tables.                                 *)
Snapshot ==
  /\ pc = "finalize" /\ slot \notin Slots
  /\ snapshot' = [p \in Pages |-> IF p < kv_indptr[MAX_NUM_BATCHED_REQUESTS]
                                  THEN kv_indices[p] ELSE snapshot[p]]
  /\ pc' = "compact"
  /\ slot' = 0
  /\ num_reqs' = 0 /\ num_tokens' = 0 /\ num_pages' = 0
  /\ UNCHANGED <<prompt_length, step, written, next_request_id, request_ids,
                 tables, queue, kv_cache, served>>
-----------------------------------------------------------------------------
AtMost(a, b) == IF a <= b THEN a ELSE b
TokensLeft == MAX_NUM_BATCHED_TOKENS - num_tokens

(* Mutant of LastPageLen: a full last page has length 0, as in the pinned  *)
(* mode of the code.                                                       *)
LastPageRemainder(n) == n % PAGE_SIZE

LastPageLen(n) == IF n % PAGE_SIZE = 0 THEN PAGE_SIZE ELSE n % PAGE_SIZE

(* Fill in slot num_reqs for n tokens of r from position first on; kept    *)
(* are the pages r already has, the rest come from the head of the ring.   *)
Place(r, first, n, kept) ==
  LET total == PagesFor(first + n)
  IN /\ request_ids' = [request_ids EXCEPT ![num_reqs] = r]
     /\ qo_indptr' = [qo_indptr EXCEPT ![num_reqs] = num_tokens]
     /\ kv_indptr' = [kv_indptr EXCEPT ![num_reqs] = num_pages]
     /\ last_page_len' = [last_page_len EXCEPT ![num_reqs] = LastPageLen(first + n)]
     /\ input_tokens' = [j \in DOMAIN input_tokens |->
          IF j \in num_tokens..num_tokens + n - 1
          THEN <<r, first + j - num_tokens>> ELSE input_tokens[j]]
     /\ kv_indices' = [p \in Pages |->
          IF p < num_pages THEN kv_indices[p]
          ELSE IF p < num_pages + Len(kept) THEN kept[p - num_pages + 1]
          ELSE IF p < num_pages + total
               THEN page_queue[(page_queue_head + p - num_pages - Len(kept))
                                 % MAX_NUM_PAGES]
          ELSE kv_indices[p]]
     /\ page_queue_head' = page_queue_head
                             + (IF total > Len(kept) THEN total - Len(kept) ELSE 0)
     /\ num_reqs' = num_reqs + 1
     /\ num_tokens' = num_tokens + n
     /\ num_pages' = num_pages + total
     /\ UNCHANGED <<page_queue, page_queue_tail>>

CompactEmpty ==
  /\ pc = "compact" /\ slot \in Slots
  /\ request_ids[slot] = None
  /\ slot' = slot + 1
  /\ UNCHANGED <<prompt_length, step, written, next_request_id, request_ids,
                 tables, snapshot, queue, kv_cache, pc, counts, served>>

(* Mutant of KeptPages: read from the array that is being rewritten.       *)
KeptInPlace(i) == [j \in 1..BatchPages(i) |-> kv_indices[kv_indptr[i] + j - 1]]

KeptPages(i) == [j \in 1..BatchPages(i) |-> snapshot[kv_indptr[i] + j - 1]]

(* Step 3: move a running request down to the next low slot.               *)
Compact ==
  LET r == request_ids[slot]
      remaining == prompt_length[r] - step[r]
      wanted == IF remaining > 0 THEN remaining ELSE 1
  IN /\ pc = "compact" /\ slot \in Slots
     /\ r # None
     /\ Place(r, step[r], AtMost(wanted, TokensLeft), KeptPages(slot))
     /\ slot' = slot + 1
     /\ UNCHANGED <<prompt_length, step, written, next_request_id, snapshot,
                    kv_cache, pc, served>>

(* Mutant of HasRoom: the token budget is not looked at.                   *)
HasSlot == num_reqs < MAX_NUM_BATCHED_REQUESTS

HasRoom == /\ num_reqs < MAX_NUM_BATCHED_REQUESTS
           /\ num_tokens < MAX_NUM_BATCHED_TOKENS

(* Take up the next request.                                               *)
Admit ==
  LET r == next_request_id
  IN /\ pc = "compact" /\ slot \notin Slots
     /\ HasRoom
     /\ r < TotalRequests
     /\ Place(r, 0, AtMost(prompt_length[r], TokensLeft), <<>>)
     /\ next_request_id' = r + 1
     /\ UNCHANGED <<prompt_length, step, written, snapshot, kv_cache, pc, slot,
                    served>>

(* Mutant of Close: the batch is closed although requests could be admitted*)
CloseEarly ==
  /\ pc = "compact" /\ slot \notin Slots
  /\ request_ids' = [i \in Slots |-> IF i < num_reqs THEN request_ids[i] ELSE None]
  /\ qo_indptr' = [i \in DOMAIN qo_indptr |->
                     IF i < num_reqs THEN qo_indptr[i] ELSE num_tokens]
  /\ kv_indptr' = [i \in DOMAIN kv_indptr |->
                     IF i < num_reqs THEN kv_indptr[i] ELSE num_pages]
  /\ pc' = IF num_tokens = 0 THEN "drained" ELSE "run"
  /\ UNCHANGED <<prompt_length, step, written, next_request_id, kv_indices,
                 last_page_len, input_tokens, snapshot, queue, kv_cache, slot,
                 counts, served>>

(* Steps 4 and 5: clear the unused slots; without any token it is over.    *)
Close ==
  /\ pc = "compact" /\ slot \notin Slots
  /\ ~(HasRoom /\ next_request_id < TotalRequests)
  /\ request_ids' = [i \in Slots |-> IF i < num_reqs THEN request_ids[i] ELSE None]
  /\ qo_indptr' = [i \in DOMAIN qo_indptr |->
                     IF i < num_reqs THEN qo_indptr[i] ELSE num_tokens]
  /\ kv_indptr' = [i \in DOMAIN kv_indptr |->
                     IF i < num_reqs THEN kv_indptr[i] ELSE num_pages]
  /\ pc' = IF num_tokens = 0 THEN "drained" ELSE "run"
  /\ UNCHANGED <<prompt_length, step, written, next_request_id, kv_indices,
                 last_page_len, input_tokens, snapshot, queue, kv_cache, slot,
                 counts, served>>
-----------------------------------------------------------------------------
Wide == 4                           \* ints moved by one 16-byte load

(* The page table attention works with, of the request in slot i.  The     *)
(* Hopper and Blackwell kernels load it from the slot's first page on.     *)
(* The Ampere kernels load all groups of four from the start of the whole  *)
(* array and only the remainder from the slot's own part.                  *)
PageTable(i) ==
  [j \in 0..BatchPages(i) - 1 |->
     IF IndexLoad = "bulk" /\ j < (BatchPages(i) \div Wide) * Wide
     THEN kv_indices[j] ELSE kv_indices[kv_indptr[i] + j]]

seq_len(i) == (BatchPages(i) - 1) * PAGE_SIZE + last_page_len[i]

(* Where attention finds position p of the request in slot i.              *)
Cell(i, p) == <<PageTable(i)[p \div PAGE_SIZE], p % PAGE_SIZE>>

(* The tokens of slot i and the cells they are stored to: the last         *)
(* positions of the sequence the page table spans.                         *)
Stores(i) ==
  {<<Cell(i, seq_len(i) - BatchTokens(i) + j), input_tokens[qo_indptr[i] + j]>> :
     j \in 0..BatchTokens(i) - 1}

Occupied == {i \in Slots : request_ids[i] # None}

(* The task graph runs on the batch.                                       *)
RunBatch ==
  LET stores == UNION {Stores(i) : i \in Occupied}
  IN /\ pc = "run"
     /\ kv_cache' = [p \in Pages |-> [o \in 0..PAGE_SIZE - 1 |->
          IF \E s \in stores : s[1] = <<p, o>>
          THEN (CHOOSE s \in stores : s[1] = <<p, o>>)[2]
          ELSE kv_cache[p][o]]]
     /\ pc' = "end"
     /\ UNCHANGED <<prompt_length, step, written, next_request_id, request_ids,
                    tables, snapshot, queue, slot, counts, served>>

(* launch_persistent_kernel is called again.                               *)
Relaunch ==
  /\ pc = "drained"
  /\ pc' = "end"
  /\ UNCHANGED <<prompt_length, step, written, next_request_id, request_ids,
                 tables, snapshot, queue, kv_cache, slot, counts, served>>

prepare_next_batch == \/ Call
                      \/ FinalizeEmpty \/ FinalizeRunning \/ FinalizeDone
                      \/ Snapshot
                      \/ CompactEmpty \/ Compact \/ Admit \/ Close

Next == prepare_next_batch \/ RunBatch \/ Relaunch

(* The scheduler that handles the end event keeps running and the graph    *)
(* comes to its end (ImplementsTaskGraph of PersistentKernel).             *)
Spec == Init /\ [][Next]_vars /\ WF_vars(prepare_next_batch \/ RunBatch)
-----------------------------------------------------------------------------
Tokens == {Nothing} \cup (Requests \X Positions)

(* Every variable stays in its range; with a request in a slot, the last   *)
(* page holds at least one token and at most a page of them.               *)
TypeOK ==
  /\ prompt_length \in [Requests -> 1..MAX_SEQ_LENGTH]
  /\ step \in [Requests -> 0..MAX_SEQ_LENGTH]
  /\ written \in [Requests -> SUBSET Positions]
  /\ next_request_id \in 0..TotalRequests
  /\ request_ids \in [Slots -> Requests \cup {None}]
  /\ qo_indptr \in [0..MAX_NUM_BATCHED_REQUESTS -> 0..MAX_NUM_BATCHED_TOKENS]
  /\ kv_indptr \in [0..MAX_NUM_BATCHED_REQUESTS -> 0..MAX_NUM_PAGES]
  /\ kv_indices \in [Pages -> Pages] /\ snapshot \in [Pages -> Pages]
  /\ last_page_len \in [Slots -> 0..PAGE_SIZE]
  /\ pc = "run" => \A i \in Occupied : last_page_len[i] > 0
  /\ input_tokens \in [0..MAX_NUM_BATCHED_TOKENS - 1 -> Tokens]
  /\ page_queue \in [Pages -> Pages]
  /\ page_queue_head \in Nat /\ page_queue_tail \in Nat
  /\ kv_cache \in [Pages -> [0..PAGE_SIZE - 1 -> Tokens]]
  /\ pc \in {"end", "finalize", "compact", "run", "drained"}
  /\ slot \in 0..MAX_NUM_BATCHED_REQUESTS
  /\ num_reqs \in 0..MAX_NUM_BATCHED_REQUESTS
  /\ num_tokens \in 0..MAX_NUM_BATCHED_TOKENS
  /\ num_pages \in 0..MAX_NUM_PAGES
  /\ served \subseteq Requests

UsedPages == [j \in 0..kv_indptr[MAX_NUM_BATCHED_REQUESTS] - 1 |-> kv_indices[j]]
FreeCount == page_queue_tail - page_queue_head
FreeQueue == [j \in 0..FreeCount - 1 |->
                page_queue[(page_queue_head + j) % MAX_NUM_PAGES]]

(* No page is lost and none is given out twice: while a batch runs the     *)
(* page tables and the free ring together hold every page exactly once.    *)
PagesConserved ==
  pc \in {"run", "drained"} =>
    /\ FreeCount \in 0..MAX_NUM_PAGES
    /\ FreeCount + kv_indptr[MAX_NUM_BATCHED_REQUESTS] = MAX_NUM_PAGES
    /\ {UsedPages[j] : j \in DOMAIN UsedPages}
         \cup {FreeQueue[j] : j \in DOMAIN FreeQueue} = Pages

(* When attention runs it finds under every position of a request that was *)
(* computed before, possibly many batches and slots ago, that request's    *)
(* token of that position.                                                 *)
CacheIntact ==
  pc = "run" => \A i \in Occupied : \A p \in 0..step[request_ids[i]] - 1 :
    kv_cache[Cell(i, p)[1]][Cell(i, p)[2]] = <<request_ids[i], p>>

(* Every token of a batch was in the prompt or has been produced.          *)
InputsProduced ==
  pc = "run" => \A j \in 0..qo_indptr[MAX_NUM_BATCHED_REQUESTS] - 1 :
    input_tokens[j][2] \in written[input_tokens[j][1]]

(* Prefills share the token budget of a batch, and nothing in the code     *)
(* looks whether the budget is used up before a later slot is reached: yet *)
(* every request of a batch advances by at least one token.                *)
EveryRequestAdvances ==
  pc = "run" => \A i \in Occupied : BatchTokens(i) >= 1

Service == INSTANCE RequestService WITH
  Capacity <- MAX_NUM_BATCHED_REQUESTS,
  next <- next_request_id,
  active <- {request_ids[i] : i \in Slots} \ {None},
  drained <- pc = "drained"

(* Every request is served, once, in order, and the kernel drains only     *)
(* when nothing is left.                                                   *)
ServesRequests == Service!Spec
==============================================================================
