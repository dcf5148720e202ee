-------------------------- MODULE PinnedRing_proof --------------------------
(***************************************************************************)
(* Proofs about the pinned request and completion rings, for every number  *)
(* of callers, requests, slots and rows.                                   *)
(***************************************************************************)
EXTENDS PinnedRing, SequenceTheorems, TLAPS

------------------------------------------------------------------------------
(* The inductive invariant.                                                *)
Issued == 0..next_rid - 1           \* request ids given out so far

(* Whatever travels through the deque, the ring and the batch is a request *)
(* a caller has submitted, and a raised flag stands for such a request.    *)
Travelling ==
  /\ \A t \in Threads : item[t] \in Issued \cup {None}
  /\ \A t \in Threads : pc[t] \in {"claim", "enqueue"} => item[t] # None
  /\ \A i \in 1..Len(waiting) : waiting[i] \in Issued
  /\ \A s \in Slots : req_request_id[s] \in Issued \cup {None}
  /\ \A s \in Slots : req_ready[s] => req_request_id[s] # None
  /\ \A t \in Threads : pc[t] = "publish" => req_request_id[Slot(pos[t])] # None
  /\ \A i \in 1..Len(batch) : batch[i].rid \in Issued
  /\ reported \in Seq(Issued \X Rows)

(* A caller has at most one request and shares it with nobody.             *)
OwnRequest ==
  /\ \A c \in Clients : IF pc[c] = "idle" THEN rid[c] = None ELSE rid[c] \in Issued
  /\ \A c, d \in Clients : rid[c] = rid[d] /\ rid[c] # None => c = d
  /\ \A c \in Clients : pc[c] = "read" => completions[rid[c]] # NoRow

(* The GPU's walk over the batch: the requests it has passed have steps    *)
(* left, and the one it reports is in the slot of the ring it publishes.   *)
Walk ==
  /\ \A i \in 1..Len(batch) : gpc = "admit" \/ i < gslot => batch[i].steps < MaxSteps
  /\ gpc = "complete" => /\ gslot <= Len(batch)
                         /\ comp_entry[Slot(gpu_comp_tail)]
                              = <<batch[gslot].rid, batch[gslot].row>>

(* Every row is in the batch or free, at one place, and the directory      *)
(* tells which.                                                            *)
RowsApart ==
  /\ \A i \in 1..Len(batch) : rid_at_row[batch[i].row] = batch[i].rid
  /\ \A i, j \in 1..Len(batch) : batch[i].row = batch[j].row => i = j
  /\ \A i \in 1..Len(free_rows) : rid_at_row[free_rows[i]] = None
  /\ \A i, j \in 1..Len(free_rows) : free_rows[i] = free_rows[j] => i = j
  /\ \A r \in Rows : IF rid_at_row[r] = None
                     THEN \E i \in 1..Len(free_rows) : free_rows[i] = r
                     ELSE \E i \in 1..Len(batch) : batch[i].row = r
  /\ Len(free_rows) + Len(batch) = NumRows

IInv == TypeOK /\ Travelling /\ OwnRequest /\ Walk /\ RowsApart

(* The GPU writes a completion without asking whether its slot is drained. *)
(* What CompletionsExact takes for granted: it never laps the CPU.         *)
NeverLapped == gpc = "complete" => gpu_comp_tail - cpu_comp_head < Capacity

CInv == /\ CompletionsExact
        /\ gpu_comp_tail - cpu_comp_head <= Capacity

USE DEF Threads, Rids
------------------------------------------------------------------------------
LEMMA Sizes ==
  /\ Drainer \notin Clients /\ None \notin Threads /\ None \notin Requests
  /\ NumRequests \in Nat /\ Capacity \in Nat \ {0} /\ NumRows \in Nat \ {0}
  /\ MaxSteps \in Nat \ {0}
BY SizeAssumption

LEMMA SlotOf == ASSUME NEW p \in Int PROVE Slot(p) \in Slots
BY Sizes DEF Slot, Slots

(* Taking the element at i out of a sequence.                              *)
LEMMA RemovedAt ==
  ASSUME NEW A, NEW s \in Seq(A), NEW i \in 1..Len(s)
  PROVE  /\ RemoveAt(s, i) \in Seq(A)
         /\ Len(RemoveAt(s, i)) = Len(s) - 1
         /\ \A j \in 1..Len(s) - 1 : RemoveAt(s, i)[j] = IF j < i THEN s[j] ELSE s[j + 1]
<1> DEFINE a == SubSeq(s, 1, i - 1)
           b == SubSeq(s, i + 1, Len(s))
<1>1. Len(s) \in Nat
  OBVIOUS
<1>2. a \in Seq(A) /\ Len(a) = i - 1 /\ \A j \in 1..i - 1 : a[j] = s[j]
  OBVIOUS
<1>3. /\ b \in Seq(A) /\ Len(b) = Len(s) - i
      /\ \A j \in 1..Len(s) - i : b[j] = s[i + j]
  OBVIOUS
<1>4. RemoveAt(s, i) = a \o b
  BY DEF RemoveAt
<1> HIDE DEF a, b
<1>5. /\ a \o b \in Seq(A)
      /\ Len(a \o b) = Len(a) + Len(b)
      /\ \A j \in 1..Len(a) + Len(b) : (a \o b)[j] =
            IF j <= Len(a) THEN a[j] ELSE b[j - Len(a)]
  BY <1>2, <1>3, ConcatProperties, Zenon
<1>6. Len(a) + Len(b) = Len(s) - 1
  BY <1>1, <1>2, <1>3
<1>7. ASSUME NEW j \in 1..Len(s) - 1
      PROVE  (a \o b)[j] = IF j < i THEN s[j] ELSE s[j + 1]
  <2>1. CASE j < i
    <3>1. j \in 1..i - 1 /\ j <= Len(a) /\ j \in 1..Len(a) + Len(b)
      BY <1>1, <1>2, <1>6, <2>1
    <3>2. (a \o b)[j] = a[j] /\ a[j] = s[j]
      BY <1>2, <1>5, <3>1, Zenon
    <3> QED
      BY <2>1, <3>2
  <2>2. CASE j >= i
    <3>1. /\ j - Len(a) \in 1..Len(s) - i /\ i + (j - Len(a)) = j + 1
          /\ ~(j <= Len(a)) /\ j \in 1..Len(a) + Len(b)
      BY <1>1, <1>2, <1>6, <2>2
    <3>2. (a \o b)[j] = b[j - Len(a)] /\ b[j - Len(a)] = s[j + 1]
      BY <1>3, <1>5, <3>1, Zenon
    <3>3. ~(j < i)
      BY <1>1, <2>2
    <3> QED
      BY <3>2, <3>3
  <2>3. j < i \/ j >= i
    BY <1>1
  <2> QED
    BY <2>1, <2>2, <2>3, Zenon
<1> QED
  BY <1>4, <1>5, <1>6, <1>7, Zenon

LEMMA FrontOf ==
  ASSUME NEW A, NEW s \in Seq(A), s # <<>>
  PROVE  /\ Front(s) \in Seq(A) /\ Len(Front(s)) = Len(s) - 1 /\ Len(s) \in Nat \ {0}
         /\ \A j \in 1..Len(s) - 1 : Front(s)[j] = s[j]
         /\ Last(s) = s[Len(s)] /\ Last(s) \in A
BY DEF Front, Last

(* Within a round of the ring the slots differ.                            *)
LEMMA SlotsApart ==
  ASSUME NEW a \in Int, NEW b \in Int, a < b, b < a + Capacity
  PROVE  Slot(a) # Slot(b)
<1>1. Capacity \in Nat \ {0}
  BY Sizes
<1> DEFINE da == a \div Capacity
           db == b \div Capacity
<1>2. /\ da \in Int /\ a % Capacity \in 0..Capacity - 1 /\ a = da * Capacity + (a % Capacity)
      /\ db \in Int /\ b % Capacity \in 0..Capacity - 1 /\ b = db * Capacity + (b % Capacity)
  BY <1>1
<1> SUFFICES ASSUME a % Capacity = b % Capacity PROVE FALSE
  BY DEF Slot
<1> HIDE DEF da, db
<1>3. (db - da) * Capacity = db * Capacity - da * Capacity
  BY <1>1, <1>2
<1>4. (db - da) * Capacity = b - a
  BY <1>1, <1>2, <1>3
<1>5. CASE db - da <= 0
  <2>1. (db - da) * Capacity <= 0
    BY <1>1, <1>2, <1>5
  <2> QED
    BY <1>4, <2>1
<1>6. CASE db - da >= 1
  <2>1. (db - da) * Capacity >= Capacity
    BY <1>1, <1>2, <1>6
  <2> QED
    BY <1>1, <1>4, <2>1
<1> QED
  BY <1>2, <1>5, <1>6

------------------------------------------------------------------------------
LEMMA BatchEntry ==
  ASSUME TypeOK, NEW i \in 1..Len(batch)
  PROVE  /\ batch[i] \in [rid : Requests, row : Rows, steps : 0..MaxSteps]
         /\ batch[i].rid \in Requests /\ batch[i].row \in Rows
         /\ batch[i].steps \in 0..MaxSteps
<1>1. batch[i] \in [rid : Requests, row : Rows, steps : 0..MaxSteps]
  <2>1. batch \in Seq([rid : Requests, row : Rows, steps : 0..MaxSteps])
    BY DEF TypeOK
  <2> QED
    BY <2>1, ElementOfSeq, Zenon
<1> QED
  BY <1>1

LEMMA EntryStepped ==
  ASSUME NEW e \in [rid : Requests, row : Rows, steps : 0..MaxSteps], e.steps < MaxSteps
  PROVE  /\ [e EXCEPT !.steps = @ + 1] \in [rid : Requests, row : Rows, steps : 0..MaxSteps]
         /\ [e EXCEPT !.steps = @ + 1].rid = e.rid
         /\ [e EXCEPT !.steps = @ + 1].row = e.row
         /\ [e EXCEPT !.steps = @ + 1].steps = e.steps + 1
BY Sizes

(* The types, of each action.                                              *)
LEMMA TypeStep == IInv /\ [Next]_vars => TypeOK'
<1> SUFFICES ASSUME IInv, [Next]_vars PROVE TypeOK'
  OBVIOUS
<1> USE Sizes, SlotOf DEF IInv, TypeOK
<1>1. CASE Reset
  BY <1>1 DEF Reset, Goto, Claim, AfterFlush, requests, locks, callers, threads, cpu, gpu
<1>2. CASE Shutdown
  BY <1>2 DEF Shutdown, Goto, Claim, AfterFlush, requests, locks, callers, threads, cpu, gpu
<1>3. CASE GpuKeep
  <2>1. gslot' = gslot + 1 /\ gslot' \in Nat \ {0}
    BY <1>3 DEF GpuKeep
  <2>2. UNCHANGED <<requests, comp_ready, comp_entry, cpu, gpu_req_head,
                    gpu_comp_tail, free_rows, batch, tokens, rid_at_row, gpc, reported>>
    BY <1>3 DEF GpuKeep
  <2> QED
    BY <2>1, <2>2 DEF requests, locks, callers, threads, cpu
<1>4. CASE GpuReport
  <2>1. gslot \in 1..Len(batch)
    BY <1>4 DEF GpuReport
  <2>2. batch[gslot].rid \in Requests /\ batch[gslot].row \in Rows
    BY <2>1, BatchEntry
  <2>3. comp_entry' \in [Slots -> {NoEntry} \cup (Requests \X Rows)]
    BY <1>4, <2>2 DEF GpuReport
  <2> QED
    BY <1>4, <2>1, <2>2, <2>3 DEF GpuReport, Goto, Claim, AfterFlush, requests, locks, callers, threads, cpu, gpu
<1>5. CASE GpuComplete
  <2>1. gslot \in 1..Len(batch)
    BY <1>5 DEF GpuComplete, Walk
  <2>2. batch[gslot].rid \in Requests /\ batch[gslot].row \in Rows
    BY <2>1, BatchEntry
  <2>3. batch' \in Seq([rid : Requests, row : Rows, steps : 0..MaxSteps])
    BY <1>5, <2>1, RemovedAt DEF GpuComplete
  <2>4. free_rows' \in Seq(Rows)
    BY <1>5, <2>2 DEF GpuComplete
  <2>5. rid_at_row' \in [Rows -> Rids] /\ gpu_comp_tail' \in Nat
    BY <1>5, <2>2 DEF GpuComplete
  <2>6. comp_ready' \in [Slots -> BOOLEAN]
    BY <1>5 DEF GpuComplete
  <2> QED
    BY <1>5, <2>1, <2>2, <2>3, <2>4, <2>5, <2>6 DEF GpuComplete, Goto, Claim, AfterFlush, requests, locks, callers, threads, cpu, gpu
<1>6. CASE GpuFinalized
  BY <1>6 DEF GpuFinalized, Goto, Claim, AfterFlush, requests, locks, callers, threads, cpu, gpu
<1>7. CASE GpuAdmit
  <2>1. Slot(gpu_req_head) \in Slots
    OBVIOUS
  <2>2. req_request_id[Slot(gpu_req_head)] \in Requests
    BY <1>7, <2>1 DEF GpuAdmit, Travelling
  <2>3. Last(free_rows) \in Rows /\ Front(free_rows) \in Seq(Rows)
    BY <1>7, FrontOf DEF GpuAdmit
  <2>4. [rid |-> req_request_id[Slot(gpu_req_head)], row |-> Last(free_rows), steps |-> 0]
          \in [rid : Requests, row : Rows, steps : 0..MaxSteps]
    BY <2>2, <2>3
  <2>5. batch' \in Seq([rid : Requests, row : Rows, steps : 0..MaxSteps])
    BY <1>7, <2>4 DEF GpuAdmit
  <2>6. free_rows' \in Seq(Rows) /\ gpu_req_head' \in Nat
    BY <1>7, <2>3 DEF GpuAdmit
  <2>7. /\ tokens' \in [Rows -> Rids] /\ rid_at_row' \in [Rows -> Rids]
        /\ req_ready' \in [Slots -> BOOLEAN]
    BY <1>7, <2>1, <2>2, <2>3 DEF GpuAdmit
  <2> QED
    BY <1>7, <2>1, <2>2, <2>3, <2>4, <2>5, <2>6, <2>7 DEF GpuAdmit, Goto, Claim, AfterFlush, requests, locks, callers, threads, cpu, gpu
<1>8. CASE GpuRun
  <2>1. ASSUME NEW i \in 1..Len(batch)
        PROVE  [batch[i] EXCEPT !.steps = @ + 1]
                  \in [rid : Requests, row : Rows, steps : 0..MaxSteps]
    <3>1. batch[i].steps < MaxSteps
      BY <1>8 DEF GpuRun, Walk
    <3>2. batch[i] \in [rid : Requests, row : Rows, steps : 0..MaxSteps]
      BY BatchEntry, Zenon
    <3> QED
      BY <3>1, <3>2, EntryStepped, Zenon
  <2>2. Len(batch) \in Nat
    OBVIOUS
  <2>3. batch' = [i \in 1..Len(batch) |-> [batch[i] EXCEPT !.steps = @ + 1]]
    BY <1>8 DEF GpuRun
  <2> DEFINE e(i) == [batch[i] EXCEPT !.steps = @ + 1]
  <2>4. batch' = [i \in 1..Len(batch) |-> e(i)] /\ \A i \in 1..Len(batch) :
           e(i) \in [rid : Requests, row : Rows, steps : 0..MaxSteps]
    BY <2>1, <2>3, Zenon
  <2> HIDE DEF e
  <2>5. batch' \in Seq([rid : Requests, row : Rows, steps : 0..MaxSteps])
    BY <2>2, <2>4
  <2>6. gslot' = 1 /\ gpc' = "finalize"
    BY <1>8 DEF GpuRun
  <2>7. UNCHANGED <<requests, comp_ready, comp_entry, cpu, gpu_req_head,
                    gpu_comp_tail, free_rows, tokens, rid_at_row, reported>>
    BY <1>8 DEF GpuRun
  <2> QED
    BY <2>5, <2>6, <2>7 DEF Goto, Claim, AfterFlush, requests, locks, callers, threads, cpu, gpu
<1>9. CASE GpuIdle
  BY <1>9 DEF GpuIdle, Goto, Claim, AfterFlush, requests, locks, callers, threads, cpu, gpu
<1>10. ASSUME NEW c \in Clients, Submit(c) PROVE TypeOK'
  <2>1. next_rid \in Requests /\ next_rid' \in 0..NumRequests
    BY <1>10 DEF Submit, Requests
  <2>2. /\ item' \in [Threads -> Rids] /\ rid' \in [Clients -> Rids]
        /\ submit_lock' \in Clients \cup {None}
    BY <1>10, <2>1 DEF Submit
  <2>3. pc' = [pc EXCEPT ![c] = "claim"]
    BY <1>10 DEF Submit, Goto
  <2>4. /\ pc' \in [Threads -> {"idle", "claim", "enqueue", "copy", "publish",
                         "drain", "flush", "pop", "rollback", "check", "read",
                         "release", "done", "stopped"}]
        /\ \A t \in Threads : pc'[t] \in {"copy", "publish"} => item'[t] # None
    BY <1>10, <2>1, <2>3 DEF Submit
  <2> QED
    BY <1>10, <2>1, <2>2, <2>3, <2>4 DEF Submit, Goto, Claim, AfterFlush, requests, locks, callers, threads, cpu, gpu
<1>11. ASSUME NEW c \in Clients, SubmitClaim(c) PROVE TypeOK'
  <2>1. pc' = [pc EXCEPT ![c] = "copy"] /\ item' = item
    BY <1>11 DEF SubmitClaim, Claim, Goto
  <2>2. item[c] # None
    BY <1>11 DEF SubmitClaim, Travelling
  <2>3. /\ pc' \in [Threads -> {"idle", "claim", "enqueue", "copy", "publish",
                         "drain", "flush", "pop", "rollback", "check", "read",
                         "release", "done", "stopped"}]
        /\ \A t \in Threads : pc'[t] \in {"copy", "publish"} => item'[t] # None
    BY <2>1, <2>2
  <2>4. cpu_req_tail' \in Int /\ pos' \in [Threads -> Int]
    BY <1>11 DEF SubmitClaim, Claim
  <2> QED
    BY <1>11, <2>1, <2>2, <2>3, <2>4 DEF SubmitClaim, Goto, Claim, AfterFlush, requests, locks, callers, threads, cpu, gpu
<1>12. ASSUME NEW c \in Clients, SubmitFull(c) PROVE TypeOK'
  BY <1>12 DEF SubmitFull, Goto, Claim, AfterFlush, requests, locks, callers, threads, cpu, gpu
<1>13. ASSUME NEW c \in Clients, SubmitEnqueue(c) PROVE TypeOK'
  <2>1. item[c] \in Requests
    BY <1>13 DEF SubmitEnqueue, Travelling, Issued, Requests
  <2>2. waiting' \in Seq(Requests)
    BY <1>13, <2>1 DEF SubmitEnqueue
  <2>3. pc' = [pc EXCEPT ![c] = "drain"] /\ item' = [item EXCEPT ![c] = None]
    BY <1>13 DEF SubmitEnqueue, Goto
  <2>4. /\ pc' \in [Threads -> {"idle", "claim", "enqueue", "copy", "publish",
                         "drain", "flush", "pop", "rollback", "check", "read",
                         "release", "done", "stopped"}]
        /\ \A t \in Threads : pc'[t] \in {"copy", "publish"} => item'[t] # None
        /\ item' \in [Threads -> Rids]
    BY <2>3
  <2> QED
    BY <1>13, <2>1, <2>2, <2>3, <2>4 DEF SubmitEnqueue, Goto, Claim, AfterFlush, requests, locks, callers, threads, cpu, gpu
<1>14. ASSUME NEW c \in Clients, Check(c) PROVE TypeOK'
  BY <1>14 DEF Check, Goto, Claim, AfterFlush, requests, locks, callers, threads, cpu, gpu
<1>15. ASSUME NEW c \in Clients, TimeOut(c) PROVE TypeOK'
  BY <1>15 DEF TimeOut, Goto, Claim, AfterFlush, requests, locks, callers, threads, cpu, gpu
<1>16. ASSUME NEW c \in Clients, ReadTokens(c) PROVE TypeOK'
  <2>1. rid[c] \in Requests
    BY <1>16 DEF ReadTokens, OwnRequest, Issued, Requests
  <2>2. completions[rid[c]] \in Rows
    BY <1>16, <2>1 DEF ReadTokens, OwnRequest
  <2>3. result' \in [Clients -> Rids]
    BY <1>16, <2>2 DEF ReadTokens
  <2>4. pc' = [pc EXCEPT ![c] = "release"] /\ item' = item
    BY <1>16 DEF ReadTokens, Goto
  <2>5. /\ pc' \in [Threads -> {"idle", "claim", "enqueue", "copy", "publish",
                         "drain", "flush", "pop", "rollback", "check", "read",
                         "release", "done", "stopped"}]
        /\ \A t \in Threads : pc'[t] \in {"copy", "publish"} => item'[t] # None
    BY <2>4
  <2> QED
    BY <1>16, <2>1, <2>2, <2>3, <2>4, <2>5 DEF ReadTokens, Goto, Claim, AfterFlush, requests, locks, callers, threads, cpu, gpu
<1>17. ASSUME NEW c \in Clients, Release(c) PROVE TypeOK'
  BY <1>17 DEF Release, Goto, Claim, AfterFlush, requests, locks, callers, threads, cpu, gpu
<1>18. ASSUME NEW t \in Threads, DrainOne(t) PROVE TypeOK'
  <2>1. Slot(cpu_comp_head) \in Slots
    OBVIOUS
  <2>2. comp_entry[Slot(cpu_comp_head)][2] \in Rows \cup {NoRow}
    BY <2>1 DEF NoEntry
  <2>3. completions' \in [Requests -> Rows \cup {NoRow}]
    BY <1>18, <2>2 DEF DrainOne
  <2>4. comp_ready' \in [Slots -> BOOLEAN] /\ cpu_comp_head' \in Nat
    BY <1>18, <2>1 DEF DrainOne
  <2> QED
    BY <1>18, <2>1, <2>2, <2>3, <2>4 DEF DrainOne, Goto, Claim, AfterFlush, requests, locks, callers, threads, cpu, gpu
<1>19. ASSUME NEW t \in Threads, DrainEnd(t) PROVE TypeOK'
  BY <1>19 DEF DrainEnd, Goto, Claim, AfterFlush, requests, locks, callers, threads, cpu, gpu
<1>20. ASSUME NEW t \in Threads, FlushClaim(t) PROVE TypeOK'
  BY <1>20 DEF FlushClaim, Goto, Claim, AfterFlush, requests, locks, callers, threads, cpu, gpu
<1>21. ASSUME NEW t \in Threads, FlushFull(t) PROVE TypeOK'
  BY <1>21 DEF FlushFull, Goto, Claim, AfterFlush, requests, locks, callers, threads, cpu, gpu
<1>22. ASSUME NEW t \in Threads, FlushPop(t) PROVE TypeOK'
  BY <1>22 DEF FlushPop, Goto, Claim, AfterFlush, requests, locks, callers, threads, cpu, gpu
<1>23. ASSUME NEW t \in Threads, FlushNone(t) PROVE TypeOK'
  BY <1>23 DEF FlushNone, Goto, Claim, AfterFlush, requests, locks, callers, threads, cpu, gpu
<1>24. ASSUME NEW t \in Threads, FlushRollback(t) PROVE TypeOK'
  BY <1>24 DEF FlushRollback, Goto, Claim, AfterFlush, requests, locks, callers, threads, cpu, gpu
<1>25. ASSUME NEW t \in Threads, FillSlot(t) PROVE TypeOK'
  BY <1>25 DEF FillSlot, Goto, Claim, AfterFlush, requests, locks, callers, threads, cpu, gpu
<1>26. ASSUME NEW t \in Threads, Publish(t) PROVE TypeOK'
  <2>1. req_ready' \in [Slots -> BOOLEAN] /\ pos' \in [Threads -> Int]
    BY <1>26 DEF Publish
  <2>2. submit_lock' \in Clients \cup {None}
    BY <1>26 DEF Publish
  <2>3. item' = [item EXCEPT ![t] = None] /\ item' \in [Threads -> Rids]
    BY <1>26 DEF Publish
  <2>4. PICK l \in {"drain", "flush"} : pc' = [pc EXCEPT ![t] = l]
    BY <1>26 DEF Publish, Goto
  <2>5. /\ pc' \in [Threads -> {"idle", "claim", "enqueue", "copy", "publish",
                         "drain", "flush", "pop", "rollback", "check", "read",
                         "release", "done", "stopped"}]
        /\ \A u \in Threads : pc'[u] \in {"copy", "publish"} => item'[u] # None
    BY <2>3, <2>4
  <2> QED
    BY <1>26, <2>1, <2>2, <2>3, <2>4, <2>5 DEF Publish, Goto, Claim, AfterFlush, requests, locks, callers, threads, cpu, gpu
<1>27. CASE UNCHANGED vars
  BY <1>27 DEF vars, Goto, Claim, AfterFlush, requests, locks, callers, threads, cpu, gpu
<1> QED
  BY <1>1, <1>2, <1>3, <1>4, <1>5, <1>6, <1>7, <1>8, <1>9, <1>10, <1>11, <1>12, <1>13, <1>14, <1>15, <1>16, <1>17, <1>18, <1>19, <1>20, <1>21, <1>22, <1>23, <1>24, <1>25, <1>26, <1>27
     DEF Next, Gpu, submit, wait_for_request, drain_completions, flush_waiting, write_slot

(* What GpuComplete and GpuRun make of the batch.                          *)
LEMMA Completed ==
  ASSUME IInv, GpuComplete
  PROVE  /\ gslot \in 1..Len(batch) /\ Len(batch) \in Nat
         /\ batch[gslot].rid \in Issued /\ batch[gslot].row \in Rows
         /\ Len(batch') = Len(batch) - 1
         /\ \A j \in 1..Len(batch') :
              batch'[j] = IF j < gslot THEN batch[j] ELSE batch[j + 1]
         /\ \A j \in 1..Len(batch') : \E k \in 1..Len(batch) :
              k # gslot /\ batch'[j] = batch[k]
<1>1. gpc = "complete" /\ batch' = RemoveAt(batch, gslot)
  BY DEF GpuComplete
<1>2. /\ batch \in Seq([rid : Requests, row : Rows, steps : 0..MaxSteps])
      /\ gslot \in Nat \ {0}
  BY DEF IInv, TypeOK
<1>3. Len(batch) \in Nat
  BY <1>2
<1>4. gslot \in 1..Len(batch)
  BY <1>1, <1>2, <1>3 DEF IInv, Walk
<1>5. /\ Len(batch') = Len(batch) - 1
      /\ \A j \in 1..Len(batch) - 1 :
           batch'[j] = IF j < gslot THEN batch[j] ELSE batch[j + 1]
  BY <1>1, <1>2, <1>4, RemovedAt, Zenon
<1>6. ASSUME NEW j \in 1..Len(batch')
      PROVE  \E k \in 1..Len(batch) : k # gslot /\ batch'[j] = batch[k]
  <2>1. CASE j < gslot
    <3>1. j \in 1..Len(batch) /\ j # gslot /\ batch'[j] = batch[j]
      BY <1>3, <1>4, <1>5, <2>1
    <3> QED
      BY <3>1
  <2>2. CASE ~(j < gslot)
    <3>1. j + 1 \in 1..Len(batch) /\ j + 1 # gslot /\ batch'[j] = batch[j + 1]
      BY <1>2, <1>3, <1>4, <1>5, <2>2
    <3> QED
      BY <3>1
  <2> QED
    BY <2>1, <2>2
<1>7. batch[gslot].rid \in Issued /\ batch[gslot].row \in Rows
  BY <1>4, BatchEntry DEF IInv, Travelling
<1> QED
  BY <1>3, <1>4, <1>5, <1>6, <1>7

LEMMA Stepped ==
  ASSUME IInv, GpuRun
  PROVE  /\ Len(batch') = Len(batch)
         /\ \A i \in 1..Len(batch) : batch'[i].rid = batch[i].rid /\ batch'[i].row = batch[i].row
<1>1. batch' = [i \in 1..Len(batch) |-> [batch[i] EXCEPT !.steps = @ + 1]]
  BY DEF GpuRun
<1>2. Len(batch) \in Nat
  BY DEF IInv, TypeOK
<1>3. ASSUME NEW i \in 1..Len(batch)
      PROVE  batch'[i].rid = batch[i].rid /\ batch'[i].row = batch[i].row
  <2>1. batch'[i] = [batch[i] EXCEPT !.steps = @ + 1]
    BY <1>1
  <2>2. batch[i] \in [rid : Requests, row : Rows, steps : 0..MaxSteps]
    BY BatchEntry DEF IInv
  <2>3. batch[i].steps < MaxSteps
    BY DEF IInv, Walk, GpuRun
  <2> QED
    BY <2>1, <2>2, <2>3, EntryStepped
<1> QED
  BY <1>1, <1>2, <1>3

(* Requests on their way, of each action.                                  *)
LEMMA TravellingStep == IInv /\ [Next]_vars => Travelling'
<1> SUFFICES ASSUME IInv, [Next]_vars PROVE Travelling'
  OBVIOUS
<1> USE Sizes, SlotOf DEF IInv, TypeOK, Travelling, Issued
<1>1. CASE Reset
  BY <1>1 DEF Reset, Goto, Claim, AfterFlush, requests, locks, callers, threads, cpu, gpu
<1>2. CASE Shutdown
  BY <1>2 DEF Shutdown, Goto, Claim, AfterFlush, requests, locks, callers, threads, cpu, gpu
<1>3. CASE GpuKeep
  BY <1>3 DEF GpuKeep, Goto, Claim, AfterFlush, requests, locks, callers, threads, cpu, gpu
<1>4. CASE GpuReport
  BY <1>4 DEF GpuReport, Goto, Claim, AfterFlush, requests, locks, callers, threads, cpu, gpu
<1>5. CASE GpuComplete
  <2>1. batch[gslot].rid \in Issued /\ batch[gslot].row \in Rows /\ next_rid' = next_rid
    BY <1>5, Completed DEF GpuComplete, Goto, Claim, AfterFlush, requests, locks, callers, threads, cpu, gpu
  <2>2. \A i \in 1..Len(batch') : batch'[i].rid \in Issued
    BY <1>5, Completed
  <2>3. reported' \in Seq(Issued \X Rows)
    BY <1>5, <2>1, AppendProperties DEF GpuComplete
  <2> HIDE DEF Issued
  <2> QED
    BY <1>5, <2>1, <2>2, <2>3 DEF GpuComplete, Issued, Goto, Claim, AfterFlush, requests, locks, callers, threads, cpu, gpu
<1>6. CASE GpuFinalized
  BY <1>6 DEF GpuFinalized, Goto, Claim, AfterFlush, requests, locks, callers, threads, cpu, gpu
<1>7. CASE GpuAdmit
  BY <1>7 DEF GpuAdmit, Goto, Claim, AfterFlush, requests, locks, callers, threads, cpu, gpu
<1>8. CASE GpuRun
  <2>1. \A i \in 1..Len(batch') : batch'[i].rid \in Issued
    BY <1>8, Stepped
  <2> QED
    BY <1>8, <2>1 DEF GpuRun, Goto, Claim, AfterFlush, requests, locks, callers, threads, cpu, gpu
<1>9. CASE GpuIdle
  BY <1>9 DEF GpuIdle, Goto, Claim, AfterFlush, requests, locks, callers, threads, cpu, gpu
<1>10. ASSUME NEW c \in Clients, Submit(c) PROVE Travelling'
  <2>1. next_rid' = next_rid + 1 /\ next_rid \in Nat
    BY <1>10 DEF Submit, Requests
  <2>2. Issued \subseteq Issued' /\ next_rid \in Issued'
    BY <2>1
  <2> HIDE DEF Issued
  <2>3. reported' \in Seq(Issued' \X Rows)
    <3>1. Issued \X Rows \subseteq Issued' \X Rows
      BY <2>2
    <3>2. reported' = reported /\ reported \in Seq(Issued \X Rows)
      BY <1>10 DEF Submit, gpu
    <3> QED
      BY <3>1, <3>2, SeqMonotonic, Zenon
  <2>4. /\ item' = [item EXCEPT ![c] = next_rid] /\ pc' = [pc EXCEPT ![c] = "claim"]
        /\ pos' = pos /\ waiting' = waiting /\ batch' = batch
        /\ req_request_id' = req_request_id /\ req_ready' = req_ready
    BY <1>10 DEF Submit, Goto, Claim, AfterFlush, requests, locks, callers, threads, cpu, gpu
  <2>5. next_rid # None
    BY <1>10 DEF Submit, Requests
  <2> QED
    BY <2>2, <2>3, <2>4, <2>5
<1>11. ASSUME NEW c \in Clients, SubmitClaim(c) PROVE Travelling'
  BY <1>11 DEF SubmitClaim, Goto, Claim, AfterFlush, requests, locks, callers, threads, cpu, gpu
<1>12. ASSUME NEW c \in Clients, SubmitFull(c) PROVE Travelling'
  BY <1>12 DEF SubmitFull, Goto, Claim, AfterFlush, requests, locks, callers, threads, cpu, gpu
<1>13. ASSUME NEW c \in Clients, SubmitEnqueue(c) PROVE Travelling'
  BY <1>13 DEF SubmitEnqueue, Goto, Claim, AfterFlush, requests, locks, callers, threads, cpu, gpu
<1>14. ASSUME NEW c \in Clients, Check(c) PROVE Travelling'
  BY <1>14 DEF Check, Goto, Claim, AfterFlush, requests, locks, callers, threads, cpu, gpu
<1>15. ASSUME NEW c \in Clients, TimeOut(c) PROVE Travelling'
  BY <1>15 DEF TimeOut, Goto, Claim, AfterFlush, requests, locks, callers, threads, cpu, gpu
<1>16. ASSUME NEW c \in Clients, ReadTokens(c) PROVE Travelling'
  BY <1>16 DEF ReadTokens, Goto, Claim, AfterFlush, requests, locks, callers, threads, cpu, gpu
<1>17. ASSUME NEW c \in Clients, Release(c) PROVE Travelling'
  BY <1>17 DEF Release, Goto, Claim, AfterFlush, requests, locks, callers, threads, cpu, gpu
<1>18. ASSUME NEW t \in Threads, DrainOne(t) PROVE Travelling'
  BY <1>18 DEF DrainOne, Goto, Claim, AfterFlush, requests, locks, callers, threads, cpu, gpu
<1>19. ASSUME NEW t \in Threads, DrainEnd(t) PROVE Travelling'
  BY <1>19 DEF DrainEnd, Goto, Claim, AfterFlush, requests, locks, callers, threads, cpu, gpu
<1>20. ASSUME NEW t \in Threads, FlushClaim(t) PROVE Travelling'
  BY <1>20 DEF FlushClaim, Goto, Claim, AfterFlush, requests, locks, callers, threads, cpu, gpu
<1>21. ASSUME NEW t \in Threads, FlushFull(t) PROVE Travelling'
  BY <1>21 DEF FlushFull, Goto, Claim, AfterFlush, requests, locks, callers, threads, cpu, gpu
<1>22. ASSUME NEW t \in Threads, FlushPop(t) PROVE Travelling'
  BY <1>22 DEF FlushPop, Goto, Claim, AfterFlush, requests, locks, callers, threads, cpu, gpu
<1>23. ASSUME NEW t \in Threads, FlushNone(t) PROVE Travelling'
  BY <1>23 DEF FlushNone, Goto, Claim, AfterFlush, requests, locks, callers, threads, cpu, gpu
<1>24. ASSUME NEW t \in Threads, FlushRollback(t) PROVE Travelling'
  BY <1>24 DEF FlushRollback, Goto, Claim, AfterFlush, requests, locks, callers, threads, cpu, gpu
<1>25. ASSUME NEW t \in Threads, FillSlot(t) PROVE Travelling'
  BY <1>25 DEF FillSlot, Goto, Claim, AfterFlush, requests, locks, callers, threads, cpu, gpu
<1>26. ASSUME NEW t \in Threads, Publish(t) PROVE Travelling'
  BY <1>26 DEF Publish, Goto, Claim, AfterFlush, requests, locks, callers, threads, cpu, gpu
<1>27. CASE UNCHANGED vars
  BY <1>27 DEF vars, Goto, Claim, AfterFlush, requests, locks, callers, threads, cpu, gpu
<1> QED
  BY <1>1, <1>2, <1>3, <1>4, <1>5, <1>6, <1>7, <1>8, <1>9, <1>10, <1>11, <1>12, <1>13, <1>14, <1>15, <1>16, <1>17, <1>18, <1>19, <1>20, <1>21, <1>22, <1>23, <1>24, <1>25, <1>26, <1>27
     DEF Next, Gpu, submit, wait_for_request, drain_completions, flush_waiting, write_slot

(* Callers' requests, of each action.                                      *)
LEMMA OwnRequestStep == IInv /\ [Next]_vars => OwnRequest'
<1> SUFFICES ASSUME IInv, [Next]_vars PROVE OwnRequest'
  OBVIOUS
<1> USE Sizes, SlotOf DEF IInv, TypeOK, OwnRequest, Issued
<1>1. CASE Reset
  BY <1>1 DEF Reset, Goto, Claim, AfterFlush, requests, locks, callers, threads, cpu, gpu
<1>2. CASE Shutdown
  BY <1>2 DEF Shutdown, Goto, Claim, AfterFlush, requests, locks, callers, threads, cpu, gpu
<1>3. CASE GpuKeep
  BY <1>3 DEF GpuKeep, Goto, Claim, AfterFlush, requests, locks, callers, threads, cpu, gpu
<1>4. CASE GpuReport
  BY <1>4 DEF GpuReport, Goto, Claim, AfterFlush, requests, locks, callers, threads, cpu, gpu
<1>5. CASE GpuComplete
  BY <1>5 DEF GpuComplete, Goto, Claim, AfterFlush, requests, locks, callers, threads, cpu, gpu
<1>6. CASE GpuFinalized
  BY <1>6 DEF GpuFinalized, Goto, Claim, AfterFlush, requests, locks, callers, threads, cpu, gpu
<1>7. CASE GpuAdmit
  BY <1>7 DEF GpuAdmit, Goto, Claim, AfterFlush, requests, locks, callers, threads, cpu, gpu
<1>8. CASE GpuRun
  BY <1>8 DEF GpuRun, Goto, Claim, AfterFlush, requests, locks, callers, threads, cpu, gpu
<1>9. CASE GpuIdle
  BY <1>9 DEF GpuIdle, Goto, Claim, AfterFlush, requests, locks, callers, threads, cpu, gpu
<1>10. ASSUME NEW c \in Clients, Submit(c) PROVE OwnRequest'
  BY <1>10 DEF Submit, Goto, Claim, AfterFlush, requests, locks, callers, threads, cpu, gpu
<1>11. ASSUME NEW c \in Clients, SubmitClaim(c) PROVE OwnRequest'
  BY <1>11 DEF SubmitClaim, Goto, Claim, AfterFlush, requests, locks, callers, threads, cpu, gpu
<1>12. ASSUME NEW c \in Clients, SubmitFull(c) PROVE OwnRequest'
  BY <1>12 DEF SubmitFull, Goto, Claim, AfterFlush, requests, locks, callers, threads, cpu, gpu
<1>13. ASSUME NEW c \in Clients, SubmitEnqueue(c) PROVE OwnRequest'
  BY <1>13 DEF SubmitEnqueue, Goto, Claim, AfterFlush, requests, locks, callers, threads, cpu, gpu
<1>14. ASSUME NEW c \in Clients, Check(c) PROVE OwnRequest'
  BY <1>14 DEF Check, Goto, Claim, AfterFlush, requests, locks, callers, threads, cpu, gpu
<1>15. ASSUME NEW c \in Clients, TimeOut(c) PROVE OwnRequest'
  BY <1>15 DEF TimeOut, Goto, Claim, AfterFlush, requests, locks, callers, threads, cpu, gpu
<1>16. ASSUME NEW c \in Clients, ReadTokens(c) PROVE OwnRequest'
  BY <1>16 DEF ReadTokens, Goto, Claim, AfterFlush, requests, locks, callers, threads, cpu, gpu
<1>17. ASSUME NEW c \in Clients, Release(c) PROVE OwnRequest'
  BY <1>17 DEF Release, Goto, Claim, AfterFlush, requests, locks, callers, threads, cpu, gpu
<1>18. ASSUME NEW t \in Threads, DrainOne(t) PROVE OwnRequest'
  <2>1. rid' = rid /\ pc' = pc /\ next_rid' = next_rid
    BY <1>18 DEF DrainOne, Goto, Claim, AfterFlush, requests, locks, callers, threads, cpu, gpu
  <2>2. ASSUME NEW r \in Requests, completions[r] # NoRow PROVE completions'[r] # NoRow
    <3>1. Slot(cpu_comp_head) \in Slots
      OBVIOUS
    <3>2. comp_entry[Slot(cpu_comp_head)] \in {NoEntry} \cup (Requests \X Rows)
      BY <3>1
    <3>3. comp_entry[Slot(cpu_comp_head)][1] = r => comp_entry[Slot(cpu_comp_head)][2] # NoRow
      BY <3>2 DEF NoEntry, NoRow, Rows
    <3> QED
      BY <1>18, <2>2, <3>3 DEF DrainOne
  <2>3. \A c \in Clients : pc[c] = "read" => rid[c] \in Requests
    BY DEF Requests
  <2> QED
    BY <2>1, <2>2, <2>3
<1>19. ASSUME NEW t \in Threads, DrainEnd(t) PROVE OwnRequest'
  BY <1>19 DEF DrainEnd, Goto, Claim, AfterFlush, requests, locks, callers, threads, cpu, gpu
<1>20. ASSUME NEW t \in Threads, FlushClaim(t) PROVE OwnRequest'
  BY <1>20 DEF FlushClaim, Goto, Claim, AfterFlush, requests, locks, callers, threads, cpu, gpu
<1>21. ASSUME NEW t \in Threads, FlushFull(t) PROVE OwnRequest'
  BY <1>21 DEF FlushFull, Goto, Claim, AfterFlush, requests, locks, callers, threads, cpu, gpu
<1>22. ASSUME NEW t \in Threads, FlushPop(t) PROVE OwnRequest'
  BY <1>22 DEF FlushPop, Goto, Claim, AfterFlush, requests, locks, callers, threads, cpu, gpu
<1>23. ASSUME NEW t \in Threads, FlushNone(t) PROVE OwnRequest'
  BY <1>23 DEF FlushNone, Goto, Claim, AfterFlush, requests, locks, callers, threads, cpu, gpu
<1>24. ASSUME NEW t \in Threads, FlushRollback(t) PROVE OwnRequest'
  BY <1>24 DEF FlushRollback, Goto, Claim, AfterFlush, requests, locks, callers, threads, cpu, gpu
<1>25. ASSUME NEW t \in Threads, FillSlot(t) PROVE OwnRequest'
  BY <1>25 DEF FillSlot, Goto, Claim, AfterFlush, requests, locks, callers, threads, cpu, gpu
<1>26. ASSUME NEW t \in Threads, Publish(t) PROVE OwnRequest'
  BY <1>26 DEF Publish, Goto, Claim, AfterFlush, requests, locks, callers, threads, cpu, gpu
<1>27. CASE UNCHANGED vars
  BY <1>27 DEF vars, Goto, Claim, AfterFlush, requests, locks, callers, threads, cpu, gpu
<1> QED
  BY <1>1, <1>2, <1>3, <1>4, <1>5, <1>6, <1>7, <1>8, <1>9, <1>10, <1>11, <1>12, <1>13, <1>14, <1>15, <1>16, <1>17, <1>18, <1>19, <1>20, <1>21, <1>22, <1>23, <1>24, <1>25, <1>26, <1>27
     DEF Next, Gpu, submit, wait_for_request, drain_completions, flush_waiting, write_slot

(* The GPU's walk over the batch, of each action.                          *)
LEMMA WalkStep == IInv /\ [Next]_vars => Walk'
<1> SUFFICES ASSUME IInv, [Next]_vars PROVE Walk'
  OBVIOUS
<1> USE Sizes, SlotOf DEF IInv, TypeOK, Walk
<1>1. CASE Reset
  BY <1>1 DEF Reset, Goto, Claim, AfterFlush, requests, locks, callers, threads, cpu, gpu
<1>2. CASE Shutdown
  BY <1>2 DEF Shutdown, Goto, Claim, AfterFlush, requests, locks, callers, threads, cpu, gpu
<1>3. CASE GpuKeep
  BY <1>3 DEF GpuKeep, Goto, Claim, AfterFlush, requests, locks, callers, threads, cpu, gpu
<1>4. CASE GpuReport
  BY <1>4 DEF GpuReport, Goto, Claim, AfterFlush, requests, locks, callers, threads, cpu, gpu
<1>5. CASE GpuComplete
  <2>1. gpc' = "finalize" /\ gslot' = gslot
    BY <1>5 DEF GpuComplete
  <2>2. ASSUME NEW i \in 1..Len(batch'), i < gslot PROVE batch'[i].steps < MaxSteps
    <3>1. i \in 1..Len(batch) /\ batch'[i] = batch[i]
      BY <1>5, <2>2, Completed
    <3> QED
      BY <2>2, <3>1
  <2> QED
    BY <2>1, <2>2
<1>6. CASE GpuFinalized
  BY <1>6 DEF GpuFinalized, Goto, Claim, AfterFlush, requests, locks, callers, threads, cpu, gpu
<1>7. CASE GpuAdmit
  BY <1>7 DEF GpuAdmit, Goto, Claim, AfterFlush, requests, locks, callers, threads, cpu, gpu
<1>8. CASE GpuRun
  BY <1>8 DEF GpuRun, Goto, Claim, AfterFlush, requests, locks, callers, threads, cpu, gpu
<1>9. CASE GpuIdle
  BY <1>9 DEF GpuIdle, Goto, Claim, AfterFlush, requests, locks, callers, threads, cpu, gpu
<1>10. ASSUME NEW c \in Clients, Submit(c) PROVE Walk'
  BY <1>10 DEF Submit, Goto, Claim, AfterFlush, requests, locks, callers, threads, cpu, gpu
<1>11. ASSUME NEW c \in Clients, SubmitClaim(c) PROVE Walk'
  BY <1>11 DEF SubmitClaim, Goto, Claim, AfterFlush, requests, locks, callers, threads, cpu, gpu
<1>12. ASSUME NEW c \in Clients, SubmitFull(c) PROVE Walk'
  BY <1>12 DEF SubmitFull, Goto, Claim, AfterFlush, requests, locks, callers, threads, cpu, gpu
<1>13. ASSUME NEW c \in Clients, SubmitEnqueue(c) PROVE Walk'
  BY <1>13 DEF SubmitEnqueue, Goto, Claim, AfterFlush, requests, locks, callers, threads, cpu, gpu
<1>14. ASSUME NEW c \in Clients, Check(c) PROVE Walk'
  BY <1>14 DEF Check, Goto, Claim, AfterFlush, requests, locks, callers, threads, cpu, gpu
<1>15. ASSUME NEW c \in Clients, TimeOut(c) PROVE Walk'
  BY <1>15 DEF TimeOut, Goto, Claim, AfterFlush, requests, locks, callers, threads, cpu, gpu
<1>16. ASSUME NEW c \in Clients, ReadTokens(c) PROVE Walk'
  BY <1>16 DEF ReadTokens, Goto, Claim, AfterFlush, requests, locks, callers, threads, cpu, gpu
<1>17. ASSUME NEW c \in Clients, Release(c) PROVE Walk'
  BY <1>17 DEF Release, Goto, Claim, AfterFlush, requests, locks, callers, threads, cpu, gpu
<1>18. ASSUME NEW t \in Threads, DrainOne(t) PROVE Walk'
  BY <1>18 DEF DrainOne, Goto, Claim, AfterFlush, requests, locks, callers, threads, cpu, gpu
<1>19. ASSUME NEW t \in Threads, DrainEnd(t) PROVE Walk'
  BY <1>19 DEF DrainEnd, Goto, Claim, AfterFlush, requests, locks, callers, threads, cpu, gpu
<1>20. ASSUME NEW t \in Threads, FlushClaim(t) PROVE Walk'
  BY <1>20 DEF FlushClaim, Goto, Claim, AfterFlush, requests, locks, callers, threads, cpu, gpu
<1>21. ASSUME NEW t \in Threads, FlushFull(t) PROVE Walk'
  BY <1>21 DEF FlushFull, Goto, Claim, AfterFlush, requests, locks, callers, threads, cpu, gpu
<1>22. ASSUME NEW t \in Threads, FlushPop(t) PROVE Walk'
  BY <1>22 DEF FlushPop, Goto, Claim, AfterFlush, requests, locks, callers, threads, cpu, gpu
<1>23. ASSUME NEW t \in Threads, FlushNone(t) PROVE Walk'
  BY <1>23 DEF FlushNone, Goto, Claim, AfterFlush, requests, locks, callers, threads, cpu, gpu
<1>24. ASSUME NEW t \in Threads, FlushRollback(t) PROVE Walk'
  BY <1>24 DEF FlushRollback, Goto, Claim, AfterFlush, requests, locks, callers, threads, cpu, gpu
<1>25. ASSUME NEW t \in Threads, FillSlot(t) PROVE Walk'
  BY <1>25 DEF FillSlot, Goto, Claim, AfterFlush, requests, locks, callers, threads, cpu, gpu
<1>26. ASSUME NEW t \in Threads, Publish(t) PROVE Walk'
  BY <1>26 DEF Publish, Goto, Claim, AfterFlush, requests, locks, callers, threads, cpu, gpu
<1>27. CASE UNCHANGED vars
  BY <1>27 DEF vars, Goto, Claim, AfterFlush, requests, locks, callers, threads, cpu, gpu
<1> QED
  BY <1>1, <1>2, <1>3, <1>4, <1>5, <1>6, <1>7, <1>8, <1>9, <1>10, <1>11, <1>12, <1>13, <1>14, <1>15, <1>16, <1>17, <1>18, <1>19, <1>20, <1>21, <1>22, <1>23, <1>24, <1>25, <1>26, <1>27
     DEF Next, Gpu, submit, wait_for_request, drain_completions, flush_waiting, write_slot

(* A completed request's row becomes the last free row.                    *)
LEMMA CompleteRows == IInv /\ GpuComplete => RowsApart'
<1> SUFFICES ASSUME IInv, GpuComplete PROVE RowsApart'
  OBVIOUS
<1> USE Sizes
<1> DEFINE d == batch[gslot].row
           n == Len(free_rows)
<1>1. /\ gslot \in 1..Len(batch) /\ Len(batch) \in Nat /\ d \in Rows
      /\ batch[gslot].rid \in Issued
      /\ Len(batch') = Len(batch) - 1
      /\ \A j \in 1..Len(batch') : batch'[j] = IF j < gslot THEN batch[j] ELSE batch[j + 1]
  BY Completed
<1>2. /\ \A i \in 1..Len(batch) : rid_at_row[batch[i].row] = batch[i].rid
      /\ \A i, j \in 1..Len(batch) : batch[i].row = batch[j].row => i = j
      /\ \A i \in 1..n : rid_at_row[free_rows[i]] = None
      /\ \A i, j \in 1..n : free_rows[i] = free_rows[j] => i = j
      /\ \A r \in Rows : IF rid_at_row[r] = None THEN \E i \in 1..n : free_rows[i] = r
                         ELSE \E i \in 1..Len(batch) : batch[i].row = r
      /\ n + Len(batch) = NumRows
  BY DEF IInv, RowsApart
<1>3. rid_at_row' = [rid_at_row EXCEPT ![d] = None] /\ rid_at_row \in [Rows -> Rids]
  BY DEF GpuComplete, IInv, TypeOK
<1>4. /\ Len(free_rows') = n + 1 /\ n \in Nat /\ free_rows'[n + 1] = d
      /\ \A i \in 1..n : free_rows'[i] = free_rows[i] /\ free_rows[i] \in Rows
  <2>1. free_rows \in Seq(Rows) /\ free_rows' = Append(free_rows, d)
    BY DEF GpuComplete, IInv, TypeOK
  <2> HIDE DEF d
  <2> QED
    BY <1>1, <2>1
<1>5. batch[gslot].rid # None
  <2>1. next_rid \in 0..NumRequests
    BY DEF IInv, TypeOK
  <2>2. batch[gslot].rid \in Requests
    BY <1>1, <2>1 DEF Issued, Requests
  <2> QED
    BY <2>2
<1>6. \A r \in Rows : rid_at_row'[r] = IF r = d THEN None ELSE rid_at_row[r]
  BY <1>3
<1>7. \A i \in 1..Len(batch) : batch[i].row \in Rows
  BY BatchEntry DEF IInv
<1>8. \A i \in 1..Len(batch) : i # gslot => batch[i].row # d
  BY <1>1, <1>2
<1>9. \A i \in 1..n : free_rows[i] # d
  BY <1>1, <1>2, <1>5
<1> HIDE DEF d, n
<1> DEFINE k(j) == IF j < gslot THEN j ELSE j + 1
<1>10. \A j \in 1..Len(batch') : /\ k(j) \in 1..Len(batch) /\ k(j) # gslot
                                 /\ batch'[j] = batch[k(j)]
  BY <1>1
<1>11. \A i \in 1..Len(batch) : i # gslot => \E j \in 1..Len(batch') : k(j) = i
  <2> SUFFICES ASSUME NEW i \in 1..Len(batch), i # gslot
               PROVE  \E j \in 1..Len(batch') : k(j) = i
    OBVIOUS
  <2>1. CASE i < gslot
    <3>1. i \in 1..Len(batch') /\ k(i) = i
      BY <1>1, <2>1
    <3> QED
      BY <3>1
  <2>2. CASE i > gslot
    <3>1. i - 1 \in 1..Len(batch') /\ k(i - 1) = i
      BY <1>1, <2>2
    <3> QED
      BY <3>1
  <2>3. i < gslot \/ i > gslot
    BY <1>1
  <2> QED
    BY <2>1, <2>2, <2>3, Zenon
<1>12. \A i, j \in 1..Len(batch') : k(i) = k(j) => i = j
  BY <1>1
<1> HIDE DEF k
<1>13. \A i \in 1..Len(batch') : rid_at_row'[batch'[i].row] = batch'[i].rid
  BY <1>2, <1>6, <1>7, <1>8, <1>10
<1>14. \A i, j \in 1..Len(batch') : batch'[i].row = batch'[j].row => i = j
  <2> SUFFICES ASSUME NEW i \in 1..Len(batch'), NEW j \in 1..Len(batch'),
                      batch'[i].row = batch'[j].row
               PROVE  i = j
    OBVIOUS
  <2>1. /\ k(i) \in 1..Len(batch) /\ batch'[i] = batch[k(i)]
        /\ k(j) \in 1..Len(batch) /\ batch'[j] = batch[k(j)]
    BY <1>10, Zenon
  <2>2. k(i) = k(j)
    BY <1>2, <2>1
  <2> QED
    BY <1>12, <2>2, Zenon
<1>15. \A i \in 1..n + 1 : i \in 1..n \/ i = n + 1
  BY <1>4
<1>16. \A i \in 1..Len(free_rows') : rid_at_row'[free_rows'[i]] = None
  BY <1>1, <1>2, <1>4, <1>6, <1>9, <1>15
<1>17. ASSUME NEW i \in 1..Len(free_rows'), NEW j \in 1..Len(free_rows'),
              free_rows'[i] = free_rows'[j]
       PROVE  i = j
  <2>1. (i \in 1..n \/ i = n + 1) /\ (j \in 1..n \/ j = n + 1)
    BY <1>4, <1>15
  <2>2. CASE i \in 1..n /\ j \in 1..n
    BY <1>2, <1>4, <1>17, <2>2
  <2>3. CASE i \in 1..n /\ j = n + 1
    BY <1>4, <1>9, <1>17, <2>3
  <2>4. CASE i = n + 1 /\ j \in 1..n
    BY <1>4, <1>9, <1>17, <2>4
  <2> QED
    BY <2>1, <2>2, <2>3, <2>4
<1>18. ASSUME NEW r \in Rows
       PROVE  IF rid_at_row'[r] = None
              THEN \E i \in 1..Len(free_rows') : free_rows'[i] = r
              ELSE \E i \in 1..Len(batch') : batch'[i].row = r
  <2>1. CASE r = d
    <3>1. n + 1 \in 1..Len(free_rows') /\ rid_at_row'[r] = None
      BY <1>4, <1>6, <2>1
    <3> QED
      BY <1>4, <2>1, <3>1
  <2>2. CASE r # d /\ rid_at_row[r] = None
    <3>1. PICK i \in 1..n : free_rows[i] = r
      BY <1>2, <2>2
    <3>2. i \in 1..Len(free_rows') /\ free_rows'[i] = r
      BY <1>4, <3>1
    <3> QED
      BY <1>6, <2>2, <3>2
  <2>3. CASE r # d /\ rid_at_row[r] # None
    <3>1. PICK i \in 1..Len(batch) : batch[i].row = r
      BY <1>2, <2>3
    <3>2. i # gslot
      BY <2>3, <3>1 DEF d
    <3>3. PICK j \in 1..Len(batch') : k(j) = i
      BY <1>11, <3>2
    <3>4. batch'[j].row = r
      BY <1>10, <3>1, <3>3
    <3> QED
      BY <1>6, <2>3, <3>4
  <2> QED
    BY <2>1, <2>2, <2>3
<1>19. Len(free_rows') + Len(batch') = NumRows
  <2>1. Len(batch') = Len(batch) - 1 /\ Len(batch) \in Nat
    BY <1>1
  <2>2. Len(free_rows') = n + 1 /\ n \in Nat
    BY <1>4
  <2>3. n + Len(batch) = NumRows
    BY <1>2
  <2> QED
    BY <2>1, <2>2, <2>3
<1> QED
  BY <1>13, <1>14, <1>16, <1>17, <1>18, <1>19 DEF RowsApart

(* An admitted request takes the last free row.                            *)
LEMMA AdmitRows == IInv /\ GpuAdmit => RowsApart'
<1> SUFFICES ASSUME IInv, GpuAdmit PROVE RowsApart'
  OBVIOUS
<1> USE Sizes
<1> DEFINE q == req_request_id[Slot(gpu_req_head)]
           d == Last(free_rows)
           n == Len(free_rows)
           b == Len(batch)
<1>1. /\ n \in Nat \ {0} /\ d = free_rows[n] /\ d \in Rows
      /\ Len(free_rows') = n - 1
      /\ \A i \in 1..n - 1 : free_rows'[i] = free_rows[i] /\ free_rows[i] \in Rows
  <2>1. free_rows \in Seq(Rows) /\ free_rows # <<>> /\ free_rows' = Front(free_rows)
    BY DEF GpuAdmit, IInv, TypeOK
  <2>2. \A i \in 1..n : free_rows[i] \in Rows
    BY <2>1
  <2> QED
    BY <2>1, <2>2, FrontOf
<1>2. /\ \A i \in 1..b : rid_at_row[batch[i].row] = batch[i].rid
      /\ \A i, j \in 1..b : batch[i].row = batch[j].row => i = j
      /\ \A i \in 1..n : rid_at_row[free_rows[i]] = None
      /\ \A i, j \in 1..n : free_rows[i] = free_rows[j] => i = j
      /\ \A r \in Rows : IF rid_at_row[r] = None THEN \E i \in 1..n : free_rows[i] = r
                         ELSE \E i \in 1..b : batch[i].row = r
      /\ n + b = NumRows
  BY DEF IInv, RowsApart
<1>3. rid_at_row' = [rid_at_row EXCEPT ![d] = q] /\ rid_at_row \in [Rows -> Rids]
  BY DEF GpuAdmit, IInv, TypeOK
<1>4. q # None
  <2>1. Slot(gpu_req_head) \in Slots
    BY SlotOf DEF IInv, TypeOK
  <2> QED
    BY <2>1 DEF GpuAdmit, IInv, Travelling
<1>5. /\ Len(batch') = b + 1 /\ b \in Nat
      /\ batch'[b + 1].row = d /\ batch'[b + 1].rid = q
      /\ \A i \in 1..b : batch'[i] = batch[i]
  <2> DEFINE e == [rid |-> q, row |-> d, steps |-> 0]
  <2>1. e.row = d /\ e.rid = q
    OBVIOUS
  <2>2. batch' = Append(batch, e)
    BY DEF GpuAdmit
  <2>3. batch \in Seq([rid : Requests, row : Rows, steps : 0..MaxSteps])
    BY DEF IInv, TypeOK
  <2> HIDE DEF e
  <2> QED
    BY <2>1, <2>2, <2>3
<1>6. \A i \in 1..b : batch[i].row \in Rows /\ batch[i].rid # None
  <2> SUFFICES ASSUME NEW i \in 1..b PROVE batch[i].row \in Rows /\ batch[i].rid # None
    OBVIOUS
  <2> QED
    BY BatchEntry DEF IInv
<1>7. \A r \in Rows : rid_at_row'[r] = IF r = d THEN q ELSE rid_at_row[r]
  BY <1>3
<1> HIDE DEF q, d, n, b
<1>8. n \in 1..n /\ \A i \in 1..n - 1 : i \in 1..n /\ i # n
  BY <1>1
<1>9. \A i \in 1..b : batch[i].row # d
  BY <1>1, <1>2, <1>6, <1>8
<1>10. \A i \in 1..b + 1 : i \in 1..b \/ i = b + 1
  BY <1>5
<1>11. \A i \in 1..Len(batch') : rid_at_row'[batch'[i].row] = batch'[i].rid
  BY <1>1, <1>2, <1>5, <1>6, <1>7, <1>9, <1>10
<1>12. \A i, j \in 1..Len(batch') : batch'[i].row = batch'[j].row => i = j
  BY <1>2, <1>5, <1>9, <1>10
<1>13. \A i \in 1..Len(free_rows') : /\ free_rows'[i] = free_rows[i] /\ i \in 1..n
                                     /\ free_rows[i] \in Rows /\ free_rows[i] # d
  BY <1>1, <1>2, <1>8
<1>14. \A i \in 1..Len(free_rows') : rid_at_row'[free_rows'[i]] = None
  BY <1>2, <1>7, <1>13
<1>15. \A i, j \in 1..Len(free_rows') : free_rows'[i] = free_rows'[j] => i = j
  BY <1>2, <1>13
<1>16. ASSUME NEW r \in Rows
       PROVE  IF rid_at_row'[r] = None
              THEN \E i \in 1..Len(free_rows') : free_rows'[i] = r
              ELSE \E i \in 1..Len(batch') : batch'[i].row = r
  <2>1. CASE r = d
    <3>1. b + 1 \in 1..Len(batch') /\ rid_at_row'[r] # None
      BY <1>4, <1>5, <1>7, <2>1
    <3> QED
      BY <1>5, <2>1, <3>1
  <2>2. CASE r # d /\ rid_at_row[r] = None
    <3>1. PICK i \in 1..n : free_rows[i] = r
      BY <1>2, <2>2
    <3>2. i \in 1..Len(free_rows')
      BY <1>1, <2>2, <3>1
    <3>3. free_rows'[i] = r
      BY <1>13, <3>1, <3>2
    <3> QED
      BY <1>7, <2>2, <3>2, <3>3
  <2>3. CASE r # d /\ rid_at_row[r] # None
    <3>1. PICK i \in 1..b : batch[i].row = r
      BY <1>2, <2>3
    <3>2. i \in 1..Len(batch') /\ batch'[i].row = r
      BY <1>5, <3>1
    <3> QED
      BY <1>7, <2>3, <3>2
  <2> QED
    BY <2>1, <2>2, <2>3
<1>17. Len(free_rows') + Len(batch') = NumRows
  BY <1>1, <1>2, <1>5
<1> QED
  BY <1>11, <1>12, <1>14, <1>15, <1>16, <1>17 DEF RowsApart

LEMMA StepRows == IInv /\ GpuRun => RowsApart'
<1> SUFFICES ASSUME IInv, GpuRun PROVE RowsApart'
  OBVIOUS
<1> DEFINE b == Len(batch)
<1>1. /\ Len(batch') = b /\ free_rows' = free_rows /\ rid_at_row' = rid_at_row
      /\ \A i \in 1..b : batch'[i].rid = batch[i].rid /\ batch'[i].row = batch[i].row
  BY Stepped DEF GpuRun
<1>2. RowsApart
  BY DEF IInv
<1>3. /\ \A i \in 1..b : rid_at_row[batch'[i].row] = batch'[i].rid
      /\ \A i, j \in 1..b : batch'[i].row = batch'[j].row => i = j
  BY <1>1, <1>2 DEF RowsApart
<1>4. ASSUME NEW r \in Rows
      PROVE  IF rid_at_row[r] = None
             THEN \E i \in 1..Len(free_rows) : free_rows[i] = r
             ELSE \E i \in 1..b : batch'[i].row = r
  BY <1>1, <1>2 DEF RowsApart
<1>5. Len(free_rows) + b = NumRows
  BY <1>2 DEF RowsApart
<1>6. /\ \A i \in 1..Len(free_rows) : rid_at_row[free_rows[i]] = None
      /\ \A i, j \in 1..Len(free_rows) : free_rows[i] = free_rows[j] => i = j
  BY <1>2 DEF RowsApart
<1> HIDE DEF b
<1> QED
  BY <1>1, <1>3, <1>4, <1>5, <1>6 DEF RowsApart

(* The rows, of each action.                                               *)
LEMMA RowsApartStep == IInv /\ [Next]_vars => RowsApart'
<1> SUFFICES ASSUME IInv, [Next]_vars PROVE RowsApart'
  OBVIOUS
<1> USE Sizes DEF IInv, TypeOK, RowsApart
<1>1. CASE Reset
  BY <1>1 DEF Reset, Goto, Claim, AfterFlush, requests, locks, callers, threads, cpu, gpu
<1>2. CASE Shutdown
  BY <1>2 DEF Shutdown, Goto, Claim, AfterFlush, requests, locks, callers, threads, cpu, gpu
<1>3. CASE GpuKeep
  BY <1>3 DEF GpuKeep, Goto, Claim, AfterFlush, requests, locks, callers, threads, cpu, gpu
<1>4. CASE GpuReport
  BY <1>4 DEF GpuReport, Goto, Claim, AfterFlush, requests, locks, callers, threads, cpu, gpu
<1>5. CASE GpuComplete
  BY <1>5, CompleteRows
<1>6. CASE GpuFinalized
  BY <1>6 DEF GpuFinalized, Goto, Claim, AfterFlush, requests, locks, callers, threads, cpu, gpu
<1>7. CASE GpuAdmit
  BY <1>7, AdmitRows
<1>8. CASE GpuRun
  BY <1>8, StepRows
<1>9. CASE GpuIdle
  BY <1>9 DEF GpuIdle, Goto, Claim, AfterFlush, requests, locks, callers, threads, cpu, gpu
<1>10. ASSUME NEW c \in Clients, Submit(c) PROVE RowsApart'
  BY <1>10 DEF Submit, Goto, Claim, AfterFlush, requests, locks, callers, threads, cpu, gpu
<1>11. ASSUME NEW c \in Clients, SubmitClaim(c) PROVE RowsApart'
  BY <1>11 DEF SubmitClaim, Goto, Claim, AfterFlush, requests, locks, callers, threads, cpu, gpu
<1>12. ASSUME NEW c \in Clients, SubmitFull(c) PROVE RowsApart'
  BY <1>12 DEF SubmitFull, Goto, Claim, AfterFlush, requests, locks, callers, threads, cpu, gpu
<1>13. ASSUME NEW c \in Clients, SubmitEnqueue(c) PROVE RowsApart'
  BY <1>13 DEF SubmitEnqueue, Goto, Claim, AfterFlush, requests, locks, callers, threads, cpu, gpu
<1>14. ASSUME NEW c \in Clients, Check(c) PROVE RowsApart'
  BY <1>14 DEF Check, Goto, Claim, AfterFlush, requests, locks, callers, threads, cpu, gpu
<1>15. ASSUME NEW c \in Clients, TimeOut(c) PROVE RowsApart'
  BY <1>15 DEF TimeOut, Goto, Claim, AfterFlush, requests, locks, callers, threads, cpu, gpu
<1>16. ASSUME NEW c \in Clients, ReadTokens(c) PROVE RowsApart'
  BY <1>16 DEF ReadTokens, Goto, Claim, AfterFlush, requests, locks, callers, threads, cpu, gpu
<1>17. ASSUME NEW c \in Clients, Release(c) PROVE RowsApart'
  BY <1>17 DEF Release, Goto, Claim, AfterFlush, requests, locks, callers, threads, cpu, gpu
<1>18. ASSUME NEW t \in Threads, DrainOne(t) PROVE RowsApart'
  BY <1>18 DEF DrainOne, Goto, Claim, AfterFlush, requests, locks, callers, threads, cpu, gpu
<1>19. ASSUME NEW t \in Threads, DrainEnd(t) PROVE RowsApart'
  BY <1>19 DEF DrainEnd, Goto, Claim, AfterFlush, requests, locks, callers, threads, cpu, gpu
<1>20. ASSUME NEW t \in Threads, FlushClaim(t) PROVE RowsApart'
  BY <1>20 DEF FlushClaim, Goto, Claim, AfterFlush, requests, locks, callers, threads, cpu, gpu
<1>21. ASSUME NEW t \in Threads, FlushFull(t) PROVE RowsApart'
  BY <1>21 DEF FlushFull, Goto, Claim, AfterFlush, requests, locks, callers, threads, cpu, gpu
<1>22. ASSUME NEW t \in Threads, FlushPop(t) PROVE RowsApart'
  BY <1>22 DEF FlushPop, Goto, Claim, AfterFlush, requests, locks, callers, threads, cpu, gpu
<1>23. ASSUME NEW t \in Threads, FlushNone(t) PROVE RowsApart'
  BY <1>23 DEF FlushNone, Goto, Claim, AfterFlush, requests, locks, callers, threads, cpu, gpu
<1>24. ASSUME NEW t \in Threads, FlushRollback(t) PROVE RowsApart'
  BY <1>24 DEF FlushRollback, Goto, Claim, AfterFlush, requests, locks, callers, threads, cpu, gpu
<1>25. ASSUME NEW t \in Threads, FillSlot(t) PROVE RowsApart'
  BY <1>25 DEF FillSlot, Goto, Claim, AfterFlush, requests, locks, callers, threads, cpu, gpu
<1>26. ASSUME NEW t \in Threads, Publish(t) PROVE RowsApart'
  BY <1>26 DEF Publish, Goto, Claim, AfterFlush, requests, locks, callers, threads, cpu, gpu
<1>27. CASE UNCHANGED vars
  BY <1>27 DEF vars, Goto, Claim, AfterFlush, requests, locks, callers, threads, cpu, gpu
<1> QED
  BY <1>1, <1>2, <1>3, <1>4, <1>5, <1>6, <1>7, <1>8, <1>9, <1>10, <1>11, <1>12, <1>13, <1>14, <1>15, <1>16, <1>17, <1>18, <1>19, <1>20, <1>21, <1>22, <1>23, <1>24, <1>25, <1>26, <1>27
     DEF Next, Gpu, submit, wait_for_request, drain_completions, flush_waiting, write_slot

------------------------------------------------------------------------------
(* Initially nothing travels and every row is free.                        *)
LEMMA InitIInv == Init => IInv
<1> SUFFICES ASSUME Init PROVE IInv
  OBVIOUS
<1> USE Sizes DEF Init
<1>1. TypeOK
  <2>1. free_rows \in Seq(Rows)
    BY DEF Rows
  <2>2. waiting \in Seq(Requests) /\ batch \in Seq([rid : Requests, row : Rows, steps : 0..MaxSteps])
    OBVIOUS
  <2>3. comp_entry \in [Slots -> {NoEntry} \cup (Requests \X Rows)]
    OBVIOUS
  <2>4. completions \in [Requests -> Rows \cup {NoRow}]
    OBVIOUS
  <2>5. pc \in [Threads -> {"idle", "claim", "enqueue", "copy", "publish",
                         "drain", "flush", "pop", "rollback", "check", "read",
                         "release", "done", "stopped"}]
        /\ \A t \in Threads : pc[t] \notin {"copy", "publish"}
    OBVIOUS
  <2>6. /\ req_ready \in [Slots -> BOOLEAN] /\ req_request_id \in [Slots -> Rids]
        /\ inbox_tokens \in [Slots -> Rids] /\ comp_ready \in [Slots -> BOOLEAN]
        /\ rid \in [Clients -> Rids] /\ result \in [Clients -> Rids]
        /\ pos \in [Threads -> Int] /\ item \in [Threads -> Rids]
        /\ tokens \in [Rows -> Rids] /\ rid_at_row \in [Rows -> Rids]
    OBVIOUS
  <2>7. /\ cpu_req_tail \in Int /\ cpu_comp_head \in Nat /\ next_rid \in 0..NumRequests
        /\ gpu_req_head \in Nat /\ gpu_comp_tail \in Nat /\ gslot \in Nat \ {0}
    OBVIOUS
  <2>8. /\ submit_lock \in Clients \cup {None} /\ ring_lock \in Clients \cup {None}
        /\ waiting_lock \in Threads \cup {None} /\ shutdown \in BOOLEAN
        /\ gpc \in {"off", "finalize", "complete", "admit", "exited"}
    OBVIOUS
  <2> HIDE DEF Init
  <2> QED
    BY <2>1, <2>2, <2>3, <2>4, <2>5, <2>6, <2>7, <2>8 DEF TypeOK
<1>2. Travelling
  BY DEF Travelling, Issued
<1>3. OwnRequest
  BY DEF OwnRequest
<1>4. Walk
  BY DEF Walk
<1>5. RowsApart
  BY DEF RowsApart, Rows
<1> QED
  BY <1>1, <1>2, <1>3, <1>4, <1>5 DEF IInv

(* IInv is an invariant of every step.                                     *)
THEOREM Inductive == Spec => []IInv
<1>1. IInv /\ [Next]_vars => IInv'
  BY TypeStep, TravellingStep, OwnRequestStep, WalkStep, RowsApartStep DEF IInv
<1> QED
  BY <1>1, InitIInv, PTL DEF Spec

(* Every variable stays in its range: no thread fills a slot without a     *)
(* request, and the GPU admits nothing but submitted requests, whatever    *)
(* holes and double claims the cursors of the ring go through.             *)
THEOREM Types == Spec => []TypeOK
<1>1. IInv => TypeOK
  BY DEF IInv
<1> QED
  BY <1>1, Inductive, PTL

(* The directory by which a caller finds the row of a request names every  *)
(* row of the batch and no other; the other rows are free, each once.      *)
THEOREM RowsListed == Spec => []RowDirectory
<1>1. IInv => RowDirectory
  <2> SUFFICES ASSUME IInv PROVE RowDirectory
    OBVIOUS
  <2>1. /\ \A i \in 1..Len(batch) : rid_at_row[batch[i].row] = batch[i].rid
        /\ \A i \in 1..Len(free_rows) : rid_at_row[free_rows[i]] = None
        /\ \A r \in Rows : IF rid_at_row[r] = None
                           THEN \E i \in 1..Len(free_rows) : free_rows[i] = r
                           ELSE \E i \in 1..Len(batch) : batch[i].row = r
        /\ Len(free_rows) + Len(batch) = NumRows
    BY DEF IInv, RowsApart
  <2>2. ASSUME NEW i \in 1..Len(batch) PROVE batch[i].rid # None
    BY BatchEntry, Sizes DEF IInv
  <2>3. ASSUME NEW r \in Rows
        PROVE  rid_at_row[r] # None
                 <=> \E i \in 1..Len(batch) : batch[i].row = r /\ batch[i].rid = rid_at_row[r]
    BY <2>1, <2>2
  <2>4. free_rows \in Seq(Rows)
    BY DEF IInv, TypeOK
  <2>5. DOMAIN free_rows = 1..Len(free_rows) /\ \A i \in 1..Len(free_rows) : free_rows[i] \in Rows
    BY <2>4
  <2>6. ToSet(free_rows) = {r \in Rows : rid_at_row[r] = None}
    BY <2>1, <2>5 DEF ToSet
  <2> QED
    BY <2>1, <2>3, <2>6 DEF RowDirectory
<1> QED
  BY <1>1, Inductive, PTL

------------------------------------------------------------------------------
(* Completions.  The history names each completion once more than the ring *)
(* does: the ring holds those from the CPU's cursor on.                    *)
Undrained == cpu_comp_head..gpu_comp_tail - 1
Drained(r) == \E k \in 1..cpu_comp_head : reported[k][1] = r

LEMMA Cursors ==
  ASSUME IInv, CInv
  PROVE  /\ cpu_comp_head \in Nat /\ gpu_comp_tail \in Nat /\ cpu_comp_head <= gpu_comp_tail
         /\ gpu_comp_tail <= cpu_comp_head + Capacity /\ gpu_comp_tail = Len(reported)
         /\ reported \in Seq(Issued \X Rows)
         /\ \A k \in 1..gpu_comp_tail : reported[k] \in Issued \X Rows
         /\ \A i, j \in Undrained : Slot(i) = Slot(j) => i = j
         /\ \A r \in Requests : Drained(r) => r \in Issued
<1> USE Sizes
<1>1. /\ cpu_comp_head \in Nat /\ gpu_comp_tail \in Nat /\ cpu_comp_head <= gpu_comp_tail
      /\ gpu_comp_tail <= cpu_comp_head + Capacity /\ gpu_comp_tail = Len(reported)
      /\ reported \in Seq(Issued \X Rows)
  BY DEF IInv, TypeOK, CInv, CompletionsExact, Travelling
<1>2. \A k \in 1..gpu_comp_tail : reported[k] \in Issued \X Rows
  <2> HIDE DEF Issued
  <2> QED
    BY <1>1, ElementOfSeq
<1>3. ASSUME NEW i \in Undrained, NEW j \in Undrained, Slot(i) = Slot(j) PROVE i = j
  <2>1. i \in Int /\ j \in Int /\ i < j + Capacity /\ j < i + Capacity
    BY <1>1 DEF Undrained
  <2>2. ~(i < j) /\ ~(j < i)
    BY <1>3, <2>1, SlotsApart
  <2> QED
    BY <2>1, <2>2
<1>4. ASSUME NEW r \in Requests, Drained(r) PROVE r \in Issued
  <2>1. PICK k \in 1..cpu_comp_head : reported[k][1] = r
    BY <1>4 DEF Drained
  <2>2. k \in 1..gpu_comp_tail
    BY <1>1, <2>1
  <2> HIDE DEF Issued
  <2> QED
    BY <1>2, <2>1, <2>2
<1> QED
  BY <1>1, <1>2, <1>3, <1>4

(* The GPU writes an entry behind all that are not drained.                *)
LEMMA ReportExact ==
  ASSUME IInv, CInv, GpuReport, NeverLapped'
  PROVE  CInv'
<1> USE Sizes
<1> DEFINE e == <<batch[gslot].rid, batch[gslot].row>>
<1>1. /\ gpu_comp_tail - cpu_comp_head < Capacity
      /\ comp_entry' = [comp_entry EXCEPT ![Slot(gpu_comp_tail)] = e]
      /\ UNCHANGED <<comp_ready, cpu_comp_head, gpu_comp_tail, reported, completions, rid>>
  BY DEF GpuReport, NeverLapped, cpu, threads, callers
<1>2. ASSUME NEW k \in Undrained PROVE comp_entry'[Slot(k)] = comp_entry[Slot(k)]
  <2>1. /\ k \in Int /\ gpu_comp_tail \in Int /\ k < gpu_comp_tail
        /\ gpu_comp_tail < k + Capacity
    BY <1>1, Cursors DEF Undrained
  <2>2. Slot(k) # Slot(gpu_comp_tail)
    BY <2>1, SlotsApart
  <2>3. comp_entry \in [Slots -> {NoEntry} \cup (Requests \X Rows)] /\ Slot(k) \in Slots
    BY <2>1, SlotOf DEF IInv, TypeOK
  <2> HIDE DEF e
  <2> QED
    BY <1>1, <2>2, <2>3
<1> QED
  BY <1>1, <1>2 DEF CInv, CompletionsExact, Undrained

(* Publishing it makes it the last of the entries to drain.                *)
LEMMA CompleteExact ==
  ASSUME IInv, CInv, GpuComplete, NeverLapped
  PROVE  CInv'
<1> USE Sizes
<1> DEFINE e == <<batch[gslot].rid, batch[gslot].row>>
           n == gpu_comp_tail
<1>1. /\ n - cpu_comp_head < Capacity
      /\ comp_ready' = [comp_ready EXCEPT ![Slot(n)] = TRUE]
      /\ n' = n + 1 /\ reported' = Append(reported, e)
      /\ comp_entry[Slot(n)] = e
      /\ UNCHANGED <<comp_entry, cpu_comp_head, completions, rid>>
  BY DEF GpuComplete, NeverLapped, IInv, Walk, cpu, threads, callers
<1>2. /\ cpu_comp_head \in Nat /\ n \in Nat /\ cpu_comp_head <= n
      /\ n = Len(reported) /\ reported \in Seq(Issued \X Rows)
  BY Cursors
<1>3. e \in Issued \X Rows
  BY Completed
<1> HIDE DEF e, Issued
<1>4. /\ Len(reported') = n + 1 /\ reported'[n + 1] = e
      /\ \A k \in 1..n : reported'[k] = reported[k]
  BY <1>1, <1>2, <1>3
<1>5. Slot(n) \in Slots /\ comp_ready \in [Slots -> BOOLEAN]
  BY <1>2, SlotOf DEF IInv, TypeOK
<1> HIDE DEF n
<1>6. cpu_comp_head..n' - 1 = Undrained \cup {n}
  BY <1>1, <1>2 DEF Undrained, n
<1>7. ASSUME NEW s \in Slots
      PROVE  comp_ready'[s] <=> \E k \in cpu_comp_head..n' - 1 : Slot(k) = s
  <2>1. comp_ready[s] <=> \E k \in Undrained : Slot(k) = s
    BY DEF CInv, CompletionsExact, Undrained
  <2> QED
    BY <1>1, <1>5, <1>6, <2>1
<1>8. ASSUME NEW k \in cpu_comp_head..n' - 1
      PROVE  comp_entry'[Slot(k)] = reported'[k + 1]
  <2>1. CASE k = n
    BY <1>1, <1>4, <2>1
  <2>2. CASE k \in Undrained
    <3>1. k + 1 \in 1..n /\ comp_entry[Slot(k)] = reported[k + 1]
      BY <1>2, <2>2 DEF CInv, CompletionsExact, Undrained, n
    <3> QED
      BY <1>1, <1>4, <3>1
  <2> QED
    BY <1>6, <2>1, <2>2
<1>9. \A k \in 1..cpu_comp_head : reported'[k] = reported[k]
  BY <1>2, <1>4
<1>10. ASSUME NEW r \in Requests
       PROVE  IF \E k \in 1..cpu_comp_head : reported'[k][1] = r
              THEN \/ \E k \in 1..cpu_comp_head : reported'[k] = <<r, completions[r]>>
                   \/ completions[r] = NoRow /\ \A c \in Clients : rid[c] # r
              ELSE completions[r] = NoRow
  <2>1. IF \E k \in 1..cpu_comp_head : reported[k][1] = r
        THEN \/ \E k \in 1..cpu_comp_head : reported[k] = <<r, completions[r]>>
             \/ completions[r] = NoRow /\ \A c \in Clients : rid[c] # r
        ELSE completions[r] = NoRow
    BY DEF CInv, CompletionsExact
  <2> QED
    BY <1>9, <2>1
<1>11. n' = Len(reported') /\ cpu_comp_head' \in 0..n' /\ n' - cpu_comp_head' <= Capacity
  BY <1>1, <1>2, <1>4
<1>12. UNCHANGED <<cpu_comp_head, completions, rid>>
  BY <1>1
<1> QED
  BY <1>7, <1>8, <1>10, <1>11, <1>12 DEF CInv, CompletionsExact, n

(* Draining takes the first entry.                                         *)
LEMMA DrainExact ==
  ASSUME IInv, CInv, NEW t \in Threads, DrainOne(t)
  PROVE  CInv'
<1> USE Sizes
<1> DEFINE h == cpu_comp_head
           n == gpu_comp_tail
           e == comp_entry[Slot(h)]
<1>1. /\ comp_ready[Slot(h)]
      /\ completions' = [completions EXCEPT ![e[1]] = e[2]]
      /\ comp_ready' = [comp_ready EXCEPT ![Slot(h)] = FALSE]
      /\ h' = h + 1
      /\ UNCHANGED <<comp_entry, n, reported, rid>>
  BY DEF DrainOne, threads, callers, gpu
<1>2. /\ h \in Nat /\ n \in Nat /\ h <= n /\ n <= h + Capacity
      /\ n = Len(reported) /\ Slot(h) \in Slots
      /\ \A k \in 1..n : reported[k] \in Issued \X Rows
      /\ \A i, j \in Undrained : Slot(i) = Slot(j) => i = j
  BY Cursors, SlotOf
<1>3. h < n /\ h \in Undrained /\ h + 1 \in 1..n
  <2>1. \E k \in h..n - 1 : Slot(k) = Slot(h)
    BY <1>1, <1>2 DEF CInv, CompletionsExact
  <2> QED
    BY <1>2, <2>1 DEF Undrained
<1>4. e = reported[h + 1]
  BY <1>3 DEF CInv, CompletionsExact, Undrained
<1>5. e \in Requests \X Rows /\ e = <<e[1], e[2]>>
  <2>1. e \in Issued \X Rows
    BY <1>2, <1>3, <1>4
  <2>2. Issued \subseteq Requests
    BY DEF Issued, Requests, IInv, TypeOK
  <2> HIDE DEF e, Issued
  <2> QED
    BY <2>1, <2>2
<1>6. /\ comp_ready \in [Slots -> BOOLEAN]
      /\ completions \in [Requests -> Rows \cup {NoRow}]
  BY DEF IInv, TypeOK
<1>7. h'..n' - 1 = Undrained \ {h}
  BY <1>1, <1>2 DEF Undrained
<1> HIDE DEF h, n, e
<1>8. ASSUME NEW s \in Slots
      PROVE  comp_ready'[s] <=> \E k \in h'..n' - 1 : Slot(k) = s
  <2>1. comp_ready[s] <=> \E k \in Undrained : Slot(k) = s
    BY DEF CInv, CompletionsExact, Undrained
  <2>2. CASE s = Slot(h)
    BY <1>1, <1>2, <1>3, <1>6, <1>7, <2>2
  <2>3. CASE s # Slot(h)
    BY <1>1, <1>2, <1>6, <1>7, <2>1, <2>3
  <2> QED
    BY <2>2, <2>3
<1>9. \A k \in h'..n' - 1 : comp_entry'[Slot(k)] = reported'[k + 1]
  <2>1. \A k \in Undrained : comp_entry[Slot(k)] = reported[k + 1]
    BY DEF CInv, CompletionsExact, Undrained
  <2> QED
    BY <1>1, <1>7, <2>1
<1>10. 1..h' = (1..h) \cup {h + 1}
  BY <1>1, <1>2
<1>11. ASSUME NEW r \in Requests
       PROVE  IF \E k \in 1..h' : reported[k][1] = r
              THEN \/ \E k \in 1..h' : reported[k] = <<r, completions'[r]>>
                   \/ completions'[r] = NoRow /\ \A c \in Clients : rid[c] # r
              ELSE completions'[r] = NoRow
  <2>1. CASE r = e[1]
    <3>1. reported[h + 1] = <<r, completions'[r]>> /\ reported[h + 1][1] = r
      BY <1>1, <1>4, <1>5, <1>6, <2>1
    <3> QED
      BY <1>10, <3>1
  <2>2. CASE r # e[1]
    <3>1. completions'[r] = completions[r] /\ reported[h + 1][1] # r
      BY <1>1, <1>4, <1>6, <2>2
    <3>2. IF \E k \in 1..h : reported[k][1] = r
          THEN \/ \E k \in 1..h : reported[k] = <<r, completions[r]>>
               \/ completions[r] = NoRow /\ \A c \in Clients : rid[c] # r
          ELSE completions[r] = NoRow
      BY DEF CInv, CompletionsExact, h
    <3> QED
      BY <1>10, <3>1, <3>2
  <2> QED
    BY <2>1, <2>2
<1>12. n' = Len(reported') /\ h' \in 0..n' /\ n' - h' <= Capacity
  BY <1>1, <1>2, <1>3
<1>13. UNCHANGED <<reported, rid>>
  BY <1>1
<1>14. ASSUME NEW r \in Requests
       PROVE  (IF \E k \in 1..cpu_comp_head : reported[k][1] = r
               THEN \/ \E k \in 1..cpu_comp_head : reported[k] = <<r, completions[r]>>
                    \/ completions[r] = NoRow /\ \A c \in Clients : rid[c] # r
               ELSE completions[r] = NoRow)'
  BY <1>11, <1>13 DEF h
<1> QED
  BY <1>8, <1>9, <1>12, <1>14 DEF CInv, CompletionsExact, h, n

(* A new request has not been reported yet.                                *)
LEMMA SubmitExact ==
  ASSUME IInv, CInv, NEW c \in Clients, Submit(c)
  PROVE  CInv'
<1>1. /\ rid' = [rid EXCEPT ![c] = next_rid] /\ rid \in [Clients -> Rids]
      /\ UNCHANGED <<comp_ready, comp_entry, cpu_comp_head, gpu_comp_tail, reported, completions>>
  BY DEF Submit, gpu, IInv, TypeOK
<1>2. ASSUME NEW r \in Requests, Drained(r) PROVE r # next_rid
  BY <1>2, Cursors DEF Issued, IInv, TypeOK
<1>3. ASSUME NEW r \in Requests
      PROVE  IF \E k \in 1..cpu_comp_head : reported[k][1] = r
             THEN \/ \E k \in 1..cpu_comp_head : reported[k] = <<r, completions[r]>>
                  \/ completions[r] = NoRow /\ \A d \in Clients : rid'[d] # r
             ELSE completions[r] = NoRow
  <2>1. IF Drained(r)
        THEN \/ \E k \in 1..cpu_comp_head : reported[k] = <<r, completions[r]>>
             \/ completions[r] = NoRow /\ \A d \in Clients : rid[d] # r
        ELSE completions[r] = NoRow
    BY DEF CInv, CompletionsExact, Drained
  <2>2. Drained(r) /\ (\A d \in Clients : rid[d] # r) => \A d \in Clients : rid'[d] # r
    BY <1>1, <1>2
  <2> QED
    BY <2>1, <2>2 DEF Drained
<1> QED
  BY <1>1, <1>3 DEF CInv, CompletionsExact

(* A caller releases its own completion and nobody else's.                 *)
LEMMA ReleaseExact ==
  ASSUME IInv, CInv, NEW c \in Clients, Release(c)
  PROVE  CInv'
<1> USE Sizes
<1>1. /\ rid' = [rid EXCEPT ![c] = None] /\ rid \in [Clients -> Rids]
      /\ completions' = [completions EXCEPT ![rid[c]] = NoRow]
      /\ completions \in [Requests -> Rows \cup {NoRow}]
      /\ UNCHANGED <<comp_ready, comp_entry, cpu_comp_head, gpu_comp_tail, reported>>
  BY DEF Release, gpu, IInv, TypeOK
<1>2. \A d \in Clients : d # c => rid[d] # rid[c] \/ rid[c] = None
  BY DEF IInv, OwnRequest
<1>3. ASSUME NEW r \in Requests
      PROVE  IF \E k \in 1..cpu_comp_head : reported[k][1] = r
             THEN \/ \E k \in 1..cpu_comp_head : reported[k] = <<r, completions'[r]>>
                  \/ completions'[r] = NoRow /\ \A d \in Clients : rid'[d] # r
             ELSE completions'[r] = NoRow
  <2>1. IF Drained(r)
        THEN \/ \E k \in 1..cpu_comp_head : reported[k] = <<r, completions[r]>>
             \/ completions[r] = NoRow /\ \A d \in Clients : rid[d] # r
        ELSE completions[r] = NoRow
    BY DEF CInv, CompletionsExact, Drained
  <2>2. r # None
    OBVIOUS
  <2>3. CASE r = rid[c]
    <3>1. completions'[r] = NoRow /\ \A d \in Clients : rid'[d] # r
      BY <1>1, <1>2, <2>2, <2>3
    <3> QED
      BY <3>1
  <2>4. CASE r # rid[c]
    <3>1. completions'[r] = completions[r]
      BY <1>1, <2>4
    <3>2. \A d \in Clients : rid[d] # r => rid'[d] # r
      BY <1>1, <2>2
    <3> QED
      BY <2>1, <3>1, <3>2 DEF Drained
  <2> QED
    BY <2>3, <2>4
<1> QED
  BY <1>1, <1>3 DEF CInv, CompletionsExact

LEMMA SameCompletions ==
  ASSUME CInv,
         UNCHANGED <<comp_ready, comp_entry, cpu_comp_head, gpu_comp_tail, reported,
                     completions, rid>>
  PROVE  CInv'
BY DEF CInv, CompletionsExact

LEMMA CompletionsStep == IInv /\ CInv /\ NeverLapped /\ NeverLapped' /\ [Next]_vars => CInv'
<1> SUFFICES ASSUME IInv, CInv, NeverLapped, NeverLapped', [Next]_vars PROVE CInv'
  OBVIOUS
<1>1. CASE GpuReport
  BY <1>1, ReportExact
<1>2. CASE GpuComplete
  BY <1>2, CompleteExact
<1>3. ASSUME NEW t \in Threads, DrainOne(t) PROVE CInv'
  BY <1>3, DrainExact
<1>4. ASSUME NEW c \in Clients, Submit(c) PROVE CInv'
  BY <1>4, SubmitExact
<1>5. ASSUME NEW c \in Clients, Release(c) PROVE CInv'
  BY <1>5, ReleaseExact
<1>6. CASE \/ Reset \/ Shutdown \/ GpuKeep \/ GpuFinalized \/ GpuAdmit \/ GpuRun \/ GpuIdle
           \/ UNCHANGED vars
  BY <1>6, SameCompletions DEF Reset, Shutdown, GpuKeep, GpuFinalized, GpuAdmit, GpuRun,
     GpuIdle, vars, threads, callers, cpu, gpu
<1>7. ASSUME NEW c \in Clients,
             \/ SubmitClaim(c) \/ SubmitFull(c) \/ SubmitEnqueue(c)
             \/ Check(c) \/ TimeOut(c) \/ ReadTokens(c)
      PROVE  CInv'
  BY <1>7, SameCompletions DEF SubmitClaim, Claim, SubmitFull, SubmitEnqueue, Check, TimeOut,
     ReadTokens, threads, callers, gpu
<1>8. ASSUME NEW t \in Threads,
             \/ DrainEnd(t) \/ FlushClaim(t) \/ FlushFull(t) \/ FlushPop(t) \/ FlushNone(t)
             \/ FlushRollback(t) \/ FillSlot(t) \/ Publish(t)
      PROVE  CInv'
  BY <1>8, SameCompletions DEF DrainEnd, FlushClaim, Claim, FlushFull, FlushPop, FlushNone,
     FlushRollback, FillSlot, Publish, threads, callers, gpu
<1> QED
  BY <1>1, <1>2, <1>3, <1>4, <1>5, <1>6, <1>7, <1>8
     DEF Next, Gpu, submit, wait_for_request, drain_completions, flush_waiting, write_slot

(* As long as the GPU does not lap the CPU on the completion ring, the     *)
(* entries between the cursors are exactly the completions reported and    *)
(* not yet drained, in order, whoever drains them, and what was drained is *)
(* in the bookkeeping, with its row, until its caller has released it.     *)
THEOREM CompletionsDrainedOnce == Spec /\ []NeverLapped => []CompletionsExact
<1>1. Init => CInv
  BY Sizes DEF Init, CInv, CompletionsExact
<1>2. IInv /\ CInv /\ NeverLapped /\ NeverLapped' /\ [Next]_vars => CInv'
  BY CompletionsStep
<1>3. CInv => CompletionsExact
  BY DEF CInv
<1> QED
  BY <1>1, <1>2, <1>3, Inductive, PTL DEF Spec
==============================================================================
