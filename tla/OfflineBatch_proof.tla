-------------------------- MODULE OfflineBatch_proof --------------------------
(***************************************************************************)
(* Proofs about prepare_next_batch of MODE_OFFLINE, for every number of    *)
(* requests, slots, tokens and pages.                                      *)
(***************************************************************************)
EXTENDS OfflineBatch, FiniteSetTheorems, TLAPS

R == MAX_NUM_BATCHED_REQUESTS
T == MAX_NUM_BATCHED_TOKENS
L == MAX_SEQ_LENGTH
P == PAGE_SIZE
M == MAX_NUM_PAGES
C == PagesFor(L)                    \* pages of the longest sequence

------------------------------------------------------------------------------
(* The inductive invariant.  Outside of compaction every slot lies as in   *)
(* the last batch ("old").  During compaction the slots from slot on still *)
(* do, their page tables being in the snapshot, and those below num_reqs   *)
(* are packed for the next batch; what lies between is stale.              *)
Compacting == pc = "compact"
Old(i) == request_ids[i] # None /\ (Compacting => i >= slot)
Packed(i) == Compacting /\ i < num_reqs
OldTable == IF Compacting THEN snapshot ELSE kv_indices
FirstOld == IF Compacting THEN slot ELSE 0

(* Where the packed slots begin; the last of them ends at the counts.      *)
QoAt(i) == IF i < num_reqs THEN qo_indptr[i] ELSE num_tokens
KvAt(i) == IF i < num_reqs THEN kv_indptr[i] ELSE num_pages

(* The tokens of slot i whose pages it has: the batch's are among those    *)
(* counted as done once the slot is finalized.                             *)
Advanced(i) == Compacting \/ (pc = "finalize" /\ i < slot)
Total(i) == IF Advanced(i) THEN step[request_ids[i]]
            ELSE step[request_ids[i]] + BatchTokens(i)
PackedTotal(i) == step[request_ids[i]] + QoAt(i + 1) - QoAt(i)

Layout ==
  /\ \A i, j \in FirstOld..R : i <= j =>
       /\ qo_indptr[i] <= qo_indptr[j]
       /\ kv_indptr[i] <= kv_indptr[j]
       /\ kv_indptr[j] - kv_indptr[i] <= (j - i) * C
  /\ Compacting =>
       /\ num_reqs <= slot
       /\ slot < R => num_tokens <= qo_indptr[slot]
       /\ KvAt(0) = 0
       /\ \A i, j \in 0..num_reqs : i <= j =>
            /\ QoAt(i) <= QoAt(j)
            /\ KvAt(i) <= KvAt(j)
            /\ KvAt(j) - KvAt(i) <= (j - i) * C

(* A request that is being served; the cache holds its first n tokens, if  *)
(* attention loads the page tables from the slot's first page.             *)
Taken(r) == r \in 0..next_request_id - 1 /\ r \notin served
Cached(r, table, first, n) == IndexLoad = "base" =>
  \A p \in 0..n - 1 : kv_cache[table[first + (p \div P)]][p % P] = <<r, p>>

(* Only a batch whose budget is used up can end within a prompt.           *)
OldSlots == \A i \in Slots : Old(i) =>
  LET r == request_ids[i]
  IN /\ Taken(r)
     /\ BatchTokens(i) >= 1
     /\ Total(i) \in 1..L
     /\ BatchPages(i) = PagesFor(Total(i))
     /\ qo_indptr[i + 1] < T => Total(i) >= prompt_length[r]
     /\ Advanced(i) => /\ step[r] + 1 < L
                       /\ step[r] < prompt_length[r] \/ step[r] \in written[r]
     /\ Cached(r, OldTable, kv_indptr[i], IF pc = "run" THEN step[r] ELSE Total(i))
     /\ pc = "run" =>
          /\ last_page_len[i] = LastPageLen(Total(i))
          /\ \A j \in 0..BatchTokens(i) - 1 :
               input_tokens[qo_indptr[i] + j] = <<r, step[r] + j>>

PackedSlots == \A i \in Slots : Packed(i) =>
  LET r == request_ids[i]
  IN /\ Taken(r)
     /\ QoAt(i + 1) - QoAt(i) >= 1
     /\ PackedTotal(i) \in 1..L
     /\ KvAt(i + 1) - KvAt(i) = PagesFor(PackedTotal(i))
     /\ QoAt(i + 1) < T => PackedTotal(i) >= prompt_length[r]
     /\ Cached(r, kv_indices, KvAt(i), step[r])
     /\ last_page_len[i] = LastPageLen(PackedTotal(i))
     /\ \A j \in 0..QoAt(i + 1) - QoAt(i) - 1 :
          input_tokens[QoAt(i) + j] = <<r, step[r] + j>>

(* Who is being served: each request in one slot, all that were taken up   *)
(* and are not served; a stale slot repeats a packed one.                  *)
Occupancy ==
  /\ \A i, j \in Slots : i # j /\ (Old(i) \/ Packed(i)) /\ (Old(j) \/ Packed(j))
       => request_ids[i] # request_ids[j]
  /\ \A r \in 0..next_request_id - 1 :
       r \in served \/ \E i \in Slots : request_ids[i] = r
  /\ \A r \in served : r < next_request_id
  /\ \A r \in Requests : r >= next_request_id => step[r] = 0
  /\ Compacting => \A i \in Slots : i >= num_reqs /\ i < slot =>
       request_ids[i] = None \/ \E j \in Slots : j < num_reqs /\ request_ids[j] = request_ids[i]
  /\ pc = "drained" => \A i \in Slots : request_ids[i] = None

Inputs ==
  /\ \A r \in Requests : 0..prompt_length[r] - 1 \subseteq written[r]
  /\ \A j \in 0..(IF Compacting THEN num_tokens
                  ELSE IF pc = "run" THEN qo_indptr[R] ELSE 0) - 1 :
       /\ input_tokens[j] \in Requests \X Positions
       /\ input_tokens[j][2] \in written[input_tokens[j][1]]

(* The pages: each position of a page table and each entry of the free     *)
(* ring holds a page of its own, and there are as many as pages.           *)
OldPositions == {x \in 0..kv_indptr[R] - 1 :
                   \E i \in Slots : Old(i) /\ kv_indptr[i] <= x /\ x < kv_indptr[i + 1]}
NewPositions == IF Compacting THEN 0..num_pages - 1 ELSE {}

Kinds == {"old", "new", "free"}
Holds(kind, x) ==
  \/ kind = "old" /\ x \in OldPositions
  \/ kind = "new" /\ x \in NewPositions
  \/ kind = "free" /\ x \in page_queue_head..page_queue_tail - 1
PageAt(kind, x) == IF kind = "old" THEN OldTable[x]
                   ELSE IF kind = "new" THEN kv_indices[x]
                   ELSE page_queue[x % M]

PagesApart == \A k1, k2 \in Kinds : \A x1, x2 \in Int :
  Holds(k1, x1) /\ Holds(k2, x2) /\ PageAt(k1, x1) = PageAt(k2, x2)
    => k1 = k2 /\ x1 = x2

PageCount ==
  /\ FreeCount >= 0
  /\ FreeCount + Cardinality(OldPositions)
       + (IF Compacting THEN num_pages ELSE 0) = M
  /\ pc \in {"run", "drained"} => OldPositions = 0..kv_indptr[R] - 1
  /\ Compacting => \A x \in 0..num_pages - 1 : \E i \in Slots :
       i < num_reqs /\ KvAt(i) <= x /\ x < KvAt(i + 1)

IInv == /\ TypeOK /\ Layout /\ OldSlots /\ PackedSlots /\ Occupancy /\ Inputs
        /\ PagesApart /\ PageCount

USE DEF R, T, L, P, M
------------------------------------------------------------------------------
(* Arithmetic of pages.                                                    *)
LEMMA Sizes ==
  /\ TotalRequests \in Nat /\ R \in Nat \ {0} /\ T \in Nat \ {0} /\ L \in Nat \ {0}
  /\ P \in Nat \ {0} /\ M \in Nat /\ IndexLoad \in {"base", "bulk"}
BY SizeAssumption

LEMMA EnoughPages == M >= R * C
BY SizeAssumption DEF C

LEMMA Division ==
  ASSUME NEW n \in Int, NEW k \in Nat \ {0}
  PROVE  /\ n \div k \in Int /\ n % k \in 0..k - 1
         /\ n = (n \div k) * k + (n % k)
<1>1. n \div k \in Int /\ n % k \in 0..k - 1
  BY SMT
<1> QED
  BY <1>1, SMT

LEMMA Product ==
  ASSUME NEW a \in Int, NEW b \in Int, NEW k \in Nat, a <= b
  PROVE  a * k \in Int /\ b * k \in Int /\ a * k <= b * k
<1>1. (b - a) \in Nat /\ (b - a) * k >= 0
  BY SMT
<1>2. (b - a) * k = b * k - a * k
  BY SMT
<1> QED
  BY <1>1, <1>2, SMT

LEMMA Below ==
  ASSUME NEW r \in Int, NEW n \in Nat, 0 <= r, r < n
  PROVE  r \in 0..n - 1
OBVIOUS

(* The quotient is where a number lies between two multiples.              *)
LEMMA QuotientBetween ==
  ASSUME NEW k \in Nat \ {0}, NEW n \in Int, NEW q \in Int, q * k <= n, n < (q + 1) * k
  PROVE  n \div k = q
<1> DEFINE d == n \div k
<1>1. d \in Int /\ d * k <= n /\ n < (d + 1) * k
  <2>1. d \in Int /\ n % k \in 0..k - 1 /\ n = d * k + (n % k)
    BY Division
  <2>2. (d + 1) * k = d * k + k
    BY <2>1
  <2> HIDE DEF d
  <2> QED
    BY <2>1, <2>2
<1> HIDE DEF d
<1>2. ASSUME d < q PROVE FALSE
  <2>1. (d + 1) * k <= q * k
    BY <1>1, <1>2, Product
  <2> QED
    BY <1>1, <2>1, Product
<1>3. ASSUME q < d PROVE FALSE
  <2>1. (q + 1) * k <= d * k
    BY <1>1, <1>3, Product
  <2> QED
    BY <1>1, <2>1, Product
<1> QED
  BY <1>1, <1>2, <1>3 DEF d

LEMMA PagesBetween ==
  ASSUME NEW n \in Int
  PROVE  /\ PagesFor(n) \in Int
         /\ (PagesFor(n) - 1) * P < n /\ n <= PagesFor(n) * P
<1> DEFINE q == PagesFor(n)
           m == n + P - 1
<1>1. m \in Int /\ P \in Nat \ {0}
  BY Sizes
<1>2. q \in Int /\ m % P \in 0..P - 1 /\ m = q * P + (m % P)
  BY <1>1, Division DEF PagesFor
<1>3. (q - 1) * P = q * P - P
  BY <1>1, <1>2
<1> HIDE DEF q
<1>4. q * P \in Int
  BY <1>1, <1>2
<1>5. m % P \in Int /\ 0 <= m % P /\ m % P <= P - 1 /\ n = m - P + 1
  BY <1>1, <1>2
<1> HIDE DEF m
<1>6. (q - 1) * P < n /\ n <= q * P
  BY <1>1, <1>2, <1>3, <1>4, <1>5
<1> QED
  BY <1>2, <1>6 DEF q

LEMMA PagesMonotone ==
  ASSUME NEW a \in Int, NEW b \in Int, a <= b
  PROVE  PagesFor(a) <= PagesFor(b)
<1> DEFINE qa == PagesFor(a)
           qb == PagesFor(b)
<1>1. qa \in Int /\ (qa - 1) * P < a /\ qb \in Int /\ b <= qb * P
  BY PagesBetween
<1> HIDE DEF qa, qb
<1>2. ASSUME qb < qa PROVE FALSE
  <2>1. qb * P <= (qa - 1) * P
    BY <1>1, <1>2, Product, Sizes
  <2> QED
    BY <1>1, <2>1, Product, Sizes
<1> QED
  BY <1>1, <1>2 DEF qa, qb

(* The page of a token is among the pages of its sequence.                 *)
LEMMA PageOfToken ==
  ASSUME NEW n \in Int, NEW p \in 0..n - 1
  PROVE  /\ p \div P \in 0..PagesFor(n) - 1 /\ p % P \in 0..P - 1
         /\ p = (p \div P) * P + (p % P)
<1> DEFINE q == PagesFor(n)
           d == p \div P
           m == p % P
<1>1. q \in Int /\ n <= q * P /\ P \in Nat \ {0}
  BY PagesBetween, Sizes
<1>2. d \in Int /\ m \in 0..P - 1 /\ p = d * P + m
  <2>1. p \in Int
    OBVIOUS
  <2> QED
    BY <1>1, <2>1, Division, Zenon
<1> HIDE DEF q, d, m
<1>3. ASSUME d < 0 PROVE FALSE
  <2>1. (d + 1) * P <= 0 * P
    BY <1>1, <1>2, <1>3, Product
  <2>2. (d + 1) * P = d * P + P /\ d * P \in Int
    BY <1>1, <1>2
  <2> QED
    BY <1>1, <1>2, <2>1, <2>2
<1>4. ASSUME d >= q PROVE FALSE
  <2>1. q * P <= d * P /\ d * P \in Int
    BY <1>1, <1>2, <1>4, Product
  <2> QED
    BY <1>1, <1>2, <2>1
<1> QED
  BY <1>1, <1>2, <1>3, <1>4 DEF q, d, m

LEMMA PagesPositive ==
  ASSUME NEW n \in Nat \ {0}
  PROVE  PagesFor(n) \in Nat \ {0}
<1>1. 0 \div P \in 0..PagesFor(n) - 1
  BY PageOfToken
<1> QED
  BY <1>1, PagesBetween

LEMMA NoPages == PagesFor(0) = 0
<1>1. /\ 0 * P <= 0 + P - 1 /\ 0 + P - 1 < (0 + 1) * P /\ 0 + P - 1 \in Int /\ 0 \in Int
      /\ P \in Nat \ {0}
  BY Sizes
<1>2. (0 + P - 1) \div P = 0
  BY <1>1, QuotientBetween, Zenon
<1> QED
  BY <1>2 DEF PagesFor

(* What attention makes of the length of the last page is the length.      *)
LEMMA LengthFromPages ==
  ASSUME NEW n \in Nat \ {0}
  PROVE  /\ LastPageLen(n) \in 1..P
         /\ (PagesFor(n) - 1) * P + LastPageLen(n) = n
<1> DEFINE d == n \div P
           m == n % P
<1>1. P \in Nat \ {0}
  BY Sizes
<1>2. d \in Int /\ m \in 0..P - 1 /\ n = d * P + m
  BY <1>1, Division
<1>3. CASE m = 0
  <2>1. (n + P - 1) \div P = d
    <3>1. (d + 1) * P = d * P + P
      BY <1>1, <1>2
    <3> HIDE DEF d, m
    <3>2. d * P \in Int
      BY <1>1, <1>2
    <3> QED
      BY <1>1, <1>2, <1>3, <3>1, <3>2, QuotientBetween
  <2>2. (d - 1) * P = d * P - P
    BY <1>1, <1>2
  <2> QED
    BY <1>1, <1>2, <1>3, <2>1, <2>2 DEF PagesFor, LastPageLen
<1>4. CASE m # 0
  <2>1. (n + P - 1) \div P = d + 1
    <3>1. (d + 1) * P = d * P + P /\ (d + 1 + 1) * P = d * P + P + P
      BY <1>1, <1>2
    <3> HIDE DEF d, m
    <3>2. d * P \in Int
      BY <1>1, <1>2
    <3> QED
      BY <1>1, <1>2, <1>4, <3>1, <3>2, QuotientBetween
  <2> QED
    BY <1>1, <1>2, <1>4, <2>1 DEF PagesFor, LastPageLen
<1> QED
  BY <1>3, <1>4

(* Less than a round of the ring apart, two entries lie in two places.     *)
LEMMA RingApart ==
  ASSUME NEW a \in Int, NEW b \in Int, a < b, b < a + M
  PROVE  a % M # b % M
<1>1. M \in Nat \ {0}
  BY Sizes
<1> DEFINE da == a \div M
           db == b \div M
           m == a % M
<1>2. da \in Int /\ db \in Int /\ m \in Int /\ a = da * M + m
  BY <1>1, Division
<1>3. SUFFICES ASSUME m = b % M PROVE FALSE
  OBVIOUS
<1>4. b = db * M + m
  BY <1>1, <1>3, Division
<1> HIDE DEF da, db, m
<1>5. da * M \in Int /\ db * M \in Int /\ (da + 1) * M = da * M + M
  BY <1>1, <1>2
<1>6. CASE db <= da
  BY <1>1, <1>2, <1>4, <1>5, <1>6, Product
<1>7. CASE db >= da + 1
  BY <1>1, <1>2, <1>4, <1>5, <1>7, Product
<1> QED
  BY <1>2, <1>6, <1>7
------------------------------------------------------------------------------
(* Steps that move no request, token or page.                              *)
LEMMA InitIInv == Init => IInv
<1> SUFFICES ASSUME Init PROVE IInv
  OBVIOUS
<1> USE Sizes
<1>1. \A i \in Slots : ~Old(i) /\ ~Packed(i)
  BY DEF Init, Old, Packed, Compacting
<1>2. ~Compacting /\ FirstOld = 0
  BY DEF Init, FirstOld, Compacting
<1>3. C \in Nat
  BY PagesPositive DEF C
<1>4. TypeOK
  <2>1. written \in [Requests -> SUBSET Positions]
    BY DEF Init, Requests, Positions
  <2>2. step \in [Requests -> 0..L] /\ request_ids \in [Slots -> Requests \cup {None}]
    BY DEF Init
  <2>3. /\ kv_cache \in [Pages -> [0..P - 1 -> Tokens]]
        /\ input_tokens \in [0..T - 1 -> Tokens]
    BY DEF Init, Tokens
  <2>4. /\ kv_indices \in [Pages -> Pages] /\ snapshot \in [Pages -> Pages]
        /\ page_queue \in [Pages -> Pages]
    <3>1. \A p \in Pages : 0 \in Pages
      BY DEF Pages
    <3> QED
      BY <3>1 DEF Init
  <2>5. /\ qo_indptr \in [0..R -> 0..T] /\ kv_indptr \in [0..R -> 0..M]
        /\ last_page_len \in [Slots -> 0..P]
    BY DEF Init
  <2>6. /\ next_request_id \in 0..TotalRequests /\ pc # "run"
        /\ page_queue_head \in Nat /\ page_queue_tail \in Nat /\ slot \in 0..R
        /\ num_reqs \in 0..R /\ num_tokens \in 0..T /\ num_pages \in 0..M
    BY DEF Init
  <2> QED
    BY <2>1, <2>2, <2>3, <2>4, <2>5, <2>6, Zenon DEF Init, TypeOK
<1>5. Layout
  <2>1. ASSUME NEW i \in 0..R, NEW j \in 0..R, i <= j
        PROVE  /\ qo_indptr[i] <= qo_indptr[j] /\ kv_indptr[i] <= kv_indptr[j]
               /\ kv_indptr[j] - kv_indptr[i] <= (j - i) * C
    <3>1. (j - i) \in Nat /\ (j - i) * C >= 0
      BY <1>3, <2>1
    <3> QED
      BY <3>1 DEF Init
  <2> QED
    BY <1>2, <2>1 DEF Layout
<1>6. OldSlots /\ PackedSlots
  BY <1>1 DEF OldSlots, PackedSlots
<1>7. Occupancy
  BY <1>1, <1>2 DEF Init, Occupancy, Slots, Requests
<1>8. Inputs
  BY <1>2 DEF Init, Inputs, Requests
<1>9. OldPositions = {} /\ NewPositions = {}
  BY <1>1, <1>2 DEF OldPositions, NewPositions
<1>10. PagesApart
  <2>1. \A x \in 0..M - 1 : page_queue[x % M] = x
    <3>1. ASSUME NEW x \in 0..M - 1 PROVE x % M = x
      BY <3>1
    <3> QED
      BY <3>1 DEF Init, Pages
  <2>2. page_queue_head = 0 /\ page_queue_tail = M
    BY DEF Init
  <2>3. \A k \in Kinds, x \in Int :
          Holds(k, x) => k = "free" /\ x \in 0..M - 1 /\ PageAt(k, x) = x
    BY <1>9, <2>1, <2>2 DEF Holds, PageAt, Kinds
  <2> QED
    BY <2>3, Zenon DEF PagesApart
<1>11. PageCount
  BY <1>2, <1>9, FS_EmptySet DEF PageCount, Init, FreeCount
<1> QED
  BY <1>4, <1>5, <1>6, <1>7, <1>8, <1>10, <1>11 DEF IInv

LEMMA CallStep == IInv /\ Call => IInv'
<1> SUFFICES ASSUME IInv, Call PROVE IInv'
  OBVIOUS
<1> USE Sizes
<1>1. ~Compacting /\ ~Compacting' /\ FirstOld' = FirstOld /\ OldTable' = OldTable
  BY DEF Call, Compacting, FirstOld, OldTable, tables
<1>2. \A i \in Slots : /\ Old(i)' = Old(i) /\ ~Packed(i) /\ ~Packed(i)'
                       /\ ~Advanced(i) /\ ~Advanced(i)' /\ Total(i)' = Total(i)
  BY <1>1 DEF Call, Old, Packed, Advanced, Total, BatchTokens, Slots, Compacting, tables
<1>3. TypeOK'
  BY DEF IInv, TypeOK, Call, tables, queue, counts
<1>4. Layout'
  BY <1>1 DEF IInv, Layout, Call, tables
<1>5. OldSlots' /\ PackedSlots'
  BY <1>1, <1>2 DEF IInv, OldSlots, PackedSlots, Call, Taken, Cached, BatchTokens,
     BatchPages, tables
<1>6. Occupancy'
  BY <1>1, <1>2 DEF IInv, Occupancy, Call
<1>7. Inputs'
  BY <1>1 DEF IInv, Inputs, Call, tables
<1>8. OldPositions' = OldPositions /\ NewPositions' = NewPositions
  BY <1>1, <1>2 DEF OldPositions, NewPositions, Call, tables
<1>9. PagesApart'
  BY <1>1, <1>8 DEF IInv, PagesApart, Holds, PageAt, Call, tables, queue
<1>10. PageCount'
  BY <1>1, <1>8 DEF IInv, PageCount, FreeCount, Call, queue, tables
<1> QED
  BY <1>3, <1>4, <1>5, <1>6, <1>7, <1>9, <1>10 DEF IInv

LEMMA FinalizeEmptyStep == IInv /\ FinalizeEmpty => IInv'
<1> SUFFICES ASSUME IInv, FinalizeEmpty PROVE IInv'
  OBVIOUS
<1> USE Sizes
<1>1. ~Compacting /\ ~Compacting' /\ FirstOld' = FirstOld /\ OldTable' = OldTable
  BY DEF FinalizeEmpty, Compacting, FirstOld, OldTable, tables
<1>2. slot \in Int /\ slot' = slot + 1 /\ request_ids[slot] = None
  BY DEF IInv, TypeOK, FinalizeEmpty
<1>3. \A i \in Slots : /\ Old(i)' = Old(i) /\ ~Packed(i) /\ ~Packed(i)'
                       /\ Old(i) => Advanced(i)' = Advanced(i) /\ Total(i)' = Total(i)
  BY <1>1, <1>2 DEF FinalizeEmpty, Old, Packed, Advanced, Total, BatchTokens, Slots,
     Compacting, tables
<1>4. TypeOK'
  <2>1. slot' \in 0..R
    BY <1>2 DEF FinalizeEmpty, Slots
  <2> QED
    BY <2>1 DEF IInv, TypeOK, FinalizeEmpty, tables, queue, counts
<1>5. Layout'
  BY <1>1 DEF IInv, Layout, FinalizeEmpty, tables
<1>6. OldSlots' /\ PackedSlots'
  BY <1>1, <1>3 DEF IInv, OldSlots, PackedSlots, FinalizeEmpty, Taken, Cached,
     BatchTokens, BatchPages, tables
<1>7. Occupancy'
  BY <1>1, <1>3 DEF IInv, Occupancy, FinalizeEmpty
<1>8. Inputs'
  BY <1>1 DEF IInv, Inputs, FinalizeEmpty, tables
<1>9. OldPositions' = OldPositions /\ NewPositions' = NewPositions
  BY <1>1, <1>3 DEF OldPositions, NewPositions, FinalizeEmpty, tables
<1>10. PagesApart'
  BY <1>1, <1>9 DEF IInv, PagesApart, Holds, PageAt, FinalizeEmpty, tables, queue
<1>11. PageCount'
  BY <1>1, <1>9 DEF IInv, PageCount, FreeCount, FinalizeEmpty, queue, tables
<1> QED
  BY <1>4, <1>5, <1>6, <1>7, <1>8, <1>10, <1>11 DEF IInv

LEMMA CompactEmptyStep == IInv /\ CompactEmpty => IInv'
<1> SUFFICES ASSUME IInv, CompactEmpty PROVE IInv'
  OBVIOUS
<1> USE Sizes
<1>1. /\ Compacting /\ Compacting' /\ FirstOld = slot /\ FirstOld' = slot + 1
      /\ OldTable' = OldTable /\ slot' = slot + 1 /\ request_ids[slot] = None
      /\ slot \in 0..R - 1 /\ num_reqs \in 0..R
  BY DEF IInv, TypeOK, CompactEmpty, Compacting, FirstOld, OldTable, Slots
<1>2. \A i \in Slots : /\ Old(i)' = Old(i) /\ Packed(i)' = Packed(i)
                       /\ Advanced(i)' = Advanced(i) /\ Total(i)' = Total(i)
                       /\ PackedTotal(i)' = PackedTotal(i)
  BY <1>1 DEF CompactEmpty, Old, Packed, Advanced, Total, PackedTotal, QoAt,
     BatchTokens, Slots, Compacting, tables, counts
<1>3. \A i : QoAt(i)' = QoAt(i) /\ KvAt(i)' = KvAt(i)
  BY DEF QoAt, KvAt, CompactEmpty, tables, counts
<1>4. TypeOK'
  <2>1. slot' \in 0..R
    BY <1>1
  <2> QED
    BY <2>1 DEF IInv, TypeOK, CompactEmpty, tables, queue, counts
<1>5. Layout'
  <2>1. slot + 1 < R => num_tokens <= qo_indptr[slot + 1]
    <3> SUFFICES ASSUME slot + 1 < R PROVE num_tokens <= qo_indptr[slot + 1]
      OBVIOUS
    <3>1. slot \in FirstOld..R /\ slot + 1 \in FirstOld..R /\ slot <= slot + 1
      BY <1>1
    <3>2. qo_indptr[slot] <= qo_indptr[slot + 1] /\ num_tokens <= qo_indptr[slot]
      BY <1>1, <3>1 DEF IInv, Layout
    <3>3. /\ qo_indptr[slot] \in Int /\ qo_indptr[slot + 1] \in Int /\ num_tokens \in Int
      BY <1>1 DEF IInv, TypeOK
    <3> QED
      BY <3>2, <3>3
  <2>2. \A i \in (slot + 1)..R : i \in slot..R
    BY <1>1
  <2> QED
    BY <1>1, <1>3, <2>1, <2>2 DEF IInv, Layout, CompactEmpty, tables, counts
<1>6. OldSlots'
  BY <1>1, <1>2 DEF IInv, OldSlots, CompactEmpty, Taken, Cached, BatchTokens, BatchPages,
     tables
<1>7. PackedSlots'
  BY <1>1, <1>2, <1>3 DEF IInv, PackedSlots, CompactEmpty, Taken, Cached, tables
<1>8. Occupancy'
  <2>1. \A i \in Slots : i >= num_reqs /\ i < slot + 1 =>
          request_ids[i] = None \/ \E j \in Slots : j < num_reqs /\ request_ids[j] = request_ids[i]
    BY <1>1 DEF IInv, Occupancy, Slots
  <2> QED
    BY <1>1, <1>2, <2>1 DEF IInv, Occupancy, CompactEmpty, counts
<1>9. Inputs'
  BY <1>1 DEF IInv, Inputs, CompactEmpty, tables, counts
<1>10. OldPositions' = OldPositions /\ NewPositions' = NewPositions
  BY <1>1, <1>2 DEF OldPositions, NewPositions, CompactEmpty, tables, counts
<1>11. PagesApart'
  BY <1>1, <1>10 DEF IInv, PagesApart, Holds, PageAt, CompactEmpty, tables, queue
<1>12. PageCount'
  BY <1>1, <1>3, <1>10 DEF IInv, PageCount, FreeCount, CompactEmpty, queue, tables, counts
<1> QED
  BY <1>4, <1>5, <1>6, <1>7, <1>8, <1>9, <1>11, <1>12 DEF IInv

LEMMA RelaunchStep == IInv /\ Relaunch => IInv'
<1> SUFFICES ASSUME IInv, Relaunch PROVE IInv'
  OBVIOUS
<1> USE Sizes
<1>1. ~Compacting /\ ~Compacting' /\ FirstOld' = FirstOld /\ OldTable' = OldTable
  BY DEF Relaunch, Compacting, FirstOld, OldTable, tables
<1>2. \A i \in Slots : ~Old(i) /\ ~Old(i)' /\ ~Packed(i) /\ ~Packed(i)'
  BY <1>1 DEF IInv, Occupancy, Relaunch, Old, Packed
<1>3. TypeOK'
  BY DEF IInv, TypeOK, Relaunch, tables, queue, counts
<1>4. Layout'
  BY <1>1 DEF IInv, Layout, Relaunch, tables
<1>5. OldSlots' /\ PackedSlots'
  BY <1>2 DEF OldSlots, PackedSlots
<1>6. Occupancy'
  BY <1>1, <1>2 DEF IInv, Occupancy, Relaunch
<1>7. Inputs'
  BY <1>1 DEF IInv, Inputs, Relaunch, tables
<1>8. OldPositions' = OldPositions /\ NewPositions' = NewPositions
  BY <1>1, <1>2 DEF OldPositions, NewPositions, Relaunch, tables
<1>9. PagesApart'
  BY <1>1, <1>8 DEF IInv, PagesApart, Holds, PageAt, Relaunch, tables, queue
<1>10. PageCount'
  BY <1>1, <1>8 DEF IInv, PageCount, FreeCount, Relaunch, queue, tables
<1> QED
  BY <1>3, <1>4, <1>5, <1>6, <1>7, <1>9, <1>10 DEF IInv

LEMMA StutterStep == IInv /\ UNCHANGED vars => IInv'
<1> SUFFICES ASSUME IInv, UNCHANGED vars PROVE IInv'
  OBVIOUS
<1>1. /\ Compacting' = Compacting /\ FirstOld' = FirstOld /\ OldTable' = OldTable
      /\ OldPositions' = OldPositions /\ NewPositions' = NewPositions
  BY DEF vars, tables, counts, Compacting, FirstOld, OldTable, OldPositions,
     NewPositions, Old
<1>2. \A i : /\ Old(i)' = Old(i) /\ Packed(i)' = Packed(i)
             /\ Advanced(i)' = Advanced(i) /\ Total(i)' = Total(i)
             /\ PackedTotal(i)' = PackedTotal(i)
             /\ QoAt(i)' = QoAt(i) /\ KvAt(i)' = KvAt(i)
  BY DEF vars, tables, counts, Old, Packed, Advanced, Total, PackedTotal, QoAt, KvAt,
     BatchTokens, Compacting
<1>3. TypeOK'
  BY DEF IInv, TypeOK, vars, tables, queue, counts, Occupied
<1>4. Layout' /\ Occupancy' /\ Inputs'
  BY <1>1, <1>2 DEF IInv, Layout, Occupancy, Inputs, vars, tables, counts
<1>5. OldSlots' /\ PackedSlots'
  BY <1>1, <1>2 DEF IInv, OldSlots, PackedSlots, Taken, Cached, BatchTokens, BatchPages,
     vars, tables, counts
<1>6. PagesApart' /\ PageCount'
  BY <1>1, <1>2 DEF IInv, PagesApart, PageCount, Holds, PageAt, FreeCount, vars, tables,
     queue, counts
<1> QED
  BY <1>3, <1>4, <1>5, <1>6 DEF IInv
------------------------------------------------------------------------------
(* Where the page table of an old slot lies.                               *)
LEMMA OldSlot ==
  ASSUME IInv, NEW i \in Slots, Old(i)
  PROVE  /\ i \in 0..R - 1 /\ i \in FirstOld..R /\ i + 1 \in FirstOld..R /\ R \in FirstOld..R
         /\ request_ids[i] \in Requests
         /\ qo_indptr[i] \in 0..T /\ qo_indptr[i + 1] \in 0..T
         /\ qo_indptr[i] < qo_indptr[i + 1]
         /\ kv_indptr[i] \in 0..M /\ kv_indptr[i + 1] \in 0..M /\ kv_indptr[R] \in 0..M
         /\ kv_indptr[i] <= kv_indptr[i + 1] /\ kv_indptr[i + 1] <= kv_indptr[R]
         /\ step[request_ids[i]] \in 0..L
         /\ prompt_length[request_ids[i]] \in 1..L
<1>1. /\ i \in 0..R - 1 /\ i \in FirstOld..R /\ i + 1 \in FirstOld..R /\ R \in FirstOld..R
      /\ i \in 0..R /\ i + 1 \in 0..R /\ R \in 0..R
  <2>1. slot \in 0..R /\ i \in 0..R - 1 /\ (pc = "compact" => i >= slot)
    BY DEF IInv, TypeOK, Old, Compacting, Slots
  <2> QED
    BY <2>1, Sizes DEF FirstOld, Compacting
<1>2. request_ids[i] \in Requests
  BY DEF IInv, TypeOK, Old
<1>3. /\ qo_indptr[i] \in 0..T /\ qo_indptr[i + 1] \in 0..T
      /\ kv_indptr[i] \in 0..M /\ kv_indptr[i + 1] \in 0..M /\ kv_indptr[R] \in 0..M
      /\ step[request_ids[i]] \in 0..L /\ prompt_length[request_ids[i]] \in 1..L
  BY <1>1, <1>2 DEF IInv, TypeOK
<1>4. i <= i + 1 /\ i + 1 <= R
  BY <1>1, Sizes
<1>5. kv_indptr[i] <= kv_indptr[i + 1] /\ kv_indptr[i + 1] <= kv_indptr[R]
  BY <1>1, <1>4, Zenon DEF IInv, Layout
<1>6. BatchTokens(i) >= 1
  BY DEF IInv, OldSlots
<1> QED
  BY <1>1, <1>2, <1>3, <1>5, <1>6, Sizes DEF BatchTokens

LEMMA OldPage ==
  ASSUME IInv, NEW i \in Slots, Old(i), NEW p \in 0..Total(i) - 1
  PROVE  /\ p \div P \in 0..BatchPages(i) - 1
         /\ kv_indptr[i] + (p \div P) \in kv_indptr[i]..kv_indptr[i + 1] - 1
         /\ kv_indptr[i] + (p \div P) \in OldPositions
<1>1. Total(i) \in 1..L /\ BatchPages(i) = PagesFor(Total(i))
  BY DEF IInv, OldSlots
<1>2. p \div P \in 0..BatchPages(i) - 1
  <2>1. Total(i) \in Int
    BY <1>1, Sizes
  <2> QED
    BY <1>1, <2>1, PageOfToken, Zenon
<1>3. /\ kv_indptr[i] \in 0..M /\ kv_indptr[i + 1] \in 0..M /\ kv_indptr[R] \in 0..M
      /\ kv_indptr[i + 1] <= kv_indptr[R]
  BY OldSlot
<1> DEFINE q == p \div P
<1>4. q \in 0..BatchPages(i) - 1
  BY <1>2
<1> HIDE DEF q
<1>5. kv_indptr[i] + q \in kv_indptr[i]..kv_indptr[i + 1] - 1
  BY <1>3, <1>4, Sizes DEF BatchPages
<1>6. kv_indptr[i] + q \in OldPositions
  BY <1>3, <1>5, Sizes DEF OldPositions
<1> QED
  BY <1>2, <1>5, <1>6 DEF q

LEMMA OldFinite ==
  ASSUME TypeOK
  PROVE  /\ IsFiniteSet(OldPositions) /\ Cardinality(OldPositions) \in Nat
         /\ IsFiniteSet(0..kv_indptr[R] - 1)
<1>1. kv_indptr[R] \in Int
  BY Sizes DEF TypeOK
<1>2. IsFiniteSet(0..kv_indptr[R] - 1) /\ OldPositions \subseteq 0..kv_indptr[R] - 1
  BY <1>1, FS_Interval DEF OldPositions
<1> QED
  BY <1>2, FS_Subset, FS_CardinalityType

(* The page tables of two old slots are apart.                             *)
LEMMA OldApart ==
  ASSUME IInv, NEW i \in Slots, NEW j \in Slots, Old(i), Old(j), i # j,
         NEW x \in Int, kv_indptr[i] <= x, x < kv_indptr[i + 1]
  PROVE  ~(kv_indptr[j] <= x /\ x < kv_indptr[j + 1])
<1>1. /\ i \in 0..R - 1 /\ i \in FirstOld..R /\ i + 1 \in FirstOld..R
      /\ j \in 0..R - 1 /\ j \in FirstOld..R /\ j + 1 \in FirstOld..R
      /\ kv_indptr[i] \in 0..M /\ kv_indptr[i + 1] \in 0..M
      /\ kv_indptr[j] \in 0..M /\ kv_indptr[j + 1] \in 0..M
  BY OldSlot
<1>2. i + 1 <= j \/ j + 1 <= i
  BY <1>1
<1>3. kv_indptr[i + 1] <= kv_indptr[j] \/ kv_indptr[j + 1] <= kv_indptr[i]
  BY <1>1, <1>2, Zenon DEF IInv, Layout
<1> QED
  BY <1>1, <1>3

LEMMA SnapshotStep == IInv /\ Snapshot => IInv'
<1> SUFFICES ASSUME IInv, Snapshot PROVE IInv'
  OBVIOUS
<1> USE Sizes
<1>1. /\ ~Compacting /\ Compacting' /\ slot = R /\ slot' = 0 /\ FirstOld = 0 /\ FirstOld' = 0
      /\ pc = "finalize" /\ num_reqs' = 0 /\ num_pages' = 0 /\ num_tokens' = 0
      /\ OldTable = kv_indices /\ OldTable' = snapshot'
  BY DEF IInv, TypeOK, Snapshot, Compacting, FirstOld, OldTable, Slots
<1>2. \A i \in Slots : /\ Old(i)' = Old(i) /\ ~Packed(i)' /\ i < R /\ 0 <= i
                       /\ Advanced(i) /\ Advanced(i)' /\ Total(i)' = Total(i)
  BY <1>1 DEF Snapshot, Old, Packed, Advanced, Total, BatchTokens, Slots,
     Compacting, tables
<1>3. \A x \in Pages : /\ x < kv_indptr[R] => OldTable'[x] = OldTable[x]
                       /\ kv_indices[x] \in Pages /\ snapshot[x] \in Pages
  BY <1>1 DEF IInv, TypeOK, Snapshot
<1>4. TypeOK'
  <2>1. slot' \in 0..R /\ num_reqs' \in 0..R /\ num_pages' \in 0..M /\ num_tokens' \in 0..T
    BY <1>1
  <2>2. snapshot' \in [Pages -> Pages]
    BY <1>3 DEF Snapshot
  <2> QED
    BY <2>1, <2>2 DEF IInv, TypeOK, Snapshot, tables, queue
<1>5. Layout'
  <2>1. qo_indptr[0] \in 0..T
    BY DEF IInv, TypeOK
  <2>2. \A i \in 0..0 : QoAt(i)' = 0 /\ KvAt(i)' = 0
    BY <1>1 DEF QoAt, KvAt
  <2>3. \A i, j \in 0..0 : i <= j =>
          QoAt(i)' <= QoAt(j)' /\ KvAt(i)' <= KvAt(j)' /\ KvAt(j)' - KvAt(i)' <= (j - i) * C
    <3>1. C \in Nat /\ \A i, j \in 0..0 : (j - i) * C = 0
      BY PagesPositive DEF C
    <3> QED
      BY <2>2, <3>1
  <2> QED
    BY <1>1, <2>1, <2>2, <2>3 DEF IInv, Layout, Snapshot, tables
<1>6. OldSlots'
  <2> SUFFICES ASSUME NEW i \in Slots, Old(i)
               PROVE  Cached(request_ids[i], OldTable', kv_indptr[i], Total(i))
    BY <1>1, <1>2 DEF IInv, OldSlots, Snapshot, Taken, Cached, BatchTokens, BatchPages,
       tables
  <2>1. Cached(request_ids[i], OldTable, kv_indptr[i], Total(i))
    BY <1>1 DEF IInv, OldSlots
  <2>2. ASSUME NEW p \in 0..Total(i) - 1
        PROVE  OldTable'[kv_indptr[i] + (p \div P)] = OldTable[kv_indptr[i] + (p \div P)]
    <3> DEFINE x == kv_indptr[i] + (p \div P)
    <3>1. x \in kv_indptr[i]..kv_indptr[i + 1] - 1
      BY OldPage
    <3> HIDE DEF x
    <3>2. x \in Pages /\ x < kv_indptr[R]
      BY <3>1, OldSlot DEF Pages
    <3> QED
      BY <1>3, <3>2 DEF x
  <2> QED
    BY <2>1, <2>2 DEF Cached
<1>7. PackedSlots'
  BY <1>2 DEF PackedSlots
<1>8. Occupancy'
  BY <1>1, <1>2 DEF IInv, Occupancy, Snapshot, Slots
<1>9. Inputs'
  BY <1>1 DEF IInv, Inputs, Snapshot, tables
<1>10. OldPositions' = OldPositions /\ NewPositions' = {} /\ NewPositions = {}
  BY <1>1, <1>2 DEF OldPositions, NewPositions, Snapshot, tables
<1>11. PagesApart'
  <2>1. \A k \in Kinds : \A x \in Int : Holds(k, x)' => Holds(k, x) /\ PageAt(k, x)' = PageAt(k, x)
    <3>1. \A x \in OldPositions : OldTable'[x] = OldTable[x]
      <4>1. kv_indptr[R] \in 0..M
        BY DEF IInv, TypeOK
      <4> QED
        BY <1>3, <4>1 DEF OldPositions, Pages
    <3> QED
      BY <1>1, <1>10, <3>1 DEF Holds, PageAt, Snapshot, tables, queue
  <2> QED
    BY <2>1 DEF IInv, PagesApart
<1>12. PageCount'
  <2>1. Cardinality(OldPositions) \in Nat
    BY OldFinite DEF IInv
  <2> QED
    BY <1>1, <1>10, <2>1 DEF IInv, PageCount, FreeCount, Snapshot, queue, tables
<1> QED
  BY <1>4, <1>5, <1>6, <1>7, <1>8, <1>9, <1>11, <1>12 DEF IInv
------------------------------------------------------------------------------
(* What both ways to finalize an occupied slot do to the requests.         *)
LEMMA FinalizedRequest ==
  ASSUME IInv, pc = "finalize", slot \in Slots, request_ids[slot] # None,
         NEW r, r = request_ids[slot], NEW n, n = BatchTokens(slot), Advance(r, n)
  PROVE  /\ Old(slot) /\ r \in Requests /\ r < next_request_id
         /\ n \in Nat /\ n >= 1 /\ step[r] + n \in 1..L
         /\ step' \in [Requests -> 0..L] /\ written' \in [Requests -> SUBSET Positions]
         /\ step'[r] = step[r] + n
         /\ step[r] + n >= prompt_length[r] /\ step[r] + n < L => step[r] + n \in written'[r]
         /\ \A q \in Requests : written[q] \subseteq written'[q]
         /\ \A q \in Requests : q # r => step'[q] = step[q] /\ written'[q] = written[q]
         /\ \A i \in Slots : Old(i) /\ i # slot => request_ids[i] # r
<1> USE Sizes
<1>1. Old(slot) /\ ~Compacting /\ ~Advanced(slot)
  BY DEF Old, Compacting, Advanced, IInv, TypeOK
<1>2. r \in Requests /\ step[r] \in 0..L /\ n >= 1 /\ n \in Int
  BY <1>1, OldSlot DEF BatchTokens
<1>3. r < next_request_id /\ step[r] + n \in 1..L
  <2>1. Taken(r) /\ Total(slot) \in 1..L
    BY <1>1 DEF IInv, OldSlots
  <2>2. Total(slot) = step[r] + n /\ next_request_id \in Nat
    BY <1>1 DEF Total, IInv, TypeOK
  <2> QED
    BY <2>1, <2>2 DEF Taken
<1>4. step \in [Requests -> 0..L] /\ written \in [Requests -> SUBSET Positions]
  BY DEF IInv, TypeOK
<1>5. step[r] + n \in 0..L
  BY <1>3
<1>6. step' \in [Requests -> 0..L] /\ step'[r] = step[r] + n
  BY <1>2, <1>4, <1>5 DEF Advance
<1>7. OutputPositions(r, n) \subseteq Positions
  BY <1>2 DEF OutputPositions, Positions
<1>8. written' \in [Requests -> SUBSET Positions]
  BY <1>2, <1>4, <1>7 DEF Advance
<1>9. step[r] + n >= prompt_length[r] /\ step[r] + n < L => step[r] + n \in written'[r]
  BY <1>2, <1>4 DEF Advance, OutputPositions
<1>10. \A q \in Requests : written[q] \subseteq written'[q]
  BY <1>2, <1>4 DEF Advance
<1>11. \A q \in Requests : q # r => step'[q] = step[q] /\ written'[q] = written[q]
  BY <1>2, <1>4 DEF Advance
<1>12. \A i \in Slots : Old(i) /\ i # slot => request_ids[i] # r
  BY <1>1 DEF IInv, Occupancy
<1> QED
  BY <1>1, <1>2, <1>3, <1>6, <1>8, <1>9, <1>10, <1>11, <1>12

LEMMA FinalizeRunningStep == IInv /\ FinalizeRunning => IInv'
<1> SUFFICES ASSUME IInv, FinalizeRunning PROVE IInv'
  OBVIOUS
<1> DEFINE r == request_ids[slot]
           n == BatchTokens(slot)
<1> USE Sizes
<1>1. /\ Old(slot) /\ r \in Requests /\ r < next_request_id
      /\ n \in Nat /\ n >= 1 /\ step[r] + n \in 1..L
      /\ step' \in [Requests -> 0..L] /\ written' \in [Requests -> SUBSET Positions]
      /\ step'[r] = step[r] + n
      /\ step[r] + n >= prompt_length[r] /\ step[r] + n < L => step[r] + n \in written'[r]
      /\ \A q \in Requests : written[q] \subseteq written'[q]
      /\ \A q \in Requests : q # r => step'[q] = step[q] /\ written'[q] = written[q]
      /\ \A i \in Slots : Old(i) /\ i # slot => request_ids[i] # r
  BY FinalizedRequest DEF FinalizeRunning
<1> HIDE DEF n
<1>2. /\ ~Compacting /\ ~Compacting' /\ FirstOld' = FirstOld /\ OldTable' = OldTable
      /\ slot' = slot + 1 /\ pc = "finalize" /\ pc' = "finalize" /\ slot \in 0..R - 1
  BY DEF FinalizeRunning, Compacting, FirstOld, OldTable, tables, Slots
<1>3. \A i \in Slots : /\ Old(i)' = Old(i) /\ ~Packed(i) /\ ~Packed(i)'
                       /\ request_ids'[i] = request_ids[i]
                       /\ BatchTokens(i)' = BatchTokens(i) /\ BatchPages(i)' = BatchPages(i)
                       /\ i # slot => Advanced(i)' = Advanced(i)
  BY <1>2 DEF FinalizeRunning, Old, Packed, Advanced, BatchTokens, BatchPages, Slots,
     Compacting, tables
<1>4. TypeOK'
  <2>1. slot' \in 0..R
    BY <1>2
  <2> QED
    BY <1>1, <1>2, <2>1 DEF IInv, TypeOK, FinalizeRunning, tables, queue, counts
<1>5. Layout'
  BY <1>2 DEF IInv, Layout, FinalizeRunning, tables
<1>6. OldSlots' /\ PackedSlots'
  <2>1. ASSUME NEW i \in Slots, Old(i), i # slot
        PROVE  /\ request_ids[i] \in Requests
               /\ step'[request_ids[i]] = step[request_ids[i]]
               /\ written'[request_ids[i]] = written[request_ids[i]]
               /\ Total(i)' = Total(i) /\ Advanced(i)' = Advanced(i)
    BY <1>1, <1>3, <2>1, OldSlot DEF Total
  <2>2. ASSUME NEW i \in Slots, i = slot
        PROVE  /\ Total(i)' = Total(i) /\ ~Advanced(i) /\ Advanced(i)'
               /\ step'[request_ids[i]] = Total(i)
    <3>1. ~Advanced(i) /\ Advanced(i)'
      BY <1>2, <2>2 DEF Advanced
    <3>2. Total(i) = step[r] + n /\ Total(i)' = step'[r]
      BY <1>3, <2>2, <3>1 DEF Total, n
    <3> QED
      BY <1>1, <2>2, <3>1, <3>2
  <2>3. /\ step'[r] + 1 < L
        /\ step'[r] < prompt_length[r] \/ step'[r] \in written'[r]
    <3>1. ~(step[r] + n + 1 >= L)
      BY DEF FinalizeRunning, Full, n
    <3>2. prompt_length[r] \in 1..L /\ step[r] \in 0..L
      BY <1>1 DEF IInv, TypeOK
    <3> QED
      BY <1>1, <3>1, <3>2
  <2>4. UNCHANGED <<prompt_length, next_request_id, qo_indptr, kv_indptr, kv_indices, kv_cache,
                    served>>
    BY DEF FinalizeRunning, tables
  <2>5. ASSUME NEW i \in Slots, Old(i) PROVE Total(i)' = Total(i)
    BY <2>1, <2>2, <2>5
  <2>6. ASSUME NEW i \in Slots, Old(i)'
        PROVE  Advanced(i)' => /\ step'[request_ids[i]] + 1 < L
                               /\ \/ step'[request_ids[i]] < prompt_length[request_ids[i]]
                                  \/ step'[request_ids[i]] \in written'[request_ids[i]]
    <3>1. CASE i = slot
      BY <2>3, <3>1
    <3>2. CASE i # slot
      BY <1>3, <2>1, <2>6, <3>2 DEF IInv, OldSlots
    <3> QED
      BY <3>1, <3>2
  <2>7. OldSlots'
    BY <1>2, <1>3, <2>4, <2>5, <2>6 DEF IInv, OldSlots, Taken, Cached
  <2>8. PackedSlots'
    BY <1>2, <1>3, <2>4 DEF IInv, PackedSlots
  <2> QED
    BY <2>7, <2>8
<1>7. Occupancy'
  <2>1. \A q \in Requests : q >= next_request_id => step'[q] = 0
    <3>1. next_request_id \in Nat /\ r \in Nat
      BY <1>1 DEF IInv, TypeOK, Requests
    <3> QED
      BY <1>1, <3>1 DEF IInv, Occupancy
  <2> QED
    BY <1>2, <1>3, <2>1 DEF IInv, Occupancy, FinalizeRunning
<1>8. Inputs'
  BY <1>1, <1>2 DEF IInv, Inputs, FinalizeRunning, tables
<1>9. OldPositions' = OldPositions /\ NewPositions' = NewPositions
  BY <1>2, <1>3 DEF OldPositions, NewPositions, FinalizeRunning, tables
<1>10. PagesApart'
  BY <1>2, <1>9 DEF IInv, PagesApart, Holds, PageAt, FinalizeRunning, tables, queue
<1>11. PageCount'
  BY <1>2, <1>9 DEF IInv, PageCount, FreeCount, FinalizeRunning, queue, tables
<1> QED
  BY <1>4, <1>5, <1>6, <1>7, <1>8, <1>10, <1>11 DEF IInv

(* The pages of one slot are among those of all.                           *)
LEMMA SlotPositions ==
  ASSUME IInv, NEW i \in Slots, Old(i)
  PROVE  /\ BatchPages(i) \in Nat /\ BatchPages(i) <= Cardinality(OldPositions)
         /\ Cardinality(OldPositions \ (kv_indptr[i]..kv_indptr[i + 1] - 1))
              = Cardinality(OldPositions) - BatchPages(i)
<1> DEFINE S == kv_indptr[i]..kv_indptr[i + 1] - 1
<1>1. /\ kv_indptr[i] \in 0..M /\ kv_indptr[i + 1] \in 0..M /\ kv_indptr[R] \in 0..M
      /\ kv_indptr[i] <= kv_indptr[i + 1] /\ kv_indptr[i + 1] <= kv_indptr[R]
  BY OldSlot
<1>2. S \subseteq OldPositions
  BY <1>1, Sizes DEF OldPositions
<1>3. IsFiniteSet(S) /\ Cardinality(S) = BatchPages(i)
  <2>1. kv_indptr[i] \in Int /\ kv_indptr[i + 1] - 1 \in Int
    BY <1>1, Sizes
  <2>2. IsFiniteSet(S) /\ Cardinality(S) = IF kv_indptr[i] > kv_indptr[i + 1] - 1 THEN 0
                                            ELSE kv_indptr[i + 1] - 1 - kv_indptr[i] + 1
    BY <2>1, FS_Interval
  <2> QED
    BY <1>1, <2>1, <2>2, Sizes DEF BatchPages
<1>4. IsFiniteSet(OldPositions) /\ Cardinality(OldPositions) \in Nat
  BY OldFinite DEF IInv
<1>5. OldPositions \cap S = S
  BY <1>2
<1>6. Cardinality(S) \in Nat /\ Cardinality(S) <= Cardinality(OldPositions)
  BY <1>2, <1>3, <1>4, FS_Subset, FS_CardinalityType
<1>7. Cardinality(OldPositions \ S) = Cardinality(OldPositions) - Cardinality(S)
  BY <1>4, <1>5, FS_Difference
<1> QED
  BY <1>3, <1>6, <1>7

(* Freed pages come after what the ring held, which stays where it was.    *)
LEMMA FreedRing ==
  ASSUME IInv, NEW i \in Slots, Old(i), ~Compacting, FreePages(i)
  PROVE  /\ page_queue' \in [Pages -> Pages]
         /\ page_queue_head' = page_queue_head
         /\ page_queue_tail' = page_queue_tail + BatchPages(i)
         /\ \A x \in page_queue_head..page_queue_tail - 1 :
              page_queue'[x % M] = page_queue[x % M]
         /\ \A x \in page_queue_tail..page_queue_tail' - 1 :
              page_queue'[x % M] = kv_indices[kv_indptr[i] + (x - page_queue_tail)]
<1> DEFINE b == BatchPages(i)
           k == kv_indptr[i]
           head == page_queue_head
           tail == page_queue_tail
<1>1. /\ k \in 0..M /\ kv_indptr[i + 1] \in 0..M /\ b = kv_indptr[i + 1] - k /\ b \in Nat
  BY OldSlot, SlotPositions DEF BatchPages
<1>2. head \in Nat /\ tail \in Nat /\ head <= tail /\ tail + b <= head + M
  <2>1. head \in Nat /\ tail \in Nat /\ num_pages \in Nat
    BY Sizes DEF IInv, TypeOK
  <2>2. FreeCount >= 0 /\ FreeCount + Cardinality(OldPositions) = M
    <3>1. Cardinality(OldPositions) \in Nat
      BY OldFinite DEF IInv
    <3> QED
      BY <2>1, <3>1, Sizes DEF IInv, PageCount, FreeCount
  <2>3. Cardinality(OldPositions) \in Nat /\ b <= Cardinality(OldPositions)
    BY SlotPositions, OldFinite DEF IInv
  <2> QED
    BY <1>1, <2>1, <2>2, <2>3, Sizes DEF FreeCount
<1>3. \A x \in head..tail + b - 1 : x \in Int /\ x % M \in Pages
  <2>1. ASSUME NEW x \in head..tail + b - 1 PROVE x \in Int /\ x % M \in 0..M - 1
    <3>1. x \in Int /\ M \in Nat \ {0}
      BY <1>1, <1>2, Sizes
    <3> QED
      BY <3>1, Division
  <2> QED
    BY <2>1 DEF Pages
<1> DEFINE At(p) == \E j \in 0..b - 1 : p = (tail + j) % M
           The(p) == CHOOSE j \in 0..b - 1 : p = (tail + j) % M
<1>4. page_queue' = [p \in Pages |-> IF At(p) THEN kv_indices[k + The(p)] ELSE page_queue[p]]
  BY DEF FreePages
<1>5. kv_indices \in [Pages -> Pages] /\ page_queue \in [Pages -> Pages]
  BY DEF IInv, TypeOK
<1>6. \A p : At(p) => The(p) \in 0..b - 1 /\ p = (tail + The(p)) % M
  OBVIOUS
<1> HIDE DEF b, k, head, tail, At, The
<1>7. page_queue' \in [Pages -> Pages]
  <2>1. \A p : At(p) => k + The(p) \in Pages
    BY <1>1, <1>6, Sizes DEF Pages
  <2> QED
    BY <1>4, <1>5, <2>1
<1>8. ASSUME NEW x \in head..tail - 1 PROVE page_queue'[x % M] = page_queue[x % M]
  <2>1. ~At(x % M)
    <3>1. ASSUME NEW j \in 0..b - 1 PROVE x % M # (tail + j) % M
      <4>1. x \in Int /\ tail + j \in Int /\ x < tail + j /\ tail + j < x + M
        BY <1>1, <1>2, <1>8, Sizes
      <4> QED
        BY <4>1, RingApart
    <3> QED
      BY <3>1 DEF At
  <2>2. x % M \in Pages
    BY <1>1, <1>2, <1>3
  <2> QED
    BY <1>4, <2>1, <2>2
<1>9. ASSUME NEW x \in tail..tail + b - 1 PROVE page_queue'[x % M] = kv_indices[k + (x - tail)]
  <2> DEFINE j == x - tail
  <2>1. j \in 0..b - 1 /\ x = tail + j
    BY <1>1, <1>2
  <2>2. At(x % M)
    BY <2>1 DEF At
  <2>3. x % M \in Pages
    BY <1>1, <1>2, <1>3
  <2> HIDE DEF j
  <2>4. The(x % M) = j
    <3> DEFINE h == The(x % M)
    <3>1. h \in 0..b - 1 /\ x % M = (tail + h) % M
      BY <1>6, <2>2
    <3> HIDE DEF h
    <3>2. tail + h \in Int /\ tail + j \in Int
      BY <1>1, <1>2, <2>1, <3>1
    <3>3. ASSUME h < j PROVE FALSE
      <4>1. tail + h < tail + j /\ tail + j < tail + h + M
        BY <1>1, <1>2, <2>1, <3>1, <3>3, Sizes
      <4> QED
        BY <2>1, <3>1, <3>2, <4>1, RingApart
    <3>4. ASSUME j < h PROVE FALSE
      <4>1. tail + j < tail + h /\ tail + h < tail + j + M
        BY <1>1, <1>2, <2>1, <3>1, <3>4, Sizes
      <4> QED
        BY <2>1, <3>1, <3>2, <4>1, RingApart
    <3> QED
      BY <1>1, <2>1, <3>1, <3>3, <3>4 DEF h
  <2> QED
    BY <1>4, <2>2, <2>3, <2>4 DEF j
<1>10. page_queue_head' = head /\ page_queue_tail' = tail + b
  BY DEF FreePages, head, tail, b
<1>11. \A x \in head..tail - 1 : page_queue'[x % M] = page_queue[x % M]
  BY <1>8, Zenon
<1>12. \A x \in tail..page_queue_tail' - 1 :
         page_queue'[x % M] = kv_indices[k + (x - tail)]
  <2> SUFFICES ASSUME NEW x \in tail..page_queue_tail' - 1
               PROVE  page_queue'[x % M] = kv_indices[k + (x - tail)]
    OBVIOUS
  <2>1. x \in tail..tail + b - 1
    BY <1>1, <1>2, <1>10
  <2> QED
    BY <1>9, <2>1, Zenon
<1> QED
  BY <1>7, <1>10, <1>11, <1>12, Zenon DEF head, tail, b, k

LEMMA FinalizeDoneStep == IInv /\ FinalizeDone => IInv'
<1> SUFFICES ASSUME IInv, FinalizeDone PROVE IInv'
  OBVIOUS
<1> DEFINE r == request_ids[slot]
           n == BatchTokens(slot)
           k == kv_indptr[slot]
           e == kv_indptr[slot + 1]
<1> USE Sizes
<1>1. /\ Old(slot) /\ r \in Requests /\ r < next_request_id
      /\ n \in Nat /\ n >= 1 /\ step[r] + n \in 1..L
      /\ step' \in [Requests -> 0..L] /\ written' \in [Requests -> SUBSET Positions]
      /\ step'[r] = step[r] + n
      /\ step[r] + n >= prompt_length[r] /\ step[r] + n < L => step[r] + n \in written'[r]
      /\ \A q \in Requests : written[q] \subseteq written'[q]
      /\ \A q \in Requests : q # r => step'[q] = step[q] /\ written'[q] = written[q]
      /\ \A i \in Slots : Old(i) /\ i # slot => request_ids[i] # r
  BY FinalizedRequest DEF FinalizeDone
<1> HIDE DEF n
<1>2. /\ ~Compacting /\ ~Compacting' /\ FirstOld' = FirstOld /\ OldTable' = OldTable
      /\ OldTable = kv_indices
      /\ slot' = slot + 1 /\ pc = "finalize" /\ pc' = "finalize"
      /\ slot \in Slots /\ slot \in 0..R - 1
  BY DEF FinalizeDone, Compacting, FirstOld, OldTable, tables, Slots
<1>3. UNCHANGED <<prompt_length, next_request_id, tables, snapshot, kv_cache, counts>>
  BY DEF FinalizeDone
<1>4. /\ request_ids' \in [Slots -> Requests \cup {None}]
      /\ request_ids'[slot] = None
      /\ \A i \in Slots : i # slot => request_ids'[i] = request_ids[i]
  <2>1. request_ids \in [Slots -> Requests \cup {None}]
    BY DEF IInv, TypeOK
  <2> QED
    BY <1>2, <2>1 DEF FinalizeDone
<1>5. \A i \in Slots : /\ Old(i)' <=> Old(i) /\ i # slot
                       /\ ~Packed(i) /\ ~Packed(i)'
                       /\ BatchTokens(i)' = BatchTokens(i) /\ BatchPages(i)' = BatchPages(i)
                       /\ i # slot => Advanced(i)' = Advanced(i)
  BY <1>2, <1>3, <1>4 DEF Old, Packed, Advanced, BatchTokens, BatchPages, Slots,
     Compacting, tables
<1>6. /\ page_queue' \in [Pages -> Pages]
      /\ page_queue_head' = page_queue_head
      /\ page_queue_tail' = page_queue_tail + BatchPages(slot)
      /\ \A x \in page_queue_head..page_queue_tail - 1 :
           page_queue'[x % M] = page_queue[x % M]
      /\ \A x \in page_queue_tail..page_queue_tail' - 1 :
           page_queue'[x % M] = kv_indices[k + (x - page_queue_tail)]
  BY <1>1, <1>2, FreedRing DEF FinalizeDone
<1>7. TypeOK'
  <2>1. slot' \in 0..R
    BY <1>2
  <2>2. served' \subseteq Requests
    BY <1>1 DEF FinalizeDone, IInv, TypeOK
  <2>3. page_queue_tail' \in Nat
    <3>1. BatchPages(slot) \in Nat
      BY <1>1, <1>2, SlotPositions
    <3> QED
      BY <1>6, <3>1 DEF IInv, TypeOK
  <2> QED
    BY <1>1, <1>2, <1>3, <1>4, <1>6, <2>1, <2>2, <2>3 DEF IInv, TypeOK, tables, counts
<1>8. Layout'
  BY <1>2, <1>3 DEF IInv, Layout, tables
<1>9. OldSlots' /\ PackedSlots'
  <2>1. ASSUME NEW i \in Slots, Old(i), i # slot
        PROVE  /\ request_ids[i] \in Requests
               /\ step'[request_ids[i]] = step[request_ids[i]]
               /\ written'[request_ids[i]] = written[request_ids[i]]
               /\ request_ids'[i] = request_ids[i]
               /\ Total(i)' = Total(i) /\ Advanced(i)' = Advanced(i)
               /\ Taken(request_ids[i]) /\ request_ids[i] \notin served'
    <3>1. request_ids[i] \in Requests /\ request_ids[i] # r
      BY <1>1, <2>1, OldSlot
    <3>2. Taken(request_ids[i])
      BY <2>1 DEF IInv, OldSlots
    <3> QED
      BY <1>1, <1>4, <1>5, <2>1, <3>1, <3>2 DEF Total, Taken, FinalizeDone
  <2>2. ASSUME NEW i \in Slots, Old(i)'
        PROVE  /\ Taken(request_ids[i])'
               /\ Advanced(i)' => /\ step'[request_ids[i]] + 1 < L
                                  /\ \/ step'[request_ids[i]] < prompt_length[request_ids[i]]
                                     \/ step'[request_ids[i]] \in written'[request_ids[i]]
               /\ request_ids'[i] = request_ids[i] /\ Old(i) /\ Total(i)' = Total(i)
    <3>1. Old(i) /\ i # slot
      BY <1>5, <2>2
    <3> QED
      BY <1>3, <2>1, <3>1 DEF IInv, OldSlots, Taken
  <2>3. ASSUME NEW i \in Slots, Old(i)'
        PROVE  /\ BatchTokens(i)' >= 1 /\ Total(i)' \in 1..L
               /\ BatchPages(i)' = PagesFor(Total(i)')
               /\ qo_indptr'[i + 1] < T => Total(i)' >= prompt_length'[request_ids'[i]]
               /\ Cached(request_ids[i], OldTable, kv_indptr[i], Total(i))'
    <3>1. /\ BatchTokens(i) >= 1 /\ Total(i) \in 1..L
          /\ BatchPages(i) = PagesFor(Total(i))
          /\ qo_indptr[i + 1] < T => Total(i) >= prompt_length[request_ids[i]]
          /\ Cached(request_ids[i], OldTable, kv_indptr[i], Total(i))
      BY <1>2, <2>2, <2>3 DEF IInv, OldSlots
    <3> QED
      BY <1>2, <1>3, <1>5, <2>2, <2>3, <3>1 DEF Cached, tables
  <2>4. OldSlots'
    <3> SUFFICES ASSUME NEW i \in Slots, Old(i)'
                 PROVE  /\ Taken(request_ids[i])'
                        /\ BatchTokens(i)' >= 1 /\ Total(i)' \in 1..L
                        /\ BatchPages(i)' = PagesFor(Total(i)')
                        /\ qo_indptr'[i + 1] < T => Total(i)' >= prompt_length'[request_ids'[i]]
                        /\ Advanced(i)' => /\ step'[request_ids'[i]] + 1 < L
                                           /\ \/ step'[request_ids'[i]] < prompt_length'[request_ids'[i]]
                                              \/ step'[request_ids'[i]] \in written'[request_ids'[i]]
                        /\ Cached(request_ids[i], OldTable, kv_indptr[i], Total(i))'
      BY <1>2 DEF OldSlots
    <3> QED
      BY <1>3, <2>2, <2>3
  <2>5. PackedSlots'
    BY <1>5 DEF PackedSlots
  <2> QED
    BY <2>4, <2>5
<1>10. Occupancy'
  <2>1. next_request_id \in Nat /\ r \in Nat
    BY <1>1 DEF IInv, TypeOK, Requests
  <2>2. \A q \in Requests : q >= next_request_id => step'[q] = 0
    BY <1>1, <2>1 DEF IInv, Occupancy
  <2>3. \A q \in 0..next_request_id - 1 :
          q \in served' \/ \E i \in Slots : request_ids'[i] = q
    BY <1>4 DEF IInv, Occupancy, FinalizeDone
  <2>4. \A q \in served' : q < next_request_id
    BY <1>1 DEF IInv, Occupancy, FinalizeDone
  <2> QED
    BY <1>2, <1>3, <1>4, <1>5, <2>2, <2>3, <2>4 DEF IInv, Occupancy
<1>11. Inputs'
  BY <1>1, <1>2, <1>3 DEF IInv, Inputs
<1>12. /\ NewPositions' = {} /\ NewPositions = {}
       /\ OldPositions' = OldPositions \ (k..e - 1)
       /\ k \in 0..M /\ e \in 0..M /\ k <= e /\ k..e - 1 \subseteq OldPositions
       /\ page_queue_tail' = page_queue_tail + (e - k)
  <2>1. /\ k \in 0..M /\ e \in 0..M /\ k <= e /\ e <= kv_indptr[R] /\ kv_indptr[R] \in 0..M
    BY <1>1, <1>2, OldSlot
  <2>2. ASSUME NEW x \in 0..kv_indptr[R] - 1
        PROVE  x \in OldPositions' <=> x \in OldPositions /\ x \notin k..e - 1
    <3>1. ASSUME NEW i \in Slots, Old(i), i # slot, kv_indptr[i] <= x, x < kv_indptr[i + 1]
          PROVE  x \notin k..e - 1
      <4>1. x \in Int
        BY <2>1
      <4>2. ~(k <= x /\ x < e)
        BY <1>1, <1>2, <3>1, <4>1, OldApart
      <4> QED
        BY <2>1, <4>1, <4>2
    <3>2. x \notin k..e - 1 => ~(k <= x /\ x < e)
      BY <2>1
    <3> QED
      BY <1>2, <1>3, <1>5, <3>1, <3>2 DEF OldPositions, tables
  <2>3. OldPositions' \subseteq 0..kv_indptr[R] - 1 /\ OldPositions \subseteq 0..kv_indptr[R] - 1
    BY <1>3 DEF OldPositions, tables
  <2>4. k..e - 1 \subseteq OldPositions
    BY <1>1, <1>2, <2>1 DEF OldPositions
  <2> QED
    BY <1>2, <1>6, <2>1, <2>2, <2>3, <2>4 DEF NewPositions, BatchPages
<1> HIDE DEF k, e, r
<1>13. PagesApart'
  <2> DEFINE Freed(kind, x) == kind = "free" /\ x >= page_queue_tail
             Source(kind, x, k0, x0) ==
               IF Freed(kind, x) THEN k0 = "old" /\ x0 = k + (x - page_queue_tail)
               ELSE k0 = kind /\ x0 = x
  <2>1. page_queue_head \in Nat /\ page_queue_tail \in Nat
    BY DEF IInv, TypeOK
  <2>2. ASSUME NEW kind \in Kinds, NEW x \in Int, Holds(kind, x)'
        PROVE  \E k0 \in Kinds, x0 \in Int :
                 /\ Holds(k0, x0) /\ PageAt(k0, x0) = PageAt(kind, x)'
                 /\ Source(kind, x, k0, x0)
    <3>1. CASE kind = "old"
      BY <1>2, <1>12, <2>2, <3>1 DEF Holds, PageAt, Kinds
    <3>2. CASE kind = "new"
      BY <1>12, <2>2, <3>2 DEF Holds, Kinds
    <3>3. CASE kind = "free" /\ x < page_queue_tail
      <4>1. x \in page_queue_head..page_queue_tail - 1
        BY <1>6, <2>1, <2>2, <3>3 DEF Holds
      <4>2. Holds("free", x) /\ PageAt("free", x) = page_queue[x % M]
        BY <4>1 DEF Holds, PageAt
      <4>3. PageAt(kind, x)' = page_queue'[x % M]
        BY <3>3 DEF PageAt
      <4>4. page_queue'[x % M] = page_queue[x % M]
        BY <1>6, <4>1, Zenon
      <4>5. Source(kind, x, "free", x)
        BY <2>1, <3>3
      <4> QED
        BY <4>2, <4>3, <4>4, <4>5 DEF Kinds
    <3>4. CASE kind = "free" /\ x >= page_queue_tail
      <4>1. x \in page_queue_tail..page_queue_tail' - 1
        BY <1>6, <2>1, <2>2, <3>4 DEF Holds
      <4> DEFINE y == k + (x - page_queue_tail)
      <4>2. y \in k..e - 1 /\ y \in Int
        BY <1>12, <2>1, <4>1
      <4>3. PageAt(kind, x)' = page_queue'[x % M]
        BY <3>4 DEF PageAt
      <4>4. page_queue'[x % M] = kv_indices[y]
        BY <1>6, <4>1, Zenon DEF k
      <4>5. Holds("old", y) /\ PageAt("old", y) = kv_indices[y]
        BY <1>2, <1>12, <4>2 DEF Holds, PageAt
      <4>6. Source(kind, x, "old", y)
        BY <3>4
      <4> HIDE DEF y
      <4> QED
        BY <4>2, <4>3, <4>4, <4>5, <4>6 DEF Kinds
    <3> QED
      BY <2>1, <3>1, <3>2, <3>3, <3>4 DEF Kinds
  <2>3. ASSUME NEW k1 \in Kinds, NEW x1 \in Int, Holds(k1, x1)',
               NEW k2 \in Kinds, NEW x2 \in Int, Holds(k2, x2)',
               NEW k0 \in Kinds, NEW x0 \in Int, Source(k1, x1, k0, x0), Source(k2, x2, k0, x0)
        PROVE  k1 = k2 /\ x1 = x2
    <3>1. ASSUME NEW kind \in Kinds, NEW x \in Int, Holds(kind, x)', Freed(kind, x)
          PROVE  k + (x - page_queue_tail) \in k..e - 1
      BY <1>6, <1>12, <2>1, <3>1 DEF Holds
    <3>2. ASSUME NEW x \in Int, Holds("old", x)' PROVE x \notin k..e - 1
      BY <1>12, <3>2 DEF Holds
    <3> QED
      BY <1>12, <2>1, <2>3, <3>1, <3>2
  <2> HIDE DEF Source
  <2>4. ASSUME NEW k1 \in Kinds, NEW x1 \in Int, Holds(k1, x1)',
               NEW k2 \in Kinds, NEW x2 \in Int, Holds(k2, x2)',
               PageAt(k1, x1)' = PageAt(k2, x2)'
        PROVE  k1 = k2 /\ x1 = x2
    <3>1. PICK a0 \in Kinds, y1 \in Int :
            Holds(a0, y1) /\ PageAt(a0, y1) = PageAt(k1, x1)' /\ Source(k1, x1, a0, y1)
      BY <2>2, <2>4, Zenon
    <3>2. PICK b0 \in Kinds, y2 \in Int :
            Holds(b0, y2) /\ PageAt(b0, y2) = PageAt(k2, x2)' /\ Source(k2, x2, b0, y2)
      BY <2>2, <2>4, Zenon
    <3>3. a0 = b0 /\ y1 = y2
      BY <2>4, <3>1, <3>2, Zenon DEF IInv, PagesApart
    <3> QED
      BY <2>3, <2>4, <3>1, <3>2, <3>3, Zenon
  <2> QED
    BY <2>4 DEF PagesApart
<1>14. PageCount'
  <2>1. page_queue_head \in Nat /\ page_queue_tail \in Nat
    BY DEF IInv, TypeOK
  <2>2. Cardinality(OldPositions) \in Nat
    BY OldFinite DEF IInv
  <2>3. FreeCount >= 0 /\ FreeCount + Cardinality(OldPositions) = M
    BY <1>2, <2>1, <2>2 DEF IInv, PageCount, FreeCount
  <2>4. Cardinality(OldPositions') = Cardinality(OldPositions) - (e - k)
    BY <1>1, <1>2, <1>12, SlotPositions DEF BatchPages, k, e
  <2>5. FreeCount' = FreeCount + (e - k) /\ e - k \in Nat
    BY <1>6, <1>12, <2>1 DEF FreeCount
  <2> QED
    BY <1>2, <2>1, <2>2, <2>3, <2>4, <2>5 DEF PageCount, FreeCount
<1> QED
  BY <1>7, <1>8, <1>9, <1>10, <1>11, <1>13, <1>14 DEF IInv
------------------------------------------------------------------------------
(* What compaction and admission share: a request gets the next packed     *)
(* slot for n tokens.  The pages it has are those at positions b on of the *)
(* old tables, which are not old any more.                                 *)
Placing(r, n, kept, b) ==
  /\ Place(r, step[r], n, kept)
  /\ pc = "compact" /\ num_reqs < R
  /\ UNCHANGED <<prompt_length, step, written, snapshot, kv_cache, pc, served>>
  /\ r \in Requests /\ n \in Nat \ {0} /\ step[r] + n <= L
  /\ num_tokens + n <= T
  /\ num_tokens + n < T => step[r] + n >= prompt_length[r]
  /\ step[r]..step[r] + n - 1 \subseteq written[r]
  /\ Len(kept) = PagesFor(step[r]) /\ b \in Int
  /\ b..b + Len(kept) - 1 \subseteq OldPositions
  /\ \A x \in b..b + Len(kept) - 1 : kept[x - b + 1] = snapshot[x]
  /\ Cached(r, snapshot, b, step[r])
  /\ OldPositions' = OldPositions \ (b..b + Len(kept) - 1)
  /\ Cardinality(OldPositions') = Cardinality(OldPositions) - Len(kept)
  /\ num_pages + PagesFor(step[r] + n) + Cardinality(OldPositions') <= M
  /\ next_request_id' \in Nat /\ next_request_id <= next_request_id'
  /\ r < next_request_id' /\ r \notin served
  /\ \A i \in Slots : Packed(i) => request_ids[i] # r

LEMMA PlacedTypes ==
  ASSUME IInv, NEW r, NEW n, NEW kept, NEW b, Placing(r, n, kept, b)
  PROVE  /\ step[r] \in 0..L /\ n \in Nat \ {0} /\ step[r] + n \in 1..L
         /\ Len(kept) \in Nat /\ Len(kept) = PagesFor(step[r])
         /\ PagesFor(step[r] + n) \in Nat \ {0} /\ Len(kept) <= PagesFor(step[r] + n)
         /\ PagesFor(step[r] + n) <= C
         /\ num_reqs \in 0..R - 1 /\ num_reqs \in Slots
         /\ num_tokens \in 0..T /\ num_tokens + n \in 0..T
         /\ num_pages \in 0..M /\ num_pages + PagesFor(step[r] + n) \in 0..M
         /\ page_queue_head \in Nat /\ page_queue_tail \in Nat
         /\ page_queue_head' = page_queue_head + (PagesFor(step[r] + n) - Len(kept))
         /\ page_queue_head' <= page_queue_tail
         /\ FreeCount' \in Nat
         /\ FreeCount' + Cardinality(OldPositions') + num_pages' = M
<1> USE Sizes
<1> DEFINE total == PagesFor(step[r] + n)
           len == Len(kept)
<1>1. /\ step[r] \in 0..L /\ n \in Nat \ {0} /\ step[r] + n \in 1..L
      /\ num_reqs \in 0..R - 1 /\ num_reqs \in Slots
      /\ num_tokens \in 0..T /\ num_tokens + n \in 0..T /\ num_pages \in 0..M
      /\ page_queue_head \in Nat /\ page_queue_tail \in Nat
  <2>1. /\ r \in Requests /\ n \in Nat \ {0} /\ step[r] + n <= L /\ num_reqs < R
        /\ num_tokens + n <= T
    BY DEF Placing
  <2>2. /\ step[r] \in 0..L /\ num_reqs \in 0..R /\ num_tokens \in 0..T /\ num_pages \in 0..M
        /\ page_queue_head \in Nat /\ page_queue_tail \in Nat
    BY <2>1 DEF IInv, TypeOK
  <2> QED
    BY <2>1, <2>2 DEF Slots
<1>2. len = PagesFor(step[r]) /\ len \in Nat
  <2>1. len = PagesFor(step[r])
    BY DEF Placing
  <2>2. PagesFor(0) = 0
    BY NoPages
  <2>3. PagesFor(0) <= PagesFor(step[r]) /\ PagesFor(step[r]) \in Int
    <3>1. 0 \in Int /\ step[r] \in Int /\ 0 <= step[r]
      BY <1>1
    <3> QED
      BY <3>1, PagesMonotone, PagesBetween, Zenon
  <2> QED
    BY <2>1, <2>2, <2>3
<1>3. total \in Nat \ {0}
  BY <1>1, PagesPositive
<1>4. len <= total
  <2>1. step[r] \in Int /\ step[r] + n \in Int /\ step[r] <= step[r] + n
    BY <1>1
  <2> QED
    BY <1>2, <2>1, PagesMonotone, Zenon
<1>5. total <= C
  <2>1. step[r] + n \in Int /\ L \in Int /\ step[r] + n <= L
    BY <1>1
  <2> QED
    BY <2>1, PagesMonotone, Zenon DEF C
<1>6. /\ Cardinality(OldPositions) \in Nat
      /\ Cardinality(OldPositions') = Cardinality(OldPositions) - len
      /\ len <= Cardinality(OldPositions)
      /\ num_pages + total + Cardinality(OldPositions') <= M
  <2>1. Cardinality(OldPositions) \in Nat /\ IsFiniteSet(OldPositions)
    BY OldFinite DEF IInv
  <2>2. OldPositions' \subseteq OldPositions /\ Cardinality(OldPositions') = Cardinality(OldPositions) - len
        /\ num_pages + total + Cardinality(OldPositions') <= M
    BY DEF Placing
  <2>3. Cardinality(OldPositions') \in Nat
    BY <2>1, <2>2, FS_Subset, FS_CardinalityType
  <2> QED
    BY <1>2, <2>1, <2>2, <2>3
<1>7. FreeCount \in Nat /\ FreeCount + Cardinality(OldPositions) + num_pages = M
  BY <1>1, <1>6 DEF IInv, PageCount, FreeCount, Placing, Compacting
<1>8. /\ page_queue_head' = page_queue_head + (IF total > len THEN total - len ELSE 0)
      /\ page_queue_tail' = page_queue_tail /\ num_pages' = num_pages + total
  BY DEF Placing, Place
<1> HIDE DEF total, len
<1>9. page_queue_head' = page_queue_head + (total - len)
  BY <1>1, <1>2, <1>3, <1>4, <1>8
<1>10. /\ num_pages + total \in 0..M
       /\ FreeCount' \in Nat /\ page_queue_head' <= page_queue_tail
       /\ FreeCount' + Cardinality(OldPositions') + num_pages' = M
  BY <1>1, <1>2, <1>3, <1>4, <1>6, <1>7, <1>8, <1>9 DEF FreeCount
<1> QED
  BY <1>1, <1>2, <1>3, <1>4, <1>5, <1>9, <1>10 DEF total, len

(* The new page table: first the pages it had, then those from the ring.   *)
LEMMA PlacedTable ==
  ASSUME IInv, NEW r, NEW n, NEW kept, NEW b, Placing(r, n, kept, b)
  PROVE  /\ kv_indices' \in [Pages -> Pages]
         /\ \A x \in 0..num_pages - 1 : kv_indices'[x] = kv_indices[x]
         /\ \A x \in num_pages..num_pages + Len(kept) - 1 :
              kv_indices'[x] = snapshot[b + (x - num_pages)]
         /\ \A x \in num_pages + Len(kept)..num_pages' - 1 :
              kv_indices'[x] = page_queue[(page_queue_head + (x - num_pages - Len(kept))) % M]
<1> USE Sizes
<1> DEFINE total == PagesFor(step[r] + n)
           len == Len(kept)
           ring(x) == (page_queue_head + x - num_pages - len) % M
<1>1. /\ len \in Nat /\ total \in Nat \ {0} /\ len <= total
      /\ num_pages \in 0..M /\ num_pages + total \in 0..M /\ page_queue_head \in Nat
  BY PlacedTypes
<1>2. /\ num_pages' = num_pages + total
      /\ kv_indices' = [x \in Pages |->
           IF x < num_pages THEN kv_indices[x]
           ELSE IF x < num_pages + len THEN kept[x - num_pages + 1]
           ELSE IF x < num_pages + total THEN page_queue[ring(x)]
           ELSE kv_indices[x]]
  BY DEF Placing, Place
<1>3. /\ kv_indices \in [Pages -> Pages] /\ page_queue \in [Pages -> Pages]
      /\ snapshot \in [Pages -> Pages] /\ kv_indptr[R] \in 0..M
  BY DEF IInv, TypeOK
<1>4. \A x \in num_pages..num_pages + len - 1 :
        kept[x - num_pages + 1] = snapshot[b + (x - num_pages)] /\ b + (x - num_pages) \in Pages
  <2> SUFFICES ASSUME NEW x \in num_pages..num_pages + len - 1
               PROVE  kept[x - num_pages + 1] = snapshot[b + (x - num_pages)]
                      /\ b + (x - num_pages) \in Pages
    OBVIOUS
  <2> DEFINE y == b + (x - num_pages)
  <2>1. b \in Int /\ y \in b..b + len - 1 /\ y - b + 1 = x - num_pages + 1
    <3>1. b \in Int
      BY DEF Placing
    <3> HIDE DEF len
    <3> QED
      BY <1>1, <3>1
  <2>2. kept[y - b + 1] = snapshot[y] /\ y \in OldPositions
    BY <2>1, Zenon DEF Placing
  <2>3. y \in Pages
    BY <1>3, <2>2 DEF OldPositions, Pages
  <2> QED
    BY <2>1, <2>2, <2>3
<1>5. \A x \in Pages : ring(x) \in Pages
  <2> SUFFICES ASSUME NEW x \in Pages PROVE ring(x) \in Pages
    OBVIOUS
  <2>1. M \in Nat \ {0} /\ page_queue_head + x - num_pages - len \in Int
    BY <1>1 DEF Pages
  <2>2. (page_queue_head + x - num_pages - len) % M \in 0..M - 1
    BY <2>1, Division, Zenon
  <2> QED
    BY <2>2 DEF Pages
<1>6. \A x \in Int : page_queue_head + x - num_pages - len = page_queue_head + (x - num_pages - len)
  BY <1>1
<1>7. \A x \in Int : ring(x) = (page_queue_head + (x - num_pages - len)) % M
  BY <1>6, Zenon
<1> HIDE DEF total, len, ring
<1>8. kv_indices' \in [Pages -> Pages]
  <2> SUFFICES ASSUME NEW x \in Pages
               PROVE  (IF x < num_pages THEN kv_indices[x]
                       ELSE IF x < num_pages + len THEN kept[x - num_pages + 1]
                       ELSE IF x < num_pages + total THEN page_queue[ring(x)]
                       ELSE kv_indices[x]) \in Pages
    BY <1>2
  <2>1. ASSUME x >= num_pages, x < num_pages + len PROVE kept[x - num_pages + 1] \in Pages
    <3>1. x \in num_pages..num_pages + len - 1
      BY <1>1, <2>1 DEF Pages
    <3> QED
      BY <1>3, <1>4, <3>1
  <2>2. page_queue[ring(x)] \in Pages /\ kv_indices[x] \in Pages
    BY <1>3, <1>5
  <2> QED
    BY <1>1, <2>1, <2>2 DEF Pages
<1>9. \A x \in 0..num_pages - 1 : kv_indices'[x] = kv_indices[x]
  BY <1>1, <1>2 DEF Pages
<1>10. \A x \in num_pages..num_pages + len - 1 : kv_indices'[x] = snapshot[b + (x - num_pages)]
  <2> SUFFICES ASSUME NEW x \in num_pages..num_pages + len - 1
               PROVE  kv_indices'[x] = kept[x - num_pages + 1]
    BY <1>4
  <2>1. x \in Pages /\ ~(x < num_pages) /\ x < num_pages + len
    BY <1>1 DEF Pages
  <2> QED
    BY <1>2, <2>1
<1>11. \A x \in num_pages + len..num_pages' - 1 :
         kv_indices'[x] = page_queue[(page_queue_head + (x - num_pages - len)) % M]
  <2> SUFFICES ASSUME NEW x \in num_pages + len..num_pages' - 1
               PROVE  kv_indices'[x] = page_queue[ring(x)]
    BY <1>1, <1>2, <1>7
  <2>1. x \in Pages /\ ~(x < num_pages) /\ ~(x < num_pages + len) /\ x < num_pages + total
    BY <1>1, <1>2 DEF Pages
  <2> QED
    BY <1>2, <2>1
<1> QED
  BY <1>8, <1>9, <1>10, <1>11, Zenon DEF len

(* The arrays of the next batch get an entry at num_reqs; those before it  *)
(* stay.                                                                   *)
LEMMA PlacedEntries ==
  ASSUME IInv, NEW r, NEW n, NEW kept, NEW b, Placing(r, n, kept, b)
  PROVE  /\ Compacting /\ Compacting' /\ num_reqs' = num_reqs + 1
         /\ num_tokens' = num_tokens + n /\ num_pages' = num_pages + PagesFor(step[r] + n)
         /\ request_ids' \in [Slots -> Requests \cup {None}]
         /\ request_ids'[num_reqs] = r
         /\ \A i \in Slots : i # num_reqs => /\ request_ids'[i] = request_ids[i]
                                             /\ last_page_len'[i] = last_page_len[i]
         /\ qo_indptr' \in [0..R -> 0..T] /\ kv_indptr' \in [0..R -> 0..M]
         /\ \A i \in 0..R : i # num_reqs => /\ qo_indptr'[i] = qo_indptr[i]
                                            /\ kv_indptr'[i] = kv_indptr[i]
         /\ last_page_len' \in [Slots -> 0..P]
         /\ last_page_len'[num_reqs] = LastPageLen(step[r] + n)
         /\ \A i \in 0..num_reqs : QoAt(i)' = QoAt(i) /\ KvAt(i)' = KvAt(i)
         /\ QoAt(num_reqs) = num_tokens /\ KvAt(num_reqs) = num_pages
         /\ \A i : i = num_reqs + 1 => QoAt(i)' = num_tokens + n
                                       /\ KvAt(i)' = num_pages + PagesFor(step[r] + n)
<1> USE Sizes
<1> DEFINE k == num_reqs
<1>1. /\ k \in 0..R - 1 /\ k \in Slots /\ k \in 0..R /\ r \in Requests
      /\ num_tokens \in 0..T /\ num_pages \in 0..M /\ step[r] + n \in Nat \ {0}
  <2>1. r \in Requests
    BY DEF Placing
  <2>2. /\ k \in 0..R - 1 /\ k \in Slots /\ num_tokens \in 0..T /\ num_pages \in 0..M
        /\ step[r] + n \in 1..L
    BY PlacedTypes
  <2> QED
    BY <2>1, <2>2
<1>2. /\ request_ids' = [request_ids EXCEPT ![k] = r]
      /\ qo_indptr' = [qo_indptr EXCEPT ![k] = num_tokens]
      /\ kv_indptr' = [kv_indptr EXCEPT ![k] = num_pages]
      /\ last_page_len' = [last_page_len EXCEPT ![k] = LastPageLen(step[r] + n)]
      /\ num_reqs' = k + 1 /\ num_tokens' = num_tokens + n
      /\ num_pages' = num_pages + PagesFor(step[r] + n)
      /\ pc = "compact" /\ pc' = "compact"
  BY DEF Placing, Place
<1>3. LastPageLen(step[r] + n) \in 0..P
  BY <1>1, LengthFromPages
<1>4. /\ request_ids \in [Slots -> Requests \cup {None}]
      /\ qo_indptr \in [0..R -> 0..T] /\ kv_indptr \in [0..R -> 0..M]
      /\ last_page_len \in [Slots -> 0..P]
  BY DEF IInv, TypeOK
<1>5. /\ request_ids' \in [Slots -> Requests \cup {None}]
      /\ request_ids'[k] = r
      /\ \A i \in Slots : i # k => /\ request_ids'[i] = request_ids[i]
                                   /\ last_page_len'[i] = last_page_len[i]
      /\ last_page_len' \in [Slots -> 0..P]
      /\ last_page_len'[k] = LastPageLen(step[r] + n)
  BY <1>1, <1>2, <1>3, <1>4
<1>6. /\ qo_indptr' \in [0..R -> 0..T] /\ kv_indptr' \in [0..R -> 0..M]
      /\ qo_indptr'[k] = num_tokens /\ kv_indptr'[k] = num_pages
      /\ \A i \in 0..R : i # k => qo_indptr'[i] = qo_indptr[i] /\ kv_indptr'[i] = kv_indptr[i]
  BY <1>1, <1>2, <1>4
<1>7. \A i \in 0..k : QoAt(i)' = QoAt(i) /\ KvAt(i)' = KvAt(i)
  BY <1>1, <1>2, <1>6 DEF QoAt, KvAt
<1>8. /\ QoAt(k) = num_tokens /\ KvAt(k) = num_pages
      /\ \A i : i = k + 1 => QoAt(i)' = num_tokens + n
                             /\ KvAt(i)' = num_pages + PagesFor(step[r] + n)
  BY <1>1, <1>2 DEF QoAt, KvAt
<1> QED
  BY <1>2, <1>5, <1>6, <1>7, <1>8 DEF Compacting

LEMMA PlacedTokens ==
  ASSUME IInv, NEW r, NEW n, NEW kept, NEW b, Placing(r, n, kept, b)
  PROVE  /\ input_tokens' \in [0..T - 1 -> Tokens]
         /\ \A j \in 0..num_tokens - 1 : input_tokens'[j] = input_tokens[j]
         /\ \A j \in 0..n - 1 : input_tokens'[num_tokens + j] = <<r, step[r] + j>>
<1> USE Sizes
<1>1. /\ num_tokens \in 0..T /\ num_tokens + n \in 0..T /\ n \in Nat \ {0}
      /\ step[r] \in 0..L /\ step[r] + n \in 1..L /\ r \in Requests
  BY PlacedTypes DEF Placing
<1>2. input_tokens \in [0..T - 1 -> Tokens]
  BY DEF IInv, TypeOK
<1>3. input_tokens' = [j \in 0..T - 1 |-> IF j \in num_tokens..num_tokens + n - 1
                         THEN <<r, step[r] + j - num_tokens>> ELSE input_tokens[j]]
  BY <1>2 DEF Placing, Place
<1>4. \A j \in num_tokens..num_tokens + n - 1 : step[r] + j - num_tokens \in Positions
  BY <1>1 DEF Positions
<1>5. input_tokens' \in [0..T - 1 -> Tokens]
  BY <1>1, <1>2, <1>3, <1>4 DEF Tokens
<1>6. \A j \in 0..num_tokens - 1 : input_tokens'[j] = input_tokens[j]
  BY <1>1, <1>3
<1>7. ASSUME NEW j \in 0..n - 1 PROVE input_tokens'[num_tokens + j] = <<r, step[r] + j>>
  <2>1. /\ num_tokens + j \in 0..T - 1 /\ num_tokens + j \in num_tokens..num_tokens + n - 1
        /\ step[r] + (num_tokens + j) - num_tokens = step[r] + j
    BY <1>1
  <2> QED
    BY <1>3, <2>1
<1> QED
  BY <1>5, <1>6, <1>7

LEMMA PlacedTypeOK ==
  ASSUME IInv, NEW r, NEW n, NEW kept, NEW b, Placing(r, n, kept, b),
         next_request_id' \in 0..TotalRequests, slot' \in 0..R
  PROVE  TypeOK'
<1> USE Sizes
<1>1. num_reqs' \in 0..R /\ num_tokens' \in 0..T /\ num_pages' \in 0..M
  <2>1. /\ num_reqs' = num_reqs + 1 /\ num_tokens' = num_tokens + n
        /\ num_pages' = num_pages + PagesFor(step[r] + n)
    BY PlacedEntries
  <2>2. /\ num_reqs \in 0..R - 1 /\ num_tokens + n \in 0..T
        /\ num_pages + PagesFor(step[r] + n) \in 0..M
    BY PlacedTypes
  <2> QED
    BY <2>1, <2>2
<1>2. page_queue_head' \in Nat /\ page_queue_tail' \in Nat /\ page_queue' \in [Pages -> Pages]
  <2>1. page_queue' = page_queue /\ page_queue_tail' = page_queue_tail
    BY DEF Placing, Place
  <2>2. page_queue_head' \in Nat
    <3>1. /\ page_queue_head' = page_queue_head + (PagesFor(step[r] + n) - Len(kept))
          /\ page_queue_head \in Nat /\ PagesFor(step[r] + n) \in Nat /\ Len(kept) \in Nat
          /\ Len(kept) <= PagesFor(step[r] + n)
      BY PlacedTypes
    <3> QED
      BY <3>1
  <2> QED
    BY <2>1, <2>2 DEF IInv, TypeOK
<1>3. kv_indices' \in [Pages -> Pages]
  BY PlacedTable
<1>4. input_tokens' \in [0..T - 1 -> Tokens]
  BY PlacedTokens
<1>5. /\ request_ids' \in [Slots -> Requests \cup {None}]
      /\ qo_indptr' \in [0..R -> 0..T] /\ kv_indptr' \in [0..R -> 0..M]
      /\ last_page_len' \in [Slots -> 0..P]
  BY PlacedEntries
<1>6. UNCHANGED <<prompt_length, step, written, snapshot, kv_cache, pc, served>> /\ pc # "run"
  BY DEF Placing
<1> QED
  BY <1>1, <1>2, <1>3, <1>4, <1>5, <1>6 DEF IInv, TypeOK

(* Where a packed slot lies.                                               *)
LEMMA PackedSlot ==
  ASSUME IInv, NEW i \in Slots, Packed(i)
  PROVE  /\ i \in 0..num_reqs - 1 /\ i + 1 \in 0..num_reqs /\ num_reqs \in 0..R
         /\ request_ids[i] \in Requests /\ step[request_ids[i]] \in 0..L
         /\ prompt_length[request_ids[i]] \in 1..L
         /\ QoAt(i) \in 0..T /\ QoAt(i + 1) \in 0..T
         /\ QoAt(i) < QoAt(i + 1) /\ QoAt(i + 1) <= num_tokens /\ num_tokens \in 0..T
         /\ KvAt(i) \in 0..M /\ KvAt(i + 1) \in 0..M
         /\ KvAt(i) <= KvAt(i + 1) /\ KvAt(i + 1) <= num_pages /\ num_pages \in 0..M
<1> USE Sizes
<1>1. /\ num_reqs \in 0..R /\ num_tokens \in 0..T /\ num_pages \in 0..M
      /\ i \in 0..num_reqs - 1 /\ i + 1 \in 0..num_reqs /\ i \in 0..num_reqs
      /\ num_reqs \in 0..num_reqs /\ Compacting
  BY DEF IInv, TypeOK, Packed, Slots
<1>2. \A j \in 0..num_reqs : QoAt(j) \in 0..T /\ KvAt(j) \in 0..M
  BY <1>1 DEF QoAt, KvAt, IInv, TypeOK
<1>3. QoAt(num_reqs) = num_tokens /\ KvAt(num_reqs) = num_pages
  BY <1>1 DEF QoAt, KvAt
<1>4. /\ KvAt(i) <= KvAt(i + 1)
      /\ QoAt(i + 1) <= QoAt(num_reqs) /\ KvAt(i + 1) <= KvAt(num_reqs)
  <2>1. i <= i + 1 /\ i + 1 <= num_reqs
    BY <1>1
  <2> QED
    BY <1>1, <2>1, Zenon DEF IInv, Layout
<1>5. QoAt(i + 1) - QoAt(i) >= 1 /\ Taken(request_ids[i])
  BY DEF IInv, PackedSlots
<1>6. request_ids[i] \in Requests
  BY <1>5 DEF IInv, TypeOK, Taken, None
<1>7. step[request_ids[i]] \in 0..L /\ prompt_length[request_ids[i]] \in 1..L
  BY <1>6 DEF IInv, TypeOK
<1>8. QoAt(i) < QoAt(i + 1)
  BY <1>1, <1>2, <1>5
<1> QED
  BY <1>1, <1>2, <1>3, <1>4, <1>6, <1>7, <1>8

LEMMA PackedPage ==
  ASSUME IInv, NEW i \in Slots, Packed(i), NEW p \in 0..PackedTotal(i) - 1
  PROVE  /\ p \div P \in 0..KvAt(i + 1) - KvAt(i) - 1
         /\ KvAt(i) + (p \div P) \in 0..num_pages - 1
<1>1. /\ PackedTotal(i) \in 1..L
      /\ KvAt(i + 1) - KvAt(i) = PagesFor(PackedTotal(i))
  BY DEF IInv, PackedSlots
<1>2. p \div P \in 0..KvAt(i + 1) - KvAt(i) - 1
  <2>1. PackedTotal(i) \in Int
    BY <1>1, Sizes
  <2> QED
    BY <1>1, <2>1, PageOfToken, Zenon
<1>3. /\ KvAt(i) \in 0..M /\ KvAt(i + 1) \in 0..M /\ num_pages \in 0..M
      /\ KvAt(i) <= KvAt(i + 1) /\ KvAt(i + 1) <= num_pages
  BY PackedSlot
<1> DEFINE q == p \div P
<1>4. q \in 0..KvAt(i + 1) - KvAt(i) - 1
  BY <1>2
<1> HIDE DEF q
<1>5. KvAt(i) + q \in 0..num_pages - 1
  BY <1>3, <1>4, Sizes
<1> QED
  BY <1>2, <1>5 DEF q

LEMMA PlacedPacked ==
  ASSUME IInv, NEW r, NEW n, NEW kept, NEW b, Placing(r, n, kept, b)
  PROVE  PackedSlots'
<1> USE Sizes
<1>1. /\ Compacting /\ num_reqs' = num_reqs + 1 /\ num_reqs \in 0..R - 1
      /\ num_tokens' = num_tokens + n /\ num_pages' = num_pages + PagesFor(step[r] + n)
      /\ num_tokens \in 0..T /\ num_pages \in 0..M /\ n \in Nat \ {0}
      /\ step[r] \in 0..L /\ step[r] + n \in 1..L /\ PagesFor(step[r] + n) \in Nat \ {0}
  BY PlacedTypes, PlacedEntries
<1>2. /\ r \in Requests /\ r < next_request_id' /\ r \notin served
      /\ next_request_id <= next_request_id' /\ next_request_id' \in Nat
      /\ num_tokens + n < T => step[r] + n >= prompt_length[r]
      /\ Cached(r, snapshot, b, step[r])
      /\ Len(kept) = PagesFor(step[r])
      /\ UNCHANGED <<prompt_length, step, kv_cache, served>>
  BY DEF Placing
<1>3. next_request_id \in Nat
  BY DEF IInv, TypeOK
<1> SUFFICES ASSUME NEW i \in Slots, Packed(i)'
             PROVE  /\ Taken(request_ids[i])'
                    /\ QoAt(i + 1)' - QoAt(i)' >= 1
                    /\ PackedTotal(i)' \in 1..L
                    /\ KvAt(i + 1)' - KvAt(i)' = PagesFor(PackedTotal(i)')
                    /\ QoAt(i + 1)' < T => PackedTotal(i)' >= prompt_length'[request_ids'[i]]
                    /\ Cached(request_ids[i], kv_indices, KvAt(i), step[request_ids[i]])'
                    /\ last_page_len'[i] = LastPageLen(PackedTotal(i)')
                    /\ \A j \in 0..QoAt(i + 1)' - QoAt(i)' - 1 :
                         input_tokens'[QoAt(i)' + j] = <<request_ids'[i], step'[request_ids'[i]] + j>>
  BY DEF PackedSlots
<1>4. i \in 0..R - 1 /\ i < num_reqs + 1
  BY <1>1 DEF Packed, Slots
<1>5. CASE i < num_reqs
  <2>1. Packed(i) /\ i # num_reqs
    BY <1>1, <1>4, <1>5 DEF Packed
  <2>2. /\ Taken(request_ids[i])
        /\ QoAt(i + 1) - QoAt(i) >= 1
        /\ PackedTotal(i) \in 1..L
        /\ KvAt(i + 1) - KvAt(i) = PagesFor(PackedTotal(i))
        /\ QoAt(i + 1) < T => PackedTotal(i) >= prompt_length[request_ids[i]]
        /\ Cached(request_ids[i], kv_indices, KvAt(i), step[request_ids[i]])
        /\ last_page_len[i] = LastPageLen(PackedTotal(i))
        /\ \A j \in 0..QoAt(i + 1) - QoAt(i) - 1 :
             input_tokens[QoAt(i) + j] = <<request_ids[i], step[request_ids[i]] + j>>
    BY <2>1 DEF IInv, PackedSlots
  <2>3. /\ request_ids'[i] = request_ids[i] /\ last_page_len'[i] = last_page_len[i]
        /\ QoAt(i)' = QoAt(i) /\ KvAt(i)' = KvAt(i)
        /\ QoAt(i + 1)' = QoAt(i + 1) /\ KvAt(i + 1)' = KvAt(i + 1)
    <3>1. i \in 0..num_reqs /\ i + 1 \in 0..num_reqs
      BY <1>1, <1>4, <1>5
    <3> QED
      BY <2>1, <3>1, PlacedEntries
  <2>4. PackedTotal(i)' = PackedTotal(i)
    BY <1>2, <2>3 DEF PackedTotal
  <2>5. /\ QoAt(i) \in 0..T /\ QoAt(i + 1) \in 0..T /\ QoAt(i + 1) <= num_tokens
        /\ step[request_ids[i]] \in 0..L
    BY <2>1, PackedSlot
  <2>6. ASSUME NEW j \in 0..QoAt(i + 1) - QoAt(i) - 1
        PROVE  input_tokens'[QoAt(i) + j] = input_tokens[QoAt(i) + j]
    <3>1. QoAt(i) + j \in 0..num_tokens - 1
      BY <1>1, <2>5
    <3> QED
      BY <3>1, PlacedTokens
  <2>7. ASSUME NEW p \in 0..step[request_ids[i]] - 1
        PROVE  kv_indices'[KvAt(i) + (p \div P)] = kv_indices[KvAt(i) + (p \div P)]
    <3>1. p \in 0..PackedTotal(i) - 1
      BY <2>2, <2>5, <2>7 DEF PackedTotal
    <3>2. KvAt(i) + (p \div P) \in 0..num_pages - 1
      BY <2>1, <3>1, PackedPage
    <3> QED
      BY <3>2, PlacedTable, Zenon
  <2>8. Cached(request_ids[i], kv_indices, KvAt(i), step[request_ids[i]])'
    BY <1>2, <2>2, <2>3, <2>7 DEF Cached
  <2>9. Taken(request_ids[i])'
    BY <1>2, <1>3, <2>2, <2>3 DEF Taken
  <2> QED
    BY <1>2, <2>2, <2>3, <2>4, <2>6, <2>8, <2>9
<1>6. CASE i = num_reqs
  <2>1. /\ request_ids'[i] = r /\ last_page_len'[i] = LastPageLen(step[r] + n)
        /\ QoAt(i)' = num_tokens /\ KvAt(i)' = num_pages
        /\ QoAt(i + 1)' = num_tokens + n /\ KvAt(i + 1)' = num_pages + PagesFor(step[r] + n)
    <3>1. i \in 0..num_reqs /\ i + 1 = num_reqs + 1
      BY <1>1, <1>6
    <3> QED
      BY <1>6, <3>1, PlacedEntries
  <2>2. PackedTotal(i)' = step[r] + n
    BY <1>1, <1>2, <2>1 DEF PackedTotal
  <2>3. ASSUME NEW p \in 0..step[r] - 1
        PROVE  kv_indices'[num_pages + (p \div P)] = snapshot[b + (p \div P)]
    <3> DEFINE q == p \div P
    <3>1. q \in 0..PagesFor(step[r]) - 1
      <4>1. step[r] \in Int
        BY <1>1
      <4> QED
        BY <4>1, PageOfToken, Zenon
    <3>2. PagesFor(step[r]) \in Nat
      BY <1>2, PlacedTypes
    <3> HIDE DEF q
    <3>3. num_pages + q \in num_pages..num_pages + Len(kept) - 1 /\ (num_pages + q) - num_pages = q
      BY <1>1, <1>2, <3>1, <3>2
    <3>4. kv_indices'[num_pages + q] = snapshot[b + ((num_pages + q) - num_pages)]
      <4>1. \A x \in num_pages..num_pages + Len(kept) - 1 :
              kv_indices'[x] = snapshot[b + (x - num_pages)]
        BY PlacedTable
      <4> QED
        BY <3>3, <4>1
    <3> QED
      BY <3>3, <3>4 DEF q
  <2>4. Cached(request_ids[i], kv_indices, KvAt(i), step[request_ids[i]])'
    BY <1>2, <2>1, <2>3 DEF Cached
  <2>5. \A j \in 0..n - 1 : input_tokens'[num_tokens + j] = <<r, step[r] + j>>
    BY PlacedTokens
  <2>6. Taken(request_ids[i])'
    <3>1. r \in 0..next_request_id' - 1 /\ r \notin served'
      <4>1. r \in Int /\ 0 <= r
        BY <1>2 DEF Requests
      <4>2. r \in 0..next_request_id' - 1
        <5>1. r < next_request_id' /\ next_request_id' \in Nat
          BY <1>2, Zenon
        <5> QED
          BY <4>1, <5>1, Below, Zenon
      <4>3. r \notin served'
        BY <1>2, Zenon
      <4> QED
        BY <4>2, <4>3
    <3> QED
      BY <2>1, <3>1 DEF Taken
  <2>7. (num_tokens + n) - num_tokens = n /\ n >= 1
        /\ (num_pages + PagesFor(step[r] + n)) - num_pages = PagesFor(step[r] + n)
    BY <1>1
  <2> QED
    BY <1>1, <1>2, <2>1, <2>2, <2>4, <2>5, <2>6, <2>7
<1> QED
  BY <1>1, <1>4, <1>5, <1>6

LEMMA PlacedInputs ==
  ASSUME IInv, NEW r, NEW n, NEW kept, NEW b, Placing(r, n, kept, b)
  PROVE  Inputs'
<1> USE Sizes
<1>1. /\ Compacting /\ Compacting' /\ num_tokens' = num_tokens + n
      /\ num_tokens \in 0..T /\ n \in Nat \ {0} /\ step[r] \in 0..L /\ step[r] + n \in 1..L
  BY PlacedTypes, PlacedEntries
<1>2. /\ step[r]..step[r] + n - 1 \subseteq written[r] /\ r \in Requests
      /\ UNCHANGED <<prompt_length, written>>
  BY DEF Placing
<1>3. \A q \in Requests : 0..prompt_length[q] - 1 \subseteq written[q]
  BY DEF IInv, Inputs
<1>4. ASSUME NEW j \in 0..num_tokens' - 1
      PROVE  /\ input_tokens'[j] \in Requests \X Positions
             /\ input_tokens'[j][2] \in written'[input_tokens'[j][1]]
  <2>1. CASE j < num_tokens
    <3>1. j \in 0..num_tokens - 1
      BY <1>1, <2>1
    <3>2. input_tokens'[j] = input_tokens[j]
      BY <3>1, PlacedTokens
    <3> QED
      BY <1>1, <1>2, <3>1, <3>2 DEF IInv, Inputs
  <2>2. CASE j >= num_tokens
    <3> DEFINE i == j - num_tokens
    <3>1. i \in 0..n - 1 /\ j = num_tokens + i
      BY <1>1, <2>2
    <3>2. input_tokens'[num_tokens + i] = <<r, step[r] + i>>
      BY <3>1, PlacedTokens
    <3>3. step[r] + i \in step[r]..step[r] + n - 1 /\ step[r] + i \in Positions
      BY <1>1, <3>1 DEF Positions
    <3> HIDE DEF i
    <3> QED
      BY <1>2, <3>1, <3>2, <3>3
  <2> QED
    BY <1>1, <2>1, <2>2
<1> QED
  BY <1>1, <1>2, <1>3, <1>4 DEF Inputs

(* Each entry of the tables and the ring takes its page over from one that *)
(* held it before.                                                         *)
LEMMA PlacedApart ==
  ASSUME IInv, NEW r, NEW n, NEW kept, NEW b, Placing(r, n, kept, b)
  PROVE  PagesApart'
<1> USE Sizes
<1> DEFINE len == Len(kept)
           head == page_queue_head
           tail == page_queue_tail
<1>1. /\ Compacting /\ Compacting' /\ num_pages' = num_pages + PagesFor(step[r] + n)
      /\ PagesFor(step[r] + n) \in Nat \ {0} /\ num_pages \in 0..M
      /\ len \in Nat /\ len <= PagesFor(step[r] + n) /\ head \in Nat /\ tail \in Nat
      /\ head' = head + (PagesFor(step[r] + n) - len) /\ head' <= tail
  BY PlacedTypes, PlacedEntries
<1>2. /\ tail' = tail /\ page_queue' = page_queue /\ snapshot' = snapshot
      /\ b \in Int /\ b..b + len - 1 \subseteq OldPositions
      /\ OldPositions' = OldPositions \ (b..b + len - 1)
  BY DEF Placing, Place
<1>3. /\ \A x \in 0..num_pages - 1 : kv_indices'[x] = kv_indices[x]
      /\ \A x \in num_pages..num_pages + len - 1 : kv_indices'[x] = snapshot[b + (x - num_pages)]
      /\ \A x \in num_pages + len..num_pages' - 1 :
           kv_indices'[x] = page_queue[(head + (x - num_pages - len)) % M]
  BY PlacedTable
<1>4. /\ NewPositions = 0..num_pages - 1 /\ NewPositions' = 0..num_pages' - 1
      /\ OldTable = snapshot /\ OldTable' = snapshot
  BY <1>1, <1>2 DEF NewPositions, OldTable
<1> DEFINE Source(kind, x, k0, x0) ==
             IF kind = "new" /\ x >= num_pages + len
               THEN k0 = "free" /\ x0 = head + (x - num_pages - len)
             ELSE IF kind = "new" /\ x >= num_pages THEN k0 = "old" /\ x0 = b + (x - num_pages)
             ELSE k0 = kind /\ x0 = x
<1> HIDE DEF len
<1>5. ASSUME NEW kind \in Kinds, NEW x \in Int, Holds(kind, x)'
      PROVE  \E k0 \in Kinds, x0 \in Int :
               /\ Holds(k0, x0) /\ PageAt(k0, x0) = PageAt(kind, x)'
               /\ Source(kind, x, k0, x0)
  <2>1. CASE kind = "old"
    BY <1>2, <1>4, <1>5, <2>1 DEF Holds, PageAt, Kinds
  <2>2. CASE kind = "new" /\ x < num_pages
    <3>1. x \in 0..num_pages - 1
      BY <1>1, <1>4, <1>5, <2>2 DEF Holds
    <3>2. Holds("new", x) /\ PageAt("new", x) = PageAt(kind, x)'
      BY <1>3, <1>4, <2>2, <3>1 DEF Holds, PageAt
    <3>3. Source(kind, x, "new", x)
      BY <1>1, <2>2
    <3> QED
      BY <3>2, <3>3 DEF Kinds
  <2>3. CASE kind = "new" /\ x >= num_pages /\ x < num_pages + len
    <3> DEFINE y == b + (x - num_pages)
    <3>1. x \in num_pages..num_pages + len - 1 /\ y \in b..b + len - 1 /\ y \in Int
      BY <1>1, <1>2, <2>3
    <3>2. kv_indices'[x] = snapshot[y]
      BY <1>3, <3>1
    <3>3. Holds("old", y) /\ PageAt("old", y) = PageAt(kind, x)'
      BY <1>2, <1>4, <2>3, <3>1, <3>2 DEF Holds, PageAt
    <3>4. Source(kind, x, "old", y)
      BY <1>1, <2>3
    <3> HIDE DEF y
    <3> QED
      BY <3>1, <3>3, <3>4 DEF Kinds
  <2>4. CASE kind = "new" /\ x >= num_pages + len
    <3> DEFINE y == head + (x - num_pages - len)
    <3>1. x \in 0..num_pages' - 1
      BY <1>4, <1>5, <2>4 DEF Holds
    <3>2. x \in num_pages + len..num_pages' - 1 /\ y \in head..tail - 1 /\ y \in Int
      BY <1>1, <2>4, <3>1
    <3>3. kv_indices'[x] = page_queue[y % M]
      BY <1>3, <3>2, Zenon
    <3>4. Holds("free", y) /\ PageAt("free", y) = page_queue[y % M]
      BY <3>2 DEF Holds, PageAt
    <3>5. PageAt(kind, x)' = kv_indices'[x]
      BY <2>4 DEF PageAt
    <3>6. Source(kind, x, "free", y)
      BY <2>4
    <3> HIDE DEF y
    <3> QED
      BY <3>2, <3>3, <3>4, <3>5, <3>6 DEF Kinds
  <2>5. CASE kind = "free"
    <3>1. x \in head'..tail' - 1
      BY <1>5, <2>5 DEF Holds
    <3>2. x \in head..tail - 1
      BY <1>1, <1>2, <3>1
    <3>3. Holds("free", x) /\ PageAt("free", x) = page_queue[x % M]
      BY <3>2 DEF Holds, PageAt
    <3>4. PageAt(kind, x)' = page_queue'[x % M]
      BY <2>5 DEF PageAt
    <3>5. Source(kind, x, "free", x)
      BY <2>5
    <3> QED
      BY <1>2, <3>3, <3>4, <3>5 DEF Kinds
  <2> QED
    BY <1>1, <2>1, <2>2, <2>3, <2>4, <2>5 DEF Kinds
<1>6. ASSUME NEW k1 \in Kinds, NEW x1 \in Int, Holds(k1, x1)',
             NEW k2 \in Kinds, NEW x2 \in Int, Holds(k2, x2)',
             NEW k0 \in Kinds, NEW x0 \in Int, Source(k1, x1, k0, x0), Source(k2, x2, k0, x0)
      PROVE  k1 = k2 /\ x1 = x2
  <2>1. ASSUME NEW x \in Int, Holds("old", x)' PROVE x \notin b..b + len - 1
    BY <1>2, <2>1 DEF Holds
  <2>2. ASSUME NEW x \in Int, x >= num_pages, ~(x >= num_pages + len)
        PROVE  b + (x - num_pages) \in b..b + len - 1
    BY <1>1, <1>2, <2>2
  <2>3. ASSUME NEW x \in Int, Holds("free", x)' PROVE x >= head'
    BY <1>1, <2>3 DEF Holds
  <2>4. ASSUME NEW x \in Int, Holds("new", x)' PROVE head + (x - num_pages - len) < head'
    <3>1. x < num_pages'
      BY <1>1, <1>4, <2>4 DEF Holds
    <3> QED
      BY <1>1, <3>1
  <2> QED
    BY <1>1, <1>2, <1>6, <2>1, <2>2, <2>3, <2>4
<1> HIDE DEF Source
<1>7. ASSUME NEW k1 \in Kinds, NEW x1 \in Int, Holds(k1, x1)',
             NEW k2 \in Kinds, NEW x2 \in Int, Holds(k2, x2)',
             PageAt(k1, x1)' = PageAt(k2, x2)'
      PROVE  k1 = k2 /\ x1 = x2
  <2>1. PICK a0 \in Kinds, y1 \in Int :
          Holds(a0, y1) /\ PageAt(a0, y1) = PageAt(k1, x1)' /\ Source(k1, x1, a0, y1)
    BY <1>5, <1>7, Zenon
  <2>2. PICK b0 \in Kinds, y2 \in Int :
          Holds(b0, y2) /\ PageAt(b0, y2) = PageAt(k2, x2)' /\ Source(k2, x2, b0, y2)
    BY <1>5, <1>7, Zenon
  <2>3. a0 = b0 /\ y1 = y2
    BY <1>7, <2>1, <2>2, Zenon DEF IInv, PagesApart
  <2> QED
    BY <1>6, <1>7, <2>1, <2>2, <2>3, Zenon
<1> QED
  BY <1>7 DEF PagesApart

LEMMA PlacedLayout ==
  ASSUME IInv, NEW r, NEW n, NEW kept, NEW b, Placing(r, n, kept, b)
  PROVE  /\ KvAt(0)' = 0
         /\ \A i, j \in 0..num_reqs' : i <= j =>
              /\ QoAt(i)' <= QoAt(j)'
              /\ KvAt(i)' <= KvAt(j)'
              /\ KvAt(j)' - KvAt(i)' <= (j - i) * C
<1> USE Sizes
<1> DEFINE k == num_reqs
           total == PagesFor(step[r] + n)
<1>1. /\ k \in 0..R - 1 /\ k' = k + 1 /\ num_tokens \in 0..T /\ n \in Nat \ {0}
      /\ num_pages \in 0..M /\ total \in Nat \ {0} /\ total <= C /\ Compacting
      /\ \A i \in 0..k : QoAt(i)' = QoAt(i) /\ KvAt(i)' = KvAt(i)
      /\ QoAt(k) = num_tokens /\ KvAt(k) = num_pages
  BY PlacedTypes, PlacedEntries
<1>2. \A i : i = k + 1 => QoAt(i)' = num_tokens + n /\ KvAt(i)' = num_pages + total
  BY PlacedEntries
<1>3. /\ KvAt(0) = 0
      /\ \A i, j \in 0..k : i <= j =>
           QoAt(i) <= QoAt(j) /\ KvAt(i) <= KvAt(j) /\ KvAt(j) - KvAt(i) <= (j - i) * C
  BY <1>1 DEF IInv, Layout
<1>4. \A i \in 0..k : QoAt(i) \in 0..T /\ KvAt(i) \in 0..M
  BY <1>1 DEF QoAt, KvAt, IInv, TypeOK
<1>5. C \in Nat
  BY PagesPositive DEF C
<1> HIDE DEF k, total
<1>6. ASSUME NEW i \in 0..k, NEW j, j = k + 1
      PROVE  /\ QoAt(i)' <= QoAt(j)' /\ KvAt(i)' <= KvAt(j)'
             /\ KvAt(j)' - KvAt(i)' <= (j - i) * C
  <2>1. i \in Int /\ i <= k /\ k \in 0..k
    BY <1>1
  <2>2. QoAt(i) <= num_tokens /\ KvAt(i) <= num_pages /\ num_pages - KvAt(i) <= (k - i) * C
    BY <1>1, <1>3, <2>1
  <2>3. (j - i) * C = (k - i) * C + C /\ (k - i) * C \in Int
    BY <1>1, <1>5, <1>6, <2>1
  <2>4. /\ QoAt(i)' = QoAt(i) /\ KvAt(i)' = KvAt(i)
        /\ QoAt(j)' = num_tokens + n /\ KvAt(j)' = num_pages + total
    BY <1>1, <1>2, <1>6
  <2>5. QoAt(i) \in Int /\ KvAt(i) \in Int /\ num_tokens \in Int /\ num_pages \in Int
    BY <1>1, <1>4
  <2> DEFINE d == (k - i) * C
             e == (j - i) * C
  <2>6. d \in Int /\ e = d + C /\ num_pages - KvAt(i) <= d
    BY <2>2, <2>3
  <2> HIDE DEF d, e
  <2>7. QoAt(i) <= num_tokens + n /\ KvAt(i) <= num_pages + total
        /\ (num_pages + total) - KvAt(i) <= e
    BY <1>1, <1>5, <2>2, <2>5, <2>6
  <2> QED
    BY <2>4, <2>7 DEF e
<1>7. KvAt(0)' = 0
  BY <1>1, <1>3
<1>8. ASSUME NEW i \in 0..num_reqs', NEW j \in 0..num_reqs', i <= j
      PROVE  /\ QoAt(i)' <= QoAt(j)' /\ KvAt(i)' <= KvAt(j)'
             /\ KvAt(j)' - KvAt(i)' <= (j - i) * C
  <2>1. k' = k + 1 /\ num_reqs' = k + 1
    BY <1>1 DEF k
  <2>2. CASE j \in 0..k
    <3>1. i \in 0..k
      BY <1>1, <1>8, <2>1, <2>2
    <3> QED
      BY <1>1, <1>3, <1>8, <2>2, <3>1
  <2>3. CASE i \in 0..k /\ j = k + 1
    BY <1>6, <2>3
  <2>4. CASE i = k + 1 /\ j = k + 1
    <3>1. QoAt(i)' = num_tokens + n /\ KvAt(i)' = num_pages + total /\ i = j
      BY <1>2, <2>4
    <3>2. (j - i) * C = 0 /\ i \in Int
      BY <1>1, <1>5, <2>4
    <3> QED
      BY <1>1, <3>1, <3>2
  <2> QED
    BY <1>1, <1>8, <2>1, <2>2, <2>3, <2>4
<1> QED
  BY <1>7, <1>8

LEMMA PlacedCount ==
  ASSUME IInv, NEW r, NEW n, NEW kept, NEW b, Placing(r, n, kept, b)
  PROVE  PageCount'
<1> USE Sizes
<1>1. /\ num_reqs \in 0..R - 1 /\ num_reqs' = num_reqs + 1 /\ Compacting /\ Compacting'
      /\ num_pages \in 0..M /\ num_pages' = num_pages + PagesFor(step[r] + n)
      /\ PagesFor(step[r] + n) \in Nat
      /\ KvAt(num_reqs) = num_pages /\ num_reqs \in Slots
  BY PlacedTypes, PlacedEntries
<1>2. FreeCount' \in Nat /\ FreeCount' + Cardinality(OldPositions') + num_pages' = M
  BY PlacedTypes
<1>3. \A i \in 0..num_reqs : KvAt(i)' = KvAt(i)
  BY PlacedEntries
<1>4. \A i : i = num_reqs + 1 => KvAt(i)' = num_pages + PagesFor(step[r] + n)
  BY PlacedEntries
<1>5. ASSUME NEW x \in 0..num_pages' - 1
      PROVE  \E i \in Slots : i < num_reqs' /\ KvAt(i)' <= x /\ x < KvAt(i + 1)'
  <2>1. CASE x < num_pages
    <3>1. x \in 0..num_pages - 1
      BY <1>1, <2>1
    <3>2. PICK i \in Slots : i < num_reqs /\ KvAt(i) <= x /\ x < KvAt(i + 1)
      BY <1>1, <3>1 DEF IInv, PageCount
    <3>3. i \in 0..num_reqs /\ i + 1 \in 0..num_reqs /\ i < num_reqs'
      BY <1>1, <3>2 DEF Slots
    <3>4. KvAt(i)' = KvAt(i) /\ KvAt(i + 1)' = KvAt(i + 1)
      BY <1>3, <3>3
    <3> QED
      BY <3>2, <3>3, <3>4
  <2>2. CASE x >= num_pages
    <3> SUFFICES ASSUME NEW i \in Slots, i = num_reqs
                 PROVE  i < num_reqs' /\ KvAt(i)' <= x /\ x < KvAt(i + 1)'
      BY <1>1
    <3>1. i \in 0..num_reqs /\ i + 1 = num_reqs + 1 /\ i < num_reqs'
      BY <1>1
    <3>2. KvAt(i)' = num_pages /\ KvAt(i + 1)' = num_pages'
      BY <1>1, <1>3, <1>4, <3>1
    <3> QED
      BY <1>1, <2>2, <3>1, <3>2
  <2> QED
    BY <1>1, <2>1, <2>2
<1>6. pc' = "compact"
  BY DEF Placing
<1> QED
  BY <1>1, <1>2, <1>5, <1>6 DEF PageCount
------------------------------------------------------------------------------
(* Compaction: a request moves down, and there are pages for it because    *)
(* those after it still lie within their old share.                        *)
LEMMA CompactBasics ==
  ASSUME IInv, Compact
  PROVE  /\ Compacting /\ Compacting' /\ slot \in Slots /\ Old(slot) /\ slot' = slot + 1
         /\ slot \in 0..R - 1 /\ num_reqs \in 0..slot /\ FirstOld = slot /\ FirstOld' = slot + 1
         /\ Advanced(slot) /\ Total(slot) = step[request_ids[slot]]
         /\ request_ids' = [request_ids EXCEPT ![num_reqs] = request_ids[slot]]
         /\ \A i \in 0..R : i > slot => qo_indptr'[i] = qo_indptr[i] /\ kv_indptr'[i] = kv_indptr[i]
         /\ \A i \in Slots : Old(i)' <=> Old(i) /\ i # slot
         /\ \A i \in Slots : Old(i)' => i > slot /\ request_ids'[i] = request_ids[i]
         /\ num_tokens <= qo_indptr[slot]
<1> USE Sizes
<1>1. /\ pc = "compact" /\ pc' = "compact" /\ slot \in Slots /\ request_ids[slot] # None
      /\ slot' = slot + 1
      /\ request_ids' = [request_ids EXCEPT ![num_reqs] = request_ids[slot]]
      /\ qo_indptr' = [qo_indptr EXCEPT ![num_reqs] = num_tokens]
      /\ kv_indptr' = [kv_indptr EXCEPT ![num_reqs] = num_pages]
  BY DEF Compact, Place
<1>2. slot \in 0..R - 1 /\ num_reqs \in 0..R
  BY <1>1 DEF IInv, TypeOK, Slots
<1>3. Compacting /\ Compacting' /\ Old(slot) /\ FirstOld = slot /\ FirstOld' = slot + 1
  BY <1>1, <1>2 DEF Compacting, Old, FirstOld
<1>4. num_reqs <= slot /\ num_tokens <= qo_indptr[slot]
  BY <1>2, <1>3 DEF IInv, Layout
<1>5. /\ qo_indptr \in [0..R -> 0..T] /\ kv_indptr \in [0..R -> 0..M]
      /\ request_ids \in [Slots -> Requests \cup {None}]
  BY DEF IInv, TypeOK
<1>6. \A i \in 0..R : i > slot => qo_indptr'[i] = qo_indptr[i] /\ kv_indptr'[i] = kv_indptr[i]
  BY <1>1, <1>2, <1>4, <1>5
<1>7. \A i \in Slots : i > slot => request_ids'[i] = request_ids[i]
  BY <1>1, <1>2, <1>4, <1>5 DEF Slots
<1>8. \A i \in Slots : i \in Int /\ (i >= slot + 1 <=> i >= slot /\ i # slot) /\ (i >= slot + 1 <=> i > slot)
  BY <1>2 DEF Slots
<1>9. \A i \in Slots : Old(i)' <=> Old(i) /\ i # slot
  BY <1>1, <1>3, <1>7, <1>8 DEF Old
<1>10. \A i \in Slots : Old(i)' => i > slot /\ request_ids'[i] = request_ids[i]
  BY <1>1, <1>3, <1>7, <1>8 DEF Old
<1>11. Advanced(slot) /\ Total(slot) = step[request_ids[slot]]
  BY <1>3 DEF Advanced, Total
<1> QED
  BY <1>1, <1>2, <1>3, <1>4, <1>6, <1>9, <1>10, <1>11

LEMMA CompactPositions ==
  ASSUME IInv, Compact
  PROVE  /\ OldPositions' = OldPositions \ (kv_indptr[slot]..kv_indptr[slot + 1] - 1)
         /\ kv_indptr[slot]..kv_indptr[slot + 1] - 1 \subseteq OldPositions
         /\ Cardinality(OldPositions') = Cardinality(OldPositions) - BatchPages(slot)
         /\ Cardinality(OldPositions') <= (R - slot - 1) * C
<1> USE Sizes
<1> DEFINE k == kv_indptr[slot]
           e == kv_indptr[slot + 1]
           last == kv_indptr[R]
<1>1. /\ Compacting /\ slot \in Slots /\ Old(slot) /\ slot \in 0..R - 1 /\ FirstOld = slot
      /\ \A i \in 0..R : i > slot => kv_indptr'[i] = kv_indptr[i]
      /\ \A i \in Slots : Old(i)' <=> Old(i) /\ i # slot
      /\ \A i \in Slots : Old(i)' => i > slot
  BY CompactBasics
<1>2. /\ k \in 0..M /\ e \in 0..M /\ last \in 0..M /\ k <= e /\ e <= last
  BY <1>1, OldSlot
<1>3. kv_indptr'[R] = last
  BY <1>1
<1>4. \A i \in Slots : Old(i)' => kv_indptr'[i] = kv_indptr[i] /\ kv_indptr'[i + 1] = kv_indptr[i + 1]
  <2> SUFFICES ASSUME NEW i \in Slots, Old(i)'
               PROVE  kv_indptr'[i] = kv_indptr[i] /\ kv_indptr'[i + 1] = kv_indptr[i + 1]
    OBVIOUS
  <2>1. i > slot
    BY <1>1
  <2>2. i \in 0..R /\ i + 1 \in 0..R /\ i > slot /\ i + 1 > slot
    BY <1>1, <2>1 DEF Slots
  <2> QED
    BY <1>1, <2>2
<1>5. ASSUME NEW x \in 0..last - 1
      PROVE  x \in OldPositions' <=> x \in OldPositions /\ x \notin k..e - 1
  <2>1. ASSUME NEW i \in Slots, Old(i), i # slot, kv_indptr[i] <= x, x < kv_indptr[i + 1]
        PROVE  x \notin k..e - 1
    <3>1. x \in Int
      BY <1>2
    <3>2. ~(k <= x /\ x < e)
      BY <1>1, <2>1, <3>1, OldApart
    <3> QED
      BY <1>2, <3>1, <3>2
  <2>2. x \notin k..e - 1 => ~(k <= x /\ x < e)
    BY <1>2
  <2> QED
    BY <1>1, <1>3, <1>4, <2>1, <2>2 DEF OldPositions
<1>6. OldPositions' \subseteq 0..last - 1 /\ OldPositions \subseteq 0..last - 1
  BY <1>3 DEF OldPositions
<1>7. k..e - 1 \subseteq OldPositions
  BY <1>1, <1>2 DEF OldPositions
<1>8. OldPositions' = OldPositions \ (k..e - 1)
  BY <1>5, <1>6
<1>9. Cardinality(OldPositions') = Cardinality(OldPositions) - BatchPages(slot)
  BY <1>1, <1>8, SlotPositions
<1>10. Cardinality(OldPositions') <= (R - slot - 1) * C
  <2>1. OldPositions' \subseteq e..last - 1
    <3> SUFFICES ASSUME NEW x \in OldPositions' PROVE x \in e..last - 1
      OBVIOUS
    <3>1. x \in 0..last - 1
      BY <1>6
    <3>2. PICK i \in Slots : Old(i)' /\ kv_indptr'[i] <= x
      BY DEF OldPositions
    <3>3. kv_indptr[i] <= x /\ Old(i) /\ i > slot
      BY <1>1, <1>4, <3>2
    <3>4. kv_indptr[i] \in 0..M /\ i \in FirstOld..R /\ i \in 0..R - 1
      BY <3>3, OldSlot
    <3>5. e <= kv_indptr[i]
      <4>1. slot + 1 \in FirstOld..R /\ slot + 1 <= i
        BY <1>1, <3>3, <3>4
      <4> QED
        BY <3>4, <4>1, Zenon DEF IInv, Layout
    <3> QED
      BY <1>2, <3>1, <3>3, <3>4, <3>5
  <2>2. e \in Int /\ last - 1 \in Int
    BY <1>2
  <2>3. IsFiniteSet(e..last - 1) /\ Cardinality(e..last - 1) = last - e
    <3>1. /\ IsFiniteSet(e..last - 1)
          /\ Cardinality(e..last - 1) = IF e > last - 1 THEN 0 ELSE (last - 1) - e + 1
      BY <2>2, FS_Interval
    <3> QED
      BY <1>2, <3>1
  <2>4. Cardinality(OldPositions') <= last - e /\ Cardinality(OldPositions') \in Nat
    BY <2>1, <2>3, FS_Subset, FS_CardinalityType
  <2>5. last - e <= (R - (slot + 1)) * C
    <3>1. slot + 1 \in FirstOld..R /\ R \in FirstOld..R /\ slot + 1 <= R
      BY <1>1
    <3> QED
      BY <3>1, Zenon DEF IInv, Layout
  <2>6. R - (slot + 1) = R - slot - 1
    BY <1>1
  <2> DEFINE d == (R - slot - 1) * C
  <2>7. d \in Int /\ last - e <= d
    <3>1. C \in Nat
      BY PagesPositive DEF C
    <3> QED
      BY <1>1, <2>5, <2>6, <3>1
  <2> HIDE DEF d
  <2>8. Cardinality(OldPositions') <= d
    BY <1>2, <2>4, <2>7
  <2> QED
    BY <2>8 DEF d
<1> QED
  BY <1>7, <1>8, <1>9, <1>10

Wanted(r) == IF prompt_length[r] - step[r] > 0 THEN prompt_length[r] - step[r] ELSE 1

(* Every request that is packed gets a token: the requests packed before   *)
(* it have no more tokens than they had in the last batch, unless this one *)
(* was at the end of the budget.                                           *)
LEMMA CompactTokens ==
  ASSUME IInv, Compact, NEW r, r = request_ids[slot],
         NEW n, n = AtMost(Wanted(r), TokensLeft)
  PROVE  /\ n \in Nat \ {0} /\ step[r] + n <= L /\ num_tokens + n <= T
         /\ num_tokens + n < T => step[r] + n >= prompt_length[r]
         /\ step[r]..step[r] + n - 1 \subseteq written[r]
         /\ slot + 1 < R => num_tokens + n <= qo_indptr[slot + 1]
<1> USE Sizes
<1>1. /\ slot \in Slots /\ Old(slot) /\ Advanced(slot) /\ Total(slot) = step[r]
      /\ slot \in 0..R - 1 /\ num_tokens <= qo_indptr[slot]
  BY CompactBasics
<1>2. /\ r \in Requests /\ step[r] \in 0..L /\ prompt_length[r] \in 1..L
      /\ qo_indptr[slot] \in 0..T /\ qo_indptr[slot + 1] \in 0..T
      /\ qo_indptr[slot] < qo_indptr[slot + 1] /\ num_tokens \in 0..T
  BY <1>1, OldSlot DEF IInv, TypeOK
<1>3. /\ qo_indptr[slot + 1] < T => step[r] >= prompt_length[r]
      /\ step[r] + 1 < L
      /\ step[r] < prompt_length[r] \/ step[r] \in written[r]
  BY <1>1 DEF IInv, OldSlots
<1>4. 0..prompt_length[r] - 1 \subseteq written[r]
  BY <1>2 DEF IInv, Inputs
<1>5. /\ n = IF Wanted(r) <= T - num_tokens THEN Wanted(r) ELSE T - num_tokens
      /\ Wanted(r) = IF prompt_length[r] - step[r] > 0 THEN prompt_length[r] - step[r] ELSE 1
  BY DEF AtMost, TokensLeft, Wanted
<1>6. n \in Nat \ {0} /\ step[r] + n <= L /\ num_tokens + n <= T
  BY <1>1, <1>2, <1>3, <1>5
<1>7. num_tokens + n < T => step[r] + n >= prompt_length[r]
  BY <1>1, <1>2, <1>5
<1>8. slot + 1 < R => num_tokens + n <= qo_indptr[slot + 1]
  BY <1>1, <1>2, <1>3, <1>5
<1>9. ASSUME NEW p \in step[r]..step[r] + n - 1 PROVE p \in written[r]
  <2>1. CASE step[r] < prompt_length[r]
    <3>1. p \in 0..prompt_length[r] - 1
      BY <1>2, <1>5, <1>6, <2>1
    <3> QED
      BY <1>4, <3>1
  <2>2. CASE step[r] >= prompt_length[r]
    <3>1. p = step[r]
      BY <1>2, <1>5, <1>6, <2>2
    <3> QED
      BY <1>2, <1>3, <2>2, <3>1
  <2> QED
    BY <1>2, <2>1, <2>2
<1> QED
  BY <1>6, <1>7, <1>8, <1>9

LEMMA CompactPlacing ==
  ASSUME IInv, Compact, NEW r, r = request_ids[slot],
         NEW n, n = AtMost(Wanted(r), TokensLeft)
  PROVE  Placing(r, n, KeptPages(slot), kv_indptr[slot])
<1> USE Sizes
<1> DEFINE kept == KeptPages(slot)
           b == kv_indptr[slot]
<1>1. /\ slot \in Slots /\ Old(slot) /\ Advanced(slot) /\ Total(slot) = step[r] /\ Compacting
      /\ slot \in 0..R - 1 /\ num_reqs \in 0..slot
  BY CompactBasics
<1>2. /\ r \in Requests /\ b \in 0..M /\ kv_indptr[slot + 1] \in 0..M /\ b <= kv_indptr[slot + 1]
      /\ step[r] \in 0..L
  BY <1>1, OldSlot
<1>3. /\ Place(r, step[r], n, kept) /\ pc = "compact"
      /\ UNCHANGED <<prompt_length, step, written, snapshot, kv_cache, pc, served>>
      /\ next_request_id' = next_request_id
  BY DEF Compact, Wanted
<1>4. /\ n \in Nat \ {0} /\ step[r] + n <= L /\ num_tokens + n <= T
      /\ num_tokens + n < T => step[r] + n >= prompt_length[r]
      /\ step[r]..step[r] + n - 1 \subseteq written[r]
  BY CompactTokens
<1>5. BatchPages(slot) = PagesFor(step[r]) /\ Cached(r, snapshot, b, step[r]) /\ Taken(r)
  <2>1. /\ BatchPages(slot) = PagesFor(Total(slot)) /\ Taken(r)
        /\ Cached(r, OldTable, b, IF pc = "run" THEN step[r] ELSE Total(slot))
    BY <1>1 DEF IInv, OldSlots
  <2> QED
    BY <1>1, <1>3, <2>1 DEF OldTable
<1>6. BatchPages(slot) = kv_indptr[slot + 1] - b /\ BatchPages(slot) \in Nat
  BY <1>2 DEF BatchPages
<1>7. Len(kept) = BatchPages(slot) /\ \A j \in 1..BatchPages(slot) : kept[j] = snapshot[b + j - 1]
  BY <1>6 DEF KeptPages
<1> HIDE DEF kept
<1>8. ASSUME NEW x \in b..b + Len(kept) - 1 PROVE kept[x - b + 1] = snapshot[x]
  <2>1. x - b + 1 \in 1..BatchPages(slot) /\ b + (x - b + 1) - 1 = x
    BY <1>2, <1>6, <1>7
  <2> QED
    BY <1>7, <2>1
<1>9. b + Len(kept) = kv_indptr[slot + 1]
  BY <1>2, <1>6, <1>7
<1>10. /\ OldPositions' = OldPositions \ (b..b + Len(kept) - 1)
       /\ b..b + Len(kept) - 1 \subseteq OldPositions
       /\ Cardinality(OldPositions') = Cardinality(OldPositions) - Len(kept)
       /\ Cardinality(OldPositions') <= (R - slot - 1) * C
  <2>1. /\ OldPositions' = OldPositions \ (b..kv_indptr[slot + 1] - 1)
        /\ b..kv_indptr[slot + 1] - 1 \subseteq OldPositions
        /\ Cardinality(OldPositions') = Cardinality(OldPositions) - BatchPages(slot)
        /\ Cardinality(OldPositions') <= (R - slot - 1) * C
    BY CompactPositions
  <2>2. b..b + Len(kept) - 1 = b..kv_indptr[slot + 1] - 1
    <3>1. b + (Len(kept) - 1) = kv_indptr[slot + 1] - 1
      BY <1>2, <1>6, <1>7
    <3> QED
      BY <3>1, Zenon
  <2> QED
    BY <1>7, <2>1, <2>2
<1>11. num_pages + PagesFor(step[r] + n) + Cardinality(OldPositions') <= M
  <2>1. num_pages <= num_reqs * C
    <3>1. /\ KvAt(0) = 0 /\ 0 \in 0..num_reqs /\ num_reqs \in 0..num_reqs /\ 0 <= num_reqs
          /\ KvAt(num_reqs) = num_pages
      BY <1>1 DEF IInv, Layout, KvAt
    <3>2. KvAt(num_reqs) - KvAt(0) <= (num_reqs - 0) * C
      BY <1>1, <3>1, Zenon DEF IInv, Layout
    <3>3. num_reqs - 0 = num_reqs /\ num_pages \in Nat
      BY <1>1 DEF IInv, TypeOK
    <3> QED
      BY <3>1, <3>2, <3>3
  <2>2. PagesFor(step[r] + n) <= C /\ PagesFor(step[r] + n) \in Nat
    <3>1. step[r] + n \in Int /\ L \in Int /\ step[r] + n <= L /\ step[r] + n \in Nat \ {0}
      BY <1>2, <1>4
    <3> QED
      BY <3>1, PagesMonotone, PagesPositive, Zenon DEF C
  <2>3. C \in Nat
    BY PagesPositive DEF C
  <2> DEFINE k == num_reqs * C
             d == (R - slot - 1) * C
             all == R * C
  <2>4. k \in Int /\ d \in Int /\ all \in Int
    BY <1>1, <2>3
  <2>5. k + C + d <= all
    <3>1. (num_reqs + 1 + (R - slot - 1)) * C <= R * C
      <4>1. num_reqs + 1 + (R - slot - 1) \in Int /\ R \in Int
            /\ num_reqs + 1 + (R - slot - 1) <= R
        BY <1>1
      <4> QED
        BY <2>3, <4>1, Product
    <3>2. (num_reqs + 1 + (R - slot - 1)) * C = num_reqs * C + C + (R - slot - 1) * C
      <4> DEFINE u == R - slot - 1
      <4>1. u \in Int /\ num_reqs \in Int
        BY <1>1
      <4> HIDE DEF u
      <4> QED
        BY <2>3, <4>1 DEF u
    <3> QED
      BY <3>1, <3>2
  <2> HIDE DEF k, d, all
  <2>6. num_pages <= k /\ Cardinality(OldPositions') <= d /\ all <= M
    BY <1>10, <2>1, EnoughPages DEF k, d, all
  <2>7. num_pages \in Int /\ Cardinality(OldPositions') \in Int
    <3>1. IsFiniteSet(OldPositions') /\ Cardinality(OldPositions) \in Nat /\ Len(kept) \in Nat
      BY <1>6, <1>7, <1>10, OldFinite, FS_Difference DEF IInv
    <3> QED
      BY <1>10, <3>1 DEF IInv, TypeOK
  <2> QED
    BY <2>2, <2>3, <2>4, <2>5, <2>6, <2>7
<1>12. /\ next_request_id' \in Nat /\ next_request_id <= next_request_id'
       /\ r < next_request_id' /\ r \notin served
  <2>1. next_request_id \in Nat
    BY DEF IInv, TypeOK
  <2> QED
    BY <1>3, <1>5, <2>1 DEF Taken
<1>13. \A i \in Slots : Packed(i) => request_ids[i] # r
  <2>1. \A i \in Slots : Packed(i) => i # slot
    BY <1>1 DEF Packed
  <2> QED
    BY <1>1, <2>1 DEF IInv, Occupancy
<1>14. num_reqs < R /\ b \in Int
  BY <1>1, <1>2
<1>15. Len(kept) = PagesFor(step[r])
  BY <1>5, <1>7
<1> QED
  BY <1>2, <1>3, <1>4, <1>5, <1>8, <1>10, <1>11, <1>12, <1>13, <1>14, <1>15
     DEF Placing, kept

LEMMA CompactStep == IInv /\ Compact => IInv'
<1> SUFFICES ASSUME IInv, Compact PROVE IInv'
  OBVIOUS
<1> USE Sizes
<1> DEFINE r == request_ids[slot]
           n == AtMost(Wanted(r), TokensLeft)
           kept == KeptPages(slot)
           b == kv_indptr[slot]
<1>1. Placing(r, n, kept, b)
  BY CompactPlacing
<1>2. /\ Compacting /\ Compacting' /\ slot \in Slots /\ Old(slot) /\ slot' = slot + 1
      /\ slot \in 0..R - 1 /\ num_reqs \in 0..slot /\ FirstOld = slot /\ FirstOld' = slot + 1
      /\ \A i \in 0..R : i > slot => qo_indptr'[i] = qo_indptr[i] /\ kv_indptr'[i] = kv_indptr[i]
      /\ \A i \in Slots : Old(i)' <=> Old(i) /\ i # slot
      /\ \A i \in Slots : Old(i)' => i > slot /\ request_ids'[i] = request_ids[i]
  BY CompactBasics
<1>3. /\ num_reqs' = num_reqs + 1 /\ request_ids'[num_reqs] = r
      /\ \A i \in Slots : i # num_reqs => request_ids'[i] = request_ids[i]
      /\ num_tokens' = num_tokens + n /\ num_reqs \in Slots
  <2> HIDE DEF r, n, kept, b
  <2> QED
    BY <1>1, PlacedEntries, PlacedTypes
<1>4. slot + 1 < R => num_tokens + n <= qo_indptr[slot + 1]
  BY CompactTokens
<1>5. UNCHANGED <<prompt_length, step, written, snapshot, kv_cache, pc, served, next_request_id>>
  BY DEF Compact
<1>6. next_request_id \in 0..TotalRequests /\ next_request_id \in Nat
  BY DEF IInv, TypeOK
<1> HIDE DEF r, n, kept, b
<1>7. TypeOK'
  <2>1. next_request_id' \in 0..TotalRequests /\ slot' \in 0..R
    BY <1>2, <1>5, <1>6
  <2> QED
    BY <1>1, <2>1, PlacedTypeOK
<1>8. Layout'
  <2>1. \A i, j \in slot + 1..R : i <= j =>
          /\ qo_indptr'[i] <= qo_indptr'[j]
          /\ kv_indptr'[i] <= kv_indptr'[j]
          /\ kv_indptr'[j] - kv_indptr'[i] <= (j - i) * C
    <3>1. \A i \in slot + 1..R : i \in FirstOld..R /\ i \in 0..R /\ i > slot
      BY <1>2
    <3>2. \A i \in slot + 1..R : qo_indptr'[i] = qo_indptr[i] /\ kv_indptr'[i] = kv_indptr[i]
      BY <1>2, <3>1
    <3>3. \A i, j \in slot + 1..R : i <= j =>
            /\ qo_indptr[i] <= qo_indptr[j]
            /\ kv_indptr[i] <= kv_indptr[j]
            /\ kv_indptr[j] - kv_indptr[i] <= (j - i) * C
      BY <3>1, Zenon DEF IInv, Layout
    <3> QED
      BY <3>2, <3>3
  <2>2. num_reqs' <= slot'
    BY <1>2, <1>3
  <2>3. slot' < R => num_tokens' <= qo_indptr'[slot']
    BY <1>2, <1>3, <1>4
  <2>4. /\ KvAt(0)' = 0
        /\ \A i, j \in 0..num_reqs' : i <= j =>
             QoAt(i)' <= QoAt(j)' /\ KvAt(i)' <= KvAt(j)' /\ KvAt(j)' - KvAt(i)' <= (j - i) * C
    BY <1>1, PlacedLayout
  <2> QED
    BY <1>2, <2>1, <2>2, <2>3, <2>4 DEF Layout
<1>9. OldSlots'
  <2> SUFFICES ASSUME NEW i \in Slots, Old(i)'
               PROVE  /\ Taken(request_ids[i])'
                      /\ BatchTokens(i)' >= 1 /\ Total(i)' \in 1..L
                      /\ BatchPages(i)' = PagesFor(Total(i)')
                      /\ qo_indptr'[i + 1] < T => Total(i)' >= prompt_length'[request_ids'[i]]
                      /\ Advanced(i)' => /\ step'[request_ids'[i]] + 1 < L
                                         /\ \/ step'[request_ids'[i]] < prompt_length'[request_ids'[i]]
                                            \/ step'[request_ids'[i]] \in written'[request_ids'[i]]
                      /\ Cached(request_ids[i], OldTable, kv_indptr[i], Total(i))'
    <3>1. pc' # "run"
      BY <1>2 DEF Compacting
    <3> QED
      BY <3>1 DEF OldSlots
  <2>1. /\ Old(i) /\ i > slot /\ request_ids'[i] = request_ids[i]
        /\ qo_indptr'[i] = qo_indptr[i] /\ qo_indptr'[i + 1] = qo_indptr[i + 1]
        /\ kv_indptr'[i] = kv_indptr[i] /\ kv_indptr'[i + 1] = kv_indptr[i + 1]
    <3>1. Old(i) /\ i > slot /\ request_ids'[i] = request_ids[i]
      BY <1>2
    <3>2. i \in 0..R /\ i + 1 \in 0..R /\ i + 1 > slot
      BY <1>2, <3>1 DEF Slots
    <3> QED
      BY <1>2, <3>1, <3>2
  <2>2. /\ BatchTokens(i)' = BatchTokens(i) /\ BatchPages(i)' = BatchPages(i)
        /\ Advanced(i) /\ Advanced(i)' /\ Total(i)' = Total(i) /\ OldTable' = OldTable
        /\ pc # "run"
    BY <1>2, <1>5, <2>1 DEF BatchTokens, BatchPages, Advanced, Total, OldTable, Compacting
  <2>3. /\ Taken(request_ids[i]) /\ BatchTokens(i) >= 1 /\ Total(i) \in 1..L
        /\ BatchPages(i) = PagesFor(Total(i))
        /\ qo_indptr[i + 1] < T => Total(i) >= prompt_length[request_ids[i]]
        /\ step[request_ids[i]] + 1 < L
        /\ \/ step[request_ids[i]] < prompt_length[request_ids[i]]
           \/ step[request_ids[i]] \in written[request_ids[i]]
        /\ Cached(request_ids[i], OldTable, kv_indptr[i], Total(i))
    BY <2>1, <2>2 DEF IInv, OldSlots
  <2> QED
    BY <1>5, <2>1, <2>2, <2>3 DEF Taken, Cached
<1>10. PackedSlots' /\ Inputs' /\ PagesApart' /\ PageCount'
  BY <1>1, PlacedPacked, PlacedInputs, PlacedApart, PlacedCount
<1>11. Occupancy'
  <2>1. \A i \in Slots : Packed(i)' <=> Packed(i) \/ i = num_reqs
    BY <1>2, <1>3 DEF Packed, Slots
  <2>2. \A i \in Slots : Packed(i) => i # num_reqs /\ i # slot /\ ~Old(i)'
    BY <1>2 DEF Packed, Slots
  <2>3. ASSUME NEW i \in Slots, NEW j \in Slots, i # j,
               Old(i)' \/ Packed(i)', Old(j)' \/ Packed(j)'
        PROVE  request_ids'[i] # request_ids'[j]
    <3>1. ASSUME NEW q \in Slots, Old(q)' \/ Packed(q)', q # num_reqs
          PROVE  /\ request_ids'[q] = request_ids[q] /\ q # slot
                 /\ Old(q) \/ Packed(q)
      BY <1>2, <1>3, <2>1, <2>2, <3>1
    <3>2. ASSUME NEW q \in Slots, Old(q)' \/ Packed(q)', q # num_reqs
          PROVE  request_ids'[q] # r
      BY <1>2, <3>1, <3>2 DEF IInv, Occupancy, r
    <3>3. CASE i # num_reqs /\ j # num_reqs
      BY <2>3, <3>1, <3>3 DEF IInv, Occupancy
    <3>4. CASE i = num_reqs
      BY <1>3, <2>3, <3>2, <3>4
    <3>5. CASE j = num_reqs
      BY <1>3, <2>3, <3>2, <3>5
    <3> QED
      BY <3>3, <3>4, <3>5
  <2>4. ASSUME NEW i \in Slots, i >= num_reqs, i <= slot
        PROVE  request_ids[i] = None \/ \E j \in Slots : j <= num_reqs /\ request_ids'[j] = request_ids[i]
    <3>1. CASE i = slot
      BY <1>2, <1>3, <3>1 DEF r
    <3>2. CASE i < slot /\ request_ids[i] # None
      <4>1. PICK j \in Slots : j < num_reqs /\ request_ids[j] = request_ids[i]
        BY <1>2, <2>4, <3>2 DEF IInv, Occupancy
      <4>2. j # num_reqs /\ j <= num_reqs /\ request_ids'[j] = request_ids[j]
        BY <1>2, <1>3, <4>1 DEF Slots
      <4> QED
        BY <4>1, <4>2
    <3> QED
      BY <1>2, <2>4, <3>1, <3>2 DEF Slots
  <2>5. \A i \in Slots : i >= num_reqs' /\ i < slot' =>
          \/ request_ids'[i] = None
          \/ \E j \in Slots : j < num_reqs' /\ request_ids'[j] = request_ids'[i]
    <3> SUFFICES ASSUME NEW i \in Slots, i >= num_reqs', i < slot', request_ids'[i] # None
                 PROVE  \E j \in Slots : j < num_reqs' /\ request_ids'[j] = request_ids'[i]
      OBVIOUS
    <3>1. i >= num_reqs /\ i <= slot /\ i # num_reqs
      BY <1>2, <1>3 DEF Slots
    <3>2. request_ids'[i] = request_ids[i]
      BY <1>3, <3>1
    <3>3. PICK j \in Slots : j <= num_reqs /\ request_ids'[j] = request_ids[i]
      BY <2>4, <3>1, <3>2
    <3>4. j < num_reqs'
      BY <1>2, <1>3, <3>3 DEF Slots
    <3> QED
      BY <3>2, <3>3, <3>4
  <2>6. ASSUME NEW q \in 0..next_request_id' - 1
        PROVE  q \in served' \/ \E i \in Slots : request_ids'[i] = q
    <3> SUFFICES ASSUME q \notin served PROVE \E i \in Slots : request_ids'[i] = q
      BY <1>5
    <3>1. PICK i \in Slots : request_ids[i] = q
      BY <1>5 DEF IInv, Occupancy
    <3>2. CASE i # num_reqs
      BY <1>3, <3>1, <3>2
    <3>3. CASE i = num_reqs
      <4>1. i >= num_reqs /\ i <= slot /\ q # None
        BY <1>2, <1>5, <1>6, <3>3 DEF None
      <4> QED
        BY <2>4, <3>1, <4>1
    <3> QED
      BY <3>2, <3>3
  <2>7. /\ \A q \in served' : q < next_request_id'
        /\ \A q \in Requests : q >= next_request_id' => step'[q] = 0
    BY <1>5 DEF IInv, Occupancy
  <2>8. pc' # "drained"
    BY <1>2 DEF Compacting
  <2> QED
    BY <2>3, <2>5, <2>6, <2>7, <2>8 DEF Occupancy
<1> QED
  BY <1>7, <1>8, <1>9, <1>10, <1>11 DEF IInv

(* Admission: nothing is old any more, so each of the packed slots may be  *)
(* as long as a sequence gets.                                             *)
LEMMA AdmitBasics ==
  ASSUME IInv, pc = "compact", slot \notin Slots
  PROVE  /\ Compacting /\ slot = R /\ FirstOld = R
         /\ \A i \in Slots : ~Old(i)
         /\ OldPositions = {} /\ num_reqs \in 0..R
<1> USE Sizes
<1>1. slot = R /\ num_reqs \in 0..R
  BY DEF IInv, TypeOK, Slots
<1>2. Compacting /\ FirstOld = R /\ \A i \in Slots : ~Old(i)
  BY <1>1 DEF Compacting, FirstOld, Old, Slots
<1> QED
  BY <1>1, <1>2 DEF OldPositions

LEMMA AdmitPlacing ==
  ASSUME IInv, Admit, NEW r, r = next_request_id,
         NEW n, n = AtMost(prompt_length[r], TokensLeft)
  PROVE  Placing(r, n, <<>>, 0)
<1> USE Sizes
<1>1. /\ Place(r, 0, n, <<>>) /\ pc = "compact" /\ slot \notin Slots
      /\ UNCHANGED <<prompt_length, step, written, snapshot, kv_cache, pc, slot, served>>
      /\ next_request_id' = r + 1
      /\ num_reqs < R /\ num_tokens < T /\ r < TotalRequests
  BY DEF Admit, HasRoom
<1>2. Compacting /\ slot = R /\ OldPositions = {} /\ num_reqs \in 0..R - 1
  BY <1>1, AdmitBasics
<1>3. r \in Nat /\ r \in Requests
  BY <1>1 DEF IInv, TypeOK, Requests
<1>4. step[r] = 0 /\ prompt_length[r] \in 1..L /\ num_tokens \in 0..T
      /\ 0..prompt_length[r] - 1 \subseteq written[r]
  BY <1>3 DEF IInv, TypeOK, Occupancy, Inputs
<1>5. /\ n \in Nat \ {0} /\ step[r] + n <= L /\ num_tokens + n <= T
      /\ num_tokens + n < T => step[r] + n >= prompt_length[r]
      /\ step[r]..step[r] + n - 1 \subseteq 0..prompt_length[r] - 1
  BY <1>1, <1>4 DEF AtMost, TokensLeft
<1>6. Len(<<>>) = 0 /\ PagesFor(step[r]) = 0 /\ 0..0 + Len(<<>>) - 1 = {}
  BY <1>4, NoPages
<1>7. OldPositions' = {}
  <2>1. \A i \in Slots : ~Old(i)'
    BY <1>1, <1>2 DEF Old, Compacting, Slots
  <2> QED
    BY <2>1 DEF OldPositions
<1>8. Cardinality(OldPositions) = 0 /\ Cardinality(OldPositions') = 0
  BY <1>2, <1>7, FS_EmptySet
<1>9. num_pages + PagesFor(step[r] + n) + Cardinality(OldPositions') <= M
  <2>1. C \in Nat
    BY PagesPositive DEF C
  <2>2. num_pages <= num_reqs * C
    <3>1. /\ KvAt(0) = 0 /\ 0 \in 0..num_reqs /\ num_reqs \in 0..num_reqs /\ 0 <= num_reqs
          /\ KvAt(num_reqs) = num_pages
      BY <1>2 DEF IInv, Layout, KvAt
    <3>2. KvAt(num_reqs) - KvAt(0) <= (num_reqs - 0) * C
      BY <1>2, <3>1, Zenon DEF IInv, Layout
    <3>3. num_reqs - 0 = num_reqs /\ num_pages \in Nat
      BY <1>2 DEF IInv, TypeOK
    <3> QED
      BY <3>1, <3>2, <3>3
  <2>3. PagesFor(step[r] + n) <= C /\ PagesFor(step[r] + n) \in Nat
    <3>1. step[r] + n \in Int /\ L \in Int /\ step[r] + n <= L /\ step[r] + n \in Nat \ {0}
      BY <1>4, <1>5
    <3> QED
      BY <3>1, PagesMonotone, PagesPositive, Zenon DEF C
  <2>4. (num_reqs + 1) * C <= R * C /\ (num_reqs + 1) * C = num_reqs * C + C
        /\ num_reqs * C \in Int /\ R * C \in Int
    <3>1. num_reqs \in Int /\ num_reqs + 1 \in Int /\ R \in Int /\ num_reqs + 1 <= R
      BY <1>2
    <3> QED
      BY <2>1, <3>1, Product
  <2>5. num_pages \in Int
    BY DEF IInv, TypeOK
  <2> DEFINE k == num_reqs * C
             all == R * C
  <2>6. num_pages <= k /\ k + C <= all /\ all <= M /\ k \in Int /\ all \in Int
    BY <2>2, <2>4, EnoughPages
  <2> HIDE DEF k, all
  <2> QED
    BY <1>8, <2>1, <2>3, <2>5, <2>6
<1>10. r \notin served
  BY <1>3 DEF IInv, Occupancy
<1>11. \A i \in Slots : Packed(i) => request_ids[i] # r
  <2>1. \A i \in Slots : Packed(i) => Taken(request_ids[i])
    BY DEF IInv, PackedSlots
  <2> QED
    BY <1>3, <2>1 DEF Taken
<1>12. Cached(r, snapshot, 0, step[r])
  BY <1>4 DEF Cached
<1>13. /\ OldPositions' = OldPositions \ (0..0 + Len(<<>>) - 1)
       /\ 0..0 + Len(<<>>) - 1 \subseteq OldPositions
       /\ Cardinality(OldPositions') = Cardinality(OldPositions) - Len(<<>>)
       /\ \A x \in 0..0 + Len(<<>>) - 1 : <<>>[x - 0 + 1] = snapshot[x]
  BY <1>2, <1>6, <1>7, <1>8
<1>14. /\ next_request_id' \in Nat /\ next_request_id <= next_request_id' /\ r < next_request_id'
       /\ Place(r, step[r], n, <<>>) /\ 0 \in Int
       /\ Len(<<>>) = PagesFor(step[r])
  BY <1>1, <1>3, <1>4, <1>6
<1>15. step[r]..step[r] + n - 1 \subseteq written[r]
  BY <1>4, <1>5
<1> QED
  BY <1>1, <1>3, <1>5, <1>9, <1>10, <1>11, <1>12, <1>13, <1>14, <1>15 DEF Placing

LEMMA AdmitStep == IInv /\ Admit => IInv'
<1> SUFFICES ASSUME IInv, Admit PROVE IInv'
  OBVIOUS
<1> USE Sizes
<1> DEFINE r == next_request_id
           n == AtMost(prompt_length[r], TokensLeft)
<1>1. Placing(r, n, <<>>, 0)
  BY AdmitPlacing
<1>2. /\ pc = "compact" /\ pc' = "compact" /\ slot' = slot /\ slot \notin Slots
      /\ UNCHANGED <<prompt_length, step, written, snapshot, kv_cache, served>>
      /\ next_request_id' = r + 1 /\ r < TotalRequests
  BY DEF Admit
<1>3. Compacting /\ Compacting' /\ slot = R /\ num_reqs \in 0..R - 1
      /\ FirstOld' = R /\ \A i \in Slots : ~Old(i) /\ ~Old(i)'
  <2>1. num_reqs < R
    BY DEF Admit, HasRoom
  <2> QED
    BY <1>2, <2>1, AdmitBasics DEF Compacting, FirstOld, Old, Slots
<1>4. r \in Nat /\ r \in Requests /\ next_request_id' \in 0..TotalRequests
  BY <1>2 DEF IInv, TypeOK, Requests
<1>5. /\ num_reqs' = num_reqs + 1 /\ request_ids'[num_reqs] = r
      /\ \A i \in Slots : i # num_reqs => request_ids'[i] = request_ids[i]
      /\ num_tokens' = num_tokens + n /\ num_reqs \in Slots
  <2> HIDE DEF r, n
  <2> QED
    BY <1>1, PlacedEntries, PlacedTypes
<1> HIDE DEF n
<1>6. TypeOK'
  <2>1. slot' \in 0..R
    BY <1>2, <1>3
  <2> QED
    BY <1>1, <1>4, <2>1, PlacedTypeOK
<1>7. Layout'
  <2>1. \A i, j \in R..R : /\ qo_indptr'[i] <= qo_indptr'[j]
                           /\ kv_indptr'[i] <= kv_indptr'[j]
                           /\ kv_indptr'[j] - kv_indptr'[i] <= (j - i) * C
    <3>1. qo_indptr'[R] \in 0..T /\ kv_indptr'[R] \in 0..M
      BY <1>6 DEF TypeOK
    <3>2. C \in Nat
      BY PagesPositive DEF C
    <3>3. (R - R) * C = 0 /\ \A i \in R..R : i = R
      BY <3>2
    <3> QED
      BY <3>1, <3>3
  <2>2. num_reqs' <= slot' /\ ~(slot' < R)
    BY <1>2, <1>3, <1>5
  <2>3. /\ KvAt(0)' = 0
        /\ \A i, j \in 0..num_reqs' : i <= j =>
             QoAt(i)' <= QoAt(j)' /\ KvAt(i)' <= KvAt(j)' /\ KvAt(j)' - KvAt(i)' <= (j - i) * C
    BY <1>1, PlacedLayout
  <2> QED
    BY <1>3, <2>1, <2>2, <2>3 DEF Layout
<1>8. OldSlots'
  BY <1>3 DEF OldSlots
<1>9. PackedSlots' /\ Inputs' /\ PagesApart' /\ PageCount'
  BY <1>1, PlacedPacked, PlacedInputs, PlacedApart, PlacedCount
<1>10. Occupancy'
  <2>1. \A i \in Slots : Packed(i)' <=> Packed(i) \/ i = num_reqs
    BY <1>3, <1>5 DEF Packed, Slots
  <2>2. \A i \in Slots : Packed(i) => i # num_reqs /\ request_ids[i] # r
    <3>1. \A i \in Slots : Packed(i) => Taken(request_ids[i])
      BY DEF IInv, PackedSlots
    <3> QED
      BY <1>3, <1>4, <3>1 DEF Packed, Taken, Slots
  <2>3. ASSUME NEW i \in Slots, NEW j \in Slots, i # j, Packed(i)', Packed(j)'
        PROVE  request_ids'[i] # request_ids'[j]
    <3>1. CASE i # num_reqs /\ j # num_reqs
      BY <1>5, <2>1, <2>3, <3>1 DEF IInv, Occupancy
    <3>2. CASE i = num_reqs
      BY <1>5, <2>1, <2>2, <2>3, <3>2
    <3>3. CASE j = num_reqs
      BY <1>5, <2>1, <2>2, <2>3, <3>3
    <3> QED
      BY <3>1, <3>2, <3>3
  <2>4. ASSUME NEW i \in Slots, i >= num_reqs, request_ids[i] # None
        PROVE  \E j \in Slots : j < num_reqs /\ request_ids'[j] = request_ids[i]
    <3>1. i < slot
      BY <1>3 DEF Slots
    <3>2. PICK j \in Slots : j < num_reqs /\ request_ids[j] = request_ids[i]
      BY <1>3, <2>4, <3>1 DEF IInv, Occupancy
    <3>3. j # num_reqs /\ request_ids'[j] = request_ids[j]
      BY <1>3, <1>5, <3>2 DEF Slots
    <3> QED
      BY <3>2, <3>3
  <2>5. \A i \in Slots : i >= num_reqs' /\ i < slot' =>
          \/ request_ids'[i] = None
          \/ \E j \in Slots : j < num_reqs' /\ request_ids'[j] = request_ids'[i]
    <3> SUFFICES ASSUME NEW i \in Slots, i >= num_reqs', request_ids'[i] # None
                 PROVE  \E j \in Slots : j < num_reqs' /\ request_ids'[j] = request_ids'[i]
      OBVIOUS
    <3>1. i >= num_reqs /\ i # num_reqs
      BY <1>3, <1>5 DEF Slots
    <3>2. request_ids'[i] = request_ids[i]
      BY <1>5, <3>1
    <3>3. PICK j \in Slots : j < num_reqs /\ request_ids'[j] = request_ids[i]
      BY <2>4, <3>1, <3>2
    <3>4. j < num_reqs'
      BY <1>3, <1>5, <3>3 DEF Slots
    <3> QED
      BY <3>2, <3>3, <3>4
  <2>6. ASSUME NEW q \in 0..next_request_id' - 1
        PROVE  q \in served' \/ \E i \in Slots : request_ids'[i] = q
    <3> SUFFICES ASSUME q \notin served PROVE \E i \in Slots : request_ids'[i] = q
      BY <1>2
    <3>1. CASE q = r
      BY <1>5, <3>1
    <3>2. CASE q # r
      <4>1. q \in 0..next_request_id - 1 /\ q # None
        BY <1>2, <1>4, <3>2 DEF None
      <4>2. PICK i \in Slots : request_ids[i] = q
        BY <4>1 DEF IInv, Occupancy
      <4>3. CASE i < num_reqs
        BY <1>3, <1>5, <4>2, <4>3 DEF Slots
      <4>4. CASE i >= num_reqs
        BY <2>4, <4>1, <4>2, <4>4
      <4> QED
        BY <1>3, <4>3, <4>4 DEF Slots
    <3> QED
      BY <3>1, <3>2
  <2>7. /\ \A q \in served' : q < next_request_id'
        /\ \A q \in Requests : q >= next_request_id' => step'[q] = 0
    <3>1. served \subseteq Requests /\ \A q \in Requests : q \in Nat
      BY DEF IInv, TypeOK, Requests
    <3>2. \A q \in served : q < r
      BY DEF IInv, Occupancy
    <3>3. \A q \in Requests : q >= r => step[q] = 0
      BY DEF IInv, Occupancy
    <3> HIDE DEF r
    <3>4. \A q \in Nat : (q < r => q < r + 1) /\ (q >= r + 1 => q >= r)
      BY <1>4
    <3> QED
      BY <1>2, <3>1, <3>2, <3>3, <3>4
  <2>8. pc' # "drained"
    BY <1>2
  <2> QED
    BY <1>3, <2>3, <2>5, <2>6, <2>7, <2>8 DEF Occupancy
<1> QED
  BY <1>6, <1>7, <1>8, <1>9, <1>10 DEF IInv
------------------------------------------------------------------------------
(* Closing the batch: what was packed is the next batch, and there is one  *)
(* unless nothing was packed.                                              *)
LEMMA CloseBasics ==
  ASSUME IInv, Close
  PROVE  /\ Compacting /\ ~Compacting' /\ FirstOld' = 0 /\ num_reqs \in 0..R
         /\ pc' = IF num_tokens = 0 THEN "drained" ELSE "run"
         /\ UNCHANGED <<prompt_length, step, written, next_request_id, kv_indices,
                        last_page_len, input_tokens, snapshot, queue, kv_cache, slot,
                        counts, served>>
         /\ request_ids' \in [Slots -> Requests \cup {None}]
         /\ qo_indptr' \in [0..R -> 0..T] /\ kv_indptr' \in [0..R -> 0..M]
         /\ \A i \in Slots : request_ids'[i] = IF i < num_reqs THEN request_ids[i] ELSE None
         /\ \A i \in 0..R : qo_indptr'[i] = QoAt(i) /\ kv_indptr'[i] = KvAt(i)
         /\ \A i \in Slots : Old(i)' <=> Packed(i)
         /\ \A i \in Slots : ~Packed(i)'
         /\ \A i \in Slots : Packed(i) => /\ request_ids'[i] = request_ids[i] /\ pc' = "run"
                                          /\ BatchTokens(i)' = QoAt(i + 1) - QoAt(i)
                                          /\ BatchPages(i)' = KvAt(i + 1) - KvAt(i)
                                          /\ ~Advanced(i)' /\ Total(i)' = PackedTotal(i)
<1> USE Sizes
<1>1. /\ pc = "compact" /\ slot \notin Slots
      /\ pc' = IF num_tokens = 0 THEN "drained" ELSE "run"
      /\ UNCHANGED <<prompt_length, step, written, next_request_id, kv_indices,
                     last_page_len, input_tokens, snapshot, queue, kv_cache, slot,
                     counts, served>>
      /\ request_ids' = [i \in Slots |-> IF i < num_reqs THEN request_ids[i] ELSE None]
  BY DEF Close
<1>2. /\ num_reqs \in 0..R /\ num_tokens \in 0..T /\ num_pages \in 0..M
      /\ request_ids \in [Slots -> Requests \cup {None}]
      /\ qo_indptr \in [0..R -> 0..T] /\ kv_indptr \in [0..R -> 0..M]
  BY DEF IInv, TypeOK
<1>3. /\ qo_indptr' = [i \in 0..R |-> QoAt(i)] /\ kv_indptr' = [i \in 0..R |-> KvAt(i)]
  BY <1>2 DEF Close, QoAt, KvAt
<1>4. \A i \in 0..R : QoAt(i) \in 0..T /\ KvAt(i) \in 0..M
  BY <1>2 DEF QoAt, KvAt
<1>5. /\ request_ids' \in [Slots -> Requests \cup {None}]
      /\ qo_indptr' \in [0..R -> 0..T] /\ kv_indptr' \in [0..R -> 0..M]
      /\ \A i \in Slots : request_ids'[i] = IF i < num_reqs THEN request_ids[i] ELSE None
      /\ \A i \in 0..R : qo_indptr'[i] = QoAt(i) /\ kv_indptr'[i] = KvAt(i)
  BY <1>1, <1>2, <1>3, <1>4
<1>6. Compacting /\ ~Compacting' /\ FirstOld' = 0
  BY <1>1 DEF Compacting, FirstOld
<1>7. \A i \in Slots : Packed(i) => request_ids[i] # None
  BY PackedSlot DEF None, Requests
<1>8. \A i \in Slots : (Old(i)' <=> Packed(i)) /\ ~Packed(i)'
  BY <1>5, <1>6, <1>7 DEF Old, Packed
<1>9. ASSUME NEW i \in Slots, Packed(i)
      PROVE  /\ request_ids'[i] = request_ids[i] /\ pc' = "run"
             /\ BatchTokens(i)' = QoAt(i + 1) - QoAt(i)
             /\ BatchPages(i)' = KvAt(i + 1) - KvAt(i)
             /\ ~Advanced(i)' /\ Total(i)' = PackedTotal(i)
  <2>1. request_ids'[i] = request_ids[i]
    BY <1>5, <1>9 DEF Packed
  <2>2. /\ QoAt(i) \in 0..T /\ QoAt(i + 1) \in 0..T /\ QoAt(i) < QoAt(i + 1)
        /\ QoAt(i + 1) <= num_tokens /\ i \in 0..R /\ i + 1 \in 0..R
        /\ step[request_ids[i]] \in 0..L
    BY <1>9, PackedSlot DEF Slots
  <2>3. pc' = "run"
    BY <1>1, <1>2, <2>2
  <2>4. BatchTokens(i)' = QoAt(i + 1) - QoAt(i) /\ BatchPages(i)' = KvAt(i + 1) - KvAt(i)
    BY <1>5, <2>2 DEF BatchTokens, BatchPages
  <2>5. ~Advanced(i)'
    BY <1>6, <2>3 DEF Advanced
  <2>6. Total(i)' = PackedTotal(i)
    <3>1. Total(i)' = step[request_ids[i]] + (QoAt(i + 1) - QoAt(i))
      BY <1>1, <2>1, <2>4, <2>5 DEF Total
    <3> QED
      BY <2>2, <3>1 DEF PackedTotal
  <2> QED
    BY <2>1, <2>3, <2>4, <2>5, <2>6
<1> QED
  BY <1>1, <1>2, <1>5, <1>6, <1>8, <1>9

LEMMA CloseLayout ==
  ASSUME IInv, Close
  PROVE  Layout'
<1> USE Sizes
<1> DEFINE k == num_reqs
           cut(i) == IF i < k THEN i ELSE k
<1>1. /\ Compacting /\ ~Compacting' /\ FirstOld' = 0 /\ k \in 0..R
      /\ \A i \in 0..R : qo_indptr'[i] = QoAt(i) /\ kv_indptr'[i] = KvAt(i)
  BY CloseBasics
<1>2. C \in Nat
  BY PagesPositive DEF C
<1>3. \A i \in 0..R : cut(i) \in 0..k /\ QoAt(i) = QoAt(cut(i)) /\ KvAt(i) = KvAt(cut(i))
  BY <1>1 DEF QoAt, KvAt
<1>4. \A i \in 0..k : QoAt(i) \in 0..T /\ KvAt(i) \in 0..M
  BY <1>1 DEF QoAt, KvAt, IInv, TypeOK
<1>5. \A i, j \in 0..R : i <= j => cut(i) <= cut(j) /\ cut(j) - cut(i) <= j - i
                                    /\ cut(j) - cut(i) \in Int /\ j - i \in Int
  BY <1>1
<1> HIDE DEF cut, k
<1>6. ASSUME NEW i \in 0..R, NEW j \in 0..R, i <= j
      PROVE  /\ qo_indptr'[i] <= qo_indptr'[j] /\ kv_indptr'[i] <= kv_indptr'[j]
             /\ kv_indptr'[j] - kv_indptr'[i] <= (j - i) * C
  <2>1. /\ QoAt(cut(i)) <= QoAt(cut(j)) /\ KvAt(cut(i)) <= KvAt(cut(j))
        /\ KvAt(cut(j)) - KvAt(cut(i)) <= (cut(j) - cut(i)) * C
    BY <1>1, <1>3, <1>5, <1>6, Zenon DEF IInv, Layout, k
  <2>2. /\ (cut(j) - cut(i)) * C <= (j - i) * C
        /\ (cut(j) - cut(i)) * C \in Int /\ (j - i) * C \in Int
    BY <1>2, <1>5, <1>6, Product, Zenon
  <2> DEFINE d == (cut(j) - cut(i)) * C
             e == (j - i) * C
             u == KvAt(cut(j))
             v == KvAt(cut(i))
  <2>3. u \in 0..M /\ v \in 0..M
    BY <1>3, <1>4, <1>6
  <2>4. u - v <= d /\ d <= e /\ d \in Int /\ e \in Int
    BY <2>1, <2>2
  <2> HIDE DEF d, e, u, v
  <2>5. u - v <= e
    BY <2>3, <2>4
  <2>6. KvAt(j) - KvAt(i) <= e
    BY <1>3, <1>6, <2>5 DEF u, v
  <2> QED
    BY <1>1, <1>3, <1>6, <2>1, <2>6 DEF e
<1> QED
  BY <1>1, <1>6 DEF Layout

LEMMA CloseStep == IInv /\ Close => IInv'
<1> SUFFICES ASSUME IInv, Close PROVE IInv'
  OBVIOUS
<1> USE Sizes
<1>1. /\ Compacting /\ ~Compacting' /\ FirstOld' = 0 /\ num_reqs \in 0..R
      /\ pc' = IF num_tokens = 0 THEN "drained" ELSE "run"
      /\ UNCHANGED <<prompt_length, step, written, next_request_id, kv_indices,
                     last_page_len, input_tokens, snapshot, queue, kv_cache, slot,
                     counts, served>>
      /\ request_ids' \in [Slots -> Requests \cup {None}]
      /\ qo_indptr' \in [0..R -> 0..T] /\ kv_indptr' \in [0..R -> 0..M]
      /\ \A i \in Slots : request_ids'[i] = IF i < num_reqs THEN request_ids[i] ELSE None
      /\ \A i \in 0..R : qo_indptr'[i] = QoAt(i) /\ kv_indptr'[i] = KvAt(i)
      /\ \A i \in Slots : Old(i)' <=> Packed(i)
      /\ \A i \in Slots : ~Packed(i)'
  BY CloseBasics
<1>2. \A i \in Slots : Packed(i) => /\ request_ids'[i] = request_ids[i] /\ pc' = "run"
                                    /\ BatchTokens(i)' = QoAt(i + 1) - QoAt(i)
                                    /\ BatchPages(i)' = KvAt(i + 1) - KvAt(i)
                                    /\ ~Advanced(i)' /\ Total(i)' = PackedTotal(i)
  BY CloseBasics
<1>3. \A i \in Slots : ~Old(i)
  BY AdmitBasics DEF Close
<1>4. num_tokens \in 0..T /\ num_pages \in 0..M
  BY DEF IInv, TypeOK
<1>5. /\ QoAt(R) = num_tokens /\ KvAt(R) = num_pages
      /\ qo_indptr'[R] = num_tokens /\ kv_indptr'[R] = num_pages
  BY <1>1 DEF QoAt, KvAt
<1>6. OldSlots'
  <2> SUFFICES ASSUME NEW i \in Slots, Old(i)'
               PROVE  LET r == request_ids'[i]
                      IN  /\ Taken(request_ids[i])'
                          /\ BatchTokens(i)' >= 1
                          /\ Total(i)' \in 1..L
                          /\ BatchPages(i)' = PagesFor(Total(i)')
                          /\ qo_indptr'[i + 1] < T => Total(i)' >= prompt_length'[r]
                          /\ ~Advanced(i)' /\ pc' = "run"
                          /\ Cached(request_ids[i], OldTable, kv_indptr[i], step[request_ids[i]])'
                          /\ last_page_len'[i] = LastPageLen(Total(i)')
                          /\ \A j \in 0..BatchTokens(i)' - 1 :
                               input_tokens'[qo_indptr'[i] + j] = <<r, step'[r] + j>>
    BY DEF OldSlots
  <2>1. Packed(i) /\ i \in 0..R /\ i + 1 \in 0..R
    BY <1>1 DEF Slots
  <2>2. /\ Taken(request_ids[i])
        /\ QoAt(i + 1) - QoAt(i) >= 1
        /\ PackedTotal(i) \in 1..L
        /\ KvAt(i + 1) - KvAt(i) = PagesFor(PackedTotal(i))
        /\ QoAt(i + 1) < T => PackedTotal(i) >= prompt_length[request_ids[i]]
        /\ Cached(request_ids[i], kv_indices, KvAt(i), step[request_ids[i]])
        /\ last_page_len[i] = LastPageLen(PackedTotal(i))
        /\ \A j \in 0..QoAt(i + 1) - QoAt(i) - 1 :
             input_tokens[QoAt(i) + j] = <<request_ids[i], step[request_ids[i]] + j>>
    BY <2>1 DEF IInv, PackedSlots
  <2>3. /\ request_ids'[i] = request_ids[i] /\ pc' = "run"
        /\ BatchTokens(i)' = QoAt(i + 1) - QoAt(i)
        /\ BatchPages(i)' = KvAt(i + 1) - KvAt(i)
        /\ ~Advanced(i)' /\ Total(i)' = PackedTotal(i)
    BY <1>2, <2>1
  <2>4. /\ qo_indptr'[i] = QoAt(i) /\ qo_indptr'[i + 1] = QoAt(i + 1) /\ kv_indptr'[i] = KvAt(i)
        /\ OldTable' = kv_indices
    BY <1>1, <2>1 DEF OldTable
  <2>5. Taken(request_ids[i])'
    BY <1>1, <2>2, <2>3 DEF Taken
  <2>6. Cached(request_ids[i], OldTable, kv_indptr[i], step[request_ids[i]])'
    BY <1>1, <2>2, <2>3, <2>4 DEF Cached
  <2> QED
    BY <1>1, <2>2, <2>3, <2>4, <2>5, <2>6
<1>7. PackedSlots'
  BY <1>1 DEF PackedSlots
<1>8. TypeOK'
  <2>1. pc' = "run" => \A i \in Slots : request_ids'[i] # None => last_page_len'[i] > 0
    <3> SUFFICES ASSUME NEW i \in Slots, request_ids'[i] # None
                 PROVE  last_page_len'[i] > 0
      OBVIOUS
    <3>1. Packed(i)
      BY <1>1 DEF Packed
    <3>2. PackedTotal(i) \in Nat \ {0} /\ last_page_len[i] = LastPageLen(PackedTotal(i))
      <4>1. PackedTotal(i) \in 1..L /\ last_page_len[i] = LastPageLen(PackedTotal(i))
        BY <3>1 DEF IInv, PackedSlots
      <4> QED
        BY <4>1
    <3>3. LastPageLen(PackedTotal(i)) \in 1..P
      BY <3>2, LengthFromPages
    <3> QED
      BY <1>1, <3>2, <3>3
  <2>2. pc' \in {"end", "finalize", "compact", "run", "drained"}
    BY <1>1
  <2> QED
    BY <1>1, <2>1, <2>2 DEF IInv, TypeOK, Occupied, queue, counts
<1>9. Layout'
  BY CloseLayout
<1>10. Occupancy'
  <2>1. ASSUME NEW i \in Slots, NEW j \in Slots, i # j, Old(i)', Old(j)'
        PROVE  request_ids'[i] # request_ids'[j]
    <3>1. Packed(i) /\ Packed(j)
      BY <1>1, <2>1
    <3>2. request_ids[i] # request_ids[j]
      BY <2>1, <3>1 DEF IInv, Occupancy
    <3> QED
      BY <1>2, <3>1, <3>2
  <2>2. ASSUME NEW q \in 0..next_request_id' - 1, q \notin served'
        PROVE  \E i \in Slots : request_ids'[i] = q
    <3>1. PICK i \in Slots : request_ids[i] = q /\ q # None
      BY <1>1, <2>2 DEF IInv, TypeOK, Occupancy, None
    <3>2. CASE i < num_reqs
      BY <1>1, <3>1, <3>2
    <3>3. CASE ~(i < num_reqs)
      <4>1. i >= num_reqs /\ i < slot
        BY <1>1, <3>3, AdmitBasics DEF Slots, Close
      <4>2. PICK j \in Slots : j < num_reqs /\ request_ids[j] = q
        BY <1>1, <3>1, <4>1 DEF IInv, Occupancy
      <4> QED
        BY <1>1, <4>2
    <3> QED
      BY <3>2, <3>3
  <2>3. pc' = "drained" => \A i \in Slots : request_ids'[i] = None
    <3> SUFFICES ASSUME pc' = "drained", NEW i \in Slots, request_ids'[i] # None PROVE FALSE
      OBVIOUS
    <3>1. Packed(i)
      BY <1>1 DEF Packed
    <3> QED
      BY <1>2, <3>1
  <2> QED
    BY <1>1, <2>1, <2>2, <2>3 DEF IInv, Occupancy
<1>11. Inputs'
  <2>1. \A j \in 0..num_tokens - 1 : /\ input_tokens[j] \in Requests \X Positions
                                     /\ input_tokens[j][2] \in written[input_tokens[j][1]]
    BY <1>1 DEF IInv, Inputs
  <2> QED
    BY <1>1, <1>4, <1>5, <2>1 DEF IInv, Inputs
<1>12. OldPositions = {} /\ NewPositions = 0..num_pages - 1 /\ NewPositions' = {}
  BY <1>1, <1>3 DEF OldPositions, NewPositions
<1>13. OldPositions' = 0..num_pages - 1
  <2>1. ASSUME NEW x \in 0..num_pages - 1
        PROVE  \E i \in Slots : Old(i)' /\ kv_indptr'[i] <= x /\ x < kv_indptr'[i + 1]
    <3>1. PICK i \in Slots : i < num_reqs /\ KvAt(i) <= x /\ x < KvAt(i + 1)
      BY <1>1 DEF IInv, PageCount
    <3>2. Packed(i) /\ i \in 0..R /\ i + 1 \in 0..R
      BY <1>1, <3>1 DEF Packed, Slots
    <3>3. kv_indptr'[i] = KvAt(i) /\ kv_indptr'[i + 1] = KvAt(i + 1)
      BY <1>1, <3>2
    <3> QED
      BY <1>1, <3>1, <3>2, <3>3
  <2> QED
    BY <1>5, <2>1 DEF OldPositions
<1>14. PagesApart'
  <2> DEFINE Source(kind) == IF kind = "old" THEN "new" ELSE kind
  <2>1. ASSUME NEW kind \in Kinds, NEW x \in Int, Holds(kind, x)'
        PROVE  /\ Holds(Source(kind), x) /\ PageAt(Source(kind), x) = PageAt(kind, x)'
               /\ Source(kind) \in Kinds /\ kind # "new"
    <3>1. kind # "new"
      BY <1>12, <2>1 DEF Holds
    <3>2. CASE kind = "old"
      BY <1>1, <1>12, <1>13, <2>1, <3>2 DEF Holds, PageAt, OldTable, Kinds
    <3>3. CASE kind = "free"
      BY <1>1, <2>1, <3>3 DEF Holds, PageAt, Kinds, queue
    <3> QED
      BY <3>1, <3>2, <3>3 DEF Kinds
  <2>2. ASSUME NEW k1 \in Kinds, NEW x1 \in Int, Holds(k1, x1)',
               NEW k2 \in Kinds, NEW x2 \in Int, Holds(k2, x2)',
               PageAt(k1, x1)' = PageAt(k2, x2)'
        PROVE  k1 = k2 /\ x1 = x2
    <3>1. Source(k1) = Source(k2) /\ x1 = x2
      <4> HIDE DEF Source
      <4>1. /\ Source(k1) \in Kinds /\ Holds(Source(k1), x1)
            /\ PageAt(Source(k1), x1) = PageAt(k1, x1)'
        BY <2>1, <2>2, Zenon
      <4>2. /\ Source(k2) \in Kinds /\ Holds(Source(k2), x2)
            /\ PageAt(Source(k2), x2) = PageAt(k2, x2)'
        BY <2>1, <2>2, Zenon
      <4>3. PageAt(Source(k1), x1) = PageAt(Source(k2), x2)
        BY <2>2, <4>1, <4>2
      <4>4. PagesApart
        BY DEF IInv
      <4> QED
        BY <4>1, <4>2, <4>3, <4>4, Zenon DEF PagesApart
    <3>2. k1 # "new" /\ k2 # "new"
      BY <2>1, <2>2
    <3> QED
      BY <3>1, <3>2
  <2> QED
    BY <2>2 DEF PagesApart
<1>15. PageCount'
  <2>1. page_queue_head \in Nat /\ page_queue_tail \in Nat /\ FreeCount' = FreeCount
    BY <1>1 DEF IInv, TypeOK, FreeCount, queue
  <2>2. Cardinality(OldPositions) = 0
    BY <1>12, FS_EmptySet
  <2>3. FreeCount >= 0 /\ FreeCount + num_pages = M
    BY <1>1, <1>4, <2>1, <2>2 DEF IInv, PageCount, FreeCount
  <2>4. Cardinality(OldPositions') = num_pages
    <3>1. 0 \in Int /\ num_pages - 1 \in Int
      BY <1>4
    <3>2. Cardinality(0..num_pages - 1) = IF 0 > num_pages - 1 THEN 0 ELSE (num_pages - 1) - 0 + 1
      BY <3>1, FS_Interval
    <3> QED
      BY <1>4, <1>13, <3>2
  <2> QED
    BY <1>1, <1>5, <1>13, <2>1, <2>3, <2>4 DEF PageCount
<1> QED
  BY <1>6, <1>7, <1>8, <1>9, <1>10, <1>11, <1>14, <1>15 DEF IInv
------------------------------------------------------------------------------
(* A batch runs: each token is stored in a cell of its own, and no cell of *)
(* a position computed before is touched.                                  *)
LEMMA RunSlot ==
  ASSUME IInv, pc = "run", NEW i \in Occupied
  PROVE  /\ i \in Slots /\ Old(i) /\ ~Advanced(i)
         /\ request_ids[i] \in Requests /\ step[request_ids[i]] \in Nat
         /\ BatchTokens(i) \in Nat \ {0} /\ Total(i) = step[request_ids[i]] + BatchTokens(i)
         /\ Total(i) \in Nat \ {0} /\ seq_len(i) = Total(i)
         /\ qo_indptr[i] \in 0..T /\ qo_indptr[i] + BatchTokens(i) \in 0..T
         /\ \A j \in 0..BatchTokens(i) - 1 :
              input_tokens[qo_indptr[i] + j] = <<request_ids[i], step[request_ids[i]] + j>>
<1> USE Sizes
<1>1. i \in Slots /\ Old(i) /\ ~Advanced(i) /\ request_ids[i] # None
  BY DEF Occupied, Old, Advanced, Compacting
<1>2. /\ request_ids[i] \in Requests /\ step[request_ids[i]] \in 0..L
      /\ qo_indptr[i] \in 0..T /\ qo_indptr[i + 1] \in 0..T /\ qo_indptr[i] < qo_indptr[i + 1]
  BY <1>1, OldSlot
<1>3. /\ Total(i) \in 1..L /\ BatchPages(i) = PagesFor(Total(i))
      /\ last_page_len[i] = LastPageLen(Total(i))
      /\ \A j \in 0..BatchTokens(i) - 1 :
           input_tokens[qo_indptr[i] + j] = <<request_ids[i], step[request_ids[i]] + j>>
  BY <1>1 DEF IInv, OldSlots
<1>4. Total(i) \in Nat \ {0} /\ Total(i) = step[request_ids[i]] + BatchTokens(i)
  BY <1>1, <1>3 DEF Total
<1>5. seq_len(i) = Total(i)
  BY <1>3, <1>4, LengthFromPages DEF seq_len
<1>6. BatchTokens(i) \in Nat \ {0} /\ qo_indptr[i] + BatchTokens(i) \in 0..T
  BY <1>2 DEF BatchTokens
<1>7. step[request_ids[i]] \in Nat
  BY <1>2
<1> QED
  BY <1>1, <1>2, <1>3, <1>4, <1>5, <1>6, <1>7, Zenon

LEMMA CellOf ==
  ASSUME IInv, pc = "run", IndexLoad = "base", NEW i \in Occupied, NEW p \in 0..Total(i) - 1
  PROVE  Cell(i, p) = <<kv_indices[kv_indptr[i] + (p \div P)], p % P>>
<1>1. i \in Slots /\ Old(i)
  BY RunSlot
<1>2. p \div P \in 0..BatchPages(i) - 1
  BY <1>1, OldPage
<1> DEFINE q == p \div P
<1>3. q \in 0..BatchPages(i) - 1
  BY <1>2
<1> HIDE DEF q
<1>4. PageTable(i)[q] = kv_indices[kv_indptr[i] + q]
  BY <1>3 DEF PageTable
<1> QED
  BY <1>4 DEF Cell, q

LEMMA CellsApart ==
  ASSUME IInv, pc = "run", IndexLoad = "base",
         NEW i1 \in Occupied, NEW p1 \in 0..Total(i1) - 1,
         NEW i2 \in Occupied, NEW p2 \in 0..Total(i2) - 1,
         Cell(i1, p1) = Cell(i2, p2)
  PROVE  i1 = i2 /\ p1 = p2
<1> DEFINE q1 == p1 \div P
           q2 == p2 \div P
           x1 == kv_indptr[i1] + q1
           x2 == kv_indptr[i2] + q2
<1>1. /\ i1 \in Slots /\ Old(i1) /\ i2 \in Slots /\ Old(i2)
      /\ Total(i1) \in Nat \ {0} /\ Total(i2) \in Nat \ {0}
  BY RunSlot
<1>2. /\ x1 \in kv_indptr[i1]..kv_indptr[i1 + 1] - 1 /\ x1 \in OldPositions
      /\ x2 \in kv_indptr[i2]..kv_indptr[i2 + 1] - 1 /\ x2 \in OldPositions
  BY <1>1, OldPage
<1>3. /\ kv_indptr[i1] \in 0..M /\ kv_indptr[i1 + 1] \in 0..M
      /\ kv_indptr[i2] \in 0..M /\ kv_indptr[i2 + 1] \in 0..M
  BY <1>1, OldSlot
<1>4. kv_indices[x1] = kv_indices[x2] /\ p1 % P = p2 % P
  BY CellOf
<1>5. /\ p1 \in Int /\ p2 \in Int /\ P \in Nat \ {0}
      /\ q1 \in Int /\ p1 = q1 * P + (p1 % P) /\ q2 \in Int /\ p2 = q2 * P + (p2 % P)
  <2>1. p1 \in Int /\ p2 \in Int /\ P \in Nat \ {0}
    BY Sizes
  <2> QED
    BY <2>1, Division, Zenon
<1> HIDE DEF q1, q2
<1>6. x1 = x2
  <2>1. /\ Holds("old", x1) /\ Holds("old", x2)
        /\ PageAt("old", x1) = kv_indices[x1] /\ PageAt("old", x2) = kv_indices[x2]
    BY <1>2 DEF Holds, PageAt, OldTable, Compacting
  <2>2. x1 \in Int /\ x2 \in Int /\ "old" \in Kinds
    BY <1>3, <1>5 DEF Kinds
  <2> HIDE DEF x1, x2
  <2> QED
    BY <1>4, <2>1, <2>2, Zenon DEF IInv, PagesApart
<1>7. i1 = i2
  <2>1. /\ x1 \in Int /\ kv_indptr[i1] <= x1 /\ x1 < kv_indptr[i1 + 1]
        /\ kv_indptr[i2] <= x1 /\ x1 < kv_indptr[i2 + 1]
    BY <1>2, <1>3, <1>5, <1>6
  <2> HIDE DEF x1
  <2> QED
    BY <1>1, <2>1, OldApart
<1>8. q1 = q2
  BY <1>3, <1>5, <1>6, <1>7
<1> QED
  BY <1>4, <1>5, <1>7, <1>8

(* The cells a batch stores to, with what it stores.                       *)
LEMMA RunStores ==
  ASSUME IInv, pc = "run", NEW i \in Occupied
  PROVE  Stores(i) = {<<Cell(i, step[request_ids[i]] + j), <<request_ids[i], step[request_ids[i]] + j>>>> :
                        j \in 0..BatchTokens(i) - 1}
<1> DEFINE n == BatchTokens(i)
           first == step[request_ids[i]]
<1>1. /\ n \in Nat \ {0} /\ first \in Nat /\ seq_len(i) = first + n
      /\ \A j \in 0..n - 1 : input_tokens[qo_indptr[i] + j] = <<request_ids[i], first + j>>
  BY RunSlot
<1> HIDE DEF n, first
<1>2. seq_len(i) - n = first
  BY <1>1
<1> QED
  BY <1>1, <1>2 DEF Stores, n, first

LEMMA RunCache ==
  ASSUME IInv, RunBatch, IndexLoad = "base", NEW i \in Occupied, NEW p \in 0..Total(i) - 1
  PROVE  kv_cache'[kv_indices[kv_indptr[i] + (p \div P)]][p % P] = <<request_ids[i], p>>
<1> DEFINE stores == UNION {Stores(h) : h \in Occupied}
           r == request_ids[i]
           c == Cell(i, p)
           x == kv_indptr[i] + (p \div P)
           o == p % P
<1>1. /\ pc = "run" /\ i \in Slots /\ Old(i) /\ r \in Requests /\ step[r] \in Nat
      /\ BatchTokens(i) \in Nat \ {0} /\ Total(i) = step[r] + BatchTokens(i)
  BY RunSlot DEF RunBatch
<1>2. c = <<kv_indices[x], o>>
  BY <1>1, CellOf
<1>3. kv_indices[x] \in Pages /\ o \in 0..P - 1
  <2>1. x \in OldPositions
    BY <1>1, OldPage
  <2>2. kv_indptr[R] \in 0..M /\ kv_indices \in [Pages -> Pages]
    BY Sizes DEF IInv, TypeOK
  <2> HIDE DEF x
  <2>3. x \in Pages
    <3>1. x \in 0..kv_indptr[R] - 1
      BY <2>1 DEF OldPositions
    <3> QED
      BY <2>2, <3>1, Sizes DEF Pages
  <2>4. o \in 0..P - 1
    <3>1. Total(i) \in Int
      BY <1>1
    <3> QED
      BY <3>1, PageOfToken, Zenon
  <2> QED
    BY <2>2, <2>3, <2>4
<1>4. kv_cache'[kv_indices[x]][o] = IF \E s \in stores : s[1] = c
                                    THEN (CHOOSE s \in stores : s[1] = c)[2]
                                    ELSE kv_cache[kv_indices[x]][o]
  BY <1>2, <1>3 DEF RunBatch
<1>5. ASSUME NEW s \in stores, s[1] = c
      PROVE  s[2] = <<r, p>> /\ p >= step[r]
  <2>1. PICK h \in Occupied : s \in Stores(h)
    BY <1>5
  <2>2. PICK j \in 0..BatchTokens(h) - 1 :
          s = <<Cell(h, step[request_ids[h]] + j), <<request_ids[h], step[request_ids[h]] + j>>>>
    BY <1>1, <2>1, RunStores
  <2> DEFINE y == step[request_ids[h]] + j
  <2>3. Cell(h, y) = c /\ s[2] = <<request_ids[h], y>>
    BY <1>5, <2>2
  <2>4. y \in 0..Total(h) - 1 /\ y >= step[request_ids[h]]
    <3>1. /\ step[request_ids[h]] \in Nat /\ BatchTokens(h) \in Nat
          /\ Total(h) = step[request_ids[h]] + BatchTokens(h)
      BY <1>1, RunSlot
    <3> QED
      BY <3>1
  <2> HIDE DEF y
  <2>5. h = i /\ y = p
    BY <1>1, <2>3, <2>4, CellsApart
  <2> QED
    BY <2>3, <2>4, <2>5
<1>6. p \in Int
  OBVIOUS
<1> HIDE DEF c, x, o
<1>7. CASE p >= step[r]
  <2> DEFINE j == p - step[r]
             s0 == <<c, <<r, p>>>>
  <2>1. j \in 0..BatchTokens(i) - 1 /\ step[r] + j = p
    BY <1>1, <1>6, <1>7
  <2>2. s0 \in Stores(i)
    <3> HIDE DEF j
    <3> QED
      BY <1>1, <2>1, RunStores DEF c
  <2>3. s0 \in stores /\ s0[1] = c
    BY <2>2
  <2> DEFINE the == CHOOSE s \in stores : s[1] = c
  <2>4. the \in stores /\ the[1] = c
    <3> HIDE DEF s0, stores
    <3> QED
      BY <2>3
  <2>5. the[2] = <<r, p>>
    <3> HIDE DEF the, stores
    <3> QED
      BY <1>5, <2>4
  <2>6. kv_cache'[kv_indices[x]][o] = the[2]
    <3> HIDE DEF s0, stores
    <3> QED
      BY <1>4, <2>3
  <2> QED
    BY <2>5, <2>6 DEF x, o
<1>8. CASE p < step[r]
  <2>1. ~ \E s \in stores : s[1] = c
    <3> HIDE DEF stores
    <3> QED
      BY <1>1, <1>5, <1>6, <1>8
  <2>2. kv_cache'[kv_indices[x]][o] = kv_cache[kv_indices[x]][o]
    <3> HIDE DEF stores
    <3> QED
      BY <1>4, <2>1
  <2>3. Cached(r, OldTable, kv_indptr[i], step[r])
    BY <1>1 DEF IInv, OldSlots
  <2>4. p \in 0..step[r] - 1
    BY <1>1, <1>8
  <2>5. kv_cache[kv_indices[x]][o] = <<r, p>>
    BY <1>1, <2>3, <2>4 DEF Cached, OldTable, Compacting, x, o
  <2> QED
    BY <2>2, <2>5 DEF x, o
<1> QED
  BY <1>1, <1>6, <1>7, <1>8

LEMMA RunBatchStep == IInv /\ RunBatch => IInv'
<1> SUFFICES ASSUME IInv, RunBatch PROVE IInv'
  OBVIOUS
<1> USE Sizes
<1>1. /\ pc = "run" /\ pc' = "end"
      /\ UNCHANGED <<prompt_length, step, written, next_request_id, request_ids,
                     tables, snapshot, queue, slot, counts, served>>
  BY DEF RunBatch
<1>2. ~Compacting /\ ~Compacting' /\ FirstOld' = FirstOld /\ OldTable' = OldTable
      /\ OldTable = kv_indices
  BY <1>1 DEF Compacting, FirstOld, OldTable, tables
<1>3. \A i \in Slots : /\ Old(i)' = Old(i) /\ ~Packed(i) /\ ~Packed(i)'
                       /\ ~Advanced(i) /\ ~Advanced(i)' /\ Total(i)' = Total(i)
                       /\ BatchTokens(i)' = BatchTokens(i) /\ BatchPages(i)' = BatchPages(i)
                       /\ Old(i) => i \in Occupied
  BY <1>1, <1>2 DEF Old, Packed, Advanced, Total, BatchTokens, BatchPages, Compacting, tables,
     Occupied
<1>4. TypeOK'
  <2> DEFINE stores == UNION {Stores(h) : h \in Occupied}
  <2>1. ASSUME NEW s \in stores PROVE s[2] \in Tokens
    <3>1. PICK h \in Occupied : s \in Stores(h)
      BY <2>1
    <3>2. PICK j \in 0..BatchTokens(h) - 1 : s[2] = input_tokens[qo_indptr[h] + j]
      BY <3>1 DEF Stores
    <3>3. qo_indptr[h] + j \in 0..T - 1
      <4>1. BatchTokens(h) \in Nat /\ qo_indptr[h] \in 0..T /\ qo_indptr[h] + BatchTokens(h) \in 0..T
        BY <1>1, RunSlot
      <4> QED
        BY <4>1
    <3> QED
      BY <3>2, <3>3 DEF IInv, TypeOK
  <2>2. kv_cache' = [p \in Pages |-> [o \in 0..P - 1 |->
          IF \E s \in stores : s[1] = <<p, o>>
          THEN (CHOOSE s \in stores : s[1] = <<p, o>>)[2]
          ELSE kv_cache[p][o]]]
    BY DEF RunBatch
  <2> HIDE DEF stores
  <2>3. ASSUME NEW c, \E s \in stores : s[1] = c
        PROVE  (CHOOSE s \in stores : s[1] = c)[2] \in Tokens
    BY <2>1, <2>3
  <2>4. \A p \in Pages, o \in 0..P - 1 : kv_cache[p][o] \in Tokens
    BY DEF IInv, TypeOK
  <2>5. kv_cache' \in [Pages -> [0..P - 1 -> Tokens]]
    BY <2>2, <2>3, <2>4
  <2> QED
    BY <1>1, <2>5 DEF IInv, TypeOK, tables, queue, counts
<1>5. Layout'
  BY <1>1, <1>2 DEF IInv, Layout, tables
<1>6. OldSlots'
  <2> SUFFICES ASSUME NEW i \in Slots, Old(i)
               PROVE  /\ Taken(request_ids[i])'
                      /\ BatchTokens(i) >= 1 /\ Total(i) \in 1..L
                      /\ BatchPages(i) = PagesFor(Total(i))
                      /\ qo_indptr[i + 1] < T => Total(i) >= prompt_length[request_ids[i]]
                      /\ Cached(request_ids[i], OldTable, kv_indptr[i], Total(i))'
    BY <1>1, <1>3 DEF OldSlots, tables
  <2>1. /\ Taken(request_ids[i]) /\ BatchTokens(i) >= 1 /\ Total(i) \in 1..L
        /\ BatchPages(i) = PagesFor(Total(i))
        /\ qo_indptr[i + 1] < T => Total(i) >= prompt_length[request_ids[i]]
    BY DEF IInv, OldSlots
  <2>2. Taken(request_ids[i])'
    BY <1>1, <2>1 DEF Taken
  <2>3. IndexLoad = "base" => \A p \in 0..Total(i) - 1 :
          kv_cache'[kv_indices[kv_indptr[i] + (p \div P)]][p % P] = <<request_ids[i], p>>
    BY <1>3, RunCache
  <2>4. Cached(request_ids[i], OldTable, kv_indptr[i], Total(i))'
    BY <1>1, <1>2, <1>3, <2>3 DEF Cached, tables
  <2> QED
    BY <2>1, <2>2, <2>4
<1>7. PackedSlots'
  BY <1>3 DEF PackedSlots
<1>8. Occupancy'
  BY <1>1, <1>2, <1>3 DEF IInv, Occupancy
<1>9. Inputs'
  BY <1>1, <1>2 DEF IInv, Inputs
<1>10. OldPositions' = OldPositions /\ NewPositions' = NewPositions
  BY <1>1, <1>2, <1>3 DEF OldPositions, NewPositions, tables
<1>11. PagesApart'
  BY <1>1, <1>2, <1>10 DEF IInv, PagesApart, Holds, PageAt, tables, queue
<1>12. PageCount'
  BY <1>1, <1>2, <1>10 DEF IInv, PageCount, FreeCount, queue
<1> QED
  BY <1>4, <1>5, <1>6, <1>7, <1>8, <1>9, <1>11, <1>12 DEF IInv

------------------------------------------------------------------------------
(* IInv is an invariant of every step.                                     *)
THEOREM Inductive == Spec => []IInv
<1>1. Init => IInv
  BY InitIInv
<1>2. IInv /\ [Next]_vars => IInv'
  BY CallStep, FinalizeEmptyStep, FinalizeRunningStep, FinalizeDoneStep, SnapshotStep,
     CompactEmptyStep, CompactStep, AdmitStep, CloseStep, RunBatchStep, RelaunchStep,
     StutterStep DEF Next, prepare_next_batch
<1> QED
  BY <1>1, <1>2, PTL DEF Spec

(* Every variable stays in its range; with a request in a slot, the last   *)
(* page holds at least one token and at most a page of them.               *)
THEOREM Types == Spec => []TypeOK
<1>1. IInv => TypeOK
  BY DEF IInv
<1> QED
  BY <1>1, Inductive, PTL

(* Every token of a batch was in the prompt or has been produced.          *)
THEOREM BatchesOfProducedTokens == Spec => []InputsProduced
<1>1. IInv => InputsProduced
  BY DEF IInv, Inputs, InputsProduced, Compacting
<1> QED
  BY <1>1, Inductive, PTL

(* However the token budget of a batch is shared, every request of the     *)
(* batch advances by at least one token.                                   *)
THEOREM NobodyStarves == Spec => []EveryRequestAdvances
<1>1. IInv => EveryRequestAdvances
  BY DEF IInv, OldSlots, EveryRequestAdvances, Old, Occupied, Compacting
<1> QED
  BY <1>1, Inductive, PTL

(* No page is lost and none is given out twice: while a batch runs the     *)
(* page tables and the free ring together hold every page exactly once.    *)
(* They hold as many entries as there are pages, all of different pages.   *)
THEOREM EveryPageHeldOnce == Spec => []PagesConserved
<1> USE Sizes
<1>1. IInv => PagesConserved
  <2> SUFFICES ASSUME IInv, pc \in {"run", "drained"}
               PROVE  /\ FreeCount \in 0..M
                      /\ FreeCount + kv_indptr[R] = M
                      /\ {UsedPages[j] : j \in DOMAIN UsedPages}
                           \cup {FreeQueue[j] : j \in DOMAIN FreeQueue} = Pages
    BY DEF PagesConserved
  <2> DEFINE used == kv_indptr[R]
             head == page_queue_head
  <2>1. ~Compacting /\ OldTable = kv_indices /\ OldPositions = 0..used - 1
    BY DEF IInv, PageCount, Compacting, OldTable
  <2>2. /\ used \in 0..M /\ head \in Nat /\ page_queue_tail \in Nat
        /\ kv_indices \in [Pages -> Pages] /\ page_queue \in [Pages -> Pages]
    BY DEF IInv, TypeOK
  <2>3. Cardinality(OldPositions) = used
    <3>1. 0 \in Int /\ used - 1 \in Int
      BY <2>2
    <3>2. Cardinality(0..used - 1) = IF 0 > used - 1 THEN 0 ELSE (used - 1) - 0 + 1
      BY <3>1, FS_Interval
    <3> QED
      BY <2>1, <2>2, <3>2
  <2>4. FreeCount \in Int /\ FreeCount >= 0 /\ FreeCount + used = M
    BY <2>1, <2>2, <2>3 DEF IInv, PageCount, FreeCount
  <2> DEFINE at(y) == (head + (y - used)) % M
             f == [y \in Pages |-> IF y < used THEN kv_indices[y] ELSE page_queue[at(y)]]
  <2>5. \A y \in Pages : at(y) \in Pages
    <3> SUFFICES ASSUME NEW y \in Pages PROVE at(y) \in Pages
      OBVIOUS
    <3>1. M \in Nat \ {0}
      BY DEF Pages
    <3>3. head \in Int /\ y \in Int /\ used \in Int
      BY <2>2 DEF Pages
    <3>4. head + (y - used) \in Int
      <4> HIDE DEF head, used
      <4> QED
        BY <3>3
    <3>2. (head + (y - used)) % M \in 0..M - 1
      BY <3>1, <3>4, Division, Zenon
    <3> QED
      BY <3>2 DEF Pages
  <2> HIDE DEF used, head, at
  <2>6. f \in [Pages -> Pages]
    BY <2>2, <2>5
  <2>7. ASSUME NEW y \in Pages
        PROVE  IF y < used THEN Holds("old", y) /\ PageAt("old", y) = f[y]
               ELSE /\ Holds("free", head + (y - used))
                    /\ PageAt("free", head + (y - used)) = f[y]
    <3>1. CASE y < used
      <4>1. y \in OldPositions
        BY <2>1, <2>2, <3>1 DEF Pages
      <4> QED
        BY <2>1, <3>1, <4>1 DEF Holds, PageAt
    <3>2. CASE ~(y < used)
      <4>1. head + (y - used) \in page_queue_head..page_queue_tail - 1
        BY <2>2, <2>4, <3>2 DEF FreeCount, Pages, head
      <4>2. PageAt("free", head + (y - used)) = page_queue[at(y)]
        BY DEF PageAt, at
      <4> QED
        BY <3>2, <4>1, <4>2 DEF Holds
    <3> QED
      BY <3>1, <3>2
  <2> HIDE DEF f
  <2>8. ASSUME NEW y \in Pages, NEW z \in Pages, f[y] = f[z] PROVE y = z
    <3>1. /\ y \in Int /\ z \in Int /\ head + (y - used) \in Int /\ head + (z - used) \in Int
          /\ "old" \in Kinds /\ "free" \in Kinds
      BY <2>2 DEF Pages, Kinds
    <3>2. CASE y < used /\ z < used
      BY <2>7, <2>8, <3>1, <3>2 DEF IInv, PagesApart
    <3>3. CASE ~(y < used) /\ ~(z < used)
      <4>1. head + (y - used) = head + (z - used)
        BY <2>7, <2>8, <3>1, <3>3 DEF IInv, PagesApart
      <4> QED
        BY <2>2, <3>1, <4>1
    <3>4. CASE y < used /\ ~(z < used)
      BY <2>7, <2>8, <3>1, <3>4 DEF IInv, PagesApart
    <3>5. CASE ~(y < used) /\ z < used
      BY <2>7, <2>8, <3>1, <3>5 DEF IInv, PagesApart
    <3> QED
      BY <3>2, <3>3, <3>4, <3>5
  <2>9. f \in Surjection(Pages, Pages)
    <3>1. f \in Injection(Pages, Pages)
      BY <2>6, <2>8 DEF Injection, IsInjective
    <3>2. IsFiniteSet(Pages)
      BY FS_Interval DEF Pages
    <3> QED
      BY <3>1, <3>2, FS_Injection
  <2>10. ASSUME NEW p \in Pages
         PROVE  \/ \E j \in 0..used - 1 : p = kv_indices[j]
                \/ \E j \in 0..FreeCount - 1 : p = page_queue[(head + j) % M]
    <3>1. PICK y \in Pages : f[y] = p
      BY <2>9 DEF Surjection
    <3>2. CASE y < used
      <4>1. y \in 0..used - 1
        BY <2>2, <3>2 DEF Pages
      <4> QED
        BY <3>1, <3>2, <4>1 DEF f
    <3>3. CASE ~(y < used)
      <4>1. y - used \in 0..FreeCount - 1
        BY <2>2, <2>4, <3>3 DEF Pages
      <4>2. f[y] = page_queue[(head + (y - used)) % M]
        BY <3>3 DEF f, at
      <4> QED
        BY <3>1, <4>1, <4>2
    <3> QED
      BY <3>2, <3>3
  <2>11. ASSUME NEW j \in 0..used - 1 PROVE kv_indices[j] \in Pages
    <3>1. j \in Pages
      BY <2>2 DEF Pages
    <3> QED
      BY <2>2, <3>1
  <2>12. ASSUME NEW j \in 0..FreeCount - 1 PROVE page_queue[(head + j) % M] \in Pages
    <3>1. M \in Nat \ {0} /\ head + j \in Int
      BY <2>2, <2>4
    <3>2. (head + j) % M \in Pages
      BY <3>1, Division, Zenon DEF Pages
    <3> QED
      BY <2>2, <3>2
  <2>13. /\ {UsedPages[j] : j \in DOMAIN UsedPages} = {kv_indices[j] : j \in 0..used - 1}
         /\ {FreeQueue[j] : j \in DOMAIN FreeQueue}
              = {page_queue[(head + j) % M] : j \in 0..FreeCount - 1}
    BY DEF UsedPages, FreeQueue, used, head
  <2>14. {kv_indices[j] : j \in 0..used - 1}
           \cup {page_queue[(head + j) % M] : j \in 0..FreeCount - 1} = Pages
    BY <2>10, <2>11, <2>12
  <2>15. FreeCount \in 0..M /\ FreeCount + kv_indptr[R] = M
    BY <2>2, <2>4 DEF used
  <2>16. {UsedPages[j] : j \in DOMAIN UsedPages}
           \cup {FreeQueue[j] : j \in DOMAIN FreeQueue} = Pages
    BY <2>13, <2>14, Zenon
  <2> QED
    BY <2>15, <2>16
<1> QED
  BY <1>1, Inductive, PTL

(* When attention runs it finds under every position of a request that was *)
(* computed before that request's token of that position, provided it      *)
(* loads the page tables from the slot's first page on, as the Hopper and  *)
(* Blackwell kernels do.                                                   *)
THEOREM CacheStaysIntact == IndexLoad = "base" => (Spec => []CacheIntact)
<1> SUFFICES ASSUME IndexLoad = "base" PROVE Spec => []CacheIntact
  OBVIOUS
<1>1. IInv => CacheIntact
  <2> SUFFICES ASSUME IInv, pc = "run", NEW i \in Occupied,
                      NEW p \in 0..step[request_ids[i]] - 1
               PROVE  kv_cache[Cell(i, p)[1]][Cell(i, p)[2]] = <<request_ids[i], p>>
    BY DEF CacheIntact
  <2>1. /\ i \in Slots /\ Old(i) /\ step[request_ids[i]] \in Nat
        /\ BatchTokens(i) \in Nat /\ Total(i) = step[request_ids[i]] + BatchTokens(i)
    BY RunSlot
  <2>2. p \in 0..Total(i) - 1
    BY <2>1
  <2>3. Cell(i, p) = <<kv_indices[kv_indptr[i] + (p \div P)], p % P>>
    BY <2>2, CellOf
  <2>4. Cached(request_ids[i], kv_indices, kv_indptr[i], step[request_ids[i]])
    BY <2>1 DEF IInv, OldSlots, OldTable, Compacting
  <2> QED
    BY <2>3, <2>4 DEF Cached
<1> QED
  BY <1>1, Inductive, PTL
------------------------------------------------------------------------------
(* The service of requests.                                                *)
Active == {request_ids[i] : i \in Slots} \ {None}

LEMMA SameRequests ==
  ASSUME UNCHANGED <<request_ids, next_request_id, served>>,
         pc' = "drained" <=> pc = "drained"
  PROVE  UNCHANGED Service!vars
BY DEF Service!vars

(* A request that ends leaves the requests served.                         *)
LEMMA FinishRefines ==
  ASSUME IInv, FinalizeDone
  PROVE  \E r \in Requests : Service!Finish(r)
<1> DEFINE r == request_ids[slot]
<1>1. /\ pc = "finalize" /\ pc' = pc /\ slot \in Slots /\ r # None
      /\ request_ids' = [request_ids EXCEPT ![slot] = None]
      /\ served' = served \cup {r} /\ next_request_id' = next_request_id
  BY DEF FinalizeDone
<1>2. request_ids \in [Slots -> Requests \cup {None}]
  BY DEF IInv, TypeOK
<1>3. \A i \in Slots : i # slot /\ request_ids[i] # None => request_ids[i] # r
  BY <1>1 DEF IInv, Occupancy, Old, Compacting
<1>4. Active' = Active \ {r}
  <2>1. \A i \in Slots : request_ids'[i] = IF i = slot THEN None ELSE request_ids[i]
    BY <1>1, <1>2
  <2> QED
    BY <1>1, <1>3, <2>1 DEF Active
<1>5. r \in Active /\ r \in Requests
  BY <1>1, <1>2 DEF Active
<1> HIDE DEF r
<1> QED
  BY <1>1, <1>4, <1>5 DEF Service!Finish, Active

(* Moving a request down to a lower slot changes nothing in who is served: *)
(* what the slot held before is stale.                                     *)
LEMMA CompactRefines ==
  ASSUME IInv, Compact
  PROVE  UNCHANGED Service!vars
<1> DEFINE r == request_ids[slot]
<1> USE Sizes
<1>1. /\ pc = "compact" /\ pc' = pc /\ slot \in Slots /\ r # None
      /\ request_ids' = [request_ids EXCEPT ![num_reqs] = r]
      /\ served' = served /\ next_request_id' = next_request_id
  BY DEF Compact, Place
<1>2. /\ request_ids \in [Slots -> Requests \cup {None}]
      /\ num_reqs \in Nat /\ num_reqs <= slot
  BY <1>1 DEF IInv, TypeOK, Layout, Compacting
<1>3. num_reqs \in Slots /\ \A j \in Slots : j < num_reqs => j # num_reqs
  BY <1>1, <1>2 DEF Slots
<1>4. \A i \in Slots : request_ids'[i] = IF i = num_reqs THEN r ELSE request_ids[i]
  BY <1>1, <1>2, <1>3
<1>5. \/ request_ids[num_reqs] \in {None, r}
      \/ \E j \in Slots : j # num_reqs /\ request_ids[j] = request_ids[num_reqs]
  <2>1. CASE num_reqs = slot
    BY <2>1
  <2>2. CASE num_reqs < slot
    <3>1. num_reqs >= num_reqs
      BY <1>2
    <3> QED
      BY <1>1, <1>3, <2>2, <3>1 DEF IInv, Occupancy, Compacting
  <2> QED
    BY <1>1, <1>2, <2>1, <2>2 DEF Slots
<1>6. Active' = Active
  <2>1. ASSUME NEW q \in Active PROVE q \in Active'
    <3>1. PICK i \in Slots : request_ids[i] = q /\ q # None
      BY <2>1 DEF Active
    <3>2. CASE i # num_reqs
      BY <1>4, <3>1, <3>2 DEF Active
    <3>3. CASE i = num_reqs /\ q = r
      BY <1>3, <1>4, <3>1, <3>3 DEF Active
    <3>4. CASE i = num_reqs /\ q # r
      <4>1. PICK j \in Slots : j # num_reqs /\ request_ids[j] = q
        BY <1>5, <3>1, <3>4
      <4> QED
        BY <1>4, <3>1, <4>1 DEF Active
    <3> QED
      BY <3>2, <3>3, <3>4
  <2>2. ASSUME NEW q \in Active' PROVE q \in Active
    BY <1>1, <1>4, <2>2 DEF Active
  <2> QED
    BY <2>1, <2>2
<1> QED
  BY <1>1, <1>6 DEF Service!vars, Active

(* While new requests are taken up, those in service are in the slots      *)
(* below num_reqs.                                                         *)
LEMMA ActivePacked ==
  ASSUME IInv, pc = "compact", slot \notin Slots
  PROVE  /\ \A i \in Slots : i >= num_reqs => request_ids[i] = None
              \/ \E j \in Slots : j < num_reqs /\ request_ids[j] = request_ids[i]
         /\ Active = {request_ids[i] : i \in 0..num_reqs - 1} \ {None}
         /\ num_reqs \in 0..R
<1> USE Sizes
<1>1. slot = R /\ num_reqs \in 0..R
  BY DEF IInv, TypeOK, Slots
<1>2. \A i \in Slots : i < slot
  BY <1>1 DEF Slots
<1>3. \A i \in Slots : i >= num_reqs => request_ids[i] = None
              \/ \E j \in Slots : j < num_reqs /\ request_ids[j] = request_ids[i]
  BY <1>2 DEF IInv, Occupancy, Compacting
<1>4. \A i \in 0..num_reqs - 1 : i \in Slots
  BY <1>1 DEF Slots
<1>5. \A i \in Slots : i < num_reqs => i \in 0..num_reqs - 1
  BY <1>1 DEF Slots
<1>6. \A i \in Slots : i < num_reqs \/ i >= num_reqs
  BY <1>1 DEF Slots
<1>7. Active = {request_ids[i] : i \in 0..num_reqs - 1} \ {None}
  BY <1>3, <1>4, <1>5, <1>6 DEF Active
<1> QED
  BY <1>1, <1>3, <1>7

LEMMA AdmitRefines ==
  ASSUME IInv, Admit
  PROVE  Service!Admit
<1> DEFINE n == next_request_id
<1> USE Sizes
<1>1. /\ pc = "compact" /\ pc' = pc /\ slot \notin Slots /\ num_reqs < R
      /\ request_ids' = [request_ids EXCEPT ![num_reqs] = n]
      /\ served' = served /\ n < TotalRequests /\ n' = n + 1
  BY DEF Admit, Place, HasRoom
<1>2. /\ request_ids \in [Slots -> Requests \cup {None}] /\ n \in Nat
  BY DEF IInv, TypeOK
<1>3. /\ \A i \in Slots : i >= num_reqs => request_ids[i] = None
              \/ \E j \in Slots : j < num_reqs /\ request_ids[j] = request_ids[i]
      /\ Active = {request_ids[i] : i \in 0..num_reqs - 1} \ {None}
      /\ num_reqs \in 0..R
  BY <1>1, ActivePacked
<1>4. num_reqs \in Slots /\ \A j \in Slots : j < num_reqs => j # num_reqs
  BY <1>1, <1>3 DEF Slots
<1>5. \A i \in Slots : request_ids'[i] = IF i = num_reqs THEN n ELSE request_ids[i]
  BY <1>1, <1>2, <1>4
<1>6. n # None
  BY <1>2 DEF None
<1>7. Active' = Active \cup {n}
  <2>1. ASSUME NEW q \in Active PROVE q \in Active'
    <3>1. PICK i \in 0..num_reqs - 1 : request_ids[i] = q /\ q # None
      BY <1>3, <2>1
    <3>2. i \in Slots /\ i # num_reqs
      BY <1>3, <1>4, <3>1 DEF Slots
    <3> QED
      BY <1>5, <3>1, <3>2 DEF Active
  <2>2. ASSUME NEW q \in Active', q # n PROVE q \in Active
    BY <1>5, <2>2 DEF Active
  <2>3. n \in Active'
    BY <1>4, <1>5, <1>6 DEF Active
  <2> QED
    BY <2>1, <2>2, <2>3
<1>8. Cardinality(Active) < R
  <2> DEFINE I == 0..num_reqs - 1
             A == {request_ids[i] : i \in I}
             f == [i \in I |-> request_ids[i]]
  <2>1. IsFiniteSet(I) /\ Cardinality(I) = num_reqs
    <3>1. 0 \in Int /\ num_reqs - 1 \in Int
      BY <1>3
    <3>2. IsFiniteSet(I) /\ Cardinality(I) = IF 0 > num_reqs - 1 THEN 0 ELSE (num_reqs - 1) - 0 + 1
      BY <3>1, FS_Interval
    <3> QED
      BY <1>3, <3>2
  <2>2. f \in Surjection(I, A)
    BY DEF Surjection
  <2> HIDE DEF f, A, I
  <2>3. IsFiniteSet(A) /\ Cardinality(A) <= num_reqs
    BY <2>1, <2>2, FS_Surjection
  <2>4. Active \in SUBSET A
    BY <1>3 DEF A, I
  <2>5. Cardinality(Active) <= Cardinality(A) /\ IsFiniteSet(Active)
    BY <2>3, <2>4, FS_Subset
  <2>6. Cardinality(Active) \in Nat /\ Cardinality(A) \in Nat
    BY <2>3, <2>5, FS_CardinalityType
  <2> QED
    BY <1>1, <1>3, <2>3, <2>5, <2>6
<1>9. pc # "drained" /\ pc' # "drained"
  BY <1>1
<1>10. Service!Cardinality(Active) = Cardinality(Active)
  BY DEF Service!Cardinality, Cardinality
<1> QED
  BY <1>1, <1>7, <1>8, <1>9, <1>10 DEF Service!Admit, Active

(* A batch without tokens is a batch without requests, and then none is    *)
(* left to take up.                                                        *)
LEMMA CloseRefines ==
  ASSUME IInv, Close
  PROVE  Service!Drain \/ UNCHANGED Service!vars
<1> USE Sizes
<1>1. /\ pc = "compact" /\ slot \notin Slots
      /\ ~(HasRoom /\ next_request_id < TotalRequests)
      /\ request_ids' = [i \in Slots |-> IF i < num_reqs THEN request_ids[i] ELSE None]
      /\ pc' = IF num_tokens = 0 THEN "drained" ELSE "run"
      /\ served' = served /\ next_request_id' = next_request_id
  BY DEF Close
<1>2. /\ request_ids \in [Slots -> Requests \cup {None}] /\ num_tokens \in Nat
      /\ next_request_id \in 0..TotalRequests /\ served \subseteq Requests
  BY DEF IInv, TypeOK
<1>3. /\ \A i \in Slots : i >= num_reqs => request_ids[i] = None
              \/ \E j \in Slots : j < num_reqs /\ request_ids[j] = request_ids[i]
      /\ Active = {request_ids[i] : i \in 0..num_reqs - 1} \ {None}
      /\ num_reqs \in 0..R
  BY <1>1, ActivePacked
<1>4. Active' = Active
  <2>1. ASSUME NEW q \in Active PROVE q \in Active'
    <3>1. PICK i \in 0..num_reqs - 1 : request_ids[i] = q /\ q # None
      BY <1>3, <2>1
    <3>2. i \in Slots /\ i < num_reqs
      BY <1>3, <3>1 DEF Slots
    <3>3. request_ids'[i] = q
      BY <1>1, <3>1, <3>2
    <3> QED
      BY <3>1, <3>2, <3>3 DEF Active
  <2>2. ASSUME NEW q \in Active' PROVE q \in Active
    BY <1>1, <2>2 DEF Active
  <2> QED
    BY <2>1, <2>2
<1>5. CASE num_tokens # 0
  <2>1. pc' = "run"
    BY <1>1, <1>5
  <2> QED
    BY <1>1, <1>4, <2>1 DEF Service!vars, Active
<1>6. CASE num_tokens = 0
  <2>1. num_reqs = 0
    <3> SUFFICES ASSUME num_reqs # 0 PROVE FALSE
      OBVIOUS
    <3>1. 0 \in 0..num_reqs /\ 1 \in 0..num_reqs /\ num_reqs \in 0..num_reqs /\ 1 <= num_reqs
      BY <1>3
    <3>2. 0 \in Slots /\ 0 < num_reqs
      BY <1>3, <3>1 DEF Slots
    <3>3. QoAt(0 + 1) - QoAt(0) >= 1
      BY <1>1, <3>2 DEF IInv, PackedSlots, Packed, Compacting
    <3>4. QoAt(1) <= QoAt(num_reqs)
      BY <1>1, <3>1 DEF IInv, Layout, Compacting
    <3>5. QoAt(num_reqs) = 0
      BY <1>3, <1>6 DEF QoAt
    <3>6. QoAt(0) \in Nat
      BY <1>2, <1>3, <3>2 DEF QoAt, IInv, TypeOK
    <3>7. QoAt(1) \in Nat
      BY <1>2, <1>3, <3>1 DEF QoAt, IInv, TypeOK
    <3> QED
      BY <3>3, <3>4, <3>5, <3>6, <3>7
  <2>2. HasRoom
    BY <1>6, <2>1 DEF HasRoom
  <2>3. next_request_id = TotalRequests
    BY <1>1, <1>2, <2>2
  <2>4. ASSUME NEW i \in Slots PROVE request_ids[i] = None
    <3>1. i >= num_reqs /\ \A j \in Slots : ~(j < num_reqs)
      BY <2>1 DEF Slots
    <3> QED
      BY <1>3, <3>1
  <2>5. ASSUME NEW r \in Requests PROVE r \in served
    <3>1. r \in 0..next_request_id - 1 /\ r # None
      BY <2>3 DEF Requests, None
    <3>2. r \in served \/ \E i \in Slots : request_ids[i] = r
      BY <3>1 DEF IInv, Occupancy
    <3> QED
      BY <2>4, <3>1, <3>2
  <2>6. served = Service!Requests
    BY <1>2, <2>5 DEF Service!Requests, Requests
  <2>7. pc' = "drained"
    BY <1>1, <1>6
  <2> QED
    BY <1>1, <1>4, <2>6, <2>7 DEF Service!Drain, Active
<1> QED
  BY <1>5, <1>6

(* The safety part of ServesRequests: requests are taken up in order, no   *)
(* more at a time than there are slots, each is served once, and the       *)
(* kernel drains only when every request has been served, whatever slots,  *)
(* pages and token budget a request was moved through.                     *)
THEOREM RefinesService == Spec => Service!Init /\ [][Service!Next]_(Service!vars)
<1>1. Init => Service!Init
  <2> SUFFICES ASSUME Init PROVE Service!Init
    OBVIOUS
  <2>1. Active = {}
    BY DEF Init, Active
  <2> QED
    BY <2>1 DEF Init, Active, Service!Init
<1>2. IInv /\ [Next]_vars => [Service!Next]_(Service!vars)
  <2> SUFFICES ASSUME IInv, [Next]_vars PROVE Service!Next \/ UNCHANGED Service!vars
    OBVIOUS
  <2>1. CASE FinalizeDone
    <3>1. PICK r \in Requests : Service!Finish(r)
      BY <2>1, FinishRefines
    <3> QED
      BY <3>1 DEF Service!Next, Service!Serve, Service!Requests, Requests
  <2>2. CASE Compact
    BY <2>2, CompactRefines
  <2>3. CASE Admit
    BY <2>3, AdmitRefines DEF Service!Next, Service!Serve
  <2>4. CASE Close
    BY <2>4, CloseRefines DEF Service!Next, Service!Serve
  <2>5. CASE Relaunch
    BY <2>5 DEF Relaunch, Service!Next, Service!Resume
  <2>6. CASE UNCHANGED vars
    BY <2>6, SameRequests DEF vars
  <2>7. CASE \/ Call \/ FinalizeEmpty \/ FinalizeRunning \/ Snapshot \/ CompactEmpty \/ RunBatch
    <3>1. UNCHANGED <<request_ids, next_request_id, served>>
      BY <2>7 DEF Call, FinalizeEmpty, FinalizeRunning, Snapshot, CompactEmpty, RunBatch
    <3>2. pc # "drained" /\ pc' # "drained"
      BY <2>7 DEF Call, FinalizeEmpty, FinalizeRunning, Snapshot, CompactEmpty, RunBatch
    <3> QED
      BY <3>1, <3>2, SameRequests
  <2> QED
    BY <2>1, <2>2, <2>3, <2>4, <2>5, <2>6, <2>7 DEF Next, prepare_next_batch
<1> QED
  BY <1>1, <1>2, Inductive, PTL DEF Spec
==============================================================================
