------------------------- MODULE InstructionRing_proof -------------------------
(***************************************************************************)
(* Proofs about InstructionRing, for every number of slots, warps and      *)
(* instructions: parities are enough.  A wait sees the phase of a slot's   *)
(* semaphore modulo two, and yet no warp runs an instruction early, twice  *)
(* or out of a slot that holds another one.                                *)
(***************************************************************************)
EXTENDS InstructionRing, FiniteSetTheorems, TLAPS

S == INSTRUCTION_PIPELINE_STAGES

------------------------------------------------------------------------------
(* Division.                                                               *)
LEMMA Division ==
  ASSUME NEW n \in Int, NEW k \in Nat \ {0}
  PROVE  /\ n \div k \in Int
         /\ n % k \in 0 .. k - 1
         /\ n = (n \div k) * k + (n % k)
<1>1. n \div k \in Int /\ n % k \in 0 .. k - 1
  BY SMT
<1> QED
  BY <1>1, SMT

(* A number has one quotient and one remainder.                            *)
LEMMA OneQuotient ==
  ASSUME NEW k \in Nat \ {0}, NEW p \in Int, NEW q \in Int,
         NEW r \in 0 .. k - 1, NEW s \in 0 .. k - 1, p * k + r = q * k + s
  PROVE  p = q /\ r = s
<1>1. ASSUME NEW a \in Int, NEW b \in Int, a < b
      PROVE  a * k + k <= b * k
  <2>1. (b - a - 1) * k >= 0
    <3>1. b - a - 1 \in Nat
      BY <1>1
    <3> QED
      BY <3>1
  <2>2. (b - a - 1) * k = b * k - a * k - k
    OBVIOUS
  <2>3. a * k \in Int /\ b * k \in Int
    OBVIOUS
  <2> QED
    BY <2>1, <2>2, <2>3
<1>2. p * k \in Int /\ q * k \in Int
  OBVIOUS
<1>3. ~(p < q)
  BY <1>1, <1>2
<1>4. ~(q < p)
  BY <1>1, <1>2
<1> QED
  BY <1>2, <1>3, <1>4

(* A slot is used again Stages instructions later, in its next turn.       *)
LEMMA NextTurn ==
  ASSUME NEW n \in Int
  PROVE  /\ Ring(n - S) = Ring(n)
         /\ (n - S) \div S = (n \div S) - 1
         /\ Ring(n) \in Slots
<1>0. S \in Nat \ {0}
  BY RingAssumption DEF S, RingAssumption
<1> DEFINE p == (n - S) \div S
           q == (n \div S) - 1
           r == (n - S) % S
           s == n % S
<1>1. p \in Int /\ r \in 0 .. S - 1 /\ n - S = p * S + r
  BY <1>0, Division
<1>2. q + 1 \in Int /\ q \in Int /\ s \in 0 .. S - 1 /\ n = (q + 1) * S + s
  BY <1>0, Division
<1> HIDE DEF p, q, r, s
<1>3. (q + 1) * S = q * S + S /\ q * S \in Int /\ p * S \in Int
  BY <1>0, <1>1, <1>2
<1>4. p * S + r = q * S + s
  BY <1>0, <1>1, <1>2, <1>3
<1>5. p = q /\ r = s
  BY <1>0, <1>1, <1>2, <1>4, OneQuotient
<1> QED
  BY <1>2, <1>5 DEF p, q, r, s, Ring, Slots, S

(* Instructions less than Stages apart are in different slots.             *)
LEMMA Apart ==
  ASSUME NEW a \in Int, NEW b \in Int, a < b, b < a + S
  PROVE  Ring(a) # Ring(b)
<1>0. S \in Nat \ {0}
  BY RingAssumption DEF S, RingAssumption
<1> DEFINE p == a \div S
           q == b \div S
           r == a % S
           s == b % S
<1>1. p \in Int /\ r \in 0 .. S - 1 /\ a = p * S + r
  BY <1>0, Division
<1>2. q \in Int /\ s \in 0 .. S - 1 /\ b = q * S + s
  BY <1>0, Division
<1> HIDE DEF p, q, r, s
<1>3. SUFFICES ASSUME r = s PROVE FALSE
  BY DEF r, s, Ring, S
<1>4. p * S \in Int /\ q * S \in Int /\ (p + 1) * S = p * S + S
  BY <1>0, <1>1, <1>2
<1>5. b - a \in 1 .. S - 1
  BY <1>0
<1> DEFINE d == b - a
<1>6. q * S + 0 = p * S + d
  BY <1>1, <1>2, <1>3, <1>4
<1>7. d \in 0 .. S - 1 /\ 0 \in 0 .. S - 1 /\ d # 0
  BY <1>0, <1>5
<1> HIDE DEF d
<1> QED
  BY <1>0, <1>1, <1>2, <1>6, <1>7, OneQuotient

------------------------------------------------------------------------------
(* Semaphores.                                                             *)
Semaphore == [phase : Int, pending : Int]

LEMMA ArrivePending ==
  ASSUME NEW q \in Int, NEW m \in Int, NEW count \in Int, m + 1 < count
  PROVE  Arrive([phase |-> q, pending |-> m], 1, count) = [phase |-> q, pending |-> m + 1]
BY DEF Arrive

LEMMA ArriveLast ==
  ASSUME NEW q \in Int, NEW m \in Int
  PROVE  Arrive([phase |-> q, pending |-> m], 1, m + 1) = [phase |-> q + 1, pending |-> 0]
BY DEF Arrive

(* A wait for turn q passes when the phase is q + 1, not when it is q.     *)
LEMMA ParityTells ==
  ASSUME NEW n \in Int, NEW sem, sem.phase \in {n \div S, (n \div S) + 1},
         Passed(sem, Parity(n))
  PROVE  sem.phase = (n \div S) + 1
<1>0. S \in Nat \ {0}
  BY RingAssumption DEF S, RingAssumption
<1> DEFINE q == n \div S
<1>1. q \in Int
  BY <1>0, Division
<1>2. Passed(sem, q % 2) /\ sem.phase \in {q, q + 1}
  BY DEF Parity, S
<1> HIDE DEF q
<1>3. sem.phase = q + 1
  BY <1>1, <1>2 DEF Passed
<1> QED
  BY <1>3 DEF q

------------------------------------------------------------------------------
(* The inductive invariant.                                                *)
RingTypeOK ==
    /\ fetch \in 0 .. num_iters
    /\ step \in {"load", "publish"}
    /\ step = "publish" => fetch < num_iters
    /\ slot \in [Slots -> Int]
    /\ instruction_arrived \in [Slots -> Semaphore]
    /\ instruction_finished \in [Slots -> Semaphore]
    /\ instruction_index \in [Warps -> Nat]
    /\ running \in [Warps -> BOOLEAN]

(* Instructions loaded so far; the last Stages of them are in the slots.   *)
Loaded == IF step = "publish" THEN fetch + 1 ELSE fetch

(* No warp is behind the slots, or runs what is not published.             *)
InWindow == \A w \in Warps : /\ Loaded - S <= instruction_index[w]
                             /\ instruction_index[w] <= fetch
                             /\ running[w] => instruction_index[w] < fetch

SlotsHold == \A n \in Int : 0 <= n /\ Loaded - S <= n /\ n < Loaded => slot[Ring(n)] = n

(* The semaphores, as the next use of each slot will find them and as the  *)
(* last one leaves them.  A slot before its first use counts as one that   *)
(* held an instruction with a negative number.                             *)
ArrivedPhases == \A n \in Int : fetch <= n /\ n < fetch + S =>
    instruction_arrived[Ring(n)] = [phase |-> n \div S, pending |-> 0]

DoneWith(n) == {w \in Warps : instruction_index[w] > n}

FinishedPhases == \A n \in Int : Loaded - S <= n /\ n < Loaded =>
    instruction_finished[Ring(n)] =
       IF DoneWith(n) = Warps THEN [phase |-> (n \div S) + 1, pending |-> 0]
       ELSE [phase |-> n \div S, pending |-> Cardinality(DoneWith(n))]

RingInv == RingTypeOK /\ InWindow /\ SlotsHold /\ ArrivedPhases /\ FinishedPhases

LEMMA Sizes ==
  /\ S \in Nat \ {0} /\ num_iters \in Nat
  /\ IsFiniteSet(Warps) /\ Warps # {}
  /\ Cardinality(Warps) \in Nat \ {0} /\ NUM_WARPS - 1 = Cardinality(Warps)
<1>1. S \in Nat \ {0} /\ num_iters \in Nat /\ IsFiniteSet(Warps) /\ Warps # {}
  BY RingAssumption DEF S, RingAssumption
<1>2. Cardinality(Warps) \in Nat /\ Cardinality(Warps) # 0
  BY <1>1, FS_CardinalityType, FS_EmptySet
<1> QED
  BY <1>1, <1>2 DEF NUM_WARPS

LEMMA InitInv == RingInit => RingInv
<1> SUFFICES ASSUME RingInit PROVE RingInv
  OBVIOUS
<1> USE DEF RingInit
<1>1. \A n \in Int : -S <= n /\ n < 0 => n \div S = -1
  <2> TAKE n \in Int
  <2> HAVE -S <= n /\ n < 0
  <2> DEFINE q == n \div S
             r == n % S
  <2>1. q \in Int /\ r \in 0 .. S - 1 /\ n = q * S + r
    BY Sizes, Division
  <2>2. n + S \in 0 .. S - 1 /\ n = (-1) * S + (n + S) /\ -1 \in Int
    BY Sizes
  <2> HIDE DEF q, r
  <2>3. q = -1
    BY <2>1, <2>2, Sizes, OneQuotient
  <2> QED
    BY <2>3 DEF q
<1>2. \A n \in Int : 0 <= n /\ n < S => n \div S = 0
  <2> TAKE n \in Int
  <2> HAVE 0 <= n /\ n < S
  <2> DEFINE q == n \div S
             r == n % S
  <2>1. q \in Int /\ r \in 0 .. S - 1 /\ n = q * S + r
    BY Sizes, Division
  <2>2. n \in 0 .. S - 1 /\ n = 0 * S + n
    BY Sizes
  <2> HIDE DEF q, r
  <2>3. q = 0
    BY <2>1, <2>2, Sizes, OneQuotient
  <2> QED
    BY <2>3 DEF q
<1>3. RingTypeOK
  BY Sizes DEF RingTypeOK, Semaphore, Fresh
<1>4. Loaded = 0
  BY DEF Loaded
<1>5. InWindow
  BY <1>4, Sizes DEF InWindow
<1>6. SlotsHold
  BY <1>4 DEF SlotsHold
<1>7. ArrivedPhases
  <2> SUFFICES ASSUME NEW n \in Int, 0 <= n, n < S
               PROVE  instruction_arrived[Ring(n)] = [phase |-> n \div S, pending |-> 0]
    BY Sizes DEF ArrivedPhases
  <2>1. n \div S = 0
    BY <1>2
  <2> QED
    BY <2>1, NextTurn DEF Fresh
<1>8. FinishedPhases
  <2> SUFFICES ASSUME NEW n \in Int, -S <= n, n < 0
               PROVE  /\ DoneWith(n) = Warps
                      /\ instruction_finished[Ring(n)] = [phase |-> (n \div S) + 1, pending |-> 0]
    BY <1>4, Sizes DEF FinishedPhases
  <2>1. DoneWith(n) = Warps
    BY DEF DoneWith
  <2>2. (n \div S) + 1 = 0
    BY <1>1
  <2> QED
    BY <2>1, <2>2, NextTurn DEF Fresh
<1> QED
  BY <1>3, <1>5, <1>6, <1>7, <1>8 DEF RingInv

(* A slot that may be filled was given back by every warp.                 *)
LEMMA SlotFree ==
  ASSUME RingInv, LoadInstruction
  PROVE  \A w \in Warps : instruction_index[w] > fetch - S
<1>1. fetch \in Int /\ S \in Nat \ {0} /\ instruction_index \in [Warps -> Nat]
  BY Sizes DEF RingInv, RingTypeOK
<1>2. CASE fetch < S
  BY <1>1, <1>2
<1>3. CASE fetch >= S
  <2> DEFINE n == fetch - S
  <2>1. n \in Int /\ Loaded - S <= n /\ n < Loaded /\ Ring(n) = Ring(fetch)
    BY <1>1, NextTurn DEF Loaded, LoadInstruction
  <2>2. instruction_finished[Ring(n)] =
          IF DoneWith(n) = Warps THEN [phase |-> (n \div S) + 1, pending |-> 0]
          ELSE [phase |-> n \div S, pending |-> Cardinality(DoneWith(n))]
    BY <2>1 DEF RingInv, FinishedPhases
  <2>3. Passed(instruction_finished[Ring(n)], Parity(n))
    BY <1>1, <1>3, <2>1 DEF LoadInstruction, S
  <2> HIDE DEF n
  <2>4. instruction_finished[Ring(n)].phase = (n \div S) + 1
    BY <2>1, <2>2, <2>3, ParityTells
  <2>5. n \div S \in Int
    BY <2>1, <1>1, Division
  <2>6. DoneWith(n) = Warps
    BY <2>2, <2>4, <2>5
  <2> QED
    BY <2>6 DEF DoneWith, n
<1> QED
  BY <1>1, <1>2, <1>3

LEMMA LoadInv ==
  ASSUME RingInv, LoadInstruction
  PROVE  RingInv'
<1> USE DEF LoadInstruction
<1>1. /\ fetch \in 0 .. num_iters /\ S \in Nat \ {0} /\ num_iters \in Nat
      /\ instruction_index \in [Warps -> Nat]
      /\ slot \in [Slots -> Int]
  BY Sizes DEF RingInv, RingTypeOK
<1>2. Loaded = fetch /\ Loaded' = fetch + 1
  BY DEF Loaded
<1>3. RingTypeOK'
  <2>1. fetch \in Int
    BY <1>1
  <2>2. slot' \in [Slots -> Int]
    BY <1>1, <2>1, NextTurn
  <2> QED
    BY <2>2 DEF RingInv, RingTypeOK
<1>4. InWindow'
  BY <1>1, <1>2, SlotFree DEF RingInv, InWindow
<1>5. SlotsHold'
  <2> SUFFICES ASSUME NEW n \in Int, 0 <= n, fetch + 1 - S <= n, n < fetch + 1
               PROVE  slot'[Ring(n)] = n
    BY <1>1, <1>2 DEF SlotsHold
  <2>1. CASE n = fetch
    BY <2>1, <1>1, NextTurn
  <2>2. CASE n # fetch
    <3>1. n < fetch /\ fetch < n + S /\ fetch \in Int
      BY <1>1, <2>2
    <3>2. Ring(n) # Ring(fetch) /\ Ring(n) \in Slots
      BY <3>1, Apart, NextTurn
    <3>3. slot[Ring(n)] = n
      BY <1>1, <1>2, <3>1 DEF RingInv, SlotsHold
    <3> QED
      BY <1>1, <3>2, <3>3
  <2> QED
    BY <2>1, <2>2
<1>6. ArrivedPhases'
  BY DEF RingInv, ArrivedPhases
<1>7. FinishedPhases'
  <2> SUFFICES ASSUME NEW n \in Int, fetch + 1 - S <= n, n < fetch + 1
               PROVE  instruction_finished[Ring(n)] =
                        IF DoneWith(n) = Warps THEN [phase |-> (n \div S) + 1, pending |-> 0]
                        ELSE [phase |-> n \div S, pending |-> Cardinality(DoneWith(n))]
    BY <1>1, <1>2 DEF FinishedPhases, DoneWith
  <2>1. CASE n < fetch
    BY <1>1, <1>2, <2>1 DEF RingInv, FinishedPhases
  <2>2. CASE n = fetch
    <3>1. DoneWith(n) = {}
      BY <1>1, <2>2 DEF RingInv, InWindow, DoneWith
    <3>2. Cardinality(DoneWith(n)) = 0 /\ DoneWith(n) # Warps
      BY <3>1, Sizes, FS_EmptySet
    <3>3. DoneWith(n - S) = Warps
      BY <1>1, <2>2, SlotFree DEF DoneWith
    <3>4. n - S \in Int /\ Loaded - S <= n - S /\ n - S < Loaded
      BY <1>1, <1>2, <2>2
    <3>5. instruction_finished[Ring(n - S)] = [phase |-> ((n - S) \div S) + 1, pending |-> 0]
      BY <3>3, <3>4 DEF RingInv, FinishedPhases
    <3>6. Ring(n - S) = Ring(n) /\ (n - S) \div S = (n \div S) - 1 /\ n \div S \in Int
      BY <1>1, NextTurn, Division
    <3>7. ((n - S) \div S) + 1 = n \div S
      BY <3>6
    <3> QED
      BY <3>2, <3>5, <3>6, <3>7
  <2> QED
    BY <1>1, <2>1, <2>2
<1> QED
  BY <1>3, <1>4, <1>5, <1>6, <1>7 DEF RingInv

LEMMA PublishInv ==
  ASSUME RingInv, Publish
  PROVE  RingInv'
<1> USE DEF Publish
<1>1. /\ fetch \in 0 .. num_iters /\ fetch < num_iters /\ S \in Nat \ {0} /\ num_iters \in Nat
      /\ instruction_index \in [Warps -> Nat]
      /\ instruction_arrived \in [Slots -> Semaphore]
  BY Sizes DEF RingInv, RingTypeOK
<1>2. Loaded = fetch + 1 /\ Loaded' = fetch + 1
  BY DEF Loaded
<1> DEFINE q == fetch \div S
<1>3. q \in Int /\ Ring(fetch) \in Slots
  BY <1>1, Division, NextTurn
<1>4. instruction_arrived[Ring(fetch)] = [phase |-> q, pending |-> 0]
  BY <1>1 DEF RingInv, ArrivedPhases
<1> HIDE DEF q
<1>5. instruction_arrived' = [instruction_arrived EXCEPT ![Ring(fetch)] = [phase |-> q + 1, pending |-> 0]]
  <2>1. Arrive([phase |-> q, pending |-> 0], 1, 1) = [phase |-> q + 1, pending |-> 0]
    BY <1>3, ArriveLast
  <2> QED
    BY <1>4, <2>1
<1>6. RingTypeOK'
  BY <1>1, <1>3, <1>5 DEF RingInv, RingTypeOK, Semaphore
<1>7. InWindow'
  BY <1>1, <1>2 DEF RingInv, InWindow
<1>8. SlotsHold'
  BY <1>2 DEF RingInv, SlotsHold
<1>9. ArrivedPhases'
  <2> SUFFICES ASSUME NEW n \in Int, fetch + 1 <= n, n < fetch + 1 + S
               PROVE  instruction_arrived'[Ring(n)] = [phase |-> n \div S, pending |-> 0]
    BY DEF ArrivedPhases
  <2>1. CASE n < fetch + S
    <3>1. fetch \in Int /\ fetch < n
      BY <1>1
    <3>2. Ring(n) # Ring(fetch) /\ Ring(n) \in Slots
      BY <2>1, <3>1, Apart, NextTurn
    <3>3. instruction_arrived[Ring(n)] = [phase |-> n \div S, pending |-> 0]
      <4>1. fetch <= n /\ n < fetch + S
        BY <2>1, <3>1
      <4> QED
        BY <4>1 DEF RingInv, ArrivedPhases
    <3> QED
      BY <1>1, <1>5, <3>2, <3>3
  <2>2. CASE n = fetch + S
    <3>1. Ring(n - S) = Ring(n) /\ (n - S) \div S = (n \div S) - 1 /\ n \div S \in Int
      BY <1>1, NextTurn, Division
    <3>2. n - S = fetch
      BY <1>1, <2>2
    <3>3. Ring(n) = Ring(fetch) /\ n \div S = q + 1
      BY <3>1, <3>2 DEF q
    <3>4. instruction_arrived'[Ring(fetch)] = [phase |-> q + 1, pending |-> 0]
      BY <1>1, <1>3, <1>5
    <3> QED
      BY <3>3, <3>4
  <2> QED
    BY <1>1, <2>1, <2>2
<1>10. FinishedPhases'
  BY <1>2 DEF RingInv, FinishedPhases, DoneWith
<1> QED
  BY <1>6, <1>7, <1>8, <1>9, <1>10 DEF RingInv

(* A warp that passes finds its instruction published.                     *)
LEMMA AwaitTells ==
  ASSUME RingInv, NEW w \in Warps, AwaitInstruction(w)
  PROVE  instruction_index[w] < fetch
<1> DEFINE n == instruction_index[w]
<1>1. n \in Int /\ n <= fetch /\ fetch \in Int /\ S \in Nat \ {0}
  BY Sizes DEF RingInv, RingTypeOK, InWindow
<1>2. SUFFICES ASSUME n = fetch PROVE FALSE
  BY <1>1
<1>3. instruction_arrived[Ring(n)] = [phase |-> n \div S, pending |-> 0]
  BY <1>1, <1>2 DEF RingInv, ArrivedPhases
<1>4. Passed(instruction_arrived[Ring(n)], Parity(n))
  BY DEF AwaitInstruction
<1>5. n \div S \in Int
  BY <1>1, Division
<1> HIDE DEF n
<1>6. instruction_arrived[Ring(n)].phase = (n \div S) + 1
  BY <1>1, <1>3, <1>4, ParityTells
<1> QED
  BY <1>3, <1>5, <1>6

LEMMA AwaitInv ==
  ASSUME RingInv, NEW w \in Warps, AwaitInstruction(w)
  PROVE  RingInv'
<1> USE DEF AwaitInstruction, controller
<1>1. instruction_index[w] < fetch
  BY AwaitTells
<1>2. Loaded' = Loaded
  BY DEF Loaded
<1>3. RingTypeOK'
  BY DEF RingInv, RingTypeOK
<1>4. InWindow'
  BY <1>1, <1>2 DEF RingInv, RingTypeOK, InWindow
<1>5. SlotsHold' /\ ArrivedPhases' /\ FinishedPhases'
  BY <1>2 DEF RingInv, SlotsHold, ArrivedPhases, FinishedPhases, DoneWith
<1> QED
  BY <1>3, <1>4, <1>5 DEF RingInv

LEMMA NextInv ==
  ASSUME RingInv, NEW w \in Warps, NextInstruction(w),
         NEW i \in Int, instruction_index[w] = i
  PROVE  RingInv'
<1> USE DEF NextInstruction, controller
<1> DEFINE q == i \div S
           c == Cardinality(DoneWith(i))
<1>1. /\ S \in Nat \ {0} /\ i \in Nat /\ i < fetch /\ Loaded - S <= i /\ i < Loaded
      /\ fetch \in Int /\ Loaded \in Int
      /\ instruction_index \in [Warps -> Nat]
      /\ instruction_finished \in [Slots -> Semaphore]
  BY Sizes DEF RingInv, RingTypeOK, InWindow, Loaded
<1>2. Loaded' = Loaded
  BY DEF Loaded
<1>3. q \in Int /\ Ring(i) \in Slots
  BY <1>1, Division, NextTurn
<1>4. w \notin DoneWith(i) /\ DoneWith(i) # Warps /\ IsFiniteSet(DoneWith(i)) /\ c \in Nat
  <2>1. w \notin DoneWith(i)
    BY <1>1 DEF DoneWith
  <2>2. DoneWith(i) \subseteq Warps
    BY DEF DoneWith
  <2>3. IsFiniteSet(DoneWith(i))
    BY <2>2, Sizes, FS_Subset
  <2> QED
    BY <2>1, <2>3, FS_CardinalityType
<1>5. instruction_finished[Ring(i)] = [phase |-> q, pending |-> c]
  BY <1>1, <1>4 DEF RingInv, FinishedPhases
<1>6. DoneWith(i)' = DoneWith(i) \cup {w}
  BY <1>1 DEF DoneWith
<1>7. Cardinality(DoneWith(i)') = c + 1
  BY <1>4, <1>6, FS_AddElement
<1>8. c + 1 <= Cardinality(Warps) /\ (c + 1 = Cardinality(Warps) <=> DoneWith(i)' = Warps)
  <2>1. DoneWith(i)' \subseteq Warps
    BY <1>6 DEF DoneWith
  <2> QED
    BY <1>7, <2>1, Sizes, FS_Subset
<1>9. \A n \in Int : n # i => DoneWith(n)' = DoneWith(n)
  BY <1>1 DEF DoneWith
<1>10. instruction_finished' = [instruction_finished EXCEPT ![Ring(i)] =
                                 Arrive(@, 1, Cardinality(Warps))]
  BY Sizes
<1> HIDE DEF q, c
<1>11. instruction_finished'[Ring(i)] =
         IF DoneWith(i)' = Warps THEN [phase |-> q + 1, pending |-> 0]
         ELSE [phase |-> q, pending |-> c + 1]
  <2>1. CASE DoneWith(i)' = Warps
    <3>0. c \in Int
      BY <1>4
    <3>1. Arrive([phase |-> q, pending |-> c], 1, c + 1) = [phase |-> q + 1, pending |-> 0]
      BY <1>3, <3>0, ArriveLast
    <3> QED
      BY <1>1, <1>3, <1>5, <1>8, <1>10, <2>1, <3>1
  <2>2. CASE DoneWith(i)' # Warps
    <3>1. c + 1 < Cardinality(Warps)
      BY <1>4, <1>8, <2>2, Sizes
    <3>2. Arrive([phase |-> q, pending |-> c], 1, Cardinality(Warps)) = [phase |-> q, pending |-> c + 1]
      BY <1>3, <1>4, <3>1, Sizes, ArrivePending
    <3> QED
      BY <1>1, <1>3, <1>5, <1>10, <2>2, <3>2
  <2> QED
    BY <2>1, <2>2
<1>12. RingTypeOK'
  <2>1. instruction_finished'[Ring(i)] \in Semaphore
    BY <1>3, <1>4, <1>11 DEF Semaphore
  <2>2. instruction_finished' \in [Slots -> Semaphore]
    BY <1>1, <1>3, <1>10, <2>1
  <2> QED
    BY <1>1, <2>2 DEF RingInv, RingTypeOK
<1>13. InWindow'
  BY <1>1, <1>2 DEF RingInv, RingTypeOK, InWindow
<1>14. SlotsHold' /\ ArrivedPhases'
  BY <1>2 DEF RingInv, SlotsHold, ArrivedPhases
<1>15. FinishedPhases'
  <2> SUFFICES ASSUME NEW n \in Int, Loaded - S <= n, n < Loaded
               PROVE  instruction_finished'[Ring(n)] =
                        IF DoneWith(n)' = Warps THEN [phase |-> (n \div S) + 1, pending |-> 0]
                        ELSE [phase |-> n \div S, pending |-> Cardinality(DoneWith(n)')]
    BY <1>2 DEF FinishedPhases
  <2>1. CASE n = i
    BY <1>7, <1>11, <2>1 DEF q
  <2>2. CASE n # i
    <3>1. Ring(n) # Ring(i) /\ Ring(n) \in Slots
      <4>1. (n < i /\ i < n + S) \/ (i < n /\ n < i + S)
        BY <1>1, <2>2
      <4> QED
        BY <1>1, <4>1, Apart, NextTurn
    <3>2. instruction_finished'[Ring(n)] = instruction_finished[Ring(n)]
      BY <1>1, <1>10, <3>1
    <3> QED
      BY <1>9, <2>2, <3>2 DEF RingInv, FinishedPhases
  <2> QED
    BY <2>1, <2>2
<1> QED
  BY <1>12, <1>13, <1>14, <1>15 DEF RingInv

LEMMA StepInv == RingInv /\ [RingNext]_ring_vars => RingInv'
<1> SUFFICES ASSUME RingInv, [RingNext]_ring_vars PROVE RingInv'
  OBVIOUS
<1>1. CASE LoadInstruction
  BY <1>1, LoadInv
<1>2. CASE Publish
  BY <1>2, PublishInv
<1>3. CASE Drain \/ UNCHANGED ring_vars
  <2>1. UNCHANGED <<instruction_arrived, instruction_finished, slot, step, fetch,
                    instruction_index, running>>
    BY <1>3 DEF Drain, ring_vars, controller
  <2>2. Loaded' = Loaded
    BY <2>1 DEF Loaded
  <2> QED
    BY <2>1, <2>2 DEF RingInv, RingTypeOK, InWindow, SlotsHold, ArrivedPhases, FinishedPhases, DoneWith
<1>4. ASSUME NEW w \in Warps, AwaitInstruction(w) PROVE RingInv'
  BY <1>4, AwaitInv
<1>5. ASSUME NEW w \in Warps, NextInstruction(w) PROVE RingInv'
  <2>1. instruction_index[w] \in Int
    BY DEF RingInv, RingTypeOK
  <2> QED
    BY <1>5, <2>1, NextInv
<1> QED
  BY <1>1, <1>2, <1>3, <1>4, <1>5 DEF RingNext

LEMMA InvTheorem == RingSpec => []RingInv
<1>1. RingInit => RingInv
  BY InitInv
<1>2. RingInv /\ [RingNext]_ring_vars => RingInv'
  BY StepInv
<1> QED
  BY <1>1, <1>2, PTL DEF RingSpec

------------------------------------------------------------------------------
(* A running warp has its instruction in its slot.                         *)
THEOREM SlotHeldTheorem == RingSpec => []SlotHeld
<1>1. RingInv => SlotHeld
  <2> SUFFICES ASSUME RingInv, NEW w \in Warps, running[w]
               PROVE  slot[Ring(instruction_index[w])] = instruction_index[w]
    BY DEF SlotHeld
  <2> DEFINE n == instruction_index[w]
  <2>1. n \in Int /\ 0 <= n /\ Loaded - S <= n /\ n < fetch /\ fetch \in Int
    BY DEF RingInv, RingTypeOK, InWindow
  <2>2. n < Loaded
    BY <2>1 DEF Loaded
  <2> HIDE DEF n
  <2>3. slot[Ring(n)] = n
    BY <2>1, <2>2 DEF RingInv, SlotsHold
  <2> QED
    BY <2>3 DEF n
<1> QED
  BY <1>1, InvTheorem, PTL

(* The ring implements the window: slots and parities can be forgotten.    *)
THEOREM RefinementTheorem == RingSpec => Window!Spec
<1> USE DEF Window!Init, Window!Next, Window!Publish, Window!Begin, Window!End, Window!vars
<1>1. RingInit => Window!Init
  BY DEF RingInit
<1>2. RingInv /\ [RingNext]_ring_vars => [Window!Next]_(Window!vars)
  <2> SUFFICES ASSUME RingInv, [RingNext]_ring_vars PROVE [Window!Next]_(Window!vars)
    OBVIOUS
  <2>1. CASE LoadInstruction
    BY <2>1 DEF LoadInstruction
  <2>2. CASE Publish
    <3>1. fetch < num_iters /\ Loaded = fetch + 1 /\ fetch \in Int /\ S \in Int
      BY <2>2, Sizes DEF RingInv, RingTypeOK, Publish, Loaded
    <3>2. \A w \in Warps : instruction_index[w] \in Int /\ fetch + 1 - S <= instruction_index[w]
      BY <3>1 DEF RingInv, RingTypeOK, InWindow
    <3>3. \A w \in Warps : fetch - instruction_index[w] < INSTRUCTION_PIPELINE_STAGES
      BY <3>1, <3>2 DEF S
    <3> QED
      BY <2>2, <3>1, <3>3 DEF Publish
  <2>3. CASE Drain \/ UNCHANGED ring_vars
    BY <2>3 DEF Drain, ring_vars, controller
  <2>4. ASSUME NEW w \in Warps, AwaitInstruction(w) PROVE Window!Begin(w)
    BY <2>4, AwaitTells DEF AwaitInstruction, controller
  <2>5. ASSUME NEW w \in Warps, NextInstruction(w) PROVE Window!End(w)
    BY <2>5 DEF NextInstruction, controller
  <2> QED
    BY <2>1, <2>2, <2>3, <2>4, <2>5 DEF RingNext
<1> QED
  BY <1>1, <1>2, InvTheorem, PTL DEF RingSpec, Window!Spec
===============================================================================
