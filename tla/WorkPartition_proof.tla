-------------------------- MODULE WorkPartition_proof --------------------------
(* What the two partitions of WorkPartition guarantee for every number of    *)
(* elements and of parts.                                                    *)
EXTENDS WorkPartition, TLAPS

(* Division with remainder, in the form the proofs use.                      *)
LEMMA DivMod ==
  ASSUME NEW n \in Nat, NEW k \in Nat, k > 0
  PROVE  /\ n \div k \in Nat
         /\ n % k \in Nat
         /\ n % k < k
         /\ n = (n \div k) * k + (n % k)
  OBVIOUS

(* Growing the larger factor does not shrink a product.                      *)
LEMMA MulMono ==
  ASSUME NEW a \in Nat, NEW b \in Nat, NEW c \in Nat, a <= b
  PROVE  a * c <= b * c
  OBVIOUS

(* A quotient is pinned down by the interval its dividend lies in.           *)
LEMMA DivUpper ==
  ASSUME NEW x \in Nat, NEW c \in Nat, c > 0, NEW s \in Nat, x < c * (s + 1)
  PROVE  x \div c <= s
<1> DEFINE d == x \div c
<1>1. d \in Nat /\ x % c \in Nat /\ x = d * c + (x % c)
  BY DivMod
<1>2. SUFFICES ASSUME d >= s + 1 PROVE FALSE
  BY <1>1
<1>3. (s + 1) * c <= d * c
  BY <1>1, <1>2, MulMono
<1> QED
  BY <1>1, <1>3

(* get_first_last_ids: the intervals of neighbouring parts abut, they start  *)
(* at 0 and end at num_elements.                                             *)
THEOREM PartsAbut ==
  ASSUME NEW n \in Nat, NEW k \in Nat, k > 0
  PROVE  /\ FirstId(n, k, 0) = 0
         /\ \A i \in 0..k - 1 : /\ FirstId(n, k, i) \in Nat
                                /\ LastId(n, k, i) = FirstId(n, k, i + 1)
                                /\ FirstId(n, k, i) <= LastId(n, k, i)
         /\ FirstId(n, k, k) = n
<1> DEFINE q == n \div k
           r == n % k
<1>1. q \in Nat /\ r \in Nat /\ r < k /\ n = q * k + r
  BY DivMod
<1>2. FirstId(n, k, 0) = 0
  BY <1>1 DEF FirstId
<1>3. ASSUME NEW i \in 0..k - 1
      PROVE  /\ FirstId(n, k, i) \in Nat
             /\ LastId(n, k, i) = FirstId(n, k, i + 1)
             /\ FirstId(n, k, i) <= LastId(n, k, i)
  <2> HIDE DEF q, r
  <2>1. /\ q * i \in Nat /\ q * (i + 1) = q * i + q
        /\ (q + 1) * i = q * i + i /\ (q + 1) * (i + 1) = q * i + q + i + 1
    BY <1>1
  <2>2. FirstId(n, k, i) = IF i < r THEN (q + 1) * i ELSE q * i + r
    BY DEF FirstId, q, r
  <2>3. FirstId(n, k, i + 1) = IF i + 1 < r THEN (q + 1) * (i + 1) ELSE q * (i + 1) + r
    BY DEF FirstId, q, r
  <2>4. LastId(n, k, i) = FirstId(n, k, i) + (IF i < r THEN q + 1 ELSE q)
    BY DEF LastId, q, r
  <2> QED
    BY <1>1, <2>1, <2>2, <2>3, <2>4
<1>4. FirstId(n, k, k) = n
  BY <1>1 DEF FirstId
<1> QED
  BY <1>2, <1>3, <1>4

(* FirstId in closed form, for every boundary.                               *)
LEMMA Boundary ==
  ASSUME NEW n \in Nat, NEW k \in Nat, k > 0, NEW i \in Nat
  PROVE  FirstId(n, k, i) = (n \div k) * i + (IF i < n % k THEN i ELSE n % k)
<1> DEFINE q == n \div k
           r == n % k
<1>1. q \in Nat /\ r \in Nat
  BY DivMod
<1>2. FirstId(n, k, i) = IF i < r THEN (q + 1) * i ELSE q * i + r
  BY DEF FirstId
<1> HIDE DEF q, r
<1>3. q * i \in Nat /\ (q + 1) * i = q * i + i
  BY <1>1
<1>4. FirstId(n, k, i) = q * i + (IF i < r THEN i ELSE r)
  BY <1>2, <1>3
<1> QED
  BY <1>4 DEF q, r

(* Boundaries come in order.                                                 *)
LEMMA BoundaryMono ==
  ASSUME NEW n \in Nat, NEW k \in Nat, k > 0,
         NEW i \in Nat, NEW j \in Nat, i <= j
  PROVE  FirstId(n, k, i) <= FirstId(n, k, j)
<1> DEFINE q == n \div k
           r == n % k
<1>1. q \in Nat /\ r \in Nat
  BY DivMod
<1>2. /\ FirstId(n, k, i) = q * i + (IF i < r THEN i ELSE r)
      /\ FirstId(n, k, j) = q * j + (IF j < r THEN j ELSE r)
  BY Boundary
<1> HIDE DEF q, r
<1>3. q * i \in Nat /\ q * j \in Nat /\ q * i <= q * j
  BY <1>1, MulMono
<1> QED
  BY <1>1, <1>2, <1>3

LEMMA BoundaryNat ==
  ASSUME NEW n \in Nat, NEW k \in Nat, k > 0, NEW i \in Nat
  PROVE  FirstId(n, k, i) \in Nat
<1> DEFINE q == n \div k
           r == n % k
<1>1. q \in Nat /\ r \in Nat
  BY DivMod
<1>2. FirstId(n, k, i) = q * i + (IF i < r THEN i ELSE r)
  BY Boundary
<1> HIDE DEF q, r
<1>3. q * i \in Nat
  BY <1>1
<1> QED
  BY <1>1, <1>2, <1>3

(* get_first_last_ids gives no element to two parts: no two schedulers write *)
(* the queue of the same worker.                                             *)
THEOREM PartsDisjoint ==
  ASSUME NEW n \in Nat, NEW k \in Nat, k > 0,
         NEW i \in 0..k - 1, NEW j \in 0..k - 1, i # j
  PROVE  OwnIds(n, k, i) \cap OwnIds(n, k, j) = {}
<1>1. ASSUME NEW a \in 0..k - 1, NEW b \in 0..k - 1, a < b
      PROVE  OwnIds(n, k, a) \cap OwnIds(n, k, b) = {}
  <2>1. /\ LastId(n, k, a) = FirstId(n, k, a + 1)
        /\ FirstId(n, k, a) \in Nat /\ FirstId(n, k, b) \in Nat
        /\ LastId(n, k, b) = FirstId(n, k, b + 1)
    BY PartsAbut
  <2>2. FirstId(n, k, a + 1) \in Nat /\ FirstId(n, k, b + 1) \in Nat
    <3>1. a + 1 \in Nat /\ b + 1 \in Nat
      OBVIOUS
    <3> QED
      BY <3>1, BoundaryNat
  <2>3. FirstId(n, k, a + 1) <= FirstId(n, k, b)
    BY <1>1, BoundaryMono
  <2> QED
    BY <2>1, <2>2, <2>3 DEF OwnIds
<1> QED
  BY <1>1

(* get_first_last_ids leaves no element out: every worker has an owner and   *)
(* is sent its share and its terminate task.                                 *)
THEOREM PartsCover ==
  ASSUME NEW n \in Nat, NEW k \in Nat, k > 0, NEW x \in 0..n - 1
  PROVE  \E i \in 0..k - 1 : x \in OwnIds(n, k, i)
<1> DEFINE q == n \div k
           r == n % k
<1>1. q \in Nat /\ r \in Nat /\ r < k /\ n = q * k + r
  BY DivMod
<1>2. \A i \in 0..k - 1 :
        /\ FirstId(n, k, i) = q * i + (IF i < r THEN i ELSE r)
        /\ LastId(n, k, i) = FirstId(n, k, i) + (IF i < r THEN q + 1 ELSE q)
  BY Boundary DEF LastId
<1> HIDE DEF q, r
<1>3. CASE x < (q + 1) * r
  <2> DEFINE i == x \div (q + 1)
             f == x % (q + 1)
  <2>0. x \in Nat /\ q + 1 \in Nat /\ q + 1 > 0
    BY <1>1
  <2>1. i \in Nat /\ f \in Nat /\ f < q + 1 /\ x = i * (q + 1) + f
    BY <2>0, DivMod
  <2> HIDE DEF i, f
  <2>2. i < r
    <3>1. SUFFICES ASSUME r <= i PROVE FALSE
      BY <1>1, <2>1
    <3>2. r * (q + 1) <= i * (q + 1)
      BY <1>1, <2>1, <3>1, MulMono
    <3> QED
      BY <1>1, <1>3, <2>1, <3>2
  <2>3. i \in 0..k - 1
    BY <1>1, <2>1, <2>2
  <2>4. FirstId(n, k, i) = q * i + i /\ LastId(n, k, i) = q * i + i + (q + 1)
    BY <1>2, <2>2, <2>3
  <2>5. q * i \in Nat /\ i * (q + 1) = q * i + i
    BY <1>1, <2>1
  <2>6. x \in OwnIds(n, k, i)
    BY <1>1, <2>1, <2>4, <2>5 DEF OwnIds
  <2> QED
    BY <2>3, <2>6
<1>4. CASE ~(x < (q + 1) * r)
  <2> DEFINE d == x - (q + 1) * r
             e == d \div q
             f == d % q
  <2>1. (q + 1) * r \in Nat /\ (q + 1) * r = q * r + r /\ q * r \in Nat
    BY <1>1
  <2>2. q > 0 /\ d \in Nat /\ x = (q + 1) * r + d
    BY <1>1, <1>4, <2>1
  <2> HIDE DEF d
  <2>3. e \in Nat /\ f \in Nat /\ f < q /\ d = e * q + f
    BY <1>1, <2>2, DivMod
  <2> HIDE DEF e, f
  <2>4. x = q * r + r + e * q + f
    BY <1>1, <2>1, <2>2, <2>3
  <2>5. r + e < k
    <3>1. SUFFICES ASSUME k <= r + e PROVE FALSE
      BY <1>1, <2>3
    <3>2. k * q <= (r + e) * q
      BY <1>1, <2>3, <3>1, MulMono
    <3>3. (r + e) * q = q * r + e * q /\ k * q = q * k
      BY <1>1, <2>3
    <3> QED
      BY <1>1, <2>1, <2>3, <2>4, <3>2, <3>3
  <2>6. r + e \in 0..k - 1
    BY <1>1, <2>3, <2>5
  <2>7. /\ FirstId(n, k, r + e) = q * (r + e) + r
        /\ LastId(n, k, r + e) = q * (r + e) + r + q
    <3>1. ~(r + e < r)
      BY <1>1, <2>3
    <3> QED
      BY <1>2, <2>6, <3>1
  <2>8. q * (r + e) = q * r + e * q /\ e * q \in Nat
    BY <1>1, <2>3
  <2>9. x \in OwnIds(n, k, r + e)
    BY <1>1, <2>1, <2>3, <2>4, <2>7, <2>8 DEF OwnIds
  <2> QED
    BY <2>6, <2>9
<1> QED
  BY <1>3, <1>4

(* The block width of get_rand_sched_id is the ceiling of the share.         *)
LEMMA CeilShare ==
  ASSUME NEW n \in Nat, NEW k \in Nat, k > 0
  PROVE  (n + k - 1) \div k = (n \div k) + (IF n % k = 0 THEN 0 ELSE 1)
<1> DEFINE q == n \div k
           r == n % k
           d == (n + k - 1) \div k
           f == (n + k - 1) % k
<1>1. q \in Nat /\ r \in Nat /\ r < k /\ n = q * k + r
  BY DivMod
<1>2. d \in Nat /\ f \in Nat /\ f < k /\ n + k - 1 = d * k + f
  BY DivMod
<1> HIDE DEF q, r, d, f
<1>3. q * k + r + k - 1 = d * k + f
  BY <1>1, <1>2
<1>4. (q + 2) * k = q * k + 2 * k /\ (q + 1) * k = q * k + k
  BY <1>1
<1>5. d < q + 2
  <2>1. SUFFICES ASSUME q + 2 <= d PROVE FALSE
    BY <1>1, <1>2
  <2>2. (q + 2) * k <= d * k
    BY <1>1, <1>2, <2>1, MulMono
  <2> QED
    BY <1>1, <1>2, <1>3, <1>4, <2>2
<1>6. q <= d
  <2>1. SUFFICES ASSUME d + 1 <= q PROVE FALSE
    BY <1>1, <1>2
  <2>2. (d + 1) * k <= q * k /\ (d + 1) * k = d * k + k
    BY <1>1, <1>2, <2>1, MulMono
  <2> QED
    BY <1>1, <1>2, <1>3, <2>2
<1>7. CASE r = 0
  <2>1. d # q + 1
    BY <1>1, <1>2, <1>3, <1>4, <1>7
  <2> QED
    BY <1>1, <1>2, <1>5, <1>6, <1>7, <2>1 DEF q, r, d
<1>8. CASE r # 0
  <2>1. d # q
    BY <1>1, <1>2, <1>3, <1>8
  <2> QED
    BY <1>1, <1>2, <1>5, <1>6, <1>8, <2>1 DEF q, r, d
<1> QED
  BY <1>7, <1>8

(* get_rand_sched_id never names a scheduler behind the owner of the worker: *)
(* the two partitions may disagree, but only in this direction.              *)
THEOREM RandNotAfterOwner ==
  ASSUME NEW n \in Nat, NEW k \in Nat, k > 0,
         NEW s \in 0..k - 1, NEW w \in OwnIds(n, k, s), w \in Nat
  PROVE  get_rand_sched_id(w, n, k) \in 0..s
<1> DEFINE q == n \div k
           r == n % k
           c == (n + k - 1) \div k
<1>1. q \in Nat /\ r \in Nat /\ r < k
  BY DivMod
<1>2. c = q + (IF r = 0 THEN 0 ELSE 1)
  BY CeilShare
<1>3. /\ FirstId(n, k, s) = q * s + (IF s < r THEN s ELSE r)
      /\ LastId(n, k, s) = FirstId(n, k, s) + (IF s < r THEN q + 1 ELSE q)
  BY Boundary DEF LastId
<1>4. get_rand_sched_id(w, n, k) = w \div c
  BY DEF get_rand_sched_id
<1>5. FirstId(n, k, s) <= w /\ w < LastId(n, k, s) /\ FirstId(n, k, s) \in Nat
  <2>1. FirstId(n, k, s) \in Nat /\ LastId(n, k, s) \in Nat
    BY PartsAbut, <1>3, <1>1
  <2> QED
    BY <2>1 DEF OwnIds
<1> HIDE DEF q, r, c
<1>6. q * s \in Nat /\ q * (s + 1) = q * s + q /\ (q + 1) * (s + 1) = q * s + q + s + 1
  BY <1>1
<1>7. c > 0 /\ c \in Nat
  BY <1>1, <1>2, <1>3, <1>5, <1>6
<1>8. w < c * (s + 1)
  <2>1. CASE r = 0
    BY <1>1, <1>2, <1>3, <1>5, <1>6, <2>1
  <2>2. CASE r # 0
    BY <1>1, <1>2, <1>3, <1>5, <1>6, <2>2
  <2> QED
    BY <2>1, <2>2
<1>9. w \div c \in Nat /\ w \div c <= s
  BY <1>7, <1>8, DivUpper, DivMod
<1> QED
  BY <1>4, <1>9

(* Shares do not grow with the index: the scheduler that get_rand_sched_id   *)
(* picks has workers of its own.                                             *)
THEOREM RandHasWorkers ==
  ASSUME NEW n \in Nat, NEW k \in Nat, k > 0,
         NEW s \in 0..k - 1, NEW w \in OwnIds(n, k, s), w \in Nat
  PROVE  OwnIds(n, k, get_rand_sched_id(w, n, k)) # {}
<1> DEFINE t == get_rand_sched_id(w, n, k)
           q == n \div k
           r == n % k
<1>1. t \in 0..s
  BY RandNotAfterOwner
<1>2. q \in Nat /\ r \in Nat
  BY DivMod
<1>3. \A i \in 0..k - 1 : /\ LastId(n, k, i) = FirstId(n, k, i) + (IF i < r THEN q + 1 ELSE q)
                          /\ FirstId(n, k, i) \in Nat
  BY PartsAbut DEF LastId
<1> HIDE DEF t, q, r
<1>4. FirstId(n, k, s) < LastId(n, k, s)
  BY <1>2, <1>3 DEF OwnIds
<1>5. FirstId(n, k, t) < LastId(n, k, t) /\ FirstId(n, k, t) \in Nat
  BY <1>1, <1>2, <1>3, <1>4
<1>6. LastId(n, k, t) \in Nat
  BY <1>1, <1>2, <1>3
<1>7. FirstId(n, k, t) \in OwnIds(n, k, t)
  BY <1>5, <1>6 DEF OwnIds
<1> QED
  BY <1>7 DEF t
==============================================================================
