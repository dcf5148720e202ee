-------------------------- MODULE SymmKernels_proof ---------------------------
(***************************************************************************)
(* Proofs about SymmKernels, for any number of ranks and CTAs, any width   *)
(* of the grid barrier's word and any programs that keep to what           *)
(* ProgramsAssumption says of the kernels.                                 *)
(***************************************************************************)
EXTENDS SymmOrder, FiniteSetTheorems, TLAPS

------------------------------------------------------------------------------
(* Programs and their instructions.                                        *)

LEMMA ProgramKept ==
    ASSUME [Next]_vars
    PROVE  prog' = prog
<1> USE DEF host
<1>1. ASSUME NEW r \in Ranks, Launch(r) PROVE prog' = prog
  BY <1>1 DEF Launch
<1>2. ASSUME NEW r \in Ranks, NEW t \in Ranks, Store(r, t) \/ See(r, t) PROVE prog' = prog
  BY <1>2 DEF Store, See
<1>3. ASSUME NEW r \in Ranks,
             SyncThreads(r) \/ ComeToSync(r) \/ GoFromSync(r) \/ Clear(r)
      PROVE  prog' = prog
  BY <1>3 DEF SyncThreads, ComeToSync, GoFromSync, Clear
<1>4. ASSUME NEW r \in Ranks, NEW c \in CTAs,
             PassBy(r, c) \/ Arrive(r, c) \/ Depart(r, c)
      PROVE  prog' = prog
  BY <1>4 DEF PassBy, Arrive, Depart
<1>5. ASSUME NEW r \in Ranks, NEW c \in CTAs,
             MoveData(r, c) \/ Await(r, c) \/ SetReady(r, c)
      PROVE  prog' = prog
  BY <1>5 DEF MoveData, Await, SetReady
<1>6. ASSUME NEW p \in puts, Deliver(p) PROVE prog' = prog
  BY <1>6 DEF Deliver
<1>7. ASSUME NEW r \in Ranks, WaitReady(r) \/ CopyPart(r) \/ SetSignal(r) \/ CopyOut(r)
      PROVE  prog' = prog
  BY <1>7 DEF WaitReady, CopyPart, SetSignal, CopyOut
<1>8. ASSUME NEW r \in Ranks, BeginTile(r) \/ EndTile(r) PROVE prog' = prog
  BY <1>8 DEF BeginTile, EndTile
<1>9. ASSUME UNCHANGED vars PROVE prog' = prog
  BY <1>9 DEF vars
<1> QED
  BY <1>1, <1>2, <1>3, <1>4, <1>5, <1>6, <1>7, <1>8, <1>9 DEF Next

(* The quotients and remainders of the word's arithmetic.                  *)
LEMMA ModRange ==
    ASSUME NEW a \in Int, NEW m \in Nat \ {0}
    PROVE  a % m \in 0 .. m - 1
OBVIOUS

LEMMA ModOfSmall ==
    ASSUME NEW m \in Nat \ {0}, NEW a \in 0 .. m - 1
    PROVE  a % m = a
OBVIOUS

(* Functions with one value changed.                                       *)
LEMMA Changed1 ==
    ASSUME NEW A, NEW B, NEW f \in [A -> B], NEW a \in A, NEW v \in B
    PROVE  [f EXCEPT ![a] = v] \in [A -> B]
OBVIOUS

LEMMA Changed2 ==
    ASSUME NEW A, NEW B, NEW C, NEW f \in [A -> [B -> C]], NEW a \in A, NEW b \in B, NEW v \in C
    PROVE  [f EXCEPT ![a][b] = v] \in [A -> [B -> C]]
OBVIOUS

LEMMA Changed3 ==
    ASSUME NEW A, NEW B, NEW C, NEW D, NEW f \in [A -> [B -> [C -> D]]],
           NEW a \in A, NEW b \in B, NEW c \in C, NEW v \in D
    PROVE  [f EXCEPT ![a][b][c] = v] \in [A -> [B -> [C -> D]]]
OBVIOUS

Types == prog \in Programs /\ TypeOK

LEMMA ProgramFacts ==
    ASSUME prog \in Programs
    PROVE  /\ WellFormed(prog) /\ RowsApart(prog) /\ PhasesRise(prog) /\ BarriersMarked(prog)
           /\ Top \in Nat \ {0}
BY ProgramsAssumption DEF Disciplined

LEMMA RanksAndCTAs ==
    ASSUME prog \in Programs
    PROVE  /\ prog.ranks \in Nat \ {0} /\ prog.ctas \in Nat \ {0} /\ prog.ctas <= Top
           /\ 0 \in Ranks /\ 0 \in CTAs /\ prog.ctas - 1 \in CTAs
           /\ Len(prog.calls) \in Nat
BY ProgramFacts DEF WellFormed, Ranks, CTAs, RanksOf, CTAsOf

(* A call that is launched and its instructions.                           *)
LEMMA CallFacts ==
    ASSUME Types, NEW r \in Ranks, Launched(r)
    PROVE  /\ call[r] \in 1 .. Len(prog.calls)
           /\ Len(Kernel(r).code) \in Nat /\ Kernel(r).bump \in Nat
           /\ \A i \in 1 .. Len(Kernel(r).code) : IsInstruction(Kernel(r).code[i])
           /\ Len(Script(r)) \in Nat /\ Len(Tiles(r)) \in Nat
           /\ \A i \in 1 .. Len(Script(r)) : IsStreamOp(prog, Script(r)[i])
<1>1. call[r] \in 1 .. Len(prog.calls)
  BY RanksAndCTAs DEF Types, TypeOK, Launched
<1> QED
  BY <1>1, ProgramFacts DEF Types, WellFormed, Kernel, Script, Tiles, Ranks

LEMMA InstrFacts ==
    ASSUME Types, NEW r \in Ranks, NEW c \in CTAs, Running(r, c)
    PROVE  /\ IsInstruction(Instr(r, c))
           /\ ip[r][c] \in 1 .. Len(Kernel(r).code)
           /\ call[r] \in 1 .. Len(prog.calls) /\ ip[r][c] \in Nat \ {0}
           /\ <<call[r], ip[r][c]>> \in Positions(prog)
           /\ InstrAt(prog, <<call[r], ip[r][c]>>) = Instr(r, c)
<1>1. Launched(r) /\ ip[r][c] \in Nat \ {0} /\ ip[r][c] <= Len(Kernel(r).code)
  BY DEF Types, TypeOK, Running
<1>2. ip[r][c] \in 1 .. Len(Kernel(r).code)
  BY <1>1, CallFacts
<1>3. call[r] \in 1 .. Len(prog.calls) /\ IsInstruction(Instr(r, c))
  BY <1>1, <1>2, CallFacts DEF Instr
<1>4. <<call[r], ip[r][c]>> \in Positions(prog)
  BY <1>2, <1>3 DEF Positions, Kernel
<1> QED
  BY <1>1, <1>2, <1>3, <1>4 DEF InstrAt, Instr, Kernel

LEMMA StreamFacts ==
    ASSUME Types, NEW r \in Ranks, NEW op, StreamAt(r, op)
    PROVE  IsStreamOp(prog, StreamOp(r)) /\ StreamOp(r).op = op
<1>1. Launched(r) /\ pos[r] \in Nat \ {0} /\ pos[r] <= Len(Script(r))
  BY DEF StreamAt, Types, TypeOK
<1>2. pos[r] \in 1 .. Len(Script(r))
  BY <1>1, CallFacts
<1> QED
  BY <1>1, <1>2, CallFacts DEF StreamAt, StreamOp

LEMMA WrittenType ==
    ASSUME Types, NEW W, \A w \in W : w.value \in Nat
    PROVE  Written(W) \in [Ranks -> [Slots -> [CTAs -> Nat]]]
<1>1. CASE W = {}
  BY <1>1 DEF Written, Types, TypeOK
<1>2. CASE W # {}
  <2> SUFFICES ASSUME NEW r \in Ranks, NEW s \in Slots, NEW c \in CTAs
               PROVE  (IF \E w \in W : w.rank = r /\ w.slot = s /\ w.part = c
                       THEN (CHOOSE w \in W : w.rank = r /\ w.slot = s /\ w.part = c).value
                       ELSE data[r][s][c]) \in Nat
    BY <1>2 DEF Written
  <2>1. data[r][s][c] \in Nat
    BY DEF Types, TypeOK
  <2>2. ASSUME NEW w \in W, w.rank = r /\ w.slot = s /\ w.part = c
        PROVE  (CHOOSE x \in W : x.rank = r /\ x.slot = s /\ x.part = c) \in W
    BY <2>2
  <2> QED
    BY <2>1, <2>2
<1> QED
  BY <1>1, <1>2

------------------------------------------------------------------------------
(* Type correctness, operation by operation.                               *)

LEMMA InitTypes == Init => Types
<1> SUFFICES ASSUME Init PROVE Types
  OBVIOUS
<1>1. prog \in Programs
  BY DEF Init
<1>2. prog.ctas \in Nat \ {0} /\ Top \in Nat \ {0} /\ Len(prog.calls) \in Nat /\ 0 \in CTAs
  BY <1>1, RanksAndCTAs, ProgramFacts
<1> QED
  BY <1>1, <1>2 DEF Init, Types, TypeOK

(* Raising one CTA's instruction pointer, or starting them all again.      *)
LEMMA GotoType ==
    ASSUME Types, NEW r \in Ranks, NEW c \in CTAs, Goto(r, c)
    PROVE  ip' \in [Ranks -> [CTAs -> Nat \ {0}]]
BY DEF Types, TypeOK, Goto

LEMMA TypeLaunch ==
    ASSUME Types, NEW r \in Ranks, Launch(r)
    PROVE  Types'
<1> USE DEF Types, TypeOK
<1>1. prog' = prog /\ Ranks' = Ranks /\ CTAs' = CTAs /\ Slots' = Slots
  BY DEF Launch, Ranks, CTAs, Slots
<1>2. call[r] \in 0 .. Len(prog.calls) /\ call[r] < Len(prog.calls) /\ Len(prog.calls) \in Nat
  BY RanksAndCTAs DEF Launch
<1>3. call' \in [Ranks -> 0 .. Len(prog.calls)]
  BY <1>2 DEF Launch
<1>4. phase' \in [Ranks -> Nat \ {0}]
  <2>1. CASE Launched(r)
    <3>1. Kernel(r).bump \in Nat
      BY <2>1, CallFacts
    <3> QED
      BY <2>1, <3>1 DEF Launch
  <2>2. CASE ~Launched(r)
    BY <2>2 DEF Launch
  <2> QED
    BY <2>1, <2>2
<1>5. ip' \in [Ranks -> [CTAs -> Nat \ {0}]]
  BY DEF Launch
<1>6. data' \in [Ranks -> [Slots -> [CTAs -> Nat]]]
  <2> DEFINE W == {Cell(r, s, c, Input(call[r] + 1)) :
                       s \in Filled(prog, r, prog.calls[call[r] + 1].memcpy), c \in CTAs}
  <2>1. \A w \in W : w.value \in Nat
    BY <1>2 DEF Cell, Input
  <2>2. data' = Written(W)
    BY DEF Launch
  <2> HIDE DEF W
  <2>3. Written(W) \in [Ranks -> [Slots -> [CTAs -> Nat]]]
    BY <2>1, WrittenType
  <2> QED
    BY <2>2, <2>3
<1>7. /\ pos' \in [Ranks -> Nat \ {0}] /\ tile' \in [Ranks -> Nat \ {0}]
      /\ UNCHANGED <<thr, old_arrive, flag, word, synced, ready, puts, part, reading>>
  BY DEF Launch, flags
<1> QED
  BY <1>1, <1>3, <1>4, <1>5, <1>6, <1>7

LEMMA ValueType ==
    ASSUME Types, NEW r \in Ranks, At(r, 0, "exchange")
    PROVE  Value(r) \in Nat \ {0} /\ Instr(r, 0).half \in Rows
<1>1. IsInstruction(Instr(r, 0)) /\ Instr(r, 0).op = "exchange"
  BY InstrFacts, RanksAndCTAs DEF Types, At
<1>2. Instr(r, 0).add \in Nat /\ Instr(r, 0).half \in Rows
  BY <1>1 DEF IsInstruction, DataOps
<1>3. phase[r] \in Nat \ {0}
  BY DEF Types, TypeOK
<1> QED
  BY <1>2, <1>3 DEF Value

LEMMA CasType ==
    ASSUME Types, NEW r \in Ranks, At(r, 0, "cas")
    PROVE  Instr(r, 0).half \in Rows /\ Instr(r, 0).self = TRUE
<1>1. IsInstruction(Instr(r, 0)) /\ Instr(r, 0).op = "cas"
  BY InstrFacts, RanksAndCTAs DEF Types, At
<1> QED
  BY <1>1 DEF IsInstruction, DataOps

LEMMA TypeThreads ==
    ASSUME Types, NEW r \in Ranks, NEW t \in Ranks, Store(r, t) \/ See(r, t)
    PROVE  Types'
<1> USE DEF Types, TypeOK
<1>1. prog' = prog /\ Ranks' = Ranks /\ CTAs' = CTAs /\ Slots' = Slots
  BY DEF Store, See, host, Ranks, CTAs, Slots
<1>2. thr' \in [Ranks -> [Ranks -> {"store", "wait", "done"}]]
  <2>1. PICK s \in {"store", "wait", "done"} : thr' = [thr EXCEPT ![r][t] = s]
    BY DEF Store, See
  <2> QED
    BY <2>1, Changed2
<1>3. flag' \in [Ranks -> [Rows -> [Ranks -> Nat]]]
  <2> DEFINE h == Instr(r, 0).half
             v == Value(r)
  <2>1. CASE At(r, 0, "exchange")
    <3>1. v \in Nat /\ h \in Rows
      BY <2>1, ValueType
    <3>2. \/ flag' = [flag EXCEPT ![t][h][r] = v] \/ flag' = flag
          \/ flag' = [flag EXCEPT ![t][h][r] = 1] \/ flag' = [flag EXCEPT ![r][h][t] = 0]
      BY DEF Store, See
    <3> HIDE DEF h, v
    <3>3. \A w \in Nat : /\ [flag EXCEPT ![t][h][r] = w] \in [Ranks -> [Rows -> [Ranks -> Nat]]]
                        /\ [flag EXCEPT ![r][h][t] = w] \in [Ranks -> [Rows -> [Ranks -> Nat]]]
      BY <3>1, Changed3
    <3>4. 0 \in Nat /\ 1 \in Nat /\ flag \in [Ranks -> [Rows -> [Ranks -> Nat]]]
      OBVIOUS
    <3> HIDE DEF Types, TypeOK
    <3> QED
      BY <3>1, <3>2, <3>3, <3>4, Zenon
  <2>2. CASE At(r, 0, "cas") /\ ~At(r, 0, "exchange")
    <3>1. h \in Rows
      BY <2>2, CasType
    <3>2. flag' = [flag EXCEPT ![t][h][r] = 1] \/ flag' = [flag EXCEPT ![r][h][t] = 0]
      BY <2>2 DEF Store, See
    <3> HIDE DEF h, v
    <3>3. \A w \in Nat : /\ [flag EXCEPT ![t][h][r] = w] \in [Ranks -> [Rows -> [Ranks -> Nat]]]
                        /\ [flag EXCEPT ![r][h][t] = w] \in [Ranks -> [Rows -> [Ranks -> Nat]]]
      BY <3>1, Changed3
    <3>4. 0 \in Nat /\ 1 \in Nat
      OBVIOUS
    <3> HIDE DEF Types, TypeOK
    <3> QED
      BY <3>2, <3>3, <3>4, Zenon
  <2> QED
    BY <2>1, <2>2 DEF Store, See
<1>4. UNCHANGED <<call, phase, ip, old_arrive, word, synced, data, ready, puts,
                  pos, part, tile, reading>>
  BY DEF Store, See, host, after
<1> QED
  BY <1>1, <1>2, <1>3, <1>4

LEMMA TypeMaster ==
    ASSUME Types, NEW r \in Ranks,
           SyncThreads(r) \/ ComeToSync(r) \/ GoFromSync(r) \/ Clear(r)
    PROVE  Types'
<1> USE DEF Types, TypeOK
<1>1. prog' = prog /\ Ranks' = Ranks /\ CTAs' = CTAs /\ Slots' = Slots
  BY DEF SyncThreads, ComeToSync, GoFromSync, Clear, host, Ranks, CTAs, Slots
<1>2. thr' \in [Ranks -> [Ranks -> {"store", "wait", "done"}]]
  <2>1. CASE SyncThreads(r)
    <3>1. [t \in Ranks |-> "store"] \in [Ranks -> {"store", "wait", "done"}]
      OBVIOUS
    <3> QED
      BY <2>1, <3>1, Changed1 DEF SyncThreads
  <2>2. CASE ComeToSync(r) \/ GoFromSync(r)
    <3>1. PICK s \in {"store", "wait", "done"} : thr' = [thr EXCEPT ![r][r] = s]
      BY <2>2 DEF ComeToSync, GoFromSync
    <3> QED
      BY <3>1, Changed2
  <2>3. CASE Clear(r)
    BY <2>3 DEF Clear
  <2> QED
    BY <2>1, <2>2, <2>3
<1>3. ip' \in [Ranks -> [CTAs -> Nat \ {0}]]
  <2>1. Goto(r, 0) \/ ip' = ip
    BY DEF SyncThreads, ComeToSync, GoFromSync, Clear
  <2> QED
    BY <2>1, GotoType, RanksAndCTAs
<1>4. synced' \in [Ranks -> Nat]
  <2>1. synced' = synced \/ synced' = [synced EXCEPT ![r] = @ + 1]
    BY DEF SyncThreads, ComeToSync, GoFromSync, Clear, flags
  <2>2. synced[r] + 1 \in Nat /\ synced \in [Ranks -> Nat]
    OBVIOUS
  <2>3. [synced EXCEPT ![r] = synced[r] + 1] \in [Ranks -> Nat]
    BY <2>2, Changed1
  <2> HIDE DEF Types, TypeOK
  <2> QED
    BY <2>1, <2>2, <2>3, Zenon
<1>5. flag' \in [Ranks -> [Rows -> [Ranks -> Nat]]]
  <2>1. CASE flag' = flag
    BY <2>1
  <2>2. CASE Clear(r)
    BY <2>2 DEF Clear
  <2> QED
    BY <2>1, <2>2 DEF SyncThreads, ComeToSync, GoFromSync, flags
<1>6. UNCHANGED <<call, phase, old_arrive, word, data, ready, puts, pos, part, tile, reading>>
  BY DEF SyncThreads, ComeToSync, GoFromSync, Clear, host, flags, after
<1> QED
  BY <1>1, <1>2, <1>3, <1>4, <1>5, <1>6

LEMMA TypeGrid ==
    ASSUME Types, NEW r \in Ranks, NEW c \in CTAs, PassBy(r, c) \/ Arrive(r, c) \/ Depart(r, c)
    PROVE  Types'
<1> USE DEF Types, TypeOK
<1>1. prog' = prog /\ Ranks' = Ranks /\ CTAs' = CTAs /\ Slots' = Slots
  BY DEF PassBy, Arrive, Depart, host, Ranks, CTAs, Slots
<1>2. ip' \in [Ranks -> [CTAs -> Nat \ {0}]]
  <2>1. Goto(r, c) \/ ip' = ip
    BY DEF PassBy, Arrive, Depart
  <2> QED
    BY <2>1, GotoType
<1>3. word' \in [Ranks -> 0 .. 2 * Top - 1]
  <2>1. CASE Arrive(r, c)
    <3>1. Top \in Nat \ {0} /\ prog.ctas \in Nat \ {0}
      BY RanksAndCTAs, ProgramFacts
    <3>2. word[r] + nb(c) \in Int
      <4>1. nb(c) \in Int
        <5> HIDE DEF Top
        <5> QED
          BY <3>1 DEF nb
      <4>2. word[r] \in Int
        <5> HIDE DEF Top
        <5> QED
          BY <3>1
      <4> QED
        BY <4>1, <4>2
    <3>3. (word[r] + nb(c)) % (2 * Top) \in 0 .. 2 * Top - 1
      <4>1. 2 * Top \in Nat \ {0}
        <5> HIDE DEF Top
        <5> QED
          BY <3>1
      <4> QED
        BY <3>2, <4>1, ModRange
    <3> QED
      BY <2>1, <3>3 DEF Arrive
  <2>2. CASE PassBy(r, c) \/ Depart(r, c)
    BY <2>2 DEF PassBy, Depart, flags
  <2> QED
    BY <2>1, <2>2
<1>4. old_arrive' \in [Ranks -> [CTAs -> -1 .. 2 * Top - 1]]
  <2>1. word[r] \in -1 .. 2 * Top - 1 /\ -1 \in -1 .. 2 * Top - 1
    <3>1. Top \in Nat \ {0} /\ word[r] \in 0 .. 2 * Top - 1
      BY ProgramFacts
    <3> HIDE DEF Top
    <3> QED
      BY <3>1
  <2>2. old_arrive' = old_arrive \/ \E v \in -1 .. 2 * Top - 1 :
                                         old_arrive' = [old_arrive EXCEPT ![r][c] = v]
    BY <2>1 DEF PassBy, Arrive, Depart
  <2>3. old_arrive \in [Ranks -> [CTAs -> -1 .. 2 * Top - 1]]
    OBVIOUS
  <2>4. \A v \in -1 .. 2 * Top - 1 :
           [old_arrive EXCEPT ![r][c] = v] \in [Ranks -> [CTAs -> -1 .. 2 * Top - 1]]
    BY <2>3, Changed2
  <2> HIDE DEF Types, TypeOK
  <2> QED
    BY <2>2, <2>3, <2>4, Zenon
<1>5. UNCHANGED <<call, phase, thr, flag, synced, data, ready, puts, pos, part, tile, reading>>
  BY DEF PassBy, Arrive, Depart, host, flags, after
<1> QED
  BY <1>1, <1>2, <1>3, <1>4, <1>5

LEMMA InputType ==
    ASSUME Types, NEW r \in Ranks, Launched(r)
    PROVE  Input(call[r]) \in Nat /\ Reduced(call[r]) \in Nat
<1>1. call[r] \in Nat \ {0}
  BY CallFacts
<1> QED
  BY <1>1 DEF Input, Reduced

LEMMA WritesType ==
    ASSUME Types, NEW r \in Ranks, NEW c \in CTAs, NEW op, Launched(r)
    PROVE  \A w \in Writes(prog, call[r], r, c, op) : w.value \in Nat
<1> HIDE DEF Types
<1>1. CASE op = "copy"
  BY <1>1, InputType DEF Writes, Cell
<1>2. CASE op = "reduce_st"
  BY <1>2, InputType DEF Writes, Cell
<1>3. CASE op = "reduce_slice"
  BY <1>3, InputType DEF Writes, Cell
<1>4. CASE op \notin {"copy", "reduce_st", "reduce_slice"}
  BY <1>4 DEF Writes
<1> QED
  BY <1>1, <1>2, <1>3, <1>4

PutOK(p) == /\ p.src \in Ranks /\ p.dst \in Ranks /\ p.slot \in Slots
            /\ p.half \in Rows /\ p.value \in Nat

LEMMA PutsType ==
    ASSUME Types, NEW r \in Ranks, NEW c \in CTAs, NEW op, Launched(r)
    PROVE  \A p \in Puts(prog, call[r], r, c, op) : PutOK(p)
<1> HIDE DEF Types
<1> DEFINE n == prog.ranks
<1>1. n \in Nat \ {0} /\ Ranks = 0 .. n - 1 /\ Slots = 0 .. 2 * n - 1 /\ prog.ctas \in Nat \ {0}
      /\ CTAs = 0 .. prog.ctas - 1
  BY RanksAndCTAs DEF Ranks, RanksOf, Slots, Types, CTAs, CTAsOf
<1>2. \A q \in Ranks : q \in Slots /\ n + q \in Slots
  BY <1>1
<1>3. (r + c + 1) % n \in Ranks
  <2>1. r + c + 1 \in Int
    BY <1>1
  <2> HIDE DEF n
  <2> QED
    BY <1>1, <2>1, ModRange
<1>4. Input(call[r]) \in Nat /\ Reduced(call[r]) \in Nat
  BY InputType
<1>5. 0 \in Rows /\ 1 \in Rows
  BY DEF Rows
<1>6. CASE op = "push"
  BY <1>2, <1>4, <1>5, <1>6 DEF Puts, Put, PutOK, Ranks
<1>7. CASE op = "scatter"
  BY <1>2, <1>3, <1>4, <1>5, <1>7 DEF Puts, Put, PutOK, Ranks
<1>8. CASE op = "push_slice"
  BY <1>2, <1>3, <1>4, <1>5, <1>8 DEF Puts, Put, PutOK, Ranks
<1>9. CASE op \notin {"push", "scatter", "push_slice"}
  BY <1>9 DEF Puts
<1> QED
  BY <1>6, <1>7, <1>8, <1>9

LEMMA TypeCTA ==
    ASSUME Types, NEW r \in Ranks, NEW c \in CTAs,
           MoveData(r, c) \/ Await(r, c) \/ SetReady(r, c)
    PROVE  Types'
<1>0. Launched(r)
  BY DEF MoveData, Await, SetReady, At, Running
<1>1. prog' = prog /\ Ranks' = Ranks /\ CTAs' = CTAs /\ Slots' = Slots
  BY DEF MoveData, Await, SetReady, host, Ranks, CTAs, Slots
<1>2. ip' \in [Ranks -> [CTAs -> Nat \ {0}]]
  BY GotoType DEF MoveData, Await, SetReady
<1>3. data' \in [Ranks -> [Slots -> [CTAs -> Nat]]]
  <2>1. CASE MoveData(r, c)
    BY <1>0, <2>1, WritesType, WrittenType DEF MoveData
  <2>2. CASE Await(r, c) \/ SetReady(r, c)
    BY <2>2 DEF Await, SetReady, Types, TypeOK
  <2> QED
    BY <2>1, <2>2
<1>4. \A p \in puts' : PutOK(p)
  <2>1. \A p \in puts : PutOK(p)
    BY DEF Types, TypeOK, PutOK
  <2>2. CASE MoveData(r, c)
    BY <1>0, <2>1, <2>2, PutsType DEF MoveData
  <2>3. CASE Await(r, c) \/ SetReady(r, c)
    BY <2>1, <2>3 DEF Await, SetReady
  <2> QED
    BY <2>2, <2>3
<1>5. ready' \in [Ranks -> [Ranks -> 0 .. 1]]
  <2>1. [q \in Ranks |-> IF q = r THEN 1 ELSE 0] \in [Ranks -> 0 .. 1]
    OBVIOUS
  <2>2. CASE SetReady(r, c)
    BY <2>1, <2>2, Changed1 DEF SetReady, Types, TypeOK
  <2>3. CASE MoveData(r, c) \/ Await(r, c)
    BY <2>3 DEF MoveData, Await, Types, TypeOK
  <2> QED
    BY <2>2, <2>3
<1>6. UNCHANGED <<call, phase, thr, old_arrive, flag, word, synced, pos, part, tile, reading>>
  BY DEF MoveData, Await, SetReady, host, flags, after
<1> QED
  BY <1>1, <1>2, <1>3, <1>4, <1>5, <1>6 DEF Types, TypeOK, PutOK

LEMMA TypeDeliver ==
    ASSUME Types, NEW p \in puts, Deliver(p)
    PROVE  Types'
<1>1. prog' = prog /\ Ranks' = Ranks /\ CTAs' = CTAs /\ Slots' = Slots
  BY DEF Deliver, host, Ranks, CTAs, Slots
<1>2. p.dst \in Ranks /\ p.src \in Ranks /\ p.half \in Rows /\ p.value \in Nat
  BY DEF Types, TypeOK
<1>3. data' \in [Ranks -> [Slots -> [CTAs -> Nat]]]
  <2>1. \A w \in {Cell(p.dst, p.slot, c, p.value) : c \in CTAs} : w.value \in Nat
    BY <1>2 DEF Cell
  <2> QED
    BY <2>1, WrittenType DEF Deliver
<1>4. flag' \in [Ranks -> [Rows -> [Ranks -> Nat]]]
  <2>1. flag \in [Ranks -> [Rows -> [Ranks -> Nat]]] /\ 1 \in Nat
    BY DEF Types, TypeOK
  <2>2. [flag EXCEPT ![p.dst][p.half][p.src] = 1] \in [Ranks -> [Rows -> [Ranks -> Nat]]]
    BY <1>2, <2>1, Changed3
  <2> QED
    BY <2>2 DEF Deliver
<1>5. puts' \subseteq puts
  BY DEF Deliver
<1>6. UNCHANGED <<call, phase, ip, thr, old_arrive, word, synced, ready, pos, part, tile, reading>>
  BY DEF Deliver, host, ctas, after
<1> QED
  BY <1>1, <1>3, <1>4, <1>5, <1>6 DEF Types, TypeOK

LEMMA TypeStream ==
    ASSUME Types, NEW r \in Ranks,
           WaitReady(r) \/ CopyPart(r) \/ SetSignal(r) \/ CopyOut(r)
    PROVE  Types'
<1>1. prog' = prog /\ Ranks' = Ranks /\ CTAs' = CTAs /\ Slots' = Slots
  BY DEF WaitReady, CopyPart, SetSignal, CopyOut, host, Ranks, CTAs, Slots
<1>2. pos' \in [Ranks -> Nat \ {0}]
  <2>1. pos' = pos \/ StreamOn(r)
    BY DEF WaitReady, CopyPart, SetSignal, CopyOut
  <2>2. pos \in [Ranks -> Nat \ {0}] /\ pos[r] + 1 \in Nat \ {0}
    BY DEF Types, TypeOK
  <2> QED
    BY <2>1, <2>2, Changed1 DEF StreamOn
<1>3. CASE CopyPart(r)
  <2> DEFINE o == StreamOp(r)
  <2>1. o.dst \in Ranks /\ o.src \in Ranks /\ o.seg \in Ranks
    BY <1>3, StreamFacts DEF CopyPart, IsStreamOp, Ranks
  <2>2. o.seg \in Slots /\ part[r] \in CTAs
    <3>1. \A q \in Ranks : q \in Slots
      BY RanksAndCTAs DEF Slots, Ranks, RanksOf, Types
    <3>2. part[r] \in CTAs
      BY DEF Types, TypeOK
    <3> QED
      BY <2>1, <3>1, <3>2
  <2>3. data' \in [Ranks -> [Slots -> [CTAs -> Nat]]]
    <3>1. data' = [data EXCEPT ![o.dst][o.seg][part[r]] = data[o.src][o.seg][part[r]]]
      BY <1>3 DEF CopyPart
    <3> HIDE DEF o
    <3>2. data \in [Ranks -> [Slots -> [CTAs -> Nat]]]
      BY DEF Types, TypeOK
    <3>3. data[o.src][o.seg][part[r]] \in Nat
      BY <2>1, <2>2, <3>2
    <3>4. \A v \in Nat : [data EXCEPT ![o.dst][o.seg][part[r]] = v]
                              \in [Ranks -> [Slots -> [CTAs -> Nat]]]
      BY <2>1, <2>2, <3>2, Changed3
    <3> QED
      BY <3>1, <3>3, <3>4
  <2>4. part' \in [Ranks -> CTAs]
    <3>1. part[r] + 1 \in Int /\ prog.ctas \in Nat \ {0}
      BY <2>2, RanksAndCTAs DEF CTAs, CTAsOf, Types
    <3>2. (part[r] + 1) % prog.ctas \in CTAs
      BY <3>1, ModRange DEF CTAs, CTAsOf
    <3>3. part' = [part EXCEPT ![r] = (part[r] + 1) % prog.ctas]
      BY <1>3 DEF CopyPart
    <3> QED
      BY <3>2, <3>3, Changed1 DEF Types, TypeOK
  <2>5. UNCHANGED <<call, phase, ip, thr, old_arrive, flag, word, synced, ready, puts, tile, reading>>
    BY <1>3 DEF CopyPart, host, ctas, flags
  <2> QED
    BY <1>1, <1>2, <2>3, <2>4, <2>5 DEF Types, TypeOK
<1>4. CASE SetSignal(r)
  <2>1. StreamOp(r).dst \in Ranks /\ StreamOp(r).seg \in Ranks /\ 1 \in 0 .. 1
    BY <1>4, StreamFacts DEF SetSignal, IsStreamOp, Ranks
  <2>2. ready' \in [Ranks -> [Ranks -> 0 .. 1]]
    BY <1>4, <2>1, Changed2 DEF SetSignal, Types, TypeOK
  <2>3. UNCHANGED <<call, phase, ip, thr, old_arrive, flag, word, synced, data, puts,
                    part, tile, reading>>
    BY <1>4 DEF SetSignal, host, ctas, flags
  <2> QED
    BY <1>1, <1>2, <2>2, <2>3 DEF Types, TypeOK
<1>5. CASE WaitReady(r) \/ CopyOut(r)
  <2>1. UNCHANGED <<call, phase, ip, thr, old_arrive, flag, word, synced, data, ready, puts,
                    part, tile, reading>>
    BY <1>5 DEF WaitReady, CopyOut, host, ctas, flags
  <2> QED
    BY <1>1, <1>2, <2>1 DEF Types, TypeOK
<1> QED
  BY <1>3, <1>4, <1>5

LEMMA TypeTile ==
    ASSUME Types, NEW r \in Ranks, BeginTile(r) \/ EndTile(r)
    PROVE  Types'
<1>1. prog' = prog /\ Ranks' = Ranks /\ CTAs' = CTAs /\ Slots' = Slots
  BY DEF BeginTile, EndTile, host, Ranks, CTAs, Slots
<1>2. reading' \in [Ranks -> BOOLEAN]
  BY DEF BeginTile, EndTile, Types, TypeOK
<1>3. tile' \in [Ranks -> Nat \ {0}]
  <2>1. tile \in [Ranks -> Nat \ {0}] /\ tile[r] + 1 \in Nat \ {0}
    BY DEF Types, TypeOK
  <2>2. tile' = tile \/ tile' = [tile EXCEPT ![r] = tile[r] + 1]
    BY DEF BeginTile, EndTile
  <2> QED
    BY <2>1, <2>2, Changed1
<1>4. UNCHANGED <<call, phase, ip, thr, old_arrive, flag, word, synced, data, ready, puts, pos, part>>
  BY DEF BeginTile, EndTile, host, ctas, flags
<1> QED
  BY <1>1, <1>2, <1>3, <1>4 DEF Types, TypeOK

LEMMA TypesKept == Types /\ [Next]_vars => Types'
<1> SUFFICES ASSUME Types, [Next]_vars PROVE Types'
  OBVIOUS
<1>1. ASSUME UNCHANGED vars PROVE Types'
  <2>1. UNCHANGED <<prog, call, phase, ip, thr, old_arrive, flag, word, synced, data, ready, puts,
                    pos, part, tile, reading>>
    BY <1>1 DEF vars, host, ctas, flags, after
  <2>2. Ranks' = Ranks /\ CTAs' = CTAs /\ Slots' = Slots
    BY <2>1 DEF Ranks, CTAs, Slots
  <2> QED
    BY <2>1, <2>2 DEF Types, TypeOK
<1> QED
  BY <1>1, TypeLaunch, TypeThreads, TypeMaster, TypeGrid, TypeCTA, TypeDeliver, TypeStream,
     TypeTile DEF Next

(* Every value stays in its range, for any number of ranks and CTAs: the   *)
(* word of the grid barrier never leaves its width, and no put, copy or    *)
(* signal goes to a rank, a segment or a row that is not there.            *)
THEOREM TypeCorrect == Spec => []TypeOK
<1>1. Init => Types
  BY InitTypes
<1>2. Types /\ [Next]_vars => Types'
  BY TypesKept
<1>3. Types => TypeOK
  BY DEF Types
<1> QED
  BY <1>1, <1>2, <1>3, PTL DEF Spec

------------------------------------------------------------------------------
(* The barrier of a grid.                                                  *)

(* The CTAs are where the code can be, and in the barrier of the grid only *)
(* at one of its instructions.                                             *)
InCode(r) ==
    \A c \in CTAs : /\ ip[r][c] <= (IF Launched(r) THEN Len(Kernel(r).code) + 1 ELSE 1)
                    /\ old_arrive[r][c] # -1 => At(r, c, "grid")

(* The CTAs of a rank that have come to the barrier and not yet turned the *)
(* top bit of its word are those that have read the bit it has now.        *)
High(w) == w >= Top
Low(w) == IF High(w) THEN w - Top ELSE w
InRound(r) == {c \in CTAs : old_arrive[r][c] # -1 /\ (High(old_arrive[r][c]) <=> High(word[r]))}

(* The rest of the word counts them, pid 0 for all that the others lack.   *)
WordCounts(r) ==
    /\ Cardinality(InRound(r)) < prog.ctas
    /\ Low(word[r]) = Cardinality(InRound(r))
                         + (IF 0 \in InRound(r) THEN Top - prog.ctas ELSE 0)

(* A CTA is released from a barrier when the bit has turned, whether or    *)
(* not it has seen that; the CTAs of a rank are all released together.     *)
Released(r, c, i) == \/ i < ip[r][c]
                     \/ i = ip[r][c] /\ old_arrive[r][c] # -1 /\ c \notin InRound(r)

GridAt(r, i) == Launched(r) /\ i \in 1 .. Len(Kernel(r).code) /\ Kernel(r).code[i].op = "grid"

GridTogether(r) ==
    \A c \in CTAs, d \in CTAs : \A i \in Nat :
        GridAt(r, i) /\ Released(r, c, i) => Released(r, d, i)

Grid(r) == InCode(r) /\ WordCounts(r) /\ GridTogether(r)

LEMMA WordFacts ==
    ASSUME NEW w \in 0 .. 2 * Top - 1, Top \in Nat \ {0}
    PROVE  /\ w \div Top = (IF High(w) THEN 1 ELSE 0)
           /\ Low(w) \in 0 .. Top - 1
           /\ w = Low(w) + (IF High(w) THEN Top ELSE 0)
<1> HIDE DEF Top
<1>1. CASE High(w)
  <2>1. w >= Top /\ w < 2 * Top
    BY <1>1 DEF High
  <2>2. w \div Top = 1
    BY <2>1
  <2> QED
    BY <1>1, <2>1, <2>2 DEF Low
<1>2. CASE ~High(w)
  <2>1. w < Top /\ w >= 0
    BY <1>2 DEF High
  <2>2. w \div Top = 0
    BY <2>1
  <2> QED
    BY <1>2, <2>1, <2>2 DEF Low
<1> QED
  BY <1>1, <1>2

(* Adding to the word: it turns over when the sum of the lower part        *)
(* reaches the top bit.                                                    *)
LEMMA WordSum ==
    ASSUME NEW w \in 0 .. 2 * Top - 1, Top \in Nat \ {0}, NEW a \in Nat, Low(w) + a <= Top
    PROVE  LET s == (w + a) % (2 * Top)
           IN  /\ s \in 0 .. 2 * Top - 1
               /\ Low(w) + a < Top => (High(s) <=> High(w)) /\ Low(s) = Low(w) + a
               /\ Low(w) + a = Top => (High(s) <=> ~High(w)) /\ Low(s) = 0
<1> HIDE DEF Top
<1> DEFINE s == (w + a) % (2 * Top)
<1>1. /\ Low(w) \in 0 .. Top - 1
      /\ w = Low(w) + (IF High(w) THEN Top ELSE 0)
  BY WordFacts
<1>2. CASE High(w) /\ Low(w) + a = Top
  <2>1. w + a = 2 * Top
    BY <1>1, <1>2
  <2>2. s = 0
    BY <2>1
  <2> QED
    BY <1>2, <2>2 DEF High, Low
<1>3. CASE ~(High(w) /\ Low(w) + a = Top)
  <2>1. w + a \in 0 .. 2 * Top - 1
    BY <1>1, <1>3
  <2>2. 2 * Top \in Nat \ {0}
    OBVIOUS
  <2>3. s = w + a
    BY <2>1, <2>2, ModOfSmall
  <2> HIDE DEF s
  <2> QED
    BY <1>1, <1>3, <2>1, <2>3 DEF High, Low
<1> QED
  BY <1>2, <1>3

LEMMA CTAsFinite ==
    ASSUME prog \in Programs
    PROVE  IsFiniteSet(CTAs) /\ Cardinality(CTAs) = prog.ctas
<1>1. prog.ctas \in Nat \ {0}
  BY RanksAndCTAs
<1>2. /\ IsFiniteSet(0 .. prog.ctas - 1)
      /\ Cardinality(0 .. prog.ctas - 1) =
             IF 0 > prog.ctas - 1 THEN 0 ELSE prog.ctas - 1 - 0 + 1
  <2>1. 0 \in Int /\ prog.ctas - 1 \in Int
    BY <1>1
  <2> QED
    BY <2>1, FS_Interval, Zenon
<1> QED
  BY <1>1, <1>2 DEF CTAs, CTAsOf

(* A rank whose CTAs and word a step leaves alone.                         *)
GridStill(r) == /\ prog' = prog /\ call'[r] = call[r] /\ ip'[r] = ip[r]
                /\ old_arrive'[r] = old_arrive[r] /\ word'[r] = word[r]

LEMMA StillInRound ==
    ASSUME NEW r, prog' = prog, old_arrive'[r] = old_arrive[r], word'[r] = word[r]
    PROVE  InRound(r)' = InRound(r)
BY DEF InRound, CTAs, High

LEMMA GridStillKept ==
    ASSUME NEW r, GridStill(r), Grid(r)
    PROVE  Grid(r)'
<1>1. InRound(r)' = InRound(r)
  BY StillInRound DEF GridStill
<1>2. CTAs' = CTAs /\ (Launched(r)' <=> Launched(r)) /\ Kernel(r)' = Kernel(r)
  BY DEF GridStill, CTAs, Launched, Kernel
<1>3. InCode(r)'
  BY <1>2 DEF GridStill, Grid, InCode, At, Running, Instr
<1>4. WordCounts(r)'
  BY <1>1 DEF GridStill, Grid, WordCounts, Low, High
<1>5. GridTogether(r)'
  BY <1>1, <1>2 DEF GridStill, Grid, GridTogether, GridAt, Released
<1> QED
  BY <1>3, <1>4, <1>5 DEF Grid

(* A CTA goes on from an instruction that is no barrier of the grid.       *)
GridWalk(r, c) == /\ Running(r, c) /\ Instr(r, c).op # "grid" /\ Goto(r, c)
                  /\ UNCHANGED <<prog, call, old_arrive, word>>

LEMMA GridWalkKept ==
    ASSUME Types, NEW r \in Ranks, NEW c \in CTAs, GridWalk(r, c), Grid(r)
    PROVE  Grid(r)'
<1>1. InRound(r)' = InRound(r)
  BY StillInRound DEF GridWalk
<1>2. /\ CTAs' = CTAs /\ (Launched(r)' <=> Launched(r)) /\ Kernel(r)' = Kernel(r)
      /\ Launched(r) /\ Len(Kernel(r).code) \in Nat
  BY CallFacts DEF GridWalk, CTAs, Launched, Kernel, Running
<1>3. \A d \in CTAs : ip'[r][d] = IF d = c THEN ip[r][c] + 1 ELSE ip[r][d]
  BY DEF GridWalk, Goto, Types, TypeOK
<1>4. ip[r][c] \in 1 .. Len(Kernel(r).code) /\ Kernel(r).code[ip[r][c]].op # "grid"
      /\ old_arrive[r][c] = -1
  BY InstrFacts DEF GridWalk, Instr, Grid, InCode, At
<1>5. InCode(r)'
  <2> SUFFICES ASSUME NEW d \in CTAs
               PROVE  /\ ip'[r][d] <= Len(Kernel(r).code) + 1
                      /\ old_arrive'[r][d] # -1 => At(r, d, "grid")'
    BY <1>2 DEF InCode
  <2>1. CASE d = c
    BY <1>2, <1>3, <1>4, <2>1 DEF GridWalk
  <2>2. CASE d # c
    BY <1>2, <1>3, <2>2 DEF GridWalk, Grid, InCode, At, Running, Instr
  <2> QED
    BY <2>1, <2>2
<1>6. WordCounts(r)'
  BY <1>1 DEF GridWalk, Grid, WordCounts, Low, High
<1>7. \A d \in CTAs : \A i \in Nat : GridAt(r, i) => (Released(r, d, i)' <=> Released(r, d, i))
  <2> SUFFICES ASSUME NEW d \in CTAs, NEW i \in Nat, GridAt(r, i)
               PROVE  Released(r, d, i)' <=> Released(r, d, i)
    OBVIOUS
  <2>1. Released(r, d, i)' <=> \/ i < ip'[r][d]
                               \/ i = ip'[r][d] /\ old_arrive[r][d] # -1 /\ d \notin InRound(r)
    BY <1>1 DEF Released, GridWalk
  <2>2. CASE d = c
    <3>1. i # ip[r][c]
      BY <1>4 DEF GridAt
    <3> QED
      BY <1>3, <1>4, <2>1, <2>2, <3>1 DEF Released
  <2>3. CASE d # c
    BY <1>3, <2>1, <2>3 DEF Released
  <2> QED
    BY <2>2, <2>3
<1>8. GridTogether(r)'
  <2>1. \A i : GridAt(r, i)' <=> GridAt(r, i)
    BY <1>2 DEF GridAt
  <2> QED
    BY <1>2, <1>7, <2>1 DEF Grid, GridTogether
<1> QED
  BY <1>5, <1>6, <1>8 DEF Grid

(* A CTA arrives: it joins the round, or completes it and the bit turns.   *)
LEMMA ArriveCounts ==
    ASSUME Types, NEW r \in Ranks, NEW c \in CTAs, Arrive(r, c), Grid(r)
    PROVE  LET joined == InRound(r) \cup {c}
               full == Cardinality(joined) = prog.ctas
           IN  /\ full => /\ joined = CTAs /\ (High(word'[r]) <=> ~High(word[r]))
                          /\ Low(word'[r]) = 0
               /\ ~full => /\ Cardinality(joined) < prog.ctas
                           /\ High(word'[r]) <=> High(word[r])
                           /\ Low(word'[r]) = Cardinality(joined)
                                   + (IF 0 \in joined THEN Top - prog.ctas ELSE 0)
<1> DEFINE R == InRound(r)
           joined == R \cup {c}
           n == prog.ctas
           k == Cardinality(R)
<1>1. /\ n \in Nat \ {0} /\ n <= Top /\ Top \in Nat \ {0} /\ 0 \in CTAs
      /\ word[r] \in 0 .. 2 * Top - 1
  BY RanksAndCTAs, ProgramFacts DEF Types, TypeOK
<1>2. old_arrive[r][c] = -1 /\ word' = [word EXCEPT ![r] = (word[r] + nb(c)) % (2 * Top)]
  BY DEF Arrive
<1>3. word'[r] = (word[r] + nb(c)) % (2 * Top)
  BY <1>2 DEF Types, TypeOK
<1>4. R \in SUBSET CTAs /\ c \notin R
  BY <1>2 DEF InRound
<1>5. IsFiniteSet(CTAs) /\ Cardinality(CTAs) = n
  BY CTAsFinite DEF Types
<1>6. IsFiniteSet(R) /\ k \in Nat
  BY <1>4, <1>5, FS_Subset, FS_CardinalityType
<1>7. k < n /\ Low(word[r]) = k + (IF 0 \in R THEN Top - n ELSE 0)
  BY DEF Grid, WordCounts
<1>8. Cardinality(joined) = k + 1
  BY <1>4, <1>6, FS_AddElement
<1>9. joined \in SUBSET CTAs
  BY <1>4
<1>10. Cardinality(joined) = n => joined = CTAs
  BY <1>5, <1>9, FS_Subset
<1>11. nb(c) = IF c = 0 THEN Top - (n - 1) ELSE 1
  BY DEF nb
<1>12. (0 \in joined <=> 0 \in R \/ c = 0) /\ (c = 0 => 0 \notin R)
  BY <1>4
<1>13. k + 1 = n => 0 \in R \/ c = 0
  BY <1>1, <1>8, <1>10, <1>12
<1> HIDE DEF R, n, k, joined, Top
<1>14. nb(c) \in Nat
  BY <1>1, <1>11
<1>15. /\ k + 1 = n => Low(word[r]) + nb(c) = Top
       /\ k + 1 < n => /\ Low(word[r]) + nb(c) < Top
                       /\ Low(word[r]) + nb(c) = k + 1 + (IF 0 \in joined THEN Top - n ELSE 0)
  BY <1>1, <1>6, <1>7, <1>11, <1>12, <1>13
<1>16. k + 1 = n \/ k + 1 < n
  BY <1>1, <1>6, <1>7
<1>17. Low(word[r]) + nb(c) <= Top
  <2>1. Low(word[r]) \in Int
    BY <1>1, <1>6, <1>7
  <2> QED
    BY <1>1, <1>14, <1>15, <1>16, <2>1
<1>18. /\ Low(word[r]) + nb(c) < Top => /\ High(word'[r]) <=> High(word[r])
                                        /\ Low(word'[r]) = Low(word[r]) + nb(c)
       /\ Low(word[r]) + nb(c) = Top => (High(word'[r]) <=> ~High(word[r])) /\ Low(word'[r]) = 0
  BY <1>1, <1>3, <1>14, <1>17, WordSum
<1>19. CASE k + 1 = n
  BY <1>8, <1>10, <1>15, <1>18, <1>19 DEF n, joined, R
<1>20. CASE k + 1 < n
  <2>1. Cardinality(joined) # n /\ Cardinality(joined) < n
    BY <1>1, <1>6, <1>8, <1>20
  <2>2. Low(word'[r]) = Cardinality(joined) + (IF 0 \in joined THEN Top - n ELSE 0)
    BY <1>8, <1>15, <1>18, <1>20
  <2> QED
    BY <1>15, <1>18, <1>20, <2>1, <2>2 DEF n, joined, R
<1> QED
  BY <1>16, <1>19, <1>20

LEMMA ArriveKept ==
    ASSUME Types, NEW r \in Ranks, NEW c \in CTAs, Arrive(r, c), Grid(r)
    PROVE  Grid(r)'
<1> DEFINE joined == InRound(r) \cup {c}
           full == Cardinality(joined) = prog.ctas
<1>1. /\ CTAs' = CTAs /\ (Launched(r)' <=> Launched(r)) /\ Kernel(r)' = Kernel(r)
      /\ Launched(r) /\ UNCHANGED <<prog, call, ip>>
  BY DEF Arrive, host, CTAs, Launched, Kernel, At, Running
<1>2. \A d \in CTAs : old_arrive'[r][d] = IF d = c THEN word[r] ELSE old_arrive[r][d]
  BY DEF Arrive, Types, TypeOK
<1>3. old_arrive[r][c] = -1 /\ At(r, c, "grid") /\ word[r] # -1
  <2>1. word[r] \in 0 .. 2 * Top - 1 /\ Top \in Nat
    BY ProgramFacts DEF Types, TypeOK
  <2>2. word[r] # -1
    <3> HIDE DEF Top
    <3> QED
      BY <2>1
  <2> QED
    BY <2>2 DEF Arrive
<1>4. \A d \in CTAs : d \in InRound(r)' <=> /\ old_arrive'[r][d] # -1
                                            /\ High(old_arrive'[r][d]) <=> High(word'[r])
  BY <1>1 DEF InRound, High
<1>5. \A d : d \in InRound(r)' => d \in CTAs
  BY <1>1 DEF InRound
<1>6. InCode(r)'
  BY <1>1, <1>2, <1>3 DEF Grid, InCode, At, Running, Instr
<1>7. \A i : GridAt(r, i)' <=> GridAt(r, i)
  BY <1>1 DEF GridAt
<1>8. \A d \in CTAs : \A i : Released(r, d, i)' <=>
          \/ i < ip[r][d]
          \/ i = ip[r][d] /\ old_arrive'[r][d] # -1 /\ d \notin InRound(r)'
  BY <1>1 DEF Released
<1>9. CASE ~full
  <2>1. /\ Cardinality(joined) < prog.ctas /\ (High(word'[r]) <=> High(word[r]))
        /\ Low(word'[r]) = Cardinality(joined) + (IF 0 \in joined THEN Top - prog.ctas ELSE 0)
    BY <1>9, ArriveCounts
  <2>2. InRound(r)' = joined
    <3>1. \A d \in CTAs : d \in InRound(r)' <=> d \in joined
      BY <1>2, <1>3, <1>4, <2>1 DEF InRound
    <3> QED
      BY <1>5, <3>1 DEF InRound
  <2>3. WordCounts(r)'
    <3>1. WordCounts(r)' <=> /\ Cardinality(InRound(r)') < prog.ctas
                             /\ Low(word'[r]) = Cardinality(InRound(r)')
                                   + (IF 0 \in InRound(r)' THEN Top - prog.ctas ELSE 0)
      BY <1>1 DEF WordCounts, Low, High
    <3> QED
      BY <2>1, <2>2, <3>1
  <2>4. \A d \in CTAs : \A i : Released(r, d, i)' <=> Released(r, d, i)
    BY <1>2, <1>3, <1>8, <2>2 DEF Released
  <2>5. GridTogether(r)'
    BY <1>1, <1>7, <2>4 DEF Grid, GridTogether
  <2> QED
    BY <1>6, <2>3, <2>5 DEF Grid
<1>10. CASE full
  <2>1. joined = CTAs /\ (High(word'[r]) <=> ~High(word[r])) /\ Low(word'[r]) = 0
    BY <1>10, ArriveCounts
  <2>2. InRound(r)' = {}
    <3>1. \A d \in CTAs : d = c \/ d \in InRound(r)
      BY <2>1
    <3>2. \A d \in CTAs : d \notin InRound(r)'
      BY <1>2, <1>3, <1>4, <2>1, <3>1 DEF InRound
    <3> QED
      BY <1>5, <3>2
  <2>3. WordCounts(r)'
    <3>1. WordCounts(r)' <=> /\ Cardinality(InRound(r)') < prog.ctas
                             /\ Low(word'[r]) = Cardinality(InRound(r)')
                                   + (IF 0 \in InRound(r)' THEN Top - prog.ctas ELSE 0)
      BY <1>1 DEF WordCounts, Low, High
    <3>2. Cardinality({}) = 0 /\ prog.ctas \in Nat \ {0}
      BY FS_EmptySet, RanksAndCTAs DEF Types
    <3> QED
      BY <2>1, <2>2, <3>1, <3>2
  <2>4. \A d \in CTAs : GridAt(r, ip[r][d]) /\ ~Released(r, d, ip[r][d]) /\ ip[r][d] \in Nat
    <3> SUFFICES ASSUME NEW d \in CTAs
                 PROVE  GridAt(r, ip[r][d]) /\ ~Released(r, d, ip[r][d]) /\ ip[r][d] \in Nat
      OBVIOUS
    <3>1. d = c \/ d \in InRound(r)
      BY <2>1
    <3>2. At(r, d, "grid") /\ ip[r][d] \in Nat
      BY <1>3, <3>1 DEF Grid, InCode, InRound, Types, TypeOK
    <3>3. GridAt(r, ip[r][d])
      BY <3>2, InstrFacts DEF GridAt, At, Running, Instr
    <3>4. ~Released(r, d, ip[r][d])
      BY <1>3, <3>1, <3>2 DEF Released
    <3> QED
      BY <3>2, <3>3, <3>4
  <2>5. \A d \in CTAs, e \in CTAs : ip[r][d] = ip[r][e]
    <3>1. \A d \in CTAs, e \in CTAs : ~(ip[r][d] < ip[r][e])
      <4> SUFFICES ASSUME NEW d \in CTAs, NEW e \in CTAs, ip[r][d] < ip[r][e]
                   PROVE  FALSE
        OBVIOUS
      <4>1. Released(r, e, ip[r][d])
        BY DEF Released
      <4> QED
        BY <2>4, <4>1 DEF Grid, GridTogether
    <3> QED
      BY <2>4, <3>1
  <2>6. \A d \in CTAs : \A i : Released(r, d, i)' <=> i < ip[r][d] \/ i = ip[r][d]
    <3>1. \A d \in CTAs : old_arrive'[r][d] # -1
      BY <1>2, <1>3, <2>1 DEF InRound
    <3> QED
      BY <1>8, <2>2, <3>1
  <2>7. GridTogether(r)'
    BY <1>1, <1>7, <2>5, <2>6 DEF GridTogether
  <2> QED
    BY <1>6, <2>3, <2>7 DEF Grid
<1> QED
  BY <1>9, <1>10

(* A CTA departs: it has seen the bit turn.                                *)
LEMMA DepartKept ==
    ASSUME Types, NEW r \in Ranks, NEW c \in CTAs, Depart(r, c), Grid(r)
    PROVE  Grid(r)'
<1>1. /\ CTAs' = CTAs /\ (Launched(r)' <=> Launched(r)) /\ Kernel(r)' = Kernel(r)
      /\ Launched(r) /\ UNCHANGED <<prog, call, word>>
  BY DEF Depart, host, flags, CTAs, Launched, Kernel, At, Running
<1>2. \A d \in CTAs : /\ old_arrive'[r][d] = IF d = c THEN -1 ELSE old_arrive[r][d]
                      /\ ip'[r][d] = IF d = c THEN ip[r][c] + 1 ELSE ip[r][d]
  BY DEF Depart, Goto, Types, TypeOK
<1>3. old_arrive[r][c] # -1 /\ At(r, c, "grid") /\ (High(old_arrive[r][c]) <=> ~High(word[r]))
  <2>1. Top \in Nat \ {0} /\ word[r] \in 0 .. 2 * Top - 1 /\ old_arrive[r][c] \in -1 .. 2 * Top - 1
    BY ProgramFacts DEF Types, TypeOK
  <2>2. old_arrive[r][c] # -1 /\ old_arrive[r][c] \div Top # word[r] \div Top /\ At(r, c, "grid")
    BY DEF Depart
  <2>3. old_arrive[r][c] \in 0 .. 2 * Top - 1
    <3> HIDE DEF Top
    <3> QED
      BY <2>1, <2>2
  <2>4. /\ word[r] \div Top = (IF High(word[r]) THEN 1 ELSE 0)
        /\ old_arrive[r][c] \div Top = (IF High(old_arrive[r][c]) THEN 1 ELSE 0)
    BY <2>1, <2>3, WordFacts
  <2> QED
    BY <2>2, <2>4
<1>4. c \notin InRound(r)
  BY <1>3 DEF InRound
<1>5. InRound(r)' = InRound(r)
  <2>1. InRound(r)' = {d \in CTAs : old_arrive'[r][d] # -1
                                        /\ (High(old_arrive'[r][d]) <=> High(word[r]))}
    BY <1>1 DEF InRound, High
  <2> QED
    BY <1>2, <1>4, <2>1 DEF InRound
<1>6. WordCounts(r)'
  BY <1>1, <1>5 DEF Grid, WordCounts, Low, High
<1>7. ip[r][c] \in 1 .. Len(Kernel(r).code) /\ Len(Kernel(r).code) \in Nat
  BY <1>1, <1>3, InstrFacts, CallFacts DEF At
<1>8. InCode(r)'
  <2> SUFFICES ASSUME NEW d \in CTAs
               PROVE  /\ ip'[r][d] <= Len(Kernel(r).code) + 1
                      /\ old_arrive'[r][d] # -1 => At(r, d, "grid")'
    BY <1>1 DEF InCode
  <2>1. CASE d = c
    BY <1>2, <1>7, <2>1
  <2>2. CASE d # c
    BY <1>1, <1>2, <2>2 DEF Grid, InCode, At, Running, Instr
  <2> QED
    BY <2>1, <2>2
<1>9. \A d \in CTAs : \A i \in Nat : Released(r, d, i)' <=> Released(r, d, i)
  <2> SUFFICES ASSUME NEW d \in CTAs, NEW i \in Nat
               PROVE  Released(r, d, i)' <=> Released(r, d, i)
    OBVIOUS
  <2>1. Released(r, d, i)' <=> \/ i < ip'[r][d]
                               \/ i = ip'[r][d] /\ old_arrive'[r][d] # -1 /\ d \notin InRound(r)
    BY <1>5 DEF Released
  <2>2. CASE d = c
    BY <1>2, <1>3, <1>4, <1>7, <2>1, <2>2 DEF Released
  <2>3. CASE d # c
    BY <1>2, <2>1, <2>3 DEF Released
  <2> QED
    BY <2>2, <2>3
<1>10. GridTogether(r)'
  <2>1. \A i : GridAt(r, i)' <=> GridAt(r, i)
    BY <1>1 DEF GridAt
  <2> QED
    BY <1>1, <1>9, <2>1 DEF Grid, GridTogether
<1> QED
  BY <1>6, <1>8, <1>10 DEF Grid

(* All CTAs start a call together, when none is in the barrier.            *)
LEMMA GridLaunchKept ==
    ASSUME Types, NEW r \in Ranks, Launch(r), Grid(r)
    PROVE  Grid(r)'
<1>1. CTAs' = CTAs /\ UNCHANGED <<prog, old_arrive, word>>
  BY DEF Launch, flags, CTAs
<1>2. \A d \in CTAs : ip'[r][d] = 1
  BY DEF Launch, Types, TypeOK
<1>3. \A d \in CTAs : old_arrive[r][d] = -1
  <2> SUFFICES ASSUME NEW d \in CTAs, old_arrive[r][d] # -1
               PROVE  FALSE
    OBVIOUS
  <2>1. Launched(r) /\ ip[r][d] <= Len(Kernel(r).code)
    BY DEF Grid, InCode, At, Running
  <2>2. ip[r][d] > Len(Kernel(r).code)
    BY <2>1 DEF Launch, Finished, KernelEnded
  <2>3. ip[r][d] \in Nat /\ Len(Kernel(r).code) \in Nat
    BY <2>1, CallFacts DEF Types, TypeOK
  <2> QED
    BY <2>1, <2>2, <2>3
<1>4. InRound(r)' = InRound(r)
  BY <1>1, StillInRound
<1>5. WordCounts(r)'
  BY <1>1, <1>4 DEF Grid, WordCounts, Low, High
<1>6. Types'
  BY TypeLaunch
<1>7. Launched(r)'
  BY DEF Launch, Launched, Types, TypeOK
<1>8. InCode(r)'
  <2>1. prog' \in Programs /\ Len(Kernel(r)'.code) \in Nat
    <3>1. prog \in Programs
      BY DEF Types
    <3>2. call[r] \in 0 .. Len(prog.calls) /\ Len(prog.calls) \in Nat
      <4>1. call[r] \in 0 .. Len(prog.calls)
        BY DEF Types, TypeOK
      <4>2. Len(prog.calls) \in Nat
        BY <3>1, ProgramFacts DEF WellFormed
      <4> QED
        BY <4>1, <4>2
    <3>3. call[r] < Len(prog.calls)
      BY DEF Launch
    <3>4. call'[r] = call[r] + 1
      BY DEF Launch, Types, TypeOK
    <3>5. call'[r] \in 1 .. Len(prog.calls)
      BY <3>2, <3>3, <3>4
    <3>6. Len(prog.calls[call'[r]].code) \in Nat
      BY <3>1, <3>5, ProgramFacts DEF WellFormed
    <3>7. prog' = prog
      BY DEF Launch
    <3> QED
      BY <3>1, <3>6, <3>7 DEF Kernel
  <2> QED
    BY <1>1, <1>2, <1>3, <1>7, <2>1 DEF InCode
<1>9. \A d \in CTAs : \A i \in Nat : GridAt(r, i)' => ~Released(r, d, i)'
  <2> SUFFICES ASSUME NEW d \in CTAs, NEW i \in Nat, GridAt(r, i)', Released(r, d, i)'
               PROVE  FALSE
    OBVIOUS
  <2>1. i < ip'[r][d]
    BY <1>1, <1>3 DEF Released
  <2>2. i >= 1
    BY DEF GridAt
  <2> QED
    BY <1>2, <2>1, <2>2
<1>10. GridTogether(r)'
  BY <1>1, <1>9 DEF GridTogether
<1> QED
  BY <1>5, <1>8, <1>10 DEF Grid

------------------------------------------------------------------------------
(* Where pid 0 of a rank is in the program.                                *)
Where(r) == <<call[r], ip[r][0]>>
Past(r, x) == x \prec Where(r)
On(r, x) == x = Where(r)

LEMMA Order ==
    /\ \A x \in Nat \X Nat : ~(x \prec x)
    /\ \A x \in Nat \X Nat, y \in Nat \X Nat : x \prec y \/ y \prec x \/ x = y
    /\ \A x \in Nat \X Nat, y \in Nat \X Nat, z \in Nat \X Nat :
          x \prec y /\ y \prec z => x \prec z
<1>1. \A x \in Nat \X Nat, y \in Nat \X Nat :
         /\ x = y <=> x[1] = y[1] /\ x[2] = y[2]
         /\ x[1] \in Nat /\ x[2] \in Nat
  OBVIOUS
<1> QED
  BY <1>1 DEF \prec

LEMMA PositionFacts ==
    ASSUME prog \in Programs, NEW x \in Positions(prog)
    PROVE  /\ x \in Nat \X Nat
           /\ x[1] \in 1 .. Len(prog.calls) /\ x[2] \in 1 .. Len(prog.calls[x[1]].code)
           /\ Len(prog.calls[x[1]].code) \in Nat
           /\ InstrAt(prog, x) = prog.calls[x[1]].code[x[2]]
           /\ IsInstruction(InstrAt(prog, x))
<1>1. PICK k \in 1 .. Len(prog.calls) : x \in {k} \X (1 .. Len(prog.calls[k].code))
  BY DEF Positions
<1>2. Len(prog.calls[k].code) \in Nat /\ Len(prog.calls) \in Nat
  BY ProgramFacts DEF WellFormed
<1>3. x[1] = k /\ x[2] \in 1 .. Len(prog.calls[k].code) /\ x = <<x[1], x[2]>>
  BY <1>1
<1>4. IsInstruction(prog.calls[k].code[x[2]])
  BY <1>3, ProgramFacts DEF WellFormed
<1>5. x[1] \in Nat /\ x[2] \in Nat
  BY <1>2, <1>3
<1>6. x \in Nat \X Nat
  BY <1>3, <1>5
<1> QED
  BY <1>2, <1>3, <1>4, <1>6 DEF InstrAt

LEMMA WhereFacts ==
    ASSUME Types, NEW r \in Ranks
    PROVE  /\ Where(r) \in Nat \X Nat
           /\ Where(r)[1] = call[r] /\ Where(r)[2] = ip[r][0]
           /\ call[r] \in Nat /\ ip[r][0] \in Nat \ {0}
BY RanksAndCTAs DEF Types, TypeOK, Where

(* What a rank's pid 0 is at, as a position.                               *)
LEMMA AtPosition ==
    ASSUME Types, NEW r \in Ranks
    PROVE  /\ \A op : At(r, 0, op) => /\ Where(r) \in Positions(prog)
                                      /\ InstrAt(prog, Where(r)) = Instr(r, 0)
                                      /\ InstrAt(prog, Where(r)).op = op
           /\ \A x \in Positions(prog) : On(r, x) => Running(r, 0) /\ InstrAt(prog, x) = Instr(r, 0)
<1>1. 0 \in CTAs
  BY RanksAndCTAs DEF Types
<1>2. ASSUME NEW op, At(r, 0, op)
      PROVE  /\ Where(r) \in Positions(prog) /\ InstrAt(prog, Where(r)) = Instr(r, 0)
             /\ InstrAt(prog, Where(r)).op = op
  BY <1>1, <1>2, InstrFacts DEF At, Where
<1>3. ASSUME NEW x \in Positions(prog), On(r, x)
      PROVE  Running(r, 0) /\ InstrAt(prog, x) = Instr(r, 0)
  <2>1. x[1] = call[r] /\ x[2] = ip[r][0]
    BY <1>3, WhereFacts DEF On
  <2>2. /\ x[1] \in 1 .. Len(prog.calls) /\ x[2] \in 1 .. Len(prog.calls[x[1]].code)
        /\ InstrAt(prog, x) = prog.calls[x[1]].code[x[2]]
        /\ Len(prog.calls) \in Nat /\ Len(prog.calls[x[1]].code) \in Nat
    BY PositionFacts, RanksAndCTAs DEF Types
  <2> QED
    BY <2>1, <2>2 DEF Running, Launched, Kernel, Instr
<1> QED
  BY <1>2, <1>3

LEMMA PastFacts ==
    ASSUME Types, NEW r \in Ranks, NEW x \in Positions(prog)
    PROVE  /\ ~(Past(r, x) /\ On(r, x))
           /\ \A y \in Positions(prog) : (Past(r, x) \/ On(r, x)) /\ y \prec x => Past(r, y)
<1>1. \A y \in Positions(prog) : y \in Nat \X Nat
  BY PositionFacts DEF Types
<1>2. Where(r) \in Nat \X Nat
  BY WhereFacts
<1> QED
  BY <1>1, <1>2, Order DEF Past, On

(* Going on to the next instruction, or to the next call.                  *)
LEMMA GotoMoves ==
    ASSUME Types, NEW r \in Ranks, Goto(r, 0), call' = call
    PROVE  \A x \in Positions(prog) : Past(r, x)' <=> Past(r, x) \/ On(r, x)
<1> SUFFICES ASSUME NEW x \in Positions(prog)
             PROVE  Past(r, x)' <=> Past(r, x) \/ On(r, x)
  OBVIOUS
<1>1. ip'[r][0] = ip[r][0] + 1 /\ call'[r] = call[r]
  BY RanksAndCTAs DEF Goto, Types, TypeOK
<1>2. x \in Nat \X Nat /\ x[1] \in Nat /\ x[2] \in Nat
  BY PositionFacts DEF Types
<1>3. Past(r, x)' <=> x[1] < call[r] \/ (x[1] = call[r] /\ x[2] < ip[r][0] + 1)
  BY <1>1 DEF Past, Where, \prec
<1>4. Past(r, x) <=> x[1] < call[r] \/ (x[1] = call[r] /\ x[2] < ip[r][0])
  BY DEF Past, Where, \prec
<1>5. On(r, x) <=> x[1] = call[r] /\ x[2] = ip[r][0]
  BY <1>2 DEF On, Where
<1> QED
  BY <1>2, <1>3, <1>4, <1>5, WhereFacts

LEMMA LaunchMoves ==
    ASSUME Types, NEW r \in Ranks, Launch(r)
    PROVE  \A x \in Positions(prog) : (Past(r, x)' <=> Past(r, x) \/ On(r, x)) /\ ~On(r, x)
<1> SUFFICES ASSUME NEW x \in Positions(prog)
             PROVE  (Past(r, x)' <=> Past(r, x) \/ On(r, x)) /\ ~On(r, x)
  OBVIOUS
<1>0. 0 \in CTAs
  BY RanksAndCTAs DEF Types
<1>1. ip'[r][0] = 1 /\ call'[r] = call[r] + 1
  BY <1>0 DEF Launch, Types, TypeOK
<1>2. /\ x[1] \in Nat \ {0} /\ x[2] \in Nat \ {0}
      /\ x[2] <= Len(prog.calls[x[1]].code) /\ Len(prog.calls[x[1]].code) \in Nat
  BY PositionFacts, RanksAndCTAs DEF Types
<1>3. ~On(r, x)
  <2> SUFFICES ASSUME On(r, x) PROVE FALSE
    OBVIOUS
  <2>1. Running(r, 0)
    BY AtPosition
  <2>2. Launched(r) /\ ip[r][0] \in 1 .. Len(Kernel(r).code) /\ Len(Kernel(r).code) \in Nat
    BY <1>0, <2>1, InstrFacts, CallFacts DEF Running
  <2>3. ip[r][0] > Len(Kernel(r).code)
    BY <1>0, <2>2 DEF Launch, Finished, KernelEnded
  <2> QED
    BY <2>2, <2>3
<1>4. Past(r, x)' <=> x[1] < call[r] + 1 \/ (x[1] = call[r] + 1 /\ x[2] < 1)
  BY <1>1 DEF Past, Where, \prec
<1>5. Past(r, x) <=> x[1] < call[r] \/ (x[1] = call[r] /\ x[2] < ip[r][0])
  BY DEF Past, Where, \prec
<1>6. x[1] = call[r] => x[2] < ip[r][0]
  <2> SUFFICES ASSUME x[1] = call[r] PROVE x[2] < ip[r][0]
    OBVIOUS
  <2>1. Launched(r)
    BY <1>2 DEF Launched
  <2>2. ip[r][0] > Len(Kernel(r).code)
    BY <1>0, <2>1 DEF Launch, Finished, KernelEnded
  <2> QED
    BY <1>2, <2>2, WhereFacts DEF Kernel
<1> QED
  BY <1>2, <1>3, <1>4, <1>5, <1>6, WhereFacts

------------------------------------------------------------------------------
(* The threads of pid 0 are at work only where it meets the other ranks.   *)
ThreadsAtWork(r) == \A t \in Ranks : thr[r][t] # "store" =>
    \/ (At(r, 0, "exchange") \/ At(r, 0, "cas")) /\ t \in Threads(r)
    \/ At(r, 0, "sync") /\ t = r /\ thr[r][t] = "wait"

PhaseKept(r) == phase[r] = IF Launched(r) THEN prog.phases[call[r]] ELSE 1

(* Signals that are under way go to rows of their own.                     *)
PutsOnSignalRows == \A p \in puts :
    \E x \in Positions(prog) : p.half \in SignalRows(InstrAt(prog, x))

Local == /\ PutsOnSignalRows
         /\ \A r \in Ranks : Grid(r) /\ ThreadsAtWork(r) /\ PhaseKept(r)

(* What a step leaves of a rank's pid 0.                                   *)
Stays(q) == /\ call'[q] = call[q] /\ ip'[q][0] = ip[q][0] /\ thr'[q] = thr[q]
            /\ phase'[q] = phase[q] /\ synced'[q] = synced[q]

LEMMA StaysLocal ==
    ASSUME Types, NEW q \in Ranks, prog' = prog, Stays(q), ThreadsAtWork(q), PhaseKept(q)
    PROVE  ThreadsAtWork(q)' /\ PhaseKept(q)'
<1>1. /\ Ranks' = Ranks /\ (Launched(q)' <=> Launched(q))
      /\ \A op : At(q, 0, op)' <=> At(q, 0, op)
      /\ Threads(q)' = Threads(q)
  BY DEF Stays, Ranks, Launched, At, Running, Instr, Kernel, Threads
<1> QED
  BY <1>1 DEF Stays, ThreadsAtWork, PhaseKept

(* A step in which pid 0 of a rank goes on: it is past where it was, with  *)
(* all its threads back at the start, and if that was a meeting its        *)
(* threads were done.                                                      *)
Leaves(q) ==
    /\ \A x \in Positions(prog) : Past(q, x)' <=> Past(q, x) \/ On(q, x)
    /\ \A t \in Ranks : thr'[q][t] = "store"
    /\ synced'[q] = synced[q]
    /\ \A x \in Positions(prog) : On(q, x) =>
          /\ InstrAt(prog, x).op = "exchange" => \A t \in Ranks \ {q} : thr[q][t] = "done"
          /\ InstrAt(prog, x).op = "cas" => \A t \in Ranks : thr[q][t] = "done"
          /\ InstrAt(prog, x).op = "sync" => /\ thr[q][q] = "wait"
                                             /\ \A t \in Ranks : synced[t] >= synced[q]

(* The rows of flags that are used in meetings keep their flags.           *)
MeetRow(h) == \E x \in Positions(prog) :
                  InstrAt(prog, x).op \in {"exchange", "cas"} /\ InstrAt(prog, x).half = h
FlagsElsewhere == \A h \in Rows : MeetRow(h) =>
                      \A t \in Ranks, q \in Ranks : flag'[t][h][q] = flag[t][h][q]

Quiet == prog' = prog /\ FlagsElsewhere /\ \A q \in Ranks : Stays(q)
Advance(r) == prog' = prog /\ FlagsElsewhere /\ Leaves(r) /\ \A q \in Ranks \ {r} : Stays(q)

LEMMA SignalRowsApart ==
    ASSUME Types, NEW y \in Positions(prog), NEW h \in SignalRows(InstrAt(prog, y))
    PROVE  ~MeetRow(h)
BY ProgramFacts DEF Types, RowsApart, MeetRow

LEMMA QuietSteps ==
    ASSUME Types,
           \/ \E r \in Ranks, c \in CTAs : PassBy(r, c) \/ Arrive(r, c)
           \/ \E r \in Ranks, c \in CTAs \ {0} :
                 Depart(r, c) \/ MoveData(r, c) \/ Await(r, c) \/ SetReady(r, c)
           \/ \E r \in Ranks : WaitReady(r) \/ CopyPart(r) \/ SetSignal(r) \/ CopyOut(r)
           \/ \E r \in Ranks : BeginTile(r) \/ EndTile(r)
           \/ UNCHANGED vars
    PROVE  Quiet
<1>0. 0 \in CTAs
  BY RanksAndCTAs DEF Types
<1>1. CASE \E r \in Ranks, c \in CTAs : PassBy(r, c) \/ Arrive(r, c)
  <2>1. PICK r \in Ranks, c \in CTAs : PassBy(r, c) \/ Arrive(r, c)
    BY <1>1
  <2>2. UNCHANGED <<prog, call, thr, phase, synced, flag>>
    BY <2>1 DEF PassBy, Arrive, host, flags
  <2>3. \A q \in Ranks : ip'[q][0] = ip[q][0]
    <3>1. ip' = ip \/ (c # 0 /\ ip' = [ip EXCEPT ![r][c] = ip[r][c] + 1])
      BY <2>1 DEF PassBy, Arrive, Goto
    <3>2. ip \in [Ranks -> [CTAs -> Nat \ {0}]]
      BY DEF Types, TypeOK
    <3>3. CASE ip' = [ip EXCEPT ![r][c] = ip[r][c] + 1] /\ c # 0
      BY <1>0, <3>2, <3>3
    <3> QED
      BY <3>1, <3>3
  <2> QED
    BY <2>2, <2>3 DEF Quiet, Stays, FlagsElsewhere
<1>2. CASE \E r \in Ranks, c \in CTAs \ {0} :
                 Depart(r, c) \/ MoveData(r, c) \/ Await(r, c) \/ SetReady(r, c)
  <2>1. PICK r \in Ranks, c \in CTAs \ {0} :
                 Depart(r, c) \/ MoveData(r, c) \/ Await(r, c) \/ SetReady(r, c)
    BY <1>2
  <2>2. UNCHANGED <<prog, call, thr, phase, synced, flag>> /\ Goto(r, c)
    BY <2>1 DEF Depart, MoveData, Await, SetReady, host, flags
  <2>3. \A q \in Ranks : ip'[q][0] = ip[q][0]
    BY <1>0, <2>2 DEF Goto, Types, TypeOK
  <2> QED
    BY <2>2, <2>3 DEF Quiet, Stays, FlagsElsewhere
<1>3. CASE \E r \in Ranks : WaitReady(r) \/ CopyPart(r) \/ SetSignal(r) \/ CopyOut(r)
  <2>1. UNCHANGED <<prog, call, ip, thr, phase, synced, flag>>
    BY <1>3 DEF WaitReady, CopyPart, SetSignal, CopyOut, host, flags, ctas
  <2> QED
    BY <2>1 DEF Quiet, Stays, FlagsElsewhere
<1>4. CASE \E r \in Ranks : BeginTile(r) \/ EndTile(r)
  <2>1. UNCHANGED <<prog, call, ip, thr, phase, synced, flag>>
    BY <1>4 DEF BeginTile, EndTile, host, flags, ctas
  <2> QED
    BY <2>1 DEF Quiet, Stays, FlagsElsewhere
<1>5. CASE UNCHANGED vars
  BY <1>5 DEF vars, host, flags, ctas, Quiet, Stays, FlagsElsewhere
<1> QED
  BY <1>1, <1>2, <1>3, <1>4, <1>5

LEMMA DeliverQuiet ==
    ASSUME Types, PutsOnSignalRows, NEW p \in puts, Deliver(p)
    PROVE  Quiet
<1>1. UNCHANGED <<prog, call, ip, thr, phase, synced>>
      /\ flag' = [flag EXCEPT ![p.dst][p.half][p.src] = 1]
  BY DEF Deliver, host, ctas
<1>2. ~MeetRow(p.half)
  BY SignalRowsApart DEF PutsOnSignalRows
<1>3. FlagsElsewhere
  BY <1>1, <1>2 DEF FlagsElsewhere, Types, TypeOK
<1> QED
  BY <1>1, <1>3 DEF Quiet, Stays

(* pid 0 goes on from what is no meeting.                                  *)
LEMMA WalkAdvances ==
    ASSUME Types, NEW r \in Ranks, ThreadsAtWork(r),
           \/ Depart(r, 0) \/ MoveData(r, 0) \/ Await(r, 0) \/ SetReady(r, 0)
           \/ Clear(r)
    PROVE  Advance(r) /\ phase' = phase /\ call' = call
<1>0. 0 \in CTAs
  BY RanksAndCTAs DEF Types
<1>1. Goto(r, 0) /\ UNCHANGED <<prog, call, phase, thr, synced>>
  BY DEF Depart, MoveData, Await, SetReady, Clear, host, flags
<1>2. Running(r, 0) /\ Instr(r, 0).op \notin Meetings
  BY DEF Depart, MoveData, Await, SetReady, Clear, At, Meetings, DataOps
<1>3. \A t \in Ranks : thr[r][t] = "store"
  BY <1>2 DEF ThreadsAtWork, At, Meetings
<1>4. \A q \in Ranks \ {r} : ip'[q] = ip[q]
  BY <1>1 DEF Goto, Types, TypeOK
<1>5. FlagsElsewhere
  <2>1. CASE flag' = flag
    BY <2>1 DEF FlagsElsewhere
  <2>2. CASE Clear(r)
    <3>1. /\ Where(r) \in Positions(prog) /\ InstrAt(prog, Where(r)) = Instr(r, 0)
          /\ Instr(r, 0).op = "clear"
      BY <2>2, AtPosition DEF Clear
    <3>2. \A h \in Instr(r, 0).rows : ~MeetRow(h)
      BY <3>1, SignalRowsApart DEF SignalRows
    <3>3. flag' = [flag EXCEPT ![r] = [h \in Rows |-> IF h \in Instr(r, 0).rows
                                                     THEN [q \in Ranks |-> 0] ELSE flag[r][h]]]
      BY <2>2 DEF Clear
    <3> QED
      BY <3>2, <3>3 DEF FlagsElsewhere, Types, TypeOK
  <2> QED
    BY <2>1, <2>2 DEF Depart, MoveData, Await, SetReady, flags
<1>6. Leaves(r)
  <2>1. \A x \in Positions(prog) : Past(r, x)' <=> Past(r, x) \/ On(r, x)
    BY <1>1, GotoMoves
  <2>2. \A x \in Positions(prog) : On(r, x) => InstrAt(prog, x).op \notin Meetings
    BY <1>2, AtPosition
  <2> QED
    BY <1>1, <1>3, <2>1, <2>2 DEF Leaves, Meetings
<1> QED
  BY <1>1, <1>4, <1>5, <1>6 DEF Advance, Stays

LEMMA LaunchAdvances ==
    ASSUME Types, NEW r \in Ranks, ThreadsAtWork(r), Launch(r)
    PROVE  Advance(r)
<1>1. UNCHANGED <<prog, thr, synced, flag>>
  BY DEF Launch, flags
<1>2. \A q \in Ranks \ {r} : call'[q] = call[q] /\ phase'[q] = phase[q] /\ ip'[q] = ip[q]
  BY DEF Launch, Types, TypeOK
<1>3. ~Running(r, 0)
  <2> SUFFICES ASSUME Running(r, 0) PROVE FALSE
    OBVIOUS
  <2>1. 0 \in CTAs /\ Launched(r)
    BY RanksAndCTAs DEF Types, Running
  <2>2. ip[r][0] > Len(Kernel(r).code)
    BY <2>1 DEF Launch, Finished, KernelEnded
  <2>3. ip[r][0] \in 1 .. Len(Kernel(r).code) /\ Len(Kernel(r).code) \in Nat
    BY <2>1, InstrFacts, CallFacts
  <2> QED
    BY <2>2, <2>3
<1>4. \A t \in Ranks : thr[r][t] = "store"
  BY <1>3 DEF ThreadsAtWork, At
<1>5. Leaves(r)
  BY <1>1, <1>4, LaunchMoves DEF Leaves
<1> QED
  BY <1>1, <1>2, <1>5 DEF Advance, Stays, FlagsElsewhere

LEMMA MeetingAdvances ==
    ASSUME Types, NEW r \in Ranks, SyncThreads(r) \/ GoFromSync(r), ThreadsAtWork(r)
    PROVE  Advance(r) /\ phase' = phase /\ call' = call
<1>0. 0 \in CTAs
  BY RanksAndCTAs DEF Types
<1>1. Goto(r, 0) /\ UNCHANGED <<prog, call, phase, flag, synced>>
  BY DEF SyncThreads, GoFromSync, host, flags
<1>2. \A q \in Ranks \ {r} : ip'[q] = ip[q] /\ thr'[q] = thr[q]
  BY <1>1 DEF Goto, SyncThreads, GoFromSync, Types, TypeOK
<1>3. \A x \in Positions(prog) : Past(r, x)' <=> Past(r, x) \/ On(r, x)
  BY <1>1, GotoMoves
<1>4. ASSUME NEW x \in Positions(prog), On(r, x)
      PROVE  InstrAt(prog, x) = Instr(r, 0)
  BY <1>4, AtPosition
<1>5. CASE SyncThreads(r)
  <2>1. /\ At(r, 0, "exchange") \/ At(r, 0, "cas")
        /\ \A t \in Threads(r) : thr[r][t] = "done"
        /\ thr' = [thr EXCEPT ![r] = [t \in Ranks |-> "store"]]
    BY <1>5 DEF SyncThreads
  <2>2. \A t \in Ranks : thr'[r][t] = "store"
    BY <2>1 DEF Types, TypeOK
  <2>3. \A t \in Ranks \ {r} : thr[r][t] = "done"
    BY <2>1 DEF Threads
  <2>4. Instr(r, 0).op = "cas" => \A t \in Ranks : thr[r][t] = "done"
    <3>1. Instr(r, 0).op = "cas" => Instr(r, 0).self = TRUE
      BY <2>1, CasType DEF At
    <3> QED
      BY <2>1, <3>1 DEF Threads
  <2>5. Instr(r, 0).op # "sync"
    BY <2>1 DEF At
  <2>6. Leaves(r)
    BY <1>1, <1>3, <1>4, <2>2, <2>3, <2>4, <2>5 DEF Leaves
  <2> QED
    BY <1>1, <1>2, <2>6 DEF Advance, Stays, FlagsElsewhere
<1>6. CASE GoFromSync(r)
  <2>1. /\ At(r, 0, "sync") /\ thr[r][r] = "wait" /\ thr' = [thr EXCEPT ![r][r] = "store"]
        /\ \A q \in Ranks : synced[q] >= synced[r]
    BY <1>6 DEF GoFromSync
  <2>2. Instr(r, 0).op = "sync"
    BY <2>1 DEF At
  <2>3. \A t \in Ranks : t # r => thr[r][t] = "store"
    BY <2>2 DEF ThreadsAtWork, At
  <2>4. \A t \in Ranks : thr'[r][t] = "store"
    BY <2>1, <2>3 DEF Types, TypeOK
  <2>5. Leaves(r)
    BY <1>1, <1>3, <1>4, <2>1, <2>2, <2>4 DEF Leaves
  <2> QED
    BY <1>1, <1>2, <2>5 DEF Advance, Stays, FlagsElsewhere
<1> QED
  BY <1>5, <1>6

(* Every step is one of these, or one thread of pid 0 at a meeting.        *)
LEMMA Steps ==
    ASSUME Types, Local, [Next]_vars
    PROVE  \/ Quiet
           \/ \E r \in Ranks : Advance(r)
           \/ \E r \in Ranks, t \in Ranks : Store(r, t) \/ See(r, t)
           \/ \E r \in Ranks : ComeToSync(r)
<1>1. PutsOnSignalRows /\ \A r \in Ranks : ThreadsAtWork(r)
  BY DEF Local
<1>2. ASSUME NEW r \in Ranks, NEW c \in CTAs,
             Depart(r, c) \/ MoveData(r, c) \/ Await(r, c) \/ SetReady(r, c)
      PROVE  Quiet \/ \E q \in Ranks : Advance(q)
  <2>1. CASE c = 0
    BY <1>1, <1>2, <2>1, WalkAdvances
  <2>2. CASE c # 0
    BY <1>2, <2>2, QuietSteps
  <2> QED
    BY <2>1, <2>2
<1>3. ASSUME NEW r \in Ranks,
             Launch(r) \/ SyncThreads(r) \/ GoFromSync(r) \/ Clear(r)
      PROVE  Advance(r)
  BY <1>1, <1>3, LaunchAdvances, MeetingAdvances, WalkAdvances
<1>4. ASSUME NEW p \in puts, Deliver(p)
      PROVE  Quiet
  BY <1>1, <1>4, DeliverQuiet
<1>5. ASSUME \/ \E r \in Ranks, c \in CTAs : PassBy(r, c) \/ Arrive(r, c)
             \/ \E r \in Ranks : WaitReady(r) \/ CopyPart(r) \/ SetSignal(r) \/ CopyOut(r)
             \/ \E r \in Ranks : BeginTile(r) \/ EndTile(r)
             \/ UNCHANGED vars
      PROVE  Quiet
  BY <1>5, QuietSteps
<1> HIDE DEF Local, Types
<1> QED
  BY <1>2, <1>3, <1>4, <1>5 DEF Next

------------------------------------------------------------------------------
(* The barrier of the grid, and what concerns one rank alone, step by step.*)

LEMMA WalksAndStill ==
    ASSUME Types, NEW r \in Ranks, NEW c \in CTAs,
           \/ PassBy(r, c) \/ MoveData(r, c) \/ Await(r, c) \/ SetReady(r, c)
           \/ c = 0 /\ (SyncThreads(r) \/ GoFromSync(r) \/ Clear(r))
    PROVE  GridWalk(r, c) /\ \A q \in Ranks \ {r} : GridStill(q)
<1>1. Goto(r, c) /\ UNCHANGED <<prog, call, old_arrive, word>>
  BY DEF PassBy, MoveData, Await, SetReady, SyncThreads, GoFromSync, Clear, host, flags
<1>2. Running(r, c) /\ Instr(r, c).op # "grid"
  BY DEF PassBy, MoveData, Await, SetReady, SyncThreads, GoFromSync, Clear, At, MasterOps, DataOps
<1>3. \A q \in Ranks \ {r} : ip'[q] = ip[q]
  BY <1>1 DEF Goto, Types, TypeOK
<1> QED
  BY <1>1, <1>2, <1>3 DEF GridWalk, GridStill

LEMMA GridAway ==
    ASSUME Types, NEW r \in Ranks,
           \/ Launch(r)
           \/ \E c \in CTAs : Arrive(r, c) \/ Depart(r, c)
    PROVE  \A q \in Ranks \ {r} : GridStill(q)
<1>1. CASE Launch(r)
  BY <1>1 DEF Launch, flags, GridStill, Types, TypeOK
<1>2. CASE \E c \in CTAs : Arrive(r, c)
  BY <1>2 DEF Arrive, host, GridStill, Types, TypeOK
<1>3. CASE \E c \in CTAs : Depart(r, c)
  BY <1>3 DEF Depart, Goto, host, flags, GridStill, Types, TypeOK
<1> QED
  BY <1>1, <1>2, <1>3

LEMMA GridAllStill ==
    ASSUME \/ \E r \in Ranks, t \in Ranks : Store(r, t) \/ See(r, t)
           \/ \E r \in Ranks : ComeToSync(r)
           \/ \E p \in puts : Deliver(p)
           \/ \E r \in Ranks : WaitReady(r) \/ CopyPart(r) \/ SetSignal(r) \/ CopyOut(r)
           \/ \E r \in Ranks : BeginTile(r) \/ EndTile(r)
           \/ UNCHANGED vars
    PROVE  \A q : GridStill(q)
<1>1. CASE \E r \in Ranks, t \in Ranks : Store(r, t) \/ See(r, t)
  BY <1>1 DEF Store, See, host, GridStill
<1>2. CASE \E r \in Ranks : ComeToSync(r)
  BY <1>2 DEF ComeToSync, host, GridStill
<1>3. CASE \E p \in puts : Deliver(p)
  BY <1>3 DEF Deliver, host, ctas, GridStill
<1>4. CASE \E r \in Ranks : WaitReady(r) \/ CopyPart(r) \/ SetSignal(r) \/ CopyOut(r)
  BY <1>4 DEF WaitReady, CopyPart, SetSignal, CopyOut, host, ctas, flags, GridStill
<1>5. CASE \E r \in Ranks : BeginTile(r) \/ EndTile(r)
  BY <1>5 DEF BeginTile, EndTile, host, ctas, flags, GridStill
<1>6. CASE UNCHANGED vars
  BY <1>6 DEF vars, host, ctas, flags, GridStill
<1> QED
  BY <1>1, <1>2, <1>3, <1>4, <1>5, <1>6

LEMMA GridKept ==
    ASSUME Types, \A q \in Ranks : Grid(q), [Next]_vars
    PROVE  \A q \in Ranks : Grid(q)'
<1>0. 0 \in CTAs
  BY RanksAndCTAs DEF Types
<1>1. ASSUME NEW r \in Ranks, NEW c \in CTAs,
             \/ PassBy(r, c) \/ MoveData(r, c) \/ Await(r, c) \/ SetReady(r, c)
             \/ c = 0 /\ (SyncThreads(r) \/ GoFromSync(r) \/ Clear(r))
      PROVE  \A q \in Ranks : Grid(q)'
  <2>1. GridWalk(r, c) /\ \A q \in Ranks \ {r} : GridStill(q)
    BY <1>1, WalksAndStill
  <2> QED
    BY <2>1, GridWalkKept, GridStillKept
<1>2. ASSUME NEW r \in Ranks, Launch(r)
      PROVE  \A q \in Ranks : Grid(q)'
  <2>1. \A q \in Ranks \ {r} : GridStill(q)
    BY <1>2, GridAway
  <2> QED
    BY <1>2, <2>1, GridLaunchKept, GridStillKept
<1>3. ASSUME NEW r \in Ranks, NEW c \in CTAs, Arrive(r, c) \/ Depart(r, c)
      PROVE  \A q \in Ranks : Grid(q)'
  <2>1. \A q \in Ranks \ {r} : GridStill(q)
    BY <1>3, GridAway
  <2> QED
    BY <1>3, <2>1, ArriveKept, DepartKept, GridStillKept
<1>4. ASSUME \/ \E r \in Ranks, t \in Ranks : Store(r, t) \/ See(r, t)
             \/ \E r \in Ranks : ComeToSync(r)
             \/ \E p \in puts : Deliver(p)
             \/ \E r \in Ranks : WaitReady(r) \/ CopyPart(r) \/ SetSignal(r) \/ CopyOut(r)
             \/ \E r \in Ranks : BeginTile(r) \/ EndTile(r)
             \/ UNCHANGED vars
      PROVE  \A q \in Ranks : Grid(q)'
  <2>1. \A q : GridStill(q)
    BY <1>4, GridAllStill
  <2> QED
    BY <2>1, GridStillKept
<1>5. \A r \in Ranks : SyncThreads(r) \/ GoFromSync(r) \/ Clear(r) => \A q \in Ranks : Grid(q)'
  BY <1>0, <1>1
<1> HIDE DEF Types
<1> QED
  BY <1>1, <1>2, <1>3, <1>4, <1>5 DEF Next

LEMMA PhasesAndThreads ==
    ASSUME Types, Local, [Next]_vars
    PROVE  \A q \in Ranks : ThreadsAtWork(q)' /\ PhaseKept(q)'
<1>0. \A q \in Ranks : ThreadsAtWork(q) /\ PhaseKept(q)
  BY DEF Local
<1>1. prog' = prog /\ Ranks' = Ranks
  BY ProgramKept DEF Ranks
<1>2. ASSUME Quiet PROVE \A q \in Ranks : ThreadsAtWork(q)' /\ PhaseKept(q)'
  BY <1>0, <1>2, StaysLocal DEF Quiet
<1>3. ASSUME NEW r \in Ranks, Advance(r), PhaseKept(r)'
      PROVE  \A q \in Ranks : ThreadsAtWork(q)' /\ PhaseKept(q)'
  <2>1. ThreadsAtWork(r)'
    BY <1>1, <1>3 DEF Advance, Leaves, ThreadsAtWork
  <2>2. \A q \in Ranks \ {r} : ThreadsAtWork(q)' /\ PhaseKept(q)'
    BY <1>0, <1>3, StaysLocal DEF Advance
  <2> QED
    BY <1>3, <2>1, <2>2
<1>4. ASSUME NEW r \in Ranks, phase' = phase /\ call' = call
      PROVE  PhaseKept(r)'
  BY <1>0, <1>1, <1>4 DEF PhaseKept, Launched
<1>5. ASSUME NEW r \in Ranks,
             \/ SyncThreads(r) \/ GoFromSync(r) \/ Clear(r)
             \/ Depart(r, 0) \/ MoveData(r, 0) \/ Await(r, 0) \/ SetReady(r, 0)
      PROVE  \A q \in Ranks : ThreadsAtWork(q)' /\ PhaseKept(q)'
  <2>1. Advance(r) /\ phase' = phase /\ call' = call
    BY <1>0, <1>5, MeetingAdvances, WalkAdvances
  <2> QED
    BY <1>3, <1>4, <2>1
<1>6. ASSUME NEW r \in Ranks, Launch(r)
      PROVE  \A q \in Ranks : ThreadsAtWork(q)' /\ PhaseKept(q)'
  <2>1. Advance(r)
    BY <1>0, <1>6, LaunchAdvances
  <2>2. call'[r] = call[r] + 1 /\ call[r] \in 0 .. Len(prog.calls) /\ call[r] < Len(prog.calls)
        /\ Len(prog.calls) \in Nat
    BY <1>6, RanksAndCTAs DEF Launch, Types, TypeOK
  <2>3. phase'[r] = IF Launched(r) THEN phase[r] + Kernel(r).bump ELSE phase[r]
    BY <1>6 DEF Launch, Types, TypeOK
  <2>4. call[r] + 1 \in 1 .. Len(prog.calls)
    BY <2>2
  <2>5. \A k \in 1 .. Len(prog.calls) :
           prog.phases[k] = IF k = 1 THEN 1 ELSE prog.phases[k - 1] + prog.calls[k - 1].bump
    BY ProgramFacts DEF Types, PhasesRise
  <2>6. phase'[r] = prog.phases[call[r] + 1]
    <3>1. CASE Launched(r)
      <4>1. phase[r] = prog.phases[call[r]] /\ call[r] + 1 # 1 /\ call[r] + 1 - 1 = call[r]
        BY <1>0, <2>2, <3>1 DEF PhaseKept, Launched
      <4>2. prog.phases[call[r] + 1] = prog.phases[call[r]] + prog.calls[call[r]].bump
        <5> DEFINE k == call[r] + 1
        <5>1. k \in 1 .. Len(prog.calls) /\ k # 1 /\ k - 1 = call[r]
          <6>1. call[r] \in Nat /\ call[r] # 0
            BY <2>2, <4>1
          <6> QED
            BY <2>4, <6>1
        <5> HIDE DEF k
        <5>2. prog.phases[k] = prog.phases[k - 1] + prog.calls[k - 1].bump
          BY <2>5, <5>1
        <5>3. prog.phases[k] = prog.phases[call[r]] + prog.calls[call[r]].bump
          BY <5>1, <5>2
        <5> QED
          BY <5>3 DEF k
      <4>3. phase'[r] = phase[r] + prog.calls[call[r]].bump
        BY <2>3, <3>1 DEF Kernel
      <4> QED
        BY <4>1, <4>2, <4>3
    <3>2. CASE ~Launched(r)
      <4>1. call[r] = 0 /\ phase[r] = 1
        BY <1>0, <2>2, <3>2 DEF PhaseKept, Launched
      <4>2. prog.phases[1] = 1
        BY <2>4, <2>5, <4>1
      <4> QED
        BY <2>3, <3>2, <4>1, <4>2
    <3> QED
      BY <3>1, <3>2
  <2>7. PhaseKept(r)'
    BY <1>1, <2>2, <2>6 DEF PhaseKept, Launched
  <2> QED
    BY <1>3, <2>1, <2>7
<1>7. ASSUME NEW r \in Ranks, NEW t \in Ranks, Store(r, t) \/ See(r, t)
      PROVE  \A q \in Ranks : ThreadsAtWork(q)' /\ PhaseKept(q)'
  <2>1. UNCHANGED <<prog, call, phase, ip>>
    BY <1>7 DEF Store, See, host
  <2>2. \A q \in Ranks : PhaseKept(q)'
    BY <1>4, <2>1
  <2>3. \A q \in Ranks, u \in Ranks : thr'[q][u] # thr[q][u] => q = r /\ u = t
    <3>1. PICK v : thr' = [thr EXCEPT ![r][t] = v]
      BY <1>7 DEF Store, See
    <3> QED
      BY <3>1 DEF Types, TypeOK
  <2>4. (At(r, 0, "exchange") \/ At(r, 0, "cas")) /\ t \in Threads(r)
    <3>1. At(r, 0, "exchange") \/ At(r, 0, "cas")
      BY <1>7 DEF Store, See
    <3>2. CASE Store(r, t)
      BY <3>1, <3>2 DEF Store
    <3>3. CASE See(r, t)
      <4>1. thr[r][t] # "store"
        BY <3>3 DEF See
      <4> QED
        BY <1>0, <3>1, <4>1 DEF ThreadsAtWork, At
    <3> QED
      BY <1>7, <3>1, <3>2, <3>3
  <2>5. \A q \in Ranks : \A op : At(q, 0, op)' <=> At(q, 0, op)
    BY <2>1 DEF At, Running, Launched, Kernel, Instr
  <2>6. \A q \in Ranks : Threads(q)' = Threads(q)
    BY <2>1 DEF Threads, Instr, Kernel, Ranks
  <2>7. \A q \in Ranks : ThreadsAtWork(q)'
    <3> SUFFICES ASSUME NEW q \in Ranks, NEW u \in Ranks, thr'[q][u] # "store"
                 PROVE  \/ (At(q, 0, "exchange")' \/ At(q, 0, "cas")') /\ u \in Threads(q)'
                        \/ At(q, 0, "sync")' /\ u = q /\ thr'[q][u] = "wait"
      BY <1>1 DEF ThreadsAtWork
    <3>1. CASE q = r /\ u = t
      BY <2>4, <2>5, <2>6, <3>1
    <3>2. CASE ~(q = r /\ u = t)
      BY <1>0, <2>3, <2>5, <2>6, <3>2 DEF ThreadsAtWork
    <3> QED
      BY <3>1, <3>2
  <2> QED
    BY <2>2, <2>7
<1>8. ASSUME NEW r \in Ranks, ComeToSync(r)
      PROVE  \A q \in Ranks : ThreadsAtWork(q)' /\ PhaseKept(q)'
  <2>1. UNCHANGED <<prog, call, phase, ip>> /\ At(r, 0, "sync")
    BY <1>8 DEF ComeToSync, host
  <2>2. \A q \in Ranks : PhaseKept(q)'
    BY <1>4, <2>1
  <2>3. \A q \in Ranks, u \in Ranks :
           thr'[q][u] = IF q = r /\ u = r THEN "wait" ELSE thr[q][u]
    BY <1>8 DEF ComeToSync, Types, TypeOK
  <2>5. \A q \in Ranks : \A op : At(q, 0, op)' <=> At(q, 0, op)
    BY <2>1 DEF At, Running, Launched, Kernel, Instr
  <2>6. \A q \in Ranks : Threads(q)' = Threads(q)
    BY <2>1 DEF Threads, Instr, Kernel, Ranks
  <2>7. \A q \in Ranks : ThreadsAtWork(q)'
    BY <1>0, <1>1, <2>1, <2>3, <2>5, <2>6 DEF ThreadsAtWork
  <2> QED
    BY <2>2, <2>7
<1>9. ASSUME NEW r \in Ranks, NEW c \in CTAs \ {0},
             Depart(r, c) \/ MoveData(r, c) \/ Await(r, c) \/ SetReady(r, c)
      PROVE  Quiet
  BY <1>9, QuietSteps
<1>10. ASSUME \/ \E r \in Ranks, c \in CTAs : PassBy(r, c) \/ Arrive(r, c)
              \/ \E r \in Ranks : WaitReady(r) \/ CopyPart(r) \/ SetSignal(r) \/ CopyOut(r)
              \/ \E r \in Ranks : BeginTile(r) \/ EndTile(r)
              \/ UNCHANGED vars
       PROVE  Quiet
  BY <1>10, QuietSteps
<1>11. ASSUME NEW p \in puts, Deliver(p) PROVE Quiet
  BY <1>11, DeliverQuiet DEF Local
<1>12. \A r \in Ranks, c \in CTAs :
          Depart(r, c) \/ MoveData(r, c) \/ Await(r, c) \/ SetReady(r, c) =>
              \A q \in Ranks : ThreadsAtWork(q)' /\ PhaseKept(q)'
  <2> SUFFICES ASSUME NEW r \in Ranks, NEW c \in CTAs,
                      Depart(r, c) \/ MoveData(r, c) \/ Await(r, c) \/ SetReady(r, c)
               PROVE  \A q \in Ranks : ThreadsAtWork(q)' /\ PhaseKept(q)'
    OBVIOUS
  <2>1. CASE c = 0
    BY <1>5, <2>1
  <2>2. CASE c # 0
    BY <1>2, <1>9, <2>2
  <2> QED
    BY <2>1, <2>2
<1> HIDE DEF Types, Local
<1> QED
  BY <1>2, <1>5, <1>6, <1>7, <1>8, <1>10, <1>11, <1>12 DEF Next

LEMMA PutsKept ==
    ASSUME Types, PutsOnSignalRows, [Next]_vars
    PROVE  PutsOnSignalRows'
<1>1. prog' = prog /\ Positions(prog') = Positions(prog)
  BY ProgramKept
<1>2. ASSUME puts' \subseteq puts PROVE PutsOnSignalRows'
  BY <1>1, <1>2 DEF PutsOnSignalRows
<1>3. ASSUME NEW r \in Ranks, NEW c \in CTAs, MoveData(r, c) PROVE PutsOnSignalRows'
  <2>1. puts' = puts \cup Puts(prog, call[r], r, c, Instr(r, c).op) /\ Running(r, c)
    BY <1>3 DEF MoveData
  <2>2. <<call[r], ip[r][c]>> \in Positions(prog)
        /\ InstrAt(prog, <<call[r], ip[r][c]>>) = Instr(r, c)
    BY <2>1, InstrFacts
  <2>3. \A p \in Puts(prog, call[r], r, c, Instr(r, c).op) : p.half \in SignalRows(Instr(r, c))
    <3> DEFINE op == Instr(r, c).op
    <3>1. CASE op = "push"
      BY <3>1 DEF Puts, Put, SignalRows
    <3>2. CASE op = "scatter"
      BY <3>2 DEF Puts, Put, SignalRows
    <3>3. CASE op = "push_slice"
      BY <3>3 DEF Puts, Put, SignalRows
    <3>4. CASE op \notin {"push", "scatter", "push_slice"}
      BY <3>4 DEF Puts
    <3> QED
      BY <3>1, <3>2, <3>3, <3>4
  <2> QED
    BY <1>1, <2>1, <2>2, <2>3 DEF PutsOnSignalRows
<1>4. ASSUME NEW r \in Ranks,
             \/ Launch(r) \/ SyncThreads(r) \/ ComeToSync(r) \/ GoFromSync(r) \/ Clear(r)
      PROVE  puts' \subseteq puts
  BY <1>4 DEF Launch, SyncThreads, ComeToSync, GoFromSync, Clear
<1>8. ASSUME NEW r \in Ranks, NEW t \in Ranks, Store(r, t) \/ See(r, t)
      PROVE  puts' \subseteq puts
  BY <1>8 DEF Store, See
<1>5. ASSUME NEW r \in Ranks, NEW c \in CTAs,
             \/ PassBy(r, c) \/ Arrive(r, c) \/ Depart(r, c) \/ Await(r, c) \/ SetReady(r, c)
      PROVE  puts' \subseteq puts
  BY <1>5 DEF PassBy, Arrive, Depart, Await, SetReady
<1>6. ASSUME NEW r \in Ranks,
             \/ WaitReady(r) \/ CopyPart(r) \/ SetSignal(r) \/ CopyOut(r)
             \/ BeginTile(r) \/ EndTile(r)
      PROVE  puts' \subseteq puts
  BY <1>6 DEF WaitReady, CopyPart, SetSignal, CopyOut, BeginTile, EndTile
<1>7. ASSUME UNCHANGED vars \/ \E p \in puts : Deliver(p) PROVE puts' \subseteq puts
  BY <1>7 DEF vars, Deliver
<1> HIDE DEF PutsOnSignalRows, Types
<1> QED
  BY <1>2, <1>3, <1>4, <1>5, <1>6, <1>7, <1>8 DEF Next

LEMMA LocalKept ==
    ASSUME Types, Local, [Next]_vars
    PROVE  Local'
<1>1. Ranks' = Ranks
  BY ProgramKept DEF Ranks
<1>2. \A q \in Ranks : Grid(q)'
  BY GridKept DEF Local
<1>3. \A q \in Ranks : ThreadsAtWork(q)' /\ PhaseKept(q)'
  BY PhasesAndThreads
<1>4. PutsOnSignalRows'
  BY PutsKept DEF Local
<1> QED
  BY <1>1, <1>2, <1>3, <1>4 DEF Local

LEMMA InitLocal == Init => Local
<1> SUFFICES ASSUME Init PROVE Local
  OBVIOUS
<1>1. prog \in Programs /\ 0 \in CTAs
  BY RanksAndCTAs DEF Init
<1>2. PutsOnSignalRows
  BY DEF Init, PutsOnSignalRows
<1>3. ASSUME NEW r \in Ranks PROVE Grid(r)
  <2>1. /\ call[r] = 0 /\ word[r] = 0 /\ ~Launched(r)
        /\ \A c \in CTAs : ip[r][c] = 1 /\ old_arrive[r][c] = -1
    BY DEF Init, Launched
  <2>2. InRound(r) = {}
    BY <2>1 DEF InRound
  <2>3. WordCounts(r)
    <3>1. Top \in Nat \ {0} /\ prog.ctas \in Nat \ {0} /\ Cardinality({}) = 0
      BY <1>1, ProgramFacts, RanksAndCTAs, FS_EmptySet
    <3>2. Low(0) = 0
      <4> HIDE DEF Top
      <4> QED
        BY <3>1 DEF Low, High
    <3> QED
      BY <2>1, <2>2, <3>1, <3>2 DEF WordCounts
  <2>4. InCode(r)
    BY <2>1 DEF InCode
  <2>5. GridTogether(r)
    BY <2>1 DEF GridTogether, GridAt
  <2> QED
    BY <2>3, <2>4, <2>5 DEF Grid
<1>4. ASSUME NEW r \in Ranks PROVE ThreadsAtWork(r) /\ PhaseKept(r)
  BY DEF Init, ThreadsAtWork, PhaseKept, Launched
<1> QED
  BY <1>2, <1>3, <1>4 DEF Local

------------------------------------------------------------------------------
(* The meetings of the ranks' pid 0s.                                      *)
Started(r, t, x) == Past(r, x) \/ (On(r, x) /\ thr[r][t] # "store")
Done(r, t, x) == Past(r, x) \/ (On(r, x) /\ thr[r][t] = "done")

ExchangeOn(p, x, h) == x \in Positions(p) /\ InstrAt(p, x).op = "exchange" /\ InstrAt(p, x).half = h
CasOn(p, x, h) == x \in Positions(p) /\ InstrAt(p, x).op = "cas" /\ InstrAt(p, x).half = h

(* A flag on which phases are exchanged has the phase of an exchange that  *)
(* the thread which stores it has come to.                                 *)
FlagStored(r, t, h) ==
    (\E x \in Positions(prog) : ExchangeOn(prog, x, h)) =>
        \/ flag[t][h][r] = 0
        \/ \E x \in Positions(prog) : /\ ExchangeOn(prog, x, h) /\ Started(r, t, x)
                                      /\ flag[t][h][r] = PhaseAt(prog, x)

(* A flag that is raised and lowered is up when the raising thread has     *)
(* raised it once more than the lowering thread has lowered it, and down   *)
(* when they are level.                                                    *)
Up(r, t, x, h) == CasOn(prog, x, h) /\ Started(r, t, x) /\ ~Done(t, r, x)
FlagRaised(r, t, h) ==
    (\E x \in Positions(prog) : CasOn(prog, x, h)) =>
        /\ \A x \in Positions(prog) : CasOn(prog, x, h) /\ Done(t, r, x) => Started(r, t, x)
        /\ flag[t][h][r] \in 0 .. 1
        /\ flag[t][h][r] = 1 => \E x \in Positions(prog) : Up(r, t, x, h)
        /\ \A x \in Positions(prog) : Up(r, t, x, h) => flag[t][h][r] = 1
        /\ \A x \in Positions(prog), y \in Positions(prog) :
              Up(r, t, x, h) /\ Up(r, t, y, h) => x = y

(* synced counts the NVSHMEM barriers a rank has come to.                  *)
SyncsCome(r) == {x \in Positions(prog) : InstrAt(prog, x).op = "sync" /\ Started(r, r, x)}
SyncsCounted(r) == IsFiniteSet(SyncsCome(r)) /\ synced[r] = Cardinality(SyncsCome(r))

(* A thread that is done has seen the other rank's thread start.           *)
SeenStarted(r, t) == \A x \in Positions(prog) :
    InstrAt(prog, x).op \in {"exchange", "cas"} /\ On(t, x) /\ thr[t][r] = "done" => Started(r, t, x)

(* Nobody is past a meeting before everybody has come to it.               *)
Come(r, x) == Past(r, x) \/ (On(r, x) /\ \E u \in Ranks : thr[r][u] # "store")
NobodyAhead(r, t) == \A x \in Positions(prog) :
    InstrAt(prog, x).op \in Meetings /\ Past(t, x) /\ r # t => Come(r, x)

Meet == \A r \in Ranks, t \in Ranks :
            /\ \A h \in Rows : FlagStored(r, t, h) /\ FlagRaised(r, t, h)
            /\ SyncsCounted(r) /\ SeenStarted(r, t) /\ NobodyAhead(r, t)

LEMMA StaysPlace ==
    ASSUME NEW q \in Ranks, Stays(q), NEW x
    PROVE  /\ Past(q, x)' <=> Past(q, x)
           /\ On(q, x)' <=> On(q, x)
           /\ \A u : /\ Started(q, u, x)' <=> Started(q, u, x)
                     /\ Done(q, u, x)' <=> Done(q, u, x)
<1>1. Where(q)' = Where(q) /\ thr'[q] = thr[q]
  BY DEF Stays, Where
<1>2. (Past(q, x)' <=> Past(q, x)) /\ (On(q, x)' <=> On(q, x))
  BY <1>1 DEF Past, On, \prec
<1> QED
  BY <1>1, <1>2 DEF Started, Done

LEMMA AdvancePlace ==
    ASSUME Types, NEW r \in Ranks, Advance(r), NEW x \in Positions(prog), NEW u \in Ranks
    PROVE  /\ Past(r, x) => Past(r, x)'
           /\ Started(r, u, x)' <=> Past(r, x) \/ On(r, x)
           /\ Done(r, u, x)' <=> Past(r, x) \/ On(r, x)
           /\ InstrAt(prog, x).op = "cas" => /\ Started(r, u, x)' <=> Started(r, u, x)
                                             /\ Done(r, u, x)' <=> Done(r, u, x)
           /\ InstrAt(prog, x).op = "sync" => (Started(r, r, x)' <=> Started(r, r, x))
<1>1. /\ Past(r, x)' <=> Past(r, x) \/ On(r, x)
      /\ thr'[r][u] = "store" /\ thr'[r][r] = "store"
      /\ InstrAt(prog, x).op = "cas" /\ On(r, x) => thr[r][u] = "done"
      /\ InstrAt(prog, x).op = "sync" /\ On(r, x) => thr[r][r] = "wait"
  BY DEF Advance, Leaves
<1>2. /\ Started(r, u, x)' <=> Past(r, x)' \/ (On(r, x)' /\ thr'[r][u] # "store")
      /\ Started(r, r, x)' <=> Past(r, x)' \/ (On(r, x)' /\ thr'[r][r] # "store")
      /\ Done(r, u, x)' <=> Past(r, x)' \/ (On(r, x)' /\ thr'[r][u] = "done")
  BY DEF Started, Done
<1>3. /\ Started(r, u, x)' <=> Past(r, x) \/ On(r, x)
      /\ Started(r, r, x)' <=> Past(r, x) \/ On(r, x)
      /\ Done(r, u, x)' <=> Past(r, x) \/ On(r, x)
  BY <1>1, <1>2
<1> QED
  BY <1>1, <1>3 DEF Started, Done

(* One thread of pid 0 at a meeting; everybody stays where it is.          *)
LEMMA SamePlace ==
    ASSUME call' = call, ip' = ip
    PROVE  \A q : \A x : (Past(q, x)' <=> Past(q, x)) /\ (On(q, x)' <=> On(q, x))
<1>1. \A q : Where(q)' = Where(q)
  BY DEF Where
<1> QED
  BY <1>1 DEF Past, On, \prec

LEMMA StorePlace ==
    ASSUME Types, Local, NEW r \in Ranks, NEW t \in Ranks, Store(r, t)
    PROVE  /\ Where(r) \in Positions(prog)
           /\ \A q \in Ranks, u \in Ranks : \A x \in Positions(prog) :
                /\ Past(q, x)' <=> Past(q, x)
                /\ On(q, x)' <=> On(q, x)
                /\ Started(q, u, x)' <=> Started(q, u, x) \/ (q = r /\ u = t /\ x = Where(r))
                /\ Done(q, u, x)' <=> Done(q, u, x)
           /\ ~Started(r, t, Where(r))
<1>1. /\ UNCHANGED <<prog, call, ip>> /\ thr' = [thr EXCEPT ![r][t] = "wait"]
      /\ thr[r][t] = "store" /\ (At(r, 0, "exchange") \/ At(r, 0, "cas"))
  BY DEF Store, host
<1>2. Where(r) \in Positions(prog)
  BY <1>1, AtPosition
<1>3. \A q \in Ranks, u \in Ranks : \A x :
              /\ Past(q, x)' <=> Past(q, x)
              /\ On(q, x)' <=> On(q, x)
              /\ thr'[q][u] = IF q = r /\ u = t THEN "wait" ELSE thr[q][u]
  <2>1. \A q \in Ranks, u \in Ranks : thr'[q][u] = IF q = r /\ u = t THEN "wait" ELSE thr[q][u]
    BY <1>1 DEF Types, TypeOK
  <2> QED
    BY <1>1, <2>1, SamePlace
<1>4. \A x : On(r, x) <=> x = Where(r)
  BY DEF On
<1>5. ~Past(r, Where(r))
  BY <1>2, <1>4, PastFacts
<1> QED
  BY <1>1, <1>2, <1>3, <1>4, <1>5 DEF Started, Done

LEMMA SeePlace ==
    ASSUME Types, Local, NEW r \in Ranks, NEW t \in Ranks, See(r, t)
    PROVE  /\ Where(r) \in Positions(prog)
           /\ \A q \in Ranks, u \in Ranks : \A x \in Positions(prog) :
                /\ Past(q, x)' <=> Past(q, x)
                /\ On(q, x)' <=> On(q, x)
                /\ Started(q, u, x)' <=> Started(q, u, x)
                /\ Done(q, u, x)' <=> Done(q, u, x) \/ (q = r /\ u = t /\ x = Where(r))
           /\ ~Done(r, t, Where(r))
<1>1. /\ UNCHANGED <<prog, call, ip>> /\ thr' = [thr EXCEPT ![r][t] = "done"]
      /\ thr[r][t] = "wait" /\ (At(r, 0, "exchange") \/ At(r, 0, "cas"))
  BY DEF See, host
<1>2. Where(r) \in Positions(prog)
  BY <1>1, AtPosition
<1>3. \A q \in Ranks, u \in Ranks : \A x :
              /\ Past(q, x)' <=> Past(q, x)
              /\ On(q, x)' <=> On(q, x)
              /\ thr'[q][u] = IF q = r /\ u = t THEN "done" ELSE thr[q][u]
  <2>1. \A q \in Ranks, u \in Ranks : thr'[q][u] = IF q = r /\ u = t THEN "done" ELSE thr[q][u]
    BY <1>1 DEF Types, TypeOK
  <2> QED
    BY <1>1, <2>1, SamePlace
<1>4. \A x : On(r, x) <=> x = Where(r)
  BY DEF On
<1>5. ~Past(r, Where(r))
  BY <1>2, <1>4, PastFacts
<1> QED
  BY <1>1, <1>2, <1>3, <1>4, <1>5 DEF Started, Done

LEMMA ComePlace ==
    ASSUME Types, Local, NEW r \in Ranks, ComeToSync(r)
    PROVE  /\ Where(r) \in Positions(prog) /\ InstrAt(prog, Where(r)).op = "sync"
           /\ \A q \in Ranks, u \in Ranks : \A x \in Positions(prog) :
                /\ Past(q, x)' <=> Past(q, x)
                /\ On(q, x)' <=> On(q, x)
                /\ Started(q, u, x)' <=> Started(q, u, x) \/ (q = r /\ u = r /\ x = Where(r))
                /\ Done(q, u, x)' <=> Done(q, u, x)
           /\ ~Started(r, r, Where(r))
<1>1. /\ UNCHANGED <<prog, call, ip>> /\ thr' = [thr EXCEPT ![r][r] = "wait"]
      /\ thr[r][r] = "store" /\ At(r, 0, "sync")
  BY DEF ComeToSync, host
<1>2. Where(r) \in Positions(prog) /\ InstrAt(prog, Where(r)).op = "sync"
  BY <1>1, AtPosition
<1>3. \A q \in Ranks, u \in Ranks : \A x :
              /\ Past(q, x)' <=> Past(q, x)
              /\ On(q, x)' <=> On(q, x)
              /\ thr'[q][u] = IF q = r /\ u = r THEN "wait" ELSE thr[q][u]
  <2>1. \A q \in Ranks, u \in Ranks : thr'[q][u] = IF q = r /\ u = r THEN "wait" ELSE thr[q][u]
    BY <1>1 DEF Types, TypeOK
  <2> QED
    BY <1>1, <2>1, SamePlace
<1>4. \A x : On(r, x) <=> x = Where(r)
  BY DEF On
<1>5. ~Past(r, Where(r))
  BY <1>2, <1>4, PastFacts
<1> QED
  BY <1>1, <1>2, <1>3, <1>4, <1>5 DEF Started, Done

(* Nobody goes back.                                                       *)
LEMMA Forward ==
    ASSUME Types, Local, [Next]_vars, NEW q \in Ranks, NEW u \in Ranks, NEW x \in Positions(prog)
    PROVE  /\ Past(q, x) => Past(q, x)'
           /\ Started(q, u, x) => Started(q, u, x)'
           /\ Done(q, u, x) => Done(q, u, x)'
<1>1. CASE Stays(q)
  BY <1>1, StaysPlace
<1>2. CASE Advance(q)
  BY <1>2, AdvancePlace DEF Started, Done
<1>3. CASE \E r \in Ranks, t \in Ranks : Store(r, t) \/ See(r, t)
  BY <1>3, StorePlace, SeePlace
<1>4. CASE \E r \in Ranks : ComeToSync(r)
  BY <1>4, ComePlace
<1>5. CASE \E r \in Ranks : Advance(r)
  BY <1>1, <1>2, <1>5 DEF Advance
<1>6. CASE Quiet
  BY <1>1, <1>6 DEF Quiet
<1> QED
  BY <1>3, <1>4, <1>5, <1>6, Steps

------------------------------------------------------------------------------
(* The meeting invariants, flag by flag.                                   *)

LEMMA CellsOfStore ==
    ASSUME Types, NEW r \in Ranks, NEW t \in Ranks, Store(r, t)
    PROVE  LET h == Instr(r, 0).half
           IN  /\ h \in Rows /\ MeetRow(h) /\ InstrAt(prog, Where(r)) = Instr(r, 0)
               /\ \/ /\ ExchangeOn(prog, Where(r), h) /\ Value(r) \in Nat \ {0}
                     /\ flag'[t][h][r] = Value(r)
                  \/ /\ CasOn(prog, Where(r), h) /\ flag[t][h][r] = 0 /\ flag'[t][h][r] = 1
               /\ \A u \in Ranks, q \in Ranks, g \in Rows :
                     ~(u = t /\ g = h /\ q = r) => flag'[u][g][q] = flag[u][g][q]
<1> DEFINE h == Instr(r, 0).half
<1>1. CASE At(r, 0, "exchange")
  <2>1. Where(r) \in Positions(prog) /\ InstrAt(prog, Where(r)) = Instr(r, 0)
        /\ Instr(r, 0).op = "exchange"
    BY <1>1, AtPosition
  <2>2. Value(r) \in Nat \ {0} /\ h \in Rows
    BY <1>1, ValueType
  <2>3. flag' = [flag EXCEPT ![t][h][r] = Value(r)]
    BY <2>1 DEF Store, At
  <2>4. flag \in [Ranks -> [Rows -> [Ranks -> Nat]]]
    BY DEF Types, TypeOK
  <2>5. ExchangeOn(prog, Where(r), h) /\ MeetRow(h)
    BY <2>1 DEF ExchangeOn, MeetRow
  <2> HIDE DEF h
  <2>6. /\ flag'[t][h][r] = Value(r)
        /\ \A u \in Ranks, q \in Ranks, g \in Rows :
              ~(u = t /\ g = h /\ q = r) => flag'[u][g][q] = flag[u][g][q]
    BY <2>2, <2>3, <2>4
  <2> QED
    BY <2>1, <2>2, <2>5, <2>6 DEF h
<1>2. CASE At(r, 0, "cas")
  <2>1. Where(r) \in Positions(prog) /\ InstrAt(prog, Where(r)) = Instr(r, 0)
        /\ Instr(r, 0).op = "cas"
    BY <1>2, AtPosition
  <2>2. h \in Rows
    BY <1>2, CasType
  <2>3. flag' = [flag EXCEPT ![t][h][r] = 1] /\ flag[t][h][r] = 0
    BY <2>1 DEF Store, At
  <2>4. flag \in [Ranks -> [Rows -> [Ranks -> Nat]]]
    BY DEF Types, TypeOK
  <2>5. CasOn(prog, Where(r), h) /\ MeetRow(h)
    BY <2>1 DEF CasOn, MeetRow
  <2> HIDE DEF h
  <2>6. /\ flag'[t][h][r] = 1
        /\ \A u \in Ranks, q \in Ranks, g \in Rows :
              ~(u = t /\ g = h /\ q = r) => flag'[u][g][q] = flag[u][g][q]
    BY <2>2, <2>3, <2>4
  <2> QED
    BY <2>1, <2>2, <2>3, <2>5, <2>6 DEF h
<1> QED
  BY <1>1, <1>2 DEF Store

LEMMA CellsOfSee ==
    ASSUME Types, NEW r \in Ranks, NEW t \in Ranks, See(r, t)
    PROVE  LET h == Instr(r, 0).half
           IN  /\ h \in Rows /\ MeetRow(h) /\ InstrAt(prog, Where(r)) = Instr(r, 0)
               /\ \/ /\ ExchangeOn(prog, Where(r), h) /\ Value(r) \in Nat \ {0}
                     /\ flag[r][h][t] = Value(r) /\ flag' = flag
                  \/ /\ CasOn(prog, Where(r), h) /\ flag[r][h][t] = 1 /\ flag'[r][h][t] = 0
               /\ \A u \in Ranks, q \in Ranks, g \in Rows :
                     ~(u = r /\ g = h /\ q = t) => flag'[u][g][q] = flag[u][g][q]
<1> DEFINE h == Instr(r, 0).half
<1>1. CASE At(r, 0, "exchange")
  <2>1. Where(r) \in Positions(prog) /\ InstrAt(prog, Where(r)) = Instr(r, 0)
        /\ Instr(r, 0).op = "exchange"
    BY <1>1, AtPosition
  <2>2. Value(r) \in Nat \ {0} /\ h \in Rows
    BY <1>1, ValueType
  <2>3. flag' = flag /\ flag[r][h][t] = Value(r)
    BY <2>1 DEF See, At
  <2>5. ExchangeOn(prog, Where(r), h) /\ MeetRow(h)
    BY <2>1 DEF ExchangeOn, MeetRow
  <2> QED
    BY <2>1, <2>2, <2>3, <2>5
<1>2. CASE At(r, 0, "cas")
  <2>1. Where(r) \in Positions(prog) /\ InstrAt(prog, Where(r)) = Instr(r, 0)
        /\ Instr(r, 0).op = "cas"
    BY <1>2, AtPosition
  <2>2. h \in Rows
    BY <1>2, CasType
  <2>3. flag' = [flag EXCEPT ![r][h][t] = 0] /\ flag[r][h][t] = 1
    BY <2>1 DEF See, At
  <2>4. flag \in [Ranks -> [Rows -> [Ranks -> Nat]]]
    BY DEF Types, TypeOK
  <2>5. CasOn(prog, Where(r), h) /\ MeetRow(h)
    BY <2>1 DEF CasOn, MeetRow
  <2> HIDE DEF h
  <2>6. /\ flag'[r][h][t] = 0
        /\ \A u \in Ranks, q \in Ranks, g \in Rows :
              ~(u = r /\ g = h /\ q = t) => flag'[u][g][q] = flag[u][g][q]
    BY <2>2, <2>3, <2>4
  <2> QED
    BY <2>1, <2>2, <2>3, <2>5, <2>6 DEF h
<1> QED
  BY <1>1, <1>2 DEF See

LEMMA RowFacts ==
    ASSUME Types, NEW x, NEW y, NEW h
    PROVE  /\ ~(ExchangeOn(prog, x, h) /\ CasOn(prog, y, h))
           /\ ExchangeOn(prog, x, h) \/ CasOn(prog, x, h) => MeetRow(h)
BY ProgramFacts DEF Types, RowsApart, ExchangeOn, CasOn, MeetRow

(* The value that is stored is the phase of the exchange.                  *)
LEMMA ValueIsPhase ==
    ASSUME Types, NEW r \in Ranks, PhaseKept(r), At(r, 0, "exchange")
    PROVE  Value(r) = PhaseAt(prog, Where(r))
<1>1. Launched(r)
  BY DEF At, Running
<1> QED
  BY <1>1, AtPosition, WhereFacts DEF Value, PhaseAt, PhaseKept

LEMMA FlagStoredKept ==
    ASSUME Types, Local, [Next]_vars, NEW r \in Ranks, NEW t \in Ranks, NEW h \in Rows,
           FlagStored(r, t, h)
    PROVE  FlagStored(r, t, h)'
<1>1. prog' = prog
  BY ProgramKept
<1> SUFFICES ASSUME NEW e, ExchangeOn(prog, e, h)
             PROVE  \/ flag'[t][h][r] = 0
                    \/ \E x \in Positions(prog) : /\ ExchangeOn(prog, x, h) /\ Started(r, t, x)'
                                                  /\ flag'[t][h][r] = PhaseAt(prog, x)
  BY <1>1 DEF FlagStored, ExchangeOn, PhaseAt
<1>2. MeetRow(h)
  BY RowFacts
<1>3. e \in Positions(prog)
  BY DEF ExchangeOn
<1>4. ASSUME flag'[t][h][r] = flag[t][h][r]
      PROVE  \/ flag'[t][h][r] = 0
             \/ \E x \in Positions(prog) : /\ ExchangeOn(prog, x, h) /\ Started(r, t, x)'
                                           /\ flag'[t][h][r] = PhaseAt(prog, x)
  BY <1>3, <1>4, Forward DEF FlagStored
<1>5. CASE Quiet \/ \E q \in Ranks : Advance(q)
  BY <1>2, <1>4, <1>5 DEF Quiet, Advance, FlagsElsewhere
<1>6. ASSUME NEW q \in Ranks, NEW u \in Ranks, Store(q, u)
      PROVE  \/ flag'[t][h][r] = 0
             \/ \E x \in Positions(prog) : /\ ExchangeOn(prog, x, h) /\ Started(r, t, x)'
                                           /\ flag'[t][h][r] = PhaseAt(prog, x)
  <2> DEFINE g == Instr(q, 0).half
  <2>1. CASE u = t /\ g = h /\ q = r
    <3>1. ExchangeOn(prog, Where(r), h) /\ flag'[t][h][r] = Value(r)
      BY <1>6, <2>1, CellsOfStore, RowFacts
    <3>2. Where(r) \in Positions(prog) /\ InstrAt(prog, Where(r)) = Instr(r, 0)
          /\ InstrAt(prog, Where(r)).op = "exchange"
      BY <1>6, <2>1, <3>1, CellsOfStore DEF ExchangeOn
    <3>3. Value(r) = PhaseAt(prog, Where(r))
      BY <1>6, <2>1, <3>2, ValueIsPhase DEF Local, Store, At
    <3>5. PICK w \in Positions(prog) : w = Where(r)
      BY <3>2
    <3>6. Started(r, t, w)'
      <4>1. \A x \in Positions(prog) : x = Where(r) => Started(r, t, x)'
        BY <1>6, <2>1, StorePlace
      <4> QED
        BY <3>5, <4>1
    <3> QED
      BY <3>1, <3>3, <3>5, <3>6
  <2>2. CASE ~(u = t /\ g = h /\ q = r)
    <3>1. flag'[t][h][r] = flag[t][h][r]
      BY <1>6, <2>2, CellsOfStore
    <3> QED
      BY <1>4, <3>1
  <2> QED
    BY <2>1, <2>2
<1>7. ASSUME NEW q \in Ranks, NEW u \in Ranks, See(q, u)
      PROVE  flag'[t][h][r] = flag[t][h][r]
  <2> DEFINE g == Instr(q, 0).half
  <2>1. CASE q = t /\ g = h /\ u = r
    BY <1>7, <2>1, CellsOfSee, RowFacts
  <2>2. CASE ~(q = t /\ g = h /\ u = r)
    BY <1>7, <2>2, CellsOfSee
  <2> QED
    BY <2>1, <2>2
<1>8. ASSUME NEW q \in Ranks, ComeToSync(q)
      PROVE  flag'[t][h][r] = flag[t][h][r]
  BY <1>8 DEF ComeToSync
<1> QED
  BY <1>4, <1>5, <1>6, <1>7, <1>8, Steps

(* A flag that is up or down and its two threads, before and after.        *)
LEMMA RaisedSame ==
    ASSUME NEW r \in Ranks, NEW t \in Ranks, NEW h \in Rows, prog' = prog, FlagRaised(r, t, h),
           flag'[t][h][r] = flag[t][h][r],
           \A x \in Positions(prog) : CasOn(prog, x, h) =>
               /\ Started(r, t, x)' <=> Started(r, t, x)
               /\ Done(t, r, x)' <=> Done(t, r, x)
    PROVE  FlagRaised(r, t, h)'
<1>1. \A x \in Positions(prog) : Up(r, t, x, h)' <=> Up(r, t, x, h)
  BY DEF Up, CasOn
<1>2. FlagRaised(r, t, h)' <=>
        ((\E x \in Positions(prog) : CasOn(prog, x, h)) =>
            /\ \A x \in Positions(prog) : CasOn(prog, x, h) /\ Done(t, r, x)' => Started(r, t, x)'
            /\ flag'[t][h][r] \in 0 .. 1
            /\ flag'[t][h][r] = 1 => \E x \in Positions(prog) : Up(r, t, x, h)'
            /\ \A x \in Positions(prog) : Up(r, t, x, h)' => flag'[t][h][r] = 1
            /\ \A x \in Positions(prog), y \in Positions(prog) :
                  Up(r, t, x, h)' /\ Up(r, t, y, h)' => x = y)
  BY DEF FlagRaised, CasOn
<1> QED
  BY <1>1, <1>2 DEF FlagRaised

LEMMA RaisedByStore ==
    ASSUME Types, Local, NEW r \in Ranks, NEW t \in Ranks, Store(r, t),
           NEW h \in Rows, h = Instr(r, 0).half, CasOn(prog, Where(r), h), FlagRaised(r, t, h)
    PROVE  FlagRaised(r, t, h)'
<1>1. flag[t][h][r] = 0 /\ flag'[t][h][r] = 1
  BY CellsOfStore, RowFacts
<1>2. PICK w \in Positions(prog) : w = Where(r)
  BY DEF CasOn
<1>3. /\ \A x \in Positions(prog) : /\ Started(r, t, x)' <=> Started(r, t, x) \/ x = w
                                    /\ Done(t, r, x)' <=> Done(t, r, x)
      /\ ~Started(r, t, w) /\ CasOn(prog, w, h) /\ prog' = prog
  BY <1>2, StorePlace DEF Store, host
<1>4. ~Done(t, r, w)
  BY <1>3 DEF FlagRaised
<1>5. \A x \in Positions(prog) : ~Up(r, t, x, h)
  BY <1>1, <1>3 DEF FlagRaised
<1>6. \A x \in Positions(prog) : Up(r, t, x, h)' <=> x = w
  <2>1. \A x \in Positions(prog) : Up(r, t, x, h)' <=>
            CasOn(prog, x, h) /\ Started(r, t, x)' /\ ~Done(t, r, x)'
    BY <1>3 DEF Up, CasOn
  <2> QED
    BY <1>3, <1>4, <1>5, <2>1 DEF Up
<1>7. \A x \in Positions(prog) : CasOn(prog, x, h) /\ Done(t, r, x)' => Started(r, t, x)'
  BY <1>3 DEF FlagRaised
<1> QED
  BY <1>1, <1>3, <1>6, <1>7 DEF FlagRaised, CasOn

LEMMA LoweredBySee ==
    ASSUME Types, Local, NEW r \in Ranks, NEW t \in Ranks, See(t, r),
           NEW h \in Rows, h = Instr(t, 0).half, CasOn(prog, Where(t), h), FlagRaised(r, t, h)
    PROVE  FlagRaised(r, t, h)' /\ Started(r, t, Where(t))
<1>1. flag[t][h][r] = 1 /\ flag'[t][h][r] = 0
  BY CellsOfSee, RowFacts
<1>2. PICK w \in Positions(prog) : w = Where(t)
  BY DEF CasOn
<1>3. /\ \A x \in Positions(prog) : /\ Started(r, t, x)' <=> Started(r, t, x)
                                    /\ Done(t, r, x)' <=> Done(t, r, x) \/ x = w
      /\ ~Done(t, r, w) /\ CasOn(prog, w, h) /\ prog' = prog
  BY <1>2, SeePlace DEF See, host
<1>4. PICK y \in Positions(prog) : Up(r, t, y, h)
  BY <1>1, <1>3 DEF FlagRaised
<1>5. y = w
  <2>1. y \in Nat \X Nat /\ w \in Nat \X Nat
    BY PositionFacts DEF Types
  <2>2. ~(y \prec w)
    <3>1. ~Done(t, r, y)
      BY <1>4 DEF Up
    <3>2. On(t, w)
      BY <1>2 DEF On
    <3> QED
      BY <3>1, <3>2, PastFacts DEF Done
  <2>3. w \prec y => Started(r, t, w)
    BY <1>4, PastFacts DEF Up, Started
  <2>4. Started(r, t, w) => Up(r, t, w, h)
    BY <1>3 DEF Up
  <2>5. Up(r, t, w, h) => w = y
    BY <1>3, <1>4 DEF FlagRaised
  <2> QED
    BY <2>1, <2>2, <2>3, <2>4, <2>5, Order
<1>6. Started(r, t, w)
  BY <1>4, <1>5 DEF Up
<1>7. \A x \in Positions(prog) : ~Up(r, t, x, h)'
  <2>1. \A x \in Positions(prog) : Up(r, t, x, h)' <=>
            CasOn(prog, x, h) /\ Started(r, t, x)' /\ ~Done(t, r, x)'
    BY <1>3 DEF Up, CasOn
  <2>2. \A x \in Positions(prog) : Up(r, t, x, h) => x = w
    BY <1>3, <1>4, <1>5 DEF FlagRaised
  <2> QED
    BY <1>3, <2>1, <2>2 DEF Up
<1>8. \A x \in Positions(prog) : CasOn(prog, x, h) /\ Done(t, r, x)' => Started(r, t, x)'
  BY <1>3, <1>6 DEF FlagRaised
<1>9. FlagRaised(r, t, h)'
  BY <1>1, <1>3, <1>7, <1>8 DEF FlagRaised, CasOn
<1> QED
  BY <1>2, <1>6, <1>9

LEMMA FlagRaisedKept ==
    ASSUME Types, Local, [Next]_vars, NEW r \in Ranks, NEW t \in Ranks, NEW h \in Rows,
           FlagRaised(r, t, h)
    PROVE  FlagRaised(r, t, h)'
<1>1. prog' = prog
  BY ProgramKept
<1>2. CASE ~\E x \in Positions(prog) : CasOn(prog, x, h)
  BY <1>1, <1>2 DEF FlagRaised, CasOn
<1>3. CASE \E x \in Positions(prog) : CasOn(prog, x, h)
  <2>1. MeetRow(h)
    BY <1>3, RowFacts
  <2>2. CASE Quiet
    <3>1. flag'[t][h][r] = flag[t][h][r]
      BY <2>1, <2>2 DEF Quiet, FlagsElsewhere
    <3>2. \A x \in Positions(prog) : /\ Started(r, t, x)' <=> Started(r, t, x)
                                     /\ Done(t, r, x)' <=> Done(t, r, x)
      BY <2>2, StaysPlace DEF Quiet
    <3> QED
      BY <1>1, <3>1, <3>2, RaisedSame
  <2>3. ASSUME NEW q \in Ranks, Advance(q) PROVE FlagRaised(r, t, h)'
    <3>1. flag'[t][h][r] = flag[t][h][r]
      BY <2>1, <2>3 DEF Advance, FlagsElsewhere
    <3>2. \A x \in Positions(prog) : CasOn(prog, x, h) => (Started(r, t, x)' <=> Started(r, t, x))
      BY <2>3, AdvancePlace, StaysPlace DEF Advance, CasOn
    <3>3. \A x \in Positions(prog) : CasOn(prog, x, h) => (Done(t, r, x)' <=> Done(t, r, x))
      BY <2>3, AdvancePlace, StaysPlace DEF Advance, CasOn
    <3> QED
      BY <1>1, <3>1, <3>2, <3>3, RaisedSame
  <2>4. ASSUME NEW q \in Ranks, NEW u \in Ranks, Store(q, u) PROVE FlagRaised(r, t, h)'
    <3> DEFINE g == Instr(q, 0).half
    <3>1. CASE u = t /\ g = h /\ q = r
      <4>1. CasOn(prog, Where(r), h)
        BY <1>3, <2>4, <3>1, CellsOfStore, RowFacts
      <4> QED
        BY <2>4, <3>1, <4>1, RaisedByStore
    <3>2. CASE ~(u = t /\ g = h /\ q = r)
      <4>1. flag'[t][h][r] = flag[t][h][r]
        BY <2>4, <3>2, CellsOfStore
      <4>2. \A x \in Positions(prog) : /\ Done(t, r, x)' <=> Done(t, r, x)
                                       /\ Started(r, t, x)' <=> Started(r, t, x) \/ (r = q /\ t = u /\ x = Where(q))
        BY <2>4, StorePlace
      <4>3. InstrAt(prog, Where(q)).half = g
        BY <2>4, CellsOfStore
      <4>4. \A x \in Positions(prog) : CasOn(prog, x, h) => ~(r = q /\ t = u /\ x = Where(q))
        BY <3>2, <4>3 DEF CasOn
      <4> QED
        BY <1>1, <4>1, <4>2, <4>4, RaisedSame
    <3> QED
      BY <3>1, <3>2
  <2>5. ASSUME NEW q \in Ranks, NEW u \in Ranks, See(q, u) PROVE FlagRaised(r, t, h)'
    <3> DEFINE g == Instr(q, 0).half
    <3>1. CASE q = t /\ g = h /\ u = r
      <4>1. CasOn(prog, Where(t), h)
        BY <1>3, <2>5, <3>1, CellsOfSee, RowFacts
      <4> QED
        BY <2>5, <3>1, <4>1, LoweredBySee
    <3>2. CASE ~(q = t /\ g = h /\ u = r)
      <4>1. flag'[t][h][r] = flag[t][h][r]
        BY <2>5, <3>2, CellsOfSee
      <4>2. \A x \in Positions(prog) : /\ Started(r, t, x)' <=> Started(r, t, x)
                                       /\ Done(t, r, x)' <=> Done(t, r, x) \/ (t = q /\ r = u /\ x = Where(q))
        BY <2>5, SeePlace
      <4>3. InstrAt(prog, Where(q)).half = g
        BY <2>5, CellsOfSee
      <4>4. \A x \in Positions(prog) : CasOn(prog, x, h) => ~(t = q /\ r = u /\ x = Where(q))
        BY <3>2, <4>3 DEF CasOn
      <4> QED
        BY <1>1, <4>1, <4>2, <4>4, RaisedSame
    <3> QED
      BY <3>1, <3>2
  <2>6. ASSUME NEW q \in Ranks, ComeToSync(q) PROVE FlagRaised(r, t, h)'
    <3>1. flag' = flag
      BY <2>6 DEF ComeToSync
    <3>2. InstrAt(prog, Where(q)).op = "sync" /\ \A x \in Positions(prog) :
             /\ Started(r, t, x)' <=> Started(r, t, x) \/ (r = q /\ t = q /\ x = Where(q))
             /\ Done(t, r, x)' <=> Done(t, r, x)
      BY <2>6, ComePlace
    <3>3. \A x \in Positions(prog) : CasOn(prog, x, h) => x # Where(q)
      BY <3>2 DEF CasOn
    <3> QED
      BY <1>1, <3>1, <3>2, <3>3, RaisedSame
  <2> QED
    BY <2>2, <2>3, <2>4, <2>5, <2>6, Steps
<1> QED
  BY <1>2, <1>3

(* NVSHMEM's barriers are counted.                                         *)
LEMMA SyncsKept ==
    ASSUME Types, Local, [Next]_vars, NEW r \in Ranks, SyncsCounted(r)
    PROVE  SyncsCounted(r)'
<1>1. prog' = prog
  BY ProgramKept
<1>2. SyncsCome(r)' = {x \in Positions(prog) : InstrAt(prog, x).op = "sync" /\ Started(r, r, x)'}
  BY <1>1 DEF SyncsCome
<1>3. ASSUME synced'[r] = synced[r],
             \A x \in Positions(prog) : InstrAt(prog, x).op = "sync" =>
                 (Started(r, r, x)' <=> Started(r, r, x))
      PROVE  SyncsCounted(r)'
  <2>1. SyncsCome(r)' = SyncsCome(r)
    BY <1>2, <1>3 DEF SyncsCome
  <2> QED
    BY <1>3, <2>1 DEF SyncsCounted
<1>4. CASE Stays(r)
  <2>1. synced'[r] = synced[r]
    BY <1>4 DEF Stays
  <2>2. \A x \in Positions(prog) : Started(r, r, x)' <=> Started(r, r, x)
    BY <1>4, StaysPlace
  <2> QED
    BY <1>3, <2>1, <2>2
<1>5. CASE Advance(r)
  <2>1. synced'[r] = synced[r]
    BY <1>5 DEF Advance, Leaves
  <2>2. \A x \in Positions(prog) : InstrAt(prog, x).op = "sync" =>
            (Started(r, r, x)' <=> Started(r, r, x))
    BY <1>5, AdvancePlace
  <2> QED
    BY <1>3, <2>1, <2>2
<1>6. ASSUME NEW q \in Ranks, NEW u \in Ranks, Store(q, u) \/ See(q, u)
      PROVE  SyncsCounted(r)'
  <2>1. synced' = synced
    BY <1>6 DEF Store, See
  <2>2. InstrAt(prog, Where(q)).op # "sync"
    BY <1>6, AtPosition DEF Store, See
  <2>3. \A x \in Positions(prog) : InstrAt(prog, x).op = "sync" =>
            (Started(r, r, x)' <=> Started(r, r, x))
    BY <1>6, <2>2, StorePlace, SeePlace
  <2> QED
    BY <1>3, <2>1, <2>3
<1>7. ASSUME NEW q \in Ranks, ComeToSync(q)
      PROVE  SyncsCounted(r)'
  <2>1. \A x \in Positions(prog) : Started(r, r, x)' <=> Started(r, r, x) \/ (r = q /\ x = Where(q))
    BY <1>7, ComePlace
  <2>2. synced'[r] = IF r = q THEN synced[r] + 1 ELSE synced[r]
    BY <1>7 DEF ComeToSync, Types, TypeOK
  <2>3. CASE r # q
    BY <1>3, <2>1, <2>2, <2>3
  <2>4. CASE r = q
    <3>1. /\ Where(r) \in Positions(prog) /\ InstrAt(prog, Where(r)).op = "sync"
          /\ ~Started(r, r, Where(r))
      BY <1>7, <2>4, ComePlace
    <3>2. PICK w \in Positions(prog) : w = Where(r) /\ InstrAt(prog, w).op = "sync"
                                       /\ ~Started(r, r, w)
      BY <3>1
    <3>3. SyncsCome(r)' = SyncsCome(r) \cup {w} /\ w \notin SyncsCome(r)
      BY <1>2, <2>1, <2>4, <3>2 DEF SyncsCome
    <3>4. IsFiniteSet(SyncsCome(r)) /\ synced[r] = Cardinality(SyncsCome(r))
      BY DEF SyncsCounted
    <3>5. IsFiniteSet(SyncsCome(r) \cup {w})
          /\ Cardinality(SyncsCome(r) \cup {w}) = Cardinality(SyncsCome(r)) + 1
      BY <3>3, <3>4, FS_AddElement
    <3> QED
      BY <2>2, <2>4, <3>3, <3>4, <3>5 DEF SyncsCounted
  <2> QED
    BY <2>3, <2>4
<1>8. Stays(r) \/ Advance(r) \/ (\E q \in Ranks, u \in Ranks : Store(q, u) \/ See(q, u))
      \/ (\E q \in Ranks : ComeToSync(q))
  BY Steps DEF Quiet, Advance
<1> QED
  BY <1>4, <1>5, <1>6, <1>7, <1>8

------------------------------------------------------------------------------
(* Who has seen whom, and who is ahead of whom.                            *)

(* The value an exchange waits for is of the same exchange of the other.   *)
LEMMA ExchangeSeen ==
    ASSUME Types, Local, NEW r \in Ranks, NEW t \in Ranks, See(t, r),
           NEW h \in Rows, h = Instr(t, 0).half, ExchangeOn(prog, Where(t), h), FlagStored(r, t, h)
    PROVE  Started(r, t, Where(t))
<1>1. PICK w \in Positions(prog) : w = Where(t)
  BY DEF ExchangeOn
<1>2. flag[t][h][r] = Value(t) /\ Value(t) \in Nat \ {0}
  BY CellsOfSee, RowFacts
<1>3. Value(t) = PhaseAt(prog, w)
  <2>1. At(t, 0, "exchange")
    BY CellsOfSee DEF See, At, ExchangeOn
  <2> QED
    BY <1>1, <2>1, ValueIsPhase DEF Local
<1>4. PICK y \in Positions(prog) : /\ ExchangeOn(prog, y, h) /\ Started(r, t, y)
                                   /\ flag[t][h][r] = PhaseAt(prog, y)
  BY <1>1, <1>2 DEF FlagStored
<1>5. PhaseAt(prog, y) = PhaseAt(prog, w) /\ PhaseAt(prog, w) \in Nat
  BY <1>2, <1>3, <1>4
<1>6. ExchangeOn(prog, w, h)
  BY <1>1
<1>7. y = w
  <2>1. /\ w \prec y => PhaseAt(prog, w) < PhaseAt(prog, y)
        /\ y \prec w => PhaseAt(prog, y) < PhaseAt(prog, w)
    BY <1>4, <1>6, ProgramFacts DEF Types, PhasesRise, ExchangeOn
  <2>2. y \in Nat \X Nat /\ w \in Nat \X Nat
    BY PositionFacts DEF Types
  <2>3. ~(w \prec y) /\ ~(y \prec w)
    BY <1>5, <2>1
  <2> QED
    BY <2>2, <2>3, Order
<1> QED
  BY <1>1, <1>4, <1>7

LEMMA SeenStartedKept ==
    ASSUME Types, Local, Meet, [Next]_vars, NEW r \in Ranks, NEW t \in Ranks
    PROVE  SeenStarted(r, t)'
<1>0. prog' = prog /\ SeenStarted(r, t)
  BY ProgramKept DEF Meet
<1> SUFFICES ASSUME NEW x \in Positions(prog), InstrAt(prog, x).op \in {"exchange", "cas"},
                    On(t, x)', thr'[t][r] = "done"
             PROVE  Started(r, t, x)'
  BY <1>0 DEF SeenStarted
<1>1. ASSUME On(t, x), thr[t][r] = "done" PROVE Started(r, t, x)'
  BY <1>0, <1>1, Forward DEF SeenStarted
<1>2. CASE Stays(t)
  BY <1>1, <1>2, StaysPlace DEF Stays
<1>3. CASE Advance(t)
  BY <1>3 DEF Advance, Leaves
<1>4. ASSUME NEW q \in Ranks, NEW u \in Ranks, Store(q, u) PROVE Started(r, t, x)'
  <2>1. thr'[t][r] = IF t = q /\ r = u THEN "wait" ELSE thr[t][r]
    BY <1>4 DEF Store, Types, TypeOK
  <2> QED
    BY <1>1, <1>4, <2>1, StorePlace
<1>5. ASSUME NEW q \in Ranks, NEW u \in Ranks, See(q, u) PROVE Started(r, t, x)'
  <2>1. thr'[t][r] = IF t = q /\ r = u THEN "done" ELSE thr[t][r]
    BY <1>5 DEF See, Types, TypeOK
  <2>2. On(t, x)
    BY <1>5, SeePlace
  <2>3. CASE t = q /\ r = u
    <3> DEFINE h == Instr(t, 0).half
    <3>1. h \in Rows /\ (ExchangeOn(prog, Where(t), h) \/ CasOn(prog, Where(t), h))
      BY <1>5, <2>3, CellsOfSee
    <3>2. FlagStored(r, t, h) /\ FlagRaised(r, t, h)
      BY <3>1 DEF Meet
    <3> HIDE DEF h
    <3>3. Started(r, t, Where(t))
      BY <1>5, <2>3, <3>1, <3>2, ExchangeSeen, LoweredBySee DEF h
    <3>4. Started(r, t, x)
      BY <2>2, <3>3 DEF On
    <3> QED
      BY <3>4, Forward
  <2>4. CASE ~(t = q /\ r = u)
    BY <1>1, <2>1, <2>2, <2>4
  <2> QED
    BY <2>3, <2>4
<1>6. ASSUME NEW q \in Ranks, ComeToSync(q) PROVE Started(r, t, x)'
  <2>1. thr'[t][r] = IF t = q /\ r = q THEN "wait" ELSE thr[t][r]
    BY <1>6 DEF ComeToSync, Types, TypeOK
  <2> QED
    BY <1>1, <1>6, <2>1, ComePlace
<1>7. \/ Stays(t) \/ Advance(t)
      \/ \E q \in Ranks, u \in Ranks : Store(q, u) \/ See(q, u)
      \/ \E q \in Ranks : ComeToSync(q)
  BY Steps DEF Quiet, Advance
<1> QED
  BY <1>2, <1>3, <1>4, <1>5, <1>6, <1>7

LEMMA ComeForward ==
    ASSUME Types, Local, [Next]_vars, NEW r \in Ranks, NEW x \in Positions(prog), Come(r, x)
    PROVE  Come(r, x)'
<1>1. prog' = prog /\ Ranks' = Ranks
  BY ProgramKept DEF Ranks
<1>2. CASE Past(r, x)
  BY <1>2, Forward DEF Come
<1>3. CASE \E u \in Ranks : Started(r, u, x)
  <2>1. PICK u \in Ranks : Started(r, u, x)'
    BY <1>3, Forward
  <2> QED
    BY <1>1, <2>1 DEF Started, Come
<1> QED
  BY <1>2, <1>3 DEF Come, Started

(* A rank that has come to as many of NVSHMEM's barriers as another has    *)
(* come to the last of the other's.                                        *)
LEMMA SyncsTogether ==
    ASSUME Types, NEW r \in Ranks, NEW t \in Ranks, SyncsCounted(r), SyncsCounted(t),
           synced[r] >= synced[t],
           NEW x \in Positions(prog), InstrAt(prog, x).op = "sync", On(t, x), thr[t][t] = "wait"
    PROVE  Started(r, r, x)
<1> SUFFICES ASSUME ~Started(r, r, x) PROVE FALSE
  OBVIOUS
<1>1. \A y \in Positions(prog) : y \in Nat \X Nat
  BY PositionFacts DEF Types
<1>2. \A y \in SyncsCome(r) : y \prec x
  <2> SUFFICES ASSUME NEW y \in SyncsCome(r) PROVE y \prec x
    OBVIOUS
  <2>1. y \in Positions(prog) /\ (Past(r, y) \/ On(r, y)) /\ Started(r, r, y)
    BY DEF SyncsCome, Started
  <2>2. x # y
    BY <2>1
  <2>3. ~(x \prec y)
    BY <2>1, PastFacts DEF Started
  <2> QED
    BY <1>1, <2>1, <2>2, <2>3, Order
<1>3. x \in SyncsCome(t)
  BY DEF SyncsCome, Started
<1>4. SyncsCome(r) \subseteq SyncsCome(t)
  BY <1>2, PastFacts DEF SyncsCome, Started
<1>5. x \notin SyncsCome(r)
  BY DEF SyncsCome
<1>6. IsFiniteSet(SyncsCome(t)) /\ synced[t] = Cardinality(SyncsCome(t))
      /\ synced[r] = Cardinality(SyncsCome(r))
  BY DEF SyncsCounted
<1>7. /\ Cardinality(SyncsCome(r)) <= Cardinality(SyncsCome(t))
      /\ Cardinality(SyncsCome(t)) = Cardinality(SyncsCome(r)) => SyncsCome(t) = SyncsCome(r)
  BY <1>4, <1>6, FS_Subset, Zenon
<1>8. synced[r] \in Nat /\ synced[t] \in Nat
  BY DEF Types, TypeOK
<1> QED
  BY <1>3, <1>5, <1>6, <1>7, <1>8

LEMMA NobodyAheadKept ==
    ASSUME Types, Local, Meet, [Next]_vars, NEW r \in Ranks, NEW t \in Ranks
    PROVE  NobodyAhead(r, t)'
<1>0. prog' = prog /\ NobodyAhead(r, t) /\ SeenStarted(r, t) /\ SyncsCounted(r) /\ SyncsCounted(t)
  BY ProgramKept DEF Meet
<1> SUFFICES ASSUME NEW x \in Positions(prog), InstrAt(prog, x).op \in Meetings,
                    Past(t, x)', r # t
             PROVE  Come(r, x)'
  BY <1>0 DEF NobodyAhead
<1>1. CASE Past(t, x)
  BY <1>0, <1>1, ComeForward DEF NobodyAhead
<1>2. ASSUME Advance(t), On(t, x) PROVE Come(r, x)'
  <2>1. /\ InstrAt(prog, x).op = "exchange" => thr[t][r] = "done"
        /\ InstrAt(prog, x).op = "cas" => thr[t][r] = "done"
        /\ InstrAt(prog, x).op = "sync" => thr[t][t] = "wait" /\ synced[r] >= synced[t]
    BY <1>2 DEF Advance, Leaves
  <2>2. InstrAt(prog, x).op \in {"exchange", "cas"} => Started(r, t, x)
    BY <1>0, <1>2, <2>1 DEF SeenStarted
  <2>3. InstrAt(prog, x).op = "sync" => Started(r, r, x)
    BY <1>0, <1>2, <2>1, SyncsTogether
  <2>4. Come(r, x)
    BY <2>2, <2>3 DEF Meetings, Come, Started
  <2> QED
    BY <2>4, ComeForward
<1>3. Past(t, x) \/ (Advance(t) /\ On(t, x))
  <2>1. CASE Stays(t)
    BY <2>1, StaysPlace
  <2>2. CASE Advance(t)
    BY <2>2 DEF Advance, Leaves
  <2>3. CASE \E q \in Ranks, u \in Ranks : Store(q, u) \/ See(q, u)
    BY <2>3, StorePlace, SeePlace
  <2>4. CASE \E q \in Ranks : ComeToSync(q)
    BY <2>4, ComePlace
  <2> QED
    BY <2>1, <2>2, <2>3, <2>4, Steps DEF Quiet, Advance
<1> QED
  BY <1>1, <1>2, <1>3

LEMMA MeetKept ==
    ASSUME Types, Local, Meet, [Next]_vars
    PROVE  Meet'
<1>1. Ranks' = Ranks
  BY ProgramKept DEF Ranks
<1>2. \A r \in Ranks, t \in Ranks : \A h \in Rows : FlagStored(r, t, h)' /\ FlagRaised(r, t, h)'
  BY FlagStoredKept, FlagRaisedKept DEF Meet
<1>3. \A r \in Ranks, t \in Ranks : SyncsCounted(r)' /\ SeenStarted(r, t)' /\ NobodyAhead(r, t)'
  BY SyncsKept, SeenStartedKept, NobodyAheadKept DEF Meet
<1> QED
  BY <1>1, <1>2, <1>3 DEF Meet

LEMMA InitMeet == Init => Meet
<1> SUFFICES ASSUME Init PROVE Meet
  OBVIOUS
<1>0. Types
  BY InitTypes
<1>1. \A r \in Ranks : \A x \in Positions(prog) : ~Past(r, x) /\ ~On(r, x)
  <2> SUFFICES ASSUME NEW r \in Ranks, NEW x \in Positions(prog) PROVE ~Past(r, x) /\ ~On(r, x)
    OBVIOUS
  <2>1. x[1] \in Nat \ {0}
    BY <1>0, PositionFacts, RanksAndCTAs DEF Types
  <2>2. Where(r)[1] = 0
    BY DEF Init, Where
  <2> QED
    BY <2>1, <2>2 DEF Past, On, \prec
<1>2. \A r \in Ranks, u \in Ranks : \A x \in Positions(prog) : ~Started(r, u, x) /\ ~Done(r, u, x)
  BY <1>1 DEF Started, Done
<1>3. ASSUME NEW r \in Ranks, NEW t \in Ranks, NEW h \in Rows
      PROVE  FlagStored(r, t, h) /\ FlagRaised(r, t, h)
  <2>1. flag[t][h][r] = 0
    BY DEF Init
  <2> QED
    BY <1>2, <2>1 DEF FlagStored, FlagRaised, Up
<1>4. ASSUME NEW r \in Ranks PROVE SyncsCounted(r)
  <2>1. SyncsCome(r) = {}
    BY <1>2 DEF SyncsCome
  <2>2. synced[r] = 0
    BY DEF Init
  <2> QED
    BY <2>1, <2>2, FS_EmptySet DEF SyncsCounted
<1>5. ASSUME NEW r \in Ranks, NEW t \in Ranks PROVE SeenStarted(r, t) /\ NobodyAhead(r, t)
  BY <1>1 DEF SeenStarted, NobodyAhead
<1> QED
  BY <1>3, <1>4, <1>5 DEF Meet

(* The invariant as a whole.                                               *)
IInv == Types /\ Local /\ Meet

THEOREM Invariance == Spec => []IInv
<1>1. Init => IInv
  BY InitTypes, InitLocal, InitMeet DEF IInv
<1>2. IInv /\ [Next]_vars => IInv'
  BY TypesKept, LocalKept, MeetKept DEF IInv
<1> QED
  BY <1>1, <1>2, PTL DEF Spec

(* FlagsNotAhead: a flag a thread waits on holds the phase of an exchange  *)
(* the other rank has come to.  Had the other come to a later one on this  *)
(* row, it would be past a meeting that this rank has not come to.         *)
THEOREM FlagsNeverAhead == Spec => []FlagsNotAhead
<1>1. ASSUME IInv PROVE FlagsNotAhead
  <2> SUFFICES ASSUME NEW r \in Ranks, NEW t \in Ranks, At(r, 0, "exchange"), thr[r][t] = "wait"
               PROVE  flag[r][Instr(r, 0).half][t] <= Value(r)
    BY DEF FlagsNotAhead
  <2>0. Types /\ Local /\ Meet
    BY <1>1 DEF IInv
  <2> DEFINE h == Instr(r, 0).half
  <2>1. h \in Rows /\ Value(r) \in Nat \ {0} /\ PhaseKept(r)
    BY <2>0, ValueType DEF Local
  <2>2. PICK w \in Positions(prog) : w = Where(r) /\ InstrAt(prog, w) = Instr(r, 0)
    BY <2>0, AtPosition
  <2>3. ExchangeOn(prog, w, h) /\ Value(r) = PhaseAt(prog, w)
    BY <2>0, <2>1, <2>2, ValueIsPhase DEF ExchangeOn, At
  <2> HIDE DEF h
  <2>4. flag[r][h][t] = 0 \/ \E y \in Positions(prog) :
            ExchangeOn(prog, y, h) /\ Started(t, r, y) /\ flag[r][h][t] = PhaseAt(prog, y)
    BY <2>0, <2>1, <2>2, <2>3 DEF Meet, FlagStored
  <2>5. ASSUME NEW y \in Positions(prog), ExchangeOn(prog, y, h), Started(t, r, y),
               flag[r][h][t] = PhaseAt(prog, y)
        PROVE  flag[r][h][t] <= Value(r)
    <3>1. y \in Nat \X Nat /\ w \in Nat \X Nat
      BY <2>0, PositionFacts DEF Types
    <3>2. CASE y = w
      BY <2>1, <2>3, <2>5, <3>2
    <3>3. CASE y \prec w
      <4>1. PhaseAt(prog, y) < PhaseAt(prog, w)
        BY <2>0, <2>3, <2>5, <3>3, ProgramFacts DEF Types, PhasesRise, ExchangeOn
      <4>2. flag[r][h][t] \in Nat
        BY <2>0, <2>1 DEF Types, TypeOK
      <4> QED
        BY <2>1, <2>3, <2>5, <4>1, <4>2
    <3>4. ~(w \prec y)
      <4> SUFFICES ASSUME w \prec y PROVE FALSE
        OBVIOUS
      <4>1. PICK z \in Positions(prog) : /\ w \prec z /\ z \prec y
                                         /\ InstrAt(prog, z).op \in Meetings
        BY <2>0, <2>3, <2>5, ProgramFacts DEF Types, PhasesRise, ExchangeOn
      <4>2. Past(t, z)
        BY <2>0, <2>5, <4>1, PastFacts DEF Started
      <4>3. t # r
        <5>1. On(r, w)
          BY <2>2 DEF On
        <5>2. ~Past(r, z)
          <6>1. Past(r, z) => Past(r, w)
            BY <2>0, <4>1, PastFacts
          <6> QED
            BY <2>0, <5>1, <6>1, PastFacts
        <5> QED
          BY <4>2, <5>2
      <4>4. Come(r, z)
        BY <2>0, <4>1, <4>2, <4>3 DEF Meet, NobodyAhead
      <4>5. Past(r, w)
        BY <2>0, <4>1, <4>4, PastFacts DEF Come
      <4> QED
        BY <2>0, <2>2, <4>5, PastFacts DEF On
    <3> QED
      BY <3>1, <3>2, <3>3, <3>4, Order
  <2>6. flag[r][h][t] <= Value(r)
    BY <2>1, <2>4, <2>5
  <2> QED
    BY <2>6 DEF h
<1> QED
  BY <1>1, Invariance, PTL

(* GridMeets: the CTAs of a rank are released from a barrier together.     *)
LEMMA AllMeet == IInv => GridMeets
<1> SUFFICES ASSUME IInv, NEW r \in Ranks, Launched(r), NEW c \in CTAs, NEW d \in CTAs,
                    NEW i \in 1 .. Len(Kernel(r).code), Kernel(r).code[i].op = "grid",
                    ip[r][c] > i
             PROVE  ip[r][d] > i \/ (ip[r][d] = i /\ old_arrive[r][d] # -1)
  BY DEF GridMeets
<1>0. Types /\ GridTogether(r)
  BY DEF IInv, Local, Grid
<1>1. i \in Nat /\ ip[r][c] \in Nat /\ ip[r][d] \in Nat
  BY <1>0, CallFacts DEF Types, TypeOK
<1>2. GridAt(r, i) /\ Released(r, c, i)
  BY <1>1 DEF GridAt, Released
<1>3. Released(r, d, i)
  BY <1>0, <1>1, <1>2 DEF GridTogether
<1> QED
  BY <1>1, <1>3 DEF Released

(* GridMeets, of every behaviour.                                          *)
THEOREM GridsMeet == Spec => []GridMeets
BY AllMeet, Invariance, PTL

------------------------------------------------------------------------------
(* The barriers are barriers.                                              *)
Members == MembersOf(prog)
Mark(p, k, i) == p.passed[k] + p.calls[k].entered[i]

LEMMA MarkFacts ==
    ASSUME prog \in Programs, NEW k \in 1 .. Len(prog.calls)
    PROVE  LET K == prog.calls[k]
               n == Len(K.code)
           IN  /\ n \in Nat /\ prog.passed[k] \in Nat
               /\ \A i \in 1 .. n + 1 : K.entered[i] \in Nat /\ K.left[i] \in Nat
               /\ K.entered[1] = 0 /\ K.left[1] = 0 /\ K.entered[n + 1] = K.left[n + 1]
               /\ \A i \in 1 .. n + 1, j \in 1 .. n + 1 :
                     i <= j => K.entered[i] <= K.entered[j] /\ K.left[i] <= K.left[j]
               /\ \A i \in 1 .. n :
                     /\ Begins(K, i) => /\ K.entered[i] = K.left[i]
                                        /\ K.entered[i + 1] = K.entered[i] + 1
                     /\ Ends(K, i) => /\ K.left[i + 1] = K.left[i] + 1
                                      /\ K.left[i + 1] = K.entered[i + 1]
                                      /\ EndsABarrier(prog, K, i)
               /\ k = 1 => prog.passed[k] = 0
BY ProgramFacts DEF WellFormed, BarriersMarked

LEMMA PassedFacts ==
    ASSUME prog \in Programs, NEW k \in 1 .. Len(prog.calls), NEW l \in 1 .. Len(prog.calls)
    PROVE  LET K == prog.calls[k]
               before == prog.passed[k] + K.left[Len(K.code) + 1]
           IN  /\ k < l => before <= prog.passed[l]
               /\ l = k + 1 => before = prog.passed[l]
BY ProgramFacts DEF BarriersMarked

(* Where a member is, and what it has entered and left.                    *)
Ahead(r, c) == ip[r][c] + (IF Begun(r, c) THEN 1 ELSE 0)

LEMMA ReachFacts ==
    ASSUME Types, Local, NEW r \in Ranks, NEW c \in CTAs, Launched(r)
    PROVE  LET n == Len(Kernel(r).code)
           IN  /\ call[r] \in 1 .. Len(prog.calls) /\ n \in Nat
               /\ ip[r][c] \in 1 .. n + 1 /\ Ahead(r, c) \in 1 .. n + 1
               /\ ip[r][c] <= Ahead(r, c)
               /\ Begun(r, c) => c = 0 /\ ip[r][c] \in 1 .. n /\ Ahead(r, c) = ip[r][c] + 1
               /\ ~Begun(r, c) => Ahead(r, c) = ip[r][c]
               /\ Entered(r, c) = Mark(prog, call[r], Ahead(r, c))
               /\ Left(r, c) = prog.passed[call[r]] + Kernel(r).left[ip[r][c]]
<1>1. call[r] \in 1 .. Len(prog.calls) /\ Len(Kernel(r).code) \in Nat
  BY CallFacts
<1>2. ip[r][c] \in 1 .. Len(Kernel(r).code) + 1
  BY <1>1 DEF Local, Grid, InCode, Types, TypeOK
<1>3. ASSUME Begun(r, c) PROVE c = 0 /\ ip[r][c] \in 1 .. Len(Kernel(r).code)
  <2>1. c = 0 /\ Running(r, 0)
    BY <1>3 DEF Begun, Local, ThreadsAtWork, At
  <2> QED
    BY <2>1, InstrFacts
<1>4. /\ Entered(r, c) = Mark(prog, call[r], Ahead(r, c))
      /\ Left(r, c) = prog.passed[call[r]] + Kernel(r).left[ip[r][c]]
  BY DEF Entered, Left, Mark, Ahead, Kernel
<1> QED
  BY <1>1, <1>2, <1>3, <1>4 DEF Ahead

LEMMA MemberFacts ==
    ASSUME prog \in Programs, NEW m \in Members
    PROVE  /\ m = <<m[1], m[2]>> /\ m[1] \in Ranks /\ m[2] \in CTAs
           /\ ~prog.everyone => m[2] = 0
BY RanksAndCTAs DEF Members, MembersOf, Ranks, CTAs

(* Who has got this far in the program has entered what is entered there.  *)
LEMMA EnteredLate ==
    ASSUME Types, Local, NEW t \in Ranks, NEW d \in CTAs,
           NEW k \in 1 .. Len(prog.calls), NEW j \in 1 .. Len(prog.calls[k].code) + 1,
           call[t] > k \/ (call[t] = k /\ Ahead(t, d) >= j)
    PROVE  Entered(t, d) >= Mark(prog, k, j)
<1>0. prog \in Programs /\ k \in Nat \ {0} /\ Len(prog.calls) \in Nat
  BY RanksAndCTAs DEF Types
<1>1. call[t] \in Nat /\ Launched(t)
  BY <1>0 DEF Types, TypeOK, Launched
<1>2. /\ call[t] \in 1 .. Len(prog.calls) /\ Ahead(t, d) \in 1 .. Len(Kernel(t).code) + 1
      /\ Entered(t, d) = Mark(prog, call[t], Ahead(t, d))
  BY <1>1, ReachFacts
<1>3. CASE call[t] = k /\ Ahead(t, d) >= j
  <2>1. /\ prog.calls[k].entered[j] \in Nat /\ prog.calls[k].entered[Ahead(t, d)] \in Nat
        /\ prog.calls[k].entered[j] <= prog.calls[k].entered[Ahead(t, d)] /\ prog.passed[k] \in Nat
    BY <1>0, <1>2, <1>3, MarkFacts DEF Kernel
  <2> QED
    BY <1>2, <1>3, <2>1 DEF Mark
<1>4. CASE call[t] > k
  <2> DEFINE n == Len(prog.calls[k].code)
  <2>1. prog.calls[call[t]].entered[Ahead(t, d)] \in Nat /\ prog.passed[call[t]] \in Nat
    BY <1>0, <1>2, MarkFacts DEF Kernel
  <2>2. /\ n \in Nat /\ prog.passed[k] \in Nat /\ prog.calls[k].entered[j] \in Nat
        /\ prog.calls[k].entered[n + 1] = prog.calls[k].left[n + 1]
        /\ prog.calls[k].entered[j] <= prog.calls[k].entered[n + 1]
        /\ prog.calls[k].entered[n + 1] \in Nat
    <3>1. /\ n \in Nat /\ prog.passed[k] \in Nat
          /\ \A i \in 1 .. n + 1 : prog.calls[k].entered[i] \in Nat
          /\ prog.calls[k].entered[n + 1] = prog.calls[k].left[n + 1]
          /\ \A i \in 1 .. n + 1, l \in 1 .. n + 1 :
                i <= l => prog.calls[k].entered[i] <= prog.calls[k].entered[l]
      BY <1>0, MarkFacts
    <3>2. j \in 1 .. n + 1
      OBVIOUS
    <3> HIDE DEF n
    <3>3. n + 1 \in 1 .. n + 1 /\ j <= n + 1
      BY <3>1, <3>2
    <3> QED
      BY <3>1, <3>2, <3>3
  <2>3. prog.passed[k] + prog.calls[k].left[n + 1] <= prog.passed[call[t]]
    BY <1>0, <1>2, <1>4, PassedFacts
  <2>4. prog.calls[k].left[n + 1] \in Nat
    BY <2>2
  <2>5. /\ Entered(t, d) = prog.passed[call[t]] + prog.calls[call[t]].entered[Ahead(t, d)]
        /\ Mark(prog, k, j) = prog.passed[k] + prog.calls[k].entered[j]
    BY <1>2 DEF Mark
  <2> HIDE DEF n
  <2>6. prog.passed[call[t]] >= prog.passed[k] + prog.calls[k].entered[j]
    BY <2>1, <2>2, <2>3, <2>4
  <2>7. \A a \in Nat, b \in Nat, e \in Nat, f \in Nat : a >= e + f => a + b >= e + f
    OBVIOUS
  <2>8. prog.passed[call[t]] + prog.calls[call[t]].entered[Ahead(t, d)]
            >= prog.passed[k] + prog.calls[k].entered[j]
    BY <2>1, <2>2, <2>6, <2>7
  <2> QED
    BY <2>5, <2>8
<1> QED
  BY <1>3, <1>4

LEMMA PositionOf ==
    ASSUME NEW k \in 1 .. Len(prog.calls), NEW i \in 1 .. Len(prog.calls[k].code)
    PROVE  \E x \in Positions(prog) : x = <<k, i>> /\ InstrAt(prog, x) = prog.calls[k].code[i]
<1>1. <<k, i>> \in {k} \X (1 .. Len(prog.calls[k].code))
  OBVIOUS
<1>2. <<k, i>> \in Positions(prog)
  BY <1>1, Zenon DEF Positions
<1>3. InstrAt(prog, <<k, i>>) = prog.calls[k].code[i]
  BY DEF InstrAt
<1> QED
  BY <1>2, <1>3

(* Whoever is past the end of a barrier, everybody has entered it.         *)
EnteredByAll ==
    \A r \in Ranks, c \in CTAs : \A i \in Nat :
        /\ Launched(r) /\ <<r, c>> \in Members /\ i \in 1 .. Len(Kernel(r).code)
        /\ Ends(Kernel(r), i) /\ ip[r][c] > i
        => \A t \in Ranks, d \in CTAs :
               <<t, d>> \in Members => Entered(t, d) >= Mark(prog, call[r], i + 1)

LEMMA EndsAfterAll == IInv => EnteredByAll
<1> SUFFICES ASSUME IInv, NEW r \in Ranks, NEW c \in CTAs, NEW i \in Nat,
                    Launched(r), <<r, c>> \in Members, i \in 1 .. Len(Kernel(r).code),
                    Ends(Kernel(r), i), ip[r][c] > i,
                    NEW t \in Ranks, NEW d \in CTAs, <<t, d>> \in Members
             PROVE  Entered(t, d) >= Mark(prog, call[r], i + 1)
  BY DEF EnteredByAll
<1> DEFINE k == call[r]
           n == Len(Kernel(r).code)
<1>0. Types /\ Local /\ Meet /\ prog \in Programs
  BY DEF IInv, Types
<1>1. k \in 1 .. Len(prog.calls) /\ n \in Nat /\ k \in Nat /\ Len(prog.calls) \in Nat
  BY <1>0, CallFacts, RanksAndCTAs
<1>2. EndsABarrier(prog, Kernel(r), i)
  BY <1>0, <1>1, MarkFacts DEF Kernel
<1>3. i + 1 \in 1 .. Len(prog.calls[k].code) + 1
  BY <1>1 DEF Kernel
<1>4. \A q \in Ranks, e \in CTAs : ip[q][e] \in Nat /\ call[q] \in Nat
  BY <1>0, <1>1 DEF Types, TypeOK
<1>5. CASE ~prog.everyone
  <2>1. c = 0 /\ d = 0
    BY <1>0, <1>5, MemberFacts
  <2>2. Kernel(r).code[i].op \in Meetings
    BY <1>2, <1>5 DEF EndsABarrier
  <2>3. PICK x \in Positions(prog) : x = <<k, i>> /\ InstrAt(prog, x) = Kernel(r).code[i]
    BY <1>1, PositionOf DEF Kernel
  <2>4. Past(r, x)
    BY <2>1, <2>3 DEF Past, Where, \prec
  <2>5. CASE t = r
    <3>1. Ahead(r, 0) >= i + 1
      BY <1>0, <1>4, <2>1, ReachFacts
    <3> QED
      BY <1>0, <1>1, <1>3, <2>1, <2>5, <3>1, EnteredLate
  <2>6. CASE t # r
    <3>1. Come(t, x)
      BY <1>0, <2>2, <2>3, <2>4, <2>6 DEF Meet, NobodyAhead
    <3>2. CASE Past(t, x)
      <4>1. call[t] > k \/ (call[t] = k /\ ip[t][0] >= i + 1)
        BY <1>1, <1>4, <2>1, <2>3, <3>2 DEF Past, Where, \prec
      <4>2. call[t] = k => Launched(t)
        BY <1>1 DEF Launched
      <4>3. call[t] > k \/ (call[t] = k /\ Ahead(t, 0) >= i + 1)
        BY <1>0, <1>4, <2>1, <4>1, <4>2, ReachFacts
      <4> QED
        BY <1>0, <1>1, <1>3, <2>1, <4>3, EnteredLate
    <3>3. CASE On(t, x) /\ \E u \in Ranks : thr[t][u] # "store"
      <4>1. call[t] = k /\ ip[t][0] = i /\ Launched(t)
        BY <1>1, <2>3, <3>3 DEF On, Where, Launched
      <4>2. Ahead(t, 0) = i + 1
        BY <3>3, <4>1 DEF Ahead, Begun
      <4> QED
        BY <1>0, <1>1, <1>3, <2>1, <4>1, <4>2, EnteredLate
    <3> QED
      BY <3>1, <3>2, <3>3 DEF Come
  <2> QED
    BY <2>5, <2>6
<1>6. CASE prog.everyone
  <2>1. PICK b \in 1 .. i, g \in 1 .. i, m \in 1 .. i :
            /\ b < g /\ g < m /\ m < i /\ Kernel(r).entered[b + 1] = Kernel(r).entered[i + 1]
            /\ Kernel(r).code[g].op = "grid" /\ Kernel(r).code[m].op \in Meetings
    BY <1>2, <1>6 DEF EndsABarrier
  <2>2. Kernel(r).code[i].op = "grid"
    BY <1>2, <1>6 DEF EndsABarrier
  <2>3. /\ Mark(prog, k, b + 1) = Mark(prog, k, i + 1)
        /\ b + 1 \in 1 .. Len(prog.calls[k].code) + 1
        /\ b \in Nat /\ g \in 1 .. n /\ m \in 1 .. n /\ g \in Nat /\ m \in Nat
    <3>1. Mark(prog, k, b + 1) = Mark(prog, k, i + 1)
      BY <2>1 DEF Mark, Kernel
    <3>2. b + 1 \in 1 .. n + 1 /\ b \in Nat /\ g \in 1 .. n /\ m \in 1 .. n /\ g \in Nat /\ m \in Nat
      <4>1. i \in 1 .. n
        OBVIOUS
      <4> HIDE DEF n
      <4> QED
        BY <1>1, <2>1, <4>1
    <3> QED
      BY <3>1, <3>2 DEF Kernel
  <2>4. \A q \in Ranks, e \in CTAs, j \in Nat :
            call[q] = k /\ Kernel(r).code[j].op = "grid" /\ j \in 1 .. n /\ ip[q][e] > j =>
                \A f \in CTAs : ip[q][f] >= j
    <3> SUFFICES ASSUME NEW q \in Ranks, NEW e \in CTAs, NEW j \in Nat, call[q] = k,
                        Kernel(r).code[j].op = "grid", j \in 1 .. n, ip[q][e] > j, NEW f \in CTAs
                 PROVE  ip[q][f] >= j
      OBVIOUS
    <3>1. GridAt(q, j) /\ Released(q, e, j)
      BY <1>1, <1>4 DEF GridAt, Released, Launched, Kernel
    <3>2. Released(q, f, j)
      BY <1>0, <3>1 DEF Local, Grid, GridTogether
    <3> QED
      BY <1>4, <3>2 DEF Released
  <2>5. \A f \in CTAs : ip[r][f] >= i
    BY <2>2, <2>4
  <2>6. 0 \in CTAs
    BY <1>0, RanksAndCTAs
  <2>7. PICK x \in Positions(prog) : x = <<k, m>> /\ InstrAt(prog, x) = Kernel(r).code[m]
    BY <1>1, <2>3, PositionOf DEF Kernel
  <2>8. Past(r, x)
    <3>1. m < ip[r][0]
      BY <1>4, <2>1, <2>3, <2>5, <2>6
    <3> QED
      BY <2>7, <3>1 DEF Past, Where, \prec
  <2>9. call[t] > k \/ (call[t] = k /\ ip[t][d] >= b + 1)
    <3>1. CASE t = r
      <4>1. ip[r][d] >= i
        BY <2>5
      <4> QED
        BY <1>4, <2>1, <2>3, <3>1, <4>1
    <3>2. CASE t # r
      <4>1. Come(t, x)
        BY <1>0, <2>1, <2>7, <2>8, <3>2 DEF Meet, NobodyAhead
      <4>2. call[t] > k \/ (call[t] = k /\ ip[t][0] >= m)
        BY <1>1, <1>4, <2>3, <2>6, <2>7, <4>1 DEF Come, Past, On, Where, \prec
      <4>3. CASE call[t] = k /\ ip[t][0] >= m
        <5>1. ip[t][0] > g
          BY <1>4, <2>1, <2>3, <2>6, <4>3
        <5>2. ip[t][d] >= g
          BY <2>1, <2>3, <2>4, <2>6, <4>3, <5>1
        <5> QED
          BY <1>4, <2>1, <2>3, <4>3, <5>2
      <4> QED
        BY <4>2, <4>3
    <3> QED
      BY <3>1, <3>2
  <2>10. call[t] > k \/ (call[t] = k /\ Ahead(t, d) >= b + 1)
    <3>1. call[t] = k => Launched(t)
      BY <1>1 DEF Launched
    <3>2. call[t] = k => ip[t][d] <= Ahead(t, d) /\ Ahead(t, d) \in Nat
      BY <1>0, <3>1, ReachFacts
    <3> QED
      BY <1>4, <2>3, <2>9, <3>2
  <2>11. Entered(t, d) >= Mark(prog, k, b + 1)
    BY <1>0, <1>1, <2>3, <2>10, EnteredLate
  <2> QED
    BY <2>3, <2>11
<1> QED
  BY <1>5, <1>6

------------------------------------------------------------------------------
(* What the barriers implement, by member.                                 *)
EnteredOf == [m \in Members |-> Entered(m[1], m[2])]
LeftOf == [m \in Members |-> Left(m[1], m[2])]

LEMMA AbstractState ==
  /\ MeshBarrier!vars = <<Members, EnteredOf, LeftOf>>
  /\ MeshBarrier!vars' = <<Members', EnteredOf', LeftOf'>>
  /\ MeshBarrier!Init <=> /\ Members # {}
                          /\ EnteredOf = [m \in Members |-> 0]
                          /\ LeftOf = [m \in Members |-> 0]
BY DEF MeshBarrier!vars, MeshBarrier!Init, Members, EnteredOf, LeftOf

LEMMA AbstractActions ==
  /\ MeshBarrier!SomebodyEnters <=> \E m \in Members : MeshBarrier!Enter(m)
  /\ MeshBarrier!SomebodyLeaves <=> \E m \in Members : MeshBarrier!Leave(m)
  /\ \A m : MeshBarrier!Enter(m) <=>
       /\ EnteredOf[m] = LeftOf[m]
       /\ EnteredOf' = [EnteredOf EXCEPT ![m] = EnteredOf[m] + 1]
       /\ Members' = Members /\ LeftOf' = LeftOf
  /\ \A m : MeshBarrier!Leave(m) <=>
       /\ LeftOf[m] < EnteredOf[m]
       /\ \A o \in Members : EnteredOf[o] >= EnteredOf[m]
       /\ LeftOf' = [LeftOf EXCEPT ![m] = LeftOf[m] + 1]
       /\ Members' = Members /\ EnteredOf' = EnteredOf
BY DEF MeshBarrier!SomebodyEnters, MeshBarrier!SomebodyLeaves, MeshBarrier!Enter,
       MeshBarrier!Leave, Members, EnteredOf, LeftOf

(* A member that a step leaves where it is in the barriers, one that       *)
(* enters, and one that leaves.                                            *)
Same(r, c) == Entered(r, c)' = Entered(r, c) /\ Left(r, c)' = Left(r, c)
Enters(r, c) == /\ Entered(r, c) = Left(r, c)
                /\ Entered(r, c)' = Entered(r, c) + 1 /\ Left(r, c)' = Left(r, c)
LeavesBarrier(r, c) ==
    /\ Left(r, c) < Entered(r, c)
    /\ Left(r, c)' = Left(r, c) + 1 /\ Entered(r, c)' = Entered(r, c)
    /\ \A t \in Ranks, d \in CTAs : <<t, d>> \in Members => Entered(t, d)' >= Entered(r, c)

LEMMA ByMember ==
    ASSUME prog \in Programs, prog' = prog, NEW r \in Ranks, NEW c \in CTAs,
           Same(r, c) \/ (<<r, c>> \in Members => Enters(r, c) \/ LeavesBarrier(r, c)),
           \A t \in Ranks, d \in CTAs : ~(t = r /\ d = c) => Same(t, d)
    PROVE  [MeshBarrier!SomebodyEnters \/ MeshBarrier!SomebodyLeaves]_(MeshBarrier!vars)
<1>0. Members' = Members
  BY DEF Members
<1>1. EnteredOf' = [m \in Members |-> Entered(m[1], m[2])']
      /\ LeftOf' = [m \in Members |-> Left(m[1], m[2])']
  BY <1>0 DEF EnteredOf, LeftOf
<1>2. \A m \in Members : m[1] \in Ranks /\ m[2] \in CTAs /\ m = <<m[1], m[2]>>
  BY MemberFacts
<1>3. \A m \in Members : m # <<r, c>> => Same(m[1], m[2])
  BY <1>2
<1>4. CASE Same(r, c) \/ <<r, c>> \notin Members
  <2>1. \A m \in Members : Entered(m[1], m[2])' = Entered(m[1], m[2])
                           /\ Left(m[1], m[2])' = Left(m[1], m[2])
    BY <1>2, <1>3, <1>4 DEF Same
  <2>2. EnteredOf' = EnteredOf /\ LeftOf' = LeftOf
    BY <1>1, <2>1 DEF EnteredOf, LeftOf
  <2> QED
    BY <1>0, <2>2, AbstractState
<1>5. CASE <<r, c>> \in Members /\ Enters(r, c)
  <2>1. LeftOf' = LeftOf
    BY <1>1, <1>2, <1>3, <1>5 DEF LeftOf, Same, Enters
  <2>2. EnteredOf' = [EnteredOf EXCEPT ![<<r, c>>] = EnteredOf[<<r, c>>] + 1]
    BY <1>1, <1>2, <1>3, <1>5 DEF EnteredOf, Same, Enters
  <2>3. EnteredOf[<<r, c>>] = LeftOf[<<r, c>>]
    BY <1>5 DEF EnteredOf, LeftOf, Enters
  <2>4. MeshBarrier!Enter(<<r, c>>)
    BY <1>0, <2>1, <2>2, <2>3, AbstractActions
  <2> QED
    BY <1>5, <2>4, AbstractActions
<1>6. CASE <<r, c>> \in Members /\ LeavesBarrier(r, c)
  <2>1. EnteredOf' = EnteredOf
    BY <1>1, <1>2, <1>3, <1>6 DEF EnteredOf, Same, LeavesBarrier
  <2>2. LeftOf' = [LeftOf EXCEPT ![<<r, c>>] = LeftOf[<<r, c>>] + 1]
    BY <1>1, <1>2, <1>3, <1>6 DEF LeftOf, Same, LeavesBarrier
  <2>3. LeftOf[<<r, c>>] < EnteredOf[<<r, c>>]
    BY <1>6 DEF EnteredOf, LeftOf, LeavesBarrier
  <2>4. \A o \in Members : EnteredOf[o] >= EnteredOf[<<r, c>>]
    BY <1>1, <1>2, <1>3, <1>6, <2>1 DEF EnteredOf, Same, LeavesBarrier
  <2>5. MeshBarrier!Leave(<<r, c>>)
    BY <1>0, <2>1, <2>2, <2>3, <2>4, AbstractActions
  <2> QED
    BY <1>6, <2>5, AbstractActions
<1> QED
  BY <1>4, <1>5, <1>6

(* What a step does to the members.                                        *)
LEMMA StandsSame ==
    ASSUME NEW r, NEW c, prog' = prog, call'[r] = call[r], ip'[r][c] = ip[r][c],
           c = 0 => \A u \in Ranks : thr'[r][u] = "store" <=> thr[r][u] = "store"
    PROVE  Same(r, c)
<1>1. Begun(r, c)' <=> Begun(r, c)
  BY DEF Begun, Ranks
<1>2. Launched(r)' <=> Launched(r)
  BY DEF Launched
<1> QED
  BY <1>1, <1>2 DEF Same, Entered, Left, Kernel

LEMMA StartsStep ==
    ASSUME Types, Local, NEW r \in Ranks, Running(r, 0),
           prog' = prog, call' = call, ip' = ip,
           \A u \in Ranks : thr[r][u] # "store" => thr'[r][u] # "store",
           \E u \in Ranks : thr'[r][u] # "store"
    PROVE  Same(r, 0) \/ Enters(r, 0)
<1> DEFINE i == ip[r][0]
           K == Kernel(r)
           k == call[r]
<1>1. Launched(r) /\ 0 \in CTAs /\ prog \in Programs
  BY RanksAndCTAs DEF Running, Types
<1>2. i \in 1 .. Len(K.code) /\ k \in 1 .. Len(prog.calls)
  BY <1>1, InstrFacts
<1>3. Begun(r, 0)' /\ Launched(r)'
  BY <1>1 DEF Begun, Launched, Ranks
<1>4. Entered(r, 0)' = Mark(prog, k, i + 1) /\ Left(r, 0)' = Left(r, 0)
  BY <1>1, <1>3 DEF Entered, Left, Mark, Kernel, Launched
<1>5. /\ Entered(r, 0) = Mark(prog, k, Ahead(r, 0))
      /\ Left(r, 0) = prog.passed[k] + K.left[i]
      /\ Begun(r, 0) => Ahead(r, 0) = i + 1
      /\ ~Begun(r, 0) => Ahead(r, 0) = i
  BY <1>1, ReachFacts
<1>6. CASE Begun(r, 0)
  BY <1>4, <1>5, <1>6 DEF Same
<1>7. CASE ~Begun(r, 0) /\ ~Begins(K, i)
  <2>1. Mark(prog, k, i + 1) = Mark(prog, k, i)
    BY <1>7 DEF Begins, Mark, Kernel
  <2> QED
    BY <1>4, <1>5, <1>7, <2>1 DEF Same
<1>8. CASE ~Begun(r, 0) /\ Begins(K, i)
  <2>1. /\ K.entered[i] = K.left[i] /\ K.entered[i + 1] = K.entered[i] + 1
        /\ Len(K.code) \in Nat /\ prog.passed[k] \in Nat
        /\ \A j \in 1 .. Len(K.code) + 1 : K.entered[j] \in Nat
    BY <1>1, <1>2, <1>8, MarkFacts DEF Kernel
  <2>2. K.entered[i] \in Nat
    <3> HIDE DEF i, K
    <3>1. i \in 1 .. Len(K.code) + 1
      BY <1>2, <2>1
    <3> QED
      BY <2>1, <3>1
  <2>3. /\ Mark(prog, k, i) = prog.passed[k] + K.entered[i]
        /\ Mark(prog, k, i + 1) = prog.passed[k] + K.entered[i + 1]
    BY DEF Mark, Kernel
  <2>4. Mark(prog, k, i + 1) = Mark(prog, k, i) + 1
    <3> HIDE DEF i, K, k
    <3> QED
      BY <2>1, <2>2, <2>3
  <2>5. Mark(prog, k, i) = Left(r, 0)
    BY <1>5, <2>1, <2>3
  <2> QED
    BY <1>4, <1>5, <1>8, <2>4, <2>5 DEF Enters
<1> QED
  BY <1>6, <1>7, <1>8

(* A CTA goes on to its next instruction.                                  *)
Moves(r, c) ==
    /\ Running(r, c) /\ Goto(r, c) /\ UNCHANGED <<prog, call>>
    /\ c = 0 => \A u \in Ranks : thr'[r][u] = "store"
    /\ c = 0 /\ Instr(r, 0).op \in Meetings /\ (Instr(r, 0).op = "exchange" => Instr(r, 0).self)
          => thr[r][r] # "store"
    /\ \A q \in Ranks : q # r \/ c # 0 => thr'[q] = thr[q]

LEMMA MovesStep ==
    ASSUME Types, Local, EnteredByAll', NEW r \in Ranks, NEW c \in CTAs, Moves(r, c),
           <<r, c>> \in Members
    PROVE  Same(r, c) \/ Enters(r, c) \/ LeavesBarrier(r, c)
<1> DEFINE i == ip[r][c]
           K == Kernel(r)
           k == call[r]
<1>1. Launched(r) /\ prog \in Programs
  BY DEF Running, Types, Moves
<1>2. i \in 1 .. Len(K.code) /\ k \in 1 .. Len(prog.calls) /\ i \in Nat
  BY <1>1, InstrFacts DEF Moves
<1>3. ip'[r][c] = i + 1 /\ prog' = prog /\ call' = call
  BY DEF Moves, Goto, Types, TypeOK
<1>4. ~Begun(r, c)' /\ Launched(r)'
  BY <1>1, <1>3 DEF Begun, Launched, Ranks, Moves
<1>5. Entered(r, c)' = Mark(prog, k, i + 1) /\ Left(r, c)' = prog.passed[k] + K.left[i + 1]
  <2>1. Entered(r, c)' = prog'.passed[call'[r]] + prog'.calls[call'[r]].entered[ip'[r][c] + 0]
    BY <1>4 DEF Entered, Kernel
  <2>2. ip'[r][c] + 0 = i + 1
    BY <1>2, <1>3
  <2>3. Left(r, c)' = prog'.passed[call'[r]] + prog'.calls[call'[r]].left[ip'[r][c]]
    BY <1>4 DEF Left, Kernel
  <2> QED
    BY <1>3, <2>1, <2>2, <2>3 DEF Mark, Kernel
<1>6. /\ Entered(r, c) = Mark(prog, k, Ahead(r, c))
      /\ Left(r, c) = prog.passed[k] + K.left[i]
      /\ Begun(r, c) => Ahead(r, c) = i + 1
      /\ ~Begun(r, c) => Ahead(r, c) = i
  BY <1>1, ReachFacts
<1>7. /\ Len(K.code) \in Nat /\ prog.passed[k] \in Nat
      /\ \A j \in 1 .. Len(K.code) + 1 : K.entered[j] \in Nat /\ K.left[j] \in Nat
      /\ \A a \in 1 .. Len(K.code) + 1, b \in 1 .. Len(K.code) + 1 :
            a <= b => K.entered[a] <= K.entered[b]
      /\ Begins(K, i) => K.entered[i] = K.left[i] /\ K.entered[i + 1] = K.entered[i] + 1
      /\ Ends(K, i) => /\ K.left[i + 1] = K.left[i] + 1 /\ K.left[i + 1] = K.entered[i + 1]
                       /\ EndsABarrier(prog, K, i)
  BY <1>1, <1>2, MarkFacts DEF Kernel
<1>8. /\ K.entered[i] \in Nat /\ K.entered[i + 1] \in Nat
      /\ K.left[i] \in Nat /\ K.left[i + 1] \in Nat
  <2> HIDE DEF i, K
  <2>1. i \in 1 .. Len(K.code) + 1 /\ i + 1 \in 1 .. Len(K.code) + 1
    BY <1>2, <1>7
  <2> QED
    BY <1>7, <2>1
<1>9. /\ Mark(prog, k, i) = prog.passed[k] + K.entered[i]
      /\ Mark(prog, k, i + 1) = prog.passed[k] + K.entered[i + 1]
  BY DEF Mark, Kernel
<1>10. ~Ends(K, i) => K.left[i + 1] = K.left[i]
  BY DEF Ends
<1>11. ~Begins(K, i) => K.entered[i + 1] = K.entered[i]
  BY DEF Begins
<1>12. CASE (Begun(r, c) \/ ~Begins(K, i)) /\ ~Ends(K, i)
  BY <1>5, <1>6, <1>9, <1>10, <1>11, <1>12 DEF Same
<1>13. CASE (Begun(r, c) \/ ~Begins(K, i)) /\ Ends(K, i)
  <2>1. Entered(r, c)' = Entered(r, c)
    BY <1>5, <1>6, <1>9, <1>11, <1>13
  <2>2. Left(r, c)' = Left(r, c) + 1 /\ Left(r, c) < Entered(r, c)
    <3>1. Entered(r, c) = prog.passed[k] + K.entered[i + 1]
      BY <1>5, <1>9, <2>1
    <3> HIDE DEF i, K, k
    <3> QED
      BY <1>5, <1>6, <1>7, <1>8, <1>13, <3>1
  <2>3. \A t \in Ranks, d \in CTAs :
           <<t, d>> \in Members => Entered(t, d)' >= Mark(prog, k, i + 1)
    <3>1. Members' = Members /\ Ranks' = Ranks /\ CTAs' = CTAs /\ Kernel(r)' = K
      BY <1>3 DEF Members, Ranks, CTAs, Kernel
    <3>2. PICK j \in Nat : j = i
      BY <1>2
    <3>3. ip'[r][c] > j /\ j \in 1 .. Len(K.code)
      BY <1>2, <1>3, <3>2
    <3>4. Ends(Kernel(r), j)'
      BY <1>13, <3>1, <3>2 DEF Ends
    <3>5. \A t \in Ranks, d \in CTAs : <<t, d>> \in Members =>
               Entered(t, d)' >= Mark(prog', call'[r], j + 1)
      BY <1>4, <3>1, <3>3, <3>4 DEF EnteredByAll
    <3> QED
      BY <1>3, <3>2, <3>5
  <2> QED
    BY <1>5, <2>1, <2>2, <2>3 DEF LeavesBarrier
<1>14. CASE ~Begun(r, c) /\ Begins(K, i)
  <2>1. ~Ends(K, i)
    <3> SUFFICES ASSUME Ends(K, i) PROVE FALSE
      OBVIOUS
    <3>1. EndsABarrier(prog, K, i)
      BY <1>7
    <3>2. CASE prog.everyone
      <4>1. PICK b \in 1 .. i : b < i /\ K.entered[b + 1] = K.entered[i + 1]
        <5>1. PICK b \in 1 .. i, g \in 1 .. i, m \in 1 .. i :
                 b < g /\ g < m /\ m < i /\ K.entered[b + 1] = K.entered[i + 1]
          BY <3>1, <3>2 DEF EndsABarrier
        <5>2. b \in Nat /\ g \in Nat /\ m \in Nat
          BY <1>2, <5>1
        <5> HIDE DEF i, K
        <5>3. b < i
          BY <1>2, <5>1, <5>2
        <5> QED
          BY <5>1, <5>3
      <4> HIDE DEF i, K
      <4>2. b + 1 \in 1 .. Len(K.code) + 1 /\ i \in 1 .. Len(K.code) + 1 /\ b + 1 <= i
        BY <1>2, <1>7, <4>1
      <4>3. K.entered[b + 1] <= K.entered[i]
        BY <1>7, <4>2
      <4> QED
        BY <1>7, <1>8, <1>14, <4>1, <4>3
    <3>3. CASE ~prog.everyone
      <4>1. c = 0
        BY <1>1, <3>3, MemberFacts
      <4>2. Instr(r, 0) = K.code[i]
        BY <4>1 DEF Instr
      <4>3. K.code[i].op \in Meetings /\ (K.code[i].op = "exchange" => K.code[i].self)
        BY <1>14, <3>1, <3>3 DEF EndsABarrier
      <4>4. thr[r][r] # "store"
        BY <4>1, <4>2, <4>3 DEF Moves
      <4> QED
        BY <1>14, <4>1, <4>4 DEF Begun
    <3> QED
      BY <3>2, <3>3
  <2>2. /\ Left(r, c)' = Left(r, c) /\ Entered(r, c) = Left(r, c)
        /\ Entered(r, c)' = prog.passed[k] + K.entered[i + 1]
        /\ Entered(r, c) = prog.passed[k] + K.entered[i]
    BY <1>5, <1>6, <1>7, <1>9, <1>10, <1>14, <2>1
  <2>3. K.entered[i + 1] = K.entered[i] + 1
    BY <1>7, <1>14
  <2>4. Entered(r, c)' = Entered(r, c) + 1
    <3> HIDE DEF i, K, k
    <3> QED
      BY <1>7, <1>8, <2>2, <2>3
  <2> QED
    BY <2>2, <2>4 DEF Enters
<1> QED
  BY <1>12, <1>13, <1>14

LEMMA CTAsMove ==
    ASSUME Types, Local, NEW r \in Ranks, NEW c \in CTAs,
           \/ PassBy(r, c) \/ Depart(r, c) \/ MoveData(r, c) \/ Await(r, c) \/ SetReady(r, c)
           \/ c = 0 /\ (SyncThreads(r) \/ GoFromSync(r) \/ Clear(r))
    PROVE  Moves(r, c)
<1>0. ThreadsAtWork(r)
  BY DEF Local
<1>1. Running(r, c) /\ Goto(r, c) /\ UNCHANGED <<prog, call>>
  BY DEF PassBy, Depart, MoveData, Await, SetReady, SyncThreads, GoFromSync, Clear, At, host
<1>2. CASE \/ PassBy(r, c) \/ Depart(r, c) \/ MoveData(r, c) \/ Await(r, c) \/ SetReady(r, c)
           \/ c = 0 /\ Clear(r)
  <2>1. thr' = thr
    BY <1>2 DEF PassBy, Depart, MoveData, Await, SetReady, Clear
  <2>2. c = 0 => Instr(r, 0).op \notin Meetings
    BY <1>2 DEF PassBy, Depart, MoveData, Await, SetReady, Clear, At, Meetings, DataOps
  <2>3. c = 0 => \A u \in Ranks : thr[r][u] = "store"
    BY <1>0, <2>2 DEF ThreadsAtWork, At, Meetings
  <2> QED
    BY <1>1, <2>1, <2>2, <2>3 DEF Moves
<1>3. CASE c = 0 /\ (SyncThreads(r) \/ GoFromSync(r))
  <2>1. /\ \A u \in Ranks : thr'[r][u] = "store"
        /\ \A q \in Ranks : q # r => thr'[q] = thr[q]
    <3>1. Advance(r)
      BY <1>0, <1>3, MeetingAdvances
    <3> QED
      BY <3>1 DEF Advance, Leaves, Stays
  <2>2. CASE SyncThreads(r)
    <3>1. /\ At(r, 0, "exchange") \/ At(r, 0, "cas")
          /\ \A t \in Threads(r) : thr[r][t] = "done"
      BY <2>2 DEF SyncThreads
    <3>2. Instr(r, 0).op = "cas" => Instr(r, 0).self = TRUE
      BY <3>1, CasType DEF At
    <3>3. Instr(r, 0).op \in {"exchange", "cas"}
      BY <3>1 DEF At
    <3>4. (Instr(r, 0).op = "exchange" => Instr(r, 0).self) => thr[r][r] # "store"
      BY <3>1, <3>2, <3>3 DEF Threads
    <3> QED
      BY <1>1, <1>3, <2>1, <3>4 DEF Moves
  <2>3. CASE GoFromSync(r)
    <3>1. thr[r][r] # "store"
      BY <2>3 DEF GoFromSync
    <3> QED
      BY <1>1, <1>3, <2>1, <3>1 DEF Moves
  <2> QED
    BY <1>3, <2>2, <2>3
<1> QED
  BY <1>2, <1>3

LEMMA MovesRefines ==
    ASSUME Types, Local, EnteredByAll', NEW r \in Ranks, NEW c \in CTAs, Moves(r, c)
    PROVE  [MeshBarrier!SomebodyEnters \/ MeshBarrier!SomebodyLeaves]_(MeshBarrier!vars)
<1>1. ASSUME NEW t \in Ranks, NEW d \in CTAs, ~(t = r /\ d = c) PROVE Same(t, d)
  <2>1. prog' = prog /\ call'[t] = call[t]
    BY DEF Moves
  <2>2. ip'[t][d] = ip[t][d]
    BY <1>1 DEF Moves, Goto, Types, TypeOK
  <2>3. d = 0 => thr'[t] = thr[t]
    BY <1>1 DEF Moves
  <2> QED
    BY <2>1, <2>2, <2>3, StandsSame
<1>2. prog \in Programs /\ prog' = prog
  BY DEF Moves, Types
<1>3. <<r, c>> \in Members => Same(r, c) \/ Enters(r, c) \/ LeavesBarrier(r, c)
  BY MovesStep
<1> QED
  BY <1>1, <1>2, <1>3, ByMember

LEMMA StartsRefines ==
    ASSUME Types, Local, NEW r \in Ranks, NEW t \in Ranks,
           Store(r, t) \/ See(r, t) \/ ComeToSync(r)
    PROVE  [MeshBarrier!SomebodyEnters \/ MeshBarrier!SomebodyLeaves]_(MeshBarrier!vars)
<1>1. UNCHANGED <<prog, call, ip>> /\ Running(r, 0)
  BY DEF Store, See, ComeToSync, At, host
<1>2. PICK u \in Ranks, v \in {"wait", "done"} : thr' = [thr EXCEPT ![r][u] = v]
  BY DEF Store, See, ComeToSync
<1>3. \A q \in Ranks, w \in Ranks : thr'[q][w] = IF q = r /\ w = u THEN v ELSE thr[q][w]
  BY <1>2 DEF Types, TypeOK
<1>4. Same(r, 0) \/ Enters(r, 0)
  BY <1>1, <1>3, StartsStep
<1>5. ASSUME NEW q \in Ranks, NEW d \in CTAs, ~(q = r /\ d = 0) PROVE Same(q, d)
  BY <1>1, <1>3, <1>5, StandsSame
<1>6. prog \in Programs /\ 0 \in CTAs
  BY RanksAndCTAs DEF Types
<1> QED
  BY <1>1, <1>4, <1>5, <1>6, ByMember

(* A call begins where the last one has ended.                             *)
LEMMA LaunchRefines ==
    ASSUME Types, Local, NEW r \in Ranks, Launch(r)
    PROVE  [MeshBarrier!SomebodyEnters \/ MeshBarrier!SomebodyLeaves]_(MeshBarrier!vars)
<1>0. prog \in Programs /\ 0 \in CTAs /\ Len(prog.calls) \in Nat
  BY RanksAndCTAs DEF Types
<1>1. /\ prog' = prog /\ thr' = thr
      /\ \A q \in Ranks \ {r} : call'[q] = call[q] /\ ip'[q] = ip[q]
      /\ call'[r] = call[r] + 1 /\ \A c \in CTAs : ip'[r][c] = 1
      /\ call[r] \in Nat /\ call[r] < Len(prog.calls)
  BY <1>0 DEF Launch, Types, TypeOK
<1>2. ASSUME NEW q \in Ranks, q # r, NEW d \in CTAs PROVE Same(q, d)
  BY <1>1, <1>2, StandsSame
<1>3. ASSUME NEW d \in CTAs PROVE Same(r, d)
  <2> DEFINE l == call[r] + 1
  <2>1. l \in 1 .. Len(prog.calls) /\ Launched(r)'
    BY <1>0, <1>1 DEF Launched
  <2>2. \A u \in Ranks : thr[r][u] = "store"
    <3>1. Advance(r)
      BY LaunchAdvances DEF Local
    <3> QED
      BY <1>1, <3>1 DEF Advance, Leaves
  <2>3. ~Begun(r, d) /\ ~Begun(r, d)'
    BY <1>1, <2>2 DEF Begun, Ranks
  <2>4. Entered(r, d)' = prog.passed[l] + prog.calls[l].entered[1]
        /\ Left(r, d)' = prog.passed[l] + prog.calls[l].left[1]
    <3>1. Entered(r, d)' = prog'.passed[call'[r]] + prog'.calls[call'[r]].entered[ip'[r][d] + 0]
      BY <2>1, <2>3 DEF Entered, Kernel
    <3>2. Left(r, d)' = prog'.passed[call'[r]] + prog'.calls[call'[r]].left[ip'[r][d]]
      BY <2>1 DEF Left, Kernel
    <3>3. ip'[r][d] + 0 = 1 /\ ip'[r][d] = 1
      BY <1>1
    <3> QED
      BY <1>1, <3>1, <3>2, <3>3
  <2>5. prog.calls[l].entered[1] = 0 /\ prog.calls[l].left[1] = 0
        /\ prog.passed[l] \in Nat /\ (l = 1 => prog.passed[l] = 0)
    BY <1>0, <2>1, MarkFacts
  <2>6. Entered(r, d)' = prog.passed[l] /\ Left(r, d)' = prog.passed[l]
    <3> HIDE DEF l
    <3> QED
      BY <2>4, <2>5
  <2>7. Entered(r, d) = prog.passed[l] /\ Left(r, d) = prog.passed[l]
    <3>1. CASE ~Launched(r)
      <4>1. l = 1
        BY <1>1, <3>1 DEF Launched
      <4> QED
        BY <2>5, <3>1, <4>1 DEF Entered, Left
    <3>2. CASE Launched(r)
      <4> DEFINE k == call[r]
                 n == Len(Kernel(r).code)
      <4>1. /\ k \in 1 .. Len(prog.calls) /\ n \in Nat /\ ip[r][d] \in 1 .. n + 1
            /\ Entered(r, d) = Mark(prog, k, ip[r][d])
            /\ Left(r, d) = prog.passed[k] + Kernel(r).left[ip[r][d]]
        BY <2>3, <3>2, ReachFacts
      <4>2. ip[r][d] > n
        BY <3>2 DEF Launch, Finished, KernelEnded
      <4>3. ip[r][d] = n + 1
        <5> HIDE DEF n
        <5> QED
          BY <4>1, <4>2
      <4>4. Kernel(r).entered[n + 1] = Kernel(r).left[n + 1]
        BY <1>0, <4>1, MarkFacts DEF Kernel
      <4>5. prog.passed[k] + Kernel(r).left[n + 1] = prog.passed[l]
        <5>1. l = k + 1
          OBVIOUS
        <5> HIDE DEF l
        <5> QED
          BY <1>0, <2>1, <4>1, <5>1, PassedFacts DEF Kernel
      <4> QED
        BY <4>1, <4>3, <4>4, <4>5 DEF Mark, Kernel
    <3> QED
      BY <3>1, <3>2
  <2> QED
    BY <2>6, <2>7 DEF Same
<1>4. \A q \in Ranks, d \in CTAs : Same(q, d)
  BY <1>2, <1>3
<1> QED
  BY <1>0, <1>1, <1>4, ByMember

LEMMA OthersRefine ==
    ASSUME Types, UNCHANGED <<prog, call, ip, thr>>
    PROVE  [MeshBarrier!SomebodyEnters \/ MeshBarrier!SomebodyLeaves]_(MeshBarrier!vars)
<1>1. \A q \in Ranks, d \in CTAs : Same(q, d)
  BY StandsSame
<1>2. prog \in Programs /\ 0 \in Ranks /\ 0 \in CTAs
  BY RanksAndCTAs DEF Types
<1> QED
  BY <1>1, <1>2, ByMember

LEMMA StepRefines ==
    ASSUME IInv, EnteredByAll', [Next]_vars
    PROVE  [MeshBarrier!SomebodyEnters \/ MeshBarrier!SomebodyLeaves]_(MeshBarrier!vars)
<1> DEFINE Goal == [MeshBarrier!SomebodyEnters \/ MeshBarrier!SomebodyLeaves]_(MeshBarrier!vars)
<1>0. Types /\ Local /\ 0 \in CTAs
  BY RanksAndCTAs DEF IInv, Types
<1>1. ASSUME NEW r \in Ranks, NEW c \in CTAs,
             \/ PassBy(r, c) \/ Depart(r, c) \/ MoveData(r, c) \/ Await(r, c) \/ SetReady(r, c)
             \/ c = 0 /\ (SyncThreads(r) \/ GoFromSync(r) \/ Clear(r))
      PROVE  Goal
  BY <1>0, <1>1, CTAsMove, MovesRefines
<1>2. ASSUME NEW r \in Ranks, NEW t \in Ranks, Store(r, t) \/ See(r, t) \/ ComeToSync(r)
      PROVE  Goal
  BY <1>0, <1>2, StartsRefines
<1>3. ASSUME NEW r \in Ranks, Launch(r) PROVE Goal
  BY <1>0, <1>3, LaunchRefines
<1>4. ASSUME \/ \E r \in Ranks, c \in CTAs : Arrive(r, c)
             \/ \E p \in puts : Deliver(p)
             \/ \E r \in Ranks : WaitReady(r) \/ CopyPart(r) \/ SetSignal(r) \/ CopyOut(r)
             \/ \E r \in Ranks : BeginTile(r) \/ EndTile(r)
             \/ UNCHANGED vars
      PROVE  Goal
  <2>1. UNCHANGED <<prog, call, ip, thr>>
    BY <1>4 DEF Arrive, Deliver, WaitReady, CopyPart, SetSignal, CopyOut, BeginTile, EndTile,
                vars, host, ctas
  <2> QED
    BY <1>0, <2>1, OthersRefine
<1>5. \A r \in Ranks : SyncThreads(r) \/ GoFromSync(r) \/ Clear(r) => Goal
  BY <1>0, <1>1
<1>6. \A r \in Ranks : ComeToSync(r) => Goal
  BY <1>2
<1> HIDE DEF Goal
<1>7. Goal
  BY <1>1, <1>2, <1>3, <1>4, <1>5, <1>6 DEF Next
<1> QED
  BY <1>7 DEF Goal

LEMMA InitRefines == Init => MeshBarrier!Init
<1> SUFFICES ASSUME Init PROVE MeshBarrier!Init
  OBVIOUS
<1>1. prog \in Programs /\ 0 \in Ranks /\ 0 \in CTAs
  BY RanksAndCTAs DEF Init
<1>2. <<0, 0>> \in Members
  BY <1>1 DEF Members, MembersOf, Ranks, CTAs
<1>3. \A m \in Members : Entered(m[1], m[2]) = 0 /\ Left(m[1], m[2]) = 0
  <2> SUFFICES ASSUME NEW m \in Members
               PROVE  Entered(m[1], m[2]) = 0 /\ Left(m[1], m[2]) = 0
    OBVIOUS
  <2>1. m[1] \in Ranks
    BY <1>1, MemberFacts
  <2>2. ~Launched(m[1])
    BY <2>1 DEF Init, Launched
  <2> QED
    BY <2>2 DEF Entered, Left
<1> QED
  BY <1>2, <1>3, AbstractState DEF EnteredOf, LeftOf

(* The safety part of ImplementsBarrier: whatever the kernels do, nobody   *)
(* leaves a barrier of theirs before everybody has entered it.             *)
THEOREM BarriersAreBarriers ==
    Spec => /\ MeshBarrier!Init
            /\ [][MeshBarrier!SomebodyEnters \/ MeshBarrier!SomebodyLeaves]_(MeshBarrier!vars)
<1>1. IInv /\ EnteredByAll' /\ [Next]_vars =>
          [MeshBarrier!SomebodyEnters \/ MeshBarrier!SomebodyLeaves]_(MeshBarrier!vars)
  BY StepRefines
<1> QED
  BY <1>1, InitRefines, EndsAfterAll, Invariance, PTL DEF Spec

------------------------------------------------------------------------------
(* The all-gather.  A CTA is past an instruction of its call, or before    *)
(* all of a kind.                                                          *)
PastAny(r, c, op) == \E i \in 1 .. Len(Kernel(r).code) :
                         Kernel(r).code[i].op = op /\ i < ip[r][c]
BeforeAll(r, c, op) == \A i \in 1 .. Len(Kernel(r).code) :
                           Kernel(r).code[i].op = op => ip[r][c] <= i

(* A stream and a GEMM do something only when the kernel has ended, and    *)
(* what they have waited for stays ready.                                  *)
After(r) ==
    /\ ~Launched(r) => pos[r] = 1 /\ part[r] = 0 /\ ~reading[r]
    /\ Launched(r) /\ (pos[r] # 1 \/ part[r] # 0 \/ reading[r]) => KernelEnded(r)
    /\ part[r] # 0 => StreamAt(r, "copy")
    /\ reading[r] => /\ tile[r] <= Len(Tiles(r))
                     /\ \A q \in Tiles(r)[tile[r]].waits : ready[r][q] = 1
    /\ Launched(r) => \A j \in 1 .. Len(Script(r)) :
           pos[r] = j + 1 /\ Script(r)[j].op = "wait" => ready[r][Script(r)[j].seg] = 1

(* A rank has its own segment of the k-th call, part by part, from when it *)
(* has copied it to when it copies the next one.                           *)
Holds(r, c, k) ==
    \/ call[r] = k /\ (Kernel(r).memcpy = "own" \/ PastAny(r, c, "copy"))
    \/ call[r] = k + 1 /\ Kernel(r).memcpy = "none" /\ BeforeAll(r, c, "copy")

OwnFresh(r, c) == \A k \in 1 .. Len(prog.calls) : Holds(r, c, k) => data[r][r][c] = Input(k)

(* A segment that is ready has been signalled in some call, the flags have *)
(* not been reset since, and the segment is whole and of that call.        *)
Signals(w, k, j, seg, dst) ==
    LET S == prog.calls[k].script[w]
    IN  j \in 1 .. Len(S) /\ S[j].op = "signal" /\ S[j].seg = seg /\ S[j].dst = dst
Signalled(w, k, j) == call[w] > k \/ (call[w] = k /\ pos[w] > j)
NotReset(r, k) == \/ call[r] <= k
                  \/ call[r] = k + 1 /\ \A c \in CTAs : BeforeAll(r, c, "set_ready")

ReadyFresh(r, seg) ==
    seg # r /\ ready[r][seg] = 1 =>
        \E k \in 1 .. Len(prog.calls), w \in Ranks : \E j \in Nat :
            /\ Signals(w, k, j, seg, r) /\ Signalled(w, k, j) /\ NotReset(r, k)
            /\ \A c \in CTAs : data[r][seg][c] = Input(k)

(* What a stream has copied so far is of its call.                         *)
CopiedSoFar(r) ==
    /\ StreamAt(r, "copy") => \A c \in CTAs : c < part[r] =>
           data[StreamOp(r).dst][StreamOp(r).seg][c] = Input(call[r])
    /\ StreamAt(r, "signal") => \A c \in CTAs :
           data[StreamOp(r).dst][StreamOp(r).seg][c] = Input(call[r])

Segments == Gathers(prog) =>
    /\ puts = {}
    /\ \A r \in Ranks : /\ CopiedSoFar(r)
                        /\ \A c \in CTAs : OwnFresh(r, c)
                        /\ \A seg \in Ranks : ReadyFresh(r, seg)

GInv == (\A r \in Ranks : After(r)) /\ Segments

(* The calls of a program that gathers.                                    *)
LEMMA GatherFacts ==
    ASSUME prog \in Programs, Gathers(prog), NEW k \in 1 .. Len(prog.calls)
    PROVE  LET K == prog.calls[k]
           IN  /\ Fenced(K) /\ OwnSegmentFilled(K, k) /\ StagesInOrder(prog, K)
               /\ TilesWaitForAll(prog, K)
               /\ Len(K.code) \in Nat
               /\ \A r \in Ranks : Len(K.script[r]) \in Nat
BY ProgramFacts DEF Gathers, WellFormed, Ranks

LEMMA CounterFacts ==
    ASSUME Types, NEW r \in Ranks
    PROVE  /\ call[r] \in Nat /\ call[r] \in 0 .. Len(prog.calls) /\ Len(prog.calls) \in Nat
           /\ \A c \in CTAs : ip[r][c] \in Nat \ {0}
           /\ pos[r] \in Nat \ {0} /\ part[r] \in CTAs /\ tile[r] \in Nat \ {0}
<1>1. call[r] \in 0 .. Len(prog.calls) /\ Len(prog.calls) \in Nat
  BY RanksAndCTAs DEF Types, TypeOK
<1>2. \A c \in CTAs : ip[r][c] \in Nat \ {0}
  BY DEF Types, TypeOK
<1>3. pos[r] \in Nat \ {0} /\ part[r] \in CTAs /\ tile[r] \in Nat \ {0}
  BY DEF Types, TypeOK
<1>4. call[r] \in Nat
  BY <1>1
<1> QED
  BY <1>1, <1>2, <1>3, <1>4, Zenon

(* When a rank's kernel has ended, no rank is in an earlier call, and all  *)
(* CTAs have filled their segments and reset their flags.                  *)
LEMMA EndedSoAll ==
    ASSUME IInv, Gathers(prog), NEW w \in Ranks, NEW d \in Ranks, NEW k \in 1 .. Len(prog.calls),
           call[w] > k \/ (call[w] = k /\ KernelEnded(w))
    PROVE  /\ call[d] >= k
           /\ call[d] = k => \A c \in CTAs : \A i \in 1 .. Len(Kernel(d).code) :
                 Kernel(d).code[i].op \in {"copy", "set_ready"} => i < ip[d][c]
<1> DEFINE K == prog.calls[k]
<1>0. Types /\ Meet /\ prog \in Programs /\ GridMeets
  BY AllMeet DEF IInv, Types
<1>1. Fenced(K) /\ Len(K.code) \in Nat
  BY <1>0, GatherFacts
<1>2. PICK g \in 1 .. Len(K.code), m \in 1 .. Len(K.code) :
          /\ g < m /\ K.code[g].op = "grid" /\ K.code[m].op \in Meetings
          /\ \A i \in 1 .. Len(K.code) : K.code[i].op \in {"copy", "set_ready"} => i < g
  BY <1>1 DEF Fenced
<1>3. PICK x \in Positions(prog) : x = <<k, m>> /\ InstrAt(prog, x) = K.code[m]
  BY PositionOf
<1>4. k \in Nat /\ m \in Nat /\ g \in Nat /\ 0 \in CTAs
  BY <1>0, <1>1, RanksAndCTAs
<1>5. /\ call[w] \in Nat /\ call[d] \in Nat
      /\ \A c \in CTAs : ip[w][c] \in Nat /\ ip[d][c] \in Nat
  BY <1>0, CounterFacts
<1>6. call[w] > k \/ (call[w] = k /\ ip[w][0] > m)
  <2> SUFFICES ASSUME call[w] = k, KernelEnded(w) PROVE ip[w][0] > m
    OBVIOUS
  <2>1. ip[w][0] > Len(K.code)
    BY <1>4 DEF KernelEnded, Kernel
  <2> HIDE DEF K
  <2> QED
    BY <1>1, <1>4, <1>5, <2>1
<1>7. Past(w, x)
  BY <1>3, <1>4, <1>5, <1>6 DEF Past, Where, \prec
<1>8. call[d] > k \/ (call[d] = k /\ ip[d][0] >= m)
  <2>1. CASE d = w
    BY <1>4, <1>5, <1>6, <2>1
  <2>2. CASE d # w
    <3>1. Come(d, x)
      BY <1>0, <1>2, <1>3, <1>7, <2>2 DEF Meet, NobodyAhead
    <3>2. Past(d, x) \/ On(d, x)
      BY <3>1 DEF Come
    <3> QED
      BY <1>3, <1>4, <1>5, <3>2 DEF Past, On, Where, \prec
  <2> QED
    BY <2>1, <2>2
<1>9. ASSUME call[d] = k, NEW c \in CTAs, NEW i \in 1 .. Len(K.code),
             K.code[i].op \in {"copy", "set_ready"}
      PROVE  i < ip[d][c]
  <2>1. ip[d][0] > g
    BY <1>2, <1>4, <1>5, <1>8, <1>9
  <2>2. Launched(d) /\ Kernel(d) = K
    BY <1>9 DEF Launched, Kernel
  <2>3. ip[d][c] > g \/ ip[d][c] = g
    BY <1>0, <1>2, <1>4, <2>1, <2>2 DEF GridMeets
  <2>4. i < g
    BY <1>2, <1>9
  <2>5. i \in Nat
    OBVIOUS
  <2> HIDE DEF K
  <2> QED
    BY <1>4, <1>5, <2>3, <2>4, <2>5
<1>10. call[d] >= k
  BY <1>4, <1>5, <1>8
<1> QED
  BY <1>9, <1>10 DEF Kernel

(* A CTA that has come to where it fills its segment or resets its flags   *)
(* knows that no rank is in an earlier call.                               *)
LEMMA ReachedSoAll ==
    ASSUME IInv, Gathers(prog), NEW d \in Ranks, NEW c \in CTAs, Launched(d),
           NEW i \in 1 .. Len(Kernel(d).code),
           Kernel(d).code[i].op \in {"copy", "set_ready"}, i <= ip[d][c], NEW t \in Ranks
    PROVE  call[d] <= call[t]
<1> DEFINE k == call[d]
           K == prog.calls[k]
<1>0. Types /\ Meet /\ prog \in Programs /\ GridMeets
  BY AllMeet DEF IInv, Types
<1>1. k \in 1 .. Len(prog.calls) /\ k \in Nat /\ Kernel(d) = K
  BY <1>0, CallFacts DEF Kernel
<1>2. Fenced(K) /\ Len(K.code) \in Nat
  BY <1>0, <1>1, GatherFacts
<1>3. PICK a \in 1 .. Len(K.code), b \in 1 .. Len(K.code) :
          /\ a < b /\ K.code[a].op \in Meetings /\ K.code[b].op = "grid"
          /\ \A j \in 1 .. Len(K.code) : K.code[j].op \in {"copy", "set_ready"} => b < j
  BY <1>2 DEF Fenced
<1>4. a \in Nat /\ b \in Nat /\ i \in Nat /\ 0 \in CTAs
  BY <1>0, <1>1, <1>2, RanksAndCTAs
<1>5. /\ call[t] \in Nat
      /\ \A e \in CTAs : ip[d][e] \in Nat /\ ip[t][e] \in Nat
  BY <1>0, CounterFacts
<1>6. b < i
  BY <1>1, <1>3
<1>7. ip[d][c] > b
  BY <1>4, <1>5, <1>6
<1>8. ip[d][0] > b \/ ip[d][0] = b
  BY <1>0, <1>1, <1>3, <1>4, <1>7 DEF GridMeets
<1>9. PICK x \in Positions(prog) : x = <<k, a>> /\ InstrAt(prog, x) = K.code[a]
  BY <1>1, PositionOf
<1>10. ip[d][0] > a
  BY <1>3, <1>4, <1>5, <1>8
<1>11. Past(d, x)
  BY <1>9, <1>10 DEF Past, Where, \prec
<1>12. CASE t = d
  BY <1>1, <1>12
<1>13. CASE t # d
  <2>1. Come(t, x)
    BY <1>0, <1>3, <1>9, <1>11, <1>13 DEF Meet, NobodyAhead
  <2>2. Past(t, x) \/ On(t, x)
    BY <2>1 DEF Come
  <2>3. call[t] > k \/ call[t] = k
    BY <1>1, <1>5, <1>9, <2>2 DEF Past, On, Where, \prec
  <2> QED
    BY <1>1, <1>5, <2>3
<1> QED
  BY <1>12, <1>13

(* So whoever has a stream at work is in the same call.                    *)
LEMMA SameCall ==
    ASSUME IInv, Gathers(prog), NEW r \in Ranks, NEW q \in Ranks,
           Launched(r), KernelEnded(r), Launched(q), KernelEnded(q)
    PROVE  call[r] = call[q]
<1>1. Types
  BY DEF IInv
<1>2. call[r] \in 1 .. Len(prog.calls) /\ call[q] \in 1 .. Len(prog.calls)
  BY <1>1, CallFacts
<1>3. call[q] >= call[r]
  BY <1>2, EndedSoAll
<1>4. call[r] >= call[q]
  BY <1>2, EndedSoAll
<1> QED
  BY <1>2, <1>3, <1>4

------------------------------------------------------------------------------
(* What the invariant says of a segment that a stream or a GEMM may read.  *)

(* When a rank's kernel has ended nobody is more than a call ahead, or     *)
(* past where that call fills its segment and resets its flags.            *)
LEMMA AtMostOneAhead ==
    ASSUME IInv, Gathers(prog), NEW r \in Ranks, Launched(r), KernelEnded(r),
           NEW d \in Ranks, call[d] # call[r]
    PROVE  /\ call[d] = call[r] + 1 /\ call[r] + 1 \in 1 .. Len(prog.calls)
           /\ \A c \in CTAs : BeforeAll(d, c, "copy") /\ BeforeAll(d, c, "set_ready")
<1> DEFINE k == call[r]
<1>0. Types
  BY DEF IInv
<1>1. k \in 1 .. Len(prog.calls) /\ k \in Nat /\ Len(prog.calls) \in Nat
  BY <1>0, CallFacts, CounterFacts
<1>2. call[d] \in Nat /\ call[d] <= Len(prog.calls) /\ \A c \in CTAs : ip[d][c] \in Nat
  BY <1>0, CounterFacts
<1>3. call[d] >= k
  BY <1>1, EndedSoAll
<1>4. k + 1 \in 1 .. Len(prog.calls)
  BY <1>1, <1>2, <1>3
<1>5. ~(call[d] > k + 1)
  <2> SUFFICES ASSUME call[d] > k + 1 PROVE FALSE
    OBVIOUS
  <2>1. call[r] >= k + 1
    BY <1>4, EndedSoAll
  <2> QED
    BY <1>1, <2>1
<1>6. call[d] = k + 1
  BY <1>1, <1>2, <1>3, <1>5
<1>7. ASSUME NEW c \in CTAs, NEW i \in 1 .. Len(Kernel(d).code),
             Kernel(d).code[i].op \in {"copy", "set_ready"}
      PROVE  ip[d][c] <= i
  <2> SUFFICES ASSUME ~(ip[d][c] <= i) PROVE FALSE
    OBVIOUS
  <2>1. i <= ip[d][c]
    BY <1>2
  <2>2. Launched(d)
    BY <1>1, <1>6 DEF Launched
  <2>3. call[d] <= call[r]
    BY <1>7, <2>1, <2>2, ReachedSoAll
  <2> QED
    BY <1>1, <1>6, <2>3
<1> QED
  BY <1>4, <1>6, <1>7 DEF BeforeAll

LEMMA OwnSegmentThere ==
    ASSUME IInv, GInv, Gathers(prog), NEW r \in Ranks, Launched(r), KernelEnded(r),
           NEW d \in Ranks, NEW c \in CTAs
    PROVE  data[d][d][c] = Input(call[r])
<1> DEFINE k == call[r]
<1>0. Types /\ prog \in Programs
  BY DEF IInv, Types
<1>1. k \in 1 .. Len(prog.calls) /\ k \in Nat
  BY <1>0, CallFacts, CounterFacts
<1>2. CASE call[d] = k
  <2>1. OwnSegmentFilled(Kernel(d), k)
    BY <1>0, <1>1, <1>2, GatherFacts DEF Kernel
  <2>2. \A i \in 1 .. Len(Kernel(d).code) :
            Kernel(d).code[i].op \in {"copy", "set_ready"} => i < ip[d][c]
    BY <1>1, <1>2, EndedSoAll
  <2>3. Kernel(d).memcpy = "own" \/ PastAny(d, c, "copy")
    BY <2>1, <2>2 DEF OwnSegmentFilled, PastAny
  <2> QED
    BY <1>1, <1>2, <2>3 DEF Holds, GInv, Segments, OwnFresh
<1>3. CASE call[d] # k
  <2>1. /\ call[d] = k + 1 /\ k + 1 \in 1 .. Len(prog.calls)
        /\ BeforeAll(d, c, "copy")
    BY <1>3, AtMostOneAhead
  <2>2. OwnSegmentFilled(Kernel(d), k + 1)
    BY <1>0, <2>1, GatherFacts DEF Kernel
  <2>3. Kernel(d).memcpy = "none"
    BY <1>1, <2>2 DEF OwnSegmentFilled
  <2> QED
    BY <1>1, <2>1, <2>3 DEF Holds, GInv, Segments, OwnFresh
<1> QED
  BY <1>2, <1>3

(* While a rank's stream is at work, what is ready is of its call.         *)
LEMMA ReadyIsOfTheCall ==
    ASSUME IInv, GInv, Gathers(prog), NEW r \in Ranks, Launched(r), KernelEnded(r),
           NEW d \in Ranks, NEW seg \in Ranks, seg # d, ready[d][seg] = 1
    PROVE  /\ \E w \in Ranks : \E j \in Nat :
                  Signals(w, call[r], j, seg, d) /\ Signalled(w, call[r], j)
           /\ \A c \in CTAs : data[d][seg][c] = Input(call[r])
<1> DEFINE K == call[r]
<1>0. Types /\ prog \in Programs /\ 0 \in CTAs
  BY RanksAndCTAs DEF IInv, Types
<1>1. K \in 1 .. Len(prog.calls) /\ K \in Nat /\ Len(prog.calls) \in Nat
  BY <1>0, CallFacts, CounterFacts
<1>2. PICK k \in 1 .. Len(prog.calls), w \in Ranks : \E j \in Nat :
          /\ Signals(w, k, j, seg, d) /\ Signalled(w, k, j) /\ NotReset(d, k)
          /\ \A c \in CTAs : data[d][seg][c] = Input(k)
  BY DEF GInv, Segments, ReadyFresh
<1>3. PICK j \in Nat :
          /\ Signals(w, k, j, seg, d) /\ Signalled(w, k, j) /\ NotReset(d, k)
          /\ \A c \in CTAs : data[d][seg][c] = Input(k)
  BY <1>2
<1>4. k \in Nat /\ call[d] \in Nat /\ call[w] \in Nat /\ pos[w] \in Nat /\ ip[d][0] \in Nat
  BY <1>0, <1>1, CounterFacts
<1>5. /\ call[d] >= K
      /\ call[d] = K => \A i \in 1 .. Len(Kernel(d).code) :
            Kernel(d).code[i].op = "set_ready" => i < ip[d][0]
  BY <1>0, <1>1, EndedSoAll
<1>6. k >= K
  <2> SUFFICES ASSUME k < K PROVE FALSE
    BY <1>1, <1>4
  <2>1. call[d] = K /\ BeforeAll(d, 0, "set_ready")
    BY <1>0, <1>1, <1>3, <1>4, <1>5 DEF NotReset
  <2>2. PICK i \in 1 .. Len(Kernel(d).code) : Kernel(d).code[i].op = "set_ready"
    <3>1. Fenced(prog.calls[K]) /\ Kernel(d) = prog.calls[K]
      BY <1>0, <1>1, <2>1, GatherFacts DEF Kernel
    <3> QED
      BY <3>1 DEF Fenced
  <2>3. i < ip[d][0] /\ ip[d][0] <= i
    BY <1>5, <2>1, <2>2 DEF BeforeAll
  <2> QED
    BY <1>4, <2>3
<1>7. k <= K
  <2> SUFFICES ASSUME k > K PROVE FALSE
    BY <1>1, <1>4
  <2>1. call[w] > k \/ (call[w] = k /\ KernelEnded(w))
    <3>1. CASE call[w] = k /\ pos[w] > j
      <4>1. j >= 1
        BY <1>3 DEF Signals
      <4>2. pos[w] # 1
        BY <1>3, <1>4, <3>1, <4>1
      <4>3. Launched(w)
        BY <1>1, <1>4, <3>1 DEF Launched
      <4> QED
        BY <3>1, <4>2, <4>3 DEF GInv, After
    <3> QED
      BY <1>3, <3>1 DEF Signalled
  <2>2. call[r] >= k
    BY <2>1, EndedSoAll
  <2> QED
    BY <1>1, <1>4, <2>2
<1>8. k = K
  BY <1>1, <1>4, <1>6, <1>7
<1> QED
  BY <1>3, <1>8

(* The stage of a stream that copies or signals.                           *)
LEMMA StageFacts ==
    ASSUME Types, Gathers(prog), NEW r \in Ranks, StreamAt(r, "copy") \/ StreamAt(r, "signal")
    PROVE  LET S == Script(r)
               j == pos[r]
           IN  /\ call[r] \in 1 .. Len(prog.calls) /\ S = prog.calls[call[r]].script[r]
               /\ Len(S) \in Nat /\ j \in 1 .. Len(S) /\ j \in Nat
               /\ S[j].seg \in Ranks /\ S[j].dst \in Ranks /\ S[j].seg # S[j].dst
               /\ S[j].op = "copy" =>
                     /\ j < Len(S) /\ S[j + 1].op = "signal" /\ SameSegment(S[j], S[j + 1])
                     /\ S[j].src \in Ranks
                     /\ \/ S[j].src = S[j].seg
                        \/ S[j].src = r /\ j > 1 /\ S[j - 1].op = "wait" /\ S[j - 1].seg = S[j].seg
               /\ S[j].op = "signal" =>
                     j > 1 /\ S[j - 1].op = "copy" /\ SameSegment(S[j - 1], S[j])
<1> DEFINE S == Script(r)
           j == pos[r]
<1>1. Launched(r) /\ j <= Len(S) /\ j \in Nat \ {0}
  BY CounterFacts DEF StreamAt
<1>2. /\ call[r] \in 1 .. Len(prog.calls) /\ Len(S) \in Nat
      /\ \A i \in 1 .. Len(S) : IsStreamOp(prog, S[i])
  BY <1>1, CallFacts
<1>3. j \in 1 .. Len(S)
  BY <1>1, <1>2
<1>4. StagesInOrder(prog, Kernel(r))
  BY <1>2, GatherFacts DEF Types, Kernel
<1>5. \A i \in 1 .. Len(S) :
          /\ S[i].op = "copy" =>
                /\ S[i].seg # S[i].dst
                /\ i < Len(S) /\ S[i + 1].op = "signal" /\ SameSegment(S[i], S[i + 1])
                /\ \/ S[i].src = S[i].seg
                   \/ /\ S[i].src = r /\ i > 1
                      /\ S[i - 1].op = "wait" /\ S[i - 1].seg = S[i].seg
          /\ S[i].op = "signal" =>
                i > 1 /\ S[i - 1].op = "copy" /\ SameSegment(S[i - 1], S[i])
  BY <1>4 DEF StagesInOrder, Script, Ranks
<1>6. IsStreamOp(prog, S[j]) /\ S[j].op \in {"copy", "signal"}
  BY <1>2, <1>3 DEF StreamAt
<1>7. /\ S[j].seg \in Ranks /\ S[j].dst \in Ranks
      /\ S[j].op = "copy" => S[j].src \in Ranks
  BY <1>6 DEF IsStreamOp, Ranks
<1>8. S[j].seg # S[j].dst
  <2>1. CASE S[j].op = "copy"
    BY <1>3, <1>5, <2>1
  <2>2. CASE S[j].op = "signal"
    <3>1. j > 1 /\ S[j - 1].op = "copy" /\ SameSegment(S[j - 1], S[j])
      BY <1>3, <1>5, <2>2
    <3>2. j - 1 \in 1 .. Len(S)
      BY <1>1, <1>2, <1>3, <3>1
    <3>3. S[j - 1].seg # S[j - 1].dst
      BY <1>5, <3>1, <3>2
    <3> QED
      BY <3>1, <3>3 DEF SameSegment
  <2> QED
    BY <1>6, <2>1, <2>2
<1>9. S = prog.calls[call[r]].script[r]
  BY DEF Script, Kernel
<1> QED
  BY <1>1, <1>2, <1>3, <1>5, <1>7, <1>8, <1>9

(* Nobody else copies or signals the segment a stream copies or signals.   *)
LEMMA OneSignal ==
    ASSUME Types, Gathers(prog), NEW k \in 1 .. Len(prog.calls), NEW r \in Ranks, NEW q \in Ranks,
           NEW i \in Nat, NEW j \in Nat, NEW seg, NEW dst,
           Signals(r, k, i, seg, dst), Signals(q, k, j, seg, dst)
    PROVE  r = q /\ i = j
<1>1. StagesInOrder(prog, prog.calls[k])
  BY GatherFacts DEF Types
<1>2. \A u \in Ranks, v \in Ranks :
          \A a \in 1 .. Len(prog.calls[k].script[u]), b \in 1 .. Len(prog.calls[k].script[v]) :
              /\ prog.calls[k].script[u][a].op = "signal" /\ prog.calls[k].script[v][b].op = "signal"
              /\ SameSegment(prog.calls[k].script[u][a], prog.calls[k].script[v][b])
              => u = v /\ a = b
  BY <1>1 DEF StagesInOrder, Ranks
<1>3. /\ i \in 1 .. Len(prog.calls[k].script[r]) /\ j \in 1 .. Len(prog.calls[k].script[q])
      /\ prog.calls[k].script[r][i].op = "signal" /\ prog.calls[k].script[q][j].op = "signal"
      /\ SameSegment(prog.calls[k].script[r][i], prog.calls[k].script[q][j])
  BY DEF Signals, SameSegment
<1> QED
  BY <1>2, <1>3

LEMMA SignalOfStage ==
    ASSUME Types, Gathers(prog), NEW r \in Ranks
    PROVE  /\ StreamAt(r, "copy") =>
                  Signals(r, call[r], pos[r] + 1, StreamOp(r).seg, StreamOp(r).dst)
           /\ StreamAt(r, "signal") =>
                  Signals(r, call[r], pos[r], StreamOp(r).seg, StreamOp(r).dst)
<1>1. CASE StreamAt(r, "copy")
  <2>1. Script(r)[pos[r]].op = "copy"
    BY <1>1 DEF StreamAt
  <2> QED
    BY <1>1, <2>1, StageFacts DEF Signals, StreamAt, StreamOp, SameSegment
<1>2. CASE StreamAt(r, "signal")
  <2>1. Script(r)[pos[r]].op = "signal"
    BY <1>2 DEF StreamAt
  <2> QED
    BY <1>2, <2>1, StageFacts DEF Signals, StreamAt, StreamOp
<1> QED
  BY <1>1, <1>2

(* A program that never gathers has no stage that copies.                  *)
LEMMA OnlyGathersCopy ==
    ASSUME Types, NEW r \in Ranks,
           \/ StreamAt(r, "copy") \/ StreamAt(r, "signal") \/ StreamAt(r, "wait")
           \/ Launched(r) /\ tile[r] <= Len(Tiles(r))
    PROVE  Gathers(prog)
<1> SUFFICES ASSUME NeverGathers(prog) PROVE FALSE
  BY ProgramsAssumption DEF Disciplined, Types
<1>1. Launched(r) /\ call[r] \in 1 .. Len(prog.calls)
  BY CallFacts DEF StreamAt
<1>2. /\ Len(Tiles(r)) = 0
      /\ \A j \in 1 .. Len(Script(r)) : Script(r)[j].op = "out"
  BY <1>1 DEF NeverGathers, Ranks, Tiles, Script, Kernel
<1>3. tile[r] \in Nat \ {0} /\ pos[r] \in Nat \ {0} /\ Len(Script(r)) \in Nat
  BY <1>1, CallFacts, CounterFacts
<1>4. CASE tile[r] <= Len(Tiles(r))
  BY <1>2, <1>3, <1>4
<1>5. CASE StreamAt(r, "copy") \/ StreamAt(r, "signal") \/ StreamAt(r, "wait")
  <2>1. pos[r] <= Len(Script(r)) /\ Script(r)[pos[r]].op # "out"
    BY <1>5 DEF StreamAt
  <2>2. pos[r] \in 1 .. Len(Script(r))
    BY <1>3, <2>1
  <2> QED
    BY <1>2, <2>1, <2>2
<1> QED
  BY <1>4, <1>5

LEMMA CopiesAreFresh == IInv /\ GInv => CopiesFresh
<1> SUFFICES ASSUME IInv, GInv, NEW r \in Ranks, StreamAt(r, "copy"), NEW c \in CTAs
             PROVE  data[StreamOp(r).src][StreamOp(r).seg][c] = Input(call[r])
  BY DEF CopiesFresh
<1> DEFINE S == Script(r)
           j == pos[r]
<1>0. Types
  BY DEF IInv
<1>1. Gathers(prog)
  BY <1>0, OnlyGathersCopy
<1>2. Launched(r) /\ KernelEnded(r) /\ S[j].op = "copy" /\ StreamOp(r) = S[j]
  BY DEF StreamAt, StreamOp
<1>3. /\ j \in Nat /\ j \in 1 .. Len(S) /\ Len(S) \in Nat /\ S[j].seg \in Ranks
      /\ \/ S[j].src = S[j].seg
         \/ S[j].src = r /\ j > 1 /\ S[j - 1].op = "wait" /\ S[j - 1].seg = S[j].seg
  BY <1>0, <1>1, <1>2, StageFacts
<1>4. data[S[j].seg][S[j].seg][c] = Input(call[r])
  BY <1>1, <1>2, <1>3, OwnSegmentThere
<1>5. CASE S[j].src = S[j].seg
  BY <1>2, <1>4, <1>5
<1>6. CASE S[j].src # S[j].seg
  <2>1. S[j].src = r /\ j > 1 /\ S[j - 1].op = "wait" /\ S[j - 1].seg = S[j].seg
    BY <1>3, <1>6
  <2>2. j - 1 \in 1 .. Len(S) /\ j = (j - 1) + 1
    BY <1>3, <2>1
  <2>3. ready[r][S[j - 1].seg] = 1
    BY <1>2, <2>1, <2>2 DEF GInv, After
  <2>4. data[r][S[j].seg][c] = Input(call[r])
    BY <1>1, <1>2, <1>3, <1>6, <2>1, <2>3, ReadyIsOfTheCall
  <2> QED
    BY <1>2, <2>1, <2>4
<1> QED
  BY <1>5, <1>6

LEMMA ReadyIsLeft == IInv /\ GInv => ReadyIsLeftAlone
<1> SUFFICES ASSUME IInv, GInv, NEW r \in Ranks, StreamAt(r, "copy"),
                    ready[StreamOp(r).dst][StreamOp(r).seg] # 0
             PROVE  FALSE
  BY DEF ReadyIsLeftAlone
<1> DEFINE seg == StreamOp(r).seg
           dst == StreamOp(r).dst
<1>0. Types
  BY DEF IInv
<1>1. Gathers(prog)
  BY <1>0, OnlyGathersCopy
<1>2. Launched(r) /\ KernelEnded(r)
  BY DEF StreamAt
<1>3. seg \in Ranks /\ dst \in Ranks /\ seg # dst /\ call[r] \in 1 .. Len(prog.calls) /\ pos[r] \in Nat
  BY <1>0, <1>1, StageFacts DEF StreamOp
<1>4. Signals(r, call[r], pos[r] + 1, seg, dst)
  BY <1>0, <1>1, SignalOfStage
<1> HIDE DEF seg, dst
<1>5. ready[dst][seg] = 1
  <2>1. ready[dst][seg] \in 0 .. 1
    BY <1>0, <1>3 DEF Types, TypeOK
  <2> QED
    BY <2>1 DEF seg, dst
<1>6. PICK w \in Ranks : \E j \in Nat :
          Signals(w, call[r], j, seg, dst) /\ Signalled(w, call[r], j)
  BY <1>1, <1>2, <1>3, <1>5, ReadyIsOfTheCall
<1>7. PICK j \in Nat : Signals(w, call[r], j, seg, dst) /\ Signalled(w, call[r], j)
  BY <1>6
<1>8. r = w /\ pos[r] + 1 = j
  <2>1. pos[r] + 1 \in Nat
    BY <1>3
  <2> QED
    BY <1>0, <1>1, <1>3, <1>4, <1>7, <2>1, OneSignal
<1>9. call[r] > call[r] \/ pos[r] > pos[r] + 1
  BY <1>7, <1>8 DEF Signalled
<1>10. call[r] \in Nat
  BY <1>0, CounterFacts
<1> QED
  BY <1>3, <1>9, <1>10

LEMMA TilesAreFresh == IInv /\ GInv => TilesFresh
<1> SUFFICES ASSUME IInv, GInv, NEW r \in Ranks, reading[r],
                    NEW q \in Tiles(r)[tile[r]].reads, NEW c \in CTAs
             PROVE  data[r][q][c] = Input(call[r])
  BY DEF TilesFresh
<1>0. Types
  BY DEF IInv
<1>1. Launched(r) /\ KernelEnded(r) /\ tile[r] <= Len(Tiles(r))
      /\ \A s \in Tiles(r)[tile[r]].waits : ready[r][s] = 1
  BY DEF GInv, After
<1>2. Gathers(prog)
  BY <1>0, <1>1, OnlyGathersCopy
<1>3. call[r] \in 1 .. Len(prog.calls) /\ tile[r] \in 1 .. Len(Tiles(r))
  BY <1>0, <1>1, CallFacts, CounterFacts
<1>4. q \in Tiles(r)[tile[r]].waits /\ q \in Ranks
  <2>1. TilesWaitForAll(prog, Kernel(r))
    BY <1>0, <1>2, <1>3, GatherFacts DEF Types, Kernel
  <2>2. WellFormed(prog)
    BY <1>0, ProgramFacts DEF Types
  <2>3. q \in Tiles(r)[tile[r]].waits
    BY <1>3, <2>1 DEF TilesWaitForAll, Tiles, Ranks
  <2>4. Tiles(r)[tile[r]].waits \subseteq Ranks
    BY <1>3, <2>2 DEF WellFormed, Tiles, Kernel, Ranks
  <2> QED
    BY <2>3, <2>4
<1>5. CASE q = r
  BY <1>1, <1>2, <1>5, OwnSegmentThere
<1>6. CASE q # r
  <2>1. ready[r][q] = 1
    BY <1>1, <1>4
  <2> QED
    BY <1>1, <1>2, <1>4, <1>6, <2>1, ReadyIsOfTheCall
<1> QED
  BY <1>5, <1>6

------------------------------------------------------------------------------
(* After, step by step.                                                    *)
AtRest(q) == pos[q] = 1 /\ part[q] = 0 /\ ~reading[q]

LEMMA AtRestAfter ==
    ASSUME NEW q \in Ranks, AtRest(q)'
    PROVE  After(q)'
<1>1. \A j \in Int : j >= 1 => j + 1 # 1
  OBVIOUS
<1> QED
  BY <1>1 DEF AtRest, After

LEMMA CTAsAtRest ==
    ASSUME Types, NEW q \in Ranks, NEW c \in CTAs, Running(q, c), After(q)
    PROVE  AtRest(q) /\ ~KernelEnded(q)
<1>1. Launched(q) /\ ip[q][c] \in 1 .. Len(Kernel(q).code) /\ Len(Kernel(q).code) \in Nat
  BY InstrFacts, CallFacts DEF Running
<1>2. ~KernelEnded(q)
  BY <1>1 DEF KernelEnded
<1> QED
  BY <1>1, <1>2 DEF AtRest, After

(* What a rank that stays in its call keeps.                               *)
LEMMA CallStands ==
    ASSUME NEW q \in Ranks, prog' = prog, call'[q] = call[q]
    PROVE  /\ Launched(q)' <=> Launched(q)
           /\ Kernel(q)' = Kernel(q) /\ Script(q)' = Script(q) /\ Tiles(q)' = Tiles(q)
           /\ Ranks' = Ranks /\ CTAs' = CTAs
           /\ ip'[q] = ip[q] => (KernelEnded(q)' <=> KernelEnded(q))
BY DEF Launched, Kernel, Script, Tiles, Ranks, CTAs, KernelEnded

LEMMA StreamStands ==
    ASSUME NEW q \in Ranks, prog' = prog, call'[q] = call[q], ip'[q] = ip[q], pos'[q] = pos[q]
    PROVE  /\ \A op : StreamAt(q, op)' <=> StreamAt(q, op)
           /\ StreamOp(q)' = StreamOp(q)
<1>1. /\ Launched(q)' <=> Launched(q)
      /\ Script(q)' = Script(q) /\ (KernelEnded(q)' <=> KernelEnded(q))
  BY CallStands
<1>2. \A op : StreamAt(q, op)' <=>
          /\ Launched(q)' /\ KernelEnded(q)'
          /\ pos'[q] <= Len(Script(q)') /\ Script(q)'[pos'[q]].op = op
  BY DEF StreamAt
<1>3. StreamOp(q)' = Script(q)'[pos'[q]]
  BY DEF StreamOp
<1> QED
  BY <1>1, <1>2, <1>3 DEF StreamAt, StreamOp

(* What is waited for is a segment of a rank.                              *)
LEMMA WaitsForRanks ==
    ASSUME Types, NEW q \in Ranks, Launched(q)
    PROVE  /\ \A i \in 1 .. Len(Tiles(q)) : Tiles(q)[i].waits \subseteq Ranks
           /\ \A j \in 1 .. Len(Script(q)) : Script(q)[j].op = "wait" => Script(q)[j].seg \in Ranks
<1>1. call[q] \in 1 .. Len(prog.calls) /\ \A j \in 1 .. Len(Script(q)) : IsStreamOp(prog, Script(q)[j])
  BY CallFacts
<1>2. \A i \in 1 .. Len(Tiles(q)) : Tiles(q)[i].waits \subseteq Ranks
  BY <1>1, ProgramFacts DEF Types, WellFormed, Tiles, Kernel, Ranks
<1>3. \A j \in 1 .. Len(Script(q)) : Script(q)[j].op = "wait" => Script(q)[j].seg \in Ranks
  BY <1>1 DEF IsStreamOp, Ranks
<1> QED
  BY <1>2, <1>3

(* A rank whose stream and GEMM stand, while its flags only come up.       *)
LEMMA AfterStands ==
    ASSUME Types, NEW q \in Ranks, After(q), prog' = prog, call'[q] = call[q], ip'[q] = ip[q],
           pos'[q] = pos[q], part'[q] = part[q], tile'[q] = tile[q], reading'[q] = reading[q],
           \A s \in Ranks : ready[q][s] = 1 => ready'[q][s] = 1
    PROVE  After(q)'
<1>1. /\ Launched(q)' <=> Launched(q)
      /\ Script(q)' = Script(q) /\ Tiles(q)' = Tiles(q) /\ (KernelEnded(q)' <=> KernelEnded(q))
      /\ StreamAt(q, "copy")' <=> StreamAt(q, "copy")
  BY CallStands, StreamStands
<1>2. ASSUME reading[q] PROVE \A s \in Tiles(q)[tile[q]].waits : ready'[q][s] = 1
  <2>1. Launched(q) /\ tile[q] <= Len(Tiles(q)) /\ \A s \in Tiles(q)[tile[q]].waits : ready[q][s] = 1
    BY <1>2 DEF After
  <2>2. tile[q] \in 1 .. Len(Tiles(q))
    BY <2>1, CounterFacts, CallFacts
  <2>3. Tiles(q)[tile[q]].waits \subseteq Ranks
    BY <2>1, <2>2, WaitsForRanks
  <2> QED
    BY <2>1, <2>3
<1>3. ASSUME Launched(q), NEW j \in 1 .. Len(Script(q)), pos[q] = j + 1, Script(q)[j].op = "wait"
      PROVE  ready'[q][Script(q)[j].seg] = 1
  <2>1. ready[q][Script(q)[j].seg] = 1
    BY <1>3 DEF After
  <2>2. Script(q)[j].seg \in Ranks
    BY <1>3, WaitsForRanks
  <2> QED
    BY <2>1, <2>2
<1> QED
  BY <1>1, <1>2, <1>3 DEF After

(* The steps of a kernel's CTAs.                                           *)
CTAStep(r, c) ==
    \/ PassBy(r, c) \/ Arrive(r, c) \/ Depart(r, c)
    \/ MoveData(r, c) \/ Await(r, c) \/ SetReady(r, c)
    \/ c = 0 /\ (SyncThreads(r) \/ ComeToSync(r) \/ GoFromSync(r) \/ Clear(r))
    \/ c = 0 /\ \E t \in Ranks : Store(r, t) \/ See(r, t)

LEMMA CTASteps ==
    ASSUME Types, NEW r \in Ranks, NEW c \in CTAs, CTAStep(r, c)
    PROVE  /\ Running(r, c) /\ prog' = prog /\ call' = call
           /\ UNCHANGED <<pos, part, tile, reading>>
           /\ ip' = ip \/ Goto(r, c)
           /\ \A q \in Ranks \ {r} : ip'[q] = ip[q] /\ ready'[q] = ready[q]
<1>1. CASE PassBy(r, c) \/ Arrive(r, c) \/ Depart(r, c)
  <2>1. /\ Running(r, c) /\ UNCHANGED <<prog, call, pos, part, tile, reading, ready>>
        /\ ip' = ip \/ Goto(r, c)
    BY <1>1 DEF PassBy, Arrive, Depart, At, host, after
  <2> QED
    BY <2>1 DEF Goto, Types, TypeOK
<1>2. CASE MoveData(r, c) \/ Await(r, c)
  <2>1. /\ Running(r, c) /\ UNCHANGED <<prog, call, pos, part, tile, reading, ready>>
        /\ Goto(r, c)
    BY <1>2 DEF MoveData, Await, At, host, after
  <2> QED
    BY <2>1 DEF Goto, Types, TypeOK
<1>3. CASE SetReady(r, c)
  <2>1. /\ Running(r, c) /\ UNCHANGED <<prog, call, pos, part, tile, reading>>
        /\ Goto(r, c)
    BY <1>3 DEF SetReady, At, host, after
  <2>2. \A q \in Ranks \ {r} : ready'[q] = ready[q]
    BY <1>3 DEF SetReady, Types, TypeOK
  <2> QED
    BY <2>1, <2>2 DEF Goto, Types, TypeOK
<1>4. CASE c = 0 /\ (SyncThreads(r) \/ ComeToSync(r) \/ GoFromSync(r) \/ Clear(r))
  <2>1. /\ Running(r, c) /\ UNCHANGED <<prog, call, pos, part, tile, reading, ready>>
        /\ ip' = ip \/ Goto(r, c)
    BY <1>4 DEF SyncThreads, ComeToSync, GoFromSync, Clear, At, host, after
  <2> QED
    BY <2>1 DEF Goto, Types, TypeOK
<1>5. CASE c = 0 /\ \E t \in Ranks : Store(r, t) \/ See(r, t)
  BY <1>5 DEF Store, See, At, host, after
<1> QED
  BY <1>1, <1>2, <1>3, <1>4, <1>5 DEF CTAStep

(* The steps of a stream and a GEMM.                                       *)
AfterStep(r) == \/ WaitReady(r) \/ CopyPart(r) \/ SetSignal(r) \/ CopyOut(r)
                \/ BeginTile(r) \/ EndTile(r)

LEMMA AfterSteps ==
    ASSUME Types, NEW r \in Ranks, AfterStep(r)
    PROVE  /\ UNCHANGED <<prog, call, ip, puts>>
           /\ \A q \in Ranks \ {r} : /\ pos'[q] = pos[q] /\ part'[q] = part[q]
                                     /\ tile'[q] = tile[q] /\ reading'[q] = reading[q]
           /\ \A q \in Ranks, s \in Ranks : ready[q][s] = 1 => ready'[q][s] = 1
<1>1. CASE WaitReady(r) \/ CopyOut(r)
  BY <1>1 DEF WaitReady, CopyOut, StreamOn, host, ctas, Types, TypeOK
<1>2. CASE CopyPart(r)
  <2>1. pos' = pos \/ StreamOn(r)
    BY <1>2 DEF CopyPart
  <2> QED
    BY <1>2, <2>1 DEF CopyPart, StreamOn, host, ctas, Types, TypeOK
<1>3. CASE SetSignal(r)
  <2>1. UNCHANGED <<prog, call, ip, puts, part, tile, reading>> /\ StreamOn(r)
    BY <1>3 DEF SetSignal, host, ctas
  <2>2. \A q \in Ranks, s \in Ranks : ready[q][s] = 1 => ready'[q][s] = 1
    BY <1>3 DEF SetSignal, Types, TypeOK
  <2> QED
    BY <2>1, <2>2 DEF StreamOn, Types, TypeOK
<1>4. CASE BeginTile(r) \/ EndTile(r)
  BY <1>4 DEF BeginTile, EndTile, host, ctas, Types, TypeOK
<1> QED
  BY <1>1, <1>2, <1>3, <1>4 DEF AfterStep

LEMMA LaunchSteps ==
    ASSUME Types, NEW r \in Ranks, Launch(r)
    PROVE  /\ UNCHANGED <<prog, ready, puts, part, reading>>
           /\ call'[r] = call[r] + 1 /\ pos'[r] = 1 /\ \A c \in CTAs : ip'[r][c] = 1
           /\ \A q \in Ranks \ {r} : /\ call'[q] = call[q] /\ ip'[q] = ip[q]
                                     /\ pos'[q] = pos[q] /\ tile'[q] = tile[q]
BY DEF Launch, Types, TypeOK

(* A stream goes on, with another copy or to the next stage.               *)
LEMMA StreamGoesOn ==
    ASSUME Types, NEW r \in Ranks,
           WaitReady(r) \/ CopyPart(r) \/ SetSignal(r) \/ CopyOut(r)
    PROVE  /\ Launched(r) /\ KernelEnded(r) /\ pos[r] \in 1 .. Len(Script(r))
           /\ tile' = tile /\ reading' = reading
           /\ WaitReady(r) => /\ StreamAt(r, "wait") /\ ready[r][StreamOp(r).seg] = 1
                              /\ ready' = ready
           /\ \/ /\ pos'[r] = pos[r] + 1 /\ part'[r] = (IF CopyPart(r) THEN 0 ELSE part[r])
                 /\ CopyPart(r) => part[r] = prog.ctas - 1
              \/ /\ CopyPart(r) /\ pos'[r] = pos[r] /\ part'[r] = part[r] + 1
                 /\ part[r] # prog.ctas - 1
<1>1. Launched(r) /\ KernelEnded(r) /\ pos[r] \in Nat \ {0} /\ pos[r] <= Len(Script(r))
  BY CounterFacts DEF WaitReady, CopyPart, SetSignal, CopyOut, StreamAt
<1>2. pos[r] \in 1 .. Len(Script(r))
  BY <1>1, CallFacts
<1>3. WaitReady(r) => /\ StreamAt(r, "wait") /\ ready[r][StreamOp(r).seg] = 1 /\ ready' = ready
  BY DEF WaitReady
<1>4. tile' = tile /\ reading' = reading
  BY DEF WaitReady, CopyPart, SetSignal, CopyOut, after
<1>5. CASE CopyPart(r)
  <2>1. part[r] \in 0 .. prog.ctas - 1 /\ prog.ctas \in Nat \ {0}
    BY CounterFacts, RanksAndCTAs DEF Types, CTAs, CTAsOf
  <2>2. /\ part[r] = prog.ctas - 1 => (part[r] + 1) % prog.ctas = 0
        /\ part[r] # prog.ctas - 1 => (part[r] + 1) % prog.ctas = part[r] + 1
    <3>1. prog.ctas % prog.ctas = 0
      BY <2>1
    <3>2. part[r] # prog.ctas - 1 => part[r] + 1 \in 0 .. prog.ctas - 1
      BY <2>1
    <3>3. part[r] # prog.ctas - 1 => (part[r] + 1) % prog.ctas = part[r] + 1
      BY <2>1, <3>2, ModOfSmall
    <3>4. part[r] = prog.ctas - 1 => part[r] + 1 = prog.ctas
      BY <2>1
    <3> QED
      BY <3>1, <3>3, <3>4
  <2>3. part'[r] = (part[r] + 1) % prog.ctas
    BY <1>5 DEF CopyPart, Types, TypeOK
  <2>4. pos'[r] = IF part[r] = prog.ctas - 1 THEN pos[r] + 1 ELSE pos[r]
    BY <1>5 DEF CopyPart, StreamOn, Types, TypeOK
  <2> QED
    BY <1>1, <1>2, <1>3, <1>4, <1>5, <2>2, <2>3, <2>4
<1>6. CASE ~CopyPart(r)
  <2>1. StreamOn(r) /\ part' = part
    BY <1>6 DEF WaitReady, SetSignal, CopyOut, after
  <2>2. pos'[r] = pos[r] + 1
    BY <2>1 DEF StreamOn, Types, TypeOK
  <2> QED
    BY <1>1, <1>2, <1>3, <1>4, <1>6, <2>1, <2>2
<1> QED
  BY <1>5, <1>6

LEMMA StreamAfter ==
    ASSUME Types, NEW r \in Ranks, After(r),
           WaitReady(r) \/ CopyPart(r) \/ SetSignal(r) \/ CopyOut(r)
    PROVE  After(r)'
<1>1. /\ UNCHANGED <<prog, call, ip>>
      /\ \A s \in Ranks : ready[r][s] = 1 => ready'[r][s] = 1
  BY AfterSteps DEF AfterStep
<1>2. /\ Launched(r) /\ KernelEnded(r) /\ pos[r] \in 1 .. Len(Script(r))
      /\ tile' = tile /\ reading' = reading
  BY StreamGoesOn
<1>3. /\ Launched(r)' /\ KernelEnded(r)' /\ Script(r)' = Script(r) /\ Tiles(r)' = Tiles(r)
  BY <1>1, <1>2, CallStands
<1>4. CASE CopyPart(r) /\ pos'[r] = pos[r]
  <2>1. StreamAt(r, "copy")'
    <3>1. StreamAt(r, "copy")
      BY <1>4 DEF CopyPart
    <3> QED
      BY <1>1, <1>4, <3>1, StreamStands
  <2>2. \A j \in 1 .. Len(Script(r)) : pos'[r] = j + 1 /\ Script(r)[j].op = "wait"
                                          => ready'[r][Script(r)[j].seg] = 1
    BY <1>1, <1>2, <1>4, WaitsForRanks DEF After
  <2>3. reading[r] => /\ tile[r] <= Len(Tiles(r))
                      /\ \A s \in Tiles(r)[tile[r]].waits : ready'[r][s] = 1
    <3> SUFFICES ASSUME reading[r]
                 PROVE  /\ tile[r] <= Len(Tiles(r))
                        /\ \A s \in Tiles(r)[tile[r]].waits : ready'[r][s] = 1
      OBVIOUS
    <3>1. tile[r] <= Len(Tiles(r)) /\ \A s \in Tiles(r)[tile[r]].waits : ready[r][s] = 1
      BY DEF After
    <3>2. tile[r] \in 1 .. Len(Tiles(r))
      BY <1>2, <3>1, CounterFacts, CallFacts
    <3> QED
      BY <1>1, <1>2, <3>1, <3>2, WaitsForRanks
  <2> QED
    BY <1>2, <1>3, <2>1, <2>2, <2>3 DEF After
<1>5. CASE pos'[r] = pos[r] + 1 /\ part'[r] = (IF CopyPart(r) THEN 0 ELSE part[r])
  <2>1. part'[r] = 0
    <3> SUFFICES ASSUME ~CopyPart(r), part[r] # 0 PROVE FALSE
      BY <1>5
    <3>1. StreamAt(r, "copy")
      BY DEF After
    <3> QED
      BY <3>1 DEF WaitReady, SetSignal, CopyOut, StreamAt
  <2>2. ASSUME NEW j \in 1 .. Len(Script(r)), pos'[r] = j + 1, Script(r)[j].op = "wait"
        PROVE  ready'[r][Script(r)[j].seg] = 1
    <3>1. j = pos[r]
      BY <1>2, <1>5, <2>2
    <3>2. WaitReady(r)
      BY <2>2, <3>1 DEF CopyPart, SetSignal, CopyOut, StreamAt
    <3>3. ready[r][StreamOp(r).seg] = 1 /\ ready' = ready
      BY <3>2, StreamGoesOn
    <3> QED
      BY <3>1, <3>3 DEF StreamOp
  <2>3. reading[r] => /\ tile[r] <= Len(Tiles(r))
                      /\ \A s \in Tiles(r)[tile[r]].waits : ready'[r][s] = 1
    <3> SUFFICES ASSUME reading[r]
                 PROVE  /\ tile[r] <= Len(Tiles(r))
                        /\ \A s \in Tiles(r)[tile[r]].waits : ready'[r][s] = 1
      OBVIOUS
    <3>1. tile[r] <= Len(Tiles(r)) /\ \A s \in Tiles(r)[tile[r]].waits : ready[r][s] = 1
      BY DEF After
    <3>2. tile[r] \in 1 .. Len(Tiles(r))
      BY <1>2, <3>1, CounterFacts, CallFacts
    <3> QED
      BY <1>1, <1>2, <3>1, <3>2, WaitsForRanks
  <2> QED
    BY <1>2, <1>3, <2>1, <2>2, <2>3 DEF After
<1> QED
  BY <1>4, <1>5, StreamGoesOn

LEMMA TileAfter ==
    ASSUME Types, NEW r \in Ranks, After(r), BeginTile(r) \/ EndTile(r)
    PROVE  After(r)'
<1>1. UNCHANGED <<prog, call, ip, pos, part, ready>>
  BY DEF BeginTile, EndTile, host, ctas
<1>2. /\ Launched(r)' <=> Launched(r)
      /\ Script(r)' = Script(r) /\ Tiles(r)' = Tiles(r) /\ (KernelEnded(r)' <=> KernelEnded(r))
      /\ StreamAt(r, "copy")' <=> StreamAt(r, "copy")
  BY <1>1, CallStands, StreamStands
<1>3. Launched(r) /\ KernelEnded(r)
  BY DEF BeginTile, EndTile, After
<1>4. reading'[r] => /\ tile'[r] <= Len(Tiles(r))
                     /\ \A s \in Tiles(r)[tile'[r]].waits : ready[r][s] = 1
  BY DEF BeginTile, EndTile, Types, TypeOK
<1> QED
  BY <1>1, <1>2, <1>3, <1>4 DEF After

LEMMA LaunchAfter ==
    ASSUME Types, NEW r \in Ranks, After(r), Launch(r)
    PROVE  AtRest(r)' /\ After(r)'
<1>1. Finished(r)
  BY DEF Launch
<1>2. part[r] = 0 /\ ~reading[r]
  <2>1. CASE ~Launched(r)
    BY <2>1 DEF After
  <2>2. CASE Launched(r)
    <3>1. pos[r] > Len(Script(r)) /\ tile[r] > Len(Tiles(r))
      BY <1>1, <2>2 DEF Finished
    <3>2. pos[r] \in Nat /\ tile[r] \in Nat /\ Len(Script(r)) \in Nat /\ Len(Tiles(r)) \in Nat
      BY <2>2, CounterFacts, CallFacts
    <3>3. ~(pos[r] <= Len(Script(r))) /\ ~(tile[r] <= Len(Tiles(r)))
      BY <3>1, <3>2
    <3> QED
      BY <3>3 DEF After, StreamAt
  <2> QED
    BY <2>1, <2>2
<1>3. AtRest(r)'
  BY <1>2, LaunchSteps DEF AtRest
<1> QED
  BY <1>3, AtRestAfter

LEMMA AfterKept ==
    ASSUME Types, [Next]_vars, NEW q \in Ranks, After(q)
    PROVE  After(q)'
<1>1. ASSUME NEW r \in Ranks, NEW c \in CTAs, CTAStep(r, c) PROVE After(q)'
  <2>1. CASE r = q
    <3>1. AtRest(q)
      BY <1>1, <2>1, CTASteps, CTAsAtRest
    <3>2. AtRest(q)'
      BY <1>1, <3>1, CTASteps DEF AtRest
    <3> QED
      BY <3>2, AtRestAfter
  <2>2. CASE r # q
    <3>1. /\ UNCHANGED <<prog, call, pos, part, tile, reading>>
          /\ ip'[q] = ip[q] /\ ready'[q] = ready[q]
      BY <1>1, <2>2, CTASteps
    <3> QED
      BY <3>1, AfterStands
  <2> QED
    BY <2>1, <2>2
<1>2. ASSUME NEW r \in Ranks, AfterStep(r) PROVE After(q)'
  <2>1. CASE r = q
    BY <1>2, <2>1, StreamAfter, TileAfter DEF AfterStep
  <2>2. CASE r # q
    BY <1>2, <2>2, AfterSteps, AfterStands
  <2> QED
    BY <2>1, <2>2
<1>3. ASSUME NEW r \in Ranks, Launch(r) PROVE After(q)'
  <2>1. CASE r = q
    BY <1>3, <2>1, LaunchAfter
  <2>2. CASE r # q
    <3>1. /\ UNCHANGED <<prog, ready, part, reading>>
          /\ call'[q] = call[q] /\ ip'[q] = ip[q] /\ pos'[q] = pos[q] /\ tile'[q] = tile[q]
      BY <1>3, <2>2, LaunchSteps
    <3> QED
      BY <3>1, AfterStands
  <2> QED
    BY <2>1, <2>2
<1>4. ASSUME NEW p \in puts, Deliver(p) PROVE After(q)'
  <2>1. UNCHANGED <<prog, call, ip, pos, part, tile, reading, ready>>
    BY <1>4 DEF Deliver, host, ctas, after
  <2> QED
    BY <2>1, AfterStands
<1>5. ASSUME UNCHANGED vars PROVE After(q)'
  <2>1. UNCHANGED <<prog, call, ip, pos, part, tile, reading, ready>>
    BY <1>5 DEF vars, host, ctas, after
  <2> QED
    BY <2>1, AfterStands
<1>6. 0 \in CTAs
  BY RanksAndCTAs DEF Types
<1> QED
  BY <1>1, <1>2, <1>3, <1>4, <1>5, <1>6 DEF Next, CTAStep, AfterStep

------------------------------------------------------------------------------
(* What a step leaves of Segments.  A CTA stays, or goes on from an        *)
(* instruction of another kind.                                            *)
KeepsClear(d, c, op) ==
    \/ ip'[d][c] = ip[d][c]
    \/ /\ ip'[d][c] = ip[d][c] + 1
       /\ Running(d, c) /\ Instr(d, c).op # op

LEMMA MarksStand ==
    ASSUME Types, NEW d \in Ranks, NEW c \in CTAs, NEW op, prog' = prog, call'[d] = call[d],
           KeepsClear(d, c, op)
    PROVE  /\ PastAny(d, c, op)' => PastAny(d, c, op)
           /\ BeforeAll(d, c, op)' <=> BeforeAll(d, c, op)
<1>1. Kernel(d)' = Kernel(d)
  BY CallStands
<1>2. ip[d][c] \in Nat
  BY CounterFacts
<1>3. ASSUME NEW i \in 1 .. Len(Kernel(d).code), Kernel(d).code[i].op = op
      PROVE  i < ip'[d][c] <=> i < ip[d][c]
  <2>1. CASE ip'[d][c] = ip[d][c]
    BY <2>1
  <2>2. CASE ip'[d][c] = ip[d][c] + 1 /\ Running(d, c) /\ Instr(d, c).op # op
    <3>1. i # ip[d][c]
      BY <1>3, <2>2 DEF Instr
    <3> QED
      BY <1>2, <2>2, <3>1
  <2> QED
    BY <2>1, <2>2 DEF KeepsClear
<1>4. PastAny(d, c, op)' => PastAny(d, c, op)
  BY <1>1, <1>3 DEF PastAny
<1>5. ip'[d][c] \in Nat
  BY <1>2 DEF KeepsClear
<1>6. \A i \in 1 .. Len(Kernel(d).code) :
          Kernel(d).code[i].op = op => (ip'[d][c] <= i <=> ip[d][c] <= i)
  BY <1>2, <1>3, <1>5
<1> QED
  BY <1>1, <1>4, <1>6 DEF BeforeAll

LEMMA OwnFreshStands ==
    ASSUME Types, NEW d \in Ranks, NEW c \in CTAs, OwnFresh(d, c), prog' = prog,
           call'[d] = call[d], KeepsClear(d, c, "copy"), data'[d][d][c] = data[d][d][c]
    PROVE  OwnFresh(d, c)'
<1>1. Kernel(d)' = Kernel(d)
  BY CallStands
<1>2. \A k \in 1 .. Len(prog.calls) : Holds(d, c, k)' => Holds(d, c, k)
  BY <1>1, MarksStand DEF Holds
<1> QED
  BY <1>2 DEF OwnFresh, Input

LEMMA NotResetStands ==
    ASSUME Types, NEW d \in Ranks, prog' = prog, call'[d] = call[d],
           \A c \in CTAs : KeepsClear(d, c, "set_ready")
    PROVE  \A k \in 1 .. Len(prog.calls) : NotReset(d, k) => NotReset(d, k)'
<1>1. \A c \in CTAs : BeforeAll(d, c, "set_ready")' <=> BeforeAll(d, c, "set_ready")
  BY MarksStand
<1>2. CTAs' = CTAs
  BY DEF CTAs
<1> QED
  BY <1>1, <1>2 DEF NotReset

LEMMA ReadyFreshStands ==
    ASSUME Types, NEW d \in Ranks, NEW seg \in Ranks, ReadyFresh(d, seg), prog' = prog,
           ready'[d][seg] = 1 => ready[d][seg] = 1,
           seg # d /\ ready[d][seg] = 1 => \A c \in CTAs : data'[d][seg][c] = data[d][seg][c],
           \A k \in 1 .. Len(prog.calls) : NotReset(d, k) => NotReset(d, k)',
           \A w \in Ranks : \/ call'[w] = call[w] /\ pos'[w] \in {pos[w], pos[w] + 1}
                            \/ call'[w] = call[w] + 1
    PROVE  ReadyFresh(d, seg)'
<1> SUFFICES ASSUME seg # d, ready'[d][seg] = 1
             PROVE  \E k \in 1 .. Len(prog.calls), w \in Ranks : \E j \in Nat :
                        /\ Signals(w, k, j, seg, d) /\ Signalled(w, k, j)' /\ NotReset(d, k)'
                        /\ \A c \in CTAs : data'[d][seg][c] = Input(k)
  BY DEF ReadyFresh, Signals, Ranks, CTAs, Input
<1>1. PICK k \in 1 .. Len(prog.calls), w \in Ranks : \E j \in Nat :
          /\ Signals(w, k, j, seg, d) /\ Signalled(w, k, j) /\ NotReset(d, k)
          /\ \A c \in CTAs : data[d][seg][c] = Input(k)
  BY DEF ReadyFresh
<1>2. PICK j \in Nat :
          /\ Signals(w, k, j, seg, d) /\ Signalled(w, k, j) /\ NotReset(d, k)
          /\ \A c \in CTAs : data[d][seg][c] = Input(k)
  BY <1>1
<1>3. Signalled(w, k, j)'
  <2>1. call[w] \in Nat /\ pos[w] \in Nat /\ k \in Nat
    BY CounterFacts
  <2>2. call[w] > k \/ (call[w] = k /\ pos[w] > j)
    BY <1>2 DEF Signalled
  <2>3. \/ call'[w] = call[w] /\ pos'[w] \in {pos[w], pos[w] + 1}
        \/ call'[w] = call[w] + 1
    OBVIOUS
  <2>4. call'[w] > k \/ (call'[w] = k /\ pos'[w] > j)
    BY <2>1, <2>2, <2>3
  <2> QED
    BY <2>4 DEF Signalled
<1>4. \A c \in CTAs : data'[d][seg][c] = Input(k)
  BY <1>2
<1> QED
  BY <1>2, <1>3, <1>4

LEMMA CopiedStands ==
    ASSUME Types, NEW q \in Ranks, CopiedSoFar(q), prog' = prog, call'[q] = call[q],
           ip'[q] = ip[q], pos'[q] = pos[q], part'[q] = part[q],
           StreamAt(q, "copy") \/ StreamAt(q, "signal") =>
               \A c \in CTAs : data'[StreamOp(q).dst][StreamOp(q).seg][c]
                                   = data[StreamOp(q).dst][StreamOp(q).seg][c]
    PROVE  CopiedSoFar(q)'
<1>1. /\ \A op : StreamAt(q, op)' <=> StreamAt(q, op)
      /\ StreamOp(q)' = StreamOp(q) /\ CTAs' = CTAs
  BY StreamStands, CallStands
<1>2. CopiedSoFar(q)' <=>
        /\ StreamAt(q, "copy")' => \A c \in CTAs : c < part[q] =>
               data'[StreamOp(q)'.dst][StreamOp(q)'.seg][c] = Input(call[q])
        /\ StreamAt(q, "signal")' => \A c \in CTAs :
               data'[StreamOp(q)'.dst][StreamOp(q)'.seg][c] = Input(call[q])
  BY <1>1 DEF CopiedSoFar, Input
<1> QED
  BY <1>1, <1>2 DEF CopiedSoFar

LEMMA SignalsAfterCopies ==
    ASSUME prog \in Programs, Gathers(prog), NEW k \in 1 .. Len(prog.calls), NEW q \in Ranks
    PROVE  \A i \in 1 .. Len(prog.calls[k].script[q]) :
               prog.calls[k].script[q][i].op = "signal"
                   => i > 1 /\ prog.calls[k].script[q][i - 1].op = "copy"
<1>1. StagesInOrder(prog, prog.calls[k])
  BY GatherFacts
<1> DEFINE S == prog.calls[k].script[q]
<1>2. \A i \in 1 .. Len(S) :
          S[i].op = "signal" => i > 1 /\ S[i - 1].op = "copy" /\ SameSegment(S[i - 1], S[i])
  BY <1>1 DEF StagesInOrder, Ranks
<1> QED
  BY <1>2

(* A stream that has come to a stage otherwise than by copying.            *)
LEMMA NothingCopied ==
    ASSUME Types, Types', Gathers(prog), NEW q \in Ranks, prog' = prog, part'[q] = 0,
           \/ pos'[q] = 1
           \/ /\ call'[q] = call[q] /\ pos'[q] = pos[q] + 1
              /\ pos[q] \in 1 .. Len(Script(q)) /\ StreamOp(q).op # "copy"
    PROVE  CopiedSoFar(q)'
<1>1. CTAs' = CTAs /\ \A c \in CTAs : ~(c < 0)
  BY RanksAndCTAs DEF Types, CTAs, CTAsOf
<1>2. ~StreamAt(q, "signal")'
  <2> SUFFICES ASSUME StreamAt(q, "signal")' PROVE FALSE
    OBVIOUS
  <2> DEFINE S == prog.calls[call'[q]].script[q]
             j == pos'[q]
  <2>1. call'[q] \in 1 .. Len(prog.calls)
    <3>1. call'[q] > 0
      BY DEF StreamAt, Launched
    <3>2. call'[q] \in 0 .. Len(prog.calls) /\ Len(prog.calls) \in Nat
      <4>1. call' \in [Ranks -> 0 .. Len(prog.calls)]
        <5>1. call' \in [Ranks' -> 0 .. Len(prog'.calls)]
          BY DEF Types, TypeOK
        <5>2. Ranks' = Ranks
          BY DEF Ranks
        <5> QED
          BY <5>1, <5>2
      <4>2. Len(prog.calls) \in Nat
        BY RanksAndCTAs DEF Types
      <4> QED
        BY <4>1, <4>2
    <3> QED
      BY <3>1, <3>2
  <2>2. StagesInOrder(prog, prog.calls[call'[q]]) /\ Len(S) \in Nat
    BY <2>1, GatherFacts DEF Types
  <2>3. S = Script(q)'
    BY DEF Script, Kernel
  <2>4. j <= Len(S) /\ S[j].op = "signal"
    BY <2>3 DEF StreamAt
  <2>5. j \in 1 .. Len(S)
    <3>1. pos[q] \in Nat \ {0}
      BY CounterFacts
    <3> QED
      BY <2>2, <2>4, <3>1
  <2>6. j > 1 /\ S[j - 1].op = "copy"
    <3>1. \A i \in 1 .. Len(S) : S[i].op = "signal" => i > 1 /\ S[i - 1].op = "copy"
      BY <2>1, SignalsAfterCopies DEF Types
    <3> HIDE DEF S, j
    <3> QED
      BY <2>4, <2>5, <3>1
  <2>7. call'[q] = call[q] /\ j = pos[q] + 1 /\ StreamOp(q).op # "copy"
    BY <2>6
  <2>8. S = Script(q)
    BY <2>7 DEF Script, Kernel
  <2>9. pos[q] \in Nat
    BY CounterFacts
  <2>10. j - 1 = pos[q]
    BY <2>7, <2>9
  <2> QED
    BY <2>6, <2>7, <2>8, <2>10 DEF StreamOp
<1> QED
  BY <1>1, <1>2 DEF CopiedSoFar

------------------------------------------------------------------------------
(* The steps of the CTAs.                                                  *)

LEMMA OneWritten ==
    ASSUME Types, NEW q \in Ranks, NEW s \in Slots, NEW c \in CTAs, NEW v
    PROVE  \A d \in Ranks, t \in Slots, e \in CTAs :
               Written({Cell(q, s, c, v)})[d][t][e]
                   = IF d = q /\ t = s /\ e = c THEN v ELSE data[d][t][e]
<1> SUFFICES ASSUME NEW d \in Ranks, NEW t \in Slots, NEW e \in CTAs
             PROVE  Written({Cell(q, s, c, v)})[d][t][e]
                        = IF d = q /\ t = s /\ e = c THEN v ELSE data[d][t][e]
  OBVIOUS
<1> DEFINE W == {Cell(q, s, c, v)}
<1>1. W # {} /\ \A w \in W : w.rank = q /\ w.slot = s /\ w.part = c /\ w.value = v
  BY DEF Cell
<1>2. Written(W)[d][t][e] =
          IF \E w \in W : w.rank = d /\ w.slot = t /\ w.part = e
          THEN (CHOOSE w \in W : w.rank = d /\ w.slot = t /\ w.part = e).value
          ELSE data[d][t][e]
  BY <1>1 DEF Written
<1>3. CASE d = q /\ t = s /\ e = c
  <2>1. \E w \in W : w.rank = d /\ w.slot = t /\ w.part = e
    BY <1>1, <1>3
  <2>2. (CHOOSE w \in W : w.rank = d /\ w.slot = t /\ w.part = e) \in W
    BY <2>1
  <2>3. (CHOOSE w \in W : w.rank = d /\ w.slot = t /\ w.part = e).value = v
    BY <1>1, <2>2
  <2> HIDE DEF W
  <2>4. Written(W)[d][t][e] = v
    BY <1>2, <2>1, <2>3
  <2> QED
    BY <1>3, <2>4 DEF W
<1>4. CASE ~(d = q /\ t = s /\ e = c)
  <2>1. ~\E w \in W : w.rank = d /\ w.slot = t /\ w.part = e
    BY <1>1, <1>4
  <2> QED
    BY <1>2, <1>4, <2>1
<1> QED
  BY <1>3, <1>4

LEMMA RanksAreSlots ==
    ASSUME Types
    PROVE  Ranks \subseteq Slots
BY RanksAndCTAs DEF Types, Ranks, RanksOf, Slots

(* A kernel of the all-gather moves nothing but its own segment.           *)
LEMMA MoveIsCopy ==
    ASSUME Types, Gathers(prog), NEW r \in Ranks, NEW c \in CTAs, MoveData(r, c)
    PROVE  /\ At(r, c, "copy") /\ puts' = puts
           /\ \A d \in Ranks, s \in Ranks, e \in CTAs :
                  data'[d][s][e] = IF d = r /\ s = r /\ e = c THEN Input(call[r]) ELSE data[d][s][e]
<1>1. Running(r, c) /\ Instr(r, c).op \in DataOps
  BY DEF MoveData
<1>2. call[r] \in 1 .. Len(prog.calls) /\ ip[r][c] \in 1 .. Len(Kernel(r).code)
  BY <1>1, InstrFacts
<1>3. Fenced(Kernel(r))
  BY <1>2, GatherFacts DEF Types, Kernel
<1>4. Instr(r, c).op = "copy"
  BY <1>1, <1>2, <1>3 DEF Fenced, Instr
<1>5. Puts(prog, call[r], r, c, "copy") = {} /\ Writes(prog, call[r], r, c, "copy") = {Cell(r, r, c, Input(call[r]))}
  BY DEF Puts, Writes
<1>6. puts' = puts /\ data' = Written({Cell(r, r, c, Input(call[r]))})
  BY <1>4, <1>5 DEF MoveData
<1> QED
  BY <1>1, <1>4, <1>6, OneWritten, RanksAreSlots DEF At

LEMMA CTASegments ==
    ASSUME Types, Gathers(prog), puts = {}, NEW r \in Ranks, NEW c \in CTAs, CTAStep(r, c)
    PROVE  /\ puts' = {}
           /\ \/ data' = data
              \/ MoveData(r, c)
           /\ \/ ready' = ready
              \/ SetReady(r, c)
           /\ \A d \in Ranks, e \in CTAs :
                 \/ ip'[d][e] = ip[d][e]
                 \/ d = r /\ e = c /\ ip'[d][e] = ip[d][e] + 1
           /\ ip' # ip /\ Instr(r, c).op = "copy" => MoveData(r, c)
           /\ ip' # ip /\ Instr(r, c).op = "set_ready" => SetReady(r, c)
<1>1. \A d \in Ranks, e \in CTAs : \/ ip'[d][e] = ip[d][e]
                                   \/ d = r /\ e = c /\ ip'[d][e] = ip[d][e] + 1
  <2>1. ip' = ip \/ ip' = [ip EXCEPT ![r][c] = @ + 1]
    BY CTASteps DEF Goto
  <2>2. ip \in [Ranks -> [CTAs -> Nat \ {0}]]
    BY DEF Types, TypeOK
  <2> QED
    BY <2>1, <2>2
<1>2. CASE PassBy(r, c) \/ Arrive(r, c) \/ Depart(r, c) \/ Await(r, c)
  BY <1>1, <1>2 DEF PassBy, Arrive, Depart, Await, At, MasterOps
<1>3. CASE MoveData(r, c)
  BY <1>1, <1>3, MoveIsCopy DEF MoveData, At
<1>4. CASE SetReady(r, c)
  BY <1>1, <1>4 DEF SetReady, At
<1>5. CASE c = 0 /\ (SyncThreads(r) \/ ComeToSync(r) \/ GoFromSync(r) \/ Clear(r))
  BY <1>1, <1>5 DEF SyncThreads, ComeToSync, GoFromSync, Clear, At
<1>6. CASE c = 0 /\ \E t \in Ranks : Store(r, t) \/ See(r, t)
  BY <1>1, <1>6 DEF Store, See
<1> QED
  BY <1>2, <1>3, <1>4, <1>5, <1>6 DEF CTAStep

LEMMA CTAKeepsOwn ==
    ASSUME Types, Gathers(prog), puts = {}, NEW r \in Ranks, NEW c \in CTAs, CTAStep(r, c),
           NEW d \in Ranks, NEW e \in CTAs, OwnFresh(d, e)
    PROVE  OwnFresh(d, e)'
<1>1. prog' = prog /\ call' = call /\ Running(r, c)
  BY CTASteps
<1>2. CASE MoveData(r, c) /\ d = r /\ e = c
  <2>1. At(r, c, "copy") /\ data'[r][r][c] = Input(call[r])
    BY <1>2, MoveIsCopy
  <2>2. ip'[r][c] = ip[r][c] + 1 /\ ip[r][c] \in Nat
    BY <1>2, CounterFacts DEF MoveData, Goto, Types, TypeOK
  <2>3. ~BeforeAll(r, c, "copy")'
    <3>1. ip[r][c] \in 1 .. Len(Kernel(r).code) /\ Kernel(r).code[ip[r][c]].op = "copy"
      BY <1>1, <2>1, InstrFacts DEF At, Instr
    <3>2. Kernel(r)' = Kernel(r)
      BY <1>1, CallStands
    <3> QED
      BY <2>2, <3>1, <3>2 DEF BeforeAll
  <2>4. \A k \in 1 .. Len(prog.calls) : Holds(r, c, k)' => call[r] = k
    BY <1>1, <2>3 DEF Holds
  <2> QED
    BY <1>1, <1>2, <2>1, <2>4 DEF OwnFresh, Input
<1>3. CASE ~(MoveData(r, c) /\ d = r /\ e = c)
  <2>1. KeepsClear(d, e, "copy")
    BY <1>1, <1>3, CTASegments DEF KeepsClear
  <2>2. data'[d][d][e] = data[d][d][e]
    BY <1>3, CTASegments, MoveIsCopy
  <2> QED
    BY <1>1, <2>1, <2>2, OwnFreshStands
<1> QED
  BY <1>2, <1>3

LEMMA CTAKeepsReady ==
    ASSUME Types, Gathers(prog), puts = {}, NEW r \in Ranks, NEW c \in CTAs, CTAStep(r, c),
           NEW d \in Ranks, NEW seg \in Ranks, ReadyFresh(d, seg)
    PROVE  ReadyFresh(d, seg)'
<1>1. prog' = prog /\ call' = call /\ pos' = pos /\ Running(r, c)
  BY CTASteps
<1>2. CASE SetReady(r, c) /\ d = r
  <2>1. seg # d => ready'[d][seg] = 0
    BY <1>2 DEF SetReady, Types, TypeOK
  <2> QED
    BY <2>1 DEF ReadyFresh
<1>3. CASE ~(SetReady(r, c) /\ d = r)
  <2>1. \A e \in CTAs : KeepsClear(d, e, "set_ready")
    BY <1>1, <1>3, CTASegments DEF KeepsClear
  <2>2. ready'[d][seg] = ready[d][seg]
    BY <1>3, CTASegments, CTASteps
  <2>3. seg # d => \A e \in CTAs : data'[d][seg][e] = data[d][seg][e]
    BY CTASegments, MoveIsCopy
  <2>4. \A k \in 1 .. Len(prog.calls) : NotReset(d, k) => NotReset(d, k)'
    BY <1>1, <2>1, NotResetStands
  <2>5. \A w \in Ranks : call'[w] = call[w] /\ pos'[w] \in {pos[w], pos[w] + 1}
    BY <1>1
  <2> QED
    BY <1>1, <2>2, <2>3, <2>4, <2>5, ReadyFreshStands
<1> QED
  BY <1>2, <1>3

LEMMA CTAKeepsCopied ==
    ASSUME Types, Types', Gathers(prog), puts = {}, NEW r \in Ranks, NEW c \in CTAs, CTAStep(r, c),
           NEW q \in Ranks, CopiedSoFar(q), After(q)
    PROVE  CopiedSoFar(q)'
<1>1. /\ UNCHANGED <<prog, call, pos, part>> /\ Running(r, c)
      /\ q # r => ip'[q] = ip[q]
  BY CTASteps
<1>2. CASE q = r
  <2>1. pos'[q] = 1 /\ part'[q] = 0
    BY <1>1, <1>2, CTAsAtRest DEF AtRest
  <2> QED
    BY <1>1, <2>1, NothingCopied
<1>3. CASE q # r
  <2>1. ASSUME StreamAt(q, "copy") \/ StreamAt(q, "signal"), NEW e \in CTAs
        PROVE  data'[StreamOp(q).dst][StreamOp(q).seg][e] = data[StreamOp(q).dst][StreamOp(q).seg][e]
    <3>1. StreamOp(q).dst \in Ranks /\ StreamOp(q).seg \in Ranks /\ StreamOp(q).seg # StreamOp(q).dst
      BY <2>1, StageFacts DEF StreamOp
    <3> QED
      BY <3>1, CTASegments, MoveIsCopy
  <2> QED
    BY <1>1, <1>3, <2>1, CopiedStands
<1> QED
  BY <1>2, <1>3

------------------------------------------------------------------------------
(* The next call.                                                          *)

LEMMA LaunchFills ==
    ASSUME Types, Gathers(prog), NEW r \in Ranks, Launch(r)
    PROVE  /\ call[r] + 1 \in 1 .. Len(prog.calls) /\ call[r] \in Nat
           /\ \A d \in Ranks, s \in Ranks, e \in CTAs :
                 /\ d # r \/ s # r => data'[d][s][e] = data[d][s][e]
                 /\ data'[d][s][e] = IF d = r /\ s = r /\ Kernel(r)'.memcpy = "own"
                                     THEN Input(call[r] + 1) ELSE data[d][s][e]
<1> DEFINE K == prog.calls[call[r] + 1]
           W == {Cell(r, s, c, Input(call[r] + 1)) : s \in Filled(prog, r, K.memcpy), c \in CTAs}
<1>1. call[r] + 1 \in 1 .. Len(prog.calls) /\ call[r] \in Nat
  BY CounterFacts DEF Launch
<1>2. OwnSegmentFilled(K, call[r] + 1)
  BY <1>1, GatherFacts DEF Types
<1>3. K.memcpy \in {"none", "own"}
  BY <1>2 DEF OwnSegmentFilled
<1>4. Kernel(r)' = K
  BY LaunchSteps DEF Kernel
<1>5. data' = Written(W)
  BY DEF Launch
<1>6. Ranks \subseteq Slots
  BY RanksAreSlots
<1>7. CASE K.memcpy = "none"
  <2>1. W = {}
    BY <1>7 DEF Filled
  <2>2. data' = data
    BY <1>5, <2>1 DEF Written
  <2> HIDE DEF K, W
  <2> QED
    BY <1>1, <1>4, <1>7, <2>2
<1>8. CASE K.memcpy = "own"
  <2>1. W = {Cell(r, r, c, Input(call[r] + 1)) : c \in CTAs}
    BY <1>8 DEF Filled
  <2> HIDE DEF K, W
  <2>2. \A w \in W : w.rank = r /\ w.slot = r /\ w.value = Input(call[r] + 1)
    BY <2>1 DEF Cell
  <2>3. \A c \in CTAs : \E w \in W : w.rank = r /\ w.slot = r /\ w.part = c
    <3> SUFFICES ASSUME NEW c \in CTAs
                 PROVE  \E w \in W : w.rank = r /\ w.slot = r /\ w.part = c
      OBVIOUS
    <3>1. Cell(r, r, c, Input(call[r] + 1)) \in W
      BY <2>1
    <3> QED
      BY <3>1 DEF Cell
  <2>4. ASSUME NEW d \in Ranks, NEW s \in Ranks, NEW e \in CTAs
        PROVE  data'[d][s][e] = IF d = r /\ s = r THEN Input(call[r] + 1) ELSE data[d][s][e]
    <3>1. data'[d][s][e] =
              IF \E w \in W : w.rank = d /\ w.slot = s /\ w.part = e
              THEN (CHOOSE w \in W : w.rank = d /\ w.slot = s /\ w.part = e).value
              ELSE data[d][s][e]
      <4>1. W # {}
        BY <2>3, <2>4
      <4> QED
        BY <1>5, <1>6, <2>4, <4>1 DEF Written
    <3>2. CASE d = r /\ s = r
      <4>1. \E w \in W : w.rank = d /\ w.slot = s /\ w.part = e
        BY <2>3, <2>4, <3>2
      <4>2. (CHOOSE w \in W : w.rank = d /\ w.slot = s /\ w.part = e) \in W
        BY <4>1
      <4>3. (CHOOSE w \in W : w.rank = d /\ w.slot = s /\ w.part = e).value = Input(call[r] + 1)
        BY <2>2, <4>2
      <4> QED
        BY <3>1, <3>2, <4>1, <4>3
    <3>3. CASE ~(d = r /\ s = r)
      BY <2>2, <3>1, <3>3
    <3> QED
      BY <3>2, <3>3
  <2> QED
    BY <1>1, <1>4, <1>8, <2>4
<1> QED
  BY <1>3, <1>7, <1>8

LEMMA LaunchKeepsOwn ==
    ASSUME Types, Gathers(prog), NEW r \in Ranks, Launch(r),
           NEW d \in Ranks, NEW e \in CTAs, OwnFresh(d, e)
    PROVE  OwnFresh(d, e)'
<1>1. CASE d # r
  <2>1. prog' = prog /\ call'[d] = call[d] /\ KeepsClear(d, e, "copy")
    BY <1>1, LaunchSteps DEF KeepsClear
  <2>2. data'[d][d][e] = data[d][d][e]
    BY <1>1, LaunchFills
  <2> QED
    BY <2>1, <2>2, OwnFreshStands
<1>2. CASE d = r
  <2> DEFINE k == call[r]
  <2>1. /\ prog' = prog /\ call'[r] = k + 1 /\ ip'[r][e] = 1
        /\ k \in Nat /\ k + 1 \in 1 .. Len(prog.calls)
    BY LaunchSteps, LaunchFills
  <2>2. ~PastAny(r, e, "copy")'
    BY <2>1 DEF PastAny
  <2>3. ASSUME NEW l \in 1 .. Len(prog.calls), Holds(r, e, l)' PROVE data'[r][r][e] = Input(l)
    <3>1. \/ l = k + 1 /\ Kernel(r)'.memcpy = "own"
          \/ l = k /\ Kernel(r)'.memcpy = "none"
      BY <2>1, <2>2, <2>3 DEF Holds
    <3>2. CASE l = k + 1 /\ Kernel(r)'.memcpy = "own"
      BY <3>2, LaunchFills
    <3>3. CASE l = k /\ Kernel(r)'.memcpy = "none"
      <4>1. data'[r][r][e] = data[r][r][e]
        BY <3>3, LaunchFills
      <4>2. Launched(r) /\ KernelEnded(r)
        BY <2>1, <3>3 DEF Launched, Launch, Finished
      <4>3. OwnSegmentFilled(Kernel(r), k)
        BY <2>3, <3>3, GatherFacts DEF Types, Kernel
      <4>4. Kernel(r).memcpy = "own" \/ PastAny(r, e, "copy")
        <5>1. ASSUME NEW i \in 1 .. Len(Kernel(r).code) PROVE i < ip[r][e]
          <6>1. ip[r][e] > Len(Kernel(r).code) /\ ip[r][e] \in Nat /\ Len(Kernel(r).code) \in Nat
            BY <4>2, CounterFacts, CallFacts DEF KernelEnded
          <6> QED
            BY <6>1
        <5> QED
          BY <4>3, <5>1 DEF OwnSegmentFilled, PastAny
      <4>5. Holds(r, e, k)
        BY <4>4 DEF Holds
      <4> QED
        BY <1>2, <2>3, <3>3, <4>1, <4>5 DEF OwnFresh
    <3> QED
      BY <3>1, <3>2, <3>3
  <2> QED
    BY <1>2, <2>1, <2>3 DEF OwnFresh, Input
<1> QED
  BY <1>1, <1>2

LEMMA LaunchKeepsReady ==
    ASSUME Types, Gathers(prog), NEW r \in Ranks, Launch(r),
           NEW d \in Ranks, NEW seg \in Ranks, ReadyFresh(d, seg)
    PROVE  ReadyFresh(d, seg)'
<1>1. /\ prog' = prog /\ ready' = ready /\ call'[r] = call[r] + 1
      /\ \A q \in Ranks \ {r} : call'[q] = call[q] /\ pos'[q] = pos[q] /\ ip'[q] = ip[q]
  BY LaunchSteps
<1>2. \A w \in Ranks : \/ call'[w] = call[w] /\ pos'[w] \in {pos[w], pos[w] + 1}
                       \/ call'[w] = call[w] + 1
  BY <1>1
<1>3. seg # d => \A e \in CTAs : data'[d][seg][e] = data[d][seg][e]
  BY LaunchFills
<1>4. \A k \in 1 .. Len(prog.calls) : NotReset(d, k) => NotReset(d, k)'
  <2>1. CASE d # r
    <3>1. \A c \in CTAs : KeepsClear(d, c, "set_ready")
      BY <1>1, <2>1 DEF KeepsClear
    <3> QED
      BY <1>1, <2>1, <3>1, NotResetStands
  <2>2. CASE d = r
    <3> SUFFICES ASSUME NEW k \in 1 .. Len(prog.calls), NotReset(r, k) PROVE NotReset(r, k)'
      BY <2>2
    <3>1. k \in Nat /\ call[r] \in Nat /\ CTAs' = CTAs /\ 0 \in CTAs
      BY <1>1, CounterFacts, RanksAndCTAs DEF Types, CTAs
    <3>2. \A c \in CTAs : BeforeAll(r, c, "set_ready")'
      BY LaunchSteps DEF BeforeAll
    <3>3. call[r] <= k
      <4> SUFFICES ASSUME call[r] = k + 1, BeforeAll(r, 0, "set_ready") PROVE FALSE
        BY <3>1 DEF NotReset
      <4>1. Launched(r) /\ KernelEnded(r)
        BY <3>1 DEF Launched, Launch, Finished
      <4>2. Fenced(Kernel(r)) /\ Len(Kernel(r).code) \in Nat /\ ip[r][0] \in Nat
        BY <3>1, <4>1, CallFacts, CounterFacts, GatherFacts DEF Types, Kernel
      <4>3. PICK i \in 1 .. Len(Kernel(r).code) : Kernel(r).code[i].op = "set_ready"
        BY <4>2 DEF Fenced
      <4>4. ip[r][0] <= i /\ ip[r][0] > Len(Kernel(r).code)
        BY <3>1, <4>1, <4>3 DEF BeforeAll, KernelEnded
      <4> QED
        BY <4>2, <4>4
    <3>4. call'[r] <= k \/ call'[r] = k + 1
      BY <1>1, <3>1, <3>3
    <3> QED
      BY <3>1, <3>2, <3>4 DEF NotReset
  <2> QED
    BY <2>1, <2>2
<1> QED
  BY <1>1, <1>2, <1>3, <1>4, ReadyFreshStands

LEMMA LaunchKeepsCopied ==
    ASSUME Types, Types', Gathers(prog), NEW r \in Ranks, Launch(r),
           NEW q \in Ranks, CopiedSoFar(q), AtRest(r)'
    PROVE  CopiedSoFar(q)'
<1>1. CASE q = r
  <2>1. prog' = prog /\ pos'[q] = 1 /\ part'[q] = 0
    BY <1>1, LaunchSteps DEF AtRest
  <2> QED
    BY <2>1, NothingCopied
<1>2. CASE q # r
  <2>1. /\ prog' = prog /\ call'[q] = call[q] /\ ip'[q] = ip[q] /\ pos'[q] = pos[q]
        /\ part'[q] = part[q]
    BY <1>2, LaunchSteps
  <2>2. ASSUME StreamAt(q, "copy") \/ StreamAt(q, "signal"), NEW e \in CTAs
        PROVE  data'[StreamOp(q).dst][StreamOp(q).seg][e] = data[StreamOp(q).dst][StreamOp(q).seg][e]
    <3>1. StreamOp(q).dst \in Ranks /\ StreamOp(q).seg \in Ranks /\ StreamOp(q).seg # StreamOp(q).dst
      BY <2>2, StageFacts DEF StreamOp
    <3> QED
      BY <3>1, LaunchFills
  <2> QED
    BY <2>1, <2>2, CopiedStands
<1> QED
  BY <1>1, <1>2

------------------------------------------------------------------------------
(* The streams.                                                            *)

(* A part that is copied is the part of a segment of this call, and of no  *)
(* segment that another stream is at.                                      *)
LEMMA CopyMoves ==
    ASSUME Types, CopiesFresh, Gathers(prog), NEW r \in Ranks, CopyPart(r)
    PROVE  LET o == StreamOp(r)
           IN  \A d \in Ranks, s \in Ranks, e \in CTAs :
                   data'[d][s][e] = IF d = o.dst /\ s = o.seg /\ e = part[r]
                                    THEN Input(call[r]) ELSE data[d][s][e]
<1> DEFINE o == StreamOp(r)
<1>1. StreamAt(r, "copy")
  BY DEF CopyPart
<1>2. o.dst \in Ranks /\ o.seg \in Ranks
  BY <1>1, StageFacts DEF StreamOp
<1>3. part[r] \in CTAs /\ o.seg \in Slots /\ Ranks \subseteq Slots
  BY <1>2, CounterFacts, RanksAreSlots
<1>4. data[o.src][o.seg][part[r]] = Input(call[r])
  BY <1>1, <1>3 DEF CopiesFresh
<1>5. data' = [data EXCEPT ![o.dst][o.seg][part[r]] = data[o.src][o.seg][part[r]]]
  BY DEF CopyPart
<1>6. data' = [data EXCEPT ![o.dst][o.seg][part[r]] = Input(call[r])]
  BY <1>4, <1>5
<1>7. data \in [Ranks -> [Slots -> [CTAs -> Nat]]]
  BY DEF Types, TypeOK
<1> HIDE DEF o
<1>8. \A d \in Ranks, s \in Ranks, e \in CTAs :
          data'[d][s][e] = IF d = o.dst /\ s = o.seg /\ e = part[r]
                           THEN Input(call[r]) ELSE data[d][s][e]
  BY <1>2, <1>3, <1>6, <1>7
<1> QED
  BY <1>8 DEF o

LEMMA OthersCopyElsewhere ==
    ASSUME IInv, Gathers(prog), NEW r \in Ranks, NEW q \in Ranks, q # r, StreamAt(r, "copy"),
           StreamAt(q, "copy") \/ StreamAt(q, "signal")
    PROVE  ~(StreamOp(q).seg = StreamOp(r).seg /\ StreamOp(q).dst = StreamOp(r).dst)
<1> DEFINE seg == StreamOp(r).seg
           dst == StreamOp(r).dst
<1> SUFFICES ASSUME StreamOp(q).seg = seg, StreamOp(q).dst = dst PROVE FALSE
  OBVIOUS
<1>0. Types
  BY DEF IInv
<1>1. call[q] = call[r] /\ call[r] \in 1 .. Len(prog.calls)
  BY <1>0, SameCall, CallFacts DEF StreamAt
<1>2. Signals(r, call[r], pos[r] + 1, seg, dst)
  BY <1>0, SignalOfStage
<1>3. \E j \in Nat : Signals(q, call[r], j, seg, dst)
  <2>1. pos[q] \in Nat /\ pos[q] + 1 \in Nat
    BY <1>0, CounterFacts
  <2>2. Signals(q, call[q], pos[q] + 1, seg, dst) \/ Signals(q, call[q], pos[q], seg, dst)
    BY <1>0, SignalOfStage
  <2> HIDE DEF seg, dst
  <2> QED
    BY <1>1, <2>1, <2>2
<1>4. pos[r] + 1 \in Nat
  BY <1>0, CounterFacts
<1> HIDE DEF seg, dst
<1>5. PICK j \in Nat : Signals(q, call[r], j, seg, dst)
  BY <1>3
<1>6. q = r
  BY <1>0, <1>1, <1>2, <1>4, <1>5, OneSignal
<1> QED
  BY <1>6

(* Other steps of a stream or a GEMM than copies.                          *)
LEMMA NoCopy ==
    ASSUME Types, NEW r \in Ranks, AfterStep(r), ~CopyPart(r)
    PROVE  data' = data
BY DEF AfterStep, WaitReady, SetSignal, CopyOut, BeginTile, EndTile

LEMMA PositionsRise ==
    ASSUME Types, NEW r \in Ranks, AfterStep(r)
    PROVE  \A w \in Ranks : call'[w] = call[w] /\ pos'[w] \in {pos[w], pos[w] + 1}
<1>1. call' = call /\ \A w \in Ranks \ {r} : pos'[w] = pos[w]
  BY AfterSteps
<1>2. pos'[r] \in {pos[r], pos[r] + 1}
  <2>1. CASE WaitReady(r) \/ CopyPart(r) \/ SetSignal(r) \/ CopyOut(r)
    BY <2>1, StreamGoesOn
  <2>2. CASE BeginTile(r) \/ EndTile(r)
    BY <2>2 DEF BeginTile, EndTile
  <2> QED
    BY <2>1, <2>2 DEF AfterStep
<1> QED
  BY <1>1, <1>2

LEMMA StreamKeepsOwn ==
    ASSUME Types, CopiesFresh, Gathers(prog), NEW r \in Ranks, AfterStep(r),
           NEW d \in Ranks, NEW e \in CTAs, OwnFresh(d, e)
    PROVE  OwnFresh(d, e)'
<1>1. prog' = prog /\ call' = call /\ ip' = ip
  BY AfterSteps
<1>2. data'[d][d][e] = data[d][d][e]
  <2>1. CASE CopyPart(r)
    <3>1. StreamOp(r).seg # StreamOp(r).dst
      BY <2>1, StageFacts DEF CopyPart, StreamOp
    <3> QED
      BY <2>1, <3>1, CopyMoves
  <2>2. CASE ~CopyPart(r)
    BY <2>2, NoCopy
  <2> QED
    BY <2>1, <2>2
<1>3. KeepsClear(d, e, "copy")
  BY <1>1 DEF KeepsClear
<1> QED
  BY <1>1, <1>2, <1>3, OwnFreshStands

LEMMA StreamKeepsReady ==
    ASSUME IInv, GInv, Gathers(prog), CopiesFresh, ReadyIsLeftAlone, NEW r \in Ranks, AfterStep(r),
           NEW d \in Ranks, NEW seg \in Ranks, ReadyFresh(d, seg)
    PROVE  ReadyFresh(d, seg)'
<1>0. Types
  BY DEF IInv
<1>1. prog' = prog /\ call' = call /\ ip' = ip
  BY <1>0, AfterSteps
<1>2. \A k \in 1 .. Len(prog.calls) : NotReset(d, k) => NotReset(d, k)'
  <2>1. \A c \in CTAs : KeepsClear(d, c, "set_ready")
    BY <1>1 DEF KeepsClear
  <2> QED
    BY <1>0, <1>1, <2>1, NotResetStands
<1>3. \A w \in Ranks : \/ call'[w] = call[w] /\ pos'[w] \in {pos[w], pos[w] + 1}
                       \/ call'[w] = call[w] + 1
  BY <1>0, PositionsRise
<1>4. seg # d /\ ready[d][seg] = 1 => \A c \in CTAs : data'[d][seg][c] = data[d][seg][c]
  <2>1. CASE CopyPart(r)
    <3>1. ready[StreamOp(r).dst][StreamOp(r).seg] = 0
      BY <2>1 DEF ReadyIsLeftAlone, CopyPart
    <3> QED
      BY <1>0, <2>1, <3>1, CopyMoves
  <2>2. CASE ~CopyPart(r)
    BY <1>0, <2>2, NoCopy
  <2> QED
    BY <2>1, <2>2
<1>5. CASE ~(SetSignal(r) /\ d = StreamOp(r).dst /\ seg = StreamOp(r).seg)
  <2>1. ready'[d][seg] = ready[d][seg]
    <3>1. CASE SetSignal(r)
      BY <1>0, <1>5, <3>1 DEF SetSignal, Types, TypeOK
    <3>2. CASE ~SetSignal(r)
      BY <3>2 DEF AfterStep, WaitReady, CopyPart, CopyOut, BeginTile, EndTile
    <3> QED
      BY <3>1, <3>2
  <2> QED
    BY <1>0, <1>1, <1>2, <1>3, <1>4, <2>1, ReadyFreshStands
<1>6. CASE SetSignal(r) /\ d = StreamOp(r).dst /\ seg = StreamOp(r).seg
  <2>1. StreamAt(r, "signal") /\ Launched(r) /\ KernelEnded(r)
    BY <1>6 DEF SetSignal, StreamAt
  <2>2. PICK k \in 1 .. Len(prog.calls), j \in Nat : k = call[r] /\ j = pos[r]
    <3>1. call[r] \in 1 .. Len(prog.calls) /\ pos[r] \in Nat
      BY <1>0, <2>1, CallFacts, CounterFacts
    <3> QED
      BY <3>1
  <2>3. Signals(r, k, j, seg, d)
    BY <1>0, <1>6, <2>1, <2>2, SignalOfStage
  <2>4. Signalled(r, k, j)'
    <3>1. pos'[r] = j + 1
      BY <1>0, <1>6, <2>2, StreamGoesOn DEF SetSignal, CopyPart, StreamAt
    <3>2. call'[r] = k
      BY <1>1, <2>2
    <3> QED
      BY <3>1, <3>2 DEF Signalled
  <2>5. NotReset(d, k)
    <3>1. call[d] \in Nat /\ k \in Nat
      BY <1>0, <2>2, CounterFacts
    <3>2. CASE call[d] = call[r]
      BY <2>2, <3>1, <3>2 DEF NotReset
    <3>3. CASE call[d] # call[r]
      BY <2>1, <2>2, <3>3, AtMostOneAhead DEF NotReset
    <3> QED
      BY <3>2, <3>3
  <2>6. NotReset(d, k)'
    BY <1>2, <2>5
  <2>7. \A c \in CTAs : data'[d][seg][c] = Input(k)
    <3>1. \A c \in CTAs : data[d][seg][c] = Input(k)
      BY <1>6, <2>1, <2>2 DEF GInv, Segments, CopiedSoFar
    <3>2. data' = data
      BY <1>6 DEF SetSignal
    <3> QED
      BY <3>1, <3>2
  <2>8. Ranks' = Ranks /\ CTAs' = CTAs /\ Signals(r, k, j, seg, d)'
    BY <1>1, <2>3 DEF Ranks, CTAs, Signals
  <2>9. \A c \in CTAs' : data'[d][seg][c] = Input(k)'
    BY <2>7, <2>8 DEF Input
  <2>10. (\E l \in 1 .. Len(prog.calls), w \in Ranks : \E i \in Nat :
              /\ Signals(w, l, i, seg, d) /\ Signalled(w, l, i) /\ NotReset(d, l)
              /\ \A c \in CTAs : data[d][seg][c] = Input(l))'
    BY <1>1, <2>4, <2>6, <2>8, <2>9
  <2> QED
    BY <2>10 DEF ReadyFresh
<1> QED
  BY <1>5, <1>6

LEMMA StreamKeepsCopied ==
    ASSUME IInv, Types', Gathers(prog), CopiesFresh, NEW r \in Ranks, AfterStep(r), After(r),
           NEW q \in Ranks, CopiedSoFar(q)
    PROVE  CopiedSoFar(q)'
<1>0. Types
  BY DEF IInv
<1>1. /\ prog' = prog /\ call' = call /\ ip' = ip
      /\ q # r => pos'[q] = pos[q] /\ part'[q] = part[q]
  BY <1>0, AfterSteps
<1>2. CASE q # r
  <2>1. ASSUME StreamAt(q, "copy") \/ StreamAt(q, "signal"), NEW e \in CTAs
        PROVE  data'[StreamOp(q).dst][StreamOp(q).seg][e] = data[StreamOp(q).dst][StreamOp(q).seg][e]
    <3>1. StreamOp(q).dst \in Ranks /\ StreamOp(q).seg \in Ranks
      BY <1>0, <2>1, StageFacts DEF StreamOp
    <3>2. CASE CopyPart(r)
      <4>1. ~(StreamOp(q).seg = StreamOp(r).seg /\ StreamOp(q).dst = StreamOp(r).dst)
        BY <1>2, <2>1, <3>2, OthersCopyElsewhere DEF CopyPart
      <4> QED
        BY <1>0, <3>1, <3>2, <4>1, CopyMoves
    <3>3. CASE ~CopyPart(r)
      BY <1>0, <3>3, NoCopy
    <3> QED
      BY <3>2, <3>3
  <2> QED
    BY <1>0, <1>1, <1>2, <2>1, CopiedStands
<1>3. CASE q = r /\ (BeginTile(r) \/ EndTile(r))
  <2>1. pos' = pos /\ part' = part /\ data' = data
    BY <1>3 DEF BeginTile, EndTile
  <2> QED
    BY <1>0, <1>1, <2>1, CopiedStands
<1>4. CASE q = r /\ (WaitReady(r) \/ SetSignal(r) \/ CopyOut(r))
  <2>1. ~StreamAt(r, "copy") /\ ~CopyPart(r)
    BY <1>4 DEF WaitReady, SetSignal, CopyOut, CopyPart, StreamAt
  <2>2. part[r] = 0
    BY <2>1 DEF After
  <2>3. pos'[r] = pos[r] + 1 /\ part'[r] = 0 /\ pos[r] \in 1 .. Len(Script(r))
    BY <1>0, <1>4, <2>1, <2>2, StreamGoesOn
  <2>4. StreamOp(r).op # "copy"
    BY <1>4 DEF WaitReady, SetSignal, CopyOut, StreamAt, StreamOp
  <2> QED
    BY <1>0, <1>1, <1>4, <2>3, <2>4, NothingCopied
<1>5. CASE q = r /\ CopyPart(r)
  <2> DEFINE S == Script(r)
             j == pos[r]
             seg == StreamOp(r).seg
             dst == StreamOp(r).dst
  <2>1. /\ StreamAt(r, "copy") /\ S[j].op = "copy" /\ StreamOp(r) = S[j]
        /\ Launched(r) /\ KernelEnded(r)
    BY <1>5 DEF CopyPart, StreamAt, StreamOp
  <2>2. /\ j \in 1 .. Len(S) /\ Len(S) \in Nat /\ j \in Nat
        /\ S[j + 1].op = "signal" /\ S[j + 1].seg = seg /\ S[j + 1].dst = dst
        /\ seg \in Ranks /\ dst \in Ranks
    BY <1>0, <2>1, StageFacts DEF SameSegment
  <2>3. \A e \in CTAs : data'[dst][seg][e] =
            IF e = part[r] THEN Input(call[r]) ELSE data[dst][seg][e]
    BY <1>0, <1>5, <2>2, CopyMoves
  <2>4. \A e \in CTAs : e < part[r] => data[dst][seg][e] = Input(call[r])
    BY <1>5, <2>1 DEF CopiedSoFar
  <2>5. /\ S' = S /\ CTAs' = CTAs /\ call'[r] = call[r]
        /\ StreamOp(r)' = S[pos'[r]]
    <3>1. S' = S /\ CTAs' = CTAs
      BY <1>1, CallStands
    <3>2. StreamOp(r)' = Script(r)'[pos'[r]]
      BY DEF StreamOp
    <3> QED
      BY <1>1, <3>1, <3>2
  <2>6. part[r] \in CTAs /\ part[r] \in Nat /\ prog.ctas \in Nat \ {0} /\ CTAs = 0 .. prog.ctas - 1
    BY <1>0, CounterFacts, RanksAndCTAs DEF Types, CTAs, CTAsOf
  <2>7. CASE pos'[r] = j + 1 /\ part'[r] = 0 /\ part[r] = prog.ctas - 1
    <3>1. \A e \in CTAs : data'[dst][seg][e] = Input(call[r])
      BY <2>3, <2>4, <2>6, <2>7
    <3>2. StreamOp(r)'.op = "signal" /\ StreamOp(r)'.seg = seg /\ StreamOp(r)'.dst = dst
      BY <2>2, <2>5, <2>7
    <3>3. ~StreamAt(r, "copy")'
      <4>1. StreamAt(r, "copy")' => StreamOp(r)'.op = "copy"
        BY DEF StreamAt, StreamOp
      <4> QED
        BY <3>2, <4>1
    <3> HIDE DEF seg, dst, S, j
    <3> QED
      BY <1>5, <2>5, <3>1, <3>2, <3>3 DEF CopiedSoFar, Input
  <2>8. CASE pos'[r] = j /\ part'[r] = part[r] + 1
    <3>1. \A e \in CTAs : e < part[r] + 1 => data'[dst][seg][e] = Input(call[r])
      <4>1. \A e \in CTAs : e < part[r] + 1 => e < part[r] \/ e = part[r]
        BY <2>6
      <4> QED
        BY <2>3, <2>4, <4>1
    <3>2. StreamOp(r)'.op = "copy" /\ StreamOp(r)'.seg = seg /\ StreamOp(r)'.dst = dst
      BY <2>1, <2>5, <2>8
    <3>3. ~StreamAt(r, "signal")'
      <4>1. StreamAt(r, "signal")' => StreamOp(r)'.op = "signal"
        BY DEF StreamAt, StreamOp
      <4> QED
        BY <3>2, <4>1
    <3> HIDE DEF seg, dst, S, j
    <3> QED
      BY <1>5, <2>5, <2>8, <3>1, <3>2, <3>3 DEF CopiedSoFar, Input
  <2> QED
    BY <1>0, <1>5, <2>7, <2>8, StreamGoesOn
<1> QED
  BY <1>2, <1>3, <1>4, <1>5 DEF AfterStep

------------------------------------------------------------------------------
LEMMA SegmentsKept ==
    ASSUME IInv, GInv, Types', [Next]_vars
    PROVE  Segments'
<1>0. Types /\ CopiesFresh /\ ReadyIsLeftAlone /\ prog' = prog
  BY CopiesAreFresh, ReadyIsLeft, ProgramKept DEF IInv
<1> SUFFICES ASSUME Gathers(prog)
             PROVE  /\ puts' = {}
                    /\ \A q \in Ranks : /\ CopiedSoFar(q)'
                                        /\ \A e \in CTAs : OwnFresh(q, e)'
                                        /\ \A seg \in Ranks : ReadyFresh(q, seg)'
  BY <1>0 DEF Segments, Ranks, CTAs
<1>1. /\ puts = {}
      /\ \A q \in Ranks : /\ CopiedSoFar(q) /\ After(q)
                          /\ \A e \in CTAs : OwnFresh(q, e)
                          /\ \A seg \in Ranks : ReadyFresh(q, seg)
  BY DEF GInv, Segments
<1> DEFINE Kept == /\ puts' = {}
                   /\ \A q \in Ranks : /\ CopiedSoFar(q)'
                                       /\ \A e \in CTAs : OwnFresh(q, e)'
                                       /\ \A seg \in Ranks : ReadyFresh(q, seg)'
<1>2. ASSUME NEW r \in Ranks, NEW c \in CTAs, CTAStep(r, c) PROVE Kept
  BY <1>0, <1>1, <1>2, CTASegments, CTAKeepsOwn, CTAKeepsReady, CTAKeepsCopied
<1>3. ASSUME NEW r \in Ranks, AfterStep(r) PROVE Kept
  BY <1>0, <1>1, <1>3, AfterSteps, StreamKeepsOwn, StreamKeepsReady, StreamKeepsCopied
<1>4. ASSUME NEW r \in Ranks, Launch(r) PROVE Kept
  <2>1. AtRest(r)'
    BY <1>0, <1>1, <1>4, LaunchAfter
  <2> QED
    BY <1>0, <1>1, <1>4, <2>1, LaunchSteps, LaunchKeepsOwn, LaunchKeepsReady, LaunchKeepsCopied
<1>5. ASSUME NEW p \in puts, Deliver(p) PROVE Kept
  BY <1>1, <1>5
<1>6. ASSUME UNCHANGED vars PROVE Kept
  <2>1. /\ UNCHANGED <<prog, call, ip, data, ready, puts, pos, part>>
    BY <1>6 DEF vars, host, ctas, after
  <2>2. \A q \in Ranks, c \in CTAs : KeepsClear(q, c, "copy") /\ KeepsClear(q, c, "set_ready")
    BY <2>1 DEF KeepsClear
  <2>3. \A q \in Ranks : CopiedSoFar(q)' /\ \A e \in CTAs : OwnFresh(q, e)'
    BY <1>0, <1>1, <2>1, <2>2, CopiedStands, OwnFreshStands
  <2>4. \A q \in Ranks : \A k \in 1 .. Len(prog.calls) : NotReset(q, k) => NotReset(q, k)'
    BY <1>0, <2>1, <2>2, NotResetStands
  <2>5. \A q \in Ranks, seg \in Ranks : ReadyFresh(q, seg)'
    BY <1>0, <1>1, <2>1, <2>4, ReadyFreshStands
  <2> QED
    BY <1>1, <2>1, <2>3, <2>5
<1>7. 0 \in CTAs
  BY <1>0, RanksAndCTAs DEF Types
<1> HIDE DEF Kept
<1>8. Kept
  BY <1>2, <1>3, <1>4, <1>5, <1>6, <1>7 DEF Next, CTAStep, AfterStep
<1> QED
  BY <1>8 DEF Kept

LEMMA InitSegments == Init => GInv
<1> SUFFICES ASSUME Init PROVE GInv
  OBVIOUS
<1>1. prog \in Programs /\ 0 \in CTAs
  BY RanksAndCTAs DEF Init
<1>2. \A q \in Ranks : /\ call[q] = 0 /\ pos[q] = 1 /\ part[q] = 0 /\ ~reading[q] /\ ~Launched(q)
                       /\ \A s \in Ranks : ready[q][s] = 0
  BY DEF Init, Launched
<1>3. \A q \in Ranks : After(q)
  BY <1>2 DEF After
<1>4. \A q \in Ranks : CopiedSoFar(q)
  BY <1>2 DEF CopiedSoFar, StreamAt
<1>5. \A q \in Ranks, seg \in Ranks : ReadyFresh(q, seg)
  BY <1>2 DEF ReadyFresh
<1>6. \A q \in Ranks, e \in CTAs : OwnFresh(q, e)
  <2> SUFFICES ASSUME NEW q \in Ranks, NEW e \in CTAs, NEW k \in 1 .. Len(prog.calls)
               PROVE  ~Holds(q, e, k)
    BY DEF OwnFresh
  <2>1. k \in Nat \ {0} /\ call[q] = 0
    BY <1>1, <1>2, RanksAndCTAs
  <2> QED
    BY <2>1 DEF Holds
<1>7. puts = {}
  BY DEF Init
<1> QED
  BY <1>3, <1>4, <1>5, <1>6, <1>7 DEF GInv, Segments

(* The invariant with what concerns the all-gather.                        *)
THEOREM SegmentsInvariant == Spec => [](IInv /\ GInv)
<1>1. Init => IInv /\ GInv
  BY InitTypes, InitLocal, InitMeet, InitSegments DEF IInv
<1>2. IInv /\ GInv /\ [Next]_vars => (IInv /\ GInv)'
  <2> SUFFICES ASSUME IInv, GInv, [Next]_vars PROVE IInv' /\ GInv'
    OBVIOUS
  <2>1. IInv' /\ Types'
    BY TypesKept, LocalKept, MeetKept DEF IInv
  <2>2. \A q \in Ranks : After(q)'
    BY AfterKept DEF GInv, IInv
  <2>3. Segments'
    BY <2>1, SegmentsKept
  <2>4. Ranks' = Ranks
    BY ProgramKept DEF Ranks
  <2> QED
    BY <2>1, <2>2, <2>3, <2>4 DEF GInv
<1> QED
  BY <1>1, <1>2, PTL DEF Spec

(* CopiesFresh: what a stream of the all-gather copies is whole and of its *)
(* call.                                                                   *)
THEOREM CopiesOfTheCall == Spec => []CopiesFresh
BY CopiesAreFresh, SegmentsInvariant, PTL

(* ReadyIsLeftAlone: nobody copies into a segment that is ready.           *)
THEOREM ReadySegmentsStay == Spec => []ReadyIsLeftAlone
BY ReadyIsLeft, SegmentsInvariant, PTL

(* TilesFresh: a tile that is loaded sees the rows of its call.            *)
THEOREM TilesOfTheCall == Spec => []TilesFresh
BY TilesAreFresh, SegmentsInvariant, PTL

------------------------------------------------------------------------------
(* The all-reduces.  What has been of a program's events.                  *)
Bf == OrderOf(prog)
CTAPast(r, c, x) == x \prec <<call[r], ip[r][c]>>
StepPast(e) == CTAPast(e[1], e[2], e[3])
Has(ev) ==
    IF IsPassing(ev) THEN StepPast(ev[2])
    ELSE IF IsCalling(ev) THEN call[ev[2][1]] >= ev[2][2]
    ELSE StepPast(ev[2][1]) /\ ev[2][2] \notin puts
Been == {ev \in EventsOf(prog) : Has(ev)}

(* What has been, has been in order; puts under way have been sent; a      *)
(* signal that is up was put there since the rank last cleared it; and a   *)
(* cell that is to be read holds what was written for the reader.          *)
InOrder == \A ev \in Been : Bf[ev] \subseteq Been
PutsSent == \A d \in puts : \E e \in StepsOf(prog) : d \in Sends(prog, e) /\ StepPast(e)
SignalsTell == \A r \in Ranks, q \in Ranks, h \in Rows : \A z \in Positions(prog) :
    Clears(prog, z, h) /\ CTAPast(r, 0, z) /\ flag[r][h][q] = 1 =>
        \E y \in SignalsFrom(prog, q, r, h) :
            Arriving(y) \in Been /\ Arriving(y) \notin Bf[Passing(<<r, 0, z>>)]
CellsFed == \A ev \in EventsOf(prog) \ Been : \A x \in TakenBy(prog, ev) : \A w \in Been :
    Feeds(prog, Bf, w, ev, x) => data[x.rank][x.slot][x.part] = x.value

Reduces == InOrder /\ PutsSent /\ SignalsTell /\ CellsFed

(* A program that reduces.                                                 *)
Reducing == NeverGathers(prog) /\ ReducesInOrder(prog, Bf)

LEMMA EventFacts ==
    ASSUME NEW p
    PROVE  /\ \A e \in StepsOf(p) : Passing(e) \in EventsOf(p) /\ IsPassing(Passing(e)) /\ Passing(e)[2] = e
           /\ \A l \in CallsOf(p) : /\ Calling(l) \in EventsOf(p) /\ ~IsPassing(Calling(l))
                                    /\ IsCalling(Calling(l)) /\ Calling(l)[2] = l
           /\ \A y \in Sent(p) : /\ Arriving(y) \in EventsOf(p) /\ ~IsPassing(Arriving(y))
                                 /\ ~IsCalling(Arriving(y)) /\ Arriving(y)[2] = y
BY DEF EventsOf, Passing, Calling, Arriving, IsPassing, IsCalling

LEMMA EventKinds ==
    ASSUME NEW p, NEW ev \in EventsOf(p)
    PROVE  \/ \E e \in StepsOf(p) : ev = Passing(e)
           \/ \E l \in CallsOf(p) : ev = Calling(l)
           \/ \E y \in Sent(p) : ev = Arriving(y)
BY DEF EventsOf

LEMMA HasFacts ==
    /\ \A e : Has(Passing(e)) <=> StepPast(e)
    /\ \A l : Has(Calling(l)) <=> call[l[1]] >= l[2]
    /\ \A y : Has(Arriving(y)) <=> StepPast(y[1]) /\ y[2] \notin puts
BY DEF Has, Passing, Calling, Arriving, IsPassing, IsCalling

LEMMA StepFacts ==
    ASSUME prog \in Programs, NEW e \in StepsOf(prog)
    PROVE  /\ e[1] \in Ranks /\ e[2] \in CTAs /\ e[3] \in Positions(prog)
           /\ e = <<e[1], e[2], e[3]>>
           /\ e[3] = <<e[3][1], e[3][2]>> /\ e[3][1] \in 1 .. Len(prog.calls)
           /\ e[3][2] \in 1 .. Len(prog.calls[e[3][1]].code)
           /\ Len(prog.calls) \in Nat /\ Len(prog.calls[e[3][1]].code) \in Nat
<1>1. e[1] \in Ranks /\ e[2] \in CTAs /\ e[3] \in Positions(prog) /\ e = <<e[1], e[2], e[3]>>
  BY DEF StepsOf, Ranks, CTAs
<1>2. /\ e[3] \in Nat \X Nat /\ e[3][1] \in 1 .. Len(prog.calls)
      /\ e[3][2] \in 1 .. Len(prog.calls[e[3][1]].code) /\ Len(prog.calls[e[3][1]].code) \in Nat
  BY <1>1, PositionFacts
<1> QED
  BY <1>1, <1>2, RanksAndCTAs

LEMMA SentFacts ==
    ASSUME NEW p, NEW y \in Sent(p)
    PROVE  y[1] \in StepsOf(p) /\ y[2] \in Sends(p, y[1]) /\ y = <<y[1], y[2]>>
BY DEF Sent

LEMMA SentOf ==
    ASSUME NEW p, NEW e \in StepsOf(p), NEW d \in Sends(p, e)
    PROVE  <<e, d>> \in Sent(p) /\ <<e, d>>[1] = e /\ <<e, d>>[2] = d
BY DEF Sent

(* What a CTA that has come so far has reached.                            *)
LEMMA ReachedBeen ==
    ASSUME Types, NEW r \in Ranks, NEW c \in CTAs, NEW k \in 1 .. Len(prog.calls),
           NEW i \in 0 .. Len(prog.calls[k].code),
           call[r] > k \/ (call[r] = k /\ ip[r][c] > i)
    PROVE  Reached(r, c, k, i) \in Been
<1>1. prog \in Programs /\ Len(prog.calls) \in Nat /\ call[r] \in Nat
  BY RanksAndCTAs, CounterFacts DEF Types
<1>2. CASE i = 0
  <2>1. <<r, k>> \in CallsOf(prog) /\ call[r] >= k
    BY <1>1 DEF CallsOf, Ranks
  <2>2. Calling(<<r, k>>) \in EventsOf(prog) /\ Has(Calling(<<r, k>>))
    BY <2>1, EventFacts, HasFacts
  <2> QED
    BY <1>2, <2>2 DEF Reached, Been
<1>3. CASE i # 0
  <2> DEFINE x == <<k, i>>
             e == <<r, c, x>>
  <2>1. Len(prog.calls[k].code) \in Nat
    BY <1>1, ProgramFacts DEF WellFormed
  <2>2. i \in 1 .. Len(prog.calls[k].code)
    BY <1>3, <2>1
  <2>3. x \in Positions(prog)
    BY <2>2 DEF Positions
  <2>4. e \in StepsOf(prog) /\ e[1] = r /\ e[2] = c /\ e[3] = x
    BY <2>3 DEF StepsOf, Ranks, CTAs
  <2>5. StepPast(e)
    BY <1>1, <2>4 DEF StepPast, CTAPast, \prec
  <2>6. Passing(e) \in Been
    BY <2>4, <2>5, EventFacts, HasFacts DEF Been
  <2> QED
    BY <1>3, <2>6 DEF Reached
<1> QED
  BY <1>2, <1>3

LEMMA WithBeen ==
    ASSUME InOrder, NEW S, S \subseteq Been
    PROVE  With(Bf, S) \subseteq Been
BY DEF InOrder, With

------------------------------------------------------------------------------
(* What a step adds to what has been: nothing, or one event.               *)
Here(r, c) == <<r, c, <<call[r], ip[r][c]>>>>

StillStep ==
    /\ UNCHANGED <<prog, call, ip, puts, data>>
    /\ \A d \in Ranks, q \in Ranks, h \in Rows :
          (\E z \in Positions(prog) : Clears(prog, z, h)) => flag'[d][h][q] = flag[d][h][q]

PassStep(r, c) ==
    /\ Running(r, c) /\ Goto(r, c) /\ UNCHANGED <<prog, call>>
    /\ data' = Written(PutBy(prog, Passing(Here(r, c))))
    /\ puts' = puts \cup Sends(prog, Here(r, c))
    /\ \A d \in Ranks, q \in Ranks, h \in Rows : flag'[d][h][q] =
          IF d = r /\ c = 0 /\ Clears(prog, <<call[r], ip[r][c]>>, h) THEN 0 ELSE flag[d][h][q]
    /\ Instr(r, c).op = "await" =>
          \A t \in Ranks : flag[r][Instr(r, c).half][t] = 1 \/ (t = r /\ ~Instr(r, c).self)

Happens(ev) == /\ prog' = prog /\ ev \in EventsOf(prog) \ Been /\ Been' = Been \cup {ev}
               /\ data' = Written(PutBy(prog, ev))

LEMMA HereFacts ==
    ASSUME Types, NEW r \in Ranks, NEW c \in CTAs, Running(r, c)
    PROVE  /\ Here(r, c) \in StepsOf(prog)
           /\ Here(r, c)[1] = r /\ Here(r, c)[2] = c /\ Here(r, c)[3] = <<call[r], ip[r][c]>>
           /\ Here(r, c)[3][1] = call[r] /\ Here(r, c)[3][2] = ip[r][c]
           /\ InstrAt(prog, Here(r, c)[3]) = Instr(r, c)
           /\ PutBy(prog, Passing(Here(r, c))) = Writes(prog, call[r], r, c, Instr(r, c).op)
           /\ TakenBy(prog, Passing(Here(r, c))) = Reads(prog, call[r], r, c, Instr(r, c).op)
           /\ Sends(prog, Here(r, c)) = Puts(prog, call[r], r, c, Instr(r, c).op)
           /\ ~StepPast(Here(r, c))
<1>1. /\ <<call[r], ip[r][c]>> \in Positions(prog)
      /\ InstrAt(prog, <<call[r], ip[r][c]>>) = Instr(r, c)
  BY InstrFacts
<1>2. Here(r, c) \in StepsOf(prog)
  BY <1>1 DEF Here, StepsOf, Ranks, CTAs
<1>3. /\ Here(r, c)[1] = r /\ Here(r, c)[2] = c /\ Here(r, c)[3] = <<call[r], ip[r][c]>>
      /\ Here(r, c)[3][1] = call[r] /\ Here(r, c)[3][2] = ip[r][c]
      /\ InstrAt(prog, Here(r, c)[3]) = Instr(r, c)
  BY <1>1 DEF Here
<1>4. IsPassing(Passing(Here(r, c))) /\ Passing(Here(r, c))[2] = Here(r, c)
  BY <1>2, EventFacts
<1>5. PutBy(prog, Passing(Here(r, c))) = Writes(prog, call[r], r, c, Instr(r, c).op)
  BY <1>3, <1>4 DEF PutBy
<1>6. TakenBy(prog, Passing(Here(r, c))) = Reads(prog, call[r], r, c, Instr(r, c).op)
  BY <1>3, <1>4 DEF TakenBy
<1>7. Sends(prog, Here(r, c)) = Puts(prog, call[r], r, c, Instr(r, c).op)
  BY <1>3 DEF Sends
<1>8. ~StepPast(Here(r, c))
  <2>1. call[r] \in Nat /\ ip[r][c] \in Nat
    BY CounterFacts
  <2> QED
    BY <1>3, <2>1 DEF StepPast, CTAPast, \prec
<1> QED
  BY <1>2, <1>3, <1>5, <1>6, <1>7, <1>8

LEMMA ClearsRow ==
    ASSUME Types, NEW z \in Positions(prog), NEW h, Clears(prog, z, h)
    PROVE  h \in SignalRows(InstrAt(prog, z))
BY DEF Clears, SignalRows

(* A program that never gathers has nothing to copy.                       *)
LEMMA NeverCopies ==
    ASSUME Types, NeverGathers(prog), NEW r \in Ranks
    PROVE  ~StreamAt(r, "copy")
<1> SUFFICES ASSUME StreamAt(r, "copy") PROVE FALSE
  OBVIOUS
<1>1. /\ call[r] \in 1 .. Len(prog.calls) /\ Len(Script(r)) \in Nat /\ pos[r] \in Nat \ {0}
      /\ pos[r] <= Len(Script(r)) /\ Script(r)[pos[r]].op = "copy"
  BY CallFacts, CounterFacts DEF StreamAt
<1>2. pos[r] \in 1 .. Len(Script(r))
  BY <1>1
<1>3. \A j \in 1 .. Len(Script(r)) : Script(r)[j].op = "out"
  BY <1>1 DEF NeverGathers, Ranks, Script, Kernel
<1> QED
  BY <1>1, <1>2, <1>3

(* A CTA goes on and moves no data.                                        *)
LEMMA WalkPasses ==
    ASSUME Types, NEW r \in Ranks, NEW c \in CTAs, Running(r, c), Goto(r, c),
           UNCHANGED <<prog, call, flag, data, puts>>,
           Instr(r, c).op \notin DataOps, c # 0 \/ Instr(r, c).op # "clear",
           Instr(r, c).op = "await" =>
               \A t \in Ranks : flag[r][Instr(r, c).half][t] = 1 \/ (t = r /\ ~Instr(r, c).self)
    PROVE  PassStep(r, c)
<1>1. /\ PutBy(prog, Passing(Here(r, c))) = Writes(prog, call[r], r, c, Instr(r, c).op)
      /\ Sends(prog, Here(r, c)) = Puts(prog, call[r], r, c, Instr(r, c).op)
      /\ InstrAt(prog, <<call[r], ip[r][c]>>) = Instr(r, c)
  BY HereFacts
<1>2. Writes(prog, call[r], r, c, Instr(r, c).op) = {} /\ Puts(prog, call[r], r, c, Instr(r, c).op) = {}
  BY DEF DataOps, Writes, Puts
<1>3. data' = Written(PutBy(prog, Passing(Here(r, c)))) /\ puts' = puts \cup Sends(prog, Here(r, c))
  BY <1>1, <1>2 DEF Written
<1>4. \A h : ~(c = 0 /\ Clears(prog, <<call[r], ip[r][c]>>, h))
  BY <1>1 DEF Clears
<1> QED
  BY <1>3, <1>4 DEF PassStep

LEMMA CTAPasses ==
    ASSUME Types, NEW r \in Ranks, NEW c \in CTAs,
           \/ PassBy(r, c) \/ Depart(r, c) \/ MoveData(r, c) \/ Await(r, c) \/ SetReady(r, c)
           \/ c = 0 /\ (SyncThreads(r) \/ GoFromSync(r) \/ Clear(r))
    PROVE  PassStep(r, c)
<1>1. CASE PassBy(r, c)
  BY <1>1, WalkPasses DEF PassBy, MasterOps, DataOps, host, flags
<1>2. CASE Depart(r, c)
  BY <1>2, WalkPasses DEF Depart, At, DataOps, host, flags
<1>3. CASE Await(r, c)
  BY <1>3, WalkPasses DEF Await, At, DataOps, host, flags
<1>4. CASE SetReady(r, c)
  BY <1>4, WalkPasses DEF SetReady, At, DataOps, host, flags
<1>5. CASE c = 0 /\ (SyncThreads(r) \/ GoFromSync(r))
  <2>1. /\ Running(r, c) /\ Goto(r, c) /\ UNCHANGED <<prog, call, flag, data, puts>>
        /\ Instr(r, c).op \in {"exchange", "cas", "sync"}
    BY <1>5 DEF SyncThreads, GoFromSync, At, host, flags
  <2> QED
    BY <2>1, WalkPasses DEF DataOps
<1>6. CASE MoveData(r, c)
  <2>1. /\ Running(r, c) /\ Goto(r, c) /\ UNCHANGED <<prog, call, flag>> /\ Instr(r, c).op \in DataOps
        /\ data' = Written(Writes(prog, call[r], r, c, Instr(r, c).op))
        /\ puts' = puts \cup Puts(prog, call[r], r, c, Instr(r, c).op)
    BY <1>6 DEF MoveData, host, flags
  <2>2. InstrAt(prog, <<call[r], ip[r][c]>>) = Instr(r, c)
    BY <2>1, HereFacts
  <2>3. \A h : ~Clears(prog, <<call[r], ip[r][c]>>, h)
    BY <2>1, <2>2 DEF Clears, DataOps
  <2> QED
    BY <2>1, <2>3, HereFacts DEF PassStep, DataOps
<1>7. CASE c = 0 /\ Clear(r)
  <2>1. /\ Running(r, c) /\ Goto(r, c) /\ UNCHANGED <<prog, call, data, puts>>
        /\ Instr(r, c).op = "clear"
        /\ flag' = [flag EXCEPT ![r] = [h \in Rows |-> IF h \in Instr(r, c).rows
                                                   THEN [q \in Ranks |-> 0] ELSE flag[r][h]]]
    BY <1>7 DEF Clear, At, host
  <2>2. /\ PutBy(prog, Passing(Here(r, c))) = Writes(prog, call[r], r, c, "clear")
        /\ Sends(prog, Here(r, c)) = Puts(prog, call[r], r, c, "clear")
        /\ InstrAt(prog, <<call[r], ip[r][c]>>) = Instr(r, c)
    BY <2>1, HereFacts
  <2>3. data' = Written(PutBy(prog, Passing(Here(r, c)))) /\ puts' = puts \cup Sends(prog, Here(r, c))
    BY <2>1, <2>2 DEF Written, Writes, Puts
  <2>4. \A h : Clears(prog, <<call[r], ip[r][c]>>, h) <=> h \in Instr(r, c).rows
    BY <2>1, <2>2 DEF Clears
  <2>5. \A d \in Ranks, q \in Ranks, h \in Rows : flag'[d][h][q] =
          IF d = r /\ h \in Instr(r, c).rows THEN 0 ELSE flag[d][h][q]
    BY <2>1 DEF Types, TypeOK
  <2> QED
    BY <1>7, <2>1, <2>3, <2>4, <2>5 DEF PassStep
<1> QED
  BY <1>1, <1>2, <1>3, <1>4, <1>5, <1>6, <1>7

LEMMA ThreadsStill ==
    ASSUME Types, NEW r \in Ranks, NEW t \in Ranks, Store(r, t) \/ See(r, t)
    PROVE  StillStep
<1>1. UNCHANGED <<prog, call, ip, puts, data>>
  BY DEF Store, See, host
<1>2. At(r, 0, "exchange") \/ At(r, 0, "cas")
  BY DEF Store, See
<1>3. PICK w \in Positions(prog) : InstrAt(prog, w) = Instr(r, 0)
  BY <1>2, AtPosition
<1>4. MeetRow(Instr(r, 0).half)
  BY <1>2, <1>3 DEF At, MeetRow
<1>5. ASSUME NEW h \in Rows, \E z \in Positions(prog) : Clears(prog, z, h)
      PROVE  h # Instr(r, 0).half
  BY <1>4, <1>5, ClearsRow, SignalRowsApart
<1>6. \/ flag' = flag
      \/ \E v : flag' = [flag EXCEPT ![t][Instr(r, 0).half][r] = v]
      \/ \E v : flag' = [flag EXCEPT ![r][Instr(r, 0).half][t] = v]
  BY DEF Store, See
<1>7. ASSUME NEW d \in Ranks, NEW q \in Ranks, NEW h \in Rows, h # Instr(r, 0).half
      PROVE  flag'[d][h][q] = flag[d][h][q]
  <2> DEFINE i == Instr(r, 0).half
  <2>1. flag \in [Ranks -> [Rows -> [Ranks -> Nat]]]
    BY DEF Types, TypeOK
  <2> HIDE DEF i
  <2>2. \A v : /\ [flag EXCEPT ![t][i][r] = v][d][h][q] = flag[d][h][q]
              /\ [flag EXCEPT ![r][i][t] = v][d][h][q] = flag[d][h][q]
    BY <1>7, <2>1 DEF i
  <2> QED
    BY <1>6, <2>2 DEF i
<1> QED
  BY <1>1, <1>5, <1>7 DEF StillStep

LEMMA ReduceSteps ==
    ASSUME Types, NeverGathers(prog), [Next]_vars
    PROVE  \/ StillStep
           \/ \E r \in Ranks, c \in CTAs : PassStep(r, c)
           \/ \E r \in Ranks : Launch(r)
           \/ \E p \in puts : Deliver(p)
<1>0. 0 \in CTAs
  BY RanksAndCTAs DEF Types
<1>1. ASSUME NEW r \in Ranks, NEW c \in CTAs,
             \/ PassBy(r, c) \/ Depart(r, c) \/ MoveData(r, c) \/ Await(r, c) \/ SetReady(r, c)
      PROVE  PassStep(r, c)
  BY <1>1, CTAPasses
<1>2. ASSUME NEW r \in Ranks, SyncThreads(r) \/ GoFromSync(r) \/ Clear(r)
      PROVE  PassStep(r, 0)
  BY <1>0, <1>2, CTAPasses
<1>3. ASSUME NEW r \in Ranks, NEW t \in Ranks, Store(r, t) \/ See(r, t)
      PROVE  StillStep
  BY <1>3, ThreadsStill
<1>4. ASSUME NEW r \in Ranks,
             ComeToSync(r) \/ (\E c \in CTAs : Arrive(r, c)) \/ WaitReady(r) \/ SetSignal(r)
                \/ CopyOut(r) \/ BeginTile(r) \/ EndTile(r)
      PROVE  StillStep
  <2>1. UNCHANGED <<prog, call, ip, puts, data, flag>>
    BY <1>4 DEF ComeToSync, Arrive, WaitReady, SetSignal, CopyOut, BeginTile, EndTile, host, ctas, flags
  <2> QED
    BY <2>1 DEF StillStep
<1>5. \A r \in Ranks : ~CopyPart(r)
  BY NeverCopies DEF CopyPart
<1>6. ASSUME UNCHANGED vars PROVE StillStep
  BY <1>6 DEF vars, host, ctas, flags, StillStep
<1> HIDE DEF Types
<1> QED
  BY <1>0, <1>1, <1>2, <1>3, <1>4, <1>5, <1>6 DEF Next

LEMMA PastAfterPass ==
    ASSUME Types, NEW r \in Ranks, NEW c \in CTAs, PassStep(r, c), NEW e \in StepsOf(prog)
    PROVE  StepPast(e)' <=> StepPast(e) \/ e = Here(r, c)
<1>1. /\ e[1] \in Ranks /\ e[2] \in CTAs /\ e = <<e[1], e[2], e[3]>>
      /\ e[3] = <<e[3][1], e[3][2]>> /\ e[3][1] \in Nat /\ e[3][2] \in Nat
  <2>1. /\ e[1] \in Ranks /\ e[2] \in CTAs /\ e = <<e[1], e[2], e[3]>>
        /\ e[3] = <<e[3][1], e[3][2]>> /\ e[3] \in Positions(prog)
    BY StepFacts DEF Types
  <2>2. e[3] \in Nat \X Nat
    BY <2>1, PositionFacts DEF Types
  <2> QED
    BY <2>1, <2>2
<1>2. call' = call /\ ip'[e[1]][e[2]] = IF e[1] = r /\ e[2] = c THEN ip[e[1]][e[2]] + 1 ELSE ip[e[1]][e[2]]
  BY <1>1 DEF PassStep, Goto, Types, TypeOK
<1>3. call[e[1]] \in Nat /\ ip[e[1]][e[2]] \in Nat
  BY <1>1, CounterFacts
<1>4. e = Here(r, c) <=> e[1] = r /\ e[2] = c /\ e[3][1] = call[r] /\ e[3][2] = ip[r][c]
  BY <1>1 DEF Here
<1>5. StepPast(e) <=> e[3][1] < call[e[1]] \/ (e[3][1] = call[e[1]] /\ e[3][2] < ip[e[1]][e[2]])
  BY DEF StepPast, CTAPast, \prec
<1>6. StepPast(e)' <=> e[3][1] < call[e[1]] \/ (e[3][1] = call[e[1]] /\ e[3][2] < ip'[e[1]][e[2]])
  BY <1>2 DEF StepPast, CTAPast, \prec
<1> QED
  BY <1>1, <1>2, <1>3, <1>4, <1>5, <1>6

LEMMA PassHappens ==
    ASSUME Types, PutsApart(prog), NEW r \in Ranks, NEW c \in CTAs, PassStep(r, c)
    PROVE  Happens(Passing(Here(r, c)))
<1> DEFINE h == Here(r, c)
<1>0. /\ h \in StepsOf(prog) /\ ~StepPast(h) /\ prog' = prog
      /\ Passing(h) \in EventsOf(prog) /\ EventsOf(prog)' = EventsOf(prog)
  BY HereFacts, EventFacts DEF PassStep
<1>1. Passing(h) \notin Been
  BY <1>0, HasFacts DEF Been
<1> HIDE DEF h
<1>2. \A e \in StepsOf(prog) : StepPast(e)' <=> StepPast(e) \/ e = h
  BY PastAfterPass DEF h
<1>3. ASSUME NEW e \in StepsOf(prog) PROVE Has(Passing(e))' <=> Has(Passing(e)) \/ Passing(e) = Passing(h)
  BY <1>2, <1>3, HasFacts DEF Passing, Has, IsPassing
<1>4. ASSUME NEW l \in CallsOf(prog) PROVE (Has(Calling(l))' <=> Has(Calling(l))) /\ Calling(l) # Passing(h)
  BY DEF PassStep, Has, Calling, Passing, IsPassing, IsCalling
<1>5. ASSUME NEW y \in Sent(prog) PROVE (Has(Arriving(y))' <=> Has(Arriving(y))) /\ Arriving(y) # Passing(h)
  <2>1. y[1] \in StepsOf(prog) /\ y[2] \in Sends(prog, y[1]) /\ y = <<y[1], y[2]>>
    BY SentFacts
  <2>2. Has(Arriving(y)) <=> StepPast(y[1]) /\ y[2] \notin puts
    BY HasFacts
  <2>3. Has(Arriving(y))' <=> StepPast(y[1])' /\ y[2] \notin puts'
    BY DEF Has, Arriving, IsPassing, IsCalling
  <2>4. puts' = puts \cup Sends(prog, h)
    BY DEF PassStep, h
  <2>5. y[2] \in Sends(prog, h) => y[1] = h
    <3> SUFFICES ASSUME y[2] \in Sends(prog, h) PROVE y[1] = h
      OBVIOUS
    <3>1. <<h, y[2]>> \in Sent(prog)
      BY <1>0, SentOf
    <3>2. y = <<h, y[2]>>
      BY <3>1 DEF PutsApart
    <3> QED
      BY <3>2
  <2>6. Arriving(y) # Passing(h)
    BY DEF Arriving, Passing
  <2> QED
    BY <1>0, <1>2, <2>1, <2>2, <2>3, <2>4, <2>5, <2>6
<1>6. \A ev \in EventsOf(prog) : Has(ev)' <=> Has(ev) \/ ev = Passing(h)
  BY <1>3, <1>4, <1>5, EventKinds
<1>7. Been' = Been \cup {Passing(h)}
  BY <1>0, <1>6 DEF Been
<1> QED
  BY <1>0, <1>1, <1>7 DEF Happens, PassStep, h

LEMMA LaunchHappens ==
    ASSUME Types, NEW r \in Ranks, Launch(r)
    PROVE  Happens(Calling(<<r, call[r] + 1>>))
<1> DEFINE k == call[r] + 1
<1>0. /\ prog' = prog /\ EventsOf(prog)' = EventsOf(prog) /\ puts' = puts /\ k \in 1 .. Len(prog.calls)
      /\ call[r] \in Nat /\ Len(prog.calls) \in Nat
  BY CounterFacts DEF Launch
<1>1. <<r, k>> \in CallsOf(prog)
  BY <1>0 DEF CallsOf, Ranks
<1>2. /\ Calling(<<r, k>>) \in EventsOf(prog) /\ ~IsPassing(Calling(<<r, k>>))
      /\ IsCalling(Calling(<<r, k>>)) /\ Calling(<<r, k>>)[2] = <<r, k>>
  BY <1>1, EventFacts
<1>3. Calling(<<r, k>>) \notin Been
  BY <1>0, HasFacts DEF Been
<1>4. PutBy(prog, Calling(<<r, k>>)) = FilledIn(prog, r, k)
  BY <1>0, <1>2 DEF PutBy
<1>5. data' = Written(PutBy(prog, Calling(<<r, k>>)))
  <2> DEFINE W == {Cell(r, s, c, Input(k)) : s \in Filled(prog, r, prog.calls[k].memcpy), c \in CTAs}
  <2>1. data' = Written(W)
    BY DEF Launch
  <2>2. FilledIn(prog, r, k) = W
    BY DEF FilledIn, CTAs
  <2> HIDE DEF W, k
  <2> QED
    BY <1>4, <2>1, <2>2
<1>6. ASSUME NEW e \in StepsOf(prog) PROVE StepPast(e)' <=> StepPast(e)
  <2>1. /\ e[1] \in Ranks /\ e[2] \in CTAs /\ e[3][1] \in 1 .. Len(prog.calls)
        /\ e[3][2] \in 1 .. Len(prog.calls[e[3][1]].code) /\ Len(prog.calls[e[3][1]].code) \in Nat
    BY StepFacts DEF Types
  <2>2. StepPast(e) <=> e[3][1] < call[e[1]] \/ (e[3][1] = call[e[1]] /\ e[3][2] < ip[e[1]][e[2]])
    BY DEF StepPast, CTAPast, \prec
  <2>3. StepPast(e)' <=> e[3][1] < call'[e[1]] \/ (e[3][1] = call'[e[1]] /\ e[3][2] < ip'[e[1]][e[2]])
    BY DEF StepPast, CTAPast, \prec
  <2>4. CASE e[1] # r
    BY <2>1, <2>2, <2>3, <2>4, LaunchSteps
  <2>5. CASE e[1] = r
    <3>1. call'[r] = call[r] + 1 /\ ip'[r][e[2]] = 1
      BY <2>1, LaunchSteps
    <3>2. e[3][1] = call[r] => e[3][2] < ip[r][e[2]]
      <4> SUFFICES ASSUME e[3][1] = call[r] PROVE e[3][2] < ip[r][e[2]]
        OBVIOUS
      <4>1. Launched(r)
        BY <2>1 DEF Launched
      <4>2. ip[r][e[2]] > Len(prog.calls[e[3][1]].code)
        BY <2>1, <4>1 DEF Launch, Finished, KernelEnded, Kernel
      <4>3. ip[r][e[2]] \in Nat
        BY <2>1, CounterFacts
      <4> QED
        BY <2>1, <4>2, <4>3
    <3>3. ip[r][e[2]] \in Nat
      BY <2>1, CounterFacts
    <3> QED
      BY <1>0, <2>1, <2>2, <2>3, <2>5, <3>1, <3>2, <3>3
  <2> QED
    BY <2>4, <2>5
<1> HIDE DEF k
<1>7. ASSUME NEW e \in StepsOf(prog)
      PROVE  (Has(Passing(e))' <=> Has(Passing(e))) /\ Passing(e) # Calling(<<r, k>>)
  BY <1>6, HasFacts DEF Has, Passing, Calling, IsPassing
<1>8. ASSUME NEW l \in CallsOf(prog)
      PROVE  Has(Calling(l))' <=> Has(Calling(l)) \/ Calling(l) = Calling(<<r, k>>)
  <2>1. l = <<l[1], l[2]>> /\ l[1] \in Ranks /\ l[2] \in Nat
    BY <1>0 DEF CallsOf, Ranks
  <2>2. Has(Calling(l)) <=> call[l[1]] >= l[2]
    BY HasFacts
  <2>3. Has(Calling(l))' <=> call'[l[1]] >= l[2]
    BY DEF Has, Calling, IsPassing, IsCalling
  <2>4. Calling(l) = Calling(<<r, k>>) <=> l[1] = r /\ l[2] = k
    BY <2>1 DEF Calling
  <2>5. call'[r] = call[r] + 1 /\ \A q \in Ranks \ {r} : call'[q] = call[q]
    BY LaunchSteps
  <2> QED
    BY <1>0, <2>1, <2>2, <2>3, <2>4, <2>5 DEF k
<1>9. ASSUME NEW y \in Sent(prog)
      PROVE  (Has(Arriving(y))' <=> Has(Arriving(y))) /\ Arriving(y) # Calling(<<r, k>>)
  <2>1. y[1] \in StepsOf(prog)
    BY SentFacts
  <2>2. Has(Arriving(y)) <=> StepPast(y[1]) /\ y[2] \notin puts
    BY HasFacts
  <2>3. Has(Arriving(y))' <=> StepPast(y[1])' /\ y[2] \notin puts'
    BY DEF Has, Arriving, IsPassing, IsCalling
  <2>4. Arriving(y) # Calling(<<r, k>>)
    BY DEF Arriving, Calling
  <2> QED
    BY <1>0, <1>6, <2>1, <2>2, <2>3, <2>4
<1>10. \A ev \in EventsOf(prog) : Has(ev)' <=> Has(ev) \/ ev = Calling(<<r, k>>)
  BY <1>7, <1>8, <1>9, EventKinds
<1>11. Been' = Been \cup {Calling(<<r, k>>)}
  BY <1>0, <1>2, <1>10 DEF Been
<1> QED
  BY <1>0, <1>2, <1>3, <1>5, <1>11 DEF Happens, k

LEMMA DeliverHappens ==
    ASSUME Types, PutsApart(prog), PutsSent, NEW p \in puts, Deliver(p)
    PROVE  \E y \in Sent(prog) : y[2] = p /\ Happens(Arriving(y))
<1>1. PICK s \in StepsOf(prog) : p \in Sends(prog, s) /\ StepPast(s)
  BY DEF PutsSent
<1> DEFINE y == <<s, p>>
<1>2. y \in Sent(prog) /\ y[1] = s /\ y[2] = p
  BY <1>1, SentOf
<1> HIDE DEF y
<1>3. /\ Arriving(y) \in EventsOf(prog) /\ ~IsPassing(Arriving(y)) /\ ~IsCalling(Arriving(y))
      /\ Arriving(y)[2] = y
  BY <1>2, EventFacts
<1>4. UNCHANGED <<prog, call, ip>> /\ puts' = puts \ {p} /\ EventsOf(prog)' = EventsOf(prog)
  BY DEF Deliver, host, ctas
<1>5. Arriving(y) \notin Been
  BY <1>2, HasFacts DEF Been
<1>6. PutBy(prog, Arriving(y)) = {Cell(p.dst, p.slot, c, p.value) : c \in CTAsOf(prog)}
  BY <1>2, <1>3 DEF PutBy
<1>7. data' = Written(PutBy(prog, Arriving(y)))
  BY <1>6 DEF Deliver, CTAs
<1>8. \A e : StepPast(e)' <=> StepPast(e)
  BY <1>4 DEF StepPast, CTAPast, \prec
<1>9. ASSUME NEW e \in StepsOf(prog)
      PROVE  (Has(Passing(e))' <=> Has(Passing(e))) /\ Passing(e) # Arriving(y)
  BY <1>8, HasFacts DEF Has, Passing, Arriving, IsPassing
<1>10. ASSUME NEW l \in CallsOf(prog)
      PROVE  (Has(Calling(l))' <=> Has(Calling(l))) /\ Calling(l) # Arriving(y)
  BY <1>4 DEF Has, Calling, Arriving, IsPassing, IsCalling
<1>11. ASSUME NEW z \in Sent(prog)
      PROVE  Has(Arriving(z))' <=> Has(Arriving(z)) \/ Arriving(z) = Arriving(y)
  <2>1. Has(Arriving(z)) <=> StepPast(z[1]) /\ z[2] \notin puts
    BY HasFacts
  <2>2. Has(Arriving(z))' <=> StepPast(z[1])' /\ z[2] \notin puts'
    BY DEF Has, Arriving, IsPassing, IsCalling
  <2>3. Arriving(z) = Arriving(y) <=> z = y
    BY DEF Arriving
  <2>4. z[2] = p => z = y
    BY <1>2 DEF PutsApart
  <2> QED
    BY <1>1, <1>2, <1>4, <1>8, <2>1, <2>2, <2>3, <2>4
<1>12. \A ev \in EventsOf(prog) : Has(ev)' <=> Has(ev) \/ ev = Arriving(y)
  BY <1>9, <1>10, <1>11, EventKinds
<1>13. Been' = Been \cup {Arriving(y)}
  BY <1>3, <1>4, <1>12 DEF Been
<1> QED
  BY <1>2, <1>3, <1>4, <1>5, <1>7, <1>13 DEF Happens

------------------------------------------------------------------------------
(* All that must have been before an event has been.                       *)
LEMMA OwnBeen ==
    ASSUME Types, InOrder, NEW r \in Ranks, NEW c \in CTAs, Running(r, c)
    PROVE  Own(Bf, Here(r, c)) \subseteq Been
<1>1. /\ Here(r, c)[1] = r /\ Here(r, c)[2] = c
      /\ Here(r, c)[3][1] = call[r] /\ Here(r, c)[3][2] = ip[r][c]
  BY HereFacts
<1>2. /\ call[r] \in 1 .. Len(prog.calls) /\ ip[r][c] \in 1 .. Len(prog.calls[call[r]].code)
      /\ Len(prog.calls[call[r]].code) \in Nat
  BY InstrFacts, CallFacts DEF Running, Kernel
<1>3. ip[r][c] - 1 \in 0 .. Len(prog.calls[call[r]].code) /\ ip[r][c] > ip[r][c] - 1
  BY <1>2
<1>4. Reached(r, c, call[r], ip[r][c] - 1) \in Been
  BY <1>2, <1>3, ReachedBeen
<1> QED
  BY <1>1, <1>4, WithBeen DEF Own

LEMMA MetBeen ==
    ASSUME IInv, InOrder, [Next]_vars, NEW r \in Ranks, NEW c \in CTAs, PassStep(r, c)
    PROVE  Met(prog, Bf, Here(r, c)) \subseteq Been
<1> DEFINE h == Here(r, c)
<1>0. Types /\ Running(r, c)
  BY DEF IInv, PassStep
<1>1. /\ h \in StepsOf(prog) /\ h[2] = c /\ h[3] = <<call[r], ip[r][c]>> /\ h[3] \in Positions(prog)
      /\ h[3][1] = call[r] /\ h[3][2] = ip[r][c] /\ InstrAt(prog, h[3]) = Instr(r, c)
  BY <1>0, HereFacts, StepFacts DEF Types
<1> HIDE DEF h
<1> SUFFICES ASSUME Instr(r, c).op \in Meetings, c = 0 PROVE Met(prog, Bf, h) \subseteq Been
  BY <1>1 DEF Met, h
<1>2. /\ call[r] \in 1 .. Len(prog.calls) /\ ip[r][0] \in 1 .. Len(prog.calls[call[r]].code)
      /\ Len(prog.calls[call[r]].code) \in Nat /\ 0 \in CTAs
  BY <1>0, InstrFacts, CallFacts, RanksAndCTAs DEF Running, Kernel, Types
<1>3. ip[r][0] - 1 \in 0 .. Len(prog.calls[call[r]].code) /\ ip[r][0] > ip[r][0] - 1
  BY <1>2
<1>4. Meet' /\ prog' = prog /\ Ranks' = Ranks
  BY TypesKept, LocalKept, MeetKept, ProgramKept DEF IInv, Ranks
<1>5. PICK x \in Positions(prog) : x = h[3]
  BY <1>1
<1>6. ASSUME NEW q \in Ranks PROVE Reached(q, 0, call[r], ip[r][0] - 1) \in Been
  <2>1. CASE q = r
    BY <1>0, <1>2, <1>3, <2>1, ReachedBeen
  <2>2. CASE q # r
    <3>1. NobodyAhead(q, r)'
      BY <1>4 DEF Meet
    <3>2. Past(r, x)'
      <4>1. On(r, x)
        BY <1>1, <1>5 DEF On, Where
      <4> QED
        BY <1>0, <4>1, GotoMoves DEF PassStep
    <3>3. Come(q, x)'
      BY <1>1, <1>5, <1>4, <2>2, <3>1, <3>2 DEF NobodyAhead
    <3>4. call'[q] = call[q] /\ ip'[q][0] = ip[q][0]
      BY <1>0, <2>2 DEF PassStep, Goto, Types, TypeOK
    <3>5. Past(q, x) \/ On(q, x)
      BY <3>3, <3>4 DEF Come, Past, On, Where, \prec
    <3>6. /\ Past(q, x) <=> x[1] < call[q] \/ (x[1] = call[q] /\ x[2] < ip[q][0])
          /\ On(q, x) => x[1] = call[q] /\ x[2] = ip[q][0]
      BY <1>1, <1>5 DEF Past, On, Where, \prec
    <3>7. call[q] \in Nat /\ ip[q][0] \in Nat
      BY <1>0, <1>2, CounterFacts
    <3>8. call[q] > call[r] \/ (call[q] = call[r] /\ ip[q][0] > ip[r][0] - 1)
      BY <1>1, <1>5, <1>2, <3>5, <3>6, <3>7
    <3> QED
      BY <1>0, <1>2, <1>3, <3>8, ReachedBeen
  <2> QED
    BY <2>1, <2>2
<1>7. {Reached(q, 0, h[3][1], h[3][2] - 1) : q \in RanksOf(prog)} \subseteq Been
  BY <1>1, <1>6 DEF Ranks
<1> QED
  BY <1>7, WithBeen DEF Met

LEMMA GatheredBeen ==
    ASSUME IInv, InOrder, [Next]_vars, NEW r \in Ranks, NEW c \in CTAs, PassStep(r, c)
    PROVE  Gathered(prog, Bf, Here(r, c)) \subseteq Been
<1> DEFINE h == Here(r, c)
<1>0. Types /\ Running(r, c)
  BY DEF IInv, PassStep
<1>1. /\ h[1] = r /\ h[3][1] = call[r] /\ h[3][2] = ip[r][c] /\ InstrAt(prog, h[3]) = Instr(r, c)
  BY <1>0, HereFacts
<1> HIDE DEF h
<1> SUFFICES ASSUME Instr(r, c).op = "grid" PROVE Gathered(prog, Bf, h) \subseteq Been
  BY <1>1 DEF Gathered, h
<1>2. /\ call[r] \in 1 .. Len(prog.calls) /\ ip[r][c] \in 1 .. Len(prog.calls[call[r]].code)
      /\ Len(prog.calls[call[r]].code) \in Nat
  BY <1>0, InstrFacts, CallFacts DEF Running, Kernel
<1>3. ip[r][c] - 1 \in 0 .. Len(prog.calls[call[r]].code) /\ ip[r][c] > ip[r][c] - 1
  BY <1>2
<1>4. GridMeets' /\ prog' = prog /\ Ranks' = Ranks /\ CTAs' = CTAs /\ call' = call
  <2>1. IInv'
    BY TypesKept, LocalKept, MeetKept DEF IInv
  <2>2. IInv' => GridMeets'
    BY AllMeet, PTL
  <2> QED
    BY <2>1, <2>2, ProgramKept DEF Ranks, CTAs, PassStep
<1>5. ASSUME NEW d \in CTAs PROVE Reached(r, d, call[r], ip[r][c] - 1) \in Been
  <2>1. CASE d = c
    BY <1>0, <1>2, <1>3, <2>1, ReachedBeen
  <2>2. CASE d # c
    <3>1. ip'[r][c] = ip[r][c] + 1 /\ ip'[r][d] = ip[r][d]
      BY <1>0, <2>2 DEF PassStep, Goto, Types, TypeOK
    <3>2. Launched(r)' /\ Kernel(r)' = Kernel(r)
      BY <1>0, <1>4 DEF Running, Launched, Kernel
    <3>3. ip[r][c] \in 1 .. Len(Kernel(r).code) /\ Kernel(r).code[ip[r][c]].op = "grid"
      BY <1>2 DEF Kernel, Instr
    <3>4. ip'[r][d] > ip[r][c] \/ ip'[r][d] = ip[r][c]
      BY <1>2, <1>4, <3>1, <3>2, <3>3 DEF GridMeets
    <3>5. ip[r][d] \in Nat
      BY <1>0, CounterFacts
    <3>6. ip[r][d] > ip[r][c] - 1
      BY <1>2, <3>1, <3>4, <3>5
    <3> QED
      BY <1>0, <1>2, <1>3, <3>6, ReachedBeen
  <2> QED
    BY <2>1, <2>2
<1>6. {Reached(h[1], d, h[3][1], h[3][2] - 1) : d \in CTAsOf(prog)} \subseteq Been
  BY <1>1, <1>5 DEF CTAs
<1> QED
  BY <1>6, WithBeen DEF Gathered

LEMMA HeardBeen ==
    ASSUME Types, InOrder, SignalsTell, NEW r \in Ranks, NEW c \in CTAs, PassStep(r, c)
    PROVE  Heard(prog, Bf, Here(r, c)) \subseteq Been
<1> DEFINE e == Here(r, c)
<1>0. Running(r, c)
  BY DEF PassStep
<1>1. /\ e[1] = r /\ InstrAt(prog, e[3]) = Instr(r, c) /\ e \in StepsOf(prog) /\ ~StepPast(e)
      /\ Passing(e) \notin Been
  BY <1>0, HereFacts, HasFacts DEF Been
<1>2. Own(Bf, e) \subseteq Been
  BY <1>0, OwnBeen
<1> HIDE DEF e
<1> SUFFICES ASSUME Instr(r, c).op = "await" PROVE Heard(prog, Bf, e) \subseteq Been
  BY <1>1 DEF Heard, e
<1> DEFINE h == Instr(r, c).half
<1>3. IsInstruction(Instr(r, c))
  BY <1>0, InstrFacts
<1>4. h \in Rows
  BY <1>3 DEF IsInstruction, DataOps
<1>5. \A t \in Ranks : flag[r][h][t] = 1 \/ (t = r /\ ~Instr(r, c).self)
  BY DEF PassStep
<1> HIDE DEF h
<1>6. ASSUME NEW q \in RanksOf(prog), q # e[1] \/ InstrAt(prog, e[3]).self,
             NEW y \in Told(prog, Bf, e, q)
      PROVE  Arriving(y) \in Been
  <2>1. flag[r][h][q] = 1
    BY <1>1, <1>5, <1>6 DEF Ranks
  <2>2. PICK z \in Positions(prog) : /\ Clears(prog, z, h) /\ Passing(<<r, 0, z>>) \in Own(Bf, e)
                                     /\ Possible(prog, Bf, e, q, z) = {y}
    BY <1>1, <1>6 DEF Told, h
  <2>3. CTAPast(r, 0, z)
    <3>1. Passing(<<r, 0, z>>) \in Been
      BY <1>2, <2>2
    <3>2. StepPast(<<r, 0, z>>)
      BY <3>1, HasFacts DEF Been
    <3> QED
      BY <3>2 DEF StepPast
  <2>4. PICK v \in SignalsFrom(prog, q, r, h) :
            Arriving(v) \in Been /\ Arriving(v) \notin Bf[Passing(<<r, 0, z>>)]
    BY <1>4, <2>1, <2>2, <2>3 DEF SignalsTell, Ranks
  <2>5. Passing(e) \notin Bf[Arriving(v)]
    BY <1>1, <2>4 DEF InOrder
  <2>6. v \in Possible(prog, Bf, e, q, z)
    BY <1>1, <2>4, <2>5 DEF Possible, h
  <2> QED
    BY <2>2, <2>4, <2>6
<1>7. {Arriving(y) : y \in UNION {Told(prog, Bf, e, q) :
                    q \in {q \in RanksOf(prog) : q # e[1] \/ InstrAt(prog, e[3]).self}}} \subseteq Been
  BY <1>6
<1> QED
  BY <1>7, WithBeen DEF Heard

LEMMA PassGained ==
    ASSUME IInv, InOrder, SignalsTell, [Next]_vars, NEW r \in Ranks, NEW c \in CTAs, PassStep(r, c)
    PROVE  Gained(prog, Bf, Passing(Here(r, c))) \subseteq Been
<1>1. Types /\ Running(r, c)
  BY DEF IInv, PassStep
<1>2. /\ Own(Bf, Here(r, c)) \subseteq Been /\ Met(prog, Bf, Here(r, c)) \subseteq Been
      /\ Gathered(prog, Bf, Here(r, c)) \subseteq Been /\ Heard(prog, Bf, Here(r, c)) \subseteq Been
  BY <1>1, OwnBeen, MetBeen, GatheredBeen, HeardBeen
<1>3. IsPassing(Passing(Here(r, c))) /\ Passing(Here(r, c))[2] = Here(r, c)
  BY <1>1, HereFacts, EventFacts
<1> QED
  BY <1>2, <1>3 DEF Gained

LEMMA EndedBeen ==
    ASSUME Types, NEW r \in Ranks, Launched(r), KernelEnded(r)
    PROVE  Ended(prog, r, call[r]) \subseteq Been
<1>1. /\ call[r] \in 1 .. Len(prog.calls) /\ Len(prog.calls[call[r]].code) \in Nat
  BY CallFacts DEF Kernel
<1>2. ASSUME NEW c \in CTAs PROVE Reached(r, c, call[r], Len(prog.calls[call[r]].code)) \in Been
  <2>1. ip[r][c] > Len(prog.calls[call[r]].code)
    BY DEF KernelEnded, Kernel
  <2>2. Len(prog.calls[call[r]].code) \in 0 .. Len(prog.calls[call[r]].code)
    BY <1>1
  <2> QED
    BY <1>1, <2>1, <2>2, ReachedBeen
<1> QED
  BY <1>2 DEF Ended, CTAs

(* What has been before a launch; the one after the last call too.         *)
LEMMA CallGained ==
    ASSUME Types, InOrder, NEW r \in Ranks, Launched(r) => KernelEnded(r)
    PROVE  /\ <<r, call[r] + 1>> \in CallsOf(prog)
           /\ Gained(prog, Bf, Calling(<<r, call[r] + 1>>)) \subseteq Been
<1>1. call[r] \in 0 .. Len(prog.calls) /\ call[r] \in Nat /\ Len(prog.calls) \in Nat
  BY CounterFacts
<1>2. <<r, call[r] + 1>> \in CallsOf(prog)
  BY <1>1 DEF CallsOf, Ranks
<1> DEFINE ev == Calling(<<r, call[r] + 1>>)
<1>3. ~IsPassing(ev) /\ IsCalling(ev) /\ ev[2][1] = r /\ ev[2][2] = call[r] + 1
  <2>1. ~IsPassing(ev) /\ IsCalling(ev) /\ ev[2] = <<r, call[r] + 1>>
    BY <1>2, EventFacts
  <2> QED
    BY <2>1
<1> HIDE DEF ev
<1>4. Gained(prog, Bf, ev) \subseteq Been
  <2>1. CASE call[r] = 0
    BY <1>3, <2>1 DEF Gained
  <2>2. CASE call[r] # 0
    <3>1. Launched(r) /\ ev[2][2] - 1 = call[r] /\ ev[2][2] # 1
      BY <1>1, <1>3, <2>2 DEF Launched
    <3>2. Gained(prog, Bf, ev) = With(Bf, Ended(prog, r, call[r]))
      BY <1>3, <3>1 DEF Gained
    <3> QED
      BY <3>1, <3>2, EndedBeen, WithBeen
  <2> QED
    BY <2>1, <2>2
<1> QED
  BY <1>2, <1>4 DEF ev

LEMMA ArriveGained ==
    ASSUME InOrder, NEW y \in Sent(prog), StepPast(y[1])
    PROVE  Gained(prog, Bf, Arriving(y)) \subseteq Been
<1>1. /\ ~IsPassing(Arriving(y)) /\ ~IsCalling(Arriving(y)) /\ Arriving(y)[2] = y /\ y[1] \in StepsOf(prog)
  BY EventFacts, SentFacts
<1>2. Passing(y[1]) \in Been
  BY <1>1, EventFacts, HasFacts DEF Been
<1> QED
  BY <1>1, <1>2, WithBeen DEF Gained

LEMMA HappensInOrder ==
    ASSUME Known(prog, Bf), InOrder, NEW ev, Happens(ev), Gained(prog, Bf, ev) \subseteq Been
    PROVE  InOrder' /\ Bf[ev] \subseteq Been
<1>1. Bf' = Bf
  BY DEF Happens, Bf
<1>2. Bf[ev] \subseteq Been
  BY DEF Known, Happens
<1> QED
  BY <1>1, <1>2 DEF InOrder, Happens

------------------------------------------------------------------------------
(* What the buffers hold.                                                  *)
LEMMA WrittenCell ==
    ASSUME NEW W, NEW x, x.rank \in Ranks, x.slot \in Slots, x.part \in CTAs
    PROVE  /\ (\A w \in W : ~SameCell(x, w)) =>
                  Written(W)[x.rank][x.slot][x.part] = data[x.rank][x.slot][x.part]
           /\ x \in W /\ (\A w \in W : SameCell(x, w) => w = x) =>
                  Written(W)[x.rank][x.slot][x.part] = x.value
<1> DEFINE d == x.rank
           s == x.slot
           c == x.part
           hit(w) == w.rank = d /\ w.slot = s /\ w.part = c
<1>1. \A w : SameCell(x, w) <=> hit(w)
  BY DEF SameCell
<1>2. CASE W = {}
  BY <1>2 DEF Written
<1>3. CASE W # {}
  <2>1. Written(W)[d][s][c] = IF \E w \in W : hit(w) THEN (CHOOSE w \in W : hit(w)).value ELSE data[d][s][c]
    BY <1>3 DEF Written
  <2> HIDE DEF d, s, c, hit
  <2>2. CASE \A w \in W : ~SameCell(x, w)
    <3>1. ~\E w \in W : hit(w)
      BY <1>1, <2>2
    <3>2. ~(x \in W /\ \A w \in W : SameCell(x, w) => w = x)
      BY <2>2 DEF SameCell
    <3> QED
      BY <2>1, <3>1, <3>2 DEF d, s, c
  <2>3. CASE x \in W /\ \A w \in W : SameCell(x, w) => w = x
    <3>1. hit(x)
      BY DEF hit, d, s, c
    <3>2. (CHOOSE w \in W : hit(w)) \in W /\ hit(CHOOSE w \in W : hit(w))
      BY <2>3, <3>1
    <3>3. (CHOOSE w \in W : hit(w)) = x
      BY <1>1, <2>3, <3>2
    <3> QED
      BY <1>1, <2>1, <2>3, <3>1, <3>3 DEF d, s, c
  <2> QED
    BY <2>2, <2>3
<1> QED
  BY <1>2, <1>3

LEMMA TakenInRange ==
    ASSUME prog \in Programs, NEW ev \in EventsOf(prog), NEW x \in TakenBy(prog, ev)
    PROVE  x.rank \in Ranks /\ x.slot \in Slots /\ x.part \in CTAs
<1> DEFINE n == prog.ranks
<1>1. n \in Nat \ {0} /\ Ranks = 0 .. n - 1 /\ Slots = 0 .. 2 * n - 1
  BY RanksAndCTAs DEF Ranks, RanksOf, Slots
<1>2. \A q \in Ranks : q \in Slots /\ n + q \in Slots
  BY <1>1
<1>3. ASSUME NEW e \in StepsOf(prog), ev = Passing(e)
      PROVE  x.rank \in Ranks /\ x.slot \in Slots /\ x.part \in CTAs
  <2> DEFINE op == InstrAt(prog, e[3]).op
             k == e[3][1]
  <2>1. x \in Reads(prog, k, e[1], e[2], op) /\ e[1] \in Ranks /\ e[2] \in CTAs
    <3>1. IsPassing(ev) /\ ev[2] = e
      BY <1>3, EventFacts
    <3> QED
      BY <3>1, StepFacts DEF TakenBy
  <2> HIDE DEF op, k, n
  <2>2. CASE op = "ld_reduce"
    <3>1. PICK q \in Ranks : x = Cell(q, q, e[2], Input(k))
      BY <2>1, <2>2 DEF Reads, Ranks
    <3> QED
      BY <1>2, <2>1, <3>1 DEF Cell
  <2>3. CASE op = "reduce_st"
    <3>1. PICK q \in Ranks : x = Cell(q, e[1], e[2], Input(k))
      BY <2>1, <2>3 DEF Reads, Ranks
    <3> QED
      BY <1>2, <2>1, <3>1 DEF Cell
  <2>4. CASE op \in {"ring_reduce", "reduce_slice"}
    <3>1. PICK q \in Ranks : x = Cell(e[1], q, e[2], Input(k))
      BY <2>1, <2>4 DEF Reads, Ranks
    <3> QED
      BY <1>2, <2>1, <3>1 DEF Cell
  <2>5. CASE op = "push_slice"
    <3>1. PICK d \in CTAs : x = Cell(e[1], n + e[1], d, Reduced(k))
      BY <2>1, <2>5 DEF Reads, CTAs, n
    <3> QED
      BY <1>2, <2>1, <3>1 DEF Cell
  <2>6. CASE op = "copy_out"
    <3>1. PICK q \in Ranks, d \in CTAs : x = Cell(e[1], n + q, d, Reduced(k))
      BY <2>1, <2>6 DEF Reads, CTAs, Ranks, n
    <3> QED
      BY <1>2, <2>1, <3>1 DEF Cell
  <2>7. CASE op \notin {"ld_reduce", "reduce_st", "ring_reduce", "reduce_slice", "push_slice", "copy_out"}
    BY <2>1, <2>7 DEF Reads
  <2> QED
    BY <2>2, <2>3, <2>4, <2>5, <2>6, <2>7
<1>4. ASSUME NEW l \in CallsOf(prog), ev = Calling(l)
      PROVE  x.rank \in Ranks /\ x.slot \in Slots /\ x.part \in CTAs
  <2>1. ~IsPassing(ev) /\ ev[2] = l /\ l[1] \in Ranks
    BY <1>4, EventFacts DEF CallsOf, Ranks
  <2>2. PICK s \in Ranks, c \in CTAs : x = Cell(l[1], s, c, Reduced(l[2] - 1))
    BY <2>1 DEF TakenBy, Ranks, CTAs
  <2> QED
    BY <1>2, <2>1, <2>2 DEF Cell
<1>5. ASSUME NEW y \in Sent(prog), ev = Arriving(y) PROVE FALSE
  BY <1>5, EventFacts DEF TakenBy
<1> QED
  BY <1>3, <1>4, <1>5, EventKinds

LEMMA FedAfter ==
    ASSUME Types, InOrder, CellsFed, NEW ev, Happens(ev), Bf[ev] \subseteq Been
    PROVE  CellsFed'
<1>1. /\ prog' = prog /\ Bf' = Bf /\ EventsOf(prog)' = EventsOf(prog) /\ Been' = Been \cup {ev}
      /\ ev \in EventsOf(prog) /\ ev \notin Been /\ data' = Written(PutBy(prog, ev))
  BY DEF Happens, Bf
<1> SUFFICES ASSUME NEW f \in EventsOf(prog), f \notin Been, f # ev, NEW x \in TakenBy(prog, f),
                    NEW w \in Been \cup {ev}, Feeds(prog, Bf, w, f, x)
             PROVE  data'[x.rank][x.slot][x.part] = x.value
  BY <1>1 DEF CellsFed
<1>2. x.rank \in Ranks /\ x.slot \in Slots /\ x.part \in CTAs
  BY TakenInRange DEF Types
<1>3. CASE w = ev
  <2>1. x \in PutBy(prog, ev) /\ \A y \in PutBy(prog, ev) : SameCell(x, y) => y = x
    BY <1>3 DEF Feeds
  <2> QED
    BY <1>1, <1>2, <2>1, WrittenCell
<1>4. CASE w # ev
  <2>1. w \in Been /\ data[x.rank][x.slot][x.part] = x.value
    BY <1>4 DEF CellsFed
  <2>2. ASSUME NEW y \in PutBy(prog, ev), SameCell(x, y) PROVE FALSE
    <3>1. ev \in Bf[w] \cup {w} \/ f \in Bf[ev] \cup {ev}
      BY <1>1, <2>2 DEF Feeds
    <3>2. Bf[w] \subseteq Been
      BY <2>1 DEF InOrder
    <3> QED
      BY <1>1, <1>4, <3>1, <3>2
  <2> QED
    BY <1>1, <1>2, <2>1, <2>2, WrittenCell
<1> QED
  BY <1>3, <1>4

------------------------------------------------------------------------------
(* The signals.                                                            *)
LEMMA StillReduces ==
    ASSUME Types, Reducing, Reduces, StillStep
    PROVE  Reduces'
<1>1. /\ UNCHANGED <<prog, call, ip, puts, data>> /\ Bf' = Bf /\ Ranks' = Ranks /\ CTAs' = CTAs
      /\ EventsOf(prog)' = EventsOf(prog)
  BY DEF StillStep, Bf, Ranks, CTAs
<1>2. \A r, c, x : CTAPast(r, c, x)' <=> CTAPast(r, c, x)
  BY <1>1 DEF CTAPast, \prec
<1>3. \A e : StepPast(e)' <=> StepPast(e)
  BY <1>1 DEF StepPast, CTAPast, \prec
<1>4. \A ev : Has(ev)' <=> Has(ev)
  BY <1>1, <1>3 DEF Has
<1>5. Been' = Been
  BY <1>1, <1>4 DEF Been
<1>6. InOrder' /\ CellsFed'
  BY <1>1, <1>5 DEF Reduces, InOrder, CellsFed
<1>7. PutsSent'
  BY <1>1, <1>3 DEF Reduces, PutsSent
<1>8. SignalsTell'
  BY <1>1, <1>2, <1>5 DEF Reduces, SignalsTell, StillStep
<1> QED
  BY <1>6, <1>7, <1>8 DEF Reduces

LEMMA LaunchReduces ==
    ASSUME Types, Reducing, Reduces, NEW r \in Ranks, Launch(r)
    PROVE  Reduces'
<1> DEFINE ev == Calling(<<r, call[r] + 1>>)
<1>0. /\ InOrder /\ PutsSent /\ SignalsTell /\ CellsFed /\ Known(prog, Bf)
  BY DEF Reduces, Reducing, ReducesInOrder
<1>1. Happens(ev)
  BY LaunchHappens
<1>2. Gained(prog, Bf, ev) \subseteq Been
  BY <1>0, CallGained DEF Launch, Finished
<1> HIDE DEF ev
<1>3. InOrder' /\ Bf[ev] \subseteq Been
  BY <1>0, <1>1, <1>2, HappensInOrder
<1>4. CellsFed'
  BY <1>0, <1>1, <1>3, FedAfter
<1>5. /\ prog' = prog /\ puts' = puts /\ flag' = flag /\ Bf' = Bf /\ Ranks' = Ranks
      /\ Been \subseteq Been'
  BY <1>1 DEF Launch, flags, Happens, Bf, Ranks
<1>6. ASSUME NEW e \in StepsOf(prog) PROVE StepPast(e)' <=> StepPast(e)
  <2>1. Passing(e) \in EventsOf(prog) /\ Passing(e) # ev
    BY EventFacts DEF ev, Passing, Calling
  <2>2. Passing(e) \in Been' <=> Passing(e) \in Been
    BY <1>1, <2>1 DEF Happens
  <2>3. Has(Passing(e)) <=> StepPast(e)
    BY HasFacts
  <2>4. Has(Passing(e))' <=> StepPast(e)'
    BY DEF Has, Passing, IsPassing
  <2>5. EventsOf(prog)' = EventsOf(prog)
    BY <1>5
  <2> QED
    BY <2>1, <2>2, <2>3, <2>4, <2>5 DEF Been
<1>7. PutsSent'
  BY <1>0, <1>5, <1>6 DEF PutsSent
<1>8. SignalsTell'
  <2> SUFFICES ASSUME NEW d \in Ranks, NEW q \in Ranks, NEW h \in Rows, NEW z \in Positions(prog),
                      Clears(prog, z, h), CTAPast(d, 0, z)', flag[d][h][q] = 1
               PROVE  \E y \in SignalsFrom(prog, q, d, h) :
                          Arriving(y) \in Been' /\ Arriving(y) \notin Bf[Passing(<<d, 0, z>>)]
    BY <1>5 DEF SignalsTell
  <2>1. <<d, 0, z>> \in StepsOf(prog)
    BY RanksAndCTAs DEF StepsOf, Ranks, CTAs, Types
  <2>2. StepPast(<<d, 0, z>>)'
    BY DEF StepPast
  <2>3. CTAPast(d, 0, z)
    BY <1>6, <2>1, <2>2 DEF StepPast
  <2> QED
    BY <1>0, <1>5, <2>3 DEF SignalsTell
<1> QED
  BY <1>3, <1>4, <1>7, <1>8 DEF Reduces

LEMMA DeliverReduces ==
    ASSUME Types, Reducing, Reduces, NEW p \in puts, Deliver(p)
    PROVE  Reduces'
<1>0. /\ InOrder /\ PutsSent /\ SignalsTell /\ CellsFed /\ Known(prog, Bf) /\ PutsApart(prog)
  BY DEF Reduces, Reducing, ReducesInOrder
<1>1. PICK y \in Sent(prog) : y[2] = p /\ Happens(Arriving(y))
  BY <1>0, DeliverHappens
<1>2. /\ UNCHANGED <<prog, call, ip>> /\ puts' = puts \ {p} /\ Bf' = Bf /\ Ranks' = Ranks
      /\ EventsOf(prog)' = EventsOf(prog)
      /\ flag' = [flag EXCEPT ![p.dst][p.half][p.src] = 1]
      /\ Been' = Been \cup {Arriving(y)} /\ Arriving(y) \notin Been
  BY <1>1 DEF Deliver, host, ctas, Happens, Bf, Ranks
<1>3. \A e : StepPast(e)' <=> StepPast(e)
  BY <1>2 DEF StepPast, CTAPast, \prec
<1>4. StepPast(y[1])
  <2>1. Arriving(y) \in EventsOf(prog) /\ Arriving(y) \in Been'
    BY <1>2, EventFacts
  <2>2. Has(Arriving(y))'
    BY <2>1 DEF Been
  <2>3. StepPast(y[1])'
    BY <2>2 DEF Has, Arriving, IsPassing, IsCalling
  <2> QED
    BY <1>3, <2>3
<1>5. Gained(prog, Bf, Arriving(y)) \subseteq Been
  BY <1>0, <1>4, ArriveGained
<1>6. InOrder' /\ Bf[Arriving(y)] \subseteq Been
  BY <1>0, <1>1, <1>5, HappensInOrder
<1>7. CellsFed'
  BY <1>0, <1>1, <1>6, FedAfter
<1>8. PutsSent'
  BY <1>0, <1>2, <1>3 DEF PutsSent
<1>9. SignalsTell'
  <2> SUFFICES ASSUME NEW d \in Ranks, NEW q \in Ranks, NEW h \in Rows, NEW z \in Positions(prog),
                      Clears(prog, z, h), CTAPast(d, 0, z)', flag'[d][h][q] = 1
               PROVE  \E v \in SignalsFrom(prog, q, d, h) :
                          Arriving(v) \in Been' /\ Arriving(v) \notin Bf[Passing(<<d, 0, z>>)]
    BY <1>2 DEF SignalsTell
  <2>1. CTAPast(d, 0, z)
    BY <1>2 DEF CTAPast, \prec
  <2>2. CASE flag[d][h][q] = 1
    BY <1>0, <1>2, <2>1, <2>2 DEF SignalsTell
  <2>3. CASE flag[d][h][q] # 1
    <3>1. d = p.dst /\ h = p.half /\ q = p.src
      <4>1. flag \in [Ranks -> [Rows -> [Ranks -> Nat]]]
        BY DEF Types, TypeOK
      <4>2. flag'[d][h][q] = IF d = p.dst /\ h = p.half /\ q = p.src THEN 1 ELSE flag[d][h][q]
        BY <1>2, <4>1
      <4> QED
        BY <2>3, <4>2
    <3>2. y \in SignalsFrom(prog, q, d, h)
      BY <1>1, <3>1 DEF SignalsFrom
    <3>3. <<d, 0, z>> \in StepsOf(prog)
      BY RanksAndCTAs DEF StepsOf, Ranks, CTAs, Types
    <3>4. Passing(<<d, 0, z>>) \in Been
      BY <2>1, <3>3, EventFacts, HasFacts DEF Been, StepPast
    <3> QED
      BY <1>0, <1>2, <3>2, <3>4 DEF InOrder
  <2> QED
    BY <2>2, <2>3
<1> QED
  BY <1>6, <1>7, <1>8, <1>9 DEF Reduces

LEMMA PassReduces ==
    ASSUME IInv, Reducing, Reduces, [Next]_vars, NEW r \in Ranks, NEW c \in CTAs, PassStep(r, c)
    PROVE  Reduces'
<1> DEFINE h == Here(r, c)
<1>0. /\ Types /\ Running(r, c)
      /\ InOrder /\ PutsSent /\ SignalsTell /\ CellsFed /\ Known(prog, Bf) /\ PutsApart(prog)
  BY DEF IInv, Reduces, Reducing, ReducesInOrder, PassStep
<1>1. /\ Happens(Passing(h)) /\ Gained(prog, Bf, Passing(h)) \subseteq Been /\ h \in StepsOf(prog)
      /\ h[3] = <<call[r], ip[r][c]>>
  BY <1>0, PassHappens, PassGained, HereFacts
<1> HIDE DEF h
<1>2. InOrder' /\ Bf[Passing(h)] \subseteq Been
  BY <1>0, <1>1, HappensInOrder
<1>3. CellsFed'
  BY <1>0, <1>1, <1>2, FedAfter
<1>4. \A e \in StepsOf(prog) : StepPast(e)' <=> StepPast(e) \/ e = h
  BY <1>0, PastAfterPass DEF h
<1>5. /\ prog' = prog /\ Bf' = Bf /\ Ranks' = Ranks /\ Been \subseteq Been'
      /\ puts' = puts \cup Sends(prog, h)
  BY <1>1 DEF Happens, Bf, Ranks, PassStep, h
<1>6. PutsSent'
  BY <1>0, <1>1, <1>4, <1>5 DEF PutsSent
<1>7. SignalsTell'
  <2> SUFFICES ASSUME NEW d \in Ranks, NEW q \in Ranks, NEW s \in Rows, NEW z \in Positions(prog),
                      Clears(prog, z, s), CTAPast(d, 0, z)', flag'[d][s][q] = 1
               PROVE  \E v \in SignalsFrom(prog, q, d, s) :
                          Arriving(v) \in Been' /\ Arriving(v) \notin Bf[Passing(<<d, 0, z>>)]
    BY <1>5 DEF SignalsTell
  <2>1. <<d, 0, z>> \in StepsOf(prog)
    BY <1>0, RanksAndCTAs DEF StepsOf, Ranks, CTAs, Types
  <2>2. StepPast(<<d, 0, z>>)'
    BY DEF StepPast
  <2>3. ~(d = r /\ c = 0 /\ Clears(prog, <<call[r], ip[r][c]>>, s)) /\ flag[d][s][q] = 1
    BY DEF PassStep
  <2>4. <<d, 0, z>> # h
    <3> SUFFICES ASSUME <<d, 0, z>> = h PROVE FALSE
      OBVIOUS
    <3>1. d = r /\ c = 0 /\ z = <<call[r], ip[r][c]>>
      BY DEF h, Here
    <3> QED
      BY <2>3, <3>1
  <2>5. CTAPast(d, 0, z)
    BY <1>4, <2>1, <2>2, <2>4 DEF StepPast
  <2> QED
    BY <1>0, <1>5, <2>3, <2>5 DEF SignalsTell
<1> QED
  BY <1>2, <1>3, <1>6, <1>7 DEF Reduces

(* What the invariant adds for the all-reduces.                            *)
RInv == NothingTaken(prog) \/ (Reducing /\ Reduces)

LEMMA InitReduces ==
    ASSUME AllFresh, Init
    PROVE  RInv
<1>0. Types /\ prog \in Programs
  BY InitTypes DEF Types
<1>1. CASE NothingTaken(prog)
  BY <1>1 DEF RInv
<1>2. CASE NeverGathers(prog) /\ ReducesInOrder(prog, OrderOf(prog))
  <2>1. Reducing
    BY <1>2 DEF Reducing, Bf
  <2>2. \A r \in Ranks : call[r] = 0
    BY DEF Init
  <2>3. ASSUME NEW e \in StepsOf(prog) PROVE ~StepPast(e)
    <3>1. e[1] \in Ranks /\ e[3][1] \in 1 .. Len(prog.calls) /\ Len(prog.calls) \in Nat
      BY <1>0, StepFacts
    <3>2. call[e[1]] = 0
      BY <2>2, <3>1
    <3> QED
      BY <3>1, <3>2 DEF StepPast, CTAPast, \prec
  <2>4. ASSUME NEW l \in CallsOf(prog) PROVE ~(call[l[1]] >= l[2])
    <3>1. l[1] \in Ranks /\ l[2] \in 1 .. Len(prog.calls) + 1 /\ Len(prog.calls) \in Nat
      BY <1>0, RanksAndCTAs DEF CallsOf, Ranks
    <3> QED
      BY <2>2, <3>1
  <2>5. Been = {}
    <3> SUFFICES ASSUME NEW ev \in EventsOf(prog) PROVE ~Has(ev)
      BY DEF Been
    <3>1. CASE \E e \in StepsOf(prog) : ev = Passing(e)
      BY <2>3, <3>1, HasFacts
    <3>2. CASE \E l \in CallsOf(prog) : ev = Calling(l)
      BY <2>4, <3>2, HasFacts
    <3>3. CASE \E y \in Sent(prog) : ev = Arriving(y)
      BY <2>3, <3>3, HasFacts, SentFacts
    <3> QED
      BY <3>1, <3>2, <3>3, EventKinds
  <2>6. InOrder /\ CellsFed
    BY <2>5 DEF InOrder, CellsFed
  <2>7. PutsSent
    BY DEF Init, PutsSent
  <2>8. SignalsTell
    BY DEF Init, SignalsTell
  <2> QED
    BY <2>1, <2>6, <2>7, <2>8 DEF Reduces, RInv
<1> QED
  BY <1>0, <1>1, <1>2 DEF AllFresh, Fresh

LEMMA ReducesKept ==
    ASSUME IInv, RInv, [Next]_vars
    PROVE  RInv'
<1>1. prog' = prog
  BY ProgramKept
<1>2. CASE NothingTaken(prog)
  BY <1>1, <1>2 DEF RInv
<1>3. CASE Reducing /\ Reduces
  <2>1. Types /\ NeverGathers(prog)
    BY <1>3 DEF IInv, Reducing
  <2>2. Reducing'
    BY <1>1, <1>3 DEF Reducing, Bf
  <2>3. Reduces'
    BY <1>3, <2>1, ReduceSteps, StillReduces, PassReduces, LaunchReduces, DeliverReduces
  <2> QED
    BY <2>2, <2>3 DEF RInv
<1> QED
  BY <1>2, <1>3 DEF RInv

(* A CTA reads after what fed it, a stream takes what its kernel has left. *)
LEMMA ReducesAreFresh == IInv /\ RInv => ReducesFresh
<1> SUFFICES ASSUME IInv, RInv PROVE ReducesFresh
  OBVIOUS
<1>0. Types
  BY DEF IInv
<1>1. ASSUME NEW ev \in EventsOf(prog), ev \notin Been, NEW x \in TakenBy(prog, ev),
             Reducing /\ Reduces => Gained(prog, Bf, ev) \subseteq Been
      PROVE  data[x.rank][x.slot][x.part] = x.value
  <2>1. Reducing /\ Reduces
    BY <1>1 DEF RInv, NothingTaken
  <2>2. PICK w \in EventsOf(prog) : Feeds(prog, Bf, w, ev, x)
    BY <1>1, <2>1 DEF Reducing, ReducesInOrder, ReadsAreFed
  <2>3. w \in Been
    BY <1>1, <2>1, <2>2 DEF Feeds, Reducing, ReducesInOrder, Known
  <2> QED
    BY <1>1, <2>1, <2>2, <2>3 DEF Reduces, CellsFed
<1>2. ASSUME NEW r \in Ranks, NEW c \in CTAs, Running(r, c),
             NEW x \in Reads(prog, call[r], r, c, Instr(r, c).op)
      PROVE  data[x.rank][x.slot][x.part] = x.value
  <2> DEFINE e == Here(r, c)
  <2>1. /\ e \in StepsOf(prog) /\ ~StepPast(e) /\ InstrAt(prog, e[3]) = Instr(r, c)
        /\ x \in TakenBy(prog, Passing(e))
    BY <1>0, <1>2, HereFacts
  <2>2. Instr(r, c).op \notin Meetings \cup {"grid", "await"}
    BY <1>2 DEF Reads, Meetings
  <2>3. ASSUME Reducing, Reduces PROVE Gained(prog, Bf, Passing(e)) \subseteq Been
    <3>1. Own(Bf, e) \subseteq Been
      BY <1>0, <1>2, <2>3, OwnBeen DEF Reduces
    <3>2. IsPassing(Passing(e)) /\ Passing(e)[2] = e
      BY <2>1, EventFacts
    <3> HIDE DEF e
    <3>3. Met(prog, Bf, e) = {} /\ Gathered(prog, Bf, e) = {} /\ Heard(prog, Bf, e) = {}
      BY <2>1, <2>2 DEF Met, Gathered, Heard
    <3> QED
      BY <3>1, <3>2, <3>3 DEF Gained
  <2>4. Passing(e) \in EventsOf(prog) /\ Passing(e) \notin Been
    BY <2>1, EventFacts, HasFacts DEF Been
  <2> HIDE DEF e
  <2> QED
    BY <1>1, <2>1, <2>3, <2>4
<1>3. ASSUME NEW r \in Ranks, StreamAt(r, "out"), NEW s \in Ranks, NEW c \in CTAs
      PROVE  data[r][s][c] = Reduced(call[r])
  <2> DEFINE l == <<r, call[r] + 1>>
             x == Cell(r, s, c, Reduced(call[r]))
  <2>1. Launched(r) /\ KernelEnded(r) /\ pos[r] <= Len(Script(r)) /\ Script(r)[pos[r]].op = "out"
    BY <1>3 DEF StreamAt
  <2>2. call[r] \in 1 .. Len(prog.calls) /\ pos[r] \in 1 .. Len(Script(r)) /\ call[r] \in Nat \ {0}
    BY <1>0, <2>1, CallFacts, CounterFacts
  <2>3. <<r, call[r] + 1>> \in CallsOf(prog)
    BY <2>2 DEF CallsOf, Ranks
  <2>4. /\ Calling(l) \in EventsOf(prog) /\ ~IsPassing(Calling(l)) /\ IsCalling(Calling(l))
        /\ Calling(l)[2] = l /\ l[1] = r /\ l[2] = call[r] + 1
    BY <2>3, EventFacts
  <2>5. Calling(l) \notin Been
    <3>1. ~(call[l[1]] >= l[2])
      BY <2>2
    <3> QED
      BY <3>1, HasFacts DEF Been
  <2>6. ASSUME Reducing, Reduces PROVE Gained(prog, Bf, Calling(l)) \subseteq Been
    BY <1>0, <2>1, <2>6, CallGained DEF Reduces
  <2> HIDE DEF l
  <2>7. l[2] > 1 /\ l[2] - 1 = call[r]
    BY <2>2, <2>4
  <2>8. \E j \in 1 .. Len(prog.calls[call[r]].script[r]) : prog.calls[call[r]].script[r][j].op = "out"
    BY <2>1, <2>2 DEF Script, Kernel
  <2>9. TakenBy(prog, Calling(l)) = {Cell(r, q, d, Reduced(call[r])) : q \in Ranks, d \in CTAs}
    BY <2>4, <2>7, <2>8 DEF TakenBy, Ranks, CTAs
  <2>10. x \in TakenBy(prog, Calling(l)) /\ x.rank = r /\ x.slot = s /\ x.part = c /\ x.value = Reduced(call[r])
    BY <2>9 DEF Cell
  <2>11. data[x.rank][x.slot][x.part] = x.value
    <3> HIDE DEF x
    <3> QED
      BY <1>1, <2>4, <2>5, <2>6, <2>10
  <2> QED
    BY <2>10, <2>11
<1> QED
  BY <1>2, <1>3 DEF ReducesFresh

THEOREM OrderKept == ASSUME AllFresh PROVE Spec => [](IInv /\ RInv)
<1>1. Init => IInv /\ RInv
  BY InitTypes, InitLocal, InitMeet, InitReduces DEF IInv
<1>2. IInv /\ RInv /\ [Next]_vars => (IInv /\ RInv)'
  <2> SUFFICES ASSUME IInv, RInv, [Next]_vars PROVE IInv' /\ RInv'
    OBVIOUS
  <2>1. IInv'
    BY TypesKept, LocalKept, MeetKept DEF IInv
  <2> QED
    BY <2>1, ReducesKept
<1> QED
  BY <1>1, <1>2, PTL DEF Spec

(* ReducesFresh: what a CTA or a stream is about to take from symmetric    *)
(* memory is there, of this call and of no later one; of any programs that *)
(* are in the order AllFresh asks for.                                     *)
THEOREM ReducesOfTheCall == ASSUME AllFresh PROVE Spec => []ReducesFresh
BY OrderKept, ReducesAreFresh, PTL
===============================================================================
