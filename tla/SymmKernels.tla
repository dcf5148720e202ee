----------------------------- MODULE SymmKernels ------------------------------
(***************************************************************************)
(* Kernels over the symmetric memory of the ranks of one node: each rank   *)
(* calls the same kernels in the same order, the CTAs of a kernel meet in  *)
(* barriers made of flags in each other's memory, move data between the    *)
(* ranks, and leave a stream and a GEMM to go on where the kernel ends.    *)
(* Nothing but the flags orders the ranks.                                 *)
(*                                                                         *)
(* A program is [ranks, ctas, calls, everyone, phases, passed]: calls is a *)
(* sequence of calls (SymmPrograms), everyone says that all CTAs, and not  *)
(* pid 0 alone, take part in their barriers, phases has the phase each     *)
(* call is made with, and passed the mesh barriers of the calls before.    *)
(***************************************************************************)
EXTENDS Integers, Sequences, FiniteSets

CONSTANTS Programs,
          WordBits     \* width of the grid barrier's word, 32 in the code

RanksOf(p) == 0 .. p.ranks - 1
CTAsOf(p) == 0 .. p.ctas - 1
Rows == 0 .. 2

(* The top bit of the grid barrier's word.                                 *)
Top == 2 ^ (WordBits - 1)

DataOps == {"copy", "ld_reduce", "reduce_st", "push", "ring_reduce",
            "scatter", "reduce_slice", "push_slice", "copy_out"}

------------------------------------------------------------------------------
(* What the kernels of the code keep to.  A program's instructions are     *)
(* named by <<call, instruction>>, in program order.                       *)
Positions(p) == UNION {{k} \X (1 .. Len(p.calls[k].code)) : k \in 1 .. Len(p.calls)}
InstrAt(p, x) == p.calls[x[1]].code[x[2]]
x \prec y == x[1] < y[1] \/ (x[1] = y[1] /\ x[2] < y[2])

IsInstruction(i) ==
    \/ i.op \in DataOps \cup {"sync", "grid", "set_ready"}
    \/ i.op = "exchange" /\ i.half \in Rows /\ i.add \in Nat /\ i.self \in BOOLEAN
    \/ i.op = "cas" /\ i.half \in Rows /\ i.self = TRUE
    \/ i.op = "await" /\ i.half \in Rows /\ i.self \in BOOLEAN
    \/ i.op = "clear" /\ i.rows \subseteq Rows

IsStreamOp(p, o) ==
    \/ o.op = "out"
    \/ o.op = "wait" /\ o.seg \in RanksOf(p)
    \/ o.op = "copy" /\ {o.seg, o.src, o.dst} \subseteq RanksOf(p)
    \/ o.op = "signal" /\ {o.seg, o.dst} \subseteq RanksOf(p)

(* The word of the grid barrier must be able to count the CTAs.            *)
WellFormed(p) ==
    /\ p.ranks \in Nat \ {0} /\ p.ctas \in 1 .. Top /\ p.everyone \in BOOLEAN
    /\ Len(p.calls) \in Nat
    /\ \A k \in 1 .. Len(p.calls) :
          LET K == p.calls[k]
          IN  /\ Len(K.code) \in Nat /\ K.bump \in Nat
              /\ \A i \in 1 .. Len(K.code) : IsInstruction(K.code[i])
              /\ \A r \in RanksOf(p) :
                    /\ Len(K.script[r]) \in Nat /\ Len(K.tiles[r]) \in Nat
                    /\ \A i \in 1 .. Len(K.script[r]) : IsStreamOp(p, K.script[r][i])
                    /\ \A i \in 1 .. Len(K.tiles[r]) : K.tiles[r][i].waits \subseteq RanksOf(p)

(* The rows of flags an instruction has set or cleared as signals.  A row  *)
(* that phases are exchanged on, or that is raised and lowered by          *)
(* compare-and-swap, is used for nothing else.                             *)
SignalRows(i) == CASE i.op = "clear" -> i.rows
                   [] i.op \in {"push", "scatter"} -> {0}
                   [] i.op = "push_slice" -> {1}
                   [] OTHER -> {}

RowsApart(p) ==
    \A x \in Positions(p), y \in Positions(p) :
        LET i == InstrAt(p, x)
            j == InstrAt(p, y)
        IN  /\ i.op \in {"exchange", "cas"} => i.half \notin SignalRows(j)
            /\ i.op = "exchange" /\ j.op = "cas" => i.half # j.half

(* The host raises the phase by what a call has used, so the values that   *)
(* are exchanged on a row rise; and pid 0 meets the other ranks in some    *)
(* other way between two exchanges on the same row.                        *)
Meetings == {"exchange", "cas", "sync"}
PhaseAt(p, x) == p.phases[x[1]] + InstrAt(p, x).add

PhasesRise(p) ==
    /\ \A k \in 1 .. Len(p.calls) :
          /\ p.phases[k] \in Nat \ {0}
          /\ p.phases[k] = IF k = 1 THEN 1 ELSE p.phases[k - 1] + p.calls[k - 1].bump
    /\ \A x \in Positions(p), y \in Positions(p) :
          /\ x \prec y /\ InstrAt(p, x).op = "exchange" /\ InstrAt(p, y).op = "exchange"
          /\ InstrAt(p, x).half = InstrAt(p, y).half
          => /\ PhaseAt(p, x) < PhaseAt(p, y)
             /\ \E z \in Positions(p) : /\ x \prec z /\ z \prec y
                                        /\ InstrAt(p, z).op \in Meetings

(* The marks of a call say where its mesh barriers begin and end: they do  *)
(* not nest.  pid 0 meets the other ranks where a barrier of its own ends. *)
(* Where all CTAs take part they meet in the grid, then pid 0 meets the    *)
(* other ranks, and then they meet in the grid again.                      *)
Begins(K, i) == K.entered[i + 1] # K.entered[i]
Ends(K, i) == K.left[i + 1] # K.left[i]

EndsABarrier(p, K, i) ==
    IF p.everyone
    THEN /\ K.code[i].op = "grid"
         /\ \E b \in 1 .. i, g \in 1 .. i, m \in 1 .. i :
               /\ b < g /\ g < m /\ m < i /\ K.entered[b + 1] = K.entered[i + 1]
               /\ K.code[g].op = "grid" /\ K.code[m].op \in Meetings
    ELSE /\ K.code[i].op \in Meetings
         /\ Begins(K, i) /\ K.code[i].op = "exchange" => K.code[i].self

BarriersMarked(p) ==
    /\ \A k \in 1 .. Len(p.calls) :
          LET K == p.calls[k]
              n == Len(K.code)
          IN  /\ \A i \in 1 .. n + 1 : K.entered[i] \in Nat /\ K.left[i] \in Nat
              /\ K.entered[1] = 0 /\ K.left[1] = 0 /\ K.entered[n + 1] = K.left[n + 1]
              /\ \A i \in 1 .. n + 1, j \in 1 .. n + 1 :
                    i <= j => K.entered[i] <= K.entered[j] /\ K.left[i] <= K.left[j]
              /\ \A i \in 1 .. n :
                    /\ Begins(K, i) => /\ K.entered[i] = K.left[i]
                                       /\ K.entered[i + 1] = K.entered[i] + 1
                    /\ Ends(K, i) => /\ K.left[i + 1] = K.left[i] + 1
                                     /\ K.left[i + 1] = K.entered[i + 1]
                                     /\ EndsABarrier(p, K, i)
              /\ p.passed[k] \in Nat
              /\ k = 1 => p.passed[k] = 0
    /\ \A k \in 1 .. Len(p.calls), l \in 1 .. Len(p.calls) :
          LET K == p.calls[k]
              before == p.passed[k] + K.left[Len(K.code) + 1]
          IN  /\ k < l => before <= p.passed[l]
              /\ l = k + 1 => before = p.passed[l]

(* A call of the all-gather writes its own segment and resets its flags    *)
(* between two barriers, or the caller has written the segment before the  *)
(* first call.                                                             *)
Fenced(K) ==
    /\ \A i \in 1 .. Len(K.code) : K.code[i].op \in DataOps => K.code[i].op = "copy"
    /\ \E i \in 1 .. Len(K.code) : K.code[i].op = "set_ready"
    /\ \E a \in 1 .. Len(K.code), b \in 1 .. Len(K.code),
          g \in 1 .. Len(K.code), m \in 1 .. Len(K.code) :
          /\ a < b /\ K.code[a].op \in Meetings /\ K.code[b].op = "grid"
          /\ g < m /\ K.code[g].op = "grid" /\ K.code[m].op \in Meetings
          /\ \A i \in 1 .. Len(K.code) :
                K.code[i].op \in {"copy", "set_ready"} => b < i /\ i < g

OwnSegmentFilled(K, k) ==
    \/ K.memcpy = "none" /\ \E i \in 1 .. Len(K.code) : K.code[i].op = "copy"
    \/ K.memcpy = "own" /\ k = 1

(* A stream copies from the segment's own rank, or hands on its copy of a  *)
(* segment it has waited for.  It signals what it has just copied, and     *)
(* nobody else signals the same segment to the same rank.                  *)
SameSegment(o, q) == o.seg = q.seg /\ o.dst = q.dst

StagesInOrder(p, K) ==
    /\ \A r \in RanksOf(p) : \A j \in 1 .. Len(K.script[r]) :
          LET S == K.script[r]
          IN  /\ S[j].op = "copy" =>
                    /\ S[j].seg # S[j].dst
                    /\ j < Len(S) /\ S[j + 1].op = "signal" /\ SameSegment(S[j], S[j + 1])
                    /\ \/ S[j].src = S[j].seg
                       \/ /\ S[j].src = r /\ j > 1
                          /\ S[j - 1].op = "wait" /\ S[j - 1].seg = S[j].seg
              /\ S[j].op = "signal" =>
                    j > 1 /\ S[j - 1].op = "copy" /\ SameSegment(S[j - 1], S[j])
    /\ \A r \in RanksOf(p), q \in RanksOf(p) :
          \A i \in 1 .. Len(K.script[r]), j \in 1 .. Len(K.script[q]) :
              /\ K.script[r][i].op = "signal" /\ K.script[q][j].op = "signal"
              /\ SameSegment(K.script[r][i], K.script[q][j])
              => r = q /\ i = j

TilesWaitForAll(p, K) ==
    \A r \in RanksOf(p) : \A i \in 1 .. Len(K.tiles[r]) :
        K.tiles[r][i].reads \subseteq K.tiles[r][i].waits

(* A program calls the all-gather and nothing else, or never.              *)
Gathers(p) ==
    \A k \in 1 .. Len(p.calls) :
        LET K == p.calls[k]
        IN  Fenced(K) /\ OwnSegmentFilled(K, k) /\ StagesInOrder(p, K) /\ TilesWaitForAll(p, K)

NeverGathers(p) ==
    \A k \in 1 .. Len(p.calls) : \A r \in RanksOf(p) :
        /\ Len(p.calls[k].tiles[r]) = 0
        /\ \A j \in 1 .. Len(p.calls[k].script[r]) : p.calls[k].script[r][j].op = "out"

Disciplined(p) == /\ WellFormed(p) /\ RowsApart(p) /\ PhasesRise(p) /\ BarriersMarked(p)
                  /\ Gathers(p) \/ NeverGathers(p)

ASSUME ProgramsAssumption ==
    /\ Top \in Nat \ {0}
    /\ \A p \in Programs : Disciplined(p)

------------------------------------------------------------------------------
VARIABLES prog,      \* the program of this run
          call,      \* per rank: its current call, 0 before the first
          phase,     \* per rank: the context's phase or target value
          ip,        \* per CTA: its next instruction in this call
          thr,       \* per rank: its pid 0's threads, one per rank
          flag,      \* per rank: three rows of flags, one per rank
          word,      \* per rank: the grid barrier's word
          old_arrive,   \* per CTA: what it added to, -1 outside the barrier
          synced,    \* per rank: NVSHMEM barriers it has come to
          data,      \* per rank, slot and part: whose call wrote it last
          ready,     \* per rank: symm_barrier, the segments that have arrived
          puts,      \* puts with a signal that are under way
          pos, part, \* per rank: its stream's next operation, how far a copy is
          tile, reading   \* per rank: its GEMM's tile, and whether it loads it

flags == <<flag, word, synced>>
ctas == <<ip, thr, old_arrive>>
after == <<pos, part, tile, reading>>
host == <<prog, call, phase>>
vars == <<host, ctas, flags, data, ready, puts, after>>

Ranks == RanksOf(prog)
CTAs == CTAsOf(prog)

(* The buffer of a rank: a segment per rank, twice; each CTA works on its  *)
(* own part of a segment.  The k-th call's inputs and results are told     *)
(* apart by Input(k) and Reduced(k).                                       *)
Slots == 0 .. 2 * prog.ranks - 1
Input(k) == 2 * k - 1
Reduced(k) == 2 * k

Init ==
    /\ prog \in Programs
    /\ call = [r \in Ranks |-> 0]
    /\ phase = [r \in Ranks |-> 1]
    /\ ip = [r \in Ranks |-> [c \in CTAs |-> 1]]
    /\ thr = [r \in Ranks |-> [t \in Ranks |-> "store"]]
    /\ flag = [r \in Ranks |-> [h \in Rows |-> [q \in Ranks |-> 0]]]
    /\ word = [r \in Ranks |-> 0]
    /\ old_arrive = [r \in Ranks |-> [c \in CTAs |-> -1]]
    /\ synced = [r \in Ranks |-> 0]
    /\ data = [r \in Ranks |-> [s \in Slots |-> [c \in CTAs |-> 0]]]
    /\ ready = [r \in Ranks |-> [q \in Ranks |-> 0]]
    /\ puts = {}
    /\ pos = [r \in Ranks |-> 1] /\ part = [r \in Ranks |-> 0]
    /\ tile = [r \in Ranks |-> 1] /\ reading = [r \in Ranks |-> FALSE]

------------------------------------------------------------------------------
Kernel(r) == prog.calls[call[r]]
Launched(r) == call[r] > 0
KernelEnded(r) == \A c \in CTAs : ip[r][c] > Len(Kernel(r).code)
Script(r) == Kernel(r).script[r]
Tiles(r) == Kernel(r).tiles[r]
Finished(r) == Launched(r) => /\ KernelEnded(r)
                              /\ pos[r] > Len(Script(r))
                              /\ tile[r] > Len(Tiles(r))

Running(r, c) == Launched(r) /\ ip[r][c] <= Len(Kernel(r).code)
Instr(r, c) == Kernel(r).code[ip[r][c]]
At(r, c, op) == Running(r, c) /\ Instr(r, c).op = op

Goto(r, c) == ip' = [ip EXCEPT ![r][c] = @ + 1]

(* data written by a set of [rank, slot, part, value].                     *)
Written(writes) == IF writes = {} THEN data ELSE
    [r \in Ranks |-> [s \in Slots |-> [c \in CTAs |->
        IF \E w \in writes : w.rank = r /\ w.slot = s /\ w.part = c
        THEN (CHOOSE w \in writes : w.rank = r /\ w.slot = s /\ w.part = c).value
        ELSE data[r][s][c]]]]

Cell(rank, slot, cta, value) == [rank |-> rank, slot |-> slot, part |-> cta, value |-> value]

(* The next call: in stream order, so all of the last one is done.  A copy *)
(* into the symmetric buffer may come before the kernel.                   *)
Filled(p, r, how) == CASE how = "all" -> RanksOf(p)
                       [] how = "own" -> {r}
                       [] how = "none" -> {}

Launch(r) ==
    /\ Finished(r) /\ call[r] < Len(prog.calls)
    /\ call' = [call EXCEPT ![r] = @ + 1]
    /\ phase' = [phase EXCEPT ![r] = IF Launched(r) THEN @ + Kernel(r).bump ELSE @]
    /\ ip' = [ip EXCEPT ![r] = [c \in CTAs |-> 1]]
    /\ data' = Written({Cell(r, s, c, Input(call[r] + 1)) :
                            s \in Filled(prog, r, prog.calls[call[r] + 1].memcpy), c \in CTAs})
    /\ pos' = [pos EXCEPT ![r] = 1]
    /\ tile' = [tile EXCEPT ![r] = 1]
    /\ UNCHANGED <<prog, thr, old_arrive, flags, ready, puts, part, reading>>

------------------------------------------------------------------------------
(* What pid 0 does and the other CTAs pass by.                             *)
MasterOps == {"exchange", "cas", "clear", "sync"}

PassBy(r, c) ==
    /\ c # 0 /\ Running(r, c) /\ Instr(r, c).op \in MasterOps
    /\ Goto(r, c)
    /\ UNCHANGED <<host, thr, old_arrive, flags, data, ready, puts, after>>

(* Mutant: the second barrier of a kernel uses the first one's value.      *)
SameValue(r) == phase[r]

Value(r) == phase[r] + Instr(r, 0).add
Threads(r) == IF Instr(r, 0).self THEN Ranks ELSE Ranks \ {r}

Store(r, t) ==
    LET h == Instr(r, 0).half
    IN  /\ \/ At(r, 0, "exchange") /\ flag' = [flag EXCEPT ![t][h][r] = Value(r)]
           \/ At(r, 0, "cas") /\ flag[t][h][r] = 0 /\ flag' = [flag EXCEPT ![t][h][r] = 1]
        /\ t \in Threads(r) /\ thr[r][t] = "store"
        /\ thr' = [thr EXCEPT ![r][t] = "wait"]
        /\ UNCHANGED <<host, ip, old_arrive, word, synced, data, ready, puts, after>>

See(r, t) ==
    LET h == Instr(r, 0).half
    IN  /\ \/ At(r, 0, "exchange") /\ flag[r][h][t] = Value(r) /\ UNCHANGED flag
           \/ At(r, 0, "cas") /\ flag[r][h][t] = 1 /\ flag' = [flag EXCEPT ![r][h][t] = 0]
        /\ thr[r][t] = "wait"
        /\ thr' = [thr EXCEPT ![r][t] = "done"]
        /\ UNCHANGED <<host, ip, old_arrive, word, synced, data, ready, puts, after>>

(* Mutant: whichever thread is done lets pid 0 go on.                      *)
GoesWithTheFirst(r) ==
    /\ At(r, 0, "exchange") \/ At(r, 0, "cas")
    /\ \E t \in Threads(r) : thr[r][t] = "done"
    /\ thr' = [thr EXCEPT ![r] = [t \in Ranks |-> "store"]]
    /\ Goto(r, 0)
    /\ UNCHANGED <<host, old_arrive, flags, data, ready, puts, after>>

SyncThreads(r) ==
    /\ At(r, 0, "exchange") \/ At(r, 0, "cas")
    /\ \A t \in Threads(r) : thr[r][t] = "done"
    /\ thr' = [thr EXCEPT ![r] = [t \in Ranks |-> "store"]]
    /\ Goto(r, 0)
    /\ UNCHANGED <<host, old_arrive, flags, data, ready, puts, after>>

(* nvshmem_barrier_all: external.                                          *)
ComeToSync(r) ==
    /\ At(r, 0, "sync") /\ thr[r][r] = "store"
    /\ synced' = [synced EXCEPT ![r] = @ + 1]
    /\ thr' = [thr EXCEPT ![r][r] = "wait"]
    /\ UNCHANGED <<host, ip, old_arrive, flag, word, data, ready, puts, after>>

GoFromSync(r) ==
    /\ At(r, 0, "sync") /\ thr[r][r] = "wait"
    /\ \A q \in Ranks : synced[q] >= synced[r]
    /\ thr' = [thr EXCEPT ![r][r] = "store"]
    /\ Goto(r, 0)
    /\ UNCHANGED <<host, old_arrive, flags, data, ready, puts, after>>

Clear(r) ==
    /\ At(r, 0, "clear")
    /\ flag' = [flag EXCEPT ![r] = [h \in Rows |-> IF h \in Instr(r, 0).rows
                                                   THEN [q \in Ranks |-> 0] ELSE @[h]]]
    /\ Goto(r, 0)
    /\ UNCHANGED <<host, thr, old_arrive, word, synced, data, ready, puts, after>>

------------------------------------------------------------------------------
(* The barrier of a grid: pid 0 adds what, with the ones of the others,    *)
(* turns the top bit of the word over; a CTA waits for the bit to turn.    *)
(* Mutants: pid 0 takes off all CTAs, itself included; or it counts itself *)
(* out twice.                                                              *)
OneTooFew(c) == IF c = 0 THEN Top - prog.ctas ELSE 1
OneTooMany(c) == IF c = 0 THEN Top - (prog.ctas - 2) ELSE 1

nb(c) == IF c = 0 THEN Top - (prog.ctas - 1) ELSE 1

Arrive(r, c) ==
    /\ At(r, c, "grid") /\ old_arrive[r][c] = -1
    /\ old_arrive' = [old_arrive EXCEPT ![r][c] = word[r]]
    /\ word' = [word EXCEPT ![r] = (@ + nb(c)) % (2 * Top)]
    /\ UNCHANGED <<host, ip, thr, flag, synced, data, ready, puts, after>>

Depart(r, c) ==
    /\ At(r, c, "grid") /\ old_arrive[r][c] # -1
    /\ old_arrive[r][c] \div Top # word[r] \div Top
    /\ old_arrive' = [old_arrive EXCEPT ![r][c] = -1]
    /\ Goto(r, c)
    /\ UNCHANGED <<host, thr, flags, data, ready, puts, after>>

------------------------------------------------------------------------------
(* The data.  What a CTA reads and writes in a step of the k-th call of    *)
(* program p, and the puts it starts.                                      *)
Reads(p, k, r, c, op) ==
    LET n == p.ranks
    IN  CASE op = "ld_reduce"  -> {Cell(q, q, c, Input(k)) : q \in RanksOf(p)}
          [] op = "reduce_st"  -> {Cell(q, r, c, Input(k)) : q \in RanksOf(p)}
          [] op \in {"ring_reduce", "reduce_slice"} -> {Cell(r, q, c, Input(k)) : q \in RanksOf(p)}
          [] op = "push_slice" -> {Cell(r, n + r, d, Reduced(k)) : d \in CTAsOf(p)}
          [] op = "copy_out"   -> {Cell(r, n + q, d, Reduced(k)) : q \in RanksOf(p), d \in CTAsOf(p)}
          [] OTHER -> {}

Writes(p, k, r, c, op) ==
    CASE op = "copy"         -> {Cell(r, r, c, Input(k))}
      [] op = "reduce_st"    -> {Cell(q, r, c, Reduced(k)) : q \in RanksOf(p)}
      [] op = "reduce_slice" -> {Cell(r, p.ranks + r, c, Reduced(k))}
      [] OTHER -> {}

(* A put fills a segment of a peer and then sets a signal there.           *)
Put(r, peer, slot, half, value) ==
    [dst |-> peer, src |-> r, slot |-> slot, half |-> half, value |-> value]

Puts(p, k, r, c, op) ==
    LET n == p.ranks
    IN  CASE op = "push" -> {Put(r, q, r, 0, Input(k)) : q \in {q \in RanksOf(p) : q % p.ctas = c}}
          [] op = "scatter" /\ c < n -> {Put(r, (r + c + 1) % n, r, 0, Input(k))}
          [] op = "push_slice" /\ c < n - 1 -> {Put(r, (r + c + 1) % n, n + r, 1, Reduced(k))}
          [] OTHER -> {}

MoveData(r, c) ==
    /\ Running(r, c) /\ Instr(r, c).op \in DataOps
    /\ data' = Written(Writes(prog, call[r], r, c, Instr(r, c).op))
    /\ puts' = puts \cup Puts(prog, call[r], r, c, Instr(r, c).op)
    /\ Goto(r, c)
    /\ UNCHANGED <<host, thr, old_arrive, flags, ready, after>>

(* Puts arrive in any order.                                               *)
Deliver(p) ==
    /\ data' = Written({Cell(p.dst, p.slot, c, p.value) : c \in CTAs})
    /\ flag' = [flag EXCEPT ![p.dst][p.half][p.src] = 1]
    /\ puts' = puts \ {p}
    /\ UNCHANGED <<host, ctas, word, synced, ready, after>>

(* Mutant: the signal of one rank lets a CTA go on.                        *)
AwaitsOne(r, c) ==
    /\ At(r, c, "await")
    /\ \E t \in Ranks : flag[r][Instr(r, c).half][t] = 1
    /\ Goto(r, c)
    /\ UNCHANGED <<host, thr, old_arrive, flags, data, ready, puts, after>>

Await(r, c) ==
    /\ At(r, c, "await")
    /\ \A t \in Ranks : \/ flag[r][Instr(r, c).half][t] = 1
                        \/ t = r /\ ~Instr(r, c).self
    /\ Goto(r, c)
    /\ UNCHANGED <<host, thr, old_arrive, flags, data, ready, puts, after>>

(* Mutant: what the last call has called ready is not taken back.          *)
KeepsReady(r, c) ==
    /\ At(r, c, "set_ready")
    /\ ready' = [ready EXCEPT ![r][r] = 1]
    /\ Goto(r, c)
    /\ UNCHANGED <<host, thr, old_arrive, flags, data, puts, after>>

SetReady(r, c) ==
    /\ At(r, c, "set_ready")
    /\ ready' = [ready EXCEPT ![r] = [q \in Ranks |-> IF q = r THEN 1 ELSE 0]]
    /\ Goto(r, c)
    /\ UNCHANGED <<host, thr, old_arrive, flags, data, puts, after>>

------------------------------------------------------------------------------
(* When the kernel has ended: the stream of the all-gather.                *)
StreamAt(r, op) == /\ Launched(r) /\ KernelEnded(r)
                   /\ pos[r] <= Len(Script(r)) /\ Script(r)[pos[r]].op = op
StreamOp(r) == Script(r)[pos[r]]
StreamOn(r) == pos' = [pos EXCEPT ![r] = @ + 1]

(* Mutant: a segment is handed on without waiting for it.                  *)
GoesUnready(r) ==
    /\ StreamAt(r, "wait")
    /\ StreamOn(r)
    /\ UNCHANGED <<host, ctas, flags, data, ready, puts, part, tile, reading>>

WaitReady(r) ==
    /\ StreamAt(r, "wait") /\ ready[r][StreamOp(r).seg] = 1
    /\ StreamOn(r)
    /\ UNCHANGED <<host, ctas, flags, data, ready, puts, part, tile, reading>>

(* Mutant: the next copy goes on where the last one ended.                 *)
CopyOn(r) ==
    /\ StreamAt(r, "copy")
    /\ LET o == StreamOp(r)
       IN  data' = [data EXCEPT ![o.dst][o.seg][part[r]] = data[o.src][o.seg][part[r]]]
    /\ part' = [part EXCEPT ![r] = @ + 1]
    /\ IF part[r] = prog.ctas - 1 THEN StreamOn(r) ELSE UNCHANGED pos
    /\ UNCHANGED <<host, ctas, flags, ready, puts, tile, reading>>

(* A copy is not atomic: it moves one part at a time.                      *)
CopyPart(r) ==
    /\ StreamAt(r, "copy")
    /\ LET o == StreamOp(r)
       IN  data' = [data EXCEPT ![o.dst][o.seg][part[r]] = data[o.src][o.seg][part[r]]]
    /\ part' = [part EXCEPT ![r] = (@ + 1) % prog.ctas]
    /\ IF part[r] = prog.ctas - 1 THEN StreamOn(r) ELSE UNCHANGED pos
    /\ UNCHANGED <<host, ctas, flags, ready, puts, tile, reading>>

SetSignal(r) ==
    /\ StreamAt(r, "signal")
    /\ ready' = [ready EXCEPT ![StreamOp(r).dst][StreamOp(r).seg] = 1]
    /\ StreamOn(r)
    /\ UNCHANGED <<host, ctas, flags, data, puts, part, tile, reading>>

CopyOut(r) ==
    /\ StreamAt(r, "out")
    /\ StreamOn(r)
    /\ UNCHANGED <<host, ctas, flags, data, ready, puts, part, tile, reading>>

(* Mutant: one of the tile's ranks is enough.                              *)
BeginEarly(r) ==
    /\ Launched(r) /\ KernelEnded(r) /\ tile[r] <= Len(Tiles(r)) /\ ~reading[r]
    /\ \E q \in Tiles(r)[tile[r]].waits : ready[r][q] = 1
    /\ reading' = [reading EXCEPT ![r] = TRUE]
    /\ UNCHANGED <<host, ctas, flags, data, ready, puts, pos, part, tile>>

(* The GEMM next to it: a tile is loaded once all its ranks' rows are in.  *)
BeginTile(r) ==
    /\ Launched(r) /\ KernelEnded(r) /\ tile[r] <= Len(Tiles(r)) /\ ~reading[r]
    /\ \A q \in Tiles(r)[tile[r]].waits : ready[r][q] = 1
    /\ reading' = [reading EXCEPT ![r] = TRUE]
    /\ UNCHANGED <<host, ctas, flags, data, ready, puts, pos, part, tile>>

EndTile(r) ==
    /\ reading[r]
    /\ reading' = [reading EXCEPT ![r] = FALSE]
    /\ tile' = [tile EXCEPT ![r] = @ + 1]
    /\ UNCHANGED <<host, ctas, flags, data, ready, puts, pos, part>>

------------------------------------------------------------------------------
Next == \/ \E r \in Ranks : Launch(r)
        \/ \E r \in Ranks, t \in Ranks : Store(r, t)
        \/ \E r \in Ranks, t \in Ranks : See(r, t)
        \/ \E r \in Ranks : SyncThreads(r)
        \/ \E r \in Ranks : ComeToSync(r)
        \/ \E r \in Ranks : GoFromSync(r)
        \/ \E r \in Ranks : Clear(r)
        \/ \E r \in Ranks, c \in CTAs : PassBy(r, c)
        \/ \E r \in Ranks, c \in CTAs : Arrive(r, c)
        \/ \E r \in Ranks, c \in CTAs : Depart(r, c)
        \/ \E r \in Ranks, c \in CTAs : MoveData(r, c)
        \/ \E r \in Ranks, c \in CTAs : Await(r, c)
        \/ \E r \in Ranks, c \in CTAs : SetReady(r, c)
        \/ \E p \in puts : Deliver(p)
        \/ \E r \in Ranks : WaitReady(r)
        \/ \E r \in Ranks : CopyPart(r)
        \/ \E r \in Ranks : SetSignal(r)
        \/ \E r \in Ranks : CopyOut(r)
        \/ \E r \in Ranks : BeginTile(r)
        \/ \E r \in Ranks : EndTile(r)

(* All CTAs of a kernel are resident (a cooperative launch), streams and   *)
(* the GEMM run next to each other, and NVSHMEM delivers what was put.     *)
(* Waiting is a guard here, so no behaviour of finitely many calls is      *)
(* infinite and it is enough that whoever can go on is not held up for     *)
(* ever.                                                                   *)
Spec == Init /\ [][Next]_vars /\ WF_vars(Next)

------------------------------------------------------------------------------
TypeOK ==
    /\ call \in [Ranks -> 0 .. Len(prog.calls)]
    /\ phase \in [Ranks -> Nat \ {0}]
    /\ ip \in [Ranks -> [CTAs -> Nat \ {0}]]
    /\ thr \in [Ranks -> [Ranks -> {"store", "wait", "done"}]]
    /\ flag \in [Ranks -> [Rows -> [Ranks -> Nat]]]
    /\ word \in [Ranks -> 0 .. 2 * Top - 1]
    /\ old_arrive \in [Ranks -> [CTAs -> -1 .. 2 * Top - 1]]
    /\ synced \in [Ranks -> Nat]
    /\ data \in [Ranks -> [Slots -> [CTAs -> Nat]]]
    /\ ready \in [Ranks -> [Ranks -> 0 .. 1]]
    /\ \A p \in puts : /\ p.src \in Ranks /\ p.dst \in Ranks /\ p.slot \in Slots
                       /\ p.half \in Rows /\ p.value \in Nat
    /\ pos \in [Ranks -> Nat \ {0}] /\ part \in [Ranks -> CTAs]
    /\ tile \in [Ranks -> Nat \ {0}] /\ reading \in [Ranks -> BOOLEAN]

(* Whatever a CTA or the host is about to take from symmetric memory, its  *)
(* own or a peer's, is there, of this call and of no later one.            *)
ReducesFresh ==
    \A r \in Ranks :
        /\ \A c \in CTAs : Running(r, c) =>
               \A x \in Reads(prog, call[r], r, c, Instr(r, c).op) :
                   data[x.rank][x.slot][x.part] = x.value
        /\ StreamAt(r, "out") =>
               \A s \in Ranks, c \in CTAs : data[r][s][c] = Reduced(call[r])

(* A GEMM tile that is being loaded sees this call's rows of every rank it *)
(* covers, from the moment its wait is over until it is done.              *)
TilesFresh ==
    \A r \in Ranks : reading[r] =>
        \A q \in Tiles(r)[tile[r]].reads, c \in CTAs : data[r][q][c] = Input(call[r])

(* What the copy engine hands on is whole and of this call, for as long as *)
(* it copies, whichever rank it copies from.                               *)
CopiesFresh ==
    \A r \in Ranks : StreamAt(r, "copy") =>
        \A c \in CTAs : data[StreamOp(r).src][StreamOp(r).seg][c] = Input(call[r])

(* Nobody copies into a segment that somebody has called ready: each       *)
(* segment comes once in a call, and not before the receiver has reset its *)
(* flags.                                                                  *)
ReadyIsLeftAlone ==
    \A r \in Ranks : StreamAt(r, "copy") => ready[StreamOp(r).dst][StreamOp(r).seg] = 0

(* The exchanges compare for equality, so a flag must never be ahead of    *)
(* the thread that waits on it: a faster rank would have written over what *)
(* a slower one still has to see.                                          *)
FlagsNotAhead ==
    \A r \in Ranks, t \in Ranks :
        At(r, 0, "exchange") /\ thr[r][t] = "wait" =>
            flag[r][Instr(r, 0).half][t] <= Value(r)

(* Nobody gets past a barrier of the grid before every CTA of the rank has *)
(* come to it, however the word has wrapped and whoever sees the bit late. *)
GridMeets ==
    \A r \in Ranks : Launched(r) =>
        \A c \in CTAs, d \in CTAs, i \in 1 .. Len(Kernel(r).code) :
            Kernel(r).code[i].op = "grid" /\ ip[r][c] > i =>
                ip[r][d] > i \/ (ip[r][d] = i /\ old_arrive[r][d] # -1)

(* Every rank gets through all its calls: no barrier, wait or signal of    *)
(* any of these kernels holds anybody up for ever.                         *)
CallsEnd == <>(\A r \in Ranks : Finished(r) /\ call[r] = Len(prog.calls))

(* The barriers made of flags are barriers: the members are all CTAs of    *)
(* all ranks, or pid 0 of each where only it takes part.                   *)
MembersOf(p) == RanksOf(p) \X (IF p.everyone THEN CTAsOf(p) ELSE {0})

Begun(r, c) == c = 0 /\ \E t \in Ranks : thr[r][t] # "store"

Entered(r, c) == IF ~Launched(r) THEN 0 ELSE
    prog.passed[call[r]] + Kernel(r).entered[ip[r][c] + (IF Begun(r, c) THEN 1 ELSE 0)]
Left(r, c) == IF ~Launched(r) THEN 0 ELSE prog.passed[call[r]] + Kernel(r).left[ip[r][c]]

MeshBarrier == INSTANCE RankBarrier WITH
    members <- MembersOf(prog),
    entered <- [m \in MembersOf(prog) |-> Entered(m[1], m[2])],
    left <- [m \in MembersOf(prog) |-> Left(m[1], m[2])]

ImplementsBarrier == MeshBarrier!Spec
===============================================================================
