---------------------------- MODULE PipelineOrder -----------------------------
(***************************************************************************)
(* The order that the semaphores, the consumers' barrier and the waits for *)
(* copies give the threads of one instruction: which step, which arrival   *)
(* of a load, which store has been when a step is taken.  What the         *)
(* pipeline needs of an operation is said in terms of that order alone; it *)
(* is a fact about the operation's code, and nothing of it depends on how  *)
(* the CTA's warps and instructions interleave.                            *)
(*                                                                         *)
(* code is what the threads of an instruction run, a sequence of steps for *)
(* each; rounds are the arrivals that make up the rounds of each of its    *)
(* semaphores; B gives for each event those that have been before it.      *)
(***************************************************************************)
EXTENDS MegaPipeline

Steps(code) == UNION {{t} \X (1 .. Len(code[t])) : t \in Threads}
At(code, e) == code[e[1]][e[2]]
Loads(code) == UNION {At(code, e).load : e \in Steps(code)}
Puts(code) == UNION {At(code, e).put : e \in Steps(code)}

(* A step is taken, a load has landed, a store has reached global memory.  *)
Taken(e) == <<"step", e>>
Landing(x) == <<"land", x>>
Reaching(x) == <<"reach", x>>
Events(code) == {Taken(e) : e \in Steps(code)} \cup {Landing(x) : x \in Loads(code)}
                \cup {Reaching(x) : x \in Puts(code)}
IsStep(ev) == ev[1] = "step"
IsLanding(ev) == ev[1] = "land"

(* The step that started a copy.                                           *)
Starts(code, e, ev) == CASE IsStep(ev) -> FALSE
                         [] IsLanding(ev) -> ev[2] \in At(code, e).load
                         [] OTHER -> ev[2] \in At(code, e).put
Starter(code, ev) == CHOOSE e \in Steps(code) : Starts(code, e, ev)

------------------------------------------------------------------------------
(* The arrivals at a semaphore make rounds: the i-th one of a thread, or   *)
(* of a thread's loads, belongs to round i.                                *)
Arrives(code, ev) == IF IsStep(ev) THEN At(code, ev[2]).arrive
                     ELSE IF IsLanding(ev) THEN {ev[2][4]} ELSE {}

RoundOf(code, ev, sem) ==
    IF IsStep(ev)
    THEN LET t == ev[2][1]
         IN  Cardinality({i \in 1 .. ev[2][2] - 1 : sem \in code[t][i].arrive})
    ELSE LET e == Starter(code, ev)
         IN  Cardinality({i \in 1 .. e[2] - 1 : \E x \in code[e[1]][i].load : x[4] = sem})

Rounds(code, counts) ==
    [sem \in DOMAIN counts |->
       LET arrivals == {ev \in Events(code) : sem \in Arrives(code, ev)}
       IN  [r \in {RoundOf(code, ev, sem) : ev \in arrivals} |->
              {ev \in arrivals : RoundOf(code, ev, sem) = r}]]

(* The syncs of the consumer warps belong together in their order.         *)
Ordinal(code, e) == Cardinality({i \in 1 .. e[2] - 1 : code[e[1]][i].sync})
Syncs(code) == {e \in Steps(code) : At(code, e).sync}
Mates(code, e) == {f \in Syncs(code) : Ordinal(code, f) = Ordinal(code, e)}

------------------------------------------------------------------------------
(* What has been before an event: for a step, what has been before the     *)
(* thread's last one; the round a wait asks for, if the round before it is *)
(* known to be over, so that the parity tells; all that met in a sync; and *)
(* after a flush the thread's stores.                                      *)
With(B, events) == events \cup UNION {B[f] : f \in events}

Own(B, e) == IF e[2] = 1 THEN {} ELSE With(B, {Taken(<<e[1], e[2] - 1>>)})

Told(rounds, own, w) == {r \in DOMAIN rounds[w[1]] :
    r % 2 = w[2] /\ \A q \in 0 .. r - 1 : rounds[w[1]][q] \subseteq own}

Learnt(rounds, B, own, w) == UNION {With(B, rounds[w[1]][r]) : r \in Told(rounds, own, w)}

Met(code, B, e) ==
    IF e[2] > 1 /\ code[e[1]][e[2] - 1].sync
    THEN With(B, {Taken(f) : f \in Mates(code, <<e[1], e[2] - 1>>)}) ELSE {}

Flushed(code, B, e) ==
    IF At(code, e).flush
    THEN {Reaching(x) : x \in {x \in Puts(code) : \E f \in Steps(code) :
                                   x \in At(code, f).put /\ Taken(f) \in Own(B, e)}}
    ELSE {}

Gained(code, rounds, B, ev) ==
    IF IsStep(ev)
    THEN LET e == ev[2]
         IN  Own(B, e) \cup (UNION {Learnt(rounds, B, Own(B, e), w) : w \in At(code, e).wait})
             \cup Met(code, B, e) \cup Flushed(code, B, e)
    ELSE With(B, {Taken(Starter(code, ev))})

(* Each pass along the code tells every step what the last one found, to   *)
(* the pass that finds nothing new.                                        *)
Before(code, rounds) ==
    LET pass[i \in 0 .. Cardinality(Steps(code))] ==
          IF i = 0 THEN [B |-> [ev \in Events(code) |-> {}], end |-> FALSE]
          ELSE LET last == pass[i - 1]
                   next == [ev \in Events(code) |-> Gained(code, rounds, last.B, ev)]
               IN  IF last.end THEN last ELSE [B |-> next, end |-> next = last.B]
    IN  pass[Cardinality(Steps(code))].B

------------------------------------------------------------------------------
(* What the pipeline asks of an operation's code.                          *)

(* A step uses its own instruction's semaphores; it lets go of one page at *)
(* most, for so many warps; a copy is started once; and a warp that syncs  *)
(* does nothing else.                                                      *)
WellFormed(code, counts) ==
    /\ \A t \in Threads : Len(code[t]) \in Nat
    /\ \A e \in Steps(code) :
          LET s == At(code, e)
          IN  /\ \A w \in s.wait : w[1] \in DOMAIN counts
              /\ s.arrive \subseteq DOMAIN counts
              /\ s.take \subseteq Lids
              /\ \A x \in s.reads \cup s.writes : x[1] \in Lids \cup {Scratch}
              /\ \A x \in s.load : x[1] \in Lids \cup {Scratch} /\ x[4] \in DOMAIN counts
              /\ \A x \in s.put : x[1] \in Lids \cup {Scratch}
              /\ \A f \in s.finish : /\ f[1] \in Lids /\ f[2] \in 1 .. NUM_CONSUMER_WARPS
                                     /\ s.finish = {f}
              /\ s.add \in Nat
              /\ s.sync => e[1][1] = "consumer" /\ s = [Step0 EXCEPT !.sync = TRUE]
    /\ \A ev \in Events(code), e \in Steps(code), f \in Steps(code) :
          Starts(code, e, ev) /\ Starts(code, f, ev) => e = f

(* The arrivals of a round are as many as the semaphore expects, and each  *)
(* comes when the rounds before are over.                                  *)
InRounds(code, counts, rounds, B) == \A sem \in DOMAIN counts :
    /\ counts[sem] \in Nat \ {0}
    /\ \A ev \in Events(code) : sem \in Arrives(code, ev) <=>
          \E r \in DOMAIN rounds[sem] : ev \in rounds[sem][r]
    /\ \A r \in DOMAIN rounds[sem] :
          /\ r \in Nat /\ rounds[sem][r] \subseteq Events(code)
          /\ IsFiniteSet(rounds[sem][r]) /\ Cardinality(rounds[sem][r]) = counts[sem]
          /\ \A q \in 0 .. r - 1 :
                /\ q \in DOMAIN rounds[sem] /\ rounds[sem][q] \cap rounds[sem][r] = {}
                /\ \A ev \in rounds[sem][r] : rounds[sem][q] \subseteq B[ev]

(* B claims no more than what is known, and every warp meets in a sync.    *)
Known(code, rounds, B) == \A ev \in Events(code) : B[ev] \subseteq Gained(code, rounds, B, ev)

SyncsMatch(code) == \A e \in Syncs(code) :
    /\ Ordinal(code, e) \in Nat
    /\ \A w \in Consumers : \E f \in Mates(code, e) : f[1] = <<"consumer", w>>
    /\ \A f \in Syncs(code) : f[1] = e[1] /\ e[2] < f[2] => Ordinal(code, e) < Ordinal(code, f)

(* What touches a page comes after the wait for it, and a thread that lets *)
(* go of the page knows of it; a page is let go once for every warp.       *)
Touches(code, ev) ==
    IF IsStep(ev)
    THEN LET s == At(code, ev[2])
         IN  (s.take \cup {x[1] : x \in s.reads} \cup {x[1] : x \in s.writes}
              \cup {x[1] : x \in s.load \cup s.put \cup s.finish}) \cap Lids
    ELSE {ev[2][1]} \cap Lids

Shares(code, lid) == {y \in Steps(code) \X (1 .. NUM_CONSUMER_WARPS) :
    \E f \in At(code, y[1]).finish : f[1] = lid /\ y[2] <= f[2]}

PagesInOrder(code, B) ==
    /\ \A ev \in Events(code) : \A lid \in Touches(code, ev) :
          /\ \E e \in Steps(code) : /\ lid \in At(code, e).take
                                    /\ Taken(e) \in B[ev] \cup {ev}
          /\ \E e \in Steps(code) : /\ \E f \in At(code, e).finish : f[1] = lid
                                    /\ ev \in B[Taken(e)] \cup {Taken(e)}
    /\ \A lid \in Lids : /\ IsFiniteSet(Shares(code, lid))
                         /\ Cardinality(Shares(code, lid)) = NUM_CONSUMER_WARPS

(* The pages' next order is an order of all pages.                         *)
ReleasesAll(inst) ==
    /\ DOMAIN release_lid(inst) = 1 .. NUM_PAGES
    /\ \A k \in 1 .. NUM_PAGES : release_lid(inst)[k] \in Lids
    /\ \A j \in 1 .. NUM_PAGES, k \in 1 .. NUM_PAGES :
          release_lid(inst)[j] = release_lid(inst)[k] => j = k
    /\ \A lid \in Lids : \E k \in 1 .. NUM_PAGES : release_lid(inst)[k] = lid

(* What a step reads was put there before, and whatever else is written to *)
(* the same region comes before that or after the step.                    *)
Spoils(code, ev) ==
    IF IsStep(ev) THEN LET s == At(code, ev[2])
                       IN  {<<x[1], x[2]>> : x \in s.writes} \cup {<<x[1], x[2]>> : x \in s.load}
    ELSE IF IsLanding(ev) THEN {<<ev[2][1], ev[2][2]>>} ELSE {}

Gives(code, ev) ==
    IF IsStep(ev) THEN At(code, ev[2]).writes
    ELSE IF IsLanding(ev) THEN {<<ev[2][1], ev[2][2], ev[2][3]>>} ELSE {}

Feeds(code, B, w, e, x) ==
    /\ x \in Gives(code, w) /\ w \in B[Taken(e)]
    /\ \A ev \in Events(code) : <<x[1], x[2]>> \in Spoils(code, ev) =>
          ev \in B[w] \cup {w} \/ Taken(e) \in B[ev] \cup {ev}

ReadsAreFed(code, B) == \A e \in Steps(code) : \A x \in At(code, e).reads :
    \E w \in Events(code) : Feeds(code, B, w, e, x)

(* No thread comes to the end before the loads have landed.                *)
LoadsMet(code, B) == \A x \in Loads(code) : \E e \in Steps(code) : Landing(x) \in B[Taken(e)]

(* The additions to the counter make its mark, and who reads another       *)
(* instruction's output comes after the wait for that one's counter.       *)
Additions(inst, code) == {y \in Steps(code) \X (1 .. Blocks(inst)) : y[2] <= At(code, y[1]).add}

OutputsCounted(inst, code) ==
    /\ Blocks(inst) \in Nat
    /\ \A e \in Steps(code) : At(code, e).add <= Blocks(inst)
    /\ IsFiniteSet(Additions(inst, code)) /\ Cardinality(Additions(inst, code)) = Blocks(inst)

InputsAwaited(inst, code, B) ==
    /\ inst.after \in Indices \cup {None}
    /\ inst.after = None => \A e \in Steps(code) : ~At(code, e).gmem
    /\ inst.after # None => \A e \in Steps(code) : At(code, e).input =>
          \E g \in Steps(code) : At(code, g).gmem /\ Taken(g) \in B[Taken(e)] \cup {Taken(e)}

(* Every block is stored before some addition.  Only an output that is     *)
(* read needs it.                                                          *)
OutputsStored(inst, code, B) ==
    \A b \in 0 .. Blocks(inst) - 1 : \E e \in Steps(code), x \in Puts(code) :
        At(code, e).add > 0 /\ x[2] = b /\ Reaching(x) \in B[Taken(e)]

Ordered(inst, code, counts, rounds, B) ==
    /\ WellFormed(code, counts) /\ SyncsMatch(code)
    /\ InRounds(code, counts, rounds, B) /\ Known(code, rounds, B)
    /\ PagesInOrder(code, B) /\ ReleasesAll(inst) /\ ReadsAreFed(code, B) /\ LoadsMet(code, B)
    /\ OutputsCounted(inst, code) /\ InputsAwaited(inst, code, B)

RoundsOf == [inst \in Instructions |-> Rounds(Runs[inst], Counts[inst])]
BeforeOf == [inst \in Instructions |-> Before(Runs[inst], RoundsOf[inst])]

(* The instructions whose output another one of a queue reads.             *)
Read == {inst \in Instructions : \E p \in Programs : \E k \in DOMAIN p :
             /\ p[k].after # None
             /\ inst = p[p[k].after + 1]}

AllOrdered ==
    /\ \A inst \in Instructions :
          Ordered(inst, Runs[inst], Counts[inst], RoundsOf[inst], BeforeOf[inst])
    /\ \A inst \in Read : OutputsStored(inst, Runs[inst], BeforeOf[inst])

(* As many bits of an instruction's index as a page has semaphores tell    *)
(* apart what can be under way at once.                                    *)
BitsTell ==
    /\ INSTRUCTION_PIPELINE_STAGES_BITS \in Nat \ {0} /\ 2 ^ 0 = 1
    /\ \A i \in Bits : 2 ^ i \in Nat \ {0}
    /\ \A m \in 0 .. num_iters, n \in 0 .. num_iters :
          /\ n <= m /\ m < n + INSTRUCTION_PIPELINE_STAGES
          /\ \A i \in Bits : Bit(m, i) = Bit(n, i)
          => m = n
===============================================================================
