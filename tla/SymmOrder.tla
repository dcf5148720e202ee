------------------------------ MODULE SymmOrder -------------------------------
(***************************************************************************)
(* The order that barriers and signals give the CTAs of all ranks in a     *)
(* program of all-reduces: which instruction has been passed, which call   *)
(* been launched and which put arrived before an instruction is passed.    *)
(* What makes a reduction read the inputs of its own call is said in terms *)
(* of that order alone; it is a fact about the program's code, and nothing *)
(* of it depends on how far a rank or a CTA may run ahead.                 *)
(*                                                                         *)
(* p is a program of SymmKernels; B gives for each event those that have   *)
(* been before it.                                                         *)
(***************************************************************************)
EXTENDS SymmKernels

(* CTA e[2] of rank e[1] passes instruction e[3]; a rank launches a call,  *)
(* or would launch one after the last; a put of a step arrives.            *)
StepsOf(p) == RanksOf(p) \X CTAsOf(p) \X Positions(p)
Sends(p, e) == Puts(p, e[3][1], e[1], e[2], InstrAt(p, e[3]).op)
Sent(p) == UNION {{e} \X Sends(p, e) : e \in StepsOf(p)}
CallsOf(p) == RanksOf(p) \X (1 .. Len(p.calls) + 1)

Passing(e) == <<"pass", e>>
Calling(l) == <<"call", l>>
Arriving(y) == <<"arrive", y>>
EventsOf(p) == {Passing(e) : e \in StepsOf(p)} \cup {Calling(l) : l \in CallsOf(p)}
                \cup {Arriving(y) : y \in Sent(p)}
IsPassing(ev) == ev[1] = "pass"
IsCalling(ev) == ev[1] = "call"

(* The last event of a CTA that is past i instructions of the k-th call.   *)
Reached(r, c, k, i) == IF i = 0 THEN Calling(<<r, k>>) ELSE Passing(<<r, c, <<k, i>>>>)

------------------------------------------------------------------------------
(* What has been before an event.                                          *)
With(B, events) == events \cup UNION {B[f] : f \in events}

(* A step: what the CTA itself has done; for pid 0 in a meeting what every *)
(* pid 0 has done until it came there; in the barrier of the grid the same *)
(* of the rank's CTAs.                                                     *)
Own(B, e) == With(B, {Reached(e[1], e[2], e[3][1], e[3][2] - 1)})

Met(p, B, e) ==
    IF InstrAt(p, e[3]).op \in Meetings /\ e[2] = 0
    THEN With(B, {Reached(q, 0, e[3][1], e[3][2] - 1) : q \in RanksOf(p)}) ELSE {}

Gathered(p, B, e) ==
    IF InstrAt(p, e[3]).op = "grid"
    THEN With(B, {Reached(e[1], d, e[3][1], e[3][2] - 1) : d \in CTAsOf(p)}) ELSE {}

(* A signal that is up was set since it was last cleared, by a put that    *)
(* need not wait for this step.  If that can be one put only, it has come. *)
SignalsFrom(p, q, r, half) == {y \in Sent(p) : y[2].src = q /\ y[2].dst = r /\ y[2].half = half}
Clears(p, x, half) == InstrAt(p, x).op = "clear" /\ half \in InstrAt(p, x).rows

Possible(p, B, e, q, z) ==
    {y \in SignalsFrom(p, q, e[1], InstrAt(p, e[3]).half) :
        /\ Arriving(y) \notin B[Passing(<<e[1], 0, z>>)]
        /\ Passing(e) \notin B[Arriving(y)]}

Told(p, B, e, q) ==
    {y \in SignalsFrom(p, q, e[1], InstrAt(p, e[3]).half) : \E z \in Positions(p) :
        /\ Clears(p, z, InstrAt(p, e[3]).half) /\ Passing(<<e[1], 0, z>>) \in Own(B, e)
        /\ Possible(p, B, e, q, z) = {y}}

Heard(p, B, e) ==
    IF InstrAt(p, e[3]).op = "await"
    THEN With(B, {Arriving(y) : y \in UNION {Told(p, B, e, q) :
                    q \in {q \in RanksOf(p) : q # e[1] \/ InstrAt(p, e[3]).self}}})
    ELSE {}

(* A launch: all CTAs have ended the call before.                          *)
Ended(p, r, k) == {Reached(r, c, k, Len(p.calls[k].code)) : c \in CTAsOf(p)}

Gained(p, B, ev) ==
    IF IsPassing(ev)
    THEN LET e == ev[2]
         IN  Own(B, e) \cup Met(p, B, e) \cup Gathered(p, B, e) \cup Heard(p, B, e)
    ELSE IF IsCalling(ev)
    THEN IF ev[2][2] = 1 THEN {} ELSE With(B, Ended(p, ev[2][1], ev[2][2] - 1))
    ELSE With(B, {Passing(ev[2][1])})

(* Each pass along the program tells every event what the last one found,  *)
(* to the pass that finds nothing new.                                     *)
OrderOf(p) ==
    LET n == Cardinality(EventsOf(p))
        pass[i \in 0 .. n] ==
          IF i = 0 THEN [B |-> [ev \in EventsOf(p) |-> {}], end |-> FALSE]
          ELSE LET last == pass[i - 1]
                   next == [ev \in EventsOf(p) |-> Gained(p, last.B, ev)]
               IN  IF last.end THEN last ELSE [B |-> next, end |-> next = last.B]
    IN  pass[n].B

------------------------------------------------------------------------------
(* What is asked of a program.                                             *)

(* What an event takes from the buffers, and what it puts there.  The host *)
(* fills a buffer before a launch; a stream takes the results of a call    *)
(* before the next launch.                                                 *)
TakenBy(p, ev) ==
    IF IsPassing(ev)
    THEN LET e == ev[2] IN Reads(p, e[3][1], e[1], e[2], InstrAt(p, e[3]).op)
    ELSE IF IsCalling(ev) /\ ev[2][2] > 1
    THEN LET r == ev[2][1]
             k == ev[2][2] - 1
         IN  IF \E j \in 1 .. Len(p.calls[k].script[r]) : p.calls[k].script[r][j].op = "out"
             THEN {Cell(r, s, c, Reduced(k)) : s \in RanksOf(p), c \in CTAsOf(p)} ELSE {}
    ELSE {}

FilledIn(p, r, k) == {Cell(r, s, c, Input(k)) : s \in Filled(p, r, p.calls[k].memcpy), c \in CTAsOf(p)}

PutBy(p, ev) ==
    IF IsPassing(ev)
    THEN LET e == ev[2] IN Writes(p, e[3][1], e[1], e[2], InstrAt(p, e[3]).op)
    ELSE IF IsCalling(ev)
    THEN IF ev[2][2] <= Len(p.calls) THEN FilledIn(p, ev[2][1], ev[2][2]) ELSE {}
    ELSE LET d == ev[2][2] IN {Cell(d.dst, d.slot, c, d.value) : c \in CTAsOf(p)}

(* Who reads comes after who wrote what is to be read, and whatever else   *)
(* is written to the same cell comes before that, or not before the read.  *)
SameCell(x, y) == x.rank = y.rank /\ x.slot = y.slot /\ x.part = y.part

Feeds(p, B, w, ev, x) ==
    /\ x \in PutBy(p, w) /\ w \in B[ev]
    /\ \A y \in PutBy(p, w) : SameCell(x, y) => y = x
    /\ \A f \in EventsOf(p) : (\E y \in PutBy(p, f) : SameCell(x, y)) =>
          f \in B[w] \cup {w} \/ ev \in B[f] \cup {f}

ReadsAreFed(p, B) == \A ev \in EventsOf(p) : \A x \in TakenBy(p, ev) :
    \E w \in EventsOf(p) : Feeds(p, B, w, ev, x)

(* B claims no more than what is known; puts are told apart.               *)
Known(p, B) == \A ev \in EventsOf(p) : B[ev] \subseteq Gained(p, B, ev)
PutsApart(p) == \A y \in Sent(p), z \in Sent(p) : y[2] = z[2] => y = z

ReducesInOrder(p, B) == PutsApart(p) /\ Known(p, B) /\ ReadsAreFed(p, B)

(* A program that gathers does not reduce.                                 *)
NothingTaken(p) == \A ev \in EventsOf(p) : TakenBy(p, ev) = {}

Fresh(p) == NothingTaken(p) \/ (NeverGathers(p) /\ ReducesInOrder(p, OrderOf(p)))
AllFresh == \A p \in Programs : Fresh(p)
===============================================================================
