---------------------------- MODULE RequestService ----------------------------
(***************************************************************************)
(* What batching promises the requests of one run, with none of the slots, *)
(* pages and token buffers: requests are taken up in order, never more at  *)
(* a time than there are slots, each is served once, and the server drains *)
(* only when all have been served.                                         *)
(***************************************************************************)
EXTENDS Naturals, FiniteSets

CONSTANTS TotalRequests,  \* requests are numbered 0 .. TotalRequests-1
          Capacity        \* requests served at a time

VARIABLES next,           \* the next request to take up
          active,         \* requests being served
          served,         \* requests that are finished
          drained         \* the server has seen that nothing is left

vars == <<next, active, served, drained>>

Requests == 0..TotalRequests - 1

Init == /\ next = 0
        /\ active = {}
        /\ served = {}
        /\ drained = FALSE

Admit == /\ ~drained
         /\ next < TotalRequests
         /\ Cardinality(active) < Capacity
         /\ active' = active \cup {next}
         /\ next' = next + 1
         /\ UNCHANGED <<served, drained>>

Finish(r) == /\ r \in active
             /\ active' = active \ {r}
             /\ served' = served \cup {r}
             /\ UNCHANGED <<next, drained>>

Drain == /\ ~drained
         /\ served = Requests
         /\ drained' = TRUE
         /\ UNCHANGED <<next, active, served>>

(* The kernel is launched again although nothing is left to do.            *)
Resume == /\ drained
          /\ drained' = FALSE
          /\ UNCHANGED <<next, active, served>>

Serve == Admit \/ Drain \/ \E r \in Requests : Finish(r)

Next == Serve \/ Resume

Spec == Init /\ [][Next]_vars /\ WF_vars(Serve)
==============================================================================
