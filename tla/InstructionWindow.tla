-------------------------- MODULE InstructionWindow ---------------------------
(***************************************************************************)
(* What the instruction ring of a Megakernels CTA promises its warps, with *)
(* none of its slots and semaphores: instructions are published in order,  *)
(* each worker warp runs all of them in order, none before it is           *)
(* published, and no more than Stages are published and not yet run by     *)
(* every warp.                                                             *)
(***************************************************************************)
EXTENDS Integers

CONSTANTS Stages, Warps, Instructions   \* Instructions: how many there are

VARIABLES published,   \* how many instructions have been published
          index,       \* per warp: the instruction it runs or will run next
          running      \* per warp: whether it runs it

vars == <<published, index, running>>

Init == /\ published = 0
        /\ index = [w \in Warps |-> 0]
        /\ running = [w \in Warps |-> FALSE]

Publish == /\ published < Instructions
           /\ \A w \in Warps : published - index[w] < Stages
           /\ published' = published + 1
           /\ UNCHANGED <<index, running>>

Begin(w) == /\ ~running[w]
            /\ index[w] < published
            /\ running' = [running EXCEPT ![w] = TRUE]
            /\ UNCHANGED <<published, index>>

End(w) == /\ running[w]
          /\ running' = [running EXCEPT ![w] = FALSE]
          /\ index' = [index EXCEPT ![w] = @ + 1]
          /\ UNCHANGED published

Next == Publish \/ \E w \in Warps : Begin(w) \/ End(w)

Spec == Init /\ [][Next]_vars
===============================================================================
