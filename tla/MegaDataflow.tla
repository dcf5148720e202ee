----------------------------- MODULE MegaDataflow -----------------------------
(***************************************************************************)
(* What the Triton mega kernel promises of a compiled model, with none of  *)
(* its work queues, scoreboard or SMs: a launch runs every task once, a    *)
(* task only after all tasks that produce what it reads, and the next      *)
(* launch begins only when nothing of the last one is left.                *)
(***************************************************************************)
EXTENDS Naturals

CONSTANT MaxLaunches   \* bound on the number of launches

VARIABLES needs,       \* needs[t]: the tasks whose output t reads; never changes
          launch,      \* number of launches so far
          running, done

vars == <<needs, launch, running, done>>

Tasks == DOMAIN needs

Init == /\ launch = 0
        /\ running = {}
        /\ done = {}

Launch == /\ launch < MaxLaunches
          /\ launch = 0 \/ done = Tasks
          /\ launch' = launch + 1
          /\ done' = {}
          /\ UNCHANGED <<needs, running>>

Start(t) == /\ launch > 0
            /\ t \notin running \cup done
            /\ needs[t] \subseteq done
            /\ running' = running \cup {t}
            /\ UNCHANGED <<needs, launch, done>>

Finish(t) == /\ t \in running
             /\ running' = running \ {t}
             /\ done' = done \cup {t}
             /\ UNCHANGED <<needs, launch>>

Next == Launch \/ \E t \in Tasks : Start(t) \/ Finish(t)

(* A launched kernel runs until all its tasks are done; the host is free   *)
(* not to launch.                                                          *)
Spec == Init /\ [][Next]_vars /\ WF_vars(\E t \in Tasks : Start(t) \/ Finish(t))
==============================================================================
