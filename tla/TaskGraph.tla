------------------------------ MODULE TaskGraph ------------------------------
(***************************************************************************)
(* What the MPK runtime promises of a compiled task graph, with none of    *)
(* its queues, events, workers or schedulers: the graph is executed        *)
(* iteration by iteration, each task exactly once per iteration, a task    *)
(* only when all the tasks it depends on have finished in this iteration,  *)
(* and the next batch is prepared only between two iterations.             *)
(***************************************************************************)
EXTENDS Naturals

CONSTANTS Tasks,          \* task positions, the begin task included
          Producers,      \* Producers[t]: the tasks t has to wait for
          MaxIterations   \* bound on the iterations of one launch

VARIABLES iteration,      \* batches prepared since the kernel was launched
          status,         \* per task, in the current iteration
          mode            \* "ready" to be launched, "serving" or "drained"

vars == <<iteration, status, mode>>

Statuses == {"waiting", "running", "finished"}
AllFinished == \A t \in Tasks : status[t] = "finished"

TypeOK == /\ iteration \in 0..MaxIterations
          /\ status \in [Tasks -> Statuses]
          /\ mode \in {"ready", "serving", "drained"}

Init == /\ iteration = 0
        /\ status = [t \in Tasks |-> "finished"]
        /\ mode = "ready"

Launch == /\ mode # "serving"
          /\ mode' = "serving"
          /\ iteration' = 0
          /\ UNCHANGED status

BeginIteration == /\ mode = "serving"
                  /\ AllFinished
                  /\ iteration < MaxIterations
                  /\ iteration' = iteration + 1
                  /\ status' = [t \in Tasks |-> "waiting"]
                  /\ UNCHANGED mode

Start(t) == /\ status[t] = "waiting"
            /\ \A p \in Producers[t] : status[p] = "finished"
            /\ status' = [status EXCEPT ![t] = "running"]
            /\ UNCHANGED <<iteration, mode>>

Finish(t) == /\ status[t] = "running"
             /\ status' = [status EXCEPT ![t] = "finished"]
             /\ UNCHANGED <<iteration, mode>>

Drain == /\ mode = "serving"
         /\ AllFinished
         /\ mode' = "drained"
         /\ UNCHANGED <<iteration, status>>

Next == \/ Launch
        \/ BeginIteration
        \/ Drain
        \/ \E t \in Tasks : Start(t) \/ Finish(t)

(* A launched kernel works off every task and comes back for a batch; the  *)
(* host is free never to launch.  An iteration has finitely many steps, so *)
(* no task can be held up for ever by the others.                          *)
Fairness == WF_vars(BeginIteration \/ Drain \/ \E t \in Tasks : Start(t) \/ Finish(t))

Spec == Init /\ [][Next]_vars /\ Fairness
==============================================================================
