----------------------------- MODULE RankBarrier ------------------------------
(***************************************************************************)
(* What a barrier over all ranks promises, whatever it is made of: nobody  *)
(* leaves the k-th barrier before everybody has entered it, and once       *)
(* everybody has, everybody leaves.                                        *)
(***************************************************************************)
EXTENDS Naturals

VARIABLES members,         \* who takes part; never changes
          entered, left    \* how many barriers each member has entered and left

vars == <<members, entered, left>>

Init == /\ members # {}
        /\ entered = [m \in members |-> 0]
        /\ left = [m \in members |-> 0]

Enter(m) == /\ entered[m] = left[m]
            /\ entered' = [entered EXCEPT ![m] = @ + 1]
            /\ UNCHANGED <<members, left>>

Leave(m) == /\ left[m] < entered[m]
            /\ \A o \in members : entered[o] >= entered[m]
            /\ left' = [left EXCEPT ![m] = @ + 1]
            /\ UNCHANGED <<members, entered>>

SomebodyEnters == \E m \in members : Enter(m)
SomebodyLeaves == \E m \in members : Leave(m)

(* A member that stays behind holds up all others in the next barrier, so  *)
(* fairness of leaving as such is fairness to every member.                *)
Spec == Init /\ [][SomebodyEnters \/ SomebodyLeaves]_vars /\ WF_vars(SomebodyLeaves)
===============================================================================
