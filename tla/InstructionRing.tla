--------------------------- MODULE InstructionRing ----------------------------
(***************************************************************************)
(* The ring of instruction slots of one Megakernels CTA.  The controller   *)
(* warp fills the slots in turn, the worker warps run each instruction and *)
(* give its slot back.  They meet in two semaphores per slot, of which a   *)
(* waiting warp sees the parity of the phase and nothing else.             *)
(***************************************************************************)
EXTENDS Integers, FiniteSets

CONSTANTS INSTRUCTION_PIPELINE_STAGES,
          Warps,       \* the worker warps: all but the controller
          num_iters    \* instructions in the queue of this SM

RingAssumption == /\ INSTRUCTION_PIPELINE_STAGES \in Nat \ {0}
                  /\ num_iters \in Nat
                  /\ IsFiniteSet(Warps) /\ Warps # {}

ASSUME RingAssumption

VARIABLES instruction_arrived, instruction_finished,   \* per slot
          slot,        \* per slot: the instruction it holds, -1 before the first
          step,        \* what the controller does next
          fetch,       \* the controller's instruction_index
          drained,     \* slots it has waited for after the last instruction
          instruction_index, running   \* per worker warp

controller == <<slot, step, fetch, drained>>
ring_vars == <<instruction_arrived, instruction_finished, controller, instruction_index, running>>

(* Mutant of NUM_WARPS: the controller is not counted.                     *)
WorkersOnly == Cardinality(Warps)

NUM_WARPS == Cardinality(Warps) + 1
Slots == 0 .. INSTRUCTION_PIPELINE_STAGES - 1
Ring(n) == n % INSTRUCTION_PIPELINE_STAGES

------------------------------------------------------------------------------
(* A semaphore counts the arrivals of a phase and the phases it has left   *)
(* behind; a wait names a parity and passes when the phase of that parity  *)
(* is over, so that a new semaphore lets a wait for 1 pass.                *)
Fresh == [phase |-> 0, pending |-> 0]

Arrive(sem, n, count) ==
    IF sem.pending + n < count THEN [sem EXCEPT !.pending = @ + n]
    ELSE [phase |-> sem.phase + 1, pending |-> sem.pending + n - count]

Passed(sem, parity) == sem.phase % 2 # parity

(* Mutant of Parity: of the instruction and not of its round.              *)
ParityOfIndex(n) == n % 2

(* The parity of the n-th instruction in its slot.                         *)
Parity(n) == (n \div INSTRUCTION_PIPELINE_STAGES) % 2

RingInit ==
    /\ instruction_arrived = [r \in Slots |-> Fresh]
    /\ instruction_finished = [r \in Slots |-> Fresh]
    /\ slot = [r \in Slots |-> -1]
    /\ step = "load" /\ fetch = 0 /\ drained = 0
    /\ instruction_index = [w \in Warps |-> 0]
    /\ running = [w \in Warps |-> FALSE]

------------------------------------------------------------------------------
(* The controller.  A slot that was used before is waited for.             *)
LoadInstruction ==
    /\ step = "load" /\ fetch < num_iters
    /\ fetch >= INSTRUCTION_PIPELINE_STAGES =>
         Passed(instruction_finished[Ring(fetch)], Parity(fetch - INSTRUCTION_PIPELINE_STAGES))
    /\ slot' = [slot EXCEPT ![Ring(fetch)] = fetch]
    /\ step' = "publish"
    /\ UNCHANGED <<instruction_arrived, instruction_finished, fetch, drained,
                   instruction_index, running>>

Publish ==
    /\ step = "publish"
    /\ instruction_arrived' = [instruction_arrived EXCEPT ![Ring(fetch)] = Arrive(@, 1, 1)]
    /\ fetch' = fetch + 1
    /\ step' = "load"
    /\ UNCHANGED <<instruction_finished, slot, drained, instruction_index, running>>

(* Mutant of LastOf: one instruction too early.                            *)
LastOneEarly(i) == num_iters - INSTRUCTION_PIPELINE_STAGES + i - 1

(* After the last instruction the slots in use are waited for once more.   *)
LastOf(i) == num_iters - INSTRUCTION_PIPELINE_STAGES + i

Drain ==
    /\ step = "load" /\ fetch = num_iters /\ drained < INSTRUCTION_PIPELINE_STAGES
    /\ LastOf(drained) >= 0 =>
         Passed(instruction_finished[Ring(LastOf(drained))], Parity(LastOf(drained)))
    /\ drained' = drained + 1
    /\ UNCHANGED <<instruction_arrived, instruction_finished, slot, step, fetch,
                   instruction_index, running>>

(* A worker warp.                                                          *)
AwaitInstruction(w) ==
    /\ ~running[w] /\ instruction_index[w] < num_iters
    /\ Passed(instruction_arrived[Ring(instruction_index[w])], Parity(instruction_index[w]))
    /\ running' = [running EXCEPT ![w] = TRUE]
    /\ UNCHANGED <<instruction_arrived, instruction_finished, controller, instruction_index>>

NextInstruction(w) ==
    /\ running[w]
    /\ instruction_finished' = [instruction_finished EXCEPT
                                  ![Ring(instruction_index[w])] = Arrive(@, 1, NUM_WARPS - 1)]
    /\ instruction_index' = [instruction_index EXCEPT ![w] = @ + 1]
    /\ running' = [running EXCEPT ![w] = FALSE]
    /\ UNCHANGED <<instruction_arrived, controller>>

RingNext == \/ LoadInstruction \/ Publish \/ Drain
            \/ \E w \in Warps : AwaitInstruction(w) \/ NextInstruction(w)

RingSpec == RingInit /\ [][RingNext]_ring_vars

------------------------------------------------------------------------------
(* A warp that runs an instruction has it in its slot, whatever the other  *)
(* warps and the controller are at (await_instruction and the fetch).      *)
SlotHeld == \A w \in Warps :
    running[w] => slot[Ring(instruction_index[w])] = instruction_index[w]

(* The slots and the parities of their semaphores implement the window.    *)
Window == INSTANCE InstructionWindow
              WITH Stages <- INSTRUCTION_PIPELINE_STAGES, Instructions <- num_iters,
                   published <- fetch, index <- instruction_index
ImplementsWindow == Window!Spec
===============================================================================
