---------------------------- MODULE WorkPartition ----------------------------
(***************************************************************************)
(* The two ways persistent_kernel.cuh divides ids among schedulers.        *)
(*                                                                         *)
(* get_first_last_ids gives scheduler k the contiguous block of workers    *)
(* whose queues it alone writes; get_rand_sched_id picks the scheduler     *)
(* queue into which a worker puts the events it completes.  The two are    *)
(* computed independently and do not always agree.                         *)
(***************************************************************************)
EXTENDS Integers

(* get_first_last_ids: the half-open interval [first, last) of my_id.      *)
FirstId(num_elements, num_parts, my_id) ==
  LET per_part == num_elements \div num_parts
      reminder == num_elements % num_parts
  IN  IF my_id < reminder THEN (per_part + 1) * my_id
                          ELSE per_part * my_id + reminder

LastId(num_elements, num_parts, my_id) ==
  LET per_part == num_elements \div num_parts
      reminder == num_elements % num_parts
  IN  FirstId(num_elements, num_parts, my_id)
        + (IF my_id < reminder THEN per_part + 1 ELSE per_part)

OwnIds(num_elements, num_parts, my_id) ==
  FirstId(num_elements, num_parts, my_id)
    .. LastId(num_elements, num_parts, my_id) - 1

(* get_rand_sched_id: no randomness is left in it.                         *)
get_rand_sched_id(worker_id, num_workers, num_schedulers) ==
  worker_id \div ((num_workers + num_schedulers - 1) \div num_schedulers)
==============================================================================
