------------------------------- MODULE MCTasks -------------------------------
(***************************************************************************)
(* Model checking of Tasks.  The state space is explored modulo a view     *)
(* that drops what no step reads: the curr fields of a PCB whose task is   *)
(* not suspended, which the PIT handler writes before it reads them.       *)
(***************************************************************************)
EXTENDS TasksRefinement

Suspended ==
  {Top(t) : t \in {u \in Terminals \ {curr_running_terminal_idx} : Booted(u)}}

LiveState ==
  <<slots, [p \in Tasks |-> IF p \in Suspended THEN curr[p] ELSE NoContext],
    cpu, curr_running_terminal_idx, boot, exception_flag, keys, vid_on, overwritten>>
=============================================================================
