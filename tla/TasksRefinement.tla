--------------------------- MODULE TasksRefinement ---------------------------
(***************************************************************************)
(* Tasks implements ProcessStacks.  The point of a process is in one of    *)
(* three places: in the CPU for the top task of the running terminal, in   *)
(* the curr fields of the PCB for the top task of another terminal, and in *)
(* the parent fields of its child's PCB for a task that waits in execute.  *)
(***************************************************************************)
EXTENDS Tasks, Sequences

StackOf(t) ==
  [i \in 1..FirstFree(phys_mem_idx[t]) |-> phys_mem_idx[t][i - 1]]

IsTop(p, t) == Booted(t) /\ p = Top(t)
ChildOf(p, t, i) == phys_mem_idx[t][i] = p /\ i + 1 \in Tasks /\ phys_mem_idx[t][i + 1] # None

PointOf(p) ==
  CASE IsTop(p, curr_running_terminal_idx) -> cpu.at
    [] \E t \in Terminals \ {curr_running_terminal_idx} : IsTop(p, t) -> curr[p].at
    [] \E t \in Terminals : \E i \in Tasks : ChildOf(p, t, i) ->
         LET t == CHOOSE t \in Terminals : \E i \in Tasks : ChildOf(p, t, i)
             i == CHOOSE i \in Tasks : ChildOf(p, t, i)
         IN  parent[phys_mem_idx[t][i + 1]].at
    [] OTHER -> "none"

Abstract == INSTANCE ProcessStacks WITH
  stack <- [t \in Terminals |-> StackOf(t)],
  point <- [p \in Tasks |-> PointOf(p)],
  running <- curr_running_terminal_idx

(* execute, halt, the exception handlers and the PIT handler, with their   *)
(* PCBs, tss.esp0 and stack switches, behave as a stack of processes per   *)
(* terminal: every process continues exactly where it stopped, in the      *)
(* kernel or below a child, and terminals take turns.                      *)
ImplementsStacks == Abstract!Spec
=============================================================================
