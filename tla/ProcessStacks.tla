---------------------------- MODULE ProcessStacks ----------------------------
(***************************************************************************)
(* What the task subsystem promises, without PCBs, kernel stacks and page  *)
(* directories: every terminal has a stack of processes, a process has a   *)
(* program point of its own, and only the process on top of the running    *)
(* terminal's stack moves.  A terminal whose last process exits gets a new *)
(* one in its place, and the terminals take turns.                         *)
(***************************************************************************)
EXTENDS Integers, Sequences

CONSTANTS NumTerminals, NumTasks

Terminals == 0..(NumTerminals - 1)
Tasks == 0..(NumTasks - 1)

VARIABLES
  stack,      \* the processes of each terminal, the newest last
  point,      \* where a process is, "none" if it does not exist
  running     \* the terminal that has the CPU

vars == <<stack, point, running>>

(* Points where a process may lose the CPU. *)
Preemptible == {"read", "tail", "print", "flagged"}

(* The points a process may move to by itself. *)
Successors ==
  [p \in {"user"} \cup Preemptible |->
     CASE p = "user" -> {"read", "tail", "print"}
       [] p \in {"read", "tail"} -> {"user"}
       [] p = "print" -> {"flagged"}
       [] OTHER -> {}]

Top(t) == stack[t][Len(stack[t])]
Started(t) == stack[t] # <<>>
Free == {p \in Tasks : point[p] = "none"}

-----------------------------------------------------------------------------
Init ==
  /\ stack = [t \in Terminals |-> <<>>]
  /\ point = [p \in Tasks |-> "none"]
  /\ running = 0

(* The first process of terminal t, when the terminals before t have one; *)
(* whoever was running stays where it is.                                  *)
Boot(t) ==
  /\ \A u \in Terminals : Started(u) <=> u < t
  /\ \A u \in Terminals : Started(u) => point[Top(u)] \in Preemptible
  /\ \E p \in Free :
       /\ stack' = [stack EXCEPT ![t] = <<p>>]
       /\ point' = [point EXCEPT ![p] = "user"]
  /\ running' = t

(* The running process starts another one and waits for it. *)
Push ==
  /\ Started(running) /\ point[Top(running)] = "user"
  /\ \E p \in Free :
       /\ stack' = [stack EXCEPT ![running] = Append(@, p)]
       /\ point' = [point EXCEPT ![Top(running)] = "exec", ![p] = "user"]
  /\ UNCHANGED running

(* The running process ends, by itself or by an exception; the one that    *)
(* waits for it goes on.                                                   *)
Exits == Started(running) /\ point[Top(running)] \in {"user", "flagged"}

Pop ==
  /\ Exits
  /\ Len(stack[running]) > 1
  /\ LET s == stack[running]
     IN  /\ stack' = [stack EXCEPT ![running] = SubSeq(s, 1, Len(s) - 1)]
         /\ point' = [point EXCEPT ![Top(running)] = "none",
                                   ![s[Len(s) - 1]] = "user"]
  /\ UNCHANGED running

(* The last process of a terminal is replaced by a new one. *)
Restart ==
  /\ Exits
  /\ Len(stack[running]) = 1
  /\ point' = [point EXCEPT ![Top(running)] = "user"]
  /\ UNCHANGED <<stack, running>>

Move ==
  /\ Started(running) /\ point[Top(running)] # "none"
  /\ \E q \in Successors[point[Top(running)]] :
       point' = [point EXCEPT ![Top(running)] = q]
  /\ UNCHANGED <<stack, running>>

(* The next terminal goes on where it was. *)
Switch ==
  /\ \A t \in Terminals : Started(t) /\ point[Top(t)] \in Preemptible
  /\ running' = (running + 1) % NumTerminals
  /\ UNCHANGED <<stack, point>>

Next ==
  \/ \E t \in Terminals : Boot(t)
  \/ Push \/ Pop \/ Restart \/ Move \/ Switch

Spec == Init /\ [][Next]_vars
=============================================================================
