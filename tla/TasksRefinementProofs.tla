------------------------ MODULE TasksRefinementProofs ------------------------
(***************************************************************************)
(* Tasks implements ProcessStacks, for every number of terminals and task  *)
(* slots, under the hypothesis of TasksProofs.                             *)
(*                                                                         *)
(* The point of a process is where the invariant of TasksProofs says: in   *)
(* the CPU, in the PCB of a suspended task, or, for a task that waits in   *)
(* execute, in its child's PCB.  With that known before and after a step,  *)
(* each action is compared with one abstract action or with a stutter.     *)
(***************************************************************************)
EXTENDS TasksRefinement, TasksProofs, SequenceTheorems

stackA == [t \in Terminals |-> StackOf(t)]
pointA == [p \in Tasks |-> PointOf(p)]

-----------------------------------------------------------------------------
(* The stack of a terminal as a sequence.                                  *)

(* The entries of a stack s of depth n, bottom first. *)
Entries(s, n) == [i \in 1..n |-> s[i - 1]]

LEMMA EntriesSeq ==
  ASSUME NEW s, NEW n \in 0..NumTasks, IsStack(s, n)
  PROVE  /\ Entries(s, n) \in Seq(Tasks)
         /\ Len(Entries(s, n)) = n
         /\ \A i \in 1..n : Entries(s, n)[i] = s[i - 1]
<1>1. \A i \in 1..n : s[i - 1] \in Tasks
  BY TasksAssumption DEF IsStack, Tasks
<1>2. Entries(s, n) \in [1..n -> Tasks]
  BY <1>1 DEF Entries
<1>3. n \in Nat
  BY TasksAssumption
<1>4. QED
  BY <1>2, <1>3 DEF Entries

LEMMA EntriesPush ==
  ASSUME NEW s, NEW n \in Tasks, IsStack(s, n), NEW c \in Tasks,
         IsStack([s EXCEPT ![n] = c], n + 1)
  PROVE  Entries([s EXCEPT ![n] = c], n + 1) = Append(Entries(s, n), c)
<1> DEFINE a == Entries(s, n)
           b == Entries([s EXCEPT ![n] = c], n + 1)
<1>0. n \in 0..NumTasks /\ n + 1 \in 0..NumTasks /\ n \in Nat
  BY TasksAssumption DEF Tasks
<1>1. a \in Seq(Tasks) /\ Len(a) = n /\ \A i \in 1..n : a[i] = s[i - 1]
  BY <1>0, EntriesSeq
<1>2. /\ b \in Seq(Tasks) /\ Len(b) = n + 1
      /\ \A i \in 1..(n + 1) : b[i] = [s EXCEPT ![n] = c][i - 1]
  BY <1>0, EntriesSeq
<1> HIDE DEF a, b
<1>3. /\ Append(a, c) \in Seq(Tasks) /\ Len(Append(a, c)) = n + 1
      /\ \A i \in 1..n : Append(a, c)[i] = a[i]
      /\ Append(a, c)[n + 1] = c
  BY <1>1, AppendProperties
<1>4. ASSUME NEW i \in 1..(n + 1) PROVE b[i] = Append(a, c)[i]
  <2>1. s \in [Tasks -> Tasks \cup {None}] /\ i - 1 \in Tasks
    BY <1>0, TasksAssumption DEF IsStack, Tasks
  <2>2. CASE i = n + 1
    BY <1>0, <1>2, <1>3, <2>1, <2>2
  <2>3. CASE i # n + 1
    <3>1. i \in 1..n /\ i - 1 # n
      BY <1>0, <2>3
    <3>2. [s EXCEPT ![n] = c][i - 1] = s[i - 1]
      BY <2>1, <3>1
    <3>3. QED
      BY <1>1, <1>2, <1>3, <3>1, <3>2
  <2>4. QED
    BY <2>2, <2>3
<1>5. b = Append(a, c)
  BY <1>0, <1>2, <1>3, <1>4, SeqEqual
<1>6. QED
  BY <1>5 DEF a, b

LEMMA EntriesPop ==
  ASSUME NEW s, NEW n \in 1..NumTasks, IsStack(s, n),
         IsStack([s EXCEPT ![n - 1] = None], n - 1)
  PROVE  Entries([s EXCEPT ![n - 1] = None], n - 1) = SubSeq(Entries(s, n), 1, n - 1)
<1> DEFINE a == Entries(s, n)
           b == Entries([s EXCEPT ![n - 1] = None], n - 1)
<1>0. n \in 0..NumTasks /\ n - 1 \in 0..NumTasks /\ n - 1 \in Nat
  BY TasksAssumption
<1>1. a \in Seq(Tasks) /\ Len(a) = n /\ \A i \in 1..n : a[i] = s[i - 1]
  BY <1>0, EntriesSeq
<1>2. /\ b \in Seq(Tasks) /\ Len(b) = n - 1
      /\ \A i \in 1..(n - 1) : b[i] = [s EXCEPT ![n - 1] = None][i - 1]
  BY <1>0, EntriesSeq
<1> HIDE DEF a, b
<1>3. /\ SubSeq(a, 1, n - 1) \in Seq(Tasks) /\ Len(SubSeq(a, 1, n - 1)) = n - 1
      /\ \A i \in 1..(n - 1) : SubSeq(a, 1, n - 1)[i] = a[i]
  BY <1>0, <1>1
<1>4. ASSUME NEW i \in 1..(n - 1) PROVE b[i] = SubSeq(a, 1, n - 1)[i]
  <2>1. s \in [Tasks -> Tasks \cup {None}] /\ i - 1 \in Tasks /\ i - 1 # n - 1 /\ i \in 1..n
    BY <1>0, TasksAssumption DEF IsStack, Tasks
  <2>2. [s EXCEPT ![n - 1] = None][i - 1] = s[i - 1]
    BY <2>1
  <2>3. QED
    BY <1>1, <1>2, <1>3, <2>1, <2>2
<1>5. b = SubSeq(a, 1, n - 1)
  BY <1>0, <1>2, <1>3, <1>4, SeqEqual
<1>6. QED
  BY <1>5 DEF a, b

-----------------------------------------------------------------------------
(* Where the points are.                                                   *)

(* The top task of a started terminal is in the CPU or saved in its PCB; a *)
(* task below another is inside execute; a free slot has no process.       *)
TopPoints ==
  \A t \in Terminals :
    Booted(t) => PointOf(Top(t)) = IF t = curr_running_terminal_idx THEN cpu.at
                                   ELSE curr[Top(t)].at
WaitingPoints ==
  \A t \in Terminals : \A i \in Tasks :
    i + 1 \in Tasks /\ phys_mem_idx[t][i + 1] # None => PointOf(phys_mem_idx[t][i]) = "exec"
FreePoints == \A p \in Tasks : phys_addr_available[p] => PointOf(p) = "none"

(* A task is free, on top of a terminal or below another task. *)
EveryTask ==
  \A p \in Tasks :
    \/ phys_addr_available[p]
    \/ \E t \in Terminals : IsTop(p, t)
    \/ \E t \in Terminals : \E i \in Tasks : ChildOf(p, t, i)

LEMMA TopPosition ==
  ASSUME Inv, NEW t \in Terminals, NEW p \in Tasks, IsTop(p, t)
  PROVE  \E i \in Tasks : /\ phys_mem_idx[t][i] = p
                          /\ \A j \in Tasks : phys_mem_idx[t][j] # None => j <= i
<1> DEFINE n == FirstFree(phys_mem_idx[t])
<1>1. n \in 1..NumTasks /\ n - 1 \in Tasks /\ p = phys_mem_idx[t][n - 1]
  BY TopOfBooted DEF IsTop, Inv
<1>2. \A j \in Tasks : phys_mem_idx[t][j] # None => j <= n - 1
  BY <1>1 DEF Inv, StackShape, Tasks
<1>3. QED
  BY <1>1, <1>2

(* No task is on top of two terminals, or on top of one and below another. *)
LEMMA Positions ==
  ASSUME Inv, NEW p \in Tasks, NEW t \in Terminals
  PROVE  /\ IsTop(p, t) => ~phys_addr_available[p]
         /\ IsTop(p, t) => \A u \in Terminals : IsTop(p, u) => u = t
         /\ IsTop(p, t) => \A u \in Terminals : \A i \in Tasks : ~ChildOf(p, u, i)
         /\ \A i \in Tasks : ChildOf(p, t, i) => ~phys_addr_available[p]
         /\ \A i \in Tasks : ChildOf(p, t, i) =>
              \A u \in Terminals : \A j \in Tasks : ChildOf(p, u, j) => u = t /\ j = i
<1>1. p # None
  BY TasksAssumption DEF Tasks, None
<1>2. \A u, v \in Terminals : \A i, j \in Tasks :
        phys_mem_idx[u][i] = p /\ phys_mem_idx[v][j] = p => u = v /\ i = j
  BY <1>1 DEF Inv, SlotOwnership
<1>3. \A u \in Terminals : \A i \in Tasks : phys_mem_idx[u][i] = p => ~phys_addr_available[p]
  BY DEF Inv, SlotOwnership
<1>4. IsTop(p, t) => ~phys_addr_available[p]
  BY <1>3, TopPosition
<1>5. IsTop(p, t) => \A u \in Terminals : IsTop(p, u) => u = t
  BY <1>2, TopPosition
<1>6. ASSUME IsTop(p, t), NEW u \in Terminals, NEW i \in Tasks, ChildOf(p, u, i) PROVE FALSE
  <2>1. PICK k \in Tasks : /\ phys_mem_idx[t][k] = p
                           /\ \A j \in Tasks : phys_mem_idx[t][j] # None => j <= k
    BY <1>6, TopPosition
  <2>2. u = t /\ i = k
    BY <1>2, <1>6, <2>1 DEF ChildOf
  <2>3. QED
    BY <1>6, <2>1, <2>2 DEF ChildOf, Tasks
<1>7. QED
  BY <1>2, <1>3, <1>4, <1>5, <1>6 DEF ChildOf

LEMMA PointsKnown == Inv => TopPoints /\ WaitingPoints /\ FreePoints /\ EveryTask
<1> SUFFICES ASSUME Inv PROVE TopPoints /\ WaitingPoints /\ FreePoints /\ EveryTask
  OBVIOUS
<1> DEFINE r == curr_running_terminal_idx
<1>1. TopPoints
  <2> SUFFICES ASSUME NEW t \in Terminals, Booted(t)
               PROVE  PointOf(Top(t)) = IF t = r THEN cpu.at ELSE curr[Top(t)].at
    BY DEF TopPoints
  <2>1. Top(t) \in Tasks /\ IsTop(Top(t), t)
    BY TopOfBooted DEF Inv, IsTop
  <2>2. \A u \in Terminals : IsTop(Top(t), u) => u = t
    BY <2>1, Positions
  <2>3. r \in Terminals /\ \A u \in Terminals : \A i \in Tasks : ~ChildOf(Top(t), u, i)
    BY <2>1, Positions DEF Inv, TypeOK
  <2>4. CASE t = r
    <3>1. ~ \E u \in Terminals \ {r} : IsTop(Top(t), u)
      BY <2>2, <2>4
    <3>2. QED
      BY <2>1, <2>3, <2>4, <3>1 DEF PointOf
  <2>5. CASE t # r
    <3>1. ~IsTop(Top(t), r)
      BY <2>2, <2>3, <2>5
    <3>2. \E u \in Terminals \ {r} : IsTop(Top(t), u)
      BY <2>1, <2>5
    <3>3. QED
      BY <2>3, <2>5, <3>1, <3>2 DEF PointOf
  <2>6. QED
    BY <2>4, <2>5
<1>2. WaitingPoints
  <2> SUFFICES ASSUME NEW t \in Terminals, NEW i \in Tasks, i + 1 \in Tasks,
                      phys_mem_idx[t][i + 1] # None
               PROVE  PointOf(phys_mem_idx[t][i]) = "exec"
    BY DEF WaitingPoints
  <2> DEFINE p == phys_mem_idx[t][i]
  <2>1. p \in Tasks
    <3>1. i + 1 < FirstFree(phys_mem_idx[t]) /\ FirstFree(phys_mem_idx[t]) \in 0..NumTasks
      BY DEF Inv, StackShape
    <3>2. i < FirstFree(phys_mem_idx[t])
      BY <3>1, TasksAssumption DEF Tasks
    <3>3. QED
      BY <3>2 DEF Inv, StackShape, TypeOK
  <2>2. ChildOf(p, t, i)
    BY DEF ChildOf
  <2>3. \A u \in Terminals : ~IsTop(p, u)
    BY <2>1, <2>2, Positions
  <2>4. \A u \in Terminals : \A j \in Tasks : ChildOf(p, u, j) => u = t /\ j = i
    BY <2>1, <2>2, Positions
  <2>5. r \in Terminals
    BY DEF Inv, TypeOK
  <2>6. (CHOOSE u \in Terminals : \E j \in Tasks : ChildOf(p, u, j)) = t
    BY <2>2, <2>4
  <2>7. (CHOOSE j \in Tasks : ChildOf(p, t, j)) = i
    BY <2>2, <2>4
  <2>8. PointOf(p) = parent[phys_mem_idx[t][i + 1]].at
    BY <2>2, <2>3, <2>5, <2>6, <2>7 DEF PointOf
  <2>9. i + 1 \in Tasks \ {0}
    BY TasksAssumption DEF Tasks
  <2>10. QED
    BY <2>8, <2>9 DEF Inv, ParentLinks
<1>3. FreePoints
  <2> SUFFICES ASSUME NEW p \in Tasks, phys_addr_available[p] PROVE PointOf(p) = "none"
    BY DEF FreePoints
  <2>1. \A u \in Terminals : ~IsTop(p, u)
    BY Positions
  <2>2. \A u \in Terminals : \A i \in Tasks : ~ChildOf(p, u, i)
    BY Positions
  <2>3. r \in Terminals
    BY DEF Inv, TypeOK
  <2>4. QED
    BY <2>1, <2>2, <2>3 DEF PointOf
<1>4. EveryTask
  <2> SUFFICES ASSUME NEW p \in Tasks, ~phys_addr_available[p]
               PROVE  \/ \E t \in Terminals : IsTop(p, t)
                      \/ \E t \in Terminals : \E i \in Tasks : ChildOf(p, t, i)
    BY DEF EveryTask
  <2>1. PICK t \in Terminals, i \in Tasks : phys_mem_idx[t][i] = p
    BY DEF Inv, SlotOwnership
  <2> DEFINE n == FirstFree(phys_mem_idx[t])
  <2>2. p # None /\ 0 \in Tasks
    BY TasksAssumption DEF Tasks, None
  <2>3. i < n /\ n \in 0..NumTasks
    BY <2>1, <2>2 DEF Inv, StackShape
  <2>4. Booted(t)
    BY <2>2, <2>3, TasksAssumption DEF Inv, StackShape, Booted, Tasks
  <2>5. n \in 1..NumTasks /\ Top(t) = phys_mem_idx[t][n - 1]
    BY <2>4, TopOfBooted DEF Inv
  <2>6. CASE i = n - 1
    BY <2>1, <2>4, <2>5, <2>6 DEF IsTop
  <2>7. CASE i # n - 1
    <3>1. i + 1 < n /\ i + 1 \in Tasks
      BY <2>3, <2>7, TasksAssumption DEF Tasks
    <3>2. phys_mem_idx[t][i + 1] # None
      BY <3>1 DEF Inv, StackShape
    <3>3. QED
      BY <2>1, <3>1, <3>2 DEF ChildOf
  <2>8. QED
    BY <2>6, <2>7
<1>5. QED
  BY <1>1, <1>2, <1>3, <1>4

(* The same after a step. *)
LEMMA PointsKnownAfter == Inv' => TopPoints' /\ WaitingPoints' /\ FreePoints' /\ EveryTask'
BY PointsKnown, PTL

(* The abstract stacks, seen from the tables. *)
LEMMA AbstractStacks ==
  ASSUME Inv, NEW t \in Terminals
  PROVE  /\ stackA[t] = Entries(phys_mem_idx[t], FirstFree(phys_mem_idx[t]))
         /\ stackA[t] \in Seq(Tasks)
         /\ Len(stackA[t]) = FirstFree(phys_mem_idx[t])
         /\ Abstract!Started(t) <=> Booted(t)
         /\ Booted(t) => Abstract!Top(t) = Top(t)
<1> DEFINE n == FirstFree(phys_mem_idx[t])
<1>1. IsStack(phys_mem_idx[t], n) /\ n \in 0..NumTasks
  BY Stacks DEF Inv, StackShape
<1>2. stackA[t] = Entries(phys_mem_idx[t], n)
  BY DEF stackA, StackOf, Entries
<1>3. /\ stackA[t] \in Seq(Tasks) /\ Len(stackA[t]) = n
      /\ \A i \in 1..n : stackA[t][i] = phys_mem_idx[t][i - 1]
  BY <1>1, <1>2, EntriesSeq
<1>4. Booted(t) <=> n # 0
  BY TasksAssumption DEF Inv, StackShape, Booted, Tasks
<1>5. stackA[t] # << >> <=> n # 0
  BY <1>3, EmptySeq
<1>6. Abstract!Started(t) <=> Booted(t)
  BY <1>4, <1>5 DEF Abstract!Started, stackA
<1>7. ASSUME Booted(t) PROVE Abstract!Top(t) = Top(t)
  <2>1. n \in 1..NumTasks /\ Top(t) = phys_mem_idx[t][n - 1]
    BY <1>7, TopOfBooted DEF Inv
  <2>2. Abstract!Top(t) = stackA[t][Len(stackA[t])]
    BY DEF Abstract!Top, stackA
  <2>3. QED
    BY <1>3, <2>1, <2>2
<1>8. QED
  BY <1>2, <1>3, <1>6, <1>7

-----------------------------------------------------------------------------
(* Steps that leave the tables alone.                                      *)

LEMMA SameTables ==
  ASSUME Inv, Inv', UNCHANGED <<phys_addr_available, phys_mem_idx>>, NEW p \in Tasks
  PROVE  \/ /\ PointOf(p)' = PointOf(p)
            /\ \A t \in Terminals : ~IsTop(p, t)
         \/ \E t \in Terminals :
              /\ IsTop(p, t)
              /\ PointOf(p) = IF t = curr_running_terminal_idx THEN cpu.at ELSE curr[p].at
              /\ PointOf(p)' = IF t = curr_running_terminal_idx' THEN cpu'.at ELSE curr'[p].at
<1>1. TopPoints /\ WaitingPoints /\ FreePoints /\ EveryTask
  BY PointsKnown
<1>2. TopPoints' /\ WaitingPoints' /\ FreePoints'
  BY PointsKnownAfter
<1>3. CASE phys_addr_available[p]
  <2>1. PointOf(p) = "none"
    BY <1>1, <1>3 DEF FreePoints
  <2>2. PointOf(p)' = "none"
    BY <1>2, <1>3 DEF FreePoints
  <2>3. QED
    BY <1>3, <2>1, <2>2, Positions
<1>4. CASE \E t \in Terminals : IsTop(p, t)
  <2>1. PICK t \in Terminals : IsTop(p, t)
    BY <1>4
  <2>2. Booted(t) /\ p = Top(t)
    BY <2>1 DEF IsTop
  <2>3. Booted(t)' /\ Top(t)' = p
    BY <2>2, TopUnchanged DEF Booted, Inv
  <2>4. PointOf(p) = IF t = curr_running_terminal_idx THEN cpu.at ELSE curr[p].at
    BY <1>1, <2>2 DEF TopPoints
  <2>5. PointOf(p)' = IF t = curr_running_terminal_idx' THEN cpu'.at ELSE curr'[p].at
    <3>1. PointOf(Top(t))' = IF t = curr_running_terminal_idx' THEN cpu'.at ELSE curr'[Top(t)'].at
      BY <1>2, <2>3 DEF TopPoints
    <3>2. PointOf(Top(t))' = PointOf(p)'
      BY <2>3 DEF PointOf
    <3>3. QED
      BY <2>3, <3>1, <3>2
  <2>6. QED
    BY <2>1, <2>4, <2>5
<1>5. CASE \E t \in Terminals : \E i \in Tasks : ChildOf(p, t, i)
  <2>1. PICK t \in Terminals, i \in Tasks : ChildOf(p, t, i)
    BY <1>5
  <2>2. i + 1 \in Tasks /\ phys_mem_idx[t][i + 1] # None /\ p = phys_mem_idx[t][i]
    BY <2>1 DEF ChildOf
  <2>3. PointOf(p) = "exec"
    BY <1>1, <2>2 DEF WaitingPoints
  <2>4. PointOf(p)' = "exec"
    BY <1>2, <2>2 DEF WaitingPoints
  <2>5. QED
    BY <2>1, <2>3, <2>4, Positions
<1>6. QED
  BY <1>1, <1>3, <1>4, <1>5 DEF EveryTask

LEMMA StacksSame ==
  ASSUME UNCHANGED phys_mem_idx
  PROVE  stackA' = stackA
BY DEF stackA, StackOf

(* The running task moves, all other processes stay where they are. *)
LEMMA PointMoves ==
  ASSUME Inv, Inv', cpu.at # "idle",
         UNCHANGED <<phys_addr_available, phys_mem_idx, curr, curr_running_terminal_idx>>
  PROVE  /\ pointA' = [pointA EXCEPT ![Top(curr_running_terminal_idx)] = cpu'.at]
         /\ pointA[Top(curr_running_terminal_idx)] = cpu.at
         /\ Top(curr_running_terminal_idx) \in Tasks
<1> DEFINE r == curr_running_terminal_idx
<1>1. r \in Terminals /\ Booted(r) /\ Top(r) \in Tasks
  BY InTask, TopOfBooted DEF Inv
<1>2. PointOf(Top(r)) = cpu.at
  BY <1>1, PointsKnown DEF TopPoints
<1>3. ASSUME NEW p \in Tasks
      PROVE  PointOf(p)' = IF p = Top(r) THEN cpu'.at ELSE PointOf(p)
  <2>1. IsTop(Top(r), r) /\ \A t \in Terminals : IsTop(p, t) => p = Top(t)
    BY <1>1 DEF IsTop
  <2>2. CASE p = Top(r)
    BY <1>1, <2>1, <2>2, SameTables, Positions
  <2>3. CASE p # Top(r)
    BY <1>1, <2>1, <2>3, SameTables
  <2>4. QED
    BY <2>2, <2>3
<1>4. QED
  BY <1>1, <1>2, <1>3 DEF pointA

(* A system call, an exception or a return: Move. *)
LEMMA MoveStep ==
  ASSUME Inv, Inv', UNCHANGED <<slots, curr, curr_running_terminal_idx>>,
         \/ cpu.at = "user" /\ cpu'.at \in {"read", "tail", "print"}
         \/ cpu.at \in {"read", "tail"} /\ cpu'.at = "user"
         \/ cpu.at = "print" /\ cpu'.at = "flagged"
  PROVE  Abstract!Move
<1> DEFINE r == curr_running_terminal_idx
<1>1. cpu.at # "idle" /\ cpu.at # "none"
  OBVIOUS
<1>2. r \in Terminals /\ Booted(r)
  BY <1>1, InTask
<1>3. UNCHANGED <<phys_addr_available, phys_mem_idx>>
  BY DEF slots
<1>4. /\ pointA' = [pointA EXCEPT ![Top(r)] = cpu'.at]
      /\ pointA[Top(r)] = cpu.at
  BY <1>1, <1>3, PointMoves
<1>5. stackA' = stackA
  BY <1>3, StacksSame
<1>6. Abstract!Started(r) /\ Abstract!Top(r) = Top(r)
  BY <1>2, AbstractStacks
<1>7. cpu'.at \in Abstract!Successors[cpu.at]
  BY DEF Abstract!Successors, Abstract!Preemptible
<1>8. QED
  BY <1>1, <1>4, <1>5, <1>6, <1>7 DEF Abstract!Move, stackA, pointA

(* The PIT handler saves one task and resumes another: Switch. *)
LEMMA SwitchStep ==
  ASSUME Inv, Inv', cpu.at \in Interruptible, ~flag_first_execute,
         \A t \in Terminals : Booted(t),
         curr' = SavedIn(Top(curr_running_terminal_idx)),
         curr_running_terminal_idx' = (curr_running_terminal_idx + 1) % NumTerminals,
         cpu' = curr'[Top(curr_running_terminal_idx')],
         UNCHANGED slots
  PROVE  Abstract!Switch
<1> DEFINE r == curr_running_terminal_idx
           u == (r + 1) % NumTerminals
<1>1. r \in Terminals /\ u \in Terminals /\ r' = u
  BY TasksAssumption DEF Inv, TypeOK, Terminals
<1>2. \A t \in Terminals : Top(t) \in Tasks /\ IsTop(Top(t), t)
  BY TopOfBooted DEF Inv, IsTop
<1>3. UNCHANGED <<phys_addr_available, phys_mem_idx>>
  BY DEF slots
<1>4. curr'[Top(r)] = cpu /\ \A p \in Tasks \ {Top(r)} : curr'[p] = curr[p]
  BY <1>1, <1>2 DEF SavedIn, Inv, TypeOK
<1>5. ASSUME NEW p \in Tasks PROVE PointOf(p)' = PointOf(p)
  <2>1. CASE \A t \in Terminals : ~IsTop(p, t)
    BY <1>3, <2>1, SameTables
  <2>2. ASSUME NEW t \in Terminals, IsTop(p, t) PROVE PointOf(p)' = PointOf(p)
    <3>1. p = Top(t)
      BY <2>2 DEF IsTop
    <3>2. /\ PointOf(p) = IF t = r THEN cpu.at ELSE curr[p].at
          /\ PointOf(p)' = IF t = u THEN cpu'.at ELSE curr'[p].at
      BY <1>1, <1>3, <2>2, SameTables, Positions
    <3>3. PointOf(p)' = curr'[p].at
      BY <1>1, <3>1, <3>2
    <3>4. CASE t = r
      BY <1>4, <3>1, <3>2, <3>3, <3>4
    <3>5. CASE t # r
      <4>1. p # Top(r)
        BY <1>1, <2>2, <3>1, <3>5, TopsDiffer
      <4>2. QED
        BY <1>4, <3>2, <3>3, <3>5, <4>1
    <3>6. QED
      BY <3>4, <3>5
  <2>3. QED
    BY <2>1, <2>2
<1>6. pointA' = pointA
  BY <1>5 DEF pointA
<1>7. stackA' = stackA
  BY <1>3, StacksSame
<1>8. ASSUME NEW t \in Terminals
      PROVE  Abstract!Started(t) /\ pointA[Abstract!Top(t)] \in Abstract!Preemptible
  <2>1. Abstract!Started(t) /\ Abstract!Top(t) = Top(t)
    BY AbstractStacks
  <2>2. pointA[Top(t)] = IF t = r THEN cpu.at ELSE curr[Top(t)].at
    BY <1>2, PointsKnown DEF TopPoints, pointA
  <2>3. cpu.at \in Interruptible \ {"idle"} /\ (t # r => curr[Top(t)].at \in Interruptible \ {"idle"})
    BY DEF Inv, BootOrder, SuspendedResumable, Interruptible
  <2>4. QED
    BY <2>1, <2>2, <2>3 DEF Abstract!Preemptible, Interruptible
<1>9. QED
  BY <1>1, <1>6, <1>7, <1>8
  DEF Abstract!Switch, Abstract!Terminals, Terminals, stackA, pointA

(* Steps that change no table, no PCB and no program point. *)
LEMMA StutterStep ==
  ASSUME Inv, Inv', UNCHANGED <<slots, curr, curr_running_terminal_idx>>, cpu'.at = cpu.at
  PROVE  UNCHANGED Abstract!vars
<1>1. UNCHANGED <<phys_addr_available, phys_mem_idx>>
  BY DEF slots
<1>2. ASSUME NEW p \in Tasks PROVE PointOf(p)' = PointOf(p)
  BY <1>1, SameTables
<1>3. pointA' = pointA
  BY <1>2 DEF pointA
<1>4. stackA' = stackA
  BY <1>1, StacksSame
<1>5. QED
  BY <1>3, <1>4 DEF Abstract!vars, stackA, pointA

-----------------------------------------------------------------------------
(* execute and halt.                                                       *)

(* A process that keeps its place in the tables stays where it is. *)
LEMMA PointStays ==
  ASSUME Inv, Inv', NEW p \in Tasks,
         \/ phys_addr_available[p] /\ phys_addr_available'[p]
         \/ \E t \in Terminals : \E i \in Tasks : ChildOf(p, t, i) /\ ChildOf(p, t, i)'
         \/ \E t \in Terminals \ {curr_running_terminal_idx, curr_running_terminal_idx'} :
              IsTop(p, t) /\ IsTop(p, t)' /\ curr'[p] = curr[p]
  PROVE  PointOf(p)' = PointOf(p)
<1>1. TopPoints /\ WaitingPoints /\ FreePoints
  BY PointsKnown
<1>2. TopPoints' /\ WaitingPoints' /\ FreePoints'
  BY PointsKnownAfter
<1>3. CASE phys_addr_available[p] /\ phys_addr_available'[p]
  BY <1>1, <1>2, <1>3 DEF FreePoints
<1>4. ASSUME NEW t \in Terminals, NEW i \in Tasks, ChildOf(p, t, i), ChildOf(p, t, i)'
      PROVE  PointOf(p)' = PointOf(p)
  BY <1>1, <1>2, <1>4 DEF WaitingPoints, ChildOf
<1>5. ASSUME NEW t \in Terminals, t # curr_running_terminal_idx, t # curr_running_terminal_idx',
             IsTop(p, t), IsTop(p, t)', curr'[p] = curr[p]
      PROVE  PointOf(p)' = PointOf(p)
  <2>1. PointOf(p) = curr[p].at
    BY <1>1, <1>5 DEF TopPoints, IsTop
  <2>2. PointOf(p)' = curr'[p].at
    BY <1>2, <1>5 DEF TopPoints, IsTop
  <2>3. QED
    BY <1>5, <2>1, <2>2
<1>6. QED
  BY <1>3, <1>4, <1>5

(* A terminal whose table does not change keeps its top. *)
LEMMA TopStays ==
  ASSUME Inv, NEW t \in Terminals, NEW p \in Tasks, IsTop(p, t),
         phys_mem_idx'[t] = phys_mem_idx[t]
  PROVE  IsTop(p, t)'
<1>1. Booted(t)' /\ Top(t)' = Top(t)
  BY TopUnchanged DEF IsTop, Booted, Inv
<1>2. QED
  BY <1>1 DEF IsTop

(* execute of a program: Push. *)
LEMMA PushStep == ASSUME Inv, Inv', Disciplined, Execute PROVE Abstract!Push
<1>1. cpu.at = "user" /\ cpu.at # "idle"
  BY DEF Execute, FreeProgram
<1>2. PICK r \in Terminals : r = curr_running_terminal_idx
  BY DEF Inv, TypeOK
<1>3. PICK n \in 1..NumTasks : n = FirstFree(phys_mem_idx[r])
  BY <1>1, <1>2, InTask, TopOfBooted DEF Inv
<1>4. PICK h \in Tasks : h = Top(r)
  BY <1>1, <1>2, InTask, TopOfBooted DEF Inv
<1>5. n - 1 \in Tasks /\ phys_mem_idx[r][n - 1] = h /\ Booted(r)
  BY <1>1, <1>2, <1>3, <1>4, InTask, TopOfBooted DEF Inv
<1>6. PICK c \in LowestFree(phys_addr_available) : Taken(r, c) /\ cpu' = Fresh(c)
  BY <1>2 DEF Execute, Launch, Taken
<1>7. c \in Tasks /\ phys_addr_available[c] /\ c # None
  BY TasksAssumption DEF LowestFree, Tasks, None
<1>8. /\ n \in Tasks
      /\ phys_mem_idx'[r] = [phys_mem_idx[r] EXCEPT ![n] = c]
      /\ phys_mem_idx[r][n] = None
      /\ FirstFree(phys_mem_idx'[r]) = n + 1
      /\ \A u \in Terminals \ {r} : phys_mem_idx'[u] = phys_mem_idx[u]
  BY <1>3, <1>6, PushTables
<1>9. curr' = curr /\ curr_running_terminal_idx' = r
  BY <1>2 DEF Execute
<1>10. /\ phys_mem_idx'[r][n] = c
       /\ \A u \in Terminals : \A i \in Tasks :
            (u # r \/ i # n) => phys_mem_idx'[u][i] = phys_mem_idx[u][i]
  BY <1>8 DEF Inv, TypeOK
<1>11. PointOf(c)' = "user"
  <2>1. Top(r)' = c
    <3>1. n \in Nat
      BY TasksAssumption
    <3>2. Top(r)' = phys_mem_idx'[r][n]
      BY <1>8, <3>1, TopAfter
    <3>3. QED
      BY <1>10, <3>2
  <2>2. Booted(r)'
    <3>1. 0 \in Tasks /\ n # 0
      BY TasksAssumption DEF Tasks
    <3>2. phys_mem_idx'[r][0] = phys_mem_idx[r][0]
      BY <1>10, <3>1
    <3>3. QED
      BY <1>5, <3>2 DEF Booted
  <2>3. PointOf(c)' = cpu'.at
    BY <1>9, <2>1, <2>2, PointsKnownAfter DEF TopPoints
  <2>4. QED
    BY <1>6, <1>7, <2>3, FreshContext
<1>12. PointOf(h)' = "exec" /\ h # c
  <2>1. h # c
    BY <1>5, <1>7 DEF Inv, SlotOwnership
  <2>2. phys_mem_idx'[r][n - 1] = h /\ (n - 1) + 1 = n
    BY <1>5, <1>10
  <2>3. (n - 1) + 1 \in Tasks /\ phys_mem_idx'[r][(n - 1) + 1] # None
    BY <1>7, <1>8, <1>10, <2>2
  <2>4. QED
    BY <1>5, <2>1, <2>2, <2>3, PointsKnownAfter DEF WaitingPoints
<1>13. ASSUME NEW p \in Tasks \ {h, c} PROVE PointOf(p)' = PointOf(p)
  <2>1. p # None
    BY TasksAssumption DEF Tasks, None
  <2>2. CASE phys_addr_available[p]
    <3>1. phys_addr_available'[p]
      BY <1>6, <2>2 DEF Taken, Inv, TypeOK
    <3>2. QED
      BY <2>2, <3>1, PointStays
  <2>3. ASSUME NEW t \in Terminals, IsTop(p, t) PROVE PointOf(p)' = PointOf(p)
    <3>1. t # r
      BY <1>4, <2>3 DEF IsTop
    <3>2. IsTop(p, t)'
      BY <1>8, <2>3, <3>1, TopStays
    <3>3. QED
      BY <1>2, <1>9, <2>3, <3>1, <3>2, PointStays
  <2>4. ASSUME NEW t \in Terminals, NEW i \in Tasks, ChildOf(p, t, i)
        PROVE  PointOf(p)' = PointOf(p)
    <3>1. ChildOf(p, t, i)'
      BY <1>8, <1>10, <2>1, <2>4 DEF ChildOf
    <3>2. QED
      BY <2>4, <3>1, PointStays
  <2>5. QED
    BY <2>2, <2>3, <2>4, PointsKnown DEF EveryTask
<1>14. pointA' = [pointA EXCEPT ![h] = "exec", ![c] = "user"]
  <2>1. \A p \in Tasks : PointOf(p)' = IF p = c THEN "user" ELSE IF p = h THEN "exec" ELSE PointOf(p)
    BY <1>11, <1>12, <1>13
  <2>2. QED
    BY <1>7, <2>1 DEF pointA
<1>15. stackA' = [stackA EXCEPT ![r] = Append(stackA[r], c)]
  <2>1. \A t \in Terminals \ {r} : StackOf(t)' = StackOf(t)
    BY <1>8 DEF StackOf
  <2>2. StackOf(r)' = Entries(phys_mem_idx'[r], n + 1) /\ StackOf(r) = Entries(phys_mem_idx[r], n)
    BY <1>3, <1>8 DEF StackOf, Entries
  <2>3. IsStack(phys_mem_idx[r], n) /\ IsStack(phys_mem_idx'[r], n + 1)
    <3>1. n < NumTasks /\ n \in 0..NumTasks
      BY <1>8, TasksAssumption DEF Tasks
    <3>2. IsStack(phys_mem_idx[r], n)
      BY <1>3, Stacks DEF Inv
    <3>3. QED
      BY <1>7, <1>8, <3>1, <3>2, Push
  <2>4. StackOf(r)' = Append(StackOf(r), c)
    BY <1>7, <1>8, <2>2, <2>3, EntriesPush
  <2>5. QED
    BY <2>1, <2>4 DEF stackA
<1>16. Abstract!Started(r) /\ Abstract!Top(r) = h
  BY <1>4, <1>5, AbstractStacks
<1>17. pointA[h] = "user" /\ pointA[c] = "none"
  <2>1. PointOf(h) = "user"
    BY <1>1, <1>2, <1>4, <1>5, PointsKnown DEF TopPoints
  <2>2. PointOf(c) = "none"
    BY <1>7, PointsKnown DEF FreePoints
  <2>3. QED
    BY <1>7, <2>1, <2>2 DEF pointA
<1>18. c \in Abstract!Free
  BY <1>7, <1>17 DEF Abstract!Free, Abstract!Tasks, Tasks, pointA
<1>19. QED
  BY <1>2, <1>9, <1>14, <1>15, <1>16, <1>17, <1>18 DEF Abstract!Push, stackA, pointA

(* halt of a program: Pop. *)
LEMMA PopStep ==
  ASSUME Inv, Inv', cpu.at \in {"user", "flagged"}, Halt,
         Top(curr_running_terminal_idx) >= NumTerminals
  PROVE  Abstract!Pop
<1>1. cpu.at # "idle"
  OBVIOUS
<1>2. PICK r \in Terminals : r = curr_running_terminal_idx
  BY DEF Inv, TypeOK
<1>3. PICK n \in 1..NumTasks : n = FirstFree(phys_mem_idx[r])
  BY <1>1, <1>2, HaltProgramTables
<1>4. PICK h \in Tasks : h = Top(r)
  BY <1>1, <1>2, HaltProgramTables
<1>5. /\ n - 1 \in Tasks /\ n - 2 \in Tasks /\ n - 1 # 0 /\ 0 \in Tasks
      /\ phys_mem_idx[r][n - 1] = h /\ h # None /\ Booted(r)
      /\ phys_addr_available' = [phys_addr_available EXCEPT ![h] = TRUE]
      /\ phys_mem_idx'[r] = [phys_mem_idx[r] EXCEPT ![n - 1] = None]
      /\ \A u \in Terminals \ {r} : phys_mem_idx'[u] = phys_mem_idx[u]
      /\ phys_mem_idx'[r][n - 1] = None
      /\ \A u \in Terminals : \A i \in Tasks :
           (u # r \/ i # n - 1) => phys_mem_idx'[u][i] = phys_mem_idx[u][i]
      /\ IsStack(phys_mem_idx'[r], n - 1)
      /\ FirstFree(phys_mem_idx'[r]) = n - 1
  BY <1>1, <1>2, <1>3, <1>4, HaltProgramTables
<1>6. /\ curr' = curr /\ curr_running_terminal_idx' = r
      /\ cpu'.at = "user"
  <2>1. cpu' = [parent[h] EXCEPT !.at = "user"]
    BY <1>1, <1>2, <1>4, HaltProgramTables
  <2>2. parent[h] \in Context
    BY DEF Inv, TypeOK
  <2>3. QED
    BY <1>2, <2>1, <2>2 DEF Halt, Context
<1>7. PICK q \in Tasks : q = phys_mem_idx[r][n - 2]
  <2>1. n - 2 < n
    BY TasksAssumption
  <2>2. QED
    BY <1>3, <1>5, <2>1 DEF Inv, StackShape, TypeOK
<1>8. q # h /\ q # None
  <2>1. n - 2 # n - 1 /\ q # None
    BY TasksAssumption DEF Tasks, None
  <2>2. QED
    BY <1>5, <1>7, <2>1 DEF Inv, SlotOwnership
<1>9. PointOf(h)' = "none"
  <2>1. phys_addr_available'[h]
    BY <1>5 DEF Inv, TypeOK
  <2>2. QED
    BY <2>1, PointsKnownAfter DEF FreePoints
<1>10. PointOf(q)' = "user"
  <2>1. n - 2 \in Nat /\ n - 1 = (n - 2) + 1 /\ n - 2 # n - 1
    BY <1>5, TasksAssumption DEF Tasks
  <2>2. Top(r)' = phys_mem_idx'[r][n - 2]
    BY <1>5, <2>1, TopAfter
  <2>3. Top(r)' = q
    BY <1>5, <1>7, <2>1, <2>2
  <2>4. Booted(r)'
    BY <1>5 DEF Booted
  <2>5. QED
    BY <1>6, <2>3, <2>4, PointsKnownAfter DEF TopPoints
<1>11. ASSUME NEW p \in Tasks \ {h, q} PROVE PointOf(p)' = PointOf(p)
  <2>1. CASE phys_addr_available[p]
    <3>1. phys_addr_available'[p]
      BY <1>5, <2>1 DEF Inv, TypeOK
    <3>2. QED
      BY <2>1, <3>1, PointStays
  <2>2. ASSUME NEW t \in Terminals, IsTop(p, t) PROVE PointOf(p)' = PointOf(p)
    <3>1. t # r
      BY <1>4, <2>2 DEF IsTop
    <3>2. IsTop(p, t)'
      BY <1>5, <2>2, <3>1, TopStays
    <3>3. QED
      BY <1>2, <1>6, <2>2, <3>1, <3>2, PointStays
  <2>3. ASSUME NEW t \in Terminals, NEW i \in Tasks, ChildOf(p, t, i)
        PROVE  PointOf(p)' = PointOf(p)
    <3>1. p = phys_mem_idx[t][i] /\ i + 1 \in Tasks /\ phys_mem_idx[t][i + 1] # None
      BY <2>3 DEF ChildOf
    <3>2. t # r \/ (i # n - 1 /\ i # n - 2)
      BY <1>5, <1>7, <3>1
    <3>3. t # r \/ i + 1 # n - 1
      BY <3>2, TasksAssumption DEF Tasks
    <3>4. ChildOf(p, t, i)'
      BY <1>5, <3>1, <3>2, <3>3 DEF ChildOf
    <3>5. QED
      BY <2>3, <3>4, PointStays
  <2>4. QED
    BY <2>1, <2>2, <2>3, PointsKnown DEF EveryTask
<1>12. pointA' = [pointA EXCEPT ![h] = "none", ![q] = "user"]
  <2>1. \A p \in Tasks : PointOf(p)' = IF p = q THEN "user" ELSE IF p = h THEN "none" ELSE PointOf(p)
    BY <1>8, <1>9, <1>10, <1>11
  <2>2. QED
    BY <2>1 DEF pointA
<1>13. stackA' = [stackA EXCEPT ![r] = SubSeq(stackA[r], 1, n - 1)]
  <2>1. \A t \in Terminals \ {r} : StackOf(t)' = StackOf(t)
    BY <1>5 DEF StackOf
  <2>2. StackOf(r)' = Entries(phys_mem_idx'[r], n - 1) /\ StackOf(r) = Entries(phys_mem_idx[r], n)
    BY <1>3, <1>5 DEF StackOf, Entries
  <2>3. IsStack(phys_mem_idx[r], n)
    BY <1>3, Stacks DEF Inv
  <2>4. StackOf(r)' = SubSeq(StackOf(r), 1, n - 1)
    BY <1>5, <2>2, <2>3, EntriesPop
  <2>5. QED
    BY <2>1, <2>4 DEF stackA
<1>14. Abstract!Started(r) /\ Abstract!Top(r) = h
  BY <1>4, <1>5, AbstractStacks
<1>15. pointA[h] \in {"user", "flagged"}
  BY <1>2, <1>4, <1>5, PointsKnown DEF TopPoints, pointA
<1>16. Len(stackA[r]) = n /\ n > 1 /\ stackA[r][n - 1] = q
  <2>1. n > 1 /\ n - 1 \in 1..n /\ (n - 1) - 1 = n - 2 /\ n \in 0..NumTasks
    BY <1>5, TasksAssumption DEF Tasks
  <2>2. IsStack(phys_mem_idx[r], n)
    BY <1>3, Stacks DEF Inv
  <2>3. stackA[r] = Entries(phys_mem_idx[r], n)
    BY <1>3, AbstractStacks
  <2>4. Len(stackA[r]) = n /\ stackA[r][n - 1] = phys_mem_idx[r][(n - 1) - 1]
    BY <2>1, <2>2, <2>3, EntriesSeq
  <2>5. QED
    BY <1>7, <2>1, <2>4
<1>17. QED
  BY <1>2, <1>6, <1>12, <1>13, <1>14, <1>15, <1>16
  DEF Abstract!Pop, Abstract!Exits, stackA, pointA

(* halt of a bottom shell: Restart. *)
LEMMA RestartStep ==
  ASSUME Inv, Inv', cpu.at \in {"user", "flagged"}, Halt,
         ~(Top(curr_running_terminal_idx) >= NumTerminals)
  PROVE  Abstract!Restart
<1> DEFINE r == curr_running_terminal_idx
<1>1. cpu.at # "idle"
  OBVIOUS
<1>2. /\ r \in Terminals /\ Booted(r) /\ FirstFree(phys_mem_idx[r]) = 1 /\ Top(r) = r /\ r \in Tasks
      /\ UNCHANGED <<phys_addr_available, phys_mem_idx, curr, curr_running_terminal_idx>>
      /\ cpu' = Fresh(r)
  BY <1>1, HaltShellTables
<1>3. cpu'.at = "user"
  BY <1>2, FreshContext
<1>4. /\ pointA' = [pointA EXCEPT ![Top(r)] = "user"]
      /\ pointA[Top(r)] = cpu.at
  BY <1>1, <1>2, <1>3, PointMoves
<1>5. stackA' = stackA
  BY <1>2, StacksSame
<1>6. Abstract!Started(r) /\ Abstract!Top(r) = Top(r) /\ Len(stackA[r]) = 1
  BY <1>2, AbstractStacks
<1>7. QED
  BY <1>2, <1>4, <1>5, <1>6 DEF Abstract!Restart, Abstract!Exits, stackA, pointA

(* The first shell of a terminal: Boot. *)
LEMMA BootStep ==
  ASSUME Inv, Inv', ~flag, NEW u \in Terminals,
         \A w \in Terminals : Booted(w) <=> w < u,
         NEW caller \in Context,
         Launch(u, phys_addr_available, phys_mem_idx, parent, caller),
         curr_running_terminal_idx' = u,
         \A w \in Terminals : w < u => /\ pointA[w] = curr'[w].at
                                       /\ pointA[w] \in Abstract!Preemptible
  PROVE  Abstract!Boot(u)
<1>1. /\ u \in Tasks /\ 0 \in Tasks
      /\ FirstFree(phys_mem_idx[u]) = 0 /\ FirstFree(phys_mem_idx'[u]) = 0 + 1
      /\ LowestFree(phys_addr_available) = {u}
      /\ Taken(u, u)
      /\ phys_mem_idx'[u][0] = u
      /\ \A w \in Terminals \ {u} : phys_mem_idx'[w] = phys_mem_idx[w]
      /\ cpu' = Fresh(u)
  BY OpenShellTables
<1>2. u # None /\ phys_addr_available[u]
  BY <1>1, TasksAssumption DEF Tasks, None, LowestFree
<1>3. \A w \in Terminals : w < u => Top(w) = w /\ Booted(w) /\ w \in Tasks /\ w # u
  BY BootTop, BottomShell, TasksAssumption DEF Terminals
<1>4. PointOf(u)' = "user"
  <2>1. 0 \in Nat
    OBVIOUS
  <2>2. Top(u)' = phys_mem_idx'[u][0]
    BY <1>1, <2>1, TopAfter
  <2>3. Top(u)' = u /\ Booted(u)'
    BY <1>1, <1>2, <2>2 DEF Booted
  <2>4. PointOf(u)' = cpu'.at
    BY <2>3, PointsKnownAfter DEF TopPoints
  <2>5. QED
    BY <1>1, <2>4, FreshContext
<1>5. ASSUME NEW p \in Tasks \ {u} PROVE PointOf(p)' = PointOf(p)
  <2>1. CASE phys_addr_available[p]
    <3>1. phys_addr_available'[p]
      BY <1>1, <2>1 DEF Taken, Inv, TypeOK
    <3>2. QED
      BY <2>1, <3>1, PointStays
  <2>2. ASSUME NEW t \in Terminals, IsTop(p, t) PROVE PointOf(p)' = PointOf(p)
    <3>1. t < u /\ p = t
      BY <1>3, <2>2 DEF IsTop
    <3>2. t # u
      BY <1>3, <3>1
    <3>3. IsTop(p, t)'
      BY <1>1, <2>2, <3>2, TopStays
    <3>4. PointOf(p)' = curr'[p].at
      BY <3>2, <3>3, PointsKnownAfter DEF TopPoints, IsTop
    <3>5. PointOf(p) = curr'[p].at
      BY <3>1 DEF pointA
    <3>6. QED
      BY <3>4, <3>5
  <2>3. ASSUME NEW t \in Terminals, NEW i \in Tasks, ChildOf(p, t, i) PROVE FALSE
    <3>1. i + 1 \in Tasks \ {0} /\ phys_mem_idx[t][i + 1] # None
      BY <2>3 DEF ChildOf, Tasks
    <3>2. QED
      BY <3>1 DEF Inv, BootOrder
  <2>4. QED
    BY <2>1, <2>2, <2>3, PointsKnown DEF EveryTask
<1>6. pointA' = [pointA EXCEPT ![u] = "user"]
  <2>1. \A p \in Tasks : PointOf(p)' = IF p = u THEN "user" ELSE PointOf(p)
    BY <1>4, <1>5
  <2>2. QED
    BY <1>1, <2>1 DEF pointA
<1>7. stackA' = [stackA EXCEPT ![u] = <<u>>]
  <2>1. \A t \in Terminals \ {u} : StackOf(t)' = StackOf(t)
    BY <1>1 DEF StackOf
  <2>2. StackOf(u)' = Entries(phys_mem_idx'[u], 1)
    BY <1>1 DEF StackOf, Entries
  <2>3. StackOf(u)' = <<u>>
    <3>1. \A i \in 1..1 : phys_mem_idx'[u][i - 1] = u
      BY <1>1
    <3>2. Entries(phys_mem_idx'[u], 1) = [i \in 1..1 |-> u]
      BY <3>1 DEF Entries
    <3>3. [i \in 1..1 |-> u] = <<u>>
      OBVIOUS
    <3>4. QED
      BY <2>2, <3>2, <3>3
  <2>4. QED
    BY <2>1, <2>3 DEF stackA
<1>8. \A w \in Terminals : Abstract!Started(w) <=> w < u
  BY AbstractStacks
<1>9. \A w \in Terminals : Abstract!Started(w) => pointA[Abstract!Top(w)] \in Abstract!Preemptible
  BY <1>3, <1>8, AbstractStacks
<1>10. u \in Abstract!Free
  <2>1. PointOf(u) = "none"
    BY <1>1, <1>2, PointsKnown DEF FreePoints
  <2>2. QED
    BY <1>1, <2>1 DEF Abstract!Free, Abstract!Tasks, Tasks, pointA
<1>11. QED
  BY <1>6, <1>7, <1>8, <1>9, <1>10
  DEF Abstract!Boot, Abstract!Terminals, Terminals, stackA, pointA

-----------------------------------------------------------------------------
(* The refinement.                                                         *)

(* No terminal is started, every slot is free. *)
LEMMA InitMapped == Init => Abstract!Init
<1> SUFFICES ASSUME Init PROVE Abstract!Init
  OBVIOUS
<1>1. Inv
  BY InitInv
<1>2. \A p \in Tasks : PointOf(p) = "none"
  BY <1>1, PointsKnown DEF Init, FreePoints
<1>3. ASSUME NEW t \in Terminals PROVE StackOf(t) = << >>
  <2>1. ~Booted(t)
    BY <1>1 DEF Init, Inv, BootOrder
  <2>2. FirstFree(phys_mem_idx[t]) = 0
    BY <1>1, <2>1, TasksAssumption DEF Inv, StackShape, Booted, Tasks
  <2>3. QED
    BY <2>2 DEF StackOf
<1>4. stackA = [t \in Terminals |-> << >>] /\ pointA = [p \in Tasks |-> "none"]
  BY <1>2, <1>3 DEF stackA, pointA
<1>5. QED
  BY <1>4 DEF Init, Abstract!Init, Abstract!Terminals, Abstract!Tasks, Terminals, Tasks, stackA, pointA

LEMMA PITFirstMapped == ASSUME Inv, Inv', PITFirst PROVE Abstract!Boot(0)
<1>1. 0 \in Terminals /\ curr_running_terminal_idx = 0 /\ ~flag
  BY TasksAssumption DEF PITFirst, Inv, BootOrder, Terminals
<1>2. \A w \in Terminals : (Booted(w) <=> w < 0) /\ ~(w < 0)
  BY DEF PITFirst, Inv, BootOrder, Terminals
<1>3. cpu \in Context
  BY DEF Inv, TypeOK
<1>4. QED
  BY <1>1, <1>2, <1>3, BootStep DEF PITFirst

LEMMA PITNextShellMapped ==
  ASSUME Inv, Inv', PITNextShell PROVE \E u \in Terminals : Abstract!Boot(u)
<1>1. ~flag /\ ~flag_first_execute /\ cpu.at \in Interruptible \ {"idle"}
  BY DEF PITNextShell, Switches, Inv, BootOrder, Interruptible
<1>2. PICK r \in Terminals : r = curr_running_terminal_idx
  BY DEF Inv, TypeOK
<1>3. r + 1 \in Terminals
  BY <1>2, TasksAssumption DEF PITNextShell, Terminals
<1>4. \A w \in Terminals : Booted(w) <=> w < r + 1
  BY <1>1, <1>2 DEF Inv, BootOrder, Terminals
<1>5. \A w \in Terminals : w < r + 1 => Top(w) = w /\ w \in Tasks /\ phys_mem_idx[w][0] = w
  BY <1>1, <1>4, BootTop, BottomShell
<1>6. r < r + 1
  BY TasksAssumption DEF Terminals
<1>7. curr' = [curr EXCEPT ![r] = cpu]
  BY <1>2, <1>5, <1>6 DEF PITNextShell, SavedIn
<1>8. cpu \in Context /\ curr \in [Tasks -> Context]
  BY DEF Inv, TypeOK
<1>9. ASSUME NEW w \in Terminals, w < r + 1
      PROVE  pointA[w] = curr'[w].at /\ pointA[w] \in Abstract!Preemptible
  <2>1. Booted(w) /\ Top(w) = w /\ w \in Tasks
    BY <1>4, <1>5, <1>9
  <2>2. pointA[w] = IF w = r THEN cpu.at ELSE curr[w].at
    BY <1>2, <2>1, PointsKnown DEF TopPoints, pointA
  <2>3. w # r => curr[w].at \in Interruptible \ {"idle"}
    BY <1>2, <2>1 DEF Inv, SuspendedResumable
  <2>4. QED
    BY <1>1, <1>7, <1>8, <2>1, <2>2, <2>3 DEF Abstract!Preemptible, Interruptible
<1>10. /\ curr_running_terminal_idx' = r + 1
       /\ Launch(r + 1, phys_addr_available, phys_mem_idx, parent, cpu)
  BY <1>2 DEF PITNextShell
<1>11. QED
  BY <1>1, <1>3, <1>4, <1>8, <1>9, <1>10, BootStep

LEMMA PITLastShellMapped == ASSUME Inv, Inv', PITLastShell PROVE Abstract!Switch
<1> DEFINE t == curr_running_terminal_idx
<1>1. ~flag /\ ~flag_first_execute
  BY DEF PITLastShell, Switches
<1>2. \A u \in Terminals : Booted(u)
  BY <1>1, TasksAssumption DEF Inv, BootOrder, PITLastShell, Terminals
<1>3. t \in Terminals /\ 0 \in Terminals
  BY TasksAssumption DEF Inv, TypeOK, Terminals
<1>4. Top(t) = t /\ phys_mem_idx[t][0] = t /\ Top(0) = 0
  BY <1>1, <1>2, <1>3, BootTop, BottomShell
<1>5. (t + 1) % NumTerminals = 0
  BY TasksAssumption DEF PITLastShell
<1>6. QED
  BY <1>1, <1>2, <1>4, <1>5, SwitchStep DEF PITLastShell

LEMMA PITSwitchMapped == ASSUME Inv, Inv', PITSwitch PROVE Abstract!Switch
<1>1. flag
  BY DEF PITSwitch, Switches, Inv, BootOrder, TypeOK
<1>2. \A u \in Terminals : Booted(u)
  BY <1>1 DEF Inv, BootOrder, PITSwitch
<1>3. QED
  BY <1>2, SwitchStep DEF PITSwitch, NextTerminal

LEMMA HaltMapped ==
  ASSUME Inv, Inv', cpu.at \in {"user", "flagged"}, Halt
  PROVE  Abstract!Pop \/ Abstract!Restart
BY PopStep, RestartStep

(* vidmap of the displayed task reloads the directory in use. *)
LEMMA VidmapMapped == ASSUME Inv, Inv', Vidmap PROVE UNCHANGED Abstract!vars
<1>1. cpu'.at = cpu.at
  BY DEF Vidmap, SetPage1, Inv, TypeOK, Context
<1>2. QED
  BY <1>1, StutterStep DEF Vidmap

LEMMA DeviceMapped ==
  ASSUME Inv, Inv', Fault \/ RaiseFlag \/ ReadStart \/ ReadDone \/ SyscallTail \/ ReturnToUser
  PROVE  Abstract!Move
<1>1. cpu \in Context
  BY DEF Inv, TypeOK
<1>2. UNCHANGED <<slots, curr, curr_running_terminal_idx>>
  BY DEF Fault, RaiseFlag, ReadStart, ReadDone, SyscallTail, ReturnToUser
<1>3. \/ cpu.at = "user" /\ cpu'.at \in {"read", "tail", "print"}
      \/ cpu.at \in {"read", "tail"} /\ cpu'.at = "user"
      \/ cpu.at = "print" /\ cpu'.at = "flagged"
  BY <1>1 DEF Fault, FreeProgram, RaiseFlag, ReadStart, ReadDone, SyscallTail, ReturnToUser,
              Kernel, Context
<1>4. QED
  BY <1>2, <1>3, MoveStep

LEMMA StepMapped ==
  ASSUME Inv, Inv', Disciplined, [Next]_vars
  PROVE  [Abstract!Next]_(Abstract!vars)
<1>1. CASE UNCHANGED vars
  BY <1>1, StutterStep DEF vars
<1>2. CASE Execute
  BY <1>2, PushStep DEF Abstract!Next
<1>3. CASE ExecuteFails \/ Enter \/ \E n \in Terminals : AltF(n)
  BY <1>3, StutterStep DEF ExecuteFails, Enter, AltF
<1>4. CASE SysHalt \/ FaultHalt
  BY <1>4, HaltMapped DEF SysHalt, FaultHalt, FreeProgram, Abstract!Next
<1>5. CASE Fault \/ RaiseFlag \/ ReadStart \/ ReadDone \/ SyscallTail \/ ReturnToUser
  BY <1>5, DeviceMapped DEF Abstract!Next
<1>6. CASE Vidmap
  BY <1>6, VidmapMapped
<1>7. CASE PITFirst
  <2>1. 0 \in Abstract!Terminals
    BY TasksAssumption DEF Abstract!Terminals
  <2>2. QED
    BY <1>7, <2>1, PITFirstMapped DEF Abstract!Next
<1>8. CASE PITNextShell
  BY <1>8, PITNextShellMapped DEF Abstract!Next, Abstract!Terminals, Terminals
<1>9. CASE PITLastShell \/ PITSwitch
  BY <1>9, PITLastShellMapped, PITSwitchMapped DEF Abstract!Next
<1>10. QED
  BY <1>1, <1>2, <1>3, <1>4, <1>5, <1>6, <1>7, <1>8, <1>9 DEF Next, PIT_interrupt_handler

(* execute, halt, the exception handlers and the PIT handler implement a   *)
(* stack of processes per terminal, each of which goes on where it stopped. *)
THEOREM StacksImplemented == Disciplined => (Spec => ImplementsStacks)
<1> SUFFICES ASSUME Disciplined PROVE Spec => ImplementsStacks
  OBVIOUS
<1>1. Inv /\ Inv' /\ [Next]_vars => [Abstract!Next]_(Abstract!vars)
  BY StepMapped
<1>2. Spec => []Inv
  BY TasksInvariant
<1>3. QED
  BY <1>1, <1>2, InitMapped, PTL DEF Spec, ImplementsStacks, Abstract!Spec
=============================================================================
