----------------------------- MODULE TasksProofs -----------------------------
(***************************************************************************)
(* Proofs about Tasks, for every number of terminals and task slots.  The  *)
(* invariant of the task subsystem is inductive as a whole: which stack    *)
(* and directory halt returns to rests on the parent links, those on the   *)
(* shape and ownership of the slot tables, and the tests "curr_idx > 2"    *)
(* and "curr_halt < 3" on the order in which the shells were opened.       *)
(***************************************************************************)
EXTENDS Tasks, FiniteSetTheorems, TLAPS

(* The two ways out of the invariant that the code leaves open. *)
Disciplined == ~EarlyInput /\ "background" \notin VidmapCallers

-----------------------------------------------------------------------------
(* The tables as stacks.                                                   *)

(* The loop that looks for the first -1 stops at n, if entry n is -1 or    *)
(* behind the end and none before it is.                                   *)
LEMMA FirstFreeIs ==
  ASSUME NEW s, NEW n \in 0..NumTasks,
         \A i \in 0..(n - 1) : s[i] # None,
         n < NumTasks => s[n] = None
  PROVE  FirstFree(s) = n
<1>1. \A m \in 0..NumTasks :
        /\ \A i \in 0..(m - 1) : s[i] # None
        /\ m < NumTasks => s[m] = None
        => m = n
  BY TasksAssumption
<1>2. QED
  BY <1>1, TasksAssumption DEF FirstFree

(* A table with the shape of a stack of depth n. *)
IsStack(s, n) ==
  /\ s \in [Tasks -> Tasks \cup {None}]
  /\ n \in 0..NumTasks
  /\ \A i \in Tasks : s[i] # None <=> i < n

(* The loop that looks for the first -1 finds the depth of a stack. *)
LEMMA StackDepth ==
  ASSUME NEW s, NEW n, IsStack(s, n)
  PROVE  FirstFree(s) = n
<1>1. \A i \in 0..(n - 1) : s[i] # None
  BY TasksAssumption DEF IsStack, Tasks
<1>2. n < NumTasks => s[n] = None
  BY TasksAssumption DEF IsStack, Tasks
<1>3. QED
  BY <1>1, <1>2, FirstFreeIs DEF IsStack

(* execute stores a task in the first free entry: a push. *)
LEMMA Push ==
  ASSUME NEW s, NEW n, IsStack(s, n), n < NumTasks, NEW c \in Tasks
  PROVE  IsStack([s EXCEPT ![n] = c], n + 1)
BY TasksAssumption DEF IsStack, Tasks, None

(* halt clears the last used entry: a pop. *)
LEMMA Pop ==
  ASSUME NEW s, NEW n, IsStack(s, n), n > 0
  PROVE  IsStack([s EXCEPT ![n - 1] = None], n - 1)
BY TasksAssumption DEF IsStack, Tasks, None

(* While a slot is free, a terminal has a free entry: its entries are      *)
(* different slots, all other than the free one.                           *)
LEMMA RoomForTask ==
  ASSUME NEW s, NEW n, IsStack(s, n), NEW c \in Tasks,
         \A i \in Tasks : s[i] # c,
         \A i, j \in Tasks : s[i] = s[j] /\ s[i] # None => i = j
  PROVE  n < NumTasks
<1>1. SUFFICES ASSUME n = NumTasks PROVE FALSE
  BY TasksAssumption DEF IsStack
<1>2. s \in [Tasks -> Tasks \ {c}]
  BY <1>1, TasksAssumption DEF IsStack, Tasks
<1>3. /\ IsFiniteSet(Tasks)
      /\ Cardinality(Tasks) = NumTasks
  BY FS_Interval, TasksAssumption DEF Tasks
<1>4. /\ IsFiniteSet(Tasks \ {c})
      /\ Cardinality(Tasks \ {c}) = NumTasks - 1
  BY <1>3, FS_RemoveElement
<1>5. \E x, y \in Tasks : x # y /\ s[x] = s[y]
  BY <1>2, <1>3, <1>4, FS_PigeonHole, TasksAssumption
<1>6. QED
  BY <1>2, <1>5 DEF Tasks, None

-----------------------------------------------------------------------------
(* The inductive invariant.                                                *)

Inv ==
  /\ TypeOK
  /\ SlotOwnership
  /\ StackShape
  /\ BootOrder
  /\ BaseShells
  /\ CpuMatchesRunning
  /\ SuspendedResumable
  /\ ParentLinks

(* The boot state satisfies the invariant: no shell, the CPU in the hlt loop. *)
LEMMA InitInv == Init => Inv
<1> SUFFICES ASSUME Init PROVE Inv
  OBVIOUS
<1> USE TasksAssumption
<1>1. TypeOK
  <2>1. NoContext \in Context /\ cpu \in Context
    BY DEF Init, NoContext, Context, Points, Tasks, None
  <2>2. phys_mem_idx \in [Terminals -> [Tasks -> Tasks \cup {None}]]
    BY DEF Init
  <2>3. 0 \in Terminals
    BY DEF Terminals
  <2>4. QED
    BY <2>1, <2>2, <2>3 DEF Init, TypeOK
<1>2. SlotOwnership
  BY DEF Init, SlotOwnership, Tasks, None
<1>3. \A t \in Terminals : IsStack(phys_mem_idx[t], 0)
  BY DEF Init, IsStack, Tasks, None
<1>4. StackShape
  BY <1>3, StackDepth DEF StackShape, IsStack
<1>5. BootOrder
  BY DEF Init, BootOrder, Booted, Tasks, None
<1>6. BaseShells
  BY DEF Init, BaseShells
<1>7. CpuMatchesRunning
  BY DEF Init, CpuMatchesRunning
<1>8. SuspendedResumable
  BY DEF Init, SuspendedResumable, Booted, Tasks
<1>9. ParentLinks
  BY DEF Init, ParentLinks
<1>10. QED
  BY <1>1, <1>2, <1>4, <1>5, <1>6, <1>7, <1>8, <1>9 DEF Inv

(* Every phys_mem_idx is a stack. *)
LEMMA Stacks ==
  ASSUME TypeOK, StackShape, NEW t \in Terminals
  PROVE  IsStack(phys_mem_idx[t], FirstFree(phys_mem_idx[t]))
BY DEF TypeOK, StackShape, IsStack

(* The top of a started terminal is the last task of its stack. *)
LEMMA TopOfBooted ==
  ASSUME TypeOK, StackShape, NEW t \in Terminals, Booted(t)
  PROVE  LET n == FirstFree(phys_mem_idx[t])
         IN  /\ n \in 1..NumTasks
             /\ n - 1 \in Tasks
             /\ Top(t) = phys_mem_idx[t][n - 1]
             /\ Top(t) \in Tasks
<1> DEFINE n == FirstFree(phys_mem_idx[t])
<1>1. IsStack(phys_mem_idx[t], n)
  BY Stacks
<1>2. 0 \in Tasks
  BY TasksAssumption DEF Tasks
<1>3. n \in 1..NumTasks /\ n - 1 \in Tasks
  BY <1>1, <1>2, TasksAssumption DEF IsStack, Booted, Tasks
<1>4. Top(t) = phys_mem_idx[t][n - 1]
  BY <1>3 DEF Top, TopOf
<1>5. phys_mem_idx[t][n - 1] \in Tasks
  BY <1>1, <1>3 DEF IsStack
<1>6. QED
  BY <1>3, <1>4, <1>5

(* The running terminal is started, once any is. *)
LEMMA RunningBooted ==
  ASSUME TypeOK, BootOrder, ~flag_first_execute
  PROVE  Booted(curr_running_terminal_idx)
BY DEF TypeOK, BootOrder, Terminals

(* A step that leaves a started terminal's table alone leaves its top.     *)
LEMMA TopUnchanged ==
  ASSUME TypeOK, StackShape, NEW t \in Terminals, Booted(t),
         phys_mem_idx'[t] = phys_mem_idx[t]
  PROVE  Top(t)' = Top(t)
BY TopOfBooted DEF Top, TopOf

(* The top after a step, from the depth after it. *)
LEMMA TopAfter ==
  ASSUME NEW t, NEW n \in Nat, FirstFree(phys_mem_idx'[t]) = n + 1
  PROVE  Top(t)' = phys_mem_idx'[t][n]
<1>1. FirstFree(phys_mem_idx'[t]) # 0 /\ FirstFree(phys_mem_idx'[t]) - 1 = n
  OBVIOUS
<1>2. Top(t)' = TopOf(phys_mem_idx'[t], vid_on'[t])
  BY DEF Top
<1>3. QED
  BY <1>1, <1>2 DEF TopOf

(* Steps that move only the program point and the flags of the devices:    *)
(* the tables and PCBs stay, the CPU stays with the same task.             *)
LEMMA SameTask ==
  ASSUME Inv, TypeOK',
         UNCHANGED <<slots, curr, curr_running_terminal_idx, boot>>,
         ~flag_first_execute =>
           /\ cpu'.esp0 = cpu.esp0
           /\ cpu'.cr3 = cpu.cr3
           /\ cpu'.stack = cpu.esp0
           /\ cpu'.at \in {"user"} \cup (Interruptible \ {"idle"}),
         flag_first_execute => cpu' = cpu
  PROVE  Inv'
<1> USE DEF Inv
<1>1. SlotOwnership'
  BY DEF SlotOwnership, slots
<1>2. StackShape'
  BY DEF StackShape, slots
<1>3. BootOrder'
  BY DEF BootOrder, slots, boot, Booted
<1>4. BaseShells'
  BY DEF BaseShells, slots
<1>5. \A t \in Terminals : Booted(t)' = Booted(t) /\ (Booted(t) => Top(t)' = Top(t))
  BY TopUnchanged DEF Booted, slots
<1>6. CpuMatchesRunning'
  <2>1. SUFFICES ASSUME ~flag_first_execute'
                 PROVE  Belongs(cpu, Top(curr_running_terminal_idx))'
    BY DEF CpuMatchesRunning
  <2>2. ~flag_first_execute
    BY <2>1 DEF boot
  <2>3. Booted(curr_running_terminal_idx) /\ curr_running_terminal_idx \in Terminals
    BY <2>2, RunningBooted DEF TypeOK
  <2>4. Top(curr_running_terminal_idx)' = Top(curr_running_terminal_idx)
    BY <2>3, <1>5
  <2>5. Belongs(cpu, Top(curr_running_terminal_idx))
    BY <2>2 DEF CpuMatchesRunning
  <2>6. QED
    BY <2>2, <2>4, <2>5 DEF Belongs
<1>7. SuspendedResumable'
  BY <1>5 DEF SuspendedResumable, Belongs
<1>8. ParentLinks'
  BY DEF ParentLinks, slots, Belongs
<1>9. QED
  BY <1>1, <1>2, <1>3, <1>4, <1>6, <1>7, <1>8

-----------------------------------------------------------------------------
(* The kernel stack and directory of a task in a system call.              *)
LEMMA KernelContext ==
  ASSUME TypeOK, NEW point \in Points
  PROVE  Kernel(point) \in Context
BY DEF TypeOK, Kernel, Context

(* Moving to another program point of the same stack gives a context again. *)
LEMMA AtContext ==
  ASSUME TypeOK, NEW point \in Points
  PROVE  [cpu EXCEPT !.at = point] \in Context
BY DEF TypeOK, Context

(* In ring 3 or in a system call the boot has begun and the CPU is with    *)
(* the top task of the running terminal.                                   *)
LEMMA InTask ==
  ASSUME Inv, cpu.at # "idle"
  PROVE  /\ ~flag_first_execute
         /\ curr_running_terminal_idx \in Terminals
         /\ Booted(curr_running_terminal_idx)
         /\ Belongs(cpu, Top(curr_running_terminal_idx))
<1>1. ~flag_first_execute
  BY DEF Inv, BootOrder
<1>2. QED
  BY <1>1, RunningBooted DEF Inv, TypeOK, CpuMatchesRunning

(* System calls and exceptions that only move the program point. *)
LEMMA KernelEntry ==
  ASSUME Inv, cpu.at = "user", NEW point \in {"print", "read", "tail"},
         cpu' = Kernel(point),
         UNCHANGED <<slots, curr, curr_running_terminal_idx, boot,
                     exception_flag, keys, vid_on, overwritten>>
  PROVE  Inv'
<1>1. TypeOK'
  BY KernelContext DEF Inv, TypeOK, Points, slots, boot, keys
<1>2. ~flag_first_execute
  BY InTask
<1>3. /\ cpu'.esp0 = cpu.esp0
      /\ cpu'.cr3 = cpu.cr3
      /\ cpu'.stack = cpu.esp0
      /\ cpu'.at \in {"user"} \cup (Interruptible \ {"idle"})
  BY DEF Inv, TypeOK, Context, Kernel, Interruptible
<1>4. QED
  BY <1>1, <1>2, <1>3, SameTask

(* A fault enters printf on the kernel stack of the faulting task. *)
LEMMA FaultStep == ASSUME Inv, Fault PROVE Inv'
BY KernelEntry DEF Fault, FreeProgram

(* terminal_read waits on the kernel stack of its task. *)
LEMMA ReadStartStep == ASSUME Inv, ReadStart PROVE Inv'
BY KernelEntry DEF ReadStart

(* A device call ends with sti on the kernel stack of its task. *)
LEMMA SyscallTailStep == ASSUME Inv, SyscallTail PROVE Inv'
BY KernelEntry DEF SyscallTail

(* Steps inside the kernel and back to ring 3. *)
LEMMA KernelMove ==
  ASSUME Inv, cpu.at # "idle", NEW point \in {"user", "flagged"},
         cpu' = [cpu EXCEPT !.at = point],
         typing_finish' \in [Terminals -> BOOLEAN],
         exception_flag' \in BOOLEAN,
         UNCHANGED <<slots, curr, curr_running_terminal_idx, boot,
                     curr_terminal_idx, vid_on, overwritten>>
  PROVE  Inv'
<1>1. TypeOK'
  BY AtContext DEF Inv, TypeOK, Points, slots, boot
<1>2. ~flag_first_execute /\ Belongs(cpu, Top(curr_running_terminal_idx))
  BY InTask
<1>3. /\ cpu'.esp0 = cpu.esp0
      /\ cpu'.cr3 = cpu.cr3
      /\ cpu'.stack = cpu.esp0
      /\ cpu'.at \in {"user"} \cup (Interruptible \ {"idle"})
  BY <1>2 DEF Inv, TypeOK, Context, Belongs, Interruptible
<1>4. QED
  BY <1>1, <1>2, <1>3, SameTask

(* The handler stores exception_flag and stays in its task. *)
LEMMA RaiseFlagStep == ASSUME Inv, RaiseFlag PROVE Inv'
BY KernelMove DEF RaiseFlag, keys, Inv, TypeOK

(* terminal_read returns to the task that called it. *)
LEMMA ReadDoneStep == ASSUME Inv, ReadDone PROVE Inv'
BY KernelMove DEF ReadDone, Inv, TypeOK

(* The iret of syscall_handler returns to the task that called it. *)
LEMMA ReturnToUserStep == ASSUME Inv, ReturnToUser PROVE Inv'
BY KernelMove DEF ReturnToUser, keys, Inv, TypeOK

(* Steps that leave the CPU alone. *)
LEMMA CpuAlone ==
  ASSUME Inv, TypeOK',
         UNCHANGED <<slots, curr, cpu, curr_running_terminal_idx, boot>>
  PROVE  Inv'
<1>1. ~flag_first_execute =>
        /\ cpu'.esp0 = cpu.esp0
        /\ cpu'.cr3 = cpu.cr3
        /\ cpu'.stack = cpu.esp0
        /\ cpu'.at \in {"user"} \cup (Interruptible \ {"idle"})
  BY DEF Inv, BootOrder, CpuMatchesRunning, Belongs
<1>2. QED
  BY <1>1, SameTask

(* An execute that returns -1 changes exception_flag at most. *)
LEMMA ExecuteFailsStep == ASSUME Inv, ExecuteFails PROVE Inv'
<1>1. TypeOK'
  BY DEF Inv, TypeOK, ExecuteFails, slots, boot, keys
<1>2. QED
  BY <1>1, CpuAlone DEF ExecuteFails

(* Alt+F changes the terminal on the screen and no task. *)
LEMMA AltFStep == ASSUME Inv, NEW n \in Terminals, AltF(n) PROVE Inv'
<1>1. TypeOK'
  BY DEF Inv, TypeOK, AltF, slots, boot
<1>2. QED
  BY <1>1, CpuAlone DEF AltF

(* Enter changes typing_finish and no task. *)
LEMMA EnterStep == ASSUME Inv, Enter PROVE Inv'
<1>1. TypeOK'
  BY DEF Inv, TypeOK, Enter, slots, boot
<1>2. QED
  BY <1>1, CpuAlone DEF Enter

(* vidmap of a task whose terminal is on the screen reloads the directory  *)
(* that is already in %cr3.                                                *)
LEMMA VidmapStep == ASSUME Inv, Disciplined, Vidmap PROVE Inv'
<1> DEFINE t == curr_running_terminal_idx
<1>1. curr_terminal_idx = t
  BY DEF Vidmap, Disciplined
<1>2. /\ ~flag_first_execute
      /\ t \in Terminals
      /\ Booted(t)
      /\ Belongs(cpu, Top(t))
  BY InTask DEF Vidmap, FreeProgram
<1>3. Top(t) \in Tasks /\ cpu.cr3 = Top(t) + 1
  BY <1>2, TopOfBooted DEF Belongs, Inv
<1>4. cpu' = cpu
  BY <1>1, <1>3 DEF Vidmap, SetPage1, Directory, Inv, TypeOK, Context
<1>5. TypeOK'
  BY <1>1, <1>3, <1>4 DEF Vidmap, SetPage1, Inv, TypeOK, slots, boot, keys
<1>6. QED
  BY <1>4, <1>5, CpuAlone DEF Vidmap

-----------------------------------------------------------------------------
(* The PIT handler.                                                        *)

(* The bottom shell of a started terminal t occupies slot t. *)
LEMMA BottomShell ==
  ASSUME Inv, NEW t \in Terminals, Booted(t)
  PROVE  /\ t \in Tasks
         /\ phys_mem_idx[t][0] = t
         /\ ~phys_addr_available[t]
<1>1. t \in Tasks /\ 0 \in Tasks
  BY TasksAssumption DEF Tasks, Terminals
<1>2. phys_mem_idx[t][0] = t
  BY <1>1 DEF Inv, BaseShells, Booted
<1>3. QED
  BY <1>1, <1>2 DEF Inv, SlotOwnership

(* During boot the bottom shell is also the top. *)
LEMMA BootTop ==
  ASSUME Inv, ~flag, NEW t \in Terminals, Booted(t)
  PROVE  Top(t) = t
<1> DEFINE n == FirstFree(phys_mem_idx[t])
<1>1. /\ n \in 1..NumTasks
      /\ n - 1 \in Tasks
      /\ Top(t) = phys_mem_idx[t][n - 1]
      /\ Top(t) \in Tasks
  BY TopOfBooted DEF Inv
<1>2. n - 1 = 0
  <2>1. SUFFICES ASSUME n - 1 # 0 PROVE FALSE
    OBVIOUS
  <2>2. phys_mem_idx[t][n - 1] = None
    BY <1>1, <2>1 DEF Inv, BootOrder
  <2>3. QED
    BY <1>1, <2>2, TasksAssumption DEF Tasks, None
<1>3. QED
  BY <1>1, <1>2, BottomShell

(* The handler saves the running task p, resumes task q of terminal u: the *)
(* tables stay, and both PCBs hold what they should.                       *)
LEMMA Resume ==
  ASSUME Inv, cpu.at \in Interruptible, ~flag_first_execute,
         NEW u \in Terminals,
         \A t \in Terminals : Booted(t),
         curr' = SavedIn(Top(curr_running_terminal_idx)),
         curr_running_terminal_idx' = u,
         cpu' = curr'[Top(u)],
         flag' = TRUE,
         UNCHANGED <<slots, flag_first_execute, exception_flag, keys, vid_on, overwritten>>
  PROVE  Inv'
<1> DEFINE r == curr_running_terminal_idx
<1> USE DEF Inv
<1>1. r \in Terminals /\ Top(r) \in Tasks /\ Belongs(cpu, Top(r))
  BY InTask, TopOfBooted DEF BootOrder
<1>2. cpu.at \in Interruptible \ {"idle"}
  BY DEF BootOrder, Interruptible
<1>3. \A t \in Terminals : Top(t) \in Tasks
  BY TopOfBooted
<1>4. curr' \in [Tasks -> Context]
  BY <1>1 DEF TypeOK, SavedIn
<1>5. \A t \in Terminals : /\ Belongs(curr'[Top(t)], Top(t))
                           /\ curr'[Top(t)].at \in Interruptible \ {"idle"}
  <2>1. TAKE t \in Terminals
  <2>2. CASE Top(t) = Top(r)
    <3>1. curr'[Top(t)] = cpu
      BY <1>1, <2>2 DEF TypeOK, SavedIn
    <3>2. QED
      BY <1>1, <1>2, <2>2, <3>1
  <2>3. CASE Top(t) # Top(r)
    <3>1. t # r
      BY <2>3
    <3>2. curr'[Top(t)] = curr[Top(t)]
      BY <1>1, <1>3, <2>3 DEF TypeOK, SavedIn
    <3>3. QED
      BY <3>1, <3>2 DEF SuspendedResumable
  <2>4. QED
    BY <2>2, <2>3
<1>6. TypeOK'
  BY <1>3, <1>4 DEF TypeOK, slots, keys
<1>7. \A t \in Terminals : Booted(t)' /\ Top(t)' = Top(t)
  BY TopUnchanged DEF Booted, slots
<1>8. SlotOwnership' /\ StackShape' /\ BaseShells' /\ ParentLinks'
  BY DEF SlotOwnership, StackShape, BaseShells, ParentLinks, Belongs, slots
<1>9. BootOrder'
  BY <1>5, <1>7 DEF BootOrder
<1>10. CpuMatchesRunning'
  BY <1>5, <1>7 DEF CpuMatchesRunning
<1>11. SuspendedResumable'
  BY <1>5, <1>7 DEF SuspendedResumable
<1>12. QED
  BY <1>6, <1>8, <1>9, <1>10, <1>11

(* The round robin of the PIT handler, an instance of Resume. *)
LEMMA PITSwitchStep == ASSUME Inv, PITSwitch PROVE Inv'
<1> DEFINE t == curr_running_terminal_idx
<1>1. flag
  BY DEF PITSwitch, Switches, Inv, BootOrder, TypeOK
<1>2. \A u \in Terminals : Booted(u)
  BY <1>1 DEF Inv, BootOrder, PITSwitch
<1>3. NextTerminal(t) \in Terminals
  BY TasksAssumption DEF NextTerminal, Inv, TypeOK, Terminals
<1>4. flag' = TRUE
  BY <1>1 DEF PITSwitch, boot, Inv, TypeOK
<1>5. QED
  BY <1>2, <1>3, <1>4, Resume DEF PITSwitch, boot

(* The PIT handler after the last shell, an instance of Resume. *)
LEMMA PITLastShellStep == ASSUME Inv, PITLastShell PROVE Inv'
<1> DEFINE t == curr_running_terminal_idx
<1>1. ~flag /\ ~flag_first_execute
  BY DEF PITLastShell, Switches
<1>2. \A u \in Terminals : Booted(u)
  BY <1>1, TasksAssumption DEF Inv, BootOrder, PITLastShell, Terminals
<1>3. t \in Terminals /\ 0 \in Terminals
  BY TasksAssumption DEF Inv, TypeOK, Terminals
<1>4. Top(t) = t /\ phys_mem_idx[t][0] = t /\ Top(0) = 0
  BY <1>1, <1>2, <1>3, BootTop, BottomShell
<1>5. QED
  BY <1>1, <1>2, <1>3, <1>4, Resume DEF PITLastShell

-----------------------------------------------------------------------------
(* execute.                                                                *)

(* The entry and the slot that execute takes for terminal t. *)
Taken(t, c) ==
  /\ phys_addr_available' = [phys_addr_available EXCEPT ![c] = FALSE]
  /\ phys_mem_idx' = [phys_mem_idx EXCEPT ![t][FirstFree(phys_mem_idx[t])] = c]

(* A push of a free slot keeps the slot tables owned and shaped as stacks. *)
LEMMA PushTables ==
  ASSUME Inv, NEW t \in Terminals, NEW c \in LowestFree(phys_addr_available),
         Taken(t, c)
  PROVE  LET n == FirstFree(phys_mem_idx[t])
         IN  /\ n \in Tasks
             /\ phys_mem_idx'[t] = [phys_mem_idx[t] EXCEPT ![n] = c]
             /\ phys_mem_idx[t][n] = None
             /\ FirstFree(phys_mem_idx'[t]) = n + 1
             /\ \A u \in Terminals \ {t} : phys_mem_idx'[u] = phys_mem_idx[u]
             /\ phys_addr_available' \in [Tasks -> BOOLEAN]
             /\ phys_mem_idx' \in [Terminals -> [Tasks -> Tasks \cup {None}]]
             /\ SlotOwnership'
             /\ StackShape'
<1> DEFINE n == FirstFree(phys_mem_idx[t])
<1> DEFINE s == phys_mem_idx[t]
<1> USE DEF Inv
<1>1. c \in Tasks /\ phys_addr_available[c] = TRUE
  BY DEF LowestFree, TypeOK
<1>2. \A u \in Terminals : \A i \in Tasks : phys_mem_idx[u][i] # c
  BY <1>1 DEF SlotOwnership
<1>3. IsStack(s, n)
  BY Stacks
<1>4. \A i, j \in Tasks : s[i] = s[j] /\ s[i] # None => i = j
  BY DEF SlotOwnership
<1>5. n < NumTasks
  BY <1>1, <1>2, <1>3, <1>4, RoomForTask
<1>6. n \in Tasks /\ s[n] = None
  BY <1>3, <1>5, TasksAssumption DEF IsStack, Tasks
<1>7. /\ phys_mem_idx'[t] = [s EXCEPT ![n] = c]
      /\ \A u \in Terminals \ {t} : phys_mem_idx'[u] = phys_mem_idx[u]
  BY DEF Taken, TypeOK
<1>8. IsStack(phys_mem_idx'[t], n + 1)
  BY <1>1, <1>3, <1>5, <1>7, Push
<1>9. FirstFree(phys_mem_idx'[t]) = n + 1
  BY <1>8, StackDepth
<1>10. /\ phys_addr_available' \in [Tasks -> BOOLEAN]
       /\ phys_mem_idx' \in [Terminals -> [Tasks -> Tasks \cup {None}]]
  BY <1>1, <1>6 DEF Taken, TypeOK
<1>11. /\ phys_addr_available'[c] = FALSE
       /\ \A p \in Tasks \ {c} : phys_addr_available'[p] = phys_addr_available[p]
  BY <1>1 DEF Taken, TypeOK
<1>12. /\ phys_mem_idx'[t][n] = c
       /\ \A u \in Terminals : \A i \in Tasks :
            (u # t \/ i # n) => phys_mem_idx'[u][i] = phys_mem_idx[u][i]
  BY <1>6, <1>7 DEF TypeOK
<1>13. SlotOwnership'
  <2>1. ASSUME NEW p \in Tasks
        PROVE  phys_addr_available'[p] <=>
                 \A u \in Terminals : \A i \in Tasks : phys_mem_idx'[u][i] # p
    <3>1. CASE p = c
      BY <3>1, <1>6, <1>11, <1>12
    <3>2. CASE p # c
      <4>1. \A u \in Terminals : \A i \in Tasks :
              phys_mem_idx'[u][i] = p <=> phys_mem_idx[u][i] = p
        BY <1>6, <1>12, <3>2 DEF Tasks, None
      <4>2. QED
        BY <4>1, <1>11, <3>2 DEF SlotOwnership
    <3>3. QED
      BY <3>1, <3>2
  <2>2. ASSUME NEW u \in Terminals, NEW v \in Terminals,
               NEW i \in Tasks, NEW j \in Tasks,
               phys_mem_idx'[u][i] = phys_mem_idx'[v][j],
               phys_mem_idx'[u][i] # None
        PROVE  u = v /\ i = j
    <3>1. CASE u = t /\ i = n
      BY <2>2, <3>1, <1>2, <1>12
    <3>2. CASE v = t /\ j = n
      BY <2>2, <3>2, <1>2, <1>12
    <3>3. CASE ~(u = t /\ i = n) /\ ~(v = t /\ j = n)
      BY <2>2, <3>3, <1>12 DEF SlotOwnership
    <3>4. QED
      BY <3>1, <3>2, <3>3
  <2>3. QED
    BY <2>1, <2>2 DEF SlotOwnership
<1>14. StackShape'
  BY <1>7, <1>8, <1>9 DEF StackShape, IsStack
<1>15. QED
  BY <1>6, <1>7, <1>9, <1>10, <1>13, <1>14

(* The CPU and the PCB of a task that has just been started. *)
LEMMA FreshContext ==
  ASSUME NEW c \in Tasks
  PROVE  /\ Fresh(c) \in Context
         /\ Belongs(Fresh(c), c)
         /\ Fresh(c).at = "user"
BY TasksAssumption DEF Fresh, Directory, Context, Belongs, Points, Tasks

(* What execute saves in a PCB is a context. *)
LEMMA SavedContext ==
  ASSUME NEW c \in Tasks, NEW caller \in Context
  PROVE  Saved(c, caller) \in Context
BY TasksAssumption DEF Saved, Directory, Context, Points, Tasks

(* execute from a program: a push on the running terminal. *)
LEMMA ExecuteStep == ASSUME Inv, Disciplined, Execute PROVE Inv'
<1> DEFINE t == curr_running_terminal_idx
<1> DEFINE n == FirstFree(phys_mem_idx[t])
<1> USE DEF Inv
<1>1. flag /\ cpu.at = "user"
  BY DEF Execute, FreeProgram, Disciplined
<1>2. /\ t \in Terminals
      /\ ~flag_first_execute
      /\ Belongs(cpu, Top(t))
      /\ \A u \in Terminals : Booted(u)
  BY <1>1, InTask DEF BootOrder
<1>3. PICK c \in LowestFree(phys_addr_available) :
        /\ Taken(t, c)
        /\ parent' = [parent EXCEPT ![c] = Saved(c, Kernel("exec"))]
        /\ cpu' = Fresh(c)
        /\ exception_flag' = FALSE
  BY DEF Execute, Launch, Taken
<1>4. c \in Tasks /\ c >= NumTerminals
  <2>1. c \in Tasks /\ phys_addr_available[c]
    BY DEF LowestFree
  <2>2. c \notin Terminals
    BY <1>2, <2>1, BottomShell
  <2>3. QED
    BY <2>1, <2>2, TasksAssumption DEF Tasks, Terminals
<1>5. /\ n \in Tasks
      /\ phys_mem_idx'[t] = [phys_mem_idx[t] EXCEPT ![n] = c]
      /\ phys_mem_idx[t][n] = None
      /\ FirstFree(phys_mem_idx'[t]) = n + 1
      /\ \A u \in Terminals \ {t} : phys_mem_idx'[u] = phys_mem_idx[u]
      /\ phys_addr_available' \in [Tasks -> BOOLEAN]
      /\ phys_mem_idx' \in [Terminals -> [Tasks -> Tasks \cup {None}]]
      /\ SlotOwnership'
      /\ StackShape'
  BY <1>2, <1>3, PushTables
<1>6. n \in 1..NumTasks /\ n - 1 \in Tasks /\ Top(t) = phys_mem_idx[t][n - 1]
  BY <1>2, TopOfBooted
<1>7. /\ phys_mem_idx'[t][n] = c
      /\ \A u \in Terminals : \A i \in Tasks :
           (u # t \/ i # n) => phys_mem_idx'[u][i] = phys_mem_idx[u][i]
  BY <1>2, <1>5 DEF TypeOK
<1>8. TypeOK'
  <2>1. Kernel("exec") \in Context
    BY KernelContext DEF Points
  <2>2. Saved(c, Kernel("exec")) \in Context /\ Fresh(c) \in Context
    BY <1>4, <2>1, SavedContext, FreshContext
  <2>3. QED
    BY <1>3, <1>5, <2>2 DEF TypeOK, Execute, boot, keys
<1>9. \A u \in Terminals : Booted(u)'
  BY <1>2, <1>6, <1>7, TasksAssumption DEF Booted, Tasks
<1>10. BootOrder'
  BY <1>1, <1>2, <1>3, <1>4, <1>9, FreshContext DEF BootOrder, Execute, boot
<1>11. BaseShells'
  BY <1>4, <1>6, <1>7 DEF BaseShells
<1>12. Top(t)' = c
  <2>1. \A u \in Terminals : u = t => Top(u)' = c
    BY <1>5, <1>6, <1>7, TopAfter
  <2>2. t' = t
    BY DEF Execute
  <2>3. QED
    BY <1>2, <2>1, <2>2
<1>13. CpuMatchesRunning'
  <2>1. Belongs(cpu', c)
    BY <1>3, <1>4, FreshContext
  <2>2. QED
    BY <1>12, <2>1 DEF CpuMatchesRunning
<1>14. SuspendedResumable'
  <2>1. \A u \in Terminals \ {t} : Top(u)' = Top(u)
    BY <1>2, <1>5, TopUnchanged
  <2>2. QED
    BY <1>2, <2>1 DEF SuspendedResumable, Execute
<1>15. ParentLinks'
  <2>1. SUFFICES ASSUME NEW u \in Terminals, NEW i \in Tasks \ {0},
                        phys_mem_idx'[u][i] # None
                 PROVE  LET p == phys_mem_idx'[u][i]
                        IN  /\ Belongs(parent'[p], phys_mem_idx'[u][i - 1])
                            /\ parent'[p].at = "exec"
    BY DEF ParentLinks, Belongs
  <2>2. CASE u = t /\ i = n
    <3>1. phys_mem_idx'[t][n - 1] = Top(t)
      BY <1>2, <1>6, <1>7, TasksAssumption DEF Tasks
    <3>2. parent'[c] = Saved(c, Kernel("exec"))
      BY <1>3, <1>4 DEF TypeOK
    <3>3. Belongs(Saved(c, Kernel("exec")), Top(t))
      BY <1>2, <1>4 DEF Belongs, Saved, Kernel, TypeOK, Context
    <3>4. Saved(c, Kernel("exec")).at = "exec"
      BY DEF Saved
    <3>5. QED
      BY <1>7, <2>2, <3>1, <3>2, <3>3, <3>4
  <2>3. CASE ~(u = t /\ i = n)
    <3> DEFINE p == phys_mem_idx[u][i]
    <3>1. phys_mem_idx'[u][i] = p /\ p # None
      BY <1>7, <2>1, <2>3
    <3>2. ~(u = t /\ i - 1 = n)
      BY <1>2, <3>1, Stacks DEF IsStack, Tasks
    <3>3. phys_mem_idx'[u][i - 1] = phys_mem_idx[u][i - 1]
      BY <1>7, <2>1, <3>2, TasksAssumption DEF Tasks
    <3>4. p \in Tasks /\ p # c
      BY <1>3, <3>1 DEF TypeOK, SlotOwnership, LowestFree
    <3>5. parent'[p] = parent[p]
      BY <1>3, <1>4, <3>4 DEF TypeOK
    <3>6. Belongs(parent[p], phys_mem_idx[u][i - 1]) /\ parent[p].at = "exec"
      BY <2>1, <3>1 DEF ParentLinks
    <3>7. QED
      BY <3>1, <3>3, <3>5, <3>6
  <2>4. QED
    BY <2>2, <2>3
<1>16. QED
  BY <1>5, <1>8, <1>10, <1>11, <1>13, <1>14, <1>15

(* The first shell of a terminal: the slots below u hold the shells of the *)
(* terminals below u, so the shell of terminal u gets slot u.              *)
LEMMA OpenShellTables ==
  ASSUME Inv, ~flag, NEW u \in Terminals,
         \A w \in Terminals : Booted(w) <=> w < u,
         NEW caller \in Context,
         Launch(u, phys_addr_available, phys_mem_idx, parent, caller)
  PROVE  LET n == FirstFree(phys_mem_idx[u])
         IN  /\ u \in Tasks /\ 0 \in Tasks
             /\ n = 0 /\ FirstFree(phys_mem_idx'[u]) = 1
             /\ LowestFree(phys_addr_available) = {u}
             /\ Taken(u, u)
             /\ phys_mem_idx'[u][0] = u
             /\ \A w \in Terminals : \A i \in Tasks :
                  (w # u \/ i # 0) => phys_mem_idx'[w][i] = phys_mem_idx[w][i]
             /\ \A w \in Terminals : \A i \in Tasks :
                  phys_mem_idx[w][i] # None => i = 0 /\ phys_mem_idx[w][i] = w /\ w < u
             /\ \A w \in Terminals \ {u} : phys_mem_idx'[w] = phys_mem_idx[w]
             /\ cpu' = Fresh(u)
             /\ phys_addr_available' \in [Tasks -> BOOLEAN]
             /\ phys_mem_idx' \in [Terminals -> [Tasks -> Tasks \cup {None}]]
             /\ SlotOwnership'
             /\ StackShape'
<1> DEFINE n == FirstFree(phys_mem_idx[u])
<1> USE DEF Inv
<1>1. PICK c \in LowestFree(phys_addr_available) :
        /\ Taken(u, c)
        /\ parent' = [parent EXCEPT ![c] = Saved(c, caller)]
        /\ cpu' = Fresh(c)
        /\ exception_flag' = FALSE
  BY DEF Launch, Taken
<1>2. \A w \in Terminals : \A i \in Tasks :
        phys_mem_idx[w][i] # None => i = 0 /\ phys_mem_idx[w][i] = w /\ w < u
  BY DEF BootOrder, BaseShells, Booted
<1>3. u \in Tasks /\ 0 \in Tasks
  BY TasksAssumption DEF Terminals, Tasks
<1>4. LowestFree(phys_addr_available) = {u} /\ c = u
  <2>1. phys_addr_available[u]
    <3>1. u # None
      BY <1>3, TasksAssumption DEF Tasks, None
    <3>2. \A w \in Terminals : \A i \in Tasks : phys_mem_idx[w][i] # u
      BY <1>2, <3>1, TasksAssumption DEF Terminals
    <3>3. QED
      BY <1>3, <3>2 DEF SlotOwnership
  <2>2. \A q \in 0..(u - 1) : ~phys_addr_available[q]
    BY BottomShell, TasksAssumption DEF Terminals
  <2>3. QED
    BY <1>3, <2>1, <2>2, TasksAssumption DEF LowestFree, Tasks
<1>5. /\ n \in Tasks
      /\ phys_mem_idx'[u] = [phys_mem_idx[u] EXCEPT ![n] = c]
      /\ phys_mem_idx[u][n] = None
      /\ FirstFree(phys_mem_idx'[u]) = n + 1
      /\ \A w \in Terminals \ {u} : phys_mem_idx'[w] = phys_mem_idx[w]
      /\ phys_addr_available' \in [Tasks -> BOOLEAN]
      /\ phys_mem_idx' \in [Terminals -> [Tasks -> Tasks \cup {None}]]
      /\ SlotOwnership'
      /\ StackShape'
  BY <1>1, PushTables
<1>6. n = 0
  <2>1. phys_mem_idx[u][0] = None
    BY <1>2, <1>3, TasksAssumption DEF Terminals
  <2>2. QED
    BY <1>3, <1>5, <2>1 DEF StackShape, Tasks
<1>7. /\ phys_mem_idx'[u][0] = u
      /\ \A w \in Terminals : \A i \in Tasks :
           (w # u \/ i # 0) => phys_mem_idx'[w][i] = phys_mem_idx[w][i]
  BY <1>3, <1>4, <1>5, <1>6 DEF TypeOK
<1>8. QED
  BY <1>1, <1>2, <1>3, <1>4, <1>5, <1>6, <1>7

(* The first PIT interrupt and the ones that open the other shells execute *)
(* a shell for terminal u when exactly the terminals below u have theirs.  *)
LEMMA OpenShell ==
  ASSUME Inv, ~flag, NEW u \in Terminals,
         \A w \in Terminals : Booted(w) <=> w < u,
         NEW caller \in Context,
         Launch(u, phys_addr_available, phys_mem_idx, parent, caller),
         curr' \in [Tasks -> Context],
         \A w \in Terminals : w < u => /\ Belongs(curr'[w], w)
                                       /\ curr'[w].at \in Interruptible \ {"idle"},
         curr_running_terminal_idx' = u,
         flag_first_execute' = FALSE,
         UNCHANGED <<flag, keys, vid_on, overwritten>>
  PROVE  Inv'
<1> DEFINE n == FirstFree(phys_mem_idx[u])
<1>1. /\ parent' = [parent EXCEPT ![u] = Saved(u, caller)]
      /\ cpu' = Fresh(u)
      /\ exception_flag' = FALSE
  <2>1. LowestFree(phys_addr_available) = {u}
    BY OpenShellTables
  <2>2. QED
    BY <2>1 DEF Launch
<1>2. \A w \in Terminals : \A i \in Tasks :
        phys_mem_idx[w][i] # None => i = 0 /\ phys_mem_idx[w][i] = w /\ w < u
  BY OpenShellTables
<1>3. u \in Tasks /\ 0 \in Tasks
  BY OpenShellTables
<1>4. /\ n = 0
      /\ FirstFree(phys_mem_idx'[u]) = 1
      /\ \A w \in Terminals \ {u} : phys_mem_idx'[w] = phys_mem_idx[w]
      /\ phys_addr_available' \in [Tasks -> BOOLEAN]
      /\ phys_mem_idx' \in [Terminals -> [Tasks -> Tasks \cup {None}]]
      /\ SlotOwnership'
      /\ StackShape'
  BY OpenShellTables, ZenonT(30)
<1>5. /\ phys_mem_idx'[u][0] = u
      /\ \A w \in Terminals : \A i \in Tasks :
           (w # u \/ i # 0) => phys_mem_idx'[w][i] = phys_mem_idx[w][i]
  BY OpenShellTables
<1> USE DEF Inv
<1>6. \A w \in Terminals : \A i \in Tasks :
        phys_mem_idx'[w][i] # None =>
          i = 0 /\ phys_mem_idx'[w][i] = w /\ w <= u
  BY <1>2, <1>5, TasksAssumption DEF Terminals
<1>7. TypeOK'
  <2>1. Saved(u, caller) \in Context /\ Fresh(u) \in Context
    BY <1>3, SavedContext, FreshContext
  <2>2. QED
    BY <1>1, <1>3, <1>4, <2>1 DEF TypeOK, keys
<1>8. \A w \in Terminals : Booted(w)' <=> w <= u
  BY <1>3, <1>5, TasksAssumption DEF Booted, Terminals, None
<1>9. BootOrder'
  BY <1>1, <1>3, <1>6, <1>8, FreshContext DEF BootOrder
<1>10. BaseShells'
  BY <1>6 DEF BaseShells
<1>11. \A w \in Terminals : w <= u => Top(w)' = w
  <2>1. SUFFICES ASSUME NEW w \in Terminals, w <= u PROVE Top(w)' = w
    OBVIOUS
  <2>2. CASE w = u
    <3>1. FirstFree(phys_mem_idx'[u]) = 0 + 1
      BY <1>4
    <3>2. QED
      BY <1>5, <2>2, <3>1, TopAfter
  <2>3. CASE w # u
    <3>1. Booted(w)
      BY <2>1, <2>3 DEF Terminals
    <3>2. Top(w) = w
      BY <3>1, BootTop
    <3>3. QED
      BY <1>4, <2>3, <3>1, <3>2, TopUnchanged
  <2>4. QED
    BY <2>2, <2>3
<1>12. CpuMatchesRunning'
  <2>1. Top(curr_running_terminal_idx)' = u
    BY <1>11 DEF Terminals
  <2>2. QED
    BY <1>1, <1>3, <2>1, FreshContext DEF CpuMatchesRunning
<1>13. SuspendedResumable'
  <2>1. SUFFICES ASSUME NEW w \in Terminals \ {u}, Booted(w)'
                 PROVE  /\ Belongs(curr'[Top(w)'], Top(w)')
                        /\ curr'[Top(w)'].at \in Interruptible \ {"idle"}
    BY DEF SuspendedResumable
  <2>2. w < u
    BY <1>8, <2>1 DEF Terminals
  <2>3. QED
    BY <1>11, <2>2 DEF Terminals
<1>14. ParentLinks'
  BY <1>6 DEF ParentLinks
<1>15. QED
  BY <1>4, <1>7, <1>9, <1>10, <1>12, <1>13, <1>14

(* The shell of terminal 0, an instance of OpenShell. *)
LEMMA PITFirstStep == ASSUME Inv, PITFirst PROVE Inv'
<1>1. 0 \in Terminals /\ curr_running_terminal_idx = 0 /\ ~flag
  BY TasksAssumption DEF PITFirst, Inv, BootOrder, Terminals
<1>2. \A w \in Terminals : (Booted(w) <=> w < 0) /\ ~(w < 0)
  BY DEF PITFirst, Inv, BootOrder, Terminals
<1>3. cpu \in Context /\ curr' \in [Tasks -> Context]
  BY DEF PITFirst, Inv, TypeOK
<1>4. QED
  BY <1>1, <1>2, <1>3, OpenShell DEF PITFirst

(* The shell of the next terminal, an instance of OpenShell. *)
LEMMA PITNextShellStep == ASSUME Inv, PITNextShell PROVE Inv'
<1> DEFINE t == curr_running_terminal_idx
<1>1. ~flag /\ ~flag_first_execute
  BY DEF PITNextShell, Switches
<1>2. t \in Terminals /\ t + 1 \in Terminals
  BY TasksAssumption DEF PITNextShell, Inv, TypeOK, Terminals
<1>3. \A w \in Terminals : Booted(w) <=> w < t + 1
  BY <1>1, <1>2 DEF Inv, BootOrder, Terminals
<1>4. phys_mem_idx[t][0] = t /\ t \in Tasks
  BY <1>2, <1>3, BottomShell DEF Terminals
<1>5. \A w \in Terminals : w < t + 1 => Top(w) = w /\ w \in Tasks
  BY <1>1, <1>3, BootTop, BottomShell
<1>6. curr' = [curr EXCEPT ![t] = cpu]
  BY <1>4 DEF PITNextShell, SavedIn
<1>7. Belongs(cpu, t) /\ cpu.at \in Interruptible \ {"idle"} /\ cpu \in Context
  BY <1>1, <1>2, <1>5
  DEF PITNextShell, Inv, TypeOK, BootOrder, CpuMatchesRunning, Interruptible, Terminals
<1>8. curr' \in [Tasks -> Context]
  BY <1>4, <1>6, <1>7 DEF Inv, TypeOK
<1>9. ASSUME NEW w \in Terminals, w < t + 1
      PROVE  Belongs(curr'[w], w) /\ curr'[w].at \in Interruptible \ {"idle"}
  <2>1. CASE w = t
    <3>1. curr'[w] = cpu
      BY <1>4, <1>6, <2>1 DEF Inv, TypeOK
    <3>2. QED
      BY <1>7, <2>1, <3>1
  <2>2. CASE w # t
    <3>1. curr'[w] = curr[w]
      BY <1>5, <1>6, <1>9, <2>2 DEF Inv, TypeOK
    <3>2. Booted(w) /\ Top(w) = w
      BY <1>3, <1>5, <1>9
    <3>3. QED
      BY <2>2, <3>1, <3>2 DEF Inv, SuspendedResumable
  <2>3. QED
    BY <2>1, <2>2
<1>10. curr_running_terminal_idx' = t + 1 /\ flag_first_execute' = FALSE
  BY <1>1 DEF PITNextShell, boot, Inv, TypeOK
<1>11. QED
  BY <1>1, <1>2, <1>3, <1>7, <1>8, <1>9, <1>10, OpenShell DEF PITNextShell, boot

-----------------------------------------------------------------------------
(* halt.                                                                   *)

(* A program above the bottom shell: its entry and its slot are given      *)
(* back, the CPU returns to the task below it.                             *)
LEMMA HaltProgramTables ==
  ASSUME Inv, cpu.at # "idle", Halt,
         Top(curr_running_terminal_idx) >= NumTerminals
  PROVE  LET t == curr_running_terminal_idx
             n == FirstFree(phys_mem_idx[t])
             h == Top(t)
         IN  /\ t \in Terminals /\ ~flag_first_execute /\ Booted(t)
             /\ n \in 1..NumTasks /\ n - 1 \in Tasks /\ h = phys_mem_idx[t][n - 1] /\ h \in Tasks
             /\ h # None
             /\ n - 1 # 0 /\ n - 2 \in Tasks /\ 0 \in Tasks
             /\ phys_addr_available' = [phys_addr_available EXCEPT ![h] = TRUE]
             /\ phys_mem_idx' = [phys_mem_idx EXCEPT ![t][n - 1] = None]
             /\ parent' = [parent EXCEPT ![h] = NoContext]
             /\ cpu' = [parent[h] EXCEPT !.at = "user"]
             /\ vid_on' = [vid_on EXCEPT ![t] = 0]
             /\ UNCHANGED <<exception_flag, overwritten, curr, curr_running_terminal_idx, boot, keys>>
             /\ phys_mem_idx'[t] = [phys_mem_idx[t] EXCEPT ![n - 1] = None]
             /\ \A u \in Terminals \ {t} : phys_mem_idx'[u] = phys_mem_idx[u]
             /\ phys_mem_idx'[t][n - 1] = None
             /\ \A u \in Terminals : \A i \in Tasks :
                  (u # t \/ i # n - 1) => phys_mem_idx'[u][i] = phys_mem_idx[u][i]
             /\ IsStack(phys_mem_idx'[t], n - 1)
             /\ FirstFree(phys_mem_idx'[t]) = n - 1
<1> DEFINE t == curr_running_terminal_idx
<1> DEFINE n == FirstFree(phys_mem_idx[t])
<1> DEFINE h == Top(t)
<1> USE DEF Inv
<1>1. t \in Terminals /\ ~flag_first_execute /\ Booted(t)
  BY InTask
<1>2. n \in 1..NumTasks /\ n - 1 \in Tasks /\ h = phys_mem_idx[t][n - 1] /\ h \in Tasks
  BY <1>1, TopOfBooted
<1>3. h # None
  BY <1>2, TasksAssumption DEF Tasks, None
<1>4. n - 1 # 0 /\ n - 2 \in Tasks /\ 0 \in Tasks
  BY <1>1, <1>2, <1>3, TasksAssumption DEF BaseShells, Tasks, Terminals
<1>5. /\ phys_addr_available' = [phys_addr_available EXCEPT ![h] = TRUE]
      /\ phys_mem_idx' = [phys_mem_idx EXCEPT ![t][n - 1] = None]
      /\ parent' = [parent EXCEPT ![h] = NoContext]
      /\ cpu' = [parent[h] EXCEPT !.at = "user"]
      /\ vid_on' = [vid_on EXCEPT ![t] = 0]
      /\ UNCHANGED <<exception_flag, overwritten, curr, curr_running_terminal_idx, boot, keys>>
  BY <1>1, <1>2, TasksAssumption DEF Halt, Freed, Popped, Tasks, Terminals
<1>6. /\ phys_mem_idx'[t] = [phys_mem_idx[t] EXCEPT ![n - 1] = None]
      /\ \A u \in Terminals \ {t} : phys_mem_idx'[u] = phys_mem_idx[u]
  BY <1>1, <1>5 DEF TypeOK
<1>7. /\ phys_mem_idx'[t][n - 1] = None
      /\ \A u \in Terminals : \A i \in Tasks :
           (u # t \/ i # n - 1) => phys_mem_idx'[u][i] = phys_mem_idx[u][i]
  BY <1>1, <1>2, <1>6 DEF TypeOK
<1>8. IsStack(phys_mem_idx'[t], n - 1)
  BY <1>1, <1>2, <1>6, Stacks, Pop
<1>9. FirstFree(phys_mem_idx'[t]) = n - 1
  BY <1>8, StackDepth
<1>10. QED
  BY <1>1, <1>2, <1>3, <1>4, <1>5, <1>6, <1>7, <1>8, <1>9

(* The tables after such a halt satisfy the invariant. *)
LEMMA HaltProgram ==
  ASSUME Inv, cpu.at # "idle", Halt,
         Top(curr_running_terminal_idx) >= NumTerminals
  PROVE  Inv'
<1> DEFINE t == curr_running_terminal_idx
<1> DEFINE n == FirstFree(phys_mem_idx[t])
<1> DEFINE h == Top(t)
<1>1. t \in Terminals /\ ~flag_first_execute /\ Booted(t)
  BY HaltProgramTables
<1>2. n \in 1..NumTasks /\ n - 1 \in Tasks /\ h = phys_mem_idx[t][n - 1] /\ h \in Tasks
  BY HaltProgramTables
<1>3. h # None
  BY HaltProgramTables
<1>4. n - 1 # 0 /\ n - 2 \in Tasks /\ 0 \in Tasks
  BY HaltProgramTables
<1>5. /\ phys_addr_available' = [phys_addr_available EXCEPT ![h] = TRUE]
      /\ phys_mem_idx' = [phys_mem_idx EXCEPT ![t][n - 1] = None]
      /\ parent' = [parent EXCEPT ![h] = NoContext]
      /\ cpu' = [parent[h] EXCEPT !.at = "user"]
      /\ vid_on' = [vid_on EXCEPT ![t] = 0]
      /\ UNCHANGED <<exception_flag, overwritten, curr, curr_running_terminal_idx, boot, keys>>
  BY HaltProgramTables
<1>6. /\ phys_mem_idx'[t] = [phys_mem_idx[t] EXCEPT ![n - 1] = None]
      /\ \A u \in Terminals \ {t} : phys_mem_idx'[u] = phys_mem_idx[u]
  BY HaltProgramTables
<1>7. /\ phys_mem_idx'[t][n - 1] = None
      /\ \A u \in Terminals : \A i \in Tasks :
           (u # t \/ i # n - 1) => phys_mem_idx'[u][i] = phys_mem_idx[u][i]
  BY HaltProgramTables
<1>8. IsStack(phys_mem_idx'[t], n - 1)
  BY HaltProgramTables
<1>9. FirstFree(phys_mem_idx'[t]) = n - 1
  BY HaltProgramTables
<1> USE DEF Inv
<1>10. StackShape'
  BY <1>6, <1>8, <1>9 DEF StackShape, IsStack
<1>11. parent[h] \in Context /\ NoContext \in Context
  BY <1>2, TasksAssumption DEF TypeOK, NoContext, Context, Points
<1>12. cpu' \in Context
  BY <1>5, <1>11 DEF Context, Points
<1>13. TypeOK'
  <2>1. phys_mem_idx' \in [Terminals -> [Tasks -> Tasks \cup {None}]]
    BY <1>1, <1>2, <1>5 DEF TypeOK
  <2>2. QED
    BY <1>1, <1>2, <1>5, <1>11, <1>12, <2>1 DEF TypeOK, boot, keys
<1>14. SlotOwnership'
  <2>1. ASSUME NEW p \in Tasks
        PROVE  phys_addr_available'[p] <=>
                 \A u \in Terminals : \A i \in Tasks : phys_mem_idx'[u][i] # p
    <3>1. CASE p = h
      <4>1. phys_addr_available'[p]
        BY <1>2, <1>5, <3>1 DEF TypeOK
      <4>2. \A u \in Terminals : \A i \in Tasks : phys_mem_idx'[u][i] # p
        BY <1>1, <1>2, <1>3, <1>7, <3>1 DEF SlotOwnership
      <4>3. QED
        BY <4>1, <4>2
    <3>2. CASE p # h
      <4>1. phys_addr_available'[p] = phys_addr_available[p]
        BY <1>2, <1>5, <3>2 DEF TypeOK
      <4>2. p # None
        BY TasksAssumption DEF Tasks, None
      <4>3. \A u \in Terminals : \A i \in Tasks :
              phys_mem_idx'[u][i] = p <=> phys_mem_idx[u][i] = p
        BY <1>2, <1>7, <3>2, <4>2
      <4>4. QED
        BY <4>1, <4>3 DEF SlotOwnership
    <3>3. QED
      BY <3>1, <3>2
  <2>2. ASSUME NEW u \in Terminals, NEW v \in Terminals,
               NEW i \in Tasks, NEW j \in Tasks,
               phys_mem_idx'[u][i] = phys_mem_idx'[v][j],
               phys_mem_idx'[u][i] # None
        PROVE  u = v /\ i = j
    <3>1. /\ phys_mem_idx'[u][i] = phys_mem_idx[u][i]
          /\ phys_mem_idx'[v][j] = phys_mem_idx[v][j]
      BY <1>7, <2>2
    <3>2. phys_mem_idx[u][i] = phys_mem_idx[v][j] /\ phys_mem_idx[u][i] # None
      BY <2>2, <3>1
    <3>3. QED
      BY <3>2 DEF SlotOwnership
  <2>3. QED
    BY <2>1, <2>2 DEF SlotOwnership
<1>15. \A u \in Terminals : \A i \in Tasks :
         phys_mem_idx'[u][i] # None => phys_mem_idx'[u][i] = phys_mem_idx[u][i]
  BY <1>7
<1>16. BaseShells'
  BY <1>15 DEF BaseShells
<1>17. flag
  BY <1>1, <1>2, <1>3, <1>4 DEF BootOrder
<1>18. \A u \in Terminals : Booted(u)' /\ Booted(u)
  BY <1>1, <1>4, <1>7, <1>17 DEF BootOrder, Booted
<1>19. cpu'.at = "user"
  BY <1>5, <1>11 DEF Context
<1>20. BootOrder'
  BY <1>1, <1>5, <1>17, <1>18, <1>19 DEF BootOrder, boot
<1>21. Top(t)' = phys_mem_idx[t][n - 2]
  <2>1. n - 2 \in Nat /\ FirstFree(phys_mem_idx'[t]) = (n - 2) + 1
    BY <1>2, <1>4, <1>9, TasksAssumption DEF Tasks
  <2>2. \A u \in Terminals : u = t => Top(u)' = phys_mem_idx'[u][n - 2]
    BY <2>1, TopAfter
  <2>3. t' = t
    BY <1>5
  <2>4. phys_mem_idx'[t][n - 2] = phys_mem_idx[t][n - 2]
    BY <1>1, <1>2, <1>4, <1>7
  <2>5. QED
    BY <1>1, <2>2, <2>3, <2>4
<1>22. CpuMatchesRunning'
  <2>1. Belongs(parent[h], phys_mem_idx[t][(n - 1) - 1])
    BY <1>1, <1>2, <1>3, <1>4 DEF ParentLinks
  <2>2. (n - 1) - 1 = n - 2
    BY <1>2
  <2>3. Belongs(cpu', phys_mem_idx[t][n - 2])
    BY <1>5, <1>11, <2>1, <2>2 DEF Belongs, Context
  <2>4. QED
    BY <1>21, <2>3 DEF CpuMatchesRunning
<1>23. SuspendedResumable'
  <2>1. \A u \in Terminals \ {t} : Top(u)' = Top(u)
    BY <1>6, <1>18, TopUnchanged
  <2>2. QED
    BY <1>5, <1>18, <2>1 DEF SuspendedResumable
<1>24. ParentLinks'
  <2>1. SUFFICES ASSUME NEW u \in Terminals, NEW i \in Tasks \ {0},
                        phys_mem_idx'[u][i] # None
                 PROVE  LET p == phys_mem_idx'[u][i]
                        IN  /\ Belongs(parent'[p], phys_mem_idx'[u][i - 1])
                            /\ parent'[p].at = "exec"
    BY DEF ParentLinks, Belongs
  <2> DEFINE p == phys_mem_idx[u][i]
  <2>2. phys_mem_idx'[u][i] = p /\ p # None
    BY <1>15, <2>1
  <2>3. ~(u = t /\ i - 1 = n - 1)
    BY <1>1, <2>2, Stacks DEF IsStack, Tasks
  <2>4. phys_mem_idx'[u][i - 1] = phys_mem_idx[u][i - 1]
    BY <1>7, <2>1, <2>3, TasksAssumption DEF Tasks
  <2>5. p \in Tasks /\ p # h
    <3>1. ~(u = t /\ i = n - 1)
      BY <1>7, <2>1
    <3>2. QED
      BY <1>1, <1>2, <2>2, <3>1 DEF TypeOK, SlotOwnership
  <2>6. parent'[p] = parent[p]
    BY <1>2, <1>5, <2>5 DEF TypeOK
  <2>7. Belongs(parent[p], phys_mem_idx[u][i - 1]) /\ parent[p].at = "exec"
    BY <2>1, <2>2 DEF ParentLinks
  <2>8. QED
    BY <2>2, <2>4, <2>6, <2>7
<1>25. QED
  BY <1>10, <1>13, <1>14, <1>16, <1>20, <1>22, <1>23, <1>24

(* The bottom shell: halt frees slot t and execute takes it again, since   *)
(* every slot below t holds the bottom shell of its terminal.              *)
LEMMA HaltShellTables ==
  ASSUME Inv, cpu.at # "idle", Halt,
         ~(Top(curr_running_terminal_idx) >= NumTerminals)
  PROVE  LET t == curr_running_terminal_idx
         IN  /\ t \in Terminals /\ ~flag_first_execute /\ Booted(t)
             /\ FirstFree(phys_mem_idx[t]) = 1 /\ Top(t) = t
             /\ t \in Tasks
             /\ UNCHANGED <<phys_addr_available, phys_mem_idx, curr, curr_running_terminal_idx,
                            boot, keys>>
             /\ vid_on' = [vid_on EXCEPT ![t] = 0]
             /\ parent' = [[parent EXCEPT ![t] = NoContext] EXCEPT ![t] = Saved(t, parent[t])]
             /\ cpu' = Fresh(t)
             /\ exception_flag' = FALSE
             /\ overwritten' \in {overwritten, overwritten \cup RestartStack(t)}
<1> DEFINE t == curr_running_terminal_idx
<1> DEFINE n == FirstFree(phys_mem_idx[t])
<1> DEFINE h == Top(t)
<1> USE DEF Inv
<1>1. t \in Terminals /\ ~flag_first_execute /\ Booted(t)
  BY InTask
<1>2. n \in 1..NumTasks /\ n - 1 \in Tasks /\ h = phys_mem_idx[t][n - 1] /\ h \in Tasks
  BY <1>1, TopOfBooted
<1>3. h # None /\ 0 \in Tasks
  BY <1>2, TasksAssumption DEF Tasks, None
<1>4. n = 1 /\ h = t
  BY <1>1, <1>2, <1>3, TasksAssumption DEF BaseShells, Tasks, Terminals
<1>5. /\ t \in Tasks
      /\ phys_mem_idx[t][0] = t
      /\ phys_addr_available[t] = FALSE
  BY <1>1, BottomShell DEF TypeOK
<1>6. /\ Launch(t, Freed(t), Popped(t), [parent EXCEPT ![t] = NoContext], parent[t])
      /\ vid_on' = [vid_on EXCEPT ![t] = 0]
      /\ overwritten' \in {overwritten, overwritten \cup RestartStack(t)}
      /\ UNCHANGED <<curr, curr_running_terminal_idx, boot, keys>>
  BY <1>4 DEF Halt
<1>7. PICK c \in LowestFree(Freed(t)) :
        /\ phys_addr_available' = [Freed(t) EXCEPT ![c] = FALSE]
        /\ phys_mem_idx' = [Popped(t) EXCEPT ![t][FirstFree(Popped(t)[t])] = c]
        /\ parent' = [[parent EXCEPT ![t] = NoContext] EXCEPT ![c] = Saved(c, parent[t])]
        /\ cpu' = Fresh(c)
        /\ exception_flag' = FALSE
  BY <1>6 DEF Launch
<1>8. Freed(t) \in [Tasks -> BOOLEAN] /\ Freed(t)[t] = TRUE
  BY <1>5 DEF Freed, TypeOK
<1>9. c = t
  <2>1. \A q \in 0..(t - 1) : ~Freed(t)[q]
    <3>1. SUFFICES ASSUME NEW q \in 0..(t - 1) PROVE ~Freed(t)[q]
      OBVIOUS
    <3>2. q \in Terminals /\ q # t /\ q <= t
      BY <1>1, TasksAssumption DEF Terminals
    <3>3. Booted(q)
      BY <1>1, <3>2 DEF BootOrder
    <3>4. q \in Tasks /\ ~phys_addr_available[q]
      BY <3>2, <3>3, BottomShell
    <3>5. Freed(t)[q] = phys_addr_available[q]
      BY <1>5, <3>2, <3>4 DEF Freed, TypeOK
    <3>6. QED
      BY <3>4, <3>5
  <2>2. QED
    BY <1>5, <1>8, <2>1, TasksAssumption DEF LowestFree, Tasks
<1>10. phys_addr_available' = phys_addr_available
  BY <1>5, <1>7, <1>9 DEF Freed, TypeOK
<1>11. Popped(t)[t] = [phys_mem_idx[t] EXCEPT ![0] = None]
  BY <1>1, <1>4 DEF Popped, TypeOK
<1>12. FirstFree(Popped(t)[t]) = 0
  <2>1. IsStack([phys_mem_idx[t] EXCEPT ![n - 1] = None], n - 1)
    BY <1>1, <1>2, Stacks, Pop
  <2>2. QED
    BY <1>4, <1>11, <2>1, StackDepth
<1>13. phys_mem_idx' = phys_mem_idx
  <2>1. phys_mem_idx' = [Popped(t) EXCEPT ![t][0] = t]
    BY <1>7, <1>9, <1>12
  <2>2. Popped(t) = [phys_mem_idx EXCEPT ![t][0] = None]
    BY <1>4 DEF Popped
  <2>3. QED
    BY <1>1, <1>3, <1>5, <2>1, <2>2 DEF TypeOK
<1>14. QED
  BY <1>1, <1>4, <1>5, <1>6, <1>7, <1>9, <1>10, <1>13

(* The same tables and a fresh CPU state satisfy the invariant. *)
LEMMA HaltShell ==
  ASSUME Inv, cpu.at # "idle", Halt,
         ~(Top(curr_running_terminal_idx) >= NumTerminals)
  PROVE  Inv'
<1> DEFINE t == curr_running_terminal_idx
<1>1. t \in Terminals /\ ~flag_first_execute /\ Booted(t) /\ t \in Tasks /\ Top(t) = t
  BY HaltShellTables
<1>2. /\ vid_on' = [vid_on EXCEPT ![t] = 0]
      /\ UNCHANGED <<curr, curr_running_terminal_idx, boot, keys>>
  BY HaltShellTables
<1>3. phys_addr_available' = phys_addr_available
  BY HaltShellTables
<1>4. phys_mem_idx' = phys_mem_idx
  BY HaltShellTables
<1>5. /\ parent' = [[parent EXCEPT ![t] = NoContext] EXCEPT ![t] = Saved(t, parent[t])]
      /\ cpu' = Fresh(t)
      /\ exception_flag' = FALSE
  BY HaltShellTables
<1> USE DEF Inv
<1>6. /\ Saved(t, parent[t]) \in Context
       /\ Fresh(t) \in Context
       /\ Belongs(Fresh(t), t)
       /\ Fresh(t).at = "user"
  BY <1>1, SavedContext, FreshContext DEF TypeOK
<1>7. parent' \in [Tasks -> Context] /\ \A p \in Tasks \ {t} : parent'[p] = parent[p]
  BY <1>1, <1>5, <1>6 DEF TypeOK
<1>8. TypeOK'
  <2>1. overwritten' \subseteq Tasks
    <3>1. RestartStack(t) \subseteq Tasks
      BY <1>1 DEF RestartStack, TypeOK, Context
    <3>2. QED
      BY <3>1, HaltShellTables DEF TypeOK
  <2>2. QED
    BY <1>1, <1>2, <1>5, <1>3, <1>4, <1>6, <1>7, <2>1 DEF TypeOK, boot, keys
<1>9. SlotOwnership' /\ StackShape' /\ BaseShells'
  BY <1>3, <1>4 DEF SlotOwnership, StackShape, BaseShells
<1>10. \A u \in Terminals : Booted(u)' = Booted(u) /\ (Booted(u) => Top(u)' = Top(u))
  BY <1>4, TopUnchanged DEF Booted
<1>11. BootOrder'
  BY <1>1, <1>2, <1>5, <1>4, <1>6, <1>10 DEF BootOrder, boot
<1>12. CpuMatchesRunning'
  BY <1>1, <1>2, <1>5, <1>6, <1>10 DEF CpuMatchesRunning
<1>13. SuspendedResumable'
  BY <1>2, <1>10 DEF SuspendedResumable
<1>14. ParentLinks'
  <2>1. SUFFICES ASSUME NEW u \in Terminals, NEW i \in Tasks \ {0},
                        phys_mem_idx[u][i] # None
                 PROVE  LET p == phys_mem_idx[u][i]
                        IN  /\ Belongs(parent'[p], phys_mem_idx[u][i - 1])
                            /\ parent'[p].at = "exec"
    BY <1>4 DEF ParentLinks, Belongs
  <2> DEFINE p == phys_mem_idx[u][i]
  <2>2. p \in Tasks /\ p >= NumTerminals
    BY <2>1 DEF TypeOK, BaseShells
  <2>3. p # t
    BY <1>1, <2>2, TasksAssumption DEF Terminals, Tasks
  <2>4. QED
    BY <1>7, <2>1, <2>2, <2>3 DEF ParentLinks
<1>15. QED
  BY <1>8, <1>9, <1>11, <1>12, <1>13, <1>14

(* halt, for a program and for a bottom shell. *)
LEMMA HaltStep == ASSUME Inv, cpu.at # "idle", Halt PROVE Inv'
BY HaltProgram, HaltShell

-----------------------------------------------------------------------------
(* Every step keeps the invariant. *)
LEMMA NextInv == ASSUME Inv, Disciplined, [Next]_vars PROVE Inv'
<1>1. CASE Execute
  BY <1>1, ExecuteStep
<1>2. CASE ExecuteFails
  BY <1>2, ExecuteFailsStep
<1>3. CASE SysHalt
  BY <1>3, HaltStep DEF SysHalt, FreeProgram
<1>4. CASE Fault
  BY <1>4, FaultStep
<1>5. CASE RaiseFlag
  BY <1>5, RaiseFlagStep
<1>6. CASE FaultHalt
  BY <1>6, HaltStep DEF FaultHalt
<1>7. CASE ReadStart
  BY <1>7, ReadStartStep
<1>8. CASE ReadDone
  BY <1>8, ReadDoneStep
<1>9. CASE SyscallTail
  BY <1>9, SyscallTailStep
<1>10. CASE ReturnToUser
  BY <1>10, ReturnToUserStep
<1>11. CASE Vidmap
  BY <1>11, VidmapStep
<1>12. CASE \E n \in Terminals : AltF(n)
  BY <1>12, AltFStep
<1>13. CASE Enter
  BY <1>13, EnterStep
<1>14. CASE PIT_interrupt_handler
  BY <1>14, PITFirstStep, PITNextShellStep, PITLastShellStep, PITSwitchStep
  DEF PIT_interrupt_handler
<1>15. CASE UNCHANGED vars
  <2>1. TypeOK'
    BY <1>15 DEF Inv, TypeOK, vars, slots, boot, keys
  <2>2. QED
    BY <1>15, <2>1, CpuAlone DEF vars
<1>16. QED
  BY <1>1, <1>2, <1>3, <1>4, <1>5, <1>6, <1>7, <1>8, <1>9, <1>10, <1>11,
     <1>12, <1>13, <1>14, <1>15 DEF Next

(* The task subsystem keeps its invariant: types, slot ownership, stack    *)
(* shape, boot order, bottom shells, the CPU's stack and directory, the    *)
(* resumable contexts and the parent links.                                *)
THEOREM TasksInvariant == Disciplined => (Spec => []Inv)
<1> SUFFICES ASSUME Disciplined PROVE Spec => []Inv
  OBVIOUS
<1>1. Inv /\ [Next]_vars => Inv'
  BY NextInv
<1>2. QED
  BY <1>1, InitInv, PTL DEF Spec

(* Type correctness of the slot tables, PCBs and flags. *)
THEOREM TypeCorrect == Disciplined => (Spec => []TypeOK)
<1>1. Inv => TypeOK
  BY DEF Inv
<1>2. QED
  BY <1>1, TasksInvariant, PTL

(* The loops over phys_mem_idx find the top of a stack on every terminal:  *)
(* execute, halt and the PIT handler leave no hole.                        *)
THEOREM NoHoles == Disciplined => (Spec => []StackShape)
<1>1. Inv => StackShape
  BY DEF Inv
<1>2. QED
  BY <1>1, TasksInvariant, PTL

(* The PIT handler opens the shells in order, before any other program     *)
(* exists, and the hlt loop of entry() is never resumed.                   *)
THEOREM ShellsInOrder == Disciplined => (Spec => []BootOrder)
<1>1. Inv => BootOrder
  BY DEF Inv
<1>2. QED
  BY <1>1, TasksInvariant, PTL

(* execute and halt never leak a slot or give it to two tasks. *)
THEOREM SlotsOwned == Disciplined => (Spec => []SlotOwnership)
<1>1. Inv => SlotOwnership
  BY DEF Inv
<1>2. QED
  BY <1>1, TasksInvariant, PTL

(* The bottom shell of terminal t is in slot t for ever, so the tests      *)
(* "curr_idx > 2" and "curr_halt < 3" tell shells from programs.           *)
THEOREM ShellsAtBottom == Disciplined => (Spec => []BaseShells)
<1>1. Inv => BaseShells
  BY DEF Inv
<1>2. QED
  BY <1>1, TasksInvariant, PTL

(* tss.esp0, %cr3 and the stack are those of the task that runs. *)
THEOREM CpuCorrect == Disciplined => (Spec => []CpuMatchesRunning)
<1>1. Inv => CpuMatchesRunning
  BY DEF Inv
<1>2. QED
  BY <1>1, TasksInvariant, PTL

(* Every context the PIT handler resumes is one it saved for that task. *)
THEOREM ResumeCorrect == Disciplined => (Spec => []SuspendedResumable)
<1>1. Inv => SuspendedResumable
  BY DEF Inv
<1>2. QED
  BY <1>1, TasksInvariant, PTL

(* halt returns into the execute of the task below. *)
THEOREM ParentsCorrect == Disciplined => (Spec => []ParentLinks)
<1>1. Inv => ParentLinks
  BY DEF Inv
<1>2. QED
  BY <1>1, TasksInvariant, PTL

-----------------------------------------------------------------------------
(* Isolation of terminals.                                                 *)

(* Two started terminals have different top tasks. *)
LEMMA TopsDiffer ==
  ASSUME Inv, NEW t \in Terminals, NEW u \in Terminals, Booted(t), Booted(u), t # u
  PROVE  Top(t) # Top(u)
<1> DEFINE n == FirstFree(phys_mem_idx[t])
<1> DEFINE m == FirstFree(phys_mem_idx[u])
<1>1. n - 1 \in Tasks /\ Top(t) = phys_mem_idx[t][n - 1] /\ Top(t) \in Tasks
  BY TopOfBooted DEF Inv
<1>2. m - 1 \in Tasks /\ Top(u) = phys_mem_idx[u][m - 1]
  BY TopOfBooted DEF Inv
<1>3. Top(t) # None
  BY <1>1, TasksAssumption DEF Tasks, None
<1>4. QED
  BY <1>1, <1>2, <1>3 DEF Inv, SlotOwnership

(* A terminal other than the running one keeps its table when execute or   *)
(* halt work for the running one or open a shell elsewhere.                *)
LEMMA LaunchElsewhere ==
  ASSUME NEW u \in Terminals, NEW t \in Terminals, t # u,
         NEW avail, NEW mem \in [Terminals -> [Tasks -> Tasks \cup {None}]],
         NEW par, NEW caller, Launch(u, avail, mem, par, caller)
  PROVE  phys_mem_idx'[t] = mem[t]
BY DEF Launch

(* A bottom shell was executed first on the kernel stack of the shell      *)
(* before it, or on the boot stack (None is -1), and every restart keeps   *)
(* that place.                                                             *)
RestartStacks == \A t \in Terminals : Booted(t) => parent[t].stack = t - 1

(* Before the first PIT interrupt the CPU is on the boot stack.            *)
BootStack == flag_first_execute => cpu.stack = None

(* Steps that neither open nor restart a shell leave the bottom shells'    *)
(* parent fields alone: programs have slots of their own.                  *)
LEMMA ShellParentsKept ==
  ASSUME RestartStacks,
         \A t \in Terminals : Booted(t)' => Booted(t),
         \A t \in Terminals : parent'[t] = parent[t]
  PROVE  RestartStacks'
BY DEF RestartStacks

(* execute for a program, when all shells are open, takes a slot above the *)
(* shells' and stores its parent fields there.                             *)
LEMMA ExecuteRestartStacks ==
  ASSUME Inv, Disciplined, RestartStacks, Execute PROVE RestartStacks'
<1> DEFINE r == curr_running_terminal_idx
<1> USE DEF Inv
<1>1. flag /\ cpu.at # "idle"
  BY DEF Execute, FreeProgram, Disciplined
<1>2. \A t \in Terminals : Booted(t)
  BY <1>1, InTask DEF BootOrder
<1>3. PICK c \in LowestFree(phys_addr_available) :
        parent' = [parent EXCEPT ![c] = Saved(c, Kernel("exec"))]
  BY DEF Execute, Launch
<1>4. \A t \in Terminals : t \in Tasks /\ t # c
  BY <1>2, <1>3, BottomShell DEF LowestFree
<1>5. QED
  BY <1>2, <1>3, <1>4, ShellParentsKept DEF TypeOK

(* halt of a program clears its own parent fields; halt of a bottom shell  *)
(* stores its old place again.                                             *)
LEMMA HaltRestartStacks ==
  ASSUME Inv, RestartStacks, cpu.at # "idle", Halt PROVE RestartStacks'
<1> DEFINE r == curr_running_terminal_idx
<1> USE DEF Inv
<1>1. \A t \in Terminals : t \in Tasks
  BY TasksAssumption DEF Terminals, Tasks
<1>2. CASE Top(r) >= NumTerminals
  <2>1. /\ r \in Terminals
        /\ FirstFree(phys_mem_idx[r]) - 1 # 0
        /\ parent' = [parent EXCEPT ![Top(r)] = NoContext]
        /\ Top(r) \in Tasks
        /\ 0 \in Tasks
        /\ \A u \in Terminals : \A i \in Tasks :
             (u # r \/ i # FirstFree(phys_mem_idx[r]) - 1)
               => phys_mem_idx'[u][i] = phys_mem_idx[u][i]
    BY <1>2, HaltProgramTables
  <2>2. \A t \in Terminals : Booted(t)' => Booted(t)
    BY <2>1 DEF Booted
  <2>3. \A t \in Terminals : parent'[t] = parent[t]
    BY <1>1, <1>2, <2>1, TasksAssumption DEF TypeOK, Terminals
  <2>4. QED
    BY <2>2, <2>3, ShellParentsKept
<1>3. CASE ~(Top(r) >= NumTerminals)
  <2>1. /\ r \in Terminals
        /\ Booted(r)
        /\ phys_mem_idx' = phys_mem_idx
        /\ parent' = [[parent EXCEPT ![r] = NoContext] EXCEPT ![r] = Saved(r, parent[r])]
    BY <1>3, HaltShellTables
  <2>2. \A t \in Terminals : parent'[t].stack = parent[t].stack
    BY <1>1, <2>1 DEF TypeOK, Saved
  <2>3. QED
    BY <2>1, <2>2 DEF RestartStacks, Booted
<1>4. QED
  BY <1>2, <1>3

(* The PIT handler opens shell u from the stack it was entered on, which   *)
(* is that of the shell before.                                            *)
LEMMA OpenRestartStacks ==
  ASSUME Inv, RestartStacks, NEW u \in Terminals, NEW caller \in Context,
         caller.stack = u - 1,
         ~flag,
         \A w \in Terminals : Booted(w) <=> w < u,
         Launch(u, phys_addr_available, phys_mem_idx, parent, caller)
  PROVE  RestartStacks'
<1> USE DEF Inv
<1>1. /\ LowestFree(phys_addr_available) = {u}
      /\ u \in Tasks
      /\ \A w \in Terminals \ {u} : phys_mem_idx'[w] = phys_mem_idx[w]
  BY OpenShellTables
<1>2. parent' = [parent EXCEPT ![u] = Saved(u, caller)]
  BY <1>1 DEF Launch
<1>3. parent'[u].stack = u - 1
  BY <1>1, <1>2 DEF TypeOK, Saved
<1>4. \A w \in Terminals \ {u} : parent'[w] = parent[w]
  BY <1>1, <1>2, TasksAssumption DEF TypeOK, Terminals, Tasks
<1>5. QED
  BY <1>1, <1>3, <1>4 DEF RestartStacks, Booted

(* The first PIT interrupt ends the hlt loop, and only Alt+F and Enter     *)
(* come before it.                                                         *)
LEMMA NextBootStack ==
  ASSUME Inv, BootStack, [Next]_vars PROVE BootStack'
<1>1. SUFFICES ASSUME flag_first_execute' PROVE cpu'.stack = None
  BY DEF BootStack
<1>2. CASE ~flag_first_execute
  BY <1>1, <1>2
  DEF Next, vars, boot, PIT_interrupt_handler, PITFirst, PITNextShell, PITLastShell,
      PITSwitch, Execute, ExecuteFails, SysHalt, FaultHalt, Halt, Fault, RaiseFlag,
      ReadStart, ReadDone, SyscallTail, ReturnToUser, Vidmap, AltF, Enter
<1>3. CASE flag_first_execute
  <2>1. cpu.at = "idle"
    BY <1>3 DEF Inv, BootOrder
  <2>2. cpu' = cpu
    BY <1>1, <1>3, <2>1
    DEF Next, vars, PIT_interrupt_handler, PITFirst, PITNextShell, PITLastShell,
        PITSwitch, Execute, ExecuteFails, SysHalt, FaultHalt, FreeProgram, Fault,
        RaiseFlag, ReadStart, ReadDone, SyscallTail, ReturnToUser, Vidmap, AltF, Enter
  <2>3. QED
    BY <1>3, <2>2 DEF BootStack
<1>4. QED
  BY <1>2, <1>3

(* Every step keeps the places from which the shells are restarted. *)
LEMMA NextRestartStacks ==
  ASSUME Inv, Disciplined, RestartStacks, BootStack, [Next]_vars PROVE RestartStacks'
<1> DEFINE r == curr_running_terminal_idx
<1> USE DEF Inv
<1>1. CASE UNCHANGED slots
  BY <1>1 DEF slots, RestartStacks, Booted
<1>2. CASE Execute
  BY <1>2, ExecuteRestartStacks
<1>3. CASE SysHalt \/ FaultHalt
  BY <1>3, HaltRestartStacks DEF SysHalt, FaultHalt, FreeProgram
<1>4. CASE PITFirst
  <2>1. 0 \in Terminals /\ ~flag
    BY <1>4, TasksAssumption DEF PITFirst, BootOrder, Terminals
  <2>2. \A w \in Terminals : Booted(w) <=> w < 0
    BY <1>4 DEF PITFirst, BootOrder, Terminals
  <2>3. cpu \in Context /\ cpu.stack = 0 - 1
    BY <1>4 DEF PITFirst, TypeOK, BootStack, None
  <2>4. QED
    BY <1>4, <2>1, <2>2, <2>3, OpenRestartStacks DEF PITFirst
<1>5. CASE PITNextShell
  <2>1. ~flag /\ ~flag_first_execute
    BY <1>5 DEF PITNextShell, Switches
  <2>2. r \in Terminals /\ r + 1 \in Terminals
    BY <1>5, TasksAssumption DEF PITNextShell, TypeOK, Terminals
  <2>3. \A w \in Terminals : Booted(w) <=> w < r + 1
    BY <2>1, <2>2 DEF BootOrder, Terminals
  <2>4. Top(r) = r
    BY <2>1, <2>2, <2>3, BootTop DEF Terminals
  <2>5. cpu \in Context /\ cpu.stack = (r + 1) - 1
    BY <2>1, <2>2, <2>4 DEF CpuMatchesRunning, Belongs, TypeOK, Terminals
  <2>6. QED
    BY <1>5, <2>1, <2>2, <2>3, <2>5, OpenRestartStacks DEF PITNextShell
<1>6. QED
  BY <1>1, <1>2, <1>3, <1>4, <1>5
  DEF Next, vars, PIT_interrupt_handler, PITLastShell, PITSwitch, ExecuteFails, Fault,
      RaiseFlag, ReadStart, ReadDone, SyscallTail, ReturnToUser, Vidmap, AltF, Enter

(* Frames are overwritten only when a bottom shell is restarted, and then  *)
(* those of the shell of the terminal before.                              *)
LEMMA OverwritesNeighbour ==
  ASSUME Inv, RestartStacks, [Next]_vars, NEW t \in Terminals, NEW i \in Tasks,
         phys_mem_idx[t][i] \in overwritten' \ overwritten
  PROVE  phys_mem_idx[t][i] = t /\ NeighbourRestarts(t)
<1> DEFINE r == curr_running_terminal_idx
<1> DEFINE p == phys_mem_idx[t][i]
<1> USE DEF Inv
<1>1. SysHalt \/ FaultHalt
  BY DEF Next, vars, PIT_interrupt_handler, PITFirst, PITNextShell, PITLastShell,
         PITSwitch, Execute, ExecuteFails, Fault, RaiseFlag, ReadStart, ReadDone,
         SyscallTail, ReturnToUser, Vidmap, AltF, Enter
<1>2. cpu.at # "idle" /\ Halt
  BY <1>1 DEF SysHalt, FaultHalt, FreeProgram
<1>3. ~(Top(r) >= NumTerminals)
  <2>1. SUFFICES ASSUME Top(r) >= NumTerminals PROVE FALSE
    OBVIOUS
  <2>2. overwritten' = overwritten
    BY <1>2, <2>1, HaltProgramTables
  <2>3. QED
    BY <2>2
<1>4. /\ r \in Terminals
      /\ Booted(r)
      /\ Top(r) = r
      /\ overwritten' \in {overwritten, overwritten \cup RestartStack(r)}
  BY <1>2, <1>3, HaltShellTables
<1>5. p = r - 1 /\ p # None
  BY <1>4 DEF RestartStack, RestartStacks
<1>6. p = t
  BY <1>4, <1>5, TasksAssumption DEF BaseShells, Terminals
<1>7. r = t + 1
  BY <1>4, <1>5, <1>6, TasksAssumption DEF Terminals
<1>8. QED
  BY <1>1, <1>4, <1>6, <1>7 DEF NeighbourRestarts

(* Every step leaves the terminals it does not run on alone, except that a *)
(* restart may overwrite frames of the neighbour's shell.                  *)
LEMMA IsolationStep ==
  ASSUME Inv, RestartStacks, [Next]_vars PROVE [OthersUntouched]_vars
<1> DEFINE r == curr_running_terminal_idx
<1> SUFFICES ASSUME NEW t \in Terminals \ {r, r'}
             PROVE  /\ phys_mem_idx'[t] = phys_mem_idx[t]
                    /\ Booted(t) => curr'[Top(t)] = curr[Top(t)]
  BY OverwritesNeighbour DEF OthersUntouched
<1> USE DEF Inv
<1>1. r \in Terminals /\ phys_mem_idx \in [Terminals -> [Tasks -> Tasks \cup {None}]]
  BY DEF TypeOK
<1>2. CASE UNCHANGED <<slots, curr>>
  BY <1>2 DEF slots
<1>3. CASE Execute
  BY <1>1, <1>3, LaunchElsewhere DEF Execute
<1>4. CASE Halt
  <2>1. Popped(r)[t] = phys_mem_idx[t]
    BY <1>1 DEF Popped
  <2>2. \/ Launch(r, Freed(Top(r)), Popped(r), [parent EXCEPT ![Top(r)] = NoContext],
                  parent[Top(r)])
        \/ phys_mem_idx' = Popped(r)
    BY <1>4 DEF Halt
  <2>3. Popped(r) \in [Terminals -> [Tasks -> Tasks \cup {None}]]
    BY <1>1 DEF Popped
  <2>4. phys_mem_idx'[t] = Popped(r)[t]
    BY <1>1, <2>2, <2>3, LaunchElsewhere
  <2>5. QED
    BY <1>4, <2>1, <2>4 DEF Halt
<1>5. CASE PITFirst
  <2>1. 0 \in Terminals /\ r = 0
    BY <1>5, TasksAssumption DEF PITFirst, BootOrder, Terminals
  <2>2. QED
    BY <1>1, <1>5, <2>1, LaunchElsewhere DEF PITFirst
<1>6. ASSUME ~flag_first_execute, curr' = SavedIn(Top(r))
      PROVE  Booted(t) => curr'[Top(t)] = curr[Top(t)]
  <2>1. SUFFICES ASSUME Booted(t) PROVE curr'[Top(t)] = curr[Top(t)]
    OBVIOUS
  <2>2. Booted(r)
    BY <1>6, RunningBooted
  <2>3. Top(t) # Top(r) /\ Top(t) \in Tasks
    BY <1>1, <2>1, <2>2, TopsDiffer, TopOfBooted
  <2>4. QED
    BY <1>6, <2>3 DEF SavedIn, TypeOK
<1>7. ASSUME ~flag_first_execute, ~flag
      PROVE  Top(r) = phys_mem_idx[r][0]
  BY <1>1, <1>7, RunningBooted, BootTop, BottomShell
<1>8. CASE PITNextShell
  <2>1. r' = r + 1 /\ r + 1 \in Terminals
    BY <1>1, <1>8, TasksAssumption DEF PITNextShell, Terminals
  <2>2. phys_mem_idx'[t] = phys_mem_idx[t]
    BY <1>1, <1>8, <2>1, LaunchElsewhere DEF PITNextShell
  <2>3. QED
    BY <1>6, <1>7, <1>8, <2>2 DEF PITNextShell, Switches
<1>9. CASE PITLastShell
  BY <1>6, <1>7, <1>9 DEF PITLastShell, Switches, slots
<1>10. CASE PITSwitch
  BY <1>6, <1>10 DEF PITSwitch, slots
<1>11. QED
  BY <1>2, <1>3, <1>4, <1>5, <1>8, <1>9, <1>10
  DEF Next, vars, PIT_interrupt_handler, SysHalt, FaultHalt, ExecuteFails, Fault,
      RaiseFlag, ReadStart, ReadDone, SyscallTail, ReturnToUser, Vidmap, AltF, Enter

(* No step touches the tasks or the saved context of a terminal that       *)
(* neither runs before nor after it, or what its tasks have on their       *)
(* kernel stacks, except the restart of the bottom shell of terminal t + 1 *)
(* (halt's jump to halt_ebp + 8): it reaches the shell of terminal t, and  *)
(* no other task.                                                          *)
THEOREM TerminalsIsolated == Disciplined => (Spec => Isolation)
<1> SUFFICES ASSUME Disciplined PROVE Spec => Isolation
  OBVIOUS
<1>1. Init => RestartStacks /\ BootStack
  BY TasksAssumption DEF Init, RestartStacks, BootStack, Booted, Tasks
<1>2. Inv /\ RestartStacks /\ BootStack /\ [Next]_vars => RestartStacks' /\ BootStack'
  BY NextRestartStacks, NextBootStack
<1>3. Inv /\ RestartStacks /\ [Next]_vars => [OthersUntouched]_vars
  BY IsolationStep
<1>4. QED
  BY <1>1, <1>2, <1>3, TasksInvariant, PTL DEF Spec, Isolation
=============================================================================
