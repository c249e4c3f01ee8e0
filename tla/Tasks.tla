-------------------------------- MODULE Tasks --------------------------------
(***************************************************************************)
(* The task subsystem of the kernel: the six program slots, the three      *)
(* terminals that own them, execute and halt, the exception handlers, the  *)
(* PIT handler that boots one shell per terminal and then switches between *)
(* terminals, and vidmap (system_call_handler.c, pit.c, page.c,            *)
(* interrupt_desc_table.c, terminal_init in terminal.c).                   *)
(*                                                                         *)
(* There is one CPU.  execute pushes EFLAGS after cli, so a program runs   *)
(* with interrupts disabled and a system call enters through an interrupt  *)
(* gate: a system call is one atomic step up to the sti it may execute.    *)
(* Interrupts are taken only at the program points of Interruptible.       *)
(*                                                                         *)
(* An address is named by the task it belongs to: esp0 = p stands for      *)
(* EIGHTMB - p*EIGHTKB, stack = p for a stack pointer into that kernel     *)
(* stack, cr3 = i for pde_arr[i] (task p uses directory p+1, the boot      *)
(* directory is 0).  What lies on a kernel stack is not modelled, but for  *)
(* one thing: overwritten names the tasks whose frames another task's      *)
(* execute has overwritten.  To resume such frames is undefined; the model *)
(* goes on as if they were intact, so that what the properties say of      *)
(* later states is said of the tables and registers only.                  *)
(***************************************************************************)
EXTENDS Integers

CONSTANTS NumTerminals,     \* 3 in the code, also written "> 2" and "< 3"
          NumTasks,         \* SIX: program slots, entries of phys_mem_idx
          EarlyInput,       \* may a line be entered before all shells are open?
          VidmapCallers     \* which tasks call vidmap: those whose terminal is
                            \* on the screen, those whose terminal is hidden

ASSUME TasksAssumption ==
  /\ NumTerminals \in Nat \ {0}
  /\ NumTasks \in Nat
  /\ NumTasks >= NumTerminals
  /\ EarlyInput \in BOOLEAN
  /\ VidmapCallers \subseteq {"foreground", "background"}

Terminals == 0..(NumTerminals - 1)
Tasks == 0..(NumTasks - 1)
None == -1

(***************************************************************************)
(* A context is what a switch saves and loads: tss.esp0, %cr3 and the      *)
(* stack pointer pair, which is a kernel stack and a program point on it.  *)
(***************************************************************************)
Points == {"none",     \* PCB fields never written, or cleared by halt
           "idle",     \* the hlt loop of entry(), before the first PIT interrupt
           "user",     \* ring 3, IF = 0
           "read",     \* spinning on typing_finish in terminal_read
           "tail",     \* back from a device call that ended with sti
           "print",    \* an exception handler inside printf
           "flagged",  \* after exception_flag = ONE, before halt's cli
           "exec"}     \* inside execute, the child is running

(* Where IF = 1 and IRQ 0 is unmasked.  Every gate that idt_init sets up,  *)
(* for exceptions, interrupts and system calls, is an interrupt gate: the  *)
(* handler starts with IF = 0, and these are the points after a sti.       *)
Interruptible == {"idle", "read", "tail", "print", "flagged"}

Context == [esp0 : Tasks \cup {None}, cr3 : 0..NumTasks,
            stack : Tasks \cup {None}, at : Points]

NoContext == [esp0 |-> None, cr3 |-> 0, stack |-> None, at |-> "none"]

VARIABLES
  phys_addr_available,        \* is slot p free?
  phys_mem_idx,               \* terminals[t].phys_mem_idx, a stack of task slots
  parent,                     \* PCB parent_esp0, parent_PDBR, parent_esp/ebp
  curr,                       \* PCB curr_esp0, curr_PDBR, curr_esp/ebp
  cpu,                        \* tss.esp0, %cr3, %esp and the program point
  curr_running_terminal_idx,  \* the terminal the CPU works for
  flag_first_execute,         \* no shell has been started yet
  flag,                       \* all shells have been started
  exception_flag,             \* set by the exception handlers
  curr_terminal_idx,          \* the terminal on the screen
  typing_finish,              \* terminals[t].typing_finish
  vid_on,                     \* terminals[t].vid_on
  overwritten                 \* history: tasks whose frames were overwritten

slots == <<phys_addr_available, phys_mem_idx, parent>>
boot == <<flag_first_execute, flag>>
keys == <<curr_terminal_idx, typing_finish>>
vars == <<slots, curr, cpu, curr_running_terminal_idx, boot, exception_flag,
          keys, vid_on, overwritten>>

-----------------------------------------------------------------------------
(* The loop "for (i=0; i<SIX; i++) if (phys_mem_idx[i] == -1) break;". *)
FirstFree(s) ==
  CHOOSE n \in 0..NumTasks :
    /\ \A i \in 0..(n - 1) : s[i] # None
    /\ n < NumTasks => s[n] = None

(* phys_mem_idx[i-1] after that loop.  For i = 0 the read falls on the     *)
(* word in front of the array in terminal_t, which is vid_on.              *)
TopOf(s, below) == IF FirstFree(s) = 0 THEN below ELSE s[FirstFree(s) - 1]
Top(t) == TopOf(phys_mem_idx[t], vid_on[t])

(* A system call or exception from ring 3 runs on the stack tss.esp0 names. *)
Kernel(point) == [cpu EXCEPT !.stack = cpu.esp0, !.at = point]

(* Mutant: the directory index is one too high. *)
DirectoryOffByOne(p) == p + 2

(* The page directory that set_page fills for task p and loads. *)
Directory(p) == p + 1

(* What execute loads before its iret. *)
Fresh(c) == [esp0 |-> c, cr3 |-> Directory(c), stack |-> c, at |-> "user"]

(* Mutant: parent_PDBR is read after set_page has loaded the new directory. *)
SavedAfterSetPage(c, caller) ==
  [esp0  |-> IF c >= NumTerminals THEN caller.esp0 ELSE c,
   cr3   |-> Directory(c),
   stack |-> caller.stack,
   at    |-> "exec"]

(* Mutant: parent_esp0 is the task's own kernel stack for every slot. *)
SavedOwnEsp0(c, caller) ==
  [esp0  |-> c,
   cr3   |-> IF c >= NumTerminals THEN caller.cr3 ELSE Directory(c),
   stack |-> caller.stack,
   at    |-> "exec"]

(* What execute saves in the PCB of slot c.  A slot below NumTerminals is  *)
(* taken for the bottom shell of a terminal and is its own parent, except  *)
(* for the stack pointer.                                                  *)
Saved(c, caller) ==
  [esp0  |-> IF c >= NumTerminals THEN caller.esp0 ELSE c,
   cr3   |-> IF c >= NumTerminals THEN caller.cr3 ELSE Directory(c),
   stack |-> caller.stack,
   at    |-> "exec"]

-----------------------------------------------------------------------------
(* terminal_init, PIT_init and the boot of entry(): tss.esp0 is 0x800000,   *)
(* which is the top of kernel stack 0, and %esp is the boot stack.         *)
Init ==
  /\ phys_addr_available = [p \in Tasks |-> TRUE]
  /\ phys_mem_idx = [t \in Terminals |-> [i \in Tasks |-> None]]
  /\ parent = [p \in Tasks |-> NoContext]
  /\ curr = [p \in Tasks |-> NoContext]
  /\ cpu = [esp0 |-> 0, cr3 |-> 0, stack |-> None, at |-> "idle"]
  /\ curr_running_terminal_idx = 0
  /\ flag_first_execute = TRUE
  /\ flag = FALSE
  /\ exception_flag = FALSE
  /\ curr_terminal_idx = 0
  /\ typing_finish = [t \in Terminals |-> FALSE]
  /\ vid_on = [t \in Terminals |-> 0]
  /\ overwritten = {}

-----------------------------------------------------------------------------
(* execute and halt.                                                       *)

(* A program in ring 3 may do anything, once the boot is over.  The program *)
(* that runs during boot is the shell, which writes its prompt and reads,  *)
(* and does nothing else before a line has been entered.                   *)
FreeProgram == cpu.at = "user" /\ (flag \/ EarlyInput)

(* Mutant: the last free slot. *)
HighestFree(avail) ==
  {c \in Tasks : avail[c] /\ \A q \in (c + 1)..(NumTasks - 1) : ~avail[q]}

(* The first slot that phys_addr_available offers. *)
LowestFree(avail) ==
  {c \in Tasks : avail[c] /\ \A q \in 0..(c - 1) : ~avail[q]}

(* The part of execute after its checks, for terminal t, from the slot     *)
(* tables in the arguments.  caller is the CPU state at the call.          *)
Launch(t, avail, mem, par, caller) ==
  \E c \in LowestFree(avail) :
    /\ phys_addr_available' = [avail EXCEPT ![c] = FALSE]
    /\ phys_mem_idx' = [mem EXCEPT ![t][FirstFree(mem[t])] = c]
    /\ parent' = [par EXCEPT ![c] = Saved(c, caller)]
    /\ cpu' = Fresh(c)
    /\ exception_flag' = FALSE

(* System call execute with the name of an executable file. *)
Execute ==
  /\ FreeProgram
  /\ Launch(curr_running_terminal_idx, phys_addr_available, phys_mem_idx,
            parent, Kernel("exec"))
  /\ UNCHANGED <<curr, curr_running_terminal_idx, boot, keys, vid_on, overwritten>>

(* execute returns -1: no such file, not an executable, or no free slot.   *)
ExecuteFails ==
  /\ FreeProgram
  /\ exception_flag' = FALSE
  /\ UNCHANGED <<slots, curr, cpu, curr_running_terminal_idx, boot, keys, vid_on, overwritten>>

(* The value in %eax when execute returns to the parent: halt replaces the *)
(* status by 255 and then adds exception_flag.                             *)
HaltValue(status) == IF exception_flag THEN 255 + 1 ELSE status

(* Mutant: phys_addr_available[curr_halt] = ONE is missing. *)
NotFreed(h) == phys_addr_available

(* The slot tables after halt of task h on top of terminal t. *)
Freed(h) == [phys_addr_available EXCEPT ![h] = TRUE]

(* Mutants: halt clears the bottom entry; halt clears the top entry of the *)
(* terminal on the screen.                                                 *)
PoppedBottom(t) == [phys_mem_idx EXCEPT ![t][0] = None]
PoppedDisplayed(t) ==
  [phys_mem_idx EXCEPT
     ![curr_terminal_idx][FirstFree(phys_mem_idx[curr_terminal_idx]) - 1] = None]

Popped(t) == [phys_mem_idx EXCEPT ![t][FirstFree(phys_mem_idx[t]) - 1] = None]

(* A bottom shell is executed again from esp = halt_ebp + 8, where it was  *)
(* executed first.  For shell h > 0 that is inside the PIT handler's frame *)
(* on the kernel stack of shell h - 1; for shell 0 it is on the boot       *)
(* stack, whose memory is kernel stack 0.                                  *)
RestartStack(h) == {parent[h].stack} \ {None, h}

(* halt: pop the top task h of the running terminal t.  The bottom shell   *)
(* is executed again, anything else returns into its parent's execute. The *)
(* new execute overwrites what its stack holds below that place: frames of *)
(* a task that is suspended or waits in execute, if they reach further     *)
(* down than when the shell was executed first.  How far they reach        *)
(* depends on where each was interrupted and on the compiler.              *)
Halt ==
  LET t     == curr_running_terminal_idx
      h     == Top(t)
      par   == [parent EXCEPT ![h] = NoContext]
  IN  /\ vid_on' = [vid_on EXCEPT ![t] = 0]
      /\ \/ /\ h < NumTerminals
            /\ Launch(t, Freed(h), Popped(t), par, parent[h])
            /\ overwritten' \in {overwritten, overwritten \cup RestartStack(h)}
         \/ /\ h >= NumTerminals
            /\ phys_addr_available' = Freed(h)
            /\ phys_mem_idx' = Popped(t)
            /\ parent' = par
            /\ cpu' = [parent[h] EXCEPT !.at = "user"]
            /\ UNCHANGED <<exception_flag, overwritten>>
      /\ UNCHANGED <<curr, curr_running_terminal_idx, boot, keys>>

SysHalt == FreeProgram /\ Halt

(* The exception handlers: printf, exception_flag = ONE, halt(0).  printf  *)
(* enables interrupts, so each of the three is a step.                     *)
Fault ==
  /\ FreeProgram
  /\ cpu' = Kernel("print")
  /\ UNCHANGED <<slots, curr, curr_running_terminal_idx, boot, exception_flag,
                 keys, vid_on, overwritten>>

RaiseFlag ==
  /\ cpu.at = "print"
  /\ exception_flag' = TRUE
  /\ cpu' = [cpu EXCEPT !.at = "flagged"]
  /\ UNCHANGED <<slots, curr, curr_running_terminal_idx, boot, keys, vid_on, overwritten>>

FaultHalt == cpu.at = "flagged" /\ Halt

-----------------------------------------------------------------------------
(* Device system calls, as far as they let interrupts in.                  *)

(* terminal_read: sti, then the loop on typing_finish of the running       *)
(* terminal, then cli and typing_finish = 0.                               *)
ReadStart ==
  /\ cpu.at = "user"
  /\ cpu' = Kernel("read")
  /\ UNCHANGED <<slots, curr, curr_running_terminal_idx, boot, exception_flag,
                 keys, vid_on, overwritten>>

(* Mutant: the loop looks at the terminal on the screen. *)
DisplayedLineReady == typing_finish[curr_terminal_idx]

LineReady == typing_finish[curr_running_terminal_idx]

ReadDone ==
  /\ cpu.at = "read"
  /\ LineReady
  /\ typing_finish' = [typing_finish EXCEPT ![curr_running_terminal_idx] = FALSE]
  /\ cpu' = [cpu EXCEPT !.at = "user"]
  /\ UNCHANGED <<slots, curr, curr_running_terminal_idx, boot, exception_flag,
                 curr_terminal_idx, vid_on, overwritten>>

(* terminal_write, RTC_read, RTC_write and getargs return with interrupts  *)
(* enabled; the iret of syscall_handler disables them again.               *)
SyscallTail ==
  /\ cpu.at = "user"
  /\ cpu' = Kernel("tail")
  /\ UNCHANGED <<slots, curr, curr_running_terminal_idx, boot, exception_flag,
                 keys, vid_on, overwritten>>

ReturnToUser ==
  /\ cpu.at = "tail"
  /\ cpu' = [cpu EXCEPT !.at = "user"]
  /\ UNCHANGED <<slots, curr, curr_running_terminal_idx, boot, exception_flag,
                 keys, vid_on, overwritten>>

(* set_page_1 maps the video window in the directory of task v and loads   *)
(* that directory.                                                         *)
SetPage1(v) == cpu' = [cpu EXCEPT !.cr3 = Directory(v)]

(* vidmap finds its task and its terminal through curr_terminal_idx. *)
Vidmap ==
  LET v == Top(curr_terminal_idx)
  IN  /\ FreeProgram
      /\ IF curr_terminal_idx = curr_running_terminal_idx
         THEN "foreground" \in VidmapCallers
         ELSE "background" \in VidmapCallers
      /\ vid_on' = [vid_on EXCEPT ![curr_terminal_idx] = 1]
      /\ SetPage1(v)
      /\ UNCHANGED <<slots, curr, curr_running_terminal_idx, boot,
                     exception_flag, keys, overwritten>>

-----------------------------------------------------------------------------
(* Interrupts.                                                             *)

(* Keyboard: Alt+F1..F3 and Enter. *)
AltF(n) ==
  /\ cpu.at \in Interruptible
  /\ curr_terminal_idx' = n
  /\ UNCHANGED <<slots, curr, cpu, curr_running_terminal_idx, boot,
                 exception_flag, typing_finish, vid_on, overwritten>>

Enter ==
  /\ cpu.at \in Interruptible
  /\ flag \/ EarlyInput
  /\ typing_finish' = [typing_finish EXCEPT ![curr_terminal_idx] = TRUE]
  /\ UNCHANGED <<slots, curr, cpu, curr_running_terminal_idx, boot,
                 exception_flag, curr_terminal_idx, vid_on, overwritten>>

(* Mutant: curr_esp0 = tss.esp0 is missing. *)
SavedInWithoutEsp0(p) == [curr EXCEPT ![p] = [cpu EXCEPT !.esp0 = curr[p].esp0]]

(* Mutant: the switch saves in the bottom shell's PCB, as the boot does. *)
SavedInBottom(p) ==
  [curr EXCEPT ![phys_mem_idx[curr_running_terminal_idx][0]] = cpu]

(* The interrupted context goes to the PCB of task p. *)
SavedIn(p) == [curr EXCEPT ![p] = cpu]

(* The loop over entries 1..SIX-1 of the running terminal found a task, or *)
(* flag is set: the handler switches instead of starting a shell.          *)
Switches ==
  \/ flag
  \/ \E i \in Tasks \ {0} : phys_mem_idx[curr_running_terminal_idx][i] # None

(* Mutant: flag_first_execute is not cleared. *)
PITFirstAgain ==
  /\ cpu.at \in Interruptible
  /\ flag_first_execute
  /\ Launch(0, phys_addr_available, phys_mem_idx, parent, cpu)
  /\ UNCHANGED <<curr, curr_running_terminal_idx, boot, keys, vid_on, overwritten>>

(* First PIT interrupt: the shell of terminal 0. *)
PITFirst ==
  /\ cpu.at \in Interruptible
  /\ flag_first_execute
  /\ flag_first_execute' = FALSE
  /\ Launch(0, phys_addr_available, phys_mem_idx, parent, cpu)
  /\ UNCHANGED <<curr, curr_running_terminal_idx, flag, keys, vid_on, overwritten>>

(* Save the interrupted shell, move to the next terminal and execute a     *)
(* shell there, on the stack of the interrupted one.                       *)
PITNextShell ==
  LET t == curr_running_terminal_idx
  IN  /\ cpu.at \in Interruptible
      /\ ~flag_first_execute
      /\ ~Switches
      /\ t # NumTerminals - 1
      /\ curr' = SavedIn(phys_mem_idx[t][0])
      /\ curr_running_terminal_idx' = t + 1
      /\ Launch(t + 1, phys_addr_available, phys_mem_idx, parent, cpu)
      /\ UNCHANGED <<boot, keys, vid_on, overwritten>>

(* The last shell is up: set flag and resume the task of slot 0. *)
PITLastShell ==
  LET t == curr_running_terminal_idx
  IN  /\ cpu.at \in Interruptible
      /\ ~flag_first_execute
      /\ ~Switches
      /\ t = NumTerminals - 1
      /\ flag' = TRUE
      /\ curr' = SavedIn(phys_mem_idx[t][0])
      /\ curr_running_terminal_idx' = 0
      /\ cpu' = curr'[0]
      /\ UNCHANGED <<slots, flag_first_execute, exception_flag, keys, vid_on, overwritten>>

(* Mutant: the handler resumes the terminal on the screen. *)
DisplayedTerminal(t) == curr_terminal_idx

NextTerminal(t) == (t + 1) % NumTerminals

(* Round robin: save the top task of the running terminal, resume the top  *)
(* task of the next one.                                                   *)
PITSwitch ==
  LET t == curr_running_terminal_idx
      u == NextTerminal(t)
  IN  /\ cpu.at \in Interruptible
      /\ ~flag_first_execute
      /\ Switches
      /\ curr' = SavedIn(Top(t))
      /\ curr_running_terminal_idx' = u
      /\ cpu' = curr'[Top(u)]
      /\ UNCHANGED <<slots, boot, exception_flag, keys, vid_on, overwritten>>

PIT_interrupt_handler == PITFirst \/ PITNextShell \/ PITLastShell \/ PITSwitch

-----------------------------------------------------------------------------
Next ==
  \/ Execute \/ ExecuteFails \/ SysHalt
  \/ Fault \/ RaiseFlag \/ FaultHalt
  \/ ReadStart \/ ReadDone \/ SyscallTail \/ ReturnToUser \/ Vidmap
  \/ \E n \in Terminals : AltF(n)
  \/ Enter
  \/ PIT_interrupt_handler

Spec == Init /\ [][Next]_vars

(* The 8259 latches IRQ 0, so a tick that finds interrupts disabled is     *)
(* taken at the next sti: strong fairness.  A time slice of 50 ms is long  *)
(* enough for a task in the kernel to take its next step: strong fairness  *)
(* of the kernel steps of each terminal.  A program runs with interrupts   *)
(* disabled; that it ever makes a call that enables them is an assumption  *)
(* on programs, which the kernel does not enforce.                         *)
KernelStep == ReadDone \/ RaiseFlag \/ FaultHalt \/ ReturnToUser
DeviceCall == ReadStart \/ SyscallTail

Fairness ==
  /\ SF_vars(PIT_interrupt_handler)
  /\ \A t \in Terminals :
       SF_vars(curr_running_terminal_idx = t /\ KernelStep)
  /\ WF_vars(DeviceCall)

FairSpec == Spec /\ Fairness

-----------------------------------------------------------------------------
(* Properties.                                                             *)

(* Type correctness of the slot tables, PCBs and flags. *)
TypeOK ==
  /\ phys_addr_available \in [Tasks -> BOOLEAN]
  /\ phys_mem_idx \in [Terminals -> [Tasks -> Tasks \cup {None}]]
  /\ parent \in [Tasks -> Context]
  /\ curr \in [Tasks -> Context]
  /\ cpu \in Context
  /\ curr_running_terminal_idx \in Terminals
  /\ flag_first_execute \in BOOLEAN
  /\ flag \in BOOLEAN
  /\ exception_flag \in BOOLEAN
  /\ curr_terminal_idx \in Terminals
  /\ typing_finish \in [Terminals -> BOOLEAN]
  /\ vid_on \in [Terminals -> {0, 1}]
  /\ overwritten \subseteq Tasks

(* A terminal whose shell has been started. *)
Booted(t) == phys_mem_idx[t][0] # None

(* execute and halt neither leak a slot nor hand it out twice: a slot is   *)
(* taken exactly when an entry of some phys_mem_idx names it, and no two   *)
(* entries name the same slot.                                             *)
SlotOwnership ==
  /\ \A p \in Tasks :
       phys_addr_available[p] <=>
         \A t \in Terminals : \A i \in Tasks : phys_mem_idx[t][i] # p
  /\ \A t, u \in Terminals : \A i, j \in Tasks :
       phys_mem_idx[t][i] = phys_mem_idx[u][j] /\ phys_mem_idx[t][i] # None
         => t = u /\ i = j

(* The loops that look for the first -1 find the top of a stack: execute   *)
(* and halt leave no hole in phys_mem_idx.                                 *)
StackShape ==
  \A t \in Terminals :
    /\ FirstFree(phys_mem_idx[t]) \in 0..NumTasks
    /\ \A i \in Tasks :
         phys_mem_idx[t][i] # None <=> i < FirstFree(phys_mem_idx[t])

(* The PIT handler opens the shells one after the other; programs other    *)
(* than the shells exist only when all shells are open, and the hlt loop   *)
(* of entry() is left for good.                                            *)
BootOrder ==
  /\ flag_first_execute =>
       /\ ~flag
       /\ curr_running_terminal_idx = 0
       /\ \A t \in Terminals : ~Booted(t)
  /\ ~flag_first_execute =>
       \A t \in Terminals : Booted(t) <=> flag \/ t <= curr_running_terminal_idx
  /\ ~flag =>
       \A t \in Terminals : \A i \in Tasks \ {0} : phys_mem_idx[t][i] = None
  /\ cpu.at \in IF flag_first_execute THEN {"idle"}
                ELSE {"user"} \cup (Interruptible \ {"idle"})

(* The tests "curr_idx > 2" and "curr_halt < 3" in execute and halt are    *)
(* right: slot t is the bottom shell of terminal t and nothing else, even  *)
(* though a bottom shell that halts takes whatever slot is free.           *)
BaseShells ==
  \A t \in Terminals : \A i \in Tasks :
    phys_mem_idx[t][i] # None =>
      IF i = 0 THEN phys_mem_idx[t][i] = t
               ELSE phys_mem_idx[t][i] >= NumTerminals

(* Context x belongs to task p: its kernel stack, its page directory. *)
Belongs(x, p) == x.esp0 = p /\ x.cr3 = p + 1 /\ x.stack = p

(* While a task runs, tss.esp0, %cr3 and the stack are those of the top    *)
(* task of the running terminal, whatever execute, halt, vidmap and the    *)
(* PIT handler loaded on the way.                                          *)
CpuMatchesRunning ==
  ~flag_first_execute =>
    Belongs(cpu, Top(curr_running_terminal_idx))

(* The task the PIT handler will resume on a terminal was saved by that    *)
(* handler, on its own stack and directory, at a point with interrupts on. *)
SuspendedResumable ==
  \A t \in Terminals \ {curr_running_terminal_idx} :
    Booted(t) => /\ Belongs(curr[Top(t)], Top(t))
                 /\ curr[Top(t)].at \in Interruptible \ {"idle"}

(* Every task above a bottom shell returns, when it halts, into the        *)
(* execute of the task right below it.                                     *)
ParentLinks ==
  \A t \in Terminals : \A i \in Tasks \ {0} :
    LET p == phys_mem_idx[t][i]
    IN  p # None => /\ Belongs(parent[p], phys_mem_idx[t][i - 1])
                    /\ parent[p].at = "exec"

(* The exception to isolation: the bottom shell of terminal t + 1 exits or *)
(* faults and is restarted on the kernel stack of the one of terminal t.   *)
NeighbourRestarts(t) ==
  /\ curr_running_terminal_idx = t + 1
  /\ Top(t + 1) = t + 1
  /\ SysHalt \/ FaultHalt

(* No step of the running terminal's tasks touches the stack of tasks of   *)
(* another terminal, the context that terminal will resume from, or what   *)
(* its tasks have on their kernel stacks, with one exception: a restarted  *)
(* bottom shell may overwrite frames of the shell of the terminal before.  *)
(* No other terminal, and no program above a shell, is ever reached.       *)
OthersUntouched ==
  \A t \in Terminals \ {curr_running_terminal_idx, curr_running_terminal_idx'} :
    /\ phys_mem_idx'[t] = phys_mem_idx[t]
    /\ Booted(t) => curr'[Top(t)] = curr[Top(t)]
    /\ \A i \in Tasks :
         LET p == phys_mem_idx[t][i]
         IN  p \in overwritten' \ overwritten => p = t /\ NeighbourRestarts(t)

Isolation == [][OthersUntouched]_vars

(* The context terminal t works in or will be resumed from. *)
ContextOf(t) == IF t = curr_running_terminal_idx THEN cpu ELSE curr[Top(t)]

(* Frames have been overwritten.  What they do when they are resumed is    *)
(* undefined, so nothing is promised after that.                           *)
FramesLost == overwritten # {}

(* The PIT handler opens every shell and then never forgets a terminal.    *)
EveryTerminalScheduled ==
  <>FramesLost \/ \A t \in Terminals : []<>(curr_running_terminal_idx = t)

(* A task that waits in terminal_read while a line is ready gets the line, *)
(* whichever terminal is on the screen and whatever the others run.        *)
ReaderServed ==
  \A t \in Terminals :
    (Booted(t) /\ ContextOf(t).at = "read" /\ typing_finish[t])
      ~> (~typing_finish[t] \/ FramesLost)

(* A task whose program raised an exception is halted: the terminal leaves *)
(* the exception handler, even when others fault or exit meanwhile.        *)
FaultFinishes ==
  \A t \in Terminals :
    (Booted(t) /\ ContextOf(t).at = "print")
      ~> (ContextOf(t).at = "user" \/ FramesLost)

-----------------------------------------------------------------------------
(* What comments and the bug log say and the code does not do.             *)

(* halt: "if we halt because of system exception, we reset status": a      *)
(* program returns 256 to its parent exactly when an exception handler     *)
(* halts it, and otherwise the status it passed to halt.                   *)
ExitStatus ==
  Top(curr_running_terminal_idx) >= NumTerminals =>
    /\ FreeProgram => \A status \in {0, 255} : HaltValue(status) = status
    /\ cpu.at = "flagged" => HaltValue(0) = 256
=============================================================================
