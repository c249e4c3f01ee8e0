----------------------------- MODULE Interrupts ------------------------------
(***************************************************************************)
(* Interrupt masks, the interrupt flag and the results of system calls:    *)
(* enable_irq, disable_irq and send_eoi (i8259.c) as RTC_read and          *)
(* RTC_write (RTC.c), terminal_read and terminal_write (terminal.c),       *)
(* execute and getargs (system_call_handler.c) and syscall_handler         *)
(* (syscall.S) use them, for one task per terminal.                        *)
(*                                                                         *)
(* A task is in ring 3 with IF = 0 or at a point of a system call.  Where  *)
(* the call has executed sti, each access to the mask port, to store_eax   *)
(* and to interrupt_bool is a step, and the timer (IRQ 0), the keyboard    *)
(* (IRQ 1) and the RTC (IRQ 8, through IRQ 2) may come between two steps.  *)
(*                                                                         *)
(* The 8259 is external: it holds back an interrupt that is masked, or not *)
(* of higher priority than one in service.  The timer and RTC handlers end *)
(* their interrupt before they return and are one step each.  The keyboard *)
(* handler enables interrupts in putc and sends its end of interrupt last: *)
(* meanwhile the timer may suspend it, on the stack of the terminal it     *)
(* interrupted.                                                            *)
(***************************************************************************)
EXTENDS Integers

CONSTANTS NumTerminals,
          Calls,          \* the system calls programs make
          Exponents       \* they write RTC frequency 2^k for k in this set

AllCalls == {"RTC_read", "RTC_write", "terminal_read", "terminal_write",
             "bad_write",   \* terminal_write of a NULL buffer
             "execute", "getargs",
             "other"}       \* all that neither masks nor enables interrupts

ASSUME InterruptsAssumption ==
  /\ NumTerminals \in Nat \ {0}
  /\ Calls \subseteq AllCalls
  /\ Exponents \subseteq 0..10

Terminals == 0..(NumTerminals - 1)
None == -1
TIMER == 0
KEYBOARD == 1

VARIABLES
  curr_running_terminal_idx,
  pc,              \* where the task of each terminal is
  call,            \* the system call it is in
  value,           \* local of enable_irq and disable_irq
  mask,            \* the mask register of the master 8259
  kbd,             \* the terminal on whose stack the keyboard handler is
  interrupt_bool,
  periodic,        \* is rate other than 0, so that the RTC interrupts?
  store_eax,
  typing_finish

local == <<pc, call, value>>
devices == <<interrupt_bool, periodic, store_eax, typing_finish>>
vars == <<curr_running_terminal_idx, local, mask, kbd, devices>>

Points == {"user",                               \* ring 3
           "dis0", "dis0w", "dis1", "dis1w",     \* disable_irq: inb, outb
           "clear", "wait",                      \* the loop of RTC_read
           "line",                               \* the loop of terminal_read
           "put",                                \* terminal_write
           "en0", "en0w", "en1", "en1w",         \* enable_irq: inb, outb
           "ret", "popped"}                      \* syscall_handler

-----------------------------------------------------------------------------
(* Every shell is up and reads its first line. *)
Init ==
  /\ curr_running_terminal_idx = 0
  /\ pc = [t \in Terminals |-> "line"]
  /\ call = [t \in Terminals |-> "terminal_read"]
  /\ value = [t \in Terminals |-> {}]
  /\ mask = {}
  /\ kbd = None
  /\ interrupt_bool = FALSE
  /\ periodic = TRUE
  /\ store_eax = 0
  /\ typing_finish = [t \in Terminals |-> FALSE]

(* Mutant: terminal_read does not execute cli after its loop. *)
ReturnsOpenWithRead == {"RTC_read", "RTC_write", "terminal_write", "getargs", "terminal_read"}

(* Calls that return to syscall_handler with interrupts enabled. *)
ReturnsOpen == {"RTC_read", "RTC_write", "terminal_write", "getargs"}

(* IF of the task of terminal t. *)
InterruptsOn(t) ==
  /\ pc[t] # "user"
  /\ pc[t] \in {"ret", "popped"} => call[t] \in ReturnsOpen

(* The running terminal's task takes a step. *)
Step(t, from, to) ==
  /\ t = curr_running_terminal_idx
  /\ kbd # t
  /\ pc[t] = from
  /\ pc' = [pc EXCEPT ![t] = to]
  /\ UNCHANGED <<curr_running_terminal_idx, kbd>>

(* What a call leaves in %eax, as values that tell the calls apart:        *)
(* RTC_write returns nbytes, terminal_read and terminal_write a length,    *)
(* the others 0, -1 or a status.                                           *)
Result(c) ==
  CASE c \in {"RTC_read", "getargs"} -> 0
    [] c = "RTC_write" -> 4
    [] c = "terminal_read" -> 2
    [] c = "terminal_write" -> 1
    [] OTHER -> -1

(* Task t makes call c. *)
Begin(t, c) == c \in Calls /\ call' = [call EXCEPT ![t] = c]

-----------------------------------------------------------------------------
(* i8259.c: the mask port is read, changed and written.                    *)

(* Mutant: the bit is not cleared. *)
BitKept(m, n) == m

BitSet(m, n) == m \cup {n}
BitCleared(m, n) == m \ {n}

(* value = inb(port), with the bit set or cleared. *)
ReadMask(t, from, to, v) ==
  /\ Step(t, from, to)
  /\ value' = [value EXCEPT ![t] = v]
  /\ UNCHANGED <<call, mask, devices>>

(* outb(value, port) *)
WriteMask(t, from, to) ==
  /\ Step(t, from, to)
  /\ mask' = value[t]
  /\ value' = [value EXCEPT ![t] = {}]
  /\ UNCHANGED <<call, devices>>

disable_irq(t, irq_num) ==
  \/ /\ irq_num = TIMER
     /\ \/ ReadMask(t, "dis0", "dis0w", BitSet(mask, TIMER))
        \/ WriteMask(t, "dis0w", "dis1")
  \/ /\ irq_num = KEYBOARD
     /\ \/ ReadMask(t, "dis1", "dis1w", BitSet(mask, KEYBOARD))
        \/ WriteMask(t, "dis1w", "clear")

enable_irq(t, irq_num) ==
  \/ /\ irq_num = TIMER
     /\ \/ ReadMask(t, "en0", "en0w", BitCleared(mask, TIMER))
        \/ WriteMask(t, "en0w", IF call[t] = "RTC_read" THEN "en1" ELSE "ret")
  \/ /\ irq_num = KEYBOARD
     /\ \/ ReadMask(t, "en1", "en1w", BitCleared(mask, KEYBOARD))
        \/ WriteMask(t, "en1w", "ret")

-----------------------------------------------------------------------------
(* System calls.                                                           *)

(* sti, then disable_irq(0) and disable_irq(1) with interrupts enabled. *)
RTC_read(t) ==
  /\ Step(t, "user", "dis0")
  /\ Begin(t, "RTC_read")
  /\ UNCHANGED <<value, mask, devices>>

ClearBool(t) ==
  /\ Step(t, "clear", "wait")
  /\ interrupt_bool' = FALSE
  /\ UNCHANGED <<call, value, mask, periodic, store_eax, typing_finish>>

WaitDone(t) ==
  /\ Step(t, "wait", "en0")
  /\ interrupt_bool
  /\ UNCHANGED <<call, value, mask, devices>>

(* Frequency 2^k is rate 16 - k, of which RTC_set_rate keeps four bits. *)
Rate(k) == (16 - k) % 16

RTC_write(t, k) ==
  /\ Step(t, "user", "ret")
  /\ Begin(t, "RTC_write")
  /\ periodic' = (Rate(k) # 0)
  /\ UNCHANGED <<value, mask, interrupt_bool, store_eax, typing_finish>>

getargs(t) ==
  /\ Step(t, "user", "ret")
  /\ Begin(t, "getargs")
  /\ UNCHANGED <<value, mask, devices>>

(* sti, and the loop; after it cli. *)
terminal_read(t) ==
  /\ Step(t, "user", "line")
  /\ Begin(t, "terminal_read")
  /\ UNCHANGED <<value, mask, devices>>

LineDone(t) ==
  /\ Step(t, "line", "ret")
  /\ typing_finish[t]
  /\ typing_finish' = [typing_finish EXCEPT ![t] = FALSE]
  /\ UNCHANGED <<call, value, mask, interrupt_bool, periodic, store_eax>>

(* disable_irq(0) runs before the first sti of putc. *)
terminal_write(t) ==
  /\ Step(t, "user", "put")
  /\ Begin(t, "terminal_write")
  /\ mask' = BitSet(mask, TIMER)
  /\ UNCHANGED <<value, devices>>

Printed(t) ==
  /\ Step(t, "put", "en0")
  /\ UNCHANGED <<call, value, mask, devices>>

(* The calls that run with IF = 0 throughout.  execute, whose result comes *)
(* when the child halts, enables the timer; terminal_write returns -1      *)
(* after disable_irq(0).                                                   *)
ClosedCall(t, c) ==
  /\ Step(t, "user", "ret")
  /\ c \in {"execute", "bad_write", "other"}
  /\ Begin(t, c)
  /\ mask' = CASE c = "execute" -> BitCleared(mask, TIMER)
               [] c = "bad_write" -> BitSet(mask, TIMER)
               [] OTHER -> mask
  /\ UNCHANGED <<value, devices>>

(* movl %eax, store_eax *)
StoreEax(t) ==
  /\ Step(t, "ret", "popped")
  /\ store_eax' = Result(call[t])
  /\ UNCHANGED <<call, value, mask, interrupt_bool, periodic, typing_finish>>

(* movl store_eax, %eax; iret: the program is given store_eax. *)
LoadEax(t) ==
  /\ Step(t, "popped", "user")
  /\ call' = [call EXCEPT ![t] = "none"]
  /\ UNCHANGED <<value, mask, devices>>

-----------------------------------------------------------------------------
(* Interrupts.                                                             *)

(* Mutant: the index does not wrap around. *)
TerminalAbove(t) == t + 1

NextTerminal(t) == (t + 1) % NumTerminals

(* The timer switches to the next terminal, whose context was saved at a   *)
(* point with interrupts enabled, maybe inside the keyboard handler.       *)
(* Assumed: what the interrupted task has in general registers survives.   *)
(* The handler saves none of them, but unoptimised code keeps a value such *)
(* as the local of enable_irq there for a few instructions only; between   *)
(* these it is on the stack.                                               *)
PIT_interrupt_handler ==
  LET t == curr_running_terminal_idx
  IN  /\ TIMER \notin mask
      /\ kbd = t \/ InterruptsOn(t)
      /\ curr_running_terminal_idx' = NextTerminal(t)
      /\ UNCHANGED <<local, mask, kbd, devices>>

(* Mutant: the handler does not set interrupt_bool. *)
RTC_handler_silent ==
  /\ periodic
  /\ kbd = None
  /\ InterruptsOn(curr_running_terminal_idx)
  /\ UNCHANGED vars

RTC_interrupt_handler ==
  /\ periodic
  /\ kbd = None
  /\ InterruptsOn(curr_running_terminal_idx)
  /\ interrupt_bool' = TRUE
  /\ UNCHANGED <<curr_running_terminal_idx, local, mask, kbd, periodic, store_eax,
                 typing_finish>>

keyboard_interrupt_handler ==
  /\ KEYBOARD \notin mask
  /\ kbd = None
  /\ InterruptsOn(curr_running_terminal_idx)
  /\ kbd' = curr_running_terminal_idx
  /\ UNCHANGED <<curr_running_terminal_idx, local, mask, devices>>

(* send_eoi(1): the 8259 no longer has IRQ 1 in service. *)
send_eoi == kbd' = None

(* The rest of the handler.  The key may have finished the line of any     *)
(* terminal, the one on the screen.                                        *)
KeyDone ==
  /\ kbd = curr_running_terminal_idx
  /\ send_eoi
  /\ \/ UNCHANGED typing_finish
     \/ \E u \in Terminals : typing_finish' = [typing_finish EXCEPT ![u] = TRUE]
  /\ UNCHANGED <<curr_running_terminal_idx, local, mask, interrupt_bool, periodic,
                 store_eax>>

-----------------------------------------------------------------------------
(* Steps of the kernel on behalf of the task of terminal t. *)
KernelStep(t) ==
  \/ \E irq_num \in {TIMER, KEYBOARD} :
       disable_irq(t, irq_num) \/ enable_irq(t, irq_num)
  \/ ClearBool(t) \/ WaitDone(t) \/ LineDone(t) \/ Printed(t)
  \/ StoreEax(t) \/ LoadEax(t)

(* Calls after which interrupts are enabled. *)
OpenCall(t) ==
  \/ RTC_read(t) \/ terminal_read(t) \/ terminal_write(t) \/ getargs(t)
  \/ \E k \in Exponents : RTC_write(t, k)

Next ==
  \/ \E t \in Terminals :
       KernelStep(t) \/ OpenCall(t) \/ \E c \in AllCalls : ClosedCall(t, c)
  \/ PIT_interrupt_handler
  \/ RTC_interrupt_handler
  \/ keyboard_interrupt_handler
  \/ KeyDone

Spec == Init /\ [][Next]_vars

(* The 8259 latches a request that is held back; a time slice is longer    *)
(* than the steps of a call; programs make calls that enable interrupts.   *)
Fairness ==
  /\ SF_vars(PIT_interrupt_handler)
  /\ SF_vars(RTC_interrupt_handler)
  /\ SF_vars(KeyDone)
  /\ \A t \in Terminals : SF_vars(KernelStep(t)) /\ SF_vars(OpenCall(t))

FairSpec == Spec /\ Fairness

-----------------------------------------------------------------------------
(* Properties.                                                             *)

(* Types of the kernel's globals and of the locals of the calls. *)
TypeOK ==
  /\ curr_running_terminal_idx \in Terminals
  /\ pc \in [Terminals -> Points]
  /\ call \in [Terminals -> AllCalls \cup {"none"}]
  /\ value \in [Terminals -> SUBSET {TIMER, KEYBOARD}]
  /\ mask \subseteq {TIMER, KEYBOARD}
  /\ kbd \in Terminals \cup {None}
  /\ interrupt_bool \in BOOLEAN
  /\ periodic \in BOOLEAN
  /\ store_eax \in -1..4
  /\ typing_finish \in [Terminals -> BOOLEAN]

(* Points from which a task goes on to enable IRQ 0, IRQ 1. *)
EnablesTimer == {"dis1", "dis1w", "clear", "wait", "put", "en0", "en0w"}
EnablesKeyboard == {"dis1", "dis1w", "clear", "wait", "en0", "en0w", "en1", "en1w"}

(* No interrupt stays masked for good: while the timer is masked, the task *)
(* that runs is one that will unmask it, and while the keyboard is masked, *)
(* some task will unmask it, although tasks read the mask port and write   *)
(* it back in steps that overlap.                                          *)
MaskHasOwner ==
  /\ TIMER \in mask => pc[curr_running_terminal_idx] \in EnablesTimer
  /\ KEYBOARD \in mask => \E t \in Terminals : pc[t] \in EnablesKeyboard

(* A call that ends with interrupts disabled gives its own result to the   *)
(* program, whatever other calls have left or will leave in store_eax.     *)
ClosedResult ==
  \A t \in Terminals :
    pc[t] = "popped" /\ call[t] \in {"terminal_read", "execute", "other"}
      => store_eax = Result(call[t])

(* RTC_read spins with the timer and the keyboard masked while the        *)
(* keyboard handler is suspended on the stack of another terminal: its     *)
(* interrupt is in service and holds the RTC's back.                       *)
Stuck ==
  LET t == curr_running_terminal_idx
  IN  pc[t] = "wait" /\ ~interrupt_bool /\ TIMER \in mask /\ kbd \notin {None, t}

(* RTC_read returns: apart from that one case, the interrupt it waits for  *)
(* arrives, whoever clears interrupt_bool or changes the masks meanwhile.  *)
RTCReadReturns ==
  \A t \in Terminals : pc[t] = "wait" ~> (pc[t] = "user" \/ Stuck)

(* Apart from that case, masks and disabled interrupts never keep a        *)
(* terminal from the CPU.                                                  *)
EveryTerminalRuns ==
  \A t \in Terminals : []<>(curr_running_terminal_idx = t \/ Stuck)

-----------------------------------------------------------------------------
(* What comments say and the code does not do.                             *)

(* RTC.c: "wait for the RTC interrupt", and return 0: the case does not    *)
(* happen.                                                                 *)
NeverStuck == ~Stuck

(* syscall.S: "store eax to label to prevent potential eax change": the    *)
(* value loaded back is the one the call returned.                         *)
OwnResult ==
  \A t \in Terminals :
    pc[t] = "popped" /\ t = curr_running_terminal_idx => store_eax = Result(call[t])
=============================================================================
