-------------------------- MODULE InterruptsProofs ---------------------------
(***************************************************************************)
(* Proofs about Interrupts, for every number of terminals and every set of *)
(* calls and frequencies, under the one discipline the code leaves to      *)
(* programs: terminal_write is not called with a NULL buffer.              *)
(*                                                                         *)
(* The argument is about who may be suspended.  A task with interrupts     *)
(* disabled is never suspended, and neither is one that has masked the     *)
(* timer: it keeps the CPU until it has unmasked it.  So of the values     *)
(* that tasks have read from the mask port and not yet written back, only  *)
(* the one of disable_irq(0) can be out of date.                           *)
(***************************************************************************)
EXTENDS Interrupts, TLAPS

NoBadWrite == "bad_write" \notin Calls

-----------------------------------------------------------------------------
(* The inductive invariant.                                                *)

(* The call a task is in, at the points that belong to one or two calls. *)
CallAt(point, c) ==
  /\ point \in {"dis0", "dis0w", "dis1", "dis1w", "clear", "wait", "en1", "en1w"}
       => c = "RTC_read"
  /\ point \in {"en0", "en0w"} => c \in {"RTC_read", "terminal_write"}
  /\ point = "put" => c = "terminal_write"

CallAtPoint == \A t \in Terminals : CallAt(pc[t], call[t])

(* Only a task with interrupts enabled is suspended by the timer or        *)
(* interrupted by the keyboard.                                            *)
SuspendedOpen ==
  \A t \in Terminals :
    t # curr_running_terminal_idx \/ kbd = t => InterruptsOn(t)

(* The timer is masked exactly while the running task is between its       *)
(* disable_irq(0) and its enable_irq(0); no other task is there.           *)
TimerMasked ==
  /\ TIMER \in mask => pc[curr_running_terminal_idx] \in EnablesTimer
  /\ \A t \in Terminals :
       pc[t] \in EnablesTimer => TIMER \in mask /\ t = curr_running_terminal_idx

(* The values about to be written to the mask port leave no bit set that   *)
(* nobody clears.                                                          *)
ValuesSound ==
  \A t \in Terminals :
    /\ pc[t] \in {"dis0w", "dis1w"} => TIMER \in value[t]
    /\ pc[t] = "en0w" => TIMER \notin value[t] /\ value[t] \subseteq mask
    /\ pc[t] = "en1w" => value[t] = {}

(* Task t will still unmask the keyboard.  terminal_write passes through   *)
(* en0 too, and will not.                                                  *)
UnmasksKeyboard(t) ==
  \/ pc[t] \in {"en1", "en1w"}
  \/ /\ pc[t] \in {"dis1", "dis1w", "clear", "wait", "en0", "en0w"}
     /\ call[t] = "RTC_read"

KeyboardMasked ==
  KEYBOARD \in mask => \E u \in Terminals : UnmasksKeyboard(u)

Inv ==
  /\ TypeOK
  /\ CallAtPoint
  /\ SuspendedOpen
  /\ TimerMasked
  /\ ValuesSound
  /\ KeyboardMasked
  /\ ClosedResult

(* At boot every shell waits for its first line and nothing is masked. *)
LEMMA InitInv == Init => Inv
<1> SUFFICES ASSUME Init PROVE Inv
  OBVIOUS
<1> USE InterruptsAssumption
<1>1. TypeOK
  <2>1. 0 \in Terminals /\ 0 \in -1..4
    BY DEF Terminals
  <2>2. QED
    BY <2>1 DEF Init, TypeOK, Points, AllCalls
<1>2. CallAtPoint
  BY DEF Init, CallAtPoint, CallAt
<1>3. SuspendedOpen
  BY DEF Init, SuspendedOpen, InterruptsOn
<1>4. TimerMasked /\ ValuesSound /\ KeyboardMasked
  BY DEF Init, TimerMasked, ValuesSound, KeyboardMasked, EnablesTimer, Terminals
<1>5. ClosedResult
  BY DEF Init, ClosedResult
<1>6. QED
  BY <1>1, <1>2, <1>3, <1>4, <1>5 DEF Inv

-----------------------------------------------------------------------------
(* Steps of the running task.                                              *)

(* What a step of the running task t has to respect.  The other tasks have *)
(* interrupts enabled and have not masked the timer, so that nothing else  *)
(* of the invariant speaks of them.                                        *)
LEMMA TaskStep ==
  ASSUME Inv, TypeOK',
         NEW t \in Terminals, NEW from, NEW to, Step(t, from, to),
         \A u \in Terminals \ {t} : call'[u] = call[u] /\ value'[u] = value[u],
         CallAt(to, call'[t]),
         TIMER \in mask' <=> to \in EnablesTimer,
         to \in {"dis0w", "dis1w"} => TIMER \in value'[t],
         to = "en0w" => TIMER \notin value'[t] /\ value'[t] \subseteq mask',
         to = "en1w" => value'[t] = {},
         KEYBOARD \in mask' => KEYBOARD \in mask \/ UnmasksKeyboard(t)',
         KEYBOARD \in mask' /\ UnmasksKeyboard(t) => UnmasksKeyboard(t)',
         to = "popped" => store_eax' = Result(call'[t])
  PROVE  Inv'
<1>1. /\ t = curr_running_terminal_idx /\ kbd # t
      /\ curr_running_terminal_idx' = t /\ kbd' = kbd
      /\ pc'[t] = to
      /\ \A u \in Terminals \ {t} : pc'[u] = pc[u]
  BY DEF Inv, TypeOK, Step
<1>2. CallAtPoint'
  BY <1>1 DEF Inv, CallAtPoint, CallAt
<1>3. \A u \in Terminals \ {t} : InterruptsOn(u) /\ InterruptsOn(u)'
  BY <1>1 DEF Inv, SuspendedOpen, InterruptsOn
<1>4. SuspendedOpen'
  BY <1>1, <1>3 DEF SuspendedOpen
<1>5. \A u \in Terminals \ {t} : pc'[u] \notin EnablesTimer
  BY <1>1 DEF Inv, TimerMasked
<1>6. TimerMasked'
  BY <1>1, <1>5 DEF TimerMasked
<1>7. KeyboardMasked'
  <2>1. \A u \in Terminals \ {t} : UnmasksKeyboard(u) => UnmasksKeyboard(u)'
    BY <1>1 DEF UnmasksKeyboard
  <2>2. QED
    BY <2>1 DEF Inv, KeyboardMasked
<1>8. ValuesSound'
  <2>1. \A u \in Terminals \ {t} : pc'[u] \notin {"dis1w", "en0w"}
    BY <1>5 DEF EnablesTimer
  <2>2. QED
    BY <1>1, <2>1 DEF Inv, ValuesSound
<1>9. ClosedResult'
  <2>1. \A u \in Terminals \ {t} :
          pc'[u] = "popped" => call'[u] \notin {"terminal_read", "execute", "other"}
    BY <1>3 DEF InterruptsOn, ReturnsOpen
  <2>2. QED
    BY <1>1, <2>1 DEF ClosedResult
<1>10. QED
  BY <1>2, <1>4, <1>6, <1>7, <1>8, <1>9 DEF Inv

(* Types, for each action. *)
LEMMA TypeStep == ASSUME TypeOK, [Next]_vars PROVE TypeOK'
<1> USE DEF devices
<1>1. ASSUME NEW t \in Terminals, KernelStep(t) PROVE TypeOK'
  <2>1. ASSUME NEW from, NEW to \in Points, NEW v \in SUBSET {TIMER, KEYBOARD},
               ReadMask(t, from, to, v)
        PROVE  TypeOK'
    BY <2>1 DEF TypeOK, ReadMask, Step
  <2>2. ASSUME NEW from, NEW to \in Points, WriteMask(t, from, to)
        PROVE  TypeOK'
    BY <2>2 DEF TypeOK, WriteMask, Step
  <2>3. ASSUME NEW irq_num \in {TIMER, KEYBOARD}, disable_irq(t, irq_num)
        PROVE  TypeOK'
    <3>1. \A n \in {TIMER, KEYBOARD} : BitSet(mask, n) \in SUBSET {TIMER, KEYBOARD}
      BY DEF TypeOK, BitSet
    <3>2. QED
      BY <2>1, <2>2, <2>3, <3>1 DEF disable_irq, Points
  <2>4. ASSUME NEW irq_num \in {TIMER, KEYBOARD}, enable_irq(t, irq_num)
        PROVE  TypeOK'
    <3>1. \A n \in {TIMER, KEYBOARD} : BitCleared(mask, n) \in SUBSET {TIMER, KEYBOARD}
      BY DEF TypeOK, BitCleared
    <3>2. QED
      BY <2>1, <2>2, <2>4, <3>1 DEF enable_irq, Points
  <2>5. CASE ClearBool(t) \/ WaitDone(t) \/ LineDone(t) \/ Printed(t)
    BY <2>5 DEF TypeOK, ClearBool, WaitDone, LineDone, Printed, Step, Points
  <2>6. CASE StoreEax(t)
    <3>1. Result(call[t]) \in -1..4
      BY DEF Result
    <3>2. QED
      BY <2>6, <3>1 DEF TypeOK, StoreEax, Step, Points
  <2>7. CASE LoadEax(t)
    BY <2>7 DEF TypeOK, LoadEax, Step, Points
  <2>8. QED
    BY <1>1, <2>3, <2>4, <2>5, <2>6, <2>7 DEF KernelStep
<1>2. ASSUME NEW t \in Terminals, OpenCall(t) PROVE TypeOK'
  <2> USE DEF Step, Begin, Points, AllCalls
  <2>1. CASE RTC_read(t)
    BY <2>1 DEF TypeOK, RTC_read
  <2>2. CASE terminal_read(t)
    BY <2>2 DEF TypeOK, terminal_read
  <2>3. CASE terminal_write(t)
    BY <2>3 DEF TypeOK, terminal_write, BitSet
  <2>4. CASE getargs(t)
    BY <2>4 DEF TypeOK, getargs
  <2>5. ASSUME NEW k \in Exponents, RTC_write(t, k) PROVE TypeOK'
    BY <2>5 DEF TypeOK, RTC_write
  <2>6. QED
    BY <1>2, <2>1, <2>2, <2>3, <2>4, <2>5 DEF OpenCall
<1>3. ASSUME NEW t \in Terminals, NEW c \in AllCalls, ClosedCall(t, c) PROVE TypeOK'
  <2>1. mask' \subseteq {TIMER, KEYBOARD}
    BY <1>3 DEF TypeOK, ClosedCall, BitSet, BitCleared
  <2>2. QED
    BY <1>3, <2>1 DEF TypeOK, ClosedCall, Step, Begin, Points
<1>4. CASE PIT_interrupt_handler
  BY <1>4, InterruptsAssumption
     DEF TypeOK, PIT_interrupt_handler, NextTerminal, Terminals, local
<1>5. CASE RTC_interrupt_handler
  BY <1>5 DEF TypeOK, RTC_interrupt_handler, local
<1>6. CASE keyboard_interrupt_handler
  BY <1>6 DEF TypeOK, keyboard_interrupt_handler, local
<1>7. CASE KeyDone
  BY <1>7 DEF TypeOK, KeyDone, send_eoi, local
<1>8. CASE UNCHANGED vars
  BY <1>8 DEF TypeOK, vars, local
<1>9. QED
  BY <1>1, <1>2, <1>3, <1>4, <1>5, <1>6, <1>7, <1>8 DEF Next

(* disable_irq reads and writes the mask port of RTC_read.  The first read *)
(* may be out of date when it is written, but then the task itself is the  *)
(* one that clears whatever bit the value brings back.                     *)
LEMMA DisableStep ==
  ASSUME Inv, TypeOK', NEW t \in Terminals, NEW irq_num \in {TIMER, KEYBOARD},
         disable_irq(t, irq_num)
  PROVE  Inv'
<1> USE DEF devices, Step
<1>1. CASE ReadMask(t, "dis0", "dis0w", BitSet(mask, TIMER))
  <2>1. Step(t, "dis0", "dis0w") /\ call[t] = "RTC_read" /\ TIMER \notin mask
    BY <1>1 DEF ReadMask, Inv, CallAtPoint, CallAt, TimerMasked, EnablesTimer
  <2>2. QED
    BY <1>1, <2>1, TaskStep
       DEF ReadMask, BitSet, Inv, TypeOK, CallAt, EnablesTimer, UnmasksKeyboard
<1>2. CASE WriteMask(t, "dis0w", "dis1")
  <2>1. Step(t, "dis0w", "dis1") /\ call[t] = "RTC_read" /\ TIMER \in value[t]
    BY <1>2 DEF WriteMask, Inv, CallAtPoint, CallAt, ValuesSound
  <2>2. UnmasksKeyboard(t)'
    BY <1>2, <2>1 DEF WriteMask, Inv, TypeOK, UnmasksKeyboard
  <2>3. QED
    BY <1>2, <2>1, <2>2, TaskStep DEF WriteMask, Inv, TypeOK, CallAt, EnablesTimer
<1>3. CASE ReadMask(t, "dis1", "dis1w", BitSet(mask, KEYBOARD))
  <2>1. Step(t, "dis1", "dis1w") /\ call[t] = "RTC_read" /\ TIMER \in mask
    BY <1>3 DEF ReadMask, Inv, CallAtPoint, CallAt, TimerMasked, EnablesTimer
  <2>2. UnmasksKeyboard(t)'
    BY <1>3, <2>1 DEF ReadMask, Inv, TypeOK, UnmasksKeyboard
  <2>3. QED
    BY <1>3, <2>1, <2>2, TaskStep
       DEF ReadMask, BitSet, Inv, TypeOK, CallAt, EnablesTimer
<1>4. CASE WriteMask(t, "dis1w", "clear")
  <2>1. Step(t, "dis1w", "clear") /\ call[t] = "RTC_read" /\ TIMER \in value[t]
    BY <1>4 DEF WriteMask, Inv, CallAtPoint, CallAt, ValuesSound
  <2>2. UnmasksKeyboard(t)'
    BY <1>4, <2>1 DEF WriteMask, Inv, TypeOK, UnmasksKeyboard
  <2>3. QED
    BY <1>4, <2>1, <2>2, TaskStep DEF WriteMask, Inv, TypeOK, CallAt, EnablesTimer
<1>5. QED
  BY <1>1, <1>2, <1>3, <1>4 DEF disable_irq

(* enable_irq reads and writes the mask port of RTC_read and               *)
(* terminal_write.                                                         *)
LEMMA EnableStep ==
  ASSUME Inv, TypeOK', NEW t \in Terminals, NEW irq_num \in {TIMER, KEYBOARD},
         enable_irq(t, irq_num)
  PROVE  Inv'
<1> USE DEF devices, Step
<1>1. CASE ReadMask(t, "en0", "en0w", BitCleared(mask, TIMER))
  <2>1. /\ Step(t, "en0", "en0w")
        /\ call[t] \in {"RTC_read", "terminal_write"}
        /\ TIMER \in mask
    BY <1>1 DEF ReadMask, Inv, CallAtPoint, CallAt, TimerMasked, EnablesTimer
  <2>2. UnmasksKeyboard(t) => UnmasksKeyboard(t)'
    BY <1>1, <2>1 DEF ReadMask, Inv, TypeOK, UnmasksKeyboard
  <2>3. QED
    BY <1>1, <2>1, <2>2, TaskStep
       DEF ReadMask, BitCleared, Inv, TypeOK, CallAt, EnablesTimer
<1>2. CASE WriteMask(t, "en0w", "en1") /\ call[t] = "RTC_read"
  <2>1. Step(t, "en0w", "en1") /\ TIMER \notin value[t]
    BY <1>2 DEF WriteMask, Inv, ValuesSound
  <2>2. UnmasksKeyboard(t)'
    BY <1>2, <2>1 DEF WriteMask, Inv, TypeOK, UnmasksKeyboard
  <2>3. QED
    BY <1>2, <2>1, <2>2, TaskStep DEF WriteMask, Inv, TypeOK, CallAt, EnablesTimer
<1>3. CASE WriteMask(t, "en0w", "ret") /\ call[t] # "RTC_read"
  <2>1. /\ Step(t, "en0w", "ret")
        /\ TIMER \notin value[t]
        /\ KEYBOARD \in value[t] => KEYBOARD \in mask
    BY <1>3 DEF WriteMask, Inv, ValuesSound
  <2>2. ~UnmasksKeyboard(t)
    BY <1>3, <2>1 DEF UnmasksKeyboard
  <2>3. QED
    BY <1>3, <2>1, <2>2, TaskStep DEF WriteMask, Inv, TypeOK, CallAt, EnablesTimer
<1>4. CASE ReadMask(t, "en1", "en1w", BitCleared(mask, KEYBOARD))
  <2>1. Step(t, "en1", "en1w") /\ call[t] = "RTC_read" /\ TIMER \notin mask
    BY <1>4 DEF ReadMask, Inv, CallAtPoint, CallAt, TimerMasked, EnablesTimer
  <2>2. BitCleared(mask, KEYBOARD) = {}
    BY <2>1 DEF BitCleared, Inv, TypeOK
  <2>3. UnmasksKeyboard(t)'
    BY <1>4, <2>1 DEF ReadMask, Inv, TypeOK, UnmasksKeyboard
  <2>4. QED
    BY <1>4, <2>1, <2>2, <2>3, TaskStep DEF ReadMask, Inv, TypeOK, CallAt, EnablesTimer
<1>5. CASE WriteMask(t, "en1w", "ret")
  <2>1. Step(t, "en1w", "ret") /\ value[t] = {}
    BY <1>5 DEF WriteMask, Inv, ValuesSound
  <2>2. QED
    BY <1>5, <2>1, TaskStep DEF WriteMask, Inv, TypeOK, CallAt, EnablesTimer
<1>6. QED
  BY <1>1, <1>2, <1>3, <1>4, <1>5 DEF enable_irq

(* The rest of a call, between its accesses to the mask port. *)
LEMMA InnerStep ==
  ASSUME Inv, TypeOK', NEW t \in Terminals,
         ClearBool(t) \/ WaitDone(t) \/ LineDone(t) \/ Printed(t)
           \/ StoreEax(t) \/ LoadEax(t)
  PROVE  Inv'
<1> USE DEF devices, Step, Inv
<1>1. CASE ClearBool(t)
  <2>1. Step(t, "clear", "wait") /\ call[t] = "RTC_read" /\ TIMER \in mask
    BY <1>1 DEF ClearBool, CallAtPoint, CallAt, TimerMasked, EnablesTimer
  <2>2. UnmasksKeyboard(t)'
    BY <1>1, <2>1 DEF ClearBool, TypeOK, UnmasksKeyboard
  <2>3. QED
    BY <1>1, <2>1, <2>2, TaskStep DEF ClearBool, CallAt, EnablesTimer
<1>2. CASE WaitDone(t)
  <2>1. Step(t, "wait", "en0") /\ call[t] = "RTC_read" /\ TIMER \in mask
    BY <1>2 DEF WaitDone, CallAtPoint, CallAt, TimerMasked, EnablesTimer
  <2>2. UnmasksKeyboard(t)'
    BY <1>2, <2>1 DEF WaitDone, TypeOK, UnmasksKeyboard
  <2>3. QED
    BY <1>2, <2>1, <2>2, TaskStep DEF WaitDone, CallAt, EnablesTimer
<1>3. CASE LineDone(t)
  <2>1. Step(t, "line", "ret") /\ TIMER \notin mask /\ ~UnmasksKeyboard(t)
    BY <1>3 DEF LineDone, TimerMasked, EnablesTimer, UnmasksKeyboard
  <2>2. QED
    BY <1>3, <2>1, TaskStep DEF LineDone, CallAt, EnablesTimer
<1>4. CASE Printed(t)
  <2>1. /\ Step(t, "put", "en0") /\ call[t] = "terminal_write" /\ TIMER \in mask
        /\ ~UnmasksKeyboard(t)
    BY <1>4 DEF Printed, CallAtPoint, CallAt, TimerMasked, EnablesTimer, UnmasksKeyboard
  <2>2. QED
    BY <1>4, <2>1, TaskStep DEF Printed, CallAt, EnablesTimer
<1>5. CASE StoreEax(t)
  <2>1. Step(t, "ret", "popped") /\ TIMER \notin mask /\ ~UnmasksKeyboard(t)
    BY <1>5 DEF StoreEax, TimerMasked, EnablesTimer, UnmasksKeyboard
  <2>2. QED
    BY <1>5, <2>1, TaskStep DEF StoreEax, CallAt, EnablesTimer
<1>6. CASE LoadEax(t)
  <2>1. Step(t, "popped", "user") /\ TIMER \notin mask /\ ~UnmasksKeyboard(t)
    BY <1>6 DEF LoadEax, TimerMasked, EnablesTimer, UnmasksKeyboard
  <2>2. \A u \in Terminals \ {t} : call'[u] = call[u] /\ value'[u] = value[u]
    BY <1>6 DEF LoadEax, TypeOK
  <2>3. QED
    BY <1>6, <2>1, <2>2, TaskStep DEF LoadEax, CallAt, EnablesTimer
<1>7. QED
  BY <1>1, <1>2, <1>3, <1>4, <1>5, <1>6

(* Task t leaves ring 3, where it has masked nothing and will unmask       *)
(* nothing.                                                                *)
LEMMA FromUser ==
  ASSUME Inv, TypeOK', NEW t \in Terminals, NEW c, NEW to, Step(t, "user", to),
         to \in {"dis0", "line", "ret", "put"}, CallAt(to, c),
         call' = [call EXCEPT ![t] = c], value' = value,
         TIMER \in mask' <=> to = "put",
         KEYBOARD \in mask' => KEYBOARD \in mask
  PROVE  Inv'
<1>1. ~UnmasksKeyboard(t)
  BY DEF Step, UnmasksKeyboard
<1>2. call'[t] = c /\ \A u \in Terminals \ {t} : call'[u] = call[u] /\ value'[u] = value[u]
  BY DEF Inv, TypeOK
<1>3. QED
  BY <1>1, <1>2, TaskStep DEF EnablesTimer

(* A program makes a system call.  The timer is not masked then. *)
LEMMA BeginStep ==
  ASSUME Inv, TypeOK', NoBadWrite, NEW t \in Terminals,
         OpenCall(t) \/ \E c \in AllCalls : ClosedCall(t, c)
  PROVE  Inv'
<1> USE DEF devices, Begin, CallAt
<1>1. ASSUME NEW to, Step(t, "user", to) PROVE TIMER \notin mask
  BY <1>1 DEF Step, Inv, TimerMasked, EnablesTimer
<1>2. CASE RTC_read(t)
  BY <1>1, <1>2, FromUser DEF RTC_read
<1>3. CASE terminal_read(t)
  BY <1>1, <1>3, FromUser DEF terminal_read
<1>4. CASE terminal_write(t)
  <2>1. TIMER \in mask' /\ (KEYBOARD \in mask' => KEYBOARD \in mask)
    BY <1>4 DEF terminal_write, BitSet, TIMER, KEYBOARD
  <2>2. QED
    BY <1>4, <2>1, FromUser DEF terminal_write
<1>5. CASE getargs(t)
  BY <1>1, <1>5, FromUser DEF getargs
<1>6. ASSUME NEW k \in Exponents, RTC_write(t, k) PROVE Inv'
  BY <1>1, <1>6, FromUser DEF RTC_write
<1>7. ASSUME NEW c \in AllCalls, ClosedCall(t, c) PROVE Inv'
  <2>1. Step(t, "user", "ret") /\ c # "bad_write"
    BY <1>7 DEF ClosedCall, NoBadWrite
  <2>2. TIMER \notin mask' /\ (KEYBOARD \in mask' => KEYBOARD \in mask)
    BY <1>1, <1>7, <2>1 DEF ClosedCall, BitCleared
  <2>3. QED
    BY <1>1, <1>7, <2>1, <2>2, FromUser DEF ClosedCall
<1>8. QED
  BY <1>2, <1>3, <1>4, <1>5, <1>6, <1>7 DEF OpenCall

-----------------------------------------------------------------------------
(* Interrupts: no task moves, and the one that is left has interrupts      *)
(* enabled.                                                                *)
LEMMA InterruptStep ==
  ASSUME Inv, TypeOK',
         PIT_interrupt_handler \/ RTC_interrupt_handler
           \/ keyboard_interrupt_handler \/ KeyDone
  PROVE  Inv'
<1> USE DEF devices, local, Inv
<1>1. UNCHANGED <<local, mask, store_eax>>
  BY DEF PIT_interrupt_handler, RTC_interrupt_handler, keyboard_interrupt_handler,
         KeyDone
<1>2. CallAtPoint' /\ ValuesSound' /\ KeyboardMasked' /\ ClosedResult'
  BY <1>1 DEF CallAtPoint, ValuesSound, KeyboardMasked, UnmasksKeyboard, ClosedResult
<1>3. \A t \in Terminals : InterruptsOn(t)' = InterruptsOn(t)
  BY <1>1 DEF InterruptsOn
<1>4. CASE PIT_interrupt_handler
  <2>1. SuspendedOpen'
    BY <1>3, <1>4 DEF PIT_interrupt_handler, SuspendedOpen
  <2>2. TimerMasked'
    BY <1>1, <1>4 DEF PIT_interrupt_handler, TimerMasked
  <2>3. QED
    BY <1>2, <2>1, <2>2
<1>5. CASE ~PIT_interrupt_handler
  <2>1. UNCHANGED curr_running_terminal_idx
    BY <1>5 DEF RTC_interrupt_handler, keyboard_interrupt_handler, KeyDone
  <2>2. SuspendedOpen'
    BY <1>3, <1>5, <2>1
       DEF RTC_interrupt_handler, keyboard_interrupt_handler, KeyDone, send_eoi,
           SuspendedOpen, TypeOK, None, Terminals
  <2>3. TimerMasked'
    BY <1>1, <2>1 DEF TimerMasked
  <2>4. QED
    BY <1>2, <2>2, <2>3
<1>6. QED
  BY <1>4, <1>5

(* Every step keeps the invariant. *)
LEMMA NextInv == ASSUME Inv, NoBadWrite, [Next]_vars PROVE Inv'
<1>1. TypeOK'
  BY TypeStep DEF Inv
<1>2. ASSUME NEW t \in Terminals, KernelStep(t) PROVE Inv'
  BY <1>1, <1>2, DisableStep, EnableStep, InnerStep DEF KernelStep
<1>3. ASSUME NEW t \in Terminals, OpenCall(t) \/ \E c \in AllCalls : ClosedCall(t, c)
      PROVE  Inv'
  BY <1>1, <1>3, BeginStep
<1>4. CASE PIT_interrupt_handler \/ RTC_interrupt_handler
             \/ keyboard_interrupt_handler \/ KeyDone
  BY <1>1, <1>4, InterruptStep
<1>5. CASE UNCHANGED vars
  BY <1>5 DEF vars, local, devices, Inv, TypeOK, CallAtPoint, SuspendedOpen, InterruptsOn,
              TimerMasked, ValuesSound, KeyboardMasked, UnmasksKeyboard, ClosedResult
<1>6. QED
  BY <1>2, <1>3, <1>4, <1>5 DEF Next

-----------------------------------------------------------------------------
(* The inductive invariant holds in every reachable state. *)
THEOREM InterruptsInvariant == NoBadWrite => (Spec => []Inv)
<1> SUFFICES ASSUME NoBadWrite PROVE Spec => []Inv
  OBVIOUS
<1>1. Inv /\ [Next]_vars => Inv'
  BY NextInv
<1>2. QED
  BY <1>1, InitInv, PTL DEF Spec

(* The globals and locals keep their types through all overlapping calls. *)
THEOREM InterruptTypes == Spec => []TypeOK
<1>1. Init => TypeOK
  BY InitInv DEF Inv
<1>2. TypeOK /\ [Next]_vars => TypeOK'
  BY TypeStep
<1>3. QED
  BY <1>1, <1>2, PTL DEF Spec

(* enable_irq and disable_irq, although they read and write the mask port  *)
(* in two steps with interrupts enabled, never leave the timer or the      *)
(* keyboard masked with no task that will unmask it.                       *)
THEOREM MasksReleased == NoBadWrite => (Spec => []MaskHasOwner)
<1>1. Inv => MaskHasOwner
  BY DEF Inv, MaskHasOwner, TimerMasked, KeyboardMasked, UnmasksKeyboard,
         EnablesKeyboard
<1>2. QED
  BY <1>1, InterruptsInvariant, PTL

(* A system call that returns with interrupts disabled loads its own       *)
(* result from store_eax.                                                  *)
THEOREM ClosedCallsResult == NoBadWrite => (Spec => []ClosedResult)
<1>1. Inv => ClosedResult
  BY DEF Inv
<1>2. QED
  BY <1>1, InterruptsInvariant, PTL
=============================================================================
