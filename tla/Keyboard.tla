------------------------------ MODULE Keyboard -------------------------------
(***************************************************************************)
(* The line editor: keyboard_interrupt_handler (keyboard.c) fills the      *)
(* buffers of the displayed terminal, terminal_read (terminal.c) hands a   *)
(* finished line to the task that waits on its terminal.                   *)
(*                                                                         *)
(* The handler starts with interrupts disabled, but putc ends with sti:    *)
(* from the first putc on, the timer may suspend the handler, on the stack *)
(* of the terminal it interrupted (kbd.host), and let tasks of the other   *)
(* terminals run.  No second key is taken meanwhile, since the end of      *)
(* interrupt has not been sent.  After a putc, every statement that        *)
(* touches what a reader reads or writes (typed_buf, curr_char_idx,        *)
(* share_buf, typing_finish) is a step of its own; the loops that copy or  *)
(* clear a buffer are one step each.  Shift and caps lock only choose the  *)
(* character and are left out.                                             *)
(***************************************************************************)
EXTENDS Integers, Sequences

CONSTANTS Terminals,
          BUFFERLENGTH,   \* 128
          BUFFER_SIZE,    \* 20, lines of history
          Chars,          \* characters one can type
          Patient,        \* does the user wait until a line has been read?
          FullLines       \* is Enter pressed when the buffer is full?

NUL == "NUL"
NL == "NL"

ASSUME KeyboardAssumption ==
  /\ 0 \in Terminals
  /\ BUFFERLENGTH \in Nat \ {0}
  /\ BUFFER_SIZE \in Nat \ {0}
  /\ NUL \notin Chars /\ NL \notin Chars
  /\ Patient \in BOOLEAN
  /\ FullLines \in BOOLEAN

Buffer == [0..(BUFFERLENGTH - 1) -> Chars \cup {NUL, NL}]

VARIABLES
  curr_terminal_idx, backspace_on,
  typed_buf, curr_char_idx, share_buf, typing_finish,      \* terminals[t]
  buffer_for_ec, buffer_size, buffer_ec_idx, hello_flag,   \* terminals[t]
  kbd,        \* the suspended handler: where it is, its host, its character
  line,       \* history: the line as the user sees it
  entered,    \* history: the line the user has finished
  dropped     \* history: terminals whose line counts a character that a
              \* reader cleared between its store and curr_char_idx++

flags == <<curr_terminal_idx, backspace_on, hello_flag>>
buffers == <<typed_buf, curr_char_idx, share_buf, typing_finish>>
recall == <<buffer_for_ec, buffer_size, buffer_ec_idx>>
vars == <<flags, buffers, recall, kbd, line, entered, dropped>>

-----------------------------------------------------------------------------
Empty == [i \in 0..(BUFFERLENGTH - 1) |-> NUL]

Idle == [at |-> "idle", host |-> 0, key |-> NUL]

Init ==
  /\ curr_terminal_idx = 0
  /\ backspace_on = FALSE
  /\ typed_buf = [t \in Terminals |-> Empty]
  /\ curr_char_idx = [t \in Terminals |-> 0]
  /\ share_buf = [t \in Terminals |-> Empty]
  /\ typing_finish = [t \in Terminals |-> FALSE]
  /\ buffer_for_ec = [t \in Terminals |-> [k \in 0..(BUFFER_SIZE - 1) |-> Empty]]
  /\ buffer_size = [t \in Terminals |-> 0]
  /\ buffer_ec_idx = [t \in Terminals |-> 0]
  /\ hello_flag = [t \in Terminals |-> FALSE]
  /\ kbd = Idle
  /\ line = [t \in Terminals |-> <<>>]
  /\ entered = [t \in Terminals |-> <<>>]
  /\ dropped = {}

(* A key of the displayed terminal t is taken. *)
Key(t) ==
  /\ kbd.at = "idle"
  /\ t = curr_terminal_idx
  /\ Patient => ~typing_finish[t]

(* The handler for terminal t goes from one step to the next. *)
Step(t, from, to) ==
  /\ t = curr_terminal_idx
  /\ kbd.at = from
  /\ kbd' = IF to = "idle" THEN Idle ELSE [kbd EXCEPT !.at = to]

(* typed_buf[i] = ch.  In terminal_t the buffer lies between share_buf and *)
(* typing_finish, which receive what is written outside.                   *)
Store(t, i, ch) ==
  /\ typed_buf' = IF i \in 0..(BUFFERLENGTH - 1)
                  THEN [typed_buf EXCEPT ![t][i] = ch] ELSE typed_buf
  /\ share_buf' = IF i = -1 THEN [share_buf EXCEPT ![t][BUFFERLENGTH - 1] = ch]
                            ELSE share_buf
  /\ typing_finish' = IF i = BUFFERLENGTH
                      THEN [typing_finish EXCEPT ![t] = TRUE] ELSE typing_finish

Full(t) == curr_char_idx[t] = BUFFERLENGTH

-----------------------------------------------------------------------------
(* Keys that finish before interrupts are enabled.                         *)

(* An ordinary character: stored and counted before putc. *)
Type(t, ch) ==
  /\ Key(t) /\ ~Full(t) /\ ~backspace_on
  /\ Store(t, curr_char_idx[t], ch)
  /\ curr_char_idx' = [curr_char_idx EXCEPT ![t] = @ + 1]
  /\ line' = [line EXCEPT ![t] = Append(@, ch)]
  /\ UNCHANGED <<flags, recall, kbd, entered, dropped>>

CtrlL(t) ==
  /\ Key(t) /\ ~Full(t)
  /\ typed_buf' = [typed_buf EXCEPT ![t] = Empty]
  /\ curr_char_idx' = [curr_char_idx EXCEPT ![t] = 0]
  /\ line' = [line EXCEPT ![t] = <<>>]
  /\ dropped' = dropped \ {t}
  /\ UNCHANGED <<flags, share_buf, typing_finish, recall, kbd, entered>>

AltF(t, n) ==
  /\ Key(t)
  /\ curr_terminal_idx' = n
  /\ UNCHANGED <<backspace_on, hello_flag, buffers, recall, kbd, line, entered,
                 dropped>>

BackspaceReleased ==
  /\ kbd.at = "idle"
  /\ backspace_on
  /\ backspace_on' = FALSE
  /\ UNCHANGED <<curr_terminal_idx, hello_flag, buffers, recall, kbd, line,
                 entered, dropped>>

-----------------------------------------------------------------------------
(* Backspace.  While it is held, characters act as backspace too.          *)

Backspace(t, h) ==
  /\ Key(t) /\ ~Full(t)
  /\ backspace_on' = TRUE
  /\ kbd' = IF curr_char_idx[t] > 0 THEN [Idle EXCEPT !.at = "erase", !.host = h]
                                    ELSE kbd
  /\ UNCHANGED <<curr_terminal_idx, hello_flag, buffers, recall, line, entered,
                 dropped>>

(* Mutant: the index stays. *)
IndexKept(i) == i

IndexBelow(i) == i - 1

(* After putc('\b'): the index, but not the buffer. *)
Erase(t) ==
  /\ Step(t, "erase", "idle")
  /\ curr_char_idx' = [curr_char_idx EXCEPT ![t] = IndexBelow(@)]
  /\ line' = [line EXCEPT ![t] = IF @ = <<>> THEN @ ELSE SubSeq(@, 1, Len(@) - 1)]
  /\ UNCHANGED <<flags, typed_buf, share_buf, typing_finish, recall, entered,
                 dropped>>

-----------------------------------------------------------------------------
(* Enter, and any other key when the buffer is full, finish the line.      *)

Enter(t, h) ==
  /\ Key(t)
  /\ Full(t) => FullLines
  /\ kbd' = [at |-> "history", host |-> h, key |-> NL]
  /\ UNCHANGED <<flags, buffers, recall, line, entered, dropped>>

(* key is the character that will start the next line, or NUL for backspace. *)
Overflow(t, h, key) ==
  /\ Key(t) /\ Full(t)
  /\ kbd' = [at |-> "history", host |-> h, key |-> key]
  /\ backspace_on' = (backspace_on \/ key = NUL)
  /\ UNCHANGED <<curr_terminal_idx, hello_flag, buffers, recall, line, entered,
                 dropped>>

(* Mutant: the history is one entry too long. *)
WrapLate(n) == IF n = BUFFER_SIZE + 1 THEN 0 ELSE n

Wrap(n) == IF n = BUFFER_SIZE THEN 0 ELSE n

(* The typed line goes to the history, unless hello or counter has run. *)
History(t) ==
  LET n == Wrap(buffer_size[t])
  IN  /\ Step(t, "history", IF kbd.key = NL THEN "newline" ELSE "share")
      /\ IF hello_flag[t]
         THEN /\ buffer_size' = [buffer_size EXCEPT ![t] = n]
              /\ UNCHANGED buffer_for_ec
         ELSE /\ buffer_size' = [buffer_size EXCEPT ![t] = n + 1]
              /\ buffer_for_ec' = [buffer_for_ec EXCEPT ![t][n] = typed_buf[t]]
      /\ UNCHANGED <<flags, buffers, buffer_ec_idx, line, entered, dropped>>

(* Mutant: the newline replaces the last character. *)
LastIndex(t) == curr_char_idx[t] - 1

NewlineIndex(t) == curr_char_idx[t]

Newline(t) ==
  /\ Step(t, "newline", "share")
  /\ Store(t, NewlineIndex(t), NL)
  /\ UNCHANGED <<flags, curr_char_idx, recall, line, entered, dropped>>

Share(t) ==
  /\ Step(t, "share", "finish")
  /\ share_buf' = [share_buf EXCEPT ![t] = typed_buf[t]]
  /\ UNCHANGED <<flags, typed_buf, curr_char_idx, typing_finish, recall, line,
                 entered, dropped>>

Finish(t) ==
  /\ Step(t, "finish", "clear")
  /\ buffer_ec_idx' = [buffer_ec_idx EXCEPT ![t] = buffer_size[t]]
  /\ typing_finish' = [typing_finish EXCEPT ![t] = TRUE]
  /\ entered' = [entered EXCEPT ![t] = line[t]]
  /\ line' = [line EXCEPT ![t] = <<>>]
  /\ UNCHANGED <<flags, typed_buf, curr_char_idx, share_buf, buffer_for_ec,
                 buffer_size, dropped>>

(* clear_buffer, after which a reader may already be in terminal_read. *)
Clear(t) ==
  /\ Step(t, "clear", "reset")
  /\ typed_buf' = [typed_buf EXCEPT ![t] = Empty]
  /\ UNCHANGED <<flags, curr_char_idx, share_buf, typing_finish, recall, line,
                 entered, dropped>>

(* The index; Enter and backspace are done. *)
Reset(t) ==
  /\ Step(t, "reset", IF kbd.key \in Chars THEN "store" ELSE "idle")
  /\ curr_char_idx' = [curr_char_idx EXCEPT ![t] = 0]
  /\ UNCHANGED <<flags, typed_buf, share_buf, typing_finish, recall, line, entered,
                 dropped>>

(* The character that overflowed is stored as the first of the next line. *)
StoreKey(t) ==
  /\ Step(t, "store", "count")
  /\ Store(t, curr_char_idx[t], kbd.key)
  /\ UNCHANGED <<flags, curr_char_idx, recall, line, entered, dropped>>

(* It is counted, whether or not it is still in the buffer, and shown. *)
Count(t) ==
  /\ Step(t, "count", "idle")
  /\ curr_char_idx' = [curr_char_idx EXCEPT ![t] = @ + 1]
  /\ line' = [line EXCEPT ![t] = Append(@, kbd.key)]
  /\ UNCHANGED <<flags, typed_buf, share_buf, typing_finish, recall, entered,
                 dropped>>

-----------------------------------------------------------------------------
(* The up arrow: erase the line, then type the previous one of the history. *)

(* strlen; BUFFERLENGTH if there is no NUL. *)
Strlen(b) ==
  CHOOSE n \in 0..BUFFERLENGTH :
    /\ \A i \in 0..(n - 1) : b[i] # NUL
    /\ n < BUFFERLENGTH => b[n] = NUL

Unwind(t) == IF curr_char_idx[t] > 0 THEN "unwind" ELSE "recall"

(* A full line of the history is not recalled: its strlen would run on     *)
(* into the next entry.                                                    *)
Up(t, h) ==
  /\ Key(t)
  /\ buffer_ec_idx[t] > 0
  /\ Strlen(buffer_for_ec[t][buffer_ec_idx[t] - 1]) < BUFFERLENGTH
  /\ buffer_ec_idx' = [buffer_ec_idx EXCEPT ![t] = @ - 1]
  /\ kbd' = [Idle EXCEPT !.at = Unwind(t), !.host = h]
  /\ UNCHANGED <<flags, buffers, buffer_for_ec, buffer_size, line, entered,
                 dropped>>

UnwindOne(t) ==
  /\ Step(t, "unwind", IF curr_char_idx[t] - 1 > 0 THEN "unwind" ELSE "recall")
  /\ curr_char_idx' = [curr_char_idx EXCEPT ![t] = @ - 1]
  /\ UNCHANGED <<flags, typed_buf, share_buf, typing_finish, recall, line,
                 entered, dropped>>

(* The characters of b before the first NUL, in a cleared buffer. *)
Copied(b) == [i \in 0..(BUFFERLENGTH - 1) |-> IF i < Strlen(b) THEN b[i] ELSE NUL]

Recall(t) ==
  /\ Step(t, "recall", "length")
  /\ typed_buf' = [typed_buf EXCEPT ![t] = Copied(buffer_for_ec[t][buffer_ec_idx[t]])]
  /\ UNCHANGED <<flags, curr_char_idx, share_buf, typing_finish, recall, line,
                 entered, dropped>>

Length(t) ==
  LET b == buffer_for_ec[t][buffer_ec_idx[t]]
  IN  /\ Step(t, "length", "idle")
      /\ curr_char_idx' = [curr_char_idx EXCEPT ![t] = Strlen(b)]
      /\ line' = [line EXCEPT ![t] = [i \in 1..Strlen(b) |-> b[i - 1]]]
      /\ dropped' = dropped \ {t}
      /\ UNCHANGED <<flags, typed_buf, share_buf, typing_finish, recall, entered>>

-----------------------------------------------------------------------------
(* Tasks.                                                                  *)

(* The end of terminal_read on terminal t: the task takes share_buf[t]. It *)
(* runs unless the handler is suspended on its stack.  The typing buffer   *)
(* that is cleared is the one of the displayed terminal; what the user     *)
(* typed ahead on terminal t is meant to be discarded.                     *)
Read(t) ==
  /\ kbd.at # "idle" => kbd.host # t
  /\ typing_finish[t]
  /\ typing_finish' = [typing_finish EXCEPT ![t] = FALSE]
  /\ typed_buf' = [typed_buf EXCEPT ![curr_terminal_idx] = Empty]
  /\ curr_char_idx' = [curr_char_idx EXCEPT ![curr_terminal_idx] = 0]
  /\ line' = [line EXCEPT ![t] = <<>>]
  /\ dropped' = IF kbd.at = "count" THEN dropped \cup {curr_terminal_idx}
                                    ELSE dropped \ {curr_terminal_idx}
  /\ UNCHANGED <<flags, share_buf, recall, kbd, entered>>

(* execute of hello or counter marks the displayed terminal, for good. *)
ExecuteHello ==
  /\ hello_flag' = [hello_flag EXCEPT ![curr_terminal_idx] = TRUE]
  /\ UNCHANGED <<curr_terminal_idx, backspace_on, buffers, recall, kbd, line,
                 entered, dropped>>

-----------------------------------------------------------------------------
Next ==
  \E t \in Terminals :
    \/ \E ch \in Chars : Type(t, ch)
    \/ CtrlL(t)
    \/ \E n \in Terminals : AltF(t, n)
    \/ \E h \in Terminals :
         \/ Backspace(t, h) \/ Enter(t, h) \/ Up(t, h)
         \/ \E key \in Chars \cup {NUL} : Overflow(t, h, key)
    \/ Erase(t)
    \/ History(t) \/ Newline(t) \/ Share(t) \/ Finish(t)
    \/ Clear(t) \/ Reset(t) \/ StoreKey(t) \/ Count(t)
    \/ UnwindOne(t) \/ Recall(t) \/ Length(t)
    \/ Read(t)
    \/ BackspaceReleased
    \/ ExecuteHello

Spec == Init /\ [][Next]_vars

-----------------------------------------------------------------------------
(* Properties.                                                             *)

(* Types, and the indices in the bounds of their arrays: buffer_size and   *)
(* buffer_ec_idx may be one behind the last entry, as may curr_char_idx.   *)
TypeOK ==
  /\ curr_terminal_idx \in Terminals
  /\ backspace_on \in BOOLEAN
  /\ typed_buf \in [Terminals -> Buffer]
  /\ curr_char_idx \in [Terminals -> 0..BUFFERLENGTH]
  /\ share_buf \in [Terminals -> Buffer]
  /\ typing_finish \in [Terminals -> BOOLEAN]
  /\ buffer_for_ec \in [Terminals -> [0..(BUFFER_SIZE - 1) -> Buffer]]
  /\ buffer_size \in [Terminals -> 0..BUFFER_SIZE]
  /\ buffer_ec_idx \in [Terminals -> 0..BUFFER_SIZE]
  /\ hello_flag \in [Terminals -> BOOLEAN]
  /\ kbd.host \in Terminals
  /\ dropped \subseteq Terminals

(* Buffer b holds line s, from its character number k on. *)
Holds(b, s, k) ==
  Len(s) <= BUFFERLENGTH /\ \A i \in k..Len(s) : b[i - 1] = s[i]

(* The first character of terminal t's line that a buffer must hold. *)
First(t) == IF t \in dropped THEN 2 ELSE 1

(* The user's line and the buffer agree on every terminal, also on hidden  *)
(* ones with a half-typed line: what backspace, the up arrow, overflow and *)
(* readers do to one, they do to the other.  The one exception is a reader *)
(* that runs between the store of a character that overflowed and its      *)
(* curr_char_idx++: the line then counts a first character that the buffer *)
(* has lost, and agrees with it in the others.                             *)
Editing ==
  kbd.at = "idle" =>
    \A t \in Terminals :
      /\ curr_char_idx[t] = Len(line[t])
      /\ Holds(typed_buf[t], line[t], First(t))

(* When a reader is released, share_buf of its terminal holds the line the *)
(* user finished there, ended by a newline if it does not fill the buffer, *)
(* and without its first character if that was lost in the way above.      *)
LineDelivered ==
  \A t \in Terminals :
    typing_finish[t] =>
      /\ Holds(share_buf[t], entered[t], First(t))
      /\ Len(entered[t]) < BUFFERLENGTH => share_buf[t][Len(entered[t])] = NL
=============================================================================
