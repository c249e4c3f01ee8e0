------------------------------- MODULE Screen --------------------------------
(***************************************************************************)
(* Screen output: putc, putc_background and clear (lib.c), the loop of     *)
(* terminal_write (terminal.c), and the handlers that write to the screen  *)
(* between two of its characters: the keyboard's echo, Ctrl-L and Alt+F    *)
(* (keyboard.c) and the mouse (mouse.c).                                   *)
(*                                                                         *)
(* putc and putc_background run with interrupts disabled and enable them   *)
(* at their end; they are one step each.  terminal_write masks the timer,  *)
(* so there is one at a time; it enters with interrupts disabled, and from *)
(* its first character on, handlers run between the test that chooses one  *)
(* of the two functions and the call, and between two characters.          *)
(*                                                                         *)
(* The attribute bytes and programs that draw through vidmap are left out. *)
(***************************************************************************)
EXTENDS Integers, Sequences

CONSTANTS Terminals,
          NUM_ROWS, NUM_COLS,   \* 25 and 80
          BUFFERLENGTH,         \* 128
          Chars,                \* printable characters
          MaxBytes,             \* bound on the bytes of one terminal_write
          MouseCells,           \* bound on the cells the mouse moves to
          MaxWord               \* bound on the word a click types

ASSUME ScreenAssumption ==
  /\ 0 \in Terminals /\ Terminals \subseteq Nat
  /\ NUM_ROWS \in Nat \ {0}
  /\ NUM_COLS \in Nat \ {0}
  /\ BUFFERLENGTH \in Nat
  /\ MaxBytes \in Nat
  /\ MaxWord \in Nat
  /\ MouseCells \subseteq 0..(NUM_ROWS * NUM_COLS - 1)
  /\ Chars \cap {"NL", "BS", " ", "?", "none"} = {}

BLANK == " "
NL == "NL"
BS == "BS"
ARROW == "?"        \* what the mouse draws
None == -1
NoChar == "none"

Cells == 0..(NUM_ROWS * NUM_COLS - 1)

VARIABLES
  curr_terminal_idx,
  VIDEO,                    \* the memory the screen shows
  video_mem,                \* terminals[t].video_mem
  screen_x, screen_y,       \* terminals[t].screen_x, screen_y
  pos,                      \* the CRT controller's cursor
  write,                    \* terminal_write: point, terminal, i, character
  mouse                     \* cell, word being typed by a click, nested in a write?

memory == <<VIDEO, video_mem, screen_x, screen_y, pos>>
vars == <<curr_terminal_idx, memory, write, mouse>>

NoWrite == [at |-> "idle", t |-> None, i |-> 0, c |-> NoChar, shown |-> FALSE]

Erased == [i \in Cells |-> BLANK]

(* Where mouse_init draws the arrow. *)
MouseHome == (NUM_ROWS * NUM_COLS) \div 2

Init ==
  /\ curr_terminal_idx = 0
  /\ VIDEO = [Erased EXCEPT ![MouseHome] = ARROW]
  /\ video_mem = [t \in Terminals |-> Erased]
  /\ screen_x = [t \in Terminals |-> 0]
  /\ screen_y = [t \in Terminals |-> 0]
  /\ pos = 0
  /\ write = NoWrite
  /\ mouse = [cell |-> MouseHome, word |-> <<>>, nested |-> FALSE]

-----------------------------------------------------------------------------
(* What putc and putc_background do to the cursor x, y and to memory.      *)

(* Mutant: a new line in the last row does not scroll. *)
ScrollsAtEnd(c, x, y) == c # BS /\ y = NUM_ROWS /\ x = 0

Scrolls(c, x, y) ==
  /\ c # BS
  /\ \/ y = NUM_ROWS /\ x = 0
     \/ c = NL /\ y = NUM_ROWS - 1

(* The loop over the memory, which moves every row of m up by one. *)
ScrolledUp(m) ==
  [i \in Cells |->
     IF i > (NUM_ROWS - 1) * NUM_COLS - 1 THEN BLANK ELSE m[i + NUM_COLS]]

(* The cursor after the scroll, if there is one. *)
Scrolled(c, x, y) == IF Scrolls(c, x, y) THEN <<0, NUM_ROWS - 1>> ELSE <<x, y>>

(* The column is compared with NUM_COLS after the increment in putc, and   *)
(* before it, as it was loaded, in putc_background.                        *)
WrapsInPutc(x) == x + 1 = NUM_COLS
WrapsInBackground(x) == x = NUM_COLS

(* Mutant: without the remainder. *)
NextColumnUnbounded(x) == x + 1

NextColumn(x) == (x + 1) % NUM_COLS

(* Cursor after character c at x, y. *)
Advanced(c, x, y, wraps) ==
  LET a == Scrolled(c, x, y)[1]
      b == Scrolled(c, x, y)[2]
  IN  CASE c = NL -> IF Scrolls(c, x, y) THEN <<a, b>> ELSE <<0, y + 1>>
        [] c = BS -> IF x # 0 THEN <<x - 1, y>>
                     ELSE IF y # 0 THEN <<NUM_COLS - 1, y - 1>>
                     ELSE <<x, y>>
        [] OTHER -> <<NextColumn(a), IF wraps THEN b + 1 ELSE b>>

(* Memory m, scrolled if need be, after character c at x, y. *)
Printed(m, c, x, y) ==
  LET a == Scrolled(c, x, y)[1]
      b == Scrolled(c, x, y)[2]
      n == Advanced(c, x, y, FALSE)
  IN  CASE c = NL -> m
        [] c = BS -> IF x = 0 /\ y = 0 THEN m
                     ELSE [m EXCEPT ![NUM_COLS * n[2] + n[1]] = BLANK]
        [] OTHER -> [m EXCEPT ![NUM_COLS * b + a] = c]

Moved(t, n) ==
  /\ screen_x' = [screen_x EXCEPT ![t] = n[1]]
  /\ screen_y' = [screen_y EXCEPT ![t] = n[2]]

(* The screen and the backup of the displayed terminal; a cell of the      *)
(* screen that shows '?' is scrolled from the backup.                      *)
putc(c) ==
  LET t == curr_terminal_idx
      x == screen_x[t]
      y == screen_y[t]
      n == Advanced(c, x, y, WrapsInPutc(Scrolled(c, x, y)[1]))
      back == video_mem[t]
      seen == [i \in Cells |-> IF VIDEO[i] # ARROW THEN VIDEO[i] ELSE back[i]]
  IN  /\ VIDEO' = Printed(IF Scrolls(c, x, y) THEN ScrolledUp(seen) ELSE VIDEO,
                          c, x, y)
      /\ video_mem' = [video_mem EXCEPT
           ![t] = Printed(IF Scrolls(c, x, y) THEN ScrolledUp(back) ELSE back,
                          c, x, y)]
      /\ Moved(t, n)
      /\ pos' = NUM_COLS * n[2] + n[1]

(* Only the backup of terminal t. *)
putc_background(t, c) ==
  LET x == screen_x[t]
      y == screen_y[t]
      back == video_mem[t]
  IN  /\ video_mem' = [video_mem EXCEPT
           ![t] = Printed(IF Scrolls(c, x, y) THEN ScrolledUp(back) ELSE back,
                          c, x, y)]
      /\ Moved(t, Advanced(c, x, y, WrapsInBackground(x)))
      /\ UNCHANGED <<VIDEO, pos>>

-----------------------------------------------------------------------------
(* terminal_write.                                                         *)

(* A write that the mouse handler has interrupted waits for it. *)
WriterRuns == ~mouse.nested

WriteBegin(t) ==
  /\ write.at = "idle"
  /\ write' = [NoWrite EXCEPT !.at = "loop", !.t = t]
  /\ UNCHANGED <<curr_terminal_idx, memory, mouse>>

(* The test in the loop, for the next character c. *)
WriteTest(c) ==
  /\ write.at = "loop" /\ WriterRuns
  /\ write.i < MaxBytes
  /\ write' = [write EXCEPT !.at = "put", !.c = c,
                            !.shown = (curr_terminal_idx = write.t)]
  /\ UNCHANGED <<curr_terminal_idx, memory, mouse>>

WritePut ==
  /\ write.at = "put" /\ WriterRuns
  /\ \/ write.shown /\ putc(write.c)
     \/ ~write.shown /\ putc_background(write.t, write.c)
  /\ write' = [write EXCEPT !.at = "loop", !.i = @ + 1, !.c = NoChar, !.shown = FALSE]
  /\ UNCHANGED <<curr_terminal_idx, mouse>>

WriteEnd ==
  /\ write.at = "loop" /\ WriterRuns
  /\ IF write.i = BUFFERLENGTH
     THEN putc(NL)
     ELSE UNCHANGED memory
  /\ write' = NoWrite
  /\ UNCHANGED <<curr_terminal_idx, mouse>>

-----------------------------------------------------------------------------
(* Handlers.                                                               *)

InterruptsOn == write.at = "idle" \/ write.i > 0

(* putc from the keyboard handler. *)
Echo(c) ==
  /\ InterruptsOn
  /\ putc(c)
  /\ UNCHANGED <<curr_terminal_idx, write, mouse>>

(* Ctrl-L: clear and the cursor. *)
Clear ==
  /\ InterruptsOn
  /\ VIDEO' = Erased
  /\ video_mem' = [video_mem EXCEPT ![curr_terminal_idx] = Erased]
  /\ Moved(curr_terminal_idx, <<0, 0>>)
  /\ pos' = 0
  /\ UNCHANGED <<curr_terminal_idx, write, mouse>>

(* Mutant: Alt+F without the memcpy. *)
AltFWithoutCopy(n) ==
  /\ InterruptsOn
  /\ curr_terminal_idx' = n
  /\ pos' = NUM_COLS * screen_y[n] + screen_x[n]
  /\ UNCHANGED <<VIDEO, video_mem, screen_x, screen_y, write, mouse>>

AltF(n) ==
  /\ InterruptsOn
  /\ curr_terminal_idx' = n
  /\ VIDEO' = video_mem[n]
  /\ pos' = NUM_COLS * screen_y[n] + screen_x[n]
  /\ UNCHANGED <<video_mem, screen_x, screen_y, write, mouse>>

(* The characters from the start of cell i's row to the next blank, which  *)
(* may be in a later row.                                                  *)
WordAt(i) ==
  LET start == i - (i % NUM_COLS)
      text == video_mem[curr_terminal_idx]
      end == CHOOSE e \in start..(NUM_ROWS * NUM_COLS) :
               /\ \A k \in start..(e - 1) : text[k] # BLANK
               /\ e < NUM_ROWS * NUM_COLS => text[e] = BLANK
  IN  [k \in 1..(end - start) |-> text[start + k - 1]]

(* The mouse moves to cell i; with the button pressed it types a word. *)
MouseMove(i, word) ==
  /\ InterruptsOn
  /\ mouse.word = <<>>
  /\ Len(word) <= MaxWord
  /\ VIDEO' = [VIDEO EXCEPT ![mouse.cell] = video_mem[curr_terminal_idx][mouse.cell],
                            ![i] = ARROW]
  /\ mouse' = [cell |-> i, word |-> word,
               nested |-> word # <<>> /\ write.at # "idle"]
  /\ UNCHANGED <<curr_terminal_idx, video_mem, screen_x, screen_y, pos, write>>

(* A handler that no write was interrupted by may be suspended by the      *)
(* timer; then it waits for the write of another terminal, which masks it. *)
MouseType ==
  /\ mouse.word # <<>>
  /\ mouse.nested \/ write.at = "idle"
  /\ putc(Head(mouse.word))
  /\ mouse' = [mouse EXCEPT !.word = Tail(@),
                            !.nested = @ /\ Tail(mouse.word) # <<>>]
  /\ UNCHANGED <<curr_terminal_idx, write>>

-----------------------------------------------------------------------------
Writing == (\E c \in Chars \cup {NL, BS} : WriteTest(c)) \/ WritePut \/ WriteEnd

Next ==
  \/ \E t \in Terminals : WriteBegin(t) \/ AltF(t)
  \/ Writing
  \/ \E c \in Chars \cup {NL, BS} : Echo(c)
  \/ Clear
  \/ \E i \in MouseCells : MouseMove(i, <<>>) \/ MouseMove(i, WordAt(i))
  \/ MouseType

Spec == Init /\ [][Next]_vars

(* terminal_write goes on whenever it can. *)
FairSpec == Spec /\ WF_vars(Writing)

-----------------------------------------------------------------------------
(* Properties.                                                             *)

(* Types, and the cursor: in the page, or at the start of the row below. *)
TypeOK ==
  /\ curr_terminal_idx \in Terminals
  /\ VIDEO \in [Cells -> Chars \cup {BLANK, ARROW}]
  /\ video_mem \in [Terminals -> [Cells -> Chars \cup {BLANK}]]
  /\ \A t \in Terminals :
       /\ screen_x[t] \in 0..(NUM_COLS - 1)
       /\ screen_y[t] \in 0..NUM_ROWS
       /\ screen_y[t] = NUM_ROWS => screen_x[t] = 0
  /\ write.at \in {"idle", "loop", "put"}
  /\ mouse.cell \in Cells

(* The screen shows the page of the displayed terminal, except where the   *)
(* mouse arrow is, and the hardware cursor is that terminal's cursor.      *)
Mirrored ==
  /\ \A i \in Cells :
       \/ VIDEO[i] = video_mem[curr_terminal_idx][i]
       \/ i = mouse.cell /\ VIDEO[i] = ARROW
  /\ pos = NUM_COLS * screen_y[curr_terminal_idx] + screen_x[curr_terminal_idx]

(* Alt+F came between terminal_write's test and its call. *)
SwitchedBeforeCall ==
  write.at = "put" /\ write.shown # (curr_terminal_idx = write.t)

(* The screen is a mirror of the page through scrolling, clicks, switches  *)
(* and the output of hidden programs; only a call of terminal_write that   *)
(* was decided for the other terminal breaks it, and the next Alt+F, or    *)
(* Ctrl-L, mends it.                                                       *)
StaysMirrored ==
  /\ Mirrored
  /\ [][/\ Mirrored => Mirrored' \/ (WritePut /\ SwitchedBeforeCall)
        /\ curr_terminal_idx' # curr_terminal_idx => Mirrored'
        /\ Clear => Mirrored']_vars

(* Consoles, the promise, for the pages in the backups. *)
Promise == INSTANCE Consoles WITH
  Lines <- NUM_ROWS, Width <- NUM_COLS, BufferLength <- BUFFERLENGTH,
  page <- [t \in Terminals |->
             [text |-> video_mem[t], pos |-> NUM_COLS * screen_y[t] + screen_x[t]]],
  displayed <- curr_terminal_idx,
  writer <- write.t,
  todo <- write.c,
  written <- write.i


(* Besides SwitchedBeforeCall, two steps do not: a hidden program fills a  *)
(* row; a hidden program has written BUFFERLENGTH bytes.                   *)
RowFilledHidden ==
  /\ write.at = "put" /\ ~write.shown
  /\ write.c \in Chars /\ screen_x[write.t] = NUM_COLS - 1
BufferFilledHidden ==
  write.at = "loop" /\ write.i = BUFFERLENGTH /\ curr_terminal_idx # write.t

(* Every other step keeps the promise, from whatever state those left.     *)
KeepsPromiseOtherwise ==
  /\ Promise!Init
  /\ [][\/ Promise!Next
        \/ WritePut /\ (RowFilledHidden \/ SwitchedBeforeCall)
        \/ WriteEnd /\ BufferFilledHidden]_(Promise!vars)
=============================================================================
