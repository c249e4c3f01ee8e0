------------------------------ MODULE Consoles -------------------------------
(***************************************************************************)
(* What screen output promises: each terminal has a page of text and a     *)
(* position in it; a program prints on its own terminal, whether it is     *)
(* displayed or not, and what the user types is echoed on the displayed    *)
(* one.  A page is a row of cells that scrolls by one line; position       *)
(* Lines * Width is behind the last cell.                                  *)
(***************************************************************************)
EXTENDS Integers

CONSTANTS Terminals, Lines, Width, Chars, BufferLength

BLANK == " "
NL == "NL"
BS == "BS"
None == -1
NoChar == "none"

Size == Lines * Width
Page == [text : [0..(Size - 1) -> Chars \cup {BLANK}], pos : 0..Size]

VARIABLES
  page,         \* of each terminal
  displayed,    \* the terminal the user sees
  writer,       \* the terminal whose program is printing, or None
  todo,         \* the character it prints next, or NoChar
  written       \* how many it has printed

vars == <<page, displayed, writer, todo, written>>

-----------------------------------------------------------------------------
EmptyPage == [text |-> [i \in 0..(Size - 1) |-> BLANK], pos |-> 0]

(* One line up; the position stays in its place on the screen. *)
ScrolledUp(p) ==
  [text |-> [i \in 0..(Size - 1) |->
               IF i + Width < Size THEN p.text[i + Width] ELSE BLANK],
   pos  |-> p.pos - Width]

WithRoom(p) == IF p.pos = Size THEN ScrolledUp(p) ELSE p

PutChar(p, c) ==
  LET q == WithRoom(p)
  IN  [text |-> [q.text EXCEPT ![q.pos] = c], pos |-> q.pos + 1]

(* To the start of the next line.  Behind a full page there is only the    *)
(* scroll, because the position already is at the start of a line.         *)
NewLine(p) ==
  IF p.pos = Size
  THEN ScrolledUp(p)
  ELSE LET q == IF p.pos >= Size - Width THEN ScrolledUp(p) ELSE p
       IN  [q EXCEPT !.pos = @ + Width - (@ % Width)]

BackSpace(p) ==
  IF p.pos = 0 THEN p
  ELSE [text |-> [p.text EXCEPT ![p.pos - 1] = BLANK], pos |-> p.pos - 1]

Put(p, c) ==
  CASE c = NL -> NewLine(p)
    [] c = BS -> BackSpace(p)
    [] OTHER -> PutChar(p, c)

-----------------------------------------------------------------------------
Init ==
  /\ page = [t \in Terminals |-> EmptyPage]
  /\ displayed \in Terminals
  /\ writer = None
  /\ todo = NoChar
  /\ written = 0

Begin(t) ==
  /\ writer = None
  /\ writer' = t
  /\ written' = 0
  /\ UNCHANGED <<page, displayed, todo>>

Choose(c) ==
  /\ writer # None /\ todo = NoChar
  /\ todo' = c
  /\ UNCHANGED <<page, displayed, writer, written>>

(* The program's character appears on the program's terminal. *)
PrintNext ==
  /\ todo # NoChar
  /\ page' = [page EXCEPT ![writer] = Put(@, todo)]
  /\ todo' = NoChar
  /\ written' = written + 1
  /\ UNCHANGED <<displayed, writer>>

(* A write that fills a buffer is followed by a new line. *)
End ==
  /\ writer # None /\ todo = NoChar
  /\ page' = IF written = BufferLength
             THEN [page EXCEPT ![writer] = NewLine(@)] ELSE page
  /\ writer' = None
  /\ written' = 0
  /\ UNCHANGED <<displayed, todo>>

Echo(c) ==
  /\ page' = [page EXCEPT ![displayed] = Put(@, c)]
  /\ UNCHANGED <<displayed, writer, todo, written>>

Show(t) ==
  /\ displayed' = t
  /\ UNCHANGED <<page, writer, todo, written>>

Clear ==
  /\ page' = [page EXCEPT ![displayed] = EmptyPage]
  /\ UNCHANGED <<displayed, writer, todo, written>>

Next ==
  \/ \E t \in Terminals : Begin(t) \/ Show(t)
  \/ \E c \in Chars \cup {NL, BS} : Choose(c) \/ Echo(c)
  \/ PrintNext \/ End \/ Clear

Spec == Init /\ [][Next]_vars
=============================================================================
