--------------------------- MODULE KeyboardProofs ----------------------------
(***************************************************************************)
(* Proofs about Keyboard, for every number of terminals and every length   *)
(* of the buffer and of the history, for a user who waits until a finished *)
(* line has been read and does not press Enter on a full buffer.  (What    *)
(* happens with another user is shown by changing the constants.)          *)
(*                                                                         *)
(* Editing and LineDelivered speak of a handler that is idle and of a line *)
(* that is finished.  The invariant says what holds at every point in      *)
(* between, where the handler is suspended and readers run.  It finds the  *)
(* one point where a reader can part the line from the buffer: between the *)
(* store of a character that overflowed and its curr_char_idx++.           *)
(***************************************************************************)
EXTENDS Keyboard, NaturalFacts, TLAPS

WaitingUser == Patient /\ ~FullLines

-----------------------------------------------------------------------------
(* strlen finds the first NUL of a buffer, or its end. *)
LEMMA StrlenIs ==
  ASSUME NEW b \in Buffer
  PROVE  /\ Strlen(b) \in 0..BUFFERLENGTH
         /\ \A i \in 0..(Strlen(b) - 1) : b[i] # NUL
         /\ Strlen(b) < BUFFERLENGTH => b[Strlen(b)] = NUL
<1> DEFINE ends == {n \in 0..BUFFERLENGTH : n < BUFFERLENGTH => b[n] = NUL}
<1>1. ends \subseteq Nat /\ BUFFERLENGTH \in ends
  BY KeyboardAssumption
<1>2. PICK n \in ends : \A k \in ends : n <= k
  <2> HIDE DEF ends
  <2> QED
    BY <1>1, LeastElement
<1>3. \A i \in 0..(n - 1) : b[i] # NUL
  BY <1>2, KeyboardAssumption
<1>4. QED
  BY <1>2, <1>3 DEF Strlen

(* Every buffer holds the empty line. *)
LEMMA EmptyLine == Len(<< >>) = 0 /\ \A b : \A k \in {1, 2} : Holds(b, << >>, k)
<1>1. Len(<< >>) = 0
  OBVIOUS
<1>2. QED
  BY <1>1, KeyboardAssumption DEF Holds

(* A line whose first character was lost is held from the second on. *)
LEMMA FirstIs == \A t : First(t) \in {1, 2} /\ First(t)' \in {1, 2}
BY DEF First

(* A character stored inside a buffer leaves buffers. *)
LEMMA BufferStored ==
  ASSUME NEW f \in [Terminals -> Buffer], NEW t \in Terminals,
         NEW i \in 0..(BUFFERLENGTH - 1), NEW ch \in Chars \cup {NUL, NL}
  PROVE  [f EXCEPT ![t][i] = ch] \in [Terminals -> Buffer]
BY DEF Buffer

-----------------------------------------------------------------------------
(* The inductive invariant.                                                *)

HandlerPoints == {"idle", "erase", "history", "newline", "share", "finish", "clear",
                  "reset", "store", "count", "unwind", "recall", "length"}

(* Types of the suspended handler and of the user's view. *)
ViewOK ==
  /\ kbd \in [at : HandlerPoints, host : Terminals, key : Chars \cup {NUL, NL}]
  /\ line \in [Terminals -> Seq(Chars \cup {NUL, NL})]
  /\ entered \in [Terminals -> Seq(Chars \cup {NUL, NL})]

(* A line is finished on the displayed terminal only, and the handler has  *)
(* nothing left to do with it but to clear the buffer and to start the     *)
(* next line with the character that overflowed.                           *)
Restarting == {"clear", "reset", "store", "count"}

OneFinished ==
  \A t \in Terminals :
    typing_finish[t] => t = curr_terminal_idx /\ kbd.at \in {"idle"} \cup Restarting

(* Buffer, index and the user's line agree. *)
InSync(t) ==
  /\ curr_char_idx[t] = Len(line[t])
  /\ Holds(typed_buf[t], line[t], First(t))

HiddenInSync == \A t \in Terminals \ {curr_terminal_idx} : InSync(t)

(* Line s in buffer b is followed by a newline, unless it fills the buffer. *)
Ended(b, s) == Len(s) < BUFFERLENGTH => b[Len(s)] = NL

(* Where the handler is suspended, for the displayed terminal t. *)
EraseState(t) == kbd.at = "erase" => curr_char_idx[t] > 0
HistoryState(t) ==
  /\ kbd.at = "history" => (kbd.key = NL <=> curr_char_idx[t] < BUFFERLENGTH)
  /\ kbd.at = "newline" => curr_char_idx[t] < BUFFERLENGTH
ShareState(t) ==
  /\ kbd.at = "share" => Ended(typed_buf[t], line[t])
  /\ kbd.at = "finish" =>
       Holds(share_buf[t], line[t], First(t)) /\ Ended(share_buf[t], line[t])

(* A reader may run at any of these points.  Only between the store and    *)
(* the count can it take away something that the handler relies on.        *)
RestartState(t) ==
  /\ kbd.at \in Restarting => line[t] = << >>
  /\ kbd.at \in {"store", "count"} => curr_char_idx[t] = 0 /\ kbd.key \in Chars
  /\ kbd.at = "count" /\ t \notin dropped => typed_buf[t][0] = kbd.key

RecallState(t) ==
  /\ kbd.at \in {"unwind", "recall", "length"} => buffer_ec_idx[t] < BUFFER_SIZE
  /\ kbd.at = "unwind" => curr_char_idx[t] > 0
  /\ kbd.at = "length" => typed_buf[t] = Copied(buffer_for_ec[t][buffer_ec_idx[t]])

HandlerState ==
  LET t == curr_terminal_idx
  IN  /\ kbd.at \in {"idle", "erase", "history", "newline", "share"} => InSync(t)
      /\ EraseState(t) /\ HistoryState(t) /\ ShareState(t) /\ RestartState(t)
      /\ RecallState(t)

Inv ==
  /\ TypeOK
  /\ ViewOK
  /\ OneFinished
  /\ HiddenInSync
  /\ HandlerState
  /\ LineDelivered

(* Empty buffers everywhere, and an idle handler. *)
LEMMA InitInv == Init => Inv
<1> SUFFICES ASSUME Init PROVE Inv
  OBVIOUS
<1> USE KeyboardAssumption
<1>1. Empty \in Buffer
  BY DEF Empty, Buffer
<1>2. TypeOK
  <2>1. kbd.host \in Terminals
    BY DEF Init, Idle
  <2>2. buffer_for_ec \in [Terminals -> [0..(BUFFER_SIZE - 1) -> Buffer]]
    BY <1>1 DEF Init
  <2>3. 0 \in 0..BUFFERLENGTH /\ 0 \in 0..BUFFER_SIZE
    OBVIOUS
  <2>4. QED
    BY <1>1, <2>1, <2>2, <2>3 DEF Init, TypeOK
<1>3. ViewOK
  BY DEF Init, ViewOK, Idle, HandlerPoints
<1>4. \A t \in Terminals : InSync(t)
  <2>1. \A t \in Terminals : curr_char_idx[t] = 0 /\ line[t] = << >>
    BY DEF Init
  <2>2. QED
    BY <2>1, EmptyLine, FirstIs DEF InSync
<1>5. HandlerState
  BY <1>3, <1>4
  DEF Init, HandlerState, EraseState, HistoryState, ShareState, RestartState,
      RecallState, Restarting, Idle
<1>6. OneFinished /\ HiddenInSync /\ LineDelivered
  BY <1>4 DEF Init, OneFinished, HiddenInSync, LineDelivered
<1>7. QED
  BY <1>2, <1>3, <1>5, <1>6 DEF Inv

-----------------------------------------------------------------------------
(* Common parts.                                                           *)

(* The line of terminal u is not touched. *)
Untouched(u) ==
  /\ typed_buf'[u] = typed_buf[u]
  /\ curr_char_idx'[u] = curr_char_idx[u]
  /\ line'[u] = line[u]
  /\ First(u)' = First(u)

(* A step that leaves the lines of hidden terminals alone. *)
LEMMA Displayed ==
  ASSUME Inv, TypeOK', ViewOK', curr_terminal_idx' = curr_terminal_idx,
         \A u \in Terminals \ {curr_terminal_idx} : Untouched(u),
         OneFinished', HandlerState', LineDelivered'
  PROVE  Inv'
<1>1. HiddenInSync'
  BY DEF Inv, HiddenInSync, InSync, Untouched
<1>2. QED
  BY <1>1 DEF Inv

(* A step that finishes no line and leaves finished lines alone. *)
LEMMA NothingFinished ==
  ASSUME Inv, UNCHANGED <<curr_terminal_idx, share_buf, entered, typing_finish>>,
         \/ \A u \in Terminals : ~typing_finish[u]
         \/ dropped' = dropped /\ kbd'.at \in {"idle"} \cup Restarting
  PROVE  OneFinished' /\ LineDelivered'
BY DEF Inv, OneFinished, LineDelivered, Holds, First

(* A key is taken only while no line is finished. *)
LEMMA KeyTaken ==
  ASSUME Inv, WaitingUser, NEW t \in Terminals, Key(t)
  PROVE  /\ t = curr_terminal_idx /\ kbd.at = "idle"
         /\ \A u \in Terminals : ~typing_finish[u] /\ InSync(u)
BY DEF Inv, WaitingUser, Key, OneFinished, HandlerState, HiddenInSync

(* The handler goes on. *)
LEMMA StepTaken ==
  ASSUME Inv, NEW t \in Terminals, NEW from, NEW to \in HandlerPoints, Step(t, from, to)
  PROVE  /\ t = curr_terminal_idx /\ kbd.at = from /\ kbd'.at = to
         /\ kbd' \in [at : HandlerPoints, host : Terminals, key : Chars \cup {NUL, NL}]
         /\ to # "idle" => kbd'.key = kbd.key
BY KeyboardAssumption DEF Inv, ViewOK, Step, Idle, HandlerPoints

(* An index in the bounds keeps the type. *)
LEMMA IndexTyped ==
  ASSUME Inv, NEW t \in Terminals, NEW i \in 0..BUFFERLENGTH
  PROVE  [curr_char_idx EXCEPT ![t] = i] \in [Terminals -> 0..BUFFERLENGTH]
BY DEF Inv, TypeOK

-----------------------------------------------------------------------------
(* Keys that are finished at once.                                         *)

(* A character is stored at the end of the line. *)
LEMMA TypeStep ==
  ASSUME Inv, WaitingUser, NEW t \in Terminals, NEW ch \in Chars, Type(t, ch)
  PROVE  Inv'
<1> USE KeyboardAssumption
<1>1. /\ t = curr_terminal_idx /\ kbd.at = "idle"
      /\ \A u \in Terminals : ~typing_finish[u] /\ InSync(u)
  BY KeyTaken DEF Type
<1>2. curr_char_idx[t] \in 0..(BUFFERLENGTH - 1)
  BY DEF Type, Full, Inv, TypeOK
<1>3. /\ typed_buf' = [typed_buf EXCEPT ![t][curr_char_idx[t]] = ch]
      /\ UNCHANGED <<flags, share_buf, typing_finish, recall, kbd, entered, dropped>>
      /\ curr_char_idx' = [curr_char_idx EXCEPT ![t] = @ + 1]
      /\ line' = [line EXCEPT ![t] = Append(@, ch)]
  BY <1>2 DEF Type, Store
<1>4. TypeOK'
  <2>1. typed_buf' \in [Terminals -> Buffer]
    BY <1>2, <1>3, BufferStored DEF Inv, TypeOK
  <2>2. curr_char_idx' \in [Terminals -> 0..BUFFERLENGTH]
    <3>1. curr_char_idx[t] + 1 \in 0..BUFFERLENGTH
      BY <1>2
    <3>2. curr_char_idx' = [curr_char_idx EXCEPT ![t] = curr_char_idx[t] + 1]
      BY <1>3
    <3>3. QED
      BY <3>1, <3>2, IndexTyped
  <2>3. UNCHANGED <<curr_terminal_idx, backspace_on, share_buf, typing_finish, buffer_for_ec,
                    buffer_size, buffer_ec_idx, hello_flag, kbd, dropped>>
    BY <1>3 DEF flags, recall
  <2>4. QED
    BY <2>1, <2>2, <2>3 DEF Inv, TypeOK
<1>5. ViewOK'
  BY <1>3 DEF Inv, ViewOK
<1>6. InSync(t)'
  <2>1. line'[t] = Append(line[t], ch) /\ line[t] \in Seq(Chars \cup {NUL, NL})
    BY <1>3 DEF Inv, ViewOK
  <2>2. curr_char_idx'[t] = Len(line'[t])
    BY <1>1, <1>3, <2>1 DEF InSync, Inv, TypeOK
  <2>3. \A i \in 0..(BUFFERLENGTH - 1) :
          typed_buf'[t][i] = IF i = curr_char_idx[t] THEN ch ELSE typed_buf[t][i]
    BY <1>2, <1>3 DEF Inv, TypeOK, Buffer
  <2>4. QED
    BY <1>1, <1>2, <1>3, <2>1, <2>2, <2>3, FirstIs DEF InSync, Holds, First
<1>7. HandlerState'
  BY <1>1, <1>3, <1>6
  DEF HandlerState, EraseState, HistoryState, ShareState, RestartState, RecallState,
      Restarting, flags
<1>8. OneFinished' /\ LineDelivered'
  BY <1>1, <1>3, NothingFinished DEF flags
<1>9. QED
  <2>1. \A u \in Terminals \ {t} : Untouched(u)
    BY <1>3 DEF Inv, TypeOK, ViewOK, Untouched, First
  <2>2. QED
    BY <1>1, <1>3, <1>4, <1>5, <1>7, <1>8, <2>1, Displayed DEF flags

(* Control and L: an empty line. *)
LEMMA CtrlLStep ==
  ASSUME Inv, WaitingUser, NEW t \in Terminals, CtrlL(t)
  PROVE  Inv'
<1> USE KeyboardAssumption
<1>1. /\ t = curr_terminal_idx /\ kbd.at = "idle"
      /\ \A u \in Terminals : ~typing_finish[u] /\ InSync(u)
  BY KeyTaken DEF CtrlL
<1>2. /\ typed_buf' = [typed_buf EXCEPT ![t] = Empty]
      /\ curr_char_idx' = [curr_char_idx EXCEPT ![t] = 0]
      /\ line' = [line EXCEPT ![t] = << >>]
      /\ UNCHANGED <<curr_terminal_idx, backspace_on, share_buf, typing_finish, buffer_for_ec,
                     buffer_size, buffer_ec_idx, hello_flag, kbd, entered>>
      /\ dropped' = dropped \ {t}
  BY DEF CtrlL, flags, recall
<1>3. TypeOK'
  <2>1. Empty \in Buffer /\ 0 \in 0..BUFFERLENGTH
    BY DEF Empty, Buffer
  <2>2. curr_char_idx' \in [Terminals -> 0..BUFFERLENGTH]
    BY <1>2, <2>1, IndexTyped
  <2>3. typed_buf' \in [Terminals -> Buffer]
    BY <1>2, <2>1 DEF Inv, TypeOK
  <2>4. QED
    BY <1>2, <2>2, <2>3 DEF Inv, TypeOK
<1>4. ViewOK'
  BY <1>2 DEF Inv, ViewOK
<1>5. InSync(t)'
  <2>1. curr_char_idx'[t] = 0 /\ line'[t] = << >>
    BY <1>2 DEF Inv, TypeOK, ViewOK
  <2>2. QED
    BY <2>1, EmptyLine, FirstIs DEF InSync
<1>6. HandlerState'
  BY <1>1, <1>2, <1>5
  DEF HandlerState, EraseState, HistoryState, ShareState, RestartState, RecallState,
      Restarting
<1>7. OneFinished' /\ LineDelivered'
  BY <1>1, <1>2, NothingFinished
<1>8. \A u \in Terminals \ {t} : Untouched(u)
  BY <1>2 DEF Inv, TypeOK, ViewOK, Untouched, First
<1>9. QED
  BY <1>1, <1>2, <1>3, <1>4, <1>6, <1>7, <1>8, Displayed

(* Another terminal is displayed: its line was in sync while it was hidden. *)
LEMMA AltFStep ==
  ASSUME Inv, WaitingUser, NEW t \in Terminals, NEW n \in Terminals, AltF(t, n)
  PROVE  Inv'
<1>1. /\ t = curr_terminal_idx /\ kbd.at = "idle"
      /\ \A u \in Terminals : ~typing_finish[u] /\ InSync(u)
  BY KeyTaken DEF AltF
<1>2. /\ curr_terminal_idx' = n
      /\ UNCHANGED <<backspace_on, hello_flag, typed_buf, curr_char_idx, share_buf, typing_finish,
                     buffer_for_ec, buffer_size, buffer_ec_idx, kbd, line, entered, dropped>>
  BY DEF AltF, buffers, recall
<1>3. TypeOK' /\ ViewOK'
  BY <1>2 DEF Inv, TypeOK, ViewOK
<1>4. \A u \in Terminals : InSync(u)'
  BY <1>1, <1>2 DEF InSync, Holds, First
<1>5. HandlerState'
  BY <1>1, <1>2, <1>4
  DEF HandlerState, EraseState, HistoryState, ShareState, RestartState, RecallState,
      Restarting
<1>6. OneFinished' /\ HiddenInSync' /\ LineDelivered'
  BY <1>1, <1>2, <1>4 DEF OneFinished, HiddenInSync, LineDelivered
<1>7. QED
  BY <1>3, <1>5, <1>6 DEF Inv

(* Steps that change flags only. *)
LEMMA FlagStep ==
  ASSUME Inv, backspace_on' \in BOOLEAN, hello_flag' \in [Terminals -> BOOLEAN],
         UNCHANGED <<curr_terminal_idx, buffers, recall, kbd, line, entered, dropped>>
  PROVE  Inv'
<1>1. UNCHANGED <<curr_terminal_idx, typed_buf, curr_char_idx, share_buf, typing_finish,
                  buffer_for_ec, buffer_size, buffer_ec_idx, kbd, line, entered, dropped>>
  BY DEF buffers, recall
<1>2. TypeOK' /\ ViewOK'
  BY <1>1 DEF Inv, TypeOK, ViewOK
<1>3. OneFinished' /\ HiddenInSync' /\ LineDelivered'
  BY <1>1 DEF Inv, OneFinished, HiddenInSync, LineDelivered, InSync, Holds, First
<1>4. HandlerState'
  BY <1>1
  DEF Inv, HandlerState, EraseState, HistoryState, ShareState, RestartState,
      RecallState, Restarting, InSync,
              Holds, First, Ended
<1>5. QED
  BY <1>2, <1>3, <1>4 DEF Inv

LEMMA BackspaceReleasedStep ==
  ASSUME Inv, BackspaceReleased
  PROVE  Inv'
BY FlagStep DEF BackspaceReleased, Inv, TypeOK

LEMMA ExecuteHelloStep ==
  ASSUME Inv, ExecuteHello
  PROVE  Inv'
<1>1. hello_flag' \in [Terminals -> BOOLEAN] /\ backspace_on' \in BOOLEAN
  BY DEF ExecuteHello, Inv, TypeOK
<1>2. QED
  BY <1>1, FlagStep DEF ExecuteHello

-----------------------------------------------------------------------------
(* Keys with which the handler goes through a putc.                        *)

(* The handler is started for the displayed terminal: what it needs at its *)
(* first step holds.                                                       *)
LEMMA Started ==
  ASSUME Inv, WaitingUser, NEW t \in Terminals, Key(t), backspace_on' \in BOOLEAN,
         buffer_ec_idx' \in [Terminals -> 0..BUFFER_SIZE],
         kbd' \in [at : HandlerPoints, host : Terminals, key : Chars \cup {NUL, NL}],
         UNCHANGED <<curr_terminal_idx, hello_flag, buffers, buffer_for_ec, buffer_size, line,
                     entered, dropped>>,
         kbd'.at \in {"idle", "erase", "history", "unwind", "recall"},
         kbd'.at \in {"erase", "unwind"} => curr_char_idx[t] > 0,
         kbd'.at = "history" => (kbd'.key = NL <=> curr_char_idx[t] < BUFFERLENGTH),
         kbd'.at \in {"unwind", "recall"} => buffer_ec_idx'[t] < BUFFER_SIZE
  PROVE  Inv'
<1>1. /\ t = curr_terminal_idx /\ kbd.at = "idle"
      /\ \A u \in Terminals : ~typing_finish[u] /\ InSync(u)
  BY KeyTaken
<1>2. UNCHANGED <<curr_terminal_idx, hello_flag, typed_buf, curr_char_idx, share_buf, typing_finish,
                  buffer_for_ec, buffer_size, line, entered, dropped>>
  BY DEF buffers
<1>3. TypeOK' /\ ViewOK'
  BY <1>2 DEF Inv, TypeOK, ViewOK
<1>4. \A u \in Terminals : InSync(u)'
  BY <1>1, <1>2 DEF InSync, Holds, First
<1>5. HandlerState'
  BY <1>1, <1>2, <1>4
  DEF HandlerState, EraseState, HistoryState, ShareState, RestartState, RecallState,
      Restarting
<1>6. OneFinished' /\ HiddenInSync' /\ LineDelivered'
  BY <1>1, <1>2, <1>4 DEF OneFinished, HiddenInSync, LineDelivered
<1>7. QED
  BY <1>3, <1>5, <1>6 DEF Inv

LEMMA BackspaceStep ==
  ASSUME Inv, WaitingUser, NEW t \in Terminals, NEW h \in Terminals, Backspace(t, h)
  PROVE  Inv'
<1>1. UNCHANGED <<curr_terminal_idx, hello_flag, buffers, buffer_for_ec, buffer_size,
                  buffer_ec_idx, line, entered, dropped>> /\ backspace_on' \in BOOLEAN
  BY DEF Backspace, recall
<1>2. /\ kbd' \in [at : HandlerPoints, host : Terminals, key : Chars \cup {NUL, NL}]
      /\ kbd'.at \in {"idle", "erase"}
      /\ kbd'.at = "erase" => curr_char_idx[t] > 0
  BY DEF Backspace, Idle, HandlerPoints, Inv, ViewOK, Key
<1>3. buffer_ec_idx' \in [Terminals -> 0..BUFFER_SIZE]
  BY <1>1 DEF Inv, TypeOK
<1>4. QED
  BY <1>1, <1>2, <1>3, Started DEF Backspace

LEMMA EnterStep ==
  ASSUME Inv, WaitingUser, NEW t \in Terminals, NEW h \in Terminals, Enter(t, h)
  PROVE  Inv'
<1>1. UNCHANGED <<curr_terminal_idx, backspace_on, hello_flag, buffers, buffer_for_ec, buffer_size,
                  buffer_ec_idx, line, entered, dropped>>
  BY DEF Enter, recall, flags
<1>2. /\ kbd' \in [at : HandlerPoints, host : Terminals, key : Chars \cup {NUL, NL}]
      /\ kbd'.at = "history" /\ kbd'.key = NL
  BY DEF Enter, HandlerPoints
<1>3. curr_char_idx[t] < BUFFERLENGTH
  BY KeyboardAssumption DEF Enter, Full, WaitingUser, Inv, TypeOK
<1>4. buffer_ec_idx' \in [Terminals -> 0..BUFFER_SIZE] /\ backspace_on' \in BOOLEAN
  BY <1>1 DEF Inv, TypeOK
<1>5. QED
  BY <1>1, <1>2, <1>3, <1>4, Started DEF Enter

LEMMA OverflowStep ==
  ASSUME Inv, WaitingUser, NEW t \in Terminals, NEW h \in Terminals,
         NEW key \in Chars \cup {NUL}, Overflow(t, h, key)
  PROVE  Inv'
<1>1. UNCHANGED <<curr_terminal_idx, hello_flag, buffers, buffer_for_ec, buffer_size,
                  buffer_ec_idx, line, entered, dropped>> /\ backspace_on' \in BOOLEAN
  BY DEF Overflow, recall
<1>2. /\ kbd' \in [at : HandlerPoints, host : Terminals, key : Chars \cup {NUL, NL}]
      /\ kbd'.at = "history" /\ kbd'.key = key
  BY DEF Overflow, HandlerPoints
<1>3. curr_char_idx[t] = BUFFERLENGTH /\ key # NL
  BY KeyboardAssumption DEF Overflow, Full, NUL, NL
<1>4. ~(curr_char_idx[t] < BUFFERLENGTH)
  BY <1>3, KeyboardAssumption
<1>5. buffer_ec_idx' \in [Terminals -> 0..BUFFER_SIZE]
  BY <1>1 DEF Inv, TypeOK
<1>6. QED
  BY <1>1, <1>2, <1>3, <1>4, <1>5, Started DEF Overflow

LEMMA UpStep ==
  ASSUME Inv, WaitingUser, NEW t \in Terminals, NEW h \in Terminals, Up(t, h)
  PROVE  Inv'
<1>1. UNCHANGED <<curr_terminal_idx, backspace_on, hello_flag, buffers, buffer_for_ec, buffer_size,
                  line, entered, dropped>>
  BY DEF Up, flags
<1>2. /\ kbd' \in [at : HandlerPoints, host : Terminals, key : Chars \cup {NUL, NL}]
      /\ kbd'.at \in {"unwind", "recall"}
      /\ kbd'.at = "unwind" => curr_char_idx[t] > 0
  BY DEF Up, Unwind, Idle, HandlerPoints
<1>3. buffer_ec_idx[t] - 1 \in 0..(BUFFER_SIZE - 1) /\ buffer_ec_idx \in [Terminals -> 0..BUFFER_SIZE]
  <2>1. buffer_ec_idx \in [Terminals -> 0..BUFFER_SIZE] /\ buffer_ec_idx[t] > 0
    BY DEF Up, Inv, TypeOK
  <2>2. QED
    BY <2>1, KeyboardAssumption
<1>4. buffer_ec_idx' \in [Terminals -> 0..BUFFER_SIZE] /\ buffer_ec_idx'[t] < BUFFER_SIZE
  <2>1. buffer_ec_idx' = [buffer_ec_idx EXCEPT ![t] = buffer_ec_idx[t] - 1]
    BY DEF Up
  <2>2. QED
    BY <1>3, <2>1, KeyboardAssumption
<1>5. backspace_on' \in BOOLEAN
  BY <1>1 DEF Inv, TypeOK
<1>6. QED
  BY <1>1, <1>2, <1>4, <1>5, Started DEF Up

-----------------------------------------------------------------------------
(* The handler goes on after a putc, possibly after other tasks have run.  *)

(* A step of the handler that leaves the finished lines alone. *)
LEMMA Continued ==
  ASSUME Inv, NEW t \in Terminals, NEW from, NEW to \in HandlerPoints, Step(t, from, to),
         \/ from \notin {"idle"} \cup Restarting
         \/ dropped' = dropped /\ to \in {"idle"} \cup Restarting,
         dropped' \subseteq Terminals,
         typed_buf' \in [Terminals -> Buffer],
         curr_char_idx' \in [Terminals -> 0..BUFFERLENGTH],
         line' \in [Terminals -> Seq(Chars \cup {NUL, NL})],
         UNCHANGED <<flags, share_buf, typing_finish, entered, recall>>,
         \A u \in Terminals \ {t} : Untouched(u),
         HandlerState'
  PROVE  Inv'
<1>1. /\ t = curr_terminal_idx /\ kbd.at = from /\ kbd'.at = to
      /\ kbd' \in [at : HandlerPoints, host : Terminals, key : Chars \cup {NUL, NL}]
  BY StepTaken
<1>2. UNCHANGED <<curr_terminal_idx, backspace_on, hello_flag, buffer_for_ec, buffer_size,
                  buffer_ec_idx, share_buf, typing_finish, entered>>
  BY DEF flags, recall
<1>3. TypeOK' /\ ViewOK'
  BY <1>1, <1>2 DEF Inv, TypeOK, ViewOK
<1>4. OneFinished' /\ LineDelivered'
  <2>1. from \notin {"idle"} \cup Restarting => \A u \in Terminals : ~typing_finish[u]
    BY <1>1 DEF Inv, OneFinished
  <2>2. QED
    BY <1>1, <1>2, <2>1, NothingFinished
<1>5. QED
  BY <1>1, <1>2, <1>3, <1>4, Displayed

(* Backspace drops the last character of a line that is not empty. *)
LEMMA EraseStep ==
  ASSUME Inv, NEW t \in Terminals, Erase(t)
  PROVE  Inv'
<1> USE KeyboardAssumption
<1>1. t = curr_terminal_idx /\ kbd.at = "erase" /\ kbd'.at = "idle"
  BY StepTaken DEF Erase, HandlerPoints
<1>2. /\ curr_char_idx' = [curr_char_idx EXCEPT ![t] = @ - 1]
      /\ line' = [line EXCEPT ![t] = IF @ = << >> THEN @ ELSE SubSeq(@, 1, Len(@) - 1)]
      /\ UNCHANGED <<curr_terminal_idx, typed_buf, dropped>>
  BY DEF Erase, IndexBelow, flags
<1>3. /\ line[t] \in Seq(Chars \cup {NUL, NL}) /\ line \in [Terminals -> Seq(Chars \cup {NUL, NL})]
      /\ curr_char_idx[t] \in 0..BUFFERLENGTH
  BY DEF Inv, TypeOK, ViewOK
<1>4. curr_char_idx[t] > 0 /\ curr_char_idx[t] = Len(line[t])
      /\ Holds(typed_buf[t], line[t], First(t))
  BY <1>1 DEF Inv, HandlerState, EraseState, InSync
<1>5. /\ line'[t] = SubSeq(line[t], 1, Len(line[t]) - 1)
      /\ line' \in [Terminals -> Seq(Chars \cup {NUL, NL})]
  <2>1. line[t] # << >>
    BY <1>4, EmptyLine
  <2>2. line' = [line EXCEPT ![t] = SubSeq(line[t], 1, Len(line[t]) - 1)]
    BY <1>2, <2>1
  <2>3. SubSeq(line[t], 1, Len(line[t]) - 1) \in Seq(Chars \cup {NUL, NL})
    BY <1>3, <1>4
  <2>4. QED
    BY <1>3, <2>2, <2>3
<1>6. /\ curr_char_idx' = [curr_char_idx EXCEPT ![t] = curr_char_idx[t] - 1]
      /\ curr_char_idx[t] - 1 \in 0..BUFFERLENGTH
  BY <1>2, <1>3, <1>4
<1>7. curr_char_idx' \in [Terminals -> 0..BUFFERLENGTH] /\ curr_char_idx'[t] = curr_char_idx[t] - 1
  BY <1>6, IndexTyped DEF Inv, TypeOK
<1>8. InSync(t)'
  <2>1. First(t)' = First(t) /\ First(t) \in {1, 2}
    BY <1>2, FirstIs DEF First
  <2>2. QED
    BY <1>2, <1>3, <1>4, <1>5, <1>7, <2>1 DEF InSync, Holds
<1>9. HandlerState'
  BY <1>1, <1>2, <1>8
  DEF HandlerState, EraseState, HistoryState, ShareState, RestartState, RecallState,
      Restarting
<1>10. \A u \in Terminals \ {t} : Untouched(u)
  BY <1>2 DEF Inv, TypeOK, ViewOK, Untouched, First
<1>11. typed_buf' \in [Terminals -> Buffer] /\ dropped' \subseteq Terminals
  BY <1>2 DEF Inv, TypeOK
<1>12. QED
  BY <1>5, <1>7, <1>9, <1>10, <1>11, Continued DEF Erase, HandlerPoints, Restarting

(* The history index stays inside the history: it wraps before the copy. *)
LEMMA HistoryStep ==
  ASSUME Inv, NEW t \in Terminals, History(t)
  PROVE  Inv'
<1> USE KeyboardAssumption
<1> DEFINE to == IF kbd.key = NL THEN "newline" ELSE "share"
           n == Wrap(buffer_size[t])
<1>1. /\ t = curr_terminal_idx /\ kbd.at = "history" /\ kbd'.at = to
      /\ kbd' \in [at : HandlerPoints, host : Terminals, key : Chars \cup {NUL, NL}]
  <2>1. to \in HandlerPoints /\ Step(t, "history", to)
    BY DEF History, HandlerPoints
  <2>2. QED
    BY <2>1, StepTaken
<1>2. n \in 0..(BUFFER_SIZE - 1)
  BY DEF Wrap, Inv, TypeOK
<1>3. /\ buffer_size' \in [Terminals -> 0..BUFFER_SIZE]
      /\ buffer_for_ec' \in [Terminals -> [0..(BUFFER_SIZE - 1) -> Buffer]]
  <2> HIDE DEF n
  <2>1. buffer_size' = [buffer_size EXCEPT ![t] = IF hello_flag[t] THEN n ELSE n + 1]
    BY DEF History, n
  <2>2. (IF hello_flag[t] THEN n ELSE n + 1) \in 0..BUFFER_SIZE
    BY <1>2
  <2>3. buffer_for_ec' \in {buffer_for_ec, [buffer_for_ec EXCEPT ![t][n] = typed_buf[t]]}
    BY DEF History, n
  <2>4. /\ buffer_size \in [Terminals -> 0..BUFFER_SIZE] /\ typed_buf[t] \in Buffer
        /\ buffer_for_ec \in [Terminals -> [0..(BUFFER_SIZE - 1) -> Buffer]]
    BY DEF Inv, TypeOK
  <2>5. buffer_size' \in [Terminals -> 0..BUFFER_SIZE]
    BY <2>1, <2>2, <2>4
  <2>6. [buffer_for_ec EXCEPT ![t][n] = typed_buf[t]] \in [Terminals -> [0..(BUFFER_SIZE - 1) -> Buffer]]
    BY <1>2, <2>4
  <2>7. QED
    BY <2>3, <2>4, <2>5, <2>6
<1>4. UNCHANGED <<curr_terminal_idx, backspace_on, hello_flag, typed_buf, curr_char_idx, share_buf,
                  typing_finish, buffer_ec_idx, line, entered, dropped>>
  BY DEF History, flags, buffers
<1>5. TypeOK' /\ ViewOK'
  BY <1>1, <1>3, <1>4 DEF Inv, TypeOK, ViewOK
<1>6. InSync(t) /\ (kbd.key = NL <=> curr_char_idx[t] < BUFFERLENGTH)
  BY <1>1 DEF Inv, HandlerState, HistoryState
<1>7. InSync(t)'
  BY <1>4, <1>6 DEF InSync, Holds, First
<1>8. HandlerState'
  <2>1. CASE kbd.key = NL
    BY <1>1, <1>4, <1>6, <1>7, <2>1
    DEF HandlerState, EraseState, HistoryState, ShareState, RestartState, RecallState, Restarting
  <2>2. CASE kbd.key # NL
    <3>1. ~(Len(line'[t]) < BUFFERLENGTH)
      BY <1>4, <1>6, <2>2 DEF InSync
    <3>2. QED
      BY <1>1, <1>4, <1>7, <2>2, <3>1
      DEF HandlerState, EraseState, HistoryState, ShareState, RestartState, RecallState, Restarting, Ended
  <2>3. QED
    BY <2>1, <2>2
<1>9. OneFinished' /\ LineDelivered'
  <2>1. \A u \in Terminals : ~typing_finish[u]
    BY <1>1 DEF Inv, OneFinished, Restarting
  <2>2. QED
    BY <1>1, <1>4, <2>1, NothingFinished
<1>10. \A u \in Terminals \ {t} : Untouched(u)
  BY <1>4 DEF Untouched, First
<1>11. QED
  BY <1>1, <1>4, <1>5, <1>8, <1>9, <1>10, Displayed

(* The newline goes behind the line. *)
LEMMA NewlineStep ==
  ASSUME Inv, NEW t \in Terminals, Newline(t)
  PROVE  Inv'
<1> USE KeyboardAssumption
<1>1. t = curr_terminal_idx /\ kbd.at = "newline" /\ kbd'.at = "share"
  BY StepTaken DEF Newline, HandlerPoints
<1>2. InSync(t) /\ curr_char_idx[t] \in 0..(BUFFERLENGTH - 1)
  BY <1>1 DEF Inv, TypeOK, HandlerState, HistoryState
<1>3. /\ typed_buf' = [typed_buf EXCEPT ![t][curr_char_idx[t]] = NL]
      /\ UNCHANGED <<flags, curr_char_idx, share_buf, typing_finish, recall, line, entered, dropped>>
  BY <1>2 DEF Newline, NewlineIndex, Store
<1>4. typed_buf' \in [Terminals -> Buffer]
  BY <1>2, <1>3, BufferStored DEF Inv, TypeOK
<1>5. \A i \in 0..(BUFFERLENGTH - 1) :
        typed_buf'[t][i] = IF i = curr_char_idx[t] THEN NL ELSE typed_buf[t][i]
  BY <1>2, <1>3 DEF Inv, TypeOK, Buffer
<1>6. line[t] \in Seq(Chars \cup {NUL, NL}) /\ Len(line[t]) = curr_char_idx[t]
  BY <1>2 DEF Inv, ViewOK, InSync
<1>7. InSync(t)'
  <2>1. First(t)' = First(t) /\ First(t) \in {1, 2}
    BY <1>3, FirstIs DEF First
  <2>2. QED
    BY <1>2, <1>3, <1>5, <1>6, <2>1 DEF InSync, Holds
<1>8. Ended(typed_buf'[t], line'[t])
  BY <1>2, <1>3, <1>5, <1>6 DEF Ended
<1>9. HandlerState'
  BY <1>1, <1>3, <1>7, <1>8
  DEF HandlerState, EraseState, HistoryState, ShareState, RestartState, RecallState,
      Restarting, flags
<1>10. \A u \in Terminals \ {t} : Untouched(u)
  BY <1>3 DEF Inv, TypeOK, Untouched, First
<1>11. /\ dropped' \subseteq Terminals
       /\ curr_char_idx' \in [Terminals -> 0..BUFFERLENGTH]
       /\ line' \in [Terminals -> Seq(Chars \cup {NUL, NL})]
  BY <1>3 DEF Inv, TypeOK, ViewOK
<1>12. QED
  BY <1>3, <1>4, <1>9, <1>10, <1>11, Continued DEF Newline, HandlerPoints, Restarting

(* The line is copied for the reader, who has not been released. *)
LEMMA ShareStep ==
  ASSUME Inv, NEW t \in Terminals, Share(t)
  PROVE  Inv'
<1> USE KeyboardAssumption
<1>1. /\ t = curr_terminal_idx /\ kbd.at = "share" /\ kbd'.at = "finish"
      /\ kbd' \in [at : HandlerPoints, host : Terminals, key : Chars \cup {NUL, NL}]
  BY StepTaken DEF Share, HandlerPoints
<1>2. /\ share_buf' = [share_buf EXCEPT ![t] = typed_buf[t]]
      /\ UNCHANGED <<curr_terminal_idx, backspace_on, hello_flag, typed_buf, curr_char_idx,
                     typing_finish, buffer_for_ec, buffer_size, buffer_ec_idx, line, entered,
                     dropped>>
  BY DEF Share, flags, recall
<1>3. share_buf' \in [Terminals -> Buffer] /\ share_buf'[t] = typed_buf[t]
  BY <1>2 DEF Inv, TypeOK
<1>4. TypeOK' /\ ViewOK'
  BY <1>1, <1>2, <1>3 DEF Inv, TypeOK, ViewOK
<1>5. Holds(typed_buf[t], line[t], First(t)) /\ Ended(typed_buf[t], line[t])
  BY <1>1 DEF Inv, HandlerState, ShareState, InSync
<1>6. Holds(share_buf'[t], line'[t], First(t)') /\ Ended(share_buf'[t], line'[t])
  <2>1. First(t)' = First(t)
    BY <1>2 DEF First
  <2>2. QED
    BY <1>2, <1>3, <1>5, <2>1
<1>7. HandlerState'
  BY <1>1, <1>2, <1>6
  DEF HandlerState, EraseState, HistoryState, ShareState, RestartState, RecallState,
      Restarting
<1>8. \A u \in Terminals : ~typing_finish'[u]
  BY <1>1, <1>2 DEF Inv, OneFinished, Restarting
<1>9. OneFinished' /\ LineDelivered'
  BY <1>8 DEF OneFinished, LineDelivered
<1>10. \A u \in Terminals \ {t} : Untouched(u)
  BY <1>2 DEF Untouched, First
<1>11. QED
  BY <1>1, <1>2, <1>4, <1>7, <1>9, <1>10, Displayed

(* The reader is released: share_buf holds the line. *)
LEMMA FinishStep ==
  ASSUME Inv, NEW t \in Terminals, Finish(t)
  PROVE  Inv'
<1> USE KeyboardAssumption
<1>1. /\ t = curr_terminal_idx /\ kbd.at = "finish" /\ kbd'.at = "clear"
      /\ kbd' \in [at : HandlerPoints, host : Terminals, key : Chars \cup {NUL, NL}]
  BY StepTaken DEF Finish, HandlerPoints
<1>2. /\ buffer_ec_idx' = [buffer_ec_idx EXCEPT ![t] = buffer_size[t]]
      /\ typing_finish' = [typing_finish EXCEPT ![t] = TRUE]
      /\ entered' = [entered EXCEPT ![t] = line[t]]
      /\ line' = [line EXCEPT ![t] = << >>]
      /\ UNCHANGED <<curr_terminal_idx, backspace_on, hello_flag, typed_buf, curr_char_idx,
                     share_buf, buffer_for_ec, buffer_size, dropped>>
  BY DEF Finish, flags
<1>3. TypeOK'
  <2>1. buffer_ec_idx' \in [Terminals -> 0..BUFFER_SIZE] /\ typing_finish' \in [Terminals -> BOOLEAN]
    BY <1>2 DEF Inv, TypeOK
  <2>2. QED
    BY <1>1, <1>2, <2>1 DEF Inv, TypeOK
<1>4. ViewOK'
  BY <1>1, <1>2 DEF Inv, ViewOK
<1>5. HandlerState'
  <2>1. line'[t] = << >>
    BY <1>2 DEF Inv, ViewOK
  <2>2. QED
    BY <1>1, <1>2, <2>1
    DEF HandlerState, EraseState, HistoryState, ShareState, RestartState, RecallState, Restarting
<1>6. \A u \in Terminals : typing_finish'[u] => u = t
  BY <1>1, <1>2 DEF Inv, TypeOK, OneFinished
<1>7. Holds(share_buf'[t], entered'[t], First(t)') /\ Ended(share_buf'[t], entered'[t])
  <2>1. First(t)' = First(t)
    BY <1>2 DEF First
  <2>2. QED
    BY <1>1, <1>2, <2>1 DEF Inv, ViewOK, HandlerState, ShareState
<1>8. OneFinished' /\ LineDelivered'
  BY <1>1, <1>2, <1>6, <1>7 DEF OneFinished, LineDelivered, Ended, Restarting
<1>9. \A u \in Terminals \ {t} : Untouched(u)
  BY <1>2 DEF Inv, ViewOK, Untouched, First
<1>10. QED
  BY <1>1, <1>2, <1>3, <1>4, <1>5, <1>8, <1>9, Displayed

(* The buffer is cleared; the line the user sees is empty already. *)
LEMMA ClearStep ==
  ASSUME Inv, NEW t \in Terminals, Clear(t)
  PROVE  Inv'
<1> USE KeyboardAssumption
<1>1. t = curr_terminal_idx /\ kbd.at = "clear" /\ kbd'.at = "reset"
  BY StepTaken DEF Clear, HandlerPoints
<1>2. /\ typed_buf' = [typed_buf EXCEPT ![t] = Empty]
      /\ UNCHANGED <<flags, curr_char_idx, share_buf, typing_finish, recall, line,
                     entered, dropped>>
      /\ UNCHANGED curr_terminal_idx
  BY DEF Clear, flags
<1>3. typed_buf' \in [Terminals -> Buffer]
  <2>1. Empty \in Buffer
    BY DEF Empty, Buffer
  <2>2. QED
    BY <1>2, <2>1 DEF Inv, TypeOK
<1>4. line[t] = << >>
  BY <1>1 DEF Inv, HandlerState, RestartState, Restarting
<1>5. HandlerState'
  BY <1>1, <1>2, <1>4
  DEF HandlerState, EraseState, HistoryState, ShareState, RestartState, RecallState, Restarting
<1>6. \A u \in Terminals \ {t} : Untouched(u)
  BY <1>2 DEF Inv, TypeOK, Untouched, First
<1>7. /\ curr_char_idx' \in [Terminals -> 0..BUFFERLENGTH]
      /\ line' \in [Terminals -> Seq(Chars \cup {NUL, NL})]
      /\ dropped' \subseteq Terminals
  BY <1>2 DEF Inv, TypeOK, ViewOK
<1>8. QED
  BY <1>2, <1>3, <1>5, <1>6, <1>7, Continued DEF Clear, HandlerPoints, Restarting

(* The index of the empty line. *)
LEMMA ResetStep ==
  ASSUME Inv, NEW t \in Terminals, Reset(t)
  PROVE  Inv'
<1> USE KeyboardAssumption
<1> DEFINE to == IF kbd.key \in Chars THEN "store" ELSE "idle"
<1>1. /\ to \in HandlerPoints /\ to \in {"idle"} \cup Restarting
      /\ Step(t, "reset", to)
  BY DEF Reset, HandlerPoints, Restarting
<1>2. /\ t = curr_terminal_idx /\ kbd.at = "reset" /\ kbd'.at = to
      /\ to = "store" => kbd'.key \in Chars
  BY <1>1, StepTaken
<1>3. /\ curr_char_idx' = [curr_char_idx EXCEPT ![t] = 0]
      /\ UNCHANGED <<flags, typed_buf, share_buf, typing_finish, recall, line, entered,
                     dropped>>
      /\ UNCHANGED curr_terminal_idx
  BY DEF Reset, flags
<1>4. line'[t] = << >>
  BY <1>2, <1>3 DEF Inv, HandlerState, RestartState, Restarting
<1>5. curr_char_idx' \in [Terminals -> 0..BUFFERLENGTH] /\ curr_char_idx'[t] = 0
  BY <1>3, IndexTyped DEF Inv, TypeOK
<1>6. InSync(t)'
  BY <1>4, <1>5, EmptyLine, FirstIs DEF InSync
<1>7. HandlerState'
  BY <1>2, <1>3, <1>4, <1>5, <1>6
  DEF HandlerState, EraseState, HistoryState, ShareState, RestartState, RecallState, Restarting
<1>8. \A u \in Terminals \ {t} : Untouched(u)
  BY <1>3 DEF Inv, TypeOK, Untouched, First
<1>9. /\ typed_buf' \in [Terminals -> Buffer]
      /\ line' \in [Terminals -> Seq(Chars \cup {NUL, NL})]
      /\ dropped' \subseteq Terminals
  BY <1>3 DEF Inv, TypeOK, ViewOK
<1> HIDE DEF to
<1>10. QED
  BY <1>1, <1>3, <1>5, <1>7, <1>8, <1>9, Continued

(* The character that overflowed is the first in the buffer. *)
LEMMA StoreKeyStep ==
  ASSUME Inv, NEW t \in Terminals, StoreKey(t)
  PROVE  Inv'
<1> USE KeyboardAssumption
<1>1. /\ t = curr_terminal_idx /\ kbd.at = "store" /\ kbd'.at = "count"
      /\ kbd'.key = kbd.key
  BY StepTaken DEF StoreKey, HandlerPoints
<1>2. curr_char_idx[t] = 0 /\ kbd.key \in Chars /\ line[t] = << >>
  BY <1>1 DEF Inv, HandlerState, RestartState, Restarting
<1>3. /\ typed_buf' = [typed_buf EXCEPT ![t][0] = kbd.key]
      /\ UNCHANGED <<flags, curr_char_idx, share_buf, typing_finish, recall, line,
                     entered, dropped>>
      /\ UNCHANGED curr_terminal_idx
  BY <1>2 DEF StoreKey, Store, flags
<1>4. typed_buf' \in [Terminals -> Buffer] /\ typed_buf'[t][0] = kbd.key
  <2>1. 0 \in 0..(BUFFERLENGTH - 1)
    OBVIOUS
  <2>2. typed_buf' \in [Terminals -> Buffer]
    BY <1>2, <1>3, <2>1, BufferStored DEF Inv, TypeOK
  <2>3. QED
    BY <1>3, <2>1, <2>2 DEF Inv, TypeOK, Buffer
<1>5. HandlerState'
  BY <1>1, <1>2, <1>3, <1>4
  DEF HandlerState, EraseState, HistoryState, ShareState, RestartState, RecallState, Restarting
<1>6. \A u \in Terminals \ {t} : Untouched(u)
  BY <1>3 DEF Inv, TypeOK, Untouched, First
<1>7. /\ curr_char_idx' \in [Terminals -> 0..BUFFERLENGTH]
      /\ line' \in [Terminals -> Seq(Chars \cup {NUL, NL})]
      /\ dropped' \subseteq Terminals
  BY <1>3 DEF Inv, TypeOK, ViewOK
<1>8. QED
  BY <1>3, <1>4, <1>5, <1>6, <1>7, Continued DEF StoreKey, HandlerPoints, Restarting

(* It is counted: the buffer holds it, unless a reader came in between. *)
LEMMA CountStep ==
  ASSUME Inv, NEW t \in Terminals, Count(t)
  PROVE  Inv'
<1> USE KeyboardAssumption
<1>1. t = curr_terminal_idx /\ kbd.at = "count" /\ kbd'.at = "idle"
  BY StepTaken DEF Count, HandlerPoints
<1>2. /\ curr_char_idx[t] = 0 /\ kbd.key \in Chars /\ line[t] = << >>
      /\ t \notin dropped => typed_buf[t][0] = kbd.key
  BY <1>1 DEF Inv, HandlerState, RestartState, Restarting
<1>3. /\ curr_char_idx' = [curr_char_idx EXCEPT ![t] = 1]
      /\ line' = [line EXCEPT ![t] = <<kbd.key>>]
      /\ UNCHANGED <<flags, typed_buf, share_buf, typing_finish, recall, entered, dropped>>
      /\ UNCHANGED curr_terminal_idx
  <2>1. Append(<< >>, kbd.key) = <<kbd.key>>
    OBVIOUS
  <2>2. QED
    BY <1>2, <2>1 DEF Count, flags
<1>4. curr_char_idx' \in [Terminals -> 0..BUFFERLENGTH] /\ curr_char_idx'[t] = 1
  <2>1. 1 \in 0..BUFFERLENGTH
    OBVIOUS
  <2>2. QED
    BY <1>3, <2>1, IndexTyped DEF Inv, TypeOK
<1>5. line' \in [Terminals -> Seq(Chars \cup {NUL, NL})] /\ line'[t] = <<kbd.key>>
  BY <1>2, <1>3 DEF Inv, ViewOK
<1>6. InSync(t)'
  <2>1. Len(<<kbd.key>>) = 1 /\ <<kbd.key>>[1] = kbd.key
    OBVIOUS
  <2>2. Holds(typed_buf[t], <<kbd.key>>, First(t))
    <3>1. CASE t \in dropped
      BY <2>1, <3>1 DEF Holds, First
    <3>2. CASE t \notin dropped
      BY <1>2, <2>1, <3>2 DEF Holds, First
    <3>3. QED
      BY <3>1, <3>2
  <2>3. First(t)' = First(t)
    BY <1>3 DEF First
  <2>4. QED
    BY <1>3, <1>4, <1>5, <2>1, <2>2, <2>3 DEF InSync
<1>7. HandlerState'
  BY <1>1, <1>3, <1>6
  DEF HandlerState, EraseState, HistoryState, ShareState, RestartState, RecallState, Restarting
<1>8. \A u \in Terminals \ {t} : Untouched(u)
  BY <1>3 DEF Inv, TypeOK, ViewOK, Untouched, First
<1>9. typed_buf' \in [Terminals -> Buffer] /\ dropped' \subseteq Terminals
  BY <1>3 DEF Inv, TypeOK
<1>10. QED
  BY <1>3, <1>4, <1>5, <1>7, <1>8, <1>9, Continued DEF Count, HandlerPoints

(* The up arrow erases one more character. *)
LEMMA UnwindOneStep ==
  ASSUME Inv, NEW t \in Terminals, UnwindOne(t)
  PROVE  Inv'
<1> USE KeyboardAssumption
<1> DEFINE to == IF curr_char_idx[t] - 1 > 0 THEN "unwind" ELSE "recall"
<1>1. to \in HandlerPoints /\ Step(t, "unwind", to)
  BY DEF UnwindOne, HandlerPoints
<1>2. t = curr_terminal_idx /\ kbd.at = "unwind" /\ kbd'.at = to
  BY <1>1, StepTaken
<1>3. /\ curr_char_idx' = [curr_char_idx EXCEPT ![t] = curr_char_idx[t] - 1]
      /\ UNCHANGED <<curr_terminal_idx, typed_buf, buffer_for_ec, buffer_ec_idx, line>>
      /\ UNCHANGED <<flags, share_buf, typing_finish, entered, recall, dropped>>
  BY DEF UnwindOne, flags, recall
<1>4. curr_char_idx[t] - 1 \in 0..BUFFERLENGTH /\ buffer_ec_idx[t] < BUFFER_SIZE
  <2>1. curr_char_idx[t] \in 0..BUFFERLENGTH /\ curr_char_idx[t] > 0 /\ buffer_ec_idx[t] < BUFFER_SIZE
    BY <1>2 DEF Inv, TypeOK, HandlerState, RecallState
  <2>2. QED
    BY <2>1
<1>5. curr_char_idx' \in [Terminals -> 0..BUFFERLENGTH] /\ curr_char_idx'[t] = curr_char_idx[t] - 1
  BY <1>3, <1>4, IndexTyped DEF Inv, TypeOK
<1>6. HandlerState'
  BY <1>2, <1>3, <1>4, <1>5
  DEF HandlerState, EraseState, HistoryState, ShareState, RestartState, RecallState,
      Restarting
<1>7. \A u \in Terminals \ {t} : Untouched(u)
  BY <1>3 DEF Inv, TypeOK, Untouched, First
<1>8. /\ dropped' \subseteq Terminals
      /\ typed_buf' \in [Terminals -> Buffer]
      /\ line' \in [Terminals -> Seq(Chars \cup {NUL, NL})]
  BY <1>3 DEF Inv, TypeOK, ViewOK
<1> HIDE DEF to
<1>9. QED
  BY <1>1, <1>3, <1>5, <1>6, <1>7, <1>8, Continued DEF Restarting

(* The recalled line is inside the history. *)
LEMMA RecallStep ==
  ASSUME Inv, NEW t \in Terminals, Recall(t)
  PROVE  Inv'
<1> USE KeyboardAssumption
<1> DEFINE b == Copied(buffer_for_ec[t][buffer_ec_idx[t]])
<1>1. t = curr_terminal_idx /\ kbd.at = "recall" /\ kbd'.at = "length"
  BY StepTaken DEF Recall, HandlerPoints
<1>2. /\ typed_buf' = [typed_buf EXCEPT ![t] = b]
      /\ UNCHANGED <<curr_terminal_idx, curr_char_idx, buffer_for_ec, buffer_ec_idx, line>>
      /\ UNCHANGED <<flags, share_buf, typing_finish, entered, recall, dropped>>
  BY DEF Recall, flags, recall
<1>3. buffer_ec_idx[t] \in 0..(BUFFER_SIZE - 1)
  BY <1>1 DEF Inv, TypeOK, HandlerState, RecallState
<1>4. typed_buf' \in [Terminals -> Buffer] /\ typed_buf'[t] = b
  <2>1. b \in Buffer
    BY <1>3 DEF Copied, Inv, TypeOK, Buffer
  <2>2. QED
    BY <1>2, <2>1 DEF Inv, TypeOK
<1>5. HandlerState'
  BY <1>1, <1>2, <1>3, <1>4
  DEF HandlerState, EraseState, HistoryState, ShareState, RestartState, RecallState,
      Restarting
<1>6. \A u \in Terminals \ {t} : Untouched(u)
  BY <1>2 DEF Inv, TypeOK, Untouched, First
<1>7. /\ dropped' \subseteq Terminals
      /\ curr_char_idx' \in [Terminals -> 0..BUFFERLENGTH]
      /\ line' \in [Terminals -> Seq(Chars \cup {NUL, NL})]
  BY <1>2 DEF Inv, TypeOK, ViewOK
<1>8. QED
  BY <1>2, <1>4, <1>5, <1>6, <1>7, Continued DEF Recall, HandlerPoints, Restarting

(* The length of the recalled line is that of its string. *)
LEMMA LengthStep ==
  ASSUME Inv, NEW t \in Terminals, Length(t)
  PROVE  Inv'
<1> USE KeyboardAssumption
<1> DEFINE b == buffer_for_ec[t][buffer_ec_idx[t]]
           s == [i \in 1..Strlen(b) |-> b[i - 1]]
<1>1. t = curr_terminal_idx /\ kbd.at = "length" /\ kbd'.at = "idle"
  BY StepTaken DEF Length, HandlerPoints
<1>2. /\ curr_char_idx' = [curr_char_idx EXCEPT ![t] = Strlen(b)]
      /\ line' = [line EXCEPT ![t] = s]
      /\ dropped' = dropped \ {t}
      /\ UNCHANGED <<flags, typed_buf, share_buf, typing_finish, recall, entered>>
  BY DEF Length
<1>3. typed_buf[t] = Copied(b) /\ b \in Buffer
  BY <1>1 DEF Inv, TypeOK, HandlerState, RecallState
<1>4. Strlen(b) \in 0..BUFFERLENGTH
  BY <1>3, StrlenIs
<1>5. s \in Seq(Chars \cup {NUL, NL}) /\ Len(s) = Strlen(b) /\ Holds(Copied(b), s, 1)
  <2> HIDE DEF b
  <2>1. \A i \in 1..Strlen(b) : b[i - 1] \in Chars \cup {NUL, NL}
    BY <1>3, <1>4 DEF Buffer
  <2>2. s \in [1..Strlen(b) -> Chars \cup {NUL, NL}]
    BY <2>1
  <2>3. s \in Seq(Chars \cup {NUL, NL}) /\ Len(s) = Strlen(b)
    BY <1>4, <2>2
  <2>4. \A i \in 1..Strlen(b) : Copied(b)[i - 1] = s[i]
    BY <1>4 DEF Copied
  <2> HIDE DEF s
  <2>5. QED
    BY <1>4, <2>3, <2>4 DEF Holds
<1> HIDE DEF b, s
<1>6. curr_char_idx' \in [Terminals -> 0..BUFFERLENGTH] /\ curr_char_idx'[t] = Strlen(b)
  BY <1>2, <1>4, IndexTyped DEF Inv, TypeOK
<1>7. line' \in [Terminals -> Seq(Chars \cup {NUL, NL})] /\ line'[t] = s
  BY <1>2, <1>5 DEF Inv, ViewOK
<1>8. InSync(t)'
  <2>1. First(t)' = 1
    BY <1>2 DEF First
  <2>2. QED
    BY <1>2, <1>3, <1>5, <1>6, <1>7, <2>1 DEF InSync
<1>9. HandlerState'
  BY <1>1, <1>2, <1>8
  DEF HandlerState, EraseState, HistoryState, ShareState, RestartState, RecallState,
      Restarting, flags
<1>10. \A u \in Terminals \ {t} : Untouched(u)
  BY <1>2 DEF Inv, TypeOK, ViewOK, Untouched, First
<1>11. typed_buf' \in [Terminals -> Buffer] /\ dropped' \subseteq Terminals
  BY <1>2 DEF Inv, TypeOK
<1>12. QED
  BY <1>2, <1>6, <1>7, <1>9, <1>10, <1>11, Continued DEF Length, HandlerPoints, Restarting

-----------------------------------------------------------------------------
(* Tasks.                                                                  *)

(* A reader clears the buffer of the displayed terminal, which is its own. *)
LEMMA ReadStep ==
  ASSUME Inv, NEW t \in Terminals, Read(t)
  PROVE  Inv'
<1> USE KeyboardAssumption
<1>1. t = curr_terminal_idx /\ kbd.at \in {"idle"} \cup Restarting
  BY DEF Inv, OneFinished, Read
<1>2. /\ typing_finish' = [typing_finish EXCEPT ![t] = FALSE]
      /\ typed_buf' = [typed_buf EXCEPT ![t] = Empty]
      /\ curr_char_idx' = [curr_char_idx EXCEPT ![t] = 0]
      /\ line' = [line EXCEPT ![t] = << >>]
      /\ UNCHANGED <<curr_terminal_idx, backspace_on, hello_flag, share_buf, buffer_for_ec,
                     buffer_size, buffer_ec_idx, kbd, entered>>
      /\ dropped' = IF kbd.at = "count" THEN dropped \cup {t} ELSE dropped \ {t}
  BY <1>1 DEF Read, flags, recall
<1>3. TypeOK'
  <2>1. Empty \in Buffer /\ 0 \in 0..BUFFERLENGTH
    BY DEF Empty, Buffer
  <2>2. curr_char_idx' \in [Terminals -> 0..BUFFERLENGTH]
    BY <1>2, <2>1, IndexTyped
  <2>3. typed_buf' \in [Terminals -> Buffer]
    BY <1>2, <2>1 DEF Inv, TypeOK
  <2>4. typing_finish' \in [Terminals -> BOOLEAN]
    BY <1>2 DEF Inv, TypeOK
  <2>5. QED
    BY <1>2, <2>2, <2>3, <2>4 DEF Inv, TypeOK
<1>4. ViewOK'
  BY <1>2 DEF Inv, ViewOK
<1>5. InSync(t)'
  <2>1. curr_char_idx'[t] = 0 /\ line'[t] = << >>
    BY <1>2 DEF Inv, TypeOK, ViewOK
  <2>2. QED
    BY <2>1, EmptyLine, FirstIs DEF InSync
<1>6. HandlerState'
  <2>1. line'[t] = << >> /\ curr_char_idx'[t] = 0
    BY <1>2 DEF Inv, TypeOK, ViewOK
  <2>2. kbd.at \in {"store", "count"} => kbd.key \in Chars
    BY <1>1 DEF Inv, HandlerState, RestartState
  <2>3. RestartState(t)'
    BY <1>2, <2>1, <2>2 DEF RestartState
  <2>4. QED
    BY <1>1, <1>2, <1>5, <2>3
    DEF HandlerState, EraseState, HistoryState, ShareState, RecallState, Restarting
<1>7. \A u \in Terminals : ~typing_finish'[u]
  BY <1>1, <1>2 DEF Inv, TypeOK, OneFinished
<1>8. OneFinished' /\ LineDelivered'
  BY <1>7 DEF OneFinished, LineDelivered
<1>9. \A u \in Terminals \ {t} : Untouched(u)
  BY <1>2 DEF Inv, TypeOK, ViewOK, Untouched, First
<1>10. QED
  BY <1>1, <1>2, <1>3, <1>4, <1>6, <1>8, <1>9, Displayed

-----------------------------------------------------------------------------
(* The theorems.                                                           *)

LEMMA Stutter == Inv /\ UNCHANGED vars => Inv'
<1> SUFFICES ASSUME Inv, UNCHANGED vars PROVE Inv'
  OBVIOUS
<1>1. hello_flag' \in [Terminals -> BOOLEAN] /\ backspace_on' \in BOOLEAN
  BY DEF Inv, TypeOK, vars, flags
<1>2. QED
  BY <1>1, FlagStep DEF vars, flags

LEMMA NextInv == WaitingUser /\ Inv /\ [Next]_vars => Inv'
<1> SUFFICES ASSUME WaitingUser, Inv, [Next]_vars PROVE Inv'
  OBVIOUS
<1>1. CASE UNCHANGED vars
  BY <1>1, Stutter
<1>2. CASE Next
  <2>1. PICK t \in Terminals :
          \/ \E ch \in Chars : Type(t, ch)
          \/ CtrlL(t)
          \/ \E n \in Terminals : AltF(t, n)
          \/ \E h \in Terminals :
               \/ Backspace(t, h) \/ Enter(t, h) \/ Up(t, h)
               \/ \E key \in Chars \cup {NUL} : Overflow(t, h, key)
          \/ Erase(t)
          \/ History(t) \/ Newline(t) \/ Share(t) \/ Finish(t)
          \/ Clear(t) \/ Reset(t) \/ StoreKey(t) \/ Count(t)
          \/ UnwindOne(t) \/ Recall(t) \/ Length(t)
          \/ Read(t)
          \/ BackspaceReleased
          \/ ExecuteHello
    BY <1>2 DEF Next
  <2>2. CASE \E ch \in Chars : Type(t, ch)
    BY <2>2, TypeStep
  <2>3. CASE CtrlL(t) \/ \E n \in Terminals : AltF(t, n)
    BY <2>3, CtrlLStep, AltFStep
  <2>4. CASE \E h \in Terminals :
               \/ Backspace(t, h) \/ Enter(t, h) \/ Up(t, h)
               \/ \E key \in Chars \cup {NUL} : Overflow(t, h, key)
    BY <2>4, BackspaceStep, EnterStep, UpStep, OverflowStep
  <2>5. CASE Erase(t) \/ History(t) \/ Newline(t)
    BY <2>5, EraseStep, HistoryStep, NewlineStep
  <2>6. CASE Share(t) \/ Finish(t) \/ Clear(t) \/ Reset(t) \/ StoreKey(t) \/ Count(t)
    BY <2>6, ShareStep, FinishStep, ClearStep, ResetStep, StoreKeyStep, CountStep
  <2>7. CASE UnwindOne(t) \/ Recall(t) \/ Length(t)
    BY <2>7, UnwindOneStep, RecallStep, LengthStep
  <2>8. CASE Read(t) \/ BackspaceReleased \/ ExecuteHello
    BY <2>8, ReadStep, BackspaceReleasedStep, ExecuteHelloStep
  <2>9. QED
    BY <2>1, <2>2, <2>3, <2>4, <2>5, <2>6, <2>7, <2>8
<1>3. QED
  BY <1>1, <1>2

(* The invariant, for a user who waits for the reader of a finished line   *)
(* and does not press Enter on a full buffer.                              *)
THEOREM KeyboardInvariant == WaitingUser => (Spec => []Inv)
<1> SUFFICES ASSUME WaitingUser PROVE Spec => []Inv
  OBVIOUS
<1>1. Inv /\ [Next]_vars => Inv'
  BY NextInv
<1>2. QED
  BY <1>1, InitInv, PTL DEF Spec

(* No index of the handler leaves its buffer or the history, although     *)
(* readers reset curr_char_idx while the handler is suspended.             *)
THEOREM IndicesInBounds == WaitingUser => (Spec => []TypeOK)
<1>1. Inv => TypeOK
  BY DEF Inv
<1>2. QED
  BY <1>1, KeyboardInvariant, PTL

(* Between two keys, each terminal's index is the length of the line as    *)
(* the user sees it, and its buffer holds that line: the handler's late    *)
(* index updates, the up arrow and the readers' clearing bring them apart  *)
(* in one way only, in the first character of a line begun by overflow,    *)
(* when a reader runs between its store and curr_char_idx++.               *)
THEOREM BufferIsLine == WaitingUser => (Spec => []Editing)
<1>1. Inv => Editing
  <2> SUFFICES ASSUME Inv, kbd.at = "idle", NEW t \in Terminals PROVE InSync(t)
    BY DEF Editing, InSync
  <2> QED
    BY DEF Inv, HiddenInSync, HandlerState
<1>2. QED
  BY <1>1, KeyboardInvariant, PTL

(* terminal_read is released only when share_buf holds the finished line   *)
(* (without the first character, if it was lost as above), and nothing     *)
(* changes it before it is read.                                           *)
THEOREM ReaderGetsLine == WaitingUser => (Spec => []LineDelivered)
<1>1. Inv => LineDelivered
  BY DEF Inv
<1>2. QED
  BY <1>1, KeyboardInvariant, PTL
=============================================================================
