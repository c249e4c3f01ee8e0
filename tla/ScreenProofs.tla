---------------------------- MODULE ScreenProofs ----------------------------
(***************************************************************************)
(* Proofs about Screen, for every number of rows, columns and terminals    *)
(* and every set of characters.                                            *)
(*                                                                         *)
(* The invariant adds to TypeOK what a terminal_write between two of its   *)
(* points and a click between two of its characters remember.              *)
(***************************************************************************)
EXTENDS Screen, NaturalFacts, SequenceTheorems, TLAPS

Printable == Chars \cup {NL, BS}

(* The cursor is in the page, or at the start of the row below it. *)
CursorOK(x, y) ==
  x \in 0..(NUM_COLS - 1) /\ y \in 0..NUM_ROWS /\ (y = NUM_ROWS => x = 0)

MemoryOK ==
  /\ VIDEO \in [Cells -> Chars \cup {BLANK, ARROW}]
  /\ video_mem \in [Terminals -> [Cells -> Chars \cup {BLANK}]]
  /\ screen_x \in [Terminals -> Int]
  /\ screen_y \in [Terminals -> Int]
  /\ \A t \in Terminals : CursorOK(screen_x[t], screen_y[t])

(* What a terminal_write at a point of its loop remembers. *)
WriteOK ==
  /\ write \in [at : {"idle", "loop", "put"}, t : Terminals \cup {None}, i : Nat,
                c : Printable \cup {NoChar}, shown : BOOLEAN]
  /\ write.at = "idle" <=> write.t = None
  /\ write.at = "put" <=> write.c # NoChar
  /\ write.at = "idle" => write.i = 0

MouseOK == mouse \in [cell : Cells, word : Seq(Chars), nested : BOOLEAN]

Inv ==
  /\ curr_terminal_idx \in Terminals
  /\ MemoryOK
  /\ WriteOK
  /\ MouseOK

-----------------------------------------------------------------------------
(* The cursor.                                                             *)

LEMMA CharsDistinct ==
  /\ \A c \in Chars : c \notin {NL, BS, BLANK, ARROW, NoChar}
  /\ NL # BS /\ NL # NoChar /\ BS # NoChar /\ BLANK # ARROW
BY ScreenAssumption DEF NL, BS, BLANK, ARROW, NoChar

LEMMA NoneIsNoTerminal == None \notin Terminals
<1>1. Terminals \subseteq Nat
  BY ScreenAssumption
<1>2. QED
  BY <1>1 DEF None

LEMMA Sizes == NUM_ROWS \in Nat \ {0} /\ NUM_COLS \in Nat \ {0}
BY ScreenAssumption

(* A character is printed inside the page. *)
LEMMA ScrolledInPage ==
  ASSUME NEW x, NEW y, CursorOK(x, y), NEW c \in Printable,
         NEW s, s = Scrolled(c, x, y)
  PROVE  /\ CursorOK(s[1], s[2])
         /\ c \in Chars => s[2] \in 0..(NUM_ROWS - 1)
<1>1. CASE Scrolls(c, x, y)
  BY <1>1, Sizes DEF Scrolled, CursorOK
<1>2. CASE ~Scrolls(c, x, y)
  <2>1. s[1] = x /\ s[2] = y
    BY <1>2 DEF Scrolled
  <2>2. c \in Chars => y # NUM_ROWS
    BY <1>2, CharsDistinct DEF Scrolls, CursorOK
  <2>3. QED
    BY <2>1, <2>2, Sizes DEF CursorOK
<1>3. QED
  BY <1>1, <1>2

(* Where the cursor is after each kind of character. *)
LEMMA AdvancedIs ==
  ASSUME NEW x, NEW y, NEW c \in Printable, NEW wraps \in BOOLEAN,
         NEW s, s = Scrolled(c, x, y), NEW n, n = Advanced(c, x, y, wraps)
  PROVE  /\ c = NL /\ Scrolls(c, x, y) => n = s
         /\ c = NL /\ ~Scrolls(c, x, y) => n = <<0, y + 1>>
         /\ c = BS /\ x # 0 => n = <<x - 1, y>>
         /\ c = BS /\ x = 0 /\ y # 0 => n = <<NUM_COLS - 1, y - 1>>
         /\ c = BS /\ x = 0 /\ y = 0 => n = <<x, y>>
         /\ c \in Chars => n = <<NextColumn(s[1]), IF wraps THEN s[2] + 1 ELSE s[2]>>
<1>1. \A d \in Chars : d # NL /\ d # BS
  BY CharsDistinct
<1>2. NL # BS
  BY CharsDistinct
<1>3. CASE c = NL
  BY <1>1, <1>2, <1>3 DEF Advanced, Scrolled
<1>4. CASE c = BS
  BY <1>1, <1>2, <1>4 DEF Advanced
<1>5. CASE c \in Chars
  BY <1>1, <1>5 DEF Advanced
<1>6. QED
  BY <1>3, <1>4, <1>5 DEF Printable

(* putc and putc_background never take it out of the page: where the row   *)
(* is incremented, the column becomes 0.                                   *)
LEMMA AdvancedInPage ==
  ASSUME NEW x, NEW y, CursorOK(x, y), NEW c \in Printable, NEW wraps \in BOOLEAN,
         wraps => Scrolled(c, x, y)[1] + 1 = NUM_COLS,
         NEW n, n = Advanced(c, x, y, wraps)
  PROVE  CursorOK(n[1], n[2])
<1> PICK s : s = Scrolled(c, x, y)
  OBVIOUS
<1>1. CursorOK(s[1], s[2]) /\ (c \in Chars => s[2] \in 0..(NUM_ROWS - 1))
  BY ScrolledInPage
<1>2. NUM_ROWS \in Nat \ {0} /\ NUM_COLS \in Nat \ {0}
  BY Sizes
<1>3. CASE c = NL
  <2>1. CASE Scrolls(c, x, y)
    BY <1>1, <1>3, <2>1, AdvancedIs
  <2>2. CASE ~Scrolls(c, x, y)
    <3>1. n = <<0, y + 1>>
      BY <1>3, <2>2, AdvancedIs
    <3>2. y # NUM_ROWS /\ y # NUM_ROWS - 1
      BY <1>3, <2>2, CharsDistinct DEF Scrolls, CursorOK
    <3>3. QED
      BY <1>2, <3>1, <3>2 DEF CursorOK
  <2>3. QED
    BY <2>1, <2>2
<1>4. CASE c = BS
  <2>1. \/ x # 0 /\ n = <<x - 1, y>>
        \/ x = 0 /\ y # 0 /\ n = <<NUM_COLS - 1, y - 1>>
        \/ x = 0 /\ y = 0 /\ n = <<x, y>>
    BY <1>4, AdvancedIs
  <2>2. QED
    BY <1>2, <2>1 DEF CursorOK
<1>5. CASE c \in Chars
  <2>1. NextColumn(s[1]) \in 0..(NUM_COLS - 1)
    BY <1>1, <1>2 DEF NextColumn, CursorOK
  <2>2. n = <<NextColumn(s[1]), IF wraps THEN s[2] + 1 ELSE s[2]>>
    BY <1>5, AdvancedIs
  <2>3. CASE wraps
    <3>1. n = <<NextColumn(s[1]), s[2] + 1>>
      BY <2>3, <2>2
    <3>2. NextColumn(s[1]) = 0
      BY <1>2, <2>3 DEF NextColumn
    <3>3. QED
      BY <1>1, <1>2, <1>5, <3>1, <3>2 DEF CursorOK
  <2>4. CASE ~wraps
    <3>1. n = <<NextColumn(s[1]), s[2]>>
      BY <2>4, <2>2
    <3>2. QED
      BY <1>1, <1>2, <1>5, <2>1, <3>1 DEF CursorOK
  <2>5. QED
    BY <2>3, <2>4
<1>6. QED
  BY <1>3, <1>4, <1>5 DEF Printable

-----------------------------------------------------------------------------
(* The memory.                                                             *)

LEMMA ScrolledUpTyped ==
  ASSUME NEW S, BLANK \in S, NEW m \in [Cells -> S]
  PROVE  ScrolledUp(m) \in [Cells -> S]
<1>1. ASSUME NEW i \in Cells, ~(i > (NUM_ROWS - 1) * NUM_COLS - 1)
      PROVE  i + NUM_COLS \in Cells
  <2> PICK rows, all \in Int : rows = (NUM_ROWS - 1) * NUM_COLS /\ all = NUM_ROWS * NUM_COLS
    BY Sizes
  <2>1. rows = all - NUM_COLS
    BY Sizes
  <2>2. i \in 0..(all - 1) /\ ~(i > rows - 1) /\ Cells = 0..(all - 1)
    BY <1>1 DEF Cells
  <2>3. QED
    BY <2>1, <2>2, Sizes
<1>2. QED
  BY <1>1 DEF ScrolledUp

LEMMA PrintedTyped ==
  ASSUME NEW S, BLANK \in S, Chars \subseteq S, NEW m \in [Cells -> S],
         NEW c \in Printable, NEW x, NEW y
  PROVE  Printed(m, c, x, y) \in [Cells -> S]
BY CharsDistinct DEF Printed, Printable

LEMMA MovedTyped ==
  ASSUME MemoryOK, NEW t \in Terminals, NEW n, CursorOK(n[1], n[2]), Moved(t, n)
  PROVE  /\ screen_x' \in [Terminals -> Int] /\ screen_y' \in [Terminals -> Int]
         /\ screen_x'[t] = n[1] /\ screen_y'[t] = n[2]
         /\ \A r \in Terminals \ {t} : screen_x'[r] = screen_x[r] /\ screen_y'[r] = screen_y[r]
         /\ \A r \in Terminals : CursorOK(screen_x'[r], screen_y'[r])
<1>1. n[1] \in Int /\ n[2] \in Int
  BY Sizes DEF CursorOK
<1>2. /\ screen_x' = [screen_x EXCEPT ![t] = n[1]] /\ screen_y' = [screen_y EXCEPT ![t] = n[2]]
      /\ screen_x \in [Terminals -> Int] /\ screen_y \in [Terminals -> Int]
  BY DEF MemoryOK, Moved
<1>3. /\ screen_x' \in [Terminals -> Int] /\ screen_y' \in [Terminals -> Int]
      /\ screen_x'[t] = n[1] /\ screen_y'[t] = n[2]
      /\ \A r \in Terminals \ {t} : screen_x'[r] = screen_x[r] /\ screen_y'[r] = screen_y[r]
  BY <1>1, <1>2
<1>4. \A r \in Terminals : CursorOK(screen_x[r], screen_y[r])
  BY DEF MemoryOK
<1>5. \A r \in Terminals : CursorOK(screen_x'[r], screen_y'[r])
  BY <1>3, <1>4
<1>6. QED
  BY <1>3, <1>5

(* The page of terminal t after character c. *)
PageAfter(t, c) ==
  Printed(IF Scrolls(c, screen_x[t], screen_y[t]) THEN ScrolledUp(video_mem[t]) ELSE video_mem[t],
          c, screen_x[t], screen_y[t])

LEMMA PageTyped ==
  ASSUME MemoryOK, NEW t \in Terminals, NEW c \in Printable,
         video_mem' = [video_mem EXCEPT ![t] = PageAfter(t, c)]
  PROVE  /\ video_mem' \in [Terminals -> [Cells -> Chars \cup {BLANK}]]
         /\ video_mem'[t] = PageAfter(t, c)
         /\ \A r \in Terminals \ {t} : video_mem'[r] = video_mem[r]
<1> PICK S : S = Chars \cup {BLANK}
  OBVIOUS
<1> PICK m : m = IF Scrolls(c, screen_x[t], screen_y[t])
                 THEN ScrolledUp(video_mem[t]) ELSE video_mem[t]
  OBVIOUS
<1>1. video_mem \in [Terminals -> [Cells -> S]] /\ BLANK \in S /\ Chars \subseteq S
  BY DEF MemoryOK
<1>2. m \in [Cells -> S]
  BY <1>1, ScrolledUpTyped
<1>3. PageAfter(t, c) \in [Cells -> S]
  BY <1>1, <1>2, PrintedTyped DEF PageAfter
<1>4. QED
  BY <1>1, <1>3

(* putc leaves the memory well-formed and prints on the displayed page. *)
LEMMA PutcMemory ==
  ASSUME Inv, NEW c \in Printable, putc(c), NEW t \in Terminals, t = curr_terminal_idx
  PROVE  /\ MemoryOK'
         /\ video_mem' = [video_mem EXCEPT ![t] = PageAfter(t, c)]
         /\ \A r \in Terminals \ {t} :
              screen_x'[r] = screen_x[r] /\ screen_y'[r] = screen_y[r]
         /\ pos' = NUM_COLS * screen_y'[t] + screen_x'[t]
<1> PICK x : x = screen_x[t]
  OBVIOUS
<1> PICK y : y = screen_y[t]
  OBVIOUS
<1> PICK wraps \in BOOLEAN : wraps = WrapsInPutc(Scrolled(c, x, y)[1])
  BY DEF WrapsInPutc
<1> PICK n : n = Advanced(c, x, y, wraps)
  OBVIOUS
<1> DEFINE back == video_mem[t]
           seen == [i \in Cells |-> IF VIDEO[i] # ARROW THEN VIDEO[i] ELSE back[i]]
<1>1. MemoryOK /\ CursorOK(x, y)
  BY DEF Inv, MemoryOK
<1>2. CursorOK(n[1], n[2])
  BY <1>1, AdvancedInPage DEF WrapsInPutc
<1>3. Moved(t, n) /\ pos' = NUM_COLS * n[2] + n[1]
  BY DEF putc
<1>4. /\ screen_x' \in [Terminals -> Int] /\ screen_y' \in [Terminals -> Int]
      /\ screen_x'[t] = n[1] /\ screen_y'[t] = n[2]
      /\ \A r \in Terminals \ {t} : screen_x'[r] = screen_x[r] /\ screen_y'[r] = screen_y[r]
      /\ \A r \in Terminals : CursorOK(screen_x'[r], screen_y'[r])
  BY <1>1, <1>2, <1>3, MovedTyped
<1>5. video_mem' = [video_mem EXCEPT ![t] = PageAfter(t, c)]
  BY DEF putc, PageAfter
<1>6. video_mem' \in [Terminals -> [Cells -> Chars \cup {BLANK}]]
  BY <1>1, <1>5, PageTyped
<1>7. VIDEO' \in [Cells -> Chars \cup {BLANK, ARROW}]
  <2> PICK S : S = Chars \cup {BLANK, ARROW}
    OBVIOUS
  <2>1. VIDEO \in [Cells -> S] /\ back \in [Cells -> S] /\ BLANK \in S /\ Chars \subseteq S
    BY <1>1 DEF MemoryOK
  <2>2. seen \in [Cells -> S]
    BY <2>1
  <2> HIDE DEF seen
  <2> PICK m : m = IF Scrolls(c, x, y) THEN ScrolledUp(seen) ELSE VIDEO
    OBVIOUS
  <2>3. m \in [Cells -> S]
    BY <2>1, <2>2, ScrolledUpTyped
  <2>4. VIDEO' = Printed(m, c, x, y)
    BY DEF putc, seen
  <2>5. QED
    BY <2>1, <2>3, <2>4, PrintedTyped
<1>8. MemoryOK'
  BY <1>4, <1>6, <1>7 DEF MemoryOK
<1>9. QED
  BY <1>3, <1>4, <1>5, <1>8

(* So does putc_background, on the page of its terminal. *)
LEMMA BackgroundMemory ==
  ASSUME Inv, NEW t \in Terminals, NEW c \in Printable, putc_background(t, c)
  PROVE  /\ MemoryOK'
         /\ video_mem' = [video_mem EXCEPT ![t] = PageAfter(t, c)]
         /\ \A r \in Terminals \ {t} :
              screen_x'[r] = screen_x[r] /\ screen_y'[r] = screen_y[r]
<1> PICK x : x = screen_x[t]
  OBVIOUS
<1> PICK y : y = screen_y[t]
  OBVIOUS
<1>1. MemoryOK /\ CursorOK(x, y)
  BY DEF Inv, MemoryOK
<1>2. WrapsInBackground(x) = FALSE
  BY <1>1, Sizes DEF WrapsInBackground, CursorOK
<1> PICK n : n = Advanced(c, x, y, FALSE)
  OBVIOUS
<1>3. CursorOK(n[1], n[2])
  BY <1>1, AdvancedInPage
<1>4. Moved(t, n) /\ UNCHANGED <<VIDEO, pos>>
  BY <1>2 DEF putc_background
<1>5. /\ screen_x' \in [Terminals -> Int] /\ screen_y' \in [Terminals -> Int]
      /\ \A r \in Terminals \ {t} : screen_x'[r] = screen_x[r] /\ screen_y'[r] = screen_y[r]
      /\ \A r \in Terminals : CursorOK(screen_x'[r], screen_y'[r])
  BY <1>1, <1>3, <1>4, MovedTyped
<1>6. video_mem' = [video_mem EXCEPT ![t] = PageAfter(t, c)]
  BY DEF putc_background, PageAfter
<1>7. video_mem' \in [Terminals -> [Cells -> Chars \cup {BLANK}]]
  BY <1>1, <1>6, PageTyped
<1>8. MemoryOK'
  BY <1>1, <1>4, <1>5, <1>7 DEF MemoryOK
<1>9. QED
  BY <1>5, <1>6, <1>8

(* A click finds the end of its word: a blank, or the end of the page. *)
LEMMA WordTyped ==
  ASSUME Inv, NEW i \in Cells
  PROVE  WordAt(i) \in Seq(Chars)
<1> PICK t \in Terminals : t = curr_terminal_idx
  BY DEF Inv
<1> PICK text : text = video_mem[t]
  OBVIOUS
<1> PICK all \in Nat : all = NUM_ROWS * NUM_COLS
  BY Sizes
<1>1. text \in [Cells -> Chars \cup {BLANK}] /\ Cells = 0..(all - 1) /\ i \in 0..(all - 1)
  BY DEF Inv, MemoryOK, Cells
<1> PICK start : start = i - (i % NUM_COLS)
  OBVIOUS
<1>2. start \in 0..i
  BY <1>1, Sizes
<1> DEFINE ends == {e \in start..all : e < all => text[e] = BLANK}
<1>3. ends \subseteq Nat /\ all \in ends
  BY <1>1, <1>2
<1>4. PICK least \in ends : \A k \in ends : least <= k
  <2> HIDE DEF ends
  <2> QED
    BY <1>3, LeastElement
<1>5. /\ least \in start..all
      /\ \A k \in start..(least - 1) : text[k] # BLANK
      /\ least < all => text[least] = BLANK
  BY <1>1, <1>2, <1>3, <1>4
<1> PICK end : end = CHOOSE e \in start..all : /\ \A k \in start..(e - 1) : text[k] # BLANK
                                               /\ e < all => text[e] = BLANK
  OBVIOUS
<1>6. end \in start..all /\ \A k \in start..(end - 1) : text[k] # BLANK
  BY <1>5
<1>7. WordAt(i) = [k \in 1..(end - start) |-> text[start + k - 1]]
  BY DEF WordAt
<1>8. end - start \in Nat
  BY <1>2, <1>6
<1>9. ASSUME NEW k \in 1..(end - start) PROVE text[start + k - 1] \in Chars
  <2>1. start + k - 1 \in start..(end - 1) /\ start + k - 1 \in 0..(all - 1)
    BY <1>2, <1>6
  <2>2. QED
    BY <1>1, <1>6, <2>1
<1>10. WordAt(i) \in [1..(end - start) -> Chars]
  BY <1>7, <1>9
<1>11. PICK len \in Nat : len = end - start
  BY <1>8
<1>12. WordAt(i) \in [1..len -> Chars]
  BY <1>10, <1>11
<1>13. QED
  BY <1>12

-----------------------------------------------------------------------------
(* The invariant.                                                          *)

LEMMA InitInv ==
  ASSUME Init
  PROVE  Inv
<1> PICK all \in Nat \ {0} : all = NUM_ROWS * NUM_COLS
  BY Sizes
<1>1. Cells = 0..(all - 1) /\ MouseHome = all \div 2
  BY DEF Cells, MouseHome
<1>2. MouseHome \in Cells
  BY <1>1
<1>3. MouseOK
  BY <1>2 DEF Init, MouseOK
<1>4. WriteOK
  <2>1. None \notin Terminals
    BY NoneIsNoTerminal
  <2>2. QED
    BY <2>1 DEF Init, WriteOK, NoWrite
<1>5. MemoryOK
  <2>1. CursorOK(0, 0)
    BY Sizes DEF CursorOK
  <2>2. Erased \in [Cells -> Chars \cup {BLANK}] /\ VIDEO \in [Cells -> Chars \cup {BLANK, ARROW}]
    BY DEF Init, Erased
  <2>3. QED
    BY <2>1, <2>2 DEF Init, MemoryOK
<1>6. curr_terminal_idx \in Terminals
  BY ScreenAssumption DEF Init
<1>7. QED
  BY <1>3, <1>4, <1>5, <1>6 DEF Inv

LEMMA WriteBeginInv ==
  ASSUME Inv, NEW t \in Terminals, WriteBegin(t)
  PROVE  Inv'
<1>1. write' = [at |-> "loop", t |-> t, i |-> 0, c |-> NoChar, shown |-> FALSE]
  BY DEF WriteBegin, NoWrite
<1>2. None \notin Terminals
  BY NoneIsNoTerminal
<1>3. WriteOK'
  BY <1>1, <1>2 DEF WriteOK
<1>4. curr_terminal_idx' \in Terminals /\ MemoryOK' /\ MouseOK'
  BY DEF WriteBegin, memory, Inv, MemoryOK, MouseOK
<1>5. QED
  BY <1>3, <1>4 DEF Inv

LEMMA WriteTestInv ==
  ASSUME Inv, NEW c \in Printable, WriteTest(c)
  PROVE  Inv'
<1>1. write' = [write EXCEPT !.at = "put", !.c = c, !.shown = (curr_terminal_idx = write.t)]
      /\ write.at = "loop"
  BY DEF WriteTest
<1>2. c # NoChar
  BY CharsDistinct DEF Printable
<1>3. WriteOK'
  BY <1>1, <1>2 DEF Inv, WriteOK
<1>4. curr_terminal_idx' \in Terminals /\ MemoryOK' /\ MouseOK'
  BY DEF WriteTest, memory, Inv, MemoryOK, MouseOK
<1>5. QED
  BY <1>3, <1>4 DEF Inv

(* The character terminal_write prints next. *)
LEMMA WritePrints ==
  ASSUME Inv, write.at = "put"
  PROVE  write.c \in Printable /\ write.t \in Terminals
BY DEF Inv, WriteOK

LEMMA WritePutInv ==
  ASSUME Inv, WritePut
  PROVE  Inv'
<1>1. write.at = "put" /\ write.c \in Printable /\ write.t \in Terminals
  BY WritePrints DEF WritePut
<1>2. MemoryOK'
  <2>1. CASE putc(write.c)
    BY <1>1, <2>1, PutcMemory DEF Inv
  <2>2. CASE putc_background(write.t, write.c)
    BY <1>1, <2>2, BackgroundMemory
  <2>3. QED
    BY <2>1, <2>2 DEF WritePut
<1>3. write' = [write EXCEPT !.at = "loop", !.i = @ + 1, !.c = NoChar, !.shown = FALSE]
  BY DEF WritePut
<1>4. WriteOK'
  <2>1. WriteOK /\ write.i + 1 \in Nat /\ write.t # None
    BY <1>1, NoneIsNoTerminal DEF Inv, WriteOK
  <2>2. /\ write'.at = "loop" /\ write'.c = NoChar /\ write'.t = write.t
        /\ write' \in [at : {"idle", "loop", "put"}, t : Terminals \cup {None}, i : Nat,
                       c : Printable \cup {NoChar}, shown : BOOLEAN]
    BY <1>3, <2>1 DEF WriteOK
  <2>3. QED
    BY <2>1, <2>2 DEF WriteOK
<1>5. curr_terminal_idx' \in Terminals /\ MouseOK'
  BY DEF WritePut, Inv, MouseOK
<1>6. QED
  BY <1>2, <1>4, <1>5 DEF Inv

LEMMA WriteEndInv ==
  ASSUME Inv, WriteEnd
  PROVE  Inv'
<1>1. MemoryOK'
  <2>1. CASE putc(NL)
    BY <2>1, PutcMemory DEF Inv, Printable
  <2>2. CASE UNCHANGED memory
    BY <2>2 DEF memory, Inv, MemoryOK
  <2>3. QED
    BY <2>1, <2>2 DEF WriteEnd
<1>2. WriteOK'
  BY DEF WriteEnd, WriteOK, NoWrite, Inv
<1>3. curr_terminal_idx' \in Terminals /\ MouseOK'
  BY DEF WriteEnd, Inv, MouseOK
<1>4. QED
  BY <1>1, <1>2, <1>3 DEF Inv

(* The handlers. *)
LEMMA HandlerInv ==
  ASSUME Inv, MemoryOK', curr_terminal_idx' \in Terminals, MouseOK', UNCHANGED write
  PROVE  Inv'
BY DEF Inv, WriteOK

LEMMA EchoInv ==
  ASSUME Inv, NEW c \in Printable, Echo(c)
  PROVE  Inv'
<1>1. MemoryOK'
  BY PutcMemory DEF Echo, Inv
<1>2. curr_terminal_idx' \in Terminals /\ MouseOK' /\ UNCHANGED write
  BY DEF Echo, Inv, MouseOK
<1>3. QED
  BY <1>1, <1>2, HandlerInv

LEMMA ClearInv ==
  ASSUME Inv, Clear
  PROVE  Inv'
<1> PICK t \in Terminals : t = curr_terminal_idx
  BY DEF Inv
<1> PICK n : n = <<0, 0>>
  OBVIOUS
<1>1. MemoryOK /\ CursorOK(n[1], n[2]) /\ Moved(t, n)
  BY Sizes DEF Inv, CursorOK, Clear
<1>2. /\ screen_x' \in [Terminals -> Int] /\ screen_y' \in [Terminals -> Int]
      /\ \A r \in Terminals : CursorOK(screen_x'[r], screen_y'[r])
  BY <1>1, MovedTyped
<1>3. VIDEO' \in [Cells -> Chars \cup {BLANK, ARROW}]
  BY DEF Clear, Erased
<1>4. video_mem' \in [Terminals -> [Cells -> Chars \cup {BLANK}]]
  <2>1. Erased \in [Cells -> Chars \cup {BLANK}]
    BY DEF Erased
  <2>2. QED
    BY <1>1, <2>1 DEF Clear, MemoryOK
<1>5. MemoryOK'
  BY <1>2, <1>3, <1>4 DEF MemoryOK
<1>6. curr_terminal_idx' \in Terminals /\ MouseOK' /\ UNCHANGED write
  BY DEF Clear, Inv, MouseOK
<1>7. QED
  BY <1>5, <1>6, HandlerInv

LEMMA AltFInv ==
  ASSUME Inv, NEW n \in Terminals, AltF(n)
  PROVE  Inv'
<1>1. MemoryOK'
  BY DEF AltF, Inv, MemoryOK
<1>2. curr_terminal_idx' \in Terminals /\ MouseOK' /\ UNCHANGED write
  BY DEF AltF, Inv, MouseOK
<1>3. QED
  BY <1>1, <1>2, HandlerInv

LEMMA MouseMoveInv ==
  ASSUME Inv, NEW i \in MouseCells, NEW word \in Seq(Chars), MouseMove(i, word)
  PROVE  Inv'
<1>1. i \in Cells /\ mouse.cell \in Cells /\ curr_terminal_idx \in Terminals
  BY ScreenAssumption DEF Inv, MouseOK, Cells
<1>2. VIDEO' \in [Cells -> Chars \cup {BLANK, ARROW}]
  BY <1>1 DEF MouseMove, Inv, MemoryOK
<1>3. MemoryOK'
  BY <1>2 DEF MouseMove, Inv, MemoryOK
<1>4. MouseOK'
  BY <1>1 DEF MouseMove, MouseOK
<1>5. curr_terminal_idx' \in Terminals /\ UNCHANGED write
  BY <1>1 DEF MouseMove
<1>6. QED
  BY <1>3, <1>4, <1>5, HandlerInv

LEMMA MouseTypeInv ==
  ASSUME Inv, MouseType
  PROVE  Inv'
<1>1. mouse.word \in Seq(Chars) /\ mouse.word # <<>>
  BY DEF MouseType, Inv, MouseOK
<1>2. Head(mouse.word) \in Chars /\ Tail(mouse.word) \in Seq(Chars)
  BY <1>1, HeadTailProperties
<1>3. MemoryOK'
  BY <1>2, PutcMemory DEF MouseType, Inv, Printable
<1>4. MouseOK'
  BY <1>2 DEF MouseType, Inv, MouseOK
<1>5. curr_terminal_idx' \in Terminals /\ UNCHANGED write
  BY DEF MouseType, Inv
<1>6. QED
  BY <1>3, <1>4, <1>5, HandlerInv

LEMMA NextInv ==
  ASSUME Inv, [Next]_vars
  PROVE  Inv'
<1>1. CASE UNCHANGED vars
  BY <1>1 DEF vars, memory, Inv, MemoryOK, WriteOK, MouseOK
<1>2. ASSUME NEW t \in Terminals, WriteBegin(t) \/ AltF(t) PROVE Inv'
  BY <1>2, WriteBeginInv, AltFInv
<1>3. ASSUME NEW c \in Printable, WriteTest(c) \/ Echo(c) PROVE Inv'
  BY <1>3, WriteTestInv, EchoInv
<1>4. ASSUME NEW i \in MouseCells, MouseMove(i, <<>>) \/ MouseMove(i, WordAt(i)) PROVE Inv'
  <2>1. i \in Cells
    BY ScreenAssumption DEF Cells
  <2>2. WordAt(i) \in Seq(Chars) /\ <<>> \in Seq(Chars)
    BY <2>1, WordTyped
  <2>3. QED
    BY <1>4, <2>2, MouseMoveInv
<1>5. QED
  BY <1>1, <1>2, <1>3, <1>4, WritePutInv, WriteEndInv, ClearInv, MouseTypeInv
     DEF Next, Writing, Printable

-----------------------------------------------------------------------------
(* The screen mirrors the page.                                            *)

(* A character changes the same cell of every memory in the same way. *)
OneCell(c, x, y) ==
  \/ \A m : Printed(m, c, x, y) = m
  \/ \E k, v : \A m : Printed(m, c, x, y) = [m EXCEPT ![k] = v]

LEMMA PrintedAlike ==
  ASSUME NEW c \in Printable, NEW x, NEW y
  PROVE  OneCell(c, x, y)
<1> USE DEF OneCell
<1>1. CASE c = NL
  BY <1>1, CharsDistinct DEF Printed
<1>2. CASE c = BS
  <2>1. CASE x = 0 /\ y = 0
    BY <1>2, <2>1, CharsDistinct DEF Printed
  <2>2. CASE ~(x = 0 /\ y = 0)
    <3> PICK k : k = NUM_COLS * Advanced(c, x, y, FALSE)[2] + Advanced(c, x, y, FALSE)[1]
      OBVIOUS
    <3>1. \A m : Printed(m, c, x, y) = [m EXCEPT ![k] = BLANK]
      BY <1>2, <2>2, CharsDistinct DEF Printed
    <3>2. QED
      BY <3>1
  <2>3. QED
    BY <2>1, <2>2
<1>3. CASE c \in Chars
  <2> PICK k : k = NUM_COLS * Scrolled(c, x, y)[2] + Scrolled(c, x, y)[1]
    OBVIOUS
  <2>1. \A m : Printed(m, c, x, y) = [m EXCEPT ![k] = c]
    BY <1>3, CharsDistinct DEF Printed
  <2>2. QED
    BY <2>1
<1>4. QED
  BY <1>1, <1>2, <1>3 DEF Printable

LEMMA PutcMirrors ==
  ASSUME Inv, Mirrored, NEW c \in Printable, putc(c),
         UNCHANGED curr_terminal_idx, mouse'.cell = mouse.cell
  PROVE  Mirrored'
<1> PICK t \in Terminals : t = curr_terminal_idx
  BY DEF Inv
<1> PICK x : x = screen_x[t]
  OBVIOUS
<1> PICK y : y = screen_y[t]
  OBVIOUS
<1> PICK back : back = video_mem[t]
  OBVIOUS
<1> DEFINE seen == [i \in Cells |-> IF VIDEO[i] # ARROW THEN VIDEO[i] ELSE back[i]]
<1>1. /\ MemoryOK' /\ video_mem' = [video_mem EXCEPT ![t] = PageAfter(t, c)]
      /\ pos' = NUM_COLS * screen_y'[t] + screen_x'[t]
  BY PutcMemory
<1>2. /\ VIDEO \in [Cells -> Chars \cup {BLANK, ARROW}]
      /\ video_mem \in [Terminals -> [Cells -> Chars \cup {BLANK}]]
      /\ back \in [Cells -> Chars \cup {BLANK}]
  BY DEF Inv, MemoryOK
<1>3. seen = back
  <2>1. \A i \in Cells : seen[i] = back[i]
    BY DEF Mirrored
  <2>2. QED
    BY <1>2, <2>1
<1>4. VIDEO' = Printed(IF Scrolls(c, x, y) THEN ScrolledUp(seen) ELSE VIDEO, c, x, y)
  BY DEF putc
<1>5. video_mem'[t] = Printed(IF Scrolls(c, x, y) THEN ScrolledUp(back) ELSE back, c, x, y)
  BY <1>1, <1>2 DEF PageAfter
<1> HIDE DEF seen
<1>6. ASSUME NEW i \in Cells
      PROVE  VIDEO'[i] = video_mem'[t][i] \/ (i = mouse.cell /\ VIDEO'[i] = ARROW)
  <2>1. CASE Scrolls(c, x, y)
    BY <1>3, <1>4, <1>5, <2>1
  <2>2. CASE ~Scrolls(c, x, y)
    <3>1. VIDEO' = Printed(VIDEO, c, x, y) /\ video_mem'[t] = Printed(back, c, x, y)
      BY <1>4, <1>5, <2>2
    <3>2. \/ VIDEO'[i] = video_mem'[t][i]
          \/ VIDEO'[i] = VIDEO[i] /\ video_mem'[t][i] = back[i]
      <4>1. CASE \A m : Printed(m, c, x, y) = m
        BY <3>1, <4>1
      <4>2. CASE \E k, v : \A m : Printed(m, c, x, y) = [m EXCEPT ![k] = v]
        <5>1. PICK k, v : \A m : Printed(m, c, x, y) = [m EXCEPT ![k] = v]
          BY <4>2
        <5>2. Printed(VIDEO, c, x, y) = [VIDEO EXCEPT ![k] = v]
              /\ Printed(back, c, x, y) = [back EXCEPT ![k] = v]
          BY <5>1, Zenon
        <5>3. QED
          BY <1>2, <3>1, <5>2
      <4>3. \/ \A m : Printed(m, c, x, y) = m
            \/ \E k, v : \A m : Printed(m, c, x, y) = [m EXCEPT ![k] = v]
        <5>1. OneCell(c, x, y)
          BY PrintedAlike
        <5>2. QED
          BY <5>1 DEF OneCell
      <4>4. QED
        BY <4>1, <4>2, <4>3, Zenon
    <3>3. VIDEO[i] = back[i] \/ (i = mouse.cell /\ VIDEO[i] = ARROW)
      BY DEF Mirrored
    <3>4. QED
      BY <3>2, <3>3
  <2>3. QED
    BY <2>1, <2>2
<1>7. QED
  BY <1>1, <1>6 DEF Mirrored

LEMMA BackgroundMirrors ==
  ASSUME Inv, Mirrored, NEW t \in Terminals, NEW c \in Printable, putc_background(t, c),
         t # curr_terminal_idx, UNCHANGED <<curr_terminal_idx, mouse>>
  PROVE  Mirrored'
<1> PICK r \in Terminals : r = curr_terminal_idx
  BY DEF Inv
<1>1. /\ video_mem' = [video_mem EXCEPT ![t] = PageAfter(t, c)]
      /\ \A q \in Terminals \ {t} : screen_x'[q] = screen_x[q] /\ screen_y'[q] = screen_y[q]
  BY BackgroundMemory
<1>2. video_mem'[r] = video_mem[r] /\ screen_x'[r] = screen_x[r] /\ screen_y'[r] = screen_y[r]
  BY <1>1 DEF Inv, MemoryOK
<1>3. UNCHANGED <<VIDEO, pos>>
  BY DEF putc_background
<1>4. QED
  BY <1>2, <1>3 DEF Mirrored

LEMMA ClearMirrors ==
  ASSUME Inv, Clear
  PROVE  Mirrored'
<1> PICK t \in Terminals : t = curr_terminal_idx
  BY DEF Inv
<1>1. video_mem'[t] = Erased /\ VIDEO' = Erased /\ curr_terminal_idx' = t /\ pos' = 0
  BY DEF Clear, Inv, MemoryOK
<1>2. screen_x'[t] = 0 /\ screen_y'[t] = 0
  BY DEF Clear, Moved, Inv, MemoryOK
<1>3. NUM_COLS * 0 + 0 = 0
  BY Sizes
<1>4. QED
  BY <1>1, <1>2, <1>3 DEF Mirrored

LEMMA AltFMirrors ==
  ASSUME Inv, NEW n \in Terminals, AltF(n)
  PROVE  Mirrored'
BY DEF AltF, Mirrored

LEMMA MouseMoveMirrors ==
  ASSUME Inv, Mirrored, NEW i \in MouseCells, NEW word, MouseMove(i, word)
  PROVE  Mirrored'
<1> PICK t \in Terminals : t = curr_terminal_idx
  BY DEF Inv
<1>1. /\ VIDEO' = [VIDEO EXCEPT ![mouse.cell] = video_mem[t][mouse.cell], ![i] = ARROW]
      /\ mouse'.cell = i /\ UNCHANGED <<curr_terminal_idx, video_mem, screen_x, screen_y, pos>>
  BY DEF MouseMove
<1>2. VIDEO \in [Cells -> Chars \cup {BLANK, ARROW}] /\ i \in Cells /\ mouse.cell \in Cells
  BY ScreenAssumption DEF Inv, MemoryOK, MouseOK, Cells
<1>3. VIDEO'[i] = ARROW
  BY <1>1, <1>2
<1>4. ASSUME NEW k \in Cells, k # i PROVE VIDEO'[k] = video_mem[t][k]
  <2>1. CASE k = mouse.cell
    BY <1>1, <1>2, <1>4, <2>1
  <2>2. CASE k # mouse.cell
    BY <1>1, <1>2, <1>4, <2>2 DEF Mirrored
  <2>3. QED
    BY <2>1, <2>2
<1>5. QED
  BY <1>1, <1>3, <1>4 DEF Mirrored

(* A step that leaves the memory, the terminal and the mouse alone. *)
LEMMA NothingMirrors ==
  ASSUME Mirrored, UNCHANGED <<curr_terminal_idx, memory, mouse>>
  PROVE  Mirrored'
BY DEF Mirrored, memory

LEMMA NextMirrors ==
  ASSUME Inv, Next, Mirrored
  PROVE  Mirrored' \/ (WritePut /\ SwitchedBeforeCall)
<1>1. ASSUME NEW t \in Terminals, WriteBegin(t) \/ AltF(t) PROVE Mirrored'
  BY <1>1, NothingMirrors, AltFMirrors DEF WriteBegin
<1>2. ASSUME NEW c \in Printable, WriteTest(c) PROVE Mirrored'
  BY <1>2, NothingMirrors DEF WriteTest
<1>3. ASSUME NEW c \in Printable, Echo(c) PROVE Mirrored'
  BY <1>3, PutcMirrors DEF Echo
<1>4. ASSUME WritePut, ~SwitchedBeforeCall PROVE Mirrored'
  <2>1. /\ write.at = "put" /\ write.c \in Printable /\ write.t \in Terminals
        /\ UNCHANGED <<curr_terminal_idx, mouse>>
    BY <1>4, WritePrints DEF WritePut
  <2>2. write.shown = (curr_terminal_idx = write.t)
    BY <1>4, <2>1 DEF SwitchedBeforeCall
  <2>3. CASE write.shown /\ putc(write.c)
    BY <2>1, <2>3, PutcMirrors
  <2>4. CASE ~write.shown /\ putc_background(write.t, write.c)
    BY <2>1, <2>2, <2>4, BackgroundMirrors
  <2>5. QED
    BY <1>4, <2>3, <2>4 DEF WritePut
<1>5. ASSUME WriteEnd PROVE Mirrored'
  <2>1. NL \in Printable /\ UNCHANGED <<curr_terminal_idx, mouse>>
    BY <1>5 DEF Printable, WriteEnd
  <2>2. CASE putc(NL)
    BY <2>1, <2>2, PutcMirrors
  <2>3. CASE UNCHANGED memory
    BY <2>1, <2>3, NothingMirrors
  <2>4. QED
    BY <1>5, <2>2, <2>3 DEF WriteEnd
<1>6. ASSUME NEW i \in MouseCells, MouseMove(i, <<>>) \/ MouseMove(i, WordAt(i)) PROVE Mirrored'
  BY <1>6, MouseMoveMirrors
<1>7. ASSUME MouseType PROVE Mirrored'
  <2>1. mouse.word \in Seq(Chars) /\ mouse.word # <<>>
    BY <1>7 DEF MouseType, Inv, MouseOK
  <2>2. Head(mouse.word) \in Printable
    BY <2>1, HeadTailProperties DEF Printable
  <2>3. putc(Head(mouse.word)) /\ UNCHANGED curr_terminal_idx /\ mouse'.cell = mouse.cell
    BY <1>7 DEF MouseType, Inv, MouseOK
  <2>4. QED
    BY <2>2, <2>3, PutcMirrors
<1>8. ASSUME Clear PROVE Mirrored'
  BY <1>8, ClearMirrors
<1>9. QED
  BY <1>1, <1>2, <1>3, <1>4, <1>5, <1>6, <1>7, <1>8 DEF Next, Writing, Printable

(* Only Alt+F changes the displayed terminal. *)
LEMMA SwitchMirrors ==
  ASSUME Inv, Next, curr_terminal_idx' # curr_terminal_idx
  PROVE  Mirrored'
<1>1. PICK n \in Terminals : AltF(n)
  BY DEF Next, Writing, WriteBegin, WriteTest, WritePut, WriteEnd, Echo, Clear, MouseMove, MouseType
<1>2. QED
  BY <1>1, AltFMirrors

-----------------------------------------------------------------------------
(* Pages: what Consoles says of a character, and what putc does.           *)

(* The last position of the page, and the positions of a row. *)
LEMMA Positions ==
  ASSUME NEW x, NEW y, CursorOK(x, y), NEW all, all = NUM_ROWS * NUM_COLS,
         NEW at, at = NUM_COLS * y + x
  PROVE  /\ x \in Nat /\ y \in Nat /\ at \in Nat /\ all \in Nat
         /\ at = all <=> y = NUM_ROWS
         /\ at >= all - NUM_COLS <=> y >= NUM_ROWS - 1
         /\ at = 0 <=> x = 0 /\ y = 0
         /\ at <= all
         /\ NUM_COLS * (NUM_ROWS - 1) = all - NUM_COLS
         /\ NUM_COLS * (y + 1) = NUM_COLS * y + NUM_COLS
         /\ NUM_COLS * (y - 1) = NUM_COLS * y - NUM_COLS
<1>1. /\ NUM_ROWS \in Nat \ {0} /\ NUM_COLS \in Nat \ {0} /\ x \in Nat /\ y \in Nat
      /\ x < NUM_COLS /\ y <= NUM_ROWS /\ (y = NUM_ROWS => x = 0)
  BY Sizes DEF CursorOK
<1>2. /\ NUM_COLS * (NUM_ROWS - 1) = all - NUM_COLS
      /\ NUM_COLS * (y + 1) = NUM_COLS * y + NUM_COLS
      /\ NUM_COLS * (y - 1) = NUM_COLS * y - NUM_COLS
      /\ NUM_COLS * NUM_ROWS = all
  BY <1>1
<1>3. at \in Nat /\ all \in Nat /\ NUM_COLS * y \in Nat
  BY <1>1
<1>4. y <= NUM_ROWS - 1 => NUM_COLS * y <= NUM_COLS * (NUM_ROWS - 1)
  BY <1>1, RowsInOrder
<1>5. y <= NUM_ROWS - 2 => NUM_COLS * (y + 1) <= NUM_COLS * (NUM_ROWS - 1)
  BY <1>1, RowsInOrder
<1>6. y >= 1 => NUM_COLS * 1 <= NUM_COLS * y
  BY <1>1, RowsInOrder
<1>7. y = 0 => NUM_COLS * y = 0
  BY <1>1
<1>8. y = NUM_ROWS => NUM_COLS * y = all
  BY <1>2
<1>9. NUM_COLS * 1 = NUM_COLS
  BY <1>1
<1>10. at = all <=> y = NUM_ROWS
  BY <1>1, <1>2, <1>3, <1>4, <1>8
<1>11. at >= all - NUM_COLS <=> y >= NUM_ROWS - 1
  <2>1. CASE y = NUM_ROWS
    BY <1>1, <1>3, <1>10, <2>1
  <2>2. CASE y = NUM_ROWS - 1
    BY <1>1, <1>2, <1>3, <2>2
  <2>3. CASE y <= NUM_ROWS - 2
    BY <1>1, <1>2, <1>3, <1>5, <2>3
  <2>4. QED
    BY <1>1, <2>1, <2>2, <2>3
<1>12. at = 0 <=> x = 0 /\ y = 0
  BY <1>1, <1>3, <1>6, <1>7, <1>9
<1>13. at <= all
  BY <1>1, <1>2, <1>3, <1>4, <1>8
<1>14. QED
  BY <1>1, <1>2, <1>3, <1>10, <1>11, <1>12, <1>13

(* Both scroll by one row. *)
LEMMA ScrolledAlike ==
  ASSUME NEW S, NEW m \in [Cells -> S], NEW at, NEW p, p = [text |-> m, pos |-> at]
  PROVE  Promise!ScrolledUp(p) = [text |-> ScrolledUp(m), pos |-> at - NUM_COLS]
<1> PICK all, rows \in Int : all = NUM_ROWS * NUM_COLS /\ rows = (NUM_ROWS - 1) * NUM_COLS
  BY Sizes
<1>1. rows = all - NUM_COLS
  BY Sizes
<1>2. Promise!ScrolledUp(p) =
        [text |-> [i \in 0..(all - 1) |->
                     IF i + NUM_COLS < all THEN m[i + NUM_COLS] ELSE BLANK],
         pos  |-> at - NUM_COLS]
  BY DEF Promise!ScrolledUp, Promise!Size, Promise!BLANK, BLANK
<1>3. ScrolledUp(m) =
        [i \in 0..(all - 1) |-> IF i > rows - 1 THEN BLANK ELSE m[i + NUM_COLS]]
  BY DEF ScrolledUp, Cells
<1>4. ASSUME NEW i \in 0..(all - 1) PROVE i + NUM_COLS < all <=> ~(i > rows - 1)
  BY <1>1, Sizes
<1>5. QED
  BY <1>2, <1>3, <1>4

(* A page with its cursor. *)
PageAt(m, x, y) == [text |-> m, pos |-> NUM_COLS * y + x]

LEMMA NewLineIs ==
  ASSUME NEW S, NEW m \in [Cells -> S], NEW x, NEW y, CursorOK(x, y), NEW wraps \in BOOLEAN,
         NEW n, n = Advanced(NL, x, y, wraps)
  PROVE  Promise!NewLine(PageAt(m, x, y)) =
           PageAt(IF Scrolls(NL, x, y) THEN ScrolledUp(m) ELSE m, n[1], n[2])
<1> PICK all : all = NUM_ROWS * NUM_COLS
  OBVIOUS
<1> PICK at : at = NUM_COLS * y + x
  OBVIOUS
<1> PICK p : p = PageAt(m, x, y)
  OBVIOUS
<1>1. /\ x \in Nat /\ y \in Nat /\ at \in Nat /\ all \in Nat
      /\ at = all <=> y = NUM_ROWS
      /\ at >= all - NUM_COLS <=> y >= NUM_ROWS - 1
      /\ NUM_COLS * (NUM_ROWS - 1) = all - NUM_COLS
      /\ NUM_COLS * (y + 1) = NUM_COLS * y + NUM_COLS
      /\ NUM_COLS * (y - 1) = NUM_COLS * y - NUM_COLS
  BY Positions
<1>2. /\ NUM_ROWS \in Nat \ {0} /\ NUM_COLS \in Nat \ {0} /\ x \in 0..(NUM_COLS - 1)
      /\ y <= NUM_ROWS /\ (y = NUM_ROWS => x = 0)
  BY Sizes DEF CursorOK
<1>3. p.pos = at /\ p.text = m /\ p = [text |-> m, pos |-> at]
  BY DEF PageAt
<1>4. Promise!ScrolledUp(p) = [text |-> ScrolledUp(m), pos |-> at - NUM_COLS]
  BY <1>3, ScrolledAlike
<1>5. Promise!Size = all
  BY DEF Promise!Size
<1>6. NL \in Printable /\ NL # BS
  BY CharsDistinct DEF Printable
<1>7. CASE y = NUM_ROWS
  <2>1. Scrolls(NL, x, y)
    BY <1>2, <1>6, <1>7 DEF Scrolls
  <2>2. n = <<0, NUM_ROWS - 1>>
    BY <1>6, <2>1 DEF Advanced, Scrolled
  <2>3. Promise!NewLine(p) = Promise!ScrolledUp(p)
    BY <1>1, <1>3, <1>5, <1>7 DEF Promise!NewLine
  <2>4. NUM_COLS * (NUM_ROWS - 1) + 0 = at - NUM_COLS
    BY <1>1, <1>2, <1>7
  <2>5. QED
    BY <1>4, <2>1, <2>2, <2>3, <2>4 DEF PageAt
<1>8. CASE y = NUM_ROWS - 1
  <2>1. Scrolls(NL, x, y)
    BY <1>6, <1>8 DEF Scrolls
  <2>2. n = <<0, NUM_ROWS - 1>>
    BY <1>6, <2>1 DEF Advanced, Scrolled
  <2>3. at # all /\ at >= all - NUM_COLS
    BY <1>1, <1>2, <1>8
  <2> PICK q : q = Promise!ScrolledUp(p)
    OBVIOUS
  <2>4. Promise!NewLine(p) = [q EXCEPT !.pos = @ + NUM_COLS - (@ % NUM_COLS)]
    BY <1>3, <1>5, <2>3 DEF Promise!NewLine
  <2>5. (NUM_COLS * (y - 1) + x) % NUM_COLS = x
    BY <1>1, <1>2, ColumnOf
  <2>6. NUM_COLS * (y - 1) + x = at - NUM_COLS
    BY <1>1, <1>2
  <2>7. (at - NUM_COLS) + NUM_COLS - ((at - NUM_COLS) % NUM_COLS)
          = NUM_COLS * (NUM_ROWS - 1) + 0
    BY <1>1, <1>2, <1>8, <2>5, <2>6
  <2>8. Promise!NewLine(p) = [text |-> ScrolledUp(m), pos |-> NUM_COLS * (NUM_ROWS - 1) + 0]
    BY <1>4, <2>4, <2>7
  <2>9. QED
    BY <2>1, <2>2, <2>8 DEF PageAt
<1>9. CASE y <= NUM_ROWS - 2
  <2>1. ~Scrolls(NL, x, y)
    BY <1>1, <1>2, <1>6, <1>9 DEF Scrolls
  <2>2. n = <<0, y + 1>>
    BY <1>6, <2>1, AdvancedIs
  <2>3. at # all /\ ~(at >= all - NUM_COLS)
    BY <1>1, <1>2, <1>9
  <2>4. Promise!NewLine(p) = [p EXCEPT !.pos = @ + NUM_COLS - (@ % NUM_COLS)]
    BY <1>3, <1>5, <2>3 DEF Promise!NewLine
  <2>5. at % NUM_COLS = x
    BY <1>1, <1>2, ColumnOf
  <2>6. at + NUM_COLS - (at % NUM_COLS) = NUM_COLS * (y + 1) + 0
    BY <1>1, <1>2, <2>5
  <2>7. Promise!NewLine(p) = [text |-> m, pos |-> NUM_COLS * (y + 1) + 0]
    BY <1>3, <2>4, <2>6
  <2>8. QED
    BY <2>1, <2>2, <2>7 DEF PageAt
<1>10. QED
  BY <1>1, <1>2, <1>7, <1>8, <1>9

LEMMA BackSpaceIs ==
  ASSUME NEW S, NEW m \in [Cells -> S], NEW x, NEW y, CursorOK(x, y), NEW wraps \in BOOLEAN,
         NEW n, n = Advanced(BS, x, y, wraps)
  PROVE  Promise!BackSpace(PageAt(m, x, y)) = PageAt(Printed(m, BS, x, y), n[1], n[2])
<1> PICK at : at = NUM_COLS * y + x
  OBVIOUS
<1> PICK p : p = PageAt(m, x, y)
  OBVIOUS
<1>1. /\ x \in Nat /\ y \in Nat /\ at \in Nat /\ (at = 0 <=> x = 0 /\ y = 0)
      /\ NUM_COLS * (y - 1) = NUM_COLS * y - NUM_COLS /\ NUM_COLS \in Nat
  BY Positions, Sizes
<1>2. p.pos = at /\ p.text = m
  BY DEF PageAt
<1>3. BS \in Printable /\ NL # BS /\ \A c \in Chars : c # BS
  BY CharsDistinct DEF Printable
<1> PICK k : k = Advanced(BS, x, y, FALSE)
  OBVIOUS
<1>4. k = n
  BY <1>3 DEF Advanced
<1>5. CASE x = 0 /\ y = 0
  <2>1. n = <<x, y>>
    BY <1>3, <1>5, AdvancedIs
  <2>2. Printed(m, BS, x, y) = m
    BY <1>3, <1>5 DEF Printed
  <2>3. Promise!BackSpace(p) = p
    BY <1>1, <1>2, <1>5 DEF Promise!BackSpace
  <2>4. QED
    BY <2>1, <2>2, <2>3
<1>6. CASE ~(x = 0 /\ y = 0)
  <2>1. n = IF x # 0 THEN <<x - 1, y>> ELSE <<NUM_COLS - 1, y - 1>>
    BY <1>3, <1>6, AdvancedIs
  <2>2. NUM_COLS * n[2] + n[1] = at - 1
    BY <1>1, <2>1
  <2>3. Printed(m, BS, x, y) = [m EXCEPT ![NUM_COLS * k[2] + k[1]] = BLANK]
    BY <1>3, <1>6 DEF Printed
  <2>4. Printed(m, BS, x, y) = [m EXCEPT ![at - 1] = BLANK]
    BY <1>4, <2>2, <2>3
  <2>5. Promise!BackSpace(p) = [text |-> [m EXCEPT ![at - 1] = BLANK], pos |-> at - 1]
    BY <1>1, <1>2, <1>6 DEF Promise!BackSpace, Promise!BLANK, BLANK
  <2>6. QED
    BY <2>2, <2>4, <2>5 DEF PageAt
<1>7. QED
  BY <1>5, <1>6

LEMMA PutCharIs ==
  ASSUME NEW S, NEW m \in [Cells -> S], NEW x, NEW y, CursorOK(x, y), NEW c \in Chars,
         NEW wraps \in BOOLEAN, wraps <=> Scrolled(c, x, y)[1] + 1 = NUM_COLS,
         NEW n, n = Advanced(c, x, y, wraps)
  PROVE  Promise!PutChar(PageAt(m, x, y), c) =
           PageAt(Printed(IF Scrolls(c, x, y) THEN ScrolledUp(m) ELSE m, c, x, y), n[1], n[2])
<1> PICK all : all = NUM_ROWS * NUM_COLS
  OBVIOUS
<1> PICK at : at = NUM_COLS * y + x
  OBVIOUS
<1> PICK p : p = PageAt(m, x, y)
  OBVIOUS
<1> PICK s : s = Scrolled(c, x, y)
  OBVIOUS
<1> PICK m2 : m2 = IF Scrolls(c, x, y) THEN ScrolledUp(m) ELSE m
  OBVIOUS
<1>1. /\ x \in Nat /\ y \in Nat /\ at \in Nat /\ all \in Nat
      /\ at = all <=> y = NUM_ROWS
      /\ NUM_COLS * (NUM_ROWS - 1) = all - NUM_COLS
  BY Positions
<1>2. c \in Printable /\ c # NL /\ c # BS
  BY CharsDistinct DEF Printable
<1>3. NUM_ROWS \in Nat \ {0} /\ NUM_COLS \in Nat \ {0}
  BY Sizes
<1>4. p.pos = at /\ p.text = m /\ p = [text |-> m, pos |-> at]
  BY DEF PageAt
<1>5. Scrolls(c, x, y) <=> y = NUM_ROWS
  BY <1>2 DEF Scrolls, CursorOK
<1>6. Promise!WithRoom(p) = [text |-> m2, pos |-> NUM_COLS * s[2] + s[1]]
  <2>1. CASE y = NUM_ROWS
    <3>1. s = <<0, NUM_ROWS - 1>> /\ m2 = ScrolledUp(m)
      BY <1>5, <2>1 DEF Scrolled
    <3>2. Promise!WithRoom(p) = [text |-> ScrolledUp(m), pos |-> at - NUM_COLS]
      <4>1. Promise!ScrolledUp(p) = [text |-> ScrolledUp(m), pos |-> at - NUM_COLS]
        BY <1>4, ScrolledAlike
      <4>2. Promise!WithRoom(p) = Promise!ScrolledUp(p)
        BY <1>1, <1>4, <2>1 DEF Promise!WithRoom, Promise!Size
      <4>3. QED
        BY <4>1, <4>2
    <3>3. NUM_COLS * (NUM_ROWS - 1) + 0 = at - NUM_COLS
      BY <1>1, <1>3, <2>1
    <3>4. QED
      BY <3>1, <3>2, <3>3
  <2>2. CASE y # NUM_ROWS
    <3>1. s = <<x, y>> /\ m2 = m
      BY <1>5, <2>2 DEF Scrolled
    <3>2. Promise!WithRoom(p) = p
      BY <1>1, <1>4, <2>2 DEF Promise!WithRoom, Promise!Size
    <3>3. QED
      BY <1>4, <3>1, <3>2
  <2>3. QED
    BY <2>1, <2>2
<1>7. CursorOK(s[1], s[2]) /\ s[2] \in Nat
  <2>1. CursorOK(s[1], s[2])
    BY <1>2, ScrolledInPage
  <2>2. QED
    BY <2>1, <1>3 DEF CursorOK
<1> PICK k : k = NUM_COLS * s[2] + s[1]
  OBVIOUS
<1>8. Promise!PutChar(p, c) = [text |-> [m2 EXCEPT ![k] = c], pos |-> k + 1]
  BY <1>6 DEF Promise!PutChar
<1>9. Printed(m2, c, x, y) = [m2 EXCEPT ![k] = c]
  BY <1>2 DEF Printed
<1>10. n = <<NextColumn(s[1]), IF wraps THEN s[2] + 1 ELSE s[2]>>
  BY <1>2, AdvancedIs
<1>11. NUM_COLS * n[2] + n[1] = k + 1
  <2>1. s[1] \in 0..(NUM_COLS - 1) /\ NUM_COLS * s[2] \in Nat
    BY <1>3, <1>7 DEF CursorOK
  <2>2. NUM_COLS * (s[2] + 1) = NUM_COLS * s[2] + NUM_COLS
    BY <1>3, <1>7
  <2>3. CASE wraps
    <3>1. s[1] + 1 = NUM_COLS
      BY <2>3
    <3>2. NextColumn(s[1]) = 0
      BY <1>3, <3>1 DEF NextColumn
    <3>3. n[1] = 0 /\ n[2] = s[2] + 1
      BY <1>10, <2>3, <3>2
    <3>4. QED
      BY <1>3, <2>1, <2>2, <3>1, <3>3
  <2>4. CASE ~wraps
    <3>1. s[1] + 1 # NUM_COLS
      BY <2>4
    <3>2. s[1] + 1 \in 0..(NUM_COLS - 1)
      <4>1. s[1] \in 0..(NUM_COLS - 1)
        BY <2>1
      <4>2. QED
        BY <1>3, <3>1, <4>1
    <3>3. NextColumn(s[1]) = s[1] + 1
      BY <1>3, <3>2 DEF NextColumn
    <3>4. n[1] = s[1] + 1 /\ n[2] = s[2]
      BY <1>10, <2>4, <3>3
    <3>5. QED
      BY <1>3, <2>1, <3>4
  <2>5. QED
    BY <2>3, <2>4
<1>12. QED
  BY <1>8, <1>9, <1>11 DEF PageAt

(* One character, in Consoles and in the source. *)
LEMMA PutIs ==
  ASSUME NEW S, NEW m \in [Cells -> S], NEW x, NEW y, CursorOK(x, y), NEW c \in Printable,
         NEW wraps \in BOOLEAN, c \in Chars => (wraps <=> Scrolled(c, x, y)[1] + 1 = NUM_COLS),
         NEW n, n = Advanced(c, x, y, wraps)
  PROVE  Promise!Put(PageAt(m, x, y), c) =
           PageAt(Printed(IF Scrolls(c, x, y) THEN ScrolledUp(m) ELSE m, c, x, y), n[1], n[2])
<1> PICK p : p = PageAt(m, x, y)
  OBVIOUS
<1>1. NL # BS /\ \A d \in Chars : d # NL /\ d # BS
  BY CharsDistinct
<1>2. CASE c = NL
  <2>1. Promise!Put(p, c) = Promise!NewLine(p)
    BY <1>1, <1>2 DEF Promise!Put, Promise!NL, NL, Promise!BS, BS
  <2>2. Promise!NewLine(p) = PageAt(IF Scrolls(c, x, y) THEN ScrolledUp(m) ELSE m, n[1], n[2])
    BY <1>2, NewLineIs
  <2>3. \A m2 : Printed(m2, c, x, y) = m2
    BY <1>1, <1>2 DEF Printed
  <2>4. QED
    BY <2>1, <2>2, <2>3
<1>3. CASE c = BS
  <2>1. Promise!Put(p, c) = Promise!BackSpace(p)
    BY <1>1, <1>3 DEF Promise!Put, Promise!NL, NL, Promise!BS, BS
  <2>2. ~Scrolls(c, x, y)
    BY <1>3 DEF Scrolls
  <2>3. Promise!BackSpace(p) = PageAt(Printed(m, c, x, y), n[1], n[2])
    BY <1>3, BackSpaceIs
  <2>4. QED
    BY <2>1, <2>2, <2>3
<1>4. CASE c \in Chars
  <2>1. Promise!Put(p, c) = Promise!PutChar(p, c)
    BY <1>1, <1>4 DEF Promise!Put, Promise!NL, NL, Promise!BS, BS
  <2>2. QED
    BY <1>4, <2>1, PutCharIs
<1>5. QED
  BY <1>2, <1>3, <1>4 DEF Printable

-----------------------------------------------------------------------------
(* Every step keeps the promise, except the ones Screen names.             *)

Pages ==
  [t \in Terminals |->
     [text |-> video_mem[t], pos |-> NUM_COLS * screen_y[t] + screen_x[t]]]

(* A character changes one page, as Consoles says. *)
LEMMA PagesAfter ==
  ASSUME MemoryOK, NEW t \in Terminals, NEW c \in Printable, NEW wraps \in BOOLEAN,
         c \in Chars =>
           (wraps <=> Scrolled(c, screen_x[t], screen_y[t])[1] + 1 = NUM_COLS),
         NEW n, n = Advanced(c, screen_x[t], screen_y[t], wraps),
         video_mem' = [video_mem EXCEPT ![t] = PageAfter(t, c)],
         screen_x'[t] = n[1], screen_y'[t] = n[2],
         \A r \in Terminals \ {t} : screen_x'[r] = screen_x[r] /\ screen_y'[r] = screen_y[r]
  PROVE  Pages' = [Pages EXCEPT ![t] = Promise!Put(@, c)]
<1> PICK x : x = screen_x[t]
  OBVIOUS
<1> PICK y : y = screen_y[t]
  OBVIOUS
<1> PICK m : m = video_mem[t]
  OBVIOUS
<1> PICK S : S = Chars \cup {BLANK}
  OBVIOUS
<1>1. m \in [Cells -> S] /\ CursorOK(x, y)
  BY DEF MemoryOK
<1>2. Promise!Put(PageAt(m, x, y), c) =
        PageAt(Printed(IF Scrolls(c, x, y) THEN ScrolledUp(m) ELSE m, c, x, y), n[1], n[2])
  BY <1>1, PutIs
<1>3. /\ video_mem'[t] = Printed(IF Scrolls(c, x, y) THEN ScrolledUp(m) ELSE m, c, x, y)
      /\ \A r \in Terminals \ {t} : video_mem'[r] = video_mem[r]
  BY DEF MemoryOK, PageAfter
<1>4. Pages[t] = PageAt(m, x, y)
  BY DEF Pages, PageAt
<1>5. Pages'[t] = PageAt(video_mem'[t], n[1], n[2])
  BY DEF Pages, PageAt
<1>6. Pages'[t] = Promise!Put(Pages[t], c)
  BY <1>2, <1>3, <1>4, <1>5
<1>7. \A r \in Terminals \ {t} : Pages'[r] = Pages[r]
  BY <1>3 DEF Pages
<1>8. /\ Pages = [r \in Terminals |-> Pages[r]]
      /\ Pages' = [r \in Terminals |-> Pages'[r]]
  BY DEF Pages
<1> HIDE DEF Pages
<1>9. QED
  BY <1>6, <1>7, <1>8

LEMMA PutcPages ==
  ASSUME Inv, NEW c \in Printable, putc(c), NEW t \in Terminals, t = curr_terminal_idx
  PROVE  Pages' = [Pages EXCEPT ![t] = Promise!Put(@, c)]
<1> PICK x : x = screen_x[t]
  OBVIOUS
<1> PICK y : y = screen_y[t]
  OBVIOUS
<1> PICK wraps \in BOOLEAN : wraps = WrapsInPutc(Scrolled(c, x, y)[1])
  BY DEF WrapsInPutc
<1> PICK n : n = Advanced(c, x, y, wraps)
  OBVIOUS
<1>1. /\ video_mem' = [video_mem EXCEPT ![t] = PageAfter(t, c)]
      /\ \A r \in Terminals \ {t} : screen_x'[r] = screen_x[r] /\ screen_y'[r] = screen_y[r]
  BY PutcMemory
<1>2. screen_x'[t] = n[1] /\ screen_y'[t] = n[2]
  BY DEF putc, Moved, Inv, MemoryOK
<1>3. c \in Chars => (wraps <=> Scrolled(c, x, y)[1] + 1 = NUM_COLS)
  BY DEF WrapsInPutc
<1>4. MemoryOK
  BY DEF Inv
<1>5. QED
  BY <1>1, <1>2, <1>3, <1>4, PagesAfter

(* putc_background never increments the row: a row must not be filled. *)
LEMMA BackgroundPages ==
  ASSUME Inv, NEW t \in Terminals, NEW c \in Printable, putc_background(t, c),
         c \in Chars => screen_x[t] # NUM_COLS - 1
  PROVE  Pages' = [Pages EXCEPT ![t] = Promise!Put(@, c)]
<1> PICK x : x = screen_x[t]
  OBVIOUS
<1> PICK y : y = screen_y[t]
  OBVIOUS
<1>1. MemoryOK /\ CursorOK(x, y)
  BY DEF Inv, MemoryOK
<1> PICK wraps \in BOOLEAN : wraps = FALSE
  OBVIOUS
<1>2. WrapsInBackground(x) = wraps
  BY <1>1, Sizes DEF WrapsInBackground, CursorOK
<1> PICK n : n = Advanced(c, x, y, wraps)
  OBVIOUS
<1>3. /\ video_mem' = [video_mem EXCEPT ![t] = PageAfter(t, c)]
      /\ \A r \in Terminals \ {t} : screen_x'[r] = screen_x[r] /\ screen_y'[r] = screen_y[r]
  BY BackgroundMemory
<1>4. screen_x'[t] = n[1] /\ screen_y'[t] = n[2]
  BY <1>2 DEF putc_background, Moved, Inv, MemoryOK
<1>5. c \in Chars => Scrolled(c, x, y)[1] + 1 # NUM_COLS
  <2>1. c \in Chars => Scrolled(c, x, y)[1] = x
    BY CharsDistinct DEF Scrolled, Scrolls
  <2>2. x \in Int /\ NUM_COLS \in Nat
    BY <1>1, Sizes DEF CursorOK
  <2>3. QED
    BY <2>1, <2>2
<1>6. c \in Chars => (wraps <=> Scrolled(c, x, y)[1] + 1 = NUM_COLS)
  BY <1>5
<1>7. QED
  BY <1>1, <1>3, <1>4, <1>6, PagesAfter

LEMMA InitPages ==
  ASSUME Init
  PROVE  Promise!Init
<1>1. NUM_COLS * 0 + 0 = 0
  BY Sizes
<1>2. curr_terminal_idx \in Terminals
  BY ScreenAssumption DEF Init
<1>3. Erased = [i \in 0..(NUM_ROWS * NUM_COLS - 1) |-> BLANK]
  BY DEF Erased, Cells
<1>4. Pages = [t \in Terminals |-> Promise!EmptyPage]
  BY <1>1, <1>3 DEF Init, Pages, Promise!EmptyPage, Promise!Size, Promise!BLANK, BLANK
<1>5. write.t = Promise!None /\ write.c = Promise!NoChar /\ write.i = 0
  BY DEF Init, NoWrite, None, NoChar, Promise!None, Promise!NoChar
<1>6. QED
  BY <1>2, <1>4, <1>5 DEF Promise!Init, Pages

(* Echoes of the keyboard and of a click. *)
LEMMA EchoKept ==
  ASSUME Inv, NEW c \in Printable, putc(c), UNCHANGED <<curr_terminal_idx, write>>
  PROVE  Promise!Next
<1> PICK t \in Terminals : t = curr_terminal_idx
  BY DEF Inv
<1>1. Pages' = [Pages EXCEPT ![t] = Promise!Put(@, c)]
  BY PutcPages
<1>2. Promise!Echo(c)
  BY <1>1 DEF Promise!Echo, Pages
<1>3. c \in Chars \cup {Promise!NL, Promise!BS}
  BY DEF Printable, NL, BS, Promise!NL, Promise!BS
<1>4. QED
  BY <1>2, <1>3 DEF Promise!Next

(* terminal_write: its points are Begin, Choose, PrintNext and End. *)
LEMMA BeginKept ==
  ASSUME Inv, NEW t \in Terminals, WriteBegin(t)
  PROVE  Promise!Next
<1>1. write.at = "idle" /\ write.t = None /\ write.c = NoChar
  BY DEF Inv, WriteOK, WriteBegin
<1>2. write'.t = t /\ write'.i = 0 /\ write'.c = NoChar
  BY DEF WriteBegin, NoWrite
<1>3. Pages' = Pages /\ UNCHANGED curr_terminal_idx
  BY DEF WriteBegin, memory, Pages
<1>4. Promise!Begin(t)
  BY <1>1, <1>2, <1>3 DEF Promise!Begin, Pages, None, Promise!None
<1>5. QED
  BY <1>4 DEF Promise!Next

LEMMA ChooseKept ==
  ASSUME Inv, NEW c \in Printable, WriteTest(c)
  PROVE  Promise!Next
<1>1. write.at = "loop" /\ write.t # None /\ write.c = NoChar
  BY DEF Inv, WriteOK, WriteTest
<1>2. write'.t = write.t /\ write'.i = write.i /\ write'.c = c
  BY DEF WriteTest, Inv, WriteOK
<1>3. Pages' = Pages /\ UNCHANGED curr_terminal_idx
  BY DEF WriteTest, memory, Pages
<1>4. Promise!Choose(c)
  BY <1>1, <1>2, <1>3
     DEF Promise!Choose, Pages, None, Promise!None, NoChar, Promise!NoChar
<1>5. c \in Chars \cup {Promise!NL, Promise!BS}
  BY DEF Printable, NL, BS, Promise!NL, Promise!BS
<1>6. QED
  BY <1>4, <1>5 DEF Promise!Next

LEMMA PrintKept ==
  ASSUME Inv, WritePut, ~RowFilledHidden, ~SwitchedBeforeCall
  PROVE  Promise!Next
<1>1. write.at = "put" /\ write.c \in Printable /\ write.t \in Terminals /\ write.c # NoChar
  BY WritePrints DEF WritePut, Inv, WriteOK
<1> PICK t \in Terminals : t = write.t
  BY <1>1
<1> PICK c \in Printable : c = write.c
  BY <1>1
<1>2. write.shown = (curr_terminal_idx = t)
  BY <1>1 DEF SwitchedBeforeCall
<1>3. Pages' = [Pages EXCEPT ![t] = Promise!Put(@, c)]
  <2>1. CASE write.shown /\ putc(write.c)
    BY <1>2, <2>1, PutcPages
  <2>2. CASE ~write.shown /\ putc_background(write.t, write.c)
    <3>1. c \in Chars => screen_x[t] # NUM_COLS - 1
      BY <1>1, <2>2 DEF RowFilledHidden
    <3>2. QED
      BY <2>2, <3>1, BackgroundPages
  <2>3. QED
    BY <2>1, <2>2 DEF WritePut
<1>4. write'.t = write.t /\ write'.i = write.i + 1 /\ write'.c = NoChar
  BY DEF WritePut, Inv, WriteOK
<1>5. Promise!PrintNext
  BY <1>1, <1>3, <1>4 DEF WritePut, Promise!PrintNext, Pages, NoChar, Promise!NoChar
<1>6. QED
  BY <1>5 DEF Promise!Next

LEMMA EndKept ==
  ASSUME Inv, WriteEnd, ~BufferFilledHidden
  PROVE  Promise!Next
<1>1. /\ write.at = "loop" /\ write.t \in Terminals /\ write.t # None /\ write.c = NoChar
      /\ write'.t = None /\ write'.i = 0 /\ write'.c = NoChar
  BY DEF Inv, WriteOK, WriteEnd, NoWrite
<1> PICK t \in Terminals : t = write.t
  BY <1>1
<1>2. CASE write.i = BUFFERLENGTH
  <2>1. t = curr_terminal_idx /\ putc(NL) /\ NL \in Printable
    BY <1>1, <1>2 DEF BufferFilledHidden, WriteEnd, Printable
  <2>2. Pages' = [Pages EXCEPT ![t] = Promise!Put(@, NL)]
    BY <2>1, PutcPages
  <2>3. \A p : Promise!Put(p, NL) = Promise!NewLine(p)
    BY DEF Promise!Put, Promise!NL, NL, Promise!BS
  <2>4. Pages' = [Pages EXCEPT ![t] = Promise!NewLine(@)]
    BY <2>2, <2>3
  <2>5. Promise!End
    BY <1>1, <1>2, <2>4
       DEF WriteEnd, Promise!End, Pages, None, Promise!None, NoChar, Promise!NoChar
  <2>6. QED
    BY <2>5 DEF Promise!Next
<1>3. CASE write.i # BUFFERLENGTH
  <2>1. Pages' = Pages
    BY <1>3 DEF WriteEnd, memory, Pages
  <2>2. Promise!End
    BY <1>1, <1>3, <2>1
       DEF WriteEnd, Promise!End, Pages, None, Promise!None, NoChar, Promise!NoChar
  <2>3. QED
    BY <2>2 DEF Promise!Next
<1>4. QED
  BY <1>2, <1>3

LEMMA ClearKept ==
  ASSUME Inv, Clear
  PROVE  Promise!Next
<1> PICK t \in Terminals : t = curr_terminal_idx
  BY DEF Inv
<1>1. /\ video_mem' = [video_mem EXCEPT ![t] = Erased]
      /\ screen_x' = [screen_x EXCEPT ![t] = 0] /\ screen_y' = [screen_y EXCEPT ![t] = 0]
      /\ UNCHANGED <<curr_terminal_idx, write>>
  BY DEF Clear, Moved
<1>2. /\ video_mem'[t] = Erased /\ screen_x'[t] = 0 /\ screen_y'[t] = 0
      /\ \A r \in Terminals \ {t} : /\ video_mem'[r] = video_mem[r]
                                    /\ screen_x'[r] = screen_x[r] /\ screen_y'[r] = screen_y[r]
  BY <1>1 DEF Inv, MemoryOK
<1>3. NUM_COLS * 0 + 0 = 0
  BY Sizes
<1>4. Promise!EmptyPage = [text |-> Erased, pos |-> 0]
  BY DEF Promise!EmptyPage, Promise!Size, Promise!BLANK, BLANK, Erased, Cells
<1>5. Pages'[t] = Promise!EmptyPage /\ \A r \in Terminals \ {t} : Pages'[r] = Pages[r]
  BY <1>2, <1>3, <1>4 DEF Pages
<1>6. Pages = [r \in Terminals |-> Pages[r]] /\ Pages' = [r \in Terminals |-> Pages'[r]]
  BY DEF Pages
<1>7. Pages' = [Pages EXCEPT ![t] = Promise!EmptyPage]
  BY <1>5, <1>6
<1>8. Promise!Clear
  BY <1>1, <1>7 DEF Promise!Clear, Pages
<1>9. QED
  BY <1>8 DEF Promise!Next

LEMMA ShowKept ==
  ASSUME Inv, NEW n \in Terminals, AltF(n)
  PROVE  Promise!Next
<1>1. Pages' = Pages
  BY DEF AltF, Pages
<1>2. Promise!Show(n)
  BY <1>1 DEF AltF, Promise!Show, Pages
<1>3. QED
  BY <1>2 DEF Promise!Next

LEMMA NextKept ==
  ASSUME Inv, [Next]_vars
  PROVE  \/ Promise!Next
         \/ WritePut /\ (RowFilledHidden \/ SwitchedBeforeCall)
         \/ WriteEnd /\ BufferFilledHidden
         \/ UNCHANGED (Promise!vars)
<1>1. CASE UNCHANGED vars
  BY <1>1 DEF vars, memory, Promise!vars
<1>2. ASSUME NEW t \in Terminals, WriteBegin(t) \/ AltF(t) PROVE Promise!Next
  BY <1>2, BeginKept, ShowKept
<1>3. ASSUME NEW c \in Printable, WriteTest(c) PROVE Promise!Next
  BY <1>3, ChooseKept
<1>4. ASSUME NEW c \in Printable, Echo(c) PROVE Promise!Next
  BY <1>4, EchoKept DEF Echo
<1>5. ASSUME NEW i \in MouseCells, MouseMove(i, <<>>) \/ MouseMove(i, WordAt(i))
      PROVE  UNCHANGED (Promise!vars)
  BY <1>5 DEF MouseMove, Promise!vars
<1>6. ASSUME MouseType PROVE Promise!Next
  <2>1. mouse.word \in Seq(Chars) /\ mouse.word # <<>>
    BY <1>6 DEF MouseType, Inv, MouseOK
  <2>2. Head(mouse.word) \in Printable
    BY <2>1, HeadTailProperties DEF Printable
  <2>3. QED
    BY <1>6, <2>2, EchoKept DEF MouseType
<1>7. QED
  BY <1>1, <1>2, <1>3, <1>4, <1>5, <1>6, PrintKept, EndKept, ClearKept
     DEF Next, Writing, Printable

-----------------------------------------------------------------------------
(* The theorems.                                                           *)

(* Between any two steps of terminal_write, of a click, of echo and of     *)
(* Alt+F the memory, the cursors and what the suspended code remembers are *)
(* sound.                                                                  *)
THEOREM ScreenInvariant == Spec => []Inv
<1>1. Init => Inv
  BY InitInv
<1>2. Inv /\ [Next]_vars => Inv'
  BY NextInv
<1>3. QED
  BY <1>1, <1>2, PTL DEF Spec

(* Whatever programs print and users type, the cursor stays in the page or *)
(* at the start of the row below, where the next character scrolls: putc   *)
(* never writes behind the page.                                           *)
THEOREM CursorStaysInPage == Spec => []TypeOK
<1>1. Inv => TypeOK
  BY DEF Inv, MemoryOK, WriteOK, MouseOK, CursorOK, TypeOK
<1>2. QED
  BY <1>1, ScreenInvariant, PTL

(* The screen mirrors the displayed terminal's page through scrolling,     *)
(* clicks, switches and hidden output; the only step that can break it is  *)
(* a call of terminal_write decided before Alt+F, and the next Alt+F or    *)
(* Ctrl-L mends it.                                                        *)
THEOREM ScreenMirrorsPage == Spec => StaysMirrored
<1>1. Init => Mirrored
  <2> SUFFICES ASSUME Init PROVE Mirrored
    OBVIOUS
  <2>1. NUM_COLS * 0 + 0 = 0 /\ 0 \in Terminals
    <3>1. 0 \in Terminals
      BY ScreenAssumption
    <3>2. QED
      BY <3>1, Sizes
  <2>2. \A i \in Cells : VIDEO[i] = BLANK \/ (i = MouseHome /\ VIDEO[i] = ARROW)
    BY DEF Init, Erased
  <2>3. /\ pos = NUM_COLS * screen_y[curr_terminal_idx] + screen_x[curr_terminal_idx]
        /\ mouse.cell = MouseHome /\ video_mem[curr_terminal_idx] = Erased
    BY <2>1 DEF Init
  <2>4. QED
    BY <2>2, <2>3 DEF Mirrored, Erased
<1>2. Inv /\ [Next]_vars =>
        [/\ Mirrored => Mirrored' \/ (WritePut /\ SwitchedBeforeCall)
         /\ curr_terminal_idx' # curr_terminal_idx => Mirrored'
         /\ Clear => Mirrored']_vars
  BY NextMirrors, SwitchMirrors, ClearMirrors
<1>3. QED
  BY <1>1, <1>2, ScreenInvariant, PTL DEF Spec, StaysMirrored

(* Every character appears on the terminal it is for and at the place      *)
(* Consoles gives it, for every page size: a step of the source is a step  *)
(* of Consoles, except for the three kinds of step that are named (a       *)
(* hidden program fills a row or a whole buffer, or Alt+F comes between    *)
(* terminal_write's test and its call).                                    *)
THEOREM PromiseKeptOtherwise == Spec => KeepsPromiseOtherwise
<1>1. Init => Promise!Init
  BY InitPages
<1>2. Inv /\ [Next]_vars =>
        [\/ Promise!Next
         \/ WritePut /\ (RowFilledHidden \/ SwitchedBeforeCall)
         \/ WriteEnd /\ BufferFilledHidden]_(Promise!vars)
  BY NextKept
<1>3. QED
  BY <1>1, <1>2, ScreenInvariant, PTL DEF Spec, KeepsPromiseOtherwise
=============================================================================
