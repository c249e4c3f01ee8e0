----------------------------- MODULE MCKeyboard ------------------------------
(***************************************************************************)
(* Model checking of Keyboard.  The view drops what nothing reads later:   *)
(*   - share_buf and entered of a terminal without a finished line: the    *)
(*     handler writes them before it sets typing_finish;                   *)
(*   - the first character of the line, and of the finished line, of a    *)
(*     terminal in dropped: the step that ends that state sets line, and   *)
(*     there is no finished line then.                                     *)
(* It may be used when no newline is stored behind the buffer and the user *)
(* waits for the reader (FullLines = FALSE, Patient = TRUE).  The          *)
(* characters are interchangeable: nothing tells one from another.         *)
(***************************************************************************)
EXTENDS Keyboard, TLC

Symmetry == Permutations(Chars)

Finished(t) ==
  typing_finish[t] \/ (t = curr_terminal_idx /\ kbd.at = "finish")

Used(t, s) == IF t \in dropped /\ s # <<>> THEN [s EXCEPT ![1] = NUL] ELSE s

LiveState ==
  <<flags, typed_buf, curr_char_idx, typing_finish, recall, kbd, dropped,
    [t \in Terminals |-> Used(t, line[t])],
    [t \in Terminals |->
       IF Finished(t) THEN <<share_buf[t], Used(t, entered[t])>> ELSE <<>>]>>
=============================================================================
