------------------------------ MODULE FileData -------------------------------
(***************************************************************************)
(* What read_data promises: how many bytes it copies and what it returns,  *)
(* for a file of the given length (file_system.c).  Files uses it as the   *)
(* meaning of read_data; ReadData shows that the loop implements it.       *)
(***************************************************************************)
EXTENDS Integers

CONSTANT Word    \* 2^32: offset and length are uint32_t

ASSUME WordAssumption == Word \in Nat \ {0}

ReadResult(length, offset, n) ==
  CASE length = 0 -> [ret |-> -1, copied |-> 0]
    [] length # 0 /\ (offset + n) % Word <= length -> [ret |-> n, copied |-> n]
    [] OTHER -> [ret |-> 0, copied |-> length - offset]
=============================================================================
