------------------------------- MODULE MCFiles -------------------------------
(***************************************************************************)
(* Model checking of Files: a directory with the RTC, the directory itself *)
(* and three regular files: an empty one, one that ends inside a chunk of   *)
(* two and one that ends with it.                                          *)
(***************************************************************************)
EXTENDS Files

MCDentries == <<[name |-> ".", type |-> "DIR", inode |-> 1],
                [name |-> "empty", type |-> "FILE", inode |-> 1],
                [name |-> "odd", type |-> "FILE", inode |-> 2],
                [name |-> "even", type |-> "FILE", inode |-> 3],
                [name |-> "rtc", type |-> "RTC", inode |-> 1]>>

(* Without the empty file. *)
FewDentries == SelectSeq(MCDentries, LAMBDA d : d.name # "empty")

MCLength == <<0, 3, 4>>
=============================================================================
