-------------------------------- MODULE Files --------------------------------
(***************************************************************************)
(* File descriptors and the file system as the tasks see them: open,       *)
(* close, read and write on regular files, the directory and the RTC       *)
(* (system_call_handler.c, file_system.c, RTC.c).                          *)
(*                                                                         *)
(* Every task has its own descriptor table in its PCB, but file_read,      *)
(* dir_read and RTC_write keep their state in globals that all tasks       *)
(* share: last_round, directory_index and rate.  The calls run with        *)
(* interrupts disabled, so each is one step, and tasks interleave between  *)
(* calls.  Contents are abstracted: byte k of a file is the number k, and  *)
(* what a program has received is the sequence of those numbers.           *)
(***************************************************************************)
EXTENDS FileData, Sequences

CONSTANTS Procs,      \* task slots
          Shells,     \* the slots below 3, whose tasks are restarted by halt
          NumFds,     \* EIGHT, entries of file_descriptor_tabele
          Dentries,   \* boot_block->dir_entry, a sequence of name, type, inode
          Length,     \* inode_addr[i].length
          ReadSizes,  \* buffer sizes of the programs
          Freqs,      \* frequencies programs write to the RTC
          Exclusive,  \* is at most one regular file open at a time?
          MaxNames    \* bound on the names one directory descriptor receives

FileTypes == {"RTC", "DIR", "FILE"}
Inodes == DOMAIN Length

ASSUME FilesAssumption ==
  /\ Shells \subseteq Procs
  /\ NumFds \in Nat /\ NumFds > 2
  /\ Dentries \in Seq([name : STRING, type : FileTypes, inode : Inodes])
  /\ Length \in [Inodes -> Nat]
  /\ ReadSizes \subseteq Nat \ {0}
  /\ Freqs \subseteq Int
  /\ \A i \in Inodes : \A n \in ReadSizes : Length[i] + n < Word
  /\ Exclusive \in BOOLEAN
  /\ MaxNames \in Nat

Fds == 0..(NumFds - 1)

Descriptor ==
  [file_operation_table_ptr : {"NULL", "stdin", "stdout"} \cup FileTypes,
   inode : Inodes \cup {0}, file_position : 0..(Word - 1), flags : {0, 1}]

VARIABLES
  live,                    \* tasks between execute and halt
  file_descriptor_tabele,  \* PCB of each task
  last_round,              \* file_read: the last chunk has been returned
  directory_index,         \* dir_read: next entry
  rate,                    \* RTC rate register
  nbytes,                  \* the buffer size of the program in the slot
  got,                     \* history: what a descriptor has delivered
  done                     \* history: the last read returned 0 or -1

history == <<got, done>>
vars == <<live, file_descriptor_tabele, last_round, directory_index, rate,
          nbytes, history>>

-----------------------------------------------------------------------------
Entry(table, inode, flag) ==
  [file_operation_table_ptr |-> table, inode |-> inode, file_position |-> 0,
   flags |-> flag]

Closed == Entry("NULL", 0, 0)

(* The table execute fills in: stdin, stdout and six unused entries. *)
NewTable ==
  [fd \in Fds |-> CASE fd = 0 -> Entry("stdin", 0, 1)
                    [] fd = 1 -> Entry("stdout", 0, 1)
                    [] OTHER  -> Closed]

(* A new program: it has read nothing and has a buffer of its own. *)
NewProgram(p) ==
  /\ \E n \in ReadSizes : nbytes' = [nbytes EXCEPT ![p] = n]
  /\ got' = [got EXCEPT ![p] = [fd \in Fds |-> <<>>]]
  /\ done' = [done EXCEPT ![p] = [fd \in Fds |-> FALSE]]

RTC_RATE == 2

Init ==
  /\ live = {}
  /\ file_descriptor_tabele = [p \in Procs |-> [fd \in Fds |-> Closed]]
  /\ last_round = 0
  /\ directory_index = 0
  /\ rate = RTC_RATE
  /\ nbytes \in [Procs -> ReadSizes]
  /\ got = [p \in Procs |-> [fd \in Fds |-> <<>>]]
  /\ done = [p \in Procs |-> [fd \in Fds |-> FALSE]]

Execute(p) ==
  /\ p \notin live
  /\ live' = live \cup {p}
  /\ file_descriptor_tabele' = [file_descriptor_tabele EXCEPT ![p] = NewTable]
  /\ NewProgram(p)
  /\ UNCHANGED <<last_round, directory_index, rate>>

(* halt clears the table of a program; a bottom shell keeps its slot and   *)
(* the execute that restarts it fills the table in again.                  *)
Halt(p) ==
  /\ p \in live
  /\ live' = IF p \in Shells THEN live ELSE live \ {p}
  /\ file_descriptor_tabele' =
       [file_descriptor_tabele EXCEPT
          ![p] = IF p \in Shells THEN NewTable ELSE [fd \in Fds |-> Closed]]
  /\ NewProgram(p)
  /\ UNCHANGED <<last_round, directory_index, rate>>

-----------------------------------------------------------------------------
(* open and close.                                                         *)

IsOpen(p, fd) == file_descriptor_tabele[p][fd].flags # 0
Kind(p, fd) == file_descriptor_tabele[p][fd].file_operation_table_ptr

(* The first directory entry with that name. *)
read_dentry_by_name(fname) ==
  {i \in DOMAIN Dentries :
     /\ Dentries[i].name = fname
     /\ \A j \in 1..(i - 1) : Dentries[j].name # fname}

(* Mutant: the search starts behind stdin. *)
FreeFdsFromOne(p) ==
  {fd \in Fds \ {0} : \A k \in 2..fd : k = fd \/ IsOpen(p, k)}

(* The first unused entry. *)
FreeFds(p) ==
  {fd \in Fds : ~IsOpen(p, fd) /\ \A k \in 0..(fd - 1) : IsOpen(p, k)}

(* Mutant: file_open does not reset last_round. *)
RoundKept(type) == last_round

(* The open function of the jump table: file_open resets last_round. *)
RoundAfterOpen(type) == IF type = "FILE" THEN 0 ELSE last_round

Open(p, fname) ==
  \E i \in read_dentry_by_name(fname), fd \in FreeFds(p) :
    LET type == Dentries[i].type
    IN  /\ p \in live
        /\ Exclusive /\ type = "FILE" =>
             \A q \in Procs : \A k \in Fds : Kind(q, k) # "FILE"
        /\ file_descriptor_tabele' =
             [file_descriptor_tabele EXCEPT
                ![p][fd] = Entry(type, IF type = "FILE" THEN Dentries[i].inode ELSE 0, 1)]
        /\ last_round' = RoundAfterOpen(type)
        /\ got' = [got EXCEPT ![p][fd] = <<>>]
        /\ done' = [done EXCEPT ![p][fd] = FALSE]
        /\ UNCHANGED <<live, directory_index, rate, nbytes>>

(* Mutant: the test for stdin and stdout is missing. *)
CloseableAny(p, fd) == IsOpen(p, fd)

Closeable(p, fd) == fd >= 2 /\ IsOpen(p, fd)

(* close clears the entry; it does not call the close function of the      *)
(* jump table.                                                             *)
Close(p, fd) ==
  /\ p \in live
  /\ Closeable(p, fd)
  /\ file_descriptor_tabele' = [file_descriptor_tabele EXCEPT ![p][fd] = Closed]
  /\ got' = [got EXCEPT ![p][fd] = <<>>]
  /\ done' = [done EXCEPT ![p][fd] = FALSE]
  /\ UNCHANGED <<live, last_round, directory_index, rate, nbytes>>

-----------------------------------------------------------------------------
(* read and write.                                                         *)

(* What read_data copies into the buffer and what it returns. *)
read_data(inode, offset, n) ==
  LET r == ReadResult(Length[inode], offset, n)
  IN  [ret |-> r.ret, buf |-> [i \in 1..r.copied |-> offset + i - 1]]

(* Mutant: a full chunk leaves file_position alone. *)
PositionStays(pos, ret) == pos

PositionAfter(pos, ret) == (pos + ret) % Word

(* A program such as cat or grep reads with one buffer, of nbytes[p] bytes, *)
(* until a call returns 0 or -1.                                           *)
Reading(p, fd, kind) == p \in live /\ Kind(p, fd) = kind /\ ~done[p][fd]

(* What a descriptor has delivered, of which at most Word bytes are kept:   *)
(* more than any file has.                                                 *)
Received(s) == IF Len(s) <= Word THEN s ELSE SubSeq(s, 1, Word)

(* file_read: the last, short chunk makes read_data return 0; file_read    *)
(* returns the size of that chunk on the first such call, 0 on the second. *)
FileRead(p, fd) ==
  LET d    == file_descriptor_tabele[p][fd]
      r    == read_data(d.inode, d.file_position, nbytes[p])
      pos  == PositionAfter(d.file_position, r.ret)
      size == IF r.ret # 0 THEN r.ret
              ELSE IF last_round = 0 THEN Length[d.inode] - pos ELSE 0
  IN  /\ Reading(p, fd, "FILE")
      /\ file_descriptor_tabele' =
           [file_descriptor_tabele EXCEPT ![p][fd].file_position = pos]
      /\ last_round' = IF r.ret = 0 THEN 1 - last_round ELSE last_round
      /\ got' = [got EXCEPT ![p][fd] = Received(@ \o SubSeq(r.buf, 1, size))]
      /\ done' = [done EXCEPT ![p][fd] = size <= 0]
      /\ UNCHANGED <<live, directory_index, rate, nbytes>>

(* Mutant: read_dentry_by_index accepts one index too many. *)
DirEndLate == directory_index > Len(Dentries)

(* read_dentry_by_index refuses the index. *)
DirEnd == directory_index >= Len(Dentries)

(* dir_read: the next name, or 0 and back to the first entry. *)
DirRead(p, fd) ==
  /\ Reading(p, fd, "DIR")
  /\ \/ /\ ~DirEnd
        /\ Len(got[p][fd]) < MaxNames
        /\ directory_index' = directory_index + 1
        /\ got' = [got EXCEPT ![p][fd] = Append(@, directory_index)]
        /\ UNCHANGED done
     \/ /\ DirEnd
        /\ directory_index' = 0
        /\ done' = [done EXCEPT ![p][fd] = TRUE]
        /\ UNCHANGED got
  /\ UNCHANGED <<live, file_descriptor_tabele, last_round, rate, nbytes>>

(* write: descriptors in use but stdin, through the jump table; only the   *)
(* RTC's write changes state here.                                         *)
Writing(p, fd, kind) == p \in live /\ fd # 0 /\ Kind(p, fd) = kind

(* RTC_write accepts the powers of two up to MAXIMUMF = 1024; the rate     *)
(* register has four bits.                                                 *)
RTC_write(p, fd, freq) ==
  \E k \in 0..10 :
    /\ Writing(p, fd, "RTC")
    /\ freq = 2^k
    /\ rate' = (16 - k) % 16
    /\ UNCHANGED <<live, file_descriptor_tabele, last_round, directory_index,
                   nbytes, history>>

-----------------------------------------------------------------------------
Names == {Dentries[i].name : i \in DOMAIN Dentries}

Next ==
  \E p \in Procs :
    \/ Execute(p)
    \/ Halt(p)
    \/ \E fname \in Names : Open(p, fname)
    \/ \E fd \in Fds :
         \/ Close(p, fd)
         \/ FileRead(p, fd)
         \/ DirRead(p, fd)
         \/ \E freq \in Freqs : RTC_write(p, fd, freq)

Spec == Init /\ [][Next]_vars

(* A program that reads a file keeps reading it: tasks are scheduled, and  *)
(* cat and grep loop on read.                                              *)
FairSpec ==
  Spec /\ \A p \in Procs : \A fd \in Fds : WF_vars(FileRead(p, fd))

-----------------------------------------------------------------------------
(* Properties.                                                             *)

(* Type correctness of the descriptor tables and the shared globals. *)
TypeOK ==
  /\ live \subseteq Procs
  /\ file_descriptor_tabele \in [Procs -> [Fds -> Descriptor]]
  /\ last_round \in {0, 1}
  /\ directory_index \in 0..Len(Dentries)
  /\ rate \in 0..15
  /\ nbytes \in [Procs -> ReadSizes]
  /\ got \in [Procs -> [Fds -> Seq(Nat)]]
  /\ done \in [Procs -> [Fds -> BOOLEAN]]

(* read and write may call through the jump table of every entry whose     *)
(* flag is set, whatever was opened, closed and halted before: entries 0   *)
(* and 1 stay the terminal, an entry in use has a table, a regular file    *)
(* has the inode of some regular file, and a free entry is clear.          *)
DescriptorsSound ==
  \A p \in Procs : \A fd \in Fds :
    LET d == file_descriptor_tabele[p][fd]
    IN  /\ p \in live /\ fd = 0 => d = Entry("stdin", 0, 1)
        /\ p \in live /\ fd = 1 => d = Entry("stdout", 0, 1)
        /\ p \in live /\ fd >= 2 /\ d.flags = 1 =>
             d.file_operation_table_ptr \in FileTypes
        /\ d.file_operation_table_ptr = "FILE" =>
             \E i \in DOMAIN Dentries :
               Dentries[i].type = "FILE" /\ Dentries[i].inode = d.inode
        /\ p \notin live \/ d.flags = 0 => d = Closed

(* The bytes 0..n-1 of a file, in order. *)
Prefix(n) == [i \in 1..n |-> i - 1]

(* file_read gives a program every byte of a file once and in order, and   *)
(* reports the end only after the last one, whatever its buffer size and   *)
(* however files were left unread before.                                  *)
WholeFile ==
  \A p \in live : \A fd \in Fds :
    LET d == file_descriptor_tabele[p][fd]
    IN  d.file_operation_table_ptr = "FILE" /\ Length[d.inode] > 0 =>
          /\ got[p][fd] = Prefix(Len(got[p][fd]))
          /\ d.file_position <= Len(got[p][fd])
          /\ Len(got[p][fd]) <= Length[d.inode]
          /\ done[p][fd] => Len(got[p][fd]) = Length[d.inode]

(* A program that keeps reading a file reaches its end. *)
ReaderFinishes ==
  \A p \in Procs : \A fd \in Fds :
    (p \in live /\ Kind(p, fd) = "FILE") ~> (done[p][fd] \/ Kind(p, fd) # "FILE")
=============================================================================
