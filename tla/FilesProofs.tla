----------------------------- MODULE FilesProofs -----------------------------
(***************************************************************************)
(* Proofs about Files, for every directory, file length, buffer size and   *)
(* number of tasks.  Types and descriptors are sound for all programs;     *)
(* that a reader gets the whole file is proved where at most one regular   *)
(* file is open at a time, since last_round is shared by all tasks.        *)
(***************************************************************************)
EXTENDS Files, SequenceTheorems, TLAPS

(* A regular file that is not empty is open in entry fd of task p. *)
OpenFile(p, fd) ==
  Kind(p, fd) = "FILE" /\ Length[file_descriptor_tabele[p][fd].inode] > 0

(* file_position never passes the end of a file. *)
PositionsInFile ==
  \A p \in Procs : \A fd \in Fds :
    OpenFile(p, fd) =>
      LET d == file_descriptor_tabele[p][fd]
      IN  d.file_position <= Length[d.inode]

Inv ==
  /\ TypeOK
  /\ DescriptorsSound
  /\ PositionsInFile

(* At most one regular file is open. *)
OneFile ==
  \A p, q \in Procs : \A fd, k \in Fds :
    Kind(p, fd) = "FILE" /\ Kind(q, k) = "FILE" => p = q /\ fd = k

(* What the reader has got: until last_round is set, everything before     *)
(* file_position; from then on, the whole file, of which file_position     *)
(* names the last chunk.                                                   *)
Delivered(p, fd) ==
  LET d == file_descriptor_tabele[p][fd]
      n == Len(got[p][fd])
  IN  /\ got[p][fd] = Prefix(n)
      /\ IF done[p][fd] \/ last_round = 1 THEN n = Length[d.inode] ELSE n = d.file_position
      /\ ~done[p][fd] /\ last_round = 1 => d.file_position + nbytes[p] > Length[d.inode]

AllDelivered ==
  \A p \in Procs : \A fd \in Fds : OpenFile(p, fd) => Delivered(p, fd)

-----------------------------------------------------------------------------
(* Tables.                                                                 *)

(* One entry of a table changes. *)
LEMMA EntryChanges ==
  ASSUME NEW S, NEW f \in [Procs -> [Fds -> S]], NEW p \in Procs, NEW fd \in Fds, NEW v \in S,
         NEW g, g = [f EXCEPT ![p][fd] = v]
  PROVE  /\ g \in [Procs -> [Fds -> S]]
         /\ g[p][fd] = v
         /\ \A q \in Procs : \A k \in Fds : q # p \/ k # fd => g[q][k] = f[q][k]
OBVIOUS

(* One row of a table changes. *)
LEMMA RowChanges ==
  ASSUME NEW S, NEW f \in [Procs -> [Fds -> S]], NEW p \in Procs, NEW row \in [Fds -> S],
         NEW g, g = [f EXCEPT ![p] = row]
  PROVE  /\ g \in [Procs -> [Fds -> S]]
         /\ g[p] = row
         /\ \A q \in Procs \ {p} : \A k \in Fds : g[q][k] = f[q][k]
OBVIOUS

LEMMA EntryTyped ==
  ASSUME NEW table \in {"NULL", "stdin", "stdout"} \cup FileTypes, NEW inode \in Inodes \cup {0},
         NEW flag \in {0, 1}
  PROVE  Entry(table, inode, flag) \in Descriptor
BY WordAssumption DEF Entry, Descriptor

(* The tables execute and halt fill in. *)
LEMMA NewTables ==
  /\ Closed \in Descriptor
  /\ NewTable \in [Fds -> Descriptor]
  /\ [fd \in Fds |-> Closed] \in [Fds -> Descriptor]
  /\ NewTable[0] = Entry("stdin", 0, 1) /\ NewTable[1] = Entry("stdout", 0, 1)
  /\ \A fd \in Fds \ {0, 1} : NewTable[fd] = Closed
<1>1. /\ Closed \in Descriptor
      /\ Entry("stdin", 0, 1) \in Descriptor /\ Entry("stdout", 0, 1) \in Descriptor
  BY EntryTyped DEF Closed
<1>2. 0 \in Fds /\ 1 \in Fds
  BY FilesAssumption DEF Fds
<1>3. NewTable[0] = Entry("stdin", 0, 1) /\ NewTable[1] = Entry("stdout", 0, 1)
  BY <1>2 DEF NewTable
<1>4. \A fd \in Fds \ {0, 1} : NewTable[fd] = Closed
  BY DEF NewTable
<1>5. NewTable \in [Fds -> Descriptor]
  <2>1. \A fd \in Fds : NewTable[fd] \in Descriptor
    BY <1>1, <1>3, <1>4
  <2>2. QED
    BY <2>1 DEF NewTable
<1>6. QED
  BY <1>1, <1>3, <1>4, <1>5

(* What DescriptorsSound says of entry fd with contents d of a task. *)
EntrySound(p, fd, d, tasks) ==
  /\ p \in tasks /\ fd = 0 => d = Entry("stdin", 0, 1)
  /\ p \in tasks /\ fd = 1 => d = Entry("stdout", 0, 1)
  /\ p \in tasks /\ fd >= 2 /\ d.flags = 1 => d.file_operation_table_ptr \in FileTypes
  /\ d.file_operation_table_ptr = "FILE" =>
       \E i \in DOMAIN Dentries : Dentries[i].type = "FILE" /\ Dentries[i].inode = d.inode
  /\ p \notin tasks \/ d.flags = 0 => d = Closed

LEMMA SoundEntries ==
  DescriptorsSound <=>
    \A p \in Procs : \A fd \in Fds : EntrySound(p, fd, file_descriptor_tabele[p][fd], live)
BY DEF DescriptorsSound, EntrySound

LEMMA SoundEntriesAfter ==
  DescriptorsSound' <=>
    \A p \in Procs : \A fd \in Fds : EntrySound(p, fd, file_descriptor_tabele'[p][fd], live')
BY DEF DescriptorsSound, EntrySound

LEMMA ClosedSound ==
  ASSUME NEW p \in Procs, NEW fd \in Fds, NEW tasks, p \notin tasks \/ fd >= 2
  PROVE  EntrySound(p, fd, Closed, tasks)
BY DEF EntrySound, Closed, Entry

LEMMA NewTableSound ==
  ASSUME NEW p \in Procs, NEW tasks, p \in tasks, NEW fd \in Fds
  PROVE  /\ EntrySound(p, fd, NewTable[fd], tasks)
         /\ NewTable[fd].file_operation_table_ptr # "FILE"
<1>1. CASE fd = 0
  BY <1>1, NewTables DEF EntrySound, Entry
<1>2. CASE fd = 1
  BY <1>2, NewTables DEF EntrySound, Entry
<1>3. CASE fd \notin {0, 1}
  <2>1. NewTable[fd] = Closed /\ fd >= 2
    BY <1>3, NewTables, FilesAssumption DEF Fds
  <2>2. QED
    BY <2>1, ClosedSound DEF Closed, Entry
<1>4. QED
  BY <1>1, <1>2, <1>3

(* The inode of a regular file. *)
LEMMA FileInode ==
  ASSUME Inv, NEW p \in Procs, NEW fd \in Fds, Kind(p, fd) = "FILE"
  PROVE  /\ file_descriptor_tabele[p][fd].inode \in Inodes
         /\ p \in live /\ fd >= 2
<1> DEFINE d == file_descriptor_tabele[p][fd]
<1>1. EntrySound(p, fd, d, live) /\ d.file_operation_table_ptr = "FILE"
  BY SoundEntries DEF Inv, Kind
<1>2. PICK i \in DOMAIN Dentries : Dentries[i].inode = d.inode
  BY <1>1 DEF EntrySound
<1> DEFINE R == [name : STRING, type : FileTypes, inode : Inodes]
<1>3. Dentries[i].inode \in Inodes
  <2>1. Dentries \in Seq(R)
    BY FilesAssumption
  <2> HIDE DEF R
  <2>2. DOMAIN Dentries = 1..Len(Dentries)
    BY <2>1, LenProperties
  <2>3. Dentries[i] \in R
    BY <1>2, <2>1, <2>2, ElementOfSeq
  <2>4. QED
    BY <2>3 DEF R
<1>4. p \in live
  BY <1>1 DEF EntrySound, Closed, Entry
<1>5. fd # 0 /\ fd # 1
  BY <1>1, <1>4 DEF EntrySound, Entry
<1>6. fd >= 2
  BY <1>5, FilesAssumption DEF Fds
<1>7. QED
  BY <1>2, <1>3, <1>4, <1>6

-----------------------------------------------------------------------------
(* The bytes a read delivers.                                              *)

Chunk(o, n) == [i \in 1..n |-> o + i - 1]

LEMMA ChunkSeq ==
  ASSUME NEW o \in Nat, NEW n \in Nat
  PROVE  /\ Chunk(o, n) \in Seq(Nat)
         /\ Len(Chunk(o, n)) = n
         /\ \A i \in 1..n : Chunk(o, n)[i] = o + i - 1
<1>1. Chunk(o, n) \in [1..n -> Nat]
  BY DEF Chunk
<1>2. QED
  BY <1>1 DEF Chunk

LEMMA PrefixSeq ==
  ASSUME NEW n \in Nat
  PROVE  Prefix(n) \in Seq(Nat) /\ Len(Prefix(n)) = n /\ \A i \in 1..n : Prefix(n)[i] = i - 1
<1>1. Prefix(n) \in [1..n -> Nat]
  BY DEF Prefix
<1>2. QED
  BY <1>1 DEF Prefix

(* A chunk that starts where a prefix ends makes a longer prefix. *)
LEMMA PrefixGrows ==
  ASSUME NEW o \in Nat, NEW n \in Nat
  PROVE  Prefix(o) \o Chunk(o, n) = Prefix(o + n)
<1> DEFINE a == Prefix(o)
           b == Chunk(o, n)
           c == Prefix(o + n)
<1>1. a \in Seq(Nat) /\ Len(a) = o /\ \A i \in 1..o : a[i] = i - 1
  BY PrefixSeq
<1>2. b \in Seq(Nat) /\ Len(b) = n /\ \A i \in 1..n : b[i] = o + i - 1
  BY ChunkSeq
<1>3. c \in Seq(Nat) /\ Len(c) = o + n /\ \A i \in 1..(o + n) : c[i] = i - 1
  BY PrefixSeq
<1> HIDE DEF a, b, c
<1>4. /\ a \o b \in Seq(Nat) /\ Len(a \o b) = o + n
      /\ \A i \in 1..(o + n) : (a \o b)[i] = IF i <= o THEN a[i] ELSE b[i - o]
  BY <1>1, <1>2, ConcatProperties
<1>5. ASSUME NEW i \in 1..(o + n) PROVE (a \o b)[i] = c[i]
  <2>1. CASE i <= o
    BY <1>1, <1>3, <1>4, <2>1
  <2>2. CASE ~(i <= o)
    <3>1. i - o \in 1..n /\ o + (i - o) - 1 = i - 1
      BY <2>2
    <3>2. QED
      BY <1>2, <1>3, <1>4, <2>2, <3>1
  <2>3. QED
    BY <2>1, <2>2
<1>6. a \o b = c
  BY <1>3, <1>4, <1>5, SeqEqual
<1>7. QED
  BY <1>6 DEF a, b, c

LEMMA ReceivedSeq ==
  ASSUME NEW s \in Seq(Nat)
  PROVE  Received(s) \in Seq(Nat) /\ (Len(s) <= Word => Received(s) = s)
<1>1. CASE Len(s) <= Word
  BY <1>1 DEF Received
<1>2. CASE ~(Len(s) <= Word)
  <2>1. \A i \in 1..Word : s[i] \in Nat
    BY <1>2, WordAssumption, ElementOfSeq, LenProperties
  <2>2. SubSeq(s, 1, Word) \in Seq(Nat)
    BY <2>1, WordAssumption, SubSeqProperties
  <2>3. QED
    BY <1>2, <2>2 DEF Received
<1>3. QED
  BY <1>1, <1>2
(* A reader that has everything before a chunk has, after it, everything   *)
(* before the next one.                                                    *)
LEMMA PrefixReceived ==
  ASSUME NEW o \in Nat, NEW n \in Nat, o + n < Word
  PROVE  /\ Received(Prefix(o) \o Chunk(o, n)) = Prefix(o + n)
         /\ Len(Prefix(o + n)) = o + n
<1>1. Prefix(o + n) \in Seq(Nat) /\ Len(Prefix(o + n)) = o + n
  BY PrefixSeq
<1>2. Len(Prefix(o + n)) <= Word
  BY <1>1, WordAssumption
<1>3. QED
  BY <1>1, <1>2, PrefixGrows, ReceivedSeq

-----------------------------------------------------------------------------
(* What one call of file_read does.                                        *)

ReadEffect(p, fd, pos, round, bytes, end) ==
  /\ file_descriptor_tabele' =
       [file_descriptor_tabele EXCEPT ![p][fd].file_position = pos]
  /\ last_round' = round
  /\ got' = [got EXCEPT ![p][fd] = Received(@ \o bytes)]
  /\ done' = [done EXCEPT ![p][fd] = end]

(* file_position after the -1 that read_data returns for an empty file. *)
Back(o) == PositionAfter(o, -1)

LEMMA NoWrap ==
  ASSUME NEW x \in 0..(Word - 1)
  PROVE  x % Word = x
BY WordAssumption

(* The numbers a read of a regular file works with. *)
LEMMA ReadNumbers ==
  ASSUME Inv, NEW p \in Procs, NEW fd \in Fds, Kind(p, fd) = "FILE"
  PROVE  LET d == file_descriptor_tabele[p][fd]
         IN  /\ Length[d.inode] \in Nat
             /\ d.file_position \in 0..(Word - 1)
             /\ nbytes[p] \in Nat \ {0}
             /\ Length[d.inode] + nbytes[p] < Word
             /\ Length[d.inode] > 0 => d.file_position <= Length[d.inode]
<1> DEFINE d == file_descriptor_tabele[p][fd]
<1>1. d.inode \in Inodes
  BY FileInode
<1>2. d \in Descriptor /\ nbytes[p] \in ReadSizes
  BY DEF Inv, TypeOK
<1>3. Length[d.inode] > 0 => d.file_position <= Length[d.inode]
  BY DEF Inv, PositionsInFile, OpenFile
<1>4. QED
  BY <1>1, <1>2, <1>3, FilesAssumption DEF Descriptor

(* What read_data returns for the four outcomes: an empty file, a full     *)
(* chunk, the last chunk and the end that the next call reports.           *)
LEMMA ReadOutcome ==
  ASSUME NEW i \in Inodes, NEW o \in 0..(Word - 1), NEW n \in Nat \ {0},
         NEW l \in Nat, l = Length[i], l + n < Word, l > 0 => o <= l,
         NEW r, r = read_data(i, o, n)
  PROVE  /\ l = 0 => r.ret = -1 /\ SubSeq(r.buf, 1, -1) = <<>>
         /\ l > 0 /\ o + n <= l =>
              r.ret = n /\ SubSeq(r.buf, 1, n) = Chunk(o, n) /\ PositionAfter(o, n) = o + n
         /\ l > 0 /\ o + n > l =>
              /\ r.ret = 0 /\ PositionAfter(o, 0) = o
              /\ SubSeq(r.buf, 1, l - o) = Chunk(o, l - o) /\ SubSeq(r.buf, 1, 0) = <<>>
<1> DEFINE res == ReadResult(l, o, n)
<1>1. r.ret = res.ret /\ r.buf = Chunk(o, res.copied)
  BY DEF read_data, Chunk
<1>2. SubSeq(r.buf, 1, -1) = <<>> /\ SubSeq(r.buf, 1, 0) = <<>>
  BY SubSeqEmpty
<1>3. ASSUME NEW k \in Nat PROVE SubSeq(Chunk(o, k), 1, k) = Chunk(o, k)
  <2>1. o \in Nat
    BY WordAssumption
  <2>2. Chunk(o, k) \in Seq(Nat) /\ Len(Chunk(o, k)) = k
    BY <2>1, ChunkSeq
  <2>3. QED
    BY <2>2, SubSeqFull
<1>4. ASSUME l = 0 PROVE res.ret = -1
  BY <1>4 DEF ReadResult
<1>5. ASSUME l > 0, o + n <= l
      PROVE  res.ret = n /\ res.copied = n /\ PositionAfter(o, n) = o + n
  <2>1. o + n \in 0..(Word - 1)
    BY <1>5, WordAssumption
  <2>2. (o + n) % Word = o + n
    BY <2>1, NoWrap
  <2>3. QED
    BY <1>5, <2>2 DEF ReadResult, PositionAfter
<1>6. ASSUME l > 0, o + n > l
      PROVE  res.ret = 0 /\ res.copied = l - o /\ l - o \in Nat /\ PositionAfter(o, 0) = o
  <2>1. o + n \in 0..(Word - 1) /\ l - o \in Nat /\ o + 0 = o
    BY <1>6, WordAssumption
  <2>2. (o + n) % Word = o + n /\ o % Word = o
    BY <2>1, NoWrap
  <2>3. ~((o + n) % Word <= l)
    BY <1>6, <2>1, <2>2
  <2>4. res.ret = 0 /\ res.copied = l - o
    BY <1>6, <2>3 DEF ReadResult
  <2>5. QED
    BY <2>1, <2>2, <2>4 DEF PositionAfter
<1> HIDE DEF res
<1>7. l = 0 => r.ret = -1
  BY <1>1, <1>4
<1>8. l > 0 /\ o + n <= l =>
        r.ret = n /\ SubSeq(r.buf, 1, n) = Chunk(o, n) /\ PositionAfter(o, n) = o + n
  BY <1>1, <1>3, <1>5
<1>9. l > 0 /\ o + n > l =>
        r.ret = 0 /\ PositionAfter(o, 0) = o /\ SubSeq(r.buf, 1, l - o) = Chunk(o, l - o)
  BY <1>1, <1>3, <1>6
<1>10. QED
  BY <1>2, <1>7, <1>8, <1>9

LEMMA FileReadIs ==
  ASSUME Inv, NEW p \in Procs, NEW fd \in Fds, FileRead(p, fd),
         NEW d, d = file_descriptor_tabele[p][fd], NEW o, o = d.file_position,
         NEW n, n = nbytes[p], NEW l, l = Length[d.inode]
  PROVE  /\ l = 0 => ReadEffect(p, fd, Back(o), last_round, <<>>, TRUE)
         /\ l > 0 /\ o + n <= l => ReadEffect(p, fd, o + n, last_round, Chunk(o, n), FALSE)
         /\ l > 0 /\ o + n > l /\ last_round = 0 =>
              ReadEffect(p, fd, o, 1, Chunk(o, l - o), o = l)
         /\ l > 0 /\ o + n > l /\ last_round = 1 => ReadEffect(p, fd, o, 0, <<>>, TRUE)
<1>1. Kind(p, fd) = "FILE"
  BY DEF FileRead, Reading
<1>2. /\ l \in Nat /\ o \in 0..(Word - 1) /\ n \in Nat \ {0} /\ l + n < Word
      /\ l > 0 => o <= l
  BY <1>1, ReadNumbers
<1>3. d.inode \in Inodes
  BY <1>1, FileInode
<1> PICK r : r = read_data(d.inode, o, n)
  OBVIOUS
<1>4. /\ l = 0 => r.ret = -1 /\ SubSeq(r.buf, 1, -1) = <<>>
      /\ l > 0 /\ o + n <= l =>
           r.ret = n /\ SubSeq(r.buf, 1, n) = Chunk(o, n) /\ PositionAfter(o, n) = o + n
      /\ l > 0 /\ o + n > l =>
           /\ r.ret = 0 /\ PositionAfter(o, 0) = o
           /\ SubSeq(r.buf, 1, l - o) = Chunk(o, l - o) /\ SubSeq(r.buf, 1, 0) = <<>>
  BY <1>2, <1>3, ReadOutcome
<1> DEFINE pos  == PositionAfter(o, r.ret)
           size == IF r.ret # 0 THEN r.ret ELSE IF last_round = 0 THEN l - pos ELSE 0
<1>5. /\ file_descriptor_tabele' =
           [file_descriptor_tabele EXCEPT ![p][fd].file_position = pos]
      /\ last_round' = IF r.ret = 0 THEN 1 - last_round ELSE last_round
      /\ got' = [got EXCEPT ![p][fd] = Received(@ \o SubSeq(r.buf, 1, size))]
      /\ done' = [done EXCEPT ![p][fd] = size <= 0]
  BY DEF FileRead
<1>6. l = 0 => ReadEffect(p, fd, Back(o), last_round, <<>>, TRUE)
  <2> SUFFICES ASSUME l = 0 PROVE ReadEffect(p, fd, Back(o), last_round, <<>>, TRUE)
    OBVIOUS
  <2>1. r.ret = -1 /\ size = -1 /\ pos = Back(o) /\ SubSeq(r.buf, 1, size) = <<>>
    BY <1>4 DEF Back
  <2>2. (size <= 0) = TRUE
    BY <2>1
  <2> HIDE DEF pos, size
  <2>3. done' = [done EXCEPT ![p][fd] = TRUE]
    BY <1>5, <2>2, Zenon
  <2>4. /\ file_descriptor_tabele' =
             [file_descriptor_tabele EXCEPT ![p][fd].file_position = pos]
        /\ got' = [got EXCEPT ![p][fd] = Received(@ \o SubSeq(r.buf, 1, size))]
    BY <1>5
  <2>5. last_round' = last_round
    BY <1>5, <2>1, <2>2
  <2>6. QED
    BY <2>1, <2>3, <2>4, <2>5, Zenon DEF ReadEffect
<1>7. l > 0 /\ o + n <= l => ReadEffect(p, fd, o + n, last_round, Chunk(o, n), FALSE)
  <2> SUFFICES ASSUME l > 0, o + n <= l
               PROVE  ReadEffect(p, fd, o + n, last_round, Chunk(o, n), FALSE)
    OBVIOUS
  <2>1. r.ret = n /\ size = n /\ pos = o + n /\ SubSeq(r.buf, 1, size) = Chunk(o, n)
    BY <1>2, <1>4
  <2>2. (size <= 0) = FALSE /\ r.ret # 0
    BY <1>2, <2>1
  <2> HIDE DEF pos, size
  <2>3. done' = [done EXCEPT ![p][fd] = FALSE]
    BY <1>5, <2>2, Zenon
  <2>4. /\ file_descriptor_tabele' =
             [file_descriptor_tabele EXCEPT ![p][fd].file_position = pos]
        /\ got' = [got EXCEPT ![p][fd] = Received(@ \o SubSeq(r.buf, 1, size))]
    BY <1>5
  <2>5. last_round' = last_round
    BY <1>5, <2>1, <2>2
  <2>6. QED
    BY <2>1, <2>3, <2>4, <2>5, Zenon DEF ReadEffect
<1>8. l > 0 /\ o + n > l /\ last_round = 0 => ReadEffect(p, fd, o, 1, Chunk(o, l - o), o = l)
  <2> SUFFICES ASSUME l > 0, o + n > l, last_round = 0
               PROVE  ReadEffect(p, fd, o, 1, Chunk(o, l - o), o = l)
    OBVIOUS
  <2>1. r.ret = 0 /\ size = l - o /\ pos = o /\ SubSeq(r.buf, 1, size) = Chunk(o, l - o)
    BY <1>4
  <2>2. (size <= 0) = (o = l)
    BY <1>2, <2>1
  <2> HIDE DEF pos, size
  <2>3. done' = [done EXCEPT ![p][fd] = (o = l)]
    BY <1>5, <2>2, Zenon
  <2>4. /\ file_descriptor_tabele' =
             [file_descriptor_tabele EXCEPT ![p][fd].file_position = pos]
        /\ got' = [got EXCEPT ![p][fd] = Received(@ \o SubSeq(r.buf, 1, size))]
    BY <1>5
  <2>5. last_round' = 1
    BY <1>5, <2>1, <2>2
  <2>6. QED
    BY <2>1, <2>3, <2>4, <2>5, Zenon DEF ReadEffect
<1>9. l > 0 /\ o + n > l /\ last_round = 1 => ReadEffect(p, fd, o, 0, <<>>, TRUE)
  <2> SUFFICES ASSUME l > 0, o + n > l, last_round = 1
               PROVE  ReadEffect(p, fd, o, 0, <<>>, TRUE)
    OBVIOUS
  <2>1. r.ret = 0 /\ size = 0 /\ pos = o /\ SubSeq(r.buf, 1, size) = <<>>
    BY <1>4
  <2>2. (size <= 0) = TRUE
    BY <2>1
  <2> HIDE DEF pos, size
  <2>3. done' = [done EXCEPT ![p][fd] = TRUE]
    BY <1>5, <2>2, Zenon
  <2>4. /\ file_descriptor_tabele' =
             [file_descriptor_tabele EXCEPT ![p][fd].file_position = pos]
        /\ got' = [got EXCEPT ![p][fd] = Received(@ \o SubSeq(r.buf, 1, size))]
    BY <1>5
  <2>5. last_round' = 0
    BY <1>5, <2>1, <2>2
  <2>6. QED
    BY <2>1, <2>3, <2>4, <2>5, Zenon DEF ReadEffect
<1>10. QED
  BY <1>6, <1>7, <1>8, <1>9

-----------------------------------------------------------------------------
(* Types and descriptors.                                                  *)

LEMMA InitInv ==
  ASSUME Init
  PROVE  Inv /\ OneFile /\ AllDelivered
<1>1. \A q \in Procs : \A k \in Fds : file_descriptor_tabele[q][k] = Closed
  BY DEF Init
<1>2. \A q \in Procs : \A k \in Fds : Kind(q, k) # "FILE"
  BY <1>1 DEF Kind, Closed, Entry
<1>3. file_descriptor_tabele \in [Procs -> [Fds -> Descriptor]]
  BY NewTables DEF Init
<1>4. got \in [Procs -> [Fds -> Seq(Nat)]] /\ done \in [Procs -> [Fds -> BOOLEAN]]
  BY DEF Init
<1>5. directory_index \in 0..Len(Dentries)
  BY FilesAssumption, LenProperties DEF Init
<1>6. rate \in 0..15 /\ last_round \in {0, 1} /\ live \subseteq Procs
      /\ nbytes \in [Procs -> ReadSizes]
  BY DEF Init, RTC_RATE
<1>7. TypeOK
  BY <1>3, <1>4, <1>5, <1>6 DEF TypeOK
<1>8. DescriptorsSound
  BY <1>1, SoundEntries, ClosedSound DEF Init
<1>9. QED
  BY <1>2, <1>7, <1>8 DEF Inv, PositionsInFile, OpenFile, OneFile, AllDelivered

(* execute and halt replace the whole table of a task. *)
LEMMA RowInv ==
  ASSUME Inv, NEW p \in Procs, NEW row \in [Fds -> Descriptor],
         file_descriptor_tabele' = [file_descriptor_tabele EXCEPT ![p] = row],
         live' \subseteq Procs, \A q \in Procs \ {p} : q \in live' <=> q \in live,
         \A fd \in Fds : EntrySound(p, fd, row[fd], live'),
         \A fd \in Fds : row[fd].file_operation_table_ptr # "FILE",
         NewProgram(p), UNCHANGED <<last_round, directory_index, rate>>
  PROVE  Inv' /\ (OneFile /\ AllDelivered => OneFile' /\ AllDelivered')
<1>1. file_descriptor_tabele \in [Procs -> [Fds -> Descriptor]]
  BY DEF Inv, TypeOK
<1>2. /\ file_descriptor_tabele' \in [Procs -> [Fds -> Descriptor]]
      /\ file_descriptor_tabele'[p] = row
      /\ \A q \in Procs \ {p} : \A k \in Fds :
           file_descriptor_tabele'[q][k] = file_descriptor_tabele[q][k]
  BY <1>1, RowChanges
<1>3. /\ got' \in [Procs -> [Fds -> Seq(Nat)]] 
      /\ \A q \in Procs \ {p} : \A k \in Fds : got'[q][k] = got[q][k]
  BY RowChanges DEF Inv, TypeOK, NewProgram
<1>4. /\ done' \in [Procs -> [Fds -> BOOLEAN]]
      /\ \A q \in Procs \ {p} : \A k \in Fds : done'[q][k] = done[q][k]
  BY RowChanges DEF Inv, TypeOK, NewProgram
<1>5. nbytes' \in [Procs -> ReadSizes] /\ \A q \in Procs \ {p} : nbytes'[q] = nbytes[q]
  BY DEF Inv, TypeOK, NewProgram
<1>6. TypeOK'
  BY <1>2, <1>3, <1>4, <1>5 DEF Inv, TypeOK
<1>7. DescriptorsSound'
  <2>1. \A q \in Procs : \A k \in Fds : EntrySound(q, k, file_descriptor_tabele[q][k], live)
    BY SoundEntries DEF Inv
  <2>2. ASSUME NEW q \in Procs, NEW k \in Fds
        PROVE  EntrySound(q, k, file_descriptor_tabele'[q][k], live')
    <3>1. CASE q = p
      BY <1>2, <3>1
    <3>2. CASE q # p
      BY <1>2, <2>1, <3>2 DEF EntrySound
    <3>3. QED
      BY <3>1, <3>2
  <2>3. QED
    BY <2>2, SoundEntriesAfter
<1>8. ASSUME NEW q \in Procs, NEW k \in Fds, Kind(q, k)' = "FILE"
      PROVE  q # p /\ Kind(q, k) = "FILE"
  BY <1>2, <1>8 DEF Kind
<1>9. PositionsInFile'
  BY <1>2, <1>8 DEF Inv, PositionsInFile, OpenFile
<1>10. ASSUME OneFile PROVE OneFile'
  BY <1>8, <1>10 DEF OneFile
<1>11. ASSUME AllDelivered PROVE AllDelivered'
  <2>1. ASSUME NEW q \in Procs, NEW k \in Fds, OpenFile(q, k)'
        PROVE  Delivered(q, k)'
    <3>1. q # p /\ OpenFile(q, k)
      BY <1>2, <1>8, <2>1 DEF OpenFile
    <3>2. Delivered(q, k)
      BY <1>11, <3>1 DEF AllDelivered
    <3>3. QED
      BY <1>2, <1>3, <1>4, <1>5, <3>1, <3>2 DEF Delivered
  <2>2. QED
    BY <2>1 DEF AllDelivered
<1>12. QED
  BY <1>6, <1>7, <1>9, <1>10, <1>11 DEF Inv

LEMMA ExecuteInv ==
  ASSUME Inv, NEW p \in Procs, Execute(p)
  PROVE  Inv' /\ (OneFile /\ AllDelivered => OneFile' /\ AllDelivered')
<1>1. /\ file_descriptor_tabele' = [file_descriptor_tabele EXCEPT ![p] = NewTable]
      /\ live' = live \cup {p} /\ NewProgram(p)
      /\ UNCHANGED <<last_round, directory_index, rate>>
  BY DEF Execute
<1>2. live' \subseteq Procs /\ \A q \in Procs \ {p} : q \in live' <=> q \in live
  BY <1>1 DEF Inv, TypeOK
<1>3. \A fd \in Fds : /\ EntrySound(p, fd, NewTable[fd], live')
                      /\ NewTable[fd].file_operation_table_ptr # "FILE"
  BY <1>1, NewTableSound
<1>4. QED
  BY <1>1, <1>2, <1>3, NewTables, RowInv

LEMMA HaltInv ==
  ASSUME Inv, NEW p \in Procs, Halt(p)
  PROVE  Inv' /\ (OneFile /\ AllDelivered => OneFile' /\ AllDelivered')
<1>1. NewProgram(p) /\ UNCHANGED <<last_round, directory_index, rate>>
  BY DEF Halt
<1>2. live' \subseteq Procs /\ \A q \in Procs \ {p} : q \in live' <=> q \in live
  BY DEF Halt, Inv, TypeOK
<1>3. CASE p \in Shells
  <2>1. file_descriptor_tabele' = [file_descriptor_tabele EXCEPT ![p] = NewTable]
    BY <1>3 DEF Halt
  <2>2. \A fd \in Fds : /\ EntrySound(p, fd, NewTable[fd], live')
                        /\ NewTable[fd].file_operation_table_ptr # "FILE"
    BY <1>3, NewTableSound DEF Halt
  <2>3. QED
    BY <1>1, <1>2, <2>1, <2>2, NewTables, RowInv
<1>4. CASE p \notin Shells
  <2> DEFINE row == [fd \in Fds |-> Closed]
  <2>1. file_descriptor_tabele' = [file_descriptor_tabele EXCEPT ![p] = row]
    BY <1>4 DEF Halt
  <2>2. p \notin live'
    BY <1>4 DEF Halt
  <2>3. \A fd \in Fds : /\ EntrySound(p, fd, row[fd], live')
                        /\ row[fd].file_operation_table_ptr # "FILE"
    BY <2>2, ClosedSound DEF Closed, Entry
  <2>4. row \in [Fds -> Descriptor]
    BY NewTables
  <2> HIDE DEF row
  <2>5. QED
    BY <1>1, <1>2, <2>1, <2>3, <2>4, RowInv
<1>5. QED
  BY <1>3, <1>4

LEMMA DoneChanges ==
  ASSUME Inv, NEW p \in Procs, NEW fd \in Fds, NEW b \in BOOLEAN,
         done' = [done EXCEPT ![p][fd] = b]
  PROVE  /\ done' \in [Procs -> [Fds -> BOOLEAN]] /\ done'[p][fd] = b
         /\ \A q \in Procs : \A k \in Fds : q # p \/ k # fd => done'[q][k] = done[q][k]
<1>1. PICK S : S = BOOLEAN
  OBVIOUS
<1>2. done \in [Procs -> [Fds -> S]] /\ b \in S
  BY <1>1 DEF Inv, TypeOK
<1>3. /\ done' \in [Procs -> [Fds -> S]] /\ done'[p][fd] = b
      /\ \A q \in Procs : \A k \in Fds : q # p \/ k # fd => done'[q][k] = done[q][k]
  BY <1>2, EntryChanges
<1>4. QED
  BY <1>1, <1>3

(* open, close and read change one entry of a task. *)
LEMMA EntryInv ==
  ASSUME Inv, NEW p \in Procs, NEW fd \in Fds, NEW v \in Descriptor,
         file_descriptor_tabele' = [file_descriptor_tabele EXCEPT ![p][fd] = v],
         EntrySound(p, fd, v, live),
         v.file_operation_table_ptr = "FILE" /\ Length[v.inode] > 0 =>
           v.file_position <= Length[v.inode],
         got' \in [Procs -> [Fds -> Seq(Nat)]], done' \in [Procs -> [Fds -> BOOLEAN]],
         last_round' \in {0, 1}, UNCHANGED <<live, directory_index, rate, nbytes>>
  PROVE  Inv'
<1>1. file_descriptor_tabele \in [Procs -> [Fds -> Descriptor]]
  BY DEF Inv, TypeOK
<1>2. /\ file_descriptor_tabele' \in [Procs -> [Fds -> Descriptor]]
      /\ file_descriptor_tabele'[p][fd] = v
      /\ \A q \in Procs : \A k \in Fds :
           q # p \/ k # fd => file_descriptor_tabele'[q][k] = file_descriptor_tabele[q][k]
  BY <1>1, EntryChanges
<1>3. TypeOK'
  BY <1>2 DEF Inv, TypeOK
<1>4. DescriptorsSound'
  <2>1. \A q \in Procs : \A k \in Fds : EntrySound(q, k, file_descriptor_tabele[q][k], live)
    BY SoundEntries DEF Inv
  <2>2. \A q \in Procs : \A k \in Fds : EntrySound(q, k, file_descriptor_tabele'[q][k], live')
    BY <1>2, <2>1
  <2>3. QED
    BY <2>2, SoundEntriesAfter
<1>5. PositionsInFile'
  BY <1>2 DEF Inv, PositionsInFile, OpenFile, Kind
<1>6. QED
  BY <1>3, <1>4, <1>5 DEF Inv

(* A step that leaves a descriptor that is no regular file behind, and the *)
(* others as they were.                                                    *)
LEMMA OthersKept ==
  ASSUME OneFile, AllDelivered, NEW p \in Procs, NEW fd \in Fds,
         file_descriptor_tabele'[p][fd].file_operation_table_ptr # "FILE",
         \A q \in Procs : \A k \in Fds : q # p \/ k # fd =>
           /\ file_descriptor_tabele'[q][k] = file_descriptor_tabele[q][k]
           /\ got'[q][k] = got[q][k]
           /\ done'[q][k] = done[q][k],
         last_round' = last_round, nbytes' = nbytes
  PROVE  OneFile' /\ AllDelivered'
<1>1. ASSUME NEW q \in Procs, NEW k \in Fds, Kind(q, k)' = "FILE"
      PROVE  (q # p \/ k # fd) /\ Kind(q, k) = "FILE"
  BY <1>1 DEF Kind
<1>2. OneFile'
  BY <1>1 DEF OneFile
<1>3. ASSUME NEW q \in Procs, NEW k \in Fds, OpenFile(q, k)'
      PROVE  Delivered(q, k)'
  <2>1. (q # p \/ k # fd) /\ OpenFile(q, k)
    BY <1>1, <1>3 DEF OpenFile
  <2>2. Delivered(q, k)
    BY <2>1 DEF AllDelivered
  <2>3. QED
    BY <2>1, <2>2 DEF Delivered
<1>4. QED
  BY <1>2, <1>3 DEF AllDelivered

(* The entry that open fills in. *)
LEMMA OpenedEntry ==
  ASSUME NEW p \in Procs, NEW fd \in Fds, fd >= 2, NEW tasks, p \in tasks,
         NEW i \in DOMAIN Dentries, NEW v,
         v = Entry(Dentries[i].type, IF Dentries[i].type = "FILE" THEN Dentries[i].inode ELSE 0, 1)
  PROVE  /\ v \in Descriptor /\ EntrySound(p, fd, v, tasks)
         /\ Dentries[i].type = "FILE" => Length[v.inode] \in Nat
<1> DEFINE R == [name : STRING, type : FileTypes, inode : Inodes]
<1>1. Dentries \in Seq(R)
  BY FilesAssumption
<1> HIDE DEF R
<1>2. Dentries[i] \in R
  BY <1>1, LenProperties, ElementOfSeq
<1>3. Dentries[i].type \in FileTypes /\ Dentries[i].inode \in Inodes
  BY <1>2 DEF R
<1>4. v \in Descriptor
  BY <1>3, EntryTyped
<1>5. EntrySound(p, fd, v, tasks)
  BY <1>3 DEF EntrySound, Entry
<1>6. Dentries[i].type = "FILE" => Length[v.inode] \in Nat
  BY <1>3, FilesAssumption DEF Entry
<1>7. QED
  BY <1>4, <1>5, <1>6

(* open never takes stdin or stdout of a live task. *)
LEMMA FreeFdIsFile ==
  ASSUME Inv, NEW p \in live, NEW fd \in FreeFds(p)
  PROVE  p \in Procs /\ fd \in Fds /\ fd >= 2 /\ Kind(p, fd) # "FILE"
<1>1. p \in Procs /\ fd \in Fds /\ ~IsOpen(p, fd)
  BY DEF Inv, TypeOK, FreeFds
<1>2. EntrySound(p, fd, file_descriptor_tabele[p][fd], live)
  BY <1>1, SoundEntries DEF Inv
<1>3. fd # 0 /\ fd # 1
  BY <1>1, <1>2 DEF EntrySound, Entry, IsOpen
<1>4. fd >= 2
  BY <1>1, <1>3, FilesAssumption DEF Fds
<1>5. Kind(p, fd) # "FILE"
  BY <1>1, <1>2 DEF EntrySound, Entry, Closed, IsOpen, Kind
<1>6. QED
  BY <1>1, <1>4, <1>5

LEMMA OpenInv ==
  ASSUME Inv, NEW p \in Procs, NEW fname, Open(p, fname)
  PROVE  Inv' /\ (Exclusive /\ OneFile /\ AllDelivered => OneFile' /\ AllDelivered')
<1>1. PICK i \in read_dentry_by_name(fname), fd \in FreeFds(p) :
        /\ p \in live
        /\ Exclusive /\ Dentries[i].type = "FILE" =>
             \A q \in Procs : \A k \in Fds : Kind(q, k) # "FILE"
        /\ file_descriptor_tabele' =
             [file_descriptor_tabele EXCEPT
                ![p][fd] = Entry(Dentries[i].type,
                                 IF Dentries[i].type = "FILE" THEN Dentries[i].inode ELSE 0, 1)]
        /\ last_round' = RoundAfterOpen(Dentries[i].type)
        /\ got' = [got EXCEPT ![p][fd] = <<>>]
        /\ done' = [done EXCEPT ![p][fd] = FALSE]
        /\ UNCHANGED <<live, directory_index, rate, nbytes>>
  BY DEF Open
<1>2. fd \in Fds /\ fd >= 2 /\ i \in DOMAIN Dentries /\ p \in live
  BY <1>1, FreeFdIsFile DEF read_dentry_by_name
<1> DEFINE t == Dentries[i].type
<1> PICK v : v = Entry(t, IF t = "FILE" THEN Dentries[i].inode ELSE 0, 1)
  OBVIOUS
<1>3. v \in Descriptor /\ EntrySound(p, fd, v, live) /\ (t = "FILE" => Length[v.inode] \in Nat)
  BY <1>2, OpenedEntry
<1>4. v.file_operation_table_ptr = t /\ v.file_position = 0
      /\ (t = "FILE" => v.inode = Dentries[i].inode)
  BY DEF Entry
<1>5. file_descriptor_tabele' = [file_descriptor_tabele EXCEPT ![p][fd] = v]
  BY <1>1
<1>6. /\ file_descriptor_tabele'[p][fd] = v
      /\ \A q \in Procs : \A k \in Fds :
           q # p \/ k # fd => file_descriptor_tabele'[q][k] = file_descriptor_tabele[q][k]
  BY <1>2, <1>3, <1>5, EntryChanges DEF Inv, TypeOK
<1>7. /\ got' \in [Procs -> [Fds -> Seq(Nat)]] /\ got'[p][fd] = <<>>
      /\ \A q \in Procs : \A k \in Fds : q # p \/ k # fd => got'[q][k] = got[q][k]
  <2>1. <<>> \in Seq(Nat)
    OBVIOUS
  <2>2. QED
    BY <1>1, <1>2, <2>1, EntryChanges DEF Inv, TypeOK
<1>8. /\ done' \in [Procs -> [Fds -> BOOLEAN]] /\ done'[p][fd] = FALSE
      /\ \A q \in Procs : \A k \in Fds : q # p \/ k # fd => done'[q][k] = done[q][k]
  BY <1>1, <1>2, DoneChanges
<1>9. last_round' = IF t = "FILE" THEN 0 ELSE last_round
  BY <1>1 DEF RoundAfterOpen
<1>10. UNCHANGED <<live, directory_index, rate, nbytes>>
  BY <1>1
<1>11. t = "FILE" /\ Length[v.inode] > 0 => v.file_position <= Length[v.inode]
  BY <1>3, <1>4
<1>12. last_round' \in {0, 1}
  BY <1>9 DEF Inv, TypeOK
<1>13. Inv'
  BY <1>2, <1>3, <1>4, <1>5, <1>7, <1>8, <1>10, <1>11, <1>12, EntryInv
<1>14. ASSUME Exclusive, OneFile, AllDelivered PROVE OneFile' /\ AllDelivered'
  <2>1. CASE t = "FILE"
    <3>1. \A q \in Procs : \A k \in Fds : Kind(q, k)' = "FILE" => q = p /\ k = fd
      BY <1>1, <1>6, <1>14, <2>1 DEF Kind
    <3>2. Delivered(p, fd)'
      <4>1. Len(got'[p][fd]) = 0 /\ got'[p][fd] = Prefix(0)
        BY <1>7 DEF Prefix
      <4>2. QED
        BY <1>4, <1>6, <1>8, <1>9, <2>1, <4>1 DEF Delivered
    <3>3. QED
      BY <3>1, <3>2 DEF OneFile, AllDelivered, OpenFile
  <2>2. CASE t # "FILE"
    <3>1. last_round' = last_round /\ nbytes' = nbytes
      BY <1>9, <1>10, <2>2
    <3>2. QED
      BY <1>2, <1>4, <1>6, <1>7, <1>8, <1>14, <2>2, <3>1, OthersKept
  <2>3. QED
    BY <2>1, <2>2
<1>15. QED
  BY <1>13, <1>14

LEMMA CloseInv ==
  ASSUME Inv, NEW p \in Procs, NEW fd \in Fds, Close(p, fd)
  PROVE  Inv' /\ (OneFile /\ AllDelivered => OneFile' /\ AllDelivered')
<1>1. /\ fd >= 2
      /\ file_descriptor_tabele' = [file_descriptor_tabele EXCEPT ![p][fd] = Closed]
      /\ got' = [got EXCEPT ![p][fd] = <<>>] /\ done' = [done EXCEPT ![p][fd] = FALSE]
      /\ UNCHANGED <<live, last_round, directory_index, rate, nbytes>>
  BY DEF Close, Closeable
<1>2. Closed \in Descriptor /\ EntrySound(p, fd, Closed, live)
      /\ Closed.file_operation_table_ptr # "FILE"
  <2>1. Closed \in Descriptor
    BY NewTables
  <2>2. EntrySound(p, fd, Closed, live)
    BY <1>1, ClosedSound
  <2>3. QED
    BY <2>1, <2>2 DEF Closed, Entry
<1>3. /\ file_descriptor_tabele'[p][fd] = Closed
      /\ \A q \in Procs : \A k \in Fds :
           q # p \/ k # fd => file_descriptor_tabele'[q][k] = file_descriptor_tabele[q][k]
  BY <1>1, <1>2, EntryChanges DEF Inv, TypeOK
<1>4. /\ got' \in [Procs -> [Fds -> Seq(Nat)]]
      /\ \A q \in Procs : \A k \in Fds : q # p \/ k # fd => got'[q][k] = got[q][k]
  <2>1. <<>> \in Seq(Nat)
    OBVIOUS
  <2>2. QED
    BY <1>1, <2>1, EntryChanges DEF Inv, TypeOK
<1>5. /\ done' \in [Procs -> [Fds -> BOOLEAN]]
      /\ \A q \in Procs : \A k \in Fds : q # p \/ k # fd => done'[q][k] = done[q][k]
  BY <1>1, DoneChanges
<1>6. last_round' \in {0, 1} /\ UNCHANGED <<live, directory_index, rate, nbytes>>
  BY <1>1 DEF Inv, TypeOK
<1>7. Inv'
  BY <1>1, <1>2, <1>4, <1>5, <1>6, EntryInv
<1>8. ASSUME OneFile, AllDelivered PROVE OneFile' /\ AllDelivered'
  <2>1. last_round' = last_round /\ nbytes' = nbytes
    BY <1>1
  <2>2. file_descriptor_tabele'[p][fd].file_operation_table_ptr # "FILE"
    BY <1>2, <1>3
  <2>3. QED
    BY <1>3, <1>4, <1>5, <1>8, <2>1, <2>2, OthersKept
<1>9. QED
  BY <1>7, <1>8

(* A read that moves the position, sets last_round and delivers bytes. *)
LEMMA EffectInv ==
  ASSUME Inv, NEW p \in Procs, NEW fd \in Fds, Kind(p, fd) = "FILE",
         NEW pos \in 0..(Word - 1), NEW round \in {0, 1}, NEW bytes \in Seq(Nat),
         NEW end \in BOOLEAN, ReadEffect(p, fd, pos, round, bytes, end),
         Length[file_descriptor_tabele[p][fd].inode] > 0 =>
           pos <= Length[file_descriptor_tabele[p][fd].inode],
         UNCHANGED <<live, directory_index, rate, nbytes>>
  PROVE  /\ Inv' /\ last_round' = round
         /\ file_descriptor_tabele'[p][fd].inode = file_descriptor_tabele[p][fd].inode
         /\ file_descriptor_tabele'[p][fd].file_position = pos
         /\ got'[p][fd] = Received(got[p][fd] \o bytes) /\ done'[p][fd] = end
         /\ \A q \in Procs : \A k \in Fds : Kind(q, k)' = Kind(q, k)
<1> PICK d : d = file_descriptor_tabele[p][fd]
  OBVIOUS
<1> PICK v : v = [d EXCEPT !.file_position = pos]
  OBVIOUS
<1>1. d \in Descriptor
  BY DEF Inv, TypeOK
<1>2. /\ v \in Descriptor /\ v.inode = d.inode /\ v.file_position = pos /\ v.flags = d.flags
      /\ v.file_operation_table_ptr = d.file_operation_table_ptr
  BY <1>1 DEF Descriptor
<1>3. file_descriptor_tabele' = [file_descriptor_tabele EXCEPT ![p][fd] = v]
  BY DEF ReadEffect
<1>4. /\ file_descriptor_tabele'[p][fd] = v
      /\ \A q \in Procs : \A k \in Fds :
           q # p \/ k # fd => file_descriptor_tabele'[q][k] = file_descriptor_tabele[q][k]
  BY <1>2, <1>3, EntryChanges DEF Inv, TypeOK
<1>5. p \in live /\ fd >= 2
  BY FileInode
<1>6. EntrySound(p, fd, v, live)
  <2>1. EntrySound(p, fd, d, live)
    BY SoundEntries DEF Inv
  <2>2. d.file_operation_table_ptr = "FILE"
    BY DEF Kind
  <2>3. v.flags # 0
    BY <1>2, <2>1, <2>2 DEF EntrySound, Closed, Entry
  <2>4. fd # 0 /\ fd # 1
    BY <1>5
  <2>5. QED
    BY <1>2, <1>5, <2>1, <2>2, <2>3, <2>4 DEF EntrySound
<1>7. got[p][fd] \o bytes \in Seq(Nat)
  BY ConcatProperties DEF Inv, TypeOK
<1>8. Received(got[p][fd] \o bytes) \in Seq(Nat)
  BY <1>7, ReceivedSeq
<1>9. got' = [got EXCEPT ![p][fd] = Received(got[p][fd] \o bytes)]
  BY DEF ReadEffect
<1>10. got' \in [Procs -> [Fds -> Seq(Nat)]] /\ got'[p][fd] = Received(got[p][fd] \o bytes)
  BY <1>8, <1>9, EntryChanges DEF Inv, TypeOK
<1>11. done' = [done EXCEPT ![p][fd] = end]
  BY DEF ReadEffect
<1>12. done' \in [Procs -> [Fds -> BOOLEAN]] /\ done'[p][fd] = end
  BY <1>11, DoneChanges
<1>13. last_round' = round
  BY DEF ReadEffect
<1>14. v.file_operation_table_ptr = "FILE" /\ Length[v.inode] > 0 =>
         v.file_position <= Length[v.inode]
  BY <1>2
<1>15. Inv'
  BY <1>2, <1>3, <1>6, <1>10, <1>12, <1>13, <1>14, EntryInv
<1>16. \A q \in Procs : \A k \in Fds : Kind(q, k)' = Kind(q, k)
  BY <1>2, <1>4 DEF Kind
<1>17. QED
  BY <1>2, <1>4, <1>10, <1>12, <1>13, <1>15, <1>16

LEMMA FileReadInv ==
  ASSUME Inv, NEW p \in Procs, NEW fd \in Fds, FileRead(p, fd)
  PROVE  Inv' /\ (OneFile /\ AllDelivered => OneFile' /\ AllDelivered')
<1>1. Kind(p, fd) = "FILE" /\ ~done[p][fd] /\ UNCHANGED <<live, directory_index, rate, nbytes>>
  BY DEF FileRead, Reading
<1> PICK d : d = file_descriptor_tabele[p][fd]
  OBVIOUS
<1> PICK o : o = d.file_position
  OBVIOUS
<1> PICK n : n = nbytes[p]
  OBVIOUS
<1> PICK l : l = Length[d.inode]
  OBVIOUS
<1>2. /\ l \in Nat /\ o \in 0..(Word - 1) /\ n \in Nat \ {0} /\ l + n < Word
      /\ l > 0 => o <= l
  BY <1>1, ReadNumbers
<1>3. o \in Nat
  BY <1>2, WordAssumption
<1>4. last_round \in {0, 1} /\ got[p][fd] \in Seq(Nat)
  BY DEF Inv, TypeOK
<1>5. l > 0 /\ OneFile /\ AllDelivered => Delivered(p, fd)
  BY <1>1 DEF AllDelivered, OpenFile
(* Where at most one file is open, the file being read is the only one. *)
<1>6. ASSUME OneFile, \A q \in Procs : \A k \in Fds : Kind(q, k)' = Kind(q, k),
             file_descriptor_tabele'[p][fd].inode = d.inode, l > 0 => Delivered(p, fd)'
      PROVE  OneFile' /\ AllDelivered'
  <2>1. OneFile'
    BY <1>6 DEF OneFile
  <2>2. ASSUME NEW q \in Procs, NEW k \in Fds, OpenFile(q, k)' PROVE Delivered(q, k)'
    <3>1. q = p /\ k = fd
      BY <1>1, <1>6, <2>2 DEF OneFile, OpenFile
    <3>2. l > 0
      BY <1>6, <2>2, <3>1 DEF OpenFile
    <3>3. QED
      BY <1>6, <3>1, <3>2
  <2>3. QED
    BY <2>1, <2>2 DEF AllDelivered
<1>7. CASE l = 0
  <2>1. Back(o) \in 0..(Word - 1)
    BY <1>2, WordAssumption DEF Back, PositionAfter
  <2>2. ReadEffect(p, fd, Back(o), last_round, <<>>, TRUE)
    <3>1. l = 0 => ReadEffect(p, fd, Back(o), last_round, <<>>, TRUE)
      BY FileReadIs
    <3>2. QED
      BY <1>7, <3>1
  <2>3. <<>> \in Seq(Nat)
    OBVIOUS
  <2>4. PICK bytes \in Seq(Nat) : bytes = <<>>
    BY <2>3
  <2>5. ReadEffect(p, fd, Back(o), last_round, bytes, TRUE)
    BY <2>2, <2>4
  <2>6. /\ Inv' /\ file_descriptor_tabele'[p][fd].inode = d.inode
        /\ \A q \in Procs : \A k \in Fds : Kind(q, k)' = Kind(q, k)
    <3>1. ~(Length[file_descriptor_tabele[p][fd].inode] > 0)
      BY <1>7
    <3>2. PICK pos \in 0..(Word - 1) : pos = Back(o)
      BY <2>1
    <3>3. PICK end \in BOOLEAN : end = TRUE
      OBVIOUS
    <3>4. ReadEffect(p, fd, pos, last_round, bytes, end)
      BY <2>5, <3>2, <3>3
    <3>5. Length[file_descriptor_tabele[p][fd].inode] > 0 =>
            pos <= Length[file_descriptor_tabele[p][fd].inode]
      BY <3>1
    <3>6. QED
      BY <1>1, <1>4, <3>4, <3>5, EffectInv
  <2>7. QED
    BY <1>6, <1>7, <2>6
<1>8. CASE l > 0 /\ o + n <= l
  <2>1. o + n \in 0..(Word - 1)
    BY <1>2, <1>8, WordAssumption
  <2>2. ReadEffect(p, fd, o + n, last_round, Chunk(o, n), FALSE)
    BY <1>8, FileReadIs
  <2>3. Chunk(o, n) \in Seq(Nat) /\ Len(Chunk(o, n)) = n
    BY <1>2, <1>3, ChunkSeq
  <2> PICK end \in BOOLEAN : end = FALSE
    OBVIOUS
  <2>4. ReadEffect(p, fd, o + n, last_round, Chunk(o, n), end)
    BY <2>2
  <2>5. /\ Inv' /\ last_round' = last_round
        /\ file_descriptor_tabele'[p][fd].inode = d.inode
        /\ file_descriptor_tabele'[p][fd].file_position = o + n
        /\ got'[p][fd] = Received(got[p][fd] \o Chunk(o, n)) /\ done'[p][fd] = end
        /\ \A q \in Procs : \A k \in Fds : Kind(q, k)' = Kind(q, k)
    BY <1>1, <1>4, <1>8, <2>1, <2>3, <2>4, EffectInv
  <2>6. ASSUME OneFile, AllDelivered PROVE Delivered(p, fd)'
    <3>1. Delivered(p, fd)
      BY <1>5, <1>8, <2>6
    <3>2. last_round = 0
      BY <1>1, <1>2, <1>4, <1>8, <3>1 DEF Delivered
    <3>3. got[p][fd] = Prefix(o)
      BY <1>1, <3>1, <3>2 DEF Delivered
    <3>4. got'[p][fd] = Prefix(o + n) /\ Len(got'[p][fd]) = o + n
      BY <1>2, <1>3, <2>1, <2>5, <3>3, PrefixReceived, WordAssumption
    <3>5. QED
      BY <2>5, <3>2, <3>4 DEF Delivered
  <2>7. QED
    BY <1>6, <2>5, <2>6
<1>9. CASE l > 0 /\ o + n > l /\ last_round = 0
  <2>1. l - o \in Nat /\ o + (l - o) = l /\ l \in 0..(Word - 1) /\ o <= l
    BY <1>2, <1>3, <1>9, WordAssumption
  <2>2. ReadEffect(p, fd, o, 1, Chunk(o, l - o), o = l)
    BY <1>9, FileReadIs
  <2>3. Chunk(o, l - o) \in Seq(Nat) /\ Len(Chunk(o, l - o)) = l - o
    BY <2>1, <1>3, ChunkSeq
  <2>4. PICK end \in BOOLEAN : end = (o = l)
    OBVIOUS
  <2>5. ReadEffect(p, fd, o, 1, Chunk(o, l - o), end)
    BY <2>2, <2>4
  <2>6. /\ Inv' /\ last_round' = 1
        /\ file_descriptor_tabele'[p][fd].inode = d.inode
        /\ file_descriptor_tabele'[p][fd].file_position = o
        /\ got'[p][fd] = Received(got[p][fd] \o Chunk(o, l - o))
        /\ \A q \in Procs : \A k \in Fds : Kind(q, k)' = Kind(q, k)
    BY <1>1, <1>2, <2>1, <2>3, <2>5, EffectInv
  <2>7. ASSUME OneFile, AllDelivered PROVE Delivered(p, fd)'
    <3>1. got[p][fd] = Prefix(o)
      BY <1>1, <1>5, <1>9, <2>7 DEF Delivered
    <3>2. got'[p][fd] = Prefix(l) /\ Len(got'[p][fd]) = l
      BY <1>3, <2>1, <2>6, <3>1, PrefixReceived, WordAssumption
    <3>3. nbytes'[p] = n
      BY <1>1
    <3>4. QED
      BY <1>9, <2>6, <3>2, <3>3 DEF Delivered
  <2>8. QED
    BY <1>6, <2>6, <2>7
<1>10. CASE l > 0 /\ o + n > l /\ last_round = 1
  <2>1. ReadEffect(p, fd, o, 0, <<>>, TRUE)
    BY <1>10, FileReadIs
  <2>2. PICK bytes \in Seq(Nat) : bytes = <<>>
    <3>1. <<>> \in Seq(Nat)
      OBVIOUS
    <3>2. QED
      BY <3>1
  <2>3. ReadEffect(p, fd, o, 0, bytes, TRUE)
    BY <2>1, <2>2
  <2>4. /\ Inv' /\ last_round' = 0
        /\ file_descriptor_tabele'[p][fd].inode = d.inode
        /\ got'[p][fd] = Received(got[p][fd] \o bytes) /\ done'[p][fd] = TRUE
        /\ \A q \in Procs : \A k \in Fds : Kind(q, k)' = Kind(q, k)
    BY <1>1, <1>2, <1>10, <2>3, EffectInv
  <2>5. ASSUME OneFile, AllDelivered PROVE Delivered(p, fd)'
    <3>1. got[p][fd] = Prefix(l) /\ Len(got[p][fd]) = l
      BY <1>5, <1>10, <2>5 DEF Delivered
    <3>2. got[p][fd] \o bytes = got[p][fd]
      BY <1>4, <2>2, ConcatEmptySeq
    <3>3. got'[p][fd] = got[p][fd]
      <4>1. Len(got[p][fd]) <= Word
        BY <1>2, <3>1, WordAssumption
      <4>2. QED
        BY <1>4, <2>4, <3>2, <4>1, ReceivedSeq
    <3>4. QED
      BY <2>4, <3>1, <3>3 DEF Delivered
  <2>6. QED
    BY <1>6, <2>4, <2>5
<1>11. QED
  <2>1. \/ l = 0 \/ (l > 0 /\ o + n <= l)
        \/ (l > 0 /\ o + n > l /\ last_round = 0) \/ (l > 0 /\ o + n > l /\ last_round = 1)
    BY <1>2, <1>3, <1>4
  <2>2. QED
    BY <2>1, <1>7, <1>8, <1>9, <1>10

(* dir_read works on a descriptor of the directory, which AllDelivered     *)
(* does not speak of.                                                      *)
LEMMA DirReadInv ==
  ASSUME Inv, NEW p \in Procs, NEW fd \in Fds, DirRead(p, fd)
  PROVE  Inv' /\ (OneFile /\ AllDelivered => OneFile' /\ AllDelivered')
<1>1. Kind(p, fd) = "DIR" /\ UNCHANGED <<live, file_descriptor_tabele, last_round, rate, nbytes>>
  BY DEF DirRead, Reading
<1>2. Len(Dentries) \in Nat /\ directory_index \in 0..Len(Dentries)
  BY FilesAssumption, LenProperties DEF Inv, TypeOK
<1>3. directory_index' \in 0..Len(Dentries)
  BY <1>2 DEF DirRead, DirEnd
<1>4. /\ got' \in [Procs -> [Fds -> Seq(Nat)]]
      /\ \A q \in Procs : \A k \in Fds : q # p \/ k # fd => got'[q][k] = got[q][k]
  <2>1. got \in [Procs -> [Fds -> Seq(Nat)]]
    BY DEF Inv, TypeOK
  <2>2. CASE UNCHANGED got
    BY <2>1, <2>2
  <2>3. CASE got' = [got EXCEPT ![p][fd] = Append(@, directory_index)]
    <3>1. Append(got[p][fd], directory_index) \in Seq(Nat)
      BY <1>2, <2>1, AppendProperties
    <3>2. got' = [got EXCEPT ![p][fd] = Append(got[p][fd], directory_index)]
      BY <2>3
    <3>3. QED
      BY <2>1, <3>1, <3>2, EntryChanges
  <2>4. QED
    BY <2>2, <2>3 DEF DirRead
<1>5. /\ done' \in [Procs -> [Fds -> BOOLEAN]]
      /\ \A q \in Procs : \A k \in Fds : q # p \/ k # fd => done'[q][k] = done[q][k]
  <2>1. CASE UNCHANGED done
    BY <2>1 DEF Inv, TypeOK
  <2>2. CASE done' = [done EXCEPT ![p][fd] = TRUE]
    BY <2>2, DoneChanges
  <2>3. QED
    BY <2>1, <2>2 DEF DirRead
<1>6. TypeOK'
  BY <1>1, <1>3, <1>4, <1>5 DEF Inv, TypeOK
<1>7. DescriptorsSound' /\ PositionsInFile'
  BY <1>1 DEF Inv, DescriptorsSound, PositionsInFile, OpenFile, Kind
<1>8. ASSUME OneFile, AllDelivered PROVE OneFile' /\ AllDelivered'
  <2>1. file_descriptor_tabele'[p][fd].file_operation_table_ptr # "FILE"
    BY <1>1 DEF Kind
  <2>2. \A q \in Procs : \A k \in Fds : file_descriptor_tabele'[q][k] = file_descriptor_tabele[q][k]
    BY <1>1
  <2>3. last_round' = last_round /\ nbytes' = nbytes
    BY <1>1
  <2>4. QED
    BY <1>4, <1>5, <1>8, <2>1, <2>2, <2>3, OthersKept
<1>9. QED
  BY <1>6, <1>7, <1>8 DEF Inv

(* A step that leaves descriptors, last_round and what programs received   *)
(* alone: RTC_write and stuttering.                                        *)
LEMMA NothingReadInv ==
  ASSUME Inv, rate' \in 0..15,
         UNCHANGED <<live, file_descriptor_tabele, last_round, directory_index, nbytes, got, done>>
  PROVE  Inv' /\ (OneFile /\ AllDelivered => OneFile' /\ AllDelivered')
<1>1. TypeOK'
  BY DEF Inv, TypeOK
<1>2. DescriptorsSound' /\ PositionsInFile'
  BY DEF Inv, DescriptorsSound, PositionsInFile, OpenFile, Kind
<1>3. OneFile /\ AllDelivered => OneFile' /\ AllDelivered'
  BY DEF OneFile, AllDelivered, OpenFile, Delivered, Kind
<1>4. QED
  BY <1>1, <1>2, <1>3 DEF Inv

LEMMA NextInv ==
  ASSUME Inv, [Next]_vars
  PROVE  Inv' /\ (Exclusive /\ OneFile /\ AllDelivered => OneFile' /\ AllDelivered')
<1>1. CASE UNCHANGED vars
  <2>1. rate' \in 0..15
    BY <1>1 DEF Inv, TypeOK, vars
  <2>2. QED
    BY <1>1, <2>1, NothingReadInv DEF vars, history
<1>2. ASSUME NEW p \in Procs, Execute(p)
      PROVE  Inv' /\ (OneFile /\ AllDelivered => OneFile' /\ AllDelivered')
  BY <1>2, ExecuteInv
<1>3. ASSUME NEW p \in Procs, Halt(p)
      PROVE  Inv' /\ (OneFile /\ AllDelivered => OneFile' /\ AllDelivered')
  BY <1>3, HaltInv
<1>4. ASSUME NEW p \in Procs, NEW fname \in Names, Open(p, fname)
      PROVE  Inv' /\ (Exclusive /\ OneFile /\ AllDelivered => OneFile' /\ AllDelivered')
  BY <1>4, OpenInv
<1>5. ASSUME NEW p \in Procs, NEW fd \in Fds, Close(p, fd)
      PROVE  Inv' /\ (OneFile /\ AllDelivered => OneFile' /\ AllDelivered')
  BY <1>5, CloseInv
<1>6. ASSUME NEW p \in Procs, NEW fd \in Fds, FileRead(p, fd)
      PROVE  Inv' /\ (OneFile /\ AllDelivered => OneFile' /\ AllDelivered')
  BY <1>6, FileReadInv
<1>7. ASSUME NEW p \in Procs, NEW fd \in Fds, DirRead(p, fd)
      PROVE  Inv' /\ (OneFile /\ AllDelivered => OneFile' /\ AllDelivered')
  BY <1>7, DirReadInv
<1>8. ASSUME NEW p \in Procs, NEW fd \in Fds, NEW freq \in Freqs, RTC_write(p, fd, freq)
      PROVE  Inv' /\ (OneFile /\ AllDelivered => OneFile' /\ AllDelivered')
  <2>1. rate' \in 0..15
    BY <1>8 DEF RTC_write
  <2>2. QED
    BY <1>8, <2>1, NothingReadInv DEF RTC_write, history
<1>9. QED
  BY <1>1, <1>2, <1>3, <1>4, <1>5, <1>6, <1>7, <1>8 DEF Next

-----------------------------------------------------------------------------
(* The theorems.                                                           *)

(* Types, sound descriptors and positions inside their file, whatever      *)
(* programs open, close, read and leave behind when they halt.             *)
THEOREM FilesInvariant == Spec => []Inv
<1>1. Init => Inv
  BY InitInv
<1>2. Inv /\ [Next]_vars => Inv'
  BY NextInv
<1>3. QED
  BY <1>1, <1>2, PTL DEF Spec

(* The globals of file_read, dir_read and RTC_write, and every entry of    *)
(* every PCB, stay in range: no length, buffer size or directory wraps one *)
(* of them.                                                                *)
THEOREM FilesTypes == Spec => []TypeOK
<1>1. Inv => TypeOK
  BY DEF Inv
<1>2. QED
  BY <1>1, FilesInvariant, PTL

(* read and write may always call through the jump table of an entry in    *)
(* use, and stdin and stdout of a task are never replaced.                 *)
THEOREM TablesSound == Spec => []DescriptorsSound
<1>1. Inv => DescriptorsSound
  BY DEF Inv
<1>2. QED
  BY <1>1, FilesInvariant, PTL

LEMMA DeliveredIsWhole ==
  ASSUME Inv, AllDelivered
  PROVE  WholeFile
<1> SUFFICES ASSUME NEW p \in live, NEW fd \in Fds, Kind(p, fd) = "FILE",
                    Length[file_descriptor_tabele[p][fd].inode] > 0
             PROVE  LET d == file_descriptor_tabele[p][fd]
                    IN  /\ got[p][fd] = Prefix(Len(got[p][fd]))
                        /\ d.file_position <= Len(got[p][fd])
                        /\ Len(got[p][fd]) <= Length[d.inode]
                        /\ done[p][fd] => Len(got[p][fd]) = Length[d.inode]
  BY DEF WholeFile, Kind
<1>1. p \in Procs
  BY DEF Inv, TypeOK
<1>2. Delivered(p, fd)
  BY <1>1 DEF AllDelivered, OpenFile
<1>3. LET d == file_descriptor_tabele[p][fd]
      IN  /\ Length[d.inode] \in Nat /\ d.file_position \in 0..(Word - 1)
          /\ d.file_position <= Length[d.inode]
  BY <1>1, ReadNumbers
<1>4. QED
  BY <1>2, <1>3, WordAssumption DEF Delivered

(* file_read gives a program every byte of a file once and in order, for   *)
(* every length and buffer size, as long as no other regular file is open  *)
(* that could change last_round in between.                                *)
THEOREM ReaderGetsFile == Exclusive => (Spec => []WholeFile)
<1> SUFFICES ASSUME Exclusive PROVE Spec => []WholeFile
  OBVIOUS
<1>1. Init => Inv /\ OneFile /\ AllDelivered
  BY InitInv
<1>2. Inv /\ OneFile /\ AllDelivered /\ [Next]_vars =>
        (Inv /\ OneFile /\ AllDelivered)'
  BY NextInv
<1>3. Inv /\ OneFile /\ AllDelivered => WholeFile
  BY DeliveredIsWhole
<1>4. QED
  BY <1>1, <1>2, <1>3, PTL DEF Spec
=============================================================================
