------------------------------ MODULE ReadData -------------------------------
(***************************************************************************)
(* One call of read_data (file_system.c): the two nested loops that walk   *)
(* the data blocks of an inode.  A byte on disk is named by its data block *)
(* and its address in the block.                                           *)
(***************************************************************************)
EXTENDS FileData

CONSTANTS BlockSize,      \* FOURKILOBYTES
          DataBlocks,     \* boot_block->data_block_num
          MaxLength,      \* longest file
          MaxRequest      \* largest length a caller asks for

ASSUME ReadDataAssumption ==
  /\ BlockSize \in Nat \ {0}
  /\ DataBlocks \in Nat
  /\ MaxLength \in Nat
  /\ MaxRequest \in Nat
  /\ MaxLength + MaxRequest < Word

(* A file of length l has a data block for each started block of bytes. *)
BlocksOf(l) == (l + BlockSize - 1) \div BlockSize

VARIABLES
  length, data_block_idx,   \* the inode
  offset, request,          \* the arguments
  pc,
  i, buf,                   \* next byte of the caller's buffer, the buffer
  copy_length, ret,
  offset_data_block_idx, curr_data_addr, curr_data_idx

inode == <<length, data_block_idx>>
args == <<offset, request>>
vars == <<inode, args, pc, i, buf, copy_length, ret, offset_data_block_idx,
          curr_data_addr, curr_data_idx>>

(* Mutant: the address is not reduced to the block. *)
WholeOffset(o) == o

StartAddr(o) == o % BlockSize

(* Mutant: the comparison drops the last byte of the file. *)
FitsStrictly(o, n, l) == (o + n) % Word < l

Fits(o, n, l) == (o + n) % Word <= l

(* The call, for any inode, with an offset in the file.  Block numbers may *)
(* be out of range.  The inode number is not: it comes from a directory    *)
(* entry or a descriptor, so the first test of the function, which returns *)
(* -1 for a number beyond inode_num, does not fire and is left out.        *)
Init ==
  /\ length \in 0..MaxLength
  /\ data_block_idx \in [0..(BlocksOf(length) - 1) -> -1..DataBlocks]
  /\ offset \in 0..length
  /\ request \in 0..MaxRequest
  /\ pc = IF length = 0 THEN "done" ELSE "outer"
  /\ i = 0
  /\ buf = [j \in {} |-> <<0, 0>>]
  /\ copy_length = IF length = 0 THEN 0
                   ELSE IF Fits(offset, request, length) THEN request
                   ELSE length - offset
  /\ ret = IF length = 0 THEN -1
           ELSE IF Fits(offset, request, length) THEN request ELSE 0
  /\ offset_data_block_idx = offset \div BlockSize
  /\ curr_data_addr = StartAddr(offset)
  /\ curr_data_idx = 0

Finish ==
  /\ pc = "outer"
  /\ copy_length = 0
  /\ pc' = "done"
  /\ UNCHANGED <<inode, args, i, buf, copy_length, ret, offset_data_block_idx,
                 curr_data_addr, curr_data_idx>>

(* Mutant: a bad block number is skipped, but the index does not move. *)
NextBlockSkips ==
  /\ pc = "outer"
  /\ copy_length # 0
  /\ curr_data_idx' = data_block_idx[offset_data_block_idx]
  /\ pc' = IF curr_data_idx' < 0 \/ curr_data_idx' >= DataBlocks
           THEN "outer" ELSE "inner"
  /\ UNCHANGED <<inode, args, i, buf, copy_length, ret, offset_data_block_idx,
                 curr_data_addr>>

(* Fetch the block number; a number out of range ends the call with -1. *)
NextBlock ==
  /\ pc = "outer"
  /\ copy_length # 0
  /\ curr_data_idx' = data_block_idx[offset_data_block_idx]
  /\ IF curr_data_idx' < 0 \/ curr_data_idx' >= DataBlocks
     THEN pc' = "done" /\ ret' = -1
     ELSE pc' = "inner" /\ UNCHANGED ret
  /\ UNCHANGED <<inode, args, i, buf, copy_length, offset_data_block_idx,
                 curr_data_addr>>

(* Mutant: the address carries over into the next block. *)
AddrKept(addr) == addr

AddrInNextBlock(addr) == 0

(* Mutant: the block index is not advanced. *)
BlockKept(b) == b

BlockAfter(b) == b + 1

(* Copy one byte; leave the inner loop when nothing is left to copy or the *)
(* block is exhausted.                                                     *)
CopyByte ==
  LET leave == copy_length - 1 = 0 \/ curr_data_addr + 1 >= BlockSize
  IN  /\ pc = "inner"
      /\ buf' = [j \in 0..i |-> IF j = i THEN <<curr_data_idx, curr_data_addr>>
                                         ELSE buf[j]]
      /\ i' = i + 1
      /\ copy_length' = copy_length - 1
      /\ curr_data_addr' = IF leave THEN AddrInNextBlock(curr_data_addr + 1)
                                    ELSE curr_data_addr + 1
      /\ offset_data_block_idx' =
           IF leave THEN BlockAfter(offset_data_block_idx) ELSE offset_data_block_idx
      /\ pc' = IF leave THEN "outer" ELSE "inner"
      /\ UNCHANGED <<inode, args, ret, curr_data_idx>>

Next == Finish \/ NextBlock \/ CopyByte

Spec == Init /\ [][Next]_vars

FairSpec == Spec /\ WF_vars(Next)

-----------------------------------------------------------------------------
(* Where byte k of the file is on disk. *)
ByteAt(k) == <<data_block_idx[k \div BlockSize], k % BlockSize>>

(* Types and ranges of the loop variables. *)
TypeOK ==
  /\ length \in 0..MaxLength
  /\ data_block_idx \in [0..(BlocksOf(length) - 1) -> -1..DataBlocks]
  /\ offset \in 0..length
  /\ request \in 0..MaxRequest
  /\ pc \in {"outer", "inner", "done"}
  /\ i \in Nat
  /\ buf \in [0..(i - 1) -> Int \X Int]
  /\ copy_length \in Nat
  /\ ret \in -1..MaxRequest
  /\ offset_data_block_idx \in Nat
  /\ curr_data_addr \in 0..(BlockSize - 1)
  /\ curr_data_idx \in -1..DataBlocks

(* The buffer holds the bytes of the file from offset on, across every     *)
(* block boundary, and the loop never asks for a block behind the file.    *)
Copied ==
  /\ \A j \in 0..(i - 1) : buf[j] = ByteAt(offset + j)
  /\ pc = "outer" /\ copy_length # 0 => offset_data_block_idx < BlocksOf(length)

(* read_data returns what ReadResult says, and has copied that many bytes, *)
(* unless a block number of the inode is out of range.                     *)
Promise ==
  pc = "done" =>
    LET r == ReadResult(length, offset, request)
    IN  \/ ret = r.ret /\ i = r.copied
        \/ /\ ret = -1
           /\ \E b \in DOMAIN data_block_idx :
                data_block_idx[b] < 0 \/ data_block_idx[b] >= DataBlocks

(* The loop ends. *)
Terminates == <>(pc = "done")
=============================================================================
