--------------------------- MODULE ReadDataProofs ----------------------------
(***************************************************************************)
(* read_data is correct for every block size, file and request: the bytes  *)
(* in the buffer are those of the file, and the result is ReadResult.  The *)
(* invariant adds to the two properties where the loop stands: the block   *)
(* index and the address in the block name the next byte to copy.          *)
(***************************************************************************)
EXTENDS ReadData, TLAPS

(* A block index and an address in the block determine the byte. *)
LEMMA BlockAndAddress ==
  ASSUME NEW q \in Nat, NEW r \in 0..(BlockSize - 1), NEW k \in Nat,
         k = q * BlockSize + r
  PROVE  k \div BlockSize = q /\ k % BlockSize = r
<1>1. k \div BlockSize = q
  BY ReadDataAssumption
<1>2. k % BlockSize = r
  BY ReadDataAssumption
<1>3. QED
  BY <1>1, <1>2

(* Quotient and remainder by the block size. *)
LEMMA Division ==
  ASSUME NEW k \in Nat
  PROVE  /\ k \div BlockSize \in Nat
         /\ k % BlockSize \in 0..(BlockSize - 1)
         /\ \A q, r \in Int : k \div BlockSize = q /\ k % BlockSize = r
                                => q * BlockSize + r = k
<1>1. k \div BlockSize \in Nat
  BY ReadDataAssumption
<1>2. k % BlockSize \in 0..(BlockSize - 1)
  BY ReadDataAssumption
<1>3. \A q, r \in Int : k \div BlockSize = q /\ k % BlockSize = r
                          => q * BlockSize + r = k
  BY ReadDataAssumption
<1>4. QED
  BY <1>1, <1>2, <1>3

(* A byte of the file lies in one of its blocks. *)
LEMMA BlockInFile ==
  ASSUME NEW q \in Nat, NEW r \in 0..(BlockSize - 1), NEW l \in Nat,
         q * BlockSize + r < l
  PROVE  BlocksOf(l) \in Int /\ q \in 0..(BlocksOf(l) - 1)
<1>1. (l + BlockSize - 1) \div BlockSize \in Int
  BY ReadDataAssumption
<1>2. q < (l + BlockSize - 1) \div BlockSize
  BY ReadDataAssumption
<1>3. QED
  BY <1>1, <1>2 DEF BlocksOf

(* The bytes of a request lie in the file, and the sum of offset and       *)
(* request does not wrap.                                                  *)
LEMMA RequestInFile ==
  ASSUME NEW l \in 0..MaxLength, NEW o \in 0..l, NEW n \in 0..MaxRequest, l # 0
  PROVE  LET r == ReadResult(l, o, n)
         IN  /\ r.copied \in Nat
             /\ o + r.copied <= l
             /\ r.copied = IF Fits(o, n, l) THEN n ELSE l - o
             /\ r.ret = IF Fits(o, n, l) THEN n ELSE 0
<1>1. (o + n) % Word = o + n
  BY ReadDataAssumption, WordAssumption
<1>2. QED
  BY <1>1, ReadDataAssumption, WordAssumption DEF ReadResult, Fits

-----------------------------------------------------------------------------
(* Where the loop stands: what is left to copy, and the next byte. *)
Position ==
  pc # "done" =>
    /\ length # 0
    /\ ret = ReadResult(length, offset, request).ret
    /\ i + copy_length = ReadResult(length, offset, request).copied
    /\ copy_length # 0 => offset_data_block_idx * BlockSize + curr_data_addr = offset + i
    /\ pc = "inner" => /\ copy_length # 0
                       /\ curr_data_idx = data_block_idx[offset_data_block_idx]

Inv == TypeOK /\ Copied /\ Position /\ Promise

(* The next byte to copy is a byte of the file, in the current block. *)
LEMMA NextByte ==
  ASSUME TypeOK, Position, pc # "done", copy_length # 0
  PROVE  /\ offset_data_block_idx \in 0..(BlocksOf(length) - 1)
         /\ offset_data_block_idx < BlocksOf(length)
         /\ ByteAt(offset + i) = <<data_block_idx[offset_data_block_idx], curr_data_addr>>
<1>1. /\ offset + i < length
      /\ offset_data_block_idx * BlockSize + curr_data_addr = offset + i
  BY RequestInFile DEF TypeOK, Position
<1>2. /\ offset_data_block_idx \in Nat /\ curr_data_addr \in 0..(BlockSize - 1)
      /\ length \in Nat /\ offset + i \in Nat
  BY DEF TypeOK
<1>3. BlocksOf(length) \in Int /\ offset_data_block_idx \in 0..(BlocksOf(length) - 1)
  BY <1>1, <1>2, BlockInFile
<1>4. (offset + i) \div BlockSize = offset_data_block_idx
      /\ (offset + i) % BlockSize = curr_data_addr
  BY <1>1, <1>2, BlockAndAddress
<1>5. QED
  BY <1>3, <1>4 DEF ByteAt

(* The call starts with the first byte of the request. *)
LEMMA InitInv == Init => Inv
<1> SUFFICES ASSUME Init PROVE Inv
  OBVIOUS
<1> USE DEF Init
<1>1. /\ offset_data_block_idx \in Nat
      /\ curr_data_addr \in 0..(BlockSize - 1)
      /\ offset_data_block_idx * BlockSize + curr_data_addr = offset
  BY Division DEF StartAddr
<1>2. length # 0 =>
        LET r == ReadResult(length, offset, request)
        IN  r.copied = copy_length /\ r.ret = ret /\ copy_length \in Nat
  BY RequestInFile
<1>3. buf \in [0..(i - 1) -> Int \X Int]
  <2>1. 0..(i - 1) = {}
    OBVIOUS
  <2>2. QED
    BY <2>1
<1>4. ret \in -1..MaxRequest /\ copy_length \in Nat
  BY <1>2, ReadDataAssumption
<1>5. TypeOK
  BY <1>1, <1>3, <1>4, ReadDataAssumption DEF TypeOK
<1>6. Position
  BY <1>1, <1>2, <1>5 DEF Position, TypeOK
<1>7. Promise
  BY DEF Promise, ReadResult
<1>8. Copied
  <2>1. pc = "outer" /\ copy_length # 0 => offset_data_block_idx < BlocksOf(length)
    BY <1>5, <1>6, NextByte
  <2>2. QED
    BY <2>1 DEF Copied
<1>9. QED
  BY <1>5, <1>6, <1>7, <1>8 DEF Inv

(* Nothing is left to copy: the promise is kept. *)
LEMMA FinishStep == ASSUME Inv, Finish PROVE Inv'
<1> USE DEF Inv, Finish, inode, args
<1>1. TypeOK'
  BY DEF TypeOK
<1>2. Copied'
  BY DEF Copied, ByteAt
<1>3. Position'
  BY DEF Position
<1>4. Promise'
  <2>1. ret = ReadResult(length, offset, request).ret
        /\ i = ReadResult(length, offset, request).copied
    BY DEF Position, TypeOK
  <2>2. QED
    BY <2>1 DEF Promise
<1>5. QED
  BY <1>1, <1>2, <1>3, <1>4

(* The next block of the file, or a block number out of range. *)
LEMMA NextBlockStep == ASSUME Inv, NextBlock PROVE Inv'
<1> USE DEF Inv, NextBlock, inode, args
<1>1. offset_data_block_idx \in 0..(BlocksOf(length) - 1)
  BY NextByte
<1>2. data_block_idx[offset_data_block_idx] \in -1..DataBlocks
  BY <1>1 DEF TypeOK
<1>3. TypeOK'
  <2>1. curr_data_idx' \in -1..DataBlocks
    BY <1>2
  <2>2. pc' \in {"outer", "inner", "done"}
    OBVIOUS
  <2>3. ret' \in -1..MaxRequest
    BY ReadDataAssumption DEF TypeOK
  <2>4. UNCHANGED <<length, data_block_idx, offset, request, i, buf, copy_length,
                    offset_data_block_idx, curr_data_addr>>
    OBVIOUS
  <2> HIDE DEF NextBlock
  <2>5. QED
    BY <2>1, <2>2, <2>3, <2>4 DEF TypeOK
<1>4. Copied'
  BY DEF Copied, ByteAt
<1>5. Position'
  BY DEF Position
<1>6. Promise'
  BY <1>1 DEF Promise, TypeOK
<1>7. QED
  BY <1>3, <1>4, <1>5, <1>6

(* One more byte of the file is in the buffer. *)
LEMMA CopyByteStep == ASSUME Inv, CopyByte PROVE Inv'
<1> USE DEF Inv
<1> DEFINE leave == copy_length - 1 = 0 \/ curr_data_addr + 1 >= BlockSize
<1>1. /\ pc = "inner" /\ i' = i + 1 /\ copy_length' = copy_length - 1
      /\ buf' = [j \in 0..i |-> IF j = i THEN <<curr_data_idx, curr_data_addr>>
                                         ELSE buf[j]]
      /\ UNCHANGED <<length, data_block_idx, offset, request, ret, curr_data_idx>>
  BY DEF CopyByte, inode, args
<1>2. \/ /\ leave /\ curr_data_addr' = 0 /\ pc' = "outer"
         /\ offset_data_block_idx' = offset_data_block_idx + 1
      \/ /\ ~leave /\ curr_data_addr' = curr_data_addr + 1 /\ pc' = "inner"
         /\ offset_data_block_idx' = offset_data_block_idx
  BY DEF CopyByte, AddrInNextBlock, BlockAfter
<1>3. i \in Nat /\ copy_length \in Nat /\ copy_length # 0 /\ curr_data_addr \in 0..(BlockSize - 1)
      /\ offset_data_block_idx \in Nat /\ offset \in Nat
  BY <1>1 DEF Position, TypeOK
<1>4. TypeOK'
  <2>1. buf' \in [0..(i' - 1) -> Int \X Int]
    BY <1>1, <1>3, ReadDataAssumption DEF TypeOK
  <2>2. QED
    BY <1>1, <1>2, <1>3, <2>1, ReadDataAssumption DEF TypeOK
<1>5. Position'
  <2>1. i' + copy_length' = i + copy_length
    BY <1>1, <1>3
  <2>2. offset_data_block_idx * BlockSize + curr_data_addr = offset + i
    BY <1>1, <1>3 DEF Position
  <2>3. (offset_data_block_idx + 1) * BlockSize = offset_data_block_idx * BlockSize + BlockSize
        /\ offset_data_block_idx * BlockSize \in Int
    BY <1>3, ReadDataAssumption
  <2>4. copy_length' # 0 =>
          offset_data_block_idx' * BlockSize + curr_data_addr' = offset' + i'
    BY <1>1, <1>2, <1>3, <2>2, <2>3, ReadDataAssumption
  <2>5. pc' = "inner" => copy_length' # 0
    BY <1>1, <1>2, <1>3
  <2>6. QED
    BY <1>1, <1>2, <2>1, <2>4, <2>5 DEF Position
<1>6. Copied'
  <2>1. \A j \in 0..(i' - 1) : buf'[j] = ByteAt(offset + j)
    <3>1. ByteAt(offset + i) = <<curr_data_idx, curr_data_addr>>
      BY <1>1, <1>3, NextByte DEF Position
    <3>2. \A j \in 0..(i - 1) : buf[j] = ByteAt(offset + j)
      BY DEF Copied
    <3>3. \A j \in 0..i : j = i \/ j \in 0..(i - 1)
      BY <1>3
    <3>4. QED
      BY <1>1, <1>3, <3>1, <3>2, <3>3
  <2>2. \A k : ByteAt(k)' = ByteAt(k)
    BY <1>1 DEF ByteAt
  <2>3. pc' = "outer" /\ copy_length' # 0 => offset_data_block_idx' < BlocksOf(length')
    <3>1. (TypeOK /\ Position /\ pc # "done" /\ copy_length # 0
             => offset_data_block_idx < BlocksOf(length))'
      BY NextByte, PTL
    <3>2. QED
      BY <1>4, <1>5, <3>1
  <2>4. QED
    BY <1>1, <2>1, <2>2, <2>3 DEF Copied
<1>7. Promise'
  BY <1>2 DEF Promise
<1>8. QED
  BY <1>4, <1>5, <1>6, <1>7

(* Every step of the loop keeps the invariant. *)
LEMMA NextInv == ASSUME Inv, [Next]_vars PROVE Inv'
<1>1. CASE Next
  BY <1>1, FinishStep, NextBlockStep, CopyByteStep DEF Next
<1>2. CASE UNCHANGED vars
  BY <1>2 DEF Inv, TypeOK, Copied, Position, Promise, ByteAt, vars, inode, args
<1>3. QED
  BY <1>1, <1>2

(* The invariant of the loop. *)
THEOREM LoopInvariant == Spec => []Inv
<1>1. Inv /\ [Next]_vars => Inv'
  BY NextInv
<1>2. QED
  BY InitInv, <1>1, PTL DEF Spec

(* The block index, the address in the block and the count of what is left *)
(* to copy stay in their ranges, also when a block number is bad.          *)
THEOREM LoopTypes == Spec => []TypeOK
<1>1. Inv => TypeOK
  BY DEF Inv
<1>2. QED
  BY <1>1, LoopInvariant, PTL

(* The buffer always holds the bytes of the file from the offset on, and   *)
(* no block behind the file is asked for.                                  *)
THEOREM CopiesFile == Spec => []Copied
<1>1. Inv => Copied
  BY DEF Inv
<1>2. QED
  BY LoopInvariant, <1>1, PTL

(* read_data implements ReadResult. *)
THEOREM KeepsPromise == Spec => []Promise
<1>1. Inv => Promise
  BY DEF Inv
<1>2. QED
  BY LoopInvariant, <1>1, PTL
=============================================================================
