-------------------------- MODULE DiskDevice_proofs --------------------------
(***************************************************************************)
(* The disk, for any block size, disk, buffers and calls: the pieces that  *)
(* Read, Write, ReadBlocks and WriteBlocks cut a call into join without a  *)
(* gap, stay within its bytes, and carry the right ones.                   *)
(*                                                                         *)
(* What the proofs need is how far a call is (Done), what the command of   *)
(* the port has to do with the piece in progress (Commanded), and what the *)
(* caller's buffer, the page and the disk hold by then (Received, Sent).   *)
(***************************************************************************)
EXTENDS DiskDevice, TLAPS, FiniteSetTheorems, WellFoundedInduction

\* The bytes of the call that the pieces before this one are about.
Done ==
    CASE pc = "first" -> 0
      [] pc \in {"loop", "slow"} -> SizeWithinFirstLBA + i * BlockSize
      [] pc = "tail" -> SizeWithinFirstLBA + Blocks * BlockSize
      [] pc = "blocks" -> i * BlockSize
      [] pc = "return" -> Length

\* Those of them that are not excess.
Landed == IF pc = "return" /\ ByBytes THEN Length - Excess ELSE Done

\* The bytes of the disk, and of the page, that the piece moves.
Base == Current.lba * BlockSize
Span == 0 .. (Current.count * BlockSize - 1)
InSpan(j) == j \in Current.inPage .. (Current.inPage + Current.len - 1)

Controlled ==
    /\ call \in Calls \cup {NoCall}
    /\ pc \in {"idle", "first", "loop", "slow", "tail", "blocks", "return", "fault"}
    /\ i \in Nat /\ faults \in Nat
    /\ pc = "idle" <=> call = NoCall
    /\ pc \in {"first", "loop", "slow", "tail"} => ByBytes
    /\ pc \in {"loop", "slow"} => i < Blocks
    /\ pc = "tail" => Excess > 0
    /\ pc = "blocks" => ~ByBytes /\ i < Size

CommandType == [place : Places, write : BOOLEAN, lba : Nat, count : Nat]

\* The command is the one of the piece in progress, and there is none between pieces.
Commanded ==
    /\ command \in CommandType
    /\ step \in {"start", "read", "written"}
    /\ step = "start" => At("free")
    /\ step # "start" => InPiece /\ command.lba = Current.lba /\ command.count = Current.count
    /\ step = "read" => ~command.write /\ (Reading \/ Partial)
    /\ step = "written" => command.write /\ ~Reading
    /\ At("error") => faults > 0

Shaped == DOMAIN disk = DiskBytes /\ DOMAIN page = PageBytes /\ DOMAIN mem = MemBytes

\* The command of the piece has been carried out, or the device has failed.
Carried == At("done") \/ At("free")

\* A call that reads: the caller has what is done, and nothing behind the call.
Received ==
    /\ disk = FreshDisk
    /\ faults = 0 /\ (InPiece \/ pc = "return") =>
         /\ \A j \in MemBytes : j < Done => mem[j] = First + j
         /\ \A j \in MemBytes : j >= Length => mem[j] = Untouched

\* A call that writes: the disk has what is done, and nothing beside the call.
Sent ==
    /\ \A j \in MemBytes : mem[j] = Mine(j)
    /\ faults = 0 /\ (InPiece \/ pc = "return") =>
         /\ \A p \in DiskBytes : p < First \/ p >= First + Length => disk[p] = p
         /\ \A p \in DiskBytes : p >= First /\ p < First + Landed => disk[p] = Mine(p - First)

\* The page, once the piece is in it.
Paged ==
    faults = 0 =>
      /\ step = "read" /\ Carried => \A j \in Span : page[j] = disk[Base + j]
      /\ step = "written" => \A j \in Span : InSpan(j) => page[j] = Mine(Current.inMem + j - Current.inPage)
      /\ step = "written" => \A j \in Span : ~InSpan(j) => page[j] = disk[Base + j]
      /\ step = "written" /\ Carried => \A j \in Span : disk[Base + j] = page[j]

Carrying ==
    /\ Shaped /\ Paged
    /\ call # NoCall => IF Reading THEN Received ELSE Sent

Accounted ==
    /\ bufferLock \subseteq Buffers /\ kept \in Nat
    /\ BuffersAccounted

IInv == Controlled /\ Commanded /\ Carrying /\ OtherBlocksKept /\ Accounted

-----------------------------------------------------------------------------
(* Division and multiplication.                                            *)

\* What a block number and an offset in the block are to a byte's place, DiskDevice.cpp:143.
LEMMA DivMod ==
    ASSUME NEW n \in Nat, NEW S \in Nat \ {0}
    PROVE  /\ n \div S \in Nat /\ n % S \in 0 .. (S - 1)
           /\ n = (n \div S) * S + (n % S)
  BY SMT

\* Blocks that lie behind one another do so byte by byte.
LEMMA Multiples ==
    ASSUME NEW a \in Nat, NEW b \in Nat, NEW S \in Nat \ {0}
    PROVE  /\ a * S \in Nat /\ b * S \in Nat
           /\ (a + b) * S = a * S + b * S
           /\ (a + 1) * S = a * S + S
           /\ a <= b => a * S <= b * S
           /\ a < b => a * S + S <= b * S
  <1>1. a * S \in Nat /\ b * S \in Nat /\ (a + b) * S = a * S + b * S /\ (a + 1) * S = a * S + S
    BY SMT
  <1>2. ASSUME a <= b PROVE a * S <= b * S
    <2>. DEFINE d == b - a
    <2>1. d \in Nat /\ b = a + d
      BY <1>2
    <2>2. (a + d) * S = a * S + d * S /\ d * S \in Nat
      BY <2>1, SMT
    <2>. QED
      BY <1>1, <2>1, <2>2
  <1>3. ASSUME a < b PROVE a * S + S <= b * S
    <2>. DEFINE d == b - a - 1
    <2>1. d \in Nat /\ b = a + (d + 1)
      BY <1>3
    <2>2. (a + (d + 1)) * S = a * S + d * S + S /\ d * S \in Nat
      BY <2>1, SMT
    <2>. QED
      BY <1>1, <2>1, <2>2
  <1>. QED
    BY <1>1, <1>2, <1>3

\* The block of a byte lies between bounds that are multiples of the block size.
LEMMA DivBetween ==
    ASSUME NEW n \in Nat, NEW k \in Nat, NEW S \in Nat \ {0}
    PROVE  /\ k * S <= n => k <= n \div S
           /\ n < k * S => n \div S < k
  <1>. DEFINE q == n \div S
  <1>1. q \in Nat /\ n % S \in 0 .. (S - 1) /\ n = q * S + (n % S)
    BY DivMod
  <1>. HIDE DEF q
  <1>2. ASSUME k * S <= n, ~(k <= q) PROVE FALSE
    <2>1. q * S + S <= k * S
      BY <1>1, <1>2, Multiples
    <2>. QED
      BY <1>1, <1>2, <2>1, Multiples
  <1>3. ASSUME n < k * S, ~(q < k) PROVE FALSE
    <2>1. k * S <= q * S
      BY <1>1, <1>3, Multiples
    <2>. QED
      BY <1>1, <1>3, <2>1, Multiples
  <1>. QED
    BY <1>2, <1>3 DEF q

-----------------------------------------------------------------------------
(* The pieces.                                                             *)

\* A call of Read or Write: its size is the rest of the first block, whole blocks and the excess.
LEMMA ByteCallFacts ==
    ASSUME call \in Calls, ByBytes
    PROVE  /\ Offset \in Nat /\ Size \in Nat /\ First = Offset /\ Length = Size
           /\ StartLBA \in Nat /\ OffsetInLBA \in Nat /\ OffsetInLBA < BlockSize
           /\ Offset = StartLBA * BlockSize + OffsetInLBA
           /\ SizeWithinFirstLBA \in Nat \ {0} /\ SizeWithinFirstLBA = BlockSize - OffsetInLBA
           /\ Blocks \in Nat /\ Excess \in Nat /\ Excess < BlockSize
           /\ Size = SizeWithinFirstLBA + Blocks * BlockSize + Excess
           /\ First + Length <= DiskBlocks * BlockSize
  <1>1. /\ BlockSize \in Nat \ {0} /\ Offset \in Nat /\ Size \in Nat
        /\ Size >= BlockSize - (Offset % BlockSize) /\ Offset + Size <= DiskBlocks * BlockSize
    BY CallAssumption, PortAssumption DEF Calls, ByBytes, Offset, Size
  <1>2. First = Offset /\ Length = Size
    BY DEF First, Length
  <1>3. /\ StartLBA \in Nat /\ OffsetInLBA \in Nat /\ OffsetInLBA < BlockSize
        /\ Offset = StartLBA * BlockSize + OffsetInLBA
    <2>1. /\ Offset \div BlockSize \in Nat /\ Offset % BlockSize \in 0 .. (BlockSize - 1)
          /\ Offset = (Offset \div BlockSize) * BlockSize + (Offset % BlockSize)
      BY <1>1, DivMod
    <2>. QED
      BY <1>1, <2>1 DEF StartLBA, OffsetInLBA
  <1>4. SizeWithinFirstLBA \in Nat \ {0} /\ SizeWithinFirstLBA = BlockSize - OffsetInLBA
    BY <1>1, <1>3 DEF SizeWithinFirstLBA
  <1>. DEFINE rest == Size - SizeWithinFirstLBA
  <1>5. rest \in Nat
    BY <1>1, <1>3, <1>4 DEF OffsetInLBA
  <1>6. /\ rest \div BlockSize \in Nat /\ rest % BlockSize \in 0 .. (BlockSize - 1)
        /\ rest = (rest \div BlockSize) * BlockSize + (rest % BlockSize)
    BY <1>1, <1>5, DivMod
  <1>7. Blocks \in Nat /\ Excess = rest % BlockSize
    <2>1. Blocks = rest \div BlockSize
      BY DEF Blocks
    <2>2. Excess = rest - BlockSize * Blocks
      BY DEF Excess
    <2>3. BlockSize * Blocks = (rest \div BlockSize) * BlockSize
      BY <1>1, <1>6, <2>1, SMT
    <2>. QED
      BY <1>1, <1>6, <2>1, <2>2, <2>3, Multiples
  <1>8. Size = SizeWithinFirstLBA + Blocks * BlockSize + Excess
    <2>1. Blocks = rest \div BlockSize
      BY DEF Blocks
    <2>. HIDE DEF rest
    <2>2. rest = Blocks * BlockSize + Excess
      BY <1>6, <1>7, <2>1
    <2>3. Blocks * BlockSize \in Nat
      BY <1>1, <1>7, Multiples
    <2>4. rest = Size - SizeWithinFirstLBA
      BY DEF rest
    <2>5. Excess \in Nat /\ Size \in Nat /\ SizeWithinFirstLBA \in Nat
      BY <1>1, <1>4, <1>6, <1>7
    <2>. DEFINE m == Blocks * BlockSize
    <2>6. m \in Nat /\ Size - SizeWithinFirstLBA = m + Excess
      BY <2>2, <2>3, <2>4
    <2>. HIDE DEF m
    <2>7. Size = SizeWithinFirstLBA + m + Excess
      BY <2>5, <2>6
    <2>. QED
      BY <2>7 DEF m
  <1>. QED
    BY <1>1, <1>2, <1>3, <1>4, <1>6, <1>7, <1>8

\* A call of ReadBlocks or WriteBlocks.
LEMMA BlockCallFacts ==
    ASSUME call \in Calls, ~ByBytes
    PROVE  /\ Offset \in Nat /\ Size \in Nat
           /\ First = Offset * BlockSize /\ Length = Size * BlockSize
           /\ First + Length <= DiskBlocks * BlockSize
  <1>1. /\ BlockSize \in Nat \ {0} /\ DiskBlocks \in Nat /\ Offset \in Nat /\ Size \in Nat
        /\ Offset + Size <= DiskBlocks
    BY CallAssumption, PortAssumption DEF Calls, ByBytes, Offset, Size
  <1>2. First = Offset * BlockSize /\ Length = Size * BlockSize
    BY DEF First, Length
  <1>3. (Offset + Size) * BlockSize = Offset * BlockSize + Size * BlockSize
    BY <1>1, Multiples
  <1>4. (Offset + Size) * BlockSize <= DiskBlocks * BlockSize
    BY <1>1, Multiples
  <1>. QED
    BY <1>1, <1>2, <1>3, <1>4

\* What holds of the piece in progress, wherever in the call it is.
IsPiece ==
    /\ Current.lba \in Nat /\ Current.count \in 1 .. PageBlocks
    /\ Current.inPage \in Nat /\ Current.inMem \in Nat /\ Current.len \in Nat \ {0}
    /\ First \in Nat /\ Done \in Nat /\ Length \in Nat
    /\ Base + Current.inPage = First + Done
    /\ Current.inPage + Current.len <= Current.count * BlockSize
    /\ (Current.count - 1) * BlockSize < Current.inPage + Current.len
    /\ Current.inPage < BlockSize
    /\ Done + Current.len <= Length /\ Current.inMem + Current.len <= Length
    /\ First + Length <= DiskBlocks * BlockSize
    /\ ~Partial => Current.inPage = 0 /\ Current.len = Current.count * BlockSize
    /\ pc # "first" => Current.inPage = 0
    /\ pc = "first" => Done = 0
    /\ pc # "tail" \/ Reading => Current.inMem = Done

\* The largest of eight, four, two and one that is not more than what is left.
LEMMA LargestFacts ==
    ASSUME NEW rest \in Nat \ {0}
    PROVE  Largest(rest) \in {8, 4, 2, 1} /\ Largest(rest) <= rest
  <1>. DEFINE P(n) == n <= rest /\ \A k \in {8, 4, 2, 1} : k <= rest => k <= n
  <1>1. \E n \in {8, 4, 2, 1} : P(n)
    <2>1. CASE rest >= 8
      <3>1. P(8)
        BY <2>1
      <3>. QED
        BY <3>1
    <2>2. CASE rest >= 4 /\ rest < 8
      <3>1. P(4)
        BY <2>2
      <3>. QED
        BY <3>1
    <2>3. CASE rest >= 2 /\ rest < 4
      <3>1. P(2)
        BY <2>3
      <3>. QED
        BY <3>1
    <2>4. CASE rest = 1
      <3>1. P(1)
        BY <2>4
      <3>. QED
        BY <3>1
    <2>. QED
      BY <2>1, <2>2, <2>3, <2>4
  <1>2. Largest(rest) = CHOOSE n \in {8, 4, 2, 1} : P(n)
    BY DEF Largest
  <1>. QED
    BY <1>1, <1>2

\* The chunk of a round, and what goes on from its last block, stay within the whole blocks.
LEMMA ChunkFacts ==
    ASSUME NEW rest \in Nat \ {0}
    PROVE  /\ rest > 4 => Fast(rest) \in {4, 8} /\ Fast(rest) <= rest /\ Fast(rest) - 1 < rest
           /\ Slow(rest) \in {1, 2} /\ Slow(rest) <= rest
  BY DEF Fast, Slow

\* A chunk of n blocks of Read or Write.
LEMMA ChunkPiece ==
    ASSUME call \in Calls, ByBytes, pc \in {"loop", "slow"}, i \in Nat,
           NEW n \in {1, 2, 4, 8}, i + n <= Blocks, Current = Chunk(n)
    PROVE  IsPiece
  <1>1. BlockSize \in Nat \ {0} /\ ByBytes
    BY PortAssumption
  <1>. DEFINE S == BlockSize
  <1>2. /\ Current.lba = StartLBA + 1 + i /\ Current.count = n /\ Current.inPage = 0
        /\ Current.inMem = SizeWithinFirstLBA + i * S /\ Current.len = n * S
    BY DEF Chunk, Piece
  <1>3. Done = SizeWithinFirstLBA + i * S
    BY DEF Done
  <1>4. ~Partial
    BY DEF Partial
  <1>5. /\ (StartLBA + 1 + i) * S = StartLBA * S + S + i * S
        /\ StartLBA * S \in Nat /\ i * S \in Nat /\ n * S \in Nat \ {0} /\ Blocks * S \in Nat
        /\ i * S + n * S <= Blocks * S /\ (n - 1) * S < n * S
    <2>1. StartLBA \in Nat /\ Blocks \in Nat
      BY ByteCallFacts
    <2>2. StartLBA * S \in Nat /\ (StartLBA + 1) * S = StartLBA * S + S
      BY <1>1, <2>1, Multiples
    <2>3. (StartLBA + 1 + i) * S = (StartLBA + 1) * S + i * S
      BY <1>1, <2>1, Multiples
    <2>4. i * S \in Nat /\ n * S \in Nat /\ (i + n) * S = i * S + n * S
      BY <1>1, Multiples
    <2>5. (i + n) * S <= Blocks * S /\ Blocks * S \in Nat
      BY <1>1, <2>1, Multiples
    <2>6. (n - 1) * S + S <= n * S /\ (n - 1) * S \in Nat
      BY <1>1, Multiples
    <2>. QED
      BY <1>1, <2>2, <2>3, <2>4, <2>5, <2>6
  <1>6. Base = StartLBA * S + S + i * S
    BY <1>2, <1>5 DEF Base
  <1>7. /\ Offset \in Nat /\ Size \in Nat /\ First = Offset /\ Length = Size
        /\ StartLBA \in Nat /\ OffsetInLBA \in Nat /\ OffsetInLBA < S
        /\ Offset = StartLBA * S + OffsetInLBA
        /\ SizeWithinFirstLBA \in Nat /\ SizeWithinFirstLBA = S - OffsetInLBA
        /\ Excess \in Nat /\ Size = SizeWithinFirstLBA + Blocks * S + Excess
        /\ First + Length <= DiskBlocks * S
    BY ByteCallFacts
  <1>. HIDE DEF S
  <1>8. S \in Nat \ {0}
    BY <1>1 DEF S
  <1>9. Base + 0 = First + Done
    BY <1>3, <1>5, <1>6, <1>7, <1>8
  <1>10. Done + n * S <= Length /\ Done \in Nat
    BY <1>3, <1>5, <1>7
  <1>11. 0 + n * S <= n * S /\ (n - 1) * S < 0 + n * S /\ 0 < S
    BY <1>5, <1>8
  <1>. QED
    BY <1>2, <1>3, <1>4, <1>5, <1>7, <1>8, <1>9, <1>10, <1>11 DEF IsPiece, S, PageBlocks

\* The rest of the first block.
LEMMA FirstPiece ==
    ASSUME call \in Calls, ByBytes, pc = "first"
    PROVE  IsPiece
  <1>1. BlockSize \in Nat \ {0}
    BY PortAssumption
  <1>2. /\ Current.lba = StartLBA /\ Current.count = 1 /\ Current.inPage = OffsetInLBA
        /\ Current.inMem = 0 /\ Current.len = SizeWithinFirstLBA
    BY DEF Current, Piece, InChunk, InSlow
  <1>3. Done = 0 /\ Partial
    BY DEF Done, Partial
  <1>4. Base = StartLBA * BlockSize /\ 1 * BlockSize = BlockSize /\ (1 - 1) * BlockSize = 0
    BY <1>1, <1>2 DEF Base
  <1>5. Blocks * BlockSize \in Nat
    BY <1>1, ByteCallFacts, Multiples
  <1>. QED
    BY <1>1, <1>2, <1>3, <1>4, <1>5, ByteCallFacts DEF IsPiece, PageBlocks

\* The excess of the last block.
LEMMA TailPiece ==
    ASSUME call \in Calls, ByBytes, pc = "tail", Excess > 0
    PROVE  IsPiece
  <1>1. BlockSize \in Nat \ {0}
    BY PortAssumption
  <1>2. /\ Current.lba = StartLBA + 1 + Blocks /\ Current.count = 1 /\ Current.inPage = 0
        /\ Current.inMem = TailStart /\ Current.len = Excess
    BY DEF Current, Piece, InChunk, InSlow
  <1>3. Done = SizeWithinFirstLBA + Blocks * BlockSize /\ Partial
    BY DEF Done, Partial
  <1>4. /\ StartLBA * BlockSize \in Nat /\ Blocks * BlockSize \in Nat
        /\ (StartLBA + 1 + Blocks) * BlockSize = StartLBA * BlockSize + BlockSize + Blocks * BlockSize
    <2>1. StartLBA \in Nat /\ Blocks \in Nat
      BY ByteCallFacts
    <2>2. StartLBA * BlockSize \in Nat /\ (StartLBA + 1) * BlockSize = StartLBA * BlockSize + BlockSize
      BY <1>1, <2>1, Multiples
    <2>3. (StartLBA + 1 + Blocks) * BlockSize = (StartLBA + 1) * BlockSize + Blocks * BlockSize
      BY <1>1, <2>1, Multiples
    <2>4. Blocks * BlockSize \in Nat
      BY <1>1, <2>1, Multiples
    <2>. QED
      BY <2>2, <2>3, <2>4
  <1>5. /\ Base = StartLBA * BlockSize + BlockSize + Blocks * BlockSize
        /\ 1 * BlockSize = BlockSize /\ (1 - 1) * BlockSize = 0
    BY <1>1, <1>2, <1>4 DEF Base
  <1>6. /\ TailStart \in Nat /\ TailStart + Excess <= Size
        /\ Reading => TailStart = Done
    BY <1>1, <1>3, <1>4, ByteCallFacts DEF TailStart
  <1>. QED
    BY <1>1, <1>2, <1>3, <1>4, <1>5, <1>6, ByteCallFacts DEF IsPiece, PageBlocks

\* A piece of ReadBlocks or WriteBlocks.
LEMMA BlocksPiece ==
    ASSUME call \in Calls, ~ByBytes, pc = "blocks", i \in Nat, i < Size
    PROVE  IsPiece
  <1>1. BlockSize \in Nat \ {0} /\ Offset \in Nat /\ Size \in Nat
    BY PortAssumption, BlockCallFacts
  <1>. DEFINE n == Largest(Size - i)
  <1>2. n \in {8, 4, 2, 1} /\ i + n <= Size
    BY <1>1, LargestFacts
  <1>3. /\ Current.lba = Offset + i /\ Current.count = n /\ Current.inPage = 0
        /\ Current.inMem = i * BlockSize /\ Current.len = n * BlockSize
    BY DEF Current, Piece, InChunk, InSlow
  <1>4. Done = i * BlockSize /\ ~Partial
    BY DEF Done, Partial
  <1>. HIDE DEF n
  <1>5. /\ (Offset + i) * BlockSize = Offset * BlockSize + i * BlockSize
        /\ Offset * BlockSize \in Nat /\ i * BlockSize \in Nat
    BY <1>1, Multiples
  <1>6. n * BlockSize \in Nat \ {0} /\ (n - 1) * BlockSize < n * BlockSize
    <2>1. (n - 1) * BlockSize + BlockSize <= n * BlockSize /\ (n - 1) * BlockSize \in Nat
      BY <1>1, <1>2, Multiples
    <2>2. n * BlockSize \in Nat
      BY <1>1, <1>2, Multiples
    <2>. QED
      BY <1>1, <2>1, <2>2
  <1>7. i * BlockSize + n * BlockSize <= Size * BlockSize /\ Size * BlockSize \in Nat
    <2>1. (i + n) * BlockSize = i * BlockSize + n * BlockSize
      BY <1>1, <1>2, Multiples
    <2>2. (i + n) * BlockSize <= Size * BlockSize /\ Size * BlockSize \in Nat
      BY <1>1, <1>2, Multiples
    <2>. QED
      BY <2>1, <2>2
  <1>8. /\ First = Offset * BlockSize /\ Length = Size * BlockSize
        /\ First + Length <= DiskBlocks * BlockSize
    BY BlockCallFacts
  <1>9. Base = Offset * BlockSize + i * BlockSize
    BY <1>3, <1>5 DEF Base
  <1>. QED
    BY <1>1, <1>2, <1>3, <1>4, <1>5, <1>6, <1>7, <1>8, <1>9 DEF IsPiece, PageBlocks

\* The command of a piece is for blocks the call is about, and fits the page.
LEMMA PieceFacts ==
    ASSUME Controlled, InPiece
    PROVE  IsPiece /\ call \in Calls
  <1>1. call \in Calls /\ i \in Nat
    BY DEF Controlled, InPiece
  <1>2. pc \in {"first", "loop", "slow", "tail", "blocks"}
    BY DEF Controlled, InPiece
  <1>3. CASE pc = "first"
    BY <1>1, <1>3, FirstPiece DEF Controlled
  <1>4. CASE InChunk
    <2>1. ByBytes /\ Blocks \in Nat /\ i < Blocks /\ Blocks - i > 4 /\ pc = "loop"
      BY <1>1, <1>4, ByteCallFacts DEF Controlled, InChunk
    <2>2. Current = Chunk(Fast(Blocks - i))
      BY <1>1, <1>4, <2>1 DEF Current, InChunk, InSlow
    <2>3. Fast(Blocks - i) \in {4, 8} /\ i + Fast(Blocks - i) <= Blocks
      BY <1>1, <2>1, ChunkFacts
    <2>. QED
      BY <1>1, <2>1, <2>2, <2>3, ChunkPiece
  <1>5. CASE InSlow
    <2>1. pc \in {"loop", "slow"} /\ ~InChunk
      BY <1>1, <1>5, ByteCallFacts DEF InSlow, InChunk, Controlled
    <2>2. Current = Chunk(Slow(Blocks - i))
      BY <1>5, <2>1 DEF Current
    <2>3. ByBytes /\ Blocks \in Nat /\ i < Blocks
      BY <1>1, <2>1, ByteCallFacts DEF Controlled
    <2>4. Slow(Blocks - i) \in {1, 2} /\ i + Slow(Blocks - i) <= Blocks
      BY <1>1, <2>3, ChunkFacts
    <2>. QED
      BY <1>1, <2>1, <2>2, <2>3, <2>4, ChunkPiece
  <1>6. CASE pc = "tail"
    BY <1>1, <1>6, TailPiece DEF Controlled
  <1>7. CASE pc = "blocks"
    BY <1>1, <1>7, BlocksPiece DEF Controlled
  <1>8. pc \in {"loop", "slow"} => InChunk \/ InSlow
    BY <1>1, ByteCallFacts DEF InChunk, InSlow, Controlled
  <1>. QED
    BY <1>1, <1>2, <1>3, <1>4, <1>5, <1>6, <1>7, <1>8

\* The bytes of the blocks that a piece moves are in blocks the call is about.
LEMMA SpanIsTouched ==
    ASSUME IsPiece, NEW p \in Nat, p >= Base, p < Base + Current.count * BlockSize
    PROVE  p \div BlockSize \in TouchedBlocks
  <1>. DEFINE S == BlockSize
              b == Current.lba
              n == Current.count
              last == First + Length - 1
              k == p \div S
  <1>1. /\ S \in Nat \ {0} /\ b \in Nat /\ n \in Nat \ {0} /\ First \in Nat
        /\ Base = b * S /\ Current.inPage \in Nat /\ Current.len \in Nat \ {0}
    BY PortAssumption DEF IsPiece, Base, PageBlocks
  <1>2. last \in Nat /\ Current.inPage < S /\ (n - 1) * S < Current.inPage + Current.len
    BY DEF IsPiece
  <1>3. First <= b * S + Current.inPage /\ b * S + Current.inPage + Current.len - 1 <= last
    BY <1>1 DEF IsPiece
  <1>. HIDE DEF S, b, n, last
  <1>4. /\ b * S \in Nat /\ (b + n) * S = b * S + n * S /\ (b + 1) * S = b * S + S
        /\ (n - 1) * S \in Nat /\ (b + (n - 1)) * S = b * S + (n - 1) * S
    <2>1. b * S \in Nat /\ (b + n) * S = b * S + n * S /\ (b + 1) * S = b * S + S
      BY <1>1, Multiples
    <2>2. n - 1 \in Nat
      BY <1>1
    <2>. QED
      BY <1>1, <2>1, <2>2, Multiples
  <1>5. b <= p \div S
    BY <1>1, <1>4, DivBetween
  <1>6. p \div S < b + n
    <2>1. p < (b + n) * S
      BY <1>1, <1>4 DEF S, n
    <2>2. b + n \in Nat
      BY <1>1
    <2>. QED
      BY <1>1, <2>1, <2>2, DivBetween
  <1>7. First \div S <= b
    <2>1. First < (b + 1) * S
      BY <1>1, <1>2, <1>3, <1>4
    <2>2. First \div S < b + 1 /\ First \div S \in Nat
      <3>1. b + 1 \in Nat
        BY <1>1
      <3>. QED
        BY <1>1, <2>1, <3>1, DivBetween, DivMod
    <2>. QED
      BY <1>1, <2>2
  <1>8. b + (n - 1) <= last \div S
    <2>1. (b + (n - 1)) * S <= last
      BY <1>1, <1>2, <1>3, <1>4
    <2>2. b + (n - 1) \in Nat
      BY <1>1
    <2>. QED
      BY <1>1, <1>2, <2>1, <2>2, DivBetween
  <1>9. First \div S \in Nat /\ last \div S \in Nat /\ k \in Nat
    BY <1>1, <1>2, DivMod
  <1>10. k >= First \div S /\ k <= last \div S
    BY <1>1, <1>5, <1>6, <1>7, <1>8, <1>9
  <1>11. k \in (First \div S) .. (last \div S)
    BY <1>9, <1>10
  <1>. QED
    BY <1>11 DEF TouchedBlocks, S, last, k

-----------------------------------------------------------------------------
(* The parts of a call follow one another.                                 *)

\* After a piece the call goes on behind it, or with its last block once more.
LEMMA AdvanceFacts ==
    ASSUME Controlled, InPiece, Advance, call' = call, faults' = faults
    PROVE  /\ Controlled' /\ step' = "start"
           /\ (InPiece \/ pc = "return")'
           /\ Done' \in Nat /\ Done' <= Done + Current.len
           /\ Landed' \in Nat
           /\ Landed' <= IF pc = "tail" THEN Done ELSE Done + Current.len
  <1>. DEFINE S == BlockSize
  <1>1. /\ call \in Calls /\ call # NoCall /\ i \in Nat /\ faults \in Nat
        /\ pc \in {"first", "loop", "slow", "tail", "blocks"}
    BY DEF Controlled, InPiece
  <1>2. IsPiece /\ S \in Nat \ {0}
    BY PieceFacts, PortAssumption
  <1>3. /\ Offset' = Offset /\ Size' = Size /\ ByBytes' = ByBytes /\ Blocks' = Blocks
        /\ Excess' = Excess /\ SizeWithinFirstLBA' = SizeWithinFirstLBA /\ Length' = Length
    BY DEF Offset, Size, ByBytes, Blocks, Excess, SizeWithinFirstLBA, OffsetInLBA, Length
  \* Read and Write.
  <1>4. ByBytes => /\ Blocks \in Nat /\ Excess \in Nat /\ SizeWithinFirstLBA \in Nat
                   /\ Blocks * S \in Nat /\ Size \in Nat /\ Length = Size
                   /\ Size = SizeWithinFirstLBA + Blocks * S + Excess
    BY <1>1, <1>2, ByteCallFacts, Multiples
  <1>5. ASSUME NEW part \in {"loop", "slow"}, NEW n \in Nat, GoOn(part, n), ByBytes,
               n <= Blocks, part = "slow" => n < Blocks,
               SizeWithinFirstLBA + n * S <= Done + Current.len, pc # "tail"
        PROVE  /\ Controlled' /\ step' = "start" /\ (InPiece \/ pc = "return")'
               /\ Done' \in Nat /\ Done' <= Done + Current.len
               /\ Landed' \in Nat /\ Landed' <= Done + Current.len
    <2>1. i' = n /\ step' = "start" /\ n * S \in Nat
      BY <1>2, <1>5, Multiples DEF GoOn
    <2>2. CASE part = "loop" /\ n >= Blocks
      <3>1. pc' = (IF Excess > 0 THEN "tail" ELSE "return") /\ n = Blocks
        BY <1>4, <1>5, <2>2 DEF GoOn
      <3>2. Controlled' /\ (InPiece \/ pc = "return")'
        BY <1>1, <1>3, <1>5, <2>1, <3>1 DEF Controlled, InPiece
      <3>3. CASE Excess > 0
        <4>1. Done' = SizeWithinFirstLBA + Blocks * S /\ pc' = "tail"
          BY <1>3, <3>1, <3>3 DEF Done
        <4>2. Landed' = Done'
          BY <4>1 DEF Landed
        <4>. QED
          BY <1>4, <1>5, <2>1, <3>1, <3>2, <4>1, <4>2
      <3>4. CASE Excess = 0
        <4>1. Done' = Length /\ pc' = "return"
          BY <1>3, <3>1, <3>4 DEF Done
        <4>2. Landed' = Length - Excess
          BY <1>3, <1>5, <4>1 DEF Landed
        <4>. QED
          BY <1>4, <1>5, <2>1, <3>1, <3>2, <3>4, <4>1, <4>2
      <3>. QED
        BY <1>4, <1>5, <3>3, <3>4
    <2>3. CASE ~(part = "loop" /\ n >= Blocks)
      <3>1. pc' = part /\ n < Blocks
        BY <1>4, <1>5, <2>3 DEF GoOn
      <3>2. Controlled' /\ (InPiece \/ pc = "return")'
        BY <1>1, <1>3, <1>5, <2>1, <3>1 DEF Controlled, InPiece
      <3>3. Done' = SizeWithinFirstLBA + n * S
        BY <1>3, <1>5, <2>1, <3>1 DEF Done
      <3>4. Landed' = Done'
        BY <1>5, <3>1 DEF Landed
      <3>. QED
        BY <1>4, <1>5, <2>1, <3>2, <3>3, <3>4
    <2>. QED
      BY <2>2, <2>3
  <1>6. CASE pc = "first"
    <2>1. GoOn("loop", 0) /\ ByBytes
      BY <1>6 DEF Advance, InChunk, InSlow, Controlled
    <2>2. Done = 0 /\ Current.len = SizeWithinFirstLBA /\ 0 * S = 0
      BY <1>2, <1>6 DEF Done, Current, Piece, InChunk, InSlow
    <2>3. SizeWithinFirstLBA + 0 * S <= Done + Current.len
      BY <1>4, <2>1, <2>2
    <2>. QED
      BY <1>4, <1>5, <1>6, <2>1, <2>3
  \* A piece of n blocks of the loop, and what is done after it.
  <1>7. ASSUME pc \in {"loop", "slow"}, NEW n \in {1, 2, 4, 8}, Current = Chunk(n),
               NEW m \in {n - 1, n}
        PROVE  SizeWithinFirstLBA + (i + m) * S <= Done + Current.len
    <2>1. Done = SizeWithinFirstLBA + i * S /\ Current.len = n * S /\ ByBytes
      BY <1>7 DEF Done, Chunk, Piece, Controlled
    <2>2. m \in Nat /\ m <= n /\ n \in Nat
      BY <1>7
    <2>3. i * S \in Nat /\ m * S \in Nat /\ n * S \in Nat /\ (i + m) * S = i * S + m * S /\ m * S <= n * S
      BY <1>1, <1>2, <2>2, Multiples
    <2>. QED
      BY <1>4, <2>1, <2>3
  <1>8. CASE InChunk
    <2>. DEFINE n == Fast(Blocks - i)
    <2>1. ByBytes /\ Blocks \in Nat /\ i < Blocks /\ Blocks - i > 4 /\ pc = "loop"
      BY <1>1, <1>4, <1>8 DEF Controlled, InChunk
    <2>2. GoOn("slow", i + n - 1) /\ Current = Chunk(n)
      <3>1. ~InSlow
        BY <1>1, <2>1 DEF InSlow
      <3>. QED
        BY <1>8, <2>1, <3>1 DEF Advance, Current
    <2>3. n \in {4, 8} /\ n <= Blocks - i /\ n - 1 < Blocks - i
      BY <1>1, <2>1, ChunkFacts
    <2>. HIDE DEF n
    <2>4. SizeWithinFirstLBA + (i + (n - 1)) * S <= Done + Current.len
      BY <1>7, <2>1, <2>2, <2>3
    <2>5. i + n - 1 \in Nat /\ i + n - 1 = i + (n - 1) /\ i + n - 1 < Blocks
      BY <1>1, <2>1, <2>3
    <2>6. SizeWithinFirstLBA + (i + n - 1) * S <= Done + Current.len
      BY <2>4, <2>5
    <2>. QED
      BY <1>5, <2>1, <2>2, <2>5, <2>6
  <1>9. CASE InSlow
    <2>. DEFINE n == Slow(Blocks - i)
    <2>1. pc \in {"loop", "slow"} /\ ~InChunk
      BY <1>1, <1>4, <1>9 DEF InSlow, InChunk, Controlled
    <2>2. ByBytes /\ Blocks \in Nat /\ i < Blocks
      BY <1>1, <1>4, <2>1 DEF Controlled
    <2>3. GoOn("loop", i + n) /\ Current = Chunk(n)
      BY <1>9, <2>1 DEF Advance, Current
    <2>4. n \in {1, 2} /\ n <= Blocks - i
      BY <1>1, <2>2, ChunkFacts
    <2>. HIDE DEF n
    <2>5. SizeWithinFirstLBA + (i + n) * S <= Done + Current.len
      BY <1>7, <2>1, <2>3, <2>4
    <2>6. i + n \in Nat /\ i + n <= Blocks
      BY <1>1, <2>2, <2>4
    <2>. QED
      BY <1>5, <2>1, <2>2, <2>3, <2>5, <2>6
  <1>10. CASE pc = "tail"
    <2>1. GoOn("return", i) /\ ByBytes
      BY <1>10 DEF Advance, InChunk, InSlow, Controlled
    <2>2. pc' = "return" /\ i' = i /\ step' = "start"
      BY <2>1 DEF GoOn
    <2>3. Done = SizeWithinFirstLBA + Blocks * S /\ Current.len = Excess
      BY <1>10 DEF Done, Current, Piece, InChunk, InSlow
    <2>4. Done' = Length /\ Landed' = Length - Excess
      BY <1>3, <2>1, <2>2 DEF Done, Landed
    <2>5. Controlled' /\ (InPiece \/ pc = "return")'
      BY <1>1, <1>3, <2>2 DEF Controlled, InPiece
    <2>. QED
      BY <1>4, <1>10, <2>1, <2>2, <2>3, <2>4, <2>5
  <1>11. CASE pc = "blocks"
    <2>. DEFINE n == Largest(Size - i)
    <2>1. ~ByBytes /\ i < Size /\ Size \in Nat /\ Length = Size * S
      BY <1>1, <1>11, BlockCallFacts DEF Controlled
    <2>2. GoOn("blocks", i + n) /\ Done = i * S /\ Current.len = n * S
      BY <1>11 DEF Advance, Done, Current, Piece, InChunk, InSlow
    <2>3. n \in {8, 4, 2, 1} /\ n <= Size - i
      BY <1>1, <2>1, LargestFacts
    <2>. HIDE DEF n
    <2>4. i + n \in Nat /\ i' = i + n /\ step' = "start" /\ i + n <= Size
          /\ pc' = IF i + n >= Size THEN "return" ELSE "blocks"
      BY <1>1, <2>1, <2>2, <2>3 DEF GoOn
    <2>5. Controlled' /\ (InPiece \/ pc = "return")'
      BY <1>1, <1>3, <2>1, <2>4 DEF Controlled, InPiece
    <2>6. (i + n) * S = i * S + n * S /\ (i + n) * S \in Nat
      BY <1>1, <1>2, <2>3, <2>4, Multiples
    <2>7. Done' = (i + n) * S
      <3>1. CASE i + n >= Size
        <4>1. pc' = "return" /\ i + n = Size
          BY <2>1, <2>4, <3>1
        <4>. QED
          BY <1>3, <2>1, <4>1 DEF Done
      <3>2. CASE i + n < Size
        <4>1. pc' = "blocks"
          BY <2>1, <2>4, <3>2
        <4>. QED
          BY <2>4, <4>1 DEF Done
      <3>. QED
        BY <2>1, <2>4, <3>1, <3>2
    <2>8. Landed' = Done'
      BY <1>3, <2>1 DEF Landed
    <2>. QED
      BY <1>11, <2>2, <2>4, <2>5, <2>6, <2>7, <2>8
  <1>12. pc \in {"loop", "slow"} => InChunk \/ InSlow
    BY <1>1, <1>4 DEF InChunk, InSlow, Controlled
  <1>13. InChunk \/ InSlow => pc # "tail"
    BY DEF InChunk, InSlow
  <1>. QED
    BY <1>1, <1>6, <1>8, <1>9, <1>10, <1>11, <1>12, <1>13

-----------------------------------------------------------------------------
(* The steps.                                                              *)

\* A piece is the same piece as long as the call, its part and its round are.
LEMMA SamePiece ==
    ASSUME call' = call, pc' = pc, i' = i
    PROVE  /\ Current' = Current /\ Done' = Done /\ Landed' = Landed
           /\ Base' = Base /\ Span' = Span /\ First' = First /\ Length' = Length
           /\ TouchedBlocks' = TouchedBlocks
           /\ (Reading' <=> Reading) /\ (ByBytes' <=> ByBytes)
           /\ (InPiece' <=> InPiece) /\ (Partial' <=> Partial)
           /\ \A j : (InSpan(j)' <=> InSpan(j))
  <1>1. /\ Offset' = Offset /\ Size' = Size /\ (Reading' <=> Reading) /\ (ByBytes' <=> ByBytes)
        /\ (InPiece' <=> InPiece) /\ (Partial' <=> Partial)
    BY DEF Offset, Size, Reading, ByBytes, InPiece, Partial
  <1>2. /\ StartLBA' = StartLBA /\ OffsetInLBA' = OffsetInLBA
        /\ SizeWithinFirstLBA' = SizeWithinFirstLBA
        /\ Blocks' = Blocks /\ Excess' = Excess
    BY <1>1 DEF StartLBA, OffsetInLBA, SizeWithinFirstLBA, Blocks, Excess
  <1>3. First' = First /\ Length' = Length
    BY <1>1 DEF First, Length
  <1>4. TouchedBlocks' = TouchedBlocks /\ TailStart' = TailStart
    BY <1>1, <1>2, <1>3 DEF TouchedBlocks, TailStart
  <1>5. Current' = Current
    BY <1>1, <1>2, <1>4 DEF Current, InChunk, InSlow, Chunk, Piece
  <1>6. Done' = Done
    BY <1>2, <1>3 DEF Done
  <1>7. Landed' = Landed
    BY <1>1, <1>2, <1>3, <1>6 DEF Landed
  <1>8. Base' = Base /\ Span' = Span /\ \A j : (InSpan(j)' <=> InSpan(j))
    BY <1>5 DEF Base, Span, InSpan
  <1>. QED
    BY <1>1, <1>3, <1>4, <1>5, <1>6, <1>7, <1>8

\* memcpy writes no byte but those it is asked to write.
LEMMA CopyOutside ==
    ASSUME NEW to, NEW from, NEW at \in Nat, NEW start \in Nat, NEW len \in Nat,
           NEW j \in DOMAIN to, j \in Nat, j < at \/ j >= at + len
    PROVE  Copy(to, at, from, start, len)[j] = to[j]
  BY DEF Copy

\* The bytes of the disk, of the page and of the caller's buffer are numbered from 0.
LEMMA ByteFacts ==
    /\ DiskBytes \subseteq Nat /\ PageBytes \subseteq Nat /\ MemBytes \subseteq Nat
    /\ \A p \in Nat : p < DiskBlocks * BlockSize => p \in DiskBytes
    /\ \A j \in Nat : j < PageBlocks * BlockSize => j \in PageBytes
    /\ \A j \in Nat : j < DiskBlocks * BlockSize => j \in MemBytes
  <1>1. DiskBlocks * BlockSize \in Nat /\ PageBlocks * BlockSize \in Nat /\ BlockSize \in Nat \ {0}
    BY PortAssumption, Multiples DEF PageBlocks
  <1>. QED
    BY <1>1 DEF DiskBytes, PageBytes, MemBytes, MaxLength

\* The blocks of a piece are on the disk, and there is room for them in the page.
LEMMA SpanFacts ==
    ASSUME IsPiece
    PROVE  /\ Base \in Nat /\ Current.count * BlockSize \in Nat
           /\ \A j \in Span : j \in Nat /\ j < Current.count * BlockSize
           /\ \A j \in Nat : j < Current.count * BlockSize => j \in Span
           /\ \A j \in Span : j \in PageBytes /\ Base + j \in DiskBytes
  <1>. DEFINE b == Current.lba
              n == Current.count
  <1>1. /\ BlockSize \in Nat \ {0} /\ DiskBlocks \in Nat /\ b \in Nat /\ n \in Nat /\ n >= 1
        /\ n <= PageBlocks /\ PageBlocks \in Nat /\ n - 1 \in Nat
    BY PortAssumption DEF IsPiece, PageBlocks
  <1>2. Base = b * BlockSize /\ Span = 0 .. (n * BlockSize - 1)
    BY DEF Base, Span
  <1>3. /\ Base + Current.inPage + Current.len <= DiskBlocks * BlockSize
        /\ (n - 1) * BlockSize < Current.inPage + Current.len
        /\ Current.inPage \in Nat /\ Current.len \in Nat
    <2>1. /\ Current.inPage \in Nat /\ Current.len \in Nat /\ First \in Nat /\ Done \in Nat /\ Length \in Nat
          /\ Base + Current.inPage = First + Done /\ Done + Current.len <= Length
          /\ First + Length <= DiskBlocks * BlockSize
          /\ (n - 1) * BlockSize < Current.inPage + Current.len
      BY DEF IsPiece
    <2>2. Base \in Nat /\ DiskBlocks * BlockSize \in Nat
      BY <1>1, <1>2, Multiples
    <2>. QED
      BY <2>1, <2>2
  <1>. HIDE DEF b, n
  <1>4. b * BlockSize \in Nat /\ n * BlockSize \in Nat /\ n * BlockSize <= PageBlocks * BlockSize
    BY <1>1, Multiples
  <1>5. (b + n) * BlockSize <= DiskBlocks * BlockSize
    <2>1. /\ (b + (n - 1)) * BlockSize = b * BlockSize + (n - 1) * BlockSize
          /\ (n - 1) * BlockSize \in Nat
      BY <1>1, Multiples
    <2>2. (b + (n - 1)) * BlockSize < DiskBlocks * BlockSize
      <3>1. DiskBlocks * BlockSize \in Nat
        BY <1>1, Multiples
      <3>. QED
        BY <1>2, <1>3, <1>4, <2>1, <3>1
    <2>3. b + n <= DiskBlocks
      <3>1. SUFFICES ASSUME ~(b + n <= DiskBlocks) PROVE FALSE
        OBVIOUS
      <3>2. DiskBlocks <= b + (n - 1) /\ b + (n - 1) \in Nat
        BY <1>1, <3>1
      <3>3. DiskBlocks * BlockSize <= (b + (n - 1)) * BlockSize
        BY <1>1, <3>2, Multiples
      <3>4. DiskBlocks * BlockSize \in Nat /\ (b + (n - 1)) * BlockSize \in Nat
        BY <1>1, <3>2, Multiples
      <3>. QED
        BY <2>2, <3>3, <3>4
    <2>4. b + n \in Nat
      BY <1>1
    <2>. QED
      BY <1>1, <2>3, <2>4, Multiples
  <1>6. (b + n) * BlockSize = b * BlockSize + n * BlockSize
    BY <1>1, Multiples
  <1>7. \A j \in Span : j \in Nat /\ j < n * BlockSize
    BY <1>2, <1>4
  <1>8. \A j \in Nat : j < n * BlockSize => j \in Span
    BY <1>2, <1>4
  <1>9. ASSUME NEW j \in Span PROVE j \in PageBytes /\ Base + j \in DiskBytes
    <2>1. j \in Nat /\ j < n * BlockSize
      BY <1>7
    <2>2. j < PageBlocks * BlockSize /\ PageBlocks * BlockSize \in Nat
      BY <1>1, <1>4, <2>1, Multiples
    <2>3. Base + j \in Nat /\ Base + j < DiskBlocks * BlockSize
      <3>1. DiskBlocks * BlockSize \in Nat
        BY <1>1, Multiples
      <3>. QED
        BY <1>2, <1>4, <1>5, <1>6, <2>1, <3>1
    <2>. QED
      BY <2>1, <2>2, <2>3, ByteFacts
  <1>. QED
    BY <1>2, <1>4, <1>7, <1>8, <1>9 DEF n

\* What a step within a piece keeps when it leaves the disk and the caller's buffer alone.
LEMMA SamePlaces ==
    ASSUME IInv, call' = call, pc' = pc, i' = i, disk' = disk, mem' = mem,
           faults' \in Nat, faults' = 0 => faults = 0
    PROVE  /\ Controlled' /\ OtherBlocksKept'
           /\ (call # NoCall => IF Reading THEN Received ELSE Sent)'
  <1>1. /\ Done' = Done /\ Landed' = Landed /\ First' = First /\ Length' = Length
        /\ TouchedBlocks' = TouchedBlocks
        /\ (Reading' <=> Reading) /\ (ByBytes' <=> ByBytes) /\ (InPiece' <=> InPiece)
    BY SamePiece
  <1>2. Controlled'
    <2>1. Blocks' = Blocks /\ Excess' = Excess /\ Size' = Size
      BY DEF Blocks, Excess, Size, SizeWithinFirstLBA, OffsetInLBA, Offset
    <2>. QED
      BY <1>1, <2>1 DEF IInv, Controlled
  <1>3. OtherBlocksKept'
    BY <1>1 DEF IInv, OtherBlocksKept
  <1>4. Received => Received'
    BY <1>1 DEF Received
  <1>5. Sent => Sent'
    BY <1>1 DEF Sent
  <1>. QED
    BY <1>1, <1>2, <1>3, <1>4, <1>5 DEF IInv, Carrying

\* The buffers are those of the call, which goes on.
LEMMA SameBuffers ==
    ASSUME Accounted, call' = call, bufferLock' = bufferLock, buffer' = buffer, kept' = kept
    PROVE  Accounted'
  BY DEF Accounted, BuffersAccounted, ByBytes

LEMMA ReadPieceStep ==
    ASSUME IInv, ReadPiece
    PROVE  IInv'
  <1>. USE DEF ReadPiece
  <1>1. /\ Controlled' /\ OtherBlocksKept'
        /\ (call # NoCall => IF Reading THEN Received ELSE Sent)'
    BY SamePlaces DEF IInv, Controlled
  <1>2. Accounted'
    BY SameBuffers DEF IInv
  <1>3. /\ command'.place = "spinning" /\ command'.write = FALSE
        /\ command'.lba = Current.lba /\ command'.count = Current.count
    BY DEF Program
  <1>4. Commanded'
    <2>1. Current.lba \in Nat /\ Current.count \in Nat
      BY PieceFacts DEF IInv, IsPiece, PageBlocks
    <2>2. command' \in CommandType
      BY <2>1 DEF Program, CommandType, Places
    <2>. QED
      BY <1>3, <2>2, SamePiece DEF Commanded, At
  <1>5. Shaped' /\ Paged'
    BY <1>3 DEF IInv, Carrying, Shaped, Paged, Carried, At
  <1>. QED
    BY <1>1, <1>2, <1>4, <1>5 DEF IInv, Carrying

LEMMA WritePieceStep ==
    ASSUME IInv, WritePiece
    PROVE  IInv'
  <1>. USE DEF WritePiece
  <1>1. /\ Controlled' /\ OtherBlocksKept'
        /\ (call # NoCall => IF Reading THEN Received ELSE Sent)'
    BY SamePlaces DEF IInv, Controlled
  <1>2. Accounted'
    BY SameBuffers DEF IInv
  <1>3. /\ command'.place = "spinning" /\ command'.write = TRUE
        /\ command'.lba = Current.lba /\ command'.count = Current.count
    BY DEF Program
  <1>4. Commanded'
    <2>1. Current.lba \in Nat /\ Current.count \in Nat
      BY PieceFacts DEF IInv, IsPiece, PageBlocks
    <2>2. command' \in CommandType
      BY <2>1 DEF Program, CommandType, Places
    <2>. QED
      BY <1>3, <2>2, SamePiece DEF Commanded, At
  <1>5. IsPiece /\ call # NoCall
    BY PieceFacts DEF IInv, Controlled, InPiece
  <1>6. Shaped /\ Paged /\ Sent
    BY <1>5 DEF IInv, Carrying
  <1>7. Shaped' /\ DOMAIN page' = DOMAIN page
    BY <1>6 DEF Shaped, Copy
  <1>8. /\ Current.inPage \in Nat /\ Current.inMem \in Nat /\ Current.len \in Nat
        /\ Current.inMem + Current.len <= Length /\ Length <= DiskBlocks * BlockSize
        /\ Length \in Nat /\ DiskBlocks * BlockSize \in Nat
    BY <1>5, PortAssumption, Multiples DEF IsPiece
  <1>9. ASSUME NEW j \in Span, InSpan(j)
        PROVE  page'[j] = Mine(Current.inMem + j - Current.inPage)
    <2>1. j \in PageBytes /\ j \in Nat
      BY <1>5, SpanFacts
    <2>2. Current.inPage <= j /\ j < Current.inPage + Current.len
      BY <1>8, <1>9, <2>1 DEF InSpan
    <2>3. page'[j] = mem[Current.inMem + j - Current.inPage]
      <3>1. j \in DOMAIN page
        BY <1>6, <2>1 DEF Shaped
      <3>. QED
        BY <1>8, <2>1, <2>2, <3>1 DEF Copy
    <2>4. Current.inMem + j - Current.inPage \in Nat
          /\ Current.inMem + j - Current.inPage < DiskBlocks * BlockSize
      BY <1>8, <2>1, <2>2
    <2>5. Current.inMem + j - Current.inPage \in MemBytes
      BY <2>4, ByteFacts
    <2>. QED
      BY <1>6, <2>3, <2>5 DEF Sent
  <1>10. ASSUME NEW j \in Span, ~InSpan(j), faults = 0
         PROVE  page'[j] = disk[Base + j]
    <2>1. j \in PageBytes /\ j \in Nat /\ j < Current.count * BlockSize
      BY <1>5, SpanFacts
    <2>2. Current.count * BlockSize \in Nat
      BY <1>5, SpanFacts
    <2>3. j < Current.inPage \/ j >= Current.inPage + Current.len
      BY <1>8, <1>10, <2>1 DEF InSpan
    <2>4. page'[j] = page[j]
      <3>1. j \in DOMAIN page
        BY <1>6, <2>1 DEF Shaped
      <3>. QED
        BY <1>8, <2>1, <2>3, <3>1, CopyOutside
    <2>5. Partial
      BY <1>5, <1>8, <2>1, <2>2, <2>3 DEF IsPiece
    <2>6. step = "read" /\ Carried
      BY <2>5 DEF Program, Carried
    <2>. QED
      BY <1>6, <1>10, <2>4, <2>6 DEF Paged
  <1>11. Paged'
    <2>1. faults' = faults /\ step' = "written" /\ ~Carried' /\ disk' = disk
      BY <1>3 DEF Carried, At
    <2>2. Span' = Span /\ Base' = Base /\ Current' = Current /\ \A j : (InSpan(j)' <=> InSpan(j))
      BY SamePiece
    <2>. QED
      BY <1>9, <1>10, <2>1, <2>2 DEF Paged
  <1>. QED
    BY <1>1, <1>2, <1>4, <1>7, <1>11 DEF IInv, Carrying

\* The device carries the command of the piece out: it moves the blocks of the piece.
LEMMA TransferStep ==
    ASSUME IInv, Transfer, UNCHANGED diskVars
    PROVE  IInv'
  <1>. USE DEF diskVars
  <1>1. /\ At("issued") /\ step \in {"read", "written"} /\ InPiece
        /\ command.lba = Current.lba /\ command.count = Current.count
    BY DEF Transfer, IInv, Commanded, At
  <1>2. IsPiece /\ call # NoCall
    BY <1>1, PieceFacts DEF IInv, Controlled, InPiece
  <1>3. Shaped /\ Paged /\ (Reading => Received) /\ (~Reading => Sent) /\ Commanded
    BY <1>2 DEF IInv, Carrying
  <1>4. /\ command'.place = "done" /\ command'.write = command.write
        /\ command'.lba = command.lba /\ command'.count = command.count
    <2>1. command' = [command EXCEPT !.place = "done"]
      BY DEF Transfer, Goto
    <2>. QED
      BY <1>3, <2>1 DEF Commanded, CommandType
  <1>5. faults' = faults
    BY DEF Transfer
  <1>6. Commanded'
    <2>1. command' \in CommandType
      BY <1>3 DEF Transfer, Goto, Commanded, CommandType, Places
    <2>. QED
      BY <1>1, <1>3, <1>4, <2>1, SamePiece DEF Commanded, At
  <1>7. Accounted'
    BY SameBuffers DEF IInv
  <1>8. /\ Base \in Nat /\ Current.count * BlockSize \in Nat
        /\ command.lba * BlockSize = Base /\ command.count * BlockSize = Current.count * BlockSize
    BY <1>1, <1>2, SpanFacts DEF Base
  <1>9. /\ Span' = Span /\ Base' = Base /\ Current' = Current /\ \A j : (InSpan(j)' <=> InSpan(j))
        /\ Done' = Done /\ Landed' = Landed /\ First' = First /\ Length' = Length
        /\ TouchedBlocks' = TouchedBlocks /\ (Reading' <=> Reading) /\ (InPiece' <=> InPiece)
    BY SamePiece
  <1>10. CASE step = "read"
    <2>1. ~command.write
      BY <1>3, <1>10 DEF Commanded
    <2>2. disk' = disk /\ page' = Copy(page, 0, disk, Base, Current.count * BlockSize)
      BY <1>8, <2>1 DEF Transfer
    <2>3. /\ Controlled' /\ OtherBlocksKept'
          /\ (call # NoCall => IF Reading THEN Received ELSE Sent)'
      BY <1>5, <2>2, SamePlaces DEF IInv, Controlled
    <2>4. Shaped'
      BY <1>3, <2>2 DEF Shaped, Copy
    <2>5. ASSUME NEW j \in Span PROVE page'[j] = disk[Base + j]
      <3>1. j \in PageBytes /\ j \in Nat /\ j < Current.count * BlockSize
        BY <1>2, SpanFacts
      <3>2. page'[j] = disk[Base + j - 0]
        <4>1. j \in DOMAIN page /\ 0 <= j /\ j < 0 + Current.count * BlockSize
          BY <1>3, <1>8, <3>1 DEF Shaped
        <4>. QED
          BY <1>8, <2>2, <3>1, <4>1 DEF Copy
      <3>3. Base + j - 0 = Base + j
        BY <1>8, <3>1
      <3>. QED
        BY <3>2, <3>3
    <2>6. Paged'
      BY <1>9, <1>10, <2>2, <2>5 DEF Paged
    <2>. QED
      BY <1>6, <1>7, <2>3, <2>4, <2>6 DEF IInv, Carrying
  <1>11. CASE step = "written"
    <2>1. command.write /\ ~Reading /\ Sent
      BY <1>3, <1>11 DEF Commanded
    <2>2. page' = page /\ disk' = Copy(disk, Base, page, 0, Current.count * BlockSize)
      BY <1>8, <2>1 DEF Transfer
    <2>3. Shaped'
      BY <1>3, <2>2 DEF Shaped, Copy
    <2>4. Controlled'
      <3>1. /\ Blocks' = Blocks /\ Excess' = Excess /\ Size' = Size /\ (ByBytes' <=> ByBytes)
        BY DEF Blocks, Excess, Size, SizeWithinFirstLBA, OffsetInLBA, Offset, ByBytes
      <3>. QED
        BY <1>5, <3>1 DEF IInv, Controlled
    \* A byte of the disk is one of the piece's blocks or what it was.
    <2>5. ASSUME NEW p \in DiskBytes, p < Base \/ p >= Base + Current.count * BlockSize
          PROVE  disk'[p] = disk[p]
      <3>1. p \in DOMAIN disk /\ p \in Nat
        BY <1>3, ByteFacts DEF Shaped
      <3>. QED
        BY <1>8, <2>2, <2>5, <3>1, CopyOutside
    <2>6. ASSUME NEW p \in DiskBytes, p >= Base, p < Base + Current.count * BlockSize
          PROVE  disk'[p] = page[p - Base] /\ p - Base \in Span
      <3>1. p \in Nat
        BY ByteFacts
      <3>2. disk'[p] = page[0 + p - Base]
        <4>1. p \in DOMAIN disk
          BY <1>3 DEF Shaped
        <4>. QED
          BY <1>8, <2>2, <2>6, <3>1, <4>1 DEF Copy
      <3>3. 0 + p - Base = p - Base /\ p - Base \in Nat /\ p - Base < Current.count * BlockSize
        BY <1>8, <2>6, <3>1
      <3>. QED
        BY <1>2, <3>2, <3>3, SpanFacts
    <2>7. ASSUME NEW j \in Span PROVE disk'[Base + j] = page[j]
      <3>1. /\ j \in Nat /\ j < Current.count * BlockSize /\ Base + j \in DiskBytes
        BY <1>2, SpanFacts
      <3>. DEFINE p == Base + j
      <3>2. p \in DiskBytes /\ p >= Base /\ p < Base + Current.count * BlockSize /\ p - Base = j
        BY <1>8, <3>1
      <3>. HIDE DEF p
      <3>3. disk'[p] = page[p - Base]
        BY <2>6, <3>2
      <3>. QED
        BY <3>2, <3>3 DEF p
    <2>8. Paged'
      <3>1. \A j \in Span : InSpan(j) /\ faults = 0 => page[j] = Mine(Current.inMem + j - Current.inPage)
        BY <1>3, <1>11 DEF Paged
      <3>. QED
        BY <1>5, <1>9, <1>11, <2>2, <2>7, <3>1 DEF Paged
    <2>9. OtherBlocksKept'
      <3>1. ASSUME NEW p \in DiskBytes, p \div BlockSize \notin TouchedBlocks
            PROVE  disk'[p] = p
        <4>1. p \in Nat
          BY ByteFacts
        <4>2. p < Base \/ p >= Base + Current.count * BlockSize
          BY <1>2, <1>8, <3>1, <4>1, SpanIsTouched
        <4>3. disk[p] = p
          BY <1>2, <3>1 DEF IInv, OtherBlocksKept
        <4>. QED
          BY <2>5, <4>2, <4>3
      <3>. QED
        BY <1>9, <2>1, <3>1 DEF OtherBlocksKept
    \* Around the piece its blocks have what they had.
    <2>10. ASSUME faults = 0, NEW p \in DiskBytes,
                  p < First + Done \/ p >= First + Done + Current.len
           PROVE  disk'[p] = disk[p]
      <3>1. p \in Nat /\ First \in Nat /\ Done \in Nat /\ Current.len \in Nat /\ Current.inPage \in Nat
            /\ Base + Current.inPage = First + Done
        BY <1>2, ByteFacts DEF IsPiece
      <3>2. CASE p >= Base /\ p < Base + Current.count * BlockSize
        <4>1. disk'[p] = page[p - Base] /\ p - Base \in Span
          BY <2>6, <3>2
        <4>2. ~InSpan(p - Base)
          BY <1>8, <2>10, <3>1 DEF InSpan
        <4>3. page[p - Base] = disk[Base + (p - Base)]
          BY <1>3, <1>11, <2>10, <4>1, <4>2 DEF Paged
        <4>4. Base + (p - Base) = p
          BY <1>8, <3>1
        <4>. QED
          BY <4>1, <4>3, <4>4
      <3>3. CASE ~(p >= Base /\ p < Base + Current.count * BlockSize)
        BY <1>8, <2>5, <3>1, <3>3
      <3>. QED
        BY <3>2, <3>3
    <2>11. Sent'
      <3>1. pc # "return"
        BY <1>1 DEF InPiece
      <3>2. /\ Landed = Done /\ First \in Nat /\ Done \in Nat /\ Length \in Nat /\ Current.len \in Nat
            /\ Done + Current.len <= Length
        BY <1>2, <3>1 DEF Landed, IsPiece
      <3>3. ASSUME faults = 0, NEW p \in DiskBytes, p < First \/ p >= First + Length
            PROVE  disk'[p] = p
        <4>1. p \in Nat
          BY ByteFacts
        <4>2. p < First + Done \/ p >= First + Done + Current.len
          BY <3>2, <3>3, <4>1
        <4>3. disk[p] = p
          BY <1>1, <2>1, <3>3 DEF Sent
        <4>. QED
          BY <2>10, <3>3, <4>2, <4>3
      <3>4. ASSUME faults = 0, NEW p \in DiskBytes, p >= First, p < First + Done
            PROVE  disk'[p] = Mine(p - First)
        <4>1. disk[p] = Mine(p - First)
          BY <1>1, <2>1, <3>2, <3>4 DEF Sent
        <4>. QED
          BY <2>10, <3>4, <4>1
      <3>. QED
        BY <1>5, <1>9, <2>1, <3>2, <3>3, <3>4 DEF Sent
    <2>. QED
      BY <1>6, <1>7, <1>9, <2>1, <2>3, <2>4, <2>8, <2>9, <2>11 DEF IInv, Carrying
  <1>. QED
    BY <1>1, <1>10, <1>11

\* The port and the device go on without moving a byte.
LEMMA QuietPortStep ==
    ASSUME IInv, Issue \/ SpinOut \/ Fail \/ Answer, UNCHANGED diskVars
    PROVE  IInv'
  <1>. USE DEF diskVars
  <1>1. command \in CommandType
    BY DEF IInv, Commanded
  <1>2. PICK place \in Places :
          /\ command' = [command EXCEPT !.place = place]
          /\ \/ place = "issued" /\ Issue
             \/ place = "free" /\ (SpinOut \/ Answer)
             \/ place = "error" /\ Fail
    BY DEF Issue, SpinOut, Fail, Answer, Goto, Places
  <1>3. disk' = disk /\ page' = page /\ faults \in Nat /\ faults' \in {faults, faults + 1}
    BY DEF Issue, SpinOut, Fail, Answer, IInv, Controlled
  <1>4. /\ Controlled' /\ OtherBlocksKept'
        /\ (call # NoCall => IF Reading THEN Received ELSE Sent)'
    BY <1>3, SamePlaces
  <1>5. Accounted'
    BY SameBuffers DEF IInv
  <1>6. /\ command' \in CommandType /\ command'.place = place
        /\ command'.write = command.write /\ command'.lba = command.lba
        /\ command'.count = command.count
    BY <1>1, <1>2 DEF CommandType
  <1>7. place = "error" => faults' > 0
    BY <1>2, <1>3 DEF Fail
  <1>8. faults' = 0 /\ place = "free" => At("done")
    <2>1. SpinOut => faults' # 0
      BY <1>3 DEF SpinOut
    <2>2. At("error") => faults' # 0
      BY <1>2, <1>3 DEF IInv, Commanded, Answer, Issue, Fail, SpinOut, At
    <2>. QED
      BY <1>2, <2>1, <2>2 DEF Answer
  <1>9. step # "start"
    BY DEF Issue, SpinOut, Fail, Answer, IInv, Commanded, At
  <1>10. Commanded'
    BY <1>6, <1>7, <1>9, SamePiece DEF IInv, Commanded, At
  <1>11. faults' = 0 /\ Carried' => Carried
    BY <1>2, <1>6, <1>8 DEF Carried, At
  <1>12. Shaped' /\ Paged'
    <2>1. Span' = Span /\ Base' = Base /\ Current' = Current /\ \A j : (InSpan(j)' <=> InSpan(j))
      BY SamePiece
    <2>. QED
      BY <1>3, <1>11, <2>1 DEF IInv, Carrying, Shaped, Paged
  <1>. QED
    BY <1>4, <1>5, <1>10, <1>12 DEF IInv, Carrying

\* The call goes on behind a piece: what it is about stays what it was.
LEMMA SameCall ==
    ASSUME call' = call
    PROVE  /\ First' = First /\ Length' = Length /\ TouchedBlocks' = TouchedBlocks
           /\ (Reading' <=> Reading) /\ (ByBytes' <=> ByBytes)
  <1>1. Offset' = Offset /\ Size' = Size /\ (Reading' <=> Reading) /\ (ByBytes' <=> ByBytes)
    BY DEF Offset, Size, Reading, ByBytes
  <1>2. First' = First /\ Length' = Length
    BY <1>1 DEF First, Length
  <1>. QED
    BY <1>1, <1>2 DEF TouchedBlocks

LEMMA CopyToCallerStep ==
    ASSUME IInv, CopyToCaller
    PROVE  IInv'
  <1>. USE DEF CopyToCaller, portVars
  <1>1. IsPiece /\ call \in Calls /\ call # NoCall
    BY PieceFacts DEF IInv, Controlled, InPiece
  <1>2. Shaped /\ Paged /\ Received /\ Commanded /\ Controlled
    BY <1>1 DEF IInv, Carrying
  <1>3. /\ Controlled' /\ step' = "start" /\ (InPiece \/ pc = "return")'
        /\ Done' \in Nat /\ Done' <= Done + Current.len
    BY <1>2, AdvanceFacts
  <1>4. /\ First' = First /\ Length' = Length /\ TouchedBlocks' = TouchedBlocks
        /\ (Reading' <=> Reading)
    BY SameCall
  <1>5. Accounted'
    BY SameBuffers DEF IInv
  <1>6. Commanded'
    BY <1>2, <1>3 DEF Commanded, At
  <1>7. OtherBlocksKept'
    BY <1>4 DEF IInv, OtherBlocksKept
  <1>8. Shaped' /\ Paged'
    BY <1>2, <1>3 DEF Shaped, Paged, Copy
  <1>9. /\ Current.inPage \in Nat /\ Current.len \in Nat /\ Current.inMem = Done /\ Done \in Nat
        /\ First \in Nat /\ Length \in Nat /\ Base \in Nat /\ Current.count * BlockSize \in Nat
        /\ Base + Current.inPage = First + Done /\ Done + Current.len <= Length
        /\ Current.inPage + Current.len <= Current.count * BlockSize
        /\ First + Length <= DiskBlocks * BlockSize /\ DiskBlocks * BlockSize \in Nat
    BY <1>1, SpanFacts, PortAssumption, Multiples DEF IsPiece
  <1>10. mem' = Copy(mem, Done, page, Current.inPage, Current.len)
    BY <1>9
  <1>11. ASSUME faults = 0, NEW j \in MemBytes, j >= Done, j < Done + Current.len
         PROVE  mem'[j] = First + j
    <2>1. j \in Nat /\ j \in DOMAIN mem
      BY <1>2, ByteFacts DEF Shaped
    <2>2. mem'[j] = page[Current.inPage + j - Done]
      BY <1>9, <1>10, <1>11, <2>1 DEF Copy
    <2>. DEFINE k == Current.inPage + j - Done
    <2>3. k \in Nat /\ k < Current.count * BlockSize /\ Base + k = First + j
      BY <1>9, <1>11, <2>1
    <2>4. First + j \in Nat /\ First + j < DiskBlocks * BlockSize
      BY <1>9, <1>11, <2>1
    <2>. HIDE DEF k
    <2>5. k \in Span
      BY <1>1, <2>3, SpanFacts
    <2>6. page[k] = disk[Base + k]
      BY <1>2, <1>11, <2>5 DEF Paged, Carried
    <2>7. disk[First + j] = First + j
      BY <1>2, <2>4, ByteFacts DEF Received, FreshDisk
    <2>. QED
      BY <2>2, <2>3, <2>6, <2>7 DEF k
  <1>12. ASSUME NEW j \in MemBytes, j < Done \/ j >= Done + Current.len
         PROVE  mem'[j] = mem[j]
    <2>1. j \in Nat /\ j \in DOMAIN mem
      BY <1>2, ByteFacts DEF Shaped
    <2>. QED
      BY <1>9, <1>10, <1>12, <2>1, CopyOutside
  <1>13. Received'
    <2>1. disk' = disk /\ faults' = faults /\ FreshDisk' = FreshDisk
      BY DEF FreshDisk
    <2>2. ASSUME faults = 0, NEW j \in MemBytes, j < Done' PROVE mem'[j] = First + j
      <3>1. j \in Nat
        BY ByteFacts
      <3>2. j < Done => mem[j] = First + j
        BY <1>2, <2>2 DEF Received
      <3>3. j < Done \/ (j >= Done /\ j < Done + Current.len)
        BY <1>3, <1>9, <2>2, <3>1
      <3>. QED
        BY <1>11, <1>12, <2>2, <3>2, <3>3
    <2>3. ASSUME faults = 0, NEW j \in MemBytes, j >= Length PROVE mem'[j] = Untouched
      <3>1. j \in Nat
        BY ByteFacts
      <3>2. j >= Done + Current.len
        BY <1>9, <2>3, <3>1
      <3>3. mem[j] = Untouched
        BY <1>2, <2>3 DEF Received
      <3>. QED
        BY <1>12, <3>2, <3>3
    <2>. QED
      BY <1>2, <1>4, <2>1, <2>2, <2>3 DEF Received
  <1>. QED
    BY <1>3, <1>4, <1>5, <1>6, <1>7, <1>8, <1>13 DEF IInv, Carrying

LEMMA WrittenStep ==
    ASSUME IInv, Written
    PROVE  IInv'
  <1>. USE DEF Written, portVars
  <1>1. IsPiece /\ call \in Calls /\ call # NoCall
    BY PieceFacts DEF IInv, Controlled, InPiece
  <1>2. Shaped /\ Paged /\ Commanded /\ Controlled
    BY <1>1 DEF IInv, Carrying
  <1>3. ~Reading /\ Sent
    BY <1>1, <1>2 DEF IInv, Carrying, Commanded
  <1>4. /\ Controlled' /\ step' = "start" /\ (InPiece \/ pc = "return")'
        /\ Landed' \in Nat
        /\ Landed' <= IF pc = "tail" THEN Done ELSE Done + Current.len
    BY <1>2, AdvanceFacts
  <1>5. /\ First' = First /\ Length' = Length /\ TouchedBlocks' = TouchedBlocks
        /\ (Reading' <=> Reading)
    BY SameCall
  <1>6. Accounted'
    BY SameBuffers DEF IInv
  <1>7. Commanded'
    BY <1>2, <1>4 DEF Commanded, At
  <1>8. OtherBlocksKept'
    BY <1>5 DEF IInv, OtherBlocksKept
  <1>9. Shaped' /\ Paged'
    BY <1>2, <1>4 DEF Shaped, Paged
  <1>10. /\ Current.inPage \in Nat /\ Current.inMem \in Nat /\ Current.len \in Nat /\ Done \in Nat
         /\ First \in Nat /\ Length \in Nat /\ Base \in Nat /\ Current.count * BlockSize \in Nat
         /\ Base + Current.inPage = First + Done /\ Done + Current.len <= Length
         /\ Current.inPage + Current.len <= Current.count * BlockSize
         /\ pc # "tail" => Current.inMem = Done
    BY <1>1, SpanFacts DEF IsPiece
  <1>11. Landed = Done
    BY DEF Landed, InPiece
  <1>12. ASSUME faults = 0, pc # "tail", NEW p \in DiskBytes,
                p >= First + Done, p < First + Done + Current.len
         PROVE  disk[p] = Mine(p - First)
    <2>. DEFINE j == p - Base
    <2>1. p \in Nat
      BY ByteFacts
    <2>2. /\ j \in Nat /\ j < Current.count * BlockSize /\ Base + j = p
          /\ j >= Current.inPage /\ j < Current.inPage + Current.len
          /\ Current.inMem + j - Current.inPage = p - First
      BY <1>10, <1>12, <2>1
    <2>. HIDE DEF j
    <2>3. j \in Span /\ InSpan(j)
      BY <1>1, <1>10, <2>2, SpanFacts DEF InSpan
    <2>4. page[j] = Mine(Current.inMem + j - Current.inPage) /\ disk[Base + j] = page[j]
      BY <1>2, <1>12, <2>3 DEF Paged, Carried
    <2>. QED
      BY <2>2, <2>4
  <1>13. ASSUME faults = 0, NEW p \in DiskBytes, p >= First, p < First + Landed'
         PROVE  disk[p] = Mine(p - First)
    <2>1. p \in Nat
      BY ByteFacts
    <2>2. p < First + Done => disk[p] = Mine(p - First)
      BY <1>3, <1>11, <1>13 DEF Sent
    <2>3. p < First + Done \/ (pc # "tail" /\ p >= First + Done /\ p < First + Done + Current.len)
      <3>. DEFINE upto == Landed'
      <3>1. /\ First \in Nat /\ Done \in Nat /\ Current.len \in Nat /\ upto \in Nat
            /\ p >= First /\ p < First + upto
            /\ upto <= IF pc = "tail" THEN Done ELSE Done + Current.len
        BY <1>4, <1>10, <1>13
      <3>. HIDE DEF upto
      <3>. QED
        BY <2>1, <3>1
    <2>. QED
      BY <1>12, <1>13, <2>2, <2>3
  <1>14. Sent'
    <2>1. disk' = disk /\ mem' = mem /\ faults' = faults
      OBVIOUS
    <2>2. \A p \in DiskBytes : faults = 0 /\ (p < First \/ p >= First + Length) => disk[p] = p
      BY <1>3 DEF Sent
    <2>. QED
      BY <1>3, <1>5, <1>13, <2>1, <2>2 DEF Sent
  <1>. QED
    BY <1>3, <1>4, <1>5, <1>6, <1>7, <1>8, <1>9, <1>14 DEF IInv, Carrying

\* GetBuffer finds a buffer when there is one.
LEMMA FirstFreeIsFree ==
    ASSUME Free # {}
    PROVE  FirstFree \in Free
  <1>. DEFINE before == OpToRel(<, Nat)
  <1>1. Free \subseteq Nat
    BY CallAssumption DEF Free, Buffers
  <1>2. \E b \in Free : \A a \in Free : <<a, b>> \notin before
    BY <1>1, NatLessThanWellFounded, WFMin
  <1>3. ASSUME NEW a \in Nat, NEW b \in Nat, a < b PROVE <<a, b>> \in before
    <2>1. <<a, b>> \in {pair \in Nat \X Nat : pair[1] < pair[2]}
      BY <1>3
    <2>. QED
      BY <2>1, Zenon DEF OpToRel
  <1>. HIDE DEF before
  <1>4. PICK b \in Free : \A a \in Free : <<a, b>> \notin before
    BY <1>2
  <1>5. ASSUME NEW a \in Free PROVE b <= a
    <2>1. a \in Nat /\ b \in Nat /\ <<a, b>> \notin before
      BY <1>1, <1>4
    <2>2. ~(a < b)
      BY <1>3, <2>1
    <2>. QED
      BY <2>1, <2>2
  <1>. QED
    BY <1>4, <1>5 DEF FirstFree

\* The bits of the buffers make a finite set.
LEMMA LocksAreFinite ==
    ASSUME bufferLock \subseteq Buffers
    PROVE  IsFiniteSet(bufferLock)
  <1>1. IsFiniteSet(Buffers)
    BY CallAssumption, FS_Interval DEF Buffers
  <1>. QED
    BY <1>1, FS_Subset

\* A call starts from fresh bytes, whatever it is.
LEMMA BeginFacts ==
    ASSUME NEW c \in Calls, Begin(c), IInv,
           pc' \in {"return", "blocks", "fault"} => ~ByBytes',
           pc' = "first" \/ (pc' = "return" /\ c[2][2] = 0) \/ pc' = "blocks" \/ pc' = "fault"
    PROVE  Carrying' /\ OtherBlocksKept'
  <1>. USE DEF Begin
  <1>1. c # NoCall /\ c[2][1] \in Nat /\ c[2][2] \in Nat /\ BlockSize \in Nat \ {0}
    BY CallAssumption, PortAssumption DEF Calls, NoCall
  <1>2. Offset' = c[2][1] /\ Size' = c[2][2] /\ 0 * BlockSize = 0 /\ c[2][1] * BlockSize \in Nat
    BY <1>1, Multiples DEF Offset, Size
  <1>3. First' \in Nat
    BY <1>1, <1>2 DEF First
  <1>4. pc' \in {"first", "blocks", "return"} => Done' = 0 /\ Landed' = 0
    <2>1. pc' = "return" => ~ByBytes' /\ Length' = 0
      BY <1>1, <1>2 DEF Length
    <2>2. pc' \in {"first", "blocks", "return"} => Done' = 0
      BY <1>2, <2>1 DEF Done
    <2>. QED
      BY <2>1, <2>2 DEF Landed
  <1>5. Shaped'
    BY DEF Shaped, FreshDisk, FreshPage
  <1>6. Paged'
    BY DEF Paged
  <1>7. \A p \in DiskBytes : disk'[p] = p
    BY DEF FreshDisk
  <1>8. OtherBlocksKept'
    BY <1>7 DEF OtherBlocksKept
  <1>9. (InPiece \/ pc = "return")' => pc' \in {"first", "blocks", "return"}
    BY DEF InPiece
  <1>10. Reading' => Received'
    <2>1. ASSUME Reading' PROVE \A j \in MemBytes : mem'[j] = Untouched
      BY <2>1 DEF Reading
    <2>2. FreshDisk' = FreshDisk
      BY DEF FreshDisk
    <2>. QED
      BY <1>4, <1>9, <2>1, <2>2, ByteFacts DEF Received
  <1>11. ~Reading' => Sent'
    <2>1. ASSUME ~Reading' PROVE \A j \in MemBytes : mem'[j] = Mine(j)
      BY <2>1 DEF Reading, Calls
    <2>. QED
      BY <1>3, <1>4, <1>7, <1>9, <2>1, ByteFacts DEF Sent
  <1>. QED
    BY <1>5, <1>6, <1>8, <1>10, <1>11 DEF Carrying

LEMMA ByteCallStep ==
    ASSUME IInv, NEW c \in Calls, ByteCall(c)
    PROVE  IInv'
  <1>. USE DEF ByteCall
  <1>1. c # NoCall /\ ByBytes' /\ call = NoCall
    BY DEF Calls, NoCall, ByBytes, Begin, IInv, Controlled
  <1>2. Carrying' /\ OtherBlocksKept'
    BY BeginFacts
  <1>3. Controlled'
    BY <1>1 DEF Controlled, Begin
  <1>4. Commanded'
    BY <1>1 DEF IInv, Commanded, Controlled, InPiece, Begin, At
  <1>5. Accounted'
    <2>1. FirstFree \in Free /\ bufferLock \subseteq Buffers /\ kept \in Nat
      BY FirstFreeIsFree DEF IInv, Accounted
    <2>2. IsFiniteSet(bufferLock) /\ Cardinality(bufferLock) = kept
      BY <1>1, <2>1, LocksAreFinite DEF IInv, Accounted, BuffersAccounted
    <2>3. Cardinality(bufferLock') = kept + 1
      BY <2>1, <2>2, FS_AddElement DEF Free
    <2>. QED
      BY <1>1, <2>1, <2>3 DEF Accounted, BuffersAccounted, Free, Begin
  <1>. QED
    BY <1>2, <1>3, <1>4, <1>5 DEF IInv

LEMMA BlockCallStep ==
    ASSUME IInv, NEW c \in Calls, BlockCall(c)
    PROVE  IInv'
  <1>. USE DEF BlockCall
  <1>1. c # NoCall /\ ~ByBytes' /\ call = NoCall
    BY DEF Calls, NoCall, ByBytes, Begin, IInv, Controlled
  <1>2. \/ c[2][2] = 0 /\ pc' = "return"
        \/ c[2][2] > 0 /\ pc' \in {"blocks", "fault"}
    OBVIOUS
  <1>3. Begin(c) /\ call' = c /\ i' = 0 /\ step' = "start" /\ faults' = 0
    BY DEF Begin
  <1>4. Carrying' /\ OtherBlocksKept'
    BY <1>1, <1>2, <1>3, BeginFacts
  <1>5. Controlled'
    BY <1>1, <1>2, <1>3 DEF Controlled, Size
  <1>6. Commanded'
    BY <1>3 DEF IInv, Commanded, Controlled, InPiece, At
  <1>7. Accounted'
    <2>1. bufferLock \subseteq Buffers /\ kept \in Nat
      BY DEF IInv, Accounted
    <2>2. IsFiniteSet(bufferLock) /\ Cardinality(bufferLock) = kept
      BY <1>1, <2>1, LocksAreFinite DEF IInv, Accounted, BuffersAccounted
    <2>3. CASE Free # {}
      <3>1. FirstFree \in Free
        BY <2>3, FirstFreeIsFree
      <3>2. Cardinality(bufferLock') = kept + 1 /\ kept' = kept + 1
        BY <2>2, <2>3, <3>1, FS_AddElement DEF Free
      <3>. QED
        BY <1>1, <2>1, <2>3, <3>1, <3>2 DEF Accounted, BuffersAccounted, Free
    <2>4. CASE Free = {}
      BY <1>1, <2>1, <2>2, <2>4 DEF Accounted, BuffersAccounted
    <2>. QED
      BY <2>3, <2>4
  <1>. QED
    BY <1>4, <1>5, <1>6, <1>7 DEF IInv

LEMMA ReturnStep ==
    ASSUME IInv, Return
    PROVE  IInv'
  <1>. USE DEF Return, portVars
  <1>1. call # NoCall /\ call' = NoCall /\ ~ByBytes'
    BY DEF IInv, Controlled, NoCall, ByBytes
  <1>2. Controlled'
    BY DEF IInv, Controlled
  <1>3. step = "start"
    BY DEF IInv, Commanded, InPiece
  <1>4. Commanded'
    BY <1>3 DEF IInv, Commanded, At
  <1>5. Carrying'
    BY <1>1, <1>3 DEF IInv, Carrying, Shaped, Paged
  <1>6. OtherBlocksKept'
    BY <1>1 DEF OtherBlocksKept
  <1>7. Accounted'
    <2>1. bufferLock \subseteq Buffers /\ kept \in Nat /\ IsFiniteSet(bufferLock)
      BY LocksAreFinite DEF IInv, Accounted
    <2>2. CASE ByBytes
      <3>1. buffer \in bufferLock /\ Cardinality(bufferLock) = kept + 1
        BY <1>1, <2>2 DEF IInv, Accounted, BuffersAccounted
      <3>2. Cardinality(bufferLock') = Cardinality(bufferLock) - 1
        BY <2>1, <2>2, <3>1, FS_RemoveElement
      <3>. QED
        BY <1>1, <2>1, <2>2, <3>1, <3>2 DEF Accounted, BuffersAccounted
    <2>3. CASE ~ByBytes
      BY <1>1, <2>1, <2>3 DEF IInv, Accounted, BuffersAccounted
    <2>. QED
      BY <2>2, <2>3
  <1>. QED
    BY <1>2, <1>4, <1>5, <1>6, <1>7 DEF IInv

-----------------------------------------------------------------------------
(* The theorems.                                                           *)

LEMMA InitInvariant == Init => IInv
  <1>. SUFFICES ASSUME Init PROVE IInv
    OBVIOUS
  <1>. USE DEF Init
  <1>1. Controlled /\ ~ByBytes
    BY DEF Controlled, NoCall, ByBytes
  <1>2. Commanded
    BY DEF Commanded, CommandType, Places, At
  <1>3. Carrying /\ OtherBlocksKept
    BY DEF Carrying, Shaped, Paged, FreshDisk, FreshPage, OtherBlocksKept
  <1>4. Accounted
    BY <1>1, FS_EmptySet DEF Accounted, BuffersAccounted
  <1>. QED
    BY <1>1, <1>2, <1>3, <1>4 DEF IInv

\* Nothing happens.
LEMMA StutterStep ==
    ASSUME IInv, UNCHANGED vars
    PROVE  IInv'
  <1>. USE DEF vars, portVars, diskVars
  <1>1. /\ Controlled' /\ OtherBlocksKept'
        /\ (call # NoCall => IF Reading THEN Received ELSE Sent)'
    BY SamePlaces DEF IInv, Controlled
  <1>2. Accounted'
    BY SameBuffers DEF IInv
  <1>3. Commanded'
    BY SamePiece DEF IInv, Commanded, At
  <1>4. Shaped' /\ Paged'
    BY SamePiece DEF IInv, Carrying, Shaped, Paged, Carried, At
  <1>. QED
    BY <1>1, <1>2, <1>3, <1>4 DEF IInv, Carrying

LEMMA NextInvariant == IInv /\ [Next]_vars => IInv'
  <1>. SUFFICES ASSUME IInv, [Next]_vars PROVE IInv'
    OBVIOUS
  <1>1. CASE ReadPiece
    BY <1>1, ReadPieceStep
  <1>2. CASE CopyToCaller
    BY <1>2, CopyToCallerStep
  <1>3. CASE WritePiece
    BY <1>3, WritePieceStep
  <1>4. CASE Written
    BY <1>4, WrittenStep
  <1>5. CASE Return
    BY <1>5, ReturnStep
  <1>6. CASE Transfer /\ UNCHANGED diskVars
    BY <1>6, TransferStep
  <1>7. CASE (Issue \/ SpinOut \/ Fail \/ Answer) /\ UNCHANGED diskVars
    BY <1>7, QuietPortStep
  <1>8. ASSUME NEW c \in Calls, ByteCall(c) PROVE IInv'
    BY <1>8, ByteCallStep
  <1>9. ASSUME NEW c \in Calls, BlockCall(c) PROVE IInv'
    BY <1>9, BlockCallStep
  <1>10. CASE UNCHANGED vars
    BY <1>10, StutterStep
  <1>. QED
    BY <1>1, <1>2, <1>3, <1>4, <1>5, <1>6, <1>7, <1>8, <1>9, <1>10
       DEF Next, DiskStep, PortStep

\* At every step of every call, and whatever the device does, the command in the port is
\* the one of the piece in progress, the pieces join without a gap and stay within the call,
\* and the caller's buffer, the page and the disk hold what the pieces before have moved:
\* the loops of DiskDevice.cpp:130 to 355 over AHCIPort.cpp:75 to 214.
THEOREM DiskDeviceInvariant == Spec => []IInv
  BY InitInvariant, NextInvariant, PTL DEF Spec

\* For any block size, disk and calls: when Read or ReadBlocks returns and the device did not
\* fail, the caller has all the bytes asked for, in their order, and nothing behind them.
THEOREM ReadsAreExactTheorem == Spec => []ReadsAreExact
  <1>1. IInv => ReadsAreExact
    <2>. SUFFICES ASSUME IInv, pc = "return", Reading, faults = 0, NEW j \in MemBytes
                  PROVE  mem[j] = IF j < Length THEN First + j ELSE Untouched
      BY DEF ReadsAreExact
    <2>1. Received /\ call \in Calls
      BY DEF IInv, Carrying, Controlled
    <2>2. Done = Length
      BY DEF Done
    <2>3. Length \in Nat /\ j \in Nat
      BY <2>1, ByteCallFacts, BlockCallFacts, PortAssumption, Multiples, ByteFacts DEF Length
    <2>. QED
      BY <2>1, <2>2, <2>3 DEF Received
  <1>. QED
    BY <1>1, DiskDeviceInvariant, PTL

\* For any block size, disk and calls: when Write or WriteBlocks returns and the device did
\* not fail, the first block and the whole blocks have the caller's bytes, and no byte
\* outside of those asked for has changed.
THEOREM WritesLandTheorem == Spec => []WritesLand
  <1>1. IInv => WritesLand
    <2>. SUFFICES ASSUME IInv, pc = "return", ~Reading, faults = 0, NEW p \in DiskBytes
                  PROVE  /\ p \notin First .. (First + Length - 1) => disk[p] = p
                         /\ p \in First .. (First + Length - 1 - (IF ByBytes THEN Excess ELSE 0)) =>
                                disk[p] = Mine(p - First)
      BY DEF WritesLand
    <2>1. Sent /\ call \in Calls
      BY DEF IInv, Carrying, Controlled
    <2>2. Done = Length /\ Landed = IF ByBytes THEN Length - Excess ELSE Length
      BY DEF Done, Landed
    <2>3. /\ Length \in Nat /\ First \in Nat /\ p \in Nat
          /\ ByBytes => Excess \in Nat
      BY <2>1, ByteCallFacts, BlockCallFacts, PortAssumption, Multiples, ByteFacts
    <2>4. ASSUME p \notin First .. (First + Length - 1) PROVE disk[p] = p
      <3>1. p < First \/ p >= First + Length
        BY <2>3, <2>4
      <3>. QED
        BY <2>1, <3>1 DEF Sent
    <2>5. ASSUME p \in First .. (First + Length - 1 - (IF ByBytes THEN Excess ELSE 0))
          PROVE  disk[p] = Mine(p - First)
      <3>1. p >= First /\ p < First + Landed
        BY <2>2, <2>3, <2>5
      <3>. QED
        BY <2>1, <3>1 DEF Sent
    <2>. QED
      BY <2>4, <2>5
  <1>. QED
    BY <1>1, DiskDeviceInvariant, PTL

\* For any block size, disk and calls, and whether or not the device fails: no call changes a
\* block that its bytes are not in, and none that reads changes the disk.
THEOREM OtherBlocksKeptTheorem == Spec => []OtherBlocksKept
  <1>1. IInv => OtherBlocksKept
    BY DEF IInv
  <1>. QED
    BY <1>1, DiskDeviceInvariant, PTL

\* For any number of buffers: Read and Write hold a buffer of their own while they run and
\* give it back on every way out; ReadBlocks and WriteBlocks keep theirs for ever.
THEOREM BuffersAccountedTheorem == Spec => []BuffersAccounted
  <1>1. IInv => BuffersAccounted
    BY DEF IInv, Accounted
  <1>. QED
    BY <1>1, DiskDeviceInvariant, PTL
=============================================================================
