----------------------------- MODULE DiskDevice -----------------------------
(***************************************************************************)
(* A disk: Read and Write of bytes, ReadBlocks and WriteBlocks, each cut   *)
(* into pieces that fit the page buffer and go through the AHCI port.      *)
(* One call at a time, as KernelStage2 makes them.                         *)
(***************************************************************************)
EXTENDS AHCIPort, FiniteSets

CONSTANTS
    NumBuffers,  \* page buffers of the disk: 8
    ByteCalls,   \* <<offset, size>> of calls of Read and Write
    BlockCalls   \* <<lba, count>> of calls of ReadBlocks and WriteBlocks

\* A call reaches at least the end of the first block it touches, and stays on the disk:
\* the callers read whole sectors, clusters, and files longer than a block.
ASSUME CallAssumption ==
    /\ NumBuffers \in Nat \ {0}
    /\ \A c \in ByteCalls :
         /\ c \in Nat \X Nat
         /\ c[2] >= BlockSize - (c[1] % BlockSize) /\ c[1] + c[2] <= DiskBlocks * BlockSize
    /\ \A c \in BlockCalls : c \in Nat \X Nat /\ c[1] + c[2] <= DiskBlocks

VARIABLES
    bufferLock,  \* buffers that are taken
    call,        \* the call in progress
    buffer,      \* its buffer: a number, or 255
    pc,          \* the part of the call: idle, first, loop, slow, tail, blocks, return, fault
    step,        \* of the piece in progress: "start", "read" or "written"
    i,           \* blocks done, the loop variable
    mem,         \* the bytes of the caller's buffer
    kept         \* calls of ReadBlocks and WriteBlocks that got a buffer

diskVars == <<bufferLock, call, buffer, pc, step, i, mem, kept>>
vars == <<portVars, diskVars>>

Buffers == 0 .. (NumBuffers - 1)
NoBuffer == 255
Calls == ({"Read", "Write"} \X ByteCalls) \cup ({"ReadBlocks", "WriteBlocks"} \X BlockCalls)
NoCall == <<"none", <<0, 0>>>>

Reading == call[1] \in {"Read", "ReadBlocks"}
ByBytes == call[1] \in {"Read", "Write"}

\* Bytes are told apart by where they come from: place p of the disk is p, place j of the
\* caller's buffer Mine(j) when it writes. A spare block follows the caller's buffer.
Untouched == -1
Stale == -2
Mine(j) == 1000 + j
MaxLength == DiskBlocks * BlockSize
MemBytes == 0 .. (MaxLength + BlockSize - 1)
FreshDisk == [p \in DiskBytes |-> p]
FreshPage == [j \in PageBytes |-> Stale]

-----------------------------------------------------------------------------
(* The pieces of a call.                                                   *)

Offset == call[2][1]
Size == call[2][2]
StartLBA == Offset \div BlockSize
OffsetInLBA == Offset % BlockSize
SizeWithinFirstLBA == BlockSize - OffsetInLBA
Blocks == (Size - SizeWithinFirstLBA) \div BlockSize
Excess == (Size - SizeWithinFirstLBA) - BlockSize * Blocks

\* The loop of Read and Write: a round with more than four blocks to go begins with a
\* chunk of eight or four, and goes on with one or two blocks, from its last block on.
Fast(rest) == IF rest > 8 THEN 8 ELSE 4
Slow(rest) == IF rest > 2 THEN 2 ELSE 1
InChunk == pc = "loop" /\ Blocks - i > 4
InSlow == pc = "slow" \/ (pc = "loop" /\ Blocks - i <= 4)

\* Wrong variant of Largest: the smallest that is enough.
SmallestEnough(rest) ==
    CHOOSE n \in {8, 4, 2, 1} :
        (n >= rest \/ n = 8) /\ \A k \in {8, 4, 2, 1} : k < n => k < rest

\* ReadBlocks and WriteBlocks: the largest of 8, 4, 2 and 1 that is not too much.
Largest(rest) == CHOOSE n \in {8, 4, 2, 1} : n <= rest /\ \A k \in {8, 4, 2, 1} : k <= rest => k <= n

Piece(lba, count, inPage, inMem, len) ==
    [lba |-> lba, count |-> count, inPage |-> inPage, inMem |-> inMem, len |-> len]

\* Wrong variant of Chunk: the first block is counted twice.
ChunkWithFirst(count) ==
    Piece(StartLBA + i, count, 0, SizeWithinFirstLBA + i * BlockSize, count * BlockSize)

Chunk(count) ==
    Piece(StartLBA + 1 + i, count, 0, SizeWithinFirstLBA + i * BlockSize, count * BlockSize)

\* Write copies the excess from the start of the caller's buffer (line 261).
TailStart == IF Reading THEN SizeWithinFirstLBA + Blocks * BlockSize ELSE 0

Current ==
    CASE pc = "first" -> Piece(StartLBA, 1, OffsetInLBA, 0, SizeWithinFirstLBA)
      [] InChunk -> Chunk(Fast(Blocks - i))
      [] InSlow -> Chunk(Slow(Blocks - i))
      [] pc = "tail" -> Piece(StartLBA + 1 + Blocks, 1, 0, TailStart, Excess)
      [] pc = "blocks" ->
           LET n == Largest(Size - i)
           IN  Piece(Offset + i, n, 0, i * BlockSize, n * BlockSize)

\* Wrong variant of Partial: the first block is written without being read.
OnlyTailPartial == pc = "tail"

\* The first block and the excess are read before they are written.
Partial == pc \in {"first", "tail"}

GoOn(part, blocks) ==
    /\ i' = blocks /\ step' = "start"
    /\ pc' = CASE part = "loop" /\ blocks >= Blocks -> IF Excess > 0 THEN "tail" ELSE "return"
               [] part = "blocks" /\ blocks >= Size -> "return"
               [] OTHER -> part

\* Wrong variant of Advance: a round that is not fast does not count its last block.
AdvanceShort ==
    CASE pc = "first" -> GoOn("loop", 0)
      [] InChunk -> GoOn("slow", i + Fast(Blocks - i) - 1)
      [] InSlow -> GoOn("loop", i + Slow(Blocks - i) - 1)
      [] pc = "tail" -> GoOn("return", i)
      [] pc = "blocks" -> GoOn("blocks", i + Largest(Size - i))

Advance ==
    CASE pc = "first" -> GoOn("loop", 0)
      [] InChunk -> GoOn("slow", i + Fast(Blocks - i) - 1)
      [] InSlow -> GoOn("loop", i + Slow(Blocks - i))
      [] pc = "tail" -> GoOn("return", i)
      [] pc = "blocks" -> GoOn("blocks", i + Largest(Size - i))

-----------------------------------------------------------------------------
(* The steps of a call.                                                    *)

Init ==
    /\ disk = FreshDisk /\ page = FreshPage /\ halted = FALSE /\ faults = 0
    /\ command = [place |-> "free", write |-> FALSE, lba |-> 0, count |-> 0]
    /\ bufferLock = {} /\ buffer = NoBuffer /\ pc = "idle" /\ step = "start" /\ i = 0
    /\ call = NoCall /\ mem = [j \in MemBytes |-> Untouched] /\ kept = 0

\* GetBuffer: the first that is free.
Free == Buffers \ bufferLock
FirstFree == CHOOSE b \in Free : \A a \in Free : b <= a

\* A call begins. Its bytes, and those of the disk and the pages, are given new names:
\* nothing that is read decides what is done next.
Begin(c) ==
    /\ call' = c /\ faults' = 0
    /\ disk' = FreshDisk /\ page' = FreshPage
    /\ mem' = [j \in MemBytes |-> IF c[1] \in {"Write", "WriteBlocks"} THEN Mine(j) ELSE Untouched]
    /\ i' = 0 /\ step' = "start"

\* Read and Write answer NULL and -1 without a buffer.
ByteCall(c) ==
    /\ pc = "idle" /\ c[1] \in {"Read", "Write"} /\ Free # {}
    /\ Begin(c) /\ pc' = "first"
    /\ buffer' = FirstFree /\ bufferLock' = bufferLock \cup {FirstFree}
    /\ UNCHANGED <<command, halted, kept>>

\* ReadBlocks and WriteBlocks compare the number, in a uint8_t, with -1: without a buffer
\* they go on with whatever Buffer[255] is, a page they can use or none.
BlockCall(c) ==
    /\ pc = "idle" /\ c[1] \in {"ReadBlocks", "WriteBlocks"}
    /\ Begin(c)
    /\ \/ c[2][2] = 0 /\ pc' = "return"
       \/ c[2][2] > 0 /\ pc' \in (IF Free # {} THEN {"blocks"} ELSE {"blocks", "fault"})
    /\ IF Free # {}
       THEN /\ buffer' = FirstFree /\ bufferLock' = bufferLock \cup {FirstFree}
            /\ kept' = kept + 1
       ELSE /\ buffer' = NoBuffer /\ UNCHANGED <<bufferLock, kept>>
    /\ UNCHANGED <<command, halted>>

InPiece == pc \notin {"idle", "return", "fault"}

\* A piece that is read, or read to be modified.
ReadPiece ==
    /\ InPiece /\ step = "start" /\ (Reading \/ Partial)
    /\ Program(FALSE, Current.lba, Current.count) /\ step' = "read"
    /\ UNCHANGED <<disk, page, halted, faults, bufferLock, call, buffer, pc, i, mem, kept>>

\* What was read goes to the caller. The answer of ReadDiskBlock is not looked at.
CopyToCaller ==
    /\ InPiece /\ step = "read" /\ At("free") /\ Reading
    /\ mem' = Copy(mem, Current.inMem, page, Current.inPage, Current.len)
    /\ Advance
    /\ UNCHANGED <<portVars, bufferLock, call, buffer, kept>>

\* What the caller writes goes to the page, and the page to the disk.
WritePiece ==
    /\ InPiece /\ ~Reading
    /\ step = IF Partial THEN "read" ELSE "start"
    /\ Program(TRUE, Current.lba, Current.count) /\ step' = "written"
    /\ page' = Copy(page, Current.inPage, mem, Current.inMem, Current.len)
    /\ UNCHANGED <<disk, halted, faults, bufferLock, call, buffer, pc, i, mem, kept>>

Written ==
    /\ InPiece /\ step = "written" /\ At("free") /\ Advance
    /\ UNCHANGED <<portVars, bufferLock, call, buffer, mem, kept>>

\* Wrong variant of Return: Read and Write keep their buffer as well.
ReturnUnrelieved ==
    /\ pc = "return" /\ pc' = "idle" /\ buffer' = NoBuffer
    /\ call' = NoCall /\ UNCHANGED <<portVars, bufferLock, step, i, mem, kept>>

\* RelieveBuffer, which ReadBlocks and WriteBlocks do not call.
Return ==
    /\ pc = "return" /\ pc' = "idle" /\ buffer' = NoBuffer
    /\ bufferLock' = IF ByBytes THEN bufferLock \ {buffer} ELSE bufferLock
    /\ call' = NoCall /\ UNCHANGED <<portVars, step, i, mem, kept>>

DiskStep ==
    \/ ReadPiece \/ CopyToCaller \/ WritePiece \/ Written \/ Return
    \/ PortStep /\ UNCHANGED diskVars

Next == DiskStep \/ \E c \in Calls : ByteCall(c) \/ BlockCall(c)

Spec == Init /\ [][Next]_vars

\* The caller goes on, and the device answers one way or the other.
FairSpec == Spec /\ WF_vars(DiskStep)
-----------------------------------------------------------------------------
(* Properties.                                                             *)

\* The bytes a call is about, and the blocks they are in.
First == IF ByBytes THEN Offset ELSE Offset * BlockSize
Length == IF ByBytes THEN Size ELSE Size * BlockSize
TouchedBlocks == (First \div BlockSize) .. ((First + Length - 1) \div BlockSize)

\* When Read or ReadBlocks returns and the device did not fail, the caller has the bytes
\* asked for, all of them and in their order, and nothing behind them has been written.
ReadsAreExact ==
    pc = "return" /\ Reading /\ faults = 0 =>
        \A j \in MemBytes : mem[j] = IF j < Length THEN First + j ELSE Untouched

\* When Write or WriteBlocks returns and the device did not fail, the first block and the
\* whole blocks have the caller's bytes, and no byte outside of those asked for has changed,
\* not even in a block of which a part was written. The bytes of the last block of a Write
\* are the subject of WritesAreExact.
WritesLand ==
    pc = "return" /\ ~Reading /\ faults = 0 =>
        \A p \in DiskBytes :
            /\ p \notin First .. (First + Length - 1) => disk[p] = p
            /\ p \in First .. (First + Length - 1 - (IF ByBytes THEN Excess ELSE 0)) =>
                   disk[p] = Mine(p - First)

\* When Write returns and the device did not fail, the disk has the caller's bytes, the
\* last of them included ("Write that last excess bit", DiskDevice.cpp:255).
WritesAreExact ==
    pc = "return" /\ ~Reading /\ faults = 0 =>
        \A p \in First .. (First + Length - 1) : disk[p] = Mine(p - First)

\* At no time, and whether or not the device fails, has a call changed a block that its
\* bytes are not in; a call that reads has changed none.
OtherBlocksKept ==
    call # NoCall =>
        \A p \in DiskBytes :
            Reading \/ p \div BlockSize \notin TouchedBlocks => disk[p] = p

\* Read and Write use a buffer that is theirs, and give it back on every way out, also
\* after the device failed; ReadBlocks and WriteBlocks keep theirs for ever.
BuffersAccounted ==
    /\ call # NoCall /\ ByBytes => buffer \in bufferLock
    /\ Cardinality(bufferLock) = kept + (IF call # NoCall /\ ByBytes THEN 1 ELSE 0)

\* Every call returns, unless Buffer[255] was no page or it waits for a device that has
\* stopped after an error: the last loop has no limit, and neither the loop in the port
\* nor the one in DiskDevice ends early when the device is busy for too long.
Stuck == pc = "fault" \/ (halted /\ At("issued"))
CallsReturn == (call # NoCall) ~> (call = NoCall \/ Stuck)
=============================================================================
