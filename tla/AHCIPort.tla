------------------------------ MODULE AHCIPort ------------------------------
(***************************************************************************)
(* One port of the AHCI driver: ReadDiskBlock and WriteDiskBlock program   *)
(* the one command they use, wait for the device and return. The device    *)
(* moves whole blocks between the disk and the page it is given. After an  *)
(* error it takes no command until software restarts it, which AHCIPort    *)
(* does only when it is constructed.                                       *)
(***************************************************************************)
EXTENDS Integers

CONSTANTS
    BlockSize,   \* bytes of a block
    DiskBlocks,  \* blocks of the disk
    MaxFaults    \* bound: times the device fails during one call of DiskDevice

ASSUME PortAssumption ==
    BlockSize \in Nat \ {0} /\ DiskBlocks \in Nat \ {0} /\ MaxFaults \in Nat

VARIABLES
    disk,     \* the bytes on the disk
    page,     \* the bytes of the page used as buffer: eight blocks
    command,  \* the command: how far it is, and what it asks for
    halted,   \* the device has stopped after an error
    faults    \* times the device has failed during this call

portVars == <<disk, page, command, halted, faults>>

PageBlocks == 8
DiskBytes == 0 .. (DiskBlocks * BlockSize - 1)
PageBytes == 0 .. (PageBlocks * BlockSize - 1)

\* Places of ReadDiskBlock and WriteDiskBlock; "free" before the call and after it.
Places == {"free", "spinning", "issued", "done", "error"}

\* memcpy(to + at, from + start, len).
Copy(to, at, from, start, len) ==
    [j \in DOMAIN to |-> IF j \in at .. (at + len - 1) THEN from[start + j - at] ELSE to[j]]

At(place) == command.place = place
Goto(place) == command' = [command EXCEPT !.place = place]

\* A call of ReadDiskBlock or WriteDiskBlock, up to its first loop.
Program(write, lba, count) ==
    /\ At("free")
    /\ command' = [place |-> "spinning", write |-> write, lba |-> lba, count |-> count]

\* The device is ready and the command is issued.
Issue == At("spinning") /\ Goto("issued") /\ UNCHANGED <<disk, page, halted, faults>>

\* The device is busy for all of the 1000000 rounds: return false.
SpinOut ==
    /\ At("spinning") /\ faults < MaxFaults
    /\ Goto("free") /\ faults' = faults + 1
    /\ UNCHANGED <<disk, page, halted>>

\* The device carries the command out.
Transfer ==
    LET at == command.lba * BlockSize
        len == command.count * BlockSize
    IN
    /\ At("issued") /\ ~halted /\ Goto("done")
    /\ IF command.write
       THEN disk' = Copy(disk, at, page, 0, len) /\ page' = page
       ELSE page' = Copy(page, 0, disk, at, len) /\ disk' = disk
    /\ UNCHANGED <<halted, faults>>

\* The device reports an error and stops.
Fail ==
    /\ At("issued") /\ ~halted /\ faults < MaxFaults
    /\ Goto("error") /\ halted' = TRUE /\ faults' = faults + 1
    /\ UNCHANGED <<disk, page>>

\* The last loop ends when the command is done or the error bit is set.
Answer ==
    /\ At("done") \/ At("error")
    /\ Goto("free")
    /\ UNCHANGED <<disk, page, halted, faults>>

PortStep == Issue \/ SpinOut \/ Transfer \/ Fail \/ Answer
=============================================================================
