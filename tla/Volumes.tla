------------------------------ MODULE Volumes ------------------------------
(***************************************************************************)
(* The volume manager, and DiskDevice::InitializePartitions: each disk of  *)
(* the first driver gets a volume, the entries of its partition table      *)
(* become partitions, and those that mount themselves get a letter.  What  *)
(* constructing a FAT32 partition reads is in module Fat32.                *)
(***************************************************************************)
EXTENDS Devices

CONSTANTS
    NumMounts,    \* mount points: 26
    NumBuffers    \* page buffers of a disk: 8

ASSUME VolumeAssumption == NumMounts \in 1 .. 255 /\ NumBuffers \in Nat \ {0}

VARIABLES
    volumes,          \* mount point to disk: VolumeManager::Volumes
    partitions,       \* letter to partition: VolumeManager::Partitions
    diskCursor,       \* NextFreeDiskMount
    partitionCursor,  \* NextFreePartitionMount
    mountOf,          \* the letter that a partition was told
    kept,             \* of each disk, the page buffers that ReadBlocks kept
    disk,             \* the disk being mounted: p of InitVolumes
    entry             \* the entry of its partition table

volumeVars == <<volumes, partitions, diskCursor, partitionCursor, mountOf, kept, disk, entry>>

\* A disk is its index in the list of the first driver, a partition its disk and entry.
Letters == 0 .. (NumMounts - 1)
None == <<>>

FirstDriver == drivers[1]
NumDisks == IF drivers = <<>> THEN 0 ELSE Len(disks[1])
Content(d) == Function(FirstDriver).ports[disks[1][d]].disk
Entry(p) == Content(p[1]).entries[p[2]]
Entries == Content(disk).entries
Current == <<disk, entry>>

\* The order of disks and entries, and in Fat32 of clusters and slots.
Before(p, q) == p[1] < q[1] \/ (p[1] = q[1] /\ p[2] < q[2])

VolumesInit ==
    /\ volumes = [m \in Letters |-> 0] /\ partitions = [m \in Letters |-> None]
    /\ diskCursor = 0 /\ partitionCursor = 0
    /\ mountOf = <<>> /\ kept = <<>> /\ disk = 1 /\ entry = 1

-----------------------------------------------------------------------------
(* Mount points.                                                           *)

\* Wrong variant of Wrapped: the cursor is not brought back.
Unwrapped(c) == IF c > NumMounts THEN c - NumMounts ELSE c

Wrapped(c) == IF c >= NumMounts THEN c - NumMounts ELSE c

\* GetNextFreeDiskMount and GetNextFreePartitonMount: the mount point and the new cursor.
\* The cursor is moved past a mount point found at once, and left on one that was searched.
NextFree(cursor, taken) ==
    LET c == Wrapped(cursor)
        Place(k) == (c + k) % NumMounts
        free == {k \in Letters : Place(k) \notin taken}
    IN  IF c \notin taken THEN [mount |-> c, cursor |-> c + 1]
        ELSE IF free # {}
        THEN LET m == Place(Min(free)) IN [mount |-> m, cursor |-> m]
        ELSE [mount |-> 255, cursor |-> Place(NumMounts - 1) + 1]

TakenDisks == {m \in DOMAIN volumes : volumes[m] # 0}
TakenLetters == {m \in DOMAIN partitions : partitions[m] # None}

\* MountPartition without a mount point of the caller's.
MountPartition(p) ==
    LET next == NextFree(partitionCursor, TakenLetters) IN
    /\ partitionCursor' = next.cursor
    /\ IF next.mount < NumMounts
       THEN /\ partitions' = [partitions EXCEPT ![next.mount] = p]
            /\ mountOf' = [q \in DOMAIN mountOf \cup {p} |->
                             IF q = p THEN next.mount ELSE mountOf[q]]
       ELSE UNCHANGED <<partitions, mountOf>>

-----------------------------------------------------------------------------
(* InitVolumes and InitializePartitions.                                   *)

\* ReadBlocks keeps the buffer it takes. Without one it uses whatever Buffer[255] is.
Buffered(d) == kept[d] < NumBuffers
KeepBuffer == kept' = [kept EXCEPT ![disk] = IF Buffered(disk) THEN @ + 1 ELSE @]
BlocksRead(p) == Goto(p) \/ (~Buffered(disk) /\ Goto("fault"))

InitVolumes ==
    /\ place = "volumes" /\ disk = 1 /\ kept = <<>> /\ NumDisks > 0
    /\ kept' = [d \in 1 .. NumDisks |-> 0]
    /\ UNCHANGED <<deviceVars, volumes, partitions, diskCursor, partitionCursor, mountOf,
                   disk, entry>>

\* MountVolume; a disk without a volume is not looked at.
MountVolume ==
    LET next == NextFree(diskCursor, TakenDisks) IN
    /\ place = "volumes" /\ disk \in DOMAIN kept
    /\ diskCursor' = next.cursor
    /\ IF next.mount # 255
       THEN /\ volumes' = [volumes EXCEPT ![next.mount] = disk]
            /\ Goto("header") /\ UNCHANGED disk
       ELSE /\ disk' = disk + 1 /\ UNCHANGED <<volumes, place>>
    /\ UNCHANGED <<machine, at, drivers, disks, partitions, partitionCursor, mountOf, kept, entry>>

\* A disk without a GPT is left alone after its header was read.
ReadHeader ==
    /\ place = "header" /\ KeepBuffer
    /\ IF Content(disk).gpt
       THEN BlocksRead("table") /\ UNCHANGED disk
       ELSE BlocksRead("volumes") /\ disk' = disk + 1
    /\ UNCHANGED <<machine, at, drivers, disks, volumes, partitions, diskCursor,
                   partitionCursor, mountOf, entry>>

ReadTable ==
    /\ place = "table" /\ KeepBuffer /\ BlocksRead("entries") /\ entry' = 1
    /\ UNCHANGED <<machine, at, drivers, disks, volumes, partitions, diskCursor,
                   partitionCursor, mountOf, disk>>

InTable == place = "entries" /\ entry <= Len(Entries)

\* Wrong variant of SkipEntry: the entry is left without counting it.
SkipEntryAgain ==
    /\ InTable /\ Entries[entry].type # "basic"
    /\ UNCHANGED <<deviceVars, volumeVars>>

\* An unused entry, and one of a type of which GPTCreatePartition makes nothing.
SkipEntry ==
    /\ InTable /\ Entries[entry].type # "basic" /\ entry' = entry + 1
    /\ UNCHANGED <<deviceVars, volumes, partitions, diskCursor, partitionCursor, mountOf,
                   kept, disk>>

\* The boot sector of a basic data partition, whatever file system it has.
ReadBootSector ==
    /\ InTable /\ Entries[entry].type = "basic" /\ KeepBuffer
    /\ IF Entries[entry].fat32
       THEN BlocksRead("construct") /\ UNCHANGED entry
       ELSE BlocksRead("entries") /\ entry' = entry + 1
    /\ UNCHANGED <<machine, at, drivers, disks, volumes, partitions, diskCursor,
                   partitionCursor, mountOf, disk>>

\* The flags as the constructor reads them from bits 62 and 63.
Hidden(e) == e.hidden /\ ~e.noAuto
AutoMount(e) == ~e.noAuto

Mountable(e) == AutoMount(e) /\ ~Hidden(e)

\* The partition is constructed; it is mounted if its flags allow.
AddPartition ==
    /\ IF Mountable(Entries[entry])
       THEN MountPartition(Current)
       ELSE UNCHANGED <<partitions, partitionCursor, mountOf>>
    /\ entry' = entry + 1 /\ Goto("entries")
    /\ UNCHANGED <<machine, at, drivers, disks, volumes, diskCursor, kept, disk>>

NextDisk ==
    /\ place = "entries" /\ entry > Len(Entries)
    /\ disk' = disk + 1 /\ Goto("volumes")
    /\ UNCHANGED <<machine, at, drivers, disks, volumes, partitions, diskCursor,
                   partitionCursor, mountOf, kept, entry>>

\* FindDriver found no driver, or its disks are done.
VolumesReady ==
    /\ place = "volumes" /\ disk > NumDisks /\ Goto("screen")
    /\ UNCHANGED <<machine, at, drivers, disks, volumeVars>>

VolumeStep ==
    \/ InitVolumes \/ MountVolume \/ ReadHeader \/ ReadTable
    \/ SkipEntry \/ ReadBootSector \/ NextDisk \/ VolumesReady
=============================================================================
