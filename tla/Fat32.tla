------------------------------- MODULE Fat32 -------------------------------
(***************************************************************************)
(* A FAT32 partition: ScanForEntries follows a cluster chain in the FAT,   *)
(* ReadDirectoryEntries lists a directory, ResolveFile goes down a path    *)
(* one directory at a time. Sector numbers are those of the partition; a   *)
(* name is a sequence of pieces of text.                                   *)
(***************************************************************************)
EXTENDS Volumes

CONSTANTS
    EndMark,      \* what marks the end of a chain: 0xFFFFFF
    LowClusters,  \* numbers that fit the low half of a first cluster: 65536
    Heap,         \* FAT entries that may be found behind the sector that was read
    MaxChain      \* bound: clusters of a chain that are told apart

ASSUME FatAssumption ==
    /\ EndMark \in Nat /\ LowClusters \in Nat \ {0} /\ Heap \subseteq Nat
    /\ MaxChain \in Nat \ {0}

VARIABLES
    open,      \* the partition that is read
    chain,     \* ScanForEntries: the clusters found, counted from sector 0
    next,      \* the FAT entry it has read last
    goal,      \* what the chain is for: "mount", "lookup" or "sectors"
    directories,  \* what ReadDirectoryEntries found in it
    path,      \* the path that is resolved
    level,     \* the part of it that is looked for
    cluster,   \* NewClusterPosition
    found,     \* the directory entry of the file
    file,      \* the answer
    astray     \* something was read as a directory that is none

scanVars == <<open, chain, next, goal, directories>>
fatVars == <<scanVars, path, level, cluster, found, file, astray>>

NoFile == [found |-> FALSE, size |-> 0, sectors |-> <<>>]
NoEntry == [cluster |-> 0, size |-> 0]
NoPath == [letter |-> 0, names |-> <<>>]

FatInit ==
    /\ open = None /\ chain = <<>> /\ next = 0 /\ goal = "mount" /\ directories = {}
    /\ path = NoPath /\ level = 1 /\ cluster = 0 /\ found = NoEntry /\ file = NoFile
    /\ astray = FALSE

-----------------------------------------------------------------------------
(* Cluster chains.                                                         *)

\* An image: [reserved, perFAT, numFATs, perCluster, perSector, fat, dirs]. fat holds the
\* entries of the FAT, perSector of them in each sector; dirs[c] is what is in cluster c of
\* a directory.
Image(p) == Entry(p).image
Opened == Image(open)
Base(img) == (img.reserved + img.perFAT * img.numFATs) \div img.perCluster

ToCluster(img, c) == c - 2 + Base(img)

\* Cluster numbers below 2 stand for the root.
FirstCluster(c) == IF c < 2 THEN 2 ELSE c

\* One sector of the FAT is read, the first; entries behind it come from the heap.
ReadFAT(img, c) == IF c < img.perSector THEN {img.fat[c]} ELSE Heap

ForgetScan == open' = None /\ chain' = <<>> /\ next' = 0 /\ goal' = "mount" /\ directories' = {}

\* A chain is begun. Without a buffer the disk reads nothing. PartitionDevice::Read, which
\* is asked, has no return statement (ParitionDevice.cpp:38-40): what DiskDevice::Read has
\* returned is taken for its result, as the build without optimisation leaves it in the register.
BeginScan(p, c, for) ==
    LET first == FirstCluster(c) IN
    /\ open' = p /\ goal' = for /\ directories' = {}
    /\ IF Buffered(p[1])
       THEN /\ Goto("scan") /\ chain' = <<ToCluster(Image(p), first)>>
            /\ next' \in ReadFAT(Image(p), first)
       ELSE /\ Goto(for) /\ chain' = <<>> /\ next' = EndMark

\* The entry after the next is two further than what it says.
FollowChain ==
    LET at2 == (next + 2) % Cardinality(DOMAIN Opened.fat) IN
    /\ place = "scan" /\ next # EndMark
    /\ chain' = IF Len(chain) < MaxChain THEN Append(chain, ToCluster(Opened, next)) ELSE chain
    /\ next' \in ReadFAT(Opened, at2)
    /\ UNCHANGED <<deviceVars, volumeVars, open, goal, directories, path, level, cluster, found, file, astray>>

-----------------------------------------------------------------------------
(* Directories.                                                            *)

\* What sector 0 of a cluster is, and what is read there as a directory.
DataSector(img, c) == img.reserved + img.perFAT * img.numFATs + (c - 2) * img.perCluster
DirectoryAt(img, sector) == {c \in DOMAIN img.dirs : DataSector(img, c) = sector}
Slots(img, k) ==
    LET dir == DirectoryAt(img, k * img.perCluster)
    IN  IF dir = {} THEN <<>> ELSE img.dirs[CHOOSE c \in dir : TRUE]
LeadsAstray(img, clusters) ==
    \E k \in ToSet(clusters) : DirectoryAt(img, k * img.perCluster) = {}

\* Entries that are listed. Free slots are skipped, and the test for parts of long names only
\* looks at the bit that they share with read-only entries.
Lists(slot) == slot.kind = "rde" /\ ~slot.readOnly
IsPart(slot) == slot.kind = "lfn" \/ (slot.kind = "rde" /\ slot.readOnly)

\* Wrong variant of Longs: what has been collected is kept for the next entry.
LongsKept(slots, j) == {i \in 1 .. (j - 1) : IsPart(slots[i])}

\* The parts of a long name that have been collected when slot j is listed: all since the
\* entry listed before it in this cluster.
Longs(slots, j) == {i \in 1 .. (j - 1) : IsPart(slots[i]) /\ \A k \in i .. (j - 1) : ~Lists(slots[k])}

\* A listing: for each entry the number of its cluster in the chain, and of its slot.
ReadDirectoryEntries ==
    UNION {{<<k, j>> : j \in {i \in DOMAIN Slots(Opened, chain[k]) : Lists(Slots(Opened, chain[k])[i])}} :
               k \in DOMAIN chain}

\* The chain ends. If it is a directory's, its entries are read.
EndScan ==
    /\ place = "scan" /\ next = EndMark /\ Goto(goal)
    /\ directories' = IF goal = "sectors" THEN {} ELSE ReadDirectoryEntries
    /\ UNCHANGED <<machine, at, drivers, disks, volumeVars, open, chain, next, goal, path,
                   level, cluster, found, file, astray>>

SlotsAt(e) == Slots(Opened, chain[e[1]])
EntryAt(e) == SlotsAt(e)[e[2]]

\* A long name, its parts from last to first.
FromLast(S, k) == CHOOSE i \in S : Cardinality({j \in S : j > i}) = k - 1
LongName(slots, longs) == FlattenSeq([k \in 1 .. Cardinality(longs) |-> slots[FromLast(longs, k)].text])

\* A short name in lower case. The dot of a file's name takes the place of the first space:
\* a name of eight letters has it behind the extension, and with three more has none, but
\* a letter that was not written.
IsShortName(rde, name) ==
    \/ rde.dir /\ name = rde.base \o rde.ext
    \/ ~rde.dir /\ rde.short /\ name = rde.base \o <<".">> \o rde.ext
    \/ ~rde.dir /\ ~rde.short /\ ~rde.fullExt /\ name = rde.base \o rde.ext \o <<".">>

\* A read-only entry among the parts of a long name is not text.
IsNamed(slots, j, name) ==
    LET longs == Longs(slots, j)
    IN  IF longs = {} THEN IsShortName(slots[j], name)
        ELSE (\A i \in longs : slots[i].kind = "lfn") /\ name = LongName(slots, longs)

Names == path.names
AtLast == level = Len(Names)

\* Wrong variant of Candidate: directories are files as well.
CandidateOfAnyKind(rde) == ~rde.system /\ (AtLast \/ rde.dir)

\* Files are looked for at the end of the path, directories before.
Candidate(rde) == ~rde.system /\ (rde.dir <=> ~AtLast)

Matches ==
    {e \in directories : Candidate(EntryAt(e)) /\ IsNamed(SlotsAt(e), e[2], Names[level])}
FirstOf(S) == CHOOSE e \in S : \A other \in S \ {e} : Before(e, other)
LastOf(S) == CHOOSE e \in S : \A other \in S \ {e} : Before(other, e)

\* The high half of the cluster's number is masked away.
NewCluster(rde) == rde.cluster % LowClusters

-----------------------------------------------------------------------------
(* The constructor, and ResolveFile.                                       *)

\* The constructor reads the root for the volume's name.
Construct ==
    /\ place = "construct"
    /\ BeginScan(Current, 0, "mount")
    /\ UNCHANGED <<machine, at, drivers, disks, volumeVars, path, level, cluster, found, file, astray>>

\* It looks at the first entry, and there may be none.
Constructed ==
    /\ place = "mount"
    /\ \/ AddPartition
       \/ /\ chain # <<>> /\ (directories = {} \/ LeadsAstray(Opened, chain))
          /\ Goto("fault") /\ UNCHANGED <<machine, at, drivers, disks, volumeVars>>
    /\ ForgetScan
    /\ UNCHANGED <<path, level, cluster, found, file, astray>>

\* VolumeManager::ResolveFile, and the first part of the partition's. A letter in front of
\* "A" is looked up in front of the letters' table.
Resolve(p) ==
    /\ path' = p /\ level' = 1 /\ cluster' = 0 /\ found' = NoEntry /\ file' = NoFile
    /\ astray' = FALSE
    /\ LET q == IF p.letter \in Letters THEN partitions[p.letter] ELSE None IN
       IF q # None /\ mountOf[q] = p.letter
       THEN BeginScan(q, 0, "lookup")
       ELSE /\ Goto("return") \/ (p.letter < 0 /\ Goto("fault"))
            /\ UNCHANGED scanVars
    /\ UNCHANGED <<machine, at, drivers, disks, volumeVars>>

LookUp == place = "lookup" /\ chain # <<>> /\ ~LeadsAstray(Opened, chain)

\* What is read is no directory: it may look like any.
ReadNoDirectory ==
    /\ place = "lookup" /\ chain # <<>> /\ LeadsAstray(Opened, chain)
    /\ place' \in {"return", "fault"} /\ file' \in {NoFile, [NoFile EXCEPT !.found = TRUE]}
    /\ astray' = TRUE
    /\ UNCHANGED <<machine, at, drivers, disks, volumeVars, scanVars, path, level, cluster, found>>

\* The first file of that name; its sectors are looked for.
FindFile ==
    /\ LookUp /\ AtLast /\ Matches # {}
    /\ LET rde == EntryAt(FirstOf(Matches)) IN
       /\ found' = [cluster |-> rde.cluster, size |-> rde.size]
       /\ cluster' = NewCluster(rde)
       /\ BeginScan(open, NewCluster(rde), "sectors")
    /\ UNCHANGED <<machine, at, drivers, disks, volumeVars, path, level, file, astray>>

\* Not the last part: the last directory of that name, or none - and then the position
\* stays what it was.
EnterDirectory ==
    /\ LookUp /\ ~AtLast
    /\ cluster' = IF Matches = {} THEN cluster ELSE NewCluster(EntryAt(LastOf(Matches)))
    /\ level' = level + 1 /\ BeginScan(open, cluster', "lookup")
    /\ UNCHANGED <<machine, at, drivers, disks, volumeVars, path, found, file, astray>>

\* No file of that name, or nothing could be read.
FindNothing ==
    /\ \/ LookUp /\ AtLast /\ Matches = {}
       \/ place = "lookup" /\ chain = <<>>
    /\ Goto("return")
    /\ UNCHANGED <<machine, at, drivers, disks, volumeVars, fatVars>>

\* The sectors of each cluster, in a row.
SectorsOf(img, clusters) ==
    [s \in 1 .. (Len(clusters) * img.perCluster) |->
        clusters[(s - 1) \div img.perCluster + 1] * img.perCluster + ((s - 1) % img.perCluster)]

AnswerFile ==
    /\ place = "sectors"
    /\ file' = [found |-> TRUE, size |-> found.size, sectors |-> SectorsOf(Opened, chain)]
    /\ Goto("return")
    /\ UNCHANGED <<machine, at, drivers, disks, volumeVars, scanVars, path, level, cluster, found,
                   astray>>

FatStep ==
    \/ FollowChain \/ EndScan \/ Construct \/ Constructed
    \/ ReadNoDirectory \/ FindFile \/ EnterDirectory \/ FindNothing \/ AnswerFile
=============================================================================
