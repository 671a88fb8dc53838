------------------------------ MODULE Storage ------------------------------
(***************************************************************************)
(* The storage stack, from the firmware's tables to a file: kernelMain     *)
(* finds the disks, KernelStage2 mounts them and draws the boot screen     *)
(* from a file, and from then on processes resolve paths.                  *)
(***************************************************************************)
EXTENDS Fat32

CONSTANTS
    Icon,   \* the path of the boot screen's picture
    Paths   \* paths that processes resolve

\* A path without a slash is left out: ResolveFile counts one directory less than slashes,
\* and the count wraps (FATPartition.cpp:90).
ASSUME PathAssumption ==
    \A p \in Paths \cup {Icon} :
        p.letter \in Int /\ IsSequence(p.names) /\ Len(p.names) > 0

VARIABLES
    caller,  \* who resolves: "boot", "process" or "none"
    drawn    \* the sectors read for the boot screen

vars == <<deviceVars, volumeVars, fatVars, caller, drawn>>

Init ==
    /\ DevicesInit /\ VolumesInit /\ FatInit
    /\ caller = "none" /\ drawn = <<>>

DrawBootScreen ==
    /\ place = "screen" /\ Resolve(Icon) /\ caller' = "boot" /\ UNCHANGED drawn

\* System call 6 of a process.
SysResolveFile(p) ==
    /\ place = "running" /\ Resolve(p) /\ caller' = "process" /\ UNCHANGED drawn

\* Wrong variant of ReadPicture: one cluster is missing.
ReadPictureShort ==
    [k \in 1 .. ((file.size - 1) * Opened.perCluster) |-> file.sectors[1] + k - 1]

\* The picture is read as one piece, from the first of its sectors on. Sizes are counted in
\* clusters.
ReadPicture == [k \in 1 .. (file.size * Opened.perCluster) |-> file.sectors[1] + k - 1]

Return ==
    /\ place = "return" /\ Goto("running") /\ caller' = "none"
    /\ drawn' = IF caller = "boot" /\ file.found /\ ~astray THEN ReadPicture ELSE drawn
    /\ ForgetScan /\ path' = NoPath /\ level' = 1 /\ cluster' = 0 /\ found' = NoEntry /\ file' = NoFile /\ astray' = FALSE
    /\ UNCHANGED <<machine, at, drivers, disks, volumeVars>>

StorageStep ==
    \/ DeviceStep /\ UNCHANGED <<volumeVars, fatVars, caller, drawn>>
    \/ VolumeStep /\ UNCHANGED <<fatVars, caller, drawn>>
    \/ FatStep /\ UNCHANGED <<caller, drawn>>
    \/ DrawBootScreen \/ Return

Next == StorageStep \/ \E p \in Paths : SysResolveFile(p)

Spec == Init /\ [][Next]_vars

\* The CPU goes on, and a device that stops does so in the end.
FairSpec == Spec /\ WF_vars(StorageStep)
-----------------------------------------------------------------------------
(* What a path names, by the rules of FAT: long names only where there are *)
(* parts, short names with a dot if there is an extension.  Directories    *)
(* that the code can reach are one cluster each (Reachable).               *)

Clusters(img) == DOMAIN img.fat \ {0, 1}

\* The cluster after k more: Follow(img, c)[k].
Follow(img, c) ==
    LET f[k \in 0 .. Cardinality(Clusters(img))] ==
            IF k = 0 THEN c
            ELSE LET before == f[k - 1]
                 IN  IF before \in Clusters(img) THEN img.fat[before] ELSE EndMark
    IN  f
ClustersOf(img, c) ==
    LET f == Follow(img, c)
    IN  SelectSeq([k \in 1 .. Cardinality(Clusters(img)) |-> f[k - 1]],
                  LAMBDA x : x \in Clusters(img))

\* Whether slot j is an entry of that name: the parts of a long name in front of it, or the
\* short name, whose dot may be written even if there is no extension.
Named(slots, j, name) ==
    LET parts == {i \in 1 .. (j - 1) : \A k \in i .. (j - 1) : slots[k].kind = "lfn"}
        rde == slots[j]
    IN  /\ rde.kind = "rde"
        /\ IF parts # {}
           THEN name = FlattenSeq([k \in 1 .. Cardinality(parts) |-> slots[j - k].text])
           ELSE \/ name = rde.base \o <<".">> \o rde.ext
                \/ rde.ext = <<>> /\ name = rde.base

\* Files or directories of a name. The volume's label counts as a file.
RealEntries(img, c, name, dir) ==
    {img.dirs[c][j] : j \in {i \in DOMAIN img.dirs[c] :
        Named(img.dirs[c], i, name) /\ ~img.dirs[c][i].system /\ img.dirs[c][i].dir = dir}}

\* The ways through directories along a path, and the files at their ends.
Ways(img, names) ==
    {w \in [0 .. (Len(names) - 1) -> DOMAIN img.dirs] :
        /\ w[0] = 2
        /\ \A k \in 1 .. (Len(names) - 1) :
             w[k] \in {FirstCluster(e.cluster) : e \in RealEntries(img, w[k - 1], names[k], TRUE)}}
NamedFiles(img, names) ==
    UNION {RealEntries(img, w[Len(names) - 1], Last(names), FALSE) : w \in Ways(img, names)}
DirectoriesExist(img, names) == Ways(img, names) # {}

\* Images whose directories the code can reach: the data begins at a multiple of a cluster,
\* and each directory is one cluster with a number that fits the low half and an entry in
\* the first sector of the FAT.
Reachable(img) ==
    /\ (img.reserved + img.perFAT * img.numFATs) % img.perCluster = 0
    /\ \A c \in DOMAIN img.dirs :
        c < LowClusters /\ c < img.perSector /\ img.fat[c] = EndMark

\* And whose names it can spell: nothing is read-only, and what has one of these names
\* has a long name, or is a directory without extension whose name is written without a dot,
\* or a file with an extension and a short base.
WellNamed(img, names) ==
    \A c \in DOMAIN img.dirs : \A j \in DOMAIN img.dirs[c] :
        LET slot == img.dirs[c][j] IN
        /\ slot.kind = "rde" => ~slot.readOnly
        /\ \A n \in ToSet(names) : Named(img.dirs[c], j, n) =>
               \/ j > 1 /\ img.dirs[c][j - 1].kind = "lfn"
               \/ slot.dir /\ slot.ext = <<>> /\ n = slot.base
               \/ ~slot.dir /\ slot.short /\ slot.ext # <<>>

\* And as FAT drivers write them: the parts of a long name are followed by its entry at once,
\* a directory's name is given once, directories lead to directories, and what has contents
\* has a first cluster. None of the names is how IsShortName misspells a short one.
OrdinaryDirectory(img, slots, names) ==
    /\ IsSequence(slots)
    /\ \A j \in DOMAIN slots :
         /\ slots[j].kind \in {"free", "lfn", "rde"}
         /\ slots[j].kind = "lfn" => j < Len(slots) /\ slots[j + 1].kind # "free"
         /\ slots[j].kind = "rde" =>
              /\ slots[j].dir \in BOOLEAN /\ slots[j].cluster \in Nat /\ slots[j].size \in Nat
              /\ slots[j].dir => FirstCluster(slots[j].cluster) \in DOMAIN img.dirs
              /\ slots[j].size > 0 => slots[j].cluster >= 2
              /\ IsSequence(slots[j].base) /\ IsSequence(slots[j].ext)
              /\ slots[j].ext # <<>> =>
                   {slots[j].base \o slots[j].ext, slots[j].base \o slots[j].ext \o <<".">>} \cap ToSet(names) = {}
    /\ \A n \in ToSet(names) : \A i, j \in DOMAIN slots :
         Named(slots, i, n) /\ Named(slots, j, n) /\ slots[i].dir /\ slots[j].dir =>
            slots[i].cluster = slots[j].cluster

Ordinary(img, names) ==
    /\ img.perCluster \in Nat \ {0} /\ img.reserved + img.perFAT * img.numFATs \in Nat
    /\ 2 \in DOMAIN img.dirs /\ DOMAIN img.dirs \subseteq Nat \ {0, 1}
    /\ \A c \in DOMAIN img.dirs : OrdinaryDirectory(img, img.dirs[c], names)

\* All that the code relies on to find what a path of these names leads to.
Regular(img, names) == Reachable(img) /\ WellNamed(img, names) /\ Ordinary(img, names)

-----------------------------------------------------------------------------
(* Properties.                                                             *)

Answered == place = "return" /\ open # None
Asked == path.names
FirstSectors(img, c) == [s \in 1 .. img.perCluster |-> DataSector(img, c) + s - 1]

\* What VolumeManager ought to mount: the partitions of the first driver's SATA ports that
\* mount themselves, as long as the disk has a mount point; and the order of ports and entries.
ShouldMount ==
    {p \in UNION {{<<d, e>> : e \in IF Content(d).gpt THEN DOMAIN Content(d).entries ELSE {}} :
                      d \in {n \in 1 .. NumDisks : n <= NumMounts}} :
        Entry(p).type = "basic" /\ Entry(p).fat32 /\ ~Entry(p).noAuto /\ ~Entry(p).hidden}
Rank(S, p) == Cardinality({q \in S : Before(q, p)})

\* When the volumes are ready, every FAT32 partition that mounts itself has a letter of its
\* own and knows it, in the order of disks and entries, as long as there are letters; and
\* every disk has a volume, as long as there are mount points. The cursors, which wrap in
\* one place and count on in others, refuse nobody and overwrite nothing.
MountsAreExact ==
    place \in {"screen", "running", "return"} =>
        /\ \A p \in ShouldMount :
             Rank(ShouldMount, p) \in Letters => partitions[Rank(ShouldMount, p)] = p
        /\ \A m \in Letters :
             /\ partitions[m] # None =>
                    /\ partitions[m] \in ShouldMount /\ Rank(ShouldMount, partitions[m]) = m
                    /\ mountOf[partitions[m]] = m
             /\ volumes[m] = IF m < NumDisks THEN m + 1 ELSE 0

\* A file that ResolveFile finds is one that the path names, whenever the image is regular
\* for it and the directories of the path exist: its size is that of the entry, and its first cluster is
\* where the entry says.
FoundIsNamed ==
    Answered /\ file.found /\ Regular(Opened, Asked) /\ DirectoriesExist(Opened, Asked) =>
        \E e \in NamedFiles(Opened, Asked) :
            /\ file.size = e.size
            /\ e.cluster \in 2 .. (LowClusters - 1) =>
                   SubSeq(file.sectors, 1, Opened.perCluster) = FirstSectors(Opened, e.cluster)

\* A file that the path names is found, whenever the disk has a page buffer left and the
\* image is regular for the path.
NamedIsFound ==
    Answered /\ Buffered(open[1]) /\ Regular(Opened, Asked)
             /\ NamedFiles(Opened, Asked) # {} =>
        file.found

\* The boot screen's picture is read from its own clusters when they are in a row, although
\* the list of sectors in the answer may be wrong then; in a regular image.
PictureIsExact ==
    drawn # <<>> => \A img \in {Image(partitions[Icon.letter])} :
        Regular(img, Icon.names) /\ DirectoriesExist(img, Icon.names) =>
        \E e \in NamedFiles(img, Icon.names) :
            e.cluster < LowClusters /\ (\A k \in 1 .. Len(ClustersOf(img, e.cluster)) :
                    ClustersOf(img, e.cluster)[k] = e.cluster + k - 1) =>
                drawn = [s \in 1 .. (e.size * img.perCluster) |-> DataSector(img, e.cluster) + s - 1]

\* Boot reaches the end, and every call returns, unless a port never stops, something was
\* read where nothing is, or a chain does not end.
Stuck ==
    \/ place = "fault" \/ (place = "stopping" /\ Port.stubborn)
    \/ place = "scan" /\ Len(chain) = MaxChain
CallsReturn == (place # "running") ~> (place = "running" \/ Stuck)

\* ScanForEntries adds the next entry of the chain ("Add the next entry", FAT.cpp:57): the
\* sectors of a file are those of its clusters, whenever their entries are in the sector of
\* the FAT that is read, in a regular image.
SectorsAreTheFiles ==
    Answered /\ file.found /\ Regular(Opened, Asked) /\ DirectoriesExist(Opened, Asked) =>
        \E e \in NamedFiles(Opened, Asked) :
            (\A c \in ToSet(ClustersOf(Opened, e.cluster)) : c < Opened.perSector) =>
                file.sectors = FlattenSeq([k \in DOMAIN ClustersOf(Opened, e.cluster) |->
                                   FirstSectors(Opened, ClustersOf(Opened, e.cluster)[k])])

\* A file is found only where the path names one ("Only entry needed (File is found)",
\* FATPartition.cpp:248).
MissingIsNotFound ==
    Answered /\ file.found /\ Regular(Opened, Asked) => NamedFiles(Opened, Asked) # {}

\* FoundIsNamed and NamedIsFound of images that are not Ordinary. It does not hold: free
\* slots do not end the collection of parts (Directory.cpp:33-38), so that parts without an
\* entry rename the next one behind them; and a short name of eight letters is found with its
\* dot behind the extension, a directory's without one (FATPartition.cpp:193-239).
FoundIffNamed ==
    Answered /\ Buffered(open[1]) /\ Reachable(Opened) /\ WellNamed(Opened, Asked)
             /\ DirectoriesExist(Opened, Asked) =>
        (file.found <=> NamedFiles(Opened, Asked) # {})
=============================================================================
