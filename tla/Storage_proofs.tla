--------------------------- MODULE Storage_proofs ---------------------------
(***************************************************************************)
(* Mount points of disks and letters of partitions, for any machine and    *)
(* any number of mount points: MountsAreExactTheorem.  The walk over       *)
(* buses, devices and ports leaves a list of disks that each have a driver *)
(* and a SATA port (Walk); mounting keeps letters and cursors in step with *)
(* the partitions it has passed (LettersAre, VolumesAre).  Paths, for any  *)
(* regular image: FoundIsNamedTheorem, NamedIsFoundTheorem and             *)
(* PictureIsExactTheorem, from where ResolveFile is along the path         *)
(* (PathInv).                                                              *)
(***************************************************************************)
EXTENDS Storage, FiniteSetTheorems, SequenceTheorems, WellFoundedInduction, TLAPS

\* Where kernelMain and KernelStage2 are.
Early == place \in {"acpi", "bus", "device", "activate", "stopping"}
ScansRoot == place = "scan" /\ goal = "mount"
Constructing == place \in {"construct", "mount"} \/ ScansRoot
Mounting == place \in {"header", "table", "entries"} \/ Constructing
Ready == place \in {"screen", "running", "return", "lookup", "sectors"} \/ (place = "scan" /\ goal # "mount")

-----------------------------------------------------------------------------
(* The walk over the machine.                                              *)

IsController(c) ==
    /\ c[1] \in DOMAIN machine.config /\ c[2] \in DOMAIN machine.config[c[1]]
    /\ c[3] \in DOMAIN machine.config[c[1]][c[2]]
    /\ Function(c).class = "ahci"
IsDisk(k, n) ==
    /\ n \in DOMAIN Function(drivers[k]).ports
    /\ Function(drivers[k]).ports[n].kind = "sata"

Positive == Nat \ {0}
WalkType ==
    /\ machine \in Machines
    /\ at \in [entry : Positive, bus : Nat, device : Positive, function : Positive,
               driver : Positive, port : Positive]
    /\ drivers \in Seq(Nat \X Positive \X Positive) /\ disks \in Seq(Seq(Positive))

\* Where the walk is in the tables and on the buses.
BusWalk ==
    /\ place = "acpi" => at.entry = 1
    /\ place = "bus" /\ InRange => at.bus >= machine.ranges[at.entry].start
    /\ place = "device" =>
         /\ InRange /\ at.bus \in machine.ranges[at.entry].start .. (machine.ranges[at.entry].end - 1)
         /\ at.device \in DOMAIN machine.config[at.bus]

\* Drivers and disks are what they are for, and each driver passed has its list of disks.
DiskWalk ==
    /\ \A k \in DOMAIN drivers : IsController(drivers[k])
    /\ Len(disks) <= Len(drivers) /\ Len(disks) \in {at.driver - 1, at.driver}
    /\ \A k \in DOMAIN disks : \A j \in DOMAIN disks[k] : IsDisk(k, disks[k][j])
    /\ place \in {"acpi", "bus", "device"} => disks = <<>> /\ at.driver = 1
    /\ place = "stopping" => Len(disks) = at.driver /\ IsDisk(at.driver, at.port)
    /\ Early \/ place = "fault" \/ at.driver > Len(drivers)
Walk == WalkType /\ BusWalk /\ DiskWalk

-----------------------------------------------------------------------------
(* Mounting.                                                               *)

\* The partitions that were mounted, if there was a letter, and the disks.
Passed(p) ==
    p[1] < disk \/ (p[1] = disk /\ place \notin {"volumes", "header", "table"} /\ p[2] < entry)
Visited == {p \in ShouldMount : Passed(p)}
DisksPassed == IF Mounting THEN disk ELSE disk - 1

Least(n) == IF n < NumMounts THEN n ELSE NumMounts

LettersAre(V) ==
    /\ IsFiniteSet(V) /\ DOMAIN partitions = Letters
    /\ partitionCursor = Least(Cardinality(V))
    /\ \A m \in Letters :
         /\ partitions[m] # None <=> m < Cardinality(V)
         /\ partitions[m] # None =>
              /\ partitions[m] \in V /\ Rank(ShouldMount, partitions[m]) = m
              /\ partitions[m] \in DOMAIN mountOf /\ mountOf[partitions[m]] = m
    /\ \A p \in V :
         Rank(ShouldMount, p) \in Letters => partitions[Rank(ShouldMount, p)] = p

VolumesAre(n) ==
    /\ diskCursor = Least(n)
    /\ DOMAIN volumes = Letters /\ \A m \in Letters : volumes[m] = IF m < n THEN m + 1 ELSE 0

\* Which disk and entry is looked at.
Phases ==
    /\ Early \/ place = "volumes" \/ Mounting \/ Ready
    /\ goal \in {"mount", "lookup", "sectors"}
    /\ disk \in Positive /\ entry \in Positive
    /\ kept # <<>> => ~Early /\ DOMAIN kept = 1 .. NumDisks /\ disk <= NumDisks + 1
    /\ Early \/ kept = <<>> => disk = 1 /\ kept = <<>>
    /\ Mounting => disk \in DOMAIN kept /\ disk <= NumMounts
    /\ Constructing \/ place \in {"table", "entries"} => Content(disk).gpt
    /\ Constructing => /\ entry \in DOMAIN Entries
                       /\ Entries[entry].type = "basic" /\ Entries[entry].fat32
    /\ Ready => disk > NumDisks

\* Before the volumes there are none.
Unmounted == VolumesAre(0) /\ LettersAre({})

Mounts == ~Early => VolumesAre(DisksPassed) /\ LettersAre(Visited)

IInv == Walk /\ (place # "fault" => Phases /\ (Early => Unmounted) /\ Mounts)

-----------------------------------------------------------------------------
(* Facts about the operators.                                              *)

\* What is on the disks, and in which order, does not change while drivers and disks do not.
LEMMA SameDisks ==
  ASSUME UNCHANGED <<machine, drivers, disks>>
  PROVE  /\ NumDisks' = NumDisks
         /\ \A d : Content(d)' = Content(d)
         /\ ShouldMount' = ShouldMount
<1>1. NumDisks' = NumDisks
  BY DEF NumDisks
<1>2. \A d : Content(d)' = Content(d)
  BY DEF Content, FirstDriver, Function
<1>3. ShouldMount' = ShouldMount
  BY <1>1 DEF ShouldMount, Entry, Content, FirstDriver, Function
<1>. QED
  BY <1>1, <1>2, <1>3

\* A number below the modulus is its own remainder.
LEMMA SmallMod ==
  ASSUME NEW n \in Positive, NEW k \in 0 .. (n - 1)
  PROVE  k % n = k
  BY SMT DEF Positive

\* GetNextFreeDiskMount and GetNextFreePartitonMount, when the first mount points are taken:
\* the next one, until there is none.
LEMMA NextOfMounts ==
  ASSUME NEW k \in Nat, NEW taken, \A m \in Letters : m \in taken <=> m < k
  PROVE  NextFree(Least(k), taken) =
           IF k < NumMounts THEN [mount |-> k, cursor |-> k + 1]
           ELSE [mount |-> 255, cursor |-> NumMounts]
<1>1. NumMounts \in Positive
  BY VolumeAssumption DEF Positive
<1>2. CASE k < NumMounts
  <2>1. Least(k) = k /\ Wrapped(k) = k /\ k \in Letters
    BY <1>1, <1>2 DEF Least, Wrapped, Letters, Positive
  <2>2. k \notin taken
    BY <2>1
  <2>. QED
    BY <1>2, <2>1, <2>2 DEF NextFree
<1>3. CASE ~ (k < NumMounts)
  <2>1. Least(k) = NumMounts /\ Wrapped(NumMounts) = 0 /\ 0 \in Letters
    BY <1>1, <1>3 DEF Least, Wrapped, Letters, Positive
  <2>2. Letters \subseteq taken
    BY <1>1, <1>3 DEF Letters, Positive
  <2>3. \A j \in Letters : (0 + j) % NumMounts = j
    BY <1>1, SmallMod DEF Letters, Positive
  <2>4. {j \in Letters : (0 + j) % NumMounts \notin taken} = {}
    BY <2>2, <2>3
  <2>5. ((0 + (NumMounts - 1)) % NumMounts) + 1 = NumMounts
    BY <1>1, <2>3 DEF Letters, Positive
  <2>. QED
    BY <1>3, <2>1, <2>2, <2>4, <2>5 DEF NextFree
<1>. QED
  BY <1>2, <1>3

\* What the assumption on machines says of the place of a driver.
LEMMA PortFacts ==
  ASSUME WalkType, NEW c, IsController(c)
  PROVE  /\ IsSequence(Function(c).ports)
         /\ \A n \in DOMAIN Function(c).ports :
              /\ Function(c).ports[n].kind = "sata" /\ Function(c).ports[n].disk.gpt
              => IsSequence(Function(c).ports[n].disk.entries)
<1>1. IsBus(machine.config[c[1]])
  BY MachineAssumption DEF WalkType, IsController
<1>2. machine.config[c[1]][c[2]] \in ToSet(machine.config[c[1]])
  BY DEF IsController, ToSet
<1>3. Function(c) \in ToSet(machine.config[c[1]][c[2]])
  BY DEF IsController, ToSet, Function
<1>4. IsFunction(Function(c)) /\ Function(c).class = "ahci"
  BY <1>1, <1>2, <1>3 DEF IsBus, IsController
<1>5. \A n \in DOMAIN Function(c).ports : Function(c).ports[n] \in ToSet(Function(c).ports)
  BY DEF ToSet
<1>. QED
  BY <1>4, <1>5 DEF IsFunction

LEMMA SequenceFacts ==
  ASSUME NEW s, IsSequence(s)
  PROVE  s \in Seq(ToSet(s)) /\ Len(s) \in Nat /\ DOMAIN s = 1 .. Len(s)
  BY DEF IsSequence

\* After the walk: the first driver's disks, and their partition tables.
LEMMA DiskFacts ==
  ASSUME Walk, ~ Early, place # "fault"
  PROVE  /\ NumDisks \in Nat
         /\ \A d \in 1 .. NumDisks :
              Content(d).gpt => /\ Len(Content(d).entries) \in Nat
                                /\ DOMAIN Content(d).entries = 1 .. Len(Content(d).entries)
<1>1. CASE drivers = <<>>
  BY <1>1 DEF NumDisks
<1>2. CASE drivers # <<>>
  <2>1. Len(drivers) \in Positive /\ 1 \in DOMAIN drivers
    BY <1>2 DEF Walk, WalkType, Positive
  <2>2. at.driver \in Nat /\ at.driver >= 2
    BY <2>1 DEF Walk, WalkType, DiskWalk, Positive
  <2>3. Len(disks) \in Positive /\ 1 \in DOMAIN disks
    BY <2>2 DEF Walk, WalkType, DiskWalk, Positive
  <2>4. disks[1] \in Seq(Positive)
    BY <2>3 DEF Walk, WalkType
  <2>5. NumDisks = Len(disks[1]) /\ NumDisks \in Nat /\ DOMAIN disks[1] = 1 .. NumDisks
    BY <1>2, <2>4 DEF NumDisks
  <2>6. ASSUME NEW d \in 1 .. NumDisks, Content(d).gpt
        PROVE  IsSequence(Content(d).entries)
    <3>1. IsDisk(1, disks[1][d])
      BY <2>3, <2>5 DEF Walk, DiskWalk
    <3>2. IsController(drivers[1])
      BY <2>1 DEF Walk, DiskWalk
    <3>. QED
      BY <2>6, <3>1, <3>2, PortFacts DEF Walk, IsDisk, Content, FirstDriver
  <2>. QED
    BY <2>5, <2>6, SequenceFacts
<1>. QED
  BY <1>1, <1>2

-----------------------------------------------------------------------------
(* The walk, step by step.                                                 *)

LEMMA RangeFacts ==
  ASSUME WalkType, NEW i \in 1 .. Len(machine.ranges)
  PROVE  /\ machine.ranges[i].start \in Nat /\ machine.ranges[i].end \in Nat
         /\ machine.ranges[i].start .. (machine.ranges[i].end - 1) \subseteq DOMAIN machine.config
<1>1. machine.ranges[i] \in ToSet(machine.ranges)
  BY MachineAssumption, SequenceFacts DEF WalkType, ToSet
<1>. QED
  BY <1>1, MachineAssumption DEF WalkType

\* Controllers and disks are what they are as long as machine and lists are the same.
LEMMA SameLists ==
  ASSUME DiskWalk, UNCHANGED <<machine, drivers, disks>>
  PROVE  /\ \A k \in DOMAIN drivers' : IsController(drivers[k])'
         /\ \A k \in DOMAIN disks' : \A j \in DOMAIN disks'[k] : IsDisk(k, disks[k][j])'
<1>1. ASSUME NEW k \in DOMAIN drivers PROVE IsController(drivers[k])'
  BY <1>1 DEF DiskWalk, IsController, Function
<1>2. ASSUME NEW k \in DOMAIN disks, NEW j \in DOMAIN disks[k] PROVE IsDisk(k, disks[k][j])'
  BY <1>2 DEF DiskWalk, IsDisk, Function
<1>. QED
  BY <1>1, <1>2

LEMMA LocateACPIStep == ASSUME Walk, LocateACPI PROVE Walk'
<1>1. /\ place = "acpi" /\ at.entry = 1 /\ disks = <<>> /\ at.driver = 1
      /\ place' \in {"bus", "activate", "fault"}
      /\ UNCHANGED <<machine, drivers, disks>>
  BY DEF Walk, BusWalk, DiskWalk, LocateACPI, Goto
<1>2. machine.ranges # <<>> => machine.ranges[1].start \in Nat
  <2>1. machine.ranges # <<>> => 1 \in 1 .. Len(machine.ranges)
    BY MachineAssumption DEF Walk, WalkType, IsSequence
  <2>. QED
    BY <2>1, RangeFacts DEF Walk
<1>3. at' = [at EXCEPT !.bus = IF machine.ranges = <<>> THEN 0 ELSE machine.ranges[1].start]
  BY DEF LocateACPI
<1>4. WalkType'
  BY <1>1, <1>2, <1>3 DEF Walk, WalkType
<1>5. BusWalk'
  <2>1. at'.entry = 1
    BY <1>1, <1>3 DEF Walk, WalkType
  <2>2. 1 <= Len(machine.ranges) => machine.ranges # <<>>
    OBVIOUS
  <2>3. at'.bus = IF machine.ranges = <<>> THEN 0 ELSE machine.ranges[1].start
    BY <1>3 DEF Walk, WalkType
  <2>. QED
    BY <1>1, <1>2, <2>1, <2>2, <2>3 DEF BusWalk, InRange
<1>6. DiskWalk'
  <2>1. at'.driver = 1
    BY <1>1, <1>3 DEF Walk, WalkType
  <2>. QED
    BY <1>1, <2>1, SameLists DEF Walk, DiskWalk, Early
<1>. QED
  BY <1>4, <1>5, <1>6 DEF Walk

\* What is left of the walk when only the loop variables of the buses change.
LEMMA BusStep ==
  ASSUME Walk, place \in {"bus", "device"}, place' \in {"bus", "device", "activate"},
         UNCHANGED <<machine, drivers, disks>>, at'.driver = at.driver
  PROVE  DiskWalk'
<1>1. disks = <<>> /\ at.driver = 1
  BY DEF Walk, DiskWalk
<1>. QED
  BY <1>1, SameLists DEF Walk, DiskWalk, Early

LEMMA EnumerateBusStep == ASSUME Walk, EnumerateBus PROVE Walk'
<1>1. /\ place = "bus" /\ InRange /\ BusesLeft /\ UNCHANGED <<machine, drivers, disks>>
      /\ at.bus >= machine.ranges[at.entry].start
  BY DEF EnumerateBus, Walk, BusWalk
<1>2. at.entry \in 1 .. Len(machine.ranges)
  BY <1>1, MachineAssumption, SequenceFacts DEF InRange, Walk, WalkType, Positive
<1>3. /\ machine.ranges[at.entry].start \in Nat /\ machine.ranges[at.entry].end \in Nat
      /\ at.bus \in machine.ranges[at.entry].start .. (machine.ranges[at.entry].end - 1)
      /\ at.bus \in DOMAIN machine.config
  BY <1>1, <1>2, RangeFacts DEF BusesLeft, Walk, WalkType
<1>4. CASE /\ at' = [at EXCEPT !.bus = @ + 1] /\ UNCHANGED place
  <2>1. WalkType'
    BY <1>1, <1>4 DEF Walk, WalkType
  <2>2. /\ at'.entry = at.entry /\ at'.bus = at.bus + 1 /\ at'.driver = at.driver
    BY <1>4 DEF Walk, WalkType
  <2>3. BusWalk'
    BY <1>1, <1>3, <1>4, <2>2 DEF BusWalk, Walk, WalkType
  <2>. QED
    BY <1>1, <1>4, <2>1, <2>2, <2>3, BusStep DEF Walk
<1>5. CASE /\ at' = [at EXCEPT !.device = 1, !.function = 1] /\ place' = "device"
  <2>1. WalkType'
    <3>1. 1 \in Positive
      BY DEF Positive
    <3>. QED
      BY <1>1, <1>5, <3>1 DEF Walk, WalkType
  <2>2. /\ at'.entry = at.entry /\ at'.bus = at.bus /\ at'.driver = at.driver /\ at'.device = 1
    BY <1>5 DEF Walk, WalkType
  <2>3. 1 \in DOMAIN machine.config[at.bus]
    BY <1>3, MachineAssumption, SequenceFacts DEF Walk, WalkType, IsBus
  <2>4. BusWalk'
    BY <1>1, <1>3, <1>5, <2>2, <2>3 DEF BusWalk, InRange
  <2>. QED
    BY <1>1, <1>5, <2>1, <2>2, <2>4, BusStep DEF Walk
<1>. QED
  BY <1>4, <1>5 DEF EnumerateBus, Goto

LEMMA NextRangeStep == ASSUME Walk, NextRange PROVE Walk'
<1>1. /\ place = "bus" /\ place' = "bus" /\ InRange /\ UNCHANGED <<machine, drivers, disks>>
      /\ at' = [at EXCEPT !.entry = @ + 1,
                          !.bus = IF at.entry < Len(machine.ranges)
                                  THEN machine.ranges[at.entry + 1].start ELSE @]
  BY DEF NextRange
<1>2. at.entry \in Positive /\ Len(machine.ranges) \in Nat
  BY MachineAssumption, SequenceFacts DEF Walk, WalkType
<1>3. at.entry < Len(machine.ranges) => machine.ranges[at.entry + 1].start \in Nat
  <2>1. at.entry < Len(machine.ranges) => at.entry + 1 \in 1 .. Len(machine.ranges)
    BY <1>2 DEF Positive
  <2>. QED
    BY <2>1, RangeFacts DEF Walk
<1>4. at.entry + 1 \in Positive
  BY <1>2 DEF Positive
<1>5. WalkType'
  BY <1>1, <1>3, <1>4 DEF Walk, WalkType
<1>6. /\ at'.entry = at.entry + 1 /\ at'.driver = at.driver
      /\ at.entry < Len(machine.ranges) => at'.bus = machine.ranges[at.entry + 1].start
  BY <1>1 DEF Walk, WalkType
<1>7. BusWalk'
  <2>1. at.entry + 1 <= Len(machine.ranges) => at.entry < Len(machine.ranges)
    BY <1>2 DEF Positive
  <2>. QED
    BY <1>1, <1>3, <1>6, <2>1 DEF BusWalk, InRange
<1>. QED
  BY <1>1, <1>5, <1>6, <1>7, BusStep DEF Walk

\* The function that is looked at is there.
LEMMA HereFacts ==
  ASSUME Walk, place = "device"
  PROVE  /\ at.bus \in DOMAIN machine.config /\ at.device \in DOMAIN machine.config[at.bus]
         /\ Len(machine.config[at.bus]) \in Nat
         /\ DOMAIN machine.config[at.bus] = 1 .. Len(machine.config[at.bus])
         /\ Len(Functions) \in Nat /\ DOMAIN Functions = 1 .. Len(Functions)
         /\ at.entry \in 1 .. Len(machine.ranges)
         /\ machine.ranges[at.entry].start \in Nat /\ machine.ranges[at.entry].end \in Nat
<1>1. /\ at.entry \in 1 .. Len(machine.ranges)
      /\ at.bus \in machine.ranges[at.entry].start .. (machine.ranges[at.entry].end - 1)
      /\ at.device \in DOMAIN machine.config[at.bus]
  BY MachineAssumption, SequenceFacts DEF Walk, WalkType, BusWalk, InRange, Positive
<1>2. /\ at.bus \in DOMAIN machine.config
      /\ machine.ranges[at.entry].start \in Nat /\ machine.ranges[at.entry].end \in Nat
  BY <1>1, RangeFacts DEF Walk
<1>3. IsBus(machine.config[at.bus])
  BY <1>2, MachineAssumption DEF Walk, WalkType
<1>4. Functions \in ToSet(machine.config[at.bus])
  BY <1>1 DEF ToSet, Functions
<1>5. IsSequence(machine.config[at.bus]) /\ IsSequence(Functions)
  BY <1>3, <1>4 DEF IsBus
<1>. QED
  BY <1>1, <1>2, <1>5, SequenceFacts

LEMMA EnumerateFunctionStep == ASSUME Walk, EnumerateFunction PROVE Walk'
<1>1. /\ place = "device" /\ place' = "device" /\ at.function <= Len(Functions)
      /\ at' = [at EXCEPT !.function = @ + 1] /\ UNCHANGED <<machine, disks>>
      /\ drivers' = IF Function(Here).class = "ahci" THEN Append(drivers, Here) ELSE drivers
      /\ disks = <<>> /\ at.driver = 1
  BY DEF EnumerateFunction, EnableDriver, Walk, DiskWalk
<1>2. Here \in Nat \X Positive \X Positive
  BY DEF Here, Walk, WalkType
<1>3. at.function \in 1 .. Len(Functions)
  BY <1>1, HereFacts DEF Walk, WalkType, Positive
<1>4. Function(Here).class = "ahci" => IsController(Here)
  BY <1>1, <1>3, HereFacts DEF IsController, Here, Functions
<1>5. WalkType'
  <2>1. at.function + 1 \in Positive
    BY DEF Walk, WalkType, Positive
  <2>2. drivers' \in Seq(Nat \X Positive \X Positive)
    BY <1>1, <1>2 DEF Walk, WalkType
  <2>. QED
    BY <1>1, <2>1, <2>2 DEF Walk, WalkType
<1>6. /\ at'.entry = at.entry /\ at'.bus = at.bus /\ at'.device = at.device
      /\ at'.driver = at.driver
  BY <1>1 DEF Walk, WalkType
<1>7. BusWalk'
  BY <1>1, <1>6 DEF BusWalk, Walk, InRange
<1>8. \A k \in DOMAIN drivers' : IsController(drivers'[k])
  BY <1>1, <1>2, <1>4 DEF Walk, WalkType, DiskWalk
<1>9. \A k \in DOMAIN drivers' : IsController(drivers[k])'
  BY <1>1, <1>8 DEF IsController, Function
<1>10. Len(drivers') \in Nat
  BY <1>5 DEF WalkType
<1>. QED
  BY <1>1, <1>5, <1>6, <1>7, <1>9, <1>10 DEF Walk, DiskWalk, Early

LEMMA EnumerateDeviceStep == ASSUME Walk, EnumerateDevice PROVE Walk'
<1>1. /\ place = "device" /\ UNCHANGED <<machine, drivers, disks>>
      /\ at.bus \in machine.ranges[at.entry].start .. (machine.ranges[at.entry].end - 1)
      /\ at.device \in Positive /\ at.bus \in Nat /\ 1 \in Positive
  BY DEF EnumerateDevice, Walk, WalkType, BusWalk, Positive
<1>2. CASE /\ at.device < Len(machine.config[at.bus])
           /\ at' = [at EXCEPT !.device = @ + 1, !.function = 1] /\ UNCHANGED place
  <2>1. at.device + 1 \in DOMAIN machine.config[at.bus] /\ at.device + 1 \in Positive
    BY <1>1, <1>2, HereFacts DEF Positive
  <2>2. WalkType'
    BY <1>1, <1>2, <2>1 DEF Walk, WalkType
  <2>3. /\ at'.entry = at.entry /\ at'.bus = at.bus /\ at'.driver = at.driver
        /\ at'.device = at.device + 1
    BY <1>2 DEF Walk, WalkType
  <2>4. BusWalk'
    BY <1>1, <1>2, <2>1, <2>3 DEF BusWalk, Walk, InRange
  <2>. QED
    BY <1>1, <1>2, <2>2, <2>3, <2>4, BusStep DEF Walk
<1>3. CASE /\ at' = [at EXCEPT !.bus = @ + 1] /\ place' = "bus"
  <2>1. WalkType'
    <3>1. at.bus + 1 \in Nat /\ UNCHANGED <<machine, drivers, disks>>
      BY <1>1
    <3>. QED
      BY <1>3, <3>1 DEF Walk, WalkType
  <2>2. /\ at'.entry = at.entry /\ at'.bus = at.bus + 1 /\ at'.driver = at.driver
    BY <1>3 DEF Walk, WalkType
  <2>3. BusWalk'
    BY <1>1, <1>3, <2>2, HereFacts DEF BusWalk, Walk, InRange
  <2>. QED
    BY <1>1, <1>3, <2>1, <2>2, <2>3, BusStep DEF Walk
<1>. QED
  BY <1>2, <1>3 DEF EnumerateDevice, Goto

LEMMA EndEnumerationStep == ASSUME Walk, EndEnumeration PROVE Walk'
<1>1. /\ place = "bus" /\ place' = "activate" /\ UNCHANGED <<machine, at, drivers, disks>>
  BY DEF EndEnumeration, Goto
<1>2. WalkType' /\ BusWalk'
  BY <1>1 DEF Walk, WalkType, BusWalk
<1>. QED
  BY <1>1, <1>2, BusStep DEF Walk

\* The driver whose ports are probed, and its list of disks.
LEMMA ProbingFacts ==
  ASSUME Walk, Probing
  PROVE  /\ at.driver \in DOMAIN drivers /\ at.driver \in DOMAIN disks
         /\ Len(disks) = at.driver /\ at.driver \in Positive /\ at.port \in Positive
         /\ Len(Ports) \in Nat /\ DOMAIN Ports = 1 .. Len(Ports)
<1>1. /\ at.driver <= Len(drivers) /\ Len(disks) = at.driver /\ at.driver \in Positive
      /\ at.port \in Positive /\ Len(drivers) \in Nat /\ DOMAIN drivers = 1 .. Len(drivers)
      /\ DOMAIN disks = 1 .. Len(disks)
  BY DEF Probing, Activating, Walk, WalkType
<1>2. at.driver \in DOMAIN drivers /\ at.driver \in DOMAIN disks
  BY <1>1 DEF Positive
<1>3. IsSequence(Ports)
  BY <1>2, PortFacts DEF Walk, DiskWalk, Ports
<1>. QED
  BY <1>1, <1>2, <1>3, SequenceFacts

LEMMA ActivateStep == ASSUME Walk, Activate PROVE Walk'
<1>1. /\ place = "activate" /\ place' = "activate" /\ at.driver <= Len(drivers)
      /\ Len(disks) < at.driver /\ disks' = Append(disks, <<>>)
      /\ at' = [at EXCEPT !.port = 1] /\ UNCHANGED <<machine, drivers>>
  BY DEF Activate, Activating
<1>2. /\ Len(disks) \in Nat /\ DOMAIN disks = 1 .. Len(disks) /\ at.driver \in Positive
      /\ disks \in Seq(Seq(Positive)) /\ 1 \in Positive /\ Len(drivers) \in Nat
  BY DEF Walk, WalkType, Positive
<1>3. Len(disks) = at.driver - 1
  BY <1>1, <1>2 DEF Walk, DiskWalk, Positive
<1>4. /\ disks' \in Seq(Seq(Positive)) /\ Len(disks') = Len(disks) + 1
      /\ DOMAIN disks' = 1 .. (Len(disks) + 1) /\ disks'[Len(disks) + 1] = <<>>
      /\ \A k \in DOMAIN disks : disks'[k] = disks[k]
  BY <1>1, <1>2
<1>5. WalkType'
  BY <1>1, <1>2, <1>4 DEF Walk, WalkType
<1>6. at'.driver = at.driver
  BY <1>1 DEF Walk, WalkType
<1>7. BusWalk'
  BY <1>1 DEF BusWalk
<1>8. \A k \in DOMAIN drivers' : IsController(drivers[k])'
  BY <1>1 DEF Walk, DiskWalk, IsController, Function
<1>9. ASSUME NEW k \in DOMAIN disks', NEW j \in DOMAIN disks'[k] PROVE IsDisk(k, disks[k][j])'
  <2>1. k \in DOMAIN disks
    BY <1>2, <1>4, <1>9
  <2>. QED
    BY <1>1, <1>4, <1>9, <2>1 DEF Walk, DiskWalk, IsDisk, Function
<1>10. Len(disks') <= Len(drivers') /\ Len(disks') = at'.driver
  BY <1>1, <1>2, <1>3, <1>4, <1>6 DEF Positive
<1>. QED
  BY <1>1, <1>5, <1>7, <1>8, <1>9, <1>10 DEF Walk, DiskWalk, Early

\* Steps that only move the loop variables of drivers and ports on.
LEMMA PortStep ==
  ASSUME Walk, place = "activate", UNCHANGED <<machine, drivers, disks>>,
         WalkType', Len(disks) \in {at'.driver - 1, at'.driver},
         \/ place' \in {"activate", "fault"}
         \/ place' = "volumes" /\ at'.driver > Len(drivers)
  PROVE  Walk'
<1>1. BusWalk'
  BY DEF BusWalk
<1>2. DiskWalk'
  BY SameLists DEF Walk, DiskWalk, Early
<1>. QED
  BY <1>1, <1>2 DEF Walk

LEMMA SkipPortStep == ASSUME Walk, SkipPort PROVE Walk'
<1>1. /\ place = "activate" /\ place' \in {"activate", "fault"} /\ Probing
      /\ UNCHANGED <<machine, drivers, disks>>
      /\ at' = [at EXCEPT !.port = @ + 1] \/ at' = at
  BY DEF SkipPort, Probing, Activating, Goto
<1>2. at.port + 1 \in Positive
  BY DEF Walk, WalkType, Positive
<1>3. WalkType' /\ at'.driver = at.driver
  BY <1>1, <1>2 DEF Walk, WalkType
<1>. QED
  BY <1>1, <1>3, PortStep DEF Walk, DiskWalk

LEMMA NextDriverStep == ASSUME Walk, NextDriver PROVE Walk'
<1>1. /\ place = "activate" /\ place' = "activate" /\ Len(disks) = at.driver
      /\ UNCHANGED <<machine, drivers, disks>> /\ at' = [at EXCEPT !.driver = @ + 1]
  BY DEF NextDriver, Probing, Activating
<1>2. at.driver + 1 \in Positive /\ at.driver \in Nat
  BY DEF Walk, WalkType, Positive
<1>3. WalkType' /\ at'.driver = at.driver + 1
  BY <1>1, <1>2 DEF Walk, WalkType
<1>. QED
  BY <1>1, <1>2, <1>3, PortStep

LEMMA ActivatedStep == ASSUME Walk, Activated PROVE Walk'
<1>1. /\ place = "activate" /\ place' = "volumes" /\ at.driver > Len(drivers)
      /\ UNCHANGED <<machine, at, drivers, disks>>
  BY DEF Activated, Goto
<1>2. WalkType'
  BY <1>1 DEF Walk, WalkType
<1>. QED
  BY <1>1, <1>2, PortStep DEF Walk, DiskWalk

LEMMA NewPortStep == ASSUME Walk, NewPort PROVE Walk'
<1>1. /\ place = "activate" /\ place' \in {"stopping", "fault"} /\ Probing
      /\ UNCHANGED <<machine, at, drivers, disks>>
      /\ at.port <= Len(Ports) /\ Port.kind = "sata"
  BY DEF NewPort, Probing, Activating, Goto
<1>2. at.port \in DOMAIN Ports
  BY <1>1, ProbingFacts DEF Positive
<1>3. IsDisk(at.driver, at.port)
  BY <1>1, <1>2 DEF IsDisk, Port, Ports
<1>4. IsDisk(at.driver, at.port)'
  BY <1>1, <1>3 DEF IsDisk, Function
<1>5. WalkType' /\ BusWalk'
  BY <1>1 DEF Walk, WalkType, BusWalk
<1>6. DiskWalk'
  BY <1>1, <1>4, ProbingFacts, SameLists DEF Walk, DiskWalk, Early
<1>. QED
  BY <1>5, <1>6 DEF Walk

LEMMA ConfiguredStep == ASSUME Walk, Configured PROVE Walk'
<1>1. /\ place = "stopping" /\ place' = "activate" /\ UNCHANGED <<machine, drivers>>
      /\ disks' = [disks EXCEPT ![at.driver] = Append(@, at.port)]
      /\ at' = [at EXCEPT !.port = @ + 1]
      /\ Len(disks) = at.driver /\ IsDisk(at.driver, at.port)
  BY DEF Configured, Goto, Walk, DiskWalk
<1>2. /\ at.driver \in Positive /\ at.port \in Positive /\ at.port + 1 \in Positive
      /\ disks \in Seq(Seq(Positive)) /\ Len(disks) \in Nat /\ DOMAIN disks = 1 .. Len(disks)
  BY DEF Walk, WalkType, Positive
<1>3. at.driver \in DOMAIN disks
  BY <1>1, <1>2 DEF Positive
<1>. DEFINE list == Append(disks[at.driver], at.port)
<1>4. list \in Seq(Positive)
  BY <1>2, <1>3
<1>5. /\ disks' \in Seq(Seq(Positive)) /\ Len(disks') = Len(disks) /\ DOMAIN disks' = DOMAIN disks
      /\ disks'[at.driver] = list
      /\ \A k \in DOMAIN disks : k # at.driver => disks'[k] = disks[k]
  BY <1>1, <1>2, <1>3, <1>4
<1>6. WalkType' /\ at'.driver = at.driver
  BY <1>1, <1>2, <1>5 DEF Walk, WalkType
<1>7. BusWalk'
  BY <1>1 DEF BusWalk
<1>8. \A k \in DOMAIN drivers' : IsController(drivers[k])'
  BY <1>1 DEF Walk, DiskWalk, IsController, Function
<1>9. ASSUME NEW k \in DOMAIN disks', NEW j \in DOMAIN disks'[k] PROVE IsDisk(k, disks[k][j])'
  <2>1. IsDisk(k, disks'[k][j])
    <3>1. CASE k = at.driver
      <4>1. disks[k] \in Seq(Positive)
        BY <1>2, <1>3, <3>1
      <4>2. \/ j \in DOMAIN disks[k] /\ list[j] = disks[k][j]
            \/ list[j] = at.port
        BY <1>2, <1>5, <1>9, <3>1, <4>1
      <4>. QED
        BY <1>1, <1>3, <1>5, <3>1, <4>2 DEF Walk, DiskWalk
    <3>2. CASE k # at.driver
      BY <1>5, <1>9, <3>2 DEF Walk, DiskWalk
    <3>. QED
      BY <3>1, <3>2
  <2>. QED
    BY <1>1, <2>1 DEF IsDisk, Function
<1>10. Len(disks') <= Len(drivers') /\ Len(disks') = at'.driver
  BY <1>1, <1>5, <1>6 DEF Walk, DiskWalk
<1>. QED
  BY <1>1, <1>6, <1>7, <1>8, <1>9, <1>10 DEF Walk, DiskWalk, Early

-----------------------------------------------------------------------------
(* What the invariant of the mounting says, and what keeps it.             *)

LEMMA NoLetters ==
  LettersAre({}) <=> /\ partitionCursor = 0 /\ DOMAIN partitions = Letters
                     /\ \A m \in Letters : partitions[m] = None
<1>1. Cardinality({}) = 0 /\ IsFiniteSet({})
  BY FS_EmptySet
<1>2. \A m \in Letters : ~ (m < 0)
  BY DEF Letters
<1>3. Least(0) = 0
  BY VolumeAssumption DEF Least
<1>. QED
  BY <1>1, <1>2, <1>3 DEF LettersAre

\* The partitions that ought to be mounted, one by one.
LEMMA Members ==
  ASSUME Walk, ~ Early, place # "fault", NEW p \in ShouldMount
  PROVE  /\ p = <<p[1], p[2]>> /\ p[1] \in 1 .. NumDisks /\ p[1] <= NumMounts
         /\ Content(p[1]).gpt
         /\ Len(Content(p[1]).entries) \in Nat /\ p[2] \in 1 .. Len(Content(p[1]).entries)
         /\ Entry(p).type = "basic" /\ Entry(p).fat32 /\ ~ Entry(p).noAuto /\ ~ Entry(p).hidden
<1>1. PICK d \in 1 .. NumDisks : d <= NumMounts /\ p \in {<<d, e>> : e \in IF Content(d).gpt
                                            THEN DOMAIN Content(d).entries ELSE {}}
  BY DEF ShouldMount
<1>2. PICK e \in IF Content(d).gpt THEN DOMAIN Content(d).entries ELSE {} : p = <<d, e>>
  BY <1>1
<1>3. Content(d).gpt /\ e \in DOMAIN Content(d).entries
  BY <1>2
<1>4. p[1] = d /\ p[2] = e
  BY <1>2
<1>5. Len(Content(d).entries) \in Nat /\ DOMAIN Content(d).entries = 1 .. Len(Content(d).entries)
  BY <1>3, DiskFacts
<1>6. Entry(p).type = "basic" /\ Entry(p).fat32 /\ ~ Entry(p).noAuto /\ ~ Entry(p).hidden
  BY DEF ShouldMount
<1>. QED
  BY <1>1, <1>2, <1>3, <1>4, <1>5, <1>6

LEMMA IsMember ==
  ASSUME NEW d \in 1 .. NumDisks, d <= NumMounts, Content(d).gpt,
         NEW e \in DOMAIN Content(d).entries,
         Content(d).entries[e].type = "basic", Content(d).entries[e].fat32,
         Mountable(Content(d).entries[e])
  PROVE  <<d, e>> \in ShouldMount
<1>1. <<d, e>> \in UNION {{<<n, f>> : f \in IF Content(n).gpt THEN DOMAIN Content(n).entries ELSE {}} :
                            n \in {i \in 1 .. NumDisks : i <= NumMounts}}
  OBVIOUS
<1>2. Entry(<<d, e>>) = Content(d).entries[e]
  BY DEF Entry
<1>. QED
  BY <1>1, <1>2 DEF ShouldMount, Mountable, AutoMount, Hidden

\* After the walk it is over.
LEMMA LaterWalk ==
  ASSUME Walk, ~ Early, place # "fault", ~ Early', UNCHANGED <<machine, at, drivers, disks>>
  PROVE  Walk'
<1>1. WalkType' /\ BusWalk'
  BY DEF Walk, WalkType, BusWalk, Early
<1>2. DiskWalk'
  BY SameLists DEF Walk, DiskWalk, Early
<1>. QED
  BY <1>1, <1>2 DEF Walk

\* The letters stay right when no partition is passed.
LEMMA SameLetters ==
  ASSUME LettersAre(Visited), UNCHANGED <<machine, drivers, disks>>,
         UNCHANGED <<partitions, partitionCursor, mountOf>>,
         \A p \in ShouldMount : Passed(p)' <=> Passed(p)
  PROVE  LettersAre(Visited)'
<1>1. ShouldMount' = ShouldMount
  BY SameDisks
<1>2. Visited' = Visited
  BY <1>1 DEF Visited
<1>. QED
  BY <1>1, <1>2 DEF LettersAre

LEMMA SameVolumes ==
  ASSUME VolumesAre(DisksPassed), UNCHANGED <<volumes, diskCursor>>, DisksPassed' = DisksPassed
  PROVE  VolumesAre(DisksPassed)'
  BY DEF VolumesAre

-----------------------------------------------------------------------------
(* Every step keeps the invariant.                                         *)

LEMMA InitInvariant == Init => IInv
<1>. SUFFICES ASSUME Init PROVE IInv
  OBVIOUS
<1>. USE DEF Init, DevicesInit, VolumesInit, FatInit
<1>1. WalkType
  BY DEF WalkType, Start, Positive
<1>2. BusWalk
  BY DEF BusWalk, Start
<1>3. DiskWalk
  BY DEF DiskWalk, Start, Early
<1>4. Unmounted
  <2>1. VolumesAre(0)
    BY VolumeAssumption DEF VolumesAre, Least, Letters
  <2>. QED
    BY <2>1, NoLetters DEF Unmounted
<1>5. Phases
  BY DEF Phases, Early, Mounting, Constructing, ScansRoot, Ready, Positive
<1>. QED
  BY <1>1, <1>2, <1>3, <1>4, <1>5 DEF IInv, Walk, Mounts, Early

LEMMA WalkStep ==
  ASSUME Walk, DeviceStep
  PROVE  Walk' /\ Early /\ (Early' \/ place' \in {"volumes", "fault"})
<1>1. Walk'
  BY LocateACPIStep, EnumerateBusStep, NextRangeStep, EnumerateFunctionStep, EnumerateDeviceStep,
     EndEnumerationStep, ActivateStep, SkipPortStep, NewPortStep, ConfiguredStep, NextDriverStep,
     ActivatedStep DEF DeviceStep
<1>2. Early /\ (Early' \/ place' \in {"volumes", "fault"})
  BY DEF DeviceStep, Early, Goto, LocateACPI, EnumerateBus, NextRange, EnumerateFunction,
         EnumerateDevice, EndEnumeration, Activate, SkipPort, NewPort, Configured, NextDriver,
         Activated, Probing, Activating
<1>. QED
  BY <1>1, <1>2

LEMMA DeviceInvariant ==
  ASSUME IInv, DeviceStep, UNCHANGED <<volumeVars, goal>>
  PROVE  IInv'
<1>1. Walk' /\ Early /\ place # "fault" /\ (Early' \/ place' \in {"volumes", "fault"})
  BY WalkStep DEF IInv, Early
<1>2. Phases /\ Unmounted /\ UNCHANGED volumeVars
  BY <1>1 DEF IInv
<1>3. /\ partitionCursor = 0 /\ DOMAIN partitions = Letters
      /\ \A m \in Letters : partitions[m] = None
      /\ VolumesAre(0) /\ disk = 1 /\ kept = <<>> /\ entry \in Positive
      /\ goal \in {"mount", "lookup", "sectors"}
  BY <1>1, <1>2, NoLetters DEF Unmounted, Phases
<1>4. CASE Early'
  <2>1. Phases'
    BY <1>2, <1>3, <1>4 DEF Phases, Early, Mounting, Constructing, ScansRoot, Ready, volumeVars, Positive
  <2>2. Unmounted'
    <3>1. VolumesAre(0)'
      BY <1>2, <1>3 DEF VolumesAre, volumeVars
    <3>2. LettersAre({})'
      <4>1. Cardinality({}) = 0 /\ IsFiniteSet({}) /\ Least(0) = 0
        BY FS_EmptySet, VolumeAssumption DEF Least
      <4>2. \A m \in Letters : ~ (m < 0)
        BY DEF Letters
      <4>. QED
        BY <1>2, <1>3, <4>1, <4>2 DEF LettersAre, volumeVars
    <3>. QED
      BY <3>1, <3>2 DEF Unmounted
  <2>. QED
    BY <1>1, <1>4, <2>1, <2>2 DEF IInv, Mounts
<1>5. CASE place' = "volumes"
  <2>1. Phases'
    BY <1>2, <1>3, <1>5 DEF Phases, Early, Mounting, Constructing, ScansRoot, Ready, volumeVars, Positive
  <2>2. DisksPassed' = 0
    BY <1>2, <1>3, <1>5 DEF DisksPassed, Mounting, Constructing, ScansRoot, volumeVars
  <2>3. VolumesAre(DisksPassed)'
    BY <1>2, <1>3, <2>2 DEF VolumesAre, volumeVars
  <2>4. Visited' = {}
    <3>1. ASSUME NEW p \in ShouldMount' PROVE ~ Passed(p)'
      <4>1. p[1] \in Nat /\ p[1] >= 1
        <5>1. PICK d \in 1 .. NumDisks' : p \in {<<d, e>> : e \in IF Content(d)'.gpt
                                            THEN DOMAIN Content(d)'.entries ELSE {}}
          BY <3>1 DEF ShouldMount
        <5>. QED
          BY <5>1
      <4>. QED
        BY <1>2, <1>3, <1>5, <4>1 DEF Passed, volumeVars
    <3>. QED
      BY <3>1 DEF Visited
  <2>5. LettersAre(Visited)'
    <3>1. Cardinality({}) = 0 /\ IsFiniteSet({}) /\ Least(0) = 0
      BY FS_EmptySet, VolumeAssumption DEF Least
    <3>2. \A m \in Letters : ~ (m < 0)
      BY DEF Letters
    <3>. QED
      BY <1>2, <1>3, <2>4, <3>1, <3>2 DEF LettersAre, volumeVars
  <2>. QED
    BY <1>1, <1>5, <2>1, <2>3, <2>5 DEF IInv, Mounts, Early
<1>6. CASE place' = "fault"
  BY <1>1, <1>6 DEF IInv
<1>. QED
  BY <1>1, <1>4, <1>5, <1>6

\* Steps of a chain or a path: neither disks nor partitions are mounted.
LEMMA QuietStep ==
  ASSUME IInv, UNCHANGED <<machine, at, drivers, disks, volumeVars>>,
         goal' \in {"mount", "lookup", "sectors"},
         (Constructing /\ Constructing') \/ (Ready /\ Ready')
  PROVE  IInv'
<1>1. ~ Early /\ place # "fault" /\ ~ Early' /\ place' # "fault"
  BY DEF Early, Constructing, ScansRoot, Ready
<1>2. Walk /\ Phases /\ VolumesAre(DisksPassed) /\ LettersAre(Visited)
  BY <1>1 DEF IInv, Mounts
<1>3. Walk'
  BY <1>1, <1>2, LaterWalk
<1>4. Constructing => ~ Ready
  BY DEF Constructing, ScansRoot, Ready
<1>5. (Constructing' => ~ Ready') /\ (Mounting' <=> Mounting)
  BY <1>4 DEF Constructing, ScansRoot, Ready, Mounting
<1>6. Entries' = Entries /\ Content(disk)' = Content(disk) /\ NumDisks' = NumDisks
  BY DEF Entries, Content, FirstDriver, Function, NumDisks, volumeVars
<1>7. Phases'
  <2>1. Constructing' => Constructing
    BY <1>5
  <2>2. Ready' => Ready
    BY <1>4, <1>5
  <2>3. ~ (place' \in {"table", "entries"} /\ ~ Constructing')
    BY DEF Constructing, ScansRoot, Ready
  <2>. QED
    BY <1>1, <1>2, <1>5, <1>6, <2>1, <2>2, <2>3 DEF Phases, Mounting, volumeVars
<1>8. \A p \in ShouldMount : Passed(p)' <=> Passed(p)
  <2>1. ASSUME Ready, NEW p \in ShouldMount PROVE p[1] < disk
    BY <1>1, <1>2, <2>1, Members, DiskFacts DEF Phases, Positive
  <2>2. ASSUME Constructing, Constructing'
        PROVE  place \notin {"volumes", "header", "table"} /\ place' \notin {"volumes", "header", "table"}
    BY <2>2 DEF Constructing, ScansRoot
  <2>. QED
    BY <2>1, <2>2 DEF Passed, volumeVars
<1>9. DisksPassed' = DisksPassed
  BY <1>5 DEF DisksPassed, volumeVars
<1>10. VolumesAre(DisksPassed)' /\ LettersAre(Visited)'
  BY <1>2, <1>8, <1>9, SameVolumes, SameLetters DEF volumeVars
<1>. QED
  BY <1>1, <1>3, <1>7, <1>10 DEF IInv, Mounts

LEMMA MountingFacts ==
  ASSUME IInv, place \in {"volumes", "header", "table", "entries"} \/ Constructing
  PROVE  /\ ~ Early /\ place # "fault" /\ ~ Ready
         /\ Walk /\ Phases /\ VolumesAre(DisksPassed) /\ LettersAre(Visited)
         /\ disk \in Positive /\ entry \in Positive /\ NumDisks \in Nat
         /\ Mounting => disk \in 1 .. NumDisks /\ disk <= NumMounts /\ DOMAIN kept = 1 .. NumDisks
<1>1. ~ Early /\ place # "fault" /\ ~ Ready
  BY DEF Early, Constructing, ScansRoot, Ready
<1>2. Walk /\ Phases /\ VolumesAre(DisksPassed) /\ LettersAre(Visited)
  BY <1>1 DEF IInv, Mounts
<1>3. disk \in Positive /\ entry \in Positive /\ NumDisks \in Nat
  BY <1>1, <1>2, DiskFacts DEF Phases
<1>4. Mounting => kept # <<>> /\ disk \in DOMAIN kept /\ disk <= NumMounts
  BY <1>2 DEF Phases
<1>5. kept # <<>> => DOMAIN kept = 1 .. NumDisks
  BY <1>2 DEF Phases
<1>. QED
  BY <1>1, <1>2, <1>3, <1>4, <1>5

\* A step of the mounting keeps the invariant if it keeps these parts of it, or reads where
\* nothing is.
LEMMA MountingStep ==
  ASSUME IInv, ~ Early, place # "fault", ~ Early', UNCHANGED <<machine, at, drivers, disks>>,
         place' # "fault" => Phases' /\ VolumesAre(DisksPassed)' /\ LettersAre(Visited)'
  PROVE  IInv'
<1>1. Walk'
  BY LaterWalk DEF IInv
<1>. QED
  BY <1>1 DEF IInv, Mounts

LEMMA InitVolumesStep == ASSUME IInv, InitVolumes, goal' = goal PROVE IInv'
<1>1. /\ place = "volumes" /\ place' = "volumes" /\ disk = 1 /\ kept = <<>> /\ NumDisks > 0
      /\ kept' = [d \in 1 .. NumDisks |-> 0]
      /\ UNCHANGED <<machine, at, drivers, disks, volumes, partitions, diskCursor,
                     partitionCursor, mountOf, disk, entry>>
  BY DEF InitVolumes, deviceVars
<1>2. NumDisks' = NumDisks
  BY <1>1, SameDisks
<1>3. DOMAIN kept' = 1 .. NumDisks /\ 1 \in DOMAIN kept'
  BY <1>1, MountingFacts
<1>4. kept' # <<>>
  <2>1. \A f : f = <<>> => DOMAIN f = {}
    OBVIOUS
  <2>. QED
    BY <1>3, <2>1
<1>5. Phases'
  BY <1>1, <1>2, <1>3, <1>4, MountingFacts
     DEF Phases, Early, Mounting, Constructing, ScansRoot, Ready
<1>6. DisksPassed' = DisksPassed
  BY <1>1 DEF DisksPassed, Mounting, Constructing, ScansRoot
<1>7. \A p \in ShouldMount : Passed(p)' <=> Passed(p)
  BY <1>1 DEF Passed
<1>. QED
  BY <1>1, <1>5, <1>6, <1>7, MountingFacts, SameLetters, SameVolumes, MountingStep DEF Early

\* A disk gets the next mount point, as long as there is one.
LEMMA MountVolumeStep == ASSUME IInv, MountVolume, goal' = goal PROVE IInv'
<1>1. /\ place = "volumes" /\ disk \in DOMAIN kept
      /\ UNCHANGED <<machine, at, drivers, disks, partitions, partitionCursor, mountOf, kept, entry>>
  BY DEF MountVolume
<1>2. /\ ~ Early /\ Walk /\ Phases /\ LettersAre(Visited) /\ VolumesAre(DisksPassed)
      /\ disk \in Positive /\ entry \in Positive /\ NumDisks \in Nat
  BY <1>1, MountingFacts
<1>3. kept # <<>> /\ DOMAIN kept = 1 .. NumDisks /\ disk \in 1 .. NumDisks
  BY <1>1, <1>2 DEF Phases
<1>4. DisksPassed = disk - 1 /\ disk - 1 \in Nat
  BY <1>1, <1>2 DEF DisksPassed, Mounting, Constructing, ScansRoot, Positive
<1>5. /\ diskCursor = Least(disk - 1) /\ DOMAIN volumes = Letters
      /\ \A m \in Letters : volumes[m] = IF m < disk - 1 THEN m + 1 ELSE 0
  BY <1>2, <1>4 DEF VolumesAre
<1>6. \A m \in Letters : m \in TakenDisks <=> m < disk - 1
  BY <1>5 DEF TakenDisks, Letters
<1>7. NextFree(diskCursor, TakenDisks) =
        IF disk - 1 < NumMounts THEN [mount |-> disk - 1, cursor |-> disk]
        ELSE [mount |-> 255, cursor |-> NumMounts]
  BY <1>2, <1>4, <1>5, <1>6, NextOfMounts DEF Positive
<1>8. NumDisks' = NumDisks /\ Content(disk)' = Content(disk')
  BY <1>1, SameDisks DEF Content, FirstDriver, Function
<1>9. NumMounts \in Nat /\ NumMounts <= 255 /\ disk \in Nat /\ disk + 1 \in Positive
  BY <1>2, VolumeAssumption DEF Positive
<1>10. CASE disk - 1 < NumMounts
  <2>1. /\ diskCursor' = disk /\ volumes' = [volumes EXCEPT ![disk - 1] = disk]
        /\ place' = "header" /\ disk' = disk
    BY <1>7, <1>9, <1>10 DEF MountVolume, Goto
  <2>2. Mounting' /\ DisksPassed' = disk
    BY <2>1 DEF DisksPassed, Mounting
  <2>3. VolumesAre(DisksPassed)'
    <3>1. disk = Least(disk)
      BY <1>9, <1>10 DEF Least
    <3>2. DOMAIN volumes' = Letters
      BY <1>5, <2>1
    <3>3. ASSUME NEW m \in Letters PROVE volumes'[m] = IF m < disk THEN m + 1 ELSE 0
      BY <1>4, <1>5, <1>9, <2>1, <3>3 DEF Letters
    <3>. QED
      BY <2>1, <2>2, <3>1, <3>2, <3>3 DEF VolumesAre
  <2>4. Phases'
    BY <1>1, <1>2, <1>3, <1>8, <1>9, <1>10, <2>1
       DEF Phases, Early, Mounting, Constructing, ScansRoot, Ready
  <2>5. \A p \in ShouldMount : Passed(p)' <=> Passed(p)
    BY <1>1, <2>1 DEF Passed
  <2>. QED
    BY <1>1, <1>2, <2>1, <2>3, <2>4, <2>5, SameLetters, MountingStep DEF Early
<1>11. CASE ~ (disk - 1 < NumMounts)
  <2>1. /\ diskCursor' = NumMounts /\ volumes' = volumes /\ place' = place /\ disk' = disk + 1
    BY <1>7, <1>11 DEF MountVolume
  <2>2. DisksPassed' = disk
    BY <1>1, <1>9, <2>1 DEF DisksPassed, Mounting, Constructing, ScansRoot
  <2>3. VolumesAre(DisksPassed)'
    <3>1. NumMounts = Least(disk)
      BY <1>9, <1>11 DEF Least
    <3>2. \A m \in Letters : m < disk - 1 /\ m < disk
      BY <1>9, <1>11 DEF Letters
    <3>. QED
      BY <1>5, <2>1, <2>2, <3>1, <3>2 DEF VolumesAre
  <2>4. Phases'
    BY <1>1, <1>2, <1>3, <1>8, <1>9, <2>1
       DEF Phases, Early, Mounting, Constructing, ScansRoot, Ready
  <2>5. ASSUME NEW p \in ShouldMount PROVE Passed(p)' <=> Passed(p)
    <3>1. p[1] \in Nat /\ p[1] <= NumMounts
      BY <1>1, <1>2, Members
    <3>. QED
      BY <1>9, <1>11, <2>1, <3>1 DEF Passed
  <2>. QED
    BY <1>1, <1>2, <2>1, <2>3, <2>4, <2>5, SameLetters, MountingStep DEF Early
<1>. QED
  BY <1>10, <1>11

LEMMA KeptFacts ==
  ASSUME KeepBuffer, disk \in DOMAIN kept
  PROVE  DOMAIN kept' = DOMAIN kept /\ kept' # <<>>
<1>1. DOMAIN kept' = DOMAIN kept
  BY DEF KeepBuffer
<1>. QED
  BY <1>1

LEMMA ReadHeaderStep == ASSUME IInv, ReadHeader, goal' = goal PROVE IInv'
<1>1. /\ place = "header" /\ KeepBuffer
      /\ UNCHANGED <<machine, at, drivers, disks, volumes, partitions, diskCursor,
                     partitionCursor, mountOf, entry>>
      /\ \/ Content(disk).gpt /\ place' \in {"table", "fault"} /\ disk' = disk
         \/ ~ Content(disk).gpt /\ place' \in {"volumes", "fault"} /\ disk' = disk + 1
  BY DEF ReadHeader, BlocksRead, Goto
<1>2. /\ ~ Early /\ Walk /\ Phases /\ LettersAre(Visited) /\ VolumesAre(DisksPassed)
      /\ disk \in Positive /\ entry \in Positive /\ NumDisks \in Nat
      /\ Mounting /\ disk \in 1 .. NumDisks /\ disk <= NumMounts /\ DOMAIN kept = 1 .. NumDisks
  BY <1>1, MountingFacts DEF Mounting
<1>3. DOMAIN kept' = 1 .. NumDisks /\ kept' # <<>> /\ NumDisks' = NumDisks
  BY <1>1, <1>2, KeptFacts, SameDisks
<1>4. DisksPassed = disk /\ disk \in Nat /\ disk + 1 \in Positive
  BY <1>2 DEF DisksPassed, Positive
<1>5. CASE place' = "table"
  <2>1. Content(disk).gpt /\ disk' = disk
    BY <1>1, <1>5
  <2>2. Content(disk)'.gpt
    BY <1>1, <2>1 DEF Content, FirstDriver, Function
  <2>3. Phases'
    BY <1>1, <1>2, <1>3, <1>5, <2>1, <2>2
       DEF Phases, Early, Mounting, Constructing, ScansRoot, Ready
  <2>4. DisksPassed' = DisksPassed
    BY <1>4, <1>5, <2>1 DEF DisksPassed, Mounting
  <2>5. \A p \in ShouldMount : Passed(p)' <=> Passed(p)
    BY <1>1, <1>5, <2>1 DEF Passed
  <2>. QED
    BY <1>1, <1>2, <1>5, <2>3, <2>4, <2>5, SameLetters, SameVolumes, MountingStep DEF Early
<1>6. CASE place' = "volumes"
  <2>1. ~ Content(disk).gpt /\ disk' = disk + 1
    BY <1>1, <1>6
  <2>2. Phases'
    BY <1>1, <1>2, <1>3, <1>4, <1>6, <2>1
       DEF Phases, Early, Mounting, Constructing, ScansRoot, Ready
  <2>3. DisksPassed' = DisksPassed
    BY <1>4, <1>6, <2>1 DEF DisksPassed, Mounting, Constructing, ScansRoot
  <2>4. ASSUME NEW p \in ShouldMount PROVE Passed(p)' <=> Passed(p)
    <3>1. p[1] \in Nat /\ p[1] # disk
      BY <1>1, <1>2, <2>1, Members
    <3>. QED
      BY <1>1, <1>4, <1>6, <2>1, <3>1 DEF Passed
  <2>. QED
    BY <1>1, <1>2, <1>6, <2>2, <2>3, <2>4, SameLetters, SameVolumes, MountingStep DEF Early
<1>7. CASE place' = "fault"
  BY <1>1, <1>2, <1>7, MountingStep DEF Early
<1>. QED
  BY <1>1, <1>5, <1>6, <1>7

LEMMA ReadTableStep == ASSUME IInv, ReadTable, goal' = goal PROVE IInv'
<1>1. /\ place = "table" /\ KeepBuffer /\ place' \in {"entries", "fault"} /\ entry' = 1
      /\ UNCHANGED <<machine, at, drivers, disks, volumes, partitions, diskCursor,
                     partitionCursor, mountOf, disk>>
  BY DEF ReadTable, BlocksRead, Goto
<1>2. /\ ~ Early /\ Walk /\ Phases /\ LettersAre(Visited) /\ VolumesAre(DisksPassed)
      /\ disk \in Positive /\ NumDisks \in Nat
      /\ Mounting /\ disk \in 1 .. NumDisks /\ disk <= NumMounts /\ DOMAIN kept = 1 .. NumDisks
  BY <1>1, MountingFacts DEF Mounting
<1>3. DOMAIN kept' = 1 .. NumDisks /\ kept' # <<>> /\ NumDisks' = NumDisks
  BY <1>1, <1>2, KeptFacts, SameDisks
<1>4. Content(disk)'.gpt /\ 1 \in Positive
  <2>1. Content(disk).gpt
    BY <1>1, <1>2 DEF Phases
  <2>2. Content(disk)' = Content(disk)
    BY <1>1 DEF Content, FirstDriver, Function
  <2>. QED
    BY <2>1, <2>2 DEF Positive
<1>5. CASE place' = "entries"
  <2>1. Phases'
    BY <1>1, <1>2, <1>3, <1>4, <1>5 DEF Phases, Early, Mounting, Constructing, ScansRoot, Ready
  <2>2. DisksPassed' = DisksPassed
    BY <1>1, <1>2, <1>5 DEF DisksPassed, Mounting
  <2>3. ASSUME NEW p \in ShouldMount PROVE Passed(p)' <=> Passed(p)
    <3>1. p[2] \in Nat /\ p[2] >= 1
      BY <1>1, <1>2, Members
    <3>. QED
      BY <1>1, <1>5, <3>1 DEF Passed
  <2>. QED
    BY <1>1, <1>2, <1>5, <2>1, <2>2, <2>3, SameLetters, SameVolumes, MountingStep DEF Early
<1>6. CASE place' = "fault"
  BY <1>1, <1>2, <1>6, MountingStep DEF Early
<1>. QED
  BY <1>1, <1>5, <1>6

\* While the entries of a table are looked at: a partition is passed with its entry.
LEMMA EntryFacts ==
  ASSUME IInv, place = "entries" \/ Constructing
  PROVE  /\ ~ Early /\ Walk /\ Phases /\ LettersAre(Visited) /\ VolumesAre(DisksPassed)
         /\ Mounting /\ disk \in 1 .. NumDisks /\ disk <= NumMounts /\ disk \in Positive
         /\ DOMAIN kept = 1 .. NumDisks /\ kept # <<>> /\ entry \in Positive
         /\ NumDisks \in Nat /\ DisksPassed = disk
         /\ Content(disk).gpt /\ Entries = Content(disk).entries
         /\ Len(Entries) \in Nat /\ DOMAIN Entries = 1 .. Len(Entries)
<1>1. Mounting
  BY DEF Mounting
<1>2. /\ ~ Early /\ place # "fault" /\ Walk /\ Phases /\ LettersAre(Visited) /\ VolumesAre(DisksPassed)
      /\ disk \in 1 .. NumDisks /\ disk <= NumMounts /\ disk \in Positive
      /\ DOMAIN kept = 1 .. NumDisks /\ entry \in Positive /\ NumDisks \in Nat
  BY <1>1, MountingFacts
<1>3. kept # <<>>
  BY <1>2
<1>4. DisksPassed = disk /\ Entries = Content(disk).entries
  BY <1>1 DEF DisksPassed, Entries
<1>5. Content(disk).gpt
  BY <1>2 DEF Phases
<1>6. Len(Entries) \in Nat /\ DOMAIN Entries = 1 .. Len(Entries)
  BY <1>2, <1>4, <1>5, DiskFacts
<1>. QED
  BY <1>1, <1>2, <1>3, <1>4, <1>5, <1>6

\* The next entry of the table, when the one that is left is not mounted.
LEMMA LeaveEntry ==
  ASSUME IInv, place = "entries", place' \in {"entries", "fault"}, goal' = goal,
         entry' = entry + 1, <<disk, entry>> \notin ShouldMount,
         DOMAIN kept' = DOMAIN kept, kept' # <<>>,
         UNCHANGED <<machine, at, drivers, disks, volumes, partitions, diskCursor,
                     partitionCursor, mountOf, disk>>
  PROVE  IInv'
<1>1. entry \in Nat /\ entry + 1 \in Positive
  BY EntryFacts DEF Positive
<1>2. Content(disk)' = Content(disk) /\ NumDisks' = NumDisks
  BY SameDisks DEF Content, FirstDriver, Function
<1>3. CASE place' = "entries"
  <2>1. Phases'
    BY <1>1, <1>2, <1>3, EntryFacts DEF Phases, Early, Mounting, Constructing, ScansRoot, Ready
  <2>2. DisksPassed' = DisksPassed
    BY <1>3, EntryFacts DEF DisksPassed, Mounting
  <2>3. ASSUME NEW p \in ShouldMount PROVE Passed(p)' <=> Passed(p)
    <3>1. p = <<p[1], p[2]>> /\ p[2] \in Nat
      BY EntryFacts, Members
    <3>2. p[1] = disk => p[2] # entry
      BY <3>1
    <3>. QED
      BY <1>1, <1>3, <3>1, <3>2 DEF Passed
  <2>. QED
    BY <1>3, <2>1, <2>2, <2>3, EntryFacts, SameLetters, SameVolumes, MountingStep DEF Early
<1>4. CASE place' = "fault"
  BY <1>4, EntryFacts, MountingStep DEF Early
<1>. QED
  BY <1>3, <1>4

LEMMA SkipEntryStep == ASSUME IInv, SkipEntry, goal' = goal PROVE IInv'
<1>1. /\ place = "entries" /\ place' = "entries" /\ entry' = entry + 1
      /\ Entries[entry].type # "basic"
      /\ UNCHANGED <<machine, at, drivers, disks, volumes, partitions, diskCursor,
                     partitionCursor, mountOf, disk, kept>>
  BY DEF SkipEntry, InTable, deviceVars
<1>2. <<disk, entry>> \notin ShouldMount
  <2>1. Entry(<<disk, entry>>) = Entries[entry]
    BY DEF Entry, Entries
  <2>. QED
    BY <1>1, <2>1 DEF ShouldMount
<1>. QED
  BY <1>1, <1>2, EntryFacts, LeaveEntry

LEMMA ReadBootSectorStep == ASSUME IInv, ReadBootSector, goal' = goal PROVE IInv'
<1>1. /\ place = "entries" /\ entry <= Len(Entries) /\ KeepBuffer
      /\ Entries[entry].type = "basic"
      /\ UNCHANGED <<machine, at, drivers, disks, volumes, partitions, diskCursor,
                     partitionCursor, mountOf, disk>>
      /\ \/ Entries[entry].fat32 /\ place' \in {"construct", "fault"} /\ entry' = entry
         \/ ~ Entries[entry].fat32 /\ place' \in {"entries", "fault"} /\ entry' = entry + 1
  BY DEF ReadBootSector, BlocksRead, Goto, InTable
<1>2. DOMAIN kept' = DOMAIN kept /\ kept' # <<>>
  BY <1>1, EntryFacts, KeptFacts
<1>3. CASE /\ Entries[entry].fat32 /\ entry' = entry /\ place' = "construct"
  <2>1. Entries' = Entries /\ Content(disk)' = Content(disk) /\ NumDisks' = NumDisks
    BY <1>1, SameDisks DEF Entries, Content, FirstDriver, Function
  <2>2. entry \in DOMAIN Entries
    BY <1>1, EntryFacts DEF Positive
  <2>3. Phases'
    BY <1>1, <1>2, <1>3, <2>1, <2>2, EntryFacts
       DEF Phases, Early, Mounting, Constructing, ScansRoot, Ready
  <2>4. DisksPassed' = DisksPassed
    BY <1>1, <1>3, EntryFacts DEF DisksPassed, Mounting, Constructing
  <2>5. \A p \in ShouldMount : Passed(p)' <=> Passed(p)
    BY <1>1, <1>3 DEF Passed
  <2>. QED
    BY <1>1, <1>3, <2>3, <2>4, <2>5, EntryFacts, SameLetters, SameVolumes, MountingStep DEF Early
<1>4. CASE place' = "fault"
  BY <1>1, <1>4, EntryFacts, MountingStep DEF Early
<1>5. CASE ~ Entries[entry].fat32 /\ place' = "entries" /\ entry' = entry + 1
  <2>1. <<disk, entry>> \notin ShouldMount
    <3>1. Entry(<<disk, entry>>) = Entries[entry]
      BY DEF Entry, Entries
    <3>. QED
      BY <1>5, <3>1 DEF ShouldMount
  <2>. QED
    BY <1>1, <1>2, <1>5, <2>1, LeaveEntry
<1>. QED
  BY <1>1, <1>3, <1>4, <1>5

LEMMA NextDiskStep == ASSUME IInv, NextDisk, goal' = goal PROVE IInv'
<1>1. /\ place = "entries" /\ entry > Len(Entries) /\ place' = "volumes" /\ disk' = disk + 1
      /\ UNCHANGED <<machine, at, drivers, disks, volumes, partitions, diskCursor,
                     partitionCursor, mountOf, kept, entry>>
  BY DEF NextDisk, Goto
<1>2. disk \in Nat /\ disk + 1 \in Positive /\ NumDisks' = NumDisks
  BY <1>1, EntryFacts, SameDisks DEF Positive
<1>3. Phases'
  BY <1>1, <1>2, EntryFacts DEF Phases, Early, Mounting, Constructing, ScansRoot, Ready
<1>4. DisksPassed' = DisksPassed
  BY <1>1, <1>2, EntryFacts DEF DisksPassed, Mounting, Constructing, ScansRoot
<1>5. ASSUME NEW p \in ShouldMount PROVE Passed(p)' <=> Passed(p)
  <2>1. p[1] \in Nat /\ Len(Content(p[1]).entries) \in Nat /\ p[2] \in 1 .. Len(Content(p[1]).entries)
    BY <1>1, EntryFacts, Members
  <2>2. p[1] = disk => p[2] < entry
    BY <1>1, <2>1, EntryFacts DEF Positive
  <2>. QED
    BY <1>1, <1>2, <2>1, <2>2 DEF Passed
<1>. QED
  BY <1>1, <1>3, <1>4, <1>5, EntryFacts, SameLetters, SameVolumes, MountingStep DEF Early

LEMMA VolumesReadyStep == ASSUME IInv, VolumesReady, goal' = goal PROVE IInv'
<1>1. /\ place = "volumes" /\ disk > NumDisks /\ place' = "screen"
      /\ UNCHANGED <<machine, at, drivers, disks, volumes, partitions, diskCursor,
                     partitionCursor, mountOf, kept, disk, entry>>
  BY DEF VolumesReady, Goto, volumeVars
<1>2. NumDisks' = NumDisks
  BY <1>1, SameDisks
<1>3. Phases'
  BY <1>1, <1>2, MountingFacts DEF Phases, Early, Mounting, Constructing, ScansRoot, Ready
<1>4. DisksPassed' = DisksPassed
  BY <1>1 DEF DisksPassed, Mounting, Constructing, ScansRoot
<1>5. ASSUME NEW p \in ShouldMount PROVE Passed(p)' <=> Passed(p)
  <2>1. p[1] \in 1 .. NumDisks
    BY <1>1, MountingFacts, Members
  <2>2. p[1] < disk
    BY <1>1, <2>1, MountingFacts DEF Positive
  <2>. QED
    BY <1>1, <2>2 DEF Passed
<1>. QED
  BY <1>1, <1>3, <1>4, <1>5, MountingFacts, SameLetters, SameVolumes, MountingStep DEF Early

\* A partition that mounts itself gets the next letter, as long as there is one; its rank
\* among all of them is the number of those that were passed.
LEMMA LetterStep ==
  ASSUME LettersAre(Visited), MountPartition(Current), Current \in ShouldMount,
         Visited = {q \in ShouldMount : Before(q, Current)},
         Visited' = Visited \cup {Current}, Current \notin Visited,
         ShouldMount' = ShouldMount
  PROVE  LettersAre(Visited)'
<1>. DEFINE V == Visited
            k == Cardinality(V)
            W == Visited \cup {Current}
<1>1. IsFiniteSet(V) /\ k \in Nat
  BY FS_CardinalityType DEF LettersAre
<1>2. IsFiniteSet(W) /\ Cardinality(W) = k + 1
  BY <1>1, FS_AddElement
<1>3. Rank(ShouldMount, Current) = k
  BY DEF Rank
<1>4. /\ DOMAIN partitions = Letters /\ partitionCursor = Least(k)
      /\ \A m \in Letters :
           /\ partitions[m] # None <=> m < k
           /\ partitions[m] # None =>
                /\ partitions[m] \in V /\ Rank(ShouldMount, partitions[m]) = m
                /\ partitions[m] \in DOMAIN mountOf /\ mountOf[partitions[m]] = m
      /\ \A p \in V : Rank(ShouldMount, p) \in Letters => partitions[Rank(ShouldMount, p)] = p
  BY DEF LettersAre
<1>5. \A m \in Letters : m \in TakenLetters <=> m < k
  BY <1>4 DEF TakenLetters
<1>6. NextFree(partitionCursor, TakenLetters) =
        IF k < NumMounts THEN [mount |-> k, cursor |-> k + 1]
        ELSE [mount |-> 255, cursor |-> NumMounts]
  BY <1>1, <1>4, <1>5, NextOfMounts
<1>7. NumMounts \in Nat /\ NumMounts <= 255
  BY VolumeAssumption
<1>8. Current # None
  BY DEF Current, None
<1>9. SUFFICES
        /\ DOMAIN partitions' = Letters /\ partitionCursor' = Least(k + 1)
        /\ \A m \in Letters :
             /\ partitions'[m] # None <=> m < k + 1
             /\ partitions'[m] # None =>
                  /\ partitions'[m] \in W /\ Rank(ShouldMount, partitions'[m]) = m
                  /\ partitions'[m] \in DOMAIN mountOf' /\ mountOf'[partitions'[m]] = m
        /\ \A p \in W : Rank(ShouldMount, p) \in Letters => partitions'[Rank(ShouldMount, p)] = p
  BY <1>2 DEF LettersAre
<1>. HIDE DEF V, k, W
<1>10. CASE k < NumMounts
  <2>1. /\ partitionCursor' = k + 1 /\ partitions' = [partitions EXCEPT ![k] = Current]
        /\ mountOf' = [q \in DOMAIN mountOf \cup {Current} |-> IF q = Current THEN k ELSE mountOf[q]]
    BY <1>6, <1>10 DEF MountPartition
  <2>2. k \in Letters /\ k + 1 = Least(k + 1)
    BY <1>1, <1>7, <1>10 DEF Letters, Least
  <2>3. /\ DOMAIN partitions' = Letters /\ partitions'[k] = Current
        /\ \A m \in Letters : m # k => partitions'[m] = partitions[m]
    BY <1>4, <2>1, <2>2
  <2>4. /\ DOMAIN mountOf' = DOMAIN mountOf \cup {Current} /\ mountOf'[Current] = k
        /\ \A q \in DOMAIN mountOf : q # Current => mountOf'[q] = mountOf[q]
    BY <2>1
  <2>5. ASSUME NEW m \in Letters
        PROVE  /\ partitions'[m] # None <=> m < k + 1
               /\ partitions'[m] # None =>
                    /\ partitions'[m] \in W /\ Rank(ShouldMount, partitions'[m]) = m
                    /\ partitions'[m] \in DOMAIN mountOf' /\ mountOf'[partitions'[m]] = m
    <3>1. CASE m = k
      BY <1>1, <1>3, <1>8, <2>3, <2>4, <3>1 DEF W
    <3>2. CASE m # k
      <4>1. partitions'[m] = partitions[m] /\ (m < k <=> m < k + 1)
        BY <1>1, <2>3, <2>5, <3>2 DEF Letters
      <4>2. partitions[m] # None => partitions[m] \in V /\ partitions[m] # Current
        BY <1>4, <2>5 DEF V
      <4>. QED
        BY <1>4, <2>4, <2>5, <4>1, <4>2 DEF V, W
    <3>. QED
      BY <3>1, <3>2
  <2>6. ASSUME NEW p \in W, Rank(ShouldMount, p) \in Letters
        PROVE  partitions'[Rank(ShouldMount, p)] = p
    <3>1. CASE p = Current
      BY <1>3, <2>3, <3>1
    <3>2. CASE p \in V
      <4>1. /\ Rank(ShouldMount, p) \in Letters
            /\ partitions[Rank(ShouldMount, p)] = p
        BY <1>4, <2>6, <3>2
      <4>2. Rank(ShouldMount, p) # k
        <5>1. p # None
          BY <1>4, <3>2, <4>1, <1>8, <2>2 DEF V, ShouldMount, None
        <5>. QED
          BY <1>1, <1>4, <2>2, <4>1, <5>1
      <4>. QED
        BY <2>3, <4>1, <4>2
    <3>. QED
      BY <2>6, <3>1, <3>2 DEF V, W
  <2>. QED
    BY <2>1, <2>2, <2>3, <2>5, <2>6
<1>11. CASE ~ (k < NumMounts)
  <2>1. /\ partitionCursor' = NumMounts /\ partitions' = partitions /\ mountOf' = mountOf
    BY <1>6, <1>7, <1>11 DEF MountPartition
  <2>2. NumMounts = Least(k + 1) /\ k \notin Letters /\ \A m \in Letters : m < k /\ m < k + 1
    BY <1>1, <1>7, <1>11 DEF Letters, Least
  <2>3. V \subseteq W /\ \A p \in W : p \in V \/ p = Current
    BY DEF V, W
  <2>. QED
    BY <1>3, <1>4, <2>1, <2>2, <2>3
<1>. QED
  BY <1>10, <1>11

LEMMA AddPartitionStep ==
  ASSUME IInv, place = "mount", AddPartition, goal' = "mount"
  PROVE  IInv'
<1>1. /\ place' = "entries" /\ entry' = entry + 1
      /\ UNCHANGED <<machine, at, drivers, disks, volumes, diskCursor, kept, disk>>
  BY DEF AddPartition, Goto
<1>2. Constructing
  BY DEF Constructing
<1>3. /\ entry \in DOMAIN Entries /\ Entries[entry].type = "basic" /\ Entries[entry].fat32
      /\ entry \in Nat /\ entry + 1 \in Positive
  BY <1>2, EntryFacts DEF Phases, Positive
<1>4. Content(disk)' = Content(disk) /\ NumDisks' = NumDisks /\ ShouldMount' = ShouldMount
  BY <1>1, SameDisks DEF Content, FirstDriver, Function
<1>5. Phases'
  BY <1>1, <1>2, <1>3, <1>4, EntryFacts DEF Phases, Early, Mounting, Constructing, ScansRoot, Ready
<1>6. DisksPassed' = DisksPassed
  BY <1>1, <1>2, EntryFacts DEF DisksPassed, Mounting
<1>7. VolumesAre(DisksPassed)'
  BY <1>1, <1>2, <1>6, EntryFacts, SameVolumes
<1>8. ASSUME NEW p \in ShouldMount
      PROVE  /\ p = <<p[1], p[2]>> /\ p[1] \in Nat /\ p[2] \in Nat
             /\ Passed(p) <=> Before(p, Current)
             /\ Passed(p)' <=> Before(p, Current) \/ p = Current
  <2>1. p = <<p[1], p[2]>> /\ p[1] \in Nat /\ p[2] \in Nat
    BY <1>2, EntryFacts, Members DEF Early
  <2>2. disk \in Nat /\ Current[1] = disk /\ Current[2] = entry /\ Current = <<disk, entry>>
    BY <1>2, EntryFacts DEF Current, Positive
  <2>3. Passed(p) <=> Before(p, Current)
    BY <2>2 DEF Passed, Before
  <2>4. p = Current <=> p[1] = disk /\ p[2] = entry
    BY <2>1, <2>2
  <2>5. Passed(p)' <=> p[1] < disk \/ (p[1] = disk /\ p[2] < entry + 1)
    BY <1>1 DEF Passed
  <2>. QED
    BY <1>3, <2>1, <2>2, <2>3, <2>4, <2>5 DEF Before
<1>9. Visited = {q \in ShouldMount : Before(q, Current)}
  BY <1>8 DEF Visited
<1>10. Visited' = {q \in ShouldMount : Before(q, Current) \/ q = Current}
  BY <1>4, <1>8 DEF Visited
<1>11. CASE Mountable(Entries[entry])
  <2>1. Current \in ShouldMount
    BY <1>2, <1>3, <1>11, EntryFacts, IsMember DEF Current
  <2>2. Visited' = Visited \cup {Current}
    BY <1>9, <1>10, <2>1
  <2>3. ~ Before(Current, Current)
    BY <1>3, <1>2, EntryFacts DEF Before, Current, Positive
  <2>4. MountPartition(Current)
    BY <1>11 DEF AddPartition
  <2>5. LettersAre(Visited)'
    BY <1>2, <1>4, <1>9, <2>1, <2>2, <2>3, <2>4, EntryFacts, LetterStep
  <2>. QED
    BY <1>1, <1>2, <1>5, <1>7, <2>5, EntryFacts, MountingStep DEF Early
<1>12. CASE ~ Mountable(Entries[entry])
  <2>1. UNCHANGED <<partitions, partitionCursor, mountOf>>
    BY <1>12 DEF AddPartition
  <2>2. Current \notin ShouldMount
    <3>1. Entry(Current) = Entries[entry]
      BY DEF Entry, Entries, Current
    <3>. QED
      BY <1>12, <3>1 DEF ShouldMount, Mountable, AutoMount, Hidden
  <2>3. \A p \in ShouldMount : Passed(p)' <=> Passed(p)
    BY <1>8, <2>2
  <2>4. LettersAre(Visited)'
    BY <1>1, <1>2, <2>1, <2>3, EntryFacts, SameLetters
  <2>. QED
    BY <1>1, <1>2, <1>5, <1>7, <2>4, EntryFacts, MountingStep DEF Early
<1>. QED
  BY <1>11, <1>12

LEMMA ConstructedStep == ASSUME IInv, Constructed PROVE IInv'
<1>1. place = "mount" /\ goal' = "mount" /\ Constructing
  BY DEF Constructed, ForgetScan, Constructing
<1>2. CASE AddPartition
  BY <1>1, <1>2, AddPartitionStep
<1>3. CASE place' = "fault" /\ UNCHANGED <<machine, at, drivers, disks, volumeVars>>
  <2>1. ~ Early /\ place # "fault" /\ ~ Early'
    BY <1>1, <1>3 DEF Early
  <2>. QED
    BY <1>3, <2>1, MountingStep
<1>. QED
  BY <1>2, <1>3 DEF Constructed, Goto

\* A scan is begun, or there is no buffer for it.
LEMMA BegunScan ==
  ASSUME NEW p, NEW c, NEW for \in {"mount", "lookup", "sectors"}, BeginScan(p, c, for)
  PROVE  /\ goal' = for /\ place' \in {"scan", for}
         /\ for = "mount" => Constructing'
         /\ for # "mount" => Ready'
  BY DEF BeginScan, Goto, Constructing, ScansRoot, Ready

LEMMA FaultStep ==
  ASSUME IInv, Constructing \/ Ready, place' = "fault",
         UNCHANGED <<machine, at, drivers, disks>>
  PROVE  IInv'
<1>1. ~ Early /\ place # "fault" /\ ~ Early'
  BY DEF Early, Constructing, ScansRoot, Ready
<1>. QED
  BY <1>1, MountingStep

LEMMA GoalType == ASSUME IInv, place # "fault" PROVE goal \in {"mount", "lookup", "sectors"}
  BY DEF IInv, Phases

\* A path is resolved when the volumes are ready.
LEMMA ResolveStep ==
  ASSUME IInv, place \in {"screen", "running"}, NEW p, Resolve(p)
  PROVE  IInv'
<1>. DEFINE q == IF p.letter \in Letters THEN partitions[p.letter] ELSE None
<1>1. /\ UNCHANGED <<machine, at, drivers, disks, volumeVars>>
      /\ \/ BeginScan(q, 0, "lookup")
         \/ place' = "return" /\ UNCHANGED scanVars
         \/ place' = "fault"
  BY DEF Resolve, Goto
<1>2. Ready /\ goal \in {"mount", "lookup", "sectors"}
  BY GoalType DEF Ready
<1>3. CASE BeginScan(q, 0, "lookup")
  <2>1. goal' = "lookup" /\ Ready'
    BY <1>3, BegunScan
  <2>. QED
    BY <1>1, <1>2, <2>1, QuietStep
<1>4. CASE place' = "return" /\ UNCHANGED scanVars
  <2>1. goal' = goal /\ Ready'
    BY <1>4 DEF scanVars, Ready
  <2>. QED
    BY <1>1, <1>2, <2>1, QuietStep
<1>5. CASE place' = "fault"
  BY <1>1, <1>2, <1>5, FaultStep
<1>. QED
  BY <1>1, <1>3, <1>4, <1>5

\* The steps of a chain that is followed.
LEMMA ChainStep ==
  ASSUME IInv, FollowChain \/ EndScan
  PROVE  IInv'
<1>1. /\ place = "scan" /\ place' \in {"scan", goal} /\ goal' = goal
      /\ UNCHANGED <<machine, at, drivers, disks, volumeVars>>
  BY DEF FollowChain, EndScan, Goto, deviceVars
<1>2. goal \in {"mount", "lookup", "sectors"}
  BY <1>1, GoalType
<1>3. (Constructing /\ Constructing') \/ (Ready /\ Ready')
  BY <1>1, <1>2 DEF Constructing, ScansRoot, Ready
<1>. QED
  BY <1>1, <1>2, <1>3, QuietStep

LEMMA ConstructStep == ASSUME IInv, Construct PROVE IInv'
<1>1. /\ place = "construct" /\ BeginScan(Current, 0, "mount")
      /\ UNCHANGED <<machine, at, drivers, disks, volumeVars>>
  BY DEF Construct
<1>2. Constructing /\ goal' = "mount" /\ Constructing'
  BY <1>1, BegunScan DEF Constructing
<1>. QED
  BY <1>1, <1>2, QuietStep

\* The steps of a path.
LEMMA PathStep ==
  ASSUME IInv,
         ReadNoDirectory \/ FindFile \/ EnterDirectory \/ FindNothing \/ AnswerFile \/ Return
  PROVE  IInv'
<1>1. /\ place \in {"lookup", "sectors", "return"}
      /\ UNCHANGED <<machine, at, drivers, disks, volumeVars>>
  BY DEF ReadNoDirectory, FindFile, EnterDirectory, FindNothing, AnswerFile, Return, LookUp
<1>2. Ready /\ goal \in {"mount", "lookup", "sectors"}
  BY <1>1, GoalType DEF Ready
<1>3. CASE place' = "fault"
  BY <1>1, <1>2, <1>3, FaultStep
<1>4. CASE Ready' /\ goal' \in {"mount", "lookup", "sectors"}
  BY <1>1, <1>2, <1>4, QuietStep
<1>5. CASE ReadNoDirectory
  <2>1. place' \in {"return", "fault"} /\ goal' = goal
    BY <1>5 DEF ReadNoDirectory, scanVars
  <2>. QED
    BY <1>2, <1>3, <1>4, <2>1 DEF Ready
<1>6. CASE FindFile
  <2>1. BeginScan(open, NewCluster(EntryAt(FirstOf(Matches))), "sectors")
    BY <1>6 DEF FindFile
  <2>. QED
    BY <1>4, <2>1, BegunScan
<1>7. CASE EnterDirectory
  <2>1. BeginScan(open, cluster', "lookup")
    BY <1>7 DEF EnterDirectory
  <2>2. goal' = "lookup" /\ place' \in {"scan", "lookup"}
    BY <2>1 DEF BeginScan, Goto
  <2>. QED
    BY <1>4, <2>2 DEF Ready
<1>8. CASE FindNothing \/ AnswerFile \/ Return
  <2>1. place' \in {"return", "running"} /\ goal' \in {goal, "mount"}
    BY <1>8 DEF FindNothing, AnswerFile, Return, Goto, ForgetScan, fatVars, scanVars
  <2>. QED
    BY <1>2, <1>4, <2>1 DEF Ready
<1>. QED
  BY <1>5, <1>6, <1>7, <1>8

LEMMA VolumeInvariant == ASSUME IInv, VolumeStep, goal' = goal PROVE IInv'
  BY InitVolumesStep, MountVolumeStep, ReadHeaderStep, ReadTableStep, SkipEntryStep,
     ReadBootSectorStep, NextDiskStep, VolumesReadyStep DEF VolumeStep

LEMMA StutterStep ==
  ASSUME IInv, UNCHANGED vars
  PROVE  IInv'
<1>1. /\ UNCHANGED <<machine, place, at, drivers, disks>>
      /\ UNCHANGED <<volumes, partitions, diskCursor, partitionCursor, mountOf, kept, disk, entry, goal>>
  BY DEF vars, deviceVars, volumeVars, fatVars, scanVars
<1>2. Walk'
  BY <1>1 DEF IInv, Walk, WalkType, BusWalk, DiskWalk, InRange, IsController, IsDisk, Function, Early
<1>3. (Early' <=> Early) /\ (Mounting' <=> Mounting) /\ (Constructing' <=> Constructing)
      /\ (Ready' <=> Ready)
  BY <1>1 DEF Early, Mounting, Constructing, ScansRoot, Ready
<1>4. ShouldMount' = ShouldMount /\ NumDisks' = NumDisks /\ Content(disk)' = Content(disk)
      /\ Entries' = Entries
  BY <1>1, SameDisks DEF Entries, Content, FirstDriver, Function
<1>5. ASSUME Phases PROVE Phases'
  BY <1>1, <1>3, <1>4, <1>5 DEF Phases
<1>6. ASSUME Unmounted PROVE Unmounted'
  BY <1>1, <1>4, <1>6 DEF Unmounted, VolumesAre, LettersAre
<1>7. ASSUME Mounts PROVE Mounts'
  <2>1. \A p \in ShouldMount : Passed(p)' <=> Passed(p)
    BY <1>1 DEF Passed
  <2>2. DisksPassed' = DisksPassed
    BY <1>1, <1>3 DEF DisksPassed
  <2>. QED
    BY <1>1, <1>3, <1>7, <2>1, <2>2, SameLetters, SameVolumes DEF Mounts
<1>. QED
  BY <1>1, <1>2, <1>3, <1>5, <1>6, <1>7 DEF IInv

LEMMA NextInvariant == IInv /\ [Next]_vars => IInv'
<1>. SUFFICES ASSUME IInv, [Next]_vars PROVE IInv'
  OBVIOUS
<1>1. CASE DeviceStep /\ UNCHANGED <<volumeVars, fatVars, caller, drawn>>
  BY <1>1, DeviceInvariant DEF fatVars, scanVars
<1>2. CASE VolumeStep /\ UNCHANGED <<fatVars, caller, drawn>>
  BY <1>2, VolumeInvariant DEF fatVars, scanVars
<1>3. CASE FatStep /\ UNCHANGED <<caller, drawn>>
  BY <1>3, ChainStep, ConstructStep, ConstructedStep, PathStep DEF FatStep
<1>4. CASE DrawBootScreen
  BY <1>4, ResolveStep DEF DrawBootScreen
<1>5. CASE Return
  BY <1>5, PathStep
<1>6. ASSUME NEW p \in Paths, SysResolveFile(p) PROVE IInv'
  BY <1>6, ResolveStep DEF SysResolveFile
<1>7. CASE UNCHANGED vars
  BY <1>7, StutterStep
<1>. QED
  BY <1>1, <1>2, <1>3, <1>4, <1>5, <1>6, <1>7 DEF Next, StorageStep

-----------------------------------------------------------------------------
(* The theorems.                                                           *)

\* Until something is read where nothing is, disks have their drivers and ports, and letters
\* and mount points are in step with the partitions and disks that were passed.
THEOREM StorageInvariant == Spec => []IInv
  BY InitInvariant, NextInvariant, PTL DEF Spec

LEMMA MountsFollow == IInv => MountsAreExact
<1>. SUFFICES ASSUME IInv, place \in {"screen", "running", "return"} PROVE MountsAreExact
  BY DEF MountsAreExact
<1>1. Ready /\ ~ Early /\ place # "fault" /\ ~ Mounting
  BY DEF Ready, Early, Mounting, Constructing, ScansRoot
<1>2. Walk /\ Phases /\ VolumesAre(DisksPassed) /\ LettersAre(Visited)
  BY <1>1 DEF IInv, Mounts
<1>3. NumDisks \in Nat /\ disk \in Nat
  BY <1>1, <1>2, DiskFacts DEF Phases, Positive
<1>4. disk = NumDisks + 1
  BY <1>1, <1>2, <1>3 DEF Phases
<1>5. DisksPassed = NumDisks
  BY <1>1, <1>3, <1>4 DEF DisksPassed
<1>6. ASSUME NEW p \in ShouldMount PROVE Passed(p)
  <2>1. p[1] \in 1 .. NumDisks
    BY <1>1, <1>2, Members
  <2>. QED
    BY <1>3, <1>4, <2>1 DEF Passed
<1>7. Visited = ShouldMount
  BY <1>6 DEF Visited
<1>. QED
  BY <1>2, <1>5, <1>7 DEF MountsAreExact, VolumesAre, LettersAre

\* VolumeManager: when the volumes are ready, every partition that mounts itself has the
\* letter of its rank and knows it, as long as there are letters, and every disk a mount
\* point; the cursors overwrite nothing and refuse nobody.
THEOREM MountsAreExactTheorem == Spec => []MountsAreExact
  BY StorageInvariant, MountsFollow, PTL

LEMMA LetterKept ==
  ASSUME IInv, Constructed, NEW m \in Letters, partitions[m] # None
  PROVE  partitions'[m] = partitions[m]
<1>1. CASE UNCHANGED partitions
  BY <1>1
<1>2. CASE MountPartition(Current)
  <2>. DEFINE k == Cardinality(Visited)
  <2>1. place = "mount" /\ Constructing
    BY DEF Constructed, Constructing
  <2>2. LettersAre(Visited)
    BY <2>1, EntryFacts
  <2>3. k \in Nat /\ DOMAIN partitions = Letters /\ partitionCursor = Least(k)
    BY <2>2, FS_CardinalityType DEF LettersAre
  <2>4. \A n \in Letters : n \in TakenLetters <=> n < k
    BY <2>2, <2>3 DEF LettersAre, TakenLetters
  <2>. HIDE DEF k
  <2>5. NextFree(partitionCursor, TakenLetters) =
          IF k < NumMounts THEN [mount |-> k, cursor |-> k + 1]
          ELSE [mount |-> 255, cursor |-> NumMounts]
    BY <2>3, <2>4, NextOfMounts
  <2>6. m < k
    BY <2>3, <2>4 DEF TakenLetters
  <2>7. NumMounts \in Nat /\ NumMounts <= 255 /\ m \in Nat
    BY VolumeAssumption DEF Letters
  <2>8. UNCHANGED partitions \/ partitions' = [partitions EXCEPT ![k] = Current]
    BY <1>2, <2>5, <2>7 DEF MountPartition
  <2>9. m # k
    BY <2>3, <2>6, <2>7
  <2>. QED
    BY <2>3, <2>8, <2>9
<1>. QED
  BY <1>1, <1>2 DEF Constructed, AddPartition, volumeVars

LEMMA OthersMountNothing ==
  ASSUME [Next]_vars, ~ Constructed
  PROVE  UNCHANGED partitions
<1>1. CASE UNCHANGED vars
  BY <1>1 DEF vars, volumeVars
<1>2. CASE UNCHANGED volumeVars
  BY <1>2 DEF volumeVars
<1>3. CASE VolumeStep
  BY <1>3 DEF VolumeStep, InitVolumes, MountVolume, ReadHeader, ReadTable, SkipEntry,
              ReadBootSector, NextDisk, VolumesReady, volumeVars
<1>4. CASE FatStep \/ DrawBootScreen \/ Return \/ \E p \in Paths : SysResolveFile(p)
  BY <1>2, <1>4 DEF FatStep, FollowChain, EndScan, Construct, ReadNoDirectory, FindFile,
     EnterDirectory, FindNothing, AnswerFile, DrawBootScreen, Return, SysResolveFile, Resolve
<1>. QED
  BY <1>1, <1>2, <1>3, <1>4 DEF Next, StorageStep

\* A partition keeps its letter for ever: MountPartition never puts another in its place,
\* whatever the cursor is.
LettersStay == [][\A m \in Letters : partitions[m] # None => partitions'[m] = partitions[m]]_vars

\* IsPartitionMountFree and the cursors: no letter that was given is given again.
THEOREM LettersStayTheorem == Spec => LettersStay
<1>1. IInv /\ [Next]_vars => [\A m \in Letters : partitions[m] # None =>
                                  partitions'[m] = partitions[m]]_vars
  BY LetterKept, OthersMountNothing
<1>. QED
  BY <1>1, StorageInvariant, PTL DEF Spec, LettersStay

-----------------------------------------------------------------------------
(* Clusters and sectors.                                                   *)

LEMMA Division ==
  ASSUME NEW n \in Nat, NEW S \in Positive
  PROVE  /\ n \div S \in Nat /\ n % S \in 0 .. (S - 1)
         /\ (n \div S) * S + (n % S) = n
  BY SMT DEF Positive

LEMMA RoundedDown ==
  ASSUME NEW R \in Nat, NEW S \in Positive, NEW k \in Nat
  PROVE  R + k * S = (k + (R \div S)) * S + (R % S)
<1>1. R \div S \in Nat /\ R % S \in Nat /\ (R \div S) * S + (R % S) = R
  BY Division DEF Positive
<1>2. \A a, b, s \in Nat : a * s \in Nat /\ (a + b) * s = a * s + b * s
  BY SMT
<1>3. k * S \in Nat /\ (R \div S) * S \in Nat /\ (k + (R \div S)) * S = k * S + (R \div S) * S
  BY <1>1, <1>2 DEF Positive
<1>. QED
  BY <1>1, <1>3

\* ScanForEntries counts clusters from sector 0 of the partition and rounds the start of the
\* data down: what is read for a cluster begins as many sectors in front of it as the data
\* begins behind a multiple of a cluster, so the right ones only if that is none.
THEOREM ClusterOffset ==
  ASSUME NEW img, NEW c \in Nat, c >= 2,
         img.reserved + img.perFAT * img.numFATs \in Nat, img.perCluster \in Nat \ {0}
  PROVE  DataSector(img, c) = ToCluster(img, c) * img.perCluster
             + ((img.reserved + img.perFAT * img.numFATs) % img.perCluster)
<1>. DEFINE R == img.reserved + img.perFAT * img.numFATs
            S == img.perCluster
            k == c - 2
<1>1. R \in Nat /\ S \in Positive
  BY DEF Positive
<1>2. k \in Nat
  OBVIOUS
<1>3. DataSector(img, c) = R + k * S
  BY DEF DataSector
<1>4. ToCluster(img, c) = k + (R \div S)
  BY DEF ToCluster, Base
<1>5. R + k * S = (k + (R \div S)) * S + (R % S)
  <2>. HIDE DEF R, S, k
  <2>. QED
    BY <1>1, <1>2, RoundedDown
<1>. QED
  BY <1>3, <1>4, <1>5

-----------------------------------------------------------------------------
(* Paths.                                                                  *)

\* Where ResolveFile is.
Looking == place = "lookup" \/ (place = "scan" /\ goal = "lookup")
Locating == place = "sectors" \/ (place = "scan" /\ goal = "sectors")
Resolving == Looking \/ Locating \/ place = "return"

Straight == Resolving /\ open # None /\ Regular(Opened, Asked) /\ DirectoriesExist(Opened, Asked)

\* Who asks for which path, of which partition; elsewhere none is open.
PathTypes ==
    /\ Resolving =>
         /\ path \in Paths \cup {Icon} /\ level \in 1 .. Len(Asked)
         /\ open # None => path.letter \in Letters /\ open = partitions[path.letter]
         /\ caller = "boot" => path = Icon
         /\ file.found => open # None
    /\ Looking \/ Locating => open # None /\ file = NoFile /\ astray = FALSE
    /\ Resolving \/ Constructing \/ place = "fault" \/ open = None
    /\ Ready \/ place = "fault" \/ drawn = <<>>

\* The directory looked at is the one that every way leads to, and is read as it is.
Reached == FirstCluster(cluster)
Descent ==
    /\ \A w \in Ways(Opened, Asked) : w[level - 1] = Reached
    /\ chain = IF Buffered(open[1]) THEN <<ToCluster(Opened, Reached)>> ELSE <<>>
    /\ place = "scan" => chain # <<>> /\ next = EndMark
    /\ place = "lookup" => directories = {e \in {1} \X DOMAIN Opened.dirs[Reached] :
                              chain # <<>> /\ Lists(Opened.dirs[Reached][e[2]])}

\* A file of that name was found, and its chain begins where its entry says.
BeginsAt(c) == Len(chain) > 0 /\ chain[1] = ToCluster(Opened, FirstCluster(c % LowClusters))
Found ==
    \E e \in NamedFiles(Opened, Asked) :
        /\ found = [cluster |-> e.cluster, size |-> e.size]
        /\ (\E S : chain \in Seq(S)) /\ BeginsAt(e.cluster)

\* The answer: such a file, or there is none, or the disk has no buffer left.
IsFile(img, e) ==
    /\ file.size = e.size
    /\ e.cluster \in 2 .. (LowClusters - 1) =>
         /\ SubSeq(file.sectors, 1, img.perCluster) = FirstSectors(img, e.cluster)
         /\ file.sectors[1] = DataSector(img, e.cluster)
Answer ==
    IF file.found
    THEN astray = FALSE /\ \E e \in NamedFiles(Opened, Asked) : IsFile(Opened, e)
    ELSE NamedFiles(Opened, Asked) = {} \/ ~Buffered(open[1])

\* The boot screen's picture, once it is drawn.
Picture ==
    drawn # <<>> => \A img \in {Image(partitions[Icon.letter])} :
        Regular(img, Icon.names) /\ DirectoriesExist(img, Icon.names) =>
        \E e \in NamedFiles(img, Icon.names) :
            e.cluster < LowClusters =>
                drawn = [s \in 1 .. (e.size * img.perCluster) |-> DataSector(img, e.cluster) + s - 1]

\* The inductive invariant: where ResolveFile is, as long as its image is regular.
PathInv ==
    /\ PathTypes /\ Picture
    /\ Straight => /\ Looking => Descent
                   /\ Locating => Found
                   /\ place = "return" => Answer

-----------------------------------------------------------------------------
(* First and last of a listing.                                            *)

LEMMA LeastNumber ==
  ASSUME NEW T \in SUBSET Nat, T # {}
  PROVE  \E x \in T : \A y \in T : x <= y
<1>1. PICK x \in T : \A y \in T : ~ (<<y, x>> \in OpToRel(<, Nat))
  BY NatLessThanWellFounded, WFMin
<1>2. \A y \in T : ~ (y < x)
  BY <1>1 DEF OpToRel
<1>. QED
  BY <1>2

LEMMA GreatestNumber ==
  ASSUME NEW n \in Nat, NEW T \in SUBSET (0 .. n), T # {}
  PROVE  \E x \in T : \A y \in T : y <= x
<1>. DEFINE U == {n - x : x \in T}
<1>1. U \in SUBSET Nat /\ U # {}
  <2>1. \A x \in T : n - x \in Nat /\ n - x \in U
    OBVIOUS
  <2>. QED
    BY <2>1
<1>2. PICK u \in U : \A v \in U : u <= v
  BY <1>1, LeastNumber
<1>3. PICK x \in T : u = n - x
  BY <1>2
<1>4. ASSUME NEW y \in T PROVE y <= x
  <2>1. n - y \in U
    OBVIOUS
  <2>2. n - x <= n - y
    BY <1>2, <1>3, <2>1
  <2>. QED
    BY <2>2
<1>. QED
  BY <1>4

\* Entries of a listing of one cluster: there is a first and a last.
LEMMA FirstAndLast ==
  ASSUME NEW n \in Nat, NEW S \in SUBSET ({1} \X (0 .. n)), S # {}
  PROVE  FirstOf(S) \in S /\ LastOf(S) \in S
<1>. DEFINE T == {e[2] : e \in S}
<1>1. T \in SUBSET (0 .. n) /\ T # {} /\ T \in SUBSET Nat
  OBVIOUS
<1>2. \A e \in S : e = <<1, e[2]>> /\ e[1] = 1 /\ e[2] \in 0 .. n
  OBVIOUS
<1>3. \E e \in S : \A f \in S \ {e} : Before(e, f)
  <2>1. PICK x \in T : \A y \in T : x <= y
    BY <1>1, LeastNumber
  <2>2. PICK e \in S : e[2] = x
    BY <2>1
  <2>3. ASSUME NEW f \in S \ {e} PROVE Before(e, f)
    <3>1. f[2] \in T /\ f[2] # e[2]
      BY <1>2
    <3>. QED
      BY <1>2, <2>1, <2>2, <3>1 DEF Before
  <2>. QED
    BY <2>3
<1>4. \E e \in S : \A f \in S \ {e} : Before(f, e)
  <2>1. PICK x \in T : \A y \in T : y <= x
    BY <1>1, GreatestNumber
  <2>2. PICK e \in S : e[2] = x
    BY <2>1
  <2>3. ASSUME NEW f \in S \ {e} PROVE Before(f, e)
    <3>1. f[2] \in T /\ f[2] # e[2]
      BY <1>2
    <3>. QED
      BY <1>2, <2>1, <2>2, <3>1 DEF Before
  <2>. QED
    BY <2>3
<1>. QED
  BY <1>3, <1>4 DEF FirstOf, LastOf

-----------------------------------------------------------------------------
(* Names.                                                                  *)

PartsOf(slots, j) == {i \in 1 .. (j - 1) : \A k \in i .. (j - 1) : slots[k].kind = "lfn"}

\* What OrdinaryDirectory says of the list of slots, and of directories of one name.
LEMMA OrdinaryFacts ==
  ASSUME NEW img, NEW names, NEW slots, OrdinaryDirectory(img, slots, names)
  PROVE  /\ slots \in Seq(ToSet(slots)) /\ Len(slots) \in Nat /\ DOMAIN slots = 1 .. Len(slots)
         /\ \A n \in ToSet(names) : \A i, j \in DOMAIN slots :
              Named(slots, i, n) /\ Named(slots, j, n) /\ slots[i].dir /\ slots[j].dir =>
                 slots[i].cluster = slots[j].cluster
<1>1. IsSequence(slots)
  BY Zenon DEF OrdinaryDirectory
<1>2. \A n \in ToSet(names) : \A i, j \in DOMAIN slots :
        Named(slots, i, n) /\ Named(slots, j, n) /\ slots[i].dir /\ slots[j].dir =>
           slots[i].cluster = slots[j].cluster
  BY Zenon DEF OrdinaryDirectory
<1>. QED
  BY <1>1, <1>2, SequenceFacts

\* What the code collects in front of an entry are the parts of its name.
LEMMA PartsAreLongs ==
  ASSUME NEW img, NEW names, NEW slots, OrdinaryDirectory(img, slots, names),
         \A j \in DOMAIN slots : slots[j].kind = "rde" => ~slots[j].readOnly,
         NEW j \in DOMAIN slots
  PROVE  Longs(slots, j) = PartsOf(slots, j)
<1>1. slots \in Seq(ToSet(slots)) /\ DOMAIN slots = 1 .. Len(slots) /\ Len(slots) \in Nat
  BY OrdinaryFacts
<1>2. \A i \in DOMAIN slots : IsPart(slots[i]) <=> slots[i].kind = "lfn"
  BY DEF IsPart
<1>3. \A i \in DOMAIN slots : Lists(slots[i]) <=> slots[i].kind = "rde"
  BY DEF Lists
<1>6. \A i \in DOMAIN slots : /\ slots[i].kind \in {"free", "lfn", "rde"}
                              /\ slots[i].kind = "lfn" => slots[i + 1].kind # "free"
  BY DEF OrdinaryDirectory
<1>4. ASSUME NEW i \in Longs(slots, j) PROVE i \in PartsOf(slots, j)
  <2>1. i \in 1 .. (j - 1) /\ slots[i].kind = "lfn" /\ \A k \in i .. (j - 1) : slots[k].kind # "rde"
    BY <1>1, <1>2, <1>3 DEF Longs
  <2>. DEFINE T == {k \in i .. (j - 1) : slots[k].kind # "lfn"}
  <2>2. ASSUME T # {} PROVE FALSE
    <3>1. T \in SUBSET Nat
      BY <1>1, <2>1
    <3>2. PICK k \in T : \A m \in T : k <= m
      BY <2>2, <3>1, LeastNumber
    <3>3. k \in Nat /\ k > i /\ k - 1 \in i .. (j - 1) /\ k - 1 \in DOMAIN slots /\ k - 1 \notin T
      BY <1>1, <2>1, <3>2
    <3>4. slots[k - 1].kind = "lfn"
      BY <3>3
    <3>5. slots[k].kind # "free"
      <4>1. (k - 1) + 1 = k
        BY <3>3
      <4>2. slots[(k - 1) + 1].kind # "free"
        BY <1>6, <3>3, <3>4
      <4>. QED
        BY <4>1, <4>2
    <3>6. k \in DOMAIN slots /\ slots[k].kind \in {"free", "lfn", "rde"}
      <4>1. k \in DOMAIN slots
        BY <1>1, <2>1, <3>2
      <4>. QED
        BY <1>6, <4>1
    <3>. QED
      BY <2>1, <3>2, <3>5, <3>6
  <2>. QED
    BY <2>1, <2>2 DEF PartsOf
<1>5. ASSUME NEW i \in PartsOf(slots, j) PROVE i \in Longs(slots, j)
  <2>1. i \in 1 .. (j - 1) /\ \A k \in i .. (j - 1) : slots[k].kind = "lfn" /\ k \in DOMAIN slots
    BY <1>1 DEF PartsOf
  <2>2. slots[i].kind = "lfn" /\ i \in DOMAIN slots
    BY <1>1, <2>1
  <2>3. \A k \in i .. (j - 1) : ~Lists(slots[k])
    BY <1>3, <2>1
  <2>. QED
    BY <1>2, <2>1, <2>2, <2>3 DEF Longs
<1>. QED
  BY <1>4, <1>5

\* The parts of a name are the slots from some slot on, up to its entry.
LEMMA PartsAreInRow ==
  ASSUME NEW slots, NEW j \in Nat, PartsOf(slots, j) # {}
  PROVE  \E a \in 1 .. (j - 1) : PartsOf(slots, j) = a .. (j - 1)
<1>1. PartsOf(slots, j) \in SUBSET Nat /\ PartsOf(slots, j) \in SUBSET (1 .. (j - 1))
  BY DEF PartsOf
<1>2. PICK a \in PartsOf(slots, j) : \A i \in PartsOf(slots, j) : a <= i
  BY <1>1, LeastNumber
<1>3. a \in 1 .. (j - 1) /\ \A k \in a .. (j - 1) : slots[k].kind = "lfn"
  BY <1>1, <1>2 DEF PartsOf
<1>4. ASSUME NEW i \in a .. (j - 1) PROVE i \in PartsOf(slots, j)
  <2>1. i \in 1 .. (j - 1) /\ \A k \in i .. (j - 1) : k \in a .. (j - 1)
    BY <1>3
  <2>. QED
    BY <1>3, <2>1 DEF PartsOf
<1>5. ASSUME NEW i \in PartsOf(slots, j) PROVE i \in a .. (j - 1)
  BY <1>1, <1>2, <1>3, <1>5
<1>. QED
  BY <1>3, <1>4, <1>5

\* From the last part on, the k-th is k slots in front of the entry.
LEMMA LongNames ==
  ASSUME NEW slots, NEW j \in Nat, PartsOf(slots, j) # {}
  PROVE  LongName(slots, PartsOf(slots, j)) =
           FlattenSeq([k \in 1 .. Cardinality(PartsOf(slots, j)) |-> slots[j - k].text])
<1>. DEFINE S == PartsOf(slots, j)
<1>1. PICK a \in 1 .. (j - 1) : S = a .. (j - 1)
  BY PartsAreInRow
<1>2. IsFiniteSet(S) /\ Cardinality(S) = j - a
  BY <1>1, FS_Interval
<1>3. ASSUME NEW i \in S PROVE Cardinality({m \in S : m > i}) = j - 1 - i
  <2>1. {m \in S : m > i} = (i + 1) .. (j - 1)
    BY <1>1
  <2>2. i + 1 \in Int /\ j - 1 \in Int /\ i + 1 <= j
    BY <1>1
  <2>3. Cardinality((i + 1) .. (j - 1)) = IF i + 1 > j - 1 THEN 0 ELSE (j - 1) - (i + 1) + 1
    BY <2>2, FS_Interval
  <2>4. i \in Int /\ i <= j - 1
    BY <1>1
  <2>5. Cardinality((i + 1) .. (j - 1)) = j - 1 - i
    BY <2>3, <2>4
  <2>. QED
    BY <2>1, <2>5
<1>. HIDE DEF S
<1>4. ASSUME NEW k \in 1 .. Cardinality(S) PROVE FromLast(S, k) = j - k
  <2>1. k \in Nat /\ j - k \in S /\ j - 1 - (j - k) = k - 1
    BY <1>1, <1>2
  <2>2. Cardinality({m \in S : m > j - k}) = k - 1
    BY <1>3, <2>1
  <2>3. ASSUME NEW i \in S, Cardinality({m \in S : m > i}) = k - 1 PROVE i = j - k
    <3>1. i \in a .. (j - 1)
      BY <1>1, <2>3
    <3>2. j - 1 - i = k - 1
      BY <1>3, <2>3
    <3>3. i \in Int /\ k \in Int
      BY <2>1, <3>1
    <3>. QED
      BY <3>2, <3>3
  <2>. QED
    BY <2>1, <2>2, <2>3 DEF FromLast
<1>5. [k \in 1 .. Cardinality(S) |-> slots[FromLast(S, k)].text]
        = [k \in 1 .. Cardinality(S) |-> slots[j - k].text]
  BY <1>4
<1>. QED
  BY <1>5 DEF LongName, S

\* In an ordinary directory the code gives an entry the names that it has, and all of those
\* that it can spell.
LEMMA NamesAgree ==
  ASSUME NEW img, NEW names, Ordinary(img, names), WellNamed(img, names),
         NEW c \in DOMAIN img.dirs, NEW j \in DOMAIN img.dirs[c],
         Lists(img.dirs[c][j]), NEW n \in ToSet(names)
  PROVE  IsNamed(img.dirs[c], j, n) <=> Named(img.dirs[c], j, n)
<1>. DEFINE slots == img.dirs[c]
            rde == slots[j]
<1>1. OrdinaryDirectory(img, slots, names)
  BY DEF Ordinary
<1>2. \A i \in DOMAIN slots : slots[i].kind = "rde" => ~slots[i].readOnly
  BY DEF WellNamed
<1>3. Longs(slots, j) = PartsOf(slots, j)
  BY <1>1, <1>2, PartsAreLongs
<1>4. j \in 1 .. Len(slots) /\ Len(slots) \in Nat /\ j \in Nat
  <2>1. Len(slots) \in Nat /\ DOMAIN slots = 1 .. Len(slots)
    BY <1>1, OrdinaryFacts
  <2>. QED
    BY <2>1
<1>5. /\ rde.kind = "rde" /\ rde.dir \in BOOLEAN
      /\ rde.base \in Seq(ToSet(rde.base)) /\ rde.ext \in Seq(ToSet(rde.ext))
      /\ rde.ext # <<>> => n # rde.base \o rde.ext /\ n # rde.base \o rde.ext \o <<".">>
  BY <1>1 DEF OrdinaryDirectory, IsSequence, Lists
<1>6. /\ \A i \in PartsOf(slots, j) : slots[i].kind = "lfn"
      /\ j > 1 /\ slots[j - 1].kind = "lfn" => PartsOf(slots, j) # {}
  <2>1. ASSUME NEW i \in PartsOf(slots, j) PROVE slots[i].kind = "lfn"
    BY <1>4 DEF PartsOf
  <2>2. ASSUME j > 1, slots[j - 1].kind = "lfn" PROVE j - 1 \in PartsOf(slots, j)
    BY <1>4, <2>2 DEF PartsOf
  <2>. QED
    BY <2>1, <2>2
<1>7. CASE PartsOf(slots, j) # {}
  <2>1. IsNamed(slots, j, n) <=> n = LongName(slots, PartsOf(slots, j))
    BY <1>3, <1>6, <1>7 DEF IsNamed
  <2>2. Named(slots, j, n) <=>
          n = FlattenSeq([k \in 1 .. Cardinality(PartsOf(slots, j)) |-> slots[j - k].text])
    BY <1>5, <1>7 DEF Named, PartsOf
  <2>. QED
    BY <1>4, <1>7, <2>1, <2>2, LongNames
<1>8. CASE PartsOf(slots, j) = {}
  <2>1. IsNamed(slots, j, n) <=> IsShortName(rde, n)
    BY <1>3, <1>8 DEF IsNamed
  <2>2. Named(slots, j, n) <=> \/ n = rde.base \o <<".">> \o rde.ext
                               \/ rde.ext = <<>> /\ n = rde.base
    BY <1>5, <1>8 DEF Named, PartsOf
  <2>3. rde.ext = <<>> =>
          /\ rde.base \o rde.ext = rde.base
          /\ rde.base \o rde.ext \o <<".">> = rde.base \o <<".">> \o rde.ext
    <3>. DEFINE U == ToSet(rde.base) \cup {"."}
    <3>3. rde.base \in Seq(U) /\ <<".">> \in Seq(U)
      <4>1. ToSet(rde.base) \subseteq U /\ "." \in U
        OBVIOUS
      <4>. HIDE DEF U
      <4>2. <<".">> \in Seq(U)
        BY <4>1
      <4>3. rde.base \in Seq(U)
        BY <1>5, <4>1, SeqMonotonic
      <4>. QED
        BY <4>2, <4>3
    <3>. HIDE DEF U
    <3>1. rde.base \o <<".">> \in Seq(U)
      BY <3>3, ConcatProperties
    <3>2. rde.base \o <<>> = rde.base /\ (rde.base \o <<".">>) \o <<>> = rde.base \o <<".">>
      BY <1>5, <3>1, ConcatEmptySeq
    <3>. QED
      BY <3>2
  <2>4. IsShortName(rde, n) => Named(slots, j, n)
    BY <1>5, <2>2, <2>3 DEF IsShortName
  <2>5. ASSUME Named(slots, j, n) PROVE IsShortName(rde, n)
    <3>1. \/ j > 1 /\ slots[j - 1].kind = "lfn"
          \/ rde.dir /\ rde.ext = <<>> /\ n = rde.base
          \/ ~rde.dir /\ rde.short /\ rde.ext # <<>>
      BY <2>5 DEF WellNamed
    <3>2. CASE rde.dir /\ rde.ext = <<>> /\ n = rde.base
      BY <2>3, <3>2 DEF IsShortName
    <3>3. CASE ~rde.dir /\ rde.short /\ rde.ext # <<>>
      BY <2>2, <2>5, <3>3 DEF IsShortName
    <3>. QED
      BY <1>6, <1>8, <3>1, <3>2, <3>3
  <2>. QED
    BY <2>1, <2>4, <2>5
<1>. QED
  BY <1>7, <1>8

-----------------------------------------------------------------------------
(* Directories.                                                            *)

\* What ReadDirectoryEntries reads for a directory is that directory.
LEMMA DirectoryIsRead ==
  ASSUME NEW img, NEW names, Ordinary(img, names), Reachable(img), NEW c \in DOMAIN img.dirs
  PROVE  /\ DataSector(img, c) = ToCluster(img, c) * img.perCluster
         /\ DirectoryAt(img, ToCluster(img, c) * img.perCluster) = {c}
         /\ Slots(img, ToCluster(img, c)) = img.dirs[c]
<1>. DEFINE R == img.reserved + img.perFAT * img.numFATs
            S == img.perCluster
<1>1. R \in Nat /\ S \in Nat \ {0} /\ R % S = 0 /\ DOMAIN img.dirs \subseteq Nat \ {0, 1}
  BY DEF Ordinary, Reachable, Positive
<1>2. c \in Nat /\ c >= 2
  BY <1>1
<1>3. DataSector(img, c) = ToCluster(img, c) * S + (R % S)
  BY <1>1, <1>2, ClusterOffset
<1>4. DataSector(img, c) \in Int /\ ToCluster(img, c) * S \in Int
  <2>1. R \div S \in Int
    BY <1>1
  <2>2. ToCluster(img, c) \in Int
    BY <1>2, <2>1 DEF ToCluster, Base
  <2>3. (c - 2) * S \in Int
    BY <1>1, <1>2
  <2>. QED
    BY <1>1, <2>2, <2>3 DEF DataSector
<1>5. DataSector(img, c) = ToCluster(img, c) * S
  BY <1>1, <1>3, <1>4
<1>6. ASSUME NEW d \in DOMAIN img.dirs, DataSector(img, d) = DataSector(img, c) PROVE d = c
  <2>1. d \in Nat /\ c \in Nat /\ (d - 2) * S \in Int /\ (c - 2) * S \in Int
    BY <1>1
  <2>2. (d - 2) * S = (c - 2) * S
    BY <1>1, <1>6, <2>1 DEF DataSector
  <2>3. (d - 2) * S < (c - 2) * S \/ (d - 2) * S > (c - 2) * S \/ d = c
    BY <1>1, <2>1
  <2>. QED
    BY <2>1, <2>2, <2>3
<1>7. DirectoryAt(img, DataSector(img, c)) = {c}
  BY <1>6 DEF DirectoryAt
<1>8. DirectoryAt(img, ToCluster(img, c) * img.perCluster) = {c}
  BY <1>5, <1>7
<1>. QED
  BY <1>5, <1>8 DEF Slots

\* Images do not change while the disks do not.
LEMMA SameImages ==
  ASSUME UNCHANGED <<machine, drivers, disks>>
  PROVE  \A p : Image(p)' = Image(p)
<1>1. \A d : Content(d)' = Content(d)
  BY SameDisks
<1>. QED
  BY <1>1 DEF Image, Entry

LEMMA SameOpened ==
  ASSUME UNCHANGED <<machine, drivers, disks, open, path, kept>>
  PROVE  /\ Opened' = Opened /\ Asked' = Asked
         /\ Buffered(open[1])' = Buffered(open[1])
         /\ Straight' /\ Resolving => Straight
<1>1. Opened' = Opened
  BY SameImages DEF Opened
<1>. QED
  BY <1>1 DEF Asked, Buffered, Straight

LEMMA PathFacts ==
  ASSUME PathTypes, Resolving
  PROVE  /\ Asked \in Seq(ToSet(Asked)) /\ Len(Asked) \in Nat \ {0}
         /\ level \in 1 .. Len(Asked) /\ Asked[level] \in ToSet(Asked) /\ Names = Asked
<1>1. path \in Paths \cup {Icon} /\ level \in 1 .. Len(Asked)
  BY DEF PathTypes
<1>2. IsSequence(Asked) /\ Len(Asked) > 0
  BY <1>1, PathAssumption DEF Asked
<1>3. Asked \in Seq(ToSet(Asked)) /\ Len(Asked) \in Nat \ {0}
  BY <1>2 DEF IsSequence
<1>. QED
  BY <1>1, <1>3, ElementOfSeq DEF Names, Asked

\* The first directory, or the next: one chain of one cluster.
LEMMA ChainOfOne ==
  ASSUME NEW img, NEW names, Ordinary(img, names), Reachable(img),
         NEW c, FirstCluster(c) \in DOMAIN img.dirs
  PROVE  ReadFAT(img, FirstCluster(c)) = {EndMark}
<1>1. FirstCluster(c) < img.perSector /\ img.fat[FirstCluster(c)] = EndMark
  BY DEF Reachable
<1>. QED
  BY <1>1 DEF ReadFAT

\* The directory that ResolveFile looks at, and what it finds there.
LEMMA LookingAt ==
  ASSUME PathTypes, Straight, Descent, place = "lookup", chain # <<>>
  PROVE  LET slots == Opened.dirs[Reached] IN
         /\ Reached \in DOMAIN Opened.dirs /\ OrdinaryDirectory(Opened, slots, Asked)
         /\ Buffered(open[1]) /\ ~LeadsAstray(Opened, chain)
         /\ \A e \in directories : SlotsAt(e) = slots
         /\ \A e \in Matches :
              /\ e[2] \in DOMAIN slots /\ slots[e[2]].kind = "rde" /\ EntryAt(e) = slots[e[2]]
              /\ Named(slots, e[2], Asked[level]) /\ ~slots[e[2]].system
              /\ slots[e[2]].dir = ~AtLast
         /\ \A j \in DOMAIN slots :
              Named(slots, j, Asked[level]) /\ ~slots[j].system /\ slots[j].dir = ~AtLast =>
                 <<1, j>> \in Matches
         /\ Matches # {} => FirstOf(Matches) \in Matches /\ LastOf(Matches) \in Matches
<1>. DEFINE slots == Opened.dirs[Reached]
<1>1. Ordinary(Opened, Asked) /\ WellNamed(Opened, Asked) /\ Reachable(Opened) /\ Resolving
  BY DEF Straight, Regular
<1>2. PICK w \in Ways(Opened, Asked) : TRUE
  BY DEF Straight, DirectoriesExist
<1>3. Reached \in DOMAIN Opened.dirs
  <2>1. w \in [0 .. (Len(Asked) - 1) -> DOMAIN Opened.dirs]
    BY <1>2 DEF Ways
  <2>2. level - 1 \in 0 .. (Len(Asked) - 1)
    BY <1>1, PathFacts
  <2>. QED
    BY <1>2, <2>1, <2>2 DEF Descent
<1>4. chain = <<ToCluster(Opened, Reached)>> /\ Buffered(open[1])
  BY DEF Descent
<1>5. /\ DirectoryAt(Opened, chain[1] * Opened.perCluster) = {Reached}
      /\ Slots(Opened, chain[1]) = slots /\ ToSet(chain) = {chain[1]}
  <2>1. ToSet(chain) = {chain[1]}
    BY <1>4 DEF ToSet
  <2>. QED
    BY <1>1, <1>3, <1>4, <2>1, DirectoryIsRead
<1>6. ~LeadsAstray(Opened, chain)
  BY <1>5 DEF LeadsAstray
<1>7. OrdinaryDirectory(Opened, slots, Asked)
  BY <1>1, <1>3 DEF Ordinary
<1>8. directories = {e \in {1} \X DOMAIN slots : Lists(slots[e[2]])}
  BY DEF Descent
<1>9. \A e \in directories : e[1] = 1 /\ e = <<1, e[2]>> /\ SlotsAt(e) = slots /\ EntryAt(e) = slots[e[2]]
  BY <1>5, <1>8 DEF SlotsAt, EntryAt
<1>10. Asked[level] \in ToSet(Asked) /\ Names = Asked
  BY <1>1, PathFacts
<1>11. ASSUME NEW e \in Matches
       PROVE  /\ e[2] \in DOMAIN slots /\ slots[e[2]].kind = "rde" /\ EntryAt(e) = slots[e[2]]
              /\ Named(slots, e[2], Asked[level]) /\ ~slots[e[2]].system
              /\ slots[e[2]].dir = ~AtLast
  <2>1. e \in directories /\ Candidate(EntryAt(e)) /\ IsNamed(SlotsAt(e), e[2], Asked[level])
    BY <1>10 DEF Matches
  <2>2. e[2] \in DOMAIN slots /\ Lists(slots[e[2]]) /\ EntryAt(e) = slots[e[2]] /\ SlotsAt(e) = slots
    BY <1>8, <1>9, <2>1
  <2>3. Named(slots, e[2], Asked[level])
    BY <1>1, <1>3, <1>10, <2>1, <2>2, NamesAgree
  <2>4. slots[e[2]].kind = "rde" /\ slots[e[2]].dir \in BOOLEAN
    BY <1>7, <2>2 DEF Lists, OrdinaryDirectory
  <2>5. ~slots[e[2]].system /\ (slots[e[2]].dir <=> ~AtLast)
    BY <2>1, <2>2 DEF Candidate
  <2>. QED
    BY <2>2, <2>3, <2>4, <2>5
<1>12. ASSUME NEW j \in DOMAIN slots, Named(slots, j, Asked[level]), ~slots[j].system,
              slots[j].dir = ~AtLast
       PROVE  <<1, j>> \in Matches
  <2>1. slots[j].kind = "rde" /\ ~slots[j].readOnly
    <3>1. slots[j].kind = "rde"
      BY <1>12 DEF Named
    <3>. QED
      BY <1>1, <1>3, <3>1 DEF WellNamed
  <2>2. Lists(slots[j])
    BY <2>1 DEF Lists
  <2>3. <<1, j>> \in directories
    BY <1>8, <2>2
  <2>4. SlotsAt(<<1, j>>) = slots /\ EntryAt(<<1, j>>) = slots[j]
    BY <1>9, <2>3
  <2>5. IsNamed(slots, j, Asked[level])
    BY <1>1, <1>3, <1>10, <1>12, <2>2, NamesAgree
  <2>6. Candidate(slots[j])
    BY <1>12 DEF Candidate
  <2>. QED
    BY <1>10, <2>3, <2>4, <2>5, <2>6 DEF Matches
<1>13. ASSUME Matches # {} PROVE FirstOf(Matches) \in Matches /\ LastOf(Matches) \in Matches
  <2>1. DOMAIN slots = 1 .. Len(slots) /\ Len(slots) \in Nat
    BY <1>7, OrdinaryFacts
  <2>2. Matches \in SUBSET ({1} \X (0 .. Len(slots)))
    BY <1>8, <2>1 DEF Matches
  <2>. QED
    BY <1>13, <2>1, <2>2, FirstAndLast
<1>. QED
  BY <1>3, <1>4, <1>6, <1>7, <1>9, <1>11, <1>12, <1>13

-----------------------------------------------------------------------------
(* Paths, step by step.                                                    *)

\* Where no path is resolved.
LEMMA NoPathResolved ==
  ASSUME Picture', ~Resolving', Constructing' \/ place' = "fault" \/ open' = None,
         Ready' \/ place' = "fault" \/ drawn' = <<>>
  PROVE  PathInv'
<1>1. ~Looking' /\ ~Locating' /\ place' # "return" /\ ~Straight'
  BY DEF Resolving, Straight
<1>. QED
  BY <1>1 DEF PathInv, PathTypes

LEMMA InitPaths == Init => PathInv
<1>. SUFFICES ASSUME Init PROVE PathInv
  OBVIOUS
<1>1. place = "acpi" /\ open = None /\ drawn = <<>>
  BY DEF Init, DevicesInit, FatInit
<1>2. ~Resolving /\ ~Looking /\ ~Locating /\ place # "return"
  BY <1>1 DEF Resolving, Looking, Locating
<1>. QED
  BY <1>1, <1>2 DEF PathInv, PathTypes, Picture, Straight

LEMMA SamePicture ==
  ASSUME Picture, UNCHANGED <<machine, drivers, disks, partitions, drawn>>
  PROVE  Picture'
<1>1. Image(partitions[Icon.letter])' = Image(partitions[Icon.letter])
  BY SameDisks DEF Image, Entry, Content, FirstDriver, Function
<1>. QED
  BY <1>1 DEF Picture

\* Before the volumes are ready no path is resolved.
LEMMA EarlyPaths ==
  ASSUME PathInv, DeviceStep \/ VolumeStep, UNCHANGED <<open, drawn>>
  PROVE  PathInv'
<1>1. /\ place \in {"acpi", "bus", "device", "activate", "stopping", "volumes", "header", "table", "entries"}
      /\ place' \in {"acpi", "bus", "device", "activate", "stopping", "volumes", "header", "table",
                     "entries", "construct", "screen", "fault"}
  <2>1. CASE DeviceStep
    BY <2>1 DEF DeviceStep, LocateACPI, EnumerateBus, NextRange, EnumerateFunction, EnumerateDevice,
       EndEnumeration, Activate, SkipPort, NewPort, Configured, NextDriver, Activated, Goto,
       Activating, Probing
  <2>2. CASE VolumeStep
    BY <2>2 DEF VolumeStep, InitVolumes, MountVolume, ReadHeader, ReadTable, SkipEntry,
       ReadBootSector, NextDisk, VolumesReady, InTable, BlocksRead, Goto, deviceVars
  <2>. QED
    BY <2>1, <2>2
<1>2. open = None /\ drawn = <<>>
  BY <1>1 DEF PathInv, PathTypes, Resolving, Looking, Locating, Constructing, ScansRoot, Ready
<1>3. ~Resolving'
  BY <1>1 DEF Resolving, Looking, Locating
<1>. QED
  BY <1>2, <1>3, NoPathResolved DEF Picture

LEMMA ConstructPaths ==
  ASSUME PathInv, Construct \/ Constructed, UNCHANGED drawn
  PROVE  PathInv'
<1>1. /\ place \in {"construct", "mount"}
      /\ Constructing' \/ open' = None
      /\ ~Resolving'
  <2>1. CASE Construct
    <3>1. goal' = "mount" /\ place' \in {"scan", "mount"}
      BY <2>1 DEF Construct, BeginScan, Goto
    <3>. QED
      BY <2>1, <3>1 DEF Construct, Constructing, ScansRoot, Resolving, Looking, Locating
  <2>2. CASE Constructed
    <3>1. place = "mount" /\ open' = None /\ place' \in {"entries", "fault"}
      BY <2>2 DEF Constructed, ForgetScan, AddPartition, Goto
    <3>. QED
      BY <3>1 DEF Resolving, Looking, Locating
  <2>. QED
    BY <2>1, <2>2
<1>2. drawn = <<>>
  BY <1>1 DEF PathInv, PathTypes, Ready
<1>. QED
  BY <1>1, <1>2, NoPathResolved DEF Picture

\* ScanForEntries is called for a directory.
LEMMA DirectoryScan ==
  ASSUME UNCHANGED <<machine, drivers, disks, kept>>,
         NEW q, NEW c, BeginScan(q, c, "lookup"), cluster' = c
  PROVE  /\ open' = q /\ Opened' = Image(q) /\ Looking' /\ ~Locating' /\ place' # "return"
         /\ /\ Straight' /\ \A w \in Ways(Opened', Asked') : w[level' - 1] = FirstCluster(c)
            /\ level' - 1 \in 0 .. (Len(Asked') - 1)
            => Descent'
<1>1. /\ open' = q /\ goal' = "lookup" /\ directories' = {} /\ place' \in {"scan", "lookup"}
      /\ IF Buffered(q[1])
         THEN /\ place' = "scan" /\ chain' = <<ToCluster(Image(q), FirstCluster(c))>>
              /\ next' \in ReadFAT(Image(q), FirstCluster(c))
         ELSE place' = "lookup" /\ chain' = <<>>
  BY DEF BeginScan, Goto
<1>2. Opened' = Image(q)
  BY <1>1 DEF Opened, Image, Entry, Content, FirstDriver, Function
<1>3. Looking' /\ ~Locating' /\ place' # "return"
  BY <1>1 DEF Looking, Locating
<1>4. ASSUME Straight', \A w \in Ways(Opened', Asked') : w[level' - 1] = FirstCluster(c),
             level' - 1 \in 0 .. (Len(Asked') - 1)
      PROVE  Descent'
  <2>1. Ordinary(Opened', Asked') /\ Reachable(Opened') /\ DirectoriesExist(Opened', Asked')
    BY <1>4 DEF Straight, Regular
  <2>2. PICK w \in Ways(Opened', Asked') : TRUE
    BY <2>1 DEF DirectoriesExist
  <2>3. w \in [0 .. (Len(Asked') - 1) -> DOMAIN Opened'.dirs]
    BY <2>2 DEF Ways
  <2>4. FirstCluster(c) \in DOMAIN Opened'.dirs
    BY <1>4, <2>2, <2>3
  <2>5. ReadFAT(Opened', FirstCluster(c)) = {EndMark}
    BY <2>1, <2>4, ChainOfOne
  <2>6. Buffered(open[1])' <=> Buffered(q[1])
    BY <1>1 DEF Buffered
  <2>7. Reached' = FirstCluster(c)
    BY DEF Reached
  <2>8. chain' = IF Buffered(open[1])' THEN <<ToCluster(Opened', Reached')>> ELSE <<>>
    BY <1>1, <1>2, <2>6, <2>7
  <2>9. place' = "scan" => chain' # <<>> /\ next' = EndMark
    BY <1>1, <1>2, <2>5
  <2>10. place' = "lookup" => directories' = {e \in {1} \X DOMAIN Opened'.dirs[Reached'] :
                                 chain' # <<>> /\ Lists(Opened'.dirs[Reached'][e[2]])}
    BY <1>1
  <2>. QED
    BY <1>4, <2>7, <2>8, <2>9, <2>10 DEF Descent
<1>. QED
  BY <1>1, <1>2, <1>3, <1>4

LEMMA ResolvePaths ==
  ASSUME PathInv, place \in {"screen", "running"}, NEW p \in Paths \cup {Icon}, Resolve(p),
         UNCHANGED drawn, caller' = "boot" => p = Icon
  PROVE  PathInv'
<1>. DEFINE q == IF p.letter \in Letters THEN partitions[p.letter] ELSE None
<1>1. open = None /\ Ready
  BY DEF PathInv, PathTypes, Resolving, Looking, Locating, Constructing, ScansRoot, Ready
<1>2. /\ path' = p /\ level' = 1 /\ cluster' = 0 /\ file' = NoFile /\ astray' = FALSE
      /\ UNCHANGED <<machine, at, drivers, disks, volumeVars>>
      /\ \/ q # None /\ BeginScan(q, 0, "lookup")
         \/ place' \in {"return", "fault"} /\ UNCHANGED scanVars
  BY DEF Resolve, Goto
<1>3. UNCHANGED <<machine, drivers, disks, kept, partitions>>
  BY <1>2 DEF volumeVars
<1>4. Picture'
  BY <1>3, SamePicture DEF PathInv
<1>5. Asked' = p.names /\ Len(Asked') \in Nat /\ Len(Asked') > 0
  <2>1. IsSequence(p.names) /\ Len(p.names) > 0
    BY PathAssumption
  <2>. QED
    BY <1>2, <2>1 DEF Asked, IsSequence
<1>6. CASE q # None /\ BeginScan(q, 0, "lookup")
  <2>1. /\ open' = q /\ Looking' /\ ~Locating' /\ place' # "return"
        /\ /\ Straight' /\ \A w \in Ways(Opened', Asked') : w[level' - 1] = FirstCluster(0)
           /\ level' - 1 \in 0 .. (Len(Asked') - 1)
           => Descent'
    BY <1>2, <1>3, <1>6, DirectoryScan
  <2>2. p.letter \in Letters /\ q = partitions[p.letter]
    BY <1>6
  <2>3. PathTypes'
    BY <1>2, <1>3, <1>5, <1>6, <2>1, <2>2 DEF PathTypes, Resolving, NoFile, Ready, Looking
  <2>4. ASSUME NEW w \in Ways(Opened', Asked') PROVE w[level' - 1] = FirstCluster(0)
    BY <1>2 DEF Ways, FirstCluster
  <2>5. level' - 1 \in 0 .. (Len(Asked') - 1)
    BY <1>2, <1>5
  <2>. QED
    BY <1>4, <2>1, <2>3, <2>4, <2>5 DEF PathInv
<1>7. CASE place' \in {"return", "fault"} /\ UNCHANGED scanVars
  <2>1. open' = None /\ ~Looking' /\ ~Locating' /\ ~Straight'
    BY <1>1, <1>7 DEF scanVars, Looking, Locating, Straight
  <2>2. Ready' \/ place' = "fault"
    BY <1>7 DEF Ready
  <2>3. PathTypes'
    BY <1>2, <1>5, <2>1, <2>2 DEF PathTypes, NoFile
  <2>. QED
    BY <1>4, <2>1, <2>3 DEF PathInv
<1>. QED
  BY <1>2, <1>6, <1>7

\* What leaves the disks and the partition alone leaves what is asked, and of whom.
LEMMA SamePath ==
  ASSUME PathInv, place # "return", Ready, Resolving,
         UNCHANGED <<machine, drivers, disks, volumeVars, open, path, caller, drawn>>
  PROVE  /\ Picture' /\ open # None /\ file = NoFile /\ astray = FALSE
         /\ Opened' = Opened /\ Asked' = Asked /\ Buffered(open[1])' = Buffered(open[1])
         /\ Straight' => Straight
         /\ path' \in Paths \cup {Icon}
         /\ path'.letter \in Letters /\ open' = partitions'[path'.letter]
         /\ caller' = "boot" => path' = Icon
<1>1. UNCHANGED <<machine, drivers, disks, open, path, kept, partitions>>
  BY DEF volumeVars
<1>2. Picture'
  BY <1>1, SamePicture DEF PathInv
<1>3. /\ Opened' = Opened /\ Asked' = Asked /\ Buffered(open[1])' = Buffered(open[1])
      /\ Straight' => Straight
  BY <1>1, SameOpened
<1>. QED
  BY <1>1, <1>2, <1>3 DEF PathInv, PathTypes, Resolving

LEMMA FollowChainPaths ==
  ASSUME IInv, PathInv, FollowChain, UNCHANGED <<caller, drawn>>
  PROVE  PathInv'
<1>1. /\ place = "scan" /\ place' = "scan" /\ next # EndMark
      /\ UNCHANGED <<machine, drivers, disks, volumeVars, open, goal, path, level,
                     cluster, found, file, astray>>
      /\ chain' = chain \/ chain' = Append(chain, ToCluster(Opened, next))
  BY DEF FollowChain, deviceVars
<1>2. goal \in {"mount", "lookup", "sectors"}
  BY <1>1, GoalType
<1>3. CASE goal = "mount"
  <2>1. Constructing' /\ ~Resolving' /\ drawn = <<>>
    BY <1>1, <1>3 DEF Constructing, ScansRoot, Resolving, Looking, Locating, PathInv, PathTypes, Ready
  <2>. QED
    BY <2>1, NoPathResolved DEF Picture
<1>4. CASE goal # "mount"
  <2>1. Ready /\ Ready' /\ Resolving /\ (Looking' <=> Looking) /\ (Locating' <=> Locating)
    BY <1>1, <1>2, <1>4 DEF Ready, Resolving, Looking, Locating
  <2>2. /\ Picture' /\ open # None /\ file = NoFile /\ astray = FALSE
        /\ Opened' = Opened /\ Asked' = Asked
        /\ Straight' => Straight
        /\ path' \in Paths \cup {Icon}
        /\ path'.letter \in Letters /\ open' = partitions'[path'.letter]
        /\ caller' = "boot" => path' = Icon
    BY <1>1, <2>1, SamePath
  <2>3. PathTypes'
    BY <1>1, <2>1, <2>2 DEF PathInv, PathTypes, NoFile, Resolving
  <2>4. ASSUME Straight' PROVE ~Looking'
    BY <1>1, <2>1, <2>2, <2>4 DEF PathInv, Descent
  <2>5. ASSUME Straight', Locating' PROVE Found'
    <3>1. Found
      BY <2>1, <2>2, <2>5 DEF PathInv
    <3>2. PICK e \in NamedFiles(Opened, Asked) :
            /\ found = [cluster |-> e.cluster, size |-> e.size]
            /\ (\E S : chain \in Seq(S)) /\ BeginsAt(e.cluster)
      BY <3>1 DEF Found
    <3>3. PICK S : chain \in Seq(S)
      BY <3>2
    <3>4. (\E U : chain' \in Seq(U)) /\ Len(chain') > 0 /\ chain'[1] = chain[1]
      <4>1. CASE chain' = chain
        BY <3>2, <4>1 DEF BeginsAt
      <4>2. CASE chain' = Append(chain, ToCluster(Opened, next))
        <5>. DEFINE U == S \cup {ToCluster(Opened, next)}
        <5>1. chain \in Seq(U) /\ ToCluster(Opened, next) \in U
          BY <3>3, SeqMonotonic
        <5>2. chain' \in Seq(U) /\ Len(chain') = Len(chain) + 1 /\ Len(chain) \in Nat
              /\ \A i \in 1 .. Len(chain) : chain'[i] = chain[i]
          <6>. HIDE DEF U
          <6>. QED
            BY <4>2, <5>1
        <5>3. Len(chain) > 0
          BY <3>2 DEF BeginsAt
        <5>. QED
          BY <5>2, <5>3
      <4>. QED
        BY <1>1, <4>1, <4>2
    <3>5. BeginsAt(e.cluster)'
      BY <2>2, <3>2, <3>4 DEF BeginsAt
    <3>. QED
      BY <1>1, <2>2, <3>2, <3>4, <3>5 DEF Found
  <2>. QED
    BY <1>1, <2>2, <2>3, <2>4, <2>5 DEF PathInv
<1>. QED
  BY <1>3, <1>4

LEMMA EndScanPaths ==
  ASSUME IInv, PathInv, EndScan, UNCHANGED <<caller, drawn>>
  PROVE  PathInv'
<1>1. /\ place = "scan" /\ place' = goal /\ next = EndMark
      /\ UNCHANGED <<machine, drivers, disks, volumeVars, open, chain, goal, path, level,
                     cluster, found, file, astray>>
      /\ directories' = IF goal = "sectors" THEN {} ELSE ReadDirectoryEntries
  BY DEF EndScan, Goto
<1>2. goal \in {"mount", "lookup", "sectors"}
  BY <1>1, GoalType
<1>3. CASE goal = "mount"
  <2>1. Constructing' /\ ~Resolving' /\ drawn = <<>>
    BY <1>1, <1>3 DEF Constructing, Resolving, Looking, Locating, PathInv, PathTypes, Ready
  <2>. QED
    BY <2>1, NoPathResolved DEF Picture
<1>4. CASE goal # "mount"
  <2>1. Ready /\ Ready' /\ Resolving /\ (Looking' <=> Looking) /\ (Locating' <=> Locating)
    BY <1>1, <1>2, <1>4 DEF Ready, Resolving, Looking, Locating
  <2>2. /\ Picture' /\ open # None /\ file = NoFile /\ astray = FALSE
        /\ Opened' = Opened /\ Asked' = Asked /\ Buffered(open[1])' = Buffered(open[1])
        /\ Straight' => Straight
        /\ path' \in Paths \cup {Icon}
        /\ path'.letter \in Letters /\ open' = partitions'[path'.letter]
        /\ caller' = "boot" => path' = Icon
    BY <1>1, <2>1, SamePath
  <2>3. PathTypes'
    BY <1>1, <2>1, <2>2 DEF PathInv, PathTypes, NoFile, Resolving
  <2>4. ASSUME Straight', Looking' PROVE Descent'
    <3>1. Descent /\ Straight
      BY <2>1, <2>2, <2>4 DEF PathInv
    <3>2. /\ \A w \in Ways(Opened, Asked) : w[level - 1] = Reached
          /\ chain = IF Buffered(open[1]) THEN <<ToCluster(Opened, Reached)>> ELSE <<>>
          /\ chain # <<>>
      BY <1>1, <3>1 DEF Descent
    <3>3. chain = <<ToCluster(Opened, Reached)>> /\ Reached' = Reached
      BY <1>1, <3>2 DEF Reached
    <3>4. Ordinary(Opened, Asked) /\ Reachable(Opened) /\ Reached \in DOMAIN Opened.dirs
      <4>1. Ordinary(Opened, Asked) /\ Reachable(Opened) /\ DirectoriesExist(Opened, Asked)
        BY <3>1 DEF Straight, Regular
      <4>2. PICK w \in Ways(Opened, Asked) : TRUE
        BY <4>1 DEF DirectoriesExist
      <4>3. w \in [0 .. (Len(Asked) - 1) -> DOMAIN Opened.dirs]
        BY <4>2 DEF Ways
      <4>4. level - 1 \in 0 .. (Len(Asked) - 1)
        BY <2>1, PathFacts DEF PathInv
      <4>. QED
        BY <3>2, <4>1, <4>2, <4>3, <4>4
    <3>5. Slots(Opened, chain[1]) = Opened.dirs[Reached]
      BY <3>3, <3>4, DirectoryIsRead
    <3>6. goal = "lookup" /\ place' = "lookup"
      BY <1>1, <1>2, <2>1, <2>4 DEF Looking
    <3>7. DOMAIN chain = {1}
      BY <3>3
    <3>8. ReadDirectoryEntries = {<<1, j>> : j \in {i \in DOMAIN Opened.dirs[Reached] :
                                                      Lists(Opened.dirs[Reached][i])}}
      BY <3>5, <3>7 DEF ReadDirectoryEntries
    <3>9. directories' = {e \in {1} \X DOMAIN Opened.dirs[Reached] : Lists(Opened.dirs[Reached][e[2]])}
      BY <1>1, <3>6, <3>8
    <3>. QED
      BY <1>1, <2>2, <3>2, <3>3, <3>6, <3>9 DEF Descent
  <2>5. ASSUME Straight', Locating' PROVE Found'
    <3>1. Found
      BY <2>1, <2>2, <2>5 DEF PathInv
    <3>. QED
      BY <1>1, <2>2, <3>1 DEF Found, BeginsAt
  <2>6. place' # "return"
    BY <1>1, <1>2
  <2>. QED
    BY <2>2, <2>3, <2>4, <2>5, <2>6 DEF PathInv
<1>. QED
  BY <1>3, <1>4

LEMMA ReadNoDirectoryPaths ==
  ASSUME PathInv, ReadNoDirectory, UNCHANGED <<caller, drawn>>
  PROVE  PathInv'
<1>1. /\ place = "lookup" /\ chain # <<>> /\ LeadsAstray(Opened, chain)
      /\ place' \in {"return", "fault"}
      /\ UNCHANGED <<machine, drivers, disks, volumeVars, open, path, level>>
  BY DEF ReadNoDirectory, scanVars
<1>2. Ready /\ Resolving /\ Looking
  BY <1>1 DEF Ready, Resolving, Looking
<1>3. /\ Picture' /\ open # None /\ (Straight' => Straight)
      /\ path' \in Paths \cup {Icon} /\ Asked' = Asked
      /\ path'.letter \in Letters /\ open' = partitions'[path'.letter]
      /\ caller' = "boot" => path' = Icon
  BY <1>1, <1>2, SamePath
<1>4. ~Looking' /\ ~Locating' /\ (Ready' \/ place' = "fault")
  BY <1>1 DEF Looking, Locating, Ready
<1>5. PathTypes'
  BY <1>1, <1>2, <1>3, <1>4 DEF PathInv, PathTypes, Resolving
<1>6. ~Straight
  BY <1>1, <1>2, LookingAt DEF PathInv
<1>. QED
  BY <1>3, <1>4, <1>5, <1>6 DEF PathInv

\* The last directory: what the path names is what has its last name there.
LEMMA AtTheEnd ==
  ASSUME PathTypes, Straight, Descent, place = "lookup", AtLast
  PROVE  NamedFiles(Opened, Asked) = RealEntries(Opened, Reached, Asked[level], FALSE)
<1>1. Resolving
  BY DEF Straight
<1>2. level = Len(Asked) /\ Len(Asked) \in Nat /\ Last(Asked) = Asked[level]
  BY <1>1, PathFacts DEF AtLast, Last
<1>3. \A w \in Ways(Opened, Asked) : w[Len(Asked) - 1] = Reached
  BY <1>2 DEF Descent
<1>4. Ways(Opened, Asked) # {}
  BY DEF Straight, DirectoriesExist
<1>. QED
  BY <1>2, <1>3, <1>4 DEF NamedFiles

LEMMA FindFilePaths ==
  ASSUME PathInv, FindFile, UNCHANGED <<caller, drawn>>
  PROVE  PathInv'
<1>. DEFINE rde == EntryAt(FirstOf(Matches))
<1>1. /\ place = "lookup" /\ chain # <<>> /\ AtLast /\ Matches # {}
      /\ found' = [cluster |-> rde.cluster, size |-> rde.size]
      /\ BeginScan(open, NewCluster(rde), "sectors")
      /\ UNCHANGED <<machine, drivers, disks, volumeVars, path, level, file, astray>>
  BY DEF FindFile, LookUp
<1>2. /\ open' = open /\ goal' = "sectors" /\ place' \in {"scan", "sectors"}
      /\ chain' = IF Buffered(open[1]) THEN <<ToCluster(Opened, FirstCluster(NewCluster(rde)))>> ELSE <<>>
  BY <1>1 DEF BeginScan, Goto, Opened
<1>3. Ready /\ Resolving /\ Looking
  BY <1>1 DEF Ready, Resolving, Looking
<1>4. /\ Picture' /\ open # None /\ file = NoFile /\ astray = FALSE
      /\ Opened' = Opened /\ Asked' = Asked
      /\ Straight' => Straight
      /\ path' \in Paths \cup {Icon}
      /\ path'.letter \in Letters /\ open' = partitions'[path'.letter]
      /\ caller' = "boot" => path' = Icon
  BY <1>1, <1>2, <1>3, SamePath
<1>5. ~Looking' /\ Locating' /\ place' # "return" /\ Ready'
  BY <1>2 DEF Looking, Locating, Ready
<1>6. PathTypes'
  <2>1. Resolving' /\ level' \in 1 .. Len(Asked')
    BY <1>1, <1>3, <1>4, <1>5 DEF PathInv, PathTypes, Resolving
  <2>. QED
    BY <1>1, <1>2, <1>4, <1>5, <2>1 DEF PathTypes, NoFile
<1>7. ASSUME Straight' PROVE Found'
  <2>. DEFINE slots == Opened.dirs[Reached]
              j == FirstOf(Matches)[2]
  <2>1. PathTypes /\ Straight /\ Descent
    BY <1>3, <1>4, <1>7 DEF PathInv
  <2>2. /\ Buffered(open[1])
        /\ j \in DOMAIN slots /\ rde = slots[j] /\ Named(slots, j, Asked[level])
        /\ ~slots[j].system /\ slots[j].dir = ~AtLast
    BY <1>1, <2>1, LookingAt
  <2>3. slots[j].dir = FALSE
    BY <1>1, <2>2
  <2>4. rde \in RealEntries(Opened, Reached, Asked[level], FALSE)
    BY <2>2, <2>3 DEF RealEntries
  <2>5. rde \in NamedFiles(Opened, Asked)
    BY <1>1, <2>1, <2>4, AtTheEnd
  <2>6. chain' = <<ToCluster(Opened, FirstCluster(NewCluster(rde)))>>
    BY <1>2, <2>2
  <2>7. \E S : chain' \in Seq(S)
    <3>1. chain' \in Seq({ToCluster(Opened, FirstCluster(NewCluster(rde)))})
      BY <2>6
    <3>. QED
      BY <3>1
  <2>8. PICK e \in NamedFiles(Opened, Asked) : e = rde
    BY <2>5
  <2>9. BeginsAt(e.cluster)'
    BY <1>4, <2>6, <2>8 DEF BeginsAt, NewCluster
  <2>10. found' = [cluster |-> e.cluster, size |-> e.size]
    BY <1>1, <2>8
  <2>. QED
    BY <1>4, <2>7, <2>8, <2>9, <2>10 DEF Found
<1>. QED
  BY <1>4, <1>5, <1>6, <1>7 DEF PathInv

LEMMA EnterDirectoryPaths ==
  ASSUME PathInv, EnterDirectory, UNCHANGED <<caller, drawn>>
  PROVE  PathInv'
<1>1. /\ place = "lookup" /\ chain # <<>> /\ ~AtLast
      /\ cluster' = IF Matches = {} THEN cluster ELSE NewCluster(EntryAt(LastOf(Matches)))
      /\ level' = level + 1 /\ BeginScan(open, cluster', "lookup")
      /\ UNCHANGED <<machine, drivers, disks, volumeVars, path, file, astray>>
  BY DEF EnterDirectory, LookUp
<1>2. Ready /\ Resolving /\ Looking
  BY <1>1 DEF Ready, Resolving, Looking
<1>3. UNCHANGED <<machine, drivers, disks, kept>>
  BY <1>1 DEF volumeVars
<1>4. /\ open' = open /\ Looking' /\ ~Locating' /\ place' # "return"
      /\ /\ Straight' /\ \A w \in Ways(Opened', Asked') : w[level' - 1] = FirstCluster(cluster')
         /\ level' - 1 \in 0 .. (Len(Asked') - 1)
         => Descent'
  BY <1>1, <1>3, DirectoryScan
<1>5. /\ Picture' /\ open # None /\ file = NoFile /\ astray = FALSE
      /\ Opened' = Opened /\ Asked' = Asked
      /\ Straight' => Straight
      /\ path' \in Paths \cup {Icon}
      /\ path'.letter \in Letters /\ open' = partitions'[path'.letter]
      /\ caller' = "boot" => path' = Icon
  BY <1>1, <1>2, <1>4, SamePath
<1>6. level \in 1 .. (Len(Asked) - 1) /\ Len(Asked) \in Nat
  BY <1>1, <1>2, PathFacts DEF PathInv, AtLast
<1>7. PathTypes'
  <2>1. Ready' /\ Resolving'
    BY <1>4 DEF Ready, Resolving, Looking
  <2>2. level' \in 1 .. Len(Asked')
    BY <1>1, <1>5, <1>6
  <2>. QED
    BY <1>1, <1>4, <1>5, <2>1, <2>2 DEF PathTypes, NoFile
<1>8. ASSUME Straight', NEW w \in Ways(Opened, Asked)
      PROVE  w[level] = FirstCluster(cluster')
  <2>. DEFINE slots == Opened.dirs[Reached]
              m == LastOf(Matches)[2]
  <2>1. PathTypes /\ Straight /\ Descent
    BY <1>2, <1>5, <1>8 DEF PathInv
  <2>2. w[level - 1] = Reached
    BY <2>1 DEF Descent
  <2>3. w[level] \in {FirstCluster(e.cluster) : e \in RealEntries(Opened, Reached, Asked[level], TRUE)}
    BY <1>6, <2>2 DEF Ways
  <2>4. PICK j \in DOMAIN slots :
          /\ Named(slots, j, Asked[level]) /\ ~slots[j].system /\ slots[j].dir = TRUE
          /\ w[level] = FirstCluster(slots[j].cluster)
    BY <2>3 DEF RealEntries
  <2>5. slots[j].dir = ~AtLast
    BY <1>1, <2>4
  <2>6. <<1, j>> \in Matches
    BY <1>1, <2>1, <2>4, <2>5, LookingAt
  <2>7. LastOf(Matches) \in Matches
    BY <1>1, <2>1, <2>6, LookingAt
  <2>8. /\ m \in DOMAIN slots /\ EntryAt(LastOf(Matches)) = slots[m]
        /\ Named(slots, m, Asked[level]) /\ slots[m].dir = ~AtLast
        /\ OrdinaryDirectory(Opened, slots, Asked)
    BY <1>1, <2>1, <2>7, LookingAt
  <2>9. slots[m].dir
    BY <1>1, <2>8
  <2>10. Asked[level] \in ToSet(Asked)
    BY <1>2, <2>1, PathFacts
  <2>11. slots[m].cluster = slots[j].cluster
    BY <2>4, <2>8, <2>9, <2>10, OrdinaryFacts
  <2>12. slots[m].kind = "rde"
    BY <2>8 DEF Named
  <2>13. slots[m].cluster \in Nat /\ FirstCluster(slots[m].cluster) \in DOMAIN Opened.dirs
    BY <2>8, <2>9, <2>12 DEF OrdinaryDirectory
  <2>14. slots[m].cluster < LowClusters
    <3>1. FirstCluster(slots[m].cluster) < LowClusters
      BY <2>1, <2>13 DEF Straight, Regular, Reachable
    <3>. QED
      BY <2>13, <3>1, FatAssumption DEF FirstCluster
  <2>15. slots[m].cluster % LowClusters = slots[m].cluster
    BY <2>13, <2>14, FatAssumption, SmallMod DEF Positive
  <2>16. cluster' = slots[m].cluster
    BY <1>1, <2>6, <2>8, <2>15 DEF NewCluster
  <2>. QED
    BY <2>4, <2>11, <2>16
<1>9. ASSUME Straight' PROVE Descent'
  <2>1. level' - 1 = level /\ level \in 0 .. (Len(Asked') - 1)
    BY <1>1, <1>5, <1>6
  <2>. QED
    BY <1>4, <1>5, <1>8, <1>9, <2>1
<1>. QED
  BY <1>4, <1>5, <1>7, <1>9 DEF PathInv

LEMMA FindNothingPaths ==
  ASSUME PathInv, FindNothing, UNCHANGED <<caller, drawn>>
  PROVE  PathInv'
<1>1. /\ place = "lookup" /\ place' = "return"
      /\ UNCHANGED <<machine, drivers, disks, volumeVars, open, path, level, file>>
      /\ chain # <<>> => AtLast /\ Matches = {}
  BY DEF FindNothing, LookUp, Goto, fatVars, scanVars
<1>2. Ready /\ Resolving /\ Looking
  BY <1>1 DEF Ready, Resolving, Looking
<1>3. /\ Picture' /\ open # None /\ file = NoFile
      /\ Opened' = Opened /\ Asked' = Asked /\ Buffered(open[1])' = Buffered(open[1])
      /\ Straight' => Straight
      /\ path' \in Paths \cup {Icon}
      /\ path'.letter \in Letters /\ open' = partitions'[path'.letter]
      /\ caller' = "boot" => path' = Icon
  BY <1>1, <1>2, SamePath
<1>4. ~Looking' /\ ~Locating' /\ Ready' /\ Resolving'
  BY <1>1 DEF Looking, Locating, Ready, Resolving
<1>5. PathTypes'
  BY <1>1, <1>2, <1>3, <1>4 DEF PathInv, PathTypes, NoFile
<1>6. ASSUME Straight' PROVE Answer'
  <2>1. PathTypes /\ Straight /\ Descent
    BY <1>2, <1>3, <1>6 DEF PathInv
  <2>2. CASE chain = <<>>
    BY <1>1, <1>3, <2>1, <2>2 DEF Descent, Answer, NoFile
  <2>3. CASE chain # <<>>
    <3>. DEFINE slots == Opened.dirs[Reached]
    <3>1. ASSUME NEW e \in RealEntries(Opened, Reached, Asked[level], FALSE) PROVE FALSE
      <4>1. PICK j \in DOMAIN slots :
              Named(slots, j, Asked[level]) /\ ~slots[j].system /\ slots[j].dir = FALSE
        BY <3>1 DEF RealEntries
      <4>2. slots[j].dir = ~AtLast
        BY <1>1, <2>3, <4>1
      <4>3. <<1, j>> \in Matches
        BY <1>1, <2>1, <2>3, <4>1, <4>2, LookingAt
      <4>. QED
        BY <1>1, <2>3, <4>3
    <3>2. NamedFiles(Opened, Asked) = {}
      BY <1>1, <2>1, <2>3, <3>1, AtTheEnd
    <3>. QED
      BY <1>1, <1>3, <3>2 DEF Answer, NoFile
  <2>. QED
    BY <2>2, <2>3
<1>. QED
  BY <1>3, <1>4, <1>5, <1>6 DEF PathInv

\* What a path names is an entry of a directory.
LEMMA NamedFileFacts ==
  ASSUME NEW img, NEW names, Ordinary(img, names), Len(names) \in Nat \ {0},
         NEW e \in NamedFiles(img, names)
  PROVE  e.cluster \in Nat /\ e.size \in Nat /\ (e.size > 0 => e.cluster >= 2)
<1>1. PICK w \in Ways(img, names) : e \in RealEntries(img, w[Len(names) - 1], Last(names), FALSE)
  BY DEF NamedFiles
<1>2. w[Len(names) - 1] \in DOMAIN img.dirs
  <2>1. w \in [0 .. (Len(names) - 1) -> DOMAIN img.dirs] /\ Len(names) - 1 \in 0 .. (Len(names) - 1)
    BY <1>1 DEF Ways
  <2>. QED
    BY <2>1
<1>3. PICK c \in DOMAIN img.dirs : e \in RealEntries(img, c, Last(names), FALSE)
  BY <1>1, <1>2
<1>4. PICK j \in DOMAIN img.dirs[c] : e = img.dirs[c][j] /\ Named(img.dirs[c], j, Last(names))
  BY <1>3 DEF RealEntries
<1>5. e.kind = "rde"
  BY <1>4 DEF Named
<1>. QED
  BY <1>4, <1>5 DEF Ordinary, OrdinaryDirectory

LEMMA AtLeastOnce ==
  ASSUME NEW n \in Nat \ {0}, NEW P \in Nat
  PROVE  n * P \in Nat /\ P <= n * P
<1>1. \A a, p \in Nat : (a + 1) * p = a * p + p /\ a * p \in Nat
  BY SMT
<1>2. n - 1 \in Nat /\ (n - 1) + 1 = n
  OBVIOUS
<1>. QED
  BY <1>1, <1>2

\* The sectors of a file begin with those of its first cluster.
LEMMA FirstOfSectors ==
  ASSUME NEW img, NEW clusters, NEW S, clusters \in Seq(S), Len(clusters) > 0,
         img.perCluster \in Positive, img.reserved + img.perFAT * img.numFATs \in Nat,
         Reachable(img), NEW c \in Nat, c >= 2, clusters[1] = ToCluster(img, c)
  PROVE  /\ SubSeq(SectorsOf(img, clusters), 1, img.perCluster) = FirstSectors(img, c)
         /\ SectorsOf(img, clusters)[1] = DataSector(img, c)
<1>. DEFINE P == img.perCluster
            sectors == SectorsOf(img, clusters)
<1>1. P \in Nat \ {0} /\ Len(clusters) \in Nat \ {0}
  BY DEF Positive
<1>2. Len(clusters) * P \in Nat /\ P <= Len(clusters) * P
  BY <1>1, AtLeastOnce
<1>3. (img.reserved + img.perFAT * img.numFATs) % P = 0
  BY DEF Reachable
<1>4. DataSector(img, c) = ToCluster(img, c) * P /\ DataSector(img, c) \in Int
  <2>1. DataSector(img, c) = ToCluster(img, c) * P
             + ((img.reserved + img.perFAT * img.numFATs) % P)
    BY <1>1, ClusterOffset
  <2>2. Base(img) \in Int
    <3>. DEFINE R == img.reserved + img.perFAT * img.numFATs
    <3>1. R \in Nat /\ P \in Positive
      BY DEF Positive
    <3>2. R \div P \in Nat
      <4>. HIDE DEF R, P
      <4>. QED
        BY <3>1, Division
    <3>. QED
      BY <3>2 DEF Base
  <2>3. ToCluster(img, c) \in Int
    BY <2>2 DEF ToCluster
  <2>4. ToCluster(img, c) * P \in Int
    <3>. DEFINE t == ToCluster(img, c)
    <3>. HIDE DEF t, P
    <3>. QED
      BY <1>1, <2>3 DEF t
  <2>. QED
    BY <1>3, <2>1, <2>4
<1>5. ASSUME NEW s \in 1 .. P PROVE sectors[s] = DataSector(img, c) + s - 1
  <2>1. s - 1 \in 0 .. (P - 1) /\ P \in Positive
    BY <1>1
  <2>2. (s - 1) % P = s - 1 /\ (s - 1) \div P = 0
    <3>1. (s - 1) % P = s - 1
      BY <2>1, SmallMod
    <3>2. (s - 1) \div P = 0
      <4>. HIDE DEF P
      <4>. QED
        BY <1>1, <2>1
    <3>. QED
      BY <3>1, <3>2
  <2>3. s \in 1 .. (Len(clusters) * P)
    BY <1>1, <1>2
  <2>4. sectors[s] = clusters[(s - 1) \div P + 1] * P + ((s - 1) % P)
    BY <2>3 DEF SectorsOf
  <2>5. sectors[s] = DataSector(img, c) + (s - 1)
    BY <1>4, <2>2, <2>4
  <2>6. DataSector(img, c) + (s - 1) = DataSector(img, c) + s - 1
    BY <1>1, <1>4
  <2>. QED
    BY <2>5, <2>6
<1>6. SubSeq(sectors, 1, P) = [s \in 1 .. P |-> sectors[s]]
  <2>. DEFINE U == {sectors[s] : s \in 1 .. P}
  <2>. HIDE DEF P, sectors
  <2>1. \A s \in 1 .. P : sectors[s] \in U
    OBVIOUS
  <2>2. /\ SubSeq(sectors, 1, P) \in Seq(U)
        /\ Len(SubSeq(sectors, 1, P)) = IF 1 <= P THEN P - 1 + 1 ELSE 0
        /\ \A s \in 1 .. (P - 1 + 1) : SubSeq(sectors, 1, P)[s] = sectors[1 + s - 1]
    <3>. HIDE DEF U
    <3>. QED
      BY <1>1, <2>1, SubSeqProperties
  <2>3. P - 1 + 1 = P /\ 1 <= P /\ \A s \in 1 .. P : 1 + s - 1 = s
    BY <1>1
  <2>. HIDE DEF U
  <2>. QED
    BY <1>1, <2>2, <2>3
<1>7. FirstSectors(img, c) = [s \in 1 .. P |-> DataSector(img, c) + s - 1]
  BY DEF FirstSectors
<1>8. sectors[1] = DataSector(img, c)
  <2>1. 1 \in 1 .. P /\ DataSector(img, c) + 1 - 1 = DataSector(img, c)
    BY <1>1, <1>4
  <2>. QED
    BY <1>5, <2>1
<1>. QED
  BY <1>5, <1>6, <1>7, <1>8

LEMMA AnswerFilePaths ==
  ASSUME PathInv, AnswerFile, UNCHANGED <<caller, drawn>>
  PROVE  PathInv'
<1>1. /\ place = "sectors" /\ place' = "return"
      /\ file' = [found |-> TRUE, size |-> found.size, sectors |-> SectorsOf(Opened, chain)]
      /\ UNCHANGED <<machine, drivers, disks, volumeVars, open, path, level, astray>>
  BY DEF AnswerFile, scanVars, Goto
<1>2. Ready /\ Resolving /\ Locating /\ ~Looking
  BY <1>1 DEF Ready, Resolving, Locating, Looking
<1>3. /\ Picture' /\ open # None /\ astray = FALSE
      /\ Opened' = Opened /\ Asked' = Asked
      /\ Straight' => Straight
      /\ path' \in Paths \cup {Icon}
      /\ path'.letter \in Letters /\ open' = partitions'[path'.letter]
      /\ caller' = "boot" => path' = Icon
  BY <1>1, <1>2, SamePath
<1>4. ~Looking' /\ ~Locating' /\ Ready' /\ Resolving'
  BY <1>1 DEF Looking, Locating, Ready, Resolving
<1>5. PathTypes'
  BY <1>1, <1>2, <1>3, <1>4 DEF PathInv, PathTypes
<1>6. ASSUME Straight' PROVE Answer'
  <2>1. Straight /\ Found /\ PathTypes
    BY <1>2, <1>3, <1>6 DEF PathInv
  <2>2. PICK e \in NamedFiles(Opened, Asked) :
          /\ found = [cluster |-> e.cluster, size |-> e.size]
          /\ (\E S : chain \in Seq(S)) /\ BeginsAt(e.cluster)
    BY <2>1 DEF Found
  <2>3. PICK S : chain \in Seq(S)
    BY <2>2
  <2>4. Ordinary(Opened, Asked) /\ Reachable(Opened)
    BY <2>1 DEF Straight, Regular
  <2>5. ASSUME e.cluster \in 2 .. (LowClusters - 1)
        PROVE  /\ SubSeq(SectorsOf(Opened, chain), 1, Opened.perCluster) = FirstSectors(Opened, e.cluster)
               /\ SectorsOf(Opened, chain)[1] = DataSector(Opened, e.cluster)
    <3>1. e.cluster \in Nat /\ e.cluster >= 2 /\ e.cluster \in 0 .. (LowClusters - 1)
      BY <2>5, FatAssumption
    <3>2. e.cluster % LowClusters = e.cluster
      BY <3>1, FatAssumption, SmallMod DEF Positive
    <3>3. Len(chain) > 0 /\ chain[1] = ToCluster(Opened, e.cluster)
      BY <2>2, <3>1, <3>2 DEF BeginsAt, FirstCluster
    <3>4. Opened.perCluster \in Positive /\ Opened.reserved + Opened.perFAT * Opened.numFATs \in Nat
      BY <2>4 DEF Ordinary, Positive
    <3>. QED
      BY <2>3, <2>4, <3>1, <3>3, <3>4, FirstOfSectors
  <2>6. file'.size = e.size /\ file'.sectors = SectorsOf(Opened, chain) /\ file'.found
    BY <1>1, <2>2
  <2>7. IsFile(Opened, e)'
    BY <1>3, <2>5, <2>6 DEF IsFile
  <2>. QED
    BY <1>1, <1>3, <2>6, <2>7 DEF Answer
<1>. QED
  BY <1>3, <1>4, <1>5, <1>6 DEF PathInv

LEMMA ReturnPaths ==
  ASSUME PathInv, Return
  PROVE  PathInv'
<1>1. /\ place = "return" /\ place' = "running" /\ open' = None
      /\ drawn' = IF caller = "boot" /\ file.found /\ ~astray THEN ReadPicture ELSE drawn
      /\ UNCHANGED <<machine, drivers, disks, volumeVars>>
  BY DEF Return, Goto, ForgetScan
<1>2. UNCHANGED <<machine, drivers, disks, partitions>>
  BY <1>1 DEF volumeVars
<1>3. ~Resolving' /\ Ready' /\ Resolving
  BY <1>1 DEF Resolving, Looking, Locating, Ready
<1>4. CASE ~(caller = "boot" /\ file.found /\ ~astray)
  <2>1. Picture'
    BY <1>1, <1>2, <1>4, SamePicture DEF PathInv
  <2>. QED
    BY <1>1, <1>3, <2>1, NoPathResolved
<1>5. CASE caller = "boot" /\ file.found /\ ~astray
  <2>1. path = Icon /\ open # None /\ open = partitions[Icon.letter]
    BY <1>3, <1>5 DEF PathInv, PathTypes
  <2>2. Opened = Image(partitions[Icon.letter]) /\ Asked = Icon.names
    BY <2>1 DEF Opened, Asked
  <2>3. Image(partitions[Icon.letter])' = Opened
    BY <1>2, <2>2, SameDisks DEF Image, Entry, Content, FirstDriver, Function
  <2>4. ASSUME drawn' # <<>>, Regular(Opened, Asked), DirectoriesExist(Opened, Asked)
        PROVE  \E e \in NamedFiles(Opened, Asked) :
                 e.cluster < LowClusters =>
                    drawn' = [s \in 1 .. (e.size * Opened.perCluster) |-> DataSector(Opened, e.cluster) + s - 1]
    <3>1. Straight
      BY <1>3, <2>1, <2>4 DEF Straight
    <3>2. PICK e \in NamedFiles(Opened, Asked) : IsFile(Opened, e)
      BY <1>1, <1>5, <3>1 DEF PathInv, Answer
    <3>3. drawn' = [k \in 1 .. (e.size * Opened.perCluster) |-> file.sectors[1] + k - 1]
      BY <1>1, <1>5, <3>2 DEF ReadPicture, IsFile
    <3>4. e.cluster \in Nat /\ e.size \in Nat /\ (e.size > 0 => e.cluster >= 2)
          /\ Opened.perCluster \in Nat
      <4>1. Ordinary(Opened, Asked) /\ Len(Asked) \in Nat \ {0}
        BY <1>3, <2>4, PathFacts DEF PathInv, Regular
      <4>2. Opened.perCluster \in Nat
        BY <4>1 DEF Ordinary, Positive
      <4>. QED
        BY <4>1, <4>2, NamedFileFacts
    <3>5. e.size > 0
      <4>1. ASSUME e.size = 0 PROVE FALSE
        <5>1. e.size * Opened.perCluster = 0
          BY <3>4, <4>1
        <5>2. drawn' = [k \in 1 .. 0 |-> file.sectors[1] + k - 1]
          BY <3>3, <5>1
        <5>3. drawn' = <<>>
          BY <5>2
        <5>. QED
          BY <2>4, <5>3
      <4>. QED
        BY <3>4, <4>1
    <3>6. ASSUME e.cluster < LowClusters PROVE file.sectors[1] = DataSector(Opened, e.cluster)
      BY <3>2, <3>4, <3>5, <3>6, FatAssumption DEF IsFile
    <3>. QED
      BY <3>2, <3>3, <3>6
  <2>5. Picture'
    BY <2>2, <2>3, <2>4 DEF Picture
  <2>. QED
    BY <1>1, <1>3, <2>5, NoPathResolved
<1>. QED
  BY <1>4, <1>5

LEMMA StutterPaths ==
  ASSUME PathInv, UNCHANGED vars
  PROVE  PathInv'
<1>1. /\ UNCHANGED <<machine, place, drivers, disks, partitions, kept>>
      /\ UNCHANGED <<open, chain, next, goal, directories, path, level, cluster, found, file, astray,
                     caller, drawn>>
  BY DEF vars, deviceVars, volumeVars, fatVars, scanVars
<1>2. Picture'
  BY <1>1, SamePicture DEF PathInv
<1>3. /\ Opened' = Opened /\ Asked' = Asked /\ Buffered(open[1])' = Buffered(open[1])
      /\ Reached' = Reached
  BY <1>1, SameOpened DEF Reached
<1>4. /\ (Looking' <=> Looking) /\ (Locating' <=> Locating) /\ (Resolving' <=> Resolving)
      /\ (Constructing' <=> Constructing) /\ (Ready' <=> Ready)
  BY <1>1 DEF Looking, Locating, Resolving, Constructing, ScansRoot, Ready
<1>5. PathTypes'
  BY <1>1, <1>3, <1>4 DEF PathInv, PathTypes
<1>6. Straight' <=> Straight
  BY <1>1, <1>3, <1>4 DEF Straight
<1>7. Descent' <=> Descent
  BY <1>1, <1>3 DEF Descent
<1>8. Found' <=> Found
  BY <1>1, <1>3 DEF Found, BeginsAt
<1>9. Answer' <=> Answer
  BY <1>1, <1>3 DEF Answer, IsFile
<1>. QED
  BY <1>1, <1>2, <1>4, <1>5, <1>6, <1>7, <1>8, <1>9 DEF PathInv

LEMMA NextPaths == IInv /\ PathInv /\ [Next]_vars => PathInv'
<1>. SUFFICES ASSUME IInv, PathInv, [Next]_vars PROVE PathInv'
  OBVIOUS
<1>1. CASE (DeviceStep \/ VolumeStep) /\ UNCHANGED <<fatVars, caller, drawn>>
  BY <1>1, EarlyPaths DEF fatVars, scanVars
<1>2. CASE FatStep /\ UNCHANGED <<caller, drawn>>
  BY <1>2, FollowChainPaths, EndScanPaths, ConstructPaths, ReadNoDirectoryPaths, FindFilePaths,
     EnterDirectoryPaths, FindNothingPaths, AnswerFilePaths DEF FatStep
<1>3. CASE DrawBootScreen
  BY <1>3, ResolvePaths DEF DrawBootScreen
<1>4. CASE Return
  BY <1>4, ReturnPaths
<1>5. ASSUME NEW p \in Paths, SysResolveFile(p) PROVE PathInv'
  BY <1>5, ResolvePaths DEF SysResolveFile
<1>6. CASE UNCHANGED vars
  BY <1>6, StutterPaths
<1>. QED
  BY <1>1, <1>2, <1>3, <1>4, <1>5, <1>6 DEF Next, StorageStep

-----------------------------------------------------------------------------
(* What ResolveFile and the boot screen promise.                           *)

\* Wherever ResolveFile is: as long as the image is one that it can read, it is in the directory
\* that the path leads to, then at the file's first cluster, then at the answer.
THEOREM PathInvariant == Spec => []PathInv
<1>1. Init => PathInv
  BY InitPaths
<1>2. IInv /\ PathInv /\ [Next]_vars => PathInv'
  BY NextPaths
<1>. QED
  BY <1>1, <1>2, StorageInvariant, PTL DEF Spec

LEMMA AnsweredStraight ==
  ASSUME PathInv, Answered, Regular(Opened, Asked), DirectoriesExist(Opened, Asked)
  PROVE  Answer
<1>1. Straight /\ place = "return"
  BY DEF Answered, Straight, Resolving
<1>. QED
  BY <1>1 DEF PathInv

\* FATPartition::ResolveFile: a file that it finds in an image with regular directories and
\* names is one the path names, with its size and its first cluster.
THEOREM FoundIsNamedTheorem == Spec => []FoundIsNamed
<1>1. PathInv => FoundIsNamed
  <2>. SUFFICES ASSUME PathInv, Answered, file.found, Regular(Opened, Asked),
                       DirectoriesExist(Opened, Asked)
                PROVE  \E e \in NamedFiles(Opened, Asked) :
                         /\ file.size = e.size
                         /\ e.cluster \in 2 .. (LowClusters - 1) =>
                              SubSeq(file.sectors, 1, Opened.perCluster) = FirstSectors(Opened, e.cluster)
    BY DEF FoundIsNamed
  <2>1. Answer
    BY AnsweredStraight
  <2>. QED
    BY <2>1 DEF Answer, IsFile
<1>. QED
  BY <1>1, PathInvariant, PTL

\* And a file that the path names in such an image is found, if the disk has a page buffer left.
THEOREM NamedIsFoundTheorem == Spec => []NamedIsFound
<1>1. PathInv => NamedIsFound
  <2>. SUFFICES ASSUME PathInv, Answered, Buffered(open[1]), Regular(Opened, Asked),
                       NamedFiles(Opened, Asked) # {}
                PROVE  file.found
    BY DEF NamedIsFound
  <2>1. DirectoriesExist(Opened, Asked)
    BY DEF NamedFiles, DirectoriesExist
  <2>2. Answer
    BY <2>1, AnsweredStraight
  <2>. QED
    BY <2>2 DEF Answer
<1>. QED
  BY <1>1, PathInvariant, PTL

\* DrawBootScreen: the picture that is read is the file that its path names, from its first
\* sector on, in such an image.
THEOREM PictureIsExactTheorem == Spec => []PictureIsExact
<1>1. PathInv => PictureIsExact
  BY DEF PathInv, Picture, PictureIsExact
<1>. QED
  BY <1>1, PathInvariant, PTL
=============================================================================
