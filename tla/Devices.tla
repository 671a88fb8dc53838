------------------------------ MODULE Devices ------------------------------
(***************************************************************************)
(* From the tables of the firmware to disks: DeviceManager looks for MCFG, *)
(* PCI goes over buses, devices and functions and adds a driver for each   *)
(* AHCI controller, ActivateAll probes the ports of each, and each SATA    *)
(* port becomes a disk.                                                    *)
(***************************************************************************)
EXTENDS Integers, SequencesExt

CONSTANTS
    Machines,     \* machines to start on: tables, PCI functions, ports and disks
    MappedPorts   \* ports whose registers are in the page of the ABAR that is mapped: 30

VARIABLES
    machine,  \* the machine, which does not change
    place,    \* where kernelMain is, then KernelStage2
    at,       \* the loop variables of the walk
    drivers,  \* the list of the driver manager: PCI places of controllers
    disks     \* of each driver, the ports that it made a disk of

deviceVars == <<machine, place, at, drivers, disks>>

Goto(p) == place' = p

\* A machine: [revision, tables, ranges, config]. config[b] is a sequence of devices, each
\* a sequence of functions; an AHCI function has ports, in the order of their numbers, and a
\* SATA port a disk, whose table, if it has one, is a sequence of entries.
IsSequence(s) == s \in Seq(ToSet(s))
IsFunction(f) ==
    f.class = "ahci" =>
        /\ IsSequence(f.ports)
        /\ \A port \in ToSet(f.ports) :
             port.kind = "sata" /\ port.disk.gpt => IsSequence(port.disk.entries)
IsBus(bus) ==
    /\ IsSequence(bus) /\ bus # <<>>
    /\ \A device \in ToSet(bus) :
         IsSequence(device) /\ device # <<>> /\ \A f \in ToSet(device) : IsFunction(f)

ASSUME MachineAssumption ==
    \A m \in Machines :
        /\ IsSequence(m.ranges)
        /\ \A range \in ToSet(m.ranges) :
             /\ range.start \in Nat /\ range.end \in Nat
             /\ range.start .. (range.end - 1) \subseteq DOMAIN m.config
        /\ \A b \in DOMAIN m.config : IsBus(m.config[b])

Absent(function) == function.class = "absent"
BusHeader(b) == machine.config[b][1][1]
Function(d) == machine.config[d[1]][d[2]][d[3]]

Start == [entry |-> 1, bus |-> 0, device |-> 1, function |-> 1, driver |-> 1, port |-> 1]

DevicesInit ==
    /\ machine \in Machines
    /\ place = "acpi" /\ at = Start /\ drivers = <<>> /\ disks = <<>>

-----------------------------------------------------------------------------
(* ACPI and PCI.                                                           *)

\* FindTable: entries are eight bytes, but in a table whose revision is not 2 twice as
\* many are counted as there are. A search that fails goes on behind the table then.
RunsOver == machine.revision # 2 /\ "MCFG" \notin ToSet(machine.tables)

LocateACPI ==
    /\ place = "acpi"
    /\ \/ "MCFG" \in ToSet(machine.tables) /\ Goto("bus")
       \/ "MCFG" \notin ToSet(machine.tables) /\ Goto("activate")
       \/ RunsOver /\ Goto("fault")
    /\ at' = [at EXCEPT !.bus = IF machine.ranges = <<>> THEN 0 ELSE machine.ranges[1].start]
    /\ UNCHANGED <<machine, drivers, disks>>

InRange == at.entry <= Len(machine.ranges)

\* The loop ends before EndBus.
BusesLeft == at.bus < machine.ranges[at.entry].end

\* EnumerateBus. A bus without a function 0 of device 0 is passed over.
EnumerateBus ==
    /\ place = "bus" /\ InRange /\ BusesLeft
    /\ IF Absent(BusHeader(at.bus))
       THEN at' = [at EXCEPT !.bus = @ + 1] /\ UNCHANGED place
       ELSE at' = [at EXCEPT !.device = 1, !.function = 1] /\ Goto("device")
    /\ UNCHANGED <<machine, drivers, disks>>

NextRange ==
    /\ place = "bus" /\ InRange /\ ~BusesLeft
    /\ at' = [at EXCEPT !.entry = @ + 1,
                        !.bus = IF at.entry < Len(machine.ranges)
                                THEN machine.ranges[at.entry + 1].start ELSE @]
    /\ UNCHANGED <<machine, place, drivers, disks>>

Functions == machine.config[at.bus][at.device]
Here == <<at.bus, at.device, at.function>>

\* EnableDriverAtProgIFName adds a driver for AHCI, and for nothing else.
EnableDriver(c) == drivers' = IF Function(c).class = "ahci" THEN Append(drivers, c) ELSE drivers

\* Each function of a device that has function 0.
EnumerateFunction ==
    /\ place = "device" /\ ~Absent(Functions[1]) /\ at.function <= Len(Functions)
    /\ EnableDriver(Here)
    /\ at' = [at EXCEPT !.function = @ + 1]
    /\ UNCHANGED <<machine, place, disks>>

\* EnumerateDevice leaves a device without function 0, or behind its last function.
EnumerateDevice ==
    /\ place = "device" /\ (Absent(Functions[1]) \/ at.function > Len(Functions))
    /\ IF at.device < Len(machine.config[at.bus])
       THEN at' = [at EXCEPT !.device = @ + 1, !.function = 1] /\ UNCHANGED place
       ELSE at' = [at EXCEPT !.bus = @ + 1] /\ Goto("bus")
    /\ UNCHANGED <<machine, drivers, disks>>

EndEnumeration ==
    /\ place = "bus" /\ ~InRange /\ Goto("activate")
    /\ UNCHANGED <<machine, at, drivers, disks>>

-----------------------------------------------------------------------------
(* Drivers and ports.                                                      *)

Activating == place = "activate" /\ at.driver <= Len(drivers)
Ports == Function(drivers[at.driver]).ports
Port == Ports[at.port]

\* Activate: from its registers on.
Activate ==
    /\ Activating /\ Len(disks) < at.driver
    /\ disks' = Append(disks, <<>>) /\ at' = [at EXCEPT !.port = 1]
    /\ UNCHANGED <<machine, place, drivers>>

Probing == Activating /\ Len(disks) = at.driver

\* ProbePorts. The registers of a port behind the mapped page may be reached or not.
SkipPort ==
    /\ Probing /\ at.port <= Len(Ports) /\ Port.kind # "sata"
    /\ \/ at' = [at EXCEPT !.port = @ + 1] /\ UNCHANGED place
       \/ Port.number >= MappedPorts /\ Goto("fault") /\ UNCHANGED at
    /\ UNCHANGED <<machine, drivers, disks>>

\* A SATA port: its commands are turned off, and StopCMD waits for the device.
NewPort ==
    /\ Probing /\ at.port <= Len(Ports) /\ Port.kind = "sata"
    /\ \/ Goto("stopping")
       \/ Port.number >= MappedPorts /\ Goto("fault")
    /\ UNCHANGED <<machine, at, drivers, disks>>

\* The device stops, if it does; the rest of Configure, and the disk is there.
Configured ==
    /\ place = "stopping" /\ ~Port.stubborn
    /\ disks' = [disks EXCEPT ![at.driver] = Append(@, at.port)]
    /\ at' = [at EXCEPT !.port = @ + 1] /\ Goto("activate")
    /\ UNCHANGED <<machine, drivers>>

NextDriver ==
    /\ Probing /\ at.port > Len(Ports)
    /\ at' = [at EXCEPT !.driver = @ + 1]
    /\ UNCHANGED <<machine, place, drivers, disks>>

\* The rest of kernelMain up to KernelStage2 is in other modules.
Activated ==
    /\ place = "activate" /\ at.driver > Len(drivers) /\ Goto("volumes")
    /\ UNCHANGED <<machine, at, drivers, disks>>

DeviceStep ==
    \/ LocateACPI \/ EnumerateBus \/ NextRange \/ EnumerateFunction \/ EnumerateDevice
    \/ EndEnumeration \/ Activate \/ SkipPort \/ NewPort \/ Configured \/ NextDriver \/ Activated
=============================================================================
