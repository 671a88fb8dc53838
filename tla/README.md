# Unified-OS: a TLA+ specification

Unified-OS is a small 64-bit kernel for SMP machines: an EFI loader starts
`kernelMain`, which sets up memory, interrupts, devices and the other CPUs and
then runs kernel processes under a preemptive scheduler. This directory
specifies the parts of it where order, interruption and boundaries decide
whether it works. TLC checks the specifications on small instances; TLAPS proves
the three refinements and all invariants that the runs check, for every instance; a few
theorems have hypotheses, which section 3 names.

Paths below are relative to the root of the repository, which has its own
`src/` and `inc/`.

## 1. The system

| Component | State | Operations | Interacts with |
|---|---|---|---|
| Page frame allocator (`src/Paging/PageFrameAllocator.cpp`, `Bitmap.cpp`) | bitmap, free/used/reserved counters, cursor | ReadEFIMemoryMap, RequestPage(s), FreePage(s), LockPages, ReservePages | every component that needs pages: page tables, heap, disk buffers, AHCI, CPU stacks |
| Page tables (`PageTableManager.cpp`, `PageMapIndexer.cpp`, `Paging.cpp`) | four levels of tables, cr3 | MapMemory, InitialisePaging | page frame allocator (tables), heap, PCI, SMP boot |
| Kernel heap (`src/memory/heap.cpp`) | linked block headers, heap end | malloc, free, ExpandHeap | page frame allocator, page tables; every `new`, every Vector |
| Vectors, spin locks (`inc/common/vector.h`, `inc/IO/spinlock.h`) | data, count, capacity, lock | add_back, erase, remove, clear, ... | heap; scheduler queues, partition lists, FAT listings |
| Interrupts (`src/interrupts/interrupts.{asm,cpp}`) | IDT, handler table, the number of the interrupt being taken | stubs, DoHandleInterrupt, Activate, DissablePIC | PIT, scheduler, exceptions, system calls, drivers |
| PIT (`src/interrupts/timer/pit.cpp`) | TimeSinceBoot, divisor | tick, SleepS, SetFrequency | SMP boot sleeps; its interrupt drives the scheduler |
| System calls (`src/interrupts/sycalls.cpp`) | none | HandleInterrupt: number to function | console, volumes |
| Exceptions, panic (`src/exceptions`) | none | print and stop | interrupts |
| APIC (`src/IO/APIC`) | ids and addresses from the MADT, registers | ReadAPIC, SendIPI, MapLegacyIRQ, EOI | SMP boot, scheduler, interrupts |
| GDT, TSS (`src/gdt`) | tables | LoadGDT, InitTSS | page frame allocator (interrupt stacks) |
| SMP boot (`src/smp`) | magic word, id, stack, doneInit; CPUs[], ActiveCPUs | Intitialise, InitializeCPU, trampoline, SMPEntry | APIC, PIT, page frame allocator, heap |
| Scheduler (`src/process`) | a queue, a lock, a current process and an idle process per CPU; contexts, time slices | Tick, Schedule, NewProcess, ProcessSwitch | interrupts, vectors, SMP boot |
| Disk devices (`src/fs/DiskDevice.cpp`) | eight page buffers and a bit mask of those in use | Read, Write, ReadBlocks, WriteBlocks, InitializePartitions | AHCI, heap, volumes |
| AHCI (`src/drivers/Intel/AHCI`) | port registers, one command table | Configure, ReadDiskBlock, WriteDiskBlock, ProbePorts | page frame allocator, PCI |
| Volumes, partitions (`src/fs/VolumeManager.cpp`, `ParitionDevice.cpp`) | mount points, two cursors | MountVolume, MountPartition, ResolveFile/Dir | disk devices, FAT32 |
| FAT32 (`src/fs/Formats/FAT/FAT32`) | boot sector copy | ScanForEntries, ReadDirectoryEntries, ResolveFile | partitions, heap |
| Drivers, PCI, ACPI (`src/drivers/Driver.cpp`, `src/IO/DeviceManager`) | driver list | AddDriver, FindDriver, ActivateAll, enumeration, FindTable | page tables, AHCI |
| PS/2 mouse, keyboard (`src/drivers/Input`) | packet buffer and offset | HandleInterrupt | interrupts (not created by kernelMain today) |
| Console, strings, memory, images, ports | cursor, static buffers | printf, to_string, memcpy, ... | everything |
| Boot (`src/kernel.cpp`) | boot context | kernelMain, InitialisePaging, KernelStage2 | everything |

What makes it hard:

* **Nested interruption.** `GetCPULocal` ends in `sti`, also inside interrupt
  handlers, and the end of interrupt is signalled before the handler runs. So
  `Schedule` can be interrupted at every step, by itself, and the stack it saves
  as a process may be a handler that is half done.
* **Several CPUs, few locks.** Only the scheduler's queues have locks. The page
  frame allocator, the heap, the disk buffers and the console have none and
  depend on who runs when.
* **Globals as parameters.** SMP boot passes id and stack of the starting CPU in
  globals; the interrupt stubs pass the interrupt's number in one.
* **Running out.** Almost no caller checks the NULL of RequestPage or malloc.
* **Boundaries.** Bitmap, memory and reservation have three different ends;
  blocks and chunks of disk transfers, mount points and cluster chains have
  boundaries of their own.

What makes each component correct: a page frame or a payload has one owner; the
allocators' bookkeeping adds up after any order of calls; a process is in one
place of one queue, gets its turn, and resumes on its own stack; locks are held
by one and released; every CPU boots under its own identity; a transfer moves
exactly the bytes asked for; a mount point has one volume. Where the code
depends on a discipline that is not enforced (one CPU at a time in an allocator),
that discipline is itself the property (`AllocatorsAreSerial`,
`ScheduleNeverAllocates`).

The hazards behind the properties are listed with their lines in `PROJECT.json`.

## 2. Modules

    PageFrameAllocator   the page frame allocator
      PageFrameAllocator_proofs
    PageOwnership        what malloc and free promise: exclusive ownership
    Heap                 the kernel heap; implements PageOwnership, with units
                         of memory for pages
      Heap_proofs
    RoundRobin           what the scheduler promises: processes take turns
    Scheduler            the scheduler on all CPUs; implements RoundRobin
      Scheduler_proofs
    SmpBoot              how the other CPUs start
      SmpBoot_proofs
    Interrupts           from an interrupt to its handler, on every CPU; the PIT
      Interrupts_proofs
    AHCIPort             one port of the disk controller and the device behind it
      DiskDevice         a disk: calls cut into pieces that go through the port
        DiskDevice_proofs
    AddressSpace         what MapMemory promises: a map from pages to page frames
    PageTables           the four levels of tables; implements AddressSpace
      PageTables_proofs
    Devices              from the firmware's tables to drivers and disks
      Volumes            extends Devices: partition tables, mount points, letters
        Fat32            extends Volumes: cluster chains, directories, paths
          Storage        extends Fat32: the stack, from power-on to a file
            Storage_proofs
    MC...                the constants of the runs

Where a module defines an operator it calls a *wrong variant*, that operator is
not part of the specification. It is the definition next to it with a plausible
mistake, kept to show that the properties notice the mistake: with the variant
in place of the definition TLC finds the property violated.

### PageFrameAllocator

One action per call, and per round of the two loops of ReadEFIMemoryMap. A page
frame is its number. `locked` is the set of set bits; the three counters count
pages. A client is a purpose for which pages are held (`holds`), and frees what
it was given. `FoundAt` is the search from the cursor; RequestPage is a run of
one. Single bits are not stepped through: a LockPages over a range is its net
effect, the bits that were clear.

The bitmap has whole bytes, so it has bits for frames that are not memory, and
`Bitmap::Set` lets one index past the end through; that bit (`stray`) may hold
anything at the start. These edges are in the model since the counters and the
ownership of runs that reach the end depend on them. The reservation of
ReadEFIMemoryMap is one page longer than the memory (line 69) and the spare bits
stay clear, so frames that are not memory can be granted; both are as in the code,
and no property says otherwise.

* `pfa`: boot on three memory maps (spare bits, none, a hole), with requests for page
  tables between the kernel's lock and the framebuffer's, then any sequence of requests
  and frees by five clients, single and runs of three. Two of the clients are page
  tables (`PageTables`), which nobody frees. Five clients and a handful of free frames
  reach every relation of cursor, runs and holes: full memory, a run that does not fit
  below the cursor, a run that crosses the end. Invariants: the counters add up, no
  page frame has two owners, and what is set aside is not handed out. Action property:
  from the moment the framebuffer is locked no page frame of it is handed out
  (FramebufferIsKept). The run does not check deadlock: memory may be full of page tables.

The lock of the framebuffer (`kernel.cpp:197`) comes after the page tables of memory have
been requested, so where the memory map calls the framebuffer conventional a table may
lie in it. LockPage skips what is locked already, and no call gives a table back; both
together are what FramebufferIsKept is about, and not that the framebuffer holds no table:
where the map calls it conventional it may, and drawing then overwrites the table (see
PageTables). FreePages, with its count, has no callers in the repository; it is in the
model as the header offers it.

NULL does not mean that memory has run out: RequestPages moves the common cursor past
free page frames that are too short a run and leaves it there when it succeeds
(`PageFrameAllocator.cpp:127`); a later RequestPage starts above them. The model does
so too; no property says otherwise.

### Heap

`header` maps the address of every header in the list to its fields, as in
memory; addresses count units of 0x10 bytes, to which malloc rounds. malloc is one
step per round of its loop (a block that fits, a block that does not, an
expansion, an expansion without pages), since its termination is a property;
free is one step. Pages are six units instead of 256 and a header two: large
enough for splits, refused splits, joins on both sides and expansions that are
short by a header, small enough to enumerate. What is freed was given by malloc
and is not freed twice; malloc(0) is left out.

* `heap`: list, tiling, no two free neighbours, no leak, and ownership of
  payloads; and malloc returns, or there was no page left and the
  kernel has stopped in a page fault. The run starts with no page left or with
  twenty, so both outcomes are reached, and no expansion is cut short: one that is
  breaks the tiling (section 4). It does not check deadlock, since the panic stops
  the system. Fairness is weak for malloc's steps: the caller goes on
  executing.

### Scheduler

Every line of Schedule between two accesses to shared state is a step, as is
every step of NewProcess that reads or writes a queue or a lock. What a CPU
executes (`exec`) and what is saved for a process (`context`) is a stack: an owner
and the handlers open on it, innermost first. An interrupt pushes a handler,
Return pops it, Switch replaces the whole stack by the context of the current
process, and SaveAndErase stores the stack below the handler - including handlers
it interrupted - as the context.

Left out: the branch for PROCESS_DYING (nothing sets that state), ActiveTicks,
fsBase and the FX area, pids, and the limit on the spin of acquireLock (0xFFFFFFF
attempts; a holder needs a few steps). In ProcessSwitch the stack pointer is for a
few instructions inside the Process object; the model takes ProcessSwitch as one
step.

Bounds. `MaxDepth` handlers on one stack (2 in the safety runs: the property
violations that nesting can cause need one handler inside another; the code has
no bound at all). `WindowTicks` interrupts between Release and ProcessSwitch: with
more ticks in that window than a slice has the code saves the wrong stack, which
is the window of five milliseconds that the code relies on; the bound states that
reliance and ContextIsOwn holds under it only (section 3). Time slices are 1 instead of 5 and wrap at
4 instead of 256; only "zero or not" and "wraps" are told apart.

* `scheduler`: two CPUs, three processes, one of which creates the other two
  while both CPUs rotate. RoundRobinSpec among its properties.
* `scheduler_liveness`: every queued process runs again and again. Fairness:
  weak for Schedule on each CPU (a handler that has the CPU goes on), strong for
  interrupts (the timer never stops and the local APIC latches an IPI until
  interrupts are on, but interrupts are off now and then), strong for a process in NewProcess
  (it goes on whenever it has the CPU, which it keeps losing). Handlers finish
  before the next tick here (MaxDepth = 1): with nesting the race on the time
  slice can repeat for ever and nobody else is run.
* `scheduler_slice`: that race, see section 4.

### SmpBoot

The boot CPU's loop, InitializeCPU step by step, and each CPU's trampoline and
SMPEntry. CPUs in `Dead` never answer; those in `Late` may answer after
InitializeCPU has given them up; all others answer within the sleeps. The
printing is left out, and so is what GDT and TSS contain. Nothing in the code keeps a CPU
that was given up from answering, and it then runs SMPEntry with what was prepared for the
next one. `Punctual` says that no such CPU has answered; OwnIdentity and AllocatorsAreSerial
promise nothing after that.

* `smp_boot`: three ACPI tables (in order; out of order; with a gap and a
  processor that cannot be enabled), one CPU dead and two that may be late, which they
  also may not be. Boot completes in every case: a late CPU that sets the magic word for
  another sets doneInit for it as well. That two CPUs in the heap or the page frame
  allocator at once do not destroy it is assumed there; the model has no contents of
  either. Weak fairness for each CPU: it executes its code.

That a CPU which is counted has finished (`smp.cpp:149`) does not hold with a late CPU: it is
in section 4, and no run checks it.

With a gap in the ids the loop of the scheduler's constructor (`Scheduler.cpp:39`),
which indexes CPUs[] with 0 .. ActiveCPUs - 1, misses a CPU. The module Scheduler
starts from ids without gaps.

### Interrupts

From the request of a vector at a local APIC to the handler: the stub stores the
vector in the global `interruptnumber`, int_bottom loads it, DoHandleInterrupt ends
the interrupt and calls the handler. Each of these is a step, as is each half of
`TimeSinceBoot +=`, and steps of different CPUs interleave; on one CPU interrupts
are off from the stub to the `sti` in Schedule. kernelMain is a sequence of phases
on the boot CPU: constructor, DissablePIC, Activate, the sleeps of SMP boot, the
constructor of the scheduler. What Schedule does after its `sti` is the module
Scheduler; here the CPU is then free. Of the processes only KernelStage2 makes system calls
(`kernel.cpp:99`), and NewProcess has put it into the queue of the boot CPU; so
`currentProcess` is kept for that CPU, and SystemCall asks that it is KernelStage2. The
call's handler may look for a file, and then waits for the disk with interrupts off
(`sycalls.cpp:78-87`): the CPU stays in the stage "handler" for any finite time while others
go on. That the wait ends is what `disk` and `storage` say, with their exceptions; with
one of those the boot CPU takes no interrupt any more, and Taken is not for that. Exceptions (which stop the CPU), the PIC (masked
before interrupts are turned on) and IST entries are left out.

* `interrupts`: two CPUs. Safety: each interrupt is acknowledged once, by the CPU that
  took it, and before a handler that may never return; up to the start of the
  scheduler time is exact. Liveness: nothing requested is kept out for ever, and the
  scheduler starts. Fairness: weak for the steps of a handler (the CPU goes on) and
  for the timer; strong for kernelMain, which goes on between two interrupts, and for
  taking an interrupt, which a local APIC does at the first instruction with interrupts
  on. Bounds: time counts up to one tick more than the sleeps need, since only
  "slept long enough" is told apart; one key is pressed.
* `interrupts_race`: two stubs share one global, see section 4: a tick of the boot CPU meets
  the IPI of the tick before on the other CPU (no key is pressed in this run). After the scheduler has
  started a tick may be taken for an IPI or the reverse. InServiceIsOwn and Taken
  hold all the same, since both vectors are acknowledged.

Two assumptions. The firmware hands over with interrupts off: an interrupt before
Activate would never be acknowledged (as in the wrong variant `ActivateEnablesFirst`).
And the heap starts on pages of zeros: PIT::TimeSinceBoot is never initialised
(`pit.h:23`).

### AHCIPort and DiskDevice

AHCIPort is one call of ReadDiskBlock or WriteDiskBlock: programmed, waiting for the
device to be ready, issued, answered; and the device, which carries the command out,
is busy for too long, or reports an error and stops. DiskDevice cuts a call into
pieces - the first block, the rounds of the loop, the excess, or the four loops of
ReadBlocks and WriteBlocks as one that takes the largest chunk that fits - and copies
between page and caller. `Current` is the piece in progress and `Advance` the way to
the next. Since no byte decides what is done, bytes are only told apart by where they
come from, and are named anew at each call.

A call of Read or Write reaches at least the end of its first block, as the callers'
do (whole sectors, clusters, files longer than a block); for a shorter one line 154
wraps. There is one call at a time: KernelStage2 reads before anything else runs.
Without a free buffer Read and Write do nothing; ReadBlocks and WriteBlocks, whose
test for that (line 280) is never true, go on with Buffer[255], which lies behind the
object. The model lets it be a page that works or none ("fault"), and not a page in use
by something else.

* `disk`: six reads and writes of bytes and four of blocks, chosen so that chunks of
  eight, four, two and one occur in every position and with every remainder; two
  buffers, so that both the last one and none is reached; up to two failures of the
  device in a call. Fairness: weak for the steps of a call and of the device, which
  answers one way or the other. The run does not check deadlock: a fault, and a wait
  for a stopped device, are the end of the system.

### PageTables

A page and a page frame are numbers, a page frame as a table is `memory[f]`. MapMemory
is a step per level: Descend where the table is there, else NewTable (the request),
ClearTable and LinkTable; SetPage writes the last entry. The walk of the MMU is
`Translate`. Until cr3 is loaded memory is reached as the loader mapped it; from then
on a table is reached at its own address, if that is mapped to itself, and PageFault is
what happens otherwise. The callers are the loops of InitialisePaging over memory and
framebuffer, the heap, and drivers that map their registers. `WriteHeap` stands for
whatever is written through a page of the heap, and `DrawFramebuffer` for whatever is drawn,
from the start of boot on. RequestPage is the sequence `supply` of
its answers, which end in NULL; that no page frame is answered twice is what
PageFrameAllocator shows (ExclusiveOwnership), since these callers never free one.
MapMemory runs to its end before it is called again.

Like the code the model does not look at NULL, and page frames behind memory, for which
the bitmap has bits, may be answered. So may page frames of the framebuffer, which is
locked only when the tables of memory are built (`kernel.cpp:197`), if the memory map calls
it conventional. `starved` says that one of these has happened; nothing is promised
afterwards, since a table is then at address 0, or where it cannot be reached, or drawn over.

* `page_tables`: four entries a table, so that memory, framebuffer, heap and a device
  lie in four parts of the tree and share tables within each; answers in
  several orders, too few of them, answers behind memory and one of the framebuffer;
  page frames blank or full of old entries. Memory is 16 page frames, one of them the
  framebuffer's; everything takes 13 of the others. The tables stay a tree that nothing else is in, a fault
  comes only after a bad answer, and AddressSpace is implemented: a call changes the
  translation of one page, in its last step.

### Devices, Volumes, Fat32 and Storage

Four modules, each of which extends the one before with the variables and the steps of
its part; `place` is the line of control through all of them. A machine is given
whole and does not change: tables of the firmware, PCI functions, ports, disks, images.
What a disk reads is what is there, as DiskDevice shows for reads of whole sectors; what
is kept of DiskDevice is that ReadBlocks never gives its buffer back (`kept`), and that
a disk without a buffer reads nothing in Read and anything in ReadBlocks.

*Devices* is the search for MCFG, the walk over buses, devices and functions (a step
each), the list of drivers, and Activate: the ports, each SATA port a disk after StopCMD. A table whose
revision is not 2 is searched behind its end if nothing is found (`ACPI.cpp:14`), and the
registers of ports 30 and 31 lie behind the page that was mapped: both may fault or
not. The bus EndBus is not looked at, as in the code.
*Volumes* is InitVolumes: GetNextFreeDiskMount and GetNextFreePartitonMount with their
cursors (`NextFree`), the header, the table and the boot sectors, and MountPartition. Only
the first driver's disks are mounted, as in the code.
*Fat32* is the constructor, ScanForEntries (one step per entry), ReadDirectoryEntries,
and ResolveFile (one step per part of a path). A listing is a set of positions, cluster and
slot; `Longs` is what of the slots in front of an entry the code has collected for it.
Names are sequences of pieces of text; `LongName` and `IsShortName` are what the code makes
of entries. What the code reads where there is no directory is any answer (ReadNoDirectory).
*Storage* adds KernelStage2's picture and system call 6 of processes, and what a path
names by the rules of FAT, to which the answers are compared: `Named` is whether a slot has
a name, `Ways` the ways through directories along a path, and `NamedFiles` what is at their
ends.

* `storage`: forty-six machines: every kind of chain, unusual images one at a time (a root
  of two clusters, an empty one, data that begins within a cluster, a directory behind
  the reach of the low half, names with and without long parts, long parts without an
  entry), more partitions than
  letters, more disks than mount points, fewer buffers than reads, hidden and
  NTFS partitions, stubborn ports, PCI ranges with an absent bus. Three letters and four
  buffers stand for 26 and eight: wrapping, skipping and running out all happen.
  Fairness: weak for the steps of the stack, which one CPU executes; the choice of a
  process to resolve a path needs none. The run does not check deadlock: a fault, a
  port that never stops, and a chain without end are the end of the system.
* `fat_chain`: the sectors of a file, see section 4.

FoundIsNamed, NamedIsFound and PictureIsExact are about images that are `Regular` for the
path. Its parts are a list of what the code does not do or takes for granted. `Reachable`: no
chains of a directory, no high halves of its cluster number, data that begins at a multiple of
a cluster. `WellNamed`: no short names of eight letters, no read-only entries. `Ordinary`:
directories as FAT drivers write them, and a path that does not write a short name's base and
extension together, which is how the code spells a directory's and, with the dot at the end,
that of a file of eight letters. Images and a path that are not
Ordinary are in the run, too; what the code does with them is in section 4 (FoundIffNamed).

A read of a partition is taken to answer what the read of its disk does. PartitionDevice::Read
has no return statement (`ParitionDevice.cpp:38-40`); its callers test the result, and get
that of DiskDevice::Read since the register is left as it is by the makefile's build, which does
not optimise. A path without a slash is left out (PathAssumption): ResolveFile takes one from
the number of slashes, which wraps (`FATPartition.cpp:90`), and then indexes behind the list
of parts. Left out: a
first cluster in the second half of the FATs (`FAT.cpp:30`, the branch that reads FAT2),
a caller's own mount point, ResolveDir, which does nothing, and MBR partitions, which
the code does not read.

## 3. Proofs

`PageFrameAllocator_proofs` proves, for every memory map, kernel image,
framebuffer, set of clients and run sizes that satisfy the ASSUMEs of the module:
`TypeCorrect`, `AccountsBalance`, `NoDoubleGrant`, `SetAsideIsSafe` and
`FramebufferStays`. The inductive invariant joins four facts. TypeOK keeps the
bits inside the bitmap. Accounting needs the sum of the counters and their relation
to the number of set bits together, since every operation moves a count from
one to another (the lemmas LockEffect and FreeEffect). ExclusiveOwnership
is inductive only with HeldIsLocked - a run that fits is clear, so it does not meet
what is held - and for runs that reach past the bitmap, where nothing is marked, with
the fact that such a run contains the last cells that it could share with
another. SetAsideIsNeverGranted needs to know at each step of boot which ranges are
marked already. FramebufferStays needs that a page frame of the framebuffer is marked
from the lock on, and that the marked ones are either held by page tables or by nobody: a
run that fits is clear, and nobody who holds one frees it.

`Interrupts_proofs` proves, for every set of CPUs and every length of the sleeps:
`TypeCorrect`, `EveryEOIIsOwn` and `BootTimeIsExact`. The two properties are not
inductive alone. That an interrupt is acknowledged needs to know that the number
which arrives is some vector that is acknowledged although it may be another CPU's
(StagesInOrder), that the manager is active and the PIC off whenever a handler runs
(SetUp; that KernelStage2 only runs then is part of it). That time is exact needs that only the boot CPU uses the global before the
scheduler is ready, which holds since only Tick requests the IPI and is gated
(BootAlone, and the first part of BootIsExact itself).

`PageTables_proofs` proves, for any number of entries a table, any memory, framebuffer,
heap and devices that satisfy the ASSUMEs, and whatever RequestPage answers and others write:
`TablesStayApart`, `NoFaultBefore` and `ImplementsAddressSpace`. The invariant says
that `starved` holds or that all is Well, which joins five facts. *Tree*: what an
entry of the upper levels leads to is the table of that path, so two paths never share
a table (with IndexerInjective, two pages never share a last entry). *Walking*: MapMemory
is at the table of its page, and a page frame it is about to link is in no table
and in no answer to come. *HeapApart*: no page of the heap is a table or will be
one. *Identity*: what has been mapped of memory is mapped to itself, all of it once cr3
is loaded. Each needs the others: LinkTable keeps the tree since the page frame is apart
and blank; it changes no translation since a blank table translates nothing
(LinkTranslates); SetPage changes one since an entry of a last table is read
by the walk of one page (SetPageTranslates); what is written to the heap or drawn changes none
since no table is there (WrittenBeside); and no step faults since tables are in memory and memory
is mapped to itself. What the proof rests on from outside is SuppliesAssumption: RequestPage
gives no page frame twice. For the allocator that is ExclusiveOwnership, proved
in PageFrameAllocator_proofs as long as nobody frees what he uses.

`Scheduler_proofs` proves, for any number of CPUs, processes and creators, any time
slice, and handlers nested to any depth: `LockIsHeldTheorem`, `HeadIsCurrentTheorem`,
`QueuedOnceTheorem`, `ScheduleNeverAllocatesTheorem` and `ImplementsRoundRobin`. The
properties speak of a CPU's current handler, but a stack may hold many, so the invariant
looks at a stack through two things only: the stage under the lock that some handler on it
has reached (`Stage`), and the `Line` of the CPU, which is its queue with what a rotation
has taken out put back. *Nesting*: a handler above one with the lock comes no further
than the test of the lock, and no stack is saved with the lock held, which is what
acquireTestLock is for. *Locks*: the lock is 1 exactly while one handler of that CPU or one
NewProcess is in its section. *Stages*: what each stage has made of queue and current
process; the head of the line is the current process. *Lines* and *Pending*: a process has
one place in one line, with room in the vector behind it, or is still to be added. Each step
then turns one line, admits one process to a line, or changes no line and no current
process (the lemma NextInductive), and this is at the same time the refinement.
`QueuesBalancedTheorem` needs one assumption more, that one process creates all others, as
KernelStage2 does: two creators may both see the same shortest queue before either adds.

Its second part proves that the context saved for a process is a stack of that
process (`ContextIsOwnTheorem`), and that no two CPUs execute on one stack
(`StacksAreApartTheorem`), on the assumption WindowTicks <= DefaultTimeSlice: between
`currentProcess =` and ProcessSwitch a CPU takes no more interrupts than a slice has ticks.
Interrupts are on there, the lock is free, and a handler that got as far as the erase would
save the old process's stack as the new one's. What prevents it is the slice: the process
picked has a full one, and what is left covers the handlers that are still to be charged to
it (*Covered*). The assumption is needed: with DefaultTimeSlice = 1, WindowTicks = 3 and
MaxDepth = 4 TLC finds ContextIsOwn violated in MCScheduler.

`Heap_proofs` proves, for any clients, sizes and layout: `HeapIsTiledTheorem`,
`NoAdjacentFreeTheorem`, `NoLeakTheorem`, `BlocksAreMappedTheorem` and `ImplementsOwnership`.
That the headers are a list is not said by following it. The invariant says that Next and
Prev are inverse (*Linked*), that each block ends where its Next begins (*Covering*), and
that every header lies behind the end of every block at a lower address (*Apart*); the last
is what keeps the header that Split writes from falling on another, and makes Next the
nearest. The lemmas say what Split, CombineForward and ExpandHeap do to any such list. These
theorems are about behaviours with `[]EnoughPages`: an expansion gets all its pages or none.
Without it they are false (section 4, BlocksAreMapped): ExpandHeap gives the segment its whole
length whatever was mapped. `SmallRequestsAreSafe` shows where the code is right without it:
if no request is for more than a page, all four hold whatever RequestPage answers.

`SmpBoot_proofs` proves, for any list of processors, any boot CPU, any CPUs that never
answer and any that are late: `OwnIdentityTheorem` and `AllocatorsAreSerialTheorem`.
The invariant holds as long as no CPU has answered that was given up (*Punctual*). It says
that at most one other CPU is under way, the target of the boot CPU (*OneAtATime*), and what
magic, smpID, smpStack and doneInit mean at each of its points (*Globals*, *Handshake*). One
assumption: the ids the firmware lists are distinct (what ReadAPIC keeps is computed with
SelectSeq, which is recursive, so this is said of its result; TLC checks it for the three
tables).

`DiskDevice_proofs` proves, for any block size, disk, buffers and calls that satisfy
CallAssumption, and any failures of the device: `ReadsAreExactTheorem`, `WritesLandTheorem`,
`OtherBlocksKeptTheorem` and `BuffersAccountedTheorem`. `IsPiece` says what holds of every
piece wherever in the call it is: it begins at the byte up to which the call is `Done`, ends
within the call, its blocks fit the page, and the bytes it does not want are all before
the call or behind it. AdvanceFacts says that no byte lies between a piece and the next (the
slow part of a round takes the last block of the chunk once more). The invariant then relates
the bytes: what is done is at the caller (*Received*) or on the disk (*Sent*), the page holds
the piece once it was read or is to be written (*Paged*), and the command in the port is the
one of the piece (*Commanded*). With faults only OtherBlocksKept and the buffers remain, since
the answer of the port is not looked at.

`Storage_proofs` proves, for any machines that satisfy MachineAssumption, any number of mount
points and buffers, and any partition tables: `MountsAreExactTheorem` and `LettersStayTheorem`.
The first speaks of the end of a walk over buses, ports, disks and entries, so the invariant says
where the walk is (*WalkType*, *BusWalk*, *DiskWalk*: the loop variables are within the tables
they index, each driver is an AHCI function of the machine, each disk a SATA port of its driver)
and, at every place of it, which partitions have been visited (*Visited*, by *Phases*). A
partition that was to be mounted has the letter of its rank among those visited (*LettersAre*),
and a volume the mount point of its disk (*VolumesAre*). The two cursors are then the least of
the count of what was mounted and the number of mount points, so everything below a cursor is
taken and nothing from it on: NextFree finds the next or, once all are taken, none, although the
search starts wherever the cursor was left and the cursor is wrapped in one place only. Nothing
is said of places after a "fault". `LettersStayTheorem` is about steps: a letter that was given
is never given again. `ClusterOffset` is a lemma on the two ways to get from a cluster to a
sector, and shows why the data must begin at a multiple of a cluster (`Reachable`).

The same module proves of paths, for any machine, images, paths and callers:
`FoundIsNamedTheorem`, `NamedIsFoundTheorem` and `PictureIsExactTheorem`. They are about images
that are `Regular`, as the properties say. The invariant *PathInv* says where ResolveFile is. While it looks,
its directory is the one to which every way along the path leads, up to the part it looks
for, and its listing is what is listed there (*Descent*). While it follows the file's chain, the
entry is one of NamedFiles and the chain begins at its first cluster (*Found*). When it returns,
the file has that entry's size and its sectors begin with those of its first cluster, or the path
names nothing, or the disk had no buffer (*Answer*). Three lemmas carry it. NamesAgree: what the
code collects in front of an entry are the parts of its name (the slots from some slot on), so
that both put together the same long name, and short names agree where they can be
spelled. DirectoryIsRead: the sectors of a cluster are those where its directory is. LookingAt:
the first and the last of the matches are entries of the name, and there are none only if
there is no such entry.

What Ordinary asks for is needed. With a free slot between the parts of a long name and the
next entry the code gives that entry a name that is not its own, and some short names are
found with their dot missing or in another place (section 4, FoundIffNamed); of two directories of one name it enters the last
only; a directory that leads to none, and contents without a first cluster, are read somewhere
else.

Proved are thus all invariants that the runs check. Out of the prover's reach are the liveness
properties (MallocReturns, EveryProcessRuns, BootCompletes, CallsReturn and those of Interrupts),
statements with ENABLED, and induction over data: that the rest of a chain is or is not the
file's (SectorsAreTheFiles) is about chains to their end, and only model-checked.

## 4. Where the code does not do what it says

| Run | Statement | What the code does |
|---|---|---|
| `scheduler_slice` | a process goes on while it has ticks left | two nested handlers both decrement a slice of one; it wraps to 255 (`Scheduler.cpp:95`) |
| `interrupts_race` | the global passes the number to int_bottom | between the stub and int_bottom of the boot CPU, for a tick, the other CPU's stub stores the IPI's number; the tick is handled as an IPI and TimeSinceBoot does not count it (`interrupts.asm:133`) |
| `fat_chain` | ScanForEntries adds the next entry of the chain | the cluster's number counts from 2 already, and from the second cluster on the entry two further on is read: a file of clusters 4 and 5 goes on with what entry 7 says (`FAT.cpp:74`) |

Five more are stated in the modules and in no run. Each is shown by the configuration
named, with this invariant in place of its own and the constants given.

| Invariant | Configuration | What the code does |
|---|---|---|
| BlocksAreMapped (Heap) | `MCHeap.cfg`, Sizes {10, 48, 96, 160}, Supplies {3} | after a partial expansion the block is longer than what was mapped (`heap.cpp:171`); HeapIsTiled is violated with it |
| WritesAreExact (DiskDevice) | `MCDiskDevice.cfg`, MaxFaults 0 | the excess of a Write is taken from the start of the caller's buffer (`DiskDevice.cpp:261`) |
| MissingIsNotFound (Storage) | `MCStorage.cfg` | a directory that does not exist is skipped, and the file looked for where it was missed (`FATPartition.cpp:336`) |
| FoundIffNamed (Storage) | `MCStorage.cfg` | free slots do not end the collection of a long name's parts: parts without an entry rename the next entry, which is then found under their name and not under its own (`Directory.cpp:33-38`); and the dot of a file's short name takes the place of its first space, so that a base of eight letters is found with the dot behind the extension and not in front of it, and a directory's extension follows its base without one (`FATPartition.cpp:193-239`) |
| BootedHaveFinished (SmpBoot) | `MCSmpBoot.cfg` | InitializeCPU waits for anybody's doneInit; a late CPU is counted as the next one, and allocates while the boot CPU does (`smp.cpp:150`) |

## 5. Plan

Done: *PageFrameAllocator, Heap, Scheduler, SmpBoot, Interrupts, DiskDevice* with one caller,
*PageTables*, and the storage stack *Devices, Volumes, Fat32, Storage*; proofs for all of them.
Left, in this order:

1. *Heap*: an invariant for behaviours in which an expansion was cut short, which says how far
   the list is still whole.
2. *DiskDevice*: two callers on one port, once processes read files at the same time.
3. Composition: allocator and heap with several CPUs inside at once. Neither has a lock
   and nothing in the code keeps two processes apart, so ownership does not hold
   there; what is worth stating is who may call (AllocatorsAreSerial,
   ScheduleNeverAllocates).

Not modelled, and not planned:

* console output, formatting and string helpers, image decoding, port instructions,
  names of PCI devices, exceptions and panic (print and stop), the contents of
  descriptor tables, the EFI loader (a binary): they keep no state that another
  component's correctness depends on;
* `Vector` by itself: the scheduler's queues and their lock are in Scheduler, every other
  vector has one user at a time and is a sequence. `remove`, `insert` and `add_front` are
  called by no code that runs (PROCESS_DYING is never set);
* the PS/2 drivers, which kernelMain does not create.
