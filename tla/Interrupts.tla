----------------------------- MODULE Interrupts -----------------------------
(***************************************************************************)
(* How an interrupt reaches its handler on each CPU: the stubs and         *)
(* int_bottom of interrupts.asm, InterruptManager::DoHandleInterrupt, the  *)
(* tick of the PIT, and the steps of kernelMain that set all of this up.   *)
(* What Schedule does once it has turned interrupts on again is the module *)
(* Scheduler; here it is the return of the CPU to other code.              *)
(***************************************************************************)
EXTENDS Integers, FiniteSets

CONSTANTS
    CPUs,        \* the CPUs whose local APIC is enabled at some point
    Boot,        \* the CPU that runs kernelMain; the IO APIC sends to it
    SleepTicks,  \* ticks that the sleeps of SMP::Intitialise take
    MaxKeys      \* bound: keys pressed

ASSUME BootAssumption == Boot \in CPUs
ASSUME BoundsAssumption == SleepTicks \in Nat /\ MaxKeys \in Nat

\* Vectors. hardwareInterruptOffset is 0x20; IRQ0 is the PIT, IRQ1 the keyboard,
\* which has no handler (its lines in kernelMain are comments).
IRQ0 == 32
IRQ1 == 33
SYSCALL == 128
IPI_SCHEDULE == 253
Vectors == {IRQ0, IRQ1, SYSCALL, IPI_SCHEDULE}

\* Vectors that DoHandleInterrupt acknowledges; "<= offset + 16" takes in 0x30.
LegacyIRQs == IRQ0 .. (IRQ0 + 16)
\* Wrong variant: The IPI of the scheduler is missing from the list of what is acknowledged.
AcknowledgesIRQsOnly == LegacyIRQs \cup {SYSCALL}
Acknowledged == LegacyIRQs \cup {IPI_SCHEDULE, SYSCALL}

VARIABLES
    boot,            \* how far kernelMain is
    enabled,         \* CPUs that have executed sti
    PICToggled,      \* the field: the PIC is in use
    handlers,        \* vectors with an entry in handlers[]
    Active,          \* ActiveInterruptManager # 0
    SchedulerReady,  \* the global of Scheduler.cpp
    currentProcess,  \* of the boot CPU
    interruptnumber, \* the global byte of interrupts.asm
    pending,         \* of each local APIC: requested vectors (IRR)
    inService,       \* of each local APIC: vectors not acknowledged (ISR)
    stage,           \* of each CPU: what it executes next
    taken,           \* of each CPU: the interrupt it is in, as <<vector, origin>>
    number,          \* of each CPU: the argument of DoHandleInterrupt
    TimeSinceBoot,   \* of the PIT, in ticks, no longer counted above SleepTicks + 1
    seen,            \* of each CPU: TimeSinceBoot as HandleInterrupt has read it
    ticks,           \* timer interrupts taken, counted as far as TimeSinceBoot
    keys             \* keys pressed

bootVars == <<boot, enabled, PICToggled, handlers, Active, SchedulerReady, currentProcess>>
apicVars == <<pending, inService>>
cpuVars == <<stage, taken, number, seen>>
timeVars == <<TimeSinceBoot, ticks>>
vars == <<bootVars, apicVars, cpuVars, timeVars, interruptnumber, keys>>

Phases == {"firmware", "constructed", "masked", "sleeping", "ready", "scheduling"}
Processes == {"none", "idle", "KernelStage2"}
Stages == {"running", "stub", "bottom", "dispatch", "handler", "pit", "tick", "schedule"}
MaxTime == SleepTicks + 1
Counted(t) == IF t < MaxTime THEN t + 1 ELSE t
Maximum(S) == CHOOSE m \in S : \A s \in S : s <= m

Free(c) == stage[c] = "running"
GoTo(c, s) == stage' = [stage EXCEPT ![c] = s]

-----------------------------------------------------------------------------
(* kernelMain, on the boot CPU.                                            *)

\* No InterruptManager is active, and the boot loader, which is not part of the
\* repository, enters kernelMain with interrupts off.
Init ==
    /\ boot = "firmware" /\ enabled = {}
    /\ PICToggled = TRUE /\ handlers = {} /\ Active = FALSE /\ SchedulerReady = FALSE
    /\ currentProcess = "none" /\ interruptnumber = 0
    /\ pending = [c \in CPUs |-> {}] /\ inService = [c \in CPUs |-> {}]
    /\ stage = [c \in CPUs |-> "running"]
    /\ taken = [c \in CPUs |-> <<IRQ0, "none">>]
    /\ number = [c \in CPUs |-> 0] /\ seen = [c \in CPUs |-> 0]
    /\ TimeSinceBoot = 0 /\ ticks = 0 /\ keys = 0

At(phase) == boot = phase /\ Free(Boot)

\* InterruptManager::InterruptManager: an empty table, lidt, the PIC remapped. The
\* handlers of system calls and exceptions come right after it.
Construct ==
    /\ At("firmware")
    /\ boot' = "constructed" /\ handlers' = {SYSCALL}
    /\ UNCHANGED <<enabled, PICToggled, Active, SchedulerReady, currentProcess, apicVars,
                   cpuVars, timeVars, interruptnumber, keys>>

\* Wrong variant: DissablePIC masks the PIC and leaves PICToggled as it was.
MasksOnly ==
    /\ At("constructed")
    /\ boot' = "masked" /\ handlers' = handlers \cup {IRQ0}
    /\ UNCHANGED <<enabled, PICToggled, Active, SchedulerReady, currentProcess, apicVars,
                   cpuVars, timeVars, interruptnumber, keys>>

\* PIT::PIT registers IRQ0; then DissablePIC.
DissablePIC ==
    /\ At("constructed")
    /\ boot' = "masked" /\ handlers' = handlers \cup {IRQ0}
    /\ PICToggled' = FALSE
    /\ UNCHANGED <<enabled, Active, SchedulerReady, currentProcess, apicVars, cpuVars,
                   timeVars, interruptnumber, keys>>

\* Wrong variant: the sti comes before the manager is the active one.
ActivateEnablesFirst ==
    /\ At("masked") /\ enabled' = enabled \cup {Boot}
    /\ \/ Boot \notin enabled /\ UNCHANGED <<boot, Active>>
       \/ Boot \in enabled /\ boot' = "sleeping" /\ Active' = TRUE
    /\ UNCHANGED <<PICToggled, handlers, SchedulerReady, currentProcess, apicVars, cpuVars,
                   timeVars, interruptnumber, keys>>

\* InterruptManager::Activate, after the IO APIC has been set up.
Activate ==
    /\ At("masked")
    /\ boot' = "sleeping" /\ Active' = TRUE /\ enabled' = enabled \cup {Boot}
    /\ UNCHANGED <<PICToggled, handlers, SchedulerReady, currentProcess, apicVars, cpuVars,
                   timeVars, interruptnumber, keys>>

\* SMPEntry on another CPU: Enable, and sti three lines later. It may come late.
StartCPU(c) ==
    /\ c \notin enabled /\ c # Boot
    /\ boot \in {"sleeping", "ready", "scheduling"}
    /\ enabled' = enabled \cup {c}
    /\ UNCHANGED <<boot, PICToggled, handlers, Active, SchedulerReady, currentProcess,
                   apicVars, cpuVars, timeVars, interruptnumber, keys>>

\* PIT::SleepS: nothing until TimeSinceBoot has come that far. The constructor of the
\* Scheduler registers its handler and sets SchedulerReady.
Awake == TimeSinceBoot >= SleepTicks

MakeReady ==
    /\ At("sleeping") /\ Awake
    /\ boot' = "ready" /\ SchedulerReady' = TRUE
    /\ handlers' = handlers \cup {IPI_SCHEDULE}
    /\ UNCHANGED <<enabled, PICToggled, Active, currentProcess, apicVars, cpuVars, timeVars,
                   interruptnumber, keys>>

-----------------------------------------------------------------------------
(* Sources of interrupts.                                                  *)

Enter(c, v, origin) ==
    /\ taken' = [taken EXCEPT ![c] = <<v, origin>>]
    /\ GoTo(c, "stub")

\* The IO APIC's entries, and the local APIC: a vector that is already requested stays so.
IOAPICRoutes == boot \notin {"firmware", "constructed"}
Request(S, v) == pending' = [c \in CPUs |-> IF c \in S THEN pending[c] \cup {v} ELSE pending[c]]

TimerFires ==
    /\ IOAPICRoutes /\ Request({Boot}, IRQ0)
    /\ UNCHANGED <<bootVars, inService, cpuVars, timeVars, interruptnumber, keys>>

KeyPressed ==
    /\ IOAPICRoutes /\ keys < MaxKeys
    /\ Request({Boot}, IRQ1) /\ keys' = keys + 1
    /\ UNCHANGED <<bootVars, inService, cpuVars, timeVars, interruptnumber>>

\* A CPU takes the highest vector requested, above those in service.
TakeInterrupt(c) ==
    /\ c \in enabled /\ Free(c) /\ pending[c] # {}
    /\ LET v == Maximum(pending[c]) IN
         /\ \A w \in inService[c] : w \div 16 < v \div 16
         /\ pending' = [pending EXCEPT ![c] = @ \ {v}]
         /\ inService' = [inService EXCEPT ![c] = @ \cup {v}]
         /\ Enter(c, v, "apic")
         /\ ticks' = IF v = IRQ0 THEN Counted(ticks) ELSE ticks
    /\ UNCHANGED <<bootVars, number, seen, TimeSinceBoot, interruptnumber, keys>>

\* int 0x80. DrawBootScreen of KernelStage2 is the only code that executes it, and
\* NewProcess has put KernelStage2 into the queue of the boot CPU. Its handler may look
\* for a file and wait for the disk, with interrupts off all the time: the stage
\* "handler" lasts for as long as that takes.
SystemCall(c) ==
    /\ c = Boot /\ currentProcess = "KernelStage2" /\ Free(c)
    /\ Enter(c, SYSCALL, "software")
    /\ UNCHANGED <<bootVars, apicVars, number, seen, timeVars, interruptnumber, keys>>

\* int 0xfd, the last line of the constructor of Scheduler.
CallScheduler ==
    /\ At("ready")
    /\ boot' = "scheduling" /\ Enter(Boot, IPI_SCHEDULE, "software")
    /\ UNCHANGED <<enabled, PICToggled, handlers, Active, SchedulerReady, currentProcess,
                   apicVars, number, seen, timeVars, interruptnumber, keys>>

-----------------------------------------------------------------------------
(* From the stub to the handler, with interrupts off on this CPU.          *)

\* Wrong variant: every stub subtracts the offset of the IRQs.
StubStoresLine(c) ==
    /\ stage[c] = "stub" /\ GoTo(c, "bottom")
    /\ interruptnumber' = taken[c][1] - IRQ0
    /\ UNCHANGED <<bootVars, apicVars, taken, number, seen, timeVars, keys>>

\* HandleInterruptRequestN: the number goes into the global.
StubStoresNumber(c) ==
    /\ stage[c] = "stub" /\ GoTo(c, "bottom")
    /\ interruptnumber' = taken[c][1]
    /\ UNCHANGED <<bootVars, apicVars, taken, number, seen, timeVars, keys>>

\* int_bottom: the number comes out of the global.
BottomLoadsNumber(c) ==
    /\ stage[c] = "bottom" /\ GoTo(c, "dispatch")
    /\ number' = [number EXCEPT ![c] = interruptnumber]
    /\ UNCHANGED <<bootVars, apicVars, taken, seen, timeVars, interruptnumber, keys>>

\* LocalAPICEOI clears the highest vector in service, whichever it is.
EndOfInterrupt(S) == IF S = {} THEN S ELSE S \ {Maximum(S)}

\* HandleInterrupt, and DoHandleInterrupt as far as the end of interrupt.
Dispatch(c) ==
    LET n == number[c]
        toPIC == PICToggled /\ n \in LegacyIRQs
        toAPIC == ~toPIC /\ n \in Acknowledged
    IN
    /\ stage[c] = "dispatch"
    /\ GoTo(c, IF Active THEN "handler" ELSE "running")
    /\ inService' = IF Active /\ toAPIC THEN [inService EXCEPT ![c] = EndOfInterrupt(@)]
                                        ELSE inService
    /\ UNCHANGED <<bootVars, pending, taken, number, seen, timeVars, interruptnumber, keys>>

\* handlers[interrupt]: the PIT reads TimeSinceBoot, Scheduler goes to Schedule, a
\* system call and an interrupt without handler return. IRQ0 goes on to Tick anyway.
Handler(c) ==
    LET n == number[c] IN
    /\ stage[c] = "handler"
    /\ GoTo(c, CASE n = IRQ0 /\ n \in handlers -> "pit"
                 [] n = IRQ0 /\ n \notin handlers -> "tick"
                 [] n = IPI_SCHEDULE /\ n \in handlers -> "schedule"
                 [] OTHER -> "running")
    /\ seen' = [seen EXCEPT ![c] = IF n = IRQ0 THEN TimeSinceBoot ELSE 0]
    /\ UNCHANGED <<bootVars, apicVars, taken, number, timeVars, interruptnumber, keys>>

\* PIT::HandleInterrupt: TimeSinceBoot += ..., the second half.
AddTick(c) ==
    /\ stage[c] = "pit" /\ GoTo(c, "tick")
    /\ TimeSinceBoot' = Counted(seen[c])
    /\ UNCHANGED <<bootVars, apicVars, taken, number, seen, ticks, interruptnumber, keys>>

\* Wrong variant: Tick sends its IPI before it looks at SchedulerReady.
TickAlwaysSends(c) ==
    /\ stage[c] = "tick"
    /\ Request(enabled \ {c}, IPI_SCHEDULE)
    /\ GoTo(c, IF SchedulerReady THEN "schedule" ELSE "running")
    /\ UNCHANGED <<bootVars, inService, taken, number, seen, timeVars, interruptnumber, keys>>

\* Scheduler::Tick: nothing until SchedulerReady; else an IPI to all others.
Tick(c) ==
    /\ stage[c] = "tick"
    /\ IF SchedulerReady
       THEN Request(enabled \ {c}, IPI_SCHEDULE) /\ GoTo(c, "schedule")
       ELSE GoTo(c, "running") /\ UNCHANGED pending
    /\ UNCHANGED <<bootVars, inService, taken, number, seen, timeVars, interruptnumber, keys>>

\* Scheduler::Schedule: from the sti of GetCPULocal on the CPU can be interrupted. It may
\* return at once (a time slice, the lock); else a CPU without a process gets its idle
\* process, and then the one of its queue. kernelMain is no process: once Schedule
\* switches, it does not go on.
Schedule(c) ==
    /\ stage[c] = "schedule" /\ GoTo(c, "running")
    /\ \/ UNCHANGED <<boot, currentProcess>>
       \/ /\ c = Boot
          /\ currentProcess' = IF currentProcess = "none" THEN "idle" ELSE "KernelStage2"
          /\ boot' = "scheduling"
    /\ UNCHANGED <<enabled, PICToggled, handlers, Active, SchedulerReady, apicVars,
                   taken, number, seen, timeVars, interruptnumber, keys>>

HandlerStep(c) ==
    \/ StubStoresNumber(c) \/ BottomLoadsNumber(c) \/ Dispatch(c)
    \/ Handler(c) \/ AddTick(c) \/ Tick(c) \/ Schedule(c)

BootStep == Construct \/ DissablePIC \/ Activate \/ MakeReady \/ CallScheduler

Next ==
    \/ BootStep
    \/ TimerFires \/ KeyPressed
    \/ \E c \in CPUs : StartCPU(c) \/ TakeInterrupt(c) \/ SystemCall(c) \/ HandlerStep(c)

Spec == Init /\ [][Next]_vars

\* A CPU goes on executing, kernelMain whenever no handler is on its CPU; the timer goes
\* on; a local APIC delivers what is requested at the next instruction with interrupts
\* on, and there is one after every iretq.
Fairness ==
    /\ SF_vars(BootStep) /\ WF_vars(TimerFires)
    /\ \A c \in CPUs : WF_vars(HandlerStep(c)) /\ SF_vars(TakeInterrupt(c))

FairSpec == Spec /\ Fairness

-----------------------------------------------------------------------------
(* Properties.                                                             *)

Origins == {"none", "apic", "software"}

\* Types of the variables.
TypeOK ==
    /\ boot \in Phases /\ enabled \subseteq CPUs
    /\ PICToggled \in BOOLEAN
    /\ handlers \subseteq Vectors /\ Active \in BOOLEAN /\ SchedulerReady \in BOOLEAN
    /\ currentProcess \in Processes
    /\ interruptnumber \in Vectors \cup {0}
    /\ pending \in [CPUs -> SUBSET Vectors] /\ inService \in [CPUs -> SUBSET Vectors]
    /\ stage \in [CPUs -> Stages] /\ taken \in [CPUs -> Vectors \X Origins]
    /\ number \in [CPUs -> Vectors \cup {0}]
    /\ TimeSinceBoot \in 0 .. MaxTime /\ ticks \in 0 .. MaxTime
    /\ seen \in [CPUs -> 0 .. MaxTime] /\ keys \in 0 .. MaxKeys

\* The end of interrupt (interrupts.cpp:213-224) is for the interrupt the CPU has taken,
\* sent once, and before any code that could leave for good (Schedule): a local APIC
\* has nothing in service but what its CPU is about to acknowledge. A system call's
\* acknowledges nothing that is not its own.
BeforeEOI == {"stub", "bottom", "dispatch"}
InServiceIsOwn ==
    \A c \in CPUs :
        inService[c] = IF stage[c] \in BeforeEOI /\ taken[c][2] = "apic"
                       THEN {taken[c][1]} ELSE {}

\* Until the scheduler is ready only the boot CPU takes interrupts, so that the global
\* interruptnumber is its own and TimeSinceBoot counts the ticks, on which the
\* sleeps of smp.cpp:128-139 rely.
Ticking == /\ taken[Boot] = <<IRQ0, "apic">>
           /\ stage[Boot] \in BeforeEOI \cup {"handler", "pit"}
BootIsExact ==
    ~SchedulerReady =>
        /\ \A c \in CPUs \ {Boot} : stage[c] = "running" /\ pending[c] = {}
        /\ stage[Boot] \in Stages \ {"running", "stub", "bottom"}
              => number[Boot] = taken[Boot][1]
        /\ ticks = IF Ticking THEN Counted(TimeSinceBoot) ELSE TimeSinceBoot

\* What a local APIC has been asked for, its CPU takes: no interrupt stays in
\* service and keeps others out (interrupts.cpp:213-224, :221 in particular).
Taken == \A c \in CPUs : \A v \in Vectors : v \in pending[c] ~> v \in inService[c]

\* The sleeps of SMP::Intitialise end, and the scheduler is called (kernel.cpp:358-369).
SchedulingStarts == <>(boot = "scheduling")

\* "Variable for the interrupt number to be passed to the int_bottom from handler"
\* (interrupts.asm:158): what DoHandleInterrupt gets is the interrupt taken.
NumberIsPassed ==
    \A c \in CPUs : stage[c] = "dispatch" => number[c] = taken[c][1]
=============================================================================
