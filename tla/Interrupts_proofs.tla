-------------------------- MODULE Interrupts_proofs --------------------------
(***************************************************************************)
(* Theorems about the way of an interrupt to its handler, for every set of *)
(* CPUs, every length of the sleeps and every number of keys.              *)
(***************************************************************************)
EXTENDS Interrupts, TLAPS

\* The largest of a set of vectors is one of them.
LEMMA MaximumOfVectors ==
  ASSUME NEW S, S \subseteq Vectors, S # {}
  PROVE  Maximum(S) \in S
<1>1. \E m \in S : \A s \in S : s <= m
  <2>1. CASE IPI_SCHEDULE \in S
    BY <2>1 DEF Vectors, IRQ0, IRQ1, SYSCALL, IPI_SCHEDULE
  <2>2. CASE IPI_SCHEDULE \notin S /\ SYSCALL \in S
    BY <2>2 DEF Vectors, IRQ0, IRQ1, SYSCALL, IPI_SCHEDULE
  <2>3. CASE IPI_SCHEDULE \notin S /\ SYSCALL \notin S /\ IRQ1 \in S
    BY <2>3 DEF Vectors, IRQ0, IRQ1, SYSCALL, IPI_SCHEDULE
  <2>4. CASE IPI_SCHEDULE \notin S /\ SYSCALL \notin S /\ IRQ1 \notin S
    <3>1. S = {IRQ0}
      BY <2>4 DEF Vectors
    <3>. QED
      BY <3>1 DEF IRQ0
  <2>. QED
    BY <2>1, <2>2, <2>3, <2>4
<1>. QED
  BY <1>1 DEF Maximum

\* One vector in service: the end of interrupt leaves none.
LEMMA EndOfOne ==
  ASSUME NEW S, S = {} \/ \E v \in Vectors : S = {v}
  PROVE  EndOfInterrupt(S) = {}
<1>1. CASE S = {}
  BY <1>1 DEF EndOfInterrupt
<1>2. CASE \E v \in Vectors : S = {v}
  <2>1. PICK v \in Vectors : S = {v}
    BY <1>2
  <2>2. Maximum(S) \in S
    BY <2>1, MaximumOfVectors
  <2>. QED
    BY <2>1, <2>2 DEF EndOfInterrupt
<1>. QED
  BY <1>1, <1>2

\* A count stays a count.
LEMMA CountedType ==
  ASSUME NEW t \in 0 .. MaxTime
  PROVE  Counted(t) \in 0 .. MaxTime
BY BoundsAssumption DEF Counted, MaxTime

-----------------------------------------------------------------------------
(* The inductive invariant.                                                *)

\* What an interrupt brings from the stub to DoHandleInterrupt is a vector, and Schedule is
\* reached only once the scheduler is ready.
StagesInOrder ==
    \A c \in CPUs :
        /\ stage[c] # "running" => Active
        /\ stage[c] = "bottom" => interruptnumber \in Vectors
        /\ stage[c] \in Stages \ {"running", "stub", "bottom"} => number[c] \in Vectors
        /\ stage[c] = "schedule" => SchedulerReady

\* How far kernelMain is, in terms of what it has set up.
SetUp ==
    /\ Active <=> boot \in {"sleeping", "ready", "scheduling"}
    /\ SchedulerReady <=> boot \in {"ready", "scheduling"}
    /\ enabled # {} => Active
    /\ boot \in {"masked", "sleeping", "ready", "scheduling"}
         => PICToggled = FALSE /\ IRQ0 \in handlers
    /\ IPI_SCHEDULE \in handlers => SchedulerReady
    /\ currentProcess # "none" => SchedulerReady

\* Before the scheduler is ready, in detail: the boot CPU alone uses interruptnumber.
BootAlone ==
    ~SchedulerReady =>
        /\ pending[Boot] \subseteq {IRQ0, IRQ1}
        /\ stage[Boot] # "running" => taken[Boot] \in {IRQ0, IRQ1} \X {"apic"}
        /\ stage[Boot] = "bottom" => interruptnumber = taken[Boot][1]
        /\ stage[Boot] = "pit" => seen[Boot] = TimeSinceBoot
        /\ stage[Boot] \in {"pit", "tick"} => number[Boot] = IRQ0

IInv == TypeOK /\ StagesInOrder /\ SetUp /\ InServiceIsOwn /\ BootAlone /\ BootIsExact

LEMMA InitIInv == Init => IInv
<1>. SUFFICES ASSUME Init PROVE IInv
  OBVIOUS
<1>1. TypeOK
  <2>1. taken \in [CPUs -> Vectors \X Origins]
    BY DEF Init, Vectors, Origins, IRQ0, IRQ1, SYSCALL, IPI_SCHEDULE
  <2>2. MaxTime \in Nat
    BY BoundsAssumption DEF MaxTime
  <2>3. stage \in [CPUs -> Stages] /\ number \in [CPUs -> Vectors \cup {0}]
    BY DEF Init, Stages
  <2>4. seen \in [CPUs -> 0 .. MaxTime]
    BY <2>2 DEF Init
  <2>5. /\ pending \in [CPUs -> SUBSET Vectors]
        /\ inService \in [CPUs -> SUBSET Vectors]
    BY DEF Init
  <2>6. TimeSinceBoot \in 0 .. MaxTime /\ ticks \in 0 .. MaxTime /\ keys \in 0 .. MaxKeys
    BY <2>2, BoundsAssumption DEF Init
  <2>. QED
    BY <2>1, <2>3, <2>4, <2>5, <2>6 DEF Init, TypeOK, Phases, Processes
<1>2. StagesInOrder /\ SetUp
  BY DEF Init, StagesInOrder, SetUp
<1>3. InServiceIsOwn
  BY DEF Init, InServiceIsOwn, BeforeEOI
<1>4. BootAlone /\ BootIsExact
  BY BootAssumption DEF Init, BootAlone, BootIsExact, Ticking, BeforeEOI
<1>. QED
  BY <1>1, <1>2, <1>3, <1>4 DEF IInv

LEMMA ConstructInductive ==
  ASSUME IInv, Construct
  PROVE  IInv'
<1>. USE BootAssumption DEF IInv
<1>1. TypeOK'
  BY DEF Construct, At, apicVars, cpuVars, timeVars, Free, TypeOK, Phases, Processes, Stages,
       StagesInOrder, SetUp, Vectors, Origins, IRQ0, IRQ1, SYSCALL, IPI_SCHEDULE
<1>2. StagesInOrder'
  BY DEF Construct, At, apicVars, cpuVars, timeVars, Free, StagesInOrder, Stages, TypeOK
<1>3. SetUp'
  BY DEF Construct, At, apicVars, cpuVars, timeVars, Free, SetUp, TypeOK, StagesInOrder,
       Stages, Vectors, Origins, IRQ0, IRQ1, SYSCALL, IPI_SCHEDULE
<1>4. InServiceIsOwn'
  BY DEF Construct, At, apicVars, cpuVars, timeVars, Free, InServiceIsOwn, BeforeEOI,
       TypeOK
<1>5. BootAlone'
  BY DEF Construct, At, apicVars, cpuVars, timeVars, Free, BootAlone, TypeOK
<1>6. BootIsExact'
  BY DEF Construct, At, apicVars, cpuVars, timeVars, Free, BootIsExact, Stages, Ticking,
       BeforeEOI, TypeOK
<1>. QED
  BY <1>1, <1>2, <1>3, <1>4, <1>5, <1>6

LEMMA DissablePICInductive ==
  ASSUME IInv, DissablePIC
  PROVE  IInv'
<1>. USE BootAssumption DEF IInv
<1>1. TypeOK'
  BY DEF DissablePIC, At, apicVars, cpuVars, timeVars, Free, TypeOK, Phases, Processes, Stages,
       StagesInOrder, SetUp, Vectors, Origins, IRQ0, IRQ1, SYSCALL, IPI_SCHEDULE
<1>2. StagesInOrder'
  BY DEF DissablePIC, At, apicVars, cpuVars, timeVars, Free, StagesInOrder, Stages,
       TypeOK
<1>3. SetUp'
  BY DEF DissablePIC, At, apicVars, cpuVars, timeVars, Free, SetUp, TypeOK,
       StagesInOrder, Stages, Vectors, Origins, IRQ0, IRQ1, SYSCALL, IPI_SCHEDULE
<1>4. InServiceIsOwn'
  BY DEF DissablePIC, At, apicVars, cpuVars, timeVars, Free, InServiceIsOwn, BeforeEOI,
       TypeOK
<1>5. BootAlone'
  BY DEF DissablePIC, At, apicVars, cpuVars, timeVars, Free, BootAlone, TypeOK
<1>6. BootIsExact'
  BY DEF DissablePIC, At, apicVars, cpuVars, timeVars, Free, BootIsExact, Stages,
       Ticking, BeforeEOI, TypeOK
<1>. QED
  BY <1>1, <1>2, <1>3, <1>4, <1>5, <1>6

LEMMA ActivateInductive ==
  ASSUME IInv, Activate
  PROVE  IInv'
<1>. USE BootAssumption DEF IInv
<1>1. TypeOK'
  BY DEF Activate, At, apicVars, cpuVars, timeVars, Free, TypeOK, Phases, Processes, Stages
<1>2. StagesInOrder'
  BY DEF Activate, At, apicVars, cpuVars, timeVars, Free, StagesInOrder, Stages, TypeOK
<1>3. SetUp'
  BY DEF Activate, At, apicVars, cpuVars, timeVars, Free, SetUp, TypeOK
<1>4. InServiceIsOwn'
  BY DEF Activate, At, apicVars, cpuVars, timeVars, Free, InServiceIsOwn, BeforeEOI,
       TypeOK
<1>5. BootAlone'
  BY DEF Activate, At, apicVars, cpuVars, timeVars, Free, BootAlone, TypeOK
<1>6. BootIsExact'
  BY DEF Activate, At, apicVars, cpuVars, timeVars, Free, BootIsExact, Stages, Ticking,
       BeforeEOI, TypeOK
<1>. QED
  BY <1>1, <1>2, <1>3, <1>4, <1>5, <1>6

LEMMA MakeReadyInductive ==
  ASSUME IInv, MakeReady
  PROVE  IInv'
<1>. USE BootAssumption DEF IInv
<1>1. TypeOK'
  BY DEF MakeReady, At, apicVars, cpuVars, timeVars, Free, TypeOK, Phases, Processes, Stages,
       StagesInOrder, SetUp, Vectors, Origins, IRQ0, IRQ1, SYSCALL, IPI_SCHEDULE
<1>2. StagesInOrder'
  BY DEF MakeReady, At, apicVars, cpuVars, timeVars, Free, StagesInOrder, Stages, TypeOK
<1>3. SetUp'
  BY DEF MakeReady, At, apicVars, cpuVars, timeVars, Free, SetUp, TypeOK
<1>4. InServiceIsOwn'
  BY DEF MakeReady, At, apicVars, cpuVars, timeVars, Free, InServiceIsOwn, BeforeEOI,
       TypeOK
<1>5. BootAlone'
  BY DEF MakeReady, At, apicVars, cpuVars, timeVars, Free, BootAlone, TypeOK
<1>6. BootIsExact'
  BY DEF MakeReady, At, apicVars, cpuVars, timeVars, Free, BootIsExact, Stages, Ticking,
       BeforeEOI, TypeOK
<1>. QED
  BY <1>1, <1>2, <1>3, <1>4, <1>5, <1>6

LEMMA CallSchedulerInductive ==
  ASSUME IInv, CallScheduler
  PROVE  IInv'
<1>. USE BootAssumption DEF IInv
<1>1. TypeOK'
  BY DEF CallScheduler, At, Enter, apicVars, timeVars, GoTo, Free, TypeOK, Phases, Processes,
       Stages, StagesInOrder, SetUp, Vectors, Origins, IRQ0, IRQ1, SYSCALL, IPI_SCHEDULE
<1>2. StagesInOrder'
  BY DEF CallScheduler, At, Enter, apicVars, timeVars, GoTo, Free, StagesInOrder,
       Stages, TypeOK, SetUp
<1>3. SetUp'
  BY DEF CallScheduler, At, Enter, apicVars, timeVars, GoTo, Free, SetUp, TypeOK
<1>4. InServiceIsOwn'
  BY DEF CallScheduler, At, Enter, apicVars, timeVars, GoTo, Free, InServiceIsOwn,
       BeforeEOI, TypeOK
<1>5. BootAlone'
  BY DEF CallScheduler, At, Enter, apicVars, timeVars, GoTo, Free, BootAlone, TypeOK,
       StagesInOrder, SetUp, Stages
<1>6. BootIsExact'
  BY DEF CallScheduler, At, Enter, apicVars, timeVars, GoTo, Free, BootIsExact, Stages,
       Ticking, BeforeEOI, TypeOK
<1>. QED
  BY <1>1, <1>2, <1>3, <1>4, <1>5, <1>6

LEMMA TimerFiresInductive ==
  ASSUME IInv, TimerFires
  PROVE  IInv'
<1>. USE BootAssumption DEF IInv
<1>1. TypeOK'
  BY DEF TimerFires, Request, IOAPICRoutes, bootVars, cpuVars, timeVars, TypeOK, Phases, Processes,
       Stages, StagesInOrder, SetUp
<1>2. StagesInOrder'
  BY DEF TimerFires, Request, IOAPICRoutes, bootVars, cpuVars, timeVars, StagesInOrder,
       Stages, TypeOK
<1>3. SetUp'
  BY DEF TimerFires, Request, IOAPICRoutes, bootVars, cpuVars, timeVars, SetUp, TypeOK
<1>4. InServiceIsOwn'
  BY DEF TimerFires, Request, IOAPICRoutes, bootVars, cpuVars, timeVars, InServiceIsOwn,
       BeforeEOI, TypeOK
<1>5. BootAlone'
  BY DEF TimerFires, Request, IOAPICRoutes, bootVars, cpuVars, timeVars, BootAlone,
       TypeOK
<1>6. BootIsExact'
  BY DEF TimerFires, Request, IOAPICRoutes, bootVars, cpuVars, timeVars, BootIsExact,
       Stages, Ticking, BeforeEOI, TypeOK
<1>. QED
  BY <1>1, <1>2, <1>3, <1>4, <1>5, <1>6

LEMMA KeyPressedInductive ==
  ASSUME IInv, KeyPressed
  PROVE  IInv'
<1>. USE BootAssumption DEF IInv
<1>1. TypeOK'
  <2>1. keys' \in 0 .. MaxKeys
    BY BoundsAssumption DEF KeyPressed, TypeOK
  <2>2. pending' \in [CPUs -> SUBSET Vectors]
    BY DEF KeyPressed, Request, TypeOK, Vectors
  <2>. QED
    BY <2>1, <2>2 DEF KeyPressed, bootVars, cpuVars, timeVars, TypeOK
<1>2. StagesInOrder'
  BY DEF KeyPressed, Request, IOAPICRoutes, bootVars, cpuVars, timeVars, StagesInOrder,
       Stages, TypeOK
<1>3. SetUp'
  BY DEF KeyPressed, Request, IOAPICRoutes, bootVars, cpuVars, timeVars, SetUp, TypeOK
<1>4. InServiceIsOwn'
  BY DEF KeyPressed, Request, IOAPICRoutes, bootVars, cpuVars, timeVars, InServiceIsOwn,
       BeforeEOI, TypeOK
<1>5. BootAlone'
  BY DEF KeyPressed, Request, IOAPICRoutes, bootVars, cpuVars, timeVars, BootAlone,
       TypeOK
<1>6. BootIsExact'
  BY DEF KeyPressed, Request, IOAPICRoutes, bootVars, cpuVars, timeVars, BootIsExact,
       Stages, Ticking, BeforeEOI, TypeOK
<1>. QED
  BY <1>1, <1>2, <1>3, <1>4, <1>5, <1>6

LEMMA StartCPUInductive ==
  ASSUME IInv, NEW c \in CPUs, StartCPU(c)
  PROVE  IInv'
<1>. USE BootAssumption DEF IInv
<1>1. TypeOK'
  BY DEF StartCPU, apicVars, cpuVars, timeVars, TypeOK, Phases, Processes, Stages
<1>2. StagesInOrder'
  BY DEF StartCPU, apicVars, cpuVars, timeVars, StagesInOrder, Stages, TypeOK
<1>3. SetUp'
  BY DEF StartCPU, apicVars, cpuVars, timeVars, SetUp, TypeOK
<1>4. InServiceIsOwn'
  BY DEF StartCPU, apicVars, cpuVars, timeVars, InServiceIsOwn, BeforeEOI, TypeOK
<1>5. BootAlone'
  BY DEF StartCPU, apicVars, cpuVars, timeVars, BootAlone, TypeOK
<1>6. BootIsExact'
  BY DEF StartCPU, apicVars, cpuVars, timeVars, BootIsExact, Stages, Ticking, BeforeEOI,
       TypeOK
<1>. QED
  BY <1>1, <1>2, <1>3, <1>4, <1>5, <1>6

LEMMA TakeInterruptInductive ==
  ASSUME IInv, NEW c \in CPUs, TakeInterrupt(c)
  PROVE  IInv'
<1>. USE BootAssumption DEF IInv
<1>. DEFINE v == Maximum(pending[c])
<1>a. v \in pending[c] /\ v \in Vectors
  BY MaximumOfVectors DEF TakeInterrupt, TypeOK
<1>b. /\ pending' = [pending EXCEPT ![c] = @ \ {v}]
      /\ inService' = [inService EXCEPT ![c] = @ \cup {v}]
      /\ taken' = [taken EXCEPT ![c] = <<v, "apic">>]
      /\ stage' = [stage EXCEPT ![c] = "stub"]
      /\ ticks' = IF v = IRQ0 THEN Counted(ticks) ELSE ticks
  BY DEF TakeInterrupt, Enter, GoTo
<1>. HIDE DEF v
<1>1. TypeOK'
  <2>1. taken' \in [CPUs -> Vectors \X Origins]
    BY <1>a, <1>b DEF TypeOK, Origins
  <2>2. ticks' \in 0 .. MaxTime
    BY <1>b, CountedType DEF TypeOK
  <2>3. stage' \in [CPUs -> Stages]
    BY <1>b DEF TypeOK, Stages
  <2>4. /\ pending' \in [CPUs -> SUBSET Vectors]
        /\ inService' \in [CPUs -> SUBSET Vectors]
    BY <1>a, <1>b DEF TypeOK
  <2>. QED
    BY <2>1, <2>2, <2>3, <2>4 DEF TakeInterrupt, bootVars, TypeOK
<1>2. StagesInOrder'
  BY DEF TakeInterrupt, Free, Enter, bootVars, GoTo, StagesInOrder, Stages, TypeOK,
       SetUp
<1>3. SetUp'
  BY DEF TakeInterrupt, Free, Enter, bootVars, GoTo, SetUp, TypeOK
<1>4. InServiceIsOwn'
  <2>1. inService[c] = {}
    BY DEF TakeInterrupt, Free, InServiceIsOwn, BeforeEOI
  <2>. QED
    BY <2>1, <1>b DEF InServiceIsOwn, BeforeEOI, TypeOK
<1>5. BootAlone'
  <2>1. SUFFICES ASSUME ~SchedulerReady PROVE BootAlone'
    BY DEF TakeInterrupt, bootVars, BootAlone
  <2>2. c = Boot
    BY <2>1 DEF TakeInterrupt, BootIsExact
  <2>. QED
    BY <2>1, <2>2, <1>a, <1>b DEF TypeOK, BootAlone
<1>6. BootIsExact'
  <2>1. SUFFICES ASSUME ~SchedulerReady PROVE BootIsExact'
    BY DEF TakeInterrupt, bootVars, BootIsExact
  <2>2. c = Boot
    BY <2>1 DEF TakeInterrupt, BootIsExact
  <2>3. ticks = TimeSinceBoot /\ TimeSinceBoot' = TimeSinceBoot
    BY <2>1, <2>2 DEF TakeInterrupt, Free, BootIsExact, Ticking, BeforeEOI
  <2>4. Ticking' <=> v = IRQ0
    BY <2>2, <1>b DEF TypeOK, Ticking, BeforeEOI
  <2>. QED
    BY <2>1, <2>2, <2>3, <2>4, <1>b DEF TypeOK, BootIsExact, Stages
<1>. QED
  BY <1>1, <1>2, <1>3, <1>4, <1>5, <1>6

LEMMA SystemCallInductive ==
  ASSUME IInv, NEW c \in CPUs, SystemCall(c)
  PROVE  IInv'
<1>. USE BootAssumption DEF IInv
<1>1. TypeOK'
  BY DEF SystemCall, Free, Enter, bootVars, apicVars, timeVars, GoTo, TypeOK, Phases, Processes,
       Stages, StagesInOrder, SetUp, Vectors, Origins, IRQ0, IRQ1, SYSCALL, IPI_SCHEDULE
<1>2. StagesInOrder'
  BY DEF SystemCall, Free, Enter, bootVars, apicVars, timeVars, GoTo, StagesInOrder,
       Stages, TypeOK, SetUp
<1>3. SetUp'
  BY DEF SystemCall, Free, Enter, bootVars, apicVars, timeVars, GoTo, SetUp, TypeOK
<1>4. InServiceIsOwn'
  BY DEF SystemCall, Free, Enter, bootVars, apicVars, timeVars, GoTo, InServiceIsOwn,
       BeforeEOI, TypeOK
<1>5. BootAlone'
  BY DEF SystemCall, Free, Enter, bootVars, apicVars, timeVars, GoTo, BootAlone, TypeOK,
       StagesInOrder, SetUp, Stages
<1>6. BootIsExact'
  BY DEF SystemCall, Free, Enter, bootVars, apicVars, timeVars, GoTo, BootIsExact,
       Stages, Ticking, BeforeEOI, TypeOK, StagesInOrder, SetUp
<1>. QED
  BY <1>1, <1>2, <1>3, <1>4, <1>5, <1>6

LEMMA StubStoresNumberInductive ==
  ASSUME IInv, NEW c \in CPUs, StubStoresNumber(c)
  PROVE  IInv'
<1>. USE BootAssumption DEF IInv
<1>1. TypeOK'
  BY DEF StubStoresNumber, GoTo, bootVars, apicVars, timeVars, TypeOK, Phases, Processes, Stages
<1>2. StagesInOrder'
  BY DEF StubStoresNumber, GoTo, bootVars, apicVars, timeVars, StagesInOrder, Stages,
       TypeOK
<1>3. SetUp'
  BY DEF StubStoresNumber, GoTo, bootVars, apicVars, timeVars, SetUp, TypeOK
<1>4. InServiceIsOwn'
  BY DEF StubStoresNumber, GoTo, bootVars, apicVars, timeVars, InServiceIsOwn,
       BeforeEOI, TypeOK
<1>5. BootAlone'
  BY DEF StubStoresNumber, GoTo, bootVars, apicVars, timeVars, BootAlone, TypeOK,
       StagesInOrder, SetUp, InServiceIsOwn, BootIsExact, Phases, Processes, Stages, Ticking,
       BeforeEOI
<1>6. BootIsExact'
  BY DEF StubStoresNumber, GoTo, bootVars, apicVars, timeVars, BootIsExact, Stages,
       Ticking, BeforeEOI, TypeOK
<1>. QED
  BY <1>1, <1>2, <1>3, <1>4, <1>5, <1>6

LEMMA BottomLoadsNumberInductive ==
  ASSUME IInv, NEW c \in CPUs, BottomLoadsNumber(c)
  PROVE  IInv'
<1>. USE BootAssumption DEF IInv
<1>1. TypeOK'
  BY DEF BottomLoadsNumber, GoTo, bootVars, apicVars, timeVars, TypeOK, Phases, Processes, Stages
<1>2. StagesInOrder'
  BY DEF BottomLoadsNumber, GoTo, bootVars, apicVars, timeVars, StagesInOrder, Stages,
       TypeOK
<1>3. SetUp'
  BY DEF BottomLoadsNumber, GoTo, bootVars, apicVars, timeVars, SetUp, TypeOK
<1>4. InServiceIsOwn'
  BY DEF BottomLoadsNumber, GoTo, bootVars, apicVars, timeVars, InServiceIsOwn,
       BeforeEOI, TypeOK
<1>5. BootAlone'
  BY DEF BottomLoadsNumber, GoTo, bootVars, apicVars, timeVars, BootAlone, TypeOK
<1>6. BootIsExact'
  BY DEF BottomLoadsNumber, GoTo, bootVars, apicVars, timeVars, BootIsExact, Stages,
       Ticking, BeforeEOI, TypeOK, StagesInOrder, SetUp, InServiceIsOwn, BootAlone,
       Phases, Processes
<1>. QED
  BY <1>1, <1>2, <1>3, <1>4, <1>5, <1>6

LEMMA DispatchInductive ==
  ASSUME IInv, NEW c \in CPUs, Dispatch(c)
  PROVE  IInv'
<1>. USE BootAssumption DEF IInv
<1>a. /\ inService[c] = {} \/ \E v \in Vectors : inService[c] = {v}
      /\ EndOfInterrupt(inService[c]) = {}
  <2>1. taken[c][1] \in Vectors
    BY DEF TypeOK
  <2>2. inService[c] = {} \/ \E v \in Vectors : inService[c] = {v}
    BY <2>1 DEF InServiceIsOwn
  <2>. QED
    BY <2>2, EndOfOne
<1>b. inService' = [inService EXCEPT ![c] = {}]
  <2>1. Active /\ ~PICToggled /\ number[c] \in Acknowledged
    BY DEF Dispatch, StagesInOrder, SetUp, TypeOK, Stages, Acknowledged, LegacyIRQs,
           Vectors, IRQ0, IRQ1, SYSCALL, IPI_SCHEDULE
  <2>. QED
    BY <2>1, <1>a DEF Dispatch
<1>1. TypeOK'
  <2>1. stage' \in [CPUs -> Stages]
    BY DEF Dispatch, GoTo, TypeOK, Stages
  <2>2. inService' \in [CPUs -> SUBSET Vectors]
    BY <1>b DEF TypeOK
  <2>. QED
    BY <2>1, <2>2 DEF Dispatch, bootVars, timeVars, TypeOK
<1>2. StagesInOrder'
  BY DEF Dispatch, GoTo, bootVars, timeVars, StagesInOrder, Stages, TypeOK
<1>3. SetUp'
  BY DEF Dispatch, GoTo, bootVars, timeVars, SetUp, TypeOK
<1>4. InServiceIsOwn'
  <2>1. stage'[c] \notin BeforeEOI /\ inService'[c] = {}
    BY <1>b DEF Dispatch, GoTo, TypeOK, BeforeEOI
  <2>2. \A d \in CPUs \ {c} : stage'[d] = stage[d] /\ inService'[d] = inService[d]
    BY <1>b DEF Dispatch, GoTo, TypeOK
  <2>. QED
    BY <2>1, <2>2 DEF Dispatch, InServiceIsOwn
<1>5. BootAlone'
  BY DEF Dispatch, GoTo, bootVars, timeVars, BootAlone, TypeOK
<1>6. BootIsExact'
  BY DEF Dispatch, GoTo, bootVars, timeVars, BootIsExact, Stages, Ticking, BeforeEOI,
       TypeOK, StagesInOrder, SetUp
<1>. QED
  BY <1>1, <1>2, <1>3, <1>4, <1>5, <1>6

LEMMA HandlerInductive ==
  ASSUME IInv, NEW c \in CPUs, Handler(c)
  PROVE  IInv'
<1>. USE BootAssumption DEF IInv
<1>1. TypeOK'
  <2>1. stage' \in [CPUs -> Stages]
    BY DEF Handler, GoTo, TypeOK, Stages
  <2>2. 0 \in 0 .. MaxTime
    BY BoundsAssumption DEF MaxTime
  <2>3. seen' \in [CPUs -> 0 .. MaxTime]
    BY <2>2 DEF Handler, TypeOK
  <2>. QED
    BY <2>1, <2>3 DEF Handler, bootVars, apicVars, timeVars, TypeOK
<1>2. StagesInOrder'
  BY DEF Handler, GoTo, bootVars, apicVars, timeVars, StagesInOrder, Stages, TypeOK,
       SetUp
<1>3. SetUp'
  BY DEF Handler, GoTo, bootVars, apicVars, timeVars, SetUp, TypeOK
<1>4. InServiceIsOwn'
  BY DEF Handler, GoTo, bootVars, apicVars, timeVars, InServiceIsOwn, BeforeEOI, TypeOK
<1>5. BootAlone'
  BY DEF Handler, GoTo, bootVars, apicVars, timeVars, BootAlone, TypeOK
<1>6. BootIsExact'
  BY DEF Handler, GoTo, bootVars, apicVars, timeVars, BootIsExact, Stages, Ticking,
       BeforeEOI, TypeOK, StagesInOrder, SetUp
<1>. QED
  BY <1>1, <1>2, <1>3, <1>4, <1>5, <1>6

LEMMA AddTickInductive ==
  ASSUME IInv, NEW c \in CPUs, AddTick(c)
  PROVE  IInv'
<1>. USE BootAssumption DEF IInv
<1>1. TypeOK'
  <2>1. seen[c] \in 0 .. MaxTime
    BY DEF TypeOK
  <2>2. TimeSinceBoot' \in 0 .. MaxTime
    BY <2>1, CountedType DEF AddTick
  <2>3. stage' \in [CPUs -> Stages]
    BY DEF AddTick, GoTo, TypeOK, Stages
  <2>. QED
    BY <2>2, <2>3 DEF AddTick, bootVars, apicVars, TypeOK
<1>2. StagesInOrder'
  BY DEF AddTick, GoTo, bootVars, apicVars, StagesInOrder, Stages, TypeOK
<1>3. SetUp'
  BY DEF AddTick, GoTo, bootVars, apicVars, SetUp, TypeOK
<1>4. InServiceIsOwn'
  BY DEF AddTick, GoTo, bootVars, apicVars, InServiceIsOwn, BeforeEOI, TypeOK
<1>5. BootAlone'
  BY DEF AddTick, GoTo, bootVars, apicVars, BootAlone, TypeOK, StagesInOrder, SetUp,
       InServiceIsOwn, BootIsExact, Phases, Processes, Stages, Ticking, BeforeEOI
<1>6. BootIsExact'
  BY DEF AddTick, GoTo, bootVars, apicVars, BootIsExact, Stages, Ticking, BeforeEOI,
       TypeOK, StagesInOrder, SetUp, InServiceIsOwn, BootAlone, Phases, Processes
<1>. QED
  BY <1>1, <1>2, <1>3, <1>4, <1>5, <1>6

LEMMA TickInductive ==
  ASSUME IInv, NEW c \in CPUs, Tick(c)
  PROVE  IInv'
<1>. USE BootAssumption DEF IInv
<1>1. TypeOK'
  BY DEF Tick, GoTo, Request, bootVars, timeVars, TypeOK, Phases, Processes, Stages, StagesInOrder,
       SetUp, Vectors, Origins, IRQ0, IRQ1, SYSCALL, IPI_SCHEDULE
<1>2. StagesInOrder'
  BY DEF Tick, GoTo, Request, bootVars, timeVars, StagesInOrder, Stages, TypeOK
<1>3. SetUp'
  BY DEF Tick, GoTo, Request, bootVars, timeVars, SetUp, TypeOK
<1>4. InServiceIsOwn'
  BY DEF Tick, GoTo, Request, bootVars, timeVars, InServiceIsOwn, BeforeEOI, TypeOK
<1>5. BootAlone'
  BY DEF Tick, GoTo, Request, bootVars, timeVars, BootAlone, TypeOK
<1>6. BootIsExact'
  BY DEF Tick, GoTo, Request, bootVars, timeVars, BootIsExact, Stages, Ticking,
       BeforeEOI, TypeOK
<1>. QED
  BY <1>1, <1>2, <1>3, <1>4, <1>5, <1>6

LEMMA ScheduleInductive ==
  ASSUME IInv, NEW c \in CPUs, Schedule(c)
  PROVE  IInv'
<1>. USE BootAssumption DEF IInv
<1>1. TypeOK'
  BY DEF Schedule, GoTo, apicVars, timeVars, TypeOK, Phases, Processes, Stages
<1>2. StagesInOrder'
  BY DEF Schedule, GoTo, apicVars, timeVars, StagesInOrder, Stages, TypeOK
<1>3. SetUp'
  BY DEF Schedule, GoTo, apicVars, timeVars, SetUp, TypeOK, StagesInOrder, Stages
<1>4. InServiceIsOwn'
  BY DEF Schedule, GoTo, apicVars, timeVars, InServiceIsOwn, BeforeEOI, TypeOK
<1>5. BootAlone'
  BY DEF Schedule, GoTo, apicVars, timeVars, BootAlone, TypeOK
<1>6. BootIsExact'
  BY DEF Schedule, GoTo, apicVars, timeVars, BootIsExact, Stages, Ticking, BeforeEOI,
       TypeOK
<1>. QED
  BY <1>1, <1>2, <1>3, <1>4, <1>5, <1>6

-----------------------------------------------------------------------------
(* Theorems.                                                               *)

LEMMA NextInductive == IInv /\ [Next]_vars => IInv'
<1>. SUFFICES ASSUME IInv, [Next]_vars PROVE IInv'
  OBVIOUS
<1>1. CASE UNCHANGED vars
  BY <1>1 DEF vars, bootVars, apicVars, cpuVars, timeVars, IInv, TypeOK, StagesInOrder, SetUp,
              InServiceIsOwn, BootAlone, BootIsExact, Ticking
<1>2. CASE BootStep
  BY <1>2, ConstructInductive, DissablePICInductive, ActivateInductive, MakeReadyInductive,
     CallSchedulerInductive DEF BootStep
<1>3. CASE TimerFires \/ KeyPressed
  BY <1>3, TimerFiresInductive, KeyPressedInductive
<1>4. CASE \E c \in CPUs : StartCPU(c) \/ TakeInterrupt(c) \/ SystemCall(c)
  BY <1>4, StartCPUInductive, TakeInterruptInductive, SystemCallInductive
<1>5. CASE \E c \in CPUs : HandlerStep(c)
  BY <1>5, StubStoresNumberInductive, BottomLoadsNumberInductive, DispatchInductive,
     HandlerInductive, AddTickInductive, TickInductive, ScheduleInductive DEF HandlerStep
<1>. QED
  BY <1>1, <1>2, <1>3, <1>4, <1>5 DEF Next

LEMMA Invariant == Spec => []IInv
BY InitIInv, NextInductive, PTL DEF Spec

\* The variables keep their types, for every set of CPUs: in particular the handlers are
\* only ever called with a vector (interrupts.asm:133, interrupts.cpp:211).
THEOREM TypeCorrect == Spec => []TypeOK
<1>1. IInv => TypeOK
  BY DEF IInv
<1>. QED
  BY <1>1, Invariant, PTL

\* On any number of CPUs, and although they share interruptnumber, every interrupt is
\* acknowledged by the CPU that took it and before its handler (interrupts.cpp:213-224).
THEOREM EveryEOIIsOwn == Spec => []InServiceIsOwn
<1>1. IInv => InServiceIsOwn
  BY DEF IInv
<1>. QED
  BY <1>1, Invariant, PTL

\* Until the scheduler is ready the number passed is that of the interrupt taken and
\* TimeSinceBoot is the count of the ticks (smp.cpp:128-139 sleep by it).
THEOREM BootTimeIsExact == Spec => []BootIsExact
<1>1. IInv => BootIsExact
  BY DEF IInv
<1>. QED
  BY <1>1, Invariant, PTL
=============================================================================
