------------------------------ MODULE Scheduler ------------------------------
(***************************************************************************)
(* The scheduler: a queue of processes per CPU, a spinlock on each queue,  *)
(* and Schedule, which runs on the stack of whatever the timer tick or the *)
(* scheduling IPI interrupted.  Schedule asks for its CPU with a function  *)
(* that always ends in sti, so it can itself be interrupted at every step, *)
(* and what it saves as the context of a process may be a handler half way *)
(* through.  A context, and what a CPU executes, is therefore a stack: the *)
(* owner of the stack and the handlers open on it, the innermost first.    *)
(*                                                                         *)
(* The state starts at the end of the constructor of Scheduler: idle       *)
(* processes made, queues cleared, KernelStage2 queued, scheduling on.     *)
(***************************************************************************)
EXTENDS Integers, Sequences, FiniteSets

CONSTANTS
    NumCPUs,          \* SMP::ActiveCPUs
    KernelStage2,     \* the process the constructor creates
    NewProcesses,     \* the processes NewProcess creates later
    Creators,         \* the processes whose code calls NewProcess
    idleProcess,      \* the idle process of each CPU
    NoProcess,        \* nullptr
    DefaultTimeSlice, \* DEFAUL_PROCESS_TICK_COUNT: 5
    SliceWord,        \* TimeSlice wraps at this value: 2^8
    MaxDepth,         \* bound: handlers open on one stack
    WindowTicks       \* bound: interrupts taken before ProcessSwitch, once it is decided

CPU == 0 .. (NumCPUs - 1)
Process == {KernelStage2} \cup NewProcesses
Idle == {idleProcess[c] : c \in CPU}

ASSUME CPUAssumption == NumCPUs \in Nat \ {0}
ASSUME ProcessAssumption ==
    /\ KernelStage2 \notin NewProcesses
    /\ Creators \subseteq Process
    /\ DOMAIN idleProcess = CPU
    /\ \A c, d \in CPU : c # d => idleProcess[c] # idleProcess[d]
    /\ Idle \cap Process = {}
    /\ NoProcess \notin Process \cup Idle
ASSUME SliceAssumption ==
    /\ DefaultTimeSlice \in Nat \ {0}
    /\ SliceWord \in Nat /\ DefaultTimeSlice < SliceWord
ASSUME BoundAssumption == MaxDepth \in Nat \ {0} /\ WindowTicks \in Nat

VARIABLES
    queue,          \* queue[c]: CPUs[c]->Queue
    capacity,       \* capacity[c]: the capacity of that vector
    QueueLock,      \* QueueLock[c]: 1 when taken
    currentProcess, \* currentProcess[c]
    TimeSlice,      \* TimeSlice[p], of idle processes too
    context,        \* context[p]: the saved stack of process p
    exec,           \* exec[c]: the stack CPU c executes on
    ipi,            \* ipi[c]: a scheduling IPI waits at the local APIC of c
    window,         \* window[c]: interrupts taken while a switch was due
    created,        \* the processes that exist: new Process
    creator         \* creator[p]: where process p is in NewProcess

vars == <<queue, capacity, QueueLock, currentProcess, TimeSlice, context,
          exec, ipi, window, created, creator>>

\* A stack on which no handler is open; an open one is where it is in Schedule: "test",
\* "tick", "lock", "choose", "erase", "add", "pick", "release" or "switch".
Fresh(p) == [owner |-> p, frames |-> << >>]

\* Where a process is in NewProcess, the CPU it has chosen, the next one to
\* compare with, and the process it creates.
NotCreating == [pc |-> "no", cpu |-> 0, next |-> 1, child |-> NoProcess]

Init ==
    /\ queue = [c \in CPU |-> IF c = 0 THEN <<KernelStage2>> ELSE << >>]
    /\ capacity = [c \in CPU |-> IF c = 0 THEN 3 ELSE 0]
    /\ QueueLock = [c \in CPU |-> 0]
    /\ currentProcess = [c \in CPU |-> NoProcess]
    /\ TimeSlice = [p \in Process \cup Idle |->
                      IF p \in Process THEN DefaultTimeSlice ELSE 0]
    /\ context = [p \in Process \cup Idle |-> Fresh(p)]
    /\ exec = [c \in CPU |-> Fresh(NoProcess)]
    /\ ipi = [c \in CPU |-> FALSE]
    /\ window = [c \in CPU |-> 0]
    /\ created = {KernelStage2}
    /\ creator = [p \in Creators |-> NotCreating]

-----------------------------------------------------------------------------
(* Interrupts.                                                             *)

\* The innermost handler on CPU c is at pc.
At(c, pc) == exec[c].frames # << >> /\ Head(exec[c].frames) = pc
\* A handler on CPU c, innermost or not, is at pc.
Open(c, pc) == \E i \in DOMAIN exec[c].frames : exec[c].frames[i] = pc
\* CPU c executes the code of process p itself.
Runs(c, p) == exec[c] = Fresh(p)

Goto(c, pc) == exec' = [exec EXCEPT ![c].frames = <<pc>> \o Tail(@)]
Return(c) == exec' = [exec EXCEPT ![c].frames = Tail(@)]

\* NewProcess keeps interrupts off from its cli to its sti.
Masked(c) == \E p \in Creators : Runs(c, p) /\ creator[p].pc \in {"add", "release"}

\* A handler has made another process current and has not switched to it yet.
Leaving(c) == Open(c, "release") \/ Open(c, "switch")

\* An interrupt opens a handler; it gets as far as the sti in GetCPULocal.
Enter(c) ==
    /\ ~ Masked(c)
    /\ Len(exec[c].frames) < MaxDepth
    /\ Leaving(c) => window[c] < WindowTicks
    /\ exec' = [exec EXCEPT ![c].frames = <<"test">> \o @]
    /\ window' = [window EXCEPT ![c] = IF Leaving(c) THEN @ + 1 ELSE @]
    /\ UNCHANGED <<queue, capacity, QueueLock, currentProcess, TimeSlice, context, created, creator>>

\* The timer interrupts CPU 0: Tick sends the IPI to all others and schedules.
Tick == Enter(0) /\ ipi' = [c \in CPU |-> ipi[c] \/ c # 0]

\* Any other CPU takes the IPI that waits for it.
TakeIPI(c) == c # 0 /\ ipi[c] /\ Enter(c) /\ ipi' = [ipi EXCEPT ![c] = FALSE]

\* The constructor ends with int $0xfd on CPU 0.
SoftwareInterrupt == Runs(0, NoProcess) /\ Enter(0) /\ UNCHANGED ipi

Interrupt(c) == (c = 0 /\ (Tick \/ SoftwareInterrupt)) \/ TakeIPI(c)

-----------------------------------------------------------------------------
(* Schedule, on CPU c.                                                     *)

\* A process with time left goes on.
TestSlice(c) ==
    /\ At(c, "test")
    /\ Goto(c, IF currentProcess[c] # NoProcess /\ TimeSlice[currentProcess[c]] > 0
               THEN "tick" ELSE "lock")
    /\ UNCHANGED <<queue, capacity, QueueLock, currentProcess, TimeSlice, context,
                   ipi, window, created, creator>>

SpendSlice(c) ==
    /\ At(c, "tick")
    /\ TimeSlice' = [TimeSlice EXCEPT ![currentProcess[c]] = (@ - 1) % SliceWord]
    /\ Return(c)
    /\ UNCHANGED <<queue, capacity, QueueLock, currentProcess, context, ipi,
                   window, created, creator>>

\* A wrong variant: goes on when the lock is taken.
IgnoreLock(c) ==
    /\ At(c, "lock")
    /\ Goto(c, "choose")
    /\ QueueLock' = [QueueLock EXCEPT ![c] = 1]
    /\ UNCHANGED <<queue, capacity, currentProcess, TimeSlice, context, ipi,
                   window, created, creator>>

\* acquireTestLock: Schedule gives up when the lock is taken.
TryLock(c) ==
    /\ At(c, "lock")
    /\ IF QueueLock[c] = 1 THEN Return(c) ELSE Goto(c, "choose")
    /\ QueueLock' = [QueueLock EXCEPT ![c] = 1]
    /\ UNCHANGED <<queue, capacity, currentProcess, TimeSlice, context, ipi,
                   window, created, creator>>

\* A wrong variant: leave without releasing the lock when there is nothing to run.
IdleWithLock(c) ==
    /\ At(c, "choose")
    /\ \/ /\ currentProcess[c] = NoProcess \/ queue[c] = << >>
          /\ currentProcess' = [currentProcess EXCEPT ![c] = idleProcess[c]]
          /\ Goto(c, "switch")
       \/ /\ currentProcess[c] = idleProcess[c] /\ queue[c] # << >>
          /\ Goto(c, "pick")
          /\ UNCHANGED currentProcess
       \/ /\ currentProcess[c] \in Process /\ queue[c] # << >>
          /\ Goto(c, "erase")
          /\ UNCHANGED currentProcess
    /\ UNCHANGED <<queue, capacity, QueueLock, TimeSlice, context, ipi, window,
                   created, creator>>

\* Idle if there is nothing to run; leave the idle process for the queue; or
\* give the process that runs a new time slice and rotate.
Choose(c) ==
    /\ At(c, "choose")
    /\ \/ /\ currentProcess[c] = NoProcess \/ queue[c] = << >>
          /\ currentProcess' = [currentProcess EXCEPT ![c] = idleProcess[c]]
          /\ Goto(c, "release")
          /\ UNCHANGED TimeSlice
       \/ /\ currentProcess[c] = idleProcess[c] /\ queue[c] # << >>
          /\ Goto(c, "pick")
          /\ UNCHANGED <<currentProcess, TimeSlice>>
       \/ /\ currentProcess[c] \in Process /\ queue[c] # << >>
          /\ TimeSlice' = [TimeSlice EXCEPT ![currentProcess[c]] = DefaultTimeSlice]
          /\ Goto(c, "erase")
          /\ UNCHANGED currentProcess
    /\ UNCHANGED <<queue, capacity, QueueLock, context, ipi, window, created, creator>>

\* A wrong variant: does not erase the only process of the queue.
SaveAndEraseOther(c) ==
    /\ At(c, "erase")
    /\ context' = [context EXCEPT ![currentProcess[c]] =
                     [exec[c] EXCEPT !.frames = Tail(@)]]
    /\ queue' = [queue EXCEPT ![c] = IF Len(@) > 1 THEN Tail(@) ELSE @]
    /\ Goto(c, "add")
    /\ UNCHANGED <<capacity, QueueLock, currentProcess, TimeSlice, ipi, window,
                   created, creator>>

\* "Save the stack": what the interrupt interrupted becomes the context of the
\* current process; then the head of the queue is erased.
SaveAndErase(c) ==
    /\ At(c, "erase")
    /\ context' = [context EXCEPT ![currentProcess[c]] =
                     [exec[c] EXCEPT !.frames = Tail(@)]]
    /\ queue' = [queue EXCEPT ![c] = Tail(@)]
    /\ Goto(c, "add")
    /\ UNCHANGED <<capacity, QueueLock, currentProcess, TimeSlice, ipi, window,
                   created, creator>>

\* A wrong variant: grows to what is needed now.
GrownExactly(size, cap) == IF size > cap THEN size ELSE cap

\* Vector::add_back grows a vector that the new element would fill.
GrownCapacity(size, cap) == IF size >= cap THEN cap + 2 * size + 1 ELSE cap

AddBack(c, p) ==
    /\ queue' = [queue EXCEPT ![c] = Append(@, p)]
    /\ capacity' = [capacity EXCEPT ![c] = GrownCapacity(Len(queue[c]) + 1, @)]

Requeue(c) ==
    /\ At(c, "add")
    /\ AddBack(c, currentProcess[c])
    /\ Goto(c, "pick")
    /\ UNCHANGED <<QueueLock, currentProcess, TimeSlice, context, ipi, window,
                   created, creator>>

\* Wrong variants: picks the process that was added last; the process that is
\* picked keeps the slice it had.
PickLast(c) ==
    /\ At(c, "pick")
    /\ currentProcess' = [currentProcess EXCEPT ![c] = queue[c][Len(queue[c])]]
    /\ TimeSlice' = [TimeSlice EXCEPT ![queue[c][Len(queue[c])]] = DefaultTimeSlice]
    /\ Goto(c, "release")
    /\ UNCHANGED <<queue, capacity, QueueLock, context, ipi, window, created, creator>>

PickWithOldSlice(c) ==
    /\ At(c, "pick")
    /\ currentProcess' = [currentProcess EXCEPT ![c] = Head(queue[c])]
    /\ Goto(c, "release")
    /\ UNCHANGED <<queue, capacity, QueueLock, TimeSlice, context, ipi, window,
                   created, creator>>

Pick(c) ==
    /\ At(c, "pick")
    /\ currentProcess' = [currentProcess EXCEPT ![c] = Head(queue[c])]
    /\ TimeSlice' = [TimeSlice EXCEPT ![Head(queue[c])] = DefaultTimeSlice]
    /\ Goto(c, "release")
    /\ UNCHANGED <<queue, capacity, QueueLock, context, ipi, window, created, creator>>

Release(c) ==
    /\ At(c, "release")
    /\ QueueLock' = [QueueLock EXCEPT ![c] = 0]
    /\ Goto(c, "switch")
    /\ UNCHANGED <<queue, capacity, currentProcess, TimeSlice, context, ipi,
                   window, created, creator>>

\* ProcessSwitch leaves this stack for the context of the current process; it
\* never returns, and nothing saves the stack of an idle process.
Switch(c) ==
    /\ At(c, "switch")
    /\ exec' = [exec EXCEPT ![c] = context[currentProcess[c]]]
    /\ window' = [window EXCEPT ![c] = 0]
    /\ UNCHANGED <<queue, capacity, QueueLock, currentProcess, TimeSlice, context,
                   ipi, created, creator>>

Schedule(c) == \/ TestSlice(c) \/ SpendSlice(c) \/ TryLock(c) \/ Choose(c)
               \/ SaveAndErase(c) \/ Requeue(c) \/ Pick(c) \/ Release(c) \/ Switch(c)

-----------------------------------------------------------------------------
(* NewProcess, called by the code of process p while CPU c runs it.        *)

Unchanged == UNCHANGED <<currentProcess, TimeSlice, context, exec, ipi, window>>

CreateProcess(c, p) ==
    /\ Runs(c, p) /\ creator[p].pc = "no"
    /\ \E child \in NewProcesses \ created :
         /\ created' = created \cup {child}
         /\ creator' = [creator EXCEPT ![p] =
                          [pc |-> IF NumCPUs = 1 THEN "lock" ELSE "scan",
                           cpu |-> 0, next |-> 1, child |-> child]]
    /\ UNCHANGED <<queue, capacity, QueueLock>> /\ Unchanged

\* A wrong variant: takes the longest queue.
CompareForLongest(c, p) ==
    /\ Runs(c, p) /\ creator[p].pc = "scan"
    /\ LET here == creator[p].cpu
           i == creator[p].next
           best == IF Len(queue[i]) > Len(queue[here]) THEN i ELSE here
           done == queue[best] = << >> \/ i + 1 = NumCPUs
       IN  creator' = [creator EXCEPT ![p].cpu = best, ![p].next = i + 1,
                                      ![p].pc = IF done THEN "lock" ELSE "scan"]
    /\ UNCHANGED <<queue, capacity, QueueLock, created>> /\ Unchanged

\* One round of the search for the shortest queue; no lock is held, so a queue
\* may be seen between the erase and the add of a rotation.
CompareQueues(c, p) ==
    /\ Runs(c, p) /\ creator[p].pc = "scan"
    /\ LET here == creator[p].cpu
           i == creator[p].next
           best == IF Len(queue[i]) < Len(queue[here]) THEN i ELSE here
           done == queue[best] = << >> \/ i + 1 = NumCPUs
       IN  creator' = [creator EXCEPT ![p].cpu = best, ![p].next = i + 1,
                                      ![p].pc = IF done THEN "lock" ELSE "scan"]
    /\ UNCHANGED <<queue, capacity, QueueLock, created>> /\ Unchanged

\* A wrong variant: does not wait for the lock.
TakeQueueUnlocked(c, p) ==
    /\ Runs(c, p) /\ creator[p].pc = "lock"
    /\ QueueLock' = [QueueLock EXCEPT ![creator[p].cpu] = 1]
    /\ creator' = [creator EXCEPT ![p].pc = "cli"]
    /\ UNCHANGED <<queue, capacity, created>> /\ Unchanged

\* acquireLock of the chosen queue, while interrupts are still on.
LockQueue(c, p) ==
    /\ Runs(c, p) /\ creator[p].pc = "lock"
    /\ QueueLock[creator[p].cpu] = 0
    /\ QueueLock' = [QueueLock EXCEPT ![creator[p].cpu] = 1]
    /\ creator' = [creator EXCEPT ![p].pc = "cli"]
    /\ UNCHANGED <<queue, capacity, created>> /\ Unchanged

DisableInterrupts(c, p) ==
    /\ Runs(c, p) /\ creator[p].pc = "cli"
    /\ creator' = [creator EXCEPT ![p].pc = "add"]
    /\ UNCHANGED <<queue, capacity, QueueLock, created>> /\ Unchanged

AddProcess(c, p) ==
    /\ Runs(c, p) /\ creator[p].pc = "add"
    /\ AddBack(creator[p].cpu, creator[p].child)
    /\ creator' = [creator EXCEPT ![p].pc = "release"]
    /\ UNCHANGED <<QueueLock, created>> /\ Unchanged

ReleaseQueue(c, p) ==
    /\ Runs(c, p) /\ creator[p].pc = "release"
    /\ QueueLock' = [QueueLock EXCEPT ![creator[p].cpu] = 0]
    /\ creator' = [creator EXCEPT ![p] = NotCreating]
    /\ UNCHANGED <<queue, capacity, created>> /\ Unchanged

NewProcess(c, p) == \/ CreateProcess(c, p) \/ CompareQueues(c, p) \/ LockQueue(c, p)
                    \/ DisableInterrupts(c, p) \/ AddProcess(c, p) \/ ReleaseQueue(c, p)

Next == \E c \in CPU : \/ Interrupt(c) \/ Schedule(c)
                       \/ \E p \in Creators : NewProcess(c, p)

Spec == Init /\ [][Next]_vars

\* A handler and the code of a process go on, a pending interrupt is taken once
\* interrupts are on again, and the timer never stops.
Fairness ==
    \A c \in CPU :
      /\ WF_vars(Schedule(c))
      /\ SF_vars(Interrupt(c))
      /\ \A p \in Creators : SF_vars(NewProcess(c, p) /\ creator[p].pc # "no")

FairSpec == Spec /\ Fairness

-----------------------------------------------------------------------------
(* Properties.                                                             *)

\* Schedule rotates with erase(0) and add_back(currentProcess): that keeps the
\* queue whole only if the current process is the head whenever no rotation is
\* half done, although NewProcess on another CPU adds to the same queue and a
\* nested Schedule may try to rotate it.
Rotating(c) == Open(c, "add") \/ Open(c, "pick")
HeadIsCurrent ==
    \A c \in CPU :
      currentProcess[c] \in Process /\ ~ Rotating(c) =>
        queue[c] # << >> /\ Head(queue[c]) = currentProcess[c]

\* A process that was created is in exactly one place of exactly one queue,
\* except between the erase and the add of a rotation and before NewProcess has
\* added it: no process is lost and none is scheduled on two CPUs.
Places(p) == UNION {{<<c, i>> : i \in {j \in DOMAIN queue[c] : queue[c][j] = p}} : c \in CPU}
BeingAdded == {creator[p].child : p \in {q \in Creators : creator[q].pc # "release"}}
                \cup {currentProcess[c] : c \in {d \in CPU : Open(d, "add")}}
QueuedOnce ==
    \A p \in created : Cardinality(Places(p)) = IF p \in BeingAdded THEN 0 ELSE 1

\* The lock of a queue is taken exactly while one handler or one NewProcess is
\* between taking and releasing it: no two are ever inside (a handler that finds
\* it taken gives up), and no switch leaves it taken for good.
Section == {"choose", "erase", "add", "pick", "release"}
Inside(c) == {i \in DOMAIN exec[c].frames : exec[c].frames[i] \in Section}
Adders(c) == {p \in Creators : creator[p].cpu = c
                                /\ creator[p].pc \in {"cli", "add", "release"}}
LockIsHeld ==
    \A c \in CPU : Cardinality(Inside(c)) + Cardinality(Adders(c)) = QueueLock[c]

\* "Save the stack": the context saved for a process is a stack of that process,
\* although Schedule stays on the old stack, with interrupts on, after it has
\* made another process current.
ContextIsOwn == \A p \in Process \cup Idle : context[p].owner = p

\* "If it still needs to run, let it continue": a process is charged only for time
\* it has left, so it never has more than a full slice.
SliceNeverWraps == \A p \in Process \cup Idle : TimeSlice[p] <= DefaultTimeSlice

\* The add_back in Schedule never reallocates the queue: growing it would call
\* malloc and free in an interrupt handler, and the heap has no lock.
ScheduleNeverAllocates ==
    \A c \in CPU : Open(c, "add") => Len(queue[c]) + 1 < capacity[c]

\* NewProcess takes the shortest queue, but reads the lengths without a lock and
\* may see one in the middle of a rotation: while one process creates the
\* others, the queues still differ by two at most.
ProcessesOf(c) == Len(queue[c]) + (IF Open(c, "add") THEN 1 ELSE 0)
QueuesBalanced == \A c, d \in CPU : ProcessesOf(c) <= ProcessesOf(d) + 2

\* Every process that is queued gets the CPU again and again.
Queued(c, p) == \E i \in DOMAIN queue[c] : queue[c][i] = p
EveryProcessRuns ==
    \A c \in CPU, p \in Process : Queued(c, p) ~> Runs(c, p)

\* The queues and the current processes take turns as a round robin, whatever
\* handlers are half done.
Front(s) == SubSeq(s, 1, Len(s) - 1)
Line(c) ==
    IF Open(c, "add") THEN <<currentProcess[c]>> \o queue[c]
    ELSE IF Open(c, "pick") /\ currentProcess[c] \in Process
         THEN <<currentProcess[c]>> \o Front(queue[c])
         ELSE queue[c]
Running(c) == IF currentProcess[c] \in Process THEN currentProcess[c] ELSE NoProcess
Turns == INSTANCE RoundRobin WITH
    Nobody <- NoProcess,
    line <- [c \in CPU |-> Line(c)],
    running <- [c \in CPU |-> Running(c)]
RoundRobinSpec == Turns!Spec
=============================================================================
