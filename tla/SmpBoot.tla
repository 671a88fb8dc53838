------------------------------- MODULE SmpBoot -------------------------------
(***************************************************************************)
(* Starting the other CPUs.  The boot CPU prepares the trampoline's data - *)
(* one magic word, one CPU id, one stack - for one CPU at a time, sends it *)
(* INIT and STARTUP, looks at the magic word after fixed sleeps, and then  *)
(* spins until doneInit says that SMPEntry has finished.  All of the data  *)
(* is global: it belongs to the right CPU only as long as no CPU is late.  *)
(***************************************************************************)
EXTENDS Integers, Sequences, FiniteSets

CONSTANTS
    MADTs,   \* the lists of processor entries ACPI may report
    BootCPU, \* GetLApicID() of the CPU that boots
    Dead,    \* CPUs that never answer
    Late     \* CPUs that may answer after the sleeps of InitializeCPU

Processor == [APICID : Nat, enabled : BOOLEAN]
ASSUME MADTAssumption == MADTs \subseteq Seq(Processor)

VARIABLES
    LAPIC_IDs, \* what ReadAPIC found
    pc,        \* where the boot CPU is in SMP::Intitialise
    i,         \* its loop variable
    CPUs,      \* the ids whose CPUs[id] is set
    ActiveCPUs,
    booted,    \* the CPUs for which InitializeCPU answered 1
    magic,     \* *smpMagic is 0xB33F
    smpID,     \* *smpID
    smpStack,  \* *smpStack: the stack of which round of the loop
    doneInit,
    ap,        \* ap[c]: where CPU c is
    stack,     \* stack[c]: the stack it took
    self,      \* self[c]: the id it took, with which it calls SMPEntry
    Queue      \* the ids whose CPUs[id]->Queue is a vector

vars == <<LAPIC_IDs, pc, i, CPUs, ActiveCPUs, booted, magic, smpID, smpStack,
          doneInit, ap, stack, self, Queue>>
counts == <<ActiveCPUs, booted>>
boot == <<pc, i, CPUs, counts, smpID, smpStack>>
others == <<ap, stack, self>>

\* ReadAPIC keeps the processors that can be turned on.
ReadAPIC(madt) ==
    LET enabled == SelectSeq(madt, LAMBDA p : p.enabled)
    IN  [k \in DOMAIN enabled |-> enabled[k].APICID]

Known == {LAPIC_IDs[k] : k \in DOMAIN LAPIC_IDs} \cup {BootCPU}
Target == LAPIC_IDs[i]

Init ==
    /\ LAPIC_IDs \in {ReadAPIC(m) : m \in MADTs}
    /\ pc = "next" /\ i = 1
    /\ CPUs = {BootCPU} /\ Queue = {BootCPU} /\ ActiveCPUs = 1 /\ booted = {}
    /\ magic = FALSE /\ smpID = BootCPU /\ smpStack = 0 /\ doneInit = FALSE
    /\ ap = [c \in Known \ {BootCPU} |-> "off"]
    /\ stack = [c \in Known \ {BootCPU} |-> 0]
    /\ self = [c \in Known \ {BootCPU} |-> BootCPU]

-----------------------------------------------------------------------------
(* The boot CPU.                                                           *)

\* The loop over LAPIC_IDs, and the boot CPU's own TSS after it.
NextCPU ==
    /\ pc = "next"
    /\ IF i > Len(LAPIC_IDs) THEN pc' = "tss" /\ UNCHANGED i
       ELSE IF Target = BootCPU THEN i' = i + 1 /\ UNCHANGED pc
       ELSE pc' = "new" /\ UNCHANGED i
    /\ UNCHANGED <<LAPIC_IDs, CPUs, counts, magic, smpID, smpStack, doneInit,
                   others, Queue>>

BootTSS ==
    /\ pc = "tss" /\ pc' = "done"
    /\ UNCHANGED <<LAPIC_IDs, i, CPUs, counts, magic, smpID, smpStack,
                   doneInit, others, Queue>>

\* new CPU does not set its Queue.
NewCPU ==
    /\ pc = "new" /\ pc' = "magic"
    /\ CPUs' = CPUs \cup {Target} /\ Queue' = Queue \ {Target}
    /\ UNCHANGED <<LAPIC_IDs, i, counts, magic, smpID, smpStack, doneInit, others>>

\* A wrong variant: the magic word is left over from the last CPU.
LeaveMagic ==
    /\ pc = "magic" /\ pc' = "id"
    /\ UNCHANGED <<LAPIC_IDs, i, CPUs, counts, magic, smpID, smpStack, doneInit,
                   others, Queue>>

ResetMagic ==
    /\ pc = "magic" /\ pc' = "id"
    /\ magic' = FALSE
    /\ UNCHANGED <<LAPIC_IDs, i, CPUs, counts, smpID, smpStack, doneInit,
                   others, Queue>>

SetID ==
    /\ pc = "id" /\ pc' = "stack"
    /\ smpID' = Target
    /\ UNCHANGED <<LAPIC_IDs, i, CPUs, counts, magic, smpStack, doneInit,
                   others, Queue>>

\* A page for the stack, then INIT and a sleep.
SetStack ==
    /\ pc = "stack" /\ pc' = "startup"
    /\ smpStack' = i
    /\ UNCHANGED <<LAPIC_IDs, i, CPUs, counts, magic, smpID, doneInit,
                   others, Queue>>

\* STARTUP is sent only if the magic word does not say that a CPU has started.
SendStartup ==
    /\ pc = "startup" /\ pc' = "test"
    /\ ap' = [ap EXCEPT ![Target] = IF magic THEN @ ELSE "started"]
    /\ UNCHANGED <<LAPIC_IDs, i, CPUs, counts, magic, smpID, smpStack,
                   doneInit, stack, self, Queue>>

\* After the sleeps: go on to the wait for SMPEntry, or give the CPU up.  A CPU
\* that is neither dead nor late has answered by then.
SeeMagic ==
    /\ pc = "test" /\ magic /\ pc' = "wait"
    /\ UNCHANGED <<LAPIC_IDs, i, CPUs, counts, magic, smpID, smpStack,
                   doneInit, others, Queue>>

GiveUp ==
    /\ pc = "test" /\ ~ magic /\ Target \in Dead \cup Late
    /\ pc' = "next" /\ i' = i + 1
    /\ UNCHANGED <<LAPIC_IDs, CPUs, counts, magic, smpID, smpStack, doneInit,
                   others, Queue>>

\* while (!doneInit) ;
Spin == pc = "wait" /\ ~ doneInit /\ UNCHANGED vars

\* A wrong variant: the magic word is enough.
DoNotWait ==
    /\ pc = "wait" /\ pc' = "count"
    /\ UNCHANGED <<LAPIC_IDs, i, CPUs, counts, magic, smpID, smpStack,
                   doneInit, others, Queue>>

WaitForInit ==
    /\ pc = "wait" /\ doneInit /\ pc' = "count"
    /\ UNCHANGED <<LAPIC_IDs, i, CPUs, counts, magic, smpID, smpStack,
                   doneInit, others, Queue>>

CountCPU ==
    /\ pc = "count" /\ pc' = "next" /\ i' = i + 1
    /\ doneInit' = FALSE
    /\ ActiveCPUs' = ActiveCPUs + 1 /\ booted' = booted \cup {Target}
    /\ UNCHANGED <<LAPIC_IDs, CPUs, magic, smpID, smpStack, others, Queue>>

InitializeCPU == \/ NewCPU \/ ResetMagic \/ SetID \/ SetStack \/ SendStartup
                 \/ SeeMagic \/ GiveUp \/ Spin \/ WaitForInit \/ CountCPU

-----------------------------------------------------------------------------
(* CPU c: the trampoline, then SMPEntry.                                   *)

Trampoline(c) ==
    /\ ap[c] = "started" /\ c \notin Dead
    /\ magic' = TRUE
    /\ ap' = [ap EXCEPT ![c] = "stack"]
    /\ UNCHANGED <<LAPIC_IDs, boot, doneInit, stack, self, Queue>>

TakeStack(c) ==
    /\ ap[c] = "stack"
    /\ stack' = [stack EXCEPT ![c] = smpStack]
    /\ ap' = [ap EXCEPT ![c] = "id"]
    /\ UNCHANGED <<LAPIC_IDs, boot, magic, doneInit, self, Queue>>

TakeID(c) ==
    /\ ap[c] = "id"
    /\ self' = [self EXCEPT ![c] = smpID]
    /\ ap' = [ap EXCEPT ![c] = "entry"]
    /\ UNCHANGED <<LAPIC_IDs, boot, magic, doneInit, stack, Queue>>

\* A wrong variant: lets the next CPU boot before it sets itself up.
FinishEarly(c) ==
    /\ ap[c] = "entry"
    /\ doneInit' = TRUE
    /\ ap' = [ap EXCEPT ![c] = "allocate"]
    /\ UNCHANGED <<LAPIC_IDs, boot, magic, stack, self, Queue>>

\* CPUs[id], the local CPU pointer; the GDT, the TSS and the queue come next.
SMPEntry(c) ==
    /\ ap[c] = "entry"
    /\ ap' = [ap EXCEPT ![c] = "allocate"]
    /\ UNCHANGED <<LAPIC_IDs, boot, magic, doneInit, stack, self, Queue>>

Allocate(c) ==
    /\ ap[c] = "allocate"
    /\ Queue' = Queue \cup {self[c]}
    /\ ap' = [ap EXCEPT ![c] = "finish"]
    /\ UNCHANGED <<LAPIC_IDs, boot, magic, doneInit, stack, self>>

\* "Allow next cpu to boot", and interrupts on.
FinishInit(c) ==
    /\ ap[c] = "finish"
    /\ doneInit' = TRUE
    /\ ap' = [ap EXCEPT ![c] = "ready"]
    /\ UNCHANGED <<LAPIC_IDs, boot, magic, stack, self, Queue>>

StartCPU(c) == \/ Trampoline(c) \/ TakeStack(c) \/ TakeID(c) \/ SMPEntry(c)
               \/ Allocate(c) \/ FinishInit(c)

\* The boot CPU goes on to the scheduler.
Terminated == pc = "done" /\ \A c \in DOMAIN ap : ap[c] \in {"off", "ready"} \/ c \in Dead
Finished == Terminated /\ UNCHANGED vars

Next == \/ NextCPU \/ BootTSS \/ InitializeCPU
        \/ \E c \in DOMAIN ap : StartCPU(c)
        \/ Finished

Spec == Init /\ [][Next]_vars

\* Every CPU executes its code.
FairSpec == /\ Spec
            /\ WF_vars(NextCPU \/ BootTSS \/ InitializeCPU)
            /\ \A m \in MADTs : \A k \in DOMAIN m :
                 WF_vars(m[k].APICID \in DOMAIN ap /\ StartCPU(m[k].APICID))

-----------------------------------------------------------------------------
(* Properties.                                                             *)

\* No CPU has answered after it was given up.  From then on two CPUs set themselves up
\* at once, with the data that was prepared for one.
GivenUp == {LAPIC_IDs[k] : k \in 1 .. (i - 1)} \ (booted \cup {BootCPU})
Punctual == \A c \in GivenUp : ap[c] \in {"off", "started"}

\* A CPU runs SMPEntry under its own id and on the stack that was requested for
\* it, although id and stack are passed in globals that the boot CPU overwrites
\* for the next one.
Entered(c) == ap[c] \in {"entry", "allocate", "finish", "ready"}
OwnIdentity ==
    Punctual =>
      \A c \in DOMAIN ap :
        Entered(c) => self[c] = c /\ stack[c] # 0 /\ LAPIC_IDs[stack[c]] = c

\* No two CPUs are inside the page frame allocator or the heap at once: these
\* have no lock, and the boot CPU waits while another CPU sets itself up.
Allocating == {c \in DOMAIN ap : ap[c] = "allocate"}
                \cup {c \in {BootCPU} : pc \in {"new", "stack", "tss"}}
AllocatorsAreSerial == Punctual => Cardinality(Allocating) <= 1

\* "Wait for SMP entry to finish": a CPU for which InitializeCPU answers 1, and
\* which ActiveCPUs counts, has finished SMPEntry.  With a CPU in Late it does not
\* hold, and so no run checks it: the one that is counted is the one whose turn it is,
\* and the doneInit that was waited for is that of the CPU that was late.
ReadyCPUs == {c \in DOMAIN ap : ap[c] = "ready"}
BootedHaveFinished == booted \subseteq ReadyCPUs

\* The boot CPU gets through: a CPU that has answered sets doneInit, and one that
\* does not answer is given up.  Also when CPUs are late: one that sets the magic word
\* for another sets doneInit for it, too, and not before the wait for it.
BootCompletes == <>(pc = "done")
=============================================================================
