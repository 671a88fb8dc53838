--------------------------- MODULE SmpBoot_proofs ---------------------------
(***************************************************************************)
(* Starting the other CPUs, for any list of processors with distinct ids   *)
(* (DistinctIds), any boot CPU and any CPUs that never answer or answer    *)
(* late.                                                                   *)
(*                                                                         *)
(* The invariant says that at any time at most one other CPU is on its way *)
(* - the target of the boot CPU, between STARTUP and the end of its round  *)
(* of the loop (OneAtATime) - and what the globals that the two CPUs share *)
(* say at each point of that way (Globals, Handshake).  It is lost when a  *)
(* CPU that was given up answers, and from then on nothing is Punctual.    *)
(***************************************************************************)
EXTENDS SmpBoot, FiniteSetTheorems, TLAPS

\* ACPI reports no processor twice.  (What ReadAPIC keeps is a sequence: SelectSeq is
\* recursive, so this is said here and not proved.)
DistinctIds ==
    \A m \in MADTs :
      /\ ReadAPIC(m) \in Seq(Nat)
      /\ \A j, k \in DOMAIN ReadAPIC(m) : ReadAPIC(m)[j] = ReadAPIC(m)[k] => j = k

Others == Known \ {BootCPU}

\* Where the boot CPU is before it has sent STARTUP to its target, and after.
Before == {"next", "new", "magic", "id", "stack", "startup", "tss", "done"}
After == {"test", "wait", "count"}
Places == {"off", "started", "stack", "id", "entry", "allocate", "finish", "ready"}

TypeIDs ==
    /\ LAPIC_IDs \in Seq(Nat)
    /\ \A j, k \in DOMAIN LAPIC_IDs : LAPIC_IDs[j] = LAPIC_IDs[k] => j = k

TypeBoot ==
    /\ pc \in Before \cup After /\ i \in Nat \ {0} /\ i <= Len(LAPIC_IDs) + 1
    /\ pc \notin {"next", "tss", "done"} => i <= Len(LAPIC_IDs) /\ Target # BootCPU
    /\ smpStack \in Nat /\ smpID \in Known
    /\ magic \in BOOLEAN /\ doneInit \in BOOLEAN

TypeOthers ==
    /\ ap \in [Others -> Places]
    /\ stack \in [Others -> Nat]
    /\ self \in [Others -> Known]

TypeOK == TypeIDs /\ TypeBoot /\ TypeOthers

\* A CPU that does nothing: off, at work for itself, or given up and silent.
Quiet(c) == ap[c] \in {"off", "ready"} \/ (ap[c] = "started" /\ c \in GivenUp)

OneAtATime == \A c \in Others : Quiet(c) \/ (pc \in After /\ c = Target)

\* No CPU has been counted that the loop has still to come to.
NotYet == \A k \in DOMAIN LAPIC_IDs : k >= i => LAPIC_IDs[k] \notin booted

\* What the boot CPU has written into the trampoline's data.
Globals ==
    /\ pc \in {"id", "stack", "startup"} => ~ magic
    /\ pc \in {"stack", "startup"} \cup After => smpID = Target
    /\ pc \in {"startup"} \cup After => smpStack = i
    /\ pc \in Before => ~ doneInit

\* What magic and doneInit say of the target.
Handshake ==
    pc \in After =>
      /\ ap[Target] # "off"
      /\ pc = "test" => (magic <=> ap[Target] # "started")
      /\ pc # "test" => ap[Target] # "started"
      /\ doneInit => ap[Target] = "ready"
      /\ pc = "count" => doneInit
      /\ ap[Target] = "id" => stack[Target] = i

Identity ==
    \A c \in Others :
      Entered(c) => self[c] = c /\ stack[c] \in DOMAIN LAPIC_IDs /\ LAPIC_IDs[stack[c]] = c

IInv == /\ TypeOK /\ OneAtATime /\ NotYet /\ Globals /\ Handshake /\ Identity
        /\ booted \subseteq Others /\ BootedHaveFinished

-----------------------------------------------------------------------------
(* The boot CPU's steps.                                                   *)

\* The target of the boot CPU is one of the other CPUs, and has one place.
LEMMA TargetIsOther ==
    ASSUME TypeOK, pc \notin {"next", "tss", "done"}
    PROVE  i \in DOMAIN LAPIC_IDs /\ Target \in Others
BY DEF TypeOK, TypeIDs, TypeBoot, Others, Known, Target

LEMMA SameIDs ==
    ASSUME LAPIC_IDs' = LAPIC_IDs
    PROVE  /\ Known' = Known /\ Others' = Others
           /\ TypeIDs => TypeIDs'
           /\ i' = i => Target' = Target
BY DEF Known, Others, TypeIDs, Target

\* Before STARTUP every other CPU is quiet.
LEMMA QuietBefore ==
    ASSUME OneAtATime, pc \in Before
    PROVE  \A c \in Others : Quiet(c)
BY DEF OneAtATime, Before, After

\* The CPUs that are given up stay so: the loop comes to each CPU once.
LEMMA GivenUpStays ==
    ASSUME TypeOK, NextCPU \/ BootTSS \/ InitializeCPU \/ \E c \in DOMAIN ap : StartCPU(c)
    PROVE  GivenUp \subseteq GivenUp'
<1>1. /\ LAPIC_IDs' = LAPIC_IDs /\ LAPIC_IDs \in Seq(Nat) /\ i \in Nat
      /\ \A j, k \in DOMAIN LAPIC_IDs : LAPIC_IDs[j] = LAPIC_IDs[k] => j = k
  BY DEF TypeOK, TypeIDs, TypeBoot, NextCPU, BootTSS, InitializeCPU, NewCPU, ResetMagic, SetID,
         SetStack, SendStartup, SeeMagic, GiveUp, Spin, WaitForInit, CountCPU, StartCPU,
         Trampoline, TakeStack, TakeID, SMPEntry, Allocate, FinishInit, vars
<1>2. CASE CountCPU
  <2>1. i \in DOMAIN LAPIC_IDs /\ i' = i + 1 /\ booted' = booted \cup {LAPIC_IDs[i]}
    BY <1>2, TargetIsOther DEF CountCPU, Target
  <2>2. ASSUME NEW k \in 1 .. (i - 1), LAPIC_IDs[k] \notin booted \cup {BootCPU}
        PROVE  LAPIC_IDs[k] \in GivenUp'
    <3>1. k \in 1 .. (i' - 1) /\ k # i /\ k \in DOMAIN LAPIC_IDs
      <4>1. i \in Nat /\ i <= Len(LAPIC_IDs) /\ Len(LAPIC_IDs) \in Nat
        BY <1>1, <2>1
      <4>2. k \in 1 .. Len(LAPIC_IDs) /\ k \in 1 .. (i' - 1) /\ k # i
        BY <2>1, <4>1
      <4> QED BY <1>1, <4>2
    <3>2. LAPIC_IDs[k] # LAPIC_IDs[i]
      BY <1>1, <2>1, <3>1
    <3> QED BY <1>1, <2>1, <2>2, <3>1, <3>2 DEF GivenUp
  <2> QED BY <2>2 DEF GivenUp
<1>3. CASE ~ CountCPU
  <2>1. booted' = booted /\ i' \in {i, i + 1}
    BY <1>3 DEF NextCPU, BootTSS, InitializeCPU, NewCPU, ResetMagic, SetID, SetStack,
         SendStartup, SeeMagic, GiveUp, Spin, WaitForInit, StartCPU,
         Trampoline, TakeStack, TakeID, SMPEntry, Allocate, FinishInit, vars, counts, boot
  <2>2. ASSUME NEW k \in 1 .. (i - 1) PROVE k \in 1 .. (i' - 1)
    <3>1. i' = i \/ i' = i + 1
      BY <2>1
    <3> QED BY <1>1, <3>1
  <2> QED BY <1>1, <2>1, <2>2 DEF GivenUp
<1> QED BY <1>2, <1>3

LEMMA NextCPUInductive ==
    ASSUME IInv, NextCPU
    PROVE  IInv'
<1>0. GivenUp \subseteq GivenUp'
  BY GivenUpStays DEF IInv, InitializeCPU
<1>1. /\ Known' = Known /\ Others' = Others /\ TypeIDs'
      /\ LAPIC_IDs' = LAPIC_IDs
  BY SameIDs DEF NextCPU, IInv, TypeOK
<1>2. TypeBoot'
  BY <1>1, TargetIsOther DEF IInv, TypeOK, NextCPU, TypeBoot, Before, After, counts, others, Known, Target
<1>3. TypeOthers'
  BY <1>1 DEF IInv, TypeOK, TypeOthers, NextCPU, counts, others, Places
<1>4. OneAtATime'
  BY <1>0, <1>1, TargetIsOther, QuietBefore DEF IInv, TypeOK, NextCPU, OneAtATime, Quiet, Before, After, counts, others
<1>5. NotYet'
  BY <1>1, TargetIsOther, QuietBefore DEF IInv, TypeOK, NextCPU, NotYet, TypeIDs, TypeBoot, counts, others
<1>6. Globals'
  BY <1>1, TargetIsOther, QuietBefore DEF IInv, TypeOK, NextCPU, Globals, Before, After, counts, others
<1>7. Handshake'
  BY <1>1, TargetIsOther, QuietBefore DEF IInv, TypeOK, NextCPU, Handshake, After, Before, counts, others
<1>8. Identity'
  BY <1>1, TargetIsOther, QuietBefore DEF IInv, TypeOK, NextCPU, Identity, Entered, counts, others
<1>9. (booted \subseteq Others)' /\ BootedHaveFinished'
  BY <1>1, TargetIsOther DEF IInv, NextCPU, BootedHaveFinished, ReadyCPUs, TypeOK, TypeOthers, counts, others
<1>. QED
  BY <1>1, <1>2, <1>3, <1>4, <1>5, <1>6, <1>7, <1>8, <1>9 DEF IInv, TypeOK

LEMMA BootTSSInductive ==
    ASSUME IInv, BootTSS
    PROVE  IInv'
<1>0. GivenUp \subseteq GivenUp'
  BY GivenUpStays DEF IInv, InitializeCPU
<1>1. /\ Known' = Known /\ Others' = Others /\ TypeIDs'
      /\ LAPIC_IDs' = LAPIC_IDs /\ i' = i /\ Target' = Target
  BY SameIDs DEF BootTSS, IInv, TypeOK
<1>2. TypeBoot'
  BY <1>1, TargetIsOther DEF IInv, TypeOK, BootTSS, TypeBoot, Before, After, counts, others, Known, Target
<1>3. TypeOthers'
  BY <1>1 DEF IInv, TypeOK, TypeOthers, BootTSS, counts, others, Places
<1>4. OneAtATime'
  BY <1>0, <1>1, TargetIsOther, QuietBefore DEF IInv, TypeOK, BootTSS, OneAtATime, Quiet, Before, After, counts, others
<1>5. NotYet'
  BY <1>1, TargetIsOther, QuietBefore DEF IInv, TypeOK, BootTSS, NotYet, TypeIDs, TypeBoot, counts, others
<1>6. Globals'
  BY <1>1, TargetIsOther, QuietBefore DEF IInv, TypeOK, BootTSS, Globals, Before, After, counts, others
<1>7. Handshake'
  BY <1>1, TargetIsOther, QuietBefore DEF IInv, TypeOK, BootTSS, Handshake, After, Before, counts, others
<1>8. Identity'
  BY <1>1, TargetIsOther, QuietBefore DEF IInv, TypeOK, BootTSS, Identity, Entered, counts, others
<1>9. (booted \subseteq Others)' /\ BootedHaveFinished'
  BY <1>1, TargetIsOther DEF IInv, BootTSS, BootedHaveFinished, ReadyCPUs, TypeOK, TypeOthers, counts, others
<1>. QED
  BY <1>1, <1>2, <1>3, <1>4, <1>5, <1>6, <1>7, <1>8, <1>9 DEF IInv, TypeOK

LEMMA NewCPUInductive ==
    ASSUME IInv, NewCPU
    PROVE  IInv'
<1>0. GivenUp \subseteq GivenUp'
  BY GivenUpStays DEF IInv, InitializeCPU
<1>1. /\ Known' = Known /\ Others' = Others /\ TypeIDs'
      /\ LAPIC_IDs' = LAPIC_IDs /\ i' = i /\ Target' = Target
  BY SameIDs DEF NewCPU, IInv, TypeOK
<1>2. TypeBoot'
  BY <1>1, TargetIsOther DEF IInv, TypeOK, NewCPU, TypeBoot, Before, After, counts, others, Known, Target
<1>3. TypeOthers'
  BY <1>1 DEF IInv, TypeOK, TypeOthers, NewCPU, counts, others, Places
<1>4. OneAtATime'
  BY <1>0, <1>1, TargetIsOther, QuietBefore DEF IInv, TypeOK, NewCPU, OneAtATime, Quiet, Before, After, counts, others
<1>5. NotYet'
  BY <1>1, TargetIsOther, QuietBefore DEF IInv, TypeOK, NewCPU, NotYet, TypeIDs, TypeBoot, counts, others
<1>6. Globals'
  BY <1>1, TargetIsOther, QuietBefore DEF IInv, TypeOK, NewCPU, Globals, Before, After, counts, others
<1>7. Handshake'
  BY <1>1, TargetIsOther, QuietBefore DEF IInv, TypeOK, NewCPU, Handshake, After, Before, counts, others
<1>8. Identity'
  BY <1>1, TargetIsOther, QuietBefore DEF IInv, TypeOK, NewCPU, Identity, Entered, counts, others
<1>9. (booted \subseteq Others)' /\ BootedHaveFinished'
  BY <1>1, TargetIsOther DEF IInv, NewCPU, BootedHaveFinished, ReadyCPUs, TypeOK, TypeOthers, counts, others
<1>. QED
  BY <1>1, <1>2, <1>3, <1>4, <1>5, <1>6, <1>7, <1>8, <1>9 DEF IInv, TypeOK

LEMMA ResetMagicInductive ==
    ASSUME IInv, ResetMagic
    PROVE  IInv'
<1>0. GivenUp \subseteq GivenUp'
  BY GivenUpStays DEF IInv, InitializeCPU
<1>1. /\ Known' = Known /\ Others' = Others /\ TypeIDs'
      /\ LAPIC_IDs' = LAPIC_IDs /\ i' = i /\ Target' = Target
  BY SameIDs DEF ResetMagic, IInv, TypeOK
<1>2. TypeBoot'
  BY <1>1, TargetIsOther DEF IInv, TypeOK, ResetMagic, TypeBoot, Before, After, counts, others, Known, Target
<1>3. TypeOthers'
  BY <1>1 DEF IInv, TypeOK, TypeOthers, ResetMagic, counts, others, Places
<1>4. OneAtATime'
  BY <1>0, <1>1, TargetIsOther, QuietBefore DEF IInv, TypeOK, ResetMagic, OneAtATime, Quiet, Before, After, counts, others
<1>5. NotYet'
  BY <1>1, TargetIsOther, QuietBefore DEF IInv, TypeOK, ResetMagic, NotYet, TypeIDs, TypeBoot, counts, others
<1>6. Globals'
  BY <1>1, TargetIsOther, QuietBefore DEF IInv, TypeOK, ResetMagic, Globals, Before, After, counts, others
<1>7. Handshake'
  BY <1>1, TargetIsOther, QuietBefore DEF IInv, TypeOK, ResetMagic, Handshake, After, Before, counts, others
<1>8. Identity'
  BY <1>1, TargetIsOther, QuietBefore DEF IInv, TypeOK, ResetMagic, Identity, Entered, counts, others
<1>9. (booted \subseteq Others)' /\ BootedHaveFinished'
  BY <1>1, TargetIsOther DEF IInv, ResetMagic, BootedHaveFinished, ReadyCPUs, TypeOK, TypeOthers, counts, others
<1>. QED
  BY <1>1, <1>2, <1>3, <1>4, <1>5, <1>6, <1>7, <1>8, <1>9 DEF IInv, TypeOK

LEMMA SetIDInductive ==
    ASSUME IInv, SetID
    PROVE  IInv'
<1>0. GivenUp \subseteq GivenUp'
  BY GivenUpStays DEF IInv, InitializeCPU
<1>1. /\ Known' = Known /\ Others' = Others /\ TypeIDs'
      /\ LAPIC_IDs' = LAPIC_IDs /\ i' = i /\ Target' = Target
  BY SameIDs DEF SetID, IInv, TypeOK
<1>2. TypeBoot'
  BY <1>1, TargetIsOther DEF IInv, TypeOK, SetID, TypeBoot, Before, After, counts, others, Known, Target
<1>3. TypeOthers'
  BY <1>1 DEF IInv, TypeOK, TypeOthers, SetID, counts, others, Places
<1>4. OneAtATime'
  BY <1>0, <1>1, TargetIsOther, QuietBefore DEF IInv, TypeOK, SetID, OneAtATime, Quiet, Before, After, counts, others
<1>5. NotYet'
  BY <1>1, TargetIsOther, QuietBefore DEF IInv, TypeOK, SetID, NotYet, TypeIDs, TypeBoot, counts, others
<1>6. Globals'
  BY <1>1, TargetIsOther, QuietBefore DEF IInv, TypeOK, SetID, Globals, Before, After, counts, others
<1>7. Handshake'
  BY <1>1, TargetIsOther, QuietBefore DEF IInv, TypeOK, SetID, Handshake, After, Before, counts, others
<1>8. Identity'
  BY <1>1, TargetIsOther, QuietBefore DEF IInv, TypeOK, SetID, Identity, Entered, counts, others
<1>9. (booted \subseteq Others)' /\ BootedHaveFinished'
  BY <1>1, TargetIsOther DEF IInv, SetID, BootedHaveFinished, ReadyCPUs, TypeOK, TypeOthers, counts, others
<1>. QED
  BY <1>1, <1>2, <1>3, <1>4, <1>5, <1>6, <1>7, <1>8, <1>9 DEF IInv, TypeOK

LEMMA SetStackInductive ==
    ASSUME IInv, SetStack
    PROVE  IInv'
<1>0. GivenUp \subseteq GivenUp'
  BY GivenUpStays DEF IInv, InitializeCPU
<1>1. /\ Known' = Known /\ Others' = Others /\ TypeIDs'
      /\ LAPIC_IDs' = LAPIC_IDs /\ i' = i /\ Target' = Target
  BY SameIDs DEF SetStack, IInv, TypeOK
<1>2. TypeBoot'
  BY <1>1, TargetIsOther DEF IInv, TypeOK, SetStack, TypeBoot, Before, After, counts, others, Known, Target
<1>3. TypeOthers'
  BY <1>1 DEF IInv, TypeOK, TypeOthers, SetStack, counts, others, Places
<1>4. OneAtATime'
  BY <1>0, <1>1, TargetIsOther, QuietBefore DEF IInv, TypeOK, SetStack, OneAtATime, Quiet, Before, After, counts, others
<1>5. NotYet'
  BY <1>1, TargetIsOther, QuietBefore DEF IInv, TypeOK, SetStack, NotYet, TypeIDs, TypeBoot, counts, others
<1>6. Globals'
  BY <1>1, TargetIsOther, QuietBefore DEF IInv, TypeOK, SetStack, Globals, Before, After, counts, others
<1>7. Handshake'
  BY <1>1, TargetIsOther, QuietBefore DEF IInv, TypeOK, SetStack, Handshake, After, Before, counts, others
<1>8. Identity'
  BY <1>1, TargetIsOther, QuietBefore DEF IInv, TypeOK, SetStack, Identity, Entered, counts, others
<1>9. (booted \subseteq Others)' /\ BootedHaveFinished'
  BY <1>1, TargetIsOther DEF IInv, SetStack, BootedHaveFinished, ReadyCPUs, TypeOK, TypeOthers, counts, others
<1>. QED
  BY <1>1, <1>2, <1>3, <1>4, <1>5, <1>6, <1>7, <1>8, <1>9 DEF IInv, TypeOK

LEMMA SendStartupInductive ==
    ASSUME IInv, SendStartup
    PROVE  IInv'
<1>0. GivenUp \subseteq GivenUp'
  BY GivenUpStays DEF IInv, InitializeCPU
<1>1. /\ Known' = Known /\ Others' = Others /\ TypeIDs'
      /\ LAPIC_IDs' = LAPIC_IDs /\ i' = i /\ Target' = Target
  BY SameIDs DEF SendStartup, IInv, TypeOK
<1>2. TypeBoot'
  BY <1>1, TargetIsOther DEF IInv, TypeOK, SendStartup, TypeBoot, Before, After, counts, others, Known, Target
<1>3. TypeOthers'
  BY <1>1 DEF IInv, TypeOK, TypeOthers, SendStartup, counts, others, Places
<1>4. Target \in Others /\ i \in DOMAIN LAPIC_IDs
  BY TargetIsOther DEF IInv, TypeOK, SendStartup
<1>5. /\ pc = "startup" /\ pc' = "test" /\ ~ magic /\ ~ doneInit
      /\ UNCHANGED <<magic, doneInit, booted, stack, self, smpID, smpStack>>
  BY DEF SendStartup, IInv, Globals, Before, counts
<1>6. /\ ap'[Target] = "started"
      /\ \A c \in Others \ {Target} : ap'[c] = ap[c]
  BY <1>4, <1>5 DEF SendStartup, IInv, TypeOK, TypeOthers
<1>7. OneAtATime'
  BY <1>0, <1>1, <1>5, <1>6, QuietBefore DEF IInv, OneAtATime, Quiet, Before, After
<1>8. NotYet'
  BY <1>1, <1>5 DEF IInv, NotYet
<1>9. Globals'
  BY <1>1, <1>5 DEF IInv, Globals, Before, After
<1>10. Handshake'
  BY <1>1, <1>5, <1>6 DEF Handshake
<1>11. Identity'
  BY <1>1, <1>5, <1>6 DEF IInv, Identity, Entered
<1>12. Target \notin booted
  BY <1>4 DEF IInv, TypeOK, TypeBoot, NotYet, Target
<1>13. (booted \subseteq Others)' /\ BootedHaveFinished'
  <2>1. \A c \in booted : c \in DOMAIN ap /\ ap[c] = "ready"
    BY DEF IInv, BootedHaveFinished, ReadyCPUs
  <2>2. DOMAIN ap' = Others
    BY <1>1, <1>3 DEF TypeOthers
  <2>. QED
    BY <1>1, <1>5, <1>6, <1>12, <2>1, <2>2 DEF IInv, BootedHaveFinished, ReadyCPUs
<1>. QED
  BY <1>1, <1>2, <1>3, <1>7, <1>8, <1>9, <1>10, <1>11, <1>13 DEF IInv, TypeOK

LEMMA SeeMagicInductive ==
    ASSUME IInv, SeeMagic
    PROVE  IInv'
<1>0. GivenUp \subseteq GivenUp'
  BY GivenUpStays DEF IInv, InitializeCPU
<1>1. /\ Known' = Known /\ Others' = Others /\ TypeIDs'
      /\ LAPIC_IDs' = LAPIC_IDs /\ i' = i /\ Target' = Target
  BY SameIDs DEF SeeMagic, IInv, TypeOK
<1>2. TypeBoot'
  BY <1>1, TargetIsOther DEF IInv, TypeOK, SeeMagic, TypeBoot, Before, After, counts, others, Known, Target
<1>3. TypeOthers'
  BY <1>1 DEF IInv, TypeOK, TypeOthers, SeeMagic, counts, others, Places
<1>4. OneAtATime'
  BY <1>0, <1>1, TargetIsOther, QuietBefore DEF IInv, TypeOK, SeeMagic, OneAtATime, Quiet, Before, After, counts, others
<1>5. NotYet'
  BY <1>1, TargetIsOther, QuietBefore DEF IInv, TypeOK, SeeMagic, NotYet, TypeIDs, TypeBoot, counts, others
<1>6. Globals'
  BY <1>1, TargetIsOther, QuietBefore DEF IInv, TypeOK, SeeMagic, Globals, Before, After, counts, others
<1>7. Handshake'
  BY <1>1, TargetIsOther, QuietBefore DEF IInv, TypeOK, SeeMagic, Handshake, After, Before, counts, others
<1>8. Identity'
  BY <1>1, TargetIsOther, QuietBefore DEF IInv, TypeOK, SeeMagic, Identity, Entered, counts, others
<1>9. (booted \subseteq Others)' /\ BootedHaveFinished'
  BY <1>1, TargetIsOther DEF IInv, SeeMagic, BootedHaveFinished, ReadyCPUs, TypeOK, TypeOthers, counts, others
<1>. QED
  BY <1>1, <1>2, <1>3, <1>4, <1>5, <1>6, <1>7, <1>8, <1>9 DEF IInv, TypeOK

LEMMA GiveUpInductive ==
    ASSUME IInv, GiveUp
    PROVE  IInv'
<1>0. GivenUp \subseteq GivenUp'
  BY GivenUpStays DEF IInv, InitializeCPU
<1>1. /\ Known' = Known /\ Others' = Others /\ TypeIDs' /\ LAPIC_IDs' = LAPIC_IDs
  BY SameIDs DEF GiveUp, IInv, TypeOK
<1>2. /\ pc' = "next" /\ i' = i + 1 /\ i \in Nat /\ i # 0
      /\ UNCHANGED <<ap, stack, self, smpID, smpStack, magic>>
  BY DEF GiveUp, IInv, TypeOK, TypeBoot, counts, others
<1>3. Target \in Others /\ i \in DOMAIN LAPIC_IDs /\ LAPIC_IDs[i] = Target
  BY TargetIsOther DEF IInv, TypeOK, GiveUp, Target
<1>13. ap[Target] = "started" /\ booted' = booted /\ ~ doneInit'
  BY DEF GiveUp, IInv, Handshake, After, counts
<1>4. Target \in GivenUp'
  <2>1. i \in 1 .. (i' - 1) /\ Target \notin booted \cup {BootCPU}
    BY <1>2, <1>3 DEF IInv, NotYet, Others
  <2> QED BY <1>1, <1>3, <1>13, <2>1 DEF GivenUp
<1>5. booted' = booted /\ ~ doneInit'
  BY <1>13
<1>6. TypeBoot'
  BY <1>1, <1>2, <1>5 DEF IInv, TypeOK, TypeBoot, Before, GiveUp
<1>7. TypeOthers'
  BY <1>1, <1>2 DEF IInv, TypeOK, TypeOthers
<1>8. OneAtATime'
  BY <1>0, <1>1, <1>2, <1>4, <1>13 DEF IInv, OneAtATime, Quiet
<1>9. NotYet'
  <2>1. ASSUME NEW k \in DOMAIN LAPIC_IDs, k >= i + 1
        PROVE  LAPIC_IDs[k] \notin booted'
    <3>1. k \in Nat
      BY DEF IInv, TypeOK, TypeIDs
    <3>2. k >= i /\ k # i
      BY <1>2, <2>1, <3>1
    <3>3. LAPIC_IDs[k] \notin booted
      BY <3>2 DEF IInv, NotYet
    <3>4. LAPIC_IDs[k] # Target
      BY <1>3, <3>2 DEF IInv, TypeOK, TypeIDs
    <3>. QED
      BY <1>5, <3>3, <3>4
  <2>. QED
    BY <1>1, <1>2, <2>1 DEF NotYet
<1>10. Globals' /\ Handshake'
  BY <1>2, <1>5 DEF Globals, Handshake, After
<1>11. Identity'
  BY <1>1, <1>2 DEF IInv, Identity, Entered
<1>12. (booted \subseteq Others)' /\ BootedHaveFinished'
  BY <1>1, <1>2, <1>3, <1>5 DEF IInv, BootedHaveFinished, ReadyCPUs, TypeOK, TypeOthers
<1>. QED
  BY <1>1, <1>6, <1>7, <1>8, <1>9, <1>10, <1>11, <1>12 DEF IInv, TypeOK

LEMMA WaitForInitInductive ==
    ASSUME IInv, WaitForInit
    PROVE  IInv'
<1>0. GivenUp \subseteq GivenUp'
  BY GivenUpStays DEF IInv, InitializeCPU
<1>1. /\ Known' = Known /\ Others' = Others /\ TypeIDs'
      /\ LAPIC_IDs' = LAPIC_IDs /\ i' = i /\ Target' = Target
  BY SameIDs DEF WaitForInit, IInv, TypeOK
<1>2. TypeBoot'
  BY <1>1, TargetIsOther DEF IInv, TypeOK, WaitForInit, TypeBoot, Before, After, counts, others, Known, Target
<1>3. TypeOthers'
  BY <1>1 DEF IInv, TypeOK, TypeOthers, WaitForInit, counts, others, Places
<1>4. OneAtATime'
  BY <1>0, <1>1, TargetIsOther, QuietBefore DEF IInv, TypeOK, WaitForInit, OneAtATime, Quiet, Before, After, counts, others
<1>5. NotYet'
  BY <1>1, TargetIsOther, QuietBefore DEF IInv, TypeOK, WaitForInit, NotYet, TypeIDs, TypeBoot, counts, others
<1>6. Globals'
  BY <1>1, TargetIsOther, QuietBefore DEF IInv, TypeOK, WaitForInit, Globals, Before, After, counts, others
<1>7. Handshake'
  BY <1>1, TargetIsOther, QuietBefore DEF IInv, TypeOK, WaitForInit, Handshake, After, Before, counts, others
<1>8. Identity'
  BY <1>1, TargetIsOther, QuietBefore DEF IInv, TypeOK, WaitForInit, Identity, Entered, counts, others
<1>9. (booted \subseteq Others)' /\ BootedHaveFinished'
  BY <1>1, TargetIsOther DEF IInv, WaitForInit, BootedHaveFinished, ReadyCPUs, TypeOK, TypeOthers, counts, others
<1>. QED
  BY <1>1, <1>2, <1>3, <1>4, <1>5, <1>6, <1>7, <1>8, <1>9 DEF IInv, TypeOK

LEMMA CountCPUInductive ==
    ASSUME IInv, CountCPU
    PROVE  IInv'
<1>0. GivenUp \subseteq GivenUp'
  BY GivenUpStays DEF IInv, InitializeCPU
<1>1. /\ Known' = Known /\ Others' = Others /\ TypeIDs' /\ LAPIC_IDs' = LAPIC_IDs
  BY SameIDs DEF CountCPU, IInv, TypeOK
<1>2. /\ pc' = "next" /\ i' = i + 1 /\ i \in Nat /\ i # 0
      /\ UNCHANGED <<ap, stack, self, smpID, smpStack, magic>>
  BY DEF CountCPU, IInv, TypeOK, TypeBoot, counts, others
<1>3. Target \in Others /\ i \in DOMAIN LAPIC_IDs /\ LAPIC_IDs[i] = Target
  BY TargetIsOther DEF IInv, TypeOK, CountCPU, Target
<1>4. ap[Target] = "ready"
  BY DEF CountCPU, IInv, Handshake, After
<1>5. booted' = booted \cup {Target} /\ ~ doneInit' /\ ap[Target] = "ready"
  BY DEF CountCPU, IInv, Handshake, After
<1>6. TypeBoot'
  <2>1. doneInit' \in BOOLEAN
    BY DEF CountCPU
  <2>2. i' <= Len(LAPIC_IDs) + 1
    BY <1>2, <1>3 DEF IInv, TypeOK, TypeIDs
  <2>. QED
    BY <1>1, <1>2, <2>1, <2>2 DEF IInv, TypeOK, TypeBoot, Before
<1>7. TypeOthers'
  BY <1>1, <1>2 DEF IInv, TypeOK, TypeOthers
<1>8. OneAtATime'
  BY <1>0, <1>1, <1>2, <1>4 DEF IInv, OneAtATime, Quiet
<1>9. NotYet'
  <2>1. ASSUME NEW k \in DOMAIN LAPIC_IDs, k >= i + 1
        PROVE  LAPIC_IDs[k] \notin booted'
    <3>1. k \in Nat
      BY DEF IInv, TypeOK, TypeIDs
    <3>2. k >= i /\ k # i
      BY <1>2, <2>1, <3>1
    <3>3. LAPIC_IDs[k] \notin booted
      BY <3>2 DEF IInv, NotYet
    <3>4. LAPIC_IDs[k] # Target
      BY <1>3, <3>2 DEF IInv, TypeOK, TypeIDs
    <3>. QED
      BY <1>5, <3>3, <3>4
  <2>. QED
    BY <1>1, <1>2, <2>1 DEF NotYet
<1>10. Globals' /\ Handshake'
  BY <1>2, <1>5 DEF Globals, Handshake, After
<1>11. Identity'
  BY <1>1, <1>2 DEF IInv, Identity, Entered
<1>12. (booted \subseteq Others)' /\ BootedHaveFinished'
  BY <1>1, <1>2, <1>3, <1>5 DEF IInv, BootedHaveFinished, ReadyCPUs, TypeOK, TypeOthers
<1>. QED
  BY <1>1, <1>6, <1>7, <1>8, <1>9, <1>10, <1>11, <1>12 DEF IInv, TypeOK

-----------------------------------------------------------------------------
(* The other CPUs' steps.                                                  *)

\* A CPU that steps is the target of the boot CPU: nothing but its own ap, stack
\* and self changes, and magic and doneInit.
LEMMA TargetSteps ==
    ASSUME IInv, Punctual', NEW c \in DOMAIN ap, StartCPU(c)
    PROVE  /\ pc \in After /\ c = Target /\ c \in Others /\ c \notin booted
           /\ UNCHANGED <<LAPIC_IDs, pc, i, booted, smpID, smpStack>>
           /\ GivenUp \subseteq GivenUp'
           /\ Known' = Known /\ Others' = Others /\ TypeIDs' /\ Target' = Target
           /\ \E a \in Places : ap' = [ap EXCEPT ![c] = a]
<1>1. /\ UNCHANGED <<LAPIC_IDs, pc, i, booted, smpID, smpStack>>
      /\ \E a \in Places : ap' = [ap EXCEPT ![c] = a]
  BY DEF StartCPU, Trampoline, TakeStack, TakeID, SMPEntry, Allocate, FinishInit, boot,
         counts, Places
<1>3. c \in Others /\ ap \in [Others -> Places]
  BY DEF IInv, TypeOK, TypeOthers
<1>7. GivenUp \subseteq GivenUp'
  BY GivenUpStays DEF IInv
<1>2. ~ Quiet(c)
  <2>1. CASE Trampoline(c)
    <3>1. ap'[c] = "stack" /\ ap[c] = "started"
      BY <1>3, <2>1 DEF Trampoline
    <3>2. c \notin GivenUp
      BY <1>7, <3>1 DEF Punctual
    <3> QED BY <3>1, <3>2 DEF Quiet
  <2>2. CASE ~ Trampoline(c)
    BY <2>2 DEF StartCPU, TakeStack, TakeID, SMPEntry, Allocate, FinishInit, Quiet
  <2> QED BY <2>1, <2>2
<1>4. pc \in After /\ c = Target
  BY <1>2, <1>3 DEF IInv, OneAtATime
<1>5. Known' = Known /\ Others' = Others /\ TypeIDs' /\ Target' = Target
  BY <1>1, SameIDs DEF IInv, TypeOK
<1>6. c \notin booted
  BY <1>2 DEF IInv, BootedHaveFinished, ReadyCPUs, Quiet
<1>. QED
  BY <1>1, <1>3, <1>4, <1>5, <1>6, <1>7

LEMMA TrampolineInductive ==
    ASSUME IInv, Punctual', NEW c \in DOMAIN ap, Trampoline(c)
    PROVE  IInv'
<1>1. /\ pc \in After /\ c = Target /\ c \in Others /\ c \notin booted
      /\ UNCHANGED <<LAPIC_IDs, pc, i, booted, smpID, smpStack>>
      /\ Known' = Known /\ Others' = Others /\ TypeIDs' /\ Target' = Target
      /\ GivenUp \subseteq GivenUp'
  BY TargetSteps DEF StartCPU
<1>2. ap'[c] = "stack" /\ \A d \in Others \ {c} : ap'[d] = ap[d]
  BY <1>1 DEF Trampoline, IInv, TypeOK, TypeOthers
<1>3. TypeBoot'
  BY <1>1 DEF Trampoline, IInv, TypeOK, TypeBoot
<1>4. TypeOthers'
  BY <1>1 DEF Trampoline, IInv, TypeOK, TypeBoot, TypeOthers, Places
<1>5. OneAtATime'
  BY <1>1, <1>2 DEF IInv, OneAtATime, Quiet
<1>6. NotYet'
  BY <1>1 DEF IInv, NotYet
<1>7. Globals'
  BY <1>1 DEF Trampoline, IInv, Globals, Before, After
<1>8. Handshake'
  BY <1>1, <1>2 DEF Trampoline, IInv, Globals, Handshake, TypeOK, TypeOthers, After
<1>9. Identity'
  BY <1>1, <1>2, TargetIsOther DEF Trampoline, IInv, Identity, Entered, Globals, Handshake,
     TypeOK, TypeOthers, Target, After
<1>10. (booted \subseteq Others)' /\ BootedHaveFinished'
  <2>1. \A d \in booted : d \in Others /\ d # c /\ ap[d] = "ready"
    BY <1>1 DEF IInv, BootedHaveFinished, ReadyCPUs
  <2>2. DOMAIN ap' = Others
    BY <1>1, <1>4 DEF TypeOthers
  <2>. QED
    BY <1>1, <1>2, <2>1, <2>2 DEF BootedHaveFinished, ReadyCPUs
<1>. QED
  BY <1>1, <1>3, <1>4, <1>5, <1>6, <1>7, <1>8, <1>9, <1>10 DEF IInv, TypeOK

LEMMA TakeStackInductive ==
    ASSUME IInv, Punctual', NEW c \in DOMAIN ap, TakeStack(c)
    PROVE  IInv'
<1>1. /\ pc \in After /\ c = Target /\ c \in Others /\ c \notin booted
      /\ UNCHANGED <<LAPIC_IDs, pc, i, booted, smpID, smpStack>>
      /\ Known' = Known /\ Others' = Others /\ TypeIDs' /\ Target' = Target
      /\ GivenUp \subseteq GivenUp'
  BY TargetSteps DEF StartCPU
<1>2. ap'[c] = "id" /\ \A d \in Others \ {c} : ap'[d] = ap[d]
  BY <1>1 DEF TakeStack, IInv, TypeOK, TypeOthers
<1>3. TypeBoot'
  BY <1>1 DEF TakeStack, IInv, TypeOK, TypeBoot
<1>4. TypeOthers'
  BY <1>1 DEF TakeStack, IInv, TypeOK, TypeBoot, TypeOthers, Places
<1>5. OneAtATime'
  BY <1>1, <1>2 DEF IInv, OneAtATime, Quiet
<1>6. NotYet'
  BY <1>1 DEF IInv, NotYet
<1>7. Globals'
  BY <1>1 DEF TakeStack, IInv, Globals, Before, After
<1>8. Handshake'
  BY <1>1, <1>2 DEF TakeStack, IInv, Globals, Handshake, TypeOK, TypeOthers, After
<1>9. Identity'
  BY <1>1, <1>2, TargetIsOther DEF TakeStack, IInv, Identity, Entered, Globals, Handshake,
     TypeOK, TypeOthers, Target, After
<1>10. (booted \subseteq Others)' /\ BootedHaveFinished'
  <2>1. \A d \in booted : d \in Others /\ d # c /\ ap[d] = "ready"
    BY <1>1 DEF IInv, BootedHaveFinished, ReadyCPUs
  <2>2. DOMAIN ap' = Others
    BY <1>1, <1>4 DEF TypeOthers
  <2>. QED
    BY <1>1, <1>2, <2>1, <2>2 DEF BootedHaveFinished, ReadyCPUs
<1>. QED
  BY <1>1, <1>3, <1>4, <1>5, <1>6, <1>7, <1>8, <1>9, <1>10 DEF IInv, TypeOK

LEMMA TakeIDInductive ==
    ASSUME IInv, Punctual', NEW c \in DOMAIN ap, TakeID(c)
    PROVE  IInv'
<1>1. /\ pc \in After /\ c = Target /\ c \in Others /\ c \notin booted
      /\ UNCHANGED <<LAPIC_IDs, pc, i, booted, smpID, smpStack>>
      /\ Known' = Known /\ Others' = Others /\ TypeIDs' /\ Target' = Target
      /\ GivenUp \subseteq GivenUp'
  BY TargetSteps DEF StartCPU
<1>2. ap'[c] = "entry" /\ \A d \in Others \ {c} : ap'[d] = ap[d]
  BY <1>1 DEF TakeID, IInv, TypeOK, TypeOthers
<1>3. TypeBoot'
  BY <1>1 DEF TakeID, IInv, TypeOK, TypeBoot
<1>4. TypeOthers'
  BY <1>1 DEF TakeID, IInv, TypeOK, TypeBoot, TypeOthers, Places
<1>5. OneAtATime'
  BY <1>1, <1>2 DEF IInv, OneAtATime, Quiet
<1>6. NotYet'
  BY <1>1 DEF IInv, NotYet
<1>7. Globals'
  BY <1>1 DEF TakeID, IInv, Globals, Before, After
<1>8. Handshake'
  BY <1>1, <1>2 DEF TakeID, IInv, Globals, Handshake, TypeOK, TypeOthers, After
<1>9. Identity'
  BY <1>1, <1>2, TargetIsOther DEF TakeID, IInv, Identity, Entered, Globals, Handshake,
     TypeOK, TypeOthers, Target, After
<1>10. (booted \subseteq Others)' /\ BootedHaveFinished'
  <2>1. \A d \in booted : d \in Others /\ d # c /\ ap[d] = "ready"
    BY <1>1 DEF IInv, BootedHaveFinished, ReadyCPUs
  <2>2. DOMAIN ap' = Others
    BY <1>1, <1>4 DEF TypeOthers
  <2>. QED
    BY <1>1, <1>2, <2>1, <2>2 DEF BootedHaveFinished, ReadyCPUs
<1>. QED
  BY <1>1, <1>3, <1>4, <1>5, <1>6, <1>7, <1>8, <1>9, <1>10 DEF IInv, TypeOK

LEMMA SMPEntryInductive ==
    ASSUME IInv, Punctual', NEW c \in DOMAIN ap, SMPEntry(c)
    PROVE  IInv'
<1>1. /\ pc \in After /\ c = Target /\ c \in Others /\ c \notin booted
      /\ UNCHANGED <<LAPIC_IDs, pc, i, booted, smpID, smpStack>>
      /\ Known' = Known /\ Others' = Others /\ TypeIDs' /\ Target' = Target
      /\ GivenUp \subseteq GivenUp'
  BY TargetSteps DEF StartCPU
<1>2. ap'[c] = "allocate" /\ \A d \in Others \ {c} : ap'[d] = ap[d]
  BY <1>1 DEF SMPEntry, IInv, TypeOK, TypeOthers
<1>3. TypeBoot'
  BY <1>1 DEF SMPEntry, IInv, TypeOK, TypeBoot
<1>4. TypeOthers'
  BY <1>1 DEF SMPEntry, IInv, TypeOK, TypeBoot, TypeOthers, Places
<1>5. OneAtATime'
  BY <1>1, <1>2 DEF IInv, OneAtATime, Quiet
<1>6. NotYet'
  BY <1>1 DEF IInv, NotYet
<1>7. Globals'
  BY <1>1 DEF SMPEntry, IInv, Globals, Before, After
<1>8. Handshake'
  BY <1>1, <1>2 DEF SMPEntry, IInv, Globals, Handshake, TypeOK, TypeOthers, After
<1>9. Identity'
  BY <1>1, <1>2, TargetIsOther DEF SMPEntry, IInv, Identity, Entered, Globals, Handshake,
     TypeOK, TypeOthers, Target, After
<1>10. (booted \subseteq Others)' /\ BootedHaveFinished'
  <2>1. \A d \in booted : d \in Others /\ d # c /\ ap[d] = "ready"
    BY <1>1 DEF IInv, BootedHaveFinished, ReadyCPUs
  <2>2. DOMAIN ap' = Others
    BY <1>1, <1>4 DEF TypeOthers
  <2>. QED
    BY <1>1, <1>2, <2>1, <2>2 DEF BootedHaveFinished, ReadyCPUs
<1>. QED
  BY <1>1, <1>3, <1>4, <1>5, <1>6, <1>7, <1>8, <1>9, <1>10 DEF IInv, TypeOK

LEMMA AllocateInductive ==
    ASSUME IInv, Punctual', NEW c \in DOMAIN ap, Allocate(c)
    PROVE  IInv'
<1>1. /\ pc \in After /\ c = Target /\ c \in Others /\ c \notin booted
      /\ UNCHANGED <<LAPIC_IDs, pc, i, booted, smpID, smpStack>>
      /\ Known' = Known /\ Others' = Others /\ TypeIDs' /\ Target' = Target
      /\ GivenUp \subseteq GivenUp'
  BY TargetSteps DEF StartCPU
<1>2. ap'[c] = "finish" /\ \A d \in Others \ {c} : ap'[d] = ap[d]
  BY <1>1 DEF Allocate, IInv, TypeOK, TypeOthers
<1>3. TypeBoot'
  BY <1>1 DEF Allocate, IInv, TypeOK, TypeBoot
<1>4. TypeOthers'
  BY <1>1 DEF Allocate, IInv, TypeOK, TypeBoot, TypeOthers, Places
<1>5. OneAtATime'
  BY <1>1, <1>2 DEF IInv, OneAtATime, Quiet
<1>6. NotYet'
  BY <1>1 DEF IInv, NotYet
<1>7. Globals'
  BY <1>1 DEF Allocate, IInv, Globals, Before, After
<1>8. Handshake'
  BY <1>1, <1>2 DEF Allocate, IInv, Globals, Handshake, TypeOK, TypeOthers, After
<1>9. Identity'
  BY <1>1, <1>2, TargetIsOther DEF Allocate, IInv, Identity, Entered, Globals, Handshake,
     TypeOK, TypeOthers, Target, After
<1>10. (booted \subseteq Others)' /\ BootedHaveFinished'
  <2>1. \A d \in booted : d \in Others /\ d # c /\ ap[d] = "ready"
    BY <1>1 DEF IInv, BootedHaveFinished, ReadyCPUs
  <2>2. DOMAIN ap' = Others
    BY <1>1, <1>4 DEF TypeOthers
  <2>. QED
    BY <1>1, <1>2, <2>1, <2>2 DEF BootedHaveFinished, ReadyCPUs
<1>. QED
  BY <1>1, <1>3, <1>4, <1>5, <1>6, <1>7, <1>8, <1>9, <1>10 DEF IInv, TypeOK

LEMMA FinishInitInductive ==
    ASSUME IInv, Punctual', NEW c \in DOMAIN ap, FinishInit(c)
    PROVE  IInv'
<1>1. /\ pc \in After /\ c = Target /\ c \in Others /\ c \notin booted
      /\ UNCHANGED <<LAPIC_IDs, pc, i, booted, smpID, smpStack>>
      /\ Known' = Known /\ Others' = Others /\ TypeIDs' /\ Target' = Target
      /\ GivenUp \subseteq GivenUp'
  BY TargetSteps DEF StartCPU
<1>2. ap'[c] = "ready" /\ \A d \in Others \ {c} : ap'[d] = ap[d]
  BY <1>1 DEF FinishInit, IInv, TypeOK, TypeOthers
<1>3. TypeBoot'
  BY <1>1 DEF FinishInit, IInv, TypeOK, TypeBoot
<1>4. TypeOthers'
  BY <1>1 DEF FinishInit, IInv, TypeOK, TypeBoot, TypeOthers, Places
<1>5. OneAtATime'
  BY <1>1, <1>2 DEF IInv, OneAtATime, Quiet
<1>6. NotYet'
  BY <1>1 DEF IInv, NotYet
<1>7. Globals'
  BY <1>1 DEF FinishInit, IInv, Globals, Before, After
<1>8. Handshake'
  BY <1>1, <1>2 DEF FinishInit, IInv, Globals, Handshake, TypeOK, TypeOthers, After
<1>9. Identity'
  BY <1>1, <1>2, TargetIsOther DEF FinishInit, IInv, Identity, Entered, Globals, Handshake,
     TypeOK, TypeOthers, Target, After
<1>10. (booted \subseteq Others)' /\ BootedHaveFinished'
  <2>1. \A d \in booted : d \in Others /\ d # c /\ ap[d] = "ready"
    BY <1>1 DEF IInv, BootedHaveFinished, ReadyCPUs
  <2>2. DOMAIN ap' = Others
    BY <1>1, <1>4 DEF TypeOthers
  <2>. QED
    BY <1>1, <1>2, <2>1, <2>2 DEF BootedHaveFinished, ReadyCPUs
<1>. QED
  BY <1>1, <1>3, <1>4, <1>5, <1>6, <1>7, <1>8, <1>9, <1>10 DEF IInv, TypeOK

-----------------------------------------------------------------------------
(* The invariant.                                                          *)

LEMMA InitIInv == DistinctIds /\ Init => IInv
<1>. SUFFICES ASSUME DistinctIds, Init PROVE IInv
  OBVIOUS
<1>1. TypeIDs
  BY DEF Init, DistinctIds, TypeIDs
<1>2. TypeBoot
  <2>1. pc = "next" /\ i = 1 /\ smpStack = 0 /\ smpID = BootCPU
    BY DEF Init
  <2>2. magic \in BOOLEAN /\ doneInit \in BOOLEAN
    BY DEF Init
  <2>. QED
    BY <2>1, <2>2 DEF TypeBoot, Before, Known
<1>3. TypeOthers
  BY DEF Init, TypeOthers, Places, Others, Known
<1>4. \A c \in Others : ap[c] = "off"
  BY DEF Init, Others
<1>5. OneAtATime /\ Identity
  BY <1>4 DEF OneAtATime, Quiet, Identity, Entered
<1>6. NotYet /\ booted \subseteq Others /\ BootedHaveFinished
  BY DEF Init, NotYet, BootedHaveFinished
<1>7. Globals /\ Handshake
  BY DEF Init, Globals, Handshake, After
<1>. QED
  BY <1>1, <1>2, <1>3, <1>5, <1>6, <1>7 DEF IInv, TypeOK

LEMMA StutterInductive ==
    ASSUME IInv, UNCHANGED vars
    PROVE  IInv'
BY DEF vars, counts, others, IInv, TypeOK, TypeIDs, TypeBoot, TypeOthers, OneAtATime, Quiet, NotYet,
       GivenUp, Globals, Handshake, Identity, Entered, BootedHaveFinished, ReadyCPUs,
       Others, Known, Target

LEMMA NextInductive ==
    ASSUME IInv, Punctual', [Next]_vars
    PROVE  IInv'
<1>1. CASE NextCPU
  BY <1>1, NextCPUInductive
<1>2. CASE BootTSS
  BY <1>2, BootTSSInductive
<1>3. CASE InitializeCPU
  BY <1>3, NewCPUInductive, ResetMagicInductive, SetIDInductive, SetStackInductive,
     SendStartupInductive, SeeMagicInductive, GiveUpInductive, WaitForInitInductive,
     CountCPUInductive, StutterInductive DEF InitializeCPU, Spin
<1>4. ASSUME NEW c \in DOMAIN ap, StartCPU(c)
      PROVE  IInv'
  BY <1>4, TrampolineInductive, TakeStackInductive, TakeIDInductive, SMPEntryInductive,
     AllocateInductive, FinishInitInductive DEF StartCPU
<1>5. CASE Finished \/ UNCHANGED vars
  BY <1>5, StutterInductive DEF Finished
<1>. QED
  BY <1>1, <1>2, <1>3, <1>4, <1>5 DEF Next

\* The types stay whoever answers when.
LEMMA TypesStay ==
    ASSUME TypeOK, [Next]_vars
    PROVE  TypeOK'
<1>1. LAPIC_IDs' = LAPIC_IDs /\ Known' = Known /\ Others' = Others /\ TypeIDs'
  <2>1. LAPIC_IDs' = LAPIC_IDs
    BY DEF Next, NextCPU, BootTSS, InitializeCPU, NewCPU, ResetMagic, SetID,
         SetStack, SendStartup, SeeMagic, GiveUp, Spin, WaitForInit, CountCPU, StartCPU,
         Trampoline, TakeStack, TakeID, SMPEntry, Allocate, FinishInit, Finished, vars
  <2> QED BY <2>1, SameIDs DEF TypeOK
<1>2. CASE \E c \in DOMAIN ap : StartCPU(c)
  <2>1. PICK c \in Others : StartCPU(c)
    BY <1>2 DEF TypeOK, TypeOthers
  <2>2. /\ UNCHANGED <<pc, i, smpID, smpStack>> /\ magic' \in BOOLEAN /\ doneInit' \in BOOLEAN
        /\ ap' \in [Others -> Places]
        /\ stack' \in [Others -> Nat] /\ self' \in [Others -> Known]
    BY <2>1 DEF TypeOK, TypeBoot, TypeOthers, StartCPU, Trampoline, TakeStack, TakeID, SMPEntry,
                Allocate, FinishInit, boot, Places
  <2>3. TypeOthers'
    BY <1>1, <2>2 DEF TypeOthers
  <2>4. TypeBoot'
    BY <1>1, <2>2 DEF TypeOK, TypeBoot, Target
  <2> QED BY <1>1, <2>3, <2>4 DEF TypeOK
<1>3. CASE SendStartup
  <2>1. TypeOthers'
    BY <1>1, <1>3 DEF TypeOK, TypeOthers, SendStartup, Places
  <2>2. TypeBoot'
    BY <1>1, <1>3 DEF TypeOK, TypeBoot, SendStartup, Target, Before, After
  <2> QED BY <1>1, <2>1, <2>2 DEF TypeOK
<1>4. CASE NextCPU \/ BootTSS \/ (InitializeCPU /\ ~ SendStartup) \/ Finished \/ UNCHANGED vars
  <2>1. TypeOthers'
    BY <1>1, <1>4 DEF TypeOK, TypeOthers, NextCPU, BootTSS, InitializeCPU, NewCPU, ResetMagic,
         SetID, SetStack, SeeMagic, GiveUp, Spin, WaitForInit, CountCPU, Finished, vars, others
  <2>2. TypeBoot'
    <3>1. CASE NextCPU
      BY <1>1, <3>1 DEF TypeOK, TypeBoot, NextCPU, Target, Before, After
    <3>2. CASE BootTSS
      BY <1>1, <3>2 DEF TypeOK, TypeBoot, BootTSS, Target, Before, After
    <3>3. CASE SetID \/ SetStack
      <4>1. Target \in Known /\ i \in Nat
        BY <3>3, TargetIsOther DEF SetID, SetStack, Others, TypeOK, TypeBoot
      <4> QED BY <1>1, <3>3, <4>1 DEF TypeOK, TypeBoot, SetID, SetStack, Target, Before, After
    <3>4. CASE NewCPU \/ ResetMagic \/ SeeMagic \/ WaitForInit
      BY <1>1, <3>4 DEF TypeOK, TypeBoot, NewCPU, ResetMagic, SeeMagic, WaitForInit, Target,
                        Before, After
    <3>5. CASE GiveUp \/ CountCPU
      <4>1. /\ pc' = "next" /\ i' \in Nat \ {0} /\ i' <= Len(LAPIC_IDs) + 1 /\ magic' = magic /\ doneInit' \in BOOLEAN
            /\ smpID' = smpID /\ smpStack' = smpStack
        <5>1. i' = i + 1 /\ i \in Nat
          BY <3>5 DEF TypeOK, TypeBoot, GiveUp, CountCPU
        <5>2. doneInit' \in BOOLEAN
          <6>1. CASE GiveUp
            BY <6>1 DEF TypeOK, TypeBoot, GiveUp
          <6>2. CASE CountCPU
            BY <6>2 DEF CountCPU
          <6> QED BY <3>5, <6>1, <6>2
        <5>4. i' \in Nat \ {0} /\ i' <= Len(LAPIC_IDs) + 1
          <6>1. i \in DOMAIN LAPIC_IDs /\ LAPIC_IDs \in Seq(Nat)
            BY <3>5, TargetIsOther DEF GiveUp, CountCPU, TypeOK, TypeIDs
          <6> QED BY <5>1, <6>1
        <5>3. /\ pc' = "next" /\ magic' = magic
              /\ smpID' = smpID /\ smpStack' = smpStack
          BY <3>5 DEF GiveUp, CountCPU
        <5> QED BY <5>2, <5>3, <5>4
      <4> QED BY <1>1, <4>1 DEF TypeOK, TypeBoot, Before
    <3>6. CASE Spin \/ Finished \/ UNCHANGED vars
      BY <1>1, <3>6 DEF TypeOK, TypeBoot, Spin, Finished, vars, Target
    <3> QED BY <1>4, <3>1, <3>2, <3>3, <3>4, <3>5, <3>6 DEF InitializeCPU
  <2> QED BY <1>1, <2>1, <2>2 DEF TypeOK
<1> QED BY <1>2, <1>3, <1>4 DEF Next, InitializeCPU

\* What was late once stays so: no CPU that has answered is sent STARTUP again.
LEMMA PunctualBefore ==
    ASSUME TypeOK, [Next]_vars, Punctual'
    PROVE  Punctual
<1>1. CASE NextCPU \/ BootTSS \/ InitializeCPU \/ \E c \in DOMAIN ap : StartCPU(c)
  <2>1. GivenUp \subseteq GivenUp'
    BY <1>1, GivenUpStays
  <2>2. SUFFICES ASSUME NEW c \in GivenUp, ap[c] \notin {"off", "started"} PROVE FALSE
    BY DEF Punctual
  <2>3. ap'[c] \in {"off", "started"}
    BY <2>1 DEF Punctual
  <2>4. PICK k \in 1 .. (i - 1) : c = LAPIC_IDs[k]
    BY DEF GivenUp
  <2>5. CASE SendStartup
    <3>1. i \in DOMAIN LAPIC_IDs /\ Target = LAPIC_IDs[i]
      BY <2>5, TargetIsOther DEF SendStartup, Target
    <3>2. k \in DOMAIN LAPIC_IDs /\ k # i
      BY <3>1 DEF TypeOK, TypeIDs
    <3>3. c # Target
      BY <2>4, <3>1, <3>2 DEF TypeOK, TypeIDs
    <3> QED BY <2>2, <2>3, <2>5, <3>3 DEF SendStartup, TypeOK, TypeOthers
  <2>6. CASE \E d \in DOMAIN ap : StartCPU(d)
    <3>1. PICK d \in DOMAIN ap : StartCPU(d)
      BY <2>6
    <3>2. PICK a \in Places \ {"off", "started"} : ap' = [ap EXCEPT ![d] = a]
      BY <3>1 DEF StartCPU, Trampoline, TakeStack, TakeID, SMPEntry, Allocate, FinishInit, Places
    <3>3. c \in DOMAIN ap
      <4>1. k \in DOMAIN LAPIC_IDs
        BY DEF TypeOK, TypeIDs, TypeBoot
      <4>2. c \in Others
        BY <2>4, <4>1 DEF GivenUp, Others, Known
      <4> QED BY <4>2 DEF TypeOK, TypeOthers
    <3> QED BY <2>2, <2>3, <3>2, <3>3
  <2>7. CASE NextCPU \/ BootTSS \/ (InitializeCPU /\ ~ SendStartup)
    <3>1. ap' = ap
      BY <2>7 DEF NextCPU, BootTSS, InitializeCPU, NewCPU, ResetMagic, SetID, SetStack,
                  SeeMagic, GiveUp, Spin, WaitForInit, CountCPU, others, vars
    <3> QED BY <2>2, <2>3, <3>1
  <2> QED BY <1>1, <2>5, <2>6, <2>7
<1>2. CASE Finished \/ UNCHANGED vars
  BY <1>2 DEF Finished, vars, counts, others, Punctual, GivenUp
<1> QED BY <1>1, <1>2 DEF Next

\* At any time at most one other CPU is on its way through the trampoline and
\* SMPEntry, the one that the boot CPU has sent STARTUP and waits for - until a CPU
\* answers that was given up.
THEOREM SmpBootInvariant ==
    ASSUME DistinctIds
    PROVE  Spec => [](TypeOK /\ (Punctual => IInv))
<1>1. Init => TypeOK /\ IInv
  BY InitIInv DEF IInv
<1>2. TypeOK /\ (Punctual => IInv) /\ [Next]_vars => TypeOK' /\ (Punctual' => IInv')
  BY TypesStay, PunctualBefore, NextInductive
<1> QED BY <1>1, <1>2, PTL DEF Spec

-----------------------------------------------------------------------------
(* The theorems.                                                           *)

\* The id and the stack that the trampoline reads from smpID and smpStack are its
\* own CPU's: the boot CPU writes the next ones only after doneInit, or after it
\* has given up a CPU, as long as none of those answers.
THEOREM OwnIdentityTheorem ==
    ASSUME DistinctIds
    PROVE  Spec => []OwnIdentity
<1>1. (Punctual => IInv) => OwnIdentity
  <2>. SUFFICES ASSUME IInv, NEW c \in DOMAIN ap, Entered(c)
                PROVE  self[c] = c /\ stack[c] # 0 /\ LAPIC_IDs[stack[c]] = c
    BY DEF OwnIdentity
  <2>1. c \in Others
    BY DEF IInv, TypeOK, TypeOthers
  <2>2. self[c] = c /\ stack[c] \in DOMAIN LAPIC_IDs /\ LAPIC_IDs[stack[c]] = c
    BY <2>1 DEF IInv, Identity
  <2>. QED
    BY <2>2 DEF IInv, TypeOK, TypeIDs
<1>. QED
  BY <1>1, SmpBootInvariant, PTL

\* The page frame allocator and the heap, which have no lock, are used by one CPU at
\* a time: another CPU allocates only while the boot CPU waits for it.
THEOREM AllocatorsAreSerialTheorem ==
    ASSUME DistinctIds
    PROVE  Spec => []AllocatorsAreSerial
<1>1. (Punctual => IInv) => AllocatorsAreSerial
  <2>. SUFFICES ASSUME IInv PROVE Cardinality(Allocating) <= 1
    BY DEF AllocatorsAreSerial
  <2>1. DOMAIN ap = Others
    BY DEF IInv, TypeOK, TypeOthers
  <2>2. PICK x : Allocating \subseteq {x}
    <3>1. CASE pc \in After
      <4>1. Allocating \subseteq {Target}
        BY <2>1, <3>1 DEF Allocating, IInv, OneAtATime, Quiet, After
      <4>. QED
        BY <4>1
    <3>2. CASE pc \notin After
      <4>1. Allocating \subseteq {BootCPU}
        BY <2>1, <3>2 DEF Allocating, IInv, OneAtATime, Quiet
      <4>. QED
        BY <4>1
    <3>. QED
      BY <3>1, <3>2
  <2>3. IsFiniteSet({x}) /\ Cardinality({x}) = 1
    BY FS_Singleton
  <2>4. Cardinality(Allocating) <= Cardinality({x})
    BY <2>2, <2>3, FS_Subset
  <2>. QED
    BY <2>3, <2>4
<1>. QED
  BY <1>1, SmpBootInvariant, PTL

=============================================================================
