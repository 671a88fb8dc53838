-------------------------- MODULE Scheduler_proofs ---------------------------
(***************************************************************************)
(* The scheduler, for any number of CPUs, processes and creators, any time *)
(* slice, and handlers nested to any depth.                                *)
(*                                                                         *)
(* A CPU's stack matters to the others only through the stage that its     *)
(* handler has reached in the section under the lock, if there is one      *)
(* (Stage), and through the line of its processes, which is the queue with *)
(* what a rotation has taken out put back (Line).  The invariant says      *)
(* where a handler with the lock can be on a stack (Nesting), that the     *)
(* lock is taken exactly by it or by one NewProcess (Locks), what each     *)
(* stage has made of queue and current process (Stages), that every        *)
(* process is in one place of one line (Lines) or still to be added        *)
(* (Pending).                                                              *)
(***************************************************************************)
EXTENDS Scheduler, FiniteSetTheorems, SequenceTheorems, TLAPS

Waiting == {"test", "tick", "lock"}
Handler == Waiting \cup Section \cup {"switch"}
Someone == Process \cup Idle \cup {NoProcess}
Stack == [owner : Someone, frames : Seq(Handler)]
Creation == [pc : {"no", "scan", "lock", "cli", "add", "release"}, cpu : CPU,
             next : Nat, child : Process \cup {NoProcess}]

Types ==
    /\ queue \in [CPU -> Seq(Process)] /\ capacity \in [CPU -> Nat]
    /\ QueueLock \in [CPU -> {0, 1}]
    /\ currentProcess \in [CPU -> Someone]
    /\ \A c \in CPU : currentProcess[c] \in Process \cup {idleProcess[c], NoProcess}
    /\ TimeSlice \in [Process \cup Idle -> 0 .. (SliceWord - 1)]
    /\ context \in [Process \cup Idle -> Stack]
    /\ exec \in [CPU -> Stack]
    /\ ipi \in [CPU -> BOOLEAN] /\ window \in [CPU -> Nat]
    /\ created \subseteq Process
    /\ creator \in [Creators -> Creation]

\* The stage of CPU c under the lock of its queue: none, or one.
Stage(c) == {s \in Section : Open(c, s)}

\* A handler that interrupts one with the lock comes no further than to the lock,
\* and no stack is saved while a handler on it has the lock.
NestedStacks ==
    \A c \in CPU : \A i, j \in DOMAIN exec[c].frames :
      i < j /\ exec[c].frames[j] \in Section => exec[c].frames[i] \in Waiting
SavedStacks ==
    \A p \in Process \cup Idle : \A i \in DOMAIN context[p].frames :
      context[p].frames[i] \notin Section
Nesting == NestedStacks /\ SavedStacks

Locks ==
    \A c \in CPU :
      /\ Stage(c) # {} => Adders(c) = {}
      /\ \A p, q \in Adders(c) : p = q
      /\ QueueLock[c] = 1 <=> Stage(c) # {} \/ Adders(c) # {}

StagesAt(c) ==
    /\ Open(c, "erase") \/ Open(c, "add") => currentProcess[c] \in Process
    /\ Open(c, "pick") => /\ queue[c] # << >>
                          /\ currentProcess[c] \in Process =>
                               queue[c][Len(queue[c])] = currentProcess[c]
    /\ currentProcess[c] = NoProcess =>
         \A i \in DOMAIN exec[c].frames : exec[c].frames[i] \in {"test", "lock", "choose"}
    /\ currentProcess[c] \in Process =>
         Line(c) # << >> /\ Head(Line(c)) = currentProcess[c]
Stages == \A c \in CPU : StagesAt(c)

Lines ==
    /\ \A c, d \in CPU : \A i \in DOMAIN Line(c), j \in DOMAIN Line(d) :
         Line(c)[i] = Line(d)[j] => c = d /\ i = j
    /\ \A c \in CPU : Line(c) # << >> => Len(Line(c)) < capacity[c]

\* NewProcess has created its child and not added it.
IsPending(p) == creator[p].pc \in {"scan", "lock", "cli", "add"}
InLine(x) == \E c \in CPU : \E i \in DOMAIN Line(c) : Line(c)[i] = x
Pending ==
    /\ \A x \in Process : InLine(x) \/ (\E p \in Creators : IsPending(p) /\ creator[p].child = x)
                            <=> x \in created
    /\ \A p \in Creators :
         /\ creator[p].pc = "no" => creator[p] = NotCreating
         /\ creator[p].pc = "scan" => creator[p].next \in CPU
         /\ IsPending(p) => creator[p].child \in Process /\ ~ InLine(creator[p].child)
    /\ \A p, q \in Creators :
         IsPending(p) /\ IsPending(q) /\ creator[p].child = creator[q].child => p = q

IInv == Types /\ Nesting /\ Locks /\ Stages /\ Lines /\ Pending

-----------------------------------------------------------------------------
(* What the steps of a handler do to the stack of its CPU.                 *)

\* Goto replaces the innermost frame.
LEMMA ReplaceHead ==
  ASSUME NEW S, NEW f \in Seq(S), f # << >>, NEW e \in S
  PROVE  /\ <<e>> \o Tail(f) \in Seq(S)
         /\ Len(<<e>> \o Tail(f)) = Len(f)
         /\ (<<e>> \o Tail(f))[1] = e
         /\ \A i \in 2 .. Len(f) : (<<e>> \o Tail(f))[i] = f[i]
<1>1. Tail(f) \in Seq(S) /\ Len(Tail(f)) = Len(f) - 1
      /\ \A i \in 1 .. Len(Tail(f)) : Tail(f)[i] = f[i + 1]
  BY HeadTailProperties
<1>2. <<e>> \in Seq(S) /\ Len(<<e>>) = 1 /\ <<e>>[1] = e
  OBVIOUS
<1>3. Len(f) \in Nat
  BY LenProperties
<1>4. /\ <<e>> \o Tail(f) \in Seq(S)
      /\ Len(<<e>> \o Tail(f)) = 1 + Len(Tail(f))
      /\ \A i \in 1 .. 1 + Len(Tail(f)) :
           (<<e>> \o Tail(f))[i] = IF i <= 1 THEN <<e>>[i] ELSE Tail(f)[i - 1]
  BY <1>1, <1>2, ConcatProperties
<1>. HIDE <1>2
<1>5. f # << >> => Len(f) # 0
  BY EmptySeq
<1>6. (<<e>> \o Tail(f))[1] = e
  BY <1>1, <1>2, <1>3, <1>4, <1>5
<1>7. ASSUME NEW i \in 2 .. Len(f) PROVE (<<e>> \o Tail(f))[i] = f[i]
  BY <1>1, <1>3, <1>4
<1>. QED
  BY <1>1, <1>4, <1>3, <1>6, <1>7

\* Putting an element before a sequence.
LEMMA PushHead ==
  ASSUME NEW S, NEW f \in Seq(S), NEW e \in S
  PROVE  /\ <<e>> \o f \in Seq(S)
         /\ Len(<<e>> \o f) = Len(f) + 1
         /\ (<<e>> \o f)[1] = e
         /\ \A i \in 1 .. Len(f) : (<<e>> \o f)[i + 1] = f[i]
<1>1. <<e>> \in Seq(S) /\ Len(<<e>>) = 1 /\ <<e>>[1] = e
  OBVIOUS
<1>2. Len(f) \in Nat
  BY LenProperties
<1>3. /\ <<e>> \o f \in Seq(S)
      /\ Len(<<e>> \o f) = 1 + Len(f)
      /\ \A i \in 1 .. 1 + Len(f) :
           (<<e>> \o f)[i] = IF i <= 1 THEN <<e>>[i] ELSE f[i - 1]
  BY <1>1, ConcatProperties
<1>. QED
  BY <1>1, <1>2, <1>3

\* The stack of a CPU is a sequence of handlers.
LEMMA StackOfCPU ==
  ASSUME Types, NEW c \in CPU
  PROVE  /\ exec[c].frames \in Seq(Handler) /\ exec[c].owner \in Someone
         /\ Len(exec[c].frames) \in Nat
         /\ DOMAIN exec[c].frames = 1 .. Len(exec[c].frames)
         /\ exec[c].frames # << >> => 1 \in DOMAIN exec[c].frames
         /\ exec[c].frames # << >> => Head(exec[c].frames) = exec[c].frames[1]
<1>1. exec[c].frames \in Seq(Handler) /\ exec[c].owner \in Someone
  BY DEF Types, Stack
<1>2. Len(exec[c].frames) \in Nat /\ DOMAIN exec[c].frames = 1 .. Len(exec[c].frames)
  BY <1>1, LenProperties
<1>3. exec[c].frames # << >> => Len(exec[c].frames) # 0
  BY <1>1, EmptySeq
<1>. QED
  BY <1>1, <1>2, <1>3

LEMMA GotoStack ==
  ASSUME Types, NEW c \in CPU, NEW pc \in Handler, exec[c].frames # << >>, Goto(c, pc)
  PROVE  /\ exec' \in [CPU -> Stack]
         /\ \A d \in CPU \ {c} : exec'[d] = exec[d]
         /\ exec'[c].owner = exec[c].owner
         /\ DOMAIN exec'[c].frames = DOMAIN exec[c].frames
         /\ Len(exec'[c].frames) = Len(exec[c].frames)
         /\ exec'[c].frames[1] = pc
         /\ \A i \in DOMAIN exec[c].frames \ {1} : exec'[c].frames[i] = exec[c].frames[i]
<1>. DEFINE f == exec[c].frames
            g == <<pc>> \o Tail(f)
<1>1. f \in Seq(Handler) /\ exec[c].owner \in Someone /\ DOMAIN f = 1 .. Len(f) /\ Len(f) \in Nat
  BY StackOfCPU
<1>2. g \in Seq(Handler) /\ Len(g) = Len(f) /\ g[1] = pc /\ \A i \in 2 .. Len(f) : g[i] = f[i]
  BY <1>1, ReplaceHead
<1>3. DOMAIN g = 1 .. Len(g)
  BY <1>2, LenProperties
<1>4. exec' = [exec EXCEPT ![c].frames = g] /\ exec \in [CPU -> Stack]
  BY DEF Goto, Types
<1>. HIDE DEF g
<1>5. exec'[c].frames = g /\ exec'[c].owner = exec[c].owner
      /\ \A d \in CPU \ {c} : exec'[d] = exec[d]
  BY <1>4 DEF Stack
<1>6. exec' \in [CPU -> Stack]
  BY <1>2, <1>4 DEF Stack
<1>. QED
  BY <1>1, <1>2, <1>3, <1>5, <1>6

LEMMA ReturnStack ==
  ASSUME Types, NEW c \in CPU, exec[c].frames # << >>, Return(c)
  PROVE  /\ exec' \in [CPU -> Stack]
         /\ \A d \in CPU \ {c} : exec'[d] = exec[d]
         /\ exec'[c].owner = exec[c].owner
         /\ DOMAIN exec'[c].frames = 1 .. Len(exec[c].frames) - 1
         /\ Len(exec'[c].frames) = Len(exec[c].frames) - 1
         /\ \A i \in DOMAIN exec'[c].frames : exec'[c].frames[i] = exec[c].frames[i + 1]
<1>. DEFINE f == exec[c].frames
            g == Tail(f)
<1>1. f \in Seq(Handler) /\ exec[c].owner \in Someone /\ DOMAIN f = 1 .. Len(f) /\ Len(f) \in Nat
  BY StackOfCPU
<1>2. g \in Seq(Handler) /\ Len(g) = Len(f) - 1 /\ \A i \in 1 .. Len(g) : g[i] = f[i + 1]
  BY <1>1, HeadTailProperties
<1>3. DOMAIN g = 1 .. Len(g)
  BY <1>2, LenProperties
<1>4. exec' = [exec EXCEPT ![c].frames = g] /\ exec \in [CPU -> Stack]
  BY DEF Return, Types
<1>. HIDE DEF g
<1>5. exec'[c].frames = g /\ exec'[c].owner = exec[c].owner
      /\ \A d \in CPU \ {c} : exec'[d] = exec[d]
  BY <1>4 DEF Stack
<1>6. exec' \in [CPU -> Stack]
  BY <1>2, <1>4 DEF Stack
<1>. QED
  BY <1>1, <1>2, <1>3, <1>5, <1>6

LEMMA EnterStack ==
  ASSUME Types, NEW c \in CPU, Enter(c)
  PROVE  /\ exec' \in [CPU -> Stack]
         /\ \A d \in CPU \ {c} : exec'[d] = exec[d]
         /\ exec'[c].owner = exec[c].owner
         /\ DOMAIN exec'[c].frames = 1 .. Len(exec[c].frames) + 1
         /\ Len(exec'[c].frames) = Len(exec[c].frames) + 1
         /\ exec'[c].frames[1] = "test"
         /\ \A i \in DOMAIN exec[c].frames : exec'[c].frames[i + 1] = exec[c].frames[i]
<1>. DEFINE f == exec[c].frames
            g == <<"test">> \o f
<1>1. f \in Seq(Handler) /\ exec[c].owner \in Someone /\ DOMAIN f = 1 .. Len(f) /\ Len(f) \in Nat
  BY StackOfCPU
<1>2. g \in Seq(Handler) /\ Len(g) = Len(f) + 1 /\ g[1] = "test"
      /\ \A i \in 1 .. Len(f) : g[i + 1] = f[i]
  <2>1. "test" \in Handler
    BY DEF Handler, Waiting
  <2>. QED
    BY <1>1, <2>1, PushHead
<1>3. DOMAIN g = 1 .. Len(g)
  BY <1>2, LenProperties
<1>4. exec' = [exec EXCEPT ![c].frames = g] /\ exec \in [CPU -> Stack]
  BY DEF Enter, Types
<1>. HIDE DEF g
<1>5. exec'[c].frames = g /\ exec'[c].owner = exec[c].owner
      /\ \A d \in CPU \ {c} : exec'[d] = exec[d]
  BY <1>4 DEF Stack
<1>6. exec' \in [CPU -> Stack]
  BY <1>2, <1>4 DEF Stack
<1>. QED
  BY <1>1, <1>2, <1>3, <1>5, <1>6


\* A handler in the section, or about to switch, is the only one; the lock is not with another.
LEMMA InnermostInSection ==
  ASSUME Types, NestedStacks, NEW c \in CPU, exec[c].frames # << >>,
         Head(exec[c].frames) \notin Waiting
  PROVE  /\ \A i \in DOMAIN exec[c].frames \ {1} : exec[c].frames[i] \notin Section
         /\ Stage(c) = {Head(exec[c].frames)} \cap Section
<1>1. 1 \in DOMAIN exec[c].frames /\ Head(exec[c].frames) = exec[c].frames[1]
      /\ DOMAIN exec[c].frames = 1 .. Len(exec[c].frames) /\ Len(exec[c].frames) \in Nat
  BY StackOfCPU
<1>2. \A i \in DOMAIN exec[c].frames \ {1} : exec[c].frames[i] \notin Section
  BY <1>1 DEF NestedStacks
<1>3. \A s \in Section : Open(c, s) <=> s = exec[c].frames[1]
  BY <1>1, <1>2 DEF Open
<1>. QED
  BY <1>1, <1>2, <1>3 DEF Stage

\* The next step of a handler when no other handler on its stack is in the section.
LEMMA StageAfterGoto ==
  ASSUME Types, NestedStacks, NEW c \in CPU, NEW pc \in Handler, exec[c].frames # << >>,
         Head(exec[c].frames) \notin Waiting \/ Stage(c) = {}, Goto(c, pc)
  PROVE  /\ NestedStacks'
         /\ Stage(c)' = {pc} \cap Section
         /\ \A d \in CPU \ {c} : Stage(d)' = Stage(d)
<1>1. /\ \A d \in CPU \ {c} : exec'[d] = exec[d]
      /\ DOMAIN exec'[c].frames = DOMAIN exec[c].frames
      /\ exec'[c].frames[1] = pc
      /\ \A i \in DOMAIN exec[c].frames \ {1} : exec'[c].frames[i] = exec[c].frames[i]
  BY GotoStack
<1>2. 1 \in DOMAIN exec[c].frames /\ DOMAIN exec[c].frames = 1 .. Len(exec[c].frames)
      /\ Len(exec[c].frames) \in Nat
  BY StackOfCPU
<1>3. \A i \in DOMAIN exec[c].frames \ {1} : exec[c].frames[i] \notin Section
  BY InnermostInSection DEF Stage, Open
<1>4. \A s \in Section : Open(c, s)' <=> s = pc
  BY <1>1, <1>2, <1>3 DEF Open
<1>5. Stage(c)' = {pc} \cap Section
  BY <1>4 DEF Stage
<1>6. ASSUME NEW d \in CPU \ {c} PROVE Stage(d)' = Stage(d)
  BY <1>1 DEF Stage, Open
<1>7. NestedStacks'
  <2>. SUFFICES ASSUME NEW d \in CPU, NEW i \in DOMAIN exec'[d].frames,
                       NEW j \in DOMAIN exec'[d].frames,
                       i < j, exec'[d].frames[j] \in Section
                PROVE  exec'[d].frames[i] \in Waiting
    BY DEF NestedStacks
  <2>1. CASE d = c
    BY <2>1, <1>1, <1>2, <1>3
  <2>2. CASE d # c
    BY <2>2, <1>1 DEF NestedStacks
  <2>. QED
    BY <2>1, <2>2
<1>. QED
  BY <1>5, <1>6, <1>7

\* A handler that waits goes on waiting: no stage changes.
LEMMA StageWhileWaiting ==
  ASSUME Types, NestedStacks, NEW c \in CPU, NEW pc \in Waiting, exec[c].frames # << >>,
         Head(exec[c].frames) \in Waiting, Goto(c, pc)
  PROVE  NestedStacks' /\ \A d \in CPU : Stage(d)' = Stage(d)
<1>0. pc \in Handler /\ Waiting \cap Section = {}
  BY DEF Handler, Waiting, Section
<1>1. /\ \A d \in CPU \ {c} : exec'[d] = exec[d]
      /\ DOMAIN exec'[c].frames = DOMAIN exec[c].frames
      /\ exec'[c].frames[1] = pc
      /\ \A i \in DOMAIN exec[c].frames \ {1} : exec'[c].frames[i] = exec[c].frames[i]
  BY <1>0, GotoStack
<1>2. 1 \in DOMAIN exec[c].frames /\ DOMAIN exec[c].frames = 1 .. Len(exec[c].frames)
      /\ Len(exec[c].frames) \in Nat /\ Head(exec[c].frames) = exec[c].frames[1]
  BY StackOfCPU
<1>3. \A s \in Section : Open(c, s)' <=> Open(c, s)
  BY <1>0, <1>1, <1>2 DEF Open
<1>4. ASSUME NEW d \in CPU PROVE Stage(d)' = Stage(d)
  BY <1>1, <1>3 DEF Stage, Open
<1>5. NestedStacks'
  <2>. SUFFICES ASSUME NEW d \in CPU, NEW i \in DOMAIN exec'[d].frames,
                       NEW j \in DOMAIN exec'[d].frames,
                       i < j, exec'[d].frames[j] \in Section
                PROVE  exec'[d].frames[i] \in Waiting
    BY DEF NestedStacks
  <2>1. CASE d = c
    BY <2>1, <1>0, <1>1, <1>2 DEF NestedStacks
  <2>2. CASE d # c
    BY <2>2, <1>1 DEF NestedStacks
  <2>. QED
    BY <2>1, <2>2
<1>. QED
  BY <1>4, <1>5

\* A handler that waits returns: no stage changes.
LEMMA StageAfterReturn ==
  ASSUME Types, NestedStacks, NEW c \in CPU, exec[c].frames # << >>,
         Head(exec[c].frames) \in Waiting, Return(c)
  PROVE  NestedStacks' /\ \A d \in CPU : Stage(d)' = Stage(d)
<1>0. Waiting \cap Section = {}
  BY DEF Waiting, Section
<1>1. /\ \A d \in CPU \ {c} : exec'[d] = exec[d]
      /\ DOMAIN exec'[c].frames = 1 .. Len(exec[c].frames) - 1
      /\ \A i \in DOMAIN exec'[c].frames : exec'[c].frames[i] = exec[c].frames[i + 1]
  BY ReturnStack
<1>2. 1 \in DOMAIN exec[c].frames /\ DOMAIN exec[c].frames = 1 .. Len(exec[c].frames)
      /\ Len(exec[c].frames) \in Nat /\ Head(exec[c].frames) = exec[c].frames[1]
  BY StackOfCPU
<1>3. ASSUME NEW s \in Section PROVE Open(c, s)' <=> Open(c, s)
  <2>1. ASSUME NEW i \in DOMAIN exec[c].frames, exec[c].frames[i] = s PROVE Open(c, s)'
    <3>1. i # 1 /\ i - 1 \in DOMAIN exec'[c].frames
      BY <2>1, <1>0, <1>1, <1>2
    <3>2. exec'[c].frames[i - 1] = s
      BY <3>1, <2>1, <1>1, <1>2
    <3>. QED
      BY <3>1, <3>2 DEF Open
  <2>2. ASSUME NEW i \in DOMAIN exec'[c].frames, exec'[c].frames[i] = s PROVE Open(c, s)
    BY <2>2, <1>1, <1>2 DEF Open
  <2>. QED
    BY <2>1, <2>2 DEF Open
<1>4. ASSUME NEW d \in CPU PROVE Stage(d)' = Stage(d)
  BY <1>1, <1>3 DEF Stage, Open
<1>5. NestedStacks'
  <2>. SUFFICES ASSUME NEW d \in CPU, NEW i \in DOMAIN exec'[d].frames,
                       NEW j \in DOMAIN exec'[d].frames,
                       i < j, exec'[d].frames[j] \in Section
                PROVE  exec'[d].frames[i] \in Waiting
    BY DEF NestedStacks
  <2>1. CASE d = c
    <3>1. i + 1 \in DOMAIN exec[c].frames /\ j + 1 \in DOMAIN exec[c].frames /\ i + 1 < j + 1
      BY <2>1, <1>1, <1>2
    <3>2. exec'[c].frames[i] = exec[c].frames[i + 1] /\ exec'[c].frames[j] = exec[c].frames[j + 1]
      BY <2>1, <1>1
    <3>. QED
      BY <3>1, <3>2, <2>1 DEF NestedStacks
  <2>2. CASE d # c
    BY <2>2, <1>1 DEF NestedStacks
  <2>. QED
    BY <2>1, <2>2
<1>. QED
  BY <1>4, <1>5

\* An interrupt opens a handler: no stage changes.
LEMMA StageAfterEnter ==
  ASSUME Types, NestedStacks, NEW c \in CPU, Enter(c)
  PROVE  NestedStacks' /\ \A d \in CPU : Stage(d)' = Stage(d)
<1>0. "test" \in Waiting /\ "test" \notin Section
  BY DEF Waiting, Section
<1>1. /\ \A d \in CPU \ {c} : exec'[d] = exec[d]
      /\ DOMAIN exec'[c].frames = 1 .. Len(exec[c].frames) + 1
      /\ exec'[c].frames[1] = "test"
      /\ \A i \in DOMAIN exec[c].frames : exec'[c].frames[i + 1] = exec[c].frames[i]
  BY EnterStack
<1>2. DOMAIN exec[c].frames = 1 .. Len(exec[c].frames) /\ Len(exec[c].frames) \in Nat
  BY StackOfCPU
<1>a. ASSUME NEW j \in DOMAIN exec'[c].frames, j # 1
      PROVE  j - 1 \in DOMAIN exec[c].frames /\ exec'[c].frames[j] = exec[c].frames[j - 1]
  BY <1>a, <1>1, <1>2
<1>3. ASSUME NEW s \in Section PROVE Open(c, s)' <=> Open(c, s)
  <2>1. ASSUME NEW i \in DOMAIN exec[c].frames, exec[c].frames[i] = s PROVE Open(c, s)'
    <3>1. i + 1 \in DOMAIN exec'[c].frames /\ exec'[c].frames[i + 1] = s
      BY <2>1, <1>1, <1>2
    <3>. QED
      BY <3>1 DEF Open
  <2>2. ASSUME NEW i \in DOMAIN exec'[c].frames, exec'[c].frames[i] = s PROVE Open(c, s)
    BY <2>2, <1>0, <1>1, <1>a DEF Open
  <2>. QED
    BY <2>1, <2>2 DEF Open
<1>4. ASSUME NEW d \in CPU PROVE Stage(d)' = Stage(d)
  BY <1>1, <1>3 DEF Stage, Open
<1>5. NestedStacks'
  <2>. SUFFICES ASSUME NEW d \in CPU, NEW i \in DOMAIN exec'[d].frames,
                       NEW j \in DOMAIN exec'[d].frames,
                       i < j, exec'[d].frames[j] \in Section
                PROVE  exec'[d].frames[i] \in Waiting
    BY DEF NestedStacks
  <2>1. CASE d = c /\ i = 1
    BY <2>1, <1>0, <1>1
  <2>2. CASE d = c /\ i # 1
    <3>1. j # 1
      BY <2>2, <1>1, <1>2
    <3>2. i - 1 < j - 1 /\ i - 1 \in DOMAIN exec[c].frames /\ j - 1 \in DOMAIN exec[c].frames
      BY <3>1, <2>2, <1>a, <1>1
    <3>3. exec'[c].frames[i] = exec[c].frames[i - 1] /\ exec'[c].frames[j] = exec[c].frames[j - 1]
      BY <3>1, <2>2, <1>a
    <3>. QED
      BY <3>2, <3>3, <2>2 DEF NestedStacks
  <2>3. CASE d # c
    BY <2>3, <1>1 DEF NestedStacks
  <2>. QED
    BY <2>1, <2>2, <2>3
<1>. QED
  BY <1>4, <1>5

-----------------------------------------------------------------------------
(* The lines, and what a step keeps that changes no line and no stage.     *)

LEMMA StageIsOpen ==
  ASSUME NEW c \in CPU, NEW s \in Section
  PROVE  Open(c, s) <=> s \in Stage(c)
BY DEF Stage

\* The line of a CPU in each stage.
LEMMA LineOfStage ==
  ASSUME NEW c \in CPU
  PROVE  /\ "add" \in Stage(c) => Line(c) = <<currentProcess[c]>> \o queue[c]
         /\ "add" \notin Stage(c) /\ "pick" \notin Stage(c) => Line(c) = queue[c]
         /\ "add" \notin Stage(c) /\ currentProcess[c] \notin Process => Line(c) = queue[c]
         /\ "add" \notin Stage(c) /\ "pick" \in Stage(c) /\ currentProcess[c] \in Process
              => Line(c) = <<currentProcess[c]>> \o Front(queue[c])
BY DEF Stage, Line, Section

\* The queue without its last process.
LEMMA FrontOfQueue ==
  ASSUME NEW S, NEW q \in Seq(S), q # << >>
  PROVE  /\ Front(q) \in Seq(S) /\ Len(Front(q)) = Len(q) - 1
         /\ \A i \in 1 .. Len(q) - 1 : Front(q)[i] = q[i]
         /\ Len(q) \in Nat \ {0}
<1>1. Len(q) \in Nat \ {0}
  BY EmptySeq
<1>2. \A i \in 1 .. Len(q) - 1 : q[i] \in S
  BY <1>1, ElementOfSeq
<1>. DEFINE n == Len(q) - 1
<1>3. n \in Nat /\ Front(q) = SubSeq(q, 1, n)
  BY <1>1 DEF Front
<1>4. \A i \in 1 .. n : q[i] \in S
  BY <1>2
<1>. HIDE DEF n
<1>5. /\ SubSeq(q, 1, n) \in Seq(S)
      /\ Len(SubSeq(q, 1, n)) = IF 1 <= n THEN n - 1 + 1 ELSE 0
      /\ \A i \in 1 .. n - 1 + 1 : SubSeq(q, 1, n)[i] = q[1 + i - 1]
  BY <1>3, <1>4, SubSeqProperties
<1>6. Front(q) \in Seq(S) /\ Len(Front(q)) = n /\ \A i \in 1 .. n : Front(q)[i] = q[i]
  <2>. DEFINE f == SubSeq(q, 1, n)
  <2>1. f \in Seq(S) /\ Len(f) = IF 1 <= n THEN n - 1 + 1 ELSE 0
    BY <1>5
  <2>2. \A i \in 1 .. n - 1 + 1 : f[i] = q[1 + i - 1]
    BY <1>5
  <2>. HIDE DEF f
  <2>3. Len(f) = n /\ \A i \in 1 .. n : f[i] = q[i]
    BY <2>1, <2>2, <1>3
  <2>. QED
    BY <2>1, <2>3, <1>3 DEF f
<1>. QED
  BY <1>1, <1>6 DEF n

\* An element is appended and taken off again.
LEMMA FrontOfAppend ==
  ASSUME NEW S, NEW q \in Seq(S), NEW e \in S
  PROVE  Front(Append(q, e)) = q
<1>1. /\ Append(q, e) \in Seq(S) /\ Append(q, e) # << >> /\ Len(Append(q, e)) = Len(q) + 1
      /\ \A i \in 1 .. Len(q) : Append(q, e)[i] = q[i]
  BY AppendProperties
<1>2. Len(q) \in Nat
  BY LenProperties
<1>. DEFINE a == Append(q, e)
<1>b. a \in Seq(S) /\ a # << >> /\ Len(a) = Len(q) + 1 /\ \A i \in 1 .. Len(q) : a[i] = q[i]
  BY <1>1
<1>. HIDE DEF a
<1>c. /\ Front(a) \in Seq(S) /\ Len(Front(a)) = Len(a) - 1
      /\ \A i \in 1 .. Len(a) - 1 : Front(a)[i] = a[i]
  BY <1>b, FrontOfQueue
<1>3. Front(a) \in Seq(S) /\ Len(Front(a)) = Len(q) /\ \A i \in 1 .. Len(q) : Front(a)[i] = q[i]
  BY <1>b, <1>c, <1>2
<1>4. Front(a) = q
  BY <1>3, SeqEqual
<1>. QED
  BY <1>4 DEF a

\* A sequence is its head before its tail.
LEMMA HeadBeforeTail ==
  ASSUME NEW S, NEW q \in Seq(S), q # << >>
  PROVE  <<Head(q)>> \o Tail(q) = q
<1>1. Head(q) \in S /\ Head(q) = q[1]
  BY HeadTailProperties
<1>2. /\ <<Head(q)>> \o Tail(q) \in Seq(S) /\ Len(<<Head(q)>> \o Tail(q)) = Len(q)
      /\ (<<Head(q)>> \o Tail(q))[1] = q[1]
      /\ \A i \in 2 .. Len(q) : (<<Head(q)>> \o Tail(q))[i] = q[i]
  BY <1>1, ReplaceHead
<1>3. Len(q) \in Nat
  BY LenProperties
<1>4. \A i \in 1 .. Len(q) : (<<Head(q)>> \o Tail(q))[i] = q[i]
  BY <1>2, <1>3
<1>. QED
  BY <1>2, <1>4, SeqEqual

\* The positions of a line, and of the queue it stands for.
LEMMA LineType ==
  ASSUME Types, Stages, NEW c \in CPU
  PROVE  /\ Line(c) \in Seq(Process) /\ Len(Line(c)) \in Nat
         /\ DOMAIN Line(c) = 1 .. Len(Line(c))
         /\ queue[c] \in Seq(Process) /\ Len(queue[c]) \in Nat
         /\ DOMAIN queue[c] = 1 .. Len(queue[c])
<1>1. queue[c] \in Seq(Process)
  BY DEF Types
<1>2. Line(c) \in Seq(Process)
  <2>1. CASE "add" \in Stage(c)
    <3>1. currentProcess[c] \in Process
      BY <2>1 DEF Stages, StagesAt, Stage
    <3>2. <<currentProcess[c]>> \o queue[c] \in Seq(Process)
      BY <1>1, <3>1, PushHead
    <3>. QED
      BY <2>1, <3>2, LineOfStage
  <2>2. CASE "add" \notin Stage(c) /\ "pick" \in Stage(c) /\ currentProcess[c] \in Process
    <3>1. queue[c] # << >>
      BY <2>2 DEF Stages, StagesAt, Stage
    <3>2. Front(queue[c]) \in Seq(Process)
      BY <1>1, <3>1, FrontOfQueue
    <3>3. <<currentProcess[c]>> \o Front(queue[c]) \in Seq(Process)
      BY <2>2, <3>2, PushHead
    <3>. QED
      BY <2>2, <3>3, LineOfStage
  <2>3. CASE "add" \notin Stage(c) /\ ("pick" \notin Stage(c) \/ currentProcess[c] \notin Process)
    BY <1>1, <2>3, LineOfStage
  <2>. QED
    BY <2>1, <2>2, <2>3
<1>. QED
  BY <1>1, <1>2, LenProperties

LEMMA LineKept ==
  ASSUME NEW c \in CPU, Stage(c)' = Stage(c), queue'[c] = queue[c],
         currentProcess'[c] = currentProcess[c]
  PROVE  Line(c)' = Line(c)
<1>1. \A s \in Section : Open(c, s)' <=> Open(c, s)
  BY DEF Stage
<1>2. (Open(c, "add")' <=> Open(c, "add")) /\ (Open(c, "pick")' <=> Open(c, "pick"))
  BY <1>1 DEF Section
<1>. QED
  BY <1>2 DEF Line

LEMMA LinesKept ==
  ASSUME Lines, \A d \in CPU : Line(d)' = Line(d), UNCHANGED capacity
  PROVE  Lines'
BY DEF Lines

LEMMA PendingKept ==
  ASSUME Pending, \A d \in CPU : Line(d)' = Line(d), UNCHANGED <<created, creator>>
  PROVE  Pending'
<1>1. \A x : InLine(x)' <=> InLine(x)
  BY DEF InLine
<1>. QED
  BY <1>1 DEF Pending, IsPending

LEMMA LocksKept ==
  ASSUME Locks, \A d \in CPU : Stage(d)' = Stage(d), UNCHANGED <<QueueLock, creator>>
  PROVE  Locks'
BY DEF Locks, Adders

\* The frames of a CPU that has made no process current yet.
NoneYet(c) == currentProcess[c] = NoProcess =>
                \A i \in DOMAIN exec[c].frames : exec[c].frames[i] \in {"test", "lock", "choose"}

LEMMA StagesKept ==
  ASSUME Stages, \A d \in CPU : Stage(d)' = Stage(d), UNCHANGED <<queue, currentProcess>>,
         \A d \in CPU : NoneYet(d)'
  PROVE  Stages'
<1>1. \A d \in CPU : Line(d)' = Line(d)
  BY LineKept
<1>2. \A d \in CPU : \A s \in {"erase", "add", "pick"} : Open(d, s)' <=> Open(d, s)
  BY DEF Stage, Section
<1>. QED
  BY <1>1, <1>2 DEF Stages, StagesAt, NoneYet

\* A step that changes a stack, but no stage, no queue and no current process.
LEMMA QuietStep ==
  ASSUME IInv, \A d \in CPU : Stage(d)' = Stage(d), Types', Nesting', \A d \in CPU : NoneYet(d)',
         UNCHANGED <<queue, capacity, QueueLock, currentProcess, created, creator>>
  PROVE  IInv' /\ \A d \in CPU : Line(d)' = Line(d)
<1>1. \A d \in CPU : Line(d)' = Line(d)
  BY LineKept
<1>. QED
  BY <1>1, LinesKept, PendingKept, LocksKept, StagesKept DEF IInv

-----------------------------------------------------------------------------
(* The invariant holds at the start and is kept by every step.             *)

LEMMA InitIInv == Init => IInv
<1>. SUFFICES ASSUME Init PROVE IInv
  OBVIOUS
<1>1. \A c \in CPU : exec[c].frames = << >> /\ DOMAIN exec[c].frames = {}
  BY DEF Init, Fresh
<1>2. \A c \in CPU : Stage(c) = {} /\ Line(c) = queue[c]
  BY <1>1 DEF Stage, Line, Open
<1>3. Types
  <2>1. KernelStage2 \in Process /\ 0 \in CPU
    BY CPUAssumption DEF Process, CPU
  <2>2. queue \in [CPU -> Seq(Process)] /\ capacity \in [CPU -> Nat]
    BY <2>1 DEF Init
  <2>3. \A p \in Someone : Fresh(p) \in Stack
    BY DEF Fresh, Stack
  <2>4. context \in [Process \cup Idle -> Stack] /\ exec \in [CPU -> Stack]
    BY <2>3 DEF Init, Someone
  <2>5. TimeSlice \in [Process \cup Idle -> 0 .. (SliceWord - 1)]
    BY SliceAssumption DEF Init
  <2>6. creator \in [Creators -> Creation]
    BY <2>1 DEF Init, NotCreating, Creation
  <2>. QED
    BY <2>1, <2>2, <2>4, <2>5, <2>6 DEF Init, Types, Someone
<1>4. Nesting
  BY <1>1 DEF Init, Fresh, Nesting, NestedStacks, SavedStacks
<1>5. Locks
  BY <1>2 DEF Init, Locks, Adders, NotCreating
<1>6. Stages
  <2>1. NoProcess \notin Process
    BY ProcessAssumption
  <2>. QED
    BY <1>1, <2>1 DEF Init, Stages, StagesAt, Open
<1>7. Lines
  <2>1. \A c \in CPU : c # 0 => DOMAIN Line(c) = {}
    BY <1>2 DEF Init
  <2>2. \A c \in CPU : c = 0 => DOMAIN Line(c) = {1} /\ Len(Line(c)) = 1
    BY <1>2 DEF Init
  <2>3. \A c \in CPU : Line(c) # << >> => c = 0
    BY <1>2 DEF Init
  <2>. QED
    BY <1>2, <2>1, <2>2, <2>3 DEF Init, Lines
<1>8. Pending
  <2>1. \A p \in Creators : ~ IsPending(p) /\ creator[p] = NotCreating
    BY DEF Init, NotCreating, IsPending
  <2>2. KernelStage2 \in Process /\ 0 \in CPU
    BY CPUAssumption DEF Process, CPU
  <2>3. \A x : InLine(x) <=> x = KernelStage2
    BY <1>2, <2>2 DEF Init, InLine
  <2>. QED
    BY <2>1, <2>2, <2>3 DEF Init, Pending, NotCreating
<1>. QED
  BY <1>3, <1>4, <1>5, <1>6, <1>7, <1>8 DEF IInv

\* An interrupt.
LEMMA EnterInductive ==
  ASSUME IInv, NEW c \in CPU, Interrupt(c)
  PROVE  IInv' /\ (\A d \in CPU : Line(d)' = Line(d)) /\ UNCHANGED currentProcess
<1>1. Enter(c) /\ ipi' \in [CPU -> BOOLEAN]
  BY DEF Interrupt, Tick, SoftwareInterrupt, TakeIPI, IInv, Types
<1>2. exec' \in [CPU -> Stack] /\ NestedStacks' /\ \A d \in CPU : Stage(d)' = Stage(d)
  BY <1>1, EnterStack, StageAfterEnter DEF IInv, Nesting
<1>3. window' \in [CPU -> Nat]
  BY <1>1 DEF Enter, IInv, Types
<1>4. Types'
  BY <1>1, <1>2, <1>3 DEF Enter, IInv, Types
<1>5. SavedStacks'
  BY <1>1 DEF Enter, IInv, Nesting, SavedStacks
<1>6. ASSUME NEW d \in CPU PROVE NoneYet(d)'
  <2>1. CASE d = c
    <3>. SUFFICES ASSUME currentProcess[c] = NoProcess, NEW i \in DOMAIN exec'[c].frames
                  PROVE  exec'[c].frames[i] \in {"test", "lock", "choose"}
      BY <1>1, <2>1 DEF NoneYet, Enter
    <3>1. DOMAIN exec[c].frames = 1 .. Len(exec[c].frames) /\ Len(exec[c].frames) \in Nat
      BY StackOfCPU DEF IInv
    <3>2. CASE i = 1
      BY <1>1, <3>2, EnterStack DEF IInv
    <3>3. CASE i # 1
      <4>1. i - 1 \in DOMAIN exec[c].frames /\ exec'[c].frames[i] = exec[c].frames[i - 1]
        BY <1>1, <3>1, <3>3, EnterStack DEF IInv
      <4>. QED
        BY <4>1 DEF IInv, Stages, StagesAt
    <3>. QED
      BY <3>2, <3>3
  <2>2. CASE d # c
    BY <1>1, <2>2, EnterStack DEF IInv, NoneYet, Stages, StagesAt, Enter
  <2>. QED
    BY <2>1, <2>2
<1>7. UNCHANGED <<queue, capacity, QueueLock, currentProcess, created, creator>>
  BY <1>1 DEF Enter
<1>. QED
  BY <1>2, <1>4, <1>5, <1>6, <1>7, QuietStep DEF Nesting

LEMMA TestSliceInductive ==
  ASSUME IInv, NEW c \in CPU, TestSlice(c)
  PROVE  IInv' /\ (\A d \in CPU : Line(d)' = Line(d)) /\ UNCHANGED currentProcess
<1>1. PICK pc \in {"tick", "lock"} : Goto(c, pc) /\ (currentProcess[c] = NoProcess => pc = "lock")
  BY DEF TestSlice
<1>2. exec[c].frames # << >> /\ Head(exec[c].frames) \in Waiting /\ pc \in Waiting
      /\ pc \in Handler
  BY DEF TestSlice, At, Waiting, Handler
<1>3. exec' \in [CPU -> Stack] /\ NestedStacks' /\ \A d \in CPU : Stage(d)' = Stage(d)
  BY <1>1, <1>2, GotoStack, StageWhileWaiting DEF IInv, Nesting
<1>4. Types'
  BY <1>3 DEF TestSlice, IInv, Types
<1>5. SavedStacks'
  BY DEF TestSlice, IInv, Nesting, SavedStacks
<1>6. ASSUME NEW d \in CPU PROVE NoneYet(d)'
  BY <1>1, <1>2, GotoStack DEF TestSlice, IInv, NoneYet, Stages, StagesAt
<1>7. UNCHANGED <<queue, capacity, QueueLock, currentProcess, created, creator>>
  BY DEF TestSlice
<1>. QED
  BY <1>3, <1>4, <1>5, <1>6, <1>7, QuietStep DEF Nesting

\* A handler that returns from a CPU without a current process.
LEMMA NoneYetAfterReturn ==
  ASSUME IInv, NEW c \in CPU, Return(c), exec[c].frames # << >>, UNCHANGED currentProcess,
         NEW d \in CPU
  PROVE  NoneYet(d)'
<1>1. CASE d = c
  <2>1. DOMAIN exec[c].frames = 1 .. Len(exec[c].frames) /\ Len(exec[c].frames) \in Nat
    BY StackOfCPU DEF IInv
  <2>2. \A i \in DOMAIN exec'[c].frames : i + 1 \in DOMAIN exec[c].frames
                                          /\ exec'[c].frames[i] = exec[c].frames[i + 1]
    BY <2>1, ReturnStack DEF IInv
  <2>. QED
    BY <1>1, <2>2 DEF NoneYet, IInv, Stages, StagesAt
<1>2. CASE d # c
  BY <1>2, ReturnStack DEF IInv, NoneYet, Stages, StagesAt
<1>. QED
  BY <1>1, <1>2

LEMMA SpendSliceInductive ==
  ASSUME IInv, NEW c \in CPU, SpendSlice(c)
  PROVE  IInv' /\ (\A d \in CPU : Line(d)' = Line(d)) /\ UNCHANGED currentProcess
<1>1. exec[c].frames # << >> /\ Head(exec[c].frames) \in Waiting /\ Return(c)
  BY DEF SpendSlice, At, Waiting
<1>2. exec' \in [CPU -> Stack] /\ NestedStacks' /\ \A d \in CPU : Stage(d)' = Stage(d)
  BY <1>1, ReturnStack, StageAfterReturn DEF IInv, Nesting
<1>3. TimeSlice' \in [Process \cup Idle -> 0 .. (SliceWord - 1)]
  <2>1. \A t \in Int : t % SliceWord \in 0 .. (SliceWord - 1)
    BY SliceAssumption
  <2>2. SliceWord \in Nat
    BY SliceAssumption
  <2>3. ASSUME NEW p \in Process \cup Idle PROVE (TimeSlice[p] - 1) % SliceWord \in 0 .. (SliceWord - 1)
    <3>1. TimeSlice[p] \in 0 .. (SliceWord - 1)
      BY DEF IInv, Types
    <3>2. TimeSlice[p] - 1 \in Int
      BY <3>1, <2>2
    <3>. QED
      BY <3>2, <2>1, Zenon
  <2>. QED
    BY <2>3 DEF SpendSlice, IInv, Types
<1>4. Types'
  BY <1>2, <1>3 DEF SpendSlice, IInv, Types
<1>5. SavedStacks'
  BY DEF SpendSlice, IInv, Nesting, SavedStacks
<1>6. ASSUME NEW d \in CPU PROVE NoneYet(d)'
  BY <1>1, NoneYetAfterReturn DEF SpendSlice
<1>7. UNCHANGED <<queue, capacity, QueueLock, currentProcess, created, creator>>
  BY DEF SpendSlice
<1>. QED
  BY <1>2, <1>4, <1>5, <1>6, <1>7, QuietStep DEF Nesting

\* A CPU that a step does not touch.
LEMMA ElsewhereKept ==
  ASSUME Stages, NEW d \in CPU, Stage(d)' = Stage(d), queue'[d] = queue[d],
         currentProcess'[d] = currentProcess[d], exec'[d] = exec[d]
  PROVE  StagesAt(d)' /\ Line(d)' = Line(d)
<1>1. Line(d)' = Line(d)
  BY LineKept
<1>2. \A s \in {"erase", "add", "pick"} : Open(d, s)' <=> Open(d, s)
  BY DEF Open
<1>. QED
  BY <1>1, <1>2 DEF Stages, StagesAt

\* A step in the section keeps the lock.
LEMMA LocksInSection ==
  ASSUME Locks, NEW c \in CPU, \A d \in CPU \ {c} : Stage(d)' = Stage(d),
         Stage(c) # {}, Stage(c)' # {}, UNCHANGED <<QueueLock, creator>>
  PROVE  Locks'
BY DEF Locks, Adders

\* A step of the handler on a CPU without a current process.
LEMMA NoneYetAfterGoto ==
  ASSUME IInv, NEW c \in CPU, NEW pc \in Handler, exec[c].frames # << >>, Goto(c, pc),
         currentProcess'[c] = NoProcess =>
           currentProcess[c] = NoProcess /\ pc \in {"test", "lock", "choose"}
  PROVE  NoneYet(c)'
<1>1. /\ DOMAIN exec'[c].frames = DOMAIN exec[c].frames
      /\ exec'[c].frames[1] = pc
      /\ \A i \in DOMAIN exec[c].frames \ {1} : exec'[c].frames[i] = exec[c].frames[i]
  BY GotoStack DEF IInv
<1>. QED
  BY <1>1 DEF NoneYet, IInv, Stages, StagesAt

\* A step from the section: what is known of the CPU.
LEMMA FromSection ==
  ASSUME IInv, NEW c \in CPU, NEW s \in Section, At(c, s), NEW pc \in Handler, Goto(c, pc)
  PROVE  /\ Stage(c) = {s} /\ exec[c].frames # << >>
         /\ exec' \in [CPU -> Stack] /\ \A d \in CPU \ {c} : exec'[d] = exec[d]
         /\ NestedStacks'
         /\ Stage(c)' = {pc} \cap Section /\ \A d \in CPU \ {c} : Stage(d)' = Stage(d)
         /\ queue[c] \in Seq(Process)
<1>1. exec[c].frames # << >> /\ Head(exec[c].frames) = s
  BY DEF At
<1>2. s \notin Waiting
  BY DEF Waiting, Section
<1>3. Types /\ NestedStacks
  BY DEF IInv, Nesting
<1>4. Stage(c) = {s}
  BY <1>1, <1>2, <1>3, InnermostInSection
<1>5. exec' \in [CPU -> Stack] /\ \A d \in CPU \ {c} : exec'[d] = exec[d]
  BY <1>1, <1>3, GotoStack
<1>6. NestedStacks' /\ Stage(c)' = {pc} \cap Section /\ \A d \in CPU \ {c} : Stage(d)' = Stage(d)
  BY <1>1, <1>2, <1>3, StageAfterGoto
<1>. QED
  BY <1>1, <1>3, <1>4, <1>5, <1>6 DEF Types

\* The rest of the invariant after a step that keeps the lines.
LEMMA SectionStep ==
  ASSUME IInv, NEW c \in CPU, Types', Nesting', Locks', StagesAt(c)', Line(c)' = Line(c),
         \A d \in CPU \ {c} : exec'[d] = exec[d] /\ Stage(d)' = Stage(d)
                              /\ queue'[d] = queue[d] /\ currentProcess'[d] = currentProcess[d],
         UNCHANGED <<capacity, created, creator>>
  PROVE  IInv' /\ \A d \in CPU : Line(d)' = Line(d)
<1>1. \A d \in CPU \ {c} : StagesAt(d)' /\ Line(d)' = Line(d)
  BY ElsewhereKept DEF IInv
<1>2. \A d \in CPU : Line(d)' = Line(d)
  BY <1>1
<1>3. Stages'
  BY <1>1 DEF Stages
<1>. QED
  BY <1>2, <1>3, LinesKept, PendingKept DEF IInv

LEMMA TryLockInductive ==
  ASSUME IInv, NEW c \in CPU, TryLock(c)
  PROVE  IInv' /\ (\A d \in CPU : Line(d)' = Line(d)) /\ UNCHANGED currentProcess
<1>1. exec[c].frames # << >> /\ Head(exec[c].frames) \in Waiting
  BY DEF TryLock, At, Waiting
<1>2. SavedStacks'
  BY DEF TryLock, IInv, Nesting, SavedStacks
<1>3. CASE QueueLock[c] = 1
  <2>1. Return(c) /\ QueueLock' = QueueLock
    BY <1>3 DEF TryLock, IInv, Types
  <2>2. exec' \in [CPU -> Stack] /\ NestedStacks' /\ \A d \in CPU : Stage(d)' = Stage(d)
    BY <1>1, <2>1, ReturnStack, StageAfterReturn DEF IInv, Nesting
  <2>3. Types'
    BY <2>1, <2>2 DEF TryLock, IInv, Types
  <2>4. ASSUME NEW d \in CPU PROVE NoneYet(d)'
    BY <1>1, <2>1, NoneYetAfterReturn DEF TryLock
  <2>5. UNCHANGED <<queue, capacity, QueueLock, currentProcess, created, creator>>
    BY <2>1 DEF TryLock
  <2>. QED
    BY <1>2, <2>2, <2>3, <2>4, <2>5, QuietStep DEF Nesting
<1>4. CASE QueueLock[c] # 1
  <2>1. Goto(c, "choose") /\ "choose" \in Handler /\ "choose" \in Section
    BY <1>4 DEF TryLock, Handler, Section
  <2>2. Stage(c) = {} /\ Adders(c) = {}
    BY <1>4 DEF IInv, Locks
  <2>3. exec' \in [CPU -> Stack] /\ \A d \in CPU \ {c} : exec'[d] = exec[d]
    BY <1>1, <2>1, GotoStack DEF IInv
  <2>4. NestedStacks' /\ Stage(c)' = {"choose"} /\ \A d \in CPU \ {c} : Stage(d)' = Stage(d)
    BY <1>1, <2>1, <2>2, StageAfterGoto DEF IInv, Nesting
  <2>5. Line(c) = queue[c] /\ Line(c)' = queue[c]
    BY <2>2, <2>4, LineOfStage DEF TryLock, Line, Stage, Section
  <2>6. Types'
    BY <2>3 DEF TryLock, IInv, Types
  <2>7. Locks'
    <3>1. \A d \in CPU : Adders(d)' = Adders(d)
      BY DEF TryLock, Adders
    <3>2. QueueLock'[c] = 1 /\ \A d \in CPU \ {c} : QueueLock'[d] = QueueLock[d]
      BY DEF TryLock, IInv, Types
    <3>. QED
      BY <2>2, <2>4, <3>1, <3>2 DEF IInv, Locks
  <2>8. NoneYet(c)'
    BY <1>1, <2>1, NoneYetAfterGoto DEF TryLock
  <2>9. StagesAt(c)'
    <3>1. ~ Open(c, "erase")' /\ ~ Open(c, "add")' /\ ~ Open(c, "pick")'
      BY <2>4 DEF Stage, Section
    <3>. QED
      BY <3>1, <2>5, <2>8 DEF TryLock, StagesAt, NoneYet, IInv, Stages
  <2>. QED
    BY <1>2, <2>3, <2>4, <2>5, <2>6, <2>7, <2>9, SectionStep DEF TryLock, Nesting
<1>. QED
  BY <1>3, <1>4

LEMMA ChooseInductive ==
  ASSUME IInv, NEW c \in CPU, Choose(c)
  PROVE  /\ IInv'
         /\ \A d \in CPU : Line(d)' = Line(d)
         /\ \A d \in CPU : Running(d)' = Running(d)
<1>1. PICK pc \in {"release", "pick", "erase"} :
        /\ Goto(c, pc)
        /\ pc = "release" => /\ currentProcess[c] = NoProcess \/ queue[c] = << >>
                             /\ currentProcess' = [currentProcess EXCEPT ![c] = idleProcess[c]]
        /\ pc # "release" => queue[c] # << >> /\ UNCHANGED currentProcess
        /\ pc = "pick" => currentProcess[c] = idleProcess[c]
        /\ pc = "erase" => currentProcess[c] \in Process
        /\ TimeSlice' \in [Process \cup Idle -> 0 .. (SliceWord - 1)]
  <2>1. TimeSlice' = TimeSlice \/ TimeSlice' = [TimeSlice EXCEPT ![currentProcess[c]] = DefaultTimeSlice]
    BY DEF Choose
  <2>2. DefaultTimeSlice \in 0 .. (SliceWord - 1)
    BY SliceAssumption
  <2>3. TimeSlice' \in [Process \cup Idle -> 0 .. (SliceWord - 1)]
    BY <2>1, <2>2 DEF IInv, Types
  <2>. QED
    BY <2>3 DEF Choose
<1>2. At(c, "choose") /\ "choose" \in Section /\ pc \in Handler /\ pc \in Section
  BY DEF Choose, Handler, Section
<1>3. /\ Stage(c) = {"choose"} /\ exec[c].frames # << >>
      /\ exec' \in [CPU -> Stack] /\ \A d \in CPU \ {c} : exec'[d] = exec[d]
      /\ NestedStacks'
      /\ Stage(c)' = {pc} /\ \A d \in CPU \ {c} : Stage(d)' = Stage(d)
  BY <1>1, <1>2, FromSection
<1>4. Line(c) = queue[c]
  BY <1>3, LineOfStage
<1>5. idleProcess[c] \notin Process /\ idleProcess[c] # NoProcess /\ idleProcess[c] \in Idle
  BY ProcessAssumption DEF Idle
<1>6. pc = "release" => currentProcess[c] \notin Process
  BY <1>1, <1>4, ProcessAssumption DEF IInv, Stages, StagesAt
<1>7. Types'
  BY <1>1, <1>3, <1>5 DEF Choose, IInv, Types, Someone
<1>8. SavedStacks'
  BY DEF Choose, IInv, Nesting, SavedStacks
<1>9. Locks'
  BY <1>3, LocksInSection DEF Choose, IInv
<1>10. currentProcess'[c] = IF pc = "release" THEN idleProcess[c] ELSE currentProcess[c]
  BY <1>1 DEF IInv, Types
<1>11. Line(c)' = queue[c]
  <2>1. "add" \notin Stage(c)'
    BY <1>3
  <2>2. "pick" \in Stage(c)' => currentProcess'[c] \notin Process
    BY <1>1, <1>3, <1>5
  <2>3. ~ Open(c, "add")' /\ (Open(c, "pick")' => currentProcess'[c] \notin Process)
    BY <2>1, <2>2 DEF Stage, Section
  <2>. QED
    BY <2>3 DEF Line, Choose
<1>12. NoneYet(c)'
  BY <1>1, <1>2, <1>3, <1>5, <1>10, NoneYetAfterGoto, ProcessAssumption
<1>13. StagesAt(c)'
  <2>1. ~ Open(c, "add")' /\ (Open(c, "erase")' => pc = "erase") /\ (Open(c, "pick")' => pc = "pick")
    BY <1>3 DEF Stage, Section
  <2>2. UNCHANGED queue
    BY DEF Choose
  <2>3. currentProcess'[c] \in Process => Line(c)' # << >> /\ Head(Line(c)') = currentProcess'[c]
    BY <1>4, <1>5, <1>10, <1>11 DEF IInv, Stages, StagesAt
  <2>. QED
    BY <1>1, <1>5, <1>10, <1>12, <2>1, <2>2, <2>3 DEF StagesAt, NoneYet
<1>14. \A d \in CPU \ {c} : currentProcess'[d] = currentProcess[d]
  BY <1>1 DEF IInv, Types
<1>15. IInv' /\ \A d \in CPU : Line(d)' = Line(d)
  BY <1>3, <1>4, <1>7, <1>8, <1>9, <1>11, <1>13, <1>14, SectionStep DEF Choose, Nesting
<1>16. \A d \in CPU : Running(d)' = Running(d)
  BY <1>5, <1>6, <1>10, <1>14 DEF Running
<1>. QED
  BY <1>15, <1>16

LEMMA SaveAndEraseInductive ==
  ASSUME IInv, NEW c \in CPU, SaveAndErase(c)
  PROVE  IInv' /\ (\A d \in CPU : Line(d)' = Line(d)) /\ UNCHANGED currentProcess
<1>1. At(c, "erase") /\ "erase" \in Section /\ "add" \in Handler /\ Goto(c, "add")
  BY DEF SaveAndErase, Handler, Section
<1>2. /\ Stage(c) = {"erase"} /\ exec[c].frames # << >>
      /\ exec' \in [CPU -> Stack] /\ \A d \in CPU \ {c} : exec'[d] = exec[d]
      /\ NestedStacks'
      /\ Stage(c)' = {"add"} /\ \A d \in CPU \ {c} : Stage(d)' = Stage(d)
      /\ queue[c] \in Seq(Process)
  <2>1. {"add"} \cap Section = {"add"}
    BY DEF Section
  <2>. QED
    BY <1>1, <2>1, FromSection
<1>3. Line(c) = queue[c]
  BY <1>2, LineOfStage
<1>4. currentProcess[c] \in Process /\ queue[c] # << >> /\ Head(queue[c]) = currentProcess[c]
  BY <1>2, <1>3 DEF IInv, Stages, StagesAt, Stage
<1>5. /\ Tail(exec[c].frames) \in Seq(Handler)
      /\ \A i \in DOMAIN Tail(exec[c].frames) : Tail(exec[c].frames)[i] \notin Section
  <2>1. exec[c].frames \in Seq(Handler) /\ Head(exec[c].frames) = "erase"
        /\ DOMAIN exec[c].frames = 1 .. Len(exec[c].frames) /\ Len(exec[c].frames) \in Nat
    BY <1>1, StackOfCPU DEF IInv, At
  <2>2. Tail(exec[c].frames) \in Seq(Handler) /\ Len(Tail(exec[c].frames)) = Len(exec[c].frames) - 1
        /\ \A i \in 1 .. Len(Tail(exec[c].frames)) :
             Tail(exec[c].frames)[i] = exec[c].frames[i + 1]
    BY <1>2, <2>1, HeadTailProperties
  <2>3. DOMAIN Tail(exec[c].frames) = 1 .. Len(Tail(exec[c].frames))
    BY <2>2, LenProperties
  <2>4. \A i \in DOMAIN exec[c].frames \ {1} : exec[c].frames[i] \notin Section
    BY <1>2, <2>1, InnermostInSection DEF IInv, Nesting, Waiting
  <2>5. \A i \in DOMAIN Tail(exec[c].frames) : i + 1 \in DOMAIN exec[c].frames \ {1}
    BY <2>1, <2>2, <2>3
  <2>. QED
    BY <2>2, <2>3, <2>4, <2>5
<1>. DEFINE saved == [exec[c] EXCEPT !.frames = Tail(@)]
<1>6. saved \in Stack /\ saved.frames = Tail(exec[c].frames)
  BY <1>5 DEF IInv, Types, Stack
<1>7. context' = [context EXCEPT ![currentProcess[c]] = saved]
  BY DEF SaveAndErase
<1>. HIDE DEF saved
<1>8. context' \in [Process \cup Idle -> Stack]
  BY <1>6, <1>7 DEF IInv, Types
<1>9. SavedStacks'
  BY <1>5, <1>6, <1>7 DEF IInv, Nesting, SavedStacks, Types
<1>10. Tail(queue[c]) \in Seq(Process) /\ queue'[c] = Tail(queue[c])
       /\ queue' \in [CPU -> Seq(Process)] /\ \A d \in CPU \ {c} : queue'[d] = queue[d]
  <2>1. Tail(queue[c]) \in Seq(Process)
    BY <1>2, <1>4, HeadTailProperties
  <2>. QED
    BY <2>1 DEF SaveAndErase, IInv, Types
<1>11. Types'
  BY <1>2, <1>8, <1>10 DEF SaveAndErase, IInv, Types
<1>12. Locks'
  BY <1>2, LocksInSection DEF SaveAndErase, IInv
<1>13. Line(c)' = Line(c)
  <2>1. Open(c, "add")'
    BY <1>2 DEF Stage
  <2>2. Line(c)' = <<currentProcess[c]>> \o Tail(queue[c])
    BY <2>1, <1>10 DEF Line, SaveAndErase
  <2>. QED
    BY <1>2, <1>3, <1>4, <2>2, HeadBeforeTail
<1>14. NoneYet(c)'
  BY <1>4, ProcessAssumption DEF NoneYet, SaveAndErase
<1>15. StagesAt(c)'
  <2>1. ~ Open(c, "pick")'
    BY <1>2 DEF Stage, Section
  <2>. QED
    BY <1>3, <1>4, <1>13, <1>14, <2>1 DEF StagesAt, NoneYet, SaveAndErase
<1>16. UNCHANGED <<capacity, created, creator, currentProcess>>
  BY DEF SaveAndErase
<1>. QED
  BY <1>2, <1>9, <1>10, <1>11, <1>12, <1>13, <1>15, <1>16, SectionStep DEF Nesting

LEMMA RequeueInductive ==
  ASSUME IInv, NEW c \in CPU, Requeue(c)
  PROVE  IInv' /\ (\A d \in CPU : Line(d)' = Line(d)) /\ UNCHANGED currentProcess
<1>1. At(c, "add") /\ "add" \in Section /\ "pick" \in Handler /\ Goto(c, "pick")
  BY DEF Requeue, Handler, Section
<1>2. /\ Stage(c) = {"add"} /\ exec[c].frames # << >>
      /\ exec' \in [CPU -> Stack] /\ \A d \in CPU \ {c} : exec'[d] = exec[d]
      /\ NestedStacks'
      /\ Stage(c)' = {"pick"} /\ \A d \in CPU \ {c} : Stage(d)' = Stage(d)
      /\ queue[c] \in Seq(Process)
  <2>1. {"pick"} \cap Section = {"pick"}
    BY DEF Section
  <2>. QED
    BY <1>1, <2>1, FromSection
<1>3. Line(c) = <<currentProcess[c]>> \o queue[c]
  BY <1>2, LineOfStage
<1>4. currentProcess[c] \in Process
  BY <1>2 DEF IInv, Stages, StagesAt, Stage
<1>5. /\ Append(queue[c], currentProcess[c]) \in Seq(Process)
      /\ Append(queue[c], currentProcess[c]) # << >>
      /\ Len(Append(queue[c], currentProcess[c])) = Len(queue[c]) + 1
      /\ Append(queue[c], currentProcess[c])[Len(queue[c]) + 1] = currentProcess[c]
      /\ Front(Append(queue[c], currentProcess[c])) = queue[c]
  BY <1>2, <1>4, AppendProperties, FrontOfAppend
<1>6. queue'[c] = Append(queue[c], currentProcess[c]) /\ queue' \in [CPU -> Seq(Process)]
      /\ \A d \in CPU \ {c} : queue'[d] = queue[d]
  BY <1>5 DEF Requeue, AddBack, IInv, Types
<1>7. capacity' = capacity
  <2>1. Len(Line(c)) = Len(queue[c]) + 1 /\ Line(c) # << >> /\ Len(queue[c]) \in Nat
    BY <1>2, <1>3, <1>4, PushHead, LenProperties DEF IInv, Stages, StagesAt
  <2>2. Len(queue[c]) + 1 < capacity[c] /\ capacity[c] \in Nat
    BY <2>1 DEF IInv, Lines, Types
  <2>3. GrownCapacity(Len(queue[c]) + 1, capacity[c]) = capacity[c]
    BY <2>1, <2>2 DEF GrownCapacity
  <2>. QED
    BY <2>3 DEF Requeue, AddBack, IInv, Types
<1>8. Types'
  BY <1>2, <1>6, <1>7 DEF Requeue, IInv, Types
<1>9. SavedStacks'
  BY DEF Requeue, IInv, Nesting, SavedStacks
<1>10. Locks'
  BY <1>2, LocksInSection DEF Requeue, IInv
<1>11. Line(c)' = Line(c)
  <2>1. Open(c, "pick")' /\ ~ Open(c, "add")'
    BY <1>2 DEF Stage, Section
  <2>2. UNCHANGED currentProcess
    BY DEF Requeue
  <2>3. Line(c)' = <<currentProcess[c]>> \o Front(queue'[c])
    BY <1>4, <2>1, <2>2 DEF Line, Front
  <2>. QED
    BY <1>3, <1>5, <1>6, <2>3
<1>12. NoneYet(c)'
  BY <1>4, ProcessAssumption DEF NoneYet, Requeue
<1>13. StagesAt(c)'
  <2>1. ~ Open(c, "erase")' /\ ~ Open(c, "add")'
    BY <1>2 DEF Stage, Section
  <2>2. queue'[c] # << >> /\ queue'[c][Len(queue'[c])] = currentProcess[c]
    BY <1>5, <1>6
  <2>3. Line(c)' # << >> /\ Head(Line(c)') = currentProcess[c]
    BY <1>4, <1>11 DEF IInv, Stages, StagesAt
  <2>4. UNCHANGED currentProcess
    BY DEF Requeue
  <2>. QED
    BY <1>12, <2>1, <2>2, <2>3, <2>4 DEF StagesAt, NoneYet
<1>14. UNCHANGED <<capacity, created, creator, currentProcess>>
  BY <1>7 DEF Requeue
<1>. QED
  BY <1>2, <1>6, <1>8, <1>9, <1>10, <1>11, <1>13, <1>14, SectionStep DEF Nesting

LEMMA ReleaseInductive ==
  ASSUME IInv, NEW c \in CPU, Release(c)
  PROVE  IInv' /\ (\A d \in CPU : Line(d)' = Line(d)) /\ UNCHANGED currentProcess
<1>1. At(c, "release") /\ "release" \in Section /\ "switch" \in Handler /\ Goto(c, "switch")
      /\ "switch" \notin Section
  BY DEF Release, Handler, Section
<1>2. /\ Stage(c) = {"release"} /\ exec[c].frames # << >>
      /\ exec' \in [CPU -> Stack] /\ \A d \in CPU \ {c} : exec'[d] = exec[d]
      /\ NestedStacks'
      /\ Stage(c)' = {} /\ \A d \in CPU \ {c} : Stage(d)' = Stage(d)
  <2>1. {"switch"} \cap Section = {}
    BY DEF Section
  <2>. QED
    BY <1>1, <2>1, FromSection
<1>3. Line(c)' = Line(c)
  <2>1. ~ Open(c, "add")' /\ ~ Open(c, "pick")'
    BY <1>2 DEF Stage, Section
  <2>2. Line(c)' = queue[c]
    BY <2>1 DEF Line, Release
  <2>. QED
    BY <1>2, <2>2, LineOfStage
<1>4. Types'
  BY <1>2 DEF Release, IInv, Types
<1>5. SavedStacks'
  BY DEF Release, IInv, Nesting, SavedStacks
<1>6. Locks'
  <2>1. \A d \in CPU : Adders(d)' = Adders(d)
    BY DEF Release, Adders
  <2>2. QueueLock'[c] = 0 /\ \A d \in CPU \ {c} : QueueLock'[d] = QueueLock[d]
    BY DEF Release, IInv, Types
  <2>3. Adders(c) = {}
    BY <1>2 DEF IInv, Locks
  <2>. QED
    BY <1>2, <2>1, <2>2, <2>3 DEF IInv, Locks
<1>7. currentProcess[c] # NoProcess /\ UNCHANGED currentProcess
  <2>1. Open(c, "release")
    BY <1>2 DEF Stage
  <2>. QED
    BY <2>1 DEF Open, IInv, Stages, StagesAt, Release
<1>8. StagesAt(c)'
  <2>1. ~ Open(c, "erase")' /\ ~ Open(c, "add")' /\ ~ Open(c, "pick")'
    BY <1>2 DEF Stage, Section
  <2>. QED
    BY <1>3, <1>7, <2>1 DEF StagesAt, IInv, Stages
<1>. QED
  BY <1>2, <1>3, <1>4, <1>5, <1>6, <1>7, <1>8, SectionStep DEF Release, Nesting

\* The context that is switched to has no handler in the section.
LEMMA SwitchInductive ==
  ASSUME IInv, NEW c \in CPU, Switch(c)
  PROVE  IInv' /\ (\A d \in CPU : Line(d)' = Line(d)) /\ UNCHANGED currentProcess
<1>1. exec[c].frames # << >> /\ Head(exec[c].frames) = "switch" /\ "switch" \notin Waiting
      /\ "switch" \notin Section
  BY DEF Switch, At, Waiting, Section
<1>2. Stage(c) = {}
  BY <1>1, InnermostInSection DEF IInv, Nesting
<1>3. currentProcess[c] # NoProcess
  <2>1. 1 \in DOMAIN exec[c].frames /\ exec[c].frames[1] = "switch"
    BY <1>1, StackOfCPU DEF IInv
  <2>. QED
    BY <2>1 DEF IInv, Stages, StagesAt
<1>4. currentProcess[c] \in Process \cup Idle
  BY <1>3 DEF IInv, Types, Idle
<1>5. exec'[c] = context[currentProcess[c]] /\ exec' \in [CPU -> Stack]
      /\ \A d \in CPU \ {c} : exec'[d] = exec[d]
  BY <1>4 DEF Switch, IInv, Types
<1>6. \A i \in DOMAIN exec'[c].frames : exec'[c].frames[i] \notin Section
  BY <1>4, <1>5 DEF IInv, Nesting, SavedStacks
<1>7. \A d \in CPU : Stage(d)' = Stage(d)
  BY <1>2, <1>5, <1>6 DEF Stage, Open
<1>8. NestedStacks'
  BY <1>5, <1>6 DEF IInv, Nesting, NestedStacks
<1>9. SavedStacks'
  BY DEF Switch, IInv, Nesting, SavedStacks
<1>10. Types'
  BY <1>5 DEF Switch, IInv, Types
<1>11. ASSUME NEW d \in CPU PROVE NoneYet(d)'
  BY <1>3, <1>5 DEF Switch, NoneYet, IInv, Stages, StagesAt
<1>12. UNCHANGED <<queue, capacity, QueueLock, currentProcess, created, creator>>
  BY DEF Switch
<1>. QED
  BY <1>7, <1>8, <1>9, <1>10, <1>11, <1>12, QuietStep DEF Nesting

\* The head of a sequence goes to its end.
LEMMA HeadToEnd ==
  ASSUME NEW S, NEW q \in Seq(S), q # << >>
  PROVE  /\ Append(Tail(q), Head(q)) \in Seq(S)
         /\ Append(Tail(q), Head(q)) # << >>
         /\ Len(Append(Tail(q), Head(q))) = Len(q)
         /\ \A i \in 1 .. Len(q) : Append(Tail(q), Head(q))[i] = q[IF i = Len(q) THEN 1 ELSE i + 1]
<1>1. /\ Head(q) \in S /\ Head(q) = q[1] /\ Tail(q) \in Seq(S) /\ Len(Tail(q)) = Len(q) - 1
      /\ \A i \in 1 .. Len(Tail(q)) : Tail(q)[i] = q[i + 1]
  BY HeadTailProperties
<1>. DEFINE t == Tail(q)
            h == Head(q)
<1>2. h \in S /\ h = q[1] /\ t \in Seq(S) /\ Len(t) = Len(q) - 1 /\ \A i \in 1 .. Len(t) : t[i] = q[i + 1]
  BY <1>1
<1>3. Len(q) \in Nat \ {0}
  BY EmptySeq
<1>. HIDE DEF t, h
<1>4. /\ Append(t, h) \in Seq(S) /\ Append(t, h) # << >> /\ Len(Append(t, h)) = Len(t) + 1
      /\ \A i \in 1 .. Len(t) : Append(t, h)[i] = t[i]
      /\ Append(t, h)[Len(t) + 1] = h
  BY <1>2, AppendProperties
<1>. DEFINE a == Append(t, h)
<1>5. /\ a \in Seq(S) /\ a # << >> /\ Len(a) = Len(t) + 1
      /\ \A i \in 1 .. Len(t) : a[i] = t[i]
      /\ a[Len(t) + 1] = h
  BY <1>4
<1>. HIDE DEF a
<1>6. Len(a) = Len(q)
  BY <1>2, <1>3, <1>5
<1>7. ASSUME NEW i \in 1 .. Len(q) PROVE a[i] = q[IF i = Len(q) THEN 1 ELSE i + 1]
  <2>1. CASE i = Len(q)
    BY <1>2, <1>3, <1>5, <2>1
  <2>2. CASE i # Len(q)
    BY <1>2, <1>3, <1>5, <2>2
  <2>. QED
    BY <2>1, <2>2
<1>. QED
  BY <1>5, <1>6, <1>7 DEF a, t, h

\* An element put before a sequence is its head.
LEMMA PushedHead ==
  ASSUME NEW S, NEW f \in Seq(S), NEW e \in S
  PROVE  Head(<<e>> \o f) = e /\ Tail(<<e>> \o f) = f
<1>. DEFINE g == <<e>> \o f
<1>1. g \in Seq(S) /\ Len(g) = Len(f) + 1 /\ g[1] = e /\ \A i \in 1 .. Len(f) : g[i + 1] = f[i]
  BY PushHead
<1>. HIDE DEF g
<1>2. Len(f) \in Nat /\ g # << >>
  BY <1>1, LenProperties, EmptySeq
<1>3. Head(g) = g[1] /\ Tail(g) \in Seq(S) /\ Len(Tail(g)) = Len(g) - 1
      /\ \A i \in 1 .. Len(Tail(g)) : Tail(g)[i] = g[i + 1]
  BY <1>1, <1>2, HeadTailProperties
<1>4. Len(Tail(g)) = Len(f) /\ \A i \in 1 .. Len(f) : Tail(g)[i] = f[i]
  BY <1>1, <1>2, <1>3
<1>5. Tail(g) = f
  BY <1>3, <1>4, SeqEqual
<1>. QED
  BY <1>1, <1>3, <1>5 DEF g

\* A sequence is its last element behind the others.
LEMMA LastBehindFront ==
  ASSUME NEW S, NEW q \in Seq(S), q # << >>
  PROVE  Append(Front(q), q[Len(q)]) = q
<1>1. /\ Front(q) \in Seq(S) /\ Len(Front(q)) = Len(q) - 1
      /\ \A i \in 1 .. Len(q) - 1 : Front(q)[i] = q[i]
      /\ Len(q) \in Nat \ {0}
  BY FrontOfQueue
<1>2. q[Len(q)] \in S
  BY <1>1, ElementOfSeq
<1>. DEFINE f == Front(q)
            e == q[Len(q)]
            a == Append(f, e)
<1>3. f \in Seq(S) /\ e \in S /\ Len(f) = Len(q) - 1 /\ \A i \in 1 .. Len(q) - 1 : f[i] = q[i]
  BY <1>1, <1>2
<1>. HIDE DEF f
<1>4. /\ Append(f, e) \in Seq(S) /\ Len(Append(f, e)) = Len(f) + 1
      /\ \A i \in 1 .. Len(f) : Append(f, e)[i] = f[i]
      /\ Append(f, e)[Len(f) + 1] = e
  BY <1>3, AppendProperties
<1>5. a \in Seq(S) /\ Len(a) = Len(f) + 1 /\ (\A i \in 1 .. Len(f) : a[i] = f[i])
      /\ a[Len(f) + 1] = q[Len(q)]
  BY <1>4
<1>. HIDE DEF a
<1>6. Len(a) = Len(q) /\ \A i \in 1 .. Len(q) : a[i] = q[i]
  BY <1>1, <1>3, <1>5
<1>7. a = q
  BY <1>5, <1>6, SeqEqual
<1>. QED
  BY <1>7 DEF a, f

\* Sequence m has the elements of sequence l in other places.
Permutes(m, l) ==
    \E r \in [DOMAIN m -> DOMAIN l] :
      /\ \A i \in DOMAIN m : m[i] = l[r[i]]
      /\ \A i, j \in DOMAIN m : r[i] = r[j] => i = j
      /\ \A i \in DOMAIN l : \E j \in DOMAIN m : i = r[j]

\* The positions of a sequence whose head goes to its end.
LEMMA Rotation ==
  ASSUME NEW S, NEW l \in Seq(S), NEW m, l # << >>, m = Append(Tail(l), Head(l))
  PROVE  m # << >> /\ Len(m) = Len(l) /\ Permutes(m, l)
<1>1. Len(l) \in Nat \ {0} /\ DOMAIN l = 1 .. Len(l)
  BY EmptySeq, LenProperties
<1>2. m \in Seq(S) /\ m # << >> /\ Len(m) = Len(l)
      /\ \A i \in 1 .. Len(l) : m[i] = l[IF i = Len(l) THEN 1 ELSE i + 1]
  BY HeadToEnd
<1>3. DOMAIN m = 1 .. Len(l)
  BY <1>2, LenProperties
<1>. DEFINE n == Len(l)
            r == [i \in 1 .. n |-> IF i = n THEN 1 ELSE i + 1]
<1>4. n \in Nat \ {0} /\ DOMAIN l = 1 .. n /\ DOMAIN m = 1 .. n
  BY <1>1, <1>3
<1>5. \A i \in 1 .. n : m[i] = l[r[i]]
  BY <1>2
<1>. HIDE DEF n
<1>6. r \in [1 .. n -> 1 .. n]
  BY <1>4
<1>7. \A i, j \in 1 .. n : r[i] = r[j] => i = j
  BY <1>4
<1>8. ASSUME NEW i \in 1 .. n PROVE \E j \in 1 .. n : i = r[j]
  <2>1. CASE i = 1
    BY <1>4, <2>1
  <2>2. CASE i # 1
    <3>1. i - 1 \in 1 .. n /\ r[i - 1] = i
      BY <2>2, <1>4
    <3>. QED
      BY <3>1
  <2>. QED
    BY <2>1, <2>2
<1>. HIDE DEF r
<1>9. r \in [DOMAIN m -> DOMAIN l]
  BY <1>4, <1>6
<1>10. /\ \A i \in DOMAIN m : m[i] = l[r[i]]
       /\ \A i, j \in DOMAIN m : r[i] = r[j] => i = j
       /\ \A i \in DOMAIN l : \E j \in DOMAIN m : i = r[j]
  BY <1>4, <1>5, <1>7, <1>8
<1>11. Permutes(m, l)
  BY <1>9, <1>10, Zenon DEF Permutes
<1>. QED
  BY <1>2, <1>11

\* What becomes of the lines when the line of one CPU is rotated.
LEMMA RotatedLine ==
  ASSUME IInv, NEW c \in CPU, Line(c) # << >>,
         Line(c)' = Append(Tail(Line(c)), Head(Line(c))),
         \A d \in CPU \ {c} : Line(d)' = Line(d), UNCHANGED <<capacity, created, creator>>
  PROVE  Lines' /\ Pending'
<1>1. Line(c)' # << >> /\ Len(Line(c)') = Len(Line(c)) /\ Permutes(Line(c)', Line(c))
  <2>1. Line(c) \in Seq(Process)
    BY LineType DEF IInv
  <2>. QED
    BY <2>1, Rotation
<1>2. PICK r \in [DOMAIN Line(c)' -> DOMAIN Line(c)] :
           /\ \A i \in DOMAIN Line(c)' : Line(c)'[i] = Line(c)[r[i]]
           /\ \A i, j \in DOMAIN Line(c)' : r[i] = r[j] => i = j
           /\ \A i \in DOMAIN Line(c) : \E j \in DOMAIN Line(c)' : i = r[j]
  BY <1>1 DEF Permutes
<1>3. Lines'
  <2>1. ASSUME NEW d \in CPU, NEW e \in CPU, NEW i \in DOMAIN Line(d)', NEW j \in DOMAIN Line(e)',
               Line(d)'[i] = Line(e)'[j]
        PROVE  d = e /\ i = j
    <3>1. CASE d = c /\ e = c
      BY <2>1, <3>1, <1>2 DEF IInv, Lines
    <3>2. CASE d = c /\ e # c
      BY <2>1, <3>2, <1>2 DEF IInv, Lines
    <3>3. CASE d # c /\ e = c
      BY <2>1, <3>3, <1>2 DEF IInv, Lines
    <3>4. CASE d # c /\ e # c
      BY <2>1, <3>4 DEF IInv, Lines
    <3>. QED
      BY <3>1, <3>2, <3>3, <3>4
  <2>2. \A d \in CPU : Line(d)' # << >> => Len(Line(d)') < capacity'[d]
    BY <1>1 DEF IInv, Lines
  <2>. QED
    BY <2>1, <2>2 DEF Lines
<1>4. \A x : InLine(x)' <=> InLine(x)
  <2>1. \A x : (\E i \in DOMAIN Line(c)' : Line(c)'[i] = x) <=> (\E i \in DOMAIN Line(c) : Line(c)[i] = x)
    BY <1>2
  <2>. QED
    BY <2>1 DEF InLine
<1>5. Pending'
  BY <1>4 DEF Pending, IsPending, IInv
<1>. QED
  BY <1>3, <1>5

LEMMA PickInductive ==
  ASSUME IInv, NEW c \in CPU, Pick(c)
  PROVE  /\ IInv'
         /\ \A d \in CPU \ {c} : Line(d)' = Line(d) /\ Running(d)' = Running(d)
         /\ Line(c) # << >> /\ Line(c)' # << >>
         /\ IF Running(c) = NoProcess
            THEN Line(c)' = Line(c) /\ Running(c)' = Head(Line(c))
            ELSE /\ Line(c)' = Append(Tail(Line(c)), Head(Line(c)))
                 /\ Running(c)' = Head(Line(c)')
<1>1. At(c, "pick") /\ "pick" \in Section /\ "release" \in Handler /\ Goto(c, "release")
  BY DEF Pick, Handler, Section
<1>2. /\ Stage(c) = {"pick"} /\ exec[c].frames # << >>
      /\ exec' \in [CPU -> Stack] /\ \A d \in CPU \ {c} : exec'[d] = exec[d]
      /\ NestedStacks'
      /\ Stage(c)' = {"release"} /\ \A d \in CPU \ {c} : Stage(d)' = Stage(d)
      /\ queue[c] \in Seq(Process)
  <2>1. {"release"} \cap Section = {"release"}
    BY DEF Section
  <2>. QED
    BY <1>1, <2>1, FromSection
<1>3. queue[c] # << >> /\ (currentProcess[c] \in Process =>
                             queue[c][Len(queue[c])] = currentProcess[c])
  BY <1>2 DEF IInv, Stages, StagesAt, Stage
<1>4. Head(queue[c]) \in Process
  BY <1>2, <1>3, HeadTailProperties
<1>5. currentProcess' \in [CPU -> Someone] /\ currentProcess'[c] = Head(queue[c])
      /\ \A d \in CPU \ {c} : currentProcess'[d] = currentProcess[d]
  BY <1>4 DEF Pick, IInv, Types, Someone
<1>6. Types'
  <2>1. DefaultTimeSlice \in 0 .. (SliceWord - 1)
    BY SliceAssumption
  <2>2. TimeSlice' \in [Process \cup Idle -> 0 .. (SliceWord - 1)]
    BY <2>1 DEF Pick, IInv, Types
  <2>. QED
    BY <1>2, <1>4, <1>5, <2>2 DEF Pick, IInv, Types
<1>7. Nesting'
  BY <1>2 DEF Pick, IInv, Nesting, SavedStacks
<1>8. Locks'
  BY <1>2, LocksInSection DEF Pick, IInv
<1>9. Line(c)' = queue[c]
  <2>1. ~ Open(c, "add")' /\ ~ Open(c, "pick")'
    BY <1>2 DEF Stage, Section
  <2>. QED
    BY <2>1 DEF Line, Pick
<1>10. StagesAt(c)'
  <2>1. ~ Open(c, "erase")' /\ ~ Open(c, "add")' /\ ~ Open(c, "pick")'
    BY <1>2 DEF Stage, Section
  <2>. QED
    BY <1>3, <1>4, <1>5, <1>9, <2>1, ProcessAssumption DEF StagesAt
<1>11. \A d \in CPU \ {c} : StagesAt(d)' /\ Line(d)' = Line(d)
  BY <1>2, <1>5, ElsewhereKept DEF IInv, Pick
<1>12. Stages'
  BY <1>10, <1>11 DEF Stages
<1>13. \A d \in CPU \ {c} : Running(d)' = Running(d)
  BY <1>5 DEF Running
<1>14. Running(c)' = Head(queue[c])
  BY <1>4, <1>5 DEF Running
<1>15. UNCHANGED <<capacity, created, creator>>
  BY DEF Pick
<1>16. CASE currentProcess[c] \in Process
  <2>1. Line(c) = <<currentProcess[c]>> \o Front(queue[c])
    BY <1>2, <1>16, LineOfStage
  <2>2. Front(queue[c]) \in Seq(Process)
    BY <1>2, <1>3, FrontOfQueue
  <2>3. Head(Line(c)) = currentProcess[c] /\ Tail(Line(c)) = Front(queue[c])
    BY <1>16, <2>1, <2>2, PushedHead
  <2>4. Line(c)' = Append(Tail(Line(c)), Head(Line(c)))
    BY <1>2, <1>3, <1>9, <1>16, <2>3, LastBehindFront
  <2>5. Line(c) # << >>
    BY <1>16 DEF IInv, Stages, StagesAt
  <2>6. Lines' /\ Pending'
    BY <1>11, <1>15, <2>4, <2>5, RotatedLine
  <2>7. Running(c) # NoProcess
    BY <1>16, ProcessAssumption DEF Running
  <2>. QED
    BY <1>3, <1>6, <1>7, <1>8, <1>9, <1>11, <1>12, <1>13, <1>14, <2>4, <2>5, <2>6, <2>7 DEF IInv
<1>17. CASE currentProcess[c] \notin Process
  <2>1. Line(c) = queue[c] /\ \A d \in CPU : Line(d)' = Line(d)
    BY <1>2, <1>9, <1>11, <1>17, LineOfStage
  <2>2. Lines' /\ Pending'
    BY <1>15, <2>1, LinesKept, PendingKept DEF IInv
  <2>3. Running(c) = NoProcess
    BY <1>17 DEF Running
  <2>. QED
    BY <1>3, <1>6, <1>7, <1>8, <1>9, <1>12, <1>13, <1>14, <2>1, <2>2, <2>3 DEF IInv
<1>. QED
  BY <1>16, <1>17

\* A step of NewProcess that adds nothing to a queue.
LEMMA CreatorStep ==
  ASSUME IInv, Unchanged, UNCHANGED <<queue, capacity>>
  PROVE  /\ Nesting' /\ Stages' /\ Lines'
         /\ \A d \in CPU : Stage(d)' = Stage(d) /\ Line(d)' = Line(d)
<1>1. \A d \in CPU : Stage(d)' = Stage(d)
  BY DEF Unchanged, Stage, Open
<1>2. \A d \in CPU : Line(d)' = Line(d)
  BY <1>1, LineKept DEF Unchanged
<1>3. \A d \in CPU : StagesAt(d)'
  BY <1>1, ElsewhereKept DEF IInv, Unchanged
<1>4. Lines'
  BY <1>2, LinesKept DEF IInv
<1>5. Nesting'
  BY DEF IInv, Unchanged, Nesting, NestedStacks, SavedStacks
<1>. QED
  BY <1>1, <1>2, <1>3, <1>4, <1>5 DEF Stages

\* Process p goes on with the creation of the same child.
LEMMA PendingOnward ==
  ASSUME IInv, NEW p \in Creators, NEW r \in Creation, creator' = [creator EXCEPT ![p] = r],
         IsPending(p), r.pc \in {"scan", "lock", "cli", "add"}, r.child = creator[p].child,
         r.pc = "scan" => r.next \in CPU,
         \A d \in CPU : Line(d)' = Line(d), UNCHANGED created
  PROVE  Pending'
<1>1. creator'[p] = r /\ \A q \in Creators \ {p} : creator'[q] = creator[q]
  BY DEF IInv, Types
<1>2. \A q \in Creators : (IsPending(q)' <=> IsPending(q)) /\ creator'[q].child = creator[q].child
  BY <1>1 DEF IsPending
<1>3. \A x : InLine(x)' <=> InLine(x)
  BY DEF InLine
<1>4. \A x \in Process : InLine(x)' \/ (\E q \in Creators : IsPending(q)' /\ creator'[q].child = x)
                            <=> x \in created'
  BY <1>2, <1>3 DEF IInv, Pending
<1>5. \A q \in Creators :
         /\ creator'[q].pc = "no" => creator'[q] = NotCreating
         /\ creator'[q].pc = "scan" => creator'[q].next \in CPU
         /\ IsPending(q)' => creator'[q].child \in Process /\ ~ InLine(creator[q].child)'
  <2>. SUFFICES ASSUME NEW q \in Creators
                PROVE  /\ creator'[q].pc = "no" => creator'[q] = NotCreating
                       /\ creator'[q].pc = "scan" => creator'[q].next \in CPU
                       /\ IsPending(q)' => creator'[q].child \in Process
                                           /\ ~ InLine(creator[q].child)'
    OBVIOUS
  <2>1. IsPending(q)' => creator'[q].child \in Process /\ ~ InLine(creator[q].child)'
    BY <1>2, <1>3 DEF IInv, Pending
  <2>2. CASE q = p
    BY <1>1, <2>1, <2>2
  <2>3. CASE q # p
    BY <1>1, <2>1, <2>3 DEF IInv, Pending
  <2>. QED
    BY <2>2, <2>3
<1>6. \A q, s \in Creators :
         IsPending(q)' /\ IsPending(s)' /\ creator'[q].child = creator'[s].child => q = s
  BY <1>2 DEF IInv, Pending
<1>. QED
  BY <1>4, <1>5, <1>6 DEF Pending

LEMMA CreateProcessInductive ==
  ASSUME IInv, NEW c \in CPU, NEW p \in Creators, CreateProcess(c, p)
  PROVE  IInv' /\ (\A d \in CPU : Line(d)' = Line(d)) /\ UNCHANGED currentProcess
<1>1. /\ Nesting' /\ Stages' /\ Lines'
      /\ \A d \in CPU : Stage(d)' = Stage(d) /\ Line(d)' = Line(d)
  BY CreatorStep DEF CreateProcess
<1>2. PICK child \in NewProcesses \ created :
        /\ created' = created \cup {child}
        /\ creator' = [creator EXCEPT ![p] =
                         [pc |-> IF NumCPUs = 1 THEN "lock" ELSE "scan",
                          cpu |-> 0, next |-> 1, child |-> child]]
  BY DEF CreateProcess
<1>. DEFINE r == [pc |-> IF NumCPUs = 1 THEN "lock" ELSE "scan",
                  cpu |-> 0, next |-> 1, child |-> child]
<1>3. /\ r \in Creation /\ r.pc \in {"scan", "lock"} /\ r.child = child /\ child \in Process
      /\ r.pc = "scan" => r.next \in CPU
  BY CPUAssumption DEF Creation, CPU, Process
<1>4. creator'[p] = r /\ (\A q \in Creators \ {p} : creator'[q] = creator[q])
      /\ creator' \in [Creators -> Creation]
  BY <1>2, <1>3 DEF IInv, Types
<1>. HIDE DEF r
<1>5. Types'
  BY <1>2, <1>3, <1>4 DEF CreateProcess, Unchanged, IInv, Types
<1>6. \A d \in CPU : Adders(d)' = Adders(d)
  BY <1>3, <1>4 DEF CreateProcess, Adders
<1>7. Locks'
  BY <1>1, <1>6 DEF CreateProcess, IInv, Locks
<1>8. Pending'
  <2>1. ~ IsPending(p) /\ IsPending(p)' /\ creator'[p].child = child
    BY <1>3, <1>4 DEF IsPending, CreateProcess
  <2>2. \A q \in Creators \ {p} : (IsPending(q)' <=> IsPending(q)) /\ creator'[q].child = creator[q].child
    BY <1>4 DEF IsPending
  <2>3. \A x : InLine(x)' <=> InLine(x)
    BY <1>1 DEF InLine
  <2>4. ~ InLine(child) /\ \A q \in Creators : IsPending(q) => creator[q].child # child
    BY <1>2, <1>3 DEF IInv, Pending
  <2>5. \A x \in Process : InLine(x)' \/ (\E q \in Creators : IsPending(q)' /\ creator'[q].child = x)
                              <=> x \in created'
    BY <1>2, <2>1, <2>2, <2>3 DEF IInv, Pending
  <2>6. \A q \in Creators :
           /\ creator'[q].pc = "no" => creator'[q] = NotCreating
           /\ creator'[q].pc = "scan" => creator'[q].next \in CPU
           /\ IsPending(q)' => creator'[q].child \in Process /\ ~ InLine(creator[q].child)'
    <3>. SUFFICES ASSUME NEW q \in Creators
                  PROVE  /\ creator'[q].pc = "no" => creator'[q] = NotCreating
                         /\ creator'[q].pc = "scan" => creator'[q].next \in CPU
                         /\ IsPending(q)' => creator'[q].child \in Process
                                             /\ ~ InLine(creator[q].child)'
      OBVIOUS
    <3>1. CASE q = p
      BY <3>1, <1>3, <1>4, <2>1, <2>3, <2>4
    <3>2. CASE q # p
      BY <3>2, <1>4, <2>2, <2>3 DEF IInv, Pending
    <3>. QED
      BY <3>1, <3>2
  <2>7. \A q, s \in Creators :
           IsPending(q)' /\ IsPending(s)' /\ creator'[q].child = creator'[s].child => q = s
    <3>. SUFFICES ASSUME NEW q \in Creators, NEW s \in Creators, IsPending(q)', IsPending(s)',
                         creator'[q].child = creator'[s].child
                  PROVE  q = s
      OBVIOUS
    <3>1. CASE q # p /\ s # p
      BY <3>1, <2>2 DEF IInv, Pending
    <3>2. CASE q = p /\ s # p
      BY <3>2, <2>1, <2>2, <2>4
    <3>3. CASE q # p /\ s = p
      BY <3>3, <2>1, <2>2, <2>4
    <3>. QED
      BY <3>1, <3>2, <3>3
  <2>. QED
    BY <2>5, <2>6, <2>7 DEF Pending
<1>. QED
  BY <1>1, <1>5, <1>7, <1>8 DEF IInv, CreateProcess, Unchanged

LEMMA CompareQueuesInductive ==
  ASSUME IInv, NEW c \in CPU, NEW p \in Creators, CompareQueues(c, p)
  PROVE  IInv' /\ (\A d \in CPU : Line(d)' = Line(d)) /\ UNCHANGED currentProcess
<1>1. /\ Nesting' /\ Stages' /\ Lines'
      /\ \A d \in CPU : Stage(d)' = Stage(d) /\ Line(d)' = Line(d)
  BY CreatorStep DEF CompareQueues
<1>2. PICK best \in {creator[p].cpu, creator[p].next}, pc \in {"lock", "scan"} :
        /\ creator' = [creator EXCEPT ![p].cpu = best, ![p].next = creator[p].next + 1, ![p].pc = pc]
        /\ pc = "scan" => creator[p].next + 1 # NumCPUs
  BY DEF CompareQueues
<1>. DEFINE r == [creator[p] EXCEPT !.cpu = best, !.next = creator[p].next + 1, !.pc = pc]
<1>3. /\ creator[p] \in Creation /\ creator[p].next \in CPU /\ creator[p].pc = "scan"
  BY DEF CompareQueues, IInv, Types, Pending
<1>4. /\ r \in Creation /\ r.pc = pc /\ r.child = creator[p].child
      /\ r.pc = "scan" => r.next \in CPU
  <2>1. creator[p].next + 1 \in Nat
        /\ (creator[p].next + 1 # NumCPUs => creator[p].next + 1 \in CPU)
    BY <1>3, CPUAssumption DEF CPU
  <2>2. best \in CPU
    BY <1>3 DEF Creation
  <2>3. /\ r.pc = pc /\ r.child = creator[p].child /\ r.next = creator[p].next + 1 /\ r.cpu = best
        /\ r \in Creation
    BY <1>3, <2>1, <2>2 DEF Creation
  <2>. QED
    BY <1>2, <2>1, <2>3
<1>5. creator' = [creator EXCEPT ![p] = r]
  BY <1>2 DEF IInv, Types
<1>6. creator'[p] = r /\ (\A q \in Creators \ {p} : creator'[q] = creator[q])
      /\ creator' \in [Creators -> Creation]
  BY <1>4, <1>5 DEF IInv, Types
<1>. HIDE DEF r
<1>7. Types'
  BY <1>6 DEF CompareQueues, Unchanged, IInv, Types
<1>8. \A d \in CPU : Adders(d)' = Adders(d)
  BY <1>3, <1>4, <1>6 DEF Adders
<1>9. Locks'
  BY <1>1, <1>8 DEF CompareQueues, IInv, Locks
<1>10. Pending'
  BY <1>1, <1>3, <1>4, <1>5, PendingOnward DEF CompareQueues, IsPending
<1>. QED
  BY <1>1, <1>7, <1>9, <1>10 DEF IInv, CompareQueues, Unchanged

LEMMA LockQueueInductive ==
  ASSUME IInv, NEW c \in CPU, NEW p \in Creators, LockQueue(c, p)
  PROVE  IInv' /\ (\A d \in CPU : Line(d)' = Line(d)) /\ UNCHANGED currentProcess
<1>1. /\ Nesting' /\ Stages' /\ Lines'
      /\ \A d \in CPU : Stage(d)' = Stage(d) /\ Line(d)' = Line(d)
  BY CreatorStep DEF LockQueue
<1>0. creator[p] \in Creation /\ creator[p].pc = "lock"
  BY DEF LockQueue, IInv, Types
<1>. PICK k \in CPU : k = creator[p].cpu
  BY <1>0 DEF Creation
<1>. DEFINE r == [creator[p] EXCEPT !.pc = "cli"]
<1>2. creator[p] \in Creation /\ creator[p].pc = "lock" /\ k \in CPU
  BY <1>0
<1>3. r \in Creation /\ r.pc = "cli" /\ r.child = creator[p].child /\ r.cpu = k
  BY <1>2 DEF Creation
<1>4. creator' = [creator EXCEPT ![p] = r]
  BY DEF LockQueue, IInv, Types
<1>5. creator'[p] = r /\ (\A q \in Creators \ {p} : creator'[q] = creator[q])
      /\ creator' \in [Creators -> Creation]
  BY <1>3, <1>4 DEF IInv, Types
<1>6. QueueLock[k] = 0 /\ QueueLock'[k] = 1 /\ QueueLock' \in [CPU -> {0, 1}]
      /\ \A d \in CPU \ {k} : QueueLock'[d] = QueueLock[d]
  BY <1>2 DEF LockQueue, IInv, Types
<1>. HIDE DEF r
<1>7. Types'
  BY <1>5, <1>6 DEF LockQueue, Unchanged, IInv, Types
<1>8. Stage(k) = {} /\ Adders(k) = {}
  BY <1>2, <1>6 DEF IInv, Locks
<1>9. Adders(k)' = {p} /\ \A d \in CPU \ {k} : Adders(d)' = Adders(d)
  <2>1. p \in Adders(k)' /\ \A d \in CPU \ {k} : p \notin Adders(d) /\ p \notin Adders(d)'
    BY <1>2, <1>3, <1>5 DEF Adders
  <2>2. \A q \in Creators \ {p}, d \in CPU : q \in Adders(d)' <=> q \in Adders(d)
    BY <1>5 DEF Adders
  <2>3. \A d \in CPU : Adders(d) \subseteq Creators /\ Adders(d)' \subseteq Creators
    BY DEF Adders
  <2>4. Adders(k)' = {p}
    BY <1>2, <1>8, <2>1, <2>2, <2>3
  <2>5. ASSUME NEW d \in CPU \ {k} PROVE Adders(d)' = Adders(d)
    BY <2>1, <2>2, <2>3
  <2>. QED
    BY <2>4, <2>5
<1>10. Locks'
  <2>. SUFFICES ASSUME NEW d \in CPU
                PROVE  /\ Stage(d)' # {} => Adders(d)' = {}
                       /\ \A q, s \in Adders(d)' : q = s
                       /\ QueueLock'[d] = 1 <=> Stage(d)' # {} \/ Adders(d)' # {}
    BY DEF Locks
  <2>1. CASE d = k
    <3>1. Stage(d)' = {} /\ Adders(d)' = {p} /\ QueueLock'[d] = 1
      BY <2>1, <1>1, <1>2, <1>6, <1>8, <1>9
    <3>. QED
      BY <3>1
  <2>2. CASE d # k
    BY <2>2, <1>1, <1>6, <1>9 DEF IInv, Locks
  <2>. QED
    BY <2>1, <2>2
<1>11. Pending'
  BY <1>1, <1>2, <1>3, <1>4, PendingOnward DEF LockQueue, IsPending
<1>. QED
  BY <1>1, <1>7, <1>10, <1>11 DEF IInv, LockQueue, Unchanged

LEMMA DisableInterruptsInductive ==
  ASSUME IInv, NEW c \in CPU, NEW p \in Creators, DisableInterrupts(c, p)
  PROVE  IInv' /\ (\A d \in CPU : Line(d)' = Line(d)) /\ UNCHANGED currentProcess
<1>1. /\ Nesting' /\ Stages' /\ Lines'
      /\ \A d \in CPU : Stage(d)' = Stage(d) /\ Line(d)' = Line(d)
  BY CreatorStep DEF DisableInterrupts
<1>. DEFINE r == [creator[p] EXCEPT !.pc = "add"]
<1>2. creator[p] \in Creation /\ creator[p].pc = "cli"
  BY DEF DisableInterrupts, IInv, Types
<1>3. r \in Creation /\ r.pc = "add" /\ r.child = creator[p].child /\ r.cpu = creator[p].cpu
  BY <1>2 DEF Creation
<1>4. creator' = [creator EXCEPT ![p] = r]
  BY DEF DisableInterrupts, IInv, Types
<1>5. creator'[p] = r /\ (\A q \in Creators \ {p} : creator'[q] = creator[q])
      /\ creator' \in [Creators -> Creation]
  BY <1>3, <1>4 DEF IInv, Types
<1>. HIDE DEF r
<1>6. Types'
  BY <1>5 DEF DisableInterrupts, Unchanged, IInv, Types
<1>7. \A d \in CPU : Adders(d)' = Adders(d)
  BY <1>2, <1>3, <1>5 DEF Adders
<1>8. Locks'
  BY <1>1, <1>7 DEF DisableInterrupts, IInv, Locks
<1>9. Pending'
  BY <1>1, <1>2, <1>3, <1>4, PendingOnward DEF DisableInterrupts, IsPending
<1>. QED
  BY <1>1, <1>6, <1>8, <1>9 DEF IInv, DisableInterrupts, Unchanged

\* What becomes of the lines when a process is added at the end of one.
LEMMA AdmittedToLine ==
  ASSUME IInv, NEW k \in CPU, NEW x \in Process, ~ InLine(x),
         Line(k)' = Append(Line(k), x), \A d \in CPU \ {k} : Line(d)' = Line(d),
         Len(Line(k)) + 1 < capacity'[k], \A d \in CPU \ {k} : capacity'[d] = capacity[d]
  PROVE  Lines' /\ (\A y : InLine(y)' <=> InLine(y) \/ y = x)
<1>1. Line(k) \in Seq(Process) /\ Len(Line(k)) \in Nat /\ DOMAIN Line(k) = 1 .. Len(Line(k))
  BY LineType DEF IInv
<1>2. /\ Line(k)' \in Seq(Process) /\ Len(Line(k)') = Len(Line(k)) + 1
      /\ \A i \in 1 .. Len(Line(k)) : Line(k)'[i] = Line(k)[i]
      /\ Line(k)'[Len(Line(k)) + 1] = x
  BY <1>1, AppendProperties
<1>3. DOMAIN Line(k)' = 1 .. Len(Line(k)) + 1
  BY <1>2, LenProperties
<1>4. /\ DOMAIN Line(k) \subseteq DOMAIN Line(k)'
      /\ \A i \in DOMAIN Line(k)' : i \in DOMAIN Line(k) \/ i = Len(Line(k)) + 1
      /\ \A i \in DOMAIN Line(k) : Line(k)'[i] = Line(k)[i]
      /\ Len(Line(k)) + 1 \in DOMAIN Line(k)'
  BY <1>1, <1>2, <1>3
<1>5. \A d \in CPU : \A i \in DOMAIN Line(d)' :
        \/ i \in DOMAIN Line(d) /\ Line(d)'[i] = Line(d)[i]
        \/ d = k /\ i = Len(Line(k)) + 1 /\ Line(d)'[i] = x
  BY <1>2, <1>4
<1>6. \A d \in CPU : \A i \in DOMAIN Line(d) : Line(d)[i] # x
  BY DEF InLine
<1>7. ASSUME NEW d \in CPU, NEW e \in CPU, NEW i \in DOMAIN Line(d)', NEW j \in DOMAIN Line(e)',
             Line(d)'[i] = Line(e)'[j]
      PROVE  d = e /\ i = j
  BY <1>5, <1>6, <1>7 DEF IInv, Lines
<1>8. \A d \in CPU : Line(d)' # << >> => Len(Line(d)') < capacity'[d]
  BY <1>2 DEF IInv, Lines
<1>9. ASSUME NEW y PROVE InLine(y)' <=> InLine(y) \/ y = x
  <2>1. InLine(y)' => InLine(y) \/ y = x
    BY <1>5 DEF InLine
  <2>2. InLine(y) => InLine(y)'
    BY <1>4 DEF InLine
  <2>3. y = x => InLine(y)'
    BY <1>2, <1>4 DEF InLine
  <2>. QED
    BY <2>1, <2>2, <2>3
<1>. QED
  BY <1>7, <1>8, <1>9 DEF Lines

LEMMA AddProcessInductive ==
  ASSUME IInv, NEW c \in CPU, NEW p \in Creators, AddProcess(c, p)
  PROVE  /\ IInv' /\ UNCHANGED currentProcess
         /\ \E k \in CPU, x \in Process :
              /\ k = creator[p].cpu
              /\ ~ InLine(x) /\ Line(k)' = Append(Line(k), x)
              /\ \A d \in CPU \ {k} : Line(d)' = Line(d)
<1>0. creator[p] \in Creation /\ creator[p].pc = "add" /\ creator[p].child \in Process
      /\ ~ InLine(creator[p].child)
  BY DEF AddProcess, IInv, Types, Pending, IsPending
<1>. PICK k \in CPU : k = creator[p].cpu
  BY <1>0 DEF Creation
<1>. PICK x \in Process : x = creator[p].child
  BY <1>0
<1>. DEFINE r == [creator[p] EXCEPT !.pc = "release"]
<1>1. r \in Creation /\ r.pc = "release" /\ r.child = x /\ r.cpu = k
  BY <1>0 DEF Creation
<1>2. creator' = [creator EXCEPT ![p] = r]
  BY DEF AddProcess, IInv, Types
<1>3. creator'[p] = r /\ (\A q \in Creators \ {p} : creator'[q] = creator[q])
      /\ creator' \in [Creators -> Creation]
  BY <1>1, <1>2 DEF IInv, Types
<1>. HIDE DEF r
<1>4. p \in Adders(k) /\ Stage(k) = {}
  BY <1>0 DEF Adders, IInv, Locks
<1>5. Line(k) = queue[k] /\ queue[k] \in Seq(Process) /\ Len(queue[k]) \in Nat /\ capacity[k] \in Nat
  BY <1>4, LineOfStage, LineType DEF IInv, Types
<1>6. /\ queue' = [queue EXCEPT ![k] = Append(queue[k], x)]
      /\ capacity' = [capacity EXCEPT ![k] = GrownCapacity(Len(queue[k]) + 1, capacity[k])]
  BY DEF AddProcess, AddBack
<1>7. queue' \in [CPU -> Seq(Process)] /\ queue'[k] = Append(queue[k], x)
      /\ \A d \in CPU \ {k} : queue'[d] = queue[d]
  BY <1>5, <1>6, AppendProperties DEF IInv, Types
<1>8. /\ capacity' \in [CPU -> Nat] /\ Len(queue[k]) + 1 < capacity'[k]
      /\ \A d \in CPU \ {k} : capacity'[d] = capacity[d]
  <2>1. /\ GrownCapacity(Len(queue[k]) + 1, capacity[k]) \in Nat
        /\ Len(queue[k]) + 1 < GrownCapacity(Len(queue[k]) + 1, capacity[k])
    BY <1>5 DEF GrownCapacity
  <2>. QED
    BY <2>1, <1>6 DEF IInv, Types
<1>9. Types'
  BY <1>3, <1>7, <1>8 DEF AddProcess, Unchanged, IInv, Types
<1>10. Nesting' /\ \A d \in CPU : Stage(d)' = Stage(d)
  BY DEF AddProcess, Unchanged, IInv, Nesting, NestedStacks, SavedStacks, Stage, Open
<1>11. Locks'
  <2>1. \A d \in CPU : Adders(d)' = Adders(d)
    BY <1>0, <1>1, <1>3 DEF Adders
  <2>. QED
    BY <1>10, <2>1 DEF AddProcess, IInv, Locks
<1>12. Line(k)' = Append(Line(k), x)
  <2>1. ~ Open(k, "add")' /\ ~ Open(k, "pick")'
    BY <1>4, <1>10 DEF Stage, Section
  <2>. QED
    BY <1>5, <1>7, <2>1 DEF Line
<1>13. \A d \in CPU \ {k} : Line(d)' = Line(d) /\ StagesAt(d)'
  BY <1>7, <1>10, ElsewhereKept DEF AddProcess, Unchanged, IInv
<1>14. StagesAt(k)'
  <2>1. ~ Open(k, "erase")' /\ ~ Open(k, "add")' /\ ~ Open(k, "pick")'
    BY <1>4, <1>10 DEF Stage, Section
  <2>2. UNCHANGED <<currentProcess, exec>>
    BY DEF AddProcess, Unchanged
  <2>3. currentProcess[k] \in Process => Line(k)' # << >> /\ Head(Line(k)') = currentProcess[k]
    BY <1>5, <1>12, HeadTailAppend, AppendProperties DEF IInv, Stages, StagesAt
  <2>. QED
    BY <2>1, <2>2, <2>3 DEF IInv, Stages, StagesAt
<1>15. Lines' /\ \A y : InLine(y)' <=> InLine(y) \/ y = x
  BY <1>0, <1>5, <1>8, <1>12, <1>13, AdmittedToLine
<1>16. Pending'
  <2>1. IsPending(p) /\ ~ IsPending(p)'
    BY <1>0, <1>1, <1>3 DEF IsPending
  <2>2. \A q \in Creators \ {p} : (IsPending(q)' <=> IsPending(q)) /\ creator'[q].child = creator[q].child
    BY <1>3 DEF IsPending
  <2>3. \A q \in Creators \ {p} : IsPending(q) => creator[q].child # x
    BY <2>1 DEF IInv, Pending
  <2>4. UNCHANGED created
    BY DEF AddProcess
  <2>5. ASSUME NEW y \in Process
        PROVE  InLine(y)' \/ (\E q \in Creators : IsPending(q)' /\ creator'[q].child = y)
                 <=> y \in created'
    <3>1. InLine(y) \/ (\E q \in Creators : IsPending(q) /\ creator[q].child = y) <=> y \in created
      BY DEF IInv, Pending
    <3>2. (\E q \in Creators : IsPending(q) /\ creator[q].child = y)
            <=> y = x \/ \E q \in Creators : IsPending(q)' /\ creator'[q].child = y
      BY <2>1, <2>2
    <3>. QED
      BY <3>1, <3>2, <2>4, <1>15
  <2>6. ASSUME NEW q \in Creators
        PROVE  /\ creator'[q].pc = "no" => creator'[q] = NotCreating
               /\ creator'[q].pc = "scan" => creator'[q].next \in CPU
               /\ IsPending(q)' => creator'[q].child \in Process /\ ~ InLine(creator[q].child)'
    <3>1. CASE q = p
      BY <3>1, <1>1, <1>3, <2>1
    <3>2. CASE q # p
      BY <3>2, <1>3, <1>15, <2>2, <2>3 DEF IInv, Pending
    <3>. QED
      BY <3>1, <3>2
  <2>7. ASSUME NEW q \in Creators, NEW s \in Creators, IsPending(q)', IsPending(s)',
               creator'[q].child = creator'[s].child
        PROVE  q = s
    BY <2>1, <2>2, <2>7 DEF IInv, Pending
  <2>. QED
    BY <2>5, <2>6, <2>7 DEF Pending
<1>17. Stages' /\ UNCHANGED currentProcess
  BY <1>13, <1>14 DEF Stages, AddProcess, Unchanged
<1>. QED
  BY <1>0, <1>9, <1>10, <1>11, <1>12, <1>13, <1>15, <1>16, <1>17 DEF IInv

LEMMA ReleaseQueueInductive ==
  ASSUME IInv, NEW c \in CPU, NEW p \in Creators, ReleaseQueue(c, p)
  PROVE  IInv' /\ (\A d \in CPU : Line(d)' = Line(d)) /\ UNCHANGED currentProcess
<1>1. /\ Nesting' /\ Stages' /\ Lines'
      /\ \A d \in CPU : Stage(d)' = Stage(d) /\ Line(d)' = Line(d)
  BY CreatorStep DEF ReleaseQueue
<1>2. creator[p] \in Creation /\ creator[p].pc = "release"
  BY DEF ReleaseQueue, IInv, Types
<1>. PICK k \in CPU : k = creator[p].cpu
  BY <1>2 DEF Creation
<1>3. NotCreating \in Creation /\ NotCreating.pc = "no"
  BY CPUAssumption DEF NotCreating, Creation, CPU
<1>4. creator'[p] = NotCreating /\ (\A q \in Creators \ {p} : creator'[q] = creator[q])
      /\ creator' \in [Creators -> Creation]
  BY <1>3 DEF ReleaseQueue, IInv, Types
<1>5. QueueLock'[k] = 0 /\ QueueLock' \in [CPU -> {0, 1}]
      /\ \A d \in CPU \ {k} : QueueLock'[d] = QueueLock[d]
  BY DEF ReleaseQueue, IInv, Types
<1>6. Types'
  BY <1>4, <1>5 DEF ReleaseQueue, Unchanged, IInv, Types
<1>7. p \in Adders(k) /\ Stage(k) = {} /\ Adders(k) = {p}
  <2>1. p \in Adders(k)
    BY <1>2 DEF Adders
  <2>. QED
    BY <2>1 DEF IInv, Locks
<1>8. Adders(k)' = {} /\ \A d \in CPU \ {k} : Adders(d)' = Adders(d)
  <2>1. \A d \in CPU : p \notin Adders(d)' /\ (d # k => p \notin Adders(d))
    BY <1>3, <1>4 DEF Adders
  <2>2. \A q \in Creators \ {p}, d \in CPU : q \in Adders(d)' <=> q \in Adders(d)
    BY <1>4 DEF Adders
  <2>3. \A d \in CPU : Adders(d) \subseteq Creators /\ Adders(d)' \subseteq Creators
    BY DEF Adders
  <2>4. Adders(k)' = {}
    BY <1>7, <2>1, <2>2, <2>3
  <2>5. ASSUME NEW d \in CPU \ {k} PROVE Adders(d)' = Adders(d)
    BY <2>1, <2>2, <2>3
  <2>. QED
    BY <2>4, <2>5
<1>9. Locks'
  <2>. SUFFICES ASSUME NEW d \in CPU
                PROVE  /\ Stage(d)' # {} => Adders(d)' = {}
                       /\ \A q, s \in Adders(d)' : q = s
                       /\ QueueLock'[d] = 1 <=> Stage(d)' # {} \/ Adders(d)' # {}
    BY DEF Locks
  <2>1. CASE d = k
    BY <2>1, <1>1, <1>5, <1>7, <1>8
  <2>2. CASE d # k
    BY <2>2, <1>1, <1>5, <1>8 DEF IInv, Locks
  <2>. QED
    BY <2>1, <2>2
<1>10. Pending'
  <2>1. ~ IsPending(p) /\ ~ IsPending(p)'
    BY <1>2, <1>3, <1>4 DEF IsPending
  <2>2. \A q \in Creators : q # p => (IsPending(q)' <=> IsPending(q)) /\ creator'[q] = creator[q]
    BY <1>4 DEF IsPending
  <2>3. \A y : InLine(y)' <=> InLine(y)
    BY <1>1 DEF InLine
  <2>4. UNCHANGED created
    BY DEF ReleaseQueue
  <2>5. \A y : (\E q \in Creators : IsPending(q)' /\ creator'[q].child = y)
                 <=> \E q \in Creators : IsPending(q) /\ creator[q].child = y
    BY <2>1, <2>2
  <2>6. \A y \in Process : InLine(y)' \/ (\E q \in Creators : IsPending(q)' /\ creator'[q].child = y)
                              <=> y \in created'
    BY <2>3, <2>4, <2>5 DEF IInv, Pending
  <2>7. ASSUME NEW q \in Creators
        PROVE  /\ creator'[q].pc = "no" => creator'[q] = NotCreating
               /\ creator'[q].pc = "scan" => creator'[q].next \in CPU
               /\ IsPending(q)' => creator'[q].child \in Process /\ ~ InLine(creator[q].child)'
    <3>1. CASE q = p
      BY <3>1, <1>3, <1>4, <2>1
    <3>2. CASE q # p
      BY <3>2, <2>2, <2>3 DEF IInv, Pending
    <3>. QED
      BY <3>1, <3>2
  <2>8. ASSUME NEW q \in Creators, NEW s \in Creators, IsPending(q)', IsPending(s)',
               creator'[q].child = creator'[s].child
        PROVE  q = s
    BY <2>1, <2>2, <2>8 DEF IInv, Pending
  <2>. QED
    BY <2>6, <2>7, <2>8 DEF Pending
<1>. QED
  BY <1>1, <1>6, <1>9, <1>10 DEF IInv, ReleaseQueue, Unchanged

\* Nothing happens.
LEMMA StutterInductive ==
  ASSUME IInv, UNCHANGED vars
  PROVE  IInv' /\ (\A d \in CPU : Line(d)' = Line(d)) /\ UNCHANGED currentProcess
<1>1. \A d \in CPU : Stage(d)' = Stage(d)
  BY DEF vars, Stage, Open
<1>2. Types' /\ Nesting' /\ \A d \in CPU : NoneYet(d)'
  BY DEF vars, IInv, Types, Nesting, NestedStacks, SavedStacks, NoneYet, Stages, StagesAt
<1>. QED
  BY <1>1, <1>2, QuietStep DEF vars

\* What a step of the system is for the lines: none, or a turn, a start or an admission.
Turned(c) ==
    /\ \A d \in CPU \ {c} : Line(d)' = Line(d) /\ Running(d)' = Running(d)
    /\ Line(c) # << >> /\ Line(c)' # << >>
    /\ IF Running(c) = NoProcess
       THEN Line(c)' = Line(c) /\ Running(c)' = Head(Line(c))
       ELSE /\ Line(c)' = Append(Tail(Line(c)), Head(Line(c)))
            /\ Running(c)' = Head(Line(c)')
Admitted(k, x) ==
    /\ ~ InLine(x) /\ Line(k)' = Append(Line(k), x)
    /\ \A d \in CPU \ {k} : Line(d)' = Line(d)
    /\ \A d \in CPU : Running(d)' = Running(d)

LEMMA NextInductive ==
  ASSUME IInv, [Next]_vars
  PROVE  /\ IInv'
         /\ \/ \A d \in CPU : Line(d)' = Line(d) /\ Running(d)' = Running(d)
            \/ \E c \in CPU : Turned(c)
            \/ \E k \in CPU, x \in Process : Admitted(k, x)
<1>0. UNCHANGED currentProcess => \A d \in CPU : Running(d)' = Running(d)
  BY DEF Running
<1>1. ASSUME NEW c \in CPU, Interrupt(c) \/ TestSlice(c) \/ SpendSlice(c) \/ TryLock(c)
                            \/ SaveAndErase(c) \/ Requeue(c) \/ Release(c) \/ Switch(c)
      PROVE  IInv' /\ (\A d \in CPU : Line(d)' = Line(d)) /\ UNCHANGED currentProcess
  BY <1>1, EnterInductive, TestSliceInductive, SpendSliceInductive, TryLockInductive,
     SaveAndEraseInductive, RequeueInductive, ReleaseInductive, SwitchInductive
<1>2. ASSUME NEW c \in CPU, Choose(c)
      PROVE  IInv' /\ \A d \in CPU : Line(d)' = Line(d) /\ Running(d)' = Running(d)
  BY <1>2, ChooseInductive
<1>3. ASSUME NEW c \in CPU, Pick(c) PROVE IInv' /\ Turned(c)
  BY <1>3, PickInductive DEF Turned
<1>4. ASSUME NEW c \in CPU, NEW p \in Creators,
             CreateProcess(c, p) \/ CompareQueues(c, p) \/ LockQueue(c, p)
             \/ DisableInterrupts(c, p) \/ ReleaseQueue(c, p)
      PROVE  IInv' /\ (\A d \in CPU : Line(d)' = Line(d)) /\ UNCHANGED currentProcess
  BY <1>4, CreateProcessInductive, CompareQueuesInductive, LockQueueInductive,
     DisableInterruptsInductive, ReleaseQueueInductive
<1>5. ASSUME NEW c \in CPU, NEW p \in Creators, AddProcess(c, p)
      PROVE  IInv' /\ \E k \in CPU, x \in Process : Admitted(k, x)
  BY <1>5, <1>0, AddProcessInductive DEF Admitted
<1>6. CASE Next
  BY <1>6, <1>0, <1>1, <1>2, <1>3, <1>4, <1>5 DEF Next, Schedule, NewProcess
<1>7. CASE UNCHANGED vars
  BY <1>7, <1>0, StutterInductive
<1>. QED
  BY <1>6, <1>7

\* The state of the scheduler keeps its types, and the locks, queues and stacks fit together.
THEOREM SchedulerInvariant == Spec => []IInv
<1>1. Init => IInv
  BY InitIInv
<1>2. IInv /\ [Next]_vars => IInv'
  BY NextInductive
<1>. QED
  BY <1>1, <1>2, PTL DEF Spec

-----------------------------------------------------------------------------
(* What the invariant says of locks, queues and current processes.         *)

\* A queue lock is taken exactly while one handler or one NewProcess is in its section:
\* acquireTestLock of Schedule, acquireLock of NewProcess and the two releases.
THEOREM LockIsHeldTheorem == Spec => []LockIsHeld
<1>1. IInv => LockIsHeld
  <2>. SUFFICES ASSUME IInv, NEW c \in CPU
                PROVE  Cardinality(Inside(c)) + Cardinality(Adders(c)) = QueueLock[c]
    BY DEF LockIsHeld
  <2>1. QueueLock[c] \in {0, 1} /\ DOMAIN exec[c].frames = 1 .. Len(exec[c].frames)
        /\ Len(exec[c].frames) \in Nat
    BY StackOfCPU DEF IInv, Types
  <2>2. \A i, j \in Inside(c) : i = j
    <3>. SUFFICES ASSUME NEW i \in Inside(c), NEW j \in Inside(c), i < j PROVE FALSE
      BY <2>1 DEF Inside
    <3>1. exec[c].frames[i] \in Waiting /\ exec[c].frames[i] \in Section
      BY DEF Inside, IInv, Nesting, NestedStacks
    <3>. QED
      BY <3>1 DEF Waiting, Section
  <2>3. Stage(c) = {} <=> Inside(c) = {}
    BY DEF Stage, Open, Inside
  <2>4. Cardinality(Inside(c)) = IF Inside(c) = {} THEN 0 ELSE 1
    <3>1. CASE Inside(c) = {}
      BY <3>1, FS_EmptySet
    <3>2. CASE Inside(c) # {}
      <4>1. PICK i : Inside(c) = {i}
        BY <3>2, <2>2
      <4>. QED
        BY <3>2, <4>1, FS_Singleton
    <3>. QED
      BY <3>1, <3>2
  <2>5. Cardinality(Adders(c)) = IF Adders(c) = {} THEN 0 ELSE 1
    <3>1. CASE Adders(c) = {}
      BY <3>1, FS_EmptySet
    <3>2. CASE Adders(c) # {}
      <4>1. PICK p : Adders(c) = {p}
        BY <3>2 DEF IInv, Locks
      <4>. QED
        BY <3>2, <4>1, FS_Singleton
    <3>. QED
      BY <3>1, <3>2
  <2>. QED
    BY <2>1, <2>3, <2>4, <2>5 DEF IInv, Locks
<1>. QED
  BY <1>1, SchedulerInvariant, PTL

\* The process that Schedule erases with erase(0) is the current one: it is the head of the
\* queue whenever no rotation is half done.
THEOREM HeadIsCurrentTheorem == Spec => []HeadIsCurrent
<1>1. IInv => HeadIsCurrent
  <2>. SUFFICES ASSUME IInv, NEW c \in CPU, currentProcess[c] \in Process, ~ Rotating(c)
                PROVE  queue[c] # << >> /\ Head(queue[c]) = currentProcess[c]
    BY DEF HeadIsCurrent
  <2>1. Line(c) = queue[c]
    BY DEF Rotating, Line
  <2>. QED
    BY <2>1 DEF IInv, Stages, StagesAt
<1>. QED
  BY <1>1, SchedulerInvariant, PTL

\* The add_back of a rotation finds room in the vector that erase(0) has just left, so that
\* Schedule never calls malloc.
THEOREM ScheduleNeverAllocatesTheorem == Spec => []ScheduleNeverAllocates
<1>1. IInv => ScheduleNeverAllocates
  <2>. SUFFICES ASSUME IInv, NEW c \in CPU, Open(c, "add")
                PROVE  Len(queue[c]) + 1 < capacity[c]
    BY DEF ScheduleNeverAllocates
  <2>1. Line(c) = <<currentProcess[c]>> \o queue[c]
    BY DEF Line
  <2>2. currentProcess[c] \in Process /\ Line(c) # << >>
    BY DEF IInv, Stages, StagesAt
  <2>3. queue[c] \in Seq(Process)
    BY DEF IInv, Types
  <2>4. Len(Line(c)) = Len(queue[c]) + 1
    BY <2>1, <2>2, <2>3, PushHead
  <2>. QED
    BY <2>2, <2>4 DEF IInv, Lines
<1>. QED
  BY <1>1, SchedulerInvariant, PTL

\* Where the processes of a queue stand in the line of its CPU.
LEMMA QueuePositions ==
  ASSUME IInv, NEW c \in CPU
  PROVE  \E h \in [DOMAIN queue[c] -> DOMAIN Line(c)] :
           /\ \A i \in DOMAIN queue[c] : queue[c][i] = Line(c)[h[i]]
           /\ \A i, j \in DOMAIN queue[c] : h[i] = h[j] => i = j
           /\ IF Open(c, "add")
              THEN /\ 1 \in DOMAIN Line(c) /\ Line(c)[1] = currentProcess[c]
                   /\ \A i \in DOMAIN queue[c] : h[i] # 1
                   /\ \A i \in DOMAIN Line(c) \ {1} : \E j \in DOMAIN queue[c] : i = h[j]
              ELSE \A i \in DOMAIN Line(c) : \E j \in DOMAIN queue[c] : i = h[j]
<1>1. /\ queue[c] \in Seq(Process) /\ Len(queue[c]) \in Nat
      /\ DOMAIN queue[c] = 1 .. Len(queue[c])
      /\ Line(c) \in Seq(Process)
      /\ DOMAIN Line(c) = 1 .. Len(Line(c))
  BY LineType DEF IInv
<1>2. CASE Open(c, "add")
  <2>1. Line(c) = <<currentProcess[c]>> \o queue[c] /\ currentProcess[c] \in Process
    BY <1>2 DEF Line, IInv, Stages, StagesAt
  <2>2. /\ Len(Line(c)) = Len(queue[c]) + 1 /\ Line(c)[1] = currentProcess[c]
        /\ \A i \in 1 .. Len(queue[c]) : Line(c)[i + 1] = queue[c][i]
    BY <1>1, <2>1, PushHead
  <2>. DEFINE h == [i \in DOMAIN queue[c] |-> i + 1]
  <2>3. h \in [DOMAIN queue[c] -> DOMAIN Line(c)]
    BY <1>1, <2>2
  <2>4. /\ \A i \in DOMAIN queue[c] : queue[c][i] = Line(c)[h[i]]
        /\ \A i, j \in DOMAIN queue[c] : h[i] = h[j] => i = j
        /\ 1 \in DOMAIN Line(c) /\ Line(c)[1] = currentProcess[c]
        /\ \A i \in DOMAIN queue[c] : h[i] # 1
    BY <1>1, <2>2
  <2>5. ASSUME NEW i \in DOMAIN Line(c) \ {1} PROVE \E j \in DOMAIN queue[c] : i = h[j]
    <3>1. i - 1 \in DOMAIN queue[c] /\ h[i - 1] = i
      BY <1>1, <2>2
    <3>. QED
      BY <3>1
  <2>. QED
    BY <1>2, <2>3, <2>4, <2>5, Zenon
<1>3. CASE ~ Open(c, "add")
  <2>1. Permutes(queue[c], Line(c))
    <3>1. CASE Open(c, "pick") /\ currentProcess[c] \in Process
      <4>1. Line(c) = <<currentProcess[c]>> \o Front(queue[c]) /\ queue[c] # << >>
            /\ queue[c][Len(queue[c])] = currentProcess[c]
        BY <1>3, <3>1 DEF Line, IInv, Stages, StagesAt
      <4>2. Front(queue[c]) \in Seq(Process)
        BY <1>1, <4>1, FrontOfQueue
      <4>3. Head(Line(c)) = currentProcess[c] /\ Tail(Line(c)) = Front(queue[c])
        BY <3>1, <4>1, <4>2, PushedHead
      <4>4. queue[c] = Append(Tail(Line(c)), Head(Line(c)))
        BY <1>1, <4>1, <4>3, LastBehindFront
      <4>5. Line(c) # << >>
        BY <3>1 DEF IInv, Stages, StagesAt
      <4>. QED
        BY <1>1, <4>4, <4>5, Rotation
    <3>2. CASE ~ (Open(c, "pick") /\ currentProcess[c] \in Process)
      <4>1. Line(c) = queue[c]
        BY <1>3, <3>2 DEF Line
      <4>. DEFINE h == [i \in DOMAIN queue[c] |-> i]
      <4>2. h \in [DOMAIN queue[c] -> DOMAIN Line(c)]
        BY <4>1
      <4>3. /\ \A i \in DOMAIN queue[c] : queue[c][i] = Line(c)[h[i]]
            /\ \A i, j \in DOMAIN queue[c] : h[i] = h[j] => i = j
            /\ \A i \in DOMAIN Line(c) : \E j \in DOMAIN queue[c] : i = h[j]
        BY <4>1
      <4>. HIDE DEF h
      <4>. QED
        BY <4>2, <4>3 DEF Permutes
    <3>. QED
      BY <3>1, <3>2
  <2>. QED
    BY <1>3, <2>1 DEF Permutes
<1>. QED
  BY <1>2, <1>3

\* A process that was created is in one place of one queue, except while NewProcess has not
\* added it yet and between the erase and the add_back of its rotation.
THEOREM QueuedOnceTheorem == Spec => []QueuedOnce
<1>1. IInv => QueuedOnce
  <2>. SUFFICES ASSUME IInv, NEW p \in created
                PROVE  Cardinality(Places(p)) = IF p \in BeingAdded THEN 0 ELSE 1
    BY DEF QueuedOnce
  <2>1. p \in Process /\ p # NoProcess
    BY ProcessAssumption DEF IInv, Types
  <2>2. \A z : z \in Places(p) <=>
                 \E c \in CPU : \E i \in DOMAIN queue[c] : queue[c][i] = p /\ z = <<c, i>>
    BY DEF Places
  <2>3. ASSUME NEW c \in CPU, NEW i \in DOMAIN queue[c], queue[c][i] = p
        PROVE  InLine(p)
    BY <2>3, QueuePositions DEF InLine
  <2>4. ASSUME NEW c \in CPU, NEW i \in DOMAIN queue[c], queue[c][i] = p,
               NEW d \in CPU, NEW j \in DOMAIN queue[d], queue[d][j] = p
        PROVE  c = d /\ i = j
    <3>1. PICK h \in [DOMAIN queue[c] -> DOMAIN Line(c)] :
            /\ \A l \in DOMAIN queue[c] : queue[c][l] = Line(c)[h[l]]
            /\ \A l, m \in DOMAIN queue[c] : h[l] = h[m] => l = m
      BY QueuePositions
    <3>2. PICK g \in [DOMAIN queue[d] -> DOMAIN Line(d)] :
            \A l \in DOMAIN queue[d] : queue[d][l] = Line(d)[g[l]]
      BY QueuePositions
    <3>3. c = d
      BY <2>4, <3>1, <3>2 DEF IInv, Lines
    <3>4. h[i] = h[j]
      BY <2>4, <3>1, <3>3 DEF IInv, Lines
    <3>. QED
      BY <3>1, <3>3, <3>4
  <2>5. CASE p \in BeingAdded
    <3>1. CASE \E q \in Creators : creator[q].pc # "release" /\ creator[q].child = p
      <4>1. PICK q \in Creators : creator[q].pc # "release" /\ creator[q].child = p
        BY <3>1
      <4>2. creator[q].pc # "no"
        BY <2>1, <4>1 DEF IInv, Pending, NotCreating
      <4>3. IsPending(q)
        BY <4>1, <4>2 DEF IsPending, IInv, Types, Creation
      <4>4. ~ InLine(p)
        BY <4>1, <4>3 DEF IInv, Pending
      <4>5. Places(p) = {}
        BY <2>2, <2>3, <4>4
      <4>. QED
        BY <2>5, <4>5, FS_EmptySet
    <3>2. CASE \E d \in CPU : Open(d, "add") /\ currentProcess[d] = p
      <4>1. PICK d \in CPU : Open(d, "add") /\ currentProcess[d] = p
        BY <3>2
      <4>2. 1 \in DOMAIN Line(d) /\ Line(d)[1] = p
        BY <4>1, QueuePositions
      <4>3. ASSUME NEW c \in CPU, NEW i \in DOMAIN queue[c], queue[c][i] = p
            PROVE  FALSE
        <5>1. PICK h \in [DOMAIN queue[c] -> DOMAIN Line(c)] :
                /\ \A l \in DOMAIN queue[c] : queue[c][l] = Line(c)[h[l]]
                /\ Open(c, "add") => \A l \in DOMAIN queue[c] : h[l] # 1
          BY QueuePositions
        <5>2. c = d /\ h[i] = 1
          BY <4>2, <4>3, <5>1 DEF IInv, Lines
        <5>. QED
          BY <4>1, <5>1, <5>2
      <4>4. Places(p) = {}
        BY <2>2, <4>3
      <4>. QED
        BY <2>5, <4>4, FS_EmptySet
    <3>. QED
      BY <2>5, <3>1, <3>2 DEF BeingAdded
  <2>6. CASE p \notin BeingAdded
    <3>1. InLine(p)
      <4>1. \A q \in Creators : ~ (IsPending(q) /\ creator[q].child = p)
        BY <2>6 DEF BeingAdded, IsPending
      <4>. QED
        BY <2>1, <4>1 DEF IInv, Pending
    <3>2. PICK c \in CPU : \E i \in DOMAIN Line(c) : Line(c)[i] = p
      BY <3>1 DEF InLine
    <3>3. Open(c, "add") => currentProcess[c] # p
      BY <2>6 DEF BeingAdded
    <3>4. \E j \in DOMAIN queue[c] : queue[c][j] = p
      BY <3>2, <3>3, QueuePositions
    <3>5. PICK j \in DOMAIN queue[c] : queue[c][j] = p
      BY <3>4
    <3>6. Places(p) = {<<c, j>>}
      BY <2>2, <2>4, <3>5
    <3>. QED
      BY <2>6, <3>6, FS_Singleton
  <2>. QED
    BY <2>5, <2>6
<1>. QED
  BY <1>1, SchedulerInvariant, PTL

-----------------------------------------------------------------------------
(* Schedule and NewProcess implement a round robin.                        *)

LEMMA RoundRobinStep ==
  ASSUME IInv, [Next]_vars
  PROVE  [Turns!Next]_(Turns!vars)
<1>. DEFINE line == [c \in CPU |-> Line(c)]
            running == [c \in CPU |-> Running(c)]
<1>1. IInv' /\ \/ \A d \in CPU : Line(d)' = Line(d) /\ Running(d)' = Running(d)
               \/ \E c \in CPU : Turned(c)
               \/ \E k \in CPU, x \in Process : Admitted(k, x)
  BY NextInductive
<1>2. CASE \A d \in CPU : Line(d)' = Line(d) /\ Running(d)' = Running(d)
  BY <1>2 DEF Turns!vars
<1>3. CASE \E c \in CPU : Turned(c)
  <2>1. PICK c \in CPU : Turned(c)
    BY <1>3
  <2>2. CASE Running(c) = NoProcess
    <3>1. Turns!Start(c)
      BY <2>1, <2>2 DEF Turned, Turns!Start
    <3>. QED
      BY <3>1 DEF Turns!Next
  <2>3. CASE Running(c) # NoProcess
    <3>1. Turns!Turn(c)
      BY <2>1, <2>3 DEF Turned, Turns!Turn
    <3>. QED
      BY <3>1 DEF Turns!Next
  <2>. QED
    BY <2>2, <2>3
<1>4. CASE \E k \in CPU, x \in Process : Admitted(k, x)
  <2>1. PICK k \in CPU, x \in Process : Admitted(k, x)
    BY <1>4
  <2>2. \A d \in CPU : x \notin Turns!Lined(d)
    BY <2>1 DEF Admitted, InLine, Turns!Lined
  <2>3. Turns!Admit(k, x)
    BY <2>1, <2>2 DEF Admitted, Turns!Admit
  <2>. QED
    BY <2>3 DEF Turns!Next
<1>. QED
  BY <1>1, <1>2, <1>3, <1>4

\* The queues and the current processes of the CPUs, with handlers nested in one another and
\* processes added from other CPUs, take turns as one round robin per CPU.
THEOREM ImplementsRoundRobin == Spec => RoundRobinSpec
<1>1. Init => Turns!Init
  <2>. SUFFICES ASSUME Init PROVE Turns!Init
    OBVIOUS
  <2>1. KernelStage2 \in Process
    BY DEF Process
  <2>2. \A c \in CPU : Line(c) = (IF c = 0 THEN <<KernelStage2>> ELSE << >>)
                       /\ Running(c) = NoProcess
    BY DEF Init, Fresh, Line, Open, Running
  <2>3. \A c \in CPU : c # 0 => Turns!Lined(c) = {}
    BY <2>2 DEF Turns!Lined
  <2>. QED
    BY <2>1, <2>2, <2>3 DEF Turns!Init
<1>. QED
  BY <1>1, RoundRobinStep, SchedulerInvariant, PTL DEF Spec, RoundRobinSpec, Turns!Spec

-----------------------------------------------------------------------------
(* The lengths of the lines, while one process creates the others.         *)

\* What NewProcess has found when it has compared with the CPUs below next, or is done: no
\* line is shorter by more than one than that of the CPU it has chosen.
Length(c) == Len(Line(c))
Chosen ==
    \A p \in Creators :
      /\ creator[p].pc = "scan" =>
           \A d \in CPU : d < creator[p].next => Length(creator[p].cpu) <= Length(d) + 1
      /\ creator[p].pc \in {"lock", "cli", "add"} =>
           \A d \in CPU : Length(creator[p].cpu) <= Length(d) + 1
Balanced == \A c, d \in CPU : Length(c) <= Length(d) + 2

\* A queue has all processes of its line, or one is taken out by a rotation.
LEMMA LengthOfQueue ==
  ASSUME IInv, NEW c \in CPU
  PROVE  /\ Length(c) \in Nat /\ Len(queue[c]) \in Nat
         /\ Length(c) = ProcessesOf(c)
         /\ Length(c) \in {Len(queue[c]), Len(queue[c]) + 1}
         /\ queue[c] = << >> <=> Len(queue[c]) = 0
<1>1. /\ queue[c] \in Seq(Process) /\ Len(queue[c]) \in Nat /\ Len(Line(c)) \in Nat
      /\ queue[c] = << >> <=> Len(queue[c]) = 0
  BY LineType, EmptySeq DEF IInv
<1>2. CASE Open(c, "add")
  <2>1. Line(c) = <<currentProcess[c]>> \o queue[c] /\ currentProcess[c] \in Process
    BY <1>2 DEF Line, IInv, Stages, StagesAt
  <2>2. Len(Line(c)) = Len(queue[c]) + 1
    BY <1>1, <2>1, PushHead
  <2>. QED
    BY <1>1, <1>2, <2>2 DEF Length, ProcessesOf
<1>3. CASE ~ Open(c, "add") /\ Open(c, "pick") /\ currentProcess[c] \in Process
  <2>1. Line(c) = <<currentProcess[c]>> \o Front(queue[c]) /\ queue[c] # << >>
    BY <1>3 DEF Line, IInv, Stages, StagesAt
  <2>2. Front(queue[c]) \in Seq(Process) /\ Len(Front(queue[c])) = Len(queue[c]) - 1
    BY <1>1, <2>1, FrontOfQueue
  <2>3. Len(Line(c)) = Len(Front(queue[c])) + 1
    BY <1>3, <2>1, <2>2, PushHead
  <2>. QED
    BY <1>1, <1>3, <2>2, <2>3 DEF Length, ProcessesOf
<1>4. CASE ~ Open(c, "add") /\ ~ (Open(c, "pick") /\ currentProcess[c] \in Process)
  <2>1. Line(c) = queue[c]
    BY <1>4 DEF Line
  <2>. QED
    BY <1>1, <1>4, <2>1 DEF Length, ProcessesOf
<1>. QED
  BY <1>2, <1>3, <1>4

\* Only NewProcess makes a line longer.
LEMMA LengthsKept ==
  ASSUME IInv, [Next]_vars, \A c \in CPU, p \in Creators : ~ AddProcess(c, p), NEW d \in CPU
  PROVE  Length(d)' = Length(d)
<1>1. ASSUME NEW c \in CPU, Interrupt(c) \/ TestSlice(c) \/ SpendSlice(c) \/ TryLock(c)
                            \/ SaveAndErase(c) \/ Requeue(c) \/ Release(c) \/ Switch(c)
      PROVE  Line(d)' = Line(d)
  BY <1>1, EnterInductive, TestSliceInductive, SpendSliceInductive, TryLockInductive,
     SaveAndEraseInductive, RequeueInductive, ReleaseInductive, SwitchInductive
<1>2. ASSUME NEW c \in CPU, Choose(c) PROVE Line(d)' = Line(d)
  BY <1>2, ChooseInductive
<1>3. ASSUME NEW c \in CPU, Pick(c) PROVE Length(d)' = Length(d)
  <2>1. Turned(c)
    BY <1>3, PickInductive DEF Turned
  <2>2. CASE Line(d)' = Line(d)
    BY <2>2 DEF Length
  <2>3. CASE d = c /\ Line(c) # << >> /\ Line(c)' = Append(Tail(Line(c)), Head(Line(c)))
    <3>1. Line(c) \in Seq(Process)
      BY LineType DEF IInv
    <3>. QED
      BY <2>3, <3>1, Rotation DEF Length
  <2>. QED
    BY <2>1, <2>2, <2>3 DEF Turned
<1>4. ASSUME NEW c \in CPU, NEW p \in Creators,
             CreateProcess(c, p) \/ CompareQueues(c, p) \/ LockQueue(c, p)
             \/ DisableInterrupts(c, p) \/ ReleaseQueue(c, p)
      PROVE  Line(d)' = Line(d)
  BY <1>4, CreateProcessInductive, CompareQueuesInductive, LockQueueInductive,
     DisableInterruptsInductive, ReleaseQueueInductive
<1>5. UNCHANGED vars => Line(d)' = Line(d)
  BY StutterInductive
<1>. QED
  BY <1>1, <1>2, <1>3, <1>4, <1>5 DEF Next, Schedule, NewProcess, Length

\* One comparison: of two queues each may be seen without the process that is rotated.
LEMMA ComparisonChooses ==
  ASSUME IInv, Chosen, NEW c \in CPU, NEW p \in Creators, CompareQueues(c, p)
  PROVE  /\ creator'[p].cpu \in CPU /\ creator'[p].pc \in {"scan", "lock"}
         /\ creator'[p].pc = "scan" =>
              \A d \in CPU : d < creator'[p].next => Length(creator'[p].cpu) <= Length(d) + 1
         /\ creator'[p].pc = "lock" => \A d \in CPU : Length(creator'[p].cpu) <= Length(d) + 1
<1>1. creator[p] \in Creation /\ creator[p].pc = "scan" /\ creator[p].next \in CPU
      /\ creator[p].cpu \in CPU
  BY DEF CompareQueues, IInv, Types, Pending, Creation
<1>. PICK h \in CPU, i \in CPU : h = creator[p].cpu /\ i = creator[p].next
  BY <1>1
<1>. DEFINE best == IF Len(queue[i]) < Len(queue[h]) THEN i ELSE h
            done == queue[best] = << >> \/ i + 1 = NumCPUs
<1>2. creator'[p].cpu = best /\ creator'[p].next = i + 1
      /\ creator'[p].pc = IF done THEN "lock" ELSE "scan"
  BY <1>1 DEF CompareQueues, IInv, Types, Creation
<1>3. /\ Length(i) \in Nat /\ Length(h) \in Nat /\ Len(queue[i]) \in Nat /\ Len(queue[h]) \in Nat
      /\ Length(i) \in {Len(queue[i]), Len(queue[i]) + 1}
      /\ Length(h) \in {Len(queue[h]), Len(queue[h]) + 1}
      /\ queue[i] = << >> => Len(queue[i]) = 0
      /\ queue[h] = << >> => Len(queue[h]) = 0
      /\ \A d \in CPU : Length(d) \in Nat
  BY LengthOfQueue
<1>4. \A d \in CPU : d < i => Length(h) <= Length(d) + 1
  BY <1>1 DEF Chosen
<1>5. best \in {h, i} /\ Length(best) <= Length(i) + 1
      /\ (best = i => Length(i) <= Length(h))
  BY <1>3
<1>6. \A d \in CPU : d < i => Length(best) <= Length(d) + 1
  BY <1>3, <1>4, <1>5
<1>7. \A d \in CPU : d < i + 1 => Length(best) <= Length(d) + 1
  BY <1>5, <1>6, CPUAssumption DEF CPU
<1>8. queue[best] = << >> => \A d \in CPU : Length(best) <= Length(d) + 1
  BY <1>3, <1>5
<1>9. i + 1 = NumCPUs => \A d \in CPU : Length(best) <= Length(d) + 1
  BY <1>7, CPUAssumption DEF CPU
<1>. QED
  BY <1>2, <1>5, <1>7, <1>8, <1>9

LEMMA BalanceInductive ==
  ASSUME IInv, [Next]_vars, \A p, q \in Creators : p = q, Chosen, Balanced
  PROVE  Chosen' /\ Balanced'
<1>0. \A d \in CPU : Length(d) \in Nat
  BY LengthOfQueue
<1>1. CASE \A c \in CPU, p \in Creators : ~ AddProcess(c, p)
  <2>1. \A d \in CPU : Length(d)' = Length(d)
    BY <1>1, LengthsKept
  <2>2. Balanced'
    BY <2>1 DEF Balanced
  <2>3. ASSUME NEW p \in Creators
        PROVE  /\ creator'[p].cpu \in CPU
               /\ creator'[p].pc = "scan" =>
                    \A d \in CPU : d < creator'[p].next => Length(creator'[p].cpu) <= Length(d) + 1
               /\ creator'[p].pc \in {"lock", "cli", "add"} =>
                    \A d \in CPU : Length(creator'[p].cpu) <= Length(d) + 1
    <3>1. creator[p] \in Creation /\ creator[p].cpu \in CPU /\ creator \in [Creators -> Creation]
          /\ 0 \in CPU
      BY CPUAssumption DEF IInv, Types, Creation, CPU
    <3>2. CASE creator'[p] = creator[p]
      BY <3>1, <3>2 DEF Chosen
    <3>3. ASSUME NEW c \in CPU, CreateProcess(c, p)
          PROVE  creator'[p].cpu = 0 /\ creator'[p].next = 1
                 /\ creator'[p].pc = IF NumCPUs = 1 THEN "lock" ELSE "scan"
      BY <3>1, <3>3 DEF CreateProcess
    <3>4. CASE \E c \in CPU : CreateProcess(c, p)
      <4>1. \A d \in CPU : d < 1 => d = 0
        BY CPUAssumption DEF CPU
      <4>2. NumCPUs = 1 => \A d \in CPU : d = 0
        BY CPUAssumption DEF CPU
      <4>3. Length(0) <= Length(0) + 1
        BY <1>0, <3>1
      <4>. QED
        BY <3>1, <3>3, <3>4, <4>1, <4>2, <4>3
    <3>5. CASE \E c \in CPU : CompareQueues(c, p)
      BY <3>5, ComparisonChooses
    <3>6. CASE \E c \in CPU : LockQueue(c, p) \/ DisableInterrupts(c, p)
      <4>1. creator'[p].cpu = creator[p].cpu /\ creator'[p].pc \in {"cli", "add"}
            /\ creator[p].pc \in {"lock", "cli", "add"}
        BY <3>1, <3>6 DEF LockQueue, DisableInterrupts, Creation
      <4>. QED
        BY <3>1, <4>1 DEF Chosen
    <3>7. CASE \E c \in CPU : ReleaseQueue(c, p)
      <4>1. creator'[p].cpu = 0 /\ creator'[p].pc = "no"
        BY <3>1, <3>7 DEF ReleaseQueue, NotCreating
      <4>. QED
        BY <3>1, <4>1
    <3>8. ASSUME NEW c \in CPU, NEW q \in Creators, NewProcess(c, q), q # p
          PROVE  creator'[p] = creator[p]
      BY <3>1, <3>8 DEF NewProcess, CreateProcess, CompareQueues, LockQueue, DisableInterrupts,
         AddProcess, ReleaseQueue
    <3>9. ASSUME NEW c \in CPU, Interrupt(c) \/ Schedule(c) PROVE creator'[p] = creator[p]
      BY <3>9 DEF Interrupt, Tick, SoftwareInterrupt, TakeIPI, Enter, Schedule, TestSlice,
         SpendSlice, TryLock, Choose, SaveAndErase, Requeue, Pick, Release, Switch
    <3>10. UNCHANGED vars => creator'[p] = creator[p]
      BY DEF vars
    <3>. QED
      BY <1>1, <3>2, <3>4, <3>5, <3>6, <3>7, <3>8, <3>9, <3>10 DEF Next, NewProcess
  <2>4. Chosen'
    BY <2>1, <2>3 DEF Chosen
  <2>. QED
    BY <2>2, <2>4
<1>2. ASSUME NEW c \in CPU, NEW p \in Creators, AddProcess(c, p)
      PROVE  Chosen' /\ Balanced'
  <2>1. PICK k \in CPU, x \in Process :
          /\ k = creator[p].cpu
          /\ Line(k)' = Append(Line(k), x)
          /\ \A d \in CPU \ {k} : Line(d)' = Line(d)
    BY <1>2, AddProcessInductive
  <2>2. Length(k)' = Length(k) + 1
    <3>1. Line(k) \in Seq(Process)
      BY LineType DEF IInv
    <3>. QED
      BY <2>1, <3>1, AppendProperties DEF Length
  <2>3. \A d \in CPU \ {k} : Length(d)' = Length(d)
    BY <2>1 DEF Length
  <2>4. \A d \in CPU : Length(k) <= Length(d) + 1
    BY <1>2, <2>1 DEF AddProcess, Chosen
  <2>5. Balanced'
    <3>1. ASSUME NEW d \in CPU, NEW e \in CPU PROVE Length(d)' <= Length(e)' + 2
      <4>1. Length(d) \in Nat /\ Length(e) \in Nat /\ Length(k) \in Nat
            /\ Length(d) <= Length(e) + 2 /\ Length(k) <= Length(e) + 1
        BY <1>0, <2>4 DEF Balanced
      <4>2. CASE d = k /\ e = k
        BY <4>1, <4>2, <2>2
      <4>3. CASE d = k /\ e # k
        BY <4>1, <4>3, <2>2, <2>3
      <4>4. CASE d # k /\ e = k
        BY <4>1, <4>4, <2>2, <2>3
      <4>5. CASE d # k /\ e # k
        BY <4>1, <4>5, <2>3
      <4>. QED
        BY <4>2, <4>3, <4>4, <4>5
    <3>. QED
      BY <3>1 DEF Balanced
  <2>6. Chosen'
    <3>1. \A q \in Creators : creator'[q].pc = "release"
      BY <1>2 DEF AddProcess, IInv, Types, Creation
    <3>. QED
      BY <3>1 DEF Chosen
  <2>. QED
    BY <2>5, <2>6
<1>. QED
  BY <1>1, <1>2

\* NewProcess takes the shortest queue, but reads the lengths without a lock: the queues differ by
\* two processes at most, as long as one process creates all others, like KernelStage2.
THEOREM QueuesBalancedTheorem ==
  ASSUME \A p, q \in Creators : p = q
  PROVE  Spec => []QueuesBalanced
<1>1. Init => Chosen /\ Balanced
  <2>. SUFFICES ASSUME Init PROVE Chosen /\ Balanced
    OBVIOUS
  <2>1. \A p \in Creators : creator[p].pc = "no"
    BY DEF Init, NotCreating
  <2>2. \A c \in CPU : Line(c) = IF c = 0 THEN <<KernelStage2>> ELSE << >>
    BY DEF Init, Fresh, Line, Open
  <2>3. \A c \in CPU : Length(c) \in {0, 1}
    BY <2>2 DEF Length
  <2>. QED
    BY <2>1, <2>3 DEF Chosen, Balanced
<1>2. IInv /\ Chosen /\ Balanced /\ [Next]_vars => Chosen' /\ Balanced'
  BY BalanceInductive
<1>3. IInv /\ Balanced => QueuesBalanced
  BY LengthOfQueue DEF Balanced, QueuesBalanced
<1>. QED
  BY <1>1, <1>2, <1>3, SchedulerInvariant, PTL DEF Spec

-----------------------------------------------------------------------------
(***************************************************************************)
(* The context of a process is a stack of that process, for any number of  *)
(* CPUs and processes, on one assumption: in the window between making a   *)
(* process current and switching to it a CPU takes no more interrupts than *)
(* a time slice has ticks.  The timer ticks every millisecond, so the      *)
(* window, a few instructions, would have to last five.                    *)
(*                                                                         *)
(* Schedule stays on the old stack in that window, with the lock released  *)
(* and interrupts on; a handler that came as far as the erase there would  *)
(* save the old stack as the context of the new process.  What keeps it    *)
(* from that is the time slice: the process that was picked has a full     *)
(* one, and what is left of it covers the handlers open above the switch   *)
(* that are still to be charged to it (Covered).                           *)
(***************************************************************************)

OwnContexts ==
    \A p \in Process \cup Idle :
      /\ context[p].owner = p
      /\ \A i \in DOMAIN context[p].frames : context[p].frames[i] \in Waiting

Covered(c) ==
    \E k \in DOMAIN exec[c].frames :
      /\ exec[c].frames[k] \in {"release", "switch"}
      /\ \A i \in 1 .. (k - 1) : exec[c].frames[i] \in {"test", "tick"}
      /\ TimeSlice[currentProcess[c]] + window[c] >= DefaultTimeSlice + (k - 1)

\* Process x has a place in the line of CPU c.
OnLine(c, x) == \E i \in DOMAIN Line(c) : Line(c)[i] = x

OwnersAt(c) ==
    /\ window[c] <= WindowTicks
    /\ ~ Leaving(c) => exec[c].owner = currentProcess[c]
    /\ Leaving(c) /\ currentProcess[c] \in Process => Covered(c)
    /\ exec[c].owner \in Process => OnLine(c, exec[c].owner)
    /\ exec[c].owner \in Process \cup {idleProcess[c], NoProcess}
Owners == OwnContexts /\ \A c \in CPU : OwnersAt(c)

\* No two CPUs ever execute on the stack of the same process.
StacksAreApart ==
    \A c, d \in CPU : exec[c].owner = exec[d].owner => c = d \/ exec[c].owner = NoProcess

-----------------------------------------------------------------------------
\* A process never leaves the line it is in.
LEMMA OnLineStays ==
  ASSUME IInv, [Next]_vars, NEW c \in CPU, NEW x, OnLine(c, x)
  PROVE  OnLine(c, x)'
<1>1. /\ IInv'
      /\ \/ \A d \in CPU : Line(d)' = Line(d) /\ Running(d)' = Running(d)
         \/ \E d \in CPU : Turned(d)
         \/ \E k \in CPU, y \in Process : Admitted(k, y)
  BY NextInductive
<1>2. Line(c) \in Seq(Process) /\ Len(Line(c)) \in Nat /\ DOMAIN Line(c) = 1 .. Len(Line(c))
  BY LineType DEF IInv
<1>3. CASE Line(c)' = Line(c)
  BY <1>3 DEF OnLine
<1>4. CASE Line(c) # << >> /\ Line(c)' = Append(Tail(Line(c)), Head(Line(c)))
  <2>1. Permutes(Line(c)', Line(c))
    BY <1>2, <1>4, Rotation
  <2>. QED
    BY <2>1 DEF Permutes, OnLine
<1>5. CASE \E y \in Process : Line(c)' = Append(Line(c), y)
  <2>1. PICK y \in Process : Line(c)' = Append(Line(c), y)
    BY <1>5
  <2>2. /\ Line(c)' \in Seq(Process) /\ Len(Line(c)') = Len(Line(c)) + 1
        /\ \A i \in 1 .. Len(Line(c)) : Line(c)'[i] = Line(c)[i]
    BY <1>2, <2>1, AppendProperties
  <2>3. DOMAIN Line(c)' = 1 .. Len(Line(c)')
    BY <2>2, LenProperties
  <2>. QED
    BY <1>2, <2>2, <2>3 DEF OnLine
<1>. QED
  BY <1>1, <1>3, <1>4, <1>5 DEF Turned, Admitted

\* A process that is current is on the line of its CPU only.
LEMMA CurrentOnLine ==
  ASSUME IInv, NEW c \in CPU, currentProcess[c] \in Process
  PROVE  OnLine(c, currentProcess[c]) /\ \A d \in CPU \ {c} : ~ OnLine(d, currentProcess[c])
<1>1. Line(c) \in Seq(Process) /\ Line(c) # << >> /\ Head(Line(c)) = currentProcess[c]
  BY LineType DEF IInv, Stages, StagesAt
<1>2. 1 \in DOMAIN Line(c) /\ Line(c)[1] = currentProcess[c]
  BY <1>1, EmptySeq, LenProperties
<1>. QED
  BY <1>2 DEF OnLine, IInv, Lines

\* Schedule on one CPU does not touch the time slice of the process of another.
LEMMA TimeSliceElsewhere ==
  ASSUME IInv, NEW c \in CPU, Schedule(c), NEW d \in CPU \ {c}, currentProcess[d] \in Process
  PROVE  TimeSlice'[currentProcess[d]] = TimeSlice[currentProcess[d]]
<1>1. currentProcess[c] # currentProcess[d]
  <2>1. CASE currentProcess[c] \in Process
    BY <2>1, CurrentOnLine
  <2>2. CASE currentProcess[c] \notin Process
    BY <2>2
  <2>. QED
    BY <2>1, <2>2
<1>2. ASSUME Pick(c) PROVE Head(queue[c]) # currentProcess[d]
  <2>1. queue[c] # << >> /\ queue[c] \in Seq(Process)
    <3>1. Open(c, "pick")
      BY <1>2, StackOfCPU DEF Pick, At, Open, IInv
    <3>. QED
      BY <3>1 DEF IInv, Stages, StagesAt, Types
  <2>2. 1 \in DOMAIN queue[c] /\ Head(queue[c]) = queue[c][1]
    BY <2>1, EmptySeq, LenProperties
  <2>3. OnLine(c, Head(queue[c]))
    BY <2>2, QueuePositions DEF OnLine
  <2>. QED
    BY <2>3, CurrentOnLine
<1>3. TimeSlice \in [Process \cup Idle -> 0 .. (SliceWord - 1)]
  BY DEF IInv, Types
<1>4. CASE Pick(c)
  BY <1>2, <1>3, <1>4 DEF Pick
<1>5. CASE ~ Pick(c)
  BY <1>1, <1>3, <1>5 DEF Schedule, TestSlice, SpendSlice, TryLock, Choose, SaveAndErase, Requeue,
     Release, Switch
<1>. QED
  BY <1>4, <1>5

\* A CPU that a step leaves alone.
LEMMA OwnersElsewhere ==
  ASSUME IInv, [Next]_vars, NEW d \in CPU, OwnersAt(d), exec'[d] = exec[d],
         window'[d] = window[d], currentProcess'[d] = currentProcess[d],
         currentProcess[d] \in Process =>
           TimeSlice'[currentProcess[d]] = TimeSlice[currentProcess[d]]
  PROVE  OwnersAt(d)'
<1>1. \A x : OnLine(d, x) => OnLine(d, x)'
  BY OnLineStays
<1>2. Leaving(d)' <=> Leaving(d)
  BY DEF Leaving, Open
<1>3. OnLine(d, exec[d].owner) => OnLine(d, exec[d].owner)'
  BY <1>1 DEF OnLine
<1>4. currentProcess[d] \in Process /\ Covered(d) => Covered(d)'
  BY DEF Covered
<1>5. exec[d].owner \in Process => OnLine(d, exec[d].owner)'
  BY <1>3 DEF OwnersAt
<1>6. /\ window'[d] <= WindowTicks
      /\ ~ Leaving(d)' => exec'[d].owner = currentProcess'[d]
      /\ Leaving(d)' /\ currentProcess'[d] \in Process => Covered(d)'
      /\ exec'[d].owner \in Process \cup {idleProcess[d], NoProcess}
  BY <1>2, <1>4 DEF OwnersAt
<1>. QED
  BY <1>5, <1>6 DEF OwnersAt

-----------------------------------------------------------------------------
(* What a step does to the stack of its own CPU.                           *)

\* In the window before the switch to a process, the handler on top is one of these.
LEMMA HeadInWindow ==
  ASSUME IInv, NEW c \in CPU, OwnersAt(c), Leaving(c), currentProcess[c] \in Process,
         exec[c].frames # << >>
  PROVE  Head(exec[c].frames) \in {"test", "tick", "release", "switch"}
<1>1. PICK k \in DOMAIN exec[c].frames :
        /\ exec[c].frames[k] \in {"release", "switch"}
        /\ \A i \in 1 .. (k - 1) : exec[c].frames[i] \in {"test", "tick"}
  BY DEF OwnersAt, Covered
<1>2. DOMAIN exec[c].frames = 1 .. Len(exec[c].frames) /\ Len(exec[c].frames) \in Nat
      /\ Head(exec[c].frames) = exec[c].frames[1]
  BY StackOfCPU DEF IInv
<1>3. CASE k = 1
  BY <1>1, <1>2, <1>3
<1>4. CASE k # 1
  <2>1. 1 \in 1 .. (k - 1)
    BY <1>2, <1>4
  <2>. QED
    BY <1>1, <1>2, <2>1
<1>. QED
  BY <1>3, <1>4

\* A step within the handler, outside of the window, leaves it outside, or inside.
LEMMA LeavingAfterGoto ==
  ASSUME IInv, NEW c \in CPU, exec[c].frames # << >>, NEW pc \in Handler, Goto(c, pc),
         Head(exec[c].frames) \notin {"release", "switch"}
  PROVE  Leaving(c)' <=> Leaving(c) \/ pc \in {"release", "switch"}
<1>1. /\ DOMAIN exec'[c].frames = DOMAIN exec[c].frames
      /\ exec'[c].frames[1] = pc
      /\ \A i \in DOMAIN exec[c].frames \ {1} : exec'[c].frames[i] = exec[c].frames[i]
  BY GotoStack DEF IInv
<1>2. 1 \in DOMAIN exec[c].frames /\ exec[c].frames[1] \notin {"release", "switch"}
  BY StackOfCPU DEF IInv
<1>. QED
  BY <1>1, <1>2 DEF Leaving, Open

LEMMA LeavingAfterReturn ==
  ASSUME IInv, NEW c \in CPU, exec[c].frames # << >>, Return(c),
         Head(exec[c].frames) \notin {"release", "switch"}
  PROVE  Leaving(c)' <=> Leaving(c)
<1>1. /\ DOMAIN exec'[c].frames = 1 .. Len(exec[c].frames) - 1
      /\ \A i \in DOMAIN exec'[c].frames : exec'[c].frames[i] = exec[c].frames[i + 1]
  BY ReturnStack DEF IInv
<1>2. 1 \in DOMAIN exec[c].frames /\ exec[c].frames[1] \notin {"release", "switch"}
      /\ DOMAIN exec[c].frames = 1 .. Len(exec[c].frames) /\ Len(exec[c].frames) \in Nat
  BY StackOfCPU DEF IInv
<1>3. \A i \in DOMAIN exec[c].frames \ {1} :
        i - 1 \in DOMAIN exec'[c].frames /\ exec'[c].frames[i - 1] = exec[c].frames[i]
  <2>. SUFFICES ASSUME NEW i \in DOMAIN exec[c].frames \ {1}
                PROVE  i - 1 \in DOMAIN exec'[c].frames /\ exec'[c].frames[i - 1] = exec[c].frames[i]
    OBVIOUS
  <2>1. i - 1 \in DOMAIN exec'[c].frames /\ (i - 1) + 1 = i
    BY <1>1, <1>2
  <2>. QED
    BY <1>1, <2>1
<1>4. \A i \in DOMAIN exec'[c].frames : i + 1 \in DOMAIN exec[c].frames
  BY <1>1, <1>2
<1>5. Leaving(c)' => Leaving(c)
  BY <1>1, <1>4 DEF Leaving, Open
<1>6. Leaving(c) => Leaving(c)'
  BY <1>2, <1>3 DEF Leaving, Open
<1>. QED
  BY <1>5, <1>6

LEMMA LeavingAfterEnter ==
  ASSUME IInv, NEW c \in CPU, Enter(c)
  PROVE  Leaving(c)' <=> Leaving(c)
<1>1. /\ DOMAIN exec'[c].frames = 1 .. Len(exec[c].frames) + 1
      /\ exec'[c].frames[1] = "test"
      /\ \A i \in DOMAIN exec[c].frames : exec'[c].frames[i + 1] = exec[c].frames[i]
  BY EnterStack DEF IInv
<1>2. DOMAIN exec[c].frames = 1 .. Len(exec[c].frames) /\ Len(exec[c].frames) \in Nat
  BY StackOfCPU DEF IInv
<1>3. \A i \in DOMAIN exec'[c].frames \ {1} :
        i - 1 \in DOMAIN exec[c].frames /\ exec'[c].frames[i] = exec[c].frames[i - 1]
  BY <1>1, <1>2
<1>4. \A i \in DOMAIN exec[c].frames : i + 1 \in DOMAIN exec'[c].frames
  BY <1>1, <1>2
<1>5. Leaving(c)' => Leaving(c)
  BY <1>1, <1>3 DEF Leaving, Open
<1>6. Leaving(c) => Leaving(c)'
  BY <1>1, <1>4 DEF Leaving, Open
<1>. QED
  BY <1>5, <1>6

\* A step outside of the window, or of a CPU that goes idle.
LEMMA OwnersOutside ==
  ASSUME IInv, [Next]_vars, NEW c \in CPU, OwnersAt(c), exec'[c].owner = exec[c].owner,
         window'[c] = window[c],
         \/ Leaving(c)' /\ currentProcess'[c] \notin Process
         \/ Leaving(c)' /\ Covered(c)'
         \/ /\ currentProcess'[c] = currentProcess[c] /\ (Leaving(c)' <=> Leaving(c))
            /\ ~ Leaving(c) \/ currentProcess[c] \notin Process
  PROVE  OwnersAt(c)'
<1>1. \A x : OnLine(c, x) => OnLine(c, x)'
  BY OnLineStays
<1>2. exec[c].owner \in Process => OnLine(c, exec[c].owner)'
  BY <1>1 DEF OnLine, OwnersAt
<1>3. /\ window'[c] <= WindowTicks
      /\ ~ Leaving(c)' => exec'[c].owner = currentProcess'[c]
      /\ Leaving(c)' /\ currentProcess'[c] \in Process => Covered(c)'
      /\ exec'[c].owner \in Process \cup {idleProcess[c], NoProcess}
  BY DEF OwnersAt
<1>. QED
  BY <1>2, <1>3 DEF OwnersAt

\* An interrupt in the window is counted, and its handler is still to be charged to the process.
LEMMA EnterOwners ==
  ASSUME IInv, [Next]_vars, NEW c \in CPU, OwnersAt(c), Enter(c)
  PROVE  OwnersAt(c)'
<1>1. /\ exec'[c].owner = exec[c].owner
      /\ DOMAIN exec'[c].frames = 1 .. Len(exec[c].frames) + 1
      /\ exec'[c].frames[1] = "test"
      /\ \A i \in DOMAIN exec[c].frames : exec'[c].frames[i + 1] = exec[c].frames[i]
  BY EnterStack DEF IInv
<1>2. DOMAIN exec[c].frames = 1 .. Len(exec[c].frames) /\ Len(exec[c].frames) \in Nat
  BY StackOfCPU DEF IInv
<1>3. Leaving(c)' <=> Leaving(c)
  BY LeavingAfterEnter
<1>4. UNCHANGED <<currentProcess, TimeSlice>> /\ window[c] \in Nat
      /\ window'[c] = IF Leaving(c) THEN window[c] + 1 ELSE window[c]
  BY DEF Enter, IInv, Types
<1>5. CASE Leaving(c) /\ currentProcess[c] \in Process
  <2>1. PICK k \in DOMAIN exec[c].frames :
          /\ exec[c].frames[k] \in {"release", "switch"}
          /\ \A i \in 1 .. (k - 1) : exec[c].frames[i] \in {"test", "tick"}
          /\ TimeSlice[currentProcess[c]] + window[c] >= DefaultTimeSlice + (k - 1)
    BY <1>5 DEF OwnersAt, Covered
  <2>2. k + 1 \in DOMAIN exec'[c].frames /\ exec'[c].frames[k + 1] \in {"release", "switch"}
    BY <1>1, <1>2, <2>1
  <2>3. ASSUME NEW i \in 1 .. k PROVE exec'[c].frames[i] \in {"test", "tick"}
    <3>1. CASE i = 1
      BY <1>1, <3>1
    <3>2. CASE i # 1
      <4>1. i - 1 \in 1 .. (k - 1) /\ i - 1 \in DOMAIN exec[c].frames /\ (i - 1) + 1 = i
        BY <1>2, <2>1, <3>2
      <4>. QED
        BY <1>1, <2>1, <4>1
    <3>. QED
      BY <3>1, <3>2
  <2>4. TimeSlice[currentProcess[c]] \in Int /\ DefaultTimeSlice \in Int
    BY <1>5, SliceAssumption DEF IInv, Types
  <2>5. TimeSlice'[currentProcess'[c]] + window'[c] >= DefaultTimeSlice + ((k + 1) - 1)
    BY <1>2, <1>4, <1>5, <2>1, <2>4
  <2>6. \A i \in 1 .. ((k + 1) - 1) : exec'[c].frames[i] \in {"test", "tick"}
    BY <1>2, <2>1, <2>3
  <2>7. Covered(c)'
    BY <2>2, <2>5, <2>6 DEF Covered
  <2>8. \A x : OnLine(c, x) => OnLine(c, x)'
    BY OnLineStays
  <2>9. exec[c].owner \in Process => OnLine(c, exec[c].owner)'
    BY <1>1, <2>8 DEF OnLine, OwnersAt
  <2>10. window'[c] <= WindowTicks
    BY <1>4, <1>5, BoundAssumption DEF Enter
  <2>. QED
    BY <1>1, <1>3, <1>4, <1>5, <2>7, <2>9, <2>10 DEF OwnersAt
<1>6. CASE ~ (Leaving(c) /\ currentProcess[c] \in Process)
  <2>1. \A x : OnLine(c, x) => OnLine(c, x)'
    BY OnLineStays
  <2>2. exec[c].owner \in Process => OnLine(c, exec[c].owner)'
    BY <1>1, <2>1 DEF OnLine, OwnersAt
  <2>3. window'[c] <= WindowTicks
    BY <1>4, BoundAssumption DEF Enter, OwnersAt
  <2>. QED
    BY <1>1, <1>3, <1>4, <1>6, <2>2, <2>3 DEF OwnersAt
<1>. QED
  BY <1>5, <1>6

\* In the window a handler finds that the process has time left.
LEMMA TestSliceOwners ==
  ASSUME IInv, [Next]_vars, WindowTicks <= DefaultTimeSlice, NEW c \in CPU, OwnersAt(c),
         TestSlice(c)
  PROVE  OwnersAt(c)'
<1>1. exec[c].frames # << >> /\ Head(exec[c].frames) = "test"
  BY DEF TestSlice, At
<1>2. PICK pc \in {"tick", "lock"} :
        /\ Goto(c, pc)
        /\ currentProcess[c] # NoProcess /\ TimeSlice[currentProcess[c]] > 0 => pc = "tick"
  BY DEF TestSlice
<1>3. pc \in Handler
  BY DEF Handler, Waiting
<1>4. /\ exec'[c].owner = exec[c].owner
      /\ DOMAIN exec'[c].frames = DOMAIN exec[c].frames
      /\ exec'[c].frames[1] = pc
      /\ \A i \in DOMAIN exec[c].frames \ {1} : exec'[c].frames[i] = exec[c].frames[i]
  BY <1>1, <1>2, <1>3, GotoStack DEF IInv
<1>5. Leaving(c)' <=> Leaving(c)
  BY <1>1, <1>2, <1>3, LeavingAfterGoto
<1>6. UNCHANGED <<currentProcess, TimeSlice, window>>
  BY DEF TestSlice
<1>7. ASSUME Leaving(c), currentProcess[c] \in Process PROVE Covered(c)'
  <2>1. PICK k \in DOMAIN exec[c].frames :
          /\ exec[c].frames[k] \in {"release", "switch"}
          /\ \A i \in 1 .. (k - 1) : exec[c].frames[i] \in {"test", "tick"}
          /\ TimeSlice[currentProcess[c]] + window[c] >= DefaultTimeSlice + (k - 1)
    BY <1>7 DEF OwnersAt, Covered
  <2>2. DOMAIN exec[c].frames = 1 .. Len(exec[c].frames) /\ Len(exec[c].frames) \in Nat
        /\ exec[c].frames[1] = "test"
    BY <1>1, StackOfCPU DEF IInv
  <2>3. k # 1 /\ k \in Nat /\ k >= 2
    BY <2>1, <2>2
  <2>4. /\ TimeSlice[currentProcess[c]] \in Int /\ DefaultTimeSlice \in Int /\ window[c] \in Int
        /\ WindowTicks \in Int /\ window[c] <= WindowTicks
    BY <1>7, SliceAssumption, BoundAssumption DEF IInv, Types, OwnersAt
  <2>5. TimeSlice[currentProcess[c]] > 0
    BY <2>1, <2>3, <2>4
  <2>6. pc = "tick"
    BY <1>2, <1>7, <2>5, ProcessAssumption
  <2>7. \A i \in 1 .. (k - 1) : exec'[c].frames[i] \in {"test", "tick"}
    <3>. SUFFICES ASSUME NEW i \in 1 .. (k - 1) PROVE exec'[c].frames[i] \in {"test", "tick"}
      OBVIOUS
    <3>1. i \in DOMAIN exec[c].frames
      BY <2>1, <2>2, <2>3
    <3>. QED
      BY <1>4, <2>1, <2>6, <3>1
  <2>8. exec'[c].frames[k] \in {"release", "switch"} /\ k \in DOMAIN exec'[c].frames
    BY <1>4, <2>1, <2>3
  <2>. QED
    BY <1>6, <2>1, <2>7, <2>8 DEF Covered
<1>. QED
  BY <1>4, <1>5, <1>6, <1>7, OwnersOutside

\* In the window a handler spends what the slice was to cover.
LEMMA SpendSliceOwners ==
  ASSUME IInv, [Next]_vars, WindowTicks <= DefaultTimeSlice, NEW c \in CPU, OwnersAt(c),
         SpendSlice(c)
  PROVE  OwnersAt(c)'
<1>1. exec[c].frames # << >> /\ Head(exec[c].frames) = "tick" /\ Return(c)
  BY DEF SpendSlice, At
<1>2. /\ exec'[c].owner = exec[c].owner
      /\ DOMAIN exec'[c].frames = 1 .. Len(exec[c].frames) - 1
      /\ \A i \in DOMAIN exec'[c].frames : exec'[c].frames[i] = exec[c].frames[i + 1]
  BY <1>1, ReturnStack DEF IInv
<1>3. Leaving(c)' <=> Leaving(c)
  BY <1>1, LeavingAfterReturn
<1>4. UNCHANGED <<currentProcess, window>>
  BY DEF SpendSlice
<1>5. ASSUME Leaving(c), currentProcess[c] \in Process PROVE Covered(c)'
  <2>1. PICK k \in DOMAIN exec[c].frames :
          /\ exec[c].frames[k] \in {"release", "switch"}
          /\ \A i \in 1 .. (k - 1) : exec[c].frames[i] \in {"test", "tick"}
          /\ TimeSlice[currentProcess[c]] + window[c] >= DefaultTimeSlice + (k - 1)
    BY <1>5 DEF OwnersAt, Covered
  <2>2. DOMAIN exec[c].frames = 1 .. Len(exec[c].frames) /\ Len(exec[c].frames) \in Nat
        /\ exec[c].frames[1] = "tick"
    BY <1>1, StackOfCPU DEF IInv
  <2>3. k # 1 /\ k \in Nat /\ k >= 2
    BY <2>1, <2>2
  <2>4. /\ TimeSlice[currentProcess[c]] \in 0 .. (SliceWord - 1) /\ SliceWord \in Nat
        /\ DefaultTimeSlice \in Int /\ window[c] \in Int
        /\ WindowTicks \in Int /\ window[c] <= WindowTicks
    BY <1>5, SliceAssumption, BoundAssumption DEF IInv, Types, OwnersAt
  <2>5. TimeSlice[currentProcess[c]] > 0
    BY <2>1, <2>3, <2>4
  <2>6. TimeSlice'[currentProcess[c]] = TimeSlice[currentProcess[c]] - 1
    <3>1. TimeSlice'[currentProcess[c]] = (TimeSlice[currentProcess[c]] - 1) % SliceWord
      BY <1>5 DEF SpendSlice, IInv, Types
    <3>2. \A t \in 0 .. (SliceWord - 1) : t % SliceWord = t
      BY <2>4
    <3>3. TimeSlice[currentProcess[c]] - 1 \in 0 .. (SliceWord - 1)
      BY <2>4, <2>5
    <3>. QED
      BY <3>1, <3>2, <3>3, Zenon
  <2>7. k - 1 \in DOMAIN exec'[c].frames /\ exec'[c].frames[k - 1] \in {"release", "switch"}
    <3>1. k - 1 \in DOMAIN exec'[c].frames /\ (k - 1) + 1 = k
      BY <1>2, <2>1, <2>2, <2>3
    <3>. QED
      BY <1>2, <2>1, <3>1
  <2>8. ASSUME NEW i \in 1 .. ((k - 1) - 1) PROVE exec'[c].frames[i] \in {"test", "tick"}
    <3>1. i \in DOMAIN exec'[c].frames /\ i + 1 \in 1 .. (k - 1)
      BY <1>2, <2>1, <2>2, <2>3
    <3>. QED
      BY <1>2, <2>1, <3>1
  <2>9. TimeSlice'[currentProcess'[c]] + window'[c] >= DefaultTimeSlice + ((k - 1) - 1)
    BY <1>4, <2>1, <2>3, <2>4, <2>6
  <2>. QED
    BY <2>7, <2>8, <2>9 DEF Covered
<1>. QED
  BY <1>2, <1>3, <1>4, <1>5, OwnersOutside

\* A handler that tries for the lock, or is in the section, has come there outside of the window
\* or interrupts the way to an idle process.
LEMMA NotInWindow ==
  ASSUME IInv, NEW c \in CPU, OwnersAt(c), exec[c].frames # << >>,
         Head(exec[c].frames) \in {"lock", "choose", "erase", "add", "pick"}
  PROVE  ~ Leaving(c) \/ currentProcess[c] \notin Process
BY HeadInWindow

LEMMA TryLockOwners ==
  ASSUME IInv, [Next]_vars, NEW c \in CPU, OwnersAt(c), TryLock(c)
  PROVE  OwnersAt(c)'
<1>1. exec[c].frames # << >> /\ Head(exec[c].frames) = "lock" /\ "choose" \in Handler
  BY DEF TryLock, At, Handler, Section
<1>2. ~ Leaving(c) \/ currentProcess[c] \notin Process
  BY <1>1, NotInWindow
<1>3. CASE Return(c)
  <2>1. exec'[c].owner = exec[c].owner /\ (Leaving(c)' <=> Leaving(c))
    BY <1>1, <1>3, ReturnStack, LeavingAfterReturn DEF IInv
  <2>. QED
    BY <1>2, <2>1, OwnersOutside DEF TryLock
<1>4. CASE Goto(c, "choose")
  <2>1. exec'[c].owner = exec[c].owner /\ (Leaving(c)' <=> Leaving(c))
    BY <1>1, <1>4, GotoStack, LeavingAfterGoto DEF IInv
  <2>. QED
    BY <1>2, <2>1, OwnersOutside DEF TryLock
<1>. QED
  BY <1>3, <1>4 DEF TryLock

LEMMA ChooseOwners ==
  ASSUME IInv, [Next]_vars, NEW c \in CPU, OwnersAt(c), Choose(c)
  PROVE  OwnersAt(c)'
<1>1. exec[c].frames # << >> /\ Head(exec[c].frames) = "choose"
      /\ {"release", "pick", "erase"} \subseteq Handler
  BY DEF Choose, At, Handler, Section
<1>2. ~ Leaving(c) \/ currentProcess[c] \notin Process
  BY <1>1, NotInWindow
<1>3. PICK pc \in {"release", "pick", "erase"} :
        /\ Goto(c, pc)
        /\ IF pc = "release" THEN currentProcess'[c] = idleProcess[c]
                             ELSE currentProcess'[c] = currentProcess[c]
  BY DEF Choose, IInv, Types
<1>4. exec'[c].owner = exec[c].owner /\ (Leaving(c)' <=> Leaving(c) \/ pc = "release")
  BY <1>1, <1>3, GotoStack, LeavingAfterGoto DEF IInv
<1>5. idleProcess[c] \notin Process
  BY ProcessAssumption DEF Idle
<1>. QED
  BY <1>2, <1>3, <1>4, <1>5, OwnersOutside DEF Choose

LEMMA RequeueOwners ==
  ASSUME IInv, [Next]_vars, NEW c \in CPU, OwnersAt(c), Requeue(c)
  PROVE  OwnersAt(c)'
<1>1. exec[c].frames # << >> /\ Head(exec[c].frames) = "add" /\ "pick" \in Handler
      /\ Goto(c, "pick")
  BY DEF Requeue, At, Handler, Section
<1>2. ~ Leaving(c) \/ currentProcess[c] \notin Process
  BY <1>1, NotInWindow
<1>3. exec'[c].owner = exec[c].owner /\ (Leaving(c)' <=> Leaving(c))
  BY <1>1, GotoStack, LeavingAfterGoto DEF IInv
<1>. QED
  BY <1>2, <1>3, OwnersOutside DEF Requeue

\* What is saved is the stack of the current process, with handlers on it that wait.
LEMMA SaveAndEraseOwners ==
  ASSUME IInv, [Next]_vars, NEW c \in CPU, OwnContexts, OwnersAt(c), SaveAndErase(c)
  PROVE  OwnersAt(c)' /\ OwnContexts'
<1>1. exec[c].frames # << >> /\ Head(exec[c].frames) = "erase" /\ "add" \in Handler
      /\ Goto(c, "add")
  BY DEF SaveAndErase, At, Handler, Section
<1>2. exec[c].frames[1] = "erase" /\ 1 \in DOMAIN exec[c].frames
      /\ DOMAIN exec[c].frames = 1 .. Len(exec[c].frames) /\ Len(exec[c].frames) \in Nat
      /\ exec[c].frames \in Seq(Handler) /\ exec[c] \in Stack
  BY <1>1, StackOfCPU DEF IInv, Types
<1>3. currentProcess[c] \in Process
  BY <1>2 DEF IInv, Stages, StagesAt, Open
<1>4. ~ Leaving(c) /\ exec[c].owner = currentProcess[c]
  BY <1>1, <1>3, NotInWindow DEF OwnersAt
<1>5. OwnersAt(c)'
  <2>1. exec'[c].owner = exec[c].owner /\ (Leaving(c)' <=> Leaving(c))
    BY <1>1, GotoStack, LeavingAfterGoto DEF IInv
  <2>. QED
    BY <1>4, <2>1, OwnersOutside DEF SaveAndErase
<1>6. \A i \in DOMAIN exec[c].frames \ {1} : exec[c].frames[i] \in Waiting
  <2>. SUFFICES ASSUME NEW i \in DOMAIN exec[c].frames \ {1} PROVE exec[c].frames[i] \in Waiting
    OBVIOUS
  <2>1. exec[c].frames[i] \in Handler
    BY <1>2, ElementOfSeq
  <2>2. exec[c].frames[i] # "switch"
    BY <1>4 DEF Leaving, Open
  <2>3. exec[c].frames[i] \notin Section
    BY <1>1, InnermostInSection DEF IInv, Nesting, Waiting
  <2>. QED
    BY <2>1, <2>2, <2>3 DEF Handler
<1>. DEFINE saved == [exec[c] EXCEPT !.frames = Tail(@)]
<1>7. saved.owner = currentProcess[c] /\ saved.frames = Tail(exec[c].frames)
  BY <1>2, <1>4 DEF Stack
<1>8. \A i \in DOMAIN saved.frames : saved.frames[i] \in Waiting
  <2>1. /\ Tail(exec[c].frames) \in Seq(Handler)
        /\ Len(Tail(exec[c].frames)) = Len(exec[c].frames) - 1
        /\ \A i \in 1 .. Len(Tail(exec[c].frames)) :
             Tail(exec[c].frames)[i] = exec[c].frames[i + 1]
    BY <1>1, <1>2, HeadTailProperties
  <2>2. DOMAIN Tail(exec[c].frames) = 1 .. Len(Tail(exec[c].frames))
    BY <2>1, LenProperties
  <2>3. \A i \in DOMAIN Tail(exec[c].frames) : i + 1 \in DOMAIN exec[c].frames \ {1}
    BY <1>2, <2>1, <2>2
  <2>. QED
    BY <1>6, <1>7, <2>1, <2>2, <2>3
<1>9. context' = [context EXCEPT ![currentProcess[c]] = saved]
  BY DEF SaveAndErase
<1>. HIDE DEF saved
<1>10. OwnContexts'
  BY <1>7, <1>8, <1>9 DEF OwnContexts, IInv, Types
<1>. QED
  BY <1>5, <1>10

\* The process that is picked has a full slice.
LEMMA PickOwners ==
  ASSUME IInv, [Next]_vars, NEW c \in CPU, OwnersAt(c), Pick(c)
  PROVE  OwnersAt(c)'
<1>1. exec[c].frames # << >> /\ Head(exec[c].frames) = "pick" /\ "release" \in Handler
      /\ Goto(c, "release")
  BY DEF Pick, At, Handler, Section
<1>2. /\ exec'[c].owner = exec[c].owner
      /\ DOMAIN exec'[c].frames = DOMAIN exec[c].frames /\ 1 \in DOMAIN exec[c].frames
      /\ exec'[c].frames[1] = "release"
  BY <1>1, GotoStack, StackOfCPU DEF IInv
<1>3. Leaving(c)'
  BY <1>2 DEF Leaving, Open
<1>4. queue[c] # << >> /\ Head(queue[c]) \in Process
  <2>1. Open(c, "pick")
    BY <1>1, StackOfCPU DEF Open, IInv
  <2>. QED
    BY <2>1, HeadTailProperties DEF IInv, Stages, StagesAt, Types
<1>5. currentProcess'[c] = Head(queue[c]) /\ TimeSlice'[Head(queue[c])] = DefaultTimeSlice
      /\ window'[c] = window[c] /\ window[c] \in Nat
  BY <1>4 DEF Pick, IInv, Types
<1>6. Covered(c)'
  <2>1. \A i \in 1 .. (1 - 1) : exec'[c].frames[i] \in {"test", "tick"}
    OBVIOUS
  <2>2. TimeSlice'[currentProcess'[c]] + window'[c] >= DefaultTimeSlice + (1 - 1)
    BY <1>5, SliceAssumption
  <2>. QED
    BY <1>2, <2>1, <2>2 DEF Covered
<1>. QED
  BY <1>2, <1>3, <1>5, <1>6, OwnersOutside

LEMMA ReleaseOwners ==
  ASSUME IInv, [Next]_vars, NEW c \in CPU, OwnersAt(c), Release(c)
  PROVE  OwnersAt(c)'
<1>1. exec[c].frames # << >> /\ Head(exec[c].frames) = "release" /\ "switch" \in Handler
      /\ Goto(c, "switch")
  BY DEF Release, At, Handler, Section
<1>2. /\ exec'[c].owner = exec[c].owner
      /\ DOMAIN exec'[c].frames = DOMAIN exec[c].frames /\ 1 \in DOMAIN exec[c].frames
      /\ exec'[c].frames[1] = "switch" /\ exec[c].frames[1] = "release"
      /\ DOMAIN exec[c].frames = 1 .. Len(exec[c].frames)
  BY <1>1, GotoStack, StackOfCPU DEF IInv
<1>3. Leaving(c)' /\ Leaving(c)
  BY <1>2 DEF Leaving, Open
<1>4. UNCHANGED <<currentProcess, TimeSlice, window>>
  BY DEF Release
<1>5. ASSUME currentProcess[c] \in Process PROVE Covered(c)'
  <2>1. PICK k \in DOMAIN exec[c].frames :
          /\ exec[c].frames[k] \in {"release", "switch"}
          /\ \A i \in 1 .. (k - 1) : exec[c].frames[i] \in {"test", "tick"}
          /\ TimeSlice[currentProcess[c]] + window[c] >= DefaultTimeSlice + (k - 1)
    BY <1>3, <1>5 DEF OwnersAt, Covered
  <2>2. k = 1
    <3>. SUFFICES ASSUME k # 1 PROVE FALSE
      OBVIOUS
    <3>1. 1 \in 1 .. (k - 1)
      BY <1>2, <2>1
    <3>. QED
      BY <1>2, <2>1, <3>1
  <2>3. \A i \in 1 .. (1 - 1) : exec'[c].frames[i] \in {"test", "tick"}
    OBVIOUS
  <2>. QED
    BY <1>2, <1>4, <2>1, <2>2, <2>3 DEF Covered
<1>. QED
  BY <1>2, <1>3, <1>4, <1>5, OwnersOutside

\* ProcessSwitch loads a context of the current process, and the window is over.
LEMMA SwitchOwners ==
  ASSUME IInv, [Next]_vars, NEW c \in CPU, OwnContexts, OwnersAt(c), Switch(c)
  PROVE  OwnersAt(c)'
<1>1. exec[c].frames # << >> /\ exec[c].frames[1] = "switch" /\ 1 \in DOMAIN exec[c].frames
  BY StackOfCPU DEF Switch, At, IInv
<1>2. currentProcess[c] # NoProcess
  BY <1>1 DEF IInv, Stages, StagesAt
<1>3. currentProcess[c] \in Process \cup {idleProcess[c]} /\ currentProcess[c] \in Process \cup Idle
  BY <1>2 DEF IInv, Types, Idle
<1>4. exec'[c] = context[currentProcess[c]] /\ window'[c] = 0 /\ UNCHANGED currentProcess
  BY DEF Switch, IInv, Types
<1>5. /\ exec'[c].owner = currentProcess[c]
      /\ \A i \in DOMAIN exec'[c].frames : exec'[c].frames[i] \in Waiting
  BY <1>3, <1>4 DEF OwnContexts
<1>6. ~ Leaving(c)'
  BY <1>5 DEF Leaving, Open, Waiting
<1>7. currentProcess[c] \in Process => OnLine(c, currentProcess[c])
  BY CurrentOnLine
<1>8. \A x : OnLine(c, x) => OnLine(c, x)'
  BY OnLineStays
<1>9. exec'[c].owner \in Process => OnLine(c, exec[c].owner)'
  BY <1>5, <1>7, <1>8 DEF OnLine
<1>10. 0 <= WindowTicks
  BY BoundAssumption
<1>. QED
  BY <1>3, <1>4, <1>5, <1>6, <1>9, <1>10 DEF OwnersAt

-----------------------------------------------------------------------------
\* Every step keeps the stacks with their owners.
LEMMA OwnersInductive ==
  ASSUME IInv, [Next]_vars, WindowTicks <= DefaultTimeSlice, Owners
  PROVE  Owners'
<1>1. ASSUME UNCHANGED <<currentProcess, TimeSlice, context, exec, window>> PROVE Owners'
  <2>1. \A d \in CPU : OwnersAt(d)'
    BY <1>1, OwnersElsewhere DEF Owners
  <2>2. OwnContexts'
    BY <1>1 DEF Owners, OwnContexts
  <2>. QED
    BY <2>1, <2>2 DEF Owners
<1>2. ASSUME NEW c \in CPU, Interrupt(c) PROVE Owners'
  <2>1. Enter(c)
    BY <1>2 DEF Interrupt, Tick, SoftwareInterrupt, TakeIPI
  <2>2. OwnersAt(c)'
    BY <2>1, EnterOwners DEF Owners
  <2>3. ASSUME NEW d \in CPU \ {c} PROVE OwnersAt(d)'
    <3>1. exec'[d] = exec[d]
      BY <2>1, EnterStack DEF IInv
    <3>2. window'[d] = window[d] /\ UNCHANGED <<currentProcess, TimeSlice>>
      BY <2>1 DEF Enter, IInv, Types
    <3>. QED
      BY <3>1, <3>2, OwnersElsewhere DEF Owners
  <2>4. OwnContexts'
    BY <2>1 DEF Enter, Owners, OwnContexts
  <2>. QED
    BY <2>2, <2>3, <2>4 DEF Owners
<1>3. ASSUME NEW c \in CPU, Schedule(c) PROVE Owners'
  <2>1. OwnersAt(c)'
    BY <1>3, TestSliceOwners, SpendSliceOwners, TryLockOwners, ChooseOwners, SaveAndEraseOwners,
       RequeueOwners, PickOwners, ReleaseOwners, SwitchOwners DEF Schedule, Owners
  <2>2. OwnContexts'
    <3>1. CASE SaveAndErase(c)
      BY <3>1, SaveAndEraseOwners DEF Owners
    <3>2. CASE ~ SaveAndErase(c)
      <4>1. UNCHANGED context
        BY <1>3, <3>2 DEF Schedule, TestSlice, SpendSlice, TryLock, Choose, Requeue, Pick, Release,
           Switch
      <4>. QED
        BY <4>1 DEF Owners, OwnContexts
    <3>. QED
      BY <3>1, <3>2
  <2>3. ASSUME NEW d \in CPU \ {c} PROVE OwnersAt(d)'
    <3>1. exec'[d] = exec[d]
      BY <1>3 DEF Schedule, TestSlice, SpendSlice, TryLock, Choose, SaveAndErase, Requeue, Pick,
         Release, Switch, Goto, Return, IInv, Types
    <3>2. window'[d] = window[d] /\ currentProcess'[d] = currentProcess[d]
      BY <1>3 DEF Schedule, TestSlice, SpendSlice, TryLock, Choose, SaveAndErase, Requeue, Pick,
         Release, Switch, IInv, Types
    <3>. QED
      BY <1>3, <3>1, <3>2, TimeSliceElsewhere, OwnersElsewhere DEF Owners
  <2>. QED
    BY <2>1, <2>2, <2>3 DEF Owners
<1>4. ASSUME NEW c \in CPU, NEW p \in Creators, NewProcess(c, p) PROVE Owners'
  <2>1. UNCHANGED <<currentProcess, TimeSlice, context, exec, window>>
    BY <1>4 DEF NewProcess, CreateProcess, CompareQueues, LockQueue, DisableInterrupts,
       AddProcess, ReleaseQueue, Unchanged
  <2>. QED
    BY <1>1, <2>1
<1>5. CASE UNCHANGED vars
  BY <1>1, <1>5 DEF vars
<1>. QED
  BY <1>2, <1>3, <1>4, <1>5 DEF Next

LEMMA InitOwners == Init => Owners
<1>. SUFFICES ASSUME Init PROVE Owners
  OBVIOUS
<1>1. OwnContexts
  BY DEF Init, Fresh, OwnContexts
<1>2. ASSUME NEW c \in CPU PROVE OwnersAt(c)
  <2>1. exec[c].frames = << >> /\ exec[c].owner = NoProcess /\ currentProcess[c] = NoProcess
        /\ window[c] = 0
    BY DEF Init, Fresh
  <2>2. ~ Leaving(c)
    BY <2>1 DEF Leaving, Open
  <2>. QED
    BY <2>1, <2>2, BoundAssumption, ProcessAssumption DEF OwnersAt
<1>. QED
  BY <1>1, <1>2 DEF Owners

\* Where every stack is, as long as the window before a switch is shorter than a time slice.
THEOREM OwnersInvariant ==
  ASSUME WindowTicks <= DefaultTimeSlice
  PROVE  Spec => []Owners
<1>1. IInv /\ Owners /\ [Next]_vars => Owners'
  BY OwnersInductive
<1>. QED
  BY <1>1, InitOwners, SchedulerInvariant, PTL DEF Spec

\* "Save the stack": the context that Schedule saves for a process is a stack of that process,
\* as long as a CPU takes no more interrupts in the window before a switch than a slice has ticks.
THEOREM ContextIsOwnTheorem ==
  ASSUME WindowTicks <= DefaultTimeSlice
  PROVE  Spec => []ContextIsOwn
<1>1. Owners => ContextIsOwn
  BY DEF Owners, OwnContexts, ContextIsOwn
<1>. QED
  BY <1>1, OwnersInvariant, PTL

\* ProcessSwitch never loads a stack on which another CPU executes.
THEOREM StacksAreApartTheorem ==
  ASSUME WindowTicks <= DefaultTimeSlice
  PROVE  Spec => []StacksAreApart
<1>1. IInv /\ Owners => StacksAreApart
  <2>. SUFFICES ASSUME IInv, Owners, NEW c \in CPU, NEW d \in CPU, exec[c].owner = exec[d].owner,
                       exec[c].owner # NoProcess
                PROVE  c = d
    BY DEF StacksAreApart
  <2>1. CASE exec[c].owner \in Process
    BY <2>1 DEF Owners, OwnersAt, OnLine, IInv, Lines
  <2>2. CASE exec[c].owner \notin Process
    <3>1. exec[c].owner = idleProcess[c] /\ exec[d].owner = idleProcess[d]
      BY <2>2 DEF Owners, OwnersAt
    <3>. QED
      BY <3>1, ProcessAssumption
  <2>. QED
    BY <2>1, <2>2
<1>. QED
  BY <1>1, OwnersInvariant, SchedulerInvariant, PTL

=============================================================================
