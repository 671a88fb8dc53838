---------------------- MODULE PageFrameAllocator_proofs ----------------------
(***************************************************************************)
(* Theorems about the page frame allocator, for every memory map, every    *)
(* set of clients and every size of run.                                   *)
(***************************************************************************)
EXTENDS PageFrameAllocator, FiniteSetTheorems, TLAPS

-----------------------------------------------------------------------------
(* The bitmap.                                                             *)

LEMMA ByteCount ==
  ASSUME NEW n \in Nat
  PROVE  n \div 8 \in Nat
OBVIOUS

\* The bitmap has at least one byte, and its cells form a finite set.
LEMMA BitmapRange ==
  ASSUME TotalMemory \in Nat
  PROVE  /\ Bits \in Nat /\ Bits >= 8
         /\ Addressable \subseteq Nat
         /\ IsFiniteSet(Addressable)
<1>1. TotalMemory \div 8 \in Nat
  BY ByteCount
<1>2. Bits \in Nat /\ Bits >= 8
  BY <1>1 DEF Bits, BitmapSize
<1>3. IsFiniteSet(0 .. Bits)
  BY <1>2, FS_Interval
<1>. QED
  BY <1>2, <1>3 DEF Addressable

\* Bitmap::Set to true on cells that are clear: what it adds it counts.
LEMMA MarkCount ==
  ASSUME NEW S, NEW T, IsFiniteSet(S), IsFiniteSet(T)
  PROVE  /\ IsFiniteSet(T \ S)
         /\ Cardinality(T \ S) \in Nat
         /\ Cardinality(S) \in Nat
         /\ Cardinality(S \cup (T \ S)) = Cardinality(S) + Cardinality(T \ S)
<1>1. IsFiniteSet(T \ S)
  BY FS_Difference
<1>2. S \cap (T \ S) = {}
  OBVIOUS
<1>3. /\ Cardinality(T \ S) \in Nat
      /\ Cardinality(S) \in Nat
  BY <1>1, FS_CardinalityType
<1>4. Cardinality(S \cup (T \ S))
        = Cardinality(S) + Cardinality(T \ S) - Cardinality({})
  BY <1>1, <1>2, FS_Union
<1>. QED
  BY <1>1, <1>3, <1>4, FS_EmptySet

\* Bitmap::Set to false on cells that are set: what it removes it counts.
LEMMA ClearCount ==
  ASSUME NEW S, NEW T, IsFiniteSet(S)
  PROVE  /\ Cardinality(T \cap S) \in Nat
         /\ Cardinality(S) \in Nat
         /\ Cardinality(S \ (T \cap S)) = Cardinality(S) - Cardinality(T \cap S)
<1>1. S \cap (T \cap S) = T \cap S
  OBVIOUS
<1>2. Cardinality(S \ (T \cap S)) = Cardinality(S) - Cardinality(S \cap (T \cap S))
  BY FS_Difference
<1>3. T \cap S \subseteq S
  OBVIOUS
<1>4. IsFiniteSet(T \cap S)
  BY <1>3, FS_Subset
<1>5. Cardinality(T \cap S) \in Nat
  BY <1>4, FS_CardinalityType
<1>6. Cardinality(S) \in Nat
  BY FS_CardinalityType
<1>. QED
  BY <1>1, <1>2, <1>5, <1>6

-----------------------------------------------------------------------------
(* What each operation on a range of pages does to bitmap and counters.    *)

Balance == FreeMemory + UsedMemory + ReservedMemory
Marked == UsedMemory + ReservedMemory - Cardinality(locked)

\* LockPages and ReservePages only set bits, among them those of the range that
\* the bitmap covers, and keep the two sums.
LEMMA LockEffect ==
  ASSUME TypeOK, NEW pages, LockPages(pages) \/ ReservePages(pages)
  PROVE  /\ locked' = locked \cup (pages \cap Addressable)
         /\ locked' \subseteq Addressable
         /\ FreeMemory' \in Int /\ UsedMemory' \in Int /\ ReservedMemory' \in Int
         /\ Balance' = Balance /\ Marked' = Marked
<1>. DEFINE T == pages \cap Addressable
            new == T \ locked
<1>1. IsFiniteSet(locked) /\ IsFiniteSet(T)
  BY BitmapRange, FS_Subset, FS_Intersection DEF TypeOK
<1>2. /\ Cardinality(new) \in Nat /\ Cardinality(locked) \in Nat
      /\ Cardinality(locked \cup new) = Cardinality(locked) + Cardinality(new)
  <2>. HIDE DEF T
  <2>. QED
    BY <1>1, MarkCount
<1>3. locked' = locked \cup new
  BY DEF LockPages, ReservePages
<1>4. CASE LockPages(pages)
  <2>1. /\ FreeMemory' = FreeMemory - Cardinality(new)
        /\ UsedMemory' = UsedMemory + Cardinality(new)
        /\ ReservedMemory' = ReservedMemory
    BY <1>4 DEF LockPages
  <2>. HIDE DEF new
  <2>. QED
    BY <1>2, <1>3, <2>1 DEF TypeOK, Balance, Marked, new
<1>5. CASE ReservePages(pages)
  <2>1. /\ FreeMemory' = FreeMemory - Cardinality(new)
        /\ ReservedMemory' = ReservedMemory + Cardinality(new)
        /\ UsedMemory' = UsedMemory
    BY <1>5 DEF ReservePages
  <2>. HIDE DEF new
  <2>. QED
    BY <1>2, <1>3, <2>1 DEF TypeOK, Balance, Marked, new
<1>. QED
  BY <1>4, <1>5

\* FreePages and UnreservePages only clear bits of the range, keep the two sums,
\* and leave the cursor in the bitmap.
LEMMA FreeEffect ==
  ASSUME TypeOK, NEW pages, FreePages(pages) \/ UnreservePages(pages)
  PROVE  /\ locked' = locked \ pages
         /\ locked' \subseteq Addressable
         /\ FreeMemory' \in Int /\ UsedMemory' \in Int /\ ReservedMemory' \in Int
         /\ Balance' = Balance /\ Marked' = Marked
         /\ pageBitmapIndex' \in Addressable
<1>. DEFINE cleared == pages \cap locked
<1>1. IsFiniteSet(locked)
  BY BitmapRange, FS_Subset DEF TypeOK
<1>2. /\ Cardinality(cleared) \in Nat /\ Cardinality(locked) \in Nat
      /\ Cardinality(locked \ cleared) = Cardinality(locked) - Cardinality(cleared)
  BY <1>1, ClearCount
<1>3. locked' = locked \ cleared /\ LowerCursor(cleared)
  BY DEF FreePages, UnreservePages
<1>4. pageBitmapIndex' \in Addressable
  BY <1>3 DEF LowerCursor, TypeOK
<1>5. CASE FreePages(pages)
  <2>1. /\ FreeMemory' = FreeMemory + Cardinality(cleared)
        /\ UsedMemory' = UsedMemory - Cardinality(cleared)
        /\ ReservedMemory' = ReservedMemory
    BY <1>5 DEF FreePages
  <2>. HIDE DEF cleared
  <2>. QED
    BY <1>2, <1>3, <1>4, <2>1 DEF TypeOK, Balance, Marked, cleared
<1>6. CASE UnreservePages(pages)
  <2>1. /\ FreeMemory' = FreeMemory + Cardinality(cleared)
        /\ ReservedMemory' = ReservedMemory - Cardinality(cleared)
        /\ UsedMemory' = UsedMemory
    BY <1>6 DEF UnreservePages
  <2>. HIDE DEF cleared
  <2>. QED
    BY <1>2, <1>3, <1>4, <2>1 DEF TypeOK, Balance, Marked, cleared
<1>. QED
  BY <1>5, <1>6

-----------------------------------------------------------------------------
(* The inductive invariant.                                                *)

\* Before the bitmap is laid out nothing is set or counted, and before the
\* kernel runs nothing is granted.
BootInv ==
    /\ boot = "count" =>
         /\ locked = {} /\ pageBitmapIndex = 0
         /\ FreeMemory = 0 /\ UsedMemory = 0 /\ ReservedMemory = 0
    /\ ~ Serving => \A c \in Client : holds[c] = {}

\* A run that ends after the bitmap contains the last page frame that a search
\* may start at; a second such run would have to contain it too.
OverrunInv ==
    \A c \in Client : holds[c] \subseteq Addressable \/ Bits - 1 \in holds[c]

IInv == /\ TypeOK /\ BootInv /\ Accounting
        /\ HeldIsLocked /\ OverrunInv /\ ExclusiveOwnership

\* The states Init describes satisfy the invariant.
LEMMA InitInv == Init => IInv
<1>. SUFFICES ASSUME Init PROVE IInv
  OBVIOUS
<1>1. 0 \in Addressable
  BY BitmapRange DEF Init, Addressable
<1>. QED
  BY <1>1 DEF Init, IInv, TypeOK, BootInv, Serving, Accounting, HeldIsLocked,
              OverrunInv, ExclusiveOwnership

\* A step that keeps the two sums keeps the accounts.
LEMMA AccountsKept ==
  ASSUME TypeOK, Accounting, boot # "count", locked' \subseteq Addressable,
         FreeMemory' \in Int, UsedMemory' \in Int, ReservedMemory' \in Int,
         Balance' = Balance, Marked' = Marked,
         TotalMemory' = TotalMemory, stray' = stray
  PROVE  Accounting'
<1>1. Cardinality(locked) \in Nat /\ Cardinality(locked') \in Nat
  <2>1. IsFiniteSet(locked) /\ IsFiniteSet(locked')
    BY BitmapRange, FS_Subset DEF TypeOK
  <2>. QED
    BY <2>1, FS_CardinalityType
<1>2. FreeMemory' + UsedMemory' + ReservedMemory' = TotalMemory'
  BY DEF Accounting, Balance
<1>. DEFINE used == UsedMemory'
            reserved == ReservedMemory'
            new == Cardinality(locked')
            old == Cardinality(locked)
<1>3. /\ UsedMemory + ReservedMemory + stray = old
      /\ used + reserved - new = UsedMemory + ReservedMemory - old
  BY DEF Accounting, Marked
<1>4. /\ old \in Int /\ new \in Int /\ used \in Int /\ reserved \in Int
      /\ UsedMemory \in Int /\ ReservedMemory \in Int /\ stray \in Int
  BY <1>1 DEF TypeOK
<1>5. used + reserved + stray = new
  <2>. HIDE DEF used, reserved, new, old
  <2>. QED
    BY <1>3, <1>4
<1>. QED
  BY <1>2, <1>5 DEF Accounting

\* What the boot steps that only lock, reserve or unreserve keep.
LEMMA BootRangeStep ==
  ASSUME IInv, boot # "count", ~ Serving, boot' # "count", TotalMemory' = TotalMemory,
         stray' = stray, holds' = holds, memoryMap' = memoryMap, NEW pages,
         \/ (LockPages(pages) \/ ReservePages(pages)) /\ pageBitmapIndex' = pageBitmapIndex
         \/ FreePages(pages) \/ UnreservePages(pages),
         entry' \in Nat \ {0},
         boot' \in {"reserve", "unreserve", "bitmap", "kernel", "running"}
  PROVE  IInv'
<1>. USE DEF IInv
<1>1. /\ locked' \subseteq Addressable
      /\ FreeMemory' \in Int /\ UsedMemory' \in Int /\ ReservedMemory' \in Int
      /\ Balance' = Balance /\ Marked' = Marked
      /\ pageBitmapIndex' \in Addressable
  BY LockEffect, FreeEffect DEF TypeOK
<1>2. Addressable' = Addressable /\ Bits' = Bits
  BY DEF Addressable, Bits, BitmapSize
<1>3. TypeOK'
  BY <1>1, <1>2 DEF TypeOK
<1>4. \A c \in Client : holds'[c] = {}
  BY DEF BootInv
<1>5. Accounting'
  BY <1>1, AccountsKept
<1>. QED
  BY <1>3, <1>4, <1>5 DEF BootInv, HeldIsLocked, OverrunInv, ExclusiveOwnership

\* Every boot step keeps the invariant.
LEMMA BootStep ==
  ASSUME IInv, Boot
  PROVE  IInv'
<1>. USE DEF IInv
<1>1. CASE CountDescriptor
  <2>1. memoryMap \in Seq(Descriptor)
    BY MapsAssumption DEF TypeOK
  <2>2. memoryMap[entry].pages \in Nat
    <3>1. memoryMap[entry] \in Descriptor
      BY <1>1, <2>1 DEF CountDescriptor, TypeOK
    <3>. QED
      BY <3>1 DEF Descriptor
  <2>3. TotalMemory' \in Nat
    BY <1>1, <2>2 DEF CountDescriptor, TypeOK
  <2>4. Bits' \in Nat /\ Addressable' = 0 .. Bits'
    <3>1. TotalMemory' \div 8 \in Nat
      BY <2>3, ByteCount
    <3>. QED
      BY <3>1 DEF Bits, BitmapSize, Addressable
  <2>5. TypeOK'
    BY <1>1, <2>3, <2>4 DEF CountDescriptor, TypeOK, BootInv, counters
  <2>6. BootInv'
    BY <1>1 DEF CountDescriptor, BootInv, counters, Serving
  <2>7. \A c \in Client : holds'[c] = {}
    BY <1>1 DEF CountDescriptor, BootInv, Serving
  <2>. QED
    BY <1>1, <2>5, <2>6, <2>7
       DEF CountDescriptor, Accounting, HeldIsLocked, OverrunInv, ExclusiveOwnership
<1>2. CASE InitBitmap
  <2>1. Bits \in Nat
    BY BitmapRange DEF TypeOK
  <2>2. locked' \subseteq Addressable /\ Addressable' = Addressable
    BY <1>2, <2>1 DEF InitBitmap, Addressable, Bits, BitmapSize
  <2>3. Cardinality(locked') = stray
    <3>1. CASE stray = 1
      <4>1. locked' = {Bits}
        BY <1>2, <3>1 DEF InitBitmap
      <4>. QED
        BY <3>1, <4>1, FS_Singleton
    <3>2. CASE stray = 0
      <4>1. locked' = {}
        BY <1>2, <3>2 DEF InitBitmap
      <4>. QED
        BY <3>2, <4>1, FS_EmptySet
    <3>. QED
      BY <3>1, <3>2 DEF TypeOK
  <2>4. TypeOK'
    BY <1>2, <2>2 DEF InitBitmap, TypeOK
  <2>5. Accounting'
    BY <1>2, <2>3 DEF InitBitmap, Accounting, TypeOK, BootInv
  <2>6. \A c \in Client : holds'[c] = {}
    BY <1>2 DEF InitBitmap, BootInv, Serving
  <2>. QED
    BY <1>2, <2>4, <2>5, <2>6
       DEF InitBitmap, BootInv, HeldIsLocked, OverrunInv, ExclusiveOwnership
<1>3. CASE ReserveAll
  BY <1>3, BootRangeStep DEF ReserveAll, Serving
<1>4. CASE UnreserveDescriptor
  BY <1>4, BootRangeStep DEF UnreserveDescriptor, Serving, TypeOK
<1>5. CASE ReserveBios
  BY <1>5, BootRangeStep DEF ReserveBios, Serving, TypeOK
<1>6. CASE LockBitmap
  BY <1>6, BootRangeStep DEF LockBitmap, Serving, TypeOK
<1>7. CASE LockKernel
  BY <1>7, BootRangeStep DEF LockKernel, Serving, TypeOK
<1>8. CASE LockFramebuffer
  <2>1. /\ locked' = locked \cup (Framebuffer \cap Addressable)
        /\ locked' \subseteq Addressable
        /\ FreeMemory' \in Int /\ UsedMemory' \in Int /\ ReservedMemory' \in Int
        /\ Balance' = Balance /\ Marked' = Marked
    BY <1>8, LockEffect DEF LockFramebuffer
  <2>2. Addressable' = Addressable /\ Bits' = Bits
    BY <1>8 DEF LockFramebuffer, Addressable, Bits, BitmapSize
  <2>3. TypeOK'
    BY <1>8, <2>1, <2>2 DEF LockFramebuffer, TypeOK
  <2>4. Accounting'
    BY <1>8, <2>1, AccountsKept DEF LockFramebuffer
  <2>. QED
    BY <1>8, <2>1, <2>2, <2>3, <2>4
       DEF LockFramebuffer, BootInv, Serving, HeldIsLocked, OverrunInv, ExclusiveOwnership
<1>. QED
  BY <1>1, <1>2, <1>3, <1>4, <1>5, <1>6, <1>7, <1>8 DEF Boot

\* A request keeps the invariant: the run it locks was free, as far as the bitmap
\* reaches, and beyond that no other run reaches.
LEMMA GrantStep ==
  ASSUME IInv, NEW c \in Client, NEW count \in Nat \ {0}, Grant(c, count)
  PROVE  IInv'
<1>. USE DEF IInv
<1>1. PICK start \in Addressable :
        /\ FoundAt(start, count)
        /\ pageBitmapIndex' = start
        /\ LockPages(Run(start, count))
        /\ holds' = [holds EXCEPT ![c] = Run(start, count)]
  BY DEF Grant
<1>2. /\ UNCHANGED <<memoryMap, boot, entry, stray, TotalMemory>>
      /\ Serving /\ boot # "count"
  BY DEF Grant, Requests, Serving
<1>. DEFINE run == Run(start, count)
<1>3. Bits \in Nat /\ Bits >= 8
  BY BitmapRange DEF TypeOK
<1>4. /\ start \in Nat /\ start <= Bits - 1
      /\ run = start .. (start + count - 1)
      /\ run \cap locked = {}
  BY <1>1, <1>3 DEF FoundAt, Fits, Run, TypeOK, Addressable
<1>5. run \subseteq Nat
  BY <1>4
<1>6. run \subseteq Addressable \/ Bits - 1 \in run
  BY <1>3, <1>4 DEF Addressable
<1>7. /\ locked' = locked \cup (run \cap Addressable)
      /\ locked' \subseteq Addressable
      /\ FreeMemory' \in Int /\ UsedMemory' \in Int /\ ReservedMemory' \in Int
      /\ Balance' = Balance /\ Marked' = Marked
  BY <1>1, LockEffect
<1>8. Addressable' = Addressable /\ Bits' = Bits
  BY <1>2 DEF Addressable, Bits, BitmapSize
<1>9. /\ holds' \in [Client -> SUBSET Nat]
      /\ holds'[c] = run
      /\ \A d \in Client \ {c} : holds'[d] = holds[d]
  BY <1>1, <1>5 DEF TypeOK
<1>10. \A d \in Client \ {c} : holds[d] \cap run = {}
  <2>. SUFFICES ASSUME NEW d \in Client \ {c}, NEW p \in holds[d] \cap run
                PROVE  FALSE
    OBVIOUS
  <2>1. p \notin Addressable
    BY <1>4 DEF HeldIsLocked
  <2>2. Bits - 1 \in holds[d] /\ Bits - 1 \in run
    BY <1>6, <2>1 DEF OverrunInv
  <2>3. Bits - 1 \in Addressable
    BY <1>3 DEF Addressable
  <2>4. Bits - 1 \in locked
    BY <2>2, <2>3 DEF HeldIsLocked
  <2>. QED
    BY <1>4, <2>2, <2>4
<1>. HIDE DEF run
<1>11. TypeOK'
  BY <1>1, <1>2, <1>7, <1>8, <1>9 DEF TypeOK
<1>12. BootInv'
  BY <1>2 DEF BootInv, Serving
<1>13. Accounting'
  BY <1>2, <1>7, AccountsKept
<1>14. HeldIsLocked'
  BY <1>7, <1>8, <1>9 DEF HeldIsLocked
<1>15. OverrunInv'
  BY <1>6, <1>8, <1>9 DEF OverrunInv
<1>16. ExclusiveOwnership'
  BY <1>9, <1>10 DEF ExclusiveOwnership
<1>. QED
  BY <1>11, <1>12, <1>13, <1>14, <1>15, <1>16

\* Freeing a run keeps the invariant: it clears no bit of another run.
LEMMA FreeStep ==
  ASSUME IInv, NEW c \in Client, ClientFrees(c)
  PROVE  IInv'
<1>. USE DEF IInv
<1>1. /\ Serving /\ boot # "count"
      /\ FreePages(holds[c])
      /\ holds' = [holds EXCEPT ![c] = {}]
      /\ UNCHANGED <<memoryMap, boot, entry, stray, TotalMemory>>
  BY DEF ClientFrees, Serving
<1>2. /\ locked' = locked \ holds[c]
      /\ locked' \subseteq Addressable
      /\ FreeMemory' \in Int /\ UsedMemory' \in Int /\ ReservedMemory' \in Int
      /\ Balance' = Balance /\ Marked' = Marked
      /\ pageBitmapIndex' \in Addressable
  BY <1>1, FreeEffect
<1>3. Addressable' = Addressable /\ Bits' = Bits
  BY <1>1 DEF Addressable, Bits, BitmapSize
<1>4. /\ holds' \in [Client -> SUBSET Nat]
      /\ holds'[c] = {}
      /\ \A d \in Client \ {c} : holds'[d] = holds[d]
  BY <1>1 DEF TypeOK
<1>5. TypeOK'
  BY <1>1, <1>2, <1>3, <1>4 DEF TypeOK
<1>6. BootInv'
  BY <1>1 DEF BootInv, Serving
<1>7. Accounting'
  BY <1>1, <1>2, AccountsKept
<1>8. HeldIsLocked'
  BY <1>2, <1>3, <1>4 DEF HeldIsLocked, ExclusiveOwnership
<1>9. OverrunInv'
  BY <1>3, <1>4 DEF OverrunInv
<1>10. ExclusiveOwnership'
  BY <1>4 DEF ExclusiveOwnership
<1>. QED
  BY <1>5, <1>6, <1>7, <1>8, <1>9, <1>10

\* Every step keeps the invariant.
LEMMA NextInv == IInv /\ [Next]_vars => IInv'
<1>. SUFFICES ASSUME IInv, [Next]_vars PROVE IInv'
  OBVIOUS
<1>1. CASE Boot
  BY <1>1, BootStep
<1>2. CASE RequestPageFails
  <2>1. Addressable' = Addressable /\ Bits' = Bits
    BY <1>2 DEF RequestPageFails, Addressable, Bits, BitmapSize
  <2>2. Bits \in Addressable
    BY BitmapRange DEF IInv, TypeOK, Addressable
  <2>. QED
    BY <1>2, <2>1, <2>2
       DEF RequestPageFails, IInv, TypeOK, BootInv, Serving, Accounting, HeldIsLocked,
           OverrunInv, ExclusiveOwnership, counters
<1>3. ASSUME NEW c \in Client, RequestPage(c)
      PROVE  IInv'
  BY <1>3, GrantStep DEF RequestPage
<1>4. ASSUME NEW c \in Client, ClientFrees(c)
      PROVE  IInv'
  BY <1>4, FreeStep
<1>5. ASSUME NEW c \in Client \ PageTables, NEW count \in RunSizes, RequestPages(c, count)
      PROVE  IInv'
  BY <1>5, GrantStep, RunSizesAssumption DEF RequestPages
<1>6. CASE UNCHANGED vars
  BY <1>6 DEF vars, IInv, TypeOK, BootInv, Serving, Accounting, HeldIsLocked,
              OverrunInv, ExclusiveOwnership, Addressable, Bits, BitmapSize
<1>. QED
  BY <1>1, <1>2, <1>3, <1>4, <1>5, <1>6 DEF Next

\* The invariant holds throughout.
LEMMA Invariance == Spec => []IInv
BY InitInv, NextInv, PTL DEF Spec

-----------------------------------------------------------------------------
(* What boot sets aside stays set aside.                                   *)

Unusable == (Run(0, TotalMemory + 1) \cap Addressable) \ Conventional

SetAsideInv ==
    /\ boot \notin {"count", "reserve"} => Unusable \subseteq locked
    /\ boot \in {"bitmap", "kernel", "running", "ready"} =>
         Run(0, BiosPages) \cap Addressable \subseteq locked
    /\ boot \in {"kernel", "running", "ready"} =>
         BitmapPages \cap Addressable \subseteq locked
    /\ Serving => Kernel \cap Addressable \subseteq locked
    /\ SetAsideIsNeverGranted

\* While the kernel runs, everything set aside has its bit set.
LEMMA SetAsideIsLocked ==
  ASSUME SetAsideInv, Serving
  PROVE  SetAside \subseteq locked
BY DEF SetAsideInv, Serving, SetAside, Unusable

\* What is set aside depends on the memory map only.
LEMMA SetAsideIsFixed ==
  ASSUME memoryMap' = memoryMap, TotalMemory' = TotalMemory
  PROVE  /\ Addressable' = Addressable /\ Conventional' = Conventional
         /\ BitmapPages' = BitmapPages
         /\ Unusable' = Unusable /\ SetAside' = SetAside
<1>1. /\ BitmapSize' = BitmapSize /\ Bits' = Bits /\ Addressable' = Addressable
      /\ Conventional' = Conventional /\ LargestSegment' = LargestSegment
  BY DEF BitmapSize, Bits, Addressable, Conventional, LargestSegment
<1>2. BitmapPages' = BitmapPages
  BY <1>1 DEF BitmapPages
<1>. QED
  BY <1>1, <1>2 DEF Unusable, SetAside

\* Every step keeps what is set aside.
LEMMA SetAsideNext == IInv /\ SetAsideInv /\ [Next]_vars => SetAsideInv'
<1>. SUFFICES ASSUME IInv, SetAsideInv, [Next]_vars PROVE SetAsideInv'
  OBVIOUS
<1>. USE DEF IInv
<1>1. CASE CountDescriptor \/ InitBitmap
  BY <1>1 DEF CountDescriptor, InitBitmap, SetAsideInv, SetAsideIsNeverGranted, Serving
<1>2. ASSUME NEW pages, LockPages(pages) \/ ReservePages(pages), ~ Serving, boot # "count",
             holds' = holds, memoryMap' = memoryMap, TotalMemory' = TotalMemory
      PROVE  /\ locked' = locked \cup (pages \cap Addressable)
             /\ \A c \in Client : holds'[c] = {}
  BY <1>2, LockEffect DEF BootInv
<1>3. CASE ReserveAll
  <2>1. /\ locked' = locked \cup (Run(0, TotalMemory + 1) \cap Addressable)
        /\ \A c \in Client : holds'[c] = {}
    BY <1>2, <1>3 DEF ReserveAll, Serving
  <2>. QED
    BY <1>3, <2>1, SetAsideIsFixed
       DEF ReserveAll, SetAsideInv, SetAsideIsNeverGranted, Serving, Unusable
<1>4. CASE UnreserveDescriptor
  <2>. DEFINE d == memoryMap[entry]
              pages == IF d.conventional THEN Run(d.first, d.pages) ELSE {}
  <2>1. UnreservePages(pages)
    BY <1>4 DEF UnreserveDescriptor
  <2>2. pages \subseteq Conventional
    BY <1>4 DEF UnreserveDescriptor, Conventional
  <2>. HIDE DEF pages
  <2>3. locked' = locked \ pages
    BY <2>1, FreeEffect
  <2>. QED
    BY <1>4, <2>2, <2>3, SetAsideIsFixed
       DEF UnreserveDescriptor, SetAsideInv, SetAsideIsNeverGranted, Serving, Unusable
<1>5. CASE ReserveBios
  <2>1. /\ locked' = locked \cup (Run(0, BiosPages) \cap Addressable)
        /\ \A c \in Client : holds'[c] = {}
    BY <1>2, <1>5 DEF ReserveBios, Serving
  <2>. QED
    BY <1>5, <2>1, SetAsideIsFixed
       DEF ReserveBios, SetAsideInv, SetAsideIsNeverGranted, Serving
<1>6. CASE LockBitmap
  <2>1. /\ locked' = locked \cup (BitmapPages \cap Addressable)
        /\ \A c \in Client : holds'[c] = {}
    BY <1>2, <1>6 DEF LockBitmap, Serving
  <2>. QED
    BY <1>6, <2>1, SetAsideIsFixed
       DEF LockBitmap, SetAsideInv, SetAsideIsNeverGranted, Serving
<1>7. CASE LockKernel
  <2>1. /\ locked' = locked \cup (Kernel \cap Addressable)
        /\ \A c \in Client : holds'[c] = {}
    BY <1>2, <1>7 DEF LockKernel, Serving
  <2>. QED
    BY <1>7, <2>1, SetAsideIsFixed
       DEF LockKernel, SetAsideInv, SetAsideIsNeverGranted, Serving
<1>8. CASE LockFramebuffer
  <2>1. locked' = locked \cup (Framebuffer \cap Addressable)
    BY <1>8, LockEffect DEF LockFramebuffer
  <2>. QED
    BY <1>8, <2>1, SetAsideIsFixed
       DEF LockFramebuffer, SetAsideInv, SetAsideIsNeverGranted, Serving
<1>9. CASE RequestPageFails
  BY <1>9, SetAsideIsFixed
     DEF RequestPageFails, SetAsideInv, SetAsideIsNeverGranted, Serving
<1>10. ASSUME NEW c \in Client, NEW count, Grant(c, count)
       PROVE  SetAsideInv'
  <2>1. PICK start \in Addressable :
          /\ FoundAt(start, count)
          /\ LockPages(Run(start, count))
          /\ holds' = [holds EXCEPT ![c] = Run(start, count)]
    BY <1>10 DEF Grant
  <2>2. /\ locked' = locked \cup (Run(start, count) \cap Addressable)
        /\ Run(start, count) \cap locked = {}
    BY <2>1, LockEffect DEF FoundAt, Fits
  <2>3. Run(start, count) \cap SetAside = {}
    BY <1>10, <2>2, SetAsideIsLocked DEF Grant, Requests, Serving
  <2>4. \A d \in Client : holds'[d] = IF d = c THEN Run(start, count) ELSE holds[d]
    BY <2>1 DEF TypeOK
  <2>. QED
    BY <1>10, <2>2, <2>3, <2>4, SetAsideIsFixed
       DEF Grant, SetAsideInv, SetAsideIsNeverGranted, Serving
<1>11. ASSUME NEW c \in Client, ClientFrees(c)
       PROVE  SetAsideInv'
  <2>1. locked' = locked \ holds[c]
    BY <1>11, FreeEffect DEF ClientFrees
  <2>2. SetAside \subseteq locked'
    BY <1>11, <2>1, SetAsideIsLocked DEF ClientFrees, Serving, SetAsideInv, SetAsideIsNeverGranted
  <2>3. \A d \in Client : holds'[d] \subseteq holds[d]
    BY <1>11 DEF ClientFrees, TypeOK
  <2>. QED
    BY <1>11, <2>2, <2>3, SetAsideIsFixed
       DEF ClientFrees, SetAsideInv, SetAsideIsNeverGranted, Serving, SetAside, Unusable
<1>12. CASE UNCHANGED vars
  BY <1>12, SetAsideIsFixed DEF vars, SetAsideInv, SetAsideIsNeverGranted, Serving
<1>. QED
  BY <1>1, <1>3, <1>4, <1>5, <1>6, <1>7, <1>8, <1>9, <1>10, <1>11, <1>12
     DEF Next, Boot, RequestPage, RequestPages

-----------------------------------------------------------------------------
(* Once the framebuffer is locked, it stays.                               *)

\* Before that only page tables have been requested; from then on the framebuffer has its
\* bits set, and only page tables may have some of it.
FramebufferInv ==
    /\ boot # "ready" => \A c \in Client \ PageTables : holds[c] = {}
    /\ boot = "ready" =>
         /\ Framebuffer \cap Addressable \subseteq locked
         /\ \A c \in Client \ PageTables : holds[c] \cap Framebuffer \cap Addressable = {}

LEMMA FramebufferNext == IInv /\ FramebufferInv /\ [Next]_vars => FramebufferInv'
<1>. SUFFICES ASSUME IInv, FramebufferInv, [Next]_vars PROVE FramebufferInv'
  OBVIOUS
<1>. USE DEF IInv
<1>1. CASE Boot /\ ~ LockFramebuffer
  BY <1>1 DEF Boot, CountDescriptor, InitBitmap, ReserveAll, UnreserveDescriptor, ReserveBios,
              LockBitmap, LockKernel, FramebufferInv
<1>2. CASE LockFramebuffer
  <2>1. locked' = locked \cup (Framebuffer \cap Addressable)
    BY <1>2, LockEffect DEF LockFramebuffer
  <2>. QED
    BY <1>2, <2>1, SetAsideIsFixed DEF LockFramebuffer, FramebufferInv
<1>3. CASE RequestPageFails
  BY <1>3, SetAsideIsFixed DEF RequestPageFails, FramebufferInv
<1>4. ASSUME NEW c \in Client, NEW count, Grant(c, count)
      PROVE  FramebufferInv'
  <2>1. PICK start \in Addressable :
          /\ FoundAt(start, count)
          /\ LockPages(Run(start, count))
          /\ holds' = [holds EXCEPT ![c] = Run(start, count)]
    BY <1>4 DEF Grant
  <2>2. /\ locked' = locked \cup (Run(start, count) \cap Addressable)
        /\ Run(start, count) \cap locked = {}
    BY <2>1, LockEffect DEF FoundAt, Fits
  <2>3. \A d \in Client : holds'[d] = IF d = c THEN Run(start, count) ELSE holds[d]
    BY <2>1 DEF TypeOK
  <2>. QED
    BY <1>4, <2>2, <2>3, SetAsideIsFixed DEF Grant, Requests, FramebufferInv
<1>5. ASSUME NEW c \in Client, ClientFrees(c)
      PROVE  FramebufferInv'
  <2>1. locked' = locked \ holds[c]
    BY <1>5, FreeEffect DEF ClientFrees
  <2>2. \A d \in Client : holds'[d] \subseteq holds[d]
    BY <1>5 DEF ClientFrees, TypeOK
  <2>. QED
    BY <1>5, <2>1, <2>2, SetAsideIsFixed DEF ClientFrees, FramebufferInv
<1>6. CASE UNCHANGED vars
  BY <1>6, SetAsideIsFixed DEF vars, FramebufferInv
<1>. QED
  BY <1>1, <1>2, <1>3, <1>4, <1>5, <1>6 DEF Next, RequestPage, RequestPages

\* A run that is given out was free, so nothing of the framebuffer is in it.
LEMMA FramebufferStep ==
  ASSUME IInv, FramebufferInv, [Next]_vars, boot = "ready", NEW c \in Client
  PROVE  (holds'[c] \ holds[c]) \cap Framebuffer \cap Addressable = {}
<1>. USE DEF IInv
<1>1. CASE Boot \/ RequestPageFails \/ UNCHANGED vars
  BY <1>1 DEF Boot, CountDescriptor, InitBitmap, ReserveAll, UnreserveDescriptor, ReserveBios,
              LockBitmap, LockKernel, LockFramebuffer, RequestPageFails, vars
<1>2. ASSUME NEW d \in Client, NEW count, Grant(d, count)
      PROVE  (holds'[c] \ holds[c]) \cap Framebuffer \cap Addressable = {}
  <2>1. PICK start \in Addressable :
          FoundAt(start, count) /\ holds' = [holds EXCEPT ![d] = Run(start, count)]
    BY <1>2 DEF Grant
  <2>2. holds'[c] = IF c = d THEN Run(start, count) ELSE holds[c]
    BY <2>1 DEF TypeOK
  <2>. QED
    BY <2>1, <2>2 DEF FramebufferInv, FoundAt, Fits
<1>3. ASSUME NEW d \in Client, ClientFrees(d)
      PROVE  (holds'[c] \ holds[c]) \cap Framebuffer \cap Addressable = {}
  BY <1>3 DEF ClientFrees, TypeOK
<1>. QED
  BY <1>1, <1>2, <1>3 DEF Next, RequestPage, RequestPages

-----------------------------------------------------------------------------
(* The theorems.                                                           *)

\* Every variable keeps its type; in particular the bitmap is never written past
\* the one bit its range check lets through, and the cursor stays inside it.
THEOREM TypeCorrect == Spec => []TypeOK
BY Invariance, PTL DEF IInv

\* The three counters always add up to the whole memory, and used plus reserved
\* memory is the number of set bits: no sequence of LockPage, ReservePage,
\* FreePage and UnreservePage on pages already right counts a page twice.
THEOREM AccountsBalance == Spec => []Accounting
BY Invariance, PTL DEF IInv

\* A page frame handed out by RequestPage or RequestPages is not handed out again
\* before it is freed, for runs of any size, also when they end after the bitmap.
THEOREM NoDoubleGrant == Spec => []ExclusiveOwnership
BY Invariance, PTL DEF IInv

\* The BIOS pages, the bitmap, the kernel image and all memory the map does not
\* call conventional are never handed out, as far as the bitmap reaches.
THEOREM SetAsideIsSafe == Spec => []SetAsideIsNeverGranted
<1>1. Init => SetAsideInv
  BY DEF Init, SetAsideInv, SetAsideIsNeverGranted, Serving
<1>2. SetAsideInv => SetAsideIsNeverGranted
  BY DEF SetAsideInv
<1>. QED
  BY <1>1, <1>2, SetAsideNext, Invariance, PTL DEF Spec

\* InitialisePaging locks the framebuffer when page tables have been requested already:
\* whatever the lock finds, nothing of the framebuffer is handed out afterwards.
THEOREM FramebufferStays == Spec => FramebufferIsKept
<1>1. Init => FramebufferInv
  BY DEF Init, FramebufferInv
<1>2. IInv /\ FramebufferInv /\ [Next]_vars =>
        [boot = "ready" =>
           \A c \in Client : (holds'[c] \ holds[c]) \cap Framebuffer \cap Addressable = {}]_vars
  BY FramebufferStep
<1>. QED
  BY <1>1, <1>2, FramebufferNext, Invariance, PTL DEF Spec, FramebufferIsKept
=============================================================================
