------------------------- MODULE PageFrameAllocator -------------------------
(***************************************************************************)
(* The page frame allocator: one bit per page frame, three counters, and a *)
(* cursor below which no bit is expected to be free.  Boot builds the      *)
(* bitmap from the EFI memory map; then the kernel requests and frees page *)
(* frames.  A page frame is its number (address / 4096), the counters are  *)
(* in page frames and are kept as integers: the code's wrap at 2^64 bytes. *)
(***************************************************************************)
EXTENDS Integers, FiniteSets, Sequences

CONSTANTS
    MemoryMaps,  \* the EFI memory maps the machine may have
    BiosPages,   \* page frames from 0 set aside for the BIOS: 0x100 in the code
    Kernel,      \* the page frames of the kernel image
    Framebuffer, \* the page frames of the framebuffer
    Client,      \* what page frames are requested for: a stack, a page table, a buffer
    PageTables,  \* those of them that are page tables
    RunSizes     \* the counts RequestPages is called with: 8 and 32 in the code

Descriptor == [conventional : BOOLEAN, first : Nat, pages : Nat]

ASSUME MapsAssumption == MemoryMaps \subseteq Seq(Descriptor)
ASSUME BiosAssumption == BiosPages \in Nat \ {0}
ASSUME LockedAtBootAssumption ==
    /\ Kernel \subseteq Nat /\ IsFiniteSet(Kernel)
    /\ Framebuffer \subseteq Nat /\ IsFiniteSet(Framebuffer)
ASSUME ClientAssumption == PageTables \subseteq Client
ASSUME RunSizesAssumption == RunSizes \subseteq Nat \ {0}

VARIABLES
    memoryMap,       \* the map the firmware passed
    boot,            \* how far ReadEFIMemoryMap and InitialisePaging have come
    entry,           \* the loop variable of the loops over the memory map
    locked,          \* the page frames whose bit in PageBitmap is set
    stray,           \* 1 if the bit after the bitmap was set in memory, or 0
    TotalMemory, FreeMemory, UsedMemory, ReservedMemory,
    pageBitmapIndex, \* the cursor of RequestPage and RequestPages
    holds            \* the run of page frames each client was given, {} for none

counters == <<FreeMemory, UsedMemory, ReservedMemory>>
vars == <<memoryMap, boot, entry, locked, stray, TotalMemory, FreeMemory,
          UsedMemory, ReservedMemory, pageBitmapIndex, holds>>

-----------------------------------------------------------------------------
(* The bitmap.  It has a whole number of bytes, so it has bits for page     *)
(* frames past the end of memory, and its range check lets the bit right    *)
(* after its last byte through.                                             *)

BitmapSize == (TotalMemory \div 8) + 1
Bits == BitmapSize * 8
Addressable == 0 .. Bits

\* Page frames of an address and a count.
Run(first, count) == first .. (first + count - 1)

\* The first of the largest conventional segments; 0 when there is none.
LargestSegment ==
    LET usable == {e \in DOMAIN memoryMap :
                     memoryMap[e].conventional /\ memoryMap[e].pages > 0}
        largest == {e \in usable : \A f \in usable :
                      memoryMap[f].pages <= memoryMap[e].pages}
    IN  IF usable = {} THEN 0
        ELSE memoryMap[CHOOSE e \in largest : \A f \in largest : e <= f].first

BitmapPages == Run(LargestSegment, (BitmapSize \div 4096) + 1)

-----------------------------------------------------------------------------
(* The four operations on ranges; each skips the bits that need no change. *)

\* Wrong variants of LockPages: without the bitmap's range check, and counting
\* the bits that were set already.
LockPagesUnchecked(pages) ==
    LET new == pages \ locked IN
    /\ locked' = locked \cup new
    /\ FreeMemory' = FreeMemory - Cardinality(new)
    /\ UsedMemory' = UsedMemory + Cardinality(new)
    /\ UNCHANGED ReservedMemory

LockPagesRecounted(pages) ==
    LET new == pages \cap Addressable IN
    /\ locked' = locked \cup new
    /\ FreeMemory' = FreeMemory - Cardinality(new)
    /\ UsedMemory' = UsedMemory + Cardinality(new)
    /\ UNCHANGED ReservedMemory

LockPages(pages) ==
    LET new == (pages \cap Addressable) \ locked IN
    /\ locked' = locked \cup new
    /\ FreeMemory' = FreeMemory - Cardinality(new)
    /\ UsedMemory' = UsedMemory + Cardinality(new)
    /\ UNCHANGED ReservedMemory

ReservePages(pages) ==
    LET new == (pages \cap Addressable) \ locked IN
    /\ locked' = locked \cup new
    /\ FreeMemory' = FreeMemory - Cardinality(new)
    /\ ReservedMemory' = ReservedMemory + Cardinality(new)
    /\ UNCHANGED UsedMemory

\* The cursor moves down to the lowest bit that was cleared.
LowerCursor(cleared) ==
    \/ /\ cleared = {}
       /\ UNCHANGED pageBitmapIndex
    \/ \E low \in cleared :
         /\ \A p \in cleared : low <= p
         /\ pageBitmapIndex' = IF pageBitmapIndex > low THEN low
                                                        ELSE pageBitmapIndex

FreePages(pages) ==
    LET cleared == pages \cap locked IN
    /\ locked' = locked \ cleared
    /\ FreeMemory' = FreeMemory + Cardinality(cleared)
    /\ UsedMemory' = UsedMemory - Cardinality(cleared)
    /\ UNCHANGED ReservedMemory
    /\ LowerCursor(cleared)

UnreservePages(pages) ==
    LET cleared == pages \cap locked IN
    /\ locked' = locked \ cleared
    /\ FreeMemory' = FreeMemory + Cardinality(cleared)
    /\ ReservedMemory' = ReservedMemory - Cardinality(cleared)
    /\ UNCHANGED UsedMemory
    /\ LowerCursor(cleared)

-----------------------------------------------------------------------------
(* Boot: ReadEFIMemoryMap, then the locks InitialisePaging takes.          *)

Init ==
    /\ memoryMap \in MemoryMaps
    /\ boot = "count" /\ entry = 1
    /\ locked = {} /\ stray \in {0, 1}
    /\ TotalMemory = 0 /\ FreeMemory = 0 /\ UsedMemory = 0 /\ ReservedMemory = 0
    /\ pageBitmapIndex = 0
    /\ holds = [c \in Client |-> {}]

\* One round of the loop of GetMemorySize.
CountDescriptor ==
    /\ boot = "count" /\ entry \in DOMAIN memoryMap
    /\ TotalMemory' = TotalMemory + memoryMap[entry].pages
    /\ entry' = entry + 1
    /\ UNCHANGED <<memoryMap, boot, locked, stray, counters, pageBitmapIndex, holds>>

\* InitBitmap clears every byte of the bitmap; what follows it is left as it was.
InitBitmap ==
    /\ boot = "count" /\ entry \notin DOMAIN memoryMap
    /\ boot' = "reserve"
    /\ FreeMemory' = TotalMemory
    /\ locked' = {p \in {Bits} : stray = 1}
    /\ UNCHANGED <<memoryMap, entry, stray, TotalMemory, UsedMemory,
                   ReservedMemory, pageBitmapIndex, holds>>

\* "Class all pages as locked"
ReserveAll ==
    /\ boot = "reserve"
    /\ ReservePages(Run(0, TotalMemory + 1))
    /\ boot' = "unreserve" /\ entry' = 1
    /\ UNCHANGED <<memoryMap, stray, TotalMemory, pageBitmapIndex, holds>>

\* One round of the loop that gives the conventional segments back.
UnreserveDescriptor ==
    /\ boot = "unreserve" /\ entry \in DOMAIN memoryMap
    /\ LET d == memoryMap[entry] IN
         UnreservePages(IF d.conventional THEN Run(d.first, d.pages) ELSE {})
    /\ entry' = entry + 1
    /\ UNCHANGED <<memoryMap, boot, stray, TotalMemory, holds>>

\* A wrong variant: one page frame short.
ReserveBiosShort ==
    /\ boot = "unreserve" /\ entry \notin DOMAIN memoryMap
    /\ ReservePages(Run(0, BiosPages - 1))
    /\ boot' = "bitmap"
    /\ UNCHANGED <<memoryMap, entry, stray, TotalMemory, pageBitmapIndex, holds>>

ReserveBios ==
    /\ boot = "unreserve" /\ entry \notin DOMAIN memoryMap
    /\ ReservePages(Run(0, BiosPages))
    /\ boot' = "bitmap"
    /\ UNCHANGED <<memoryMap, entry, stray, TotalMemory, pageBitmapIndex, holds>>

LockBitmap ==
    /\ boot = "bitmap"
    /\ LockPages(BitmapPages)
    /\ boot' = "kernel"
    /\ UNCHANGED <<memoryMap, entry, stray, TotalMemory, pageBitmapIndex, holds>>

LockKernel ==
    /\ boot = "kernel"
    /\ LockPages(Kernel)
    /\ boot' = "running"
    /\ UNCHANGED <<memoryMap, entry, stray, TotalMemory, pageBitmapIndex, holds>>

\* InitialisePaging requests page tables before it locks the framebuffer.
LockFramebuffer ==
    /\ boot = "running"
    /\ LockPages(Framebuffer)
    /\ boot' = "ready"
    /\ UNCHANGED <<memoryMap, entry, stray, TotalMemory, pageBitmapIndex, holds>>

-----------------------------------------------------------------------------
(* Requests.                                                               *)

Serving == boot \in {"running", "ready"}

\* Until the framebuffer is locked InitialisePaging requests page tables, nothing else.
Requests(c) == boot = "ready" \/ (boot = "running" /\ c \in PageTables)

\* A wrong variant: looks at the first page frame of the run only.
FirstFits(start, count) == start \notin locked

Fits(start, count) == Run(start, count) \cap locked = {}

\* Where a search from the cursor stops.
FoundAt(start, count) ==
    /\ start \in pageBitmapIndex .. (Bits - 1)
    /\ Fits(start, count)
    /\ \A i \in pageBitmapIndex .. (start - 1) : ~ Fits(i, count)

Exhausted(count) == \A i \in pageBitmapIndex .. (Bits - 1) : ~ Fits(i, count)

\* RequestPage is the search for a run of one; both leave the cursor on the
\* run they lock.
Grant(c, count) ==
    /\ Requests(c) /\ holds[c] = {}
    /\ \E start \in Addressable :
         /\ FoundAt(start, count)
         /\ pageBitmapIndex' = start
         /\ LockPages(Run(start, count))
         /\ holds' = [holds EXCEPT ![c] = Run(start, count)]
    /\ UNCHANGED <<memoryMap, boot, entry, stray, TotalMemory>>

RequestPage(c) == Grant(c, 1)

\* The search that finds nothing leaves the cursor at the end and answers NULL.
RequestPageFails ==
    /\ Serving /\ Exhausted(1)
    /\ pageBitmapIndex < Bits /\ pageBitmapIndex' = Bits
    /\ UNCHANGED <<memoryMap, boot, entry, locked, stray, TotalMemory, counters, holds>>

\* A search for several that finds nothing restores the cursor: no change.
RequestPages(c, count) == Grant(c, count)

\* A wrong variant: page tables are handed back as well.
AnyoneFrees(c) ==
    /\ boot = "ready" /\ holds[c] # {}
    /\ FreePages(holds[c])
    /\ holds' = [holds EXCEPT ![c] = {}]
    /\ UNCHANGED <<memoryMap, boot, entry, stray, TotalMemory>>

\* A client hands back the run it was given, with the count it asked for. Nobody frees
\* page tables.
ClientFrees(c) ==
    /\ boot = "ready" /\ c \notin PageTables /\ holds[c] # {}
    /\ FreePages(holds[c])
    /\ holds' = [holds EXCEPT ![c] = {}]
    /\ UNCHANGED <<memoryMap, boot, entry, stray, TotalMemory>>

Boot == \/ CountDescriptor \/ InitBitmap \/ ReserveAll \/ UnreserveDescriptor
        \/ ReserveBios \/ LockBitmap \/ LockKernel \/ LockFramebuffer

Next == \/ Boot
        \/ RequestPageFails
        \/ \E c \in Client : RequestPage(c) \/ ClientFrees(c)
        \/ \E c \in Client \ PageTables, count \in RunSizes : RequestPages(c, count)

Spec == Init /\ [][Next]_vars

-----------------------------------------------------------------------------
(* Properties.                                                             *)

\* Every variable has the type the code gives it; only bits the bitmap's range
\* check accepts are set (Bitmap::Set), and the cursor stays in the bitmap.
TypeOK ==
    /\ memoryMap \in MemoryMaps
    /\ boot \in {"count", "reserve", "unreserve", "bitmap", "kernel", "running", "ready"}
    /\ entry \in Nat \ {0}
    /\ locked \subseteq Addressable /\ stray \in {0, 1}
    /\ TotalMemory \in Nat
    /\ FreeMemory \in Int /\ UsedMemory \in Int /\ ReservedMemory \in Int
    /\ pageBitmapIndex \in Addressable
    /\ holds \in [Client -> SUBSET Nat]

\* The counters account for every page: together they are the whole memory, and
\* used and reserved memory are exactly the set bits (every operation moves what
\* it takes from one counter to another, and skips the bits already right).
Accounting ==
    boot # "count" =>
      /\ FreeMemory + UsedMemory + ReservedMemory = TotalMemory
      /\ UsedMemory + ReservedMemory + stray = Cardinality(locked)

\* No page frame is given to two clients, whatever the sequence of RequestPage,
\* RequestPages and FreePages, and although RequestPages may answer with a run
\* that ends after the bitmap and so cannot be marked in full.
ExclusiveOwnership ==
    \A c, d \in Client : c # d => holds[c] \cap holds[d] = {}

\* A page that is held is marked in the bitmap, up to the bitmap's end.
HeldIsLocked == \A c \in Client : holds[c] \cap Addressable \subseteq locked

\* What ReadEFIMemoryMap and InitialisePaging set aside and the bitmap covers is
\* never given to a client: the BIOS pages, the bitmap itself, the kernel image,
\* and memory no conventional descriptor covers.
Conventional == UNION {Run(memoryMap[e].first, memoryMap[e].pages) :
                         e \in {f \in DOMAIN memoryMap : memoryMap[f].conventional}}
SetAside == (Run(0, BiosPages) \cup BitmapPages \cup Kernel
              \cup (Run(0, TotalMemory + 1) \ Conventional)) \cap Addressable
SetAsideIsNeverGranted == \A c \in Client : Serving => holds[c] \cap SetAside = {}

\* From the moment the framebuffer is locked no page frame of it is given to anybody. The
\* lock skips those that are page tables already (InitialisePaging requests them first,
\* kernel.cpp:180-197), so they must never be freed.
FramebufferIsKept ==
    [][boot = "ready" =>
         \A c \in Client : (holds'[c] \ holds[c]) \cap Framebuffer \cap Addressable = {}]_vars
=============================================================================
