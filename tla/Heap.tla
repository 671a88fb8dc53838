-------------------------------- MODULE Heap --------------------------------
(***************************************************************************)
(* The kernel heap: one address range cut into blocks, each a header and   *)
(* its payload, in a list doubly linked in address order.  malloc takes    *)
(* the first block that is large enough and splits it; free joins a block  *)
(* with its free neighbours; when nothing fits, ExpandHeap maps more pages *)
(* at the end.  Addresses and lengths count units of 0x10 bytes, to which  *)
(* malloc rounds every request.  The heap has no lock: it is modelled as   *)
(* it is used while one CPU runs, one call at a time.                      *)
(***************************************************************************)
EXTENDS Integers, FiniteSets

CONSTANTS
    Client,     \* what memory is allocated for
    NoClient,   \* no client
    Sizes,      \* the sizes malloc is called with, in bytes
    Unit,       \* 0x10 bytes
    HeaderSize, \* sizeof(HeapBlockHeader) in units: 0x20 bytes
    PageSize,   \* a page in units: 0x1000 bytes
    heapStart,  \* where InitialiseHeap puts the heap
    pageCount,  \* and how many pages it maps
    Supplies    \* how many pages the page frame allocator may have left after that

ASSUME ClientAssumption == NoClient \notin Client
ASSUME SizesAssumption == Unit \in Nat \ {0} /\ Sizes \subseteq Nat \ {0}
ASSUME LayoutAssumption ==
    /\ HeaderSize \in Nat \ {0} /\ PageSize \in Nat /\ PageSize > HeaderSize
    /\ heapStart \in Nat \ {0} /\ pageCount \in Nat \ {0}
    /\ Supplies \subseteq Nat

VARIABLES
    header,         \* address -> HeapBlockHeader [Length, Next, Prev, Free] of the list
    heapEnd,        \* the end of what is mapped
    LastHdr,        \* the last header
    pagesLeft,      \* page frames RequestPage can still give
    CurrentSegment, \* where malloc is in the list, or nullptr when none runs
    request,        \* what that malloc is for
    holds,          \* holds[c]: the header of the block client c was given, or nullptr
    fault           \* ExpandHeap wrote a header to a page that is not mapped

vars == <<header, heapEnd, LastHdr, pagesLeft, CurrentSegment, request, holds, fault>>

nullptr == 0

\* What malloc makes of a size in bytes.
Units(bytes) == (bytes + Unit - 1) \div Unit

NoRequest == [client |-> NoClient, size |-> 0]

Init ==
    /\ header = [b \in {heapStart} |->
                   [Length |-> pageCount * PageSize - HeaderSize,
                    Next |-> nullptr, Prev |-> nullptr, Free |-> TRUE]]
    /\ heapEnd = heapStart + pageCount * PageSize
    /\ LastHdr = heapStart
    /\ pagesLeft \in Supplies
    /\ CurrentSegment = nullptr
    /\ request = NoRequest
    /\ holds = [c \in Client |-> nullptr]
    /\ fault = FALSE

-----------------------------------------------------------------------------
(* The operations on the list: h is the headers, b the header they are      *)
(* called on, last is LastHdr.                                              *)

Joins(h, b) == h[b].Next # nullptr /\ h[h[b].Next].Free

\* Wrong variant of CombineForward: the header after next keeps its Prev.
CombineForwardUnlinked(h, b) ==
    IF ~ Joins(h, b) THEN h
    ELSE LET n == h[b].Next IN
         [a \in DOMAIN h \ {n} |->
            IF a = b THEN [h[b] EXCEPT !.Length = @ + h[n].Length + HeaderSize,
                                       !.Next = h[n].Next]
            ELSE h[a]]

CombineForward(h, b) ==
    IF ~ Joins(h, b) THEN h
    ELSE LET n == h[b].Next IN
         [a \in DOMAIN h \ {n} |->
            IF a = b THEN [h[b] EXCEPT !.Length = @ + h[n].Length + HeaderSize,
                                       !.Next = h[n].Next]
            ELSE IF a = h[n].Next THEN [h[a] EXCEPT !.Prev = b]
            ELSE h[a]]

LastAfter(h, b, last) == IF Joins(h, b) /\ h[b].Next = last THEN b ELSE last

CombineBackward(h, b) ==
    IF h[b].Prev # nullptr /\ h[h[b].Prev].Free THEN CombineForward(h, h[b].Prev) ELSE h

LastAfterBackward(h, b, last) ==
    IF h[b].Prev # nullptr /\ h[h[b].Prev].Free THEN LastAfter(h, h[b].Prev, last) ELSE last

\* Split fails when the rest would not hold a header and one unit; malloc then
\* hands out the whole block.  (Next->Prev is assigned through a null Next too:
\* that write goes to address 0x18, outside the heap.)
Splits(h, b, length) == h[b].Length - length - HeaderSize >= 1

\* A wrong variant: the block keeps its length.
SplitAndKeepLength(h, b, length) ==
    IF ~ Splits(h, b, length) THEN h
    ELSE LET new == b + length + HeaderSize IN
         [a \in DOMAIN h \cup {new} |->
            IF a = new THEN [Length |-> h[b].Length - length - HeaderSize,
                             Next |-> h[b].Next, Prev |-> b, Free |-> h[b].Free]
            ELSE IF a = b THEN [h[b] EXCEPT !.Next = new]
            ELSE IF a = h[b].Next THEN [h[a] EXCEPT !.Prev = new]
            ELSE h[a]]

Split(h, b, length) ==
    IF ~ Splits(h, b, length) THEN h
    ELSE LET new == b + length + HeaderSize IN
         [a \in DOMAIN h \cup {new} |->
            IF a = new THEN [Length |-> h[b].Length - length - HeaderSize,
                             Next |-> h[b].Next, Prev |-> b, Free |-> h[b].Free]
            ELSE IF a = b THEN [h[b] EXCEPT !.Length = length, !.Next = new]
            ELSE IF a = h[b].Next THEN [h[a] EXCEPT !.Prev = new]
            ELSE h[a]]

-----------------------------------------------------------------------------
(* malloc, one round of its loop per step, and free.                       *)

Malloc(c, bytes) ==
    /\ CurrentSegment = nullptr /\ holds[c] = nullptr
    /\ CurrentSegment' = heapStart
    /\ request' = [client |-> c, size |-> Units(bytes)]
    /\ UNCHANGED <<header, heapEnd, LastHdr, pagesLeft, holds, fault>>

Running == CurrentSegment # nullptr /\ ~ fault
Fits(b) == header[b].Free /\ header[b].Length >= request.size

\* A wrong variant: marks the block before it is split.
TakeAndSplit ==
    /\ Running /\ Fits(CurrentSegment)
    /\ LET b == CurrentSegment
           taken == [header EXCEPT ![b].Free = FALSE]
           h == IF header[b].Length > request.size
                THEN Split(taken, b, request.size) ELSE taken
       IN /\ header' = h
          /\ LastHdr' = IF h # taken /\ LastHdr = b THEN h[b].Next ELSE LastHdr
          /\ holds' = [holds EXCEPT ![request.client] = b]
    /\ CurrentSegment' = nullptr /\ request' = NoRequest
    /\ UNCHANGED <<heapEnd, pagesLeft, fault>>

TakeSegment ==
    /\ Running /\ Fits(CurrentSegment)
    /\ LET b == CurrentSegment
           h == IF header[b].Length > request.size
                THEN Split(header, b, request.size) ELSE header
       IN /\ header' = [h EXCEPT ![b].Free = FALSE]
          /\ LastHdr' = IF h # header /\ LastHdr = b THEN h[b].Next ELSE LastHdr
          /\ holds' = [holds EXCEPT ![request.client] = b]
    /\ CurrentSegment' = nullptr /\ request' = NoRequest
    /\ UNCHANGED <<heapEnd, pagesLeft, fault>>

\* A wrong variant: goes to the second segment every time.
SecondSegment ==
    /\ Running /\ ~ Fits(CurrentSegment)
    /\ header[CurrentSegment].Next # nullptr
    /\ CurrentSegment' = header[heapStart].Next
    /\ UNCHANGED <<header, heapEnd, LastHdr, pagesLeft, request, holds, fault>>

NextSegment ==
    /\ Running /\ ~ Fits(CurrentSegment)
    /\ header[CurrentSegment].Next # nullptr
    /\ CurrentSegment' = header[CurrentSegment].Next
    /\ UNCHANGED <<header, heapEnd, LastHdr, pagesLeft, request, holds, fault>>

\* ExpandHeap maps as many pages as it gets, but gives the new segment the
\* length it wanted; then malloc calls itself.
PagesFor(length) == (length + PageSize - 1) \div PageSize

ExpandHeap ==
    /\ Running /\ ~ Fits(CurrentSegment)
    /\ header[CurrentSegment].Next = nullptr
    /\ pagesLeft > 0
    /\ LET wanted == PagesFor(request.size)
           mapped == IF pagesLeft < wanted THEN pagesLeft ELSE wanted
           new == heapEnd
           h == [a \in DOMAIN header \cup {new} |->
                   IF a = new THEN [Length |-> wanted * PageSize - HeaderSize,
                                    Next |-> nullptr, Prev |-> LastHdr, Free |-> TRUE]
                   ELSE IF a = LastHdr THEN [header[a] EXCEPT !.Next = new]
                   ELSE header[a]]
       IN /\ pagesLeft' = pagesLeft - mapped
          /\ heapEnd' = heapEnd + mapped * PageSize
          /\ header' = CombineBackward(h, new)
          /\ LastHdr' = LastAfterBackward(h, new, new)
    /\ CurrentSegment' = heapStart
    /\ UNCHANGED <<request, holds, fault>>

\* With no page left the header of the new segment is written to an address
\* that is not mapped: a page fault, and the kernel panics.
ExpandFaults ==
    /\ Running /\ ~ Fits(CurrentSegment)
    /\ header[CurrentSegment].Next = nullptr
    /\ pagesLeft = 0
    /\ fault' = TRUE
    /\ UNCHANGED <<header, heapEnd, LastHdr, pagesLeft, CurrentSegment, request,
                   holds>>

\* A wrong variant: joins with the next block only.
FreeForward(c) ==
    /\ CurrentSegment = nullptr /\ holds[c] # nullptr
    /\ LET b == holds[c]
           freed == [header EXCEPT ![b].Free = TRUE]
       IN /\ header' = CombineForward(freed, b)
          /\ LastHdr' = LastAfter(freed, b, LastHdr)
    /\ holds' = [holds EXCEPT ![c] = nullptr]
    /\ UNCHANGED <<heapEnd, pagesLeft, CurrentSegment, request, fault>>

Free(c) ==
    /\ CurrentSegment = nullptr /\ holds[c] # nullptr
    /\ LET b == holds[c]
           freed == [header EXCEPT ![b].Free = TRUE]
           forward == CombineForward(freed, b)
       IN /\ header' = CombineBackward(forward, b)
          /\ LastHdr' = LastAfterBackward(forward, b, LastAfter(freed, b, LastHdr))
    /\ holds' = [holds EXCEPT ![c] = nullptr]
    /\ UNCHANGED <<heapEnd, pagesLeft, CurrentSegment, request, fault>>

MallocStep == TakeSegment \/ NextSegment \/ ExpandHeap \/ ExpandFaults

Next == \/ MallocStep
        \/ \E c \in Client : Free(c) \/ \E bytes \in Sizes : Malloc(c, bytes)

Spec == Init /\ [][Next]_vars
FairSpec == Spec /\ WF_vars(MallocStep)

-----------------------------------------------------------------------------
(* Properties.                                                             *)

End(b) == b + HeaderSize + header[b].Length

\* The list is doubly linked: Next and Prev are inverse, it starts at heapStart
\* and LastHdr is its last header, through every split, join and expansion.
ListIsLinked ==
    /\ heapStart \in DOMAIN header
    /\ \A b \in DOMAIN header :
         /\ header[b].Prev = nullptr <=> b = heapStart
         /\ header[b].Next = nullptr <=> b = LastHdr
         /\ header[b].Next # nullptr =>
              header[b].Next \in DOMAIN header /\ header[header[b].Next].Prev = b
         /\ header[b].Prev # nullptr =>
              header[b].Prev \in DOMAIN header /\ header[header[b].Prev].Next = b

\* The blocks tile the heap: each ends where the next begins, and the last one
\* at heapEnd; nothing is lost when blocks are split and joined.
BlocksTile ==
    \A b \in DOMAIN header :
      End(b) = IF header[b].Next = nullptr THEN heapEnd ELSE header[b].Next

\* Both together, after any order of mallocs and frees: the heap is a list of blocks
\* that covers it from heapStart to heapEnd, in the order of their addresses.
HeapIsTiled == ListIsLinked /\ BlocksTile

\* "Once freed we combine to increase size": no two neighbours are both free.
NoAdjacentFree ==
    \A b \in DOMAIN header :
      header[b].Free /\ header[b].Next # nullptr => ~ header[header[b].Next].Free

\* Exactly the blocks that clients hold are not free: none leaks.
NoLeak == \A b \in DOMAIN header : header[b].Free <=> \A c \in Client : holds[c] # b

\* malloc returns, or the kernel has run out of pages and panics: an expansion
\* brings a block that is large enough.
MallocReturns == CurrentSegment # nullptr ~> CurrentSegment = nullptr \/ fault

\* "Returns a buffer address for memory": every block lies in what is mapped.
BlocksAreMapped == \A b \in DOMAIN header : End(b) <= heapEnd

\* The heap implements exclusive ownership of memory: payloads that are held do
\* not overlap, and only malloc and free change who holds what.
Payload(c) == IF holds[c] = nullptr THEN {}
              ELSE (holds[c] + HeaderSize) .. (End(holds[c]) - 1)
Ownership == INSTANCE PageOwnership WITH
    Page <- Nat, holds <- [c \in Client |-> Payload(c)]
OwnershipSpec == Ownership!Spec
=============================================================================
