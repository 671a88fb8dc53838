----------------------------- MODULE PageTables -----------------------------
(***************************************************************************)
(* The page tables: MapMemory goes down four levels of tables, requests a  *)
(* page frame for each that is missing, and writes one entry.  Boot maps   *)
(* memory and the framebuffer to themselves and loads the tables; from     *)
(* then on MapMemory reaches the tables only where they are mapped to      *)
(* themselves.  The heap and the registers of devices are mapped later.    *)
(* A page is its number (address / 4096).                                  *)
(***************************************************************************)
EXTENDS Integers, Sequences

CONSTANTS
    Slots,       \* entries of a table: 512
    Memory,      \* page frames of memory: TotalMemorySize / 4096
    Framebuffer, \* the first page of the framebuffer
    FramebufferPages, \* how many it has
    Devices,     \* the pages of devices' registers
    HeapStart,   \* the first page of the heap
    pageCount,   \* how many pages InitialiseHeap maps
    MaxHeap,     \* bound: how many pages the heap may have
    Frames,      \* page frames that have bits in the bitmap
    Supplies,    \* what RequestPage may answer, in this order, until it answers NULL
    Leftovers,   \* what a page frame may contain before it is cleared
    Missing      \* no page frame

NULL == 0
Index == 0 .. (Slots - 1)
Page == 0 .. (Slots * (Slots * (Slots * Slots)) - 1)
Screen == Framebuffer .. (Framebuffer + FramebufferPages - 1)
Usable == (1 .. (Memory - 1)) \ Screen
Entry == [present : BOOLEAN, address : Nat]

ASSUME SlotsAssumption == Slots \in Nat \ {0}
ASSUME MemoryAssumption ==
    /\ Memory \in Nat \ {0} /\ 0 .. (Memory - 1) \subseteq Page
    /\ Frames \subseteq Nat /\ 0 .. (Memory - 1) \subseteq Frames
    /\ Framebuffer \in Nat /\ FramebufferPages \in Nat
    /\ Screen \subseteq Page
    /\ Devices \subseteq Page
ASSUME HeapAssumption ==
    /\ HeapStart \in Nat /\ pageCount \in Nat /\ MaxHeap \in Nat
    /\ HeapStart .. (HeapStart + MaxHeap) \subseteq Page /\ pageCount <= MaxHeap
    /\ HeapStart >= Memory
    /\ \A v \in HeapStart .. (HeapStart + MaxHeap) : v \notin Devices \cup Screen
ASSUME SuppliesAssumption ==
    \A s \in Supplies :
        /\ s \in Seq(Frames \ {NULL}) /\ s # <<>>
        /\ \A i, j \in DOMAIN s : s[i] = s[j] => i = j
ASSUME LeftoversAssumption == Leftovers \subseteq [Index -> Entry]
ASSUME MissingAssumption == Missing \notin Nat

VARIABLES
    supply,   \* what RequestPage will answer
    memory,   \* memory[f]: the page frame f, as a table
    root,     \* PML4
    loaded,   \* the tables are in cr3
    stage,    \* where boot is
    pos,      \* the page that the loops of boot map next
    heapEnd,  \* the page behind the heap's last
    job,      \* the call of MapMemory that runs: its page v and page frame p
    step,     \* where it is
    depth,    \* the level it has come to, from 1 on
    table,    \* the table of that level
    fresh,    \* the page frame requested for the next
    tables,   \* of the page frames used as tables, the indices that lead there
    starved   \* RequestPage has answered NULL, a page frame behind memory, or one of the
              \* framebuffer, which is locked only when the tables of memory are built

jobVars == <<job, step, depth, table, fresh>>
vars == <<supply, memory, root, loaded, stage, pos, heapEnd, jobVars, tables, starved>>

NoJob == [v |-> Missing, p |-> Missing]
Blank == [i \in Index |-> [present |-> FALSE, address |-> 0]]

-----------------------------------------------------------------------------
(* Addresses and entries.                                                  *)

\* Wrong variant of Indexer: the last level uses the bits of the level before.
IndexerShort(v) ==
    LET a == v \div Slots  b == a \div Slots  c == b \div Slots
    IN  <<c % Slots, b % Slots, a % Slots, a % Slots>>

\* PageMapIndexer: PDP_i, PD_i, PT_i and P_i.
Indexer(v) ==
    LET a == v \div Slots  b == a \div Slots  c == b \div Slots
    IN  <<c % Slots, b % Slots, a % Slots, v % Slots>>

\* SetAddress and SetFlag; the address always fits.
EntryTo(f) == [present |-> TRUE, address |-> f]

\* One level of the walk of the MMU, from the table in f.
Walked(f, i) ==
    IF f \in Frames /\ memory[f][i].present THEN memory[f][i].address ELSE Missing

Translate(v) ==
    LET i == Indexer(v)
    IN  Walked(Walked(Walked(Walked(root, i[1]), i[2]), i[3]), i[4])

\* Once the tables are loaded, a page frame is reached at its own address.
Reachable(f) == loaded => Translate(f) = f

Here == Indexer(job.v)[depth]

-----------------------------------------------------------------------------
(* RequestPage, and MapMemory.                                             *)

Requested == IF supply = <<>> THEN NULL ELSE Head(supply)

RequestPage ==
    /\ supply' = IF supply = <<>> THEN <<>> ELSE Tail(supply)
    /\ starved' = (starved \/ Requested \notin Usable)

Call(v, p) ==
    /\ step = "idle" /\ step' = "walk" /\ job' = [v |-> v, p |-> p]
    /\ depth' = 1 /\ table' = root /\ UNCHANGED fresh

\* The table of the next level is there.
Descend ==
    /\ step = "walk" /\ depth < 4 /\ Reachable(table) /\ memory[table][Here].present
    /\ table' = memory[table][Here].address /\ depth' = depth + 1
    /\ UNCHANGED <<supply, memory, root, loaded, stage, pos, heapEnd, job, step, fresh,
                   tables, starved>>

\* It is not: a page frame is requested, and the answer not looked at.
NewTable ==
    /\ step = "walk" /\ depth < 4 /\ Reachable(table) /\ ~memory[table][Here].present
    /\ RequestPage /\ fresh' = Requested /\ step' = "clear"
    /\ UNCHANGED <<memory, root, loaded, stage, pos, heapEnd, job, depth, table, tables>>

\* Wrong variant of ClearTable: the table is linked with what was in it.
ClearNothing ==
    /\ step = "clear" /\ Reachable(fresh) /\ step' = "link"
    /\ UNCHANGED <<supply, memory, root, loaded, stage, pos, heapEnd, job, depth, table,
                   fresh, tables, starved>>

ClearTable ==
    /\ step = "clear" /\ Reachable(fresh) /\ step' = "link"
    /\ memory' = [memory EXCEPT ![fresh] = Blank]
    /\ UNCHANGED <<supply, root, loaded, stage, pos, heapEnd, job, depth, table, fresh,
                   tables, starved>>

LinkTable ==
    /\ step = "link" /\ step' = "walk"
    /\ memory' = [memory EXCEPT ![table][Here] = EntryTo(fresh)]
    /\ tables' = IF starved THEN tables
                 ELSE [f \in DOMAIN tables \cup {fresh} |->
                         IF f = fresh THEN Append(tables[table], Here) ELSE tables[f]]
    /\ table' = fresh /\ depth' = depth + 1
    /\ UNCHANGED <<supply, root, loaded, stage, pos, heapEnd, job, fresh, starved>>

SetPage ==
    /\ step = "walk" /\ depth = 4 /\ Reachable(table)
    /\ memory' = [memory EXCEPT ![table][Here] = EntryTo(job.p)]
    /\ step' = "idle" /\ job' = NoJob
    /\ UNCHANGED <<supply, root, loaded, stage, pos, heapEnd, depth, table, fresh, tables,
                   starved>>

\* A table is not mapped, or not to itself.
PageFault ==
    /\ \/ step = "walk" /\ ~Reachable(table)
       \/ step = "clear" /\ ~Reachable(fresh)
    /\ step' = "fault"
    /\ UNCHANGED <<supply, memory, root, loaded, stage, pos, heapEnd, job, depth, table,
                   fresh, tables, starved>>

MapMemory == Descend \/ NewTable \/ ClearTable \/ LinkTable \/ SetPage \/ PageFault

-----------------------------------------------------------------------------
(* Who calls it.                                                           *)

\* InitialisePaging requests a page frame for PML4 and clears it.
Init ==
    /\ \E s \in Supplies : root = Head(s) /\ supply = Tail(s)
    /\ \E left \in Leftovers : memory = [f \in Frames |-> IF f = root THEN Blank ELSE left]
    /\ loaded = FALSE /\ stage = "memory" /\ pos = 0 /\ heapEnd = HeapStart
    /\ job = NoJob /\ step = "idle" /\ depth = 1 /\ table = root /\ fresh = root
    /\ tables = [f \in {root} |-> <<>>] /\ starved = (root \notin Usable)

\* Wrong variant of ToMap: the last page frame is left out.
ToMapShort == pos < Memory - 1

ToMap == pos < Memory

\* Memory, page by page.
MapAll ==
    /\ stage = "memory" /\ ToMap /\ Call(pos, pos) /\ pos' = pos + 1
    /\ UNCHANGED <<supply, memory, root, loaded, stage, heapEnd, tables, starved>>

EndMapAll ==
    /\ stage = "memory" /\ ~ToMap /\ step = "idle"
    /\ stage' = "framebuffer" /\ pos' = Framebuffer
    /\ UNCHANGED <<supply, memory, root, loaded, heapEnd, jobVars, tables, starved>>

\* The framebuffer, page by page; where it is in memory this changes nothing.
MapFramebuffer ==
    /\ stage = "framebuffer" /\ pos < Framebuffer + FramebufferPages
    /\ Call(pos, pos) /\ pos' = pos + 1
    /\ UNCHANGED <<supply, memory, root, loaded, stage, heapEnd, tables, starved>>

LoadCR3 ==
    /\ stage = "framebuffer" /\ pos = Framebuffer + FramebufferPages /\ step = "idle"
    /\ loaded' = TRUE /\ stage' = "heap"
    /\ UNCHANGED <<supply, memory, root, pos, heapEnd, jobVars, tables, starved>>

\* InitialiseHeap does not look at what RequestPage answers, ExpandHeap does.
MapHeap ==
    /\ \/ stage = "heap" /\ heapEnd < HeapStart + pageCount
       \/ stage = "running" /\ heapEnd < HeapStart + MaxHeap /\ Requested # NULL
    /\ RequestPage /\ Call(heapEnd, Requested) /\ heapEnd' = heapEnd + 1
    /\ UNCHANGED <<memory, root, loaded, stage, pos, tables>>

EndInitialiseHeap ==
    /\ stage = "heap" /\ heapEnd = HeapStart + pageCount /\ step = "idle"
    /\ stage' = "running"
    /\ UNCHANGED <<supply, memory, root, loaded, pos, heapEnd, jobVars, tables, starved>>

MapDevice(d) ==
    /\ stage = "running" /\ Call(d, d)
    /\ UNCHANGED <<supply, memory, root, loaded, stage, pos, heapEnd, tables, starved>>

\* Whoever has memory on the heap writes what he likes, through its address, at any time.
WriteHeap(v) ==
    /\ stage = "running" /\ v \in HeapStart .. (heapEnd - 1) /\ v # job.v /\ Translate(v) \in Frames
    /\ \E left \in Leftovers : memory' = [memory EXCEPT ![Translate(v)] = left]
    /\ UNCHANGED <<supply, root, loaded, stage, pos, heapEnd, jobVars, tables, starved>>

\* Whoever prints draws into the framebuffer, at its own address, at any time.
DrawFramebuffer(f) ==
    /\ f \in Frames /\ Reachable(f)
    /\ \E left \in Leftovers : memory' = [memory EXCEPT ![f] = left]
    /\ UNCHANGED <<supply, root, loaded, stage, pos, heapEnd, jobVars, tables, starved>>

Callers ==
    \/ MapAll \/ EndMapAll \/ MapFramebuffer \/ LoadCR3 \/ MapHeap \/ EndInitialiseHeap
    \/ \E d \in Devices : MapDevice(d)
    \/ \E v \in Page : WriteHeap(v)
    \/ \E f \in Screen : DrawFramebuffer(f)

Next == MapMemory \/ Callers

Spec == Init /\ [][Next]_vars

-----------------------------------------------------------------------------
(* What the tables promise, as long as RequestPage gives Usable memory.    *)

\* The tables are a tree of four levels under PML4: what an entry of the upper levels
\* leads to is the table of that path, and no other path leads there (MapMemory clears
\* a page frame before it links it).  No table is on the heap, or will be requested again.
TablesAreApart ==
    starved \/
    /\ root \in DOMAIN tables /\ tables[root] = <<>>
    /\ \A f \in DOMAIN tables : \A i \in Index :
         Len(tables[f]) < 3 /\ memory[f][i].present =>
            /\ memory[f][i].address \in DOMAIN tables
            /\ tables[memory[f][i].address] = Append(tables[f], i)
    /\ \A f \in DOMAIN tables \ {root} : tables[f] # <<>>
    /\ DOMAIN tables \cap {supply[n] : n \in DOMAIN supply} = {}
    /\ \A v \in HeapStart .. (heapEnd - 1) : Translate(v) \notin DOMAIN tables

\* MapMemory goes through the tables by their physical addresses, and after cr3 is loaded
\* by those pages: it faults only when a request before was answered with NULL, or with
\* a page frame behind memory or of the framebuffer.
FaultsStarved == step = "fault" => starved

AS == INSTANCE AddressSpace
        WITH map <- [v \in Page |-> Translate(v)], Frame <- Frames \cup Page

\* MapMemory changes what one page is mapped to, at once, and nothing else does: no other
\* page is mapped, unmapped or moved when tables are built or linked, the heap is written
\* to or the framebuffer drawn into.
AddressSpaceSpec == AS!Spec
=============================================================================
