------------------------- MODULE PageTables_proofs --------------------------
(***************************************************************************)
(* The page tables, for any number of entries a table, any memory, heap,   *)
(* framebuffer and devices, and whatever RequestPage answers.              *)
(*                                                                         *)
(* Nothing is promised once RequestPage has answered with a page frame     *)
(* that is not Usable, so the invariant says that it has (starved) or that *)
(* all is Well: the tables are a tree (Tree), MapMemory is where the walk  *)
(* of its page comes to (Walking), the heap is apart from the tables       *)
(* (HeapApart) and memory is mapped to itself (Identity).                  *)
(* A step that writes an entry changes a translation only if the walk of   *)
(* that page reads that entry.                                             *)
(***************************************************************************)
EXTENDS PageTables, TLAPS

HeapSpace == HeapStart .. (HeapStart + MaxHeap)

\* The table that the walk of v reads at level n.
At2(v) == Walked(root, Indexer(v)[1])
At3(v) == Walked(At2(v), Indexer(v)[2])
At4(v) == Walked(At3(v), Indexer(v)[3])
At(v, n) == IF n = 1 THEN root ELSE IF n = 2 THEN At2(v) ELSE IF n = 3 THEN At3(v) ELSE At4(v)

\* f is the table of the first n indices of v.
IsAt(f, v, n) ==
    /\ f \in DOMAIN tables /\ Len(tables[f]) = n
    /\ \A k \in 1 .. n : tables[f][k] = Indexer(v)[k]

Building == step \in {"clear", "link"}

\* f can be a page frame of the heap.
Apart(f) ==
    /\ f \notin DOMAIN tables
    /\ \A n \in DOMAIN supply : supply[n] # f
    /\ Building => f # fresh

Types ==
    /\ supply \in Seq(Frames \ {NULL})
    /\ \A m, n \in DOMAIN supply : supply[m] = supply[n] => m = n
    /\ memory \in [Frames -> [Index -> Entry]]
    /\ DOMAIN tables \subseteq 0 .. (Memory - 1) /\ DOMAIN tables \cap Screen = {}
    /\ tables \in [DOMAIN tables -> Seq(Index)]
    /\ pos \in Nat /\ (stage = "framebuffer" => pos >= Framebuffer)
    /\ stage = "memory" => pos <= Memory
    /\ stage \in {"memory", "framebuffer", "heap", "running"}
    /\ loaded => stage \in {"heap", "running"}
    /\ heapEnd \in Nat /\ heapEnd >= HeapStart /\ heapEnd <= HeapStart + MaxHeap

Tree ==
    /\ root \in DOMAIN tables /\ tables[root] = <<>>
    /\ \A f \in DOMAIN tables \ {root} : Len(tables[f]) > 0
    /\ \A f \in DOMAIN tables : \A n \in DOMAIN supply : supply[n] # f
    /\ \A f \in DOMAIN tables : \A i \in Index :
         Len(tables[f]) < 3 /\ memory[f][i].present =>
            /\ memory[f][i].address \in DOMAIN tables
            /\ Len(tables[memory[f][i].address]) = Len(tables[f]) + 1
            /\ \A k \in 1 .. Len(tables[f]) :
                  tables[memory[f][i].address][k] = tables[f][k]
            /\ tables[memory[f][i].address][Len(tables[f]) + 1] = i

Walking ==
    /\ step \in {"idle", "walk", "clear", "link"}
    /\ step = "idle" => job = NoJob
    /\ step # "idle" =>
         /\ job \in [v : Page, p : Frames \cup Page]
         /\ depth \in 1 .. 4 /\ table = At(job.v, depth) /\ IsAt(table, job.v, depth - 1)
    /\ Building =>
         /\ depth < 4 /\ ~memory[table][Here].present
         /\ fresh \in 0 .. (Memory - 1) /\ fresh \notin DOMAIN tables \cup Screen
         /\ \A n \in DOMAIN supply : supply[n] # fresh
    /\ step = "link" => memory[fresh] = Blank

HeapApart ==
    /\ \A v \in HeapSpace : Apart(Translate(v))
    /\ step # "idle" => IF job.v \in HeapSpace THEN Apart(job.p) ELSE job.p = job.v

Identity ==
    \A v \in 0 .. (Memory - 1) :
        (stage = "memory" => v < pos /\ v # job.v) => Translate(v) = v

Well == Types /\ Tree /\ Walking /\ HeapApart /\ Identity

IInv == starved \in BOOLEAN /\ (starved \/ Well)

-----------------------------------------------------------------------------
(* Indices and translations.                                               *)

LEMMA Division ==
    ASSUME NEW S \in Nat \ {0}, NEW v \in Nat
    PROVE  /\ v = S * (v \div S) + (v % S)
           /\ v \div S \in Nat /\ v % S \in 0 .. (S - 1)
  BY SMT

LEMMA Quotient ==
    ASSUME NEW S \in Nat \ {0}, NEW v \in Nat, NEW k \in Nat, v < S * k
    PROVE  v \div S < k
  BY SMT

LEMMA SameNumber ==
    ASSUME NEW S \in Nat \ {0}, NEW v \in Nat, NEW w \in Nat,
           v % S = w % S, v \div S = w \div S
    PROVE  v = w
  BY Division

LEMMA IndexerType ==
    ASSUME NEW v \in Page
    PROVE  /\ Indexer(v) \in Seq(Index) /\ Len(Indexer(v)) = 4
           /\ \A n \in 1 .. 4 : Indexer(v)[n] \in Index
<1> DEFINE a == v \div Slots  b == a \div Slots  c == b \div Slots
<1>1. v \in Nat
  BY DEF Page
<1>2. a \in Nat /\ v % Slots \in Index
  BY <1>1, Division, SlotsAssumption DEF Index
<1>3. b \in Nat /\ a % Slots \in Index
  <2> HIDE DEF a
  <2> QED BY <1>2, Division, SlotsAssumption DEF Index
<1>4. c \in Nat /\ b % Slots \in Index
  <2> HIDE DEF b
  <2> QED BY <1>3, Division, SlotsAssumption DEF Index
<1>5. c % Slots \in Index
  <2> HIDE DEF c
  <2> QED BY <1>4, Division, SlotsAssumption DEF Index
<1>6. Indexer(v) = <<c % Slots, b % Slots, a % Slots, v % Slots>>
  BY DEF Indexer
<1> HIDE DEF a, b, c
<1> QED
  BY <1>2, <1>3, <1>4, <1>5, <1>6

\* No two pages share all their indices.
LEMMA IndexerInjective ==
    ASSUME NEW v \in Page, NEW w \in Page, \A n \in 1 .. 4 : Indexer(v)[n] = Indexer(w)[n]
    PROVE  v = w
<1> DEFINE a(x) == x \div Slots  b(x) == a(x) \div Slots  c(x) == b(x) \div Slots
<1>1. \A x \in Page : /\ x \in Nat /\ a(x) \in Nat /\ b(x) \in Nat /\ c(x) \in Nat
                     /\ c(x) < Slots
  <2> SUFFICES ASSUME NEW x \in Page
               PROVE  /\ x \in Nat /\ a(x) \in Nat /\ b(x) \in Nat /\ c(x) \in Nat
                      /\ c(x) < Slots
    OBVIOUS
  <2> DEFINE S2 == Slots * Slots  S3 == Slots * S2
  <2>0. Slots \in Nat \ {0} /\ S2 \in Nat /\ S3 \in Nat
    BY SlotsAssumption
  <2>1. x \in Nat /\ x < Slots * S3
    BY <2>0 DEF Page
  <2> HIDE DEF S3
  <2>2. a(x) \in Nat /\ a(x) < S3
    BY <2>0, <2>1, Division, Quotient
  <2> HIDE DEF a
  <2>3. a(x) < Slots * S2
    BY <2>2 DEF S3
  <2> HIDE DEF S2
  <2>4. b(x) \in Nat /\ b(x) < S2
    BY <2>0, <2>2, <2>3, Division, Quotient
  <2> HIDE DEF b
  <2>5. b(x) < Slots * Slots
    BY <2>4 DEF S2
  <2>6. c(x) \in Nat /\ c(x) < Slots
    BY <2>0, <2>4, <2>5, Division, Quotient
  <2> QED BY <2>1, <2>2, <2>4, <2>6
<1>2. \A x \in Page : /\ Indexer(x)[1] = c(x) % Slots /\ Indexer(x)[2] = b(x) % Slots
                     /\ Indexer(x)[3] = a(x) % Slots /\ Indexer(x)[4] = x % Slots
  BY DEF Indexer
<1>3. c(v) = c(w)
  <2> HIDE DEF c
  <2>1. c(v) % Slots = c(w) % Slots
    BY <1>2
  <2> QED BY <2>1, <1>1, SlotsAssumption
<1>4. b(v) = b(w)
  <2> HIDE DEF b
  <2>1. b(v) % Slots = b(w) % Slots
    BY <1>2
  <2> QED BY <2>1, <1>1, <1>3, SameNumber, SlotsAssumption
<1>5. a(v) = a(w)
  <2> HIDE DEF a
  <2>1. a(v) % Slots = a(w) % Slots
    BY <1>2
  <2> QED BY <2>1, <1>1, <1>4, SameNumber, SlotsAssumption
<1>6. v % Slots = w % Slots
  BY <1>2
<1> QED
  BY <1>1, <1>5, <1>6, SameNumber, SlotsAssumption

-----------------------------------------------------------------------------
(* The walk of the MMU.                                                    *)

LEMMA RootLevel == ASSUME NEW v \in Page PROVE At(v, 1) = root
  BY DEF At

LEMMA NextLevel ==
    ASSUME NEW v \in Page, NEW n \in 1 .. 3
    PROVE  At(v, n + 1) = Walked(At(v, n), Indexer(v)[n])
<1>1. CASE n = 1
  BY <1>1 DEF At, At2
<1>2. CASE n = 2
  BY <1>2 DEF At, At3
<1>3. CASE n = 3
  BY <1>3 DEF At, At4
<1> QED BY <1>1, <1>2, <1>3

LEMMA LastLevel ==
    ASSUME NEW v \in Page
    PROVE  Translate(v) = Walked(At(v, 4), Indexer(v)[4])
  BY DEF Translate, At, At2, At3, At4

LEMMA MissingFrame == Missing \notin Frames
  BY MissingAssumption, MemoryAssumption

\* Where nothing is mapped at one level, there is nothing at the next.
LEMMA WalkedMissing == ASSUME NEW i PROVE Walked(Missing, i) = Missing
  BY MissingFrame DEF Walked

\* One level goes from the table of a path to the table of the next.
LEMMA WalkedTable ==
    ASSUME Types, Tree, NEW v \in Page, NEW n \in 1 .. 3, NEW f, IsAt(f, v, n - 1)
    PROVE  LET g == Walked(f, Indexer(v)[n]) IN g = Missing \/ IsAt(g, v, n)
<1> DEFINE i == Indexer(v)[n]  g == Walked(f, i)
<1>1. i \in Index
  BY IndexerType
<1>2. f \in Frames /\ f \in DOMAIN tables /\ Len(tables[f]) = n - 1
  BY MemoryAssumption DEF IsAt, Types
<1>3. CASE ~memory[f][i].present
  BY <1>3 DEF Walked
<1>4. CASE memory[f][i].present
  <2>1. g = memory[f][i].address
    BY <1>2, <1>4 DEF Walked
  <2>2. /\ g \in DOMAIN tables /\ Len(tables[g]) = n
        /\ \A k \in 1 .. (n - 1) : tables[g][k] = tables[f][k]
        /\ tables[g][n] = i
    <3> HIDE DEF i, g
    <3> QED BY <1>1, <1>2, <1>4, <2>1 DEF Tree
  <2>3. \A k \in 1 .. (n - 1) : tables[f][k] = Indexer(v)[k]
    BY DEF IsAt
  <2>4. \A k \in 1 .. n : tables[g][k] = Indexer(v)[k]
    <3> SUFFICES ASSUME NEW k \in 1 .. n PROVE tables[g][k] = Indexer(v)[k]
      OBVIOUS
    <3>1. CASE k = n
      BY <3>1, <2>2
    <3>2. CASE k # n
      <4>1. k \in 1 .. (n - 1)
        BY <3>2
      <4> QED BY <4>1, <2>2, <2>3
    <3> QED BY <3>1, <3>2
  <2> QED BY <2>2, <2>4 DEF IsAt
<1> QED BY <1>3, <1>4

LEMMA Levels ==
    ASSUME Types, Tree, NEW v \in Page, NEW n \in 1 .. 4
    PROVE  At(v, n) = Missing \/ IsAt(At(v, n), v, n - 1)
<1> DEFINE P(k) == At(v, k) = Missing \/ IsAt(At(v, k), v, k - 1)
<1>1. P(1)
  <2>1. IsAt(root, v, 0)
    BY DEF Tree, IsAt
  <2> QED BY <2>1, RootLevel
<1>2. ASSUME NEW k \in 1 .. 3, P(k) PROVE P(k + 1)
  <2>1. At(v, k + 1) = Walked(At(v, k), Indexer(v)[k])
    BY NextLevel
  <2>2. CASE At(v, k) = Missing
    BY <2>1, <2>2, WalkedMissing
  <2>3. CASE IsAt(At(v, k), v, k - 1)
    BY <2>1, <2>3, WalkedTable
  <2> QED BY <1>2, <2>2, <2>3
<1>3. P(2)
  BY <1>1, <1>2
<1>4. P(3)
  BY <1>2, <1>3
<1>5. P(4)
  BY <1>2, <1>4
<1> QED
  <2> HIDE DEF P
  <2>1. P(n)
    BY <1>1, <1>3, <1>4, <1>5
  <2> QED BY <2>1 DEF P

\* A walk that reads only entries that stay comes to where it came.
LEMMA SameWalk ==
    ASSUME root' = root, NEW v \in Page, NEW m \in 1 .. 4,
           \A n \in 1 .. (m - 1) : At(v, n) \in Frames =>
                memory'[At(v, n)][Indexer(v)[n]] = memory[At(v, n)][Indexer(v)[n]]
    PROVE  At(v, m)' = At(v, m)
<1>1. At(v, 1)' = At(v, 1)
  BY DEF At
<1>2. ASSUME NEW k \in 1 .. 3, k < m, At(v, k)' = At(v, k) PROVE At(v, k + 1)' = At(v, k + 1)
  <2>1. At(v, k + 1) = Walked(At(v, k), Indexer(v)[k])
    BY NextLevel
  <2>2. At(v, k + 1)' = Walked(At(v, k), Indexer(v)[k])'
    <3>1. CASE k = 1
      BY <3>1 DEF At, At2
    <3>2. CASE k = 2
      BY <3>2 DEF At, At3
    <3>3. CASE k = 3
      BY <3>3 DEF At, At4
    <3> QED BY <3>1, <3>2, <3>3
  <2>3. k \in 1 .. (m - 1)
    BY <1>2
  <2>4. Walked(At(v, k), Indexer(v)[k])' = Walked(At(v, k), Indexer(v)[k])
    BY <1>2, <2>3 DEF Walked
  <2> QED BY <2>1, <2>2, <2>4
<1>3. m > 1 => At(v, 2)' = At(v, 2)
  BY <1>1, <1>2
<1>4. m > 2 => At(v, 3)' = At(v, 3)
  BY <1>2, <1>3
<1>5. m > 3 => At(v, 4)' = At(v, 4)
  BY <1>2, <1>4
<1> QED BY <1>1, <1>3, <1>4, <1>5

LEMMA SameTranslation ==
    ASSUME root' = root, NEW v \in Page,
           \A n \in 1 .. 4 : At(v, n) \in Frames =>
                memory'[At(v, n)][Indexer(v)[n]] = memory[At(v, n)][Indexer(v)[n]]
    PROVE  Translate(v)' = Translate(v)
<1>1. At(v, 4)' = At(v, 4)
  BY SameWalk
<1>2. Translate(v)' = Walked(At(v, 4), Indexer(v)[4])'
  BY DEF Translate, At, At2, At3, At4
<1>3. Walked(At(v, 4), Indexer(v)[4])' = Walked(At(v, 4), Indexer(v)[4])
  BY <1>1 DEF Walked
<1> QED BY <1>2, <1>3, LastLevel

\* What is written outside the tables changes no walk.
LEMMA OutsideTables ==
    ASSUME Types, Tree, root' = root, NEW v \in Page,
           \A f \in DOMAIN tables : memory'[f] = memory[f]
    PROVE  /\ \A n \in 1 .. 4 : At(v, n)' = At(v, n)
           /\ Translate(v)' = Translate(v)
<1>1. \A n \in 1 .. 4 : At(v, n) \in Frames => At(v, n) \in DOMAIN tables
  BY Levels, MissingAssumption, MemoryAssumption DEF IsAt
<1> QED BY <1>1, SameWalk, SameTranslation

\* An entry that is written changes only the walks that read it.
LEMMA OneEntry ==
    ASSUME Types, Tree, root' = root, NEW v \in Page,
           NEW d \in 1 .. 4, NEW t \in DOMAIN tables, Len(tables[t]) = d - 1, NEW k, NEW e,
           memory' = [memory EXCEPT ![t][k] = e],
           ~(At(v, d) = t /\ Indexer(v)[d] = k)
    PROVE  /\ \A n \in 1 .. 4 : At(v, n)' = At(v, n)
           /\ Translate(v)' = Translate(v)
<1>1. ASSUME NEW n \in 1 .. 4, At(v, n) \in Frames
      PROVE  memory'[At(v, n)][Indexer(v)[n]] = memory[At(v, n)][Indexer(v)[n]]
  <2>1. At(v, n) \in DOMAIN tables /\ Len(tables[At(v, n)]) = n - 1
    BY <1>1, Levels, MissingAssumption, MemoryAssumption DEF IsAt
  <2>2. At(v, n) = t => n = d
    BY <2>1
  <2>3. Indexer(v)[n] \in Index /\ memory \in [Frames -> [Index -> Entry]]
    BY IndexerType DEF Types
  <2>4. ~(At(v, n) = t /\ Indexer(v)[n] = k)
    BY <2>2
  <2> QED BY <1>1, <2>3, <2>4
<1> QED BY <1>1, SameWalk, SameTranslation

LEMMA Unwritten ==
    ASSUME root' = root, memory' = memory, NEW v \in Page
    PROVE  /\ \A n \in 1 .. 4 : At(v, n)' = At(v, n)
           /\ Translate(v)' = Translate(v)
  BY SameWalk, SameTranslation

LEMMA HeapPages == HeapSpace \subseteq Page /\ \A v \in HeapSpace : v >= Memory
  BY HeapAssumption, MemoryAssumption DEF HeapSpace

LEMMA MemoryPages == 0 .. (Memory - 1) \subseteq Page \cap Frames /\ Page \subseteq Nat
  BY MemoryAssumption DEF Page

-----------------------------------------------------------------------------
(* The invariant holds at first.                                           *)

LEMMA BlankRoot ==
    ASSUME root \in Frames, memory[root] = Blank, NEW v \in Page
    PROVE  Translate(v) = Missing
<1>1. At(v, 2) = Missing
  <2>1. At(v, 2) = Walked(root, Indexer(v)[1])
    BY NextLevel, RootLevel
  <2> QED BY <2>1, IndexerType DEF Walked, Blank
<1>2. At(v, 3) = Missing
  BY <1>1, NextLevel, WalkedMissing
<1>3. At(v, 4) = Missing
  BY <1>2, NextLevel, WalkedMissing
<1> QED BY <1>3, LastLevel, WalkedMissing

LEMMA InitSupply ==
    ASSUME NEW s \in Supplies
    PROVE  /\ Head(s) \in Frames \ {NULL} /\ Tail(s) \in Seq(Frames \ {NULL})
           /\ \A m, n \in DOMAIN Tail(s) : Tail(s)[m] = Tail(s)[n] => m = n
           /\ \A n \in DOMAIN Tail(s) : Tail(s)[n] # Head(s)
<1>1. s \in Seq(Frames \ {NULL}) /\ s # <<>> /\ \A i, j \in DOMAIN s : s[i] = s[j] => i = j
  BY SuppliesAssumption
<1> QED BY <1>1

LEMMA NextSupply ==
    ASSUME Types, supply # <<>>
    PROVE  /\ Head(supply) = supply[1] /\ 1 \in DOMAIN supply
           /\ Head(supply) \in Frames \ {NULL} /\ Tail(supply) \in Seq(Frames \ {NULL})
           /\ \A n \in DOMAIN Tail(supply) :
                /\ n + 1 \in DOMAIN supply /\ Tail(supply)[n] = supply[n + 1]
                /\ Tail(supply)[n] # Head(supply)
           /\ \A m, n \in DOMAIN Tail(supply) : Tail(supply)[m] = Tail(supply)[n] => m = n
<1>1. supply \in Seq(Frames \ {NULL}) /\ \A i, j \in DOMAIN supply : supply[i] = supply[j] => i = j
  BY DEF Types
<1> QED BY <1>1

LEMMA InitInvariant == Init => IInv
<1> SUFFICES ASSUME Init, ~starved PROVE Well /\ starved \in BOOLEAN
  BY DEF IInv, Init
<1>1. PICK s \in Supplies : root = Head(s) /\ supply = Tail(s)
  BY DEF Init
<1>2. /\ root \in Frames \ {NULL} /\ root \in 0 .. (Memory - 1) /\ root \notin Screen
      /\ \A n \in DOMAIN supply : supply[n] # root
  <2>1. root \in Usable
    BY DEF Init
  <2> QED BY <1>1, <2>1, InitSupply, MemoryAssumption DEF Init, Usable
<1>3. memory[root] = Blank
  BY <1>2 DEF Init
<1>4. \A v \in Page : Translate(v) = Missing
  BY <1>2, <1>3, BlankRoot
<1>5. Blank \in [Index -> Entry]
  BY DEF Blank, Entry
<1>6. memory \in [Frames -> [Index -> Entry]]
  BY <1>5, LeftoversAssumption DEF Init
<1>7. DOMAIN tables = {root} /\ tables[root] = <<>> /\ tables \in [{root} -> Seq(Index)]
  BY DEF Init
<1>8. Types
  <2>1. /\ supply \in Seq(Frames \ {NULL})
        /\ \A m, n \in DOMAIN supply : supply[m] = supply[n] => m = n
    BY <1>1, InitSupply
  <2>2. /\ DOMAIN tables \subseteq 0 .. (Memory - 1) /\ DOMAIN tables \cap Screen = {}
        /\ tables \in [DOMAIN tables -> Seq(Index)]
    BY <1>2, <1>7
  <2>3. /\ pos \in Nat /\ (stage = "framebuffer" => pos >= Framebuffer)
        /\ stage = "memory" => pos <= Memory
        /\ stage \in {"memory", "framebuffer", "heap", "running"}
        /\ loaded => stage \in {"heap", "running"}
        /\ heapEnd \in Nat /\ heapEnd >= HeapStart /\ heapEnd <= HeapStart + MaxHeap
    <3>1. HeapStart \in Nat /\ MaxHeap \in Nat /\ Memory \in Nat
      BY HeapAssumption, MemoryAssumption
    <3>2. pos = 0 /\ stage = "memory" /\ ~loaded /\ heapEnd = HeapStart
      BY DEF Init
    <3> QED BY <3>1, <3>2
  <2> QED BY <1>6, <2>1, <2>2, <2>3 DEF Types
<1>9. Tree
  BY <1>2, <1>3, <1>7 DEF Tree, Blank
<1>10. Walking
  BY DEF Init, Walking, Building
<1>11. HeapApart
  <2>1. \A n \in DOMAIN supply : supply[n] # Missing
    BY <1>8, MissingAssumption, MemoryAssumption DEF Types
  <2>2. Missing # root
    BY <1>2, MissingAssumption
  <2>3. Apart(Missing)
    BY <1>7, <2>1, <2>2 DEF Apart, Building, Init
  <2> QED BY <1>4, <2>3, HeapPages DEF HeapApart, Init
<1>12. Identity
  BY DEF Init, Identity
<1> QED BY <1>8, <1>9, <1>10, <1>11, <1>12 DEF Well, Init

-----------------------------------------------------------------------------
(* Every step keeps it, unless starved.                                    *)

\* The supply goes on, or stays.
Supplied == supply' = supply \/ (supply # <<>> /\ supply' = Tail(supply))

LEMMA SuppliedFewer ==
    ASSUME Types, Supplied, NEW f, \A n \in DOMAIN supply : supply[n] # f
    PROVE  \A n \in DOMAIN supply' : supply'[n] # f
  BY NextSupply DEF Supplied

LEMMA SuppliedTypes ==
    ASSUME Types, Supplied
    PROVE  /\ supply' \in Seq(Frames \ {NULL})
           /\ \A m, n \in DOMAIN supply' : supply'[m] = supply'[n] => m = n
<1>1. CASE supply' = supply
  BY <1>1 DEF Types
<1>2. CASE supply # <<>> /\ supply' = Tail(supply)
  BY <1>2, NextSupply
<1> QED BY <1>1, <1>2 DEF Supplied

\* A step that writes no table keeps the tree.
LEMMA TreeKept ==
    ASSUME Types, Tree, Supplied, root' = root, tables' = tables,
           \A f \in DOMAIN tables : memory'[f] = memory[f]
    PROVE  Tree'
<1>1. \A f \in DOMAIN tables : \A n \in DOMAIN supply' : supply'[n] # f
  BY SuppliedFewer DEF Tree
<1> QED BY <1>1 DEF Tree

\* Where MapMemory is, it is in the tables.
LEMMA WalkingTable ==
    ASSUME Well, step # "idle"
    PROVE  /\ job.v \in Page /\ depth \in 1 .. 4
           /\ table = At(job.v, depth) /\ IsAt(table, job.v, depth - 1)
           /\ table \in DOMAIN tables /\ table \in 0 .. (Memory - 1) /\ table \in Frames
           /\ Len(tables[table]) = depth - 1
           /\ Here \in Index /\ Here = Indexer(job.v)[depth]
<1>1. /\ job \in [v : Page, p : Frames \cup Page]
      /\ depth \in 1 .. 4 /\ table = At(job.v, depth) /\ IsAt(table, job.v, depth - 1)
  BY DEF Well, Walking
<1>2. job.v \in Page
  BY <1>1
<1>3. table \in DOMAIN tables /\ Len(tables[table]) = depth - 1
  BY <1>1 DEF IsAt
<1>4. table \in 0 .. (Memory - 1)
  BY <1>3 DEF Well, Types
<1> QED BY <1>1, <1>2, <1>3, <1>4, MemoryPages, IndexerType DEF Here

\* MapMemory does not fault.
LEMMA NoFault == ASSUME Well PROVE ~PageFault
<1>1. ASSUME NEW f \in 0 .. (Memory - 1) PROVE Reachable(f)
  BY <1>1 DEF Well, Types, Identity, Reachable
<1>2. step = "walk" => Reachable(table)
  BY <1>1, WalkingTable
<1>3. step = "clear" => Reachable(fresh)
  BY <1>1 DEF Well, Walking, Building
<1> QED BY <1>2, <1>3 DEF PageFault

\* MapMemory comes to the table t, at level d of the walk of w.
LEMMA WalkingNext ==
    ASSUME NEW w \in Page, NEW d \in 1 .. 4, NEW t,
           job' \in [v : Page, p : Frames \cup Page], job'.v = w,
           step' = "walk", depth' = d, table' = t, t = At(w, d)', IsAt(t, w, d - 1)'
    PROVE  Walking'
<1>1. At(job.v, depth)' = At(w, d)'
  BY DEF At, At2, At3, At4, Walked
<1>2. IsAt(table, job.v, depth - 1)'
  BY DEF IsAt
<1> QED BY <1>1, <1>2 DEF Walking, Building

LEMMA DescendKeeps == ASSUME Well, Descend PROVE Well'
<1>1. /\ step = "walk" /\ step' = "walk" /\ depth < 4 /\ memory[table][Here].present
      /\ table' = memory[table][Here].address /\ depth' = depth + 1
      /\ UNCHANGED <<supply, memory, root, loaded, stage, pos, heapEnd, job, tables>>
  BY DEF Descend
<1>2. \A v \in Page : /\ \A n \in 1 .. 4 : At(v, n)' = At(v, n)
                      /\ Translate(v)' = Translate(v)
  BY <1>1, Unwritten
<1>3. Types'
  BY <1>1 DEF Well, Types
<1>4. Tree'
  BY <1>1, TreeKept DEF Well, Supplied
<1>5. Walking'
  <2>1. PICK w \in Page, d \in 1 .. 3 : w = job.v /\ d = depth
    BY <1>1, WalkingTable
  <2>2. table \in Frames /\ Here \in Index /\ Here = Indexer(w)[d] /\ table = At(w, d)
    BY <1>1, <2>1, WalkingTable
  <2>3. table' = At(w, d + 1)
    BY <1>1, <2>2, NextLevel DEF Walked
  <2>4. At(w, d + 1) \in Nat
    BY <1>1, <2>2, <2>3 DEF Well, Types, Entry
  <2>5. d + 1 \in 1 .. 4 /\ (d + 1) - 1 = d
    OBVIOUS
  <2>6. IsAt(At(w, d + 1), w, (d + 1) - 1)
    BY <2>4, <2>5, Levels, MissingAssumption DEF Well
  <2>7. PICK t : t = At(w, d + 1)
    OBVIOUS
  <2>8. IsAt(t, w, (d + 1) - 1)'
    BY <1>1, <2>6, <2>7 DEF IsAt
  <2>9. t = At(w, d + 1)'
    BY <1>2, <2>5, <2>7
  <2>10. job' \in [v : Page, p : Frames \cup Page] /\ job'.v = w
    BY <1>1, <2>1 DEF Well, Walking
  <2> QED BY <1>1, <2>1, <2>3, <2>5, <2>7, <2>8, <2>9, <2>10, WalkingNext
<1>6. HeapApart'
  BY <1>1, <1>2, HeapPages DEF Well, HeapApart, Apart, Building
<1>7. Identity'
  BY <1>1, <1>2, MemoryPages DEF Well, Identity
<1> QED BY <1>3, <1>4, <1>5, <1>6, <1>7 DEF Well

\* A step of MapMemory that stays at its level keeps where it is.
LEMMA WalkingStays ==
    ASSUME Well, step # "idle", UNCHANGED <<root, job, depth, table, tables>>,
           \A v \in Page : \A n \in 1 .. 4 : At(v, n)' = At(v, n)
    PROVE  /\ job' \in [v : Page, p : Frames \cup Page] /\ depth' \in 1 .. 4
           /\ table' = At(job.v, depth)' /\ IsAt(table, job.v, depth - 1)'
           /\ Here' = Here
<1>1. /\ job \in [v : Page, p : Frames \cup Page] /\ depth \in 1 .. 4
      /\ IsAt(table, job.v, depth - 1)
  BY DEF Well, Walking
<1>2. PICK w \in Page, d \in 1 .. 4 : w = job.v /\ d = depth
  BY WalkingTable
<1>3. table = At(w, d)
  BY <1>2, WalkingTable
<1>4. At(job.v, depth)' = At(w, d)'
  BY <1>2 DEF At, At2, At3, At4, Walked
<1>5. IsAt(table, job.v, depth - 1)'
  BY <1>1 DEF IsAt
<1>6. Here' = Here
  BY DEF Here
<1> QED BY <1>1, <1>2, <1>3, <1>4, <1>5, <1>6

\* What RequestPage answers, when it answers with memory that can be used.
LEMMA Supplying ==
    ASSUME Types, RequestPage, ~starved'
    PROVE  /\ supply # <<>> /\ supply' = Tail(supply) /\ Requested = supply[1]
           /\ 1 \in DOMAIN supply /\ Requested \in 1 .. (Memory - 1) /\ Requested \in Frames
           /\ Requested \notin Screen
           /\ \A n \in DOMAIN supply' : supply'[n] # Requested
           /\ Supplied
<1>1. Requested \in 1 .. (Memory - 1) /\ Requested \notin Screen
  BY DEF RequestPage, Usable
<1>2. supply # <<>>
  BY <1>1 DEF Requested, NULL
<1>3. supply' = Tail(supply) /\ Requested = Head(supply)
  BY <1>2 DEF RequestPage, Requested
<1>4. Requested \in Frames
  BY <1>2, <1>3, NextSupply
<1> QED BY <1>1, <1>2, <1>3, <1>4, NextSupply DEF Supplied

LEMMA NewTableKeeps == ASSUME Well, NewTable, ~starved' PROVE Well'
<1>1. /\ step = "walk" /\ step' = "clear" /\ depth < 4 /\ ~memory[table][Here].present
      /\ RequestPage /\ fresh' = Requested
      /\ UNCHANGED <<memory, root, loaded, stage, pos, heapEnd, job, depth, table, tables>>
  BY DEF NewTable
<1>2. \A v \in Page : /\ \A n \in 1 .. 4 : At(v, n)' = At(v, n)
                      /\ Translate(v)' = Translate(v)
  BY <1>1, Unwritten
<1>3. /\ supply # <<>> /\ supply' = Tail(supply) /\ Requested = supply[1]
      /\ 1 \in DOMAIN supply /\ Requested \in 1 .. (Memory - 1) /\ Requested \notin Screen
      /\ \A n \in DOMAIN supply' : supply'[n] # Requested
      /\ Supplied
  BY <1>1, Supplying DEF Well
<1>4. Types'
  BY <1>1, <1>3, SuppliedTypes DEF Well, Types
<1>5. Tree'
  BY <1>1, <1>3, TreeKept DEF Well
<1>6. Walking'
  <2>1. /\ job' \in [v : Page, p : Frames \cup Page] /\ depth' \in 1 .. 4
        /\ table' = At(job.v, depth)' /\ IsAt(table, job.v, depth - 1)'
        /\ Here' = Here
    BY <1>1, <1>2, WalkingStays
  <2>2. fresh' \notin DOMAIN tables' \cup Screen
    BY <1>1, <1>3 DEF Well, Tree
  <2>3. fresh' \in 0 .. (Memory - 1)
    BY <1>1, <1>3
  <2> QED BY <1>1, <1>3, <2>1, <2>2, <2>3 DEF Walking, Building
<1>7. HeapApart'
  <2>1. ASSUME NEW f, Apart(f) PROVE Apart(f)'
    <3>1. \A n \in DOMAIN supply' : supply'[n] # f
      BY <1>3, <2>1, SuppliedFewer DEF Apart, Well
    <3>2. f # fresh'
      BY <1>1, <1>3, <2>1 DEF Apart
    <3> QED BY <1>1, <2>1, <3>1, <3>2 DEF Apart
  <2>2. \A v \in HeapSpace : Apart(Translate(v))'
    BY <1>2, <2>1, HeapPages DEF Well, HeapApart, Apart
  <2>3. job.v \in HeapSpace => Apart(job.p)'
    BY <1>1, <2>1 DEF Well, HeapApart, Apart
  <2> QED BY <1>1, <2>2, <2>3 DEF Well, HeapApart
<1>8. Identity'
  BY <1>1, <1>2, MemoryPages DEF Well, Identity
<1> QED BY <1>4, <1>5, <1>6, <1>7, <1>8 DEF Well

LEMMA ClearTableKeeps == ASSUME Well, ClearTable PROVE Well'
<1>1. /\ step = "clear" /\ step' = "link" /\ memory' = [memory EXCEPT ![fresh] = Blank]
      /\ UNCHANGED <<supply, root, loaded, stage, pos, heapEnd, job, depth, table, fresh, tables>>
  BY DEF ClearTable
<1>2. fresh \in 0 .. (Memory - 1) /\ fresh \notin DOMAIN tables
  BY <1>1 DEF Well, Walking, Building
<1>3. \A f \in DOMAIN tables : memory'[f] = memory[f]
  BY <1>1, <1>2, MemoryPages DEF Well, Types
<1>4. \A v \in Page : /\ \A n \in 1 .. 4 : At(v, n)' = At(v, n)
                      /\ Translate(v)' = Translate(v)
  BY <1>1, <1>3, OutsideTables DEF Well
<1>5. Types'
  <2>1. Blank \in [Index -> Entry]
    BY DEF Blank, Entry
  <2>2. memory' \in [Frames -> [Index -> Entry]]
    BY <1>1, <2>1 DEF Well, Types
  <2> QED BY <1>1, <2>2 DEF Well, Types
<1>6. Tree'
  BY <1>1, <1>3, TreeKept DEF Well, Supplied
<1>7. Walking'
  <2>1. /\ job' \in [v : Page, p : Frames \cup Page] /\ depth' \in 1 .. 4
        /\ table' = At(job.v, depth)' /\ IsAt(table, job.v, depth - 1)'
        /\ Here' = Here
    BY <1>1, <1>4, WalkingStays
  <2>2. memory'[table'] = memory[table]
    BY <1>1, <1>3, WalkingTable
  <2>3. memory'[fresh] = Blank
    BY <1>1, <1>2, MemoryPages DEF Well, Types
  <2> QED BY <1>1, <2>1, <2>2, <2>3 DEF Well, Walking, Building
<1>8. HeapApart'
  <2>1. \A v \in HeapSpace : Apart(Translate(v))'
    BY <1>1, <1>4, HeapPages DEF Well, HeapApart, Apart, Building
  <2> QED BY <1>1, <2>1 DEF Well, HeapApart, Apart, Building
<1>9. Identity'
  BY <1>1, <1>4, MemoryPages DEF Well, Identity
<1> QED BY <1>5, <1>6, <1>7, <1>8, <1>9 DEF Well

LEMMA NextLevelPrime ==
    ASSUME NEW v \in Page, NEW n \in 1 .. 3
    PROVE  At(v, n + 1)' = Walked(At(v, n), Indexer(v)[n])'
<1>1. CASE n = 1
  BY <1>1 DEF At, At2
<1>2. CASE n = 2
  BY <1>2 DEF At, At3
<1>3. CASE n = 3
  BY <1>3 DEF At, At4
<1> QED BY <1>1, <1>2, <1>3

\* A walk that comes to nothing before its end translates to nothing.
LEMMA MissingStays ==
    ASSUME NEW v \in Page, NEW n \in 2 .. 4, At(v, n) = Missing
    PROVE  Translate(v) = Missing
<1>1. ASSUME NEW k \in 1 .. 3, At(v, k) = Missing PROVE At(v, k + 1) = Missing
  BY <1>1, NextLevel, WalkedMissing
<1>2. At(v, 3) = Missing => At(v, 4) = Missing
  BY <1>1
<1>3. At(v, 2) = Missing => At(v, 3) = Missing
  BY <1>1
<1>4. At(v, 4) = Missing
  BY <1>2, <1>3
<1> QED BY <1>4, LastLevel, WalkedMissing

LEMMA MissingStaysPrime ==
    ASSUME NEW v \in Page, NEW n \in 2 .. 4, At(v, n)' = Missing
    PROVE  Translate(v)' = Missing
<1>1. ASSUME NEW k \in 1 .. 3, At(v, k)' = Missing PROVE At(v, k + 1)' = Missing
  BY <1>1, MissingFrame, NextLevelPrime DEF Walked
<1>2. At(v, 3)' = Missing => At(v, 4)' = Missing
  BY <1>1
<1>3. At(v, 2)' = Missing => At(v, 3)' = Missing
  BY <1>1
<1>4. At(v, 4)' = Missing
  BY <1>2, <1>3
<1>5. Translate(v)' = Walked(At(v, 4), Indexer(v)[4])'
  BY DEF Translate, At, At2, At3, At4
<1> QED BY <1>4, <1>5, MissingFrame DEF Walked

\* A table that is linked with nothing in it maps nothing.
LEMMA LinkTranslates ==
    ASSUME Well, LinkTable, NEW v \in Page
    PROVE  /\ Translate(v)' = Translate(v)
           /\ At(v, depth) = table /\ Indexer(v)[depth] = Here =>
                \A d \in 1 .. 3 : d = depth => At(v, d + 1)' = fresh
<1>1. /\ step = "link" /\ depth < 4 /\ ~memory[table][Here].present
      /\ memory' = [memory EXCEPT ![table][Here] = EntryTo(fresh)]
      /\ root' = root /\ memory[fresh] = Blank /\ fresh \notin DOMAIN tables
      /\ fresh \in Frames
  BY MemoryPages DEF LinkTable, Well, Walking, Building
<1>2. PICK d \in 1 .. 3 : d = depth
  BY <1>1, WalkingTable
<1>3. /\ table \in DOMAIN tables /\ table \in Frames /\ Len(tables[table]) = d - 1
      /\ Here \in Index
  BY <1>1, <1>2, WalkingTable
<1>4. CASE ~(At(v, d) = table /\ Indexer(v)[d] = Here)
  <2>1. d \in 1 .. 4
    BY <1>2
  <2>2. Types /\ Tree
    BY DEF Well
  <2>3. Translate(v)' = Translate(v)
    BY <1>1, <1>3, <1>4, <2>1, <2>2, OneEntry
  <2> QED BY <1>2, <1>4, <2>3
<1>5. CASE At(v, d) = table /\ Indexer(v)[d] = Here
  <2>1. Translate(v) = Missing
    <3>1. At(v, d + 1) = Missing
      BY <1>1, <1>5, NextLevel DEF Walked
    <3> QED BY <3>1, MissingStays
  <2>2. At(v, d)' = At(v, d)
    <3>1. ASSUME NEW n \in 1 .. (d - 1), At(v, n) \in Frames
          PROVE  memory'[At(v, n)][Indexer(v)[n]] = memory[At(v, n)][Indexer(v)[n]]
      <4>1. n \in 1 .. 4 /\ At(v, n) # Missing
        BY <3>1, MissingFrame
      <4>2. Len(tables[At(v, n)]) = n - 1
        BY <4>1, Levels DEF IsAt, Well
      <4>3. At(v, n) # table
        BY <1>3, <4>2
      <4> QED BY <1>1, <3>1, <4>3 DEF Well, Types
    <3> QED BY <1>1, <3>1, SameWalk
  <2>3. memory'[table][Here] = EntryTo(fresh) /\ memory'[fresh] = Blank
    BY <1>1, <1>3 DEF Well, Types
  <2>4. At(v, d + 1)' = fresh
    BY <1>3, <1>5, <2>2, <2>3, NextLevelPrime DEF Walked, EntryTo
  <2>5. Translate(v)' = Missing
    <3>1. CASE d < 3
      <4>1. d + 1 \in 1 .. 3 /\ (d + 1) + 1 \in 2 .. 4
        BY <3>1
      <4>2. Indexer(v)[d + 1] \in Index
        BY <4>1, IndexerType
      <4>3. At(v, (d + 1) + 1)' = Walked(At(v, d + 1), Indexer(v)[d + 1])'
        BY <4>1, NextLevelPrime
      <4>4. At(v, (d + 1) + 1)' = Missing
        BY <2>3, <2>4, <4>2, <4>3 DEF Walked, Blank
      <4> QED BY <4>1, <4>4, MissingStaysPrime
    <3>2. CASE d = 3
      <4>1. Translate(v)' = Walked(At(v, 4), Indexer(v)[4])'
        BY DEF Translate, At, At2, At3, At4
      <4>2. At(v, 4)' = fresh
        BY <2>4, <3>2
      <4> QED BY <2>3, <4>1, <4>2, IndexerType DEF Walked, Blank
    <3> QED BY <3>1, <3>2
  <2> QED BY <1>2, <2>1, <2>4, <2>5
<1> QED BY <1>2, <1>4, <1>5

LEMMA LinkTableKeeps == ASSUME Well, ~starved, LinkTable PROVE Well'
<1>1. /\ step = "link" /\ step' = "walk" /\ depth < 4
      /\ memory' = [memory EXCEPT ![table][Here] = EntryTo(fresh)]
      /\ table' = fresh /\ depth' = depth + 1
      /\ UNCHANGED <<supply, root, loaded, stage, pos, heapEnd, job, fresh>>
  BY DEF LinkTable, Well, Walking, Building
<1>2. /\ DOMAIN tables' = DOMAIN tables \cup {fresh}
      /\ tables'[fresh] = Append(tables[table], Here)
      /\ \A f \in DOMAIN tables : f # fresh => tables'[f] = tables[f]
      /\ tables' \in [DOMAIN tables \cup {fresh} -> {tables'[f] : f \in DOMAIN tables'}]
  BY DEF LinkTable
<1>3. /\ memory[fresh] = Blank /\ fresh \notin DOMAIN tables /\ fresh \in 0 .. (Memory - 1)
      /\ fresh \notin Screen /\ fresh \in Frames /\ \A n \in DOMAIN supply : supply[n] # fresh
  BY <1>1, MemoryPages DEF Well, Walking, Building
<1>4. PICK w \in Page, d \in 1 .. 3 : w = job.v /\ d = depth
  BY <1>1, WalkingTable
<1>5. /\ table \in DOMAIN tables /\ table \in Frames /\ table = At(w, d)
      /\ Len(tables[table]) = d - 1 /\ Here \in Index /\ Here = Indexer(w)[d]
      /\ \A k \in 1 .. (d - 1) : tables[table][k] = Indexer(w)[k]
  BY <1>1, <1>4, WalkingTable DEF IsAt
<1>6. tables[table] \in Seq(Index)
  BY <1>5 DEF Well, Types
<1>7. /\ tables'[fresh] \in Seq(Index) /\ Len(tables'[fresh]) = d
      /\ \A k \in 1 .. (d - 1) : tables'[fresh][k] = tables[table][k]
      /\ tables'[fresh][d] = Here
  BY <1>2, <1>5, <1>6
<1>8. \A f \in DOMAIN tables : f # fresh /\ tables'[f] = tables[f]
  BY <1>2, <1>3
<1>9. /\ \A f \in Frames, i \in Index :
            ~(f = table /\ i = Here) => memory'[f][i] = memory[f][i]
      /\ memory'[table][Here] = EntryTo(fresh)
  BY <1>1, <1>5 DEF Well, Types
<1>10. \A v \in Page : Translate(v)' = Translate(v)
  BY LinkTranslates
<1>11. Types'
  <2>1. EntryTo(fresh) \in Entry
    BY <1>3, MemoryAssumption DEF EntryTo, Entry
  <2>2. memory' \in [Frames -> [Index -> Entry]]
    BY <1>1, <2>1 DEF Well, Types
  <2>3. DOMAIN tables' \subseteq 0 .. (Memory - 1) /\ DOMAIN tables' \cap Screen = {}
    BY <1>2, <1>3 DEF Well, Types
  <2>4. \A f \in DOMAIN tables' : tables'[f] \in Seq(Index)
    BY <1>2, <1>7, <1>8 DEF Well, Types
  <2>5. tables' \in [DOMAIN tables' -> Seq(Index)]
    BY <1>2, <2>4
  <2> QED BY <1>1, <2>2, <2>3, <2>5 DEF Well, Types
<1>12. Tree'
  <2>1. root \in DOMAIN tables' /\ tables'[root] = <<>> /\ root # fresh
    BY <1>2, <1>8 DEF Well, Tree
  <2>2. \A f \in DOMAIN tables' \ {root} : Len(tables'[f]) > 0
    BY <1>2, <1>7, <1>8 DEF Well, Tree
  <2>3. \A f \in DOMAIN tables' : \A n \in DOMAIN supply : supply[n] # f
    BY <1>2, <1>3 DEF Well, Tree
  <2>4. ASSUME NEW f \in DOMAIN tables', NEW i \in Index, Len(tables'[f]) < 3,
               memory'[f][i].present
        PROVE  LET g == memory'[f][i].address
               IN  /\ g \in DOMAIN tables' /\ Len(tables'[g]) = Len(tables'[f]) + 1
                   /\ \A k \in 1 .. Len(tables'[f]) : tables'[g][k] = tables'[f][k]
                   /\ tables'[g][Len(tables'[f]) + 1] = i
    <3>1. CASE f = fresh
      <4>1. memory'[f][i] = memory[f][i]
        BY <1>3, <1>5, <1>9, <3>1
      <4> QED BY <1>3, <2>4, <3>1, <4>1 DEF Blank
    <3>2. CASE f = table /\ i = Here
      <4>1. memory'[f][i].address = fresh
        BY <1>9, <3>2 DEF EntryTo
      <4>2. tables'[f] = tables[table] /\ Len(tables'[f]) = d - 1
        BY <1>5, <1>8, <3>2
      <4> QED BY <1>2, <1>7, <3>2, <4>1, <4>2
    <3>3. CASE f # fresh /\ ~(f = table /\ i = Here)
      <4>1. f \in DOMAIN tables /\ tables'[f] = tables[f]
        BY <1>2, <1>8, <3>3
      <4>2. memory'[f][i] = memory[f][i]
        BY <1>9, <3>3, <4>1, MemoryPages DEF Well, Types
      <4>3. LET g == memory[f][i].address
            IN  /\ g \in DOMAIN tables /\ Len(tables[g]) = Len(tables[f]) + 1
                /\ \A k \in 1 .. Len(tables[f]) : tables[g][k] = tables[f][k]
                /\ tables[g][Len(tables[f]) + 1] = i
        BY <2>4, <4>1, <4>2 DEF Well, Tree
      <4>4. \A g \in DOMAIN tables : g \in DOMAIN tables' /\ tables'[g] = tables[g]
        BY <1>2, <1>8
      <4>5. PICK g : g = memory[f][i].address
        OBVIOUS
      <4>6. /\ g \in DOMAIN tables /\ Len(tables[g]) = Len(tables[f]) + 1
            /\ \A k \in 1 .. Len(tables[f]) : tables[g][k] = tables[f][k]
            /\ tables[g][Len(tables[f]) + 1] = i
        BY <4>3, <4>5
      <4>7. g \in DOMAIN tables' /\ tables'[g] = tables[g]
        BY <4>4, <4>6
      <4> QED BY <4>1, <4>2, <4>5, <4>6, <4>7
    <3> QED BY <3>1, <3>2, <3>3
  <2>5. root' = root /\ supply' = supply
    BY <1>1
  <2> QED BY <2>1, <2>2, <2>3, <2>4, <2>5 DEF Tree
<1>13. Walking'
  <2>1. d + 1 \in 1 .. 4 /\ (d + 1) - 1 = d
    OBVIOUS
  <2>2. At(w, d + 1)' = fresh
    BY <1>4, <1>5, LinkTranslates
  <2>3. PICK t : t = fresh
    OBVIOUS
  <2>4. IsAt(t, w, (d + 1) - 1)'
    <3>1. \A k \in 1 .. d : tables'[fresh][k] = Indexer(w)[k]
      <4> SUFFICES ASSUME NEW k \in 1 .. d PROVE tables'[fresh][k] = Indexer(w)[k]
        OBVIOUS
      <4>1. CASE k = d
        BY <1>5, <1>7, <4>1
      <4>2. CASE k # d
        <5>1. k \in 1 .. (d - 1)
          BY <4>2
        <5> QED BY <1>5, <1>7, <5>1
      <4> QED BY <4>1, <4>2
    <3> QED BY <1>2, <1>7, <2>1, <2>3, <3>1 DEF IsAt
  <2>5. job' \in [v : Page, p : Frames \cup Page] /\ job'.v = w
    BY <1>1, <1>4 DEF Well, Walking
  <2> QED BY <1>1, <1>4, <2>1, <2>2, <2>3, <2>4, <2>5, WalkingNext
<1>14. HeapApart'
  <2>2. \A v \in HeapSpace : Apart(Translate(v))'
    BY <1>1, <1>2, <1>10, HeapPages DEF Well, HeapApart, Apart, Building
  <2>3. job.v \in HeapSpace => Apart(job.p)'
    BY <1>1, <1>2 DEF Well, HeapApart, Apart, Building
  <2> QED BY <1>1, <2>2, <2>3 DEF Well, HeapApart
<1>15. Identity'
  BY <1>1, <1>10, MemoryPages DEF Well, Identity
<1> QED BY <1>11, <1>12, <1>13, <1>14, <1>15 DEF Well

\* The entry that is set is the translation of one page.
LEMMA SetPageTranslates ==
    ASSUME Well, SetPage, NEW v \in Page
    PROVE  Translate(v)' = IF v = job.v THEN job.p ELSE Translate(v)
<1>1. /\ step = "walk" /\ depth = 4 /\ root' = root
      /\ memory' = [memory EXCEPT ![table][Here] = EntryTo(job.p)]
  BY DEF SetPage
<1>2. PICK w \in Page : w = job.v
  BY <1>1, WalkingTable
<1>3. /\ table \in DOMAIN tables /\ table \in Frames /\ Len(tables[table]) = 3
      /\ Here \in Index /\ Here = Indexer(w)[4] /\ table = At(w, 4) /\ IsAt(table, w, 3)
  BY <1>1, <1>2, WalkingTable
<1>4. Types /\ Tree
  BY DEF Well
<1>5. CASE v = w
  <2>1. ASSUME NEW n \in 1 .. 3, At(v, n) \in Frames
        PROVE  memory'[At(v, n)][Indexer(v)[n]] = memory[At(v, n)][Indexer(v)[n]]
    <3>1. n \in 1 .. 4 /\ At(v, n) # Missing
      BY <2>1, MissingFrame
    <3>2. Len(tables[At(v, n)]) = n - 1
      BY <1>4, <3>1, Levels DEF IsAt
    <3>3. n - 1 # 3
      OBVIOUS
    <3>4. At(v, n) # table
      BY <1>3, <3>2, <3>3
    <3> QED BY <1>1, <2>1, <3>4 DEF Well, Types
  <2>2. At(v, 4)' = table
    BY <1>1, <1>3, <1>5, <2>1, SameWalk
  <2>3. memory'[table][Here] = EntryTo(job.p)
    BY <1>1, <1>3 DEF Well, Types
  <2>4. Translate(v)' = Walked(At(v, 4), Indexer(v)[4])'
    BY DEF Translate, At, At2, At3, At4
  <2> QED BY <1>2, <1>3, <1>5, <2>2, <2>3, <2>4 DEF Walked, EntryTo
<1>6. CASE v # w
  <2>1. ~(At(v, 4) = table /\ Indexer(v)[4] = Here)
    <3> SUFFICES ASSUME At(v, 4) = table, Indexer(v)[4] = Here PROVE FALSE
      OBVIOUS
    <3>1. IsAt(table, v, 3)
      BY <1>3, <1>4, Levels, MissingFrame
    <3>2. \A n \in 1 .. 3 : Indexer(v)[n] = Indexer(w)[n]
      BY <1>3, <3>1 DEF IsAt
    <3>3. \A n \in 1 .. 4 : Indexer(v)[n] = Indexer(w)[n]
      BY <1>3, <3>2
    <3> QED BY <1>6, <3>3, IndexerInjective
  <2>2. 4 \in 1 .. 4 /\ Len(tables[table]) = 4 - 1
    BY <1>3
  <2> QED BY <1>1, <1>2, <1>3, <1>4, <1>6, <2>1, <2>2, OneEntry
<1> QED BY <1>5, <1>6

LEMMA SetPageKeeps == ASSUME Well, SetPage PROVE Well'
<1>1. /\ step = "walk" /\ step' = "idle" /\ job' = NoJob /\ depth = 4
      /\ memory' = [memory EXCEPT ![table][Here] = EntryTo(job.p)]
      /\ UNCHANGED <<supply, root, loaded, stage, pos, heapEnd, tables>>
  BY DEF SetPage
<1>2. \A v \in Page : Translate(v)' = IF v = job.v THEN job.p ELSE Translate(v)
  BY SetPageTranslates
<1>3. /\ table \in DOMAIN tables /\ table \in Frames /\ Len(tables[table]) = 3
      /\ Here \in Index
  BY <1>1, WalkingTable
<1>4. Types'
  <2>1. EntryTo(job.p) \in Entry
    BY <1>1, MemoryAssumption, MemoryPages DEF Well, Walking, EntryTo, Entry
  <2>2. memory' \in [Frames -> [Index -> Entry]]
    BY <1>1, <2>1 DEF Well, Types
  <2> QED BY <1>1, <2>2 DEF Well, Types
<1>5. Tree'
  <2>1. ASSUME NEW f \in DOMAIN tables, Len(tables[f]) < 3 PROVE memory'[f] = memory[f]
    <3>1. f # table
      <4>1. Len(tables[f]) # 3
        BY <2>1
      <4> QED BY <1>3, <4>1
    <3>2. f \in Frames
      BY MemoryPages DEF Well, Types
    <3> QED BY <1>1, <3>1, <3>2 DEF Well, Types
  <2>2. UNCHANGED <<root, supply, tables>>
    BY <1>1
  <2>3. Tree
    BY DEF Well
  <2> QED BY <2>1, <2>2, <2>3 DEF Tree
<1>6. Walking'
  BY <1>1 DEF Walking, Building
<1>7. HeapApart'
  BY <1>1, <1>2, HeapPages DEF Well, HeapApart, Apart, Building
<1>8. Identity'
  <2> SUFFICES ASSUME NEW v \in 0 .. (Memory - 1), stage = "memory" => v < pos
               PROVE  Translate(v)' = v
    BY <1>1 DEF Identity
  <2>1. v \in Page
    BY MemoryPages
  <2>2. CASE v = job.v
    <3>1. v \notin HeapSpace
      BY HeapPages, MemoryAssumption
    <3>2. job.p = v
      BY <1>1, <2>2, <3>1 DEF Well, HeapApart
    <3> QED BY <1>2, <2>1, <2>2, <3>2
  <2>3. CASE v # job.v
    BY <1>2, <2>1, <2>3 DEF Well, Identity
  <2> QED BY <2>2, <2>3
<1> QED BY <1>4, <1>5, <1>6, <1>7, <1>8 DEF Well

\* What the calls of MapMemory have in common.
LEMMA CallKeeps ==
    ASSUME Well, NEW v \in Page, NEW p \in Frames \cup Page, Call(v, p), Supplied,
           UNCHANGED <<memory, root, tables>>
    PROVE  /\ Tree' /\ Walking'
           /\ \A u \in Page : Translate(u)' = Translate(u)
           /\ \A f : Apart(f) => Apart(f)'
           /\ job.v = Missing
<1>1. /\ step = "idle" /\ step' = "walk" /\ job' = [v |-> v, p |-> p]
      /\ depth' = 1 /\ table' = root
  BY DEF Call
<1>2. Tree'
  BY TreeKept DEF Well
<1>3. Walking'
  <2>1. PICK t : t = root
    OBVIOUS
  <2>2. At(v, 1)' = t
    BY <2>1 DEF At
  <2>3. IsAt(t, v, 1 - 1)'
    BY <2>1 DEF IsAt, Well, Tree
  <2> QED BY <1>1, <2>1, <2>2, <2>3, WalkingNext
<1>4. \A u \in Page : Translate(u)' = Translate(u)
  BY Unwritten
<1>5. \A f : Apart(f) => Apart(f)'
  BY <1>1, SuppliedFewer DEF Apart, Building, Well
<1>6. job.v = Missing
  BY <1>1 DEF Well, Walking, NoJob
<1> QED BY <1>2, <1>3, <1>4, <1>5, <1>6

LEMMA MapAllKeeps == ASSUME Well, MapAll PROVE Well' /\ \E v \in Page : Call(v, v)
<1>1. /\ stage = "memory" /\ pos < Memory /\ Call(pos, pos) /\ pos' = pos + 1
      /\ UNCHANGED <<supply, memory, root, loaded, stage, heapEnd, tables>>
  BY DEF MapAll, ToMap
<1>2. pos \in 0 .. (Memory - 1)
  BY <1>1, MemoryAssumption DEF Well, Types
<1>3. pos \in Page /\ pos \notin HeapSpace
  BY <1>2, MemoryPages, HeapPages, MemoryAssumption
<1>4. PICK v \in Page : v = pos
  BY <1>3
<1>5. Call(v, v)
  BY <1>1, <1>4
<1>6. job' = [v |-> v, p |-> v] /\ step' = "walk"
  BY <1>5 DEF Call
<1>7. /\ Tree' /\ Walking'
      /\ \A u \in Page : Translate(u)' = Translate(u)
      /\ \A f : Apart(f) => Apart(f)'
      /\ job.v = Missing
  BY <1>1, <1>4, <1>5, CallKeeps DEF Supplied
<1>8. Types'
  <2>1. pos' \in Nat /\ pos' <= Memory
    BY <1>1, <1>2, MemoryAssumption
  <2> QED BY <1>1, <2>1 DEF Well, Types
<1>9. HeapApart'
  BY <1>1, <1>3, <1>4, <1>6, <1>7, HeapPages DEF Well, HeapApart, Apart
<1>10. Identity'
  <2> SUFFICES ASSUME NEW u \in 0 .. (Memory - 1), u < pos + 1, u # pos
               PROVE  Translate(u)' = u
    BY <1>1, <1>4, <1>6 DEF Identity
  <2>1. u < pos /\ u # Missing
    BY <1>2, MissingAssumption
  <2> QED BY <1>7, <2>1, MemoryPages DEF Well, Identity
<1> QED BY <1>5, <1>7, <1>8, <1>9, <1>10 DEF Well

LEMMA EndMapAllKeeps == ASSUME Well, EndMapAll PROVE Well'
<1>1. /\ stage = "memory" /\ ~(pos < Memory) /\ step = "idle"
      /\ stage' = "framebuffer" /\ pos' = Framebuffer
      /\ UNCHANGED <<supply, memory, root, loaded, heapEnd, job, step, depth, table, fresh, tables>>
  BY DEF EndMapAll, ToMap, jobVars
<1>2. \A v \in Page : Translate(v)' = Translate(v)
  BY <1>1, Unwritten
<1>3. job.v = Missing
  BY <1>1 DEF Well, Walking, NoJob
<1>4. Types'
  BY <1>1, MemoryAssumption DEF Well, Types
<1>5. Tree'
  BY <1>1 DEF Well, Tree
<1>6. Walking'
  BY <1>1 DEF Well, Walking, Building
<1>7. HeapApart'
  BY <1>1, <1>2, HeapPages DEF Well, HeapApart, Apart, Building
<1>8. Identity'
  <2> SUFFICES ASSUME NEW v \in 0 .. (Memory - 1) PROVE Translate(v)' = v
    BY DEF Identity
  <2>1. v \in Nat /\ pos \in Nat /\ v < pos
    BY <1>1, MemoryAssumption DEF Well, Types
  <2>2. v # job.v
    BY <1>3, <2>1, MissingAssumption
  <2> QED BY <1>2, <2>1, <2>2, MemoryPages DEF Well, Identity
<1> QED BY <1>4, <1>5, <1>6, <1>7, <1>8 DEF Well

\* Once memory is mapped to itself, a step that keeps the translations keeps that.
LEMMA IdentityKept ==
    ASSUME Well, stage # "memory", \A v \in Page : Translate(v)' = Translate(v)
    PROVE  Identity'
  BY MemoryPages DEF Well, Identity

\* The framebuffer and the devices are mapped to themselves.
LEMMA MapSelfKeeps ==
    ASSUME Well, stage # "memory", NEW v \in Page, v \notin HeapSpace, Call(v, v),
           UNCHANGED <<supply, memory, root, loaded, stage, heapEnd, tables>>,
           pos' = pos \/ (pos' = pos + 1)
    PROVE  Well'
<1>1. job' = [v |-> v, p |-> v] /\ step' = "walk"
  BY DEF Call
<1>2. /\ Tree' /\ Walking'
      /\ \A u \in Page : Translate(u)' = Translate(u)
      /\ \A f : Apart(f) => Apart(f)'
  BY CallKeeps DEF Supplied
<1>3. Types'
  <2>1. pos' \in Nat /\ (stage = "framebuffer" => pos' >= Framebuffer)
    <3>1. pos \in Nat /\ Framebuffer \in Nat /\ (stage = "framebuffer" => pos >= Framebuffer)
      BY MemoryAssumption DEF Well, Types
    <3> QED BY <3>1
  <2> QED BY <2>1 DEF Well, Types
<1>4. HeapApart'
  BY <1>1, <1>2, HeapPages DEF Well, HeapApart, Apart
<1>5. Identity'
  BY <1>2, IdentityKept
<1> QED BY <1>2, <1>3, <1>4, <1>5 DEF Well

LEMMA MapFramebufferKeeps ==
    ASSUME Well, MapFramebuffer PROVE Well' /\ \E v \in Page : Call(v, v)
<1>1. /\ stage = "framebuffer" /\ pos < Framebuffer + FramebufferPages
      /\ Call(pos, pos) /\ pos' = pos + 1
      /\ UNCHANGED <<supply, memory, root, loaded, stage, heapEnd, tables>>
  BY DEF MapFramebuffer
<1>2. pos \in Screen
  <2>1. pos \in Nat /\ pos >= Framebuffer /\ Framebuffer \in Nat /\ FramebufferPages \in Nat
    BY <1>1, MemoryAssumption DEF Well, Types
  <2> QED BY <1>1, <2>1 DEF Screen
<1>3. pos \in Page /\ pos \notin HeapSpace
  BY <1>2, MemoryAssumption, HeapAssumption DEF HeapSpace
<1> QED BY <1>1, <1>3, MapSelfKeeps

LEMMA MapDeviceKeeps ==
    ASSUME Well, NEW d \in Devices, MapDevice(d) PROVE Well' /\ \E v \in Page : Call(v, v)
<1>1. /\ stage = "running" /\ Call(d, d)
      /\ UNCHANGED <<supply, memory, root, loaded, stage, pos, heapEnd, tables>>
  BY DEF MapDevice
<1>2. d \in Page /\ d \notin HeapSpace
  BY MemoryAssumption, HeapAssumption DEF HeapSpace
<1> QED BY <1>1, <1>2, MapSelfKeeps

\* Boot goes on and maps nothing.
LEMMA StageKeeps ==
    ASSUME Well, LoadCR3 \/ EndInitialiseHeap PROVE Well'
<1>1. /\ stage # "memory" /\ stage' \in {"heap", "running"}
      /\ UNCHANGED <<supply, memory, root, pos, heapEnd, job, step, depth, table, fresh, tables>>
  BY DEF LoadCR3, EndInitialiseHeap, jobVars
<1>2. \A v \in Page : /\ \A n \in 1 .. 4 : At(v, n)' = At(v, n)
                      /\ Translate(v)' = Translate(v)
  BY <1>1, Unwritten
<1>3. Types'
  BY <1>1 DEF Well, Types
<1>4. Tree'
  BY <1>1 DEF Well, Tree
<1>5. Walking'
  <2>1. step = "idle"
    BY DEF LoadCR3, EndInitialiseHeap
  <2> QED BY <1>1, <2>1 DEF Well, Walking, Building
<1>6. HeapApart'
  BY <1>1, <1>2, HeapPages DEF Well, HeapApart, Apart, Building
<1>7. Identity'
  BY <1>1, <1>2, IdentityKept
<1> QED BY <1>3, <1>4, <1>5, <1>6, <1>7 DEF Well

LEMMA MapHeapKeeps ==
    ASSUME Well, MapHeap, ~starved'
    PROVE  Well' /\ \E v \in Page, p \in Frames : Call(v, p)
<1>1. /\ stage # "memory" /\ heapEnd < HeapStart + MaxHeap
      /\ RequestPage /\ Call(heapEnd, Requested) /\ heapEnd' = heapEnd + 1
      /\ UNCHANGED <<memory, root, loaded, stage, pos, tables>>
  <2>1. heapEnd \in Nat /\ HeapStart \in Nat /\ pageCount \in Nat /\ MaxHeap \in Nat
        /\ pageCount <= MaxHeap
    BY HeapAssumption DEF Well, Types
  <2>2. stage # "memory" /\ (heapEnd < HeapStart + pageCount \/ heapEnd < HeapStart + MaxHeap)
    BY DEF MapHeap
  <2> QED BY <2>1, <2>2 DEF MapHeap
<1>2. heapEnd \in HeapSpace /\ heapEnd' \in Nat /\ heapEnd' >= HeapStart
      /\ heapEnd' <= HeapStart + MaxHeap
  <2>1. heapEnd \in Nat /\ HeapStart \in Nat /\ MaxHeap \in Nat /\ heapEnd >= HeapStart
    BY HeapAssumption DEF Well, Types
  <2> QED BY <1>1, <2>1 DEF HeapSpace
<1>3. PICK v \in Page, p \in Frames : v = heapEnd /\ p = Requested
  BY <1>1, <1>2, HeapPages, Supplying DEF Well
<1>4. Call(v, p) /\ Supplied
  BY <1>1, <1>3, Supplying DEF Well
<1>5. job' = [v |-> v, p |-> p] /\ step' = "walk"
  BY <1>4 DEF Call
<1>6. /\ Tree' /\ Walking'
      /\ \A u \in Page : Translate(u)' = Translate(u)
      /\ \A f : Apart(f) => Apart(f)'
  BY <1>1, <1>4, CallKeeps
<1>7. Types'
  BY <1>1, <1>2, <1>4, SuppliedTypes DEF Well, Types
<1>8. Apart(p)'
  <2>1. \A n \in DOMAIN supply' : supply'[n] # p
    BY <1>1, <1>3, Supplying DEF Well
  <2>2. p \notin DOMAIN tables
    BY <1>1, <1>3, Supplying DEF Well, Tree
  <2>3. ~Building'
    BY <1>5 DEF Building
  <2> QED BY <1>1, <2>1, <2>2, <2>3 DEF Apart
<1>9. HeapApart'
  <2>1. \A u \in HeapSpace : Apart(Translate(u))'
    BY <1>6, HeapPages DEF Well, HeapApart, Apart
  <2>2. Apart(job.p)' /\ job'.v \in HeapSpace
    BY <1>2, <1>3, <1>5, <1>8 DEF Apart
  <2> QED BY <2>1, <2>2 DEF HeapApart
<1>10. Identity'
  BY <1>1, <1>6, IdentityKept
<1> QED BY <1>4, <1>6, <1>7, <1>9, <1>10 DEF Well

\* A page frame that is written beside the tables.
LEMMA WrittenBeside ==
    ASSUME Well, NEW f \in Frames, NEW left \in Leftovers,
           f \notin DOMAIN tables, Building => f # fresh,
           memory' = [memory EXCEPT ![f] = left],
           UNCHANGED <<supply, root, loaded, stage, pos, heapEnd, jobVars, tables>>
    PROVE  Well' /\ \A v \in Page : Translate(v)' = Translate(v)
<1>1. UNCHANGED <<supply, root, loaded, stage, pos, heapEnd, job, step, depth, table, fresh, tables>>
  BY DEF jobVars
<1>2. \A g \in DOMAIN tables : memory'[g] = memory[g]
  BY MemoryPages DEF Well, Types
<1>3. \A v \in Page : /\ \A n \in 1 .. 4 : At(v, n)' = At(v, n)
                      /\ Translate(v)' = Translate(v)
  BY <1>1, <1>2, OutsideTables DEF Well
<1>4. Types'
  <2>1. memory' \in [Frames -> [Index -> Entry]]
    BY LeftoversAssumption DEF Well, Types
  <2> QED BY <1>1, <2>1 DEF Well, Types
<1>5. Tree'
  BY <1>1, <1>2, TreeKept DEF Well, Supplied
<1>6. Walking'
  <2>1. CASE step = "idle"
    BY <1>1, <2>1 DEF Well, Walking, Building
  <2>2. CASE step # "idle"
    <3>1. /\ job' \in [v : Page, p : Frames \cup Page] /\ depth' \in 1 .. 4
          /\ table' = At(job.v, depth)' /\ IsAt(table, job.v, depth - 1)'
          /\ Here' = Here
      BY <1>1, <1>3, <2>2, WalkingStays
    <3>2. memory'[table'] = memory[table]
      BY <1>1, <1>2, <2>2, WalkingTable
    <3>3. step = "link" => memory'[fresh] = memory[fresh]
      BY MemoryPages DEF Well, Types, Walking, Building
    <3> QED BY <1>1, <2>2, <3>1, <3>2, <3>3 DEF Well, Walking, Building
  <2> QED BY <2>1, <2>2
<1>7. HeapApart'
  BY <1>1, <1>3, HeapPages DEF Well, HeapApart, Apart, Building
<1>8. stage' = stage /\ Identity'
  BY <1>1, <1>3, MemoryPages DEF Well, Identity
<1> QED BY <1>3, <1>4, <1>5, <1>6, <1>7, <1>8 DEF Well

LEMMA WriteHeapKeeps ==
    ASSUME Well, NEW h \in Page, WriteHeap(h)
    PROVE  Well' /\ \A v \in Page : Translate(v)' = Translate(v)
<1>1. /\ h \in HeapStart .. (heapEnd - 1) /\ Translate(h) \in Frames
      /\ UNCHANGED <<supply, root, loaded, stage, pos, heapEnd, jobVars, tables>>
  BY DEF WriteHeap
<1>2. PICK left \in Leftovers : memory' = [memory EXCEPT ![Translate(h)] = left]
  BY DEF WriteHeap
<1>3. h \in HeapSpace
  <2>1. heapEnd \in Nat /\ HeapStart \in Nat /\ MaxHeap \in Nat
        /\ heapEnd <= HeapStart + MaxHeap
    BY HeapAssumption DEF Well, Types
  <2> QED BY <1>1, <2>1 DEF HeapSpace
<1>4. Apart(Translate(h))
  BY <1>3 DEF Well, HeapApart
<1>5. PICK f \in Frames : f = Translate(h)
  BY <1>1
<1>6. f \notin DOMAIN tables /\ (Building => f # fresh)
  BY <1>4, <1>5 DEF Apart
<1>7. memory' = [memory EXCEPT ![f] = left]
  BY <1>2, <1>5
<1> QED BY <1>1, <1>6, <1>7, WrittenBeside

LEMMA DrawFramebufferKeeps ==
    ASSUME Well, NEW f \in Screen, DrawFramebuffer(f)
    PROVE  Well' /\ \A v \in Page : Translate(v)' = Translate(v)
<1>1. f \in Frames /\ UNCHANGED <<supply, root, loaded, stage, pos, heapEnd, jobVars, tables>>
  BY DEF DrawFramebuffer
<1>2. PICK left \in Leftovers : memory' = [memory EXCEPT ![f] = left]
  BY DEF DrawFramebuffer
<1>3. f \notin DOMAIN tables
  BY DEF Well, Types
<1>4. Building => f # fresh
  BY DEF Well, Walking
<1> QED BY <1>1, <1>2, <1>3, <1>4, WrittenBeside

-----------------------------------------------------------------------------
(* The theorems.                                                           *)

\* What was starved once stays so.
LEMMA StarvedStays == ASSUME starved, [Next]_vars PROVE starved'
<1>1. CASE Next
  BY <1>1 DEF Next, MapMemory, Callers, Descend, NewTable, ClearTable, LinkTable, SetPage,
              PageFault, MapAll, EndMapAll, MapFramebuffer, LoadCR3, MapHeap,
              EndInitialiseHeap, MapDevice, WriteHeap, DrawFramebuffer, RequestPage
<1>2. CASE UNCHANGED vars
  BY <1>2 DEF vars
<1> QED BY <1>1, <1>2

LEMMA StarvedType == ASSUME starved \in BOOLEAN, [Next]_vars PROVE starved' \in BOOLEAN
<1>1. CASE Next
  BY <1>1 DEF Next, MapMemory, Callers, Descend, NewTable, ClearTable, LinkTable, SetPage,
              PageFault, MapAll, EndMapAll, MapFramebuffer, LoadCR3, MapHeap,
              EndInitialiseHeap, MapDevice, WriteHeap, DrawFramebuffer, RequestPage
<1>2. CASE UNCHANGED vars
  BY <1>2 DEF vars
<1> QED BY <1>1, <1>2

LEMMA UnchangedKeeps == ASSUME Well, UNCHANGED vars PROVE Well'
<1>1. UNCHANGED <<supply, memory, root, loaded, stage, pos, heapEnd, job, step, depth, table,
                  fresh, tables>>
  BY DEF vars, jobVars
<1>2. \A v \in Page : /\ \A n \in 1 .. 4 : At(v, n)' = At(v, n)
                      /\ Translate(v)' = Translate(v)
  BY <1>1, Unwritten
<1>3. Types' /\ Tree'
  BY <1>1 DEF Well, Types, Tree
<1>4. Walking'
  BY <1>1 DEF Well, Walking, Building, At, At2, At3, At4, Walked, IsAt, Here
<1>5. HeapApart' /\ Identity'
  BY <1>1, <1>2, HeapPages, MemoryPages DEF Well, HeapApart, Apart, Building, Identity
<1> QED BY <1>3, <1>4, <1>5 DEF Well

LEMMA WellStays == ASSUME Well, ~starved, ~starved', [Next]_vars PROVE Well'
<1>1. CASE MapMemory
  BY <1>1, DescendKeeps, NewTableKeeps, ClearTableKeeps, LinkTableKeeps, SetPageKeeps, NoFault
     DEF MapMemory
<1>2. CASE Callers
  BY <1>2, MapAllKeeps, EndMapAllKeeps, MapFramebufferKeeps, StageKeeps, MapHeapKeeps,
     MapDeviceKeeps, WriteHeapKeeps, DrawFramebufferKeeps DEF Callers
<1>3. CASE UNCHANGED vars
  BY <1>3, UnchangedKeeps
<1> QED BY <1>1, <1>2, <1>3 DEF Next

LEMMA NextInvariant == IInv /\ [Next]_vars => IInv'
<1> SUFFICES ASSUME IInv, [Next]_vars PROVE IInv'
  OBVIOUS
<1>1. starved' \in BOOLEAN
  BY StarvedType DEF IInv
<1>2. starved' \/ Well'
  BY StarvedStays, WellStays DEF IInv
<1> QED BY <1>1, <1>2 DEF IInv

\* The invariant: starved, or the tables, the walk of MapMemory, the heap and
\* the identity mapping are Well.
THEOREM Invariant == Spec => []IInv
  BY InitInvariant, NextInvariant, PTL DEF Spec

LEMMA WellApart == ASSUME Well PROVE TablesAreApart
<1>1. root \in DOMAIN tables /\ tables[root] = <<>>
  BY DEF Well, Tree
<1>2. ASSUME NEW f \in DOMAIN tables, NEW i \in Index,
             Len(tables[f]) < 3 /\ memory[f][i].present
      PROVE  /\ memory[f][i].address \in DOMAIN tables
             /\ tables[memory[f][i].address] = Append(tables[f], i)
  <2> DEFINE g == memory[f][i].address
  <2>1. /\ g \in DOMAIN tables /\ Len(tables[g]) = Len(tables[f]) + 1
        /\ \A k \in 1 .. Len(tables[f]) : tables[g][k] = tables[f][k]
        /\ tables[g][Len(tables[f]) + 1] = i
    BY <1>2 DEF Well, Tree
  <2>2. tables[g] \in Seq(Index) /\ tables[f] \in Seq(Index)
    BY <2>1 DEF Well, Types
  <2> HIDE DEF g
  <2>3. PICK s, t : s = tables[f] /\ t = tables[g]
    OBVIOUS
  <2>4. t = Append(s, i)
    BY <2>1, <2>2, <2>3
  <2> QED BY <2>1, <2>3, <2>4 DEF g
<1>3. \A f \in DOMAIN tables \ {root} : tables[f] # <<>>
  BY DEF Well, Tree
<1>4. DOMAIN tables \cap {supply[n] : n \in DOMAIN supply} = {}
  BY DEF Well, Tree
<1>5. \A v \in HeapStart .. (heapEnd - 1) : Translate(v) \notin DOMAIN tables
  <2>1. heapEnd \in Nat /\ HeapStart \in Nat /\ MaxHeap \in Nat /\ heapEnd <= HeapStart + MaxHeap
    BY HeapAssumption DEF Well, Types
  <2>2. HeapStart .. (heapEnd - 1) \subseteq HeapSpace
    BY <2>1 DEF HeapSpace
  <2> QED BY <2>2 DEF Well, HeapApart, Apart
<1> QED BY <1>1, <1>2, <1>3, <1>4, <1>5 DEF TablesAreApart

\* The tables are a tree of four levels, apart from the heap and from what RequestPage
\* has yet to give, whatever the page frames contained.
THEOREM TablesStayApart == Spec => []TablesAreApart
<1>1. IInv => TablesAreApart
  BY WellApart DEF IInv, TablesAreApart
<1> QED BY <1>1, Invariant, PTL

\* MapMemory never faults unless starved: every table is mapped to itself when
\* it is reached through the tables.
THEOREM NoFaultBefore == Spec => []FaultsStarved
<1>1. IInv => FaultsStarved
  BY DEF IInv, Well, Walking, FaultsStarved
<1> QED BY <1>1, Invariant, PTL

-----------------------------------------------------------------------------
(* The refinement of AddressSpace.                                         *)

LEMMA RefinedInit == Init => AS!Init
<1> SUFFICES ASSUME Init PROVE AS!Init
  OBVIOUS
<1>1. root \in Frames /\ memory[root] = Blank
  BY InitSupply DEF Init
<1>2. \A v \in Page : Translate(v) = Missing
  BY <1>1, BlankRoot
<1>3. job = NoJob /\ starved \in BOOLEAN
  BY DEF Init
<1> QED BY <1>2, <1>3 DEF AS!Init

\* A call is a call of AddressSpace, and its SetPage the return.
LEMMA RefinedCall ==
    ASSUME Well, NEW v \in Page, NEW p \in Frames \cup Page, Call(v, p),
           \A u \in Page : Translate(u)' = Translate(u), starved' = starved
    PROVE  AS!Next
<1>1. job = NoJob /\ job' = [v |-> v, p |-> p]
  BY DEF Well, Walking, Call
<1>2. AS!Call(v, p)
  BY <1>1 DEF AS!Call
<1> QED BY <1>2 DEF AS!Next

LEMMA RefinedReturn == ASSUME Well, SetPage, starved' = starved PROVE AS!Next
<1>1. job \in [v : Page, p : Frames \cup Page] /\ job' = NoJob
  BY DEF Well, Walking, SetPage
<1>2. job # NoJob
  <2>1. job.v \in Nat
    BY <1>1, MemoryPages
  <2> QED BY <2>1, MissingAssumption DEF NoJob
<1>3. [v \in Page |-> Translate(v)']
        = [[v \in Page |-> Translate(v)] EXCEPT ![job.v] = job.p]
  BY <1>1, SetPageTranslates
<1>4. AS!Return
  BY <1>1, <1>2, <1>3 DEF AS!Return
<1> QED BY <1>4 DEF AS!Next

LEMMA RefinedNext == IInv /\ IInv' /\ [Next]_vars => [AS!Next]_(AS!vars)
<1> SUFFICES ASSUME IInv, IInv', [Next]_vars PROVE [AS!Next]_(AS!vars)
  OBVIOUS
<1>1. CASE starved'
  BY <1>1 DEF AS!Next, AS!Starve
<1>2. CASE ~starved'
  <2>1. ~starved /\ Well
    BY <1>2, StarvedStays DEF IInv
  <2>2. starved' = starved
    BY <1>2, <2>1 DEF IInv
  <2>3. CASE SetPage
    BY <2>1, <2>2, <2>3, RefinedReturn
  <2>4. CASE \E v \in Page, p \in Frames \cup Page :
               Call(v, p) /\ \A u \in Page : Translate(u)' = Translate(u)
    BY <2>1, <2>2, <2>4, RefinedCall
  <2>5. CASE job' = job /\ \A u \in Page : Translate(u)' = Translate(u)
    BY <2>2, <2>5 DEF AS!vars
  <2>6. CASE root' = root /\ memory' = memory /\ job' = job
    BY <2>5, <2>6, Unwritten
  <2>7. CASE ClearTable
    <3>1. fresh \notin DOMAIN tables
      BY <2>1, <2>7 DEF Well, Walking, Building, ClearTable
    <3>2. /\ root' = root /\ job' = job
          /\ \A f \in DOMAIN tables : memory'[f] = memory[f]
      BY <2>1, <2>7, <3>1, MemoryPages DEF ClearTable, Well, Types
    <3> QED BY <2>1, <2>5, <3>2, OutsideTables DEF Well
  <2>8. CASE LinkTable
    <3>1. job' = job
      BY <2>8 DEF LinkTable
    <3> QED BY <2>1, <2>5, <2>8, <3>1, LinkTranslates
  <2>9. CASE Descend \/ NewTable
    BY <2>6, <2>9 DEF Descend, NewTable
  <2>10. CASE EndMapAll \/ LoadCR3 \/ EndInitialiseHeap
    BY <2>6, <2>10 DEF EndMapAll, LoadCR3, EndInitialiseHeap, jobVars
  <2>11. CASE MapAll \/ MapFramebuffer \/ \E d \in Devices : MapDevice(d)
    <3>1. root' = root /\ memory' = memory
      BY <2>11 DEF MapAll, MapFramebuffer, MapDevice
    <3>2. \E v \in Page : Call(v, v)
      BY <2>1, <2>11, MapAllKeeps, MapFramebufferKeeps, MapDeviceKeeps
    <3> QED BY <2>4, <3>1, <3>2, Unwritten
  <2>12. CASE MapHeap
    <3>1. root' = root /\ memory' = memory
      BY <2>12 DEF MapHeap
    <3>2. \E v \in Page, p \in Frames : Call(v, p)
      BY <1>2, <2>1, <2>12, MapHeapKeeps
    <3> QED BY <2>4, <3>1, <3>2, Unwritten
  <2>13. CASE \E v \in Page : WriteHeap(v)
    <3>1. job' = job
      BY <2>13 DEF WriteHeap, jobVars
    <3> QED BY <2>1, <2>5, <2>13, <3>1, WriteHeapKeeps
  <2>14. CASE \E f \in Screen : DrawFramebuffer(f)
    <3>1. job' = job
      BY <2>14 DEF DrawFramebuffer, jobVars
    <3> QED BY <2>1, <2>5, <2>14, <3>1, DrawFramebufferKeeps
  <2>15. CASE UNCHANGED vars
    BY <2>6, <2>15 DEF vars, jobVars
  <2> QED BY <2>1, <2>3, <2>7, <2>8, <2>9, <2>10, <2>11, <2>12, <2>13, <2>14, <2>15,
          NoFault DEF Next, MapMemory, Callers
<1> QED BY <1>1, <1>2

\* MapMemory and its callers implement AddressSpace: one translation changes at a time,
\* to what was asked for, until starved.
THEOREM ImplementsAddressSpace == Spec => AddressSpaceSpec
  BY RefinedInit, RefinedNext, Invariant, PTL DEF Spec, AddressSpaceSpec, AS!Spec
=============================================================================
