----------------------------- MODULE Heap_proofs -----------------------------
(***************************************************************************)
(* The kernel heap, for any clients, sizes and layout.  A segment that     *)
(* ExpandHeap could not map whole breaks the tiling, so the theorems are   *)
(* about the behaviours in which an expansion gets all of its pages or     *)
(* none (EnoughPages).                                                     *)
(*                                                                         *)
(* That the list of headers is a list is not said by following it: every   *)
(* header lies behind the end of every block before it (Apart), which is   *)
(* what keeps the header that a split writes from falling on another one,  *)
(* and what makes the next header the nearest.                             *)
(***************************************************************************)
EXTENDS Heap, TLAPS

Address == Nat \ {0}
Header == [Length : Nat \ {0}, Next : Nat, Prev : Nat, Free : BOOLEAN]

\* The end of block b among the headers h.
EndIn(h, b) == b + HeaderSize + h[b].Length

\* The headers h are a list from heapStart to last that tiles the heap up to end.
Typed(h) ==
    /\ DOMAIN h \subseteq Address
    /\ h \in [DOMAIN h -> Header]

Linked(h, last) ==
    /\ heapStart \in DOMAIN h /\ last \in DOMAIN h
    /\ \A b \in DOMAIN h :
         /\ h[b].Prev = nullptr <=> b = heapStart
         /\ h[b].Next = nullptr <=> b = last
         /\ h[b].Next # nullptr => h[b].Next \in DOMAIN h /\ h[h[b].Next].Prev = b
         /\ h[b].Prev # nullptr => h[b].Prev \in DOMAIN h /\ h[h[b].Prev].Next = b

Covering(h, end) ==
    \A b \in DOMAIN h :
      /\ EndIn(h, b) = IF h[b].Next = nullptr THEN end ELSE h[b].Next
      /\ EndIn(h, b) <= end

Apart(h) == \A a, b \in DOMAIN h : a > b => a >= EndIn(h, b)

Tiled(h, last, end) == Typed(h) /\ Linked(h, last) /\ Covering(h, end) /\ Apart(h)

\* Free blocks with a free neighbour behind them are in S.
PairsIn(h, S) ==
    \A b \in DOMAIN h : h[b].Free /\ h[b].Next # nullptr /\ h[h[b].Next].Free => b \in S

\* A malloc that runs is for a client that holds nothing, and has found its place.
Calls ==
    /\ CurrentSegment \in DOMAIN header \cup {nullptr}
    /\ CurrentSegment # nullptr =>
         /\ request.client \in Client /\ request.size \in Nat \ {0}
         /\ holds[request.client] = nullptr

\* Clients hold blocks, and no two the same.
Holders ==
    /\ holds \in [Client -> DOMAIN header \cup {nullptr}]
    /\ \A c, d \in Client : holds[c] = holds[d] /\ holds[c] # nullptr => c = d

IInv ==
    /\ heapEnd \in Nat /\ pagesLeft \in Nat
    /\ Tiled(header, LastHdr, heapEnd)
    /\ PairsIn(header, {})
    /\ Calls /\ Holders /\ NoLeak

\* RequestPage gives an expansion all of the pages it asks for, or no page at all.
EnoughPages ==
    CurrentSegment # nullptr => pagesLeft = 0 \/ pagesLeft >= PagesFor(request.size)

-----------------------------------------------------------------------------
(* What the operations on the list write.                                  *)

\* A header, taken apart.
LEMMA HeaderFields ==
    ASSUME NEW h, Typed(h), NEW a \in DOMAIN h
    PROVE  /\ a \in Nat /\ a # 0
           /\ h[a].Length \in Nat /\ h[a].Length # 0
           /\ h[a].Next \in Nat /\ h[a].Prev \in Nat /\ h[a].Free \in BOOLEAN
           /\ h[a] = [Length |-> h[a].Length, Next |-> h[a].Next,
                      Prev |-> h[a].Prev, Free |-> h[a].Free]
BY DEF Typed, Address, Header

\* What a record needs to be a header.
LEMMA HeadersAreTyped ==
    ASSUME NEW h, h = [a \in DOMAIN h |-> h[a]], DOMAIN h \subseteq Address,
           \A a \in DOMAIN h :
              /\ h[a] = [Length |-> h[a].Length, Next |-> h[a].Next,
                         Prev |-> h[a].Prev, Free |-> h[a].Free]
              /\ h[a].Length \in Nat \ {0} /\ h[a].Next \in Nat
              /\ h[a].Prev \in Nat /\ h[a].Free \in BOOLEAN
    PROVE  Typed(h)
<1>1. \A a \in DOMAIN h : h[a] \in Header
  BY DEF Header
<1>. QED
  BY <1>1 DEF Typed

\* The block behind b ends where it begins, and is not b.
LEMMA NextIsBehind ==
    ASSUME NEW h, NEW last, NEW end, Tiled(h, last, end), NEW b \in DOMAIN h,
           h[b].Next # nullptr
    PROVE  /\ h[b].Next \in DOMAIN h /\ h[b].Next # b
           /\ h[b].Next = EndIn(h, b) /\ h[b].Next > b
           /\ h[h[b].Next].Prev = b
<1>1. h[b].Next = EndIn(h, b)
  BY DEF Tiled, Covering
<1>2. h[b].Next > b
  BY <1>1, HeaderFields, LayoutAssumption DEF Tiled, EndIn
<1>. QED
  BY <1>1, <1>2, HeaderFields DEF Tiled, Linked

\* What Split makes of the headers h: g has a header at new as well.
IsSplit(g, h, b, length, new) ==
    /\ new \in Address /\ new \notin DOMAIN h /\ new > b /\ new < EndIn(h, b)
    /\ DOMAIN g = DOMAIN h \cup {new} /\ Typed(g)
    /\ \A a \in DOMAIN g :
         /\ g[a].Length = IF a = new THEN h[b].Length - length - HeaderSize
                          ELSE IF a = b THEN length ELSE h[a].Length
         /\ g[a].Next = IF a = new THEN h[b].Next
                        ELSE IF a = b THEN new ELSE h[a].Next
         /\ g[a].Prev = IF a = new THEN b
                        ELSE IF a = h[b].Next THEN new ELSE h[a].Prev
    /\ g[new].Free = h[b].Free
    /\ \A a \in DOMAIN h : g[a].Free = h[a].Free

\* Split writes one new header, into the block, and the links to it.
LEMMA SplitShape ==
    ASSUME NEW h, NEW last, NEW end, Tiled(h, last, end), NEW b \in DOMAIN h,
           NEW length \in Nat \ {0}, Splits(h, b, length),
           NEW new, new = b + length + HeaderSize,
           NEW g, g = Split(h, b, length)
    PROVE  IsSplit(g, h, b, length, new)
<1>1. /\ b \in Nat /\ h[b].Length \in Nat /\ HeaderSize \in Nat \ {0}
      /\ Typed(h)
  BY HeaderFields, LayoutAssumption DEF Tiled
<1>2. new \in Address /\ new > b /\ new < EndIn(h, b)
  BY <1>1 DEF Splits, EndIn, Address
<1>3. new \notin DOMAIN h
  BY <1>1, <1>2 DEF Tiled, Apart, Typed, Address, EndIn
<1>4. g = [a \in DOMAIN h \cup {new} |->
            IF a = new THEN [Length |-> h[b].Length - length - HeaderSize,
                             Next |-> h[b].Next, Prev |-> b, Free |-> h[b].Free]
            ELSE IF a = b THEN [h[b] EXCEPT !.Length = length, !.Next = new]
            ELSE IF a = h[b].Next THEN [h[a] EXCEPT !.Prev = new]
            ELSE h[a]]
  BY DEF Split
<1>5. b # h[b].Next
  BY <1>1, NextIsBehind DEF nullptr, Tiled, Typed, Address
<1>6. ASSUME NEW a \in DOMAIN g
      PROVE  g[a] = [Length |-> IF a = new THEN h[b].Length - length - HeaderSize
                                ELSE IF a = b THEN length ELSE h[a].Length,
                     Next |-> IF a = new THEN h[b].Next
                              ELSE IF a = b THEN new ELSE h[a].Next,
                     Prev |-> IF a = new THEN b
                              ELSE IF a = h[b].Next THEN new ELSE h[a].Prev,
                     Free |-> IF a = new THEN h[b].Free ELSE h[a].Free]
  <2>1. CASE a = new
    BY <1>4, <2>1
  <2>2. CASE a # new
    <3>1. a \in DOMAIN h
      BY <1>4, <2>2
    <3>2. h[a] = [Length |-> h[a].Length, Next |-> h[a].Next,
                  Prev |-> h[a].Prev, Free |-> h[a].Free]
      BY <1>1, <3>1, HeaderFields
    <3>3. CASE a = b
      BY <1>3, <1>4, <1>5, <2>2, <3>1, <3>2, <3>3
    <3>4. CASE a # b
      BY <1>4, <2>2, <3>1, <3>2, <3>4
    <3>. QED
      BY <3>3, <3>4
  <2>. QED
    BY <2>1, <2>2
<1>7. DOMAIN g = DOMAIN h \cup {new} /\ g = [a \in DOMAIN g |-> g[a]]
  BY <1>4
<1>8. h[b].Length - length - HeaderSize \in Nat \ {0}
  BY <1>1 DEF Splits
<1>9. \A a \in DOMAIN g :
         /\ g[a] = [Length |-> g[a].Length, Next |-> g[a].Next,
                    Prev |-> g[a].Prev, Free |-> g[a].Free]
         /\ g[a].Length \in Nat \ {0} /\ g[a].Next \in Nat
         /\ g[a].Prev \in Nat /\ g[a].Free \in BOOLEAN
  <2>. TAKE a \in DOMAIN g
  <2>1. CASE a = new
    BY <1>1, <1>6, <1>8, <2>1, HeaderFields
  <2>2. CASE a # new
    <3>1. a \in DOMAIN h
      BY <1>7, <2>2
    <3>2. /\ h[a].Length \in Nat \ {0} /\ h[a].Next \in Nat
          /\ h[a].Prev \in Nat /\ h[a].Free \in BOOLEAN
      BY <1>1, <3>1, HeaderFields
    <3>3. new \in Nat
      BY <1>2 DEF Address
    <3>4. g[a] = [Length |-> IF a = b THEN length ELSE h[a].Length,
                  Next |-> IF a = b THEN new ELSE h[a].Next,
                  Prev |-> IF a = h[b].Next THEN new ELSE h[a].Prev,
                  Free |-> h[a].Free]
      BY <1>6, <2>2
    <3>. QED
      BY <3>2, <3>3, <3>4
  <2>. QED
    BY <2>1, <2>2
<1>10. Typed(g)
  <2>1. DOMAIN g \subseteq Address
    BY <1>1, <1>2, <1>7 DEF Typed
  <2>2. \A a \in DOMAIN g : g[a] \in Header
    BY <1>9 DEF Header
  <2>3. g = [a \in DOMAIN g |-> g[a]]
    BY <1>7
  <2>. QED
    BY <2>1, <2>2, <2>3 DEF Typed
<1>11. \A a \in DOMAIN g :
                /\ g[a].Length = IF a = new THEN h[b].Length - length - HeaderSize
                                 ELSE IF a = b THEN length ELSE h[a].Length
                /\ g[a].Next = IF a = new THEN h[b].Next
                               ELSE IF a = b THEN new ELSE h[a].Next
                /\ g[a].Prev = IF a = new THEN b
                               ELSE IF a = h[b].Next THEN new ELSE h[a].Prev
                /\ g[a].Free = IF a = new THEN h[b].Free ELSE h[a].Free
  BY <1>6
<1>12. /\ g[new].Free = h[b].Free
       /\ \A a \in DOMAIN h : g[a].Free = h[a].Free
  BY <1>3, <1>7, <1>11
<1>. QED
  BY <1>2, <1>3, <1>7, <1>10, <1>11, <1>12 DEF IsSplit

\* CombineForward takes the next header out of the list.
LEMMA JoinShape ==
    ASSUME NEW h, NEW last, NEW end, Tiled(h, last, end), NEW b \in DOMAIN h,
           Joins(h, b), NEW n, n = h[b].Next, NEW g, g = CombineForward(h, b)
    PROVE  /\ n \in DOMAIN h /\ n > b /\ n = EndIn(h, b)
           /\ DOMAIN g = DOMAIN h \ {n} /\ Typed(g)
           /\ \A a \in DOMAIN g :
                /\ g[a].Length = IF a = b THEN h[b].Length + h[n].Length + HeaderSize
                                 ELSE h[a].Length
                /\ g[a].Next = IF a = b THEN h[n].Next ELSE h[a].Next
                /\ g[a].Prev = IF a = h[n].Next THEN b ELSE h[a].Prev
                /\ g[a].Free = h[a].Free
<1>1. /\ n \in DOMAIN h /\ n # b /\ n > b /\ n = EndIn(h, b) /\ n # nullptr
      /\ Typed(h) /\ HeaderSize \in Nat
  BY NextIsBehind, LayoutAssumption DEF Joins, Tiled
<1>2. g = [a \in DOMAIN h \ {n} |->
            IF a = b THEN [h[b] EXCEPT !.Length = @ + h[n].Length + HeaderSize,
                                       !.Next = h[n].Next]
            ELSE IF a = h[n].Next THEN [h[a] EXCEPT !.Prev = b]
            ELSE h[a]]
  BY DEF CombineForward
<1>3. h[n].Next # b
  <2>1. h[n].Next # nullptr => h[n].Next > n
    BY <1>1, NextIsBehind
  <2>. QED
    BY <1>1, <2>1 DEF Typed, Address, nullptr
<1>4. ASSUME NEW a \in DOMAIN g
      PROVE  g[a] = [Length |-> IF a = b THEN h[b].Length + h[n].Length + HeaderSize
                                ELSE h[a].Length,
                     Next |-> IF a = b THEN h[n].Next ELSE h[a].Next,
                     Prev |-> IF a = h[n].Next THEN b ELSE h[a].Prev,
                     Free |-> h[a].Free]
  <2>1. a \in DOMAIN h
    BY <1>2
  <2>2. h[a] = [Length |-> h[a].Length, Next |-> h[a].Next,
                Prev |-> h[a].Prev, Free |-> h[a].Free]
    BY <1>1, <2>1, HeaderFields
  <2>3. CASE a = b
    BY <1>2, <1>3, <2>1, <2>2, <2>3
  <2>4. CASE a # b
    BY <1>2, <2>1, <2>2, <2>4
  <2>. QED
    BY <2>3, <2>4
<1>5. DOMAIN g = DOMAIN h \ {n} /\ g = [a \in DOMAIN g |-> g[a]]
  BY <1>2
<1>6. h[b].Length + h[n].Length + HeaderSize \in Nat \ {0}
  BY <1>1, HeaderFields
<1>7. \A a \in DOMAIN g :
         /\ g[a] = [Length |-> g[a].Length, Next |-> g[a].Next,
                    Prev |-> g[a].Prev, Free |-> g[a].Free]
         /\ g[a].Length \in Nat \ {0} /\ g[a].Next \in Nat
         /\ g[a].Prev \in Nat /\ g[a].Free \in BOOLEAN
  <2>. TAKE a \in DOMAIN g
  <2>1. a \in DOMAIN h
    BY <1>5
  <2>. QED
    BY <1>1, <1>4, <1>6, <2>1, HeaderFields
<1>8. Typed(g)
  BY <1>1, <1>5, <1>7, HeadersAreTyped DEF Typed
<1>9. \A a \in DOMAIN g :
                /\ g[a].Length = IF a = b THEN h[b].Length + h[n].Length + HeaderSize
                                 ELSE h[a].Length
                /\ g[a].Next = IF a = b THEN h[n].Next ELSE h[a].Next
                /\ g[a].Prev = IF a = h[n].Next THEN b ELSE h[a].Prev
                /\ g[a].Free = h[a].Free
  BY <1>4
<1>. QED
  BY <1>1, <1>5, <1>8, <1>9

-----------------------------------------------------------------------------
(* The list stays a list that tiles the heap.                              *)

\* What marking block b makes of the headers h.
IsMarked(g, h, b, f) ==
    /\ DOMAIN g = DOMAIN h /\ g[b].Free = f
    /\ \A a \in DOMAIN h :
         /\ g[a].Length = h[a].Length
         /\ g[a].Next = h[a].Next /\ g[a].Prev = h[a].Prev
    /\ \A a \in DOMAIN h \ {b} : g[a].Free = h[a].Free

\* Marking a block as free or taken moves nothing.
LEMMA MarkTiled ==
    ASSUME NEW h, NEW last, NEW end, Tiled(h, last, end), NEW b \in DOMAIN h,
           NEW f \in BOOLEAN, NEW g, g = [h EXCEPT ![b].Free = f]
    PROVE  Tiled(g, last, end) /\ IsMarked(g, h, b, f)
<1>1. h = [a \in DOMAIN h |-> h[a]] /\ Typed(h)
  BY DEF Tiled, Typed
<1>2. DOMAIN g = DOMAIN h /\ g = [a \in DOMAIN g |-> g[a]]
  BY <1>1
<1>3. \A a \in DOMAIN h : g[a] = [Length |-> h[a].Length, Next |-> h[a].Next,
                                  Prev |-> h[a].Prev,
                                  Free |-> IF a = b THEN f ELSE h[a].Free]
  <2>. TAKE a \in DOMAIN h
  <2>1. h[a] = [Length |-> h[a].Length, Next |-> h[a].Next,
                Prev |-> h[a].Prev, Free |-> h[a].Free]
    BY <1>1, HeaderFields
  <2>. QED
    BY <1>1, <2>1
<1>4. \A a \in DOMAIN h :
         /\ g[a].Length = h[a].Length
         /\ g[a].Next = h[a].Next /\ g[a].Prev = h[a].Prev
         /\ g[a].Free = IF a = b THEN f ELSE h[a].Free
  BY <1>3
<1>5. Typed(g)
  <2>1. \A a \in DOMAIN g :
          /\ g[a] = [Length |-> g[a].Length, Next |-> g[a].Next,
                     Prev |-> g[a].Prev, Free |-> g[a].Free]
          /\ g[a].Length \in Nat \ {0} /\ g[a].Next \in Nat
          /\ g[a].Prev \in Nat /\ g[a].Free \in BOOLEAN
    BY <1>1, <1>2, <1>3, HeaderFields
  <2>2. DOMAIN g \subseteq Address
    BY <1>1, <1>2 DEF Typed
  <2>. QED
    BY <1>2, <2>1, <2>2, HeadersAreTyped
<1>6. Linked(g, last)
  BY <1>2, <1>4 DEF Tiled, Linked
<1>7. Covering(g, end) /\ Apart(g)
  BY <1>2, <1>4 DEF Tiled, Covering, Apart, EndIn
<1>8. IsMarked(g, h, b, f)
  BY <1>2, <1>4 DEF IsMarked
<1>. QED
  BY <1>5, <1>6, <1>7, <1>8 DEF Tiled

\* After a split the list has one more block, and the same end.
LEMMA SplitTiled ==
    ASSUME NEW h, NEW last, NEW end, Tiled(h, last, end), end \in Nat, NEW b \in DOMAIN h,
           NEW length \in Nat \ {0}, Splits(h, b, length),
           NEW new, new = b + length + HeaderSize,
           NEW g, g = Split(h, b, length)
    PROVE  Tiled(g, IF last = b THEN new ELSE last, end)
<1>. DEFINE last2 == IF last = b THEN new ELSE last
<1>1. /\ new \in Address /\ new \notin DOMAIN h
      /\ new > b /\ new < EndIn(h, b)
      /\ DOMAIN g = DOMAIN h \cup {new} /\ Typed(g)
      /\ \A a \in DOMAIN g :
           /\ g[a].Length = IF a = new THEN h[b].Length - length - HeaderSize
                            ELSE IF a = b THEN length ELSE h[a].Length
           /\ g[a].Next = IF a = new THEN h[b].Next
                          ELSE IF a = b THEN new ELSE h[a].Next
           /\ g[a].Prev = IF a = new THEN b
                          ELSE IF a = h[b].Next THEN new ELSE h[a].Prev
  <2>1. IsSplit(g, h, b, length, new)
    BY SplitShape
  <2>. QED
    BY <2>1 DEF IsSplit
<1>2. Typed(h) /\ Linked(h, last) /\ Covering(h, end) /\ Apart(h)
  BY DEF Tiled
<1>3. \A a \in DOMAIN h : a \in Nat /\ a # 0 /\ h[a].Length \in Nat /\ h[a].Length # 0
  BY <1>2, HeaderFields
<1>4. HeaderSize \in Nat /\ HeaderSize # 0 /\ heapStart # nullptr
  BY LayoutAssumption DEF nullptr
<1>5. new # nullptr /\ b # nullptr /\ new # b
  BY <1>1, <1>3 DEF Address, nullptr
<1>6. /\ EndIn(g, new) = EndIn(h, b) /\ EndIn(g, b) = new
      /\ \A a \in DOMAIN h \ {b} : EndIn(g, a) = EndIn(h, a)
  BY <1>1, <1>3, <1>4 DEF EndIn, Address
<1>7. Linked(g, last2)
  <2>1. heapStart \in DOMAIN g /\ last2 \in DOMAIN g
    BY <1>1, <1>2 DEF Linked
  <2>2. ASSUME NEW a \in DOMAIN g
        PROVE  (g[a].Prev = nullptr <=> a = heapStart) /\ (g[a].Next = nullptr <=> a = last2)
    <3>1. CASE a = new
      BY <1>1, <1>2, <1>5, <3>1 DEF Linked
    <3>2. CASE a # new
      <4>1. a \in DOMAIN h /\ a # nullptr
        BY <1>1, <1>3, <3>2 DEF nullptr
      <4>2. a = h[b].Next => h[a].Prev = b
        BY <1>2, <4>1 DEF Linked
      <4>. QED
        BY <1>1, <1>2, <1>5, <3>2, <4>1, <4>2 DEF Linked
    <3>. QED
      BY <3>1, <3>2
  <2>3. ASSUME NEW a \in DOMAIN g, g[a].Next # nullptr
        PROVE  g[a].Next \in DOMAIN g /\ g[g[a].Next].Prev = a
    <3>1. CASE a = new
      BY <1>1, <1>2, <2>3, <3>1 DEF Linked
    <3>2. CASE a = b
      BY <1>1, <1>5, <3>2
    <3>3. CASE a # new /\ a # b
      <4>1. a \in DOMAIN h /\ h[a].Next # nullptr /\ g[a].Next = h[a].Next
        BY <1>1, <2>3, <3>3
      <4>2. h[a].Next \in DOMAIN h /\ h[h[a].Next].Prev = a
        BY <1>2, <4>1 DEF Linked
      <4>3. h[a].Next # h[b].Next
        BY <1>2, <3>3, <4>1, <4>2 DEF Linked
      <4>4. h[a].Next # new
        BY <1>1, <4>2
      <4>. QED
        BY <1>1, <4>1, <4>2, <4>3, <4>4
    <3>. QED
      BY <3>1, <3>2, <3>3
  <2>4. ASSUME NEW a \in DOMAIN g, g[a].Prev # nullptr
        PROVE  g[a].Prev \in DOMAIN g /\ g[g[a].Prev].Next = a
    <3>1. CASE a = new
      BY <1>1, <1>5, <3>1
    <3>2. CASE a # new /\ a = h[b].Next
      BY <1>1, <3>2
    <3>3. CASE a # new /\ a # h[b].Next
      <4>1. a \in DOMAIN h /\ g[a].Prev = h[a].Prev
        BY <1>1, <3>3
      <4>2. h[a].Prev \in DOMAIN h /\ h[h[a].Prev].Next = a
        BY <1>2, <2>4, <4>1 DEF Linked
      <4>. QED
        BY <1>1, <3>3, <4>1, <4>2
    <3>. QED
      BY <3>1, <3>2, <3>3
  <2>. QED
    BY <2>1, <2>2, <2>3, <2>4 DEF Linked
<1>8. Covering(g, end)
  <2>1. ASSUME NEW a \in DOMAIN g
        PROVE  /\ EndIn(g, a) = IF g[a].Next = nullptr THEN end ELSE g[a].Next
               /\ EndIn(g, a) <= end
    <3>1. CASE a = new
      BY <1>1, <1>2, <1>6, <3>1 DEF Covering
    <3>2. CASE a = b
      <4>1. new <= end
        <5>1. EndIn(h, b) <= end /\ EndIn(h, b) \in Nat
          BY <1>2, <1>3, <1>4 DEF Covering, EndIn
        <5>. QED
          BY <1>1, <5>1 DEF Address
      <4>. QED
        BY <1>1, <1>5, <1>6, <3>2, <4>1
    <3>3. CASE a # new /\ a # b
      BY <1>1, <1>2, <1>6, <3>3 DEF Covering
    <3>. QED
      BY <3>1, <3>2, <3>3
  <2>. QED
    BY <2>1 DEF Covering
<1>9. Apart(g)
  <2>1. ASSUME NEW a \in DOMAIN g, NEW d \in DOMAIN g, a > d
        PROVE  a >= EndIn(g, d)
    <3>1. CASE a = new /\ d = new
      BY <1>1, <2>1, <3>1 DEF Address
    <3>2. CASE a = new /\ d = b
      BY <1>1, <1>6, <3>2 DEF Address
    <3>3. CASE a = new /\ d # new /\ d # b
      <4>1. d \in DOMAIN h /\ EndIn(g, d) = EndIn(h, d) /\ EndIn(h, d) \in Nat
        BY <1>1, <1>3, <1>4, <1>6, <3>3 DEF EndIn
      <4>2. b > d => b >= EndIn(h, d)
        BY <1>2, <4>1 DEF Apart
      <4>3. d > b => d >= EndIn(h, b)
        BY <1>2, <4>1 DEF Apart
      <4>. QED
        BY <1>1, <1>3, <1>4, <2>1, <3>3, <4>1, <4>2, <4>3 DEF Address, EndIn
    <3>4. CASE a # new /\ d = new
      <4>1. a \in DOMAIN h /\ a > b
        BY <1>1, <1>3, <2>1, <3>4 DEF Address
      <4>. QED
        BY <1>2, <1>6, <3>4, <4>1 DEF Apart
    <3>5. CASE a # new /\ d = b
      <4>1. a \in DOMAIN h /\ a >= EndIn(h, b)
        BY <1>1, <1>2, <2>1, <3>5 DEF Apart
      <4>. QED
        BY <1>1, <1>3, <1>4, <1>6, <3>5, <4>1 DEF Address, EndIn
    <3>6. CASE a # new /\ d # new /\ d # b
      BY <1>1, <1>2, <1>6, <2>1, <3>6 DEF Apart
    <3>. QED
      BY <3>1, <3>2, <3>3, <3>4, <3>5, <3>6
  <2>. QED
    BY <2>1 DEF Apart
<1>. QED
  BY <1>1, <1>7, <1>8, <1>9 DEF Tiled

\* After a join it has one block less, and the same end.
LEMMA JoinTiled ==
    ASSUME NEW h, NEW last, NEW end, Tiled(h, last, end), NEW b \in DOMAIN h,
           NEW g, g = CombineForward(h, b), NEW last2, last2 = LastAfter(h, b, last)
    PROVE  /\ Tiled(g, last2, end) /\ b \in DOMAIN g
           /\ DOMAIN g \subseteq DOMAIN h
           /\ \A a \in DOMAIN g : g[a].Free = h[a].Free
           /\ \A a \in DOMAIN h \ DOMAIN g : h[a].Free
           /\ g[b].Prev = h[b].Prev
           /\ \A a \in DOMAIN g \ {b} : g[a].Length = h[a].Length
<1>1. CASE ~ Joins(h, b)
  BY <1>1 DEF CombineForward, LastAfter
<1>2. CASE Joins(h, b)
  <2>. DEFINE n == h[b].Next
  <2>1. /\ n \in DOMAIN h /\ n > b /\ n = EndIn(h, b)
        /\ DOMAIN g = DOMAIN h \ {n} /\ Typed(g)
        /\ \A a \in DOMAIN g :
             /\ g[a].Length = IF a = b THEN h[b].Length + h[n].Length + HeaderSize
                              ELSE h[a].Length
             /\ g[a].Next = IF a = b THEN h[n].Next ELSE h[a].Next
             /\ g[a].Prev = IF a = h[n].Next THEN b ELSE h[a].Prev
             /\ g[a].Free = h[a].Free
    BY <1>2, JoinShape
  <2>2. last2 = (IF n = last THEN b ELSE last) /\ n # nullptr /\ h[n].Free
    BY <1>2 DEF LastAfter, Joins
  <2>. HIDE DEF n
  <2>3. Typed(h) /\ Linked(h, last) /\ Covering(h, end) /\ Apart(h)
    BY DEF Tiled
  <2>4. \A a \in DOMAIN h : a \in Nat /\ a # 0 /\ h[a].Length \in Nat /\ h[a].Length # 0
    BY <2>3, HeaderFields
  <2>5. HeaderSize \in Nat /\ HeaderSize # 0 /\ heapStart # nullptr
    BY LayoutAssumption DEF nullptr
  <2>6. n # b /\ b # nullptr /\ h[n].Prev = b /\ h[b].Next = n
    <3>1. h[b].Next = n
      BY DEF n
    <3>. QED
      BY <2>1, <2>2, <2>3, <2>4, <3>1 DEF Linked, nullptr
  <2>7. b \in DOMAIN g
    BY <2>1, <2>6
  <2>8. /\ EndIn(g, b) = EndIn(h, n)
        /\ \A a \in DOMAIN g \ {b} : EndIn(g, a) = EndIn(h, a)
    BY <2>1, <2>4, <2>5, <2>7 DEF EndIn
  <2>9. Linked(g, last2)
    <3>1. heapStart \in DOMAIN g /\ last2 \in DOMAIN g
      BY <2>1, <2>2, <2>3, <2>6, <2>7 DEF Linked
    <3>2. ASSUME NEW a \in DOMAIN g
          PROVE  (g[a].Prev = nullptr <=> a = heapStart) /\ (g[a].Next = nullptr <=> a = last2)
      <4>1. a \in DOMAIN h /\ a # n
        BY <2>1
      <4>2. a = h[n].Next => h[a].Prev = n
        BY <2>1, <2>3, <2>4, <4>1 DEF Linked, nullptr
      <4>3. (g[a].Prev = nullptr <=> a = heapStart)
        BY <2>1, <2>2, <2>3, <2>6, <4>1, <4>2 DEF Linked
      <4>4. (g[a].Next = nullptr <=> a = last2)
        BY <2>1, <2>2, <2>3, <2>6, <4>1 DEF Linked
      <4>. QED
        BY <4>3, <4>4
    <3>3. ASSUME NEW a \in DOMAIN g, g[a].Next # nullptr
          PROVE  g[a].Next \in DOMAIN g /\ g[g[a].Next].Prev = a
      <4>1. CASE a = b
        <5>1. g[a].Next = h[n].Next
          BY <2>1, <4>1
        <5>2. h[n].Next \in DOMAIN h /\ h[h[n].Next].Prev = n
          BY <2>1, <2>3, <3>3, <5>1 DEF Linked
        <5>3. h[n].Next # n
          BY <2>1, <2>3, <2>6, <5>2
        <5>. QED
          BY <2>1, <4>1, <5>1, <5>2, <5>3
      <4>2. CASE a # b
        <5>1. a \in DOMAIN h /\ a # n /\ g[a].Next = h[a].Next
          BY <2>1, <4>2
        <5>2. h[a].Next \in DOMAIN h /\ h[h[a].Next].Prev = a
          BY <2>3, <3>3, <5>1 DEF Linked
        <5>3. h[a].Next # n /\ h[a].Next # h[n].Next
          BY <2>1, <2>3, <2>6, <3>3, <4>2, <5>1, <5>2 DEF Linked
        <5>. QED
          BY <2>1, <5>1, <5>2, <5>3
      <4>. QED
        BY <4>1, <4>2
    <3>4. ASSUME NEW a \in DOMAIN g, g[a].Prev # nullptr
          PROVE  g[a].Prev \in DOMAIN g /\ g[g[a].Prev].Next = a
      <4>1. CASE a = h[n].Next
        BY <2>1, <2>7, <4>1
      <4>2. CASE a # h[n].Next
        <5>1. a \in DOMAIN h /\ a # n /\ g[a].Prev = h[a].Prev
          BY <2>1, <4>2
        <5>2. h[a].Prev \in DOMAIN h /\ h[h[a].Prev].Next = a
          BY <2>3, <3>4, <5>1 DEF Linked
        <5>3. h[a].Prev # n /\ h[a].Prev # b
          BY <2>6, <4>2, <5>1, <5>2
        <5>. QED
          BY <2>1, <5>1, <5>2, <5>3
      <4>. QED
        BY <4>1, <4>2
    <3>. QED
      BY <3>1, <3>2, <3>3, <3>4 DEF Linked
  <2>10. Covering(g, end)
    <3>1. ASSUME NEW a \in DOMAIN g
          PROVE  /\ EndIn(g, a) = IF g[a].Next = nullptr THEN end ELSE g[a].Next
                 /\ EndIn(g, a) <= end
      <4>1. CASE a = b
        BY <2>1, <2>3, <2>8, <4>1 DEF Covering
      <4>2. CASE a # b
        BY <2>1, <2>3, <2>8, <4>2 DEF Covering
      <4>. QED
        BY <4>1, <4>2
    <3>. QED
      BY <3>1 DEF Covering
  <2>11. Apart(g)
    <3>1. ASSUME NEW a \in DOMAIN g, NEW d \in DOMAIN g, a > d
          PROVE  a >= EndIn(g, d)
      <4>1. a \in DOMAIN h /\ d \in DOMAIN h /\ a # n
        BY <2>1
      <4>2. CASE d = b
        <5>1. a >= n
          BY <2>1, <2>3, <3>1, <4>1, <4>2 DEF Apart
        <5>2. a > n
          BY <2>1, <2>4, <4>1, <5>1
        <5>. QED
          BY <2>1, <2>3, <2>8, <4>1, <4>2, <5>2 DEF Apart
      <4>3. CASE d # b
        BY <2>3, <2>8, <3>1, <4>1, <4>3 DEF Apart
      <4>. QED
        BY <4>2, <4>3
    <3>. QED
      BY <3>1 DEF Apart
  <2>12. \A a \in DOMAIN h \ DOMAIN g : h[a].Free
    BY <2>1, <2>2
  <2>13. g[b].Prev = h[b].Prev
    <3>1. h[n].Next # nullptr => h[n].Next > n
      BY <2>1, NextIsBehind
    <3>. QED
      BY <2>1, <2>4, <2>6, <2>7, <3>1 DEF nullptr
  <2>. QED
    BY <2>1, <2>7, <2>9, <2>10, <2>11, <2>12, <2>13 DEF Tiled
<1>. QED
  BY <1>1, <1>2

\* ... and a free pair that began with b is gone.
LEMMA JoinPairs ==
    ASSUME NEW h, NEW last, NEW end, Tiled(h, last, end), NEW b \in DOMAIN h,
           NEW S, PairsIn(h, {b} \cup S), h[b].Next \notin S,
           NEW g, g = CombineForward(h, b)
    PROVE  PairsIn(g, S)
<1>1. CASE ~ Joins(h, b)
  BY <1>1 DEF CombineForward, Joins, PairsIn
<1>2. CASE Joins(h, b)
  <2>. DEFINE n == h[b].Next
  <2>1. /\ n \in DOMAIN h /\ n > b
        /\ DOMAIN g = DOMAIN h \ {n} /\ Typed(g)
        /\ \A a \in DOMAIN g :
             /\ g[a].Length = IF a = b THEN h[b].Length + h[n].Length + HeaderSize
                              ELSE h[a].Length
             /\ g[a].Next = IF a = b THEN h[n].Next ELSE h[a].Next
             /\ g[a].Prev = IF a = h[n].Next THEN b ELSE h[a].Prev
             /\ g[a].Free = h[a].Free
    BY <1>2, JoinShape
  <2>2. h[n].Free /\ n # nullptr /\ n # b
    BY <1>2, NextIsBehind DEF Joins
  <2>3. Linked(h, last)
    BY DEF Tiled
  <2>4. n \notin {b} \cup S
    BY <2>2
  <2>5. h[n].Prev = b
    BY <2>2, <2>3 DEF Linked
  <2>. HIDE DEF n
  <2>6. SUFFICES ASSUME NEW a \in DOMAIN g, g[a].Free, g[a].Next # nullptr, g[g[a].Next].Free
                 PROVE  a \in S
    BY DEF PairsIn
  <2>7. CASE a = b
    <3>1. g[a].Next = h[n].Next
      BY <2>1, <2>7
    <3>2. h[n].Next \in DOMAIN h /\ h[h[n].Next].Prev = n
      BY <2>1, <2>3, <2>6, <3>1 DEF Linked
    <3>3. h[n].Next # n
      BY <2>2, <2>5, <3>2
    <3>4. h[h[n].Next].Free
      BY <2>1, <2>6, <3>1, <3>2, <3>3
    <3>. QED
      BY <2>1, <2>2, <2>4, <2>6, <3>1, <3>4 DEF PairsIn
  <2>8. CASE a # b
    <3>1. a \in DOMAIN h /\ g[a].Next = h[a].Next /\ g[a].Free = h[a].Free
      BY <2>1, <2>8
    <3>2. h[a].Next \in DOMAIN h /\ h[h[a].Next].Prev = a
      BY <2>3, <2>6, <3>1 DEF Linked
    <3>3. h[a].Next # n
      BY <2>5, <2>8, <3>2
    <3>. QED
      BY <2>1, <2>6, <2>8, <3>1, <3>2, <3>3 DEF PairsIn
  <2>. QED
    BY <2>7, <2>8
<1>. QED
  BY <1>1, <1>2

\* A free block joined with the free block before it: no free pair is left.
LEMMA BackwardTiled ==
    ASSUME NEW h, NEW last, NEW end, Tiled(h, last, end), NEW b \in DOMAIN h,
           h[b].Free, PairsIn(h, {h[b].Prev}),
           NEW g, g = CombineBackward(h, b),
           NEW last2, last2 = LastAfterBackward(h, b, last)
    PROVE  /\ Tiled(g, last2, end) /\ PairsIn(g, {})
           /\ DOMAIN g \subseteq DOMAIN h
           /\ \A a \in DOMAIN g : g[a].Free = h[a].Free
           /\ \A a \in DOMAIN h \ DOMAIN g : h[a].Free
           /\ \A a \in DOMAIN g : ~ h[a].Free => g[a].Length = h[a].Length
<1>1. CASE ~ (h[b].Prev # nullptr /\ h[h[b].Prev].Free)
  <2>1. g = h /\ last2 = last
    BY <1>1 DEF CombineBackward, LastAfterBackward
  <2>2. nullptr \notin DOMAIN h
    BY DEF Tiled, Typed, Address, nullptr
  <2>3. PairsIn(h, {})
    BY <1>1, <2>2 DEF PairsIn
  <2>. QED
    BY <2>1, <2>3
<1>2. CASE h[b].Prev # nullptr /\ h[h[b].Prev].Free
  <2>. DEFINE p == h[b].Prev
  <2>1. g = CombineForward(h, p) /\ last2 = LastAfter(h, p, last)
    BY <1>2 DEF CombineBackward, LastAfterBackward
  <2>2. p \in DOMAIN h /\ h[p].Free
    BY <1>2 DEF Tiled, Linked
  <2>. HIDE DEF p
  <2>3. PairsIn(h, {p} \cup {})
    BY DEF p
  <2>4. PairsIn(g, {})
    BY <2>1, <2>2, <2>3, JoinPairs
  <2>5. /\ Tiled(g, last2, end)
        /\ DOMAIN g \subseteq DOMAIN h
        /\ \A a \in DOMAIN g : g[a].Free = h[a].Free
        /\ \A a \in DOMAIN h \ DOMAIN g : h[a].Free
        /\ \A a \in DOMAIN g \ {p} : g[a].Length = h[a].Length
    BY <2>1, <2>2, JoinTiled
  <2>. QED
    BY <2>2, <2>4, <2>5
<1>. QED
  BY <1>1, <1>2

\* The headers h with a new last one at end.
Appended(h, last, end, length) ==
    [a \in DOMAIN h \cup {end} |->
       IF a = end THEN [Length |-> length, Next |-> nullptr,
                        Prev |-> last, Free |-> TRUE]
       ELSE IF a = last THEN [h[a] EXCEPT !.Next = end]
       ELSE h[a]]

LEMMA AppendShape ==
    ASSUME NEW h, Typed(h), NEW last, NEW end, end \notin DOMAIN h, NEW length,
           NEW g, g = Appended(h, last, end, length), NEW a \in DOMAIN h
    PROVE  /\ g[a].Next \in Nat => g[a] \in Header
           /\ g[a].Length = h[a].Length /\ g[a].Free = h[a].Free
           /\ g[a].Prev = h[a].Prev
           /\ g[a].Next = IF a = last THEN end ELSE h[a].Next
<1>1. h[a] = [Length |-> h[a].Length, Next |-> h[a].Next,
              Prev |-> h[a].Prev, Free |-> h[a].Free]
  BY HeaderFields
<1>2. g[a] = IF a = last THEN [h[a] EXCEPT !.Next = end] ELSE h[a]
  BY DEF Appended
<1>3. g[a] = [Length |-> h[a].Length,
              Next |-> IF a = last THEN end ELSE h[a].Next,
              Prev |-> h[a].Prev, Free |-> h[a].Free]
  BY <1>1, <1>2
<1>4. /\ g[a].Length = h[a].Length /\ g[a].Free = h[a].Free
      /\ g[a].Prev = h[a].Prev
      /\ g[a].Next = IF a = last THEN end ELSE h[a].Next
      /\ g[a] = [Length |-> g[a].Length, Next |-> g[a].Next,
                 Prev |-> g[a].Prev, Free |-> g[a].Free]
  BY <1>3
<1>5. g[a].Next \in Nat => g[a] \in Header
  BY <1>4, HeaderFields DEF Header
<1>. QED
  BY <1>4, <1>5

\* What that makes of the headers h.
IsAppended(g, h, last, end) ==
    /\ end \notin DOMAIN h /\ last \in DOMAIN h
    /\ DOMAIN g = DOMAIN h \cup {end}
    /\ g[end].Free /\ g[end].Next = nullptr /\ g[end].Prev = last
    /\ \A a \in DOMAIN h :
         /\ g[a].Length = h[a].Length /\ g[a].Free = h[a].Free
         /\ g[a].Next = IF a = last THEN end ELSE h[a].Next

\* A segment put behind the last block.
LEMMA AppendTiled ==
    ASSUME NEW h, NEW last, NEW end, Tiled(h, last, end), end \in Nat,
           NEW length \in Nat \ {0},
           NEW g, g = Appended(h, last, end, length)
    PROVE  Tiled(g, end, end + HeaderSize + length) /\ IsAppended(g, h, last, end)
<1>1. Typed(h) /\ Linked(h, last) /\ Covering(h, end) /\ Apart(h)
  BY DEF Tiled
<1>2. \A a \in DOMAIN h : a \in Nat /\ a # 0 /\ h[a].Length \in Nat /\ h[a].Length # 0
  BY <1>1, HeaderFields
<1>3. HeaderSize \in Nat /\ HeaderSize # 0 /\ heapStart # nullptr
  BY LayoutAssumption DEF nullptr
<1>4. \A a \in DOMAIN h : EndIn(h, a) \in Nat /\ EndIn(h, a) > a /\ EndIn(h, a) <= end
  BY <1>1, <1>2, <1>3 DEF EndIn, Covering
<1>5. end \notin DOMAIN h /\ end # 0 /\ last \in DOMAIN h /\ last # end
  <2>1. \A a \in DOMAIN h : a < end
    BY <1>2, <1>4
  <2>. QED
    BY <1>1, <2>1, <1>2 DEF Linked
<1>6. DOMAIN g = DOMAIN h \cup {end} /\ g = [a \in DOMAIN g |-> g[a]]
  BY DEF Appended
<1>7. /\ g[end].Length = length /\ g[end].Next = nullptr
      /\ g[end].Prev = last /\ g[end].Free
      /\ g[end] = [Length |-> length, Next |-> nullptr, Prev |-> last, Free |-> TRUE]
  <2>1. g[end] = [Length |-> length, Next |-> nullptr, Prev |-> last, Free |-> TRUE]
    BY <1>6 DEF Appended
  <2>. QED
    BY <2>1
<1>8. ASSUME NEW a \in DOMAIN h
      PROVE
         /\ g[a].Next \in Nat => g[a] \in Header
         /\ g[a].Length = h[a].Length /\ g[a].Free = h[a].Free /\ g[a].Prev = h[a].Prev
         /\ g[a].Next = IF a = last THEN end ELSE h[a].Next
  <2>1. Typed(h) /\ end \notin DOMAIN h
    BY <1>1, <1>5
  <2>. QED
    BY <2>1, AppendShape
<1>9. Typed(g)
  <2>1. DOMAIN g \subseteq Address
    BY <1>1, <1>5, <1>6 DEF Typed, Address
  <2>2. g[end] \in Header
    BY <1>2, <1>5, <1>7 DEF Header, nullptr
  <2>3. ASSUME NEW a \in DOMAIN h
        PROVE  g[a] \in Header
    <3>1. g[a].Next \in Nat
      BY <1>1, <1>8, HeaderFields
    <3>. QED
      BY <1>8, <3>1
  <2>4. \A a \in DOMAIN g : g[a] \in Header
    BY <1>6, <2>2, <2>3
  <2>. QED
    BY <1>6, <2>1, <2>4 DEF Typed
<1>10. /\ EndIn(g, end) = end + HeaderSize + length
       /\ \A a \in DOMAIN h : EndIn(g, a) = EndIn(h, a)
  BY <1>7, <1>8 DEF EndIn
<1>11. Linked(g, end)
  <2>1. heapStart \in DOMAIN g /\ end \in DOMAIN g
    BY <1>1, <1>6 DEF Linked
  <2>2. ASSUME NEW a \in DOMAIN g
        PROVE  (g[a].Prev = nullptr <=> a = heapStart) /\ (g[a].Next = nullptr <=> a = end)
    <3>1. CASE a = end
      BY <1>1, <1>2, <1>5, <1>7, <1>8, <3>1 DEF Linked, nullptr
    <3>2. CASE a # end
      BY <1>1, <1>5, <1>6, <1>7, <1>8, <3>2 DEF Linked, nullptr
    <3>. QED
      BY <3>1, <3>2
  <2>3. ASSUME NEW a \in DOMAIN g, g[a].Next # nullptr
        PROVE  g[a].Next \in DOMAIN g /\ g[g[a].Next].Prev = a
    <3>1. a \in DOMAIN h
      BY <1>6, <1>7, <1>8, <2>3
    <3>2. CASE a = last
      BY <1>6, <1>7, <1>8, <3>1, <3>2
    <3>3. CASE a # last
      BY <1>1, <1>6, <1>7, <1>8, <2>3, <3>1, <3>3 DEF Linked
    <3>. QED
      BY <3>2, <3>3
  <2>4. ASSUME NEW a \in DOMAIN g, g[a].Prev # nullptr
        PROVE  g[a].Prev \in DOMAIN g /\ g[g[a].Prev].Next = a
    <3>1. CASE a = end
      BY <1>5, <1>6, <1>7, <1>8, <3>1
    <3>2. CASE a # end
      <4>1. a \in DOMAIN h /\ g[a].Prev = h[a].Prev
        BY <1>6, <1>7, <1>8, <3>2
      <4>2. h[a].Prev \in DOMAIN h /\ h[h[a].Prev].Next = a
        BY <1>1, <2>4, <4>1 DEF Linked
      <4>3. h[a].Prev # last
        BY <1>1, <1>2, <4>1, <4>2 DEF Linked, nullptr
      <4>. QED
        BY <1>6, <1>7, <1>8, <4>1, <4>2, <4>3
    <3>. QED
      BY <3>1, <3>2
  <2>. QED
    BY <2>1, <2>2, <2>3, <2>4 DEF Linked
<1>12. Covering(g, end + HeaderSize + length)
  <2>1. ASSUME NEW a \in DOMAIN g
        PROVE  /\ EndIn(g, a) = IF g[a].Next = nullptr THEN end + HeaderSize + length
                                ELSE g[a].Next
               /\ EndIn(g, a) <= end + HeaderSize + length
    <3>1. CASE a = end
      BY <1>3, <1>7, <1>8, <1>10, <3>1
    <3>2. CASE a # end
      <4>1. a \in DOMAIN h /\ EndIn(g, a) = EndIn(h, a)
        BY <1>6, <1>10, <3>2
      <4>2. EndIn(g, a) <= end + HeaderSize + length
        BY <1>3, <1>4, <4>1
      <4>3. EndIn(g, a) = g[a].Next
        <5>1. EndIn(h, a) = IF a = last THEN end ELSE h[a].Next
          BY <1>1, <4>1 DEF Covering, Linked
        <5>2. g[a].Next = IF a = last THEN end ELSE h[a].Next
          BY <1>8, <4>1
        <5>. QED
          BY <4>1, <5>1, <5>2
      <4>4. EndIn(h, a) # 0
        BY <1>2, <1>4, <4>1
      <4>5. g[a].Next # nullptr
        BY <4>1, <4>3, <4>4 DEF nullptr
      <4>. QED
        BY <4>2, <4>3, <4>5
    <3>. QED
      BY <3>1, <3>2
  <2>. QED
    BY <2>1 DEF Covering
<1>13. Apart(g)
  <2>1. ASSUME NEW a \in DOMAIN g, NEW d \in DOMAIN g, a > d
        PROVE  a >= EndIn(g, d)
    <3>1. CASE d = end
      BY <1>2, <1>4, <1>5, <1>6, <2>1, <3>1
    <3>2. CASE d # end
      <4>1. d \in DOMAIN h /\ EndIn(g, d) = EndIn(h, d)
        BY <1>6, <1>10, <3>2
      <4>2. CASE a = end
        BY <1>4, <4>1, <4>2
      <4>3. CASE a # end
        BY <1>1, <1>6, <2>1, <4>1, <4>3 DEF Apart
      <4>. QED
        BY <4>2, <4>3
    <3>. QED
      BY <3>1, <3>2
  <2>. QED
    BY <2>1 DEF Apart
<1>14. IsAppended(g, h, last, end)
  BY <1>5, <1>6, <1>7, <1>8 DEF IsAppended
<1>. QED
  BY <1>9, <1>11, <1>12, <1>13, <1>14 DEF Tiled

-----------------------------------------------------------------------------
(* The invariant is inductive: one lemma per action.  Each first says what *)
(* the action does to the blocks that clients hold.                        *)

LEMMA UnitsType ==
    ASSUME NEW bytes \in Sizes
    PROVE  Units(bytes) \in Nat \ {0}
<1>1. bytes \in Nat \ {0} /\ Unit \in Nat \ {0}
  BY SizesAssumption
<1>. DEFINE n == bytes + Unit - 1
<1>2. n \in Nat /\ n >= Unit
  BY <1>1
<1>. HIDE DEF n
<1>3. n \div Unit \in Nat /\ n = Unit * (n \div Unit) + (n % Unit) /\ n % Unit < Unit
  BY <1>1, <1>2, SMT
<1>4. n \div Unit # 0
  <2>1. SUFFICES ASSUME n \div Unit = 0 PROVE FALSE
    OBVIOUS
  <2>2. Unit * (n \div Unit) = 0
    BY <1>1, <2>1
  <2>. QED
    BY <1>1, <1>2, <1>3, <2>2
<1>. QED
  BY <1>3, <1>4 DEF Units, n

\* The segment of an expansion holds a header and more.
LEMMA ExpansionType ==
    ASSUME NEW size \in Nat \ {0}
    PROVE  /\ PagesFor(size) \in Nat \ {0}
           /\ PagesFor(size) * PageSize \in Nat
           /\ PagesFor(size) * PageSize - HeaderSize \in Nat \ {0}
<1>1. PageSize \in Nat \ {0} /\ HeaderSize \in Nat \ {0} /\ PageSize > HeaderSize
  BY LayoutAssumption
<1>. DEFINE n == size + PageSize - 1
<1>2. n \in Nat /\ n >= PageSize
  BY <1>1
<1>. HIDE DEF n
<1>3. /\ n \div PageSize \in Nat
      /\ n = PageSize * (n \div PageSize) + (n % PageSize) /\ n % PageSize < PageSize
  BY <1>1, <1>2, SMT
<1>4. n \div PageSize # 0
  <2>1. SUFFICES ASSUME n \div PageSize = 0 PROVE FALSE
    OBVIOUS
  <2>2. PageSize * (n \div PageSize) = 0
    BY <1>1, <2>1
  <2>. QED
    BY <1>1, <1>2, <1>3, <2>2
<1>. DEFINE k == n \div PageSize
<1>5. k \in Nat \ {0} /\ PagesFor(size) = k
  BY <1>3, <1>4 DEF PagesFor, n
<1>. HIDE DEF k
<1>6. k * PageSize \in Nat /\ k * PageSize >= PageSize
  BY <1>1, <1>5, SMT
<1>. QED
  BY <1>1, <1>5, <1>6

LEMMA InitIInv == Init => IInv
<1>. SUFFICES ASSUME Init PROVE IInv
  OBVIOUS
<1>. DEFINE size == pageCount * PageSize
<1>1. /\ heapStart \in Nat /\ heapStart # 0 /\ HeaderSize \in Nat /\ HeaderSize # 0
      /\ size \in Nat /\ size > HeaderSize
  <2>1. pageCount \in Nat \ {0} /\ PageSize \in Nat /\ HeaderSize \in Nat \ {0} /\ PageSize > HeaderSize
    BY LayoutAssumption
  <2>2. size \in Nat /\ size >= PageSize
    BY <2>1, SMT
  <2>. QED
    BY <2>1, <2>2, LayoutAssumption
<1>2. /\ DOMAIN header = {heapStart} /\ header = [a \in DOMAIN header |-> header[a]]
      /\ header[heapStart] = [Length |-> size - HeaderSize, Next |-> nullptr,
                              Prev |-> nullptr, Free |-> TRUE]
      /\ heapEnd = heapStart + size /\ LastHdr = heapStart
  BY DEF Init
<1>. HIDE DEF size
<1>3. /\ header[heapStart].Length = size - HeaderSize /\ header[heapStart].Next = nullptr
      /\ header[heapStart].Prev = nullptr /\ header[heapStart].Free
  BY <1>2
<1>4. EndIn(header, heapStart) = heapEnd
  BY <1>1, <1>2, <1>3 DEF EndIn
<1>5. Typed(header)
  <2>1. header[heapStart] \in Header
    BY <1>1, <1>2 DEF Header, nullptr
  <2>. QED
    BY <1>1, <1>2, <2>1 DEF Typed, Address
<1>6. Linked(header, LastHdr)
  BY <1>2, <1>3 DEF Linked
<1>7. Covering(header, heapEnd) /\ heapEnd \in Nat
  BY <1>1, <1>2, <1>3, <1>4 DEF Covering
<1>8. Apart(header)
  BY <1>1, <1>2 DEF Apart
<1>9. PairsIn(header, {})
  BY <1>2, <1>3 DEF PairsIn
<1>10. Calls
  BY DEF Init, Calls
<1>11. Holders /\ NoLeak
  BY <1>1, <1>2, <1>3 DEF Init, Holders, NoLeak, nullptr
<1>12. pagesLeft \in Nat
  BY LayoutAssumption DEF Init
<1>. QED
  BY <1>5, <1>6, <1>7, <1>8, <1>9, <1>10, <1>11, <1>12 DEF IInv, Tiled

LEMMA MallocInductive ==
    ASSUME IInv, NEW c \in Client, NEW bytes \in Sizes, Malloc(c, bytes)
    PROVE  IInv'
<1>1. UNCHANGED <<header, heapEnd, LastHdr, pagesLeft, holds>>
  BY DEF Malloc
<1>2. Calls'
  <2>1. heapStart \in DOMAIN header
    BY DEF IInv, Tiled, Linked
  <2>2. CurrentSegment' = heapStart /\ request'.client = c /\ request'.size = Units(bytes)
    BY DEF Malloc
  <2>3. holds[c] = nullptr
    BY DEF Malloc
  <2>. QED
    BY <1>1, <2>1, <2>2, <2>3, UnitsType DEF Calls
<1>. QED
  BY <1>1, <1>2 DEF IInv, Tiled, Typed, Linked, Covering, Apart, EndIn, PairsIn, Holders, NoLeak

LEMMA NextSegmentInductive ==
    ASSUME IInv, NextSegment
    PROVE  IInv'
<1>1. UNCHANGED <<header, heapEnd, LastHdr, pagesLeft, holds, request>>
  BY DEF NextSegment
<1>2. Calls'
  <2>1. CurrentSegment # nullptr /\ CurrentSegment \in DOMAIN header
    BY DEF NextSegment, Running, IInv, Calls
  <2>2. CurrentSegment' \in DOMAIN header
    BY <2>1 DEF NextSegment, IInv, Tiled, Linked
  <2>. QED
    BY <1>1, <2>1, <2>2 DEF IInv, Calls
<1>. QED
  BY <1>1, <1>2 DEF IInv, Tiled, Typed, Linked, Covering, Apart, EndIn, PairsIn, Holders, NoLeak

\* The block that malloc takes is free and large enough, and afterwards it is the
\* only one that is no longer free.
LEMMA TakeSegmentBlocks ==
    ASSUME IInv, TakeSegment
    PROVE  /\ CurrentSegment \in DOMAIN header /\ header[CurrentSegment].Free
           /\ Tiled(header', LastHdr', heapEnd) /\ PairsIn(header', {})
           /\ DOMAIN header \subseteq DOMAIN header'
           /\ \A a \in DOMAIN header' :
                ~ header'[a].Free <=> a = CurrentSegment \/ (a \in DOMAIN header /\ ~ header[a].Free)
           /\ \A a \in DOMAIN header \ {CurrentSegment} : header'[a].Length = header[a].Length
<1>. DEFINE b == CurrentSegment  size == request.size
            h == IF header[b].Length > size THEN Split(header, b, size) ELSE header
<1>1. /\ b \in DOMAIN header /\ header[b].Free /\ header[b].Length >= size
      /\ size \in Nat \ {0}
      /\ Tiled(header, LastHdr, heapEnd) /\ PairsIn(header, {}) /\ heapEnd \in Nat
  BY DEF TakeSegment, Running, Fits, IInv, Calls
<1>2. /\ header' = [h EXCEPT ![b].Free = FALSE]
      /\ LastHdr' = IF h # header /\ LastHdr = b THEN h[b].Next ELSE LastHdr
  BY DEF TakeSegment
<1>3. header[b].Length \in Nat /\ HeaderSize \in Nat
  BY <1>1, HeaderFields, LayoutAssumption DEF Tiled
<1>4. h = IF Splits(header, b, size) THEN Split(header, b, size) ELSE header
  BY <1>1, <1>3 DEF Splits, Split
<1>. HIDE DEF b, size, h
<1>5. /\ Tiled(h, LastHdr', heapEnd) /\ b \in DOMAIN h
      /\ DOMAIN header \subseteq DOMAIN h
      /\ \A a \in DOMAIN h : ~ h[a].Free <=> (a \in DOMAIN header /\ ~ header[a].Free)
      /\ \A a \in DOMAIN header \ {b} : h[a].Length = header[a].Length
      /\ PairsIn(h, {b})
  <2>1. CASE ~ Splits(header, b, size)
    <3>1. h = header /\ LastHdr' = LastHdr
      BY <1>2, <1>4, <2>1
    <3>. QED
      BY <1>1, <3>1 DEF PairsIn
  <2>2. CASE Splits(header, b, size)
    <3>. DEFINE new == b + size + HeaderSize
    <3>0. new = b + size + HeaderSize
      OBVIOUS
    <3>. HIDE DEF new
    <3>1. h = Split(header, b, size)
      BY <1>4, <2>2
    <3>2. /\ new \in Address /\ new \notin DOMAIN header /\ new > b
          /\ DOMAIN h = DOMAIN header \cup {new}
          /\ \A a \in DOMAIN h :
                /\ h[a].Length = IF a = new THEN header[b].Length - size - HeaderSize
                                 ELSE IF a = b THEN size ELSE header[a].Length
                /\ h[a].Next = IF a = new THEN header[b].Next
                               ELSE IF a = b THEN new ELSE header[a].Next
                /\ h[a].Prev = IF a = new THEN b
                               ELSE IF a = header[b].Next THEN new ELSE header[a].Prev
          /\ h[new].Free = header[b].Free
          /\ \A a \in DOMAIN header : h[a].Free = header[a].Free
      <4>1. IsSplit(h, header, b, size, new)
        BY <1>1, <2>2, <3>0, <3>1, SplitShape
      <4>. QED
        BY <4>1 DEF IsSplit
    <3>3. Tiled(h, IF LastHdr = b THEN new ELSE LastHdr, heapEnd)
      BY <1>1, <2>2, <3>0, <3>1, SplitTiled
    <3>4. h # header /\ h[b].Next = new
      BY <1>1, <3>2
    <3>5. Tiled(h, LastHdr', heapEnd)
      BY <1>2, <3>3, <3>4
    <3>6. \A a \in DOMAIN h : ~ h[a].Free <=> (a \in DOMAIN header /\ ~ header[a].Free)
      BY <1>1, <3>2
    <3>7. \A a \in DOMAIN header \ {b} : h[a].Length = header[a].Length
      BY <3>2
    <3>8. PairsIn(h, {b})
      <4>1. SUFFICES ASSUME NEW a \in DOMAIN h, a # b, h[a].Free, h[a].Next # nullptr,
                            h[h[a].Next].Free
                     PROVE  FALSE
        BY DEF PairsIn
      <4>2. CASE a = new
        <5>1. h[a].Next = header[b].Next /\ header[b].Next # nullptr
          BY <3>2, <4>1, <4>2
        <5>2. header[b].Next \in DOMAIN header
          BY <1>1, <5>1 DEF Tiled, Linked
        <5>3. header[header[b].Next].Free
          BY <3>2, <4>1, <5>1, <5>2
        <5>. QED
          BY <1>1, <5>1, <5>3 DEF PairsIn
      <4>3. CASE a # new
        <5>1. a \in DOMAIN header /\ h[a].Next = header[a].Next /\ header[a].Free
          BY <3>2, <4>1, <4>3
        <5>2. header[a].Next \in DOMAIN header
          BY <1>1, <4>1, <5>1 DEF Tiled, Linked
        <5>3. header[header[a].Next].Free
          BY <3>2, <4>1, <5>1, <5>2
        <5>. QED
          BY <1>1, <4>1, <5>1, <5>3 DEF PairsIn
      <4>. QED
        BY <4>2, <4>3
    <3>. QED
      BY <1>1, <3>2, <3>5, <3>6, <3>7, <3>8
  <2>. QED
    BY <2>1, <2>2
<1>6. Tiled(header', LastHdr', heapEnd) /\ IsMarked(header', h, b, FALSE)
  <2>1. FALSE \in BOOLEAN
    OBVIOUS
  <2>. QED
    BY <1>2, <1>5, <2>1, MarkTiled
<1>7. PairsIn(header', {})
  <2>1. SUFFICES ASSUME NEW a \in DOMAIN h, header'[a].Free, header'[a].Next # nullptr,
                        header'[header'[a].Next].Free
                 PROVE  FALSE
    BY <1>6 DEF PairsIn, IsMarked
  <2>2. a # b /\ h[a].Free /\ h[a].Next # nullptr
    BY <1>6, <2>1 DEF IsMarked
  <2>3. h[a].Next \in DOMAIN h
    BY <1>5, <2>2 DEF Tiled, Linked
  <2>4. h[h[a].Next].Free
    BY <1>6, <2>1, <2>3 DEF IsMarked
  <2>. QED
    BY <1>5, <2>2, <2>4 DEF PairsIn
<1>8. \A a \in DOMAIN header' :
         ~ header'[a].Free <=> a = b \/ (a \in DOMAIN header /\ ~ header[a].Free)
  BY <1>5, <1>6 DEF IsMarked
<1>9. \A a \in DOMAIN header \ {b} : header'[a].Length = header[a].Length
  BY <1>5, <1>6 DEF IsMarked
<1>10. DOMAIN header \subseteq DOMAIN header'
  BY <1>5, <1>6 DEF IsMarked
<1>. QED
  BY <1>1, <1>6, <1>7, <1>8, <1>9, <1>10 DEF b

LEMMA TakeSegmentInductive ==
    ASSUME IInv, TakeSegment
    PROVE  IInv'
<1>. DEFINE b == CurrentSegment  c == request.client
<1>1. /\ b \in DOMAIN header /\ header[b].Free
      /\ Tiled(header', LastHdr', heapEnd) /\ PairsIn(header', {})
      /\ DOMAIN header \subseteq DOMAIN header'
      /\ \A a \in DOMAIN header' :
           ~ header'[a].Free <=> a = b \/ (a \in DOMAIN header /\ ~ header[a].Free)
  BY TakeSegmentBlocks
<1>2. /\ c \in Client /\ holds[c] = nullptr
      /\ holds' = [holds EXCEPT ![c] = b]
      /\ CurrentSegment' = nullptr /\ UNCHANGED <<heapEnd, pagesLeft>>
  BY DEF TakeSegment, Running, IInv, Calls
<1>3. Holders /\ NoLeak /\ heapEnd \in Nat /\ pagesLeft \in Nat
  BY DEF IInv
<1>. HIDE DEF b, c
<1>4. \A d \in Client : holds'[d] = IF d = c THEN b ELSE holds[d]
  BY <1>2, <1>3 DEF Holders
<1>5. \A d \in Client : holds[d] # b
  BY <1>1, <1>3 DEF NoLeak
<1>6. Holders'
  <2>1. holds' \in [Client -> DOMAIN header' \cup {nullptr}]
    BY <1>1, <1>2, <1>3 DEF Holders
  <2>2. \A d, e \in Client : holds'[d] = holds'[e] /\ holds'[d] # nullptr => d = e
    BY <1>3, <1>4, <1>5 DEF Holders
  <2>. QED
    BY <2>1, <2>2 DEF Holders
<1>7. NoLeak'
  <2>1. ASSUME NEW a \in DOMAIN header'
        PROVE  header'[a].Free <=> \A d \in Client : holds'[d] # a
    <3>1. a \in DOMAIN header => (~ header[a].Free <=> \E d \in Client : holds[d] = a)
      BY <1>3 DEF NoLeak
    <3>2. nullptr # a
      BY <1>1, <2>1 DEF Tiled, Typed, Address, nullptr
    <3>3. \A d \in Client : holds[d] = a => a \in DOMAIN header
      BY <1>3, <3>2 DEF Holders
    <3>4. ~ header'[a].Free <=> a = b \/ \E d \in Client : holds[d] = a
      BY <1>1, <3>1, <3>3
    <3>5. (\E d \in Client : holds'[d] = a) <=> a = b \/ \E d \in Client : holds[d] = a
      BY <1>2, <1>4, <3>2
    <3>. QED
      BY <3>4, <3>5
  <2>. QED
    BY <2>1 DEF NoLeak
<1>8. Calls'
  BY <1>2 DEF Calls
<1>. QED
  BY <1>1, <1>2, <1>3, <1>6, <1>7, <1>8
     DEF IInv, Tiled, Typed, Linked, Covering, Apart, EndIn, PairsIn

\* An expansion only adds to free memory.
LEMMA ExpandHeapBlocks ==
    ASSUME IInv, EnoughPages, ExpandHeap
    PROVE  /\ Tiled(header', LastHdr', heapEnd') /\ PairsIn(header', {})
           /\ heapEnd' \in Nat /\ pagesLeft' \in Nat
           /\ \A a \in DOMAIN header' :
                ~ header'[a].Free <=> a \in DOMAIN header /\ ~ header[a].Free
           /\ \A a \in DOMAIN header :
                ~ header[a].Free =>
                   a \in DOMAIN header' /\ header'[a].Length = header[a].Length
<1>. DEFINE wanted == PagesFor(request.size)
            length == wanted * PageSize - HeaderSize
            h == Appended(header, LastHdr, heapEnd, length)
<1>1. /\ Tiled(header, LastHdr, heapEnd) /\ PairsIn(header, {})
      /\ heapEnd \in Nat /\ pagesLeft \in Nat /\ request.size \in Nat \ {0}
  BY DEF ExpandHeap, Running, IInv, Calls
<1>2. wanted \in Nat \ {0} /\ wanted * PageSize \in Nat /\ length \in Nat \ {0}
  BY <1>1, ExpansionType
<1>3. pagesLeft > 0 /\ pagesLeft >= wanted
  BY <1>1 DEF ExpandHeap, Running, EnoughPages
<1>4. /\ pagesLeft' = pagesLeft - (IF pagesLeft < wanted THEN pagesLeft ELSE wanted)
      /\ heapEnd' = heapEnd + (IF pagesLeft < wanted THEN pagesLeft ELSE wanted) * PageSize
      /\ header' = CombineBackward(h, heapEnd)
      /\ LastHdr' = LastAfterBackward(h, heapEnd, heapEnd)
  BY DEF ExpandHeap, Appended
<1>5. length = wanted * PageSize - HeaderSize
  OBVIOUS
<1>. HIDE DEF wanted, length
<1>6. ~ pagesLeft < wanted
  BY <1>1, <1>2, <1>3
<1>7. pagesLeft' = pagesLeft - wanted /\ heapEnd' = heapEnd + wanted * PageSize
  BY <1>4, <1>6
<1>8. heapEnd' = heapEnd + HeaderSize + length /\ heapEnd' \in Nat /\ pagesLeft' \in Nat
  <2>1. HeaderSize \in Nat
    BY LayoutAssumption
  <2>. QED
    BY <1>1, <1>2, <1>3, <1>5, <1>7, <2>1
<1>9. h = Appended(header, LastHdr, heapEnd, length)
  OBVIOUS
<1>. HIDE DEF h
<1>10. Tiled(h, heapEnd, heapEnd + HeaderSize + length) /\ IsAppended(h, header, LastHdr, heapEnd)
  BY <1>1, <1>2, <1>9, AppendTiled
<1>11. PairsIn(h, {h[heapEnd].Prev})
  <2>1. SUFFICES ASSUME NEW a \in DOMAIN h, a # LastHdr, h[a].Free, h[a].Next # nullptr,
                        h[h[a].Next].Free
                 PROVE  FALSE
    BY <1>10 DEF PairsIn, IsAppended
  <2>2. a \in DOMAIN header /\ h[a].Next = header[a].Next /\ header[a].Free
    BY <1>10, <2>1 DEF IsAppended
  <2>3. header[a].Next \in DOMAIN header
    BY <1>1, <2>1, <2>2 DEF Tiled, Linked
  <2>4. header[header[a].Next].Free
    BY <1>10, <2>1, <2>2, <2>3 DEF IsAppended
  <2>. QED
    BY <1>1, <2>1, <2>2, <2>4 DEF PairsIn
<1>12. heapEnd \in DOMAIN h /\ h[heapEnd].Free
  BY <1>10 DEF IsAppended
<1>13. /\ Tiled(header', LastHdr', heapEnd + HeaderSize + length) /\ PairsIn(header', {})
       /\ DOMAIN header' \subseteq DOMAIN h
       /\ \A a \in DOMAIN header' : header'[a].Free = h[a].Free
       /\ \A a \in DOMAIN h \ DOMAIN header' : h[a].Free
       /\ \A a \in DOMAIN header' : ~ h[a].Free => header'[a].Length = h[a].Length
  BY <1>4, <1>10, <1>11, <1>12, BackwardTiled
<1>14. \A a \in DOMAIN header' :
         ~ header'[a].Free <=> a \in DOMAIN header /\ ~ header[a].Free
  BY <1>10, <1>13 DEF IsAppended
<1>15. \A a \in DOMAIN header :
         ~ header[a].Free => a \in DOMAIN header' /\ header'[a].Length = header[a].Length
  BY <1>10, <1>13 DEF IsAppended
<1>. QED
  BY <1>8, <1>13, <1>14, <1>15

LEMMA ExpandHeapInductive ==
    ASSUME IInv, EnoughPages, ExpandHeap
    PROVE  IInv'
<1>1. /\ Tiled(header', LastHdr', heapEnd') /\ PairsIn(header', {})
      /\ heapEnd' \in Nat /\ pagesLeft' \in Nat
      /\ \A a \in DOMAIN header' :
           ~ header'[a].Free <=> a \in DOMAIN header /\ ~ header[a].Free
      /\ \A a \in DOMAIN header : ~ header[a].Free => a \in DOMAIN header'
  BY ExpandHeapBlocks
<1>2. /\ holds' = holds /\ request' = request /\ CurrentSegment # nullptr
      /\ CurrentSegment' = heapStart
  BY DEF ExpandHeap, Running
<1>3. Holders /\ NoLeak /\ Calls
  BY DEF IInv
<1>4. Calls'
  BY <1>1, <1>2, <1>3 DEF Calls, Tiled, Linked
<1>5. \A a \in DOMAIN header : (\E d \in Client : holds[d] = a) => a \in DOMAIN header'
  BY <1>1, <1>3 DEF NoLeak
<1>6. Holders'
  BY <1>2, <1>3, <1>5 DEF Holders
<1>7. NoLeak'
  <2>1. ASSUME NEW a \in DOMAIN header'
        PROVE  header'[a].Free <=> \A d \in Client : holds[d] # a
    <3>1. a # nullptr
      BY <1>1, <2>1 DEF Tiled, Typed, Address, nullptr
    <3>2. (\E d \in Client : holds[d] = a) => a \in DOMAIN header
      BY <1>3, <3>1 DEF Holders
    <3>. QED
      BY <1>1, <1>3, <3>2 DEF NoLeak
  <2>. QED
    BY <1>2, <2>1 DEF NoLeak
<1>. QED
  BY <1>1, <1>4, <1>6, <1>7
     DEF IInv, Tiled, Typed, Linked, Covering, Apart, EndIn, PairsIn

\* free makes the block it is given free, and no other.
LEMMA FreeBlocks ==
    ASSUME IInv, NEW c \in Client, Free(c)
    PROVE  /\ Tiled(header', LastHdr', heapEnd) /\ PairsIn(header', {})
           /\ \A a \in DOMAIN header' :
                ~ header'[a].Free <=> a \in DOMAIN header /\ ~ header[a].Free /\ a # holds[c]
           /\ \A a \in DOMAIN header \ {holds[c]} :
                ~ header[a].Free =>
                   a \in DOMAIN header' /\ header'[a].Length = header[a].Length
<1>. DEFINE b == holds[c]
            freed == [header EXCEPT ![b].Free = TRUE]
            forward == CombineForward(freed, b)
            last == LastAfter(freed, b, LastHdr)
<1>1. /\ Tiled(header, LastHdr, heapEnd) /\ PairsIn(header, {})
      /\ b \in DOMAIN header
  BY DEF Free, IInv, Holders
<1>2. /\ header' = CombineBackward(forward, b)
      /\ LastHdr' = LastAfterBackward(forward, b, last)
  BY DEF Free
<1>3. freed = [header EXCEPT ![b].Free = TRUE]
  OBVIOUS
<1>4. forward = CombineForward(freed, b) /\ last = LastAfter(freed, b, LastHdr)
  OBVIOUS
<1>. HIDE DEF b, freed, forward, last
<1>5. Tiled(freed, LastHdr, heapEnd) /\ IsMarked(freed, header, b, TRUE)
  <2>1. TRUE \in BOOLEAN
    OBVIOUS
  <2>. QED
    BY <1>1, <1>3, <2>1, MarkTiled
<1>6. b \in DOMAIN freed /\ freed[b].Free /\ b \in Nat /\ b # 0
  BY <1>1, <1>5 DEF IsMarked, Tiled, Typed, Address
<1>. DEFINE p == freed[b].Prev  n == freed[b].Next
<1>7. p # n \/ n = nullptr
  <2>1. n # nullptr => n > b /\ n \in DOMAIN freed /\ n \in Nat
    BY <1>5, <1>6, NextIsBehind DEF Tiled, Typed, Address
  <2>2. p # nullptr => p \in DOMAIN freed /\ freed[p].Next = b
    BY <1>5, <1>6 DEF Tiled, Linked
  <2>3. p # nullptr => p < b
    BY <1>5, <1>6, <2>2, NextIsBehind DEF Tiled, Typed, Address, nullptr
  <2>. QED
    BY <1>6, <2>1, <2>3
<1>. HIDE DEF p, n
<1>8. PairsIn(freed, {b} \cup ({p} \ {nullptr}))
  <2>1. SUFFICES ASSUME NEW a \in DOMAIN freed, a # b, freed[a].Free,
                        freed[a].Next # nullptr, freed[freed[a].Next].Free
                 PROVE  a = p /\ p # nullptr
    BY DEF PairsIn
  <2>2. a \in DOMAIN header /\ header[a].Free /\ header[a].Next = freed[a].Next
    BY <1>5, <2>1 DEF IsMarked
  <2>3. freed[a].Next \in DOMAIN header
    BY <1>1, <2>1, <2>2 DEF Tiled, Linked
  <2>4. freed[a].Next = b
    <3>1. freed[a].Next # b => header[freed[a].Next].Free
      BY <1>5, <2>1, <2>3 DEF IsMarked
    <3>. QED
      BY <1>1, <2>1, <2>2, <3>1 DEF PairsIn
  <2>5. p = a
    BY <1>5, <2>1, <2>4 DEF Tiled, Linked, p
  <2>6. a # nullptr
    BY <1>5, <2>1 DEF Tiled, Typed, Address, nullptr
  <2>. QED
    BY <2>5, <2>6
<1>9. n \notin ({p} \ {nullptr})
  BY <1>7
<1>10. PairsIn(forward, {p} \ {nullptr})
  BY <1>4, <1>5, <1>6, <1>8, <1>9, JoinPairs DEF n
<1>11. /\ Tiled(forward, last, heapEnd) /\ b \in DOMAIN forward
       /\ DOMAIN forward \subseteq DOMAIN freed
       /\ \A a \in DOMAIN forward : forward[a].Free = freed[a].Free
       /\ \A a \in DOMAIN freed \ DOMAIN forward : freed[a].Free
       /\ forward[b].Prev = freed[b].Prev
       /\ \A a \in DOMAIN forward \ {b} : forward[a].Length = freed[a].Length
  BY <1>4, <1>5, <1>6, JoinTiled
<1>12. PairsIn(forward, {forward[b].Prev}) /\ forward[b].Free
  BY <1>6, <1>10, <1>11 DEF PairsIn, p
<1>13. /\ Tiled(header', LastHdr', heapEnd) /\ PairsIn(header', {})
       /\ DOMAIN header' \subseteq DOMAIN forward
       /\ \A a \in DOMAIN header' : header'[a].Free = forward[a].Free
       /\ \A a \in DOMAIN forward \ DOMAIN header' : forward[a].Free
       /\ \A a \in DOMAIN header' : ~ forward[a].Free => header'[a].Length = forward[a].Length
  BY <1>2, <1>11, <1>12, BackwardTiled
<1>14. \A a \in DOMAIN header' :
         ~ header'[a].Free <=> a \in DOMAIN header /\ ~ header[a].Free /\ a # b
  <2>. TAKE a \in DOMAIN header'
  <2>1. a \in DOMAIN freed /\ header'[a].Free = freed[a].Free
    BY <1>11, <1>13
  <2>2. ~ freed[a].Free => a # b
    BY <1>6
  <2>. QED
    BY <1>5, <1>6, <2>1, <2>2 DEF IsMarked
<1>15. ASSUME NEW a \in DOMAIN header \ {b}, ~ header[a].Free
       PROVE  a \in DOMAIN header' /\ header'[a].Length = header[a].Length
  <2>1. a \in DOMAIN freed /\ ~ freed[a].Free /\ freed[a].Length = header[a].Length
    BY <1>5, <1>15 DEF IsMarked
  <2>2. a \in DOMAIN forward /\ ~ forward[a].Free /\ forward[a].Length = freed[a].Length
    BY <1>11, <1>15, <2>1
  <2>3. a \in DOMAIN header' /\ header'[a].Length = forward[a].Length
    BY <1>13, <2>2
  <2>. QED
    BY <2>1, <2>2, <2>3
<1>. QED
  BY <1>13, <1>14, <1>15 DEF b

LEMMA FreeInductive ==
    ASSUME IInv, NEW c \in Client, Free(c)
    PROVE  IInv'
<1>. DEFINE b == holds[c]
<1>1. /\ Tiled(header', LastHdr', heapEnd) /\ PairsIn(header', {})
      /\ \A a \in DOMAIN header' :
           ~ header'[a].Free <=> a \in DOMAIN header /\ ~ header[a].Free /\ a # b
      /\ \A a \in DOMAIN header \ {b} : ~ header[a].Free => a \in DOMAIN header'
  BY FreeBlocks
<1>2. /\ b # nullptr /\ holds' = [holds EXCEPT ![c] = nullptr]
      /\ CurrentSegment = nullptr /\ UNCHANGED <<CurrentSegment, heapEnd, pagesLeft>>
  BY DEF Free
<1>3. Holders /\ NoLeak /\ heapEnd \in Nat /\ pagesLeft \in Nat
  BY DEF IInv
<1>4. \A d \in Client \ {c} : holds'[d] = holds[d] /\ (holds[d] = nullptr \/ holds[d] # b)
  BY <1>2, <1>3 DEF Holders
<1>5. holds'[c] = nullptr
  BY <1>2, <1>3 DEF Holders
<1>. HIDE DEF b
<1>6. \A d \in Client \ {c} : holds[d] # nullptr => holds[d] \in DOMAIN header'
  <2>. TAKE d \in Client \ {c}
  <2>1. holds[d] # nullptr => holds[d] \in DOMAIN header \ {b}
    BY <1>3, <1>4 DEF Holders
  <2>2. holds[d] \in DOMAIN header => ~ header[holds[d]].Free
    BY <1>3 DEF NoLeak
  <2>. QED
    BY <1>1, <2>1, <2>2
<1>7. Holders'
  <2>1. \A d \in Client : holds'[d] \in DOMAIN header' \cup {nullptr}
    BY <1>4, <1>5, <1>6
  <2>2. holds' \in [Client -> DOMAIN header' \cup {nullptr}]
    BY <1>2, <1>3, <2>1 DEF Holders
  <2>3. \A d, e \in Client : holds'[d] = holds'[e] /\ holds'[d] # nullptr => d = e
    BY <1>3, <1>4, <1>5 DEF Holders
  <2>. QED
    BY <2>2, <2>3 DEF Holders
<1>8. NoLeak'
  <2>1. ASSUME NEW a \in DOMAIN header'
        PROVE  header'[a].Free <=> \A d \in Client : holds'[d] # a
    <3>1. a # nullptr
      BY <1>1, <2>1 DEF Tiled, Typed, Address, nullptr
    <3>2. (\E d \in Client : holds'[d] = a) <=> \E d \in Client \ {c} : holds[d] = a
      BY <1>4, <1>5, <3>1
    <3>3. \A d \in Client : holds[d] = a => a \in DOMAIN header
      BY <1>3, <3>1 DEF Holders
    <3>4. (\E d \in Client \ {c} : holds[d] = a)
             <=> a \in DOMAIN header /\ ~ header[a].Free /\ a # b
      <4>1. ASSUME NEW d \in Client \ {c}, holds[d] = a
            PROVE  a \in DOMAIN header /\ ~ header[a].Free /\ a # b
        BY <1>3, <1>4, <3>1, <3>3, <4>1 DEF NoLeak
      <4>2. ASSUME a \in DOMAIN header, ~ header[a].Free, a # b
            PROVE  \E d \in Client \ {c} : holds[d] = a
        BY <1>3, <4>2 DEF NoLeak, b
      <4>. QED
        BY <4>1, <4>2
    <3>. QED
      BY <1>1, <3>2, <3>4
  <2>. QED
    BY <2>1 DEF NoLeak
<1>9. Calls'
  BY <1>2 DEF Calls
<1>. QED
  BY <1>1, <1>2, <1>3, <1>7, <1>8, <1>9
     DEF IInv, Tiled, Typed, Linked, Covering, Apart, EndIn, PairsIn

\* With no page left nothing is written; the kernel panics.
LEMMA ExpandFaultsInductive ==
    ASSUME IInv, ExpandFaults
    PROVE  IInv'
BY DEF ExpandFaults, IInv, Calls, Tiled, Typed, Linked, Covering, Apart, EndIn, PairsIn,
       Holders, NoLeak

LEMMA StutterInductive ==
    ASSUME IInv, UNCHANGED vars
    PROVE  IInv'
BY DEF vars, IInv, Calls, Tiled, Typed, Linked, Covering, Apart, EndIn, PairsIn,
       Holders, NoLeak

LEMMA NextInductive == IInv /\ EnoughPages /\ [Next]_vars => IInv'
<1>. SUFFICES ASSUME IInv, EnoughPages, [Next]_vars PROVE IInv'
  OBVIOUS
<1>1. CASE TakeSegment
  BY <1>1, TakeSegmentInductive
<1>2. CASE NextSegment
  BY <1>2, NextSegmentInductive
<1>3. CASE ExpandHeap
  BY <1>3, ExpandHeapInductive
<1>4. CASE ExpandFaults
  BY <1>4, ExpandFaultsInductive
<1>5. ASSUME NEW c \in Client, Free(c)
      PROVE  IInv'
  BY <1>5, FreeInductive
<1>6. ASSUME NEW c \in Client, NEW bytes \in Sizes, Malloc(c, bytes)
      PROVE  IInv'
  BY <1>6, MallocInductive
<1>7. CASE UNCHANGED vars
  BY <1>7, StutterInductive
<1>. QED
  BY <1>1, <1>2, <1>3, <1>4, <1>5, <1>6, <1>7 DEF Next, MallocStep

-----------------------------------------------------------------------------
(* The theorems.                                                           *)

\* The invariant holds of every behaviour in which RequestPage gives an expansion
\* all of its pages or none: ExpandHeap does not look at what RequestPage answers,
\* and gives a segment that it could map only in part its whole length.
THEOREM HeapInvariant == Spec /\ []EnoughPages => []IInv
BY InitIInv, NextInductive, PTL DEF Spec

\* Through every Split, CombineForward, CombineBackward and ExpandHeap the headers
\* are one list, linked both ways in the order of their addresses from the first
\* block to LastHdr, and each block ends where the next begins, the last at heapEnd.
THEOREM HeapIsTiledTheorem == Spec /\ []EnoughPages => []HeapIsTiled
<1>1. IInv => HeapIsTiled
  BY DEF IInv, Tiled, Linked, Covering, EndIn, HeapIsTiled, ListIsLinked, BlocksTile, End
<1>. QED
  BY <1>1, HeapInvariant, PTL

\* free joins a block with both of its neighbours, malloc splits what is free from
\* what is taken, and ExpandHeap joins the new segment with a free last block: no
\* two neighbours are ever both free.
THEOREM NoAdjacentFreeTheorem == Spec /\ []EnoughPages => []NoAdjacentFree
<1>1. IInv => NoAdjacentFree
  BY DEF IInv, PairsIn, NoAdjacentFree
<1>. QED
  BY <1>1, HeapInvariant, PTL

\* A block is marked as taken exactly while a client holds it: a block that malloc
\* splits, takes whole or joins is neither lost nor given out twice.
THEOREM NoLeakTheorem == Spec /\ []EnoughPages => []NoLeak
<1>1. IInv => NoLeak
  BY DEF IInv
<1>. QED
  BY <1>1, HeapInvariant, PTL

\* ExpandHeap gives no block a length beyond what it has mapped, as long as it gets
\* the pages it asks RequestPage for.
THEOREM BlocksAreMappedTheorem == Spec /\ []EnoughPages => []BlocksAreMapped
<1>1. IInv => BlocksAreMapped
  BY DEF IInv, Tiled, Covering, EndIn, BlocksAreMapped, End
<1>. QED
  BY <1>1, HeapInvariant, PTL

-----------------------------------------------------------------------------
(* The heap implements exclusive ownership of memory.                      *)

\* What clients hold does not overlap, as blocks do not.
LEMMA PayloadsAreApart ==
    ASSUME IInv, NEW c \in Client, NEW d \in Client, c # d
    PROVE  Payload(c) \cap Payload(d) = {}
<1>1. CASE holds[c] = nullptr \/ holds[d] = nullptr
  BY <1>1 DEF Payload
<1>2. CASE holds[c] # nullptr /\ holds[d] # nullptr
  <2>. DEFINE a == holds[c]  b == holds[d]
  <2>1. a \in DOMAIN header /\ b \in DOMAIN header /\ a # b
    BY <1>2 DEF IInv, Holders
  <2>. HIDE DEF a, b
  <2>2. /\ a \in Nat /\ b \in Nat /\ HeaderSize \in Nat
        /\ header[a].Length \in Nat /\ header[b].Length \in Nat
    BY <2>1, HeaderFields, LayoutAssumption DEF IInv, Tiled
  <2>3. (a > b => a >= End(b)) /\ (b > a => b >= End(a))
    BY <2>1 DEF IInv, Tiled, Apart, EndIn, End
  <2>4. End(a) \in Nat /\ End(b) \in Nat
    BY <2>2 DEF End
  <2>5. /\ Payload(c) = (a + HeaderSize) .. (End(a) - 1)
        /\ Payload(d) = (b + HeaderSize) .. (End(b) - 1)
    BY <1>2 DEF Payload, a, b
  <2>. QED
    BY <2>1, <2>2, <2>3, <2>4, <2>5
<1>. QED
  BY <1>1, <1>2

LEMMA PayloadType ==
    ASSUME IInv, NEW c \in Client
    PROVE  Payload(c) \subseteq Nat
<1>1. CASE holds[c] = nullptr
  BY <1>1 DEF Payload
<1>2. CASE holds[c] # nullptr
  <2>1. holds[c] \in DOMAIN header
    BY <1>2 DEF IInv, Holders
  <2>2. holds[c] \in Nat /\ HeaderSize \in Nat /\ header[holds[c]].Length \in Nat
    BY <2>1, HeaderFields, LayoutAssumption DEF IInv, Tiled
  <2>. QED
    BY <1>2, <2>2 DEF Payload, End
<1>. QED
  BY <1>1, <1>2

PayloadsFit ==
    /\ \A c \in Client : Payload(c) \subseteq Nat
    /\ \A c, d \in Client : c # d => Payload(c) \cap Payload(d) = {}

\* A payload is the same as long as its block has the same length.
LEMMA SamePayload ==
    ASSUME NEW c \in Client, holds'[c] = holds[c],
           holds[c] # nullptr => header'[holds[c]].Length = header[holds[c]].Length
    PROVE  Payload(c)' = Payload(c)
BY DEF Payload, End

LEMMA OwnershipStep ==
    ASSUME IInv, PayloadsFit', EnoughPages, [Next]_vars
    PROVE  [Ownership!Next]_([c \in Client |-> Payload(c)])
<1>. DEFINE owned == [c \in Client |-> Payload(c)]
<1>1. ASSUME \A c \in Client : Payload(c)' = Payload(c)
      PROVE  owned' = owned
  BY <1>1
<1>2. \A c \in Client : holds[c] # nullptr =>
         holds[c] \in DOMAIN header /\ ~ header[holds[c]].Free
  BY DEF IInv, Holders, NoLeak
<1>3. CASE TakeSegment
  <2>. DEFINE b == CurrentSegment
  <2>1. /\ b \in DOMAIN header /\ header[b].Free
        /\ \A a \in DOMAIN header \ {b} : header'[a].Length = header[a].Length
    BY <1>3, TakeSegmentBlocks
  <2>2. PICK k \in Client : holds[k] = nullptr /\ holds' = [holds EXCEPT ![k] = b]
    BY <1>3 DEF TakeSegment, Running, IInv, Calls
  <2>. HIDE DEF b
  <2>3. ASSUME NEW d \in Client \ {k}
        PROVE  Payload(d)' = Payload(d)
    <3>1. holds'[d] = holds[d]
      BY <2>2 DEF IInv, Holders
    <3>2. holds[d] # nullptr => holds[d] \in DOMAIN header \ {b}
      BY <1>2, <2>1
    <3>. QED
      BY <2>1, <3>1, <3>2, SamePayload
  <2>4. owned[k] = {}
    BY <2>2 DEF Payload
  <2>5. owned' \in [Client -> SUBSET Nat]
    BY DEF PayloadsFit
  <2>6. \A d \in Client \ {k} : owned'[d] = owned[d] /\ owned'[k] \cap owned[d] = {}
    <3>. TAKE d \in Client \ {k}
    <3>1. owned'[d] = owned[d]
      BY <2>3
    <3>2. Payload(k)' \cap Payload(d)' = {}
      BY <2>2 DEF PayloadsFit
    <3>. QED
      BY <2>2, <2>3, <3>1, <3>2
  <2>7. Ownership!Grant(k)
    BY <2>4, <2>5, <2>6 DEF Ownership!Grant
  <2>. QED
    BY <2>2, <2>7 DEF Ownership!Next
<1>4. CASE NextSegment \/ ExpandFaults \/ UNCHANGED vars
                       \/ \E c \in Client : \E bytes \in Sizes : Malloc(c, bytes)
  <2>1. header' = header /\ holds' = holds
    BY <1>4 DEF NextSegment, ExpandFaults, vars, Malloc
  <2>. QED
    BY <1>1, <2>1, SamePayload
<1>5. CASE ExpandHeap
  <2>1. \A a \in DOMAIN header :
          ~ header[a].Free => header'[a].Length = header[a].Length
    BY <1>5, ExpandHeapBlocks
  <2>2. holds' = holds
    BY <1>5 DEF ExpandHeap
  <2>. QED
    BY <1>1, <1>2, <2>1, <2>2, SamePayload
<1>6. ASSUME NEW c \in Client, Free(c)
      PROVE  Ownership!Release(c)
  <2>1. \A a \in DOMAIN header \ {holds[c]} :
          ~ header[a].Free => header'[a].Length = header[a].Length
    BY <1>6, FreeBlocks
  <2>2. holds' = [holds EXCEPT ![c] = nullptr] /\ holds[c] # nullptr
    BY <1>6 DEF Free
  <2>3. holds'[c] = nullptr
    BY <2>2 DEF IInv, Holders
  <2>4. ASSUME NEW d \in Client \ {c}
        PROVE  Payload(d)' = Payload(d)
    <3>1. holds'[d] = holds[d]
      BY <2>2 DEF IInv, Holders
    <3>2. holds[d] # nullptr => holds[d] # holds[c]
      BY DEF IInv, Holders
    <3>. QED
      BY <1>2, <2>1, <3>1, <3>2, SamePayload
  <2>5. Payload(c)' = {}
    BY <2>3 DEF Payload
  <2>6. owned' = [owned EXCEPT ![c] = {}]
    BY <2>4, <2>5
  <2>. QED
    BY <2>6 DEF Ownership!Release
<1>. QED
  BY <1>3, <1>4, <1>5, <1>6 DEF Next, MallocStep, Ownership!Next

\* The heap with its headers implements exclusive ownership of memory: malloc grants
\* a payload that overlaps none that is held, free gives back the whole payload, and
\* splitting, joining and expanding change no payload that a client holds.
THEOREM ImplementsOwnership == Spec /\ []EnoughPages => OwnershipSpec
<1>1. Init => Ownership!Init
  BY DEF Init, Ownership!Init, Payload
<1>2. IInv => PayloadsFit
  BY PayloadType, PayloadsAreApart DEF PayloadsFit
<1>3. IInv /\ PayloadsFit' /\ EnoughPages /\ [Next]_vars
        => [Ownership!Next]_([c \in Client |-> Payload(c)])
  BY OwnershipStep
<1>. QED
  BY <1>1, <1>2, <1>3, HeapInvariant, PTL DEF Spec, OwnershipSpec, Ownership!Spec

-----------------------------------------------------------------------------
(* The same without a hypothesis on RequestPage, for small requests.       *)

Small ==
    /\ pagesLeft \in Nat
    /\ CurrentSegment # nullptr => request.size \in Nat \ {0} /\ request.size <= PageSize

LEMMA OnePage ==
    ASSUME NEW size \in Nat \ {0}, size <= PageSize
    PROVE  PagesFor(size) = 1
<1>1. PageSize \in Nat \ {0}
  BY LayoutAssumption
<1>. DEFINE n == size + PageSize - 1  q == n \div PageSize
<1>2. n \in Nat /\ n >= PageSize /\ n < 2 * PageSize
  BY <1>1
<1>. HIDE DEF n
<1>3. q \in Nat /\ n = PageSize * q + (n % PageSize) /\ n % PageSize < PageSize /\ n % PageSize \in Nat
  BY <1>1, <1>2, SMT
<1>. HIDE DEF q
<1>4. q # 0
  <2>1. q = 0 => PageSize * q = 0
    BY <1>1
  <2>. QED
    BY <1>1, <1>2, <1>3, <2>1
<1>5. q < 2
  <2>1. q >= 2 => PageSize * q >= 2 * PageSize
    BY <1>1, <1>3, SMT
  <2>2. PageSize * q \in Nat
    BY <1>1, <1>3
  <2>. QED
    BY <1>1, <1>2, <1>3, <2>1, <2>2
<1>. QED
  BY <1>3, <1>4, <1>5 DEF PagesFor, n, q

LEMMA SmallInductive ==
    ASSUME \A bytes \in Sizes : Units(bytes) <= PageSize, Small, [Next]_vars
    PROVE  Small'
<1>1. CASE TakeSegment \/ NextSegment \/ ExpandFaults \/ UNCHANGED vars
  BY <1>1 DEF TakeSegment, NextSegment, ExpandFaults, Running, vars, Small
<1>2. CASE ExpandHeap
  <2>1. /\ request.size \in Nat \ {0} /\ request.size <= PageSize /\ pagesLeft > 0
        /\ pagesLeft \in Nat
    BY <1>2 DEF ExpandHeap, Running, Small
  <2>2. PagesFor(request.size) = 1
    BY <2>1, OnePage
  <2>3. pagesLeft' = pagesLeft - (IF pagesLeft < 1 THEN pagesLeft ELSE 1)
    BY <1>2, <2>2 DEF ExpandHeap
  <2>4. request' = request
    BY <1>2 DEF ExpandHeap
  <2>. QED
    BY <2>1, <2>3, <2>4 DEF Small
<1>3. ASSUME NEW c \in Client, Free(c)
      PROVE  Small'
  BY <1>3 DEF Free, Small
<1>4. ASSUME NEW c \in Client, NEW bytes \in Sizes, Malloc(c, bytes)
      PROVE  Small'
  BY <1>4, UnitsType DEF Malloc, Small
<1>. QED
  BY <1>1, <1>2, <1>3, <1>4 DEF Next, MallocStep

\* If no request is for more than a page, an expansion is of one page, and the heap
\* stays whole whatever RequestPage answers: the list, its tiling, the joining of
\* free neighbours and the account of what clients hold.
THEOREM SmallRequestsAreSafe ==
    ASSUME \A bytes \in Sizes : Units(bytes) <= PageSize
    PROVE  Spec => [](HeapIsTiled /\ NoAdjacentFree /\ NoLeak /\ BlocksAreMapped)
<1>1. Init => Small
  BY LayoutAssumption DEF Init, Small
<1>2. Small /\ [Next]_vars => Small'
  BY SmallInductive
<1>3. Small => EnoughPages
  <2>1. SUFFICES ASSUME Small, CurrentSegment # nullptr
                 PROVE  pagesLeft = 0 \/ pagesLeft >= PagesFor(request.size)
    BY DEF EnoughPages
  <2>2. PagesFor(request.size) = 1
    BY <2>1, OnePage DEF Small
  <2>. QED
    BY <2>1, <2>2 DEF Small
<1>. QED
  BY <1>1, <1>2, <1>3, HeapIsTiledTheorem, NoAdjacentFreeTheorem, NoLeakTheorem,
     BlocksAreMappedTheorem, PTL DEF Spec
=============================================================================
