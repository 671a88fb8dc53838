---------------------------- MODULE PageOwnership ----------------------------
(***************************************************************************)
(* What a page frame allocator promises, and nothing else: a page that one *)
(* user holds is not given to another until it has been handed back.       *)
(***************************************************************************)
CONSTANTS Client, \* what page frames are requested for
          Page    \* page frame numbers

VARIABLE holds    \* holds[c]: the page frames client c has, {} for none

TypeOK == holds \in [Client -> SUBSET Page]

Init == holds = [c \in Client |-> {}]

\* A client that holds nothing is given page frames that nobody holds.
Grant(c) ==
    /\ holds[c] = {}
    /\ holds' \in [Client -> SUBSET Page]
    /\ \A d \in Client \ {c} : holds'[d] = holds[d] /\ holds'[c] \cap holds[d] = {}

Release(c) == holds' = [holds EXCEPT ![c] = {}]

Next == \E c \in Client : Grant(c) \/ Release(c)

Spec == Init /\ [][Next]_holds
=============================================================================
