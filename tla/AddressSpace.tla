---------------------------- MODULE AddressSpace ----------------------------
(***************************************************************************)
(* What MapMemory promises, and nothing else: a call changes what one page *)
(* is mapped to, at once, to what was asked for - as long as memory has    *)
(* not run out.                                                            *)
(***************************************************************************)
CONSTANTS
    Page,     \* virtual page numbers
    Frame,    \* page frame numbers
    Missing,  \* what a page is mapped to that is not mapped
    NoJob     \* no call of MapMemory

VARIABLES
    map,      \* map[v]: the page frame that v is mapped to, or Missing
    job,      \* the call that runs: the page v and the page frame p
    starved   \* memory has run out, and nothing is promised any more

vars == <<map, job, starved>>

Init == map = [v \in Page |-> Missing] /\ job = NoJob /\ starved \in BOOLEAN

Call(v, p) ==
    /\ job = NoJob /\ job' = [v |-> v, p |-> p]
    /\ UNCHANGED <<map, starved>>

Return ==
    /\ job # NoJob /\ job' = NoJob
    /\ map' = [map EXCEPT ![job.v] = job.p]
    /\ UNCHANGED starved

\* Memory runs out, or has.
Starve == starved'

Next == (\E v \in Page, p \in Frame : Call(v, p)) \/ Return \/ Starve

Spec == Init /\ [][Next]_vars
=============================================================================
