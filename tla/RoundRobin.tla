----------------------------- MODULE RoundRobin -----------------------------
(***************************************************************************)
(* What the scheduler promises: each CPU runs the processes it was given   *)
(* in turn.  A process is admitted to one CPU, at the end of the line, and *)
(* stays there; the process that runs is the first of the line, and the    *)
(* next to run is the one behind it.                                       *)
(***************************************************************************)
EXTENDS Sequences, Integers

CONSTANTS CPU, Process,
          Nobody  \* what a CPU runs that runs no process

VARIABLES line,   \* line[c]: the processes of CPU c, in the order of their turns
          running \* running[c]: the process whose turn it is, or Nobody

vars == <<line, running>>

Lined(c) == {line[c][i] : i \in DOMAIN line[c]}

Init == /\ line \in [CPU -> {<< >>} \cup {<<p>> : p \in Process}]
        /\ \A c, d \in CPU : c # d => Lined(c) \cap Lined(d) = {}
        /\ running = [c \in CPU |-> Nobody]

Admit(c, p) == /\ \A d \in CPU : p \notin Lined(d)
               /\ line' = [line EXCEPT ![c] = Append(line[c], p)]
               /\ UNCHANGED running

Start(c) == /\ running[c] = Nobody /\ line[c] # << >>
            /\ running' = [running EXCEPT ![c] = Head(line[c])]
            /\ UNCHANGED line

Turn(c) == /\ running[c] # Nobody
           /\ line' = [line EXCEPT ![c] = Append(Tail(line[c]), Head(line[c]))]
           /\ running' = [running EXCEPT ![c] = Head(line'[c])]

Next == \E c \in CPU : Start(c) \/ Turn(c) \/ \E p \in Process : Admit(c, p)

Spec == Init /\ [][Next]_vars
=============================================================================
