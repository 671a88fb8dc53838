---------------------------- MODULE MCScheduler ----------------------------
EXTENDS Scheduler, TLC

CONSTANTS i0, i1 \* the idle processes

MCIdle == 0 :> i0 @@ 1 :> i1
Symmetry == Permutations(NewProcesses)
=============================================================================
