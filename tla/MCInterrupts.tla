---------------------------- MODULE MCInterrupts ----------------------------
(* Two CPUs: the boot CPU, which gets the timer, and one that gets IPIs.    *)
EXTENDS Interrupts

CONSTANTS c0, c1
TwoCPUs == {c0, c1}
=============================================================================
