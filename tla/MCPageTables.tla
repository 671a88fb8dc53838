---------------------------- MODULE MCPageTables ----------------------------
(***************************************************************************)
(* Four entries a table and 16 page frames of memory, of which the         *)
(* framebuffer has one; two more page frames have bits in the bitmap and   *)
(* are behind memory.  Everything takes 13 of the other 14: seven tables   *)
(* for memory, three for the heap and its two pages, one for a device.     *)
(***************************************************************************)
EXTENDS PageTables, SequencesExt

MCFrames == 0 .. 17

Dirty == [i \in Index |-> [present |-> TRUE, address |-> 1]]
MCLeftovers == {Blank, Dirty}

Up(n) == SelectSeq([i \in 1 .. n |-> i], LAMBDA f : f \notin Screen)

\* As much as it takes, the other way round, with gaps, too little, with page frames
\* behind memory, and with one of the framebuffer.
MCSupplies ==
    {Up(15), Reverse(Up(15)), Up(9), Up(13), Up(11) \o <<16, 17>>,
     Up(6) \o <<Framebuffer>>}
=============================================================================
