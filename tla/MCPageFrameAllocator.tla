------------------------ MODULE MCPageFrameAllocator ------------------------
EXTENDS PageFrameAllocator, TLC

Segment(conventional, first, pages) ==
    [conventional |-> conventional, first |-> first, pages |-> pages]

\* A contiguous map whose bitmap has a spare bit, one whose bitmap ends exactly
\* one bit after memory, and one with a hole, whose upper segment lies beyond
\* the frames that are counted.
MCMemoryMaps == {
    <<Segment(TRUE, 0, 4), Segment(FALSE, 4, 3), Segment(TRUE, 7, 7)>>,
    <<Segment(TRUE, 0, 9), Segment(FALSE, 9, 6)>>,
    <<Segment(TRUE, 0, 5), Segment(TRUE, 12, 6)>> }

MCKernel == {5, 9}
\* A page frame that the second page table may be given, one behind it, one out of range.
MCFramebuffer == {3, 4, 40}
Symmetry == Permutations(PageTables) \cup Permutations(Client \ PageTables)
=============================================================================
