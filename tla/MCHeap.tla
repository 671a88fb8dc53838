------------------------------- MODULE MCHeap -------------------------------
EXTENDS Heap, TLC

Symmetry == Permutations(Client)
=============================================================================
