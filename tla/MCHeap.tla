------------------------------- MODULE MCHeap -------------------------------
(* Heap for TLC: the guest's registers are interchangeable. *)
EXTENDS Heap, TLC

RegSymmetry == Permutations(Reg)

=============================================================================
