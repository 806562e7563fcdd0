------------------------- MODULE MCMemBlockResched -------------------------
(* Small instances of MemBlockResched for TLC.                             *)
EXTENDS MemBlockResched

(* User tasks are interchangeable.                                         *)
Symmetry == Permutations(Tasks)
=============================================================================
