---------------------------- MODULE MCMemBlock ----------------------------
(* Small instances of MemBlock for TLC.                                    *)
EXTENDS MemBlock

(* User tasks are interchangeable; sound for the runs without liveness.    *)
Symmetry == Permutations(Tasks)
=============================================================================
