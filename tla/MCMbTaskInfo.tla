---------------------------- MODULE MCMbTaskInfo ----------------------------
(* Two tasks; the threads of the first open three files, those of the      *)
(* second two.  The cache has three objects, so that an allocation may     *)
(* find none when an entry was left behind.                                *)
EXTENDS MbTaskInfo, TLC

CONSTANTS t1, t2, f1, f2, f3, f4, f5, m1, m2, m3

OwnerOf == [f \in Files |-> IF f \in {f4, f5} THEN t2 ELSE t1]
Objects == Permutations(Ids)
=============================================================================
