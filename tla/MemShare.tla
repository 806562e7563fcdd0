------------------------------ MODULE MemShare ------------------------------
(***************************************************************************)
(* What the memory block driver promises its clients, without its lists,   *)
(* counters and searches: intervals of pages are granted so that no page   *)
(* is ever in two of them, are shared by any number of holders, and leave  *)
(* the system only when their last holder is gone.                         *)
(***************************************************************************)
EXTENDS Integers, FiniteSets

CONSTANTS
  FirstPage,   \* first page of the area
  NumPages     \* number of pages of the area

VARIABLE owned \* granted interval -> number of its holders

Intervals ==
  {iv \in [phys : FirstPage .. FirstPage + NumPages - 1,
           pages : 1 .. NumPages] :
     iv.phys + iv.pages <= FirstPage + NumPages}

Disjoint(x, y) == x.phys + x.pages <= y.phys \/ y.phys + y.pages <= x.phys

Without(S) == [iv \in DOMAIN owned \ S |-> owned[iv]]

Init == owned = [iv \in {} |-> 0]

Grant(iv) ==
  /\ \A o \in DOMAIN owned : Disjoint(iv, o)
  /\ owned' = [x \in DOMAIN owned \cup {iv} |-> IF x = iv THEN 1 ELSE owned[x]]

Share(iv) == owned' = [owned EXCEPT ![iv] = @ + 1]

(* One holder leaves, or two when a call gives up a mapping together with  *)
(* the allocation; an interval may be reclaimed once nobody holds it.      *)
Leave(iv, n) ==
  /\ n <= owned[iv]
  /\ \/ owned' = [owned EXCEPT ![iv] = @ - n]
     \/ n = owned[iv] /\ owned' = Without({iv})

(* Intervals that nobody holds are reclaimed together.                     *)
Reclaim == owned' = Without({iv \in DOMAIN owned : owned[iv] = 0})

Next ==
  \/ \E iv \in Intervals : Grant(iv)
  \/ \E iv \in DOMAIN owned : Share(iv) \/ \E n \in 1 .. 2 : Leave(iv, n)
  \/ Reclaim

Spec == Init /\ [][Next]_owned
=============================================================================
