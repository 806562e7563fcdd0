----------------------------- MODULE MCBootEnv ------------------------------
(* Entries of two lengths for 16 bytes of data: two short ones or one long *)
(* one leave room for the closing NUL, a short and a long one are accepted *)
(* and do not fit, and two long ones are refused.                          *)
EXTENDS BootEnv, TLC

CONSTANTS p1, p2, baudrate, method, short, long

LengthOf == [v \in Values \cup {Cut} |-> IF v = short THEN 7 ELSE 14]
Callers == Permutations(Procs)
=============================================================================
