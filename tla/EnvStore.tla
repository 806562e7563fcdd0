------------------------------ MODULE EnvStore ------------------------------
(***************************************************************************)
(* What the boot environment promises, without sectors, flags and checks:  *)
(* callers see one environment, a power cut shows another, and the second  *)
(* only ever becomes the first as a whole.                                 *)
(***************************************************************************)

CONSTANTS
  Names,    \* the variables of the environment
  Contents  \* what a variable may hold, the mark of an unset one included

VARIABLES
  view,     \* the environment the callers of this boot read
  durable   \* the environment the next boot will find

Envs == [Names -> Contents]

Init == durable \in Envs /\ view = durable

(* A call sets or clears one variable.                                     *)
Change ==
  /\ \E n \in Names, c \in Contents : view' = [view EXCEPT ![n] = c]
  /\ UNCHANGED durable

(* All that the callers see becomes what the next boot finds, at once.     *)
Commit == durable' = view /\ UNCHANGED view

Reboot == view' = durable /\ UNCHANGED durable

Next == Change \/ Commit \/ Reboot

Spec == Init /\ [][Next]_<<view, durable>>
=============================================================================
