------------------------------ MODULE MCSdHost ------------------------------
(* Every kind of request; a plain command is tried up to three times.      *)
EXTENDS SdHost

MCRequests ==
  [kind : HasData, retries : {0}] \cup [kind : Plain, retries : 0 .. 2]

(* Transfers of a memory card only, which poll the card.                   *)
MCBlocks == [kind : Blocks, retries : {0}]
=============================================================================
