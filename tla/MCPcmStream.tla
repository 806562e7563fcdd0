---------------------------- MODULE MCPcmStream -----------------------------
(* The instance is given by the .cfg alone.                                *)
EXTENDS PcmStream
=============================================================================
