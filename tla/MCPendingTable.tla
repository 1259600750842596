--------------------------- MODULE MCPendingTable ---------------------------
(***************************************************************************)
(* Instance of PendingTable for TLC: two overlapping sweeps call DoSend,   *)
(* their requests may draw the same transaction id and go to the same      *)
(* address, and the send queue holds one element.                          *)
(***************************************************************************)
EXTENDS PendingTableProofs
=============================================================================
