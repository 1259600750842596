-------------------------- MODULE MCPacketPipeline --------------------------
(***************************************************************************)
(* PacketPipeline, with its theorems, for TLC: a query that is answered,   *)
(* any datagram behind it, and a third that overwrites what is in flight   *)
(* and is answered, too.                                                   *)
(***************************************************************************)
EXTENDS PacketPipelineProofs

MCArriving == <<{"ping", "find_node", "get_peers_long"}, Kinds, {"find_node"}>>
=============================================================================
