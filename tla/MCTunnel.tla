------------------------------ MODULE MCTunnel ------------------------------
(***************************************************************************)
(* Two workers for three nodes: one result waits in the channel and one in *)
(* a worker while the receiver leaves.                                     *)
(***************************************************************************)
EXTENDS Tunnel
=============================================================================
