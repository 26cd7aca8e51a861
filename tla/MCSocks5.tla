------------------------------ MODULE MCSocks5 ------------------------------
(***************************************************************************)
(* Two clients and one slot for dialling.                                  *)
(***************************************************************************)
EXTENDS Socks5
=============================================================================
