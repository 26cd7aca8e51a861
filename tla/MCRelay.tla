------------------------------ MODULE MCRelay ------------------------------
(***************************************************************************)
(* Model checking the bearer: two endpoints (a session and its successor), *)
(* so that a delivery of the first can overlap the second.                 *)
(***************************************************************************)
EXTENDS Relay
=============================================================================
