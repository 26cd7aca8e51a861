----------------------------- MODULE MCService -----------------------------
(* Small instances of the service actor. *)
EXTENDS Service
=============================================================================
