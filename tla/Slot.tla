-------------------------------- MODULE Slot --------------------------------
(***************************************************************************)
(* What the program promises about the account's one login on the campus   *)
(* server: one holder at a time has it, and gives it up before the next    *)
(* one takes it.  Giving up means that the holder tried to log out, or     *)
(* died.  The server may not have heard of it, and it may have accepted a  *)
(* login whose answer was lost: it then counts a login that nobody has and *)
(* nobody will end.  The program does not wait for those, so the server    *)
(* may count them beside the login that is held.                           *)
(*                                                                         *)
(* A holder is a session inside one service (Service) or a service process *)
(* among several (Daemon); both are shown to implement this specification. *)
(***************************************************************************)
CONSTANT Holders
VARIABLES
    held,      \* who is logged in
    lost       \* whose logins the server may count although nobody has them

Init == held \subseteq Holders /\ (\A g, h \in held : g = h) /\ lost = {}

Take == held = {} /\ (\E h \in held' : h \in Holders /\ held' = {h}) /\ lost' = lost

\* A logout the server confirmed leaves nothing behind; another one may.
Give == held # {} /\ held' = {} /\ lost' \in {lost, lost \cup held}

\* The answer to a login never arrived.
Miss == held = {} /\ held' = {} /\ \E h \in lost' : h \in Holders /\ lost' = lost \cup {h}

Next == Take \/ Give \/ Miss

Spec == Init /\ [][Next]_<<held, lost>>
=============================================================================
