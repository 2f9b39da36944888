---------------------------- MODULE MCCliBridge ----------------------------
(* One request of every kind; a body of up to three chunks. *)
EXTENDS CliBridge
=============================================================================
