----------------------------- MODULE MCBoardLink -----------------------------
(* An instance of BoardLink for TLC. *)
EXTENDS BoardLink
=============================================================================
