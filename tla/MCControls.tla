------------------------------ MODULE MCControls ------------------------------
(* An instance of Controls for TLC. *)
EXTENDS Controls
=============================================================================
