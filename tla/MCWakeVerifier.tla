---------------------------- MODULE MCWakeVerifier ----------------------------
(* Instances of WakeVerifier for TLC.                                      *)
EXTENDS WakeVerifier
=============================================================================
