---------------------------- MODULE MCNativeTimers ----------------------------
(* Instances of NativeTimers for TLC.  Its runs check liveness as well, so *)
(* timer ids and labels are model values without symmetry.                 *)
EXTENDS NativeTimers

=============================================================================
