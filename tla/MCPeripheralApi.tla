--------------------------- MODULE MCPeripheralApi ---------------------------
(* An instance of PeripheralApi for TLC.                                   *)
EXTENDS PeripheralApi
=============================================================================
