---------------------------- MODULE MCBleScanner ----------------------------
(* An instance of BleScanner for TLC: three observers and an error.        *)
EXTENDS BleScanner
=============================================================================
