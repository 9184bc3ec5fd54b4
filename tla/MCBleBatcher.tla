---------------------------- MODULE MCBleBatcher ----------------------------
(* An instance of BleBatcher for TLC: two devices, one of which changes    *)
(* its data.                                                               *)
EXTENDS BleBatcher

MCDevices == {"d", "e"}
MCData == {"x", "y"}
MCAdverts == {<<"d", "x">>, <<"d", "y">>, <<"e", "x">>}
=============================================================================
