--------------------------- MODULE MCMediaSession ---------------------------
(* An instance of MediaSession for TLC: three starts of two sessions.      *)
EXTENDS MediaSession
=============================================================================
