----------------------------- MODULE MCVoiceLink -----------------------------
(* VoiceLink on small instances. *)
EXTENDS VoiceLink
=============================================================================
