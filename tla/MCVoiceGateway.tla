---------------------------- MODULE MCVoiceGateway ----------------------------
(* Small instances of VoiceGateway for TLC. *)
EXTENDS VoiceGateway
=============================================================================
