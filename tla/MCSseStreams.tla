---------------------------- MODULE MCSseStreams ----------------------------
(* SseStreams for TLC. *)
EXTENDS SseStreams
=============================================================================
