---------------------------- MODULE MCMicrophone ----------------------------
(* Two attempts: one after the other, or overlapping at any of the awaits. *)
EXTENDS Microphone
=============================================================================
