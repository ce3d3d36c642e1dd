------------------------------ MODULE MCServer ------------------------------
(* One room and four participants, as many as two successions with a       *)
(* removal between them take; two tokens and two origins, one of them to   *)
(* be the wrong one.  Ports up to 2 have every order of two limits.        *)
EXTENDS Server

Symmetry == Permutations(ParticipantID) \cup Permutations(Token)
                \cup Permutations(Origin)
=============================================================================
