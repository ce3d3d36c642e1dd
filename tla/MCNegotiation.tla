--------------------------- MODULE MCNegotiation ---------------------------
(* Two tracks of other members, which come and go at any time.             *)
EXTENDS Negotiation
=============================================================================
