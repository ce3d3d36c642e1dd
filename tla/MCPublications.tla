--------------------------- MODULE MCPublications ---------------------------
EXTENDS Publications, TLC
Symmetry == Permutations(ParticipantID) \cup Permutations(Peer) \cup Permutations(Pub)
               \cup Permutations(Closer) \cup Permutations(Muter)
=============================================================================
