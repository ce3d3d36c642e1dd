----------------------------- MODULE MCSessions -----------------------------
EXTENDS Sessions
Symmetry == Permutations(ParticipantID) \cup Permutations(Conn)
=============================================================================
