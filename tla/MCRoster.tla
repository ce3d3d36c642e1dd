------------------------------ MODULE MCRoster ------------------------------
EXTENDS Roster
Symmetry == Permutations(ParticipantID \ {Viewer})
=============================================================================
