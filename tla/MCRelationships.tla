-------------------------- MODULE MCRelationships --------------------------
\* Small instances of Relationships for TLC.
EXTENDS RelationshipsHistory, TLC

SlotSymmetry == Permutations(Slots)

Symmetry == Permutations(Procs) \cup SlotSymmetry
=============================================================================
