------------------------------ MODULE MCEscrow ------------------------------
\* Small instances of Escrow for TLC.  Nothing makes two slots register
\* different keys: the slots of Sharing have one key between them, every other
\* slot has a key of its own, named by the slot.
EXTENDS Escrow, TLC

CONSTANTS Sharing, SharedKey

SomeKeysShared ==
  [t \in Tasks |-> [s \in Slots |-> IF s \in Sharing THEN SharedKey ELSE s]]

Symmetry ==
  Permutations(Procs) \cup Permutations(SignProcs) \cup Permutations(Registrants)
    \cup Permutations(Sharing) \cup Permutations(Slots \ Sharing)
=============================================================================
