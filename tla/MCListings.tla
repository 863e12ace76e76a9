----------------------------- MODULE MCListings -----------------------------
\* Small instances of Listings for TLC.
EXTENDS Listings, TLC

Symmetry == Permutations(Slugs) \cup Permutations(Writers)
=============================================================================
