------------------------------- MODULE MCPool -------------------------------
\* Instances of Pool for TLC: users are alike, and so are connections.
EXTENDS Pool, TLC

CONSTANTS u1, u2, k1, k2

Symmetry == Permutations(Users) \cup Permutations(Conns)
=============================================================================
