----------------------------- MODULE MCLruCache -----------------------------
EXTENDS LruCache, TLC

CONSTANTS k1, k2, k3, k4, n1, n2, n3, n4

Symmetry == Permutations(Keys) \cup Permutations(Nodes)
=============================================================================
