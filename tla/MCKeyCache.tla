----------------------------- MODULE MCKeyCache -----------------------------
EXTENDS KeyCache, TLC

CONSTANTS t1, t2, t3, k1, k2, l1, l2, l3

Symmetry == Permutations(Threads) \cup Permutations(Keys) \cup Permutations(Loads)
=============================================================================
