---------------------------- MODULE MCSocketPool ----------------------------
EXTENDS SocketPool, TLC

Symmetry == Permutations(Threads) \union Permutations(Pools)
=============================================================================
