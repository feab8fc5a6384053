-------------------------- MODULE MCAsyncHandler --------------------------
EXTENDS AsyncHandler, TLC

Symmetry == Permutations(Threads) \union Permutations(ReqIds)
=============================================================================
