------------------------ MODULE MCAsyncQueueServer ------------------------
EXTENDS AsyncQueueServer, TLC

Symmetry == Permutations(Clients) \union Permutations(Keys)
=============================================================================
