-------------------------------- MODULE MCStore --------------------------------
EXTENDS Store, TLC

Interchangeable == Permutations(Requests)
=============================================================================
