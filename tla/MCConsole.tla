------------------------------ MODULE MCConsole ------------------------------
EXTENDS Console

\* a page prints commits and nothing orders them
Interchangeable == Permutations(Commits)
=============================================================================
