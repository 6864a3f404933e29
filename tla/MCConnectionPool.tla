-------------------------- MODULE MCConnectionPool --------------------------
EXTENDS ConnectionPool, TLC

\* Tasks and addresses are interchangeable: no action names one of them.
Symmetric == Permutations(Tasks) \union Permutations(Addr)
=============================================================================
