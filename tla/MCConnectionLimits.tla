------------------------- MODULE MCConnectionLimits -------------------------
EXTENDS ConnectionLimits, TLC

\* Users and handlers are interchangeable.
Symmetric == Permutations(Users) \union Permutations(Conns)
=============================================================================
