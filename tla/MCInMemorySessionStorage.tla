---------------------- MODULE MCInMemorySessionStorage ----------------------
\* Model checking of InMemorySessionStorage on a small instance.
EXTENDS InMemorySessionStorage, TLC

\* Callers, ids and contents are interchangeable.
Symmetry == Permutations(Callers) \cup Permutations(Ids) \cup Permutations(States)
=============================================================================
