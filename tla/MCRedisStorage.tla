--------------------------- MODULE MCRedisStorage ---------------------------
EXTENDS RedisSessionStorage, TLC
Symmetry == Permutations(Callers) \cup Permutations(Conns)
=============================================================================
