---------------------------- MODULE MCRedisClient ----------------------------
\* Model checking of RedisClient on a small instance, without symmetry: the run
\* checks liveness as well.
EXTENDS RedisClient
=============================================================================
