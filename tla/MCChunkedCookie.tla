--------------------------- MODULE MCChunkedCookie ---------------------------
\* Model checking of ChunkedCookie on small instances.
EXTENDS ChunkedCookie, TLC

\* Slots of requests are interchangeable.
Symmetry == Permutations(Requests)
=============================================================================
