--------------------------- MODULE MCVertexCache ---------------------------
EXTENDS VertexCache, TLC

CONSTANTS s1, s2

Interchangeable == Permutations({s1, s2})
=============================================================================
