--------------------------- MODULE MCRateLimiter ---------------------------
EXTENDS RateLimiter, TLC

SourceSymmetry == Permutations(Sources)
=============================================================================
