--------------------------- MODULE MCRateLimiter ---------------------------
EXTENDS RateLimiter, TLC
CallerSymmetry == Permutations(Callers)
=============================================================================
