--------------------------- MODULE MCRateLimiter ---------------------------
\* Model checking of RateLimiter: the clients are interchangeable.
EXTENDS RateLimiter, TLC

Symmetry == Permutations(Keys) \union Permutations(Requests)
=============================================================================
