--------------------------- MODULE MCCacheJanitor ---------------------------
\* Model checking of CacheJanitor.  One large file and two small ones: a cap of
\* 20 bytes, a target of 18.  No symmetry: a liveness property is checked.
EXTENDS CacheJanitor, TLC

CONSTANTS k1, k2, k3

MCSize == k1 :> 4 @@ k2 :> 8 @@ k3 :> 10
=============================================================================
