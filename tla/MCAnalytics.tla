---------------------------- MODULE MCAnalytics ----------------------------
\* Model checking of Analytics: days as ticks, a retention just long enough.
EXTENDS Analytics, TLC

Symmetry == Permutations(Handlers)
=============================================================================
