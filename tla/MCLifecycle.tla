---------------------------- MODULE MCLifecycle ----------------------------
\* Model checking of Lifecycle.
EXTENDS Lifecycle, TLC

Interchangeable == Permutations(Handlers)
=============================================================================
