---------------------------- MODULE MCSynthesize ----------------------------
\* Model checking of Synthesize.  No symmetry: a liveness property is checked.
EXTENDS Synthesize, TLC
=============================================================================
