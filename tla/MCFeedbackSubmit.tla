-------------------------- MODULE MCFeedbackSubmit --------------------------
\* Model checking of FeedbackSubmit.  No symmetry: a liveness property is
\* checked.
EXTENDS FeedbackSubmit, TLC
=============================================================================
