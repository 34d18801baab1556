----------------------------- MODULE MCRequests -----------------------------
\* Model checking of Requests.
EXTENDS Requests, TLC
=============================================================================
