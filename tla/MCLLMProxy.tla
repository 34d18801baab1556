----------------------------- MODULE MCLLMProxy -----------------------------
\* Model checking of LLMProxy.
EXTENDS LLMProxy, TLC
=============================================================================
