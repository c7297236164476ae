----------------------------- MODULE MCCartSync -----------------------------
EXTENDS CartSync
=============================================================================
