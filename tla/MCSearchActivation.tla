------------------------- MODULE MCSearchActivation -------------------------
EXTENDS SearchActivation
=============================================================================
