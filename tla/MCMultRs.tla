------------------------------ MODULE MCMultRs ------------------------------
\* The encoder of MULTI on its own, for TLC.
EXTENDS MultRs
=============================================================================
