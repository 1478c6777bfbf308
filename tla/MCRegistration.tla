--------------------------- MODULE MCRegistration ---------------------------
\* The registration of a few daemons, for TLC.
EXTENDS Registration
=============================================================================
