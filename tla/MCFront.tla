------------------------------ MODULE MCFront ------------------------------
\* The front end alone, for TLC.
EXTENDS FrontEnd

Words == {"-d", "-m", "-c", "SMP", "PFS"}
=============================================================================
