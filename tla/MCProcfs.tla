------------------------------ MODULE MCProcfs ------------------------------
\* The procfs connection with a few callers, for TLC.
EXTENDS ProcfsConn
=============================================================================
