------------------------------- MODULE MCIoctl -------------------------------
\* The ioctl connection with a few callers, for TLC.
EXTENDS IoctlConn
=============================================================================
