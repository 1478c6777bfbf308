------------------------------ MODULE MCNetlink ------------------------------
\* The netlink connection with a few callers, for TLC.
EXTENDS NetlinkConn

\* An address without a zero byte.
PlainAddress == <<1, 2, 3>>
=============================================================================
