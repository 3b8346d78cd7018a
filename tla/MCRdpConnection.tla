--------------------------- MODULE MCRdpConnection ---------------------------
EXTENDS RdpConnection
=============================================================================
