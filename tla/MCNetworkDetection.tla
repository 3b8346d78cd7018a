-------------------------- MODULE MCNetworkDetection --------------------------
EXTENDS NetworkDetection
=============================================================================
