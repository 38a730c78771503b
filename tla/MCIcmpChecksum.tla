--------------------------- MODULE MCIcmpChecksum ---------------------------
EXTENDS IcmpChecksum
=============================================================================
