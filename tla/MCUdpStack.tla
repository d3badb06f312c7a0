----------------------------- MODULE MCUdpStack -----------------------------
EXTENDS UdpStack
=============================================================================
