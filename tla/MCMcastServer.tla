--------------------------- MODULE MCMcastServer ---------------------------
EXTENDS McastServer
=============================================================================
