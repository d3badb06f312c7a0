----------------------------- MODULE MCIoServer -----------------------------
EXTENDS IoServer
=============================================================================
