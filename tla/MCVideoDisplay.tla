--------------------------- MODULE MCVideoDisplay ---------------------------
EXTENDS VideoDisplay
=============================================================================
