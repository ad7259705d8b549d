--------------------------- MODULE MCCrossHyperthread ---------------------------
EXTENDS CrossHyperthread
================================================================================
