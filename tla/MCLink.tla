------------------------------- MODULE MCLink -------------------------------
EXTENDS Link
CONSTANTS a, b
=============================================================================
