--------------------------- MODULE MCBackpressure ---------------------------
EXTENDS Backpressure

CONSTANTS a, b
=============================================================================
