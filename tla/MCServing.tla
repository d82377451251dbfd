------------------------------ MODULE MCServing ------------------------------
EXTENDS Serving

CONSTANTS l1, l2
=============================================================================
