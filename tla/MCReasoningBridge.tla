------------------------- MODULE MCReasoningBridge -------------------------
EXTENDS ReasoningBridge

CONSTANTS a1, a2
=============================================================================
