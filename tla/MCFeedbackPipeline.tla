------------------------- MODULE MCFeedbackPipeline -------------------------
EXTENDS FeedbackPipeline
CONSTANTS a1, a2, pr
MCPrOf == [c \in Comments |-> pr]
=============================================================================
