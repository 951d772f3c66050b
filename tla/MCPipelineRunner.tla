-------------------------- MODULE MCPipelineRunner --------------------------
EXTENDS PipelineRunner, TLC
MCStages == <<"agent", "await">>
MCOneStage == <<"agent">>
MCSymmetry == Permutations(Calls)
=============================================================================
