----------------------------- MODULE MCStdoutDma -----------------------------
EXTENDS StdoutDma

CONSTANTS low, high

MCNode == {dma_req}
MCIrq  == {low, high}
MCPrio == (low :> 5) @@ (high :> 2)
==============================================================================
