------------------------------ MODULE MCPipeTo ------------------------------
(* Two chunks through a sink that takes one at a time. *)
EXTENDS PipeTo
CONSTANTS c1, c2

TwoChunks == <<c1, c2>>
Allowed == {{}, {"preventClose"}}
AllPrevented == {{"preventClose", "preventAbort", "preventCancel"}}
=============================================================================
