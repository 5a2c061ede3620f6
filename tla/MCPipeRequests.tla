--------------------------- MODULE MCPipeRequests ---------------------------
(***************************************************************************)
(* Small instances of PipeRequests.                                        *)
(***************************************************************************)
EXTENDS PipeRequests
=============================================================================
