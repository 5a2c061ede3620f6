---------------------------- MODULE MCPipeAnswers ----------------------------
(***************************************************************************)
(* A small instance of PipeAnswers: answers that are empty, or have a head *)
(* of their own and need several write() steps.                            *)
(***************************************************************************)
EXTENDS PipeAnswers

MCSizes == {<<0, 0>>, <<1, 2>>}
=============================================================================
