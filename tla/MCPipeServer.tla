---------------------------- MODULE MCPipeServer ----------------------------
(* Instance of PipeServer for TLC.                                         *)
EXTENDS PipeServer
CONSTANTS w1, w2, move, pause
=============================================================================
