-------------------------- MODULE MCTransportServer --------------------------
(***************************************************************************)
(* Small instances of TransportServer.                                     *)
(***************************************************************************)
EXTENDS TransportServer
=============================================================================
