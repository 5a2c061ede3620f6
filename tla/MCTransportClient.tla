-------------------------- MODULE MCTransportClient --------------------------
(***************************************************************************)
(* Small instances of TransportClient.  The producers are interchangeable. *)
(***************************************************************************)
EXTENDS TransportClient, TLC

Symmetry == Permutations(Producers)
=============================================================================
