---------------------------- MODULE MCWebSocketLink ----------------------------
(* One slow handshake, one fault, two requests, the second answered by a mask. *)
EXTENDS WebSocketLink

MCMaskedReqs == {2}

================================================================================
