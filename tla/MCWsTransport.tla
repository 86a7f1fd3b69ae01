---------------------------- MODULE MCWsTransport ----------------------------
(* A single call, with a timeout where they may differ, and a batch of two. *)
EXTENDS WsTransport

MCIds(c) == IF c = "a" THEN {1} ELSE {2, 3}
=============================================================================
