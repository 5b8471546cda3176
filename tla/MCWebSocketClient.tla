-------------------------- MODULE MCWebSocketClient --------------------------
(* Instances of WebSocketClient for TLC. *)
EXTENDS WebSocketClient

CONSTANTS t1, t2, t3

MCToken == {t1, t2, t3}
MCBootTokens == {t1}
=============================================================================
