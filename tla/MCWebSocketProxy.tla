-------------------------- MODULE MCWebSocketProxy --------------------------
(***************************************************************************)
(* Instances of WebSocketProxy: messages are model values.                 *)
(***************************************************************************)
EXTENDS WebSocketProxy
=============================================================================
