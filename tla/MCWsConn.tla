------------------------------ MODULE MCWsConn ------------------------------
(* The websocket connection as TLC checks it.                               *)
EXTENDS WsConn
=============================================================================
