---------------------------- MODULE MCWebsocket ----------------------------
(* Websocket for TLC: two uploads of one file, two readers of which one may run. *)
EXTENDS Websocket, TLC

CONSTANTS u1, u2, file
MCTarget == (u1 :> file) @@ (u2 :> file)
=============================================================================
