--------------------------- MODULE MCUpstreamClient ---------------------------
EXTENDS UpstreamClient, TLC

CONSTANTS w1, w2, serve

(* Two goroutines of serve. *)
MCHome == w1 :> serve @@ w2 :> serve
===============================================================================
