------------------------------ MODULE MCProxy -------------------------------
(* Two clients, one of which talks with its target; the first port routes  *)
(* to two targets, one of them down.                                       *)
EXTENDS Proxy, TLC

CONSTANTS c1, c2

PiecesMC == (c1 :> ("in" :> 2 @@ "out" :> 1)) @@ (c2 :> ("in" :> 0 @@ "out" :> 0))
RoutesMC == <<{"t1", "t2"}, {"t1"}>>
=============================================================================
