------------------------------- MODULE MCServer -------------------------------
(* Two workers; a client that waits for its answers and one that does not. *)
EXTENDS EmrakulServer

CONSTANTS w1, w2, p, q

MCMaxLines == [c \in {p, q} |-> IF c = p THEN 1 ELSE 2]
===============================================================================
