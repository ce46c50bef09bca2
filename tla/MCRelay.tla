------------------------------- MODULE MCRelay --------------------------------
(* Two clients, workers that listen to types 2 and 3, and a restart.       *)
EXTENDS MessageRelay

CONSTANTS p, q

MCMaxCommands == [c \in {p, q} |-> IF c = p THEN 2 ELSE 1]
===============================================================================
