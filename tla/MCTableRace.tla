------------------------------ MODULE MCTableRace ------------------------------
(* Two workers that both write, on a table of two cells in one segment.    *)
EXTENDS PosixHashTableHistory, TLC

CONSTANTS w1, w2, k1, k2, v1

MCWorker == {w1, w2}
MCKey    == {k1, k2}
MCHash   == [k \in MCKey |-> 0]
Symmetry == Permutations(MCWorker) \cup Permutations(MCKey)
===============================================================================
