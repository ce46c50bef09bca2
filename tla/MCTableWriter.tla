----------------------------- MODULE MCTableWriter -----------------------------
(* One worker that reads and writes, one that only reads, and the collector. *)
EXTENDS PosixHashTableHistory, PosixHashTableRivals, PosixHashTableRefinement, TLC

CONSTANTS w1, w2, k1, k2, v1, v2

MCWorker == {w1, w2}
MCWriter == {w1}
MCKey    == {k1, k2}
MCValue  == {v1, v2}
MCHash   == [k \in MCKey |-> 1]
(* Both kinds of history are recorded.                                     *)
MCInit == HInit /\ met = {} /\ rivals = [c \in Cell |-> {}]
MCNext == HNext /\ Observe
MCSpec == MCInit /\ [][MCNext]_<<vars, history, met, rivals>>

Symmetry == Permutations(MCKey) \cup Permutations(MCValue)
===============================================================================
