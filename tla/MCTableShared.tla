----------------------------- MODULE MCTableShared -----------------------------
(* Two workers that read and write the same key, and the collector, on two *)
(* segments of two cells: searches move within a segment, cross the border *)
(* and wrap around, and the table fills up with buried cells.  A record    *)
(* stored at time 2 has a time of death that overflows, and is buried by   *)
(* the collector.                                                          *)
EXTENDS PosixHashTableRivals

CONSTANTS w1, w2, k1, v1

MCHash == [k \in {k1} |-> 1]
===============================================================================
