------------------------------- MODULE MCSysV --------------------------------
(* A table of two blocks of two cells, two keys that collide at its last   *)
(* cell, two workers; a master that may use up the table, and another one. *)
EXTENDS SysVHashTable

CommandsMC == <<8, 2>>
DigestMC == [k \in Key |-> 7]
==============================================================================
