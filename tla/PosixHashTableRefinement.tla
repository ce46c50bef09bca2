----------------------- MODULE PosixHashTableRefinement -----------------------
(***************************************************************************)
(* With one writing process and lifetimes that fit an int, the table of    *)
(* Emrakul DB v2.0 implements the map its clients see.                     *)
(***************************************************************************)
EXTENDS PosixHashTable

Record(c) == [key |-> key[c], value |-> value[c], death |-> death[c]]

(* The map is what the filled cells hold; free and buried cells, the       *)
(* semaphores and the searches under way are of no account.                *)
Store == {Record(c) : c \in {d \in Cell : flag[d] = CL_FILLED}}

Map == INSTANCE ExpiringMap WITH store <- Store, Lifetime <- TTL

(* Seen through Store, every step of the table is a put, a removal, an     *)
(* expiry after the death of the record, a tick of the clock, or nothing.  *)
ImplementsMap == Map!Spec

=============================================================================
