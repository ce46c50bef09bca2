----------------------------- MODULE ExpiringMap -----------------------------
(***************************************************************************)
(* What Emrakul DB promises its clients: a map of keys to values in which  *)
(* every record has a time of death.  A record leaves the map when its key *)
(* is put again, when its key is removed, or after its death; nothing says *)
(* how soon after.                                                         *)
(***************************************************************************)
EXTENDS Integers

CONSTANTS Key, Value, Lifetime, MaxTime

VARIABLES
    store,  \* the records: [key, value, death]
    now

vars == <<store, now>>

Init == store = {} /\ now = 1

Others(k) == {r \in store : r.key # k}

Put(k, v, t) ==
    /\ store' = Others(k) \cup {[key |-> k, value |-> v, death |-> now + t]}
    /\ UNCHANGED now

Remove(k) == store' = Others(k) /\ UNCHANGED now

Expire(r) ==
    /\ now > r.death
    /\ store' = store \ {r}
    /\ UNCHANGED now

Tick == now < MaxTime /\ now' = now + 1 /\ UNCHANGED store

Next == \/ \E k \in Key, v \in Value, t \in Lifetime : Put(k, v, t)
        \/ \E k \in Key : Remove(k)
        \/ \E r \in store : Expire(r)
        \/ Tick

Spec == Init /\ [][Next]_vars
=============================================================================
