------------------------ MODULE PosixHashTableRivals ------------------------
(***************************************************************************)
(* What several writing workers can and cannot do to each other.  In p6    *)
(* every worker writes, and set finds its cell under locks it has released *)
(* when it writes.  Two history variables watch PosixHashTable without     *)
(* influencing it: they record which sets ran at the same time, and with   *)
(* them it can be said exactly how far a race between sets reaches.        *)
(***************************************************************************)
EXTENDS PosixHashTable

VARIABLES
    met,      \* keys of which two sets have run at the same time
    rivals    \* rivals[c]: the workers that were setting another key when
              \* the key of cell c was written, and have not returned since

Sets(k) == {w \in Worker : cmd[w].op = "set" /\ cmd[w].key = k}

(* A set of k is called in this step.                                      *)
SetCalled(k) == \E w \in Sets(k)' : pc[w] = "idle" /\ pc'[w] # "idle"

RivalsInit ==
    /\ Init
    /\ met = {}
    /\ rivals = [c \in Cell |-> {}]

(* A set that is called while the table has no record of its key, and no   *)
(* other set of it runs, starts afresh: what was before does not matter.   *)
Observe ==
    /\ met' = {k \in Key :
          IF SetCalled(k)
          THEN Sets(k) # {} \/ (k \in met /\ \E c \in Cell : Holds(c, k))
          ELSE k \in met}
    /\ rivals' = [c \in Cell |->
          {w \in Worker : /\ cmd'[w].op = "set"
                          /\ flag'[c] # CL_FREE /\ key'[c] # cmd'[w].key
                          /\ (flag[c] # CL_FREE /\ key'[c] = key[c]) => w \in rivals[c]}]

RivalsNext == Next /\ Observe
RivalsSpec == RivalsInit /\ [][RivalsNext]_<<vars, met, rivals>>
FairRivalsSpec == RivalsSpec /\ Fairness

-----------------------------------------------------------------------------
(* Any number of processes may write, and take free cells from each other: *)
(* still the table holds a key twice only if two sets of this very key     *)
(* have run at the same time, after the key was last absent.  Sets of      *)
(* other keys, dels, readers and the collector never make a second copy.   *)
OneCopyUnlessMet ==
    \A k \in Key \ met : \A c, d \in Cell : Holds(c, k) /\ Holds(d, k) => c = d

(* The key of a used cell is only ever rewritten by a set that was already *)
(* running, for another key, when the present key was written.  Once those *)
(* sets have returned the cell is settled: an index that a search returned *)
(* means the same key when get, set and del come back to the cell without  *)
(* looking at its key again.                                               *)
KeysSettle ==
    [][\A c \in Cell :
          flag[c] # CL_FREE /\ key'[c] # key[c]
            => \E w \in rivals[c] : pc[w] = "access" /\ pc'[w] = "idle" /\ idx[w] = c
      ]_<<vars, met, rivals>>

=============================================================================
