------------------------ MODULE PosixHashTableHistory ------------------------
(***************************************************************************)
(* What clients may conclude from the answers of the table.  Three history *)
(* variables watch PosixHashTable without influencing it: they record what *)
(* the table held while a command ran, and what it has promised.           *)
(***************************************************************************)
EXTENDS PosixHashTable

VARIABLES
    stable,   \* stable[w]: cells that hold the key since w was called
    window,   \* window[w]: values the key has had since w was called
    promise   \* acknowledged records whose lifetime is not over

history == <<stable, window, promise>>

Holders(k) == {c \in Cell : Holds(c, k)}

(* What a get of k may answer in this state; Nil for "not found".          *)
Answers(k) == IF Holders(k) = {} THEN {Nil} ELSE {value[c] : c \in Holders(k)}

Running(w)   == pc[w] # "idle"
Ends(w, ops) == pc[w] = "access" /\ pc'[w] = "idle" /\ cmd[w].op \in ops

Promise(w) == [key |-> cmd[w].key, value |-> cmd[w].value,
               until |-> now + cmd[w].ttl]

HInit ==
    /\ Init
    /\ stable  = [w \in Worker |-> {}]
    /\ window  = [w \in Worker |-> {}]
    /\ promise = {}

Watch ==
    /\ stable' = [w \in Worker |->
          IF ~Running(w)' THEN stable[w]
          ELSE IF Running(w) THEN stable[w] \cap Holders(cmd[w].key)'
          ELSE Holders(cmd[w].key)']
    /\ window' = [w \in Worker |->
          IF ~Running(w)' THEN window[w]
          ELSE IF Running(w) THEN window[w] \cup Answers(cmd[w].key)'
          ELSE Answers(cmd[w].key)']
    /\ promise' =
          {r \in promise : /\ now' <= r.until
                           /\ \A w \in Worker :
                                 Ends(w, {"set", "del"}) => cmd[w].key # r.key}
            \cup {Promise(w) : w \in {u \in Worker : Ends(u, {"set"})}}

HNext == Next /\ Watch
HSpec == HInit /\ [][HNext]_<<vars, history>>

-----------------------------------------------------------------------------
(* A get or a del that answers "not found", and a set that goes looking    *)
(* for a free cell, is right at least in this: no cell has held the key    *)
(* all the time since the command was called.  find_filled runs while any  *)
(* number of other processes change the cells before and behind it.        *)
MissIsHonest ==
    \A w \in Worker :
        ret[w] = "miss" \/ pc[w] \in {"free_wait", "free"} => stable[w] = {}

(* With one writing process every answer of get is the answer of some      *)
(* instant between its call and its return, though get gives its lock up   *)
(* between finding a cell and reading it: it never returns the value of    *)
(* another key, nor misses a key that was there all along, nor returns a   *)
(* value that was replaced or deleted before it was called.                *)
AnswersAreHonest ==
    \A w \in Worker :
        /\ out[w] # Nil    => out[w] \in window[w]
        /\ ret[w] = "miss" => Nil \in window[w]

(* "Minimum TTL = 10s": a record whose set was acknowledged is in the      *)
(* table until its lifetime is over, unless a later set or del of the same *)
(* key is carried out.  With one writing process, and lifetimes that fit   *)
(* an int, the table keeps its promise; in general it does not.            *)
MinimumTTL ==
    \A r \in promise : \E c \in Holders(r.key) : value[c] = r.value

=============================================================================
