--------------------------- MODULE PosixHashTable ---------------------------
(***************************************************************************)
(* The hash table of Emrakul DB v2.0 (p6/src/PosixHashTable): an open-     *)
(* addressing table in shared memory, used at the same time by the worker  *)
(* processes and by the garbage collector.  The cells are grouped in       *)
(* segments, each guarded by a named POSIX semaphore that starts at 1.  A  *)
(* process holds one semaphore at a time: a search that crosses a segment  *)
(* border, and the step from a search to the access it prepares, both      *)
(* release one semaphore before they wait for the next.                    *)
(*                                                                         *)
(* One step of the model is one wait on a semaphore, or one visit to one   *)
(* cell while its semaphore is held, together with the sem_post that       *)
(* follows it when the visit is the last one in that segment.              *)
(***************************************************************************)
EXTENDS Integers

CONSTANTS
    Worker,     \* the worker processes, each running one command at a time
    Writer,     \* those whose clients send set and del (in p6, all of them)
    Cleaner,    \* the garbage collector process
    Key, Value, \* what clients store
    Nil,        \* the empty string a zeroed cell holds
    TTL,        \* the lifetimes clients ask for, after UserCommand's minimum
    MinTTL,     \* that minimum (10 seconds in the code)
    IntMax,     \* the largest value of the int a death time is stored in
    Period,     \* seconds between collections (30 in the code)
    MaxTime,    \* bound of the model on the clock
    HASHTABLE_SEGMENTS_COUNT,
    HASHTABLE_SEGMENT_SIZE,
    Hash        \* the cell each key hashes to

TableSize == HASHTABLE_SEGMENTS_COUNT * HASHTABLE_SEGMENT_SIZE
Cell      == 0 .. TableSize - 1
Segment   == 0 .. HASHTABLE_SEGMENTS_COUNT - 1
Process   == Worker \cup {Cleaner}

ASSUME SizeAssumption ==
    /\ HASHTABLE_SEGMENTS_COUNT \in Nat \ {0}
    /\ HASHTABLE_SEGMENT_SIZE \in Nat \ {0}
    /\ Hash \in [Key -> Cell]

ASSUME ProcessAssumption == Writer \subseteq Worker /\ Cleaner \notin Worker

ASSUME TimeAssumption ==
    /\ IntMax \in Nat /\ MinTTL \in Nat \ {0} /\ Period \in Nat \ {0}
    /\ TTL \subseteq MinTTL .. IntMax
    /\ MaxTime \in 1 .. IntMax

ASSUME NilAssumption == Nil \notin Key /\ Nil \notin Value

CL_FREE   == 0
CL_FILLED == 1
CL_RIP    == 2

VARIABLES
    flag,   \* flag[c]: the state byte of cell c
    key,    \* key[c], value[c], death[c]: the record stored in cell c
    value,
    death,
    sem,    \* sem[s]: the value of the semaphore of segment s
    now,    \* the wall clock, time(NULL)
    wake,   \* the absolute time the collector sleeps until
    pc,     \* where each process is
    cmd,    \* the command each worker runs
    off,    \* how many cells the current search has left behind
    blk,    \* the segment each process holds or waits for (block_idx)
    idx,    \* the cell a search returned (cell_idx)
    ret,    \* the outcome of the last command of each worker
    out     \* the value the last get copied out

cells  == <<flag, key, value, death>>
clocks == <<now, wake>>
locals == <<cmd, off, idx, ret, out>>
vars   == <<cells, sem, clocks, pc, blk, locals>>

NoCommand == [op |-> "none", key |-> Nil, value |-> Nil, ttl |-> 0]

Commands(w) ==
    [op : {"get"}, key : Key, value : {Nil}, ttl : {0}]
      \cup IF w \in Writer
           THEN [op : {"del"}, key : Key, value : {Nil}, ttl : {0}]
                  \cup [op : {"set"}, key : Key, value : Value, ttl : TTL]
           ELSE {}

(* Where a process may wait for a semaphore, and where it holds one.       *)
Waiting == {"filled_wait", "free_wait", "access_wait", "gc_wait"}
Inside == {"filled", "free", "access", "gc"}

Init ==
    /\ flag  = [c \in Cell |-> CL_FREE]
    /\ key   = [c \in Cell |-> Nil]
    /\ value = [c \in Cell |-> Nil]
    /\ death = [c \in Cell |-> 0]
    /\ sem   = [s \in Segment |-> 1]
    /\ now   = 1
    /\ wake  = 1 + Period
    /\ pc    = [p \in Process |-> "idle"]
    /\ cmd   = [w \in Worker |-> NoCommand]
    /\ off   = [p \in Process |-> 0]
    /\ blk   = [p \in Process |-> 0]
    /\ idx   = [w \in Worker |-> 0]
    /\ ret   = [w \in Worker |-> "none"]
    /\ out   = [w \in Worker |-> Nil]

-----------------------------------------------------------------------------
(* Searching and locking.                                                  *)

SegmentOf(c) == c \div HASHTABLE_SEGMENT_SIZE

(* The n-th cell a search from cell h visits: from h to the end of the     *)
(* table, then from 0 up to the cell before h.                             *)
Probe(h, n) == IF h + n < TableSize THEN h + n ELSE h + n - TableSize

Home(p)   == IF p = Cleaner THEN 0 ELSE Hash[cmd[p].key]
CellAt(p) == Probe(Home(p), off[p])
(* Mutant: the second loop, from 0 up to the home cell, is forgotten.      *)
LastCellNoWrap(p) == CellAt(p) = TableSize - 1

(* Mutant: the second loop goes on to the home cell itself.                *)
LastCellOneMore(p) == off[p] = TableSize

LastCell(p) == off[p] = TableSize - 1

SemPost(s) == sem' = [sem EXCEPT ![s] = @ + 1]

Goto(p, l) == pc' = [pc EXCEPT ![p] = l]

(* A process comes out of sem_wait holding the semaphore of blk[p].        *)
Lock(p) ==
    /\ \/ pc[p] = "filled_wait" /\ Goto(p, "filled")
       \/ pc[p] = "free_wait"   /\ Goto(p, "free")
       \/ pc[p] = "access_wait" /\ Goto(p, "access")
       \/ pc[p] = "gc_wait"     /\ Goto(p, "gc")
    /\ sem[blk[p]] > 0
    /\ sem' = [sem EXCEPT ![blk[p]] = @ - 1]
    /\ UNCHANGED <<cells, clocks, blk, locals>>

(* The search starts, or starts again, at the home cell of the key.        *)
SearchFrom(p, h, l) ==
    /\ off' = [off EXCEPT ![p] = 0]
    /\ blk' = [blk EXCEPT ![p] = SegmentOf(h)]
    /\ Goto(p, l)

(* Mutant: the search crosses the border with the old segment locked.      *)
NextCellNoSwitch(p, l) ==
    /\ off' = [off EXCEPT ![p] = @ + 1]
    /\ UNCHANGED <<sem, blk, pc>>

(* Mutant: the search waits for the next segment without posting the last. *)
NextCellNoPost(p, l) ==
    LET s == SegmentOf(Probe(Home(p), off[p] + 1)) IN
    /\ off' = [off EXCEPT ![p] = @ + 1]
    /\ UNCHANGED sem
    /\ IF s = blk[p]
       THEN UNCHANGED <<blk, pc>>
       ELSE blk' = [blk EXCEPT ![p] = s] /\ Goto(p, l)

(* The search moves to the next cell; when that cell is in another segment *)
(* it releases the segment it holds and goes to wait for the other one.    *)
NextCell(p, l) ==
    LET s == SegmentOf(Probe(Home(p), off[p] + 1)) IN
    /\ off' = [off EXCEPT ![p] = @ + 1]
    /\ IF s = blk[p]
       THEN UNCHANGED <<sem, blk, pc>>
       ELSE SemPost(blk[p]) /\ blk' = [blk EXCEPT ![p] = s] /\ Goto(p, l)

(* A search or an access ends: the segment is released and, for a hit, the *)
(* process goes to wait for the same segment again.                        *)
Hit(w) ==
    /\ SemPost(blk[w])
    /\ idx' = [idx EXCEPT ![w] = CellAt(w)]
    /\ blk' = [blk EXCEPT ![w] = SegmentOf(CellAt(w))]
    /\ Goto(w, "access_wait")
    /\ UNCHANGED <<cmd, off, ret>>

(* The command returns; its arguments and local variables are gone.        *)
Return(w, outcome) ==
    /\ SemPost(blk[w])
    /\ ret' = [ret EXCEPT ![w] = outcome]
    /\ cmd' = [cmd EXCEPT ![w] = NoCommand]
    /\ off' = [off EXCEPT ![w] = 0]
    /\ blk' = [blk EXCEPT ![w] = 0]
    /\ idx' = [idx EXCEPT ![w] = 0]
    /\ Goto(w, "idle")

-----------------------------------------------------------------------------
(* The worker processes.                                                   *)

(* Mutant: set looks for a free cell without looking for its key first.    *)
CallSetsAnew(w) ==
    /\ pc[w] = "idle"
    /\ \E c \in Commands(w) :
          /\ cmd' = [cmd EXCEPT ![w] = c]
          /\ SearchFrom(w, Hash[c.key],
                        IF c.op = "set" THEN "free_wait" ELSE "filled_wait")
    /\ ret' = [ret EXCEPT ![w] = "none"]
    /\ out' = [out EXCEPT ![w] = Nil]
    /\ UNCHANGED <<cells, sem, clocks, idx>>

(* WorkerProcess::execute_query calls get, set or del of the table.        *)
Call(w) ==
    /\ pc[w] = "idle"
    /\ \E c \in Commands(w) :
          /\ cmd' = [cmd EXCEPT ![w] = c]
          /\ SearchFrom(w, Hash[c.key], "filled_wait")
    /\ ret' = [ret EXCEPT ![w] = "none"]
    /\ out' = [out EXCEPT ![w] = Nil]
    /\ UNCHANGED <<cells, sem, clocks, idx>>

Holds(c, k) == flag[c] = CL_FILLED /\ key[c] = k

(* find_filled returned -1: set goes on to find_free, get and del return.  *)
NotFound(w) ==
    \/ /\ cmd[w].op = "set"
       /\ SemPost(blk[w])
       /\ SearchFrom(w, Home(w), "free_wait")
       /\ UNCHANGED <<cmd, idx, ret>>
    \/ cmd[w].op # "set" /\ Return(w, "miss")

(* Mutant: find_filled gives up at a buried cell.                          *)
FindFilledGivesUp(w) ==
    /\ pc[w] = "filled"
    /\ \/ Holds(CellAt(w), cmd[w].key) /\ Hit(w)
       \/ /\ ~Holds(CellAt(w), cmd[w].key)
          /\ ~LastCell(w) /\ flag[CellAt(w)] # CL_RIP
          /\ NextCell(w, "filled_wait")
          /\ UNCHANGED <<cmd, idx, ret>>
       \/ /\ ~Holds(CellAt(w), cmd[w].key)
          /\ LastCell(w) \/ flag[CellAt(w)] = CL_RIP
          /\ NotFound(w)
    /\ UNCHANGED <<cells, clocks, out>>

(* One visit of find_filled.                                               *)
FindFilled(w) ==
    /\ pc[w] = "filled"
    /\ \/ Holds(CellAt(w), cmd[w].key) /\ Hit(w)
       \/ /\ ~Holds(CellAt(w), cmd[w].key) /\ ~LastCell(w)
          /\ NextCell(w, "filled_wait")
          /\ UNCHANGED <<cmd, idx, ret>>
       \/ ~Holds(CellAt(w), cmd[w].key) /\ LastCell(w) /\ NotFound(w)
    /\ UNCHANGED <<cells, clocks, out>>

(* Mutant: find_free also takes buried cells.                              *)
FindFreeReuses(w) ==
    /\ pc[w] = "free"
    /\ \/ flag[CellAt(w)] # CL_FILLED /\ Hit(w)
       \/ /\ flag[CellAt(w)] = CL_FILLED /\ ~LastCell(w)
          /\ NextCell(w, "free_wait")
          /\ UNCHANGED <<cmd, idx, ret>>
       \/ flag[CellAt(w)] = CL_FILLED /\ LastCell(w) /\ Return(w, "full")
    /\ UNCHANGED <<cells, clocks, out>>

(* One visit of find_free.                                                 *)
FindFree(w) ==
    /\ pc[w] = "free"
    /\ \/ flag[CellAt(w)] = CL_FREE /\ Hit(w)
       \/ /\ flag[CellAt(w)] # CL_FREE /\ ~LastCell(w)
          /\ NextCell(w, "free_wait")
          /\ UNCHANGED <<cmd, idx, ret>>
       \/ flag[CellAt(w)] # CL_FREE /\ LastCell(w) /\ Return(w, "full")
    /\ UNCHANGED <<cells, clocks, out>>

(* The end of get: the value of the cell found is copied out.              *)
Get(w) ==
    /\ pc[w] = "access" /\ cmd[w].op = "get"
    /\ out' = [out EXCEPT ![w] = value[idx[w]]]
    /\ Return(w, "ok")
    /\ UNCHANGED <<cells, clocks>>

(* int death_time = ttl + time(NULL): the sum is cut down to an int.       *)
ToInt(n) == IF n > IntMax THEN n - 2 * (IntMax + 1) ELSE n

(* Mutant: a set that found its key does not renew the time of death.      *)
SetKeepsDeath(w) ==
    /\ pc[w] = "access" /\ cmd[w].op = "set"
    /\ key'   = [key EXCEPT ![idx[w]] = cmd[w].key]
    /\ death' = IF Holds(idx[w], cmd[w].key) THEN death
                ELSE [death EXCEPT ![idx[w]] = ToInt(cmd[w].ttl + now)]
    /\ value' = [value EXCEPT ![idx[w]] = cmd[w].value]
    /\ flag'  = [flag EXCEPT ![idx[w]] = CL_FILLED]
    /\ Return(w, "ok")
    /\ UNCHANGED <<clocks, out>>

(* The end of set: the whole record of the cell found is rewritten.        *)
Set(w) ==
    /\ pc[w] = "access" /\ cmd[w].op = "set"
    /\ key'   = [key EXCEPT ![idx[w]] = cmd[w].key]
    /\ death' = [death EXCEPT ![idx[w]] = ToInt(cmd[w].ttl + now)]
    /\ value' = [value EXCEPT ![idx[w]] = cmd[w].value]
    /\ flag'  = [flag EXCEPT ![idx[w]] = CL_FILLED]
    /\ Return(w, "ok")
    /\ UNCHANGED <<clocks, out>>

(* Mutant: del gives the cell back.                                        *)
DelFrees(w) ==
    /\ pc[w] = "access" /\ cmd[w].op = "del"
    /\ flag' = [flag EXCEPT ![idx[w]] = CL_FREE]
    /\ Return(w, "ok")
    /\ UNCHANGED <<key, value, death, clocks, out>>

(* The end of del: the cell found is marked, its record stays.             *)
Del(w) ==
    /\ pc[w] = "access" /\ cmd[w].op = "del"
    /\ flag' = [flag EXCEPT ![idx[w]] = CL_RIP]
    /\ Return(w, "ok")
    /\ UNCHANGED <<key, value, death, clocks, out>>

-----------------------------------------------------------------------------
(* The garbage collector and the clock.                                    *)

(* sem_timedwait times out and collect_garbage starts.                     *)
StartCollection ==
    /\ pc[Cleaner] = "idle" /\ now >= wake
    /\ SearchFrom(Cleaner, 0, "gc_wait")
    /\ UNCHANGED <<cells, sem, clocks, cmd, idx, ret, out>>

(* Mutant: a record dies one second early.                                 *)
ExpiredEarly(c) == death[c] # 0 /\ now >= death[c]

Expired(c) == death[c] # 0 /\ now > death[c]

(* One visit of collect_garbage; after the last cell, the next wait.       *)
Collect ==
    /\ pc[Cleaner] = "gc"
    /\ LET c == CellAt(Cleaner) IN
       flag' = IF Expired(c) /\ flag[c] # CL_RIP
               THEN [flag EXCEPT ![c] = CL_RIP] ELSE flag
    /\ \/ ~LastCell(Cleaner) /\ NextCell(Cleaner, "gc_wait") /\ UNCHANGED wake
       \/ /\ LastCell(Cleaner)
          /\ SemPost(blk[Cleaner])
          /\ wake' = Period + now
          /\ Goto(Cleaner, "idle")
          /\ off' = [off EXCEPT ![Cleaner] = 0]
          /\ blk' = [blk EXCEPT ![Cleaner] = 0]
    /\ UNCHANGED <<key, value, death, now, cmd, idx, ret, out>>

Tick ==
    /\ now < MaxTime
    /\ now' = now + 1
    /\ UNCHANGED <<cells, sem, wake, pc, blk, locals>>

-----------------------------------------------------------------------------
Step(w) == Lock(w) \/ FindFilled(w) \/ FindFree(w) \/ Get(w) \/ Set(w) \/ Del(w)
CleanerStep == Lock(Cleaner) \/ StartCollection \/ Collect

Next == \/ \E w \in Worker : Call(w) \/ Step(w)
        \/ CleanerStep
        \/ Tick

Spec == Init /\ [][Next]_vars

(* Every process that can take a step of its own is some day scheduled.    *)
(* Nothing is assumed of clients, of the clock, or of the order in which   *)
(* the processes waiting for one semaphore get it.                         *)
Fairness == (\A w \in Worker : WF_vars(Step(w))) /\ WF_vars(CleanerStep)

FairSpec == Spec /\ Fairness

-----------------------------------------------------------------------------
(* The types of the state, and in the last two conjuncts the relation      *)
(* between a search and the segment it works in.                           *)
TypeOK ==
    /\ flag \in [Cell -> {CL_FREE, CL_FILLED, CL_RIP}]
    /\ key \in [Cell -> Key \cup {Nil}] /\ value \in [Cell -> Value \cup {Nil}]
    /\ death \in [Cell -> Int]
    /\ sem \in [Segment -> Nat]
    /\ now \in Nat /\ wake \in Nat
    /\ pc \in [Process -> {"idle"} \cup Waiting \cup Inside]
    /\ cmd \in [Worker -> [op : {"none", "get", "set", "del"},
                           key : Key \cup {Nil}, value : Value \cup {Nil}, ttl : Nat]]
    /\ off \in [Process -> 0 .. TableSize - 1]
    /\ blk \in [Process -> Segment]
    /\ idx \in [Worker -> Cell]
    /\ ret \in [Worker -> {"none", "ok", "miss", "full"}]
    /\ out \in [Worker -> Value \cup {Nil}]

(* The cell a process is about to read or write, once it is let in.        *)
Target(p) == IF pc[p] \in {"access", "access_wait"} THEN idx[p] ELSE CellAt(p)

Owns(p, s) == pc[p] \in Inside /\ blk[p] = s

(* The semaphores of lock and unlock do what the class relies on: a        *)
(* segment is free exactly when nobody is in it, two processes are never   *)
(* in one segment, and a process only ever touches cells of the segment it *)
(* has locked, also where a search wraps around or jumps to its hit.       *)
LockDiscipline ==
    /\ \A s \in Segment :
          /\ sem[s] = IF \E p \in Process : Owns(p, s) THEN 0 ELSE 1
          /\ \A p, q \in Process : Owns(p, s) /\ Owns(q, s) => p = q
    /\ \A p \in Process : pc[p] # "idle" => blk[p] = SegmentOf(Target(p))

(* "302 Table degraded, no memory left" is true when it is said and stays  *)
(* true: find_free looks at the cells one after the other, other processes *)
(* run in between, and still no cell it left behind is free at its end.    *)
FullMeansFull ==
    \A w \in Worker : ret[w] = "full" => \A c \in Cell : flag[c] # CL_FREE

(* No operation ever gives a cell back to find_free: del and the collector *)
(* bury cells (CL_RIP), and a buried cell is only revived by a set that    *)
(* had found it before it was buried.                                      *)
CellsAreNeverFreed ==
    [][\A c \in Cell : flag[c] # CL_FREE => flag'[c] # CL_FREE]_vars

(* Once clients stop sending commands every command under way ends: no     *)
(* search and no access waits forever for a semaphore.                     *)
CommandsEnd ==
    <>[][\A w \in Worker : ~Call(w)]_vars
      => \A w \in Worker : <>[](pc[w] = "idle")

=============================================================================
