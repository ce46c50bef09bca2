---------------------------- MODULE SysVHashTable ----------------------------
(***************************************************************************)
(* The hash table of Emrakul DB v1.0 (p5/worker/src/SysVHashTable on       *)
(* HashTableBase): open addressing in shared memory, its cells in blocks.  *)
(* A block is guarded by a System V semaphore of WORKER_PROCESSES_COUNT    *)
(* permits, of which a reader takes one and a writer takes all.            *)
(*                                                                         *)
(* A master has one command in flight (MessageRelay), so that commands run *)
(* one at a time, until a master crashes: the next one clears memory and   *)
(* semaphores under the workers that still run a command of the old one.   *)
(*                                                                         *)
(* A step is one semop, or the visit to a cell with the unlock after it.   *)
(***************************************************************************)
EXTENDS Integers, Sequences, FiniteSets

CONSTANTS
    Worker,
    Key, Value,
    Nil,          \* what a zeroed cell holds
    WORKER_PROCESSES_COUNT,
    HASHTABLE_SEGMENTS_COUNT,
    HASHTABLE_SEGMENT_SIZE,
    Digest,       \* the hash of each key, before the division
    MaxCommands   \* bound of the model: MaxCommands[m] commands of master m

TableSize == HASHTABLE_SEGMENTS_COUNT * HASHTABLE_SEGMENT_SIZE
Cell      == 0 .. TableSize - 1
Block     == 0 .. HASHTABLE_SEGMENTS_COUNT - 1

ASSUME TableAssumption ==
    /\ HASHTABLE_SEGMENTS_COUNT \in Nat \ {0} /\ HASHTABLE_SEGMENT_SIZE \in Nat \ {0}
    /\ WORKER_PROCESSES_COUNT \in Nat \ {0} /\ Digest \in [Key -> Nat]
    /\ Len(MaxCommands) > 0

CL_FREE   == 0
CL_FILLED == 1
CL_RIP    == 2

VARIABLES
    cell,     \* cell[c]: its state byte, key and value
    sem,      \* sem[b]: permits left of block b
    job,      \* job[w]: where worker w is ("idle", or searching "filled", "free",
              \* or in its "access"), whether it has its block locked, its command,
              \* cells its search has left behind, the cell found
    answer,   \* the status and the value of the command that has ended last
    most,     \* commands in flight at most: one, and what crashed masters left
    master,   \* the number of the master
    sent,     \* commands it has sent
    cut       \* one has crashed while a worker had a block locked

masters == <<most, master, cut>>
vars    == <<cell, sem, job, answer, masters, sent>>

Command == [op : {"get", "del"}, key : Key, value : {Nil}]
             \cup [op : {"set"}, key : Key, value : Value]

Cleared == [c \in Cell |-> [state |-> CL_FREE, key |-> Nil, value |-> Nil]]
Permits == [b \in Block |-> WORKER_PROCESSES_COUNT]
Idle == [at |-> "idle", held |-> FALSE, cmd |-> Nil, n |-> 0, idx |-> 0]
Busy == {w \in Worker : job[w].at # "idle"}

Init ==
    /\ cell = Cleared
    /\ sem = Permits
    /\ job = [w \in Worker |-> Idle] /\ answer = Nil
    /\ most = 1 /\ master = 1 /\ sent = 0 /\ cut = FALSE
-----------------------------------------------------------------------------
(* Searching and locking                                                   *)

hash(k) == Digest[k] % TableSize

BlockOf(c) == c \div HASHTABLE_SEGMENT_SIZE

\* The n-th cell of a search: from its hash to the end, then from 0.
CellAt(k, n) == (hash(k) + n) % TableSize

\* The cell a worker looks at, or is about to.
Target(w) == IF job[w].at = "access" THEN job[w].idx ELSE CellAt(job[w].cmd.key, job[w].n)

Exclusive(w) == job[w].at = "access" /\ job[w].cmd.op # "get"

(* Mutant: a writer is content with one permit.                            *)
CountOne(w) == 1

\* The permits of a lock.
Count(w) == IF Exclusive(w) THEN WORKER_PROCESSES_COUNT ELSE 1

Lock(w) ==
    /\ w \in Busy /\ ~job[w].held
    /\ LET b == BlockOf(Target(w))
       IN  sem[b] >= Count(w) /\ sem' = [sem EXCEPT ![b] = @ - Count(w)]
    /\ job' = [job EXCEPT ![w].held = TRUE]
    /\ UNCHANGED <<cell, answer, masters, sent>>

(* Mutant: one permit is given back, whatever was taken.                   *)
UnlockOne(w) == [sem EXCEPT ![BlockOf(Target(w))] = @ + 1]

Unlock(w) == [sem EXCEPT ![BlockOf(Target(w))] = @ + Count(w)]

\* A worker goes on with the work next, and unlocks unless that is in its block.
GoOn(w, next) ==
    /\ job' = [job EXCEPT ![w] = next]
    /\ sem' = IF next.held THEN sem ELSE Unlock(w)
    /\ UNCHANGED <<masters, sent>>

\* The command has ended.
Return(w, status, value) == GoOn(w, Idle) /\ answer' = <<status, value>>

\* One cell of a search for a wanted cell; Missing is what to do without one.
Search(w, wanted, Missing) ==
    LET n == job[w].n + 1
        ahead == n < TableSize /\ BlockOf(CellAt(job[w].cmd.key, n)) = BlockOf(Target(w))
    IN  /\ job[w].held /\ UNCHANGED cell
        /\ \/ /\ wanted /\ UNCHANGED answer
              /\ GoOn(w, [job[w] EXCEPT !.at = "access", !.idx = Target(w), !.held = FALSE])
           \/ /\ ~wanted /\ n < TableSize /\ UNCHANGED answer
              /\ GoOn(w, [job[w] EXCEPT !.n = n, !.held = ahead])
           \/ ~wanted /\ n = TableSize /\ Missing

(* Mutant: a key that was deleted is found.                                *)
HoldsDead(c, k) == cell[c].key = k

Holds(c, k) == cell[c].state = CL_FILLED /\ cell[c].key = k

FindFilled(w) ==
    /\ job[w].at = "filled"
    /\ Search(w, Holds(Target(w), job[w].cmd.key),
              IF job[w].cmd.op = "set"
              THEN /\ GoOn(w, [job[w] EXCEPT !.at = "free", !.n = 0, !.held = FALSE])
                   /\ UNCHANGED answer
              ELSE Return(w, -1, Nil))

FindFree(w) ==
    /\ job[w].at = "free"
    /\ Search(w, cell[Target(w)].state = CL_FREE, Return(w, -1, Nil))
-----------------------------------------------------------------------------
(* Commands                                                                *)

\* A worker is sent a command.
Call(w) ==
    /\ w \notin Busy /\ Cardinality(Busy) < most /\ sent < MaxCommands[master]
    /\ \E c \in Command :
          job' = [job EXCEPT ![w] = [Idle EXCEPT !.at = "filled", !.cmd = c]]
    /\ sent' = sent + 1 /\ answer' = Nil
    /\ UNCHANGED <<cell, sem, masters>>

Accesses(w, op) == job[w].at = "access" /\ job[w].held /\ job[w].cmd.op = op

get(w) ==
    /\ Accesses(w, "get")
    /\ Return(w, 0, cell[job[w].idx].value)
    /\ UNCHANGED cell

set(w) ==
    /\ Accesses(w, "set")
    /\ Return(w, 0, Nil)
    /\ cell' = [cell EXCEPT ![job[w].idx] =
                  [state |-> CL_FILLED, key |-> job[w].cmd.key, value |-> job[w].cmd.value]]

del(w) ==
    /\ Accesses(w, "del")
    /\ Return(w, 0, Nil)
    /\ cell' = [cell EXCEPT ![job[w].idx].state = CL_RIP]

\* A master has crashed, and the next one initialises what there is.
Restart ==
    /\ master < Len(MaxCommands) /\ master' = master + 1 /\ sent' = 0
    /\ cell' = Cleared /\ sem' = Permits
    /\ most' = 1 + Cardinality(Busy)
    /\ cut' = (cut \/ \E w \in Worker : job[w].held)
    /\ UNCHANGED <<job, answer>>

Proceed(w) == Lock(w) \/ FindFilled(w) \/ FindFree(w) \/ get(w) \/ set(w) \/ del(w)

Next == Restart \/ \E w \in Worker : Call(w) \/ Proceed(w)

\* A worker's command goes on.  Strong, for locks: the kernel gives permits to
\* those who wait when they are put back.
Spec == Init /\ [][Next]_vars /\ \A w \in Worker : SF_vars(Proceed(w))
-----------------------------------------------------------------------------
(* Properties                                                              *)

Inside(b) == {w \in Worker : job[w].held /\ BlockOf(Target(w)) = b}

\* A writer is alone in its block, also with a command that a crashed master
\* left (SysVHashTable.cpp:28).  If a master cleared the semaphores of a block
\* in use, the unlock adds permits that writers no longer take.
WritersAreAlone ==
    ~cut => \A b \in Block : \A v, w \in Inside(b) : Exclusive(v) => v = w

Filled   == {c \in Cell : cell[c].state = CL_FILLED}
Contents == {<<cell[c].key, cell[c].value>> : c \in Filled}
Keys     == {cell[c].key : c \in Filled}
Without(k) == {p \in Contents : p[1] # k}

\* What the command c does, given its outcome.
DoesToMap(c, status, value) ==
    CASE c.op = "get" ->
            /\ Contents' = Contents
            /\ IF status = 0 THEN <<c.key, value>> \in Contents ELSE c.key \notin Keys
      [] c.op = "set" /\ status = 0 -> Contents' = Without(c.key) \cup {<<c.key, c.value>>}
      [] c.op = "set" /\ status # 0 ->
            /\ Contents' = Contents /\ c.key \notin Keys
            /\ \A i \in Cell : cell[i].state # CL_FREE
      [] c.op = "del" ->
            Contents' = Without(c.key) /\ (status = 0 <=> c.key \in Keys)

\* As long as commands run one at a time the table is a map: a key has one
\* cell, each command does what its name says in one of its steps, its last,
\* and a set fails only when every cell has been used.  Search and access are
\* two critical sections (HashTableBase.cpp:190, 197), so two commands at once
\* may break this, as after a crash.
ServesAsMap ==
    [][most = 1 /\ master' = master =>
        /\ Cardinality(Filled) = Cardinality(Keys)
        /\ \/ \E w \in Busy : job'[w].at = "idle" /\ DoesToMap(job[w].cmd, answer'[1], answer'[2])
           \/ Contents' = Contents /\ \A w \in Busy : job'[w].at # "idle"]_vars

\* The bounded number of commands all end: nobody takes some of the permits of a block and waits
\* for the others.
CommandsEnd == []<>(Busy = {})
=============================================================================
