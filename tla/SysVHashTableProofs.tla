------------------------- MODULE SysVHashTableProofs -------------------------
(***************************************************************************)
(* Proofs about the hash table of Emrakul DB v1.0, for any number of       *)
(* workers, keys, blocks and cells and any hash function: a writer is      *)
(* alone in its block, and the table is a map as long as commands run one  *)
(* at a time.                                                              *)
(***************************************************************************)
EXTENDS SysVHashTable, FiniteSetTheorems, TLAPS

-----------------------------------------------------------------------------
(* Invariants.                                                             *)

Cells == [state : {CL_FREE, CL_FILLED, CL_RIP}, key : Key \cup {Nil}, value : Value \cup {Nil}]

Jobs == [at : {"idle", "filled", "free", "access"}, held : BOOLEAN,
         cmd : Command \cup {Nil}, n : 0 .. TableSize - 1, idx : Cell]

(* Types.  A worker with a block locked has a command, and only finitely   *)
(* many are busy, whatever Worker is: commands come one by one.            *)
TypeInv ==
    /\ cell \in [Cell -> Cells]
    /\ sem \in [Block -> Int]
    /\ job \in [Worker -> Jobs]
    /\ \A w \in Busy : job[w].cmd \in Command
    /\ \A w \in Worker : job[w].held => w \in Busy
    /\ IsFiniteSet(Busy)
    /\ master \in Int /\ most \in Nat /\ cut \in BOOLEAN

(* The permits of a block: each reader inside has one of them, or a writer *)
(* has all of them and is alone.                                           *)
PermitsOf(b) ==
    /\ IsFiniteSet(Inside(b))
    /\ \/ /\ \A w \in Inside(b) : ~Exclusive(w)
          /\ sem[b] + Cardinality(Inside(b)) = WORKER_PROCESSES_COUNT
       \/ /\ sem[b] = 0
          /\ \E w \in Inside(b) : Exclusive(w) /\ Inside(b) = {w}

LockInv == ~cut => \A b \in Block : PermitsOf(b)

(* What a worker's search has established.                                 *)
Knows(w) ==
    LET k == job[w].cmd.key
        Behind == 0 .. job[w].n - 1
    IN  /\ job[w].at = "filled" => \A i \in Behind : ~Holds(CellAt(k, i), k)
        /\ job[w].at = "free" =>
             /\ job[w].cmd.op = "set" /\ k \notin Keys
             /\ \A i \in Behind : cell[CellAt(k, i)].state # CL_FREE
        /\ job[w].at = "access" =>
             \/ Holds(job[w].idx, k)
             \/ /\ job[w].cmd.op = "set" /\ k \notin Keys
                /\ cell[job[w].idx].state = CL_FREE

OneCellPerKey == \A c, d \in Filled : cell[c].key = cell[d].key => c = d

(* While commands run one at a time, nobody disturbs a search.             *)
MapInv ==
    most = 1 =>
        /\ \A v, w \in Busy : v = w
        /\ \A w \in Busy : Knows(w)
        /\ OneCellPerKey
-----------------------------------------------------------------------------
(* Cells and blocks.                                                       *)

(* The table has at least one cell.                                        *)
LEMMA SizePositive == TableSize \in Nat /\ TableSize > 0
  BY TableAssumption DEF TableSize

(* Every cell lies in a block that exists: a valid semaphore number.       *)
LEMMA BlockExists == \A c \in Cell : BlockOf(c) \in Block
  <1>. SUFFICES ASSUME NEW c \in Cell PROVE BlockOf(c) \in Block
    OBVIOUS
  <1>. DEFINE N == HASHTABLE_SEGMENTS_COUNT
              S == HASHTABLE_SEGMENT_SIZE
              q == c \div S
  <1>1. N \in Nat /\ S \in Nat /\ S > 0 /\ N > 0
    BY TableAssumption
  <1>2. c \in Int /\ 0 <= c /\ c < N * S
    BY <1>1, SizePositive DEF Cell, TableSize
  <1>3. q \in Int /\ q * S <= c /\ c < q * S + S
    BY <1>1, <1>2
  <1>4. 0 <= q
    BY <1>1, <1>2
  <1>5. q < N
    <2>1. SUFFICES ASSUME q >= N PROVE FALSE
      BY <1>1, <1>3
    <2>2. q * S >= N * S
      BY <2>1, <1>1, <1>3
    <2>. QED
      BY <2>2, <1>1, <1>2, <1>3
  <1>. QED
    BY <1>1, <1>3, <1>4, <1>5 DEF BlockOf, Block

(* A search only visits cells of the table ...                             *)
LEMMA SearchInTable == \A k \in Key, n \in 0 .. TableSize - 1 : CellAt(k, n) \in Cell
  <1>. SUFFICES ASSUME NEW k \in Key, NEW n \in 0 .. TableSize - 1
                PROVE  CellAt(k, n) \in Cell
    OBVIOUS
  <1>1. Digest[k] \in Nat
    BY TableAssumption
  <1>2. hash(k) \in Cell
    BY <1>1, SizePositive DEF hash, Cell
  <1>. QED
    BY <1>2, SizePositive DEF CellAt, Cell

(* ... and visits all of them in TableSize steps.                          *)
LEMMA SearchReachesAll ==
    \A k \in Key, c \in Cell : \E n \in 0 .. TableSize - 1 : CellAt(k, n) = c
  <1>. SUFFICES ASSUME NEW k \in Key, NEW c \in Cell
                PROVE  \E n \in 0 .. TableSize - 1 : CellAt(k, n) = c
    OBVIOUS
  <1>1. Digest[k] \in Nat
    BY TableAssumption
  <1>. DEFINE h == hash(k)
              n == IF c >= h THEN c - h ELSE c - h + TableSize
  <1>2. h \in 0 .. TableSize - 1
    BY <1>1, SizePositive DEF hash
  <1>. HIDE DEF h
  <1>3. n \in 0 .. TableSize - 1
    BY <1>2, SizePositive DEF Cell
  <1>4. (h + n) % TableSize = c
    BY <1>2, SizePositive DEF Cell
  <1>. QED
    BY <1>3, <1>4 DEF CellAt, h

(* The cell a busy worker looks at is in the table, its block exists.      *)
LEMMA TargetExists ==
    ASSUME TypeInv, NEW w \in Busy
    PROVE  Target(w) \in Cell /\ BlockOf(Target(w)) \in Block
  <1>1. /\ w \in Worker /\ job[w].cmd \in Command
        /\ job[w].idx \in Cell /\ job[w].n \in 0 .. TableSize - 1
    BY DEF TypeInv, Busy, Jobs
  <1>2. job[w].cmd.key \in Key
    BY <1>1 DEF Command
  <1>3. CellAt(job[w].cmd.key, job[w].n) \in Cell
    BY <1>1, <1>2, SearchInTable
  <1>4. Target(w) \in Cell
    BY <1>1, <1>3 DEF Target
  <1>. QED
    BY <1>4, BlockExists

-----------------------------------------------------------------------------
(* Types.                                                                  *)

LEMMA InitTypes == Init => TypeInv
  <1>. SUFFICES ASSUME Init PROVE TypeInv
    OBVIOUS
  <1>1. 0 \in Cell /\ 0 \in 0 .. TableSize - 1
    BY SizePositive DEF Cell
  <1>2. Idle \in Jobs
    BY <1>1 DEF Idle, Jobs
  <1>3. Busy = {}
    BY DEF Init, Busy, Idle
  <1>4. cell \in [Cell -> Cells]
    BY DEF Init, Cleared, Cells
  <1>5. sem \in [Block -> Int]
    BY TableAssumption DEF Init, Permits
  <1>6. \A w \in Worker : ~job[w].held
    BY DEF Init, Idle
  <1>7. job \in [Worker -> Jobs]
    BY <1>2 DEF Init
  <1>8. most = 1 /\ master = 1 /\ cut \in BOOLEAN
    BY Zenon DEF Init
  <1>. QED
    BY <1>3, <1>4, <1>5, <1>6, <1>7, <1>8, FS_EmptySet DEF TypeInv

(* A worker with a block locked gives back permits of a block that exists. *)
LEMMA UnlockTypes ==
    ASSUME TypeInv, NEW w \in Busy PROVE Unlock(w) \in [Block -> Int]
  BY TargetExists, TableAssumption DEF Unlock, Count, TypeInv

(* A step that gives one worker other work.                                *)
LEMMA JobTypes ==
    ASSUME TypeInv, NEW w \in Worker, NEW next \in Jobs, job' = [job EXCEPT ![w] = next],
           next.at # "idle" => next.cmd \in Command, next.held => next.at # "idle"
    PROVE  /\ job' \in [Worker -> Jobs]
           /\ \A v \in Busy' : job'[v].cmd \in Command
           /\ \A v \in Worker : job'[v].held => v \in Busy'
           /\ IsFiniteSet(Busy')
  <1>1. job' \in [Worker -> Jobs]
    BY DEF TypeInv
  <1>2. \A v \in Worker : job'[v] = IF v = w THEN next ELSE job[v]
    BY DEF TypeInv
  <1>3. Busy' \subseteq Busy \cup {w}
    BY <1>2 DEF Busy
  <1>4. IsFiniteSet(Busy \cup {w})
    BY FS_AddElement DEF TypeInv
  <1>5. IsFiniteSet(Busy')
    BY <1>3, <1>4, FS_Subset
  <1>6. ASSUME NEW v \in Busy' PROVE job'[v].cmd \in Command
    BY <1>2 DEF Busy, TypeInv
  <1>7. ASSUME NEW v \in Worker, job'[v].held PROVE v \in Busy'
    BY <1>2, <1>7 DEF Busy, TypeInv
  <1>. QED
    BY <1>1, <1>5, <1>6, <1>7

LEMMA GoOnTypes ==
    ASSUME TypeInv, NEW w \in Busy, NEW next \in Jobs, GoOn(w, next),
           next.at # "idle" => next.cmd \in Command, next.held => next.at # "idle",
           cell' \in [Cell -> Cells]
    PROVE  TypeInv'
  <1>1. w \in Worker /\ job' = [job EXCEPT ![w] = next]
    BY DEF GoOn, Busy
  <1>2. /\ job' \in [Worker -> Jobs]
        /\ \A v \in Busy' : job'[v].cmd \in Command
        /\ \A v \in Worker : job'[v].held => v \in Busy'
        /\ IsFiniteSet(Busy')
    BY <1>1, JobTypes
  <1>3. sem' \in [Block -> Int]
    BY UnlockTypes DEF GoOn, TypeInv
  <1>. QED
    BY <1>2, <1>3 DEF GoOn, masters, TypeInv

LEMMA IdleIsJob == Idle \in Jobs /\ Idle.at = "idle" /\ ~Idle.held
  <1>1. 0 \in Cell /\ 0 \in 0 .. TableSize - 1
    BY SizePositive DEF Cell
  <1>. QED
    BY <1>1 DEF Idle, Jobs

LEMMA ReturnTypes ==
    ASSUME TypeInv, NEW w \in Busy, NEW s, NEW v, Return(w, s, v), cell' \in [Cell -> Cells]
    PROVE  TypeInv'
  BY GoOnTypes, IdleIsJob DEF Return

(* What a search hands on, in its three outcomes that are not an answer.   *)
LEMMA SearchJobs ==
    ASSUME TypeInv, NEW w \in Busy
    PROVE  LET n == job[w].n + 1
               found == [job[w] EXCEPT !.at = "access", !.idx = Target(w), !.held = FALSE]
               again == [job[w] EXCEPT !.at = "free", !.n = 0, !.held = FALSE]
           IN  /\ found \in Jobs /\ again \in Jobs
               /\ found.at = "access" /\ again.at = "free"
               /\ found.cmd \in Command /\ again.cmd \in Command
               /\ ~found.held /\ ~again.held
               /\ \A ahead \in BOOLEAN :
                     n < TableSize =>
                        LET go == [job[w] EXCEPT !.n = n, !.held = ahead]
                        IN  go \in Jobs /\ go.at = job[w].at /\ go.cmd \in Command
  <1>1. w \in Worker /\ job[w] \in Jobs /\ job[w].cmd \in Command
    BY DEF TypeInv, Busy
  <1>2. Target(w) \in Cell
    BY TargetExists
  <1>3. 0 \in 0 .. TableSize - 1
    BY SizePositive
  <1>4. ASSUME job[w].n + 1 < TableSize PROVE job[w].n + 1 \in 0 .. TableSize - 1
    BY <1>1, <1>4, SizePositive DEF Jobs
  <1>. QED
    BY <1>1, <1>2, <1>3, <1>4 DEF Jobs

(* The work that a visit to a cell leaves a worker with is its command's,  *)
(* and if it keeps its block locked it searches on in that block.          *)
Follows(w, next) ==
    /\ next \in Jobs /\ (next.at # "idle" => next.cmd \in Command)
    /\ next.held =>
         /\ next.at = job[w].at /\ next.at \in {"filled", "free"} /\ next.cmd = job[w].cmd
         /\ BlockOf(CellAt(next.cmd.key, next.n)) = BlockOf(Target(w))

LEMMA SearchFollows ==
    ASSUME TypeInv, NEW w \in Busy, job[w].at \in {"filled", "free"}, NEW wanted \in BOOLEAN,
           NEW Missing \in BOOLEAN, Search(w, wanted, Missing),
           Missing => \E next : Follows(w, next) /\ GoOn(w, next)
    PROVE  /\ job[w].held /\ cell' = cell
           /\ \E next : Follows(w, next) /\ GoOn(w, next)
  <1>. DEFINE n == job[w].n + 1
              ahead == n < TableSize /\ BlockOf(CellAt(job[w].cmd.key, n)) = BlockOf(Target(w))
              found == [job[w] EXCEPT !.at = "access", !.idx = Target(w), !.held = FALSE]
              go == [job[w] EXCEPT !.n = n, !.held = ahead]
  <1>1. job[w].held /\ cell' = cell
    BY DEF Search
  <1>2. found \in Jobs /\ found.cmd \in Command /\ ~found.held
    BY SearchJobs
  <1>3. CASE wanted /\ GoOn(w, found)
    <2>1. Follows(w, found)
      BY <1>2 DEF Follows
    <2>. QED
      BY <1>1, <1>3, <2>1
  <1>4. CASE n < TableSize /\ GoOn(w, go)
    <2>1. ahead \in BOOLEAN
      OBVIOUS
    <2>2. go \in Jobs /\ go.at = job[w].at /\ go.cmd \in Command
      BY <1>4, <2>1, SearchJobs
    <2>3. go.held = ahead /\ go.n = n /\ go.cmd = job[w].cmd
      BY DEF TypeInv, Jobs, Busy
    <2>4. Follows(w, go)
      BY <2>2, <2>3 DEF Follows
    <2>. QED
      BY <1>1, <1>4, <2>4
  <1>5. CASE Missing
    BY <1>1, <1>5
  <1>. QED
    BY <1>1, <1>3, <1>4, <1>5 DEF Search

LEMMA IdleFollows == \A w : Follows(w, Idle)
  BY IdleIsJob DEF Follows

LEMMA ReturnFollows ==
    ASSUME NEW w, NEW s, NEW v, Return(w, s, v)
    PROVE  \E next : Follows(w, next) /\ GoOn(w, next)
  BY IdleFollows DEF Return

Visit(w) == FindFilled(w) \/ FindFree(w) \/ get(w) \/ set(w) \/ del(w)

(* A visit to a cell is made with its block locked.                        *)
LEMMA VisitFollows ==
    ASSUME TypeInv, NEW w \in Worker, Visit(w)
    PROVE  /\ w \in Busy /\ job[w].held /\ cell' \in [Cell -> Cells]
           /\ \E next : Follows(w, next) /\ GoOn(w, next)
  <1>1. w \in Busy
    BY DEF Visit, FindFilled, FindFree, get, set, del, Accesses, Busy
  <1>2. job[w].cmd \in Command /\ job[w].idx \in Cell
    BY <1>1 DEF TypeInv, Jobs
  <1>3. CASE FindFilled(w)
    <2>. DEFINE again == [job[w] EXCEPT !.at = "free", !.n = 0, !.held = FALSE]
                Missing == IF job[w].cmd.op = "set"
                           THEN GoOn(w, again) /\ UNCHANGED answer
                           ELSE Return(w, -1, Nil)
                wanted == Holds(Target(w), job[w].cmd.key)
    <2>1. again \in Jobs /\ again.cmd \in Command /\ ~again.held
      BY <1>1, SearchJobs
    <2>2. Follows(w, again)
      BY <2>1 DEF Follows
    <2>3. Missing => \E next : Follows(w, next) /\ GoOn(w, next)
      BY <2>2, ReturnFollows
    <2>4. Search(w, wanted, Missing) /\ job[w].at = "filled"
      BY <1>3 DEF FindFilled
    <2>5. Missing \in BOOLEAN /\ wanted \in BOOLEAN
      BY DEF GoOn, Return, Holds
    <2>. HIDE DEF Missing, wanted
    <2>6. job[w].held /\ cell' = cell /\ \E next : Follows(w, next) /\ GoOn(w, next)
      BY <1>1, <2>3, <2>4, <2>5, SearchFollows
    <2>. QED
      BY <1>1, <2>6 DEF TypeInv
  <1>4. CASE FindFree(w)
    <2>. DEFINE Missing == Return(w, -1, Nil)
                wanted == cell[Target(w)].state = CL_FREE
    <2>1. Missing => \E next : Follows(w, next) /\ GoOn(w, next)
      BY ReturnFollows
    <2>2. Search(w, wanted, Missing) /\ job[w].at = "free"
      BY <1>4 DEF FindFree
    <2>3. Missing \in BOOLEAN /\ wanted \in BOOLEAN
      BY DEF Return, GoOn
    <2>. HIDE DEF Missing, wanted
    <2>4. job[w].held /\ cell' = cell /\ \E next : Follows(w, next) /\ GoOn(w, next)
      BY <1>1, <2>1, <2>2, <2>3, SearchFollows
    <2>. QED
      BY <1>1, <2>4 DEF TypeInv
  <1>5. CASE get(w)
    <2>1. job[w].held /\ cell' = cell /\ Return(w, 0, cell[job[w].idx].value)
      BY <1>5 DEF get, Accesses
    <2>. QED
      BY <1>1, <2>1, ReturnFollows DEF TypeInv
  <1>6. CASE set(w)
    <2>1. job[w].held /\ Return(w, 0, Nil) /\ job[w].cmd.op = "set"
      BY <1>6 DEF set, Accesses
    <2>2. [state |-> CL_FILLED, key |-> job[w].cmd.key, value |-> job[w].cmd.value] \in Cells
      BY <1>2 DEF Command, Cells
    <2>3. cell' \in [Cell -> Cells]
      BY <1>6, <2>2 DEF set, TypeInv
    <2>. QED
      BY <1>1, <2>1, <2>3, ReturnFollows
  <1>7. CASE del(w)
    <2>1. job[w].held /\ Return(w, 0, Nil)
      BY <1>7 DEF del, Accesses
    <2>2. cell' \in [Cell -> Cells]
      BY <1>2, <1>7 DEF del, TypeInv, Cells
    <2>. QED
      BY <1>1, <2>1, <2>2, ReturnFollows
  <1>. QED
    BY <1>3, <1>4, <1>5, <1>6, <1>7 DEF Visit

LEMMA LockTypes == ASSUME TypeInv, NEW w \in Worker, Lock(w) PROVE TypeInv'
  <1>. DEFINE next == [job[w] EXCEPT !.held = TRUE]
  <1>1. w \in Busy /\ next \in Jobs /\ next.cmd \in Command /\ next.at # "idle"
    BY DEF Lock, TypeInv, Jobs, Busy
  <1>2. job' = [job EXCEPT ![w] = next]
    BY DEF Lock
  <1>3. /\ job' \in [Worker -> Jobs]
        /\ \A v \in Busy' : job'[v].cmd \in Command
        /\ \A v \in Worker : job'[v].held => v \in Busy'
        /\ IsFiniteSet(Busy')
    <2>. HIDE DEF next
    <2>. QED
      BY <1>1, <1>2, JobTypes
  <1>4. Count(w) \in Int
    BY TableAssumption DEF Count
  <1>5. sem' \in [Block -> Int]
    BY <1>1, <1>4, TargetExists DEF Lock, TypeInv
  <1>. QED
    BY <1>3, <1>5 DEF Lock, masters, TypeInv

LEMMA CallTypes == ASSUME TypeInv, NEW w \in Worker, Call(w) PROVE TypeInv'
  <1>1. PICK c \in Command :
            job' = [job EXCEPT ![w] = [Idle EXCEPT !.at = "filled", !.cmd = c]]
    BY DEF Call
  <1>. DEFINE next == [Idle EXCEPT !.at = "filled", !.cmd = c]
  <1>2. next \in Jobs /\ next.cmd \in Command /\ next.at # "idle" /\ ~next.held
    BY IdleIsJob DEF Jobs
  <1>3. /\ job' \in [Worker -> Jobs]
        /\ \A v \in Busy' : job'[v].cmd \in Command
        /\ \A v \in Worker : job'[v].held => v \in Busy'
        /\ IsFiniteSet(Busy')
    <2>1. job' = [job EXCEPT ![w] = next]
      BY <1>1
    <2>. HIDE DEF next
    <2>. QED
      BY <1>2, <2>1, JobTypes
  <1>. QED
    BY <1>3 DEF Call, masters, TypeInv

LEMMA RestartTypes == ASSUME TypeInv, Restart PROVE TypeInv'
  <1>1. Cardinality(Busy) \in Nat
    BY FS_CardinalityType DEF TypeInv
  <1>2. cell' \in [Cell -> Cells]
    BY DEF Restart, Cleared, Cells
  <1>3. sem' \in [Block -> Int]
    BY TableAssumption DEF Restart, Permits
  <1>4. job' = job /\ Busy' = Busy
    BY DEF Restart, Busy
  <1>5. master' \in Int /\ most' \in Nat
    BY <1>1 DEF Restart, TypeInv
  <1>6. cut' \in BOOLEAN
    BY Zenon DEF Restart
  <1>. QED
    BY <1>2, <1>3, <1>4, <1>5, <1>6 DEF TypeInv

LEMMA VisitTypes == ASSUME TypeInv, NEW w \in Worker, Visit(w) PROVE TypeInv'
  <1>1. /\ w \in Busy /\ cell' \in [Cell -> Cells]
        /\ \E next : Follows(w, next) /\ GoOn(w, next)
    BY VisitFollows
  <1>2. PICK next : Follows(w, next) /\ GoOn(w, next)
    BY <1>1
  <1>3. next \in Jobs /\ (next.at # "idle" => next.cmd \in Command)
        /\ (next.held => next.at # "idle")
    BY <1>2 DEF Follows
  <1>. QED
    BY <1>1, <1>2, <1>3, GoOnTypes

(* What Next does, worker by worker.                                       *)
LEMMA Steps ==
    ASSUME [Next]_vars
    PROVE  \/ \E w \in Worker : Call(w) \/ Lock(w) \/ Visit(w)
           \/ Restart
           \/ UNCHANGED vars
  BY DEF Next, Proceed, Visit

LEMMA StepTypes == TypeInv /\ [Next]_vars => TypeInv'
  <1>. SUFFICES ASSUME TypeInv, [Next]_vars PROVE TypeInv'
    OBVIOUS
  <1>1. CASE \E w \in Worker : Call(w) \/ Lock(w) \/ Visit(w)
    BY <1>1, CallTypes, LockTypes, VisitTypes
  <1>2. CASE Restart
    BY <1>2, RestartTypes
  <1>3. CASE UNCHANGED vars
    <2>1. cell' = cell /\ sem' = sem /\ job' = job /\ most' = most /\ master' = master
          /\ cut' = cut
      BY <1>3 DEF vars, masters
    <2>2. Busy' = Busy
      BY <2>1 DEF Busy
    <2>. QED
      BY <2>1, <2>2 DEF TypeInv
  <1>. QED
    BY <1>1, <1>2, <1>3, Steps

-----------------------------------------------------------------------------
(* Locks.                                                                  *)

LEMMA InitLocks == Init => LockInv
  <1>. SUFFICES ASSUME Init, NEW b \in Block PROVE PermitsOf(b)
    BY DEF LockInv
  <1>1. Inside(b) = {}
    BY DEF Init, Inside, Idle
  <1>2. sem[b] = WORKER_PROCESSES_COUNT
    BY DEF Init, Permits
  <1>3. IsFiniteSet(Inside(b)) /\ Cardinality(Inside(b)) = 0
    BY <1>1, FS_EmptySet
  <1>. QED
    BY <1>1, <1>2, <1>3, TableAssumption DEF PermitsOf

(* When one worker gets other work, the others stay where they are.        *)
LEMMA OthersStay ==
    ASSUME TypeInv, NEW w \in Worker, NEW next, job' = [job EXCEPT ![w] = next],
           NEW v \in Worker, v # w
    PROVE  job'[v] = job[v] /\ Target(v)' = Target(v) /\ Exclusive(v)' = Exclusive(v)
  <1>1. job'[v] = job[v]
    BY DEF TypeInv
  <1>. QED
    BY <1>1 DEF Target, Exclusive

(* A worker whose lock does not change.                                    *)
LEMMA LockStays ==
    ASSUME TypeInv, LockInv, NEW w \in Worker, NEW next, job' = [job EXCEPT ![w] = next],
           sem' = sem, cut' = cut, next.held = job[w].held,
           job[w].held => /\ BlockOf(Target(w))' = BlockOf(Target(w))
                          /\ Exclusive(w)' = Exclusive(w)
    PROVE  LockInv'
  <1>. SUFFICES ASSUME ~cut, NEW b \in Block PROVE PermitsOf(b)'
    BY DEF LockInv
  <1>1. job'[w] = next
    BY DEF TypeInv
  <1>2. ASSUME NEW v \in Worker
        PROVE  /\ v \in Inside(b)' <=> v \in Inside(b)
               /\ v \in Inside(b) => Exclusive(v)' = Exclusive(v)
    <2>1. CASE v = w
      BY <1>1, <2>1 DEF Inside
    <2>2. CASE v # w
      <3>1. job'[v] = job[v] /\ Target(v)' = Target(v) /\ Exclusive(v)' = Exclusive(v)
        BY <2>2, OthersStay
      <3>. QED
        BY <3>1 DEF Inside
    <2>. QED
      BY <2>1, <2>2
  <1>3. Inside(b)' = Inside(b) /\ Inside(b) \subseteq Worker
    BY <1>2 DEF Inside
  <1>4. PermitsOf(b)
    BY DEF LockInv
  <1>. QED
    BY <1>2, <1>3, <1>4 DEF PermitsOf

LEMMA LockKeepsLocks ==
    ASSUME TypeInv, LockInv, NEW w \in Worker, Lock(w) PROVE LockInv'
  <1>. SUFFICES ASSUME ~cut, NEW b \in Block PROVE PermitsOf(b)'
    BY DEF LockInv, Lock, masters
  <1>. DEFINE next == [job[w] EXCEPT !.held = TRUE]
              t == BlockOf(Target(w))
  <1>1. w \in Busy /\ ~job[w].held /\ job' = [job EXCEPT ![w] = next]
    BY DEF Lock
  <1>2. t \in Block /\ sem[t] >= Count(w) /\ sem' = [sem EXCEPT ![t] = sem[t] - Count(w)]
    BY <1>1, TargetExists DEF Lock
  <1>3. job'[w] = next /\ next.held /\ Target(w)' = Target(w) /\ Exclusive(w)' = Exclusive(w)
    BY <1>1 DEF TypeInv, Jobs, Target, Exclusive
  <1>4. \A v \in Worker : v # w =>
           job'[v] = job[v] /\ Target(v)' = Target(v) /\ Exclusive(v)' = Exclusive(v)
    BY <1>1, OthersStay
  <1>. HIDE DEF next
  <1>5. PermitsOf(b) /\ w \notin Inside(b) /\ Inside(b) \subseteq Worker
    BY <1>1 DEF LockInv, Inside
  <1>6. CASE b # t
    <2>1. Inside(b)' = Inside(b)
      BY <1>1, <1>3, <1>4, <1>6 DEF Inside
    <2>2. sem'[b] = sem[b]
      BY <1>2, <1>6 DEF TypeInv
    <2>3. \A v \in Inside(b) : Exclusive(v)' = Exclusive(v)
      BY <1>4, <1>5
    <2>. QED
      BY <1>5, <2>1, <2>2, <2>3 DEF PermitsOf
  <1>7. CASE b = t
    <2>1. Inside(b)' = Inside(b) \cup {w}
      BY <1>1, <1>3, <1>4, <1>7 DEF Inside
    <2>2. IsFiniteSet(Inside(b)) /\ IsFiniteSet(Inside(b) \cup {w})
          /\ Cardinality(Inside(b)) \in Nat
          /\ Cardinality(Inside(b) \cup {w}) = Cardinality(Inside(b)) + 1
      BY <1>5, FS_AddElement, FS_CardinalityType DEF PermitsOf
    <2>3. sem'[b] = sem[b] - Count(w) /\ sem[b] \in Int /\ sem[b] >= Count(w)
      BY <1>2, <1>7 DEF TypeInv
    <2>4. Count(w) >= 1 /\ Count(w) \in Nat
      BY TableAssumption DEF Count
    <2>5. /\ \A v \in Inside(b) : ~Exclusive(v)
          /\ sem[b] + Cardinality(Inside(b)) = WORKER_PROCESSES_COUNT
      BY <1>5, <2>3, <2>4 DEF PermitsOf
    <2>6. CASE Exclusive(w)
      <3>1. Count(w) = WORKER_PROCESSES_COUNT
        BY <2>6 DEF Count
      <3>2. Cardinality(Inside(b)) = 0 /\ sem'[b] = 0
        BY <2>2, <2>3, <2>5, <3>1, TableAssumption
      <3>3. Inside(b) = {}
        BY <2>2, <3>2, FS_EmptySet
      <3>4. Inside(b)' = {w} /\ Exclusive(w)'
        BY <1>3, <2>1, <2>6, <3>3
      <3>. QED
        BY <2>1, <2>2, <3>2, <3>4 DEF PermitsOf
    <2>7. CASE ~Exclusive(w)
      <3>1. Count(w) = 1
        BY <2>7 DEF Count
      <3>2. sem'[b] + Cardinality(Inside(b) \cup {w}) = WORKER_PROCESSES_COUNT
        BY <2>2, <2>3, <2>5, <3>1, TableAssumption
      <3>3. \A v \in Inside(b)' : ~Exclusive(v)'
        BY <1>3, <1>4, <1>5, <2>1, <2>5, <2>7
      <3>. QED
        BY <2>1, <2>2, <3>2, <3>3 DEF PermitsOf
    <2>. QED
      BY <2>6, <2>7
  <1>. QED
    BY <1>6, <1>7

(* An unlock gives back what the lock took: all permits, of a writer, which*)
(* was alone, or one, of a reader, whom no writer was with.                *)
LEMMA UnlockKeepsLocks ==
    ASSUME TypeInv, LockInv, NEW w \in Busy, job[w].held, NEW next,
           job' = [job EXCEPT ![w] = next], ~next.held, sem' = Unlock(w), cut' = cut
    PROVE  LockInv'
  <1>. SUFFICES ASSUME ~cut, NEW b \in Block PROVE PermitsOf(b)'
    BY DEF LockInv
  <1>. DEFINE t == BlockOf(Target(w))
  <1>1. w \in Worker /\ t \in Block /\ sem' = [sem EXCEPT ![t] = sem[t] + Count(w)]
    BY TargetExists DEF Unlock, Busy
  <1>2. ~job'[w].held
    BY <1>1 DEF TypeInv
  <1>3. \A v \in Worker : v # w =>
           job'[v] = job[v] /\ Target(v)' = Target(v) /\ Exclusive(v)' = Exclusive(v)
    BY <1>1, OthersStay
  <1>4. Inside(b)' = Inside(b) \ {w} /\ Inside(b) \subseteq Worker
    BY <1>2, <1>3 DEF Inside
  <1>5. PermitsOf(b)
    BY DEF LockInv
  <1>6. \A v \in Inside(b)' : Exclusive(v)' = Exclusive(v)
    BY <1>3, <1>4
  <1>7. CASE b # t
    <2>1. w \notin Inside(b) /\ sem'[b] = sem[b]
      BY <1>1, <1>7 DEF Inside, TypeInv
    <2>2. Inside(b)' = Inside(b)
      BY <1>4, <2>1
    <2>. QED
      BY <1>5, <1>6, <2>1, <2>2 DEF PermitsOf
  <1>8. CASE b = t
    <2>1. w \in Inside(b)
      BY <1>1, <1>8 DEF Inside
    <2>2. /\ IsFiniteSet(Inside(b)) /\ IsFiniteSet(Inside(b) \ {w})
          /\ Cardinality(Inside(b)) \in Nat
          /\ Cardinality(Inside(b) \ {w}) = Cardinality(Inside(b)) - 1
      BY <1>5, <2>1, FS_RemoveElement, FS_CardinalityType DEF PermitsOf
    <2>3. sem'[b] = sem[b] + Count(w) /\ sem[b] \in Int
      BY <1>1, <1>8 DEF TypeInv
    <2>4. CASE Exclusive(w)
      <3>1. sem[b] = 0 /\ Inside(b) = {w}
        BY <1>5, <2>1, <2>4 DEF PermitsOf
      <3>2. Inside(b)' = {} /\ sem'[b] = WORKER_PROCESSES_COUNT
        BY <1>4, <2>3, <2>4, <3>1, TableAssumption DEF Count
      <3>3. Cardinality(Inside(b)') = 0 /\ IsFiniteSet(Inside(b)')
        BY <3>2, FS_EmptySet
      <3>. QED
        BY <3>2, <3>3, TableAssumption DEF PermitsOf
    <2>5. CASE ~Exclusive(w)
      <3>1. /\ \A v \in Inside(b) : ~Exclusive(v)
            /\ sem[b] + Cardinality(Inside(b)) = WORKER_PROCESSES_COUNT
        BY <1>5, <2>1, <2>5 DEF PermitsOf
      <3>2. sem'[b] = sem[b] + 1
        BY <2>3, <2>5 DEF Count
      <3>3. sem'[b] + Cardinality(Inside(b) \ {w}) = WORKER_PROCESSES_COUNT
        BY <2>2, <2>3, <3>1, <3>2, TableAssumption
      <3>4. \A v \in Inside(b)' : ~Exclusive(v)'
        BY <1>4, <1>6, <3>1
      <3>. QED
        BY <1>4, <2>2, <3>3, <3>4 DEF PermitsOf
    <2>. QED
      BY <2>4, <2>5
  <1>. QED
    BY <1>7, <1>8

LEMMA VisitKeepsLocks ==
    ASSUME TypeInv, LockInv, NEW w \in Worker, Visit(w) PROVE LockInv'
  <1>1. w \in Busy /\ job[w].held /\ \E next : Follows(w, next) /\ GoOn(w, next)
    BY VisitFollows
  <1>2. PICK next : Follows(w, next) /\ GoOn(w, next)
    BY <1>1
  <1>3. job' = [job EXCEPT ![w] = next] /\ cut' = cut /\ job'[w] = next
    BY <1>2 DEF GoOn, masters, TypeInv
  <1>4. CASE next.held
    <2>1. sem' = sem
      BY <1>2, <1>4 DEF GoOn
    <2>2. BlockOf(CellAt(next.cmd.key, next.n)) = BlockOf(Target(w))
          /\ next.at \in {"filled", "free"} /\ next.at = job[w].at
      BY <1>2, <1>4 DEF Follows
    <2>3. Target(w)' = CellAt(next.cmd.key, next.n)
      BY <1>3, <2>2 DEF Target, CellAt, hash
    <2>4. BlockOf(Target(w))' = BlockOf(Target(w))
      BY <2>2, <2>3 DEF BlockOf
    <2>5. Exclusive(w)' = Exclusive(w)
      BY <1>3, <2>2 DEF Exclusive
    <2>6. next.held = job[w].held
      BY <1>1, <1>2, <1>4 DEF Follows, Jobs, TypeInv
    <2>. QED
      BY <1>3, <2>1, <2>4, <2>5, <2>6, LockStays
  <1>5. CASE ~next.held
    <2>1. sem' = Unlock(w)
      BY <1>2, <1>5 DEF GoOn
    <2>. QED
      BY <1>1, <1>3, <1>5, <2>1, UnlockKeepsLocks
  <1>. QED
    BY <1>4, <1>5

LEMMA CallKeepsLocks ==
    ASSUME TypeInv, LockInv, NEW w \in Worker, Call(w) PROVE LockInv'
  <1>1. PICK c \in Command :
            job' = [job EXCEPT ![w] = [Idle EXCEPT !.at = "filled", !.cmd = c]]
    BY DEF Call
  <1>. DEFINE next == [Idle EXCEPT !.at = "filled", !.cmd = c]
  <1>2. next.held = FALSE
    BY DEF Idle
  <1>3. job[w].held = FALSE
    BY DEF Call, TypeInv, Jobs
  <1>. HIDE DEF next
  <1>4. sem' = sem /\ cut' = cut /\ job' = [job EXCEPT ![w] = next]
    BY <1>1 DEF Call, masters, next
  <1>. QED
    BY <1>2, <1>3, <1>4, LockStays

(* A master that clears the semaphores under a worker with a block locked  *)
(* breaks the count, which cut records; under the others it is right.      *)
LEMMA RestartKeepsLocks == ASSUME TypeInv, LockInv, Restart PROVE LockInv'
  <1>. SUFFICES ASSUME ~cut', NEW b \in Block PROVE PermitsOf(b)'
    BY DEF LockInv
  <1>1. \A w \in Worker : ~job'[w].held
    BY DEF Restart
  <1>2. Inside(b)' = {}
    BY <1>1 DEF Inside
  <1>3. sem'[b] = WORKER_PROCESSES_COUNT
    BY DEF Restart, Permits
  <1>4. IsFiniteSet(Inside(b)') /\ Cardinality(Inside(b)') = 0
    BY <1>2, FS_EmptySet
  <1>. QED
    BY <1>2, <1>3, <1>4, TableAssumption DEF PermitsOf

LEMMA StepLocks == TypeInv /\ LockInv /\ [Next]_vars => LockInv'
  <1>. SUFFICES ASSUME TypeInv, LockInv, [Next]_vars PROVE LockInv'
    OBVIOUS
  <1>1. CASE \E w \in Worker : Call(w) \/ Lock(w) \/ Visit(w)
    BY <1>1, CallKeepsLocks, LockKeepsLocks, VisitKeepsLocks
  <1>2. CASE Restart
    BY <1>2, RestartKeepsLocks
  <1>3. CASE UNCHANGED vars
    <2>1. sem' = sem /\ job' = job /\ cut' = cut
      BY <1>3 DEF vars, masters
    <2>. QED
      BY <2>1 DEF LockInv, PermitsOf, Inside, Exclusive, Target
  <1>. QED
    BY <1>1, <1>2, <1>3, Steps

(* Where all permits were taken by one worker, nobody else is inside.      *)
LEMMA LocksGiveSolitude == LockInv => WritersAreAlone
  <1>. SUFFICES ASSUME LockInv, ~cut, NEW b \in Block, NEW v \in Inside(b),
                       NEW w \in Inside(b), Exclusive(v)
                PROVE  v = w
    BY DEF WritersAreAlone
  <1>. QED
    BY DEF LockInv, PermitsOf

(* A writer is alone in its block, whatever the number of workers, of      *)
(* blocks and of masters that crashed, unless one of these cleared the     *)
(* semaphore of a block in use (SysVHashTable.cpp:28).                     *)
THEOREM BlocksAreLocked == Spec => []WritersAreAlone
  <1>1. Init => TypeInv /\ LockInv
    BY InitTypes, InitLocks
  <1>2. TypeInv /\ LockInv /\ [Next]_vars => (TypeInv /\ LockInv)'
    BY StepTypes, StepLocks
  <1>3. LockInv => WritersAreAlone
    BY LocksGiveSolitude
  <1>. QED
    BY <1>1, <1>2, <1>3, PTL DEF Spec

-----------------------------------------------------------------------------
(* The table as a map.                                                     *)

\* What ServesAsMap says of a step while commands run one at a time.
MapStep ==
    \/ \E w \in Busy : job'[w].at = "idle" /\ DoesToMap(job[w].cmd, answer'[1], answer'[2])
    \/ Contents' = Contents /\ \A w \in Busy : job'[w].at # "idle"

(* Where no key has two cells there are as many keys as filled cells.      *)
LEMMA CellsAndKeys ==
    ASSUME TypeInv, OneCellPerKey PROVE Cardinality(Filled) = Cardinality(Keys)
  <1>. DEFINE f == [c \in Filled |-> cell[c].key]
  <1>1. IsFiniteSet(Filled)
    <2>1. IsFiniteSet(Cell)
      BY SizePositive, FS_Interval DEF Cell
    <2>. QED
      BY <2>1, FS_Subset DEF Filled
  <1>2. f \in Surjection(Filled, Keys)
    BY DEF Surjection, Keys
  <1>3. f \in Injection(Filled, Keys)
    BY DEF Injection, IsInjective, OneCellPerKey, Keys
  <1>4. /\ IsFiniteSet(Keys)
        /\ Cardinality(Keys) <= Cardinality(Filled)
        /\ Cardinality(Keys) = Cardinality(Filled) <=> f \in Injection(Filled, Keys)
    BY <1>1, <1>2, FS_Surjection
  <1>. QED
    BY <1>3, <1>4

(* A search that has visited every cell has found what there is.           *)
LEMMA SearchIsComplete ==
    ASSUME NEW k \in Key, NEW n, n + 1 = TableSize, n \in Nat,
           \A i \in 0 .. n - 1 : ~Holds(CellAt(k, i), k), ~Holds(CellAt(k, n), k)
    PROVE  k \notin Keys
  <1>1. ASSUME NEW c \in Cell PROVE ~Holds(c, k)
    <2>1. PICK i \in 0 .. TableSize - 1 : CellAt(k, i) = c
      BY SearchReachesAll
    <2>2. i \in 0 .. n - 1 \/ i = n
      BY <2>1
    <2>. QED
      BY <2>1, <2>2
  <1>. QED
    BY <1>1 DEF Keys, Filled, Holds

(* What is said of the cells holds as long as they do not change.          *)
LEMMA CellsStay ==
    ASSUME cell' = cell
    PROVE  /\ Contents' = Contents /\ Keys' = Keys
           /\ OneCellPerKey' <=> OneCellPerKey
           /\ \A c, k : Holds(c, k)' <=> Holds(c, k)
  BY DEF Contents, Keys, Filled, OneCellPerKey, Holds

(* Alone, a worker that goes on is the only one that has to know anything. *)
LEMMA OneWorks ==
    ASSUME TypeInv, MapInv, most = 1, NEW w \in Busy, NEW next, GoOn(w, next),
           OneCellPerKey', next.at # "idle" => Knows(w)'
    PROVE  MapInv' /\ Busy = {w} /\ job'[w] = next
  <1>1. \A v \in Busy : v = w
    BY DEF MapInv
  <1>2. w \in Worker /\ job' = [job EXCEPT ![w] = next]
    BY DEF GoOn, Busy
  <1>3. \A v \in Worker : job'[v] = IF v = w THEN next ELSE job[v]
    BY <1>2 DEF TypeInv
  <1>4. \A v \in Busy' : v = w /\ next.at # "idle"
    BY <1>1, <1>3 DEF Busy
  <1>. QED
    BY <1>1, <1>2, <1>3, <1>4 DEF MapInv

LEMMA FindFilledServes ==
    ASSUME TypeInv, MapInv, most = 1, NEW w \in Worker, FindFilled(w)
    PROVE  MapInv' /\ MapStep
  <1>0. PICK k, n : k = job[w].cmd.key /\ n = job[w].n
    OBVIOUS
  <1>. DEFINE found == [job[w] EXCEPT !.at = "access", !.idx = Target(w), !.held = FALSE]
              again == [job[w] EXCEPT !.at = "free", !.n = 0, !.held = FALSE]
              ahead == n + 1 < TableSize /\ BlockOf(CellAt(k, n + 1)) = BlockOf(Target(w))
              go == [job[w] EXCEPT !.n = n + 1, !.held = ahead]
  <1>1. w \in Busy /\ job[w].at = "filled" /\ job[w] \in Jobs /\ job[w].cmd \in Command
    BY DEF FindFilled, Busy, TypeInv
  <1>2. k \in Key /\ n \in Nat /\ Target(w) = CellAt(k, n)
    BY <1>0, <1>1 DEF Command, Jobs, Target
  <1>3. OneCellPerKey /\ \A i \in 0 .. n - 1 : ~Holds(CellAt(k, i), k)
    BY <1>0, <1>1 DEF MapInv, Knows
  <1>4. cell' = cell
    BY DEF FindFilled, Search
  <1>5. /\ Contents' = Contents /\ Keys' = Keys /\ OneCellPerKey'
        /\ \A c, j : Holds(c, j)' <=> Holds(c, j)
    BY <1>3, <1>4, CellsStay
  <1>o. \/ Holds(Target(w), k) /\ GoOn(w, found)
        \/ ~Holds(Target(w), k) /\ GoOn(w, go)
        \/ /\ ~Holds(Target(w), k) /\ n + 1 = TableSize
           /\ \/ job[w].cmd.op = "set" /\ GoOn(w, again)
              \/ job[w].cmd.op # "set" /\ Return(w, -1, Nil)
    BY <1>0 DEF FindFilled, Search
  <1>6. CASE Holds(Target(w), k) /\ GoOn(w, found)
    <2>1. job'[w] = found /\ found.at = "access" /\ found.idx = Target(w) /\ found.cmd.key = k
      BY <1>0, <1>1, <1>6 DEF GoOn, TypeInv, Jobs, Busy
    <2>2. Knows(w)'
      BY <1>5, <1>6, <2>1 DEF Knows
    <2>3. MapInv' /\ Busy = {w}
      BY <1>1, <1>5, <1>6, <2>2, OneWorks
    <2>. QED
      BY <1>5, <2>1, <2>3 DEF MapStep
  <1>7. CASE ~Holds(Target(w), k) /\ GoOn(w, go)
    <2>1. job'[w] = go /\ go.at = "filled" /\ go.n = n + 1 /\ go.cmd.key = k
      BY <1>0, <1>1, <1>7 DEF GoOn, TypeInv, Jobs, Busy
    <2>2. \A i \in 0 .. n + 1 - 1 : ~Holds(CellAt(k, i), k)
      BY <1>2, <1>3, <1>7
    <2>3. \A j, i : CellAt(j, i)' = CellAt(j, i)
      BY DEF CellAt, hash
    <2>4. \A i \in 0 .. n + 1 - 1 : ~Holds(CellAt(k, i), k)'
      BY <1>5, <2>2, <2>3
    <2>5. job'[w].at = "filled" /\ job'[w].n = n + 1 /\ job'[w].cmd.key = k
      BY <2>1
    <2>6. Knows(w)'
      BY <1>2, <2>3, <2>4, <2>5 DEF Knows
    <2>7. MapInv' /\ Busy = {w}
      BY <1>1, <1>5, <1>7, <2>6, OneWorks
    <2>. QED
      BY <1>5, <2>1, <2>7 DEF MapStep
  <1>8. CASE ~Holds(Target(w), k) /\ n + 1 = TableSize
    <2>1. k \notin Keys
      BY <1>2, <1>3, <1>8, SearchIsComplete
    <2>2. CASE job[w].cmd.op = "set" /\ GoOn(w, again)
      <3>1. job'[w] = again /\ again.at = "free" /\ again.n = 0 /\ again.cmd = job[w].cmd
        BY <1>1, <2>2 DEF GoOn, TypeInv, Jobs, Busy
      <3>2. Knows(w)'
        BY <1>0, <1>5, <2>1, <2>2, <3>1 DEF Knows
      <3>3. MapInv' /\ Busy = {w}
        BY <1>1, <1>5, <2>2, <3>2, OneWorks
      <3>. QED
        BY <1>5, <3>1, <3>3 DEF MapStep
    <2>3. CASE job[w].cmd.op # "set" /\ Return(w, -1, Nil)
      <3>1. GoOn(w, Idle) /\ Idle.at = "idle" /\ answer'[1] = -1
        BY <2>3, IdleIsJob DEF Return
      <3>2. MapInv' /\ Busy = {w} /\ job'[w] = Idle
        BY <1>1, <1>5, <3>1, OneWorks
      <3>3. Without(k) = Contents
        BY <2>1 DEF Without, Contents, Keys
      <3>4. job[w].cmd.op = "get" \/ job[w].cmd.op = "del"
        BY <1>1, <2>3 DEF Command
      <3>5. DoesToMap(job[w].cmd, answer'[1], answer'[2])
        <4>1. CASE job[w].cmd.op = "get"
          BY <1>0, <1>5, <2>1, <3>1, <3>3, <4>1 DEF DoesToMap
        <4>2. CASE job[w].cmd.op = "del"
          BY <1>0, <1>5, <2>1, <3>1, <3>3, <4>2 DEF DoesToMap
        <4>. QED
          BY <3>4, <4>1, <4>2
      <3>. QED
        BY <3>1, <3>2, <3>5 DEF MapStep
    <2>. QED
      BY <1>8, <1>o, <2>2, <2>3, <1>6, <1>7
  <1>. QED
    BY <1>o, <1>6, <1>7, <1>8

LEMMA FindFreeServes ==
    ASSUME TypeInv, MapInv, most = 1, NEW w \in Worker, FindFree(w)
    PROVE  MapInv' /\ MapStep
  <1>0. PICK k, n : k = job[w].cmd.key /\ n = job[w].n
    OBVIOUS
  <1>. DEFINE found == [job[w] EXCEPT !.at = "access", !.idx = Target(w), !.held = FALSE]
              ahead == n + 1 < TableSize /\ BlockOf(CellAt(k, n + 1)) = BlockOf(Target(w))
              go == [job[w] EXCEPT !.n = n + 1, !.held = ahead]
              free == cell[Target(w)].state = CL_FREE
  <1>1. w \in Busy /\ job[w].at = "free" /\ job[w] \in Jobs /\ job[w].cmd \in Command
    BY DEF FindFree, Busy, TypeInv
  <1>2. k \in Key /\ n \in Nat /\ Target(w) = CellAt(k, n)
    BY <1>0, <1>1 DEF Command, Jobs, Target
  <1>3. /\ OneCellPerKey /\ k \notin Keys /\ job[w].cmd.op = "set"
        /\ \A i \in 0 .. n - 1 : cell[CellAt(k, i)].state # CL_FREE
    BY <1>0, <1>1 DEF MapInv, Knows
  <1>4. cell' = cell
    BY DEF FindFree, Search
  <1>5. Contents' = Contents /\ Keys' = Keys /\ OneCellPerKey'
    BY <1>3, <1>4, CellsStay
  <1>6. \/ free /\ GoOn(w, found)
        \/ ~free /\ GoOn(w, go)
        \/ ~free /\ n + 1 = TableSize /\ Return(w, -1, Nil)
    BY <1>0 DEF FindFree, Search
  <1>7. CASE free /\ GoOn(w, found)
    <2>1. /\ job'[w] = found /\ found.at = "access" /\ found.idx = Target(w)
          /\ found.cmd.key = k /\ found.cmd.op = "set"
      BY <1>0, <1>1, <1>3, <1>7 DEF GoOn, TypeInv, Jobs, Busy
    <2>2. cell'[Target(w)].state = CL_FREE
      BY <1>4, <1>7
    <2>3. Knows(w)'
      BY <1>3, <1>5, <2>1, <2>2 DEF Knows
    <2>4. MapInv' /\ Busy = {w}
      BY <1>1, <1>5, <1>7, <2>3, OneWorks
    <2>. QED
      BY <1>5, <2>1, <2>4 DEF MapStep
  <1>8. CASE ~free /\ GoOn(w, go)
    <2>1. job'[w] = go /\ go.at = "free" /\ go.n = n + 1 /\ go.cmd = job[w].cmd
      BY <1>1, <1>8 DEF GoOn, TypeInv, Jobs, Busy
    <2>2. \A i \in 0 .. n + 1 - 1 : cell'[CellAt(k, i)].state # CL_FREE
      BY <1>2, <1>3, <1>4, <1>8
    <2>3. \A j, i : CellAt(j, i)' = CellAt(j, i)
      BY DEF CellAt, hash
    <2>4. /\ job'[w].at = "free" /\ job'[w].n = n + 1 /\ job'[w].cmd.key = k
          /\ job'[w].cmd.op = "set"
      BY <1>0, <1>3, <2>1
    <2>5. Knows(w)'
      BY <1>2, <1>3, <1>5, <2>2, <2>3, <2>4 DEF Knows
    <2>6. MapInv' /\ Busy = {w}
      BY <1>1, <1>5, <1>8, <2>5, OneWorks
    <2>. QED
      BY <1>5, <2>1, <2>6 DEF MapStep
  <1>9. CASE ~free /\ n + 1 = TableSize /\ Return(w, -1, Nil)
    <2>1. GoOn(w, Idle) /\ Idle.at = "idle" /\ answer'[1] = -1
      BY <1>9, IdleIsJob DEF Return
    <2>2. MapInv' /\ Busy = {w} /\ job'[w] = Idle
      BY <1>1, <1>5, <2>1, OneWorks
    <2>3. ASSUME NEW c \in Cell PROVE cell[c].state # CL_FREE
      <3>1. PICK i \in 0 .. TableSize - 1 : CellAt(k, i) = c
        BY <1>2, SearchReachesAll
      <3>2. i \in 0 .. n - 1 \/ i = n
        BY <1>2, <1>9, <3>1
      <3>. QED
        BY <1>2, <1>3, <1>9, <3>1, <3>2
    <2>4. DoesToMap(job[w].cmd, answer'[1], answer'[2])
      BY <1>0, <1>3, <1>5, <2>1, <2>3 DEF DoesToMap
    <2>. QED
      BY <2>1, <2>2, <2>4 DEF MapStep
  <1>. QED
    BY <1>6, <1>7, <1>8, <1>9

LEMMA GetServes ==
    ASSUME TypeInv, MapInv, most = 1, NEW w \in Worker, get(w)
    PROVE  MapInv' /\ MapStep
  <1>0. PICK k, x : k = job[w].cmd.key /\ x = job[w].idx
    OBVIOUS
  <1>1. /\ w \in Busy /\ job[w].at = "access" /\ job[w].cmd.op = "get" /\ x \in Cell
        /\ cell' = cell
    BY <1>0 DEF get, Accesses, Busy, TypeInv, Jobs
  <1>2. OneCellPerKey /\ Holds(x, k)
    BY <1>0, <1>1 DEF MapInv, Knows
  <1>3. Contents' = Contents /\ OneCellPerKey'
    BY <1>1, <1>2, CellsStay
  <1>4. GoOn(w, Idle) /\ Idle.at = "idle" /\ answer' = <<0, cell[x].value>>
    BY <1>0, IdleIsJob DEF get, Return
  <1>5. MapInv' /\ Busy = {w} /\ job'[w] = Idle
    BY <1>1, <1>3, <1>4, OneWorks
  <1>6. <<k, cell[x].value>> \in Contents
    BY <1>1, <1>2 DEF Contents, Filled, Holds
  <1>7. DoesToMap(job[w].cmd, answer'[1], answer'[2])
    BY <1>0, <1>1, <1>3, <1>4, <1>6 DEF DoesToMap
  <1>. QED
    BY <1>4, <1>5, <1>7 DEF MapStep

LEMMA SetServes ==
    ASSUME TypeInv, MapInv, most = 1, NEW w \in Worker, set(w)
    PROVE  MapInv' /\ MapStep
  <1>0. PICK k, v, x : k = job[w].cmd.key /\ v = job[w].cmd.value /\ x = job[w].idx
    OBVIOUS
  <1>. DEFINE r == [state |-> CL_FILLED, key |-> k, value |-> v]
  <1>1. /\ w \in Busy /\ job[w].at = "access" /\ job[w].cmd.op = "set" /\ x \in Cell
        /\ cell' = [cell EXCEPT ![x] = r]
    BY <1>0 DEF set, Accesses, Busy, TypeInv, Jobs
  <1>2. OneCellPerKey /\ (Holds(x, k) \/ (k \notin Keys /\ cell[x].state = CL_FREE))
    BY <1>0, <1>1 DEF MapInv, Knows
  <1>3. \A c \in Cell : cell'[c] = IF c = x THEN r ELSE cell[c]
    BY <1>1 DEF TypeInv
  <1>4. Filled' = Filled \cup {x}
    BY <1>1, <1>3 DEF Filled
  <1>5. \A c \in Filled : c # x => cell[c].key # k
    BY <1>1, <1>2 DEF OneCellPerKey, Holds, Keys, Filled
  <1>6. OneCellPerKey'
    <2>1. \A c \in Filled' : c \in Cell
      BY DEF Filled
    <2>2. \A c, d \in Filled' : cell'[c].key = cell'[d].key => c = d
      BY <1>2, <1>3, <1>4, <1>5, <2>1 DEF OneCellPerKey
    <2>. QED
      BY <2>2 DEF OneCellPerKey
  <1>7. Contents' = Without(k) \cup {<<k, v>>}
    <2>1. Filled \subseteq Cell
      BY DEF Filled
    <2>2. \A c \in Filled \ {x} : cell'[c] = cell[c]
      BY <1>3, <2>1
    <2>3. cell'[x].key = k /\ cell'[x].value = v
      BY <1>1, <1>3
    <2>4. Contents' = {<<cell[c].key, cell[c].value>> : c \in Filled \ {x}} \cup {<<k, v>>}
      BY <1>4, <2>2, <2>3 DEF Contents
    <2>5. Without(k) = {<<cell[c].key, cell[c].value>> : c \in Filled \ {x}}
      <3>1. x \in Filled => cell[x].key = k
        BY <1>2 DEF Holds, Filled, CL_FREE, CL_FILLED
      <3>. QED
        BY <1>5, <3>1 DEF Without, Contents
    <2>. QED
      BY <2>4, <2>5
  <1>8. GoOn(w, Idle) /\ Idle.at = "idle" /\ answer' = <<0, Nil>>
    BY IdleIsJob DEF set, Return
  <1>9. MapInv' /\ Busy = {w} /\ job'[w] = Idle
    BY <1>1, <1>6, <1>8, OneWorks
  <1>10. DoesToMap(job[w].cmd, answer'[1], answer'[2])
    BY <1>0, <1>1, <1>7, <1>8 DEF DoesToMap
  <1>. QED
    BY <1>8, <1>9, <1>10 DEF MapStep

LEMMA DelServes ==
    ASSUME TypeInv, MapInv, most = 1, NEW w \in Worker, del(w)
    PROVE  MapInv' /\ MapStep
  <1>0. PICK k, x : k = job[w].cmd.key /\ x = job[w].idx
    OBVIOUS
  <1>1. /\ w \in Busy /\ job[w].at = "access" /\ job[w].cmd.op = "del" /\ x \in Cell
        /\ cell' = [cell EXCEPT ![x].state = CL_RIP]
    BY <1>0 DEF del, Accesses, Busy, TypeInv, Jobs
  <1>2. OneCellPerKey /\ Holds(x, k)
    BY <1>0, <1>1 DEF MapInv, Knows
  <1>3. \A c \in Cell : /\ c # x => cell'[c] = cell[c]
                        /\ c = x => cell'[c].state = CL_RIP
    BY <1>1 DEF TypeInv, Cells
  <1>4. Filled' = Filled \ {x} /\ x \in Filled
    BY <1>1, <1>2, <1>3 DEF Filled, Holds, CL_FILLED, CL_RIP
  <1>5. \A c \in Filled : c # x => cell[c].key # k
    BY <1>1, <1>2, <1>4 DEF OneCellPerKey, Holds
  <1>6. OneCellPerKey'
    <2>1. Filled \subseteq Cell
      BY DEF Filled
    <2>2. \A c, d \in Filled' : cell'[c].key = cell'[d].key => c = d
      BY <1>2, <1>3, <1>4, <2>1 DEF OneCellPerKey
    <2>. QED
      BY <2>2 DEF OneCellPerKey
  <1>7. Contents' = Without(k) /\ k \in Keys
    <2>1. \A c \in Filled \ {x} : cell'[c] = cell[c]
      BY <1>3 DEF Filled
    <2>2. Contents' = {<<cell[c].key, cell[c].value>> : c \in Filled \ {x}}
      BY <1>4, <2>1 DEF Contents
    <2>3. cell[x].key = k
      BY <1>2 DEF Holds
    <2>4. Without(k) = {<<cell[c].key, cell[c].value>> : c \in Filled \ {x}}
      BY <1>5, <2>3 DEF Without, Contents
    <2>. QED
      BY <1>4, <2>2, <2>3, <2>4 DEF Keys
  <1>8. GoOn(w, Idle) /\ Idle.at = "idle" /\ answer' = <<0, Nil>>
    BY IdleIsJob DEF del, Return
  <1>9. MapInv' /\ Busy = {w} /\ job'[w] = Idle
    BY <1>1, <1>6, <1>8, OneWorks
  <1>10. DoesToMap(job[w].cmd, answer'[1], answer'[2])
    BY <1>0, <1>1, <1>7, <1>8 DEF DoesToMap
  <1>. QED
    BY <1>8, <1>9, <1>10 DEF MapStep

LEMMA LockServes ==
    ASSUME TypeInv, MapInv, most = 1, NEW w \in Worker, Lock(w)
    PROVE  MapInv' /\ MapStep
  <1>1. w \in Busy /\ cell' = cell /\ job' = [job EXCEPT ![w].held = TRUE]
    BY DEF Lock
  <1>2. OneCellPerKey /\ Knows(w) /\ \A v \in Busy : v = w
    BY <1>1 DEF MapInv
  <1>3. Contents' = Contents /\ OneCellPerKey' /\ Keys' = Keys
    BY <1>1, <1>2, CellsStay
  <1>4. /\ \A v \in Worker : v # w => job'[v] = job[v]
        /\ job'[w].at = job[w].at /\ job'[w].n = job[w].n
        /\ job'[w].cmd = job[w].cmd /\ job'[w].idx = job[w].idx
    BY <1>1 DEF TypeInv, Jobs, Busy
  <1>5. Busy' = Busy
    BY <1>4 DEF Busy
  <1>6. Knows(w)'
    BY <1>1, <1>2, <1>3, <1>4 DEF Knows, Holds, CellAt, hash
  <1>7. MapInv'
    BY <1>2, <1>3, <1>5, <1>6 DEF MapInv
  <1>8. \A v \in Busy : job'[v].at # "idle"
    BY <1>1, <1>2, <1>4 DEF Busy
  <1>. QED
    BY <1>3, <1>7, <1>8 DEF MapStep

LEMMA CallServes ==
    ASSUME TypeInv, MapInv, most = 1, NEW w \in Worker, Call(w)
    PROVE  MapInv' /\ MapStep
  <1>1. PICK c \in Command :
            job' = [job EXCEPT ![w] = [Idle EXCEPT !.at = "filled", !.cmd = c]]
    BY DEF Call
  <1>2. Cardinality(Busy) \in Nat
    BY FS_CardinalityType DEF TypeInv
  <1>3. Cardinality(Busy) = 0
    BY <1>2 DEF Call
  <1>4. Busy = {}
    BY <1>3, FS_EmptySet DEF TypeInv
  <1>5. cell' = cell /\ OneCellPerKey
    BY DEF Call, MapInv
  <1>6. Contents' = Contents /\ OneCellPerKey'
    BY <1>5, CellsStay
  <1>7. \A v \in Worker : v # w => job'[v].at = "idle"
    BY <1>1, <1>4 DEF Busy, TypeInv
  <1>8. Busy' \subseteq {w}
    BY <1>7 DEF Busy
  <1>9. job'[w].at = "filled" /\ job'[w].n = 0
    BY <1>1 DEF TypeInv, Idle
  <1>10. Knows(w)'
    BY <1>9 DEF Knows
  <1>11. MapInv'
    BY <1>6, <1>8, <1>10 DEF MapInv
  <1>. QED
    BY <1>4, <1>6, <1>11 DEF MapStep

(* A master that starts when nobody works starts with an empty table; one  *)
(* that starts under the commands of the last expects more than one.       *)
LEMMA RestartServes == ASSUME TypeInv, Restart PROVE MapInv' /\ master' # master
  <1>1. master' # master
    BY DEF Restart, TypeInv
  <1>2. Cardinality(Busy) \in Nat /\ Busy' = Busy
    BY FS_CardinalityType DEF TypeInv, Restart, Busy
  <1>3. ASSUME most' = 1 PROVE Busy' = {}
    <2>1. Cardinality(Busy) = 0
      BY <1>2, <1>3 DEF Restart
    <2>. QED
      BY <1>2, <2>1, FS_EmptySet DEF TypeInv
  <1>4. Filled' = {}
    BY DEF Restart, Cleared, Filled, CL_FREE, CL_FILLED
  <1>5. OneCellPerKey'
    BY <1>4 DEF OneCellPerKey
  <1>. QED
    BY <1>1, <1>3, <1>5 DEF MapInv

LEMMA InitMap == Init => MapInv
  <1>. SUFFICES ASSUME Init PROVE MapInv
    OBVIOUS
  <1>1. Filled = {}
    BY DEF Init, Cleared, Filled, CL_FREE, CL_FILLED
  <1>2. Busy = {}
    BY DEF Init, Busy, Idle
  <1>. QED
    BY <1>1, <1>2 DEF MapInv, OneCellPerKey

LEMMA StepMap ==
    ASSUME TypeInv, MapInv, [Next]_vars
    PROVE  MapInv' /\ (most = 1 /\ master' = master => MapStep \/ UNCHANGED vars)
  <1>1. CASE Restart
    BY <1>1, RestartServes
  <1>2. CASE UNCHANGED vars
    <2>1. cell' = cell /\ job' = job /\ most' = most
      BY <1>2 DEF vars, masters
    <2>2. Busy' = Busy /\ (OneCellPerKey' <=> OneCellPerKey) /\ Keys' = Keys
      BY <2>1, CellsStay DEF Busy
    <2>3. \A w : Knows(w)' <=> Knows(w)
      BY <2>1, <2>2 DEF Knows, Holds, CellAt, hash
    <2>4. MapInv'
      BY <2>1, <2>2, <2>3 DEF MapInv
    <2>. QED
      BY <1>2, <2>4
  <1>3. CASE \E w \in Worker : Call(w) \/ Lock(w) \/ Visit(w)
    <2>1. PICK w \in Worker : Call(w) \/ Lock(w) \/ Visit(w)
      BY <1>3
    <2>2. CASE most = 1
      BY <2>1, <2>2, CallServes, LockServes, FindFilledServes, FindFreeServes,
         GetServes, SetServes, DelServes DEF Visit
    <2>3. CASE most # 1
      <3>1. ASSUME NEW next, GoOn(w, next) PROVE most' = most
        BY <3>1 DEF GoOn, masters
      <3>2. Visit(w) => \E next : GoOn(w, next)
        BY VisitFollows
      <3>3. most' = most
        BY <2>1, <3>1, <3>2 DEF Call, Lock, masters
      <3>. QED
        BY <2>3, <3>3 DEF MapInv
    <2>. QED
      BY <2>2, <2>3
  <1>. QED
    BY <1>1, <1>2, <1>3, Steps

(* As long as commands run one at a time the table is a map, whatever the  *)
(* hash of the keys and the size of the table: a key has one cell, each    *)
(* command does what its name says in its last step and nothing before,    *)
(* and a set fails only when every cell has been used                      *)
(* (HashTableBase.cpp:190, 197).                                           *)
THEOREM TableServesAsMap == Spec => ServesAsMap
  <1>1. Init => TypeInv /\ MapInv
    BY InitTypes, InitMap
  <1>2. TypeInv /\ MapInv /\ [Next]_vars => (TypeInv /\ MapInv)'
    BY StepTypes, StepMap
  <1>3. TypeInv /\ MapInv /\ [Next]_vars =>
           [most = 1 /\ master' = master =>
              /\ Cardinality(Filled) = Cardinality(Keys)
              /\ \/ \E w \in Busy : job'[w].at = "idle" /\ DoesToMap(job[w].cmd, answer'[1], answer'[2])
                 \/ Contents' = Contents /\ \A w \in Busy : job'[w].at # "idle"]_vars
    <2>. SUFFICES ASSUME TypeInv, MapInv, [Next]_vars, most = 1, master' = master,
                         ~UNCHANGED vars
                  PROVE  Cardinality(Filled) = Cardinality(Keys) /\ MapStep
      BY DEF MapStep
    <2>1. MapStep
      BY StepMap
    <2>2. OneCellPerKey
      BY DEF MapInv
    <2>. QED
      BY <2>1, <2>2, CellsAndKeys
  <1>. QED
    BY <1>1, <1>2, <1>3, PTL DEF Spec, ServesAsMap

=============================================================================
