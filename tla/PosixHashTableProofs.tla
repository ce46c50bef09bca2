------------------------ MODULE PosixHashTableProofs ------------------------
(***************************************************************************)
(* Proofs about the table of Emrakul DB v2.0, for any number of workers,   *)
(* keys, segments and cells.                                               *)
(*                                                                         *)
(* The first part is about any number of writers: types, locks, cells that *)
(* are never freed, "table degraded".  The second is about what clients    *)
(* see.  With one writing process the table implements the map of          *)
(* ExpiringMap.  With any number, a miss is true; with one, every answer   *)
(* is, and a record lives as long as was promised.  With any number again, *)
(* a key has two cells only if two sets of it have met, and the key of a   *)
(* used cell is only rewritten by a set that was under way before it was   *)
(* written.                                                                *)
(***************************************************************************)
EXTENDS PosixHashTableHistory, PosixHashTableRivals, PosixHashTableRefinement,
        TLAPS

-----------------------------------------------------------------------------
(* Arithmetic of cells and segments.                                       *)

(* The table has at least one cell.                                        *)
LEMMA TableSizePositive == TableSize \in Nat /\ TableSize > 0
  BY SizeAssumption DEF TableSize

(* Every cell lies in a segment that exists: h / HASHTABLE_SEGMENT_SIZE is *)
(* always a valid index of the array of semaphores.                        *)
LEMMA SegmentExists == \A c \in Cell : SegmentOf(c) \in Segment
  <1>. SUFFICES ASSUME NEW c \in Cell PROVE SegmentOf(c) \in Segment
    OBVIOUS
  <1>. DEFINE N == HASHTABLE_SEGMENTS_COUNT
              S == HASHTABLE_SEGMENT_SIZE
              q == c \div S
  <1>1. N \in Nat /\ S \in Nat /\ S > 0 /\ N > 0
    BY SizeAssumption
  <1>2. c \in Int /\ 0 <= c /\ c < N * S
    BY <1>1, TableSizePositive DEF Cell, TableSize
  <1>3. q \in Int /\ q * S <= c /\ c < q * S + S
    BY <1>1, <1>2
  <1>4. 0 <= q
    BY <1>1, <1>2
  <1>5. q < N
    <2>1. SUFFICES ASSUME q >= N PROVE FALSE
      BY <1>1, <1>3
    <2>2. q * S >= N * S
      BY <2>1, <1>1, <1>3
    <2>. QED
      BY <2>2, <1>1, <1>2, <1>3
  <1>. QED
    BY <1>1, <1>3, <1>4, <1>5 DEF SegmentOf, Segment

(* A search only visits cells of the table ...                             *)
LEMMA ProbeInTable ==
    \A h \in Cell, n \in 0 .. TableSize - 1 : Probe(h, n) \in Cell
  BY TableSizePositive DEF Cell, Probe

(* ... and visits all of them in TableSize steps.                          *)
LEMMA ProbeReachesAll ==
    \A h, c \in Cell : \E n \in 0 .. TableSize - 1 : Probe(h, n) = c
  <1>. SUFFICES ASSUME NEW h \in Cell, NEW c \in Cell
                PROVE  \E n \in 0 .. TableSize - 1 : Probe(h, n) = c
    OBVIOUS
  <1>. DEFINE n == IF c >= h THEN c - h ELSE c - h + TableSize
  <1>1. n \in 0 .. TableSize - 1
    BY TableSizePositive DEF Cell
  <1>2. Probe(h, n) = c
    BY TableSizePositive DEF Cell, Probe
  <1>. QED
    BY <1>1, <1>2

-----------------------------------------------------------------------------
(* Types.                                                                  *)

(* TypeOK is not inductive alone: the home cell of a search exists only    *)
(* because a process that is not idle has a command with a real key.       *)
TypeInv ==
    /\ TypeOK
    /\ \A w \in Worker : pc[w] # "idle" => cmd[w].key \in Key
    /\ \A w \in Worker : pc[w] \notin {"gc", "gc_wait"}
    /\ pc[Cleaner] \in {"idle", "gc_wait", "gc"}

LEMMA LifetimeIsNat == TTL \subseteq Nat
  BY TimeAssumption

LEMMA HomeExists ==
    ASSUME TypeInv, NEW p \in Process, pc[p] # "idle"
    PROVE  Home(p) \in Cell
  <1>1. CASE p = Cleaner
    BY <1>1, TableSizePositive DEF Home, Cell
  <1>2. CASE p \in Worker /\ p # Cleaner
    BY <1>2, SizeAssumption DEF TypeInv, Home
  <1>. QED
    BY <1>1, <1>2 DEF Process

LEMMA CellAtExists ==
    ASSUME TypeInv, NEW p \in Process, pc[p] # "idle"
    PROVE  CellAt(p) \in Cell
  BY HomeExists, ProbeInTable DEF TypeInv, TypeOK, CellAt

LEMMA CommandTypes ==
    \A w \in Worker : \A c \in Commands(w) :
        /\ c \in [op : {"none", "get", "set", "del"}, key : Key \cup {Nil},
                  value : Value \cup {Nil}, ttl : Nat]
        /\ c.key \in Key
  <1>. SUFFICES ASSUME NEW w \in Worker, NEW c \in Commands(w)
                PROVE  /\ c \in [op : {"none", "get", "set", "del"},
                                 key : Key \cup {Nil},
                                 value : Value \cup {Nil}, ttl : Nat]
                       /\ c.key \in Key
    OBVIOUS
  <1>1. CASE c \in [op : {"get"}, key : Key, value : {Nil}, ttl : {0}]
    BY <1>1
  <1>2. CASE c \in [op : {"del"}, key : Key, value : {Nil}, ttl : {0}]
    BY <1>2
  <1>3. CASE c \in [op : {"set"}, key : Key, value : Value, ttl : TTL]
    BY <1>3, LifetimeIsNat
  <1>. QED
    BY <1>1, <1>2, <1>3 DEF Commands

(* What a process may still disturb while it moves on or returns.          *)
CellTypes ==
    /\ flag \in [Cell -> {CL_FREE, CL_FILLED, CL_RIP}]
    /\ key \in [Cell -> Key \cup {Nil}] /\ value \in [Cell -> Value \cup {Nil}]
    /\ death \in [Cell -> Int]
    /\ now \in Nat /\ wake \in Nat
    /\ out \in [Worker -> Value \cup {Nil}]

LEMMA ReturnKeepsTypes ==
    ASSUME TypeInv, NEW w \in Worker, CellTypes',
           \/ Return(w, "ok") \/ Return(w, "miss") \/ Return(w, "full")
    PROVE  TypeInv'
  <1>1. 0 \in Cell /\ 0 \in Segment /\ 0 \in 0 .. TableSize - 1
    BY TableSizePositive, SizeAssumption DEF Cell, Segment
  <1>2. w \in Process /\ w # Cleaner /\ Cleaner \in Process
    BY ProcessAssumption DEF Process
  <1>3. PICK o \in {"ok", "miss", "full"} : Return(w, o)
    OBVIOUS
  <1>4. sem' \in [Segment -> Nat]
    BY <1>2, <1>3 DEF Return, SemPost, TypeInv, TypeOK
  <1>5. cmd' \in [Worker -> [op : {"none", "get", "set", "del"},
                            key : Key \cup {Nil}, value : Value \cup {Nil},
                            ttl : Nat]]
    BY <1>3 DEF Return, NoCommand, TypeInv, TypeOK
  <1>6. /\ off' \in [Process -> 0 .. TableSize - 1]
        /\ blk' \in [Process -> Segment]
        /\ idx' \in [Worker -> Cell]
    BY <1>1, <1>3 DEF Return, TypeInv, TypeOK
  <1>7. /\ pc' \in [Process -> {"idle"} \cup Waiting \cup Inside]
        /\ ret' \in [Worker -> {"none", "ok", "miss", "full"}]
    BY <1>3 DEF Return, Goto, TypeInv, TypeOK
  <1>8. TypeOK'
    BY <1>4, <1>5, <1>6, <1>7 DEF CellTypes, TypeOK
  <1>. QED
    BY <1>2, <1>3, <1>8 DEF Return, Goto, TypeInv, TypeOK

LEMMA NextCellKeepsTypes ==
    ASSUME TypeInv, NEW p \in Process, pc[p] # "idle", ~LastCell(p),
           NEW l \in Waiting, NextCell(p, l)
    PROVE  /\ sem' \in [Segment -> Nat]
           /\ off' \in [Process -> 0 .. TableSize - 1]
           /\ blk' \in [Process -> Segment]
           /\ pc' = pc \/ pc' = [pc EXCEPT ![p] = l]
  <1>. DEFINE s == SegmentOf(Probe(Home(p), off[p] + 1))
  <1>1. off[p] + 1 \in 0 .. TableSize - 1
    BY TableSizePositive DEF LastCell, TypeInv, TypeOK
  <1>2. s \in Segment
    BY <1>1, HomeExists, ProbeInTable, SegmentExists
  <1>3. off' = [off EXCEPT ![p] = off[p] + 1]
    BY DEF NextCell
  <1>4. off' \in [Process -> 0 .. TableSize - 1]
    BY <1>1, <1>3 DEF TypeInv, TypeOK
  <1>5. CASE s = blk[p]
    BY <1>4, <1>5 DEF NextCell, TypeInv, TypeOK
  <1>6. CASE s # blk[p]
    <2>1. /\ sem' = [sem EXCEPT ![blk[p]] = @ + 1]
          /\ blk' = [blk EXCEPT ![p] = s]
          /\ pc' = [pc EXCEPT ![p] = l]
      BY <1>6 DEF NextCell, SemPost, Goto
    <2>. QED
      BY <1>2, <1>4, <2>1 DEF TypeInv, TypeOK
  <1>. QED
    BY <1>5, <1>6

LEMMA HitKeepsTypes ==
    ASSUME TypeInv, NEW w \in Worker, pc[w] # "idle", Hit(w), CellTypes'
    PROVE  TypeInv'
  <1>1. w \in Process /\ w # Cleaner
    BY ProcessAssumption DEF Process
  <1>2. CellAt(w) \in Cell /\ SegmentOf(CellAt(w)) \in Segment
    BY <1>1, CellAtExists, SegmentExists
  <1>3. /\ sem' \in [Segment -> Nat]
        /\ idx' \in [Worker -> Cell]
        /\ blk' \in [Process -> Segment]
    BY <1>1, <1>2 DEF Hit, SemPost, TypeInv, TypeOK
  <1>4. pc' \in [Process -> {"idle"} \cup Waiting \cup Inside]
    BY DEF Hit, Goto, TypeInv, TypeOK, Waiting
  <1>5. TypeOK'
    BY <1>3, <1>4 DEF Hit, CellTypes, TypeInv, TypeOK
  <1>. QED
    BY <1>1, <1>5 DEF Hit, Goto, TypeInv, TypeOK

LEMMA TypeInit == Init => TypeInv
  <1>. SUFFICES ASSUME Init PROVE TypeInv
    OBVIOUS
  <1>. USE TableSizePositive, SizeAssumption, TimeAssumption
  <1>1. 0 \in Cell /\ 0 \in Segment /\ 0 \in 0 .. TableSize - 1
    BY DEF Cell, Segment
  <1>2. TypeOK
    BY <1>1 DEF Init, TypeOK, NoCommand, CL_FREE, CL_FILLED, CL_RIP, Process
  <1>. QED
    BY <1>2, ProcessAssumption DEF Init, TypeInv, Process

LEMMA TypeStep == TypeInv /\ [Next]_vars => TypeInv'
  <1>. SUFFICES ASSUME TypeInv, [Next]_vars PROVE TypeInv'
    OBVIOUS
  <1>. USE DEF CL_FREE, CL_FILLED, CL_RIP
  <1>1. CASE UNCHANGED vars
    BY <1>1 DEF vars, cells, clocks, locals, TypeInv, TypeOK
  <1>2. ASSUME NEW w \in Worker, Call(w) PROVE TypeInv'
    <2>1. PICK c \in Commands(w) :
             /\ cmd' = [cmd EXCEPT ![w] = c]
             /\ SearchFrom(w, Hash[c.key], "filled_wait")
      BY <1>2 DEF Call
    <2>2. c.key \in Key /\ SegmentOf(Hash[c.key]) \in Segment
      BY CommandTypes, SegmentExists, SizeAssumption
    <2>3. TypeOK'
      BY <1>2, <2>1, <2>2, CommandTypes, TableSizePositive
      DEF Call, SearchFrom, Goto, TypeInv, TypeOK, Process, cells, clocks, Waiting
    <2>. QED
      BY <1>2, <2>1, <2>2, <2>3, ProcessAssumption
      DEF Call, SearchFrom, Goto, TypeInv, TypeOK, Process
  <1>3. ASSUME NEW p \in Process, Lock(p) PROVE TypeInv'
    <2>1. TypeOK'
      BY <1>3 DEF Lock, Goto, TypeInv, TypeOK, cells, clocks, locals, Waiting,
                  Inside
    <2>. QED
      BY <1>3, <2>1, ProcessAssumption
      DEF Lock, Goto, TypeInv, TypeOK, cells, locals, Waiting, Process
  <1>4. ASSUME NEW w \in Worker, FindFilled(w) PROVE TypeInv'
    <2>1. pc[w] = "filled" /\ w \in Process /\ w # Cleaner
      BY <1>4, ProcessAssumption DEF FindFilled, Process
    <2>2. CellTypes'
      BY <1>4 DEF FindFilled, CellTypes, TypeInv, TypeOK, cells, clocks
    <2>3. CASE Hit(w)
      BY <2>1, <2>2, <2>3, HitKeepsTypes
    <2>4. CASE ~LastCell(w) /\ NextCell(w, "filled_wait") /\ UNCHANGED <<cmd, idx, ret>>
      <3>1. "filled_wait" \in Waiting
        BY DEF Waiting
      <3>2. /\ sem' \in [Segment -> Nat]
            /\ off' \in [Process -> 0 .. TableSize - 1]
            /\ blk' \in [Process -> Segment]
            /\ pc' = pc \/ pc' = [pc EXCEPT ![w] = "filled_wait"]
        BY <2>1, <2>4, <3>1, NextCellKeepsTypes
      <3>3. pc' \in [Process -> {"idle"} \cup Waiting \cup Inside]
        BY <3>1, <3>2 DEF TypeInv, TypeOK
      <3>4. TypeOK'
        BY <2>2, <2>4, <3>2, <3>3 DEF CellTypes, TypeInv, TypeOK
      <3>5. /\ \A u \in Worker : /\ pc'[u] # "idle" => pc[u] # "idle"
                                 /\ pc'[u] \notin {"gc", "gc_wait"}
            /\ pc'[Cleaner] = pc[Cleaner]
        BY <2>1, <3>2 DEF TypeInv, TypeOK, Process
      <3>. QED
        BY <2>4, <3>4, <3>5 DEF TypeInv
    <2>5. CASE /\ SemPost(blk[w])
               /\ SearchFrom(w, Home(w), "free_wait")
               /\ UNCHANGED <<cmd, idx, ret>>
      <3>1. SegmentOf(Home(w)) \in Segment /\ 0 \in 0 .. TableSize - 1
        BY <2>1, HomeExists, SegmentExists, TableSizePositive
      <3>2. sem' \in [Segment -> Nat]
        BY <2>1, <2>5 DEF SemPost, TypeInv, TypeOK
      <3>3. /\ off' \in [Process -> 0 .. TableSize - 1]
            /\ blk' \in [Process -> Segment]
        BY <2>5, <3>1 DEF SearchFrom, TypeInv, TypeOK
      <3>4. pc' \in [Process -> {"idle"} \cup Waiting \cup Inside]
        BY <2>5 DEF SearchFrom, Goto, TypeInv, TypeOK, Waiting
      <3>5. TypeOK'
        BY <2>2, <2>5, <3>2, <3>3, <3>4 DEF CellTypes, TypeInv, TypeOK
      <3>. QED
        BY <2>1, <2>5, <3>5 DEF SearchFrom, Goto, TypeInv, TypeOK
    <2>6. CASE Return(w, "miss")
      BY <2>2, <2>6, ReturnKeepsTypes
    <2>. QED
      BY <1>4, <2>3, <2>4, <2>5, <2>6 DEF FindFilled, NotFound
  <1>5. ASSUME NEW w \in Worker, FindFree(w) PROVE TypeInv'
    <2>1. pc[w] = "free" /\ w \in Process /\ w # Cleaner
      BY <1>5, ProcessAssumption DEF FindFree, Process
    <2>2. CellTypes'
      BY <1>5 DEF FindFree, CellTypes, TypeInv, TypeOK, cells, clocks
    <2>3. CASE Hit(w)
      BY <2>1, <2>2, <2>3, HitKeepsTypes
    <2>4. CASE ~LastCell(w) /\ NextCell(w, "free_wait") /\ UNCHANGED <<cmd, idx, ret>>
      <3>1. "free_wait" \in Waiting
        BY DEF Waiting
      <3>2. /\ sem' \in [Segment -> Nat]
            /\ off' \in [Process -> 0 .. TableSize - 1]
            /\ blk' \in [Process -> Segment]
            /\ pc' = pc \/ pc' = [pc EXCEPT ![w] = "free_wait"]
        BY <2>1, <2>4, <3>1, NextCellKeepsTypes
      <3>3. pc' \in [Process -> {"idle"} \cup Waiting \cup Inside]
        BY <3>1, <3>2 DEF TypeInv, TypeOK
      <3>4. TypeOK'
        BY <2>2, <2>4, <3>2, <3>3 DEF CellTypes, TypeInv, TypeOK
      <3>5. /\ \A u \in Worker : /\ pc'[u] # "idle" => pc[u] # "idle"
                                 /\ pc'[u] \notin {"gc", "gc_wait"}
            /\ pc'[Cleaner] = pc[Cleaner]
        BY <2>1, <3>2 DEF TypeInv, TypeOK, Process
      <3>. QED
        BY <2>4, <3>4, <3>5 DEF TypeInv
    <2>5. CASE Return(w, "full")
      BY <2>2, <2>5, ReturnKeepsTypes
    <2>. QED
      BY <1>5, <2>3, <2>4, <2>5 DEF FindFree
  <1>6. ASSUME NEW w \in Worker, Get(w) PROVE TypeInv'
    <2>1. CellTypes'
      BY <1>6 DEF Get, CellTypes, TypeInv, TypeOK, cells, clocks
    <2>. QED
      BY <1>6, <2>1, ReturnKeepsTypes DEF Get
  <1>7. ASSUME NEW w \in Worker, Set(w) PROVE TypeInv'
    <2>1. ToInt(cmd[w].ttl + now) \in Int
      BY TimeAssumption DEF ToInt, TypeInv, TypeOK
    <2>2. CellTypes'
      BY <1>7, <2>1 DEF Set, CellTypes, TypeInv, TypeOK, clocks
    <2>. QED
      BY <1>7, <2>2, ReturnKeepsTypes DEF Set
  <1>8. ASSUME NEW w \in Worker, Del(w) PROVE TypeInv'
    <2>1. CellTypes'
      BY <1>8 DEF Del, CellTypes, TypeInv, TypeOK, clocks
    <2>. QED
      BY <1>8, <2>1, ReturnKeepsTypes DEF Del
  <1>9. ASSUME StartCollection PROVE TypeInv'
    <2>1. 0 \in 0 .. TableSize - 1 /\ SegmentOf(0) \in Segment
      BY TableSizePositive, SegmentExists DEF Cell
    <2>2. TypeOK'
      BY <1>9, <2>1
      DEF StartCollection, SearchFrom, Goto, TypeInv, TypeOK, cells, clocks, Waiting
    <2>. QED
      BY <1>9, <2>2, ProcessAssumption
      DEF StartCollection, SearchFrom, Goto, TypeInv, TypeOK, Process
  <1>10. ASSUME Collect PROVE TypeInv'
    <2>1. Cleaner \in Process /\ pc[Cleaner] = "gc" /\ Cleaner \notin Worker
      BY <1>10, ProcessAssumption DEF Collect, Process
    <2>2. flag' \in [Cell -> {CL_FREE, CL_FILLED, CL_RIP}]
      BY <1>10 DEF Collect, TypeInv, TypeOK
    <2>3. CASE ~LastCell(Cleaner) /\ NextCell(Cleaner, "gc_wait") /\ UNCHANGED wake
      <3>1. "gc_wait" \in Waiting
        BY DEF Waiting
      <3>. QED
        BY <1>10, <2>1, <2>2, <2>3, <3>1, NextCellKeepsTypes
        DEF Collect, TypeInv, TypeOK, Process
    <2>4. CASE /\ SemPost(blk[Cleaner])
               /\ wake' = Period + now
               /\ Goto(Cleaner, "idle")
               /\ off' = [off EXCEPT ![Cleaner] = 0]
               /\ blk' = [blk EXCEPT ![Cleaner] = 0]
      <3>1. 0 \in 0 .. TableSize - 1 /\ 0 \in Segment
        BY TableSizePositive, SizeAssumption DEF Segment
      <3>2. /\ sem' \in [Segment -> Nat]
            /\ wake' \in Nat
        BY <2>1, <2>4, TimeAssumption DEF SemPost, TypeInv, TypeOK
      <3>3. /\ off' \in [Process -> 0 .. TableSize - 1]
            /\ blk' \in [Process -> Segment]
            /\ pc' \in [Process -> {"idle"} \cup Waiting \cup Inside]
        BY <2>4, <3>1 DEF Goto, TypeInv, TypeOK
      <3>4. TypeOK'
        BY <1>10, <2>2, <3>2, <3>3 DEF Collect, TypeInv, TypeOK
      <3>. QED
        BY <1>10, <2>1, <2>4, <3>4 DEF Collect, Goto, TypeInv, TypeOK, Process
    <2>. QED
      BY <1>10, <2>3, <2>4 DEF Collect
  <1>11. ASSUME Tick PROVE TypeInv'
    BY <1>11 DEF Tick, TypeInv, TypeOK, cells, locals
  <1>. QED
    BY <1>1, <1>2, <1>3, <1>4, <1>5, <1>6, <1>7, <1>8, <1>9, <1>10, <1>11
    DEF Next, Step, CleanerStep, Process

(* Every cell, semaphore and local variable keeps its type: in particular  *)
(* every index a process uses is that of a cell or a semaphore that        *)
(* exists, wherever the search for it wraps around.                        *)
THEOREM TypeCorrect == Spec => []TypeOK
  <1>1. TypeInv => TypeOK
    BY DEF TypeInv
  <1>. QED
    BY TypeInit, TypeStep, <1>1, PTL DEF Spec

(* A step of one worker changes the local variables of no other.           *)
LEMMA OnlyMovers ==
    ASSUME TypeInv, NEW w \in Worker, Call(w) \/ Step(w), NEW u \in Worker, u # w
    PROVE  /\ pc'[u] = pc[u] /\ cmd'[u] = cmd[u] /\ off'[u] = off[u]
           /\ idx'[u] = idx[u] /\ ret'[u] = ret[u] /\ out'[u] = out[u]
  <1>0. u \in Process /\ w \in Process
    BY DEF Process
  <1>1. CASE Call(w)
    BY <1>0, <1>1 DEF Call, SearchFrom, Goto, TypeInv, TypeOK
  <1>2. CASE Lock(w)
    BY <1>0, <1>2 DEF Lock, Goto, locals, TypeInv, TypeOK
  <1>3. CASE FindFilled(w)
    BY <1>0, <1>3
    DEF FindFilled, NotFound, Hit, NextCell, SearchFrom, Return, Goto, TypeInv, TypeOK
  <1>4. CASE FindFree(w)
    BY <1>0, <1>4 DEF FindFree, Hit, NextCell, Return, Goto, TypeInv, TypeOK
  <1>5. CASE Get(w) \/ Set(w) \/ Del(w)
    BY <1>0, <1>5 DEF Get, Set, Del, Return, Goto, TypeInv, TypeOK
  <1>. QED
    BY <1>1, <1>2, <1>3, <1>4, <1>5 DEF Step

-----------------------------------------------------------------------------
(* Locking.                                                                *)

(* The two halves of LockDiscipline: who holds the semaphores, and which   *)
(* cell a process goes to with the one it holds or waits for.              *)
SemInv ==
    \A s \in Segment :
        /\ sem[s] = IF \E p \in Process : Owns(p, s) THEN 0 ELSE 1
        /\ \A p, q \in Process : Owns(p, s) /\ Owns(q, s) => p = q

BlkInv == \A p \in Process : pc[p] # "idle" => blk[p] = SegmentOf(Target(p))

LockInv == TypeInv /\ SemInv /\ BlkInv

(* All processes but p are where they were.                                *)
OthersStay(p) ==
    \A q \in Process \ {p} : /\ pc'[q] = pc[q] /\ blk'[q] = blk[q]
                             /\ off'[q] = off[q]
                             /\ q \in Worker => idx'[q] = idx[q] /\ cmd'[q] = cmd[q]

LEMMA Release ==
    ASSUME TypeInv, SemInv, NEW p \in Process, OthersStay(p),
           pc[p] \in Inside, pc'[p] \notin Inside, SemPost(blk[p])
    PROVE  SemInv'
  <1>. SUFFICES ASSUME NEW s \in Segment
                PROVE  /\ sem'[s] = IF \E q \in Process : Owns(q, s)' THEN 0 ELSE 1
                       /\ \A q, r \in Process : Owns(q, s)' /\ Owns(r, s)' => q = r
    BY DEF SemInv
  <1>1. \A q \in Process : Owns(q, s)' <=> q # p /\ Owns(q, s)
    BY DEF Owns, OthersStay
  <1>2. CASE s = blk[p]
    <2>1. \A q \in Process : ~Owns(q, s)'
      BY <1>1, <1>2 DEF SemInv, Owns
    <2>2. sem[s] = 0
      BY <1>2 DEF SemInv, Owns
    <2>3. sem'[s] = 1
      BY <1>2, <2>2 DEF SemPost, TypeInv, TypeOK
    <2>. QED
      BY <2>1, <2>3
  <1>3. CASE s # blk[p]
    <2>1. \A q \in Process : Owns(q, s)' <=> Owns(q, s)
      BY <1>1, <1>3 DEF Owns
    <2>2. sem'[s] = sem[s]
      BY <1>3 DEF SemPost, TypeInv, TypeOK
    <2>. QED
      BY <2>1, <2>2 DEF SemInv
  <1>. QED
    BY <1>2, <1>3

LEMMA Acquire ==
    ASSUME TypeInv, SemInv, NEW p \in Process, OthersStay(p),
           pc[p] \notin Inside, pc'[p] \in Inside, blk'[p] = blk[p],
           sem[blk[p]] > 0, sem' = [sem EXCEPT ![blk[p]] = @ - 1]
    PROVE  SemInv'
  <1>. SUFFICES ASSUME NEW s \in Segment
                PROVE  /\ sem'[s] = IF \E q \in Process : Owns(q, s)' THEN 0 ELSE 1
                       /\ \A q, r \in Process : Owns(q, s)' /\ Owns(r, s)' => q = r
    BY DEF SemInv
  <1>1. \A q \in Process : Owns(q, s)' <=> Owns(q, s) \/ (q = p /\ blk[p] = s)
    BY DEF Owns, OthersStay
  <1>2. CASE s = blk[p]
    <2>1. sem[s] = 1 /\ \A q \in Process : ~Owns(q, s)
      BY <1>2 DEF SemInv
    <2>2. sem'[s] = 0
      BY <1>2, <2>1 DEF TypeInv, TypeOK
    <2>. QED
      BY <1>1, <1>2, <2>1, <2>2
  <1>3. CASE s # blk[p]
    <2>1. sem'[s] = sem[s]
      BY <1>3 DEF TypeInv, TypeOK
    <2>. QED
      BY <1>1, <1>3, <2>1 DEF SemInv
  <1>. QED
    BY <1>2, <1>3

(* A step that neither posts nor waits leaves every owner in place.        *)
LEMMA KeepLocks ==
    ASSUME SemInv, sem' = sem,
           \A q \in Process, s \in Segment : Owns(q, s)' <=> Owns(q, s)
    PROVE  SemInv'
  BY DEF SemInv

(* It is enough to look at the process that moves.                         *)
LEMMA OthersKeepTarget ==
    ASSUME TypeInv, BlkInv, NEW p \in Process, OthersStay(p),
           pc'[p] # "idle" => blk'[p] = SegmentOf(Target(p)')
    PROVE  BlkInv'
  <1>. SUFFICES ASSUME NEW q \in Process, q # p, pc'[q] # "idle"
                PROVE  blk'[q] = SegmentOf(Target(q)')
    BY DEF BlkInv
  <1>1. CASE q \in Worker
    BY <1>1 DEF BlkInv, Target, CellAt, Home, OthersStay
  <1>2. CASE q = Cleaner
    BY <1>2 DEF BlkInv, Target, CellAt, Home, OthersStay, TypeInv
  <1>. QED
    BY <1>1, <1>2 DEF Process

LEMMA LockInit == Init => LockInv
  BY TypeInit DEF Init, LockInv, SemInv, BlkInv, Owns, Inside

LEMMA HitKeepsLocks ==
    ASSUME LockInv, NEW w \in Worker, pc[w] \in {"filled", "free"}, Hit(w)
    PROVE  SemInv' /\ BlkInv'
  <1>1. w \in Process
    BY DEF Process
  <1>2. OthersStay(w)
    BY <1>1 DEF Hit, Goto, OthersStay, LockInv, TypeInv, TypeOK
  <1>3. pc'[w] = "access_wait" /\ pc[w] \in Inside /\ pc'[w] \notin Inside
    BY <1>1 DEF Hit, Goto, LockInv, TypeInv, TypeOK, Inside
  <1>4. SemInv'
    BY <1>1, <1>2, <1>3, Release DEF Hit, LockInv
  <1>5. blk'[w] = SegmentOf(CellAt(w)) /\ idx'[w] = CellAt(w)
    BY <1>1 DEF Hit, LockInv, TypeInv, TypeOK
  <1>6. blk'[w] = SegmentOf(Target(w)')
    BY <1>3, <1>5 DEF Target
  <1>. QED
    BY <1>1, <1>2, <1>4, <1>6, OthersKeepTarget DEF LockInv

LEMMA ReturnKeepsLocks ==
    ASSUME LockInv, NEW w \in Worker, pc[w] \in Inside, NEW o, Return(w, o)
    PROVE  SemInv' /\ BlkInv'
  <1>1. w \in Process
    BY DEF Process
  <1>2. OthersStay(w)
    BY <1>1 DEF Return, Goto, OthersStay, LockInv, TypeInv, TypeOK
  <1>3. pc'[w] = "idle" /\ pc'[w] \notin Inside
    BY <1>1 DEF Return, Goto, LockInv, TypeInv, TypeOK, Inside
  <1>4. SemInv'
    BY <1>1, <1>2, <1>3, Release DEF Return, LockInv
  <1>. QED
    BY <1>1, <1>2, <1>3, <1>4, OthersKeepTarget DEF LockInv

LEMMA NextCellKeepsLocks ==
    ASSUME LockInv, NEW p \in Process, NEW l \in Waiting, l # "access_wait",
           pc[p] \in Inside \ {"access"}, ~LastCell(p), NextCell(p, l),
           UNCHANGED <<cmd, idx>>
    PROVE  SemInv' /\ BlkInv'
  <1>. DEFINE s == SegmentOf(Probe(Home(p), off[p] + 1))
  <1>1. off'[p] = off[p] + 1
    BY DEF NextCell, LockInv, TypeInv, TypeOK
  <1>2. CellAt(p)' = Probe(Home(p), off[p] + 1)
    BY <1>1 DEF CellAt, Home
  <1>3. l \notin Inside /\ l # "idle"
    BY DEF Waiting, Inside
  <1>4. CASE s = blk[p]
    <2>1. sem' = sem /\ blk' = blk /\ pc' = pc
      BY <1>4 DEF NextCell
    <2>2. OthersStay(p)
      BY <2>1 DEF NextCell, OthersStay, LockInv, TypeInv, TypeOK
    <2>3. SemInv'
      BY <2>1, KeepLocks DEF LockInv, Owns
    <2>4. blk'[p] = SegmentOf(Target(p)')
      BY <1>2, <1>4, <2>1 DEF Target, Inside
    <2>. QED
      BY <2>2, <2>3, <2>4, OthersKeepTarget DEF LockInv
  <1>5. CASE s # blk[p]
    <2>1. SemPost(blk[p]) /\ blk' = [blk EXCEPT ![p] = s] /\ Goto(p, l)
      BY <1>5 DEF NextCell
    <2>2. blk'[p] = s /\ pc'[p] = l
      BY <2>1 DEF Goto, LockInv, TypeInv, TypeOK
    <2>3. OthersStay(p)
      BY <2>1 DEF NextCell, Goto, OthersStay, LockInv, TypeInv, TypeOK
    <2>4. SemInv'
      BY <1>3, <2>1, <2>2, <2>3, Release DEF LockInv
    <2>5. blk'[p] = SegmentOf(Target(p)')
      BY <1>2, <2>2 DEF Target, Waiting
    <2>. QED
      BY <2>3, <2>4, <2>5, OthersKeepTarget DEF LockInv
  <1>. QED
    BY <1>4, <1>5

LEMMA LockStep == LockInv /\ [Next]_vars => LockInv'
  <1>. SUFFICES ASSUME LockInv, [Next]_vars PROVE SemInv' /\ BlkInv'
    BY TypeStep DEF LockInv
  <1>0. TypeInv
    BY DEF LockInv
  <1>1. CASE UNCHANGED vars
    BY <1>1 DEF vars, cells, clocks, locals, LockInv, SemInv, BlkInv, Owns, Target,
                CellAt, Home
  <1>2. ASSUME NEW w \in Worker, Call(w) PROVE SemInv' /\ BlkInv'
    <2>1. PICK c \in Commands(w) :
             /\ cmd' = [cmd EXCEPT ![w] = c]
             /\ SearchFrom(w, Hash[c.key], "filled_wait")
      BY <1>2 DEF Call
    <2>2. w \in Process /\ w # Cleaner /\ c.key \in Key /\ Hash[c.key] \in Cell
      BY CommandTypes, SizeAssumption, ProcessAssumption DEF Process
    <2>3. /\ pc' = [pc EXCEPT ![w] = "filled_wait"]
          /\ blk' = [blk EXCEPT ![w] = SegmentOf(Hash[c.key])]
          /\ off' = [off EXCEPT ![w] = 0]
          /\ cmd'[w] = c
      BY <1>0, <2>1 DEF SearchFrom, Goto, TypeInv, TypeOK
    <2>4. OthersStay(w)
      BY <1>0, <1>2, <2>1, <2>3 DEF Call, OthersStay, TypeInv, TypeOK
    <2>5. SemInv'
      BY <1>0, <1>2, <2>2, <2>3, KeepLocks
      DEF Call, LockInv, Owns, Inside, TypeInv, TypeOK
    <2>6. Target(w)' = Probe(Hash[c.key], 0)
      BY <1>0, <2>2, <2>3 DEF Target, CellAt, Home, TypeInv, TypeOK
    <2>7. blk'[w] = SegmentOf(Target(w)')
      BY <1>0, <2>2, <2>3, <2>6, TableSizePositive DEF Probe, Cell, TypeInv, TypeOK
    <2>. QED
      BY <1>0, <2>2, <2>4, <2>5, <2>7, OthersKeepTarget DEF LockInv
  <1>3. ASSUME NEW p \in Process, Lock(p) PROVE SemInv' /\ BlkInv'
    <2>1. /\ pc[p] \notin Inside /\ pc'[p] \in Inside /\ pc[p] # "idle"
          /\ pc'[p] = "access" <=> pc[p] = "access_wait"
          /\ pc'[p] # "access_wait" /\ pc[p] # "access"
      BY <1>0, <1>3 DEF Lock, Goto, Inside, TypeInv, TypeOK
    <2>2. OthersStay(p)
      BY <1>0, <1>3 DEF Lock, Goto, OthersStay, locals, TypeInv, TypeOK
    <2>3. SemInv'
      BY <1>0, <1>3, <2>1, <2>2, Acquire DEF Lock, LockInv
    <2>4. blk'[p] = SegmentOf(Target(p)')
      BY <1>3, <2>1 DEF Lock, locals, LockInv, BlkInv, Target, CellAt, Home
    <2>. QED
      BY <1>0, <2>2, <2>3, <2>4, OthersKeepTarget DEF LockInv
  <1>4. ASSUME NEW w \in Worker, FindFilled(w) PROVE SemInv' /\ BlkInv'
    <2>1. pc[w] = "filled" /\ w \in Process /\ w # Cleaner
      BY <1>4, ProcessAssumption DEF FindFilled, Process
    <2>2. CASE Hit(w)
      BY <2>1, <2>2, HitKeepsLocks
    <2>3. CASE ~LastCell(w) /\ NextCell(w, "filled_wait") /\ UNCHANGED <<cmd, idx, ret>>
      BY <2>1, <2>3, NextCellKeepsLocks DEF Waiting, Inside
    <2>4. CASE /\ SemPost(blk[w])
               /\ SearchFrom(w, Home(w), "free_wait")
               /\ UNCHANGED <<cmd, idx, ret>>
      <3>1. /\ pc' = [pc EXCEPT ![w] = "free_wait"]
            /\ blk' = [blk EXCEPT ![w] = SegmentOf(Home(w))]
            /\ off' = [off EXCEPT ![w] = 0]
        BY <2>4 DEF SearchFrom, Goto
      <3>2. OthersStay(w)
        BY <1>0, <2>4, <3>1 DEF OthersStay, TypeInv, TypeOK
      <3>3. pc[w] \in Inside /\ pc'[w] \notin Inside
        BY <1>0, <2>1, <3>1 DEF Inside, TypeInv, TypeOK
      <3>4. SemInv'
        BY <1>0, <2>1, <2>4, <3>2, <3>3, Release DEF LockInv
      <3>5. Target(w)' = Probe(Home(w), 0)
        BY <1>0, <2>1, <2>4, <3>1 DEF Target, CellAt, Home, TypeInv, TypeOK
      <3>6. Home(w) \in Cell
        BY <1>0, <2>1, HomeExists
      <3>7. blk'[w] = SegmentOf(Target(w)')
        BY <1>0, <2>1, <3>1, <3>5, <3>6, TableSizePositive
        DEF Probe, Cell, TypeInv, TypeOK
      <3>. QED
        BY <1>0, <2>1, <3>2, <3>4, <3>7, OthersKeepTarget DEF LockInv
    <2>5. CASE Return(w, "miss")
      BY <2>1, <2>5, ReturnKeepsLocks DEF Inside
    <2>. QED
      BY <1>4, <2>2, <2>3, <2>4, <2>5 DEF FindFilled, NotFound
  <1>5. ASSUME NEW w \in Worker, FindFree(w) PROVE SemInv' /\ BlkInv'
    <2>1. pc[w] = "free" /\ w \in Process
      BY <1>5 DEF FindFree, Process
    <2>2. CASE Hit(w)
      BY <2>1, <2>2, HitKeepsLocks
    <2>3. CASE ~LastCell(w) /\ NextCell(w, "free_wait") /\ UNCHANGED <<cmd, idx, ret>>
      BY <2>1, <2>3, NextCellKeepsLocks DEF Waiting, Inside
    <2>4. CASE Return(w, "full")
      BY <2>1, <2>4, ReturnKeepsLocks DEF Inside
    <2>. QED
      BY <1>5, <2>2, <2>3, <2>4 DEF FindFree
  <1>6. ASSUME NEW w \in Worker, Get(w) \/ Set(w) \/ Del(w)
        PROVE  SemInv' /\ BlkInv'
    BY <1>6, ReturnKeepsLocks DEF Get, Set, Del, Inside
  <1>7. ASSUME StartCollection PROVE SemInv' /\ BlkInv'
    <2>1. /\ pc[Cleaner] = "idle" /\ Cleaner \in Process /\ Cleaner \notin Worker
          /\ pc' = [pc EXCEPT ![Cleaner] = "gc_wait"]
          /\ blk' = [blk EXCEPT ![Cleaner] = SegmentOf(0)]
          /\ off' = [off EXCEPT ![Cleaner] = 0]
      BY <1>7, ProcessAssumption DEF StartCollection, SearchFrom, Goto, Process
    <2>2. OthersStay(Cleaner)
      BY <1>0, <1>7, <2>1 DEF StartCollection, OthersStay, TypeInv, TypeOK
    <2>3. SemInv'
      BY <1>0, <1>7, <2>1, KeepLocks
      DEF StartCollection, LockInv, Owns, Inside, TypeInv, TypeOK
    <2>4. Target(Cleaner)' = Probe(0, 0)
      BY <1>0, <2>1 DEF Target, CellAt, Home, TypeInv, TypeOK
    <2>5. blk'[Cleaner] = SegmentOf(Target(Cleaner)')
      BY <1>0, <2>1, <2>4, TableSizePositive DEF Probe, TypeInv, TypeOK
    <2>. QED
      BY <1>0, <2>1, <2>2, <2>3, <2>5, OthersKeepTarget DEF LockInv
  <1>8. ASSUME Collect PROVE SemInv' /\ BlkInv'
    <2>1. /\ Cleaner \in Process /\ Cleaner \notin Worker /\ pc[Cleaner] = "gc"
          /\ UNCHANGED <<cmd, idx>>
      BY <1>8, ProcessAssumption DEF Collect, Process
    <2>2. CASE ~LastCell(Cleaner) /\ NextCell(Cleaner, "gc_wait")
      BY <2>1, <2>2, NextCellKeepsLocks DEF Waiting, Inside
    <2>3. CASE /\ SemPost(blk[Cleaner])
               /\ Goto(Cleaner, "idle")
               /\ off' = [off EXCEPT ![Cleaner] = 0]
               /\ blk' = [blk EXCEPT ![Cleaner] = 0]
      <3>1. OthersStay(Cleaner)
        BY <1>0, <2>1, <2>3 DEF Goto, OthersStay, TypeInv, TypeOK
      <3>2. pc'[Cleaner] = "idle" /\ pc[Cleaner] \in Inside /\ pc'[Cleaner] \notin Inside
        BY <1>0, <2>1, <2>3 DEF Goto, Inside, TypeInv, TypeOK
      <3>3. SemInv'
        BY <1>0, <2>1, <2>3, <3>1, <3>2, Release DEF LockInv
      <3>. QED
        BY <1>0, <2>1, <3>1, <3>2, <3>3, OthersKeepTarget DEF LockInv
    <2>. QED
      BY <1>8, <2>2, <2>3 DEF Collect
  <1>9. ASSUME Tick PROVE SemInv' /\ BlkInv'
    BY <1>9 DEF Tick, locals, LockInv, SemInv, BlkInv, Owns, Target, CellAt, Home
  <1>. QED
    BY <1>1, <1>2, <1>3, <1>4, <1>5, <1>6, <1>7, <1>8, <1>9
    DEF Next, Step, CleanerStep, Process

(* lock and unlock keep the segments apart: at most one process is in a    *)
(* segment, its semaphore says so, and whatever cell a process reads or    *)
(* writes belongs to the segment it holds.                                 *)
THEOREM LockingCorrect == Spec => []LockDiscipline
  <1>1. LockInv => LockDiscipline
    BY DEF LockInv, SemInv, BlkInv, LockDiscipline
  <1>. QED
    BY LockInit, LockStep, <1>1, PTL DEF Spec

-----------------------------------------------------------------------------
(* Free cells.                                                             *)

LEMMA FlagStep ==
    TypeInv /\ [Next]_vars => \A c \in Cell : flag[c] # CL_FREE => flag'[c] # CL_FREE
  <1>. SUFFICES ASSUME TypeInv, [Next]_vars, NEW c \in Cell, flag[c] # CL_FREE
                PROVE  flag'[c] # CL_FREE
    OBVIOUS
  <1>. USE DEF CL_FREE, CL_FILLED, CL_RIP
  <1>1. CASE flag' = flag
    BY <1>1
  <1>2. ASSUME NEW w \in Worker, Set(w) \/ Del(w) PROVE flag'[c] # CL_FREE
    BY <1>2 DEF Set, Del, TypeInv, TypeOK
  <1>3. CASE Collect
    BY <1>3 DEF Collect, TypeInv, TypeOK
  <1>. QED
    BY <1>1, <1>2, <1>3
    DEF Next, Step, CleanerStep, Call, Lock, FindFilled, FindFree, Get,
        StartCollection, Tick, vars, cells

(* Nothing any process does makes a used cell free again.                  *)
THEOREM UsedCellsStayUsed == Spec => CellsAreNeverFreed
  <1>1. TypeInv /\ [Next]_vars
          => [\A c \in Cell : flag[c] # CL_FREE => flag'[c] # CL_FREE]_vars
    BY FlagStep
  <1>. QED
    BY TypeInit, TypeStep, <1>1, PTL DEF Spec, CellsAreNeverFreed

(* FullMeansFull is about the end of a search; what makes it inductive is  *)
(* that a search for a free cell leaves none behind, at every step of it.  *)
Behind(w) == {Probe(Home(w), n) : n \in 0 .. off[w] - 1}

NoneLeftBehind ==
    \A w \in Worker : pc[w] \in {"free_wait", "free"}
                        => \A c \in Behind(w) : flag[c] # CL_FREE

FullInv == TypeInv /\ NoneLeftBehind /\ FullMeansFull

LEMMA FullInit == Init => FullInv
  BY TypeInit DEF Init, FullInv, NoneLeftBehind, FullMeansFull, Process

(* A worker that is not looking for a free cell after the step, or is no   *)
(* further than before, needs only that used cells stay used.              *)
LEMMA FullFrame ==
    ASSUME TypeInv, NoneLeftBehind, NEW w \in Worker,
           \A c \in Cell : flag[c] # CL_FREE => flag'[c] # CL_FREE,
           pc'[w] \in {"free_wait", "free"}
               => /\ pc[w] \in {"free_wait", "free"}
                  /\ off'[w] = off[w] /\ cmd'[w] = cmd[w]
    PROVE  pc'[w] \in {"free_wait", "free"} => \A c \in Behind(w)' : flag'[c] # CL_FREE
  <1>. SUFFICES ASSUME pc'[w] \in {"free_wait", "free"}, NEW c \in Behind(w)'
                PROVE  flag'[c] # CL_FREE
    OBVIOUS
  <1>1. c \in Behind(w)
    BY ProcessAssumption DEF Behind, Home
  <1>2. c \in Cell
    <2>1. w \in Process /\ Home(w) \in Cell
      BY HomeExists DEF Process
    <2>2. \A n \in 0 .. off[w] - 1 : n \in 0 .. TableSize - 1
      BY <2>1, TableSizePositive DEF TypeInv, TypeOK
    <2>. QED
      BY <1>1, <2>1, <2>2, ProbeInTable DEF Behind
  <1>. QED
    BY <1>1, <1>2 DEF NoneLeftBehind

LEMMA FullStep == FullInv /\ [Next]_vars => FullInv'
  <1>. SUFFICES ASSUME FullInv, [Next]_vars PROVE NoneLeftBehind' /\ FullMeansFull'
    BY TypeStep DEF FullInv
  <1>0. TypeInv /\ \A c \in Cell : flag[c] # CL_FREE => flag'[c] # CL_FREE
    BY FlagStep DEF FullInv
  <1>1. ASSUME \A w \in Worker : pc'[w] \in {"free_wait", "free"}
                                   => /\ pc[w] \in {"free_wait", "free"}
                                      /\ off'[w] = off[w] /\ cmd'[w] = cmd[w],
               \A w \in Worker : ret'[w] = "full" => ret[w] = "full"
        PROVE  NoneLeftBehind' /\ FullMeansFull'
    <2>1. NoneLeftBehind'
      BY <1>0, <1>1, FullFrame DEF FullInv, NoneLeftBehind
    <2>2. FullMeansFull'
      BY <1>0, <1>1 DEF FullInv, FullMeansFull
    <2>. QED
      BY <2>1, <2>2
  <1>2. ASSUME NEW w \in Worker, FindFilled(w)
        PROVE  NoneLeftBehind' /\ FullMeansFull'
    <2>1. CASE /\ SearchFrom(w, Home(w), "free_wait")
               /\ UNCHANGED <<cmd, idx, ret>>
      <3>1. Behind(w)' = {}
        BY <1>0, <2>1 DEF SearchFrom, Behind, TypeInv, TypeOK, Process
      <3>2. \A u \in Worker \ {w} : off'[u] = off[u] /\ pc'[u] = pc[u]
        BY <1>0, <2>1 DEF SearchFrom, Goto, TypeInv, TypeOK, Process
      <3>. QED
        BY <1>0, <2>1, <3>1, <3>2, FullFrame DEF FullInv, NoneLeftBehind, FullMeansFull
    <2>2. CASE Hit(w) \/ Return(w, "miss")
      <3>1. /\ pc'[w] \notin {"free_wait", "free"}
            /\ ret'[w] = "full" => ret[w] = "full"
            /\ \A u \in Worker \ {w} : /\ off'[u] = off[u] /\ pc'[u] = pc[u]
                                       /\ cmd'[u] = cmd[u] /\ ret'[u] = ret[u]
        BY <1>0, <2>2 DEF Hit, Return, Goto, TypeInv, TypeOK, Process
      <3>. QED
        BY <1>1, <3>1
    <2>3. CASE NextCell(w, "filled_wait") /\ UNCHANGED <<cmd, idx, ret>>
      <3>1. /\ pc'[w] \notin {"free_wait", "free"}
            /\ \A u \in Worker \ {w} : off'[u] = off[u] /\ pc'[u] = pc[u]
        BY <1>0, <1>2, <2>3 DEF FindFilled, NextCell, Goto, TypeInv, TypeOK, Process
      <3>. QED
        BY <1>1, <2>3, <3>1
    <2>. QED
      BY <1>2, <2>1, <2>2, <2>3 DEF FindFilled, NotFound
  <1>3. ASSUME NEW w \in Worker, FindFree(w)
        PROVE  NoneLeftBehind' /\ FullMeansFull'
    <2>1. pc[w] = "free" /\ w \in Process /\ flag' = flag /\ Home(w) \in Cell
      BY <1>0, <1>3, HomeExists DEF FindFree, Process, cells
    <2>2. CASE Hit(w)
      <3>1. /\ pc'[w] \notin {"free_wait", "free"} /\ ret' = ret
            /\ \A u \in Worker \ {w} : /\ off'[u] = off[u] /\ pc'[u] = pc[u]
                                       /\ cmd'[u] = cmd[u]
        BY <1>0, <2>2 DEF Hit, Goto, TypeInv, TypeOK, Process
      <3>. QED
        BY <1>1, <3>1
    <2>3. CASE /\ flag[CellAt(w)] # CL_FREE
               /\ NextCell(w, "free_wait") /\ UNCHANGED <<cmd, idx, ret>>
      <3>1. /\ off'[w] = off[w] + 1
            /\ \A u \in Worker \ {w} : off'[u] = off[u] /\ pc'[u] = pc[u]
        BY <1>0, <2>1, <2>3 DEF NextCell, Goto, TypeInv, TypeOK, Process
      <3>2. \A c \in Behind(w)' : c \in Behind(w) \/ c = CellAt(w)
        <4>1. Home(w)' = Home(w) /\ off[w] \in Nat
          BY <1>0, <2>1, <2>3, ProcessAssumption DEF Home, TypeInv, TypeOK
        <4>2. \A n \in 0 .. off[w] + 1 - 1 : n \in 0 .. off[w] - 1 \/ n = off[w]
          BY <4>1
        <4>. QED
          BY <3>1, <4>1, <4>2 DEF Behind, CellAt
      <3>3. \A c \in Behind(w)' : flag'[c] # CL_FREE
        BY <2>1, <2>3, <3>2 DEF FullInv, NoneLeftBehind
      <3>. QED
        BY <1>0, <2>3, <3>1, <3>3, FullFrame DEF FullInv, NoneLeftBehind, FullMeansFull
    <2>4. CASE flag[CellAt(w)] # CL_FREE /\ LastCell(w) /\ Return(w, "full")
      <3>1. \A c \in Cell : c \in Behind(w) \/ c = CellAt(w)
        BY <2>1, <2>4, ProbeReachesAll, TableSizePositive DEF Behind, CellAt, LastCell
      <3>2. \A c \in Cell : flag'[c] # CL_FREE
        BY <2>1, <2>4, <3>1 DEF FullInv, NoneLeftBehind
      <3>3. /\ pc'[w] \notin {"free_wait", "free"}
            /\ \A u \in Worker \ {w} : /\ off'[u] = off[u] /\ pc'[u] = pc[u]
                                       /\ cmd'[u] = cmd[u]
        BY <1>0, <2>1, <2>4 DEF Return, Goto, TypeInv, TypeOK, Process
      <3>4. NoneLeftBehind'
        BY <1>0, <3>3, FullFrame DEF FullInv, NoneLeftBehind
      <3>. QED
        BY <3>2, <3>4 DEF FullMeansFull
    <2>. QED
      BY <1>3, <2>2, <2>3, <2>4 DEF FindFree
  <1>4. ASSUME NEW w \in Worker, Get(w) \/ Set(w) \/ Del(w)
        PROVE  NoneLeftBehind' /\ FullMeansFull'
    <2>1. Return(w, "ok")
      BY <1>4 DEF Get, Set, Del
    <2>2. /\ pc'[w] \notin {"free_wait", "free"} /\ ret'[w] # "full"
          /\ \A u \in Worker \ {w} : /\ off'[u] = off[u] /\ pc'[u] = pc[u]
                                     /\ cmd'[u] = cmd[u] /\ ret'[u] = ret[u]
      BY <1>0, <2>1 DEF Return, Goto, TypeInv, TypeOK, Process
    <2>. QED
      BY <1>1, <2>2
  <1>5. ASSUME NEW w \in Worker, Call(w)
        PROVE  NoneLeftBehind' /\ FullMeansFull'
    <2>1. /\ pc'[w] \notin {"free_wait", "free"} /\ ret'[w] # "full"
          /\ \A u \in Worker \ {w} : /\ off'[u] = off[u] /\ pc'[u] = pc[u]
                                     /\ cmd'[u] = cmd[u] /\ ret'[u] = ret[u]
      BY <1>0, <1>5 DEF Call, SearchFrom, Goto, TypeInv, TypeOK, Process
    <2>. QED
      BY <1>1, <2>1
  <1>6. ASSUME NEW p \in Process, Lock(p)
        PROVE  NoneLeftBehind' /\ FullMeansFull'
    <2>1. \A u \in Worker : pc'[u] \in {"free_wait", "free"} => pc[u] \in {"free_wait", "free"}
      BY <1>0, <1>6 DEF Lock, Goto, TypeInv, TypeOK, Process
    <2>. QED
      BY <1>1, <1>6, <2>1 DEF Lock, locals
  <1>7. ASSUME CleanerStep, ~Lock(Cleaner)
        PROVE  NoneLeftBehind' /\ FullMeansFull'
    <2>1. \A u \in Worker : off'[u] = off[u] /\ pc'[u] = pc[u]
      BY <1>0, <1>7, ProcessAssumption
      DEF CleanerStep, StartCollection, Collect, SearchFrom, NextCell, Goto,
          TypeInv, TypeOK, Process
    <2>2. UNCHANGED <<cmd, ret>>
      BY <1>7 DEF CleanerStep, StartCollection, Collect
    <2>. QED
      BY <1>1, <2>1, <2>2
  <1>8. CASE Tick \/ UNCHANGED vars
    BY <1>1, <1>8 DEF Tick, vars, locals
  <1>. QED
    BY <1>2, <1>3, <1>4, <1>5, <1>6, <1>7, <1>8 DEF Next, Step, CleanerStep, Process

(* When a set is answered "302 Table degraded, no memory left", no cell of *)
(* the table is free, whatever other processes did while find_free ran,    *)
(* and none will be free later.                                            *)
THEOREM DegradedForGood == Spec => []FullMeansFull
  <1>1. FullInv => FullMeansFull
    BY DEF FullInv
  <1>. QED
    BY FullInit, FullStep, <1>1, PTL DEF Spec

-----------------------------------------------------------------------------
(* What clients see.                                                       *)

OneWriter == \A u, w \in Writer : u = w

(* No time of death exceeds the int it is stored in.                       *)
LifetimesFit == \A t \in TTL : t + MaxTime <= IntMax

-----------------------------------------------------------------------------
(* The invariant.                                                          *)

CommandInv ==
    \A w \in Worker : /\ pc[w] # "idle" => cmd[w] \in Commands(w)
                      /\ pc[w] \in {"free_wait", "free"} => cmd[w].op = "set"

(* A cell nobody has used has no time of death, so that the collector      *)
(* leaves it alone.                                                        *)
FreshInv == \A c \in Cell : flag[c] = CL_FREE => death[c] = 0

(* The part of the invariant that does not depend on who writes.           *)
BaseInv == TypeInv /\ CommandInv /\ FreshInv

(* What was true of the cell when the search found it is still true.       *)
Aim(w) ==
    pc[w] \in {"access_wait", "access"}
      => \/ flag[idx[w]] # CL_FREE /\ key[idx[w]] = cmd[w].key
         \/ flag[idx[w]] = CL_FREE /\ cmd[w].op = "set"

(* What a writing process has learnt about the cells stays true.           *)
Alone(w) ==
    /\ pc[w] \in {"filled_wait", "filled"}
         => \A c \in Behind(w) : ~Holds(c, cmd[w].key)
    /\ pc[w] \in {"free_wait", "free"}
         => \A c \in Cell : ~Holds(c, cmd[w].key)
    /\ pc[w] \in {"access_wait", "access"}
         => \A c \in Cell \ {idx[w]} : ~Holds(c, cmd[w].key)

(* With one writing process no key is stored twice.                        *)
KeysAreUnique ==
    \A c, d \in Cell : flag[c] = CL_FILLED /\ Holds(d, key[c]) => c = d

WriterInv ==
    /\ TypeInv
    /\ CommandInv
    /\ FreshInv
    /\ \A w \in Worker : Aim(w)
    /\ \A w \in Writer : Alone(w)
    /\ KeysAreUnique
    /\ now <= MaxTime

-----------------------------------------------------------------------------
(* What the steps do to the cells.                                         *)

KeysStay ==
    \A c \in Cell : flag[c] # CL_FREE => flag'[c] # CL_FREE /\ key'[c] = key[c]

(* A step in which no set takes effect: records only disappear.            *)
NothingStored ==
    /\ UNCHANGED <<key, value, death>>
    /\ \A c \in Cell :
          \/ flag'[c] = flag[c]
          \/ flag[c] # CL_FREE /\ flag'[c] = CL_RIP

LEMMA CommandOps ==
    \A w \in Worker : \A c \in Commands(w) :
        /\ c.op \in {"get", "set", "del"}
        /\ c.op \in {"set", "del"} => w \in Writer
        /\ c.op = "set" => c.ttl \in TTL /\ c.value \in Value
  BY DEF Commands

(* A worker that stays in the same phase of its command keeps its place.   *)
LEMMA Stays ==
    ASSUME WriterInv, NEW u \in Worker, KeysStay,
           u \in Writer => NothingStored,
           \A S \in {{"filled_wait", "filled"}, {"free_wait", "free"},
                     {"access_wait", "access"}} : pc'[u] \in S => pc[u] \in S,
           pc'[u] # "idle" => cmd'[u] = cmd[u] /\ off'[u] = off[u] /\ idx'[u] = idx[u]
    PROVE  Aim(u)' /\ (u \in Writer => Alone(u)')
  <1>. USE DEF CL_FREE, CL_FILLED, CL_RIP
  <1>1. /\ pc'[u] \in {"filled_wait", "filled"} => pc[u] \in {"filled_wait", "filled"}
        /\ pc'[u] \in {"free_wait", "free"} => pc[u] \in {"free_wait", "free"}
        /\ pc'[u] \in {"access_wait", "access"} => pc[u] \in {"access_wait", "access"}
    OBVIOUS
  <1>2. idx[u] \in Cell /\ flag \in [Cell -> {CL_FREE, CL_FILLED, CL_RIP}]
    BY DEF WriterInv, TypeInv, TypeOK
  <1>3. Aim(u)'
    <2>. SUFFICES ASSUME pc'[u] \in {"access_wait", "access"}
                  PROVE  \/ flag'[idx[u]] # CL_FREE /\ key'[idx[u]] = cmd[u].key
                         \/ flag'[idx[u]] = CL_FREE /\ cmd[u].op = "set"
      BY DEF Aim
    <2>1. pc[u] # "idle" /\ Aim(u) /\ pc[u] \in {"access_wait", "access"}
      BY <1>1 DEF WriterInv
    <2>2. CASE flag[idx[u]] # CL_FREE /\ key[idx[u]] = cmd[u].key
      BY <1>2, <2>2 DEF KeysStay
    <2>3. CASE flag[idx[u]] = CL_FREE /\ cmd[u].op = "set"
      <3>1. u \in Writer
        BY <2>1, <2>3, CommandOps DEF WriterInv, CommandInv
      <3>. QED
        BY <1>2, <2>3, <3>1 DEF NothingStored
    <2>. QED
      BY <2>1, <2>2, <2>3 DEF Aim
  <1>4. ASSUME u \in Writer PROVE Alone(u)'
    <2>1. \A c \in Cell, k \in Key : Holds(c, k)' => Holds(c, k)
      BY <1>2, <1>4 DEF NothingStored, Holds
    <2>2. pc'[u] \in {"filled_wait", "filled", "free_wait", "free",
                      "access_wait", "access"} => cmd[u].key \in Key
      BY <1>1 DEF WriterInv, TypeInv
    <2>3. pc'[u] \in {"filled_wait", "filled"}
            => \A c \in Behind(u)' : ~Holds(c, cmd[u].key)'
      <3>. SUFFICES ASSUME pc'[u] \in {"filled_wait", "filled"}, NEW c \in Behind(u)'
                    PROVE  ~Holds(c, cmd[u].key)'
        OBVIOUS
      <3>1. c \in Behind(u) /\ c \in Cell
        <4>1. u \in Process /\ Home(u) \in Cell /\ c \in Behind(u)
          BY <1>1, HomeExists, ProcessAssumption DEF Process, WriterInv, Behind, Home
        <4>2. \A n \in 0 .. off[u] - 1 : n \in 0 .. TableSize - 1
          BY <4>1, TableSizePositive DEF WriterInv, TypeInv, TypeOK
        <4>. QED
          BY <4>1, <4>2, ProbeInTable DEF Behind
      <3>. QED
        BY <1>1, <1>4, <2>1, <2>2, <3>1 DEF WriterInv, Alone
    <2>. QED
      BY <1>1, <1>4, <2>1, <2>2, <2>3 DEF WriterInv, Alone
  <1>. QED
    BY <1>3, <1>4

-----------------------------------------------------------------------------
(* The steps, from the point of view of the cells.                         *)

(* Whoever sets or deletes is the writing process, and the cell it acts on *)
(* is the only one that may hold its key.                                  *)
LEMMA SetFacts ==
    ASSUME WriterInv, NEW w \in Worker, Set(w)
    PROVE  /\ w \in Writer /\ w \in Process /\ idx[w] \in Cell
           /\ cmd[w].key \in Key /\ cmd[w].value \in Value /\ cmd[w].ttl \in TTL
           /\ pc'[w] = "idle"
           /\ \A c \in Cell \ {idx[w]} : ~Holds(c, cmd[w].key)
           /\ \A u \in Worker \ {w} : /\ pc'[u] = pc[u] /\ cmd'[u] = cmd[u]
                                      /\ off'[u] = off[u] /\ idx'[u] = idx[u]
           /\ KeysStay
  <1>1. /\ pc[w] = "access" /\ cmd[w].op = "set" /\ w \in Process
        /\ pc'[w] = "idle" /\ idx[w] \in Cell
        /\ \A u \in Worker \ {w} : /\ pc'[u] = pc[u] /\ cmd'[u] = cmd[u]
                                   /\ off'[u] = off[u] /\ idx'[u] = idx[u]
    BY DEF Set, Return, Goto, WriterInv, TypeInv, TypeOK, Process
  <1>2. /\ w \in Writer /\ cmd[w].value \in Value /\ cmd[w].ttl \in TTL
        /\ cmd[w].key \in Key
    BY <1>1, CommandOps, CommandTypes DEF WriterInv, CommandInv
  <1>3. \A c \in Cell \ {idx[w]} : ~Holds(c, cmd[w].key)
    BY <1>1, <1>2 DEF WriterInv, Alone
  <1>4. Aim(w)
    BY DEF WriterInv
  <1>5. KeysStay
    BY <1>1, <1>4 DEF Aim, KeysStay, Set, WriterInv, TypeInv, TypeOK,
                      CL_FREE, CL_FILLED
  <1>. QED
    BY <1>1, <1>2, <1>3, <1>5

LEMMA DelFacts ==
    ASSUME WriterInv, NEW w \in Worker, Del(w)
    PROVE  /\ w \in Writer /\ w \in Process /\ idx[w] \in Cell
           /\ cmd[w].key \in Key
           /\ flag[idx[w]] # CL_FREE /\ key[idx[w]] = cmd[w].key
           /\ pc'[w] = "idle"
           /\ \A c \in Cell \ {idx[w]} : ~Holds(c, cmd[w].key)
           /\ \A u \in Worker \ {w} : /\ pc'[u] = pc[u] /\ cmd'[u] = cmd[u]
                                      /\ off'[u] = off[u] /\ idx'[u] = idx[u]
           /\ KeysStay /\ NothingStored
  <1>1. /\ pc[w] = "access" /\ cmd[w].op = "del" /\ w \in Process
        /\ pc'[w] = "idle" /\ idx[w] \in Cell
        /\ \A u \in Worker \ {w} : /\ pc'[u] = pc[u] /\ cmd'[u] = cmd[u]
                                   /\ off'[u] = off[u] /\ idx'[u] = idx[u]
    BY DEF Del, Return, Goto, WriterInv, TypeInv, TypeOK, Process
  <1>2. w \in Writer /\ cmd[w].key \in Key
    BY <1>1, CommandOps, CommandTypes DEF WriterInv, CommandInv
  <1>3. \A c \in Cell \ {idx[w]} : ~Holds(c, cmd[w].key)
    BY <1>1, <1>2 DEF WriterInv, Alone
  <1>4. flag[idx[w]] # CL_FREE /\ key[idx[w]] = cmd[w].key
    BY <1>1 DEF WriterInv, Aim
  <1>5. KeysStay /\ NothingStored
    BY <1>1, <1>4 DEF KeysStay, NothingStored, Del, WriterInv, TypeInv, TypeOK,
                      CL_FREE, CL_RIP
  <1>. QED
    BY <1>1, <1>2, <1>3, <1>4, <1>5

(* What the collector does to a cell whose record is dead.                 *)
Buries(c) ==
    /\ flag[c] # CL_FREE /\ now > death[c]
    /\ flag' = [flag EXCEPT ![c] = CL_RIP]

LEMMA CollectorFacts ==
    ASSUME BaseInv, Collect
    PROVE  /\ CellAt(Cleaner) \in Cell
           /\ \/ flag' = flag
              \/ Buries(CellAt(Cleaner))
           /\ \A u \in Worker : pc'[u] = pc[u] /\ off'[u] = off[u]
           /\ UNCHANGED <<cmd, idx, ret, out, now>>
           /\ KeysStay /\ NothingStored
  <1>1. /\ Cleaner \in Process /\ pc[Cleaner] = "gc"
        /\ UNCHANGED <<key, value, death, cmd, idx, ret, out, now>>
    BY DEF Collect, Process
  <1>2. CellAt(Cleaner) \in Cell
    BY <1>1, CellAtExists DEF BaseInv
  <1>3. \A u \in Worker : pc'[u] = pc[u] /\ off'[u] = off[u]
    BY ProcessAssumption
    DEF Collect, NextCell, Goto, BaseInv, TypeInv, TypeOK, Process
  <1>4. flag' = flag \/ Buries(CellAt(Cleaner))
    BY <1>2 DEF Collect, Expired, BaseInv, FreshInv, Buries
  <1>5. KeysStay /\ NothingStored
    BY <1>1, <1>2, <1>4
    DEF Buries, KeysStay, NothingStored, BaseInv, TypeInv, TypeOK, CL_FREE, CL_RIP
  <1>. QED
    BY <1>1, <1>2, <1>3, <1>4, <1>5

LEMMA CollectFacts ==
    ASSUME WriterInv, Collect
    PROVE  /\ CellAt(Cleaner) \in Cell
           /\ \/ flag' = flag
              \/ Buries(CellAt(Cleaner))
           /\ \A u \in Worker : pc'[u] = pc[u] /\ off'[u] = off[u]
           /\ UNCHANGED <<cmd, idx, ret, out, now>>
           /\ KeysStay /\ NothingStored
  BY CollectorFacts DEF WriterInv, BaseInv

LEMMA CellsKept ==
    ASSUME WriterInv, UNCHANGED cells
    PROVE  KeysStay /\ NothingStored
  BY DEF cells, KeysStay, NothingStored

-----------------------------------------------------------------------------
(* The invariant is kept.                                                  *)

LEMMA WriterInit == Init => WriterInv
  BY TypeInit, TimeAssumption, ProcessAssumption
  DEF Init, WriterInv, CommandInv, FreshInv, Aim, Alone, KeysAreUnique, Process,
      CL_FREE, CL_FILLED

(* A process that looks at cells, or waits, changes no cell; the worker w  *)
(* that moves is the only one whose place in its command changes.          *)
LEMMA QuietStep ==
    ASSUME WriterInv, UNCHANGED cells, NEW w \in Worker,
           \A u \in Worker \ {w} : /\ pc'[u] = pc[u] /\ cmd'[u] = cmd[u]
                                   /\ off'[u] = off[u] /\ idx'[u] = idx[u],
           Aim(w)' /\ (w \in Writer => Alone(w)')
    PROVE  /\ \A u \in Worker : Aim(u)'
           /\ \A u \in Writer : Alone(u)'
           /\ FreshInv' /\ KeysAreUnique'
  <1>1. \A u \in Worker \ {w} : Aim(u)' /\ (u \in Writer => Alone(u)')
    BY CellsKept, Stays
  <1>2. FreshInv' /\ KeysAreUnique'
    BY DEF cells, WriterInv, FreshInv, KeysAreUnique, Holds
  <1>. QED
    BY <1>1, <1>2, ProcessAssumption

(* When only the cells change ...                                          *)
LEMMA CellStep ==
    ASSUME WriterInv, OneWriter, NEW w \in Writer, w \in Worker, KeysStay,
           pc'[w] = "idle",
           \A u \in Worker \ {w} : /\ pc'[u] = pc[u] /\ cmd'[u] = cmd[u]
                                   /\ off'[u] = off[u] /\ idx'[u] = idx[u]
    PROVE  /\ \A u \in Worker : Aim(u)'
           /\ \A u \in Writer : Alone(u)'
  <1>1. \A u \in Worker \ {w} : Aim(u)'
    <2>. SUFFICES ASSUME NEW u \in Worker \ {w} PROVE Aim(u)'
      OBVIOUS
    <2>1. u \notin Writer
      BY DEF OneWriter
    <2>. QED
      BY <2>1, Stays
  <1>2. Aim(w)' /\ Alone(w)'
    BY DEF Aim, Alone
  <1>3. \A u \in Writer : u = w
    BY DEF OneWriter
  <1>. QED
    BY <1>1, <1>2, <1>3

LEMMA CommandStep == BaseInv /\ [Next]_vars => CommandInv'
  <1>. SUFFICES ASSUME BaseInv, [Next]_vars, NEW u \in Worker
                PROVE  /\ pc'[u] # "idle" => cmd'[u] \in Commands(u)
                       /\ pc'[u] \in {"free_wait", "free"} => cmd'[u].op = "set"
    BY DEF CommandInv
  <1>. DEFINE Goal == /\ pc'[u] # "idle" => cmd'[u] \in Commands(u)
                      /\ pc'[u] \in {"free_wait", "free"} => cmd'[u].op = "set"
  <1>0. u \in Process /\ u # Cleaner
    BY ProcessAssumption DEF Process
  <1>1. CASE /\ cmd'[u] = cmd[u]
             /\ pc'[u] # "idle" => pc[u] # "idle"
             /\ pc'[u] \in {"free_wait", "free"} => pc[u] \in {"free_wait", "free"}
    BY <1>1 DEF BaseInv, CommandInv
  <1>2. ASSUME NEW w \in Worker, Call(w) PROVE Goal
    <2>1. CASE u = w
      BY <1>0, <1>2, <2>1 DEF Call, SearchFrom, Goto, BaseInv, TypeInv, TypeOK
    <2>2. CASE u # w
      BY <1>0, <1>1, <1>2, <2>2
      DEF Call, SearchFrom, Goto, BaseInv, TypeInv, TypeOK
    <2>. QED
      BY <2>1, <2>2
  <1>3. ASSUME NEW w \in Worker, NEW o, Return(w, o) PROVE Goal
    <2>1. CASE u = w
      BY <1>0, <1>3, <2>1 DEF Return, Goto, BaseInv, TypeInv, TypeOK
    <2>2. CASE u # w
      BY <1>0, <1>1, <1>3, <2>2 DEF Return, Goto, BaseInv, TypeInv, TypeOK
    <2>. QED
      BY <2>1, <2>2
  <1>4. ASSUME NEW w \in Worker, FindFilled(w) PROVE Goal
    <2>1. CASE Hit(w)
      BY <1>0, <1>1, <1>4, <2>1 DEF FindFilled, Hit, Goto, BaseInv, TypeInv, TypeOK
    <2>2. CASE NextCell(w, "filled_wait") /\ UNCHANGED <<cmd, idx, ret>>
      BY <1>0, <1>1, <1>4, <2>2
      DEF FindFilled, NextCell, Goto, BaseInv, TypeInv, TypeOK
    <2>3. CASE /\ cmd[w].op = "set"
               /\ SearchFrom(w, Home(w), "free_wait")
               /\ UNCHANGED <<cmd, idx, ret>>
      BY <1>0, <1>4, <2>3
      DEF FindFilled, SearchFrom, Goto, BaseInv, CommandInv, TypeInv, TypeOK
    <2>4. CASE Return(w, "miss")
      BY <1>3, <2>4
    <2>. QED
      BY <1>4, <2>1, <2>2, <2>3, <2>4 DEF FindFilled, NotFound
  <1>5. ASSUME NEW w \in Worker, FindFree(w) PROVE Goal
    <2>1. CASE Hit(w)
      BY <1>0, <1>1, <1>5, <2>1 DEF FindFree, Hit, Goto, BaseInv, TypeInv, TypeOK
    <2>2. CASE NextCell(w, "free_wait") /\ UNCHANGED <<cmd, idx, ret>>
      BY <1>0, <1>1, <1>5, <2>2
      DEF FindFree, NextCell, Goto, BaseInv, TypeInv, TypeOK
    <2>3. CASE Return(w, "full")
      BY <1>3, <2>3
    <2>. QED
      BY <1>5, <2>1, <2>2, <2>3 DEF FindFree
  <1>6. ASSUME NEW w \in Worker, Get(w) \/ Set(w) \/ Del(w) PROVE Goal
    BY <1>3, <1>6 DEF Get, Set, Del
  <1>7. ASSUME NEW p \in Process, Lock(p) PROVE Goal
    BY <1>0, <1>1, <1>7 DEF Lock, Goto, locals, BaseInv, TypeInv, TypeOK
  <1>8. CASE StartCollection
    BY <1>0, <1>1, <1>8
    DEF StartCollection, SearchFrom, Goto, BaseInv, TypeInv, TypeOK
  <1>9. CASE Collect
    BY <1>1, <1>9, CollectorFacts
  <1>10. CASE Tick \/ UNCHANGED vars
    BY <1>1, <1>10 DEF Tick, vars, locals
  <1>. QED
    BY <1>2, <1>4, <1>5, <1>6, <1>7, <1>8, <1>9, <1>10
    DEF Next, Step, CleanerStep, Process

(* One visit adds one cell to those a search has behind it.                *)
LEMMA BehindGrows ==
    ASSUME TypeInv, NEW w \in Worker, NEW l, NextCell(w, l), UNCHANGED cmd
    PROVE  \A c \in Behind(w)' : c \in Behind(w) \/ c = CellAt(w)
  <1>1. w \in Process /\ w # Cleaner /\ off[w] \in Nat
    BY ProcessAssumption DEF TypeInv, TypeOK, Process
  <1>2. off'[w] = off[w] + 1 /\ Home(w)' = Home(w)
    BY <1>1 DEF NextCell, Home, TypeInv, TypeOK
  <1>3. \A n \in 0 .. off[w] + 1 - 1 : n \in 0 .. off[w] - 1 \/ n = off[w]
    BY <1>1
  <1>. SUFFICES ASSUME NEW c \in Behind(w)' PROVE c \in Behind(w) \/ c = CellAt(w)
    OBVIOUS
  <1>4. PICK n \in 0 .. off'[w] - 1 : c = Probe(Home(w)', n)
    BY DEF Behind
  <1>. QED
    BY <1>1, <1>2, <1>3, <1>4 DEF Behind, CellAt

(* At the end of a search every cell has been visited.                     *)
LEMMA AllVisited ==
    ASSUME TypeInv, NEW w \in Worker, pc[w] # "idle", LastCell(w)
    PROVE  \A c \in Cell : c \in Behind(w) \/ c = CellAt(w)
  <1>1. Home(w) \in Cell
    BY HomeExists DEF Process
  <1>. QED
    BY <1>1, ProbeReachesAll, TableSizePositive DEF Behind, CellAt, LastCell

LEMMA WriterStep == ASSUME OneWriter PROVE WriterInv /\ [Next]_vars => WriterInv'
  <1>. SUFFICES ASSUME WriterInv, [Next]_vars
                PROVE  /\ \A u \in Worker : Aim(u)'
                       /\ \A u \in Writer : Alone(u)'
                       /\ FreshInv' /\ KeysAreUnique' /\ now' <= MaxTime
    BY TypeStep, CommandStep DEF WriterInv, BaseInv
  <1>. DEFINE Goal == /\ \A u \in Worker : Aim(u)'
                      /\ \A u \in Writer : Alone(u)'
                      /\ FreshInv' /\ KeysAreUnique' /\ now' <= MaxTime
  <1>. USE DEF CL_FREE, CL_FILLED, CL_RIP
  <1>0. TypeInv
    BY DEF WriterInv
  <1>1. ASSUME NEW w \in Worker, Call(w) PROVE Goal
    <2>1. \A u \in Worker \ {w} : /\ pc'[u] = pc[u] /\ cmd'[u] = cmd[u]
                                  /\ off'[u] = off[u] /\ idx'[u] = idx[u]
      BY <1>0, <1>1 DEF Call, SearchFrom, Goto, TypeInv, TypeOK, Process
    <2>2. pc'[w] = "filled_wait" /\ off'[w] = 0
      BY <1>0, <1>1 DEF Call, SearchFrom, Goto, TypeInv, TypeOK, Process
    <2>3. Aim(w)' /\ Alone(w)'
      BY <2>2 DEF Aim, Alone, Behind
    <2>. QED
      BY <1>1, <2>1, <2>3, QuietStep DEF Call, WriterInv, clocks
  <1>2. ASSUME NEW p \in Process, Lock(p) PROVE Goal
    <2>1. \A u \in Worker, S \in {{"filled_wait", "filled"}, {"free_wait", "free"},
                                 {"access_wait", "access"}} :
             pc'[u] \in S => pc[u] \in S
      BY <1>0, <1>2 DEF Lock, Goto, TypeInv, TypeOK, Process
    <2>2. \A u \in Worker : Aim(u)' /\ (u \in Writer => Alone(u)')
      BY <1>2, <2>1, CellsKept, Stays DEF Lock, locals
    <2>. QED
      BY <1>2, <2>2, ProcessAssumption
      DEF Lock, cells, clocks, WriterInv, FreshInv, KeysAreUnique, Holds
  <1>3. ASSUME NEW w \in Worker, NEW o, Return(w, o), UNCHANGED <<cells, now>>
        PROVE  Goal
    <2>1. /\ pc'[w] = "idle"
          /\ \A u \in Worker \ {w} : /\ pc'[u] = pc[u] /\ cmd'[u] = cmd[u]
                                     /\ off'[u] = off[u] /\ idx'[u] = idx[u]
      BY <1>0, <1>3 DEF Return, Goto, TypeInv, TypeOK, Process
    <2>2. Aim(w)' /\ Alone(w)'
      BY <2>1 DEF Aim, Alone
    <2>. QED
      BY <1>3, <2>1, <2>2, QuietStep DEF WriterInv
  <1>4. ASSUME NEW w \in Worker, FindFilled(w) PROVE Goal
    <2>1. pc[w] = "filled" /\ w \in Process /\ UNCHANGED <<cells, now>>
          /\ CellAt(w) \in Cell /\ cmd[w].key \in Key
      BY <1>0, <1>4, CellAtExists DEF FindFilled, Process, clocks, TypeInv
    <2>2. CASE Holds(CellAt(w), cmd[w].key) /\ Hit(w)
      <3>1. /\ pc'[w] = "access_wait" /\ idx'[w] = CellAt(w) /\ cmd' = cmd
            /\ \A u \in Worker \ {w} : /\ pc'[u] = pc[u] /\ cmd'[u] = cmd[u]
                                       /\ off'[u] = off[u] /\ idx'[u] = idx[u]
        BY <1>0, <2>2 DEF Hit, Goto, TypeInv, TypeOK, Process
      <3>2. Aim(w)'
        BY <2>1, <2>2, <3>1 DEF Aim, Holds, cells
      <3>3. \A c \in Cell \ {CellAt(w)} : ~Holds(c, cmd[w].key)
        BY <2>1, <2>2 DEF WriterInv, KeysAreUnique, Holds
      <3>4. Alone(w)'
        BY <2>1, <3>1, <3>3 DEF Alone, Holds, cells
      <3>. QED
        BY <2>1, <3>1, <3>2, <3>4, QuietStep DEF WriterInv
    <2>3. CASE /\ ~Holds(CellAt(w), cmd[w].key)
               /\ NextCell(w, "filled_wait") /\ UNCHANGED <<cmd, idx, ret>>
      <3>1. /\ pc'[w] \in {"filled_wait", "filled"}
            /\ \A u \in Worker \ {w} : /\ pc'[u] = pc[u] /\ cmd'[u] = cmd[u]
                                       /\ off'[u] = off[u] /\ idx'[u] = idx[u]
        BY <1>0, <2>1, <2>3 DEF NextCell, Goto, TypeInv, TypeOK, Process
      <3>2. w \in Writer => \A c \in Behind(w)' : ~Holds(c, cmd[w].key)
        BY <1>0, <2>1, <2>3, BehindGrows DEF WriterInv, Alone
      <3>3. Aim(w)' /\ (w \in Writer => Alone(w)')
        BY <2>1, <2>3, <3>1, <3>2 DEF Aim, Alone, Holds, cells
      <3>. QED
        BY <2>1, <3>1, <3>3, QuietStep DEF WriterInv
    <2>4. CASE /\ ~Holds(CellAt(w), cmd[w].key) /\ LastCell(w)
               /\ SearchFrom(w, Home(w), "free_wait") /\ UNCHANGED <<cmd, idx, ret>>
      <3>1. /\ pc'[w] = "free_wait"
            /\ \A u \in Worker \ {w} : /\ pc'[u] = pc[u] /\ cmd'[u] = cmd[u]
                                       /\ off'[u] = off[u] /\ idx'[u] = idx[u]
        BY <1>0, <2>1, <2>4 DEF SearchFrom, Goto, TypeInv, TypeOK, Process
      <3>2. w \in Writer => \A c \in Cell : ~Holds(c, cmd[w].key)
        BY <1>0, <2>1, <2>4, AllVisited DEF WriterInv, Alone
      <3>3. Aim(w)' /\ (w \in Writer => Alone(w)')
        BY <2>1, <2>4, <3>1, <3>2 DEF Aim, Alone, Holds, cells
      <3>. QED
        BY <2>1, <3>1, <3>3, QuietStep DEF WriterInv
    <2>5. CASE Return(w, "miss")
      BY <1>3, <2>1, <2>5
    <2>. QED
      BY <1>4, <2>2, <2>3, <2>4, <2>5 DEF FindFilled, NotFound
  <1>5. ASSUME NEW w \in Worker, FindFree(w) PROVE Goal
    <2>1. pc[w] = "free" /\ w \in Process /\ UNCHANGED <<cells, now>>
          /\ CellAt(w) \in Cell /\ cmd[w].key \in Key /\ cmd[w].op = "set"
      BY <1>0, <1>5, CellAtExists
      DEF FindFree, Process, clocks, TypeInv, WriterInv, CommandInv
    <2>2. CASE flag[CellAt(w)] = CL_FREE /\ Hit(w)
      <3>1. /\ pc'[w] = "access_wait" /\ idx'[w] = CellAt(w) /\ cmd' = cmd
            /\ \A u \in Worker \ {w} : /\ pc'[u] = pc[u] /\ cmd'[u] = cmd[u]
                                       /\ off'[u] = off[u] /\ idx'[u] = idx[u]
        BY <1>0, <2>2 DEF Hit, Goto, TypeInv, TypeOK, Process
      <3>2. Aim(w)'
        BY <2>1, <2>2, <3>1 DEF Aim, cells
      <3>3. w \in Writer => \A c \in Cell : ~Holds(c, cmd[w].key)
        BY <2>1 DEF WriterInv, Alone
      <3>4. w \in Writer => Alone(w)'
        BY <2>1, <3>1, <3>3 DEF Alone, Holds, cells
      <3>. QED
        BY <2>1, <3>1, <3>2, <3>4, QuietStep DEF WriterInv
    <2>3. CASE NextCell(w, "free_wait") /\ UNCHANGED <<cmd, idx, ret>>
      <3>1. /\ pc'[w] \in {"free_wait", "free"}
            /\ \A u \in Worker \ {w} : /\ pc'[u] = pc[u] /\ cmd'[u] = cmd[u]
                                       /\ off'[u] = off[u] /\ idx'[u] = idx[u]
        BY <1>0, <2>1, <2>3 DEF NextCell, Goto, TypeInv, TypeOK, Process
      <3>2. w \in Writer => \A c \in Cell : ~Holds(c, cmd[w].key)
        BY <2>1 DEF WriterInv, Alone
      <3>3. Aim(w)' /\ (w \in Writer => Alone(w)')
        BY <2>1, <2>3, <3>1, <3>2 DEF Aim, Alone, Holds, cells
      <3>. QED
        BY <2>1, <3>1, <3>3, QuietStep DEF WriterInv
    <2>4. CASE Return(w, "full")
      BY <1>3, <2>1, <2>4
    <2>. QED
      BY <1>5, <2>2, <2>3, <2>4 DEF FindFree
  <1>6. ASSUME NEW w \in Worker, Get(w) PROVE Goal
    BY <1>3, <1>6 DEF Get, clocks
  <1>7. ASSUME NEW w \in Worker, Set(w) PROVE Goal
    <2>1. (\A u \in Worker : Aim(u)') /\ (\A u \in Writer : Alone(u)')
      BY <1>7, SetFacts, CellStep
    <2>2. FreshInv'
      BY <1>7, SetFacts DEF Set, FreshInv, WriterInv, TypeInv, TypeOK
    <2>3. \A c \in Cell : c # idx[w] => /\ flag'[c] = flag[c] /\ key'[c] = key[c]
      BY <1>7 DEF Set, WriterInv, TypeInv, TypeOK
    <2>4. key'[idx[w]] = cmd[w].key
      BY <1>7, SetFacts DEF Set, WriterInv, TypeInv, TypeOK
    <2>5. KeysAreUnique'
      BY <1>7, <2>3, <2>4, SetFacts DEF WriterInv, KeysAreUnique, Holds
    <2>. QED
      BY <1>7, <2>1, <2>2, <2>5 DEF Set, clocks, WriterInv
  <1>8. ASSUME NEW w \in Worker, Del(w) PROVE Goal
    <2>1. (\A u \in Worker : Aim(u)') /\ (\A u \in Writer : Alone(u)')
      BY <1>8, DelFacts, CellStep
    <2>2. FreshInv' /\ KeysAreUnique'
      BY <1>8, DelFacts
      DEF NothingStored, FreshInv, KeysAreUnique, Holds, WriterInv
    <2>. QED
      BY <1>8, <2>1, <2>2 DEF Del, clocks, WriterInv
  <1>9. CASE StartCollection
    <2>1. \A u \in Worker : pc'[u] = pc[u] /\ off'[u] = off[u]
      BY <1>0, <1>9, ProcessAssumption
      DEF StartCollection, SearchFrom, Goto, TypeInv, TypeOK, Process
    <2>2. \A u \in Worker : Aim(u)' /\ (u \in Writer => Alone(u)')
      BY <1>9, <2>1, CellsKept, Stays DEF StartCollection
    <2>. QED
      BY <1>9, <2>2, ProcessAssumption
      DEF StartCollection, cells, clocks, WriterInv, FreshInv, KeysAreUnique, Holds
  <1>10. CASE Collect
    <2>1. \A u \in Worker : Aim(u)' /\ (u \in Writer => Alone(u)')
      BY <1>10, CollectFacts, Stays
    <2>2. FreshInv' /\ KeysAreUnique'
      BY <1>10, CollectFacts
      DEF NothingStored, FreshInv, KeysAreUnique, Holds, WriterInv
    <2>. QED
      BY <1>10, <2>1, <2>2, CollectFacts, ProcessAssumption DEF WriterInv
  <1>11. CASE Tick \/ UNCHANGED vars
    <2>1. \A u \in Worker : Aim(u)' /\ (u \in Writer => Alone(u)')
      BY <1>11, CellsKept, Stays DEF Tick, vars, locals
    <2>2. now' <= MaxTime
      BY <1>11, TimeAssumption DEF Tick, vars, clocks, WriterInv, TypeInv, TypeOK
    <2>. QED
      BY <1>11, <2>1, <2>2, ProcessAssumption
      DEF Tick, vars, cells, WriterInv, FreshInv, KeysAreUnique, Holds
  <1>. QED
    BY <1>1, <1>2, <1>4, <1>5, <1>6, <1>7, <1>8, <1>9, <1>10, <1>11
    DEF Next, Step, CleanerStep, Process

-----------------------------------------------------------------------------
(* Any number of writers: what a race between sets can reach.              *)

LEMMA BaseInit == Init => BaseInv
  BY WriterInit DEF WriterInv, BaseInv

LEMMA BaseStep == BaseInv /\ [Next]_vars => BaseInv'
  <1>. SUFFICES ASSUME BaseInv, [Next]_vars PROVE FreshInv'
    BY TypeStep, CommandStep DEF BaseInv
  <1>. USE DEF CL_FREE, CL_FILLED, CL_RIP
  <1>1. CASE UNCHANGED cells
    BY <1>1 DEF cells, BaseInv, FreshInv
  <1>2. ASSUME NEW w \in Worker, Set(w) PROVE FreshInv'
    BY <1>2 DEF Set, BaseInv, FreshInv, TypeInv, TypeOK
  <1>3. ASSUME NEW w \in Worker, Del(w) PROVE FreshInv'
    BY <1>3 DEF Del, BaseInv, FreshInv, TypeInv, TypeOK
  <1>4. CASE Collect
    BY <1>4, CollectorFacts DEF NothingStored, BaseInv, FreshInv
  <1>. QED
    BY <1>1, <1>2, <1>3, <1>4
    DEF Next, Step, CleanerStep, Call, Lock, FindFilled, FindFree, Get,
        StartCollection, Tick, vars

(* A worker that goes on with its command where it was.                    *)
Remains(u) ==
    /\ cmd'[u] = cmd[u] /\ off'[u] = off[u] /\ idx'[u] = idx[u]
    /\ pc'[u] \in {"filled_wait", "filled"} => pc[u] \in {"filled_wait", "filled"}
    /\ pc'[u] \in {"free_wait", "free"} => pc[u] \in {"free_wait", "free"}
    /\ pc'[u] \in {"access_wait", "access"} => pc[u] \in {"access_wait", "access"}

LEMMA OthersRemain ==
    ASSUME TypeInv, NEW w \in Worker, Call(w) \/ Step(w)
    PROVE  \A u \in Worker \ {w} : Remains(u)
  <1>. SUFFICES ASSUME NEW u \in Worker \ {w} PROVE Remains(u)
    OBVIOUS
  <1>0. u \in Process /\ w \in Process
    BY DEF Process
  <1>1. ASSUME NEW o, Return(w, o) PROVE Remains(u)
    BY <1>0, <1>1 DEF Return, Goto, Remains, TypeInv, TypeOK
  <1>2. ASSUME NEW l, NextCell(w, l) \/ SearchFrom(w, Home(w), l), UNCHANGED <<cmd, idx>>
        PROVE  Remains(u)
    BY <1>0, <1>2 DEF NextCell, SearchFrom, Goto, Remains, TypeInv, TypeOK
  <1>3. CASE Hit(w)
    BY <1>0, <1>3 DEF Hit, Goto, Remains, TypeInv, TypeOK
  <1>4. CASE Call(w)
    BY <1>0, <1>4 DEF Call, SearchFrom, Goto, Remains, TypeInv, TypeOK
  <1>5. CASE Lock(w)
    BY <1>0, <1>5 DEF Lock, locals, Goto, Remains, TypeInv, TypeOK
  <1>. QED
    BY <1>1, <1>2, <1>3, <1>4, <1>5 DEF Step, FindFilled, NotFound, FindFree, Get, Set, Del

LEMMA LockRemains ==
    ASSUME TypeInv, NEW p \in Process, Lock(p)
    PROVE  UNCHANGED cells /\ \A u \in Worker : Remains(u)
  BY DEF Lock, locals, Goto, Remains, TypeInv, TypeOK, Process

LEMMA CleanerRemains ==
    ASSUME BaseInv, StartCollection \/ Collect \/ Tick \/ UNCHANGED vars
    PROVE  NothingStored /\ \A u \in Worker : Remains(u)
  <1>1. CASE StartCollection
    BY <1>1, ProcessAssumption
    DEF StartCollection, SearchFrom, Goto, Remains, NothingStored, cells,
        BaseInv, TypeInv, TypeOK, Process
  <1>2. CASE Collect
    BY <1>2, CollectorFacts DEF Remains
  <1>3. CASE Tick \/ UNCHANGED vars
    BY <1>3 DEF Tick, vars, cells, locals, Remains, NothingStored
  <1>. QED
    BY <1>1, <1>2, <1>3

(* A key of which no two sets have met has one record at most; a set of it *)
(* is alone, and what it has learnt stays true.                            *)
Single(k) ==
    /\ \A c, d \in Cell : Holds(c, k) /\ Holds(d, k) => c = d
    /\ \A u, w \in Sets(k) : u = w
    /\ \A w \in Sets(k) : Alone(w)

SingleInv == BaseInv /\ \A k \in Key \ met : Single(k)

(* Steps after which no cell holds k that did not hold it before.          *)
Fewer(k) == \A c \in Cell : Holds(c, k)' => Holds(c, k)

LEMMA AloneRemains ==
    ASSUME TypeInv, NEW u \in Worker, Remains(u), Alone(u), Fewer(cmd[u].key)
    PROVE  Alone(u)'
  <1>1. ASSUME pc'[u] \in {"filled_wait", "filled"}, NEW c \in Behind(u)'
        PROVE  c \in Behind(u) /\ c \in Cell
    <2>1. u \in Process /\ u # Cleaner /\ Home(u) \in Cell
      BY <1>1, HomeExists, ProcessAssumption DEF Process, Remains
    <2>2. c \in Behind(u)
      BY <1>1, <2>1 DEF Behind, Home, Remains
    <2>3. \A n \in 0 .. off[u] - 1 : n \in 0 .. TableSize - 1
      BY <2>1, TableSizePositive DEF TypeInv, TypeOK
    <2>. QED
      BY <2>1, <2>2, <2>3, ProbeInTable DEF Behind
  <1>2. pc'[u] \in {"filled_wait", "filled"}
          => \A c \in Behind(u)' : ~Holds(c, cmd[u].key)'
    BY <1>1 DEF Alone, Remains, Fewer
  <1>. QED
    BY <1>2 DEF Alone, Remains, Fewer, Holds

(* A step of worker w, or of nobody, that leaves k single.                 *)
LEMMA SingleStays ==
    ASSUME TypeInv, NEW k \in Key, Single(k), Fewer(k), NEW w,
           \A u \in Worker \ {w} : Remains(u),
           w \in Sets(k)' => w \in Sets(k) /\ Alone(w)'
    PROVE  Single(k)'
  <1>1. \A u \in Sets(k)' : u \in Sets(k)
    BY DEF Sets, Remains
  <1>2. ASSUME NEW u \in Sets(k)', u # w PROVE Alone(u)'
    BY <1>1, <1>2, AloneRemains DEF Single, Sets
  <1>. QED
    BY <1>1, <1>2 DEF Single, Fewer

LEMMA SingleInit == RivalsInit => SingleInv
  BY BaseInit
  DEF RivalsInit, Init, SingleInv, Single, Sets, Holds, NoCommand, CL_FREE, CL_FILLED

(* A set is called when no other set of its key runs ...                   *)
LEMMA FirstSet ==
    ASSUME SingleInv, Next, Observe, BaseInv', NEW k \in Key \ met', SetCalled(k)
    PROVE  Single(k)'
  <1>0. TypeInv /\ TypeInv'
    BY DEF SingleInv, BaseInv
  <1>1. PICK w \in Sets(k)' : pc[w] = "idle" /\ pc'[w] # "idle"
    BY DEF SetCalled
  <1>2. w \in Worker /\ w \in Process /\ w # Cleaner
    BY ProcessAssumption DEF Sets, Process
  <1>3. ~Remains(w)
    BY <1>0, <1>1, <1>2 DEF Remains, TypeInv, TypeOK, Waiting, Inside
  <1>4. Call(w)
    <2>1. ~Step(w)
      BY <1>1 DEF Step, Lock, FindFilled, FindFree, Get, Set, Del
    <2>2. \A u \in Worker \ {w} : ~Call(u) /\ ~Step(u)
      BY <1>0, <1>2, <1>3, OthersRemain
    <2>3. ~CleanerStep /\ ~Tick
      BY <1>0, <1>2, <1>3, LockRemains, CleanerRemains
      DEF CleanerStep, SingleInv, Process
    <2>. QED
      BY <2>1, <2>2, <2>3 DEF Next
  <1>5. UNCHANGED cells /\ pc'[w] = "filled_wait" /\ off'[w] = 0
    BY <1>0, <1>2, <1>4 DEF Call, SearchFrom, Goto, TypeInv, TypeOK
  <1>6. Sets(k) = {} /\ (k \notin met \/ \A c \in Cell : ~Holds(c, k))
    BY DEF Observe
  <1>7. \A u \in Sets(k)' : u = w
    <2>. SUFFICES ASSUME NEW u \in Worker \ {w}, u \in Sets(k)' PROVE FALSE
      BY DEF Sets
    <2>1. Remains(u)
      BY <1>0, <1>2, <1>4, OthersRemain
    <2>. QED
      BY <1>6, <2>1 DEF Remains, Sets
  <1>8. \A c \in Cell : Holds(c, k)' = Holds(c, k)
    BY <1>5 DEF cells, Holds
  <1>9. Alone(w)'
    BY <1>5 DEF Alone, Behind
  <1>. QED
    BY <1>6, <1>7, <1>8, <1>9 DEF SingleInv, Single

(* ... and every other step leaves a key single.                           *)
LEMMA LaterSteps ==
    ASSUME BaseInv, Next, NEW k \in Key, Single(k), ~SetCalled(k)
    PROVE  Single(k)'
  <1>. USE DEF CL_FREE, CL_FILLED, CL_RIP
  <1>0. TypeInv
    BY DEF BaseInv
  <1>1. ASSUME UNCHANGED cells PROVE Fewer(k)
    BY <1>1 DEF cells, Fewer, Holds
  <1>2. ASSUME NothingStored, \A u \in Worker : Remains(u) PROVE Single(k)'
    <2>1. Fewer(k)
      BY <1>2 DEF NothingStored, Fewer, Holds
    <2>2. Cleaner \notin Sets(k)'
      BY ProcessAssumption DEF Sets
    <2>. QED
      BY <1>0, <1>2, <2>1, <2>2, SingleStays
  <1>3. ASSUME NEW w \in Worker, Fewer(k), Call(w) \/ Step(w),
               w \in Sets(k)' => w \in Sets(k) /\ Alone(w)'
        PROVE  Single(k)'
    BY <1>0, <1>3, OthersRemain, SingleStays
  <1>4. ASSUME NEW w \in Worker, NEW o, Return(w, o) PROVE w \notin Sets(k)'
    BY <1>0, <1>4 DEF Return, Sets, NoCommand, TypeInv, TypeOK
  <1>5. ASSUME NEW w \in Worker, Call(w) PROVE Single(k)'
    <2>1. pc[w] = "idle" /\ pc'[w] # "idle" /\ UNCHANGED cells
      BY <1>0, <1>5 DEF Call, SearchFrom, Goto, TypeInv, TypeOK, Process
    <2>2. w \notin Sets(k)'
      BY <2>1 DEF SetCalled
    <2>. QED
      BY <1>1, <1>3, <1>5, <2>1, <2>2
  <1>6. ASSUME NEW w \in Worker, FindFilled(w) PROVE Single(k)'
    <2>1. pc[w] = "filled" /\ w \in Process /\ UNCHANGED cells /\ CellAt(w) \in Cell
      BY <1>0, <1>6, CellAtExists DEF FindFilled, Process
    <2>2. \A c \in Cell : Holds(c, k)' = Holds(c, k)
      BY <2>1 DEF cells, Holds
    <2>3. ASSUME w \in Sets(k)' PROVE w \in Sets(k) /\ Alone(w)'
      <3>1. ~(\E o : Return(w, o))
        BY <1>4, <2>3
      <3>2. cmd' = cmd /\ w \in Sets(k) /\ cmd[w].key = k
        BY <1>6, <2>3, <3>1 DEF FindFilled, NotFound, Hit, Sets
      <3>3. Alone(w)
        BY <3>2 DEF Single
      <3>4. CASE Holds(CellAt(w), k) /\ Hit(w)
        <4>1. pc'[w] = "access_wait" /\ idx'[w] = CellAt(w)
          BY <1>0, <2>1, <3>4 DEF Hit, Goto, TypeInv, TypeOK
        <4>. QED
          BY <2>1, <2>2, <3>2, <3>4, <4>1 DEF Alone, Single
      <3>5. CASE ~Holds(CellAt(w), k) /\ NextCell(w, "filled_wait")
        <4>1. pc'[w] \in {"filled_wait", "filled"}
          BY <1>0, <2>1, <3>5 DEF NextCell, Goto, TypeInv, TypeOK
        <4>2. \A c \in Behind(w)' : c \in Behind(w) \/ c = CellAt(w)
          BY <1>0, <3>2, <3>5, BehindGrows
        <4>3. \A c \in Behind(w) : c \in Cell /\ ~Holds(c, k)
          <5>1. Home(w) \in Cell /\ \A n \in 0 .. off[w] - 1 : n \in 0 .. TableSize - 1
            BY <1>0, <2>1, HomeExists, TableSizePositive DEF TypeInv, TypeOK
          <5>. QED
            BY <2>1, <3>2, <3>3, <5>1, ProbeInTable DEF Alone, Behind
        <4>. QED
          BY <2>1, <2>2, <3>2, <3>5, <4>1, <4>2, <4>3 DEF Alone
      <3>6. CASE ~Holds(CellAt(w), k) /\ LastCell(w) /\ SearchFrom(w, Home(w), "free_wait")
        <4>1. pc'[w] = "free_wait"
          BY <1>0, <2>1, <3>6 DEF SearchFrom, Goto, TypeInv, TypeOK
        <4>2. \A c \in Cell : c \in Behind(w) \/ c = CellAt(w)
          BY <1>0, <2>1, <3>6, AllVisited
        <4>. QED
          BY <2>1, <2>2, <3>2, <3>3, <3>6, <4>1, <4>2 DEF Alone
      <3>. QED
        BY <1>6, <3>1, <3>2, <3>4, <3>5, <3>6 DEF FindFilled, NotFound
    <2>. QED
      BY <1>1, <1>3, <1>6, <2>1, <2>3 DEF Step
  <1>7. ASSUME NEW w \in Worker, FindFree(w) PROVE Single(k)'
    <2>1. pc[w] = "free" /\ w \in Process /\ UNCHANGED cells /\ CellAt(w) \in Cell
      BY <1>0, <1>7, CellAtExists DEF FindFree, Process
    <2>2. \A c \in Cell : Holds(c, k)' = Holds(c, k)
      BY <2>1 DEF cells, Holds
    <2>3. ASSUME w \in Sets(k)' PROVE w \in Sets(k) /\ Alone(w)'
      <3>1. ~(\E o : Return(w, o))
        BY <1>4, <2>3
      <3>2. cmd' = cmd /\ w \in Sets(k) /\ cmd[w].key = k
        BY <1>7, <2>3, <3>1 DEF FindFree, Hit, Sets
      <3>3. \A c \in Cell : ~Holds(c, k)
        BY <2>1, <3>2 DEF Single, Alone
      <3>4. pc'[w] \in {"free_wait", "free", "access_wait"}
        BY <1>0, <1>7, <2>1, <3>1 DEF FindFree, Hit, NextCell, Goto, TypeInv, TypeOK
      <3>. QED
        BY <2>2, <3>2, <3>3, <3>4 DEF Alone
    <2>. QED
      BY <1>1, <1>3, <1>7, <2>1, <2>3 DEF Step
  <1>8. ASSUME NEW w \in Worker, Get(w) PROVE Single(k)'
    BY <1>1, <1>3, <1>4, <1>8 DEF Step, Get
  <1>9. ASSUME NEW w \in Worker, Del(w) PROVE Single(k)'
    <2>1. Fewer(k)
      BY <1>0, <1>9 DEF Del, Fewer, Holds, TypeInv, TypeOK
    <2>. QED
      BY <1>3, <1>4, <1>9, <2>1 DEF Step, Del
  <1>10. ASSUME NEW w \in Worker, Set(w) PROVE Single(k)'
    <2>1. /\ pc[w] = "access" /\ idx[w] \in Cell /\ key'[idx[w]] = cmd[w].key
          /\ \A c \in Cell \ {idx[w]} : Holds(c, k)' = Holds(c, k)
          /\ w \notin Sets(k)'
      BY <1>0, <1>4, <1>10 DEF Set, Holds, TypeInv, TypeOK
    <2>2. CASE cmd[w].key # k
      <3>1. Fewer(k)
        BY <2>1, <2>2 DEF Fewer, Holds
      <3>. QED
        BY <1>3, <1>10, <2>1, <3>1 DEF Step
    <2>3. CASE cmd[w].key = k
      <3>1. w \in Sets(k)
        BY <1>10, <2>3 DEF Set, Sets
      <3>2. \A c \in Cell \ {idx[w]} : ~Holds(c, k)
        BY <2>1, <2>3, <3>1 DEF Single, Alone
      <3>3. Sets(k)' = {}
        <4>. SUFFICES ASSUME NEW u \in Worker \ {w}, u \in Sets(k)' PROVE FALSE
          BY <2>1 DEF Sets
        <4>1. Remains(u)
          BY <1>0, <1>10, OthersRemain DEF Step
        <4>. QED
          BY <3>1, <4>1 DEF Remains, Sets, Single
      <3>. QED
        BY <2>1, <3>2, <3>3 DEF Single
    <2>. QED
      BY <2>2, <2>3
  <1>11. ASSUME NEW p \in Process, Lock(p) PROVE Single(k)'
    BY <1>0, <1>2, <1>11, LockRemains DEF NothingStored, cells
  <1>12. CASE StartCollection \/ Collect \/ Tick
    BY <1>2, <1>12, CleanerRemains
  <1>. QED
    BY <1>5, <1>6, <1>7, <1>8, <1>9, <1>10, <1>11, <1>12
    DEF Next, Step, CleanerStep, Process

LEMMA SingleStep ==
    SingleInv /\ [RivalsNext]_<<vars, met, rivals>> => SingleInv'
  <1>. SUFFICES ASSUME SingleInv, [RivalsNext]_<<vars, met, rivals>>
                PROVE  SingleInv'
    OBVIOUS
  <1>0. BaseInv'
    BY BaseStep DEF SingleInv, RivalsNext
  <1>1. ASSUME RivalsNext, NEW k \in Key \ met' PROVE Single(k)'
    <2>1. CASE SetCalled(k)
      BY <1>0, <1>1, <2>1, FirstSet DEF RivalsNext
    <2>2. CASE ~SetCalled(k)
      <3>1. k \notin met
        BY <1>1, <2>2 DEF RivalsNext, Observe
      <3>. QED
        BY <1>1, <2>2, <3>1, LaterSteps DEF SingleInv, RivalsNext
    <2>. QED
      BY <2>1, <2>2
  <1>2. CASE UNCHANGED <<vars, met, rivals>>
    BY <1>2 DEF SingleInv, BaseInv, TypeInv, TypeOK, CommandInv, FreshInv, Single, Sets,
       Alone, Holds, Behind, Home, vars, cells, locals, clocks
  <1>. QED
    BY <1>0, <1>1, <1>2 DEF SingleInv

(* However many processes write, a key is stored twice only if two sets of *)
(* it have run at the same time since the table had no record of it.       *)
THEOREM OneCopyUnlessSetsMeet == RivalsSpec => []OneCopyUnlessMet
  <1>1. SingleInv => OneCopyUnlessMet
    BY DEF SingleInv, Single, OneCopyUnlessMet
  <1>. QED
    BY SingleInit, SingleStep, <1>1, PTL DEF RivalsSpec

-----------------------------------------------------------------------------
(* A set on its way to a used cell has found its own key there, or is one  *)
(* of the rivals of whoever wrote the key.                                 *)
RivalInv ==
    /\ BaseInv
    /\ \A w \in Worker :
          pc[w] \in {"access_wait", "access"} /\ cmd[w].op = "set" /\ flag[idx[w]] # CL_FREE
            => key[idx[w]] = cmd[w].key \/ w \in rivals[idx[w]]

LEMMA RivalInit == RivalsInit => RivalInv
  BY BaseInit DEF RivalsInit, Init, RivalInv, Process

(* A set comes to access from a search whose last cell it saw.             *)
LEMMA AccessFound ==
    ASSUME BaseInv, Next, NEW w \in Worker, pc'[w] \in {"access_wait", "access"}
    PROVE  \/ Remains(w)
           \/ /\ UNCHANGED cells
              /\ flag[idx'[w]] # CL_FREE => key[idx'[w]] = cmd'[w].key
  <1>0. TypeInv /\ w \in Process /\ w # Cleaner
    BY ProcessAssumption DEF BaseInv, Process
  <1>1. CASE \E u \in Worker \ {w} : Call(u) \/ Step(u)
    BY <1>0, <1>1, OthersRemain
  <1>2. CASE CleanerStep \/ Tick
    BY <1>0, <1>2, CleanerRemains, LockRemains DEF CleanerStep, Process
  <1>3. CASE Lock(w)
    BY <1>0, <1>3, LockRemains
  <1>4. ASSUME NEW o, Return(w, o) PROVE FALSE
    BY <1>0, <1>4 DEF Return, Goto, TypeInv, TypeOK
  <1>5. ASSUME Call(w) PROVE FALSE
    BY <1>0, <1>5 DEF Call, SearchFrom, Goto, TypeInv, TypeOK
  <1>6. ASSUME FindFilled(w) \/ FindFree(w)
        PROVE  /\ UNCHANGED cells
               /\ flag[idx'[w]] # CL_FREE => key[idx'[w]] = cmd'[w].key
    <2>1. Hit(w) /\ (Holds(CellAt(w), cmd[w].key) \/ flag[CellAt(w)] = CL_FREE)
      BY <1>0, <1>4, <1>6
      DEF FindFilled, FindFree, NotFound, SearchFrom, NextCell, Goto, TypeInv, TypeOK
    <2>2. idx'[w] = CellAt(w) /\ cmd' = cmd
      BY <1>0, <2>1 DEF Hit, TypeInv, TypeOK
    <2>. QED
      BY <1>6, <2>1, <2>2 DEF FindFilled, FindFree, Holds
  <1>7. ASSUME Get(w) \/ Set(w) \/ Del(w) PROVE FALSE
    BY <1>4, <1>7 DEF Get, Set, Del
  <1>. QED
    BY <1>1, <1>2, <1>3, <1>5, <1>6, <1>7 DEF Next, Step

LEMMA RivalStep ==
    RivalInv /\ [RivalsNext]_<<vars, met, rivals>> => RivalInv'
  <1>. SUFFICES ASSUME RivalInv, [RivalsNext]_<<vars, met, rivals>>
                PROVE  RivalInv'
    OBVIOUS
  <1>0. BaseInv /\ BaseInv'
    BY BaseStep DEF RivalInv, RivalsNext
  <1>1. ASSUME RivalsNext, NEW w \in Worker, pc'[w] \in {"access_wait", "access"},
               cmd'[w].op = "set", flag'[idx'[w]] # CL_FREE, key'[idx'[w]] # cmd'[w].key
        PROVE  w \in rivals'[idx'[w]]
    <2>. DEFINE c == idx'[w]
    <2>0. c \in Cell
      BY <1>0 DEF BaseInv, TypeInv, TypeOK
    <2>1. Remains(w)
      BY <1>0, <1>1, AccessFound DEF cells, RivalsNext
    <2>2. flag[c] # CL_FREE /\ key'[c] = key[c] => w \in rivals[c]
      BY <1>1, <2>1 DEF Remains, RivalInv
    <2>. QED
      BY <1>1, <2>0, <2>2 DEF RivalsNext, Observe
  <1>2. CASE UNCHANGED <<vars, met, rivals>>
    BY <1>0, <1>2 DEF RivalInv, vars, cells, locals
  <1>. QED
    BY <1>0, <1>1, <1>2 DEF RivalInv

(* However many processes write, the key of a used cell is rewritten only  *)
(* by a set of another key that ran already when the key was written.      *)
THEOREM OnlyRivalsRewriteKeys == RivalsSpec => KeysSettle
  <1>. DEFINE Rewrites(w, c) == pc[w] = "access" /\ pc'[w] = "idle" /\ idx[w] = c
  <1>1. ASSUME RivalInv, [RivalsNext]_<<vars, met, rivals>>,
               NEW c \in Cell, flag[c] # CL_FREE, key'[c] # key[c]
        PROVE  \E w \in rivals[c] : Rewrites(w, c)
    <2>1. Next
      BY <1>1 DEF RivalsNext, vars, cells
    <2>2. PICK w \in Worker : Set(w)
      BY <1>1, <2>1
      DEF Next, Step, CleanerStep, Call, Lock, FindFilled, FindFree, Get, Del,
          StartCollection, Collect, Tick, cells
    <2>3. TypeInv
      BY <1>1 DEF RivalInv, BaseInv
    <2>4. Rewrites(w, c) /\ key'[c] = cmd[w].key /\ cmd[w].op = "set"
      BY <1>1, <2>2, <2>3 DEF Set, Return, Goto, TypeInv, TypeOK, Process
    <2>. QED
      BY <1>1, <2>4 DEF RivalInv
  <1>2. RivalInv /\ [RivalsNext]_<<vars, met, rivals>>
          => [\A c \in Cell : flag[c] # CL_FREE /\ key'[c] # key[c]
                => \E w \in rivals[c] : Rewrites(w, c)]_<<vars, met, rivals>>
    BY <1>1
  <1>. QED
    BY RivalInit, RivalStep, <1>2, PTL DEF RivalsSpec, KeysSettle

-----------------------------------------------------------------------------
(* The theorems.                                                           *)

LEMMA StoreInit == Init => Map!Init
  BY DEF Init, Map!Init, Store, CL_FREE, CL_FILLED

LEMMA StoreStep ==
    ASSUME LifetimesFit PROVE WriterInv /\ [Next]_vars => [Map!Next]_(Map!vars)
  <1>. SUFFICES ASSUME WriterInv, [Next]_vars PROVE [Map!Next]_(Map!vars)
    OBVIOUS
  <1>. USE DEF CL_FREE, CL_FILLED, CL_RIP
  <1>1. CASE UNCHANGED cells /\ now' = now
    BY <1>1 DEF cells, Store, Record, Map!vars
  <1>2. ASSUME NEW w \in Worker, Set(w) PROVE Map!Next
    <2>. DEFINE k == cmd[w].key
                v == cmd[w].value
                t == cmd[w].ttl
    <2>0. PICK i \in Cell : i = idx[w]
      BY <1>2, SetFacts
    <2>1. /\ k \in Key /\ v \in Value /\ t \in TTL /\ i \in Cell
          /\ \A c \in Cell \ {i} : ~Holds(c, k)
      BY <1>2, <2>0, SetFacts
    <2>2. ToInt(t + now) = now + t
      BY <2>1, LifetimeIsNat, TimeAssumption
      DEF LifetimesFit, ToInt, WriterInv, TypeInv, TypeOK
    <2>3. /\ flag'[i] = CL_FILLED
          /\ Record(i)' = [key |-> k, value |-> v, death |-> now + t]
      <3>1. /\ flag'[i] = CL_FILLED /\ key'[i] = k /\ value'[i] = v
            /\ death'[i] = ToInt(t + now)
        BY <1>2, <2>0, <2>1 DEF Set, WriterInv, TypeInv, TypeOK
      <3>. QED
        BY <2>2, <3>1 DEF Record
    <2>4. \A c \in Cell \ {i} : flag'[c] = flag[c] /\ Record(c)' = Record(c)
      BY <1>2, <2>0, <2>1 DEF Set, Record, WriterInv, TypeInv, TypeOK
    <2>5. flag[i] = CL_FILLED => Record(i).key = k
      BY <1>2, <2>0 DEF Set, Record, WriterInv, Aim
    <2>6. \A c \in Cell \ {i} : flag[c] = CL_FILLED => Record(c).key # k
      BY <2>1 DEF Holds, Record
    <2>7. Store' = Map!Others(k) \cup {Record(i)'}
      <3>1. Record(i)' \in Store'
        BY <2>3 DEF Store
      <3>2. \A c \in Cell \ {i} : flag[c] = CL_FILLED => Record(c) \in Store'
        BY <2>4 DEF Store
      <3>3. Map!Others(k) \subseteq Store'
        BY <2>5, <3>2 DEF Store, Map!Others
      <3>4. \A c \in Cell \ {i} : flag'[c] = CL_FILLED => Record(c)' \in Map!Others(k)
        BY <2>4, <2>6 DEF Store, Map!Others
      <3>5. Store' \subseteq Map!Others(k) \cup {Record(i)'}
        BY <3>4 DEF Store
      <3>. QED
        BY <3>1, <3>3, <3>5
    <2>8. Map!Put(k, v, t)
      BY <1>2, <2>3, <2>7 DEF Map!Put, Set, clocks
    <2>. QED
      BY <2>1, <2>8 DEF Map!Next
  <1>3. ASSUME NEW w \in Worker, Del(w) PROVE Map!Next
    <2>. DEFINE k == cmd[w].key
                i == idx[w]
    <2>1. /\ k \in Key /\ i \in Cell /\ flag[i] # CL_FREE /\ key[i] = k
          /\ \A c \in Cell \ {i} : ~Holds(c, k)
      BY <1>3, DelFacts
    <2>2. flag'[i] = CL_RIP
      BY <1>3, <2>1 DEF Del, WriterInv, TypeInv, TypeOK
    <2>3. \A c \in Cell : /\ c # i => flag'[c] = flag[c]
                          /\ Record(c)' = Record(c)
      BY <1>3, <2>1 DEF Del, Record, WriterInv, TypeInv, TypeOK
    <2>4. \A c \in Cell \ {i} : flag[c] = CL_FILLED => Record(c).key # k
      BY <2>1 DEF Holds, Record
    <2>5. Record(i).key = k
      BY <2>1 DEF Record
    <2>6. Store' = Map!Others(k)
      BY <2>1, <2>2, <2>3, <2>4, <2>5 DEF Store, Map!Others
    <2>. QED
      BY <1>3, <2>1, <2>6 DEF Map!Next, Map!Remove, Del, clocks
  <1>4. ASSUME Collect PROVE [Map!Next]_(Map!vars)
    <2>. DEFINE i == CellAt(Cleaner)
    <2>1. /\ i \in Cell /\ now' = now
          /\ \A c \in Cell : Record(c)' = Record(c)
      BY <1>4, CollectFacts DEF NothingStored, Record
    <2>2. CASE flag' = flag
      BY <2>1, <2>2 DEF Store, Map!vars
    <2>3. CASE flag' # flag /\ Buries(i)
      <3>1. /\ now > death[i] /\ flag'[i] = CL_RIP
            /\ \A c \in Cell \ {i} : flag'[c] = flag[c]
        BY <2>1, <2>3 DEF Buries, WriterInv, TypeInv, TypeOK
      <3>2. CASE flag[i] = CL_FILLED
        <4>1. \A c \in Cell \ {i} : flag[c] = CL_FILLED => Record(c) # Record(i)
          BY <2>1, <3>2 DEF WriterInv, KeysAreUnique, Holds, Record
        <4>2. Store' = Store \ {Record(i)}
          BY <2>1, <3>1, <3>2, <4>1 DEF Store
        <4>3. Record(i) \in Store /\ now > Record(i).death
          BY <2>1, <3>1, <3>2 DEF Store, Record
        <4>. QED
          BY <2>1, <4>2, <4>3 DEF Map!Next, Map!Expire
      <3>3. CASE flag[i] # CL_FILLED
        <4>1. Store' = Store
          BY <2>1, <3>1, <3>3 DEF Store
        <4>. QED
          BY <2>1, <4>1 DEF Map!vars
      <3>. QED
        BY <3>2, <3>3
    <2>. QED
      BY <1>4, <2>2, <2>3, CollectFacts
  <1>5. CASE Tick
    BY <1>5 DEF Tick, cells, Map!Next, Map!Tick, Store, Record
  <1>. QED
    BY <1>1, <1>2, <1>3, <1>4, <1>5
    DEF Next, Step, CleanerStep, Call, Lock, FindFilled, FindFree, Get,
        StartCollection, vars, clocks

(* With one writing process, and lifetimes that fit an int, the table      *)
(* implements the map: an acknowledged record leaves it only when its key  *)
(* is set again or deleted, or after its time of death.                    *)
THEOREM TableImplementsMap ==
    ASSUME OneWriter, LifetimesFit PROVE Spec => ImplementsMap
  <1>1. WriterInv /\ [Next]_vars => WriterInv'
    BY WriterStep
  <1>2. WriterInv /\ [Next]_vars => [Map!Next]_(Map!vars)
    BY StoreStep
  <1>. QED
    BY WriterInit, StoreInit, <1>1, <1>2, PTL DEF Spec, ImplementsMap, Map!Spec

-----------------------------------------------------------------------------
(* Misses, with any number of writing processes.                           *)

(* A cell that has held the key all along is one the search of find_filled *)
(* has not come to yet.                                                    *)
MissInv(w) ==
    /\ pc[w] # "idle" => stable[w] \subseteq Holders(cmd[w].key)
    /\ pc[w] \in {"filled_wait", "filled"} => stable[w] \cap Behind(w) = {}
    /\ ret[w] = "miss" \/ pc[w] \in {"free_wait", "free"} => stable[w] = {}

HonestInv == TypeInv /\ \A w \in Worker : MissInv(w)

LEMMA HonestInit == HInit => HonestInv
  BY TypeInit DEF HInit, Init, HonestInv, MissInv, Process

LEMMA WatchStable ==
    ASSUME Watch, NEW w \in Worker
    PROVE  stable'[w] = IF pc'[w] = "idle" THEN stable[w]
                        ELSE IF pc[w] # "idle"
                             THEN stable[w] \cap Holders(cmd[w].key)'
                        ELSE Holders(cmd[w].key)'
  BY DEF Watch, Running

(* A worker that stays where it is keeps MissInv whatever the cells do.    *)
LEMMA MissFrame ==
    ASSUME HonestInv, Watch, NEW u \in Worker,
           \A S \in {{"filled_wait", "filled"}, {"free_wait", "free"}} :
              pc'[u] \in S => pc[u] \in S,
           pc'[u] # "idle" => pc[u] # "idle" /\ off'[u] = off[u] /\ cmd'[u] = cmd[u],
           ret'[u] = "miss" => ret[u] = "miss"
    PROVE  MissInv(u)'
  <1>1. /\ pc'[u] \in {"filled_wait", "filled"} => pc[u] \in {"filled_wait", "filled"}
        /\ pc'[u] \in {"free_wait", "free"} => pc[u] \in {"free_wait", "free"}
    OBVIOUS
  <1>2. MissInv(u)
    BY DEF HonestInv
  <1>3. pc'[u] # "idle" => stable'[u] \subseteq Holders(cmd[u].key)'
    BY WatchStable
  <1>4. stable'[u] \subseteq stable[u] \/ (pc'[u] # "idle" /\ pc[u] = "idle")
    BY WatchStable
  <1>5. pc'[u] # "idle" => Behind(u)' = Behind(u)
    BY ProcessAssumption DEF Behind, Home
  <1>. QED
    BY <1>1, <1>2, <1>3, <1>4, <1>5 DEF MissInv

LEMMA HonestStep == HonestInv /\ [HNext]_<<vars, history>> => HonestInv'
  <1>. SUFFICES ASSUME HonestInv, [HNext]_<<vars, history>>
                PROVE  HonestInv'
    OBVIOUS
  <1>0. TypeInv
    BY DEF HonestInv
  <1>a. TypeInv'
    BY <1>0, TypeStep DEF HNext
  <1>1. CASE UNCHANGED <<vars, history>>
    BY <1>a, <1>1
    DEF HonestInv, MissInv, Behind, Home, Holders, Holds, vars, cells, clocks,
        locals, history
  <1>. SUFFICES ASSUME Next, Watch, NEW v \in Worker PROVE MissInv(v)'
    BY <1>a, <1>1 DEF HNext, HonestInv
  <1>2. CASE /\ pc'[v] = pc[v] /\ off'[v] = off[v]
             /\ cmd'[v] = cmd[v] /\ ret'[v] = ret[v]
    BY <1>2, MissFrame
  <1>3. ASSUME Call(v) PROVE MissInv(v)'
    <2>1. pc[v] = "idle" /\ pc'[v] = "filled_wait" /\ off'[v] = 0 /\ ret'[v] = "none"
      BY <1>0, <1>3 DEF Call, SearchFrom, Goto, TypeInv, TypeOK, Process
    <2>2. stable'[v] = Holders(cmd[v].key)'
      BY <2>1, WatchStable
    <2>3. Behind(v)' = {}
      BY <2>1 DEF Behind
    <2>. QED
      BY <2>1, <2>2, <2>3 DEF MissInv
  <1>4. ASSUME Lock(v) PROVE MissInv(v)'
    BY <1>0, <1>4, MissFrame DEF Lock, Goto, locals, TypeInv, TypeOK, Process
  <1>5. ASSUME FindFilled(v) PROVE MissInv(v)'
    <2>1. /\ pc[v] = "filled" /\ v \in Process /\ MissInv(v)
          /\ Holders(cmd[v].key) \subseteq Cell
          /\ stable[v] \subseteq Holders(cmd[v].key)
          /\ stable[v] \cap Behind(v) = {}
      BY <1>5 DEF FindFilled, HonestInv, MissInv, Process, Holders
    <2>2. CASE Hit(v)
      BY <1>0, <2>1, <2>2, MissFrame DEF Hit, Goto, TypeInv, TypeOK
    <2>3. CASE /\ ~Holds(CellAt(v), cmd[v].key) /\ ~LastCell(v)
               /\ NextCell(v, "filled_wait") /\ UNCHANGED <<cmd, idx, ret>>
      <3>1. pc'[v] \in {"filled_wait", "filled"}
        BY <1>0, <2>1, <2>3 DEF NextCell, Goto, TypeInv, TypeOK
      <3>2. stable'[v] = stable[v] \cap Holders(cmd[v].key)'
        BY <2>1, <3>1, WatchStable
      <3>3. CellAt(v) \notin stable[v]
        BY <2>1, <2>3 DEF Holders
      <3>4. stable'[v] \cap Behind(v)' = {}
        BY <1>0, <2>1, <2>3, <3>2, <3>3, BehindGrows
      <3>. QED
        BY <2>1, <2>3, <3>1, <3>2, <3>4 DEF MissInv
    <2>4. CASE ~Holds(CellAt(v), cmd[v].key) /\ LastCell(v) /\ NotFound(v)
      <3>1. CellAt(v) \notin stable[v]
        BY <2>1, <2>4 DEF Holders
      <3>2. stable[v] = {}
        BY <1>0, <2>1, <2>4, <3>1, AllVisited
      <3>3. pc'[v] \in {"idle", "free_wait"} /\ stable'[v] = {}
        BY <1>0, <2>1, <2>4, <3>2, WatchStable
        DEF NotFound, SearchFrom, Return, Goto, TypeInv, TypeOK
      <3>. QED
        BY <3>3 DEF MissInv
    <2>. QED
      BY <1>5, <2>2, <2>3, <2>4 DEF FindFilled
  <1>6. ASSUME FindFree(v) PROVE MissInv(v)'
    <2>1. pc[v] = "free" /\ v \in Process /\ stable[v] = {}
      BY <1>6 DEF FindFree, HonestInv, MissInv, Process
    <2>2. pc'[v] \notin {"filled_wait", "filled"}
      BY <1>0, <1>6, <2>1
      DEF FindFree, Hit, NextCell, Return, Goto, TypeInv, TypeOK
    <2>3. stable'[v] = {}
      BY <2>1, WatchStable
    <2>. QED
      BY <2>2, <2>3 DEF MissInv
  <1>7. ASSUME Get(v) \/ Set(v) \/ Del(v) PROVE MissInv(v)'
    <2>1. pc'[v] = "idle" /\ ret'[v] = "ok"
      BY <1>0, <1>7 DEF Get, Set, Del, Return, Goto, TypeInv, TypeOK, Process
    <2>. QED
      BY <2>1 DEF MissInv
  <1>8. ASSUME NEW w \in Worker, w # v, Call(w) \/ Step(w) PROVE MissInv(v)'
    <2>1. /\ pc'[v] = pc[v] /\ off'[v] = off[v]
          /\ cmd'[v] = cmd[v] /\ ret'[v] = ret[v]
      BY <1>0, <1>8, OnlyMovers DEF HonestInv
    <2>. QED
      BY <1>2, <2>1
  <1>9. CASE CleanerStep \/ Tick
    <2>1. /\ pc'[v] = pc[v] /\ off'[v] = off[v]
          /\ cmd'[v] = cmd[v] /\ ret'[v] = ret[v]
      BY <1>0, <1>9, ProcessAssumption
      DEF CleanerStep, Lock, StartCollection, Collect, Tick, SearchFrom, NextCell,
          Goto, locals, TypeInv, TypeOK, Process
    <2>. QED
      BY <1>2, <2>1
  <1>. QED
    BY <1>3, <1>4, <1>5, <1>6, <1>7, <1>8, <1>9 DEF Next, Step

(* Whatever number of processes set, delete and expire records meanwhile,  *)
(* "not found" is never said of a key that one cell held all the time.     *)
THEOREM MissesAreHonest == HSpec => []MissIsHonest
  <1>1. HonestInv => MissIsHonest
    BY DEF HonestInv, MissInv, MissIsHonest
  <1>. QED
    BY HonestInit, HonestStep, <1>1, PTL DEF HSpec

-----------------------------------------------------------------------------
(* Answers and lifetimes, with one writing process.                        *)

(* No step changes who holds a key in two cells at once.                   *)
LEMMA OneCellChanges ==
    ASSUME WriterInv, [Next]_vars, NEW c \in Cell, NEW d \in Cell, c # d, NEW k
    PROVE  (Holds(c, k)' <=> Holds(c, k)) \/ (Holds(d, k)' <=> Holds(d, k))
  <1>. DEFINE Same(e) == flag'[e] = flag[e] /\ key'[e] = key[e]
  <1>1. Same(c) \/ Same(d)
    <2>1. CASE UNCHANGED cells
      BY <2>1 DEF cells
    <2>2. ASSUME NEW w \in Worker, Set(w) \/ Del(w) PROVE Same(c) \/ Same(d)
      BY <2>2 DEF Set, Del, WriterInv, TypeInv, TypeOK
    <2>3. CASE Collect
      BY <2>3, CollectFacts DEF NothingStored, Buries, WriterInv, TypeInv, TypeOK
    <2>. QED
      BY <2>1, <2>2, <2>3
      DEF Next, Step, CleanerStep, Call, Lock, FindFilled, FindFree, Get,
          StartCollection, Tick, vars
  <1>. QED
    BY <1>1 DEF Holds

LEMMA WatchWindow ==
    ASSUME Watch, NEW w \in Worker
    PROVE  window'[w] = IF pc'[w] = "idle" THEN window[w]
                        ELSE IF pc[w] # "idle"
                             THEN window[w] \cup Answers(cmd[w].key)'
                        ELSE Answers(cmd[w].key)'
  BY DEF Watch, Running

(* The window of a running command has what a get could have answered in   *)
(* any state so far.  When no cell held the key all along, it has "not     *)
(* found", since a key that is in the table stays in its cell.  And it has *)
(* the value of the cell a get has found, also when that cell was buried   *)
(* or rewritten in the meantime.                                           *)
AnswerInv(w) ==
    /\ pc[w] # "idle" => Answers(cmd[w].key) \subseteq window[w]
    /\ pc[w] # "idle" \/ ret[w] = "miss" => Nil \in window[w] \/ stable[w] # {}
    /\ pc[w] \in {"access_wait", "access"} /\ cmd[w].op # "set"
          => value[idx[w]] \in window[w]
    /\ out[w] # Nil => out[w] \in window[w]

AnswersInv == WriterInv /\ HonestInv /\ \A w \in Worker : AnswerInv(w)

LEMMA AnswersInit == HInit => AnswersInv
  <1>. SUFFICES ASSUME HInit PROVE AnswersInv
    OBVIOUS
  <1>1. WriterInv /\ HonestInv
    BY WriterInit, HonestInit DEF HInit
  <1>2. \A w \in Worker : pc[w] = "idle" /\ ret[w] = "none" /\ out[w] = Nil
    BY DEF HInit, Init, Process
  <1>. QED
    BY <1>1, <1>2 DEF AnswersInv, AnswerInv

(* A command that goes on keeps the first two parts, whatever the cells do.*)
LEMMA WindowGrows ==
    ASSUME AnswersInv, [Next]_vars, Watch, NEW v \in Worker,
           pc[v] # "idle", pc'[v] # "idle", cmd'[v] = cmd[v]
    PROVE  /\ window[v] \subseteq window'[v]
           /\ Answers(cmd[v].key)' \subseteq window'[v]
           /\ Nil \in window'[v] \/ stable'[v] # {}
  <1>. DEFINE k == cmd[v].key
  <1>1. window'[v] = window[v] \cup Answers(k)' /\ stable'[v] = stable[v] \cap Holders(k)'
    BY WatchWindow, WatchStable
  <1>2. CASE Nil \in window[v]
    BY <1>1, <1>2
  <1>3. CASE Nil \notin window[v]
    <2>1. PICK c \in stable[v] : TRUE
      BY <1>3 DEF AnswersInv, AnswerInv
    <2>2. c \in Cell /\ Holds(c, k)
      BY DEF AnswersInv, HonestInv, MissInv, Holders
    <2>3. CASE Holds(c, k)'
      BY <1>1, <2>2, <2>3 DEF Holders
    <2>4. CASE ~Holds(c, k)'
      <3>1. ASSUME NEW d \in Cell, Holds(d, k)' PROVE FALSE
        <4>1. d # c
          BY <2>4, <3>1
        <4>2. Holds(d, k)
          BY <2>2, <2>4, <3>1, <4>1, OneCellChanges DEF AnswersInv
        <4>. QED
          BY <2>2, <4>1, <4>2 DEF AnswersInv, WriterInv, KeysAreUnique, Holds
      <3>2. Holders(k)' = {}
        BY <3>1 DEF Holders
      <3>. QED
        BY <1>1, <3>2 DEF Answers
    <2>. QED
      BY <2>3, <2>4
  <1>. QED
    BY <1>1, <1>2, <1>3

(* The value of the cell a get has found is one of the window, also after  *)
(* a step that rewrites it.                                                *)
LEMMA FoundValue ==
    ASSUME AnswersInv, [Next]_vars, Watch, NEW v \in Worker,
           pc[v] \in {"access_wait", "access"}, cmd[v].op # "set",
           pc'[v] # "idle", cmd'[v] = cmd[v], idx'[v] = idx[v]
    PROVE  value'[idx'[v]] \in window'[v]
  <1>. DEFINE i == idx[v]
              k == cmd[v].key
  <1>1. pc[v] # "idle" /\ i \in Cell /\ flag[i] # CL_FREE /\ key[i] = k
    BY DEF AnswersInv, WriterInv, Aim, TypeInv, TypeOK
  <1>2. /\ window[v] \subseteq window'[v] /\ Answers(k)' \subseteq window'[v]
        /\ value[i] \in window[v]
    BY <1>1, WindowGrows DEF AnswersInv, AnswerInv
  <1>3. CASE value'[i] = value[i]
    BY <1>2, <1>3
  <1>4. ASSUME NEW w \in Worker, Set(w), i = idx[w] PROVE value'[i] \in window'[v]
    <2>1. flag'[i] = CL_FILLED
      BY <1>1, <1>4 DEF Set, AnswersInv, WriterInv, TypeInv, TypeOK
    <2>2. key'[i] = k
      BY <1>1, <1>4, SetFacts DEF KeysStay, AnswersInv
    <2>3. i \in Holders(k)'
      BY <1>1, <2>1, <2>2 DEF Holders, Holds
    <2>4. value'[i] \in Answers(k)'
      BY <2>3 DEF Answers
    <2>. QED
      BY <1>2, <2>4
  <1>5. ASSUME NEW w \in Worker, Set(w), i # idx[w] PROVE value'[i] = value[i]
    BY <1>1, <1>5 DEF Set, AnswersInv, WriterInv, TypeInv, TypeOK
  <1>6. ASSUME NEW w \in Worker, Del(w) PROVE value' = value
    BY <1>6 DEF Del
  <1>7. value' = value \/ \E w \in Worker : Set(w) \/ Del(w)
    BY DEF Next, Step, CleanerStep, Call, Lock, FindFilled, FindFree, Get,
           StartCollection, Collect, Tick, vars, cells
  <1>. QED
    BY <1>3, <1>4, <1>5, <1>6, <1>7

(* A worker that stays where it is.                                        *)
LEMMA AnswerFrame ==
    ASSUME AnswersInv, [Next]_vars, Watch, NEW v \in Worker,
           pc'[v] = "idle" <=> pc[v] = "idle",
           pc'[v] \in {"access_wait", "access"} => pc[v] \in {"access_wait", "access"},
           cmd'[v] = cmd[v], idx'[v] = idx[v], ret'[v] = ret[v], out'[v] = out[v]
    PROVE  AnswerInv(v)'
  <1>1. CASE pc[v] = "idle"
    <2>1. window'[v] = window[v] /\ stable'[v] = stable[v]
      BY <1>1, WatchWindow, WatchStable
    <2>. QED
      BY <1>1, <2>1 DEF AnswersInv, AnswerInv
  <1>2. CASE pc[v] # "idle"
    <2>1. /\ window[v] \subseteq window'[v]
          /\ Answers(cmd[v].key)' \subseteq window'[v]
          /\ Nil \in window'[v] \/ stable'[v] # {}
      BY <1>2, WindowGrows
    <2>2. pc'[v] \in {"access_wait", "access"} /\ cmd'[v].op # "set"
            => value'[idx'[v]] \in window'[v]
      BY <1>2, FoundValue
    <2>. QED
      BY <2>1, <2>2 DEF AnswersInv, AnswerInv
  <1>. QED
    BY <1>1, <1>2

LEMMA AnswersStep ==
    ASSUME OneWriter PROVE AnswersInv /\ [HNext]_<<vars, history>> => AnswersInv'
  <1>. SUFFICES ASSUME AnswersInv, [HNext]_<<vars, history>>
                PROVE  AnswersInv'
    OBVIOUS
  <1>0. TypeInv
    BY DEF AnswersInv, WriterInv
  <1>a. [Next]_vars
    BY DEF HNext
  <1>b. WriterInv' /\ HonestInv'
    BY <1>a, WriterStep, HonestStep DEF AnswersInv
  <1>1. CASE UNCHANGED <<vars, history>>
    BY <1>b, <1>1
    DEF AnswersInv, AnswerInv, Answers, Holders, Holds, vars, cells, locals, history
  <1>. SUFFICES ASSUME Next, Watch, NEW v \in Worker PROVE AnswerInv(v)'
    BY <1>b, <1>1 DEF HNext, AnswersInv
  <1>c. v \in Process /\ v # Cleaner /\ AnswerInv(v)
    BY ProcessAssumption DEF Process, AnswersInv
  <1>2. CASE /\ pc'[v] = pc[v] /\ cmd'[v] = cmd[v] /\ idx'[v] = idx[v]
             /\ ret'[v] = ret[v] /\ out'[v] = out[v]
    BY <1>2, <1>a, AnswerFrame
  <1>3. ASSUME Call(v) PROVE AnswerInv(v)'
    <2>1. pc[v] = "idle" /\ pc'[v] = "filled_wait" /\ out'[v] = Nil
      BY <1>0, <1>3, <1>c DEF Call, SearchFrom, Goto, TypeInv, TypeOK
    <2>2. window'[v] = Answers(cmd[v].key)' /\ stable'[v] = Holders(cmd[v].key)'
      BY <2>1, WatchWindow, WatchStable
    <2>3. Nil \in window'[v] \/ stable'[v] # {}
      BY <2>2 DEF Answers
    <2>. QED
      BY <2>1, <2>2, <2>3 DEF AnswerInv
  <1>4. ASSUME Lock(v) PROVE AnswerInv(v)'
    <2>1. /\ pc[v] # "idle" /\ pc'[v] # "idle" /\ UNCHANGED <<cmd, idx, ret, out>>
          /\ pc'[v] \in {"access_wait", "access"} => pc[v] \in {"access_wait", "access"}
      BY <1>0, <1>4, <1>c DEF Lock, Goto, locals, TypeInv, TypeOK
    <2>. QED
      BY <1>a, <2>1, AnswerFrame
  <1>5. ASSUME UNCHANGED <<cmd, idx, ret, out>>, NEW l \in Waiting \ {"access_wait"},
               pc[v] \in {"filled", "free"}, pc'[v] \in {pc[v], l}
        PROVE  AnswerInv(v)'
    BY <1>5, <1>a, AnswerFrame DEF Waiting
  <1>6. ASSUME pc[v] \in {"filled", "free"}, UNCHANGED <<cells, out>>, Hit(v),
               cmd[v].op # "set" => Holds(CellAt(v), cmd[v].key)
        PROVE  AnswerInv(v)'
    <2>1. /\ pc'[v] = "access_wait" /\ UNCHANGED <<cmd, ret, out, value>>
          /\ idx'[v] = CellAt(v) /\ CellAt(v) \in Cell
      BY <1>0, <1>6, <1>c, CellAtExists DEF Hit, Goto, TypeInv, TypeOK, cells
    <2>2. /\ window[v] \subseteq window'[v]
          /\ Answers(cmd[v].key)' \subseteq window'[v]
          /\ Nil \in window'[v] \/ stable'[v] # {}
      BY <1>a, <1>6, <2>1, WindowGrows
    <2>3. cmd[v].op # "set" => value'[idx'[v]] \in window'[v]
      <3>. SUFFICES ASSUME cmd[v].op # "set" PROVE value'[idx'[v]] \in window'[v]
        OBVIOUS
      <3>1. CellAt(v) \in Holders(cmd[v].key)
        BY <1>6, <2>1 DEF Holders
      <3>2. value[CellAt(v)] \in Answers(cmd[v].key)
        BY <3>1 DEF Answers
      <3>. QED
        BY <1>6, <1>c, <2>1, <2>2, <3>2 DEF AnswerInv
    <2>. QED
      BY <1>c, <2>1, <2>2, <2>3 DEF AnswerInv
  <1>7. ASSUME pc[v] # "idle", NEW o, Return(v, o), o # "miss",
               out'[v] = out[v] \/ out'[v] \in window[v]
        PROVE  AnswerInv(v)'
    <2>1. pc'[v] = "idle" /\ ret'[v] = o
      BY <1>0, <1>7, <1>c DEF Return, Goto, TypeInv, TypeOK
    <2>2. window'[v] = window[v]
      BY <2>1, WatchWindow
    <2>. QED
      BY <1>7, <1>c, <2>1, <2>2 DEF AnswerInv
  <1>8. ASSUME pc[v] # "idle", Return(v, "miss"), out'[v] = out[v]
        PROVE  AnswerInv(v)'
    <2>1. pc'[v] = "idle"
      BY <1>0, <1>8, <1>c DEF Return, Goto, TypeInv, TypeOK
    <2>2. window'[v] = window[v] /\ stable'[v] = stable[v]
      BY <2>1, WatchWindow, WatchStable
    <2>. QED
      BY <1>8, <1>c, <2>1, <2>2 DEF AnswerInv
  <1>9. ASSUME FindFilled(v) PROVE AnswerInv(v)'
    <2>1. pc[v] = "filled" /\ UNCHANGED <<cells, out>>
      BY <1>9 DEF FindFilled
    <2>2. CASE Holds(CellAt(v), cmd[v].key) /\ Hit(v)
      BY <1>6, <2>1, <2>2
    <2>3. CASE NextCell(v, "filled_wait") /\ UNCHANGED <<cmd, idx, ret>>
      BY <1>0, <1>5, <1>c, <2>1, <2>3 DEF NextCell, Goto, TypeInv, TypeOK, Waiting
    <2>4. CASE SearchFrom(v, Home(v), "free_wait") /\ UNCHANGED <<cmd, idx, ret>>
      BY <1>0, <1>5, <1>c, <2>1, <2>4 DEF SearchFrom, Goto, TypeInv, TypeOK, Waiting
    <2>5. CASE Return(v, "miss")
      BY <1>8, <2>1, <2>5
    <2>. QED
      BY <1>9, <2>2, <2>3, <2>4, <2>5 DEF FindFilled, NotFound
  <1>10. ASSUME FindFree(v) PROVE AnswerInv(v)'
    <2>1. pc[v] = "free" /\ UNCHANGED <<cells, out>> /\ cmd[v].op = "set"
      BY <1>10 DEF FindFree, AnswersInv, WriterInv, CommandInv
    <2>2. CASE Hit(v)
      BY <1>6, <2>1, <2>2
    <2>3. CASE NextCell(v, "free_wait") /\ UNCHANGED <<cmd, idx, ret>>
      BY <1>0, <1>5, <1>c, <2>1, <2>3 DEF NextCell, Goto, TypeInv, TypeOK, Waiting
    <2>4. CASE Return(v, "full")
      BY <1>7, <2>1, <2>4
    <2>. QED
      BY <1>10, <2>2, <2>3, <2>4 DEF FindFree
  <1>11. ASSUME Get(v) PROVE AnswerInv(v)'
    <2>1. value[idx[v]] \in window[v] /\ pc[v] # "idle"
      BY <1>11, <1>c DEF Get, AnswerInv
    <2>2. out'[v] = value[idx[v]]
      BY <1>0, <1>11 DEF Get, TypeInv, TypeOK
    <2>. QED
      BY <1>7, <1>11, <2>1, <2>2 DEF Get
  <1>12. ASSUME Set(v) \/ Del(v) PROVE AnswerInv(v)'
    BY <1>7, <1>12 DEF Set, Del
  <1>13. ASSUME NEW w \in Worker, w # v, Call(w) \/ Step(w) PROVE AnswerInv(v)'
    <2>1. pc'[v] = pc[v] /\ cmd'[v] = cmd[v] /\ ret'[v] = ret[v]
      BY <1>0, <1>13, OnlyMovers
    <2>2. idx'[v] = idx[v] /\ out'[v] = out[v]
      BY <1>0, <1>13
      DEF Call, Step, Lock, FindFilled, FindFree, NotFound, Hit, Get, Set, Del, Return,
          locals, TypeInv, TypeOK
    <2>. QED
      BY <1>2, <2>1, <2>2
  <1>14. CASE CleanerStep \/ Tick
    <2>1. /\ pc'[v] = pc[v] /\ cmd'[v] = cmd[v] /\ idx'[v] = idx[v]
          /\ ret'[v] = ret[v] /\ out'[v] = out[v]
      BY <1>0, <1>14, <1>c
      DEF CleanerStep, Lock, StartCollection, Collect, Tick, SearchFrom, NextCell,
          Goto, locals, TypeInv, TypeOK
    <2>. QED
      BY <1>2, <2>1
  <1>. QED
    BY <1>3, <1>4, <1>9, <1>10, <1>11, <1>12, <1>13, <1>14 DEF Next, Step

(* With one writing process every answer is true of some instant of its    *)
(* call, although a get and a del search without holding the table, and    *)
(* find a cell before they come back to read or bury it.                   *)
THEOREM AnswersAreTrueOnce == ASSUME OneWriter PROVE HSpec => []AnswersAreHonest
  <1>1. AnswersInv => AnswersAreHonest
    <2>. SUFFICES ASSUME AnswersInv, NEW w \in Worker
                  PROVE  /\ out[w] # Nil    => out[w] \in window[w]
                         /\ ret[w] = "miss" => Nil \in window[w]
      BY DEF AnswersAreHonest
    <2>1. AnswerInv(w) /\ MissInv(w)
      BY DEF AnswersInv, HonestInv
    <2>. QED
      BY <2>1 DEF AnswerInv, MissInv
  <1>2. AnswersInv /\ [HNext]_<<vars, history>> => AnswersInv'
    BY AnswersStep
  <1>. QED
    BY AnswersInit, <1>1, <1>2, PTL DEF HSpec

-----------------------------------------------------------------------------
(* A promised record is in a cell that dies when the promise ends.         *)
Kept(r, c) ==
    Holds(c, r.key) /\ value[c] = r.value /\ death[c] = r.until

PromiseInv == WriterInv /\ \A r \in promise : \E c \in Cell : Kept(r, c)

LEMMA WatchPromise ==
    ASSUME Watch, NEW r \in promise'
    PROVE  \/ /\ r \in promise /\ now' <= r.until
              /\ \A w \in Worker : Ends(w, {"set", "del"}) => cmd[w].key # r.key
           \/ \E w \in Worker : Ends(w, {"set"}) /\ r = Promise(w)
  BY DEF Watch

LEMMA PromiseStep ==
    ASSUME OneWriter, LifetimesFit
    PROVE  PromiseInv /\ [HNext]_<<vars, history>> => PromiseInv'
  <1>. SUFFICES ASSUME PromiseInv, [HNext]_<<vars, history>>
                PROVE  PromiseInv'
    OBVIOUS
  <1>0. WriterInv /\ TypeInv /\ [Next]_vars
    BY DEF HNext, PromiseInv, WriterInv
  <1>a. WriterInv'
    BY <1>0, WriterStep
  <1>1. CASE UNCHANGED <<vars, history>>
    BY <1>a, <1>1 DEF PromiseInv, Kept, Holds, vars, cells, history
  <1>. SUFFICES ASSUME Next, Watch, NEW r \in promise' PROVE \E c \in Cell : Kept(r, c)'
    BY <1>a, <1>1 DEF HNext, PromiseInv
  <1>2. CASE /\ r \in promise /\ now' <= r.until
             /\ \A w \in Worker : Ends(w, {"set", "del"}) => cmd[w].key # r.key
    <2>1. PICK c \in Cell : Kept(r, c)
      BY <1>2 DEF PromiseInv
    <2>2. CASE UNCHANGED cells
      BY <2>1, <2>2 DEF Kept, Holds, cells
    <2>3. ASSUME NEW w \in Worker, Set(w) PROVE Kept(r, c)'
      <3>1. cmd[w].key # r.key
        BY <1>2, <2>3, SetFacts, <1>0 DEF Ends, Set
      <3>2. c # idx[w]
        BY <1>0, <2>1, <2>3, <3>1
        DEF Set, WriterInv, Aim, Kept, Holds, CL_FREE, CL_FILLED
      <3>. QED
        BY <1>0, <2>1, <2>3, <3>2 DEF Set, Kept, Holds, TypeInv, TypeOK
    <2>4. ASSUME NEW w \in Worker, Del(w) PROVE Kept(r, c)'
      <3>1. cmd[w].key # r.key
        BY <1>2, <2>4, DelFacts, <1>0 DEF Ends, Del
      <3>2. c # idx[w]
        BY <1>0, <2>1, <2>4, <3>1, DelFacts DEF Kept, Holds
      <3>. QED
        BY <1>0, <2>1, <2>4, <3>2 DEF Del, Kept, Holds, TypeInv, TypeOK
    <2>5. CASE Collect
      <3>1. UNCHANGED <<key, value, death, now>>
        BY <2>5 DEF Collect
      <3>2. CASE flag' = flag
        BY <2>1, <3>1, <3>2 DEF Kept, Holds
      <3>3. CASE Buries(CellAt(Cleaner))
        <4>1. now > death[CellAt(Cleaner)] /\ now \in Nat /\ death[c] \in Int
          BY <1>0, <3>3 DEF Buries, TypeInv, TypeOK
        <4>2. now <= death[c]
          BY <1>2, <2>1, <3>1 DEF Kept
        <4>3. c # CellAt(Cleaner)
          BY <4>1, <4>2
        <4>4. flag'[c] = flag[c]
          BY <1>0, <2>1, <3>3, <4>3 DEF Buries, TypeInv, TypeOK
        <4>. QED
          BY <2>1, <3>1, <4>4 DEF Kept, Holds
      <3>. QED
        BY <1>0, <2>5, <3>2, <3>3, CollectFacts
    <2>. QED
      BY <2>1, <2>2, <2>3, <2>4, <2>5
      DEF Next, Step, CleanerStep, Call, Lock, FindFilled, FindFree, Get,
          StartCollection, Tick
  <1>3. ASSUME NEW w \in Worker, Ends(w, {"set"}), r = Promise(w)
        PROVE  \E c \in Cell : Kept(r, c)'
    <2>1. Set(w)
      <3>1. pc[w] = "access" /\ pc'[w] = "idle" /\ cmd[w].op = "set" /\ w \in Process
        BY <1>3 DEF Ends, Process
      <3>2. ASSUME NEW u \in Worker, u # w, Call(u) \/ Step(u) PROVE FALSE
        BY <1>0, <3>1, <3>2, OnlyMovers
      <3>3. ASSUME CleanerStep \/ Tick PROVE FALSE
        BY <1>0, <3>1, <3>3, ProcessAssumption
        DEF CleanerStep, Lock, StartCollection, Collect, Tick, SearchFrom, NextCell,
            Goto, TypeInv, TypeOK
      <3>4. ~Call(w) /\ ~FindFilled(w) /\ ~FindFree(w) /\ ~Get(w) /\ ~Del(w)
        BY <3>1 DEF Call, FindFilled, FindFree, Get, Del
      <3>5. ~Lock(w)
        BY <3>1 DEF Lock
      <3>. QED
        BY <3>2, <3>3, <3>4, <3>5 DEF Next, Step
    <2>. DEFINE i == idx[w]
                t == cmd[w].ttl
    <2>2. i \in Cell /\ t \in TTL /\ cmd[w].key \in Key
      BY <1>0, <2>1, SetFacts
    <2>3. ToInt(t + now) = now + t
      BY <1>0, <2>2, LifetimeIsNat, TimeAssumption
      DEF LifetimesFit, ToInt, WriterInv, TypeInv, TypeOK
    <2>4. /\ flag'[i] = CL_FILLED /\ key'[i] = cmd[w].key
          /\ value'[i] = cmd[w].value /\ death'[i] = now + t
      BY <1>0, <2>1, <2>2, <2>3 DEF Set, TypeInv, TypeOK
    <2>5. r.key = cmd[w].key /\ r.value = cmd[w].value /\ r.until = now + t
      BY <1>3 DEF Promise
    <2>. QED
      BY <2>2, <2>4, <2>5 DEF Kept, Holds
  <1>. QED
    BY <1>2, <1>3, WatchPromise

(* With one writing process, and lifetimes that fit an int, a record that  *)
(* was acknowledged is in the table for as long as its client was told.    *)
THEOREM RecordsLiveAsPromised ==
    ASSUME OneWriter, LifetimesFit PROVE HSpec => []MinimumTTL
  <1>1. HInit => PromiseInv
    BY WriterInit DEF HInit, PromiseInv
  <1>2. PromiseInv /\ [HNext]_<<vars, history>> => PromiseInv'
    BY PromiseStep
  <1>3. PromiseInv => MinimumTTL
    BY DEF PromiseInv, MinimumTTL, Kept, Holders
  <1>. QED
    BY <1>1, <1>2, <1>3, PTL DEF HSpec

=============================================================================
