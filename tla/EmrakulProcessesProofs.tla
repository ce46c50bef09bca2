----------------------- MODULE EmrakulProcessesProofs -----------------------
(***************************************************************************)
(* Proofs about the start, the stop and the restart of Emrakul DB v2.0,    *)
(* for every number of children, starts and faults: locks survive,         *)
(* records are shared, and nothing remains.                                *)
(***************************************************************************)
EXTENDS EmrakulProcesses, FiniteSetTheorems, FunctionTheorems, TLAPS

Place == {"none", "forked", "mapped", "zeroed", "gone"} \cup Running

(* A process has a memory from when it maps one to its end, and a          *)
(* semaphore from when it is ready.                                        *)
Child ==
    {r \in [at : Place, told : BOOLEAN, mem : Object \cup {None}, sem : Object \cup {None}] :
        /\ r.at \in {"mapped", "zeroed"} \cup Running => r.mem # None
        /\ r.at \in Running => r.sem # None}

TypeInv ==
    /\ master \in [Start -> {"off", "forking", "up", "waiting", "leaving", "closed", "gone"}]
    /\ child \in [Process -> Child]
    /\ memName \in Object \cup {None} /\ semName \in Object \cup {None}
    /\ value \in [Object -> {0, 1}] /\ store \in [Object -> SUBSET Process]
    /\ lasting \subseteq Process /\ failed \in Nat /\ killed \in Nat

(* There are more objects than processes, so that a new one is not in use. *)
LEMMA FreeObject ==
    ASSUME NEW f \in [Process -> Object \cup {None}]
    PROVE  \E o \in Object : \A c \in Process : f[c] # o
  <1>. DEFINE T == {f[c] : c \in Process}
  <1>1. PICK N \in Nat : N = MaxStarts * Children
    BY ProcessesAssumption
  <1>2. IsFiniteSet(Process) /\ Cardinality(Process) = N
    <2>1. /\ IsFiniteSet(Start) /\ Cardinality(Start) = MaxStarts
          /\ IsFiniteSet(1 .. Children) /\ Cardinality(1 .. Children) = Children
      BY FS_Interval, ProcessesAssumption DEF Start
    <2>. QED
      BY <1>1, <2>1, FS_Product DEF Process
  <1>3. IsFiniteSet(Object) /\ Cardinality(Object) = N + 1
    <2>1. Object = 1 .. N + 1
      BY <1>1 DEF Object
    <2>. QED
      BY <2>1, FS_Interval
  <1>4. IsFiniteSet(T) /\ Cardinality(T) <= N /\ Cardinality(T) \in Nat
    <2>1. f \in Surjection(Process, T)
      BY DEF Surjection
    <2>. QED
      BY <1>2, <2>1, FS_Surjection, FS_CardinalityType
  <1>5. ~(Object \subseteq T)
    BY <1>3, <1>4, FS_Subset
  <1>. QED
    BY <1>5

LEMMA NewMemoryIsNew ==
    ASSUME TypeInv, memName = None
    PROVE  NewMemory \in Object /\ \A c \in Process : child[c].mem # NewMemory
  <1>1. [c \in Process |-> child[c].mem] \in [Process -> Object \cup {None}]
    BY DEF TypeInv, Child
  <1>2. \E o \in Object : \A c \in Process : child[c].mem # o
    BY <1>1, FreeObject
  <1>3. None \notin Object
    BY ProcessesAssumption DEF None, Object
  <1>4. \E o \in Object \ {memName} : \A c \in Process : child[c].mem # o
    BY <1>2, <1>3
  <1>. QED
    BY <1>4 DEF NewMemory

LEMMA NewLockIsNew ==
    ASSUME TypeInv, semName = None
    PROVE  NewLock \in Object /\ \A c \in Process : child[c].sem # NewLock
  <1>1. [c \in Process |-> child[c].sem] \in [Process -> Object \cup {None}]
    BY DEF TypeInv, Child
  <1>2. \E o \in Object : \A c \in Process : child[c].sem # o
    BY <1>1, FreeObject
  <1>3. None \notin Object
    BY ProcessesAssumption DEF None, Object
  <1>4. \E o \in Object \ {semName} : \A c \in Process : child[c].sem # o
    BY <1>2, <1>3
  <1>. QED
    BY <1>4 DEF NewLock

LEMMA OpenMemoryType == TypeInv => OpenMemory \in Object
  BY NewMemoryIsNew DEF OpenMemory, TypeInv

LEMMA NoneIsNoObject == None \notin Object
  BY ProcessesAssumption DEF None, Object

LEMMA AtType == \A s \in {"none", "forked", "gone"} : At(s) \in Child /\ At(s).at = s
  BY DEF At, Child, Place, Running

LEMMA TypeInit == Init => TypeInv
  <1>. SUFFICES ASSUME Init PROVE TypeInv
    OBVIOUS
  <1>1. child \in [Process -> Child]
    BY AtType DEF Init
  <1>. QED
    BY <1>1 DEF Init, TypeInv, None, Object

(* SIGTERM ends a worker that has no handler yet, and tells the others.    *)
LEMMA TerminatedFacts ==
    ASSUME TypeInv, NEW D, NEW t, t = Terminated(D)
    PROVE  /\ t \in [Process -> Child]
           /\ \A c \in Process :
                 \/ t[c] = child[c]
                 \/ /\ c \in D \cap Living /\ c \in Worker /\ ~Is(c, Running)
                    /\ t[c] = At("gone")
                 \/ /\ c \in D \cap Living /\ (c \notin Worker \/ Is(c, Running))
                    /\ t[c] = [child[c] EXCEPT !.told = TRUE]
  <1>1. \A c \in Process : child[c] \in Child /\ [child[c] EXCEPT !.told = TRUE] \in Child
    BY DEF TypeInv, Child
  <1>. QED
    BY <1>1, AtType DEF Terminated

(* One process changes.                                                    *)
LEMMA ChildType ==
    ASSUME TypeInv, NEW c \in Process, NEW r, r \in Child, child' = [child EXCEPT ![c] = r]
    PROVE  child' \in [Process -> Child]
  BY DEF TypeInv

LEMMA TypeStep == TypeInv /\ [Next]_vars => TypeInv'
  <1>. SUFFICES ASSUME TypeInv, [Next]_vars PROVE TypeInv'
    OBVIOUS
  <1>. USE DEF TypeInv
  <1>1. ASSUME NEW c \in Process, Fork(c) \/ Exit(c) \/ KillChild(c) PROVE TypeInv'
    <2>1. PICK s \in {"forked", "gone"} : child' = [child EXCEPT ![c] = At(s)]
      BY <1>1 DEF Fork, Exit, KillChild
    <2>2. child' \in [Process -> Child]
      BY <2>1, AtType, ChildType
    <2>3. killed' \in Nat
      BY <1>1 DEF Fork, Exit, KillChild, faults
    <2>4. UNCHANGED <<master, names, table, records, failed>>
      BY <1>1 DEF Fork, Exit, KillChild, faults
    <2>. QED
      BY <2>2, <2>3, <2>4 DEF names, table, records
  <1>2. ASSUME NEW c \in Process, Map(c) PROVE TypeInv'
    <2>1. OpenMemory \in Object /\ OpenMemory # None
      BY OpenMemoryType, NoneIsNoObject
    <2>2. PICK r : r = [child[c] EXCEPT !.at = "mapped", !.mem = OpenMemory]
      OBVIOUS
    <2>3. r \in Child
      BY <2>1, <2>2 DEF Child, Place, Running
    <2>4. child' = [child EXCEPT ![c] = r]
      BY <1>2, <2>2 DEF Map
    <2>. QED
      BY <1>2, <2>1, <2>3, <2>4, ChildType DEF Map, table, records, faults
  <1>3. ASSUME NEW c \in Process, Zero(c) PROVE TypeInv'
    <2>1. PICK r : r = [child[c] EXCEPT !.at = "zeroed"]
      OBVIOUS
    <2>2. r \in Child
      BY <1>3, <2>1 DEF Zero, Is, Child, Place, Running
    <2>3. child' = [child EXCEPT ![c] = r]
      BY <1>3, <2>1 DEF Zero
    <2>. QED
      BY <1>3, <2>2, <2>3, ChildType DEF Zero, names, records, faults
  <1>4. ASSUME NEW c \in Process, OpenSemaphores(c) PROVE TypeInv'
    <2>1. semName' \in Object /\ semName' # None
      BY <1>4, NewLockIsNew, NoneIsNoObject DEF OpenSemaphores
    <2>2. PICK r : r = [child[c] EXCEPT !.at = "up", !.sem = semName']
      OBVIOUS
    <2>3. r \in Child
      BY <1>4, <2>1, <2>2 DEF OpenSemaphores, Is, Child, Place, Running
    <2>4. child' = [child EXCEPT ![c] = r]
      BY <1>4, <2>2 DEF OpenSemaphores
    <2>. QED
      BY <1>4, <2>1, <2>3, <2>4, ChildType DEF OpenSemaphores, records, faults
  <1>5. ASSUME NEW c \in Process, Want(c) \/ Lock(c) PROVE TypeInv'
    <2>1. \E s \in {"wants", "locked"} : child' = [child EXCEPT ![c].at = s]
      BY <1>5 DEF Want, Lock
    <2>4. PICK r :
             /\ child' = [child EXCEPT ![c] = r]
             /\ \E s \in {"wants", "locked"} : r = [child[c] EXCEPT !.at = s]
      BY <2>1
    <2>2. r \in Child
      BY <1>5, <2>4 DEF Want, Lock, Is, Child, Place, Running
    <2>3. value' \in [Object -> {0, 1}]
      BY <1>5 DEF Want, Lock, table
    <2>. QED
      BY <1>5, <2>2, <2>3, <2>4, ChildType DEF Want, Lock, names, table, records, faults
  <1>6. ASSUME NEW c \in Process, Unlock(c) PROVE TypeInv'
    <2>1. PICK r : r = [child[c] EXCEPT !.at = "up"]
      OBVIOUS
    <2>2. r \in Child
      BY <1>6, <2>1 DEF Unlock, Is, Child, Place, Running
    <2>3. child' = [child EXCEPT ![c] = r]
      BY <1>6, <2>1 DEF Unlock
    <2>4. child' \in [Process -> Child]
      BY <2>2, <2>3, ChildType
    <2>5. store' \in [Object -> SUBSET Process] /\ lasting' \subseteq Process
      BY <1>6 DEF Unlock
    <2>. QED
      BY <1>6, <2>4, <2>5 DEF Unlock, names, faults
  <1>7. ASSUME NEW c \in Process, SetupFails(c) PROVE TypeInv'
    <2>1. PICK t : t = Terminated({c[1]} \X (1 .. c[2] - 1))
      OBVIOUS
    <2>2. t \in [Process -> Child] /\ child' = [t EXCEPT ![c] = At("gone")]
      BY <1>7, <2>1, TerminatedFacts DEF SetupFails
    <2>3. child' \in [Process -> Child]
      BY <2>2, AtType
    <2>4. failed' \in Nat /\ UNCHANGED killed
      BY <1>7 DEF SetupFails
    <2>. QED
      BY <1>7, <2>3, <2>4 DEF SetupFails, table, records
  <1>8. ASSUME NEW i \in Start, Signal(i) PROVE TypeInv'
    <2>1. child' \in [Process -> Child]
      BY <1>8, TerminatedFacts DEF Signal
    <2>. QED
      BY <1>8, <2>1 DEF Signal, names, table, records, faults
  <1>9. ASSUME NEW i \in Start, MasterStep(i) \/ Begin(i) \/ KillMaster(i) PROVE TypeInv'
    BY <1>9 DEF MasterStep, Listen, ChildrenGone, CloseListener, Delete, Begin, KillMaster,
                names, table, records, faults
  <1>10. CASE UNCHANGED vars
    BY <1>10 DEF vars, names, table, records, faults
  <1>. QED
    BY <1>1, <1>2, <1>3, <1>4, <1>5, <1>6, <1>7, <1>8, <1>9, <1>10 DEF Next, ChildStep

(* The other processes stay as they are.                                   *)
LEMMA OthersStay ==
    ASSUME TypeInv, NEW c \in Process,
           \/ Fork(c) \/ Map(c) \/ Zero(c) \/ OpenSemaphores(c) \/ Want(c) \/ Lock(c)
           \/ Unlock(c) \/ Exit(c) \/ KillChild(c)
    PROVE  \A d \in Process : d # c => child'[d] = child[d]
  <1>1. \E r : child' = [child EXCEPT ![c] = r]
    BY DEF Fork, Map, Zero, OpenSemaphores, Want, Lock, Unlock, Exit, KillChild
  <1>. QED
    BY <1>1 DEF TypeInv

-----------------------------------------------------------------------------
(* The locks.                                                              *)

Owners(s) == {c \in Process : child[c].sem = s /\ Is(c, {"locked"})}

LockInv ==
    ~broken => \A s \in Object : \/ value[s] = 1 /\ Owners(s) = {}
                                 \/ value[s] = 0 /\ \E c : Owners(s) = {c}

(* Who is not inside the lock, before and after, does not matter.          *)
LEMMA OwnersStay ==
    ASSUME \A c \in Process : \/ child'[c].at = child[c].at /\ child'[c].sem = child[c].sem
                              \/ child[c].at # "locked" /\ child'[c].at # "locked"
    PROVE  \A s : Owners(s)' = Owners(s)
  BY DEF Owners, Is

LEMMA LockStep == TypeInv /\ LockInv /\ [Next]_vars => LockInv'
  <1>. SUFFICES ASSUME TypeInv, LockInv, [Next]_vars, ~broken' PROVE LockInv'
    BY DEF LockInv
  <1>1. ASSUME value' = value, ~broken,
               \A c \in Process : \/ child'[c].at = child[c].at /\ child'[c].sem = child[c].sem
                                  \/ child[c].at # "locked" /\ child'[c].at # "locked"
        PROVE  LockInv'
    BY <1>1, OwnersStay DEF LockInv
  <1>2. ASSUME NEW c \in Process, Fork(c) \/ Map(c) \/ Zero(c) \/ Want(c) \/ Exit(c)
        PROVE  LockInv'
    <2>1. \A d \in Process : d # c => child'[d] = child[d]
      BY <1>2, OthersStay
    <2>2. child[c].at # "locked" /\ child'[c].at # "locked"
      BY <1>2 DEF Fork, Map, Zero, Want, Exit, Is, At, TypeInv, Child
    <2>3. value' = value /\ ~broken
      BY <1>2 DEF Fork, Map, Zero, Want, Exit, table, records, faults
    <2>. QED
      BY <1>1, <2>1, <2>2, <2>3
  <1>3. ASSUME NEW c \in Process, OpenSemaphores(c) PROVE LockInv'
    <2>1. \A d \in Process : d # c => child'[d] = child[d]
      BY <1>3, OthersStay
    <2>2. child[c].at # "locked" /\ child'[c].at # "locked" /\ ~broken
      BY <1>3 DEF OpenSemaphores, Is, TypeInv, Child, faults
    <2>3. value' = value
      <3>1. CASE semName = None
        <4>1. NewLock \in Object /\ Owners(NewLock) = {}
          BY <3>1, NewLockIsNew DEF Owners
        <4>2. value[NewLock] = 1
          BY <2>2, <4>1 DEF LockInv
        <4>. QED
          BY <1>3, <3>1, <4>1, <4>2 DEF OpenSemaphores, TypeInv
      <3>2. CASE semName # None
        BY <1>3, <3>2 DEF OpenSemaphores
      <3>. QED
        BY <3>1, <3>2
    <2>. QED
      BY <1>1, <2>1, <2>2, <2>3
  <1>4. ASSUME NEW c \in Process, Lock(c) PROVE LockInv'
    <2>1. \A d \in Process : d # c => child'[d] = child[d]
      BY <1>4, OthersStay
    <2>2. /\ child[c].at = "wants" /\ child'[c].at = "locked" /\ child'[c].sem = child[c].sem
          /\ ~broken
      BY <1>4 DEF Lock, Is, TypeInv, Child, faults
    <2>3. PICK o \in Object : o = child[c].sem
      BY <2>2 DEF TypeInv, Child, Running
    <2>4. value[o] = 1 /\ value'[o] = 0 /\ \A s \in Object : s # o => value'[s] = value[s]
      BY <1>4, <2>3 DEF Lock, TypeInv
    <2>5. \A s \in Object : s # o => Owners(s)' = Owners(s)
      BY <2>1, <2>2, <2>3 DEF Owners, Is
    <2>6. Owners(o)' = Owners(o) \cup {c}
      BY <2>1, <2>2, <2>3 DEF Owners, Is
    <2>7. Owners(o)' = {c}
      BY <2>2, <2>4, <2>6 DEF LockInv
    <2>. QED
      BY <2>2, <2>4, <2>5, <2>7 DEF LockInv
  <1>5. ASSUME NEW c \in Process, Unlock(c) PROVE LockInv'
    <2>1. \A d \in Process : d # c => child'[d] = child[d]
      BY <1>5, OthersStay
    <2>2. /\ child[c].at = "locked" /\ child'[c].at = "up" /\ child'[c].sem = child[c].sem
          /\ ~broken
      BY <1>5 DEF Unlock, Is, TypeInv, Child, faults
    <2>3. PICK o \in Object : o = child[c].sem
      BY <2>2 DEF TypeInv, Child, Running
    <2>4. value'[o] = 1 /\ \A s \in Object : s # o => value'[s] = value[s]
      BY <1>5, <2>3 DEF Unlock, TypeInv
    <2>5. \A s \in Object : s # o => Owners(s)' = Owners(s)
      BY <2>1, <2>2, <2>3 DEF Owners, Is
    <2>6. Owners(o) = {c}
      BY <2>2, <2>3 DEF LockInv, Owners, Is
    <2>7. Owners(o)' = {}
      <3>1. Owners(o)' \subseteq Owners(o) \ {c}
        BY <2>1, <2>2 DEF Owners, Is
      <3>. QED
        BY <2>6, <3>1
    <2>. QED
      BY <2>2, <2>4, <2>5, <2>7 DEF LockInv
  <1>6. ASSUME NEW c \in Process, KillChild(c) PROVE LockInv'
    <2>1. \A d \in Process : d # c => child'[d] = child[d]
      BY <1>6, OthersStay
    <2>2. child[c].at # "locked" /\ child'[c].at # "locked" /\ ~broken /\ value' = value
      BY <1>6 DEF KillChild, Is, At, TypeInv, table
    <2>. QED
      BY <1>1, <2>1, <2>2
  <1>7. ASSUME NEW D, NEW t, t = Terminated(D), NEW c \in Process
        PROVE  \/ t[c].at = child[c].at /\ t[c].sem = child[c].sem
               \/ child[c].at # "locked" /\ t[c].at = "gone"
    <2>1. \/ t[c] = child[c]
          \/ ~Is(c, Running) /\ t[c] = At("gone")
          \/ t[c] = [child[c] EXCEPT !.told = TRUE]
      BY <1>7, TerminatedFacts
    <2>2. child[c] \in Child
      BY DEF TypeInv
    <2>. QED
      BY <2>1, <2>2, AtType DEF Child, Is, Running
  <1>8. ASSUME NEW c \in Process, SetupFails(c) PROVE LockInv'
    <2>1. PICK t : /\ t = Terminated({c[1]} \X (1 .. c[2] - 1))
                   /\ child' = [t EXCEPT ![c] = At("gone")]
      BY <1>8 DEF SetupFails
    <2>2. DOMAIN t = Process
      BY <2>1, TerminatedFacts
    <2>3. child[c].at # "locked" /\ child'[c].at # "locked" /\ ~broken /\ value' = value
      BY <1>8, <2>1, <2>2, AtType DEF SetupFails, Is, table
    <2>4. \A d \in Process : d # c => child'[d] = t[d]
      BY <2>1, <2>2
    <2>. QED
      BY <1>1, <1>7, <2>1, <2>3, <2>4
  <1>9. ASSUME NEW i \in Start, Signal(i) PROVE LockInv'
    <2>1. ~broken /\ value' = value /\ child' = Terminated(Brood(i))
      BY <1>9 DEF Signal, table, faults
    <2>. QED
      BY <1>1, <1>7, <2>1
  <1>10. ASSUME NEW i \in Start, MasterStep(i) \/ Begin(i) \/ KillMaster(i) PROVE LockInv'
    <2>1. ~broken /\ value' = value /\ child' = child
      BY <1>10 DEF MasterStep, Listen, ChildrenGone, CloseListener, Delete, Begin, KillMaster,
                   table, faults
    <2>. QED
      BY <1>1, <2>1
  <1>11. CASE UNCHANGED vars
    BY <1>1, <1>11 DEF vars, table, faults
  <1>. QED
    BY <1>2, <1>3, <1>4, <1>5, <1>6, <1>8, <1>9, <1>10, <1>11 DEF Next, ChildStep

(* Unless a process was killed inside a lock, each lock is free, or has one*)
(* owner, through all starts and stops.                                    *)
THEOREM LocksSurviveRestarts == Spec => []LocksSurvive
  <1>1. Init => LockInv
    BY DEF Init, LockInv, Owners, Is, At
  <1>2. LockInv => LocksSurvive
    <2>. SUFFICES ASSUME LockInv, ~broken, NEW s \in Object
                  PROVE  value[s] + Cardinality(Owners(s)) = 1
      BY DEF LocksSurvive, Owners
    <2>1. Cardinality({}) = 0 /\ \A c : Cardinality({c}) = 1
      BY FS_EmptySet, FS_Singleton
    <2>2. CASE value[s] = 1 /\ Owners(s) = {}
      BY <2>1, <2>2
    <2>3. CASE value[s] = 0 /\ \E c : Owners(s) = {c}
      <3>1. Cardinality(Owners(s)) = 1
        BY <2>1, <2>3, Zenon
      <3>. QED
        BY <2>3, <3>1
    <2>. QED
      BY <2>2, <2>3 DEF LockInv
  <1>. QED
    BY <1>1, <1>2, TypeInit, TypeStep, LockStep, PTL DEF Spec

-----------------------------------------------------------------------------
(* What is left.                                                           *)

Busy(i) == master[i] \notin {"off", "gone"}

(* A process that is told to end before it is ready was told by a master   *)
(* that waits for it: a worker would have ended, and who is told by a      *)
(* sibling whose set-up failed is a worker.  So whoever sets a name again  *)
(* has a master that will remove it, or does not end.                      *)
RemainInv ==
    killed = 0 =>
        /\ \A c \in Living : child[c].told /\ ~Is(c, Running) => master[c[1]] = "waiting"
        /\ memName # None \/ semName # None =>
              (\E i \in Start : Busy(i)) \/ (\E c \in Living : ~child[c].told)

LEMMA BroodIs ==
    \A c \in Process : c[1] \in Start /\ \A i \in Start : c \in Brood(i) <=> c[1] = i
  BY DEF Process, Brood

LEMMA RemainStep == TypeInv /\ RemainInv /\ [Next]_vars => RemainInv'
  <1>. SUFFICES ASSUME TypeInv, RemainInv, [Next]_vars, killed' = 0 PROVE RemainInv'
    BY DEF RemainInv
  <1>. DEFINE Waits(c) == c \in Living /\ child[c].told /\ ~Is(c, Running)
                            => master[c[1]] = "waiting"
              Left == memName # None \/ semName # None
              Cared == (\E i \in Start : Busy(i)) \/ (\E c \in Living : ~child[c].told)
  <1>1. (\A c \in Process : Waits(c)') /\ (Left' => Cared') => RemainInv'
    BY DEF RemainInv, Living
  <1>2. killed = 0 => (\A c \in Process : Waits(c)) /\ (Left => Cared)
    BY DEF RemainInv
  <1>. HIDE DEF Waits, Left, Cared
  <1>3. ASSUME NEW c \in Process, \A d \in Process : d # c => child'[d] = child[d],
               UNCHANGED <<master, killed>>,
               \/ child[c].at = "none" /\ ~child'[c].told
               \/ child[c].told /\ child'[c].at = "gone"
               \/ /\ child'[c].told = child[c].told /\ c \in Living /\ child'[c].at # "gone"
                  /\ child'[c].at # "none" /\ (Is(c, Running) => Is(c, Running)')
        PROVE  (\A d \in Process : Waits(d)') /\ (Cared => Cared')
    <2>1. killed = 0
      BY <1>3
    <2>2. ASSUME NEW d \in Process PROVE Waits(d)'
      <3>1. CASE d # c
        BY <1>2, <1>3, <2>1, <3>1 DEF Waits, Living, Is
      <3>2. CASE d = c
        BY <1>2, <1>3, <2>1, <3>2 DEF Waits, Living, Is
      <3>. QED
        BY <3>1, <3>2
    <2>3. \A d \in Living : ~child[d].told => d \in Living' /\ ~child'[d].told
      BY <1>3 DEF Living, Is
    <2>. QED
      BY <1>3, <2>2, <2>3 DEF Cared, Busy
  <1>4. ASSUME NEW c \in Process, Fork(c) PROVE RemainInv'
    <2>1. child[c].at = "none" /\ ~child'[c].told /\ UNCHANGED <<master, killed, names>>
      BY <1>4 DEF Fork, Is, At, TypeInv, faults
    <2>2. \A d \in Process : d # c => child'[d] = child[d]
      BY <1>4, OthersStay
    <2>. QED
      BY <1>1, <1>2, <1>3, <2>1, <2>2 DEF Left, names
  <1>5. ASSUME NEW c \in Process, Want(c) \/ Lock(c) \/ Unlock(c) \/ Zero(c) PROVE RemainInv'
    <2>1. /\ child'[c].told = child[c].told /\ c \in Living /\ child'[c].at # "gone"
          /\ child'[c].at # "none" /\ (Is(c, Running) => Is(c, Running)')
          /\ UNCHANGED <<master, killed, names>>
      BY <1>5 DEF Want, Lock, Unlock, Zero, Is, Living, Running, TypeInv, Child, faults
    <2>2. \A d \in Process : d # c => child'[d] = child[d]
      BY <1>5, OthersStay
    <2>. QED
      BY <1>1, <1>2, <1>3, <2>1, <2>2 DEF Left, names
  <1>6. ASSUME NEW c \in Process, Map(c) \/ OpenSemaphores(c) PROVE RemainInv'
    <2>1. /\ child'[c].told = child[c].told /\ c \in Living /\ child'[c].at # "gone"
          /\ child'[c].at # "none" /\ ~Is(c, Running)
          /\ UNCHANGED <<master, killed>>
      BY <1>6 DEF Map, OpenSemaphores, Is, Living, Running, TypeInv, Child, faults
    <2>2. \A d \in Process : d # c => child'[d] = child[d]
      BY <1>6, OthersStay
    <2>3. Cared'
      <3>1. CASE child[c].told
        <4>1. killed = 0 /\ master' = master
          BY <2>1
        <4>2. Waits(c)
          BY <1>2, <4>1
        <4>3. master[c[1]] = "waiting"
          BY <2>1, <3>1, <4>2 DEF Waits
        <4>. QED
          BY <4>1, <4>3, BroodIs DEF Cared, Busy
      <3>2. CASE ~child[c].told
        BY <2>1, <3>2 DEF Cared, Living, Is
      <3>. QED
        BY <3>1, <3>2
    <2>. QED
      BY <1>1, <1>2, <1>3, <2>1, <2>2, <2>3
  <1>7. ASSUME NEW c \in Process, Exit(c) PROVE RemainInv'
    <2>1. child[c].told /\ child'[c].at = "gone" /\ UNCHANGED <<master, killed, names>>
      BY <1>7 DEF Exit, Is, At, TypeInv, faults
    <2>2. \A d \in Process : d # c => child'[d] = child[d]
      BY <1>7, OthersStay
    <2>. QED
      BY <1>1, <1>2, <1>3, <2>1, <2>2 DEF Left, names
  <1>8. ASSUME NEW c \in Process, SetupFails(c) PROVE RemainInv'
    <2>1. PICK t : /\ t = Terminated({c[1]} \X (1 .. c[2] - 1))
                   /\ child' = [t EXCEPT ![c] = At("gone")]
      BY <1>8 DEF SetupFails
    <2>2. /\ DOMAIN t = Process
          /\ \A d \in Process :
                \/ t[d] = child[d]
                \/ t[d] = At("gone")
                \/ /\ d \in {c[1]} \X (1 .. c[2] - 1) /\ (d \notin Worker \/ Is(d, Running))
                   /\ t[d] = [child[d] EXCEPT !.told = TRUE]
      BY <2>1, TerminatedFacts
    <2>3. ~Left' /\ UNCHANGED <<master, killed>>
      BY <1>8 DEF SetupFails, Left
    <2>4. \A d \in {c[1]} \X (1 .. c[2] - 1) : d \in Worker
      BY ProcessesAssumption DEF Process, Worker
    <2>5. ASSUME NEW d \in Process PROVE Waits(d)'
      <3>1. CASE child'[d] = At("gone")
        BY <3>1 DEF Waits, Living, Is, At
      <3>2. CASE child'[d] = child[d]
        BY <1>2, <2>3, <3>2 DEF Waits, Living, Is
      <3>3. CASE Is(d, Running) /\ child'[d] = [child[d] EXCEPT !.told = TRUE]
        BY <3>3 DEF Waits, Is, TypeInv, Child
      <3>. QED
        BY <2>1, <2>2, <2>4, <3>1, <3>2, <3>3
    <2>. QED
      BY <1>1, <2>3, <2>5
  <1>9. ASSUME NEW i \in Start, Signal(i) PROVE RemainInv'
    <2>1. /\ child' = Terminated(Brood(i)) /\ master' = [master EXCEPT ![i] = "waiting"]
          /\ killed' = killed
      BY <1>9 DEF Signal, faults
    <2>2. ASSUME NEW d \in Process PROVE Waits(d)'
      <3>1. \/ child'[d] = child[d]
            \/ child'[d] = At("gone")
            \/ d \in Brood(i)
        BY <2>1, TerminatedFacts
      <3>2. CASE child'[d] = child[d]
        BY <1>2, <2>1, <3>2 DEF Waits, Living, Is, TypeInv
      <3>3. CASE child'[d] = At("gone")
        BY <3>3 DEF Waits, Living, Is, At
      <3>4. CASE d \in Brood(i)
        BY <2>1, <3>4, BroodIs DEF Waits, TypeInv
      <3>. QED
        BY <3>1, <3>2, <3>3, <3>4
    <2>3. Cared'
      BY <2>1 DEF Cared, Busy, TypeInv
    <2>. QED
      BY <1>1, <2>2, <2>3
  <1>10. ASSUME NEW i \in Start, Listen(i) \/ CloseListener(i) \/ Begin(i) PROVE RemainInv'
    <2>1. /\ UNCHANGED <<child, names, killed>> /\ master[i] # "waiting"
          /\ \A j \in Start : j # i => master'[j] = master[j]
          /\ Busy(i)' \/ \E j \in Start : Listens(j)
      BY <1>10 DEF Listen, CloseListener, Begin, Busy, TypeInv, faults
    <2>2. ASSUME NEW d \in Process PROVE Waits(d)'
      BY <1>2, <2>1, BroodIs DEF Waits, Living, Is
    <2>3. Cared'
      <3>1. CASE Busy(i)'
        BY <3>1 DEF Cared
      <3>2. CASE \E j \in Start : Listens(j)
        BY <1>10, <2>1, <3>2 DEF Listen, CloseListener, Begin, Cared, Busy, Listens, TypeInv
      <3>. QED
        BY <2>1, <3>1, <3>2
    <2>. QED
      BY <1>1, <2>2, <2>3
  <1>11. ASSUME NEW i \in Start, ChildrenGone(i) PROVE RemainInv'
    <2>1. /\ UNCHANGED <<child, killed>> /\ Brood(i) \cap Living = {}
          /\ master' = [master EXCEPT ![i] = "leaving"]
      BY <1>11 DEF ChildrenGone, faults
    <2>2. ASSUME NEW d \in Process PROVE Waits(d)'
      BY <1>2, <2>1, BroodIs DEF Waits, Living, Is, TypeInv
    <2>3. Cared'
      BY <2>1 DEF Cared, Busy, TypeInv
    <2>. QED
      BY <1>1, <2>2, <2>3
  <1>12. ASSUME NEW i \in Start, Delete(i) PROVE RemainInv'
    <2>1. /\ UNCHANGED <<child, killed>> /\ ~Left' /\ master[i] # "waiting"
          /\ \A j \in Start : j # i => master'[j] = master[j]
      BY <1>12 DEF Delete, Left, TypeInv, faults
    <2>2. ASSUME NEW d \in Process PROVE Waits(d)'
      BY <1>2, <2>1, BroodIs DEF Waits, Living, Is
    <2>. QED
      BY <1>1, <2>1, <2>2
  <1>13. ASSUME NEW c \in Process, KillChild(c) PROVE FALSE
    BY <1>13 DEF KillChild, TypeInv
  <1>14. ASSUME NEW i \in Start, KillMaster(i) PROVE FALSE
    BY <1>14 DEF KillMaster, TypeInv
  <1>15. CASE UNCHANGED vars
    BY <1>15 DEF vars, faults, names, RemainInv, Living, Is, Busy
  <1>. QED
    BY <1>4, <1>5, <1>6, <1>7, <1>8, <1>9, <1>10, <1>11, <1>12, <1>13, <1>14, <1>15
    DEF Next, ChildStep, MasterStep

(* After stops that are let finish no name is left, though set-ups failed  *)
(* or starts overlapped.                                                   *)
THEOREM StopsLeaveNoNames == Spec => []NothingRemains
  <1>1. Init => RemainInv
    BY DEF Init, RemainInv, Living, Is, At
  <1>2. RemainInv => NothingRemains
    BY DEF RemainInv, NothingRemains, Busy
  <1>. QED
    BY <1>1, <1>2, TypeInit, TypeStep, RemainStep, PTL DEF Spec

-----------------------------------------------------------------------------
(* The records.                                                            *)

(* The starts that are not over.                                           *)
Active == {i \in Start : Busy(i)} \cup {c[1] : c \in Living}

(* Without overlaps one start is active.  Its processes use the memory that*)
(* has the name, and after the start is over none of them zeroes it.       *)
ShareInv ==
    /\ \A i \in Start : master[i] \in {"leaving", "closed"} => Brood(i) \cap Living = {}
    /\ ~overlap /\ failed = 0 =>
          /\ \A i, j \in Active : i = j
          /\ \A c \in Living : child[c].mem # None => child[c].mem = memName
          /\ \A r \in lasting :
                StartIsOver(r) /\ \A c \in Brood(r[1]) :
                    Is(c, Running) => r \in store[child[c].mem]

LEMMA ShareStep == TypeInv /\ ShareInv /\ [Next]_vars => ShareInv'
  <1>. SUFFICES ASSUME TypeInv, ShareInv, [Next]_vars PROVE ShareInv'
    OBVIOUS
  <1>. DEFINE Alone == ~overlap /\ failed = 0
              Ending == \A i \in Start : master[i] \in {"leaving", "closed"} =>
                           \A c \in Living : c[1] # i
              One == \A i, j \in Active : i = j
              Named(c) == c \in Living /\ child[c].mem # None => child[c].mem = memName
              Lasts(r, c) == c[1] = r[1] => /\ Is(c, Running \cup {"gone"})
                                            /\ Is(c, Running) => r \in store[child[c].mem]
  <1>1. /\ Ending
        /\ Alone => /\ One /\ \A c \in Process : Named(c)
                    /\ \A r \in lasting, c \in Process : Lasts(r, c)
    BY BroodIs DEF ShareInv, Living, StartIsOver, TypeInv
  <1>2. /\ Ending'
        /\ Alone' => /\ One' /\ \A c \in Process : Named(c)'
                     /\ \A r \in lasting', c \in Process : Lasts(r, c)'
        => ShareInv'
    <2>1. \A c \in Process, i \in Start : c \in Brood(i) => c[1] = i
      BY BroodIs
    <2>2. \A r \in lasting' : r \in Process
      BY TypeStep DEF TypeInv
    <2>3. \A i \in Start : Brood(i) \subseteq Process
      BY DEF Brood, Process
    <2>. QED
      BY <2>1, <2>2, <2>3, BroodIs DEF ShareInv, Living, StartIsOver
  <1>. DEFINE Tame(c) == \/ child'[c].at = "gone"
                         \/ /\ child'[c].mem = child[c].mem
                            /\ \/ child'[c].at = child[c].at
                               \/ /\ c \in Living /\ child'[c].at # "none"
                                  /\ Is(c, Running) => Is(c, Running)'
  <1>. HIDE DEF Alone, Ending, One, Named, Lasts
  <1>3. ASSUME \A c \in Process : Tame(c),
               \A i \in Start : /\ Busy(i)' => Busy(i)
                                /\ master'[i] \in {"leaving", "closed"} =>
                                      master[i] \in {"leaving", "closed"}
        PROVE  Ending' /\ (One => One')
    <2>1. \A c \in Living' : c \in Living
      BY <1>3 DEF Living, Is
    <2>2. \A i \in Active' : i \in Active
      BY <1>3, <2>1 DEF Active
    <2>3. Ending'
      BY <1>1, <1>3, <2>1 DEF Ending
    <2>. QED
      BY <2>2, <2>3 DEF One
  <1>4. ASSUME Alone, \A c \in Process : Tame(c), memName' = memName
        PROVE  \A c \in Process : Named(c)'
    BY <1>1, <1>4 DEF Named, Living, Is
  <1>5. ASSUME Alone, \A c \in Process : Tame(c), NEW r \in lasting,
               \A m \in Object : r \in store[m] => r \in store'[m]
        PROVE  \A c \in Process : Lasts(r, c)'
    <2>1. ASSUME NEW c \in Process, Lasts(r, c) PROVE Lasts(r, c)'
      <3>1. CASE child'[c].at = "gone"
        BY <3>1 DEF Lasts, Is, Running
      <3>2. CASE child'[c].mem = child[c].mem /\ child'[c].at = child[c].at
        <4>1. Is(c, Running) => child[c].mem \in Object
          BY DEF TypeInv, Child, Is
        <4>. QED
          BY <1>5, <2>1, <3>2, <4>1 DEF Lasts, Is
      <3>3. CASE /\ child'[c].mem = child[c].mem
                 /\ c \in Living /\ child'[c].at # "none"
                 /\ Is(c, Running) => Is(c, Running)'
        <4>1. Is(c, Running) => child[c].mem \in Object
          BY DEF TypeInv, Child, Is
        <4>. QED
          BY <1>5, <2>1, <3>3, <4>1 DEF Lasts, Is, Living
      <3>. QED
        BY <1>5, <3>1, <3>2, <3>3
    <2>. QED
      BY <1>1, <1>5, <2>1
  <1>6. ASSUME \A c \in Process : Tame(c),
               \A i \in Start : /\ Busy(i)' => Busy(i)
                                /\ master'[i] \in {"leaving", "closed"} =>
                                      master[i] \in {"leaving", "closed"},
               Alone' => Alone, UNCHANGED <<memName, lasting, store>>
        PROVE  ShareInv'
    <2>1. Ending' /\ (One => One')
      BY <1>3, <1>6
    <2>2. Alone => \A c \in Process : Named(c)'
      BY <1>4, <1>6
    <2>3. Alone => \A r \in lasting, c \in Process : Lasts(r, c)'
      BY <1>5, <1>6
    <2>. QED
      BY <1>1, <1>2, <1>6, <2>1, <2>2, <2>3
  <1>7. ASSUME NEW c \in Process,
               Want(c) \/ Lock(c) \/ OpenSemaphores(c) \/ Exit(c) \/ KillChild(c)
        PROVE  ShareInv'
    <2>1. \A d \in Process : d # c => child'[d] = child[d]
      BY <1>7, OthersStay
    <2>2. Tame(c)
      BY <1>7 DEF Want, Lock, OpenSemaphores, Exit, KillChild, Is, At, Living, Running,
                  TypeInv, Child
    <2>3. UNCHANGED <<master, memName, lasting, store, overlap, failed>>
      BY <1>7 DEF Want, Lock, OpenSemaphores, Exit, KillChild, names, table, records, faults
    <2>. QED
      BY <1>6, <2>1, <2>2, <2>3 DEF Alone, Busy
  <1>8. ASSUME NEW i \in Start, Listen(i) \/ CloseListener(i) \/ KillMaster(i) PROVE ShareInv'
    <2>1. /\ UNCHANGED <<child, memName, lasting, store, overlap, failed>>
          /\ \A j \in Start : /\ Busy(j)' => Busy(j)
                              /\ master'[j] \in {"leaving", "closed"} =>
                                    master[j] \in {"leaving", "closed"}
      BY <1>8 DEF Listen, CloseListener, KillMaster, names, table, records, faults, Busy, TypeInv
    <2>. QED
      BY <1>6, <2>1 DEF Alone
  <1>9. ASSUME NEW i \in Start, Signal(i) PROVE ShareInv'
    <2>1. /\ UNCHANGED <<memName, lasting, store, overlap, failed>>
          /\ child' = Terminated(Brood(i))
          /\ \A j \in Start : /\ Busy(j)' => Busy(j)
                              /\ master'[j] \in {"leaving", "closed"} =>
                                    master[j] \in {"leaving", "closed"}
      BY <1>9 DEF Signal, names, table, records, faults, Busy, TypeInv
    <2>2. ASSUME NEW c \in Process PROVE Tame(c)
      <3>1. \/ child'[c] = child[c]
            \/ child'[c] = At("gone")
            \/ child'[c] = [child[c] EXCEPT !.told = TRUE]
        BY <2>1, TerminatedFacts
      <3>. QED
        BY <3>1, AtType DEF TypeInv, Child
    <2>. QED
      BY <1>6, <2>1, <2>2 DEF Alone
  <1>10. ASSUME NEW c \in Process, SetupFails(c) PROVE ShareInv'
    <2>1. PICK t : /\ t = Terminated({c[1]} \X (1 .. c[2] - 1))
                   /\ child' = [t EXCEPT ![c] = At("gone")]
      BY <1>10 DEF SetupFails
    <2>2. /\ DOMAIN t = Process
          /\ \A d \in Process : \/ t[d] = child[d]
                                \/ t[d] = At("gone")
                                \/ t[d] = [child[d] EXCEPT !.told = TRUE]
      BY <2>1, TerminatedFacts
    <2>3. \A d \in Process : Tame(d)
      BY <2>1, <2>2, AtType DEF TypeInv, Child
    <2>4. ~Alone' /\ UNCHANGED master
      BY <1>10 DEF SetupFails, Alone, TypeInv
    <2>. QED
      BY <1>2, <1>3, <2>3, <2>4 DEF Busy
  <1>11. CASE UNCHANGED vars
    BY <1>6, <1>11 DEF vars, names, table, records, faults, Alone, Busy
  <1>12. ASSUME NEW c \in Process, Fork(c) PROVE ShareInv'
    <2>1. /\ UNCHANGED <<master, memName, lasting, store, overlap, failed>>
          /\ child[c].at = "none" /\ child'[c].at = "forked" /\ child'[c].mem = None
          /\ master[c[1]] = "forking"
      BY <1>12 DEF Fork, Is, At, names, table, records, faults, TypeInv
    <2>2. \A d \in Process : d # c => child'[d] = child[d]
      BY <1>12, OthersStay
    <2>3. \A d \in Living' : d \in Living \/ d = c
      BY <2>2 DEF Living, Is
    <2>4. Ending'
      BY <1>1, <2>1, <2>3 DEF Ending
    <2>5. One => One'
      <3>1. c[1] \in Active
        BY <2>1, BroodIs DEF Active, Busy
      <3>2. \A i \in Active' : i \in Active
        BY <2>1, <2>3, <3>1 DEF Active, Busy
      <3>. QED
        BY <3>2 DEF One
    <2>6. Alone => \A d \in Process : Named(d)'
      BY <1>1, <2>1, <2>2 DEF Named, Living, Is
    <2>7. Alone => \A r \in lasting, d \in Process : Lasts(r, d)'
      BY <1>1, <2>1, <2>2 DEF Lasts, Is, Running
    <2>. QED
      BY <1>1, <1>2, <2>1, <2>4, <2>5, <2>6, <2>7 DEF Alone
  <1>13. ASSUME NEW c \in Process, Map(c) PROVE ShareInv'
    <2>1. /\ UNCHANGED <<master, lasting, store, overlap, failed>>
          /\ child[c].at = "forked" /\ child'[c].at = "mapped" /\ child'[c].mem = memName'
          /\ memName # None => memName' = memName
      BY <1>13 DEF Map, Is, OpenMemory, table, records, faults, TypeInv, Child
    <2>2. \A d \in Process : d # c => child'[d] = child[d]
      BY <1>13, OthersStay
    <2>3. \A d \in Living' : d \in Living
      BY <2>1, <2>2 DEF Living, Is
    <2>4. Ending'
      BY <1>1, <2>1, <2>3 DEF Ending
    <2>5. One => One'
      BY <2>1, <2>3 DEF One, Active, Busy
    <2>6. Alone => \A d \in Process : Named(d)'
      BY <1>1, <2>1, <2>2 DEF Named, Living, Is
    <2>7. Alone => \A r \in lasting, d \in Process : Lasts(r, d)'
      BY <1>1, <2>1, <2>2 DEF Lasts, Is, Running
    <2>. QED
      BY <1>1, <1>2, <2>1, <2>4, <2>5, <2>6, <2>7 DEF Alone
  <1>14. ASSUME NEW c \in Process, Zero(c) PROVE ShareInv'
    <2>1. /\ UNCHANGED <<master, memName, lasting, overlap, failed>>
          /\ child[c].at = "mapped" /\ child'[c].at = "zeroed" /\ child'[c].mem = child[c].mem
          /\ c \in Living
      BY <1>14 DEF Zero, Is, names, records, faults, TypeInv, Child, Living
    <2>2. \A d \in Process : d # c => child'[d] = child[d]
      BY <1>14, OthersStay
    <2>3. \A d \in Process : Tame(d)
      BY <2>1, <2>2 DEF Is, Running
    <2>4. Ending' /\ (One => One')
      BY <1>3, <2>1, <2>3 DEF Busy
    <2>5. Alone => \A d \in Process : Named(d)'
      BY <1>4, <2>1, <2>3
    <2>6. ASSUME Alone, NEW r \in lasting, NEW d \in Process PROVE Lasts(r, d)'
      <3>1. CASE d = c
        BY <1>1, <2>1, <2>6, <3>1 DEF Lasts, Is, Running
      <3>2. CASE Is(d, Running) /\ d[1] = r[1]
        <4>1. c[1] \in Active /\ d[1] \in Active
          BY <2>1, <3>2 DEF Active, Living, Is, Running
        <4>2. c[1] = d[1]
          BY <1>1, <2>6, <4>1 DEF One
        <4>. QED
          BY <1>1, <2>1, <2>6, <3>2, <4>2 DEF Lasts, Is, Running
      <3>3. CASE d # c /\ ~(Is(d, Running) /\ d[1] = r[1])
        BY <1>1, <2>2, <2>6, <3>3 DEF Lasts, Is
      <3>. QED
        BY <3>1, <3>2, <3>3
    <2>. QED
      BY <1>1, <1>2, <2>1, <2>4, <2>5, <2>6 DEF Alone
  <1>15. ASSUME NEW c \in Process, Unlock(c) PROVE ShareInv'
    <2>1. /\ UNCHANGED <<master, memName, overlap, failed>>
          /\ child[c].at = "locked" /\ child'[c].at = "up" /\ child'[c].mem = child[c].mem
          /\ c \in Living /\ child[c].mem \in Object /\ child[c].mem # None
          /\ store' = [store EXCEPT ![child[c].mem] = @ \cup ({c} \cap Worker)]
          /\ lasting' = lasting \/ (StartIsOver(c) /\ lasting' = lasting \cup ({c} \cap Worker))
      BY <1>15 DEF Unlock, Is, names, faults, TypeInv, Child, Living, Running
    <2>2. \A d \in Process : d # c => child'[d] = child[d]
      BY <1>15, OthersStay
    <2>3. \A d \in Process : Tame(d)
      BY <2>1, <2>2 DEF Is, Running
    <2>4. Ending' /\ (One => One')
      BY <1>3, <2>1, <2>3 DEF Busy
    <2>5. Alone => \A d \in Process : Named(d)'
      BY <1>4, <2>1, <2>3
    <2>6. \A r, m : m \in Object /\ r \in store[m] => r \in store'[m]
      BY <2>1 DEF TypeInv
    <2>7. Alone => \A r \in lasting, d \in Process : Lasts(r, d)'
      BY <1>5, <2>3, <2>6
    <2>8. ASSUME Alone, c \in Worker, StartIsOver(c), NEW d \in Process PROVE Lasts(c, d)'
      <3>. SUFFICES ASSUME d[1] = c[1]
                    PROVE  /\ Is(d, Running \cup {"gone"})'
                           /\ Is(d, Running)' => c \in store'[child'[d].mem]
        BY DEF Lasts
      <3>1. Is(d, Running \cup {"gone"})
        BY <2>8, BroodIs DEF StartIsOver
      <3>2. Is(d, Running \cup {"gone"})'
        BY <2>1, <2>2, <3>1 DEF Is, Running
      <3>3. ASSUME Is(d, Running)' PROVE child'[d].mem = child[c].mem
        <4>1. d \in Living /\ child'[d].mem = child[d].mem
          BY <2>1, <2>2, <3>3 DEF Is, Running, Living
        <4>2. child[d].mem # None
          BY <2>1, <2>2, <3>3 DEF Is, Running, TypeInv, Child
        <4>. QED
          BY <1>1, <2>1, <2>8, <4>1, <4>2 DEF Named
      <3>4. c \in store'[child[c].mem]
        BY <2>1, <2>8 DEF TypeInv
      <3>. QED
        BY <3>2, <3>3, <3>4
    <2>9. Alone => \A r \in lasting', d \in Process : Lasts(r, d)'
      <3>1. \A r \in lasting' : r \in lasting \/ (r = c /\ c \in Worker /\ StartIsOver(c))
        BY <2>1
      <3>. QED
        BY <2>7, <2>8, <3>1
    <2>. QED
      BY <1>1, <1>2, <2>1, <2>4, <2>5, <2>9 DEF Alone
  <1>16. ASSUME NEW i \in Start, ChildrenGone(i) PROVE ShareInv'
    <2>1. /\ UNCHANGED <<child, memName, lasting, store, overlap, failed>>
          /\ Brood(i) \cap Living = {} /\ Busy(i)
          /\ \A j \in Start : j # i => master'[j] = master[j]
      BY <1>16 DEF ChildrenGone, names, table, records, faults, TypeInv, Busy
    <2>2. \A c \in Living : c[1] # i
      BY <2>1, BroodIs DEF Living
    <2>3. Ending'
      BY <1>1, <2>1, <2>2 DEF Ending, Living, Is
    <2>4. One => One'
      <3>1. \A j \in Active' : j \in Active
        BY <2>1 DEF Active, Living, Is, Busy
      <3>. QED
        BY <3>1 DEF One
    <2>5. Alone => \A d \in Process : Named(d)'
      BY <1>4, <2>1
    <2>6. Alone => \A r \in lasting, d \in Process : Lasts(r, d)'
      BY <1>5, <2>1
    <2>. QED
      BY <1>1, <1>2, <2>1, <2>3, <2>4, <2>5, <2>6 DEF Alone
  <1>17. ASSUME NEW i \in Start, Delete(i) PROVE ShareInv'
    <2>1. /\ UNCHANGED <<child, lasting, store, overlap, failed>>
          /\ master[i] = "closed" /\ master' = [master EXCEPT ![i] = "gone"]
      BY <1>17 DEF Delete, table, records, faults
    <2>2. /\ \A c \in Process : Tame(c)
          /\ \A j \in Start : /\ Busy(j)' => Busy(j)
                              /\ master'[j] \in {"leaving", "closed"} =>
                                    master[j] \in {"leaving", "closed"}
      BY <2>1 DEF Busy, TypeInv
    <2>3. Ending' /\ (One => One')
      BY <1>3, <2>2
    <2>4. Alone => \A d \in Process : Named(d)'
      <3>1. ASSUME Alone, NEW d \in Living PROVE FALSE
        <4>1. d[1] \in Active /\ i \in Active
          BY <2>1 DEF Active, Busy
        <4>. QED
          BY <1>1, <2>1, <3>1, <4>1 DEF One, Ending
      <3>. QED
        BY <2>1, <3>1 DEF Named, Living, Is
    <2>5. Alone => \A r \in lasting, d \in Process : Lasts(r, d)'
      BY <1>5, <2>1, <2>2
    <2>. QED
      BY <1>1, <1>2, <2>1, <2>3, <2>4, <2>5 DEF Alone
  <1>18. ASSUME NEW i \in Start, Begin(i) PROVE ShareInv'
    <2>1. /\ UNCHANGED <<child, memName, lasting, store, failed>>
          /\ master' = [master EXCEPT ![i] = "forking"]
          /\ Alone' => Alone /\ Living = {} /\ \A j \in Start : ~Busy(j)
      BY <1>18 DEF Begin, names, table, records, Alone, Busy
    <2>2. Ending'
      BY <1>1, <2>1 DEF Ending, TypeInv, Living, Is
    <2>3. Alone' => One'
      BY <2>1 DEF One, Active, Busy, TypeInv, Living, Is
    <2>4. Alone => \A d \in Process : Named(d)'
      BY <1>4, <2>1
    <2>5. Alone => \A r \in lasting, d \in Process : Lasts(r, d)'
      BY <1>5, <2>1
    <2>. QED
      BY <1>1, <1>2, <2>1, <2>2, <2>3, <2>4, <2>5
  <1>. QED
    BY <1>7, <1>8, <1>9, <1>10, <1>11, <1>12, <1>13, <1>14, <1>15, <1>16, <1>17, <1>18
    DEF Next, ChildStep, MasterStep

(* What was acknowledged after a start is in the memory that every process *)
(* of that start uses, unless starts overlapped or set-ups failed.         *)
THEOREM ProcessesShareRecords == Spec => []RecordsAreShared
  <1>1. Init => ShareInv
    BY DEF Init, ShareInv, Active, Busy, Living, Is, At
  <1>2. ShareInv => RecordsAreShared
    BY DEF ShareInv, RecordsAreShared
  <1>. QED
    BY <1>1, <1>2, TypeInit, TypeStep, ShareStep, PTL DEF Spec

=============================================================================
