-------------------------- MODULE EmrakulProcesses --------------------------
(***************************************************************************)
(* The start, the stop and the restart of Emrakul DB v2.0 (p6).  Every     *)
(* start forks workers and a collector, which open the shared memory and   *)
(* the semaphores by name; names, and what they stand for, outlive the     *)
(* processes.  A start may come while an earlier one still runs, a set-up  *)
(* may fail, and any process may be killed.                                *)
(*                                                                         *)
(* Of the table there is one lock and the set of records in it: a worker   *)
(* writes one record.  The locks of all segments are opened together and   *)
(* used alike; sockets are the subject of EmrakulServer.                   *)
(***************************************************************************)
EXTENDS Naturals, FiniteSets

CONSTANTS
    Children,  \* processes a start forks, the collector last
    MaxStarts, \* bounds of the model: starts,
    MaxFaults  \* set-ups that fail and processes killed with SIGKILL

ASSUME ProcessesAssumption ==
    Children \in Nat \ {0} /\ MaxStarts \in Nat \ {0} /\ MaxFaults \in Nat

Start   == 1 .. MaxStarts
Process == Start \X (1 .. Children)  \* <<i, n>>: the n-th child of start i
Worker  == Start \X (1 .. Children - 1)
None    == 0
Object  == 1 .. MaxStarts * Children + 1

VARIABLES
    master,  \* master[i]: "off", "forking", "up", "waiting" for its children,
             \* "leaving" the event loop, "closed" its listener, "gone"
    child,   \* child[c]: where it is, whether SIGTERM has come, the objects it uses
    memName, semName, \* the objects that the names stand for
    value,   \* value[s]: the semaphore
    store,   \* store[m]: the records in a memory
    acked,   \* records whose client was told OK,
    lasting, \* those it was told of after the start was over
    failed,  \* set-ups that have failed
    killed,  \* processes that were killed,
    broken,  \* one of them inside the lock
    overlap  \* there was a start while something of an earlier one was left

names   == <<memName, semName>>
table   == <<value, store>>
records == <<acked, lasting>>
faults  == <<failed, killed, broken, overlap>>
vars    == <<master, child, names, table, records, faults>>

At(s)    == [at |-> s, told |-> FALSE, mem |-> None, sem |-> None]
Is(c, S) == child[c].at \in S
Brood(i) == {i} \X (1 .. Children)
Living   == {c \in Process : ~Is(c, {"none", "gone"})}
Running  == {"up", "wants", "locked"}
Listens(i) == master[i] \in {"up", "waiting", "leaving"}

Init ==
    /\ master = [i \in Start |-> "off"]
    /\ child = [c \in Process |-> At("none")]
    /\ memName = None /\ semName = None
    /\ value = [s \in Object |-> 1]
    /\ store = [m \in Object |-> {}]
    /\ acked = {} /\ lasting = {}
    /\ failed = 0 /\ killed = 0 /\ broken = FALSE /\ overlap = FALSE
-----------------------------------------------------------------------------
(* Starting: main and ipc_create                                           *)

\* Somebody starts the program (external).
Begin(i) ==
    /\ master[i] = "off" /\ \A j \in 1 .. i - 1 : master[j] # "off"
    /\ master' = [master EXCEPT ![i] = "forking"]
    /\ overlap' = (overlap \/ Living # {} \/ \E j \in Start : master[j] \notin {"off", "gone"})
    /\ UNCHANGED <<child, names, table, records, failed, killed, broken>>

Fork(c) ==
    /\ master[c[1]] = "forking" /\ Is(c, {"none"})
    /\ \A n \in 1 .. c[2] - 1 : ~Is(<<c[1], n>>, {"none"})
    /\ child' = [child EXCEPT ![c] = At("forked")]
    /\ UNCHANGED <<master, names, table, records, faults>>

\* The master binds the port.  If another one has it, start returns at once
\* and main ends: the children stay.
Listen(i) ==
    /\ master[i] = "forking" /\ \A c \in Brood(i) : ~Is(c, {"none"})
    /\ master' = [master EXCEPT ![i] = IF \E j \in Start : Listens(j) THEN "gone" ELSE "up"]
    /\ UNCHANGED <<child, names, table, records, faults>>

NewMemory == CHOOSE o \in Object \ {memName} : \A c \in Process : child[c].mem # o
NewLock   == CHOOSE o \in Object \ {semName} : \A c \in Process : child[c].sem # o

(* Mutant: the memory is made anew, whether there is one or not.           *)
OpenMemoryAnew == NewMemory

\* shm_open with O_CREAT.
OpenMemory == IF memName = None THEN NewMemory ELSE memName

\* shm_open, ftruncate, mmap.
Map(c) ==
    /\ Is(c, {"forked"})
    /\ child' = [child EXCEPT ![c].at = "mapped", ![c].mem = OpenMemory]
    /\ memName' = OpenMemory
    /\ UNCHANGED <<master, semName, table, records, faults>>

Zero(c) ==
    /\ Is(c, {"mapped"})
    /\ child' = [child EXCEPT ![c].at = "zeroed"]
    /\ store' = [store EXCEPT ![child[c].mem] = {}]
    /\ UNCHANGED <<master, names, value, records, faults>>

\* sem_open with O_CREAT sets the value of a new semaphore only.  The process
\* is now ready to run.
OpenSemaphores(c) ==
    /\ Is(c, {"zeroed"})
    /\ semName' = IF semName = None THEN NewLock ELSE semName
    /\ value' = IF semName = None THEN [value EXCEPT ![NewLock] = 1] ELSE value
    /\ child' = [child EXCEPT ![c].at = "up", ![c].sem = semName']
    /\ UNCHANGED <<master, memName, store, records, faults>>

(* Mutant: the signal reaches only those that have a handler by then.      *)
TerminatedReady(D) ==
    [c \in Process |-> IF c \in D /\ Is(c, Running) THEN [child[c] EXCEPT !.told = TRUE]
                       ELSE child[c]]

\* SIGTERM for the processes D.  A worker that has no handler yet ends; the
\* collector installs its handler first.
Terminated(D) ==
    [c \in Process |->
        IF c \notin D \cap Living THEN child[c]
        ELSE IF c \in Worker /\ ~Is(c, Running) THEN At("gone")
        ELSE [child[c] EXCEPT !.told = TRUE]]

\* ipc_create throws: the child ends the siblings it knows, which are those
\* forked before it, and removes the names.
SetupFails(c) ==
    /\ Is(c, {"forked"}) /\ failed + killed < MaxFaults
    /\ child' = [Terminated({c[1]} \X (1 .. c[2] - 1)) EXCEPT ![c] = At("gone")]
    /\ memName' = None /\ semName' = None
    /\ failed' = failed + 1
    /\ UNCHANGED <<master, table, records, killed, broken, overlap>>
-----------------------------------------------------------------------------
(* Running                                                                 *)

\* A worker has a command, or the collector begins, which looks at
\* exit_trigger before.
Want(c) ==
    /\ Is(c, {"up"})
    /\ IF c \in Worker THEN c \notin acked ELSE ~child[c].told
    /\ child' = [child EXCEPT ![c].at = "wants"]
    /\ UNCHANGED <<master, names, table, records, faults>>

Lock(c) ==
    /\ Is(c, {"wants"}) /\ value[child[c].sem] = 1
    /\ child' = [child EXCEPT ![c].at = "locked"]
    /\ value' = [value EXCEPT ![child[c].sem] = 0]
    /\ UNCHANGED <<master, names, store, records, faults>>

\* The start that c is of is over: each child is ready, or has gone.
StartIsOver(c) == \A d \in Brood(c[1]) : Is(d, Running \cup {"gone"})

\* The table is used and unlocked, and the client gets its answer.
Unlock(c) ==
    /\ Is(c, {"locked"})
    /\ child' = [child EXCEPT ![c].at = "up"]
    /\ value' = [value EXCEPT ![child[c].sem] = 1]
    /\ LET set == {c} \cap Worker
       IN  /\ store' = [store EXCEPT ![child[c].mem] = @ \cup set]
           /\ acked' = acked \cup set
           /\ lasting' = IF StartIsOver(c) THEN lasting \cup set ELSE lasting
    /\ UNCHANGED <<master, names, faults>>
-----------------------------------------------------------------------------
(* Stopping                                                                *)

\* The master's signal_cb: SIGTERM to all children, then wait for them.
Signal(i) ==
    /\ master[i] = "up"
    /\ master' = [master EXCEPT ![i] = "waiting"]
    /\ child' = Terminated(Brood(i))
    /\ UNCHANGED <<names, table, records, faults>>

(* Mutant: a process ends where the signal finds it, inside the lock too.  *)
ExitAtOnce(c) ==
    /\ Is(c, Running) /\ child[c].told
    /\ child' = [child EXCEPT ![c] = At("gone")]
    /\ UNCHANGED <<master, names, table, records, faults>>

\* Signals are handled by the event loop, and between collections.
Exit(c) ==
    /\ Is(c, {"up"}) /\ child[c].told
    /\ child' = [child EXCEPT ![c] = At("gone")]
    /\ UNCHANGED <<master, names, table, records, faults>>

ChildrenGone(i) ==
    /\ master[i] = "waiting" /\ Brood(i) \cap Living = {}
    /\ master' = [master EXCEPT ![i] = "leaving"]
    /\ UNCHANGED <<child, names, table, records, faults>>

\* The rest of start: the listener is closed, then ipc_delete.
CloseListener(i) ==
    /\ master[i] = "leaving"
    /\ master' = [master EXCEPT ![i] = "closed"]
    /\ UNCHANGED <<child, names, table, records, faults>>

(* Mutant: the semaphores keep their names.                                *)
DeleteMemory(i) ==
    /\ master[i] = "closed"
    /\ master' = [master EXCEPT ![i] = "gone"]
    /\ memName' = None
    /\ UNCHANGED <<child, semName, table, records, faults>>

Delete(i) ==
    /\ master[i] = "closed"
    /\ master' = [master EXCEPT ![i] = "gone"]
    /\ memName' = None /\ semName' = None
    /\ UNCHANGED <<child, table, records, faults>>

\* SIGKILL (external).
KillChild(c) ==
    /\ failed + killed < MaxFaults /\ c \in Living
    /\ child' = [child EXCEPT ![c] = At("gone")]
    /\ killed' = killed + 1
    /\ broken' = (broken \/ Is(c, {"locked"}))
    /\ UNCHANGED <<master, names, table, records, failed, overlap>>

KillMaster(i) ==
    /\ failed + killed < MaxFaults /\ master[i] \notin {"off", "gone"}
    /\ master' = [master EXCEPT ![i] = "gone"]
    /\ killed' = killed + 1
    /\ UNCHANGED <<child, names, table, records, failed, broken, overlap>>
-----------------------------------------------------------------------------
ChildStep(c) ==
    Fork(c) \/ Map(c) \/ Zero(c) \/ OpenSemaphores(c) \/ Lock(c) \/ Unlock(c) \/ Exit(c)

MasterStep(i) == Listen(i) \/ ChildrenGone(i) \/ CloseListener(i) \/ Delete(i)

Next ==
    \/ \E c \in Process : ChildStep(c) \/ SetupFails(c) \/ Want(c) \/ KillChild(c)
    \/ \E i \in Start : MasterStep(i) \/ Begin(i) \/ Signal(i) \/ KillMaster(i)

\* Processes are scheduled.  Strong, because a lock that is free again and
\* again is granted in the end: the collectors, which never stop asking, sleep
\* in between.
Spec ==
    /\ Init /\ [][Next]_vars
    /\ \A c \in Process : SF_vars(ChildStep(c))
    /\ WF_vars(\E i \in Start : MasterStep(i))
-----------------------------------------------------------------------------
(* Properties                                                              *)

\* A lock that is taken has a living owner, one only: SIGTERM never ends a
\* process inside the lock, and semaphores that survive a start, which
\* sem_open does not set again (SynchronizedProcess.cpp:48), are free.
\* SIGKILL inside the lock breaks this for good.
LocksSurvive ==
    ~broken => \A s \in Object :
        value[s] + Cardinality({c \in Process : child[c].sem = s /\ Is(c, {"locked"})}) = 1

\* What a client was told after the start was over is in the table of every
\* process of that start: they share one memory, and nobody zeroes it any more
\* (SynchronizedProcess.cpp:43).  It takes starts that do not overlap and
\* set-ups that do not fail.
RecordsAreShared ==
    ~overlap /\ failed = 0 => \A r \in lasting : \A c \in Brood(r[1]) :
        Is(c, Running) => r \in store[child[c].mem]

\* After stops that are let finish nothing is left for the next start to find,
\* also when starts have overlapped or a child's set-up has failed (p6.cpp:64).
NothingRemains ==
    killed = 0 /\ Living = {} /\ (\A i \in Start : master[i] \in {"off", "gone"})
        => memName = None /\ semName = None

\* No master waits for its children for ever (ServerProcess.cpp:86), unless
\* somebody was killed inside the lock.
StopEnds == []<>(broken \/ \A i \in Start : master[i] # "waiting")
=============================================================================
