# Verification of the technosphere C++ homework programs

The repository holds six programs. The largest are two key-value servers,
Emrakul DB v1.0 (`p5`) and v2.0 (`p6`); the others are a TCP proxy (`p3`), a
shell (`p4`), a parallel quicksort (`p9`) and an MPI summation (`p10`). This
directory models them in TLA+, checks the models with TLC and proves what
matters most with TLAPS. The core is the hash table in shared memory that the
processes of Emrakul DB v2.0 use concurrently.

## Inventory

| part | state | operations | what is hard | what makes it correct |
|---|---|---|---|---|
| **p6 hash table** `PosixHashTable` | 8 segments of 128 cells in shared memory: key, value, state byte, time of death; one named semaphore per segment | `get`, `set`, `del`, `find_filled`, `find_free`, `collect_garbage` | five processes at once; one lock at a time; searches cross and wrap around segments; find and access are separate critical sections | mutual exclusion, no deadlock, one copy of every key, honest answers, a record lives as long as promised |
| **p6 collector** `CleaningCompany` | the time of the next collection, an exit flag | timed wait, collection, exit on SIGINT/SIGTERM | a collection meets a set that renews the record | only dead records are buried; it exits when told to |
| **p6 worker** `WorkerProcess`, `ClientConnection` | the connections it owns, their input and output buffers | take a descriptor from the master, read and execute a command, answer, close; close all on a signal | callbacks of one event loop in any order; partial and pipelined lines; the list is changed while iterated | every command is answered once, in order, to the connection it came from |
| **p6 master** `p6.cpp`, `ServerProcess`, `SynchronizedProcess` | children, channels to the workers, names of the shared objects | fork, accept and pass on a connection, on a signal stop the children and remove the names | start-up order, death of a worker, restart over shared objects that survived | data survives the start of a process; a stop ends everything; a restart finds clean objects |
| **p6 command parser** `UserCommand` | one line | tokenize, truncate, bound the lifetime | quotes, sizes | — |
| **p5 master** `MasterProcess` | connections, a SysV message queue | accept, relay a command to a worker, wait for the answer, pass it on; shut the workers down | message types, answers left over by a crash, waiting inside the event loop | an answer belongs to the command the master waits for |
| **p5 worker** `WorkerProcess` | — | take a message, call the table, answer | — | every message is answered |
| **p5 table** `HashTableBase`, `SysVHashTable` | the cells; a counting semaphore per segment | `get`, `set`, `del` with shared and exclusive locks | as in p6 | as in p6 |
| **p3 proxy** `Connection`, `ProxyListener`, `Server`, `Selector` | pairs of sockets with buffers | accept, connect, copy, close, stop on SIGINT | half-closed connections, errors, several ports | bytes arrive in order, everything is delivered before a close |
| **p4 shell** `LisonShell`, `CommandItem`, `CmdInterperter` | child processes, the command sequence | split a line, run commands with pipes, redirections, `&&`, `\|\|`, `&`; reap children | the SIGCHLD handler races with `wait`; pipelines | a command runs iff the exit code before it says so |
| **p9 quicksort** `qsort.c` | the array | partition, two tasks, `taskwait` | tasks share the array | the result is sorted and a permutation |
| **p10 series** `p10.cpp` | — | partition of the terms over ranks, reduction | the remainder | every term is summed once |

Components interact as follows. In p6 `main` forks four workers and the
collector and then becomes the master; the master passes accepted sockets to a
worker over a socket pair; workers and collector share the table, and find it
and its locks by name. In p5 the master owns the clients and talks to its workers
through a message queue only; the workers share the table. In p4 the shell, the
programs it runs and the copies it makes of itself interact through pipes, exit
codes and signals. The other programs stand alone.

## Modules

| module | models |
|---|---|
| `PosixHashTable` | `p6/src/PosixHashTable.cpp`, the loop of `CleaningCompany::start`, the calls of `WorkerProcess::execute_query` |
| `PosixHashTableHistory` | what clients may conclude from answers: history variables over the same steps |
| `PosixHashTableRivals` | how far a race between `set`s reaches: history variables that record which of them ran at the same time |
| `ExpiringMap` | the abstract map of keys to values with lifetimes that the database promises |
| `PosixHashTableRefinement` | the mapping from the table to the map |
| `EmrakulServer` | `p6`'s master and workers with their clients: `ServerProcess`, the event loop of `WorkerProcess`, `ClientConnection`, `SocketTricks`; the table is only called |
| `EmrakulProcesses` | start-up, stop and restart of p6 over named objects that outlive processes: `p6.cpp`, `SynchronizedProcess`, `CleaningCompany`, the signal handling of `ServerProcess` |
| `MessageRelay` | `p5`'s master, message queue and workers; the table is only called |
| `SysVHashTable` | `p5`'s table with its shared and exclusive locks: `HashTableBase`, `SysVHashTable`, `init_ipc` |
| `Proxy` | `p3`: listeners, connections, routing |
| `LisonShell` | `p4`: command sequences, pipes, background lines, processes and signal handlers |
| `BlockPartition` | `p10`: who sums which terms |
| `QuickSort` | `p9/src/qsort.c`, with and without OpenMP tasks |
| `PosixHashTableProofs` | for any number of writers: types, locking, "table degraded", cells never freed, honest misses, which races store a key twice or rewrite a cell; for one: refinement of the map, honest answers, lifetimes |
| `EmrakulServerProofs` | for any number of clients, workers and lines: where connections are, which answers clients get |
| `EmrakulProcessesProofs` | for any number of starts, children and faults: locks survive, records are shared, nothing remains |
| `MessageRelayProofs` | for any number of clients, workers, commands and masters: one question at a time, answers reach the asker, no command is carried out or answered twice |
| `SysVHashTableProofs` | for any number of workers, blocks, keys and crashes: writers are alone; for commands one at a time: the table is a map |
| `ProxyProofs` | for any number of clients, targets, ports and pieces: no connection is closed early |
| `LisonShellProofs` | for any scripts, programs and number of processes: commands run in turn, failures are real, zombies are awaited |
| `ParallelProofs` | `QuickSort`: disjoint tasks, the result sorted and complete, for any size, content and interleaving; `BlockPartition`: every term is summed once |
| `MC...` | instances for TLC |

### PosixHashTable

State. `flag`, `key`, `value` and `death` are the fields of a cell; `sem` the
semaphores; `now` is `time(NULL)`; `wake` is `delay` of the collector. `pc[p]`
says where process `p` is: `idle`, waiting for the semaphore of segment `blk[p]`
(`filled_wait`, `free_wait`, `access_wait`, `gc_wait`) or inside it (`filled`,
`free`, `access`, `gc`). `off[p]` counts the cells its search has left behind;
`idx` is the `cell_idx` a search returned. The locals of a command are reset
when it returns.

Steps. One step is one `sem_wait` that succeeds, or one visit to one cell under
its lock together with the `sem_post` after it. This is as fine as the code's
interleaving gets: memory of a segment is only touched under its semaphore
(which `LockDiscipline` verifies rather than assumes), so that steps inside a
segment commute with those of other processes. The two loops of a search, from
the home cell to the end and from 0 to the home cell, are one walk of
`TableSize` visits (`Probe`, `LastCell`).

`hash` is an arbitrary function to cells. Lengths of keys and values, and what
is printed, are left out. `get_ttl` is never called. `int` overflow of a time of
death wraps, as it does on the machines the code is built for (`ToInt`).

`Writer` is the set of workers whose clients send `set` and `del`. In p6 that is
every worker; with one element it marks the line between what the code
guarantees and what it does not. The bounds are `MaxTime` on the clock and the
sets of keys, values, lifetimes and cells.

`PosixHashTableRivals` is about every worker writing. `met` are the keys of which
two `set`s have run at the same time since the key was last absent, `rivals[c]`
the workers that were setting another key when the key of cell `c` was written,
and still are. `OneCopyUnlessMet` and `KeysSettle` say that these `set`s are the
only ones that can do harm: other `set`s, `del`, searches and the collector never
make a second copy, and a cell whose rivals have returned keeps its key.

### EmrakulServer

State. `master` and `state[p]` say how far the master and each child are:
`up`; `waiting` (the master inside `signal_cb`, waiting for its children);
`leaving` (the two seconds `event_base_loopexit` grants); and how they ended:
`done` or `gone` as intended, `crashed` by a bad pointer, `broken` by SIGPIPE.
A connection is in the `backlog` of the listening socket, in a worker's
`channel` (the socket pair) or in its `conns` (`conn_list`), there under the
number that `id_base` (`nextId`) gave it. `kept` are the descriptors the master
holds. A client's lines are counted in halves, the second with the line feed:
`sent` halves, `got` of them read into the input buffer, `taken` lines out of
it; `out` is the output buffer and `inbox` what the client has read. The answer
to line `n` of client `c` is `<<c, n>>`.

Steps. One step is one callback of an event loop, since a process is a single
thread and does nothing else; only the write from the output buffer to the
socket, which libevent does, is a step of its own.

| action | code |
|---|---|
| `Accept`, `Pass`, `PassToNobody` | `listener_cb`, `sock_fd_write` |
| `StopMaster`, `ChildrenGone`, `MasterExit` | the master's `signal_cb` up to and after its `wait`, the end of `start` |
| `Take`, `Establish` | `fd_channel_callback`, `sock_fd_read`, `establish_connection` |
| `Read`, `ReadLine`, `SendResponse` | `conn_readcb`, `read_from_buffer`, `send_response_to_client` |
| `Write` | the bufferevent's own write |
| `Event`, `Close`, `RemoveConnection` | `conn_eventcb`, `close`, `remove_connection` |
| `Stop`, `Exit`, `CleanerExit` | a worker's `signal_cb`, the end of its loop, the collector's signal handler |
| `Connect`, `Send`, `HangUp` | clients (external) |

One line is taken per read callback, and when the line in the buffer is not
complete the worker gives up and answers "303"; so a client that sends several
lines at once, or a line in pieces, gets fewer or more answers than lines. Which
answers it gets, and in which order, is what `AnswersInOrder` says. Clients in
`Polite` send a line at a time and wait, as a person at a terminal does;
`OneAnswerPerLine` and `LinesAreAnswered` are about them.

Left out: what a client does after its connection is lost or closed; the end of
file on a channel, which no worker sees, since the collector inherits the
master's end of every channel and outlives the workers' loops; the limit on
descriptors in the master. Errors of set-up and `bind` are the subject of
`EmrakulProcesses`. A client that has gone reads nothing, so its `inbox` is
emptied.

### EmrakulProcesses

State. Starts of the program are numbered; `master[i]` says how far start `i` is,
and `child[<<i, n>>]` where its `n`-th child is (the collector is the last), the
objects it has opened and whether SIGTERM has come. `memName` and `semName` are
the objects the names stand for: a name can be removed, and made anew, while
processes use the old object. `store` and `value` are the contents of memories
and semaphores. One lock stands for the locks of all segments and one record per
worker for the table.

| action | code |
|---|---|
| `Fork`, `Listen` | `main`, `ServerProcess::start` up to the event loop |
| `Map`, `Zero`, `OpenSemaphores`, `SetupFails` | `ipc_create` and the `catch` of `main` |
| `Want`, `Lock`, `Unlock` | a command of a worker, a collection |
| `Signal`, `ChildrenGone`, `CloseListener`, `Delete` | the master's `signal_cb`, the end of `start`, `ipc_delete` |
| `Exit` | the handlers of worker and collector, their `ipc_close` |
| `KillChild`, `KillMaster`, `Begin` | SIGKILL, the user (external) |

A worker that gets SIGTERM before its event loop handles signals ends at once
(`Terminated`); the collector has its handler before it sets up anything. A
child whose set-up throws kills the siblings it knows, which are those forked
before it, not the master.

### MessageRelay

State. `master` is `up`, `reaping` its workers in `shutdown_workers`, `off` or
`crashed`; `number` counts the masters started and `clean` says that none has
crashed. `waiting` is true inside `msgrcv` of `execute_query`: the event loop
stands still then. `queue` holds messages with the fields of `CommandMessage`
that matter; `workers` are processes with the message in hand, those of crashed
masters included. A command is `<<c, n>>`, the `n`-th of client `c`; `done` has
those a worker has carried out.

| action | code |
|---|---|
| `StartMaster`, `Spawn` | `init_ipc`, the beginning of `start` |
| `Connect`, `Event`, `Drop` | `listener_cb`, `conn_eventcb`, `close` |
| `Query`, `Relay` | `conn_readcb`, `execute_query` up to `msgrcv` |
| `Receive`, `ProcessResponse`, `Respond` | the rest of `execute_query` |
| `HandleSignal`, `Shutdown`, `Release` | `signal_cb`, the end of `start`, `shutdown_workers`, `release_ipc` |
| `Take`, `Reply` | the worker's `start` and `dispatch_message` |
| `Send`, `HangUp`, `Signal`, `Flush` | clients, the user, libevent (external) |

`Signal` is SIGTERM to the master, or SIGINT from a terminal, which also ends
the workers, who have no handler. It makes `msgrcv` fail with EINTR whatever the
flags of the handler. `status` of a message is uninitialized until a worker sets
it, so that `Relay` picks any value; with `Status = {0}` outcomes are not told
apart. A clean master is one before which none has crashed: a crashed master
leaves its queue and its workers to the next, whose connections are numbered
from 0 again: answers may then go to another client, and only `EachCommandOnce`
still holds. Clients in `Returning` connect anew when a master has closed their
connection or died (`Lost`), which is how one gets the answer to a command of
another. `msgsnd` is called with the
size of the whole structure, 8 bytes more than it should copy; the effect on the
stack behind it is not modelled, nor a full queue, which one message at a time
cannot cause.

### SysVHashTable

`cell` and `sem` are the shared memory and the semaphore set; `job[w]` is the
command of worker `w` and how far it is: in `find_filled`, in `find_free` or in
the access, with or without the lock of its block. A step is one `semop`, or the
visit to one cell with the `unlock` after it. `Search` is the pair of loops of
both searches, `hash` any function to cells.

The master has one command in flight, so `most`, the number of commands at once,
is 1. `Restart` is the crash of a master followed by `init_ipc` of the next,
which clears the cells and sets all semaphores while the workers of the old one
go on; what they were doing overlaps with the commands of the new master from
then on. `cut` records that one of them was inside a block.

### Proxy

`port` is the position in the loop of `Server::start`; a port is listened to only
while its listener runs. `conn[c]` follows the connection of client `c`: `queued`
in the kernel, `open`, `stuck` (there was no socket for the target), `freed`, or
`refused`. `peer[c][e]` is what the process at end `e` has done: it may send its
end (`shut`) or be `reset`. For each end `sent`, `moved` and `given` count the
pieces it has sent, those moved by `conn_readcb` and those written to the other
side. A target that refuses is `reset` from the beginning, since the result of
`connect` is lost (`Connection.cpp:60`).

| action | code |
|---|---|
| `Accept`, `AcceptFails` | `listener_cb`, `establish`, `select` |
| `Read`, `Eof`, `Error` | `conn_readcb`, `conn_eventcb`, `close_connection`, `remove_connection` |
| `Interrupt`, `Stop` | `signal_cb`, the end of `start` and the next turn of `Server::start` |
| `Connect`, `Send`, `HangUp`, `Write` | peers, libevent (external) |

### LisonShell

Every process is a record of `proc`: the shell, the programs it runs, a
background copy of it, and a child whose `exec` failed and which therefore
returns from `run` as a second shell. `items` is the command sequence that
`build_command_sequence` makes of a line of tokens, with the pipe each command
reads and writes; `holds` are open pipe ends, of which the shell keeps those it
never closes. `chld` and `int` are pending signals: a handler may run between
any two steps.

| action | code |
|---|---|
| `ReadLine`, `Quit`, `Decide`, `SequenceOver` | `main`, `execute_line`, `run_sequence`, `run_sequence_in_background` |
| `Run`, `Register`, `Wait`, `Exec` | `CommandItem::run` before and after `fork`, its `wait`, the child |
| `ChildEndHandler`, `InterruptHandler` | the handlers of SIGCHLD and SIGINT |
| `Write`, `Read`, `Finish`, `Interrupt` | programs, the user (external) |

The shell and its copies share the buffer of `std::cin` at the moment of the
fork, so that a copy reads the lines its parent will read again. Left out: the
characters of a line (`tokenize_line`), redirection to files, a `fork` that
fails.

### QuickSort

`calls` holds one record for each call of `omp_qsort_inner` and
`std_qsort_inner` that has begun and not returned, with its parameters and
locals and, in `at`, what it does next; `omp` tells the two functions apart,
whose text is otherwise the same. A step is one round of the partition loop
(`Visit`), the reading of the pivot (`Start`), the recursion (`Split` into two
tasks, or `GoLeft` and `GoRight`) or the return (`Return`, which for tasks is
`taskwait`). Any task may run at any time, so that the model covers every number
of threads. That a round is one step is sound because no two calls that work on
the array share a cell, which `NoSharedCells` checks. `Init` begins with either
sort of any array; `TaskSize` stands for the 1000 of the code.

### BlockPartition

`Terms(N, P, rank)` are the terms that a rank of `P` sums, as in
`p10.cpp:34-45`. There is no state; the theorem `EveryTermOnce` stands for a run.

## Runs

| run | instance | shows |
|---|---|---|
| `table_shared` | 2 writing workers and the collector, 1 key, 2 segments of 2 cells, home cell 1, clock to 2, times of death that overflow above 2 | locking, types, no deadlock or starvation by the code's own doing, degradation, a key stored twice only if two `set`s of it met. Searches step within a segment, cross a border and wrap; a record set at time 2 gets a time of death in the past, so that the collector buries it while workers use the table, which fills with buried cells |
| `table_writer` | 1 writing and 1 reading worker, collector, 2 keys, 2 values, 2 segments of 1 cell, clock to 3, period 2 | with one writer the table implements `ExpiringMap`, answers are those of some instant of the call, lifetimes are kept, and the key of a cell that a search found does not change (for several writers this is a theorem only) |
| `table_race` | 2 writing workers, 2 keys, 1 segment of 2 cells | `MinimumTTL` fails: a finding |
| `server` | 2 workers, a channel of 1 descriptor, a waiting client with 1 line and another with 2 lines | each connection is in one place, answers are right and in order, waiting clients are answered, a signal ends every process, and the master ends properly even when it crashes workers, unless a client it could not serve breaks it |
| `relay` | 2 workers (types 2 and 3), a client with 2 commands and one with 1, which comes back when its connection is lost; two masters one after the other, the first of which may crash | one message is in flight at a time, every client gets its own answers, commands are answered, a stop ends; no command is carried out or answered twice, after a crash either |
| `relay_ack` | the same without clients that come back, with two values of `status` | `AcknowledgedIsDone` fails: a finding |
| `sort` | all arrays of 6 elements out of 3 values, tasks for ranges of 3 and more | tasks are apart, nothing is lost at any moment, pivots stay, the result is sorted, the recursion ends |
| `processes` | 2 starts of a worker and a collector, one fault | locks are never left taken, what clients were told is in everybody's table, stops leave nothing behind, no master waits for ever |
| `sysv` | 2 workers, 2 keys that collide, 2 values, 2 blocks of 2 cells; 8 commands of a master, 2 of the next | one command at a time the table is a map; writers are alone in their block and commands end also when a crash makes commands overlap |
| `proxy` | 2 clients, one of which sends 2 pieces and gets 1; 2 targets, one down; 2 ports, 1 failed accept | no connection is closed after one end only, all are after both, what is sent arrives |
| `shell` | 10 inputs with lists, pipelines, background lines and missing programs; pipes of 2 units | commands run one at a time, failures are real, no zombie is forgotten, the shell gets through its input |
| `shell_codes` | the same | `CodesAreTheirs` fails: a finding |

Six cells are enough for two tasks to work at once while one of them has been
split again, three values for equal elements on both sides. Only the runs of the p6
table check deadlock: the other systems stop.

Two starts of p6 are enough for one to overlap with the other, to follow it, or
to find the port in use; one fault is enough to break any step of either. Eight
commands are as many as it takes to use up the four cells of `sysv` and to fail,
two after a crash let a writer meet the command left over. The inputs of `shell`
have each way of composing commands, and each in which the handler can take a
status from `wait`.

Two clients and two workers are enough for both to be served by one worker or
by different ones, and for a full channel; two lines for a line to arrive with
the next, in pieces, or after the client has closed.

Two cells and two segments are enough for a search to cross a border both ways;
two workers and the collector for every pair of operations to overlap; clock and
lifetimes let a record be set, die, be collected and be set anew, and be renewed
while the collector is under way.

Fairness. `FairSpec` assumes weak fairness of every worker's own steps and of
the collector's: processes are scheduled. It does not assume that clients send
anything, that the clock advances, or that a semaphore is granted in order. With
a bounded clock there are finitely many collections, and `CommandsEnd` asks that
commands end once clients stop sending them; a stream of other processes could
otherwise overtake one waiter for ever, which POSIX semaphores do not exclude.

`EmrakulServer` assumes that every pass of an event loop runs the callbacks that
are pending: weak fairness of passing on connections, of taking them from a
channel, of the reads and writes of each client's connection, of the handling of
signals and the end of loops. libevent's loop is level-triggered and serves all
ready descriptors in turn, which justifies it. Clients need not do anything.
Nor is any particular worker drawn: `rand` picks any. The table call inside a
callback is assumed to return (`CommandsEnd` of the table).

`MessageRelay` assumes weak fairness of the callbacks of the master, of its wait
for a message, and of every worker; of no client and no signal. One signal is
sent to each master.

`QuickSort` assumes that some thread that has work goes on with it.

`EmrakulProcesses` assumes strong fairness of each child's own steps, since a
semaphore that is free again and again is granted in the end: collectors sleep
between collections. Nobody need send a command, a signal or a fault. With
`SysVHashTable` it is the same: the kernel gives permits to those who wait when
they are put back, and at most two commands overlap. `Proxy` assumes that the
event loop runs whatever callback is pending, `LisonShell` that some process goes
on as long as one can; inputs are finite and no step repeats for ever. No script
of `shell` contains an empty command, of which `execvp` would fault.

## What the checks found

* **A lost acknowledged record** (`table_race`). `set` finds a free cell under a
  lock, gives the lock up, and writes the cell under a new lock without looking
  again (`PosixHashTable.cpp:188-200`). Two workers can write one cell; both
  clients read `200 SET OK`.
* **Commands the master answers itself** (`relay_ack`). Requests go to types 1
  to 4, workers listen to 2 to 5, and type 1 is the master's own
  (`p5/master/src/MasterProcess.cpp:128`, `135`, `167`).
* **A failure that counts as success** (`shell_codes`). The SIGCHLD handler may
  reap the command that `run` is about to wait for (`CommandItem.cpp:79`,
  `LisonShell.cpp:44`); the status is lost, `get_exit_code` returns 0, and
  `false || echo` prints nothing.

The following are not runs; for each, the property named is in the module, and
TLC refutes it when it is put into the configuration of the module's run.

* **A worker with two connections does not stop cleanly** (`StoppedWorkersExit`
  of `EmrakulServer`). `signal_cb` iterates over `conn_list` while every `close`
  erases an element of it (`WorkerProcess.cpp:88-91`, `168`); the loop skips
  connections and then reads the emptied elements behind the new end.
* **A client can end a stopping master** (`StopIsClean`). The listener is active
  for two seconds after the last worker has ended; passing a connection to it
  raises SIGPIPE, and `ipc_delete` is never reached (`ServerProcess.cpp:62`,
  `91`).
* **Closed connections stay open** (`ClosedMeansClosed`). The master keeps the
  descriptor it has passed on (`ServerProcess.cpp:74`), so that a client does
  not see the worker close its connection.
* **A stop that never ends** (`SignalEndsMaster` of `MessageRelay`). After SIGINT
  has ended the workers, a command read in the last two seconds makes the master
  wait for ever (`MasterProcess.cpp:132`).
* **Overflow of the time of death** (`MinimumTTL` of `PosixHashTableHistory`,
  with `TTL` up to `IntMax`). `int death_time = ttl + time(NULL)`
  (`PosixHashTable.cpp:197`) is negative for a large `ttl`, and the next
  collection buries the record. `UserCommand.cpp` bounds the lifetime from below
  only.

Conditions that properties have to make say something about the code, too:

* `OneCopyUnlessMet` excludes two `set`s of one key at the same time: neither
  finds the key, each may take a free cell of its own, and the table then holds
  the key twice.
  A `get` finds the nearer copy, and `del` removes only that one, which brings
  the other to light.
* `SignalEndsAll` lets a master be `broken` by SIGPIPE, as described above, but
  only on account of a client that was accepted and not passed on. That workers
  with two connections crash is in the model, too; the master removes the names
  all the same.
* `EachCommandOnce` does not say that the answer goes to the client that asked:
  after a crash a worker of the old master answers under a number that the new
  master has given to somebody else.
* `RecordsAreShared` excludes starts that overlap. The children of a second start
  zero the table of the first before the master finds the port in use, and stay
  (`ServerProcess.cpp:36`); and a start in the two seconds of a stop finds names
  that are about to be removed. It excludes set-ups that fail, after which names
  are gone that others go by (`p6.cpp:64-69`).
* `LocksSurvive` excludes a process killed inside a lock: no semaphore is
  recovered, and `sem_open` does not set one that exists.
* `WritersAreAlone` excludes a crash of the p5 master while a worker is inside a
  block: `init_ipc` sets all permits anew, the worker then adds its own, and a
  writer no longer takes all there are. `ServesAsMap` is about one command at a
  time; search and access are separate critical sections. A master interrupted in
  `msgrcv` can send a second command while a worker still has the first, which
  `MessageRelay` has and `SysVHashTable`, with one command at a time up to a
  crash, leaves out: the condition of `ServesAsMap` excludes it anyway.
* `ClosedAfterBothEnds` does not say that output has been written: what waits in
  an output buffer when the second end closes is dropped (`Connection.cpp:112`).
  The end of one side is not passed on to the other (`Connection.cpp:98`), so a
  connection is served until the other side closes on its own account.
  Connections of a listener that has stopped stay open, unserved, until the last
  listener stops (`ProxyListener.cpp:63`).
* `SessionEnds` excludes pipelines whose output does not fit a pipe (the commands
  run one after the other), background lines with a pipe (the shell never closes
  its copy of the writing end) and missing programs in a pipeline (they become a
  shell that holds it). A command ended by a signal counts as a success
  (`CommandItem.cpp:104`).

`MessageRelay` also has the first of these crashes: p5's `signal_cb` iterates
over the list that `close` erases from (`MasterProcess.cpp:106`).

## Proofs

The theorems about the table of p6 hold for every number of workers, keys and cells,
every geometry of segments and every hash function, under the named assumptions
of `PosixHashTable` (`SizeAssumption`, `ProcessAssumption`, `TimeAssumption`,
`NilAssumption`).

* `TypeCorrect`: `TypeOK` is not inductive, since the command of a running
  worker must have a key in `Key` for its home cell to exist. `TypeInv` adds
  that. The lemma `ProbeInTable` shows that a search stays in the table.
* `LockingCorrect`: `LockInv` adds to `TypeInv` that a semaphore counts its
  owners; `OnlyMovers` reduces every step to the one process that moves.
* `UsedCellsStayUsed`, `DegradedForGood`: the second rests on `NoneLeftBehind`,
  that no cell behind a search of `find_free` is free. It holds while other
  processes run only because no step frees a cell.
* `OneCopyUnlessSetsMeet` (any number of writers): `SingleInv` says of a key whose
  `set`s have not met that one cell holds it at most, that at most one `set` of it
  runs, and that no cell behind the search of that one, and after the search no
  other cell, holds it (`Alone`). No process but a `set` of the key can put it
  into a cell, and one that meets no other looks at every cell before it does.
* `OnlyRivalsRewriteKeys` (any number of writers), an action property: a used cell
  that a `set` is about to write although it holds another key was free when that
  `set` found it, so the key there is younger than the `set` (`RivalInv`).
* `TableImplementsMap` (one writer):
  `WriterInv` says what a writer has learnt and may rely on: what was true of
  the cell its search found (`Aim`), that no cell behind its search, and after
  the search no other cell, holds its key (`Alone`), and that fresh cells have no
  time of death, so the collector leaves them alone (`FreshInv`). The refinement
  shows that every step is a put, a removal, an expiry, a tick or a stutter;
  `LifetimesFit` excludes the overflow.
* `MissesAreHonest` (any number of writers): a cell that has held the key all
  along is not behind the search (`MissInv`); after the last cell
  (`AllVisited`) there is no such cell.
* `AnswersAreTrueOnce` (one writer): the window of a running command, which
  holds what a `get` could have answered at every instant so far, has "not
  found" when no cell held the key all along, and the value of the cell a `get`
  has found, also when that cell was buried or rewritten since (`AnswerInv`).
  It needs `WriterInv`: a key that is in the table stays in its cell.
* `RecordsLiveAsPromised` (one writer, `LifetimesFit`): a promised record is in
  a cell that dies when the promise ends (`PromiseInv`), and collections only
  bury what is dead.

`EmrakulServer` (under `ServerAssumption`: no text that is not an answer is an
answer to a line).

* `EveryConnectionHasOnePlace`: `PlaceInv` adds that numbers of connections are
  used once, a descriptor is in a channel once, and a client that has been
  accepted does not connect again.

* `AnswersKeepOrder`: `OrderInv` says what the buffers of a connection hold when
  it waits, is served or is closed. Nine kinds of steps (`ClientStep`) are all
  that can happen to one client, so that its buffers are looked at kind by kind.
* `WaitingClientsGetOneAnswer`: `PoliteInv` adds that a waiting client has one
  line under way at most, and a whole one.

`MessageRelay` (under `RelayAssumption`: the order to end is no command).


* `OneQuestionAtATime`: `OneInv` places the one message under way, in the queue
  or with one worker, and the orders to end behind it. The lemmas about taking
  an element out of a sequence (`msgrcv` by type) carry it. `StopInv` says where
  workers and messages are left as a master goes down.
* `AnswersReachTheAsker`: numbers of connections are given once (`ConnInv`), no
  command is under way twice, and what is under way for a client is its last
  command, to whose predecessors it has the answers (`AskInv`).
* `NoCommandTwice`, crashes of masters included: whatever is or was under way has
  been read from a client (`Known`), so that a command a master reads is new; it
  is in one place, the queue, one worker's hand or one client's input, and is
  carried out on the way out of the hand only (`Once`, `QueueInv`, `GivenInv`).

`EmrakulProcesses` (under `ProcessesAssumption`; faults and overlapping starts included).

* `LocksSurviveRestarts`: a semaphore object counts the process that is inside
  (`LockInv`); objects are more than processes, so that a new one is nobody's
  (`FreeObject`).
* `StopsLeaveNoNames`: whoever may still set a name has a master that will remove
  it, or ends (`RemainInv`).
* `ProcessesShareRecords`: without overlaps one start is active, its processes
  use the memory that has the name, and none zeroes it once the start is over
  (`ShareInv`).

`SysVHashTable` (under `TableAssumption`).

* `BlocksAreLocked`: the permits of a block and the readers inside add up to
  `WORKER_PROCESSES_COUNT`, or there are no permits and one writer is inside
  (`PermitsOf`). Finiteness of the set of workers is not assumed: commands come
  one by one (`TypeInv`).
* `TableServesAsMap`, an action property: while commands run one at a time,
  nobody disturbs what a search has established (`Knows`), and no key has two
  cells. `SearchReachesAll` shows that a search of `TableSize` steps has seen
  every cell, so that a miss is a miss.

`Proxy` (no assumption is used).

* `NoneIsClosedEarly`: the counter of an open connection is the number of its
  ends whose EOF has not come, and these are the ones that are read (`Counted`).

`LisonShell` (under `ShellAssumption`: lines are sequences of tokens; what a line
is split into does not matter, only whether the shell runs it in the background).

* `ZombiesAreAwaited`: `TreeInv` says that process numbers are given in order,
  that parents come before their children and are alive, and that the parent of a
  zombie has a SIGCHLD to handle (`Awaited`). Reaping, by `wait` or the handler,
  forking, ending and signalling are looked at once each (`ReapKeeps`,
  `ForkKeeps`, `EndKeeps`, `SignalKeeps`), the actions then only say which it is.
* `CommandsRunInTurn`: when no line runs in the background a shell has no child
  but, between `fork` and the return of `wait`, the one it forked last
  (`AloneInv`). `OneAtATime` alone is not inductive: it says nothing of a shell
  in `wait`.
* `NoFailureIsMadeUp`: what `wait` takes is therefore the last child; it is gone
  with the code that the shell has noted (`RealInv`), and stays so.

The two parallel programs.

* `QuickSort` (`SortAssumption` only): the region of a call is the range it
  still has to sort, or for `left` the half it has not begun. `IInv` says that
  regions are disjoint, that placed pivots are in none, what a partition loop
  has done so far, and `Ordered`: any two cells that are not in one region are
  in order. When no call is left there is no region, and `Ordered` says that the
  array is sorted. `Handover` covers the steps that only divide a region,
  `VisitInv` the one that moves elements. `NothingIsLost` counts elements with a
  bijection (`SwapKeepsCounts`).
* `EveryTermOnce` (no assumption but that there is a rank): ranks but the last
  have portions of one size, so their ranges follow one another (`TermsAre`), and
  products are monotone (`Monotone`); a term below the last rank's range belongs
  to the rank it divides to (`Division`).

Model-checked only: liveness (`CommandsEnd` of both tables, `LinesAreAnswered`,
`SignalEndsAll`, `StopEnds`, `Settles`, `SessionEnds`, `Terminates` and those of
`MessageRelay`), which the prover does not do under fairness. Which commands and
pipes `Items` makes of a line is a fold over the line: no theorem depends on it.
Each inductive invariant of the proofs was checked with TLC on the instance of
the module's run before it was proved.

## Plan

In this order; each module with its runs, then its proofs.

1. `PosixHashTable` and its refinement, as above, with their proofs.
2. `EmrakulServer`, as above, with its proofs.
3. `EmrakulProcesses`, as above, with its proofs.
4. `MessageRelay` and `SysVHashTable`, as above, with their proofs.
5. `Proxy` and `LisonShell`, as above, with their proofs. Left: the redirections of
   p4, whose files are opened, and emptied, by the building of a sequence also for
   commands that are then skipped (`CommandItem.cpp:22-36`).
6. `QuickSort` and `BlockPartition`, as above, with their proofs.

## Not modelled

The arithmetic of the hash; the characters of lines (the tokenizers of p4, p5 and
p6, the routing table of p3), which are sequential and easily tested; failures of
allocation in libevent; floating point and MPI in p10; the copy of
`HashTableBase` in p5's master, which it never calls; generated makefiles and IDE
settings; the external test server `p3/NiServer.py`.
