---------------------------- MODULE MessageRelay ----------------------------
(***************************************************************************)
(* Emrakul DB v1.0 (p5): the master owns the connections and relays every  *)
(* command over a System V message queue to a worker, for whose answer it  *)
(* waits inside its event loop.  The queue and the workers may outlive a   *)
(* master; so masters are numbered.  A step is one callback of the master, *)
(* up to where it waits, or one message of a worker.  The table is only    *)
(* called: a command succeeds or not.                                      *)
(*                                                                         *)
(* Clients send one command at a time and wait for its answer; how lines   *)
(* are cut up and pipelined is the subject of EmrakulServer, whose reading *)
(* code is the same.                                                       *)
(***************************************************************************)
EXTENDS Naturals, Sequences, FiniteSets, SequencesExt

CONSTANTS
    Client,
    Returning,   \* clients that come back when their connection is lost
    Count,       \* WORKER_PROCESSES_COUNT
    MaxCommands, \* bounds of the model: client c sends MaxCommands[c] commands,
    MaxMasters,  \* and so many masters are started
    Status,      \* the values of status that are told apart; 0 is success
    None,        \* no message in hand
    Term,        \* the command CMD_TERM
    Invalid      \* "303 Invalid command or internal error"

MasterType == 1               \* MASTER_MSGTYPE, MASTER_PROCESS_MSGTYPE
WorkerId   == 2 .. Count + 1  \* the types the workers listen to

(* CommandMessage; cmd is the client that asks and the number of its       *)
(* command, conn the number of its connection.                             *)
Message == [type : 1 .. Count + 1, conn : Nat, cmd : (Client \X Nat) \cup {Term},
            status : Status]

ASSUME RelayAssumption ==
    /\ Returning \subseteq Client
    /\ Count \in Nat \ {0} /\ MaxCommands \in [Client -> Nat] /\ MaxMasters \in Nat
    /\ 0 \in Status /\ Term \notin Client \X Nat /\ None \notin Message

VARIABLES
    master,    \* "off", "up", "reaping" its workers, or "crashed"
    number,    \* masters started so far
    clean,     \* none of them has crashed
    waiting,   \* the master waits for a message
    signalled, \* a signal has come and its callback has not run
    closing,   \* the event loop has two seconds left
    killed,    \* the terminal's SIGINT has ended this master's workers
    queue,     \* the message queue; its messages of one type are taken in order
    workers,   \* the worker processes, of this and of former masters
    conns,     \* conn_list
    nextId,    \* ClientConnection::id_base
    peer,      \* peer[c]: the client's end
    sent,      \* sent[c]: commands sent
    read,      \* read[c]: commands read by the master
    out,       \* out[c]: the output buffer of its connection
    inbox,     \* inbox[c]: what the client has received
    done       \* commands that a worker has carried out

loop    == <<number, clean, signalled, closing, killed>>
links   == <<conns, nextId, peer>>
client  == <<sent, inbox>>
vars    == <<master, waiting, loop, queue, workers, links, client, read, out, done>>

Init ==
    /\ master = "off" /\ number = 0 /\ clean = TRUE /\ waiting = FALSE
    /\ signalled = FALSE /\ closing = FALSE /\ killed = FALSE
    /\ queue = <<>> /\ workers = {}
    /\ conns = {} /\ nextId = 0 /\ peer = [c \in Client |-> "away"]
    /\ sent = [c \in Client |-> 0] /\ read = [c \in Client |-> 0]
    /\ out = [c \in Client |-> <<>>] /\ inbox = [c \in Client |-> <<>>]
    /\ done = {}

Idle    == master = "up" /\ ~waiting
Listed  == {k.client : k \in conns}
Mine(w) == w.master = number

-----------------------------------------------------------------------------
(* Clients.                                                                *)

(* A client whose connection a master has closed comes back, if it has had *)
(* the answers to all its commands.                                        *)
Lost(c) == /\ c \in Returning /\ peer[c] = "open" /\ c \notin Listed
           /\ read[c] = sent[c] /\ Len(inbox[c]) = sent[c]

Connect(c) ==
    /\ Idle /\ (peer[c] = "away" \/ Lost(c))
    /\ peer' = [peer EXCEPT ![c] = "open"]
    /\ conns' = conns \cup {[id |-> nextId, client |-> c]}
    /\ nextId' = nextId + 1
    /\ UNCHANGED <<master, waiting, loop, queue, workers, client, read, out, done>>

Send(c) ==
    /\ peer[c] = "open" /\ c \in Listed
    /\ Len(inbox[c]) = sent[c] /\ sent[c] < MaxCommands[c]
    /\ sent' = [sent EXCEPT ![c] = @ + 1]
    /\ UNCHANGED <<master, waiting, loop, queue, workers, links, inbox, read, out, done>>

HangUp(c) ==
    /\ peer[c] = "open" /\ c \in Listed
    /\ peer' = [peer EXCEPT ![c] = "gone"]
    /\ UNCHANGED <<master, waiting, loop, queue, workers, conns, nextId, client, read,
                   out, done>>

-----------------------------------------------------------------------------
(* The master.                                                             *)

(* Mutant: one of the workers is not spawned.                             *)
SpawnTooFew == {[id |-> i, master |-> number', hand |-> None] : i \in WorkerId \ {Count}}

Spawn == {[id |-> i, master |-> number', hand |-> None] : i \in WorkerId}

(* init_ipc finds the queue of a master that has crashed, or makes one.    *)
StartMaster ==
    /\ master \in {"off", "crashed"} /\ number < MaxMasters
    /\ master' = "up" /\ number' = number + 1
    /\ workers' = workers \cup Spawn
    /\ conns' = {} /\ nextId' = 0
    /\ signalled' = FALSE /\ closing' = FALSE /\ killed' = FALSE
    /\ UNCHANGED <<clean, waiting, queue, peer, client, read, out, done>>

(* send_response_to_client, to the connection with that number.            *)
Respond(id, a) ==
    out' = [c \in Client |-> IF [id |-> id, client |-> c] \in conns
                             THEN Append(out[c], a) ELSE out[c]]

(* relay_command_to_worker.  The type is drawn from 1 to Count, and the    *)
(* status in the message is whatever was on the stack.                     *)
Relay(k, n) ==
    /\ \E t \in 1 .. Count, s \in Status :
          queue' = Append(queue, [type |-> t, conn |-> k.id, cmd |-> <<k.client, n>>,
                                  status |-> s])
    /\ waiting' = TRUE
    /\ UNCHANGED out

(* conn_readcb takes a line.  An invalid one is answered at once.          *)
Query(c) ==
    /\ Idle
    /\ \E k \in conns :
          /\ k.client = c /\ read[c] < sent[c]
          /\ read' = [read EXCEPT ![c] = @ + 1]
          /\ \/ Relay(k, read[c] + 1)
             \/ Respond(k.id, Invalid) /\ UNCHANGED <<queue, waiting>>
    /\ UNCHANGED <<master, loop, workers, links, client, done>>

(* The first message of a type.                                            *)
FirstOf(t, i) ==
    /\ i \in 1 .. Len(queue) /\ queue[i].type = t
    /\ \A j \in 1 .. i - 1 : queue[j].type # t

(* Mutant: the answer goes to the connection that was accepted last.       *)
ProcessLast(m) == Respond(nextId - 1, [cmd |-> m.cmd, status |-> m.status])

(* process_response_from_worker.                                           *)
ProcessResponse(m) == Respond(m.conn, [cmd |-> m.cmd, status |-> m.status])

(* msgrcv has returned a message.                                          *)
Receive ==
    /\ master = "up" /\ waiting
    /\ \E i \in 1 .. Len(queue) :
          /\ FirstOf(MasterType, i)
          /\ queue' = RemoveAt(queue, i)
          /\ ProcessResponse(queue[i])
    /\ waiting' = FALSE
    /\ UNCHANGED <<master, loop, workers, links, client, read, done>>

(* libevent writes to the socket.                                          *)
Flush(c) ==
    /\ Idle /\ c \in Listed /\ out[c] # <<>>
    /\ out' = [out EXCEPT ![c] = <<>>]
    /\ inbox' = IF peer[c] = "open" THEN [inbox EXCEPT ![c] = @ \o out[c]] ELSE inbox
    /\ UNCHANGED <<master, waiting, loop, queue, workers, links, sent, read, done>>

(* close drops the output.                                                 *)
Drop(C) == out' = [c \in Client |-> IF c \in C THEN <<>> ELSE out[c]]

(* conn_eventcb, on end of file.                                           *)
Event(c) ==
    /\ Idle /\ peer[c] = "gone" /\ c \in Listed /\ read[c] = sent[c]
    /\ conns' = {k \in conns : k.client # c}
    /\ Drop({c})
    /\ UNCHANGED <<master, waiting, loop, queue, workers, nextId, peer, client, read, done>>

(* SIGTERM to the master, or SIGINT from the terminal, which ends the      *)
(* workers, too.  It interrupts msgrcv, and execute_query gives up.  One   *)
(* signal for each master, a bound of the model.                           *)
Signal ==
    /\ master = "up" /\ ~signalled /\ ~closing
    /\ signalled' = TRUE
    /\ waiting' = FALSE
    /\ \/ UNCHANGED <<workers, killed>>
       \/ workers' = {w \in workers : ~Mine(w)} /\ killed' = TRUE
    /\ UNCHANGED <<master, number, clean, closing, queue, links, client, read, out, done>>

(* signal_cb closes the connections.  Each is erased from the list that is *)
(* iterated over; with more than one the iteration comes to a null pointer *)
(* at the end, and the master crashes.                                     *)
HandleSignal ==
    /\ Idle /\ signalled
    /\ signalled' = FALSE
    /\ conns' = {} /\ Drop(Client)
    /\ \/ Cardinality(conns) <= 1 /\ closing' = TRUE /\ UNCHANGED <<master, clean>>
       \/ /\ Cardinality(conns) > 1
          /\ master' = "crashed" /\ clean' = FALSE
          /\ UNCHANGED closing
    /\ UNCHANGED <<waiting, number, killed, queue, workers, nextId, peer, client, read, done>>

(* Mutant: the messages that end the workers are numbered from one.        *)
TermsFromOne == [i \in 1 .. Count |-> [type |-> i, conn |-> 0, cmd |-> Term, status |-> 0]]

Terms == [i \in 1 .. Count |-> [type |-> i + 1, conn |-> 0, cmd |-> Term, status |-> 0]]

(* The loop has ended; shutdown_workers tells every worker to end.         *)
Shutdown ==
    /\ Idle /\ closing
    /\ master' = "reaping"
    /\ queue' = queue \o Terms
    /\ conns' = {} /\ Drop(Client)
    /\ UNCHANGED <<waiting, loop, workers, nextId, peer, client, read, done>>


(* All children have been waited for, and release_ipc removes the queue:   *)
(* what workers of other masters are left get an error from it and end.    *)
Release ==
    /\ master = "reaping" /\ \A w \in workers : ~Mine(w)
    /\ master' = "off"
    /\ queue' = <<>> /\ workers' = {}
    /\ UNCHANGED <<waiting, loop, links, client, read, out, done>>

-----------------------------------------------------------------------------
(* A worker takes a message of its type; CMD_TERM ends it.                 *)
Take(w) ==
    /\ w \in workers /\ w.hand = None
    /\ \E i \in 1 .. Len(queue) :
          LET m == queue[i] IN
          /\ FirstOf(w.id, i)
          /\ queue' = RemoveAt(queue, i)
          /\ \/ m.cmd = Term /\ workers' = workers \ {w} /\ UNCHANGED done
             \/ /\ m.cmd # Term
                /\ workers' = (workers \ {w}) \cup {[w EXCEPT !.hand = m]}
                /\ done' = done \cup {m.cmd}
    /\ UNCHANGED <<master, waiting, loop, links, client, read, out>>

(* Mutant: the worker answers again.                                       *)
ReplyAgain(w) ==
    /\ w \in workers /\ w.hand # None
    /\ queue' = Append(queue, [w.hand EXCEPT !.type = MasterType])
    /\ UNCHANGED <<workers, master, waiting, loop, links, client, read, out, done>>

(* Mutant: the answer has the type of the question.                        *)
ReplySameType(w) ==
    /\ w \in workers /\ w.hand # None
    /\ \E s \in Status : queue' = Append(queue, [w.hand EXCEPT !.status = s])
    /\ workers' = (workers \ {w}) \cup {[w EXCEPT !.hand = None]}
    /\ UNCHANGED <<master, waiting, loop, links, client, read, out, done>>

(* dispatch_message answers with what the table said.                      *)
Reply(w) ==
    /\ w \in workers /\ w.hand # None
    /\ \E s \in Status :
          queue' = Append(queue, [w.hand EXCEPT !.type = MasterType, !.status = s])
    /\ workers' = (workers \ {w}) \cup {[w EXCEPT !.hand = None]}
    /\ UNCHANGED <<master, waiting, loop, links, client, read, out, done>>

-----------------------------------------------------------------------------
Next ==
    \/ \E c \in Client : Connect(c) \/ Send(c) \/ HangUp(c)
                         \/ Query(c) \/ Flush(c) \/ Event(c)
    \/ StartMaster \/ Receive \/ Signal \/ HandleSignal \/ Shutdown \/ Release
    \/ \E w \in workers : Take(w) \/ Reply(w)

(* The loops of the master and of the workers run; clients and users need  *)
(* not do anything.                                                        *)
Fairness ==
    /\ \A c \in Client : WF_vars(Query(c)) /\ WF_vars(Flush(c))
    /\ WF_vars(Receive) /\ WF_vars(HandleSignal) /\ WF_vars(Shutdown) /\ WF_vars(Release)
    /\ \A i \in WorkerId, n \in 1 .. MaxMasters :
          WF_vars(\E w \in workers : w.id = i /\ w.master = n /\ (Take(w) \/ Reply(w)))

Spec == Init /\ [][Next]_vars /\ Fairness

-----------------------------------------------------------------------------
(* A master that was not interrupted has its question, and nothing else,   *)
(* in the queue or with a worker while it waits, and nothing at all while  *)
(* it does not.  So the answer it takes is the answer to its question.     *)
Busy     == {w \in workers : w.hand # None}
InFlight == Len(queue) + Cardinality(Busy)

OneInFlight ==
    clean /\ master = "up" /\ ~signalled /\ ~closing
        => InFlight = IF waiting THEN 1 ELSE 0

(* Every client gets the answers to its own commands, each once and in     *)
(* order, also when the master was interrupted and answers are left in the *)
(* queue, and after clean restarts.                                        *)
Given(c) == inbox[c] \o out[c]

AnswersToAsker ==
    clean => \A c \in Client :
        /\ Len(Given(c)) <= read[c]
        /\ \A i \in 1 .. Len(Given(c)) :
              Given(c)[i] # Invalid => Given(c)[i].cmd = <<c, i>>

(* Whatever masters are interrupted or crash, and leave their messages and *)
(* workers to the next: a command is under way in one place only, once it  *)
(* has been carried out only its answer is, and the answer is given once,  *)
(* though after a crash perhaps to another client.  So no command is       *)
(* carried out twice and none is answered twice.                           *)
Once ==
    /\ \A i, j \in 1 .. Len(queue) :
          queue[i].cmd = queue[j].cmd /\ queue[i].cmd # Term => i = j
    /\ \A v, w \in Busy : v.hand.cmd = w.hand.cmd => v = w
    /\ \A i \in 1 .. Len(queue) : \A w \in Busy : queue[i].cmd # w.hand.cmd

UnderWay(x) ==
    \/ \E i \in 1 .. Len(queue) : queue[i].cmd = x
    \/ \E w \in Busy : w.hand.cmd = x

AnsweredOnce ==
    \A c \in Client : \A i \in 1 .. Len(Given(c)) :
        Given(c)[i] # Invalid =>
            /\ ~UnderWay(Given(c)[i].cmd)
            /\ \A d \in Client : \A j \in 1 .. Len(Given(d)) :
                  Given(d)[j] # Invalid /\ Given(d)[j].cmd = Given(c)[i].cmd
                      => c = d /\ i = j

EachCommandOnce ==
    /\ Once
    /\ \A i \in 1 .. Len(queue) : queue[i].cmd \in done => queue[i].type = MasterType
    /\ AnsweredOnce

(* A command is answered unless its connection is closed or the master is  *)
(* about to stop.                                                          *)
CommandsAreAnswered ==
    \A c \in Client :
        clean /\ c \in Listed /\ sent[c] > Len(inbox[c])
            ~> sent[c] = Len(inbox[c]) \/ c \notin Listed \/ peer[c] = "gone"
               \/ signalled \/ closing

(* A signal ends a master whose workers it did not end, as long as no      *)
(* workers of a crashed master are there to take their messages.           *)
SignalEndsCleanMaster ==
    clean /\ signalled ~> master \in {"off", "crashed"} \/ killed

(* "Signal received, exiting...": a signal ends the master.                *)
SignalEndsMaster == clean /\ signalled ~> master \in {"off", "crashed"}

(* "200 SET OK": what the client is told has been done.                    *)
AcknowledgedIsDone ==
    \A c \in Client : \A i \in 1 .. Len(inbox[c]) :
        inbox[c][i] # Invalid /\ inbox[c][i].status = 0 => inbox[c][i].cmd \in done

=============================================================================
