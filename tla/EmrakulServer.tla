---------------------------- MODULE EmrakulServer ----------------------------
(***************************************************************************)
(* The processes of Emrakul DB v2.0 around the shared table (p6/src): the  *)
(* master accepts connections and passes each to a random worker over a    *)
(* socket pair; a worker serves its connections from one event loop; a     *)
(* signal to the master stops everything.  A step is one callback of an    *)
(* event loop, or something a client does.  The table is only called.      *)
(*                                                                         *)
(* A client's commands are numbered lines.  A line is sent in two halves,  *)
(* the second with the line feed, and TCP delivers any number of halves    *)
(* that have been sent at once.  The answer to line n of client c is       *)
(* <<c, n>>, whatever the table says.                                      *)
(***************************************************************************)
EXTENDS Naturals, Sequences, FiniteSets

CONSTANTS
    Worker,      \* the worker processes
    Cleaner,     \* the garbage collector process
    Client,
    Polite,      \* clients that send a whole line, and only after reading
                 \* the answer to the line before, and that stay connected
    MaxLines,    \* bound of the model: MaxLines[c] lines are sent by client c
    ChannelSize, \* descriptors that fit in the socket pair of a worker
    Welcome,     \* the text a new connection is greeted with
    Invalid      \* "303 Invalid command or internal error"

ASSUME ServerAssumption ==
    /\ Polite \subseteq Client /\ Cleaner \notin Worker
    /\ MaxLines \in [Client -> Nat] /\ ChannelSize \in Nat \ {0}
    /\ Welcome \notin Client \X Nat /\ Invalid \notin Client \X Nat

Child == Worker \cup {Cleaner}

VARIABLES
    master,    \* "up", "waiting", "leaving", "done" or "broken"
    state,     \* state[p]: the same of each child
    signalled, \* the children with a signal to handle
    backlog,   \* clients connected to the port and not yet accepted
    kept,      \* clients accepted: the master never closes its descriptor
    passed,    \* those whose descriptor went into a channel
    channel,   \* channel[w]: the descriptors on their way to worker w
    conns,     \* conns[w]: conn_list, the connections of worker w
    nextId,    \* nextId[w]: ClientConnection::id_base in worker w
    peer,      \* peer[c]: the client's end of its connection
    sent,      \* sent[c]: half lines sent
    got,       \* got[c]: half lines in the input buffer, read or not
    taken,     \* taken[c]: lines taken out of the input buffer
    out,       \* out[c]: the output buffer of its connection
    inbox      \* inbox[c]: what the client has received

processes == <<master, state, signalled>>
passing   == <<backlog, kept, passed, channel>>
client    == <<peer, sent, inbox>>
buffers   == <<got, taken, out>>
vars      == <<processes, passing, conns, nextId, client, buffers>>

Init ==
    /\ master = "up" /\ state = [p \in Child |-> "up"] /\ signalled = {}
    /\ backlog = {} /\ kept = {} /\ passed = {}
    /\ channel = [w \in Worker |-> <<>>]
    /\ conns   = [w \in Worker |-> {}]
    /\ nextId  = [w \in Worker |-> 0]
    /\ peer    = [c \in Client |-> "away"]
    /\ sent    = [c \in Client |-> 0]
    /\ got     = [c \in Client |-> 0]
    /\ taken   = [c \in Client |-> 0]
    /\ out     = [c \in Client |-> <<>>]
    /\ inbox   = [c \in Client |-> <<>>]

Runs(p)         == state[p] \in {"up", "leaving"}
InChannel(c, w) == \E i \in 1 .. Len(channel[w]) : channel[w][i] = c
ClientsOf(w)    == {k.client : k \in conns[w]}

-----------------------------------------------------------------------------
(* The clients.  What a client does when the server has lost or closed its *)
(* connection reaches nobody, and is left out.                             *)

Connected(c) == c \in backlog \/ \E w \in Worker : InChannel(c, w) \/ c \in ClientsOf(w)

(* What has come after the greeting.                                       *)
Replies(c) == IF inbox[c] = <<>> THEN 0 ELSE Len(inbox[c]) - 1

Connect(c) ==
    /\ peer[c] = "away" /\ master \in {"up", "waiting", "leaving"}
    /\ peer' = [peer EXCEPT ![c] = "open"]
    /\ backlog' = backlog \cup {c}
    /\ UNCHANGED <<processes, kept, passed, channel, conns, nextId, sent, inbox,
                   buffers>>

Send(c) ==
    /\ peer[c] = "open" /\ Connected(c) /\ sent[c] < 2 * MaxLines[c]
    /\ \/ c \in Polite /\ 2 * Replies(c) = sent[c] /\ sent' = [sent EXCEPT ![c] = @ + 2]
       \/ c \notin Polite /\ sent' = [sent EXCEPT ![c] = @ + 1]
    /\ UNCHANGED <<processes, passing, conns, nextId, peer, inbox, buffers>>

(* The client ends its side of the connection, or closes it altogether.    *)
HangUp(c) ==
    /\ c \notin Polite /\ Connected(c)
    /\ \/ /\ peer[c] = "open"
          /\ peer' = [peer EXCEPT ![c] = "half"]
          /\ UNCHANGED inbox
       \/ /\ peer[c] \in {"open", "half"}
          /\ peer' = [peer EXCEPT ![c] = "gone"]
          /\ inbox' = [inbox EXCEPT ![c] = <<>>]
    /\ UNCHANGED <<processes, passing, conns, nextId, sent, buffers>>

-----------------------------------------------------------------------------
(* The master.                                                             *)

(* listener_cb accepts a connection for a worker drawn at random.          *)
Accept(c, w) ==
    /\ master \in {"up", "leaving"} /\ c \in backlog
    /\ backlog' = backlog \ {c}
    /\ UNCHANGED <<state, signalled, conns, nextId, client, buffers>>

(* sock_fd_write passes the descriptor on; when the channel is full it     *)
(* fails, and listener_cb does not look at its result.                     *)
Pass(c, w) ==
    /\ Accept(c, w) /\ Runs(w)
    /\ kept' = kept \cup {c}
    /\ \/ /\ Len(channel[w]) < ChannelSize
          /\ channel' = [channel EXCEPT ![w] = Append(@, c)]
          /\ passed' = passed \cup {c}
       \/ Len(channel[w]) = ChannelSize /\ UNCHANGED <<channel, passed>>
    /\ UNCHANGED master

(* The other end of the channel was closed: SIGPIPE ends the master.       *)
PassToNobody(c, w) ==
    /\ Accept(c, w) /\ ~Runs(w)
    /\ master' = "broken"
    /\ kept' = {}
    /\ UNCHANGED <<passed, channel>>

(* Mutant: the collector is not among the children that are told to stop.  *)
StopMasterWorkersOnly ==
    /\ master = "up"
    /\ master' = "waiting"
    /\ signalled' = {p \in Worker : Runs(p)}
    /\ UNCHANGED <<state, passing, conns, nextId, client, buffers>>

(* SIGTERM to the master, or SIGINT from the terminal to all processes.    *)
(* signal_cb passes it on as SIGTERM and waits for the children.           *)
StopMaster ==
    /\ master = "up"
    /\ master' = "waiting"
    /\ signalled' = {p \in Child : Runs(p)}
    /\ UNCHANGED <<state, passing, conns, nextId, client, buffers>>

(* wait has returned for every child; the event loop runs two seconds more.*)
ChildrenGone ==
    /\ master = "waiting" /\ \A p \in Child : ~Runs(p)
    /\ master' = "leaving"
    /\ UNCHANGED <<state, signalled, passing, conns, nextId, client, buffers>>

(* The event loop has ended: ipc_delete removes the shared names.          *)
MasterExit ==
    /\ master = "leaving"
    /\ master' = "done"
    /\ kept' = {}
    /\ UNCHANGED <<state, signalled, backlog, passed, channel, conns, nextId,
                   client, buffers>>

-----------------------------------------------------------------------------
(* A worker.                                                               *)

(* The buffers of connections that are closed are freed, unsent output too.*)
Free(C) ==
    /\ got'   = [c \in Client |-> IF c \in C THEN 0 ELSE got[c]]
    /\ taken' = [c \in Client |-> IF c \in C THEN 0 ELSE taken[c]]
    /\ out'   = [c \in Client |-> IF c \in C THEN <<>> ELSE out[c]]

(* Mutant: connections are not numbered.                                   *)
EstablishSameId(w, c) ==
    /\ conns' = [conns EXCEPT ![w] = @ \cup {[id |-> nextId[w], client |-> c]}]
    /\ UNCHANGED nextId
    /\ out' = [out EXCEPT ![c] = <<Welcome>>]

(* A ClientConnection is made, listed, and greets the client.              *)
Establish(w, c) ==
    /\ conns' = [conns EXCEPT ![w] = @ \cup {[id |-> nextId[w], client |-> c]}]
    /\ nextId' = [nextId EXCEPT ![w] = @ + 1]
    /\ out' = [out EXCEPT ![c] = <<Welcome>>]

(* sock_fd_read takes one byte, and the descriptor that came with it.      *)
ReadDescriptor(w) == channel' = [channel EXCEPT ![w] = Tail(@)]

(* fd_channel_callback.                                                    *)
Take(w) ==
    /\ Runs(w) /\ channel[w] # <<>>
    /\ ReadDescriptor(w)
    /\ Establish(w, Head(channel[w]))
    /\ UNCHANGED <<processes, backlog, kept, passed, client, got, taken>>

(* Mutant: the answer goes to every connection of the worker.              *)
SendResponseToAll(w, id, r) ==
    out' = [c \in Client |-> IF c \in ClientsOf(w) THEN Append(out[c], r) ELSE out[c]]

(* send_response_to_client finds the connection by its number.             *)
SendResponse(w, id, r) ==
    out' = [c \in Client |->
              IF [id |-> id, client |-> c] \in conns[w] THEN Append(out[c], r)
              ELSE out[c]]

(* Mutant: the line that was read stays in the buffer.                     *)
ReadLineAgain(w, k, n) ==
    LET c == k.client IN
    /\ got' = [got EXCEPT ![c] = n]
    /\ UNCHANGED taken
    /\ SendResponse(w, k.id, IF n >= 2 * (taken[c] + 1) THEN <<c, taken[c] + 1>>
                             ELSE Invalid)

(* read_from_buffer takes one line, which is executed; when there is no    *)
(* complete line it gives up after a while, and that is answered too.      *)
ReadLine(w, k, n) ==
    LET c == k.client IN
    /\ got' = [got EXCEPT ![c] = n]
    /\ \/ /\ 2 * (taken[c] + 1) <= n
          /\ taken' = [taken EXCEPT ![c] = @ + 1]
          /\ SendResponse(w, k.id, <<c, taken[c] + 1>>)
       \/ /\ 2 * (taken[c] + 1) > n
          /\ UNCHANGED taken
          /\ SendResponse(w, k.id, Invalid)

(* Data arrives: libevent fills the input buffer and calls conn_readcb     *)
(* once, however many lines there are.                                     *)
Read(w, k) ==
    /\ Runs(w) /\ k \in conns[w]
    /\ \E n \in got[k.client] + 1 .. sent[k.client] :
          /\ k.client \in Polite => n = sent[k.client]
          /\ ReadLine(w, k, n)
    /\ UNCHANGED <<processes, passing, conns, nextId, client>>

(* Mutant: remove_connection erases the first connection of the list.      *)
RemoveFirst(w, k) ==
    conns' = [conns EXCEPT ![w] = @ \ {CHOOSE j \in @ : \A i \in @ : j.id <= i.id}]

RemoveConnection(w, k) ==
    conns' = [conns EXCEPT ![w] = {j \in @ : j.id # k.id}]

(* close frees the bufferevent and erases the connection from the list.    *)
Close(w, k) == Free({k.client}) /\ RemoveConnection(w, k)

(* conn_eventcb, on end of file or an error.                               *)
Event(w, k) ==
    /\ Runs(w) /\ k \in conns[w]
    /\ got[k.client] = sent[k.client]
    /\ peer[k.client] \in {"half", "gone", "reset"}
    /\ Close(w, k)
    /\ UNCHANGED <<processes, passing, nextId, client>>

(* A process ends: its end of the channel and its connections are closed.  *)
End(w, s) ==
    /\ state' = [state EXCEPT ![w] = s]
    /\ conns' = [conns EXCEPT ![w] = {}]
    /\ channel' = [channel EXCEPT ![w] = <<>>]
    /\ Free(ClientsOf(w))

(* The output buffer is written to the socket.  Writing to a client that   *)
(* is gone makes its host reset the connection, and writing after that     *)
(* raises SIGPIPE, which ends the worker.                                  *)
Write(w, k) ==
    /\ Runs(w) /\ k \in conns[w] /\ out[k.client] # <<>>
    /\ LET c == k.client IN
       \/ /\ peer[c] \in {"open", "half"}
          /\ inbox' = [inbox EXCEPT ![c] = @ \o out[c]]
          /\ out' = [out EXCEPT ![c] = <<>>]
          /\ UNCHANGED <<state, channel, conns, peer, got, taken>>
       \/ /\ peer[c] = "gone"
          /\ peer' = [peer EXCEPT ![c] = "reset"]
          /\ out' = [out EXCEPT ![c] = <<>>]
          /\ UNCHANGED <<state, channel, conns, inbox, got, taken>>
       \/ peer[c] = "reset" /\ End(w, "broken") /\ UNCHANGED <<peer, inbox>>
    /\ UNCHANGED <<master, signalled, backlog, kept, passed, nextId, sent>>

(* signal_cb closes the connections, each of which erases itself from the  *)
(* list that is being iterated over.  With one connection that ends well.  *)
(* With more every other one is skipped, and then the iteration reads the  *)
(* elements erased from the end, which are null.                           *)
Stop(w) ==
    /\ Runs(w) /\ w \in signalled
    /\ signalled' = signalled \ {w}
    /\ \/ /\ Cardinality(conns[w]) <= 1
          /\ state' = [state EXCEPT ![w] = "leaving"]
          /\ conns' = [conns EXCEPT ![w] = {}]
          /\ Free(ClientsOf(w))
          /\ UNCHANGED channel
       \/ Cardinality(conns[w]) > 1 /\ End(w, "crashed")
    /\ UNCHANGED <<master, backlog, kept, passed, nextId, client>>

(* Two seconds after signal_cb the event loop ends.                        *)
Exit(w) ==
    /\ state[w] = "leaving"
    /\ End(w, "gone")
    /\ UNCHANGED <<master, signalled, backlog, kept, passed, nextId, client>>

(* The collector leaves its loop when signalled.                           *)
CleanerExit ==
    /\ Runs(Cleaner) /\ Cleaner \in signalled
    /\ signalled' = signalled \ {Cleaner}
    /\ state' = [state EXCEPT ![Cleaner] = "gone"]
    /\ UNCHANGED <<master, passing, conns, nextId, client, buffers>>

-----------------------------------------------------------------------------
WorkerStep(w) ==
    \/ Take(w) \/ Stop(w) \/ Exit(w)
    \/ \E k \in conns[w] : Read(w, k) \/ Event(w, k) \/ Write(w, k)

Next ==
    \/ \E c \in Client : Connect(c) \/ Send(c) \/ HangUp(c)
    \/ \E c \in Client, w \in Worker : Pass(c, w) \/ PassToNobody(c, w)
    \/ StopMaster \/ ChildrenGone \/ MasterExit
    \/ \E w \in Worker : WorkerStep(w)
    \/ CleanerExit

(* Every pass of an event loop runs the callbacks of all events that are   *)
(* pending, and a loop exits when its time is over: weak fairness of every *)
(* kind of event, and of the reads and writes of every connection.  Clients*)
(* need not do anything, and nobody need send a signal.                    *)
Serve(c) ==
    \E w \in Worker : \E k \in conns[w] :
        k.client = c /\ (Read(w, k) \/ Write(w, k))
Leave == CleanerExit \/ \E w \in Worker : Stop(w) \/ Exit(w)

Fairness ==
    /\ WF_vars(\E c \in Client, w \in Worker : Pass(c, w) \/ PassToNobody(c, w))
    /\ WF_vars(\E w \in Worker : Take(w))
    /\ \A c \in Client : WF_vars(Serve(c))
    /\ WF_vars(Leave) /\ WF_vars(ChildrenGone \/ MasterExit)

Spec == Init /\ [][Next]_vars /\ Fairness

-----------------------------------------------------------------------------
(* A connection is in one place: in the backlog, on its way to one worker, *)
(* or in the list of one worker, under a number no other connection of     *)
(* that worker has; and only while that worker runs.                       *)
OnePlaceEach ==
    /\ \A c \in Client, w \in Worker : InChannel(c, w) \/ c \in ClientsOf(w) =>
          /\ c \in passed \ backlog /\ Runs(w)
          /\ ~(InChannel(c, w) /\ c \in ClientsOf(w))
          /\ \A v \in Worker \ {w} : ~InChannel(c, v) /\ c \notin ClientsOf(v)
    /\ \A w \in Worker : \A j, k \in conns[w] :
          j.client = k.client \/ j.id = k.id => j = k

(* Besides the greeting and "303", s has the answers to the first m lines  *)
(* of c, each once, in the order of the lines.                             *)
InOrder(s, c, m) ==
    /\ \A i \in 1 .. Len(s) :
          s[i] \in {Welcome, Invalid} \/ \E n \in 1 .. m : s[i] = <<c, n>>
    /\ \A n \in 1 .. m : \E i \in 1 .. Len(s) : s[i] = <<c, n>>
    /\ \A i, j \in 1 .. Len(s), n, k \in 1 .. m :
          i < j /\ s[i] = <<c, n>> /\ s[j] = <<c, k>> => n < k

Reads(c)  == peer[c] \in {"open", "half"}
Served(c) == \E w \in Worker : c \in ClientsOf(w)

(* A client receives answers to its own lines only, each once, in the      *)
(* order of the lines and without a gap, however its lines are cut up and  *)
(* whoever else is served; "303" may come in between.                      *)
AnswersInOrder ==
    \A c \in Client : \E m \in 0 .. sent[c] :
        /\ InOrder(IF Reads(c) THEN inbox[c] \o out[c] ELSE inbox[c], c, m)
        /\ 2 * m <= sent[c]
        /\ Reads(c) /\ Served(c) => m = taken[c]

(* A client that sends a whole line at a time and waits for its answer is  *)
(* greeted first, is never told that a line is invalid because of how it   *)
(* was read, and never gets more answers than it sent lines.               *)
OneAnswerPerLine ==
    \A c \in Polite :
        LET s == inbox[c] \o out[c]
        IN  s # <<>> => /\ s[1] = Welcome
                        /\ \A i \in 2 .. Len(s) : s[i] \notin {Welcome, Invalid}
                        /\ 2 * (Len(s) - 1) <= sent[c]


(* A line of such a client is answered, as long as the server is not       *)
(* stopped, no worker has died, and its connection was not lost on the way *)
(* into a full channel.                                                    *)
LinesAreAnswered ==
    \A c \in Polite :
        sent[c] > 2 * Replies(c)
          ~> \/ sent[c] = 2 * Replies(c)
             \/ master # "up" \/ c \in kept \ passed
             \/ \E w \in Worker : ~Runs(w)

(* A signal to the master ends every process, whatever clients do; and     *)
(* though it crashes workers that have two connections, the master gets as *)
(* far as removing the names of the shared objects.  Only a client it      *)
(* accepted and could not pass on to a worker can have prevented that.     *)
Unserved(c) == peer[c] # "away" /\ c \notin backlog \cup passed

SignalEndsAll ==
    master = "waiting"
      ~> /\ \A p \in Child : ~Runs(p)
         /\ \/ master = "done"
            \/ master = "broken" /\ \E c \in Client : Unserved(c)

(* A worker that is told to stop closes its connections and leaves its     *)
(* event loop: "Exiting worker process...".  The code does not do so with  *)
(* two connections.                                                        *)
StoppedWorkersExit == \A w \in Worker : state[w] # "crashed"

(* "Exiting master process...", "Deleting IPC shared resources...": a      *)
(* master that is stopping is not ended by anything else.  In the code it  *)
(* is, when a client connects in its last two seconds.                     *)
StopIsClean == [][(master \in {"waiting", "leaving"}) => (master' # "broken")]_vars

(* "Connection ... closed": once a worker has closed a connection no       *)
(* process keeps it open.  The code does not close the master's descriptor.*)
ClosedMeansClosed ==
    \A c \in passed : c \in kept => \E w \in Worker : InChannel(c, w) \/ c \in ClientsOf(w)

=============================================================================
