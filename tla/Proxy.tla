------------------------------- MODULE Proxy --------------------------------
(***************************************************************************)
(* The TCP proxy (p3).  The server runs one listener per configured port,  *)
(* one after the other; each has an event loop of its own, in which it     *)
(* joins every client with a server that its port routes to.  A step is    *)
(* one callback of that loop, or something a peer does.                    *)
(*                                                                         *)
(* What a peer sends is counted in pieces, which TCP keeps in order.       *)
(***************************************************************************)
EXTENDS Naturals, Sequences

CONSTANTS
    Client,
    Target,     \* the servers behind the proxy,
    Down,       \* those that refuse connections
    Routes,     \* the routing table: for each port, in turn, the targets it routes to
    MaxPieces,  \* bounds of the model: pieces that MaxPieces[c][e] sends,
    MaxFailures \* connections for which there is no socket left

\* The ends of a connection: bev_in with the client, bev_out with the target.
End == {"in", "out"}

ASSUME ProxyAssumption ==
    /\ Down \subseteq Target /\ MaxPieces \in [Client -> [End -> Nat]] /\ MaxFailures \in Nat
    /\ \A p \in DOMAIN Routes : Routes[p] \subseteq Target /\ Routes[p] # {}

Other(e) == IF e = "in" THEN "out" ELSE "in"

VARIABLES
    port,      \* the port whose listener runs, the last one + 1 at the end
    exiting,   \* its loop has two seconds left
    conn,      \* conn[c]: "none", "queued" in the kernel, "open", "stuck" half
               \* made, "freed", or "refused"
    owner,     \* owner[c]: the port that c has connected to
    counter,   \* connection_counter
    conn_list, \* the conn_lists of all listeners
    failures,  \* connections that got no socket
    peer,      \* peer[c][e]: "open", "shut" (it has sent its end), or "reset"
    enabled,   \* enabled[c][e]: EV_READ is enabled
    sent,      \* sent[c][e]: the pieces that e's peer has sent, those of them
    moved,     \* that were moved to the output buffer of the other end,
    given      \* and those that were written there

server   == <<port, exiting>>
registry == <<conn, owner, counter, conn_list, failures>>
streams  == <<enabled, moved, given>>
peers    == <<peer, sent>>
vars     == <<server, registry, streams, peers>>

Both(x) == [e \in End |-> x]

\* get_incoming_ports and the loop over them.
Serving == port \in DOMAIN Routes

Init ==
    /\ port = 1 /\ exiting = FALSE
    /\ conn = [c \in Client |-> "none"] /\ owner = [c \in Client |-> 0]
    /\ counter = [c \in Client |-> 0]
    /\ conn_list = {} /\ failures = 0
    /\ peer = [c \in Client |-> Both("open")]
    /\ enabled = [c \in Client |-> Both(FALSE)]
    /\ sent = [c \in Client |-> Both(0)]
    /\ moved = [c \in Client |-> Both(0)]
    /\ given = [c \in Client |-> Both(0)]
-----------------------------------------------------------------------------
(* The peers (external)                                                    *)

\* Only the port whose listener runs is listened to.
Connect(c) ==
    /\ Serving /\ conn[c] = "none"
    /\ conn' = [conn EXCEPT ![c] = "queued"] /\ owner' = [owner EXCEPT ![c] = port]
    /\ UNCHANGED <<server, counter, conn_list, failures, streams, peers>>

\* A client may send before it is accepted.  What peers do when the listener has
\* stopped is of no effect any more, and left out.
Linked(c, e) ==
    owner[c] = port /\ conn[c] \in {"open"} \cup (IF e = "in" THEN {"queued"} ELSE {})

Send(c, e) ==
    /\ Linked(c, e) /\ peer[c][e] = "open" /\ sent[c][e] < MaxPieces[c][e]
    /\ sent' = [sent EXCEPT ![c][e] = @ + 1]
    /\ UNCHANGED <<server, registry, streams, peer>>

HangUp(c, e) ==
    /\ Linked(c, e)
    /\ \E s \in {"shut", "reset"} \ {peer[c][e]} :
          peer[c][e] # "reset" /\ peer' = [peer EXCEPT ![c][e] = s]
    /\ UNCHANGED <<server, registry, streams, sent>>

Interrupt ==
    /\ Serving /\ ~exiting
    /\ exiting' = TRUE
    /\ UNCHANGED <<port, registry, streams, peers>>
-----------------------------------------------------------------------------
(* Listeners                                                               *)

select(p) == Routes[p]

(* Mutant: a third side is waited for.                                     *)
ThreeSides == 3

\* The ends of a connection whose EOF is waited for.
Sides == 2

\* listener_cb and establish.  What connect returns is lost; that the target
\* refused shows when its end is read.
Accept(c) ==
    /\ Serving /\ conn[c] = "queued" /\ owner[c] = port
    /\ conn_list' = conn_list \cup {c}
    /\ conn' = [conn EXCEPT ![c] = "open"]
    /\ counter' = [counter EXCEPT ![c] = Sides]
    /\ enabled' = [enabled EXCEPT ![c] = Both(TRUE)]
    /\ \E t \in select(port) :
          peer' = [peer EXCEPT ![c]["out"] = IF t \in Down THEN "reset" ELSE "open"]
    /\ UNCHANGED <<server, owner, failures, moved, given, sent>>

\* There is no socket for the target: the connection is kept, half made.
AcceptFails(c) ==
    /\ Serving /\ conn[c] = "queued" /\ owner[c] = port /\ failures < MaxFailures
    /\ conn_list' = conn_list \cup {c}
    /\ conn' = [conn EXCEPT ![c] = "stuck"]
    /\ failures' = failures + 1
    /\ UNCHANGED <<server, owner, counter, streams, peers>>

\* Two seconds after SIGINT the loop ends and the next listener is started.
\* The connections of this one are neither closed nor served any more.
Stop ==
    /\ Serving /\ exiting
    /\ port' = port + 1 /\ exiting' = FALSE
    /\ conn' = [c \in Client |-> IF conn[c] = "queued" THEN "refused" ELSE conn[c]]
    /\ UNCHANGED <<owner, counter, conn_list, failures, streams, peers>>
-----------------------------------------------------------------------------
(* Connections                                                             *)

Served(c) == conn[c] = "open" /\ owner[c] = port

\* What is to be written to e.
Output(c, e) == moved[c][Other(e)] - given[c][Other(e)]

\* conn_readcb.
Read(c, e) ==
    /\ Served(c) /\ enabled[c][e] /\ peer[c][e] # "reset"
    /\ \E n \in moved[c][e] + 1 .. sent[c][e] : moved' = [moved EXCEPT ![c][e] = n]
    /\ UNCHANGED <<server, registry, enabled, given, peers>>

\* libevent writes an output buffer (external).
Write(c, e) ==
    /\ Served(c) /\ peer[c][e] # "reset" /\ Output(c, e) > 0
    /\ \E n \in 1 .. Output(c, e) : given' = [given EXCEPT ![c][Other(e)] = @ + n]
    /\ UNCHANGED <<server, registry, enabled, moved, peers>>

CloseConnection(c) ==
    /\ conn' = [conn EXCEPT ![c] = "freed"]
    /\ conn_list' = conn_list \ {c}

(* Mutant: a connection is closed as soon as one end is.                   *)
OverEarly(n) == n <= 1

Over(n) == n = 0

\* conn_eventcb, BEV_EVENT_EOF.
Eof(c, e) ==
    /\ Served(c) /\ enabled[c][e] /\ peer[c][e] = "shut" /\ moved[c][e] = sent[c][e]
    /\ counter' = [counter EXCEPT ![c] = @ - 1]
    /\ enabled' = [enabled EXCEPT ![c][e] = FALSE]
    /\ IF Over(counter[c] - 1) THEN CloseConnection(c) ELSE UNCHANGED <<conn, conn_list>>
    /\ UNCHANGED <<server, owner, failures, moved, given, peers>>

\* conn_eventcb, BEV_EVENT_ERROR.  It takes a read or a write to notice.
Error(c, e) ==
    /\ Served(c) /\ peer[c][e] = "reset" /\ (enabled[c][e] \/ Output(c, e) > 0)
    /\ CloseConnection(c)
    /\ UNCHANGED <<server, owner, counter, failures, streams, peers>>
-----------------------------------------------------------------------------
Callback(c, e) == Read(c, e) \/ Write(c, e) \/ Eof(c, e) \/ Error(c, e)

Loop == Stop \/ \E c \in Client : Accept(c) \/ \E e \in End : Callback(c, e)

Next ==
    \/ Loop \/ Interrupt
    \/ \E c \in Client : Connect(c) \/ AcceptFails(c) \/ \E e \in End : Send(c, e) \/ HangUp(c, e)

\* The event loop runs.
Spec == Init /\ [][Next]_vars /\ WF_vars(Loop)
-----------------------------------------------------------------------------
(* Properties                                                              *)

\* A connection is closed after an error or after both ends, never after one:
\* all that was sent has been read then (Connection.cpp:98), though what waits
\* to be written may be dropped (Connection.cpp:112).  Until then, and only
\* until then, conn_list keeps the object that its callbacks use.
ClosedAfterBothEnds ==
    \A c \in Client :
        /\ conn[c] = "freed" /\ (\A e \in End : peer[c][e] # "reset") =>
              \A e \in End : peer[c][e] = "shut" /\ moved[c][e] = sent[c][e]
        /\ c \in conn_list <=> conn[c] \in {"open", "stuck"}

\* In the end, of the connections that a listener still serves, none has lost
\* both its ends, and what one end has sent, the other has got, unless a peer
\* was reset: also when the other had sent its own end before.
Settles ==
    <>[](\A c \in Client : Served(c) =>
            /\ \E e \in End : peer[c][e] = "open"
            /\ (\A e \in End : peer[c][e] # "reset") =>
                  \A e \in End : given[c][e] = sent[c][e])
=============================================================================
