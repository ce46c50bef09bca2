----------------------------- MODULE ProxyProofs -----------------------------
(***************************************************************************)
(* Proofs about the TCP proxy, for any number of clients, targets, ports   *)
(* and pieces: no connection is closed while an end may still send.        *)
(***************************************************************************)
EXTENDS Proxy, Integers, TLAPS

-----------------------------------------------------------------------------
(* Invariants.                                                             *)

Conns == {"none", "queued", "open", "stuck", "freed", "refused"}

TypeInv ==
    /\ conn \in [Client -> Conns]
    /\ conn_list \subseteq Client
    /\ counter \in [Client -> Int]
    /\ peer \in [Client -> [End -> {"open", "shut", "reset"}]]
    /\ enabled \in [Client -> [End -> BOOLEAN]]
    /\ sent \in [Client -> [End -> Nat]]
    /\ moved \in [Client -> [End -> Nat]]

(* An end whose EOF has come has nothing more to say.                      *)
Finished(c, e) == peer[c][e] # "open" /\ moved[c][e] = sent[c][e]

(* The counter of an open connection is the number of its ends whose EOF   *)
(* has not come, and these are the ones that are read.                     *)
Counted(c) ==
    conn[c] = "open" =>
        /\ \A e \in End : enabled[c][e] \/ Finished(c, e)
        /\ \/ counter[c] = 2 /\ \A e \in End : enabled[c][e]
           \/ counter[c] = 1 /\ \E e \in End : enabled[c][e] /\ ~enabled[c][Other(e)]

Listed(c) == c \in conn_list <=> conn[c] \in {"open", "stuck"}

Complete(c) ==
    conn[c] = "freed" /\ (\A e \in End : peer[c][e] # "reset") => \A e \in End : Finished(c, e)

ConnInv == \A c \in Client : Counted(c) /\ Listed(c) /\ Complete(c)

-----------------------------------------------------------------------------
(* Types.                                                                  *)

LEMMA InitTypes == Init => TypeInv
  BY DEF Init, TypeInv, Conns, Both

LEMMA StepTypes == TypeInv /\ [Next]_vars => TypeInv'
  <1>. SUFFICES ASSUME TypeInv, [Next]_vars PROVE TypeInv'
    OBVIOUS
  <1>. USE DEF TypeInv
  <1>1. ASSUME NEW c \in Client, Connect(c) PROVE TypeInv'
    BY <1>1 DEF Connect, streams, peers, Conns
  <1>2. ASSUME NEW c \in Client, AcceptFails(c) PROVE TypeInv'
    BY <1>2 DEF AcceptFails, streams, peers, Conns
  <1>3. ASSUME NEW c \in Client, NEW e \in End, Send(c, e) PROVE TypeInv'
    BY <1>3 DEF Send, registry, streams
  <1>4. ASSUME NEW c \in Client, NEW e \in End, HangUp(c, e) PROVE TypeInv'
    BY <1>4 DEF HangUp, registry, streams
  <1>5. ASSUME Interrupt PROVE TypeInv'
    BY <1>5 DEF Interrupt, registry, streams, peers
  <1>6. ASSUME Stop PROVE TypeInv'
    BY <1>6 DEF Stop, streams, peers, Conns
  <1>7. ASSUME NEW c \in Client, Accept(c) PROVE TypeInv'
    <2>1. Both(TRUE) \in [End -> BOOLEAN] /\ "out" \in End
      BY DEF Both, End
    <2>2. PICK s \in {"open", "reset"} : peer' = [peer EXCEPT ![c]["out"] = s]
      BY <1>7 DEF Accept
    <2>3. peer' \in [Client -> [End -> {"open", "shut", "reset"}]]
      BY <2>1, <2>2
    <2>4. enabled' \in [Client -> [End -> BOOLEAN]]
      <3>1. enabled' = [enabled EXCEPT ![c] = Both(TRUE)]
        BY <1>7 DEF Accept
      <3>. QED
        BY <2>1, <3>1
    <2>5. /\ conn' \in [Client -> Conns] /\ conn_list' \subseteq Client
          /\ counter' \in [Client -> Int] /\ sent' = sent /\ moved' = moved
      BY <1>7 DEF Accept, Conns, Sides
    <2>. QED
      BY <2>3, <2>4, <2>5
  <1>8. ASSUME NEW c \in Client, NEW e \in End, Callback(c, e) PROVE TypeInv'
    <2>1. CASE Read(c, e)
      BY <2>1 DEF Read, registry, peers
    <2>2. CASE Write(c, e)
      BY <2>2 DEF Write, registry, peers
    <2>3. CASE Eof(c, e)
      BY <2>3 DEF Eof, CloseConnection, peers, Conns
    <2>4. CASE Error(c, e)
      BY <2>4 DEF Error, CloseConnection, streams, peers, Conns
    <2>. QED
      BY <1>8, <2>1, <2>2, <2>3, <2>4 DEF Callback
  <1>9. CASE UNCHANGED vars
    BY <1>9 DEF vars, registry, streams, peers
  <1>. QED
    BY <1>1, <1>2, <1>3, <1>4, <1>5, <1>6, <1>7, <1>8, <1>9 DEF Next, Loop

-----------------------------------------------------------------------------
(* Connections.                                                            *)

LEMMA InitConns == Init => ConnInv
  BY DEF Init, ConnInv, Counted, Listed, Complete

(* A connection to which nothing happens.                                  *)
Untouched(d) ==
    /\ conn'[d] = conn[d] /\ counter'[d] = counter[d]
    /\ (d \in conn_list') <=> (d \in conn_list)
    /\ peer'[d] = peer[d] /\ enabled'[d] = enabled[d]
    /\ sent'[d] = sent[d] /\ moved'[d] = moved[d]

LEMMA UntouchedIsKept ==
    ASSUME NEW d \in Client, Untouched(d), Counted(d), Listed(d), Complete(d)
    PROVE  Counted(d)' /\ Listed(d)' /\ Complete(d)'
  BY DEF Untouched, Counted, Listed, Complete, Finished

(* It is enough to look at the one connection that a step is about.        *)
LEMMA OneTouched ==
    ASSUME ConnInv, NEW c \in Client, Counted(c)' /\ Listed(c)' /\ Complete(c)',
           \A d \in Client : d # c => Untouched(d)
    PROVE  ConnInv'
  <1>. SUFFICES ASSUME NEW d \in Client PROVE Counted(d)' /\ Listed(d)' /\ Complete(d)'
    BY DEF ConnInv
  <1>1. CASE d = c
    BY <1>1
  <1>2. CASE d # c
    BY <1>2, UntouchedIsKept DEF ConnInv
  <1>. QED
    BY <1>1, <1>2

LEMMA Ends == /\ \A e \in End : Other(e) \in End /\ Other(e) # e /\ Other(Other(e)) = e
              /\ \A e, f \in End : f = e \/ f = Other(e)
  BY DEF End, Other

(* A connection starts with both its ends to be read.                      *)
LEMMA AcceptKeepsConns ==
    ASSUME TypeInv, ConnInv, NEW c \in Client, Accept(c) PROVE ConnInv'
  <1>1. /\ conn' = [conn EXCEPT ![c] = "open"]
        /\ counter' = [counter EXCEPT ![c] = 2]
        /\ enabled' = [enabled EXCEPT ![c] = Both(TRUE)]
        /\ conn_list' = conn_list \cup {c} /\ sent' = sent /\ moved' = moved
    BY DEF Accept, Sides
  <1>2. PICK s : peer' = [peer EXCEPT ![c]["out"] = s]
    BY DEF Accept
  <1>3. conn'[c] = "open" /\ counter'[c] = 2 /\ c \in conn_list'
    BY <1>1 DEF TypeInv
  <1>4. \A e \in End : enabled'[c][e]
    <2>1. enabled'[c] = Both(TRUE)
      BY <1>1 DEF TypeInv
    <2>. QED
      BY <2>1 DEF Both
  <1>5. Counted(c)' /\ Listed(c)' /\ Complete(c)'
    BY <1>3, <1>4 DEF Counted, Listed, Complete
  <1>6. \A d \in Client : d # c => Untouched(d)
    BY <1>1, <1>2 DEF TypeInv, Untouched
  <1>. QED
    BY <1>5, <1>6, OneTouched

LEMMA EofKeepsConns ==
    ASSUME TypeInv, ConnInv, NEW c \in Client, NEW e \in End, Eof(c, e) PROVE ConnInv'
  <1>. DEFINE o == Other(e)
  <1>0. o \in End /\ o # e /\ Other(o) = e /\ \A f \in End : f = e \/ f = o
    BY Ends
  <1>1. /\ conn[c] = "open" /\ enabled[c][e] /\ Finished(c, e)
        /\ counter' = [counter EXCEPT ![c] = counter[c] - 1]
        /\ enabled' = [enabled EXCEPT ![c][e] = FALSE]
        /\ peer' = peer /\ sent' = sent /\ moved' = moved
    BY DEF Eof, Served, Finished, peers
  <1>2. Counted(c) /\ Listed(c) /\ counter[c] \in Int /\ c \in conn_list
    BY <1>1 DEF ConnInv, TypeInv, Listed
  <1>3. /\ counter'[c] = counter[c] - 1 /\ ~enabled'[c][e]
        /\ enabled'[c][o] = enabled[c][o]
    BY <1>0, <1>1 DEF TypeInv
  <1>4. \A f \in End : Finished(c, f)' <=> Finished(c, f)
    BY <1>1 DEF Finished
  <1>5. CASE enabled[c][o]
    <2>1. counter[c] = 2
      BY <1>0, <1>1, <1>2, <1>5 DEF Counted
    <2>2. conn' = conn /\ conn_list' = conn_list /\ counter'[c] = 1
      BY <1>3, <2>1 DEF Eof, Over
    <2>3. enabled'[c][o] /\ ~enabled'[c][Other(o)]
      BY <1>0, <1>3, <1>5
    <2>4. \A f \in End : enabled'[c][f] \/ Finished(c, f)'
      BY <1>0, <1>1, <1>4, <2>3
    <2>5. Counted(c)' /\ Listed(c)' /\ Complete(c)'
      BY <1>0, <1>1, <1>2, <2>2, <2>3, <2>4 DEF Counted, Listed, Complete
    <2>6. \A d \in Client : d # c => Untouched(d)
      BY <1>1, <2>2 DEF TypeInv, Untouched
    <2>. QED
      BY <2>5, <2>6, OneTouched
  <1>6. CASE ~enabled[c][o]
    <2>1. counter[c] = 1 /\ Finished(c, o)
      BY <1>0, <1>1, <1>2, <1>6 DEF Counted
    <2>2. conn' = [conn EXCEPT ![c] = "freed"] /\ conn_list' = conn_list \ {c}
      BY <2>1 DEF Eof, Over, CloseConnection
    <2>3. conn'[c] = "freed" /\ c \notin conn_list' /\ \A f \in End : Finished(c, f)'
      BY <1>0, <1>1, <1>4, <2>1, <2>2 DEF TypeInv
    <2>4. Counted(c)' /\ Listed(c)' /\ Complete(c)'
      BY <2>3 DEF Counted, Listed, Complete
    <2>5. \A d \in Client : d # c => Untouched(d)
      BY <1>1, <2>2 DEF TypeInv, Untouched
    <2>. QED
      BY <2>4, <2>5, OneTouched
  <1>. QED
    BY <1>5, <1>6

(* After an error nothing is said of what had been sent.                   *)
LEMMA ErrorKeepsConns ==
    ASSUME TypeInv, ConnInv, NEW c \in Client, NEW e \in End, Error(c, e) PROVE ConnInv'
  <1>1. /\ conn' = [conn EXCEPT ![c] = "freed"] /\ conn_list' = conn_list \ {c}
        /\ counter' = counter /\ enabled' = enabled /\ peer' = peer /\ sent' = sent
        /\ moved' = moved /\ peer[c][e] = "reset"
    BY DEF Error, CloseConnection, streams, peers
  <1>2. conn'[c] = "freed" /\ c \notin conn_list' /\ peer'[c][e] = "reset"
    BY <1>1 DEF TypeInv
  <1>3. Counted(c)' /\ Listed(c)' /\ Complete(c)'
    BY <1>2 DEF Counted, Listed, Complete
  <1>4. \A d \in Client : d # c => Untouched(d)
    BY <1>1 DEF TypeInv, Untouched
  <1>. QED
    BY <1>3, <1>4, OneTouched

(* What is read is what was sent: an end that is read no more has nothing. *)
LEMMA ReadKeepsConns ==
    ASSUME TypeInv, ConnInv, NEW c \in Client, NEW e \in End, Read(c, e) PROVE ConnInv'
  <1>1. PICK n : moved' = [moved EXCEPT ![c][e] = n]
    BY DEF Read
  <1>2. /\ conn' = conn /\ conn_list' = conn_list /\ counter' = counter
        /\ enabled' = enabled /\ peer' = peer /\ sent' = sent
        /\ conn[c] = "open" /\ enabled[c][e]
    BY DEF Read, Served, registry, peers
  <1>3. \A f \in End : f # e => moved'[c][f] = moved[c][f]
    BY <1>1 DEF TypeInv
  <1>4. \A f \in End : enabled'[c][f] \/ Finished(c, f)'
    BY <1>2, <1>3 DEF ConnInv, Counted, Finished
  <1>5. Counted(c)' /\ Listed(c)' /\ Complete(c)'
    BY <1>2, <1>4 DEF ConnInv, Counted, Listed, Complete
  <1>6. \A d \in Client : d # c => Untouched(d)
    BY <1>1, <1>2 DEF TypeInv, Untouched
  <1>. QED
    BY <1>5, <1>6, OneTouched

(* What peers do is of no concern to a connection that is freed, and an    *)
(* end whose EOF has come sends no more.                                   *)
LEMMA SendKeepsConns ==
    ASSUME TypeInv, ConnInv, NEW c \in Client, NEW e \in End, Send(c, e) PROVE ConnInv'
  <1>1. /\ sent' = [sent EXCEPT ![c][e] = @ + 1]
        /\ conn' = conn /\ conn_list' = conn_list /\ counter' = counter
        /\ enabled' = enabled /\ peer' = peer /\ moved' = moved
        /\ conn[c] # "freed" /\ peer[c][e] = "open"
    BY DEF Send, Linked, registry, streams
  <1>2. \A f \in End : f # e => sent'[c][f] = sent[c][f]
    BY <1>1 DEF TypeInv
  <1>3. \A f \in End : Finished(c, f) => Finished(c, f)'
    BY <1>1, <1>2 DEF Finished
  <1>4. Counted(c)' /\ Listed(c)' /\ Complete(c)'
    BY <1>1, <1>3 DEF ConnInv, Counted, Listed, Complete
  <1>5. \A d \in Client : d # c => Untouched(d)
    BY <1>1 DEF TypeInv, Untouched
  <1>. QED
    BY <1>4, <1>5, OneTouched

LEMMA HangUpKeepsConns ==
    ASSUME TypeInv, ConnInv, NEW c \in Client, NEW e \in End, HangUp(c, e) PROVE ConnInv'
  <1>1. PICK s \in {"shut", "reset"} : peer' = [peer EXCEPT ![c][e] = s]
    BY DEF HangUp
  <1>2. /\ conn' = conn /\ conn_list' = conn_list /\ counter' = counter
        /\ enabled' = enabled /\ sent' = sent /\ moved' = moved /\ conn[c] # "freed"
    BY DEF HangUp, Linked, registry, streams
  <1>3. \A f \in End : peer'[c][f] = IF f = e THEN s ELSE peer[c][f]
    BY <1>1 DEF TypeInv
  <1>4. \A f \in End : Finished(c, f) => Finished(c, f)'
    BY <1>2, <1>3 DEF Finished
  <1>5. Counted(c)' /\ Listed(c)' /\ Complete(c)'
    BY <1>2, <1>4 DEF ConnInv, Counted, Listed, Complete
  <1>6. \A d \in Client : d # c => Untouched(d)
    BY <1>1, <1>2 DEF TypeInv, Untouched
  <1>. QED
    BY <1>5, <1>6, OneTouched

(* A connection that is not accepted yet, or half made.                    *)
LEMMA UnmadeKeepsConns ==
    ASSUME TypeInv, ConnInv, NEW c \in Client, Connect(c) \/ AcceptFails(c) PROVE ConnInv'
  <1>1. /\ counter' = counter /\ enabled' = enabled /\ peer' = peer /\ sent' = sent
        /\ moved' = moved
    BY DEF Connect, AcceptFails, streams, peers
  <1>2. CASE Connect(c)
    <2>1. /\ conn' = [conn EXCEPT ![c] = "queued"] /\ conn_list' = conn_list
          /\ conn'[c] = "queued" /\ conn[c] = "none"
      BY <1>2 DEF Connect, TypeInv
    <2>2. Counted(c)' /\ Listed(c)' /\ Complete(c)'
      BY <2>1 DEF ConnInv, Counted, Listed, Complete
    <2>3. \A d \in Client : d # c => Untouched(d)
      BY <1>1, <2>1 DEF TypeInv, Untouched
    <2>. QED
      BY <2>2, <2>3, OneTouched
  <1>3. CASE AcceptFails(c)
    <2>1. /\ conn' = [conn EXCEPT ![c] = "stuck"] /\ conn_list' = conn_list \cup {c}
          /\ conn'[c] = "stuck"
      BY <1>3 DEF AcceptFails, TypeInv
    <2>2. Counted(c)' /\ Listed(c)' /\ Complete(c)'
      BY <2>1 DEF Counted, Listed, Complete
    <2>3. \A d \in Client : d # c => Untouched(d)
      BY <1>1, <2>1 DEF TypeInv, Untouched
    <2>. QED
      BY <2>2, <2>3, OneTouched
  <1>. QED
    BY <1>2, <1>3

(* The connections of a listener that stops stay as they are, but for      *)
(* those that were not accepted.                                           *)
LEMMA StopKeepsConns == ASSUME TypeInv, ConnInv, Stop PROVE ConnInv'
  <1>1. /\ conn_list' = conn_list /\ counter' = counter /\ enabled' = enabled
        /\ peer' = peer /\ sent' = sent /\ moved' = moved
        /\ \A c \in Client : conn'[c] = IF conn[c] = "queued" THEN "refused" ELSE conn[c]
    BY DEF Stop, streams, peers
  <1>2. ASSUME NEW c \in Client PROVE Counted(c)' /\ Listed(c)' /\ Complete(c)'
    BY <1>1 DEF ConnInv, Counted, Listed, Complete, Finished
  <1>. QED
    BY <1>2 DEF ConnInv

LEMMA StepConns == TypeInv /\ ConnInv /\ [Next]_vars => ConnInv'
  <1>. SUFFICES ASSUME TypeInv, ConnInv, [Next]_vars PROVE ConnInv'
    OBVIOUS
  <1>1. ASSUME \/ Interrupt \/ UNCHANGED vars
               \/ \E c \in Client, e \in End : Write(c, e)
        PROVE  ConnInv'
    <2>1. /\ conn' = conn /\ conn_list' = conn_list /\ counter' = counter
          /\ enabled' = enabled /\ peer' = peer /\ sent' = sent /\ moved' = moved
      BY <1>1 DEF Interrupt, Write, vars, registry, streams, peers
    <2>. QED
      BY <2>1 DEF ConnInv, Counted, Listed, Complete, Finished
  <1>. QED
    BY <1>1, AcceptKeepsConns, EofKeepsConns, ErrorKeepsConns, ReadKeepsConns,
       SendKeepsConns, HangUpKeepsConns, UnmadeKeepsConns, StopKeepsConns
       DEF Next, Loop, Callback

(* Whatever the peers do and in whatever order their ends come, a          *)
(* connection is only closed after an error or when all that both ends     *)
(* have sent has been read (Connection.cpp:98), and conn_list keeps those  *)
(* that are not closed.                                                    *)
THEOREM NoneIsClosedEarly == Spec => []ClosedAfterBothEnds
  <1>1. Init => TypeInv /\ ConnInv
    BY InitTypes, InitConns
  <1>2. TypeInv /\ ConnInv /\ [Next]_vars => (TypeInv /\ ConnInv)'
    BY StepTypes, StepConns
  <1>3. TypeInv /\ ConnInv => ClosedAfterBothEnds
    <2>1. TypeInv => \A c \in Client, e \in End : peer[c][e] \in {"open", "shut", "reset"}
      BY DEF TypeInv
    <2>. QED
      BY <2>1 DEF ConnInv, Listed, Complete, Finished, ClosedAfterBothEnds
  <1>. QED
    BY <1>1, <1>2, <1>3, PTL DEF Spec

==============================================================================
