-------------------------- MODULE MessageRelayProofs --------------------------
(***************************************************************************)
(* Proofs about the message relay of Emrakul DB v1.0, for every number of  *)
(* clients, workers, commands and masters: what is in the queue, whose     *)
(* answers a client gets, and that no command is carried out twice.        *)
(***************************************************************************)
EXTENDS MessageRelay, FiniteSetTheorems, SequenceTheorems, TLAPS

Answer == [cmd : (Client \X Nat) \cup {Term}, status : Status] \cup {Invalid}

TypeInv ==
    /\ master \in {"off", "up", "reaping", "crashed"} /\ number \in Nat
    /\ queue \in Seq(Message)
    /\ workers \subseteq [id : WorkerId, master : Nat, hand : Message \cup {None}]
    /\ conns \subseteq [id : Nat, client : Client] /\ nextId \in Nat
    /\ peer \in [Client -> {"away", "open", "gone"}]
    /\ sent \in [Client -> Nat] /\ read \in [Client -> Nat]
    /\ out \in [Client -> Seq(Answer)] /\ inbox \in [Client -> Seq(Answer)]

LEMMA RemoveFacts ==
    ASSUME NEW S, NEW s \in Seq(S), NEW i \in 1 .. Len(s)
    PROVE  /\ RemoveAt(s, i) \in Seq(S) /\ Len(RemoveAt(s, i)) = Len(s) - 1
           /\ \A j \in 1 .. Len(s) - 1 :
                 RemoveAt(s, i)[j] = IF j < i THEN s[j] ELSE s[j + 1]
  <1>. DEFINE a == SubSeq(s, 1, i - 1)
              b == SubSeq(s, i + 1, Len(s))
  <1>1. Len(s) \in Nat /\ i \in Nat /\ 1 <= i /\ i <= Len(s)
    OBVIOUS
  <1>2. /\ a \in Seq(S) /\ Len(a) = i - 1 /\ \A j \in 1 .. i - 1 : a[j] = s[j]
        /\ b \in Seq(S) /\ Len(b) = Len(s) - i
        /\ \A j \in 1 .. Len(s) - i : b[j] = s[i + j]
    BY <1>1
  <1>. HIDE DEF a, b
  <1>3. /\ a \o b \in Seq(S) /\ Len(a \o b) = Len(a) + Len(b)
        /\ \A j \in 1 .. Len(a) + Len(b) :
              (a \o b)[j] = IF j <= Len(a) THEN a[j] ELSE b[j - Len(a)]
    BY <1>2, ConcatProperties
  <1>4. RemoveAt(s, i) = a \o b
    BY DEF RemoveAt, a, b
  <1>5. PICK n \in Nat : n = Len(s)
    BY <1>1
  <1>6. /\ Len(a \o b) = n - 1
        /\ \A j \in 1 .. n - 1 : (a \o b)[j] = IF j <= i - 1 THEN a[j] ELSE b[j - (i - 1)]
    BY <1>1, <1>2, <1>3, <1>5
  <1>7. ASSUME NEW j \in 1 .. n - 1
        PROVE  (a \o b)[j] = IF j < i THEN s[j] ELSE s[j + 1]
    <2>1. CASE j < i
      BY <1>1, <1>2, <1>6, <2>1
    <2>2. CASE j >= i
      <3>1. j - (i - 1) \in 1 .. n - i /\ i + (j - (i - 1)) = j + 1 /\ ~(j <= i - 1)
        BY <1>1, <1>5, <2>2
      <3>2. b[j - (i - 1)] = s[i + (j - (i - 1))]
        BY <1>2, <1>5, <3>1
      <3>3. (a \o b)[j] = b[j - (i - 1)]
        BY <1>6, <3>1
      <3>. QED
        BY <1>1, <2>2, <3>1, <3>2, <3>3
    <2>3. j < i \/ j >= i
      BY <1>1
    <2>. QED
      BY <2>1, <2>2, <2>3
  <1>. QED
    BY <1>3, <1>4, <1>5, <1>6, <1>7

(* Where element j of s without its element i was in s.                    *)
Origin(i, j) == IF j < i THEN j ELSE j + 1

LEMMA RemoveOrigins ==
    ASSUME NEW S, NEW s \in Seq(S), NEW i \in 1 .. Len(s), NEW t, t = RemoveAt(s, i)
    PROVE  /\ t \in Seq(S) /\ Len(t) = Len(s) - 1 /\ Len(s) \in Nat /\ s # <<>>
           /\ \A j \in 1 .. Len(t) : /\ Origin(i, j) \in 1 .. Len(s) /\ Origin(i, j) # i
                                     /\ t[j] = s[Origin(i, j)]
           /\ \A j, k \in 1 .. Len(t) : Origin(i, j) = Origin(i, k) => j = k
  <1>1. PICK n \in Nat : n = Len(s)
    OBVIOUS
  <1>2. i \in 1 .. n /\ s # <<>>
    BY <1>1
  <1>3. /\ t \in Seq(S) /\ Len(t) = n - 1
        /\ \A j \in 1 .. n - 1 : t[j] = s[Origin(i, j)]
    BY <1>1, RemoveFacts DEF Origin
  <1>4. \A j \in 1 .. n - 1 : Origin(i, j) \in 1 .. n /\ Origin(i, j) # i
    BY <1>2 DEF Origin
  <1>5. \A j, k \in 1 .. n - 1 : Origin(i, j) = Origin(i, k) => j = k
    BY <1>2 DEF Origin
  <1>. QED
    BY <1>1, <1>2, <1>3, <1>4, <1>5

LEMMA AppendElements ==
    ASSUME NEW S, NEW s \in Seq(S), NEW m, NEW t, t = Append(s, m)
    PROVE  /\ Len(s) \in Nat /\ Len(t) = Len(s) + 1
           /\ \A i \in 1 .. Len(t) : \/ i \in 1 .. Len(s) /\ t[i] = s[i]
                                     \/ i = Len(s) + 1 /\ t[i] = m
  OBVIOUS

(* The same, for what holds of every element.                              *)
LEMMA AppendKeeps ==
    ASSUME NEW S, NEW s \in Seq(S), NEW m, NEW t, t = Append(s, m)
    PROVE  /\ s = <<>> => Len(t) = 1
           /\ \A i \in 1 .. Len(t) : t[i] = m \/ \E j \in 1 .. Len(s) : t[i] = s[j]
  <1>1. \A i \in 1 .. Len(t) : t[i] = m \/ \E j \in 1 .. Len(s) : t[i] = s[j]
    BY AppendElements
  <1>. QED
    BY <1>1

LEMMA RemoveKeeps ==
    ASSUME NEW S, NEW s \in Seq(S), NEW i \in 1 .. Len(s), NEW t, t = RemoveAt(s, i)
    PROVE  /\ t \in Seq(S) /\ Len(t) = Len(s) - 1 /\ Len(s) \in Nat /\ s # <<>>
           /\ \A j \in 1 .. Len(t) : \E l \in 1 .. Len(s) : t[j] = s[l]
  BY RemoveOrigins

LEMMA ConcatElements ==
    ASSUME NEW S, NEW s \in Seq(S), NEW t \in Seq(S)
    PROVE  /\ Len(s) \in Nat /\ Len(t) \in Nat /\ Len(s \o t) = Len(s) + Len(t)
           /\ \A i \in 1 .. Len(s) : i \in 1 .. Len(s \o t) /\ (s \o t)[i] = s[i]
  <1>1. \A n, l \in Nat : \A i \in 1 .. n : i \in 1 .. n + l
    OBVIOUS
  <1>2. Len(s) \in Nat /\ Len(t) \in Nat
    OBVIOUS
  <1>3. Len(s \o t) = Len(s) + Len(t)
    BY ConcatProperties
  <1>4. \A i \in 1 .. Len(s) : i \in 1 .. Len(s \o t)
    BY <1>1, <1>2, <1>3
  <1>5. \A i \in 1 .. Len(s) : (s \o t)[i] = s[i]
    BY <1>3, <1>4, ConcatProperties
  <1>. QED
    BY <1>2, <1>3, <1>4, <1>5

LEMMA TypeInit == Init => TypeInv
  BY DEF Init, TypeInv
LEMMA RespondTypes ==
    ASSUME TypeInv, NEW id, NEW a \in Answer, Respond(id, a)
    PROVE  out' \in [Client -> Seq(Answer)]
  <1>1. \A c \in Client : Append(out[c], a) \in Seq(Answer)
    BY DEF TypeInv
  <1>. QED
    BY <1>1 DEF TypeInv, Respond

LEMMA DropTypes ==
    ASSUME TypeInv, NEW C, Drop(C)
    PROVE  out' \in [Client -> Seq(Answer)]
  BY DEF TypeInv, Drop

LEMMA TypeStep == TypeInv /\ [Next]_vars => TypeInv'
  <1>. SUFFICES ASSUME TypeInv, [Next]_vars PROVE TypeInv'
    OBVIOUS
  <1>. USE DEF TypeInv
  <1>1. ASSUME NEW c \in Client, Connect(c) \/ Send(c) \/ HangUp(c) PROVE TypeInv'
    <2>1. sent[c] + 1 \in Nat
      OBVIOUS
    <2>2. CASE Connect(c)
      BY <2>2 DEF Connect, loop, client
    <2>3. CASE Send(c)
      BY <2>1, <2>3 DEF Send, loop, links
    <2>4. CASE HangUp(c)
      BY <2>4 DEF HangUp, loop, client
    <2>. QED
      BY <1>1, <2>2, <2>3, <2>4
  <1>2. ASSUME NEW c \in Client, Query(c) PROVE TypeInv'
    <2>1. PICK k \in conns :
             /\ k.client = c
             /\ read' = [read EXCEPT ![c] = @ + 1]
             /\ \/ Relay(k, read[c] + 1)
                \/ Respond(k.id, Invalid) /\ UNCHANGED <<queue, waiting>>
      BY <1>2 DEF Query
    <2>2. read[c] + 1 \in Nat /\ k.id \in Nat /\ read' \in [Client -> Nat]
      BY <2>1
    <2>3. CASE Relay(k, read[c] + 1)
      <3>1. PICK t \in 1 .. Count, s \in Status :
               queue' = Append(queue, [type |-> t, conn |-> k.id,
                                       cmd |-> <<k.client, read[c] + 1>>, status |-> s])
        BY <2>3 DEF Relay
      <3>2. t \in 1 .. Count + 1 /\ <<k.client, read[c] + 1>> \in Client \X Nat
        BY <2>1, <2>2, RelayAssumption
      <3>3. [type |-> t, conn |-> k.id, cmd |-> <<k.client, read[c] + 1>>, status |-> s]
              \in Message
        BY <2>2, <3>2 DEF Message
      <3>4. queue' \in Seq(Message)
        BY <3>1, <3>3
      <3>. QED
        BY <1>2, <2>2, <2>3, <3>4 DEF Query, Relay, loop, links, client
    <2>4. CASE Respond(k.id, Invalid) /\ UNCHANGED <<queue, waiting>>
      <3>1. out' \in [Client -> Seq(Answer)]
        BY <2>4, RespondTypes DEF Answer
      <3>. QED
        BY <1>2, <2>2, <2>4, <3>1 DEF Query, loop, links, client
    <2>. QED
      BY <2>1, <2>3, <2>4
  <1>3. ASSUME NEW c \in Client, Flush(c) PROVE TypeInv'
    <2>1. inbox[c] \o out[c] \in Seq(Answer) /\ <<>> \in Seq(Answer)
      OBVIOUS
    <2>. QED
      BY <1>3, <2>1 DEF Flush, loop, links
  <1>4. ASSUME NEW c \in Client, Event(c) PROVE TypeInv'
    <2>1. out' \in [Client -> Seq(Answer)]
      BY <1>4, DropTypes DEF Event
    <2>. QED
      BY <1>4, <2>1 DEF Event, loop, client
  <1>5. CASE StartMaster
    <2>1. number' \in Nat /\ None \in Message \cup {None}
      BY <1>5 DEF StartMaster
    <2>2. Spawn \subseteq [id : WorkerId, master : Nat, hand : Message \cup {None}]
      BY <2>1 DEF Spawn
    <2>. QED
      BY <1>5, <2>1, <2>2 DEF StartMaster, client
  <1>6. CASE Receive
    <2>1. PICK i \in 1 .. Len(queue) : /\ queue' = RemoveAt(queue, i)
                                       /\ ProcessResponse(queue[i])
      BY <1>6 DEF Receive
    <2>2. queue[i] \in Message
      BY <2>1
    <2>3. [cmd |-> queue[i].cmd, status |-> queue[i].status] \in Answer
      BY <2>2 DEF Answer, Message
    <2>4. queue' \in Seq(Message) /\ out' \in [Client -> Seq(Answer)]
      BY <2>1, <2>3, RemoveFacts, RespondTypes DEF ProcessResponse
    <2>. QED
      BY <1>6, <2>4 DEF Receive, loop, links, client
  <1>7. CASE Signal
    BY <1>7 DEF Signal, links, client
  <1>8. CASE HandleSignal
    <2>1. out' \in [Client -> Seq(Answer)]
      BY <1>8, DropTypes DEF HandleSignal
    <2>. QED
      BY <1>8, <2>1 DEF HandleSignal, client
  <1>9. CASE Shutdown
    <2>1. Terms \in Seq(Message)
      <3>1. \A i \in 1 .. Count : i + 1 \in 1 .. Count + 1
        BY RelayAssumption
      <3>2. \A i \in 1 .. Count :
               [type |-> i + 1, conn |-> 0, cmd |-> Term, status |-> 0] \in Message
        BY <3>1, RelayAssumption DEF Message
      <3>3. Terms \in [1 .. Count -> Message]
        BY <3>2 DEF Terms
      <3>. QED
        BY <3>3, RelayAssumption
    <2>2. queue' \in Seq(Message) /\ out' \in [Client -> Seq(Answer)]
      BY <1>9, <2>1, DropTypes, ConcatProperties DEF Shutdown
    <2>. QED
      BY <1>9, <2>2 DEF Shutdown, loop, client
  <1>10. CASE Release
    BY <1>10 DEF Release, loop, links, client
  <1>11. ASSUME NEW w \in workers, Take(w) PROVE TypeInv'
    <2>1. PICK i \in 1 .. Len(queue) :
             /\ queue' = RemoveAt(queue, i)
             /\ \/ workers' = workers \ {w}
                \/ workers' = (workers \ {w}) \cup {[w EXCEPT !.hand = queue[i]]}
      BY <1>11 DEF Take
    <2>2. queue[i] \in Message /\ queue' \in Seq(Message)
      BY <2>1, RemoveFacts
    <2>3. [w EXCEPT !.hand = queue[i]]
            \in [id : WorkerId, master : Nat, hand : Message \cup {None}]
      BY <2>2
    <2>4. workers' \subseteq [id : WorkerId, master : Nat, hand : Message \cup {None}]
      <3>1. PICK v : v = [w EXCEPT !.hand = queue[i]]
        OBVIOUS
      <3>2. workers' \subseteq workers \cup {v}
        BY <2>1, <3>1, Zenon
      <3>. QED
        BY <2>3, <3>1, <3>2
    <2>. QED
      BY <1>11, <2>2, <2>4 DEF Take, loop, links, client
  <1>12. ASSUME NEW w \in workers, Reply(w) PROVE TypeInv'
    <2>1. PICK s \in Status :
             queue' = Append(queue, [w.hand EXCEPT !.type = MasterType, !.status = s])
      BY <1>12 DEF Reply
    <2>2. w.hand \in Message /\ MasterType \in 1 .. Count + 1
      BY <1>12, RelayAssumption DEF Reply, MasterType
    <2>3. [w.hand EXCEPT !.type = MasterType, !.status = s] \in Message
      BY <2>2 DEF Message
    <2>4. queue' \in Seq(Message)
      BY <2>1, <2>3
    <2>5. [w EXCEPT !.hand = None]
            \in [id : WorkerId, master : Nat, hand : Message \cup {None}]
      OBVIOUS
    <2>. QED
      BY <1>12, <2>4, <2>5 DEF Reply, loop, links, client
  <1>13. CASE UNCHANGED vars
    BY <1>13 DEF vars, loop, links, client
  <1>. QED
    BY <1>1, <1>2, <1>3, <1>4, <1>5, <1>6, <1>7, <1>8, <1>9, <1>10, <1>11, <1>12, <1>13
    DEF Next

-----------------------------------------------------------------------------
(* A master that has ended properly leaves no worker and no message.  Only *)
(* a master that is up waits, and none has crashed while "clean".          *)
StopInv ==
    /\ master = "off" => workers = {} /\ queue = <<>>
    /\ waiting => master = "up"
    /\ clean => master # "crashed"

LEMMA StopStep == StopInv /\ [Next]_vars => StopInv'
  <1>. SUFFICES ASSUME StopInv, [Next]_vars PROVE StopInv'
    OBVIOUS
  <1>. USE DEF StopInv
  <1>1. ASSUME NEW c \in Client, Connect(c) \/ Send(c) \/ HangUp(c) PROVE StopInv'
    BY <1>1 DEF Connect, Send, HangUp, loop
  <1>2. ASSUME NEW c \in Client, Query(c) PROVE StopInv'
    BY <1>2 DEF Query, Idle, loop
  <1>3. ASSUME NEW c \in Client, Flush(c) \/ Event(c) PROVE StopInv'
    <2>1. UNCHANGED <<master, waiting, clean, queue, workers>>
      BY <1>3 DEF Flush, Event, loop
    <2>. QED
      BY <2>1
  <1>4. CASE StartMaster
    BY <1>4 DEF StartMaster
  <1>5. CASE Receive
    BY <1>5 DEF Receive, loop
  <1>6. CASE Signal
    BY <1>6 DEF Signal
  <1>7. CASE HandleSignal
    BY <1>7 DEF HandleSignal, Idle
  <1>8. CASE Shutdown
    BY <1>8 DEF Shutdown, Idle, loop
  <1>9. CASE Release
    BY <1>9 DEF Release, loop
  <1>10. ASSUME NEW w \in workers, Take(w) \/ Reply(w) PROVE StopInv'
    <2>1. master # "off" /\ UNCHANGED <<master, waiting, clean>>
      BY <1>10 DEF Take, Reply, loop
    <2>. QED
      BY <2>1
  <1>11. CASE UNCHANGED vars
    BY <1>11 DEF vars, loop
  <1>. QED
    BY <1>1, <1>2, <1>3, <1>4, <1>5, <1>6, <1>7, <1>8, <1>9, <1>10, <1>11 DEF Next

-----------------------------------------------------------------------------
(* One question at a time.                                                 *)

(* The order to end goes into the queue when the master has stopped        *)
(* listening, and a worker never answers it.  A master that was not        *)
(* interrupted has one message under way, in the queue or with a worker.   *)
OneInv ==
    /\ \A w \in Busy : w.hand.cmd # Term
    /\ clean /\ master = "up" => \A i \in 1 .. Len(queue) : queue[i].cmd # Term
    /\ clean /\ master = "up" /\ ~signalled /\ ~closing =>
          \/ ~waiting /\ queue = <<>> /\ Busy = {}
          \/ waiting /\ Len(queue) = 1 /\ Busy = {}
          \/ waiting /\ queue = <<>> /\ \E w : Busy = {w}

LEMMA OneStep == TypeInv /\ StopInv /\ OneInv /\ [Next]_vars => OneInv'
  <1>. SUFFICES ASSUME TypeInv, StopInv, OneInv, [Next]_vars PROVE OneInv'
    OBVIOUS
  <1>0. ASSUME UNCHANGED <<master, clean, waiting, signalled, closing, queue, workers>>
        PROVE  OneInv'
    BY <1>0 DEF OneInv, Busy
  <1>1. ASSUME NEW c \in Client, Connect(c) \/ Send(c) \/ HangUp(c) \/ Flush(c) \/ Event(c)
        PROVE  OneInv'
    BY <1>0, <1>1 DEF Connect, Send, HangUp, Flush, Event, loop
  <1>2. ASSUME NEW c \in Client, Query(c) PROVE OneInv'
    <2>1. PICK k \in conns : \/ Relay(k, read[c] + 1)
                             \/ Respond(k.id, Invalid) /\ UNCHANGED <<queue, waiting>>
      BY <1>2 DEF Query
    <2>2. CASE Relay(k, read[c] + 1)
      <3>1. PICK m : queue' = Append(queue, m) /\ m.cmd = <<k.client, read[c] + 1>>
        BY <2>2 DEF Relay
      <3>2. m.cmd # Term /\ queue \in Seq(Message)
        BY <3>1, RelayAssumption DEF TypeInv
      <3>3. UNCHANGED <<master, clean, signalled, closing, workers>> /\ waiting' = TRUE
        BY <1>2, <2>2 DEF Query, Relay, loop
      <3>4. ~waiting /\ Busy' = Busy
        BY <1>2, <3>3 DEF Query, Idle, Busy
      <3>5. /\ queue = <<>> => Len(queue') = 1
            /\ \A i \in 1 .. Len(queue') :
                  queue'[i] = m \/ \E j \in 1 .. Len(queue) : queue'[i] = queue[j]
        BY <3>1, <3>2, AppendKeeps
      <3>. QED
        BY <3>2, <3>3, <3>4, <3>5 DEF OneInv
    <2>3. CASE UNCHANGED <<queue, waiting>>
      BY <1>0, <1>2, <2>3 DEF Query, loop
    <2>. QED
      BY <2>1, <2>2, <2>3
  <1>3. CASE StartMaster
    <2>1. clean => workers = {} /\ queue = <<>> /\ ~waiting
      BY <1>3 DEF StartMaster, StopInv
    <2>2. \A w \in Busy' : w \in Busy
      BY <1>3 DEF StartMaster, Spawn, Busy
    <2>3. workers = {} => Busy = {}
      BY DEF Busy
    <2>. QED
      BY <1>3, <2>1, <2>2, <2>3 DEF StartMaster, OneInv
  <1>4. CASE Receive
    <2>1. PICK i \in 1 .. Len(queue) : queue' = RemoveAt(queue, i)
      BY <1>4 DEF Receive
    <2>2. /\ queue' \in Seq(Message) /\ Len(queue') = Len(queue) - 1 /\ Len(queue) \in Nat
          /\ \A j \in 1 .. Len(queue') : \E l \in 1 .. Len(queue) : queue'[j] = queue[l]
      BY <2>1, RemoveKeeps DEF TypeInv
    <2>3. Len(queue) = 1 => queue' = <<>>
      BY <2>2
    <2>4. waiting /\ ~waiting' /\ UNCHANGED <<master, clean, signalled, closing>>
          /\ Busy' = Busy
      BY <1>4 DEF Receive, loop, Busy
    <2>5. queue # <<>>
      BY <2>1, <2>2
    <2>. QED
      BY <2>2, <2>3, <2>4, <2>5 DEF OneInv
  <1>5. CASE Signal
    <2>1. Busy' \subseteq Busy
      BY <1>5 DEF Signal, Busy
    <2>. QED
      BY <1>5, <2>1 DEF Signal, OneInv
  <1>6. CASE HandleSignal
    <2>1. Busy' = Busy
      BY <1>6 DEF HandleSignal, Busy
    <2>. QED
      BY <1>6, <2>1 DEF HandleSignal, OneInv
  <1>7. CASE Shutdown
    BY <1>7 DEF Shutdown, OneInv, Busy
  <1>8. CASE Release
    BY <1>8 DEF Release, OneInv, Busy
  <1>9. ASSUME NEW w \in workers, Take(w) PROVE OneInv'
    <2>1. PICK i \in 1 .. Len(queue) :
             /\ queue' = RemoveAt(queue, i)
             /\ \/ queue[i].cmd = Term /\ workers' = workers \ {w}
                \/ /\ queue[i].cmd # Term
                   /\ workers' = (workers \ {w}) \cup {[w EXCEPT !.hand = queue[i]]}
      BY <1>9 DEF Take
    <2>2. /\ queue' \in Seq(Message) /\ Len(queue') = Len(queue) - 1 /\ Len(queue) \in Nat
          /\ \A j \in 1 .. Len(queue') : \E l \in 1 .. Len(queue) : queue'[j] = queue[l]
      <3>1. queue' = RemoveAt(queue, i) /\ queue \in Seq(Message)
        BY <2>1 DEF TypeInv
      <3>. QED
        BY <3>1, RemoveKeeps
    <2>3. w.hand = None /\ UNCHANGED <<master, clean, signalled, closing, waiting>>
      BY <1>9 DEF Take, loop
    <2>4. CASE queue[i].cmd = Term /\ workers' = workers \ {w}
      <3>1. Busy' = Busy
        BY <2>3, <2>4 DEF Busy
      <3>. QED
        BY <2>2, <2>3, <2>4, <3>1 DEF OneInv
    <2>5. CASE /\ queue[i].cmd # Term
               /\ workers' = (workers \ {w}) \cup {[w EXCEPT !.hand = queue[i]]}
      <3>1. PICK v : v = [w EXCEPT !.hand = queue[i]]
        OBVIOUS
      <3>2. v.hand = queue[i] /\ v.hand # None
        <4>1. queue[i] \in Message
          BY <2>1 DEF TypeInv
        <4>. QED
          BY <3>1, <4>1, RelayAssumption DEF TypeInv
      <3>3. Busy' = Busy \cup {v}
        BY <2>3, <2>5, <3>1, <3>2 DEF Busy
      <3>4. Len(queue) = 1 => queue' = <<>>
        BY <2>2
      <3>5. queue # <<>>
        BY <2>1, <2>2
      <3>. QED
        BY <2>2, <2>3, <2>5, <3>2, <3>3, <3>4, <3>5 DEF OneInv
    <2>. QED
      BY <2>1, <2>4, <2>5
  <1>10. ASSUME NEW w \in workers, Reply(w) PROVE OneInv'
    <2>1. PICK m : /\ queue' = Append(queue, m) /\ m.cmd = w.hand.cmd
      <3>1. PICK s \in Status :
               queue' = Append(queue, [w.hand EXCEPT !.type = MasterType, !.status = s])
        BY <1>10 DEF Reply
      <3>2. w.hand \in Message
        BY <1>10 DEF Reply, TypeInv
      <3>3. [w.hand EXCEPT !.type = MasterType, !.status = s].cmd = w.hand.cmd
        BY <3>2 DEF Message
      <3>. QED
        BY <3>1, <3>3
    <2>2. w \in Busy /\ queue \in Seq(Message) /\ m.cmd # Term
      BY <1>10, <2>1 DEF Reply, Busy, OneInv, TypeInv
    <2>3. UNCHANGED <<master, clean, signalled, closing, waiting>>
      BY <1>10 DEF Reply, loop
    <2>4. Busy' = Busy \ {w}
      <3>0. w \in [id : WorkerId, master : Nat, hand : Message \cup {None}]
        BY DEF TypeInv
      <3>1. PICK v : v = [w EXCEPT !.hand = None]
        OBVIOUS
      <3>2. v.hand = None
        BY <3>0, <3>1
      <3>. QED
        BY <1>10, <3>1, <3>2 DEF Reply, Busy
    <2>5. /\ queue = <<>> => Len(queue') = 1
          /\ \A i \in 1 .. Len(queue') :
                queue'[i] = m \/ \E j \in 1 .. Len(queue) : queue'[i] = queue[j]
      BY <2>1, <2>2, AppendKeeps
    <2>. QED
      BY <2>2, <2>3, <2>4, <2>5 DEF OneInv
  <1>11. CASE UNCHANGED vars
    BY <1>0, <1>11 DEF vars, loop
  <1>. QED
    BY <1>1, <1>2, <1>3, <1>4, <1>5, <1>6, <1>7, <1>8, <1>9, <1>10, <1>11 DEF Next

(* A master that was not interrupted asks one question at a time, and the  *)
(* answer that it takes from the queue is the answer to it.                *)
THEOREM OneQuestionAtATime == Spec => []OneInFlight
  <1>1. Init => StopInv /\ OneInv
    BY DEF Init, StopInv, OneInv, Busy
  <1>2. OneInv => OneInFlight
    <2>. SUFFICES ASSUME OneInv, clean, master = "up", ~signalled, ~closing
                  PROVE  Len(queue) + Cardinality(Busy) = IF waiting THEN 1 ELSE 0
      BY DEF OneInFlight, InFlight, Busy
    <2>1. Cardinality({}) = 0 /\ Len(<<>>) = 0
      BY FS_EmptySet
    <2>2. \A w : Cardinality({w}) = 1
      BY FS_Singleton
    <2>3. CASE ~waiting /\ queue = <<>> /\ Busy = {}
      BY <2>1, <2>3
    <2>4. CASE waiting /\ Len(queue) = 1 /\ Busy = {}
      BY <2>1, <2>4
    <2>5. CASE waiting /\ queue = <<>> /\ \E w : Busy = {w}
      <3>1. Cardinality(Busy) = 1 /\ Len(queue) = 0
        BY <2>1, <2>2, <2>5
      <3>. QED
        BY <2>5, <3>1
    <2>. QED
      BY <2>3, <2>4, <2>5 DEF OneInv
  <1>. QED
    BY <1>1, <1>2, TypeInit, TypeStep, StopStep, OneStep, PTL DEF Spec

-----------------------------------------------------------------------------
(* Whose answer a client gets.                                             *)

(* A question or its answer is under way: command x of the connection a.   *)
Asks(x, a) ==
    /\ x # Term
    /\ \/ \E i \in 1 .. Len(queue) : queue[i].cmd = x /\ queue[i].conn = a
       \/ \E w \in Busy : w.hand.cmd = x /\ w.hand.conn = a

(* Numbers of connections are given once.                                  *)
ConnInv ==
    /\ \A k \in conns : k.id < nextId
    /\ \A j, k \in conns : j.id = k.id => j = k

(* What a client has been given are the answers to its first commands.     *)
Honest(c, s) == \A i \in 1 .. Len(s) : s[i] # Invalid => s[i].cmd = <<c, i>>
ClientInv(c) ==
    /\ sent[c] <= Len(inbox[c]) + 1 /\ read[c] <= sent[c]
    /\ Len(Given(c)) <= read[c] /\ Honest(c, Given(c))

(* What is under way for a client is its last command; it has the answers  *)
(* to those before.  No other client has that connection.                  *)
Asked(c, n, a) ==
    /\ n = read[c] /\ out[c] = <<>> /\ Len(inbox[c]) + 1 = read[c]
    /\ a < nextId /\ \A k \in conns : k.id = a => k.client = c

AskInv ==
    clean => /\ Once
             /\ \A c \in Client : ClientInv(c)
             /\ \A c \in Client, n \in Nat, a \in Nat : Asks(<<c, n>>, a) => Asked(c, n, a)

(* How the steps change what is under way.                                 *)
Moves == Once' /\ \A x, a : Asks(x, a)' => Asks(x, a)

LEMMA ShrinkMoves ==
    ASSUME Once, queue' = queue \/ queue' = <<>>, \A w \in Busy' : w \in Busy
    PROVE  Moves
  BY DEF Moves, Once, Asks

LEMMA RelayMoves ==
    ASSUME TypeInv, Once, NEW m, m.cmd # Term, \A a : ~Asks(m.cmd, a),
           queue' = Append(queue, m), workers' = workers
    PROVE  Once' /\ \A x, a : Asks(x, a)' => Asks(x, a) \/ (x = m.cmd /\ a = m.conn)
  <1>1. PICK n \in Nat : n = Len(queue)
    BY DEF TypeInv
  <1>2. /\ Len(queue') = n + 1
        /\ \A i \in 1 .. n + 1 : \/ i \in 1 .. n /\ queue'[i] = queue[i]
                                 \/ i = n + 1 /\ queue'[i] = m
    BY <1>1, AppendElements DEF TypeInv
  <1>3. Busy' = Busy
    BY DEF Busy
  <1>4. /\ \A i \in 1 .. n : queue[i].cmd # m.cmd
        /\ \A w \in Busy : w.hand.cmd # m.cmd
    BY <1>1 DEF Asks
  <1>5. Once'
    BY <1>1, <1>2, <1>3, <1>4 DEF Once
  <1>6. \A x, a : Asks(x, a)' => Asks(x, a) \/ (x = m.cmd /\ a = m.conn)
    BY <1>1, <1>2, <1>3 DEF Asks
  <1>. QED
    BY <1>5, <1>6

LEMMA RemoveMoves ==
    ASSUME TypeInv, Once, NEW i \in 1 .. Len(queue), queue' = RemoveAt(queue, i),
           NEW m, m = queue[i]
    PROVE  \A j \in 1 .. Len(queue') :
              /\ \E l \in 1 .. Len(queue) : queue'[j] = queue[l]
              /\ m.cmd # Term => queue'[j].cmd # m.cmd
              /\ \A k \in 1 .. Len(queue') :
                    queue'[j].cmd = queue'[k].cmd /\ queue'[j].cmd # Term => j = k
  <1>1. PICK n \in Nat : n = Len(queue')
    BY RemoveOrigins DEF TypeInv
  <1>2. PICK o : o = [j \in 1 .. n |-> Origin(i, j)]
    OBVIOUS
  <1>3. /\ \A j \in 1 .. n : o[j] \in 1 .. Len(queue) /\ o[j] # i /\ queue'[j] = queue[o[j]]
        /\ \A j, k \in 1 .. n : o[j] = o[k] => j = k
    BY <1>1, <1>2, RemoveOrigins DEF TypeInv
  <1>4. \A j, k \in 1 .. n : queue'[j].cmd = queue'[k].cmd /\ queue'[j].cmd # Term => j = k
    BY <1>3 DEF Once
  <1>5. m.cmd # Term => \A j \in 1 .. n : queue'[j].cmd # m.cmd
    BY <1>3 DEF Once
  <1>6. \A j \in 1 .. n : \E l \in 1 .. Len(queue) : queue'[j] = queue[l]
    BY <1>3
  <1>. QED
    BY <1>1, <1>4, <1>5, <1>6

LEMMA ReceiveMoves ==
    ASSUME TypeInv, Once, NEW i \in 1 .. Len(queue), queue' = RemoveAt(queue, i),
           NEW m, m = queue[i], Busy' = Busy
    PROVE  Moves /\ \A a : ~Asks(m.cmd, a)'
  <1>1. Once'
    BY RemoveMoves DEF Once
  <1>2. \A x, a : Asks(x, a)' => Asks(x, a)
    <2>1. \A j \in 1 .. Len(queue') : \E l \in 1 .. Len(queue) : queue'[j] = queue[l]
      BY RemoveMoves
    <2>. QED
      BY <2>1 DEF Asks
  <1>3. \A a : ~Asks(m.cmd, a)'
    <2>1. \A w \in Busy' : w.hand.cmd # m.cmd
      BY DEF Once
    <2>. QED
      BY <2>1, RemoveMoves DEF Asks
  <1>. QED
    BY <1>1, <1>2, <1>3 DEF Moves

LEMMA TakeMoves ==
    ASSUME TypeInv, Once, NEW i \in 1 .. Len(queue), queue' = RemoveAt(queue, i),
           NEW m, m = queue[i], m.cmd # Term, NEW v, v.hand = m, Busy' = Busy \cup {v}
    PROVE  Moves
  <1>1. \A w : w \in Busy' => w \in Busy \/ w = v
    OBVIOUS
  <1>2. \A w \in Busy : w.hand.cmd # m.cmd
    BY DEF Once
  <1>3. Once'
    BY <1>1, <1>2, RemoveMoves DEF Once
  <1>4. \A x, a : Asks(x, a)' => Asks(x, a)
    BY <1>1, RemoveMoves DEF Asks
  <1>. QED
    BY <1>3, <1>4 DEF Moves

LEMMA ReplyMoves ==
    ASSUME TypeInv, Once, NEW w \in Busy, NEW m, m.cmd = w.hand.cmd, m.conn = w.hand.conn,
           queue' = Append(queue, m), Busy' = Busy \ {w}
    PROVE  Moves
  <1>1. PICK n \in Nat : n = Len(queue)
    BY DEF TypeInv
  <1>2. /\ Len(queue') = n + 1
        /\ \A i \in 1 .. n + 1 : \/ i \in 1 .. n /\ queue'[i] = queue[i]
                                 \/ i = n + 1 /\ queue'[i] = m
    BY <1>1, AppendElements DEF TypeInv
  <1>3. \A v : v \in Busy' => v \in Busy /\ v # w
    OBVIOUS
  <1>4. Once'
    BY <1>1, <1>2, <1>3 DEF Once
  <1>5. \A x, a : Asks(x, a)' => Asks(x, a)
    BY <1>1, <1>2, <1>3 DEF Asks
  <1>. QED
    BY <1>4, <1>5 DEF Moves

LEMMA ShutdownMoves ==
    ASSUME TypeInv, OneInv, Once, queue' = queue \o Terms, Busy' = Busy
    PROVE  Moves
  <1>1. PICK n \in Nat : n = Len(queue)
    BY DEF TypeInv
  <1>2. Terms \in Seq([type : Nat, conn : Nat, cmd : {Term}, status : Nat])
    BY RelayAssumption DEF Terms
  <1>3. Len(Terms) = Count /\ \A i \in 1 .. Count : Terms[i].cmd = Term
    BY <1>2, RelayAssumption DEF Terms
  <1>4. /\ Len(queue') = n + Count
        /\ \A i \in 1 .. n + Count : queue'[i] = IF i <= n THEN queue[i] ELSE Terms[i - n]
    BY <1>1, <1>2, <1>3, ConcatProperties DEF TypeInv
  <1>5. \A i \in 1 .. n + Count : i <= n \/ i - n \in 1 .. Count
    BY RelayAssumption
  <1>6. \A i \in 1 .. n + Count : \/ i \in 1 .. n /\ queue'[i] = queue[i]
                                  \/ queue'[i].cmd = Term
    BY <1>3, <1>4, <1>5, RelayAssumption
  <1>7. \A w \in Busy : w.hand.cmd # Term
    BY DEF OneInv
  <1>8. Once'
    BY <1>1, <1>4, <1>6, <1>7 DEF Once
  <1>9. \A x, a : Asks(x, a)' => Asks(x, a)
    BY <1>1, <1>4, <1>6 DEF Asks
  <1>. QED
    BY <1>8, <1>9 DEF Moves

(* How the steps change what a client is given.                            *)
LEMMA ClientDrops ==
    ASSUME TypeInv, NEW c \in Client, ClientInv(c),
           sent'[c] = sent[c], read'[c] = read[c], inbox'[c] = inbox[c], out'[c] = <<>>
    PROVE  ClientInv(c)'
  <1>1. inbox[c] \in Seq(Answer) /\ out[c] \in Seq(Answer)
    BY DEF TypeInv
  <1>2. /\ Len(inbox[c]) \in Nat /\ Len(out[c]) \in Nat
        /\ Len(Given(c)) = Len(inbox[c]) + Len(out[c])
        /\ \A i \in 1 .. Len(inbox[c]) : /\ i \in 1 .. Len(Given(c))
                                         /\ Given(c)[i] = inbox[c][i]
    BY <1>1, ConcatElements DEF Given
  <1>3. Given(c)' = inbox[c]
    BY <1>1 DEF Given
  <1>4. Len(inbox[c]) <= read[c]
    <2>1. \A n, l \in Nat, r \in Nat : n + l <= r => n <= r
      OBVIOUS
    <2>. QED
      BY <1>2, <2>1 DEF ClientInv, TypeInv
  <1>5. Honest(c, inbox[c])
    BY <1>2 DEF ClientInv, Honest
  <1>. QED
    BY <1>3, <1>4, <1>5 DEF ClientInv, Honest

LEMMA ClientReady ==
    ASSUME TypeInv, NEW c \in Client, ClientInv(c), read[c] < sent[c]
    PROVE  out[c] = <<>> /\ Len(inbox[c]) = read[c] /\ sent[c] = read[c] + 1
  <1>1. inbox[c] \in Seq(Answer) /\ out[c] \in Seq(Answer)
    BY DEF TypeInv
  <1>2. PICK n \in Nat, l \in Nat : n = Len(inbox[c]) /\ l = Len(out[c])
    BY <1>1
  <1>3. Len(Given(c)) = n + l
    BY <1>1, <1>2 DEF Given
  <1>4. n = read[c] /\ l = 0 /\ sent[c] = read[c] + 1
    BY <1>2, <1>3 DEF ClientInv, TypeInv
  <1>5. out[c] = <<>>
    BY <1>1, <1>2, <1>4, EmptySeq
  <1>. QED
    BY <1>2, <1>4, <1>5

LEMMA ClientAnswered ==
    ASSUME TypeInv, NEW c \in Client, ClientInv(c), out[c] = <<>>,
           sent'[c] = sent[c], inbox'[c] = inbox[c],
           read'[c] = Len(inbox[c]) + 1, read'[c] <= sent[c],
           NEW a, out'[c] = Append(out[c], a), a # Invalid => a.cmd = <<c, read'[c]>>
    PROVE  ClientInv(c)'
  <1>1. inbox[c] \in Seq(Answer)
    BY DEF TypeInv
  <1>2. PICK n \in Nat : n = Len(inbox[c])
    BY <1>1
  <1>3. Given(c) = inbox[c]
    BY <1>1 DEF Given
  <1>4. /\ Len(Given(c)') = n + 1
        /\ \A i \in 1 .. n + 1 : \/ i \in 1 .. n /\ Given(c)'[i] = inbox[c][i]
                                 \/ i = n + 1 /\ Given(c)'[i] = a
    <2>1. Given(c)' = Append(inbox[c], a)
      <3>1. Append(<<>>, a) = <<a>> /\ inbox[c] \o <<a>> = Append(inbox[c], a)
        BY <1>1
      <3>. QED
        BY <3>1 DEF Given
    <2>. QED
      BY <1>1, <1>2, <2>1, AppendElements
  <1>5. \A i \in 1 .. n : inbox[c][i] # Invalid => inbox[c][i].cmd = <<c, i>>
    BY <1>2, <1>3 DEF ClientInv, Honest
  <1>6. Honest(c, Given(c)')
    BY <1>2, <1>4, <1>5 DEF Honest
  <1>7. Len(Given(c)') <= read'[c] /\ sent'[c] <= Len(inbox'[c]) + 1 /\ read'[c] <= sent'[c]
    BY <1>2, <1>4 DEF ClientInv
  <1>. QED
    BY <1>6, <1>7 DEF ClientInv, Honest

LEMMA ConnStep == TypeInv /\ ConnInv /\ [Next]_vars => ConnInv'
  <1>. SUFFICES ASSUME TypeInv, ConnInv, [Next]_vars PROVE ConnInv'
    OBVIOUS
  <1>1. CASE \E c \in Client : Connect(c)
    <2>1. /\ nextId' = nextId + 1 /\ nextId \in Nat
          /\ \A k \in conns' : k \in conns \/ k.id = nextId
          /\ \A j, k \in conns' \ conns : j = k
      BY <1>1 DEF Connect, TypeInv
    <2>2. \A k \in conns : k.id \in Nat /\ k.id < nextId
      BY DEF ConnInv, TypeInv
    <2>. QED
      BY <2>1, <2>2 DEF ConnInv
  <1>2. CASE conns' \subseteq conns /\ UNCHANGED nextId
    BY <1>2 DEF ConnInv
  <1>3. CASE conns' = {}
    BY <1>3 DEF ConnInv
  <1>4. ASSUME NEW c \in Client, Send(c) \/ HangUp(c) \/ Query(c) \/ Flush(c) \/ Event(c)
        PROVE  conns' \subseteq conns /\ UNCHANGED nextId
    BY <1>4 DEF Send, HangUp, Query, Flush, Event, links
  <1>5. ASSUME NEW w \in workers, Take(w) \/ Reply(w) PROVE UNCHANGED <<conns, nextId>>
    BY <1>5 DEF Take, Reply, links
  <1>6. CASE Receive \/ Signal \/ Release \/ UNCHANGED vars
    BY <1>2, <1>6 DEF Receive, Signal, Release, vars, links
  <1>7. CASE StartMaster \/ HandleSignal \/ Shutdown
    BY <1>3, <1>7 DEF StartMaster, HandleSignal, Shutdown
  <1>. QED
    BY <1>1, <1>2, <1>4, <1>5, <1>6, <1>7 DEF Next

LEMMA ClientSame ==
    ASSUME TypeInv, TypeInv', NEW c \in Client, ClientInv(c),
           sent'[c] = sent[c], inbox'[c] = inbox[c], out'[c] = out[c],
           read[c] <= read'[c], read'[c] <= sent[c]
    PROVE  ClientInv(c)'
  <1>1. Given(c)' = Given(c)
    BY DEF Given
  <1>2. Len(Given(c)) <= read[c] => Len(Given(c)) <= read'[c]
    <2>1. Len(Given(c)) \in Nat /\ read[c] \in Nat /\ read'[c] \in Nat
      BY DEF TypeInv, Given
    <2>. QED
      BY <2>1
  <1>. QED
    BY <1>1, <1>2 DEF ClientInv, Honest

LEMMA AsksTypes == TypeInv => \A x, a : Asks(x, a) => x \in Client \X Nat /\ a \in Nat
  <1>. SUFFICES ASSUME TypeInv, NEW x, NEW a, Asks(x, a) PROVE x \in Client \X Nat /\ a \in Nat
    OBVIOUS
  <1>1. PICK m : m \in Message /\ m.cmd = x /\ m.conn = a
    <2>1. CASE \E i \in 1 .. Len(queue) : queue[i].cmd = x /\ queue[i].conn = a
      BY <2>1 DEF TypeInv
    <2>2. CASE \E w \in Busy : w.hand.cmd = x /\ w.hand.conn = a
      BY <2>2 DEF TypeInv, Busy
    <2>. QED
      BY <2>1, <2>2 DEF Asks
  <1>. QED
    BY <1>1 DEF Asks, Message

(* An answer goes to the client of the connection.                         *)
LEMMA RespondOwner ==
    ASSUME TypeInv, NEW id, NEW c \in Client, \A k \in conns : k.id = id => k.client = c,
           NEW a, Respond(id, a)
    PROVE  /\ \A d \in Client : d # c => out'[d] = out[d]
           /\ out'[c] = out[c] \/ out'[c] = Append(out[c], a)
  BY DEF Respond

(* A client that has a question under way keeps it.                        *)
LEMMA KeepsAsked ==
    ASSUME TypeInv, TypeInv', NEW c \in Client, NEW n \in Nat, NEW a \in Nat, Asked(c, n, a),
           read'[c] = read[c], out'[c] = <<>>, inbox'[c] = inbox[c],
           nextId <= nextId', \A k \in conns' : k \in conns \/ k.id = nextId
    PROVE  Asked(c, n, a)'
  <1>1. a < nextId' /\ a # nextId
    BY DEF Asked, TypeInv
  <1>. QED
    BY <1>1 DEF Asked

LEMMA QuietStep ==
    ASSUME TypeInv, TypeInv', AskInv, clean, Moves, \A c \in Client : ClientInv(c)',
           read' = read,
           \A c \in Client : out[c] = <<>> => out'[c] = <<>> /\ inbox'[c] = inbox[c],
           nextId <= nextId', \A k \in conns' : k \in conns \/ k.id = nextId
    PROVE  AskInv'
  <1>1. ASSUME NEW c \in Client, NEW n \in Nat, NEW a \in Nat, Asks(<<c, n>>, a)'
        PROVE  Asked(c, n, a)'
    <2>1. Asked(c, n, a)
      BY <1>1 DEF Moves, AskInv
    <2>2. read'[c] = read[c] /\ out'[c] = <<>> /\ inbox'[c] = inbox[c]
      BY <2>1 DEF Asked
    <2>. QED
      BY <2>1, <2>2, KeepsAsked
  <1>. QED
    BY <1>1 DEF Moves, AskInv

LEMMA QueryStep ==
    ASSUME TypeInv, TypeInv', ConnInv, AskInv, clean, NEW c \in Client, Query(c)
    PROVE  AskInv'
  <1>1. PICK k \in conns :
           /\ k.client = c /\ read[c] < sent[c]
           /\ read' = [read EXCEPT ![c] = @ + 1]
           /\ \/ Relay(k, read[c] + 1)
              \/ Respond(k.id, Invalid) /\ UNCHANGED <<queue, waiting>>
    BY DEF Query
  <1>2. UNCHANGED <<workers, conns, nextId, sent, inbox, clean>>
    BY DEF Query, loop, links, client
  <1>3. /\ out[c] = <<>> /\ Len(inbox[c]) = read[c] /\ sent[c] = read[c] + 1
    BY <1>1, ClientReady DEF AskInv
  <1>4. /\ read'[c] = read[c] + 1 /\ read[c] \in Nat
        /\ \A d \in Client : d # c => read'[d] = read[d]
    BY <1>1 DEF TypeInv
  <1>5. \A n, a : ~Asks(<<c, n>>, a)
    BY <1>3, <1>4, AsksTypes DEF AskInv, Asked
  <1>6. \A d \in conns : d.id = k.id => d.client = c
    BY <1>1 DEF ConnInv
  <1>7. ASSUME \A d \in Client : d # c => out'[d] = out[d],
               NEW d \in Client, d # c
        PROVE  /\ ClientInv(d)'
               /\ \A n \in Nat, a \in Nat : Asks(<<d, n>>, a) => Asked(d, n, a)'
    <2>1. read'[d] = read[d] /\ out'[d] = out[d] /\ inbox'[d] = inbox[d] /\ sent'[d] = sent[d]
      BY <1>2, <1>4, <1>7
    <2>2. ClientInv(d) /\ read[d] <= read[d] /\ read[d] <= sent[d]
      BY DEF AskInv, ClientInv, TypeInv
    <2>3. nextId <= nextId' /\ conns' = conns
      BY <1>2 DEF TypeInv
    <2>4. \A n \in Nat, a \in Nat : Asks(<<d, n>>, a) => Asked(d, n, a)
      BY DEF AskInv
    <2>5. ClientInv(d)'
      BY <2>1, <2>2, ClientSame
    <2>. QED
      BY <2>1, <2>3, <2>4, <2>5, KeepsAsked DEF Asked
  <1>8. CASE Relay(k, read[c] + 1)
    <2>1. PICK m : /\ queue' = Append(queue, m) /\ out' = out
                   /\ m.cmd = <<c, read'[c]>> /\ m.conn = k.id
      BY <1>1, <1>4, <1>8 DEF Relay
    <2>2. m.cmd # Term /\ \A a : ~Asks(m.cmd, a)
      BY <1>4, <1>5, <2>1, RelayAssumption
    <2>3. Once' /\ \A x, a : Asks(x, a)' => Asks(x, a) \/ (x = m.cmd /\ a = m.conn)
      BY <1>2, <2>1, <2>2, RelayMoves DEF AskInv
    <2>4. ClientInv(c)'
      <3>1. read[c] <= read'[c] /\ read'[c] <= sent[c] /\ ClientInv(c)
        BY <1>3, <1>4 DEF AskInv
      <3>. QED
        BY <1>2, <2>1, <3>1, ClientSame
    <2>5. \A n \in Nat, a \in Nat : Asks(<<c, n>>, a)' => Asked(c, n, a)'
      <3>1. k.id < nextId'
        BY <1>2 DEF ConnInv
      <3>2. \A n, a : Asks(<<c, n>>, a)' => n = read'[c] /\ a = k.id
        BY <1>5, <2>1, <2>3
      <3>3. \A d \in conns' : d.id = k.id => d.client = c
        BY <1>2, <1>6
      <3>. QED
        BY <1>2, <1>3, <1>4, <2>1, <3>1, <3>2, <3>3 DEF Asked
    <2>6. ASSUME NEW d \in Client, d # c, NEW n \in Nat, NEW a \in Nat, Asks(<<d, n>>, a)'
          PROVE  Asked(d, n, a)'
      <3>1. Asks(<<d, n>>, a)
        BY <2>1, <2>3, <2>6
      <3>. QED
        BY <1>7, <2>1, <2>6, <3>1
    <2>. QED
      BY <1>7, <2>1, <2>3, <2>4, <2>5, <2>6 DEF AskInv
  <1>9. CASE Respond(k.id, Invalid) /\ UNCHANGED <<queue, waiting>>
    <2>1. /\ \A d \in Client : d # c => out'[d] = out[d]
          /\ out'[c] = out[c] \/ out'[c] = Append(out[c], Invalid)
      BY <1>6, <1>9, RespondOwner
    <2>2. Moves
      BY <1>2, <1>9, ShrinkMoves DEF AskInv, Busy
    <2>3. ClientInv(c)'
      <3>1. /\ read[c] <= read'[c] /\ read'[c] <= sent[c] /\ ClientInv(c)
            /\ read'[c] = Len(inbox[c]) + 1
        BY <1>3, <1>4 DEF AskInv
      <3>2. inbox'[c] = inbox[c] /\ sent'[c] = sent[c]
        BY <1>2
      <3>3. CASE out'[c] = out[c]
        BY <3>1, <3>2, <3>3, ClientSame
      <3>4. CASE out'[c] = Append(out[c], Invalid)
        BY <1>3, <3>1, <3>2, <3>4, ClientAnswered
      <3>. QED
        BY <2>1, <3>3, <3>4
    <2>4. ASSUME NEW d \in Client, NEW n \in Nat, NEW a \in Nat, Asks(<<d, n>>, a)'
          PROVE  Asked(d, n, a)'
      BY <1>5, <1>7, <2>1, <2>2, <2>4 DEF Moves
    <2>. QED
      BY <1>7, <2>1, <2>2, <2>3, <2>4 DEF AskInv, Moves
  <1>. QED
    BY <1>1, <1>8, <1>9

LEMMA ReceiveStep ==
    ASSUME TypeInv, TypeInv', OneInv, AskInv, clean, Receive
    PROVE  AskInv'
  <1>1. PICK i \in 1 .. Len(queue) : queue' = RemoveAt(queue, i) /\ ProcessResponse(queue[i])
    BY DEF Receive
  <1>2. PICK m : m = queue[i] /\ m \in Message
    BY <1>1 DEF TypeInv
  <1>3. master = "up" /\ UNCHANGED <<workers, conns, nextId, sent, read, inbox, clean>>
    BY DEF Receive, loop, links, client
  <1>4. m.cmd # Term /\ m.cmd \in Client \X Nat /\ m.conn \in Nat
    BY <1>2, <1>3 DEF OneInv, Message
  <1>5. PICK c \in Client, n \in Nat : m.cmd = <<c, n>>
    BY <1>4
  <1>6. Asked(c, n, m.conn)
    <2>1. Asks(<<c, n>>, m.conn)
      BY <1>2, <1>4, <1>5 DEF Asks
    <2>. QED
      BY <1>4, <2>1 DEF AskInv
  <1>7. Moves /\ \A a : ~Asks(m.cmd, a)'
    BY <1>1, <1>2, <1>3, ReceiveMoves DEF AskInv, Busy
  <1>8. PICK r : r = [cmd |-> m.cmd, status |-> m.status]
    OBVIOUS
  <1>9. /\ \A d \in Client : d # c => out'[d] = out[d]
        /\ out'[c] = out[c] \/ out'[c] = Append(out[c], r)
    BY <1>1, <1>2, <1>6, <1>8, RespondOwner DEF ProcessResponse, Asked
  <1>10. \A d \in Client : ClientInv(d) /\ read[d] <= read[d] /\ read[d] <= sent[d]
    BY DEF AskInv, ClientInv, TypeInv
  <1>11. \A d \in Client : out'[d] = out[d] => ClientInv(d)'
    BY <1>3, <1>10, ClientSame
  <1>12. ClientInv(c)'
    <2>1. CASE out'[c] = Append(out[c], r)
      <3>1. /\ out[c] = <<>> /\ read'[c] = n /\ read'[c] <= sent[c]
            /\ read'[c] = Len(inbox[c]) + 1 /\ r.cmd = <<c, n>>
        BY <1>3, <1>5, <1>6, <1>8, <1>10 DEF Asked
      <3>. QED
        BY <1>3, <1>10, <2>1, <3>1, ClientAnswered
    <2>. QED
      BY <1>9, <1>11, <2>1
  <1>13. ASSUME NEW d \in Client, NEW e \in Nat, NEW a \in Nat, Asks(<<d, e>>, a)'
         PROVE  Asked(d, e, a)'
    <2>1. Asked(d, e, a)
      BY <1>7, <1>13 DEF Moves, AskInv
    <2>2. d # c
      BY <1>5, <1>6, <1>7, <1>13, <2>1 DEF Asked
    <2>. QED
      BY <1>3, <1>9, <2>1, <2>2 DEF Asked
  <1>. QED
    BY <1>7, <1>9, <1>11, <1>12, <1>13 DEF AskInv, Moves

(* The workers take the message that they answer.                          *)
LEMMA WorkerMoves ==
    ASSUME TypeInv, OneInv, Once, NEW w \in workers, Take(w) \/ Reply(w)
    PROVE  Moves
  <1>1. CASE Take(w)
    <2>1. PICK i \in 1 .. Len(queue) :
             /\ queue' = RemoveAt(queue, i)
             /\ \/ queue[i].cmd = Term /\ workers' = workers \ {w}
                \/ /\ queue[i].cmd # Term
                   /\ workers' = (workers \ {w}) \cup {[w EXCEPT !.hand = queue[i]]}
      BY <1>1 DEF Take
    <2>2. PICK m : m = queue[i] /\ m \in Message
      BY <2>1 DEF TypeInv
    <2>3. w.hand = None
      BY <1>1 DEF Take
    <2>4. CASE workers' = workers \ {w}
      <3>1. Busy' = Busy
        BY <2>3, <2>4 DEF Busy
      <3>. QED
        BY <2>1, <2>2, <3>1, ReceiveMoves
    <2>5. CASE /\ queue[i].cmd # Term
               /\ workers' = (workers \ {w}) \cup {[w EXCEPT !.hand = queue[i]]}
      <3>1. PICK v : v = [w EXCEPT !.hand = m]
        OBVIOUS
      <3>2. v.hand = m /\ v.hand # None
        BY <2>2, <3>1, RelayAssumption DEF TypeInv
      <3>3. Busy' = Busy \cup {v}
        BY <2>2, <2>3, <2>5, <3>1, <3>2 DEF Busy
      <3>. QED
        BY <2>1, <2>2, <2>5, <3>2, <3>3, TakeMoves
    <2>. QED
      BY <2>1, <2>4, <2>5
  <1>2. CASE Reply(w)
    <2>1. PICK m : /\ queue' = Append(queue, m)
                   /\ m.cmd = w.hand.cmd /\ m.conn = w.hand.conn
      <3>1. PICK s \in Status :
               queue' = Append(queue, [w.hand EXCEPT !.type = MasterType, !.status = s])
        BY <1>2 DEF Reply
      <3>2. PICK m : m = [w.hand EXCEPT !.type = MasterType, !.status = s]
        OBVIOUS
      <3>3. w.hand \in Message
        BY <1>2 DEF Reply, TypeInv
      <3>4. m.cmd = w.hand.cmd /\ m.conn = w.hand.conn
        BY <3>2, <3>3 DEF Message
      <3>. QED
        BY <3>1, <3>2, <3>4
    <2>2. w \in Busy
      BY <1>2 DEF Reply, Busy
    <2>3. Busy' = Busy \ {w}
      <3>1. PICK v : v = [w EXCEPT !.hand = None]
        OBVIOUS
      <3>2. v.hand = None
        BY <3>1 DEF TypeInv
      <3>. QED
        BY <1>2, <3>1, <3>2 DEF Reply, Busy
    <2>. QED
      BY <2>1, <2>2, <2>3, ReplyMoves
  <1>. QED
    BY <1>1, <1>2

LEMMA DropStep ==
    ASSUME TypeInv, TypeInv', AskInv, clean, Moves, UNCHANGED <<sent, read, inbox>>,
           \A d \in Client : out'[d] = out[d] \/ out'[d] = <<>>,
           nextId <= nextId', \A k \in conns' : k \in conns \/ k.id = nextId
    PROVE  AskInv'
  <1>1. ASSUME NEW d \in Client PROVE ClientInv(d)'
    <2>1. ClientInv(d) /\ read[d] <= read[d] /\ read[d] <= sent[d]
      BY DEF AskInv, ClientInv, TypeInv
    <2>2. sent'[d] = sent[d] /\ read'[d] = read[d] /\ inbox'[d] = inbox[d]
      OBVIOUS
    <2>. QED
      BY <2>1, <2>2, ClientSame, ClientDrops
  <1>2. \A d \in Client : out[d] = <<>> => out'[d] = <<>> /\ inbox'[d] = inbox[d]
    OBVIOUS
  <1>. QED
    BY <1>1, <1>2, QuietStep

LEMMA FlushStep ==
    ASSUME TypeInv, TypeInv', AskInv, clean, NEW c \in Client, Flush(c)
    PROVE  AskInv'
  <1>1. UNCHANGED <<queue, workers, conns, nextId, sent, read>>
    BY DEF Flush, loop, links
  <1>2. Moves /\ nextId <= nextId'
    BY <1>1, ShrinkMoves DEF AskInv, Busy, TypeInv
  <1>3. /\ out[c] # <<>> /\ out'[c] = <<>>
        /\ inbox'[c] = inbox[c] \/ inbox'[c] = inbox[c] \o out[c]
        /\ \A d \in Client : d # c => out'[d] = out[d] /\ inbox'[d] = inbox[d]
    BY DEF Flush, TypeInv
  <1>4. \A d \in Client : ClientInv(d) /\ read[d] <= read[d] /\ read[d] <= sent[d]
    BY DEF AskInv, ClientInv, TypeInv
  <1>5. \A d \in Client : d # c => ClientInv(d)'
    BY <1>1, <1>3, <1>4, ClientSame
  <1>6. ClientInv(c)'
    <2>1. CASE inbox'[c] = inbox[c]
      BY <1>1, <1>3, <1>4, <2>1, ClientDrops
    <2>2. CASE inbox'[c] = inbox[c] \o out[c]
      <3>1. inbox[c] \in Seq(Answer) /\ out[c] \in Seq(Answer) /\ inbox'[c] \in Seq(Answer)
        BY DEF TypeInv
      <3>2. Given(c)' = Given(c)
        BY <1>3, <2>2, <3>1 DEF Given
      <3>3. Len(inbox[c]) \in Nat /\ Len(out[c]) \in Nat
            /\ Len(inbox'[c]) = Len(inbox[c]) + Len(out[c])
        BY <2>2, <3>1, ConcatElements
      <3>4. sent[c] <= Len(inbox'[c]) + 1
        <4>1. \A n, l, s \in Nat : s <= n + 1 => s <= n + l + 1
          OBVIOUS
        <4>. QED
          BY <1>4, <3>3, <4>1 DEF ClientInv, TypeInv
      <3>. QED
        BY <1>1, <1>4, <3>2, <3>4 DEF ClientInv, Honest
    <2>. QED
      BY <1>3, <2>1, <2>2
  <1>7. \A d \in Client : out[d] = <<>> => out'[d] = <<>> /\ inbox'[d] = inbox[d]
    BY <1>3
  <1>8. read' = read /\ \A k \in conns' : k \in conns \/ k.id = nextId
    BY <1>1
  <1>. QED
    BY <1>2, <1>5, <1>6, <1>7, <1>8, QuietStep

LEMMA AskStep ==
    TypeInv /\ StopInv /\ OneInv /\ ConnInv /\ AskInv /\ [Next]_vars => AskInv'
  <1>. SUFFICES ASSUME TypeInv, StopInv, OneInv, ConnInv, AskInv, [Next]_vars, clean'
                PROVE  AskInv'
    BY DEF AskInv
  <1>1. TypeInv'
    BY TypeStep
  <1>2. clean
    <2>1. ASSUME NEW c \in Client,
                 Connect(c) \/ Send(c) \/ HangUp(c) \/ Query(c) \/ Flush(c) \/ Event(c)
          PROVE  clean
      BY <2>1 DEF Connect, Send, HangUp, Query, Flush, Event, loop
    <2>2. ASSUME NEW w \in workers, Take(w) \/ Reply(w) PROVE clean
      BY <2>2 DEF Take, Reply, loop
    <2>. QED
      BY <2>1, <2>2
      DEF Next, StartMaster, Receive, Signal, HandleSignal, Shutdown, Release, vars, loop
  <1>3. nextId \in Nat /\ nextId <= nextId /\ nextId <= nextId + 1
    BY DEF TypeInv
  <1>4. Busy' = Busy /\ queue' = queue => Moves
    BY <1>2, ShrinkMoves DEF AskInv
  <1>5. ASSUME Moves, UNCHANGED <<sent, read, inbox, nextId>>, conns' \subseteq conns,
               \A d \in Client : out'[d] = out[d] \/ out'[d] = <<>>
        PROVE  AskInv'
    BY <1>1, <1>2, <1>3, <1>5, DropStep
  <1>6. ASSUME NEW c \in Client, Connect(c) PROVE AskInv'
    <2>1. /\ nextId' = nextId + 1 /\ UNCHANGED <<queue, workers, sent, read, inbox, out>>
          /\ \A k \in conns' : k \in conns \/ k.id = nextId
      BY <1>6 DEF Connect, client
    <2>2. Moves
      BY <1>4, <2>1 DEF Busy
    <2>. QED
      BY <1>1, <1>2, <1>3, <2>1, <2>2, DropStep
  <1>7. ASSUME NEW c \in Client, Send(c) PROVE AskInv'
    <2>1. /\ UNCHANGED <<queue, workers, read, inbox, out, conns, nextId>>
          /\ sent'[c] = sent[c] + 1 /\ Len(inbox[c]) = sent[c]
          /\ \A d \in Client : d # c => sent'[d] = sent[d]
      BY <1>7 DEF Send, links, TypeInv
    <2>2. Moves
      BY <1>4, <2>1 DEF Busy
    <2>3. ASSUME NEW d \in Client PROVE ClientInv(d)'
      <3>1. ClientInv(d) /\ Given(d)' = Given(d)
        BY <1>2, <2>1 DEF AskInv, Given
      <3>2. sent'[d] <= Len(inbox[d]) + 1 /\ read[d] <= sent'[d]
        <4>1. sent[d] \in Nat /\ read[d] \in Nat
          BY DEF TypeInv
        <4>2. CASE d = c
          <5>1. \A s, r \in Nat : r <= s => s + 1 <= s + 1 /\ r <= s + 1
            OBVIOUS
          <5>. QED
            BY <2>1, <3>1, <4>1, <4>2, <5>1 DEF ClientInv
        <4>3. CASE d # c
          BY <2>1, <3>1, <4>3 DEF ClientInv
        <4>. QED
          BY <4>2, <4>3
      <3>. QED
        BY <2>1, <3>1, <3>2 DEF ClientInv, Honest
    <2>. QED
      BY <1>1, <1>2, <1>3, <2>1, <2>2, <2>3, QuietStep
  <1>8. ASSUME NEW c \in Client, HangUp(c) PROVE AskInv'
    <2>1. UNCHANGED <<queue, workers, sent, read, inbox, out, conns, nextId>>
      BY <1>8 DEF HangUp, client
    <2>. QED
      BY <1>4, <1>5, <2>1 DEF Busy
  <1>9. ASSUME NEW c \in Client, Event(c) PROVE AskInv'
    <2>1. UNCHANGED <<queue, workers, sent, read, inbox, nextId>> /\ conns' \subseteq conns
      BY <1>9 DEF Event, client
    <2>2. \A d \in Client : out'[d] = out[d] \/ out'[d] = <<>>
      BY <1>9 DEF Event, Drop
    <2>. QED
      BY <1>4, <1>5, <2>1, <2>2 DEF Busy
  <1>10. CASE StartMaster
    <2>1. /\ queue = <<>> /\ queue' = <<>> /\ workers = {}
          /\ UNCHANGED <<sent, read, inbox, out>>
      BY <1>2, <1>10 DEF StartMaster, StopInv, client
    <2>2. Busy' = {}
      BY <1>10, <2>1 DEF StartMaster, Spawn, Busy
    <2>3. Once' /\ \A x, a : ~Asks(x, a)'
      BY <2>1, <2>2 DEF Once, Asks
    <2>4. ASSUME NEW d \in Client PROVE ClientInv(d)'
      <3>1. ClientInv(d) /\ read[d] <= read[d] /\ read[d] <= sent[d]
        BY <1>2 DEF AskInv, ClientInv, TypeInv
      <3>. QED
        BY <1>1, <2>1, <3>1, ClientSame
    <2>. QED
      BY <2>3, <2>4 DEF AskInv
  <1>11. CASE Signal
    <2>1. /\ UNCHANGED <<queue, sent, read, inbox, out, conns, nextId>>
          /\ \A w \in Busy' : w \in Busy
      BY <1>11 DEF Signal, links, client, Busy
    <2>2. Moves
      BY <1>2, <2>1, ShrinkMoves DEF AskInv
    <2>. QED
      BY <1>5, <2>1, <2>2
  <1>12. CASE HandleSignal \/ Shutdown
    <2>1. UNCHANGED <<workers, sent, read, inbox, nextId>> /\ conns' = {}
      BY <1>12 DEF HandleSignal, Shutdown, client
    <2>2. \A d \in Client : out'[d] = out[d] \/ out'[d] = <<>>
      BY <1>12 DEF HandleSignal, Shutdown, Drop
    <2>3. Moves
      <3>1. CASE HandleSignal
        BY <1>4, <2>1, <3>1 DEF HandleSignal, Busy
      <3>2. CASE Shutdown
        <4>1. queue' = queue \o Terms /\ Busy' = Busy
          BY <2>1, <3>2 DEF Shutdown, Busy
        <4>. QED
          BY <1>2, <4>1, ShutdownMoves DEF AskInv
      <3>. QED
        BY <1>12, <3>1, <3>2
    <2>. QED
      BY <1>5, <2>1, <2>2, <2>3
  <1>13. CASE Release
    <2>1. /\ queue' = <<>> /\ workers' = {}
          /\ UNCHANGED <<sent, read, inbox, out, conns, nextId>>
      BY <1>13 DEF Release, links, client
    <2>2. Moves
      BY <1>2, <2>1, ShrinkMoves DEF AskInv, Busy
    <2>. QED
      BY <1>5, <2>1, <2>2
  <1>14. ASSUME NEW w \in workers, Take(w) \/ Reply(w) PROVE AskInv'
    <2>1. UNCHANGED <<sent, read, inbox, out, conns, nextId>>
      BY <1>14 DEF Take, Reply, links, client
    <2>2. Moves
      BY <1>2, <1>14, WorkerMoves DEF AskInv
    <2>. QED
      BY <1>5, <2>1, <2>2
  <1>15. CASE UNCHANGED vars
    <2>1. UNCHANGED <<queue, workers, sent, read, inbox, out, conns, nextId>>
      BY <1>15 DEF vars, links, client
    <2>. QED
      BY <1>4, <1>5, <2>1 DEF Busy
  <1>. QED
    BY <1>1, <1>2, <1>6, <1>7, <1>8, <1>9, <1>10, <1>11, <1>12, <1>13, <1>14, <1>15,
       QueryStep, FlushStep, ReceiveStep DEF Next

(* Every client is given the answers to its own commands, each once and in *)
(* order.                                                                  *)
THEOREM AnswersReachTheAsker == Spec => []AnswersToAsker
  <1>1. Init => StopInv /\ OneInv /\ ConnInv
    BY DEF Init, StopInv, OneInv, Busy, ConnInv
  <1>2. Init => AskInv
    <2>. SUFFICES ASSUME Init PROVE AskInv
      OBVIOUS
    <2>1. Once /\ \A x, a : ~Asks(x, a)
      BY DEF Init, Once, Asks, Busy
    <2>2. ASSUME NEW c \in Client PROVE ClientInv(c)
      <3>1. Given(c) = <<>> /\ inbox[c] = <<>> /\ sent[c] = 0 /\ read[c] = 0
        BY DEF Init, Given
      <3>. QED
        BY <3>1 DEF ClientInv, Honest
    <2>. QED
      BY <2>1, <2>2 DEF AskInv
  <1>3. AskInv => AnswersToAsker
    BY DEF AskInv, ClientInv, Honest, Given, AnswersToAsker
  <1>. QED
    BY <1>1, <1>2, <1>3, TypeInit, TypeStep, StopStep, OneStep, ConnStep, AskStep, PTL DEF Spec

-----------------------------------------------------------------------------
(* Every command once, also when masters crash.  What is or was under way  *)
(* has been read, except for the orders to end, which no master takes; so  *)
(* the next command that is read is new.                                   *)
Known(x) == \E c \in Client, n \in Nat : x = <<c, n>> /\ n <= read[c]
At(c, i) == i \in 1 .. Len(Given(c)) /\ Given(c)[i] # Invalid

QueueInv ==
    /\ \A i \in 1 .. Len(queue) :
          /\ queue[i].cmd \in done => queue[i].type = MasterType
          /\ \/ Known(queue[i].cmd)
             \/ queue[i].cmd = Term /\ queue[i].type # MasterType
    /\ \A w \in Busy : Known(w.hand.cmd)
    /\ \A x \in done : Known(x)

GivenInv ==
    \A c \in Client : \A i : At(c, i) =>
        /\ Known(Given(c)[i].cmd) /\ ~UnderWay(Given(c)[i].cmd)
        /\ \A d \in Client : \A j :
              At(d, j) /\ Given(d)[j].cmd = Given(c)[i].cmd => c = d /\ i = j

OnceInv == Once /\ QueueInv /\ GivenInv

LEMMA KnownTypes == \A x : Known(x) => x # Term
  BY RelayAssumption DEF Known

(* What is known stays known, and is not put under way again.              *)
Remembers == \A x : Known(x) => Known(x)'
NoReturn  == \A x : Known(x) /\ UnderWay(x)' => UnderWay(x)

LEMMA KnownKeeps ==
    ASSUME TypeInv, TypeInv', \A c \in Client : read[c] <= read'[c]
    PROVE  Remembers
  <1>. SUFFICES ASSUME NEW c \in Client, NEW n \in Nat, n <= read[c] PROVE n <= read'[c]
    BY DEF Remembers, Known
  <1>1. read[c] \in Nat /\ read'[c] \in Nat /\ read[c] <= read'[c]
    BY DEF TypeInv
  <1>. QED
    BY <1>1

LEMMA KnownSame == ASSUME TypeInv, TypeInv', read' = read PROVE Remembers
  <1>1. \A c \in Client : read[c] <= read'[c]
    BY DEF TypeInv
  <1>. QED
    BY <1>1, KnownKeeps

LEMMA MovesUnderWay == ASSUME Moves, NEW x, x # Term, UnderWay(x)' PROVE UnderWay(x)
  <1>1. \E a : Asks(x, a)'
    BY DEF UnderWay, Asks
  <1>. QED
    BY <1>1 DEF Moves, UnderWay, Asks

(* Messages move on, and nothing is added to them.                         *)
LEMMA QueueKeeps ==
    ASSUME QueueInv, Remembers, done' = done,
           \A j \in 1 .. Len(queue') : \E i \in 1 .. Len(queue) : queue'[j] = queue[i],
           \A w \in Busy' : w \in Busy
    PROVE  QueueInv'
  BY DEF QueueInv, Remembers

(* What a client is given stays, or some of it is lost from the end.       *)
Shorter(c) == \A i : At(c, i)' => At(c, i) /\ Given(c)'[i] = Given(c)[i]

LEMMA GivenKeeps ==
    ASSUME GivenInv, Remembers, NoReturn, \A c \in Client : Shorter(c)
    PROVE  GivenInv'
  <1>1. ASSUME NEW c \in Client, NEW i, At(c, i)'
        PROVE  /\ Known(Given(c)[i].cmd)' /\ ~UnderWay(Given(c)[i].cmd)'
               /\ \A d \in Client : \A j :
                     At(d, j)' /\ (Given(d)[j].cmd = Given(c)[i].cmd)' => c = d /\ i = j
    BY <1>1 DEF GivenInv, Shorter, Remembers, NoReturn
  <1>. QED
    BY <1>1 DEF GivenInv

LEMMA DropShorter ==
    ASSUME TypeInv, NEW c \in Client, inbox'[c] = inbox[c],
           out'[c] = out[c] \/ out'[c] = <<>>
    PROVE  Shorter(c)
  <1>1. inbox[c] \in Seq(Answer) /\ out[c] \in Seq(Answer)
    BY DEF TypeInv
  <1>2. CASE out'[c] = out[c]
    BY <1>2 DEF Shorter, At, Given
  <1>3. CASE out'[c] = <<>>
    <2>1. Given(c)' = inbox[c]
      BY <1>1, <1>3 DEF Given
    <2>2. \A i \in 1 .. Len(inbox[c]) : i \in 1 .. Len(Given(c)) /\ Given(c)[i] = inbox[c][i]
      BY <1>1, ConcatElements DEF Given
    <2>. QED
      BY <2>1, <2>2 DEF Shorter, At
  <1>. QED
    BY <1>2, <1>3

LEMMA ConcatAppend ==
    ASSUME NEW S, NEW s \in Seq(S), NEW t \in Seq(S), NEW a \in S
    PROVE  s \o Append(t, a) = Append(s \o t, a)
  OBVIOUS

(* The answer a is given to c.                                             *)
LEMMA AppendGiven ==
    ASSUME TypeInv, NEW c \in Client, inbox'[c] = inbox[c],
           NEW a \in Answer, out'[c] = Append(out[c], a)
    PROVE  /\ Len(Given(c)) \in Nat
           /\ \A i : At(c, i)' => \/ At(c, i) /\ Given(c)'[i] = Given(c)[i]
                                  \/ /\ a # Invalid /\ i = Len(Given(c)) + 1
                                     /\ Given(c)'[i] = a
  <1>1. inbox[c] \in Seq(Answer) /\ out[c] \in Seq(Answer) /\ Given(c) \in Seq(Answer)
    BY DEF TypeInv, Given
  <1>2. Given(c)' = Append(Given(c), a)
    <2>1. inbox[c] \o Append(out[c], a) = Append(inbox[c] \o out[c], a)
      <3>1. PICK s \in Seq(Answer), t \in Seq(Answer) : s = inbox[c] /\ t = out[c]
        BY <1>1
      <3>2. s \o Append(t, a) = Append(s \o t, a)
        BY ConcatAppend
      <3>. QED
        BY <3>1, <3>2
    <2>2. Given(c)' = inbox[c] \o Append(out[c], a)
      BY DEF Given
    <2>. QED
      BY <2>1, <2>2 DEF Given
  <1>. QED
    BY <1>1, <1>2, AppendElements DEF At

(* An answer to a known command that was under way and is not any more is  *)
(* given to one client at most.                                            *)
LEMMA GivenAnswer ==
    ASSUME TypeInv, GivenInv, Remembers, NoReturn, NEW a \in Answer,
           a # Invalid => Known(a.cmd) /\ UnderWay(a.cmd) /\ ~UnderWay(a.cmd)',
           inbox' = inbox,
           \A d \in Client : out'[d] = out[d] \/ out'[d] = Append(out[d], a),
           \A c, d \in Client : out'[c] # out[c] /\ out'[d] # out[d] => c = d
    PROVE  GivenInv'
  <1>1. CASE a = Invalid
    <2>1. ASSUME NEW d \in Client PROVE Shorter(d)
      BY <1>1, AppendGiven DEF Shorter, At, Given
    <2>. QED
      BY <2>1, GivenKeeps
  <1>2. CASE a # Invalid
    <2>1. ASSUME NEW d \in Client, NEW i, At(d, i)'
          PROVE  \/ At(d, i) /\ (Given(d)[i])' = Given(d)[i]
                 \/ /\ out'[d] # out[d] /\ i = Len(Given(d)) + 1 /\ (Given(d)[i])' = a
      <3>1. CASE out'[d] = out[d]
        BY <2>1, <3>1 DEF At, Given
      <3>2. CASE out'[d] # out[d]
        BY <2>1, <3>2, AppendGiven
      <3>. QED
        BY <3>1, <3>2
    <2>2. \A d \in Client : \A i : At(d, i) => Given(d)[i].cmd # a.cmd
      BY <1>2 DEF GivenInv
    <2>3. ASSUME NEW c \in Client, NEW i, At(c, i)'
          PROVE  Known(Given(c)[i].cmd)' /\ ~UnderWay(Given(c)[i].cmd)'
      BY <1>2, <2>1, <2>3 DEF GivenInv, Remembers, NoReturn
    <2>4. ASSUME NEW c \in Client, NEW i, At(c, i)', NEW d \in Client, NEW j, At(d, j)',
                 (Given(d)[j].cmd = Given(c)[i].cmd)'
          PROVE  c = d /\ i = j
      BY <2>1, <2>2, <2>4 DEF GivenInv
    <2>. QED
      BY <2>3, <2>4 DEF GivenInv
  <1>. QED
    BY <1>1, <1>2

(* A step that gives nobody anything new and puts nothing under way.       *)
LEMMA MovesOnce ==
    ASSUME TypeInv, TypeInv', OnceInv, Moves, QueueInv', UNCHANGED <<read, inbox>>,
           \A d \in Client : out'[d] = out[d] \/ out'[d] = <<>>
    PROVE  OnceInv'
  <1>1. \A d \in Client : Shorter(d)
    BY DropShorter
  <1>2. Remembers
    BY KnownSame
  <1>3. NoReturn
    BY MovesUnderWay, KnownTypes DEF NoReturn
  <1>4. GivenInv'
    BY <1>1, <1>2, <1>3, GivenKeeps DEF OnceInv
  <1>. QED
    BY <1>4 DEF OnceInv, Moves

(* The same, when the queue and the hands of the workers stay as they are  *)
(* or lose something.                                                      *)
LEMMA ShrinkOnce ==
    ASSUME TypeInv, TypeInv', OnceInv, UNCHANGED <<read, inbox, done>>,
           queue' = queue \/ queue' = <<>>, \A w \in Busy' : w \in Busy,
           \A d \in Client : out'[d] = out[d] \/ out'[d] = <<>>
    PROVE  OnceInv'
  <1>1. Moves
    BY ShrinkMoves DEF OnceInv
  <1>2. Remembers
    BY KnownSame
  <1>3. QueueInv'
    BY <1>2, QueueKeeps DEF OnceInv
  <1>. QED
    BY <1>1, <1>3, MovesOnce

LEMMA FlushOnce == ASSUME TypeInv, TypeInv', OnceInv, NEW c \in Client, Flush(c) PROVE OnceInv'
  <1>1. UNCHANGED <<queue, workers, read, done>>
    BY DEF Flush, loop, links
  <1>2. Busy' = Busy /\ Moves
    BY <1>1, ShrinkMoves DEF OnceInv, Busy
  <1>3. Remembers
    BY <1>1, KnownSame
  <1>4. QueueInv'
    BY <1>1, <1>2, <1>3, QueueKeeps DEF OnceInv
  <1>5. NoReturn
    BY <1>2, MovesUnderWay, KnownTypes DEF NoReturn
  <1>6. ASSUME NEW d \in Client PROVE Shorter(d)
    <2>1. CASE inbox'[d] = inbox[d]
      <3>1. out'[d] = out[d] \/ out'[d] = <<>>
        BY DEF Flush, TypeInv
      <3>. QED
        BY <2>1, <3>1, DropShorter
    <2>2. CASE inbox'[d] # inbox[d]
      <3>1. inbox'[d] = inbox[d] \o out[d] /\ out'[d] = <<>>
        BY <2>2 DEF Flush, TypeInv
      <3>2. Given(d)' = Given(d)
        BY <3>1 DEF Given, TypeInv
      <3>. QED
        BY <3>2 DEF Shorter, At
    <2>. QED
      BY <2>1, <2>2
  <1>. QED
    BY <1>2, <1>3, <1>4, <1>5, <1>6, GivenKeeps DEF OnceInv, Moves

(* At most one client has the connection with a number.                    *)
LEMMA RespondOne ==
    ASSUME TypeInv, ConnInv, NEW id, NEW a \in Answer, Respond(id, a)
    PROVE  /\ \A d \in Client : out'[d] = out[d] \/ out'[d] = Append(out[d], a)
           /\ \A c, d \in Client : out'[c] # out[c] /\ out'[d] # out[d] => c = d
  <1>1. ASSUME NEW c \in Client, NEW d \in Client, out'[c] # out[c], out'[d] # out[d]
        PROVE  c = d
    <2>1. [id |-> id, client |-> c] \in conns /\ [id |-> id, client |-> d] \in conns
      BY <1>1 DEF Respond
    <2>. QED
      BY <2>1 DEF ConnInv
  <1>. QED
    BY <1>1 DEF Respond

LEMMA QueryOnce ==
    ASSUME TypeInv, TypeInv', ConnInv, OnceInv, NEW c \in Client, Query(c)
    PROVE  OnceInv'
  <1>1. PICK k \in conns :
           /\ k.client = c /\ read' = [read EXCEPT ![c] = @ + 1]
           /\ \/ Relay(k, read[c] + 1)
              \/ Respond(k.id, Invalid) /\ UNCHANGED <<queue, waiting>>
    BY DEF Query
  <1>2. UNCHANGED <<workers, inbox, done>> /\ Busy' = Busy /\ \A w \in Busy' : w \in Busy
    BY DEF Query, client, Busy
  <1>3. read'[c] = read[c] + 1 /\ read[c] \in Nat
    BY <1>1 DEF TypeInv
  <1>4. Remembers
    <2>1. \A n \in Nat : n <= n /\ n <= n + 1
      OBVIOUS
    <2>2. \A d \in Client : read[d] \in Nat /\ (read'[d] = read[d] \/ read'[d] = read[d] + 1)
      BY <1>1 DEF TypeInv
    <2>. QED
      BY <2>1, <2>2, KnownKeeps
  <1>5. CASE Relay(k, read[c] + 1)
    <2>1. PICK m : /\ queue' = Append(queue, m) /\ out' = out
                   /\ m.cmd = <<c, read'[c]>>
      BY <1>1, <1>3, <1>5 DEF Relay
    <2>2. ~Known(m.cmd) /\ Known(m.cmd)' /\ m.cmd # Term
      <3>1. ~(read[c] + 1 <= read[c]) /\ read'[c] <= read'[c] /\ read'[c] \in Nat
        BY <1>3
      <3>. QED
        BY <1>3, <2>1, <3>1, RelayAssumption DEF Known
    <2>3. \A a : ~Asks(m.cmd, a)
      BY <2>2 DEF Asks, OnceInv, QueueInv
    <2>4. Once' /\ \A x, a : Asks(x, a)' => Asks(x, a) \/ (x = m.cmd /\ a = m.conn)
      BY <1>2, <2>1, <2>2, <2>3, RelayMoves DEF OnceInv
    <2>5. NoReturn
      <3>1. ASSUME NEW x, Known(x), UnderWay(x)' PROVE UnderWay(x)
        <4>1. PICK a : Asks(x, a)'
          BY <3>1, KnownTypes DEF UnderWay, Asks
        <4>. QED
          BY <2>2, <2>4, <3>1, <4>1 DEF UnderWay, Asks
      <3>. QED
        BY <3>1 DEF NoReturn
    <2>6. \A d \in Client : Shorter(d)
      BY <1>2, <2>1, DropShorter
    <2>7. GivenInv'
      BY <1>4, <2>5, <2>6, GivenKeeps DEF OnceInv
    <2>8. QueueInv'
      <3>1. \A i \in 1 .. Len(queue') :
               queue'[i] = m \/ \E j \in 1 .. Len(queue) : queue'[i] = queue[j]
        <4>1. queue \in Seq(Message)
          BY DEF TypeInv
        <4>. QED
          BY <2>1, <4>1, AppendKeeps
      <3>. QED
        BY <1>2, <1>4, <2>2, <3>1 DEF OnceInv, QueueInv, Remembers
    <2>. QED
      BY <2>4, <2>7, <2>8 DEF OnceInv
  <1>6. CASE Respond(k.id, Invalid) /\ UNCHANGED <<queue, waiting>>
    <2>1. Moves
      BY <1>2, <1>6, ShrinkMoves DEF OnceInv
    <2>2. NoReturn
      BY <2>1, MovesUnderWay, KnownTypes DEF NoReturn
    <2>3. Invalid \in Answer
      BY DEF Answer
    <2>4. /\ \A d \in Client : out'[d] = out[d] \/ out'[d] = Append(out[d], Invalid)
          /\ \A d, e \in Client : out'[d] # out[d] /\ out'[e] # out[e] => d = e
      BY <1>6, <2>3, RespondOne
    <2>5. GivenInv'
      BY <1>2, <1>4, <2>2, <2>3, <2>4, GivenAnswer DEF OnceInv
    <2>6. QueueInv'
      BY <1>2, <1>4, <1>6, QueueKeeps DEF OnceInv
    <2>. QED
      BY <2>1, <2>5, <2>6 DEF OnceInv, Moves
  <1>. QED
    BY <1>1, <1>5, <1>6

LEMMA ReceiveOnce ==
    ASSUME TypeInv, TypeInv', ConnInv, OnceInv, Receive
    PROVE  OnceInv'
  <1>1. PICK i \in 1 .. Len(queue) : /\ FirstOf(MasterType, i)
                                     /\ queue' = RemoveAt(queue, i)
                                     /\ ProcessResponse(queue[i])
    BY DEF Receive
  <1>2. PICK m : m = queue[i] /\ m \in Message
    BY <1>1 DEF TypeInv
  <1>3. UNCHANGED <<workers, read, inbox, done>> /\ Busy' = Busy
    BY DEF Receive, client, Busy
  <1>4. m.type = MasterType
    BY <1>1, <1>2 DEF FirstOf
  <1>5. Known(m.cmd) /\ m.cmd # Term
    BY <1>2, <1>4, KnownTypes DEF OnceInv, QueueInv
  <1>6. UnderWay(m.cmd)
    BY <1>2 DEF UnderWay
  <1>7. Moves /\ \A a : ~Asks(m.cmd, a)'
    BY <1>1, <1>2, <1>3, ReceiveMoves DEF OnceInv
  <1>8. ~UnderWay(m.cmd)'
    BY <1>5, <1>7 DEF UnderWay, Asks
  <1>9. PICK r : r = [cmd |-> m.cmd, status |-> m.status]
    OBVIOUS
  <1>10. r \in Answer /\ r.cmd = m.cmd /\ Respond(m.conn, r)
    BY <1>1, <1>2, <1>9 DEF Answer, Message, ProcessResponse
  <1>11. /\ \A d \in Client : out'[d] = out[d] \/ out'[d] = Append(out[d], r)
         /\ \A c, d \in Client : out'[c] # out[c] /\ out'[d] # out[d] => c = d
    BY <1>10, RespondOne
  <1>12. Remembers
    BY <1>3, KnownSame
  <1>13. NoReturn
    BY <1>7, MovesUnderWay, KnownTypes DEF NoReturn
  <1>14. GivenInv'
    <2>1. r # Invalid => Known(r.cmd) /\ UnderWay(r.cmd) /\ ~UnderWay(r.cmd)'
      BY <1>5, <1>6, <1>8, <1>10
    <2>. QED
      BY <1>3, <1>10, <1>11, <1>12, <1>13, <2>1, GivenAnswer DEF OnceInv
  <1>15. QueueInv'
    <2>1. queue \in Seq(Message) /\ queue' = RemoveAt(queue, i)
      BY <1>1 DEF TypeInv
    <2>2. \A j \in 1 .. Len(queue') : \E l \in 1 .. Len(queue) : queue'[j] = queue[l]
      BY <2>1, RemoveKeeps
    <2>. QED
      BY <1>3, <1>12, <2>2, QueueKeeps DEF OnceInv
  <1>. QED
    BY <1>7, <1>14, <1>15 DEF OnceInv, Moves

LEMMA ShutdownOnce ==
    ASSUME TypeInv, TypeInv', OneInv, OnceInv, Shutdown
    PROVE  OnceInv'
  <1>1. UNCHANGED <<workers, read, inbox, done>> /\ Busy' = Busy /\ queue' = queue \o Terms
    BY DEF Shutdown, client, Busy
  <1>2. \A d \in Client : out'[d] = out[d] \/ out'[d] = <<>>
    BY DEF Shutdown, Drop
  <1>3. Moves
    BY <1>1, ShutdownMoves DEF OnceInv
  <1>4. Remembers
    BY <1>1, KnownSame
  <1>5. Terms \in Seq(Message) /\ Len(Terms) = Count
        /\ \A i \in 1 .. Count : Terms[i].cmd = Term /\ Terms[i].type # MasterType
    <2>1. \A i \in 1 .. Count : i + 1 \in 1 .. Count + 1 /\ i + 1 # 1
      BY RelayAssumption
    <2>2. \A i \in 1 .. Count :
             [type |-> i + 1, conn |-> 0, cmd |-> Term, status |-> 0] \in Message
      BY <2>1, RelayAssumption DEF Message
    <2>3. Terms \in [1 .. Count -> Message]
      BY <2>2 DEF Terms
    <2>. QED
      BY <2>1, <2>3, RelayAssumption DEF Terms, MasterType
  <1>6. PICK n \in Nat : n = Len(queue)
    BY DEF TypeInv
  <1>7. /\ Len(queue') = n + Count
        /\ \A i \in 1 .. n + Count : queue'[i] = IF i <= n THEN queue[i] ELSE Terms[i - n]
    <2>1. queue \in Seq(Message)
      BY DEF TypeInv
    <2>. QED
      BY <1>1, <1>5, <1>6, <2>1, ConcatProperties
  <1>8. \A i \in 1 .. n + Count : i \in 1 .. n \/ (i > n /\ i - n \in 1 .. Count)
    BY RelayAssumption
  <1>9. \A i \in 1 .. n + Count :
           \/ i \in 1 .. n /\ queue'[i] = queue[i]
           \/ queue'[i].cmd = Term /\ queue'[i].type # MasterType
    BY <1>5, <1>7, <1>8
  <1>10. QueueInv'
    <2>1. Term \notin done
      BY KnownTypes DEF OnceInv, QueueInv
    <2>. QED
      BY <1>1, <1>4, <1>6, <1>7, <1>9, <2>1 DEF OnceInv, QueueInv, Remembers
  <1>. QED
    BY <1>1, <1>2, <1>3, <1>10, MovesOnce

LEMMA WorkerOnce ==
    ASSUME TypeInv, TypeInv', OneInv, OnceInv, NEW w \in workers, Take(w) \/ Reply(w)
    PROVE  OnceInv'
  <1>1. UNCHANGED <<read, inbox, out>>
    BY DEF Take, Reply, client
  <1>2. Moves
    BY WorkerMoves DEF OnceInv
  <1>3. Remembers
    BY <1>1, KnownSame
  <1>4. queue \in Seq(Message)
    BY DEF TypeInv
  <1>5. ASSUME Take(w) PROVE QueueInv'
    <2>1. PICK i \in 1 .. Len(queue) :
             /\ queue' = RemoveAt(queue, i)
             /\ \/ queue[i].cmd = Term /\ workers' = workers \ {w} /\ UNCHANGED done
                \/ /\ queue[i].cmd # Term
                   /\ workers' = (workers \ {w}) \cup {[w EXCEPT !.hand = queue[i]]}
                   /\ done' = done \cup {queue[i].cmd}
      BY <1>5 DEF Take
    <2>2. PICK m : m = queue[i]
      OBVIOUS
    <2>3. \A j \in 1 .. Len(queue') :
             /\ \E l \in 1 .. Len(queue) : queue'[j] = queue[l]
             /\ m.cmd # Term => queue'[j].cmd # m.cmd
      BY <1>4, <2>1, <2>2, RemoveMoves DEF OnceInv
    <2>4. CASE m.cmd = Term
      <3>1. \A v \in Busy' : v \in Busy
        BY <2>1, <2>2, <2>4 DEF Busy
      <3>2. done' = done
        BY <2>1, <2>2, <2>4
      <3>. QED
        BY <1>3, <2>3, <3>1, <3>2, QueueKeeps DEF OnceInv
    <2>5. CASE m.cmd # Term
      <3>1. done' = done \cup {m.cmd} /\ Known(m.cmd)
        BY <2>1, <2>2, <2>5 DEF OnceInv, QueueInv
      <3>2. PICK v : v = [w EXCEPT !.hand = m]
        OBVIOUS
      <3>3. (\A u \in Busy' : u \in Busy \/ u = v) /\ v.hand = m
        <4>1. w \in [id : WorkerId, master : Nat, hand : Message \cup {None}]
          BY DEF TypeInv
        <4>. QED
          BY <2>1, <2>2, <2>5, <3>2, <4>1 DEF Busy
      <3>. QED
        BY <1>3, <2>3, <2>5, <3>1, <3>2, <3>3 DEF OnceInv, QueueInv, Remembers
    <2>. QED
      BY <2>4, <2>5
  <1>6. ASSUME Reply(w) PROVE QueueInv'
    <2>1. PICK s \in Status :
             queue' = Append(queue, [w.hand EXCEPT !.type = MasterType, !.status = s])
      BY <1>6 DEF Reply
    <2>2. w.hand \in Message /\ w \in Busy
      BY <1>6 DEF Reply, TypeInv, Busy
    <2>3. PICK m : m = [w.hand EXCEPT !.type = MasterType, !.status = s]
      OBVIOUS
    <2>4. m.cmd = w.hand.cmd /\ m.type = MasterType
      BY <2>2, <2>3 DEF Message
    <2>5. \A i \in 1 .. Len(queue') :
             queue'[i] = m \/ \E j \in 1 .. Len(queue) : queue'[i] = queue[j]
      BY <1>4, <2>1, <2>3, AppendKeeps
    <2>6. done' = done /\ \A v \in Busy' : v \in Busy
      <3>1. w \in [id : WorkerId, master : Nat, hand : Message \cup {None}]
        BY DEF TypeInv
      <3>2. PICK v : v = [w EXCEPT !.hand = None]
        OBVIOUS
      <3>3. v.hand = None
        BY <3>1, <3>2
      <3>. QED
        BY <1>6, <3>2, <3>3 DEF Reply, Busy
    <2>. QED
      BY <1>3, <2>2, <2>4, <2>5, <2>6 DEF OnceInv, QueueInv, Remembers
  <1>. QED
    BY <1>1, <1>2, <1>5, <1>6, MovesOnce

LEMMA OnceStep == TypeInv /\ OneInv /\ ConnInv /\ OnceInv /\ [Next]_vars => OnceInv'
  <1>. SUFFICES ASSUME TypeInv, OneInv, ConnInv, OnceInv, [Next]_vars PROVE OnceInv'
    OBVIOUS
  <1>0. TypeInv'
    BY TypeStep
  <1>1. CASE \/ \E c \in Client : Connect(c) \/ Send(c) \/ HangUp(c) \/ Event(c)
             \/ StartMaster \/ Signal \/ HandleSignal \/ Release \/ UNCHANGED vars
    <2>1. UNCHANGED <<read, inbox, done>>
      BY <1>1 DEF Connect, Send, HangUp, Event, StartMaster, Signal, HandleSignal,
                  Release, vars, client
    <2>2. queue' = queue \/ queue' = <<>>
      BY <1>1 DEF Connect, Send, HangUp, Event, StartMaster, Signal, HandleSignal,
                  Release, vars
    <2>3. \A w \in Busy' : w \in Busy
      <3>1. CASE StartMaster
        BY <3>1 DEF StartMaster, Spawn, Busy
      <3>2. CASE Signal
        BY <3>2 DEF Signal, Busy
      <3>3. CASE Release
        BY <3>3 DEF Release, Busy
      <3>4. CASE workers' = workers
        BY <3>4 DEF Busy
      <3>. QED
        BY <1>1, <3>1, <3>2, <3>3, <3>4
        DEF Connect, Send, HangUp, Event, HandleSignal, vars
    <2>4. \A d \in Client : out'[d] = out[d] \/ out'[d] = <<>>
      BY <1>1 DEF Connect, Send, HangUp, Event, StartMaster, Signal, HandleSignal,
                  Release, vars, Drop
    <2>. QED
      BY <1>0, <2>1, <2>2, <2>3, <2>4, ShrinkOnce
  <1>. QED
    BY <1>0, <1>1, QueryOnce, FlushOnce, ReceiveOnce, ShutdownOnce, WorkerOnce DEF Next

(* However often masters are interrupted, end or crash and leave messages  *)
(* and workers to the next, no command is carried out twice, none goes to  *)
(* a worker again after it was carried out, and none is answered twice.    *)
THEOREM NoCommandTwice == Spec => []EachCommandOnce
  <1>1. Init => StopInv /\ OneInv /\ ConnInv
    BY DEF Init, StopInv, OneInv, Busy, ConnInv
  <1>2. Init => OnceInv
    <2>. SUFFICES ASSUME Init PROVE OnceInv
      OBVIOUS
    <2>1. queue = <<>> /\ Busy = {} /\ done = {} /\ \A c \in Client : Given(c) = <<>>
      BY DEF Init, Busy, Given
    <2>. QED
      BY <2>1 DEF OnceInv, Once, QueueInv, GivenInv, At
  <1>3. OnceInv => EachCommandOnce
    BY DEF OnceInv, QueueInv, GivenInv, At, AnsweredOnce, EachCommandOnce
  <1>. QED
    BY <1>1, <1>2, <1>3, TypeInit, TypeStep, StopStep, OneStep, ConnStep, OnceStep, PTL
    DEF Spec

=============================================================================
