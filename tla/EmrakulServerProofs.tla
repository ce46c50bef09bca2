-------------------------- MODULE EmrakulServerProofs --------------------------
(***************************************************************************)
(* Proofs about the processes of Emrakul DB v2.0 and their clients, for    *)
(* every number of workers and clients, of lines and of descriptors in a   *)
(* channel: where a connection is, and which answers a client gets.        *)
(***************************************************************************)
EXTENDS EmrakulServer, SequenceTheorems, TLAPS

Message == (Client \X Nat) \cup {Welcome, Invalid}

TypeInv ==
    /\ master \in {"up", "waiting", "leaving", "done", "broken"}
    /\ state \in [Child -> {"up", "leaving", "gone", "crashed", "broken"}]
    /\ backlog \subseteq Client /\ passed \subseteq Client
    /\ channel \in [Worker -> Seq(Client)]
    /\ conns \in [Worker -> SUBSET [id : Nat, client : Client]]
    /\ nextId \in [Worker -> Nat]
    /\ peer \in [Client -> {"away", "open", "half", "gone", "reset"}]
    /\ sent \in [Client -> Nat] /\ got \in [Client -> Nat]
    /\ taken \in [Client -> Nat]
    /\ out \in [Client -> Seq(Message)] /\ inbox \in [Client -> Seq(Message)]

LEMMA TypeInit == Init => TypeInv
  BY DEF Init, TypeInv

LEMMA FreeTypes ==
    ASSUME TypeInv, NEW C, Free(C)
    PROVE  /\ got' \in [Client -> Nat] /\ taken' \in [Client -> Nat]
           /\ out' \in [Client -> Seq(Message)]
  BY DEF TypeInv, Free

LEMMA TypeStep == TypeInv /\ [Next]_vars => TypeInv'
  <1>. SUFFICES ASSUME TypeInv, [Next]_vars PROVE TypeInv'
    OBVIOUS
  <1>. USE DEF TypeInv
  <1>1. ASSUME NEW c \in Client, Connect(c) \/ Send(c) \/ HangUp(c) PROVE TypeInv'
    <2>1. CASE Connect(c)
      BY <2>1 DEF Connect, processes, buffers
    <2>2. CASE Send(c)
      <3>1. sent[c] + 1 \in Nat /\ sent[c] + 2 \in Nat
        OBVIOUS
      <3>2. sent' \in [Client -> Nat]
        BY <2>2, <3>1 DEF Send
      <3>. QED
        BY <2>2, <3>2 DEF Send, processes, passing, buffers
    <2>3. CASE HangUp(c)
      <3>1. <<>> \in Seq(Message)
        OBVIOUS
      <3>2. /\ inbox' \in [Client -> Seq(Message)]
            /\ peer' \in [Client -> {"away", "open", "half", "gone", "reset"}]
        BY <2>3, <3>1 DEF HangUp
      <3>. QED
        BY <2>3, <3>2 DEF HangUp, processes, passing, buffers
    <2>. QED
      BY <1>1, <2>1, <2>2, <2>3
  <1>2. ASSUME NEW c \in Client, NEW w \in Worker, Pass(c, w) \/ PassToNobody(c, w)
        PROVE  TypeInv'
    <2>1. Append(channel[w], c) \in Seq(Client)
      OBVIOUS
    <2>. QED
      BY <1>2, <2>1 DEF Pass, PassToNobody, Accept, client, buffers
  <1>3. ASSUME StopMaster \/ ChildrenGone \/ MasterExit \/ CleanerExit PROVE TypeInv'
    BY <1>3 DEF StopMaster, ChildrenGone, MasterExit, CleanerExit, passing, client,
                buffers
  <1>4. ASSUME NEW w \in Worker, Take(w) PROVE TypeInv'
    <2>1. Head(channel[w]) \in Client /\ Tail(channel[w]) \in Seq(Client)
      BY <1>4 DEF Take
    <2>2. <<Welcome>> \in Seq(Message)
      BY DEF Message
    <2>3. channel' \in [Worker -> Seq(Client)]
      BY <1>4, <2>1 DEF Take, ReadDescriptor
    <2>4. conns' \in [Worker -> SUBSET [id : Nat, client : Client]]
      BY <1>4, <2>1 DEF Take, Establish
    <2>5. nextId' \in [Worker -> Nat] /\ out' \in [Client -> Seq(Message)]
      BY <1>4, <2>1, <2>2 DEF Take, Establish
    <2>. QED
      BY <1>4, <2>3, <2>4, <2>5 DEF Take, processes, client
  <1>5. ASSUME NEW w \in Worker, NEW k \in conns[w], Read(w, k) PROVE TypeInv'
    <2>. DEFINE c == k.client
    <2>1. c \in Client
      OBVIOUS
    <2>2. PICK n \in got[c] + 1 .. sent[c] : ReadLine(w, k, n)
      BY <1>5 DEF Read
    <2>3. <<c, taken[c] + 1>> \in Message /\ Invalid \in Message
      BY <2>1 DEF Message
    <2>4. \A d \in Client, r \in Message : Append(out[d], r) \in Seq(Message)
      OBVIOUS
    <2>5. \A r \in Message : SendResponse(w, k.id, r) => out' \in [Client -> Seq(Message)]
      BY <2>4 DEF SendResponse
    <2>6. got' \in [Client -> Nat] /\ taken' \in [Client -> Nat]
      <3>1. n \in Nat /\ taken[c] + 1 \in Nat
        BY <2>1
      <3>. QED
        BY <2>1, <2>2, <3>1 DEF ReadLine
    <2>7. out' \in [Client -> Seq(Message)]
      BY <2>2, <2>3, <2>5 DEF ReadLine
    <2>. QED
      BY <1>5, <2>6, <2>7 DEF Read, processes, passing, client
  <1>6. ASSUME NEW w \in Worker, NEW k \in conns[w], Event(w, k) PROVE TypeInv'
    BY <1>6, FreeTypes
    DEF Event, Close, RemoveConnection, processes, passing, client
  <1>7. ASSUME NEW w \in Worker, NEW s \in {"gone", "crashed", "broken"}, End(w, s)
        PROVE  /\ state' \in [Child -> {"up", "leaving", "gone", "crashed", "broken"}]
               /\ conns' \in [Worker -> SUBSET [id : Nat, client : Client]]
               /\ channel' \in [Worker -> Seq(Client)]
               /\ got' \in [Client -> Nat] /\ taken' \in [Client -> Nat]
               /\ out' \in [Client -> Seq(Message)]
    <2>1. got' \in [Client -> Nat] /\ taken' \in [Client -> Nat]
          /\ out' \in [Client -> Seq(Message)]
      BY <1>7, FreeTypes DEF End
    <2>2. state' \in [Child -> {"up", "leaving", "gone", "crashed", "broken"}]
          /\ conns' \in [Worker -> SUBSET [id : Nat, client : Client]]
      BY <1>7 DEF End
    <2>3. channel' \in [Worker -> Seq(Client)]
      BY <1>7 DEF End
    <2>. QED
      BY <2>1, <2>2, <2>3
  <1>8. ASSUME NEW w \in Worker, NEW k \in conns[w], Write(w, k) PROVE TypeInv'
    <2>1. k.client \in Client
      OBVIOUS
    <2>2. inbox[k.client] \o out[k.client] \in Seq(Message) /\ <<>> \in Seq(Message)
      BY <2>1
    <2>3. CASE peer[k.client] = "reset"
      BY <1>7, <1>8, <2>3 DEF Write
    <2>4. CASE peer[k.client] # "reset"
      <3>1. /\ inbox' \in [Client -> Seq(Message)] /\ out' \in [Client -> Seq(Message)]
            /\ peer' \in [Client -> {"away", "open", "half", "gone", "reset"}]
        BY <1>8, <2>1, <2>2, <2>4 DEF Write
      <3>. QED
        BY <1>8, <2>4, <3>1 DEF Write
    <2>. QED
      BY <2>3, <2>4
  <1>9. ASSUME NEW w \in Worker, Stop(w) PROVE TypeInv'
    BY <1>7, <1>9, FreeTypes DEF Stop, client
  <1>10. ASSUME NEW w \in Worker, Exit(w) PROVE TypeInv'
    BY <1>7, <1>10 DEF Exit, client
  <1>11. CASE UNCHANGED vars
    BY <1>11 DEF vars, processes, passing, client, buffers
  <1>. QED
    BY <1>1, <1>2, <1>3, <1>4, <1>5, <1>6, <1>8, <1>9, <1>10, <1>11
    DEF Next, WorkerStep

-----------------------------------------------------------------------------
(* Where connections are.                                                  *)

(* A number is used for one connection, a descriptor is in a channel once, *)
(* and a client whose connection has been accepted does not connect again. *)
PlaceInv ==
    /\ OnePlaceEach
    /\ \A w \in Worker : \A i, j \in 1 .. Len(channel[w]) :
          channel[w][i] = channel[w][j] => i = j
    /\ \A w \in Worker : \A k \in conns[w] : k.id < nextId[w]
    /\ backlog \cap passed = {}
    /\ \A c \in backlog \cup passed : peer[c] # "away"

LEMMA PlaceInit == Init => PlaceInv
  <1>. SUFFICES ASSUME Init PROVE PlaceInv
    OBVIOUS
  <1>1. \A w \in Worker : channel[w] = <<>> /\ conns[w] = {}
    BY DEF Init
  <1>2. \A c \in Client, w \in Worker : ~InChannel(c, w) /\ c \notin ClientsOf(w)
    BY <1>1 DEF InChannel, ClientsOf
  <1>. QED
    BY <1>1, <1>2 DEF Init, PlaceInv, OnePlaceEach

(* Nothing arrives anywhere, some connections may have gone.               *)
LEMMA PlacesShrink ==
    ASSUME TypeInv, PlaceInv,
           \A w \in Worker :
              \/ /\ channel'[w] = channel[w] /\ conns'[w] \subseteq conns[w]
                 /\ Runs(w) => Runs(w)'
              \/ channel'[w] = <<>> /\ conns'[w] = {},
           UNCHANGED <<nextId, passed, backlog>>,
           \A c \in Client : peer[c] # "away" => peer'[c] # "away"
    PROVE  PlaceInv'
  <1>1. \A c \in Client, w \in Worker :
           /\ InChannel(c, w)' => InChannel(c, w)
           /\ (c \in ClientsOf(w))' => c \in ClientsOf(w)
    BY DEF InChannel, ClientsOf
  <1>2. \A c \in Client, w \in Worker :
           InChannel(c, w)' \/ (c \in ClientsOf(w))' => (Runs(w) => Runs(w)')
    BY DEF InChannel, ClientsOf
  <1>3. OnePlaceEach'
    <2>1. ASSUME NEW c \in Client, NEW w \in Worker,
                 InChannel(c, w)' \/ (c \in ClientsOf(w))'
          PROVE  /\ c \in passed' \ backlog' /\ Runs(w)'
                 /\ ~(InChannel(c, w)' /\ (c \in ClientsOf(w))')
                 /\ \A v \in Worker \ {w} : ~InChannel(c, v)' /\ ~(c \in ClientsOf(v))'
      BY <1>1, <1>2, <2>1 DEF PlaceInv, OnePlaceEach
    <2>2. \A w \in Worker : \A j, k \in conns'[w] :
             j.client = k.client \/ j.id = k.id => j = k
      BY DEF PlaceInv, OnePlaceEach
    <2>. QED
      BY <2>1, <2>2 DEF OnePlaceEach
  <1>4. \A w \in Worker : \A i, j \in 1 .. Len(channel'[w]) :
           channel'[w][i] = channel'[w][j] => i = j
    BY DEF PlaceInv
  <1>5. \A w \in Worker : \A k \in conns'[w] : k.id < nextId'[w]
    BY DEF PlaceInv
  <1>6. backlog' \cap passed' = {} /\ \A c \in backlog' \cup passed' : peer'[c] # "away"
    BY DEF PlaceInv, TypeInv
  <1>. QED
    BY <1>3, <1>4, <1>5, <1>6 DEF PlaceInv

(* A client comes to the port.                                             *)
LEMMA PlaceConnect ==
    ASSUME TypeInv, PlaceInv, NEW c \in Client, Connect(c)
    PROVE  PlaceInv'
  <1>1. /\ UNCHANGED <<channel, conns, nextId, passed, state>>
        /\ c \notin passed /\ peer' = [peer EXCEPT ![c] = "open"]
        /\ backlog' = backlog \cup {c}
    BY DEF Connect, PlaceInv, processes
  <1>2. \A d \in Client, w \in Worker :
           /\ InChannel(d, w)' = InChannel(d, w)
           /\ ClientsOf(w)' = ClientsOf(w) /\ Runs(w)' = Runs(w)
    BY <1>1 DEF InChannel, ClientsOf, Runs
  <1>3. OnePlaceEach'
    BY <1>1, <1>2 DEF PlaceInv, OnePlaceEach
  <1>4. \A d \in backlog' \cup passed' : peer'[d] # "away"
    BY <1>1 DEF PlaceInv, TypeInv
  <1>. QED
    BY <1>1, <1>3, <1>4 DEF PlaceInv

(* The master passes it on.                                                *)
LEMMA PassFacts ==
    ASSUME TypeInv, NEW c \in Client, NEW w \in Worker, Pass(c, w),
           NEW d \in Client, NEW v \in Worker, InChannel(d, v)'
    PROVE  InChannel(d, v) \/ (d = c /\ v = w)
  <1>1. CASE channel'[v] = channel[v]
    BY <1>1 DEF InChannel
  <1>2. CASE channel'[v] # channel[v] /\ d # c
    <2>1. v = w /\ channel'[w] = Append(channel[w], c) /\ channel[w] \in Seq(Client)
      BY <1>2 DEF Pass, TypeInv
    <2>2. PICK i \in 1 .. Len(Append(channel[w], c)) : Append(channel[w], c)[i] = d
      BY <2>1 DEF InChannel
    <2>3. i \in 1 .. Len(channel[w]) /\ channel[w][i] = d
      BY <1>2, <2>1, <2>2, AppendProperties
    <2>. QED
      BY <2>1, <2>3 DEF InChannel
  <1>3. CASE channel'[v] # channel[v] /\ d = c
    BY <1>3 DEF Pass, TypeInv
  <1>. QED
    BY <1>1, <1>2, <1>3

LEMMA PlacePass ==
    ASSUME TypeInv, PlaceInv, NEW c \in Client, NEW w \in Worker, Pass(c, w)
    PROVE  PlaceInv'
  <1>1. /\ UNCHANGED <<conns, nextId, state, peer>> /\ c \in backlog /\ c \notin passed
        /\ backlog' = backlog \ {c} /\ Runs(w)
    BY DEF Pass, Accept, client, PlaceInv
  <1>2. \A v \in Worker : ~InChannel(c, v) /\ c \notin ClientsOf(v)
    BY <1>1 DEF PlaceInv, OnePlaceEach
  <1>3. \A v \in Worker : ClientsOf(v)' = ClientsOf(v) /\ Runs(v)' = Runs(v)
    BY <1>1 DEF ClientsOf, Runs
  <1>4. CASE UNCHANGED <<channel, passed>>
    <2>1. \A d \in Client, v \in Worker : InChannel(d, v)' = InChannel(d, v)
      BY <1>4 DEF InChannel
    <2>. QED
      BY <1>1, <1>3, <1>4, <2>1 DEF PlaceInv, OnePlaceEach
  <1>5. CASE /\ channel' = [channel EXCEPT ![w] = Append(@, c)]
             /\ passed' = passed \cup {c}
    <2>1. /\ channel'[w] = Append(channel[w], c) /\ channel[w] \in Seq(Client)
          /\ \A v \in Worker \ {w} : channel'[v] = channel[v]
      BY <1>5 DEF TypeInv
    <2>2. \A d \in Client, v \in Worker :
             InChannel(d, v)' => InChannel(d, v) \/ (d = c /\ v = w)
      BY PassFacts
    <2>3. OnePlaceEach'
      <3>1. ASSUME NEW d \in Client, NEW v \in Worker,
                   InChannel(d, v)' \/ (d \in ClientsOf(v))'
            PROVE  /\ d \in passed' \ backlog' /\ Runs(v)'
                   /\ ~(InChannel(d, v)' /\ (d \in ClientsOf(v))')
                   /\ \A u \in Worker \ {v} : ~InChannel(d, u)' /\ ~(d \in ClientsOf(u))'
        <4>1. CASE d = c
          BY <1>1, <1>2, <1>3, <1>5, <2>2, <3>1, <4>1
        <4>2. CASE d # c
          BY <1>1, <1>3, <1>5, <2>2, <3>1, <4>2 DEF PlaceInv, OnePlaceEach
        <4>. QED
          BY <4>1, <4>2
      <3>. QED
        BY <1>1, <3>1 DEF PlaceInv, OnePlaceEach
    <2>4. \A v \in Worker : \A i, j \in 1 .. Len(channel'[v]) :
             channel'[v][i] = channel'[v][j] => i = j
      <3>0. /\ Len(channel[w]) \in Nat
            /\ Len(Append(channel[w], c)) = Len(channel[w]) + 1
            /\ Append(channel[w], c)[Len(channel[w]) + 1] = c
            /\ \A i \in 1 .. Len(channel[w]) : Append(channel[w], c)[i] = channel[w][i]
        BY <2>1, AppendProperties
      <3>1. ASSUME NEW i \in 1 .. Len(Append(channel[w], c)),
                   NEW j \in 1 .. Len(Append(channel[w], c)),
                   Append(channel[w], c)[i] = Append(channel[w], c)[j], i < j
            PROVE  FALSE
        <4>1. i \in 1 .. Len(channel[w]) /\ Append(channel[w], c)[i] = channel[w][i]
          BY <3>0, <3>1
        <4>2. channel[w][i] # c
          BY <1>2, <4>1 DEF InChannel
        <4>3. j # Len(channel[w]) + 1
          BY <3>0, <3>1, <4>1, <4>2
        <4>4. j \in 1 .. Len(channel[w])
          BY <3>0, <4>3
        <4>5. channel[w][j] = channel[w][i]
          BY <3>0, <3>1, <4>1, <4>4
        <4>. QED
          BY <3>1, <4>1, <4>4, <4>5 DEF PlaceInv
      <3>2. \A i, j \in 1 .. Len(Append(channel[w], c)) : i < j \/ j < i \/ i = j
        BY <2>1, AppendProperties
      <3>3. \A i, j \in 1 .. Len(channel'[w]) : channel'[w][i] = channel'[w][j] => i = j
        BY <2>1, <3>1, <3>2
      <3>. QED
        BY <2>1, <3>3 DEF PlaceInv
    <2>. QED
      BY <1>1, <1>5, <2>3, <2>4 DEF PlaceInv
  <1>. QED
    BY <1>4, <1>5 DEF Pass

(* A worker takes it out of its channel.                                   *)
LEMMA TakeFacts ==
    ASSUME TypeInv, PlaceInv, NEW w \in Worker, Take(w), NEW c, c = Head(channel[w])
    PROVE  /\ c \in Client /\ InChannel(c, w) /\ c \notin ClientsOf(w)
           /\ \A d \in Client, v \in Worker : InChannel(d, v)' => InChannel(d, v)
           /\ ~InChannel(c, w)'
           /\ \A i, j \in 1 .. Len(channel'[w]) : channel'[w][i] = channel'[w][j] => i = j
           /\ \A v \in Worker \ {w} : channel'[v] = channel[v] /\ conns'[v] = conns[v]
           /\ conns'[w] = conns[w] \cup {[id |-> nextId[w], client |-> c]}
           /\ nextId' = [nextId EXCEPT ![w] = @ + 1]
           /\ UNCHANGED <<backlog, passed, state, peer>>
  <1>. DEFINE s == channel[w]
  <1>1. s \in Seq(Client) /\ s # <<>> /\ channel'[w] = Tail(s)
    BY DEF Take, ReadDescriptor, TypeInv
  <1>2. /\ c = s[1] /\ Len(s) \in Nat \ {0} /\ Len(Tail(s)) = Len(s) - 1
        /\ \A i \in 1 .. Len(Tail(s)) : Tail(s)[i] = s[i + 1]
    BY <1>1
  <1>3. c \in Client /\ InChannel(c, w)
    <2>1. 1 \in 1 .. Len(s)
      BY <1>2
    <2>2. c \in Client
      BY <1>1, <1>2, <2>1, ElementOfSeq
    <2>. QED
      BY <1>2, <2>1, <2>2 DEF InChannel
  <1>4. \A v \in Worker \ {w} : channel'[v] = channel[v] /\ conns'[v] = conns[v]
    BY DEF Take, ReadDescriptor, Establish, TypeInv
  <1>5. \A i \in 1 .. Len(Tail(s)) : i + 1 \in 1 .. Len(s)
    BY <1>2
  <1>6. ASSUME NEW d \in Client, NEW v \in Worker, InChannel(d, v)' PROVE InChannel(d, v)
    <2>1. CASE v # w
      BY <1>4, <1>6, <2>1 DEF InChannel
    <2>2. CASE v = w
      <3>1. PICK i \in 1 .. Len(Tail(s)) : Tail(s)[i] = d
        BY <1>1, <1>6, <2>2 DEF InChannel
      <3>2. s[i + 1] = d /\ i + 1 \in 1 .. Len(s)
        BY <1>2, <1>5, <3>1
      <3>. QED
        BY <2>2, <3>2 DEF InChannel
    <2>. QED
      BY <2>1, <2>2
  <1>7. \A i, j \in 1 .. Len(s) : s[i] = s[j] => i = j
    BY DEF PlaceInv
  <1>8. ~InChannel(c, w)'
    <2>1. ASSUME NEW i \in 1 .. Len(Tail(s)), Tail(s)[i] = c PROVE FALSE
      <3>1. s[i + 1] = s[1] /\ i + 1 # 1 /\ 1 \in 1 .. Len(s)
        BY <1>2, <2>1
      <3>. QED
        BY <1>5, <1>7, <3>1
    <2>. QED
      BY <1>1, <2>1 DEF InChannel
  <1>9. \A i, j \in 1 .. Len(channel'[w]) : channel'[w][i] = channel'[w][j] => i = j
    <2>. SUFFICES ASSUME NEW i \in 1 .. Len(Tail(s)), NEW j \in 1 .. Len(Tail(s)),
                         Tail(s)[i] = Tail(s)[j]
                  PROVE  i = j
      BY <1>1
    <2>1. i + 1 = j + 1
      BY <1>2, <1>5, <1>7
    <2>. QED
      BY <2>1
  <1>10. /\ conns'[w] = conns[w] \cup {[id |-> nextId[w], client |-> c]}
         /\ nextId' = [nextId EXCEPT ![w] = @ + 1]
         /\ UNCHANGED <<backlog, passed, state, peer>>
    BY DEF Take, Establish, TypeInv, processes, client
  <1>11. c \notin ClientsOf(w)
    BY <1>3 DEF PlaceInv, OnePlaceEach
  <1>. QED
    BY <1>3, <1>4, <1>6, <1>8, <1>9, <1>10, <1>11

LEMMA PlaceTake ==
    ASSUME TypeInv, PlaceInv, NEW w \in Worker, Take(w)
    PROVE  PlaceInv'
  <1>0. PICK c : c = Head(channel[w])
    OBVIOUS
  <1>. DEFINE n == [id |-> nextId[w], client |-> c]
  <1>1. /\ c \in Client /\ InChannel(c, w) /\ c \notin ClientsOf(w)
        /\ \A d \in Client, v \in Worker : InChannel(d, v)' => InChannel(d, v)
        /\ ~InChannel(c, w)'
        /\ \A i, j \in 1 .. Len(channel'[w]) : channel'[w][i] = channel'[w][j] => i = j
        /\ \A v \in Worker \ {w} : channel'[v] = channel[v] /\ conns'[v] = conns[v]
        /\ conns'[w] = conns[w] \cup {n}
        /\ nextId' = [nextId EXCEPT ![w] = @ + 1]
        /\ UNCHANGED <<backlog, passed, state, peer>>
    BY <1>0, TakeFacts
  <1>2. \A d \in Client, v \in Worker :
           (d \in ClientsOf(v))' <=> d \in ClientsOf(v) \/ (d = c /\ v = w)
    <2>1. \A v \in Worker \ {w} : ClientsOf(v)' = ClientsOf(v)
      BY <1>1 DEF ClientsOf
    <2>2. n \in conns'[w] /\ n.client = c
      BY <1>1
    <2>3. ClientsOf(w)' = ClientsOf(w) \cup {c}
      BY <1>1, <2>2 DEF ClientsOf
    <2>. QED
      BY <2>1, <2>3
  <1>3. ASSUME NEW d \in Client, NEW v \in Worker,
               InChannel(d, v)' \/ (d \in ClientsOf(v))'
        PROVE  /\ d \in passed' \ backlog' /\ Runs(v)'
               /\ ~(InChannel(d, v)' /\ (d \in ClientsOf(v))')
               /\ \A u \in Worker \ {v} : ~InChannel(d, u)' /\ ~(d \in ClientsOf(u))'
    <2>1. InChannel(d, v) \/ d \in ClientsOf(v)
      BY <1>1, <1>2, <1>3
    <2>2. /\ d \in passed \ backlog /\ Runs(v)
          /\ ~(InChannel(d, v) /\ d \in ClientsOf(v))
          /\ \A u \in Worker \ {v} : ~InChannel(d, u) /\ d \notin ClientsOf(u)
      BY <2>1 DEF PlaceInv, OnePlaceEach
    <2>. QED
      BY <1>1, <1>2, <2>2 DEF Runs
  <1>4. nextId[w] \in Nat /\ \A k \in conns[w] : k.id \in Nat /\ k.id < nextId[w]
    BY DEF PlaceInv, TypeInv
  <1>5. \A v \in Worker : \A j, k \in conns'[v] :
           j.client = k.client \/ j.id = k.id => j = k
    <2>1. \A k \in conns[w] : k.client # c /\ k.id # nextId[w]
      BY <1>1, <1>4 DEF ClientsOf
    <2>. QED
      BY <1>1, <2>1 DEF PlaceInv, OnePlaceEach
  <1>6. \A v \in Worker : \A k \in conns'[v] : k.id < nextId'[v]
    <2>1. nextId'[w] = nextId[w] + 1 /\ \A v \in Worker \ {w} : nextId'[v] = nextId[v]
      BY <1>1 DEF TypeInv
    <2>2. \A k \in conns'[w] : k.id < nextId[w] + 1
      BY <1>1, <1>4
    <2>. QED
      BY <1>1, <2>1, <2>2 DEF PlaceInv
  <1>7. OnePlaceEach'
    BY <1>3, <1>5 DEF OnePlaceEach
  <1>. QED
    BY <1>1, <1>6, <1>7 DEF PlaceInv

(* What a process that ends, and a connection that is closed, leave.       *)
LEMMA EndPlaces ==
    ASSUME TypeInv, NEW w \in Worker, NEW s, End(w, s)
    PROVE  /\ channel'[w] = <<>> /\ conns'[w] = {}
           /\ \A v \in Worker \ {w} : /\ channel'[v] = channel[v]
                                      /\ conns'[v] = conns[v] /\ Runs(v)' = Runs(v)
  BY DEF End, TypeInv, Runs

LEMMA PlaceStep == TypeInv /\ PlaceInv /\ [Next]_vars => PlaceInv'
  <1>. SUFFICES ASSUME TypeInv, PlaceInv, [Next]_vars PROVE PlaceInv'
    OBVIOUS
  <1>0. CASE /\ UNCHANGED <<channel, conns, nextId, passed, backlog, state>>
             /\ \A c \in Client : peer[c] # "away" => peer'[c] # "away"
    BY <1>0, PlacesShrink DEF Runs
  <1>1. ASSUME NEW c \in Client, Connect(c) \/ Send(c) \/ HangUp(c) PROVE PlaceInv'
    <2>1. CASE Connect(c)
      BY <2>1, PlaceConnect
    <2>2. CASE Send(c)
      BY <1>0, <2>2 DEF Send, processes, passing
    <2>3. CASE HangUp(c)
      BY <1>0, <2>3 DEF HangUp, processes, passing, TypeInv
    <2>. QED
      BY <1>1, <2>1, <2>2, <2>3
  <1>2. ASSUME NEW c \in Client, NEW w \in Worker, PassToNobody(c, w) PROVE PlaceInv'
    <2>1. /\ UNCHANGED <<channel, conns, nextId, passed, state, peer>>
          /\ backlog' = backlog \ {c}
      BY <1>2 DEF PassToNobody, Accept, client
    <2>2. \A d \in Client, v \in Worker :
             /\ InChannel(d, v)' = InChannel(d, v)
             /\ ClientsOf(v)' = ClientsOf(v) /\ Runs(v)' = Runs(v)
      BY <2>1 DEF InChannel, ClientsOf, Runs
    <2>. QED
      BY <2>1, <2>2 DEF PlaceInv, OnePlaceEach
  <1>3. ASSUME StopMaster \/ ChildrenGone PROVE PlaceInv'
    BY <1>0, <1>3 DEF StopMaster, ChildrenGone, passing, client
  <1>4. ASSUME MasterExit \/ UNCHANGED vars PROVE PlaceInv'
    BY <1>0, <1>4 DEF MasterExit, vars, processes, passing, client
  <1>5. CASE CleanerExit
    <2>1. \A w \in Worker : Runs(w)' = Runs(w)
      BY <1>5, ServerAssumption DEF CleanerExit, Runs, TypeInv, Child
    <2>. QED
      BY <1>5, <2>1, PlacesShrink DEF CleanerExit, passing, client
  <1>6. ASSUME NEW w \in Worker, NEW k \in conns[w], Read(w, k) PROVE PlaceInv'
    BY <1>0, <1>6 DEF Read, processes, passing, client
  <1>7. ASSUME NEW w \in Worker, NEW k \in conns[w], Event(w, k) PROVE PlaceInv'
    <2>1. /\ UNCHANGED <<channel, nextId, passed, backlog, state, peer>>
          /\ \A v \in Worker : conns'[v] \subseteq conns[v]
      BY <1>7
      DEF Event, Close, RemoveConnection, processes, passing, client, TypeInv
    <2>. QED
      BY <2>1, PlacesShrink DEF Runs
  <1>8. ASSUME NEW w \in Worker, NEW k \in conns[w], Write(w, k) PROVE PlaceInv'
    <2>1. CASE peer[k.client] = "reset"
      BY <1>8, <2>1, EndPlaces, PlacesShrink DEF Write
    <2>2. CASE peer[k.client] # "reset"
      BY <1>0, <1>8, <2>2 DEF Write, TypeInv
    <2>. QED
      BY <2>1, <2>2
  <1>9. ASSUME NEW w \in Worker, Stop(w) PROVE PlaceInv'
    <2>1. UNCHANGED <<nextId, passed, backlog, peer>>
      BY <1>9 DEF Stop, client
    <2>2. CASE End(w, "crashed")
      BY <2>1, <2>2, EndPlaces, PlacesShrink
    <2>3. CASE /\ state' = [state EXCEPT ![w] = "leaving"]
               /\ conns' = [conns EXCEPT ![w] = {}] /\ UNCHANGED channel
      <3>1. \A v \in Worker : conns'[v] \subseteq conns[v] /\ (Runs(v) => Runs(v)')
        BY <2>3 DEF Runs, TypeInv, Child
      <3>. QED
        BY <2>1, <2>3, <3>1, PlacesShrink
    <2>. QED
      BY <1>9, <2>2, <2>3 DEF Stop
  <1>10. ASSUME NEW w \in Worker, Exit(w) PROVE PlaceInv'
    BY <1>10, EndPlaces, PlacesShrink DEF Exit, client
  <1>. QED
    BY <1>1, <1>2, <1>3, <1>4, <1>5, <1>6, <1>7, <1>8, <1>9, <1>10, PlacePass, PlaceTake
    DEF Next, WorkerStep

(* Whatever the order of accepting, passing on, closing and stopping, a    *)
(* connection is in one place, in a process that runs, and no two          *)
(* connections of a worker go by one number.                               *)
THEOREM EveryConnectionHasOnePlace == Spec => []OnePlaceEach
  <1>1. TypeInv /\ PlaceInv => OnePlaceEach
    BY DEF PlaceInv
  <1>. QED
    BY TypeInit, PlaceInit, TypeStep, PlaceStep, <1>1, PTL DEF Spec

-----------------------------------------------------------------------------
(* What a step of the system is for one client c: its buffers and what it  *)
(* has sent and received change in one of nine ways.                       *)

Waits(c)  == c \notin passed \/ \E w \in Worker : InChannel(c, w)
Mine(c)   == <<peer[c], sent[c], inbox[c]>>
Buffer(c) == <<got[c], taken[c], out[c]>>
Stays(c)  == (Served(c)' <=> Served(c)) /\ (Waits(c)' => Waits(c))

Idle(c) == Stays(c) /\ UNCHANGED Mine(c) /\ UNCHANGED Buffer(c)

Closed(c) ==
    /\ ~Served(c)' /\ (Waits(c)' => Waits(c)) /\ UNCHANGED Mine(c)
    /\ Buffer(c)' = <<0, 0, <<>>>>

Comes(c) ==
    /\ Stays(c) /\ UNCHANGED Buffer(c)
    /\ peer[c] = "away" /\ ~Served(c) /\ Mine(c)' = <<"open", sent[c], inbox[c]>>

Sends(c) ==
    /\ Stays(c) /\ UNCHANGED Buffer(c) /\ (Waits(c) \/ Served(c))
    /\ UNCHANGED <<peer[c], inbox[c]>>
    /\ \/ c \in Polite /\ 2 * Replies(c) = sent[c] /\ sent'[c] = sent[c] + 2
       \/ c \notin Polite /\ sent'[c] = sent[c] + 1

HangsUp(c) ==
    /\ c \notin Polite /\ Reads(c)
    /\ Stays(c) /\ UNCHANGED Buffer(c) /\ sent'[c] = sent[c]
    /\ \/ peer'[c] = "half" /\ inbox'[c] = inbox[c]
       \/ peer'[c] = "gone" /\ inbox'[c] = <<>>

Greeted(c) ==
    /\ Waits(c) /\ ~Waits(c)' /\ ~Served(c) /\ Served(c)' /\ UNCHANGED Mine(c)
    /\ Buffer(c)' = <<got[c], taken[c], <<Welcome>>>>

Answered(c) ==
    /\ Served(c) /\ Stays(c) /\ UNCHANGED Mine(c)
    /\ \E n \in got[c] + 1 .. sent[c] :
          /\ c \in Polite => n = sent[c]
          /\ \/ /\ 2 * (taken[c] + 1) <= n
                /\ Buffer(c)' = <<n, taken[c] + 1, Append(out[c], <<c, taken[c] + 1>>)>>
             \/ /\ 2 * (taken[c] + 1) > n
                /\ Buffer(c)' = <<n, taken[c], Append(out[c], Invalid)>>

Receives(c) ==
    /\ Served(c) /\ Stays(c) /\ Reads(c)
    /\ Mine(c)' = <<peer[c], sent[c], inbox[c] \o out[c]>>
    /\ Buffer(c)' = <<got[c], taken[c], <<>>>>

IsReset(c) ==
    /\ Served(c) /\ Stays(c) /\ peer[c] = "gone"
    /\ Mine(c)' = <<"reset", sent[c], inbox[c]>>
    /\ Buffer(c)' = <<got[c], taken[c], <<>>>>

ClientStep(c) ==
    \/ Idle(c) \/ Closed(c) \/ Comes(c) \/ Sends(c) \/ HangsUp(c)
    \/ Greeted(c) \/ Answered(c) \/ Receives(c) \/ IsReset(c)

LEMMA ServedFacts ==
    ASSUME PlaceInv, NEW c \in Client, NEW w \in Worker, c \in ClientsOf(w)
    PROVE  /\ Served(c) /\ ~Waits(c) /\ peer[c] # "away"
           /\ \A v \in Worker \ {w} : c \notin ClientsOf(v)
  BY DEF PlaceInv, OnePlaceEach, Served, Waits

LEMMA SamePlaces ==
    ASSUME NEW c \in Client, UNCHANGED <<conns, channel, passed>>
    PROVE  Stays(c)
  BY DEF Stays, Served, Waits, ClientsOf, InChannel

(* The connections of a worker are closed, all of them.                    *)
LEMMA AllClosed ==
    ASSUME TypeInv, PlaceInv, NEW w \in Worker, NEW c \in Client,
           conns' = [conns EXCEPT ![w] = {}], Free(ClientsOf(w)),
           \/ UNCHANGED channel \/ channel' = [channel EXCEPT ![w] = <<>>],
           UNCHANGED <<passed, Mine(c)>>
    PROVE  ClientStep(c)
  <1>1. /\ ClientsOf(w)' = {}
        /\ \A v \in Worker \ {w} : ClientsOf(v)' = ClientsOf(v)
    BY DEF ClientsOf, TypeInv
  <1>2. Waits(c)' => Waits(c)
    <2>1. \A v \in Worker : channel'[v] = channel[v] \/ channel'[v] = <<>>
      BY DEF TypeInv
    <2>2. \A v \in Worker : InChannel(c, v)' => InChannel(c, v)
      BY <2>1 DEF InChannel
    <2>. QED
      BY <2>2 DEF Waits
  <1>3. CASE c \in ClientsOf(w)
    <2>1. ~Served(c)'
      BY <1>1, <1>3, ServedFacts DEF Served
    <2>2. Buffer(c)' = <<0, 0, <<>>>>
      BY <1>3 DEF Free, Buffer
    <2>. QED
      BY <1>2, <2>1, <2>2 DEF Closed, ClientStep
  <1>4. CASE c \notin ClientsOf(w)
    <2>1. Served(c)' <=> Served(c)
      BY <1>1, <1>4 DEF Served
    <2>2. UNCHANGED Buffer(c)
      BY <1>4 DEF Free, Buffer
    <2>. QED
      BY <1>2, <2>1, <2>2 DEF Idle, Stays, ClientStep
  <1>. QED
    BY <1>3, <1>4

LEMMA EndClosesAll ==
    ASSUME TypeInv, PlaceInv, NEW w \in Worker, NEW s, End(w, s), NEW c \in Client,
           UNCHANGED <<passed, Mine(c)>>
    PROVE  ClientStep(c)
  BY AllClosed DEF End

(* A callback for connection k of worker w is about the buffers of one     *)
(* client, because the numbers of the connections are different.           *)
LEMMA ResponseGoesToOne ==
    ASSUME TypeInv, PlaceInv, NEW w \in Worker, NEW k \in conns[w], NEW r,
           SendResponse(w, k.id, r), NEW c \in Client
    PROVE  out'[c] = IF c = k.client THEN Append(out[c], r) ELSE out[c]
  <1>1. k = [id |-> k.id, client |-> k.client] /\ k.client \in Client
    BY DEF TypeInv
  <1>2. c = k.client <=> [id |-> k.id, client |-> c] \in conns[w]
    BY <1>1 DEF PlaceInv, OnePlaceEach
  <1>. QED
    BY <1>2 DEF SendResponse

LEMMA OneClosed ==
    ASSUME TypeInv, PlaceInv, NEW w \in Worker, NEW k \in conns[w], Close(w, k),
           NEW c \in Client
    PROVE  /\ c = k.client => ~Served(c)' /\ Buffer(c)' = <<0, 0, <<>>>>
           /\ c # k.client => (Served(c)' <=> Served(c)) /\ UNCHANGED Buffer(c)
  <1>1. /\ \A v \in Worker \ {w} : conns'[v] = conns[v]
        /\ conns'[w] = {j \in conns[w] : j.id # k.id}
    BY DEF Close, RemoveConnection, TypeInv
  <1>2. \A j \in conns[w] : j.id = k.id <=> j = k
    BY DEF PlaceInv, OnePlaceEach
  <1>3. \A j \in conns[w] : j.client = k.client => j = k
    BY DEF PlaceInv, OnePlaceEach
  <1>4. CASE c = k.client
    <2>1. c \in ClientsOf(w)
      BY <1>4 DEF ClientsOf
    <2>2. \A v \in Worker \ {w} : ~(c \in ClientsOf(v))'
      BY <1>1, <2>1, ServedFacts DEF ClientsOf
    <2>3. ~(c \in ClientsOf(w))'
      BY <1>1, <1>2, <1>3, <1>4 DEF ClientsOf
    <2>4. Buffer(c)' = <<0, 0, <<>>>>
      BY <1>4 DEF Close, Free, Buffer
    <2>. QED
      BY <1>4, <2>2, <2>3, <2>4 DEF Served
  <1>5. CASE c # k.client
    <2>1. (c \in ClientsOf(w))' <=> c \in ClientsOf(w)
      BY <1>1, <1>2, <1>5 DEF ClientsOf
    <2>2. \A v \in Worker \ {w} : (c \in ClientsOf(v))' <=> c \in ClientsOf(v)
      BY <1>1 DEF ClientsOf
    <2>3. UNCHANGED Buffer(c)
      BY <1>5 DEF Close, Free, Buffer
    <2>. QED
      BY <1>5, <2>1, <2>2, <2>3 DEF Served
  <1>. QED
    BY <1>4, <1>5

LEMMA ClientSteps ==
    ASSUME TypeInv, PlaceInv, [Next]_vars, NEW c \in Client
    PROVE  ClientStep(c)
  <1>1. ASSUME NEW d \in Client, Connect(d) \/ Send(d) \/ HangUp(d) PROVE ClientStep(c)
    <2>1. Stays(c) /\ UNCHANGED Buffer(c)
      BY <1>1, SamePlaces DEF Connect, Send, HangUp, passing, buffers, Buffer
    <2>2. CASE c # d
      BY <1>1, <2>1, <2>2 DEF Connect, Send, HangUp, Mine, TypeInv, Idle, ClientStep
    <2>3. CASE c = d /\ Connect(c)
      <3>1. ~Served(c)
        BY <2>3, ServedFacts DEF Connect, Served
      <3>. QED
        BY <2>1, <2>3, <3>1 DEF Connect, Mine, TypeInv, Comes, ClientStep
    <2>4. CASE c = d /\ Send(c)
      <3>1. Waits(c) \/ Served(c)
        BY <2>4 DEF Send, Connected, Waits, Served, PlaceInv
      <3>. QED
        BY <2>1, <2>4, <3>1 DEF Send, TypeInv, Sends, ClientStep
    <2>5. CASE c = d /\ HangUp(c)
      BY <2>1, <2>5 DEF HangUp, Reads, TypeInv, HangsUp, ClientStep
    <2>. QED
      BY <1>1, <2>2, <2>3, <2>4, <2>5
  <1>2. ASSUME NEW d \in Client, NEW w \in Worker, Pass(d, w) PROVE ClientStep(c)
    <2>1. UNCHANGED <<conns, Mine(c), Buffer(c)>>
      BY <1>2 DEF Pass, Accept, client, buffers, Mine, Buffer
    <2>2. Waits(c)' => Waits(c)
      <3>1. c # d => (c \in passed <=> c \in passed')
        BY <1>2 DEF Pass
      <3>2. c = d => c \notin passed
        BY <1>2 DEF Pass, Accept, PlaceInv
      <3>. QED
        BY <1>2, <3>1, <3>2, PassFacts DEF Waits
    <2>. QED
      BY <2>1, <2>2 DEF Idle, Stays, Served, ClientsOf, ClientStep
  <1>3. ASSUME UNCHANGED <<conns, channel, passed, client, buffers>> PROVE ClientStep(c)
    BY <1>3, SamePlaces DEF client, buffers, Mine, Buffer, Idle, ClientStep
  <1>4. ASSUME NEW d \in Client, NEW w \in Worker, PassToNobody(d, w) PROVE ClientStep(c)
    BY <1>3, <1>4 DEF PassToNobody, Accept
  <1>5. ASSUME StopMaster \/ ChildrenGone \/ MasterExit \/ CleanerExit \/ UNCHANGED vars
        PROVE  ClientStep(c)
    BY <1>3, <1>5 DEF StopMaster, ChildrenGone, MasterExit, CleanerExit, vars, passing
  <1>6. ASSUME NEW w \in Worker, Take(w) PROVE ClientStep(c)
    <2>0. PICK d : d = Head(channel[w])
      OBVIOUS
    <2>1. /\ d \in Client /\ InChannel(d, w)
          /\ \A v \in Worker : InChannel(c, v)' => InChannel(c, v)
          /\ ~InChannel(d, w)' /\ UNCHANGED passed
          /\ \A v \in Worker \ {w} : channel'[v] = channel[v] /\ conns'[v] = conns[v]
          /\ conns'[w] = conns[w] \cup {[id |-> nextId[w], client |-> d]}
      BY <1>6, <2>0, TakeFacts
    <2>2. /\ UNCHANGED <<Mine(c), got[c], taken[c]>>
          /\ out'[c] = IF c = d THEN <<Welcome>> ELSE out[c]
      BY <1>6, <2>0 DEF Take, Establish, client, Mine, TypeInv
    <2>3. Waits(c)' => Waits(c)
      BY <2>1 DEF Waits
    <2>4. CASE c # d
      <3>1. \A v \in Worker : (c \in ClientsOf(v))' <=> c \in ClientsOf(v)
        BY <2>1, <2>4 DEF ClientsOf
      <3>. QED
        BY <2>2, <2>3, <2>4, <3>1 DEF Buffer, Served, Stays, Idle, ClientStep
    <2>5. CASE c = d
      <3>1. /\ c \in passed /\ \A v \in Worker : c \notin ClientsOf(v)
            /\ \A v \in Worker \ {w} : ~InChannel(c, v)
        BY <2>1, <2>5 DEF PlaceInv, OnePlaceEach
      <3>2. Waits(c) /\ ~Served(c) /\ ~Waits(c)'
        BY <2>1, <2>5, <3>1 DEF Waits, Served
      <3>3. Served(c)'
        <4>. DEFINE k == [id |-> nextId[w], client |-> d]
        <4>1. k \in conns'[w] /\ k.client = c
          BY <2>1, <2>5
        <4>. QED
          BY <4>1 DEF Served, ClientsOf
      <3>. QED
        BY <2>2, <2>5, <3>2, <3>3 DEF Buffer, Greeted, ClientStep
    <2>. QED
      BY <2>4, <2>5
  <1>7. ASSUME NEW w \in Worker, NEW k \in conns[w], Read(w, k) PROVE ClientStep(c)
    <2>1. Stays(c) /\ UNCHANGED Mine(c)
      BY <1>7, SamePlaces DEF Read, passing, client, Mine
    <2>2. PICK n \in got[k.client] + 1 .. sent[k.client] :
             /\ k.client \in Polite => n = sent[k.client]
             /\ ReadLine(w, k, n)
      BY <1>7 DEF Read
    <2>3. CASE c # k.client
      <3>1. UNCHANGED Buffer(c)
        BY <2>2, <2>3, ResponseGoesToOne DEF ReadLine, Buffer, TypeInv
      <3>. QED
        BY <2>1, <3>1 DEF Idle, ClientStep
    <2>4. CASE c = k.client
      <3>1. Served(c)
        BY <2>4 DEF Served, ClientsOf
      <3>2. \/ /\ 2 * (taken[c] + 1) <= n
               /\ Buffer(c)' = <<n, taken[c] + 1, Append(out[c], <<c, taken[c] + 1>>)>>
            \/ /\ 2 * (taken[c] + 1) > n
               /\ Buffer(c)' = <<n, taken[c], Append(out[c], Invalid)>>
        <4>1. \A r : SendResponse(w, k.id, r) => out'[c] = Append(out[c], r)
          BY <2>4, ResponseGoesToOne
        <4>2. /\ got'[c] = n
              /\ \/ /\ 2 * (taken[c] + 1) <= n /\ taken'[c] = taken[c] + 1
                    /\ SendResponse(w, k.id, <<c, taken[c] + 1>>)
                 \/ /\ 2 * (taken[c] + 1) > n /\ taken'[c] = taken[c]
                    /\ SendResponse(w, k.id, Invalid)
          BY <2>2, <2>4 DEF ReadLine, TypeInv
        <4>. QED
          BY <4>1, <4>2 DEF Buffer
      <3>. QED
        BY <2>1, <2>2, <2>4, <3>1, <3>2 DEF Answered, ClientStep
    <2>. QED
      BY <2>3, <2>4
  <1>8. ASSUME NEW w \in Worker, NEW k \in conns[w], Event(w, k) PROVE ClientStep(c)
    <2>1. /\ UNCHANGED <<channel, passed, Mine(c)>> /\ Close(w, k)
      BY <1>8 DEF Event, passing, client, Mine
    <2>2. Waits(c)' => Waits(c)
      BY <2>1 DEF Waits, InChannel
    <2>. QED
      BY <2>1, <2>2, OneClosed DEF Idle, Closed, Stays, ClientStep
  <1>9. ASSUME NEW w \in Worker, NEW k \in conns[w], Write(w, k) PROVE ClientStep(c)
    <2>1. CASE peer[k.client] = "reset"
      BY <1>9, <2>1, EndClosesAll DEF Write, Mine
    <2>2. CASE peer[k.client] # "reset"
      <3>1. Stays(c)
        BY <1>9, <2>2, SamePlaces DEF Write
      <3>2. CASE c # k.client
        BY <1>9, <2>2, <3>1, <3>2 DEF Write, Mine, Buffer, TypeInv, Idle, ClientStep
      <3>3. CASE c = k.client
        <4>1. Served(c)
          BY <3>3 DEF Served, ClientsOf
        <4>2. CASE peer[c] \in {"open", "half"}
          BY <1>9, <3>1, <3>3, <4>1, <4>2
          DEF Write, Mine, Buffer, Reads, TypeInv, Receives, ClientStep
        <4>3. CASE peer[c] \notin {"open", "half"}
          BY <1>9, <2>2, <3>1, <3>3, <4>1, <4>3
          DEF Write, Mine, Buffer, TypeInv, IsReset, ClientStep
        <4>. QED
          BY <4>2, <4>3
      <3>. QED
        BY <3>2, <3>3
    <2>. QED
      BY <2>1, <2>2
  <1>10. ASSUME NEW w \in Worker, Stop(w) \/ Exit(w) PROVE ClientStep(c)
    <2>1. UNCHANGED <<passed, Mine(c)>>
      BY <1>10 DEF Stop, Exit, client, Mine
    <2>2. CASE \E s : End(w, s)
      BY <2>1, <2>2, EndClosesAll
    <2>3. CASE conns' = [conns EXCEPT ![w] = {}] /\ Free(ClientsOf(w)) /\ UNCHANGED channel
      BY <2>1, <2>3, AllClosed
    <2>. QED
      BY <1>10, <2>2, <2>3 DEF Stop, Exit
  <1>. QED
    BY <1>1, <1>2, <1>4, <1>5, <1>6, <1>7, <1>8, <1>9, <1>10 DEF Next, WorkerStep

-----------------------------------------------------------------------------
(* Answers.                                                                *)

LEMMA ConcatAppend ==
    \A s, t \in Seq(Message), e \in Message : s \o Append(t, e) = Append(s \o t, e)
  <1>. SUFFICES ASSUME NEW s \in Seq(Message), NEW t \in Seq(Message), NEW e \in Message
                PROVE  s \o Append(t, e) = Append(s \o t, e)
    OBVIOUS
  <1>1. /\ Append(t, e) = t \o <<e>> /\ <<e>> \in Seq(Message)
        /\ s \o t \in Seq(Message) /\ Append(s \o t, e) = (s \o t) \o <<e>>
    BY AppendIsConcat, ConcatProperties
  <1>. QED
    BY <1>1, ConcatAssociative

LEMMA AnswersDiffer ==
    ASSUME NEW s \in Seq(Message), NEW c \in Client, NEW m \in Nat, InOrder(s, c, m),
           NEW i \in 1 .. Len(s), NEW n \in Nat, s[i] = <<c, n>>
    PROVE  n \in 1 .. m
  <1>1. <<c, n>> \notin {Welcome, Invalid}
    BY ServerAssumption
  <1>2. PICK k \in 1 .. m : s[i] = <<c, k>>
    BY <1>1 DEF InOrder
  <1>. QED
    BY <1>2

(* One more answer, and any other text, keep the order.                    *)
LEMMA NextAnswer ==
    ASSUME NEW s \in Seq(Message), NEW c \in Client, NEW m \in Nat, InOrder(s, c, m)
    PROVE  InOrder(Append(s, <<c, m + 1>>), c, m + 1)
  <1>. DEFINE t == Append(s, <<c, m + 1>>)
  <1>1. /\ Len(s) \in Nat /\ Len(t) = Len(s) + 1 /\ t[Len(s) + 1] = <<c, m + 1>>
        /\ \A i \in 1 .. Len(s) : t[i] = s[i]
    BY AppendProperties DEF Message
  <1>2. \A i \in 1 .. Len(t) : i \in 1 .. Len(s) \/ i = Len(s) + 1
    BY <1>1
  <1>. HIDE DEF t
  <1>3. \A i \in 1 .. Len(t) :
           t[i] \in {Welcome, Invalid} \/ \E n \in 1 .. m + 1 : t[i] = <<c, n>>
    <2>1. m + 1 \in 1 .. m + 1 /\ 1 .. m \subseteq 1 .. m + 1
      OBVIOUS
    <2>. QED
      BY <1>1, <1>2, <2>1 DEF InOrder
  <1>4. \A n \in 1 .. m + 1 : \E i \in 1 .. Len(t) : t[i] = <<c, n>>
    <2>1. \A n \in 1 .. m + 1 : n \in 1 .. m \/ n = m + 1
      OBVIOUS
    <2>2. Len(s) + 1 \in 1 .. Len(t) /\ 1 .. Len(s) \subseteq 1 .. Len(t)
      BY <1>1
    <2>. QED
      BY <1>1, <2>1, <2>2 DEF InOrder
  <1>5. \A i, j \in 1 .. Len(t), n, k \in 1 .. m + 1 :
           i < j /\ t[i] = <<c, n>> /\ t[j] = <<c, k>> => n < k
    <2>. SUFFICES ASSUME NEW i \in 1 .. Len(t), NEW j \in 1 .. Len(t), i < j,
                         NEW n \in 1 .. m + 1, NEW k \in 1 .. m + 1,
                         t[i] = <<c, n>>, t[j] = <<c, k>>
                  PROVE  n < k
      OBVIOUS
    <2>1. i \in 1 .. Len(s) /\ s[i] = <<c, n>>
      BY <1>1
    <2>2. n \in 1 .. m
      BY <2>1, AnswersDiffer
    <2>3. CASE j = Len(s) + 1
      BY <1>1, <2>2, <2>3
    <2>4. CASE j \in 1 .. Len(s)
      <3>1. s[j] = <<c, k>> /\ k \in 1 .. m
        BY <1>1, <2>4, AnswersDiffer
      <3>. QED
        BY <2>1, <2>2, <2>4, <3>1 DEF InOrder
    <2>. QED
      BY <1>2, <2>3, <2>4
  <1>6. InOrder(t, c, m + 1)
    BY <1>3, <1>4, <1>5 DEF InOrder
  <1>. QED
    BY <1>6 DEF t

LEMMA NextText ==
    ASSUME NEW s \in Seq(Message), NEW c \in Client, NEW m \in Nat, InOrder(s, c, m),
           NEW r \in {Welcome, Invalid}
    PROVE  InOrder(Append(s, r), c, m)
  <1>. DEFINE t == Append(s, r)
  <1>1. /\ Len(s) \in Nat /\ Len(t) = Len(s) + 1 /\ t[Len(s) + 1] = r
        /\ \A i \in 1 .. Len(s) : t[i] = s[i]
    BY AppendProperties DEF Message
  <1>2. \A i \in 1 .. Len(t) : i \in 1 .. Len(s) \/ i = Len(s) + 1
    BY <1>1
  <1>3. 1 .. Len(s) \subseteq 1 .. Len(t)
    BY <1>1
  <1>4. \A n \in Nat : r # <<c, n>>
    BY ServerAssumption
  <1>. HIDE DEF t
  <1>5. \A i \in 1 .. Len(t) :
           t[i] \in {Welcome, Invalid} \/ \E n \in 1 .. m : t[i] = <<c, n>>
    BY <1>1, <1>2 DEF InOrder
  <1>6. \A n \in 1 .. m : \E i \in 1 .. Len(t) : t[i] = <<c, n>>
    BY <1>1, <1>3 DEF InOrder
  <1>7. \A i, j \in 1 .. Len(t), n, k \in 1 .. m :
           i < j /\ t[i] = <<c, n>> /\ t[j] = <<c, k>> => n < k
    <2>1. ASSUME NEW i \in 1 .. Len(t), NEW n \in 1 .. m, t[i] = <<c, n>>
          PROVE  i \in 1 .. Len(s)
      <3>1. t[i] # r
        BY <1>4, <2>1
      <3>. QED
        BY <1>1, <1>2, <3>1
    <2>. QED
      BY <1>1, <2>1 DEF InOrder
  <1>8. InOrder(t, c, m)
    BY <1>5, <1>6, <1>7 DEF InOrder
  <1>. QED
    BY <1>8 DEF t

(* What a connection that is served, one that waits to be, and one that is *)
(* closed have in their buffers; the answers given are to the lines taken. *)
OrderInv(c) ==
    /\ ~Served(c) => got[c] = 0 /\ taken[c] = 0 /\ out[c] = <<>>
    /\ Waits(c) \/ ~Reads(c) => inbox[c] = <<>>
    /\ 2 * taken[c] <= got[c] /\ got[c] <= sent[c]
    /\ \E m \in Nat : InOrder(inbox[c], c, m) /\ 2 * m <= sent[c]
    /\ Reads(c) /\ Served(c) => InOrder(inbox[c] \o out[c], c, taken[c])

LEMMA NoAnswers ==
    ASSUME NEW c \in Client
    PROVE  InOrder(<<>>, c, 0)
  <1>1. 1 .. Len(<<>>) = {} /\ 1 .. 0 = {}
    OBVIOUS
  <1>. QED
    BY <1>1 DEF InOrder

LEMMA OrderStep ==
    ASSUME TypeInv, TypeInv', PlaceInv, NEW c \in Client, OrderInv(c), ClientStep(c)
    PROVE  OrderInv(c)'
  <1>. DEFINE All == inbox[c] \o out[c]
  <1>0. /\ out[c] \in Seq(Message) /\ inbox[c] \in Seq(Message) /\ All \in Seq(Message)
        /\ sent[c] \in Nat /\ got[c] \in Nat /\ taken[c] \in Nat
        /\ <<>> \in Seq(Message) /\ Welcome \in Message /\ Invalid \in Message
    BY ConcatProperties DEF TypeInv, Message
  <1>1. CASE Idle(c)
    BY <1>1 DEF Idle, Stays, Mine, Buffer, OrderInv, Reads
  <1>2. CASE Closed(c)
    BY <1>0, <1>2 DEF Closed, Mine, Buffer, OrderInv, Reads
  <1>3. CASE Comes(c)
    <2>1. inbox[c] = <<>>
      BY <1>3 DEF Comes, OrderInv, Reads
    <2>. QED
      BY <1>0, <1>3, <2>1 DEF Comes, Stays, Mine, Buffer, OrderInv
  <1>4. CASE Sends(c)
    <2>1. sent'[c] \in Nat /\ sent[c] <= sent'[c]
      BY <1>0, <1>4 DEF Sends
    <2>2. \A m \in Nat : 2 * m <= sent[c] => 2 * m <= sent'[c]
      BY <1>0, <2>1
    <2>. QED
      BY <1>0, <1>4, <2>1, <2>2 DEF Sends, Stays, Buffer, OrderInv, Reads
  <1>5. CASE HangsUp(c)
    <2>1. CASE inbox'[c] = <<>> /\ peer'[c] = "gone"
      BY <1>0, <1>5, <2>1, NoAnswers DEF HangsUp, Stays, Buffer, OrderInv, Reads
    <2>2. CASE inbox'[c] = inbox[c] /\ peer'[c] = "half"
      BY <1>0, <1>5, <2>2 DEF HangsUp, Stays, Buffer, OrderInv, Reads
    <2>. QED
      BY <1>5, <2>1, <2>2 DEF HangsUp
  <1>6. CASE Greeted(c)
    <2>1. inbox[c] = <<>> /\ taken[c] = 0 /\ out'[c] = <<Welcome>> /\ inbox'[c] = <<>>
      BY <1>6 DEF Greeted, OrderInv, Mine, Buffer
    <2>2. <<>> \o <<Welcome>> = Append(<<>>, Welcome)
      BY <1>0
    <2>3. InOrder(inbox'[c] \o out'[c], c, 0)
      BY <1>0, <2>1, <2>2, NoAnswers, NextText
    <2>. QED
      BY <1>0, <1>6, <2>1, <2>3 DEF Greeted, Mine, Buffer, OrderInv, Reads
  <1>7. CASE Answered(c)
    <2>1. Served(c) /\ Stays(c) /\ UNCHANGED <<peer[c], sent[c], inbox[c]>>
      BY <1>7 DEF Answered, Mine
    <2>2. Reads(c) => InOrder(All, c, taken[c])
      BY <2>1 DEF OrderInv
    <2>3. PICK n \in got[c] + 1 .. sent[c] :
             \/ /\ 2 * (taken[c] + 1) <= n
                /\ Buffer(c)' = <<n, taken[c] + 1, Append(out[c], <<c, taken[c] + 1>>)>>
             \/ /\ 2 * (taken[c] + 1) > n
                /\ Buffer(c)' = <<n, taken[c], Append(out[c], Invalid)>>
      BY <1>7 DEF Answered
    <2>4. <<c, taken[c] + 1>> \in Message
      BY <1>0 DEF Message
    <2>5. Reads(c) => InOrder(inbox[c] \o out'[c], c, taken'[c])
      <3>1. inbox[c] \o Append(out[c], <<c, taken[c] + 1>>)
              = Append(All, <<c, taken[c] + 1>>)
        BY <1>0, <2>4, ConcatAppend, Zenon
      <3>2. inbox[c] \o Append(out[c], Invalid) = Append(All, Invalid)
        BY <1>0, ConcatAppend, Zenon
      <3>3. Reads(c) => /\ InOrder(Append(All, <<c, taken[c] + 1>>), c, taken[c] + 1)
                        /\ InOrder(Append(All, Invalid), c, taken[c])
        BY <1>0, <2>2, NextAnswer, NextText
      <3>. QED
        BY <2>3, <3>1, <3>2, <3>3 DEF Buffer
    <2>6. got'[c] = n /\ n \in Nat /\ n <= sent[c] /\ 2 * taken'[c] <= n
      BY <1>0, <2>1, <2>3 DEF Buffer, OrderInv
    <2>. QED
      BY <2>1, <2>5, <2>6 DEF Stays, OrderInv, Reads
  <1>8. CASE Receives(c)
    <2>1. All \o <<>> = All
      BY <1>0, ConcatEmptySeq
    <2>2. InOrder(All, c, taken[c]) /\ 2 * taken[c] <= sent[c]
      BY <1>0, <1>8 DEF Receives, OrderInv
    <2>3. /\ inbox'[c] = All /\ out'[c] = <<>> /\ Served(c) /\ Stays(c) /\ Reads(c)
          /\ UNCHANGED <<peer[c], sent[c], got[c], taken[c]>>
      BY <1>8 DEF Receives, Mine, Buffer
    <2>4. ~Waits(c)'
      BY <2>3, ServedFacts DEF Served, Stays
    <2>. QED
      BY <1>0, <2>1, <2>2, <2>3, <2>4 DEF Stays, OrderInv, Reads
  <1>9. CASE IsReset(c)
    BY <1>0, <1>9 DEF IsReset, Stays, Mine, Buffer, OrderInv, Reads
  <1>. QED
    BY <1>1, <1>2, <1>3, <1>4, <1>5, <1>6, <1>7, <1>8, <1>9 DEF ClientStep

OrdersInv == \A c \in Client : OrderInv(c)

LEMMA OrderInit == Init => OrdersInv
  <1>. SUFFICES ASSUME Init, NEW c \in Client PROVE OrderInv(c)
    BY DEF OrdersInv
  <1>1. \A w \in Worker : c \notin ClientsOf(w)
    BY DEF Init, ClientsOf
  <1>2. /\ out[c] = <<>> /\ inbox[c] = <<>> /\ sent[c] = 0 /\ got[c] = 0 /\ taken[c] = 0
        /\ InOrder(<<>>, c, 0)
    BY NoAnswers DEF Init
  <1>. QED
    BY <1>1, <1>2 DEF OrderInv, Served

LEMMA OrdersStep == TypeInv /\ PlaceInv /\ OrdersInv /\ [Next]_vars => OrdersInv'
  BY TypeStep, ClientSteps, OrderStep DEF OrdersInv

(* For every number of clients and workers, and however lines are cut up:  *)
(* what a client has received, with what its connection has yet to send,   *)
(* are the answers to its first lines, in their order.                     *)
THEOREM AnswersKeepOrder == Spec => []AnswersInOrder
  <1>1. ASSUME TypeInv, OrdersInv PROVE AnswersInOrder
    <2>. SUFFICES ASSUME NEW c \in Client
                  PROVE  \E m \in 0 .. sent[c] :
                           /\ InOrder(IF Reads(c) THEN inbox[c] \o out[c] ELSE inbox[c], c, m)
                           /\ 2 * m <= sent[c]
                           /\ Reads(c) /\ Served(c) => m = taken[c]
      BY DEF AnswersInOrder
    <2>1. /\ OrderInv(c) /\ inbox[c] \in Seq(Message)
          /\ sent[c] \in Nat /\ got[c] \in Nat /\ taken[c] \in Nat
      BY <1>1 DEF OrdersInv, TypeInv
    <2>2. CASE Reads(c) /\ Served(c)
      <3>1. 2 * taken[c] <= sent[c] /\ taken[c] \in 0 .. sent[c]
        BY <2>1 DEF OrderInv
      <3>. QED
        BY <2>1, <2>2, <3>1 DEF OrderInv
    <2>3. CASE ~(Reads(c) /\ Served(c))
      <3>1. PICK m \in Nat : InOrder(inbox[c], c, m) /\ 2 * m <= sent[c]
        BY <2>1 DEF OrderInv
      <3>2. m \in 0 .. sent[c]
        BY <2>1, <3>1
      <3>3. Reads(c) => inbox[c] \o out[c] = inbox[c]
        BY <2>1, <2>3, ConcatEmptySeq DEF OrderInv
      <3>. QED
        BY <2>3, <3>1, <3>2, <3>3
    <2>. QED
      BY <2>2, <2>3
  <1>. QED
    BY TypeInit, PlaceInit, OrderInit, TypeStep, PlaceStep, OrdersStep, <1>1, PTL DEF Spec

-----------------------------------------------------------------------------
(* Clients that wait for their answers.                                    *)

(* A greeting, and then answers only.                                      *)
AnswersOnly(s) ==
    /\ s # <<>> /\ s[1] = Welcome
    /\ \A i \in 2 .. Len(s) : s[i] \notin {Welcome, Invalid}

(* Such a client has one line at most under way, and it is a whole line.   *)
PoliteInv(c) ==
    /\ peer[c] \in {"away", "open"}
    /\ inbox[c] # <<>> => AnswersOnly(inbox[c]) /\ 2 * (Len(inbox[c]) - 1) <= sent[c]
    /\ Waits(c) => sent[c] = 0 \/ sent[c] = 2
    /\ Served(c) =>
          /\ AnswersOnly(inbox[c] \o out[c])
          /\ Len(inbox[c] \o out[c]) = taken[c] + 1
          /\ got[c] = 2 * taken[c] /\ (sent[c] = got[c] \/ sent[c] = got[c] + 2)

LEMMA OneMoreAnswer ==
    ASSUME NEW s \in Seq(Message), AnswersOnly(s), NEW c \in Client, NEW n \in Nat
    PROVE  /\ AnswersOnly(Append(s, <<c, n>>))
           /\ Len(Append(s, <<c, n>>)) = Len(s) + 1
  <1>1. <<c, n>> \in Message /\ <<c, n>> \notin {Welcome, Invalid}
    BY ServerAssumption DEF Message
  <1>2. /\ Len(Append(s, <<c, n>>)) = Len(s) + 1 /\ Append(s, <<c, n>>) # <<>>
        /\ \A i \in 1 .. Len(s) : Append(s, <<c, n>>)[i] = s[i]
        /\ Append(s, <<c, n>>)[Len(s) + 1] = <<c, n>>
    BY <1>1, AppendProperties
  <1>3. Len(s) \in Nat /\ Len(s) # 0
    BY EmptySeq DEF AnswersOnly
  <1>4. \A i \in 2 .. Len(s) + 1 : i \in 2 .. Len(s) \/ i = Len(s) + 1
    BY <1>3
  <1>5. \A i \in 2 .. Len(s) : i \in 1 .. Len(s)
    BY <1>3
  <1>. QED
    BY <1>1, <1>2, <1>3, <1>4, <1>5 DEF AnswersOnly

LEMMA PoliteFacts ==
    ASSUME TypeInv, PlaceInv, NEW c \in Polite, OrderInv(c), PoliteInv(c),
           NEW s, s = inbox[c] \o out[c]
    PROVE  /\ c \in Client /\ Len(s) = Len(inbox[c]) + Len(out[c])
           /\ out[c] \in Seq(Message) /\ inbox[c] \in Seq(Message) /\ s \in Seq(Message)
           /\ sent[c] \in Nat /\ got[c] \in Nat /\ taken[c] \in Nat
           /\ Served(c) => /\ AnswersOnly(s) /\ Len(s) = taken[c] + 1 /\ ~Waits(c)
                           /\ got[c] = 2 * taken[c] /\ (sent[c] = got[c] \/ sent[c] = got[c] + 2)
  <1>1. c \in Client
    BY ServerAssumption
  <1>2. /\ out[c] \in Seq(Message) /\ inbox[c] \in Seq(Message) /\ s \in Seq(Message)
        /\ sent[c] \in Nat /\ got[c] \in Nat /\ taken[c] \in Nat
        /\ Len(s) = Len(inbox[c]) + Len(out[c])
    BY <1>1, ConcatProperties DEF TypeInv
  <1>3. Served(c) => ~Waits(c)
    BY <1>1, ServedFacts DEF Served
  <1>4. Served(c) => /\ AnswersOnly(s) /\ Len(s) = taken[c] + 1
                     /\ got[c] = 2 * taken[c] /\ (sent[c] = got[c] \/ sent[c] = got[c] + 2)
    BY Zenon DEF PoliteInv
  <1>. QED
    BY <1>1, <1>2, <1>3, <1>4

LEMMA PoliteStep ==
    ASSUME TypeInv, PlaceInv, NEW c \in Polite, OrderInv(c), PoliteInv(c), ClientStep(c)
    PROVE  PoliteInv(c)'
  <1>0. PICK All : All = inbox[c] \o out[c]
    OBVIOUS
  <1>10. /\ c \in Client /\ sent[c] \in Nat /\ got[c] \in Nat /\ taken[c] \in Nat
         /\ out[c] \in Seq(Message) /\ inbox[c] \in Seq(Message) /\ All \in Seq(Message)
    BY <1>0, PoliteFacts, Zenon
  <1>11. Served(c) => /\ ~Waits(c) /\ AnswersOnly(All) /\ got[c] = 2 * taken[c]
                      /\ (sent[c] = got[c] \/ sent[c] = got[c] + 2)
    BY <1>0, PoliteFacts, Zenon
  <1>12. Served(c) => Len(All) = taken[c] + 1
    BY <1>0, PoliteFacts, Zenon
  <1>13. PICK a \in Nat, b \in Nat : /\ a = Len(inbox[c]) /\ b = Len(out[c])
                                    /\ Len(All) = a + b
    <2>1. Len(inbox[c]) \in Nat /\ Len(out[c]) \in Nat
      BY <1>10
    <2>2. Len(All) = Len(inbox[c]) + Len(out[c])
      BY <1>0, PoliteFacts, Zenon
    <2>. QED
      BY <2>1, <2>2, Zenon
  <1>1. CASE Idle(c)
    BY <1>1 DEF Idle, Stays, Mine, Buffer, PoliteInv
  <1>2. CASE Closed(c)
    BY <1>2 DEF Closed, Mine, Buffer, PoliteInv
  <1>3. CASE Comes(c)
    BY <1>3 DEF Comes, Stays, Mine, Buffer, PoliteInv
  <1>4. CASE Sends(c)
    <2>1. /\ Stays(c) /\ UNCHANGED <<peer[c], inbox[c], out[c], got[c], taken[c]>>
          /\ 2 * Replies(c) = sent[c] /\ sent'[c] = sent[c] + 2
      BY <1>4 DEF Sends, Buffer
    <2>2. CASE Served(c)
      <3>1. Replies(c) \in Nat /\ Replies(c) <= taken[c]
        <4>1. a + b = taken[c] + 1
          BY <1>12, <1>13, <2>2, Zenon
        <4>2. Replies(c) = IF inbox[c] = <<>> THEN 0 ELSE a - 1
          BY <1>13 DEF Replies
        <4>3. inbox[c] # <<>> => a # 0
          BY <1>10, <1>13
        <4>. QED
          BY <1>10, <4>1, <4>2, <4>3
      <3>2. sent[c] = got[c] /\ sent'[c] = got[c] + 2
        BY <1>10, <1>11, <2>1, <2>2, <3>1
      <3>3. 2 * (a - 1) <= sent[c] => 2 * (a - 1) <= sent'[c]
        BY <1>10, <2>1
      <3>. QED
        BY <1>11, <1>13, <2>1, <2>2, <3>2, <3>3 DEF Stays, PoliteInv
    <2>3. CASE ~Served(c)
      <3>1. Waits(c) /\ inbox[c] = <<>>
        BY <1>4, <2>3 DEF Sends, OrderInv
      <3>2. sent'[c] = 2
        BY <2>1, <3>1 DEF Replies
      <3>. QED
        BY <2>1, <2>3, <3>1, <3>2 DEF Stays, PoliteInv
    <2>. QED
      BY <2>2, <2>3
  <1>5. CASE HangsUp(c)
    BY <1>5 DEF HangsUp
  <1>6. CASE Greeted(c)
    <2>1. /\ inbox[c] = <<>> /\ taken[c] = 0 /\ got[c] = 0 /\ (sent[c] = 0 \/ sent[c] = 2)
          /\ ~Waits(c)' /\ UNCHANGED <<peer[c], sent[c], inbox[c], taken[c], got[c]>>
          /\ out'[c] = <<Welcome>>
      BY <1>6 DEF Greeted, Mine, Buffer, OrderInv, PoliteInv
    <2>2. <<>> \o <<Welcome>> = <<Welcome>>
      BY <1>0
    <2>3. AnswersOnly(<<Welcome>>) /\ Len(<<Welcome>>) = 1
      BY DEF AnswersOnly
    <2>. QED
      BY <2>1, <2>2, <2>3 DEF PoliteInv
  <1>7. CASE Answered(c)
    <2>1. /\ Served(c) /\ Stays(c) /\ UNCHANGED <<peer[c], sent[c], inbox[c]>>
          /\ sent[c] > got[c]
          /\ \/ /\ 2 * (taken[c] + 1) <= sent[c]
                /\ Buffer(c)' = <<sent[c], taken[c] + 1, Append(out[c], <<c, taken[c] + 1>>)>>
             \/ 2 * (taken[c] + 1) > sent[c]
      <3>1. PICK n \in got[c] + 1 .. sent[c] :
              /\ n = sent[c]
              /\ \/ /\ 2 * (taken[c] + 1) <= n
                    /\ Buffer(c)' = <<n, taken[c] + 1, Append(out[c], <<c, taken[c] + 1>>)>>
                 \/ 2 * (taken[c] + 1) > n
        BY <1>7 DEF Answered
      <3>2. sent[c] > got[c]
        BY <1>10, <3>1
      <3>3. Served(c) /\ Stays(c) /\ UNCHANGED <<peer[c], sent[c], inbox[c]>>
        BY <1>7 DEF Answered, Mine
      <3>. QED
        BY <3>1, <3>2, <3>3
    <2>2. AnswersOnly(All) /\ got[c] = 2 * taken[c] /\ sent[c] = got[c] + 2
      BY <1>10, <1>11, <2>1
    <2>3. /\ out'[c] = Append(out[c], <<c, taken[c] + 1>>)
          /\ taken'[c] = taken[c] + 1 /\ got'[c] = sent[c] /\ sent[c] = 2 * (taken[c] + 1)
      BY <1>10, <2>1, <2>2 DEF Buffer
    <2>4. <<c, taken[c] + 1>> \in Message /\ taken[c] + 1 \in Nat
      BY <1>10 DEF Message
    <2>5. inbox[c] \o out'[c] = Append(All, <<c, taken[c] + 1>>)
      <3>1. inbox[c] \o Append(out[c], <<c, taken[c] + 1>>)
              = Append(inbox[c] \o out[c], <<c, taken[c] + 1>>)
        BY <1>10, <2>4, ConcatAppend, Zenon
      <3>. QED
        BY <1>0, <2>3, <3>1, Zenon
    <2>6. /\ AnswersOnly(inbox'[c] \o out'[c])
          /\ Len(inbox'[c] \o out'[c]) = taken'[c] + 1
      <3>1. /\ AnswersOnly(Append(All, <<c, taken[c] + 1>>))
            /\ Len(Append(All, <<c, taken[c] + 1>>)) = (taken[c] + 1) + 1
        BY <1>10, <1>12, <2>1, <2>2, <2>4, OneMoreAnswer, Zenon
      <3>2. inbox'[c] \o out'[c] = Append(All, <<c, taken[c] + 1>>)
        BY <2>1, <2>5, Zenon
      <3>. QED
        BY <2>3, <3>1, <3>2, Zenon
    <2>. QED
      BY <2>1, <2>3, <2>6 DEF Stays, PoliteInv
  <1>8. CASE Receives(c)
    <2>1. All \o <<>> = All
      BY <1>10, ConcatEmptySeq
    <2>2. /\ inbox'[c] = All /\ out'[c] = <<>> /\ Served(c) /\ Stays(c)
          /\ UNCHANGED <<peer[c], sent[c], got[c], taken[c]>>
      BY <1>0, <1>8 DEF Receives, Mine, Buffer
    <2>3. ~Waits(c)'
      BY <1>11, <2>2 DEF Stays
    <2>4. 2 * (Len(All) - 1) <= sent[c]
      <3>1. 2 * ((taken[c] + 1) - 1) <= sent[c]
        BY <1>10, <1>11, <2>2
      <3>. QED
        BY <1>12, <2>2, <3>1, Zenon
    <2>5. AnswersOnly(All) /\ Len(All) = taken[c] + 1
          /\ got[c] = 2 * taken[c] /\ (sent[c] = got[c] \/ sent[c] = got[c] + 2)
      BY <1>11, <1>12, <2>2, Zenon
    <2>6. inbox'[c] \o out'[c] = All
      BY <2>1, <2>2, Zenon
    <2>7. Len(inbox'[c] \o out'[c]) = taken[c] + 1 /\ AnswersOnly(inbox'[c] \o out'[c])
      BY <2>5, <2>6, Zenon
    <2>8. /\ AnswersOnly(inbox'[c]) /\ 2 * (Len(inbox'[c]) - 1) <= sent'[c]
      BY <2>2, <2>4, <2>5, Zenon
    <2>. QED
      BY <2>2, <2>3, <2>5, <2>7, <2>8 DEF PoliteInv
  <1>9. CASE IsReset(c)
    BY <1>9 DEF IsReset, PoliteInv
  <1>. QED
    BY <1>1, <1>2, <1>3, <1>4, <1>5, <1>6, <1>7, <1>8, <1>9 DEF ClientStep

PolitesInv == \A c \in Polite : PoliteInv(c)

LEMMA PoliteInit == Init => PolitesInv
  <1>. SUFFICES ASSUME Init, NEW c \in Polite PROVE PoliteInv(c)
    BY DEF PolitesInv
  <1>1. c \in Client /\ \A w \in Worker : c \notin ClientsOf(w)
    BY ServerAssumption DEF Init, ClientsOf
  <1>. QED
    BY <1>1 DEF Init, PoliteInv, Served

LEMMA PolitesStep ==
    TypeInv /\ PlaceInv /\ OrdersInv /\ PolitesInv /\ [Next]_vars => PolitesInv'
  BY ClientSteps, PoliteStep, ServerAssumption DEF OrdersInv, PolitesInv

(* A client that waits for each answer gets its greeting and then exactly  *)
(* one answer to each line, never the text for an invalid one.             *)
THEOREM WaitingClientsGetOneAnswer == Spec => []OneAnswerPerLine
  <1>1. ASSUME TypeInv, PlaceInv, OrdersInv, PolitesInv PROVE OneAnswerPerLine
    <2>1. ASSUME NEW c \in Polite, NEW s, s = inbox[c] \o out[c], s # <<>>
          PROVE  AnswersOnly(s) /\ 2 * (Len(s) - 1) <= sent[c]
      <3>1. OrderInv(c) /\ PoliteInv(c)
        BY <1>1, ServerAssumption DEF OrdersInv, PolitesInv
      <3>2. CASE Served(c)
        <4>1. /\ AnswersOnly(s) /\ Len(s) = taken[c] + 1
              /\ got[c] = 2 * taken[c] /\ (sent[c] = got[c] \/ sent[c] = got[c] + 2)
              /\ taken[c] \in Nat
          BY <1>1, <2>1, <3>1, <3>2, PoliteFacts, Zenon
        <4>2. 2 * ((taken[c] + 1) - 1) <= sent[c]
          BY <4>1
        <4>. QED
          BY <4>1, <4>2, Zenon
      <3>3. CASE ~Served(c)
        <4>1. s = inbox[c]
          BY <1>1, <2>1, <3>1, <3>3, PoliteFacts, ConcatEmptySeq DEF OrderInv
        <4>. QED
          BY <2>1, <3>1, <4>1 DEF PoliteInv
      <3>. QED
        BY <3>2, <3>3
    <2>. QED
      BY <2>1 DEF OneAnswerPerLine, AnswersOnly
  <1>. QED
    BY TypeInit, PlaceInit, OrderInit, PoliteInit, TypeStep, PlaceStep, OrdersStep,
       PolitesStep, <1>1, PTL DEF Spec

=============================================================================
