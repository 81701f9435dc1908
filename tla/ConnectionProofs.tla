-------------------------- MODULE ConnectionProofs --------------------------
(***************************************************************************)
(* Proofs about module Connection, for any number of connections, buffers  *)
(* and deaths of either process, and for hang-ups at any moment.           *)
(***************************************************************************)
EXTENDS Connection, TLAPS

Messages == {Message("state", NULL)}
               \cup {Message(type, b) : type \in {"add", "remove"}, b \in Bufs}

(* The sockets.  A connection the activity opens goes through works and    *)
(* adding to conn_fd, and is in one of the three only.  The activity's own *)
(* is the newest the server has, so nothing can follow one that is joined. *)

SocketsTyped ==
    /\ conn_fd \in Conns \cup {NULL} /\ adding \in Conns \cup {NULL}
    /\ actConn \in Conns \cup {NULL} /\ open \in SUBSET Conns
    /\ works \in Seq(Conns) /\ hanging \in Conns \cup {NULL}
    /\ main \in {"idle", "assign", "announce", "register", "write"}
    /\ input \in {"idle", "reset", "clear"}
    /\ srv \in {"up", "down"}

DeadServer ==
    srv = "down" =>
       /\ service # "current" /\ "current" \notin intents
       /\ works = <<>> /\ open = {} /\ conn_fd = NULL /\ adding = NULL
       /\ main = "idle" /\ input = "idle"

\* A connection in the queue is open, one that is hung up is closed.
Ends == ToSet(works) \subseteq open /\ hanging \notin open

Distinct ==
    /\ \A i, j \in DOMAIN works : works[i] = works[j] => i = j
    /\ adding \notin ToSet(works) /\ conn_fd \notin ToSet(works)
    /\ adding # NULL => adding # conn_fd

Newest ==
    actConn \in open =>
       /\ works # <<>> => actConn = works[Len(works)]
       /\ works = <<>> /\ adding # NULL => actConn = adding

Busy == main = "assign" <=> adding # NULL

SocketInv ==
    SocketsTyped /\ DeadServer /\ Ends /\ Distinct /\ Newest /\ Busy

(* The buffers: unless a hang-up has crossed, what is registered follows   *)
(* from where the server is, and what the activity was sent is the same    *)
(* thing.                                                                  *)

BuffersTyped == buffers \in SUBSET Bufs /\ stream \in Seq(Messages)

Uncrossed ==
    /\ main # "idle" => registered = {}
    /\ main = "write" => conn_fd # NULL
    /\ input = "clear" => conn_fd = NULL /\ main \in {"idle", "register"}
    /\ conn_fd = NULL /\ input # "clear" => registered = {}
    /\ conn_fd # NULL /\ main = "idle" => registered = {root}

Lists ==
    srv = "up" =>
       /\ root \in Bufs /\ registered \subseteq {root}
       /\ ~crossed => Uncrossed

\* On a connection the server has not taken up nothing is sent.
Fresh ==
    /\ actConn = NULL => buffers = {}
    /\ actConn # NULL /\ actConn \in ToSet(works) \cup {adding}
          => stream = <<>> /\ buffers = {}

DeadActivity ==
    act = "down" =>
       /\ actConn = NULL /\ ~retry /\ intents = {}
       /\ links = 0 /\ deaths = 0 /\ uiDeaths = 0

Sent ==
    Joined /\ ~crossed => Drained = IF main = "idle" THEN {root} ELSE {}

BufferInv == BuffersTyped /\ Lists /\ Fresh /\ Sent

-----------------------------------------------------------------------------
(* What the messages make of a set of buffers.                             *)

LEMMA DrainingNothing ==
    ASSUME NEW bs \in SUBSET Bufs PROVE Draining(bs, <<>>) = bs
  BY DEF Draining, RemovedAfter

LEMMA RemovedAppend ==
    ASSUME NEW s \in Seq(Messages), NEW m \in Messages, NEW b, NEW i \in Nat,
           i <= Len(s)
    PROVE  RemovedAfter(b, Append(s, m), i)
              <=> RemovedAfter(b, s, i) \/ m = Message("remove", b)
<1>1. /\ DOMAIN Append(s, m) = 1..(Len(s) + 1) /\ DOMAIN s = 1..Len(s)
      /\ Append(s, m)[Len(s) + 1] = m
      /\ \A j \in 1..Len(s) : Append(s, m)[j] = s[j]
      /\ Len(s) \in Nat
  OBVIOUS
<1> QED
  BY <1>1 DEF RemovedAfter

LEMMA DrainingAppend ==
    ASSUME NEW bs \in SUBSET Bufs, NEW s \in Seq(Messages), NEW m \in Messages,
           NEW b \in Bufs
    PROVE  b \in Draining(bs, Append(s, m))
              <=> \/ m = Message("add", b)
                  \/ b \in Draining(bs, s) /\ m # Message("remove", b)
<1> DEFINE t == Append(s, m)
           Adds(u, i) == u[i] = Message("add", b) /\ ~RemovedAfter(b, u, i)
<1>1. /\ DOMAIN t = 1..(Len(s) + 1) /\ DOMAIN s = 1..Len(s)
      /\ t[Len(s) + 1] = m /\ \A j \in 1..Len(s) : t[j] = s[j]
      /\ Len(s) \in Nat
  OBVIOUS
<1>2. ~RemovedAfter(b, t, Len(s) + 1)
  BY <1>1 DEF RemovedAfter
<1>3. Adds(t, Len(s) + 1) <=> m = Message("add", b)
  BY <1>1, <1>2
<1>4. \A i \in 1..Len(s) : Adds(t, i) <=> /\ Adds(s, i)
                                          /\ m # Message("remove", b)
  BY <1>1, RemovedAppend
<1>5. RemovedAfter(b, t, 0) <=> RemovedAfter(b, s, 0) \/ m = Message("remove", b)
  BY <1>1, RemovedAppend
<1>6. /\ b \in Draining(bs, s) <=> \/ b \in bs /\ ~RemovedAfter(b, s, 0)
                                   \/ \E i \in 1..Len(s) : Adds(s, i)
      /\ b \in Draining(bs, t) <=> \/ b \in bs /\ ~RemovedAfter(b, t, 0)
                                   \/ \E i \in 1..(Len(s) + 1) : Adds(t, i)
  BY <1>1 DEF Draining
<1>7. (\E i \in 1..(Len(s) + 1) : Adds(t, i))
         <=> Adds(t, Len(s) + 1) \/ \E i \in 1..Len(s) : Adds(t, i)
  <2> HIDE DEF Adds, t
  <2>1. \A i : i \in 1..(Len(s) + 1) <=> i \in 1..Len(s) \/ i = Len(s) + 1
    BY <1>1
  <2> QED
    BY <2>1
<1>8. Message("add", b) # Message("remove", b)
  BY DEF Message
<1> HIDE DEF Adds, t
<1>9. b \in Draining(bs, t) <=> \/ m = Message("add", b)
                                \/ b \in Draining(bs, s) /\ m # Message("remove", b)
  BY <1>3, <1>4, <1>5, <1>6, <1>7, <1>8
<1> QED
  BY <1>9 DEF t

\* A message that is delivered changes nothing in what remains to come.
LEMMA DrainingTail ==
    ASSUME NEW bs \in SUBSET Bufs, NEW s \in Seq(Messages), s # <<>>
    PROVE  Draining(Received(Head(s), bs), Tail(s)) = Draining(bs, s)
<1> DEFINE m == Head(s)
           t == Tail(s)
           Adds(u, b, i) == u[i] = Message("add", b) /\ ~RemovedAfter(b, u, i)
<1>1. /\ Len(s) \in Nat \ {0} /\ DOMAIN s = 1..Len(s) /\ s[1] = m
      /\ DOMAIN t = 1..(Len(s) - 1)
      /\ \A j \in 1..(Len(s) - 1) : t[j] = s[j + 1]
      /\ m \in Messages
  OBVIOUS
<1> SUFFICES ASSUME NEW b \in Bufs
             PROVE  b \in Draining(Received(m, bs), t) <=> b \in Draining(bs, s)
  BY DEF Draining
<1>2. b \in Received(m, bs) <=> \/ m = Message("add", b)
                                \/ b \in bs /\ m # Message("remove", b)
  BY <1>1 DEF Received, Message, Messages
<1>3. \A i \in 0..(Len(s) - 1) :
         RemovedAfter(b, t, i) <=> RemovedAfter(b, s, i + 1)
  <2> SUFFICES ASSUME NEW i \in 0..(Len(s) - 1)
               PROVE  RemovedAfter(b, t, i) <=> RemovedAfter(b, s, i + 1)
    OBVIOUS
  <2>1. ASSUME RemovedAfter(b, t, i) PROVE RemovedAfter(b, s, i + 1)
    <3>1. PICK j \in DOMAIN t : j > i /\ t[j] = Message("remove", b)
      BY <2>1 DEF RemovedAfter
    <3>2. j + 1 \in DOMAIN s /\ j + 1 > i + 1 /\ s[j + 1] = t[j]
      BY <1>1, <3>1
    <3> QED
      BY <3>1, <3>2 DEF RemovedAfter
  <2>2. ASSUME RemovedAfter(b, s, i + 1) PROVE RemovedAfter(b, t, i)
    <3>1. PICK j \in DOMAIN s : j > i + 1 /\ s[j] = Message("remove", b)
      BY <2>2 DEF RemovedAfter
    <3>2. j - 1 \in DOMAIN t /\ j - 1 > i /\ t[j - 1] = s[j]
      BY <1>1, <3>1
    <3> QED
      BY <3>1, <3>2 DEF RemovedAfter
  <2> QED
    BY <2>1, <2>2
<1>4. RemovedAfter(b, s, 0) <=> m = Message("remove", b) \/ RemovedAfter(b, s, 1)
  BY <1>1 DEF RemovedAfter
<1>5. RemovedAfter(b, t, 0) <=> RemovedAfter(b, s, 1)
  BY <1>1, <1>3
<1>6. (\E i \in 1..Len(s) : Adds(s, b, i))
         <=> Adds(s, b, 1) \/ \E i \in 1..(Len(s) - 1) : Adds(t, b, i)
  <2>1. \A i \in 1..(Len(s) - 1) : Adds(t, b, i) <=> Adds(s, b, i + 1)
    BY <1>1, <1>3
  <2> HIDE DEF Adds, m, t
  <2>2. ASSUME NEW i \in 1..Len(s), Adds(s, b, i), i # 1
        PROVE  \E j \in 1..(Len(s) - 1) : Adds(t, b, j)
    <3>1. i - 1 \in 1..(Len(s) - 1) /\ (i - 1) + 1 = i
      BY <1>1, <2>2
    <3> QED
      BY <2>1, <2>2, <3>1
  <2>3. ASSUME NEW j \in 1..(Len(s) - 1), Adds(t, b, j)
        PROVE  \E i \in 1..Len(s) : Adds(s, b, i)
    <3>1. j + 1 \in 1..Len(s)
      BY <1>1
    <3> QED
      BY <2>1, <2>3, <3>1
  <2>4. 1 \in 1..Len(s)
    BY <1>1
  <2> QED
    BY <2>2, <2>3, <2>4
<1>7. Adds(s, b, 1) <=> m = Message("add", b) /\ ~RemovedAfter(b, s, 1)
  BY <1>1
<1>8. /\ b \in Draining(bs, s) <=> \/ b \in bs /\ ~RemovedAfter(b, s, 0)
                                   \/ \E i \in 1..Len(s) : Adds(s, b, i)
      /\ b \in Draining(Received(m, bs), t)
            <=> \/ b \in Received(m, bs) /\ ~RemovedAfter(b, t, 0)
                \/ \E i \in 1..(Len(s) - 1) : Adds(t, b, i)
  BY <1>1 DEF Draining
<1> HIDE DEF Adds, m, t
<1>9. QED
  BY <1>2, <1>4, <1>5, <1>6, <1>7, <1>8

-----------------------------------------------------------------------------
(* Connections in a queue.                                                 *)

LEMMA QueueAppend ==
    ASSUME NEW q \in Seq(Conns), NEW c \in Conns
    PROVE  /\ Append(q, c) \in Seq(Conns) /\ Append(q, c) # <<>>
           /\ Len(Append(q, c)) = Len(q) + 1 /\ Append(q, c)[Len(q) + 1] = c
           /\ ToSet(Append(q, c)) = ToSet(q) \cup {c}
           /\ (\A i, j \in DOMAIN q : q[i] = q[j] => i = j) /\ c \notin ToSet(q)
                 => \A i, j \in DOMAIN Append(q, c) :
                       Append(q, c)[i] = Append(q, c)[j] => i = j
<1>1. /\ DOMAIN Append(q, c) = 1..(Len(q) + 1) /\ DOMAIN q = 1..Len(q)
      /\ Append(q, c)[Len(q) + 1] = c /\ Len(q) \in Nat
      /\ \A j \in 1..Len(q) : Append(q, c)[j] = q[j]
  OBVIOUS
<1>2. ToSet(Append(q, c)) = ToSet(q) \cup {c}
  BY <1>1 DEF ToSet
<1>3. \A j \in 1..Len(q) : q[j] \in ToSet(q)
  BY <1>1 DEF ToSet
<1>4. ASSUME \A i, j \in DOMAIN q : q[i] = q[j] => i = j, c \notin ToSet(q),
             NEW i \in DOMAIN Append(q, c), NEW j \in DOMAIN Append(q, c),
             Append(q, c)[i] = Append(q, c)[j]
      PROVE  i = j
  BY <1>1, <1>3, <1>4
<1> QED
  BY <1>1, <1>2, <1>4

LEMMA QueueTail ==
    ASSUME NEW q \in Seq(Conns), q # <<>>,
           \A i, j \in DOMAIN q : q[i] = q[j] => i = j
    PROVE  /\ Tail(q) \in Seq(Conns) /\ Head(q) \in Conns
           /\ ToSet(q) = {Head(q)} \cup ToSet(Tail(q))
           /\ Head(q) \notin ToSet(Tail(q))
           /\ \A i, j \in DOMAIN Tail(q) : Tail(q)[i] = Tail(q)[j] => i = j
           /\ Tail(q) # <<>> => Tail(q)[Len(Tail(q))] = q[Len(q)]
           /\ Tail(q) = <<>> => Head(q) = q[Len(q)]
<1>1. /\ Len(q) \in Nat \ {0} /\ DOMAIN q = 1..Len(q) /\ Head(q) = q[1]
      /\ Tail(q) \in Seq(Conns) /\ Head(q) \in Conns
      /\ DOMAIN Tail(q) = 1..(Len(q) - 1) /\ Len(Tail(q)) = Len(q) - 1
      /\ \A j \in 1..(Len(q) - 1) : Tail(q)[j] = q[j + 1]
  OBVIOUS
<1>2. ToSet(q) = {Head(q)} \cup ToSet(Tail(q))
  <2>1. ASSUME NEW c \in ToSet(q), c # Head(q) PROVE c \in ToSet(Tail(q))
    <3>1. PICK i \in 1..Len(q) : q[i] = c
      BY <1>1 DEF ToSet
    <3>2. i - 1 \in 1..(Len(q) - 1) /\ Tail(q)[i - 1] = c
      BY <1>1, <2>1, <3>1
    <3> QED
      BY <1>1, <3>2 DEF ToSet
  <2>2. ASSUME NEW c \in ToSet(Tail(q)) PROVE c \in ToSet(q)
    <3>1. PICK i \in 1..(Len(q) - 1) : Tail(q)[i] = c
      BY <1>1 DEF ToSet
    <3>2. i + 1 \in 1..Len(q) /\ q[i + 1] = c
      BY <1>1, <3>1
    <3> QED
      BY <1>1, <3>2 DEF ToSet
  <2>3. Head(q) \in ToSet(q)
    BY <1>1 DEF ToSet
  <2> QED
    BY <2>1, <2>2, <2>3
<1>3. Head(q) \notin ToSet(Tail(q))
  <2> SUFFICES ASSUME NEW i \in 1..(Len(q) - 1), Tail(q)[i] = Head(q)
               PROVE  FALSE
    BY <1>1 DEF ToSet
  <2>1. i + 1 \in 1..Len(q) /\ q[i + 1] = q[1] /\ i + 1 # 1
    BY <1>1
  <2> QED
    BY <1>1, <2>1
<1>4. ASSUME NEW i \in DOMAIN Tail(q), NEW j \in DOMAIN Tail(q),
             Tail(q)[i] = Tail(q)[j]
      PROVE  i = j
  <2>1. i + 1 \in DOMAIN q /\ j + 1 \in DOMAIN q /\ q[i + 1] = q[j + 1]
    BY <1>1, <1>4
  <2> QED
    BY <1>1, <2>1
<1>5. Tail(q) # <<>> => Tail(q)[Len(Tail(q))] = q[Len(q)]
  BY <1>1
<1>6. Tail(q) = <<>> => Head(q) = q[Len(q)]
  BY <1>1
<1> QED
  BY <1>1, <1>2, <1>3, <1>4, <1>5, <1>6

LEMMA LastInQueue ==
    ASSUME NEW q \in Seq(Conns), q # <<>> PROVE q[Len(q)] \in ToSet(q)
<1>1. Len(q) \in DOMAIN q
  OBVIOUS
<1> QED
  BY <1>1 DEF ToSet

LEMMA EmptyQueue == ToSet(<<>>) = {}
  BY DEF ToSet

-----------------------------------------------------------------------------
(* Steps and the sockets.                                                  *)

\* The variables SocketInv speaks of.
socketVars == <<conn_fd, adding, actConn, open, works, main, inputVars, srv>>

\* The activity has no open connection, or the newest: nothing is queued
\* behind a connection that is current and open.
LEMMA JoinedAlone ==
    ASSUME SocketInv, Joined
    PROVE  works = <<>> /\ adding = NULL /\ main # "assign"
<1> USE ConnectionAssumption DEF SocketInv, Joined
<1>1. works = <<>>
  BY LastInQueue DEF SocketsTyped, Distinct, Newest
<1>2. adding = NULL
  BY <1>1 DEF Newest, Distinct
<1> QED
  BY <1>1, <1>2 DEF Busy

LEMMA SocketsSame ==
    ASSUME SocketInv, UNCHANGED socketVars,
           service' # "current" \/ service' = service \/ srv = "up",
           "current" \in intents' => "current" \in intents \/ srv = "up"
    PROVE  SocketInv'
  BY DEF SocketInv, SocketsTyped, DeadServer, Ends, Distinct, Newest, Busy,
         socketVars, inputVars

LEMMA TryConnectKeepsSockets ==
    ASSUME SocketInv, NEW svc, NEW conn \in {actConn, NULL}, NEW posted,
           TryConnect(svc, conn, posted), svc = "current" => srv = "up",
           intents' \subseteq intents,
           UNCHANGED <<srv, conn_fd, adding, main, inputVars>>
    PROVE  SocketInv'
<1> USE ConnectionAssumption
    DEF SocketInv, SocketsTyped, DeadServer, Busy, inputVars
<1>1. CASE /\ conn # NULL /\ actConn' = conn /\ service' = svc
           /\ UNCHANGED <<open, works>>
  <2>1. UNCHANGED socketVars
    BY <1>1 DEF socketVars
  <2> HIDE DEF SocketInv
  <2> QED
    BY <1>1, <2>1, SocketsSame
<1>2. CASE actConn' = NULL /\ service' = NULL /\ UNCHANGED <<open, works>>
  <2>1. SocketsTyped' /\ DeadServer' /\ Busy'
    BY <1>2
  <2>2. Ends' /\ Distinct' /\ Newest'
    BY <1>2 DEF Ends, Distinct, Newest
  <2> QED
    BY <2>1, <2>2
<1>3. CASE /\ svc = "current" /\ service' = svc
           /\ \E c \in Conns :
                 /\ Unused(c) /\ actConn' = c
                 /\ open' = open \cup {c} /\ works' = Append(works, c)
  <2>1. PICK c \in Conns : /\ Unused(c) /\ actConn' = c
                           /\ open' = open \cup {c}
                           /\ works' = Append(works, c)
    BY <1>3
  <2>2. c \notin open /\ c # conn_fd /\ c # adding /\ c # hanging
    BY <2>1 DEF Unused
  <2>3. c \notin ToSet(works)
    BY <2>2 DEF Ends
  <2>4. SocketsTyped' /\ DeadServer' /\ Busy'
    BY <1>3, <2>1, QueueAppend
  <2>5. ToSet(works') = ToSet(works) \cup {c}
    BY <2>1, QueueAppend
  <2>6. Ends'
    BY <2>1, <2>2, <2>5 DEF Ends
  <2>7. Distinct'
    BY <2>1, <2>2, <2>3, <2>5, QueueAppend DEF Distinct
  <2>8. Newest'
    BY <2>1, QueueAppend DEF Newest
  <2> QED
    BY <2>4, <2>6, <2>7, <2>8
<1> QED
  BY <1>1, <1>2, <1>3 DEF TryConnect

LEMMA AddFdKeepsSockets == ASSUME SocketInv, AddFd PROVE SocketInv'
<1> USE ConnectionAssumption DEF SocketInv, SocketsTyped, DeadServer, Busy
<1>1. /\ main = "idle" /\ works # <<>>
      /\ adding' = Head(works) /\ works' = Tail(works) /\ main' = "assign"
      /\ UNCHANGED <<srv, conn_fd, open, input, hanging, actConn, service,
                     intents>>
  BY DEF AddFd, actVars
<1>2. /\ works' \in Seq(Conns) /\ adding' \in Conns
      /\ ToSet(works) = {adding'} \cup ToSet(works')
      /\ adding' \notin ToSet(works')
      /\ \A i, j \in DOMAIN works' : works'[i] = works'[j] => i = j
      /\ works' # <<>> => works'[Len(works')] = works[Len(works)]
      /\ works' = <<>> => adding' = works[Len(works)]
  BY <1>1, QueueTail DEF Distinct
<1>3. SocketsTyped' /\ DeadServer' /\ Busy'
  BY <1>1, <1>2
<1>4. Ends'
  BY <1>1, <1>2 DEF Ends
<1>5. Distinct'
  BY <1>1, <1>2 DEF Distinct
<1>6. Newest'
  BY <1>1, <1>2 DEF Newest
<1> QED
  BY <1>3, <1>4, <1>5, <1>6

LEMMA AssignKeepsSockets == ASSUME SocketInv, Assign PROVE SocketInv'
<1> USE ConnectionAssumption DEF SocketInv, SocketsTyped, DeadServer, Busy
<1>1. /\ main = "assign"
      /\ conn_fd' = adding /\ adding' = NULL /\ main' = "announce"
      /\ UNCHANGED <<srv, open, works, input, hanging, crossed, actConn,
                     service, intents>>
  BY DEF Assign, actVars, inputVars
<1>2. SocketsTyped' /\ DeadServer' /\ Busy'
  BY <1>1
<1>3. Ends'
  BY <1>1 DEF Ends
<1>4. Distinct'
  BY <1>1 DEF Distinct, ToSet
<1>5. Newest'
  BY <1>1 DEF Newest
<1> QED
  BY <1>2, <1>3, <1>4, <1>5

LEMMA CloseHungUpKeepsSockets ==
    ASSUME SocketInv, CloseHungUp PROVE SocketInv'
<1> USE ConnectionAssumption DEF SocketInv, SocketsTyped, DeadServer, Busy
<1>1. PICK c \in HungUp : hanging' = c /\ open' = open \ {c}
  BY DEF CloseHungUp
<1>2. /\ input = "idle" /\ input' = "reset"
      /\ UNCHANGED <<srv, conn_fd, works, main, adding, crossed, actConn,
                     service, intents>>
  BY DEF CloseHungUp, mainVars, actVars
<1>3. c \in open /\ c \notin ToSet(works) /\ c # actConn
  BY DEF HungUp, Watched
<1>4. SocketsTyped' /\ DeadServer' /\ Busy'
  BY <1>1, <1>2, <1>3
<1>5. Ends'
  BY <1>1, <1>2, <1>3 DEF Ends
<1>6. Distinct' /\ Newest'
  BY <1>1, <1>2, <1>3 DEF Distinct, Newest
<1> QED
  BY <1>4, <1>5, <1>6

LEMMA ResetKeepsSockets ==
    ASSUME SocketInv, ResetConnection \/ ClearRegistered PROVE SocketInv'
<1> USE ConnectionAssumption DEF SocketInv, SocketsTyped, DeadServer, Busy
<1>1. /\ input # "idle" /\ conn_fd' \in {conn_fd, NULL}
      /\ input' \in {"clear", "idle"} /\ hanging' \in {hanging, NULL}
      /\ UNCHANGED <<srv, open, works, main, adding, actConn, service, intents>>
  BY DEF ResetConnection, ClearRegistered, mainVars, actVars
<1>2. SocketsTyped' /\ DeadServer' /\ Busy'
  BY <1>1
<1>3. Ends'
  BY <1>1 DEF Ends
<1>4. Distinct' /\ Newest'
  <2>1. NULL \notin ToSet(works)
    BY DEF ToSet
  <2> QED
    BY <1>1, <2>1 DEF Distinct, Newest
<1> QED
  BY <1>2, <1>3, <1>4

\* The main thread's other steps.
LEMMA MainKeepsSockets ==
    ASSUME SocketInv,
           \/ SendSharedServerState \/ RegisterBuffer \/ SendBuffer
           \/ \E b \in Bufs : Resize(b)
    PROVE  SocketInv'
<1> USE ConnectionAssumption DEF SocketInv, SocketsTyped, DeadServer, Busy
<1>1. /\ UNCHANGED <<srv, conn_fd, input, hanging, crossed, open, works,
                     adding, actConn, service, intents>>
      /\ srv = "up" /\ main # "assign"
      /\ main' \in {"register", "idle", "write"}
  BY DEF SendSharedServerState, RegisterBuffer, SendBuffer, Resize, inputVars,
         actVars
<1>2. SocketsTyped' /\ DeadServer' /\ Busy'
  BY <1>1
<1>3. Ends' /\ Distinct' /\ Newest'
  BY <1>1 DEF Ends, Distinct, Newest
<1> QED
  BY <1>2, <1>3

\* Both processes start and die.
LEMMA ProcessKeepsSockets ==
    ASSUME SocketInv, ServerStart \/ ServerCrash \/ ActivityCrash
    PROVE  SocketInv'
<1> USE ConnectionAssumption DEF SocketInv, SocketsTyped, DeadServer, Busy
<1>1. CASE ServerStart
  <2>1. srv' = "up" /\ UNCHANGED <<conn_fd, adding, actConn, open, works, main,
                                   input, hanging, crossed>>
    BY <1>1 DEF ServerStart, actVars, inputVars
  <2> QED
    BY <2>1 DEF Ends, Distinct, Newest
<1>2. CASE ServerCrash
  <2>1. /\ srv' = "down" /\ conn_fd' = NULL /\ open' = {} /\ works' = <<>>
        /\ main' = "idle" /\ adding' = NULL /\ input' = "idle"
        /\ hanging' = NULL /\ crossed' = FALSE
        /\ service' # "current" /\ "current" \notin intents'
        /\ actConn' = actConn
    BY <1>2 DEF ServerCrash
  <2>2. SocketsTyped' /\ DeadServer' /\ Busy'
    BY <2>1
  <2>3. Ends' /\ Distinct' /\ Newest'
    BY <2>1, EmptyQueue DEF Ends, Distinct, Newest
  <2> QED
    BY <2>2, <2>3
<1>3. CASE ActivityCrash
  <2>1. /\ actConn' = NULL /\ service' = NULL /\ intents' = {}
        /\ UNCHANGED <<srv, conn_fd, adding, open, works, main, input,
                       hanging, crossed>>
    BY <1>3 DEF ActivityCrash, serverVars, inputVars, mainVars
  <2>2. SocketsTyped' /\ DeadServer' /\ Busy'
    BY <2>1
  <2>3. Ends' /\ Distinct' /\ Newest'
    BY <2>1 DEF Ends, Distinct, Newest
  <2> QED
    BY <2>2, <2>3
<1> QED
  BY <1>1, <1>2, <1>3

\* The activity's calls of tryConnect.
LEMMA CallKeepsSockets ==
    ASSUME SocketInv,
           ActivityStart \/ Retry \/ ReceiveIntent \/ DisconnectOnDeath
    PROVE  SocketInv'
<1> USE DEF mainVars
<1>1. CASE ActivityStart
  <2>1. TryConnect(NULL, NULL, FALSE) /\ intents' \subseteq intents
        /\ UNCHANGED <<srv, conn_fd, adding, main, inputVars>>
    BY <1>1 DEF ActivityStart
  <2> QED
    BY <2>1, ConnectionAssumption, TryConnectKeepsSockets
<1>2. CASE Retry
  <2>1. TryConnect(service, actConn, FALSE) /\ intents' \subseteq intents
        /\ UNCHANGED <<srv, conn_fd, adding, main, inputVars>>
    BY <1>2 DEF Retry
  <2>2. service = "current" => srv = "up"
    BY DEF SocketInv, SocketsTyped, DeadServer
  <2> QED
    BY <2>1, <2>2, TryConnectKeepsSockets
<1>3. CASE ReceiveIntent
  <2>1. TryConnect("current", actConn, retry) /\ intents' \subseteq intents
        /\ UNCHANGED <<srv, conn_fd, adding, main, inputVars>>
        /\ "current" \in intents
    BY <1>3 DEF ReceiveIntent
  <2>2. srv = "up"
    BY <2>1 DEF SocketInv, SocketsTyped, DeadServer
  <2> QED
    BY <2>1, <2>2, TryConnectKeepsSockets
<1>4. CASE DisconnectOnDeath
  <2>1. TryConnect(service, NULL, retry) /\ intents' \subseteq intents
        /\ UNCHANGED <<srv, conn_fd, adding, main, inputVars>>
    BY <1>4 DEF DisconnectOnDeath
  <2>2. service = "current" => srv = "up"
    BY DEF SocketInv, SocketsTyped, DeadServer
  <2> QED
    BY <2>1, <2>2, TryConnectKeepsSockets
<1> QED
  BY <1>1, <1>2, <1>3, <1>4

LEMMA InitSockets == Init => SocketInv
<1> SUFFICES ASSUME Init PROVE SocketInv
  OBVIOUS
<1> USE ConnectionAssumption DEF Init
<1>1. SocketsTyped /\ DeadServer /\ Busy
  BY DEF SocketsTyped, DeadServer, Busy
<1>2. Ends /\ Distinct /\ Newest
  BY EmptyQueue DEF Ends, Distinct, Newest
<1> QED
  BY <1>1, <1>2 DEF SocketInv

LEMMA NextKeepsSockets ==
    ASSUME SocketInv, [Next]_vars PROVE SocketInv'
<1>1. CASE Processes
  BY <1>1, ProcessKeepsSockets, CallKeepsSockets DEF Processes
<1>2. CASE MainStep \/ \E b \in Bufs : Resize(b)
  BY <1>2, AddFdKeepsSockets, AssignKeepsSockets, MainKeepsSockets DEF MainStep
<1>3. CASE InputStep
  BY <1>3, CloseHungUpKeepsSockets, ResetKeepsSockets DEF InputStep
<1>4. CASE Retry \/ ReceiveIntent \/ DisconnectOnDeath
  BY <1>4, CallKeepsSockets
<1>5. CASE HangUp
  <2>1. /\ actConn' = NULL
        /\ UNCHANGED <<srv, conn_fd, adding, open, works, main, input, hanging,
                       crossed, service, intents>>
    BY <1>5 DEF HangUp, serverVars, inputVars, mainVars
  <2>2. SocketsTyped' /\ DeadServer' /\ Busy'
    BY <2>1 DEF SocketInv, SocketsTyped, DeadServer, Busy
  <2>3. Ends' /\ Distinct' /\ Newest'
    BY <2>1, ConnectionAssumption
       DEF SocketInv, SocketsTyped, Ends, Distinct, Newest
  <2> QED
    BY <2>2, <2>3 DEF SocketInv
<1>6. CASE Broadcast \/ AnswerRequest \/ ReceiveOldIntent \/ BinderDied
           \/ Deliver \/ UNCHANGED vars
  <2>1. UNCHANGED socketVars
    BY <1>6 DEF Broadcast, AnswerRequest, ReceiveOldIntent, BinderDied,
                Deliver, vars, serverVars, mainVars, actVars, socketVars
  <2>2. /\ service' # "current" \/ service' = service \/ srv = "up"
        /\ "current" \in intents' => "current" \in intents \/ srv = "up"
    BY <1>6, ConnectionAssumption
       DEF Broadcast, AnswerRequest, ReceiveOldIntent, BinderDied, Deliver,
           vars, actVars
  <2> QED
    BY <2>1, <2>2, SocketsSame
<1> QED
  BY <1>1, <1>2, <1>3, <1>4, <1>5, <1>6 DEF Next

\* What a step may do to a connection both ends of which are open.
LEMMA StepForsakesNobody ==
    ASSUME SocketInv, [Next]_vars, Joined, ~Joined', srv' = "up"
    PROVE  actConn' # conn_fd \/ ForgetsAnother
<1> SUFFICES ASSUME actConn' = conn_fd, ~ForgetsAnother PROVE FALSE
  OBVIOUS
<1>1. /\ conn_fd # NULL /\ conn_fd = actConn /\ conn_fd \in open
      /\ main # "assign" /\ conn_fd \notin HungUp
  BY JoinedAlone DEF Joined, HungUp
<1>2. ~ResetConnection
  <2>1. hanging # conn_fd
    BY <1>1 DEF SocketInv, Ends
  <2> QED
    BY <2>1 DEF ResetConnection, ForgetsAnother
<1>3. conn_fd' = conn_fd /\ conn_fd \in open'
  BY <1>1, <1>2
     DEF Next, Processes, MainStep, InputStep, ServerStart, ServerCrash,
         ActivityStart, ActivityCrash, Broadcast, AnswerRequest, AddFd, Assign,
         SendSharedServerState, RegisterBuffer, SendBuffer, CloseHungUp,
         ClearRegistered, Resize, Retry, ReceiveIntent,
         ReceiveOldIntent, BinderDied, DisconnectOnDeath, HangUp, Deliver,
         TryConnect, vars, serverVars, mainVars
<1> QED
  BY <1>1, <1>3 DEF Joined

-----------------------------------------------------------------------------
(* Steps and the buffers.                                                  *)

\* What the server writes reaches the activity if the two are joined.
LEMMA Sending ==
    ASSUME SocketInv, BuffersTyped, NEW type, NEW b,
           Message(type, b) \in Messages, Send(type, b), buffers' = buffers
    PROVE  /\ BuffersTyped'
           /\ ~Joined => stream' = stream
           /\ Joined => \A x \in Bufs :
                x \in Drained' <=> \/ Message(type, b) = Message("add", x)
                                   \/ /\ x \in Drained
                                      /\ Message(type, b) # Message("remove", x)
<1>1. CASE Joined
  <2>1. stream' = Append(stream, Message(type, b))
    BY <1>1 DEF Send, Joined
  <2>2. stream' \in Seq(Messages)
    BY <2>1 DEF BuffersTyped
  <2>3. Drained' = Draining(buffers, stream')
    BY DEF Drained, Draining, RemovedAfter
  <2> QED
    BY <1>1, <2>1, <2>2, <2>3, DrainingAppend DEF BuffersTyped, Drained
<1>2. CASE ~Joined
  BY <1>2 DEF Send, Joined, BuffersTyped
<1> QED
  BY <1>1, <1>2

LEMMA DrainedType == Drained \subseteq Bufs /\ Drained' \subseteq Bufs
  BY DEF Drained, Draining

LEMMA MessagesApart ==
    \A x, y : /\ Message("state", NULL) # Message("add", x)
              /\ Message("state", NULL) # Message("remove", x)
              /\ Message("add", x) # Message("remove", y)
              /\ Message("add", x) = Message("add", y) <=> x = y
              /\ Message("remove", x) = Message("remove", y) <=> x = y
  BY DEF Message

\* Neither the sockets nor what was sent and registered changes.
LEMMA BuffersSame ==
    ASSUME BufferInv,
           UNCHANGED <<socketVars, buffers, stream, registered, root>>
    PROVE  BufferInv'
<1> USE DEF socketVars, inputVars
<1>1. BuffersTyped' /\ Lists' /\ Fresh'
  BY DEF BufferInv, BuffersTyped, Lists, Uncrossed, Fresh
<1>2. Sent'
  BY DEF BufferInv, Sent, Joined, Drained, Draining, RemovedAfter
<1> QED
  BY <1>1, <1>2 DEF BufferInv

\* The main thread's messages, on a connection it has taken up, leave what
\* one it has not taken up shows.
LEMMA FreshKept ==
    ASSUME SocketInv, BufferInv,
           UNCHANGED <<works, adding, actConn, buffers>>,
           ~Joined => stream' = stream
    PROVE  Fresh'
<1>1. Joined => actConn \notin ToSet(works) \cup {adding}
  BY JoinedAlone, EmptyQueue DEF Joined
<1> QED
  BY <1>1 DEF BufferInv, Fresh

\* An announced connection is sent the shared state, and no buffer with it.
LEMMA SendStateKeepsBuffers ==
    ASSUME SocketInv, BufferInv, SendSharedServerState PROVE BufferInv'
<1> USE ConnectionAssumption
<1>1. /\ main = "announce" /\ main' = "register" /\ Send("state", NULL)
      /\ UNCHANGED <<srv, conn_fd, open, works, adding, input, crossed,
                     registered, root, actConn, buffers>>
  BY DEF SendSharedServerState, inputVars, actVars, sessionVars
<1>2. BuffersTyped' /\ (~Joined => stream' = stream)
  BY <1>1, Sending DEF BufferInv, Messages
<1>3. Joined => Drained' = Drained
  BY <1>1, Sending, DrainedType, MessagesApart DEF BufferInv, Messages
<1>4. Joined' <=> Joined
  BY <1>1 DEF Joined
<1>5. Lists'
  BY <1>1 DEF BufferInv, Lists, Uncrossed
<1>6. Fresh'
  BY <1>1, <1>2, FreshKept
<1>7. Sent'
  BY <1>1, <1>3, <1>4 DEF BufferInv, Sent
<1> QED
  BY <1>2, <1>5, <1>6, <1>7 DEF BufferInv

LEMMA RegisterKeepsBuffers ==
    ASSUME SocketInv, BufferInv, RegisterBuffer PROVE BufferInv'
<1>1. /\ main = "register"
      /\ main' = IF conn_fd = NULL \/ root \in registered THEN "idle"
                                                          ELSE "write"
      /\ UNCHANGED <<srv, conn_fd, open, works, adding, input, crossed,
                     registered, root, stream, actConn, buffers>>
  BY DEF RegisterBuffer, inputVars, actVars, sessionVars
<1>2. srv = "up"
  BY <1>1 DEF SocketInv, SocketsTyped, DeadServer
<1>3. BuffersTyped' /\ Fresh'
  BY <1>1 DEF BufferInv, BuffersTyped, Fresh
<1>4. Lists'
  BY <1>1, <1>2 DEF BufferInv, Lists, Uncrossed
<1>5. Drained' = Drained /\ (Joined' <=> Joined)
  BY <1>1 DEF Drained, Draining, RemovedAfter, Joined
<1>6. Sent'
  BY <1>1, <1>2, <1>5 DEF BufferInv, Lists, Uncrossed, Sent, Joined
<1> QED
  BY <1>3, <1>4, <1>6 DEF BufferInv

LEMMA SendBufferKeepsBuffers ==
    ASSUME SocketInv, BufferInv, SendBuffer PROVE BufferInv'
<1>1. /\ main = "write" /\ main' = "idle" /\ Send("add", root)
      /\ registered' = registered \cup {root}
      /\ UNCHANGED <<srv, conn_fd, open, works, adding, input, crossed, root,
                     actConn, buffers>>
  BY DEF SendBuffer, inputVars, actVars, sessionVars
<1>2. srv = "up" /\ root \in Bufs /\ registered \subseteq {root}
  BY <1>1 DEF SocketInv, SocketsTyped, DeadServer, BufferInv, Lists
<1>3. BuffersTyped' /\ (~Joined => stream' = stream)
  BY <1>1, <1>2, Sending DEF BufferInv, Messages
<1>4. Joined => Drained' = Drained \cup {root}
  BY <1>1, <1>2, Sending, DrainedType, MessagesApart DEF BufferInv, Messages
<1>5. Joined' <=> Joined
  BY <1>1 DEF Joined
<1>6. Lists'
  BY <1>1, <1>2 DEF BufferInv, Lists, Uncrossed
<1>7. Fresh'
  BY <1>1, <1>3, FreshKept
<1>8. Sent'
  BY <1>1, <1>4, <1>5 DEF BufferInv, Sent
<1> QED
  BY <1>3, <1>6, <1>7, <1>8 DEF BufferInv

LEMMA ResizeKeepsBuffers ==
    ASSUME SocketInv, BufferInv, NEW b \in Bufs, Resize(b)
    PROVE  BufferInv'
<1>1. /\ srv = "up" /\ main = "idle" /\ main' = "register" /\ root' = b
      /\ registered' = registered \ {root}
      /\ IF root \in registered THEN Send("remove", root) ELSE stream' = stream
      /\ UNCHANGED <<srv, conn_fd, open, works, adding, input, crossed, actConn,
                     buffers>>
  BY DEF Resize, inputVars, actVars, sessionVars
<1>2. root \in Bufs /\ registered' = {}
  BY <1>1 DEF BufferInv, Lists
<1>3. BuffersTyped' /\ (~Joined => stream' = stream)
  BY <1>1, <1>2, Sending DEF BufferInv, Messages, BuffersTyped
<1>4. Joined /\ ~crossed => Drained' = {}
  <2> SUFFICES ASSUME Joined, ~crossed PROVE Drained' = {}
    OBVIOUS
  <2>1. registered = {root} /\ Drained = {root}
    BY <1>1 DEF BufferInv, Lists, Uncrossed, Sent, Joined
  <2> QED
    BY <1>1, <1>2, <2>1, Sending, DrainedType, MessagesApart
       DEF BufferInv, Messages
<1>5. Joined' <=> Joined
  BY <1>1 DEF Joined
<1>6. Lists'
  BY <1>1, <1>2 DEF BufferInv, Lists, Uncrossed
<1>7. Fresh'
  BY <1>1, <1>3, FreshKept
<1>8. Sent'
  BY <1>1, <1>4, <1>5 DEF Sent
<1> QED
  BY <1>3, <1>6, <1>7, <1>8 DEF BufferInv

LEMMA TakeUpKeepsBuffers ==
    ASSUME SocketInv, BufferInv, AddFd \/ Assign PROVE BufferInv'
<1> USE ConnectionAssumption
<1>1. CASE AddFd
  <2>1. /\ main = "idle" /\ input = "idle" /\ main' = "assign" /\ works # <<>>
        /\ works' = Tail(works) /\ adding' = Head(works)
        /\ crossed' = (conn_fd # NULL \/ (crossed /\ registered # {}))
        /\ UNCHANGED <<srv, conn_fd, open, input, registered, root, stream,
                       actConn, buffers>>
    BY <1>1 DEF AddFd, actVars, sessionVars
  <2>2. ~Joined /\ ~Joined'
    BY <2>1, JoinedAlone DEF Joined
  <2>3. srv = "up"
    BY <2>1 DEF SocketInv, SocketsTyped, DeadServer
  <2>4. BuffersTyped' /\ Lists'
    BY <2>1, <2>3 DEF BufferInv, BuffersTyped, Lists, Uncrossed
  <2>5. ToSet(works) = {adding'} \cup ToSet(works')
    BY <2>1, QueueTail DEF SocketInv, SocketsTyped, Distinct
  <2>6. Fresh'
    BY <2>1, <2>5 DEF BufferInv, Fresh
  <2> QED
    BY <2>2, <2>4, <2>6 DEF BufferInv, Sent
<1>2. CASE Assign
  <2>1. /\ main = "assign" /\ main' = "announce"
        /\ conn_fd' = adding /\ adding' = NULL
        /\ UNCHANGED <<srv, open, works, input, crossed, registered, root,
                       stream, actConn, buffers>>
    BY <1>2 DEF Assign, inputVars, actVars, sessionVars
  <2>2. srv = "up" /\ adding # NULL
    BY <2>1 DEF SocketInv, SocketsTyped, DeadServer, Busy
  <2>3. BuffersTyped' /\ Fresh'
    BY <2>1 DEF SocketInv, SocketsTyped, BufferInv, BuffersTyped, Fresh
  <2>4. Lists'
    BY <2>1, <2>2 DEF BufferInv, Lists, Uncrossed
  <2>5. Joined' => Drained' = {}
    <3> SUFFICES ASSUME Joined' PROVE Drained' = {}
      OBVIOUS
    <3>1. stream' = <<>> /\ buffers' = {}
      BY <2>1, <2>2 DEF Joined, BufferInv, Fresh
    <3>2. Drained' = Draining(buffers', stream')
      BY DEF Drained, Draining, RemovedAfter
    <3> QED
      BY <3>1, <3>2, DrainingNothing
  <2>6. Sent'
    BY <2>1, <2>5 DEF Sent
  <2> QED
    BY <2>3, <2>4, <2>6 DEF BufferInv
<1> QED
  BY <1>1, <1>2

LEMMA InputKeepsBuffers ==
    ASSUME SocketInv, BufferInv, InputStep PROVE BufferInv'
<1> USE ConnectionAssumption
<1>0. UNCHANGED <<srv, main, adding, works, root, stream, actConn, buffers>>
  BY DEF InputStep, CloseHungUp, ResetConnection, ClearRegistered, mainVars,
         actVars, sessionVars
<1>1. Drained' = Drained /\ BuffersTyped' /\ Fresh'
  BY <1>0 DEF Drained, Draining, RemovedAfter, BufferInv, BuffersTyped, Fresh
<1>2. CASE CloseHungUp
  <2>1. /\ input = "idle" /\ input' = "reset" /\ open' \subseteq open
        /\ UNCHANGED <<conn_fd, registered, crossed>>
    BY <1>2 DEF CloseHungUp
  <2>2. Lists'
    BY <1>0, <2>1 DEF BufferInv, Lists, Uncrossed
  <2>3. Sent'
    BY <1>0, <1>1, <2>1 DEF BufferInv, Sent, Joined
  <2> QED
    BY <1>1, <2>2, <2>3 DEF BufferInv
<1>3. CASE ResetConnection
  <2>1. /\ input = "reset" /\ input' = "clear" /\ conn_fd' = NULL
        /\ ~crossed' => ~crossed /\ main = "idle"
        /\ UNCHANGED <<open, registered>>
    BY <1>3 DEF ResetConnection
  <2>2. Lists'
    BY <1>0, <2>1 DEF BufferInv, Lists, Uncrossed
  <2>3. Sent'
    BY <2>1 DEF Sent, Joined
  <2> QED
    BY <1>1, <2>2, <2>3 DEF BufferInv
<1>4. CASE ClearRegistered
  <2>1. /\ input = "clear" /\ input' = "idle" /\ registered' = {}
        /\ ~crossed' => ~crossed /\ main = "idle"
        /\ UNCHANGED <<open, conn_fd>>
    BY <1>4 DEF ClearRegistered, ListAfterHangup
  <2>2. Lists'
    BY <1>0, <2>1 DEF BufferInv, Lists, Uncrossed
  <2>3. Sent'
    BY <1>0, <1>1, <2>1 DEF BufferInv, Sent, Joined
  <2> QED
    BY <1>1, <2>2, <2>3 DEF BufferInv
<1> QED
  BY <1>2, <1>3, <1>4 DEF InputStep

\* A step after which the activity has nothing, and no connection that the
\* server has taken up.
LEMMA NewlyConnected ==
    ASSUME BufferInv,
           UNCHANGED <<srv, conn_fd, main, input, crossed, registered, root>>,
           actConn' # conn_fd \/ conn_fd = NULL,
           stream' = <<>>, buffers' = {}
    PROVE  BufferInv'
<1>1. BuffersTyped' /\ Lists' /\ Fresh'
  BY DEF BufferInv, BuffersTyped, Lists, Uncrossed, Fresh
<1>2. Sent'
  BY DEF Sent, Joined
<1> QED
  BY <1>1, <1>2 DEF BufferInv

LEMMA ProcessKeepsBuffers ==
    ASSUME SocketInv, BufferInv, ServerStart \/ ServerCrash \/ ActivityCrash
    PROVE  BufferInv'
<1> USE ConnectionAssumption
<1>1. CASE ServerStart
  <2>0. FirstBuffer \in Bufs
    BY DEF ConnectionAssumption, FirstBuffer
  <2>1. /\ srv = "down" /\ registered' = {} /\ root' \in Bufs
        /\ UNCHANGED <<conn_fd, open, works, adding, input, main, stream,
                       actConn, buffers>>
    BY <1>1, <2>0 DEF ServerStart, InitialList, inputVars, actVars, sessionVars
  <2>2. conn_fd = NULL /\ main = "idle" /\ input = "idle"
    BY <2>1 DEF SocketInv, DeadServer
  <2>3. BuffersTyped' /\ Lists' /\ Fresh'
    BY <2>1, <2>2 DEF BufferInv, BuffersTyped, Lists, Uncrossed, Fresh
  <2>4. Sent'
    BY <2>1, <2>2 DEF Sent, Joined
  <2> QED
    BY <2>3, <2>4 DEF BufferInv
<1>2. CASE ServerCrash
  <2>1. /\ srv' = "down" /\ conn_fd' = NULL /\ works' = <<>> /\ adding' = NULL
        /\ UNCHANGED <<stream, actConn, buffers>>
    BY <1>2 DEF ServerCrash, sessionVars
  <2> QED
    BY <2>1, EmptyQueue DEF BufferInv, BuffersTyped, Lists, Fresh, Sent, Joined
<1>3. CASE ActivityCrash
  <2>1. /\ actConn' = NULL /\ buffers' = {} /\ stream' = <<>>
        /\ UNCHANGED <<srv, conn_fd, main, input, crossed, registered, root>>
    BY <1>3 DEF ActivityCrash, serverVars, inputVars, mainVars
  <2> QED
    BY <2>1, NewlyConnected
<1> QED
  BY <1>1, <1>2, <1>3

LEMMA TryConnectKeepsBuffers ==
    ASSUME SocketInv, BufferInv, NEW svc, NEW conn, NEW posted,
           TryConnect(svc, conn, posted),
           \/ conn = actConn /\ buffers' = buffers
           \/ conn = NULL /\ buffers' = {},
           UNCHANGED <<srv, conn_fd, main, inputVars, adding, registered, root>>
    PROVE  BufferInv'
<1> USE ConnectionAssumption DEF inputVars
<1>1. CASE conn # NULL /\ actConn' = conn /\ UNCHANGED <<open, works, stream>>
  <2>1. UNCHANGED <<socketVars, buffers, stream, registered, root>>
    BY <1>1 DEF socketVars
  <2> QED
    BY <2>1, BuffersSame
<1>2. CASE /\ conn = NULL /\ stream' = <<>>
           /\ actConn' = NULL \/ \E c \in Conns : Unused(c) /\ actConn' = c
  <2>1. buffers' = {}
    BY <1>2 DEF BufferInv, Fresh
  <2>2. actConn' # conn_fd \/ conn_fd = NULL
    BY <1>2 DEF Unused
  <2> QED
    BY <1>2, <2>1, <2>2, NewlyConnected
<1> QED
  BY <1>1, <1>2 DEF TryConnect

LEMMA ActivityKeepsBuffers ==
    ASSUME SocketInv, DeadActivity, BufferInv,
           ActivityStart \/ Retry \/ ReceiveIntent \/ DisconnectOnDeath
              \/ HangUp \/ Deliver
    PROVE  BufferInv'
<1> USE ConnectionAssumption DEF mainVars, sessionVars
<1>1. CASE ActivityStart
  <2>1. TryConnect(NULL, NULL, FALSE) /\ buffers' = buffers
        /\ UNCHANGED <<srv, conn_fd, main, inputVars, adding, registered, root>>
    BY <1>1 DEF ActivityStart
  <2>2. actConn = NULL
    BY <1>1 DEF ActivityStart, DeadActivity
  <2> QED
    BY <2>1, <2>2, TryConnectKeepsBuffers
<1>2. CASE Retry
  <2>1. TryConnect(service, actConn, FALSE) /\ buffers' = buffers
        /\ UNCHANGED <<srv, conn_fd, main, inputVars, adding, registered, root>>
    BY <1>2 DEF Retry
  <2> QED
    BY <2>1, TryConnectKeepsBuffers
<1>3. CASE ReceiveIntent
  <2>1. TryConnect("current", actConn, retry) /\ buffers' = buffers
        /\ UNCHANGED <<srv, conn_fd, main, inputVars, adding, registered, root>>
    BY <1>3 DEF ReceiveIntent
  <2> QED
    BY <2>1, TryConnectKeepsBuffers
<1>4. CASE DisconnectOnDeath
  <2>1. TryConnect(service, NULL, retry) /\ buffers' = {}
        /\ UNCHANGED <<srv, conn_fd, main, inputVars, adding, registered, root>>
    BY <1>4 DEF DisconnectOnDeath
  <2> QED
    BY <2>1, TryConnectKeepsBuffers
<1>5. CASE HangUp
  <2>1. /\ actConn' = NULL /\ stream' = <<>> /\ buffers' = {}
        /\ UNCHANGED <<srv, conn_fd, main, input, crossed, registered, root>>
    BY <1>5 DEF HangUp, serverVars, inputVars
  <2> QED
    BY <2>1, NewlyConnected
<1>6. CASE Deliver
  <2>1. /\ actConn \in open /\ stream # <<>> /\ stream' = Tail(stream)
        /\ buffers' = Received(Head(stream), buffers)
        /\ UNCHANGED <<srv, conn_fd, main, input, crossed, registered, root,
                       actConn, open, works, adding>>
    BY <1>6 DEF Deliver, serverVars, inputVars
  <2>2. stream \in Seq(Messages) /\ buffers \in SUBSET Bufs
    BY DEF BufferInv, BuffersTyped
  <2>3. Head(stream) \in Messages /\ Tail(stream) \in Seq(Messages)
    BY <2>1, <2>2
  <2>4. actConn \in Conns /\ actConn \notin ToSet(works) \cup {adding}
    BY <2>1 DEF BufferInv, Fresh, SocketInv, SocketsTyped
  <2>5. Drained' = Drained
    <3>1. Drained' = Draining(buffers', stream')
      BY DEF Drained, Draining, RemovedAfter
    <3> QED
      BY <2>1, <2>2, <3>1, DrainingTail DEF Drained
  <2>6. buffers' \in SUBSET Bufs
    BY <2>1, <2>2, <2>3 DEF Received, Messages, Message
  <2>7. BuffersTyped' /\ Lists'
    BY <2>1, <2>3, <2>6 DEF BufferInv, BuffersTyped, Lists, Uncrossed
  <2>8. Fresh'
    BY <2>1, <2>4 DEF Fresh
  <2>9. Sent'
    BY <2>1, <2>5 DEF BufferInv, Sent, Joined
  <2> QED
    BY <2>7, <2>8, <2>9 DEF BufferInv
<1> QED
  BY <1>1, <1>2, <1>3, <1>4, <1>5, <1>6

-----------------------------------------------------------------------------
IInv == SocketInv /\ DeadActivity /\ BufferInv

LEMMA InitIInv == Init => IInv
<1> SUFFICES ASSUME Init PROVE IInv
  OBVIOUS
<1>1. SocketInv
  BY InitSockets
<1>2. DeadActivity
  BY DEF Init, DeadActivity
<1>3. BuffersTyped /\ Lists /\ Fresh /\ Sent
  BY DEF Init, BuffersTyped, Lists, Fresh, Sent, Joined
<1> QED
  BY <1>1, <1>2, <1>3 DEF IInv, BufferInv

\* A dead activity has nothing posted, broadcast to it or reported to it.
LEMMA NextKeepsDeadActivity ==
    ASSUME DeadActivity, [Next]_vars PROVE DeadActivity'
<1> SUFFICES ASSUME act' = "down"
             PROVE  /\ actConn' = NULL /\ ~retry' /\ intents' = {}
                    /\ links' = 0 /\ deaths' = 0 /\ uiDeaths' = 0
  BY DEF DeadActivity
<1>1. CASE ActivityCrash
  BY <1>1 DEF ActivityCrash
<1>2. CASE ~ActivityCrash
  <2>1. act = "down"
    BY <1>2
       DEF Next, Processes, MainStep, InputStep, ServerStart, ServerCrash,
           ActivityStart, Broadcast, AnswerRequest, AddFd, Assign,
           SendSharedServerState, RegisterBuffer, SendBuffer, CloseHungUp,
           ResetConnection, ClearRegistered, Resize, Retry, ReceiveIntent,
           ReceiveOldIntent, BinderDied, DisconnectOnDeath, HangUp, Deliver,
           vars, actVars
  <2>2. /\ actConn = NULL /\ ~retry /\ intents = {}
        /\ links = 0 /\ deaths = 0 /\ uiDeaths = 0
    BY <2>1 DEF DeadActivity
  <2>3. CASE ServerCrash
    BY <2>2, <2>3, ConnectionAssumption DEF ServerCrash, Saturated
  <2>4. CASE Broadcast \/ AnswerRequest
    BY <2>1, <2>2, <2>4 DEF Broadcast, AnswerRequest, actVars, deathVars
  <2>5. CASE ServerStart \/ MainStep \/ InputStep \/ (\E b \in Bufs : Resize(b))
             \/ UNCHANGED vars
    <3>1. UNCHANGED <<actConn, retry, intents, links, deaths, uiDeaths>>
      BY <2>5
         DEF ServerStart, MainStep, InputStep, AddFd, Assign, RegisterBuffer,
             SendSharedServerState, SendBuffer, CloseHungUp, ResetConnection,
             ClearRegistered, Resize, vars, actVars, deathVars
    <3> QED
      BY <2>2, <3>1
  <2>6. ~ActivityStart
    BY DEF ActivityStart
  <2>7. ~(Retry \/ HangUp \/ Deliver)
    <3>1. ~Retry
      BY <2>2 DEF Retry
    <3>2. ~HangUp /\ ~Deliver
      BY <2>2 DEF HangUp, Deliver
    <3> QED
      BY <3>1, <3>2
  <2>8. ~ReceiveIntent /\ ~ReceiveOldIntent
    <3>1. "current" \notin intents /\ "old" \notin intents
      BY <2>2
    <3> QED
      BY <3>1 DEF ReceiveIntent, ReceiveOldIntent
  <2>9. ~BinderDied /\ ~DisconnectOnDeath
    <3>1. ~(deaths > 0) /\ ~(uiDeaths > 0)
      BY <2>2
    <3>2. ~BinderDied
      BY <3>1 DEF BinderDied
    <3>3. ~DisconnectOnDeath
      BY <3>1 DEF DisconnectOnDeath
    <3> QED
      BY <3>2, <3>3
  <2> QED
    BY <1>2, <2>3, <2>4, <2>5, <2>6, <2>7, <2>8, <2>9 DEF Next, Processes
<1> QED
  BY <1>1, <1>2

LEMMA NextKeepsIInv ==
    ASSUME IInv, [Next]_vars PROVE IInv'
<1> USE DEF IInv
<1>1. SocketInv' /\ DeadActivity'
  BY NextKeepsSockets, NextKeepsDeadActivity
<1>2. CASE Processes
  BY <1>1, <1>2, ProcessKeepsBuffers, ActivityKeepsBuffers DEF Processes
<1>3. CASE MainStep
  BY <1>1, <1>3, TakeUpKeepsBuffers, SendStateKeepsBuffers,
     RegisterKeepsBuffers, SendBufferKeepsBuffers DEF MainStep
<1>4. CASE \E b \in Bufs : Resize(b)
  BY <1>1, <1>4, ResizeKeepsBuffers
<1>5. CASE InputStep
  BY <1>1, <1>5, InputKeepsBuffers
<1>6. CASE Retry \/ ReceiveIntent \/ DisconnectOnDeath \/ HangUp \/ Deliver
  BY <1>1, <1>6, ActivityKeepsBuffers
<1>7. CASE Broadcast \/ AnswerRequest \/ ReceiveOldIntent \/ BinderDied
           \/ UNCHANGED vars
  <2>1. UNCHANGED <<socketVars, buffers, stream, registered, root>>
    BY <1>7 DEF Broadcast, AnswerRequest, ReceiveOldIntent, BinderDied, vars,
                serverVars, mainVars, actVars, sessionVars, socketVars
  <2> QED
    BY <1>1, <2>1, BuffersSame
<1> QED
  BY <1>2, <1>3, <1>4, <1>5, <1>6, <1>7 DEF Next

LEMMA Invariance == Spec => []IInv
<1>1. IInv /\ [Next]_vars => IInv'
  BY NextKeepsIInv
<1> QED
  BY InitIInv, <1>1, PTL DEF Spec

\* For any number of connections, resizes and deaths, and hang-ups at any
\* moment: a freed buffer is never registered, and what the server has
\* registered is what it has sent on the connection it is joined by, with the
\* root window's buffer, unless a hang-up crossed the main thread.
THEOREM BuffersAreAgreed == Spec => []BuffersAgree
<1>1. IInv => BuffersAgree
  <2> SUFFICES ASSUME IInv PROVE BuffersAgree
    OBVIOUS
  <2>1. ASSUME Joined, main = "idle", input = "idle", ~crossed
        PROVE  registered = Drained /\ root \in registered
    <3>1. srv = "up" /\ conn_fd # NULL
      BY <2>1 DEF IInv, SocketInv, SocketsTyped, DeadServer, Joined
    <3>2. registered = {root} /\ Drained = {root}
      BY <2>1, <3>1 DEF IInv, BufferInv, Lists, Uncrossed, Sent
    <3> QED
      BY <3>2
  <2> QED
    BY <2>1 DEF IInv, BufferInv, Lists, BuffersAgree
<1> QED
  BY Invariance, <1>1, PTL

\* No step of a living server closes a connection the activity still holds or
\* replaces it in conn_fd; it is forgotten only by the handler that hangs up
\* another one.
THEOREM NobodyIsForsaken == Spec => NotForsaken
<1>1. IInv /\ [Next]_vars
         => [Joined /\ ~Joined' /\ srv' = "up" =>
                actConn' # conn_fd \/ ForgetsAnother]_vars
  BY StepForsakesNobody DEF IInv
<1> QED
  BY Invariance, <1>1, PTL DEF Spec, NotForsaken
=============================================================================
