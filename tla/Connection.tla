----------------------------- MODULE Connection -----------------------------
(***************************************************************************)
(* How the X server and the activity find each other, and find each other  *)
(* again.  The server broadcasts an intent with its binder (lorie/         *)
(* cmdentrypoint.c, CmdEntryPoint.java); the activity keeps the binder as  *)
(* service, asks it for a socket and connects (MainActivity.java, lorie/   *)
(* activity.c).  Through the socket the server sends its shared state and  *)
(* the buffers it has registered.  Either process may die at any moment,   *)
(* and the activity learns of it twice: from the socket and from the       *)
(* binder, in any order and as late as it likes.                           *)
(*                                                                         *)
(* In the server three threads take part: the main thread (addFd and       *)
(* lorieRegisterBuffer, split where another thread can come in between),   *)
(* the input thread (handleLorieEvents) and binder threads.  The           *)
(* activity's part runs on its GUI thread, but for the death notice.       *)
(***************************************************************************)
EXTENDS Naturals, Sequences, SequencesExt

CONSTANTS
    Conns,        \* socket pairs
    Bufs,         \* buffers of the root window, at most one per resize
    NULL,
    MaxLinks      \* bound: death notices counted apart; more act as MaxLinks

ASSUME ConnectionAssumption ==
    /\ NULL \notin Conns \cup Bufs \cup {"current", "old"}
    /\ Bufs # {}
    /\ MaxLinks \in Nat \ {0}

VARIABLES
    \* --- X server
    srv,         \* the process: "up" or "down"
    conn_fd,     \* its current connection
    open,        \* connections whose end in the server is open
    works,       \* connections waiting for addFd (QueueWorkProc)
    main,        \* where the main thread is
    adding,      \* the connection addFd works on
    input,       \* where handleLorieEvents is, ...
    hanging,     \* ... and the connection it was called for
    registered,  \* registeredBuffers
    root, used,  \* buffer of the root window, and all it has had
    crossed,     \* history: a hang-up was handled while the main thread was
                 \* at work, or after the next connection was taken up
    \* --- on the way
    stream,      \* messages on actConn that the activity has not read
    request,     \* requestConnection has reached the server's port
    intents,     \* broadcasts: of the running server and of dead ones
    \* --- activity
    act,         \* the process: "up" or "down"
    actConn,     \* its conn_fd
    service,     \* the binder it has: "current", "old" or NULL
    links,       \* how often linkToDeath was called on the running server
    deaths,      \* death notices on their way to the binder thread ...
    uiDeaths,    \* ... and from there to the GUI thread
    retry,       \* tryConnect has been posted with a delay
    gotState,    \* the shared state has been received
    buffers      \* buffers received

mainVars   == <<main, adding, root, used>>
inputVars  == <<input, hanging, crossed>>
serverVars == <<srv, conn_fd, open, works, registered, inputVars, mainVars>>
deathVars  == <<links, deaths, uiDeaths>>
sessionVars == <<gotState, buffers>>
actVars    == <<act, actConn, service, deathVars, retry, sessionVars>>
vars == <<serverVars, stream, request, intents, actVars>>

Init ==
    /\ srv = "down" /\ conn_fd = NULL /\ open = {} /\ works = <<>>
    /\ main = "idle" /\ adding = NULL /\ registered = {}
    /\ input = "idle" /\ hanging = NULL /\ crossed = FALSE
    /\ root = NULL /\ used = {}
    /\ stream = <<>> /\ request = FALSE /\ intents = {}
    /\ act = "down" /\ actConn = NULL /\ service = NULL
    /\ links = 0 /\ deaths = 0 /\ uiDeaths = 0 /\ retry = FALSE
    /\ gotState = FALSE /\ buffers = {}

Saturated(n) == IF n > MaxLinks THEN MaxLinks ELSE n

-----------------------------------------------------------------------------
(* The X server's process.                                                 *)

\* xorg_list_init(&registeredBuffers)
InitialList == {}

\* The first root buffer is made before anybody is connected.  Buffers are
\* known by numbers, which every process counts from the beginning.
FirstBuffer == CHOOSE b \in Bufs : TRUE

ServerStart ==
    /\ srv = "down" /\ srv' = "up"
    /\ registered' = InitialList
    /\ root' = FirstBuffer /\ used' = {FirstBuffer}
    /\ UNCHANGED <<conn_fd, open, works, inputVars, main, adding, stream,
                   request, intents, actVars>>

\* The process dies with all its descriptors; the kernel reports the death
\* of its binder once per linkToDeath.
ServerCrash ==
    /\ srv = "up" /\ srv' = "down"
    /\ conn_fd' = NULL /\ open' = {} /\ works' = <<>>
    /\ main' = "idle" /\ adding' = NULL
    /\ input' = "idle" /\ hanging' = NULL /\ crossed' = FALSE
    /\ request' = FALSE
    /\ intents' = IF intents = {} THEN {} ELSE {"old"}
    /\ service' = IF service = "current" THEN "old" ELSE service
    /\ deaths' = Saturated(deaths + links) /\ links' = 0
    /\ UNCHANGED <<registered, root, used, stream, act, actConn, uiDeaths,
                   retry, sessionVars>>

\* sendBroadcastDelayed, once per second while nobody is connected.
Broadcast ==
    /\ srv = "up" /\ act = "up" /\ conn_fd = NULL
    /\ intents' = intents \cup {"current"}
    /\ UNCHANGED <<serverVars, stream, request, actVars>>

\* listenForConnections: somebody asked for a broadcast.
AnswerRequest ==
    /\ srv = "up" /\ request
    /\ request' = FALSE
    /\ intents' = IF act = "up" THEN intents \cup {"current"} ELSE intents
    /\ UNCHANGED <<serverVars, stream, actVars>>

-----------------------------------------------------------------------------
(* The server's main thread.                                               *)

Message(type, b) == [type |-> type, buf |-> b]

\* write() and sendmsg() on the current connection; without a reader, or a
\* connection, what is written is lost.
Send(type, b) ==
    stream' = IF conn_fd # NULL /\ conn_fd \in open /\ conn_fd = actConn
              THEN Append(stream, Message(type, b))
              ELSE stream

\* Connections the input thread watches: those addFd has registered.
Watched == open \ ToSet(works)

\* mutant of HungUp: every event is taken for an error.
AnyEvent == Watched

\* Those whose other end is closed: X_NOTIFY_ERROR.
HungUp == {c \in Watched : c # actConn}

\* addFd: InputThreadRegisterDev, which waits for the input thread's lock
\* and with it for a handler that runs; from then on nothing keeps the two
\* threads apart.  Then conn_fd; then lorieActivityConnected with its two
\* messages.
AddFd ==
    /\ main = "idle" /\ works # <<>> /\ input = "idle"
    /\ adding' = Head(works) /\ works' = Tail(works)
    /\ main' = "assign"
    /\ crossed' = (conn_fd # NULL \/ (crossed /\ registered # {}))
    /\ UNCHANGED <<srv, conn_fd, open, input, hanging, registered, root, used,
                   stream, request, intents, actVars>>

Assign ==
    /\ main = "assign"
    /\ conn_fd' = adding /\ adding' = NULL
    /\ main' = "announce"
    /\ UNCHANGED <<srv, open, works, inputVars, registered, root, used, stream,
                   request, intents, actVars>>

SendSharedServerState ==
    /\ main = "announce"
    /\ Send("state", NULL)
    /\ main' = "register"
    /\ UNCHANGED <<srv, conn_fd, open, works, adding, inputVars, registered,
                   root, used, request, intents, actVars>>

\* lorieRegisterBuffer: nothing to do without a connection or for a buffer
\* that is registered ...
RegisterBuffer ==
    /\ main = "register"
    /\ main' = IF conn_fd = NULL \/ root \in registered THEN "idle"
                                                        ELSE "write"
    /\ UNCHANGED <<srv, conn_fd, open, works, adding, inputVars, registered,
                   root, used, stream, request, intents, actVars>>

\* ... otherwise send it, then put it into the list.
SendBuffer ==
    /\ main = "write"
    /\ Send("add", root)
    /\ registered' = registered \cup {root}
    /\ main' = "idle"
    /\ UNCHANGED <<srv, conn_fd, open, works, adding, inputVars, root, used,
                   request, intents, actVars>>

\* lorieRRScreenSetSize: destroying the old pixmap unregisters its buffer
\* (lorieUnregisterBuffer) and frees it, which unlinks it in any case; then
\* the new one is registered.
Resize(b) ==
    /\ srv = "up" /\ main = "idle" /\ b \in Bufs \ used
    /\ IF root \in registered THEN Send("remove", root) ELSE UNCHANGED stream
    /\ registered' = registered \ {root}
    /\ root' = b /\ used' = used \cup {b}
    /\ main' = "register"
    /\ UNCHANGED <<srv, conn_fd, open, works, adding, inputVars, request,
                   intents, actVars>>

-----------------------------------------------------------------------------
(* The server's input thread: handleLorieEvents with X_NOTIFY_ERROR, at    *)
(* any moment, whatever the main thread is doing.                          *)

CloseHungUp ==
    /\ input = "idle" /\ input' = "reset"
    /\ \E c \in HungUp : hanging' = c /\ open' = open \ {c}
    /\ UNCHANGED <<srv, conn_fd, works, registered, crossed, mainVars, stream,
                   request, intents, actVars>>

\* conn_fd = -1, whichever connection hung up.
ResetConnection ==
    /\ input = "reset" /\ input' = "clear"
    /\ conn_fd' = NULL
    /\ crossed' = (crossed \/ main # "idle" \/ conn_fd \notin {hanging, NULL})
    /\ UNCHANGED <<srv, open, works, hanging, registered, mainVars, stream,
                   request, intents, actVars>>

\* mutant of ListAfterHangup: the buffers stay registered.
ListKept == registered

ListAfterHangup == {}

ClearRegistered ==
    /\ input = "clear" /\ input' = "idle" /\ hanging' = NULL
    /\ registered' = ListAfterHangup
    /\ crossed' = (crossed \/ main # "idle")
    /\ UNCHANGED <<srv, conn_fd, open, works, mainVars, stream, request,
                   intents, actVars>>

-----------------------------------------------------------------------------
(* The activity.                                                           *)

Unused(c) == c \notin open \cup {conn_fd, adding, hanging, actConn}

\* tryConnect, with the binder svc and the connection conn; posted says
\* whether another attempt is waiting already.  A call of a dead binder
\* throws, and the port may not be reached in time.
TryConnect(svc, conn, posted) ==
    \/ /\ conn # NULL
       /\ actConn' = conn /\ service' = svc /\ retry' = posted
       /\ UNCHANGED <<open, works, stream, request>>
    \/ /\ conn = NULL /\ svc # "current"
       /\ actConn' = NULL /\ service' = NULL /\ retry' = TRUE
       /\ request' \in {request, request \/ (srv = "up" /\ svc = NULL)}
       /\ stream' = <<>>
       /\ UNCHANGED <<open, works>>
    \/ /\ conn = NULL /\ svc = "current"
       /\ \E c \in Conns :
             /\ Unused(c)
             /\ actConn' = c
             /\ open' = open \cup {c} /\ works' = Append(works, c)
       /\ service' = svc /\ retry' = posted /\ stream' = <<>>
       /\ UNCHANGED request

\* onCreate
ActivityStart ==
    /\ act = "down" /\ act' = "up"
    /\ TryConnect(NULL, NULL, FALSE)
    /\ UNCHANGED <<srv, conn_fd, inputVars, registered, mainVars, intents,
                   deathVars, sessionVars>>

ActivityCrash ==
    /\ act = "up" /\ act' = "down"
    /\ actConn' = NULL /\ service' = NULL /\ retry' = FALSE
    /\ links' = 0 /\ deaths' = 0 /\ uiDeaths' = 0
    /\ gotState' = FALSE /\ buffers' = {}
    /\ stream' = <<>> /\ intents' = {}
    /\ UNCHANGED <<serverVars, request>>

\* The delayed tryConnect.
Retry ==
    /\ retry
    /\ TryConnect(service, actConn, FALSE)
    /\ UNCHANGED <<srv, conn_fd, inputVars, registered, mainVars, intents, act,
                   deathVars, sessionVars>>

\* onReceiveConnection with the binder of the running server ...
ReceiveIntent ==
    /\ "current" \in intents /\ intents' = intents \ {"current"}
    /\ links' = Saturated(links + 1)
    /\ TryConnect("current", actConn, retry)
    /\ UNCHANGED <<srv, conn_fd, inputVars, registered, mainVars, act, deaths,
                   uiDeaths, sessionVars>>

\* ... or of one that died in the meantime, which is kept but not called.
ReceiveOldIntent ==
    /\ "old" \in intents /\ intents' = intents \ {"old"}
    /\ service' = "old"
    /\ UNCHANGED <<serverVars, stream, request, act, actConn, deathVars,
                   retry, sessionVars>>

\* The death recipient: service = null on the binder thread, whatever binder
\* it holds by now ...
BinderDied ==
    /\ deaths > 0 /\ deaths' = deaths - 1
    /\ service' = NULL
    /\ uiDeaths' = Saturated(uiDeaths + 1)
    /\ UNCHANGED <<serverVars, stream, request, intents, act, actConn, links,
                   retry, sessionVars>>

\* ... then, on the GUI thread, connect(-1) and clientConnectedStateChanged,
\* which tries to connect.
DisconnectOnDeath ==
    /\ uiDeaths > 0 /\ uiDeaths' = uiDeaths - 1
    /\ gotState' = FALSE /\ buffers' = {}
    /\ TryConnect(service, NULL, retry)
    /\ UNCHANGED <<srv, conn_fd, inputVars, registered, mainVars, intents, act,
                   links, deaths>>

\* xcallback: the server's end is closed.  clientConnectedStateChanged is
\* called first and finds the connection still there, so nobody reconnects.
HangUp ==
    /\ actConn # NULL /\ actConn \notin open
    /\ actConn' = NULL /\ stream' = <<>>
    /\ gotState' = FALSE /\ buffers' = {}
    /\ UNCHANGED <<serverVars, request, intents, act, service,
                   deathVars, retry>>

Received(m, bs) ==
    CASE m.type = "add"    -> bs \cup {m.buf}
      [] m.type = "remove" -> bs \ {m.buf}
      [] OTHER             -> bs

\* xcallback: one message.
Deliver ==
    /\ actConn # NULL /\ actConn \in open /\ stream # <<>>
    /\ LET m == Head(stream)
       IN /\ gotState' = (gotState \/ m.type = "state")
          /\ buffers' = Received(m, buffers)
    /\ stream' = Tail(stream)
    /\ UNCHANGED <<serverVars, request, intents, act, actConn, service,
                   deathVars, retry>>

-----------------------------------------------------------------------------
MainStep ==
    AddFd \/ Assign \/ SendSharedServerState \/ RegisterBuffer \/ SendBuffer

InputStep == CloseHungUp \/ ResetConnection \/ ClearRegistered

Processes == ServerStart \/ ServerCrash \/ ActivityStart \/ ActivityCrash

Next ==
    \/ Processes
    \/ Broadcast \/ AnswerRequest \/ MainStep \/ InputStep
    \/ \E b \in Bufs : Resize(b)
    \/ Retry \/ ReceiveIntent \/ ReceiveOldIntent
    \/ BinderDied \/ DisconnectOnDeath \/ HangUp \/ Deliver

Spec == Init /\ [][Next]_vars

(* Every thread of a live process runs, broadcasts and notices arrive.  A  *)
(* request sent again and again reaches the port some time.                *)
Fairness ==
    /\ WF_vars(Broadcast) /\ WF_vars(AnswerRequest)
    /\ WF_vars(MainStep) /\ WF_vars(InputStep)
    /\ WF_vars(Retry) /\ SF_vars(Retry /\ request')
    /\ WF_vars(ReceiveIntent) /\ WF_vars(ReceiveOldIntent)
    /\ WF_vars(BinderDied) /\ WF_vars(DisconnectOnDeath)
    /\ WF_vars(HangUp) /\ WF_vars(Deliver)

FairSpec == Spec /\ Fairness

-----------------------------------------------------------------------------
\* The two ends of one connection, both open.
Joined == conn_fd # NULL /\ conn_fd = actConn /\ conn_fd \in open

RemovedAfter(b, s, i) ==
    \E j \in DOMAIN s : j > i /\ s[j] = Message("remove", b)

\* What is left of the buffers bs, and added to them, by the messages s.
Draining(bs, s) ==
    {b \in Bufs : \/ b \in bs /\ ~RemovedAfter(b, s, 0)
                  \/ \E i \in DOMAIN s : /\ s[i] = Message("add", b)
                                         /\ ~RemovedAfter(b, s, i)}

\* What the activity will have once it has read all that was sent.
Drained == Draining(buffers, stream)

\* "Already registered": the server's list says what the activity has been
\* sent on this connection, not on an earlier one, and the root window's
\* buffer is part of it; otherwise the activity waits for it in vain.  Only a
\* hang-up that crossed the main thread's work, or that came after the next
\* connection, may spoil this, and no longer than to the first connection
\* taken up with an empty list.  Whatever crosses, a buffer that has been
\* freed is not in the list.
BuffersAgree ==
    /\ srv = "up" => registered \subseteq {root}
    /\ Joined /\ main = "idle" /\ input = "idle" /\ ~crossed =>
         registered = Drained /\ root \in registered

\* handleLorieEvents is about to forget a connection that did not hang up.
ForgetsAnother == input = "reset" /\ hanging # conn_fd

\* While the server lives, a connection with two open ends is ended by the
\* activity only: the server never closes it, nor replaces it in conn_fd by
\* another.  There is one way to lose it: an older connection's hang-up is
\* handled late, and conn_fd = -1 hits the newer one.
NotForsaken ==
    [][Joined /\ ~Joined' /\ srv' = "up" =>
          actConn' # conn_fd \/ ForgetsAnother]_vars

Established ==
    Joined /\ gotState /\ root \in buffers

\* Once both processes stay alive, they get and stay connected, and the
\* activity has the shared state and the root window's buffer, whatever died
\* before and in which order the news arrived; unless, in the connection they
\* end up with, a hang-up has crossed the main thread.
ReconnectsUnlessCrossed ==
    <>[](srv = "up" /\ act = "up") => <>[]Established \/ <>[]crossed

\* "We should recover connection in the case if file descriptor for some
\* reason was broken", without that exception.  False of the code.
Reconnects == <>[](srv = "up" /\ act = "up") => <>[]Established

=============================================================================
