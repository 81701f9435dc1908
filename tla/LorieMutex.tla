----------------------------- MODULE LorieMutex -----------------------------
(***************************************************************************)
(* lorie_mutex_lock and lorie_mutex_unlock (lorie/lorie.h): the mutex in   *)
(* the memory shared by the X server and the activity, which keeps the     *)
(* server from writing the root window while the renderer copies it.  The  *)
(* C library has no robust mutexes, so a process that cannot get the lock  *)
(* in time and finds the connection to its peer broken takes the holder    *)
(* for dead and initialises the mutex anew.  How long it waits plays no    *)
(* role here: the deadline is taken from another clock than the one        *)
(* pthread_mutex_timedlock measures with, and may be over at once.         *)
(*                                                                         *)
(* One thread of each process uses the lock: the server's main thread      *)
(* (loriePrepareAccess, lorieFinishAccess) and the renderer thread         *)
(* (rendererRedrawLocked).  The connection is modelled as far as           *)
(* lorieConnectionAlive sees it, in each process by its own conn_fd.  The  *)
(* server keeps its end of a connection that the activity has closed until *)
(* its input thread handles the hang-up, which may be after the next       *)
(* connection was added.                                                   *)
(***************************************************************************)

CONSTANTS
    Server,      \* the X server's process
    Activities,  \* activity processes, in the order of their choosing
    Conns,       \* socket pairs
    NULL         \* no process, no descriptor (-1) and pid 0

ASSUME MutexAssumption ==
    /\ Server \notin Activities
    /\ NULL \notin Activities \cup Conns \cup {Server}

Procs == Activities \cup {Server}

VARIABLES
    pc,          \* where each process's thread is
    owner,       \* the thread that holds the pthread mutex, dead or alive
    lockingPid,  \* the field of that name
    conn_fd,     \* the server's conn_fd
    ends,        \* connections whose end in the server is open
    fd,          \* the conn_fd of each activity
    attached     \* activities whose renderer uses the shared state

connVars == <<conn_fd, ends, fd, attached>>
vars == <<pc, owner, lockingPid, connVars>>

\* "off": not started; "run": outside; "try": in pthread_mutex_timedlock;
\* "reinit": decided to initialise the mutex; "got": locked, pid not
\* written; "held": inside; "clear": pid cleared, not unlocked; "dead".
PC == {"off", "run", "try", "reinit", "got", "held", "clear", "dead"}

Init ==
    /\ pc = [p \in Procs |-> IF p = Server THEN "run" ELSE "off"]
    /\ owner = NULL /\ lockingPid = NULL
    /\ conn_fd = NULL /\ ends = {} /\ fd = [a \in Activities |-> NULL]
    /\ attached = {}

\* mutant of Alive: a connection counts while the own descriptor is there,
\* without the poll that sees the peer's death.
AliveByDescriptor(p) ==
    IF p = Server THEN conn_fd # NULL ELSE fd[p] # NULL

\* The activity's end of a connection is open.
Opened(c) == \E a \in Activities : fd[a] = c

\* lorieConnectionAlive: the own descriptor exists and poll reports neither
\* an error nor that the other end is closed.
Alive(p) ==
    IF p = Server THEN conn_fd # NULL /\ Opened(conn_fd) ELSE fd[p] \in ends

Live(p) == pc[p] \notin {"off", "dead"}

\* The critical section, from the lock's return to the unlock's.
Inside(p) == pc[p] \in {"got", "held", "clear"}

-----------------------------------------------------------------------------
(* The lock.                                                               *)

Step(p, from, to) == pc[p] = from /\ pc' = [pc EXCEPT ![p] = to]

\* A thread wants the lock.  The renderer draws only while it has a state.
Lock(p) ==
    /\ p \in Activities => p \in attached
    /\ Step(p, "run", "try")
    /\ UNCHANGED <<owner, lockingPid, connVars>>

\* pthread_mutex_timedlock succeeds ...
TimedLock(p) ==
    /\ owner = NULL /\ owner' = p
    /\ Step(p, "try", "got")
    /\ UNCHANGED <<lockingPid, connVars>>

\* ... and *lockingPid = getpid().
SetPid(p) ==
    /\ Step(p, "got", "held")
    /\ lockingPid' = p
    /\ UNCHANGED <<owner, connVars>>

\* mutant of HolderMayLive: the connection is not consulted.
HolderIsOwnThread(p) == lockingPid = p

\* The test after ETIMEDOUT: is it worth trying again?
HolderMayLive(p) == lockingPid = p \/ Alive(p)

\* pthread_mutex_timedlock returns ETIMEDOUT and nothing says that the
\* holder lives.
TimedOut(p) ==
    /\ owner # NULL /\ ~HolderMayLive(p)
    /\ Step(p, "try", "reinit")
    /\ UNCHANGED <<owner, lockingPid, connVars>>

\* pthread_mutex_init on the mutex, whoever has it.
Reinit(p) ==
    /\ Step(p, "reinit", "try")
    /\ owner' = NULL
    /\ UNCHANGED <<lockingPid, connVars>>

\* lorie_mutex_unlock: *lockingPid = 0 ...
ClearPid(p) ==
    /\ Step(p, "held", "clear")
    /\ lockingPid' = NULL
    /\ UNCHANGED <<owner, connVars>>

\* ... then pthread_mutex_unlock, which fails for a mutex that was
\* initialised anew in the meantime.
Unlock(p) ==
    /\ Step(p, "clear", "run")
    /\ owner' = IF owner = p THEN NULL ELSE owner
    /\ UNCHANGED <<lockingPid, connVars>>

-----------------------------------------------------------------------------
(* The connection and the processes around the lock.                       *)

\* An activity starts once the previous ones are gone.
Start(a) ==
    /\ \A b \in Activities : ~Live(b)
    /\ Step(a, "off", "run")
    /\ UNCHANGED <<owner, lockingPid, connVars>>

\* mutant of EndOf: the server keeps the activity's end.
WrongEnd(c, a) == a

\* getXConnection gives one end of the socket pair c to the activity a and
\* the other to addFd.
EndOf(c, a) == c

\* getXConnection and addFd, which the server's main thread runs outside its
\* drawing; then connect_ and EVENT_SHARED_SERVER_STATE in the activity.
Connect(a) ==
    /\ pc[Server] = "run" /\ pc[a] = "run"
    /\ fd[a] = NULL /\ a \notin attached
    /\ \E c \in Conns \ ends :
          /\ ~Opened(c)
          /\ conn_fd' = EndOf(c, a) /\ ends' = ends \cup {c}
          /\ fd' = [fd EXCEPT ![a] = c]
    /\ attached' = attached \cup {a}
    /\ UNCHANGED <<pc, owner, lockingPid>>

\* The activity's GUI thread closes its descriptor; the renderer may still
\* be drawing.
Close(a) ==
    /\ fd[a] # NULL /\ Live(a)
    /\ fd' = [fd EXCEPT ![a] = NULL]
    /\ UNCHANGED <<pc, owner, lockingPid, conn_fd, ends, attached>>

\* rendererSetSharedState(NULL) takes effect between two frames.
Detach(a) ==
    /\ a \in attached /\ fd[a] = NULL /\ pc[a] = "run"
    /\ attached' = attached \ {a}
    /\ UNCHANGED <<pc, owner, lockingPid, conn_fd, ends, fd>>

\* handleLorieEvents with X_NOTIFY_ERROR, on the server's input thread:
\* whichever connection hung up, conn_fd = -1.
ServerHangup(c) ==
    /\ c \in ends /\ ~Opened(c) /\ Live(Server)
    /\ ends' = ends \ {c} /\ conn_fd' = NULL
    /\ UNCHANGED <<pc, owner, lockingPid, fd, attached>>

\* A process dies; the kernel closes its ends of the sockets, and the mutex
\* keeps its holder.
Crash(p) ==
    /\ Live(p)
    /\ pc' = [pc EXCEPT ![p] = "dead"]
    /\ IF p = Server THEN conn_fd' = NULL /\ ends' = {} /\ UNCHANGED fd
       ELSE fd' = [fd EXCEPT ![p] = NULL] /\ UNCHANGED <<conn_fd, ends>>
    /\ attached' = attached \ {p}
    /\ UNCHANGED <<owner, lockingPid>>

-----------------------------------------------------------------------------
Locking(p) ==
    Lock(p) \/ TimedLock(p) \/ SetPid(p) \/ TimedOut(p) \/ Reinit(p)
    \/ ClearPid(p) \/ Unlock(p)

Next ==
    \/ \E p \in Procs : Locking(p) \/ Crash(p)
    \/ \E a \in Activities : Start(a) \/ Connect(a) \/ Close(a) \/ Detach(a)
    \/ \E c \in Conns : ServerHangup(c)

Spec == Init /\ [][Next]_vars

(* Drawing takes finite time and a live thread keeps running, so a thread  *)
(* leaves the critical section and acts on a timeout; a free mutex is not  *)
(* refused to the same thread for ever.  Nobody has to connect or draw.    *)
Fairness ==
    \A p \in Procs :
       /\ WF_vars(SetPid(p)) /\ WF_vars(ClearPid(p)) /\ WF_vars(Unlock(p))
       /\ SF_vars(TimedLock(p))
       /\ WF_vars(TimedOut(p)) /\ WF_vars(Reinit(p))

FairSpec == Spec /\ Fairness

-----------------------------------------------------------------------------
TypeOK ==
    /\ pc \in [Procs -> PC]
    /\ owner \in Procs \cup {NULL} /\ lockingPid \in Procs \cup {NULL}
    /\ conn_fd \in Conns \cup {NULL} /\ ends \in SUBSET Conns
    /\ fd \in [Activities -> Conns \cup {NULL}]
    /\ attached \in SUBSET Activities

\* The server and the activity a have the two ends of one connection.
Joined(a) == conn_fd # NULL /\ fd[a] = conn_fd

\* "Reading/drawing root window in renderer the same time X server writes it
\* can cause tearing ... so we should block X server while we are drawing":
\* two processes that are connected to each other are never both inside,
\* whatever was killed, closed or initialised anew before.
ConnectedExclusion ==
    \A a \in Activities : Joined(a) => ~(Inside(Server) /\ Inside(a))

\* The server has forgotten the connection that the activity still has,
\* because an older one hung up after it was added.
Forgotten(a) == fd[a] \in ends /\ conn_fd # fd[a]

\* A thread inside whose own lorieConnectionAlive is true still owns the
\* mutex: nobody has initialised it anew in the meantime, unless the server
\* has forgotten this very connection.
ConnectedHolderOwns ==
    \A p \in Procs :
       Inside(p) /\ Alive(p) => owner = p \/ (p \in Activities /\ Forgotten(p))

\* The same comment, for all connections: while both ends of its connection
\* are open, an activity and the server are never both inside.  False of the
\* code: a late hang-up of an older connection clears conn_fd.
OpenExclusion ==
    \A a \in Activities : fd[a] \in ends => ~(Inside(Server) /\ Inside(a))

\* "in the case if renderer or X server process unexpectedly die with locked
\* mutex we will simply reinitialize it": a thread that wants the lock gets
\* it, even from a dead holder.
LockObtained ==
    \A p \in Procs : pc[p] = "try" ~> (Inside(p) \/ pc[p] = "dead")

\* The holder died, and p has a connection to somebody else.
HolderReplaced(p) == owner \in Activities /\ pc[owner] = "dead" /\ Alive(p)

\* What lorie_mutex_lock achieves in all cases: a thread that wants the lock
\* gets it from a dead holder too, unless from some time on the holder is
\* dead and the thread's connection to somebody else makes it look alive.
LockObtainedOrReplaced ==
    \A p \in Procs :
       \/ pc[p] = "try" ~> (Inside(p) \/ pc[p] = "dead")
       \/ <>[]HolderReplaced(p)

=============================================================================
