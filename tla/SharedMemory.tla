---------------------------- MODULE SharedMemory ----------------------------
(***************************************************************************)
(* System V shared memory emulated over abstract UNIX sockets              *)
(* (shm/shmem.c).  The creator of a segment keeps its descriptor and       *)
(* answers on a socket whose number is part of the identifier; a key is a  *)
(* symbolic link that holds the identifier.  Every process has one thread  *)
(* that makes the calls and one, started by its first shmget, that         *)
(* answers.  The calling thread holds the process's mutex while it waits   *)
(* for the answer of another process.                                      *)
(***************************************************************************)
EXTENDS Integers, Sequences, SequencesExt, FiniteSets

CONSTANTS
  Procs,      \* process ids
  Roots,      \* processes there from the beginning; the others are forked
  Keys,       \* keys, other than IPC_PRIVATE
  HalfWord,   \* 0x10000: an id is two half words
  Tries,      \* 4096: socket numbers tried
  MaxMems,    \* bound: segments created
  MaxCalls,   \* bound: calls made
  MaxDeaths   \* bound: processes that die

IPC_PRIVATE == 0
NoLink == 0

ASSUME SharedMemoryAssumption ==
  /\ Procs \subseteq Nat \ {0} /\ Roots \subseteq Procs /\ IPC_PRIVATE \notin Keys
  /\ HalfWord \in Nat \ {0} /\ HalfWord % 2 = 0 /\ Tries \in 1..HalfWord
  /\ MaxMems \in Nat /\ MaxCalls \in Nat /\ MaxDeaths \in Nat

VARIABLES
  life,     \* per process: "unborn", "alive" or "dead"
  st,       \* per process: the static variables of shmem.c, see NoState
  call,     \* per process: the call being made and where it is
  thread,   \* per process: the answering thread and the caller it serves
  conn,     \* per process: the socket it waits on for an answer
  sock,     \* per socket number: who accepts, and which processes have it open
  link,     \* the symbolic links of the keys
  usable,   \* links can be made in, and removed from, their directory
  mems,     \* history: the segments created
  hist      \* history: calls made; a link was, or may be, removed that is in use

vars == <<life, st, call, thread, conn, sock, link, usable, mems, hist>>

SocketIds == 0..(HalfWord - 1)
NoState == [setup |-> 0, localId |-> 0, listening |-> FALSE, counter |-> 0, shmem |-> <<>>, mutex |-> "free"]
Idle == [at |-> "idle", op |-> "none", key |-> IPC_PRIVATE, id |-> 0, new |-> -1]
NoThread == [at |-> "none", for |-> 0]
Accepting == [at |-> "accept", for |-> 0]
NoConn == [at |-> "none", to |-> 0, holders |-> {}, mem |-> 0]

-----------------------------------------------------------------------------
(* Identifiers: int arithmetic of 32 bits, with C's division. *)

ashv_shmid_from_counter(s, c) ==
  LET n == s * HalfWord + c
  IN  IF n < (HalfWord * HalfWord) \div 2 THEN n ELSE n - HalfWord * HalfWord

ashv_socket_id_from_shmid(id) == IF id >= 0 THEN id \div HalfWord ELSE -((-id) \div HalfWord)

ashv_find_local_index(table, id) == {i \in DOMAIN table : table[i].id = id}

\* Mutant: the child of a fork goes on with its parent's socket number.
KeepsSocketId(s, p) ==
  IF s.setup \in {0, p} THEN [s EXCEPT !.setup = p]
  ELSE [s EXCEPT !.setup = p, !.shmem = <<>>, !.mutex = "free"]

\* What a call finds first: a child of a fork forgets its parent's state, the
\* mutex that a thread of the parent may have held included.
ashv_check_pid(s, p) ==
  IF s.setup \in {0, p} THEN [s EXCEPT !.setup = p]
  ELSE [NoState EXCEPT !.setup = p, !.counter = s.counter]

-----------------------------------------------------------------------------
Init ==
  /\ life = [p \in Procs |-> IF p \in Roots THEN "alive" ELSE "unborn"]
  /\ st = [p \in Procs |-> NoState]
  /\ call = [p \in Procs |-> Idle]
  /\ thread = [p \in Procs |-> NoThread]
  /\ conn = [p \in Procs |-> NoConn]
  /\ sock = [s \in SocketIds |-> [by |-> 0, holders |-> {}]]
  /\ link = [k \in Keys |-> NoLink]
  /\ usable \in BOOLEAN
  /\ mems = <<>>
  /\ hist = [calls |-> 0, misled |-> FALSE]

-----------------------------------------------------------------------------
(* Calls. *)

Begin(p, op, key, id) ==
  /\ life[p] = "alive" /\ call[p] = Idle /\ hist.calls < MaxCalls
  /\ hist' = [hist EXCEPT !.calls = @ + 1]
  /\ call' = [call EXCEPT ![p] = [Idle EXCEPT !.at = "lock", !.op = op, !.key = key, !.id = id]]


Return(p, state) ==
  /\ call' = [call EXCEPT ![p] = Idle]
  /\ st' = [st EXCEPT ![p] = [state EXCEPT !.mutex = "free"]]

\* shmget, up to the mutex: the first call binds a socket and starts the
\* answering thread; it fails when no number is free.
shmget(p, key) ==
  LET s == ashv_check_pid(st[p], p)
      free == {i \in 0..(Tries - 1) : sock[(p + i) % HalfWord].holders = {}}
  IN  \/ /\ s.listening
         /\ Begin(p, "get", key, 0)
         /\ st' = [st EXCEPT ![p] = s]
         /\ UNCHANGED <<sock, thread>>
      \/ /\ ~s.listening /\ free # {}
         /\ Begin(p, "get", key, 0)
         /\ \E i \in free :
              /\ \A j \in free : i <= j
              /\ st' = [st EXCEPT ![p] = [s EXCEPT !.localId = (p + i) % HalfWord, !.listening = TRUE]]
              /\ sock' = [sock EXCEPT ![(p + i) % HalfWord] = [by |-> p, holders |-> {p}]]
         /\ thread' = [thread EXCEPT ![p] = Accepting]

ShmgetStep(p) ==
  /\ \E k \in Keys \cup {IPC_PRIVATE} : shmget(p, k)
  /\ UNCHANGED <<life, conn, link, usable, mems>>

\* shmat, shmdt and shmctl(IPC_RMID), up to the mutex.  Any id may be attached;
\* to detach or remove a segment never seen here does nothing, and is left out.
OtherCall(p) ==
  /\ \/ \E m \in DOMAIN mems : Begin(p, "at", IPC_PRIVATE, mems[m].id)
     \/ \E seg \in Range(st[p].shmem) : Begin(p, "rm", IPC_PRIVATE, seg.id)
     \/ \E seg \in Range(st[p].shmem) : seg.addr /\ Begin(p, "dt", IPC_PRIVATE, seg.id)
  /\ st' = [st EXCEPT ![p] = ashv_check_pid(st[p], p)]
  /\ UNCHANGED <<life, thread, conn, sock, link, usable, mems>>

\* The mutex is taken; an operation that does not wait for others is one step.
Locked(p, op) == call[p].at = "lock" /\ call[p].op = op /\ st[p].mutex = "free"

GoOn(p, at) ==
  /\ call' = [call EXCEPT ![p].at = at]
  /\ st' = [st EXCEPT ![p].mutex = "main"]

\* A segment that cannot be had from its owner: shmget takes the key over.
Refused(p, id) ==
  IF call[p].op = "get"
  THEN /\ call' = [call EXCEPT ![p].at = "unlink", ![p].id = id]
       /\ st' = [st EXCEPT ![p].mutex = "main"]
  ELSE Return(p, st[p])

\* The owners of a key: a segment in use, or one about to be created.  An id
\* with a socket number of 0x8000 or more is negative, and leads to no socket.
InUse(m, k) ==
  mems[m].key = k /\ mems[m].id >= 0 /\ ~mems[m].removed /\ life[mems[m].by] = "alive"
Creating(p, k) == call[p].at = "create" /\ call[p].key = k /\ call[p].new >= 0
Owned(k, id) ==
  \/ \E m \in DOMAIN mems : InUse(m, k) /\ mems[m].id = id
  \/ \E p \in Procs : Creating(p, k) /\ call[p].new = id

\* An error of the sockets takes an owner for none.
Misled(p, id, error) ==
  hist' = [hist EXCEPT !.misled = @ \/ (error /\ call[p].op = "get" /\ Owned(call[p].key, id))]

\* ashv_read_remote_segment, as far as the request: socket(), connect() and
\* send() may fail although the other process listens.
Ask(p, id) ==
  LET s == ashv_socket_id_from_shmid(id)
      open == s \in SocketIds /\ sock[s].holders # {}
  IN  \/ /\ open
         /\ conn' = [conn EXCEPT ![p] = [NoConn EXCEPT !.at = "queued", !.to = s]]
         /\ call' = [call EXCEPT ![p].at = "wait", ![p].id = id]
         /\ st' = [st EXCEPT ![p].mutex = "main"]
         /\ UNCHANGED hist
      \/ Refused(p, id) /\ Misled(p, id, open) /\ UNCHANGED conn

\* shmget: is there a link, and is its segment known here?
ReadLink(p) ==
  /\ (Locked(p, "get") /\ call[p].key # IPC_PRIVATE) \/ call[p].at = "readlink"
  /\ LET id == link[call[p].key]
         here == ashv_find_local_index(st[p].shmem, id)
     IN  \/ id # NoLink /\ here # {} /\ Return(p, st[p]) /\ UNCHANGED <<conn, hist>>
         \/ id # NoLink /\ here = {} /\ Ask(p, id)
         \/ id = NoLink /\ GoOn(p, "symlink") /\ UNCHANGED <<conn, hist>>
  /\ UNCHANGED <<life, thread, sock, link, usable, mems>>

Segment(id, mem, key) == [id |-> id, mem |-> mem, addr |-> FALSE, marked |-> FALSE, key |-> key]
Add(s, seg) == [s EXCEPT !.shmem = Append(@, seg)]
First(table, id) == CHOOSE i \in ashv_find_local_index(table, id) :
                      \A j \in ashv_find_local_index(table, id) : i <= j

\* shmat: mmap, which may fail.
Mapped(s, id) == {[s EXCEPT !.shmem[First(s.shmem, id)].addr = @ \/ ok] : ok \in BOOLEAN}

\* ashv_read_remote_segment: the answer, whose descriptor or size may not be
\* had.  Without one the connection is closed once nobody has it open, and a
\* queued one with the socket.
Receive(p) ==
  /\ call[p].at = "wait"
  /\ conn' = [conn EXCEPT ![p] = NoConn]
  /\ LET id == call[p].id
         m == conn[p].mem
         s == Add(st[p], Segment(id, m, mems[m].key))
     IN  \/ conn[p].at = "answered" /\ call[p].op = "get" /\ Return(p, s) /\ UNCHANGED hist
         \/ conn[p].at = "answered" /\ call[p].op = "at" /\ (\E t \in Mapped(s, id) : Return(p, t)) /\ UNCHANGED hist
         \/ /\ conn[p].at \in {"answered", "closed"}
            /\ Refused(p, id) /\ Misled(p, id, conn[p].at = "answered")
  /\ UNCHANGED <<life, thread, sock, link, usable, mems>>

\* shmget: whatever the link says by now, it is removed, if the directory allows.
Unlink(p) ==
  /\ call[p].at = "unlink"
  /\ \/ /\ hist' = [hist EXCEPT !.misled = @ \/ link[call[p].key] \notin {NoLink, call[p].id}]
        /\ link' = [link EXCEPT ![call[p].key] = NoLink]
     \/ ~usable /\ UNCHANGED <<link, hist>>
  /\ GoOn(p, "symlink")
  /\ UNCHANGED <<life, thread, conn, sock, usable, mems>>

\* The number of the new segment, drawn once: the id, and the counter then.
Number(p) ==
  LET next == (st[p].counter + 1) % (HalfWord \div 2)
  IN  IF call[p].new # -1 THEN [id |-> call[p].new, counter |-> st[p].counter]
      ELSE [id |-> ashv_shmid_from_counter(st[p].localId, next), counter |-> next]

\* Mutant: a link that is there already is taken for the own one.
LinkOverwritten(p) == TRUE

LinkMade(p) == usable /\ link[call[p].key] = NoLink

\* Somebody has read this id in the link and may still remove it.  It is a
\* dead process's then, whose socket number is in use again.
AskedFor(key, id) == \E q \in Procs :
  call[q].at \in {"wait", "unlink"} /\ call[q].op = "get" /\ call[q].key = key /\ call[q].id = id

\* shmget: the link is made, unless somebody was faster or it cannot be made:
\* whatever the error of symlink(), shmget starts again.
Symlink(p) ==
  /\ call[p].at = "symlink"
  /\ LET n == Number(p)
     IN  /\ st' = [st EXCEPT ![p].counter = n.counter]
         /\ \/ /\ LinkMade(p)
               /\ link' = [link EXCEPT ![call[p].key] = n.id]
               /\ hist' = [hist EXCEPT !.misled = @ \/ AskedFor(call[p].key, n.id)]
               /\ call' = [call EXCEPT ![p].at = "create", ![p].new = n.id]
            \/ /\ ~LinkMade(p)
               /\ call' = [call EXCEPT ![p].at = "readlink", ![p].new = n.id]
               /\ UNCHANGED <<link, hist>>
  /\ UNCHANGED <<life, thread, conn, sock, usable, mems>>

\* shmget: the region, which may fail; the link stays then.
Create(p) ==
  /\ (Locked(p, "get") /\ call[p].key = IPC_PRIVATE) \/ call[p].at = "create"
  /\ LET n == Number(p)
         s == [st[p] EXCEPT !.counter = n.counter]
         m == Len(mems) + 1
     IN  \/ /\ m <= MaxMems
            /\ mems' = Append(mems, [id |-> n.id, key |-> call[p].key, by |-> p, removed |-> FALSE])
            /\ Return(p, Add(s, Segment(n.id, m, call[p].key)))
         \/ Return(p, s) /\ UNCHANGED mems
  /\ UNCHANGED <<life, thread, conn, sock, link, usable, hist>>

\* shmat: a segment of another process is asked for; the own ones are known.
Shmat(p) ==
  /\ Locked(p, "at")
  /\ LET id == call[p].id
         here == ashv_find_local_index(st[p].shmem, id)
     IN  \/ here # {} /\ (\E s \in Mapped(st[p], id) : Return(p, s)) /\ UNCHANGED <<conn, hist>>
         \/ here = {} /\ ashv_socket_id_from_shmid(id) # st[p].localId /\ Ask(p, id)
         \/ here = {} /\ ashv_socket_id_from_shmid(id) = st[p].localId /\ Return(p, st[p]) /\ UNCHANGED <<conn, hist>>
  /\ UNCHANGED <<life, thread, sock, link, usable, mems>>

\* Mutant: the entries behind the deleted one are not moved.
DropLast(table, i) == Front(table)

android_shmem_delete(table, i) == RemoveAt(table, i)

\* shmdt of the address of a segment: a marked or a foreign one is forgotten.
Shmdt(p) ==
  /\ Locked(p, "dt")
  /\ LET s == st[p]
         at == {i \in ashv_find_local_index(s.shmem, call[p].id) : s.shmem[i].addr}
     IN  \/ at = {} /\ Return(p, s)
         \/ \E i \in at :
              IF s.shmem[i].marked \/ ashv_socket_id_from_shmid(s.shmem[i].id) # s.localId
              THEN Return(p, [s EXCEPT !.shmem = android_shmem_delete(@, i)])
              ELSE Return(p, [s EXCEPT !.shmem[i].addr = FALSE])
  /\ UNCHANGED <<life, thread, conn, sock, link, usable, mems, hist>>

\* shmctl(IPC_RMID): an attached segment is marked, another one deleted.  The
\* link of its key stays.
Shmctl(p) ==
  /\ Locked(p, "rm")
  /\ LET s == st[p]
         at == ashv_find_local_index(s.shmem, call[p].id)
         i == First(s.shmem, call[p].id)
     IN  \/ at = {} /\ Return(p, s) /\ UNCHANGED mems
         \/ /\ at # {}
            /\ Return(p, IF s.shmem[i].addr THEN [s EXCEPT !.shmem[i].marked = TRUE]
                         ELSE [s EXCEPT !.shmem = android_shmem_delete(@, i)])
            /\ mems' = [mems EXCEPT ![s.shmem[i].mem].removed = @ \/ mems[s.shmem[i].mem].by = p]
  /\ UNCHANGED <<life, thread, conn, sock, link, usable, hist>>

-----------------------------------------------------------------------------
(* The answering thread (ashv_thread_function). *)

Accept(p, c) ==
  /\ life[p] = "alive" /\ thread[p].at = "accept"
  /\ conn[c].at = "queued" /\ sock[conn[c].to].by = p
  /\ conn' = [conn EXCEPT ![c].at = "accepted", ![c].holders = {p}]
  /\ thread' = [thread EXCEPT ![p] = [at |-> "lock", for |-> c]]
  /\ UNCHANGED <<life, st, call, sock, link, usable, mems, hist>>

ThreadLocks(p) ==
  /\ thread[p].at = "lock" /\ st[p].mutex = "free"
  /\ st' = [st EXCEPT ![p].mutex = "thread"]
  /\ thread' = [thread EXCEPT ![p].at = "answer"]
  /\ UNCHANGED <<life, call, conn, sock, link, usable, mems, hist>>

\* A connection that p no longer has open.
LetGo(c, p) ==
  LET rest == c.holders \ {p}
  IN  IF c.at = "accepted" /\ c.holders # {} /\ rest = {} THEN [c EXCEPT !.at = "closed", !.holders = {}]
      ELSE [c EXCEPT !.holders = rest]

Descriptor(table, id) == table[First(table, id)].mem

\* The key and the descriptor are sent, or nothing; then the connection is
\* closed here, while a child forked meanwhile still has it open.
Answer(p) ==
  /\ thread[p].at = "answer"
  /\ LET c == thread[p].for
         found == ashv_find_local_index(st[p].shmem, call[c].id)
     IN  conn' = IF conn[c].at # "accepted" THEN conn
                 ELSE IF found = {} THEN [conn EXCEPT ![c] = LetGo(@, p)]
                 ELSE [conn EXCEPT ![c] = [NoConn EXCEPT !.at = "answered",
                                             !.mem = Descriptor(st[p].shmem, call[c].id)]]
  /\ st' = [st EXCEPT ![p].mutex = "free"]
  /\ thread' = [thread EXCEPT ![p] = Accepting]
  /\ UNCHANGED <<life, call, sock, link, usable, mems, hist>>

-----------------------------------------------------------------------------
(* Processes. *)

\* The child has the parent's variables and open files, but only the thread
\* that forked.  A parent that made no call yet has nothing to pass on.
Fork(p, q) ==
  /\ life[p] = "alive" /\ call[p] = Idle /\ st[p].setup # 0 /\ life[q] = "unborn"
  /\ life' = [life EXCEPT ![q] = "alive"]
  /\ st' = [st EXCEPT ![q] = st[p]]
  /\ sock' = [s \in SocketIds |->
       IF p \in sock[s].holders THEN [sock[s] EXCEPT !.holders = @ \cup {q}] ELSE sock[s]]
  /\ conn' = [c \in Procs |->
       IF p \in conn[c].holders THEN [conn[c] EXCEPT !.holders = @ \cup {q}] ELSE conn[c]]
  /\ UNCHANGED <<call, thread, link, usable, mems, hist>>

\* A process dies, at any point.  Its sockets close unless a child has them.
Die(p) ==
  /\ life[p] = "alive" /\ Cardinality({q \in Procs : life[q] = "dead"}) < MaxDeaths
  /\ life' = [life EXCEPT ![p] = "dead"]
  /\ st' = [st EXCEPT ![p] = NoState]
  /\ call' = [call EXCEPT ![p] = Idle]
  /\ thread' = [thread EXCEPT ![p] = NoThread]
  /\ sock' = [s \in SocketIds |-> [by |-> IF sock[s].by = p THEN 0 ELSE sock[s].by,
                                   holders |-> sock[s].holders \ {p}]]
  /\ conn' = [c \in Procs |->
       IF c = p THEN NoConn
       ELSE IF conn[c].at = "queued" /\ sock'[conn[c].to].holders = {} THEN [conn[c] EXCEPT !.at = "closed"]
       ELSE LetGo(conn[c], p)]
  /\ UNCHANGED <<link, usable, mems, hist>>

\* The directory of the links fills up or becomes read-only, or recovers.
Directory ==
  /\ usable' = ~usable
  /\ UNCHANGED <<life, st, call, thread, conn, sock, link, mems, hist>>

-----------------------------------------------------------------------------
MainStep(p) ==
  \/ ReadLink(p) \/ Receive(p) \/ Unlink(p) \/ Symlink(p) \/ Create(p)
  \/ Shmat(p) \/ Shmdt(p) \/ Shmctl(p)
ThreadStep(p) == (\E c \in Procs : Accept(p, c)) \/ ThreadLocks(p) \/ Answer(p)

Next ==
  \/ Directory
  \/ \E p \in Procs :
       \/ ShmgetStep(p) \/ OtherCall(p) \/ MainStep(p) \/ ThreadStep(p) \/ Die(p)
       \/ \E q \in Procs : Fork(p, q)

\* Both threads of a living process go on, one that waits for a mutex which is
\* free time and again gets it, and connections are accepted in their order.
\* Nobody has to call, fork or die, and the directory need not recover.
Fairness ==
  /\ \A p \in Procs : SF_vars(MainStep(p)) /\ WF_vars(ThreadStep(p))
  /\ \A c \in Procs : SF_vars(\E p \in Procs : Accept(p, c))

Spec == Init /\ [][Next]_vars /\ Fairness

-----------------------------------------------------------------------------
Living == {p \in Procs : life[p] = "alive"}
\* The table a process would use: a child of a fork drops the inherited one.
Table(p) == ashv_check_pid(st[p], p).shmem

\* Whoever asks for an identifier is given the memory created under it, and
\* no two segments of living creators share one: a child of a fork counts on
\* with a socket number of its own.
RightMemory ==
  /\ \A p \in Living : \A i \in DOMAIN Table(p) :
       LET seg == Table(p)[i] IN seg.id = mems[seg.mem].id /\ seg.key = mems[seg.mem].key
  /\ \A m, n \in DOMAIN mems :
       m # n /\ mems[m].id = mems[n].id => ~({mems[m].by, mems[n].by} \subseteq Living)

\* A segment stays with its creator until he removes it: detaching, removing
\* others, or another process that removes it do not touch it.  It holds for
\* the identifiers that are not negative, of sockets below 0x8000, whatever the
\* numbers of the other processes.
KeptUntilRemoved == \A m \in DOMAIN mems :
  mems[m].by \in Living /\ ~mems[m].removed /\ mems[m].id >= 0
  => \E i \in DOMAIN Table(mems[m].by) : Table(mems[m].by)[i].mem = m

\* "Store index in the lower 15 bits and the socket id in the higher 16 bits":
\* a creator finds his socket in the identifier, so the same for any of them.
\* False of the code for negative identifiers.
EverySegmentKept == \A m \in DOMAIN mems :
  mems[m].by \in Living /\ ~mems[m].removed
  => \E i \in DOMAIN Table(mems[m].by) : Table(mems[m].by)[i].mem = m

\* "If connection refused take ownership of the key": the same of every key,
\* whatever went wrong, since an owner that is there does not refuse.
KeyHasOneOwner ==
  \A k \in Keys : \A m, n \in DOMAIN mems : InUse(m, k) /\ InUse(n, k) => m = n

\* A key has one segment at a time among the identifiers that lead to a socket,
\* unless shmget was misled: an error of the sockets took its owner for none, a
\* link was removed that somebody else had just made, or one was made that
\* somebody, who read the same id of a dead process there, is about to remove.
OneOwnerPerKey == ~hist.misled => KeyHasOneOwner

Calling(p) == call[p].at # "idle"

\* Nobody is left to answer p: its connection is with a process that died or
\* has answered, and only a child of that process still has it open.
Orphaned(p) ==
  \/ conn[p].at = "queued" /\ sock[conn[p].to].by = 0
  \/ conn[p].at = "accepted" /\ \A q \in Living : ~(thread[q].for = p /\ thread[q].at \in {"lock", "answer"})
Answerer(p) == IF conn[p].at = "queued" THEN {sock[conn[p].to].by} ELSE conn[p].holders
\* p wants to change the link while the directory does not allow it.
Stuck(p) == ~usable /\ call[p].at \in {"unlink", "symlink"}
\* p is one of a group of processes that all hold their mutex, and each of
\* which is stuck, or waits for nobody or for another one of the group.
Hung(p) == \E S \in SUBSET Living :
  p \in S /\ \A q \in S :
    Stuck(q) \/ (call[q].at = "wait" /\ (Orphaned(q) \/ Answerer(q) \cap S # {}))


KeyedCallEnds == \A p \in Procs :
  (call[p].op = "get" /\ call[p].key # IPC_PRIVATE) ~> ~Calling(p)

\* "If connected and opened, done. If connection refused take ownership of the
\* key and create the symlink": every shmget of a key ends in one of the two,
\* as long as links can be made.
KeyedCallReturns == []usable => KeyedCallEnds

\* "If no symlink, create it", with "no infinite loop" to be done: a shmget of a
\* key ends also when the link cannot be made.  False of the code.
CreatesOrFails == KeyedCallEnds
=============================================================================
